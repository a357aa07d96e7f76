------------------------------ MODULE Overlay ------------------------------
(***************************************************************************)
(* The overlay file system (crates/bat-kernel/src/vfs.rs): a slab of       *)
(* numbered nodes with the names that refer to them, and its physical      *)
(* journal (crates/bat-kernel/src/persist.rs), whose records name nodes by *)
(* number and are replayed at the next boot.                               *)
(*                                                                         *)
(* An operation runs under the write lock of the file system, so it is one *)
(* step.  `live' is the slab; `disk' is the slab that replaying the last   *)
(* snapshot and every record since would give.  Replay is a fold over the  *)
(* records, so it is done record by record as they are written; what it    *)
(* does at the end of each frame (rebuild_free) is a step of its own,      *)
(* because frames end at any time between two operations.                  *)
(*                                                                         *)
(* A directory may be excluded from persistence (`/tmp'); a flag in each   *)
(* node says on which side of that border it is.  No image lies below the  *)
(* overlay here, so there are no whiteouts and nothing is copied up.       *)
(***************************************************************************)
EXTENDS Integers, Sequences, FiniteSets

CONSTANTS
  NameCount,    \* bound: the names are 1..NameCount
  MaxIno,       \* bound: the numbers of nodes are 0..MaxIno
  Data,         \* the contents of files
  Blank,        \* the content of an empty file
  MaxOpens,     \* bound: descriptors open on a node
  MaxBoots,     \* bound: how often the system is started again
  CrossBorder   \* TRUE: hard links may cross the border, and the excluded
                \* directory may be removed, replaced and renamed

Names == 1..NameCount
Inos == 0..MaxIno
Root == 0
NoEntry == 0    \* no directory has the root as an entry
Tmp == 1        \* the name of the excluded directory in the root

ASSUME OverlayAssumption ==
  /\ NameCount \in Nat \ {0} /\ MaxIno \in Nat \ {0}
  /\ MaxOpens \in Nat \ {0} /\ MaxBoots \in Nat
  /\ Blank \in Data
  /\ CrossBorder \in BOOLEAN

VARIABLES live, disk, boots

overlayVars == <<live, disk, boots>>

\* struct Node, fresh.
Node(kind, persist, data) ==
  [kind |-> kind, persist |-> persist, nlink |-> 0, opens |-> 0, data |-> data,
   children |-> [n \in Names |-> NoEntry]]

Vacant == Node("none", FALSE, Blank)

Used(s, i) == s[i].kind # "none"
Dirs(s) == {i \in Inos: s[i].kind = "dir"}
Files(s) == {i \in Inos: s[i].kind = "file"}
Children(s, i) == {s[i].children[n] : n \in Names} \ {NoEntry}
IsEmpty(s, i) == Children(s, i) = {}

Below(s, i) ==
  LET reach[k \in Inos] ==
        IF k = 0 THEN {i} ELSE reach[k - 1] \cup UNION {Children(s, j) : j \in reach[k - 1]}
  IN  reach[MaxIno]

-----------------------------------------------------------------------------
\* The primitives, which operations and replay share.

\* free_node: the node goes, and what it had the last link to goes with it.
Freed(s, i) ==
  LET entries(gone, c) ==
        Cardinality({e \in gone \X Names: c # NoEntry /\ s[e[1]].children[e[2]] = c})
      fall[k \in Inos] ==     \* the nodes that go in the first k rounds
        IF k = 0 THEN {i}
        ELSE LET gone == fall[k - 1]
             IN  gone \cup {c \in UNION {Children(s, j) : j \in gone}:
                              Used(s, c) /\ entries(gone, c) >= s[c].nlink}
      gone == fall[MaxIno]
  IN  [j \in Inos |->
         IF j \in gone THEN Vacant
         ELSE IF Used(s, j) THEN [s[j] EXCEPT !.nlink = @ - entries(gone, j)]
         ELSE s[j]]

\* Mutant: an open file goes with its last name.
DroppedOpen(s, i) ==
  IF s[i].nlink <= 1 THEN Freed(s, i) ELSE [s EXCEPT ![i].nlink = @ - 1]

\* drop_link
Dropped(s, i) ==
  IF s[i].nlink <= 1 /\ s[i].opens = 0 THEN Freed(s, i)
  ELSE [s EXCEPT ![i].nlink = IF @ = 0 THEN 0 ELSE @ - 1]

\* Mutant: the node that had the name before keeps its count.
LinkedOver(s, d, n, i) ==
  [s EXCEPT ![d].children[n] = i, ![i].nlink = @ + 1]

\* link_raw
Linked(s, d, n, i) ==
  LET old == s[d].children[n]
      named == [s EXCEPT ![d].children[n] = i]
      dropped == IF old \in {NoEntry, i} THEN named ELSE Dropped(named, old)
  IN  [dropped EXCEPT ![i].nlink = @ + 1]

\* unlink_raw
Unlinked(s, d, n) ==
  LET old == s[d].children[n]
      named == [s EXCEPT ![d].children[n] = NoEntry]
  IN  IF old = NoEntry THEN named ELSE Dropped(named, old)

\* place
Placed(s, i, node) == [(IF Used(s, i) THEN Freed(s, i) ELSE s) EXCEPT ![i] = node]

\* set_persist: down to nodes that have the flag already.
WithPersist(s, i, flag) ==
  LET turn[k \in Inos] ==
        IF k = 0 THEN {i} \cap {j \in Inos: s[j].persist # flag}
        ELSE turn[k - 1] \cup
             {j \in UNION {Children(s, t) : t \in turn[k - 1]}: s[j].persist # flag}
  IN  [j \in Inos |-> IF j \in turn[MaxIno] THEN [s[j] EXCEPT !.persist = flag] ELSE s[j]]

-----------------------------------------------------------------------------
\* Records, and their replay.

RecNode(s, i) == [op |-> "node", ino |-> i, kind |-> s[i].kind, data |-> s[i].data]
RecLink(d, n, i) == [op |-> "link", dir |-> d, name |-> n, ino |-> i]
RecUnlink(d, n) == [op |-> "unlink", dir |-> d, name |-> n]
RecWrite(i, data) == [op |-> "write", ino |-> i, data |-> data]

Apply(s, r) ==
  CASE r.op = "node" ->
         IF r.ino = Root THEN s ELSE Placed(s, r.ino, Node(r.kind, TRUE, r.data))
    [] r.op = "link" ->
         IF s[r.dir].kind = "dir" /\ Used(s, r.ino) THEN Linked(s, r.dir, r.name, r.ino) ELSE s
    [] r.op = "unlink" ->
         IF s[r.dir].kind = "dir" THEN Unlinked(s, r.dir, r.name) ELSE s
    [] r.op = "write" ->
         IF s[r.ino].kind = "file" THEN [s EXCEPT ![r.ino].data = r.data] ELSE s

Replayed(s, records) ==
  LET after[k \in 0..Len(records)] ==
        IF k = 0 THEN s ELSE Apply(after[k - 1], records[k])
  IN  after[Len(records)]

\* rebuild_free, at the end of replay: nodes nobody links to go.
Rebuilt(s) ==
  LET after[i \in Inos] ==
        IF i = 0 THEN s
        ELSE IF Used(after[i - 1], i) /\ after[i - 1][i].nlink = 0
             THEN Freed(after[i - 1], i)
             ELSE after[i - 1]
  IN  after[MaxIno]

\* One after the other: a sequence of sequences, as one.
Joined(seqs) ==
  LET all[k \in 0..Len(seqs)] == IF k = 0 THEN <<>> ELSE all[k - 1] \o seqs[k]
  IN  all[Len(seqs)]

\* Mutant: only the top of a subtree is journaled.
EmittedTop(s, i) == <<RecNode(s, i)>>

\* emit_subtree
Emitted(s, i) ==
  LET entry(sub, j, n) ==
        LET c == s[j].children[n]
        IN  IF c = NoEntry THEN <<>> ELSE Append(sub[c], RecLink(j, n, c))
      emit[k \in Inos] ==      \* down to k levels, for each node
        [j \in Inos |->
           IF k = 0 THEN <<>>
           ELSE <<RecNode(s, j)>> \o Joined([n \in Names |-> entry(emit[k - 1], j, n)])]
  IN  emit[MaxIno][i]

\* snapshot: the persistent nodes, then their links to persistent nodes.
Snapshotted(s) ==
  LET node(i) == IF Used(s, i) /\ s[i].persist THEN <<RecNode(s, i)>> ELSE <<>>
      link(i, n) ==
        LET c == s[i].children[n]
        IN  IF c # NoEntry /\ s[c].persist THEN <<RecLink(i, n, c)>> ELSE <<>>
      links(i) ==
        IF s[i].kind = "dir" /\ s[i].persist THEN Joined([n \in Names |-> link(i, n)]) ELSE <<>>
  IN  Joined([k \in 1..MaxIno + 1 |-> node(k - 1)])
        \o Joined([k \in 1..MaxIno + 1 |-> links(k - 1)])

Fresh == [i \in Inos |-> IF i = Root THEN Node("dir", TRUE, Blank) ELSE Vacant]

-----------------------------------------------------------------------------
\* The operations.  A path leads to a directory and a name in it; the programs
\* see the directories that have a name.

InTree(i) == i = Root \/ live[i].nlink > 0
Journal(records) == disk' = Replayed(disk, records)
JournalIn(d, records) == Journal(IF live[d].persist THEN records ELSE <<>>)

\* new_node and link_raw: the node is on its directory's side of the border.
Make(d, n, kind, opens) ==
  /\ d \in Dirs(live) /\ InTree(d) /\ live[d].children[n] = NoEntry
  /\ \E i \in {j \in Inos: ~Used(live, j)}:
       LET node == Node(kind, live[d].persist, Blank)
           made == [live EXCEPT ![i] = [node EXCEPT !.opens = opens]]
       IN  /\ live' = Linked(made, d, n, i)
           /\ JournalIn(d, <<RecNode(made, i), RecLink(d, n, i)>>)
  /\ UNCHANGED boots

Create(d, n) == Make(d, n, "file", 1)
Mkdir(d, n) == Make(d, n, "dir", 0)

Open(i) ==
  /\ i \in Files(live) /\ InTree(i) /\ live[i].opens < MaxOpens
  /\ live' = [live EXCEPT ![i].opens = @ + 1]
  /\ UNCHANGED <<disk, boots>>

\* write_ino and truncate_ino, through a descriptor.
WriteFile(i, data) ==
  /\ live[i].opens > 0 /\ live[i].data # data
  /\ live' = [live EXCEPT ![i].data = data]
  /\ JournalIn(i, <<RecWrite(i, data)>>)
  /\ UNCHANGED boots

\* release: the count goes down under the read lock; a node without a name is
\* freed under the write lock, if it still has neither.
Release(i) ==
  /\ live[i].opens > 0
  /\ live' = [live EXCEPT ![i].opens = @ - 1]
  /\ UNCHANGED <<disk, boots>>

ReleaseFrees(i) ==
  /\ i \in Files(live) /\ live[i].nlink = 0 /\ live[i].opens = 0
  /\ live' = Freed(live, i)
  /\ UNCHANGED <<disk, boots>>

\* An entry that lies on the border: that of an excluded directory.
OnBorder(d, n) == live[d].children[n] # NoEntry /\ live[live[d].children[n]].persist # live[d].persist

RemoveEntry(d, n) ==
  /\ ~OnBorder(d, n) \/ CrossBorder
  /\ live' = Unlinked(live, d, n)
  /\ JournalIn(d, <<RecUnlink(d, n)>>)
  /\ UNCHANGED boots

Unlink(d, n) == live[d].children[n] \in Files(live) /\ RemoveEntry(d, n)

Rmdir(d, n) ==
  /\ live[d].children[n] \in Dirs(live) \ {Root}
  /\ IsEmpty(live, live[d].children[n])
  /\ RemoveEntry(d, n)

Link(i, d, n) ==
  /\ i \in Files(live) /\ InTree(i)
  /\ d \in Dirs(live) /\ InTree(d) /\ live[d].children[n] = NoEntry
  /\ live[i].persist = live[d].persist \/ CrossBorder
  /\ live' = Linked(live, d, n, i)
  /\ JournalIn(d, <<RecLink(d, n, i)>>)
  /\ UNCHANGED boots

\* What may be at the new name when i is moved there.
Replaceable(i, old) ==
  \/ old = NoEntry
  \/ /\ old # i /\ live[old].kind = live[i].kind
     /\ live[old].kind = "dir" => IsEmpty(live, old)

\* May i go from a directory to another without a border in between, or over
\* the border as a whole?
MovesWhole(i, d, n, e, m) ==
  /\ ~OnBorder(d, n) /\ ~OnBorder(e, m)
  /\ live[d].persist # live[e].persist => \A j \in Below(live, i): live[j].nlink = 1

\* rename: a subtree that comes in over the border is marked and journaled
\* first, one that goes out is marked last.
Rename(d, n, e, m) ==
  LET i == live[d].children[n]
      comes == live[e].persist /\ ~live[i].persist
      goes == ~live[e].persist /\ live[i].persist
      marked == IF comes THEN WithPersist(live, i, TRUE) ELSE live
      moved == Unlinked(Linked(marked, e, m, i), d, n)
  IN
  /\ i # NoEntry /\ e \in Dirs(live) /\ InTree(e)
  /\ <<d, n>> # <<e, m>> /\ e \notin Below(live, i)
  /\ Replaceable(i, live[e].children[m])
  /\ MovesWhole(i, d, n, e, m) \/ CrossBorder
  /\ live' = IF goes THEN WithPersist(moved, i, FALSE) ELSE moved
  /\ Journal((IF comes THEN Emitted(marked, i) ELSE <<>>)
               \o (IF live[e].persist THEN <<RecLink(e, m, i)>> ELSE <<>>)
               \o (IF live[d].persist THEN <<RecUnlink(d, n)>> ELSE <<>>))
  /\ UNCHANGED boots

-----------------------------------------------------------------------------
\* Persistence

\* A frame ends here.
EndFrame ==
  /\ disk' = Rebuilt(disk)
  /\ UNCHANGED <<live, boots>>

Snapshot ==
  /\ disk' = Rebuilt(Replayed(Fresh, Snapshotted(live)))
  /\ UNCHANGED <<live, boots>>

\* persist_exclude: mkdir, and the mark.
Excluded(s) ==
  LET t == s[Root].children[Tmp] IN
  IF t \in Dirs(s) \ {Root} THEN WithPersist(s, t, FALSE) ELSE s

\* The system goes away and is started again: the overlay is restored and the
\* directory excluded, which is made if it is not there.
Boot ==
  LET restored == Rebuilt(disk)
      vacant == {j \in Inos: ~Used(restored, j)}
  IN
  /\ boots < MaxBoots
  /\ boots' = boots + 1
  /\ \/ /\ restored[Root].children[Tmp] # NoEntry
        /\ live' = Excluded(restored)
        /\ disk' = restored
     \/ /\ restored[Root].children[Tmp] = NoEntry
        /\ \E i \in vacant:
             LET made == Linked([restored EXCEPT ![i] = Node("dir", TRUE, Blank)], Root, Tmp, i)
             IN  live' = Excluded(made) /\ disk' = made

OverlayInit ==
  \E i \in 1..MaxIno:
    LET made == Linked([Fresh EXCEPT ![i] = Node("dir", TRUE, Blank)], Root, Tmp, i)
    IN  /\ live = Excluded(made) /\ disk = made
        /\ boots = 0

OverlayNext ==
  \/ \E d \in Inos, n \in Names:
       \/ Create(d, n) \/ Mkdir(d, n) \/ Unlink(d, n) \/ Rmdir(d, n)
       \/ \E i \in Inos: Link(i, d, n)
       \/ \E e \in Inos, m \in Names: Rename(d, n, e, m)
  \/ \E i \in Inos:
       \/ Open(i) \/ Release(i) \/ ReleaseFrees(i)
       \/ \E x \in Data: WriteFile(i, x)
  \/ EndFrame \/ Snapshot \/ Boot

OverlaySpec == OverlayInit /\ [][OverlayNext]_overlayVars

-----------------------------------------------------------------------------

Slab ==
  [Inos -> [kind: {"none", "file", "dir"}, persist: BOOLEAN, nlink: Nat, opens: Nat,
            data: Data, children: [Names -> Inos]]]

SlabTypes ==
  /\ live \in Slab /\ disk \in Slab
  /\ boots \in 0..MaxBoots

NamesOf(s, i) == {e \in Dirs(s) \X Names: s[e[1]].children[e[2]] = i}

\* Every entry leads to a node, every node knows how many entries lead to it,
\* and a directory has but one: `node' and `node_mut' never meet a vacant
\* number, which would trap with the lock of the file system held.
SlabSound(s) ==
  \A i \in Inos \ {Root}:
    /\ Used(s, i) => s[i].nlink = Cardinality(NamesOf(s, i))
    /\ NamesOf(s, i) # {} => Used(s, i)
    /\ i \in Dirs(s) => s[i].nlink <= 1

\* However names are linked, moved over one another and removed, the live slab
\* is sound, and its directories form one tree.
LiveTree ==
  /\ SlabSound(live)
  /\ \A i \in Dirs(live): i \in Below(live, Root)

\* "It rebuilds the same slab" (persist.rs): what can be reached through
\* directories that are not excluded has the same numbers, names and contents
\* after replay, and nothing else is there; an excluded directory comes back
\* empty, or not at all.  Before that, at any moment, what the journal holds is a
\* sound slab.
Lasting(i) == live[i].kind = "file" \/ live[i].persist

KeptTree ==
  LET reach[k \in Inos] ==
        IF k = 0 THEN {Root}
        ELSE reach[k - 1] \cup
             {i \in UNION {Children(live, d) : d \in reach[k - 1] \cap Dirs(live)}: Lasting(i)}
  IN  reach[MaxIno]

ReplayRebuilds ==
  LET back == Rebuilt(disk) IN
  /\ SlabSound(disk)
  /\ \A i \in KeptTree:
       /\ back[i].kind = live[i].kind /\ back[i].data = live[i].data
       /\ \A n \in Names:
            LET c == live[i].children[n] IN
            IF c = NoEntry \/ Lasting(c) THEN back[i].children[n] = c
            ELSE back[i].children[n] \in {c, NoEntry} /\ IsEmpty(back, c)

\* A file that is open is not freed, whatever happens to its names.
OpenStays ==
  [][boots' = boots =>
       \A i \in Inos: live[i].opens > 0 =>
         live'[i].kind = "file" /\ live'[i].opens >= live[i].opens - 1]_overlayVars

=============================================================================
