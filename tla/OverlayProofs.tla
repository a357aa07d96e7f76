---------------------------- MODULE OverlayProofs ----------------------------
(***************************************************************************)
(* Proofs about the overlay file system, for any number of nodes, names,   *)
(* contents, descriptors and boots, as long as no hard link crosses the    *)
(* border of the excluded directory and that directory stays in its place: *)
(* the live slab is sound and one tree, what the journal holds is sound at *)
(* any moment and is what lasts of the live slab, and open files stay.     *)
(*                                                                         *)
(* The invariant says that the journal holds an image of the live slab:    *)
(* what is persistent, with its names, and the excluded directory empty or *)
(* not at all.  Each operation's records, applied to the image of the slab *)
(* before it, give the image of the slab after it.                         *)
(***************************************************************************)
EXTENDS Overlay, FiniteSetTheorems, WellFoundedInduction, TLAPS

-----------------------------------------------------------------------------
\* What a slab is

NoNames == [n \in Names |-> NoEntry]

\* A vacant number has nothing in it, only directories have entries, only files
\* are open, and the root is a directory nobody names.
Shapes(s) ==
  /\ s \in Slab
  /\ \A i \in Inos:
       /\ Used(s, i) \/ s[i] = Vacant
       /\ s[i].kind # "dir" => s[i].children = NoNames
       /\ s[i].kind = "dir" => s[i].data = Blank
       /\ s[i].opens > 0 => s[i].kind = "file"
  /\ s[Root].kind = "dir" /\ s[Root].persist /\ s[Root].nlink = 0

Closed(s, X) == \A j \in X: Children(s, j) \subseteq X

\* Whatever leads from the root leads to every directory.
Tree(s) == \A X \in SUBSET Inos: Root \in X /\ Closed(s, X) => Dirs(s) \subseteq X

\* The excluded directory.
Top(s) == s[Root].children[Tmp]

\* It is there, and it is the only border between what is persistent and what is not.
Border(s) ==
  /\ Top(s) \in Dirs(s) \ {Root} /\ ~s[Top(s)].persist
  /\ \A d \in Inos, n \in Names:
       s[d].children[n] # NoEntry /\ <<d, n>> # <<Root, Tmp>> =>
         s[s[d].children[n]].persist = s[d].persist

\* What the primitives do to nodes.
Named(x, n, c) == [x EXCEPT !.children = [@ EXCEPT ![n] = c]]
Raised(x) == [x EXCEPT !.nlink = @ + 1]
Lessened(x) ==
  IF x.nlink <= 1 /\ x.opens = 0 THEN Vacant
  ELSE [x EXCEPT !.nlink = IF @ = 0 THEN 0 ELSE @ - 1]

Vacated(s, X) == [j \in Inos |-> IF j \in X THEN Vacant ELSE s[j]]
Flagged(s, X, flag) ==
  [j \in Inos |-> IF j \in X THEN [s[j] EXCEPT !.persist = flag] ELSE s[j]]

\* link_raw and unlink_raw where the node that loses its name has nothing below it.
Leaf(s, i) == IsEmpty(s, i) \/ s[i].nlink > 1 \/ s[i].opens > 0

LinkEdit(s, d, n, i) ==
  [j \in Inos |->
     IF j = d THEN Named(s[j], n, i)
     ELSE IF j = i THEN Raised(s[j])
     ELSE IF j # NoEntry /\ j = s[d].children[n] THEN Lessened(s[j])
     ELSE s[j]]

UnlinkEdit(s, d, n) ==
  [j \in Inos |->
     IF j = d THEN Named(s[j], n, NoEntry)
     ELSE IF j # NoEntry /\ j = s[d].children[n] THEN Lessened(s[j])
     ELSE s[j]]

WholeSlab(s) == s \in Slab /\ \A i \in Inos: Used(s, i) \/ s[i] = Vacant

\* The entries that lead to a node, and an edit of one entry.
Holds(s, c) == {e \in Inos \X Names: s[e[1]].children[e[2]] = c}

Puts(s, t, d, n, c) ==
  \A j \in Inos, m \in Names:
    t[j].children[m] = IF j = d /\ m = n THEN c ELSE s[j].children[m]

\* A node but for its entries, and one that has gained or lost a name.
Alike(x, y) == x.kind = y.kind /\ x.persist = y.persist
Gains(x, y) == Alike(x, y) /\ y.nlink = x.nlink + 1
Loses(x, y) ==
  \/ Alike(x, y) /\ y.nlink = x.nlink - 1
  \/ x.nlink = 1 /\ y = Vacant

LiveInv(s) == Shapes(s) /\ SlabSound(s) /\ Tree(s) /\ Border(s)

\* What the journal has of a slab: its persistent nodes that have a name, and the
\* excluded directory, with nothing in it, unless a snapshot left it out.
Stored(s, i) == i = Root \/ (s[i].persist /\ s[i].nlink > 0)

Copy(x) == [x EXCEPT !.persist = TRUE, !.opens = 0]

EmptyTop == [Node("dir", TRUE, Blank) EXCEPT !.nlink = 1]

Image(s, tops) ==
  [i \in Inos |->
     IF i = Root /\ tops = 0 THEN [Copy(s[i]) EXCEPT !.children = [@ EXCEPT ![Tmp] = NoEntry]]
     ELSE IF Stored(s, i) THEN Copy(s[i])
     ELSE IF tops = 1 /\ i = Top(s) THEN EmptyTop
     ELSE Vacant]

TreeInv == LiveInv(live) /\ boots \in 0..MaxBoots /\ \E tops \in {0, 1}: disk = Image(live, tops)

-----------------------------------------------------------------------------
\* Recursion over numbers

LEMMA Lowest ==
  ASSUME NEW S \in SUBSET Nat, S # {}
  PROVE  \E m \in S: \A q \in S: m <= q
<1>1. PICK m \in S: \A q \in S: <<q, m>> \notin OpToRel(<, Nat)
  BY NatLessThanWellFounded, WFMin, Zenon
<1>2. \A q \in S: ~(q < m)
  BY <1>1, Zenon DEF OpToRel
<1> QED
  BY <1>2

\* Induction: a set that has 0, and each place when it has the one before, has all.
LEMMA Climb ==
  ASSUME NEW n \in Nat, NEW P, 0 \in P, \A i \in 1..n: i - 1 \in P => i \in P
  PROVE  \A i \in 0..n: i \in P
<1> DEFINE Bad == {k \in 0..n: k \notin P}
<1>1. SUFFICES ASSUME Bad # {}
               PROVE  FALSE
  OBVIOUS
<1>2. PICK m \in Bad: \A q \in Bad: m <= q
  <2>1. Bad \in SUBSET Nat
    OBVIOUS
  <2> HIDE DEF Bad
  <2> QED
    BY <1>1, <2>1, Lowest
<1>3. m \in 1..n /\ m \notin P
  OBVIOUS
<1>4. m - 1 \in 0..n /\ m - 1 \notin Bad
  BY <1>2, <1>3
<1> QED
  BY <1>3, <1>4

\* What is computed place by place is computed: F gives the next from a place and
\* what was there before it.
Advances(F, n, X) == F \in [(1..n) \X X -> X]

Computed(g, F, n, b, X) ==
  g \in [0..n -> X] /\ g[0] = b /\ \A i \in 1..n: g[i] = F[<<i, g[i - 1]>>]

\* Recursion: from a first value and steps that stay in a set, there is a function that computes.
LEMMA Recursion ==
  ASSUME NEW X, NEW n, NEW b, NEW F, n \in Nat, b \in X, Advances(F, n, X)
  PROVE  \E g: Computed(g, F, n, b, X)
<1> DEFINE P == {k \in 0..n: \E g: Computed(g, F, k, b, X)}
<1>1. 0 \in P
  <2>1. Computed([i \in 0..0 |-> b], F, 0, b, X)
    BY DEF Computed
  <2>2. 0 \in 0..n
    OBVIOUS
  <2> QED
    BY <2>1, <2>2
<1>2. ASSUME NEW k \in 1..n, k - 1 \in P
      PROVE  k \in P
  <2>1. PICK g: Computed(g, F, k - 1, b, X)
    BY <1>2
  <2> DEFINE h == [i \in 0..k |-> IF i = k THEN F[<<k, g[k - 1]>>] ELSE g[i]]
  <2>2. g[k - 1] \in X
    BY <2>1 DEF Computed
  <2>3. F[<<k, g[k - 1]>>] \in X
    BY <2>2 DEF Advances
  <2>4. h \in [0..k -> X]
    BY <2>1, <2>3 DEF Computed
  <2>5. h[0] = b /\ h[k] = F[<<k, g[k - 1]>>]
    BY <2>1 DEF Computed
  <2>6. \A i \in 0..k - 1: h[i] = g[i]
    OBVIOUS
  <2>7. \A i \in 1..k - 1: i - 1 \in 0..k - 1 /\ g[i] = F[<<i, g[i - 1]>>]
    BY <2>1 DEF Computed
  <2>8. k - 1 \in 0..k - 1
    OBVIOUS
  <2> HIDE DEF h
  <2>9. ASSUME NEW i \in 1..k
        PROVE  h[i] = F[<<i, h[i - 1]>>]
    <3>1. CASE i = k
      BY <2>5, <2>6, <2>8, <3>1
    <3>2. CASE i # k
      <4>1. i \in 1..k - 1
        BY <3>2
      <4> QED
        BY <2>6, <2>7, <4>1
    <3> QED
      BY <3>1, <3>2
  <2>10. Computed(h, F, k, b, X)
    BY <2>4, <2>5, <2>9 DEF Computed
  <2> QED
    BY <2>10
<1>3. n \in P
  <2> HIDE DEF P
  <2>1. \A i \in 0..n: i \in P
    BY <1>1, <1>2, Climb
  <2> QED
    BY <2>1
<1> QED
  BY <1>3

-----------------------------------------------------------------------------
\* What is below a node

\* What the constants are: numbers and names are finite sets of natural numbers.
LEMMA SlabNumbers ==
  /\ NameCount \in Nat /\ MaxIno \in Nat /\ MaxIno > 0
  /\ Root \in Inos /\ NoEntry = Root /\ Tmp \in Names
  /\ Inos \subseteq Nat /\ IsFiniteSet(Inos) /\ Cardinality(Inos) = MaxIno + 1
  /\ Names \subseteq Nat /\ IsFiniteSet(Names)
<1>1. NameCount \in Nat /\ MaxIno \in Nat /\ MaxIno > 0 /\ NameCount > 0
  BY OverlayAssumption DEF OverlayAssumption
<1>2. IsFiniteSet(0..MaxIno) /\ Cardinality(0..MaxIno) = MaxIno + 1
  BY <1>1, FS_Interval
<1>3. IsFiniteSet(1..NameCount)
  BY <1>1, FS_Interval
<1> QED
  BY <1>1, <1>2, <1>3 DEF Inos, Names, Root, NoEntry, Tmp

NodeType ==
  [kind: {"none", "file", "dir"}, persist: BOOLEAN, nlink: Nat, opens: Nat,
   data: Data, children: [Names -> Inos]]

\* A slab, by the name of its nodes' type.
LEMMA SlabIs == Slab = [Inos -> NodeType]
  BY DEF Slab, NodeType

\* The nodes a directory has entries for.
LEMMA ChildrenAre ==
  ASSUME NEW s \in Slab, NEW i \in Inos
  PROVE  /\ Children(s, i) \subseteq Inos /\ Root \notin Children(s, i)
         /\ \A c \in Inos: c \in Children(s, i) <=>
              c # NoEntry /\ \E n \in Names: s[i].children[n] = c
<1>1. s[i].children \in [Names -> Inos]
  BY SlabIs DEF NodeType
<1> QED
  BY <1>1, SlabNumbers DEF Children

\* Below, level by level.
Reaches(g, s, i) ==
  /\ g \in [Inos -> SUBSET Inos] /\ g[0] = {i} /\ g[MaxIno] = Below(s, i)
  /\ \A k \in 1..MaxIno: g[k] = g[k - 1] \cup UNION {Children(s, j) : j \in g[k - 1]}

\* The recursion in Below has a solution.
LEMMA BelowSteps ==
  ASSUME NEW s \in Slab, NEW i \in Inos
  PROVE  \E g: Reaches(g, s, i)
<1> DEFINE Beyond(X) == X \cup UNION {Children(s, j) : j \in X}
           F == [e \in (1..MaxIno) \X SUBSET Inos |-> Beyond(e[2])]
           Solves(f) ==
             f = [k \in Inos |-> IF k = 0 THEN {i}
                                 ELSE f[k - 1] \cup UNION {Children(s, j) : j \in f[k - 1]}]
           reach == CHOOSE f: Solves(f)
<1>1. \A X \in SUBSET Inos: Beyond(X) \in SUBSET Inos
  BY ChildrenAre
<1>2. Advances(F, MaxIno, SUBSET Inos)
  <2> HIDE DEF Beyond
  <2> QED
    BY <1>1 DEF Advances
<1>3. MaxIno \in Nat /\ {i} \in SUBSET Inos /\ Inos = 0..MaxIno
  BY SlabNumbers DEF Inos
<1>4. PICK g: Computed(g, F, MaxIno, {i}, SUBSET Inos)
  <2> HIDE DEF F
  <2> QED
    BY <1>2, <1>3, Recursion, Zenon
<1> HIDE DEF F
<1>5. g \in [Inos -> SUBSET Inos] /\ g[0] = {i} /\ \A k \in 1..MaxIno: g[k] = F[<<k, g[k - 1]>>]
  BY <1>3, <1>4 DEF Computed
<1>6. \A k \in 1..MaxIno: k - 1 \in Inos /\ k \in Inos /\ k # 0
  BY <1>3
<1>7. \A k \in 1..MaxIno: g[k] = Beyond(g[k - 1])
  <2> TAKE k \in 1..MaxIno
  <2>1. g[k - 1] \in SUBSET Inos
    BY <1>5, <1>6
  <2> HIDE DEF Beyond
  <2> QED
    BY <1>5, <2>1, Zenon DEF F
<1>8. \A k \in Inos: k = 0 \/ k \in 1..MaxIno
  BY <1>3
<1>9. Solves(g)
  <2>1. \A k \in Inos: g[k] = IF k = 0 THEN {i} ELSE Beyond(g[k - 1])
    <3> HIDE DEF Beyond
    <3> QED
      BY <1>5, <1>7, <1>8, Zenon
  <2>2. g = [k \in Inos |-> g[k]]
    BY <1>5
  <2> QED
    BY <2>1, <2>2, Zenon
<1>10. Solves(reach)
  <2> HIDE DEF Solves
  <2> QED
    BY <1>9
<1>11. Below(s, i) = reach[MaxIno]
  BY DEF Below
<1>12. reach[0] = {i} /\ \A k \in 1..MaxIno: reach[k] = Beyond(reach[k - 1])
  <2> HIDE DEF reach
  <2>1. \A k \in Inos: reach[k] = IF k = 0 THEN {i} ELSE Beyond(reach[k - 1])
    BY <1>10, Zenon
  <2>2. 0 \in Inos
    BY <1>3
  <2> HIDE DEF Beyond
  <2> QED
    BY <1>6, <2>1, <2>2, Zenon
<1>13. reach = g
  <2> DEFINE P == {k \in 0..MaxIno: reach[k] = g[k]}
  <2> HIDE DEF reach, Beyond
  <2>1. 0 \in P
    <3>1. reach[0] = g[0]
      BY <1>5, <1>12, Zenon
    <3>2. 0 \in 0..MaxIno
      BY <1>3
    <3> QED
      BY <3>1, <3>2
  <2>2. \A k \in 1..MaxIno: k - 1 \in P => k \in P
    BY <1>7, <1>12
  <2>3. \A k \in 0..MaxIno: k \in P
    <3> HIDE DEF P
    <3> QED
      BY <1>3, <2>1, <2>2, Climb, Zenon
  <2>4. DOMAIN reach = Inos /\ reach = [k \in Inos |-> reach[k]]
    BY <1>10
  <2> QED
    BY <1>3, <1>5, <2>3, <2>4
<1> HIDE DEF reach
<1> QED
  BY <1>5, <1>7, <1>11, <1>13 DEF Reaches

\* Below is the least set that has the node and is closed.
LEMMA BelowIs ==
  ASSUME NEW s \in Slab, NEW i \in Inos
  PROVE  /\ Below(s, i) \in SUBSET Inos /\ i \in Below(s, i) /\ Closed(s, Below(s, i))
         /\ \A X: i \in X /\ Closed(s, X) => Below(s, i) \subseteq X
<1>1. PICK g: Reaches(g, s, i)
  BY BelowSteps
<1>2. /\ g \in [Inos -> SUBSET Inos] /\ g[0] = {i} /\ g[MaxIno] = Below(s, i)
      /\ \A k \in 1..MaxIno: g[k] = g[k - 1] \cup UNION {Children(s, j) : j \in g[k - 1]}
  BY <1>1 DEF Reaches
<1>3. MaxIno \in Nat /\ Inos = 0..MaxIno /\ IsFiniteSet(Inos) /\ Cardinality(Inos) = MaxIno + 1
  BY SlabNumbers DEF Inos
<1>4. \A k \in 1..MaxIno: k \in Inos /\ k - 1 \in Inos
  BY <1>3
<1>5. \A k \in 1..MaxIno: g[k - 1] \subseteq g[k]
  BY <1>2
<1>6. Below(s, i) \in SUBSET Inos
  BY <1>2, <1>3
<1>7. i \in Below(s, i)
  <2> DEFINE P == {k \in 0..MaxIno: i \in g[k]}
  <2>1. 0 \in P
    BY <1>2, <1>3
  <2>2. \A k \in 1..MaxIno: k - 1 \in P => k \in P
    BY <1>5
  <2>3. \A k \in 0..MaxIno: k \in P
    <3> HIDE DEF P
    <3> QED
      BY <1>3, <2>1, <2>2, Climb, Zenon
  <2>4. MaxIno \in P
    <3> HIDE DEF P
    <3> QED
      BY <1>3, <2>3
  <2> QED
    BY <1>2, <2>4
<1>8. ASSUME NEW X, i \in X, Closed(s, X)
      PROVE  Below(s, i) \subseteq X
  <2> DEFINE P == {k \in 0..MaxIno: g[k] \subseteq X}
  <2>1. 0 \in P
    BY <1>2, <1>3, <1>8
  <2>2. \A k \in 1..MaxIno: k - 1 \in P => k \in P
    BY <1>2, <1>8 DEF Closed
  <2>3. \A k \in 0..MaxIno: k \in P
    <3> HIDE DEF P
    <3> QED
      BY <1>3, <2>1, <2>2, Climb, Zenon
  <2>4. MaxIno \in P
    <3> HIDE DEF P
    <3> QED
      BY <1>3, <2>3
  <2> QED
    BY <1>2, <2>4
\* A level that adds nothing is closed, and so are those behind it.
<1>9. ASSUME NEW k \in 1..MaxIno, g[k] = g[k - 1]
      PROVE  Closed(s, g[MaxIno])
  <2> DEFINE P == {m \in 0..MaxIno: m >= k => g[m] = g[k]}
  <2>0. k \in Nat /\ k > 0 /\ k <= MaxIno
    BY <1>3
  <2>1. 0 \in P
    BY <1>3, <2>0
  <2>2. ASSUME NEW m \in 1..MaxIno, m - 1 \in P
        PROVE  m \in P
    <3>1. CASE m < k
      BY <3>1
    <3>2. CASE m = k
      BY <3>2
    <3>3. CASE m > k
      <4>1. g[m - 1] = g[k]
        BY <2>0, <2>2, <3>3
      <4>2. g[m] = g[k] \cup UNION {Children(s, j) : j \in g[k]}
        BY <1>2, <4>1
      <4>3. g[k] = g[k - 1] \cup UNION {Children(s, j) : j \in g[k - 1]}
        BY <1>2
      <4>4. g[m] = g[k]
        BY <1>9, <4>2, <4>3, Zenon
      <4> QED
        BY <4>4
    <3> QED
      BY <2>0, <3>1, <3>2, <3>3
  <2>3. \A m \in 0..MaxIno: m \in P
    <3> HIDE DEF P
    <3> QED
      BY <1>3, <2>1, <2>2, Climb, Zenon
  <2>4. MaxIno \in P
    <3> HIDE DEF P
    <3> QED
      BY <1>3, <2>3
  <2>5. g[MaxIno] = g[k]
    BY <2>0, <2>4
  <2>6. g[k] = g[k] \cup UNION {Children(s, j) : j \in g[k]}
    BY <1>2, <1>9, Zenon
  <2> QED
    BY <2>5, <2>6 DEF Closed
\* Otherwise each adds a node, and the last has them all.
<1>10. ASSUME \A k \in 1..MaxIno: g[k] # g[k - 1]
       PROVE  Closed(s, g[MaxIno])
  <2> DEFINE P == {k \in 0..MaxIno: Cardinality(g[k]) >= k + 1}
  <2>0. \A k \in Inos: IsFiniteSet(g[k]) /\ Cardinality(g[k]) \in Nat
    <3> TAKE k \in Inos
    <3>1. g[k] \in SUBSET Inos
      BY <1>2
    <3> QED
      BY <1>3, <3>1, FS_Subset, FS_CardinalityType
  <2>1. 0 \in P
    <3>1. Cardinality(g[0]) = 1
      BY <1>2, FS_Singleton, Zenon
    <3>2. 0 \in 0..MaxIno
      BY <1>3
    <3> QED
      BY <3>1, <3>2
  <2>2. ASSUME NEW k \in 1..MaxIno, k - 1 \in P
        PROVE  k \in P
    <3>1. g[k - 1] \in SUBSET g[k] /\ g[k - 1] # g[k]
      BY <1>5, <1>10
    <3>2. Cardinality(g[k - 1]) <= Cardinality(g[k]) /\ Cardinality(g[k]) # Cardinality(g[k - 1])
      BY <1>4, <2>0, <3>1, FS_Subset
    <3>3. Cardinality(g[k - 1]) >= k
      BY <2>2
    <3>4. Cardinality(g[k - 1]) \in Nat /\ Cardinality(g[k]) \in Nat
      BY <1>4, <2>0
    <3> QED
      BY <3>2, <3>3, <3>4
  <2>3. \A k \in 0..MaxIno: k \in P
    <3> HIDE DEF P
    <3> QED
      BY <1>3, <2>1, <2>2, Climb, Zenon
  <2>4. MaxIno \in P
    <3> HIDE DEF P
    <3> QED
      BY <1>3, <2>3
  <2>5. MaxIno \in Inos /\ g[MaxIno] \in SUBSET Inos
    BY <1>2, <1>3
  <2>6. Cardinality(g[MaxIno]) = Cardinality(Inos)
    <3>1. Cardinality(g[MaxIno]) <= MaxIno + 1
      BY <1>3, <2>5, FS_Subset
    <3>2. Cardinality(g[MaxIno]) >= MaxIno + 1
      BY <2>4
    <3> QED
      BY <1>3, <2>0, <2>5, <3>1, <3>2
  <2>7. g[MaxIno] = Inos
    BY <1>3, <2>5, <2>6, FS_Subset
  <2> QED
    BY <2>7, ChildrenAre DEF Closed
<1> QED
  BY <1>2, <1>6, <1>7, <1>8, <1>9, <1>10

\* Two ways to say that every directory is reached from the root.
LEMMA TreeIs ==
  ASSUME NEW s \in Slab
  PROVE  Tree(s) <=> \A i \in Dirs(s): i \in Below(s, Root)
<1>1. /\ Below(s, Root) \in SUBSET Inos /\ Root \in Below(s, Root) /\ Closed(s, Below(s, Root))
      /\ \A X: Root \in X /\ Closed(s, X) => Below(s, Root) \subseteq X
  BY SlabNumbers, BelowIs
<1> QED
  BY <1>1 DEF Tree

-----------------------------------------------------------------------------
\* What the primitives do

\* A vacant number holds a node like any other.
LEMMA VacantType == Vacant \in NodeType
  BY SlabNumbers, OverlayAssumption DEF OverlayAssumption, Vacant, Node, NodeType

\* What falls with a node is what is below it, if all of that has one name.
LEMMA FreedIs ==
  ASSUME NEW s \in Slab, NEW i \in Inos,
         \A j \in Inos: Used(s, j) \/ s[j] = Vacant,
         \A j \in Below(s, i): \A c \in Children(s, j): Used(s, c) /\ s[c].nlink <= 1
  PROVE  Freed(s, i) = Vacated(s, Below(s, i))
<1> DEFINE entries(away, c) ==
             Cardinality({e \in away \X Names: c # NoEntry /\ s[e[1]].children[e[2]] = c})
           Falls(X) == {c \in UNION {Children(s, j) : j \in X}:
                          Used(s, c) /\ entries(X, c) >= s[c].nlink}
           Solves(f) ==
             f = [k \in Inos |-> IF k = 0 THEN {i} ELSE f[k - 1] \cup Falls(f[k - 1])]
           fall == CHOOSE f: Solves(f)
<1>1. PICK g: Reaches(g, s, i)
  BY BelowSteps
<1>2. /\ g \in [Inos -> SUBSET Inos] /\ g[0] = {i} /\ g[MaxIno] = Below(s, i)
      /\ \A k \in 1..MaxIno: g[k] = g[k - 1] \cup UNION {Children(s, j) : j \in g[k - 1]}
  BY <1>1 DEF Reaches
<1>3. MaxIno \in Nat /\ Inos = 0..MaxIno /\ IsFiniteSet(Inos) /\ IsFiniteSet(Names)
  BY SlabNumbers DEF Inos
<1>4. \A k \in 1..MaxIno: k \in Inos /\ k - 1 \in Inos /\ k # 0
  BY <1>3
<1>5. \A k \in 1..MaxIno: g[k - 1] \subseteq Below(s, i)
  <2>1. /\ Below(s, i) \in SUBSET Inos /\ i \in Below(s, i) /\ Closed(s, Below(s, i))
    BY BelowIs
  <2> DEFINE P == {k \in 0..MaxIno: g[k] \subseteq Below(s, i)}
  <2>2. 0 \in P
    BY <1>2, <1>3, <2>1
  <2>3. \A k \in 1..MaxIno: k - 1 \in P => k \in P
    BY <1>2, <2>1 DEF Closed
  <2>4. \A k \in 0..MaxIno: k \in P
    <3> HIDE DEF P
    <3> QED
      BY <1>3, <2>2, <2>3, Climb, Zenon
  <2> QED
    BY <1>3, <1>4, <2>4
<1>6. ASSUME NEW X \in SUBSET Inos, NEW c
      PROVE  /\ entries(X, c) \in Nat
             /\ c \in UNION {Children(s, j) : j \in X} => entries(X, c) >= 1
             /\ c \notin UNION {Children(s, j) : j \in X} => entries(X, c) = 0
  <2> DEFINE E == {e \in X \X Names: c # NoEntry /\ s[e[1]].children[e[2]] = c}
  <2>1. IsFiniteSet(X \X Names)
    BY <1>3, FS_Subset, FS_Product, Zenon
  <2>2. IsFiniteSet(E) /\ Cardinality(E) \in Nat
    BY <2>1, FS_Subset, FS_CardinalityType
  <2>3. ASSUME c \in UNION {Children(s, j) : j \in X}
        PROVE  E # {}
    <3>1. PICK j \in X: c \in Children(s, j)
      BY <2>3
    <3>2. PICK n \in Names: s[j].children[n] = c
      BY <3>1 DEF Children
    <3>3. c # NoEntry
      BY <3>1 DEF Children
    <3>4. <<j, n>> \in E
      BY <3>2, <3>3
    <3> QED
      BY <3>4
  <2>4. ASSUME E # {}
        PROVE  c \in UNION {Children(s, j) : j \in X}
    <3>1. PICK e \in E: TRUE
      BY <2>4
    <3>2. e[1] \in X /\ e[2] \in Names /\ s[e[1]].children[e[2]] = c /\ c # NoEntry
      BY <3>1
    <3>3. c \in Children(s, e[1])
      BY <3>2 DEF Children
    <3> QED
      BY <3>2, <3>3
  <2>5. Cardinality(E) = 0 <=> E = {}
    BY <2>2, FS_EmptySet
  <2>6. entries(X, c) = Cardinality(E)
    OBVIOUS
  <2> HIDE DEF E, entries
  <2> QED
    BY <2>2, <2>3, <2>4, <2>5, <2>6
<1> HIDE DEF entries
<1>7. ASSUME NEW X \in SUBSET Below(s, i)
      PROVE  Falls(X) = UNION {Children(s, j) : j \in X}
  <2>0. Below(s, i) \in SUBSET Inos
    BY BelowIs
  <2>1. ASSUME NEW c \in UNION {Children(s, j) : j \in X}
        PROVE  Used(s, c) /\ entries(X, c) >= s[c].nlink
    <3>1. PICK j \in X: c \in Children(s, j)
      BY <2>1
    <3>2. Used(s, c) /\ s[c].nlink <= 1 /\ j \in Inos
      BY <3>1, <2>0
    <3>3. c \in Inos /\ s[c].nlink \in Nat
      BY <3>1, <3>2, ChildrenAre, SlabIs, Zenon DEF NodeType
    <3>4. entries(X, c) >= 1 /\ entries(X, c) \in Nat
      BY <1>6, <2>0, <2>1
    <3> QED
      BY <3>2, <3>3, <3>4
  <2> QED
    BY <2>1
<1> HIDE DEF Falls
<1>8. Solves(g)
  <2>1. \A k \in Inos: k = 0 \/ k \in 1..MaxIno
    BY <1>3
  <2>2. ASSUME NEW k \in Inos
        PROVE  g[k] = IF k = 0 THEN {i} ELSE g[k - 1] \cup Falls(g[k - 1])
    <3>1. CASE k = 0
      BY <1>2, <3>1
    <3>2. CASE k # 0
      <4>1. k \in 1..MaxIno
        BY <2>1, <3>2
      <4>2. Falls(g[k - 1]) = UNION {Children(s, j) : j \in g[k - 1]}
        BY <1>5, <1>7, <4>1
      <4>3. g[k] = g[k - 1] \cup UNION {Children(s, j) : j \in g[k - 1]}
        BY <1>2, <4>1
      <4> QED
        BY <3>2, <4>2, <4>3, Zenon
    <3> QED
      BY <3>1, <3>2
  <2>3. g = [k \in Inos |-> g[k]]
    BY <1>2
  <2> QED
    BY <2>2, <2>3, Zenon
<1>9. Solves(fall)
  <2> HIDE DEF Solves
  <2> QED
    BY <1>8
<1>10. fall = g
  <2> DEFINE P == {k \in 0..MaxIno: fall[k] = g[k]}
  <2>1. /\ DOMAIN fall = Inos /\ fall = [k \in Inos |-> fall[k]]
        /\ \A k \in Inos: fall[k] = IF k = 0 THEN {i} ELSE fall[k - 1] \cup Falls(fall[k - 1])
    <3> HIDE DEF fall
    <3> QED
      BY <1>9, Zenon
  <2>2. \A k \in Inos: g[k] = IF k = 0 THEN {i} ELSE g[k - 1] \cup Falls(g[k - 1])
    BY <1>8, Zenon
  <2> HIDE DEF fall
  <2>3. 0 \in P
    <3>1. 0 \in 0..MaxIno /\ 0 \in Inos
      BY <1>3
    <3>2. fall[0] = g[0]
      BY <2>1, <2>2, <3>1, Zenon
    <3> QED
      BY <3>1, <3>2
  <2>4. ASSUME NEW k \in 1..MaxIno, k - 1 \in P
        PROVE  k \in P
    <3>1. fall[k - 1] = g[k - 1]
      BY <2>4
    <3>2. k \in Inos /\ k # 0
      BY <1>4
    <3>3. fall[k] = fall[k - 1] \cup Falls(fall[k - 1])
      BY <2>1, <3>2
    <3>4. g[k] = g[k - 1] \cup Falls(g[k - 1])
      BY <2>2, <3>2, Zenon
    <3>5. fall[k] = g[k]
      BY <3>1, <3>3, <3>4, Zenon
    <3> QED
      BY <1>3, <3>2, <3>5
  <2>5. \A k \in 0..MaxIno: k \in P
    <3> HIDE DEF P
    <3> QED
      BY <1>3, <2>3, <2>4, Climb, Zenon
  <2>6. g = [k \in Inos |-> g[k]]
    BY <1>2
  <2>7. \A k \in Inos: fall[k] = g[k]
    BY <1>3, <2>5
  <2> HIDE DEF P
  <2> QED
    BY <2>1, <2>6, <2>7, Zenon
<1>11. Freed(s, i) = [j \in Inos |->
         IF j \in fall[MaxIno] THEN Vacant
         ELSE IF Used(s, j) THEN [s[j] EXCEPT !.nlink = @ - entries(fall[MaxIno], j)]
         ELSE s[j]]
  BY DEF Freed, entries, Falls
<1> HIDE DEF fall
<1>12. ASSUME NEW j \in Inos
       PROVE  (IF j \in Below(s, i) THEN Vacant
               ELSE IF Used(s, j) THEN [s[j] EXCEPT !.nlink = @ - entries(Below(s, i), j)]
               ELSE s[j]) = IF j \in Below(s, i) THEN Vacant ELSE s[j]
  <2>1. CASE j \notin Below(s, i)
    <3>1. /\ Below(s, i) \in SUBSET Inos /\ Closed(s, Below(s, i))
      BY BelowIs
    <3>2. j \notin UNION {Children(s, k) : k \in Below(s, i)}
      BY <2>1, <3>1 DEF Closed
    <3>3. entries(Below(s, i), j) = 0
      BY <1>6, <3>1, <3>2
    <3>4. s[j] \in NodeType
      BY SlabIs
    <3>5. [s[j] EXCEPT !.nlink = @ - 0] = s[j]
      BY <3>4 DEF NodeType
    <3> QED
      BY <2>1, <3>3, <3>5
  <2> QED
    BY <2>1
<1> QED
  BY <1>2, <1>10, <1>11, <1>12 DEF Vacated

\* Nothing is below a directory without entries but itself.
LEMMA EmptyBelow ==
  ASSUME NEW s \in Slab, NEW i \in Inos, IsEmpty(s, i)
  PROVE  Below(s, i) = {i}
<1>1. Closed(s, {i})
  BY DEF Closed, IsEmpty
<1> QED
  BY <1>1, BelowIs

\* free_node on a node without entries takes that node alone.
LEMMA LeafFreed ==
  ASSUME NEW s \in Slab, NEW i \in Inos,
         \A j \in Inos: Used(s, j) \/ s[j] = Vacant, IsEmpty(s, i)
  PROVE  Freed(s, i) = [s EXCEPT ![i] = Vacant]
<1>1. Below(s, i) = {i}
  BY EmptyBelow
<1>2. \A j \in Below(s, i): \A c \in Children(s, j): Used(s, c) /\ s[c].nlink <= 1
  BY <1>1 DEF IsEmpty
<1>3. Freed(s, i) = Vacated(s, {i})
  BY <1>1, <1>2, FreedIs
<1> QED
  BY <1>3, SlabIs, Zenon DEF Vacated

\* The flag goes down as far as it is new.
LEMMA FlaggedIs ==
  ASSUME NEW s \in Slab, NEW i \in Inos, NEW flag \in BOOLEAN,
         \A j \in Below(s, i): s[j].persist # flag
  PROVE  WithPersist(s, i, flag) = Flagged(s, Below(s, i), flag)
<1> DEFINE Turns(X) == {j \in UNION {Children(s, t) : t \in X}: s[j].persist # flag}
           First == {i} \cap {j \in Inos: s[j].persist # flag}
           Solves(f) ==
             f = [k \in Inos |-> IF k = 0 THEN First ELSE f[k - 1] \cup Turns(f[k - 1])]
           turn == CHOOSE f: Solves(f)
<1>1. PICK g: Reaches(g, s, i)
  BY BelowSteps
<1>2. /\ g \in [Inos -> SUBSET Inos] /\ g[0] = {i} /\ g[MaxIno] = Below(s, i)
      /\ \A k \in 1..MaxIno: g[k] = g[k - 1] \cup UNION {Children(s, j) : j \in g[k - 1]}
  BY <1>1 DEF Reaches
<1>3. MaxIno \in Nat /\ Inos = 0..MaxIno
  BY SlabNumbers DEF Inos
<1>4. \A k \in 1..MaxIno: k \in Inos /\ k - 1 \in Inos /\ k # 0
  BY <1>3
<1>5. /\ Below(s, i) \in SUBSET Inos /\ i \in Below(s, i) /\ Closed(s, Below(s, i))
  BY BelowIs
<1>6. \A k \in Inos: g[k] \subseteq Below(s, i)
  <2> DEFINE P == {k \in 0..MaxIno: g[k] \subseteq Below(s, i)}
  <2>2. 0 \in P
    BY <1>2, <1>3, <1>5
  <2>3. \A k \in 1..MaxIno: k - 1 \in P => k \in P
    BY <1>2, <1>5 DEF Closed
  <2>4. \A k \in 0..MaxIno: k \in P
    <3> HIDE DEF P
    <3> QED
      BY <1>3, <2>2, <2>3, Climb, Zenon
  <2> QED
    BY <1>3, <2>4
<1>7. ASSUME NEW X \in SUBSET Below(s, i)
      PROVE  Turns(X) = UNION {Children(s, j) : j \in X}
  BY <1>5 DEF Closed
<1>8. First = {i}
  BY <1>5
<1> HIDE DEF Turns, First
<1>9. \A k \in Inos: g[k] = IF k = 0 THEN First ELSE g[k - 1] \cup Turns(g[k - 1])
  <2> TAKE k \in Inos
  <2>1. CASE k = 0
    BY <1>2, <1>8, <2>1
  <2>2. CASE k # 0
    <3>1. k \in 1..MaxIno /\ k - 1 \in Inos
      BY <1>3, <2>2
    <3>2. Turns(g[k - 1]) = UNION {Children(s, j) : j \in g[k - 1]}
      BY <1>6, <1>7, <3>1
    <3>3. g[k] = g[k - 1] \cup UNION {Children(s, j) : j \in g[k - 1]}
      BY <1>2, <3>1
    <3> QED
      BY <2>2, <3>2, <3>3, Zenon
  <2> QED
    BY <2>1, <2>2
<1>10. Solves(g)
  <2>1. g = [k \in Inos |-> g[k]]
    BY <1>2
  <2> QED
    BY <1>9, <2>1, Zenon
<1>11. Solves(turn)
  <2> HIDE DEF Solves
  <2> QED
    BY <1>10
<1>12. turn = g
  <2> DEFINE P == {k \in 0..MaxIno: turn[k] = g[k]}
  <2>1. /\ DOMAIN turn = Inos /\ turn = [k \in Inos |-> turn[k]]
        /\ \A k \in Inos: turn[k] = IF k = 0 THEN First ELSE turn[k - 1] \cup Turns(turn[k - 1])
    <3> HIDE DEF turn
    <3> QED
      BY <1>11, Zenon
  <2> HIDE DEF turn
  <2>3. 0 \in P
    <3>1. 0 \in 0..MaxIno /\ 0 \in Inos
      BY <1>3
    <3>2. turn[0] = g[0]
      BY <1>9, <2>1, <3>1, Zenon
    <3> QED
      BY <3>1, <3>2
  <2>4. ASSUME NEW k \in 1..MaxIno, k - 1 \in P
        PROVE  k \in P
    <3>1. turn[k - 1] = g[k - 1]
      BY <2>4
    <3>2. k \in Inos /\ k # 0
      BY <1>4
    <3>3. turn[k] = turn[k - 1] \cup Turns(turn[k - 1])
      BY <2>1, <3>2, Zenon
    <3>4. g[k] = g[k - 1] \cup Turns(g[k - 1])
      BY <1>9, <3>2, Zenon
    <3>5. turn[k] = g[k]
      BY <3>1, <3>3, <3>4, Zenon
    <3> QED
      BY <1>3, <3>2, <3>5
  <2>5. \A k \in 0..MaxIno: k \in P
    <3> HIDE DEF P
    <3> QED
      BY <1>3, <2>3, <2>4, Climb, Zenon
  <2>6. g = [k \in Inos |-> g[k]]
    BY <1>2
  <2>7. \A k \in Inos: turn[k] = g[k]
    BY <1>3, <2>5
  <2> HIDE DEF P
  <2> QED
    BY <2>1, <2>6, <2>7, Zenon
<1>13. WithPersist(s, i, flag) =
         [j \in Inos |-> IF j \in turn[MaxIno] THEN [s[j] EXCEPT !.persist = flag] ELSE s[j]]
  BY DEF WithPersist, Turns, First
<1> QED
  BY <1>2, <1>12, <1>13, ZenonT(40) DEF Flagged

\* What the primitives make of a node is a node.
LEMMA NodeTypes ==
  ASSUME NEW x \in NodeType
  PROVE  /\ \A n \in Names, c \in Inos: Named(x, n, c) \in NodeType
         /\ Raised(x) \in NodeType /\ Lessened(x) \in NodeType
         /\ Copy(x) \in NodeType
         /\ \A flag \in BOOLEAN: [x EXCEPT !.persist = flag] \in NodeType
<1>1. x.children \in [Names -> Inos]
  BY DEF NodeType
<1>2. \A n \in Names, c \in Inos: [x.children EXCEPT ![n] = c] \in [Names -> Inos]
  BY <1>1
<1>3. \A n \in Names, c \in Inos: Named(x, n, c) \in NodeType
  BY <1>2 DEF Named, NodeType
<1>4. Raised(x) \in NodeType
  BY DEF Raised, NodeType
<1>5. Lessened(x) \in NodeType
  <2>1. (IF x.nlink = 0 THEN 0 ELSE x.nlink - 1) \in Nat
    BY DEF NodeType
  <2>2. [x EXCEPT !.nlink = IF x.nlink = 0 THEN 0 ELSE x.nlink - 1] \in NodeType
    BY <2>1 DEF NodeType
  <2> QED
    BY <2>2, VacantType DEF Lessened
<1>6. Copy(x) \in NodeType
  BY Zenon DEF Copy, NodeType
<1>7. \A flag \in BOOLEAN: [x EXCEPT !.persist = flag] \in NodeType
  BY DEF NodeType
<1> QED
  BY <1>3, <1>4, <1>5, <1>6, <1>7

\* drop_link on a node without entries changes that node alone.
LEMMA DroppedIs ==
  ASSUME NEW s, WholeSlab(s), NEW i \in Inos, Leaf(s, i)
  PROVE  Dropped(s, i) = [s EXCEPT ![i] = Lessened(s[i])]
<1>1. s \in [Inos -> NodeType] /\ s \in Slab
  BY SlabIs DEF WholeSlab
<1>2. CASE s[i].nlink <= 1 /\ s[i].opens = 0
  <2>1. IsEmpty(s, i)
    BY <1>1, <1>2 DEF Leaf, NodeType
  <2>2. Freed(s, i) = [s EXCEPT ![i] = Vacant]
    BY <1>1, <2>1, LeafFreed DEF WholeSlab
  <2> QED
    BY <1>2, <2>2 DEF Dropped, Lessened
<1>3. CASE ~(s[i].nlink <= 1 /\ s[i].opens = 0)
  BY <1>1, <1>3, Zenon DEF Dropped, Lessened
<1> QED
  BY <1>2, <1>3

\* children[name] = ino, by itself.
LEMMA PutIs ==
  ASSUME NEW s, WholeSlab(s), NEW d \in Inos, NEW n \in Names, NEW c \in Inos, Used(s, d)
  PROVE  /\ [s EXCEPT ![d].children[n] = c] = [s EXCEPT ![d] = Named(s[d], n, c)]
         /\ WholeSlab([s EXCEPT ![d] = Named(s[d], n, c)])
<1>1. s \in [Inos -> NodeType] /\ s[d] \in NodeType
  BY SlabIs DEF WholeSlab
<1>2. Named(s[d], n, c) \in NodeType /\ Named(s[d], n, c).kind = s[d].kind
  <2>1. Named(s[d], n, c).kind = s[d].kind
    BY <1>1 DEF Named, NodeType
  <2> QED
    BY <1>1, <2>1, NodeTypes
<1>3. [s EXCEPT ![d].children[n] = c] = [s EXCEPT ![d] = Named(s[d], n, c)]
  BY DEF Named
<1> DEFINE t == [s EXCEPT ![d] = Named(s[d], n, c)]
<1>4. t \in [Inos -> NodeType]
  BY <1>1, <1>2
<1>5. \A j \in Inos: t[j] = IF j = d THEN Named(s[d], n, c) ELSE s[j]
  BY <1>1
<1> HIDE DEF t
<1>6. WholeSlab(t)
  BY <1>2, <1>4, <1>5, SlabIs DEF WholeSlab, Used
<1> QED
  BY <1>3, <1>6 DEF t

\* What is in a directory depends on its node alone.
LEMMA SameBelow ==
  ASSUME NEW s, NEW t, NEW j, s[j] = t[j]
  PROVE  /\ Children(s, j) = Children(t, j) /\ IsEmpty(s, j) = IsEmpty(t, j)
         /\ Leaf(s, j) = Leaf(t, j)
  BY DEF Children, IsEmpty, Leaf

\* link_raw, when what had the name before is nothing, or has no entries: three nodes change.
LEMMA LinkedIs ==
  ASSUME NEW s, WholeSlab(s), NEW d \in Inos, NEW n \in Names, NEW i \in Inos,
         Used(s, d), i # d, s[d].children[n] # i,
         \/ s[d].children[n] = NoEntry
         \/ s[d].children[n] # d /\ Leaf(s, s[d].children[n])
  PROVE  Linked(s, d, n, i) = LinkEdit(s, d, n, i) /\ LinkEdit(s, d, n, i) \in Slab
<1> DEFINE old == s[d].children[n]
           named == [s EXCEPT ![d] = Named(s[d], n, i)]
           dropped == IF old \in {NoEntry, i} THEN named ELSE Dropped(named, old)
<1>1. s \in [Inos -> NodeType] /\ s[d] \in NodeType /\ old \in Inos
  BY SlabIs DEF WholeSlab, NodeType
<1>2. WholeSlab(named) /\ Linked(s, d, n, i) = [dropped EXCEPT ![i].nlink = @ + 1]
  <2>1. [s EXCEPT ![d].children[n] = i] = named /\ WholeSlab(named)
    BY PutIs, Zenon
  <2> DEFINE put == [s EXCEPT ![d].children[n] = i]
  <2>2. Linked(s, d, n, i) =
          [(IF old \in {NoEntry, i} THEN put ELSE Dropped(put, old)) EXCEPT ![i].nlink = @ + 1]
    BY DEF Linked
  <2> HIDE DEF put
  <2>3. put = named
    BY <2>1 DEF put
  <2> QED
    BY <2>1, <2>2, <2>3
<1>3. named \in [Inos -> NodeType]
  BY <1>2, SlabIs DEF WholeSlab
<1>4. \A j \in Inos: named[j] = IF j = d THEN Named(s[d], n, i) ELSE s[j]
  BY <1>1
<1> HIDE DEF named
<1>5. dropped = [j \in Inos |-> IF j # NoEntry /\ j = old THEN Lessened(named[j]) ELSE named[j]]
  <2>1. CASE old = NoEntry
    BY <1>3, <2>1
  <2>2. CASE old # NoEntry
    <3>1. old # d /\ Leaf(s, old) /\ old # i
      BY <2>2
    <3>2. named[old] = s[old]
      BY <1>1, <1>4, <3>1
    <3>3. Leaf(named, old)
      BY <3>1, <3>2, Zenon DEF Leaf, IsEmpty, Children
    <3>4. Dropped(named, old) = [named EXCEPT ![old] = Lessened(named[old])]
      BY <1>1, <1>2, <3>3, DroppedIs
    <3> QED
      BY <1>1, <1>3, <2>2, <3>1, <3>4, Zenon
  <2> QED
    BY <2>1, <2>2
<1> DEFINE after == [dropped EXCEPT ![i].nlink = @ + 1]
<1>6. old # i
  OBVIOUS
<1> HIDE DEF dropped, old
<1>7. \A j \in Inos: dropped[j] = IF j # NoEntry /\ j = old THEN Lessened(named[j]) ELSE named[j]
  BY <1>5
<1>8. dropped[i] = s[i]
  BY <1>4, <1>6, <1>7
<1>9. [dropped EXCEPT ![i].nlink = @ + 1] =
        [j \in Inos |-> IF j = i THEN Raised(dropped[j]) ELSE dropped[j]]
  BY <1>5 DEF Raised
<1>10. \A j \in Inos:
         (IF j = i THEN Raised(dropped[j]) ELSE dropped[j]) =
           IF j = d THEN Named(s[j], n, i)
           ELSE IF j = i THEN Raised(s[j])
           ELSE IF j # NoEntry /\ j = old THEN Lessened(s[j])
           ELSE s[j]
  <2> TAKE j \in Inos
  <2>1. CASE j = d
    <3>1. d # old \/ d = NoEntry
      BY DEF old
    <3>2. dropped[d] = named[d] /\ named[d] = Named(s[d], n, i)
      BY <1>4, <1>7, <3>1
    <3> QED
      BY <2>1, <3>2
  <2>2. CASE j = i
    BY <1>8, <2>2
  <2>3. CASE j # i /\ j # d
    <3>1. named[j] = s[j]
      BY <1>4, <2>3
    <3>2. dropped[j] = IF j # NoEntry /\ j = old THEN Lessened(s[j]) ELSE s[j]
      BY <1>7, <3>1, Zenon
    <3> QED
      BY <2>3, <3>2, Zenon
  <2> QED
    BY <2>1, <2>2, <2>3
<1>11. Linked(s, d, n, i) = LinkEdit(s, d, n, i)
  BY <1>2, <1>9, <1>10, Zenon DEF LinkEdit, old
<1>12. LinkEdit(s, d, n, i) \in [Inos -> NodeType]
  <2>1. \A j \in Inos: s[j] \in NodeType
    BY <1>1
  <2>2. \A j \in Inos: Named(s[j], n, i) \in NodeType /\ Raised(s[j]) \in NodeType
                       /\ Lessened(s[j]) \in NodeType
    BY <2>1, NodeTypes, Zenon
  <2> QED
    BY <2>1, <2>2 DEF LinkEdit
<1> QED
  BY <1>11, <1>12, SlabIs

\* unlink_raw, when what has the name has no entries: two nodes change.
LEMMA UnlinkedIs ==
  ASSUME NEW s, WholeSlab(s), NEW d \in Inos, NEW n \in Names, Used(s, d),
         \/ s[d].children[n] = NoEntry
         \/ s[d].children[n] # d /\ Leaf(s, s[d].children[n])
  PROVE  Unlinked(s, d, n) = UnlinkEdit(s, d, n) /\ UnlinkEdit(s, d, n) \in Slab
<1> DEFINE old == s[d].children[n]
           named == [s EXCEPT ![d] = Named(s[d], n, NoEntry)]
<1>1. s \in [Inos -> NodeType] /\ s[d] \in NodeType /\ old \in Inos /\ NoEntry \in Inos
  BY SlabIs, SlabNumbers DEF WholeSlab, NodeType
<1>2. WholeSlab(named) /\ Unlinked(s, d, n) = IF old = NoEntry THEN named ELSE Dropped(named, old)
  <2>1. [s EXCEPT ![d].children[n] = NoEntry] = named /\ WholeSlab(named)
    BY <1>1, PutIs, Zenon
  <2> DEFINE put == [s EXCEPT ![d].children[n] = NoEntry]
  <2>2. Unlinked(s, d, n) = IF old = NoEntry THEN put ELSE Dropped(put, old)
    BY DEF Unlinked
  <2> HIDE DEF put
  <2>3. put = named
    BY <2>1 DEF put
  <2> QED
    BY <2>1, <2>2, <2>3
<1>3. named \in [Inos -> NodeType]
  BY <1>2, SlabIs DEF WholeSlab
<1>4. \A j \in Inos: named[j] = IF j = d THEN Named(s[d], n, NoEntry) ELSE s[j]
  BY <1>1
<1> HIDE DEF named
<1>5. Unlinked(s, d, n) =
        [j \in Inos |-> IF j # NoEntry /\ j = old THEN Lessened(named[j]) ELSE named[j]]
  <2>1. CASE old = NoEntry
    BY <1>2, <1>3, <2>1
  <2>2. CASE old # NoEntry
    <3>1. old # d /\ Leaf(s, old)
      BY <2>2
    <3>2. named[old] = s[old]
      BY <1>1, <1>4, <3>1
    <3>3. Leaf(named, old)
      BY <3>1, <3>2, Zenon DEF Leaf, IsEmpty, Children
    <3>4. Dropped(named, old) = [named EXCEPT ![old] = Lessened(named[old])]
      BY <1>1, <1>2, <3>3, DroppedIs
    <3> QED
      BY <1>1, <1>2, <1>3, <2>2, <3>1, <3>4, Zenon
  <2> QED
    BY <2>1, <2>2
<1> HIDE DEF old
<1>6. \A j \in Inos:
        (IF j # NoEntry /\ j = old THEN Lessened(named[j]) ELSE named[j]) =
          IF j = d THEN Named(s[j], n, NoEntry)
          ELSE IF j # NoEntry /\ j = old THEN Lessened(s[j])
          ELSE s[j]
  <2> TAKE j \in Inos
  <2>1. CASE j = d
    <3>1. d # old \/ d = NoEntry
      BY DEF old
    <3> QED
      BY <1>4, <2>1, <3>1
  <2>2. CASE j # d
    <3>1. named[j] = s[j]
      BY <1>4, <2>2
    <3> QED
      BY <2>2, <3>1, Zenon
  <2> QED
    BY <2>1, <2>2
<1>7. Unlinked(s, d, n) = UnlinkEdit(s, d, n)
  BY <1>5, <1>6, Zenon DEF UnlinkEdit, old
<1>8. UnlinkEdit(s, d, n) \in [Inos -> NodeType]
  <2>1. \A j \in Inos: s[j] \in NodeType
    BY <1>1
  <2>2. \A j \in Inos: Named(s[j], n, NoEntry) \in NodeType /\ Lessened(s[j]) \in NodeType
    BY <1>1, <2>1, NodeTypes, Zenon
  <2> QED
    BY <2>1, <2>2 DEF UnlinkEdit
<1> QED
  BY <1>7, <1>8, SlabIs

-----------------------------------------------------------------------------
\* Names are counted

\* The entries that lead to a node are finitely many.
LEMMA HoldsAre ==
  ASSUME NEW s \in Slab, NEW c \in Inos
  PROVE  /\ IsFiniteSet(Holds(s, c)) /\ Cardinality(Holds(s, c)) \in Nat
         /\ \A d \in Inos, n \in Names: <<d, n>> \in Holds(s, c) <=> s[d].children[n] = c
<1>1. IsFiniteSet(Inos \X Names)
  BY SlabNumbers, FS_Product
<1>2. Holds(s, c) \in SUBSET (Inos \X Names)
  BY DEF Holds
<1>3. IsFiniteSet(Holds(s, c)) /\ Cardinality(Holds(s, c)) \in Nat
  BY <1>1, <1>2, FS_Subset, FS_CardinalityType
<1> QED
  BY <1>3 DEF Holds

\* What SlabSound says, without the detour over directories.
Counted(s) ==
  \A c \in Inos \ {Root}:
    /\ Used(s, c) => s[c].nlink = Cardinality(Holds(s, c))
    /\ Holds(s, c) # {} => Used(s, c)
    /\ s[c].kind = "dir" => s[c].nlink <= 1

\* A slab is sound when each count is the number of entries.
LEMMA CountedIs ==
  ASSUME NEW s, Shapes(s)
  PROVE  SlabSound(s) <=> Counted(s)
<1>1. ASSUME NEW c \in Inos \ {Root}
      PROVE  NamesOf(s, c) = Holds(s, c)
  <2>1. ASSUME NEW e \in Inos \X Names, s[e[1]].children[e[2]] = c
        PROVE  e[1] \in Dirs(s)
    <3>1. e[1] \in Inos /\ e[2] \in Names
      OBVIOUS
    <3>2. s[e[1]].children # NoNames
      BY <2>1, <3>1, SlabNumbers, Zenon DEF NoNames
    <3> QED
      BY <3>1, <3>2 DEF Shapes, Dirs
  <2> QED
    BY <2>1 DEF NamesOf, Holds, Dirs
<1>2. \A c \in Inos: c \in Dirs(s) <=> s[c].kind = "dir"
  BY DEF Dirs
<1> QED
  BY <1>1, <1>2 DEF SlabSound, Counted

\* How one changed entry changes the number of entries of each node.
LEMMA HoldsPut ==
  ASSUME NEW s \in Slab, NEW t \in Slab, NEW d \in Inos, NEW n \in Names, NEW c \in Inos,
         Puts(s, t, d, n, c), NEW x \in Inos
  PROVE  /\ Holds(t, x) = IF x = c THEN Holds(s, x) \cup {<<d, n>>} ELSE Holds(s, x) \ {<<d, n>>}
         /\ Cardinality(Holds(t, x)) =
              IF x = c
              THEN IF s[d].children[n] = x THEN Cardinality(Holds(s, x))
                   ELSE Cardinality(Holds(s, x)) + 1
              ELSE IF s[d].children[n] = x THEN Cardinality(Holds(s, x)) - 1
                   ELSE Cardinality(Holds(s, x))
<1>1. \A j \in Inos, m \in Names: <<j, m>> \in Holds(s, x) <=> s[j].children[m] = x
  BY HoldsAre, Zenon
<1>2. \A j \in Inos, m \in Names: <<j, m>> \in Holds(t, x) <=> t[j].children[m] = x
  BY HoldsAre, Zenon
<1>3. Holds(s, x) \subseteq Inos \X Names /\ Holds(t, x) \subseteq Inos \X Names
  BY DEF Holds
<1>4. \A j \in Inos, m \in Names: <<j, m>> = <<d, n>> <=> j = d /\ m = n
  OBVIOUS
<1>5. ASSUME x = c
      PROVE  Holds(t, x) = Holds(s, x) \cup {<<d, n>>}
  <2>1. ASSUME NEW j \in Inos, NEW m \in Names
        PROVE  <<j, m>> \in Holds(t, x) <=> <<j, m>> \in Holds(s, x) \cup {<<d, n>>}
    <3>1. <<j, m>> \in Holds(s, x) \cup {<<d, n>>} <=> s[j].children[m] = x \/ (j = d /\ m = n)
      BY <1>1, <1>4
    <3>2. t[j].children[m] = IF j = d /\ m = n THEN c ELSE s[j].children[m]
      BY DEF Puts
    <3> QED
      BY <1>2, <1>5, <3>1, <3>2
  <2> QED
    BY <1>3, <2>1
<1>6. ASSUME x # c
      PROVE  Holds(t, x) = Holds(s, x) \ {<<d, n>>}
  <2>1. ASSUME NEW j \in Inos, NEW m \in Names
        PROVE  <<j, m>> \in Holds(t, x) <=> <<j, m>> \in Holds(s, x) \ {<<d, n>>}
    <3>1. <<j, m>> \in Holds(s, x) \ {<<d, n>>} <=> s[j].children[m] = x /\ ~(j = d /\ m = n)
      BY <1>1, <1>4
    <3>2. t[j].children[m] = IF j = d /\ m = n THEN c ELSE s[j].children[m]
      BY DEF Puts
    <3> QED
      BY <1>2, <1>6, <3>1, <3>2
  <2> QED
    BY <1>3, <2>1
<1>7. IsFiniteSet(Holds(s, x))
  BY HoldsAre
<1>8. <<d, n>> \in Holds(s, x) <=> s[d].children[n] = x
  BY <1>1
<1>9. /\ Cardinality(Holds(s, x) \cup {<<d, n>>}) =
           IF <<d, n>> \in Holds(s, x) THEN Cardinality(Holds(s, x)) ELSE Cardinality(Holds(s, x)) + 1
      /\ Cardinality(Holds(s, x) \ {<<d, n>>}) =
           IF <<d, n>> \in Holds(s, x) THEN Cardinality(Holds(s, x)) - 1 ELSE Cardinality(Holds(s, x))
  BY <1>7, FS_AddElement, FS_RemoveElement, Zenon
<1> QED
  BY <1>5, <1>6, <1>8, <1>9, Zenon

\* A directory has one name.
LEMMA OneName ==
  ASSUME NEW s, Shapes(s), SlabSound(s), NEW c \in Inos \ {Root}, s[c].nlink <= 1,
         NEW d \in Inos, NEW n \in Names, s[d].children[n] = c,
         NEW e \in Inos, NEW m \in Names, s[e].children[m] = c
  PROVE  d = e /\ n = m
<1>1. s \in Slab /\ Counted(s)
  BY CountedIs DEF Shapes
<1>2. <<d, n>> \in Holds(s, c) /\ <<e, m>> \in Holds(s, c) /\ IsFiniteSet(Holds(s, c))
      /\ Cardinality(Holds(s, c)) \in Nat
  BY <1>1, HoldsAre
<1>3. Cardinality(Holds(s, c)) <= 1
  BY <1>1, <1>2 DEF Counted
<1>4. Cardinality(Holds(s, c)) # 0
  BY <1>2, FS_EmptySet
<1>5. Cardinality(Holds(s, c)) = 1
  BY <1>2, <1>3, <1>4
<1>6. PICK x: Holds(s, c) = {x}
  BY <1>2, <1>5, FS_Singleton
<1> QED
  BY <1>2, <1>6

\* What has a name is used, and knows of it.
LEMMA NamedUsed ==
  ASSUME NEW s, Shapes(s), SlabSound(s), NEW d \in Inos, NEW n \in Names,
         s[d].children[n] # NoEntry
  PROVE  /\ s[d].children[n] \in Inos \ {Root} /\ Used(s, s[d].children[n])
         /\ s[s[d].children[n]].nlink \in Nat /\ s[s[d].children[n]].nlink >= 1
         /\ s[d].kind = "dir"
<1>1. s \in Slab /\ Counted(s)
  BY CountedIs DEF Shapes
<1>2. s[d].children[n] \in Inos \ {Root} /\ s \in [Inos -> NodeType]
  BY <1>1, SlabIs, SlabNumbers DEF NodeType
<1>3. <<d, n>> \in Holds(s, s[d].children[n])
  BY <1>1, <1>2, HoldsAre
<1>4. Used(s, s[d].children[n]) /\ s[s[d].children[n]].nlink = Cardinality(Holds(s, s[d].children[n]))
  BY <1>1, <1>2, <1>3 DEF Counted
<1>5. Cardinality(Holds(s, s[d].children[n])) \in Nat /\ Cardinality(Holds(s, s[d].children[n])) # 0
  BY <1>1, <1>2, <1>3, HoldsAre, FS_EmptySet
<1>6. s[d].children # NoNames
  BY SlabNumbers DEF NoNames
<1> QED
  BY <1>2, <1>4, <1>5, <1>6 DEF Shapes

\* One entry is put, where there was none, or taken away.
LEMMA EditSound ==
  ASSUME NEW s, NEW t, Shapes(s), SlabSound(s), Shapes(t),
         NEW d \in Inos, NEW n \in Names, NEW c \in Inos, Puts(s, t, d, n, c),
         c = NoEntry \/ s[d].children[n] = NoEntry,
         \A j \in Inos: j = Root \/ (j # c /\ j # s[d].children[n]) =>
           Alike(s[j], t[j]) /\ t[j].nlink = s[j].nlink,
         c # NoEntry => /\ Gains(s[c], t[c]) /\ Used(s, c)
                        /\ s[c].kind = "dir" => s[c].nlink = 0,
         s[d].children[n] # NoEntry => Loses(s[s[d].children[n]], t[s[d].children[n]])
  PROVE  SlabSound(t)
<1> DEFINE old == s[d].children[n]
<1>1. s \in Slab /\ t \in Slab /\ s \in [Inos -> NodeType] /\ t \in [Inos -> NodeType] /\ Counted(s)
  BY CountedIs, SlabIs DEF Shapes
<1>2. old \in Inos /\ Root \in Inos /\ NoEntry = Root
  BY <1>1, SlabNumbers DEF NodeType
<1>3. ASSUME NEW x \in Inos \ {Root}
      PROVE  /\ Used(t, x) => t[x].nlink = Cardinality(Holds(t, x))
             /\ Holds(t, x) # {} => Used(t, x)
             /\ t[x].kind = "dir" => t[x].nlink <= 1
  <2>1. /\ Holds(t, x) = IF x = c THEN Holds(s, x) \cup {<<d, n>>} ELSE Holds(s, x) \ {<<d, n>>}
        /\ Cardinality(Holds(t, x)) =
              IF x = c
              THEN IF old = x THEN Cardinality(Holds(s, x))
                   ELSE Cardinality(Holds(s, x)) + 1
              ELSE IF old = x THEN Cardinality(Holds(s, x)) - 1
                   ELSE Cardinality(Holds(s, x))
    BY <1>1, HoldsPut
  <2>2. /\ Used(s, x) => s[x].nlink = Cardinality(Holds(s, x))
        /\ Holds(s, x) # {} => Used(s, x)
        /\ s[x].kind = "dir" => s[x].nlink <= 1
    BY <1>1 DEF Counted
  <2>3. /\ IsFiniteSet(Holds(t, x)) /\ Cardinality(Holds(t, x)) \in Nat
        /\ IsFiniteSet(Holds(s, x)) /\ Cardinality(Holds(s, x)) \in Nat
    BY <1>1, HoldsAre
  <2>4. s[x] \in NodeType /\ t[x] \in NodeType
    BY <1>1
  <2>5. CASE x = c
    <3>1. Gains(s[x], t[x]) /\ Used(s, x) /\ (s[x].kind = "dir" => s[x].nlink = 0) /\ old = NoEntry
      BY <1>2, <2>5
    <3>2. Cardinality(Holds(t, x)) = Cardinality(Holds(s, x)) + 1
      BY <1>2, <2>1, <2>5, <3>1
    <3>3. Used(t, x) /\ t[x].nlink = s[x].nlink + 1 /\ t[x].kind = s[x].kind
      BY <3>1 DEF Gains, Alike, Used
    <3> QED
      BY <2>2, <2>4, <3>1, <3>2, <3>3 DEF NodeType
  <2>6. CASE x = old /\ x # c
    <3>1. Loses(s[x], t[x])
      BY <1>2, <2>6
    <3>2. /\ Cardinality(Holds(t, x)) = Cardinality(Holds(s, x)) - 1
          /\ Holds(t, x) \subseteq Holds(s, x)
      BY <2>1, <2>6
    <3>3. Used(s, x) /\ s[x].nlink = Cardinality(Holds(s, x))
      <4>1. <<d, n>> \in Holds(s, x)
        BY <1>1, <2>6, HoldsAre
      <4> QED
        BY <2>2, <4>1
    <3>4. CASE Alike(s[x], t[x]) /\ t[x].nlink = s[x].nlink - 1
      BY <2>2, <2>3, <2>4, <3>2, <3>3, <3>4 DEF Alike, Used, NodeType
    <3>5. CASE s[x].nlink = 1 /\ t[x] = Vacant
      <4>1. Cardinality(Holds(t, x)) = 0
        BY <3>2, <3>3, <3>5
      <4>2. Holds(t, x) = {}
        BY <2>3, <4>1, FS_EmptySet
      <4>3. t[x].kind = "none"
        BY <3>5 DEF Vacant, Node
      <4> QED
        BY <4>2, <4>3 DEF Used
    <3> QED
      BY <3>1, <3>4, <3>5 DEF Loses
  <2>7. CASE x # old /\ x # c
    <3>1. Alike(s[x], t[x]) /\ t[x].nlink = s[x].nlink
      BY <2>7
    <3>2. Cardinality(Holds(t, x)) = Cardinality(Holds(s, x)) /\ Holds(t, x) \subseteq Holds(s, x)
      BY <2>1, <2>7
    <3> QED
      BY <2>2, <3>1, <3>2 DEF Alike, Used
  <2> QED
    BY <2>5, <2>6, <2>7
<1> QED
  BY <1>3, CountedIs DEF Counted

\* One entry changed, the counts with it and the flags alike on both sides: the counts and the
\* border stay right.
LEMMA EditKeeps ==
  ASSUME NEW s, NEW t, Shapes(s), SlabSound(s), Border(s), Shapes(t),
         NEW d \in Inos, NEW n \in Names, NEW c \in Inos, Puts(s, t, d, n, c),
         <<d, n>> # <<Root, Tmp>>, c = NoEntry \/ s[d].children[n] = NoEntry,
         \A j \in Inos: j = Root \/ (j # c /\ j # s[d].children[n]) =>
           Alike(s[j], t[j]) /\ t[j].nlink = s[j].nlink,
         c # NoEntry => /\ Gains(s[c], t[c]) /\ Used(s, c) /\ s[c].persist = s[d].persist
                        /\ s[c].kind = "dir" => s[c].nlink = 0,
         s[d].children[n] # NoEntry => Loses(s[s[d].children[n]], t[s[d].children[n]])
  PROVE  SlabSound(t) /\ Border(t)
<1> DEFINE old == s[d].children[n]
<1>1. s \in Slab /\ t \in Slab /\ s \in [Inos -> NodeType] /\ t \in [Inos -> NodeType] /\ Counted(s)
  BY CountedIs, SlabIs DEF Shapes
<1>2. old \in Inos /\ Root \in Inos /\ NoEntry = Root
  BY <1>1, SlabNumbers DEF NodeType
<1>4. SlabSound(t)
  BY <1>2, EditSound
<1>5. Top(t) = Top(s) /\ Top(s) \in Inos /\ s[Top(s)].kind = "dir" /\ Top(s) # Root
  <2>1. Tmp \in Names
    BY SlabNumbers
  <2> QED
    BY <1>2, <2>1 DEF Top, Puts, Border, Dirs
<1>6. Top(s) # c /\ Top(s) # old
  <2>1. Tmp \in Names /\ s[Top(s)].nlink <= 1
    BY <1>1, <1>5, SlabNumbers, Zenon DEF Counted
  <2>2. Top(s) # old
    BY <1>2, <1>5, <2>1, OneName DEF Top
  <2>3. ASSUME Top(s) = c
        PROVE  FALSE
    <3>1. s[c].nlink = 0 /\ c # NoEntry
      BY <1>2, <1>5, <2>3
    <3>2. s[Root].children[Tmp] # NoEntry
      BY <1>2, <1>5 DEF Top
    <3>3. s[Top(s)].nlink >= 1
      BY <1>2, <2>1, <3>2, NamedUsed DEF Top
    <3> QED
      BY <2>3, <3>1, <3>3
  <2> QED
    BY <2>2, <2>3
<1>7. Top(t) \in Dirs(t) \ {Root} /\ ~t[Top(t)].persist
  <2>1. Alike(s[Top(s)], t[Top(s)])
    BY <1>5, <1>6
  <2> QED
    BY <1>5, <2>1 DEF Alike, Border, Dirs
<1>8. ASSUME NEW j \in Inos, NEW m \in Names,
             t[j].children[m] # NoEntry, <<j, m>> # <<Root, Tmp>>
      PROVE  t[t[j].children[m]].persist = t[j].persist
  <2> DEFINE x == t[j].children[m]
  <2>1. x \in Inos
    BY <1>1 DEF NodeType
  <2>2. ASSUME NEW y \in Inos, Used(t, y)
        PROVE  t[y].persist = s[y].persist
    <3>1. CASE y # Root /\ y = old
      <4>1. t[y] # Vacant
        BY <2>2 DEF Used, Vacant, Node
      <4> QED
        BY <1>2, <3>1, <4>1 DEF Loses, Alike
    <3>2. CASE y # Root /\ y = c
      BY <1>2, <3>2 DEF Gains, Alike
    <3>3. CASE y = Root \/ (y # c /\ y # old)
      BY <3>3 DEF Alike
    <3> QED
      BY <3>1, <3>2, <3>3
  <2>3. Used(t, x) /\ Used(t, j)
    <3>1. Used(t, x) /\ t[j].kind = "dir"
      BY <1>4, <1>8, NamedUsed
    <3> QED
      BY <3>1 DEF Used
  <2>4. t[x].persist = s[x].persist /\ t[j].persist = s[j].persist
    BY <2>1, <2>2, <2>3
  <2>5. CASE j = d /\ m = n
    <3>1. x = c
      BY <2>5 DEF Puts
    <3> QED
      BY <1>8, <2>4, <2>5, <3>1
  <2>6. CASE ~(j = d /\ m = n)
    <3>1. x = s[j].children[m]
      BY <2>6 DEF Puts
    <3> QED
      BY <1>8, <2>4, <3>1 DEF Border
  <2> QED
    BY <2>5, <2>6
<1> QED
  BY <1>4, <1>7, <1>8 DEF Border

-----------------------------------------------------------------------------
\* Directories form a tree

\* A new entry keeps the tree.
LEMMA TreeAdd ==
  ASSUME NEW s \in Slab, NEW t \in Slab, NEW d \in Dirs(s), NEW n \in Names, NEW c \in Inos \ {Root},
         Puts(s, t, d, n, c), s[d].children[n] = NoEntry, Dirs(t) \subseteq Dirs(s) \cup {c},
         Tree(s)
  PROVE  Tree(t)
<1>1. SUFFICES ASSUME NEW X \in SUBSET Inos, Root \in X, Closed(t, X)
               PROVE  Dirs(t) \subseteq X
  BY DEF Tree
<1>2. d \in Inos
  BY DEF Dirs
<1>3. Closed(s, X)
  <2>1. ASSUME NEW j \in X, NEW x \in Children(s, j)
        PROVE  x \in X
    <3>1. PICK k \in Names: s[j].children[k] = x
      BY <2>1 DEF Children
    <3>2. x \in Inos /\ x # NoEntry
      BY <2>1, ChildrenAre DEF Children
    <3>3. t[j].children[k] = x
      BY <3>1, <3>2 DEF Puts
    <3>4. x \in Children(t, j)
      BY <3>2, <3>3 DEF Children
    <3> QED
      BY <1>1, <3>4 DEF Closed
  <2> QED
    BY <2>1 DEF Closed
<1>4. Dirs(s) \subseteq X
  BY <1>1, <1>3 DEF Tree
<1>5. c \in Children(t, d)
  BY <1>2, SlabNumbers, ChildrenAre DEF Puts
<1> QED
  BY <1>1, <1>4, <1>5 DEF Closed

\* An entry less keeps the tree, when nothing is below it.
LEMMA TreeRemove ==
  ASSUME NEW s \in Slab, NEW t \in Slab, NEW d \in Inos, NEW n \in Names,
         Puts(s, t, d, n, NoEntry), IsEmpty(s, s[d].children[n]),
         Dirs(t) \subseteq Dirs(s), s[d].children[n] # NoEntry => s[d].children[n] \notin Dirs(t),
         Tree(s)
  PROVE  Tree(t)
<1>1. SUFFICES ASSUME NEW X \in SUBSET Inos, Root \in X, Closed(t, X)
               PROVE  Dirs(t) \subseteq X
  BY DEF Tree
<1> DEFINE c == s[d].children[n]
<1>2. c \in Inos
  BY SlabIs DEF NodeType
<1>3. Closed(s, X \cup {c})
  <2>1. ASSUME NEW j \in X, NEW x \in Children(s, j)
        PROVE  x \in X \cup {c}
    <3>1. PICK k \in Names: s[j].children[k] = x
      BY <2>1 DEF Children
    <3>2. x \in Inos /\ x # NoEntry
      BY <2>1, ChildrenAre DEF Children
    <3>3. CASE x # c
      <4>1. t[j].children[k] = x
        BY <3>1, <3>2, <3>3 DEF Puts
      <4>2. x \in Children(t, j)
        BY <3>2, <4>1 DEF Children
      <4> QED
        BY <1>1, <4>2 DEF Closed
    <3> QED
      BY <3>3
  <2>2. Children(s, c) = {}
    BY DEF IsEmpty
  <2> QED
    BY <2>1, <2>2 DEF Closed
<1>4. Dirs(s) \subseteq X \cup {c}
  BY <1>1, <1>2, <1>3 DEF Tree
<1> QED
  BY <1>1, <1>4, SlabNumbers

\* Entry n of d goes to m in e, where nothing is in the way.
Moves(s, t, d, n, e, m) ==
  \A j \in Inos, k \in Names:
    t[j].children[k] = IF j = e /\ k = m THEN s[d].children[n]
                       ELSE IF j = d /\ k = n THEN NoEntry
                       ELSE s[j].children[k]

\* An entry that moves keeps the tree, unless it moves below itself: rename's check.
LEMMA TreeMove ==
  ASSUME NEW s \in Slab, NEW t \in Slab, NEW d \in Inos, NEW n \in Names,
         NEW e \in Dirs(s), NEW m \in Names, Moves(s, t, d, n, e, m), <<d, n>> # <<e, m>>,
         s[d].children[n] # NoEntry, e \notin Below(s, s[d].children[n]),
         s[e].children[m] # NoEntry =>
           IsEmpty(s, s[e].children[m]) /\ s[e].children[m] \notin Dirs(t),
         Dirs(t) \subseteq Dirs(s), Tree(s)
  PROVE  Tree(t)
<1>1. SUFFICES ASSUME NEW X \in SUBSET Inos, Root \in X, Closed(t, X)
               PROVE  Dirs(t) \subseteq X
  BY DEF Tree
<1> DEFINE i == s[d].children[n]
           old == s[e].children[m]
           B == Below(s, i)
           Y == X \cup B \cup {old}
<1>2. i \in Inos /\ old \in Inos /\ e \in Inos
  BY SlabIs DEF NodeType, Dirs
<1>3. B \in SUBSET Inos /\ i \in B /\ Closed(s, B)
      /\ \A Z: i \in Z /\ Closed(s, Z) => B \subseteq Z
  BY <1>2, BelowIs
<1>4. ASSUME NEW j \in X, NEW x \in Children(s, j), x # i, ~(j = e /\ x = old)
      PROVE  x \in X
  <2>1. PICK k \in Names: s[j].children[k] = x
    BY <1>4 DEF Children
  <2>2. x \in Inos /\ x # NoEntry
    BY <1>4, ChildrenAre DEF Children
  <2>3. t[j].children[k] = x
    BY <1>4, <2>1, <2>2 DEF Moves
  <2>4. x \in Children(t, j)
    BY <2>2, <2>3 DEF Children
  <2> QED
    BY <1>1, <2>4 DEF Closed
<1>5. e \in X
  <2>1. old = NoEntry => old \in X
    BY <1>1, SlabNumbers
  <2>2. old # NoEntry => Children(s, old) = {}
    BY DEF IsEmpty
  <2>3. ASSUME NEW j \in Y
        PROVE  Children(s, j) \subseteq Y
    <3>1. CASE j \in B
      BY <1>3, <3>1 DEF Closed
    <3>2. CASE j \in X
      BY <1>3, <1>4, <3>2
    <3>3. CASE j = old /\ j \notin X
      BY <2>1, <2>2, <3>3
    <3> QED
      BY <3>1, <3>2, <3>3
  <2>4. Y \in SUBSET Inos /\ Root \in Y /\ Closed(s, Y)
    <3>1. Closed(s, Y)
      BY <2>3 DEF Closed
    <3> QED
      BY <1>1, <1>2, <1>3, <3>1
  <2>5. e \in Y
    BY <2>4 DEF Tree
  <2>6. ASSUME e = old, old # NoEntry
        PROVE  FALSE
    <3>1. old \in Children(s, e)
      BY <1>2, <2>6, ChildrenAre
    <3> QED
      BY <2>2, <2>6, <3>1
  <2> QED
    BY <2>1, <2>5, <2>6
<1>6. i \in X
  <2>1. t[e].children[m] = i
    BY <1>2 DEF Moves
  <2>2. i \in Children(t, e)
    BY <1>2, <2>1, ChildrenAre
  <2> QED
    BY <1>1, <1>5, <2>2 DEF Closed
<1>7. B \subseteq X
  <2>1. Closed(s, X \cap B)
    <3>1. ASSUME NEW j \in X \cap B, NEW x \in Children(s, j)
          PROVE  x \in X \cap B
      <4>1. x \in B
        BY <1>3, <3>1 DEF Closed
      <4>2. j # e
        OBVIOUS
      <4> QED
        BY <1>4, <1>6, <4>1, <4>2
    <3> QED
      BY <3>1 DEF Closed
  <2> QED
    BY <1>3, <1>6, <2>1
<1>8. Closed(s, X \cup {old})
  <2>1. ASSUME NEW j \in X, NEW x \in Children(s, j)
        PROVE  x \in X \cup {old}
    BY <1>4, <1>6, <2>1
  <2>2. old # NoEntry => Children(s, old) = {}
    BY DEF IsEmpty
  <2>3. old = NoEntry => old \in X
    BY <1>1, SlabNumbers
  <2>4. ASSUME NEW j \in X \cup {old}
        PROVE  Children(s, j) \subseteq X \cup {old}
    BY <2>1, <2>2, <2>3
  <2> QED
    BY <2>4 DEF Closed
<1>9. Dirs(s) \subseteq X \cup {old}
  BY <1>1, <1>2, <1>8 DEF Tree
<1> QED
  BY <1>1, <1>9, SlabNumbers

\* What is below a node, and is not the node, is an entry of something below it.
LEMMA BelowParent ==
  ASSUME NEW s \in Slab, NEW i \in Inos, NEW x \in Below(s, i), x # i
  PROVE  \E j \in Below(s, i): x \in Children(s, j)
<1>1. SUFFICES ASSUME \A j \in Below(s, i): x \notin Children(s, j)
               PROVE  FALSE
  OBVIOUS
<1>2. Closed(s, Below(s, i) \ {x})
  BY <1>1, BelowIs DEF Closed
<1> QED
  BY <1>2, BelowIs

\* Nothing is below itself: no directory is an entry of what is below it.
LEMMA NoLoop ==
  ASSUME NEW s, Shapes(s), SlabSound(s), Tree(s), NEW d \in Inos, NEW n \in Names,
         s[d].children[n] # NoEntry
  PROVE  d \notin Below(s, s[d].children[n])
<1> DEFINE i == s[d].children[n]
           B == Below(s, i)
<1>0. s \in Slab
  BY DEF Shapes
<1>1. i \in Inos \ {Root} /\ Used(s, i) /\ s[d].kind = "dir"
  BY NamedUsed
<1>2. B \in SUBSET Inos /\ i \in B /\ Closed(s, B)
  BY <1>0, <1>1, BelowIs
<1>3. Root \notin B
  <2>1. ASSUME Root \in B
        PROVE  FALSE
    <3>1. PICK j \in B: Root \in Children(s, j)
      BY <1>0, <1>1, <2>1, BelowParent
    <3> QED
      BY <1>0, <1>2, <3>1, ChildrenAre
  <2> QED
    BY <2>1
<1>4. SUFFICES ASSUME d \in B
               PROVE  FALSE
  OBVIOUS
<1> DEFINE X == Inos \ {j \in B: s[j].kind = "dir"}
<1>5. Closed(s, X)
  <2>1. ASSUME NEW j \in X, NEW x \in Children(s, j), x \notin X
        PROVE  FALSE
    <3>1. x \in Inos \ {Root} /\ x \in B /\ s[x].kind = "dir" /\ j \in Inos
      BY <1>0, <2>1, ChildrenAre
    <3>2. PICK k \in Names: s[j].children[k] = x
      BY <1>0, <2>1, <3>1, ChildrenAre
    <3>3. s[j].kind = "dir"
      BY <3>1, <3>2, NamedUsed, SlabNumbers
    <3>4. j \notin B
      BY <2>1, <3>3
    <3>5. \E p \in B: x \in Children(s, p)
      <4>1. CASE x = i
        BY <1>0, <1>1, <1>4, <4>1, ChildrenAre
      <4>2. CASE x # i
        BY <1>0, <1>1, <3>1, <4>2, BelowParent
      <4> QED
        BY <4>1, <4>2
    <3>6. PICK p \in B: x \in Children(s, p)
      BY <3>5
    <3>7. PICK q \in Names: s[p].children[q] = x
      BY <1>0, <1>2, <3>1, <3>6, ChildrenAre
    <3>8. s[x].nlink <= 1
      BY <3>1, CountedIs DEF Counted
    <3>9. j = p
      BY <1>2, <3>1, <3>2, <3>6, <3>7, <3>8, OneName
    <3> QED
      BY <3>4, <3>6, <3>9
  <2> QED
    BY <2>1 DEF Closed
<1>6. Root \in X
  BY <1>3, SlabNumbers
<1>7. d \in Dirs(s)
  BY <1>1 DEF Dirs
<1> QED
  BY <1>1, <1>4, <1>5, <1>6, <1>7 DEF Tree

-----------------------------------------------------------------------------
\* The shapes of nodes

Fits(x) ==
  /\ x.kind # "none" \/ x = Vacant
  /\ x.kind # "dir" => x.children = NoNames
  /\ x.kind = "dir" => x.data = Blank
  /\ x.opens > 0 => x.kind = "file"

\* The shapes of a slab, node by node.
LEMMA ShapesAre ==
  ASSUME NEW s
  PROVE  Shapes(s) <=> /\ s \in [Inos -> NodeType] /\ \A i \in Inos: Fits(s[i])
                       /\ s[Root].kind = "dir" /\ s[Root].persist /\ s[Root].nlink = 0
  BY SlabIs DEF Shapes, Fits, Used

\* The fields of a node whose entry or count changes.
LEMMA Fields ==
  ASSUME NEW x \in NodeType, NEW n \in Names, NEW c \in Inos
  PROVE  /\ Named(x, n, c).kind = x.kind /\ Named(x, n, c).persist = x.persist
         /\ Named(x, n, c).nlink = x.nlink /\ Named(x, n, c).opens = x.opens
         /\ Named(x, n, c).data = x.data
         /\ \A m \in Names: Named(x, n, c).children[m] = IF m = n THEN c ELSE x.children[m]
         /\ Raised(x).kind = x.kind /\ Raised(x).persist = x.persist
         /\ Raised(x).nlink = x.nlink + 1 /\ Raised(x).opens = x.opens
         /\ Raised(x).data = x.data /\ Raised(x).children = x.children
         /\ x.nlink \in Nat /\ x.opens \in Nat /\ x.persist \in BOOLEAN /\ x.data \in Data
         /\ x.children \in [Names -> Inos] /\ x.kind \in {"none", "file", "dir"}
  BY DEF Named, Raised, NodeType

\* The fields of a vacant number.
LEMMA VacantIs ==
  /\ Vacant.kind = "none" /\ Vacant.persist = FALSE /\ Vacant.nlink = 0 /\ Vacant.opens = 0
  /\ Vacant.data = Blank /\ Vacant.children = NoNames
  /\ Vacant \in NodeType /\ Fits(Vacant) /\ NoNames \in [Names -> Inos]
<1>1. /\ Vacant.kind = "none" /\ Vacant.persist = FALSE /\ Vacant.nlink = 0 /\ Vacant.opens = 0
      /\ Vacant.data = Blank /\ Vacant.children = NoNames
  BY DEF Vacant, Node, NoNames
<1>2. Fits(Vacant)
  BY <1>1 DEF Fits
<1>3. NoNames \in [Names -> Inos]
  BY SlabNumbers DEF NoNames
<1> QED
  BY <1>1, <1>2, <1>3, VacantType

\* The fields of a node that loses a name.
LEMMA LessenedIs ==
  ASSUME NEW x \in NodeType, Fits(x)
  PROVE  /\ Lessened(x) \in NodeType /\ Fits(Lessened(x))
         /\ Lessened(x).children = IF x.nlink <= 1 /\ x.opens = 0 THEN NoNames ELSE x.children
         /\ x.nlink > 0 => Loses(x, Lessened(x))
         /\ x.nlink > 1 \/ x.opens > 0 => Lessened(x).opens = x.opens /\ Lessened(x).data = x.data
<1>1. CASE x.nlink <= 1 /\ x.opens = 0
  <2>1. Lessened(x) = Vacant
    BY <1>1 DEF Lessened
  <2>2. x.nlink \in Nat
    BY DEF NodeType
  <2> QED
    BY <1>1, <2>1, <2>2, VacantIs DEF Loses
<1>2. CASE ~(x.nlink <= 1 /\ x.opens = 0)
  <2> DEFINE y == [x EXCEPT !.nlink = IF x.nlink = 0 THEN 0 ELSE x.nlink - 1]
  <2>1. Lessened(x) = y
    BY <1>2 DEF Lessened
  <2>2. /\ y.kind = x.kind /\ y.persist = x.persist /\ y.opens = x.opens /\ y.data = x.data
        /\ y.children = x.children /\ y.nlink = IF x.nlink = 0 THEN 0 ELSE x.nlink - 1
    BY DEF NodeType
  <2>3. y \in NodeType
    BY <2>1, NodeTypes
  <2>4. x.kind # "none"
    BY <1>2, VacantIs DEF Fits
  <2> HIDE DEF y
  <2>5. Fits(y)
    BY <2>2, <2>4 DEF Fits
  <2>6. x.nlink > 0 => Loses(x, y)
    BY <2>2 DEF Loses, Alike
  <2> QED
    BY <1>2, <2>1, <2>2, <2>3, <2>5, <2>6
<1> QED
  BY <1>1, <1>2

\* A node that nobody names comes, changes or goes: the names stay as they are.
LEMMA QuietSound ==
  ASSUME NEW s, NEW t, Shapes(s), Shapes(t), SlabSound(s),
         \A j \in Inos: /\ t[j].children = s[j].children
                        /\ \/ t[j].kind = s[j].kind /\ t[j].nlink = s[j].nlink
                           \/ s[j].kind # "dir" /\ s[j].nlink = 0 /\ t[j].nlink = 0
  PROVE  SlabSound(t) /\ (Tree(s) /\ Dirs(t) \subseteq Dirs(s) => Tree(t))
<1>1. s \in Slab /\ t \in Slab /\ s \in [Inos -> NodeType] /\ Counted(s)
  BY CountedIs, SlabIs DEF Shapes
<1>2. ASSUME NEW c \in Inos
      PROVE  Holds(t, c) = Holds(s, c)
  BY DEF Holds
<1>3. ASSUME NEW c \in Inos \ {Root}
      PROVE  /\ Used(t, c) => t[c].nlink = Cardinality(Holds(t, c))
             /\ Holds(t, c) # {} => Used(t, c)
             /\ t[c].kind = "dir" => t[c].nlink <= 1
  <2>1. /\ Used(s, c) => s[c].nlink = Cardinality(Holds(s, c))
        /\ Holds(s, c) # {} => Used(s, c)
        /\ s[c].kind = "dir" => s[c].nlink <= 1
    BY <1>1 DEF Counted
  <2>2. CASE t[c].kind = s[c].kind /\ t[c].nlink = s[c].nlink
    BY <1>2, <2>1, <2>2 DEF Used
  <2>3. CASE s[c].nlink = 0 /\ t[c].nlink = 0
    <3>1. Holds(s, c) = {}
      <4>1. IsFiniteSet(Holds(s, c))
        BY <1>1, HoldsAre
      <4> QED
        BY <2>1, <2>3, <4>1, FS_EmptySet
    <3>2. Cardinality(Holds(t, c)) = 0
      BY <1>2, <3>1, FS_EmptySet
    <3> QED
      BY <1>2, <2>3, <3>1, <3>2
  <2> QED
    BY <2>2, <2>3
<1>4. SlabSound(t)
  BY <1>3, CountedIs DEF Counted
<1>5. ASSUME Tree(s), Dirs(t) \subseteq Dirs(s)
      PROVE  Tree(t)
  <2>1. \A j \in Inos: Children(t, j) = Children(s, j)
    BY DEF Children
  <2> QED
    BY <1>5, <2>1 DEF Tree, Closed
<1> QED
  BY <1>4, <1>5

\* When no entry of a directory changes, and no count, nothing that matters does.
LEMMA QuietKeeps ==
  ASSUME NEW s, NEW t, Shapes(s), Shapes(t), SlabSound(s),
         \A j \in Inos: /\ t[j].children = s[j].children
                        /\ \/ Alike(s[j], t[j]) /\ t[j].nlink = s[j].nlink
                           \/ s[j].kind # "dir" /\ s[j].nlink = 0 /\ t[j].nlink = 0
  PROVE  /\ SlabSound(t) /\ (Border(s) => Border(t))
         /\ Tree(s) /\ Dirs(t) \subseteq Dirs(s) => Tree(t)
<1>4. SlabSound(t) /\ (Tree(s) /\ Dirs(t) \subseteq Dirs(s) => Tree(t))
  BY QuietSound DEF Alike
<1>5. ASSUME NEW j \in Inos, NEW n \in Names, s[j].children[n] # NoEntry
      PROVE  Alike(s[j], t[j]) /\ Alike(s[s[j].children[n]], t[s[j].children[n]])
  <2>1. s[j].kind = "dir" /\ s[j].children[n] \in Inos /\ s[s[j].children[n]].nlink >= 1
    BY <1>5, NamedUsed
  <2> QED
    BY <2>1
<1>6. ASSUME Border(s)
      PROVE  Border(t)
  <2>1. Tmp \in Names /\ Root \in Inos /\ NoEntry = Root
    BY SlabNumbers
  <2>2. Top(t) = Top(s)
    BY <2>1 DEF Top
  <2>3. Top(s) \in Inos /\ s[Top(s)].kind = "dir" /\ Top(s) # NoEntry /\ ~s[Top(s)].persist
    BY <1>6, <2>1 DEF Border, Dirs
  <2>4. Alike(s[Top(s)], t[Top(s)])
    BY <1>5, <2>1, <2>3 DEF Top
  <2>5. Top(t) \in Dirs(t) \ {Root} /\ ~t[Top(t)].persist
    BY <1>6, <2>2, <2>3, <2>4 DEF Alike, Border, Dirs
  <2>6. ASSUME NEW d \in Inos, NEW n \in Names, t[d].children[n] # NoEntry, <<d, n>> # <<Root, Tmp>>
        PROVE  t[t[d].children[n]].persist = t[d].persist
    <3>1. s[d].children[n] = t[d].children[n]
      OBVIOUS
    <3>2. Alike(s[d], t[d]) /\ Alike(s[s[d].children[n]], t[s[d].children[n]])
      BY <1>5, <2>6, <3>1
    <3>3. s[s[d].children[n]].persist = s[d].persist
      BY <1>6, <2>6, <3>1 DEF Border
    <3> QED
      BY <3>1, <3>2, <3>3 DEF Alike
  <2> QED
    BY <2>5, <2>6 DEF Border
<1> QED
  BY <1>4, <1>6

-----------------------------------------------------------------------------
\* An entry is made, or removed, in a slab

\* The node i is linked where there was nothing.
LEMMA LinkStep ==
  ASSUME NEW s, Shapes(s), SlabSound(s), NEW d \in Inos, NEW n \in Names, NEW i \in Inos \ {Root},
         s[d].kind = "dir", Used(s, i), i # d, s[d].children[n] = NoEntry,
         s[i].kind = "dir" => s[i].nlink = 0
  PROVE  /\ Linked(s, d, n, i) = LinkEdit(s, d, n, i)
         /\ Shapes(LinkEdit(s, d, n, i)) /\ SlabSound(LinkEdit(s, d, n, i))
         /\ Puts(s, LinkEdit(s, d, n, i), d, n, i)
         /\ \A j \in Inos: Alike(s[j], LinkEdit(s, d, n, i)[j])
         /\ Border(s) /\ s[i].persist = s[d].persist => Border(LinkEdit(s, d, n, i))
<1> DEFINE t == LinkEdit(s, d, n, i)
<1>1. s \in [Inos -> NodeType] /\ WholeSlab(s) /\ (\A j \in Inos: Fits(s[j]))
      /\ s[Root].kind = "dir" /\ s[Root].persist /\ s[Root].nlink = 0
  BY SlabIs, ShapesAre DEF Shapes, WholeSlab
<1>2. NoEntry = Root /\ Root \in Inos /\ Used(s, d)
  BY SlabNumbers DEF Used
<1>3. Linked(s, d, n, i) = t /\ t \in [Inos -> NodeType]
  <2>1. s[d].children[n] # i
    BY <1>2
  <2> QED
    BY <1>1, <1>2, <2>1, LinkedIs, SlabIs
<1>4. \A j \in Inos: t[j] = IF j = d THEN Named(s[j], n, i)
                            ELSE IF j = i THEN Raised(s[j]) ELSE s[j]
  BY DEF LinkEdit
<1> HIDE DEF t
<1>5. ASSUME NEW j \in Inos
      PROVE  /\ Fits(t[j]) /\ Alike(s[j], t[j])
             /\ t[j].nlink = IF j = i THEN s[j].nlink + 1 ELSE s[j].nlink
             /\ \A m \in Names: t[j].children[m] = IF j = d /\ m = n THEN i ELSE s[j].children[m]
  <2>1. s[j] \in NodeType /\ Fits(s[j])
    BY <1>1
  <2>2. CASE j = d
    BY <1>4, <2>1, <2>2, Fields DEF Fits, Alike
  <2>3. CASE j = i
    <3>1. s[j].kind # "none"
      BY <2>3 DEF Used
    <3>2. t[j] = Raised(s[j])
      BY <1>4, <2>3
    <3>3. /\ Raised(s[j]).kind = s[j].kind /\ Raised(s[j]).persist = s[j].persist
          /\ Raised(s[j]).nlink = s[j].nlink + 1 /\ Raised(s[j]).opens = s[j].opens
          /\ Raised(s[j]).data = s[j].data /\ Raised(s[j]).children = s[j].children
      BY <2>1, Fields
    <3> QED
      BY <2>1, <2>3, <3>1, <3>2, <3>3 DEF Fits, Alike
  <2>4. CASE j # d /\ j # i
    BY <1>4, <2>1, <2>4 DEF Fits, Alike
  <2> QED
    BY <2>2, <2>3, <2>4
<1>6. Shapes(t)
  <2>1. t[Root].kind = "dir" /\ t[Root].persist /\ t[Root].nlink = 0
    BY <1>1, <1>2, <1>5 DEF Alike
  <2> QED
    BY <1>3, <1>5, <2>1, ShapesAre
<1>7. Puts(s, t, d, n, i)
  BY <1>5 DEF Puts
<1>8. \A j \in Inos: j = Root \/ (j # i /\ j # s[d].children[n]) =>
        Alike(s[j], t[j]) /\ t[j].nlink = s[j].nlink
  BY <1>5
<1>9. Gains(s[i], t[i])
  BY <1>5 DEF Gains
<1>10. SlabSound(t)
  BY <1>6, <1>7, <1>8, <1>9, EditSound
<1>11. ASSUME Border(s), s[i].persist = s[d].persist
       PROVE  Border(t)
  <2>1. <<d, n>> # <<Root, Tmp>>
    BY <1>2, <1>11 DEF Border, Top
  <2> QED
    BY <1>6, <1>7, <1>8, <1>9, <1>11, <2>1, EditKeeps
<1> QED
  BY <1>3, <1>5, <1>6, <1>7, <1>10, <1>11 DEF t

\* An entry goes that has nothing below it.
LEMMA RemoveStep ==
  ASSUME NEW s, Shapes(s), SlabSound(s), NEW d \in Inos, NEW n \in Names,
         s[d].children[n] # NoEntry, IsEmpty(s, s[d].children[n])
  PROVE  /\ Unlinked(s, d, n) = UnlinkEdit(s, d, n)
         /\ Shapes(UnlinkEdit(s, d, n)) /\ SlabSound(UnlinkEdit(s, d, n))
         /\ Tree(s) => Tree(UnlinkEdit(s, d, n))
         /\ Border(s) /\ <<d, n>> # <<Root, Tmp>> => Border(UnlinkEdit(s, d, n))
<1> DEFINE t == UnlinkEdit(s, d, n)
           old == s[d].children[n]
<1>1. s \in [Inos -> NodeType] /\ s \in Slab /\ WholeSlab(s) /\ (\A j \in Inos: Fits(s[j]))
      /\ s[Root].kind = "dir" /\ s[Root].persist /\ s[Root].nlink = 0
  BY SlabIs, ShapesAre DEF Shapes, WholeSlab
<1>2. NoEntry = Root /\ Root \in Inos
  BY SlabNumbers
<1>3. old \in Inos \ {Root} /\ s[old].nlink \in Nat /\ s[old].nlink >= 1 /\ s[d].kind = "dir"
  BY NamedUsed
<1>4. old # d
  <2>1. old \in Children(s, d)
    BY <1>1, <1>3, ChildrenAre
  <2> QED
    BY <2>1 DEF IsEmpty
<1>5. Unlinked(s, d, n) = t /\ t \in [Inos -> NodeType]
  <2>1. Used(s, d) /\ Leaf(s, old)
    BY <1>3 DEF Used, Leaf
  <2> QED
    BY <1>1, <1>4, <2>1, UnlinkedIs, SlabIs
<1>6. \A j \in Inos: t[j] = IF j = d THEN Named(s[j], n, NoEntry)
                            ELSE IF j = old THEN Lessened(s[j]) ELSE s[j]
  BY <1>2, <1>3 DEF UnlinkEdit
<1>7. s[old].children = NoNames
  <2>1. s[old].children \in [Names -> Inos]
    BY <1>1, <1>3 DEF NodeType
  <2>2. \A m \in Names: s[old].children[m] = NoEntry
    BY Zenon DEF IsEmpty, Children
  <2> QED
    BY <2>1, <2>2 DEF NoNames
<1> HIDE DEF t, old
<1>8. ASSUME NEW j \in Inos
      PROVE  /\ Fits(t[j])
             /\ j # old => Alike(s[j], t[j]) /\ t[j].nlink = s[j].nlink
             /\ j = old => Loses(s[j], t[j])
             /\ \A m \in Names: t[j].children[m] = IF j = d /\ m = n THEN NoEntry ELSE s[j].children[m]
  <2>1. s[j] \in NodeType /\ Fits(s[j])
    BY <1>1
  <2>2. CASE j = d
    <3>1. t[j] = Named(s[j], n, NoEntry)
      BY <1>6, <2>2
    <3>2. NoEntry \in Inos
      BY <1>2
    <3> DEFINE y == Named(s[j], n, NoEntry)
    <3>3. /\ y.kind = s[j].kind /\ y.persist = s[j].persist /\ y.nlink = s[j].nlink
          /\ y.opens = s[j].opens /\ y.data = s[j].data
          /\ \A m \in Names: y.children[m] = IF m = n THEN NoEntry ELSE s[j].children[m]
      BY <2>1, <3>2, Fields
    <3>4. s[j].kind = "dir"
      BY <1>3, <2>2
    <3> HIDE DEF y
    <3>5. Fits(y) /\ Alike(s[j], y)
      BY <2>1, <3>3, <3>4 DEF Fits, Alike
    <3>6. t[j] = y
      BY <3>1 DEF y
    <3> QED
      BY <1>4, <2>2, <3>3, <3>5, <3>6
  <2>3. CASE j = old
    <3>1. t[j] = Lessened(s[j])
      BY <1>4, <1>6, <2>3
    <3>2. Fits(t[j]) /\ Loses(s[j], t[j]) /\ t[j].children = NoNames
      BY <1>3, <1>7, <2>1, <2>3, <3>1, LessenedIs
    <3> QED
      BY <1>4, <1>7, <2>3, <3>2
  <2>4. CASE j # d /\ j # old
    BY <1>6, <2>1, <2>4 DEF Fits, Alike
  <2> QED
    BY <2>2, <2>3, <2>4
<1>9. Shapes(t)
  <2>1. t[Root].kind = "dir" /\ t[Root].persist /\ t[Root].nlink = 0
    BY <1>1, <1>2, <1>3, <1>8 DEF Alike
  <2> QED
    BY <1>5, <1>8, <2>1, ShapesAre
<1>10. Puts(s, t, d, n, NoEntry)
  BY <1>8 DEF Puts
<1>11. \A j \in Inos: j = Root \/ (j # NoEntry /\ j # s[d].children[n]) =>
         Alike(s[j], t[j]) /\ t[j].nlink = s[j].nlink
  BY <1>3, <1>8 DEF old
<1>12. Loses(s[s[d].children[n]], t[s[d].children[n]])
  BY <1>3, <1>8 DEF old
<1>13. SlabSound(t)
  BY <1>2, <1>9, <1>10, <1>11, <1>12, EditSound
<1>14. ASSUME Border(s), <<d, n>> # <<Root, Tmp>>
       PROVE  Border(t)
  BY <1>2, <1>9, <1>10, <1>11, <1>12, <1>14, EditKeeps
<1>15. ASSUME Tree(s)
       PROVE  Tree(t)
  <2>1. t[old].kind # "dir"
    <3>1. CASE s[old].kind = "dir"
      <4>1. s[old].nlink <= 1 /\ s[old].opens = 0
        <5>1. s[old].nlink <= 1
          BY <1>3, <3>1, CountedIs DEF Counted
        <5>2. s[old].opens \in Nat /\ ~(s[old].opens > 0)
          BY <1>1, <1>3, <3>1 DEF Fits, NodeType
        <5> QED
          BY <5>1, <5>2
      <4>2. t[old] = Lessened(s[old])
        BY <1>3, <1>4, <1>6 DEF old
      <4> QED
        BY <4>1, <4>2, VacantIs DEF Lessened
    <3>2. CASE s[old].kind # "dir"
      <4>1. t[old] = Vacant \/ t[old].kind = s[old].kind
        BY <1>3, <1>8 DEF Loses, Alike
      <4> QED
        BY <3>2, <4>1, VacantIs
    <3> QED
      BY <3>1, <3>2
  <2>2. Dirs(t) \subseteq Dirs(s) /\ old \notin Dirs(t)
    BY <1>8, <2>1 DEF Dirs, Alike
  <2>3. IsEmpty(s, s[d].children[n]) /\ s[d].children[n] \notin Dirs(t) /\ t \in Slab
    BY <1>5, <2>2, SlabIs DEF old
  <2> QED
    BY <1>1, <1>10, <1>15, <2>2, <2>3, TreeRemove
<1> QED
  BY <1>5, <1>9, <1>13, <1>14, <1>15 DEF t

-----------------------------------------------------------------------------
\* An entry is moved

MoveEdit(s, d, n, e, m) ==
  [j \in Inos |->
     IF j = d \/ j = e
     THEN [s[j] EXCEPT !.children =
             [k \in Names |-> IF j = e /\ k = m THEN s[d].children[n]
                              ELSE IF j = d /\ k = n THEN NoEntry
                              ELSE s[j].children[k]]]
     ELSE IF j # NoEntry /\ j = s[e].children[m] THEN Lessened(s[j])
     ELSE s[j]]

\* link_raw at the new name and unlink_raw of the old one move the entry.
LEMMA MovedIs ==
  ASSUME NEW s, WholeSlab(s), NEW d \in Inos, NEW n \in Names, NEW e \in Inos, NEW m \in Names,
         <<d, n>> # <<e, m>>, Used(s, d), Used(s, e), s[d].children[n] \notin {NoEntry, d, e},
         s[s[d].children[n]].nlink >= 1, s[e].children[m] # s[d].children[n],
         s[e].children[m] # NoEntry =>
           s[e].children[m] \notin {d, e} /\ Leaf(s, s[e].children[m])
  PROVE  /\ Unlinked(Linked(s, e, m, s[d].children[n]), d, n) = MoveEdit(s, d, n, e, m)
         /\ MoveEdit(s, d, n, e, m) \in Slab
<1> DEFINE i == s[d].children[n]
           old == s[e].children[m]
           L == LinkEdit(s, e, m, i)
           M == UnlinkEdit(L, d, n)
<1>1. s \in [Inos -> NodeType] /\ (\A j \in Inos: Used(s, j) \/ s[j] = Vacant)
      /\ i \in Inos /\ old \in Inos
  BY SlabIs, Zenon DEF WholeSlab, NodeType
<1>2. s[i].nlink \in Nat /\ Used(s, i)
  BY <1>1, VacantIs DEF NodeType
<1>3. Linked(s, e, m, i) = L /\ L \in Slab
  BY <1>1, LinkedIs
<1>4. \A j \in Inos: L[j] = IF j = e THEN Named(s[j], m, i)
                            ELSE IF j = i THEN Raised(s[j])
                            ELSE IF j # NoEntry /\ j = old THEN Lessened(s[j])
                            ELSE s[j]
  BY DEF LinkEdit
<1> HIDE DEF L
<1>5. L[i] = Raised(s[i]) /\ L[i].nlink = s[i].nlink + 1
  <2>1. L[i] = Raised(s[i])
    BY <1>1, <1>4
  <2>2. s[i] \in NodeType
    BY <1>1
  <2> QED
    BY <1>1, <2>1, <2>2, Fields
<1>6. L[d] = IF d = e THEN Named(s[d], m, i) ELSE s[d]
  BY <1>4
<1>7. L[d].children[n] = i /\ Used(L, d)
  <2>1. s[d] \in NodeType
    BY <1>1
  <2>2. CASE d = e
    <3>1. n # m
      BY <2>2
    <3>2. Named(s[d], m, i).children[n] = s[d].children[n] /\ Named(s[d], m, i).kind = s[d].kind
      BY <1>1, <2>1, <3>1, Fields
    <3> QED
      BY <1>6, <2>2, <3>2 DEF Used
  <2>3. CASE d # e
    BY <1>6, <2>3 DEF Used
  <2> QED
    BY <2>2, <2>3
<1>8. WholeSlab(L)
  <2>1. ASSUME NEW j \in Inos
        PROVE  Used(L, j) \/ L[j] = Vacant
    <3>1. s[j] \in NodeType
      BY <1>1
    <3>2. CASE j = e
      BY <1>1, <1>4, <3>1, <3>2, Fields DEF Used
    <3>3. CASE j = i
      BY <1>1, <1>2, <1>5, <3>1, <3>3, Fields DEF Used
    <3>4. CASE j \notin {e, i}
      <4>1. L[j] = s[j] \/ L[j] = Lessened(s[j])
        BY <1>4, <3>4
      <4>2. Lessened(s[j]) = Vacant \/ Lessened(s[j]).kind = s[j].kind
        BY <3>1 DEF Lessened, NodeType
      <4>3. s[j].kind # "none" \/ s[j] = Vacant
        BY <1>1 DEF Used
      <4>4. s[j] = Vacant => Lessened(s[j]) = Vacant
        BY VacantIs DEF Lessened
      <4> QED
        BY <4>1, <4>2, <4>3, <4>4 DEF Used
    <3> QED
      BY <3>2, <3>3, <3>4
  <2> QED
    BY <1>3, <2>1 DEF WholeSlab
<1>9. Unlinked(L, d, n) = M /\ M \in Slab
  <2>1. Leaf(L, i)
    BY <1>2, <1>5 DEF Leaf
  <2> QED
    BY <1>7, <1>8, <2>1, UnlinkedIs
<1>10. \A j \in Inos: M[j] = IF j = d THEN Named(L[j], n, NoEntry)
                             ELSE IF j = i THEN Lessened(L[j]) ELSE L[j]
  BY <1>1, <1>7 DEF UnlinkEdit
<1>11. M \in [Inos -> NodeType]
  BY <1>9, SlabIs
<1> HIDE DEF M
<1> DEFINE E(j) == [s[j] EXCEPT !.children =
             [k \in Names |-> IF j = e /\ k = m THEN i
                              ELSE IF j = d /\ k = n THEN NoEntry
                              ELSE s[j].children[k]]]
<1>12. ASSUME NEW j \in Inos
       PROVE  M[j] = IF j = d \/ j = e THEN E(j)
                     ELSE IF j # NoEntry /\ j = old THEN Lessened(s[j]) ELSE s[j]
  <2>1. s[j] \in NodeType /\ s[j].children \in [Names -> Inos]
    BY <1>1, Zenon DEF NodeType
  <2>2. CASE j = d /\ j = e
    <3>1. M[j] = Named(Named(s[j], m, i), n, NoEntry)
      BY <1>6, <1>10, <2>2
    <3>2. [[s[j].children EXCEPT ![m] = i] EXCEPT ![n] = NoEntry] =
            [k \in Names |-> IF k = m THEN i ELSE IF k = n THEN NoEntry ELSE s[j].children[k]]
      BY <2>1, <2>2
    <3>3. Named(Named(s[j], m, i), n, NoEntry) =
            [s[j] EXCEPT !.children = [[s[j].children EXCEPT ![m] = i] EXCEPT ![n] = NoEntry]]
      BY <2>1, Zenon DEF Named, NodeType
    <3>4. E(j) = [s[j] EXCEPT !.children =
            [k \in Names |-> IF k = m THEN i ELSE IF k = n THEN NoEntry ELSE s[j].children[k]]]
      BY <2>2
    <3> QED
      BY <2>2, <3>1, <3>2, <3>3, <3>4, Zenon
  <2>3. CASE j = d /\ j # e
    <3>1. M[j] = Named(s[j], n, NoEntry)
      BY <1>6, <1>10, <2>3
    <3>2. [s[j].children EXCEPT ![n] = NoEntry] =
            [k \in Names |-> IF k = n THEN NoEntry ELSE s[j].children[k]]
      BY <2>1
    <3>3. E(j) = [s[j] EXCEPT !.children =
            [k \in Names |-> IF k = n THEN NoEntry ELSE s[j].children[k]]]
      BY <2>3
    <3>4. Named(s[j], n, NoEntry) = [s[j] EXCEPT !.children = [s[j].children EXCEPT ![n] = NoEntry]]
      BY DEF Named
    <3> QED
      BY <2>3, <3>1, <3>2, <3>3, <3>4, Zenon
  <2>4. CASE j # d /\ j = e
    <3>1. M[j] = Named(s[j], m, i)
      BY <1>4, <1>10, <2>4
    <3>2. [s[j].children EXCEPT ![m] = i] =
            [k \in Names |-> IF k = m THEN i ELSE s[j].children[k]]
      BY <2>1
    <3>3. E(j) = [s[j] EXCEPT !.children =
            [k \in Names |-> IF k = m THEN i ELSE s[j].children[k]]]
      BY <2>4
    <3>4. Named(s[j], m, i) = [s[j] EXCEPT !.children = [s[j].children EXCEPT ![m] = i]]
      BY DEF Named
    <3> QED
      BY <2>4, <3>1, <3>2, <3>3, <3>4, Zenon
  <2>5. CASE j = i
    <3>1. M[j] = Lessened(Raised(s[j]))
      BY <1>5, <1>10, <2>5
    <3>2. Lessened(Raised(s[j])) = s[j]
      <4> DEFINE r == Raised(s[j])
      <4>1. r.nlink = s[j].nlink + 1 /\ s[j].nlink \in Nat /\ s[j].nlink >= 1
        BY <1>1, <1>2, <1>5, <2>5
      <4>2. ~(r.nlink <= 1 /\ r.opens = 0) /\ r.nlink # 0
        BY <4>1
      <4>3. Lessened(r) = [r EXCEPT !.nlink = r.nlink - 1]
        BY <4>2 DEF Lessened
      <4>4. [r EXCEPT !.nlink = r.nlink - 1] = s[j]
        <5> DEFINE x == s[j]
        <5>1. x \in NodeType /\ x.nlink \in Nat
          BY <2>1, <4>1
        <5>2. r = [x EXCEPT !.nlink = x.nlink + 1]
          BY DEF Raised
        <5> HIDE DEF x, r
        <5>3. r.nlink - 1 = x.nlink
          BY <4>1, <5>1 DEF x
        <5>4. [r EXCEPT !.nlink = x.nlink] = x
          BY <5>1, <5>2, Zenon DEF NodeType
        <5>5. [r EXCEPT !.nlink = r.nlink - 1] = x
          BY <5>3, <5>4
        <5> QED
          BY <5>5 DEF x
      <4> QED
        BY <4>3, <4>4
    <3> QED
      BY <2>5, <3>1, <3>2
  <2>6. CASE j \notin {d, e, i}
    BY <1>4, <1>10, <2>6
  <2> QED
    BY <2>2, <2>3, <2>4, <2>5, <2>6
<1>13. M = MoveEdit(s, d, n, e, m)
  BY <1>11, <1>12 DEF MoveEdit
<1> QED
  BY <1>3, <1>9, <1>13

\* Moved, an entry is still one entry.
LEMMA MoveSound ==
  ASSUME NEW s, NEW t, Shapes(s), SlabSound(s), Shapes(t),
         NEW d \in Inos, NEW n \in Names, NEW e \in Inos, NEW m \in Names,
         Moves(s, t, d, n, e, m), <<d, n>> # <<e, m>>,
         s[d].children[n] # NoEntry, s[e].children[m] # s[d].children[n],
         \A j \in Inos: j = Root \/ j # s[e].children[m] =>
           t[j].kind = s[j].kind /\ t[j].nlink = s[j].nlink,
         s[e].children[m] # NoEntry => Loses(s[s[e].children[m]], t[s[e].children[m]])
  PROVE  SlabSound(t)
<1> DEFINE i == s[d].children[n]
           old == s[e].children[m]
           u == [s EXCEPT ![d] = Named(s[d], n, NoEntry)]
<1>1. s \in [Inos -> NodeType] /\ s \in Slab /\ t \in Slab /\ t \in [Inos -> NodeType] /\ Counted(s)
  BY CountedIs, SlabIs DEF Shapes
<1>2. NoEntry = Root /\ Root \in Inos /\ i \in Inos \ {Root} /\ old \in Inos
  BY <1>1, SlabNumbers DEF NodeType
<1>3. u \in Slab /\ Puts(s, u, d, n, NoEntry)
  <2>1. \A j \in Inos: u[j] = IF j = d THEN Named(s[j], n, NoEntry) ELSE s[j]
    BY <1>1
  <2>2. \A j \in Inos: s[j] \in NodeType
    BY <1>1
  <2>3. \A j \in Inos: Named(s[j], n, NoEntry) \in NodeType
    BY <1>2, <2>2, NodeTypes
  <2>4. u \in Slab
    BY <1>1, <2>3, SlabIs
  <2>5. \A j \in Inos, k \in Names:
          Named(s[j], n, NoEntry).children[k] = IF k = n THEN NoEntry ELSE s[j].children[k]
    BY <1>2, <2>2, Fields
  <2> HIDE DEF u
  <2> QED
    BY <2>1, <2>4, <2>5 DEF Puts
<1> HIDE DEF u
<1>4. Puts(u, t, e, m, i) /\ u[e].children[m] = old
  BY <1>3 DEF Puts, Moves
<1>5. ASSUME NEW x \in Inos \ {Root}
      PROVE  /\ Used(t, x) => t[x].nlink = Cardinality(Holds(t, x))
             /\ Holds(t, x) # {} => Used(t, x)
             /\ t[x].kind = "dir" => t[x].nlink <= 1
  <2>1. Cardinality(Holds(u, x)) = IF i = x THEN Cardinality(Holds(s, x)) - 1
                                   ELSE Cardinality(Holds(s, x))
    BY <1>1, <1>2, <1>3, HoldsPut
  <2>2. Cardinality(Holds(t, x)) =
          IF x = i THEN IF old = x THEN Cardinality(Holds(u, x)) ELSE Cardinality(Holds(u, x)) + 1
          ELSE IF old = x THEN Cardinality(Holds(u, x)) - 1 ELSE Cardinality(Holds(u, x))
    BY <1>1, <1>2, <1>3, <1>4, HoldsPut, SMTT(30)
  <2>3. /\ Used(s, x) => s[x].nlink = Cardinality(Holds(s, x))
        /\ Holds(s, x) # {} => Used(s, x)
        /\ s[x].kind = "dir" => s[x].nlink <= 1
    BY <1>1 DEF Counted
  <2>4. /\ IsFiniteSet(Holds(t, x)) /\ Cardinality(Holds(t, x)) \in Nat
        /\ IsFiniteSet(Holds(s, x)) /\ Cardinality(Holds(s, x)) \in Nat
    BY <1>1, HoldsAre
  <2>5. s[x] \in NodeType /\ t[x] \in NodeType
    BY <1>1
  <2>6. Holds(t, x) = {} <=> Cardinality(Holds(t, x)) = 0
    BY <2>4, FS_EmptySet
  <2>7. Holds(s, x) = {} <=> Cardinality(Holds(s, x)) = 0
    BY <2>4, FS_EmptySet
  <2>8. CASE x = old
    <3>1. Loses(s[x], t[x])
      BY <1>2, <2>8
    <3>2. Cardinality(Holds(t, x)) = Cardinality(Holds(s, x)) - 1
      BY <2>1, <2>2, <2>4, <2>8
    <3>3. Used(s, x) /\ s[x].nlink = Cardinality(Holds(s, x))
      <4>1. <<e, m>> \in Holds(s, x)
        BY <1>1, <2>8, HoldsAre
      <4> QED
        BY <2>3, <4>1
    <3>4. CASE Alike(s[x], t[x]) /\ t[x].nlink = s[x].nlink - 1
      BY <2>3, <2>4, <2>5, <3>2, <3>3, <3>4 DEF Alike, Used, NodeType
    <3>5. CASE s[x].nlink = 1 /\ t[x] = Vacant
      BY <2>6, <3>2, <3>3, <3>5, VacantIs DEF Used
    <3> QED
      BY <3>1, <3>4, <3>5 DEF Loses
  <2>9. CASE x # old
    <3>1. t[x].kind = s[x].kind /\ t[x].nlink = s[x].nlink
      BY <2>9
    <3>2. Cardinality(Holds(t, x)) = Cardinality(Holds(s, x))
      BY <2>1, <2>2, <2>4, <2>9
    <3> QED
      BY <2>3, <2>6, <2>7, <3>1, <3>2 DEF Used
  <2> QED
    BY <2>8, <2>9
<1> QED
  BY <1>5, CountedIs DEF Counted

\* Below is the same where the entries are.
LEMMA BelowSame ==
  ASSUME NEW s \in Slab, NEW t \in Slab, NEW i \in Inos,
         \A j \in Below(s, i): t[j].children = s[j].children
  PROVE  Below(t, i) = Below(s, i)
<1>1. \A j \in Below(s, i): Children(t, j) = Children(s, j)
  BY DEF Children
<1>2. i \in Below(s, i) /\ Closed(s, Below(s, i)) /\ \A X: i \in X /\ Closed(s, X) => Below(s, i) \subseteq X
  BY BelowIs
<1>3. i \in Below(t, i) /\ Closed(t, Below(t, i)) /\ \A X: i \in X /\ Closed(t, X) => Below(t, i) \subseteq X
  BY BelowIs
<1>4. Closed(t, Below(s, i))
  BY <1>1, <1>2 DEF Closed
<1>5. Below(t, i) \subseteq Below(s, i)
  BY <1>2, <1>3, <1>4
<1>6. Closed(s, Below(t, i))
  BY <1>1, <1>3, <1>5 DEF Closed
<1> QED
  BY <1>2, <1>3, <1>5, <1>6

\* The entry of a directory moves, over what may be replaced.
MayMove(s, d, n, e, m) ==
  /\ <<d, n>> # <<e, m>> /\ s[d].children[n] # NoEntry
  /\ s[e].kind = "dir" /\ e \notin Below(s, s[d].children[n])
  /\ s[e].children[m] # NoEntry =>
       s[e].children[m] # s[d].children[n] /\ IsEmpty(s, s[e].children[m])

\* What moves, from where, and what it moves over, are not the same.
LEMMA MoveParts ==
  ASSUME NEW s, Shapes(s), SlabSound(s), Tree(s),
         NEW d \in Inos, NEW n \in Names, NEW e \in Inos, NEW m \in Names, MayMove(s, d, n, e, m)
  PROVE  /\ s[d].children[n] \in Inos \ {Root} /\ s[d].kind = "dir"
         /\ s[s[d].children[n]].nlink \in Nat /\ s[s[d].children[n]].nlink >= 1
         /\ s[d].children[n] \notin {d, e} /\ s[e].children[m] # s[d].children[n]
         /\ s[e].children[m] \in Inos
         /\ s[e].children[m] # NoEntry =>
              /\ s[e].children[m] \in Inos \ {Root} /\ s[e].children[m] \notin {d, e}
              /\ s[s[e].children[m]].nlink >= 1 /\ s[s[e].children[m]].children = NoNames
<1> DEFINE i == s[d].children[n]
           old == s[e].children[m]
<1>1. s \in [Inos -> NodeType] /\ s \in Slab
  BY SlabIs DEF Shapes
<1>2. i # NoEntry /\ i \in Inos \ {Root} /\ s[d].kind = "dir" /\ s[i].nlink \in Nat /\ s[i].nlink >= 1
  BY NamedUsed DEF MayMove
<1>3. d \notin Below(s, i) /\ e \notin Below(s, i) /\ i \in Below(s, i)
  BY <1>1, <1>2, NoLoop, BelowIs DEF MayMove
<1>4. old \in Inos
  BY <1>1 DEF NodeType
<1>5. ASSUME old # NoEntry
      PROVE  /\ old \in Inos \ {Root} /\ old \notin {d, e}
             /\ s[old].nlink >= 1 /\ s[old].children = NoNames
  <2>1. old \in Inos \ {Root} /\ s[old].nlink >= 1
    BY <1>5, NamedUsed
  <2>2. IsEmpty(s, old)
    BY <1>5 DEF MayMove
  <2>3. old # d
    <3>1. i \in Children(s, d)
      BY <1>1, <1>2, ChildrenAre
    <3> QED
      BY <2>2, <3>1 DEF IsEmpty
  <2>4. old # e
    <3>1. old \in Children(s, e)
      BY <1>1, <1>5, <2>1, ChildrenAre
    <3> QED
      BY <2>2, <3>1 DEF IsEmpty
  <2>5. s[old].children = NoNames
    <3>1. s[old].children \in [Names -> Inos]
      BY <1>1, <2>1, Zenon DEF NodeType
    <3>2. \A k \in Names: s[old].children[k] = NoEntry
      BY <2>2, Zenon DEF IsEmpty, Children
    <3> QED
      BY <3>1, <3>2 DEF NoNames
  <2> QED
    BY <2>1, <2>3, <2>4, <2>5
<1>6. old # i
  BY <1>2 DEF MayMove
<1> QED
  BY <1>2, <1>3, <1>4, <1>5, <1>6

\* rename, node by node: the entry moves, and what had the new name loses it.
LEMMA MoveNodes ==
  ASSUME NEW s, Shapes(s), SlabSound(s), Tree(s),
         NEW d \in Inos, NEW n \in Names, NEW e \in Inos, NEW m \in Names, MayMove(s, d, n, e, m)
  PROVE  LET t == MoveEdit(s, d, n, e, m)
             old == s[e].children[m] IN
         /\ Unlinked(Linked(s, e, m, s[d].children[n]), d, n) = t
         /\ Shapes(t) /\ Moves(s, t, d, n, e, m)
         /\ \A j \in Inos: j = Root \/ j # old =>
              /\ Alike(s[j], t[j]) /\ t[j].nlink = s[j].nlink
              /\ t[j].data = s[j].data /\ t[j].opens = s[j].opens
         /\ old # NoEntry => t[old] = Lessened(s[old]) /\ Loses(s[old], t[old])
         /\ \A j \in Inos: j \notin {d, e, old} => t[j] = s[j]
<1> DEFINE i == s[d].children[n]
           old == s[e].children[m]
           t == MoveEdit(s, d, n, e, m)
<1>1. s \in [Inos -> NodeType] /\ WholeSlab(s) /\ s \in Slab /\ (\A j \in Inos: Fits(s[j]))
      /\ s[Root].kind = "dir" /\ s[Root].persist /\ s[Root].nlink = 0
  BY SlabIs, ShapesAre DEF Shapes, WholeSlab
<1>2. /\ i \in Inos \ {Root} /\ s[d].kind = "dir" /\ s[i].nlink >= 1
      /\ i \notin {d, e} /\ old # i /\ old \in Inos
      /\ old # NoEntry => /\ old \in Inos \ {Root} /\ old \notin {d, e}
                          /\ s[old].nlink >= 1 /\ s[old].children = NoNames
  BY MoveParts
<1>3. i # NoEntry /\ s[e].kind = "dir" /\ <<d, n>> # <<e, m>> /\ (old # NoEntry => IsEmpty(s, old))
  BY DEF MayMove
<1>4. Unlinked(Linked(s, e, m, i), d, n) = t /\ t \in [Inos -> NodeType]
  <2>1. Used(s, d) /\ Used(s, e) /\ (old # NoEntry => Leaf(s, old))
    BY <1>2, <1>3 DEF Used, Leaf
  <2> QED
    BY <1>1, <1>2, <1>3, <2>1, MovedIs, SlabIs
<1> DEFINE K(j) == [k \in Names |-> IF j = e /\ k = m THEN i
                              ELSE IF j = d /\ k = n THEN NoEntry
                              ELSE s[j].children[k]]
<1>5. \A j \in Inos: t[j] = IF j = d \/ j = e THEN [s[j] EXCEPT !.children = K(j)]
                            ELSE IF j # NoEntry /\ j = old THEN Lessened(s[j])
                            ELSE s[j]
  BY DEF MoveEdit
<1> HIDE DEF t
<1>6. ASSUME NEW j \in Inos
      PROVE  /\ Fits(t[j])
             /\ \A k \in Names: t[j].children[k] = K(j)[k]
             /\ j = NoEntry \/ j # old => /\ Alike(s[j], t[j]) /\ t[j].nlink = s[j].nlink
                              /\ t[j].data = s[j].data /\ t[j].opens = s[j].opens
             /\ j # NoEntry /\ j = old => t[j] = Lessened(s[j]) /\ Loses(s[j], t[j])
  <2>1. s[j] \in NodeType /\ Fits(s[j])
    BY <1>1
  <2>2. CASE j = d \/ j = e
    <3> HIDE DEF K
    <3>1. t[j] = [s[j] EXCEPT !.children = K(j)]
      BY <1>5, <2>2
    <3>2. /\ t[j].kind = s[j].kind /\ t[j].persist = s[j].persist /\ t[j].nlink = s[j].nlink
          /\ t[j].opens = s[j].opens /\ t[j].data = s[j].data /\ t[j].children = K(j)
      BY <2>1, <3>1 DEF NodeType
    <3>3. s[j].kind = "dir"
      BY <1>2, <1>3, <2>2
    <3>4. Fits(t[j])
      BY <2>1, <3>2, <3>3 DEF Fits
    <3> QED
      BY <1>2, <2>2, <3>2, <3>4 DEF Alike
  <2>3. CASE j # NoEntry /\ j = old
    <3>1. t[j] = Lessened(s[j])
      BY <1>2, <1>5, <2>3, Zenon
    <3>2. Fits(t[j]) /\ Loses(s[j], t[j]) /\ t[j].children = NoNames /\ s[j].children = NoNames
      <4>1. s[j].nlink \in Nat /\ s[j].nlink >= 1 /\ s[j].children = NoNames
        BY <1>2, <2>1, <2>3 DEF NodeType
      <4> DEFINE x == s[j]
      <4>2. x \in NodeType /\ Fits(x) /\ x.nlink > 0 /\ x.children = NoNames /\ t[j] = Lessened(x)
        BY <2>1, <3>1, <4>1
      <4> HIDE DEF x
      <4>3. Fits(t[j]) /\ Loses(x, t[j]) /\ t[j].children = NoNames
        BY <4>2, LessenedIs
      <4> QED
        BY <4>1, <4>3 DEF x
    <3>3. j # d /\ j # e
      BY <1>2, <2>3
    <3> QED
      BY <2>3, <3>1, <3>2, <3>3
  <2>4. CASE j # d /\ j # e /\ ~(j # NoEntry /\ j = old)
    BY <1>5, <2>1, <2>4, Zenon DEF Alike
  <2> QED
    BY <2>2, <2>3, <2>4
<1>7. NoEntry = Root /\ Root \in Inos
  BY SlabNumbers
<1>8. Shapes(t)
  <2>1. t[Root].kind = "dir" /\ t[Root].persist /\ t[Root].nlink = 0
    BY <1>1, <1>6, <1>7 DEF Alike
  <2> QED
    BY <1>4, <1>6, <2>1, ShapesAre
<1>9. Moves(s, t, d, n, e, m)
  BY <1>6 DEF Moves
<1>10. \A j \in Inos: j \notin {d, e, old} => t[j] = s[j]
  BY <1>5, Zenon
<1> QED
  BY <1>2, <1>4, <1>6, <1>7, <1>8, <1>9, <1>10 DEF t

\* rename keeps the counts and the tree.
LEMMA MoveKeeps ==
  ASSUME NEW s, Shapes(s), SlabSound(s), Tree(s),
         NEW d \in Inos, NEW n \in Names, NEW e \in Inos, NEW m \in Names, MayMove(s, d, n, e, m)
  PROVE  SlabSound(MoveEdit(s, d, n, e, m)) /\ Tree(MoveEdit(s, d, n, e, m))
<1> DEFINE i == s[d].children[n]
           old == s[e].children[m]
           t == MoveEdit(s, d, n, e, m)
<1>1. /\ Shapes(t) /\ Moves(s, t, d, n, e, m)
      /\ \A j \in Inos: j = Root \/ j # old => Alike(s[j], t[j]) /\ t[j].nlink = s[j].nlink
      /\ old # NoEntry => t[old] = Lessened(s[old]) /\ Loses(s[old], t[old])
  BY MoveNodes
<1> HIDE DEF t
<1>2. i # NoEntry /\ old # i /\ <<d, n>> # <<e, m>> /\ e \in Dirs(s)
      /\ (old # NoEntry => IsEmpty(s, old)) /\ e \notin Below(s, i) /\ old \in Inos
  BY MoveParts DEF MayMove, Dirs
<1>3. SlabSound(t)
  <2>1. \A j \in Inos: j = Root \/ j # old => t[j].kind = s[j].kind /\ t[j].nlink = s[j].nlink
    BY <1>1 DEF Alike
  <2> QED
    BY <1>1, <1>2, <2>1, MoveSound
<1>4. s \in Slab /\ t \in Slab /\ s \in [Inos -> NodeType] /\ (\A j \in Inos: Fits(s[j]))
  BY <1>1, SlabIs, ShapesAre DEF Shapes
<1>5. ASSUME old # NoEntry
      PROVE  t[old].kind # "dir"
  <2>1. CASE s[old].kind = "dir"
    <3>1. s[old].nlink <= 1
      BY <1>2, <1>5, <2>1, SlabNumbers, CountedIs, Zenon DEF Counted
    <3>2. s[old].opens \in Nat /\ ~(s[old].opens > 0)
      BY <1>2, <1>4, <2>1 DEF Fits, NodeType
    <3> QED
      BY <1>1, <1>5, <3>1, <3>2, VacantIs DEF Lessened
  <2>2. CASE s[old].kind # "dir"
    <3>1. t[old] = Vacant \/ t[old].kind = s[old].kind
      BY <1>1, <1>5 DEF Loses, Alike
    <3> QED
      BY <2>2, <3>1, VacantIs
  <2> QED
    BY <2>1, <2>2
<1>6. Dirs(t) \subseteq Dirs(s) /\ (old # NoEntry => old \notin Dirs(t))
  <2>1. \A j \in Inos: t[j].kind = "dir" => s[j].kind = "dir"
    BY <1>1, <1>5, SlabNumbers DEF Alike
  <2> QED
    BY <1>5, <2>1 DEF Dirs
<1>7. Tree(t)
  BY <1>1, <1>2, <1>4, <1>6, TreeMove
<1> QED
  BY <1>3, <1>7 DEF t

\* What is below an entry, other than the excluded directory, is on one side of
\* the border.
LEMMA OneSide ==
  ASSUME NEW s, LiveInv(s), NEW d \in Inos, NEW n \in Names, s[d].children[n] # NoEntry,
         <<d, n>> # <<Root, Tmp>>
  PROVE  LET i == s[d].children[n]
             B == Below(s, i) IN
         /\ B \in SUBSET Inos /\ Root \notin B /\ Top(s) \notin B /\ d \notin B
         /\ \A j \in B: /\ Used(s, j) /\ s[j].persist = s[i].persist
                        /\ s[j].nlink \in Nat /\ s[j].nlink >= 1
         /\ s[i].persist = s[d].persist
<1> DEFINE i == s[d].children[n]
           B == Below(s, i)
<1>1. Shapes(s) /\ SlabSound(s) /\ Tree(s) /\ Border(s) /\ s \in Slab
  BY DEF LiveInv, Shapes
<1>2. i \in Inos \ {Root} /\ Used(s, i) /\ NoEntry = Root /\ Root \in Inos /\ Tmp \in Names
      /\ s[i].nlink \in Nat /\ s[i].nlink >= 1
  BY <1>1, NamedUsed, SlabNumbers
<1>3. B \in SUBSET Inos /\ i \in B /\ Closed(s, B) /\ \A X: i \in X /\ Closed(s, X) => B \subseteq X
  BY <1>1, <1>2, BelowIs
<1>4. d \notin B
  BY <1>1, NoLoop
<1>5. Root \notin B
  <2>1. ASSUME Root \in B
        PROVE  FALSE
    <3>1. PICK j \in B: Root \in Children(s, j)
      BY <1>1, <1>2, <2>1, BelowParent
    <3> QED
      BY <1>1, <1>3, <3>1, ChildrenAre
  <2> QED
    BY <2>1
<1>6. Top(s) \notin B
  <2>1. Top(s) \in Inos \ {Root} /\ s[Top(s)].kind = "dir"
    BY <1>1 DEF Border, Dirs
  <2>2. s[Top(s)].nlink <= 1
    BY <1>1, <2>1, CountedIs DEF Counted
  <2>3. s[Root].children[Tmp] = Top(s)
    BY DEF Top
  <2>4. CASE Top(s) = i
    BY <1>1, <1>2, <2>1, <2>2, <2>3, <2>4, OneName
  <2>5. CASE Top(s) # i
    <3>1. SUFFICES ASSUME Top(s) \in B
                   PROVE  FALSE
      OBVIOUS
    <3>2. PICK p \in B: Top(s) \in Children(s, p)
      BY <1>1, <1>2, <2>5, <3>1, BelowParent
    <3>3. PICK q \in Names: s[p].children[q] = Top(s)
      BY <1>1, <1>3, <2>1, <3>2, ChildrenAre
    <3>4. p = Root
      BY <1>1, <1>2, <1>3, <2>1, <2>2, <2>3, <3>3, OneName
    <3> QED
      BY <1>5, <3>4
  <2> QED
    BY <2>4, <2>5
<1> DEFINE X == {j \in B: Used(s, j) /\ s[j].persist = s[i].persist
                          /\ s[j].nlink \in Nat /\ s[j].nlink >= 1}
<1>7. Closed(s, X)
  <2>1. ASSUME NEW j \in X, NEW c \in Children(s, j)
        PROVE  c \in X
    <3>1. j \in Inos /\ j # Root /\ c \in B
      BY <1>3, <1>5, <2>1 DEF Closed
    <3>2. PICK k \in Names: s[j].children[k] = c
      BY <2>1 DEF Children
    <3>3. c # NoEntry
      BY <2>1 DEF Children
    <3>4. Used(s, c) /\ s[c].nlink \in Nat /\ s[c].nlink >= 1
      BY <1>1, <3>1, <3>2, <3>3, NamedUsed
    <3>5. s[c].persist = s[j].persist
      BY <1>1, <3>1, <3>2, <3>3 DEF Border
    <3> QED
      BY <2>1, <3>1, <3>4, <3>5
  <2> QED
    BY <2>1 DEF Closed
<1>8. B \subseteq X
  BY <1>2, <1>3, <1>7
<1>9. s[i].persist = s[d].persist
  BY <1>1 DEF Border
<1> QED
  BY <1>3, <1>4, <1>5, <1>6, <1>8, <1>9

\* Nodes change sides.
LEMMA FlagKeeps ==
  ASSUME NEW s, Shapes(s), SlabSound(s), Tree(s), NEW X \in SUBSET (Inos \ {Root}),
         NEW flag \in BOOLEAN, \A j \in X: Used(s, j)
  PROVE  LET t == Flagged(s, X, flag) IN
         /\ Shapes(t) /\ SlabSound(t) /\ Tree(t)
         /\ \A j \in Inos:
              /\ t[j].kind = s[j].kind /\ t[j].nlink = s[j].nlink /\ t[j].opens = s[j].opens
              /\ t[j].data = s[j].data /\ t[j].children = s[j].children
              /\ t[j].persist = IF j \in X THEN flag ELSE s[j].persist
              /\ j \notin X => t[j] = s[j]
<1> DEFINE t == Flagged(s, X, flag)
<1>1. s \in [Inos -> NodeType] /\ (\A j \in Inos: Fits(s[j]))
      /\ s[Root].kind = "dir" /\ s[Root].persist /\ s[Root].nlink = 0
  BY ShapesAre
<1>2. \A j \in Inos: t[j] = IF j \in X THEN [s[j] EXCEPT !.persist = flag] ELSE s[j]
  BY DEF Flagged
<1>3. t \in [Inos -> NodeType]
  <2>1. \A j \in Inos: s[j] \in NodeType
    BY <1>1
  <2>2. \A j \in Inos: [s[j] EXCEPT !.persist = flag] \in NodeType
    BY <2>1, NodeTypes
  <2> QED
    BY <2>1, <2>2 DEF Flagged
<1> HIDE DEF t
<1>4. ASSUME NEW j \in Inos
      PROVE  /\ t[j].kind = s[j].kind /\ t[j].nlink = s[j].nlink /\ t[j].opens = s[j].opens
             /\ t[j].data = s[j].data /\ t[j].children = s[j].children
             /\ t[j].persist = IF j \in X THEN flag ELSE s[j].persist
             /\ j \notin X => t[j] = s[j]
  <2>1. s[j] \in NodeType
    BY <1>1
  <2>2. CASE j \in X
    <3>1. t[j] = [s[j] EXCEPT !.persist = flag]
      BY <1>2, <2>2
    <3> QED
      BY <2>1, <2>2, <3>1 DEF NodeType
  <2>3. CASE j \notin X
    <3>1. t[j] = s[j]
      BY <1>2, <2>3, Zenon
    <3> QED
      BY <2>3, <3>1
  <2> QED
    BY <2>2, <2>3
<1>5. ASSUME NEW j \in Inos
      PROVE  Fits(t[j])
  <2>1. Fits(s[j])
    BY <1>1
  <2>2. CASE j \in X
    BY <1>4, <2>1, <2>2 DEF Fits, Used
  <2>3. CASE j \notin X
    BY <1>4, <2>1, <2>3
  <2> QED
    BY <2>2, <2>3
<1>6. Shapes(t)
  <2>1. Root \in Inos
    BY SlabNumbers
  <2>2. t[Root] = s[Root]
    BY <1>4, <2>1
  <2> QED
    BY <1>1, <1>3, <1>5, <2>2, ShapesAre
<1>7. Dirs(t) \subseteq Dirs(s)
  BY <1>4 DEF Dirs
<1>8. SlabSound(t) /\ Tree(t)
  BY <1>4, <1>6, <1>7, QuietSound
<1> QED
  BY <1>4, <1>6, <1>8 DEF t

\* Moved whole, a subtree takes the side of the directory it comes to.
LEMMA MoveBorder ==
  ASSUME NEW s, LiveInv(s), NEW d \in Inos, NEW n \in Names, NEW e \in Inos, NEW m \in Names,
         MayMove(s, d, n, e, m), <<d, n>> # <<Root, Tmp>>, <<e, m>> # <<Root, Tmp>>,
         NEW t, Shapes(t), SlabSound(t), Moves(s, t, d, n, e, m),
         \A j \in Inos: j = Root \/ j # s[e].children[m] => t[j].kind = s[j].kind,
         \A j \in Inos: Used(t, j) =>
           t[j].persist = IF j \in Below(s, s[d].children[n]) THEN s[e].persist ELSE s[j].persist,
         s[d].persist # s[e].persist =>
           \A j \in Below(s, s[d].children[n]): s[j].nlink <= 1
  PROVE  Border(t)
<1> DEFINE i == s[d].children[n]
           B == Below(s, i)
<1>1. Shapes(s) /\ SlabSound(s) /\ Tree(s) /\ Border(s) /\ s \in Slab /\ t \in Slab
  BY DEF LiveInv, Shapes
<1>2. i # NoEntry /\ e \notin B /\ NoEntry = Root /\ Root \in Inos /\ Tmp \in Names /\ i \in Inos \ {Root}
  BY <1>1, NamedUsed, SlabNumbers DEF MayMove
<1>3. /\ B \in SUBSET Inos /\ Root \notin B /\ Top(s) \notin B /\ d \notin B
      /\ \A j \in B: Used(s, j) /\ s[j].persist = s[i].persist
      /\ s[i].persist = s[d].persist
  BY <1>2, OneSide
<1>4. i \in B /\ Closed(s, B)
  BY <1>1, <1>2, BelowIs
<1>5. Top(s) \in Inos \ {Root} /\ s[Top(s)].kind = "dir" /\ ~s[Top(s)].persist
  BY <1>1 DEF Border, Dirs
<1>6. Top(s) # s[e].children[m]
  <2>1. s[Top(s)].nlink <= 1
    BY <1>1, <1>5, CountedIs DEF Counted
  <2> QED
    BY <1>1, <1>2, <1>5, <2>1, OneName DEF Top
<1>7. Top(t) = Top(s)
  BY <1>2 DEF Moves, Top
<1>8. Top(t) \in Dirs(t) \ {Root} /\ ~t[Top(t)].persist
  <2>1. t[Top(s)].kind = "dir"
    BY <1>5, <1>6
  <2>2. Used(t, Top(s))
    BY <2>1 DEF Used
  <2> QED
    BY <1>3, <1>5, <1>7, <2>1, <2>2 DEF Dirs
<1> HIDE DEF B
<1>9. ASSUME NEW j \in Inos, NEW k \in Names, t[j].children[k] # NoEntry, <<j, k>> # <<Root, Tmp>>
      PROVE  t[t[j].children[k]].persist = t[j].persist
  <2> DEFINE x == t[j].children[k]
  <2>1. x \in Inos \ {Root} /\ Used(t, x) /\ Used(t, j)
    <3>1. x \in Inos \ {Root} /\ Used(t, x) /\ t[j].kind = "dir"
      BY <1>9, NamedUsed
    <3> QED
      BY <3>1 DEF Used
  <2>2. /\ t[x].persist = IF x \in B THEN s[e].persist ELSE s[x].persist
        /\ t[j].persist = IF j \in B THEN s[e].persist ELSE s[j].persist
    BY <2>1 DEF B
  <2>3. CASE j = e /\ k = m
    <3>1. x = i
      BY <2>3 DEF Moves
    <3> QED
      BY <1>2, <1>4, <2>2, <2>3, <3>1
  <2>4. CASE ~(j = e /\ k = m)
    <3>1. ~(j = d /\ k = n) /\ x = s[j].children[k]
      BY <1>9, <2>4 DEF Moves
    <3>2. s[x].persist = s[j].persist
      BY <1>1, <1>9, <3>1 DEF Border
    <3>3. CASE j \in B
      <4>1. x \in Children(s, j)
        BY <1>1, <1>2, <2>1, <3>1, ChildrenAre
      <4>2. x \in B
        BY <1>4, <3>3, <4>1 DEF Closed
      <4> QED
        BY <2>2, <3>3, <4>2
    <3>4. CASE j \notin B /\ x \in B
      <4>1. CASE s[d].persist = s[e].persist
        BY <1>3, <2>2, <3>2, <3>4, <4>1
      <4>2. CASE s[d].persist # s[e].persist
        <5>1. s[x].nlink <= 1
          BY <3>4, <4>2 DEF B
        <5>2. CASE x = i
          <6>1. s[j].children[k] = i /\ s[i].nlink <= 1 /\ s[d].children[n] = i
            BY <3>1, <5>1, <5>2
          <6> HIDE DEF i
          <6>2. j = d /\ k = n
            BY <1>1, <1>2, <6>1, OneName
          <6> QED
            BY <3>1, <6>2
        <5>3. CASE x # i
          <6>1. PICK p \in B: x \in Children(s, p)
            BY <1>1, <1>2, <3>4, <5>3, BelowParent DEF B
          <6>2. PICK q \in Names: s[p].children[q] = x
            BY <6>1 DEF Children
          <6>3. p = j
            BY <1>1, <1>3, <2>1, <3>1, <5>1, <6>2, OneName
          <6> QED
            BY <3>4, <6>3
        <5> QED
          BY <5>2, <5>3
      <4> QED
        BY <4>1, <4>2
    <3>5. CASE j \notin B /\ x \notin B
      BY <2>2, <3>2, <3>5
    <3> QED
      BY <3>3, <3>4, <3>5
  <2> QED
    BY <2>3, <2>4
<1> QED
  BY <1>8, <1>9 DEF Border

-----------------------------------------------------------------------------
\* Replay

SlabRecords ==
  [op: {"node"}, ino: Inos, kind: {"none", "file", "dir"}, data: Data]
    \cup [op: {"link"}, dir: Inos, name: Names, ino: Inos]
    \cup [op: {"unlink"}, dir: Inos, name: Names]
    \cup [op: {"write"}, ino: Inos, data: Data]

\* Record by record, replay leads from s to t.
RunBy(g, s, records, t) ==
  /\ DOMAIN g = 0..Len(records) /\ g = [k \in 0..Len(records) |-> g[k]]
  /\ g[0] = s /\ g[Len(records)] = t
  /\ \A k \in 1..Len(records): g[k] = Apply(g[k - 1], records[k])

Run(s, records, t) == records \in Seq(SlabRecords) /\ \E g: RunBy(g, s, records, t)

\* A run of records, one after the other, is what replay computes.
LEMMA RunReplayed ==
  ASSUME NEW s, NEW records, NEW t, Run(s, records, t)
  PROVE  Replayed(s, records) = t
<1> DEFINE n == Len(records)
           Solves(f) ==
             f = [k \in 0..n |-> IF k = 0 THEN s ELSE Apply(f[k - 1], records[k])]
           after == CHOOSE f: Solves(f)
<1>1. n \in Nat /\ \A k \in 1..n: k # 0 /\ k \in 0..n /\ k - 1 \in 0..n
  BY DEF Run
<1>2. PICK g: RunBy(g, s, records, t)
  BY DEF Run
<1>3. /\ g = [k \in 0..n |-> g[k]] /\ g[0] = s /\ g[n] = t
      /\ \A k \in 1..n: g[k] = Apply(g[k - 1], records[k])
  BY <1>2, Zenon DEF RunBy
<1> HIDE DEF n
<1>4. \A k \in 0..n: k = 0 \/ k \in 1..n
  BY <1>1
<1>5. \A k \in 0..n: g[k] = IF k = 0 THEN s ELSE Apply(g[k - 1], records[k])
  BY <1>3, <1>4, Zenon
<1>6. Solves(g)
  BY <1>3, <1>5, Zenon
<1>7. Solves(after)
  <2> HIDE DEF Solves
  <2> QED
    BY <1>6
<1>8. /\ after = [k \in 0..n |-> after[k]]
      /\ \A k \in 0..n: after[k] = IF k = 0 THEN s ELSE Apply(after[k - 1], records[k])
  <2> HIDE DEF after
  <2> QED
    BY <1>7, Zenon
<1>9. Replayed(s, records) = after[n]
  BY DEF Replayed, n
<1> HIDE DEF after
<1> DEFINE P == {k \in 0..n: after[k] = g[k]}
<1>10. 0 \in P
  <2>1. 0 \in 0..n
    BY <1>1
  <2>2. after[0] = g[0]
    BY <1>5, <1>8, <2>1, Zenon
  <2> QED
    BY <2>1, <2>2
<1>11. ASSUME NEW k \in 1..n, k - 1 \in P
       PROVE  k \in P
  <2>1. after[k - 1] = g[k - 1] /\ k # 0 /\ k \in 0..n
    BY <1>1, <1>11
  <2>2. after[k] = Apply(after[k - 1], records[k])
    BY <1>8, <2>1, Zenon
  <2>3. g[k] = Apply(g[k - 1], records[k])
    BY <1>5, <2>1
  <2>4. after[k] = g[k]
    BY <2>1, <2>2, <2>3, Zenon
  <2> QED
    BY <2>1, <2>4
<1>12. \A k \in 0..n: k \in P
  <2> HIDE DEF P
  <2> QED
    BY <1>1, <1>10, <1>11, Climb
<1>13. n \in 0..n
  BY <1>1
<1>14. after[n] = g[n]
  BY <1>12, <1>13
<1> QED
  BY <1>3, <1>9, <1>14

\* Nothing to replay.
LEMMA RunNone ==
  ASSUME NEW s
  PROVE  Run(s, <<>>, s)
<1>1. RunBy([k \in 0..0 |-> s], s, <<>>, s)
  BY DEF RunBy
<1>2. <<>> \in Seq(SlabRecords)
  OBVIOUS
<1> QED
  BY <1>1, <1>2 DEF Run

\* One record to replay.
LEMMA RunOne ==
  ASSUME NEW s, NEW r \in SlabRecords
  PROVE  Run(s, <<r>>, Apply(s, r))
<1> DEFINE g == [k \in 0..1 |-> IF k = 0 THEN s ELSE Apply(s, r)]
<1>1. Len(<<r>>) = 1 /\ <<r>>[1] = r /\ <<r>> \in Seq(SlabRecords)
  OBVIOUS
<1>2. DOMAIN g = 0..1 /\ g[0] = s /\ g[1] = Apply(s, r)
  OBVIOUS
<1>3. \A k \in 1..1: k = 1
  OBVIOUS
<1>4. g = [k \in 0..1 |-> g[k]]
  OBVIOUS
<1> HIDE DEF g
<1>5. \A k \in 1..1: g[k] = Apply(g[k - 1], <<r>>[k])
  <2> TAKE k \in 1..1
  <2>1. k = 1 /\ k - 1 = 0
    BY <1>3
  <2>2. g[1] = Apply(g[0], <<r>>[1])
    BY <1>1, <1>2, Zenon
  <2> QED
    BY <2>1, <2>2
<1>6. RunBy(g, s, <<r>>, Apply(s, r))
  BY <1>1, <1>2, <1>4, <1>5, Zenon DEF RunBy
<1> QED
  BY <1>1, <1>6 DEF Run

\* What is replayed after one another may be replayed as one.
LEMMA RunJoin ==
  ASSUME NEW s, NEW t, NEW u, NEW a, NEW b, Run(s, a, t), Run(t, b, u)
  PROVE  Run(s, a \o b, u)
<1>1. a \in Seq(SlabRecords) /\ b \in Seq(SlabRecords)
  BY DEF Run
<1>2. PICK g: RunBy(g, s, a, t)
  BY DEF Run
<1>3. PICK h: RunBy(h, t, b, u)
  BY DEF Run
<1> DEFINE m == Len(a)
           n == Len(b)
           f == [k \in 0..m + n |-> IF k <= m THEN g[k] ELSE h[k - m]]
<1>4. m \in Nat /\ n \in Nat
  BY <1>1
<1>5. /\ a \o b \in Seq(SlabRecords) /\ Len(a \o b) = m + n
      /\ \A k \in 1..m: (a \o b)[k] = a[k]
      /\ \A k \in m + 1..m + n: (a \o b)[k] = b[k - m]
  BY <1>1
<1>6. g[0] = s /\ g[m] = t /\ \A k \in 1..m: g[k] = Apply(g[k - 1], a[k])
  BY <1>2, Zenon DEF RunBy
<1>7. h[0] = t /\ h[n] = u /\ \A k \in 1..n: h[k] = Apply(h[k - 1], b[k])
  BY <1>3, Zenon DEF RunBy
<1> HIDE DEF m, n
<1>8. \A k \in 0..m + n: f[k] = IF k <= m THEN g[k] ELSE h[k - m]
  OBVIOUS
<1>9. DOMAIN f = 0..m + n /\ f = [k \in 0..m + n |-> f[k]]
  OBVIOUS
<1> HIDE DEF f
<1>10. f[0] = s
  <2>1. 0 \in 0..m + n /\ 0 <= m
    BY <1>4
  <2> QED
    BY <1>6, <1>8, <2>1
<1>11. f[m + n] = u
  <2>1. m + n \in 0..m + n /\ (m + n <= m => n = 0 /\ m + n = m) /\ m + n - m = n
    BY <1>4
  <2>2. CASE m + n <= m
    <3>1. f[m + n] = g[m + n]
      BY <1>8, <2>1, <2>2
    <3>2. n = 0 /\ m + n = m
      BY <2>1, <2>2
    <3>3. g[m + n] = t /\ h[n] = t
      BY <1>6, <1>7, <3>2
    <3> QED
      BY <1>7, <3>1, <3>3
  <2>3. CASE ~(m + n <= m)
    <3>1. f[m + n] = h[(m + n) - m] /\ (m + n) - m = n
      BY <1>4, <1>8, <2>1, <2>3
    <3> QED
      BY <1>7, <3>1
  <2> QED
    BY <2>2, <2>3
<1>12. ASSUME NEW k \in 1..m + n
       PROVE  f[k] = Apply(f[k - 1], (a \o b)[k])
  <2>1. k \in 0..m + n /\ k - 1 \in 0..m + n
    BY <1>4
  <2>2. CASE k <= m
    <3>1. k \in 1..m /\ k - 1 <= m
      BY <1>4, <2>2
    <3>2. f[k] = g[k] /\ f[k - 1] = g[k - 1] /\ (a \o b)[k] = a[k]
      BY <1>5, <1>8, <2>1, <2>2, <3>1
    <3>3. g[k] = Apply(g[k - 1], a[k])
      BY <1>6, <3>1
    <3> QED
      BY <3>2, <3>3, Zenon
  <2>3. CASE ~(k <= m)
    <3>1. k \in m + 1..m + n /\ k - m \in 1..n /\ (k - m) - 1 = (k - 1) - m
      BY <1>4, <2>3
    <3>2. f[k] = h[k - m] /\ (a \o b)[k] = b[k - m]
      BY <1>5, <1>8, <2>1, <2>3, <3>1
    <3>3. f[k - 1] = h[(k - m) - 1]
      <4>1. CASE k - 1 <= m
        <5>1. k - 1 = m /\ (k - m) - 1 = 0
          BY <1>4, <2>3, <4>1
        <5>2. f[k - 1] = g[k - 1]
          BY <1>8, <2>1, <4>1
        <5>3. f[k - 1] = t /\ h[(k - m) - 1] = t
          BY <1>6, <1>7, <5>1, <5>2
        <5> QED
          BY <5>3
      <4>2. CASE ~(k - 1 <= m)
        <5>1. f[k - 1] = h[(k - 1) - m]
          BY <1>8, <2>1, <4>2
        <5> QED
          BY <3>1, <5>1
      <4> QED
        BY <4>1, <4>2
    <3>4. h[k - m] = Apply(h[(k - m) - 1], b[k - m])
      BY <1>7, <3>1
    <3> QED
      BY <3>2, <3>3, <3>4, Zenon
  <2> QED
    BY <2>2, <2>3, Zenon
<1>13. RunBy(f, s, a \o b, u)
  BY <1>5, <1>9, <1>10, <1>11, <1>12, Zenon DEF RunBy
<1> QED
  BY <1>5, <1>13 DEF Run

\* One record more to replay.
LEMMA RunAppend ==
  ASSUME NEW s, NEW t, NEW a, NEW r \in SlabRecords, Run(s, a, t)
  PROVE  Run(s, Append(a, r), Apply(t, r))
<1>1. a \in Seq(SlabRecords)
  BY DEF Run
<1>2. Append(a, r) = a \o <<r>>
  BY <1>1
<1>3. Run(t, <<r>>, Apply(t, r))
  BY RunOne
<1> QED
  BY <1>2, <1>3, RunJoin

-----------------------------------------------------------------------------
\* What the journal has

\* Nodes with the same fields are the same.
LEMMA SameNode ==
  ASSUME NEW x \in NodeType, NEW y \in NodeType, x.kind = y.kind, x.persist = y.persist,
         x.nlink = y.nlink, x.opens = y.opens, x.data = y.data,
         \A k \in Names: x.children[k] = y.children[k]
  PROVE  x = y
<1>1. x.children \in [Names -> Inos] /\ y.children \in [Names -> Inos]
  BY DEF NodeType
<1>2. x.children = y.children
  BY <1>1
<1> QED
  BY <1>2 DEF NodeType

\* The fields of a fresh node.
LEMMA NodeIs ==
  ASSUME NEW kind \in {"none", "file", "dir"}, NEW x \in Data
  PROVE  LET z == Node(kind, TRUE, x) IN
         /\ z \in NodeType /\ z.kind = kind /\ z.persist /\ z.nlink = 0 /\ z.opens = 0
         /\ z.data = x /\ z.children = NoNames
  BY SlabNumbers DEF Node, NodeType, NoNames

\* The fields of a node as the journal has it: nobody has it open.
LEMMA CopyIs ==
  ASSUME NEW x \in NodeType
  PROVE  /\ Copy(x) \in NodeType /\ Copy(x).kind = x.kind /\ Copy(x).persist
         /\ Copy(x).nlink = x.nlink /\ Copy(x).opens = 0 /\ Copy(x).data = x.data
         /\ Copy(x).children = x.children
  BY Zenon DEF Copy, NodeType

\* The fields of the excluded directory as the journal has it: empty.
LEMMA EmptyTopIs ==
  /\ EmptyTop \in NodeType /\ Fits(EmptyTop) /\ EmptyTop.kind = "dir" /\ EmptyTop.persist = TRUE
  /\ EmptyTop.nlink = 1 /\ EmptyTop.opens = 0 /\ EmptyTop.data = Blank /\ EmptyTop.children = NoNames
<1> DEFINE x == Node("dir", TRUE, Blank)
<1>1. x \in NodeType
  BY SlabNumbers, OverlayAssumption DEF OverlayAssumption, Node, NodeType
<1>2. /\ x.kind = "dir" /\ x.persist = TRUE /\ x.opens = 0 /\ x.data = Blank /\ x.children = NoNames
  BY DEF Node, NoNames
<1> HIDE DEF x
<1>3. EmptyTop = [x EXCEPT !.nlink = 1]
  BY DEF EmptyTop, x
<1>4. /\ EmptyTop \in NodeType /\ EmptyTop.kind = "dir" /\ EmptyTop.persist = TRUE
      /\ EmptyTop.nlink = 1 /\ EmptyTop.opens = 0 /\ EmptyTop.data = Blank /\ EmptyTop.children = NoNames
  BY <1>1, <1>2, <1>3 DEF NodeType
<1> QED
  BY <1>4 DEF Fits

\* What is not persistent is not in the image, but for the excluded directory itself.
LEMMA ImageOut ==
  ASSUME NEW s, NEW b \in {0, 1}, NEW i \in Inos, ~Stored(s, i)
  PROVE  Image(s, b)[i] = IF b = 1 /\ i = Top(s) THEN EmptyTop ELSE Vacant
<1>1. i # Root
  BY DEF Stored
<1> QED
  BY <1>1 DEF Image

\* What is persistent is in the image as it is in the slab.
LEMMA ImageAt ==
  ASSUME NEW s, s \in [Inos -> NodeType], NEW b \in {0, 1}, NEW i \in Inos, Stored(s, i)
  PROVE  /\ Image(s, b)[i] \in NodeType
         /\ Image(s, b)[i].kind = s[i].kind /\ Image(s, b)[i].persist
         /\ Image(s, b)[i].nlink = s[i].nlink /\ Image(s, b)[i].opens = 0
         /\ Image(s, b)[i].data = s[i].data
         /\ \A k \in Names: Image(s, b)[i].children[k] =
              IF i = Root /\ k = Tmp /\ b = 0 THEN NoEntry ELSE s[i].children[k]
         /\ i # Root \/ b = 1 => Image(s, b)[i] = Copy(s[i])
<1>1. s[i] \in NodeType
  OBVIOUS
<1>2. Image(s, b)[i] = IF i = Root /\ b = 0 THEN [Copy(s[i]) EXCEPT !.children = [@ EXCEPT ![Tmp] = NoEntry]]
                       ELSE Copy(s[i])
  BY DEF Image
<1>3. CASE i = Root /\ b = 0
  <2> DEFINE y == Copy(s[i])
  <2>1. Image(s, b)[i] = Named(y, Tmp, NoEntry)
    BY <1>2, <1>3 DEF Named
  <2>2. /\ y \in NodeType /\ y.kind = s[i].kind /\ y.persist /\ y.nlink = s[i].nlink
        /\ y.opens = 0 /\ y.data = s[i].data /\ y.children = s[i].children
    BY <1>1, CopyIs
  <2>3. Tmp \in Names /\ NoEntry \in Inos
    BY SlabNumbers
  <2> HIDE DEF y
  <2>4. Named(y, Tmp, NoEntry) \in NodeType
    BY <2>2, <2>3, NodeTypes
  <2>5. /\ Named(y, Tmp, NoEntry).kind = y.kind /\ Named(y, Tmp, NoEntry).persist
        /\ Named(y, Tmp, NoEntry).nlink = y.nlink /\ Named(y, Tmp, NoEntry).opens = y.opens
        /\ Named(y, Tmp, NoEntry).data = y.data
        /\ \A k \in Names: Named(y, Tmp, NoEntry).children[k] = IF k = Tmp THEN NoEntry ELSE y.children[k]
    BY <2>2, <2>3, Fields
  <2> QED
    BY <1>3, <2>1, <2>2, <2>4, <2>5
<1>4. CASE ~(i = Root /\ b = 0)
  <2>1. Image(s, b)[i] = Copy(s[i])
    BY <1>2, <1>4, Zenon
  <2>2. /\ Copy(s[i]) \in NodeType /\ Copy(s[i]).kind = s[i].kind /\ Copy(s[i]).persist
        /\ Copy(s[i]).nlink = s[i].nlink /\ Copy(s[i]).opens = 0 /\ Copy(s[i]).data = s[i].data
        /\ Copy(s[i]).children = s[i].children
    BY <1>1, CopyIs
  <2> QED
    BY <1>4, <2>1, <2>2
<1> QED
  BY <1>3, <1>4

\* An image is a slab.
LEMMA ImageIs ==
  ASSUME NEW s, s \in [Inos -> NodeType], NEW b \in {0, 1}
  PROVE  Image(s, b) \in [Inos -> NodeType]
<1>1. ASSUME NEW i \in Inos
      PROVE  Image(s, b)[i] \in NodeType
  <2>1. CASE Stored(s, i)
    BY <2>1, ImageAt
  <2>2. CASE ~Stored(s, i)
    BY <2>2, ImageOut, VacantIs, EmptyTopIs
  <2> QED
    BY <2>1, <2>2
<1>2. Image(s, b) = [i \in Inos |-> Image(s, b)[i]]
  BY DEF Image
<1> QED
  BY <1>1, <1>2

\* What the journal does not have, it does not notice.
LEMMA ImageSame ==
  ASSUME NEW s, s \in [Inos -> NodeType], NEW t, t \in [Inos -> NodeType], NEW b \in {0, 1},
         Top(s) = Top(t),
         \A j \in Inos: \/ Copy(s[j]) = Copy(t[j]) /\ (Stored(s, j) <=> Stored(t, j))
                        \/ j # Root /\ ~Stored(s, j) /\ ~Stored(t, j)
  PROVE  Image(t, b) = Image(s, b)
<1>1. ASSUME NEW j \in Inos
      PROVE  Image(t, b)[j] = Image(s, b)[j]
  <2>1. CASE Copy(s[j]) = Copy(t[j]) /\ (Stored(s, j) <=> Stored(t, j))
    BY <2>1, Zenon DEF Image
  <2>2. CASE j # Root /\ ~Stored(s, j) /\ ~Stored(t, j)
    <3>1. Image(s, b)[j] = IF b = 1 /\ j = Top(s) THEN EmptyTop ELSE Vacant
      BY <2>2, ImageOut
    <3>2. Image(t, b)[j] = IF b = 1 /\ j = Top(t) THEN EmptyTop ELSE Vacant
      BY <2>2, ImageOut
    <3> QED
      BY <3>1, <3>2
  <2> QED
    BY <2>1, <2>2
<1> QED
  BY <1>1, ImageIs

\* Every directory has a name, but the root.
LEMMA DirNamed ==
  ASSUME NEW s, Shapes(s), SlabSound(s), Tree(s), NEW j \in Inos \ {Root}, s[j].kind = "dir"
  PROVE  s[j].nlink = 1 /\ s[j].opens = 0
<1>1. s \in Slab /\ s \in [Inos -> NodeType] /\ Root \in Inos
  BY SlabIs, SlabNumbers DEF Shapes
<1>2. j \in Below(s, Root)
  BY <1>1, TreeIs DEF Dirs
<1>3. PICK p \in Below(s, Root): j \in Children(s, p)
  BY <1>1, <1>2, BelowParent
<1>4. p \in Inos
  BY <1>1, BelowIs
<1>5. PICK k \in Names: s[p].children[k] = j /\ j # NoEntry
  BY <1>1, <1>3, <1>4, ChildrenAre
<1>6. s[j].nlink \in Nat /\ s[j].nlink >= 1
  BY <1>4, <1>5, NamedUsed
<1>7. s[j].nlink <= 1
  BY CountedIs DEF Counted
<1>8. s[j].opens \in Nat /\ ~(s[j].opens > 0)
  BY <1>1 DEF Shapes, NodeType
<1> QED
  BY <1>6, <1>7, <1>8

\* What the image of a slab has: the root, the persistent directories, and all they name.
LEMMA StoredAre ==
  ASSUME NEW s, LiveInv(s)
  PROVE  /\ Stored(s, Root) /\ ~Stored(s, Top(s)) /\ Top(s) \in Inos \ {Root}
         /\ s[Top(s)].kind = "dir" /\ ~s[Top(s)].persist
         /\ \A j \in Inos: s[j].kind = "dir" /\ s[j].persist => Stored(s, j)
         /\ \A j \in Inos: Stored(s, j) => s[j].persist /\ Used(s, j)
         /\ \A j \in Inos, k \in Names:
              Stored(s, j) /\ s[j].children[k] # NoEntry /\ <<j, k>> # <<Root, Tmp>> =>
                s[j].children[k] \in Inos \ {Root} /\ Stored(s, s[j].children[k])
<1>1. Shapes(s) /\ SlabSound(s) /\ Tree(s) /\ Border(s) /\ s \in [Inos -> NodeType]
  BY SlabIs DEF LiveInv, Shapes
<1>2. Top(s) \in Inos \ {Root} /\ s[Top(s)].kind = "dir" /\ ~s[Top(s)].persist
  BY <1>1 DEF Border, Dirs
<1>3. ASSUME NEW j \in Inos, s[j].kind = "dir", s[j].persist
      PROVE  Stored(s, j)
  <2>1. j = Root \/ s[j].nlink = 1
    BY <1>1, <1>3, DirNamed
  <2> QED
    BY <1>3, <2>1 DEF Stored
<1>4. ASSUME NEW j \in Inos, Stored(s, j)
      PROVE  s[j].persist /\ Used(s, j)
  <2>1. s[Root].persist /\ s[Root].kind = "dir" /\ (Used(s, j) \/ s[j] = Vacant)
    BY <1>1 DEF Shapes
  <2> QED
    BY <1>4, <2>1, VacantIs DEF Stored, Used
<1>5. ASSUME NEW j \in Inos, NEW k \in Names,
             Stored(s, j), s[j].children[k] # NoEntry, <<j, k>> # <<Root, Tmp>>
      PROVE  s[j].children[k] \in Inos \ {Root} /\ Stored(s, s[j].children[k])
  <2>1. s[j].children[k] \in Inos \ {Root} /\ s[s[j].children[k]].nlink >= 1
        /\ s[s[j].children[k]].nlink \in Nat
    BY <1>1, <1>5, NamedUsed
  <2>2. s[s[j].children[k]].persist = s[j].persist
    BY <1>1, <1>5 DEF Border
  <2> QED
    BY <1>4, <1>5, <2>1, <2>2 DEF Stored
<1>6. Stored(s, Root) /\ ~Stored(s, Top(s))
  BY <1>2 DEF Stored
<1> QED
  BY <1>2, <1>3, <1>4, <1>5, <1>6

\* The journal's slab is one.
LEMMA ImageShapes ==
  ASSUME NEW s, LiveInv(s), NEW b \in {0, 1}
  PROVE  Shapes(Image(s, b))
<1> DEFINE D == Image(s, b)
<1>1. s \in [Inos -> NodeType] /\ (\A j \in Inos: Fits(s[j])) /\ Root \in Inos
      /\ s[Root].kind = "dir" /\ s[Root].persist /\ s[Root].nlink = 0
  BY ShapesAre, SlabNumbers DEF LiveInv
<1>2. D \in [Inos -> NodeType]
  BY <1>1, ImageIs
<1>3. ASSUME NEW j \in Inos
      PROVE  Fits(D[j])
  <2>1. CASE Stored(s, j)
    <3>1. /\ D[j].kind = s[j].kind /\ D[j].opens = 0 /\ D[j].data = s[j].data
          /\ \A k \in Names: D[j].children[k] =
               IF j = Root /\ k = Tmp /\ b = 0 THEN NoEntry ELSE s[j].children[k]
      BY <1>1, <2>1, ImageAt
    <3>2. s[j].kind # "none" /\ Fits(s[j])
      BY <1>1, <2>1, StoredAre DEF Used
    <3>3. D[j].children \in [Names -> Inos]
      BY <1>2 DEF NodeType
    <3>4. s[j].kind # "dir" => D[j].children = NoNames
      <4>1. SUFFICES ASSUME s[j].kind # "dir"
                     PROVE  D[j].children = NoNames
        OBVIOUS
      <4>2. s[j].children = NoNames
        BY <3>2, <4>1 DEF Fits
      <4>3. \A k \in Names: D[j].children[k] = NoEntry
        BY <3>1, <4>2 DEF NoNames
      <4> QED
        BY <3>3, <4>3 DEF NoNames
    <3> QED
      BY <3>1, <3>2, <3>4 DEF Fits
  <2>2. CASE ~Stored(s, j)
    <3>1. D[j] = EmptyTop \/ D[j] = Vacant
      BY <2>2, ImageOut
    <3> QED
      BY <3>1, EmptyTopIs, VacantIs
  <2> QED
    BY <2>1, <2>2
<1>4. D[Root].kind = "dir" /\ D[Root].persist /\ D[Root].nlink = 0
  <2>1. Stored(s, Root)
    BY DEF Stored
  <2>2. D[Root].kind = s[Root].kind /\ D[Root].persist /\ D[Root].nlink = s[Root].nlink
    BY <1>1, <2>1, ImageAt
  <2> QED
    BY <1>1, <2>2
<1> QED
  BY <1>2, <1>3, <1>4, ShapesAre

\* The entries of what is stored are those of the live slab.
LEMMA ImageEntries ==
  ASSUME NEW s, LiveInv(s), NEW b \in {0, 1}, NEW j \in Inos, NEW k \in Names
  PROVE  /\ Image(s, b)[j].children[k] \in {NoEntry, s[j].children[k]}
         /\ Image(s, b)[j].children[k] # NoEntry =>
              Stored(s, j) /\ (<<j, k>> = <<Root, Tmp>> => b = 1)
         /\ Stored(s, j) /\ (<<j, k>> = <<Root, Tmp>> => b = 1) =>
              Image(s, b)[j].children[k] = s[j].children[k]
         /\ Stored(s, j) /\ b = 1 => Image(s, b)[j].children[k] = s[j].children[k]
<1>1. s \in [Inos -> NodeType]
  BY ShapesAre DEF LiveInv
<1>2. CASE Stored(s, j)
  <2>1. Image(s, b)[j].children[k] =
          IF j = Root /\ k = Tmp /\ b = 0 THEN NoEntry ELSE s[j].children[k]
    BY <1>1, <1>2, ImageAt
  <2> QED
    BY <1>2, <2>1
<1>3. CASE ~Stored(s, j)
  <2>1. Image(s, b)[j] = EmptyTop \/ Image(s, b)[j] = Vacant
    BY <1>3, ImageOut
  <2>2. Image(s, b)[j].children[k] = NoEntry
    BY <2>1, EmptyTopIs, VacantIs DEF NoNames
  <2> QED
    BY <1>3, <2>2
<1> QED
  BY <1>2, <1>3

\* The image of a sound slab is sound.
LEMMA ImageSound ==
  ASSUME NEW s, LiveInv(s), NEW b \in {0, 1}
  PROVE  SlabSound(Image(s, b))
<1> DEFINE D == Image(s, b)
<1>1. Shapes(s) /\ SlabSound(s) /\ Border(s) /\ s \in [Inos -> NodeType] /\ s \in Slab /\ Counted(s)
  BY SlabIs, CountedIs DEF LiveInv, Shapes
<1>2. Shapes(D) /\ D \in Slab /\ D \in [Inos -> NodeType]
  BY ImageShapes, SlabIs DEF Shapes
<1>3. Root \in Inos /\ Tmp \in Names /\ NoEntry = Root
  BY SlabNumbers
<1>4. ASSUME NEW c \in Inos \ {Root}, NEW j \in Inos, NEW k \in Names, D[j].children[k] = c
      PROVE  Stored(s, j) /\ s[j].children[k] = c /\ (<<j, k>> = <<Root, Tmp>> => b = 1)
  BY <1>3, <1>4, ImageEntries
<1> HIDE DEF D
<1>5. ASSUME NEW c \in Inos \ {Root}
      PROVE  /\ Used(D, c) => D[c].nlink = Cardinality(Holds(D, c))
             /\ Holds(D, c) # {} => Used(D, c)
             /\ D[c].kind = "dir" => D[c].nlink <= 1
  <2>0. /\ Used(s, c) => s[c].nlink = Cardinality(Holds(s, c))
        /\ Holds(s, c) # {} => Used(s, c)
        /\ s[c].kind = "dir" => s[c].nlink <= 1
    BY <1>1 DEF Counted
  <2>1. CASE Stored(s, c)
    <3>1. D[c].kind = s[c].kind /\ D[c].nlink = s[c].nlink
      BY <1>1, <2>1, ImageAt DEF D
    <3>2. c # Top(s) /\ s[c].persist
      BY <2>1, StoredAre
    <3>3. ASSUME NEW j \in Inos, NEW k \in Names
          PROVE  s[j].children[k] = c <=> D[j].children[k] = c
      <4>1. ASSUME s[j].children[k] = c
            PROVE  D[j].children[k] = c
        <5>1. s[j].kind = "dir"
          BY <1>1, <1>3, <4>1, NamedUsed
        <5>2. <<j, k>> # <<Root, Tmp>>
          BY <3>2, <4>1 DEF Top
        <5>3. s[j].persist
          BY <1>1, <1>3, <3>2, <4>1, <5>2 DEF Border
        <5>4. Stored(s, j)
          BY <5>1, <5>3, StoredAre
        <5> QED
          BY <4>1, <5>2, <5>4, ImageEntries DEF D
      <4> QED
        BY <1>4, <4>1
    <3>4. Holds(D, c) = Holds(s, c)
      BY <3>3 DEF Holds
    <3> QED
      BY <2>0, <3>1, <3>4 DEF Used
  <2>2. CASE ~Stored(s, c) /\ ~(b = 1 /\ c = Top(s))
    <3>1. D[c] = Vacant
      BY <2>2, ImageOut DEF D
    <3>2. ASSUME NEW j \in Inos, NEW k \in Names, D[j].children[k] = c
          PROVE  FALSE
      <4>1. Stored(s, j) /\ s[j].children[k] = c /\ (<<j, k>> = <<Root, Tmp>> => b = 1)
        BY <1>4, <3>2
      <4>2. <<j, k>> # <<Root, Tmp>>
        BY <2>2, <4>1 DEF Top
      <4>3. Stored(s, c)
        BY <1>3, <4>1, <4>2, StoredAre
      <4> QED
        BY <2>2, <4>3
    <3>3. Holds(D, c) = {}
      BY <3>2 DEF Holds
    <3> QED
      BY <3>1, <3>3, VacantIs DEF Used
  <2>3. CASE b = 1 /\ c = Top(s)
    <3>1. D[c] = EmptyTop
      BY <2>3, StoredAre, ImageOut DEF D
    <3>2. s[c].nlink <= 1 /\ s[Root].children[Tmp] = c
      BY <2>0, <2>3, StoredAre DEF Top
    <3>3. Holds(D, c) = {<<Root, Tmp>>}
      <4>1. D[Root].children[Tmp] = c
        <5>1. Stored(s, Root)
          BY StoredAre
        <5>2. Image(s, b)[Root].children[Tmp] = s[Root].children[Tmp]
          BY <1>3, <2>3, <5>1, ImageEntries
        <5> QED
          BY <3>2, <5>2 DEF D
      <4>2. <<Root, Tmp>> \in Holds(D, c)
        BY <1>2, <1>3, <4>1, HoldsAre
      <4>3. ASSUME NEW j \in Inos, NEW k \in Names, D[j].children[k] = c
            PROVE  j = Root /\ k = Tmp
        <5>1. s[j].children[k] = c
          BY <1>4, <4>3
        <5> QED
          BY <1>1, <1>3, <3>2, <5>1, OneName
      <4>4. \A x \in Holds(D, c): x = <<Root, Tmp>>
        BY <4>3 DEF Holds
      <4> QED
        BY <4>2, <4>4
    <3>4. Cardinality({<<Root, Tmp>>}) = 1
      BY FS_Singleton, Zenon
    <3> QED
      BY <3>1, <3>3, <3>4, EmptyTopIs DEF Used
  <2> QED
    BY <2>1, <2>2, <2>3
<1>6. Counted(D)
  BY <1>5 DEF Counted
<1>7. SlabSound(D)
  BY <1>2, <1>6, CountedIs
<1> QED
  BY <1>7 DEF D

\* The directories of the image form one tree.
LEMMA ImageTree ==
  ASSUME NEW s, LiveInv(s), NEW b \in {0, 1}
  PROVE  Tree(Image(s, b))
<1> DEFINE D == Image(s, b)
<1>1. Shapes(s) /\ SlabSound(s) /\ Tree(s) /\ Border(s) /\ s \in [Inos -> NodeType] /\ s \in Slab
  BY SlabIs DEF LiveInv, Shapes
<1>2. Shapes(D) /\ D \in Slab /\ D \in [Inos -> NodeType]
  BY ImageShapes, SlabIs DEF Shapes
<1>3. Root \in Inos /\ Tmp \in Names /\ NoEntry = Root
  BY SlabNumbers
<1>4. SUFFICES ASSUME NEW X \in SUBSET Inos, Root \in X, Closed(D, X)
               PROVE  Dirs(D) \subseteq X
  BY DEF Tree
<1> DEFINE Y == X \cup {j \in Inos: ~Stored(s, j)}
<1>5. Closed(s, Y)
  <2>1. ASSUME NEW j \in Y, NEW c \in Children(s, j), Stored(s, c)
        PROVE  c \in X
    <3>1. j \in Inos /\ c \in Inos \ {Root}
      BY <1>1, <2>1, ChildrenAre
    <3>2. PICK k \in Names: s[j].children[k] = c
      BY <2>1 DEF Children
    <3>3. <<j, k>> # <<Root, Tmp>>
      BY <2>1, <3>2, StoredAre DEF Top
    <3>4. s[j].kind = "dir" /\ s[c].persist = s[j].persist
      BY <1>1, <1>3, <3>1, <3>2, <3>3, NamedUsed DEF Border
    <3>5. Stored(s, j)
      BY <2>1, <3>1, <3>4, StoredAre
    <3>6. j \in X
      BY <2>1, <3>5
    <3>7. D[j].children[k] = c
      BY <3>1, <3>2, <3>3, <3>5, ImageEntries
    <3>8. c \in Children(D, j)
      BY <1>2, <1>3, <3>1, <3>7, ChildrenAre
    <3> QED
      BY <1>4, <3>6, <3>8 DEF Closed
  <2>2. \A j \in Y: Children(s, j) \subseteq Inos
    BY <1>1, ChildrenAre
  <2> QED
    BY <2>1, <2>2 DEF Closed
<1>6. Dirs(s) \subseteq Y
  BY <1>1, <1>4, <1>5 DEF Tree
<1>7. ASSUME NEW j \in Inos, D[j].kind = "dir"
      PROVE  j \in X
  <2>1. CASE Stored(s, j)
    <3>1. s[j].kind = "dir"
      BY <1>1, <1>7, <2>1, ImageAt
    <3> QED
      BY <1>6, <2>1, <3>1 DEF Dirs
  <2>2. CASE ~Stored(s, j)
    <3>1. b = 1 /\ j = Top(s)
      BY <1>7, <2>2, ImageOut, VacantIs
    <3>2. D[Root].children[Tmp] = j /\ j # NoEntry
      <4>1. Stored(s, Root) /\ Top(s) \in Inos \ {Root}
        BY StoredAre
      <4>2. D[Root].children[Tmp] = s[Root].children[Tmp]
        BY <1>3, <3>1, <4>1, ImageEntries
      <4> QED
        BY <1>3, <3>1, <4>1, <4>2 DEF Top
    <3>3. j \in Children(D, Root)
      BY <1>2, <1>3, <3>2, ChildrenAre
    <3> QED
      BY <1>4, <3>3 DEF Closed
  <2> QED
    BY <2>1, <2>2
<1> QED
  BY <1>7 DEF Dirs

-----------------------------------------------------------------------------
\* A name is given

\* A link on the disk is the link in the live slab: D differs from the image of s
\* at most in i, which has no name yet.
LEMMA ImageLink ==
  ASSUME NEW s, s \in [Inos -> NodeType], NEW D, D \in [Inos -> NodeType], NEW b \in {0, 1},
         NEW d \in Inos, NEW n \in Names, NEW i \in Inos \ {Root}, i # d, <<d, n>> # <<Root, Tmp>>,
         s[d].children[n] = NoEntry, D[d].children[n] = NoEntry, Stored(s, d), s[i].persist, Top(s) # i,
         \A j \in Inos: j # i => D[j] = Image(s, b)[j],
         D[i] = Copy(s[i])
  PROVE  LinkEdit(D, d, n, i) = Image(LinkEdit(s, d, n, i), b)
<1> DEFINE t == LinkEdit(s, d, n, i)
           E == LinkEdit(D, d, n, i)
<1>1. NoEntry = Root /\ Root \in Inos /\ Tmp \in Names
  BY SlabNumbers
<1>2. \A j \in Inos: t[j] = IF j = d THEN Named(s[j], n, i)
                            ELSE IF j = i THEN Raised(s[j]) ELSE s[j]
  BY DEF LinkEdit
<1>3. \A j \in Inos: E[j] = IF j = d THEN Named(D[j], n, i)
                            ELSE IF j = i THEN Raised(D[j]) ELSE D[j]
  BY DEF LinkEdit
<1>4. t \in [Inos -> NodeType] /\ E \in [Inos -> NodeType]
  <2>1. \A j \in Inos: s[j] \in NodeType /\ D[j] \in NodeType
    OBVIOUS
  <2>2. \A j \in Inos: Named(s[j], n, i) \in NodeType /\ Raised(s[j]) \in NodeType
                       /\ Named(D[j], n, i) \in NodeType /\ Raised(D[j]) \in NodeType
    BY <2>1, NodeTypes, Zenon
  <2>3. t = [j \in Inos |-> t[j]] /\ E = [j \in Inos |-> E[j]]
    BY DEF LinkEdit
  <2> HIDE DEF t, E
  <2>4. \A j \in Inos: t[j] \in NodeType /\ E[j] \in NodeType
    BY <1>2, <1>3, <2>1, <2>2
  <2> QED
    BY <2>3, <2>4
<1>5. E = [j \in Inos |-> E[j]] /\ Image(t, b) = [j \in Inos |-> Image(t, b)[j]]
  BY DEF LinkEdit, Image
<1> HIDE DEF t, E
<1>6. Top(t) = Top(s)
  <2>1. CASE d = Root
    <3>1. t[Root] = Named(s[Root], n, i)
      BY <1>1, <1>2, <2>1
    <3>2. s[Root] \in NodeType /\ n # Tmp
      BY <1>1, <2>1
    <3>3. Named(s[Root], n, i).children[Tmp] = s[Root].children[Tmp]
      BY <1>1, <3>2, Fields
    <3> QED
      BY <3>1, <3>3 DEF Top
  <2>2. CASE d # Root
    <3>1. t[Root] = s[Root]
      BY <1>1, <1>2, <2>2
    <3> QED
      BY <3>1 DEF Top
  <2> QED
    BY <2>1, <2>2
<1>7. ASSUME NEW j \in Inos
      PROVE  Image(t, b)[j] = E[j]
  <2>1. s[j] \in NodeType /\ D[j] \in NodeType
    OBVIOUS
  <2>2. CASE j = i
    <3>1. t[j] = Raised(s[j]) /\ E[j] = Raised(Copy(s[j]))
      BY <1>2, <1>3, <2>2
    <3>2. Stored(t, j)
      <4>1. t[j].persist = s[j].persist /\ t[j].nlink = s[j].nlink + 1 /\ s[j].nlink \in Nat
        BY <2>1, <3>1, Fields
      <4> QED
        BY <2>2, <4>1 DEF Stored
    <3>3. Image(t, b)[j] = Copy(t[j])
      BY <1>4, <2>2, <3>2, ImageAt
    <3>4. Copy(Raised(s[j])) = Raised(Copy(s[j]))
      BY <2>1, Zenon DEF Copy, Raised, NodeType
    <3> QED
      BY <3>1, <3>3, <3>4
  <2>3. CASE j = d
    <3>1. t[j] = Named(s[j], n, i) /\ E[j] = Named(D[j], n, i) /\ D[j] = Image(s, b)[j]
      BY <1>2, <1>3, <2>3
    <3>2. /\ t[j].kind = s[j].kind /\ t[j].persist = s[j].persist /\ t[j].nlink = s[j].nlink
          /\ t[j].data = s[j].data
          /\ \A k \in Names: t[j].children[k] = IF k = n THEN i ELSE s[j].children[k]
      BY <2>1, <3>1, Fields
    <3>3. /\ E[j].kind = D[j].kind /\ E[j].persist = D[j].persist /\ E[j].nlink = D[j].nlink
          /\ E[j].data = D[j].data /\ E[j].opens = D[j].opens
          /\ \A k \in Names: E[j].children[k] = IF k = n THEN i ELSE D[j].children[k]
      BY <2>1, <3>1, Fields
    <3>4. Stored(t, j) /\ Stored(s, j)
      BY <2>3, <3>2 DEF Stored
    <3>5. /\ D[j].kind = s[j].kind /\ D[j].persist
          /\ D[j].nlink = s[j].nlink /\ D[j].opens = 0 /\ D[j].data = s[j].data
          /\ \A k \in Names: D[j].children[k] =
               IF j = Root /\ k = Tmp /\ b = 0 THEN NoEntry ELSE s[j].children[k]
      BY <3>1, <3>4, ImageAt
    <3> DEFINE y == Image(t, b)[j]
               z == E[j]
    <3>6. /\ y \in NodeType /\ y.kind = t[j].kind /\ y.persist
          /\ y.nlink = t[j].nlink /\ y.opens = 0 /\ y.data = t[j].data
          /\ \A k \in Names: y.children[k] =
               IF j = Root /\ k = Tmp /\ b = 0 THEN NoEntry ELSE t[j].children[k]
      BY <1>4, <3>4, ImageAt
    <3>7. z \in NodeType
      BY <1>4
    <3>8. \A k \in Names: y.children[k] = z.children[k]
      <4> TAKE k \in Names
      <4>1. y.children[k] = IF j = Root /\ k = Tmp /\ b = 0 THEN NoEntry ELSE t[j].children[k]
        BY <3>6
      <4>2. z.children[k] = IF k = n THEN i ELSE D[j].children[k]
        BY <3>3
      <4>3. t[j].children[k] = IF k = n THEN i ELSE s[j].children[k]
        BY <3>2
      <4>4. D[j].children[k] = IF j = Root /\ k = Tmp /\ b = 0 THEN NoEntry ELSE s[j].children[k]
        BY <3>5
      <4> HIDE DEF y, z
      <4> QED
        BY <2>3, <4>1, <4>2, <4>3, <4>4
    <3>9. /\ y.kind = z.kind /\ y.nlink = z.nlink /\ y.opens = z.opens /\ y.data = z.data
          /\ y.persist /\ z.persist
      BY <3>2, <3>3, <3>5, <3>6
    <3> HIDE DEF y, z
    <3>10. y.persist = z.persist
      BY <3>6, <3>7, <3>9 DEF NodeType
    <3>11. y = z
      BY <3>6, <3>7, <3>8, <3>9, <3>10, SameNode, Zenon
    <3> QED
      BY <3>11 DEF y, z
  <2>4. CASE j # i /\ j # d
    <3>1. t[j] = s[j] /\ E[j] = Image(s, b)[j]
      BY <1>2, <1>3, <2>4
    <3>2. Stored(t, j) <=> Stored(s, j)
      BY <3>1 DEF Stored
    <3>3. Image(t, b)[j] = Image(s, b)[j]
      BY <1>6, <3>1, <3>2 DEF Image
    <3> QED
      BY <3>1, <3>3
  <2> QED
    BY <2>2, <2>3, <2>4
<1>8. E = Image(t, b)
  BY <1>5, <1>7
<1> QED
  BY <1>8 DEF t, E

\* On the other side of the border, the journal does not notice.
LEMMA ImageLinkOut ==
  ASSUME NEW s, s \in [Inos -> NodeType], NEW b \in {0, 1},
         NEW d \in Inos \ {Root}, NEW n \in Names, NEW i \in Inos \ {Root}, i # d,
         s[d].children[n] = NoEntry, ~s[d].persist, ~s[i].persist
  PROVE  Image(LinkEdit(s, d, n, i), b) = Image(s, b)
<1> DEFINE t == LinkEdit(s, d, n, i)
<1>1. NoEntry = Root /\ Root \in Inos
  BY SlabNumbers
<1>2. \A j \in Inos: t[j] = IF j = d THEN Named(s[j], n, i)
                            ELSE IF j = i THEN Raised(s[j]) ELSE s[j]
  BY DEF LinkEdit
<1>3. t \in [Inos -> NodeType]
  <2>1. \A j \in Inos: s[j] \in NodeType
    OBVIOUS
  <2>2. \A j \in Inos: Named(s[j], n, i) \in NodeType /\ Raised(s[j]) \in NodeType
    BY <2>1, NodeTypes, Zenon
  <2>3. t = [j \in Inos |-> t[j]]
    BY DEF LinkEdit
  <2> HIDE DEF t
  <2>4. \A j \in Inos: t[j] \in NodeType
    BY <1>2, <2>1, <2>2
  <2> QED
    BY <2>3, <2>4
<1> HIDE DEF t
<1>4. ASSUME NEW j \in Inos, j = d \/ j = i
      PROVE  ~Stored(s, j) /\ ~Stored(t, j) /\ j # Root
  <2>1. s[j] \in NodeType
    OBVIOUS
  <2>2. t[j].persist = s[j].persist
    BY <1>2, <1>4, <2>1, Fields
  <2> QED
    BY <1>4, <2>2 DEF Stored
<1>5. \A j \in Inos: j # d /\ j # i => t[j] = s[j]
  BY <1>2
<1>6. Top(s) = Top(t)
  BY <1>1, <1>5 DEF Top
<1>7. ASSUME NEW j \in Inos
      PROVE  \/ Copy(s[j]) = Copy(t[j]) /\ (Stored(s, j) <=> Stored(t, j))
             \/ j # Root /\ ~Stored(s, j) /\ ~Stored(t, j)
  <2>1. CASE j = d \/ j = i
    BY <1>4, <2>1
  <2>2. CASE j # d /\ j # i
    BY <1>5, <2>2 DEF Stored
  <2> QED
    BY <2>1, <2>2
<1>8. Image(t, b) = Image(s, b)
  BY <1>3, <1>6, <1>7, ImageSame
<1> QED
  BY <1>8 DEF t

\* Replay of a record that makes a node.
LEMMA ApplyNode ==
  ASSUME NEW s, NEW u, NEW i
  PROVE  Apply(s, RecNode(u, i)) =
           IF i = Root THEN s ELSE Placed(s, i, Node(u[i].kind, TRUE, u[i].data))
  BY DEF Apply, RecNode

\* Replay of a record that makes an entry.
LEMMA ApplyLink ==
  ASSUME NEW s, NEW d, NEW n, NEW i
  PROVE  Apply(s, RecLink(d, n, i)) =
           IF s[d].kind = "dir" /\ Used(s, i) THEN Linked(s, d, n, i) ELSE s
  BY DEF Apply, RecLink

\* Replay of a record that removes an entry.
LEMMA ApplyUnlink ==
  ASSUME NEW s, NEW d, NEW n
  PROVE  Apply(s, RecUnlink(d, n)) = IF s[d].kind = "dir" THEN Unlinked(s, d, n) ELSE s
  BY DEF Apply, RecUnlink

\* Replay of a record that writes a file.
LEMMA ApplyWrite ==
  ASSUME NEW s, NEW i, NEW x
  PROVE  Apply(s, RecWrite(i, x)) = IF s[i].kind = "file" THEN [s EXCEPT ![i].data = x] ELSE s
  BY DEF Apply, RecWrite

\* Two records as a sequence.
LEMMA TwoRecords ==
  ASSUME NEW a \in SlabRecords, NEW b \in SlabRecords
  PROVE  <<a>> \o <<b>> = <<a, b>>
<1> DEFINE x == <<a>> \o <<b>>
           y == <<a, b>>
<1>1. <<a>> \in Seq(SlabRecords) /\ <<b>> \in Seq(SlabRecords) /\ <<a, b>> \in Seq(SlabRecords)
  OBVIOUS
<1>2. Len(x) = 2 /\ x[1] = a /\ x[2] = b /\ x \in Seq(SlabRecords)
  BY <1>1
<1>3. Len(y) = 2 /\ y[1] = a /\ y[2] = b /\ y \in Seq(SlabRecords)
  BY <1>1
<1> HIDE DEF x, y
<1>4. \A i \in 1..Len(x): x[i] = y[i]
  BY <1>2, <1>3
<1>5. x = y
  BY <1>2, <1>3, <1>4
<1> QED
  BY <1>5 DEF x, y

\* What the operations journal are records.
LEMMA RecordsAre ==
  ASSUME NEW s, s \in [Inos -> NodeType], NEW d \in Inos, NEW n \in Names, NEW i \in Inos, NEW x \in Data
  PROVE  /\ RecNode(s, i) \in SlabRecords /\ RecLink(d, n, i) \in SlabRecords
         /\ RecUnlink(d, n) \in SlabRecords /\ RecWrite(i, x) \in SlabRecords
<1>1. s[i].kind \in {"none", "file", "dir"} /\ s[i].data \in Data
  BY DEF NodeType
<1> QED
  BY <1>1 DEF RecNode, RecLink, RecUnlink, RecWrite, SlabRecords

\* A node is placed at a vacant number, and linked.
LEMMA PlaceRun ==
  ASSUME NEW D, WholeSlab(D), NEW u, u \in [Inos -> NodeType], NEW i \in Inos \ {Root}, ~Used(D, i)
  PROVE  Run(D, <<RecNode(u, i)>>, [D EXCEPT ![i] = Node(u[i].kind, TRUE, u[i].data)])
<1>1. RecNode(u, i) \in SlabRecords
  BY RecordsAre, SlabNumbers, OverlayAssumption DEF OverlayAssumption
<1>2. Apply(D, RecNode(u, i)) = Placed(D, i, Node(u[i].kind, TRUE, u[i].data))
  BY ApplyNode, Zenon
<1>3. Placed(D, i, Node(u[i].kind, TRUE, u[i].data)) =
        [D EXCEPT ![i] = Node(u[i].kind, TRUE, u[i].data)]
  BY DEF Placed
<1>4. Run(D, <<RecNode(u, i)>>, Apply(D, RecNode(u, i)))
  BY <1>1, RunOne
<1> QED
  BY <1>2, <1>3, <1>4, Zenon

\* Replay of one new entry.
LEMMA LinkRun ==
  ASSUME NEW D, WholeSlab(D), NEW d \in Inos, NEW n \in Names, NEW i \in Inos \ {Root},
         D[d].kind = "dir", Used(D, i), i # d, D[d].children[n] = NoEntry
  PROVE  Run(D, <<RecLink(d, n, i)>>, LinkEdit(D, d, n, i))
<1>1. RecLink(d, n, i) \in SlabRecords
  BY DEF RecLink, SlabRecords
<1>2. Apply(D, RecLink(d, n, i)) = Linked(D, d, n, i)
  BY ApplyLink
<1>3. Linked(D, d, n, i) = LinkEdit(D, d, n, i)
  BY LinkedIs, SlabNumbers DEF Used
<1>4. Run(D, <<RecLink(d, n, i)>>, Apply(D, RecLink(d, n, i)))
  BY <1>1, RunOne
<1> QED
  BY <1>2, <1>3, <1>4, Zenon

\* A node with a name is made.
LEMMA MakeKeeps ==
  ASSUME TreeInv, NEW d \in Inos, NEW n \in Names, NEW kind \in {"file", "dir"}, NEW opens \in {0, 1},
         kind = "dir" => opens = 0, Make(d, n, kind, opens)
  PROVE  TreeInv'
<1>1. /\ Shapes(live) /\ SlabSound(live) /\ Tree(live) /\ Border(live) /\ LiveInv(live)
      /\ live \in [Inos -> NodeType] /\ live \in Slab /\ \A j \in Inos: Fits(live[j])
      /\ live[Root].kind = "dir" /\ live[Root].persist /\ live[Root].nlink = 0
  BY ShapesAre, SlabIs DEF TreeInv, LiveInv
<1>2. PICK b \in {0, 1}: disk = Image(live, b)
  BY DEF TreeInv
<1> DEFINE made(i) == [live EXCEPT ![i] = [Node(kind, live[d].persist, Blank) EXCEPT !.opens = opens]]
<1>3. /\ live[d].kind = "dir" /\ live[d].children[n] = NoEntry /\ boots' = boots
      /\ d = Root \/ live[d].nlink > 0
  BY DEF Make, Dirs, InTree
<1>4. PICK i \in Inos: /\ ~Used(live, i) /\ live' = Linked(made(i), d, n, i)
                       /\ JournalIn(d, <<RecNode(made(i), i), RecLink(d, n, i)>>)
  BY Zenon DEF Make
<1> DEFINE x == [Node(kind, live[d].persist, Blank) EXCEPT !.opens = opens]
           u == made(i)
           t == LinkEdit(u, d, n, i)
<1>5. /\ x.kind = kind /\ x.persist = live[d].persist /\ x.nlink = 0 /\ x.opens = opens
      /\ x.data = Blank /\ x.children = NoNames /\ x \in NodeType /\ Fits(x)
  <2>1. /\ x.kind = kind /\ x.persist = live[d].persist /\ x.nlink = 0 /\ x.opens = opens
        /\ x.data = Blank /\ x.children = NoNames
    BY DEF Node, NoNames
  <2>2. live[d].persist \in BOOLEAN /\ NoNames \in [Names -> Inos] /\ Blank \in Data
    BY <1>1, VacantIs, OverlayAssumption DEF OverlayAssumption, NodeType
  <2>3. x \in NodeType
    BY <2>2 DEF Node, NodeType, NoNames
  <2> HIDE DEF x
  <2>4. Fits(x)
    BY <2>1 DEF Fits
  <2> QED
    BY <2>1, <2>3, <2>4
<1>6. live[i] = Vacant /\ i # d /\ i # Root /\ Top(live) # i
  BY <1>1, <1>3, <1>4 DEF Shapes, Used, Border, Dirs
<1> HIDE DEF x
<1>7. /\ u \in [Inos -> NodeType] /\ u[i] = x /\ \A j \in Inos: j # i => u[j] = live[j]
  BY <1>1, <1>5 DEF x
<1> HIDE DEF made
<1>8. Shapes(u)
  <2>1. \A j \in Inos: Fits(u[j])
    BY <1>1, <1>5, <1>7
  <2> QED
    BY <1>1, <1>6, <1>7, <2>1, SlabNumbers, ShapesAre
<1>9. ASSUME NEW j \in Inos
      PROVE  /\ u[j].children = live[j].children
             /\ \/ Alike(live[j], u[j]) /\ u[j].nlink = live[j].nlink
                \/ live[j].kind # "dir" /\ live[j].nlink = 0 /\ u[j].nlink = 0
  <2>1. CASE j = i
    BY <1>5, <1>6, <1>7, <2>1, VacantIs
  <2>2. CASE j # i
    BY <1>7, <2>2 DEF Alike
  <2> QED
    BY <2>1, <2>2
<1>10. SlabSound(u) /\ Border(u)
  BY <1>1, <1>8, <1>9, QuietKeeps
<1>11. Used(u, i) /\ u[d] = live[d] /\ u[i].nlink = 0 /\ u[i].persist = u[d].persist
  BY <1>5, <1>6, <1>7 DEF Used
<1>12. /\ live' = t /\ Shapes(t) /\ SlabSound(t) /\ Border(t) /\ Puts(u, t, d, n, i)
       /\ \A j \in Inos: Alike(u[j], t[j])
  BY <1>3, <1>4, <1>6, <1>8, <1>10, <1>11, LinkStep
<1> HIDE DEF t
<1>13. Tree(t)
  <2>1. Puts(live, t, d, n, i)
    BY <1>9, <1>12 DEF Puts
  <2>2. Dirs(t) \subseteq Dirs(live) \cup {i}
    BY <1>7, <1>12 DEF Dirs, Alike
  <2>3. d \in Dirs(live) /\ t \in Slab /\ i \in Inos \ {Root}
    BY <1>3, <1>6, <1>12 DEF Dirs, Shapes
  <2> QED
    BY <1>1, <1>3, <2>1, <2>2, <2>3, TreeAdd
<1>14. disk' = Image(t, b)
  <2>0. <<d, n>> # <<Root, Tmp>>
    BY <1>1, <1>3, SlabNumbers DEF Border, Top
  <2>1. ASSUME NEW j \in Inos, j # i
        PROVE  Image(live, b)[j] = Image(u, b)[j]
    <3>1. u[j] = live[j] /\ u[Root] = live[Root]
      BY <1>6, <1>7, <2>1, SlabNumbers
    <3> QED
      BY <3>1 DEF Image, Stored, Top
  <2>2. ~Stored(live, i) /\ disk[i] = Vacant
    <3>1. ~Stored(live, i)
      BY <1>6, VacantIs DEF Stored
    <3> QED
      BY <1>2, <1>6, <3>1, ImageOut
  <2>3. CASE live[d].persist
    <3> DEFINE D == [disk EXCEPT ![i] = Node(u[i].kind, TRUE, u[i].data)]
    <3>1. Shapes(disk) /\ WholeSlab(disk) /\ disk \in [Inos -> NodeType]
      BY <1>1, <1>2, ImageShapes, SlabIs DEF Shapes, WholeSlab
    <3>2. Node(u[i].kind, TRUE, u[i].data) = Copy(u[i]) /\ Copy(u[i]) \in NodeType
      <4>1. Copy(x) = Node(kind, TRUE, Blank)
        <5> DEFINE y == Copy(x)
                   z == Node(kind, TRUE, Blank)
        <5>1. /\ y \in NodeType /\ y.kind = kind /\ y.persist /\ y.nlink = 0 /\ y.opens = 0
              /\ y.data = Blank /\ y.children = NoNames
          BY <1>5, CopyIs
        <5>2. /\ z \in NodeType /\ z.kind = kind /\ z.persist /\ z.nlink = 0 /\ z.opens = 0
              /\ z.data = Blank /\ z.children = NoNames
          <6>1. Blank \in Data /\ kind \in {"none", "file", "dir"}
            BY OverlayAssumption DEF OverlayAssumption
          <6> QED
            BY <6>1, NodeIs, Zenon
        <5> HIDE DEF y, z
        <5>3. y.persist = z.persist
          BY <5>1, <5>2 DEF NodeType
        <5>4. y = z
          BY <5>1, <5>2, <5>3, SameNode, Zenon
        <5> QED
          BY <5>4 DEF y, z
      <4> QED
        BY <1>5, <1>7, <4>1, CopyIs, Zenon
    <3>3. D \in [Inos -> NodeType] /\ D[i] = Copy(u[i]) /\ \A j \in Inos: j # i => D[j] = disk[j]
      BY <3>1, <3>2, Zenon
    <3>4. Run(disk, <<RecNode(u, i)>>, D)
      BY <1>6, <1>7, <2>2, <3>1, VacantIs, PlaceRun, Zenon DEF Used
    <3> HIDE DEF D
    <3>5. WholeSlab(D)
      <4>1. D[i].kind = kind
        BY <1>5, <1>7, <3>3, CopyIs
      <4> QED
        BY <3>1, <3>3, <4>1, SlabIs DEF WholeSlab, Used
    <3>6. Stored(live, d) /\ Stored(u, d)
      BY <1>3, <1>11, <2>3 DEF Stored
    <3>7. D[d].kind = "dir" /\ D[d].children[n] = NoEntry
      <4>1. D[d] = Image(live, b)[d]
        BY <1>2, <1>6, <3>3
      <4>2. Image(live, b)[d].kind = live[d].kind
        BY <1>1, <3>6, ImageAt
      <4>3. Image(live, b)[d].children[n] \in {NoEntry, live[d].children[n]}
        BY <1>1, ImageEntries
      <4> QED
        BY <1>3, <4>1, <4>2, <4>3
    <3>8. Run(D, <<RecLink(d, n, i)>>, LinkEdit(D, d, n, i))
      <4>1. Used(D, i)
        BY <1>5, <1>7, <3>3, CopyIs DEF Used
      <4> QED
        BY <1>6, <3>5, <3>7, <4>1, LinkRun
    <3>9. LinkEdit(D, d, n, i) = Image(t, b)
      <4>1. \A j \in Inos: j # i => D[j] = Image(u, b)[j]
        BY <1>2, <2>1, <3>3
      <4>2. u[i].persist /\ Top(u) # i /\ u[d].children[n] = NoEntry
        BY <1>3, <1>6, <1>7, <1>11, <2>3, SlabNumbers DEF Top
      <4> QED
        BY <1>6, <1>7, <2>0, <3>3, <3>6, <3>7, <4>1, <4>2, ImageLink DEF t
    <3>10. Run(disk, <<RecNode(u, i)>> \o <<RecLink(d, n, i)>>, Image(t, b))
      BY <3>4, <3>8, <3>9, RunJoin
    <3>11. <<RecNode(u, i)>> \o <<RecLink(d, n, i)>> = <<RecNode(u, i), RecLink(d, n, i)>>
      <4>1. RecNode(u, i) \in SlabRecords /\ RecLink(d, n, i) \in SlabRecords
        BY <1>7, RecordsAre, OverlayAssumption DEF OverlayAssumption
      <4> QED
        BY <4>1, TwoRecords
    <3>12. disk' = Replayed(disk, <<RecNode(u, i), RecLink(d, n, i)>>)
      BY <1>4, <2>3 DEF JournalIn, Journal
    <3> QED
      BY <3>10, <3>11, <3>12, RunReplayed, Zenon
  <2>4. CASE ~live[d].persist
    <3>1. disk' = disk
      <4>1. disk' = Replayed(disk, <<>>)
        BY <1>4, <2>4 DEF JournalIn, Journal
      <4> QED
        BY <4>1, RunNone, RunReplayed
    <3>2. d # Root /\ ~u[d].persist /\ ~u[i].persist /\ u[d].children[n] = NoEntry
      BY <1>1, <1>3, <1>11, <2>4
    <3>3. Image(t, b) = Image(u, b)
      BY <1>6, <1>7, <3>2, ImageLinkOut DEF t
    <3>4. Image(u, b) = Image(live, b)
      <4>1. Top(live) = Top(u)
        BY <1>6, <1>7, SlabNumbers DEF Top
      <4>2. ~Stored(u, i)
        BY <1>6, <3>2 DEF Stored
      <4>3. \A j \in Inos: \/ Copy(live[j]) = Copy(u[j]) /\ (Stored(live, j) <=> Stored(u, j))
                           \/ j # Root /\ ~Stored(live, j) /\ ~Stored(u, j)
        BY <1>6, <1>7, <2>2, <4>2 DEF Stored
      <4> QED
        BY <1>1, <1>7, <4>1, <4>3, ImageSame
    <3> QED
      BY <1>2, <3>1, <3>3, <3>4
  <2> QED
    BY <2>3, <2>4
<1>15. LiveInv(live')
  BY <1>12, <1>13 DEF LiveInv
<1> QED
  BY <1>3, <1>12, <1>14, <1>15 DEF TreeInv

\* link keeps the invariant.
LEMMA LinkKeeps ==
  ASSUME TreeInv, CrossBorder = FALSE, NEW i \in Inos, NEW d \in Inos, NEW n \in Names, Link(i, d, n)
  PROVE  TreeInv'
<1>1. /\ Shapes(live) /\ SlabSound(live) /\ Tree(live) /\ Border(live) /\ LiveInv(live)
      /\ live \in [Inos -> NodeType] /\ live \in Slab
      /\ live[Root].kind = "dir" /\ live[Root].persist /\ live[Root].nlink = 0
  BY ShapesAre, SlabIs DEF TreeInv, LiveInv
<1>2. PICK b \in {0, 1}: disk = Image(live, b)
  BY DEF TreeInv
<1>3. /\ live[i].kind = "file" /\ live[d].kind = "dir" /\ live[d].children[n] = NoEntry
      /\ i # Root /\ i # d /\ live[i].nlink > 0 /\ live[i].persist = live[d].persist
      /\ boots' = boots /\ live' = Linked(live, d, n, i) /\ JournalIn(d, <<RecLink(d, n, i)>>)
  BY <1>1 DEF Link, Files, Dirs, InTree
<1> DEFINE t == LinkEdit(live, d, n, i)
<1>4. /\ live' = t /\ Shapes(t) /\ SlabSound(t) /\ Border(t) /\ Puts(live, t, d, n, i)
      /\ \A j \in Inos: Alike(live[j], t[j])
  BY <1>1, <1>3, LinkStep DEF Used
<1> HIDE DEF t
<1>5. Tree(t)
  <2>1. Dirs(t) \subseteq Dirs(live) \cup {i}
    BY <1>4 DEF Dirs, Alike
  <2>2. d \in Dirs(live) /\ t \in Slab /\ i \in Inos \ {Root}
    BY <1>3, <1>4 DEF Dirs, Shapes
  <2> QED
    BY <1>1, <1>3, <1>4, <2>1, <2>2, TreeAdd
<1>6. disk' = Image(t, b)
  <2>0. <<d, n>> # <<Root, Tmp>> /\ Top(live) # i
    BY <1>1, <1>3, SlabNumbers DEF Border, Top, Dirs
  <2>1. CASE live[d].persist
    <3>1. WholeSlab(disk) /\ disk \in [Inos -> NodeType]
      BY <1>1, <1>2, ImageShapes, SlabIs DEF Shapes, WholeSlab
    <3>2. Stored(live, d) /\ Stored(live, i)
      BY <1>1, <1>3, <2>1, StoredAre DEF Stored
    <3>3. disk[d].kind = "dir" /\ disk[i].kind = "file" /\ disk[i] = Copy(live[i])
      BY <1>1, <1>2, <1>3, <3>2, ImageAt
    <3>4. disk[d].children[n] = NoEntry
      <4>1. Image(live, b)[d].children[n] \in {NoEntry, live[d].children[n]}
        BY <1>1, ImageEntries
      <4> QED
        BY <1>2, <1>3, <4>1
    <3>5. Run(disk, <<RecLink(d, n, i)>>, LinkEdit(disk, d, n, i))
      BY <1>3, <3>1, <3>3, <3>4, LinkRun DEF Used
    <3>6. LinkEdit(disk, d, n, i) = Image(t, b)
      <4>1. \A j \in Inos: j # i => disk[j] = Image(live, b)[j]
        BY <1>2
      <4>2. live[i].persist /\ i \in Inos \ {Root}
        BY <1>3, <2>1
      <4> QED
        BY <1>1, <1>3, <2>0, <3>1, <3>2, <3>3, <3>4, <4>1, <4>2, ImageLink DEF t
    <3>7. disk' = Replayed(disk, <<RecLink(d, n, i)>>)
      BY <1>3, <2>1 DEF JournalIn, Journal
    <3> QED
      BY <3>5, <3>6, <3>7, RunReplayed
  <2>2. CASE ~live[d].persist
    <3>1. disk' = disk
      <4>1. disk' = Replayed(disk, <<>>)
        BY <1>3, <2>2 DEF JournalIn, Journal
      <4> QED
        BY <4>1, RunNone, RunReplayed
    <3>2. d # Root /\ ~live[i].persist
      BY <1>1, <1>3, <2>2
    <3> QED
      BY <1>1, <1>2, <1>3, <2>2, <3>1, <3>2, ImageLinkOut DEF t
  <2> QED
    BY <2>1, <2>2
<1> QED
  BY <1>3, <1>4, <1>5, <1>6 DEF TreeInv, LiveInv

-----------------------------------------------------------------------------
\* A name is taken away

\* On the disk, what loses its last name goes, open or not.
LEMMA ImageUnlink ==
  ASSUME NEW s, LiveInv(s), NEW b \in {0, 1}, NEW d \in Inos, NEW n \in Names,
         s[d].children[n] # NoEntry, s[d].children[n] # d, <<d, n>> # <<Root, Tmp>>, s[d].persist
  PROVE  UnlinkEdit(Image(s, b), d, n) = Image(UnlinkEdit(s, d, n), b)
<1> DEFINE D == Image(s, b)
           t == UnlinkEdit(s, d, n)
           E == UnlinkEdit(D, d, n)
           old == s[d].children[n]
<1>1. /\ Shapes(s) /\ SlabSound(s) /\ Border(s) /\ s \in [Inos -> NodeType]
      /\ \A j \in Inos: Fits(s[j])
  BY ShapesAre DEF LiveInv
<1>2. NoEntry = Root /\ Root \in Inos /\ Tmp \in Names /\ NoEntry \in Inos
  BY SlabNumbers
<1>3. old \in Inos \ {Root} /\ s[old].nlink \in Nat /\ s[old].nlink >= 1 /\ s[d].kind = "dir"
  BY <1>1, NamedUsed
<1>4. Stored(s, d) /\ Stored(s, old) /\ old # Top(s) /\ d # Top(s)
  <2>1. Stored(s, d)
    BY <1>3, StoredAre
  <2>2. Stored(s, old)
    BY <2>1, StoredAre
  <2> QED
    BY <2>1, <2>2, StoredAre
<1>5. D[d].children[n] = old /\ D \in [Inos -> NodeType] /\ D[old] = Copy(s[old])
  BY <1>1, <1>3, <1>4, ImageEntries, ImageIs, ImageAt
<1> HIDE DEF D
<1>6. \A j \in Inos: t[j] = IF j = d THEN Named(s[j], n, NoEntry)
                            ELSE IF j = old THEN Lessened(s[j]) ELSE s[j]
  BY <1>2, <1>3 DEF UnlinkEdit
<1>7. \A j \in Inos: E[j] = IF j = d THEN Named(D[j], n, NoEntry)
                            ELSE IF j = old THEN Lessened(D[j]) ELSE D[j]
  BY <1>2, <1>3, <1>5 DEF UnlinkEdit
<1>8. E = [j \in Inos |-> E[j]] /\ t = [j \in Inos |-> t[j]]
  BY DEF UnlinkEdit
<1>9. Image(t, b) = [j \in Inos |-> Image(t, b)[j]]
  BY DEF Image
<1> HIDE DEF t, E, old
<1>10. t \in [Inos -> NodeType] /\ E \in [Inos -> NodeType]
  <2>1. \A j \in Inos: s[j] \in NodeType /\ D[j] \in NodeType
    BY <1>1, <1>5
  <2>2. \A j \in Inos: Named(s[j], n, NoEntry) \in NodeType /\ Lessened(s[j]) \in NodeType
                       /\ Named(D[j], n, NoEntry) \in NodeType /\ Lessened(D[j]) \in NodeType
    BY <1>2, <2>1, NodeTypes, Zenon
  <2>3. \A j \in Inos: t[j] \in NodeType /\ E[j] \in NodeType
    BY <1>6, <1>7, <2>1, <2>2
  <2> QED
    BY <1>8, <2>3
<1>11. old # d
  BY DEF old
<1>12. Top(t) = Top(s)
  <2>1. CASE d = Root
    <3>1. t[Root] = Named(s[Root], n, NoEntry) /\ s[Root] \in NodeType /\ n # Tmp
      BY <1>1, <1>2, <1>6, <2>1
    <3>2. Named(s[Root], n, NoEntry).children[Tmp] = s[Root].children[Tmp]
      BY <1>2, <3>1, Fields
    <3> QED
      BY <3>1, <3>2 DEF Top
  <2>2. CASE d # Root
    <3>1. t[Root] = s[Root]
      BY <1>2, <1>3, <1>6, <2>2
    <3> QED
      BY <3>1 DEF Top
  <2> QED
    BY <2>1, <2>2
<1>13. ASSUME NEW j \in Inos
       PROVE  Image(t, b)[j] = E[j]
  <2>1. s[j] \in NodeType /\ D[j] \in NodeType
    BY <1>1, <1>5
  <2>2. CASE j = old
    <3>1. t[j] = Lessened(s[j]) /\ E[j] = Lessened(Copy(s[j]))
      BY <1>5, <1>6, <1>7, <1>11, <2>2
    <3> DEFINE x == s[j]
    <3>2. /\ x \in NodeType /\ x.nlink \in Nat /\ x.nlink >= 1 /\ x.persist
      BY <1>3, <1>4, <2>1, <2>2, StoredAre
    <3>3. /\ Copy(x) \in NodeType /\ Copy(x).nlink = x.nlink /\ Copy(x).opens = 0
      BY <3>2, CopyIs
    <3> HIDE DEF x
    <3>4. CASE x.nlink = 1
      <4>1. E[j] = Vacant
        BY <3>1, <3>3, <3>4 DEF Lessened, x
      <4>2. t[j].nlink = 0
        <5>1. CASE x.opens = 0
          BY <3>1, <3>4, <5>1, VacantIs DEF Lessened, x
        <5>2. CASE x.opens # 0
          <6>1. Lessened(x) = [x EXCEPT !.nlink = 0]
            BY <3>2, <3>4, <5>2 DEF Lessened
          <6>2. [x EXCEPT !.nlink = 0].nlink = 0
            BY <3>2 DEF NodeType
          <6> QED
            BY <3>1, <6>1, <6>2 DEF x
        <5> QED
          BY <5>1, <5>2
      <4>3. ~Stored(t, j)
        BY <1>3, <2>2, <4>2 DEF Stored
      <4>4. Image(t, b)[j] = Vacant
        BY <1>4, <1>12, <2>2, <4>3, ImageOut
      <4> QED
        BY <4>1, <4>4
    <3>5. CASE x.nlink # 1
      <4>1. t[j] = [x EXCEPT !.nlink = x.nlink - 1]
        BY <3>1, <3>2, <3>5 DEF Lessened, x
      <4>2. E[j] = [Copy(x) EXCEPT !.nlink = x.nlink - 1]
        BY <3>1, <3>2, <3>3, <3>5 DEF Lessened, x
      <4>3. Copy([x EXCEPT !.nlink = x.nlink - 1]) = [Copy(x) EXCEPT !.nlink = x.nlink - 1]
        BY <3>2, Zenon DEF Copy, NodeType
      <4>4. t[j].persist /\ t[j].nlink > 0
        BY <3>2, <3>5, <4>1 DEF NodeType
      <4>5. Stored(t, j)
        BY <4>4 DEF Stored
      <4>6. Image(t, b)[j] = Copy(t[j])
        BY <1>3, <1>10, <2>2, <4>5, ImageAt
      <4> QED
        BY <4>1, <4>2, <4>3, <4>6
    <3> QED
      BY <3>4, <3>5
  <2>3. CASE j = d
    <3>1. t[j] = Named(s[j], n, NoEntry) /\ E[j] = Named(D[j], n, NoEntry)
      BY <1>6, <1>7, <2>3
    <3>2. /\ t[j].kind = s[j].kind /\ t[j].persist = s[j].persist /\ t[j].nlink = s[j].nlink
          /\ t[j].data = s[j].data
          /\ \A k \in Names: t[j].children[k] = IF k = n THEN NoEntry ELSE s[j].children[k]
      BY <1>2, <2>1, <3>1, Fields
    <3>3. /\ E[j].kind = D[j].kind /\ E[j].persist = D[j].persist /\ E[j].nlink = D[j].nlink
          /\ E[j].data = D[j].data /\ E[j].opens = D[j].opens
          /\ \A k \in Names: E[j].children[k] = IF k = n THEN NoEntry ELSE D[j].children[k]
      BY <1>2, <2>1, <3>1, Fields
    <3>4. Stored(t, j) /\ Stored(s, j)
      BY <1>4, <2>3, <3>2 DEF Stored
    <3>5. /\ D[j].kind = s[j].kind /\ D[j].persist
          /\ D[j].nlink = s[j].nlink /\ D[j].opens = 0 /\ D[j].data = s[j].data
          /\ \A k \in Names: D[j].children[k] =
               IF j = Root /\ k = Tmp /\ b = 0 THEN NoEntry ELSE s[j].children[k]
      BY <1>1, <3>4, ImageAt DEF D
    <3> DEFINE y == Image(t, b)[j]
               z == E[j]
    <3>6. /\ y \in NodeType /\ y.kind = t[j].kind /\ y.persist
          /\ y.nlink = t[j].nlink /\ y.opens = 0 /\ y.data = t[j].data
          /\ \A k \in Names: y.children[k] =
               IF j = Root /\ k = Tmp /\ b = 0 THEN NoEntry ELSE t[j].children[k]
      BY <1>10, <3>4, ImageAt
    <3>7. z \in NodeType
      BY <1>10
    <3>8. \A k \in Names: y.children[k] = z.children[k]
      <4> TAKE k \in Names
      <4>1. y.children[k] = IF j = Root /\ k = Tmp /\ b = 0 THEN NoEntry ELSE t[j].children[k]
        BY <3>6
      <4>2. z.children[k] = IF k = n THEN NoEntry ELSE D[j].children[k]
        BY <3>3
      <4>3. t[j].children[k] = IF k = n THEN NoEntry ELSE s[j].children[k]
        BY <3>2
      <4>4. D[j].children[k] = IF j = Root /\ k = Tmp /\ b = 0 THEN NoEntry ELSE s[j].children[k]
        BY <3>5
      <4> HIDE DEF y, z
      <4> QED
        BY <4>1, <4>2, <4>3, <4>4
    <3>9. /\ y.kind = z.kind /\ y.nlink = z.nlink /\ y.opens = z.opens /\ y.data = z.data
          /\ y.persist /\ z.persist
      BY <3>2, <3>3, <3>5, <3>6
    <3> HIDE DEF y, z
    <3>10. y.persist = z.persist
      BY <3>6, <3>7, <3>9 DEF NodeType
    <3>11. y = z
      BY <3>6, <3>7, <3>8, <3>9, <3>10, SameNode, Zenon
    <3> QED
      BY <3>11 DEF y, z
  <2>4. CASE j # old /\ j # d
    <3>1. t[j] = s[j] /\ E[j] = Image(s, b)[j]
      BY <1>6, <1>7, <2>4 DEF D
    <3>2. Stored(t, j) <=> Stored(s, j)
      BY <3>1 DEF Stored
    <3>3. t[Root].children = s[Root].children \/ j # Root
      BY <3>1
    <3>4. Image(t, b)[j] = Image(s, b)[j]
      BY <1>12, <3>1, <3>2 DEF Image
    <3> QED
      BY <3>1, <3>4
  <2> QED
    BY <2>2, <2>3, <2>4
<1>14. E = Image(t, b)
  BY <1>8, <1>9, <1>13
<1> QED
  BY <1>14 DEF t, E, D

\* Nothing is journaled of what the excluded directory has.
LEMMA NoRecords ==
  ASSUME NEW d \in Inos, NEW records, JournalIn(d, records), ~live[d].persist
  PROVE  disk' = disk
<1>1. disk' = Replayed(disk, <<>>)
  BY DEF JournalIn, Journal
<1> QED
  BY <1>1, RunNone, RunReplayed

\* A name goes that has nothing below it.
LEMMA RemoveKeeps ==
  ASSUME TreeInv, CrossBorder = FALSE, NEW d \in Inos, NEW n \in Names,
         live[d].children[n] # NoEntry, IsEmpty(live, live[d].children[n]), RemoveEntry(d, n)
  PROVE  TreeInv'
<1> DEFINE old == live[d].children[n]
           t == UnlinkEdit(live, d, n)
<1>1. /\ Shapes(live) /\ SlabSound(live) /\ Tree(live) /\ Border(live) /\ LiveInv(live)
      /\ live \in [Inos -> NodeType] /\ live \in Slab /\ \A j \in Inos: Fits(live[j])
      /\ live[Root].kind = "dir" /\ live[Root].persist /\ live[Root].nlink = 0
  BY ShapesAre, SlabIs DEF TreeInv, LiveInv
<1>2. PICK b \in {0, 1}: disk = Image(live, b)
  BY DEF TreeInv
<1>3. /\ ~OnBorder(d, n) /\ boots' = boots /\ live' = Unlinked(live, d, n)
      /\ JournalIn(d, <<RecUnlink(d, n)>>)
  BY DEF RemoveEntry
<1>4. old \in Inos \ {Root} /\ Used(live, old) /\ live[d].kind = "dir"
  BY <1>1, NamedUsed
<1>5. live[old].persist = live[d].persist
  BY <1>3 DEF OnBorder
<1>6. <<d, n>> # <<Root, Tmp>>
  BY <1>1, <1>5 DEF Border, Top
<1>7. old # d
  <2>1. d \notin Below(live, old)
    BY <1>1, NoLoop
  <2>2. old \in Below(live, old)
    BY <1>1, <1>4, BelowIs
  <2> QED
    BY <2>1, <2>2
<1>8. live' = t /\ Shapes(t) /\ SlabSound(t) /\ Tree(t) /\ Border(t)
  BY <1>1, <1>3, <1>6, RemoveStep
<1>9. \A j \in Inos: t[j] = IF j = d THEN Named(live[j], n, NoEntry)
                            ELSE IF j = old THEN Lessened(live[j]) ELSE live[j]
  BY <1>4 DEF UnlinkEdit, Root, NoEntry
<1> HIDE DEF t, old
<1>10. disk' = Image(t, b)
  <2>1. CASE live[d].persist
    <3>1. Shapes(disk) /\ SlabSound(disk) /\ disk \in [Inos -> NodeType]
      BY <1>1, <1>2, ImageShapes, ImageSound, ShapesAre
    <3>2. Stored(live, d) /\ Stored(live, old)
      <4>1. Stored(live, d)
        BY <1>1, <1>4, <2>1, StoredAre
      <4> QED
        BY <1>1, <1>6, <4>1, StoredAre DEF old
    <3>3. disk[d].kind = "dir" /\ disk[old] = Copy(live[old])
      BY <1>1, <1>2, <1>4, <3>2, ImageAt
    <3>4. disk[d].children[n] = old
      BY <1>1, <1>2, <1>6, <3>2, ImageEntries DEF old
    <3>5. IsEmpty(disk, old)
      <4>1. disk[old].children = live[old].children
        BY <1>1, <1>4, <3>3, CopyIs
      <4>2. IsEmpty(live, old)
        BY DEF old
      <4> QED
        BY <4>1, <4>2 DEF IsEmpty, Children
    <3>6. Unlinked(disk, d, n) = UnlinkEdit(disk, d, n)
      BY <1>4, <3>1, <3>4, <3>5, RemoveStep DEF Root, NoEntry
    <3>7. UnlinkEdit(disk, d, n) = Image(t, b)
      BY <1>1, <1>2, <1>4, <1>6, <1>7, <2>1, ImageUnlink DEF t, old
    <3>8. Apply(disk, RecUnlink(d, n)) = Image(t, b)
      BY <3>3, <3>6, <3>7, ApplyUnlink
    <3>9. RecUnlink(d, n) \in SlabRecords
      BY DEF RecUnlink, SlabRecords
    <3>10. Run(disk, <<RecUnlink(d, n)>>, Apply(disk, RecUnlink(d, n)))
      BY <3>9, RunOne
    <3>11. Run(disk, <<RecUnlink(d, n)>>, Image(t, b))
      BY <3>8, <3>10, Zenon
    <3>12. disk' = Replayed(disk, <<RecUnlink(d, n)>>)
      BY <1>3, <2>1 DEF JournalIn, Journal
    <3> QED
      BY <3>11, <3>12, RunReplayed
  <2>2. CASE ~live[d].persist
    <3>1. disk' = disk
      BY <1>3, <2>2, NoRecords
    <3>2. d # Root /\ ~live[old].persist
      BY <1>1, <1>5, <2>2
    <3>3. t \in [Inos -> NodeType] /\ Top(t) = Top(live)
      <4>1. t[Root] = live[Root]
        BY <1>4, <1>9, <3>2, SlabNumbers
      <4> QED
        BY <1>8, <4>1, ShapesAre DEF Top
    <3>4. ~t[d].persist /\ ~t[old].persist
      <4>1. live[d] \in NodeType /\ live[old] \in NodeType
        BY <1>1, <1>4
      <4>2. ~t[d].persist
        <5>1. Named(live[d], n, NoEntry).persist = live[d].persist
          BY <4>1, Fields, SlabNumbers
        <5> QED
          BY <1>9, <2>2, <5>1
      <4>3. ~t[old].persist
        <5>1. t[old] = Lessened(live[old])
          BY <1>4, <1>7, <1>9
        <5>2. ~Lessened(live[old]).persist
          <6> DEFINE x == live[old]
          <6> HIDE DEF x
          <6>1. x \in NodeType /\ ~x.persist
            BY <3>2, <4>1 DEF x
          <6>2. ~Lessened(x).persist
            BY <6>1, VacantIs DEF Lessened, NodeType
          <6> QED
            BY <6>2 DEF x
        <5> QED
          BY <5>1, <5>2
      <4> QED
        BY <4>2, <4>3
    <3>5. ASSUME NEW j \in Inos
          PROVE  \/ Copy(live[j]) = Copy(t[j]) /\ (Stored(live, j) <=> Stored(t, j))
                 \/ j # Root /\ ~Stored(live, j) /\ ~Stored(t, j)
      <4>1. CASE j \in {d, old}
        BY <1>4, <2>2, <3>2, <3>4, <4>1 DEF Stored
      <4>2. CASE j \notin {d, old}
        BY <1>9, <4>2 DEF Stored
      <4> QED
        BY <4>1, <4>2
    <3>6. Image(t, b) = Image(live, b)
      BY <1>1, <3>3, <3>5, ImageSame
    <3> QED
      BY <1>2, <3>1, <3>6
  <2> QED
    BY <2>1, <2>2
<1> QED
  BY <1>3, <1>8, <1>10 DEF TreeInv, LiveInv


\* unlink and rmdir keep the invariant.
LEMMA UnlinkKeeps ==
  ASSUME TreeInv, CrossBorder = FALSE, NEW d \in Inos, NEW n \in Names, Unlink(d, n) \/ Rmdir(d, n)
  PROVE  TreeInv'
<1>1. Shapes(live)
  BY DEF TreeInv, LiveInv
<1>2. RemoveEntry(d, n) /\ live[d].children[n] # NoEntry
  BY <1>1 DEF Unlink, Rmdir, Files, Shapes, Root, NoEntry
<1>3. IsEmpty(live, live[d].children[n])
  <2>1. CASE Unlink(d, n)
    <3>1. live[live[d].children[n]].children = NoNames
      BY <1>1, <2>1 DEF Unlink, Files, Shapes
    <3> QED
      BY <3>1 DEF IsEmpty, Children, NoNames
  <2>2. CASE Rmdir(d, n)
    BY <2>2 DEF Rmdir
  <2> QED
    BY <2>1, <2>2
<1> QED
  BY <1>2, <1>3, RemoveKeeps, Zenon

-----------------------------------------------------------------------------
\* Descriptors

\* A file changes, but not its names.
LEMMA FileKeeps ==
  ASSUME NEW s, LiveInv(s), NEW i \in Inos, s[i].kind = "file", NEW y \in NodeType, y.kind = "file",
         y.persist = s[i].persist, y.nlink = s[i].nlink, y.children = s[i].children
  PROVE  /\ LiveInv([s EXCEPT ![i] = y]) /\ Top([s EXCEPT ![i] = y]) = Top(s)
         /\ i # Root /\ i # Top(s) /\ [s EXCEPT ![i] = y] \in [Inos -> NodeType]
<1> DEFINE t == [s EXCEPT ![i] = y]
<1>1. /\ Shapes(s) /\ SlabSound(s) /\ Tree(s) /\ Border(s)
      /\ s \in [Inos -> NodeType] /\ \A j \in Inos: Fits(s[j])
      /\ s[Root].kind = "dir" /\ s[Root].persist /\ s[Root].nlink = 0
  BY ShapesAre DEF LiveInv
<1>2. i # Root /\ i # Top(s)
  BY <1>1 DEF Border, Dirs
<1>3. t \in [Inos -> NodeType] /\ t[i] = y /\ \A j \in Inos: j # i => t[j] = s[j]
  BY <1>1
<1> HIDE DEF t
<1>4. Fits(y)
  BY <1>1 DEF Fits
<1>5. Shapes(t)
  <2>1. \A j \in Inos: Fits(t[j])
    BY <1>1, <1>3, <1>4
  <2> QED
    BY <1>1, <1>2, <1>3, <2>1, SlabNumbers, ShapesAre
<1>6. ASSUME NEW j \in Inos
      PROVE  /\ t[j].children = s[j].children
             /\ \/ Alike(s[j], t[j]) /\ t[j].nlink = s[j].nlink
                \/ s[j].kind # "dir" /\ s[j].nlink = 0 /\ t[j].nlink = 0
  <2>1. CASE j = i
    BY <1>3, <2>1 DEF Alike
  <2>2. CASE j # i
    BY <1>3, <2>2 DEF Alike
  <2> QED
    BY <2>1, <2>2
<1>7. Dirs(t) \subseteq Dirs(s)
  BY <1>3 DEF Dirs
<1>8. SlabSound(t) /\ Border(t) /\ Tree(t)
  BY <1>1, <1>5, <1>6, <1>7, QuietKeeps
<1>9. Top(t) = Top(s)
  BY <1>2, <1>3, SlabNumbers DEF Top
<1> QED
  BY <1>2, <1>3, <1>5, <1>8, <1>9 DEF LiveInv, t

\* Another count of descriptors keeps the invariant: the journal has none.
LEMMA OpensKeep ==
  ASSUME TreeInv, NEW i \in Inos, live[i].kind = "file", NEW k \in Nat,
         live' = [live EXCEPT ![i] = [@ EXCEPT !.opens = k]], disk' = disk, boots' = boots
  PROVE  TreeInv'
<1> DEFINE y == [live[i] EXCEPT !.opens = k]
           t == [live EXCEPT ![i] = y]
<1>1. LiveInv(live) /\ live \in [Inos -> NodeType] /\ live[i] \in NodeType
  BY ShapesAre DEF TreeInv, LiveInv
<1>2. PICK b \in {0, 1}: disk = Image(live, b)
  BY DEF TreeInv
<1>3. /\ y \in NodeType /\ y.kind = "file" /\ y.persist = live[i].persist
      /\ y.nlink = live[i].nlink /\ y.children = live[i].children
  BY <1>1, Zenon DEF NodeType
<1>4. Copy(y) = Copy(live[i])
  BY <1>1, Zenon DEF Copy, NodeType
<1>5. live' = t
  BY <1>1
<1> HIDE DEF y
<1>6. t[i] = y /\ \A j \in Inos: j # i => t[j] = live[j]
  BY <1>1
<1>7. LiveInv(t) /\ Top(t) = Top(live) /\ t \in [Inos -> NodeType]
  BY <1>1, <1>3, FileKeeps, Zenon
<1> HIDE DEF t
<1>8. ASSUME NEW j \in Inos
      PROVE  \/ Copy(live[j]) = Copy(t[j]) /\ (Stored(live, j) <=> Stored(t, j))
             \/ j # Root /\ ~Stored(live, j) /\ ~Stored(t, j)
  <2>1. CASE j = i
    BY <1>3, <1>4, <1>6, <2>1 DEF Stored
  <2>2. CASE j # i
    BY <1>6, <2>2 DEF Stored
  <2> QED
    BY <2>1, <2>2
<1>9. Image(t, b) = Image(live, b)
  BY <1>1, <1>7, <1>8, ImageSame
<1> QED
  BY <1>2, <1>5, <1>7, <1>9, Zenon DEF TreeInv

\* open and release keep the invariant.
LEMMA OpenKeeps ==
  ASSUME TreeInv, NEW i \in Inos, Open(i) \/ Release(i)
  PROVE  TreeInv'
<1>1. live \in [Inos -> NodeType] /\ live[i].opens \in Nat /\ Fits(live[i])
  BY ShapesAre DEF TreeInv, LiveInv, NodeType
<1>2. CASE Open(i)
  <2>1. live[i].kind = "file" /\ live' = [live EXCEPT ![i] = [@ EXCEPT !.opens = live[i].opens + 1]]
        /\ disk' = disk /\ boots' = boots /\ live[i].opens + 1 \in Nat
    BY <1>1, <1>2 DEF Open, Files
  <2> QED
    BY <1>1, <2>1, OpensKeep, Zenon
<1>3. CASE Release(i)
  <2>1. live[i].kind = "file" /\ live' = [live EXCEPT ![i] = [@ EXCEPT !.opens = live[i].opens - 1]]
        /\ disk' = disk /\ boots' = boots /\ live[i].opens - 1 \in Nat
    BY <1>1, <1>3 DEF Release, Fits
  <2> QED
    BY <2>1, OpensKeep, Zenon
<1> QED
  BY <1>2, <1>3

\* A write to a file keeps the invariant, with or without a name, persistent or not.
LEMMA WriteFileKeeps ==
  ASSUME TreeInv, NEW i \in Inos, NEW x \in Data, WriteFile(i, x)
  PROVE  TreeInv'
<1> DEFINE y == [live[i] EXCEPT !.data = x]
           t == [live EXCEPT ![i] = y]
<1>1. LiveInv(live) /\ live \in [Inos -> NodeType] /\ live[i] \in NodeType /\ Fits(live[i])
  BY ShapesAre DEF TreeInv, LiveInv
<1>2. PICK b \in {0, 1}: disk = Image(live, b)
  BY DEF TreeInv
<1>3. /\ y \in NodeType /\ y.kind = live[i].kind /\ y.persist = live[i].persist /\ y.data = x
      /\ y.nlink = live[i].nlink /\ y.children = live[i].children /\ y.opens = live[i].opens
  BY <1>1, Zenon DEF NodeType
<1>4. /\ live[i].kind = "file" /\ live' = t /\ boots' = boots /\ JournalIn(i, <<RecWrite(i, x)>>)
  BY <1>1 DEF WriteFile, Fits
<1> HIDE DEF y
<1>5. t[i] = y /\ \A j \in Inos: j # i => t[j] = live[j]
  BY <1>1
<1>6. LiveInv(t) /\ Top(t) = Top(live) /\ t \in [Inos -> NodeType] /\ i # Root /\ i # Top(live)
  BY <1>1, <1>3, <1>4, FileKeeps, Zenon
<1>7. t = [j \in Inos |-> t[j]]
  BY <1>1, Zenon
<1> HIDE DEF t
<1>8. Stored(t, i) <=> Stored(live, i)
  BY <1>3, <1>5 DEF Stored
<1>9. ASSUME NEW j \in Inos, j # i
      PROVE  Image(t, b)[j] = Image(live, b)[j]
  BY <1>5, <1>6, <1>9, SlabNumbers DEF Image, Stored
<1>10. disk' = Image(t, b)
  <2>1. CASE ~Stored(live, i)
    <3>1. Image(t, b) = Image(live, b)
      <4>1. ASSUME NEW j \in Inos
            PROVE  \/ Copy(live[j]) = Copy(t[j]) /\ (Stored(live, j) <=> Stored(t, j))
                   \/ j # Root /\ ~Stored(live, j) /\ ~Stored(t, j)
        <5>1. CASE j = i
          BY <1>6, <1>8, <2>1, <5>1
        <5>2. CASE j # i
          BY <1>5, <5>2 DEF Stored
        <5> QED
          BY <5>1, <5>2
      <4> QED
        BY <1>1, <1>6, <4>1, ImageSame
    <3>2. disk[i] = Vacant
      BY <1>2, <1>6, <2>1, ImageOut
    <3>3. CASE ~live[i].persist
      BY <1>2, <1>4, <3>1, <3>3, NoRecords
    <3>4. CASE live[i].persist
      <4>1. disk' = Replayed(disk, <<RecWrite(i, x)>>)
        BY <1>4, <3>4 DEF JournalIn, Journal
      <4>2. Apply(disk, RecWrite(i, x)) = disk
        BY <3>2, VacantIs, ApplyWrite
      <4>3. Run(disk, <<RecWrite(i, x)>>, Apply(disk, RecWrite(i, x)))
        BY RunOne DEF RecWrite, SlabRecords
      <4>4. Run(disk, <<RecWrite(i, x)>>, disk)
        BY <4>2, <4>3, Zenon
      <4> QED
        BY <1>2, <3>1, <4>1, <4>4, RunReplayed
    <3> QED
      BY <3>3, <3>4
  <2>2. CASE Stored(live, i)
    <3>1. live[i].persist
      BY <1>6, <2>2 DEF Stored
    <3>2. disk \in [Inos -> NodeType] /\ disk[i] = Copy(live[i])
      BY <1>1, <1>2, <1>6, <2>2, ImageIs, ImageAt
    <3>3. Copy(live[i]).kind = "file"
      BY <1>1, <1>4, CopyIs
    <3> DEFINE D == [disk EXCEPT ![i].data = x]
    <3>4. D[i] = [Copy(live[i]) EXCEPT !.data = x] /\ \A j \in Inos: j # i => D[j] = disk[j]
      BY <3>2
    <3>5. D = [j \in Inos |-> D[j]]
      BY <3>2, Zenon
    <3>6. Image(t, b) = [j \in Inos |-> Image(t, b)[j]]
      BY DEF Image
    <3>7. Apply(disk, RecWrite(i, x)) = D
      BY <3>2, <3>3, ApplyWrite
    <3> HIDE DEF D
    <3>8. [Copy(live[i]) EXCEPT !.data = x] = Copy(y)
      BY <1>1, Zenon DEF Copy, NodeType, y
    <3>9. Image(t, b)[i] = Copy(y)
      BY <1>5, <1>6, <1>8, <2>2, ImageAt
    <3>10. \A j \in Inos: D[j] = Image(t, b)[j]
      BY <1>2, <1>9, <3>4, <3>8, <3>9
    <3>11. D = Image(t, b)
      BY <3>5, <3>6, <3>10
    <3>12. Run(disk, <<RecWrite(i, x)>>, Apply(disk, RecWrite(i, x)))
      BY RunOne DEF RecWrite, SlabRecords
    <3>13. Run(disk, <<RecWrite(i, x)>>, Image(t, b))
      BY <3>7, <3>11, <3>12, Zenon
    <3>14. disk' = Replayed(disk, <<RecWrite(i, x)>>)
      BY <1>4, <3>1 DEF JournalIn, Journal
    <3> QED
      BY <3>13, <3>14, RunReplayed
  <2> QED
    BY <2>1, <2>2
<1> QED
  BY <1>4, <1>6, <1>10 DEF TreeInv

\* The release that frees a file without names keeps the invariant.
LEMMA ReleaseKeeps ==
  ASSUME TreeInv, NEW i \in Inos, ReleaseFrees(i)
  PROVE  TreeInv'
<1> DEFINE t == [live EXCEPT ![i] = Vacant]
<1>1. /\ Shapes(live) /\ SlabSound(live) /\ Tree(live) /\ Border(live) /\ LiveInv(live)
      /\ live \in [Inos -> NodeType] /\ live \in Slab /\ \A j \in Inos: Fits(live[j])
      /\ live[Root].kind = "dir" /\ live[Root].persist /\ live[Root].nlink = 0
  BY ShapesAre, SlabIs DEF TreeInv, LiveInv
<1>2. PICK b \in {0, 1}: disk = Image(live, b)
  BY DEF TreeInv
<1>3. live[i].kind = "file" /\ live[i].nlink = 0 /\ disk' = disk /\ boots' = boots
      /\ live' = Freed(live, i)
  BY DEF ReleaseFrees, Files
<1>4. i # Root /\ i # Top(live) /\ live[i].children = NoNames
  BY <1>1, <1>3 DEF Border, Dirs, Fits
<1>5. live' = t
  <2>1. IsEmpty(live, i)
    BY <1>4 DEF IsEmpty, Children, NoNames
  <2>2. \A j \in Inos: Used(live, j) \/ live[j] = Vacant
    BY <1>1 DEF Shapes
  <2> QED
    BY <1>1, <1>3, <2>1, <2>2, LeafFreed
<1>6. t[i] = Vacant /\ t \in [Inos -> NodeType] /\ \A j \in Inos: j # i => t[j] = live[j]
  BY <1>1, VacantIs
<1> HIDE DEF t
<1>7. Shapes(t)
  <2>1. \A j \in Inos: Fits(t[j])
    BY <1>1, <1>6, VacantIs
  <2> QED
    BY <1>1, <1>4, <1>6, <2>1, SlabNumbers, ShapesAre
<1>8. ASSUME NEW j \in Inos
      PROVE  /\ t[j].children = live[j].children
             /\ \/ Alike(live[j], t[j]) /\ t[j].nlink = live[j].nlink
                \/ live[j].kind # "dir" /\ live[j].nlink = 0 /\ t[j].nlink = 0
  <2>1. CASE j = i
    BY <1>3, <1>4, <1>6, <2>1, VacantIs
  <2>2. CASE j # i
    BY <1>6, <2>2 DEF Alike
  <2> QED
    BY <2>1, <2>2
<1>9. Dirs(t) \subseteq Dirs(live)
  BY <1>6, VacantIs DEF Dirs
<1>10. SlabSound(t) /\ Border(t) /\ Tree(t)
  BY <1>1, <1>7, <1>8, <1>9, QuietKeeps
<1>11. Top(t) = Top(live)
  BY <1>4, <1>6, SlabNumbers DEF Top
<1>12. ASSUME NEW j \in Inos
       PROVE  \/ Copy(live[j]) = Copy(t[j]) /\ (Stored(live, j) <=> Stored(t, j))
              \/ j # Root /\ ~Stored(live, j) /\ ~Stored(t, j)
  <2>1. CASE j = i
    BY <1>3, <1>4, <1>6, <2>1, VacantIs DEF Stored
  <2>2. CASE j # i
    BY <1>6, <2>2 DEF Stored
  <2> QED
    BY <2>1, <2>2
<1>13. Image(t, b) = Image(live, b)
  BY <1>1, <1>6, <1>11, <1>12, ImageSame
<1> QED
  BY <1>2, <1>3, <1>5, <1>7, <1>10, <1>13 DEF TreeInv, LiveInv


-----------------------------------------------------------------------------
\* A name is moved, live

\* What the guards of rename say of the slab.
LEMMA RenameParts ==
  ASSUME LiveInv(live), CrossBorder = FALSE, NEW d \in Inos, NEW n \in Names,
         NEW e \in Inos, NEW m \in Names, Rename(d, n, e, m)
  PROVE  /\ MayMove(live, d, n, e, m)
         /\ <<d, n>> # <<Root, Tmp>> /\ <<e, m>> # <<Root, Tmp>>
         /\ live[d].persist # live[e].persist =>
              \A j \in Below(live, live[d].children[n]): live[j].nlink = 1
<1> DEFINE i == live[d].children[n]
           old == live[e].children[m]
<1>1. Shapes(live) /\ SlabSound(live) /\ Tree(live) /\ Border(live)
  BY DEF LiveInv
<1>2. /\ i # NoEntry /\ live[e].kind = "dir" /\ <<d, n>> # <<e, m>> /\ e \notin Below(live, i)
      /\ Replaceable(i, old) /\ MovesWhole(i, d, n, e, m)
  BY DEF Rename, Dirs
<1>3. old # NoEntry => old # i /\ IsEmpty(live, old)
  <2> HAVE old # NoEntry
  <2>1. old \in Inos /\ Used(live, old)
    BY <1>1, NamedUsed
  <2>2. CASE live[old].kind = "dir"
    BY <1>2, <2>2 DEF Replaceable
  <2>3. CASE live[old].kind # "dir"
    <3>1. live[old].children = NoNames
      BY <1>1, <2>1, <2>3 DEF Shapes
    <3>2. IsEmpty(live, old)
      BY <3>1 DEF IsEmpty, Children, NoNames
    <3> QED
      BY <1>2, <3>2 DEF Replaceable
  <2> QED
    BY <2>2, <2>3
<1>4. <<d, n>> # <<Root, Tmp>>
  BY <1>1, <1>2 DEF Border, Top, MovesWhole, OnBorder, Shapes
<1>5. <<e, m>> # <<Root, Tmp>>
  BY <1>1, <1>2 DEF Border, Top, MovesWhole, OnBorder, Shapes, Root, NoEntry
<1> QED
  BY <1>2, <1>3, <1>4, <1>5 DEF MayMove, MovesWhole

\* What a subtree moves over is not in it, if it has no other names.
LEMMA OldOutside ==
  ASSUME NEW s, LiveInv(s), NEW d \in Inos, NEW n \in Names, NEW e \in Inos, NEW m \in Names,
         MayMove(s, d, n, e, m), s[e].children[m] # NoEntry,
         \A j \in Below(s, s[d].children[n]): s[j].nlink = 1
  PROVE  s[e].children[m] \notin Below(s, s[d].children[n])
<1> DEFINE i == s[d].children[n]
           old == s[e].children[m]
<1>1. SUFFICES ASSUME old \in Below(s, i)
               PROVE  FALSE
  OBVIOUS
<1>2. Shapes(s) /\ SlabSound(s) /\ s \in Slab /\ Tree(s)
  BY DEF LiveInv, Shapes
<1>3. i \in Inos /\ old \in Inos \ {Root} /\ old # i /\ e \notin Below(s, i)
  BY <1>2, MoveParts DEF MayMove
<1>4. PICK j \in Below(s, i): old \in Children(s, j)
  BY <1>1, <1>2, <1>3, BelowParent
<1>5. j \in Inos
  BY <1>2, <1>3, BelowIs
<1>6. PICK k \in Names: s[j].children[k] = old
  BY <1>2, <1>3, <1>4, <1>5, ChildrenAre
<1>7. j = e
  BY <1>1, <1>2, <1>3, <1>5, <1>6, OneName
<1> QED
  BY <1>3, <1>4, <1>7

\* The slab t is s after the move.
Renamed(s, t, d, n, e, m) ==
  /\ t \in [Inos -> NodeType] /\ Shapes(t) /\ SlabSound(t) /\ Tree(t)
  /\ Moves(s, t, d, n, e, m)
  /\ \A j \in Inos: j = Root \/ j # s[e].children[m] =>
       /\ t[j].kind = s[j].kind /\ t[j].nlink = s[j].nlink
       /\ t[j].data = s[j].data /\ t[j].opens = s[j].opens
       /\ t[j].persist = IF j \in Below(s, s[d].children[n]) THEN s[e].persist ELSE s[j].persist
  /\ s[e].children[m] # NoEntry => t[s[e].children[m]] = Lessened(s[s[e].children[m]])

\* rename on one side of the border: no flag changes.
LEMMA RenamedHere ==
  ASSUME NEW s, LiveInv(s), NEW d \in Inos, NEW n \in Names, NEW e \in Inos, NEW m \in Names,
         MayMove(s, d, n, e, m), <<d, n>> # <<Root, Tmp>>, s[d].persist = s[e].persist
  PROVE  Renamed(s, MoveEdit(s, d, n, e, m), d, n, e, m)
<1> DEFINE t == MoveEdit(s, d, n, e, m)
<1>1. Shapes(s) /\ SlabSound(s) /\ Tree(s)
  BY DEF LiveInv
<1>2. /\ Shapes(t) /\ Moves(s, t, d, n, e, m)
      /\ \A j \in Inos: j = Root \/ j # s[e].children[m] =>
           /\ t[j].kind = s[j].kind /\ t[j].persist = s[j].persist /\ t[j].nlink = s[j].nlink
           /\ t[j].data = s[j].data /\ t[j].opens = s[j].opens
      /\ s[e].children[m] # NoEntry => t[s[e].children[m]] = Lessened(s[s[e].children[m]])
  BY <1>1, MoveNodes DEF Alike
<1>3. SlabSound(t) /\ Tree(t)
  BY <1>1, MoveKeeps
<1>4. t \in [Inos -> NodeType]
  BY <1>2, ShapesAre
<1>5. \A j \in Below(s, s[d].children[n]): s[j].persist = s[e].persist
  <2>1. s[d].children[n] # NoEntry
    BY DEF MayMove
  <2> QED
    BY <2>1, OneSide
<1> HIDE DEF t
<1> QED
  BY <1>2, <1>3, <1>4, <1>5 DEF Renamed, t

\* It goes out over the border: it is marked when it is there.
LEMMA RenamedOut ==
  ASSUME NEW s, LiveInv(s), NEW d \in Inos, NEW n \in Names, NEW e \in Inos, NEW m \in Names,
         MayMove(s, d, n, e, m), <<d, n>> # <<Root, Tmp>>, s[d].persist, ~s[e].persist,
         \A j \in Below(s, s[d].children[n]): s[j].nlink = 1
  PROVE  Renamed(s, WithPersist(MoveEdit(s, d, n, e, m), s[d].children[n], FALSE), d, n, e, m)
<1> DEFINE v == MoveEdit(s, d, n, e, m)
           i == s[d].children[n]
           old == s[e].children[m]
           B == Below(s, i)
           t == Flagged(v, B, FALSE)
<1>1. Shapes(s) /\ SlabSound(s) /\ Tree(s) /\ s \in Slab
  BY DEF LiveInv, Shapes
<1>2. /\ Shapes(v) /\ Moves(s, v, d, n, e, m)
      /\ \A j \in Inos: j = Root \/ j # old =>
           /\ v[j].kind = s[j].kind /\ v[j].persist = s[j].persist /\ v[j].nlink = s[j].nlink
           /\ v[j].data = s[j].data /\ v[j].opens = s[j].opens
      /\ old # NoEntry => v[old] = Lessened(s[old])
      /\ \A j \in Inos: j \notin {d, e, old} => v[j] = s[j]
  BY <1>1, MoveNodes DEF Alike
<1>3. SlabSound(v) /\ Tree(v) /\ v \in Slab
  BY <1>1, <1>2, MoveKeeps DEF Shapes
<1>4. i # NoEntry /\ i \in Inos /\ e \notin B
  BY <1>1, MoveParts DEF MayMove
<1>5. /\ B \in SUBSET (Inos \ {Root}) /\ d \notin B
      /\ \A j \in B: Used(s, j) /\ s[j].persist = s[d].persist
  <2>1. /\ B \in SUBSET Inos /\ Root \notin B /\ d \notin B /\ s[i].persist = s[d].persist
        /\ \A j \in B: Used(s, j) /\ s[j].persist = s[i].persist
    BY <1>4, OneSide, ZenonT(40)
  <2> QED
    BY <2>1, Zenon
<1>51. \A j \in B: s[j].persist
  BY <1>5, Zenon
<1>6. old # NoEntry => old \notin B
  BY OldOutside
<1>7. \A j \in B: v[j] = s[j]
  BY <1>2, <1>4, <1>5, <1>6, SlabNumbers, Zenon
<1> HIDE DEF v, t, B
<1>8. Below(v, i) = B
  BY <1>1, <1>3, <1>4, <1>7, BelowSame DEF B
<1>9. WithPersist(v, i, FALSE) = t
  <2>1. \A j \in B: v[j].persist # FALSE
    BY <1>51, <1>7, Zenon
  <2> QED
    BY <1>3, <1>4, <1>8, <2>1, FlaggedIs, Zenon DEF t
<1>10. \A j \in B: Used(v, j)
  BY <1>5, <1>7, Zenon DEF Used
<1>11. B \in SUBSET (Inos \ {Root})
  BY <1>5
<1>12. /\ Shapes(t) /\ SlabSound(t) /\ Tree(t)
       /\ \A j \in Inos:
            /\ t[j].kind = v[j].kind /\ t[j].nlink = v[j].nlink /\ t[j].opens = v[j].opens
            /\ t[j].data = v[j].data /\ t[j].children = v[j].children
            /\ t[j].persist = IF j \in B THEN FALSE ELSE v[j].persist
            /\ j \notin B => t[j] = v[j]
  <2>1. PICK f \in BOOLEAN: f = FALSE
    BY Zenon
  <2> DEFINE w == Flagged(v, B, f)
  <2>2. /\ Shapes(w) /\ SlabSound(w) /\ Tree(w)
        /\ \A j \in Inos:
             /\ w[j].kind = v[j].kind /\ w[j].nlink = v[j].nlink /\ w[j].opens = v[j].opens
             /\ w[j].data = v[j].data /\ w[j].children = v[j].children
             /\ w[j].persist = IF j \in B THEN f ELSE v[j].persist
             /\ j \notin B => w[j] = v[j]
    BY <1>2, <1>3, <1>10, <1>11, FlagKeeps
  <2>3. t = w
    BY <2>1, Zenon DEF t
  <2> HIDE DEF w
  <2> QED
    BY <2>1, <2>2, <2>3, Zenon
<1>13. \A j \in Inos: t[j].children = v[j].children
  BY <1>12, Zenon
<1>14. t \in [Inos -> NodeType]
  BY <1>12, ShapesAre
<1>15. Moves(s, t, d, n, e, m)
  BY <1>2, <1>13 DEF Moves
<1>16. old # NoEntry => t[old] = Lessened(s[old])
  <2> HAVE old # NoEntry
  <2>1. old \in Inos
    BY <1>1, MoveParts
  <2> QED
    BY <1>2, <1>6, <1>12, <2>1, Zenon
<1>17. s[e].persist = FALSE
  <2>1. s[e] \in NodeType
    BY <1>1, SlabIs
  <2> QED
    BY <2>1 DEF NodeType
<1>18. ASSUME NEW j \in Inos, j = Root \/ j # old
       PROVE  /\ t[j].kind = s[j].kind /\ t[j].nlink = s[j].nlink
              /\ t[j].data = s[j].data /\ t[j].opens = s[j].opens
              /\ t[j].persist = IF j \in B THEN s[e].persist ELSE s[j].persist
  <2>1. /\ t[j].kind = v[j].kind /\ t[j].nlink = v[j].nlink /\ t[j].opens = v[j].opens
        /\ t[j].data = v[j].data /\ t[j].persist = IF j \in B THEN FALSE ELSE v[j].persist
    BY <1>12, Zenon
  <2>2. /\ v[j].kind = s[j].kind /\ v[j].persist = s[j].persist /\ v[j].nlink = s[j].nlink
        /\ v[j].data = s[j].data /\ v[j].opens = s[j].opens
    BY <1>2, <1>18, Zenon
  <2>3. t[j].persist = IF j \in B THEN s[e].persist ELSE s[j].persist
    BY <1>17, <2>1, <2>2, Zenon
  <2> QED
    BY <2>1, <2>2, <2>3, Zenon
<1>19. Renamed(s, t, d, n, e, m)
  BY <1>12, <1>14, <1>15, <1>16, <1>18 DEF Renamed, B
<1> QED
  BY <1>9, <1>19, Zenon DEF v

\* It comes in over the border: it is marked before.
LEMMA RenamedIn ==
  ASSUME NEW s, LiveInv(s), NEW d \in Inos, NEW n \in Names, NEW e \in Inos, NEW m \in Names,
         MayMove(s, d, n, e, m), <<d, n>> # <<Root, Tmp>>, ~s[d].persist, s[e].persist,
         \A j \in Below(s, s[d].children[n]): s[j].nlink = 1
  PROVE  LET i == s[d].children[n]
             u == Flagged(s, Below(s, i), TRUE)
             t == MoveEdit(u, d, n, e, m) IN
         /\ WithPersist(s, i, TRUE) = u /\ Unlinked(Linked(u, e, m, i), d, n) = t
         /\ Renamed(s, t, d, n, e, m)
<1> DEFINE i == s[d].children[n]
           old == s[e].children[m]
           B == Below(s, i)
           u == Flagged(s, B, TRUE)
           t == MoveEdit(u, d, n, e, m)
<1>1. Shapes(s) /\ SlabSound(s) /\ Tree(s) /\ s \in Slab
  BY DEF LiveInv, Shapes
<1>2. i # NoEntry /\ i \in Inos /\ e \notin B
  BY <1>1, MoveParts DEF MayMove
<1>3. /\ B \in SUBSET (Inos \ {Root}) /\ d \notin B
      /\ \A j \in B: Used(s, j) /\ s[j].persist = s[d].persist
  BY <1>2, OneSide
<1>4. old # NoEntry => old \notin B
  BY OldOutside
<1> HIDE DEF B, u, t
<1>5. WithPersist(s, i, TRUE) = u
  <2>1. \A j \in Below(s, i): s[j].persist # TRUE
    BY <1>3, Zenon DEF B
  <2> QED
    BY <1>1, <1>2, <2>1, FlaggedIs, Zenon DEF u, B
<1>60. B \in SUBSET (Inos \ {Root}) /\ \A j \in B: Used(s, j)
  BY <1>3
<1>6. /\ Shapes(u) /\ SlabSound(u) /\ Tree(u)
      /\ \A j \in Inos:
           /\ u[j].kind = s[j].kind /\ u[j].nlink = s[j].nlink /\ u[j].opens = s[j].opens
           /\ u[j].data = s[j].data /\ u[j].children = s[j].children
           /\ u[j].persist = IF j \in B THEN TRUE ELSE s[j].persist
           /\ j \notin B => u[j] = s[j]
  <2>1. PICK f \in BOOLEAN: f = TRUE
    BY Zenon
  <2> DEFINE w == Flagged(s, B, f)
  <2>2. /\ Shapes(w) /\ SlabSound(w) /\ Tree(w)
        /\ \A j \in Inos:
             /\ w[j].kind = s[j].kind /\ w[j].nlink = s[j].nlink /\ w[j].opens = s[j].opens
             /\ w[j].data = s[j].data /\ w[j].children = s[j].children
             /\ w[j].persist = IF j \in B THEN f ELSE s[j].persist
             /\ j \notin B => w[j] = s[j]
    BY <1>1, <1>60, FlagKeeps
  <2>3. u = w
    BY <2>1, Zenon DEF u
  <2> HIDE DEF w
  <2> QED
    BY <2>1, <2>2, <2>3, Zenon
<1>61. \A j \in Inos: u[j].children = s[j].children /\ u[j].kind = s[j].kind
  BY <1>6, Zenon
<1>7. Below(u, i) = B /\ u[d].children[n] = i /\ u[e].children[m] = old
  <2>1. u \in Slab
    BY <1>6 DEF Shapes
  <2>2. \A j \in Below(s, i): u[j].children = s[j].children
    BY <1>3, <1>6, Zenon DEF B
  <2> QED
    BY <1>1, <1>2, <1>6, <2>1, <2>2, BelowSame, Zenon DEF B
<1>8. MayMove(u, d, n, e, m)
  <2>1. old # NoEntry => old \in Inos
    BY <1>1, MoveParts
  <2> QED
    BY <1>61, <1>7, <2>1 DEF MayMove, IsEmpty, Children, B
<1>9. /\ Unlinked(Linked(u, e, m, i), d, n) = t
      /\ Shapes(t) /\ Moves(u, t, d, n, e, m)
      /\ \A j \in Inos: j = Root \/ j # old =>
           /\ t[j].kind = u[j].kind /\ t[j].persist = u[j].persist /\ t[j].nlink = u[j].nlink
           /\ t[j].data = u[j].data /\ t[j].opens = u[j].opens
      /\ old # NoEntry => t[old] = Lessened(u[old])
  BY <1>6, <1>7, <1>8, MoveNodes DEF Alike, t
<1>10. SlabSound(t) /\ Tree(t)
  BY <1>6, <1>8, MoveKeeps DEF t
<1>11. t \in [Inos -> NodeType]
  BY <1>9, ShapesAre
<1>12. Moves(s, t, d, n, e, m)
  BY <1>61, <1>9 DEF Moves
<1>13. old # NoEntry => t[old] = Lessened(s[old])
  <2> HAVE old # NoEntry
  <2>1. old \in Inos
    BY <1>1, MoveParts
  <2> QED
    BY <1>4, <1>6, <1>9, <2>1, Zenon
<1>14. s[e].persist = TRUE
  <2>1. s[e] \in NodeType
    BY <1>1, SlabIs
  <2> QED
    BY <2>1 DEF NodeType
<1>15. ASSUME NEW j \in Inos, j = Root \/ j # old
       PROVE  /\ t[j].kind = s[j].kind /\ t[j].nlink = s[j].nlink
              /\ t[j].data = s[j].data /\ t[j].opens = s[j].opens
              /\ t[j].persist = IF j \in B THEN s[e].persist ELSE s[j].persist
  <2>1. /\ u[j].kind = s[j].kind /\ u[j].nlink = s[j].nlink /\ u[j].opens = s[j].opens
        /\ u[j].data = s[j].data /\ u[j].persist = IF j \in B THEN TRUE ELSE s[j].persist
    BY <1>6, Zenon
  <2>2. /\ t[j].kind = u[j].kind /\ t[j].persist = u[j].persist /\ t[j].nlink = u[j].nlink
        /\ t[j].data = u[j].data /\ t[j].opens = u[j].opens
    BY <1>9, <1>15, Zenon
  <2>3. t[j].persist = IF j \in B THEN s[e].persist ELSE s[j].persist
    BY <1>14, <2>1, <2>2, Zenon
  <2> QED
    BY <2>1, <2>2, <2>3
<1>16. Renamed(s, t, d, n, e, m)
  BY <1>9, <1>10, <1>11, <1>12, <1>13, <1>15, Zenon DEF Renamed, B
<1> QED
  BY <1>5, <1>9, <1>16, Zenon DEF t, u, B


\* After rename the slab is as it should be, the flags of what moved over the border included.
LEMMA RenamedLive ==
  ASSUME NEW s, LiveInv(s), NEW d \in Inos, NEW n \in Names, NEW e \in Inos, NEW m \in Names,
         MayMove(s, d, n, e, m), <<d, n>> # <<Root, Tmp>>, <<e, m>> # <<Root, Tmp>>,
         s[d].persist # s[e].persist =>
           \A j \in Below(s, s[d].children[n]): s[j].nlink = 1,
         NEW t, Renamed(s, t, d, n, e, m)
  PROVE  LiveInv(t) /\ Top(t) = Top(s)
<1> DEFINE i == s[d].children[n]
           old == s[e].children[m]
           B == Below(s, i)
<1>1. Shapes(s) /\ SlabSound(s) /\ Tree(s) /\ s \in [Inos -> NodeType]
  BY ShapesAre DEF LiveInv
<1>2. /\ t \in [Inos -> NodeType] /\ Shapes(t) /\ SlabSound(t) /\ Tree(t) /\ Moves(s, t, d, n, e, m)
      /\ \A j \in Inos: j = Root \/ j # old => t[j].kind = s[j].kind
      /\ old # NoEntry => t[old] = Lessened(s[old])
  BY DEF Renamed
<1>3. \A j \in Inos: j = Root \/ j # old =>
        t[j].persist = IF j \in B THEN s[e].persist ELSE s[j].persist
  BY DEF Renamed
<1>4. i # NoEntry /\ i \in Inos
  BY <1>1, MoveParts DEF MayMove
<1>5. Used(t, old) /\ old # Root => t[old].persist = s[old].persist
  <2> HAVE Used(t, old) /\ old # Root
  <2>1. old \in Inos
    BY <1>1, MoveParts
  <2>2. s[old] \in NodeType /\ t[old] = Lessened(s[old]) /\ Lessened(s[old]).kind # "none"
    BY <1>1, <1>2, <2>1 DEF Used, Root, NoEntry
  <2> DEFINE x == s[old]
  <2> HIDE DEF x, old
  <2>3. Lessened(x) # Vacant
    BY <2>2, VacantIs DEF x
  <2>4. Lessened(x).persist = x.persist
    BY <2>2, <2>3 DEF Lessened, NodeType, x
  <2> QED
    BY <2>2, <2>4 DEF x
<1>6. old # Root /\ old \in B => s[old].persist = s[e].persist
  <2> HAVE old # Root /\ old \in B
  <2>1. \A j \in B: s[j].persist = s[i].persist
    BY <1>4, OneSide
  <2>2. s[i].persist = s[d].persist
    BY <1>4, OneSide
  <2>3. s[d].persist = s[e].persist
    <3>1. SUFFICES ASSUME s[d].persist # s[e].persist
                   PROVE  FALSE
      OBVIOUS
    <3>2. \A j \in B: s[j].nlink = 1
      BY <3>1
    <3>3. old # NoEntry
      BY DEF Root, NoEntry
    <3> QED
      BY <3>2, <3>3, OldOutside
  <2> HIDE DEF B, old, i
  <2> QED
    BY <2>1, <2>2, <2>3, Zenon
<1> HIDE DEF B, old, i
<1>7. ASSUME NEW j \in Inos, Used(t, j)
      PROVE  t[j].persist = IF j \in B THEN s[e].persist ELSE s[j].persist
  <2>1. CASE j = Root \/ j # old
    BY <1>3, <2>1, Zenon
  <2>2. CASE j # Root /\ j = old
    BY <1>5, <1>6, <1>7, <2>2, Zenon
  <2> QED
    BY <2>1, <2>2
<1>8. s[d].persist # s[e].persist => \A j \in B: s[j].nlink <= 1
  <2>1. ASSUME NEW j \in B, s[j].nlink = 1
        PROVE  s[j].nlink <= 1
    BY <2>1
  <2> QED
    BY <2>1 DEF B, i
<1>9. Border(t)
  BY <1>1, <1>2, <1>7, <1>8, MoveBorder DEF B, i, old
<1>10. Top(t) = Top(s)
  <2>1. Root \in Inos /\ Tmp \in Names
    BY SlabNumbers
  <2>2. t[Root].children[Tmp] = s[Root].children[Tmp]
    BY <1>2, <2>1 DEF Moves
  <2> QED
    BY <2>2 DEF Top
<1> QED
  BY <1>2, <1>9, <1>10 DEF LiveInv

\* A node is the same, if it was not one that moved, or was moved over.
LEMMA RenamedElse ==
  ASSUME NEW s, s \in [Inos -> NodeType], NEW d \in Inos, NEW n \in Names, NEW e \in Inos, NEW m \in Names,
         NEW t, Renamed(s, t, d, n, e, m),
         NEW j \in Inos, j \notin {d, e}, j = Root \/ j # s[e].children[m]
  PROVE  /\ t[j].children = s[j].children
         /\ t[j].persist = s[j].persist => t[j] = s[j]
<1>1. t \in [Inos -> NodeType] /\ Moves(s, t, d, n, e, m)
  BY DEF Renamed
<1>2. s[j] \in NodeType /\ t[j] \in NodeType
  BY <1>1
<1>3. \A k \in Names: t[j].children[k] = s[j].children[k]
  BY <1>1 DEF Moves
<1>4. t[j].children = s[j].children
  BY <1>2, <1>3 DEF NodeType
<1>5. ASSUME t[j].persist = s[j].persist
      PROVE  t[j] = s[j]
  <2>1. /\ t[j].kind = s[j].kind /\ t[j].nlink = s[j].nlink
        /\ t[j].data = s[j].data /\ t[j].opens = s[j].opens
    BY DEF Renamed
  <2> QED
    BY <1>2, <1>3, <1>5, <2>1, SameNode
<1> QED
  BY <1>4, <1>5

\* What the journal has of a node that loses a name.
LEMMA ImageLess ==
  ASSUME NEW s, s \in [Inos -> NodeType], NEW t, t \in [Inos -> NodeType], NEW b \in {0, 1},
         NEW j \in Inos \ {Root}, j # Top(t), s[j].persist, s[j].nlink >= 1, t[j] = Lessened(s[j])
  PROVE  Image(t, b)[j] = Lessened(Copy(s[j]))
<1> DEFINE x == s[j]
<1>1. x \in NodeType /\ x.nlink \in Nat /\ x.nlink >= 1 /\ x.persist /\ t[j] = Lessened(x)
  BY DEF NodeType
<1>2. /\ Copy(x) \in NodeType /\ Copy(x).nlink = x.nlink /\ Copy(x).opens = 0
  BY <1>1, CopyIs
<1> HIDE DEF x
<1>3. CASE x.nlink = 1
  <2>1. Lessened(Copy(x)) = Vacant
    BY <1>2, <1>3 DEF Lessened
  <2>2. t[j].nlink = 0
    <3>1. CASE x.opens = 0
      BY <1>1, <1>3, <3>1, VacantIs, Zenon DEF Lessened
    <3>2. CASE x.opens # 0
      <4>1. Lessened(x) = [x EXCEPT !.nlink = 0]
        BY <1>1, <1>3, <3>2 DEF Lessened
      <4>2. [x EXCEPT !.nlink = 0].nlink = 0
        BY <1>1 DEF NodeType
      <4> QED
        BY <1>1, <4>1, <4>2
    <3> QED
      BY <3>1, <3>2
  <2>3. ~Stored(t, j)
    BY <2>2 DEF Stored
  <2> QED
    BY <2>1, <2>3, ImageOut DEF x
<1>4. CASE x.nlink # 1
  <2>1. t[j] = [x EXCEPT !.nlink = x.nlink - 1]
    BY <1>1, <1>4 DEF Lessened
  <2>2. Lessened(Copy(x)) = [Copy(x) EXCEPT !.nlink = x.nlink - 1]
    BY <1>1, <1>2, <1>4 DEF Lessened
  <2>3. Copy([x EXCEPT !.nlink = x.nlink - 1]) = [Copy(x) EXCEPT !.nlink = x.nlink - 1]
    BY <1>1, Zenon DEF Copy, NodeType
  <2>4. t[j].persist /\ t[j].nlink > 0
    BY <1>1, <1>4, <2>1 DEF NodeType
  <2>5. Stored(t, j)
    BY <2>4 DEF Stored
  <2>6. Image(t, b)[j] = Copy(t[j])
    BY <2>5, ImageAt
  <2> QED
    BY <2>1, <2>2, <2>3, <2>6 DEF x
<1> QED
  BY <1>3, <1>4

\* A node that is as it was looks the same to the journal, and so does one that
\* the journal has neither before nor after.
LEMMA ImageStays ==
  ASSUME NEW s, NEW t, NEW b \in {0, 1}, Top(s) = Top(t), NEW j \in Inos,
         \/ t[j] = s[j]
         \/ j # Root /\ ~s[j].persist /\ ~t[j].persist
  PROVE  Image(t, b)[j] = Image(s, b)[j]
<1>1. CASE t[j] = s[j]
  BY <1>1 DEF Image, Stored
<1>2. CASE j # Root /\ ~s[j].persist /\ ~t[j].persist
  <2>1. ~Stored(s, j) /\ ~Stored(t, j)
    BY <1>2 DEF Stored
  <2> QED
    BY <2>1, ImageOut
<1> QED
  BY <1>1, <1>2

\* A node that loses a name stays on its side.
LEMMA LessenedOut ==
  ASSUME NEW x \in NodeType, ~x.persist
  PROVE  ~Lessened(x).persist
  BY VacantIs DEF Lessened, NodeType

\* All that is below an entry is on the side of its directory.
LEMMA WholeSide ==
  ASSUME NEW s, LiveInv(s), NEW d \in Inos, NEW n \in Names, s[d].children[n] # NoEntry,
         <<d, n>> # <<Root, Tmp>>
  PROVE  LET B == Below(s, s[d].children[n]) IN
         /\ B \in SUBSET (Inos \ {Root}) /\ Top(s) \notin B /\ d \notin B
         /\ \A j \in B: Used(s, j) /\ s[j].nlink \in Nat /\ s[j].nlink >= 1
         /\ s[d].persist => \A j \in B: s[j].persist
         /\ ~s[d].persist => \A j \in B: ~s[j].persist
<1> DEFINE i == s[d].children[n]
           B == Below(s, i)
<1>1. /\ B \in SUBSET Inos /\ Root \notin B /\ Top(s) \notin B /\ d \notin B
      /\ \A j \in B: Used(s, j) /\ s[j].nlink \in Nat /\ s[j].nlink >= 1
  BY OneSide
<1>2. \A j \in B: s[j].persist = s[i].persist
  BY OneSide
<1>3. s[i].persist = s[d].persist
  BY OneSide
<1>4. B \in SUBSET (Inos \ {Root})
  BY <1>1
<1>5. \A j \in B: s[j].persist = s[d].persist
  BY <1>2, <1>3, Zenon
<1> HIDE DEF B, i
<1>6. s[d].persist => \A j \in B: s[j].persist
  BY <1>5, Zenon
<1>7. ~s[d].persist => \A j \in B: ~s[j].persist
  BY <1>5, Zenon
<1> QED
  BY <1>1, <1>4, <1>6, <1>7, Zenon DEF B, i

\* Neither where it was nor where it comes is persistent.
LEMMA ImageOutside ==
  ASSUME NEW s, LiveInv(s), NEW d \in Inos, NEW n \in Names, NEW e \in Inos, NEW m \in Names,
         MayMove(s, d, n, e, m), <<d, n>> # <<Root, Tmp>>, <<e, m>> # <<Root, Tmp>>,
         ~s[d].persist, ~s[e].persist, NEW t, Renamed(s, t, d, n, e, m), Top(t) = Top(s), NEW b \in {0, 1}
  PROVE  Image(t, b) = Image(s, b)
<1> DEFINE i == s[d].children[n]
           old == s[e].children[m]
           B == Below(s, i)
<1>1. /\ Shapes(s) /\ SlabSound(s) /\ Tree(s) /\ s \in [Inos -> NodeType] /\ t \in [Inos -> NodeType]
      /\ s[Root].persist
  BY ShapesAre DEF LiveInv, Renamed
<1>2. i # NoEntry /\ i \in Inos /\ e \notin B /\ d # old /\ e # old
  BY <1>1, MoveParts DEF MayMove, Shapes, Root, NoEntry
<1>3. /\ d \notin B /\ \A j \in B: ~s[j].persist
  <2>1. d \notin B /\ (\A j \in B: s[j].persist = s[i].persist) /\ s[i].persist = s[d].persist
    BY <1>2, OneSide
  <2> QED
    BY <2>1, Zenon
<1>4. old # NoEntry => old \in Inos \ {Root} /\ ~s[old].persist /\ t[old] = Lessened(s[old])
  <2> HAVE old # NoEntry
  <2>1. s[old].persist = s[e].persist
    BY OneSide
  <2>2. old \in Inos \ {Root}
    BY <1>1, MoveParts
  <2>3. t[old] = Lessened(s[old])
    BY DEF Renamed
  <2> QED
    BY <2>1, <2>2, <2>3, Zenon
<1>5. \A j \in Inos: j = Root \/ j # old =>
        t[j].persist = IF j \in B THEN s[e].persist ELSE s[j].persist
  BY DEF Renamed
<1>6. d # Root /\ e # Root
  BY <1>1
<1> HIDE DEF B
<1>7. ~t[d].persist /\ ~t[e].persist /\ \A j \in B: j = Root \/ j # old => ~t[j].persist
  <2>1. B \subseteq Inos
    BY <1>1, <1>2, SlabIs, BelowIs DEF B
  <2>2. ~t[d].persist
    BY <1>2, <1>3, <1>5, Zenon
  <2>3. ~t[e].persist
    BY <1>2, <1>5, Zenon
  <2>4. ASSUME NEW j \in B, j = Root \/ j # old
        PROVE  ~t[j].persist
    <3>1. j \in Inos
      BY <2>1
    <3>2. t[j].persist = s[e].persist
      BY <1>5, <2>4, <3>1, Zenon
    <3> QED
      BY <3>2, Zenon
  <2> QED
    BY <2>2, <2>3, <2>4
<1>8. ASSUME NEW j \in Inos
      PROVE  Image(t, b)[j] = Image(s, b)[j]
  <2>1. CASE j \in {d, e}
    BY <1>6, <1>7, <2>1, ImageStays
  <2>2. CASE j = old /\ old # NoEntry
    <3>1. s[old] \in NodeType
      BY <1>1, <1>4, <2>2
    <3>2. ~t[old].persist
      BY <1>4, <2>2, <3>1, LessenedOut
    <3> QED
      BY <1>4, <2>2, <3>2, ImageStays
  <2>3. CASE j \notin {d, e} /\ (j = Root \/ j # old)
    <3>1. CASE j \in B
      <4>1. ~s[j].persist /\ ~t[j].persist
        BY <1>3, <1>7, <2>3, <3>1
      <4>2. j # Root
        BY <1>1, <4>1
      <4> QED
        BY <4>1, <4>2, ImageStays
    <3>2. CASE j \notin B
      <4>1. t[j].persist = s[j].persist
        BY <1>5, <2>3, <3>2, Zenon
      <4>2. t[j] = s[j]
        BY <1>1, <2>3, <4>1, RenamedElse
      <4> QED
        BY <4>2, ImageStays
    <3> QED
      BY <3>1, <3>2
  <2> QED
    BY <2>1, <2>2, <2>3 DEF Root, NoEntry
<1>9. Image(t, b) = [j \in Inos |-> Image(t, b)[j]] /\ Image(s, b) = [j \in Inos |-> Image(s, b)[j]]
  BY DEF Image
<1> QED
  BY <1>8, <1>9


-----------------------------------------------------------------------------
\* A name is moved, in the journal

\* An edit of the entries of a stored node is seen as it is.
LEMMA ImageEdit ==
  ASSUME NEW s, s \in [Inos -> NodeType], NEW t, t \in [Inos -> NodeType], NEW b \in {0, 1},
         NEW j \in Inos, Stored(s, j), t[j].kind = s[j].kind, t[j].persist, t[j].nlink = s[j].nlink,
         t[j].data = s[j].data,
         NEW z \in NodeType, z.kind = s[j].kind, z.persist, z.nlink = s[j].nlink, z.opens = 0,
         z.data = s[j].data,
         \A k \in Names: \/ z.children[k] = t[j].children[k] /\ <<j, k>> # <<Root, Tmp>>
                         \/ /\ t[j].children[k] = s[j].children[k]
                            /\ z.children[k] = Image(s, b)[j].children[k]
  PROVE  Image(t, b)[j] = z
<1>1. Stored(t, j)
  BY DEF Stored
<1> DEFINE y == Image(t, b)[j]
<1>2. /\ y \in NodeType /\ y.kind = t[j].kind /\ y.persist
      /\ y.nlink = t[j].nlink /\ y.opens = 0 /\ y.data = t[j].data
      /\ \A k \in Names: y.children[k] =
           IF j = Root /\ k = Tmp /\ b = 0 THEN NoEntry ELSE t[j].children[k]
  BY <1>1, ImageAt
<1>3. \A k \in Names: Image(s, b)[j].children[k] =
           IF j = Root /\ k = Tmp /\ b = 0 THEN NoEntry ELSE s[j].children[k]
  BY ImageAt
<1> HIDE DEF y
<1>4. ASSUME NEW k \in Names
      PROVE  y.children[k] = z.children[k]
  <2>1. CASE z.children[k] = t[j].children[k] /\ <<j, k>> # <<Root, Tmp>>
    BY <1>2, <2>1
  <2>2. CASE /\ t[j].children[k] = s[j].children[k]
             /\ z.children[k] = Image(s, b)[j].children[k]
    BY <1>2, <1>3, <2>2
  <2> QED
    BY <2>1, <2>2
<1>5. y.persist = z.persist
  BY <1>2 DEF NodeType
<1>6. y = z
  <2>1. y.kind = z.kind /\ y.nlink = z.nlink /\ y.opens = z.opens /\ y.data = z.data /\ y \in NodeType
    BY <1>2
  <2> QED
    BY <1>4, <1>5, <2>1, SameNode, Zenon
<1> QED
  BY <1>6 DEF y

\* It goes out: for the journal, its last name goes, and all that is below it.
LEMMA ImageGoes ==
  ASSUME NEW s, LiveInv(s), NEW d \in Inos, NEW n \in Names, NEW e \in Inos, NEW m \in Names,
         MayMove(s, d, n, e, m), <<d, n>> # <<Root, Tmp>>, <<e, m>> # <<Root, Tmp>>,
         s[d].persist, ~s[e].persist, \A j \in Below(s, s[d].children[n]): s[j].nlink = 1,
         NEW t, Renamed(s, t, d, n, e, m), Top(t) = Top(s), NEW b \in {0, 1}
  PROVE  Unlinked(Image(s, b), d, n) = Image(t, b)
<1> DEFINE i == s[d].children[n]
           old == s[e].children[m]
           B == Below(s, i)
           D == Image(s, b)
           v == [D EXCEPT ![d] = Named(D[d], n, NoEntry)]
           E == Vacated(v, B)
<1> HIDE DEF D, v, E
<1>1. /\ Shapes(s) /\ SlabSound(s) /\ Tree(s) /\ s \in [Inos -> NodeType] /\ t \in [Inos -> NodeType]
      /\ s[Root].persist /\ s \in Slab
  BY ShapesAre, SlabIs DEF LiveInv, Renamed
<1>2. /\ i # NoEntry /\ i \in Inos /\ e \notin B /\ (d = Root \/ d # old) /\ e # old
      /\ i # d /\ s[d].kind = "dir"
  <2>1. i # NoEntry /\ e \notin B /\ s[e].kind = "dir"
    BY DEF MayMove
  <2>2. i \in Inos /\ i # d /\ s[d].kind = "dir" /\ (old # NoEntry => d # old /\ e # old)
    BY <1>1, MoveParts
  <2>3. e # Root
    BY <1>1
  <2> QED
    BY <2>1, <2>2, <2>3 DEF Root, NoEntry
<1>3. /\ B \in SUBSET (Inos \ {Root}) /\ d \notin B /\ Top(s) \notin B
      /\ \A j \in B: Used(s, j) /\ s[j].persist /\ s[j].nlink = 1
  <2>1. /\ B \in SUBSET Inos /\ Root \notin B /\ d \notin B /\ Top(s) \notin B
        /\ s[i].persist = s[d].persist
        /\ \A j \in B: Used(s, j) /\ s[j].persist = s[i].persist
    <3>1. s[d].children[n] # NoEntry
      BY <1>2
    <3> QED
      BY <3>1, OneSide, ZenonT(40)
  <2> QED
    BY <2>1, Zenon
<1>4. i \in B /\ Closed(s, B)
  BY <1>1, <1>2, BelowIs
<1>5. old # NoEntry => old \in Inos \ {Root} /\ ~s[old].persist /\ t[old] = Lessened(s[old]) /\ old \notin B
  <2> HAVE old # NoEntry
  <2>1. s[old].persist = s[e].persist
    BY OneSide
  <2>2. old \in Inos \ {Root} /\ old \notin B
    BY <1>1, MoveParts, OldOutside
  <2>3. t[old] = Lessened(s[old])
    BY DEF Renamed
  <2> QED
    BY <2>1, <2>2, <2>3, Zenon
<1>6. /\ \A j \in Inos: j = Root \/ j # old =>
           t[j].persist = IF j \in B THEN s[e].persist ELSE s[j].persist
      /\ \A j \in Inos: j = Root \/ j # old =>
           t[j].kind = s[j].kind /\ t[j].nlink = s[j].nlink /\ t[j].data = s[j].data
      /\ Moves(s, t, d, n, e, m)
  BY DEF Renamed
<1>7. Shapes(D) /\ WholeSlab(D) /\ D \in [Inos -> NodeType]
  BY ImageShapes, ShapesAre DEF Shapes, WholeSlab, D
<1>8. \A j \in B: Stored(s, j)
  BY <1>3 DEF Stored
<1>9. Stored(s, d)
  BY <1>2, StoredAre
<1>10. D[d].children[n] = i /\ Used(D, d)
  <2>1. D[d].kind = s[d].kind
    BY <1>1, <1>9, ImageAt DEF D
  <2> QED
    BY <1>2, <1>9, <2>1, ImageEntries DEF Used, D
<1> HIDE DEF B, old
<1>11. /\ \A j \in B: v[j] = Copy(s[j]) /\ v[j] = D[j]
       /\ v[d] = Named(D[d], n, NoEntry) /\ (\A j \in Inos: j # d => v[j] = D[j])
       /\ WholeSlab(v)
  <2>1. \A j \in B: D[j] = Copy(s[j])
    BY <1>1, <1>3, <1>8, ImageAt DEF D
  <2>2. /\ v[d] = Named(D[d], n, NoEntry) /\ (\A j \in Inos: j # d => v[j] = D[j])
    BY <1>7 DEF v
  <2>3. WholeSlab(v)
    BY <1>7, <1>10, PutIs, SlabNumbers, Zenon DEF v
  <2> QED
    BY <1>3, <2>1, <2>2, <2>3
<1>12. \A j \in B: v[j].children = s[j].children /\ v[j].nlink = 1 /\ Used(v, j) /\ v[j].opens = 0
  <2> TAKE j \in B
  <2>1. s[j] \in NodeType /\ s[j].nlink = 1 /\ s[j].kind # "none"
    BY <1>1, <1>3 DEF Used
  <2> QED
    BY <1>11, <2>1, CopyIs DEF Used
<1>13. v \in Slab /\ Below(v, i) = B
  <2>1. v \in Slab
    BY <1>11 DEF WholeSlab
  <2>2. \A j \in Below(s, i): v[j].children = s[j].children
    BY <1>12 DEF B
  <2> QED
    BY <1>1, <1>2, <2>1, <2>2, BelowSame DEF B
<1>14. Freed(v, i) = E
  <2>1. \A j \in Inos: Used(v, j) \/ v[j] = Vacant
    BY <1>11 DEF WholeSlab
  <2>2. ASSUME NEW j \in B, NEW c \in Children(v, j)
        PROVE  Used(v, c) /\ v[c].nlink <= 1
    <3>1. Children(v, j) = Children(s, j)
      BY <1>12 DEF Children
    <3>2. c \in B
      BY <1>4, <2>2, <3>1 DEF Closed
    <3>3. Used(v, c) /\ v[c].nlink = 1
      BY <1>12, <3>2
    <3> QED
      BY <3>3
  <2> QED
    BY <1>2, <1>13, <2>1, <2>2, FreedIs DEF E
<1>15. Unlinked(D, d, n) = E
  <2>1. [D EXCEPT ![d].children[n] = NoEntry] = v
    <3>1. NoEntry \in Inos /\ WholeSlab(D) /\ Used(D, d)
      BY <1>7, <1>10, SlabNumbers
    <3>2. /\ [D EXCEPT ![d].children[n] = NoEntry] = [D EXCEPT ![d] = Named(D[d], n, NoEntry)]
          /\ WholeSlab([D EXCEPT ![d] = Named(D[d], n, NoEntry)])
      BY <3>1, PutIs, Zenon
    <3> QED
      BY <3>2, Zenon DEF v
  <2>2. Dropped(v, i) = Freed(v, i)
    <3>1. v[i].nlink = 1 /\ v[i].opens = 0
      BY <1>4, <1>12
    <3> QED
      BY <3>1 DEF Dropped
  <2>3. Unlinked(D, d, n) = Dropped(v, i)
    BY <1>2, <1>10, <2>1, Zenon DEF Unlinked
  <2> QED
    BY <1>14, <2>2, <2>3
<1>16. ~t[e].persist /\ t[d].persist /\ \A j \in B: ~t[j].persist
  <2>1. t[e].persist = s[e].persist
    BY <1>2, <1>6, Zenon
  <2>2. t[d].persist = s[d].persist
    BY <1>2, <1>3, <1>6, Zenon
  <2>3. ASSUME NEW j \in B
        PROVE  ~t[j].persist
    <3>1. j \in Inos /\ (j = Root \/ j # old)
      BY <1>3, <1>5, SlabNumbers
    <3>2. t[j].persist = s[e].persist
      BY <1>6, <3>1, Zenon
    <3> QED
      BY <3>2, Zenon
  <2> QED
    BY <2>1, <2>2, <2>3, Zenon
<1>17. ASSUME NEW j \in Inos
       PROVE  Image(t, b)[j] = E[j]
  <2>1. CASE j \in B
    <3>1. E[j] = Vacant
      BY <2>1 DEF E, Vacated
    <3>2. ~Stored(t, j)
      BY <1>3, <1>16, <2>1 DEF Stored
    <3>3. j # Top(t)
      BY <1>3, <2>1
    <3> QED
      BY <3>1, <3>2, <3>3, ImageOut
  <2>2. CASE j = d
    <3> DEFINE z == E[j]
    <3>1. z = Named(D[d], n, NoEntry) /\ D[d] \in NodeType
      BY <1>3, <1>7, <1>11, <2>2 DEF E, Vacated
    <3> HIDE DEF z
    <3>2. /\ z.kind = D[d].kind /\ z.persist = D[d].persist /\ z.nlink = D[d].nlink
          /\ z.data = D[d].data /\ z.opens = D[d].opens /\ z \in NodeType
          /\ \A k \in Names: z.children[k] = IF k = n THEN NoEntry ELSE D[d].children[k]
      <4>1. NoEntry \in Inos
        BY SlabNumbers
      <4>2. z \in NodeType
        BY <3>1, <4>1, NodeTypes, Zenon
      <4>3. /\ z.kind = D[d].kind /\ z.persist = D[d].persist /\ z.nlink = D[d].nlink
            /\ z.data = D[d].data /\ z.opens = D[d].opens
        BY <3>1, <4>1, Fields
      <4>4. \A k \in Names: z.children[k] = IF k = n THEN NoEntry ELSE D[d].children[k]
        BY <3>1, <4>1, Fields
      <4> QED
        BY <4>2, <4>3, <4>4
    <3>3. /\ D[d].kind = s[d].kind /\ D[d].persist /\ D[d].nlink = s[d].nlink /\ D[d].opens = 0
          /\ D[d].data = s[d].data
      BY <1>1, <1>9, ImageAt DEF D
    <3>4. d # e
      BY <1>16
    <3>5. ASSUME NEW k \in Names
          PROVE  \/ z.children[k] = t[d].children[k] /\ <<d, k>> # <<Root, Tmp>>
                 \/ /\ t[d].children[k] = s[d].children[k]
                    /\ z.children[k] = Image(s, b)[d].children[k]
      <4>1. t[d].children[k] = IF k = n THEN NoEntry ELSE s[d].children[k]
        BY <1>6, <3>4 DEF Moves
      <4>2. CASE k = n
        BY <3>2, <4>1, <4>2
      <4>3. CASE k # n
        BY <3>2, <4>1, <4>3 DEF D
      <4> QED
        BY <4>2, <4>3
    <3>6. t[d].kind = s[d].kind /\ t[d].nlink = s[d].nlink /\ t[d].data = s[d].data
      BY <1>2, <1>6
    <3>7. /\ z.kind = s[d].kind /\ z.persist /\ z.nlink = s[d].nlink /\ z.opens = 0
          /\ z.data = s[d].data /\ z \in NodeType
      BY <3>2, <3>3
    <3>8. Image(t, b)[d] = z
      BY <1>1, <1>9, <1>16, <3>5, <3>6, <3>7, ImageEdit
    <3> QED
      BY <2>2, <3>8 DEF z
  <2>3. CASE j \notin B /\ j # d
    <3>1. E[j] = Image(s, b)[j]
      BY <1>11, <2>3 DEF E, Vacated, D
    <3>2. CASE j = e
      <4>1. e # Root
        BY <1>1
      <4> QED
        BY <1>16, <3>1, <3>2, <4>1, ImageStays
    <3>3. CASE j = old /\ old # NoEntry
      <4>1. s[old] \in NodeType
        BY <1>1, <1>5, <3>3
      <4>2. ~t[old].persist
        BY <1>5, <3>3, <4>1, LessenedOut
      <4> QED
        BY <1>5, <3>1, <3>3, <4>2, ImageStays
    <3>4. CASE j # e /\ (j = Root \/ j # old)
      <4>1. t[j].persist = s[j].persist
        BY <1>6, <2>3, <3>4, Zenon
      <4>2. t[j] = s[j]
        BY <1>1, <2>3, <3>4, <4>1, RenamedElse DEF old
      <4> QED
        BY <3>1, <4>2, ImageStays
    <3> QED
      BY <3>2, <3>3, <3>4 DEF Root, NoEntry
  <2> QED
    BY <2>1, <2>2, <2>3
<1>18. Image(t, b) = [j \in Inos |-> Image(t, b)[j]] /\ E = [j \in Inos |-> E[j]]
  BY DEF Image, E, Vacated
<1>19. Image(t, b) = E
  BY <1>17, <1>18
<1> QED
  BY <1>15, <1>19 DEF D


\* Both where it was and where it comes are persistent.
LEMMA ImageMoves ==
  ASSUME NEW s, LiveInv(s), NEW d \in Inos, NEW n \in Names, NEW e \in Inos, NEW m \in Names,
         MayMove(s, d, n, e, m), <<d, n>> # <<Root, Tmp>>, <<e, m>> # <<Root, Tmp>>,
         s[d].persist, s[e].persist,
         NEW t, Renamed(s, t, d, n, e, m), Top(t) = Top(s), NEW b \in {0, 1}
  PROVE  LET D == Image(s, b)
             i == s[d].children[n] IN
         /\ Unlinked(Linked(D, e, m, i), d, n) = Image(t, b)
         /\ D[e].kind = "dir" /\ Used(D, i) /\ Linked(D, e, m, i)[d].kind = "dir"
<1> DEFINE i == s[d].children[n]
           old == s[e].children[m]
           B == Below(s, i)
           D == Image(s, b)
           E == MoveEdit(D, d, n, e, m)
<1> HIDE DEF D, E
<1>1. /\ Shapes(s) /\ SlabSound(s) /\ Tree(s) /\ s \in [Inos -> NodeType] /\ t \in [Inos -> NodeType]
      /\ s[Root].persist /\ s \in Slab
  BY ShapesAre, SlabIs DEF LiveInv, Renamed
<1>2. /\ i # NoEntry /\ i \in Inos \ {Root} /\ e \notin B /\ i # d /\ i # e
      /\ s[d].kind = "dir" /\ s[e].kind = "dir"
  <2>1. i # NoEntry /\ e \notin B /\ s[e].kind = "dir"
    BY DEF MayMove
  <2>2. i \in Inos \ {Root} /\ i \notin {d, e} /\ s[d].kind = "dir"
    BY <1>1, MoveParts
  <2> QED
    BY <2>1, <2>2
<1>3. /\ B \in SUBSET (Inos \ {Root}) /\ \A j \in B: Stored(s, j)
  <2>1. i # NoEntry
    BY <1>2
  <2>2. /\ B \in SUBSET (Inos \ {Root}) /\ \A j \in B: s[j].nlink \in Nat /\ s[j].nlink >= 1
    BY <2>1, WholeSide
  <2>3. \A j \in B: s[j].persist
    BY <2>1, WholeSide
  <2>4. \A j \in B: s[j].nlink > 0
    BY <2>2
  <2> QED
    BY <2>2, <2>3, <2>4 DEF Stored
<1>4. Stored(s, d) /\ Stored(s, e)
  BY <1>2, StoredAre
<1>5. old # NoEntry =>
        /\ old \in Inos \ {Root} /\ t[old] = Lessened(s[old]) /\ old \notin {d, e} /\ old # i
        /\ IsEmpty(s, old)
  <2> HAVE old # NoEntry
  <2>1. old \in Inos \ {Root} /\ old \notin {d, e} /\ old # i
    BY <1>1, MoveParts
  <2>2. t[old] = Lessened(s[old])
    BY DEF Renamed
  <2>3. IsEmpty(s, old)
    BY DEF MayMove
  <2> QED
    BY <2>1, <2>2, <2>3
<1>6. old # NoEntry => Stored(s, old) /\ s[old].persist /\ s[old].nlink >= 1 /\ old # Top(s)
  <2> HAVE old # NoEntry
  <2>1. Stored(s, old)
    BY <1>4, StoredAre
  <2>2. s[old].persist /\ old # Top(s)
    BY <1>5, <2>1, StoredAre
  <2>3. s[old].nlink >= 1
    BY <1>1, NamedUsed
  <2> QED
    BY <2>1, <2>2, <2>3
<1>7. /\ Shapes(D) /\ SlabSound(D) /\ Tree(D) /\ WholeSlab(D) /\ D \in [Inos -> NodeType]
  BY ImageShapes, ImageSound, ImageTree, ShapesAre DEF Shapes, WholeSlab, D
<1>8. D[d].children[n] = i /\ D[e].children[m] = old
  BY <1>4, ImageEntries DEF D
<1>9. \A j \in B: D[j] = Copy(s[j]) /\ D[j].children = s[j].children
  <2> TAKE j \in B
  <2>1. j \in Inos /\ j # Root /\ Stored(s, j) /\ s[j] \in NodeType
    BY <1>1, <1>3
  <2>2. D[j] = Copy(s[j])
    BY <1>1, <2>1, ImageAt DEF D
  <2> QED
    BY <2>1, <2>2, CopyIs
<1>10. Below(D, i) = B
  BY <1>1, <1>2, <1>7, <1>9, BelowSame DEF Shapes
<1>11. old # NoEntry => D[old] = Copy(s[old]) /\ IsEmpty(D, old)
  <2> HAVE old # NoEntry
  <2>1. old \in Inos \ {Root} /\ Stored(s, old) /\ s[old] \in NodeType
    BY <1>1, <1>5, <1>6
  <2>2. D[old] = Copy(s[old])
    BY <1>1, <2>1, ImageAt DEF D
  <2>3. D[old].children = s[old].children
    BY <2>1, <2>2, CopyIs
  <2> QED
    BY <1>5, <2>2, <2>3 DEF IsEmpty, Children
<1>12. D[e].kind = "dir" /\ D[d].kind = "dir" /\ Used(D, i)
  <2>1. i \in B
    BY <1>1, <1>2, BelowIs
  <2>2. Used(s, i)
    BY <1>1, <1>2, NamedUsed
  <2>3. D[i].kind = s[i].kind
    BY <1>1, <1>2, <1>3, <2>1, ImageAt DEF D
  <2>4. D[e].kind = s[e].kind /\ D[d].kind = s[d].kind
    BY <1>1, <1>4, ImageAt DEF D
  <2> QED
    BY <1>2, <2>2, <2>3, <2>4 DEF Used
<1> HIDE DEF B, i, old
<1>13. MayMove(D, d, n, e, m)
  <2>1. <<d, n>> # <<e, m>>
    BY DEF MayMove
  <2> QED
    BY <1>2, <1>5, <1>8, <1>10, <1>11, <1>12, <2>1 DEF MayMove
<1>14. /\ Unlinked(Linked(D, e, m, i), d, n) = E /\ Moves(D, E, d, n, e, m) /\ Shapes(E)
       /\ \A j \in Inos: j = Root \/ j # old =>
            /\ E[j].kind = D[j].kind /\ E[j].persist = D[j].persist /\ E[j].nlink = D[j].nlink
            /\ E[j].data = D[j].data /\ E[j].opens = D[j].opens
       /\ old # NoEntry => E[old] = Lessened(D[old])
       /\ \A j \in Inos: j \notin {d, e, old} => E[j] = D[j]
  BY <1>7, <1>8, <1>13, MoveNodes DEF Alike, E
<1>15. E \in [Inos -> NodeType] /\ E = [j \in Inos |-> E[j]]
  BY <1>14, ShapesAre
<1>16. /\ Moves(s, t, d, n, e, m)
       /\ \A j \in Inos: j = Root \/ j # old =>
            t[j].kind = s[j].kind /\ t[j].nlink = s[j].nlink /\ t[j].data = s[j].data
       /\ \A j \in Inos: j = Root \/ j # old =>
            t[j].persist = IF j \in B THEN s[e].persist ELSE s[j].persist
  BY Zenon DEF Renamed, B, i, old
<1>17. ASSUME NEW j \in Inos, j = Root \/ j # old
       PROVE  t[j].persist = s[j].persist
  <2>1. CASE j \in B
    <3>1. t[j].persist = s[e].persist
      BY <1>16, <1>17, <2>1, Zenon
    <3>2. s[j].persist
      BY <1>3, <2>1 DEF Stored
    <3>3. s[j] \in NodeType /\ s[e] \in NodeType
      BY <1>1
    <3>4. s[j].persist = TRUE /\ s[e].persist = TRUE
      BY <3>2, <3>3 DEF NodeType
    <3> QED
      BY <3>1, <3>4, Zenon
  <2>2. CASE j \notin B
    BY <1>16, <1>17, <2>2, Zenon
  <2> QED
    BY <2>1, <2>2
<1>18. ASSUME NEW j \in {d, e}
       PROVE  Image(t, b)[j] = E[j]
  <2>1. j \in Inos /\ Stored(s, j) /\ s[j].persist /\ (j = Root \/ j # old)
    BY <1>4, <1>5 DEF Root, NoEntry
  <2>2. t[j].kind = s[j].kind /\ t[j].nlink = s[j].nlink /\ t[j].data = s[j].data
    BY <1>16, <2>1
  <2>3. t[j].persist
    BY <1>17, <2>1, Zenon
  <2>4. /\ D[j].kind = s[j].kind /\ D[j].persist /\ D[j].nlink = s[j].nlink /\ D[j].opens = 0
        /\ D[j].data = s[j].data
    BY <1>1, <2>1, ImageAt DEF D
  <2> DEFINE z == E[j]
  <2>5. /\ z.kind = D[j].kind /\ z.nlink = D[j].nlink /\ z.persist = D[j].persist
        /\ z.data = D[j].data /\ z.opens = D[j].opens /\ z \in NodeType
    BY <1>14, <1>15, <2>1
  <2>6. ASSUME NEW k \in Names
        PROVE  \/ z.children[k] = t[j].children[k] /\ <<j, k>> # <<Root, Tmp>>
               \/ /\ t[j].children[k] = s[j].children[k]
                  /\ z.children[k] = Image(s, b)[j].children[k]
    <3>1. t[j].children[k] = IF j = e /\ k = m THEN i ELSE IF j = d /\ k = n THEN NoEntry
                             ELSE s[j].children[k]
      BY <1>16, <2>1 DEF Moves, i
    <3>2. z.children[k] = IF j = e /\ k = m THEN i ELSE IF j = d /\ k = n THEN NoEntry
                          ELSE D[j].children[k]
      BY <1>8, <1>14, <2>1 DEF Moves
    <3>3. CASE (j = e /\ k = m) \/ (j = d /\ k = n)
      BY <3>1, <3>2, <3>3
    <3>4. CASE ~((j = e /\ k = m) \/ (j = d /\ k = n))
      BY <3>1, <3>2, <3>4 DEF D
    <3> QED
      BY <3>3, <3>4
  <2> HIDE DEF z
  <2>7. /\ z.kind = s[j].kind /\ z.persist /\ z.nlink = s[j].nlink /\ z.opens = 0
        /\ z.data = s[j].data /\ z \in NodeType
    BY <2>4, <2>5
  <2>8. Image(t, b)[j] = z
    BY <1>1, <2>1, <2>2, <2>3, <2>6, <2>7, ImageEdit
  <2> QED
    BY <2>8 DEF z
<1>19. ASSUME NEW j \in Inos
       PROVE  Image(t, b)[j] = E[j]
  <2>1. CASE j \in {d, e}
    BY <1>18, <2>1
  <2>2. CASE j = old /\ old # NoEntry
    <3>1. E[j] = Lessened(Copy(s[j]))
      BY <1>11, <1>14, <2>2
    <3>2. j \in Inos \ {Root} /\ j # Top(t) /\ s[j].persist /\ s[j].nlink >= 1 /\ t[j] = Lessened(s[j])
      BY <1>5, <1>6, <2>2
    <3> QED
      BY <1>1, <3>1, <3>2, ImageLess
  <2>3. CASE j \notin {d, e} /\ (j = Root \/ j # old)
    <3>1. t[j] = s[j]
      <4>1. t[j].persist = s[j].persist
        BY <1>17, <2>3
      <4> QED
        BY <1>1, <2>3, <4>1, RenamedElse DEF old
    <3>2. E[j] = D[j]
      <4>1. CASE j # old
        BY <1>14, <2>3, <4>1
      <4>2. CASE j = old
        <5>1. /\ E[j].kind = D[j].kind /\ E[j].persist = D[j].persist /\ E[j].nlink = D[j].nlink
              /\ E[j].data = D[j].data /\ E[j].opens = D[j].opens
          BY <1>14, <2>3
        <5>2. \A k \in Names: E[j].children[k] = D[j].children[k]
          BY <1>14, <2>3 DEF Moves
        <5>3. E[j] \in NodeType /\ D[j] \in NodeType
          BY <1>7, <1>15
        <5> QED
          BY <5>1, <5>2, <5>3, SameNode
      <4> QED
        BY <4>1, <4>2
    <3> QED
      BY <3>1, <3>2, ImageStays DEF D
  <2> QED
    BY <2>1, <2>2, <2>3 DEF Root, NoEntry
<1>20. Image(t, b) = E
  <2>1. Image(t, b) = [j \in Inos |-> Image(t, b)[j]]
    BY DEF Image
  <2> QED
    BY <1>15, <1>19, <2>1
<1>21. Linked(D, e, m, i)[d].kind = "dir"
  <2>1. i # e /\ D[e].children[m] # i /\ Used(D, e) /\ i \in Inos
    BY <1>2, <1>5, <1>8, <1>12 DEF Used
  <2>2. \/ D[e].children[m] = NoEntry
        \/ D[e].children[m] # e /\ Leaf(D, D[e].children[m])
    BY <1>5, <1>8, <1>11 DEF Leaf
  <2>20. Linked(D, e, m, i) = LinkEdit(D, e, m, i)
    BY <1>7, <2>1, <2>2, LinkedIs
  <2>3. LinkEdit(D, e, m, i)[d] = IF d = e THEN Named(D[d], m, i) ELSE D[d]
    BY <1>2, <1>5, <1>8 DEF LinkEdit, Root, NoEntry
  <2>4. Named(D[d], m, i).kind = D[d].kind
    BY <1>2, <1>7, Fields
  <2> QED
    BY <1>12, <2>20, <2>3, <2>4
<1> QED
  BY <1>12, <1>14, <1>20, <1>21 DEF D, i


-----------------------------------------------------------------------------
\* A subtree is journaled

\* Sequences are joined one after the other.
JoinsAll(g, seqs) ==
  /\ g \in [0..Len(seqs) -> Seq(SlabRecords)] /\ g[0] = <<>> /\ g[Len(seqs)] = Joined(seqs)
  /\ \A k \in 1..Len(seqs): g[k] = g[k - 1] \o seqs[k]

\* The recursion in Joined has a solution.
LEMMA JoinedIs ==
  ASSUME NEW seqs \in Seq(Seq(SlabRecords))
  PROVE  \E g: JoinsAll(g, seqs)
<1> DEFINE n == Len(seqs)
           S == Seq(SlabRecords)
           F == [e \in (1..n) \X S |-> e[2] \o seqs[e[1]]]
           Solves(f) == f = [k \in 0..n |-> IF k = 0 THEN <<>> ELSE f[k - 1] \o seqs[k]]
           all == CHOOSE f: Solves(f)
<1>1. n \in Nat /\ <<>> \in S /\ \A k \in 1..n: seqs[k] \in S
  OBVIOUS
<1>2. \A k \in 1..n: k # 0 /\ k \in 0..n /\ k - 1 \in 0..n
  BY <1>1
<1>3. \A k \in 0..n: k = 0 \/ k \in 1..n
  BY <1>1
<1>4. \A k \in 1..n, x \in S: x \o seqs[k] \in S
  BY <1>1
<1>5. Joined(seqs) = all[n]
  BY DEF Joined
<1> HIDE DEF n, S
<1>6. Advances(F, n, S)
  BY <1>4 DEF Advances
<1>7. \A k \in 1..n, x \in S: F[<<k, x>>] = x \o seqs[k]
  BY Zenon
<1> HIDE DEF F
<1>8. PICK g: Computed(g, F, n, <<>>, S)
  BY <1>1, <1>6, Recursion
<1>9. g \in [0..n -> S] /\ g[0] = <<>> /\ \A k \in 1..n: g[k] = F[<<k, g[k - 1]>>]
  BY <1>8 DEF Computed
<1>10. \A k \in 1..n: g[k] = g[k - 1] \o seqs[k]
  <2> TAKE k \in 1..n
  <2>1. g[k - 1] \in S
    BY <1>2, <1>9, Zenon
  <2> QED
    BY <1>7, <1>9, <2>1, Zenon
<1>11. Solves(g)
  <2>1. \A k \in 0..n: g[k] = IF k = 0 THEN <<>> ELSE g[k - 1] \o seqs[k]
    BY <1>3, <1>9, <1>10, Zenon
  <2>2. g = [k \in 0..n |-> g[k]]
    BY <1>9
  <2> QED
    BY <2>1, <2>2, Zenon
<1>12. Solves(all)
  <2> HIDE DEF Solves
  <2> QED
    BY <1>11
<1>13. /\ all = [k \in 0..n |-> all[k]]
       /\ \A k \in 0..n: all[k] = IF k = 0 THEN <<>> ELSE all[k - 1] \o seqs[k]
  <2> HIDE DEF all
  <2> QED
    BY <1>12, Zenon
<1> HIDE DEF all
<1> DEFINE P == {k \in 0..n: all[k] = g[k]}
<1>14. 0 \in P
  <2>1. 0 \in 0..n
    BY <1>1
  <2>2. all[0] = g[0]
    BY <1>9, <1>13, <2>1, Zenon
  <2> QED
    BY <2>1, <2>2
<1>15. ASSUME NEW k \in 1..n, k - 1 \in P
       PROVE  k \in P
  <2>1. all[k - 1] = g[k - 1] /\ k # 0 /\ k \in 0..n
    BY <1>2, <1>15
  <2>2. all[k] = all[k - 1] \o seqs[k]
    BY <1>13, <2>1, Zenon
  <2>3. g[k] = g[k - 1] \o seqs[k]
    BY <1>10, Zenon
  <2>4. all[k] = g[k]
    BY <2>1, <2>2, <2>3, Zenon
  <2> QED
    BY <2>1, <2>4
<1>16. \A k \in 0..n: k \in P
  <2> HIDE DEF P
  <2> QED
    BY <1>1, <1>14, <1>15, Climb, Zenon
<1>17. all[n] = g[n]
  <2>1. n \in 0..n
    BY <1>1
  <2> QED
    BY <1>16, <2>1
<1> QED
  BY <1>5, <1>9, <1>10, <1>17, Zenon DEF JoinsAll, n, S

\* What each of them leads to, all of them lead to.
LEMMA JoinedRun ==
  ASSUME NEW n \in Nat, NEW seqs \in [1..n -> Seq(SlabRecords)], NEW h,
         \A k \in 1..n: Run(h[k - 1], seqs[k], h[k])
  PROVE  Run(h[0], Joined(seqs), h[n]) /\ Joined(seqs) \in Seq(SlabRecords)
<1>1. seqs \in Seq(Seq(SlabRecords)) /\ Len(seqs) = n
  OBVIOUS
<1>2. PICK g: JoinsAll(g, seqs)
  BY <1>1, JoinedIs
<1>3. g[0] = <<>> /\ g[n] = Joined(seqs) /\ \A k \in 1..n: g[k] = g[k - 1] \o seqs[k]
  BY <1>1, <1>2, Zenon DEF JoinsAll
<1> DEFINE P == {k \in 0..n: Run(h[0], g[k], h[k])}
<1>4. 0 \in P
  <2>1. Run(h[0], <<>>, h[0])
    BY RunNone
  <2>2. Run(h[0], g[0], h[0])
    BY <1>3, <2>1, Zenon
  <2>3. 0 \in 0..n
    OBVIOUS
  <2> QED
    BY <2>2, <2>3
<1>5. ASSUME NEW k \in 1..n, k - 1 \in P
      PROVE  k \in P
  <2>1. Run(h[0], g[k - 1], h[k - 1]) /\ Run(h[k - 1], seqs[k], h[k])
    BY <1>5
  <2>2. Run(h[0], g[k - 1] \o seqs[k], h[k])
    BY <2>1, RunJoin
  <2>3. Run(h[0], g[k], h[k])
    BY <1>3, <2>2, Zenon
  <2>4. k \in 0..n
    OBVIOUS
  <2> QED
    BY <2>3, <2>4
<1>6. \A k \in 0..n: k \in P
  <2> HIDE DEF P
  <2> QED
    BY <1>4, <1>5, Climb, Zenon
<1>7. n \in 0..n
  OBVIOUS
<1>8. Run(h[0], g[n], h[n])
  BY <1>6, <1>7
<1>9. Run(h[0], Joined(seqs), h[n])
  BY <1>3, <1>8, Zenon
<1> QED
  BY <1>9 DEF Run

\* SlabRecords joined are records.
LEMMA JoinedType ==
  ASSUME NEW n \in Nat, NEW seqs \in [1..n -> Seq(SlabRecords)]
  PROVE  Joined(seqs) \in Seq(SlabRecords)
<1>1. seqs \in Seq(Seq(SlabRecords)) /\ Len(seqs) = n
  OBVIOUS
<1>2. PICK g: JoinsAll(g, seqs)
  BY <1>1, JoinedIs
<1>3. g \in [0..n -> Seq(SlabRecords)] /\ g[n] = Joined(seqs)
  BY <1>1, <1>2, Zenon DEF JoinsAll
<1>4. n \in 0..n
  OBVIOUS
<1> QED
  BY <1>3, <1>4

\* The records of an entry, when those of each subtree are known, and of a node
\* with its entries.
EntryRecords(s, sub, j, n) ==
  IF s[j].children[n] = NoEntry THEN <<>>
  ELSE Append(sub[s[j].children[n]], RecLink(j, n, s[j].children[n]))

SubtreeRecords(s, sub, j) ==
  <<RecNode(s, j)>> \o Joined([n \in Names |-> EntryRecords(s, sub, j, n)])

Emits(g, s) ==
  /\ g \in [Inos -> [Inos -> Seq(SlabRecords)]]
  /\ \A j \in Inos: g[MaxIno][j] = Emitted(s, j)
  /\ \A k \in 1..MaxIno, j \in Inos: g[k][j] = SubtreeRecords(s, g[k - 1], j)

\* What emit_subtree says of a node, and of an entry, are records.
LEMMA SubtreeTypes ==
  ASSUME NEW s, s \in [Inos -> NodeType], NEW sub \in [Inos -> Seq(SlabRecords)], NEW j \in Inos
  PROVE  /\ \A n \in Names: EntryRecords(s, sub, j, n) \in Seq(SlabRecords)
         /\ SubtreeRecords(s, sub, j) \in Seq(SlabRecords)
<1>1. ASSUME NEW n \in Names
      PROVE  EntryRecords(s, sub, j, n) \in Seq(SlabRecords)
  <2> DEFINE c == s[j].children[n]
  <2>1. c \in Inos
    BY DEF NodeType
  <2>2. RecLink(j, n, c) \in SlabRecords /\ sub[c] \in Seq(SlabRecords) /\ <<>> \in Seq(SlabRecords)
    BY <2>1 DEF RecLink, SlabRecords
  <2>3. Append(sub[c], RecLink(j, n, c)) \in Seq(SlabRecords)
    BY <2>2
  <2> QED
    BY <2>2, <2>3 DEF EntryRecords
<1>2. [n \in Names |-> EntryRecords(s, sub, j, n)] \in [1..NameCount -> Seq(SlabRecords)]
  BY <1>1 DEF Names
<1>3. Joined([n \in Names |-> EntryRecords(s, sub, j, n)]) \in Seq(SlabRecords)
  BY <1>2, SlabNumbers, JoinedType
<1>4. RecNode(s, j) \in SlabRecords
  <2>1. s[j].kind \in {"none", "file", "dir"} /\ s[j].data \in Data
    BY DEF NodeType
  <2> QED
    BY <2>1 DEF RecNode, SlabRecords
<1>5. <<RecNode(s, j)>> \in Seq(SlabRecords)
  BY <1>4
<1>6. SubtreeRecords(s, sub, j) \in Seq(SlabRecords)
  BY <1>3, <1>5 DEF SubtreeRecords
<1> QED
  BY <1>1, <1>6

\* The recursion in Emitted has a solution.
LEMMA EmitSteps ==
  ASSUME NEW s, s \in [Inos -> NodeType]
  PROVE  \E g: Emits(g, s)
<1> DEFINE X == [Inos -> Seq(SlabRecords)]
           F == [e \in (1..MaxIno) \X X |-> [j \in Inos |-> SubtreeRecords(s, e[2], j)]]
           b == [j \in Inos |-> <<>>]
           Solves(f) ==
             f = [k \in Inos |->
                    [j \in Inos |->
                       IF k = 0 THEN <<>>
                       ELSE <<RecNode(s, j)>> \o
                            Joined([n \in Names |->
                              IF s[j].children[n] = NoEntry THEN <<>>
                              ELSE Append(f[k - 1][s[j].children[n]],
                                          RecLink(j, n, s[j].children[n]))])]]
           emit == CHOOSE f: Solves(f)
<1>1. MaxIno \in Nat /\ Inos = 0..MaxIno
  BY SlabNumbers DEF Inos
<1>2. \A k \in 1..MaxIno: k # 0 /\ k \in Inos /\ k - 1 \in Inos
  BY <1>1
<1>3. \A k \in Inos: k = 0 \/ k \in 1..MaxIno
  BY <1>1
<1>4. \A x \in X: [j \in Inos |-> SubtreeRecords(s, x, j)] \in X
  BY SubtreeTypes, Zenon
<1>5. b \in X
  OBVIOUS
<1>6. \A j \in Inos: Emitted(s, j) = emit[MaxIno][j]
  BY DEF Emitted
<1> HIDE DEF X, b
<1>7. Advances(F, MaxIno, X)
  BY <1>4 DEF Advances
<1>8. \A k \in 1..MaxIno, x \in X: F[<<k, x>>] = [j \in Inos |-> SubtreeRecords(s, x, j)]
  OBVIOUS
<1> HIDE DEF F
<1>9. PICK g: Computed(g, F, MaxIno, b, X)
  BY <1>1, <1>5, <1>7, Recursion
<1>10. g \in [Inos -> X] /\ g[0] = b /\ \A k \in 1..MaxIno: g[k] = F[<<k, g[k - 1]>>]
  BY <1>1, <1>9 DEF Computed
<1>11. \A k \in 1..MaxIno: g[k] = [j \in Inos |-> SubtreeRecords(s, g[k - 1], j)]
  <2> TAKE k \in 1..MaxIno
  <2>1. g[k - 1] \in X
    BY <1>2, <1>10
  <2> QED
    BY <1>8, <1>10, <2>1, Zenon
<1> DEFINE Further(f, k) == IF k = 0 THEN b ELSE [j \in Inos |-> SubtreeRecords(s, f[k - 1], j)]
<1>12. \A f, k: [j \in Inos |->
                   IF k = 0 THEN <<>>
                   ELSE <<RecNode(s, j)>> \o
                        Joined([n \in Names |->
                          IF s[j].children[n] = NoEntry THEN <<>>
                          ELSE Append(f[k - 1][s[j].children[n]],
                                      RecLink(j, n, s[j].children[n]))])] = Further(f, k)
  BY Zenon DEF SubtreeRecords, EntryRecords, b
<1>13. \A f: Solves(f) <=> f = [k \in Inos |-> Further(f, k)]
  <2> HIDE DEF Further
  <2> QED
    BY <1>12, Zenon
<1>14. Solves(g)
  <2>1. \A k \in Inos: g[k] = Further(g, k)
    BY <1>3, <1>10, <1>11, Zenon
  <2>2. g = [k \in Inos |-> g[k]]
    BY <1>10
  <2> HIDE DEF Further
  <2>3. g = [k \in Inos |-> Further(g, k)]
    BY <2>1, <2>2, Zenon
  <2> HIDE DEF Solves
  <2> QED
    BY <1>13, <2>3
<1>15. Solves(emit)
  <2> HIDE DEF Solves
  <2> QED
    BY <1>14
<1>16. emit = [k \in Inos |-> Further(emit, k)]
  <2> HIDE DEF emit, Further, Solves
  <2> QED
    BY <1>13, <1>15
<1>17. emit = [k \in Inos |-> emit[k]] /\ \A k \in Inos: emit[k] = Further(emit, k)
  <2> HIDE DEF emit, Further
  <2> QED
    BY <1>16
<1> HIDE DEF emit, Solves
<1> DEFINE P == {k \in 0..MaxIno: emit[k] = g[k]}
<1>18. 0 \in P
  <2>1. 0 \in Inos
    BY <1>1
  <2>2. emit[0] = g[0]
    BY <1>10, <1>17, <2>1, Zenon
  <2> QED
    BY <1>1, <2>1, <2>2
<1>19. ASSUME NEW k \in 1..MaxIno, k - 1 \in P
       PROVE  k \in P
  <2>1. emit[k - 1] = g[k - 1] /\ k # 0 /\ k \in Inos
    BY <1>2, <1>19
  <2>2. emit[k] = [j \in Inos |-> SubtreeRecords(s, emit[k - 1], j)]
    BY <1>17, <2>1, Zenon
  <2>3. emit[k] = g[k]
    BY <1>11, <2>1, <2>2, Zenon
  <2> QED
    BY <1>1, <2>1, <2>3
<1>20. \A k \in 0..MaxIno: k \in P
  <2> HIDE DEF P
  <2> QED
    BY <1>1, <1>18, <1>19, Climb, Zenon
<1>21. emit[MaxIno] = g[MaxIno]
  <2>1. MaxIno \in 0..MaxIno
    BY <1>1
  <2> QED
    BY <1>20, <2>1
<1>22. \A j \in Inos: g[MaxIno][j] = Emitted(s, j)
  BY <1>6, <1>21, Zenon
<1>23. ASSUME NEW k \in 1..MaxIno, NEW j \in Inos
       PROVE  g[k][j] = SubtreeRecords(s, g[k - 1], j)
  BY <1>11, Zenon
<1>24. g \in [Inos -> [Inos -> Seq(SlabRecords)]]
  BY <1>10 DEF X
<1> QED
  BY <1>22, <1>23, <1>24, Zenon DEF Emits


\* The nodes X of s, with those of their entries that are in P, put into u.
Into(s, P, j) == {e \in P: s[e[1]].children[e[2]] = j}

Grafted(s, P, j) ==
  [kind |-> s[j].kind, persist |-> TRUE,
   nlink |-> IF j = Root THEN 0 ELSE Cardinality(Into(s, P, j)),
   opens |-> 0, data |-> s[j].data,
   children |-> [k \in Names |-> IF <<j, k>> \in P THEN s[j].children[k] ELSE NoEntry]]

Graft(s, u, X, P) == [j \in Inos |-> IF j \in X THEN Grafted(s, P, j) ELSE u[j]]

\* The entries that have been made to a node are finitely many.
LEMMA IntoIs ==
  ASSUME NEW s, NEW P \in SUBSET (Inos \X Names), NEW c
  PROVE  IsFiniteSet(Into(s, P, c)) /\ Cardinality(Into(s, P, c)) \in Nat
<1>1. IsFiniteSet(Inos \X Names)
  BY SlabNumbers, FS_Product
<1>2. Into(s, P, c) \in SUBSET (Inos \X Names)
  BY DEF Into
<1>3. IsFiniteSet(Into(s, P, c))
  BY <1>1, <1>2, FS_Subset
<1> QED
  BY <1>3, FS_CardinalityType

\* The fields of a node that has been replayed, with some of its entries.
LEMMA GraftedIs ==
  ASSUME NEW s, s \in [Inos -> NodeType], NEW P \in SUBSET (Inos \X Names), NEW j \in Inos
  PROVE  LET z == Grafted(s, P, j) IN
         /\ z \in NodeType /\ z.kind = s[j].kind /\ z.persist /\ z.opens = 0 /\ z.data = s[j].data
         /\ z.nlink = IF j = Root THEN 0 ELSE Cardinality(Into(s, P, j))
         /\ \A k \in Names: z.children[k] = IF <<j, k>> \in P THEN s[j].children[k] ELSE NoEntry
<1>1. s[j] \in NodeType
  OBVIOUS
<1>2. s[j].kind \in {"none", "file", "dir"} /\ s[j].data \in Data /\ s[j].children \in [Names -> Inos]
  BY <1>1 DEF NodeType
<1>3. (IF j = Root THEN 0 ELSE Cardinality(Into(s, P, j))) \in Nat
  BY IntoIs
<1>4. [k \in Names |-> IF <<j, k>> \in P THEN s[j].children[k] ELSE NoEntry] \in [Names -> Inos]
  BY <1>2, SlabNumbers
<1>5. Grafted(s, P, j) \in NodeType
  BY <1>2, <1>3, <1>4 DEF Grafted, NodeType
<1>6. /\ Grafted(s, P, j).kind = s[j].kind /\ Grafted(s, P, j).persist
      /\ Grafted(s, P, j).opens = 0 /\ Grafted(s, P, j).data = s[j].data
      /\ Grafted(s, P, j).nlink = IF j = Root THEN 0 ELSE Cardinality(Into(s, P, j))
  BY DEF Grafted
<1>7. \A k \in Names: Grafted(s, P, j).children[k] = IF <<j, k>> \in P THEN s[j].children[k] ELSE NoEntry
  BY DEF Grafted
<1> QED
  BY <1>5, <1>6, <1>7

\* What a graft is made of.
Graftable(s, u, X, P) ==
  /\ s \in [Inos -> NodeType] /\ WholeSlab(u) /\ X \in SUBSET Inos
  /\ P \in SUBSET (X \X Names) /\ \A j \in X: Used(s, j)

\* What has been replayed of a slab, on top of another.
LEMMA GraftIs ==
  ASSUME NEW s, NEW u, NEW X, NEW P, Graftable(s, u, X, P)
  PROVE  /\ WholeSlab(Graft(s, u, X, P)) /\ Graft(s, u, X, P) \in [Inos -> NodeType]
         /\ P \in SUBSET (Inos \X Names)
         /\ \A j \in Inos: Graft(s, u, X, P)[j] = IF j \in X THEN Grafted(s, P, j) ELSE u[j]
<1>1. P \in SUBSET (Inos \X Names)
  BY DEF Graftable
<1>2. s \in [Inos -> NodeType] /\ u \in [Inos -> NodeType] /\ \A j \in Inos: Used(u, j) \/ u[j] = Vacant
  BY SlabIs DEF Graftable, WholeSlab
<1> DEFINE G == Graft(s, u, X, P)
<1>3. G = [j \in Inos |-> G[j]] /\ \A j \in Inos: G[j] = IF j \in X THEN Grafted(s, P, j) ELSE u[j]
  BY DEF Graft
<1> HIDE DEF G
<1>4. \A j \in Inos: Grafted(s, P, j) \in NodeType /\ Grafted(s, P, j).kind = s[j].kind
  BY <1>1, <1>2, GraftedIs
<1>5. \A j \in Inos: G[j] \in NodeType
  BY <1>2, <1>3, <1>4
<1>6. G \in [Inos -> NodeType]
  BY <1>3, <1>5
<1>7. ASSUME NEW j \in Inos
      PROVE  Used(G, j) \/ G[j] = Vacant
  <2>1. CASE j \in X
    <3>1. G[j].kind = s[j].kind /\ s[j].kind # "none"
      BY <1>3, <1>4, <2>1 DEF Graftable, Used
    <3> QED
      BY <3>1 DEF Used
  <2>2. CASE j \notin X
    BY <1>2, <1>3, <2>2 DEF Used
  <2> QED
    BY <2>1, <2>2
<1>8. WholeSlab(G)
  BY <1>6, <1>7, SlabIs DEF WholeSlab
<1> QED
  BY <1>1, <1>3, <1>6, <1>8 DEF G

\* A record of a node adds the node.
LEMMA GraftNode ==
  ASSUME NEW s, NEW u, NEW X, NEW P, Graftable(s, u, X, P),
         NEW j \in Inos \ {Root}, j \notin X, Used(s, j), u[j] = Vacant, Into(s, P, j) = {}
  PROVE  /\ Run(Graft(s, u, X, P), <<RecNode(s, j)>>, Graft(s, u, X \cup {j}, P))
         /\ Graftable(s, u, X \cup {j}, P)
<1> DEFINE Y == X \cup {j}
           G == Graft(s, u, X, P)
           H == Graft(s, u, Y, P)
           x == Node(s[j].kind, TRUE, s[j].data)
<1>1. Graftable(s, u, Y, P)
  BY DEF Graftable
<1> HIDE DEF Y
<1>2. /\ WholeSlab(G) /\ G \in [Inos -> NodeType]
      /\ \A i \in Inos: G[i] = IF i \in X THEN Grafted(s, P, i) ELSE u[i]
  BY GraftIs
<1>3. /\ H \in [Inos -> NodeType] /\ P \in SUBSET (Inos \X Names)
      /\ \A i \in Inos: H[i] = IF i \in Y THEN Grafted(s, P, i) ELSE u[i]
  BY <1>1, GraftIs
<1>4. s \in [Inos -> NodeType] /\ s[j].kind \in {"none", "file", "dir"} /\ s[j].data \in Data
  BY DEF Graftable, NodeType
<1> HIDE DEF G, H
<1>5. ~Used(G, j)
  <2>1. G[j] = Vacant
    BY <1>2
  <2> QED
    BY <2>1, VacantIs DEF Used
<1>6. Run(G, <<RecNode(s, j)>>, [G EXCEPT ![j] = x])
  BY <1>2, <1>4, <1>5, PlaceRun, Zenon
<1>7. x = Grafted(s, P, j)
  <2> DEFINE y == Grafted(s, P, j)
  <2>1. /\ x \in NodeType /\ x.kind = s[j].kind /\ x.persist /\ x.nlink = 0 /\ x.opens = 0
        /\ x.data = s[j].data /\ x.children = NoNames
    <3> DEFINE kind == s[j].kind
               data == s[j].data
    <3>1. kind \in {"none", "file", "dir"} /\ data \in Data /\ x = Node(kind, TRUE, data)
      BY <1>4
    <3> HIDE DEF kind, data, x
    <3> DEFINE z == Node(kind, TRUE, data)
    <3>2. /\ z \in NodeType /\ z.kind = kind /\ z.persist /\ z.nlink = 0 /\ z.opens = 0
          /\ z.data = data /\ z.children = NoNames
      <4>1. kind \in {"none", "file", "dir"} /\ data \in Data
        BY <3>1
      <4>2. NoNames \in [Names -> Inos]
        BY VacantIs
      <4> QED
        BY <4>1, <4>2 DEF Node, NodeType, NoNames
    <3> HIDE DEF z
    <3>3. x = z
      BY <3>1 DEF z
    <3> QED
      BY <3>2, <3>3, Zenon DEF kind, data
  <2>2. /\ y \in NodeType /\ y.kind = s[j].kind /\ y.persist /\ y.opens = 0 /\ y.data = s[j].data
        /\ y.nlink = IF j = Root THEN 0 ELSE Cardinality(Into(s, P, j))
        /\ \A k \in Names: y.children[k] = IF <<j, k>> \in P THEN s[j].children[k] ELSE NoEntry
    BY <1>3, <1>4, GraftedIs, Zenon
  <2>3. Cardinality(Into(s, P, j)) = 0
    BY FS_EmptySet
  <2>4. \A k \in Names: <<j, k>> \notin P
    BY DEF Graftable
  <2> HIDE DEF x, y
  <2>5. y.nlink = 0 /\ \A k \in Names: y.children[k] = NoEntry
    BY <2>2, <2>3, <2>4, Zenon
  <2>6. \A k \in Names: x.children[k] = NoEntry
    BY <2>1 DEF NoNames
  <2>7. x.persist = y.persist
    BY <2>1, <2>2 DEF NodeType
  <2>8. x = y
    BY <2>1, <2>2, <2>5, <2>6, <2>7, SameNode, ZenonT(40)
  <2> QED
    BY <2>8 DEF y
<1> HIDE DEF x
<1>8. [G EXCEPT ![j] = x] = H
  <2>1. \A i \in Inos: [G EXCEPT ![j] = x][i] = H[i]
    BY <1>2, <1>3, <1>7 DEF Y
  <2>2. H = [i \in Inos |-> H[i]] /\ G = [i \in Inos |-> G[i]]
    BY <1>2, <1>3
  <2> QED
    BY <2>1, <2>2
<1> QED
  BY <1>1, <1>6, <1>8, Zenon DEF G, H, Y

\* A record of a link adds the entry.
LEMMA GraftLink ==
  ASSUME NEW s, NEW u, NEW X, NEW P, Graftable(s, u, X, P),
         NEW j \in X, NEW n \in Names, <<j, n>> \notin P, s[j].kind = "dir",
         s[j].children[n] # NoEntry, s[j].children[n] # j, s[j].children[n] \in X
  PROVE  /\ Run(Graft(s, u, X, P), <<RecLink(j, n, s[j].children[n])>>, Graft(s, u, X, P \cup {<<j, n>>}))
         /\ Graftable(s, u, X, P \cup {<<j, n>>})
<1> DEFINE c == s[j].children[n]
           Q == P \cup {<<j, n>>}
           G == Graft(s, u, X, P)
           H == Graft(s, u, X, Q)
<1>1. Graftable(s, u, X, Q)
  BY DEF Graftable
<1> HIDE DEF Q
<1>2. /\ WholeSlab(G) /\ G \in [Inos -> NodeType] /\ P \in SUBSET (Inos \X Names)
      /\ \A i \in Inos: G[i] = IF i \in X THEN Grafted(s, P, i) ELSE u[i]
  BY GraftIs
<1>3. /\ H \in [Inos -> NodeType] /\ Q \in SUBSET (Inos \X Names)
      /\ \A i \in Inos: H[i] = IF i \in X THEN Grafted(s, Q, i) ELSE u[i]
  BY <1>1, GraftIs
<1>4. s \in [Inos -> NodeType] /\ j \in Inos /\ c \in Inos \ {Root} /\ c # j /\ X \subseteq Inos
  BY DEF Graftable, Root, NoEntry
<1> HIDE DEF G, H
<1>5. ASSUME NEW i \in X
      PROVE  LET y == G[i]
                 z == H[i] IN
             /\ y \in NodeType /\ z \in NodeType /\ y.kind = z.kind /\ y.persist = z.persist
             /\ y.opens = z.opens /\ y.data = z.data
             /\ y.kind = s[i].kind /\ z.kind = s[i].kind
             /\ y.nlink = (IF i = Root THEN 0 ELSE Cardinality(Into(s, P, i)))
             /\ z.nlink = (IF i = Root THEN 0 ELSE Cardinality(Into(s, Q, i)))
             /\ \A k \in Names: y.children[k] = IF <<i, k>> \in P THEN s[i].children[k] ELSE NoEntry
             /\ \A k \in Names: z.children[k] = IF <<i, k>> \in Q THEN s[i].children[k] ELSE NoEntry
  <2> DEFINE y == G[i]
             z == H[i]
  <2>1. i \in Inos /\ y = Grafted(s, P, i) /\ z = Grafted(s, Q, i)
    BY <1>2, <1>3, <1>4
  <2> HIDE DEF y, z
  <2>2. /\ y \in NodeType /\ y.kind = s[i].kind /\ y.persist /\ y.opens = 0 /\ y.data = s[i].data
        /\ y.nlink = IF i = Root THEN 0 ELSE Cardinality(Into(s, P, i))
        /\ \A k \in Names: y.children[k] = IF <<i, k>> \in P THEN s[i].children[k] ELSE NoEntry
    BY <1>2, <1>4, <2>1, GraftedIs
  <2>3. /\ z \in NodeType /\ z.kind = s[i].kind /\ z.persist /\ z.opens = 0 /\ z.data = s[i].data
        /\ z.nlink = IF i = Root THEN 0 ELSE Cardinality(Into(s, Q, i))
        /\ \A k \in Names: z.children[k] = IF <<i, k>> \in Q THEN s[i].children[k] ELSE NoEntry
    BY <1>3, <1>4, <2>1, GraftedIs
  <2>4. y.persist = z.persist
    BY <2>2, <2>3 DEF NodeType
  <2> QED
    BY <2>2, <2>3, <2>4 DEF y, z
<1>6. Into(s, Q, c) = Into(s, P, c) \cup {<<j, n>>} /\ <<j, n>> \notin Into(s, P, c)
  BY DEF Into, Q
<1>7. Cardinality(Into(s, Q, c)) = Cardinality(Into(s, P, c)) + 1
  <2>1. IsFiniteSet(Into(s, P, c))
    BY <1>2, IntoIs
  <2> QED
    BY <1>6, <2>1, FS_AddElement, Zenon
<1>8. \A i \in Inos: i # c => Into(s, Q, i) = Into(s, P, i)
  BY DEF Into, Q
<1> HIDE DEF c
<1>9. G[j].kind = "dir" /\ Used(G, c) /\ G[j].children[n] = NoEntry
  <2>1. G[c].kind = s[c].kind /\ s[c].kind # "none"
    BY <1>5 DEF Graftable, Used, c
  <2> QED
    BY <1>5, <2>1 DEF Used
<1>10. Run(G, <<RecLink(j, n, c)>>, LinkEdit(G, j, n, c))
  BY <1>2, <1>4, <1>9, LinkRun
<1> DEFINE L == LinkEdit(G, j, n, c)
<1>11. L = [i \in Inos |-> L[i]] /\ \A i \in Inos: L[i] = IF i = j THEN Named(G[i], n, c)
                                                         ELSE IF i = c THEN Raised(G[i]) ELSE G[i]
  BY <1>4, <1>9 DEF LinkEdit
<1> HIDE DEF L
<1>12. ASSUME NEW i \in Inos
       PROVE  L[i] = H[i]
  <2>1. CASE i = j
    <3> DEFINE y == G[j]
               z == H[j]
               w == L[j]
    <3>1. w = Named(y, n, c)
      BY <1>4, <1>11
    <3>2. Into(s, Q, j) = Into(s, P, j)
      BY <1>4, <1>8
    <3>3. /\ y \in NodeType /\ z \in NodeType /\ y.kind = z.kind /\ y.persist = z.persist
          /\ y.opens = z.opens /\ y.data = z.data
      BY <1>5
    <3>4. y.nlink = z.nlink
      BY <1>5, <3>2
    <3>5. \A k \in Names: y.children[k] = IF <<j, k>> \in P THEN s[j].children[k] ELSE NoEntry
      BY <1>5
    <3>6. \A k \in Names: z.children[k] = IF <<j, k>> \in Q THEN s[j].children[k] ELSE NoEntry
      BY <1>5
    <3> HIDE DEF y, z, w
    <3>7. /\ w.kind = y.kind /\ w.persist = y.persist /\ w.nlink = y.nlink
          /\ w.data = y.data /\ w.opens = y.opens
      BY <1>4, <3>1, <3>3, Fields
    <3>8. w \in NodeType
      BY <1>4, <3>1, <3>3, NodeTypes
    <3>9. \A k \in Names: w.children[k] = IF k = n THEN c ELSE y.children[k]
      BY <1>4, <3>1, <3>3, Fields
    <3>10. \A k \in Names: w.children[k] = z.children[k]
      BY <3>5, <3>6, <3>9, Zenon DEF Q, c
    <3>11. w.persist = z.persist
      BY <3>3, <3>7, Zenon
    <3>12. w = z
      BY <3>3, <3>4, <3>7, <3>8, <3>10, <3>11, SameNode
    <3> QED
      BY <2>1, <3>12 DEF w, z
  <2>2. CASE i = c
    <3> DEFINE y == G[c]
               z == H[c]
               w == L[c]
    <3>1. w = Raised(y)
      BY <1>4, <1>11
    <3>0. c \in X
      BY DEF c
    <3>3. /\ y \in NodeType /\ z \in NodeType /\ y.kind = z.kind /\ y.persist = z.persist
          /\ y.opens = z.opens /\ y.data = z.data
      BY <1>5, <3>0
    <3>4. z.nlink = y.nlink + 1
      BY <1>4, <1>5, <1>7, <3>0
    <3>5. \A k \in Names: y.children[k] = IF <<c, k>> \in P THEN s[c].children[k] ELSE NoEntry
      BY <1>5, <3>0
    <3>6. \A k \in Names: z.children[k] = IF <<c, k>> \in Q THEN s[c].children[k] ELSE NoEntry
      BY <1>5, <3>0
    <3> HIDE DEF y, z, w
    <3>7. /\ w.kind = y.kind /\ w.persist = y.persist /\ w.nlink = y.nlink + 1
          /\ w.data = y.data /\ w.opens = y.opens /\ w.children = y.children
      BY <1>4, <3>1, <3>3, SlabNumbers, Fields
    <3>8. w \in NodeType
      BY <3>1, <3>3, NodeTypes
    <3>10. \A k \in Names: w.children[k] = z.children[k]
      BY <1>4, <3>5, <3>6, <3>7, Zenon DEF Q
    <3>11. w.persist = z.persist
      BY <3>3, <3>7, Zenon
    <3>12. w = z
      BY <3>3, <3>4, <3>7, <3>8, <3>10, <3>11, SameNode
    <3> QED
      BY <2>2, <3>12 DEF w, z
  <2>3. CASE i \notin {j, c}
    <3>1. L[i] = G[i]
      BY <1>11, <2>3
    <3>2. CASE i \in X
      <4>1. Into(s, Q, i) = Into(s, P, i)
        BY <1>8, <2>3
      <4>2. \A k \in Names: <<i, k>> \in Q <=> <<i, k>> \in P
        BY <2>3 DEF Q
      <4>3. G[i].nlink = H[i].nlink
        BY <1>5, <3>2, <4>1
      <4>4. \A k \in Names: G[i].children[k] = H[i].children[k]
        <5> TAKE k \in Names
        <5>1. G[i].children[k] = IF <<i, k>> \in P THEN s[i].children[k] ELSE NoEntry
          BY <1>5, <3>2
        <5>2. H[i].children[k] = IF <<i, k>> \in Q THEN s[i].children[k] ELSE NoEntry
          BY <1>5, <3>2
        <5> QED
          BY <4>2, <5>1, <5>2
      <4>5. /\ G[i] \in NodeType /\ H[i] \in NodeType /\ G[i].kind = H[i].kind
            /\ G[i].persist = H[i].persist /\ G[i].opens = H[i].opens /\ G[i].data = H[i].data
        BY <1>5, <3>2
      <4>6. G[i] = H[i]
        BY <4>3, <4>4, <4>5, SameNode
      <4> QED
        BY <3>1, <4>6
    <3>3. CASE i \notin X
      BY <1>2, <1>3, <3>1, <3>3
    <3> QED
      BY <3>2, <3>3
  <2> QED
    BY <2>1, <2>2, <2>3
<1>13. L = H
  <2>1. H = [i \in Inos |-> H[i]]
    BY <1>3
  <2> QED
    BY <1>11, <1>12, <2>1
<1> QED
  BY <1>1, <1>10, <1>13, Zenon DEF G, H, L, Q, c

\* An entry that is not there adds nothing.
LEMMA GraftNothing ==
  ASSUME NEW s, NEW u, NEW X, NEW P, Graftable(s, u, X, P),
         NEW Q, Graftable(s, u, X, Q), P \subseteq Q,
         \A e \in Q \ P: s[e[1]].children[e[2]] = NoEntry
  PROVE  Graft(s, u, X, Q) = Graft(s, u, X, P)
<1>1. ASSUME NEW j \in Inos
      PROVE  Grafted(s, Q, j) = Grafted(s, P, j)
  <2>1. j # Root => Into(s, Q, j) = Into(s, P, j)
    BY DEF Into, Root, NoEntry
  <2>2. ASSUME NEW k \in Names
        PROVE  (IF <<j, k>> \in Q THEN s[j].children[k] ELSE NoEntry) =
               (IF <<j, k>> \in P THEN s[j].children[k] ELSE NoEntry)
    OBVIOUS
  <2>3. (IF j = Root THEN 0 ELSE Cardinality(Into(s, Q, j))) =
        (IF j = Root THEN 0 ELSE Cardinality(Into(s, P, j)))
    BY <2>1
  <2>4. [k \in Names |-> IF <<j, k>> \in Q THEN s[j].children[k] ELSE NoEntry] =
        [k \in Names |-> IF <<j, k>> \in P THEN s[j].children[k] ELSE NoEntry]
    BY <2>2
  <2> QED
    BY <2>3, <2>4, Zenon DEF Grafted
<1>2. \A j \in Inos: (IF j \in X THEN Grafted(s, Q, j) ELSE u[j]) =
                     (IF j \in X THEN Grafted(s, P, j) ELSE u[j])
  BY <1>1
<1> QED
  BY <1>2 DEF Graft


\* What is below different entries of a node is different, if it has one name each.
LEMMA Apart ==
  ASSUME NEW s, Shapes(s), SlabSound(s), Tree(s), NEW j \in Inos, NEW n \in Names, NEW k \in Names,
         n # k, s[j].children[n] # NoEntry, s[j].children[k] # NoEntry,
         \A x \in Below(s, s[j].children[n]): s[x].nlink <= 1
  PROVE  Below(s, s[j].children[n]) \cap Below(s, s[j].children[k]) = {}
<1> DEFINE c == s[j].children[n]
           b == s[j].children[k]
           C == Below(s, c)
           D == Below(s, b)
           Z == D \ C
<1>1. s \in Slab /\ c \in Inos \ {Root} /\ b \in Inos \ {Root}
  BY NamedUsed DEF Shapes
<1>2. /\ C \in SUBSET Inos /\ c \in C /\ Closed(s, C)
      /\ D \in SUBSET Inos /\ b \in D /\ Closed(s, D)
      /\ \A X: b \in X /\ Closed(s, X) => D \subseteq X
  BY <1>1, BelowIs
<1>3. j \notin C /\ j \notin D
  BY NoLoop
<1>4. \A x \in C: s[x].nlink <= 1
  OBVIOUS
<1> HIDE DEF C, D
\* What is in C, and is the entry of something other than j, is the entry of something in C.
<1>5. ASSUME NEW x \in C, NEW y \in Inos, NEW m \in Names, s[y].children[m] = x, <<y, m>> # <<j, n>>
      PROVE  y \in C /\ x # c /\ x \in Inos \ {Root}
  <2>1. x \in Inos \ {Root}
    <3>1. CASE x = c
      BY <1>1, <3>1
    <3>2. CASE x # c
      <4>1. PICK w \in C: x \in Children(s, w)
        BY <1>1, <3>2, BelowParent DEF C
      <4> QED
        BY <1>1, <1>2, <4>1, ChildrenAre
    <3> QED
      BY <3>1, <3>2
  <2>2. x # c
    BY <1>4, <1>5, <2>1, OneName
  <2>3. PICK w \in C: x \in Children(s, w)
    BY <1>1, <2>2, BelowParent DEF C
  <2>4. w \in Inos
    BY <1>2
  <2>5. PICK q \in Names: s[w].children[q] = x
    BY <1>1, <2>1, <2>3, <2>4, ChildrenAre
  <2>6. w = y
    BY <1>4, <1>5, <2>1, <2>4, <2>5, OneName
  <2> QED
    BY <2>1, <2>2, <2>6
<1>6. b \notin C
  BY <1>3, <1>5
<1>7. Closed(s, Z)
  <2>1. ASSUME NEW y \in Z, NEW x \in Children(s, y)
        PROVE  x \in Z
    <3>1. y \in Inos /\ x \in D /\ x \in Inos
      BY <1>1, <1>2, ChildrenAre DEF Closed
    <3>2. PICK m \in Names: s[y].children[m] = x
      BY <1>1, <3>1, ChildrenAre
    <3>3. y # j
      BY <1>3
    <3>4. x \notin C
      BY <1>5, <3>1, <3>2, <3>3
    <3> QED
      BY <3>1, <3>4
  <2> QED
    BY <2>1 DEF Closed
<1>8. D \subseteq Z
  BY <1>2, <1>6, <1>7
<1> QED
  BY <1>8 DEF C, D

\* What is below a node is the node, and what is below its entries.
LEMMA BelowParts ==
  ASSUME NEW s, Shapes(s), SlabSound(s), Tree(s), NEW j \in Inos
  PROVE  /\ \A n \in Names: s[j].children[n] # NoEntry =>
              /\ Below(s, s[j].children[n]) \subseteq Below(s, j)
              /\ j \notin Below(s, s[j].children[n])
         /\ \A x \in Below(s, j): x # j =>
              \E n \in Names: s[j].children[n] # NoEntry /\ x \in Below(s, s[j].children[n])
<1>1. s \in Slab /\ Below(s, j) \in SUBSET Inos /\ j \in Below(s, j) /\ Closed(s, Below(s, j))
  BY BelowIs DEF Shapes
<1>2. ASSUME NEW n \in Names, s[j].children[n] # NoEntry
      PROVE  /\ Below(s, s[j].children[n]) \subseteq Below(s, j) /\ j \notin Below(s, s[j].children[n])
             /\ s[j].children[n] \in Below(s, s[j].children[n])
             /\ Closed(s, Below(s, s[j].children[n]))
  <2> DEFINE c == s[j].children[n]
  <2>1. c \in Inos
    BY <1>2, NamedUsed
  <2>2. c \in Children(s, j)
    BY <1>1, <1>2, <2>1, ChildrenAre
  <2>3. c \in Below(s, j)
    BY <1>1, <2>2 DEF Closed
  <2>4. \A X: c \in X /\ Closed(s, X) => Below(s, c) \subseteq X
    BY <1>1, <2>1, BelowIs
  <2>5. c \in Below(s, c) /\ Closed(s, Below(s, c))
    BY <1>1, <2>1, BelowIs
  <2>6. j \notin Below(s, c)
    BY <1>2, NoLoop
  <2> HIDE DEF c
  <2>7. Below(s, c) \subseteq Below(s, j)
    BY <1>1, <2>3, <2>4
  <2> QED
    BY <2>5, <2>6, <2>7 DEF c
<1> DEFINE X == {x \in Below(s, j): x = j \/
                   \E n \in Names: s[j].children[n] # NoEntry /\ x \in Below(s, s[j].children[n])}
<1>3. Closed(s, X)
  <2>1. ASSUME NEW x \in X, NEW y \in Children(s, x)
        PROVE  y \in X
    <3>1. x \in Below(s, j) /\ y \in Below(s, j)
      BY <1>1 DEF Closed
    <3>2. CASE x = j
      <4>1. y \in Inos
        BY <1>1, <3>1
      <4>2. PICK n \in Names: s[j].children[n] = y /\ y # NoEntry
        BY <1>1, <3>2, <4>1, ChildrenAre
      <4>3. y \in Below(s, s[j].children[n])
        BY <1>2, <4>2
      <4> QED
        BY <3>1, <4>2, <4>3
    <3>3. CASE x # j
      <4>1. PICK n \in Names: s[j].children[n] # NoEntry /\ x \in Below(s, s[j].children[n])
        BY <3>3
      <4>2. y \in Below(s, s[j].children[n])
        BY <1>2, <4>1 DEF Closed
      <4> QED
        BY <3>1, <4>1, <4>2
    <3> QED
      BY <3>2, <3>3
  <2> QED
    BY <2>1 DEF Closed
<1>4. j \in X
  BY <1>1
<1>5. \A Y: j \in Y /\ Closed(s, Y) => Below(s, j) \subseteq Y
  BY <1>1, BelowIs
<1>6. Below(s, j) \subseteq X
  <2> HIDE DEF X
  <2> QED
    BY <1>3, <1>4, <1>5
<1> QED
  BY <1>2, <1>6

\* The subtree Y can be added to a graft.
Ready(s, u, X, Q, Y) ==
  /\ Graftable(s, u, X, Q)
  /\ \A x \in Y: /\ x \notin X /\ x # Root /\ u[x] = Vacant
                 /\ Used(s, x) /\ s[x].nlink <= 1 /\ Into(s, Q, x) = {}

\* The records of f for j add what is below j.
EmitsAt(s, u, f, j) ==
  \A X \in SUBSET Inos, Q \in SUBSET (Inos \X Names): Ready(s, u, X, Q, Below(s, j)) =>
    Run(Graft(s, u, X, Q), f[j],
        Graft(s, u, X \cup Below(s, j), Q \cup (Below(s, j) \X Names)))

\* What is there when j and its first n entries are done.
Under(s, j, n) ==
  {x \in Inos: \E q \in Names: q <= n /\ s[j].children[q] # NoEntry /\ x \in Below(s, s[j].children[q])}
PartNodes(s, X, j, n) == X \cup {j} \cup Under(s, j, n)
PartEntries(s, Q, j, n) == Q \cup (Under(s, j, n) \X Names) \cup {e \in {j} \X Names: e[2] <= n}

\* What is below the first n names of a directory.
LEMMA UnderIs ==
  ASSUME NEW s, Shapes(s), SlabSound(s), Tree(s), NEW j \in Inos
  PROVE  /\ Under(s, j, 0) = {} /\ {j} \cup Under(s, j, NameCount) = Below(s, j)
         /\ \A n \in Names: /\ Under(s, j, n) \subseteq Below(s, j) /\ j \notin Under(s, j, n)
                            /\ Under(s, j, n - 1) \subseteq Below(s, j) /\ j \notin Under(s, j, n - 1)
         /\ \A n \in Names: Under(s, j, n) =
              Under(s, j, n - 1) \cup
                (IF s[j].children[n] = NoEntry THEN {} ELSE Below(s, s[j].children[n]))
<1>1. s \in Slab /\ Below(s, j) \in SUBSET Inos /\ j \in Below(s, j)
  BY BelowIs DEF Shapes
<1>2. \A n \in Names: n \in Nat /\ n >= 1 /\ n <= NameCount
  BY SlabNumbers DEF Names
<1>3. /\ \A n \in Names: s[j].children[n] # NoEntry =>
           /\ Below(s, s[j].children[n]) \subseteq Below(s, j)
           /\ j \notin Below(s, s[j].children[n])
      /\ \A x \in Below(s, j): x # j =>
           \E n \in Names: s[j].children[n] # NoEntry /\ x \in Below(s, s[j].children[n])
  BY BelowParts
<1>4. Under(s, j, 0) = {}
  BY <1>2 DEF Under
<1>5. {j} \cup Under(s, j, NameCount) = Below(s, j)
  BY <1>1, <1>2, <1>3 DEF Under
<1>6. \A n: Under(s, j, n) \subseteq Below(s, j) /\ j \notin Under(s, j, n)
  BY <1>3 DEF Under
<1>7. ASSUME NEW n \in Names
      PROVE  Under(s, j, n) = Under(s, j, n - 1) \cup
               (IF s[j].children[n] = NoEntry THEN {} ELSE Below(s, s[j].children[n]))
  <2>1. \A q \in Names: q <= n <=> (q <= n - 1 \/ q = n)
    BY <1>2
  <2>2. s[j].children[n] # NoEntry => Below(s, s[j].children[n]) \subseteq Inos
    BY <1>1, <1>3
  <2> QED
    BY <2>1, <2>2 DEF Under
<1> QED
  BY <1>4, <1>5, <1>6, <1>7

\* A record at the end.
LEMMA AppendIs ==
  ASSUME NEW a \in Seq(SlabRecords), NEW r \in SlabRecords
  PROVE  Append(a, r) = a \o <<r>>
OBVIOUS

\* Replay of what emit_subtree says of one entry: the subtree below it, then the entry.
LEMMA EmitEntry ==
  ASSUME NEW s, Shapes(s), SlabSound(s), Tree(s), NEW u, NEW j \in Inos, NEW n \in Names,
         NEW X \in SUBSET Inos, NEW Q \in SUBSET (Inos \X Names), Ready(s, u, X, Q, Below(s, j)),
         NEW f, s[j].children[n] # NoEntry => EmitsAt(s, u, f, s[j].children[n])
  PROVE  Run(Graft(s, u, PartNodes(s, X, j, n - 1), PartEntries(s, Q, j, n - 1)),
             EntryRecords(s, f, j, n),
             Graft(s, u, PartNodes(s, X, j, n), PartEntries(s, Q, j, n)))
<1> DEFINE c == s[j].children[n]
           C == Below(s, c)
           U == Under(s, j, n - 1)
           V == PartNodes(s, X, j, n - 1)
           R == PartEntries(s, Q, j, n - 1)
           V2 == PartNodes(s, X, j, n)
           R2 == PartEntries(s, Q, j, n)
<1>1. s \in [Inos -> NodeType] /\ s \in Slab /\ WholeSlab(u) /\ Graftable(s, u, X, Q)
      /\ Q \in SUBSET (X \X Names) /\ \A x \in X: Used(s, x)
  BY ShapesAre, SlabIs DEF Ready, Graftable
<1>2. /\ Below(s, j) \in SUBSET Inos /\ j \in Below(s, j) /\ Closed(s, Below(s, j))
  BY <1>1, BelowIs
<1>3. \A x \in Below(s, j): /\ x \notin X /\ x # Root /\ u[x] = Vacant
                            /\ Used(s, x) /\ s[x].nlink <= 1 /\ Into(s, Q, x) = {}
  BY DEF Ready
<1>4. n \in Nat /\ \A q \in Names: q \in Nat /\ (q <= n <=> (q <= n - 1 \/ q = n))
  BY SlabNumbers DEF Names
<1>5. /\ U \subseteq Below(s, j) /\ j \notin U
      /\ Under(s, j, n) = U \cup (IF c = NoEntry THEN {} ELSE C)
      /\ Under(s, j, n) \subseteq Below(s, j)
  BY UnderIs
<1> HIDE DEF U, C
<1>6. V = X \cup {j} \cup U /\ R = Q \cup (U \X Names) \cup {e \in {j} \X Names: e[2] <= n - 1}
  BY DEF PartNodes, PartEntries, U
<1>7. /\ V2 = V \cup (IF c = NoEntry THEN {} ELSE C)
      /\ R2 = R \cup (IF c = NoEntry THEN {} ELSE C \X Names) \cup {<<j, n>>}
  <2>1. {e \in {j} \X Names: e[2] <= n} = {e \in {j} \X Names: e[2] <= n - 1} \cup {<<j, n>>}
    <3>1. ASSUME NEW e \in {j} \X Names
          PROVE  e[2] <= n <=> e[2] <= n - 1 \/ e = <<j, n>>
      <4>1. e = <<j, e[2]>> /\ e[2] \in Names
        OBVIOUS
      <4>2. e[2] <= n <=> e[2] <= n - 1 \/ e[2] = n
        BY <1>4, <4>1, Zenon
      <4> QED
        BY <4>1, <4>2
    <3>2. <<j, n>> \in {j} \X Names
      OBVIOUS
    <3> QED
      BY <3>1, <3>2
  <2>2. V2 = X \cup {j} \cup (U \cup (IF c = NoEntry THEN {} ELSE C))
    BY <1>5 DEF PartNodes
  <2>3. R2 = Q \cup ((U \cup (IF c = NoEntry THEN {} ELSE C)) \X Names)
               \cup ({e \in {j} \X Names: e[2] <= n - 1} \cup {<<j, n>>})
    BY <1>5, <2>1, Zenon DEF PartEntries
  <2> HIDE DEF V, R, V2, R2
  <2>4. V2 = V \cup (IF c = NoEntry THEN {} ELSE C)
    BY <1>6, <2>2
  <2>5. R2 = R \cup (IF c = NoEntry THEN {} ELSE C \X Names) \cup {<<j, n>>}
    <3>1. CASE c = NoEntry
      BY <1>6, <2>3, <3>1
    <3>2. CASE c # NoEntry
      BY <1>6, <2>3, <3>2
    <3> QED
      BY <3>1, <3>2
  <2> QED
    BY <2>4, <2>5
<1> HIDE DEF V, R, V2, R2
<1>8. Graftable(s, u, V, R)
  <2>1. V \in SUBSET Inos /\ \A x \in V: Used(s, x)
    BY <1>1, <1>2, <1>3, <1>5, <1>6
  <2>2. R \in SUBSET (V \X Names)
    BY <1>1, <1>6
  <2> QED
    BY <1>1, <2>1, <2>2 DEF Graftable
<1>9. <<j, n>> \notin R
  <2>1. <<j, n>> \notin Q
    BY <1>1, <1>2, <1>3
  <2> QED
    BY <1>4, <1>5, <1>6, <2>1
<1>10. CASE c = NoEntry
  <2>1. V2 = V /\ R2 = R \cup {<<j, n>>}
    BY <1>7, <1>10
  <2>2. Graftable(s, u, V, R2)
    BY <1>6, <1>8, <2>1 DEF Graftable
  <2>3. Graft(s, u, V, R2) = Graft(s, u, V, R)
    <3>1. \A e \in R2 \ R: s[e[1]].children[e[2]] = NoEntry
      BY <1>10, <2>1
    <3>2. R \subseteq R2
      BY <2>1
    <3> QED
      BY <1>8, <2>2, <3>1, <3>2, GraftNothing
  <2>4. EntryRecords(s, f, j, n) = <<>>
    BY <1>10 DEF EntryRecords
  <2>5. Run(Graft(s, u, V, R), <<>>, Graft(s, u, V, R))
    BY RunNone
  <2> QED
    BY <2>1, <2>3, <2>4, <2>5, Zenon DEF V, R, V2, R2
<1>11. CASE c # NoEntry
  <2>1. c \in Inos \ {Root} /\ s[j].kind = "dir"
    BY <1>11, NamedUsed
  <2>2. /\ C \in SUBSET Inos /\ c \in C /\ Closed(s, C) /\ C \subseteq Below(s, j) /\ j \notin C
    BY <1>1, <1>2, <1>11, <2>1, BelowIs, BelowParts DEF C
  <2>3. \A x \in C: s[x].nlink <= 1
    BY <1>3, <2>2
  \* What is under the entries before this one is not below it.
  <2>4. ASSUME NEW q \in Names, q <= n - 1, s[j].children[q] # NoEntry
        PROVE  C \cap Below(s, s[j].children[q]) = {}
    BY <1>4, <1>11, <2>3, <2>4, Apart DEF C
  <2>5. ASSUME NEW x \in C
        PROVE  x \notin V /\ Into(s, R, x) = {}
    <3>1. x \in Below(s, j) /\ x # j /\ x \in Inos
      BY <2>2
    <3>2. x \notin U
      BY <2>4 DEF U, Under
    <3>3. x \notin V
      BY <1>3, <1>6, <3>1, <3>2
    <3>4. ASSUME NEW e \in R
          PROVE  s[e[1]].children[e[2]] # x
      <4>1. CASE e \in Q
        BY <1>3, <3>1, <4>1 DEF Into
      <4>2. CASE e \in U \X Names
        <5>1. e[1] \in U /\ e[2] \in Names /\ e[1] \in Inos
          BY <1>2, <1>5, <4>2
        <5>2. PICK q \in Names: /\ q <= n - 1 /\ s[j].children[q] # NoEntry
                                /\ e[1] \in Below(s, s[j].children[q])
          BY <5>1 DEF U, Under
        <5>3. SUFFICES ASSUME s[e[1]].children[e[2]] = x
                       PROVE  FALSE
          OBVIOUS
        <5>4. x \in Children(s, e[1])
          <6>1. x # NoEntry
            BY <1>3, <3>1 DEF Root, NoEntry
          <6> QED
            BY <1>1, <3>1, <5>1, <5>3, <6>1, ChildrenAre
        <5>5. s[j].children[q] \in Inos
          BY <5>2, NamedUsed
        <5>6. Closed(s, Below(s, s[j].children[q]))
          BY <1>1, <5>5, BelowIs
        <5>7. x \in Below(s, s[j].children[q])
          BY <5>2, <5>4, <5>6 DEF Closed
        <5> QED
          BY <2>4, <5>2, <5>7
      <4>3. CASE e \in {g \in {j} \X Names: g[2] <= n - 1}
        <5>1. e[1] = j /\ e[2] \in Names /\ e[2] <= n - 1
          BY <4>3
        <5>2. SUFFICES ASSUME s[j].children[e[2]] = x
                       PROVE  FALSE
          BY <5>1
        <5>3. s[j].children[e[2]] # NoEntry
          BY <1>3, <3>1, <5>2 DEF Root, NoEntry
        <5>4. x \in Below(s, x)
          BY <1>1, <3>1, BelowIs
        <5> QED
          BY <2>4, <5>1, <5>2, <5>3, <5>4
      <4> QED
        BY <1>6, <4>1, <4>2, <4>3
    <3>5. Into(s, R, x) = {}
      BY <3>4 DEF Into
    <3> QED
      BY <3>3, <3>5
  <2>6. Ready(s, u, V, R, C)
    BY <1>3, <1>8, <2>2, <2>3, <2>5 DEF Ready
  <2>7. Run(Graft(s, u, V, R), f[c], Graft(s, u, V \cup C, R \cup (C \X Names)))
    <3>1. V \in SUBSET Inos /\ R \in SUBSET (Inos \X Names)
      BY <1>8 DEF Graftable
    <3> QED
      BY <1>11, <2>6, <3>1 DEF EmitsAt, C
  <2> DEFINE W == V \cup C
             S == R \cup (C \X Names)
  <2>8. Graftable(s, u, W, S)
    <3>1. W \in SUBSET Inos /\ \A x \in W: Used(s, x)
      BY <1>3, <1>8, <2>2 DEF Graftable
    <3>2. S \in SUBSET (W \X Names)
      BY <1>8 DEF Graftable
    <3> QED
      BY <1>1, <3>1, <3>2 DEF Graftable
  <2>9. <<j, n>> \notin S /\ j \in W /\ c \in W /\ c # j
    BY <1>6, <1>9, <2>2
  <2> HIDE DEF W, S
  <2>10. Run(Graft(s, u, W, S), <<RecLink(j, n, c)>>, Graft(s, u, W, S \cup {<<j, n>>}))
    BY <1>11, <2>1, <2>8, <2>9, GraftLink
  <2>11. W = V2 /\ S \cup {<<j, n>>} = R2
    BY <1>7, <1>11 DEF W, S
  <2>12. Run(Graft(s, u, V, R), f[c] \o <<RecLink(j, n, c)>>, Graft(s, u, V2, R2))
    <3>1. Run(Graft(s, u, V, R), f[c], Graft(s, u, W, S))
      BY <2>7 DEF W, S
    <3>2. Run(Graft(s, u, W, S), <<RecLink(j, n, c)>>, Graft(s, u, V2, R2))
      BY <2>10, <2>11, Zenon
    <3> QED
      BY <3>1, <3>2, RunJoin
  <2>13. EntryRecords(s, f, j, n) = f[c] \o <<RecLink(j, n, c)>>
    <3>1. f[c] \in Seq(SlabRecords)
      BY <2>7 DEF Run
    <3>2. RecLink(j, n, c) \in SlabRecords
      BY <2>1 DEF RecLink, SlabRecords
    <3>5. Append(f[c], RecLink(j, n, c)) = f[c] \o <<RecLink(j, n, c)>>
      BY <3>1, <3>2, AppendIs, Zenon
    <3>3. EntryRecords(s, f, j, n) = Append(f[c], RecLink(j, n, c))
      BY <1>11, Zenon DEF EntryRecords
    <3> QED
      BY <3>3, <3>5
  <2> QED
    BY <2>12, <2>13, Zenon DEF V, R, V2, R2
<1> QED
  BY <1>10, <1>11

\* The records of a node and of its entries add all that is below it.
LEMMA EmitNode ==
  ASSUME NEW s, Shapes(s), SlabSound(s), Tree(s), NEW u, NEW j \in Inos,
         NEW f \in [Inos -> Seq(SlabRecords)],
         \A n \in Names: s[j].children[n] # NoEntry => EmitsAt(s, u, f, s[j].children[n]),
         NEW X \in SUBSET Inos, NEW Q \in SUBSET (Inos \X Names), Ready(s, u, X, Q, Below(s, j))
  PROVE  Run(Graft(s, u, X, Q), SubtreeRecords(s, f, j),
             Graft(s, u, X \cup Below(s, j), Q \cup (Below(s, j) \X Names)))
<1> DEFINE B == Below(s, j)
           V(n) == PartNodes(s, X, j, n)
           R(n) == PartEntries(s, Q, j, n)
           h == [n \in 0..NameCount |-> Graft(s, u, V(n), R(n))]
           seqs == [n \in Names |-> EntryRecords(s, f, j, n)]
<1>1. s \in [Inos -> NodeType] /\ s \in Slab /\ Graftable(s, u, X, Q)
  BY ShapesAre, SlabIs DEF Ready, Graftable
<1>2. B \in SUBSET Inos /\ j \in B
  BY <1>1, BelowIs
<1>3. j \notin X /\ j # Root /\ u[j] = Vacant /\ Used(s, j) /\ Into(s, Q, j) = {}
  BY <1>2 DEF Ready
<1>4. NameCount \in Nat /\ Names = 1..NameCount
  BY SlabNumbers DEF Names
<1> DEFINE Y == X \cup {j}
<1>5. Run(Graft(s, u, X, Q), <<RecNode(s, j)>>, Graft(s, u, Y, Q))
  BY <1>1, <1>3, GraftNode
<1>6. \A n \in Names: Run(Graft(s, u, V(n - 1), R(n - 1)), EntryRecords(s, f, j, n),
                          Graft(s, u, V(n), R(n)))
  BY EmitEntry
<1>7. Under(s, j, 0) = {} /\ {j} \cup Under(s, j, NameCount) = B
  BY UnderIs
<1>8. V(0) = Y /\ R(0) = Q
  <2>1. {e \in {j} \X Names: e[2] <= 0} = {}
    BY <1>4
  <2> QED
    BY <1>7, <2>1 DEF PartNodes, PartEntries
<1>9. V(NameCount) = X \cup B /\ R(NameCount) = Q \cup (B \X Names)
  <2>1. {e \in {j} \X Names: e[2] <= NameCount} = {j} \X Names
    BY <1>4
  <2>2. V(NameCount) = X \cup ({j} \cup Under(s, j, NameCount))
    BY DEF PartNodes
  <2>3. R(NameCount) = Q \cup (({j} \cup Under(s, j, NameCount)) \X Names)
    BY <2>1 DEF PartEntries
  <2> QED
    BY <1>7, <2>2, <2>3, Zenon
<1> HIDE DEF V, R, Y, B
<1>10. seqs \in [1..NameCount -> Seq(SlabRecords)]
  BY <1>1, <1>4, SubtreeTypes, Zenon
<1>11. \A n \in 1..NameCount: Run(h[n - 1], seqs[n], h[n])
  <2>1. TAKE n \in 1..NameCount
  <2>2. n \in Names /\ n \in 0..NameCount /\ n - 1 \in 0..NameCount
    BY <1>4
  <2>3. /\ h[n - 1] = Graft(s, u, V(n - 1), R(n - 1)) /\ h[n] = Graft(s, u, V(n), R(n))
        /\ seqs[n] = EntryRecords(s, f, j, n)
    BY <2>2
  <2> QED
    BY <1>6, <2>2, <2>3, Zenon
<1>12. h[0] = Graft(s, u, Y, Q) /\ h[NameCount] = Graft(s, u, X \cup B, Q \cup (B \X Names))
  <2>1. h[0] = Graft(s, u, V(0), R(0)) /\ h[NameCount] = Graft(s, u, V(NameCount), R(NameCount))
    BY <1>4
  <2> QED
    BY <1>8, <1>9, <2>1, Zenon
<1> HIDE DEF h
<1>13. Run(h[0], Joined(seqs), h[NameCount])
  <2> HIDE DEF seqs
  <2> QED
    BY <1>4, <1>10, <1>11, JoinedRun, Zenon
<1>14. Run(Graft(s, u, Y, Q), Joined(seqs), Graft(s, u, X \cup B, Q \cup (B \X Names)))
  BY <1>12, <1>13, Zenon
<1> HIDE DEF seqs
<1>15. Run(Graft(s, u, X, Q), <<RecNode(s, j)>> \o Joined(seqs), Graft(s, u, X \cup B, Q \cup (B \X Names)))
  BY <1>5, <1>14, RunJoin
<1> QED
  BY <1>15, Zenon DEF SubtreeRecords, B, seqs
  
\* Down to as many levels as there are nodes, everything is there.
LEMMA EmitAll ==
  ASSUME NEW s, Shapes(s), SlabSound(s), Tree(s), NEW u, NEW g, Emits(g, s),
         NEW k \in 0..MaxIno, NEW j \in Inos, Cardinality(Below(s, j)) <= k
  PROVE  EmitsAt(s, u, g[k], j)
<1> DEFINE P == {q \in 0..MaxIno: \A x \in Inos:
                   Cardinality(Below(s, x)) <= q => EmitsAt(s, u, g[q], x)}
<1>1. s \in [Inos -> NodeType] /\ s \in Slab /\ MaxIno \in Nat /\ IsFiniteSet(Inos)
  BY SlabNumbers, ShapesAre, SlabIs
<1>2. ASSUME NEW x \in Inos
      PROVE  /\ Below(s, x) \in SUBSET Inos /\ x \in Below(s, x) /\ IsFiniteSet(Below(s, x))
             /\ Cardinality(Below(s, x)) \in Nat /\ Cardinality(Below(s, x)) # 0
  <2>1. Below(s, x) \in SUBSET Inos /\ x \in Below(s, x)
    BY <1>1, BelowIs
  <2>2. IsFiniteSet(Below(s, x))
    BY <1>1, <2>1, FS_Subset
  <2> QED
    BY <2>1, <2>2, FS_CardinalityType, FS_EmptySet
<1>3. 0 \in P
  BY <1>1, <1>2
<1>4. ASSUME NEW q \in 1..MaxIno, q - 1 \in P
      PROVE  q \in P
  <2>1. SUFFICES ASSUME NEW x \in Inos, Cardinality(Below(s, x)) <= q
                 PROVE  EmitsAt(s, u, g[q], x)
    BY <1>1
  <2>2. g[q - 1] \in [Inos -> Seq(SlabRecords)] /\ g[q][x] = SubtreeRecords(s, g[q - 1], x)
    <3>1. q - 1 \in Inos
      BY <1>1 DEF Inos
    <3> QED
      BY <3>1 DEF Emits
  <2>3. ASSUME NEW n \in Names, s[x].children[n] # NoEntry
        PROVE  EmitsAt(s, u, g[q - 1], s[x].children[n])
    <3> DEFINE c == s[x].children[n]
    <3>1. c \in Inos
      BY <2>3, NamedUsed
    <3>2. Below(s, c) \subseteq Below(s, x) /\ x \notin Below(s, c)
      BY <2>3, BelowParts
    <3> HIDE DEF c
    <3>3. Below(s, c) \subseteq Below(s, x) \ {x}
      BY <3>2
    <3>4. /\ IsFiniteSet(Below(s, x) \ {x})
          /\ Cardinality(Below(s, x) \ {x}) = Cardinality(Below(s, x)) - 1
      BY <1>2, FS_RemoveElement
    <3>5. Cardinality(Below(s, c)) <= Cardinality(Below(s, x) \ {x})
      BY <3>3, <3>4, FS_Subset
    <3>6. Cardinality(Below(s, c)) <= q - 1
      BY <1>2, <2>1, <3>1, <3>4, <3>5
    <3> QED
      BY <1>4, <3>1, <3>6 DEF c
  <2>4. ASSUME NEW X \in SUBSET Inos, NEW Q \in SUBSET (Inos \X Names),
               Ready(s, u, X, Q, Below(s, x))
        PROVE  Run(Graft(s, u, X, Q), g[q][x],
                   Graft(s, u, X \cup Below(s, x), Q \cup (Below(s, x) \X Names)))
    <3> DEFINE f == g[q - 1]
    <3>1. f \in [Inos -> Seq(SlabRecords)] /\ \A n \in Names: s[x].children[n] # NoEntry =>
            EmitsAt(s, u, f, s[x].children[n])
      BY <2>2, <2>3
    <3> HIDE DEF f
    <3>2. Run(Graft(s, u, X, Q), SubtreeRecords(s, f, x),
              Graft(s, u, X \cup Below(s, x), Q \cup (Below(s, x) \X Names)))
      BY <2>4, <3>1, EmitNode
    <3> QED
      BY <2>2, <3>2, Zenon DEF f
  <2> QED
    BY <2>4 DEF EmitsAt
<1> HIDE DEF P
<1>5. \A q \in 0..MaxIno: q \in P
  BY <1>1, <1>3, <1>4, Climb
<1> QED
  BY <1>5 DEF P

\* What is journaled of a subtree, replay puts where nothing is.
LEMMA EmitRun ==
  ASSUME NEW s, Shapes(s), SlabSound(s), Tree(s), NEW u, WholeSlab(u), NEW i \in Inos \ {Root},
         Root \notin Below(s, i),
         \A x \in Below(s, i): u[x] = Vacant /\ Used(s, x) /\ s[x].nlink <= 1
  PROVE  LET B == Below(s, i) IN
         /\ Run(u, Emitted(s, i), Graft(s, u, B, B \X Names))
         /\ Graftable(s, u, B, B \X Names)
<1> DEFINE B == Below(s, i)
<1>1. s \in [Inos -> NodeType] /\ s \in Slab /\ MaxIno \in Nat
  BY SlabNumbers, ShapesAre, SlabIs
<1>2. B \in SUBSET Inos
  BY <1>1, BelowIs
<1>3. Cardinality(B) <= MaxIno
  <2>1. B \subseteq Inos \ {Root} /\ IsFiniteSet(Inos) /\ Root \in Inos /\ Cardinality(Inos) = MaxIno + 1
    BY <1>2, SlabNumbers
  <2>2. IsFiniteSet(Inos \ {Root}) /\ Cardinality(Inos \ {Root}) = MaxIno
    BY <1>1, <2>1, FS_RemoveElement
  <2> QED
    BY <2>1, <2>2, FS_Subset
<1>4. PICK g: Emits(g, s)
  BY <1>1, EmitSteps
<1>5. EmitsAt(s, u, g[MaxIno], i)
  <2>1. MaxIno \in 0..MaxIno
    BY <1>1
  <2> QED
    BY <1>3, <1>4, <2>1, EmitAll, Zenon
<1>6. g[MaxIno][i] = Emitted(s, i)
  BY <1>4 DEF Emits
<1>7. Ready(s, u, {}, {}, B)
  BY <1>1 DEF Ready, Graftable, Into
<1>8. Run(Graft(s, u, {}, {}), g[MaxIno][i], Graft(s, u, {} \cup B, {} \cup (B \X Names)))
  BY <1>5, <1>7 DEF EmitsAt
<1>9. Graft(s, u, {}, {}) = u
  <2>1. u \in [Inos -> NodeType]
    BY SlabIs DEF WholeSlab
  <2> QED
    BY <2>1 DEF Graft
<1>10. {} \cup B = B /\ {} \cup (B \X Names) = B \X Names
  OBVIOUS
<1>11. Run(u, Emitted(s, i), Graft(s, u, B, B \X Names))
  BY <1>6, <1>8, <1>9, <1>10, Zenon
<1>12. Graftable(s, u, B, B \X Names)
  BY <1>1, <1>2 DEF Graftable
<1> QED
  BY <1>11, <1>12
\* In a subtree that is journaled the top has no name yet, all else has one.
LEMMA ComesInto ==
  ASSUME NEW s, LiveInv(s), NEW d \in Inos, NEW n \in Names, s[d].children[n] # NoEntry,
         <<d, n>> # <<Root, Tmp>>, \A j \in Below(s, s[d].children[n]): s[j].nlink = 1,
         NEW u, \A j \in Inos: u[j].children = s[j].children
  PROVE  LET i == s[d].children[n]
             B == Below(s, i) IN
         \A j \in B: Cardinality(Into(u, B \X Names, j)) = IF j = i THEN 0 ELSE 1
<1> DEFINE i == s[d].children[n]
           B == Below(s, i)
           P == B \X Names
<1>1. s \in Slab /\ Shapes(s) /\ SlabSound(s) /\ Tree(s)
  BY DEF LiveInv, Shapes
<1>2. i \in Inos \ {Root} /\ B \in SUBSET (Inos \ {Root}) /\ d \notin B
  BY NamedUsed, WholeSide, <1>1
<1>3. ASSUME NEW j \in B
      PROVE  Cardinality(Into(u, P, j)) = IF j = i THEN 0 ELSE 1
  <2>1. j \in Inos \ {Root} /\ s[j].nlink = 1
    BY <1>2
  <2>2. \A x \in P: u[x[1]].children[x[2]] = j <=> s[x[1]].children[x[2]] = j
    BY <1>2
  <2>3. CASE j = i
    <3>1. ASSUME NEW x \in P, s[x[1]].children[x[2]] = j
          PROVE  FALSE
      <4>1. x[1] \in B /\ x[1] \in Inos /\ x[2] \in Names
        BY <1>2
      <4>2. x[1] = d
        BY <1>1, <2>1, <2>3, <3>1, <4>1, OneName
      <4> QED
        BY <1>2, <4>1, <4>2
    <3>2. Into(u, P, j) = {}
      BY <2>2, <3>1 DEF Into
    <3> QED
      BY <2>3, <3>2, FS_EmptySet, Zenon
  <2>4. CASE j # i
    <3> HIDE DEF i
    <3>1. PICK w \in B: j \in Children(s, w)
      BY <1>1, <1>2, <2>4, BelowParent
    <3>2. w \in Inos
      BY <1>2
    <3>3. PICK q \in Names: s[w].children[q] = j
      BY <1>1, <2>1, <3>1, <3>2, ChildrenAre
    <3>4. ASSUME NEW x \in P, s[x[1]].children[x[2]] = j
          PROVE  x = <<w, q>>
      <4>1. x = <<x[1], x[2]>> /\ x[1] \in Inos /\ x[2] \in Names
        BY <1>2
      <4>2. x[1] = w /\ x[2] = q
        BY <1>1, <2>1, <3>2, <3>3, <3>4, <4>1, OneName
      <4> QED
        BY <4>1, <4>2
    <3>5. <<w, q>> \in P
      BY <3>1
    <3>6. Into(u, P, j) = {<<w, q>>}
      BY <2>2, <3>3, <3>4, <3>5 DEF Into
    <3> QED
      BY <2>4, <3>6, FS_Singleton, Zenon
  <2> QED
    BY <2>3, <2>4
<1> QED
  BY <1>3

\* It comes in: for the journal it is made, from its records, and linked.
LEMMA ImageComes ==
  ASSUME NEW s, LiveInv(s), NEW d \in Inos, NEW n \in Names, NEW e \in Inos, NEW m \in Names,
         MayMove(s, d, n, e, m), <<d, n>> # <<Root, Tmp>>, <<e, m>> # <<Root, Tmp>>,
         ~s[d].persist, s[e].persist, \A j \in Below(s, s[d].children[n]): s[j].nlink = 1,
         NEW t, Renamed(s, t, d, n, e, m), Top(t) = Top(s), NEW b \in {0, 1}
  PROVE  LET i == s[d].children[n]
             u == Flagged(s, Below(s, i), TRUE) IN
         Run(Image(s, b), Emitted(u, i) \o <<RecLink(e, m, i)>>, Image(t, b))
<1> DEFINE i == s[d].children[n]
           old == s[e].children[m]
           B == Below(s, i)
           P == B \X Names
           u == Flagged(s, B, TRUE)
           D == Image(s, b)
           G == Graft(u, D, B, P)
           y == LinkEdit(G, e, m, i)
           z == Image(t, b)
<1>1. /\ s \in Slab /\ s \in [Inos -> NodeType] /\ Shapes(s) /\ SlabSound(s) /\ Tree(s)
      /\ t \in [Inos -> NodeType] /\ Shapes(t) /\ Moves(s, t, d, n, e, m)
      /\ <<d, n>> # <<e, m>> /\ i # NoEntry /\ e \notin B /\ s[e].kind = "dir"
      /\ old # NoEntry => old # i /\ IsEmpty(s, old)
  BY SlabIs DEF LiveInv, Shapes, Renamed, MayMove
<1>2. /\ i \in Inos \ {Root} /\ i \notin {d, e} /\ old # i /\ old \in Inos
      /\ old # NoEntry => /\ old \in Inos \ {Root} /\ old \notin {d, e}
                          /\ s[old].nlink >= 1 /\ s[old].children = NoNames
  BY <1>1, MoveParts
<1>3. /\ B \in SUBSET (Inos \ {Root}) /\ Top(s) \notin B /\ d \notin B
      /\ \A j \in B: Used(s, j) /\ ~s[j].persist
  BY <1>1, WholeSide
<1>4. i \in B
  BY <1>1, <1>2, BelowIs
<1>5. old # NoEntry => old \notin B
  BY <1>1, OldOutside
<1>6. d # e /\ d # Root
  BY DEF LiveInv, Shapes
<1>7. /\ s[e].persist /\ Stored(s, e)
      /\ old # NoEntry => Stored(s, old) /\ s[old].persist
  BY <1>1, StoredAre
<1>8. \A j \in B: s[j].nlink = 1
  OBVIOUS
<1>9. /\ Shapes(u) /\ SlabSound(u) /\ Tree(u)
      /\ \A j \in Inos: /\ u[j].kind = s[j].kind /\ u[j].nlink = s[j].nlink
                        /\ u[j].data = s[j].data /\ u[j].children = s[j].children
  <2>1. PICK f \in BOOLEAN: f = TRUE
    BY Zenon
  <2> DEFINE w == Flagged(s, B, f)
  <2> HIDE DEF B
  <2>2. /\ Shapes(w) /\ SlabSound(w) /\ Tree(w)
        /\ \A j \in Inos: /\ w[j].kind = s[j].kind /\ w[j].nlink = s[j].nlink
                          /\ w[j].data = s[j].data /\ w[j].children = s[j].children
    BY <1>1, <1>3, FlagKeeps
  <2>3. u = w
    BY <2>1, Zenon
  <2> HIDE DEF w, u
  <2> QED
    BY <2>2, <2>3, Zenon
<1>10. Below(u, i) = B
  <2>1. u \in Slab
    BY <1>9, Zenon DEF Shapes
  <2>2. \A j \in Below(s, i): u[j].children = s[j].children
    BY <1>3, <1>9, Zenon
  <2> HIDE DEF u, i
  <2> QED
    BY <1>1, <1>2, <2>1, <2>2, BelowSame
<1>11. WholeSlab(D) /\ D \in [Inos -> NodeType]
  <2>1. Shapes(D)
    BY ImageShapes
  <2> QED
    BY <2>1, SlabIs DEF Shapes, WholeSlab
<1>12. \A x \in B: D[x] = Vacant
  BY <1>3, ImageOut DEF Stored
<1>13. /\ Run(D, Emitted(u, i), G) /\ Graftable(u, D, B, P)
  <2>1. \A x \in B: D[x] = Vacant /\ Used(u, x) /\ u[x].nlink <= 1
    <3>1. TAKE x \in B
    <3>2. x \in Inos /\ s[x].nlink = 1 /\ s[x].kind # "none"
      BY <1>3, <1>8 DEF Used
    <3> HIDE DEF u
    <3>3. u[x].nlink <= 1 /\ u[x].kind # "none"
      BY <1>9, <3>2
    <3> QED
      BY <1>12, <3>3 DEF Used
  <2>2. Root \notin B
    BY <1>3
  <2> HIDE DEF D, i, u, B
  <2>3. \A x \in Below(u, i): D[x] = Vacant /\ Used(u, x) /\ u[x].nlink <= 1
    BY <1>10, <2>1, Zenon
  <2>4. Root \notin Below(u, i)
    BY <1>10, <2>2, Zenon
  <2>5. LET C == Below(u, i) IN
        Run(D, Emitted(u, i), Graft(u, D, C, C \X Names)) /\ Graftable(u, D, C, C \X Names)
    BY <1>2, <1>9, <1>11, <2>3, <2>4, EmitRun
  <2> QED
    BY <1>10, <2>5, Zenon
<1>14. \A j \in B: Cardinality(Into(u, P, j)) = IF j = i THEN 0 ELSE 1
  BY <1>1, <1>8, <1>9, ComesInto, ZenonT(40)
<1> HIDE DEF i, old, B, D
<1>15. /\ WholeSlab(G) /\ G \in [Inos -> NodeType] /\ P \in SUBSET (Inos \X Names)
       /\ \A j \in Inos: G[j] = IF j \in B THEN Grafted(u, P, j) ELSE D[j]
  <2> HIDE DEF u, P
  <2> QED
    BY <1>13, GraftIs
<1> HIDE DEF G
<1>16. ASSUME NEW j \in B
       PROVE  /\ G[j] \in NodeType /\ G[j].kind = s[j].kind /\ G[j].persist /\ G[j].opens = 0
              /\ G[j].data = s[j].data /\ G[j].nlink = (IF j = i THEN 0 ELSE 1)
              /\ \A k \in Names: G[j].children[k] = s[j].children[k]
  <2>1. j \in Inos /\ j # Root
    BY <1>3
  <2>2. u \in [Inos -> NodeType]
    BY <1>9, SlabIs, Zenon DEF Shapes
  <2>3. \A k \in Names: <<j, k>> \in P
    OBVIOUS
  <2> HIDE DEF u, P
  <2> DEFINE w == Grafted(u, P, j)
  <2>4. /\ w \in NodeType /\ w.kind = u[j].kind /\ w.persist /\ w.opens = 0 /\ w.data = u[j].data
        /\ w.nlink = (IF j = Root THEN 0 ELSE Cardinality(Into(u, P, j)))
        /\ \A k \in Names: w.children[k] = IF <<j, k>> \in P THEN u[j].children[k] ELSE NoEntry
    BY <1>15, <2>1, <2>2, GraftedIs, Zenon
  <2>5. G[j] = w
    BY <1>15, <2>1
  <2> HIDE DEF w
  <2> QED
    BY <1>9, <1>14, <2>1, <2>3, <2>4, <2>5, Zenon
<1>17. \A j \in Inos: j \notin B => G[j] = D[j]
  BY <1>15, Zenon
<1>18. /\ D[e].kind = "dir" /\ D[e] \in NodeType /\ D[e].persist /\ D[e].nlink = s[e].nlink /\ D[e].opens = 0
       /\ D[e].data = s[e].data
       /\ \A k \in Names: <<e, k>> # <<Root, Tmp>> => D[e].children[k] = s[e].children[k]
  BY <1>1, <1>7, ImageAt DEF D
<1>19. G[e] = D[e] /\ G[e].children[m] = old /\ Used(G, i)
  <2>1. G[e] = D[e]
    BY <1>1, <1>17
  <2>2. G[e].children[m] = old
    BY <1>18, <2>1 DEF old
  <2>3. G[i].kind = s[i].kind /\ Used(s, i)
    BY <1>3, <1>4, <1>16
  <2> QED
    BY <2>1, <2>2, <2>3 DEF Used
<1>20. old # NoEntry => G[old] = Copy(s[old]) /\ Leaf(G, old)
  <2>1. SUFFICES ASSUME old # NoEntry
                 PROVE  G[old] = Copy(s[old]) /\ Leaf(G, old)
    OBVIOUS
  <2>2. old \in Inos \ {Root} /\ old \notin B /\ s[old].children = NoNames
    BY <1>2, <1>5, <2>1
  <2>3. G[old] = Copy(s[old])
    BY <1>1, <1>7, <1>17, <2>1, <2>2, ImageAt DEF D
  <2>4. Copy(s[old]).children = s[old].children
    BY <1>1, <2>2, CopyIs
  <2>5. G[old].children = NoNames
    BY <2>2, <2>3, <2>4
  <2>6. IsEmpty(G, old)
    BY <2>5 DEF IsEmpty, Children, NoNames
  <2> QED
    BY <2>3, <2>6 DEF Leaf
<1>21. Linked(G, e, m, i) = y
  <2>1. G[e].children[m] = NoEntry \/ (G[e].children[m] # e /\ Leaf(G, G[e].children[m]))
    BY <1>2, <1>19, <1>20
  <2>2. Used(G, e) /\ i # e /\ G[e].children[m] # i /\ i \in Inos
    BY <1>2, <1>18, <1>19 DEF Used
  <2> QED
    BY <1>15, <2>1, <2>2, LinkedIs
<1>22. Run(G, <<RecLink(e, m, i)>>, y)
  <2>1. RecLink(e, m, i) \in SlabRecords
    BY <1>2 DEF RecLink, SlabRecords
  <2>2. Run(G, <<RecLink(e, m, i)>>, Apply(G, RecLink(e, m, i)))
    BY <2>1, RunOne
  <2>3. G[e].kind = "dir"
    BY <1>18, <1>19
  <2>4. Apply(G, RecLink(e, m, i)) = y
    BY <1>19, <1>21, <2>3, ApplyLink
  <2> QED
    BY <2>2, <2>4, Zenon
<1>23. ASSUME NEW j \in Inos
       PROVE  y[j] = z[j]
  <2>1. y[j] = IF j = e THEN Named(G[j], m, i)
               ELSE IF j = i THEN Raised(G[j])
               ELSE IF j # NoEntry /\ j = old THEN Lessened(G[j])
               ELSE G[j]
    BY <1>19 DEF LinkEdit
  <2>2. \A k \in Names: t[j].children[k] = IF j = e /\ k = m THEN i
                                           ELSE IF j = d /\ k = n THEN NoEntry
                                           ELSE s[j].children[k]
    BY <1>1 DEF Moves, i
  <2>3. j = Root \/ j # old =>
          /\ t[j].kind = s[j].kind /\ t[j].nlink = s[j].nlink
          /\ t[j].data = s[j].data /\ t[j].opens = s[j].opens
          /\ t[j].persist = IF j \in B THEN s[e].persist ELSE s[j].persist
    BY Zenon DEF Renamed, old, B, i
  <2>4. s[j] \in NodeType /\ t[j] \in NodeType
    BY <1>1
  <2>5. CASE j = e
    <3> DEFINE w == Named(D[e], m, i)
    <3>1. /\ w \in NodeType /\ w.kind = s[e].kind /\ w.persist /\ w.nlink = s[e].nlink /\ w.opens = 0
          /\ w.data = s[e].data
          /\ \A k \in Names: w.children[k] = IF k = m THEN i ELSE D[e].children[k]
      <4>1. w \in NodeType
        BY <1>1, <1>2, <1>18, NodeTypes
      <4>2. /\ w.kind = D[e].kind /\ w.nlink = D[e].nlink /\ w.opens = D[e].opens /\ w.data = D[e].data
            /\ w.persist = D[e].persist
            /\ \A k \in Names: w.children[k] = IF k = m THEN i ELSE D[e].children[k]
        BY <1>2, <1>18, Fields, ZenonT(40)
      <4>3. w.persist
        BY <1>18, <4>2, Zenon
      <4>4. D[e].kind = s[e].kind
        BY <1>1, <1>18
      <4> QED
        BY <1>18, <4>1, <4>2, <4>3, <4>4
    <3>2. y[j] = w
      BY <1>19, <2>1, <2>5
    <3> HIDE DEF w
    <3>3. e # old \/ e = Root
      BY <1>2 DEF NoEntry, Root
    <3>4. t[e].kind = s[e].kind /\ t[e].nlink = s[e].nlink /\ t[e].data = s[e].data
      BY <2>3, <2>5, <3>3, Zenon
    <3>5. t[e].persist
      BY <1>1, <1>7, <2>3, <2>5, <3>3
    <3>6. \A k \in Names: \/ w.children[k] = t[e].children[k] /\ <<e, k>> # <<Root, Tmp>>
                          \/ t[e].children[k] = s[e].children[k] /\ w.children[k] = Image(s, b)[e].children[k]
      BY <1>6, <2>2, <2>5, <3>1 DEF D
    <3>7. Image(t, b)[e] = w
      BY <1>1, <1>7, <3>1, <3>4, <3>5, <3>6, ImageEdit
    <3> QED
      BY <2>5, <3>2, <3>7
  <2>6. CASE j = i
    <3>1. y[j] = Raised(G[j]) /\ j \in B /\ j # Root
      BY <1>2, <1>4, <2>1, <2>6
    <3>2. /\ G[j] \in NodeType /\ G[j].kind = s[j].kind /\ G[j].persist /\ G[j].opens = 0
          /\ G[j].data = s[j].data /\ G[j].nlink = 0
          /\ \A k \in Names: G[j].children[k] = s[j].children[k]
      BY <1>16, <2>6, <3>1
    <3>3. /\ t[j].kind = s[j].kind /\ t[j].nlink = 1 /\ t[j].data = s[j].data /\ t[j].persist
          /\ \A k \in Names: t[j].children[k] = s[j].children[k]
      BY <1>2, <1>7, <1>8, <2>2, <2>3, <2>6, <3>1, Zenon
    <3>4. Stored(t, j)
      BY <3>1, <3>3 DEF Stored
    <3>5. /\ z[j] \in NodeType /\ z[j].kind = t[j].kind /\ z[j].persist
          /\ z[j].nlink = t[j].nlink /\ z[j].opens = 0 /\ z[j].data = t[j].data
          /\ \A k \in Names: z[j].children[k] = t[j].children[k]
      BY <1>1, <3>1, <3>4, ImageAt
    <3> DEFINE w == Raised(G[j])
    <3>6. /\ w \in NodeType /\ w.kind = s[j].kind /\ w.persist /\ w.nlink = 1 /\ w.opens = 0
          /\ w.data = s[j].data /\ \A k \in Names: w.children[k] = s[j].children[k]
      <4>1. w \in NodeType
        BY <3>2, NodeTypes
      <4>2. /\ w.kind = G[j].kind /\ w.nlink = G[j].nlink + 1 /\ w.opens = G[j].opens
            /\ w.data = G[j].data /\ w.persist = G[j].persist /\ w.children = G[j].children
        BY <1>2, <3>2, Fields, Zenon
      <4>3. w.persist
        BY <3>2, <4>2, Zenon
      <4> QED
        BY <3>2, <4>1, <4>2, <4>3
    <3> DEFINE v == z[j]
    <3>7. w.persist = v.persist
      BY <3>5, <3>6 DEF NodeType
    <3>9. /\ w \in NodeType /\ v \in NodeType /\ w.kind = v.kind /\ w.nlink = v.nlink
          /\ w.opens = v.opens /\ w.data = v.data /\ \A k \in Names: w.children[k] = v.children[k]
      BY <3>3, <3>5, <3>6
    <3> HIDE DEF w, v
    <3>10. w = v
      BY <3>7, <3>9, SameNode
    <3>8. w = z[j]
      BY <3>10 DEF v
    <3> QED
      BY <3>1, <3>8 DEF w
  <2>7. CASE j \in B /\ j # i
    <3>1. y[j] = G[j] /\ j # Root /\ j # e /\ j # d
      BY <1>1, <1>3, <1>5, <2>1, <2>7
    <3>2. /\ G[j] \in NodeType /\ G[j].kind = s[j].kind /\ G[j].persist /\ G[j].opens = 0
          /\ G[j].data = s[j].data /\ G[j].nlink = 1
          /\ \A k \in Names: G[j].children[k] = s[j].children[k]
      BY <1>16, <2>7
    <3>6. j # old
      BY <1>5, <2>7, <3>1 DEF NoEntry, Root
    <3>3. /\ t[j].kind = s[j].kind /\ t[j].nlink = 1 /\ t[j].data = s[j].data /\ t[j].persist
          /\ \A k \in Names: t[j].children[k] = s[j].children[k]
      BY <1>7, <1>8, <2>2, <2>3, <2>7, <3>1, <3>6, Zenon
    <3>4. Stored(t, j)
      BY <3>3 DEF Stored
    <3>5. /\ z[j] \in NodeType /\ z[j].kind = t[j].kind /\ z[j].persist
          /\ z[j].nlink = t[j].nlink /\ z[j].opens = 0 /\ z[j].data = t[j].data
          /\ \A k \in Names: z[j].children[k] = t[j].children[k]
      BY <1>1, <3>1, <3>4, ImageAt
    <3> DEFINE w == G[j]
               v == z[j]
    <3>7. w.persist = v.persist
      BY <3>2, <3>5 DEF NodeType
    <3>9. /\ w \in NodeType /\ v \in NodeType /\ w.kind = v.kind /\ w.nlink = v.nlink
          /\ w.opens = v.opens /\ w.data = v.data /\ \A k \in Names: w.children[k] = v.children[k]
      BY <3>2, <3>3, <3>5
    <3> HIDE DEF w, v
    <3>10. w = v
      BY <3>7, <3>9, SameNode
    <3>8. G[j] = z[j]
      BY <3>10 DEF w, v
    <3> QED
      BY <3>1, <3>8
  <2>8. CASE j \notin B /\ j # e /\ j # NoEntry /\ j = old
    <3>1. y[j] = Lessened(Copy(s[j])) /\ j # Root
      BY <1>2, <1>4, <1>20, <2>1, <2>8
    <3>2. t[j] = Lessened(s[j])
      BY <2>8 DEF Renamed, old
    <3>3. j # Top(t)
      <4>1. s[j].persist /\ ~s[Top(s)].persist
        BY <1>7, <2>8, StoredAre
      <4> QED
        BY <4>1
    <3>4. Image(t, b)[j] = Lessened(Copy(s[j]))
      BY <1>1, <1>2, <1>7, <2>8, <3>1, <3>2, <3>3, ImageLess
    <3> QED
      BY <3>1, <3>4
  <2>9. CASE j \notin B /\ j # e /\ ~(j # NoEntry /\ j = old)
    <3>1. y[j] = G[j] /\ G[j] = D[j]
      BY <1>4, <1>17, <2>1, <2>9
    <3>2. j = Root \/ j # old
      BY <2>9 DEF NoEntry, Root
    <3>3. t[j].persist = s[j].persist
      BY <2>3, <2>9, <3>2
    <3>4. \/ t[j] = s[j]
          \/ j # Root /\ ~s[j].persist /\ ~t[j].persist
      <4>1. CASE j = d
        BY <1>6, <3>3, <4>1
      <4>2. CASE j # d
        BY <1>1, <2>9, <3>2, <3>3, <4>2, RenamedElse DEF old
      <4> QED
        BY <4>1, <4>2
    <3>5. Image(t, b)[j] = Image(s, b)[j]
      BY <3>4, ImageStays
    <3> QED
      BY <3>1, <3>5 DEF D
  <2> QED
    BY <2>5, <2>6, <2>7, <2>8, <2>9
<1>24. y = z
  <2>1. y = [j \in Inos |-> y[j]] /\ z = [j \in Inos |-> z[j]]
    BY DEF LinkEdit, Image
  <2> HIDE DEF y, z
  <2> QED
    BY <1>23, <2>1
<1>25. Run(G, <<RecLink(e, m, i)>>, z)
  BY <1>22, <1>24, Zenon
<1>26. Run(D, Emitted(u, i) \o <<RecLink(e, m, i)>>, z)
  <2> HIDE DEF z, u
  <2> QED
    BY <1>13, <1>25, RunJoin
<1> QED
  BY <1>26, Zenon DEF D, i, B
\* What a move does, whatever sides it is between.
LEMMA RenameSteps ==
  ASSUME LiveInv(live), CrossBorder = FALSE, NEW d \in Inos, NEW n \in Names,
         NEW e \in Inos, NEW m \in Names, Rename(d, n, e, m)
  PROVE  LET i == live[d].children[n]
             u == Flagged(live, Below(live, i), TRUE)
             moved == MoveEdit(live, d, n, e, m) IN
         /\ live[d].persist /\ live[e].persist =>
              /\ live' = moved
              /\ disk' = Replayed(disk, (<<>> \o <<RecLink(e, m, i)>>) \o <<RecUnlink(d, n)>>)
         /\ live[d].persist /\ ~live[e].persist =>
              /\ live' = WithPersist(moved, i, FALSE)
              /\ disk' = Replayed(disk, (<<>> \o <<>>) \o <<RecUnlink(d, n)>>)
         /\ ~live[d].persist /\ live[e].persist =>
              /\ live' = MoveEdit(u, d, n, e, m)
              /\ disk' = Replayed(disk, (Emitted(u, i) \o <<RecLink(e, m, i)>>) \o <<>>)
         /\ ~live[d].persist /\ ~live[e].persist =>
              /\ live' = moved
              /\ disk' = Replayed(disk, (<<>> \o <<>>) \o <<>>)
         /\ boots' = boots
<1> DEFINE i == live[d].children[n]
           u == Flagged(live, Below(live, i), TRUE)
           moved == MoveEdit(live, d, n, e, m)
           marked == IF live[e].persist /\ ~live[i].persist THEN WithPersist(live, i, TRUE) ELSE live
           made == Unlinked(Linked(marked, e, m, i), d, n)
<1>1. /\ live' = IF ~live[e].persist /\ live[i].persist THEN WithPersist(made, i, FALSE) ELSE made
      /\ disk' = Replayed(disk,
           ((IF live[e].persist /\ ~live[i].persist THEN Emitted(marked, i) ELSE <<>>)
              \o (IF live[e].persist THEN <<RecLink(e, m, i)>> ELSE <<>>))
              \o (IF live[d].persist THEN <<RecUnlink(d, n)>> ELSE <<>>))
      /\ boots' = boots
  BY DEF Rename, Journal
<1>2. /\ MayMove(live, d, n, e, m) /\ <<d, n>> # <<Root, Tmp>>
      /\ live[d].persist # live[e].persist => \A j \in Below(live, i): live[j].nlink = 1
  BY RenameParts, Zenon
<1>3. i # NoEntry /\ i \in Inos /\ i \in Below(live, i)
  <2>1. live \in Slab /\ Shapes(live) /\ SlabSound(live)
    BY DEF LiveInv, Shapes
  <2>2. i # NoEntry
    BY <1>2 DEF MayMove
  <2>3. i \in Inos
    BY <2>1, <2>2, NamedUsed
  <2> HIDE DEF i
  <2> QED
    BY <2>1, <2>2, <2>3, BelowIs
<1>4. /\ live[d].persist => live[i].persist
      /\ ~live[d].persist => ~live[i].persist
  BY <1>2, <1>3, WholeSide
<1>5. Unlinked(Linked(live, e, m, i), d, n) = moved
  BY <1>2, MoveNodes DEF LiveInv
<1>6. ~live[d].persist /\ live[e].persist =>
        /\ WithPersist(live, i, TRUE) = u
        /\ Unlinked(Linked(u, e, m, i), d, n) = MoveEdit(u, d, n, e, m)
  <2>1. SUFFICES ASSUME ~live[d].persist /\ live[e].persist
                 PROVE  /\ WithPersist(live, i, TRUE) = u
                        /\ Unlinked(Linked(u, e, m, i), d, n) = MoveEdit(u, d, n, e, m)
    BY Zenon
  <2>2. \A j \in Below(live, i): live[j].nlink = 1
    BY <1>2, <2>1, Zenon
  <2> QED
    BY <1>2, <2>1, <2>2, RenamedIn, Zenon
<1> HIDE DEF i, u, moved
<1>7. live[d].persist /\ live[e].persist =>
        live' = moved /\ disk' = Replayed(disk, (<<>> \o <<RecLink(e, m, i)>>) \o <<RecUnlink(d, n)>>)
  BY <1>1, <1>4, <1>5, Zenon
<1>8. live[d].persist /\ ~live[e].persist =>
        live' = WithPersist(moved, i, FALSE) /\ disk' = Replayed(disk, (<<>> \o <<>>) \o <<RecUnlink(d, n)>>)
  BY <1>1, <1>4, <1>5, Zenon
<1>9. ~live[d].persist /\ live[e].persist =>
        /\ live' = MoveEdit(u, d, n, e, m)
        /\ disk' = Replayed(disk, (Emitted(u, i) \o <<RecLink(e, m, i)>>) \o <<>>)
  <2>1. SUFFICES ASSUME ~live[d].persist, live[e].persist
                 PROVE  /\ live' = MoveEdit(u, d, n, e, m)
                        /\ disk' = Replayed(disk, (Emitted(u, i) \o <<RecLink(e, m, i)>>) \o <<>>)
    OBVIOUS
  <2>2. marked = u
    BY <1>4, <1>6, <2>1, Zenon
  <2>3. made = MoveEdit(u, d, n, e, m)
    BY <1>6, <2>1, <2>2, Zenon
  <2> HIDE DEF marked, made
  <2> QED
    BY <1>1, <1>4, <2>1, <2>2, <2>3, Zenon
<1>10. ~live[d].persist /\ ~live[e].persist =>
        live' = moved /\ disk' = Replayed(disk, (<<>> \o <<>>) \o <<>>)
  BY <1>1, <1>4, <1>5, Zenon
<1> QED
  BY <1>1, <1>7, <1>8, <1>9, <1>10, Zenon DEF i, u, moved

\* rename keeps the invariant, on one side of the border and over it.
LEMMA RenameKeeps ==
  ASSUME TreeInv, CrossBorder = FALSE, NEW d \in Inos, NEW n \in Names,
         NEW e \in Inos, NEW m \in Names, Rename(d, n, e, m)
  PROVE  /\ TreeInv'
         /\ MayMove(live, d, n, e, m) /\ Renamed(live, live', d, n, e, m)
<1> DEFINE s == live
           t == live'
           i == s[d].children[n]
           B == Below(s, i)
           u == Flagged(s, B, TRUE)
<1>1. LiveInv(s) /\ boots \in 0..MaxBoots /\ s \in [Inos -> NodeType] /\ s \in Slab
  BY SlabIs DEF TreeInv, LiveInv, Shapes
<1>2. PICK b \in {0, 1}: disk = Image(s, b)
  BY DEF TreeInv
<1> DEFINE D == Image(s, b)
<1>3. /\ MayMove(s, d, n, e, m) /\ <<d, n>> # <<Root, Tmp>> /\ <<e, m>> # <<Root, Tmp>>
      /\ s[d].persist # s[e].persist => \A j \in B: s[j].nlink = 1
  BY <1>1, RenameParts, Zenon
<1>4. /\ s[d].persist /\ s[e].persist =>
           /\ t = MoveEdit(s, d, n, e, m)
           /\ disk' = Replayed(disk, (<<>> \o <<RecLink(e, m, i)>>) \o <<RecUnlink(d, n)>>)
      /\ s[d].persist /\ ~s[e].persist =>
           /\ t = WithPersist(MoveEdit(s, d, n, e, m), i, FALSE)
           /\ disk' = Replayed(disk, (<<>> \o <<>>) \o <<RecUnlink(d, n)>>)
      /\ ~s[d].persist /\ s[e].persist =>
           /\ t = MoveEdit(u, d, n, e, m)
           /\ disk' = Replayed(disk, (Emitted(u, i) \o <<RecLink(e, m, i)>>) \o <<>>)
      /\ ~s[d].persist /\ ~s[e].persist =>
           /\ t = MoveEdit(s, d, n, e, m)
           /\ disk' = Replayed(disk, (<<>> \o <<>>) \o <<>>)
      /\ boots' = boots
  BY <1>1, RenameSteps, Zenon
<1>5. s[d].kind = "dir" /\ i \in Inos
  BY <1>1, <1>3, MoveParts DEF LiveInv
<1>6. /\ RecLink(e, m, i) \in SlabRecords /\ RecUnlink(d, n) \in SlabRecords
  BY <1>5 DEF RecLink, RecUnlink, SlabRecords
<1> HIDE DEF i, D, s, t
\* It remains to know the slab, and what replay leads to.
<1>8. ASSUME Renamed(s, t, d, n, e, m), LiveInv(t) /\ Top(t) = Top(s) => disk' = Image(t, b)
      PROVE  TreeInv' /\ MayMove(live, d, n, e, m) /\ Renamed(live, live', d, n, e, m)
  <2>1. LiveInv(t) /\ Top(t) = Top(s)
    BY <1>1, <1>3, <1>8, RenamedLive DEF i
  <2>2. boots' \in 0..MaxBoots
    BY <1>1, <1>4
  <2>3. TreeInv'
    BY <1>8, <2>1, <2>2 DEF TreeInv, t
  <2> QED
    BY <1>3, <1>8, <2>3 DEF s, t
<1>9. CASE s[d].persist /\ s[e].persist
  <2>1. t = MoveEdit(s, d, n, e, m) /\ disk' = Replayed(D, (<<>> \o <<RecLink(e, m, i)>>) \o <<RecUnlink(d, n)>>)
    BY <1>2, <1>4, <1>9 DEF D
  <2>2. s[d].persist = s[e].persist
    BY <1>1, <1>3, <1>9 DEF NodeType
  <2>3. Renamed(s, t, d, n, e, m)
    <3>1. Renamed(s, MoveEdit(s, d, n, e, m), d, n, e, m)
      BY <1>1, <1>3, <2>2, RenamedHere
    <3> QED
      BY <2>1, <3>1, Zenon
  <2>4. ASSUME LiveInv(t), Top(t) = Top(s)
        PROVE  disk' = Image(t, b)
    <3>1. /\ Unlinked(Linked(D, e, m, i), d, n) = Image(t, b)
          /\ D[e].kind = "dir" /\ Used(D, i) /\ Linked(D, e, m, i)[d].kind = "dir"
      BY <1>1, <1>3, <1>9, <2>3, <2>4, ImageMoves DEF D, i
    <3> DEFINE L == Linked(D, e, m, i)
    <3>2. Run(D, <<>>, D) /\ Run(D, <<RecLink(e, m, i)>>, L) /\ Run(L, <<RecUnlink(d, n)>>, Image(t, b))
      <4>1. Apply(D, RecLink(e, m, i)) = L
        BY <3>1, ApplyLink
      <4>2. Apply(L, RecUnlink(d, n)) = Image(t, b)
        BY <3>1, ApplyUnlink
      <4>3. /\ Run(D, <<RecLink(e, m, i)>>, Apply(D, RecLink(e, m, i)))
            /\ Run(L, <<RecUnlink(d, n)>>, Apply(L, RecUnlink(d, n)))
        BY <1>6, RunOne
      <4> QED
        BY <4>1, <4>2, <4>3, RunNone, Zenon
    <3> HIDE DEF L
    <3>3. Run(D, <<>> \o <<RecLink(e, m, i)>>, L)
      BY <3>2, RunJoin
    <3>4. Run(D, (<<>> \o <<RecLink(e, m, i)>>) \o <<RecUnlink(d, n)>>, Image(t, b))
      BY <3>2, <3>3, RunJoin
    <3> QED
      BY <2>1, <3>4, RunReplayed, Zenon
  <2> QED
    BY <1>8, <2>3, <2>4
<1>10. CASE s[d].persist /\ ~s[e].persist
  <2>1. /\ t = WithPersist(MoveEdit(s, d, n, e, m), i, FALSE)
        /\ disk' = Replayed(D, (<<>> \o <<>>) \o <<RecUnlink(d, n)>>)
    BY <1>2, <1>4, <1>10, Zenon DEF D
  <2>2. \A j \in Below(s, s[d].children[n]): s[j].nlink = 1
    BY <1>3, <1>10, Zenon DEF i
  <2>3. Renamed(s, t, d, n, e, m)
    <3>1. Renamed(s, WithPersist(MoveEdit(s, d, n, e, m), s[d].children[n], FALSE), d, n, e, m)
      BY <1>1, <1>3, <1>10, <2>2, RenamedOut, Zenon
    <3> QED
      BY <2>1, <3>1, Zenon DEF i
  <2>4. ASSUME LiveInv(t), Top(t) = Top(s)
        PROVE  disk' = Image(t, b)
    <3>1. Unlinked(D, d, n) = Image(t, b)
      BY <1>1, <1>3, <1>10, <2>2, <2>3, <2>4, ImageGoes DEF D
    <3>2. D[d].kind = "dir"
      <4>1. Stored(s, d)
        BY <1>1, <1>5, <1>10, StoredAre
      <4> QED
        BY <1>1, <1>5, <4>1, ImageAt DEF D
    <3>3. Run(D, <<>>, D) /\ Run(D, <<RecUnlink(d, n)>>, Image(t, b))
      <4>1. Apply(D, RecUnlink(d, n)) = Image(t, b)
        BY <3>1, <3>2, ApplyUnlink
      <4>2. Run(D, <<RecUnlink(d, n)>>, Apply(D, RecUnlink(d, n)))
        BY <1>6, RunOne
      <4> QED
        BY <4>1, <4>2, RunNone, Zenon
    <3>4. Run(D, <<>> \o <<>>, D)
      BY <3>3, RunJoin
    <3>5. Run(D, (<<>> \o <<>>) \o <<RecUnlink(d, n)>>, Image(t, b))
      BY <3>3, <3>4, RunJoin
    <3> QED
      BY <2>1, <3>5, RunReplayed, Zenon
  <2> QED
    BY <1>8, <2>3, <2>4
<1>11. CASE ~s[d].persist /\ s[e].persist
  <2>1. /\ t = MoveEdit(u, d, n, e, m)
        /\ disk' = Replayed(D, (Emitted(u, i) \o <<RecLink(e, m, i)>>) \o <<>>)
    BY <1>2, <1>4, <1>11, Zenon DEF D
  <2>2. \A j \in Below(s, s[d].children[n]): s[j].nlink = 1
    BY <1>3, <1>11, Zenon DEF i
  <2>3. Renamed(s, t, d, n, e, m)
    <3>1. Renamed(s, MoveEdit(u, d, n, e, m), d, n, e, m)
      BY <1>1, <1>3, <1>11, <2>2, RenamedIn, Zenon DEF i
    <3> QED
      BY <2>1, <3>1, Zenon
  <2>4. ASSUME LiveInv(t), Top(t) = Top(s)
        PROVE  disk' = Image(t, b)
    <3>1. Run(D, Emitted(u, i) \o <<RecLink(e, m, i)>>, Image(t, b))
      BY <1>1, <1>3, <1>11, <2>2, <2>3, <2>4, ImageComes, Zenon DEF D, i
    <3> HIDE DEF u
    <3>2. Run(D, (Emitted(u, i) \o <<RecLink(e, m, i)>>) \o <<>>, Image(t, b))
      BY <3>1, RunNone, RunJoin
    <3> QED
      BY <2>1, <3>2, RunReplayed, Zenon
  <2> QED
    BY <1>8, <2>3, <2>4
<1>12. CASE ~s[d].persist /\ ~s[e].persist
  <2>1. /\ t = MoveEdit(s, d, n, e, m)
        /\ disk' = Replayed(D, (<<>> \o <<>>) \o <<>>)
    BY <1>2, <1>4, <1>12 DEF D
  <2>2. s[d].persist = s[e].persist
    BY <1>1, <1>3, <1>12 DEF NodeType
  <2>3. Renamed(s, t, d, n, e, m)
    <3>1. Renamed(s, MoveEdit(s, d, n, e, m), d, n, e, m)
      BY <1>1, <1>3, <2>2, RenamedHere
    <3> QED
      BY <2>1, <3>1, Zenon
  <2>4. ASSUME LiveInv(t), Top(t) = Top(s)
        PROVE  disk' = Image(t, b)
    <3>1. Image(t, b) = D
      BY <1>1, <1>3, <1>12, <2>3, <2>4, ImageOutside DEF D
    <3>2. Run(D, <<>>, D)
      BY RunNone
    <3>3. Run(D, <<>> \o <<>>, D)
      BY <3>2, RunJoin
    <3>4. Run(D, (<<>> \o <<>>) \o <<>>, D)
      BY <3>2, <3>3, RunJoin
    <3> QED
      BY <2>1, <3>1, <3>4, RunReplayed, Zenon
  <2> QED
    BY <1>8, <2>3, <2>4
<1> QED
  BY <1>9, <1>10, <1>11, <1>12

-----------------------------------------------------------------------------
\* The end of a frame

\* The first k numbers lose the nodes that nobody names.
Swept(s, k) == [j \in Inos |-> IF j \in 1..k /\ s[j].nlink = 0 THEN Vacant ELSE s[j]]

\* One number further in rebuild_free.
LEMMA SweptStep ==
  ASSUME NEW s, WholeSlab(s), NEW i \in 1..MaxIno, s[i].nlink = 0 => IsEmpty(s, i)
  PROVE  LET t == Swept(s, i - 1) IN
         /\ Used(t, i) /\ t[i].nlink = 0 => Freed(t, i) = Swept(s, i)
         /\ ~(Used(t, i) /\ t[i].nlink = 0) => t = Swept(s, i)
<1> DEFINE t == Swept(s, i - 1)
<1>1. s \in Slab /\ s \in [Inos -> NodeType] /\ \A j \in Inos: Used(s, j) \/ s[j] = Vacant
  BY SlabIs DEF WholeSlab
<1>2. i \in Inos /\ MaxIno \in Nat /\ Inos = 0..MaxIno
  BY SlabNumbers DEF Inos
<1>3. \A j \in Inos: j \in 1..i <=> (j \in 1..(i - 1) \/ j = i)
  BY <1>2
<1>4. i \notin 1..(i - 1)
  BY <1>2
<1>5. t \in [Inos -> NodeType]
  BY <1>1, VacantType DEF Swept
<1>6. \A j \in Inos: t[j] = IF j \in 1..(i - 1) /\ s[j].nlink = 0 THEN Vacant ELSE s[j]
  BY DEF Swept
<1>7. t = [j \in Inos |-> t[j]] /\ Swept(s, i) = [j \in Inos |-> Swept(s, i)[j]]
  BY DEF Swept
<1>8. \A j \in Inos: Swept(s, i)[j] = IF j \in 1..i /\ s[j].nlink = 0 THEN Vacant ELSE s[j]
  BY DEF Swept
<1> HIDE DEF t
<1>9. t[i] = s[i]
  BY <1>2, <1>4, <1>6
<1>10. \A j \in Inos: Used(t, j) \/ t[j] = Vacant
  BY <1>1, <1>6 DEF Used
<1>11. ASSUME Used(t, i), t[i].nlink = 0
       PROVE  Freed(t, i) = Swept(s, i)
  <2>1. IsEmpty(t, i)
    BY <1>9, <1>11, SameBelow
  <2>2. Freed(t, i) = [t EXCEPT ![i] = Vacant]
    BY <1>2, <1>5, <1>10, <2>1, LeafFreed, SlabIs
  <2> DEFINE u == [t EXCEPT ![i] = Vacant]
             v == Swept(s, i)
  <2>3. u = [j \in Inos |-> u[j]] /\ \A j \in Inos: u[j] = IF j = i THEN Vacant ELSE t[j]
    BY <1>5, <1>2, Zenon
  <2>4. s[i].nlink = 0
    BY <1>9, <1>11
  <2> HIDE DEF u, v
  <2>5. \A j \in Inos: u[j] = v[j]
    BY <1>3, <1>6, <1>8, <2>3, <2>4 DEF v
  <2>6. u = v
    BY <1>7, <2>3, <2>5 DEF v
  <2> QED
    BY <2>2, <2>6 DEF u, v
<1>12. ASSUME ~(Used(t, i) /\ t[i].nlink = 0)
       PROVE  t = Swept(s, i)
  <2>1. s[i].nlink = 0 => s[i] = Vacant
    BY <1>1, <1>2, <1>9, <1>12 DEF Used
  <2> DEFINE v == Swept(s, i)
  <2> HIDE DEF v
  <2>2. \A j \in Inos: t[j] = v[j]
    BY <1>3, <1>4, <1>6, <1>8, <2>1 DEF v
  <2>3. t = v
    BY <1>7, <2>2 DEF v
  <2> QED
    BY <2>3 DEF v
<1> QED
  BY <1>11, <1>12 DEF t

\* rebuild_free takes the nodes without a name, and nothing else, when they are empty.
LEMMA RebuiltIs ==
  ASSUME NEW s, WholeSlab(s), \A i \in Inos \ {Root}: s[i].nlink = 0 => IsEmpty(s, i)
  PROVE  Rebuilt(s) = Swept(s, MaxIno)
<1> DEFINE Next2(f, i) == IF Used(f, i) /\ f[i].nlink = 0 THEN Freed(f, i) ELSE f
           Solves(f) == f = [i \in Inos |-> IF i = 0 THEN s ELSE Next2(f[i - 1], i)]
           after == CHOOSE f: Solves(f)
           g == [i \in Inos |-> Swept(s, i)]
<1>1. MaxIno \in Nat /\ Inos = 0..MaxIno
  BY SlabNumbers DEF Inos
<1>2. \A i \in Inos: i = 0 \/ i \in 1..MaxIno
  BY <1>1
<1>3. \A i \in 1..MaxIno: i \in Inos /\ i - 1 \in Inos /\ i # 0
  BY <1>1
<1>4. g = [i \in Inos |-> g[i]] /\ \A i \in Inos: g[i] = Swept(s, i)
  OBVIOUS
<1>5. Swept(s, 0) = s
  <2>1. s \in [Inos -> NodeType]
    BY SlabIs DEF WholeSlab
  <2>2. \A j \in Inos: ~(j \in 1..0)
    BY <1>1
  <2> QED
    BY <2>1, <2>2 DEF Swept
<1>6. ASSUME NEW i \in 1..MaxIno
      PROVE  Next2(Swept(s, i - 1), i) = Swept(s, i)
  <2>1. i \in Inos \ {Root}
    BY <1>3 DEF Root
  <2>2. s[i].nlink = 0 => IsEmpty(s, i)
    BY <2>1
  <2>3. LET t == Swept(s, i - 1) IN
         /\ Used(t, i) /\ t[i].nlink = 0 => Freed(t, i) = Swept(s, i)
         /\ ~(Used(t, i) /\ t[i].nlink = 0) => t = Swept(s, i)
    BY <2>2, SweptStep
  <2> QED
    BY <2>3, Zenon
<1> HIDE DEF Next2, g
<1>7. \A i \in Inos: g[i] = IF i = 0 THEN s ELSE Next2(g[i - 1], i)
  <2> TAKE i \in Inos
  <2>1. CASE i = 0
    BY <1>4, <1>5, <2>1
  <2>2. CASE i # 0
    <3>1. i \in 1..MaxIno /\ i - 1 \in Inos
      BY <1>2, <1>3, <2>2
    <3>2. g[i] = Swept(s, i) /\ g[i - 1] = Swept(s, i - 1)
      BY <1>4, <3>1
    <3> QED
      BY <1>6, <2>2, <3>1, <3>2, Zenon
  <2> QED
    BY <2>1, <2>2
<1>8. Solves(g)
  BY <1>4, <1>7, Zenon
<1>9. Solves(after)
  <2> HIDE DEF Solves
  <2> QED
    BY <1>8
<1>10. \A i \in Inos: after[i] = IF i = 0 THEN s ELSE Next2(after[i - 1], i)
  <2> HIDE DEF after
  <2> QED
    BY <1>9, Zenon
<1>11. Rebuilt(s) = after[MaxIno]
  BY DEF Rebuilt, Next2
<1> HIDE DEF after, Solves
<1> DEFINE P == {i \in 0..MaxIno: after[i] = g[i]}
<1>12. 0 \in P
  <2>1. 0 \in Inos
    BY <1>1
  <2>2. after[0] = g[0]
    BY <1>7, <1>10, <2>1, Zenon
  <2> QED
    BY <1>1, <2>2
<1>13. ASSUME NEW i \in 1..MaxIno, i - 1 \in P
       PROVE  i \in P
  <2>1. after[i - 1] = g[i - 1] /\ i # 0 /\ i \in Inos
    BY <1>3, <1>13
  <2>2. after[i] = Next2(after[i - 1], i) /\ g[i] = Next2(g[i - 1], i)
    BY <1>7, <1>10, <2>1
  <2>3. after[i] = g[i]
    BY <2>1, <2>2, Zenon
  <2> QED
    BY <1>1, <2>1, <2>3
<1>14. \A i \in 0..MaxIno: i \in P
  <2> HIDE DEF P
  <2> QED
    BY <1>1, <1>12, <1>13, Climb, Zenon
<1>15. MaxIno \in 0..MaxIno /\ MaxIno \in Inos
  BY <1>1
<1>16. after[MaxIno] = g[MaxIno]
  BY <1>14, <1>15
<1> QED
  BY <1>4, <1>11, <1>15, <1>16

\* Where every node has a name, nothing goes.
LEMMA RebuiltSame ==
  ASSUME NEW s, WholeSlab(s), \A i \in Inos \ {Root}: Used(s, i) => s[i].nlink # 0
  PROVE  Rebuilt(s) = s
<1>1. s \in [Inos -> NodeType] /\ \A j \in Inos: Used(s, j) \/ s[j] = Vacant
  BY SlabIs DEF WholeSlab
<1>2. \A j \in Inos \ {Root}: s[j].nlink = 0 => s[j] = Vacant
  BY <1>1
<1>3. \A i \in Inos \ {Root}: s[i].nlink = 0 => IsEmpty(s, i)
  <2> TAKE i \in Inos \ {Root}
  <2>1. SUFFICES ASSUME s[i].nlink = 0
                 PROVE  IsEmpty(s, i)
    OBVIOUS
  <2>2. s[i].children = NoNames
    BY <1>2, <2>1, VacantIs
  <2> QED
    BY <2>2 DEF IsEmpty, Children, NoNames
<1>4. Swept(s, MaxIno) = s
  <2>1. \A j \in Inos: j \in 1..MaxIno => j # Root
    BY DEF Root
  <2>2. \A j \in Inos: (IF j \in 1..MaxIno /\ s[j].nlink = 0 THEN Vacant ELSE s[j]) = s[j]
    BY <1>2, <2>1
  <2> QED
    BY <1>1, <2>2 DEF Swept
<1> QED
  BY <1>3, <1>4, RebuiltIs

\* rebuild_free finds nothing to take in an image.
LEMMA ImageRebuilt ==
  ASSUME NEW s, LiveInv(s), NEW b \in {0, 1}
  PROVE  Rebuilt(Image(s, b)) = Image(s, b)
<1> DEFINE D == Image(s, b)
<1>1. s \in [Inos -> NodeType]
  BY SlabIs DEF LiveInv, Shapes
<1>2. WholeSlab(D)
  BY ImageShapes DEF Shapes, WholeSlab
<1>3. ASSUME NEW i \in Inos \ {Root}, Used(D, i)
      PROVE  D[i].nlink # 0
  <2>1. CASE Stored(s, i)
    <3>1. s[i].nlink > 0 /\ s[i].nlink \in Nat
      BY <1>1, <2>1 DEF Stored, NodeType
    <3>2. D[i].nlink = s[i].nlink
      BY <1>1, <2>1, ImageAt
    <3> QED
      BY <3>1, <3>2
  <2>2. CASE ~Stored(s, i)
    <3>1. D[i] = EmptyTop \/ D[i] = Vacant
      BY <2>2, ImageOut
    <3>2. D[i].kind # "none"
      BY <1>3 DEF Used
    <3> HIDE DEF D
    <3> QED
      BY <3>1, <3>2, EmptyTopIs, VacantIs
  <2> QED
    BY <2>1, <2>2
<1> HIDE DEF D
<1>4. Rebuilt(D) = D
  BY <1>2, <1>3, RebuiltSame
<1> QED
  BY <1>4 DEF D

\* The end of a frame keeps the invariant.
LEMMA FrameKeeps ==
  ASSUME TreeInv, EndFrame
  PROVE  TreeInv'
<1>1. PICK b \in {0, 1}: disk = Image(live, b)
  BY DEF TreeInv
<1>2. Rebuilt(disk) = disk
  BY <1>1, ImageRebuilt DEF TreeInv
<1> QED
  BY <1>2 DEF EndFrame, TreeInv

-----------------------------------------------------------------------------
\* A snapshot

Void == [i \in Inos |-> Vacant]
Lasts(s) == {i \in Inos: Used(s, i) /\ s[i].persist}
Entries(s) ==
  {e \in Lasts(s) \X Names: s[e[1]].children[e[2]] # NoEntry /\ s[s[e[1]].children[e[2]]].persist}

NodeRecords(s, i) == IF Used(s, i) /\ s[i].persist THEN <<RecNode(s, i)>> ELSE <<>>
NameRecords(s, i, n) ==
  IF s[i].children[n] # NoEntry /\ s[s[i].children[n]].persist
  THEN <<RecLink(i, n, s[i].children[n])>> ELSE <<>>
DirRecords(s, i) ==
  IF s[i].kind = "dir" /\ s[i].persist THEN Joined([n \in Names |-> NameRecords(s, i, n)]) ELSE <<>>

\* A snapshot: the nodes, then the names.
LEMMA SnapshotIs ==
  ASSUME NEW s
  PROVE  Snapshotted(s) = Joined([k \in 1..MaxIno + 1 |-> NodeRecords(s, k - 1)])
                            \o Joined([k \in 1..MaxIno + 1 |-> DirRecords(s, k - 1)])
BY Zenon DEF Snapshotted, NodeRecords, DirRecords, NameRecords

\* What a snapshot says of a node, and of its names, are records.
LEMMA RecordTypes ==
  ASSUME NEW s, s \in [Inos -> NodeType], NEW i \in Inos
  PROVE  /\ NodeRecords(s, i) \in Seq(SlabRecords) /\ DirRecords(s, i) \in Seq(SlabRecords)
         /\ \A n \in Names: NameRecords(s, i, n) \in Seq(SlabRecords)
<1>1. RecNode(s, i) \in SlabRecords
  <2>1. s[i] \in NodeType
    OBVIOUS
  <2>2. s[i].kind \in {"none", "file", "dir"} /\ s[i].data \in Data
    BY <2>1 DEF NodeType
  <2> QED
    BY <2>2 DEF RecNode, SlabRecords
<1>2. NodeRecords(s, i) \in Seq(SlabRecords)
  BY <1>1 DEF NodeRecords
<1>3. ASSUME NEW n \in Names
      PROVE  NameRecords(s, i, n) \in Seq(SlabRecords)
  <2>1. s[i].children[n] \in Inos
    BY DEF NodeType
  <2>2. RecLink(i, n, s[i].children[n]) \in SlabRecords
    BY <2>1 DEF RecLink, SlabRecords
  <2> QED
    BY <2>2 DEF NameRecords
<1>4. DirRecords(s, i) \in Seq(SlabRecords)
  <2> DEFINE seqs == [n \in Names |-> NameRecords(s, i, n)]
  <2>1. NameCount \in Nat /\ seqs \in [1..NameCount -> Seq(SlabRecords)]
    BY <1>3, SlabNumbers DEF Names
  <2> HIDE DEF seqs
  <2>2. Joined(seqs) \in Seq(SlabRecords)
    BY <2>1, JoinedType
  <2>3. CASE s[i].kind = "dir" /\ s[i].persist
    <3>1. DirRecords(s, i) = Joined(seqs)
      BY <2>3, Zenon DEF DirRecords, seqs
    <3> QED
      BY <2>2, <3>1, Zenon
  <2>4. CASE ~(s[i].kind = "dir" /\ s[i].persist)
    <3>1. DirRecords(s, i) = <<>>
      BY <2>4, Zenon DEF DirRecords
    <3> QED
      BY <3>1
  <2> QED
    BY <2>3, <2>4
<1> QED
  BY <1>2, <1>3, <1>4

\* A fresh slab has the root and no more.
LEMMA FreshIs ==
  ASSUME NEW s, Shapes(s)
  PROVE  Graft(s, Void, {Root}, {}) = Fresh /\ Graftable(s, Void, {Root}, {})
<1>1. s \in [Inos -> NodeType] /\ s[Root].kind = "dir" /\ s[Root].data = Blank /\ Root \in Inos
  BY SlabIs, SlabNumbers DEF Shapes
<1>2. Graftable(s, Void, {Root}, {})
  <2>1. Void \in [Inos -> NodeType] /\ \A i \in Inos: Void[i] = Vacant
    BY VacantType DEF Void
  <2> QED
    BY <1>1, <2>1, SlabIs DEF Graftable, WholeSlab, Used
<1>3. Grafted(s, {}, Root) = Node("dir", TRUE, Blank)
  <2>1. [k \in Names |-> IF <<Root, k>> \in {} THEN s[Root].children[k] ELSE NoEntry] =
          [k \in Names |-> NoEntry]
    OBVIOUS
  <2> QED
    BY <1>1, <2>1, Zenon DEF Grafted, Node
<1>4. \A i \in Inos: (IF i \in {Root} THEN Grafted(s, {}, i) ELSE Void[i]) =
                     (IF i = Root THEN Node("dir", TRUE, Blank) ELSE Vacant)
  BY <1>3, Zenon DEF Void
<1>5. Graft(s, Void, {Root}, {}) = Fresh
  BY <1>4, Zenon DEF Graft, Fresh
<1> QED
  BY <1>2, <1>5

NodesTo(s, k) == {Root} \cup {i \in Lasts(s): i < k}

\* Replay of the first half of a snapshot: all the persistent nodes, without names.
LEMMA NodesRun ==
  ASSUME NEW s, Shapes(s)
  PROVE  /\ Run(Fresh, Joined([k \in 1..MaxIno + 1 |-> NodeRecords(s, k - 1)]),
                Graft(s, Void, Lasts(s), {}))
         /\ Graftable(s, Void, Lasts(s), {})
<1> DEFINE h == [k \in 0..MaxIno + 1 |-> Graft(s, Void, NodesTo(s, k), {})]
           seqs == [k \in 1..MaxIno + 1 |-> NodeRecords(s, k - 1)]
<1>1. s \in [Inos -> NodeType] /\ s[Root].kind = "dir" /\ s[Root].persist /\ Root \in Inos
  BY SlabIs, SlabNumbers DEF Shapes
<1>2. MaxIno \in Nat /\ Inos = 0..MaxIno /\ Root = 0
  BY SlabNumbers DEF Inos, Root
<1>3. Root \in Lasts(s)
  BY <1>1 DEF Lasts, Used
<1>4. Graft(s, Void, {Root}, {}) = Fresh /\ Graftable(s, Void, {Root}, {})
  BY FreshIs
<1>5. ASSUME NEW k
      PROVE  Graftable(s, Void, NodesTo(s, k), {})
  <2>1. NodesTo(s, k) \in SUBSET Inos /\ \A j \in NodesTo(s, k): Used(s, j)
    BY <1>3 DEF NodesTo, Lasts
  <2> QED
    BY <1>4, <2>1 DEF Graftable
<1>6. NodesTo(s, 0) = {Root} /\ NodesTo(s, MaxIno + 1) = Lasts(s)
  <2>1. \A i \in Inos: ~(i < 0) /\ i < MaxIno + 1
    BY <1>2
  <2> QED
    BY <1>3, <2>1 DEF NodesTo, Lasts
<1>7. ASSUME NEW k \in 1..MaxIno + 1
      PROVE  Run(Graft(s, Void, NodesTo(s, k - 1), {}), NodeRecords(s, k - 1),
                 Graft(s, Void, NodesTo(s, k), {}))
  <2> DEFINE i == k - 1
             X == NodesTo(s, i)
             Y == NodesTo(s, k)
  <2>1. i \in Inos
    BY <1>2
  <2>2. \A j \in Inos: j < k <=> (j < i \/ j = i)
    BY <1>2
  <2>3. Y = X \cup (IF i \in Lasts(s) THEN {i} ELSE {})
    <3> HIDE DEF i
    <3> QED
      BY <2>1, <2>2 DEF NodesTo, Lasts
  <2>4. i # Root => i \notin X
    <3>1. ~(i < i)
      BY <1>2
    <3> HIDE DEF i
    <3> QED
      BY <3>1 DEF NodesTo
  <2>5. Root \in X
    BY DEF NodesTo
  <2>6. Graftable(s, Void, X, {})
    BY <1>5
  <2> HIDE DEF i, X, Y
  <2>7. CASE i \notin Lasts(s)
    <3>1. Y = X
      BY <2>3, <2>7
    <3>2. NodeRecords(s, i) = <<>>
      BY <2>1, <2>7 DEF NodeRecords, Lasts
    <3>3. Run(Graft(s, Void, X, {}), <<>>, Graft(s, Void, X, {}))
      BY RunNone
    <3> QED
      BY <3>1, <3>2, <3>3, Zenon DEF X, Y, i
  <2>8. CASE i \in Lasts(s) /\ i = Root
    <3>1. Y = X
      BY <2>3, <2>5, <2>8
    <3>2. NodeRecords(s, i) = <<RecNode(s, i)>>
      BY <2>8 DEF NodeRecords, Lasts
    <3>3. RecNode(s, i) \in SlabRecords
      BY <1>1, <2>1 DEF RecNode, SlabRecords, NodeType
    <3> DEFINE G == Graft(s, Void, X, {})
    <3>4. Run(G, <<RecNode(s, i)>>, Apply(G, RecNode(s, i)))
      BY <3>3, RunOne
    <3>5. Apply(G, RecNode(s, i)) = G
      BY <2>8, ApplyNode, Zenon
    <3>6. Run(G, <<RecNode(s, i)>>, G)
      BY <3>4, <3>5, Zenon
    <3> QED
      BY <3>1, <3>2, <3>6, Zenon DEF X, Y, i
  <2>9. CASE i \in Lasts(s) /\ i # Root
    <3>1. Y = X \cup {i}
      BY <2>3, <2>9
    <3>2. NodeRecords(s, i) = <<RecNode(s, i)>>
      BY <2>9 DEF NodeRecords, Lasts
    <3>3. i \in Inos \ {Root} /\ i \notin X /\ Used(s, i) /\ Void[i] = Vacant /\ Into(s, {}, i) = {}
      BY <2>1, <2>4, <2>9 DEF Lasts, Void, Into
    <3>4. Run(Graft(s, Void, X, {}), <<RecNode(s, i)>>, Graft(s, Void, X \cup {i}, {}))
      BY <2>6, <3>3, GraftNode
    <3> QED
      BY <3>1, <3>2, <3>4, Zenon DEF X, Y, i
  <2> QED
    BY <2>7, <2>8, <2>9
<1>8. seqs \in [1..MaxIno + 1 -> Seq(SlabRecords)]
  <2>1. \A k \in 1..MaxIno + 1: k - 1 \in Inos
    BY <1>2
  <2> QED
    BY <1>1, <2>1, RecordTypes
<1>9. \A k \in 1..MaxIno + 1: Run(h[k - 1], seqs[k], h[k])
  <2> TAKE k \in 1..MaxIno + 1
  <2>1. k \in 0..MaxIno + 1 /\ k - 1 \in 0..MaxIno + 1
    BY <1>2
  <2>2. /\ h[k - 1] = Graft(s, Void, NodesTo(s, k - 1), {}) /\ h[k] = Graft(s, Void, NodesTo(s, k), {})
        /\ seqs[k] = NodeRecords(s, k - 1)
    BY <2>1
  <2> QED
    BY <1>7, <2>2, Zenon
<1>10. h[0] = Fresh /\ h[MaxIno + 1] = Graft(s, Void, Lasts(s), {})
  <2>1. h[0] = Graft(s, Void, NodesTo(s, 0), {})
        /\ h[MaxIno + 1] = Graft(s, Void, NodesTo(s, MaxIno + 1), {})
    BY <1>2
  <2> QED
    BY <1>4, <1>6, <2>1, Zenon
<1> HIDE DEF h, seqs
<1>11. Run(h[0], Joined(seqs), h[MaxIno + 1])
  <2> DEFINE q == MaxIno + 1
  <2>1. q \in Nat
    BY <1>2
  <2> HIDE DEF q
  <2>2. seqs \in [1..q -> Seq(SlabRecords)] /\ \A k \in 1..q: Run(h[k - 1], seqs[k], h[k])
    BY <1>8, <1>9 DEF q
  <2>3. Run(h[0], Joined(seqs), h[q])
    BY <2>1, <2>2, JoinedRun, Zenon
  <2> QED
    BY <2>3 DEF q
<1>12. Graftable(s, Void, Lasts(s), {})
  BY <1>5, <1>6, Zenon
<1> QED
  BY <1>10, <1>11, <1>12, Zenon DEF seqs

\* The names of the first k nodes, and the first n names of the node after them.
NamesTo(s, k, n) == {e \in Entries(s): e[1] < k \/ (e[1] = k /\ e[2] <= n)}

\* A link of the snapshot adds its entry.
LEMMA NameRun ==
  ASSUME NEW s, Shapes(s), SlabSound(s), Tree(s), NEW i \in Inos, NEW n \in Names, s[i].persist,
         s[i].kind = "dir", Graftable(s, Void, Lasts(s), {})
  PROVE  Run(Graft(s, Void, Lasts(s), NamesTo(s, i, n - 1)), NameRecords(s, i, n),
             Graft(s, Void, Lasts(s), NamesTo(s, i, n)))
<1> DEFINE c == s[i].children[n]
           X == Lasts(s)
           P == NamesTo(s, i, n - 1)
           R == NamesTo(s, i, n)
<1>1. s \in [Inos -> NodeType] /\ s \in Slab
  BY SlabIs DEF Shapes
<1>2. \A q \in Names: q \in Nat /\ (q <= n <=> (q <= n - 1 \/ q = n)) /\ ~(n <= n - 1)
  BY SlabNumbers DEF Names
<1>3. i \in Nat
  BY SlabNumbers
<1>4. Graftable(s, Void, X, P)
  <2>1. P \in SUBSET (X \X Names)
    BY DEF NamesTo, Entries
  <2> QED
    BY <2>1 DEF Graftable
<1>5. ASSUME NEW e \in Entries(s)
      PROVE  e = <<e[1], e[2]>> /\ e[1] \in Inos /\ e[2] \in Names
  BY DEF Entries, Lasts
<1>6. R = P \cup (IF <<i, n>> \in Entries(s) THEN {<<i, n>>} ELSE {})
  <2>1. ASSUME NEW e \in Entries(s)
        PROVE  e \in R <=> (e \in P \/ e = <<i, n>>)
    <3>1. e = <<e[1], e[2]>> /\ e[1] \in Inos /\ e[2] \in Names
      BY <1>5
    <3>2. e[2] <= n <=> (e[2] <= n - 1 \/ e[2] = n)
      BY <1>2, <3>1
    <3>3. e = <<i, n>> <=> e[1] = i /\ e[2] = n
      BY <3>1
    <3> QED
      BY <3>2, <3>3 DEF NamesTo
  <2>2. R \subseteq Entries(s) /\ P \subseteq Entries(s)
    BY DEF NamesTo
  <2> HIDE DEF R, P
  <2> QED
    BY <2>1, <2>2
<1>7. <<i, n>> \notin P
  <2>1. ~(i < i) /\ ~(n <= n - 1)
    BY <1>2, <1>3
  <2> QED
    BY <2>1 DEF NamesTo
<1>8. i \in X
  BY DEF Lasts, Used
<1>9. <<i, n>> \in Entries(s) <=> c # NoEntry /\ s[c].persist
  BY <1>8 DEF Entries
<1> HIDE DEF P, R
<1>10. CASE <<i, n>> \notin Entries(s)
  <2>1. R = P
    BY <1>6, <1>10
  <2>2. NameRecords(s, i, n) = <<>>
    BY <1>9, <1>10, Zenon DEF NameRecords
  <2>3. Run(Graft(s, Void, X, P), <<>>, Graft(s, Void, X, P))
    BY RunNone
  <2> QED
    BY <2>1, <2>2, <2>3, Zenon DEF P, R
<1>11. CASE <<i, n>> \in Entries(s)
  <2>1. R = P \cup {<<i, n>>}
    BY <1>6, <1>11
  <2>2. NameRecords(s, i, n) = <<RecLink(i, n, c)>>
    BY <1>9, <1>11, Zenon DEF NameRecords
  <2>3. c # NoEntry /\ s[c].persist
    BY <1>9, <1>11
  <2>4. c \in Inos /\ Used(s, c)
    BY <2>3, NamedUsed
  <2>5. c # i
    <3>1. i \notin Below(s, c)
      BY <2>3, NoLoop
    <3>2. c \in Below(s, c)
      <4> HIDE DEF c
      <4> QED
        BY <1>1, <2>4, BelowIs
    <3> QED
      BY <3>1, <3>2
  <2>6. c \in X
    BY <2>3, <2>4 DEF Lasts
  <2> HIDE DEF X
  <2>7. Run(Graft(s, Void, X, P), <<RecLink(i, n, c)>>, Graft(s, Void, X, P \cup {<<i, n>>}))
    BY <1>4, <1>7, <1>8, <2>3, <2>5, <2>6, GraftLink
  <2> QED
    BY <2>1, <2>2, <2>7, Zenon DEF P, R, X
<1> QED
  BY <1>10, <1>11

\* So do those of a directory.
LEMMA DirRun ==
  ASSUME NEW s, Shapes(s), SlabSound(s), Tree(s), NEW i \in Inos, Graftable(s, Void, Lasts(s), {})
  PROVE  Run(Graft(s, Void, Lasts(s), NamesTo(s, i, 0)), DirRecords(s, i),
             Graft(s, Void, Lasts(s), NamesTo(s, i + 1, 0)))
<1> DEFINE X == Lasts(s)
<1>1. s \in [Inos -> NodeType]
  BY SlabIs DEF Shapes
<1>2. NameCount \in Nat /\ Names = 1..NameCount /\ i \in Nat /\ Inos \subseteq Nat
  BY SlabNumbers DEF Names
<1>3. \A e \in Entries(s): e[1] \in Inos /\ e[2] \in Names
  BY DEF Entries, Lasts
<1>4. NamesTo(s, i, NameCount) = NamesTo(s, i + 1, 0)
  <2>1. ASSUME NEW e \in Entries(s)
        PROVE  (e[1] < i \/ (e[1] = i /\ e[2] <= NameCount)) <=> (e[1] < i + 1 \/ (e[1] = i + 1 /\ e[2] <= 0))
    <3>1. e[1] \in Nat /\ e[2] \in 1..NameCount
      BY <1>2, <1>3, Zenon
    <3> QED
      BY <1>2, <3>1
  <2> QED
    BY <2>1 DEF NamesTo
<1>5. CASE s[i].kind = "dir" /\ s[i].persist
  <2> DEFINE h == [n \in 0..NameCount |-> Graft(s, Void, X, NamesTo(s, i, n))]
             seqs == [n \in Names |-> NameRecords(s, i, n)]
  <2>1. \A n \in Names: Run(Graft(s, Void, X, NamesTo(s, i, n - 1)), NameRecords(s, i, n),
                            Graft(s, Void, X, NamesTo(s, i, n)))
    BY <1>5, NameRun
  <2>2. seqs \in [1..NameCount -> Seq(SlabRecords)]
    BY <1>1, <1>2, RecordTypes
  <2>3. \A n \in 1..NameCount: Run(h[n - 1], seqs[n], h[n])
    <3> TAKE n \in 1..NameCount
    <3>1. n \in Names /\ n \in 0..NameCount /\ n - 1 \in 0..NameCount
      BY <1>2
    <3>2. /\ h[n - 1] = Graft(s, Void, X, NamesTo(s, i, n - 1)) /\ h[n] = Graft(s, Void, X, NamesTo(s, i, n))
          /\ seqs[n] = NameRecords(s, i, n)
      BY <3>1
    <3> QED
      BY <2>1, <3>1, <3>2, Zenon
  <2>4. /\ h[0] = Graft(s, Void, X, NamesTo(s, i, 0))
        /\ h[NameCount] = Graft(s, Void, X, NamesTo(s, i, NameCount))
    BY <1>2
  <2> HIDE DEF h, seqs
  <2>5. Run(h[0], Joined(seqs), h[NameCount])
    BY <1>2, <2>2, <2>3, JoinedRun, Zenon
  <2>6. DirRecords(s, i) = Joined(seqs)
    BY <1>5, Zenon DEF DirRecords, seqs
  <2> QED
    BY <1>4, <2>4, <2>5, <2>6, Zenon
<1>6. CASE ~(s[i].kind = "dir" /\ s[i].persist)
  <2>1. DirRecords(s, i) = <<>>
    BY <1>6, Zenon DEF DirRecords
  <2>2. \A e \in Entries(s): e[1] # i
    <3> TAKE e \in Entries(s)
    <3>1. e[1] \in Inos /\ e[2] \in Names /\ s[e[1]].children[e[2]] # NoEntry /\ s[e[1]].persist
      BY <1>3 DEF Entries, Lasts
    <3>2. s[e[1]].kind = "dir"
      BY <3>1, NamedUsed
    <3> QED
      BY <1>6, <3>1, <3>2
  <2>3. NamesTo(s, i, 0) = NamesTo(s, i, NameCount)
    BY <2>2 DEF NamesTo
  <2>4. Run(Graft(s, Void, X, NamesTo(s, i, 0)), <<>>, Graft(s, Void, X, NamesTo(s, i, 0)))
    BY RunNone
  <2> QED
    BY <1>4, <2>1, <2>3, <2>4, Zenon
<1> QED
  BY <1>5, <1>6

\* Replay of the second half: all the names.
LEMMA NamesRun ==
  ASSUME NEW s, Shapes(s), SlabSound(s), Tree(s), Graftable(s, Void, Lasts(s), {})
  PROVE  Run(Graft(s, Void, Lasts(s), {}), Joined([k \in 1..MaxIno + 1 |-> DirRecords(s, k - 1)]),
             Graft(s, Void, Lasts(s), Entries(s)))
<1> DEFINE X == Lasts(s)
           h == [k \in 0..MaxIno + 1 |-> Graft(s, Void, X, NamesTo(s, k, 0))]
           seqs == [k \in 1..MaxIno + 1 |-> DirRecords(s, k - 1)]
<1>1. s \in [Inos -> NodeType]
  BY SlabIs DEF Shapes
<1>2. MaxIno \in Nat /\ Inos = 0..MaxIno /\ Names = 1..NameCount /\ NameCount \in Nat
  BY SlabNumbers DEF Inos, Names
<1>3. \A e \in Entries(s): e[1] \in Inos /\ e[2] \in Names
  BY DEF Entries, Lasts
<1>4. NamesTo(s, 0, 0) = {} /\ NamesTo(s, MaxIno + 1, 0) = Entries(s)
  <2>1. ASSUME NEW e \in Entries(s)
        PROVE  ~(e[1] < 0 \/ (e[1] = 0 /\ e[2] <= 0)) /\ e[1] < MaxIno + 1
    <3>1. e[1] \in 0..MaxIno /\ e[2] \in 1..NameCount
      BY <1>2, <1>3
    <3> QED
      BY <1>2, <3>1
  <2> QED
    BY <2>1 DEF NamesTo
<1>5. seqs \in [1..MaxIno + 1 -> Seq(SlabRecords)]
  <2>1. \A k \in 1..MaxIno + 1: k - 1 \in Inos
    BY <1>2
  <2> QED
    BY <1>1, <2>1, RecordTypes
<1>6. \A k \in 1..MaxIno + 1: Run(h[k - 1], seqs[k], h[k])
  <2> TAKE k \in 1..MaxIno + 1
  <2> DEFINE i == k - 1
  <2>1. k \in 0..MaxIno + 1 /\ i \in 0..MaxIno + 1 /\ i \in Inos /\ i + 1 = k
    BY <1>2
  <2>2. /\ h[i] = Graft(s, Void, X, NamesTo(s, i, 0)) /\ h[k] = Graft(s, Void, X, NamesTo(s, k, 0))
        /\ seqs[k] = DirRecords(s, i)
    BY <2>1
  <2> HIDE DEF i, h, seqs
  <2>3. Run(Graft(s, Void, X, NamesTo(s, i, 0)), DirRecords(s, i), Graft(s, Void, X, NamesTo(s, i + 1, 0)))
    BY <2>1, DirRun
  <2>4. Run(h[i], seqs[k], h[k])
    BY <2>1, <2>2, <2>3, Zenon
  <2> QED
    BY <2>4 DEF i
<1>7. h[0] = Graft(s, Void, X, {}) /\ h[MaxIno + 1] = Graft(s, Void, X, Entries(s))
  <2>1. h[0] = Graft(s, Void, X, NamesTo(s, 0, 0))
        /\ h[MaxIno + 1] = Graft(s, Void, X, NamesTo(s, MaxIno + 1, 0))
    BY <1>2
  <2> QED
    BY <1>4, <2>1, Zenon
<1> HIDE DEF h, seqs
<1>8. Run(h[0], Joined(seqs), h[MaxIno + 1])
  <2> DEFINE q == MaxIno + 1
  <2>1. q \in Nat
    BY <1>2
  <2> HIDE DEF q
  <2>2. seqs \in [1..q -> Seq(SlabRecords)] /\ \A k \in 1..q: Run(h[k - 1], seqs[k], h[k])
    BY <1>5, <1>6 DEF q
  <2>3. Run(h[0], Joined(seqs), h[q])
    BY <2>1, <2>2, JoinedRun, Zenon
  <2> QED
    BY <2>3 DEF q
<1> QED
  BY <1>7, <1>8, Zenon DEF seqs

\* An entry between persistent nodes is any entry of a persistent node.
LEMMA EntriesAre ==
  ASSUME NEW s, LiveInv(s), NEW j \in Inos, NEW k \in Names, s[j].children[k] # NoEntry
  PROVE  /\ <<j, k>> \in Entries(s) <=> s[s[j].children[k]].persist
         /\ <<j, k>> \in Entries(s) <=> s[j].persist /\ <<j, k>> # <<Root, Tmp>>
<1> DEFINE c == s[j].children[k]
<1>1. Shapes(s) /\ SlabSound(s) /\ Border(s)
  BY DEF LiveInv
<1>2. s[j].kind = "dir"
  BY <1>1, NamedUsed
<1>3. ~s[Top(s)].persist /\ s[Root].persist
  BY <1>1 DEF Border, Shapes
<1>4. <<j, k>> # <<Root, Tmp>> => s[c].persist = s[j].persist
  BY <1>1 DEF Border
<1>5. <<j, k>> = <<Root, Tmp>> => c = Top(s)
  BY DEF Top
<1>6. j \in Lasts(s) <=> s[j].persist
  BY <1>2 DEF Lasts, Used
<1>7. <<j, k>> \in Entries(s) <=> j \in Lasts(s) /\ s[c].persist
  BY DEF Entries
<1> HIDE DEF c
<1>8. s[c].persist => s[j].persist /\ <<j, k>> # <<Root, Tmp>>
  <2>1. CASE <<j, k>> = <<Root, Tmp>>
    BY <1>3, <1>5, <2>1
  <2>2. CASE <<j, k>> # <<Root, Tmp>>
    BY <1>4, <2>2, Zenon
  <2> QED
    BY <2>1, <2>2
<1>9. s[j].persist /\ <<j, k>> # <<Root, Tmp>> => s[c].persist
  BY <1>4, Zenon
<1> QED
  BY <1>6, <1>7, <1>8, <1>9 DEF c

\* What replaying a snapshot gives, with the nodes that are open without a name.
LEMMA SnapshotNode ==
  ASSUME NEW s, LiveInv(s), NEW j \in Lasts(s)
  PROVE  LET z == Grafted(s, Entries(s), j) IN
         /\ z \in NodeType /\ z.kind = s[j].kind /\ z.persist /\ z.opens = 0 /\ z.data = s[j].data
         /\ z.nlink = s[j].nlink
         /\ \A k \in Names: z.children[k] =
              IF j = Root /\ k = Tmp THEN NoEntry ELSE s[j].children[k]
<1> DEFINE z == Grafted(s, Entries(s), j)
<1>1. s \in [Inos -> NodeType] /\ s \in Slab /\ Shapes(s) /\ SlabSound(s)
  BY SlabIs DEF LiveInv, Shapes
<1>2. j \in Inos /\ s[j].persist /\ Used(s, j)
  BY DEF Lasts
<1>3. Entries(s) \in SUBSET (Inos \X Names)
  BY DEF Entries, Lasts
<1>4. /\ z \in NodeType /\ z.kind = s[j].kind /\ z.persist /\ z.opens = 0 /\ z.data = s[j].data
      /\ z.nlink = (IF j = Root THEN 0 ELSE Cardinality(Into(s, Entries(s), j)))
      /\ \A k \in Names: z.children[k] = IF <<j, k>> \in Entries(s) THEN s[j].children[k] ELSE NoEntry
  BY <1>1, <1>2, <1>3, GraftedIs
<1> HIDE DEF z
<1>5. z.nlink = s[j].nlink
  <2>1. CASE j = Root
    BY <1>1, <1>4, <2>1 DEF Shapes
  <2>2. CASE j # Root
    <3>1. ASSUME NEW e \in Inos \X Names
          PROVE  e \in Into(s, Entries(s), j) <=> e \in Holds(s, j)
      <4>1. e = <<e[1], e[2]>> /\ e[1] \in Inos /\ e[2] \in Names
        OBVIOUS
      <4>2. ASSUME s[e[1]].children[e[2]] = j
            PROVE  <<e[1], e[2]>> \in Entries(s)
        <5> DEFINE p == e[1]
                   q == e[2]
        <5>1. p \in Inos /\ q \in Names /\ s[p].children[q] = j /\ j # NoEntry
          BY <2>2, <4>1, <4>2 DEF NoEntry, Root
        <5> HIDE DEF p, q
        <5>2. <<p, q>> \in Entries(s) <=> s[s[p].children[q]].persist
          BY <5>1, EntriesAre
        <5>3. <<p, q>> \in Entries(s)
          BY <1>2, <5>1, <5>2, Zenon
        <5> QED
          BY <5>3 DEF p, q
      <4> QED
        BY <4>1, <4>2, Zenon DEF Into, Holds
    <3>2. Into(s, Entries(s), j) = Holds(s, j)
      BY <1>3, <3>1 DEF Into, Holds
    <3>3. s[j].nlink = Cardinality(Holds(s, j))
      BY <1>1, <1>2, <2>2, CountedIs DEF Counted
    <3> QED
      BY <1>4, <2>2, <3>2, <3>3
  <2> QED
    BY <2>1, <2>2
<1>6. ASSUME NEW k \in Names
      PROVE  z.children[k] = IF j = Root /\ k = Tmp THEN NoEntry ELSE s[j].children[k]
  <2>1. CASE s[j].children[k] = NoEntry
    BY <1>4, <2>1, Zenon
  <2>2. CASE s[j].children[k] # NoEntry
    <3>1. <<j, k>> \in Entries(s) <=> <<j, k>> # <<Root, Tmp>>
      BY <1>2, <2>2, EntriesAre
    <3>2. <<j, k>> = <<Root, Tmp>> <=> j = Root /\ k = Tmp
      OBVIOUS
    <3> QED
      BY <1>4, <3>1, <3>2
  <2> QED
    BY <2>1, <2>2
<1> QED
  BY <1>4, <1>5, <1>6 DEF z

\* After the end of its frame, a snapshot is the image of the slab without the
\* excluded directory.
LEMMA SnapshotGives ==
  ASSUME NEW s, LiveInv(s)
  PROVE  Rebuilt(Replayed(Fresh, Snapshotted(s))) = Image(s, 0)
<1> DEFINE G == Graft(s, Void, Lasts(s), Entries(s))
           D == Image(s, 0)
<1>1. s \in [Inos -> NodeType] /\ s \in Slab /\ Shapes(s) /\ SlabSound(s) /\ Tree(s)
  BY SlabIs DEF LiveInv, Shapes
<1>2. Graftable(s, Void, Lasts(s), {})
  BY <1>1, NodesRun, Zenon
<1>3. Replayed(Fresh, Snapshotted(s)) = G
  <2> DEFINE a == Joined([k \in 1..MaxIno + 1 |-> NodeRecords(s, k - 1)])
             c == Joined([k \in 1..MaxIno + 1 |-> DirRecords(s, k - 1)])
             M == Graft(s, Void, Lasts(s), {})
  <2>1. Run(Fresh, a, M)
    BY <1>1, NodesRun
  <2>2. Run(M, c, G)
    BY <1>1, <1>2, NamesRun
  <2>3. Snapshotted(s) = a \o c
    BY SnapshotIs, Zenon
  <2> HIDE DEF a, c, M, G
  <2>4. Run(Fresh, a \o c, G)
    BY <2>1, <2>2, RunJoin
  <2> QED
    BY <2>3, <2>4, RunReplayed, Zenon
<1>4. Graftable(s, Void, Lasts(s), Entries(s))
  <2>1. Entries(s) \in SUBSET (Lasts(s) \X Names)
    BY DEF Entries
  <2> QED
    BY <1>2, <2>1 DEF Graftable
<1>5. /\ WholeSlab(G) /\ G \in [Inos -> NodeType]
      /\ \A j \in Inos: G[j] = IF j \in Lasts(s) THEN Grafted(s, Entries(s), j) ELSE Vacant
  <2>1. \A j \in Inos: Void[j] = Vacant
    BY DEF Void
  <2> QED
    BY <1>4, <2>1, GraftIs
<1> HIDE DEF G
<1>6. ASSUME NEW j \in Lasts(s)
      PROVE  /\ G[j] \in NodeType /\ G[j].kind = s[j].kind /\ G[j].persist /\ G[j].opens = 0
             /\ G[j].data = s[j].data /\ G[j].nlink = s[j].nlink
             /\ \A k \in Names: G[j].children[k] =
                  IF j = Root /\ k = Tmp THEN NoEntry ELSE s[j].children[k]
  <2>1. G[j] = Grafted(s, Entries(s), j)
    BY <1>5 DEF Lasts
  <2> DEFINE z == Grafted(s, Entries(s), j)
  <2>2. /\ z \in NodeType /\ z.kind = s[j].kind /\ z.persist /\ z.opens = 0 /\ z.data = s[j].data
        /\ z.nlink = s[j].nlink
        /\ \A k \in Names: z.children[k] = IF j = Root /\ k = Tmp THEN NoEntry ELSE s[j].children[k]
    BY SnapshotNode
  <2> HIDE DEF z
  <2>3. G[j] = z
    BY <2>1 DEF z
  <2> QED
    BY <2>2, <2>3, Zenon
<1>7. ASSUME NEW j \in Inos \ {Root}, G[j].nlink = 0
      PROVE  IsEmpty(G, j)
  <2>1. CASE j \in Lasts(s)
    <3>1. s[j].kind # "dir"
      BY <1>1, <1>6, <1>7, <2>1, DirNamed
    <3>2. s[j].children = NoNames
      BY <1>1, <3>1 DEF Shapes
    <3>3. \A k \in Names: G[j].children[k] = NoEntry
      BY <1>6, <2>1, <3>2 DEF NoNames
    <3> QED
      BY <3>3 DEF IsEmpty, Children
  <2>2. CASE j \notin Lasts(s)
    <3>1. G[j].children = NoNames
      BY <1>5, <2>2, VacantIs
    <3> QED
      BY <3>1 DEF IsEmpty, Children, NoNames
  <2> QED
    BY <2>1, <2>2
<1>8. Rebuilt(G) = Swept(G, MaxIno)
  BY <1>5, <1>7, RebuiltIs
<1>9. \A j \in Inos: j \in 1..MaxIno <=> j # Root
  BY SlabNumbers DEF Inos, Root
<1>10. ASSUME NEW j \in Inos
       PROVE  (IF j \in 1..MaxIno /\ G[j].nlink = 0 THEN Vacant ELSE G[j]) = D[j]
  <2>1. CASE Stored(s, j)
    <3>1. j \in Lasts(s)
      <4>1. s[j].persist /\ Used(s, j)
        BY <2>1, StoredAre
      <4> QED
        BY <4>1 DEF Lasts
    <3>2. j = Root \/ G[j].nlink # 0
      <4>1. j = Root \/ s[j].nlink > 0
        BY <2>1 DEF Stored
      <4> QED
        BY <1>6, <3>1, <4>1
    <3> DEFINE b == 0
    <3>3. b \in {0, 1}
      OBVIOUS
    <3> HIDE DEF b
    <3>4. /\ Image(s, b)[j] \in NodeType
          /\ Image(s, b)[j].kind = s[j].kind /\ Image(s, b)[j].persist
          /\ Image(s, b)[j].nlink = s[j].nlink /\ Image(s, b)[j].opens = 0
          /\ Image(s, b)[j].data = s[j].data
          /\ \A k \in Names: Image(s, b)[j].children[k] =
               IF j = Root /\ k = Tmp /\ b = 0 THEN NoEntry ELSE s[j].children[k]
      BY <1>1, <2>1, <3>3, ImageAt
    <3> DEFINE v == D[j]
               w == G[j]
    <3>5. /\ v \in NodeType /\ v.kind = s[j].kind /\ v.persist /\ v.nlink = s[j].nlink /\ v.opens = 0
          /\ v.data = s[j].data
          /\ \A k \in Names: v.children[k] = IF j = Root /\ k = Tmp THEN NoEntry ELSE s[j].children[k]
      BY <3>4 DEF b
    <3>6. /\ w \in NodeType /\ w.kind = s[j].kind /\ w.persist /\ w.opens = 0
          /\ w.data = s[j].data /\ w.nlink = s[j].nlink
          /\ \A k \in Names: w.children[k] = IF j = Root /\ k = Tmp THEN NoEntry ELSE s[j].children[k]
      BY <1>6, <3>1
    <3> HIDE DEF v, w
    <3>7. w.persist = v.persist
      BY <3>5, <3>6 DEF NodeType
    <3>8. /\ w \in NodeType /\ v \in NodeType /\ w.kind = v.kind /\ w.nlink = v.nlink
          /\ w.opens = v.opens /\ w.data = v.data /\ \A k \in Names: w.children[k] = v.children[k]
      BY <3>5, <3>6
    <3>9. w = v
      BY <3>7, <3>8, SameNode
    <3> QED
      BY <1>9, <3>2, <3>9 DEF v, w
  <2>2. CASE ~Stored(s, j)
    <3>1. D[j] = Vacant
      BY <2>2, ImageOut
    <3>2. j # Root /\ (s[j].persist => ~(s[j].nlink > 0))
      BY <2>2 DEF Stored
    <3>3. CASE j \in Lasts(s)
      <4>1. s[j].nlink = 0
        <5>1. s[j].nlink \in Nat /\ s[j].persist
          BY <1>1, <3>3 DEF NodeType, Lasts
        <5> QED
          BY <3>2, <5>1
      <4>2. G[j].nlink = 0
        BY <1>6, <3>3, <4>1
      <4> QED
        BY <1>9, <3>1, <3>2, <4>2
    <3>4. CASE j \notin Lasts(s)
      BY <1>5, <3>1, <3>4
    <3> QED
      BY <3>3, <3>4
  <2> QED
    BY <2>1, <2>2
<1>11. Swept(G, MaxIno) = D
  <2>1. D = [j \in Inos |-> D[j]]
    BY DEF Image
  <2> HIDE DEF D
  <2> QED
    BY <1>10, <2>1 DEF Swept
<1> QED
  BY <1>3, <1>8, <1>11

\* A snapshot keeps the invariant: it may stand for all the records before it.
LEMMA SnapshotKeeps ==
  ASSUME TreeInv, Snapshot
  PROVE  TreeInv'
<1>1. disk' = Image(live, 0) /\ live' = live /\ boots' = boots
  BY SnapshotGives DEF TreeInv, Snapshot
<1> QED
  BY <1>1 DEF TreeInv

-----------------------------------------------------------------------------
\* The system starts

\* What is restored: all of it is persistent, nothing is open, all has a name.
RestoredSlab(D) ==
  /\ Shapes(D) /\ SlabSound(D) /\ Tree(D)
  /\ \A i \in Inos: Used(D, i) => /\ D[i].persist /\ D[i].opens = 0
                                  /\ i = Root \/ D[i].nlink > 0

\* What is restored from an image: a slab, all of it persistent, where the excluded directory
\* is empty, or not at all.
LEMMA ImageRestored ==
  ASSUME NEW s, LiveInv(s), NEW b \in {0, 1}
  PROVE  LET D == Image(s, b) IN
         /\ RestoredSlab(D)
         /\ b = 1 => Top(D) \in Dirs(D) \ {Root} /\ IsEmpty(D, Top(D))
         /\ b = 0 => Top(D) = NoEntry
<1> DEFINE D == Image(s, b)
<1>1. s \in [Inos -> NodeType] /\ Root \in Inos /\ Tmp \in Names /\ s[Root].persist
  BY SlabNumbers, SlabIs DEF LiveInv, Shapes
<1>2. Stored(s, Root) /\ ~Stored(s, Top(s)) /\ Top(s) \in Inos \ {Root}
  BY StoredAre
<1>3. Shapes(D) /\ SlabSound(D) /\ Tree(D)
  BY ImageShapes, ImageSound, ImageTree
<1>4. ASSUME NEW i \in Inos, Used(D, i)
      PROVE  D[i].persist /\ D[i].opens = 0 /\ (i = Root \/ D[i].nlink > 0)
  <2>1. CASE Stored(s, i)
    <3>1. D[i].persist /\ D[i].opens = 0 /\ D[i].nlink = s[i].nlink
      BY <1>1, <2>1, ImageAt
    <3>2. i = Root \/ s[i].nlink > 0
      BY <2>1 DEF Stored
    <3> QED
      BY <3>1, <3>2
  <2>2. CASE ~Stored(s, i)
    <3>1. D[i] = EmptyTop \/ D[i] = Vacant
      BY <2>2, ImageOut
    <3>2. D[i].kind # "none"
      BY <1>4 DEF Used
    <3> HIDE DEF D
    <3>3. D[i] = EmptyTop
      BY <3>1, <3>2, VacantIs
    <3>4. EmptyTop.persist /\ EmptyTop.opens = 0 /\ EmptyTop.nlink > 0
      BY EmptyTopIs
    <3> QED
      BY <3>3, <3>4, Zenon
  <2> QED
    BY <2>1, <2>2
<1>5. Top(D) = IF b = 0 THEN NoEntry ELSE Top(s)
  BY <1>1, <1>2, ImageAt DEF Top
<1>6. ASSUME b = 1
      PROVE  Top(D) \in Dirs(D) \ {Root} /\ IsEmpty(D, Top(D))
  <2>1. D[Top(s)] = EmptyTop
    BY <1>2, <1>6, ImageOut
  <2>2. D[Top(s)].kind = "dir" /\ D[Top(s)].children = NoNames
    BY <2>1, EmptyTopIs
  <2>3. IsEmpty(D, Top(s))
    BY <2>2 DEF IsEmpty, Children, NoNames
  <2>4. Top(D) = Top(s)
    BY <1>5, <1>6
  <2> QED
    BY <1>2, <2>2, <2>3, <2>4 DEF Dirs
<1> QED
  BY <1>3, <1>4, <1>5, <1>6 DEF RestoredSlab

\* The excluded directory of what is restored is marked.
LEMMA ExcludedIs ==
  ASSUME NEW D, RestoredSlab(D), Top(D) \in Dirs(D) \ {Root}, IsEmpty(D, Top(D))
  PROVE  LiveInv(Excluded(D)) /\ Image(Excluded(D), 1) = D
<1> DEFINE t == Top(D)
           v == Flagged(D, {t}, FALSE)
<1>1. /\ D \in [Inos -> NodeType] /\ D \in Slab /\ Shapes(D) /\ SlabSound(D) /\ Tree(D)
      /\ t \in Inos \ {Root} /\ D[t].kind = "dir" /\ Used(D, t) /\ Root \in Inos /\ Tmp \in Names
  BY SlabNumbers, SlabIs DEF RestoredSlab, Shapes, Dirs, Used
<1>2. \A i \in Inos: Used(D, i) => D[i].persist /\ D[i].opens = 0 /\ (i = Root \/ D[i].nlink > 0)
  BY DEF RestoredSlab
<1>3. Excluded(D) = v
  <2>1. Below(D, t) = {t}
    BY <1>1, EmptyBelow
  <2>2. \A j \in Below(D, t): D[j].persist # FALSE
    BY <1>1, <1>2, <2>1, Zenon
  <2>3. WithPersist(D, t, FALSE) = Flagged(D, Below(D, t), FALSE)
    BY <1>1, <2>2, FlaggedIs, Zenon
  <2> QED
    BY <2>1, <2>3, Zenon DEF Excluded, Top
<1>4. /\ Shapes(v) /\ SlabSound(v) /\ Tree(v)
      /\ \A j \in Inos:
           /\ v[j].kind = D[j].kind /\ v[j].nlink = D[j].nlink
           /\ v[j].children = D[j].children
           /\ j # t => v[j] = D[j]
  <2>1. PICK f \in BOOLEAN: f = FALSE
    BY Zenon
  <2> DEFINE w == Flagged(D, {t}, f)
  <2>2. {t} \in SUBSET (Inos \ {Root}) /\ \A j \in {t}: Used(D, j)
    BY <1>1
  <2>3. /\ Shapes(w) /\ SlabSound(w) /\ Tree(w)
        /\ \A j \in Inos:
             /\ w[j].kind = D[j].kind /\ w[j].nlink = D[j].nlink
             /\ w[j].children = D[j].children
             /\ j \notin {t} => w[j] = D[j]
    <3> DEFINE X == {t}
    <3> HIDE DEF X
    <3>1. X \in SUBSET (Inos \ {Root}) /\ \A j \in X: Used(D, j)
      BY <2>2 DEF X
    <3>2. LET y == Flagged(D, X, f) IN
          /\ Shapes(y) /\ SlabSound(y) /\ Tree(y)
          /\ \A j \in Inos:
               /\ y[j].kind = D[j].kind /\ y[j].nlink = D[j].nlink
               /\ y[j].children = D[j].children
               /\ j \notin X => y[j] = D[j]
      BY <1>1, <3>1, FlagKeeps
    <3> QED
      BY <3>2, Zenon DEF X
  <2>4. v = w
    BY <2>1, Zenon
  <2> HIDE DEF w, v
  <2>5. /\ Shapes(w) /\ SlabSound(w) /\ Tree(w)
        /\ \A j \in Inos:
             /\ w[j].kind = D[j].kind /\ w[j].nlink = D[j].nlink
             /\ w[j].children = D[j].children
             /\ j # t => w[j] = D[j]
    BY <2>3
  <2> QED
    BY <2>4, <2>5, Zenon
<1>5. ~v[t].persist
  <2>1. v[t] = [D[t] EXCEPT !.persist = FALSE]
    BY <1>1 DEF Flagged
  <2> DEFINE x == D[t]
  <2>2. x \in NodeType
    BY <1>1
  <2> HIDE DEF x
  <2>3. ~[x EXCEPT !.persist = FALSE].persist
    BY <2>2 DEF NodeType
  <2> QED
    BY <2>1, <2>3, Zenon DEF x
<1> HIDE DEF v
<1>6. Top(v) = t
  BY <1>1, <1>4 DEF Top
<1>7. Border(v)
  <2>1. t \in Dirs(v) \ {Root}
    BY <1>1, <1>4 DEF Dirs
  <2>2. ASSUME NEW d \in Inos, NEW n \in Names, v[d].children[n] # NoEntry, <<d, n>> # <<Root, Tmp>>
        PROVE  v[v[d].children[n]].persist = v[d].persist
    <3> DEFINE c == v[d].children[n]
    <3>1. D[d].children[n] = c /\ c # NoEntry
      BY <1>4, <2>2
    <3>2. c \in Inos \ {Root} /\ Used(D, c) /\ D[d].kind = "dir"
      BY <1>1, <3>1, NamedUsed
    <3>3. d # t
      <4>1. SUFFICES ASSUME d = t
                     PROVE  FALSE
        OBVIOUS
      <4>2. c \in Children(D, t)
        BY <3>1, <4>1 DEF Children
      <4> QED
        BY <4>2 DEF IsEmpty
    <3>4. c # t
      <4>1. SUFFICES ASSUME c = t
                     PROVE  FALSE
        OBVIOUS
      <4>2. D[t].nlink <= 1
        BY <1>1, DirNamed
      <4>3. D[Root].children[Tmp] = t /\ D[d].children[n] = t
        BY <3>1, <4>1 DEF Top
      <4>4. Root = d /\ Tmp = n
        BY <1>1, <4>2, <4>3, OneName
      <4> QED
        BY <2>2, <4>4
    <3>5. v[c] = D[c] /\ v[d] = D[d]
      BY <1>4, <3>2, <3>3, <3>4
    <3>6. D[c].persist /\ D[d].persist
      BY <1>2, <3>2 DEF Used
    <3>7. D[c].persist \in BOOLEAN /\ D[d].persist \in BOOLEAN
      BY <1>1, <3>2, Zenon DEF NodeType
    <3> HIDE DEF c
    <3>8. v[c].persist = v[d].persist
      BY <3>5, <3>6, <3>7
    <3> QED
      BY <3>8 DEF c
  <2> QED
    BY <1>5, <1>6, <2>1, <2>2 DEF Border
<1>8. v \in [Inos -> NodeType]
  BY <1>4, SlabIs DEF Shapes
<1>9. ASSUME NEW j \in Inos
      PROVE  Image(v, 1)[j] = D[j]
  <2>1. CASE j = t
    <3>1. ~Stored(v, j)
      BY <1>1, <1>5, <2>1 DEF Stored
    <3>2. Image(v, 1)[j] = EmptyTop
      BY <1>6, <2>1, <3>1, ImageOut
    <3> DEFINE x == D[j]
               y == EmptyTop
    <3>3. /\ x \in NodeType /\ x.kind = "dir" /\ x.persist /\ x.nlink = 1 /\ x.opens = 0 /\ x.data = Blank
      BY <1>1, <1>2, <2>1, DirNamed DEF Shapes
    <3>4. \A k \in Names: x.children[k] = NoEntry
      BY <1>1, <2>1 DEF IsEmpty, Children
    <3>5. /\ y \in NodeType /\ y.kind = "dir" /\ y.persist /\ y.nlink = 1 /\ y.opens = 0 /\ y.data = Blank
          /\ \A k \in Names: y.children[k] = NoEntry
      BY EmptyTopIs DEF NoNames
    <3> HIDE DEF x, y
    <3>6. x.persist = y.persist
      BY <3>3, <3>5 DEF NodeType
    <3>7. /\ x.kind = y.kind /\ x.nlink = y.nlink /\ x.opens = y.opens /\ x.data = y.data
          /\ x \in NodeType /\ y \in NodeType /\ \A k \in Names: x.children[k] = y.children[k]
      BY <3>3, <3>4, <3>5
    <3>8. x = y
      BY <3>6, <3>7, SameNode
    <3> QED
      BY <3>2, <3>8 DEF x, y
  <2>2. CASE j # t /\ Used(D, j)
    <3>1. v[j] = D[j] /\ D[j].persist /\ D[j].opens = 0 /\ (j = Root \/ D[j].nlink > 0)
      BY <1>2, <1>4, <2>2
    <3>2. Stored(v, j)
      BY <3>1, Zenon DEF Stored
    <3>3. Image(v, 1)[j] = Copy(v[j])
      BY <1>8, <3>2, ImageAt
    <3> DEFINE x == D[j]
               y == Copy(x)
    <3>4. x \in NodeType
      BY <1>1
    <3>5. /\ y \in NodeType /\ y.kind = x.kind /\ y.persist /\ y.nlink = x.nlink /\ y.opens = x.opens
          /\ y.data = x.data /\ y.children = x.children
      <4>1. x.opens = 0
        BY <3>1
      <4> HIDE DEF x
      <4> QED
        BY <3>4, <4>1, CopyIs
    <3>6. x.persist
      BY <3>1
    <3> HIDE DEF x, y
    <3>7. x.persist = y.persist
      BY <3>4, <3>5, <3>6 DEF NodeType
    <3>8. \A k \in Names: x.children[k] = y.children[k]
      BY <3>5
    <3>9. x = y
      BY <3>4, <3>5, <3>7, <3>8, SameNode, Zenon
    <3> QED
      BY <3>1, <3>3, <3>9 DEF x, y
  <2>3. CASE j # t /\ ~Used(D, j)
    <3>1. D[j] = Vacant /\ v[j] = D[j] /\ j # Root
      BY <1>1, <1>4, <2>3 DEF Shapes, Used
    <3>2. ~Stored(v, j)
      BY <3>1, VacantIs DEF Stored
    <3> QED
      BY <1>6, <2>3, <3>1, <3>2, ImageOut
  <2> QED
    BY <2>1, <2>2, <2>3
<1>10. Image(v, 1) = D
  <2> DEFINE w == Image(v, 1)
  <2>1. w = [j \in Inos |-> w[j]]
    BY DEF Image
  <2> HIDE DEF w
  <2>2. \A j \in Inos: w[j] = D[j]
    BY <1>9 DEF w
  <2>3. w = D
    BY <1>1, <2>1, <2>2
  <2> QED
    BY <2>3 DEF w
<1> QED
  BY <1>3, <1>4, <1>7, <1>10 DEF LiveInv

\* Where it is missing it is made, at a vacant number.
LEMMA MountIs ==
  ASSUME NEW D, RestoredSlab(D), Top(D) = NoEntry, NEW i \in Inos, ~Used(D, i)
  PROVE  LET M == Linked([D EXCEPT ![i] = Node("dir", TRUE, Blank)], Root, Tmp, i) IN
         /\ RestoredSlab(M) /\ Top(M) = i /\ i \in Dirs(M) \ {Root} /\ IsEmpty(M, i)
<1> DEFINE x == Node("dir", TRUE, Blank)
           u == [D EXCEPT ![i] = x]
           t == LinkEdit(u, Root, Tmp, i)
<1>1. /\ D \in [Inos -> NodeType] /\ D \in Slab /\ Shapes(D) /\ SlabSound(D) /\ Tree(D)
      /\ D[Root].kind = "dir" /\ D[Root].persist /\ D[Root].nlink = 0 /\ Root \in Inos /\ Tmp \in Names
  BY SlabNumbers, SlabIs DEF RestoredSlab, Shapes
<1>2. D[i] = Vacant /\ i # Root
  BY <1>1 DEF Shapes, Used
<1>3. /\ x \in NodeType /\ x.kind = "dir" /\ x.persist /\ x.nlink = 0 /\ x.opens = 0
      /\ x.data = Blank /\ x.children = NoNames
  <2> DEFINE kind == "dir"
             data == Blank
  <2>1. kind \in {"none", "file", "dir"} /\ data \in Data
    BY OverlayAssumption DEF OverlayAssumption
  <2> HIDE DEF kind, data
  <2>2. LET z == Node(kind, TRUE, data) IN
         /\ z \in NodeType /\ z.kind = kind /\ z.persist /\ z.nlink = 0 /\ z.opens = 0
         /\ z.data = data /\ z.children = NoNames
    BY <2>1, NodeIs, Zenon
  <2> QED
    BY <2>2, Zenon DEF kind, data
<1>4. Fits(x)
  <2> HIDE DEF x
  <2> QED
    BY <1>3 DEF Fits
<1> HIDE DEF x
<1>5. u \in [Inos -> NodeType] /\ u[i] = x /\ \A j \in Inos: j # i => u[j] = D[j]
  BY <1>1, <1>3
<1> HIDE DEF u
<1>6. Shapes(u)
  <2>1. \A j \in Inos: Fits(u[j])
    BY <1>1, <1>4, <1>5, ShapesAre
  <2> QED
    BY <1>1, <1>2, <1>5, <2>1, ShapesAre
<1>7. ASSUME NEW j \in Inos
      PROVE  /\ u[j].children = D[j].children
             /\ \/ u[j].kind = D[j].kind /\ u[j].nlink = D[j].nlink
                \/ D[j].kind # "dir" /\ D[j].nlink = 0 /\ u[j].nlink = 0
  <2>1. CASE j = i
    BY <1>2, <1>3, <1>5, <2>1, VacantIs
  <2>2. CASE j # i
    BY <1>5, <2>2
  <2> QED
    BY <2>1, <2>2
<1>8. SlabSound(u)
  BY <1>1, <1>6, <1>7, QuietSound
<1>9. Used(u, i) /\ u[Root] = D[Root] /\ u[i].nlink = 0 /\ u[Root].children[Tmp] = NoEntry
  BY <1>1, <1>2, <1>3, <1>5 DEF Used, Top
<1>10. /\ Linked(u, Root, Tmp, i) = t /\ Shapes(t) /\ SlabSound(t) /\ Puts(u, t, Root, Tmp, i)
       /\ \A j \in Inos: Alike(u[j], t[j])
  BY <1>1, <1>2, <1>6, <1>8, <1>9, LinkStep
<1>11. /\ t[i] = Raised(u[i]) /\ t[Root] = Named(u[Root], Tmp, i)
       /\ \A j \in Inos: j # i /\ j # Root => t[j] = D[j]
  BY <1>1, <1>2, <1>5, <1>9 DEF LinkEdit, NoEntry, Root
<1> HIDE DEF t
<1>12. /\ t[i].kind = "dir" /\ t[i].persist /\ t[i].nlink > 0 /\ t[i].opens = 0 /\ t[i].children = NoNames
  <2>1. /\ Raised(x).kind = x.kind /\ Raised(x).persist = x.persist
        /\ Raised(x).nlink = x.nlink + 1 /\ Raised(x).opens = x.opens /\ Raised(x).children = x.children
    BY <1>1, <1>3, Fields, Zenon
  <2>2. t[i] = Raised(x)
    BY <1>5, <1>11
  <2>3. Raised(x).persist
    BY <1>3, <2>1, Zenon
  <2> DEFINE y == Raised(x)
  <2>4. y.kind = "dir" /\ y.persist /\ y.nlink > 0 /\ y.opens = 0 /\ y.children = NoNames
    BY <1>3, <2>1, <2>3
  <2> HIDE DEF y
  <2> QED
    BY <2>2, <2>4, Zenon DEF y
<1>13. t[Root].persist /\ t[Root].opens = 0 /\ t[Root].children[Tmp] = i
  <2> DEFINE y == u[Root]
  <2>1. y \in NodeType
    BY <1>1, <1>5
  <2>2. y.persist /\ y.opens = 0
    BY <1>1, <1>9 DEF RestoredSlab, Used
  <2> HIDE DEF y
  <2>3. /\ Named(y, Tmp, i).persist = y.persist /\ Named(y, Tmp, i).opens = y.opens
        /\ \A m \in Names: Named(y, Tmp, i).children[m] = IF m = Tmp THEN i ELSE y.children[m]
    BY <1>1, <2>1, Fields
  <2>4. t[Root] = Named(y, Tmp, i)
    BY <1>11 DEF y
  <2>5. Named(y, Tmp, i).persist
    BY <2>2, <2>3, Zenon
  <2>6. Named(y, Tmp, i).opens = 0 /\ Named(y, Tmp, i).children[Tmp] = i
    BY <1>1, <2>2, <2>3
  <2> QED
    BY <2>4, <2>5, <2>6, Zenon
<1>14. Tree(t)
  <2>1. Puts(D, t, Root, Tmp, i)
    BY <1>7, <1>10 DEF Puts
  <2>2. Dirs(t) \subseteq Dirs(D) \cup {i}
    BY <1>5, <1>10 DEF Dirs, Alike
  <2>3. Root \in Dirs(D) /\ t \in Slab /\ i \in Inos \ {Root} /\ D[Root].children[Tmp] = NoEntry
    BY <1>1, <1>2, <1>10 DEF Dirs, Shapes, Top
  <2> QED
    BY <1>1, <2>1, <2>2, <2>3, TreeAdd
<1>15. ASSUME NEW j \in Inos, Used(t, j)
       PROVE  t[j].persist /\ t[j].opens = 0 /\ (j = Root \/ t[j].nlink > 0)
  <2>1. CASE j = i
    BY <1>12, <2>1
  <2>2. CASE j = Root
    BY <1>13, <2>2
  <2>3. CASE j # i /\ j # Root
    <3>1. t[j] = D[j]
      BY <1>11, <2>3
    <3>2. Used(D, j)
      BY <1>15, <3>1 DEF Used
    <3>3. D[j].persist /\ D[j].opens = 0 /\ (j = Root \/ D[j].nlink > 0)
      BY <3>2 DEF RestoredSlab
    <3> QED
      BY <3>1, <3>3, Zenon
  <2> QED
    BY <2>1, <2>2, <2>3
<1>16. Top(t) = i /\ i \in Dirs(t) \ {Root} /\ IsEmpty(t, i)
  <2>1. IsEmpty(t, i)
    BY <1>12 DEF IsEmpty, Children, NoNames
  <2> QED
    BY <1>2, <1>12, <1>13, <2>1 DEF Top, Dirs
<1>17. RestoredSlab(t)
  BY <1>10, <1>14, <1>15 DEF RestoredSlab
<1> QED
  BY <1>10, <1>16, <1>17, Zenon DEF u, x

\* A fresh slab is like one restored.
LEMMA FreshRestored == RestoredSlab(Fresh) /\ Top(Fresh) = NoEntry
<1> DEFINE x == Node("dir", TRUE, Blank)
<1>1. Root \in Inos /\ Tmp \in Names /\ NoEntry = Root
  BY SlabNumbers
<1>2. /\ x \in NodeType /\ x.kind = "dir" /\ x.persist /\ x.nlink = 0 /\ x.opens = 0
      /\ x.data = Blank /\ x.children = NoNames
  <2> DEFINE kind == "dir"
             data == Blank
  <2>1. kind \in {"none", "file", "dir"} /\ data \in Data
    BY OverlayAssumption DEF OverlayAssumption
  <2> HIDE DEF kind, data
  <2>2. LET z == Node(kind, TRUE, data) IN
         /\ z \in NodeType /\ z.kind = kind /\ z.persist /\ z.nlink = 0 /\ z.opens = 0
         /\ z.data = data /\ z.children = NoNames
    BY <2>1, NodeIs, Zenon
  <2> QED
    BY <2>2, Zenon DEF kind, data
<1>3. \A j \in Inos: Fresh[j] = IF j = Root THEN x ELSE Vacant
  BY DEF Fresh
<1>4. Fresh \in [Inos -> NodeType]
  BY <1>2, VacantType, Zenon DEF Fresh
<1> HIDE DEF x
<1>5. Fits(x)
  BY <1>2 DEF Fits
<1> DEFINE F == Fresh
<1>6. F \in [Inos -> NodeType] /\ F[Root] = x /\ \A j \in Inos: j # Root => F[j] = Vacant
  BY <1>1, <1>3, <1>4
<1> HIDE DEF F
<1>7. Shapes(F)
  <2>1. \A j \in Inos: Fits(F[j])
    BY <1>5, <1>6, VacantIs
  <2> QED
    BY <1>1, <1>2, <1>6, <2>1, ShapesAre
<1>8. \A j \in Inos, k \in Names: F[j].children[k] = NoEntry
  <2> TAKE j \in Inos, k \in Names
  <2>1. F[j].children = NoNames
    BY <1>2, <1>6, VacantIs
  <2> QED
    BY <2>1 DEF NoNames
<1>9. \A j \in Inos: Used(F, j) <=> j = Root
  BY <1>2, <1>6, VacantIs DEF Used
<1>10. SlabSound(F)
  <2>1. \A i \in Inos \ {Root}: ~Used(F, i) /\ NamesOf(F, i) = {} /\ i \notin Dirs(F)
    <3> TAKE i \in Inos \ {Root}
    <3>1. ~Used(F, i)
      BY <1>9
    <3>2. NamesOf(F, i) = {}
      BY <1>1, <1>8 DEF NamesOf, Dirs
    <3> QED
      BY <3>1, <3>2 DEF Used, Dirs
  <2> QED
    BY <2>1 DEF SlabSound
<1>11. Tree(F)
  <2>1. Dirs(F) = {Root}
    BY <1>1, <1>2, <1>6, VacantIs DEF Dirs
  <2> QED
    BY <2>1 DEF Tree
<1>12. \A j \in Inos: Used(F, j) => F[j].persist /\ F[j].opens = 0 /\ (j = Root \/ F[j].nlink > 0)
  BY <1>2, <1>6, <1>9
<1>13. Top(F) = NoEntry
  BY <1>1, <1>8 DEF Top
<1> QED
  BY <1>7, <1>10, <1>11, <1>12, <1>13 DEF RestoredSlab, F

\* A boot keeps the invariant: persist_exclude finds or makes its directory.
LEMMA BootKeeps ==
  ASSUME TreeInv, Boot
  PROVE  TreeInv'
<1>1. PICK b \in {0, 1}: disk = Image(live, b)
  BY DEF TreeInv
<1>2. Rebuilt(disk) = disk
  BY <1>1, ImageRebuilt DEF TreeInv
<1>3. /\ RestoredSlab(disk)
      /\ b = 1 => Top(disk) \in Dirs(disk) \ {Root} /\ IsEmpty(disk, Top(disk))
      /\ b = 0 => Top(disk) = NoEntry
  BY <1>1, ImageRestored DEF TreeInv
<1>4. boots' \in 0..MaxBoots
  BY OverlayAssumption DEF Boot, TreeInv, OverlayAssumption
<1>5. \/ Top(disk) # NoEntry /\ live' = Excluded(disk) /\ disk' = disk
      \/ /\ Top(disk) = NoEntry
         /\ \E i \in {j \in Inos: ~Used(disk, j)}:
              LET made == Linked([disk EXCEPT ![i] = Node("dir", TRUE, Blank)], Root, Tmp, i)
              IN  live' = Excluded(made) /\ disk' = made
  BY <1>2, Zenon DEF Boot, Top
<1>6. CASE Top(disk) # NoEntry /\ live' = Excluded(disk) /\ disk' = disk
  <2>1. b = 1
    BY <1>3, <1>6
  <2>2. LiveInv(Excluded(disk)) /\ Image(Excluded(disk), 1) = disk
    BY <1>3, <2>1, ExcludedIs
  <2>3. LiveInv(live') /\ disk' = Image(live', 1)
    BY <1>6, <2>2, Zenon
  <2> QED
    BY <1>4, <2>3 DEF TreeInv
<1>7. CASE /\ Top(disk) = NoEntry
           /\ \E i \in {j \in Inos: ~Used(disk, j)}:
                LET made == Linked([disk EXCEPT ![i] = Node("dir", TRUE, Blank)], Root, Tmp, i)
                IN  live' = Excluded(made) /\ disk' = made
  <2>1. PICK i \in {j \in Inos: ~Used(disk, j)}:
               LET made == Linked([disk EXCEPT ![i] = Node("dir", TRUE, Blank)], Root, Tmp, i)
               IN  live' = Excluded(made) /\ disk' = made
    BY <1>7, Zenon
  <2> DEFINE M == Linked([disk EXCEPT ![i] = Node("dir", TRUE, Blank)], Root, Tmp, i)
  <2>2. live' = Excluded(M) /\ disk' = M
    BY <2>1
  <2>3. RestoredSlab(M) /\ Top(M) = i /\ i \in Dirs(M) \ {Root} /\ IsEmpty(M, i)
    BY <1>3, <1>7, MountIs, Zenon
  <2> HIDE DEF M
  <2>4. Top(M) \in Dirs(M) \ {Root} /\ IsEmpty(M, Top(M))
    BY <2>3
  <2>5. LiveInv(Excluded(M)) /\ Image(Excluded(M), 1) = M
    BY <2>3, <2>4, ExcludedIs
  <2>6. LiveInv(live') /\ disk' = Image(live', 1)
    BY <2>2, <2>5, Zenon
  <2> QED
    BY <1>4, <2>6 DEF TreeInv
<1> QED
  BY <1>5, <1>6, <1>7, Zenon

\* The first boot gives the invariant.
LEMMA StartKeeps ==
  ASSUME OverlayInit
  PROVE  TreeInv
<1>1. PICK i \in 1..MaxIno:
        LET made == Linked([Fresh EXCEPT ![i] = Node("dir", TRUE, Blank)], Root, Tmp, i)
        IN  live = Excluded(made) /\ disk = made /\ boots = 0
  BY Zenon DEF OverlayInit
<1> DEFINE M == Linked([Fresh EXCEPT ![i] = Node("dir", TRUE, Blank)], Root, Tmp, i)
<1>2. live = Excluded(M) /\ disk = M /\ boots = 0
  BY <1>1
<1>3. i \in Inos /\ ~Used(Fresh, i)
  <2>1. i \in Inos /\ i # Root
    BY SlabNumbers DEF Inos, Root
  <2>2. Fresh[i] = Vacant
    BY <2>1 DEF Fresh
  <2> QED
    BY <2>1, <2>2, VacantIs DEF Used
<1>4. RestoredSlab(M) /\ Top(M) = i /\ i \in Dirs(M) \ {Root} /\ IsEmpty(M, i)
  BY <1>3, FreshRestored, MountIs, Zenon
<1> HIDE DEF M
<1>5. Top(M) \in Dirs(M) \ {Root} /\ IsEmpty(M, Top(M))
  BY <1>4
<1>6. LiveInv(Excluded(M)) /\ Image(Excluded(M), 1) = M
  BY <1>4, <1>5, ExcludedIs
<1>7. LiveInv(live) /\ disk = Image(live, 1)
  BY <1>2, <1>6, Zenon
<1>8. boots \in 0..MaxBoots
  BY <1>2, OverlayAssumption DEF OverlayAssumption
<1> QED
  BY <1>7, <1>8 DEF TreeInv

-----------------------------------------------------------------------------
\* What replay rebuilds

\* What the programs reach, and the excluded directory does not hide, is stored.
LEMMA KeptStored ==
  ASSUME LiveInv(live)
  PROVE  \A i \in KeptTree: i \in Inos /\ Stored(live, i)
<1> DEFINE Beyond(X) == X \cup {i \in UNION {Children(live, d) : d \in X \cap Dirs(live)}: Lasting(i)}
           F == [e \in (1..MaxIno) \X SUBSET Inos |-> Beyond(e[2])]
           Solves(f) ==
             f = [k \in Inos |->
                    IF k = 0 THEN {Root}
                    ELSE f[k - 1] \cup
                         {i \in UNION {Children(live, d) : d \in f[k - 1] \cap Dirs(live)}: Lasting(i)}]
           reach == CHOOSE f: Solves(f)
           Last == {i \in Inos: Stored(live, i)}
<1>1. live \in Slab /\ live \in [Inos -> NodeType] /\ Border(live)
  BY SlabIs DEF LiveInv, Shapes
<1>2. \A X \in SUBSET Inos: Beyond(X) \in SUBSET Inos
  BY <1>1, ChildrenAre DEF Dirs
<1>3. MaxIno \in Nat /\ {Root} \in SUBSET Inos /\ Inos = 0..MaxIno
  BY SlabNumbers DEF Inos
<1>4. \A k \in 1..MaxIno: k - 1 \in Inos /\ k \in Inos /\ k # 0
  BY <1>3
<1>5. Advances(F, MaxIno, SUBSET Inos)
  <2> HIDE DEF Beyond
  <2> QED
    BY <1>2 DEF Advances
<1>6. PICK g: Computed(g, F, MaxIno, {Root}, SUBSET Inos)
  <2> HIDE DEF F
  <2> QED
    BY <1>3, <1>5, Recursion, Zenon
<1>7. g \in [Inos -> SUBSET Inos] /\ g[0] = {Root} /\ \A k \in 1..MaxIno: g[k] = Beyond(g[k - 1])
  <2> HIDE DEF F
  <2>1. g \in [Inos -> SUBSET Inos] /\ g[0] = {Root} /\ \A k \in 1..MaxIno: g[k] = F[<<k, g[k - 1]>>]
    BY <1>3, <1>6 DEF Computed
  <2>2. ASSUME NEW k \in 1..MaxIno
        PROVE  g[k] = Beyond(g[k - 1])
    <3>1. g[k - 1] \in SUBSET Inos
      BY <1>4, <2>1
    <3> HIDE DEF Beyond
    <3> QED
      BY <2>1, <3>1, Zenon DEF F
  <2> QED
    BY <2>1, <2>2
<1>8. \A k \in Inos: k = 0 \/ k \in 1..MaxIno
  BY <1>3
<1>9. Solves(g)
  <2>1. \A k \in Inos: g[k] = IF k = 0 THEN {Root} ELSE Beyond(g[k - 1])
    <3> HIDE DEF Beyond
    <3> QED
      BY <1>7, <1>8, Zenon
  <2>2. g = [k \in Inos |-> g[k]]
    BY <1>7
  <2> QED
    BY <2>1, <2>2, Zenon
<1>10. Solves(reach)
  <2> HIDE DEF Solves
  <2> QED
    BY <1>9
<1>11. KeptTree = reach[MaxIno]
  BY DEF KeptTree
<1>12. reach[0] = {Root} /\ \A k \in 1..MaxIno: reach[k] = Beyond(reach[k - 1])
  <2> HIDE DEF reach
  <2>1. \A k \in Inos: reach[k] = IF k = 0 THEN {Root} ELSE Beyond(reach[k - 1])
    BY <1>10, Zenon
  <2>2. 0 \in Inos
    BY <1>3
  <2> HIDE DEF Beyond
  <2> QED
    BY <1>4, <2>1, <2>2, Zenon
<1> HIDE DEF reach, Solves, F
\* An entry of what is stored is stored, if it lasts.
<1>13. ASSUME NEW X \in SUBSET Last
       PROVE  Beyond(X) \in SUBSET Last
  <2>1. ASSUME NEW d \in X, NEW i \in Children(live, d), Lasting(i)
        PROVE  i \in Last
    <3>1. d \in Inos /\ Stored(live, d)
      OBVIOUS
    <3>2. i \in Inos
      BY <1>1, <3>1, ChildrenAre
    <3>3. PICK n \in Names: live[d].children[n] = i /\ i # NoEntry
      BY <1>1, <3>1, <3>2, ChildrenAre
    <3>4. <<d, n>> # <<Root, Tmp>>
      <4>1. SUFFICES ASSUME d = Root, n = Tmp
                     PROVE  FALSE
        OBVIOUS
      <4>2. i = Top(live)
        BY <3>3, <4>1 DEF Top
      <4>3. live[Top(live)].kind = "dir" /\ ~live[Top(live)].persist
        BY StoredAre
      <4> QED
        BY <2>1, <4>2, <4>3 DEF Lasting
    <3> QED
      BY <3>1, <3>2, <3>3, <3>4, StoredAre
  <2> HIDE DEF Last
  <2> QED
    BY <2>1
<1> HIDE DEF Beyond
<1> DEFINE P == {k \in 0..MaxIno: reach[k] \subseteq Last}
<1>14. 0 \in P
  <2>1. Root \in Last
    BY <1>3 DEF Stored
  <2> HIDE DEF Last
  <2> QED
    BY <1>3, <1>12, <2>1
<1>15. \A k \in 1..MaxIno: k - 1 \in P => k \in P
  <2> HIDE DEF Last
  <2> QED
    BY <1>3, <1>12, <1>13
<1>16. \A k \in 0..MaxIno: k \in P
  <2> HIDE DEF P
  <2> QED
    BY <1>3, <1>14, <1>15, Climb, Zenon
<1>17. reach[MaxIno] \subseteq Last
  <2>1. MaxIno \in 0..MaxIno
    BY <1>3
  <2> HIDE DEF Last
  <2> QED
    BY <1>16, <2>1
<1> QED
  BY <1>11, <1>17

\* The invariant implies that replay rebuilds what lasts.
LEMMA TreeRebuilds ==
  ASSUME TreeInv
  PROVE  ReplayRebuilds
<1>1. PICK b \in {0, 1}: disk = Image(live, b)
  BY DEF TreeInv
<1>2. /\ LiveInv(live) /\ live \in [Inos -> NodeType] /\ Border(live)
  BY SlabIs DEF TreeInv, LiveInv, Shapes
<1>3. SlabSound(disk) /\ Rebuilt(disk) = disk
  BY <1>1, <1>2, ImageSound, ImageRebuilt
<1>4. ASSUME NEW i \in KeptTree
      PROVE  /\ disk[i].kind = live[i].kind /\ disk[i].data = live[i].data
             /\ \A n \in Names:
                  LET c == live[i].children[n] IN
                  IF c = NoEntry \/ Lasting(c) THEN disk[i].children[n] = c
                  ELSE disk[i].children[n] \in {c, NoEntry} /\ IsEmpty(disk, c)
  <2>1. i \in Inos /\ Stored(live, i)
    BY <1>2, KeptStored
  <2>2. disk[i].kind = live[i].kind /\ disk[i].data = live[i].data
    BY <1>1, <1>2, <2>1, ImageAt
  <2>3. live[i].persist
    BY <1>2, <2>1, StoredAre
  <2>4. ASSUME NEW n \in Names
        PROVE  LET c == live[i].children[n] IN
               IF c = NoEntry \/ Lasting(c) THEN disk[i].children[n] = c
               ELSE disk[i].children[n] \in {c, NoEntry} /\ IsEmpty(disk, c)
    <3> DEFINE c == live[i].children[n]
    <3>1. /\ disk[i].children[n] \in {NoEntry, c}
          /\ <<i, n>> # <<Root, Tmp>> => disk[i].children[n] = c
      BY <1>1, <1>2, <2>1, ImageEntries
    <3>2. /\ live[Top(live)].kind = "dir" /\ ~live[Top(live)].persist /\ ~Stored(live, Top(live))
          /\ Top(live) \in Inos
      BY <1>2, StoredAre
    <3>3. CASE c = NoEntry
      BY <3>1, <3>3
    <3>4. CASE c # NoEntry /\ Lasting(c)
      <4>1. <<i, n>> # <<Root, Tmp>>
        <5>1. SUFFICES ASSUME i = Root, n = Tmp
                       PROVE  FALSE
          OBVIOUS
        <5>2. c = Top(live)
          BY <5>1 DEF Top
        <5> QED
          BY <3>2, <3>4, <5>2 DEF Lasting
      <4> QED
        BY <3>1, <3>4, <4>1
    <3>5. CASE c # NoEntry /\ ~Lasting(c)
      <4>1. ~live[c].persist
        BY <3>5 DEF Lasting
      <4>2. <<i, n>> = <<Root, Tmp>>
        <5>1. <<i, n>> # <<Root, Tmp>> => live[c].persist = live[i].persist
          BY <1>2, <2>1, <3>5 DEF Border
        <5> QED
          BY <2>3, <4>1, <5>1, Zenon
      <4>3. c = Top(live)
        BY <4>2 DEF Top
      <4>4. disk[c] = EmptyTop \/ disk[c] = Vacant
        BY <1>1, <3>2, <4>3, ImageOut
      <4>5. disk[c].children = NoNames
        BY <4>4, EmptyTopIs, VacantIs
      <4>6. IsEmpty(disk, c)
        BY <4>5 DEF IsEmpty, Children, NoNames
      <4> QED
        BY <3>1, <3>5, <4>6
    <3> QED
      BY <3>3, <3>4, <3>5
  <2> QED
    BY <2>2, <2>4
<1> QED
  BY <1>3, <1>4 DEF ReplayRebuilds

\* The invariant implies that the live slab is sound, and one tree.
LEMMA TreeLive ==
  ASSUME TreeInv
  PROVE  LiveTree /\ SlabTypes
<1>1. LiveInv(live) /\ boots \in 0..MaxBoots
  BY DEF TreeInv
<1>2. live \in Slab /\ SlabSound(live) /\ Tree(live)
  BY <1>1 DEF LiveInv, Shapes
<1>3. \A i \in Dirs(live): i \in Below(live, Root)
  BY <1>2, TreeIs
<1>4. disk \in Slab
  BY <1>2, SlabIs, ImageIs DEF TreeInv
<1> QED
  BY <1>1, <1>2, <1>3, <1>4 DEF LiveTree, SlabTypes

\* With no link over the border, every operation keeps the invariant.
LEMMA NextKeeps ==
  ASSUME CrossBorder = FALSE, TreeInv, [OverlayNext]_overlayVars
  PROVE  TreeInv'
<1>1. CASE UNCHANGED overlayVars
  BY <1>1 DEF overlayVars, TreeInv
<1>2. ASSUME NEW d \in Inos, NEW n \in Names, Create(d, n)
      PROVE  TreeInv'
  <2> DEFINE kind == "file"
             opens == 1
  <2>1. kind \in {"file", "dir"} /\ opens \in {0, 1} /\ (kind = "dir" => opens = 0)
    OBVIOUS
  <2>2. Make(d, n, kind, opens)
    BY <1>2 DEF Create
  <2> HIDE DEF kind, opens
  <2> QED
    BY <2>1, <2>2, MakeKeeps
<1>3. ASSUME NEW d \in Inos, NEW n \in Names, Mkdir(d, n)
      PROVE  TreeInv'
  <2> DEFINE kind == "dir"
             opens == 0
  <2>1. kind \in {"file", "dir"} /\ opens \in {0, 1} /\ (kind = "dir" => opens = 0)
    OBVIOUS
  <2>2. Make(d, n, kind, opens)
    BY <1>3 DEF Mkdir
  <2> HIDE DEF kind, opens
  <2> QED
    BY <2>1, <2>2, MakeKeeps
<1>4. ASSUME NEW d \in Inos, NEW n \in Names, Unlink(d, n) \/ Rmdir(d, n)
      PROVE  TreeInv'
  BY <1>4, UnlinkKeeps, Zenon
<1>5. ASSUME NEW d \in Inos, NEW n \in Names, NEW i \in Inos, Link(i, d, n)
      PROVE  TreeInv'
  BY <1>5, LinkKeeps, Zenon
<1>6. ASSUME NEW d \in Inos, NEW n \in Names, NEW e \in Inos, NEW m \in Names, Rename(d, n, e, m)
      PROVE  TreeInv'
  BY <1>6, RenameKeeps, Zenon
<1>7. ASSUME NEW i \in Inos, Open(i) \/ Release(i)
      PROVE  TreeInv'
  BY <1>7, OpenKeeps
<1>8. ASSUME NEW i \in Inos, ReleaseFrees(i)
      PROVE  TreeInv'
  BY <1>8, ReleaseKeeps
<1>9. ASSUME NEW i \in Inos, NEW x \in Data, WriteFile(i, x)
      PROVE  TreeInv'
  BY <1>9, WriteFileKeeps
<1>10. CASE EndFrame \/ Snapshot \/ Boot
  BY <1>10, FrameKeeps, SnapshotKeeps, BootKeeps
<1> QED
  BY <1>1, <1>2, <1>3, <1>4, <1>5, <1>6, <1>7, <1>8, <1>9, <1>10 DEF OverlayNext

\* The inductive invariant: between any two operations the live slab is sound, its border is where
\* persist_exclude put it, and the journal holds the image of it.  Only as long as no hard link
\* crosses the border and the excluded directory stays in its place: link and rename do not look at
\* that (vfs.rs), and a name on the other side is journaled for a node the journal has never had.
THEOREM SlabInvariance == CrossBorder = FALSE => (OverlaySpec => []TreeInv)
<1> SUFFICES ASSUME CrossBorder = FALSE
             PROVE  OverlaySpec => []TreeInv
  BY Zenon
<1>1. OverlayInit => TreeInv
  BY StartKeeps
<1>2. TreeInv /\ [OverlayNext]_overlayVars => TreeInv'
  BY NextKeeps, Zenon
<1> QED
  BY <1>1, <1>2, PTL DEF OverlaySpec

\* However names are linked, moved over one another and removed (link, rename, unlink, rmdir in
\* vfs.rs), with files open or not and boots in between, each node knows how many entries lead to it
\* and every directory is reached from the root: for any number of nodes and names.
THEOREM LiveTreeCorrect == CrossBorder = FALSE => (OverlaySpec => []LiveTree)
<1> SUFFICES ASSUME CrossBorder = FALSE
             PROVE  OverlaySpec => []LiveTree
  BY Zenon
<1>1. OverlaySpec => []TreeInv
  BY SlabInvariance
<1>2. TreeInv => LiveTree
  BY TreeLive
<1> QED
  BY <1>1, <1>2, PTL

-----------------------------------------------------------------------------
\* What is open stays

OpensStay(s, t) ==
  \A i \in Inos: s[i].opens > 0 => t[i].kind = "file" /\ t[i].opens >= s[i].opens - 1

\* A node that is open loses a name, and no more.
LEMMA LessOpen ==
  ASSUME NEW x \in NodeType, x.opens > 0
  PROVE  Lessened(x).kind = x.kind /\ Lessened(x).opens = x.opens
<1>1. ~(x.nlink <= 1 /\ x.opens = 0) /\ x.nlink \in Nat /\ x.opens \in Nat
  BY DEF NodeType
<1>2. Lessened(x) = [x EXCEPT !.nlink = IF @ = 0 THEN 0 ELSE @ - 1]
  BY <1>1 DEF Lessened
<1> QED
  BY <1>2 DEF NodeType

\* Files that are left alone stay open.
LEMMA StaysOpen ==
  ASSUME NEW s, Shapes(s), NEW t,
         \A i \in Inos: s[i].opens > 0 => t[i].kind = s[i].kind /\ t[i].opens = s[i].opens
  PROVE  OpensStay(s, t)
<1>1. \A i \in Inos: s[i].opens > 0 => s[i].kind = "file" /\ s[i].opens \in Nat
  BY SlabIs DEF Shapes, NodeType
<1> QED
  BY <1>1 DEF OpensStay

\* create and mkdir leave open files open.
LEMMA MakeOpen ==
  ASSUME TreeInv, NEW d \in Inos, NEW n \in Names, NEW kind, NEW opens, Make(d, n, kind, opens)
  PROVE  OpensStay(live, live')
<1>1. /\ Shapes(live) /\ SlabSound(live) /\ live \in [Inos -> NodeType] /\ \A j \in Inos: Fits(live[j])
  BY ShapesAre DEF TreeInv, LiveInv
<1> DEFINE x == [Node(kind, live[d].persist, Blank) EXCEPT !.opens = opens]
           made(i) == [live EXCEPT ![i] = x]
<1>2. live[d].kind = "dir" /\ live[d].children[n] = NoEntry
  BY DEF Make, Dirs
<1>3. PICK i \in Inos: ~Used(live, i) /\ live' = Linked(made(i), d, n, i)
  BY Zenon DEF Make
<1>4. live[i].opens = 0 /\ i # d
  <2>1. live[i] = Vacant
    BY <1>1, <1>3 DEF Shapes
  <2> QED
    BY <1>2, <2>1, VacantIs
<1> DEFINE u == made(i)
<1>5. u[d] = live[d] /\ \A j \in Inos: j # i => u[j] = live[j]
  BY <1>1, <1>4
<1>6. DOMAIN u = Inos
  BY <1>1
<1> HIDE DEF made
<1>7. u[d].children[n] = NoEntry /\ n \in DOMAIN live[d].children
  BY <1>1, <1>2, <1>5 DEF NodeType
\* Nothing had the name: the link changes the directory and the new node.
<1>8. ASSUME NEW j \in Inos, live[j].opens > 0
      PROVE  live'[j].kind = live[j].kind /\ live'[j].opens = live[j].opens
  <2>1. j # i /\ j # d
    BY <1>1, <1>2, <1>4, <1>8 DEF Shapes
  <2>2. live' = [[u EXCEPT ![d].children[n] = i] EXCEPT ![i].nlink = @ + 1]
    BY <1>3, <1>7, Zenon DEF Linked
  <2>3. live'[j] = u[j]
    BY <1>6, <2>1, <2>2
  <2> QED
    BY <1>5, <2>1, <2>3
<1> QED
  BY <1>1, <1>8, StaysOpen

\* link leaves open files open.
LEMMA LinkOpen ==
  ASSUME TreeInv, CrossBorder = FALSE, NEW i \in Inos, NEW d \in Inos, NEW n \in Names, Link(i, d, n)
  PROVE  OpensStay(live, live')
<1>1. Shapes(live) /\ live \in [Inos -> NodeType]
  BY ShapesAre DEF TreeInv, LiveInv
<1>2. live[d].kind = "dir" /\ live[d].children[n] = NoEntry /\ live' = Linked(live, d, n, i)
  BY DEF Link, Dirs
<1>3. live' = [[live EXCEPT ![d].children[n] = i] EXCEPT ![i].nlink = @ + 1]
  BY <1>2, Zenon DEF Linked
<1> DEFINE u == [live EXCEPT ![d].children[n] = i]
<1>4. \A j \in Inos: u[j].kind = live[j].kind /\ u[j].opens = live[j].opens /\ DOMAIN u = Inos
  BY <1>1 DEF NodeType
<1> HIDE DEF u
<1>5. u[i] = [kind |-> u[i].kind, persist |-> u[i].persist, nlink |-> u[i].nlink, opens |-> u[i].opens,
              data |-> u[i].data, children |-> u[i].children]
  <2>1. \A j \in Inos: live[j] \in NodeType
    BY <1>1
  <2> QED
    BY <1>1, <2>1, Zenon DEF u, NodeType
<1>6. \A j \in Inos: live'[j].kind = u[j].kind /\ live'[j].opens = u[j].opens
  BY <1>3, <1>4, <1>5, Zenon DEF u
<1> QED
  BY <1>1, <1>4, <1>6, StaysOpen

\* An entry that is removed leaves open files open.
LEMMA RemoveOpen ==
  ASSUME TreeInv, NEW d \in Inos, NEW n \in Names,
         live[d].children[n] # NoEntry, IsEmpty(live, live[d].children[n]), RemoveEntry(d, n)
  PROVE  OpensStay(live, live')
<1>1. /\ Shapes(live) /\ SlabSound(live) /\ live \in [Inos -> NodeType]
  BY ShapesAre DEF TreeInv, LiveInv
<1>2. live' = UnlinkEdit(live, d, n)
  BY <1>1, RemoveStep DEF RemoveEntry
<1>3. live[d].kind = "dir"
  BY <1>1, NamedUsed
<1>4. ASSUME NEW j \in Inos, live[j].opens > 0
      PROVE  live'[j].kind = live[j].kind /\ live'[j].opens = live[j].opens
  <2>1. j # d
    BY <1>1, <1>3, <1>4 DEF Shapes
  <2>2. live'[j] = live[j] \/ live'[j] = Lessened(live[j])
    BY <1>2, <2>1 DEF UnlinkEdit
  <2>3. Lessened(live[j]).kind = live[j].kind /\ Lessened(live[j]).opens = live[j].opens
    BY <1>1, <1>4, LessOpen
  <2> QED
    BY <2>2, <2>3
<1> QED
  BY <1>1, <1>4, StaysOpen

\* unlink and rmdir leave open files open.
LEMMA UnlinkOpen ==
  ASSUME TreeInv, NEW d \in Inos, NEW n \in Names, Unlink(d, n) \/ Rmdir(d, n)
  PROVE  OpensStay(live, live')
<1>1. Shapes(live)
  BY DEF TreeInv, LiveInv
<1> DEFINE c == live[d].children[n]
<1>2. RemoveEntry(d, n)
  BY DEF Unlink, Rmdir
<1>3. c # NoEntry /\ IsEmpty(live, c)
  <2>1. CASE Unlink(d, n)
    <3>1. c \in Inos /\ live[c].kind = "file"
      BY <2>1 DEF Unlink, Files
    <3>2. live[c].children = NoNames /\ live[Root].kind = "dir"
      BY <1>1, <3>1 DEF Shapes
    <3>3. c # Root
      BY <3>1, <3>2
    <3> QED
      BY <3>2, <3>3 DEF IsEmpty, Children, NoNames, NoEntry, Root
  <2>2. CASE Rmdir(d, n)
    BY <2>2 DEF Rmdir, Root, NoEntry
  <2> QED
    BY <2>1, <2>2
<1> QED
  BY <1>2, <1>3, RemoveOpen

\* rename leaves open files open, what it replaces included.
LEMMA RenameOpen ==
  ASSUME TreeInv, CrossBorder = FALSE, NEW d \in Inos, NEW n \in Names,
         NEW e \in Inos, NEW m \in Names, Rename(d, n, e, m)
  PROVE  OpensStay(live, live')
<1>1. Shapes(live) /\ live \in [Inos -> NodeType] /\ live[Root].kind = "dir"
  BY ShapesAre DEF TreeInv, LiveInv
<1>2. Renamed(live, live', d, n, e, m)
  BY RenameKeeps, Zenon
<1>3. ASSUME NEW j \in Inos, live[j].opens > 0
      PROVE  live'[j].kind = live[j].kind /\ live'[j].opens = live[j].opens
  <2>1. j # Root
    BY <1>1, <1>3 DEF Shapes
  <2>2. CASE j # live[e].children[m]
    BY <1>2, <2>2 DEF Renamed
  <2>3. CASE j = live[e].children[m]
    <3>1. live'[j] = Lessened(live[j])
      BY <1>2, <2>1, <2>3 DEF Renamed, NoEntry, Root
    <3>2. live[j] \in NodeType
      BY <1>1
    <3> QED
      BY <1>3, <3>1, <3>2, LessOpen
  <2> QED
    BY <2>2, <2>3
<1> QED
  BY <1>1, <1>3, StaysOpen

\* open, release and writes leave other open files open.
LEMMA FilesOpen ==
  ASSUME TreeInv, NEW i \in Inos,
         Open(i) \/ Release(i) \/ ReleaseFrees(i) \/ \E x \in Data: WriteFile(i, x)
  PROVE  OpensStay(live, live')
<1>1. Shapes(live) /\ live \in [Inos -> NodeType] /\ live \in Slab
  BY ShapesAre DEF TreeInv, LiveInv, Shapes
<1>2. \A j \in Inos: live[j].opens > 0 => live[j].kind = "file" /\ live[j].opens \in Nat
  BY <1>1 DEF Shapes, NodeType
<1>3. live[i] \in NodeType
  BY <1>1
<1>4. CASE Open(i)
  <2>1. live' = [live EXCEPT ![i].opens = @ + 1]
    BY <1>4 DEF Open
  <2> QED
    BY <1>1, <1>2, <1>3, <2>1 DEF OpensStay, NodeType
<1>5. CASE Release(i)
  <2>1. live' = [live EXCEPT ![i].opens = @ - 1]
    BY <1>5 DEF Release
  <2> QED
    BY <1>1, <1>2, <1>3, <2>1 DEF OpensStay, NodeType
<1>6. CASE \E x \in Data: WriteFile(i, x)
  <2>1. PICK x \in Data: live' = [live EXCEPT ![i].data = x]
    BY <1>6, Zenon DEF WriteFile
  <2> QED
    BY <1>1, <1>2, <1>3, <2>1 DEF OpensStay, NodeType
<1>7. CASE ReleaseFrees(i)
  <2>1. live[i].kind = "file" /\ live[i].opens = 0 /\ live' = Freed(live, i)
    BY <1>7 DEF ReleaseFrees, Files
  <2>2. IsEmpty(live, i)
    <3>1. live[i].children = NoNames
      BY <1>1, <2>1 DEF Shapes
    <3> QED
      BY <3>1 DEF IsEmpty, Children, NoNames
  <2>3. live' = [live EXCEPT ![i] = Vacant]
    BY <1>1, <2>1, <2>2, LeafFreed DEF Shapes
  <2>4. \A j \in Inos: live[j].opens > 0 => live'[j] = live[j]
    BY <1>1, <2>1, <2>3
  <2> QED
    BY <1>1, <2>4, StaysOpen
<1> QED
  BY <1>4, <1>5, <1>6, <1>7

\* Every step but a boot leaves open files open.
LEMMA NextOpen ==
  ASSUME CrossBorder = FALSE, TreeInv, OverlayNext, boots' = boots
  PROVE  OpensStay(live, live')
<1>1. ASSUME NEW d \in Inos, NEW n \in Names, Create(d, n) \/ Mkdir(d, n)
      PROVE  OpensStay(live, live')
  <2>1. CASE Create(d, n)
    BY <2>1, MakeOpen DEF Create
  <2>2. CASE Mkdir(d, n)
    BY <2>2, MakeOpen DEF Mkdir
  <2> QED
    BY <1>1, <2>1, <2>2
<1>2. ASSUME NEW d \in Inos, NEW n \in Names, Unlink(d, n) \/ Rmdir(d, n)
      PROVE  OpensStay(live, live')
  BY <1>2, UnlinkOpen
<1>3. ASSUME NEW d \in Inos, NEW n \in Names, NEW i \in Inos, Link(i, d, n)
      PROVE  OpensStay(live, live')
  BY <1>3, LinkOpen, Zenon
<1>4. ASSUME NEW d \in Inos, NEW n \in Names, NEW e \in Inos, NEW m \in Names, Rename(d, n, e, m)
      PROVE  OpensStay(live, live')
  BY <1>4, RenameOpen, Zenon
<1>5. ASSUME NEW i \in Inos,
             Open(i) \/ Release(i) \/ ReleaseFrees(i) \/ \E x \in Data: WriteFile(i, x)
      PROVE  OpensStay(live, live')
  BY <1>5, FilesOpen
<1>6. CASE EndFrame \/ Snapshot
  <2>1. live' = live /\ Shapes(live)
    BY <1>6 DEF EndFrame, Snapshot, TreeInv, LiveInv
  <2> QED
    BY <2>1, StaysOpen
<1>7. ~Boot
  <2>1. SUFFICES ASSUME Boot
                 PROVE  FALSE
    OBVIOUS
  <2>2. boots' = boots + 1
    BY <2>1 DEF Boot
  <2>3. boots \in Nat
    BY OverlayAssumption DEF TreeInv, OverlayAssumption
  <2> QED
    BY <2>2, <2>3
<1> QED
  BY <1>1, <1>2, <1>3, <1>4, <1>5, <1>6, <1>7 DEF OverlayNext

\* What the journal holds is a sound slab at any moment, and replay at the next boot (persist.rs)
\* rebuilds from it the numbers, names and contents of all that is reached through directories that
\* are not excluded; whether it was emitted when it came in over the border, written to a snapshot, or
\* journaled as it was made.
THEOREM ReplayRebuildsCorrect == CrossBorder = FALSE => (OverlaySpec => []ReplayRebuilds)
<1> SUFFICES ASSUME CrossBorder = FALSE
             PROVE  OverlaySpec => []ReplayRebuilds
  BY Zenon
<1>1. OverlaySpec => []TreeInv
  BY SlabInvariance
<1>2. TreeInv => ReplayRebuilds
  BY TreeRebuilds
<1> QED
  BY <1>1, <1>2, PTL

\* The live slab and the one the journal holds are slabs, and the boots are bounded.
THEOREM SlabTypesCorrect == CrossBorder = FALSE => (OverlaySpec => []SlabTypes)
<1> SUFFICES ASSUME CrossBorder = FALSE
             PROVE  OverlaySpec => []SlabTypes
  BY Zenon
<1>1. OverlaySpec => []TreeInv
  BY SlabInvariance
<1>2. TreeInv => SlabTypes
  BY TreeLive
<1> QED
  BY <1>1, <1>2, PTL

\* drop_link never frees a file somebody has open (vfs.rs): until the system is started again, each
\* step leaves an open file where it was, with at most one descriptor less.
THEOREM OpenStaysCorrect == CrossBorder = FALSE => (OverlaySpec => OpenStays)
<1> SUFFICES ASSUME CrossBorder = FALSE
             PROVE  OverlaySpec => OpenStays
  BY Zenon
<1> DEFINE Stay ==
      boots' = boots =>
        \A i \in Inos: live[i].opens > 0 =>
          live'[i].kind = "file" /\ live'[i].opens >= live[i].opens - 1
<1>1. OverlaySpec => []TreeInv
  BY SlabInvariance
<1>2. TreeInv /\ [OverlayNext]_overlayVars => [Stay]_overlayVars
  <2> SUFFICES ASSUME TreeInv, OverlayNext, boots' = boots
               PROVE  \A i \in Inos: live[i].opens > 0 =>
                        live'[i].kind = "file" /\ live'[i].opens >= live[i].opens - 1
    OBVIOUS
  <2> QED
    BY NextOpen, Zenon DEF OpensStay
<1> QED
  BY <1>1, <1>2, PTL DEF OverlaySpec, OpenStays
=============================================================================
