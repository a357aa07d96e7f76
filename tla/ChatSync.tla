------------------------------ MODULE ChatSync ------------------------------
(***************************************************************************)
(* One conversation as a chat client keeps it (packages/toolkit/src/chat:  *)
(* sync.ts, reduce.ts, the prompts of controller.ts), with the server it   *)
(* talks to and the event stream between them.                             *)
(*                                                                         *)
(* The stream has no replay.  On every connection the client reads the     *)
(* transcript (the inbox first, then the page) and the list of running     *)
(* sessions; events that arrive during the transcript's read are kept and  *)
(* applied on top of it.  Prompts are shown before the server has them.    *)
(* Answers to requests and events of the stream overtake each other.       *)
(*                                                                         *)
(* A message is a prompt, a number, or an answer to one run, a negative    *)
(* number; an answer is open while its tools run.  Text, the markers of    *)
(* runs that ended and other rows are left out.  The server is external.   *)
(***************************************************************************)
EXTENDS Integers, Sequences, SequencesExt

CONSTANTS
  Prompts,            \* prompts the user sends
  MaxRuns,            \* runs of the server
  MaxUpsets           \* of: connections that are lost, requests that fail, prompts
                      \* the user takes back, times the user looks at something else

ASSUME ChatAssumption == {Prompts, MaxRuns, MaxUpsets} \subseteq Nat

VARIABLES
  \* the server
  exists, running, inbox, page,
  open,               \* answers with unfinished tools
  run,                \* runs so far
  \* the stream
  attached,           \* a connection is there
  stream,             \* its events under way
  \* the client: what is shown of the session; sync
  session,
  online, watched,
  transcript,         \* the key of its read, see createKeys, and the read
  active,             \* the read of the list of running sessions
  activeKnown,
  settling,           \* the timer of a stale session
  \* the client's requests
  post,               \* by prompt
  cancel,
  upsets              \* what has come in between, by kind

server == <<exists, running, inbox, page, open, run>>
wire == <<attached, stream>>
sync == <<online, watched, transcript, active, activeKnown, settling>>
requests == <<post, cancel>>
syncVars == <<server, wire, sync, session, requests, upsets>>

Ids == 1..Prompts
Answers == {-r : r \in 1..MaxRuns}

emptySession ==
  [order |-> <<>>, open |-> {}, pending |-> {}, outbox |-> {}, status |-> "unknown",
   loaded |-> FALSE, loading |-> FALSE, stale |-> FALSE,
   info |-> FALSE, known |-> FALSE]   \* in the list of sessions; in the store

noRead == [phase |-> "none", inbox |-> <<>>, page |-> <<>>, open |-> {}, buffer |-> <<>>]
noKey == [state |-> "none", invalidated |-> FALSE, again |-> FALSE, read |-> noRead]
noActive == [phase |-> "none", running |-> FALSE, update |-> "none"]
noCancel == [id |-> 0, state |-> "none"]
noUpsets == [drops |-> 0, fails |-> 0, cancels |-> 0, leaves |-> 0]

SyncInit ==
  /\ exists = TRUE /\ running = FALSE /\ inbox = <<>> /\ page = <<>> /\ open = {} /\ run = 0
  /\ attached = FALSE /\ stream = <<>>
  /\ session = [emptySession EXCEPT !.info = TRUE, !.known = TRUE]
  /\ online = FALSE /\ watched = TRUE /\ transcript = noKey
  /\ active = noActive /\ activeKnown = FALSE /\ settling = FALSE
  /\ post = [p \in Ids |-> "none"] /\ cancel = noCancel
  /\ upsets = noUpsets

-----------------------------------------------------------------------------
\* What is left of a sequence: the members of S, in their order.
Only(s, S) ==
  LET kept[i \in 0..Len(s)] ==
        IF i = 0 THEN <<>>
        ELSE IF s[i] \in S THEN Append(kept[i - 1], s[i]) ELSE kept[i - 1]
  IN  kept[Len(s)]

Without(s, S) == Only(s, ToSet(s) \ S)

-----------------------------------------------------------------------------
\* reduce.ts

Event(type, id) == [type |-> type, id |-> id]

append(s, m) == IF m \in ToSet(s.order) THEN s ELSE [s EXCEPT !.order = Append(@, m)]

admit(s, p) == append([s EXCEPT !.pending = @ \cup {p}], p)

retract(s, p) ==
  [s EXCEPT !.pending = @ \ {p}, !.outbox = @ \ {p}, !.order = Without(@, {p}),
            !.known = TRUE]

\* What is kept of every session.
reduceAlways(s, e) ==
  CASE e.type = "started" -> [s EXCEPT !.status = "running"]
    [] e.type = "ended"   -> [s EXCEPT !.status = "idle"]
    [] OTHER              -> s

\* A prompt that is delivered moves below everything delivered before it.
delivered(s, p) ==
  IF p \in s.pending /\ p \in ToSet(s.order)
  THEN [s EXCEPT !.pending = @ \ {p}, !.order = Append(Without(@, {p}), p)]
  ELSE [s EXCEPT !.pending = @ \ {p}]

enqueued(s, p) == admit([s EXCEPT !.outbox = @ \ {p}], p)

stepStarted(s, m) ==
  IF m \in ToSet(s.order) THEN s ELSE [append(s, m) EXCEPT !.open = @ \cup {m}]

\* The tools of an answer end; an answer that is not shown makes the session stale.
toolsEnded(s, m) ==
  IF m \in ToSet(s.order) THEN [s EXCEPT !.open = @ \ {m}] ELSE [s EXCEPT !.stale = TRUE]

\* A run that ends with tools unfinished makes the session stale: the server
\* settles those without an event.
runEnded(s) == [s EXCEPT !.stale = @ \/ s.open # {}]

reduceTranscript(s, e) ==
  CASE e.type = "enqueued"  -> enqueued(s, e.id)
    [] e.type = "cancelled" -> retract(s, e.id)
    [] e.type = "delivered" -> delivered(s, e.id)
    [] e.type = "step"      -> stepStarted(s, e.id)
    [] e.type = "answered"  -> toolsEnded(s, e.id)
    [] e.type = "ended"     -> runEnded(s)
    [] OTHER                -> s

reduceSession(s, e) ==
  LET always == reduceAlways(s, e)
  IN IF always.loaded THEN reduceTranscript(always, e) ELSE always

Replayed(s, events) ==
  LET after[i \in 0..Len(events)] ==
        IF i = 0 THEN s ELSE reduceSession(after[i - 1], events[i])
  IN  after[Len(events)]

Appended(s, messages) ==
  LET after[i \in 0..Len(messages)] ==
        IF i = 0 THEN s ELSE append(after[i - 1], messages[i])
  IN  after[Len(messages)]

\* Messages before the page stay when the page joins what is shown; a prompt the
\* server has not acknowledged stays; then the events are applied.
applySnapshot(s, read, during) ==
  LET fetched == ToSet(read.page)
      joins == s.loaded /\ ToSet(s.order) \cap fetched # {}
      firstAt == SelectInSeq(s.order, LAMBDA m: m = Head(read.page))
      prefix == IF joins
                THEN Without(SubSeq(s.order, 1, firstAt - 1), fetched)
                ELSE <<>>
      unacknowledged == (s.pending \cap s.outbox) \ (fetched \cup ToSet(read.inbox))
      pending == Without(read.inbox, fetched) \o Only(s.order, unacknowledged)
      committed ==
        [s EXCEPT !.order = prefix \o read.page, !.pending = ToSet(pending),
                  !.outbox = @ \cap unacknowledged,
                  !.open = read.open \cup (@ \cap ToSet(prefix)),
                  !.loaded = TRUE, !.loading = FALSE, !.stale = FALSE, !.info = TRUE]
  IN Replayed(Appended(committed, pending), during)

-----------------------------------------------------------------------------
\* sync.ts: createKeys, for the key of the transcript.  These take the key and
\* the session and give both.

\* transcript: a read begins.
Begun(c) ==
  [key |-> [state |-> "pending", invalidated |-> FALSE, again |-> FALSE,
            read |-> [noRead EXCEPT !.phase = "asked"]],
   session |-> [c.session EXCEPT !.loading = TRUE, !.known = TRUE]]

\* run: join the read in flight, or begin another behind one that was invalidated.
Run(c) ==
  CASE c.key.state = "none" -> Begun(c)
    [] c.key.state = "pending" /\ c.key.invalidated ->
         [c EXCEPT !.key.again = TRUE, !.key.invalidated = FALSE]
    [] OTHER -> c

\* invalidate: a reload that waits has read nothing yet.
Invalidated(c) ==
  CASE c.key.state = "done" -> [c EXCEPT !.key = noKey]
    [] c.key.state = "pending" /\ ~c.key.again -> [c EXCEPT !.key.invalidated = TRUE]
    [] OTHER -> c

\* The read in flight is over.
Ended(c, ok) ==
  IF c.key.again THEN Begun(c)
  ELSE [c EXCEPT !.key = [noKey EXCEPT !.state = IF ok /\ ~c.key.invalidated
                                                 THEN "done" ELSE "none"]]

Client == [key |-> transcript, session |-> session]
Becomes(c) == transcript' = c.key /\ session' = c.session

Reading == transcript.state = "pending"

\* A read that failed: what was held back is applied to the state it left alone.
Failed(c) ==
  Ended([c EXCEPT !.session = Replayed([c.session EXCEPT !.loading = FALSE],
                                       c.key.read.buffer)], FALSE)

\* reload
Reloaded(c) == IF online THEN Run(Invalidated(c)) ELSE c

Forgotten(s) == [s EXCEPT !.loaded = FALSE, !.loading = FALSE, !.status = "unknown"]

-----------------------------------------------------------------------------
\* The server (external)

Upset(kind) ==
  /\ upsets.drops + upsets.fails + upsets.cancels + upsets.leaves < MaxUpsets
  /\ upsets' = [upsets EXCEPT ![kind] = @ + 1]

Push(e) == stream' = IF attached THEN Append(stream, e) ELSE stream

Starts ==
  /\ exists /\ ~running /\ run < MaxRuns /\ inbox # <<>>
  /\ running' = TRUE /\ run' = run + 1
  /\ Push(Event("started", 0))
  /\ UNCHANGED <<exists, inbox, page, open, attached, sync, session, requests, upsets>>

Delivers ==
  /\ running /\ inbox # <<>>
  /\ inbox' = Tail(inbox) /\ page' = Append(page, Head(inbox))
  /\ Push(Event("delivered", Head(inbox)))
  /\ UNCHANGED <<exists, running, open, run, attached, sync, session, requests, upsets>>

Steps ==
  /\ running /\ -run \notin ToSet(page) /\ page # <<>>
  /\ page' = Append(page, -run) /\ open' = open \cup {-run}
  /\ Push(Event("step", -run))
  /\ UNCHANGED <<exists, running, inbox, run, attached, sync, session, requests, upsets>>

Answered ==
  /\ -run \in open
  /\ open' = open \ {-run}
  /\ Push(Event("answered", -run))
  /\ UNCHANGED <<exists, running, inbox, page, run, attached, sync, session, requests, upsets>>

Ends ==
  /\ running
  /\ running' = FALSE /\ open' = {}
  /\ Push(Event("ended", 0))
  /\ UNCHANGED <<exists, inbox, page, run, attached, sync, session, requests, upsets>>

Deletes ==
  /\ exists /\ ~running
  /\ exists' = FALSE
  /\ Push(Event("deleted", 0))
  /\ UNCHANGED <<running, inbox, page, open, run, attached, sync, session, requests, upsets>>

-----------------------------------------------------------------------------
\* The stream

Connects ==
  /\ ~attached
  /\ attached' = TRUE
  /\ stream' = <<Event("connected", 0)>>
  /\ UNCHANGED <<server, sync, session, requests, upsets>>

\* The stream ends: what was under way is lost.  offline: reads are aborted,
\* timers cleared, and what is known may be behind.
Drops ==
  /\ attached /\ Upset("drops")
  /\ attached' = FALSE /\ stream' = <<>>
  /\ IF online
     THEN /\ online' = FALSE /\ activeKnown' = FALSE
          /\ active' = noActive /\ settling' = FALSE
          /\ transcript' = noKey
          /\ session' = Replayed(Forgotten(session), transcript.read.buffer)
     ELSE UNCHANGED <<online, activeKnown, active, settling, transcript, session>>
  /\ UNCHANGED <<server, watched, requests>>

-----------------------------------------------------------------------------
\* sync.ts: events

Next1 == stream # <<>> /\ stream' = Tail(stream) /\ UNCHANGED attached

\* connected
HandleConnected ==
  /\ Next1 /\ Head(stream).type = "connected"
  /\ online' = TRUE /\ activeKnown' = FALSE
  /\ active' = [noActive EXCEPT !.phase = "asked"]
  /\ LET c == [Invalidated(Client) EXCEPT !.session = Forgotten(@)]
     IN IF watched THEN Becomes(Run(c)) ELSE Becomes(c)
  /\ UNCHANGED <<server, watched, settling, requests, upsets>>

\* Lifecycle events supersede the list that is being read.
Update(e) ==
  IF active.phase = "none" THEN active
  ELSE CASE e.type = "started" -> [active EXCEPT !.update = "running"]
         [] e.type = "ended"   -> [active EXCEPT !.update = "idle"]
         [] e.type = "deleted" -> [active EXCEPT !.update = "none"]
         [] OTHER              -> active

\* The transcript is being read: the event waits.
HandleBuffered ==
  /\ Next1 /\ Head(stream).type # "connected" /\ Reading
  /\ active' = Update(Head(stream))
  /\ transcript' = [transcript EXCEPT !.read.buffer = Append(@, Head(stream))]
  /\ UNCHANGED <<server, session, online, watched, activeKnown, settling, requests, upsets>>

\* An event is applied; a session it makes stale is read again when a timer ends.
HandleEvent ==
  /\ Next1 /\ Head(stream).type \notin {"connected", "deleted"} /\ ~Reading
  /\ active' = Update(Head(stream))
  /\ session' = reduceSession(session, Head(stream))
  /\ settling' = (settling \/ (session'.stale /\ session'.loaded))
  /\ UNCHANGED <<server, online, watched, transcript, activeKnown, requests, upsets>>

HandleDeleted ==
  /\ Next1 /\ Head(stream).type = "deleted" /\ ~Reading
  /\ active' = Update(Head(stream))
  /\ session' = emptySession /\ watched' = FALSE
  /\ UNCHANGED <<server, online, transcript, activeKnown, settling, requests, upsets>>

\* settle: the timer of a stale session.
Settle ==
  /\ settling
  /\ settling' = FALSE
  /\ Becomes(Run(Invalidated(Client)))
  /\ UNCHANGED <<server, wire, online, watched, active, activeKnown, requests, upsets>>

-----------------------------------------------------------------------------
\* sync.ts: reads

\* The list of running sessions, as the server has it.
ReadActive ==
  /\ active.phase = "asked"
  /\ active' = [active EXCEPT !.phase = "read", !.running = running]
  /\ UNCHANGED <<server, wire, session, online, watched, transcript, activeKnown, settling,
                 requests, upsets>>

CommitActive ==
  /\ active.phase = "read"
  /\ active' = noActive /\ activeKnown' = TRUE
  /\ session' = IF session.known \/ active.running
                THEN [session EXCEPT !.known = TRUE, !.status =
                        IF active.update # "none" THEN active.update
                        ELSE IF active.running THEN "running" ELSE "idle"]
                ELSE session
  /\ UNCHANGED <<server, wire, online, watched, transcript, settling, requests, upsets>>

\* Mutant: the page is read first.
ReadPageFirst(read) ==
  IF read.phase = "asked"
  THEN [read EXCEPT !.phase = "inbox", !.page = page, !.open = open]
  ELSE [read EXCEPT !.phase = "page", !.inbox = inbox]

\* The inbox first: "The other order can lose a prompt".
ReadNext(read) ==
  IF read.phase = "asked"
  THEN [read EXCEPT !.phase = "inbox", !.inbox = inbox]
  ELSE [read EXCEPT !.phase = "page", !.page = page, !.open = open]

Read ==
  /\ Reading /\ exists /\ transcript.read.phase \in {"asked", "inbox"}
  /\ transcript' = [transcript EXCEPT !.read = ReadNext(@)]
  /\ UNCHANGED <<server, wire, session, online, watched, active, activeKnown, settling,
                 requests, upsets>>

\* The read's last answer is here.
Commit ==
  /\ Reading /\ transcript.read.phase = "page"
  /\ LET shown == IF session.status = "unknown" /\ activeKnown
                  THEN [session EXCEPT !.status = "idle"] ELSE session
         read == transcript.read
     IN Becomes(Ended([Client EXCEPT !.session = applySnapshot(shown, read, read.buffer)],
                      TRUE))
  /\ UNCHANGED <<server, wire, online, watched, active, activeKnown, settling, requests,
                 upsets>>

\* The session is not there any more, or a request fails.
ReadFails ==
  /\ Reading
  /\ \/ ~exists /\ transcript.read.phase # "page" /\ UNCHANGED upsets
     \/ Upset("fails")
  /\ Becomes(Failed(Client))
  /\ UNCHANGED <<server, wire, online, watched, active, activeKnown, settling,
                 requests>>

\* Mutant: a prompt on its way does not keep its session.
KeptWhenUnread(s) == ~s.loaded /\ s.order = <<>>

\* A prompt still on its way keeps its session whole.
Kept(s) == s.outbox # {} \/ (~s.loaded /\ s.order = <<>>)

Bare(s) == [emptySession EXCEPT !.info = s.info, !.known = TRUE, !.status = s.status]

\* Mutant: the key says that the transcript is here.
DroppedHalf(c) == [c EXCEPT !.session = Bare(@)]

Dropped(c) == Invalidated([c EXCEPT !.session = Bare(@)])

\* unwatch: what leaves the screen keeps who it is, not its messages.
Leave ==
  /\ watched /\ session.known /\ Upset("leaves")
  /\ watched' = FALSE
  /\ IF Kept(session) THEN UNCHANGED <<transcript, session, settling>>
                      ELSE Becomes(Dropped(Client)) /\ settling' = FALSE
  /\ UNCHANGED <<server, wire, online, active, activeKnown, requests>>

\* watch
Return ==
  /\ ~watched /\ session.known
  /\ watched' = TRUE
  /\ IF online THEN Becomes(Run(Client)) ELSE UNCHANGED <<transcript, session>>
  /\ UNCHANGED <<server, wire, online, active, activeKnown, settling, requests, upsets>>

-----------------------------------------------------------------------------
\* controller.ts: prompts

\* send: the prompt is shown at once; it goes out when those before it are
\* answered.
Send(p) ==
  /\ post[p] = "none" /\ \A q \in 1..p - 1: post[q] # "none"
  /\ online /\ session.known /\ session.loaded /\ watched
  /\ post' = [post EXCEPT ![p] = "chained"]
  /\ session' = [admit(session, p) EXCEPT !.outbox = @ \cup {p}]
  /\ UNCHANGED <<server, wire, sync, cancel, upsets>>

Settled(p) == post[p] \in {"accepted", "rejected", "orphan"}

Post(p) ==
  /\ post[p] = "chained" /\ \A q \in 1..p - 1: Settled(q)
  /\ post' = [post EXCEPT ![p] = "sent"]
  /\ UNCHANGED <<server, wire, session, sync, cancel, upsets>>

\* The server admits a prompt; one whose client has given up may still arrive.
Take(p) ==
  /\ post[p] \in {"sent", "orphan"} /\ exists
  /\ post' = [post EXCEPT ![p] = IF @ = "sent" THEN "taken" ELSE "rejected"]
  /\ inbox' = Append(inbox, p)
  /\ Push(Event("enqueued", p))
  /\ UNCHANGED <<exists, running, page, open, run, attached, sync, session, cancel, upsets>>

\* The answer: a prompt that was delivered already is a message.
Accepted(p) ==
  /\ post[p] = "taken"
  /\ post' = [post EXCEPT ![p] = "accepted"]
  /\ session' = LET s == [session EXCEPT !.outbox = @ \ {p}, !.known = TRUE]
                IN IF p \in session.pending THEN admit(s, p) ELSE s
  /\ UNCHANGED <<server, wire, sync, cancel, upsets>>

\* The request fails or its answer is lost: the row is withdrawn, and the
\* transcript read again, for the server may have taken it.
Rejected(p) ==
  /\ \/ post[p] = "sent" /\ ~exists /\ UNCHANGED upsets
     \/ post[p] \in {"sent", "taken"} /\ Upset("fails")
  /\ post' = [post EXCEPT ![p] = IF @ = "sent" THEN "orphan" ELSE "rejected"]
  /\ LET c == [Client EXCEPT !.session = retract(@, p)]
     IN Becomes(IF session.loaded THEN Reloaded(c) ELSE c)
  /\ UNCHANGED <<server, wire, online, watched, active, activeKnown, settling, cancel>>

\* cancelQueued, of a prompt that is not being sent (composer.tsx)
Cancel(p) ==
  /\ cancel.state = "none" /\ Upset("cancels") /\ p \in session.pending \ session.outbox
  /\ cancel' = [id |-> p, state |-> "sent"]
  /\ UNCHANGED <<server, wire, session, sync, post>>

TakeBack ==
  /\ cancel.state = "sent"
  /\ IF exists /\ cancel.id \in ToSet(inbox)
     THEN /\ cancel' = [cancel EXCEPT !.state = "cancelled"]
          /\ inbox' = Without(inbox, {cancel.id})
          /\ Push(Event("cancelled", cancel.id))
     ELSE /\ cancel' = [cancel EXCEPT !.state = "refused"]
          /\ UNCHANGED <<inbox, stream>>
  /\ UNCHANGED <<exists, running, page, open, run, attached, sync, session, post, upsets>>

Cancelled ==
  /\ cancel.state = "cancelled"
  /\ cancel' = noCancel
  /\ session' = retract(session, cancel.id)
  /\ UNCHANGED <<server, wire, sync, post, upsets>>

\* Delivered, or cancelled, in the meantime: the transcript says which.
CancelFails ==
  /\ \/ cancel.state = "refused" /\ UNCHANGED upsets
     \/ cancel.state \in {"sent", "cancelled"} /\ Upset("fails")
  /\ cancel' = noCancel
  /\ IF session.loaded THEN Becomes(Reloaded(Client)) ELSE UNCHANGED <<transcript, session>>
  /\ UNCHANGED <<server, wire, online, watched, active, activeKnown, settling, post>>

-----------------------------------------------------------------------------

Server == Starts \/ Delivers \/ Steps \/ Answered \/ Ends \/ TakeBack \/ \E p \in Ids: Take(p)

Handle == HandleConnected \/ HandleBuffered \/ HandleEvent \/ HandleDeleted

Reads == ReadActive \/ CommitActive \/ Read \/ Commit

Prompting ==
  \/ \E p \in Ids: Send(p) \/ Post(p) \/ Accepted(p) \/ Rejected(p) \/ Cancel(p)
  \/ Cancelled \/ CancelFails

SyncNext ==
  \/ Server \/ Deletes \/ Connects \/ Drops \/ Handle \/ Settle \/ Reads \/ ReadFails
  \/ Leave \/ Return \/ Prompting

SyncSpec == SyncInit /\ [][SyncNext]_syncVars

-----------------------------------------------------------------------------

\* Types; no message is shown twice, and what is pending has a row.
SyncTypes ==
  /\ exists \in BOOLEAN /\ running \in BOOLEAN /\ open \subseteq Answers
  /\ inbox \in Seq(Ids) /\ page \in Seq(Ids \cup Answers) /\ run \in 0..MaxRuns
  /\ attached \in BOOLEAN /\ online \in BOOLEAN /\ watched \in BOOLEAN
  /\ activeKnown \in BOOLEAN /\ settling \in BOOLEAN
  /\ session.order \in Seq(Ids \cup Answers)
  /\ IsInjective(session.order)
  /\ session.pending \subseteq ToSet(session.order)
  /\ transcript.state \in {"none", "pending", "done"}
  /\ transcript.again => transcript.state = "pending"
  /\ online => attached

\* A prompt stays on the screen until the server has answered, through reads,
\* connections and what leaves it; one the server has taken is pending or a message.
PromptShown ==
  exists => \A p \in Ids:
    /\ post[p] \in {"chained", "sent"} => p \in session.pending \cap ToSet(session.order)
    /\ post[p] = "taken" /\ session.loaded /\ upsets.cancels = 0 => p \in ToSet(session.order)

Quiet ==
  /\ online /\ stream = <<>> /\ ~Reading /\ active.phase = "none" /\ ~settling
  /\ cancel.state = "none" /\ \A p \in Ids: post[p] \notin {"chained", "sent", "taken"}

\* "kept current from then on" (sync.ts, watch): when nothing is under way a
\* transcript has the messages the server has, what waits there waits here, and
\* the session runs here when it runs there; for one request that fails the client
\* makes up, for that and the read that was to make up for it, it does not.
Current ==
  Quiet /\ exists /\ upsets.fails < 2 =>
    /\ activeKnown => session.status = IF running THEN "running" ELSE "idle"
    /\ session.loaded /\ ~session.stale =>
         /\ ToSet(session.order) = ToSet(page) \cup ToSet(inbox)
         /\ session.pending = ToSet(inbox) /\ session.outbox = {}
         /\ session.open = open

\* What is watched is read or being read, however connections, reads, leaving and
\* coming back mix; only a read that failed leaves it unread.
Followed ==
  online /\ watched /\ exists /\ upsets.fails = 0 => session.loaded \/ Reading

\* "A transcript is read again ... when the reducer marked the session `stale`"
\* (sync.ts).  The code does not keep this: an event that is applied behind a read,
\* from its buffer, marks the session and nobody looks.
StaleIsRead == Quiet /\ watched /\ exists /\ upsets.fails = 0 => ~session.stale

\* The messages are in the server's order: "The ones the read already included
\* change nothing or are overwritten by their successors" (reduce.ts).  The code does
\* not keep this: a prompt whose enqueued and delivered events are applied behind a
\* page that has it moves below its answer.
InOrder ==
  Quiet /\ exists /\ session.loaded /\ ~session.stale =>
    Only(session.order, ToSet(page)) = page
=============================================================================
