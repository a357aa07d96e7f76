---------------------------- MODULE AbstractPipe ----------------------------
(***************************************************************************)
(* What a pipe promises (docs/design/kernel-abi.md, section 4): a bounded  *)
(* FIFO of bytes.  Writers append what they still have to write, in order  *)
(* and as far as it fits; readers take a prefix; after the reader's end is *)
(* closed nothing is appended any more.                                    *)
(***************************************************************************)
EXTENDS Naturals, Sequences

CONSTANTS Readers, Writers, Messages, Cap

VARIABLES
  chan,   \* the bytes in the pipe, oldest first
  todo,   \* what each writer has still to write in its call
  got,    \* the bytes each reader's last successful call returned
  open    \* the ends that are open: a subset of {"r", "w"}

vars == <<chan, todo, got, open>>

Init ==
  /\ chan = <<>>
  /\ todo = [t \in Writers |-> <<>>]
  /\ got = [t \in Readers |-> <<>>]
  /\ open = {"r", "w"}

Begin(t, s) ==
  /\ todo[t] = <<>>
  /\ todo' = [todo EXCEPT ![t] = s]
  /\ UNCHANGED <<chan, got, open>>

Send(t, n) ==
  /\ "r" \in open /\ "w" \in open
  /\ Len(chan) + n <= Cap
  /\ chan' = chan \o SubSeq(todo[t], 1, n)
  /\ todo' = [todo EXCEPT ![t] = SubSeq(@, n + 1, Len(@))]
  /\ UNCHANGED <<got, open>>

\* The call returns early: EAGAIN, EPIPE, or a count short of the request.
Quit(t) ==
  /\ todo' = [todo EXCEPT ![t] = <<>>]
  /\ UNCHANGED <<chan, got, open>>

Receive(t, n) ==
  /\ "r" \in open
  /\ got' = [got EXCEPT ![t] = SubSeq(chan, 1, n)]
  /\ chan' = SubSeq(chan, n + 1, Len(chan))
  /\ UNCHANGED <<todo, open>>

Close(e) ==
  /\ open' = open \ {e}
  /\ UNCHANGED <<chan, todo, got>>

Next ==
  \/ \E t \in Writers : \/ \E s \in Messages : Begin(t, s)
                        \/ \E n \in 1..Len(todo[t]) : Send(t, n)
                        \/ Quit(t)
  \/ \E t \in Readers : \E n \in 1..Len(chan) : Receive(t, n)
  \/ \E e \in open : Close(e)

Spec == Init /\ [][Next]_vars
=============================================================================
