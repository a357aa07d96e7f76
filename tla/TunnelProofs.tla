---------------------------- MODULE TunnelProofs ----------------------------
(***************************************************************************)
(* Proofs about the tunnel for every window, piece, buffer and message     *)
(* size: types, the two windows, that no socket outlives its tunnel, and   *)
(* that the request is the abstract one.                                   *)
(***************************************************************************)
EXTENDS Tunnel, TLAPS

Early == relay \in {"none", "dns", "connecting"}

\* Until the TCP connection is there nothing was sent either way.
NothingEarly ==
  /\ Early => /\ writer = "off" /\ ~downOpen /\ downData = 0 /\ ~downEnd
              /\ unread = 0 /\ unwritten = 0
  /\ link \in {"none", "dialing"} => relay = "none"
  /\ lookup => relay = "dns" \/ Ended
  /\ pc = "loading" => link = "none"

\* Until the page knows of it, it has nothing to send or to acknowledge; what
\* the relay sends behind "open" waits for that.
NothingUnopened ==
  /\ writer = "off" =>
       /\ pc \in {"loading", "idle"}
       /\ upData = 0 /\ upAck = 0 /\ unacked = 0
       /\ inQueue = 0 /\ taken = 0 /\ downAck = 0 /\ unwritten = 0 /\ body = 0
  /\ writer = "off" /\ ~Over /\ ~downOpen =>
       downData = 0 /\ ~downEnd /\ relay # "open"

\* pump runs only in a request that runs.
PumpRuns == pc \in {"fill", "read", "ack"} => ~Over

\* A page that is over no longer counts what is acknowledged.
SendCount ==
  /\ unacked <= Window
  /\ unacked >= upData + unwritten + downAck
  /\ ~Over => unacked = upData + unwritten + downAck

ReceiveCount ==
  /\ unread < Window + Chunk
  /\ paused <=> unread >= Window
  /\ ReceiveWindow

\* Before the handshake TLS keeps what it is given among its plaintext.
WrittenEarly == ~Secure => written <= TlsCap

IInv ==
  /\ TypeOK
  /\ NothingEarly /\ NothingUnopened /\ PumpRuns
  /\ SendCount /\ ReceiveCount
  /\ relay # "broken"
  /\ NoSocketLeft /\ WrittenEarly

-----------------------------------------------------------------------------

USE DEF PageTypes, WireTypes, RelayTypes
USE DEF page, request, tls, sending, receiving, wire, up, down, tunnel, server

\* The sizes are numbers above zero, a piece fits into the window.
LEMMA Sizes ==
  /\ Window \in Nat /\ Window > 0 /\ Scratch \in Nat /\ Scratch > 0
  /\ Chunk \in Nat /\ Chunk > 0 /\ HighWater \in Nat /\ HighWater > 0
  /\ TlsCap \in Nat /\ TlsCap > 0 /\ Request \in Nat /\ Request > 0
  /\ Response \in Nat /\ Response > 0 /\ Scratch <= Window
  BY TunnelAssumption

\* Bytes go out when u of them are unacknowledged.
Sent(u) == \E k \in Nat: unacked' = u + k /\ upData' = upData + k

\* What goes out is counted twice, under way and as unacknowledged, and stays
\* within the window.
LEMMA Sends ==
  ASSUME NEW q \in Int, NEW u \in Nat, upData \in Nat, Send(q, u)
  PROVE  /\ outQueued' \in Nat /\ unacked' \in Nat /\ upData' \in Nat
         /\ Sent(u)
         /\ u <= Window => unacked' <= Window
  <1>1. PICK k \in 0..q:
          /\ u + k <= Window \/ k = 0
          /\ outQueued' = q - k /\ unacked' = u + k /\ upData' = upData + k
    BY DEF Send
  <1>2. k \in Nat /\ q - k \in Nat
    BY <1>1
  <1> QED
    BY <1>1, <1>2, Sizes DEF Sent

\* Plaintext is a part of what TLS took.
LEMMA Plaintext ==
  ASSUME NEW t \in Nat
  PROVE  PlainOf(t) \in 0..Response
  BY Sizes DEF PlainOf, Least

LEMMA Wants ==
  ASSUME NEW t \in Nat, NEW w \in Nat
  PROVE  Wanted(t, w) \in Nat
  BY DEF Wanted

\* The same of flush.
LEMMA Flushes ==
  ASSUME NEW t \in Nat, NEW w \in Nat, TypeOK, Flush(t, w)
  PROVE  /\ out' \in Nat /\ outQueued' \in Nat /\ unacked' \in Nat /\ upData' \in Nat
         /\ Sent(unacked)
         /\ unacked <= Window => unacked' <= Window
  <1>1. outQueued + Wanted(t, w) - out \in Int /\ unacked \in Nat /\ upData \in Nat
    BY Wants DEF TypeOK
  <1>2. Send(outQueued + Wanted(t, w) - out, unacked) /\ out' = Wanted(t, w)
    BY DEF Flush
  <1>3. /\ outQueued' \in Nat /\ unacked' \in Nat /\ upData' \in Nat
        /\ Sent(unacked)
        /\ unacked <= Window => unacked' <= Window
    BY <1>1, <1>2, Sends
  <1> QED
    BY <1>2, <1>3, Wants

-----------------------------------------------------------------------------

\* finish sends close_notify the same way.
LEMMA Finishes ==
  ASSUME TypeOK, unacked <= Window, Finish
  PROVE  /\ out' \in Nat /\ outQueued' \in Nat /\ unacked' \in Nat /\ upData' \in Nat
         /\ Sent(unacked)
         /\ unacked' <= Window
  <1>1. out' = out + 1 /\ Send(outQueued + 1, unacked)
    BY DEF Finish
  <1>2. out \in Nat /\ outQueued + 1 \in Int /\ unacked \in Nat /\ upData \in Nat
    BY DEF TypeOK
  <1> QED
    BY <1>1, <1>2, Sends

\* What was sent is counted on both sides.
LEMMA SendCounted ==
  ASSUME IInv, upData' \in Nat, unacked' \in Nat, unacked' <= Window,
         Sent(unacked), UNCHANGED <<unwritten, downAck>>,
         ~Over' => ~Over
  PROVE  SendCount'
  <1>1. /\ unacked \in Nat /\ upData \in Nat /\ unwritten \in Nat /\ downAck \in Nat
        /\ SendCount
    BY DEF IInv, TypeOK
  <1>2. PICK k \in Nat: unacked' = unacked + k /\ upData' = upData + k
    BY DEF Sent
  <1>3. unacked' >= upData' + unwritten' + downAck'
    BY <1>1, <1>2 DEF SendCount
  <1>4. ~Over' => unacked' = upData' + unwritten' + downAck'
    BY <1>1, <1>2 DEF SendCount, Over
  <1> QED
    BY <1>3, <1>4 DEF SendCount

\* The tunnel starts out with nothing under way.
LEMMA InitInv == Init => IInv
<1> SUFFICES ASSUME Init PROVE IInv
  OBVIOUS
<1>1. TypeOK
  <2>1. 0 \in 0..HighWater + Scratch - 1 /\ 0 \in 0..Total /\ 0 \in 0..Request
    BY Sizes DEF Total
  <2> QED
    BY <2>1 DEF Init, TypeOK, PCs, Links
<1>2. NothingEarly /\ NothingUnopened /\ PumpRuns /\ relay # "broken" /\ NoSocketLeft
  BY DEF Init, NothingEarly, NothingUnopened, PumpRuns, NoSocketLeft, Over, Ended, Early
<1>3. SendCount /\ ReceiveCount /\ WrittenEarly
  BY Sizes DEF Init, WrittenEarly, SendCount, ReceiveCount, ReceiveWindow, Linked
<1> QED
  BY <1>1, <1>2, <1>3 DEF IInv

\* PumpFill keeps the invariant.
LEMMA PumpFillKeeps == IInv /\ PumpFill => IInv'
<1> SUFFICES ASSUME IInv, PumpFill PROVE IInv'
  OBVIOUS
<1>0. /\ out' \in Nat /\ outQueued' \in Nat /\ unacked' \in Nat /\ upData' \in Nat
      /\ Sent(unacked) /\ unacked' <= Window
  <2>1. PICK t \in 0..inQueue: Flush(tin + t, written)
    BY DEF PumpFill
  <2>2. tin + t \in Nat /\ written \in Nat /\ TypeOK /\ unacked <= Window
    BY <2>1, Sizes DEF IInv, TypeOK, SendCount
  <2> QED
    BY <2>1, <2>2, Flushes
<1>1. TypeOK'
  <2>1. PageTypes'
    <3>1. PICK t \in 0..inQueue:
            tin' = tin + t /\ inQueue' = inQueue - t /\ taken' = taken + t
      BY DEF PumpFill
    <3>2. tin' \in Nat /\ inQueue' \in Nat /\ taken' \in Nat
      BY <3>1 DEF IInv, TypeOK
    <3>3. pc' \in PCs
      BY DEF PumpFill, PCs
    <3>4. CASE UNCHANGED <<eofFed, eofSeen>>
      BY <1>0, <3>2, <3>3, <3>4 DEF IInv, TypeOK, PumpFill
    <3>5. CASE \E k \in Nat: eofFed' = TRUE /\ eofSeen' = (PlainOf(tin + k) - got < TlsCap)
      <4>1. eofFed' \in BOOLEAN /\ eofSeen' \in BOOLEAN
        <5>1. PICK k \in Nat: eofSeen' = (PlainOf(tin + k) - got < TlsCap)
          BY <3>5
        <5>2. (PlainOf(tin + k) - got < TlsCap) \in BOOLEAN
          OBVIOUS
        <5> QED
          BY <3>5, <5>1, <5>2
      <4> QED
        BY <1>0, <3>2, <3>3, <4>1 DEF IInv, TypeOK, PumpFill
    <3>6. \/ UNCHANGED <<eofFed, eofSeen>>
          \/ \E k \in Nat: eofFed' = TRUE /\ eofSeen' = (PlainOf(tin + k) - got < TlsCap)
      BY DEF IInv, TypeOK, PumpFill
    <3> QED
      BY <3>4, <3>5, <3>6
  <2>2. WireTypes'
    BY <1>0, Sizes DEF IInv, TypeOK, PumpFill, PCs, Links, Over
  <2>3. RelayTypes'
    BY <1>0, Sizes DEF IInv, TypeOK, PumpFill, PCs, Links, Over
  <2> QED
    BY <2>1, <2>2, <2>3 DEF TypeOK
<1>2. (NothingEarly /\ NothingUnopened /\ PumpRuns)'
  BY <1>0, Sizes DEF IInv, TypeOK, NothingEarly, NothingUnopened, PumpRuns, Early,
     Ended, PumpFill, Over
<1>3. (SendCount /\ ReceiveCount)'
  <2>1. SendCount'
    <3>1. UNCHANGED <<unwritten, downAck>> /\ (~Over' => ~Over)
      BY DEF IInv, PumpRuns, PumpFill, Over
    <3> QED
      BY <1>0, <3>1, SendCounted
  <2>2. ReceiveCount'
    BY <1>0, Sizes DEF IInv, TypeOK, NothingEarly, NothingUnopened, ReceiveCount,
       ReceiveWindow, Linked, Early, PumpFill, Over, Ended
  <2> QED
    BY <2>1, <2>2
<1>4. (relay # "broken" /\ NoSocketLeft /\ WrittenEarly)'
  BY <1>0, Sizes DEF IInv, TypeOK, NothingEarly, NothingUnopened, SendCount,
     NoSocketLeft, WrittenEarly, Secure, Least, Early, Ended, PumpFill, Over
<1> QED
  BY <1>1, <1>2, <1>3, <1>4 DEF IInv

\* PumpRead keeps the invariant.
LEMMA PumpReadKeeps == IInv /\ PumpRead => IInv'
<1> SUFFICES ASSUME IInv, PumpRead PROVE IInv'
  OBVIOUS
<1>0. /\ out' \in Nat /\ outQueued' \in Nat /\ unacked' \in Nat /\ upData' \in Nat
      /\ Sent(unacked) /\ unacked' <= Window
  <2>1. Finish \/ UNCHANGED <<out, sending, upData>>
    BY DEF PumpRead
  <2>2. TypeOK /\ unacked <= Window
    BY DEF IInv, SendCount
  <2>3. CASE Finish
    BY <2>2, <2>3, Finishes
  <2>4. CASE UNCHANGED <<out, sending, upData>>
    <3>1. unacked' = unacked + 0 /\ upData' = upData + 0
      BY <2>2, <2>4 DEF TypeOK
    <3>2. Sent(unacked)
      BY <3>1 DEF Sent
    <3> QED
      BY <2>2, <2>4, <3>2 DEF TypeOK
  <2> QED
    BY <2>1, <2>3, <2>4
<1>1. TypeOK'
  <2>1. PageTypes'
    BY <1>0, Sizes DEF IInv, TypeOK, PumpRead, Head1, Room, WantMore, Finish, Cleanup,
       Woken, PCs, Links, Over
  <2>2. WireTypes'
    BY <1>0, Sizes DEF IInv, TypeOK, PumpRead, Head1, Room, WantMore, Finish, Cleanup,
       Woken, PCs, Links, Over
  <2>3. RelayTypes'
    BY <1>0, Sizes DEF IInv, TypeOK, PumpRead, Head1, Room, WantMore, Finish, Cleanup,
       Woken, PCs, Links, Over
  <2> QED
    BY <2>1, <2>2, <2>3 DEF TypeOK
<1>2. (NothingEarly /\ NothingUnopened /\ PumpRuns)'
  BY <1>0, Sizes DEF IInv, TypeOK, NothingEarly, NothingUnopened, PumpRuns, Early,
     Ended, PumpRead, Head1, Room, WantMore, Finish, Cleanup, Woken, Over
<1>3. (SendCount /\ ReceiveCount)'
  <2>1. SendCount'
    <3>1. UNCHANGED <<unwritten, downAck>> /\ (~Over' => ~Over)
      BY DEF IInv, PumpRuns, PumpRead, Finish, Over
    <3> QED
      BY <1>0, <3>1, SendCounted
  <2>2. ReceiveCount'
    <3>1. /\ UNCHANGED <<unread, paused, downData, inQueue, taken, upAck>>
          /\ Linked' => Linked
      BY DEF IInv, PumpRuns, PumpRead, Finish, Cleanup, Linked, Over
    <3> QED
      BY <3>1 DEF IInv, ReceiveCount, ReceiveWindow
  <2> QED
    BY <2>1, <2>2
<1>4. (relay # "broken" /\ NoSocketLeft /\ WrittenEarly)'
  BY <1>0, Sizes DEF IInv, TypeOK, NothingEarly, NothingUnopened, SendCount,
     NoSocketLeft, WrittenEarly, Secure, Least, Early, Ended, PumpRead, Head1, Room,
     WantMore, Finish, Cleanup, Woken, Over
<1> QED
  BY <1>1, <1>2, <1>3, <1>4 DEF IInv

\* PumpEof keeps the invariant.
LEMMA PumpEofKeeps == IInv /\ PumpEof => IInv'
<1> SUFFICES ASSUME IInv, PumpEof PROVE IInv'
  OBVIOUS
<1>0. /\ out' \in Nat /\ outQueued' \in Nat /\ unacked' \in Nat /\ upData' \in Nat
      /\ Sent(unacked) /\ unacked' <= Window
  <2>1. Finish /\ TypeOK /\ unacked <= Window
    BY DEF PumpEof, IInv, SendCount
  <2> QED
    BY <2>1, Finishes
<1>1. TypeOK'
  <2>1. PageTypes'
    BY <1>0, Sizes DEF IInv, TypeOK, PumpEof, WantMore, Plain, Finish, Cleanup, Woken,
       PCs, Links, Over
  <2>2. WireTypes'
    BY <1>0, Sizes DEF IInv, TypeOK, PumpEof, WantMore, Plain, Finish, Cleanup, Woken,
       PCs, Links, Over
  <2>3. RelayTypes'
    BY <1>0, Sizes DEF IInv, TypeOK, PumpEof, WantMore, Plain, Finish, Cleanup, Woken,
       PCs, Links, Over
  <2> QED
    BY <2>1, <2>2, <2>3 DEF TypeOK
<1>2. (NothingEarly /\ NothingUnopened /\ PumpRuns)'
  BY <1>0, Sizes DEF IInv, TypeOK, NothingEarly, NothingUnopened, PumpRuns, Early,
     Ended, PumpEof, WantMore, Plain, Finish, Cleanup, Woken, Over
<1>3. (SendCount /\ ReceiveCount)'
  <2>1. SendCount'
    <3>1. UNCHANGED <<unwritten, downAck>> /\ (~Over' => ~Over)
      BY DEF IInv, PumpRuns, PumpEof, Finish, Over
    <3> QED
      BY <1>0, <3>1, SendCounted
  <2>2. ReceiveCount'
    BY <1>0, Sizes DEF IInv, TypeOK, NothingEarly, NothingUnopened, ReceiveCount,
       ReceiveWindow, Linked, Early, PumpEof, WantMore, Plain, Finish, Cleanup, Woken,
       Over, Ended
  <2> QED
    BY <2>1, <2>2
<1>4. (relay # "broken" /\ NoSocketLeft /\ WrittenEarly)'
  BY <1>0, Sizes DEF IInv, TypeOK, NothingEarly, NothingUnopened, SendCount,
     NoSocketLeft, WrittenEarly, Secure, Least, Early, Ended, PumpEof, WantMore, Plain,
     Finish, Cleanup, Woken, Over
<1> QED
  BY <1>1, <1>2, <1>3, <1>4 DEF IInv

\* PumpCut keeps the invariant.
LEMMA PumpCutKeeps == IInv /\ PumpCut => IInv'
<1> SUFFICES ASSUME IInv, PumpCut PROVE IInv'
  OBVIOUS
<1>1. TypeOK'
  <2>1. PageTypes'
    BY Sizes DEF IInv, TypeOK, PumpCut, Fail, Cleanup, Woken, WantMore, PCs, Links, Over
  <2>2. WireTypes'
    BY Sizes DEF IInv, TypeOK, PumpCut, Fail, Cleanup, Woken, WantMore, PCs, Links, Over
  <2>3. RelayTypes'
    BY Sizes DEF IInv, TypeOK, PumpCut, Fail, Cleanup, Woken, WantMore, PCs, Links, Over
  <2> QED
    BY <2>1, <2>2, <2>3 DEF TypeOK
<1>2. (NothingEarly /\ NothingUnopened /\ PumpRuns)'
  BY Sizes DEF IInv, TypeOK, NothingEarly, NothingUnopened, PumpRuns, Early, Ended,
     PumpCut, Fail, Cleanup, Woken, WantMore, Over
<1>3. (SendCount /\ ReceiveCount)'
  <2>1. SendCount'
    BY Sizes DEF IInv, TypeOK, NothingEarly, NothingUnopened, SendCount, ReceiveWindow,
       Linked, Early, PumpCut, Fail, Cleanup, Woken, WantMore, Over, Ended
  <2>2. ReceiveCount'
    BY Sizes DEF IInv, TypeOK, NothingEarly, NothingUnopened, ReceiveCount,
       ReceiveWindow, Linked, Early, PumpCut, Fail, Cleanup, Woken, WantMore, Over,
       Ended
  <2> QED
    BY <2>1, <2>2
<1>4. (relay # "broken" /\ NoSocketLeft /\ WrittenEarly)'
  BY Sizes DEF IInv, TypeOK, NothingEarly, NothingUnopened, SendCount, NoSocketLeft,
     WrittenEarly, Secure, Least, Early, Ended, PumpCut, Fail, Cleanup, Woken,
     WantMore, Over
<1> QED
  BY <1>1, <1>2, <1>3, <1>4 DEF IInv

\* PumpOn keeps the invariant.
LEMMA PumpOnKeeps == IInv /\ PumpOn => IInv'
<1> SUFFICES ASSUME IInv, PumpOn PROVE IInv'
  OBVIOUS
<1>1. TypeOK'
  <2>1. PageTypes'
    BY Sizes DEF IInv, TypeOK, PumpOn, WantMore, Plain, PCs, Links, Over
  <2>2. WireTypes'
    BY Sizes DEF IInv, TypeOK, PumpOn, WantMore, Plain, PCs, Links, Over
  <2>3. RelayTypes'
    BY Sizes DEF IInv, TypeOK, PumpOn, WantMore, Plain, PCs, Links, Over
  <2> QED
    BY <2>1, <2>2, <2>3 DEF TypeOK
<1>2. (NothingEarly /\ NothingUnopened /\ PumpRuns)'
  BY Sizes DEF IInv, TypeOK, NothingEarly, NothingUnopened, PumpRuns, Early, Ended,
     PumpOn, WantMore, Plain, Over
<1>3. (SendCount /\ ReceiveCount)'
  <2>1. SendCount'
    BY Sizes DEF IInv, TypeOK, NothingEarly, NothingUnopened, SendCount, ReceiveWindow,
       Linked, Early, PumpOn, WantMore, Plain, Over, Ended
  <2>2. ReceiveCount'
    BY Sizes DEF IInv, TypeOK, NothingEarly, NothingUnopened, ReceiveCount,
       ReceiveWindow, Linked, Early, PumpOn, WantMore, Plain, Over, Ended
  <2> QED
    BY <2>1, <2>2
<1>4. (relay # "broken" /\ NoSocketLeft /\ WrittenEarly)'
  BY Sizes DEF IInv, TypeOK, NothingEarly, NothingUnopened, SendCount, NoSocketLeft,
     WrittenEarly, Secure, Least, Early, Ended, PumpOn, WantMore, Plain, Over
<1> QED
  BY <1>1, <1>2, <1>3, <1>4 DEF IInv

\* PumpEnds keeps the invariant.
LEMMA PumpEndsKeeps == IInv /\ PumpEnds => IInv'
<1> SUFFICES ASSUME IInv, PumpEnds PROVE IInv'
  OBVIOUS
<1>1. TypeOK'
  <2>1. PageTypes'
    <3>1. pc' \in PCs /\ outcome' \in {"waiting", "body", "done", "failed"}
      BY DEF IInv, TypeOK, PumpEnds, Fail, PCs
    <3>2. writer' \in {"off", "ready", "waits", "done"}
      BY DEF IInv, TypeOK, PumpEnds, Fail, Cleanup, Woken
    <3>3. body' \in 0..HighWater + Scratch - 1
      BY Sizes DEF IInv, TypeOK, PumpEnds, Fail
    <3> QED
      BY <3>1, <3>2, <3>3 DEF IInv, TypeOK, PumpEnds
  <2>2. WireTypes'
    BY Sizes DEF IInv, TypeOK, PumpEnds, Fail, Cleanup, Woken, PCs, Links, Over
  <2>3. RelayTypes'
    BY Sizes DEF IInv, TypeOK, PumpEnds, Fail, Cleanup, Woken, PCs, Links, Over
  <2> QED
    BY <2>1, <2>2, <2>3 DEF TypeOK
<1>2. (NothingEarly /\ NothingUnopened /\ PumpRuns)'
  BY Sizes DEF IInv, TypeOK, NothingEarly, NothingUnopened, PumpRuns, Early, Ended,
     PumpEnds, Fail, Cleanup, Woken, Over
<1>3. (SendCount /\ ReceiveCount)'
  <2>1. SendCount'
    BY Sizes DEF IInv, TypeOK, NothingEarly, NothingUnopened, SendCount, ReceiveWindow,
       Linked, Early, PumpEnds, Fail, Cleanup, Woken, Over, Ended
  <2>2. ReceiveCount'
    BY Sizes DEF IInv, TypeOK, NothingEarly, NothingUnopened, ReceiveCount,
       ReceiveWindow, Linked, Early, PumpEnds, Fail, Cleanup, Woken, Over, Ended
  <2> QED
    BY <2>1, <2>2
<1>4. (relay # "broken" /\ NoSocketLeft /\ WrittenEarly)'
  BY Sizes DEF IInv, TypeOK, NothingEarly, NothingUnopened, SendCount, NoSocketLeft,
     WrittenEarly, Secure, Least, Early, Ended, PumpEnds, Fail, Cleanup, Woken, Over
<1> QED
  BY <1>1, <1>2, <1>3, <1>4 DEF IInv

\* WriteSome keeps the invariant.
LEMMA WriteSomeKeeps == IInv /\ WriteSome => IInv'
<1> SUFFICES ASSUME IInv, WriteSome PROVE IInv'
  OBVIOUS
<1>0. /\ out' \in Nat /\ outQueued' \in Nat /\ unacked' \in Nat /\ upData' \in Nat
      /\ Sent(unacked) /\ unacked' <= Window
      /\ written' \in 0..Request /\ WrittenEarly'
  <2>1. PICK k \in 0..Request - written: 
          /\ written' = written + k /\ Flush(tin, written + k)
          /\ Secure \/ written + k <= TlsCap
    <3>1. Request - written \in Nat /\ Request - written > 0
      BY Sizes DEF WriteSome, IInv, TypeOK
    <3> DEFINE n == Least(Request - written, Scratch)
               took == IF Secure THEN n ELSE Least(n, TlsCap - written)
    <3>2. took \in 0..Request - written /\ (Secure \/ written + took <= TlsCap)
      BY <3>1, Sizes DEF Least, IInv, TypeOK, WrittenEarly
    <3> QED
      BY <3>2 DEF WriteSome
  <2>2. written + k \in 0..Request /\ written + k \in Nat /\ tin \in Nat /\ TypeOK /\ unacked <= Window
    BY <2>1, Sizes DEF IInv, TypeOK, SendCount
  <2>3. WrittenEarly'
    BY <2>1 DEF WriteSome, WrittenEarly, Secure
  <2> QED
    BY <2>1, <2>2, <2>3, Flushes
<1>1. TypeOK'
  <2>1. PageTypes'
    BY <1>0, Sizes DEF IInv, TypeOK, WriteSome, PCs, Links, Over
  <2>2. WireTypes'
    BY <1>0, Sizes DEF IInv, TypeOK, WriteSome, PCs, Links, Over
  <2>3. RelayTypes'
    BY <1>0, Sizes DEF IInv, TypeOK, WriteSome, PCs, Links, Over
  <2> QED
    BY <2>1, <2>2, <2>3 DEF TypeOK
<1>2. (NothingEarly /\ NothingUnopened /\ PumpRuns)'
  BY <1>0, Sizes DEF IInv, TypeOK, NothingEarly, NothingUnopened, PumpRuns, Early,
     Ended, WriteSome, Over
<1>3. (SendCount /\ ReceiveCount)'
  <2>1. SendCount'
    <3>1. UNCHANGED <<unwritten, downAck>> /\ (~Over' => ~Over)
      BY DEF IInv, PumpRuns, WriteSome, Over
    <3> QED
      BY <1>0, <3>1, SendCounted
  <2>2. ReceiveCount'
    BY <1>0, Sizes DEF IInv, TypeOK, NothingEarly, NothingUnopened, ReceiveCount,
       ReceiveWindow, Linked, Early, WriteSome, Over, Ended
  <2> QED
    BY <2>1, <2>2
<1>4. (relay # "broken" /\ NoSocketLeft /\ WrittenEarly)'
  BY <1>0, Sizes DEF IInv, TypeOK, NothingEarly, NothingUnopened, SendCount,
     NoSocketLeft, WrittenEarly, Secure, Least, Early, Ended, WriteSome, Over
<1> QED
  BY <1>1, <1>2, <1>3, <1>4 DEF IInv

\* WriteEnds keeps the invariant.
LEMMA WriteEndsKeeps == IInv /\ WriteEnds => IInv'
<1> SUFFICES ASSUME IInv, WriteEnds PROVE IInv'
  OBVIOUS
<1>1. TypeOK'
  <2>1. PageTypes'
    BY Sizes DEF IInv, TypeOK, WriteEnds, PCs, Links, Over
  <2>2. WireTypes'
    BY Sizes DEF IInv, TypeOK, WriteEnds, PCs, Links, Over
  <2>3. RelayTypes'
    BY Sizes DEF IInv, TypeOK, WriteEnds, PCs, Links, Over
  <2> QED
    BY <2>1, <2>2, <2>3 DEF TypeOK
<1>2. (NothingEarly /\ NothingUnopened /\ PumpRuns)'
  BY Sizes DEF IInv, TypeOK, NothingEarly, NothingUnopened, PumpRuns, Early, Ended,
     WriteEnds, Over
<1>3. (SendCount /\ ReceiveCount)'
  <2>1. SendCount'
    BY Sizes DEF IInv, TypeOK, NothingEarly, NothingUnopened, SendCount, ReceiveWindow,
       Linked, Early, WriteEnds, Over, Ended
  <2>2. ReceiveCount'
    BY Sizes DEF IInv, TypeOK, NothingEarly, NothingUnopened, ReceiveCount,
       ReceiveWindow, Linked, Early, WriteEnds, Over, Ended
  <2> QED
    BY <2>1, <2>2
<1>4. (relay # "broken" /\ NoSocketLeft /\ WrittenEarly)'
  BY Sizes DEF IInv, TypeOK, NothingEarly, NothingUnopened, SendCount, NoSocketLeft,
     WrittenEarly, Secure, Least, Early, Ended, WriteEnds, Over
<1> QED
  BY <1>1, <1>2, <1>3, <1>4 DEF IInv

\* LoadEngine keeps the invariant.
LEMMA LoadEngineKeeps == IInv /\ LoadEngine => IInv'
<1> SUFFICES ASSUME IInv, LoadEngine PROVE IInv'
  OBVIOUS
<1>1. TypeOK'
  <2>1. PageTypes'
    BY Sizes DEF IInv, TypeOK, LoadEngine, PCs, Links, Over
  <2>2. WireTypes'
    BY Sizes DEF IInv, TypeOK, LoadEngine, PCs, Links, Over
  <2>3. RelayTypes'
    BY Sizes DEF IInv, TypeOK, LoadEngine, PCs, Links, Over
  <2> QED
    BY <2>1, <2>2, <2>3 DEF TypeOK
<1>2. (NothingEarly /\ NothingUnopened /\ PumpRuns)'
  BY Sizes DEF IInv, TypeOK, NothingEarly, NothingUnopened, PumpRuns, Early, Ended,
     LoadEngine, Over
<1>3. (SendCount /\ ReceiveCount)'
  <2>1. SendCount'
    BY Sizes DEF IInv, TypeOK, NothingEarly, NothingUnopened, SendCount, ReceiveWindow,
       Linked, Early, LoadEngine, Over, Ended
  <2>2. ReceiveCount'
    BY Sizes DEF IInv, TypeOK, NothingEarly, NothingUnopened, ReceiveCount,
       ReceiveWindow, Linked, Early, LoadEngine, Over, Ended
  <2> QED
    BY <2>1, <2>2
<1>4. (relay # "broken" /\ NoSocketLeft /\ WrittenEarly)'
  BY Sizes DEF IInv, TypeOK, NothingEarly, NothingUnopened, SendCount, NoSocketLeft,
     WrittenEarly, Secure, Least, Early, Ended, LoadEngine, Over
<1> QED
  BY <1>1, <1>2, <1>3, <1>4 DEF IInv

\* PageOpens keeps the invariant.
LEMMA PageOpensKeeps == IInv /\ PageOpens => IInv'
<1> SUFFICES ASSUME IInv, PageOpens PROVE IInv'
  OBVIOUS
<1>0. /\ out' \in Nat /\ outQueued' \in Nat /\ unacked' \in Nat /\ upData' \in Nat
      /\ Sent(unacked) /\ unacked' <= Window
  <2>1. Flush(0, 0) /\ TypeOK /\ unacked <= Window
    BY DEF PageOpens, IInv, SendCount
  <2> QED
    BY <2>1, Flushes
<1>1. TypeOK'
  <2>1. PageTypes'
    BY <1>0, Sizes DEF IInv, TypeOK, PageOpens, Idle, Arrives, PCs, Links, Over
  <2>2. WireTypes'
    BY <1>0, Sizes DEF IInv, TypeOK, PageOpens, Idle, Arrives, PCs, Links, Over
  <2>3. RelayTypes'
    BY <1>0, Sizes DEF IInv, TypeOK, PageOpens, Idle, Arrives, PCs, Links, Over
  <2> QED
    BY <2>1, <2>2, <2>3 DEF TypeOK
<1>2. (NothingEarly /\ NothingUnopened /\ PumpRuns)'
  BY <1>0, Sizes DEF IInv, TypeOK, NothingEarly, NothingUnopened, PumpRuns, Early,
     Ended, PageOpens, Idle, Arrives, Over
<1>3. (SendCount /\ ReceiveCount)'
  <2>1. SendCount'
    <3>1. UNCHANGED <<unwritten, downAck>> /\ (~Over' => ~Over)
      BY DEF IInv, PumpRuns, PageOpens, Over
    <3> QED
      BY <1>0, <3>1, SendCounted
  <2>2. ReceiveCount'
    BY <1>0, Sizes DEF IInv, TypeOK, NothingEarly, NothingUnopened, ReceiveCount,
       ReceiveWindow, Linked, Early, PageOpens, Idle, Arrives, Over, Ended
  <2> QED
    BY <2>1, <2>2
<1>4. (relay # "broken" /\ NoSocketLeft /\ WrittenEarly)'
  BY <1>0, Sizes DEF IInv, TypeOK, NothingEarly, NothingUnopened, SendCount,
     NoSocketLeft, WrittenEarly, Secure, Least, Early, Ended, PageOpens, Idle, Arrives,
     Over
<1> QED
  BY <1>1, <1>2, <1>3, <1>4 DEF IInv

\* PageAck keeps the invariant.
LEMMA PageAckKeeps == IInv /\ PageAck => IInv'
<1> SUFFICES ASSUME IInv, PageAck PROVE IInv'
  OBVIOUS
<1>a. PICK n \in 1..downAck:
        /\ downAck' = downAck - n
        /\ Send(outQueued, IF unacked > n THEN unacked - n ELSE 0)
  BY DEF PageAck
<1> DEFINE u == IF unacked > n THEN unacked - n ELSE 0
<1>b. unacked >= n /\ u = unacked - n /\ u \in Nat /\ u <= Window
  BY <1>a, Sizes DEF IInv, TypeOK, SendCount
<1>0. /\ outQueued' \in Nat /\ unacked' \in Nat /\ upData' \in Nat
      /\ Sent(unacked - n) /\ unacked' <= Window
  <2>1. outQueued \in Int /\ upData \in Nat /\ Send(outQueued, u)
    BY <1>a DEF IInv, TypeOK
  <2> HIDE DEF u
  <2> QED
    BY <1>b, <2>1, Sends
<1>1. TypeOK'
  <2>1. PageTypes'
    BY <1>0, <1>a, <1>b, Sizes DEF IInv, TypeOK, PageAck, Idle, Arrives, Woken, PCs,
       Links, Over
  <2>2. WireTypes'
    BY <1>0, <1>a, <1>b, Sizes DEF IInv, TypeOK, PageAck, Idle, Arrives, Woken, PCs,
       Links, Over
  <2>3. RelayTypes'
    BY <1>0, <1>a, <1>b, Sizes DEF IInv, TypeOK, PageAck, Idle, Arrives, Woken, PCs,
       Links, Over
  <2> QED
    BY <2>1, <2>2, <2>3 DEF TypeOK
<1>2. (NothingEarly /\ NothingUnopened /\ PumpRuns)'
  BY <1>0, <1>a, <1>b, Sizes DEF IInv, TypeOK, NothingEarly, NothingUnopened, PumpRuns,
     Early, Ended, PageAck, Idle, Arrives, Woken, Over
<1>3. (SendCount /\ ReceiveCount)'
  <2>1. SendCount'
    <3>0. PICK k \in Nat: unacked' = unacked - n + k /\ upData' = upData + k
      BY <1>0 DEF Sent
    <3>1. /\ upData \in Nat /\ unwritten \in Nat /\ downAck \in Nat /\ SendCount
          /\ unacked \in Nat /\ n \in Nat
      BY DEF IInv, TypeOK
    <3>a. unwritten' = unwritten /\ downAck' = downAck - n
      BY <1>a DEF PageAck
    <3>2. unacked' >= upData' + unwritten' + downAck'
      BY <1>0, <3>0, <3>1, <3>a DEF SendCount
    <3>3. ~Over' => unacked' = upData' + unwritten' + downAck'
      BY <1>0, <3>0, <3>1, <3>a DEF SendCount, PageAck, Over
    <3> QED
      BY <1>0, <3>2, <3>3 DEF SendCount
  <2>2. ReceiveCount'
    BY <1>0, <1>a, <1>b, Sizes DEF IInv, TypeOK, NothingEarly, NothingUnopened,
       ReceiveCount, ReceiveWindow, Linked, Early, PageAck, Idle, Arrives, Woken, Over,
       Ended
  <2> QED
    BY <2>1, <2>2
<1>4. (relay # "broken" /\ NoSocketLeft /\ WrittenEarly)'
  BY <1>0, <1>a, <1>b, Sizes DEF IInv, TypeOK, NothingEarly, NothingUnopened,
     SendCount, NoSocketLeft, WrittenEarly, Secure, Least, Early, Ended, PageAck, Idle,
     Arrives, Woken, Over
<1> QED
  BY <1>1, <1>2, <1>3, <1>4 DEF IInv

\* PageData keeps the invariant.
LEMMA PageDataKeeps == IInv /\ PageData => IInv'
<1> SUFFICES ASSUME IInv, PageData PROVE IInv'
  OBVIOUS
<1>1. TypeOK'
  <2>1. PageTypes'
    BY Sizes DEF IInv, TypeOK, PageData, Idle, Arrives, Quiet, PCs, Links, Over
  <2>2. WireTypes'
    BY Sizes DEF IInv, TypeOK, PageData, Idle, Arrives, Quiet, PCs, Links, Over
  <2>3. RelayTypes'
    BY Sizes DEF IInv, TypeOK, PageData, Idle, Arrives, Quiet, PCs, Links, Over
  <2> QED
    BY <2>1, <2>2, <2>3 DEF TypeOK
<1>2. (NothingEarly /\ NothingUnopened /\ PumpRuns)'
  BY Sizes DEF IInv, TypeOK, NothingEarly, NothingUnopened, PumpRuns, Early, Ended,
     PageData, Idle, Arrives, Quiet, Over
<1>3. (SendCount /\ ReceiveCount)'
  <2>1. SendCount'
    BY Sizes DEF IInv, TypeOK, NothingEarly, NothingUnopened, SendCount, ReceiveWindow,
       Linked, Early, PageData, Idle, Arrives, Quiet, Over, Ended
  <2>2. ReceiveCount'
    BY Sizes DEF IInv, TypeOK, NothingEarly, NothingUnopened, ReceiveCount,
       ReceiveWindow, Linked, Early, PageData, Idle, Arrives, Quiet, Over, Ended
  <2> QED
    BY <2>1, <2>2
<1>4. (relay # "broken" /\ NoSocketLeft /\ WrittenEarly)'
  BY Sizes DEF IInv, TypeOK, NothingEarly, NothingUnopened, SendCount, NoSocketLeft,
     WrittenEarly, Secure, Least, Early, Ended, PageData, Idle, Arrives, Quiet, Over
<1> QED
  BY <1>1, <1>2, <1>3, <1>4 DEF IInv

\* PageEnd keeps the invariant.
LEMMA PageEndKeeps == IInv /\ PageEnd => IInv'
<1> SUFFICES ASSUME IInv, PageEnd PROVE IInv'
  OBVIOUS
<1>1. TypeOK'
  <2>1. PageTypes'
    BY Sizes DEF IInv, TypeOK, PageEnd, Idle, Arrives, Quiet, PCs, Links, Over
  <2>2. WireTypes'
    BY Sizes DEF IInv, TypeOK, PageEnd, Idle, Arrives, Quiet, PCs, Links, Over
  <2>3. RelayTypes'
    BY Sizes DEF IInv, TypeOK, PageEnd, Idle, Arrives, Quiet, PCs, Links, Over
  <2> QED
    BY <2>1, <2>2, <2>3 DEF TypeOK
<1>2. (NothingEarly /\ NothingUnopened /\ PumpRuns)'
  BY Sizes DEF IInv, TypeOK, NothingEarly, NothingUnopened, PumpRuns, Early, Ended,
     PageEnd, Idle, Arrives, Quiet, Over
<1>3. (SendCount /\ ReceiveCount)'
  <2>1. SendCount'
    BY Sizes DEF IInv, TypeOK, NothingEarly, NothingUnopened, SendCount, ReceiveWindow,
       Linked, Early, PageEnd, Idle, Arrives, Quiet, Over, Ended
  <2>2. ReceiveCount'
    BY Sizes DEF IInv, TypeOK, NothingEarly, NothingUnopened, ReceiveCount,
       ReceiveWindow, Linked, Early, PageEnd, Idle, Arrives, Quiet, Over, Ended
  <2> QED
    BY <2>1, <2>2
<1>4. (relay # "broken" /\ NoSocketLeft /\ WrittenEarly)'
  BY Sizes DEF IInv, TypeOK, NothingEarly, NothingUnopened, SendCount, NoSocketLeft,
     WrittenEarly, Secure, Least, Early, Ended, PageEnd, Idle, Arrives, Quiet, Over
<1> QED
  BY <1>1, <1>2, <1>3, <1>4 DEF IInv

\* PageError keeps the invariant.
LEMMA PageErrorKeeps == IInv /\ PageError => IInv'
<1> SUFFICES ASSUME IInv, PageError PROVE IInv'
  OBVIOUS
<1>1. TypeOK'
  <2>1. PageTypes'
    BY Sizes DEF IInv, TypeOK, PageError, Idle, Arrives, Quiet, Fail, Cleanup, Woken,
       PCs, Links, Over
  <2>2. WireTypes'
    BY Sizes DEF IInv, TypeOK, PageError, Idle, Arrives, Quiet, Fail, Cleanup, Woken,
       PCs, Links, Over
  <2>3. RelayTypes'
    BY Sizes DEF IInv, TypeOK, PageError, Idle, Arrives, Quiet, Fail, Cleanup, Woken,
       PCs, Links, Over
  <2> QED
    BY <2>1, <2>2, <2>3 DEF TypeOK
<1>2. (NothingEarly /\ NothingUnopened /\ PumpRuns)'
  BY Sizes DEF IInv, TypeOK, NothingEarly, NothingUnopened, PumpRuns, Early, Ended,
     PageError, Idle, Arrives, Quiet, Fail, Cleanup, Woken, Over
<1>3. (SendCount /\ ReceiveCount)'
  <2>1. SendCount'
    BY Sizes DEF IInv, TypeOK, NothingEarly, NothingUnopened, SendCount, ReceiveWindow,
       Linked, Early, PageError, Idle, Arrives, Quiet, Fail, Cleanup, Woken, Over, Ended
  <2>2. ReceiveCount'
    BY Sizes DEF IInv, TypeOK, NothingEarly, NothingUnopened, ReceiveCount,
       ReceiveWindow, Linked, Early, PageError, Idle, Arrives, Quiet, Fail, Cleanup,
       Woken, Over, Ended
  <2> QED
    BY <2>1, <2>2
<1>4. (relay # "broken" /\ NoSocketLeft /\ WrittenEarly)'
  BY Sizes DEF IInv, TypeOK, NothingEarly, NothingUnopened, SendCount, NoSocketLeft,
     WrittenEarly, Secure, Least, Early, Ended, PageError, Idle, Arrives, Quiet, Fail,
     Cleanup, Woken, Over
<1> QED
  BY <1>1, <1>2, <1>3, <1>4 DEF IInv

\* PageClosed keeps the invariant.
LEMMA PageClosedKeeps == IInv /\ PageClosed => IInv'
<1> SUFFICES ASSUME IInv, PageClosed PROVE IInv'
  OBVIOUS
<1>1. TypeOK'
  <2>1. PageTypes'
    <3>1. pc' \in PCs /\ outcome' \in {"waiting", "body", "done", "failed"}
      BY DEF IInv, TypeOK, PageClosed, Quiet, PCs
    <3>2. writer' \in {"off", "ready", "waits", "done"}
      BY DEF IInv, TypeOK, PageClosed, Quiet, Woken
    <3>3. body' \in 0..HighWater + Scratch - 1
      BY Sizes DEF IInv, TypeOK, PageClosed, Quiet
    <3> QED
      BY <3>1, <3>2, <3>3 DEF IInv, TypeOK, PageClosed, Quiet
  <2>2. WireTypes'
    BY Sizes DEF IInv, TypeOK, PageClosed, Idle, Drained, Quiet, RelayOpen, Woken, PCs,
       Links, Over
  <2>3. RelayTypes'
    BY Sizes DEF IInv, TypeOK, PageClosed, Idle, Drained, Quiet, RelayOpen, Woken, PCs,
       Links, Over
  <2> QED
    BY <2>1, <2>2, <2>3 DEF TypeOK
<1>2. (NothingEarly /\ NothingUnopened /\ PumpRuns)'
  BY Sizes DEF IInv, TypeOK, NothingEarly, NothingUnopened, PumpRuns, Early, Ended,
     PageClosed, Idle, Drained, Quiet, RelayOpen, Woken, Over
<1>3. (SendCount /\ ReceiveCount)'
  <2>1. SendCount'
    BY Sizes DEF IInv, TypeOK, NothingEarly, NothingUnopened, SendCount, ReceiveWindow,
       Linked, Early, PageClosed, Idle, Drained, Quiet, RelayOpen, Woken, Over, Ended
  <2>2. ReceiveCount'
    BY Sizes DEF IInv, TypeOK, NothingEarly, NothingUnopened, ReceiveCount,
       ReceiveWindow, Linked, Early, PageClosed, Idle, Drained, Quiet, RelayOpen,
       Woken, Over, Ended
  <2> QED
    BY <2>1, <2>2
<1>4. (relay # "broken" /\ NoSocketLeft /\ WrittenEarly)'
  BY Sizes DEF IInv, TypeOK, NothingEarly, NothingUnopened, SendCount, NoSocketLeft,
     WrittenEarly, Secure, Least, Early, Ended, PageClosed, Idle, Drained, Quiet,
     RelayOpen, Woken, Over
<1> QED
  BY <1>1, <1>2, <1>3, <1>4 DEF IInv

\* Read keeps the invariant.
LEMMA ReadKeeps == IInv /\ Read => IInv'
<1> SUFFICES ASSUME IInv, Read PROVE IInv'
  OBVIOUS
<1>1. TypeOK'
  <2>1. PageTypes'
    BY Sizes DEF IInv, TypeOK, Read, Idle, Quiet, PCs, Links, Over
  <2>2. WireTypes'
    BY Sizes DEF IInv, TypeOK, Read, Idle, Quiet, PCs, Links, Over
  <2>3. RelayTypes'
    BY Sizes DEF IInv, TypeOK, Read, Idle, Quiet, PCs, Links, Over
  <2> QED
    BY <2>1, <2>2, <2>3 DEF TypeOK
<1>2. (NothingEarly /\ NothingUnopened /\ PumpRuns)'
  BY Sizes DEF IInv, TypeOK, NothingEarly, NothingUnopened, PumpRuns, Early, Ended,
     Read, Idle, Quiet, Over
<1>3. (SendCount /\ ReceiveCount)'
  <2>1. SendCount'
    BY Sizes DEF IInv, TypeOK, NothingEarly, NothingUnopened, SendCount, ReceiveWindow,
       Linked, Early, Read, Idle, Quiet, Over, Ended
  <2>2. ReceiveCount'
    BY Sizes DEF IInv, TypeOK, NothingEarly, NothingUnopened, ReceiveCount,
       ReceiveWindow, Linked, Early, Read, Idle, Quiet, Over, Ended
  <2> QED
    BY <2>1, <2>2
<1>4. (relay # "broken" /\ NoSocketLeft /\ WrittenEarly)'
  BY Sizes DEF IInv, TypeOK, NothingEarly, NothingUnopened, SendCount, NoSocketLeft,
     WrittenEarly, Secure, Least, Early, Ended, Read, Idle, Quiet, Over
<1> QED
  BY <1>1, <1>2, <1>3, <1>4 DEF IInv

\* Accept keeps the invariant.
LEMMA AcceptKeeps == IInv /\ Accept => IInv'
<1> SUFFICES ASSUME IInv, Accept PROVE IInv'
  OBVIOUS
<1>1. TypeOK'
  <2>1. PageTypes'
    BY Sizes DEF IInv, TypeOK, Accept, PCs, Links, Over
  <2>2. WireTypes'
    BY Sizes DEF IInv, TypeOK, Accept, PCs, Links, Over
  <2>3. RelayTypes'
    BY Sizes DEF IInv, TypeOK, Accept, PCs, Links, Over
  <2> QED
    BY <2>1, <2>2, <2>3 DEF TypeOK
<1>2. (NothingEarly /\ NothingUnopened /\ PumpRuns)'
  BY Sizes DEF IInv, TypeOK, NothingEarly, NothingUnopened, PumpRuns, Early, Ended,
     Accept, Over
<1>3. (SendCount /\ ReceiveCount)'
  <2>1. SendCount'
    BY Sizes DEF IInv, TypeOK, NothingEarly, NothingUnopened, SendCount, ReceiveWindow,
       Linked, Early, Accept, Over, Ended
  <2>2. ReceiveCount'
    BY Sizes DEF IInv, TypeOK, NothingEarly, NothingUnopened, ReceiveCount,
       ReceiveWindow, Linked, Early, Accept, Over, Ended
  <2> QED
    BY <2>1, <2>2
<1>4. (relay # "broken" /\ NoSocketLeft /\ WrittenEarly)'
  BY Sizes DEF IInv, TypeOK, NothingEarly, NothingUnopened, SendCount, NoSocketLeft,
     WrittenEarly, Secure, Least, Early, Ended, Accept, Over
<1> QED
  BY <1>1, <1>2, <1>3, <1>4 DEF IInv

\* LookedUp keeps the invariant.
LEMMA LookedUpKeeps == IInv /\ LookedUp => IInv'
<1> SUFFICES ASSUME IInv, LookedUp PROVE IInv'
  OBVIOUS
<1>1. TypeOK'
  <2>1. PageTypes'
    BY Sizes DEF IInv, TypeOK, LookedUp, PCs, Links, Over
  <2>2. WireTypes'
    BY Sizes DEF IInv, TypeOK, LookedUp, PCs, Links, Over
  <2>3. RelayTypes'
    BY Sizes DEF IInv, TypeOK, LookedUp, PCs, Links, Over
  <2> QED
    BY <2>1, <2>2, <2>3 DEF TypeOK
<1>2. (NothingEarly /\ NothingUnopened /\ PumpRuns)'
  BY Sizes DEF IInv, TypeOK, NothingEarly, NothingUnopened, PumpRuns, Early, Ended,
     LookedUp, Over
<1>3. (SendCount /\ ReceiveCount)'
  <2>1. SendCount'
    BY Sizes DEF IInv, TypeOK, NothingEarly, NothingUnopened, SendCount, ReceiveWindow,
       Linked, Early, LookedUp, Over, Ended
  <2>2. ReceiveCount'
    BY Sizes DEF IInv, TypeOK, NothingEarly, NothingUnopened, ReceiveCount,
       ReceiveWindow, Linked, Early, LookedUp, Over, Ended
  <2> QED
    BY <2>1, <2>2
<1>4. (relay # "broken" /\ NoSocketLeft /\ WrittenEarly)'
  BY Sizes DEF IInv, TypeOK, NothingEarly, NothingUnopened, SendCount, NoSocketLeft,
     WrittenEarly, Secure, Least, Early, Ended, LookedUp, Over
<1> QED
  BY <1>1, <1>2, <1>3, <1>4 DEF IInv

\* Connected keeps the invariant.
LEMMA ConnectedKeeps == IInv /\ Connected => IInv'
<1> SUFFICES ASSUME IInv, Connected PROVE IInv'
  OBVIOUS
<1>1. TypeOK'
  <2>1. PageTypes'
    BY Sizes DEF IInv, TypeOK, Connected, PCs, Links, Over
  <2>2. WireTypes'
    BY Sizes DEF IInv, TypeOK, Connected, PCs, Links, Over
  <2>3. RelayTypes'
    BY Sizes DEF IInv, TypeOK, Connected, PCs, Links, Over
  <2> QED
    BY <2>1, <2>2, <2>3 DEF TypeOK
<1>2. (NothingEarly /\ NothingUnopened /\ PumpRuns)'
  BY Sizes DEF IInv, TypeOK, NothingEarly, NothingUnopened, PumpRuns, Early, Ended,
     Connected, Over
<1>3. (SendCount /\ ReceiveCount)'
  <2>1. SendCount'
    BY Sizes DEF IInv, TypeOK, NothingEarly, NothingUnopened, SendCount, ReceiveWindow,
       Linked, Early, Connected, Over, Ended
  <2>2. ReceiveCount'
    BY Sizes DEF IInv, TypeOK, NothingEarly, NothingUnopened, ReceiveCount,
       ReceiveWindow, Linked, Early, Connected, Over, Ended
  <2> QED
    BY <2>1, <2>2
<1>4. (relay # "broken" /\ NoSocketLeft /\ WrittenEarly)'
  BY Sizes DEF IInv, TypeOK, NothingEarly, NothingUnopened, SendCount, NoSocketLeft,
     WrittenEarly, Secure, Least, Early, Ended, Connected, Over
<1> QED
  BY <1>1, <1>2, <1>3, <1>4 DEF IInv

\* RelayReads keeps the invariant.
LEMMA RelayReadsKeeps == IInv /\ RelayReads => IInv'
<1> SUFFICES ASSUME IInv, RelayReads PROVE IInv'
  OBVIOUS
<1>0. PICK n \in 1..Chunk:
        /\ sent + n <= Answered /\ sent' = sent + n /\ unread' = unread + n
        /\ downData' = IF Over THEN downData ELSE downData + n
        /\ paused' = (unread + n >= Window)
  BY DEF RelayReads
<1>a. Answered \in 0..Total /\ ~paused
  BY Sizes DEF Answered, Total, RelayReads
<1>1. TypeOK'
  <2>1. PageTypes'
    BY <1>0, <1>a, Sizes DEF IInv, TypeOK, RelayReads, PCs, Links, Over
  <2>2. WireTypes'
    BY <1>0, <1>a, Sizes DEF IInv, TypeOK, RelayReads, PCs, Links, Over
  <2>3. RelayTypes'
    <3>1. sent' \in 0..Total /\ unread' \in Nat
      BY <1>0, <1>a, Sizes DEF IInv, TypeOK, Total
    <3> QED
      BY <1>0, <3>1 DEF IInv, TypeOK, RelayReads
  <2> QED
    BY <2>1, <2>2, <2>3 DEF TypeOK
<1>2. (NothingEarly /\ NothingUnopened /\ PumpRuns)'
  BY <1>0, <1>a, Sizes DEF IInv, TypeOK, NothingEarly, NothingUnopened, PumpRuns,
     Early, Ended, RelayReads, Over
<1>3. (SendCount /\ ReceiveCount)'
  <2>1. SendCount'
    BY <1>0, <1>a, Sizes DEF IInv, TypeOK, NothingEarly, NothingUnopened, SendCount,
       ReceiveWindow, Linked, Early, RelayReads, Over, Ended
  <2>2. ReceiveCount'
    <3>1. /\ n \in Nat /\ n <= Chunk /\ unread \in Nat /\ downData \in Nat
          /\ inQueue \in Nat /\ taken \in Nat /\ upAck \in Nat
          /\ UNCHANGED <<inQueue, taken, upAck, outcome, link>>
      BY <1>0, Sizes DEF IInv, TypeOK, RelayReads
    <3>2. unread < Window
      BY <1>a, <3>1, Sizes DEF IInv, ReceiveCount
    <3>3. unread' < Window + Chunk
      BY <1>0, <3>1, <3>2, Sizes
    <3>4. paused' <=> unread' >= Window
      BY <1>0, <3>1, Sizes
    <3>5. ReceiveWindow'
      BY <1>0, <3>1 DEF IInv, ReceiveCount, ReceiveWindow, Linked, Over
    <3> QED
      BY <3>3, <3>4, <3>5 DEF ReceiveCount
  <2> QED
    BY <2>1, <2>2
<1>4. (relay # "broken" /\ NoSocketLeft /\ WrittenEarly)'
  BY <1>0, <1>a, Sizes DEF IInv, TypeOK, NothingEarly, NothingUnopened, SendCount,
     NoSocketLeft, WrittenEarly, Secure, Least, Early, Ended, RelayReads, Over
<1> QED
  BY <1>1, <1>2, <1>3, <1>4 DEF IInv

\* RelayTakes keeps the invariant.
LEMMA RelayTakesKeeps == IInv /\ RelayTakes => IInv'
<1> SUFFICES ASSUME IInv, RelayTakes PROVE IInv'
  OBVIOUS
<1>0. PICK n \in 1..upData:
        /\ upData' = upData - n /\ unwritten' = unwritten + n
        /\ IF relay # "open" \/ unwritten + n > 4 * Window
           THEN Finished("broken")
           ELSE UNCHANGED <<relay, socket, downErr, link, fault>>
  BY DEF RelayTakes
<1>a. upData' \in Nat /\ unwritten' \in Nat
  BY <1>0 DEF IInv, TypeOK
<1>b. relay = "open" /\ unwritten + n <= 4 * Window
  <2>1. unwritten + n <= Window
    BY <1>0, Sizes DEF IInv, TypeOK, SendCount
  <2>2. relay = "open"
    BY <1>0 DEF IInv, TypeOK, NothingEarly, NothingUnopened, Early, RelayTakes, Ended
  <2> QED
    BY <2>1, <2>2, <1>0, Sizes DEF IInv, TypeOK
<1>c. UNCHANGED <<relay, socket, downErr, link, fault>>
  BY <1>0, <1>a, <1>b, Sizes DEF IInv, TypeOK
<1>1. TypeOK'
  <2>1. PageTypes'
    BY <1>0, <1>a, <1>c, Sizes DEF IInv, TypeOK, RelayTakes, ArrivesUp, PCs, Links, Over
  <2>2. WireTypes'
    BY <1>0, <1>a, <1>c, Sizes DEF IInv, TypeOK, RelayTakes, ArrivesUp, PCs, Links, Over
  <2>3. RelayTypes'
    BY <1>0, <1>a, <1>c, Sizes DEF IInv, TypeOK, RelayTakes, ArrivesUp, PCs, Links, Over
  <2> QED
    BY <2>1, <2>2, <2>3 DEF TypeOK
<1>2. (NothingEarly /\ NothingUnopened /\ PumpRuns)'
  BY <1>0, <1>a, <1>c, Sizes DEF IInv, TypeOK, NothingEarly, NothingUnopened, PumpRuns,
     Early, Ended, RelayTakes, ArrivesUp, Over
<1>3. (SendCount /\ ReceiveCount)'
  <2>1. SendCount'
    BY <1>0, <1>a, <1>c, Sizes DEF IInv, TypeOK, NothingEarly, NothingUnopened,
       SendCount, ReceiveWindow, Linked, Early, RelayTakes, ArrivesUp, Over, Ended
  <2>2. ReceiveCount'
    BY <1>0, <1>a, <1>c, Sizes DEF IInv, TypeOK, NothingEarly, NothingUnopened,
       ReceiveCount, ReceiveWindow, Linked, Early, RelayTakes, ArrivesUp, Over, Ended
  <2> QED
    BY <2>1, <2>2
<1>4. (relay # "broken" /\ NoSocketLeft /\ WrittenEarly)'
  BY <1>0, <1>a, <1>c, Sizes DEF IInv, TypeOK, NothingEarly, NothingUnopened,
     SendCount, NoSocketLeft, WrittenEarly, Secure, Least, Early, Ended, RelayTakes,
     ArrivesUp, Over
<1> QED
  BY <1>1, <1>2, <1>3, <1>4 DEF IInv

\* SocketWrote keeps the invariant.
LEMMA SocketWroteKeeps == IInv /\ SocketWrote => IInv'
<1> SUFFICES ASSUME IInv, SocketWrote PROVE IInv'
  OBVIOUS
<1>1. TypeOK'
  <2>1. PageTypes'
    BY Sizes DEF IInv, TypeOK, SocketWrote, PCs, Links, Over
  <2>2. WireTypes'
    BY Sizes DEF IInv, TypeOK, SocketWrote, PCs, Links, Over
  <2>3. RelayTypes'
    BY Sizes DEF IInv, TypeOK, SocketWrote, PCs, Links, Over
  <2> QED
    BY <2>1, <2>2, <2>3 DEF TypeOK
<1>2. (NothingEarly /\ NothingUnopened /\ PumpRuns)'
  BY Sizes DEF IInv, TypeOK, NothingEarly, NothingUnopened, PumpRuns, Early, Ended,
     SocketWrote, Over
<1>3. (SendCount /\ ReceiveCount)'
  <2>1. SendCount'
    BY Sizes DEF IInv, TypeOK, NothingEarly, NothingUnopened, SendCount, ReceiveWindow,
       Linked, Early, SocketWrote, Over, Ended
  <2>2. ReceiveCount'
    BY Sizes DEF IInv, TypeOK, NothingEarly, NothingUnopened, ReceiveCount,
       ReceiveWindow, Linked, Early, SocketWrote, Over, Ended
  <2> QED
    BY <2>1, <2>2
<1>4. (relay # "broken" /\ NoSocketLeft /\ WrittenEarly)'
  BY Sizes DEF IInv, TypeOK, NothingEarly, NothingUnopened, SendCount, NoSocketLeft,
     WrittenEarly, Secure, Least, Early, Ended, SocketWrote, Over
<1> QED
  BY <1>1, <1>2, <1>3, <1>4 DEF IInv

\* RelayAcked keeps the invariant.
LEMMA RelayAckedKeeps == IInv /\ RelayAcked => IInv'
<1> SUFFICES ASSUME IInv, RelayAcked PROVE IInv'
  OBVIOUS
<1>1. TypeOK'
  <2>1. PageTypes'
    BY Sizes DEF IInv, TypeOK, RelayAcked, ArrivesUp, PCs, Links, Over
  <2>2. WireTypes'
    BY Sizes DEF IInv, TypeOK, RelayAcked, ArrivesUp, PCs, Links, Over
  <2>3. RelayTypes'
    BY Sizes DEF IInv, TypeOK, RelayAcked, ArrivesUp, PCs, Links, Over
  <2> QED
    BY <2>1, <2>2, <2>3 DEF TypeOK
<1>2. (NothingEarly /\ NothingUnopened /\ PumpRuns)'
  BY Sizes DEF IInv, TypeOK, NothingEarly, NothingUnopened, PumpRuns, Early, Ended,
     RelayAcked, ArrivesUp, Over
<1>3. (SendCount /\ ReceiveCount)'
  <2>1. SendCount'
    BY Sizes DEF IInv, TypeOK, NothingEarly, NothingUnopened, SendCount, ReceiveWindow,
       Linked, Early, RelayAcked, ArrivesUp, Over, Ended
  <2>2. ReceiveCount'
    BY Sizes DEF IInv, TypeOK, NothingEarly, NothingUnopened, ReceiveCount,
       ReceiveWindow, Linked, Early, RelayAcked, ArrivesUp, Over, Ended
  <2> QED
    BY <2>1, <2>2
<1>4. (relay # "broken" /\ NoSocketLeft /\ WrittenEarly)'
  BY Sizes DEF IInv, TypeOK, NothingEarly, NothingUnopened, SendCount, NoSocketLeft,
     WrittenEarly, Secure, Least, Early, Ended, RelayAcked, ArrivesUp, Over
<1> QED
  BY <1>1, <1>2, <1>3, <1>4 DEF IInv

\* RelayClosed keeps the invariant.
LEMMA RelayClosedKeeps == IInv /\ RelayClosed => IInv'
<1> SUFFICES ASSUME IInv, RelayClosed PROVE IInv'
  OBVIOUS
<1>1. TypeOK'
  <2>1. PageTypes'
    BY Sizes DEF IInv, TypeOK, RelayClosed, PCs, Links, Over
  <2>2. WireTypes'
    BY Sizes DEF IInv, TypeOK, RelayClosed, PCs, Links, Over
  <2>3. RelayTypes'
    BY Sizes DEF IInv, TypeOK, RelayClosed, PCs, Links, Over
  <2> QED
    BY <2>1, <2>2, <2>3 DEF TypeOK
<1>2. (NothingEarly /\ NothingUnopened /\ PumpRuns)'
  BY Sizes DEF IInv, TypeOK, NothingEarly, NothingUnopened, PumpRuns, Early, Ended,
     RelayClosed, Over
<1>3. (SendCount /\ ReceiveCount)'
  <2>1. SendCount'
    BY Sizes DEF IInv, TypeOK, NothingEarly, NothingUnopened, SendCount, ReceiveWindow,
       Linked, Early, RelayClosed, Over, Ended
  <2>2. ReceiveCount'
    BY Sizes DEF IInv, TypeOK, NothingEarly, NothingUnopened, ReceiveCount,
       ReceiveWindow, Linked, Early, RelayClosed, Over, Ended
  <2> QED
    BY <2>1, <2>2
<1>4. (relay # "broken" /\ NoSocketLeft /\ WrittenEarly)'
  BY Sizes DEF IInv, TypeOK, NothingEarly, NothingUnopened, SendCount, NoSocketLeft,
     WrittenEarly, Secure, Least, Early, Ended, RelayClosed, Over
<1> QED
  BY <1>1, <1>2, <1>3, <1>4 DEF IInv

\* ServerEnds keeps the invariant.
LEMMA ServerEndsKeeps == IInv /\ ServerEnds => IInv'
<1> SUFFICES ASSUME IInv, ServerEnds PROVE IInv'
  OBVIOUS
<1>1. TypeOK'
  <2>1. PageTypes'
    BY Sizes DEF IInv, TypeOK, ServerEnds, PCs, Links, Over
  <2>2. WireTypes'
    BY Sizes DEF IInv, TypeOK, ServerEnds, PCs, Links, Over
  <2>3. RelayTypes'
    BY Sizes DEF IInv, TypeOK, ServerEnds, PCs, Links, Over
  <2> QED
    BY <2>1, <2>2, <2>3 DEF TypeOK
<1>2. (NothingEarly /\ NothingUnopened /\ PumpRuns)'
  BY Sizes DEF IInv, TypeOK, NothingEarly, NothingUnopened, PumpRuns, Early, Ended,
     ServerEnds, Over
<1>3. (SendCount /\ ReceiveCount)'
  <2>1. SendCount'
    BY Sizes DEF IInv, TypeOK, NothingEarly, NothingUnopened, SendCount, ReceiveWindow,
       Linked, Early, ServerEnds, Over, Ended
  <2>2. ReceiveCount'
    BY Sizes DEF IInv, TypeOK, NothingEarly, NothingUnopened, ReceiveCount,
       ReceiveWindow, Linked, Early, ServerEnds, Over, Ended
  <2> QED
    BY <2>1, <2>2
<1>4. (relay # "broken" /\ NoSocketLeft /\ WrittenEarly)'
  BY Sizes DEF IInv, TypeOK, NothingEarly, NothingUnopened, SendCount, NoSocketLeft,
     WrittenEarly, Secure, Least, Early, Ended, ServerEnds, Over
<1> QED
  BY <1>1, <1>2, <1>3, <1>4 DEF IInv

\* RelayFails keeps the invariant.
LEMMA RelayFailsKeeps == IInv /\ RelayFails => IInv'
<1> SUFFICES ASSUME IInv, RelayFails PROVE IInv'
  OBVIOUS
<1>1. TypeOK'
  <2>1. PageTypes'
    BY Sizes DEF IInv, TypeOK, RelayFails, Finished, PCs, Links, Over
  <2>2. WireTypes'
    BY Sizes DEF IInv, TypeOK, RelayFails, Finished, PCs, Links, Over
  <2>3. RelayTypes'
    BY Sizes DEF IInv, TypeOK, RelayFails, Finished, PCs, Links, Over
  <2> QED
    BY <2>1, <2>2, <2>3 DEF TypeOK
<1>2. (NothingEarly /\ NothingUnopened /\ PumpRuns)'
  BY Sizes DEF IInv, TypeOK, NothingEarly, NothingUnopened, PumpRuns, Early, Ended,
     RelayFails, Finished, Over
<1>3. (SendCount /\ ReceiveCount)'
  <2>1. SendCount'
    BY Sizes DEF IInv, TypeOK, NothingEarly, NothingUnopened, SendCount, ReceiveWindow,
       Linked, Early, RelayFails, Finished, Over, Ended
  <2>2. ReceiveCount'
    BY Sizes DEF IInv, TypeOK, NothingEarly, NothingUnopened, ReceiveCount,
       ReceiveWindow, Linked, Early, RelayFails, Finished, Over, Ended
  <2> QED
    BY <2>1, <2>2
<1>4. (relay # "broken" /\ NoSocketLeft /\ WrittenEarly)'
  BY Sizes DEF IInv, TypeOK, NothingEarly, NothingUnopened, SendCount, NoSocketLeft,
     WrittenEarly, Secure, Least, Early, Ended, RelayFails, Finished, Over
<1> QED
  BY <1>1, <1>2, <1>3, <1>4 DEF IInv

\* Abort keeps the invariant.
LEMMA AbortKeeps == IInv /\ Abort => IInv'
<1> SUFFICES ASSUME IInv, Abort PROVE IInv'
  OBVIOUS
<1>1. TypeOK'
  <2>1. PageTypes'
    BY Sizes DEF IInv, TypeOK, Abort, Idle, Fail, Cleanup, Woken, Quiet, PCs, Links,
       Over
  <2>2. WireTypes'
    BY Sizes DEF IInv, TypeOK, Abort, Idle, Fail, Cleanup, Woken, Quiet, PCs, Links,
       Over
  <2>3. RelayTypes'
    BY Sizes DEF IInv, TypeOK, Abort, Idle, Fail, Cleanup, Woken, Quiet, PCs, Links,
       Over
  <2> QED
    BY <2>1, <2>2, <2>3 DEF TypeOK
<1>2. (NothingEarly /\ NothingUnopened /\ PumpRuns)'
  BY Sizes DEF IInv, TypeOK, NothingEarly, NothingUnopened, PumpRuns, Early, Ended,
     Abort, Idle, Fail, Cleanup, Woken, Quiet, Over
<1>3. (SendCount /\ ReceiveCount)'
  <2>1. SendCount'
    BY Sizes DEF IInv, TypeOK, NothingEarly, NothingUnopened, SendCount, ReceiveWindow,
       Linked, Early, Abort, Idle, Fail, Cleanup, Woken, Quiet, Over, Ended
  <2>2. ReceiveCount'
    BY Sizes DEF IInv, TypeOK, NothingEarly, NothingUnopened, ReceiveCount,
       ReceiveWindow, Linked, Early, Abort, Idle, Fail, Cleanup, Woken, Quiet, Over,
       Ended
  <2> QED
    BY <2>1, <2>2
<1>4. (relay # "broken" /\ NoSocketLeft /\ WrittenEarly)'
  BY Sizes DEF IInv, TypeOK, NothingEarly, NothingUnopened, SendCount, NoSocketLeft,
     WrittenEarly, Secure, Least, Early, Ended, Abort, Idle, Fail, Cleanup, Woken,
     Quiet, Over
<1> QED
  BY <1>1, <1>2, <1>3, <1>4 DEF IInv

\* TlsFails keeps the invariant.
LEMMA TlsFailsKeeps == IInv /\ TlsFails => IInv'
<1> SUFFICES ASSUME IInv, TlsFails PROVE IInv'
  OBVIOUS
<1>0. /\ out' \in Nat /\ outQueued' \in Nat /\ unacked' \in Nat /\ upData' \in Nat
      /\ Sent(unacked) /\ unacked' <= Window
  <2>1. out' = out + 1 /\ Send(outQueued + 1, unacked)
    BY DEF TlsFails
  <2>2. out \in Nat /\ outQueued + 1 \in Int /\ unacked \in Nat /\ upData \in Nat /\ unacked <= Window
    BY DEF IInv, TypeOK, SendCount
  <2> QED
    BY <2>1, <2>2, Sends
<1>1. TypeOK'
  <2>1. PageTypes'
    BY <1>0, Sizes DEF IInv, TypeOK, TlsFails, Fail, Cleanup, Woken, PCs, Links, Over
  <2>2. WireTypes'
    BY <1>0, Sizes DEF IInv, TypeOK, TlsFails, Fail, Cleanup, Woken, PCs, Links, Over
  <2>3. RelayTypes'
    BY <1>0, Sizes DEF IInv, TypeOK, TlsFails, Fail, Cleanup, Woken, PCs, Links, Over
  <2> QED
    BY <2>1, <2>2, <2>3 DEF TypeOK
<1>2. (NothingEarly /\ NothingUnopened /\ PumpRuns)'
  BY <1>0, Sizes DEF IInv, TypeOK, NothingEarly, NothingUnopened, PumpRuns, Early,
     Ended, TlsFails, Fail, Cleanup, Woken, Over
<1>3. (SendCount /\ ReceiveCount)'
  <2>1. SendCount'
    <3>1. UNCHANGED <<unwritten, downAck>> /\ (~Over' => ~Over)
      BY DEF IInv, PumpRuns, TlsFails, Fail, Over
    <3> QED
      BY <1>0, <3>1, SendCounted
  <2>2. ReceiveCount'
    BY <1>0, Sizes DEF IInv, TypeOK, NothingEarly, NothingUnopened, ReceiveCount,
       ReceiveWindow, Linked, Early, TlsFails, Fail, Cleanup, Woken, Over, Ended
  <2> QED
    BY <2>1, <2>2
<1>4. (relay # "broken" /\ NoSocketLeft /\ WrittenEarly)'
  BY <1>0, Sizes DEF IInv, TypeOK, NothingEarly, NothingUnopened, SendCount,
     NoSocketLeft, WrittenEarly, Secure, Least, Early, Ended, TlsFails, Fail, Cleanup,
     Woken, Over
<1> QED
  BY <1>1, <1>2, <1>3, <1>4 DEF IInv

\* DialFails keeps the invariant.
LEMMA DialFailsKeeps == IInv /\ DialFails => IInv'
<1> SUFFICES ASSUME IInv, DialFails PROVE IInv'
  OBVIOUS
<1>1. TypeOK'
  <2>1. PageTypes'
    BY Sizes DEF IInv, TypeOK, DialFails, PCs, Links, Over
  <2>2. WireTypes'
    BY Sizes DEF IInv, TypeOK, DialFails, PCs, Links, Over
  <2>3. RelayTypes'
    BY Sizes DEF IInv, TypeOK, DialFails, PCs, Links, Over
  <2> QED
    BY <2>1, <2>2, <2>3 DEF TypeOK
<1>2. (NothingEarly /\ NothingUnopened /\ PumpRuns)'
  BY Sizes DEF IInv, TypeOK, NothingEarly, NothingUnopened, PumpRuns, Early, Ended,
     DialFails, Over
<1>3. (SendCount /\ ReceiveCount)'
  <2>1. SendCount'
    BY Sizes DEF IInv, TypeOK, NothingEarly, NothingUnopened, SendCount, ReceiveWindow,
       Linked, Early, DialFails, Over, Ended
  <2>2. ReceiveCount'
    BY Sizes DEF IInv, TypeOK, NothingEarly, NothingUnopened, ReceiveCount,
       ReceiveWindow, Linked, Early, DialFails, Over, Ended
  <2> QED
    BY <2>1, <2>2
<1>4. (relay # "broken" /\ NoSocketLeft /\ WrittenEarly)'
  BY Sizes DEF IInv, TypeOK, NothingEarly, NothingUnopened, SendCount, NoSocketLeft,
     WrittenEarly, Secure, Least, Early, Ended, DialFails, Over
<1> QED
  BY <1>1, <1>2, <1>3, <1>4 DEF IInv

\* Lose keeps the invariant.
LEMMA LoseKeeps == IInv /\ Lose => IInv'
<1> SUFFICES ASSUME IInv, Lose PROVE IInv'
  OBVIOUS
<1>1. TypeOK'
  <2>1. PageTypes'
    BY Sizes DEF IInv, TypeOK, Lose, PCs, Links, Over
  <2>2. WireTypes'
    BY Sizes DEF IInv, TypeOK, Lose, PCs, Links, Over
  <2>3. RelayTypes'
    BY Sizes DEF IInv, TypeOK, Lose, PCs, Links, Over
  <2> QED
    BY <2>1, <2>2, <2>3 DEF TypeOK
<1>2. (NothingEarly /\ NothingUnopened /\ PumpRuns)'
  BY Sizes DEF IInv, TypeOK, NothingEarly, NothingUnopened, PumpRuns, Early, Ended,
     Lose, Over
<1>3. (SendCount /\ ReceiveCount)'
  <2>1. SendCount'
    BY Sizes DEF IInv, TypeOK, NothingEarly, NothingUnopened, SendCount, ReceiveWindow,
       Linked, Early, Lose, Over, Ended
  <2>2. ReceiveCount'
    BY Sizes DEF IInv, TypeOK, NothingEarly, NothingUnopened, ReceiveCount,
       ReceiveWindow, Linked, Early, Lose, Over, Ended
  <2> QED
    BY <2>1, <2>2
<1>4. (relay # "broken" /\ NoSocketLeft /\ WrittenEarly)'
  BY Sizes DEF IInv, TypeOK, NothingEarly, NothingUnopened, SendCount, NoSocketLeft,
     WrittenEarly, Secure, Least, Early, Ended, Lose, Over
<1> QED
  BY <1>1, <1>2, <1>3, <1>4 DEF IInv

-----------------------------------------------------------------------------

\* Nothing happens: nothing changes.
LEMMA StutterKeeps == IInv /\ UNCHANGED vars => IInv'
<1> SUFFICES ASSUME IInv, UNCHANGED vars PROVE IInv'
  OBVIOUS
<1>1. TypeOK'
  BY DEF vars, IInv, TypeOK
<1>2. (NothingEarly /\ NothingUnopened /\ PumpRuns)'
  BY DEF vars, IInv, NothingEarly, NothingUnopened, PumpRuns, Early, Ended, Over
<1>3. (SendCount /\ ReceiveCount)'
  BY DEF vars, IInv, SendCount, ReceiveCount, ReceiveWindow, Linked, Over
<1>4. (relay # "broken" /\ NoSocketLeft /\ WrittenEarly)'
  BY DEF vars, IInv, NoSocketLeft, WrittenEarly, Secure, Ended
<1> QED
  BY <1>1, <1>2, <1>3, <1>4 DEF IInv

\* Every step keeps the invariant.
LEMMA NextKeeps == IInv /\ [Next]_vars => IInv'
<1> SUFFICES ASSUME IInv, [Next]_vars PROVE IInv'
  OBVIOUS
<1>1. CASE Pump
  BY <1>1, PumpFillKeeps, PumpReadKeeps, PumpEofKeeps, PumpCutKeeps, PumpOnKeeps,
     PumpEndsKeeps
     DEF Pump
<1>2. CASE Page /\ ~Pump
  BY <1>2, WriteSomeKeeps, WriteEndsKeeps, LoadEngineKeeps, PageOpensKeeps,
     PageAckKeeps, PageDataKeeps, PageEndKeeps, PageErrorKeeps, PageClosedKeeps
     DEF Page
<1>3. CASE Relay
  BY <1>3, AcceptKeeps, LookedUpKeeps, ConnectedKeeps, RelayReadsKeeps, RelayTakesKeeps,
     SocketWroteKeeps, RelayAckedKeeps, RelayClosedKeeps
     DEF Relay
<1>4. CASE Faults
  BY <1>4, AbortKeeps, TlsFailsKeeps, DialFailsKeeps, LoseKeeps
     DEF Faults
<1>5. CASE Read \/ ServerEnds \/ RelayFails
  BY <1>5, ReadKeeps, ServerEndsKeeps, RelayFailsKeeps
<1>6. CASE UNCHANGED vars
  BY <1>6, StutterKeeps
<1> QED
  BY <1>1, <1>2, <1>3, <1>4, <1>5, <1>6 DEF Next, Page

\* The invariant holds in every state the tunnel reaches.
LEMMA Invariant == Spec => []IInv
<1>1. Init => IInv
  BY InitInv
<1>2. IInv /\ [Next]_vars => IInv'
  BY NextKeeps
<1> QED
  BY <1>1, <1>2, PTL DEF Spec

\* Every state has its type, and the body kept for the reader is never more
\* than a piece above what it asked for (tunnel.ts, pump and wantMore).
THEOREM TypeCorrect == Spec => []TypeOK
<1>1. IInv => TypeOK
  BY DEF IInv
<1> QED
  BY <1>1, Invariant, PTL

\* Flow control: neither end holds more than a window of the other's bytes, the
\* relay never takes the page for broken, and its socket is paused exactly while
\* a window is unread (tunnel.ts, send and onControl; tcp-relay.ts).
THEOREM Windows == Spec => []WindowsKept
<1>1. IInv => WindowsKept
  BY DEF IInv, SendCount, ReceiveCount, WindowsKept, SendWindow, PausedWhenFull, Linked
<1> QED
  BY <1>1, Invariant, PTL

\* A tunnel that is over has no socket, also when it ended while its name was
\* being resolved (tcp-relay.ts, finish and start).
THEOREM NoSocket == Spec => []NoSocketLeft
<1>1. IInv => NoSocketLeft
  BY DEF IInv
<1> QED
  BY <1>1, Invariant, PTL

-----------------------------------------------------------------------------

\* pump reads on, to the end at most.
LEMMA ReadRefines == IInv /\ PumpRead => AR!Next
<1> SUFFICES ASSUME IInv, PumpRead PROVE AR!Next
  OBVIOUS
<1>1. PICK r \in 1..Plain:
        /\ got' = got + r
        /\ IF framing = "length" /\ got + r = Response
           THEN outcome' = "done"
           ELSE outcome' = "body"
  BY DEF PumpRead, Finish
<1>2. AR!Running
  BY DEF IInv, TypeOK, PumpRuns, PumpRead, Over, AR!Running
<1>3. got' \in got + 1..Response
  <2>1. tin \in Nat /\ got \in Nat
    BY DEF IInv, TypeOK
  <2>2. PlainOf(tin) \in 0..Response
    BY <2>1, Plaintext
  <2>3. r \in 1..PlainOf(tin) - got
    BY <1>1 DEF Plain
  <2> QED
    BY <1>1, <2>1, <2>2, <2>3, Sizes
<1>4. CASE framing = "length" /\ got + r = Response
  BY <1>1, <1>2, <1>4 DEF AR!Next, AR!Complete
<1>5. CASE ~(framing = "length" /\ got + r = Response)
  BY <1>1, <1>2, <1>3, <1>5 DEF AR!Next, AR!Receive
<1> QED
  BY <1>4, <1>5

\* close_notify stands behind the whole response.
LEMMA EofRefines == IInv /\ PumpEof => AR!Next
<1> SUFFICES ASSUME IInv, PumpEof PROVE AR!Next
  OBVIOUS
<1>1. AR!Running /\ outcome' = "done" /\ got' = got
  BY DEF IInv, TypeOK, PumpRuns, PumpEof, Finish, Over, AR!Running
<1>2. got = Response
  <2>1. PlainOf(tin) - got = 0 /\ tin = Response + 2 /\ got \in Nat
    BY DEF PumpEof, Plain, Notified, Total, IInv, TypeOK
  <2>2. PlainOf(tin) = Response
    BY <2>1, Sizes DEF PlainOf, Least
  <2> QED
    BY <2>1, <2>2, Sizes
<1> QED
  BY <1>1, <1>2 DEF AR!Next, AR!Complete

\* What fails, fails a request that runs; the rest does not concern it.
LEMMA OthersRefine ==
  ASSUME IInv, [Next]_vars, ~PumpRead, ~PumpEof
  PROVE  [AR!Next]_<<got, outcome>>
<1>1. CASE PumpCut \/ PumpEnds \/ TlsFails \/ Abort \/ PageError \/ PageClosed
  <2>1. CASE outcome' = "failed" /\ UNCHANGED got /\ ~Over
    BY <2>1 DEF IInv, TypeOK, Over, AR!Next, AR!Fail, AR!Running
  <2>2. \/ outcome' = "failed" /\ UNCHANGED got /\ ~Over
        \/ UNCHANGED <<got, outcome>>
    BY <1>1 DEF IInv, PumpRuns, PumpCut, PumpEnds, TlsFails, Abort, PageError,
       PageClosed, Idle, Fail, Quiet
  <2> QED
    BY <2>1, <2>2
<1>2. CASE PumpFill \/ PumpOn \/ WriteSome \/ WriteEnds \/ LoadEngine \/ PageOpens
  BY <1>2 DEF PumpFill, PumpOn, WriteSome, WriteEnds, LoadEngine, PageOpens
<1>3. CASE PageAck \/ PageData \/ PageEnd \/ Read
  BY <1>3 DEF PageAck, PageData, PageEnd, Read, Quiet
<1>4. CASE Relay
  BY <1>4 DEF Relay, Accept, LookedUp, Connected, RelayReads, RelayTakes, SocketWrote,
     RelayAcked, RelayClosed
<1>5. CASE ServerEnds \/ RelayFails \/ DialFails \/ Lose \/ UNCHANGED vars
  BY <1>5 DEF ServerEnds, RelayFails, DialFails, Lose, vars
<1> QED
  BY <1>1, <1>2, <1>3, <1>4, <1>5 DEF Next, Page, Pump, Faults

\* The request over the tunnel is the abstract one: the response arrives in
\* order and once, it ends once, and well only when it is whole (tunnel.ts, pump).
THEOREM Refinement == Spec => ImplementsRequest
<1>1. Init => AR!Init
  BY DEF Init, AR!Init
<1>2. IInv /\ [Next]_vars => [AR!Next]_<<got, outcome>>
  BY ReadRefines, EofRefines, OthersRefine
<1> QED
  BY <1>1, <1>2, Invariant, PTL DEF Spec, ImplementsRequest, AR!Spec
=============================================================================
