------------------------------- MODULE Tunnel -------------------------------
(***************************************************************************)
(* One HTTPS request through the TCP relay: the page's end                 *)
(* (runtime/src/net/tunnel.ts), a WebSocket, the relay                     *)
(* (packages/relay/tcp-relay.ts) and the server behind it.                 *)
(*                                                                         *)
(* Either side sends at most a window ahead of the other's acks.  The page *)
(* acknowledges what TLS has taken, and TLS takes only what fits into its  *)
(* buffer of plaintext, which is read only while the reader of the body    *)
(* wants more.  The relay acknowledges what the socket has written, and    *)
(* pauses the socket when a window is unread.                              *)
(*                                                                         *)
(* Bytes are counted: a WebSocket keeps their order, so where each stands  *)
(* in the stream is its number.  Where frames begin and end is not kept:   *)
(* what is under way arrives in pieces of any size.  Control frames arrive *)
(* in order behind the bytes sent before them.  The server's stream is one *)
(* byte of handshake, the response (its first byte is the head), and one   *)
(* byte of close_notify; the page's is one byte of handshake, the request. *)
(* The request's body is at hand; Wisp, the other wire format, is left out.*)
(***************************************************************************)
EXTENDS Integers

CONSTANTS
  Window, Scratch,  \* WINDOW; SCRATCH, the largest piece the page handles
  Chunk,            \* the largest piece the relay reads from its socket
  HighWater,        \* bytes of the body kept for its reader
  TlsCap,           \* plaintext TLS holds
  Request, Response \* bytes of each

ASSUME TunnelAssumption ==
  /\ {Window, Scratch, Chunk, HighWater, TlsCap, Request, Response} \subseteq Nat \ {0}
  /\ Scratch <= Window

Framings == {"length", "close"}

VARIABLES
  \* the page
  pc,               \* loading, dialing, idle, and the steps of pump
  outcome,          \* of the request: waiting, body, done, failed
  framing,          \* how the end of the body is told
  writer,           \* sendRequest: off, ready, waits, done
  written, out,     \* plaintext given to TLS, ciphertext taken from it
  outQueued, unacked,
  inQueue, inEnded, eofFed,
  eofSeen,          \* TLS knows of the end
  tin, got,         \* bytes TLS took, bytes the parser has
  taken,            \* to be acknowledged at the end of pump
  closing,          \* pump runs for onclose
  body,             \* bytes enqueued for the reader
  \* the WebSocket
  upData, upAck,
  downOpen, downData, downAck, downEnd, downErr,
  link,             \* none, dialing, open, closed by the page or the relay,
                    \* lost, closed
  \* the relay and the server
  relay,            \* none, dns, connecting, open, closed, or closed for
                    \* what the page sent (broken)
  lookup,           \* the name is being resolved
  socket,           \* none, open, destroyed
  paused, unread, unwritten,
  sent, finished,   \* bytes the server sent that the relay has read; FIN
  fault             \* something failed that the request cannot survive

request == <<outcome, framing>>
tls == <<written, out, eofSeen, tin>>
sending == <<outQueued, unacked>>
receiving == <<inQueue, inEnded, eofFed, got, taken, closing, body>>
page == <<pc, request, writer, tls, sending, receiving>>
up == <<upData, upAck>>
down == <<downOpen, downData, downAck, downEnd, downErr>>
wire == <<up, down, link>>
tunnel == <<relay, lookup, socket, paused, unread, unwritten>>
server == <<sent, finished>>
vars == <<page, wire, tunnel, server, fault>>

Init ==
  /\ pc = "loading" /\ outcome = "waiting" /\ framing \in Framings
  /\ writer = "off" /\ written = 0 /\ out = 0
  /\ outQueued = 0 /\ unacked = 0
  /\ inQueue = 0 /\ inEnded = FALSE /\ eofFed = FALSE /\ eofSeen = FALSE
  /\ tin = 0 /\ got = 0 /\ taken = 0 /\ closing = FALSE /\ body = 0
  /\ upData = 0 /\ upAck = 0
  /\ downOpen = FALSE /\ downData = 0 /\ downAck = 0
  /\ downEnd = FALSE /\ downErr = FALSE
  /\ link = "none"
  /\ relay = "none" /\ lookup = FALSE /\ socket = "none" /\ paused = FALSE
  /\ unread = 0 /\ unwritten = 0
  /\ sent = 0 /\ finished = FALSE /\ fault = FALSE

Least(m, n) == IF m < n THEN m ELSE n
Over == outcome \in {"done", "failed"}

-----------------------------------------------------------------------------
\* TLS (external): what it makes of the bytes it took

Total == Response + 2
PlainOf(t) == IF t <= 1 THEN 0 ELSE Least(t - 1, Response)
Plain == PlainOf(tin) - got
Secure == tin >= 1
Notified == tin = Total

\* What it has for the wire when it took t bytes and was given w to send: its
\* hello, and the request once the handshake is over.
Wanted(t, w) == 1 + (IF t >= 1 THEN w ELSE 0)

-----------------------------------------------------------------------------
\* The page: sending

\* Mutant: the window is not looked at.
SendAll(q, u) ==
  /\ outQueued' = 0 /\ unacked' = u + q /\ upData' = upData + q

\* send: pieces go out while they fit into the window; one goes out anyway when
\* nothing is unacknowledged.  q bytes are queued, u are unacknowledged.
Send(q, u) ==
  \E k \in 0..q:
    /\ u + k <= Window \/ k = 0
    /\ k = q \/ (u + k > 0 /\ u + k + Least(Scratch, q - k) > Window)
    /\ outQueued' = q - k
    /\ unacked' = u + k
    /\ upData' = upData + k

\* flush: what TLS has for the wire when it took t bytes and was given w.
Flush(t, w) ==
  /\ out' = Wanted(t, w)
  /\ Send(outQueued + Wanted(t, w) - out, unacked)

Woken == IF writer = "waits" THEN "ready" ELSE writer

\* cleanup: the WebSocket is closed, who waits to write finds it over.
Cleanup ==
  /\ writer' = Woken
  /\ link' = IF link \in {"dialing", "open"} THEN "page" ELSE link

\* fail: what the reader of the body had not read is discarded.
Fail == outcome' = "failed" /\ body' = 0 /\ pc' = "idle" /\ Cleanup

\* finish: close_notify goes out, as far as the window allows, behind what is
\* queued.
Finish ==
  /\ outcome' = "done" /\ pc' = "idle" /\ Cleanup
  /\ out' = out + 1
  /\ Send(outQueued + 1, unacked)

\* The page takes the next task: pump is not running and no microtask is left.
Idle == pc = "idle" /\ writer # "ready" /\ ~Over
RelayOpen == writer # "off"

\* write: into TLS, out of it, and wait when it took nothing or too much is
\* queued.
WriteSome ==
  /\ pc = "idle" /\ writer = "ready" /\ ~Over /\ written < Request
  /\ LET n == Least(Request - written, Scratch)
         took == IF Secure THEN n ELSE Least(n, TlsCap - written)
     IN
       /\ written' = written + took
       /\ Flush(tin, written + took)
       /\ writer' = IF took = 0 \/ outQueued' > Window THEN "waits" ELSE "ready"
  /\ UNCHANGED <<pc, request, eofSeen, tin, receiving, upAck, down, link, tunnel,
                 server, fault>>

WriteEnds ==
  /\ pc = "idle" /\ writer = "ready"
  /\ Over \/ written = Request
  /\ writer' = "done"
  /\ UNCHANGED <<pc, request, tls, sending, receiving, wire, tunnel, server, fault>>

-----------------------------------------------------------------------------
\* The page: pump

\* Received bytes go into TLS until its plaintext is full, the end behind them;
\* TLS overlooks the end while it is full (external).
PumpFill ==
  /\ pc = "fill"
  /\ \E t \in 0..inQueue:
       /\ t = inQueue \/ PlainOf(tin + t) - got >= TlsCap
       /\ t = 0 \/ PlainOf(tin + t - 1) - got < TlsCap
       /\ tin' = tin + t
       /\ inQueue' = inQueue - t
       /\ taken' = taken + t
       /\ Flush(tin + t, written)
       /\ IF inEnded /\ t = inQueue /\ ~eofFed
          THEN eofFed' = TRUE /\ eofSeen' = (PlainOf(tin + t) - got < TlsCap)
          ELSE UNCHANGED <<eofFed, eofSeen>>
  /\ pc' = "read"
  /\ UNCHANGED <<request, writer, written, inEnded, got, closing, body, upAck,
                 down, link, tunnel, server, fault>>

\* TLS refuses what came: a certificate, a record.
TlsFails ==
  /\ pc = "fill" /\ inQueue > 0
  /\ Fail /\ fault' = TRUE
  /\ out' = out + 1 /\ Send(outQueued + 1, unacked)
  /\ UNCHANGED <<framing, written, eofSeen, tin, inQueue, inEnded, eofFed, got, taken,
                 closing, upAck, down, tunnel, server>>

\* The head of the response, which is not part of the body.
Head1 == IF got = 0 THEN 1 ELSE 0

\* desiredSize: what may be read before the reader wants no more.
Room == HighWater - body + Head1

WantMore == Room > 0

\* Plaintext into the parser, in pieces of at most Scratch, while the reader
\* wants more; the parser may find the end of the response.
PumpRead ==
  /\ pc = "read" /\ WantMore
  /\ \E r \in 1..Plain:
       /\ r >= Least(Plain, Room) /\ r < Room + Scratch
       /\ got' = got + r
       /\ body' = body + r - Head1
       /\ IF framing = "length" /\ got + r = Response
          THEN Finish
          ELSE /\ outcome' = "body" /\ pc' = "read"
               /\ UNCHANGED <<out, sending, upData, writer, link>>
  /\ UNCHANGED <<framing, written, eofSeen, tin, inQueue, inEnded, eofFed, taken,
                 closing, upAck, down, tunnel, server, fault>>

\* tls_read returns -1: the end of a body that lasts until the stream does.
PumpEof ==
  /\ pc = "read" /\ WantMore /\ Plain = 0 /\ Notified
  /\ Finish
  /\ UNCHANGED <<framing, written, eofSeen, tin, inQueue, inEnded, eofFed, got, taken,
                 closing, body, upAck, down, tunnel, server, fault>>

\* Mutant: an end without close_notify ends such a body too.
PumpCutEnds ==
  /\ pc = "read" /\ WantMore /\ Plain = 0 /\ ~Notified /\ eofSeen
  /\ IF framing = "close" /\ got > 0
     THEN Finish /\ UNCHANGED body
     ELSE Fail /\ UNCHANGED <<out, sending, upData>>
  /\ UNCHANGED <<framing, written, eofSeen, tin, inQueue, inEnded, eofFed, got, taken,
                 closing, upAck, down, tunnel, server, fault>>

\* tls_read returns -2: the stream stopped without close_notify.
PumpCut ==
  /\ pc = "read" /\ WantMore /\ Plain = 0 /\ ~Notified /\ eofSeen
  /\ Fail
  /\ UNCHANGED <<framing, tls, sending, inQueue, inEnded, eofFed, got, taken, closing,
                 up, down, tunnel, server, fault>>

PumpOn ==
  /\ pc = "read"
  /\ ~WantMore \/ (Plain = 0 /\ ~Notified /\ ~eofSeen)
  /\ pc' = IF WantMore /\ inQueue > 0 THEN "fill" ELSE "ack"
  /\ UNCHANGED <<request, writer, tls, sending, receiving, wire, tunnel, server, fault>>

\* pump returns: what TLS took is acknowledged; onclose looks whether anything
\* is left.
PumpEnds ==
  /\ pc = "ack"
  /\ upAck' = IF link = "open" THEN upAck + taken ELSE upAck
  /\ taken' = 0
  /\ closing' = FALSE
  /\ IF closing /\ inQueue = 0
     THEN Fail
     ELSE pc' = "idle" /\ writer' = Woken /\ UNCHANGED <<outcome, body, link>>
  /\ UNCHANGED <<framing, tls, sending, inQueue, inEnded, eofFed, got, upData, down,
                 tunnel, server, fault>>

-----------------------------------------------------------------------------
\* The page: its other tasks

Quiet == UNCHANGED <<framing, tls, sending, eofFed, got, taken>>

LoadEngine ==
  /\ pc = "loading"
  /\ pc' = "idle" /\ link' = "dialing"
  /\ UNCHANGED <<request, writer, tls, sending, receiving, up, down, tunnel, server, fault>>

\* The signal, the engine that does not load, the body that is cancelled.
Abort ==
  /\ pc = "loading" \/ Idle
  /\ ~Over
  /\ Fail /\ fault' = TRUE
  /\ UNCHANGED <<inQueue, inEnded, closing, up, down, tunnel, server>> /\ Quiet

Arrives == link \in {"open", "relay"}

\* "open": TLS begins, the request is written.
PageOpens ==
  /\ Idle /\ Arrives /\ downOpen
  /\ downOpen' = FALSE
  /\ writer' = "ready"
  /\ Flush(0, 0)
  /\ UNCHANGED <<pc, request, written, eofSeen, tin, receiving, upAck, downData,
                 downAck, downEnd, downErr, link, tunnel, server, fault>>

PageAck ==
  /\ Idle /\ Arrives
  /\ \E n \in 1..downAck:
       /\ downAck' = downAck - n
       /\ Send(outQueued, IF unacked > n THEN unacked - n ELSE 0)
  /\ writer' = Woken
  /\ UNCHANGED <<pc, request, tls, receiving, upAck, downOpen, downData, downEnd,
                 downErr, link, tunnel, server, fault>>

PageData ==
  /\ Idle /\ Arrives /\ ~downOpen
  /\ \E n \in 1..downData:
       /\ downData' = downData - n
       /\ inQueue' = inQueue + n
  /\ pc' = "fill"
  /\ UNCHANGED <<outcome, writer, inEnded, closing, body, up, downOpen, downAck, downEnd,
                 downErr, link, tunnel, server, fault>> /\ Quiet

PageEnd ==
  /\ Idle /\ Arrives /\ ~downOpen /\ downEnd /\ downData = 0
  /\ downEnd' = FALSE
  /\ inEnded' = TRUE
  /\ pc' = "fill"
  /\ UNCHANGED <<outcome, writer, inQueue, closing, body, up, downOpen, downData, downAck,
                 downErr, link, tunnel, server, fault>> /\ Quiet

PageError ==
  /\ Idle /\ Arrives /\ downErr /\ downData = 0 /\ ~downEnd /\ ~downOpen
  /\ downErr' = FALSE
  /\ Fail
  /\ UNCHANGED <<inQueue, inEnded, closing, up, downOpen, downData, downAck, downEnd,
                 tunnel, server, fault>> /\ Quiet

\* The relay has closed the WebSocket, and all it sent before is handled.
Drained == link = "relay" /\ ~downOpen /\ downData = 0 /\ ~downEnd /\ ~downErr

\* Mutant: a relay that goes has said why.
PageClosedQuietly ==
  /\ Idle
  /\ link = "lost" \/ Drained
  /\ link' = "closed"
  /\ UNCHANGED <<outcome, body, writer, inEnded, closing, pc, inQueue, up, down,
                 tunnel, server, fault>>
  /\ Quiet

\* onclose
PageClosed ==
  /\ Idle
  /\ link = "lost" \/ Drained
  /\ link' = "closed"
  /\ IF RelayOpen
     THEN /\ inEnded' = TRUE /\ closing' = TRUE /\ pc' = "fill"
          /\ UNCHANGED <<outcome, body, writer>>
     ELSE /\ outcome' = "failed" /\ body' = 0 /\ pc' = "idle" /\ writer' = Woken
          /\ UNCHANGED <<inEnded, closing>>
  /\ UNCHANGED <<inQueue, up, down, tunnel, server, fault>> /\ Quiet

\* The reader of the body takes some of it, and pull asks for more.
Read ==
  /\ Idle \/ outcome = "done"
  /\ \E n \in 1..body:
       /\ body' = body - n
       /\ pc' = IF ~Over /\ body - n < HighWater THEN "fill" ELSE pc
  /\ UNCHANGED <<outcome, writer, inQueue, inEnded, closing, wire, tunnel, server, fault>>
  /\ Quiet

-----------------------------------------------------------------------------
\* The WebSocket

\* accept and open: the name is resolved, unless the entry names its target.
Accept ==
  /\ link = "dialing"
  /\ link' = "open"
  /\ \/ relay' = "dns" /\ lookup' = TRUE /\ UNCHANGED socket
     \/ relay' = "connecting" /\ socket' = "open" /\ UNCHANGED lookup
  /\ UNCHANGED <<page, up, down, paused, unread, unwritten, server, fault>>

\* The relay is down or does not take this page's WebSocket.
DialFails ==
  /\ link = "dialing"
  /\ link' = "lost" /\ fault' = TRUE
  /\ UNCHANGED <<page, up, down, tunnel, server>>

Lose ==
  /\ link = "open"
  /\ link' = "lost" /\ fault' = TRUE
  /\ UNCHANGED <<page, up, down, tunnel, server>>

-----------------------------------------------------------------------------
\* The relay

Ended == relay \in {"closed", "broken"}

\* finish, with an error: once.
Finished(how) ==
  /\ relay' = how
  /\ socket' = IF socket = "open" THEN "destroyed" ELSE socket
  /\ downErr' = (link = "open" /\ ~Over)
  /\ link' = IF link = "open" THEN "relay" ELSE link
  /\ fault' = TRUE

\* Mutant: what happened during the lookup is not looked at.
LookedUpAnyway ==
  /\ lookup
  /\ lookup' = FALSE
  /\ relay' = IF relay = "dns" THEN "connecting" ELSE relay
  /\ socket' = "open"
  /\ UNCHANGED <<page, wire, paused, unread, unwritten, server, fault>>

\* start goes on behind the await.
LookedUp ==
  /\ lookup
  /\ lookup' = FALSE
  /\ IF Ended THEN UNCHANGED <<relay, socket>>
     ELSE relay' = "connecting" /\ socket' = "open"
  /\ UNCHANGED <<page, wire, paused, unread, unwritten, server, fault>>

Connected ==
  /\ relay = "connecting"
  /\ relay' = "open"
  /\ downOpen' = ~Over
  /\ UNCHANGED <<page, up, downData, downAck, downEnd, downErr, link, lookup, socket,
                 paused, unread, unwritten, server, fault>>

\* A name that does not resolve or must not be used, a connection refused or
\* reset, and the timers: connecting, idle, lifetime.
RelayFails ==
  /\ ~Ended /\ relay # "none"
  /\ Finished("closed")
  /\ UNCHANGED <<page, up, downOpen, downData, downAck, downEnd, lookup, paused, unread,
                 unwritten, server>>

\* What the server has got (external): it answers the handshake, then the request.
Got == out - outQueued - upData - unwritten
Answered == IF Got > Request THEN Total ELSE IF Got >= 1 THEN 1 ELSE 0

\* A 'data' event.
RelayReads ==
  /\ relay = "open" /\ ~paused /\ ~finished
  /\ \E n \in 1..Chunk:
       /\ sent + n <= Answered
       /\ sent' = sent + n
       /\ unread' = unread + n
       /\ downData' = IF Over THEN downData ELSE downData + n
       /\ paused' = (unread + n >= Window)
  /\ UNCHANGED <<page, up, downOpen, downAck, downEnd, downErr, link, relay, lookup,
                 socket, unwritten, finished, fault>>

\* An 'end' event: the server has sent everything, or breaks off.
ServerEnds ==
  /\ relay = "open" /\ ~finished
  /\ finished' = TRUE
  /\ downEnd' = ~Over
  /\ fault' = (fault \/ sent < Total)
  /\ UNCHANGED <<page, up, downOpen, downData, downAck, downErr, link, tunnel, sent>>

ArrivesUp == link \in {"open", "page"}

\* A binary frame.
RelayTakes ==
  /\ ArrivesUp /\ ~Ended /\ relay # "none"
  /\ \E n \in 1..upData:
       /\ upData' = upData - n
       /\ unwritten' = unwritten + n
       /\ IF relay # "open" \/ unwritten + n > 4 * Window
          THEN Finished("broken")
          ELSE UNCHANGED <<relay, socket, downErr, link, fault>>
  /\ UNCHANGED <<page, upAck, downOpen, downData, downAck, downEnd, lookup, paused,
                 unread, server>>

\* The socket has written some: the page is told.
SocketWrote ==
  /\ relay = "open"
  /\ \E n \in 1..unwritten:
       /\ unwritten' = unwritten - n
       /\ downAck' = IF Over THEN downAck ELSE downAck + n
  /\ UNCHANGED <<page, up, downOpen, downData, downEnd, downErr, link, relay, lookup,
                 socket, paused, unread, server, fault>>

\* Mutant: the socket stays paused until everything is read.
RelayAckedLate ==
  /\ ArrivesUp /\ ~Ended
  /\ \E n \in 1..upAck:
       /\ upAck' = upAck - n
       /\ unread' = IF unread > n THEN unread - n ELSE 0
       /\ paused' = (paused /\ n < Window)
  /\ UNCHANGED <<page, upData, down, link, relay, lookup, socket, unwritten, server,
                 fault>>

\* An ack.
RelayAcked ==
  /\ ArrivesUp /\ ~Ended
  /\ \E n \in 1..upAck:
       /\ upAck' = upAck - n
       /\ unread' = IF unread > n THEN unread - n ELSE 0
       /\ paused' = (paused /\ unread' >= Window)
  /\ UNCHANGED <<page, upData, down, link, relay, lookup, socket, unwritten, server,
                 fault>>

\* close: the page has closed the WebSocket, or it broke.
RelayClosed ==
  /\ link = "lost" \/ (link = "page" /\ upData = 0 /\ upAck = 0)
  /\ ~Ended /\ relay # "none"
  /\ relay' = "closed"
  /\ socket' = IF socket = "open" THEN "destroyed" ELSE socket
  /\ UNCHANGED <<page, wire, lookup, paused, unread, unwritten, server, fault>>

-----------------------------------------------------------------------------

Pump == PumpFill \/ PumpRead \/ PumpEof \/ PumpCut \/ PumpOn \/ PumpEnds

Page ==
  \/ Pump \/ WriteSome \/ WriteEnds
  \/ LoadEngine \/ PageOpens \/ PageAck \/ PageData \/ PageEnd \/ PageError
  \/ PageClosed

Relay ==
  \/ Accept \/ LookedUp \/ Connected \/ RelayReads \/ RelayTakes \/ SocketWrote
  \/ RelayAcked \/ RelayClosed

Faults == Abort \/ TlsFails \/ DialFails \/ Lose

Next == Page \/ Read \/ Relay \/ ServerEnds \/ RelayFails \/ Faults

Spec == Init /\ [][Next]_vars

\* The page handles what arrives, its reader reads, relay and server go on.
FairSpec ==
  /\ Spec
  /\ WF_vars(Page) /\ WF_vars(Read) /\ WF_vars(Accept) /\ WF_vars(LookedUp)
  /\ WF_vars(Connected) /\ WF_vars(RelayReads) /\ WF_vars(RelayTakes)
  /\ WF_vars(SocketWrote) /\ WF_vars(RelayAcked) /\ WF_vars(RelayClosed)
  /\ WF_vars(sent = Total /\ ServerEnds)

-----------------------------------------------------------------------------

PCs == {"loading", "idle", "fill", "read", "ack"}
Links == {"none", "dialing", "open", "page", "relay", "lost", "closed"}

\* Types, and what each buffer may hold.
PageTypes ==
  /\ pc \in PCs /\ outcome \in {"waiting", "body", "done", "failed"}
  /\ framing \in Framings /\ writer \in {"off", "ready", "waits", "done"}
  /\ written \in 0..Request /\ out \in Nat /\ outQueued \in Nat /\ unacked \in Nat
  /\ inQueue \in Nat /\ inEnded \in BOOLEAN /\ eofFed \in BOOLEAN
  /\ eofSeen \in BOOLEAN
  /\ tin \in Nat /\ got \in Nat /\ taken \in Nat /\ closing \in BOOLEAN
  /\ body \in 0..HighWater + Scratch - 1

WireTypes ==
  /\ upData \in Nat /\ upAck \in Nat
  /\ downOpen \in BOOLEAN /\ downData \in Nat /\ downAck \in Nat
  /\ downEnd \in BOOLEAN /\ downErr \in BOOLEAN /\ link \in Links

RelayTypes ==
  /\ relay \in {"none", "dns", "connecting", "open", "closed", "broken"}
  /\ lookup \in BOOLEAN /\ socket \in {"none", "open", "destroyed"}
  /\ paused \in BOOLEAN /\ unread \in Nat /\ unwritten \in Nat
  /\ sent \in 0..Total /\ finished \in BOOLEAN /\ fault \in BOOLEAN

\* Every variable has its type; the body kept for its reader is at most a piece
\* above what the reader asked for (pump, wantMore).
TypeOK == PageTypes /\ WireTypes /\ RelayTypes

\* While both ends hold on to the connection each knows what is under way: what
\* is not acknowledged is in the wire, at the other end, or its ack is coming.
Linked == ~Over /\ link = "open"

SendWindow == Linked => unacked = upData + unwritten + downAck
ReceiveWindow == Linked => unread = downData + inQueue + taken + upAck
PausedWhenFull == Linked => (paused <=> unread >= Window)

\* "Flow control is by the acks, WINDOW bytes each way" (tunnel.ts,
\* tcp-relay.ts): neither end holds more than a window of the other's bytes (and
\* the last piece read from the socket), the relay never finds the page to
\* break the protocol, and its socket is paused exactly when a window is unread.
WindowsKept ==
  /\ relay # "broken"
  /\ unacked <= Window /\ unread < Window + Chunk
  /\ SendWindow /\ ReceiveWindow /\ PausedWhenFull

\* finish and start: a tunnel that is over has no socket, whatever it was
\* waiting for when it ended.
NoSocketLeft == Ended => socket # "open"

\* The request is one: whole or failed, ended once.
AR == INSTANCE AbstractRequest WITH Size <- Response
ImplementsRequest == AR!Spec

\* Without a fault the response arrives as a whole: acks, pauses, buffers and
\* waiting writers never stop each other for good.
Completes == <>(outcome = "done" \/ fault)

\* tls_in_eof was called while TLS could take nothing, and is not called again.
EndLost == eofFed /\ ~eofSeen

\* After a fault the request ends all the same, at the latest by the relay's
\* timers, unless the end of the stream was lost on TLS; and the relay lets go of
\* a page that is gone.
Settles ==
  WF_vars(RelayFails) =>
    /\ fault ~> Over \/ EndLost
    /\ Over ~> (relay = "none" \/ Ended)

\* The stream that "stopped without" close_notify is what "only a response that
\* was already complete survives" (tunnel.ts): any other is failed.
CutIsNoticed == WF_vars(RelayFails) => (fault ~> Over)
=============================================================================
