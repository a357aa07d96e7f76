-------------------------- MODULE AbstractRequest --------------------------
(***************************************************************************)
(* What an HTTP request over the tunnel promises: the bytes of the         *)
(* response arrive in order and once, the request ends once, and it ends   *)
(* well only with the whole response.                                      *)
(***************************************************************************)
EXTENDS Naturals

CONSTANT Size        \* bytes of the response

VARIABLES got, outcome

Init == got = 0 /\ outcome = "waiting"

Running == outcome \in {"waiting", "body"}

\* More of the response; the first byte is the head, which settles the promise.
Receive == /\ Running
           /\ got' \in got + 1..Size
           /\ outcome' = "body"

\* The last of it, and the end.
Complete == /\ Running
            /\ got' = Size
            /\ outcome' = "done"

Fail == Running /\ outcome' = "failed" /\ UNCHANGED got

Next == Receive \/ Complete \/ Fail

Spec == Init /\ [][Next]_<<got, outcome>>
=============================================================================
