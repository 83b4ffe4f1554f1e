------------------------------- MODULE Discovery -------------------------------
(***************************************************************************)
(* What the calls of discover() of one client promise, without datagrams,  *)
(* sockets or session ids.                                                 *)
(*                                                                         *)
(* A call asks, and asks again when nobody answers, 1 + MAX_TRY_TIMES      *)
(* times: never more, and it gives up after no fewer.  It waits or returns *)
(* only at the word of a server that has heard a request with its id.  A   *)
(* call that gives up is the client's last: no later one asks again.       *)
(***************************************************************************)
EXTENDS Naturals

CONSTANT MAX_TRY_TIMES

VARIABLES
    stage,      \* where the client is
    requests,   \* how often this call has asked
    heard,      \* a server has heard a request with the id of this call
    known       \* the client has an address to negotiate with

avars == <<stage, requests, heard, known>>

AInit ==
    /\ stage = "ready"
    /\ requests = 0
    /\ heard = FALSE
    /\ known = FALSE

\* Another call.  Its id may be that of the one before.
Call ==
    /\ stage \in {"ready", "failed"}
    /\ heard' \in {heard, FALSE}
    /\ UNCHANGED <<stage, requests, known>>

Ask ==
    /\ \/ stage = "ready" /\ requests' = 1
       \/ stage = "asking" /\ requests <= MAX_TRY_TIMES
            /\ requests' = requests + 1
    /\ stage' = "asking"
    /\ heard' \in {heard, TRUE}
    /\ UNCHANGED known

Hear(next) ==
    /\ stage \in {"asking", "waiting"}
    /\ heard
    /\ stage' = next
    /\ requests' = 0
    /\ UNCHANGED <<heard, known>>

\* Only an answer is something to return with.
Return ==
    /\ stage = "answered"
    /\ stage' = "ready"
    /\ known' \in {known, TRUE}
    /\ UNCHANGED <<requests, heard>>

GiveUp ==
    /\ \/ stage = "asking" /\ requests = MAX_TRY_TIMES + 1
       \/ stage = "waiting"
    /\ stage' = "failed"
    /\ requests' = 0
    /\ UNCHANGED <<heard, known>>

ANext ==
    \/ Call \/ Ask
    \/ Hear("waiting") \/ Hear("answered")
    \/ Return \/ GiveUp

ASpec == AInit /\ [][ANext]_avars

===============================================================================
