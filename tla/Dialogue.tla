------------------------------- MODULE Dialogue -------------------------------
(***************************************************************************)
(* What a negotiation over one connection promises, without connection,    *)
(* queue or threads.                                                       *)
(*                                                                         *)
(* The two sides speak in turn.  The client offers a value; the session    *)
(* answers with a value of its own, or settles for the client's; the       *)
(* client offers again, takes the value on the table, or goes without one. *)
(* Every proposal after the first uses up a round.  A synchronization is a *)
(* single question, which the session answers with its value.  Whatever is *)
(* declined, lost, refused or late ends the dialogue, and nothing said     *)
(* later reopens it.                                                       *)
(***************************************************************************)
EXTENDS Naturals

CONSTANTS Values, NoValue

VARIABLES
    kind,       \* "negotiate" or "synchronize", once the client has called
    turn,       \* who speaks next
    value,      \* the value on the table
    left,       \* the rounds left for proposals
    outcome     \* the values the client has configured

dvars == <<kind, turn, value, left, outcome>>

DInit ==
    /\ kind = "none"
    /\ turn = "start"
    /\ value = NoValue
    /\ left = 0
    /\ outcome = {}

\* The application asks for a negotiation or a synchronization.
Begin(entry) ==
    /\ kind = "none"
    /\ kind' = entry
    /\ UNCHANGED <<turn, value, left, outcome>>

\* The client's request, with the rounds it allows.
Ask(v) ==
    /\ kind # "none" /\ turn = "start"
    /\ turn' = "session"
    /\ value' = v
    /\ left' \in Nat \ {0}
    /\ UNCHANGED <<kind, outcome>>

\* A side answers the other's proposal with one of its own.
Counter(speaker, listener, v) ==
    /\ kind = "negotiate" /\ turn = speaker
    /\ left > 1
    /\ turn' = listener
    /\ value' = v
    /\ left' = left - 1
    /\ UNCHANGED <<kind, outcome>>

\* The session accepts the client's value.
Settle ==
    /\ kind = "negotiate" /\ turn = "session"
    /\ turn' = "result"
    /\ left' = 0
    /\ UNCHANGED <<kind, value, outcome>>

\* The session answers the question.
Answer(v) ==
    /\ kind = "synchronize" /\ turn = "session"
    /\ turn' = "result"
    /\ value' = v
    /\ left' = 0
    /\ UNCHANGED <<kind, outcome>>

Close ==
    /\ turn' = "over"
    /\ value' = NoValue
    /\ left' = 0
    /\ UNCHANGED kind

\* The client configures the value on the table.
Take == turn \in {"client", "result"} /\ outcome' = {value} /\ Close

\* A side declines or gives up, or what was said is lost.
Leave == turn # "over" /\ UNCHANGED outcome /\ Close

DNext ==
    \/ \E entry \in {"negotiate", "synchronize"} : Begin(entry)
    \/ \E v \in Values :
         \/ Ask(v)
         \/ Counter("session", "client", v)
         \/ Counter("client", "session", v)
         \/ Answer(v)
    \/ Settle \/ Take \/ Leave

DSpec == DInit /\ [][DNext]_dvars

===============================================================================
