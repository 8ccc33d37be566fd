------------------------------- MODULE Service -------------------------------
(***************************************************************************)
(* What the cluster promises its clients, as if it were one machine: the   *)
(* commands they have asked for are executed one after the other, each at  *)
(* most once, and what has been executed is never taken back.  A client    *)
(* hears of success only after its command was executed.                   *)
(***************************************************************************)
EXTENDS SequencesExt

CONSTANT Request

VARIABLES
    asked,      \* the commands that clients have asked for
    executed,   \* the commands that were executed, in their order
    answered    \* the commands whose clients were told of success

vars == <<asked, executed, answered>>

Init ==
    /\ asked = {}
    /\ executed = <<>>
    /\ answered = {}

Ask(c) ==
    /\ c \notin asked
    /\ asked' = asked \cup {c}
    /\ UNCHANGED <<executed, answered>>

\* Some commands are executed, and some clients told so.
Execute ==
    /\ IsPrefix(executed, executed')
    /\ IsInjective(executed')
    /\ ToSet(executed') \subseteq asked
    /\ answered \subseteq answered'
    /\ answered' \subseteq ToSet(executed')
    /\ UNCHANGED asked

Next == (\E c \in Request : Ask(c)) \/ Execute

Spec == Init /\ [][Next]_vars
==============================================================================
