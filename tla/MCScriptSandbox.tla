-------------------------- MODULE MCScriptSandbox --------------------------
(***************************************************************************)
(* ScriptSandbox for TLC: values of its constants, and a start in which    *)
(* all scripts but one have come and gone, so that one run explores an     *)
(* intact script and another of which nothing is assumed, each completely. *)
(***************************************************************************)
EXTENDS ScriptSandbox

OneEach == [p \in Pools |-> 1]

\* One script is still to come; the others were answered and made no call.
MCInit ==
    /\ \E s \in Scripts :
         /\ phase = [t \in Scripts |-> IF t = s THEN "idle" ELSE "over"]
         /\ answer = [t \in Scripts |-> IF t = s THEN "none" ELSE "script"]
         /\ ctxDone = [t \in Scripts |-> t # s]
    /\ call = [t \in Scripts |-> [n \in Ids |-> NoCall]]
    /\ session = [t \in Scripts |-> [n \in Ids |-> NoSession]]

MCSpec == MCInit /\ [][Next]_vars /\ Fairness
=============================================================================
