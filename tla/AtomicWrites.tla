---------------------------- MODULE AtomicWrites ----------------------------
(***************************************************************************)
(* What the storage host promises its callers, with no connection in       *)
(* sight: a request names a branch; until it is answered it may take effect*)
(* once, at one instant, on that branch; after the host went down nothing  *)
(* takes effect any more.                                                  *)
(***************************************************************************)
EXTENDS Sequences

CONSTANTS Procs, Branches, Main

VARIABLES
  pending,  \* callers waiting for an answer
  target,   \* the branch each caller named last
  landed,   \* where the current request of a caller took effect
  down      \* the host is closed

vars == <<pending, target, landed, down>>

Init ==
  /\ pending = {}
  /\ target = [p \in Procs |-> Main]
  /\ landed = [p \in Procs |-> <<>>]
  /\ down = FALSE

Ask(p) ==
  /\ p \notin pending
  /\ pending' = pending \cup {p}
  /\ \E b \in Branches : target' = [target EXCEPT ![p] = b]
  /\ landed' = [landed EXCEPT ![p] = <<>>]
  /\ UNCHANGED down

Land(p) ==
  /\ p \in pending /\ ~down
  /\ landed[p] = <<>>
  /\ landed' = [landed EXCEPT ![p] = <<target[p]>>]
  /\ UNCHANGED <<pending, target, down>>

Reply(p) ==
  /\ p \in pending
  /\ pending' = pending \ {p}
  /\ UNCHANGED <<target, landed, down>>

Shut ==
  /\ ~down
  /\ down' = TRUE
  /\ UNCHANGED <<pending, target, landed>>

Next == Shut \/ \E p \in Procs : Ask(p) \/ Land(p) \/ Reply(p)

Spec == Init /\ [][Next]_vars
=============================================================================
