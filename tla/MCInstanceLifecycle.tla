------------------------- MODULE MCInstanceLifecycle -------------------------
(* Instances of InstanceLifecycle for TLC: daemons, commands and ports are *)
(* interchangeable.                                                        *)
EXTENDS InstanceLifecycle, TLC

Names == Permutations(Daemons) \cup Permutations(Clients) \cup Permutations(Ports)
=============================================================================
