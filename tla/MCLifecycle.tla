--------------------------- MODULE MCLifecycle ----------------------------
(* Instances of the container commands for TLC. *)
EXTENDS LifecycleProperties, TLC

CONSTANTS c1, c2, a1, a2, p1, p2

OwnName == [c \in Container |-> c]  \* the first 12 characters tell names apart

Symmetry == Permutations(Container) \cup Permutations(Address)
              \cup Permutations(Proc)
=============================================================================
