---------------------------- MODULE MCNetwork -----------------------------
(* Instances of the network manager for TLC. *)
EXTENDS NetworkProperties, TLC

CONSTANTS t1, t2, m1, m2, c1, c2, c3

OneProcess == t1 :> m1 @@ t2 :> m1      \* two goroutines of one process
TwoProcesses == t1 :> m1 @@ t2 :> m2    \* two `poqman` processes

GeneratedIDs == [c \in Container |-> 12]  \* what GenerateID returns
ReadmeName == [c \in Container |-> 9]     \* `--name webserver`
=============================================================================
