---------------------------- MODULE ExecService ---------------------------
(***************************************************************************)
(* What `poqman exec` promises to those who use it: the command of each    *)
(* exec is started in the guest at most once and never after its exec has  *)
(* reported, and the one outcome an exec reports is an error or that of    *)
(* its own command.  The promise ends where an exec has been killed before *)
(* its answer came: from then on answers may reach the wrong exec.         *)
(***************************************************************************)
EXTENDS Naturals

CONSTANTS Client   \* `poqman exec` commands

VARIABLES
  starts,    \* how often the command of each exec was started
  outcome,   \* what each exec has reported
  deserted   \* an exec was killed before its answer came

Init ==
  /\ starts = [c \in Client |-> 0]
  /\ outcome = [c \in Client |-> "none"]
  /\ deserted = FALSE

Start(c) ==
  /\ starts[c] = 0
  /\ outcome[c] = "none" \/ deserted
  /\ starts' = [starts EXCEPT ![c] = 1]
  /\ UNCHANGED <<outcome, deserted>>

Report(c) ==
  /\ outcome[c] = "none"
  /\ \/ outcome' = [outcome EXCEPT ![c] = "error"]
     \/ starts[c] = 1 /\ outcome' = [outcome EXCEPT ![c] = "own"]
     \/ deserted /\ outcome' = [outcome EXCEPT ![c] = "foreign"]
  /\ UNCHANGED <<starts, deserted>>

Desert == deserted' = TRUE /\ UNCHANGED <<starts, outcome>>

Next == Desert \/ \E c \in Client : Start(c) \/ Report(c)

Spec == Init /\ [][Next]_<<starts, outcome, deserted>>
=============================================================================
