----------------------- MODULE LifecycleProperties ------------------------
(***************************************************************************)
(* What the commands of pkg/cli have to guarantee, on top of Lifecycle.    *)
(***************************************************************************)
EXTENDS Lifecycle

Running(c) == rec[c].status = "running" /\ Alive(rec[c].pid)

(* The address in the record of a running container is allocated to it and *)
(* to nobody else, whatever failed, was killed or was restarted before: no *)
(* command gives the address of a running machine back, so that a later    *)
(* CreateTap would hand it out again.                                      *)
RunningOwnsItsAddress ==
  \A c \in Container : Running(c) => {d \in Container : lease[d] = rec[c].ip} = {c}

(* The process pid is dead after the step. *)
DeadNext(pid) == ~(pid \in PID /\ vm'[pid] # Dead)

(* The record of a running container disappears only after its machine:    *)
(* rm -f kills before it removes, and run --rm does not take the record of *)
(* another machine away.                                                   *)
RemovalKills ==
  [][\A c \in Container :
       rec[c].status = "running" /\ rec'[c] = NoRecord => DeadNext(rec[c].pid)]_vars

(* As long as the machine a record names lives, every port published in    *)
(* the record is forwarded to the address the machine has now: a restart   *)
(* under a new address forwards the ports to the new one.                  *)
PublishedPortsForwarded ==
  \A c \in Container : Alive(rec[c].pid) =>
    [port : rec[c].ports, to : {rec[c].ip}] \subseteq rules

(* A record says "stopped" only after the process it names has died, even  *)
(* when several commands work on the container at once: stop, rm -f and    *)
(* attached commands never write it ahead of the process.                  *)
StoppedNamesDeadProcess ==
  \A c \in Container : rec[c].status = "stopped" => ~Alive(rec[c].pid)

(* What a command on one container may never touch of another: its record, *)
(* directory, address, device and machine.                                 *)
VMsOf(c) == {pid \in PID : vm[pid] # Dead /\ vm[pid].of = c}
Isolation ==
  [][\A p \in Proc : cli[p] # Idle /\ cli'[p] # cli[p] /\ reboots' = reboots =>
       \A d \in Container \ {cli[p].of} :
         /\ rec'[d] = rec[d] /\ lease'[d] = lease[d] /\ VMsOf(d)' = VMsOf(d)
         /\ (d \in dirs) = (d \in dirs')
         /\ (TapName[d] \in taps) = (TapName[d] \in taps')]_vars

(* A container without a record and without a command in progress holds no *)
(* address: as long as QEMU starts, files can be written and no command is *)
(* killed, run, start, stop and rm together return every address they take.*)
RemovedHoldsNoAddress ==
  \A c \in Container : rec[c] = NoRecord /\ ~Busy(c) => lease[c] = NoIP

(* The machine that stop or rm -f loaded from the record is dead in the    *)
(* end, whether its guest obeys system_powerdown or not.                   *)
StopTakesEffect ==
  \A pid \in PID :
    (\E p \in Proc : At(p, {"stop", "rm"}, {"await", "kill"}) /\ cli[p].c.pid = pid)
      ~> ~Alive(pid)

(* A detached run --rm that started QEMU ends with nothing left of it.     *)
RunRmEnds ==
  \A c \in Container :
    (\E p \in Proc : At(p, {"run"}, {"reap"}) /\ cli[p].of = c)
      ~> (c \notin dirs /\ rec[c] = NoRecord /\ lease[c] = NoIP)

-----------------------------------------------------------------------------
(* What documents, comments and tests say and the code does not do.        *)

(* ARCHITECTURE.md section 9, "created -> running": the record of a        *)
(* container whose machine lives does not say "created".                   *)
LiveIsRecordedRunning ==
  \A c \in Container : Alive(rec[c].pid) => rec[c].status # "created"

(* ARCHITECTURE.md section 5, "Port forwarding via iptables DNAT, cleaned  *)
(* up on stop": when stop ends, no rule for the ports of the container     *)
(* leads to its address.                                                   *)
PortsCleanedUpOnStop ==
  [][\A p \in Proc : At(p, {"stop"}, {"save"}) /\ cli'[p] = Idle /\ crashes' = crashes
       => [port : cli[p].c.ports, to : {cli[p].c.ip}] \cap rules = {}]_vars

(* lifecycle_test.go, StateTransitions, "stopped -> running": where the    *)
(* host fails nothing and an address is free, start starts the container.  *)
StoppedCanStart ==
  [][\A p \in Proc :
       At(p, {"start"}, {"tap"}) /\ (\E i \in Address : ~Net!InUse(i))
         => cli'[p] # Idle]_vars
=============================================================================
