------------------------- MODULE LifecycleProofs --------------------------
(***************************************************************************)
(* Proofs about the container commands, for any number of containers,      *)
(* processes, addresses, ports and commands.                               *)
(***************************************************************************)
EXTENDS LifecycleProperties, TLAPS

USE DEF Net!Init, Net!Acquire, Net!GiveUp, Net!InUse

-----------------------------------------------------------------------------
(* Types. *)

LEMMA TypeInit == Init => TypeOK
BY NamesAssumption, EnvironmentAssumption
DEF Init, TypeOK, NoRecord, Record, PID, Idle, Dead

(* What the steps of a command do with its frame and with the record. *)
LEMMA FrameTypes ==
  ASSUME TypeOK, NEW p \in Proc, cli[p] # Idle
  PROVE  /\ cli[p] \in Active
         /\ \A place \in Places : Goto(p, place) =>
              cli' \in [Proc -> Active \cup {Idle}] /\ UNCHANGED bounds
         /\ End(p) => cli' \in [Proc -> Active \cup {Idle}] /\ UNCHANGED bounds
BY DEF TypeOK, Goto, End, Active

LEMMA SaveTypes ==
  ASSUME TypeOK, NEW id \in Container, NEW c \in Record, Save(id, c)
  PROVE  rec' \in [Container -> Record \cup {NoRecord}] /\ dirs' \subseteq Container
BY DEF TypeOK, Save

LEMMA RemoveTypes ==
  ASSUME TypeOK, NEW id \in Container, Remove(id)
  PROVE  rec' \in [Container -> Record \cup {NoRecord}] /\ dirs' \subseteq Container
BY DEF TypeOK, Remove

LEMMA KillTypes ==
  ASSUME TypeOK, NEW pid \in PID \cup {0}, Kill(pid)
  PROVE  vm' \in [PID -> VM \cup {Dead}] /\ booted' \in 0..MaxCommands
BY DEF TypeOK, Kill, Alive

LEMMA TypeStep == TypeOK /\ [Next]_vars => TypeOK'
<1> SUFFICES ASSUME TypeOK, [Next]_vars PROVE TypeOK'
  OBVIOUS
<1> USE NamesAssumption, EnvironmentAssumption
<1>1. ASSUME NEW p \in Proc, NEW id \in Container, Issue(p, id) PROVE TypeOK'
  <2>1. NewRecord \in Record /\ NoRecord.pid = 0
    BY DEF NewRecord, NoRecord, Record, Status
  <2>2. rec[id] = NoRecord \/ rec[id] \in Record
    BY DEF TypeOK
  <2>3. ASSUME NEW f \in Active, Begin(p, f)
        PROVE  /\ cli' \in [Proc -> Active \cup {Idle}]
               /\ commands' \in 0..MaxCommands /\ UNCHANGED <<crashes, reboots>>
    BY <2>3 DEF TypeOK, Begin
  <2>4. ASSUME NEW name \in {"run", "start", "stop", "rm"}, NEW place \in Places,
               NEW c \in Record
        PROVE  Command(name, place, id, c) \in Active
    BY DEF Command, Active
  <2>5. ASSUME NEW attach \in BOOLEAN, NEW rm \in BOOLEAN,
               NEW publish \in SUBSET Port, Run(p, id, attach, rm, publish)
        PROVE  TypeOK'
    <3>1. [Command("run", "tap", id, NewRecord) EXCEPT
             !.attach = attach, !.rm = rm, !.publish = publish] \in Active
      <4>1. Command("run", "tap", id, NewRecord) \in Active
        BY <2>1, <2>4 DEF Places
      <4> QED
        BY <2>5, <4>1 DEF Active
    <3> QED
      BY <2>3, <2>5, <3>1 DEF Run, TypeOK, machines, network
  <2>6. ASSUME NEW attach \in BOOLEAN, Start(p, id, attach) PROVE TypeOK'
    <3>1. rec[id] \in Record
      BY <2>2, <2>6 DEF Start, NoRecord
    <3>2. [Command("start", "tap", id, rec[id]) EXCEPT !.attach = attach] \in Active
      BY <2>4, <3>1 DEF Active, Places
    <3> QED
      BY <2>3, <2>6, <3>2 DEF Start, TypeOK, files, machines, network
  <2>7. ASSUME Stop(p, id) PROVE TypeOK'
    <3>1. rec[id] \in Record
      BY <2>2, <2>7 DEF Stop, NoRecord
    <3>2. /\ Command("stop", "await", id, rec[id]) \in Active
          /\ Command("stop", "kill", id, rec[id]) \in Active
      BY <2>4, <3>1 DEF Places
    <3> QED
      BY <2>3, <2>7, <3>2 DEF Stop, TypeOK, files, machines, network
  <2>8. ASSUME NEW force \in BOOLEAN, Rm(p, id, force) PROVE TypeOK'
    <3>1. rec[id] \in Record
      BY <2>2, <2>8 DEF Rm
    <3>2. /\ Command("rm", "kill", id, rec[id]) \in Active
          /\ Command("rm", "release", id, rec[id]) \in Active
      BY <2>4, <3>1 DEF Places
    <3> QED
      BY <2>3, <2>8, <3>2 DEF Rm, TypeOK, files, machines, network
  <2> QED
    BY <1>1, <2>5, <2>6, <2>7, <2>8 DEF Issue
<1>2. ASSUME NEW p \in Proc, Step(p) PROVE TypeOK'
  <2> DEFINE f == cli[p]
  <2>0. f \in Active
    BY <1>2, FrameTypes
    DEF Step, At, RunAssembleFails, RunTap, Forward, RunNoKernel, BootFails,
        BootQEMU, RunRecord, RunRecordFails, Exited, RunReap, RunDestroyTap,
        RunRelease, RunRemove, StartTap, StartRecord, StopExited, StopKill,
        StopUnpublish, StopSave, RmKill, RmSave, RmRemove, Release
  <2>1. cli[p] # Idle
    BY <2>0 DEF Active, Idle
  <2>2. \A place \in Places : Goto(p, place) =>
              cli' \in [Proc -> Active \cup {Idle}] /\ UNCHANGED bounds
    BY <2>1, FrameTypes
  <2>3. End(p) => cli' \in [Proc -> Active \cup {Idle}] /\ UNCHANGED bounds
    BY <2>1, FrameTypes
  <2>4. /\ f.of \in Container /\ f.c \in Record /\ f.c.pid \in PID \cup {0}
        /\ f.c.ip \in Address \cup {NoIP} /\ f.c.ports \subseteq Port
    BY <2>0 DEF Active, Record
  <2>5. [f.c EXCEPT !.status = "stopped"] \in Record /\ Created(f.c) \in Record
    BY <2>4 DEF Record, Status, Created
  <2> USE <2>0, <2>4 DEF TypeOK, files, machines, network, bounds
  <2>6. CASE RunAssembleFails(p) \/ RunNoKernel(p) \/ RunRecordFails(p)
    BY <2>3, <2>6 DEF RunAssembleFails, RunNoKernel, RunRecordFails
  <2>7. CASE RunTap(p)
    BY <2>7 DEF RunTap, TapExists, TapFails, TapCreated, Active, Record, Places
  <2>8. CASE Forward(p)
    <3>1. PICK ports \in SUBSET Port, done \in SUBSET Port :
            /\ rules' = rules \cup [port : done, to : {f.c.ip}]
            /\ cli' = [cli EXCEPT ![p] = [f EXCEPT !.at = "boot",
                                            !.c = [f.c EXCEPT !.ports = ports]]]
      <4> DEFINE ps == IF f.cmd = "start" THEN f.c.ports
                       ELSE IF f.net THEN f.publish ELSE {}
      <4>1. ps \in SUBSET Port
        BY DEF Active
      <4>2. cli' = [cli EXCEPT ![p] = [f EXCEPT !.at = "boot",
                                        !.c = [f.c EXCEPT !.ports = ps]]]
        BY <2>8 DEF Forward, Active, Record
      <4>3. PICK done \in SUBSET ps : rules' = rules \cup [port : done, to : {f.c.ip}]
        BY <2>8 DEF Forward
      <4> QED
        BY <4>1, <4>2, <4>3
    <3>2. [f.c EXCEPT !.ports = ports] \in Record
      BY DEF Record
    <3>3. cli' \in [Proc -> Active \cup {Idle}]
      BY <3>1, <3>2 DEF Active, Places
    <3>4. rules' \subseteq [port : Port, to : Address \cup {NoIP}]
      BY <3>1
    <3> QED
      BY <2>8, <3>3, <3>4 DEF Forward
  <2>9. CASE BootFails(p)
    BY <2>3, <2>9 DEF BootFails
  <2>10. CASE BootQEMU(p)
    <3>1. booted + 1 \in PID
      BY <2>10 DEF BootQEMU, Boot, PID
    <3>2. vm' \in [PID -> VM \cup {Dead}] /\ booted' \in 0..MaxCommands
      BY <2>10, <3>1 DEF BootQEMU, Boot, VM, PID
    <3>3. [f.c EXCEPT !.pid = booted + 1, !.status = "running"] \in Record
      BY <3>1 DEF Record, Status
    <3>4. cli' = [cli EXCEPT ![p] =
                    [f EXCEPT !.at = "record",
                      !.c = [f.c EXCEPT !.pid = booted + 1, !.status = "running"]]]
      BY <2>10 DEF BootQEMU, Boot, Active, Record
    <3>5. cli' \in [Proc -> Active \cup {Idle}]
      BY <3>3, <3>4 DEF Active, Places
    <3> QED
      BY <2>10, <3>2, <3>5 DEF BootQEMU
  <2>11. CASE RunRecord(p)
    BY <2>3, <2>5, <2>11 DEF RunRecord, Create, Active, Places
  <2>12. CASE Exited(p)
    BY <2>2, <2>3, <2>5, <2>12, SaveTypes DEF Exited, Places
  <2>13. CASE RunReap(p)
    BY <2>13, KillTypes DEF RunReap, Active, Places
  <2>14. CASE RunDestroyTap(p) \/ RunRelease(p)
    BY <2>2, <2>14 DEF RunDestroyTap, RunRelease, ReleaseIP, Places
  <2>15. CASE RunRemove(p)
    BY <2>2, <2>3, <2>15, RemoveTypes DEF RunRemove, Places
  <2>16. CASE StartTap(p)
    BY <2>3, <2>16
    DEF StartTap, TapExists, TapFails, TapCreated, Active, Record, Places
  <2>17. CASE StartRecord(p)
    BY <2>2, <2>3, <2>17, SaveTypes DEF StartRecord, Places
  <2>18. CASE StopExited(p)
    BY <2>2, <2>18 DEF StopExited, Places
  <2>19. CASE StopKill(p) \/ RmKill(p)
    BY <2>2, <2>19, KillTypes DEF StopKill, RmKill, Places
  <2>20. CASE StopUnpublish(p) \/ Release(p)
    BY <2>2, <2>20 DEF StopUnpublish, Release, ReleaseIP, Places
  <2>21. CASE StopSave(p) \/ RmSave(p)
    BY <2>2, <2>3, <2>5, <2>21, SaveTypes DEF StopSave, RmSave, Places
  <2>22. CASE RmRemove(p)
    BY <2>3, <2>22, RemoveTypes DEF RmRemove
  <2> QED
    BY <1>2, <2>6, <2>7, <2>8, <2>9, <2>10, <2>11, <2>12, <2>13, <2>14, <2>15,
       <2>16, <2>17, <2>18, <2>19, <2>20, <2>21, <2>22 DEF Step
<1>3. ASSUME NEW p \in Proc, Crash(p) PROVE TypeOK'
  BY <1>3 DEF Crash, TypeOK, files, machines, network
<1>4. ASSUME NEW pid \in PID, GuestExits(pid) PROVE TypeOK'
  BY <1>4, KillTypes DEF GuestExits, TypeOK, files, network, bounds
<1>5. CASE Reboot
  BY <1>5 DEF Reboot, TypeOK, files
<1>6. CASE UNCHANGED vars
  BY <1>6 DEF vars, TypeOK
<1> QED
  BY <1>1, <1>2, <1>3, <1>4, <1>5, <1>6 DEF Next

(* The commands keep every variable in its type, for every reachable state.*)
THEOREM TypeCorrect == Spec => []TypeOK
BY TypeInit, TypeStep, PTL DEF Spec

-----------------------------------------------------------------------------
(* What holds however commands are interleaved, on any container.          *)

(* Process IDs are used up in order, so a dead process stays dead; a record*)
(* and a command in progress know only processes of their own container.   *)
PidInv ==
  /\ \A pid \in PID : pid > booted => vm[pid] = Dead
  /\ \A c \in Container :
       rec[c].pid <= booted /\ (Alive(rec[c].pid) => vm[rec[c].pid].of = c)
  /\ \A p \in Proc : cli[p] # Idle =>
       /\ cli[p].c.pid <= booted
       /\ Alive(cli[p].c.pid) => vm[cli[p].c.pid].of = cli[p].of

(* Past the kill or the wait, the process is dead; start records a running *)
(* one.                                                                    *)
StopInv ==
  /\ \A c \in Container : rec[c].status = "stopped" => ~Alive(rec[c].pid)
  /\ \A p \in Proc :
       /\ \/ At(p, {"stop"}, {"unpublish", "release", "save"})
          \/ At(p, {"rm"}, {"killed"})
          => ~Alive(cli[p].c.pid)
       /\ At(p, {"start"}, {"record", "wait"}) => cli[p].c.status = "running"

(* A command knows no device but its own container's. *)
TapInv ==
  \A p \in Proc : cli[p] # Idle => cli[p].tap \in {NoTap, TapName[cli[p].of]}

BaseInv == TypeOK /\ PidInv /\ StopInv /\ TapInv

LEMMA BaseInit == Init => BaseInv
<1> SUFFICES ASSUME Init PROVE BaseInv
  OBVIOUS
<1>1. TypeOK
  BY TypeInit
<1> QED
  BY <1>1 DEF Init, BaseInv, PidInv, StopInv, TapInv, At, NoRecord, Alive

(* Between two states no process comes to life. *)
NoBirth ==
  booted' = booted /\ \A pid \in PID : vm'[pid] = vm[pid] \/ vm'[pid] = Dead

LEMMA KillEffect ==
  ASSUME TypeOK, NEW pid \in PID \cup {0}, Kill(pid)
  PROVE  NoBirth /\ ~Alive(pid)'
BY DEF TypeOK, Kill, Alive, NoBirth, PID

(* What any step but the start of QEMU leaves as it was. *)
LEMMA StepEffect ==
  ASSUME TypeOK, NEW p \in Proc, Step(p), ~BootQEMU(p)
  PROVE  /\ NoBirth
         /\ cli[p] \in Active
         /\ \A q \in Proc \ {p} : cli'[q] = cli[q]
         /\ cli'[p] # Idle => /\ cli'[p].of = cli[p].of /\ cli'[p].cmd = cli[p].cmd
                              /\ cli'[p].c.pid = cli[p].c.pid
         /\ \A c \in Container \ {cli[p].of} : rec'[c] = rec[c]
         /\ rec'[cli[p].of] \in {rec[cli[p].of], NoRecord, cli[p].c, Created(cli[p].c),
                                 [cli[p].c EXCEPT !.status = "stopped"]}
<1> DEFINE f == cli[p]
<1>0. f # Idle /\ f \in Active
  BY FrameTypes
  DEF Step, At, RunAssembleFails, RunTap, Forward, RunNoKernel, BootFails,
      BootQEMU, RunRecord, RunRecordFails, Exited, RunReap, RunDestroyTap,
      RunRelease, RunRemove, StartTap, StartRecord, StopExited, StopKill,
      StopUnpublish, StopSave, RmKill, RmSave, RmRemove, Release
<1>1. /\ f.of \in Container /\ f.c \in Record /\ f.c.pid \in PID \cup {0}
      /\ cli \in [Proc -> Active \cup {Idle}]
      /\ rec \in [Container -> Record \cup {NoRecord}]
  BY <1>0 DEF Active, Record, TypeOK
<1>2. UNCHANGED machines => NoBirth
  BY DEF machines, NoBirth
<1>3. ASSUME NEW place \in Places, Goto(p, place)
      PROVE  /\ \A q \in Proc \ {p} : cli'[q] = cli[q]
             /\ cli'[p].of = f.of /\ cli'[p].cmd = f.cmd /\ cli'[p].c = f.c
  BY <1>0, <1>1, <1>3 DEF Goto, Active
<1>4. ASSUME End(p)
      PROVE  cli'[p] = Idle /\ \A q \in Proc \ {p} : cli'[q] = cli[q]
  BY <1>1, <1>4 DEF End
<1>5. ASSUME NEW c \in Record, Save(f.of, c)
      PROVE  /\ \A d \in Container \ {f.of} : rec'[d] = rec[d]
             /\ rec'[f.of] \in {rec[f.of], c}
  BY <1>1, <1>5 DEF Save
<1>6. [f.c EXCEPT !.status = "stopped"] \in Record
  BY <1>1 DEF Record, Status
<1> USE <1>0, <1>1
<1>7. CASE RunAssembleFails(p) \/ RunNoKernel(p) \/ RunRecordFails(p) \/ BootFails(p)
  BY <1>2, <1>4, <1>7
  DEF RunAssembleFails, RunNoKernel, RunRecordFails, BootFails, files
<1>8. CASE RunTap(p) \/ Forward(p)
  BY <1>2, <1>8 DEF RunTap, Forward, files, Active, Record
<1>9. CASE RunRecord(p)
  BY <1>2, <1>4, <1>9 DEF RunRecord, Create, Created, Active, Record
<1>10. CASE Exited(p)
  BY <1>2, <1>3, <1>4, <1>5, <1>6, <1>10 DEF Exited, Places
<1>11. CASE RunReap(p)
  BY <1>11, KillEffect DEF RunReap, files, Active
<1>12. CASE RunDestroyTap(p) \/ RunRelease(p)
  BY <1>2, <1>3, <1>12 DEF RunDestroyTap, RunRelease, files, Places
<1>13. CASE RunRemove(p) \/ RmRemove(p)
  BY <1>2, <1>3, <1>4, <1>13 DEF RunRemove, RmRemove, Remove, Places
<1>14. CASE StartTap(p)
  BY <1>2, <1>4, <1>14 DEF StartTap, files, Active, Record
<1>15. CASE StartRecord(p)
  BY <1>2, <1>3, <1>4, <1>5, <1>15 DEF StartRecord, Places
<1>16. CASE StopExited(p) \/ StopUnpublish(p) \/ Release(p)
  BY <1>2, <1>3, <1>16 DEF StopExited, StopUnpublish, Release, files, Places
<1>17. CASE StopKill(p) \/ RmKill(p)
  BY <1>3, <1>17, KillEffect DEF StopKill, RmKill, files, Places
<1>18. CASE StopSave(p) \/ RmSave(p)
  BY <1>2, <1>3, <1>4, <1>5, <1>6, <1>18 DEF StopSave, RmSave, Places
<1> QED
  BY <1>7, <1>8, <1>9, <1>10, <1>11, <1>12, <1>13, <1>14, <1>15, <1>16, <1>17,
     <1>18 DEF Step

(* What a new command knows, and that it changes nothing others read. *)
LEMMA IssueEffect ==
  ASSUME TypeOK, NEW p \in Proc, NEW id \in Container, Issue(p, id)
  PROVE  /\ cli[p] = Idle /\ (OnePerContainer => ~Busy(id))
         /\ \A q \in Proc \ {p} : cli'[q] = cli[q]
         /\ cli'[p] # Idle /\ cli'[p].of = id /\ cli'[p].tap = NoTap
         /\ \/ cli'[p].cmd = "run" /\ cli'[p].at = "tap" /\ cli'[p].c = NewRecord
            \/ /\ cli'[p].cmd = "start" /\ cli'[p].at = "tap" /\ cli'[p].c = rec[id]
               /\ rec[id].status \in {"stopped", "failed"}
            \/ /\ cli'[p].cmd = "stop" /\ cli'[p].at \in {"await", "kill"}
               /\ cli'[p].c = rec[id]
            \/ cli'[p].cmd = "rm" /\ cli'[p].at = "kill" /\ cli'[p].c = rec[id]
            \/ /\ cli'[p].cmd = "rm" /\ cli'[p].at = "release"
               /\ cli'[p].c = rec[id] /\ rec[id].status # "running"
         /\ UNCHANGED <<rec, machines, network>>
<1>1. ASSUME NEW f, Begin(p, f), f.cmd # "none", f.of = id
      PROVE  /\ cli[p] = Idle /\ (OnePerContainer => ~Busy(id))
             /\ cli'[p] = f /\ cli'[p] # Idle
             /\ \A q \in Proc \ {p} : cli'[q] = cli[q]
  BY <1>1 DEF Begin, TypeOK, Idle
<1>2. CASE \E attach, rm \in BOOLEAN, publish \in SUBSET Port :
             Run(p, id, attach, rm, publish)
  <2>1. PICK attach \in BOOLEAN, rm \in BOOLEAN, publish \in SUBSET Port :
          Run(p, id, attach, rm, publish)
    BY <1>2
  <2> DEFINE f == [Command("run", "tap", id, NewRecord) EXCEPT
                     !.attach = attach, !.rm = rm, !.publish = publish]
  <2>2. /\ f.cmd = "run" /\ f.at = "tap" /\ f.of = id /\ f.tap = NoTap
        /\ f.c = NewRecord
    BY DEF Command
  <2> QED
    BY <1>1, <2>1, <2>2 DEF Run
<1>3. CASE \E attach \in BOOLEAN : Start(p, id, attach)
  <2>1. PICK attach \in BOOLEAN : Start(p, id, attach)
    BY <1>3
  <2> DEFINE f == [Command("start", "tap", id, rec[id]) EXCEPT !.attach = attach]
  <2>2. /\ f.cmd = "start" /\ f.at = "tap" /\ f.of = id /\ f.tap = NoTap
        /\ f.c = rec[id]
    BY DEF Command
  <2> QED
    BY <1>1, <2>1, <2>2 DEF Start, files
<1>4. CASE Stop(p, id)
  BY <1>1, <1>4 DEF Stop, files, Command
<1>5. CASE \E force \in BOOLEAN : Rm(p, id, force)
  BY <1>1, <1>5 DEF Rm, files, Command
<1> QED
  BY <1>2, <1>3, <1>4, <1>5 DEF Issue

LEMMA PidStep == TypeOK /\ PidInv /\ [Next]_vars => PidInv'
<1> SUFFICES ASSUME TypeOK, PidInv, [Next]_vars PROVE PidInv'
  OBVIOUS
<1>0. /\ booted \in 0..MaxCommands /\ MaxCommands \in Nat
      /\ \A c \in Container : rec[c] \in Record \/ rec[c] = NoRecord
      /\ vm \in [PID -> VM \cup {Dead}]
      /\ cli \in [Proc -> Active \cup {Idle}]
  BY EnvironmentAssumption DEF TypeOK
<1>1. ASSUME NEW p \in Proc, NEW id \in Container, Issue(p, id) PROVE PidInv'
  <2>1. cli'[p].c \in {NewRecord, rec[id]} /\ NewRecord.pid = 0
    BY <1>1, IssueEffect DEF NewRecord, NoRecord
  <2> QED
    BY <1>0, <1>1, <2>1, IssueEffect DEF PidInv, Alive, PID, machines
<1>2. ASSUME NEW p \in Proc, Step(p), ~BootQEMU(p) PROVE PidInv'
  <2> DEFINE f == cli[p]
  <2>0. /\ f \in Active
        /\ \A c \in Container \ {f.of} : rec'[c] = rec[c]
        /\ rec'[f.of] \in {rec[f.of], NoRecord, f.c, Created(f.c),
                           [f.c EXCEPT !.status = "stopped"]}
    BY <1>2, StepEffect
  <2>1. f # Idle /\ f.of \in Container /\ f.c \in Record
    BY <2>0 DEF Active, Idle
  <2>2. ASSUME NEW c \in Container
        PROVE  \/ rec'[c].pid = rec[c].pid
               \/ rec'[c].pid = 0
               \/ c = f.of /\ rec'[c].pid = f.c.pid
    BY <2>0, <2>1 DEF NoRecord, Created, Record
  <2>3. \A pid : Alive(pid)' => Alive(pid) /\ vm'[pid] = vm[pid]
    BY <1>2, StepEffect DEF NoBirth, Alive
  <2>4. booted' = booted /\ \A pid \in PID : vm'[pid] \in {vm[pid], Dead}
    BY <1>2, StepEffect DEF NoBirth
  <2>5. /\ \A q \in Proc \ {p} : cli'[q] = cli[q]
        /\ cli'[p] # Idle => cli'[p].of = f.of /\ cli'[p].c.pid = f.c.pid
    BY <1>2, StepEffect
  <2>6. ~Alive(0)
    BY DEF Alive, PID
  <2> QED
    BY <1>0, <2>1, <2>2, <2>3, <2>4, <2>5, <2>6 DEF PidInv
<1>3. ASSUME NEW p \in Proc, BootQEMU(p) PROVE PidInv'
  <2> DEFINE f == cli[p]
  <2>1. f # Idle /\ f \in Active /\ f.of \in Container /\ f.c \in Record
    BY <1>0, <1>3 DEF BootQEMU, At, Active
  <2>2. /\ booted' = booted + 1 /\ booted + 1 \in PID
        /\ vm' = [vm EXCEPT ![booted + 1] = [of |-> f.of, ip |-> f.c.ip]]
        /\ rec' = rec
    BY <1>0, <1>3 DEF BootQEMU, Boot, PID, files
  <2>3. /\ \A q \in Proc \ {p} : cli'[q] = cli[q]
        /\ cli'[p].of = f.of /\ cli'[p].c.pid = booted + 1
    BY <1>0, <1>3, <2>1, <2>2 DEF BootQEMU, Active, Record
  <2>4. \A pid \in PID : pid # booted + 1 => vm'[pid] = vm[pid]
    BY <1>0, <2>2
  <2>5. vm'[booted + 1].of = f.of
    BY <1>0, <2>2
  <2>6. \A c \in Container : rec[c].pid \in Nat
    BY <1>0 DEF Record, NoRecord, PID
  <2>7. \A q \in Proc : cli[q] # Idle => cli[q].c.pid \in Nat
    BY <1>0 DEF Active, Record, PID
  <2>8. \A pid \in PID : pid > booted' => vm'[pid] = Dead
    BY <1>0, <2>2, <2>4 DEF PidInv, PID
  <2>9. ASSUME NEW c \in Container
        PROVE  /\ rec'[c].pid <= booted'
               /\ Alive(rec[c].pid)' => vm'[rec'[c].pid].of = c
    BY <1>0, <2>2, <2>4, <2>6 DEF PidInv, Alive
  <2>10. ASSUME NEW q \in Proc, cli'[q] # Idle
         PROVE  /\ cli'[q].c.pid <= booted'
                /\ Alive(cli[q].c.pid)' => vm'[cli'[q].c.pid].of = cli'[q].of
    <3>1. CASE q = p
      BY <1>0, <2>2, <2>3, <2>5, <3>1
    <3>2. CASE q # p
      BY <1>0, <2>2, <2>3, <2>4, <2>7, <2>10, <3>2 DEF PidInv, Alive
    <3> QED
      BY <3>1, <3>2
  <2> QED
    BY <2>8, <2>9, <2>10 DEF PidInv
<1>4. ASSUME NEW p \in Proc, Crash(p) PROVE PidInv'
  BY <1>0, <1>4 DEF Crash, PidInv, Alive, files, machines, Idle
<1>5. ASSUME NEW pid \in PID, GuestExits(pid) PROVE PidInv'
  <2>1. NoBirth /\ rec' = rec /\ cli' = cli
    BY <1>5, KillEffect DEF GuestExits, files
  <2>2. \A x : Alive(x)' => Alive(x) /\ vm'[x] = vm[x]
    BY <2>1 DEF NoBirth, Alive
  <2> QED
    BY <2>1, <2>2 DEF PidInv, NoBirth
<1>6. CASE Reboot
  BY <1>0, <1>6 DEF Reboot, PidInv, Alive, files
<1>7. CASE UNCHANGED vars
  BY <1>7 DEF vars, PidInv, Alive
<1> QED
  BY <1>1, <1>2, <1>3, <1>4, <1>5, <1>6, <1>7 DEF Next, Step

LEMMA StopStep == TypeOK /\ PidInv /\ StopInv /\ [Next]_vars => StopInv'
<1> SUFFICES ASSUME TypeOK, PidInv, StopInv, [Next]_vars PROVE StopInv'
  OBVIOUS
<1>0. /\ booted \in 0..MaxCommands /\ MaxCommands \in Nat
      /\ \A c \in Container : rec[c] \in Record \/ rec[c] = NoRecord
      /\ \A c \in Container : rec[c].pid \in Nat
      /\ \A q \in Proc : cli[q] # Idle => cli[q].c.pid \in Nat
      /\ vm \in [PID -> VM \cup {Dead}]
      /\ rec \in [Container -> Record \cup {NoRecord}]
      /\ cli \in [Proc -> Active \cup {Idle}]
  BY EnvironmentAssumption DEF TypeOK, Active, Record, NoRecord, PID
<1>1. ASSUME NEW p \in Proc, NEW id \in Container, Issue(p, id) PROVE StopInv'
  <2>1. /\ ~At(p, {"stop"}, {"unpublish", "release", "save"})'
        /\ ~At(p, {"rm"}, {"killed"})' /\ ~At(p, {"start"}, {"record", "wait"})'
    BY <1>1, IssueEffect DEF At
  <2> QED
    BY <1>1, <2>1, IssueEffect DEF StopInv, At, Alive, machines
<1>2. ASSUME NEW p \in Proc, Step(p), ~BootQEMU(p) PROVE StopInv'
  <2> DEFINE f == cli[p]
             g == cli'[p]
             halted == [f.c EXCEPT !.status = "stopped"]
  <2>1. /\ NoBirth /\ f \in Active /\ \A q \in Proc \ {p} : cli'[q] = cli[q]
        /\ \A c \in Container \ {f.of} : rec'[c] = rec[c]
        /\ g # Idle => g.cmd = f.cmd /\ g.c.pid = f.c.pid
    BY <1>2, StepEffect
  <2>2. f # Idle /\ f \in Active /\ f.of \in Container /\ f.c \in Record
    BY <2>1 DEF Active, Idle
  <2>3. \A pid : ~Alive(pid) => DeadNext(pid)
    BY <2>1 DEF NoBirth, Alive, DeadNext
  <2>4. ASSUME
          /\ rec'[f.of].status = "stopped" => DeadNext(rec'[f.of].pid)
          /\ \/ At(p, {"stop"}, {"unpublish", "release", "save"})'
             \/ At(p, {"rm"}, {"killed"})'
             => DeadNext(g.c.pid)
          /\ At(p, {"start"}, {"record", "wait"})' => g.c.status = "running"
        PROVE StopInv'
    <3>1. ASSUME NEW c \in Container, rec'[c].status = "stopped"
          PROVE  DeadNext(rec'[c].pid)
      BY <2>1, <2>2, <2>3, <2>4, <3>1 DEF StopInv
    <3>2. ASSUME NEW q \in Proc, q # p
          PROVE  /\ \/ At(q, {"stop"}, {"unpublish", "release", "save"})'
                    \/ At(q, {"rm"}, {"killed"})'
                    => DeadNext(cli'[q].c.pid)
                 /\ At(q, {"start"}, {"record", "wait"})'
                    => cli'[q].c.status = "running"
      BY <2>1, <2>3, <3>2 DEF StopInv, At
    <3> QED
      BY <2>4, <3>1, <3>2 DEF StopInv, DeadNext, Alive
  <2>5. rec' = rec => (rec'[f.of].status = "stopped" => DeadNext(rec'[f.of].pid))
    BY <2>2, <2>3 DEF StopInv
  <2> USE <2>2, <1>0
  <2>6. ASSUME NEW c \in Record, Save(f.of, c),
               c.status = "stopped" => ~Alive(c.pid)
        PROVE  rec'[f.of].status = "stopped" => DeadNext(rec'[f.of].pid)
    <3>1. rec'[f.of] = c \/ rec' = rec
      BY <2>6 DEF Save
    <3> QED
      BY <2>3, <2>5, <2>6, <3>1
  <2>7. halted \in Record /\ halted.pid = f.c.pid
    BY DEF Record, Status
  <2>8. CASE Exited(p) \/ StopSave(p) \/ RmSave(p)
    <3>1. ~Alive(f.c.pid) /\ Save(f.of, halted)
      BY <2>8 DEF Exited, StopSave, RmSave, StopInv, At
    <3>2. \/ g = Idle
          \/ g.at \in {"destroy", "release"} /\ g.cmd \in {"run", "rm", "start"}
      BY <2>8 DEF Exited, StopSave, RmSave, Goto, End, At, Active
    <3> QED
      BY <2>4, <2>6, <2>7, <3>1, <3>2 DEF At
  <2>9. CASE StartRecord(p)
    <3>1. f.c.status = "running" /\ Save(f.of, f.c)
      BY <2>9 DEF StartRecord, StopInv, At
    <3>2. g = Idle \/ (g.cmd = "start" /\ g.c = f.c)
      BY <2>9 DEF StartRecord, Goto, End, At, Active
    <3> QED
      BY <2>4, <2>6, <3>1, <3>2 DEF At
  <2>10. CASE RunRecord(p) \/ RunRemove(p) \/ RmRemove(p)
    <3>1. rec'[f.of].status # "stopped"
      BY <2>10 DEF RunRecord, Create, Created, RunRemove, RmRemove, Remove,
                  NoRecord, Record
    <3>2. f.cmd = "run" \/ g = Idle
      BY <2>10 DEF RunRecord, RunRemove, RmRemove, End, At
    <3> QED
      BY <2>1, <2>4, <3>1, <3>2 DEF At
  <2>11. CASE StopKill(p) \/ RmKill(p)
    <3>1. f.c.pid \in PID \cup {0} /\ rec' = rec
      BY <2>11 DEF StopKill, RmKill, files, Record
    <3>2. DeadNext(f.c.pid)
      BY <2>11, <3>1 DEF StopKill, RmKill, Kill, Alive, DeadNext
    <3>3. f.cmd \in {"stop", "rm"}
      BY <2>11 DEF StopKill, RmKill, At
    <3> QED
      BY <2>1, <2>4, <2>5, <3>1, <3>2, <3>3 DEF At
  <2>12. CASE StopExited(p) \/ StopUnpublish(p) \/ Release(p)
    <3>1. /\ rec' = rec /\ g.cmd = f.cmd /\ g.at \in {"unpublish", "release", "save", "remove"}
          /\ f.cmd = "stop" => ~Alive(f.c.pid)
      BY <2>12 DEF StopExited, StopUnpublish, Release, files, Goto, At, StopInv, Active
    <3>2. f.cmd \in {"stop", "rm"}
      BY <2>12 DEF StopExited, StopUnpublish, Release, At
    <3> QED
      BY <2>1, <2>2, <2>3, <2>4, <2>5, <3>1, <3>2 DEF At
  <2>13. CASE \/ RunAssembleFails(p) \/ RunNoKernel(p) \/ RunRecordFails(p)
              \/ RunTap(p) \/ RunReap(p) \/ RunDestroyTap(p) \/ RunRelease(p)
    <3>1. rec' = rec /\ f.cmd = "run"
      BY <2>13 DEF RunAssembleFails, RunNoKernel, RunRecordFails, RunTap, RunReap,
                   RunDestroyTap, RunRelease, files, At
    <3> QED
      BY <2>1, <2>4, <2>5, <3>1 DEF At
  <2>14. CASE BootFails(p) \/ Forward(p) \/ StartTap(p)
    <3>1. rec' = rec /\ f.cmd \in {"run", "start"} /\ (g = Idle \/ g.at \in {"boot", "forward"})
      BY <2>14 DEF BootFails, Forward, StartTap, files, At, End, Active
    <3> QED
      BY <2>1, <2>4, <2>5, <3>1 DEF At
  <2> QED
    BY <1>2, <2>8, <2>9, <2>10, <2>11, <2>12, <2>13, <2>14 DEF Step
<1>3. ASSUME NEW p \in Proc, BootQEMU(p) PROVE StopInv'
  <2>1. /\ booted + 1 \in PID /\ rec' = rec
        /\ \A pid \in PID : pid # booted + 1 => vm'[pid] = vm[pid]
    BY <1>0, <1>3 DEF BootQEMU, Boot, PID, files
  <2>2. /\ \A q \in Proc \ {p} : cli'[q] = cli[q]
        /\ cli'[p].cmd \in {"run", "start"} /\ cli'[p].c.status = "running"
    <3>1. /\ cli[p] \in Active /\ cli[p].c \in Record
          /\ cli[p].cmd \in {"run", "start"}
      BY <1>0, <1>3 DEF BootQEMU, At, Active
    <3>2. cli' = [cli EXCEPT ![p] = [cli[p] EXCEPT !.at = "record",
                    !.c = [cli[p].c EXCEPT !.pid = booted', !.status = "running"]]]
      BY <1>3, <3>1 DEF BootQEMU, Active, Record
    <3> QED
      BY <1>0, <3>1, <3>2 DEF Active, Record
  <2>3. ASSUME NEW pid \in Nat, pid <= booted, ~Alive(pid) PROVE DeadNext(pid)
    BY <1>0, <2>1, <2>3 DEF Alive, DeadNext
  <2>4. ASSUME NEW c \in Container, rec'[c].status = "stopped"
        PROVE  DeadNext(rec'[c].pid)
    BY <1>0, <2>1, <2>3, <2>4 DEF StopInv, PidInv
  <2>5. ASSUME NEW q \in Proc, q # p
        PROVE  /\ \/ At(q, {"stop"}, {"unpublish", "release", "save"})'
                  \/ At(q, {"rm"}, {"killed"})'
                  => DeadNext(cli'[q].c.pid)
               /\ At(q, {"start"}, {"record", "wait"})'
                  => cli'[q].c.status = "running"
    BY <1>0, <2>2, <2>3, <2>5 DEF StopInv, PidInv, At
  <2> QED
    BY <2>2, <2>4, <2>5 DEF StopInv, At, DeadNext, Alive
<1>4. ASSUME NEW p \in Proc, Crash(p) PROVE StopInv'
  BY <1>0, <1>4 DEF Crash, StopInv, Alive, files, machines, Idle, At
<1>5. ASSUME NEW pid \in PID, GuestExits(pid) PROVE StopInv'
  <2>1. NoBirth /\ rec' = rec /\ cli' = cli
    BY <1>5, KillEffect DEF GuestExits, files
  <2>2. \A x : Alive(x)' => Alive(x)
    BY <2>1 DEF NoBirth, Alive
  <2> QED
    BY <2>1, <2>2 DEF StopInv, At
<1>6. CASE Reboot
  BY <1>0, <1>6 DEF Reboot, StopInv, Alive, files, At
<1>7. CASE UNCHANGED vars
  BY <1>7 DEF vars, StopInv, Alive, At
<1> QED
  BY <1>1, <1>2, <1>3, <1>4, <1>5, <1>6, <1>7 DEF Next, Step

(* However commands interleave, crash or fail, no record says "stopped" of *)
(* a process that still runs: no command writes it before it waited for or *)
(* killed the process, and process IDs are not reused.                     *)
THEOREM StoppedIsDead == Spec => []StoppedNamesDeadProcess
<1> DEFINE Inv == TypeOK /\ PidInv /\ StopInv
<1>1. Init => Inv
  BY BaseInit DEF BaseInv
<1>2. Inv /\ [Next]_vars => Inv'
  BY TypeStep, PidStep, StopStep
<1>3. Inv => StoppedNamesDeadProcess
  BY DEF StopInv, StoppedNamesDeadProcess
<1> QED
  BY <1>1, <1>2, <1>3, PTL DEF Spec

LEMMA TapStep == TypeOK /\ TapInv /\ [Next]_vars => TapInv'
<1> SUFFICES ASSUME TypeOK, TapInv, [Next]_vars PROVE TapInv'
  OBVIOUS
<1>0. cli \in [Proc -> Active \cup {Idle}]
  BY DEF TypeOK
<1>1. ASSUME NEW p \in Proc, NEW id \in Container, Issue(p, id) PROVE TapInv'
  BY <1>1, IssueEffect DEF TapInv
<1>2. ASSUME NEW p \in Proc, Step(p), ~BootQEMU(p) PROVE TapInv'
  <2> DEFINE f == cli[p]
             g == cli'[p]
  <2>1. /\ f \in Active /\ \A q \in Proc \ {p} : cli'[q] = cli[q]
        /\ g # Idle => g.of = f.of
    BY <1>2, StepEffect
  <2>2. f # Idle /\ f.of \in Container
    BY <2>1 DEF Active, Idle
  <2>3. ASSUME g # Idle => g.tap \in {NoTap, f.tap, TapName[f.of]} PROVE TapInv'
    BY <2>1, <2>2, <2>3 DEF TapInv
  <2> USE <1>0, <2>1, <2>2
  <2>4. ASSUME NEW place, Goto(p, place) PROVE g.tap = f.tap
    BY <2>4 DEF Goto, Active
  <2>5. End(p) => g = Idle
    BY DEF End
  <2>6. CASE \/ RunAssembleFails(p) \/ RunNoKernel(p) \/ BootFails(p)
             \/ RunRecordFails(p) \/ Exited(p) \/ RunDestroyTap(p)
             \/ RunRelease(p) \/ RunRemove(p) \/ StartRecord(p) \/ StopExited(p)
             \/ StopKill(p) \/ StopUnpublish(p) \/ StopSave(p) \/ RmKill(p)
             \/ RmSave(p) \/ RmRemove(p) \/ Release(p)
    <3>1. End(p) \/ \E place \in Places : Goto(p, place)
      BY <2>6
      DEF RunAssembleFails, RunNoKernel, BootFails, RunRecordFails, Exited,
          RunDestroyTap, RunRelease, RunRemove, StartRecord, StopExited,
          StopKill, StopUnpublish, StopSave, RmKill, RmSave, RmRemove, Release,
          Places
    <3> QED
      BY <2>3, <2>4, <2>5, <3>1
  <2>7. CASE RunTap(p) \/ StartTap(p)
    <3>1. g = Idle \/ g.tap \in {NoTap, TapName[f.of]}
      BY <2>5, <2>7 DEF RunTap, StartTap, Active
    <3> QED
      BY <2>3, <3>1
  <2>8. CASE Forward(p) \/ RunReap(p) \/ RunRecord(p)
    <3>1. g = Idle \/ g.tap = f.tap
      BY <2>5, <2>8 DEF Forward, RunReap, RunRecord, Active
    <3> QED
      BY <2>3, <3>1
  <2> QED
    BY <1>2, <2>6, <2>7, <2>8 DEF Step
<1>3. ASSUME NEW p \in Proc, BootQEMU(p) PROVE TapInv'
  <2>1. /\ cli[p] # Idle /\ \A q \in Proc \ {p} : cli'[q] = cli[q]
        /\ cli'[p].tap = cli[p].tap /\ cli'[p].of = cli[p].of
    BY <1>0, <1>3 DEF BootQEMU, At, Active
  <2> QED
    BY <2>1 DEF TapInv
<1>4. ASSUME NEW p \in Proc, Crash(p) PROVE TapInv'
  BY <1>0, <1>4 DEF Crash, TapInv
<1>5. CASE Reboot \/ UNCHANGED vars \/ \E pid \in PID : GuestExits(pid)
  BY <1>5 DEF Reboot, vars, GuestExits, TapInv
<1> QED
  BY <1>1, <1>2, <1>3, <1>4, <1>5 DEF Next, Step

-----------------------------------------------------------------------------
(* What holds when each container has one command at a time and the first  *)
(* 12 characters of names differ.                                          *)

Injective == \A c, d \in Container : TapName[c] = TapName[d] => c = d

(* A machine belongs to the container that started it, and only a step of  *)
(* that container's commands starts or kills it.                           *)
LEMMA MachinesApart ==
  ASSUME TypeOK, PidInv, NEW p \in Proc, Step(p),
         NEW d \in Container, d # cli[p].of
  PROVE  VMsOf(d)' = VMsOf(d)
<1> DEFINE f == cli[p]
<1>0. /\ booted \in 0..MaxCommands /\ MaxCommands \in Nat
      /\ vm \in [PID -> VM \cup {Dead}]
      /\ cli \in [Proc -> Active \cup {Idle}]
  BY EnvironmentAssumption DEF TypeOK
<1>1. ASSUME At(p, {"run", "start", "stop", "rm"}, Places), Kill(f.c.pid)
      PROVE  VMsOf(d)' = VMsOf(d)
  BY <1>0, <1>1 DEF At, Kill, PidInv, Alive, VMsOf
<1>2. CASE RunReap(p) \/ StopKill(p) \/ RmKill(p)
  BY <1>1, <1>2 DEF RunReap, StopKill, RmKill, At, Places
<1>3. CASE BootQEMU(p)
  <2>1. /\ booted + 1 \in PID /\ vm[booted + 1] = Dead
        /\ vm' = [vm EXCEPT ![booted + 1] = [of |-> f.of, ip |-> f.c.ip]]
    BY <1>0, <1>3 DEF BootQEMU, Boot, PidInv, PID
  <2> QED
    BY <1>0, <2>1 DEF VMsOf
<1>4. ASSUME vm' = vm PROVE VMsOf(d)' = VMsOf(d)
  BY <1>4 DEF VMsOf
<1>5. CASE ~(RunReap(p) \/ StopKill(p) \/ RmKill(p) \/ BootQEMU(p))
  BY <1>4, <1>5
  DEF Step, RunAssembleFails, RunTap, Forward, RunNoKernel, BootFails,
      RunRecord, RunRecordFails, Exited, RunDestroyTap, RunRelease, RunRemove,
      StartTap, StartRecord, StopExited, StopUnpublish, StopSave, RmSave,
      RmRemove, Release, machines
<1> QED
  BY <1>2, <1>3, <1>5

LEMMA DevicesApart ==
  ASSUME Injective, TypeOK, TapInv, NEW p \in Proc, Step(p),
         NEW d \in Container, d # cli[p].of
  PROVE  /\ lease'[d] = lease[d]
         /\ (TapName[d] \in taps) = (TapName[d] \in taps')
<1> DEFINE f == cli[p]
<1>0. f \in Active /\ f # Idle
  BY FrameTypes
  DEF Step, At, RunAssembleFails, RunTap, Forward, RunNoKernel, BootFails,
      BootQEMU, RunRecord, RunRecordFails, Exited, RunReap, RunDestroyTap,
      RunRelease, RunRemove, StartTap, StartRecord, StopExited, StopKill,
      StopUnpublish, StopSave, RmKill, RmSave, RmRemove, Release
<1>1. /\ f.of \in Container /\ lease \in [Container -> Address \cup {NoIP}]
      /\ TapName[d] # TapName[f.of] /\ TapName[d] # NoTap
      /\ f.tap \in {NoTap, TapName[f.of]}
  BY <1>0, NamesAssumption DEF Active, TypeOK, TapInv, Injective
<1>2. ASSUME TapExists(f.of) \/ TapCreated(f.of) \/ TapFails(f.of)
      PROVE  /\ lease'[d] = lease[d]
             /\ (TapName[d] \in taps) = (TapName[d] \in taps')
  BY <1>1, <1>2 DEF TapExists, TapCreated, TapFails
<1>3. CASE RunTap(p) \/ StartTap(p)
  BY <1>2, <1>3 DEF RunTap, StartTap
<1>4. CASE BootFails(p) \/ RunDestroyTap(p)
  BY <1>1, <1>4 DEF BootFails, RunDestroyTap
<1>5. CASE RunRelease(p) \/ Release(p)
  BY <1>1, <1>5 DEF RunRelease, Release, ReleaseIP
<1>6. CASE ~(RunTap(p) \/ StartTap(p) \/ BootFails(p) \/ RunDestroyTap(p)
              \/ RunRelease(p) \/ Release(p))
  BY <1>6
  DEF Step, RunAssembleFails, Forward, RunNoKernel, BootQEMU, RunRecord,
      RunRecordFails, Exited, RunReap, RunRemove, StartRecord, StopExited,
      StopKill, StopUnpublish, StopSave, RmKill, RmSave, RmRemove, network
<1> QED
  BY <1>3, <1>4, <1>5, <1>6

LEMMA FilesApart ==
  ASSUME TypeOK, NEW p \in Proc, Step(p), NEW d \in Container, d # cli[p].of
  PROVE  rec'[d] = rec[d] /\ (d \in dirs) = (d \in dirs')
<1> DEFINE f == cli[p]
<1>1. rec \in [Container -> Record \cup {NoRecord}] /\ cli[p] \in Active \cup {Idle}
  BY DEF TypeOK
<1>2. ASSUME NEW c, Save(f.of, c) \/ Create(f.of, c) \/ Remove(f.of) \/ UNCHANGED files
      PROVE  rec'[d] = rec[d] /\ (d \in dirs) = (d \in dirs')
  BY <1>1, <1>2 DEF Save, Create, Remove, files
<1>3. \E c : Save(f.of, c) \/ Create(f.of, c) \/ Remove(f.of) \/ UNCHANGED files
  BY DEF Step, RunAssembleFails, RunTap, Forward, RunNoKernel, BootFails,
         BootQEMU, RunRecord, RunRecordFails, Exited, RunReap, RunDestroyTap,
         RunRelease, RunRemove, StartTap, StartRecord, StopExited, StopKill,
         StopUnpublish, StopSave, RmKill, RmSave, RmRemove, Release
<1> QED
  BY <1>2, <1>3

(* When no two containers share the first 12 characters of their names, a  *)
(* command touches nothing of any container but its own: records, machines,*)
(* addresses and devices stay apart although the stores are shared and     *)
(* nothing is locked, in every interleaving.                               *)
THEOREM ContainersAreIsolated == Injective => (Spec => Isolation)
<1> SUFFICES ASSUME Injective PROVE Spec => Isolation
  OBVIOUS
<1> DEFINE Inv == TypeOK /\ PidInv /\ TapInv
           Apart ==
             \A p \in Proc : cli[p] # Idle /\ cli'[p] # cli[p] /\ reboots' = reboots =>
               \A d \in Container \ {cli[p].of} :
                 /\ rec'[d] = rec[d] /\ lease'[d] = lease[d] /\ VMsOf(d)' = VMsOf(d)
                 /\ (d \in dirs) = (d \in dirs')
                 /\ (TapName[d] \in taps) = (TapName[d] \in taps')
<1>1. Init => Inv
  BY BaseInit DEF BaseInv
<1>2. Inv /\ [Next]_vars => Inv'
  BY TypeStep, PidStep, TapStep
<1>3. Inv /\ [Next]_vars => [Apart]_vars
  <2> SUFFICES ASSUME Inv, [Next]_vars, NEW p \in Proc, cli[p] # Idle,
                      cli'[p] # cli[p], reboots' = reboots,
                      NEW d \in Container, d # cli[p].of
               PROVE  /\ rec'[d] = rec[d] /\ lease'[d] = lease[d]
                      /\ VMsOf(d)' = VMsOf(d) /\ (d \in dirs) = (d \in dirs')
                      /\ (TapName[d] \in taps) = (TapName[d] \in taps')
    OBVIOUS
  <2>1. CASE Step(p)
    BY <2>1, MachinesApart, DevicesApart, FilesApart
  <2>2. CASE Crash(p)
    BY <2>2 DEF Crash, files, machines, network, VMsOf
  <2>3. ASSUME NEW q \in Proc, q # p, Step(q) \/ Crash(q) PROVE FALSE
    <3>1. CASE Crash(q)
      BY <2>3, <3>1 DEF Crash, TypeOK
    <3>2. CASE Step(q) /\ ~BootQEMU(q)
      BY <2>3, <3>2, StepEffect
    <3>3. CASE BootQEMU(q)
      BY <2>3, <3>3 DEF BootQEMU, TypeOK
    <3> QED
      BY <2>3, <3>1, <3>2, <3>3
  <2>4. ASSUME NEW q \in Proc, NEW id \in Container, Issue(q, id) PROVE FALSE
    BY <2>4, IssueEffect
  <2>5. CASE Reboot
    BY <2>5 DEF Reboot, TypeOK
  <2>6. CASE UNCHANGED vars \/ \E pid \in PID : GuestExits(pid)
    BY <2>6 DEF vars, GuestExits
  <2> QED
    BY <2>1, <2>2, <2>3, <2>4, <2>5, <2>6 DEF Next
<1> QED
  BY <1>1, <1>2, <1>3, PTL DEF Spec, Isolation

(***************************************************************************)
(* From here on users run one command at a time per container.             *)
(***************************************************************************)

OneInv ==
  \A p, q \in Proc :
    cli[p] # Idle /\ cli[q] # Idle /\ cli[p].of = cli[q].of => p = q

LeaseInv ==
  \A c, d \in Container : lease[c] = lease[d] /\ lease[c] # NoIP => c = d

(* The device of a running container is there too: that is why a run that  *)
(* reuses the name of a running container gets no second address.          *)
Owns(c) ==
  Running(c) => lease[c] = rec[c].ip /\ rec[c].ip # NoIP /\ TapName[c] \in taps

(* What a command knows about its container c at each of its places. *)
RunFits(p, c) ==
  cli[p].cmd = "run" =>
    /\ cli[p].at \in {"forward", "boot"} => ~cli[p].net \/ ~Running(c)
    /\ cli[p].at \in {"wait", "reap", "destroy", "release", "remove"} =>
         rec[c].status # "running"
StartFits(p, c) ==
  cli[p].cmd = "start" =>
    /\ cli[p].at \in {"tap", "forward", "boot", "record"} =>
         rec[c].status \in {"stopped", "failed"}
    /\ cli[p].at \in {"forward", "boot", "record"} =>
         /\ cli[p].c.ip # NoIP /\ lease[c] = cli[p].c.ip
         /\ TapName[c] \in taps
HaltFits(p, c) ==
  /\ cli[p].cmd = "stop" \/ (cli[p].cmd = "rm" /\ cli[p].at \in {"kill", "killed"})
       => rec[c] = cli[p].c
  /\ cli[p].cmd = "rm" /\ cli[p].at \in {"release", "remove"} => ~Running(c)
Fits(p, c) == RunFits(p, c) /\ StartFits(p, c) /\ HaltFits(p, c)

OwnInv ==
  /\ OneInv /\ LeaseInv
  /\ \A c \in Container : Owns(c)
  /\ \A p \in Proc, c \in Container :
       cli[p] # Idle /\ cli[p].of = c => Fits(p, c)

LEMMA OwnInit == Init => OwnInv
BY DEF Init, OwnInv, OneInv, LeaseInv, Owns, Fits, Running, NoRecord

(* A step brings no recorded machine to life. *)
LEMMA NoneRevived ==
  ASSUME TypeOK, PidInv, NEW p \in Proc, Step(p),
         NEW d \in Container, rec'[d] = rec[d]
  PROVE  Running(d)' => Running(d)
<1>1. CASE BootQEMU(p)
  <2>1. /\ booted \in 0..MaxCommands /\ MaxCommands \in Nat
        /\ vm \in [PID -> VM \cup {Dead}] /\ rec[d].pid <= booted
        /\ rec[d].pid \in Nat
    BY EnvironmentAssumption DEF TypeOK, PidInv, Record, NoRecord, PID
  <2>2. \A pid \in PID : pid # booted + 1 => vm'[pid] = vm[pid]
    BY <1>1, <2>1 DEF BootQEMU, Boot
  <2> QED
    BY <2>1, <2>2 DEF Running, Alive
<1>2. CASE ~BootQEMU(p)
  <2>1. NoBirth
    BY <1>2, StepEffect
  <2> QED
    BY <2>1 DEF NoBirth, Running, Alive
<1> QED
  BY <1>1, <1>2

(* One step of a command on its container id. *)
LEMMA OwnStep ==
  ASSUME TypeOK, PidInv, StopInv, TapInv, NEW p \in Proc, Step(p),
         NEW id \in Container, id = cli[p].of, Owns(id), Fits(p, id)
  PROVE  /\ Owns(id)'
         /\ cli'[p] # Idle => Fits(p, id)'
         /\ \/ lease'[id] \in {lease[id], NoIP}
            \/ \A c \in Container : lease[c] # lease'[id]
<1> DEFINE f == cli[p]
           g == cli'[p]
<1>0. /\ f \in Active /\ f # Idle /\ f.of = id
      /\ f.c \in Record /\ f.c.pid \in PID \cup {0} /\ f.tap \in {NoTap, TapName[id]}
      /\ cli \in [Proc -> Active \cup {Idle}]
      /\ rec \in [Container -> Record \cup {NoRecord}]
      /\ lease \in [Container -> Address \cup {NoIP}]
      /\ rec[id].status \in {"created", "running", "stopped", "failed", "none"}
      /\ TapName[id] # NoTap /\ NoIP \notin Address
  <2>1. f \in Active /\ f # Idle
    BY FrameTypes
    DEF Step, At, RunAssembleFails, RunTap, Forward, RunNoKernel, BootFails,
        BootQEMU, RunRecord, RunRecordFails, Exited, RunReap, RunDestroyTap,
        RunRelease, RunRemove, StartTap, StartRecord, StopExited, StopKill,
        StopUnpublish, StopSave, RmKill, RmSave, RmRemove, Release
  <2> QED
    BY <2>1, NamesAssumption
    DEF TypeOK, TapInv, Active, Record, Status, NoRecord
<1>1. ASSUME rec' = rec PROVE Running(id)' => Running(id)
  BY <1>1, NoneRevived
<1>2. ASSUME NEW place \in Places, Goto(p, place)
      PROVE  g.of = id /\ g.cmd = f.cmd /\ g.c = f.c /\ g.net = f.net /\ g.at = place
  BY <1>0, <1>2 DEF Goto, Active
<1>3. End(p) => g = Idle
  BY <1>0 DEF End
<1>4. ASSUME rec' = rec, lease' = lease, TapName[id] \in taps => TapName[id] \in taps'
      PROVE  Owns(id)'
  BY <1>1, <1>4 DEF Owns
<1>5. ASSUME NEW c \in Record, Save(id, c), lease' = lease, taps' = taps,
             c.status # "running"
      PROVE  /\ Owns(id)' /\ (rec'[id] = rec[id] \/ rec'[id] = c)
             /\ rec[id].status # "running" => rec'[id].status # "running"
  <2>1. rec' = rec \/ rec'[id] = c
    BY <1>0, <1>5 DEF Save
  <2>2. rec'[id] = c => ~Running(id)'
    BY <1>5 DEF Running
  <2> QED
    BY <1>4, <1>5, <2>1, <2>2 DEF Owns
<1>6. /\ [f.c EXCEPT !.status = "stopped"] \in Record
      /\ [f.c EXCEPT !.status = "stopped"].status = "stopped"
      /\ Created(f.c) \in Record /\ Created(f.c).status = "created"
  BY <1>0 DEF Record, Status, Created
<1>7. rec[id].status # "running" => ~Running(id)
  BY DEF Running
<1> USE <1>0 DEF At, Fits
<1>8. CASE RunAssembleFails(p) \/ RunNoKernel(p) \/ RunRecordFails(p)
  BY <1>3, <1>4, <1>8
  DEF RunAssembleFails, RunNoKernel, RunRecordFails, files, network
<1>9. CASE RunTap(p)
  <2>1. /\ rec' = rec /\ g.cmd = "run" /\ g.at = "forward" /\ g.of = id
    BY <1>9 DEF RunTap, files, Active
  <2>2. CASE TapExists(id) /\ ~g.net
    BY <1>4, <2>1, <2>2 DEF TapExists, RunFits, StartFits, HaltFits
  <2>3. CASE TapFails(id) /\ ~g.net
    BY <1>4, <2>1, <2>3 DEF TapFails, RunFits, StartFits, HaltFits
  <2>4. CASE TapCreated(id)
    <3>1. ~Running(id) /\ ~Running(id)'
      BY <1>1, <2>1, <2>4 DEF TapCreated, Owns
    <3>2. \A c \in Container : lease[c] # lease'[id]
      BY <2>4 DEF TapCreated
    <3> QED
      BY <2>1, <3>1, <3>2 DEF Owns, RunFits, StartFits, HaltFits
  <2> QED
    BY <1>9, <2>2, <2>3, <2>4 DEF RunTap, Active
<1>10. CASE Forward(p)
  <2>1. /\ UNCHANGED <<rec, lease, taps>> /\ f.at = "forward"
        /\ g.cmd = f.cmd /\ g.at = "boot" /\ g.net = f.net /\ g.c.ip = f.c.ip
        /\ f.cmd \in {"run", "start"}
    BY <1>10 DEF Forward, files, Active, Record
  <2> QED
    BY <1>1, <1>4, <2>1 DEF RunFits, StartFits, HaltFits
<1>11. CASE BootFails(p)
  <2>1. /\ UNCHANGED <<rec, lease>> /\ g = Idle /\ f.at = "boot"
        /\ f.cmd \in {"run", "start"} /\ (~f.net => taps' = taps)
    BY <1>3, <1>11 DEF BootFails, files
  <2>2. Running(id) => taps' = taps
    BY <1>7, <2>1 DEF RunFits, StartFits
  <2>3. Owns(id)'
    BY <1>1, <2>1, <2>2 DEF Owns
  <2> QED
    BY <2>1, <2>3
<1>12. CASE BootQEMU(p)
  <2>1. /\ UNCHANGED <<rec, lease, taps>> /\ f.at = "boot"
        /\ g.cmd = f.cmd /\ g.at = "record" /\ g.c.ip = f.c.ip
        /\ f.cmd \in {"run", "start"}
    BY <1>12 DEF BootQEMU, files, network, Active, Record
  <2> QED
    BY <1>1, <1>4, <2>1 DEF RunFits, StartFits, HaltFits
<1>13. CASE RunRecord(p)
  <2>1. /\ rec'[id].status = "created" /\ UNCHANGED <<lease, taps>>
        /\ g = Idle \/ (g.cmd = "run" /\ g.at \in {"wait", "reap"})
    BY <1>3, <1>6, <1>13 DEF RunRecord, Create, network, Active
  <2>2. Owns(id)'
    BY <2>1 DEF Owns, Running
  <2> QED
    BY <2>1, <2>2 DEF RunFits, StartFits, HaltFits
<1>14. CASE Exited(p)
  <2>1. /\ Save(id, [f.c EXCEPT !.status = "stopped"]) /\ UNCHANGED <<lease, taps>>
        /\ g = Idle \/ (g.cmd = f.cmd /\ g.at = "destroy")
        /\ f.cmd \in {"run", "start"} /\ f.at = "wait"
    BY <1>2, <1>3, <1>14 DEF Exited, network, Places
  <2>2. /\ Owns(id)'
        /\ rec[id].status # "running" => rec'[id].status # "running"
    BY <1>5, <1>6, <2>1
  <2> QED
    BY <2>1, <2>2 DEF RunFits, StartFits, HaltFits
<1>15. CASE RunReap(p) \/ RunDestroyTap(p) \/ RunRelease(p)
  <2>1. /\ rec' = rec /\ g.cmd = "run" /\ f.cmd = "run"
        /\ f.at \in {"reap", "destroy", "release"}
        /\ g.at \in {"destroy", "release", "remove"}
    BY <1>2, <1>15 DEF RunReap, RunDestroyTap, RunRelease, files, Places, Active
  <2>2. ~Running(id)' /\ rec'[id].status # "running"
    BY <1>1, <1>7, <2>1 DEF RunFits
  <2>3. lease'[id] \in {lease[id], NoIP}
    BY <1>15 DEF RunReap, RunDestroyTap, RunRelease, ReleaseIP, network
  <2> QED
    BY <2>1, <2>2, <2>3 DEF Owns, RunFits, StartFits, HaltFits
<1>16. CASE RunRemove(p) \/ RmRemove(p)
  <2>1. /\ rec'[id].status = "none" /\ UNCHANGED <<lease, taps>>
        /\ g = Idle \/ (g.cmd = "run" /\ g.at = "reap")
    BY <1>2, <1>3, <1>16
    DEF RunRemove, RmRemove, Remove, NoRecord, network, Places
  <2>2. Owns(id)'
    BY <2>1 DEF Owns, Running
  <2> QED
    BY <2>1, <2>2 DEF RunFits, StartFits, HaltFits
<1>17. CASE StartTap(p)
  <2>1. /\ rec' = rec /\ f.cmd = "start" /\ f.at = "tap"
    BY <1>17 DEF StartTap, files
  <2>2. rec[id].status \in {"stopped", "failed"} /\ ~Running(id) /\ ~Running(id)'
    BY <1>1, <1>7, <2>1 DEF StartFits
  <2>3. CASE (TapExists(id) \/ TapFails(id)) /\ End(p)
    BY <1>3, <2>2, <2>3 DEF TapExists, TapFails, Owns
  <2>4. CASE /\ TapCreated(id)
             /\ cli' = [cli EXCEPT ![p].at = "forward", ![p].tap = TapName[id],
                                   ![p].net = TRUE, ![p].c.ip = lease'[id]]
    <3>1. PICK i \in Address : (\A c \in Container : lease[c] # i)
                               /\ lease' = [lease EXCEPT ![id] = i]
      BY <2>4 DEF TapCreated
    <3>2. /\ g.cmd = "start" /\ g.at = "forward" /\ g.c.ip = lease'[id] /\ g.of = id
          /\ TapName[id] \in taps'
      BY <2>1, <2>4 DEF TapCreated, Active, Record
    <3> QED
      BY <2>1, <2>2, <3>1, <3>2 DEF Owns, RunFits, StartFits, HaltFits
  <2> QED
    BY <1>17, <2>3, <2>4 DEF StartTap
<1>18. CASE StartRecord(p)
  <2>1. /\ Save(id, f.c) /\ UNCHANGED <<lease, taps>>
        /\ f.cmd = "start" /\ f.at = "record"
        /\ g = Idle \/ (g.cmd = "start" /\ g.at = "wait")
    BY <1>2, <1>3, <1>18 DEF StartRecord, network, Places
  <2>2. rec' = rec \/ rec'[id] = f.c
    BY <2>1 DEF Save
  <2>3. Owns(id)'
    BY <1>4, <2>1, <2>2 DEF StartFits, Owns
  <2> QED
    BY <2>1, <2>3 DEF RunFits, StartFits, HaltFits
<1>19. CASE StopExited(p) \/ StopUnpublish(p) \/ StopKill(p) \/ RmKill(p)
  <2>1. /\ UNCHANGED <<rec, lease, taps>> /\ g.c = f.c /\ g.cmd = f.cmd
        /\ \/ f.cmd = "stop"
           \/ f.cmd = "rm" /\ f.at = "kill" /\ g.at = "killed"
    BY <1>2, <1>19
    DEF StopExited, StopUnpublish, StopKill, RmKill, files, network, Places
  <2> QED
    BY <1>4, <2>1 DEF RunFits, StartFits, HaltFits
<1>20. CASE Release(p)
  <2>1. /\ rec' = rec /\ taps' = taps /\ lease'[id] \in {lease[id], NoIP}
        /\ f.cmd \in {"stop", "rm"} /\ f.at = "release" /\ g.c = f.c
        /\ g.cmd = f.cmd /\ (f.cmd = "rm" => g.at = "remove")
    BY <1>2, <1>20 DEF Release, ReleaseIP, files, Places
  <2>2. ~Running(id)
    BY <2>1 DEF HaltFits, StopInv, Running
  <2> QED
    BY <1>1, <2>1, <2>2 DEF Owns, RunFits, StartFits, HaltFits
<1>21. CASE StopSave(p)
  <2>1. /\ Save(id, [f.c EXCEPT !.status = "stopped"]) /\ UNCHANGED <<lease, taps>>
        /\ g = Idle
    BY <1>3, <1>21 DEF StopSave, network
  <2> QED
    BY <1>5, <1>6, <2>1
<1>22. CASE RmSave(p)
  <2>1. /\ Save(id, [f.c EXCEPT !.status = "stopped"]) /\ UNCHANGED <<lease, taps>>
        /\ g.cmd = "rm" /\ g.at = "release" /\ f.cmd = "rm" /\ f.at = "killed"
    BY <1>2, <1>22 DEF RmSave, network, Places
  <2>2. rec' = rec \/ rec'[id] = [f.c EXCEPT !.status = "stopped"]
    BY <2>1 DEF Save
  <2>3. ~Running(id)
    BY <2>1 DEF HaltFits, StopInv, Running
  <2>4. ~Running(id)'
    <3>1. CASE rec' = rec
      BY <1>1, <2>3, <3>1
    <3>2. CASE rec'[id] = [f.c EXCEPT !.status = "stopped"]
      BY <1>6, <3>2 DEF Running
    <3> QED
      BY <2>2, <3>1, <3>2
  <2> QED
    BY <2>1, <2>4 DEF Owns, RunFits, StartFits, HaltFits
<1> QED
  BY <1>8, <1>9, <1>10, <1>11, <1>12, <1>13, <1>14, <1>15, <1>16, <1>17, <1>18,
     <1>19, <1>20, <1>21, <1>22 DEF Step

(* A step that leaves the files, address and device of c alone and brings  *)
(* no recorded machine to life keeps what is known of c.                   *)
LEMMA OwnKept ==
  ASSUME NEW c \in Container, rec'[c] = rec[c], lease'[c] = lease[c],
         (TapName[c] \in taps) = (TapName[c] \in taps'),
         Running(c)' => Running(c)
  PROVE  /\ Owns(c) => Owns(c)'
         /\ \A q \in Proc : cli'[q] = cli[q] /\ Fits(q, c) => Fits(q, c)'
<1>1. Owns(c) => Owns(c)'
  BY DEF Owns
<1>2. ASSUME NEW q \in Proc, cli'[q] = cli[q], Fits(q, c)
      PROVE  Fits(q, c)'
  BY <1>2 DEF Fits, RunFits, StartFits, HaltFits
<1> QED
  BY <1>1, <1>2

LEMMA StepIsLocal ==
  ASSUME TypeOK, NEW p \in Proc, Step(p)
  PROVE  /\ cli[p] \in Active /\ cli[p] # Idle
         /\ \A q \in Proc \ {p} : cli'[q] = cli[q]
         /\ cli'[p] # Idle => cli'[p].of = cli[p].of
<1>1. cli[p] \in Active /\ cli[p] # Idle
  BY FrameTypes
  DEF Step, At, RunAssembleFails, RunTap, Forward, RunNoKernel, BootFails,
      BootQEMU, RunRecord, RunRecordFails, Exited, RunReap, RunDestroyTap,
      RunRelease, RunRemove, StartTap, StartRecord, StopExited, StopKill,
      StopUnpublish, StopSave, RmKill, RmSave, RmRemove, Release
<1>2. CASE BootQEMU(p)
  BY <1>1, <1>2 DEF BootQEMU, Active, TypeOK
<1> QED
  BY <1>1, <1>2, StepEffect

LEMMA OwnNext ==
  ASSUME OnePerContainer, Injective, BaseInv, OwnInv, [Next]_vars
  PROVE  OwnInv'
<1> USE DEF BaseInv
<1>1. ASSUME NEW p \in Proc, Step(p) PROVE OwnInv'
  <2>1. PICK id \in Container :
          /\ id = cli[p].of /\ cli[p] # Idle
          /\ \A q \in Proc \ {p} : cli'[q] = cli[q]
          /\ cli'[p] # Idle => cli'[p].of = id
    BY <1>1, StepIsLocal DEF Active
  <2>2. OneInv'
    BY <2>1 DEF OwnInv, OneInv
  <2>3. /\ Owns(id)'
        /\ cli'[p] # Idle => Fits(p, id)'
        /\ \/ lease'[id] \in {lease[id], NoIP}
           \/ \A c \in Container : lease[c] # lease'[id]
    <3>1. Owns(id) /\ Fits(p, id)
      BY <2>1 DEF OwnInv
    <3> QED
      BY <1>1, <2>1, <3>1, OwnStep
  <2>4. ASSUME NEW d \in Container, d # id
        PROVE  /\ lease'[d] = lease[d] /\ Owns(d)'
               /\ \A q \in Proc : cli'[q] = cli[q] /\ Fits(q, d) => Fits(q, d)'
    <3>1. /\ lease'[d] = lease[d] /\ rec'[d] = rec[d]
          /\ (TapName[d] \in taps) = (TapName[d] \in taps')
      BY <1>1, <2>1, <2>4, DevicesApart, FilesApart
    <3>2. Running(d)' => Running(d)
      BY <1>1, <3>1, NoneRevived
    <3> QED
      BY <3>1, <3>2, OwnKept DEF OwnInv
  <2>5. LeaseInv'
    BY <2>1, <2>3, <2>4 DEF OwnInv, LeaseInv
  <2>6. \A c \in Container : Owns(c)'
    BY <2>3, <2>4
  <2>7. ASSUME NEW q \in Proc, NEW c \in Container, cli'[q] # Idle, cli'[q].of = c
        PROVE  Fits(q, c)'
    <3>1. CASE q = p
      BY <2>1, <2>3, <2>7, <3>1
    <3>2. CASE q # p
      <4>1. cli'[q] = cli[q] /\ Fits(q, c)
        BY <2>1, <2>7, <3>2 DEF OwnInv
      <4>2. c # id
        BY <2>1, <2>7, <3>2, <4>1 DEF OwnInv, OneInv
      <4> QED
        BY <2>4, <4>1, <4>2
    <3> QED
      BY <3>1, <3>2
  <2> QED
    BY <2>2, <2>5, <2>6, <2>7 DEF OwnInv
<1>2. ASSUME NEW p \in Proc, NEW id \in Container, Issue(p, id) PROVE OwnInv'
  <2>1. /\ cli[p] = Idle /\ ~Busy(id)
        /\ \A q \in Proc \ {p} : cli'[q] = cli[q]
        /\ cli'[p] # Idle /\ cli'[p].of = id
        /\ UNCHANGED <<rec, machines, network>>
    BY <1>2, IssueEffect
  <2>2. OneInv'
    BY <2>1 DEF OwnInv, OneInv, Busy
  <2>3. LeaseInv'
    BY <2>1 DEF OwnInv, LeaseInv, network
  <2>4. ASSUME NEW d \in Container
        PROVE  /\ Owns(d)'
               /\ \A q \in Proc : cli'[q] = cli[q] /\ Fits(q, d) => Fits(q, d)'
    <3>1. /\ rec'[d] = rec[d] /\ lease'[d] = lease[d]
          /\ (TapName[d] \in taps) = (TapName[d] \in taps')
          /\ Running(d)' => Running(d)
      BY <2>1 DEF network, machines, Running, Alive
    <3> QED
      BY <3>1, OwnKept DEF OwnInv
  <2>5. Fits(p, id)'
    <3>1. rec' = rec /\ Running(id) => rec[id].status = "running"
      BY <2>1 DEF Running
    <3>2. rec' = rec /\ Running(id)' => rec[id].status = "running"
      BY <2>1 DEF Running
    <3> QED
      BY <1>2, <2>1, <3>1, <3>2, IssueEffect
      DEF Fits, RunFits, StartFits, HaltFits
  <2>6. ASSUME NEW q \in Proc, NEW c \in Container, cli'[q] # Idle, cli'[q].of = c
        PROVE  Fits(q, c)'
    BY <2>1, <2>4, <2>5, <2>6 DEF OwnInv
  <2> QED
    BY <2>2, <2>3, <2>4, <2>6 DEF OwnInv
<1>3. ASSUME NEW taken \in SUBSET Proc,
             \A q \in Proc : cli'[q] = IF q \in taken THEN Idle ELSE cli[q],
             UNCHANGED <<rec, lease>>,
             \A d \in Container : Running(d)' => Running(d) /\ taps' = taps,
             taps' = taps \/ taken = Proc
      PROVE  OwnInv'
  <2>1. OneInv' /\ LeaseInv'
    BY <1>3 DEF OwnInv, OneInv, LeaseInv
  <2>2. \A c \in Container : Owns(c)'
    BY <1>3 DEF OwnInv, Owns
  <2>3. ASSUME NEW q \in Proc, NEW c \in Container, cli'[q] # Idle, cli'[q].of = c
        PROVE  Fits(q, c)'
    <3>1. cli'[q] = cli[q] /\ taps' = taps /\ Fits(q, c)
      BY <1>3, <2>3 DEF OwnInv
    <3> QED
      BY <1>3, <3>1, OwnKept
  <2> QED
    BY <2>1, <2>2, <2>3 DEF OwnInv
<1>4. ASSUME NEW p \in Proc, Crash(p) PROVE OwnInv'
  <2>1. /\ \A q \in Proc : cli'[q] = IF q \in {p} THEN Idle ELSE cli[q]
        /\ UNCHANGED <<rec, lease, taps, vm>>
    BY <1>4 DEF Crash, TypeOK, files, machines, network
  <2>2. \A d \in Container : Running(d)' => Running(d) /\ taps' = taps
    BY <2>1 DEF Running, Alive
  <2> QED
    BY <1>3, <2>1, <2>2
<1>5. ASSUME NEW pid \in PID, GuestExits(pid) PROVE OwnInv'
  <2>1. UNCHANGED <<rec, lease, taps, cli>> /\ NoBirth
    BY <1>5, KillEffect DEF GuestExits, files, network
  <2>2. \A d \in Container : Running(d)' => Running(d) /\ taps' = taps
    BY <2>1 DEF Running, Alive, NoBirth
  <2>3. /\ {} \in SUBSET Proc
        /\ \A q \in Proc : cli'[q] = IF q \in {} THEN Idle ELSE cli[q]
    BY <2>1
  <2> QED
    BY <1>3, <2>1, <2>2, <2>3
<1>6. CASE Reboot
  <2>1. /\ \A q \in Proc : cli'[q] = IF q \in Proc THEN Idle ELSE cli[q]
        /\ UNCHANGED <<rec, lease>>
    BY <1>6 DEF Reboot, files
  <2>2. \A d \in Container : ~Running(d)'
    BY <1>6 DEF Reboot, Running, Alive
  <2> QED
    BY <1>3, <2>1, <2>2
<1>7. CASE UNCHANGED vars
  <2>1. UNCHANGED <<rec, lease, taps, cli, vm>>
    BY <1>7 DEF vars
  <2>2. \A d \in Container : Running(d)' => Running(d) /\ taps' = taps
    BY <2>1 DEF Running, Alive
  <2>3. /\ {} \in SUBSET Proc
        /\ \A q \in Proc : cli'[q] = IF q \in {} THEN Idle ELSE cli[q]
    BY <2>1
  <2> QED
    BY <1>3, <2>1, <2>2, <2>3
<1> QED
  BY <1>1, <1>2, <1>4, <1>5, <1>6, <1>7 DEF Next

(* In every reachable state a running container's address is allocated to  *)
(* it and to nobody else, for any number of containers, processes and      *)
(* addresses and whatever fails, is killed or restarted, provided users run*)
(* one command at a time per container and no two share a device name.     *)
THEOREM RunningOwns ==
  OnePerContainer /\ Injective => (Spec => []RunningOwnsItsAddress)
<1> SUFFICES ASSUME OnePerContainer, Injective
             PROVE  Spec => []RunningOwnsItsAddress
  OBVIOUS
<1>1. Init => BaseInv /\ OwnInv
  BY BaseInit, OwnInit
<1>2. BaseInv /\ OwnInv /\ [Next]_vars => (BaseInv /\ OwnInv)'
  <2>1. BaseInv /\ [Next]_vars => BaseInv'
    BY TypeStep, PidStep, StopStep, TapStep DEF BaseInv
  <2> QED
    BY <2>1, OwnNext
<1>3. BaseInv /\ OwnInv => RunningOwnsItsAddress
  BY DEF OwnInv, Owns, LeaseInv, RunningOwnsItsAddress
<1> QED
  BY <1>1, <1>2, <1>3, PTL DEF Spec

(* Under the same conditions the record of a running container is removed  *)
(* only after its machine has died.                                        *)
THEOREM RemovalIsSafe ==
  OnePerContainer /\ Injective => (Spec => RemovalKills)
<1> SUFFICES ASSUME OnePerContainer, Injective
             PROVE  Spec => RemovalKills
  OBVIOUS
<1> DEFINE Kept ==
      \A c \in Container :
        rec[c].status = "running" /\ rec'[c] = NoRecord => DeadNext(rec[c].pid)
<1>1. Init => BaseInv /\ OwnInv
  BY BaseInit, OwnInit
<1>2. BaseInv /\ OwnInv /\ [Next]_vars => (BaseInv /\ OwnInv)'
  <2>1. BaseInv /\ [Next]_vars => BaseInv'
    BY TypeStep, PidStep, StopStep, TapStep DEF BaseInv
  <2> QED
    BY <2>1, OwnNext
<1>3. BaseInv /\ OwnInv /\ [Next]_vars => [Kept]_vars
  <2> SUFFICES ASSUME BaseInv, OwnInv, [Next]_vars, NEW c \in Container,
                      rec[c].status = "running", rec'[c] = NoRecord
               PROVE  DeadNext(rec[c].pid)
    OBVIOUS
  <2>1. rec' # rec
    BY DEF NoRecord
  <2>2. PICK p \in Proc : Step(p)
    <3>1. \A p \in Proc, id \in Container : ~Issue(p, id)
      BY <2>1, IssueEffect DEF BaseInv
    <3> QED
      BY <2>1, <3>1 DEF Next, Crash, GuestExits, Reboot, vars, files
  <2>3. c = cli[p].of /\ cli[p] # Idle /\ cli[p] \in Active
    BY <2>1, <2>2, StepIsLocal, FilesApart DEF BaseInv, NoRecord
  <2>4. Fits(p, c)
    BY <2>3 DEF OwnInv
  <2>5. /\ rec[c].pid \in PID => vm[rec[c].pid] \in VM \cup {Dead}
        /\ rec[c].status = "running"
    BY DEF BaseInv, TypeOK
  <2>6. CASE RunRemove(p)
    BY <2>3, <2>4, <2>5, <2>6 DEF RunRemove, At, Fits, RunFits
  <2>7. CASE RmRemove(p)
    BY <2>3, <2>4, <2>5, <2>7
    DEF RmRemove, At, Fits, HaltFits, Running, Alive, machines, DeadNext
  <2>8. CASE ~RunRemove(p) /\ ~RmRemove(p)
    <3>1. ASSUME NEW e \in Record, Save(c, e) \/ Create(c, e) \/ UNCHANGED files
          PROVE  FALSE
      BY <2>1, <3>1 DEF Save, Create, Created, files, BaseInv, TypeOK, Record,
                        Status, NoRecord
    <3>2. /\ cli[p].c \in Record /\ [cli[p].c EXCEPT !.status = "stopped"] \in Record
      BY <2>3 DEF Active, Record, Status
    <3> QED
      BY <2>2, <2>3, <2>8, <3>1, <3>2
      DEF Step, RunAssembleFails, RunTap, Forward, RunNoKernel, BootFails,
          BootQEMU, RunRecord, RunRecordFails, Exited, RunReap, RunDestroyTap,
          RunRelease, StartTap, StartRecord, StopExited, StopKill,
          StopUnpublish, StopSave, RmKill, RmSave, Release
  <2> QED
    BY <2>6, <2>7, <2>8
<1> QED
  BY <1>1, <1>2, <1>3, PTL DEF Spec, RemovalKills

-----------------------------------------------------------------------------
(* Published ports, however commands interleave on a container.            *)

(* Without an address nothing is published. *)
Plain(r) == r.ip = NoIP => r.ports = {}

(* The ports of a record are forwarded to its address by the rules. *)
Through(r, rs) == [port : r.ports, to : {r.ip}] \subseteq rs

(* What run and start know on their way to the record. *)
PortsKnown(f, rs) ==
  /\ Plain(f.c)
  /\ f.cmd = "run" /\ f.at \in {"tap", "forward"} => f.c.ports = {}
  /\ f.at = "forward" /\ (f.net \/ f.cmd = "start") => f.c.ip # NoIP
  /\ f.cmd \in {"run", "start"} /\ f.at \in {"boot", "record"} => Through(f.c, rs)

PortsInv ==
  /\ \A c \in Container :
       Plain(rec[c]) /\ (Alive(rec[c].pid) => Through(rec[c], rules))
  /\ \A p \in Proc : cli[p] # Idle => PortsKnown(cli[p], rules)

(* Commands only add rules; RemovePortForward deletes none that leads to an*)
(* address.                                                                *)
LEMMA RulesKept ==
  ASSUME NEW p \in Proc, Step(p), NEW r, Plain(r), Through(r, rules)
  PROVE  Through(r, rules')
<1>1. CASE StopUnpublish(p)
  <2>1. rules' = rules \ [port : cli[p].c.ports, to : {NoIP}]
    BY <1>1 DEF StopUnpublish
  <2>2. SUFFICES ASSUME NEW e \in [port : r.ports, to : {r.ip}] PROVE e \in rules'
    BY DEF Through
  <2>3. e \in rules /\ e.to = r.ip /\ e.port \in r.ports
    BY <2>2 DEF Through
  <2>4. e \notin [port : cli[p].c.ports, to : {NoIP}]
    BY <2>3 DEF Plain
  <2> QED
    BY <2>1, <2>3, <2>4
<1>2. CASE Forward(p)
  BY <1>2 DEF Forward, Through
<1>3. CASE ~StopUnpublish(p) /\ ~Forward(p)
  <2>1. rules' = rules
    BY <1>3
    DEF Step, RunAssembleFails, RunTap, RunNoKernel, BootFails, BootQEMU,
        RunRecord, RunRecordFails, Exited, RunReap, RunDestroyTap, RunRelease,
        RunRemove, StartTap, StartRecord, StopExited, StopKill, StopSave,
        RmKill, RmSave, RmRemove, Release, network
  <2> QED
    BY <2>1
<1> QED
  BY <1>1, <1>2, <1>3

(* What a step writes into the record of its container. *)
LEMMA RecordEffect ==
  ASSUME TypeOK, NEW p \in Proc, Step(p)
  PROVE  \/ rec'[cli[p].of] \in {rec[cli[p].of], NoRecord,
                                 [cli[p].c EXCEPT !.status = "stopped"]}
         \/ /\ At(p, {"run", "start"}, {"record"})
            /\ rec'[cli[p].of] \in {cli[p].c, Created(cli[p].c)}
<1> DEFINE f == cli[p]
<1>1. f.of \in Container /\ rec \in [Container -> Record \cup {NoRecord}]
  BY StepIsLocal DEF TypeOK, Active
<1>2. ASSUME NEW c, Save(f.of, c) PROVE rec'[f.of] \in {rec[f.of], c}
  BY <1>1, <1>2 DEF Save
<1>3. CASE RunRecord(p) \/ StartRecord(p)
  BY <1>1, <1>2, <1>3 DEF RunRecord, StartRecord, Create, At
<1>4. CASE Exited(p) \/ StopSave(p) \/ RmSave(p)
  BY <1>2, <1>4 DEF Exited, StopSave, RmSave
<1>5. CASE RunRemove(p) \/ RmRemove(p)
  BY <1>1, <1>5 DEF RunRemove, RmRemove, Remove
<1>6. CASE ~(RunRecord(p) \/ StartRecord(p) \/ Exited(p) \/ StopSave(p)
             \/ RmSave(p) \/ RunRemove(p) \/ RmRemove(p))
  BY <1>6
  DEF Step, RunAssembleFails, RunTap, Forward, RunNoKernel, BootFails, BootQEMU,
      RunRecordFails, RunReap, RunDestroyTap, RunRelease, StartTap, StopExited,
      StopKill, StopUnpublish, RmKill, Release, files
<1> QED
  BY <1>3, <1>4, <1>5, <1>6

(* A process some record or command knows does not come to life again. *)
LEMMA KnownStayDead ==
  ASSUME TypeOK, NEW p \in Proc, Step(p), NEW pid \in Nat, pid <= booted,
         ~DeadNext(pid)
  PROVE  Alive(pid)
<1>1. CASE BootQEMU(p)
  <2>1. /\ booted \in 0..MaxCommands /\ MaxCommands \in Nat
        /\ vm \in [PID -> VM \cup {Dead}]
    BY EnvironmentAssumption DEF TypeOK
  <2>2. \A i \in PID : i # booted + 1 => vm'[i] = vm[i]
    BY <1>1, <2>1 DEF BootQEMU, Boot
  <2> QED
    BY <2>1, <2>2 DEF Alive, DeadNext
<1>2. CASE ~BootQEMU(p)
  <2>1. NoBirth
    BY <1>2, StepEffect
  <2> QED
    BY <2>1 DEF NoBirth, Alive, DeadNext
<1> QED
  BY <1>1, <1>2

(* The command's own frame after a step. *)
LEMMA PortsKnownNext ==
  ASSUME "net" \notin Faults, TypeOK, NEW p \in Proc, Step(p),
         PortsKnown(cli[p], rules), cli'[p] # Idle
  PROVE  PortsKnown(cli'[p], rules')
<1> DEFINE f == cli[p]
           g == cli'[p]
           Late == {"wait", "reap", "destroy", "await", "kill", "killed",
                    "unpublish", "release", "save", "remove"}
<1>0. /\ f \in Active /\ f.of \in Container /\ f.c \in Record
      /\ cli \in [Proc -> Active \cup {Idle}]
      /\ lease \in [Container -> Address \cup {NoIP}]
      /\ NoIP \notin Address
  BY StepIsLocal, NamesAssumption DEF TypeOK, Active
<1>1. ASSUME g.at \in Late, g.c = f.c \/ g.c = Created(f.c)
      PROVE  PortsKnown(g, rules')
  <2>1. g.c.ip = f.c.ip /\ g.c.ports = f.c.ports
    BY <1>0, <1>1 DEF Created, Record
  <2> QED
    BY <1>1, <2>1 DEF PortsKnown, Plain
<1>2. ASSUME NEW place \in Late, Goto(p, place) PROVE PortsKnown(g, rules')
  BY <1>0, <1>1, <1>2 DEF Goto, Active
<1>3. ~End(p)
  BY <1>0 DEF End
<1>4. CASE RunTap(p)
  <2>1. /\ g.cmd = "run" /\ g.at = "forward" /\ g.c.ports = {}
        /\ g.net => g.c.ip = lease'[f.of] /\ TapCreated(f.of)
    BY <1>0, <1>4 DEF RunTap, PortsKnown, At, Active, Record
  <2>2. g.net => g.c.ip # NoIP
    BY <1>0, <2>1 DEF TapCreated
  <2> QED
    BY <2>1, <2>2 DEF PortsKnown, Plain
<1>5. CASE StartTap(p)
  <2>1. /\ g.cmd = "start" /\ g.at = "forward"
        /\ g.c.ip = lease'[f.of] /\ TapCreated(f.of)
    BY <1>0, <1>3, <1>5 DEF StartTap, At, Active, Record
  <2>2. g.c.ip # NoIP
    BY <1>0, <2>1 DEF TapCreated
  <2> QED
    BY <2>1, <2>2 DEF PortsKnown, Plain
<1>6. CASE Forward(p)
  <2> DEFINE ports == IF f.cmd = "start" THEN f.c.ports
                      ELSE IF f.net THEN f.publish ELSE {}
  <2>1. /\ g.at = "boot" /\ g.c.ip = f.c.ip /\ g.c.ports = ports
        /\ f.at = "forward"
    BY <1>0, <1>6 DEF Forward, At, Active, Record
  <2>2. rules' = rules \cup [port : ports, to : {f.c.ip}]
    BY <1>6 DEF Forward
  <2>3. Through(g.c, rules')
    BY <2>1, <2>2 DEF Through
  <2>4. Plain(g.c)
    BY <2>1 DEF PortsKnown, Plain
  <2> QED
    BY <2>1, <2>3, <2>4 DEF PortsKnown
<1>7. CASE BootQEMU(p)
  <2>1. /\ f.cmd \in {"run", "start"} /\ f.at = "boot" /\ g.at = "record"
        /\ g.c.ip = f.c.ip /\ g.c.ports = f.c.ports /\ rules' = rules
    BY <1>0, <1>7 DEF BootQEMU, At, Active, Record, network
  <2> QED
    BY <2>1 DEF PortsKnown, Plain, Through
<1>8. CASE RunRecord(p) \/ RunReap(p)
  <2>1. g.at \in Late /\ (g.c = f.c \/ g.c = Created(f.c))
    BY <1>0, <1>3, <1>8 DEF RunRecord, RunReap, Active
  <2> QED
    BY <1>1, <2>1
<1>9. CASE ~(RunTap(p) \/ StartTap(p) \/ Forward(p) \/ BootQEMU(p)
             \/ RunRecord(p) \/ RunReap(p))
  <2>1. \E place \in Late : Goto(p, place)
    BY <1>3, <1>9
    DEF Step, RunAssembleFails, RunNoKernel, BootFails, RunRecordFails, Exited,
        RunDestroyTap, RunRelease, RunRemove, StartRecord, StopExited, StopKill,
        StopUnpublish, StopSave, RmKill, RmSave, RmRemove, Release
  <2> QED
    BY <1>2, <2>1
<1> QED
  BY <1>4, <1>5, <1>6, <1>7, <1>8, <1>9

LEMMA PortsStep ==
  ASSUME "net" \notin Faults, TypeOK, PidInv, StopInv, PortsInv, [Next]_vars
  PROVE  PortsInv'
<1>0. /\ TypeOK' /\ StopInv' /\ ~Alive(0) /\ ~Alive(0)'
      /\ \A c \in Container : rec[c] \in Record \cup {NoRecord}
      /\ cli \in [Proc -> Active \cup {Idle}]
  BY TypeStep, StopStep DEF TypeOK, Alive, PID
<1>1. ASSUME NEW p \in Proc, Step(p) PROVE PortsInv'
  <2> DEFINE f == cli[p]
  <2>1. /\ f \in Active /\ f # Idle /\ f.of \in Container /\ f.c \in Record
        /\ \A q \in Proc \ {p} : cli'[q] = cli[q]
    BY <1>1, StepIsLocal DEF Active
  <2>2. PortsKnown(f, rules)
    BY <2>1 DEF PortsInv
  <2>3. ASSUME NEW q \in Proc, cli'[q] # Idle PROVE PortsKnown(cli'[q], rules')
    <3>1. CASE q = p
      BY <1>1, <2>2, <2>3, <3>1, PortsKnownNext
    <3>2. CASE q # p
      <4>1. PortsKnown(cli[q], rules) /\ cli'[q] = cli[q]
        BY <2>1, <2>3, <3>2 DEF PortsInv
      <4>2. Through(cli[q].c, rules) => Through(cli[q].c, rules')
        BY <1>1, <4>1, RulesKept DEF PortsKnown
      <4> QED
        BY <4>1, <4>2 DEF PortsKnown
    <3> QED
      BY <3>1, <3>2
  <2>4. ASSUME NEW c \in Container, rec'[c] = rec[c]
        PROVE  Plain(rec'[c]) /\ (~DeadNext(rec'[c].pid) => Through(rec'[c], rules'))
    <3>1. rec[c].pid \in Nat /\ rec[c].pid <= booted
      BY <1>0 DEF PidInv, Record, NoRecord, PID
    <3>2. ~DeadNext(rec'[c].pid) => Alive(rec[c].pid)
      BY <1>1, <2>4, <3>1, KnownStayDead
    <3> QED
      BY <1>1, <2>4, <3>2, RulesKept DEF PortsInv
  <2>5. ASSUME rec'[f.of] = NoRecord
        PROVE  /\ Plain(rec'[f.of])
               /\ ~DeadNext(rec'[f.of].pid) => Through(rec'[f.of], rules')
    BY <2>5 DEF NoRecord, Plain, DeadNext, PID
  <2>6. ASSUME rec'[f.of] = [f.c EXCEPT !.status = "stopped"]
        PROVE  /\ Plain(rec'[f.of])
               /\ ~DeadNext(rec'[f.of].pid) => Through(rec'[f.of], rules')
    <3>1. /\ rec'[f.of].status = "stopped" /\ rec'[f.of].ip = f.c.ip
          /\ rec'[f.of].ports = f.c.ports
      BY <2>1, <2>6 DEF Record
    <3> QED
      BY <1>0, <2>1, <2>2, <3>1 DEF StopInv, PortsKnown, Plain, Alive, DeadNext
  <2>7. ASSUME At(p, {"run", "start"}, {"record"}),
               rec'[f.of] \in {f.c, Created(f.c)}
        PROVE  /\ Plain(rec'[f.of])
               /\ ~DeadNext(rec'[f.of].pid) => Through(rec'[f.of], rules')
    <3>1. rec'[f.of].ip = f.c.ip /\ rec'[f.of].ports = f.c.ports
      BY <2>1, <2>7 DEF Record, Created
    <3>2. Plain(f.c) /\ Through(f.c, rules)
      BY <2>2, <2>7 DEF PortsKnown, At
    <3>3. Through(f.c, rules')
      BY <1>1, <3>2, RulesKept
    <3> QED
      BY <3>1, <3>2, <3>3 DEF Plain, Through
  <2>8. ASSUME NEW c \in Container
        PROVE  Plain(rec'[c]) /\ (~DeadNext(rec'[c].pid) => Through(rec'[c], rules'))
    <3>1. CASE c = f.of
      BY <1>1, <2>1, <2>4, <2>5, <2>6, <2>7, <3>1, RecordEffect
    <3>2. CASE c # f.of
      BY <1>1, <2>4, <3>2, FilesApart
    <3> QED
      BY <3>1, <3>2
  <2> QED
    BY <2>3, <2>8 DEF PortsInv, Alive, DeadNext
<1>2. ASSUME NEW p \in Proc, NEW id \in Container, Issue(p, id) PROVE PortsInv'
  <2>1. /\ \A q \in Proc \ {p} : cli'[q] = cli[q]
        /\ UNCHANGED <<rec, vm, rules>>
    BY <1>2, IssueEffect DEF machines, network
  <2>2. NewRecord.ports = {}
    BY DEF NewRecord, NoRecord
  <2>3. PortsKnown(cli'[p], rules)
    <3>1. CASE cli'[p].c = NewRecord /\ cli'[p].at = "tap"
      BY <2>2, <3>1 DEF PortsKnown, Plain
    <3>2. CASE /\ cli'[p].c = rec[id]
               /\ \/ cli'[p].cmd = "start" /\ cli'[p].at = "tap"
                  \/ cli'[p].cmd \in {"stop", "rm"}
                     /\ cli'[p].at \in {"await", "kill", "release"}
      BY <3>2 DEF PortsKnown, PortsInv
    <3> QED
      BY <1>2, <3>1, <3>2, IssueEffect
  <2> QED
    BY <2>1, <2>3 DEF PortsInv, Alive
<1>3. ASSUME NEW p \in Proc, Crash(p) PROVE PortsInv'
  BY <1>0, <1>3 DEF Crash, PortsInv, Alive, files, machines, network
<1>4. ASSUME NEW pid \in PID, GuestExits(pid) PROVE PortsInv'
  <2>1. UNCHANGED <<rec, cli, rules>> /\ NoBirth
    BY <1>4, KillEffect DEF GuestExits, files, network
  <2> QED
    BY <2>1 DEF PortsInv, Alive, NoBirth
<1>5. CASE Reboot
  BY <1>5 DEF Reboot, PortsInv, Alive, files
<1>6. CASE UNCHANGED vars
  BY <1>6 DEF vars, PortsInv, Alive
<1> QED
  BY <1>1, <1>2, <1>3, <1>4, <1>5, <1>6 DEF Next

(* Where iptables does what it is told, the ports in the record of a live  *)
(* machine lead to the address in that record, whatever else fails, however*)
(* many commands work on one container and whatever is killed or restarted:*)
(* start forwards to the new address before it records it, and stop, which *)
(* deletes rules without a destination, deletes none of these.             *)
THEOREM PortsAreForwarded ==
  "net" \notin Faults => (Spec => []PublishedPortsForwarded)
<1> SUFFICES ASSUME "net" \notin Faults PROVE Spec => []PublishedPortsForwarded
  OBVIOUS
<1> DEFINE Inv == TypeOK /\ PidInv /\ StopInv /\ PortsInv
<1>1. Init => Inv
  <2>1. Init => PortsInv
    BY DEF Init, PortsInv, Plain, Alive, NoRecord, PID
  <2> QED
    BY <2>1, BaseInit DEF BaseInv
<1>2. Inv /\ [Next]_vars => Inv'
  BY TypeStep, PidStep, StopStep, PortsStep
<1>3. Inv => PublishedPortsForwarded
  BY DEF PortsInv, Through, PublishedPortsForwarded
<1> QED
  BY <1>1, <1>2, <1>3, PTL DEF Spec

-----------------------------------------------------------------------------
(* Addresses come back: no command is killed, every name is new, users run *)
(* one command at a time per container, and only `ip` and `iptables` fail. *)

Orderly ==
  /\ OnePerContainer /\ FreshNames
  /\ Faults \subseteq {"net"}
  /\ MaxCrashes = 0 /\ MaxReboots = 0

(* The container's record says which address it may hold, if any. *)
KnowsLease(c) == lease[c] \in {NoIP, rec[c].ip}

(* What a command in progress knows of its container's address. *)
RunHolds(p, c) ==
  cli[p].cmd = "run" =>
    /\ cli[p].at = "tap" => lease[c] = NoIP /\ cli[p].c.ip = NoIP
    /\ cli[p].at \in {"forward", "boot", "record"} => lease[c] = cli[p].c.ip
    /\ cli[p].at = "wait" => rec[c].ip = cli[p].c.ip /\ KnowsLease(c)
    /\ cli[p].at = "remove" => lease[c] = NoIP
StartHolds(p, c) ==
  cli[p].cmd = "start" =>
    /\ rec[c] # NoRecord
    /\ cli[p].at = "tap" => KnowsLease(c)
    /\ cli[p].at \in {"forward", "boot", "record"} => lease[c] = cli[p].c.ip
    /\ cli[p].at = "wait" => rec[c].ip = cli[p].c.ip /\ KnowsLease(c)
HaltHolds(p, c) ==
  cli[p].cmd \in {"stop", "rm"} =>
    /\ rec[c].ip = cli[p].c.ip /\ KnowsLease(c)
    /\ cli[p].at \in {"save", "remove"} => lease[c] = NoIP
Holds(p, c) == RunHolds(p, c) /\ StartHolds(p, c) /\ HaltHolds(p, c)

(* A record stands in its directory, so that Save can write it. *)
Stored(c) == rec[c] # NoRecord => c \in dirs

ReturnInv ==
  /\ OneInv
  /\ \A c \in Container : Stored(c) /\ (~Busy(c) => KnowsLease(c))
  /\ \A p \in Proc, c \in Container :
       cli[p] # Idle /\ cli[p].of = c => Holds(p, c)

LEMMA LeasesApart ==
  ASSUME TypeOK, NEW p \in Proc, Step(p), NEW d \in Container, d # cli[p].of
  PROVE  lease'[d] = lease[d]
<1> DEFINE f == cli[p]
<1>0. lease \in [Container -> Address \cup {NoIP}]
  BY DEF TypeOK
<1>1. CASE RunTap(p) \/ StartTap(p)
  BY <1>0, <1>1 DEF RunTap, StartTap, TapExists, TapCreated, TapFails
<1>2. CASE RunRelease(p) \/ Release(p)
  BY <1>0, <1>2 DEF RunRelease, Release, ReleaseIP
<1>3. CASE ~(RunTap(p) \/ StartTap(p) \/ RunRelease(p) \/ Release(p))
  BY <1>3
  DEF Step, RunAssembleFails, Forward, RunNoKernel, BootFails, BootQEMU,
      RunRecord, RunRecordFails, Exited, RunReap, RunDestroyTap, RunRemove,
      StartRecord, StopExited, StopKill, StopUnpublish, StopSave, RmKill,
      RmSave, RmRemove, network
<1> QED
  BY <1>1, <1>2, <1>3

(* One step of a command on its container id: it ends only where the       *)
(* record knows the address.                                               *)
LEMMA ReturnStep ==
  ASSUME Orderly, TypeOK, NEW p \in Proc, Step(p),
         NEW id \in Container, id = cli[p].of, Stored(id), Holds(p, id)
  PROVE  /\ Stored(id)'
         /\ IF cli'[p] = Idle THEN KnowsLease(id)' ELSE Holds(p, id)'
<1> DEFINE f == cli[p]
           g == cli'[p]
<1>0. /\ f \in Active /\ f # Idle /\ f.of = id /\ f.c \in Record
      /\ cli \in [Proc -> Active \cup {Idle}]
      /\ rec \in [Container -> Record \cup {NoRecord}]
      /\ lease \in [Container -> Address \cup {NoIP}]
      /\ "disk" \notin Faults /\ "qemu" \notin Faults /\ "kernel" \notin Faults
  BY StepIsLocal DEF TypeOK, Active, Orderly
<1>1. ASSUME NEW place \in Places, Goto(p, place)
      PROVE  /\ g # Idle /\ g.of = id /\ g.cmd = f.cmd /\ g.c = f.c
             /\ g.at = place
  <2>1. g = [f EXCEPT !.at = place]
    BY <1>0, <1>1 DEF Goto
  <2> QED
    BY <1>0, <2>1 DEF Active, Idle
<1>2. End(p) => g = Idle
  BY <1>0 DEF End
<1>3. ASSUME NEW c \in Record, Save(id, c)
      PROVE  /\ Stored(id)' /\ (rec[id] # NoRecord => rec'[id] = c)
             /\ rec'[id] \in {rec[id], c}
  BY <1>0, <1>3 DEF Save, Stored
<1>4. UNCHANGED files => Stored(id)'
  BY DEF files, Stored
<1>5. /\ [f.c EXCEPT !.status = "stopped"] \in Record
      /\ [f.c EXCEPT !.status = "stopped"].ip = f.c.ip
      /\ Created(f.c) \in Record /\ Created(f.c).ip = f.c.ip
  BY <1>0 DEF Record, Status, Created
<1> USE <1>0 DEF At, Holds
<1>6. CASE RunTap(p)
  <2>1. /\ UNCHANGED files /\ f.cmd = "run" /\ f.at = "tap"
        /\ g # Idle /\ g.cmd = "run" /\ g.at = "forward"
        /\ \/ TapExists(id) /\ g.c.ip = NoIP
           \/ TapFails(id) /\ g.c.ip = NoIP
           \/ g.c.ip = lease'[id]
    BY <1>6 DEF RunTap, Active, Record, Idle
  <2>2. lease'[id] = g.c.ip
    BY <2>1 DEF TapExists, TapFails, RunHolds
  <2> QED
    BY <1>4, <2>1, <2>2 DEF RunHolds, StartHolds, HaltHolds
<1>7. CASE StartTap(p)
  <2>1. /\ UNCHANGED files /\ f.cmd = "start" /\ f.at = "tap"
    BY <1>7 DEF StartTap
  <2>2. CASE (TapExists(id) \/ TapFails(id)) /\ End(p)
    BY <1>2, <1>4, <2>1, <2>2
    DEF TapExists, TapFails, StartHolds, KnowsLease, files
  <2>3. CASE cli' = [cli EXCEPT ![p].at = "forward", ![p].tap = TapName[id],
                                ![p].net = TRUE, ![p].c.ip = lease'[id]]
    <3>1. /\ g # Idle /\ g.cmd = "start" /\ g.at = "forward"
          /\ g.c.ip = lease'[id]
      BY <2>1, <2>3 DEF Active, Record, Idle
    <3> QED
      BY <1>4, <2>1, <3>1 DEF RunHolds, StartHolds, HaltHolds, files
  <2> QED
    BY <1>7, <2>2, <2>3 DEF StartTap
<1>8. CASE Forward(p)
  <2>1. /\ UNCHANGED <<files, lease>> /\ f.cmd \in {"run", "start"}
        /\ f.at = "forward" /\ g # Idle /\ g.cmd = f.cmd /\ g.at = "boot"
        /\ g.c.ip = f.c.ip
    BY <1>8 DEF Forward, Active, Record, Idle
  <2> QED
    BY <1>4, <2>1 DEF RunHolds, StartHolds, HaltHolds, files
<1>9. CASE BootQEMU(p)
  <2>1. /\ UNCHANGED <<files, lease>> /\ f.cmd \in {"run", "start"}
        /\ f.at = "boot" /\ g # Idle /\ g.cmd = f.cmd /\ g.at = "record"
        /\ g.c.ip = f.c.ip
    BY <1>9 DEF BootQEMU, Active, Record, Idle, network
  <2> QED
    BY <1>4, <2>1 DEF RunHolds, StartHolds, HaltHolds, files
<1>10. CASE RunRecord(p)
  <2>1. /\ rec'[id].ip = f.c.ip /\ id \in dirs' /\ lease' = lease
        /\ f.cmd = "run" /\ f.at = "record"
        /\ \/ g = Idle
           \/ g.cmd = "run" /\ g.at \in {"wait", "reap"} /\ g.c.ip = f.c.ip
    BY <1>2, <1>5, <1>10 DEF RunRecord, Create, Active, network
  <2>2. Stored(id)' /\ KnowsLease(id)'
    BY <2>1 DEF Stored, KnowsLease, RunHolds
  <2> QED
    BY <2>1, <2>2 DEF RunHolds, StartHolds, HaltHolds
<1>11. CASE StartRecord(p)
  <2>1. /\ Save(id, f.c) /\ lease' = lease /\ f.cmd = "start" /\ f.at = "record"
        /\ \/ g = Idle
           \/ g.cmd = "start" /\ g.at = "wait" /\ g.c = f.c
    BY <1>1, <1>2, <1>11 DEF StartRecord, network, Places
  <2>2. Stored(id)' /\ rec'[id] = f.c
    BY <1>3, <2>1 DEF StartHolds
  <2>3. rec'[id] # NoRecord /\ rec'[id].ip = f.c.ip /\ KnowsLease(id)'
    BY <2>1, <2>2 DEF StartHolds, KnowsLease, Record, Status, NoRecord
  <2> QED
    BY <2>1, <2>2, <2>3 DEF RunHolds, StartHolds, HaltHolds
<1>12. CASE Exited(p)
  <2>1. /\ Save(id, [f.c EXCEPT !.status = "stopped"]) /\ lease' = lease
        /\ f.cmd \in {"run", "start"} /\ f.at = "wait"
        /\ \/ g = Idle
           \/ f.rm /\ g.cmd = f.cmd /\ g.at = "destroy"
    BY <1>1, <1>2, <1>12 DEF Exited, network, Places
  <2>2. Stored(id)' /\ rec'[id].ip = rec[id].ip
    BY <1>3, <1>5, <2>1 DEF RunHolds, StartHolds
  <2>3. KnowsLease(id)'
    BY <2>1, <2>2 DEF RunHolds, StartHolds, KnowsLease
  <2>4. rec[id] # NoRecord => rec'[id] # NoRecord
    BY <1>3, <1>5, <2>1 DEF Record, Status, NoRecord
  <2> QED
    BY <2>1, <2>2, <2>3, <2>4 DEF RunHolds, StartHolds, HaltHolds
<1>13. CASE RunReap(p) \/ RunDestroyTap(p)
  <2>1. /\ UNCHANGED files /\ g # Idle /\ g.cmd = "run"
        /\ g.at \in {"destroy", "release"}
    BY <1>1, <1>13 DEF RunReap, RunDestroyTap, Places, Active, Idle
  <2> QED
    BY <1>4, <2>1 DEF RunHolds, StartHolds, HaltHolds
<1>14. CASE RunRelease(p)
  <2>1. /\ UNCHANGED files /\ lease'[id] = NoIP
        /\ g # Idle /\ g.cmd = "run" /\ g.at = "remove"
    BY <1>1, <1>14 DEF RunRelease, ReleaseIP, Places
  <2> QED
    BY <1>4, <2>1 DEF RunHolds, StartHolds, HaltHolds
<1>15. CASE RunRemove(p)
  <2>1. /\ rec'[id] = NoRecord /\ lease'[id] = NoIP
        /\ g = Idle \/ (g.cmd = "run" /\ g.at = "reap")
    BY <1>1, <1>2, <1>15 DEF RunRemove, Remove, RunHolds, network, Places
  <2>2. Stored(id)' /\ KnowsLease(id)'
    BY <2>1 DEF Stored, KnowsLease
  <2> QED
    BY <2>1, <2>2 DEF RunHolds, StartHolds, HaltHolds
<1>16. CASE RmRemove(p)
  <2>1. /\ rec'[id] = NoRecord /\ lease'[id] = NoIP /\ g = Idle
    BY <1>2, <1>16 DEF RmRemove, Remove, HaltHolds, network
  <2> QED
    BY <2>1 DEF Stored, KnowsLease
<1>17. CASE StopExited(p) \/ StopUnpublish(p) \/ StopKill(p) \/ RmKill(p)
  <2>1. /\ UNCHANGED <<files, lease>> /\ f.cmd \in {"stop", "rm"}
        /\ g # Idle /\ g.cmd = f.cmd /\ g.c = f.c
        /\ g.at \in {"unpublish", "release", "killed"}
    BY <1>1, <1>17
    DEF StopExited, StopUnpublish, StopKill, RmKill, network, Places
  <2> QED
    BY <1>4, <2>1 DEF RunHolds, StartHolds, HaltHolds, KnowsLease, files
<1>18. CASE Release(p)
  <2>1. /\ UNCHANGED files /\ f.cmd \in {"stop", "rm"}
        /\ g # Idle /\ g.cmd = f.cmd /\ g.c = f.c
        /\ IF f.c.ip # NoIP THEN lease'[id] = NoIP ELSE lease' = lease
    BY <1>1, <1>18 DEF Release, ReleaseIP, Places
  <2>2. lease'[id] = NoIP
    BY <2>1 DEF HaltHolds, KnowsLease
  <2> QED
    BY <1>4, <2>1, <2>2 DEF RunHolds, StartHolds, HaltHolds, KnowsLease, files
<1>19. CASE StopSave(p) \/ RmSave(p)
  <2>1. /\ Save(id, [f.c EXCEPT !.status = "stopped"]) /\ lease' = lease
        /\ f.cmd \in {"stop", "rm"}
        /\ \/ g = Idle
           \/ g.cmd = f.cmd /\ g.at = "release" /\ g.c = f.c
    BY <1>1, <1>2, <1>19 DEF StopSave, RmSave, network, Places
  <2>2. Stored(id)' /\ rec'[id].ip = rec[id].ip
    BY <1>3, <1>5, <2>1 DEF HaltHolds
  <2>3. KnowsLease(id)'
    BY <2>1, <2>2 DEF HaltHolds, KnowsLease
  <2> QED
    BY <2>1, <2>2, <2>3 DEF RunHolds, StartHolds, HaltHolds
<1>20. ~(RunAssembleFails(p) \/ RunNoKernel(p) \/ BootFails(p) \/ RunRecordFails(p))
  BY DEF RunAssembleFails, RunNoKernel, BootFails, RunRecordFails
<1> QED
  BY <1>6, <1>7, <1>8, <1>9, <1>10, <1>11, <1>12, <1>13, <1>14, <1>15, <1>16,
     <1>17, <1>18, <1>19, <1>20 DEF Step

LEMMA ReturnNext ==
  ASSUME Orderly, TypeOK, ReturnInv, [Next]_vars
  PROVE  ReturnInv'
<1>1. ASSUME NEW p \in Proc, Step(p) PROVE ReturnInv'
  <2>1. PICK id \in Container :
          /\ id = cli[p].of /\ cli[p] # Idle
          /\ \A q \in Proc \ {p} : cli'[q] = cli[q]
          /\ cli'[p] # Idle => cli'[p].of = id
    BY <1>1, StepIsLocal DEF Active
  <2>2. OneInv'
    BY <2>1 DEF ReturnInv, OneInv
  <2>3. /\ Stored(id)'
        /\ IF cli'[p] = Idle THEN KnowsLease(id)' ELSE Holds(p, id)'
    <3>1. Stored(id) /\ Holds(p, id)
      BY <2>1 DEF ReturnInv
    <3> QED
      BY <1>1, <2>1, <3>1, ReturnStep
  <2>4. ASSUME NEW d \in Container, d # id
        PROVE  /\ lease'[d] = lease[d] /\ rec'[d] = rec[d]
               /\ (d \in dirs) = (d \in dirs')
    BY <1>1, <2>1, <2>4, LeasesApart, FilesApart
  <2>5. ASSUME NEW d \in Container PROVE Stored(d)' /\ (~Busy(d)' => KnowsLease(d)')
    <3>1. CASE d = id
      BY <2>1, <2>3, <3>1 DEF Busy
    <3>2. CASE d # id
      <4>1. Busy(d) => Busy(d)'
        BY <2>1, <3>2 DEF Busy
      <4> QED
        BY <2>4, <3>2, <4>1 DEF ReturnInv, Stored, KnowsLease
    <3> QED
      BY <3>1, <3>2
  <2>6. ASSUME NEW q \in Proc, NEW c \in Container, cli'[q] # Idle, cli'[q].of = c
        PROVE  Holds(q, c)'
    <3>1. CASE q = p
      BY <2>1, <2>3, <2>6, <3>1
    <3>2. CASE q # p
      <4>1. cli'[q] = cli[q] /\ Holds(q, c)
        BY <2>1, <2>6, <3>2 DEF ReturnInv
      <4>2. c # id
        BY <2>1, <2>6, <3>2, <4>1 DEF ReturnInv, OneInv
      <4> QED
        BY <2>4, <4>1, <4>2
        DEF Holds, RunHolds, StartHolds, HaltHolds, KnowsLease
    <3> QED
      BY <3>1, <3>2
  <2> QED
    BY <2>2, <2>5, <2>6 DEF ReturnInv
<1>2. ASSUME NEW p \in Proc, NEW id \in Container, Issue(p, id) PROVE ReturnInv'
  <2>1. /\ cli[p] = Idle /\ ~Busy(id)
        /\ \A q \in Proc \ {p} : cli'[q] = cli[q]
        /\ cli'[p] # Idle /\ cli'[p].of = id
        /\ UNCHANGED <<rec, lease>>
    BY <1>2, IssueEffect DEF network, Orderly
  <2>2. OneInv'
    BY <2>1 DEF ReturnInv, OneInv, Busy
  <2>3. dirs \subseteq dirs' /\ (cli'[p].cmd = "run" => rec[id] = NoRecord)
    <3>1. CASE \E attach, rm \in BOOLEAN, publish \in SUBSET Port :
                 Run(p, id, attach, rm, publish)
      <4>1. id \notin dirs /\ dirs' = dirs \cup {id}
        BY <3>1 DEF Run, Orderly
      <4> QED
        BY <4>1 DEF ReturnInv, Stored
    <3>2. CASE ~\E attach, rm \in BOOLEAN, publish \in SUBSET Port :
                 Run(p, id, attach, rm, publish)
      <4>1. /\ \A attach \in BOOLEAN : Start(p, id, attach) =>
                 dirs' = dirs /\ cli'[p].cmd = "start"
            /\ Stop(p, id) => dirs' = dirs /\ cli'[p].cmd = "stop"
            /\ \A force \in BOOLEAN : Rm(p, id, force) =>
                 dirs' = dirs /\ cli'[p].cmd = "rm"
        BY DEF Start, Stop, Rm, Begin, Command, files, TypeOK
      <4> QED
        BY <1>2, <3>2, <4>1 DEF Issue
    <3> QED
      BY <3>1, <3>2
  <2>4. KnowsLease(id) /\ (rec[id] = NoRecord => lease[id] = NoIP)
    BY <2>1 DEF ReturnInv, KnowsLease, NoRecord
  <2>5. Holds(p, id)'
    <3>1. NewRecord.ip = NoIP
      BY DEF NewRecord, NoRecord
    <3>2. CASE cli'[p].cmd = "run" /\ cli'[p].at = "tap" /\ cli'[p].c = NewRecord
      BY <2>1, <2>3, <2>4, <3>1, <3>2 DEF Holds, RunHolds, StartHolds, HaltHolds
    <3>3. CASE /\ cli'[p].cmd = "start" /\ cli'[p].at = "tap"
               /\ rec[id].status \in {"stopped", "failed"}
      BY <2>1, <2>4, <3>3
      DEF Holds, RunHolds, StartHolds, HaltHolds, KnowsLease, NoRecord
    <3>4. CASE /\ cli'[p].cmd \in {"stop", "rm"} /\ cli'[p].c = rec[id]
               /\ cli'[p].at \in {"await", "kill", "release"}
      BY <2>1, <2>4, <3>4
      DEF Holds, RunHolds, StartHolds, HaltHolds, KnowsLease
    <3> QED
      BY <1>2, <3>2, <3>3, <3>4, IssueEffect
  <2>6. ASSUME NEW d \in Container PROVE Stored(d)' /\ (~Busy(d)' => KnowsLease(d)')
    <3>1. Busy(d) => Busy(d)'
      BY <2>1 DEF Busy
    <3> QED
      BY <2>1, <2>3, <3>1 DEF ReturnInv, Stored, KnowsLease
  <2>7. ASSUME NEW q \in Proc, NEW c \in Container, cli'[q] # Idle, cli'[q].of = c
        PROVE  Holds(q, c)'
    <3>1. CASE q = p
      BY <2>1, <2>5, <2>7, <3>1
    <3>2. CASE q # p
      <4>1. cli'[q] = cli[q] /\ Holds(q, c)
        BY <2>1, <2>7, <3>2 DEF ReturnInv
      <4> QED
        BY <2>1, <4>1 DEF Holds, RunHolds, StartHolds, HaltHolds, KnowsLease
    <3> QED
      BY <3>1, <3>2
  <2> QED
    BY <2>2, <2>6, <2>7 DEF ReturnInv
<1>3. \A p \in Proc : ~Crash(p)
  BY DEF Crash, Orderly, TypeOK
<1>4. ~Reboot
  BY DEF Reboot, Orderly, TypeOK
<1>5. CASE UNCHANGED vars \/ \E pid \in PID : GuestExits(pid)
  <2>1. UNCHANGED <<dirs, rec, lease, cli>>
    BY <1>5 DEF vars, GuestExits, files, network
  <2> QED
    BY <2>1
    DEF ReturnInv, OneInv, Stored, Busy, KnowsLease, Holds, RunHolds,
        StartHolds, HaltHolds
<1> QED
  BY <1>1, <1>2, <1>3, <1>4, <1>5 DEF Next

(* Where no command is killed and QEMU starts, a container without a record*)
(* and without a command in progress holds no address: run, start, stop and*)
(* rm return what they took, also when `ip` fails half-way, and whatever   *)
(* order the user issues them in.                                          *)
THEOREM AddressesAreReturned == Orderly => (Spec => []RemovedHoldsNoAddress)
<1> SUFFICES ASSUME Orderly PROVE Spec => []RemovedHoldsNoAddress
  OBVIOUS
<1>1. Init => TypeOK /\ ReturnInv
  <2>1. Init => ReturnInv
    BY DEF Init, ReturnInv, OneInv, Stored, KnowsLease, NoRecord
  <2> QED
    BY <2>1, TypeInit
<1>2. TypeOK /\ ReturnInv /\ [Next]_vars => (TypeOK /\ ReturnInv)'
  BY TypeStep, ReturnNext
<1>3. ReturnInv => RemovedHoldsNoAddress
  BY DEF ReturnInv, KnowsLease, NoRecord, RemovedHoldsNoAddress
<1> QED
  BY <1>1, <1>2, <1>3, PTL DEF Spec
=============================================================================
