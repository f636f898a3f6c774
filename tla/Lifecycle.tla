----------------------------- MODULE Lifecycle ----------------------------
(***************************************************************************)
(* pkg/cli run.go, start.go, stop.go and rm.go over pkg/container/store.go *)
(* and pkg/network/manager.go: `poqman` commands, each a process of its    *)
(* own, that create, stop, restart and remove containers.  They share the  *)
(* container directories, the TAP devices, the address allocations, the    *)
(* DNAT rules and the QEMU processes, and there is no lock between them.   *)
(*                                                                         *)
(* One action is one effect of a command that others can see.  CreateTap,  *)
(* ReleaseIP and the methods of Store are single steps here: what happens  *)
(* inside the first two, kills included, is the subject of NetworkManager, *)
(* which implements IPAM.  A command that fails before it changed anything *)
(* is not a step.  `rm a b` is `rm a` and then `rm b`.                     *)
(***************************************************************************)
EXTENDS Naturals, FiniteSets

CONSTANTS
  Container,    \* container IDs or --name values
  Proc,         \* `poqman` processes that exist at the same time
  Address, NoIP,
  Port,         \* host ports that can be published
  Tap, NoTap,   \* interface names; the empty string
  TapName,      \* [Container -> Tap]: "tap-" and the first 12 characters
  Faults,       \* what the host may fail, see FaultKinds
  OnePerContainer, \* users run one command at a time per container
  FreshNames,      \* users do not reuse a --name whose directory exists
  MaxCommands, MaxCrashes, MaxReboots

FaultKinds == {"net",     \* ip and iptables
               "kernel",  \* the image has no kernel
               "qemu",    \* QEMU does not start
               "disk"}    \* writing under the container directory

ASSUME NamesAssumption ==
  /\ NoIP \notin Address
  /\ NoTap \notin Tap
  /\ TapName \in [Container -> Tap]
ASSUME EnvironmentAssumption ==
  /\ Faults \subseteq FaultKinds
  /\ {OnePerContainer, FreshNames} \subseteq BOOLEAN
  /\ {MaxCommands, MaxCrashes, MaxReboots} \subseteq Nat

VARIABLES
  dirs,     \* containers whose directory exists
  rec,      \* config.json and state.json of each container
  vm,       \* the QEMU processes by process ID
  booted,   \* how many QEMU processes there have been
  taps,     \* TAP devices; they are persistent and outlive QEMU
  lease,    \* Allocations in networks/state.json
  rules,    \* DNAT rules of the nat table
  cli,      \* what each `poqman` process is doing
  commands, crashes, reboots   \* how many there have been

vars == <<dirs, rec, vm, booted, taps, lease, rules, cli, commands, crashes,
          reboots>>
network == <<taps, lease, rules>>
machines == <<vm, booted>>
files == <<dirs, rec>>
bounds == <<commands, crashes, reboots>>

Net == INSTANCE IPAM

PID == 1..MaxCommands   \* every command starts at most one QEMU, so the
                        \* guard of Boot is never false
Status == {"created", "running", "stopped", "failed"}

Record == [status : Status, pid : PID \cup {0}, ip : Address \cup {NoIP},
           ports : SUBSET Port]
NoRecord == [status |-> "none", pid |-> 0, ip |-> NoIP, ports |-> {}]
NewRecord == [NoRecord EXCEPT !.status = "created"]

VM == [of : Container, ip : Address \cup {NoIP}]   \* ip: what its guest uses
Dead == [of |-> "nothing"]

Places == {"tap", "forward", "boot", "record", "wait", "reap", "destroy",
           "await", "kill", "killed", "unpublish", "release", "save", "remove"}

(* A command in progress: its flags and local variables. *)
Active == [cmd : {"run", "start", "stop", "rm"},
           at : Places,
           of : Container,
           attach : BOOLEAN,              \* run -it, start -a
           rm : BOOLEAN,                  \* run --rm
           publish : SUBSET Port,         \* run -p
           tap : Tap \cup {NoTap},        \* tapName
           net : BOOLEAN,                 \* hasNetwork
           deferred : BOOLEAN,            \* the function returns
           c : Record]                    \* the *Container in memory

Idle == [cmd |-> "none"]

TypeOK ==
  /\ dirs \subseteq Container
  /\ rec \in [Container -> Record \cup {NoRecord}]
  /\ vm \in [PID -> VM \cup {Dead}]
  /\ booted \in 0..MaxCommands
  /\ taps \subseteq Tap
  /\ lease \in [Container -> Address \cup {NoIP}]
  /\ rules \subseteq [port : Port, to : Address \cup {NoIP}]
  /\ cli \in [Proc -> Active \cup {Idle}]
  /\ commands \in 0..MaxCommands
  /\ crashes \in 0..MaxCrashes
  /\ reboots \in 0..MaxReboots

Init ==
  /\ dirs = {}
  /\ rec = [c \in Container |-> NoRecord]
  /\ vm = [pid \in PID |-> Dead]
  /\ booted = 0
  /\ taps = {}
  /\ Net!Init
  /\ rules = {}
  /\ cli = [p \in Proc |-> Idle]
  /\ commands = 0 /\ crashes = 0 /\ reboots = 0

Alive(pid) == pid \in PID /\ vm[pid] # Dead
Busy(c) == \E p \in Proc : cli[p] # Idle /\ cli[p].of = c

-----------------------------------------------------------------------------
(* Steps of a command. *)

Begin(p, frame) ==
  /\ cli[p] = Idle
  /\ OnePerContainer => ~Busy(frame.of)
  /\ commands < MaxCommands
  /\ commands' = commands + 1
  /\ cli' = [cli EXCEPT ![p] = frame]
  /\ UNCHANGED <<crashes, reboots>>

At(p, cmds, places) ==
  cli[p] # Idle /\ cli[p].cmd \in cmds /\ cli[p].at \in places

Goto(p, place) == cli' = [cli EXCEPT ![p].at = place] /\ UNCHANGED bounds
End(p) == cli' = [cli EXCEPT ![p] = Idle] /\ UNCHANGED bounds

Command(name, place, id, c) ==
  [cmd |-> name, at |-> place, of |-> id, attach |-> FALSE, rm |-> FALSE,
   publish |-> {}, tap |-> NoTap, net |-> FALSE, deferred |-> FALSE, c |-> c]

(* Store.Save: it does not create the directory, and its callers ignore    *)
(* its error.                                                              *)
Save(id, c) ==
  /\ \/ id \in dirs /\ rec' = [rec EXCEPT ![id] = c]
     \/ (id \notin dirs \/ "disk" \in Faults) /\ UNCHANGED rec
  /\ UNCHANGED dirs

(* Store.Create sets the status of the container back to created. *)
Created(c) == [c EXCEPT !.status = "created"]
Create(id, c) ==
  /\ rec' = [rec EXCEPT ![id] = Created(c)]
  /\ dirs' = dirs \cup {id}

(* Store.Remove: os.RemoveAll of the container directory. *)
Remove(id) ==
  /\ rec' = [rec EXCEPT ![id] = NoRecord]
  /\ dirs' = dirs \ {id}

(* Process.Kill; killing a process that is gone does nothing. *)
Kill(pid) ==
  /\ vm' = IF Alive(pid) THEN [vm EXCEPT ![pid] = Dead] ELSE vm
  /\ UNCHANGED booted

Boot(id, ip) ==
  /\ booted < MaxCommands
  /\ booted' = booted + 1
  /\ vm' = [vm EXCEPT ![booted + 1] = [of |-> id, ip |-> ip]]

(* Manager.CreateTap as its callers see it. *)
TapExists(id) == TapName[id] \in taps /\ UNCHANGED <<taps, lease>>
TapCreated(id) ==
  /\ TapName[id] \notin taps
  /\ taps' = taps \cup {TapName[id]}
  /\ Net!Acquire(id)
TapFails(id) ==
  /\ TapName[id] \notin taps
  /\ \/ (\A i \in Address : Net!InUse(i)) /\ UNCHANGED taps
     \/ "net" \in Faults /\ taps' \in {taps, taps \cup {TapName[id]}}
  /\ UNCHANGED lease

(* Mutant: ReleaseIP writes a fresh state. *)
ReleaseAll(id) == lease' = [c \in Container |-> NoIP]

(* Manager.ReleaseIP. *)
ReleaseIP(id) == Net!GiveUp(id)

-----------------------------------------------------------------------------
(* poqman run [-it] [--rm] [-p ...] [--name id] image *)

(* The container directory is made and the root file system assembled; an  *)
(* existing directory of that name is reused.                              *)
Run(p, id, attach, rm, publish) ==
  /\ FreshNames => id \notin dirs
  /\ Begin(p, [Command("run", "tap", id, NewRecord) EXCEPT
                 !.attach = attach, !.rm = rm, !.publish = publish])
  /\ dirs' = dirs \cup {id}
  /\ UNCHANGED <<rec, machines, network>>

(* AssembleRootfs or InjectInit fails: the directory stays. *)
RunAssembleFails(p) ==
  /\ At(p, {"run"}, {"tap"}) /\ "disk" \in Faults
  /\ End(p)
  /\ UNCHANGED <<files, machines, network>>

(* Mutant: the two strings that CreateTap returns are swapped. *)
RunTapSwapped(p) ==
  /\ At(p, {"run"}, {"tap"})
  /\ TapCreated(cli[p].of)
  /\ cli' = [cli EXCEPT ![p].at = "forward", ![p].net = TRUE,
               ![p].tap = lease'[cli[p].of], ![p].c.ip = TapName[cli[p].of]]
  /\ UNCHANGED <<files, machines, rules, bounds>>

(* Without a device the container runs without a network, but tapName is   *)
(* set when the device exists already.                                     *)
RunTap(p) ==
  /\ At(p, {"run"}, {"tap"})
  /\ LET id == cli[p].of
         With(tap, net, ip) ==
           cli' = [cli EXCEPT ![p].at = "forward", ![p].tap = tap,
                              ![p].net = net, ![p].c.ip = ip]
     IN  \/ TapExists(id) /\ With(TapName[id], FALSE, NoIP)
         \/ TapFails(id) /\ With(NoTap, FALSE, NoIP)
         \/ TapCreated(id) /\ With(TapName[id], TRUE, lease'[id])
  /\ UNCHANGED <<files, machines, rules, bounds>>

(* Mutant: start forwards the ports to the address of the last time. *)
ForwardOld(p) ==
  /\ At(p, {"run", "start"}, {"forward"})
  /\ LET f == cli[p]
         ports == IF f.cmd = "start" THEN f.c.ports
                  ELSE IF f.net THEN f.publish ELSE {}
     IN  /\ rules' = rules \cup
              [port : ports, to : {IF f.cmd = "start" THEN rec[f.of].ip ELSE f.c.ip}]
         /\ cli' = [cli EXCEPT ![p].at = "boot", ![p].c.ports = ports]
  /\ UNCHANGED <<files, machines, taps, lease, bounds>>

(* AddPortForward for every published port; errors are ignored. *)
Forward(p) ==
  /\ At(p, {"run", "start"}, {"forward"})
  /\ LET f == cli[p]
         ports == IF f.cmd = "start" THEN f.c.ports
                  ELSE IF f.net THEN f.publish ELSE {}
     IN  /\ \E done \in SUBSET ports :
              /\ done = ports \/ "net" \in Faults
              /\ rules' = rules \cup [port : done, to : {f.c.ip}]
         /\ cli' = [cli EXCEPT ![p].at = "boot", ![p].c.ports = ports]
  /\ UNCHANGED <<files, machines, taps, lease, bounds>>

(* "no kernel found": everything set up so far stays. *)
RunNoKernel(p) ==
  /\ At(p, {"run"}, {"boot"}) /\ "kernel" \in Faults
  /\ End(p)
  /\ UNCHANGED <<files, machines, network>>

(* QEMU does not start: the device goes, address and rules stay. *)
BootFails(p) ==
  /\ At(p, {"run", "start"}, {"boot"}) /\ "qemu" \in Faults
  /\ taps' = IF cli[p].net THEN taps \ {cli[p].tap} ELSE taps
  /\ End(p)
  /\ UNCHANGED <<files, machines, lease, rules>>

(* StartProcess or StartProcessDetached, then c.Status = running. *)
BootQEMU(p) ==
  /\ At(p, {"run", "start"}, {"boot"})
  /\ Boot(cli[p].of, cli[p].c.ip)
  /\ cli' = [cli EXCEPT ![p].at = "record", ![p].c.pid = booted',
                        ![p].c.status = "running"]
  /\ UNCHANGED <<files, network, bounds>>

(* store.Create, after which -d returns; --rm defers its clean-up.         *)
RunRecord(p) ==
  /\ At(p, {"run"}, {"record"})
  /\ Create(cli[p].of, cli[p].c)
  /\ IF cli[p].attach \/ cli[p].rm
       THEN /\ cli' = [cli EXCEPT ![p].c = Created(cli[p].c),
                         ![p].at = IF cli[p].attach THEN "wait" ELSE "reap"]
            /\ UNCHANGED bounds
       ELSE End(p)
  /\ UNCHANGED <<machines, network>>

(* store.Create fails: QEMU runs on without a record. *)
RunRecordFails(p) ==
  /\ At(p, {"run"}, {"record"}) /\ "disk" \in Faults
  /\ End(p)
  /\ UNCHANGED <<files, machines, network>>

(* proc.Wait of an attached run or start returns. *)
Exited(p) ==
  /\ At(p, {"run", "start"}, {"wait"})
  /\ ~Alive(cli[p].c.pid)
  /\ Save(cli[p].of, [cli[p].c EXCEPT !.status = "stopped"])
  /\ IF cli[p].rm THEN Goto(p, "destroy") ELSE End(p)
  /\ UNCHANGED <<machines, network>>

(* Mutant: Wait instead of WaitWithTimeout. *)
RunReapWaits(p) ==
  /\ At(p, {"run"}, {"reap"})
  /\ ~Alive(cli[p].c.pid)
  /\ cli' = [cli EXCEPT ![p].at = "destroy", ![p].deferred = TRUE]
  /\ UNCHANGED bounds
  /\ UNCHANGED <<files, machines, network>>

(* The deferred WaitWithTimeout: after five seconds it kills QEMU. *)
RunReap(p) ==
  /\ At(p, {"run"}, {"reap"})
  /\ Kill(cli[p].c.pid)
  /\ cli' = [cli EXCEPT ![p].at = "destroy", ![p].deferred = TRUE]
  /\ UNCHANGED <<files, network, bounds>>

(* DestroyTap, ReleaseIP and Remove of run --rm; after run -it they run    *)
(* twice, at the end of the function and in the deferred function.         *)
RunDestroyTap(p) ==
  /\ At(p, {"run"}, {"destroy"})
  /\ taps' = taps \ {cli[p].tap}
  /\ Goto(p, "release")
  /\ UNCHANGED <<files, machines, lease, rules>>

RunRelease(p) ==
  /\ At(p, {"run"}, {"release"})
  /\ ReleaseIP(cli[p].of)
  /\ Goto(p, "remove")
  /\ UNCHANGED <<files, machines, taps, rules>>

RunRemove(p) ==
  /\ At(p, {"run"}, {"remove"})
  /\ Remove(cli[p].of)
  /\ IF cli[p].deferred THEN End(p) ELSE Goto(p, "reap")
  /\ UNCHANGED <<machines, network>>

-----------------------------------------------------------------------------
(* poqman start [-a] id *)

Start(p, id, attach) ==
  /\ rec[id].status \in {"stopped", "failed"}
  /\ Begin(p, [Command("start", "tap", id, rec[id]) EXCEPT !.attach = attach])
  /\ UNCHANGED <<files, machines, network>>

(* Here a container without a network is an error. *)
StartTap(p) ==
  /\ At(p, {"start"}, {"tap"})
  /\ LET id == cli[p].of IN
     \/ (TapExists(id) \/ TapFails(id)) /\ End(p)
     \/ /\ TapCreated(id)
        /\ cli' = [cli EXCEPT ![p].at = "forward", ![p].tap = TapName[id],
                              ![p].net = TRUE, ![p].c.ip = lease'[id]]
        /\ UNCHANGED bounds
  /\ UNCHANGED <<files, machines, rules>>

StartRecord(p) ==
  /\ At(p, {"start"}, {"record"})
  /\ Save(cli[p].of, cli[p].c)
  /\ IF cli[p].attach THEN Goto(p, "wait") ELSE End(p)
  /\ UNCHANGED <<machines, network>>

-----------------------------------------------------------------------------
(* poqman stop id and poqman rm [-f] id *)

(* QMPConnect reaches whichever QEMU serves the container's socket; it     *)
(* fails when there is none, or when QEMU has not opened it yet.           *)
Stop(p, id) ==
  /\ rec[id].status = "running"
  /\ \/ /\ \E pid \in PID : vm[pid] # Dead /\ vm[pid].of = id
        /\ Begin(p, Command("stop", "await", id, rec[id]))
     \/ Begin(p, Command("stop", "kill", id, rec[id]))
  /\ UNCHANGED <<files, machines, network>>

(* Mutant: rm -f does not kill. *)
RmUnkilled(p, id, force) ==
  /\ rec[id] # NoRecord
  /\ rec[id].status = "running" => force
  /\ Begin(p, Command("rm", "release", id, rec[id]))
  /\ UNCHANGED <<files, machines, network>>

Rm(p, id, force) ==
  /\ rec[id] # NoRecord
  /\ \/ rec[id].status = "running" /\ force
        /\ Begin(p, Command("rm", "kill", id, rec[id]))
     \/ rec[id].status # "running"
        /\ Begin(p, Command("rm", "release", id, rec[id]))
  /\ UNCHANGED <<files, machines, network>>

(* Mutant: stop does not wait for the process. *)
StopAnyway(p) ==
  /\ At(p, {"stop"}, {"await"})
  /\ Goto(p, "unpublish")
  /\ UNCHANGED <<files, machines, network>>

(* waitForContainerExit sees the process gone. *)
StopExited(p) ==
  /\ At(p, {"stop"}, {"await"})
  /\ ~Alive(cli[p].c.pid)
  /\ Goto(p, "unpublish")
  /\ UNCHANGED <<files, machines, network>>

(* Mutant: waitForContainerExit has no timeout. *)
StopKillUnreachable(p) ==
  /\ At(p, {"stop"}, {"kill"})
  /\ Kill(cli[p].c.pid)
  /\ Goto(p, "unpublish")
  /\ UNCHANGED <<files, network>>

(* The timeout of waitForContainerExit, or forceKillContainer. *)
StopKill(p) ==
  /\ At(p, {"stop"}, {"await", "kill"})
  /\ Kill(cli[p].c.pid)
  /\ Goto(p, "unpublish")
  /\ UNCHANGED <<files, network>>

(* forceKill of rm -f also saves the record. *)
RmKill(p) ==
  /\ At(p, {"rm"}, {"kill"})
  /\ Kill(cli[p].c.pid)
  /\ Goto(p, "killed")
  /\ UNCHANGED <<files, network>>

RmSave(p) ==
  /\ At(p, {"rm"}, {"killed"})
  /\ Save(cli[p].of, [cli[p].c EXCEPT !.status = "stopped"])
  /\ Goto(p, "release")
  /\ UNCHANGED <<machines, network>>

(* RemovePortForward names no destination, so it deletes only a rule       *)
(* without one.                                                            *)
StopUnpublish(p) ==
  /\ At(p, {"stop"}, {"unpublish"})
  /\ rules' = rules \ [port : cli[p].c.ports, to : {NoIP}]
  /\ Goto(p, "release")
  /\ UNCHANGED <<files, machines, taps, lease>>

(* Mutant: only stop releases the address. *)
ReleaseOnStop(p) ==
  /\ At(p, {"stop", "rm"}, {"release"})
  /\ IF cli[p].cmd = "stop" THEN ReleaseIP(cli[p].of) ELSE UNCHANGED lease
  /\ Goto(p, IF cli[p].cmd = "stop" THEN "save" ELSE "remove")
  /\ UNCHANGED <<files, machines, taps, rules>>

(* ReleaseIP is called if the record has an address. *)
Release(p) ==
  /\ At(p, {"stop", "rm"}, {"release"})
  /\ IF cli[p].c.ip # NoIP THEN ReleaseIP(cli[p].of) ELSE UNCHANGED lease
  /\ Goto(p, IF cli[p].cmd = "stop" THEN "save" ELSE "remove")
  /\ UNCHANGED <<files, machines, taps, rules>>

StopSave(p) ==
  /\ At(p, {"stop"}, {"save"})
  /\ Save(cli[p].of, [cli[p].c EXCEPT !.status = "stopped"])
  /\ End(p)
  /\ UNCHANGED <<machines, network>>

RmRemove(p) ==
  /\ At(p, {"rm"}, {"remove"})
  /\ Remove(cli[p].of)
  /\ End(p)
  /\ UNCHANGED <<machines, network>>

-----------------------------------------------------------------------------
(* The rest of the world. *)

(* A guest shuts down, by itself or after system_powerdown. *)
GuestExits(pid) ==
  /\ Alive(pid)
  /\ Kill(pid)
  /\ UNCHANGED <<files, network, cli, bounds>>

(* A command is killed; QEMU has a process group of its own and survives. *)
Crash(p) ==
  /\ cli[p] # Idle /\ crashes < MaxCrashes
  /\ crashes' = crashes + 1
  /\ cli' = [cli EXCEPT ![p] = Idle]
  /\ UNCHANGED <<files, machines, network, commands, reboots>>

(* The host restarts: processes, devices and rules are gone, files stay. *)
Reboot ==
  /\ reboots < MaxReboots
  /\ reboots' = reboots + 1
  /\ vm' = [pid \in PID |-> Dead]
  /\ taps' = {} /\ rules' = {}
  /\ cli' = [p \in Proc |-> Idle]
  /\ UNCHANGED <<files, booted, lease, commands, crashes>>

Step(p) ==
  \/ RunAssembleFails(p) \/ RunTap(p) \/ Forward(p) \/ RunNoKernel(p)
  \/ BootFails(p) \/ BootQEMU(p) \/ RunRecord(p) \/ RunRecordFails(p)
  \/ Exited(p) \/ RunReap(p) \/ RunDestroyTap(p) \/ RunRelease(p) \/ RunRemove(p)
  \/ StartTap(p) \/ StartRecord(p)
  \/ StopExited(p) \/ StopKill(p) \/ StopUnpublish(p) \/ StopSave(p)
  \/ RmKill(p) \/ RmSave(p) \/ RmRemove(p) \/ Release(p)

Issue(p, id) ==
  \/ \E attach, rm \in BOOLEAN, publish \in SUBSET Port :
       Run(p, id, attach, rm, publish)
  \/ \E attach \in BOOLEAN : Start(p, id, attach)
  \/ Stop(p, id)
  \/ \E force \in BOOLEAN : Rm(p, id, force)

Next ==
  \/ \E p \in Proc : Step(p) \/ Crash(p) \/ \E id \in Container : Issue(p, id)
  \/ \E pid \in PID : GuestExits(pid)
  \/ Reboot

Spec == Init /\ [][Next]_vars

(* The kernel schedules every command; stop and the deferred function of   *)
(* run --rm wait for a bounded time only.  Guests need not ever exit.      *)
Fairness == \A p \in Proc : WF_vars(Step(p))

FairSpec == Spec /\ Fairness
=============================================================================
