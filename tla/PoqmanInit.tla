---------------------------- MODULE PoqmanInit ----------------------------
(***************************************************************************)
(* cmd/poqman-init/main.go, process 1 of the virtual machine, from the     *)
(* start of QEMU by `run` or `start` to the power-off: modules of an       *)
(* initrd, root file system, network, volumes, the container's command,    *)
(* and the two goroutines that turn the machine off, one waiting for the   *)
(* command and one reading signals.  Mounts of /proc, /sys and /dev ignore *)
(* their errors and are left out, and so is the shell fallback of init.    *)
(***************************************************************************)
EXTENDS Cmdline

CONSTANTS
  Module,       \* files in /lib/modules of the initrd
  ModuleOrder,  \* the order os.ReadDir lists them in
  Needs,        \* Needs[m]: modules that have to be there before m loads
  RootNeeds,    \* modules without which the 9p root cannot be mounted
  MaxPasses,    \* 20 in the code
  Settings,     \* containers to start, see Setting
  MaxOrphans    \* background processes whose parent has ended

ASSUME ModuleAssumption ==
  /\ ModuleOrder \in Seq(Module) /\ Range(ModuleOrder) = Module
  /\ DOMAIN Needs = Module
  /\ MaxPasses \in Nat \ {0} /\ MaxOrphans \in Nat

(* Modules do not need each other in a circle, and no chain of modules is  *)
(* longer than there are passes.                                           *)
Depth == 0..(MaxPasses - 1)
ASSUME DepthAssumption ==
  \E depth \in [Module -> Depth] :
    \A m \in Module : \A n \in Needs[m] \cap Module : depth[n] < depth[m]

(* A word is not empty, because the words are what stands between blanks;  *)
(* a volume has a directory on the host, without which QEMU does not start.*)
IsArg(arg) == arg \in Seq(Range(arg)) /\ "" \notin Range(arg)
ASSUME SettingsAssumption ==
  \A s \in Settings :
    /\ IsArg(s.ip)
    /\ s.cmd \in Seq(Range(s.cmd)) /\ \A arg \in Range(s.cmd) : IsArg(arg)
    /\ s.volumes \in Seq(Range(s.volumes))
    /\ \A v \in Range(s.volumes) :
         IsArg(v.source) /\ v.source # <<>> /\ IsArg(v.target) /\ v.readonly \in BOOLEAN

VARIABLES
  settings,  \* what the container was started with
  cmdline,   \* /proc/cmdline
  at,        \* where main is
  loaded, passes, entry, anyLoaded,   \* loadNinePModules: passes over, file, pass
  mounted,   \* volumes
  main,      \* the container's command: "none", "running" or "ended"
  orphans,   \* background processes that process 1 has adopted
  notified,  \* signal.Notify was called
  sigCh,     \* the channel of capacity one
  handler,   \* the goroutine that reads it: "receive" or "grace"
  power,
  asked, bereaved   \* a SIGTERM was sent; an adopted process has died

initVars == <<settings, cmdline, at, loaded, passes, entry, anyLoaded, mounted, main,
              orphans, notified, sigCh, handler, power, asked, bereaved>>
loading == <<loaded, passes, entry, anyLoaded>>
booting == <<settings, cmdline, at, loading, mounted>>
running == <<main, orphans, notified, sigCh, handler, power, asked, bereaved>>

IpSteps == {"addr", "up", "route"}
Places == IpSteps \cup {"boot", "load", "root", "setup", "volumes", "start",
                        "notify", "wait", "panic"}

InitTypeOK ==
  /\ settings \in Settings
  /\ at \in Places
  /\ loaded \subseteq Module /\ passes \in 0..MaxPasses
  /\ entry \in 1..(Len(ModuleOrder) + 1) /\ anyLoaded \in BOOLEAN
  /\ \A m \in mounted : m.volume \in Nat /\ m.readonly \in BOOLEAN
  /\ main \in {"none", "running", "ended"}
  /\ orphans \in 0..MaxOrphans
  /\ {notified, asked, bereaved} \subseteq BOOLEAN
  /\ sigCh \in {<<>>, <<"CHLD">>, <<"TERM">>}
  /\ handler \in {"receive", "grace"}
  /\ power \in {"on", "off"}

InitInit ==
  /\ settings \in Settings
  /\ cmdline = BuildInitCmdline(settings.cmd, settings.ip, settings.volumes)
  /\ at = "boot"
  /\ loaded = {} /\ passes = 0 /\ entry = 1 /\ anyLoaded = FALSE /\ mounted = {}
  /\ main = "none" /\ orphans = 0
  /\ notified = FALSE /\ sigCh = <<>> /\ handler = "receive"
  /\ power = "on"
  /\ asked = FALSE /\ bereaved = FALSE

Goto(place) == at' = place
Off == power' = "off" /\ UNCHANGED <<main, orphans, notified, sigCh, handler,
                                     asked, bereaved>>

(* Mutant: the channel has room for two. *)
PostTwo(sig) ==
  sigCh' = IF notified /\ Len(sigCh) < 2 THEN Append(sigCh, sig) ELSE sigCh

(* The kernel signals the death of a child; signal.Notify does not block,  *)
(* so that a signal is dropped when the channel is full.                   *)
Post(sig) ==
  sigCh' = IF notified /\ sigCh = <<>> THEN <<sig>> ELSE sigCh

-----------------------------------------------------------------------------
(* `run` names an initrd even when it has built none, and QEMU refuses a   *)
(* missing file; `start` never names one, and a kernel without 9p waits in *)
(* a panic when the root is 9p.                                            *)
Boot ==
  /\ at = "boot"
  /\ \/ settings.by = "run" /\ settings.modular /\ Goto("load")
        /\ UNCHANGED running
     \/ settings.by = "run" /\ ~settings.modular /\ Off /\ UNCHANGED at
     \/ settings.by = "start" /\ settings.modular /\ Goto("panic")
        /\ UNCHANGED running
     \/ settings.by = "start" /\ ~settings.modular /\ Goto("setup")
        /\ UNCHANGED running
  /\ UNCHANGED <<settings, cmdline, loading, mounted>>

(* The next file of the directory.  A module that needs one that is not    *)
(* there, or is loaded already, is passed over.                            *)
LoadModule ==
  /\ at = "load" /\ entry <= Len(ModuleOrder)
  /\ LET m == ModuleOrder[entry]
     IN  IF m \notin loaded /\ Needs[m] \subseteq loaded
           THEN loaded' = loaded \cup {m} /\ anyLoaded' = TRUE
           ELSE UNCHANGED <<loaded, anyLoaded>>
  /\ entry' = entry + 1
  /\ UNCHANGED <<settings, cmdline, at, passes, mounted>> /\ UNCHANGED running

(* Mutant: the loop stops after the first pass. *)
EndOfOnlyPass ==
  /\ at = "load" /\ entry > Len(ModuleOrder)
  /\ passes' = passes + 1 /\ Goto("root")
  /\ UNCHANGED <<settings, cmdline, loaded, entry, anyLoaded, mounted>>
  /\ UNCHANGED running

(* Another pass follows one that has loaded a module, up to the last.      *)
EndOfPass ==
  /\ at = "load" /\ entry > Len(ModuleOrder)
  /\ passes' = passes + 1
  /\ IF anyLoaded /\ passes' < MaxPasses
       THEN entry' = 1 /\ anyLoaded' = FALSE /\ UNCHANGED at
       ELSE Goto("root") /\ UNCHANGED <<entry, anyLoaded>>
  /\ UNCHANGED <<settings, cmdline, loaded, mounted>> /\ UNCHANGED running

(* The 9p root is mounted and poqman-init executed again from it; InjectInit *)
(* and ensureInit see to it that /sbin/init exists.                        *)
MountRoot ==
  /\ at = "root"
  /\ IF RootNeeds \subseteq loaded THEN Goto("setup") /\ UNCHANGED running
     ELSE Off /\ UNCHANGED at
  /\ UNCHANGED <<settings, cmdline, loading, mounted>>

(* Mutant: signal.Notify is called before the network is set up. *)
SetupNotified ==
  /\ at = "setup"
  /\ notified' = TRUE
  /\ Goto(IF settings.ip # <<>> /\ settings.iface THEN "addr" ELSE "volumes")
  /\ UNCHANGED <<settings, cmdline, loading, mounted, main, orphans,
                 sigCh, handler, power, asked, bereaved>>

(* setupNetwork returns early without an address or an interface. *)
Setup ==
  /\ at = "setup"
  /\ Goto(IF settings.ip # <<>> /\ settings.iface THEN "addr" ELSE "volumes")
  /\ UNCHANGED <<settings, cmdline, loading, mounted>>
  /\ UNCHANGED running

(* One ip command, a child of process 1; whether it succeeds is ignored,   *)
(* and what it does to the interface is not modelled.                      *)
IpCommand ==
  /\ at \in IpSteps
  /\ Post("CHLD")
  /\ Goto(CASE at = "addr" -> "up" [] at = "up" -> "route"
            [] at = "route" -> "volumes")
  /\ UNCHANGED <<settings, cmdline, loading, mounted, main, orphans, notified,
                 handler, power, asked, bereaved>>

(* A volume without a device cannot be mounted, which is not an error. *)
MountVolumes ==
  /\ at = "volumes"
  /\ mounted' = {m \in Mounts(cmdline) : m.volume \in Attached(settings.volumes)}
  /\ Goto("start")
  /\ UNCHANGED <<settings, cmdline, loading>> /\ UNCHANGED running

(* cmd.Start of the shell, or of bash; without one the machine stops. *)
StartMain ==
  /\ at = "start"
  /\ IF settings.shell
       THEN /\ main' = "running" /\ Goto("notify")
            /\ UNCHANGED <<orphans, notified, sigCh, handler, power, asked, bereaved>>
       ELSE Off /\ UNCHANGED at
  /\ UNCHANGED <<settings, cmdline, loading, mounted>>

(* signal.Notify, after which both goroutines run. *)
Notify ==
  /\ at = "notify"
  /\ notified' = TRUE /\ Goto("wait")
  /\ UNCHANGED <<settings, cmdline, loading, mounted, main, orphans,
                 sigCh, handler, power, asked, bereaved>>

(* cmd.Wait returns; whatever the exit code, shutdown powers off. *)
WaitReturns == at = "wait" /\ main = "ended" /\ Off /\ UNCHANGED booting

(* Mutant: SIGTERM is passed on, and that is all. *)
PassOn ==
  /\ at = "wait" /\ handler = "receive" /\ sigCh # <<>>
  /\ sigCh' = <<>>
  /\ power' = IF sigCh[1] = "CHLD" THEN "off" ELSE power
  /\ UNCHANGED <<main, orphans, notified, handler, asked, bereaved>>
  /\ UNCHANGED booting

(* The signal goroutine: the death of any child is taken for the end of    *)
(* the container, SIGTERM gives the command five seconds.                  *)
HandleSignal ==
  /\ at = "wait" /\ handler = "receive" /\ sigCh # <<>>
  /\ sigCh' = <<>>
  /\ IF sigCh[1] = "CHLD" THEN power' = "off" /\ UNCHANGED handler
     ELSE handler' = "grace" /\ UNCHANGED power
  /\ UNCHANGED <<main, orphans, notified, asked, bereaved>>
  /\ UNCHANGED booting

GraceOver ==
  /\ handler = "grace"
  /\ main' = "ended" /\ power' = "off"
  /\ UNCHANGED <<orphans, notified, sigCh, handler, asked, bereaved>>
  /\ UNCHANGED booting

-----------------------------------------------------------------------------
(* What runs in the guest. *)
MainEnds ==
  /\ main = "running" /\ main' = "ended"
  /\ Post("CHLD")
  /\ UNCHANGED <<orphans, notified, handler, power, asked, bereaved>>
  /\ UNCHANGED booting

(* A daemon of the command, say, whose parent ends. *)
Adopt ==
  /\ main = "running" /\ orphans < MaxOrphans /\ orphans' = orphans + 1
  /\ UNCHANGED <<main, notified, sigCh, handler, power, asked, bereaved>>
  /\ UNCHANGED booting

Terminate ==
  /\ notified /\ ~asked /\ asked' = TRUE
  /\ Post("TERM")
  /\ UNCHANGED <<main, orphans, notified, handler, power, bereaved>>
  /\ UNCHANGED booting

OrphanDies ==
  /\ orphans > 0 /\ orphans' = orphans - 1
  /\ bereaved' = TRUE
  /\ Post("CHLD")
  /\ UNCHANGED <<main, notified, handler, power, asked>>
  /\ UNCHANGED booting

InitStep ==
  \/ Boot \/ LoadModule \/ EndOfPass \/ MountRoot \/ Setup \/ IpCommand \/ MountVolumes
  \/ StartMain \/ Notify \/ WaitReturns \/ HandleSignal \/ GraceOver
=============================================================================
