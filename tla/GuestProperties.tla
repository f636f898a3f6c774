------------------------- MODULE GuestProperties --------------------------
(***************************************************************************)
(* What a machine started by `run` or `start`, its process 1 and           *)
(* `poqman exec` have to guarantee together.                               *)
(***************************************************************************)
EXTENDS AgentExec

(* Settings of one word each survive the kernel command line: when the     *)
(* container's command starts, exactly the volumes of the container are    *)
(* mounted, each from its own device, at its target and in its mode, and   *)
(* a command of one word, or none, is the one that is started.             *)
OneWord(arg) == Len(arg) = 1
Wanted == {[volume |-> i - 1,
            on |-> [word |-> settings.volumes[i].target[1], open |-> FALSE],
            readonly |-> settings.volumes[i].readonly] :
             i \in DOMAIN settings.volumes}
SettingsArrive ==
  at \in {"start", "notify", "wait"} =>
    /\ (\A i \in DOMAIN settings.volumes : OneWord(settings.volumes[i].target))
         => mounted = Wanted
    /\ settings.cmd = <<>> => Command(cmdline).word = "/sbin/init"
    /\ Len(settings.cmd) = 1 /\ OneWord(settings.cmd[1])
         => Command(cmdline) = [word |-> settings.cmd[1][1], open |-> FALSE]

(* When the initrd goes on to mount the root, every module whose           *)
(* requirements are loaded is loaded, in whatever order the directory      *)
(* lists them: the passes of loadNinePModules reach their fixed point.     *)
ModulesLoaded ==
  at = "root" => \A m \in Module : Needs[m] \subseteq loaded => m \in loaded

(* A machine that has reached its command goes off only when the command   *)
(* has ended, SIGTERM was sent, or a process that process 1 adopted has    *)
(* died: the ip commands that process 1 itself has run are never taken for *)
(* the end of the container.                                               *)
PowersOffForAReason ==
  [][power' # power => at \in {"boot", "root", "start"} \/ main = "ended"
                         \/ asked \/ bereaved]_vars

(* Both goroutines of process 1 together turn the machine off once its     *)
(* command has ended, even when it ended before signal.Notify or its       *)
(* SIGCHLD was dropped, and once SIGTERM was sent, even when the command   *)
(* ignores it or the channel was full.                                     *)
EndPowersOff == (main = "ended" \/ asked) ~> power = "off"

(* Exec keeps the promise of ExecService: although nothing compares the    *)
(* ids of requests and answers, the execs share one stream, and each may   *)
(* connect and ping again, the guest starts a command at most once and     *)
(* never after its exec has reported, and each exec reports the outcome of *)
(* its own command or an error.                                            *)
Service == INSTANCE ExecService
  WITH starts <- runs, outcome <- result, deserted <- abandoned
ImplementsExecService == Service!Spec

(* Where the agent runs, every exec comes to an end, behind another exec,  *)
(* after a killed one and in a machine that goes off.                      *)
ExecEnds ==
  \A c \in Client :
    place[c] \in Waiting ~> place[c] \in {"done", "killed"} \/ at = "panic"
=============================================================================
