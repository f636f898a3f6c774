------------------------------ MODULE Builder ------------------------------
(***************************************************************************)
(* build: a Dockerfile is carried out on a root file system in a working   *)
(* directory that is named after the second in which the build began, and  *)
(* the result becomes an image of one layer.  FROM and KERNEL call Pull of *)
(* the image store and of the kernel store; RUN boots a virtual machine on *)
(* the root file system, which leaves the status of the command in a file. *)
(*                                                                         *)
(* Together with the commands of the stores this is all that processes do  *)
(* to the images and kernels on disk.                                      *)
(***************************************************************************)
EXTENDS KernelStore, Dockerfile

CONSTANTS
  ImageOf,     \* word -> the reference it stands for
  Dockerfiles  \* what there is to build

(* A Dockerfile is read as a sequence of instructions.                     *)
ASSUME DockerfileAssumption ==
  /\ \A lines \in Dockerfiles :
       IsSeq(lines) /\ \A i \in DOMAIN lines : /\ IsSeq(lines[i].words)
                                               /\ lines[i].cont \in BOOLEAN
  /\ \A lines \in Dockerfiles :
       LET instrs == Parse(lines).instrs
       IN  IsSeq(instrs) /\ \A i \in DOMAIN instrs :
                               instrs[i].kind = "KERNEL" => IsSeq(instrs[i].args)
  /\ \A plan \in Plan : \A p \in DOMAIN plan : \A i \in DOMAIN plan[p] :
       plan[p][i].kind = "build" => plan[p][i].lines \in Dockerfiles

VARIABLES
  work,   \* second -> root file system in the working directory
  bld,    \* the build of each process
  shared  \* seconds in which a build found the directory of another

buildVars == <<work, bld, shared>>
vars == <<imageVars, history, kernelVars, buildVars>>

NoBuild == [instrs |-> <<>>, pos |-> 1, kid |-> NoId, base |-> <<>>, layers |-> <<>>,
            settings |-> <<>>, bad |-> FALSE]

Init ==
  /\ ImageInit /\ KernelInit
  /\ work = <<>> /\ shared = {}
  /\ bld = [p \in Proc |-> NoBuild]

RootfsLayer == 0
Script == <<"tmp", "poqman-build.sh">>
ExitCode == <<"tmp", "poqman-exit-code">>

Second(p) == Cmd(p).second
CurRootfs(p) == IF Second(p) \in DOMAIN work THEN work[Second(p)] ELSE <<>>
PutRootfs(p, fs) == work' = With(work, Second(p), fs)
Instr(p) == bld[p].instrs[bld[p].pos]
Handles(p, kinds) ==
  At(p, "step") /\ bld[p].pos <= Len(bld[p].instrs) /\ Instr(p).kind \in kinds
Step(p, b) == bld' = [bld EXCEPT ![p] = [b EXCEPT !.pos = @ + 1]]

Parsed == [lines \in Dockerfiles |-> Parse(lines)]

(* Build: nothing is on disk yet when the Dockerfile cannot be read. *)
ParseDockerfile(p) ==
  /\ At(p, "parse")
  /\ LET parsed == Parsed[Cmd(p).lines]
     IN  IF parsed.result = "ok"
           THEN /\ bld' = [bld EXCEPT ![p] = [NoBuild EXCEPT !.instrs = parsed.instrs,
                                                !.settings = SettingsOf[""]]]
                /\ Goto(p, "begin")
           ELSE /\ Goto(p, IF parsed.result = "panic" THEN "panicked" ELSE "failed")
                /\ UNCHANGED bld
  /\ UNCHANGED <<stores, files, todo, faults, kills, kernelVars, work>>

BeginProcess(p) ==
  /\ At(p, "begin") /\ Goto(p, "step")
  /\ PutRootfs(p, CurRootfs(p))
  /\ UNCHANGED <<stores, files, todo, faults, kills, kernelVars, bld>>

-----------------------------------------------------------------------------
HandleFrom(p) ==
  /\ Handles(p, {"FROM"})
  /\ IF Len(Instr(p).platform) = 1 THEN Fail(p)
     ELSE loc' = [loc EXCEPT ![p].at = "resolve", ![p].pulling = "image",
                             ![p].ref = ParseImageRef(ImageOf[Instr(p).image]),
                             ![p].platform = Instr(p).platform]
  /\ UNCHANGED <<stores, files, todo, faults, kills, kernelVars, work, bld>>

FromPulled(p) ==
  /\ At(p, "pulled") /\ Cmd(p).kind = "build" /\ loc[p].pulling = "image"
  /\ IF loc[p].id \in DOMAIN images
       THEN loc' = [loc EXCEPT ![p].at = "from",
                               ![p].copy = NameOrder(DOMAIN images[loc[p].id].layers)]
       ELSE Fail(p)
  /\ UNCHANGED <<stores, files, todo, faults, kills, kernelVars, work, bld>>

(* A layer; copyDirContents looks at no error below its first directory.   *)
CopyBaseLayer(p) ==
  /\ At(p, "from") /\ loc[p].copy # <<>>
  /\ LET dirs == Dir(loc[p].id).layers
         layer == Head(loc[p].copy)
     IN  PutRootfs(p, IF layer \in DOMAIN dirs THEN Merge(dirs[layer], CurRootfs(p))
                      ELSE CurRootfs(p))
  /\ loc' = [loc EXCEPT ![p].copy = Tail(@)]
  /\ UNCHANGED <<stores, files, todo, faults, kills, kernelVars, bld>>

(* Mutant: the settings of the base image are not taken over. *)
KeepSettings(p) ==
  /\ At(p, "from") /\ loc[p].copy = <<>>
  /\ Step(p, [bld[p] EXCEPT !.base = Append(@, loc[p].id)])
  /\ Goto(p, "step")
  /\ UNCHANGED <<stores, files, todo, faults, kills, kernelVars, work>>

(* The settings are replaced; the files of an earlier FROM stay. *)
FromEnds(p) ==
  /\ At(p, "from") /\ loc[p].copy = <<>>
  /\ LET config == loc[p].config[1]
     IN  Step(p, [bld[p] EXCEPT !.layers = @ \o config.layers, !.settings = config.settings,
                                !.base = Append(@, loc[p].id)])
  /\ Goto(p, "step")
  /\ UNCHANGED <<stores, files, todo, faults, kills, kernelVars, work>>

HandleKernel(p) ==
  /\ Handles(p, {"KERNEL"})
  /\ kern' = [kern EXCEPT ![p].raw = Instr(p).args]
  /\ Goto(p, "kernel")
  /\ UNCHANGED <<stores, files, todo, faults, kills, kernelFiles, work, bld>>

KernelEnds(p) ==
  /\ At(p, "kerneled") /\ Cmd(p).kind = "build"
  /\ Step(p, [bld[p] EXCEPT !.kid = loc[p].id])
  /\ Goto(p, "step")
  /\ UNCHANGED <<stores, files, todo, faults, kills, kernelVars, work>>

-----------------------------------------------------------------------------
(* RUN.  Without a kernel nothing happens, and without QEMU the script     *)
(* stays.                                                                  *)
HasKernel(p) == bld[p].kid \in DOMAIN kernels /\ kernels[bld[p].kid].bin

HandleRun(p) ==
  /\ Handles(p, {"RUN"})
  /\ LET script == File(Script, "script") IN
     \/ ~HasKernel(p) /\ Step(p, bld[p]) /\ UNCHANGED <<work, loc>>
     \/ /\ HasKernel(p) /\ PutRootfs(p, Merge(Just(Script, script), CurRootfs(p)))
        /\ IF Cmd(p).qemu THEN Goto(p, "machine") /\ UNCHANGED bld
           ELSE Step(p, bld[p]) /\ UNCHANGED loc
  /\ UNCHANGED <<stores, files, todo, faults, kills, kernelVars>>

(* What the machine does until it has ended or its time is up: the command *)
(* makes the file it is named after or fails; the machine may come down    *)
(* before the shell creates the file for the status, or before it has      *)
(* written to it.  A RUN is bad when the command failed and nothing else   *)
(* can be read than that: no status that was there before, and no empty    *)
(* file, which reads as zero.                                              *)
Machine(p) ==
  /\ At(p, "machine") /\ Goto(p, "ran")
  /\ \E status \in {"0", "1"}, written \in {"all", "created", "nothing"} :
       /\ IF status = "0" /\ written = "all" THEN UNCHANGED faults ELSE Fault
       /\ LET made == IF status = "1" THEN <<>>
                      ELSE Just(Instr(p).args, File(Instr(p).args, "made"))
              exit == IF written = "nothing" THEN <<>>
                      ELSE Just(ExitCode, File(ExitCode, IF written = "all" THEN status ELSE ""))
          IN  PutRootfs(p, Merge(exit, Merge(made, CurRootfs(p))))
       /\ LET bad == /\ status = "1" /\ written # "created"
                     /\ ExitCode \notin DOMAIN CurRootfs(p)
          IN  bld' = [bld EXCEPT ![p].bad = @ \/ bad]
  /\ UNCHANGED <<stores, files, todo, kills, kernelVars>>

(* Mutant: whether the file is there is all that counts. *)
AnyStatus(p) ==
  /\ At(p, "ran")
  /\ PutRootfs(p, Restrict(CurRootfs(p), DOMAIN CurRootfs(p) \ {Script, ExitCode}))
  /\ IF ExitCode \in DOMAIN CurRootfs(p) THEN Step(p, bld[p]) /\ Goto(p, "step")
     ELSE Fail(p) /\ UNCHANGED bld
  /\ UNCHANGED <<stores, files, todo, faults, kills, kernelVars>>

(* No file is an error; an empty one reads as zero.  The layer with the    *)
(* differences goes to a directory that nobody reads.                      *)
RunEnds(p) ==
  /\ At(p, "ran")
  /\ PutRootfs(p, Restrict(CurRootfs(p), DOMAIN CurRootfs(p) \ {Script, ExitCode}))
  /\ IF ExitCode \in DOMAIN CurRootfs(p) /\ CurRootfs(p)[ExitCode].data # "1"
       THEN Step(p, bld[p]) /\ Goto(p, "step")
       ELSE Fail(p) /\ UNCHANGED bld
  /\ UNCHANGED <<stores, files, todo, faults, kills, kernelVars>>

-----------------------------------------------------------------------------
(* COPY and ADD. *)

(* The sources of a COPY or ADD, one after the other. *)
CopySources(fs, instr, patterns) ==
  LET Copy(acc, src) ==
        LET new == [t \in {Target(f, src, instr.dest) : f \in Taken(src, patterns)} |->
                      LET f == CHOOSE g \in Taken(src, patterns) :
                                 Target(g, src, instr.dest) = t
                      IN  File(t, Context[f])]
        IN  IF ~acc.ok \/ Skipped(instr, src, patterns) THEN acc
            ELSE [ok |-> Files(src) # {} /\ \A t \in DOMAIN new : CanWrite(acc.fs, t),
                  fs |-> Merge(new, acc.fs)]
      start == [ok |-> instr.kind = "ADD" \/ CanMake(fs, instr.dest), fs |-> fs]
  IN  FoldLeft(Copy, start, instr.sources)

HandleCopy(p) ==
  /\ Handles(p, {"COPY", "ADD"})
  /\ LET copied == CopySources(CurRootfs(p), Instr(p), Cmd(p).ignore)
     IN  IF copied.ok THEN PutRootfs(p, copied.fs) /\ Step(p, bld[p]) /\ UNCHANGED loc
         ELSE Fail(p) /\ UNCHANGED <<work, bld>>
  /\ UNCHANGED <<stores, files, todo, faults, kills, kernelVars>>

(* The handlers that only change the settings; ARG is recorded and never   *)
(* used, HEALTHCHECK has no handler.                                       *)
Configured(settings, i) ==
  CASE i.kind = "CMD" -> [settings EXCEPT !.cmd = i.args]
    [] i.kind = "ENTRYPOINT" -> [settings EXCEPT !.entrypoint = i.args]
    [] i.kind = "ENV" -> [settings EXCEPT !.env = Append(@, <<i.key, i.value>>)]
    [] i.kind = "WORKDIR" -> [settings EXCEPT !.workdir = i.args]
    [] i.kind = "EXPOSE" -> [settings EXCEPT !.ports = @ \cup {i.port}]
    [] i.kind = "VOLUME" -> [settings EXCEPT !.volumes = @ \cup {i.path}]
    [] i.kind = "USER" -> [settings EXCEPT !.user = i.args]
    [] i.kind = "LABEL" -> [settings EXCEPT !.labels = With(@, i.key, i.value)]
    [] i.kind = "SHELL" -> [settings EXCEPT !.shell = i.args]
    [] OTHER -> settings

Configure(p) ==
  /\ At(p, "step") /\ bld[p].pos <= Len(bld[p].instrs)
  /\ Instr(p).kind \notin {"FROM", "KERNEL", "RUN", "COPY", "ADD"}
  /\ Step(p, [bld[p] EXCEPT !.settings = Configured(@, Instr(p))])
  /\ UNCHANGED <<stores, files, todo, loc, faults, kills, kernelVars, work>>

(* The end of process. *)
ProcessEnds(p) ==
  /\ At(p, "step") /\ bld[p].pos > Len(bld[p].instrs)
  /\ IF bld[p].base # <<>> THEN Goto(p, "commit kernel") ELSE Fail(p)
  /\ UNCHANGED <<stores, files, todo, faults, kills, kernelVars, work, bld>>

-----------------------------------------------------------------------------
(* Mutant: the kernel is taken from the image that FROM names. *)
KeepKernel(p) ==
  /\ At(p, "commit kernel")
  /\ loc' = [loc EXCEPT ![p].at = "commit rootfs", ![p].id = NewId(p)]
  /\ Put(NewId(p), [EmptyDir EXCEPT !.kernel = Dir(Last(bld[p].base)).kernel])
  /\ UNCHANGED <<stores, archive, containers, todo, faults, kills, kernelVars, work, bld>>

(* commit.  Whether the kernel could be copied is not looked at. *)
CommitKernel(p) ==
  /\ At(p, "commit kernel")
  /\ loc' = [loc EXCEPT ![p].at = "commit rootfs", ![p].id = NewId(p)]
  /\ \E copied \in BOOLEAN :
       /\ copied => HasKernel(p)
       /\ IF HasKernel(p) /\ ~copied THEN Fault ELSE UNCHANGED faults
       /\ Put(NewId(p), [EmptyDir EXCEPT !.kernel = copied])
  /\ UNCHANGED <<stores, archive, containers, todo, kills, kernelVars, work, bld>>

(* A root file system that is gone makes no error and no layer. *)
CommitRootfs(p) ==
  /\ At(p, "commit rootfs") /\ Goto(p, "commit save")
  /\ IF Second(p) \in DOMAIN work
       THEN Put(NewId(p), [Dir(NewId(p)) EXCEPT !.layers = Just(RootfsLayer, CurRootfs(p))])
       ELSE UNCHANGED images
  /\ UNCHANGED <<stores, archive, containers, todo, faults, kills, kernelVars, work, bld>>

CommitSave(p) ==
  /\ At(p, "commit save")
  /\ Put(NewId(p), [Dir(NewId(p)) EXCEPT
                      !.config = <<[layers |-> Append(bld[p].layers, RootfsLayer),
                                    kernel |-> bld[p].kid, settings |-> bld[p].settings]>>])
  /\ ImageNames(p, {FullName(ParseImageRef(Cmd(p).raw))}, "clean", FALSE)
  /\ UNCHANGED <<stores, archive, containers, todo, faults, kills, kernelVars, work, bld>>

(* The working directory goes at the end, and after an error. *)
CleanUp(p) ==
  /\ At(p, "clean") \/ At(p, "build failed")
  /\ work' = Restrict(work, DOMAIN work \ {Second(p)})
  /\ Goto(p, IF At(p, "clean") THEN "done" ELSE "failed")
  /\ UNCHANGED <<stores, files, todo, faults, kills, kernelVars, bld>>

BuildStep(p) ==
  \/ ParseDockerfile(p) \/ BeginProcess(p) \/ HandleFrom(p) \/ FromPulled(p)
  \/ CopyBaseLayer(p) \/ FromEnds(p) \/ HandleKernel(p) \/ KernelEnds(p)
  \/ HandleRun(p) \/ Machine(p) \/ RunEnds(p) \/ HandleCopy(p) \/ Configure(p)
  \/ ProcessEnds(p) \/ CommitKernel(p) \/ CommitRootfs(p) \/ CommitSave(p) \/ CleanUp(p)

-----------------------------------------------------------------------------
(* A build that finds the directory of its second in use. *)
RememberBuilds ==
  shared' = shared \cup {Second(p) : p \in {q \in Proc :
              At(q, "begin") /\ At(q, "step")' /\ Second(q) \in DOMAIN work}}

Progress(p) ==
  \/ ImageStep(p) /\ UNCHANGED <<kernelVars, work, bld>>
  \/ KernelStep(p) /\ UNCHANGED <<work, bld>>
  \/ BuildStep(p)
  \/ NextCommand(p) /\ UNCHANGED <<kernelVars, work, bld>>

Next ==
  /\ \/ \E p \in Proc : Progress(p)
     \/ \E p \in Proc : Killed(p) /\ UNCHANGED <<kernelVars, work, bld>>
     \/ \E p \in Proc : Stall(p) /\ UNCHANGED <<work, bld>>
     \/ ContainerStops /\ UNCHANGED <<kernelVars, work, bld>>
  /\ Remember /\ RememberBuilds

Spec == Init /\ [][Next]_vars

(* The system runs every process that can go on; each of its steps changes *)
(* one of these variables.                                                 *)
FairSpec == Spec /\ \A p \in Proc : WF_<<todo, loc, images, kern, bld>>(Progress(p))
=============================================================================
