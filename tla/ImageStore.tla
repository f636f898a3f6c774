---------------------------- MODULE ImageStore ----------------------------
(***************************************************************************)
(* The images on disk and the commands that work on them: pull (which run  *)
(* and build call first), rmi, save, load and the assembly of a            *)
(* container's root file system by run.  Every command is a process of its *)
(* own; the mutexes of the code bind goroutines of one process only, so    *)
(* that commands interleave at every file they read or write, and may be   *)
(* killed anywhere.                                                        *)
(*                                                                         *)
(* A layer is the sequence of the entries of its archive.  Modes, owners,  *)
(* directories and the parents that are created for a file are left out.   *)
(***************************************************************************)
EXTENDS References

CONSTANTS
  Proc,       \* processes
  Plan,       \* the commands each process may be given, one after the other
  Remote,     \* <<registry, repository, tag>> -> manifest: [list, entries]
  LayersOf,   \* image -> its layers in the order of the manifest
  Tar,        \* layer -> its entries, [path, kind, data]
  SettingsOf, \* image -> command, environment and the like
  MaxFaults,  \* requests and writes that fail
  MaxKills

(* A layer is a number, the rank of its digest among all digests. *)
ASSUME LayerAssumption ==
  /\ \A i \in DOMAIN LayersOf : /\ IsSeq(LayersOf[i])
                                /\ Range(LayersOf[i]) \subseteq Nat \cap DOMAIN Tar
  /\ \A l \in DOMAIN Tar :
       /\ IsSeq(Tar[l])
       /\ \A e \in Range(Tar[l]) : e = [path |-> e.path, kind |-> e.kind, data |-> e.data]

(* What a registry answers names images that it has. *)
ASSUME RemoteAssumption ==
  \A name \in DOMAIN Remote :
    LET entries == Remote[name].entries
    IN  /\ IsSeq(entries) /\ (Remote[name].list \/ entries # <<>>)
        /\ \A i \in DOMAIN entries : entries[i].image \in DOMAIN LayersOf

(* The settings of an image, but for the stop signal, which nothing reads. *)
SettingNames ==
  {"cmd", "entrypoint", "env", "workdir", "ports", "volumes", "user", "labels", "shell"}
ASSUME SettingsAssumption ==
  \A i \in DOMAIN LayersOf : DOMAIN SettingsOf[i] = SettingNames /\ IsSeq(SettingsOf[i].env)

(* Where each command begins. *)
First == [pull |-> "resolve", run |-> "resolve", rmi |-> "rmi", save |-> "save image",
          load |-> "load image", build |-> "parse", kpull |-> "kernel",
          krm |-> "kernel rm"]

(* The commands that processes are given have the fields of a command.     *)
ASSUME PlanAssumption ==
  \A plan \in Plan :
    /\ DOMAIN plan = Proc
    /\ \A p \in Proc : /\ IsSeq(plan[p]) /\ plan[p] # <<>>
                       /\ \A i \in DOMAIN plan[p] : /\ plan[p][i].kind \in DOMAIN First
                                                    /\ IsSeq(plan[p][i].kernel)

ASSUME LimitAssumption == MaxFaults \in Nat /\ MaxKills \in Nat

VARIABLES
  index,       \* "image" and "kernel": what index.json holds, name -> id
  torn,        \* index.json was truncated and is not yet written
  images,      \* id -> directory, [config, layers, kernel]
  archive,     \* what save has written
  containers,  \* container -> [image, rootfs, up]
  todo,        \* commands of each process, the current one first
  loc,         \* where each process is, with its local variables
  faults, kills,
  lost,        \* an index was written over a newer one
  disturbed,   \* ids that two processes worked on at once, or half removed
  halved,      \* kernels removed by a command that could not remove the name
  spoiled      \* ids with layers that a failed or killed command left behind

stores == <<index, torn, lost>>
files == <<images, archive, containers>>
imageVars == <<stores, files, todo, loc, faults, kills>>
history == <<disturbed, halved, spoiled>>

Ended == {"done", "failed", "killed", "panicked"}
Cmd(p) == Head(todo[p])
Busy(p) == loc[p].at \notin Ended
At(p, place) == loc[p].at = place
Goto(p, place) == loc' = [loc EXCEPT ![p].at = place]

NoId == <<"none">>
NoConfig == <<>>
EmptyDir == [config |-> NoConfig, layers |-> <<>>, kernel |-> FALSE]
Dir(id) == IF id \in DOMAIN images THEN images[id] ELSE EmptyDir
(* f with v at x, and the function that is only that.                      *)
With(f, x, v) == [y \in DOMAIN f \cup {x} |-> IF y = x THEN v ELSE f[y]]
Just(x, v) == [y \in {x} |-> v]

Put(id, dir) == images' = With(images, id, dir)
NewId(p) == <<Cmd(p).kind, p, Len(todo[p])>>

Local(cmd) ==
  [at |-> First[cmd.kind], ref |-> ParseImageRef(cmd.raw), platform |-> cmd.platform,
   pulling |-> "image", image |-> "", id |-> NoId, config |-> NoConfig,
   n |-> 1, e |-> 1, tries |-> 0, blob |-> "good", met |-> FALSE,
   store |-> "image", idx |-> <<>>, names |-> {}, next |-> "", strict |-> TRUE,
   copy |-> <<>>]

(* What is written over what is there: nothing replaces a link, a file is  *)
(* written through it (what it leads to is left out), and no link replaces *)
(* a file.                                                                 *)
Merge(new, old) ==
  [f \in DOMAIN new \cup DOMAIN old |->
     IF f \notin DOMAIN old THEN new[f]
     ELSE IF f \notin DOMAIN new \/ "link" \in {new[f].kind, old[f].kind} THEN old[f]
     ELSE new[f]]

ImageInit ==
  /\ index = [image |-> <<>>, kernel |-> <<>>]
  /\ torn = [image |-> FALSE, kernel |-> FALSE]
  /\ images = <<>> /\ archive = <<>> /\ containers = <<>>
  /\ todo \in Plan
  /\ loc = [p \in Proc |-> Local(Head(todo[p]))]
  /\ faults = 0 /\ kills = 0
  /\ lost = FALSE /\ disturbed = {} /\ halved = {} /\ spoiled = {}

(* An error that ends the command; build first removes its directory.      *)
Failed(p) == IF Cmd(p).kind = "build" THEN "build failed" ELSE "failed"
Fail(p) == loc' = [loc EXCEPT ![p].at = Failed(p)]
FailMet(p) == loc' = [loc EXCEPT ![p].at = Failed(p), ![p].met = TRUE]
Fault == faults < MaxFaults /\ faults' = faults + 1

-----------------------------------------------------------------------------
(* pkg/image/store.go.  A torn index cannot be parsed.                     *)

Has(id) == id \in DOMAIN images /\ images[id].config # NoConfig

(* Resolve, with its fallback to the tag latest; any error is NoId, which  *)
(* its callers take for "not found".                                       *)
Resolve(ref) ==
  LET name == FullName(ref)
      latest == FullName([ref EXCEPT !.tag = "latest", !.digest = ""])
      names == DOMAIN index["image"]
      id == IF name \in names THEN index["image"][name]
            ELSE IF latest \in names THEN index["image"][latest] ELSE NoId
  IN  IF ~torn["image"] /\ Has(id) THEN id ELSE NoId

(* LoadIndex.  Where the caller ignores the error it then writes to a map  *)
(* it did not get, and panics.                                             *)
LoadIndex(p) ==
  /\ At(p, "load")
  /\ LET s == loc[p].store IN
     IF ~torn[s]
       THEN loc' = [loc EXCEPT ![p].at = "truncate", ![p].idx = index[s],
                               ![p].names = IF loc[p].next \in {"removing", "kernel removing"}
                                              THEN {n \in DOMAIN index[s] :
                                                      index[s][n] = loc[p].id}
                                              ELSE @]
       ELSE loc' = [loc EXCEPT ![p].at = IF loc[p].strict THEN Failed(p) ELSE "panicked",
                               ![p].met = TRUE]
  /\ UNCHANGED <<stores, files, todo, faults, kills>>

(* os.WriteFile truncates the file and then writes it. *)
Truncate(p) ==
  /\ At(p, "truncate") /\ Goto(p, "write")
  /\ torn' = [torn EXCEPT ![loc[p].store] = TRUE]
  /\ UNCHANGED <<index, lost, files, todo, faults, kills>>

(* Remove drops every name of the id, Add gives it its names. *)
Change(p) ==
  LET old == loc[p].idx
  IN  IF loc[p].next \in {"removing", "kernel removing"}
        THEN Restrict(old, DOMAIN old \ loc[p].names)
        ELSE [n \in DOMAIN old \cup loc[p].names |->
                IF n \in loc[p].names THEN loc[p].id ELSE old[n]]

(* SaveIndex; when the disk is full the file stays empty, and some callers *)
(* do not look.                                                            *)
SaveIndex(p) ==
  /\ At(p, "write")
  /\ LET s == loc[p].store IN
     \/ /\ index' = [index EXCEPT ![s] = Change(p)]
        /\ torn' = [torn EXCEPT ![s] = FALSE]
        /\ lost' = (lost \/ index[s] # loc[p].idx)
        /\ Goto(p, loc[p].next) /\ UNCHANGED faults
     \/ /\ Fault
        /\ IF loc[p].strict /\ loc[p].next # "kernel removing"
             THEN FailMet(p) ELSE Goto(p, loc[p].next)
        /\ UNCHANGED stores
  /\ UNCHANGED <<files, todo, kills>>

ImageNames(p, names, next, strict) ==
  loc' = [loc EXCEPT ![p].at = "load", ![p].store = "image", ![p].names = names,
                     ![p].next = next, ![p].strict = strict]

-----------------------------------------------------------------------------
(* pkg/registry: the requests of a pull.                                   *)

Requests == {"manifest", "platform", "config", "blob"}

(* Mutant: one attempt too many. *)
FourAttempts(p) ==
  /\ loc[p].at \in Requests
  /\ IF loc[p].tries = 0 THEN Fault ELSE UNCHANGED faults
  /\ \/ FailMet(p)
     \/ loc[p].tries < 3 /\ loc' = [loc EXCEPT ![p].tries = @ + 1]
  /\ UNCHANGED <<stores, files, todo, kills>>

(* Mutant: after the last attempt counting begins anew. *)
AlwaysAgain(p) ==
  /\ loc[p].at \in Requests
  /\ IF loc[p].tries = 0 THEN Fault ELSE UNCHANGED faults
  /\ loc' = [loc EXCEPT ![p].tries = IF @ = 2 THEN 1 ELSE @ + 1]
  /\ UNCHANGED <<stores, files, todo, kills>>

(* doWithRetry: three attempts, and no more after a client error (4xx).    *)
(* An attempt that is refused for want of a token fetches one and is       *)
(* repeated; without a token it has failed.                                *)
FailedAttempt(p) ==
  /\ loc[p].at \in Requests
  /\ IF loc[p].tries = 0 THEN Fault ELSE UNCHANGED faults
  /\ \/ FailMet(p)
     \/ loc[p].tries < 2 /\ loc' = [loc EXCEPT ![p].tries = @ + 1]
  /\ UNCHANGED <<stores, files, todo, kills>>

(* Pull begins.  What is found is taken whatever platform was asked for.   *)
PullResolve(p) ==
  /\ At(p, "resolve")
  /\ LET id == Resolve(loc[p].ref)
     IN  loc' = [loc EXCEPT ![p].id = id, ![p].tries = 0,
                            ![p].config = Dir(id).config,
                            ![p].at = IF id = NoId THEN "manifest" ELSE "pulled"]
  /\ UNCHANGED <<stores, files, todo, faults, kills>>

(* resolveManifest: the first request asks for the tag even when the name  *)
(* has a digest, the second for the entry of the platform.                 *)
FetchManifest(p) ==
  /\ At(p, "manifest")
  /\ LET ref == loc[p].ref
         name == <<ref.registry, ref.repository, ref.tag>>
         known == name \in DOMAIN Remote
         entries == Remote[name].entries
         i == MatchManifest(entries, ParsePlatform(loc[p].platform))
     IN  IF ~known \/ (Remote[name].list /\ i = 0)
           THEN FailMet(p)
           ELSE loc' = [loc EXCEPT
                  ![p].at = IF Remote[name].list THEN "platform" ELSE "config",
                  ![p].image = entries[IF Remote[name].list THEN i ELSE 1].image,
                  ![p].tries = 0]
  /\ UNCHANGED <<stores, files, todo, faults, kills>>

FetchPlatform(p) ==
  /\ At(p, "platform")
  /\ loc' = [loc EXCEPT ![p].at = "config", ![p].tries = 0]
  /\ UNCHANGED <<stores, files, todo, faults, kills>>

(* fetchBlob of the configuration, whose digest is the id of the image. An *)
(* image that is there only gets the name.                                 *)
FetchConfig(p) ==
  /\ At(p, "config")
  /\ \/ LET id == <<"remote", loc[p].image, 0>> IN
        /\ loc' = [loc EXCEPT ![p].id = id, ![p].tries = 0, ![p].n = 1,
             ![p].at = IF Has(id) THEN "load" ELSE "layer",
             ![p].config = Dir(id).config, ![p].store = "image", ![p].names = {FullName(loc[p].ref)},
             ![p].next = "pulled", ![p].strict = IF Has(id) THEN FALSE ELSE TRUE]
        /\ UNCHANGED faults
     \/ Fault /\ FailMet(p)
  /\ UNCHANGED <<stores, files, todo, kills>>

Layers(p) == LayersOf[loc[p].image]
Layer(p) == Layers(p)[loc[p].n]
Content(p) ==
  LET dirs == Dir(loc[p].id).layers
  IN  IF Layer(p) \in DOMAIN dirs THEN dirs[Layer(p)] ELSE <<>>
PutLayer(p, content) ==
  Put(loc[p].id, [Dir(loc[p].id) EXCEPT !.layers = With(@, Layer(p), content)])

(* The next layer: its directory is made before it is requested. *)
NextLayer(p) ==
  /\ At(p, "layer")
  /\ IF loc[p].n > Len(Layers(p)) THEN Goto(p, "save") /\ UNCHANGED images
     ELSE Goto(p, "blob") /\ PutLayer(p, Content(p))
  /\ UNCHANGED <<stores, archive, containers, todo, faults, kills>>

(* GetBlob.  A bad one is not what the digest says, or is cut off by the   *)
(* network or by the client's timeout, which covers the whole body.        *)
GetBlob(p) ==
  /\ At(p, "blob")
  /\ \E blob \in {"good", "bad"} :
       /\ IF blob = "bad" THEN Fault ELSE UNCHANGED faults
       /\ loc' = [loc EXCEPT ![p].at = "extract", ![p].e = 1, ![p].tries = 0,
                             ![p].blob = blob, ![p].met = @ \/ blob = "bad"]
  /\ UNCHANGED <<stores, files, todo, kills>>

(* Mutant: a file that is there is an error too. *)
ExtractNew(p) ==
  /\ At(p, "extract") /\ loc[p].e <= Len(Tar[Layer(p)])
  /\ LET entry == Tar[Layer(p)][loc[p].e] IN
     \/ /\ entry.path \notin DOMAIN Content(p)
        /\ PutLayer(p, Merge(Just(entry.path, entry), Content(p)))
        /\ loc' = [loc EXCEPT ![p].e = @ + 1]
     \/ /\ loc[p].blob = "bad" \/ entry.path \in DOMAIN Content(p)
        /\ Fail(p) /\ UNCHANGED images
  /\ UNCHANGED <<stores, archive, containers, todo, faults, kills>>

(* An entry of ExtractLayer; a file is written over, a link is not. *)
ExtractEntry(p) ==
  /\ At(p, "extract") /\ loc[p].e <= Len(Tar[Layer(p)])
  /\ LET entry == Tar[Layer(p)][loc[p].e] IN
     \/ /\ entry.kind = "link" => entry.path \notin DOMAIN Content(p)
        /\ \E data \in {entry.data} \cup IF loc[p].blob = "bad" THEN {"wrong"} ELSE {} :
             PutLayer(p, Merge(Just(entry.path, [entry EXCEPT !.data = data]), Content(p)))
        /\ loc' = [loc EXCEPT ![p].e = @ + 1]
     \/ /\ loc[p].blob = "bad" \/ (entry.kind = "link" /\ entry.path \in DOMAIN Content(p))
        /\ Fail(p) /\ UNCHANGED images
  /\ UNCHANGED <<stores, archive, containers, todo, faults, kills>>

(* Mutant: the digest of what was extracted is not compared. *)
NoVerify(p) ==
  /\ At(p, "extract") /\ loc[p].e > Len(Tar[Layer(p)])
  /\ loc' = [loc EXCEPT ![p].at = "layer", ![p].n = @ + 1]
  /\ UNCHANGED <<stores, files, todo, faults, kills>>

(* The end of ExtractLayer: the digest is compared after the extraction.   *)
VerifyLayer(p) ==
  /\ At(p, "extract") /\ loc[p].e > Len(Tar[Layer(p)])
  /\ IF loc[p].blob = "good"
       THEN loc' = [loc EXCEPT ![p].at = "layer", ![p].n = @ + 1]
       ELSE Fail(p)
  /\ UNCHANGED <<stores, files, todo, faults, kills>>

(* Save, of the image that was pulled. *)
SaveImage(p) ==
  /\ At(p, "save")
  /\ LET config == <<[layers |-> Layers(p), kernel |-> NoId,
                      settings |-> SettingsOf[loc[p].image]]>>
     IN  /\ Put(loc[p].id, [Dir(loc[p].id) EXCEPT !.config = config])
         /\ loc' = [loc EXCEPT ![p].at = "load", ![p].config = config]
  /\ UNCHANGED <<stores, archive, containers, todo, faults, kills>>

Pulled(p) ==
  /\ At(p, "pulled") /\ Cmd(p).kind = "pull" /\ Goto(p, "done")
  /\ UNCHANGED <<stores, files, todo, faults, kills>>

Pull(p) ==
  \/ PullResolve(p) \/ FetchManifest(p) \/ FetchPlatform(p) \/ FetchConfig(p)
  \/ NextLayer(p) \/ GetBlob(p) \/ ExtractEntry(p) \/ VerifyLayer(p)
  \/ SaveImage(p) \/ Pulled(p) \/ FailedAttempt(p)
  \/ LoadIndex(p) \/ Truncate(p) \/ SaveIndex(p)

-----------------------------------------------------------------------------
(* rmi refuses an image with a container that has not stopped, looks for   *)
(* the names once more, and removes the directory bit by bit.              *)
RmiResolve(p) ==
  /\ At(p, "rmi")
  /\ LET id == Resolve(loc[p].ref)
         used == \E c \in DOMAIN containers :
                   containers[c].image = id /\ containers[c].up
     IN  IF id = NoId \/ used THEN Fail(p)
         ELSE loc' = [loc EXCEPT ![p].at = "load", ![p].id = id, ![p].next = "removing"]
  /\ UNCHANGED <<stores, files, todo, faults, kills>>

RemoveAll(p) ==
  /\ At(p, "removing")
  /\ LET id == loc[p].id
         dir == Dir(id) IN
     \/ /\ dir.config # NoConfig /\ Put(id, [dir EXCEPT !.config = NoConfig])
        /\ UNCHANGED loc
     \/ \E l \in DOMAIN dir.layers :
          /\ Put(id, [dir EXCEPT !.layers = Restrict(@, DOMAIN @ \ {l})])
          /\ UNCHANGED loc
     \/ /\ dir.config = NoConfig /\ DOMAIN dir.layers = {}
        /\ images' = Restrict(images, DOMAIN images \ {id})
        /\ Goto(p, "done")
  /\ UNCHANGED <<stores, archive, containers, todo, faults, kills>>

(* save: layers without a directory are passed over; a link that leads     *)
(* nowhere on this machine is an error.                                    *)
WriteArchive(p) ==
  /\ At(p, "save image")
  /\ LET id == Resolve(loc[p].ref) IN
     \/ id = NoId /\ Fail(p) /\ UNCHANGED archive
     \/ /\ id # NoId
        /\ archive' = <<[name |-> FullName(loc[p].ref), config |-> images[id].config]>>
        /\ \/ Goto(p, "done")
           \/ Fail(p) /\ \E l \in DOMAIN images[id].layers :
                \E f \in DOMAIN images[id].layers[l] :
                  images[id].layers[l][f].kind = "link"
  /\ UNCHANGED <<stores, images, containers, todo, faults, kills>>

(* load: the configuration gets a new id and the old name; what the        *)
(* archive holds besides is unpacked in a directory that is then removed.  *)
ReadArchive(p) ==
  /\ At(p, "load image")
  /\ IF archive = <<>> THEN Fail(p) /\ UNCHANGED images
     ELSE /\ Put(NewId(p), [EmptyDir EXCEPT !.config = archive[1].config])
          /\ loc' = [loc EXCEPT ![p].at = "load", ![p].id = NewId(p),
                                ![p].names = {archive[1].name},
                                ![p].next = "done", ![p].strict = FALSE]
  /\ UNCHANGED <<stores, archive, containers, todo, faults, kills>>

-----------------------------------------------------------------------------
(* run: the root file system of a new container.                           *)
Container(p) == <<p, Len(todo[p])>>
NameOrder(digests) == SetToSortSeq(digests, <)

(* AssembleRootfs reads the directory of the layers, and finds it empty    *)
(* when it is not there.                                                   *)
AssembleRootfs(p) ==
  /\ At(p, "pulled") /\ Cmd(p).kind = "run"
  /\ loc' = [loc EXCEPT ![p].at = "copy",
                        ![p].copy = NameOrder(DOMAIN Dir(loc[p].id).layers)]
  /\ containers' = With(containers, Container(p),
                        [image |-> loc[p].id, rootfs |-> <<>>, up |-> FALSE, done |-> FALSE])
  /\ UNCHANGED <<stores, images, archive, todo, faults, kills>>

Rootfs(p) == containers[Container(p)].rootfs

(* copyDir of a layer, in the order of the names of the directories; a     *)
(* link that is there already is an error.                                 *)
CopyLayer(p) ==
  /\ At(p, "copy") /\ loc[p].copy # <<>>
  /\ LET layer == Head(loc[p].copy)
         there == layer \in DOMAIN Dir(loc[p].id).layers
         content == Dir(loc[p].id).layers[layer]
         clash == \E f \in DOMAIN content : content[f].kind = "link" /\ f \in DOMAIN Rootfs(p)
     IN  IF there /\ ~clash
           THEN /\ containers' = [containers EXCEPT ![Container(p)].rootfs = Merge(content, @)]
                /\ loc' = [loc EXCEPT ![p].copy = Tail(@)]
           ELSE Fail(p) /\ UNCHANGED containers
  /\ UNCHANGED <<stores, images, archive, todo, faults, kills>>

(* Mutant: the last layer is forgotten. *)
StopBeforeLast(p) ==
  /\ At(p, "copy") /\ Len(loc[p].copy) <= 1
  /\ containers' = [containers EXCEPT ![Container(p)].done = TRUE]
  /\ Goto(p, "copy kernel")
  /\ UNCHANGED <<stores, images, archive, todo, faults, kills>>

Assembled(p) ==
  /\ At(p, "copy") /\ loc[p].copy = <<>>
  /\ containers' = [containers EXCEPT ![Container(p)].done = TRUE]
  /\ Goto(p, "copy kernel")
  /\ UNCHANGED <<stores, images, archive, todo, faults, kills>>

(* Only an image that build made has a kernel; without one run gives up. *)
CopyKernel(p) ==
  /\ At(p, "copy kernel")
  /\ IF Dir(loc[p].id).kernel
       THEN /\ containers' = [containers EXCEPT ![Container(p)].up = TRUE]
            /\ Goto(p, "done")
       ELSE Fail(p) /\ UNCHANGED containers
  /\ UNCHANGED <<stores, images, archive, todo, faults, kills>>

ContainerStops ==
  /\ \E c \in DOMAIN containers :
       /\ containers[c].up
       /\ containers' = [containers EXCEPT ![c].up = FALSE]
  /\ UNCHANGED <<stores, images, archive, todo, loc, faults, kills>>

-----------------------------------------------------------------------------
(* The process is killed; a file it was writing over may be left short.    *)
Killed(p) ==
  /\ Busy(p) /\ kills < MaxKills
  /\ kills' = kills + 1 /\ Goto(p, "killed")
  /\ \/ UNCHANGED images
     \/ /\ At(p, "extract") /\ loc[p].e <= Len(Tar[Layer(p)])
        /\ LET entry == Tar[Layer(p)][loc[p].e] IN
             /\ entry.kind = "file" /\ entry.path \in DOMAIN Content(p)
             /\ PutLayer(p, Restrict(Content(p), DOMAIN Content(p) \ {entry.path}))
  /\ UNCHANGED <<stores, archive, containers, todo, faults>>

NextCommand(p) ==
  /\ ~Busy(p) /\ Len(todo[p]) > 1
  /\ todo' = [todo EXCEPT ![p] = Tail(@)]
  /\ loc' = [loc EXCEPT ![p] = Local(todo[p][2])]
  /\ UNCHANGED <<stores, files, faults, kills>>

ImageStep(p) ==
  \/ Pull(p) \/ RmiResolve(p) \/ RemoveAll(p) \/ WriteArchive(p) \/ ReadArchive(p)
  \/ AssembleRootfs(p) \/ CopyLayer(p) \/ Assembled(p) \/ CopyKernel(p)

(* What two processes do at once to one image or kernel, and what a kill   *)
(* or an error leaves half done; a kernel is removed even when the index   *)
(* could not be written.                                                   *)
Together ==
  {loc[p].id : p \in {q \in Proc : Busy(q) /\ \E r \in Proc \ {q} :
                                     Busy(r) /\ loc[r].id = loc[q].id}} \ {NoId}
Remember ==
  /\ disturbed' = disturbed \cup Together'
       \cup {loc[p].id : p \in {q \in Proc : At(q, "removing") /\ At(q, "killed")'}}
  /\ halved' = halved \cup {loc[p].id : p \in {q \in Proc :
                  At(q, "write") /\ At(q, "kernel removing")' /\ faults' # faults}}
  /\ spoiled' = spoiled \cup Together'
       \cup {loc[p].id : p \in {q \in Proc : /\ loc[q].at \in {"blob", "extract", "layer", "save"}
                                             /\ loc'[q].at \in {"failed", "build failed", "killed"}}}
=============================================================================
