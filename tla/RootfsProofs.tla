---------------------------- MODULE RootfsProofs ----------------------------
(***************************************************************************)
(* What run and build make of an image: run copies its layers into the     *)
(* root file system of a container, and build takes over its settings and  *)
(* changes them as the Dockerfile says.                                    *)
(***************************************************************************)
EXTENDS ImageProofs, ReadingProofs

(* No layer has a file at the path of a link of a layer below it.          *)
LinksStand ==
  \A i \in DOMAIN LayersOf : \A j, k \in DOMAIN LayersOf[i] :
    j < k => \A f \in DOMAIN LayerContent(LayersOf[i][j]) :
               /\ LayerContent(LayersOf[i][j])[f].kind = "link"
               /\ f \in DOMAIN LayerContent(LayersOf[i][k])
               => LayerContent(LayersOf[i][k])[f].kind = "link"

-----------------------------------------------------------------------------
(* Of the first k layers the last one that has a path decides about it.    *)
Decides(s, k, i, f) ==
  /\ f \in DOMAIN LayerContent(s[i])
  /\ \A j \in i + 1 .. k : f \notin DOMAIN LayerContent(s[j])
StackedUpTo(s, k, rootfs) ==
  /\ rootfs = [f \in DOMAIN rootfs |-> rootfs[f]]
  /\ \A i \in 1 .. k : DOMAIN LayerContent(s[i]) \subseteq DOMAIN rootfs
  /\ \A f \in DOMAIN rootfs :
       \E i \in 1 .. k : Decides(s, k, i, f) /\ rootfs[f] = LayerContent(s[i])[f]

(* copy is what is left of s, and rootfs what was copied.                  *)
Stage(s, copy, rootfs) ==
  \E k \in 0 .. Len(s) :
    /\ IsSeq(copy) /\ Len(copy) = Len(s) - k
    /\ \A i \in 1 .. Len(copy) : copy[i] = s[k + i]
    /\ StackedUpTo(s, k, rootfs)

InOrder(id) == IsRemote(id) /\ LayersOf[id[2]] = NameOrder(Range(LayersOf[id[2]]))

(* The directory of a pulled image has no other layers than its manifest.  *)
Fits(id, dir) ==
  dir.config # NoConfig \/ DOMAIN dir.layers # {} =>
    /\ id[2] \in DOMAIN LayersOf
    /\ DOMAIN dir.layers \subseteq Range(LayersOf[id[2]])
Manifested == \A id \in DOMAIN images : IsRemote(id) => Fits(id, images[id])

(* An image that was found or pulled is whole, and stays so while it is    *)
(* copied.                                                                 *)
ReadsImage(p) == loc[p].at \in {"pulled", "copy"}
ReadsWhole(p) ==
  ReadsImage(p) => loc[p].id # NoId /\ (Kept(loc[p].id) => Whole(loc[p].id))

CopiesLayers(p) ==
  At(p, "copy") =>
    /\ Container(p) \in DOMAIN containers
    /\ containers[Container(p)].done = FALSE
    /\ containers[Container(p)].image = loc[p].id
    /\ InOrder(loc[p].id) /\ Kept(loc[p].id) =>
         Stage(LayersOf[loc[p].id[2]], loc[p].copy, Rootfs(p))

ContainerOK(c) ==
  /\ DOMAIN containers[c] = {"image", "rootfs", "up", "done"}
  /\ containers[c].done /\ InOrder(containers[c].image) /\ Kept(containers[c].image) =>
       containers[c].rootfs = Stacked(LayersOf[containers[c].image[2]])

RootfsInv ==
  /\ Manifested
  /\ \A p \in Proc : ReadsWhole(p) /\ CopiesLayers(p)
  /\ \A c \in DOMAIN containers : ContainerOK(c)

-----------------------------------------------------------------------------
(* Copying one layer after the other.                                      *)
LEMMA NothingCopied ==
  ASSUME NEW s, Len(s) \in Nat, NEW copy, copy = s, IsSeq(s)
  PROVE  Stage(s, copy, <<>>)
<1>1. StackedUpTo(s, 0, <<>>)
  BY DEF StackedUpTo
<1>2. \A i \in 1 .. Len(copy) : copy[i] = s[0 + i]
  OBVIOUS
<1>3. 0 \in 0 .. Len(s) /\ Len(copy) = Len(s) - 0
  OBVIOUS
<1>4. QED
  BY <1>1, <1>2, <1>3 DEF Stage

LEMMA LayerCopied ==
  ASSUME NEW s, NEW k \in Nat, NEW rootfs, StackedUpTo(s, k, rootfs),
         NEW content, content = LayerContent(s[k + 1]),
         \A f \in DOMAIN content : content[f].kind = "link" => f \notin DOMAIN rootfs,
         \A i \in 1 .. k : \A f \in DOMAIN LayerContent(s[i]) :
           LayerContent(s[i])[f].kind = "link" /\ f \in DOMAIN content =>
             content[f].kind = "link"
  PROVE  StackedUpTo(s, k + 1, Merge(content, rootfs))
<1> DEFINE new == Merge(content, rootfs)
<1>1. new = [f \in DOMAIN new |-> new[f]] /\ DOMAIN new = DOMAIN content \cup DOMAIN rootfs
  BY DEF Merge
<1>2. \A i \in 1 .. k + 1 : i \in 1 .. k \/ i = k + 1
  OBVIOUS
<1>3. \A i \in 1 .. k + 1 : DOMAIN LayerContent(s[i]) \subseteq DOMAIN new
  BY <1>1, <1>2 DEF StackedUpTo
<1>4. ASSUME NEW f \in DOMAIN content
      PROVE  new[f] = content[f] /\ Decides(s, k + 1, k + 1, f)
  <2>1. f \in DOMAIN rootfs => rootfs[f].kind # "link" /\ content[f].kind # "link"
    <3>1. f \in DOMAIN rootfs =>
            \E i \in 1 .. k : Decides(s, k, i, f) /\ rootfs[f] = LayerContent(s[i])[f]
      BY DEF StackedUpTo
    <3>2. QED
      BY <1>4, <3>1 DEF Decides
  <2>2. new[f] = content[f]
    BY <1>4, <2>1 DEF Merge
  <2>3. \A j \in k + 1 + 1 .. k + 1 : FALSE
    OBVIOUS
  <2>4. Decides(s, k + 1, k + 1, f)
    BY <1>4, <2>3 DEF Decides
  <2>5. QED
    BY <2>2, <2>4
<1>5. ASSUME NEW f \in DOMAIN rootfs, f \notin DOMAIN content
      PROVE  \E i \in 1 .. k + 1 : Decides(s, k + 1, i, f) /\ new[f] = LayerContent(s[i])[f]
  <2>1. PICK i \in 1 .. k : Decides(s, k, i, f) /\ rootfs[f] = LayerContent(s[i])[f]
    BY DEF StackedUpTo
  <2>2. \A j \in i + 1 .. k + 1 : j \in i + 1 .. k \/ j = k + 1
    OBVIOUS
  <2>3. Decides(s, k + 1, i, f)
    BY <1>5, <2>1, <2>2 DEF Decides
  <2>4. new[f] = rootfs[f]
    BY <1>5 DEF Merge
  <2>5. i \in 1 .. k + 1
    OBVIOUS
  <2>6. QED
    BY <2>1, <2>3, <2>4, <2>5
<1>6. \A f \in DOMAIN new :
        \E i \in 1 .. k + 1 : Decides(s, k + 1, i, f) /\ new[f] = LayerContent(s[i])[f]
  <2>1. k + 1 \in 1 .. k + 1
    OBVIOUS
  <2>2. QED
    BY <1>1, <1>4, <1>5, <2>1
<1>7. QED
  BY <1>1, <1>3, <1>6 DEF StackedUpTo

LEMMA AllCopied ==
  ASSUME NEW s, NEW n \in Nat, DOMAIN s = 1 .. n, NEW rootfs, StackedUpTo(s, n, rootfs)
  PROVE  rootfs = Stacked(s)
<1>1. ASSUME NEW f \in DOMAIN rootfs
      PROVE  f \in DOMAIN Stacked(s) /\ rootfs[f] = Stacked(s)[f]
  <2>1. PICK i \in 1 .. n : Decides(s, n, i, f) /\ rootfs[f] = LayerContent(s[i])[f]
    BY DEF StackedUpTo
  <2> DEFINE T == {j \in DOMAIN s : f \in DOMAIN LayerContent(s[j])}
  <2>2. i \in T
    BY <2>1 DEF Decides
  <2>3. \A j \in T : j <= i
    <3>1. \A j \in 1 .. n : j <= i \/ j \in i + 1 .. n
      OBVIOUS
    <3>2. QED
      BY <2>1, <3>1 DEF Decides
  <2>4. LastWith(s, f) = i
    <3>1. T \subseteq Int /\ i \in Int
      OBVIOUS
    <3> HIDE DEF T
    <3>2. \A x \in T : (\A y \in T : x >= y) => x = i
      BY <2>2, <2>3, <3>1
    <3>3. \E x \in T : \A y \in T : x >= y
      BY <2>2, <2>3, <3>1
    <3>4. Max(T) = i
      BY <3>2, <3>3 DEF Max
    <3>5. QED
      BY <3>4 DEF LastWith, T
  <2>5. f \in UNION {DOMAIN LayerContent(s[j]) : j \in DOMAIN s}
    BY <2>2
  <2>6. QED
    BY <2>1, <2>4, <2>5 DEF Stacked
<1>2. DOMAIN Stacked(s) \subseteq DOMAIN rootfs
  BY DEF Stacked, StackedUpTo
<1>3. rootfs = [f \in DOMAIN rootfs |-> rootfs[f]]
  BY DEF StackedUpTo
<1>4. Stacked(s) = [f \in DOMAIN Stacked(s) |-> Stacked(s)[f]]
  BY DEF Stacked
<1>5. DOMAIN rootfs = DOMAIN Stacked(s)
  BY <1>1, <1>2
<1>6. QED
  BY <1>1, <1>3, <1>4, <1>5
-----------------------------------------------------------------------------
(* Which steps change containers, and where copying and reading begin.     *)
LEMMA ContainersFlow ==
  ASSUME NEW p \in Proc, Act(p)
  PROVE  \/ containers' = containers
         \/ AssembleRootfs(p) \/ CopyLayer(p) \/ Assembled(p) \/ CopyKernel(p)
<1>1. CASE ImageStep(p)
  BY <1>1 DEF ImageStep, Pull, PullResolve, FetchManifest, FetchPlatform, FetchConfig, NextLayer,
     GetBlob, ExtractEntry, VerifyLayer, SaveImage, Pulled, FailedAttempt, LoadIndex, Truncate,
     SaveIndex, RmiResolve, RemoveAll, WriteArchive, ReadArchive, files
<1>2. CASE KernelStep(p) \/ Stall(p) \/ NextCommand(p) \/ Killed(p)
  BY <1>2 DEF KernelStep, PullKernel, Stall, DownloadArchive, DownloadEnds, ExtractArchive,
     OCIKernelPulled, CopyBinary, CopyModule, SaveKernel, KernelPulled, FindStored, RemoveKernel,
     NextCommand, Killed, files
<1>3. CASE BuildStep(p)
  BY <1>3 DEF BuildStep, ParseDockerfile, BeginProcess, HandleFrom, FromPulled, CopyBaseLayer,
     FromEnds, HandleKernel, KernelEnds, HandleRun, Machine, RunEnds, HandleCopy, Configure,
     ProcessEnds, CommitKernel, CommitRootfs, CommitSave, CleanUp, files
<1>4. QED
  BY <1>1, <1>2, <1>3 DEF Act, Progress

LEMMA CopyArrives ==
  ASSUME NEW p \in Proc, Shapes, Control, Kinds, Act(p), At(p, "copy")'
  PROVE  AssembleRootfs(p) \/ CopyLayer(p)
<1>0. ShapesOK /\ Routed(p) /\ loc'[p].at = "copy"
  BY DEF Shapes, Control, At
<1>1. ASSUME NEW at, Goto(p, at)
      PROVE  at = "copy"
  BY <1>0, <1>1 DEF Goto, ShapesOK, LocFields
<1>2. ~Fail(p) /\ ~FailMet(p) /\ ~Killed(p)
  <2>1. Fail(p) \/ FailMet(p) => loc'[p].at = Failed(p)
    BY <1>0 DEF Fail, FailMet, ShapesOK, LocFields
  <2>2. QED
    BY <1>0, <2>1, KilledGoes DEF Failed
<1>3. ~PullResolve(p) /\ ~FetchPlatform(p)
  BY <1>0 DEF PullResolve, FetchPlatform, ShapesOK, LocFields
<1>4. ~FetchManifest(p)
  <2>1. ASSUME NEW at, NEW image, loc' = [loc EXCEPT ![p].at = at, ![p].image = image,
                                                     ![p].tries = 0]
        PROVE  at = "copy"
    BY <1>0, <2>1 DEF ShapesOK, LocFields
  <2>2. QED
    BY <1>2, <2>1, ManifestCases
<1>5. ~FetchConfig(p)
  <2>1. ASSUME NEW at, NEW config, NEW names, NEW strict, GotConfig(p, at, config, names, strict)
        PROVE  FALSE
    <3>1. loc'[p].at = at /\ at \in {"load", "layer"}
      BY <1>0, <2>1 DEF GotConfig, ShapesOK, LocFields
    <3>2. QED
      BY <1>0, <3>1
  <2>2. QED
    BY <1>2, <2>1, FetchConfigCases
<1>6. ~NextLayer(p) /\ ~GetBlob(p) /\ ~SaveImage(p)
  <2>1. ~NextLayer(p)
    BY <1>1 DEF NextLayer
  <2>2. ~GetBlob(p)
    BY <1>0 DEF GetBlob, ShapesOK, LocFields
  <2>3. ~SaveImage(p)
    <3>1. ASSUME NEW config, loc' = [loc EXCEPT ![p].at = "load", ![p].config = config]
          PROVE  FALSE
      BY <1>0, <3>1 DEF ShapesOK, LocFields
    <3>2. QED
      BY <3>1 DEF SaveImage
  <2>4. QED
    BY <2>1, <2>2, <2>3
<1>7. ~ExtractEntry(p) /\ ~VerifyLayer(p)
  BY <1>0, <1>2 DEF ExtractEntry, VerifyLayer, At, ShapesOK, LocFields
<1>8. ~FailedAttempt(p) /\ ~Pulled(p)
  BY <1>0, <1>1, <1>2 DEF FailedAttempt, Pulled, Requests, ShapesOK, LocFields
<1>9. ~LoadIndex(p) /\ ~Truncate(p)
  <2>1. ~Truncate(p)
    BY <1>1 DEF Truncate
  <2>2. SUFFICES ASSUME LoadIndex(p)
                 PROVE  FALSE
    BY <2>1
  <2> DEFINE idx == index[loc[p].store]
             names == IF loc[p].next \in {"removing", "kernel removing"}
                        THEN {n \in DOMAIN idx : idx[n] = loc[p].id} ELSE loc[p].names
             at == IF loc[p].strict THEN Failed(p) ELSE "panicked"
  <2>3. \/ loc' = [loc EXCEPT ![p].at = "truncate", ![p].idx = idx, ![p].names = names]
        \/ loc' = [loc EXCEPT ![p].at = at, ![p].met = TRUE]
    BY <1>0, <2>2 DEF LoadIndex, ShapesOK, LocFields
  <2>4. at # "copy"
    BY DEF Failed
  <2> HIDE DEF idx, names, at
  <2>5. QED
    BY <1>0, <2>3, <2>4 DEF ShapesOK, LocFields
<1>10. ~SaveIndex(p)
  <2>1. SUFFICES ASSUME SaveIndex(p), Goto(p, loc[p].next)
                 PROVE  FALSE
    BY <1>2 DEF SaveIndex
  <2>2. Routes(p)
    BY <1>0, <2>1 DEF SaveIndex, At, Routed, Indexing
  <2>3. QED
    BY <1>1, <2>1, <2>2 DEF Routes
<1>11. ~RmiResolve(p) /\ ~RemoveAll(p) /\ ~WriteArchive(p) /\ ~ReadArchive(p)
  <2>1. ASSUME NEW id, loc' = [loc EXCEPT ![p].at = "load", ![p].id = id, ![p].next = "removing"]
        PROVE  FALSE
    BY <1>0, <2>1 DEF ShapesOK, LocFields
  <2>2. ~RmiResolve(p)
    BY <1>2, <2>1 DEF RmiResolve
  <2>3. ~RemoveAll(p) /\ ~WriteArchive(p)
    BY <1>0, <1>1, <1>2 DEF RemoveAll, WriteArchive, At
  <2>4. ASSUME NEW id, NEW names,
               loc' = [loc EXCEPT ![p].at = "load", ![p].id = id, ![p].names = names,
                                  ![p].next = "done", ![p].strict = FALSE]
        PROVE  FALSE
    BY <1>0, <2>4 DEF ShapesOK, LocFields
  <2>5. ~ReadArchive(p)
    BY <1>2, <2>4, ReadArchiveCases
  <2>6. QED
    BY <2>2, <2>3, <2>5
<1>12. ~Assembled(p) /\ ~CopyKernel(p)
  BY <1>1, <1>2 DEF Assembled, CopyKernel
<1>13. ~PullKernel(p)
  <2>1. ASSUME NEW req, NEW url, NEW format, NEW id, PullsKernel(p, req, url, format, id)
        PROVE  FALSE
    <3>1. PICK at \in {"kerneled", "resolve", "download"} : \E ref :
            loc' = [loc EXCEPT ![p].at = at, ![p].id = id, ![p].pulling = "kernel",
                               ![p].ref = ref, ![p].platform = <<"linux", req.arch>>]
      BY <2>1 DEF PullsKernel
    <3>2. PICK ref :
            loc' = [loc EXCEPT ![p].at = at, ![p].id = id, ![p].pulling = "kernel",
                               ![p].ref = ref, ![p].platform = <<"linux", req.arch>>]
      BY <3>1
    <3>3. loc'[p].at = at
      BY <1>0, <3>2 DEF ShapesOK, LocFields
    <3>4. QED
      BY <1>0, <3>3
  <2>2. QED
    BY <1>0, <1>2, <2>1, PullKernelCases
<1>14. ~DownloadArchive(p) /\ ~DownloadEnds(p) /\ ~ExtractArchive(p) /\ ~OCIKernelPulled(p)
  BY <1>0, <1>1, <1>2 DEF DownloadArchive, DownloadEnds, ExtractArchive, OCIKernelPulled
<1>15. ~CopyBinary(p) /\ ~CopyModule(p) /\ ~KernelPulled(p) /\ ~RemoveKernel(p) /\ ~Stall(p)
  <2>1. ASSUME NEW id, loc' = [loc EXCEPT ![p].at = "modules", ![p].id = id]
        PROVE  FALSE
    BY <1>0, <2>1 DEF ShapesOK, LocFields
  <2>2. ~CopyBinary(p)
    BY <1>2, <2>1 DEF CopyBinary
  <2>3. ~CopyModule(p)
    BY <1>0 DEF CopyModule, At
  <2>4. QED
    BY <1>1, <2>2, <2>3 DEF KernelPulled, RemoveKernel, Stall
<1>16. ~SaveKernel(p) /\ ~FindStored(p)
  <2>1. ASSUME NEW names,
               loc' = [loc EXCEPT ![p].at = "load", ![p].store = "kernel", ![p].strict = FALSE,
                                  ![p].names = names, ![p].next = "kerneled"]
        PROVE  FALSE
    BY <1>0, <2>1 DEF ShapesOK, LocFields
  <2>2. ASSUME NEW id, loc' = [loc EXCEPT ![p].at = "load", ![p].id = id,
                                          ![p].store = "kernel", ![p].next = "kernel removing"]
        PROVE  FALSE
    BY <1>0, <2>2 DEF ShapesOK, LocFields
  <2>3. QED
    BY <1>2, <2>1, <2>2 DEF SaveKernel, FindStored
<1>17. ~BuildStep(p)
  <2>1. BuildStep(p) => BuildMoves(p)
    BY BuildSteps DEF Kinds
  <2>2. ~BuildMoves(p)
    BY <1>0 DEF BuildMoves, Parses, Opens, Builds, Boots, Judges, Commits, Cleans, Committing,
       Indexing
  <2>3. QED
    BY <2>1, <2>2
<1>18. ~NextCommand(p)
  BY <1>0, NextBegins, FirstPlaces DEF Begins
<1>19. QED
  BY <1>2, <1>3, <1>4, <1>5, <1>6, <1>7, <1>8, <1>9, <1>10, <1>11, <1>12, <1>13, <1>14, <1>15,
     <1>16, <1>17, <1>18 DEF Act, Progress, ImageStep, Pull, KernelStep

(* An image is found, or pulled and named.                                 *)
LEMMA PulledArrives ==
  ASSUME NEW p \in Proc, Shapes, Control, Kinds, Act(p), At(p, "pulled")'
  PROVE  \/ At(p, "pulled") /\ loc'[p].id = loc[p].id
         \/ PullResolve(p)
         \/ SaveIndex(p) /\ Names(p) /\ loc'[p].id = loc[p].id
<1>0. ShapesOK /\ Routed(p) /\ loc'[p].at = "pulled"
  BY DEF Shapes, Control, At
<1>1. CASE loc' = loc \/ KeepsPlace(p)
  BY <1>0, <1>1 DEF KeepsPlace, KeepsId, At
<1>2. CASE SaveIndex(p) /\ Writes(p)
  <2>1. /\ loc[p].at = "write" /\ loc[p].next = "pulled" /\ loc'[p].id = loc[p].id /\ Indexing(p)
    BY <1>0, <1>2 DEF Writes, KeepsId, Indexing
  <2>2. Names(p)
    BY <1>0, <2>1 DEF Routed, Routes, Names
  <2>3. QED
    BY <1>2, <2>1, <2>2
<1>3. CASE PullsOn(p)
  <2>1. loc[p].at \in PullPlaces
    BY <1>3 DEF PullsOn
  <2>2. ~Killed(p) /\ ~FailMet(p)
    <3>1. FailMet(p) => loc'[p].at = Failed(p)
      BY <1>0 DEF FailMet, ShapesOK, LocFields
    <3>2. QED
      BY <1>0, <3>1, KilledGoes DEF Failed
  <2>3. ~FetchPlatform(p)
    BY <1>0 DEF FetchPlatform, ShapesOK, LocFields
  <2>4. ~FetchManifest(p)
    <3>1. ASSUME NEW at, NEW image, loc' = [loc EXCEPT ![p].at = at, ![p].image = image,
                                                       ![p].tries = 0]
          PROVE  at = "pulled"
      BY <1>0, <3>1 DEF ShapesOK, LocFields
    <3>2. QED
      BY <2>2, <3>1, ManifestCases
  <2>5. ~FetchConfig(p)
    <3>1. ASSUME NEW at, NEW config, NEW names, NEW strict, GotConfig(p, at, config, names, strict)
          PROVE  FALSE
      <4>1. loc'[p].at = at /\ at \in {"load", "layer"}
        BY <1>0, <3>1 DEF GotConfig, ShapesOK, LocFields
      <4>2. QED
        BY <1>0, <4>1
    <3>2. QED
      BY <2>2, <3>1, FetchConfigCases
  <2>6. ~FailedAttempt(p)
    <3>1. CASE loc' = [loc EXCEPT ![p].tries = @ + 1]
      BY <1>0, <2>1, <3>1 DEF PullPlaces, ShapesOK, LocFields
    <3>2. QED
      BY <2>2, <3>1 DEF FailedAttempt
  <2>7. loc[p].at \in Watched
    BY <2>1 DEF PullPlaces, Watched
  <2>8. PullResolve(p)
    BY <2>1, <2>2, <2>3, <2>4, <2>5, <2>6, <2>7, ByPlace
       DEF PullPlaces, NextLayer, GetBlob, ExtractEntry, VerifyLayer, SaveImage, LoadIndex,
           Truncate, SaveIndex, RmiResolve, RemoveAll, ReadArchive, CommitKernel, CommitRootfs,
           CommitSave, CopyModule, SaveKernel, FindStored, At
  <2>9. QED
    BY <2>8
<1>4. ~Stops(p) /\ ~(BuildStep(p) /\ ToIdle(p))
  BY <1>0 DEF Stops, Halts, ToIdle, Idle
<1>5. ~ToImage(p) /\ ~InLayers(p) /\ ~Loads(p) /\ ~Truncates(p) /\ ~ToIndex(p) /\ ~ToBase(p)
  BY <1>0 DEF ToImage, InLayers, LayerPlaces, Loads, Truncates, ToIndex, ToBase
<1>6. ~ToWork(p) /\ ~ToKernel(p) /\ ~Downloads(p) /\ ~ToModules(p) /\ ~ToSaving(p)
      /\ ~ToRemoving(p)
  BY <1>0 DEF ToWork, ToKernel, Downloads, ToModules, ToSaving, ToRemoving
<1>7. ~Begins(p)
  BY <1>0, FirstPlaces DEF Begins
<1>8. QED
  BY <1>1, <1>2, <1>3, <1>4, <1>5, <1>6, <1>7, Flow DEF Moves
-----------------------------------------------------------------------------
(* Directories hold layers of their manifests only.                        *)
LEMMA FitsDirs == Manifested <=> \A id : IsRemote(id) => Fits(id, Dir(id))
<1>1. \A id \in DOMAIN images : Dir(id) = images[id]
  BY DEF Dir
<1>2. \A id : id \notin DOMAIN images => Dir(id).config = NoConfig /\ DOMAIN Dir(id).layers = {}
  BY DEF Dir, EmptyDir
<1>3. QED
  BY <1>1, <1>2 DEF Manifested, Fits

LEMMA PutFits ==
  ASSUME NEW p \in Proc, ImagesOK, NEW id, id = loc[p].id, id = RemoteId(p),
         loc[p].image \in DOMAIN LayersOf, loc[p].n \in DOMAIN Layers(p),
         NEW content, PutLayer(p, content), Fits(id, Dir(id))
  PROVE  Fits(id, Dir(id)')
<1>1. Dir(id)'.layers = With(Dir(id).layers, Layer(p), content)
  BY PutLayerDir
<1>2. DOMAIN Dir(id)'.layers = DOMAIN Dir(id).layers \cup {Layer(p)}
  BY <1>1 DEF With
<1>3. id[2] = loc[p].image
  BY DEF RemoteId
<1>4. Layer(p) \in Range(LayersOf[id[2]])
  BY <1>3 DEF Layer, Layers, Range
<1>5. QED
  BY <1>2, <1>3, <1>4 DEF Fits

LEMMA ManifestedKept ==
  ASSUME NEW p \in Proc, Shapes, Kinds, ImagesOK, HandOK(p), FetchOK(p), Manifested, Act(p)
  PROVE  Manifested'
<1> SUFFICES ASSUME NEW id, IsRemote(id)
             PROVE  Fits(id, Dir(id)')
  <2>1. \A id : IsRemote(id) => Fits(id, Dir(id)')
    OBVIOUS
  <2>2. (\A id : IsRemote(id) => Fits(id, Dir(id)))'
    BY <2>1 DEF Fits, IsRemote
  <2>3. QED
    BY <2>2, FitsDirs, PTL
<1>0. Fits(id, Dir(id))
  BY FitsDirs
<1>1. CASE Dir(id)' = Dir(id)
  BY <1>0, <1>1
<1>2. CASE id = loc[p].id /\ Fetches(p) /\ ~(Dir(id)' = Dir(id))
  <2>1. ~(images' = images)
    BY <1>2, SameDir
  <2>2. /\ id = RemoteId(p) /\ loc[p].image \in DOMAIN LayersOf /\ loc[p].n \in Nat \ {0}
        /\ loc[p].at \in LayerPlaces
    BY <1>2 DEF FetchOK, Fetches
  <2>3. Len(Layers(p)) \in Nat /\ DOMAIN Layers(p) = 1 .. Len(Layers(p))
    BY <2>2, LayerTypes DEF Layers
  <2>4. ~CommitSave(p) /\ ~RemoveAll(p) /\ ~ReadArchive(p) /\ ~WriteArchive(p)
        /\ ~CommitKernel(p) /\ ~CommitRootfs(p)
    BY <2>2 DEF LayerPlaces, CommitSave, RemoveAll, ReadArchive, WriteArchive, CommitKernel,
       CommitRootfs, At
  <2>5. CASE NextLayer(p)
    <3>1. PutLayer(p, Content(p)) /\ ~(loc[p].n > Len(Layers(p)))
      BY <2>1, <2>5 DEF NextLayer
    <3>2. loc[p].n \in DOMAIN Layers(p)
      BY <2>2, <2>3, <3>1
    <3>3. QED
      BY <1>0, <1>2, <2>2, <3>1, <3>2, PutFits
  <2>6. CASE ExtractEntry(p) \/ Killed(p)
    <3>1. PICK content : PutLayer(p, content)
      BY <2>1, <2>6 DEF ExtractEntry, Killed
    <3>2. loc[p].at = "extract"
      BY <2>1, <2>6 DEF ExtractEntry, Killed, At
    <3>3. loc[p].n \in DOMAIN Layers(p)
      BY <3>2 DEF FetchOK
    <3>4. QED
      BY <1>0, <1>2, <2>2, <3>1, <3>3, PutFits
  <2>7. CASE SaveImage(p)
    <3>1. PICK config : Put(id, [Dir(id) EXCEPT !.config = config])
      BY <1>2, <2>7 DEF SaveImage
    <3>2. Dir(id)'.layers = Dir(id).layers
      BY <3>1, PutConfigDir
    <3>3. id[2] = loc[p].image
      BY <2>2 DEF RemoteId
    <3>4. QED
      BY <1>0, <2>2, <3>2, <3>3 DEF Fits
  <2>8. QED
    BY <2>1, <2>4, <2>5, <2>6, <2>7, ImageEffects
<1>3. CASE id = loc[p].id /\ At(p, "removing") /\ ~(Dir(id)' = Dir(id))
  <2>1. ~(images' = images) /\ loc[p].at = "removing"
    BY <1>3, SameDir DEF At
  <2>2. RemoveAll(p)
    BY <2>1, ImageEffects
       DEF NextLayer, ExtractEntry, Killed, SaveImage, CommitSave, ReadArchive, WriteArchive,
           CommitKernel, CommitRootfs, At
  <2>3. CASE Dir(id).config # NoConfig /\ Put(id, [Dir(id) EXCEPT !.config = NoConfig])
    <3>1. Dir(id)'.layers = Dir(id).layers
      BY <2>3, PutConfigDir
    <3>2. QED
      BY <1>0, <2>3, <3>1 DEF Fits
  <2>4. ASSUME NEW l \in DOMAIN Dir(id).layers,
               Put(id, [Dir(id) EXCEPT !.layers = Restrict(@, DOMAIN @ \ {l})])
        PROVE  Fits(id, Dir(id)')
    <3>1. Dir(id)' = [Dir(id) EXCEPT !.layers = Restrict(@, DOMAIN @ \ {l})]
      BY <2>4, PutDir
    <3>2. DOMAIN Dir(id) = {"config", "layers", "kernel"}
      BY DirIsOK DEF DirOK
    <3>3. Dir(id)'.layers = Restrict(Dir(id).layers, DOMAIN Dir(id).layers \ {l})
      BY <3>1, <3>2
    <3>4. DOMAIN Dir(id)'.layers \subseteq DOMAIN Dir(id).layers
      BY <3>3 DEF Restrict
    <3>5. QED
      BY <1>0, <3>4 DEF Fits
  <2>5. CASE images' = Restrict(images, DOMAIN images \ {id})
    <3>1. Dir(id)' = EmptyDir
      BY <2>5, RestrictDir
    <3>2. QED
      BY <3>1 DEF EmptyDir, Fits
  <2>6. QED
    BY <1>3, <2>2, <2>3, <2>4, <2>5 DEF RemoveAll
<1>4. ~(id = loc[p].id /\ InCommit(p))
  BY NewIsNoRemote DEF HandOK
<1>5. ~(id = NewId(p) /\ (ReadArchive(p) \/ CommitKernel(p)))
  BY NewIsNoRemote
<1>6. QED
  BY <1>1, <1>2, <1>3, <1>4, <1>5, DirFlow

-----------------------------------------------------------------------------
(* What is found or pulled is whole.                                       *)
LEMMA FoundWhole ==
  ASSUME NEW p \in Proc, Shapes, Alone(p), Remember, Filled, PullResolve(p),
         NEW id, id = loc'[p].id, At(p, "pulled")', id \notin disturbed'
  PROVE  id # NoId /\ Whole(id)
<1>1. /\ id = Resolve(loc[p].ref) /\ id # NoId /\ loc[p].at = "resolve"
      /\ loc'[p].at = "pulled"
  <2>1. PICK r : r = Resolve(loc[p].ref)
    OBVIOUS
  <2>2. PICK config :
          loc' = [loc EXCEPT ![p].id = r, ![p].tries = 0, ![p].config = config,
                             ![p].at = IF r = NoId THEN "manifest" ELSE "pulled"]
    BY <2>1 DEF PullResolve
  <2>3. loc'[p].id = r /\ loc'[p].at = IF r = NoId THEN "manifest" ELSE "pulled"
    BY <2>2 DEF Shapes, ShapesOK, LocFields
  <2>4. QED
    BY <2>1, <2>3 DEF PullResolve, At
<1>2. Has(id)
  BY <1>1 DEF Resolve
<1>3. Dir(id).config # NoConfig /\ id \in DOMAIN images /\ Kept(id)
  BY <1>2, HasConfig, Remembered DEF Has, Kept
<1>4. ASSUME NEW q \in Proc, At(q, "removing"), loc[q].id = id
      PROVE  FALSE
  <2>1. q # p
    BY <1>1, <1>4 DEF At
  <2>2. loc'[q] = loc[q]
    BY <2>1 DEF Alone
  <2>3. Busy(q)' /\ Busy(p)' /\ loc'[q].id = id
    BY <1>1, <1>4, <2>2 DEF Busy, Ended, At
  <2>4. QED
    BY <1>1, <2>1, <2>3, NobodyElseThen, Remembered
<1>5. ASSUME IsRemote(id)
      PROVE  Whole(id)
  BY <1>2, <1>3, <1>4, <1>5 DEF Filled
<1>6. ASSUME ~IsRemote(id)
      PROVE  Whole(id)
  BY <1>3, <1>6 DEF Whole, WholeDir
<1>7. QED
  BY <1>1, <1>5, <1>6

LEMMA FoundId ==
  ASSUME NEW p \in Proc, Shapes, PullResolve(p), At(p, "pulled")'
  PROVE  loc'[p].id # NoId /\ images' = images
<1>1. PICK r : r = Resolve(loc[p].ref)
  OBVIOUS
<1>2. PICK config :
        loc' = [loc EXCEPT ![p].id = r, ![p].tries = 0, ![p].config = config,
                           ![p].at = IF r = NoId THEN "manifest" ELSE "pulled"]
  BY <1>1 DEF PullResolve
<1>3. loc'[p].id = r /\ loc'[p].at = IF r = NoId THEN "manifest" ELSE "pulled"
  BY <1>2 DEF Shapes, ShapesOK, LocFields
<1>4. QED
  BY <1>3 DEF PullResolve, files, At

LEMMA ReadsOn ==
  ASSUME NEW p \in Proc, AssembleRootfs(p) \/ CopyLayer(p), Shapes
  PROVE  ReadsImage(p) /\ images' = images /\ loc'[p].id = loc[p].id
<1>1. ShapesOK
  BY DEF Shapes
<1>2. CASE AssembleRootfs(p)
  <2>1. PICK copy : loc' = [loc EXCEPT ![p].at = "copy", ![p].copy = copy]
    BY <1>2 DEF AssembleRootfs
  <2>2. loc'[p].id = loc[p].id
    BY <1>1, <2>1 DEF ShapesOK, LocFields
  <2>3. QED
    BY <1>2, <2>2 DEF AssembleRootfs, ReadsImage, At
<1>3. CASE CopyLayer(p)
  <2>1. images' = images /\ ReadsImage(p)
    BY <1>3 DEF CopyLayer, ReadsImage, At
  <2>2. CASE loc' = [loc EXCEPT ![p].copy = Tail(@)]
    BY <1>1, <2>1, <2>2 DEF ShapesOK, LocFields
  <2>3. CASE Fail(p)
    BY <1>1, <2>1, <2>3 DEF Fail, ShapesOK, LocFields
  <2>4. QED
    BY <1>3, <2>2, <2>3 DEF CopyLayer
<1>4. QED
  BY <1>2, <1>3

LEMMA ReadsWholeKept ==
  ASSUME NEW p \in Proc, Shapes, Kinds, Control, ImagesOK, HandOK(p), Act(p), Alone(p), Remember,
         Filled, Nameable(p), ReadsWhole(p)
  PROVE  ReadsWhole(p)'
<1> SUFFICES ASSUME ReadsImage(p)'
             PROVE  loc'[p].id # NoId /\ (Kept(loc[p].id)' => Whole(loc[p].id)')
  BY DEF ReadsWhole
<1>1. PICK id : id = loc'[p].id
  OBVIOUS
<1>2. id \notin disturbed' => Kept(id)
  BY Remembered DEF Kept
<1>3. SUFFICES id # NoId /\ (id \notin disturbed' => Whole(id)')
  BY <1>1 DEF Kept, Whole, WholeDir, HasLayer, LayerContent, IsRemote
<1>4. CASE At(p, "copy")'
  <2>1. ReadsImage(p) /\ images' = images /\ loc[p].id = id
    BY <1>1, <1>4, CopyArrives, ReadsOn
  <2>2. QED
    BY <1>2, <2>1, SameDir, StaysWhole DEF ReadsWhole
<1>5. CASE At(p, "pulled") /\ loc'[p].id = loc[p].id
  <2>1. loc[p].at = "pulled" /\ id = loc[p].id
    BY <1>1, <1>5 DEF At
  <2>2. Dir(id)' = Dir(id)
    BY <2>1, DirFlow DEF Fetches, LayerPlaces, InCommit, ReadArchive, CommitKernel, At
  <2>3. QED
    BY <1>2, <2>1, <2>2, StaysWhole DEF ReadsWhole, ReadsImage
<1>6. CASE PullResolve(p) /\ At(p, "pulled")'
  <2>1. id # NoId /\ images' = images
    BY <1>1, <1>6, FoundId
  <2>2. id \notin disturbed' => Whole(id)
    BY <1>1, <1>6, FoundWhole
  <2>3. QED
    BY <2>1, <2>2, SameDir, StaysWhole
<1>7. CASE SaveIndex(p) /\ Names(p) /\ loc'[p].id = loc[p].id
  <2>1. id = loc[p].id /\ id # NoId
    BY <1>1, <1>7 DEF HandOK, HasInHand
  <2>2. images' = images
    BY <1>7 DEF SaveIndex, files
  <2>3. QED
    BY <1>2, <1>7, <2>1, <2>2, SameDir, StaysWhole DEF Nameable
<1>8. QED
  BY <1>4, <1>5, <1>6, <1>7, PulledArrives DEF ReadsImage, At

LEMMA OthersRead ==
  ASSUME NEW p \in Proc, NEW q \in Proc \ {p}, Shapes, Kinds, Control, Apart, Alone(p),
         HandOK(p), Act(p), Remember, ReadsWhole(q)
  PROVE  ReadsWhole(q)'
<1>1. PICK id : id = loc[q].id
  OBVIOUS
<1>2. loc'[q] = loc[q] /\ (id \notin disturbed' => Kept(id))
  BY Remembered DEF Alone, Kept
<1> SUFFICES ASSUME ReadsImage(q)'
             PROVE  loc'[q].id # NoId /\ (Kept(loc[q].id)' => Whole(loc[q].id)')
  BY DEF ReadsWhole
<1>3. ReadsImage(q) /\ loc'[q].id = id
  BY <1>1, <1>2 DEF ReadsImage
<1>4. id # NoId /\ (Kept(id) => Whole(id)) /\ Busy(q)
  BY <1>1, <1>3 DEF ReadsWhole, ReadsImage, Busy, Ended
<1>5. id \notin disturbed' => Dir(id)' = Dir(id)
  BY <1>1, <1>4, BusyDir
<1>6. id \notin disturbed' => Whole(id)'
  BY <1>2, <1>4, <1>5, StaysWhole
<1>7. SUFFICES id # NoId /\ (id \notin disturbed' => Whole(id)')
  BY <1>3 DEF Kept, Whole, WholeDir, HasLayer, LayerContent, IsRemote
<1>8. QED
  BY <1>4, <1>6
-----------------------------------------------------------------------------
(* One more layer is copied.                                               *)
LEMMA RestOf ==
  ASSUME NEW s, IsSeq(s), s # <<>>
  PROVE  /\ Len(s) \in Nat \ {0} /\ Head(s) = s[1]
         /\ IsSeq(Tail(s)) /\ Len(Tail(s)) = Len(s) - 1
         /\ \A i \in 1 .. Len(Tail(s)) : Tail(s)[i] = s[i + 1]
<1>1. s \in Seq(Range(s))
  BY DEF IsSeq
<1>2. Len(s) \in Nat \ {0} /\ Head(s) = s[1]
  BY <1>1, EmptySeq, LenProperties
<1>3. /\ Tail(s) \in Seq(Range(s)) /\ Len(Tail(s)) = Len(s) - 1
      /\ \A i \in 1 .. Len(Tail(s)) : Tail(s)[i] = s[i + 1]
  BY <1>1, HeadTailProperties
<1>4. QED
  BY <1>2, <1>3, SeqIsSeq

LEMMA StageMoves ==
  ASSUME NEW s, Len(s) \in Nat, DOMAIN s = 1 .. Len(s), NEW copy, copy # <<>>, NEW rootfs,
         Stage(s, copy, rootfs),
         \A f \in DOMAIN LayerContent(Head(copy)) :
           LayerContent(Head(copy))[f].kind = "link" => f \notin DOMAIN rootfs,
         \A j, k \in DOMAIN s : j < k =>
           \A f \in DOMAIN LayerContent(s[j]) :
             LayerContent(s[j])[f].kind = "link" /\ f \in DOMAIN LayerContent(s[k]) =>
               LayerContent(s[k])[f].kind = "link"
  PROVE  /\ Head(copy) \in Range(s)
         /\ Stage(s, Tail(copy), Merge(LayerContent(Head(copy)), rootfs))
<1>1. PICK k \in 0 .. Len(s) : /\ IsSeq(copy) /\ Len(copy) = Len(s) - k
                               /\ \A i \in 1 .. Len(copy) : copy[i] = s[k + i]
                               /\ StackedUpTo(s, k, rootfs)
  BY DEF Stage
<1>2. /\ Len(copy) \in Nat \ {0} /\ Head(copy) = copy[1]
      /\ IsSeq(Tail(copy)) /\ Len(Tail(copy)) = Len(copy) - 1
      /\ \A i \in 1 .. Len(Tail(copy)) : Tail(copy)[i] = copy[i + 1]
  BY <1>1, RestOf
<1>3. k \in Nat /\ k + 1 \in 0 .. Len(s) /\ k + 1 \in DOMAIN s /\ \A i \in 1 .. k : i \in DOMAIN s
  <2>1. PICK m : m = Len(copy)
    OBVIOUS
  <2>2. PICK n \in Nat : n = Len(s)
    OBVIOUS
  <2>3. m \in Nat \ {0} /\ m = n - k /\ k \in 0 .. n
    BY <1>1, <1>2, <2>1, <2>2
  <2>4. k \in Nat /\ k + 1 \in 0 .. n /\ k + 1 \in 1 .. n /\ \A i \in 1 .. k : i \in 1 .. n
    BY <2>3
  <2>5. QED
    BY <2>2, <2>4
<1>4. Head(copy) = s[k + 1]
  <2>1. 1 \in 1 .. Len(copy)
    BY <1>2
  <2>2. copy[1] = s[k + 1]
    BY <1>1, <2>1
  <2>3. QED
    BY <1>2, <2>2
<1>5. \A i \in 1 .. k : \A f \in DOMAIN LayerContent(s[i]) :
        LayerContent(s[i])[f].kind = "link" /\ f \in DOMAIN LayerContent(s[k + 1]) =>
          LayerContent(s[k + 1])[f].kind = "link"
  <2>1. \A i \in 1 .. k : i < k + 1
    BY <1>3
  <2>2. QED
    BY <1>3, <2>1
<1>6. PICK content : content = LayerContent(s[k + 1])
  OBVIOUS
<1>7. StackedUpTo(s, k + 1, Merge(content, rootfs))
  BY <1>1, <1>3, <1>4, <1>5, <1>6, LayerCopied
<1>8. Len(Tail(copy)) = Len(s) - (k + 1)
  BY <1>1, <1>2
<1>9. \A i \in 1 .. Len(Tail(copy)) : Tail(copy)[i] = s[k + 1 + i]
  <2>1. \A i \in 1 .. Len(Tail(copy)) : i + 1 \in 1 .. Len(copy) /\ k + 1 + i = k + (i + 1)
    BY <1>2, <1>3
  <2>2. QED
    BY <1>1, <1>2, <2>1
<1>10. Stage(s, Tail(copy), Merge(LayerContent(Head(copy)), rootfs))
  BY <1>2, <1>3, <1>4, <1>6, <1>7, <1>8, <1>9 DEF Stage
<1>11. QED
  BY <1>3, <1>4, <1>10 DEF Range

LEMMA StageEnds ==
  ASSUME NEW s, Len(s) \in Nat, DOMAIN s = 1 .. Len(s), NEW copy, copy = <<>>, NEW rootfs,
         Stage(s, copy, rootfs)
  PROVE  rootfs = Stacked(s)
<1>1. PICK k \in 0 .. Len(s) : Len(copy) = Len(s) - k /\ StackedUpTo(s, k, rootfs)
  BY DEF Stage
<1>2. k = Len(s)
  <2>1. PICK m : m = Len(copy)
    OBVIOUS
  <2>2. PICK n \in Nat : n = Len(s)
    OBVIOUS
  <2>3. m = 0
    BY <2>1, EmptySeq
  <2>4. k \in 0 .. n /\ m = n - k
    BY <1>1, <2>1, <2>2
  <2>5. k = n
    BY <2>3, <2>4
  <2>6. QED
    BY <2>2, <2>5
<1>3. QED
  BY <1>1, <1>2, AllCopied

(* What a process and a container must show after a step.                  *)
LEMMA CopyThen ==
  ASSUME NEW q \in Proc, NEW c, NEW id, NEW copy, NEW rootfs,
         c = Container(q)', id = loc'[q].id, copy = loc'[q].copy, c \in DOMAIN containers',
         containers'[c].done = FALSE, containers'[c].image = id, containers'[c].rootfs = rootfs,
         InOrder(id) /\ id \notin disturbed' => Stage(LayersOf[id[2]], copy, rootfs)
  PROVE  CopiesLayers(q)'
BY DEF CopiesLayers, Container, Rootfs, Kept, At

LEMMA ContainerThen ==
  ASSUME NEW c, NEW id, id = containers'[c].image,
         DOMAIN containers'[c] = {"image", "rootfs", "up", "done"},
         containers'[c].done /\ InOrder(id) /\ id \notin disturbed' =>
           containers'[c].rootfs = Stacked(LayersOf[id[2]])
  PROVE  ContainerOK(c)'
BY DEF ContainerOK, Kept

LEMMA ContainerStays ==
  ASSUME NEW c, disturbed \subseteq disturbed', containers'[c] = containers[c], ContainerOK(c)
  PROVE  ContainerOK(c)'
<1>1. PICK id : id = containers'[c].image
  OBVIOUS
<1>2. id \notin disturbed' => Kept(id)
  BY DEF Kept
<1>3. QED
  BY <1>1, <1>2, ContainerThen DEF ContainerOK

LEMMA UpOnly ==
  ASSUME NEW c \in DOMAIN containers, NEW d \in DOMAIN containers, NEW up,
         containers' = [containers EXCEPT ![c].up = up], disturbed \subseteq disturbed',
         ContainerOK(d)
  PROVE  ContainerOK(d)'
<1>1. PICK id : id = containers[d].image
  OBVIOUS
<1>2. DOMAIN containers[d] = {"image", "rootfs", "up", "done"}
  BY DEF ContainerOK
<1>3. /\ DOMAIN containers'[d] = {"image", "rootfs", "up", "done"}
      /\ containers'[d].image = id /\ containers'[d].done = containers[d].done
      /\ containers'[d].rootfs = containers[d].rootfs
  BY <1>1, <1>2
<1>4. id \notin disturbed' => Kept(id)
  BY DEF Kept
<1>5. QED
  BY <1>1, <1>3, <1>4, ContainerThen DEF ContainerOK
-----------------------------------------------------------------------------
(* The steps of run.                                                       *)
LEMMA LayersListed ==
  ASSUME NEW id, Manifested, IsRemote(id), Whole(id), NEW s, s = LayersOf[id[2]]
  PROVE  /\ id[2] \in DOMAIN LayersOf /\ IsSeq(s)
         /\ Len(s) \in Nat /\ DOMAIN s = 1 .. Len(s)
         /\ DOMAIN Dir(id).layers = Range(s)
         /\ \A l \in Range(s) : Dir(id).layers[l] = LayerContent(l)
<1>1. /\ Dir(id).config # NoConfig
      /\ \A l \in Range(s) : l \in DOMAIN Dir(id).layers /\ Dir(id).layers[l] = LayerContent(l)
  BY DEF Whole, WholeDir, HasLayer
<1>2. id[2] \in DOMAIN LayersOf /\ DOMAIN Dir(id).layers \subseteq Range(s)
  BY <1>1, FitsDirs DEF Fits
<1>3. QED
  BY <1>1, <1>2, LayerTypes, LayerAssumption

LEMMA CopyBegins ==
  ASSUME NEW p \in Proc, NEW c, c = Container(p), Shapes, Manifested, ReadsWhole(p),
         disturbed \subseteq disturbed', AssembleRootfs(p)
  PROVE  /\ CopiesLayers(p)' /\ ContainerOK(c)'
         /\ DOMAIN containers' = DOMAIN containers \cup {c}
         /\ \A d \in DOMAIN containers \ {c} : containers'[d] = containers[d]
<1>1. PICK id : id = loc[p].id
  OBVIOUS
<1>2. c = Container(p)
  OBVIOUS
<1>3. PICK copy : copy = NameOrder(DOMAIN Dir(id).layers)
  OBVIOUS
<1>4. /\ loc' = [loc EXCEPT ![p].at = "copy", ![p].copy = copy]
      /\ containers' = With(containers, c,
                            [image |-> id, rootfs |-> <<>>, up |-> FALSE, done |-> FALSE])
      /\ todo' = todo /\ loc[p].at = "pulled"
  BY <1>1, <1>2, <1>3 DEF AssembleRootfs, At
<1>5. loc'[p].id = id /\ loc'[p].copy = copy
  BY <1>1, <1>4 DEF Shapes, ShapesOK, LocFields
<1>6. /\ c \in DOMAIN containers'
      /\ containers'[c] = [image |-> id, rootfs |-> <<>>, up |-> FALSE, done |-> FALSE]
      /\ DOMAIN containers' = DOMAIN containers \cup {c}
      /\ \A d \in DOMAIN containers \ {c} : containers'[d] = containers[d]
  BY <1>4 DEF With
<1>7. Container(p)' = c
  BY <1>2, <1>4 DEF Container
<1>8. ASSUME InOrder(id), id \notin disturbed'
      PROVE  Stage(LayersOf[id[2]], copy, <<>>)
  <2>1. PICK s : s = LayersOf[id[2]]
    OBVIOUS
  <2>2. Whole(id) /\ IsRemote(id)
    BY <1>1, <1>4, <1>8 DEF ReadsWhole, ReadsImage, Kept, InOrder
  <2>3. IsSeq(s) /\ Len(s) \in Nat /\ DOMAIN Dir(id).layers = Range(s)
    BY <2>1, <2>2, LayersListed
  <2>4. copy = s
    BY <1>3, <1>8, <2>1, <2>3 DEF InOrder
  <2>5. Stage(s, copy, <<>>)
    BY <2>3, <2>4, NothingCopied
  <2>6. QED
    BY <2>1, <2>5
<1>9. CopiesLayers(p)'
  <2>1. PICK rootfs : rootfs = <<>>
    OBVIOUS
  <2>2. /\ containers'[c].image = id /\ containers'[c].done = FALSE
        /\ containers'[c].rootfs = rootfs
    BY <1>6, <2>1
  <2>3. InOrder(id) /\ id \notin disturbed' => Stage(LayersOf[id[2]], copy, rootfs)
    BY <1>8, <2>1
  <2>4. QED
    BY <1>5, <1>6, <1>7, <2>2, <2>3, CopyThen
<1>10. ContainerOK(c)'
  BY <1>6, ContainerThen
<1>11. QED
  BY <1>2, <1>6, <1>9, <1>10

LEMMA CopyGoesOn ==
  ASSUME NEW p \in Proc, NEW c, c = Container(p), LinksStand, Shapes, Manifested,
         ReadsWhole(p), CopiesLayers(p), ContainerOK(c), disturbed \subseteq disturbed',
         CopyLayer(p), ~Fail(p)
  PROVE  /\ CopiesLayers(p)' /\ ContainerOK(c)'
         /\ DOMAIN containers' = DOMAIN containers
         /\ \A d \in DOMAIN containers \ {c} : containers'[d] = containers[d]
<1>1. PICK id : id = loc[p].id
  OBVIOUS
<1>2. c = Container(p)
  OBVIOUS
<1>3. PICK copy : copy = loc[p].copy
  OBVIOUS
<1>4. PICK rootfs : rootfs = containers[c].rootfs
  OBVIOUS
<1>5. PICK content : content = Dir(id).layers[Head(copy)]
  OBVIOUS
<1>6. /\ c \in DOMAIN containers /\ containers[c].done = FALSE /\ containers[c].image = id
      /\ InOrder(id) /\ Kept(id) => Stage(LayersOf[id[2]], copy, rootfs)
  BY <1>1, <1>2, <1>3, <1>4 DEF CopyLayer, CopiesLayers, Rootfs
<1>7. DOMAIN containers[c] = {"image", "rootfs", "up", "done"}
  BY <1>2 DEF ContainerOK
<1>8. /\ containers' = [containers EXCEPT ![c].rootfs = Merge(content, @)]
      /\ loc' = [loc EXCEPT ![p].copy = Tail(@)]
      /\ todo' = todo /\ loc[p].at = "copy" /\ copy # <<>>
      /\ \A f \in DOMAIN content : content[f].kind = "link" => f \notin DOMAIN rootfs
  BY <1>1, <1>2, <1>3, <1>4, <1>5 DEF CopyLayer, Rootfs, At
<1>9. loc'[p].id = id /\ loc'[p].copy = Tail(copy)
  BY <1>1, <1>3, <1>8 DEF Shapes, ShapesOK, LocFields
<1>10. PICK new : new = Merge(content, rootfs)
  OBVIOUS
<1>11. /\ DOMAIN containers' = DOMAIN containers
       /\ \A d \in DOMAIN containers \ {c} : containers'[d] = containers[d]
       /\ DOMAIN containers'[c] = {"image", "rootfs", "up", "done"}
       /\ containers'[c].image = id /\ containers'[c].done = FALSE
       /\ containers'[c].rootfs = new
  BY <1>4, <1>6, <1>7, <1>8, <1>10
<1>12. Container(p)' = c
  BY <1>2, <1>8 DEF Container
<1>13. ASSUME InOrder(id), id \notin disturbed'
       PROVE  Stage(LayersOf[id[2]], Tail(copy), new)
  <2>1. PICK s : s = LayersOf[id[2]]
    OBVIOUS
  <2>2. Whole(id) /\ IsRemote(id) /\ Stage(s, copy, rootfs)
    BY <1>1, <1>6, <1>8, <1>13, <2>1 DEF ReadsWhole, ReadsImage, Kept, InOrder
  <2>3. /\ Len(s) \in Nat /\ DOMAIN s = 1 .. Len(s) /\ id[2] \in DOMAIN LayersOf
        /\ \A l \in Range(s) : Dir(id).layers[l] = LayerContent(l)
    BY <2>1, <2>2, LayersListed
  <2>4. \A j, k \in DOMAIN s : j < k =>
          \A f \in DOMAIN LayerContent(s[j]) :
            LayerContent(s[j])[f].kind = "link" /\ f \in DOMAIN LayerContent(s[k]) =>
              LayerContent(s[k])[f].kind = "link"
    BY <2>1, <2>3 DEF LinksStand
  <2>5. Head(copy) \in Range(s)
    <3>1. PICK k \in 0 .. Len(s) : /\ IsSeq(copy) /\ Len(copy) = Len(s) - k
                                   /\ \A i \in 1 .. Len(copy) : copy[i] = s[k + i]
      BY <2>2 DEF Stage
    <3>2. Len(copy) \in Nat \ {0} /\ Head(copy) = copy[1]
      BY <1>8, <3>1, RestOf
    <3>3. Head(copy) = s[k + 1]
      <4>1. 1 \in 1 .. Len(copy)
        BY <3>2
      <4>2. copy[1] = s[k + 1]
        BY <3>1, <4>1
      <4>3. QED
        BY <3>2, <4>2
    <3>4. k + 1 \in DOMAIN s
      <4>1. PICK m \in Nat \ {0} : m = Len(copy)
        BY <3>2
      <4>2. PICK n \in Nat : n = Len(s)
        BY <2>3
      <4>3. m = n - k /\ k \in 0 .. n
        BY <3>1, <4>1, <4>2
      <4>4. k + 1 \in 1 .. n
        BY <4>3
      <4>5. QED
        BY <2>3, <4>2, <4>4
    <3>5. QED
      BY <3>3, <3>4 DEF Range
  <2>6. content = LayerContent(Head(copy))
    BY <1>5, <2>3, <2>5
  <2>7. Stage(s, Tail(copy), Merge(LayerContent(Head(copy)), rootfs))
    BY <1>8, <2>2, <2>3, <2>4, <2>6, StageMoves
  <2>8. QED
    BY <1>10, <2>1, <2>6, <2>7
<1>14. CopiesLayers(p)'
  BY <1>6, <1>9, <1>11, <1>12, <1>13, CopyThen
<1>15. ContainerOK(c)'
  BY <1>11, ContainerThen
<1>16. QED
  BY <1>2, <1>11, <1>14, <1>15

LEMMA CopyEnds ==
  ASSUME NEW p \in Proc, NEW c, c = Container(p), Manifested, ReadsWhole(p), CopiesLayers(p),
         ContainerOK(c), disturbed \subseteq disturbed', Assembled(p)
  PROVE  /\ ContainerOK(c)'
         /\ DOMAIN containers' = DOMAIN containers
         /\ \A d \in DOMAIN containers \ {c} : containers'[d] = containers[d]
<1>1. PICK id : id = loc[p].id
  OBVIOUS
<1>2. c = Container(p)
  OBVIOUS
<1>3. PICK rootfs : rootfs = containers[c].rootfs
  OBVIOUS
<1>4. PICK copy : copy = loc[p].copy
  OBVIOUS
<1>5. /\ c \in DOMAIN containers /\ containers[c].image = id
      /\ InOrder(id) /\ Kept(id) => Stage(LayersOf[id[2]], copy, rootfs)
      /\ copy = <<>> /\ loc[p].at = "copy"
      /\ containers' = [containers EXCEPT ![c].done = TRUE]
  BY <1>1, <1>2, <1>3, <1>4 DEF Assembled, CopiesLayers, Rootfs, At
<1>6. DOMAIN containers[c] = {"image", "rootfs", "up", "done"}
  BY <1>2 DEF ContainerOK
<1>7. /\ DOMAIN containers' = DOMAIN containers
      /\ \A d \in DOMAIN containers \ {c} : containers'[d] = containers[d]
      /\ DOMAIN containers'[c] = {"image", "rootfs", "up", "done"}
      /\ containers'[c].image = id /\ containers'[c].rootfs = rootfs
  BY <1>3, <1>5, <1>6
<1>8. ASSUME InOrder(id), id \notin disturbed'
      PROVE  rootfs = Stacked(LayersOf[id[2]])
  <2>1. PICK s : s = LayersOf[id[2]]
    OBVIOUS
  <2>2. Whole(id) /\ IsRemote(id) /\ Stage(s, copy, rootfs)
    BY <1>1, <1>5, <1>8, <2>1 DEF ReadsWhole, ReadsImage, Kept, InOrder
  <2>3. Len(s) \in Nat /\ DOMAIN s = 1 .. Len(s)
    BY <2>1, <2>2, LayersListed
  <2>4. QED
    BY <1>5, <2>1, <2>2, <2>3, StageEnds
<1>9. ContainerOK(c)'
  BY <1>7, <1>8, ContainerThen
<1>10. QED
  BY <1>2, <1>7, <1>9
-----------------------------------------------------------------------------
(* Every step keeps what is copied so far, and what was assembled.         *)
LEMMA ContainersKept ==
  ASSUME NEW p \in Proc, LinksStand, Shapes, Control, Kinds, Manifested, ReadsWhole(p),
         CopiesLayers(p), \A d \in DOMAIN containers : ContainerOK(d), Act(p),
         disturbed \subseteq disturbed'
  PROVE  /\ CopiesLayers(p)' /\ \A d \in DOMAIN containers' : ContainerOK(d)'
         /\ \A d \in DOMAIN containers \ {Container(p)} :
              d \in DOMAIN containers' /\ containers'[d] = containers[d]
<1>0. PICK c : c = Container(p)
  OBVIOUS
<1> DEFINE Others == \A d \in DOMAIN containers \ {c} :
                       d \in DOMAIN containers' /\ containers'[d] = containers[d]
           Goal == CopiesLayers(p)' /\ (\A d \in DOMAIN containers' : ContainerOK(d)') /\ Others
<1>1. ASSUME Others
      PROVE  \A d \in DOMAIN containers \ {c} : ContainerOK(d)'
  BY <1>1, ContainerStays
<1>2. ASSUME ~At(p, "copy")'
      PROVE  CopiesLayers(p)'
  BY <1>2 DEF CopiesLayers
<1>3. CASE AssembleRootfs(p)
  <2>1. /\ CopiesLayers(p)' /\ ContainerOK(c)' /\ Others
        /\ DOMAIN containers' = DOMAIN containers \cup {c}
    BY <1>0, <1>3, CopyBegins
  <2>2. Goal
    BY <1>1, <2>1
  <2>3. QED
    BY <1>0, <2>2
<1>4. CASE CopyLayer(p) /\ ~Fail(p)
  <2>1. c \in DOMAIN containers
    BY <1>0, <1>4 DEF CopyLayer, CopiesLayers
  <2>2. /\ CopiesLayers(p)' /\ ContainerOK(c)' /\ Others
        /\ DOMAIN containers' = DOMAIN containers
    BY <1>0, <1>4, <2>1, CopyGoesOn
  <2>3. Goal
    BY <1>1, <2>2
  <2>4. QED
    BY <1>0, <2>3
<1>5. CASE Assembled(p)
  <2>1. c \in DOMAIN containers /\ loc[p].at = "copy"
    BY <1>0, <1>5 DEF Assembled, CopiesLayers, At
  <2>2. ContainerOK(c)' /\ Others /\ DOMAIN containers' = DOMAIN containers
    BY <1>0, <1>5, <2>1, CopyEnds
  <2>3. ~At(p, "copy")'
    BY <1>5 DEF Assembled, Goto, Shapes, ShapesOK, LocFields, At
  <2>4. Goal
    BY <1>1, <1>2, <2>2, <2>3
  <2>5. QED
    BY <1>0, <2>4
<1>6. CASE CopyKernel(p) /\ ~(containers' = containers)
  <2>1. Goto(p, "done") /\ containers' = [containers EXCEPT ![c].up = TRUE]
    BY <1>0, <1>6 DEF CopyKernel
  <2>2. ~At(p, "copy")'
    BY <2>1 DEF Goto, Shapes, ShapesOK, LocFields, At
  <2>3. DOMAIN containers' = DOMAIN containers /\ Others
    BY <2>1
  <2>4. \A d \in DOMAIN containers \ {c} : ContainerOK(d)'
    BY <1>1, <2>3
  <2>5. c \in DOMAIN containers => ContainerOK(c)'
    BY <2>1, UpOnly
  <2>6. Goal
    BY <1>2, <2>2, <2>3, <2>4, <2>5
  <2>7. QED
    BY <1>0, <2>6
<1>7. CASE containers' = containers /\ ~AssembleRootfs(p) /\ ~(CopyLayer(p) /\ ~Fail(p))
  <2>1. ~At(p, "copy")'
    <3>1. ASSUME CopyLayer(p), Fail(p)
          PROVE  ~At(p, "copy")'
      <4>1. loc'[p].at = Failed(p)
        BY <3>1 DEF Fail, Shapes, ShapesOK, LocFields
      <4>2. QED
        BY <4>1 DEF Failed, At
    <3>2. QED
      BY <1>7, <3>1, CopyArrives
  <2>2. \A d \in DOMAIN containers : ContainerOK(d)'
    BY <1>7, ContainerStays
  <2>3. QED
    BY <1>2, <1>7, <2>1, <2>2
<1>8. QED
  <2>1. CopyLayer(p) /\ Fail(p) => containers' = containers
    <3>1. SUFFICES ASSUME CopyLayer(p), Fail(p), ~(containers' = containers)
                   PROVE  FALSE
      OBVIOUS
    <3>2. loc' = [loc EXCEPT ![p].copy = Tail(@)] /\ loc[p].at = "copy"
      BY <3>1 DEF CopyLayer, At
    <3>3. loc'[p].at = "copy"
      BY <3>2 DEF Shapes, ShapesOK, LocFields
    <3>4. loc'[p].at = Failed(p)
      BY <3>1 DEF Fail, Shapes, ShapesOK, LocFields
    <3>5. QED
      BY <3>3, <3>4 DEF Failed
  <2>2. AssembleRootfs(p) => ~(CopyLayer(p) \/ Assembled(p) \/ CopyKernel(p))
    BY DEF AssembleRootfs, CopyLayer, Assembled, CopyKernel, At
  <2>3. QED
    BY <1>3, <1>4, <1>5, <1>6, <1>7, <2>1, <2>2, ContainersFlow

LEMMA OthersCopy ==
  ASSUME NEW p \in Proc, NEW q \in Proc \ {p}, Alone(p), CopiesLayers(q),
         disturbed \subseteq disturbed',
         \A d \in DOMAIN containers \ {Container(p)} :
           d \in DOMAIN containers' /\ containers'[d] = containers[d]
  PROVE  CopiesLayers(q)'
<1>1. loc'[q] = loc[q] /\ todo'[q] = todo[q]
  BY DEF Alone
<1> SUFFICES ASSUME At(q, "copy")
             PROVE  CopiesLayers(q)'
  BY <1>1 DEF CopiesLayers, At
<1>2. PICK c : c = Container(q)
  OBVIOUS
<1>3. Container(q)' = c /\ c # Container(p)
  BY <1>1, <1>2 DEF Container
<1>4. /\ c \in DOMAIN containers /\ containers[c].done = FALSE
      /\ containers[c].image = loc[q].id
      /\ InOrder(loc[q].id) /\ Kept(loc[q].id) =>
           Stage(LayersOf[loc[q].id[2]], loc[q].copy, containers[c].rootfs)
  BY <1>2 DEF CopiesLayers, Rootfs
<1>5. c \in DOMAIN containers' /\ containers'[c] = containers[c]
  BY <1>3, <1>4
<1>6. loc[q].id \notin disturbed' => Kept(loc[q].id)
  BY DEF Kept
<1>7. QED
  BY <1>1, <1>3, <1>4, <1>5, <1>6, CopyThen
-----------------------------------------------------------------------------
LEMMA RootfsInvInit == Init => RootfsInv
<1> SUFFICES ASSUME Init
             PROVE  RootfsInv
  OBVIOUS
<1>1. ASSUME NEW p \in Proc
      PROVE  loc[p].at \in {"resolve", "rmi", "save image", "load image", "parse", "kernel",
                            "kernel rm"}
  <2>1. loc[p] = Local(Head(todo[p]))
    BY DEF Init, ImageInit
  <2>2. \A cmd : Local(cmd).at = First[cmd.kind]
    BY DEF Local
  <2>3. Head(todo[p]).kind \in DOMAIN First
    <3>1. CommandsOK
      BY TypeInvInit DEF TypeInv, BaseInv, Shapes
    <3>2. IsSeq(todo[p]) /\ todo[p] # <<>>
      BY <3>1 DEF CommandsOK
    <3>3. Head(todo[p]) = todo[p][1] /\ 1 \in DOMAIN todo[p]
      BY <3>2, HeadInDomain
    <3>4. QED
      BY <3>1, <3>3 DEF CommandsOK
  <2>4. QED
    BY <2>1, <2>2, <2>3, FirstPlaces
<1>2. \A p \in Proc : ReadsWhole(p) /\ CopiesLayers(p)
  BY <1>1 DEF ReadsWhole, ReadsImage, CopiesLayers, At
<1>3. images = <<>> /\ containers = <<>>
  BY DEF Init, ImageInit
<1>4. QED
  BY <1>2, <1>3 DEF RootfsInv, Manifested

LEMMA RootfsInvKept ==
  ASSUME LinksStand
  PROVE  TypeInv /\ BuildInv /\ ImageInv /\ RootfsInv /\ [Next]_vars => RootfsInv'
<1> SUFFICES ASSUME TypeInv, BuildInv, ImageInv, RootfsInv, [Next]_vars
             PROVE  RootfsInv'
  OBVIOUS
<1>0. /\ Shapes /\ Control /\ Kinds /\ BadFails /\ ImagesOK /\ Apart /\ Filled /\ Manifested
      /\ \A p \in Proc : /\ HandOK(p) /\ FetchOK(p) /\ Nameable(p)
                         /\ ReadsWhole(p) /\ CopiesLayers(p)
      /\ \A c \in DOMAIN containers : ContainerOK(c)
  BY DEF TypeInv, BaseInv, BuildInv, ImageInv, RootfsInv
<1>1. ASSUME NEW p \in Proc, Act(p), Remember
      PROVE  RootfsInv'
  <2>1. Alone(p) /\ disturbed \subseteq disturbed'
    BY <1>0, <1>1, ShapesKept, Remembered
  <2>2. Manifested'
    BY <1>0, <1>1, ManifestedKept
  <2>3. ReadsWhole(p)'
    BY <1>0, <1>1, <2>1, ReadsWholeKept
  <2>4. /\ CopiesLayers(p)' /\ \A d \in DOMAIN containers' : ContainerOK(d)'
        /\ \A d \in DOMAIN containers \ {Container(p)} :
             d \in DOMAIN containers' /\ containers'[d] = containers[d]
    BY <1>0, <1>1, <2>1, ContainersKept
  <2>5. ASSUME NEW q \in Proc \ {p}
        PROVE  ReadsWhole(q)' /\ CopiesLayers(q)'
    <3>1. ReadsWhole(q)'
      BY <1>0, <1>1, <2>1, OthersRead
    <3>2. CopiesLayers(q)'
      BY <1>0, <2>1, <2>4, OthersCopy
    <3>3. QED
      BY <3>1, <3>2
  <2>6. QED
    BY <2>2, <2>3, <2>4, <2>5 DEF RootfsInv
<1>2. ASSUME UNCHANGED <<images, todo, loc>>, disturbed \subseteq disturbed',
             UNCHANGED containers \/ \E c \in DOMAIN containers :
               containers' = [containers EXCEPT ![c].up = FALSE]
      PROVE  RootfsInv'
  <2>1. Manifested'
    BY <1>0, <1>2 DEF Manifested, Fits, IsRemote
  <2>2. ASSUME NEW p \in Proc
        PROVE  ReadsWhole(p)'
    <3>1. \A id : Whole(id) => Whole(id)'
      BY <1>2, SameDir, StaysWhole
    <3>2. PICK id : id = loc[p].id
      OBVIOUS
    <3>3. /\ loc'[p].id = id /\ (ReadsImage(p)' <=> ReadsImage(p))
          /\ id \notin disturbed' => Kept(id)
      BY <1>2, <3>2 DEF ReadsImage, Kept
    <3>4. SUFFICES ASSUME ReadsImage(p)'
                   PROVE  loc'[p].id # NoId /\ (Kept(loc[p].id)' => Whole(loc[p].id)')
      BY DEF ReadsWhole
    <3>5. id # NoId /\ (id \notin disturbed' => Whole(id)')
      BY <1>0, <3>1, <3>2, <3>3, <3>4 DEF ReadsWhole
    <3>6. QED
      BY <3>3, <3>5 DEF Kept, Whole, WholeDir, HasLayer, LayerContent, IsRemote
  <2>3. ASSUME NEW d \in DOMAIN containers
        PROVE  /\ d \in DOMAIN containers' /\ ContainerOK(d)'
               /\ containers'[d].image = containers[d].image
               /\ containers'[d].done = containers[d].done
               /\ containers'[d].rootfs = containers[d].rootfs
    <3>1. ContainerOK(d)'
      BY <1>0, <1>2, ContainerStays, UpOnly
    <3>2. DOMAIN containers[d] = {"image", "rootfs", "up", "done"}
      BY <1>0 DEF ContainerOK
    <3>3. QED
      BY <1>2, <3>1, <3>2
  <2>4. ASSUME NEW p \in Proc
        PROVE  CopiesLayers(p)'
    <3> SUFFICES ASSUME At(p, "copy")
                 PROVE  CopiesLayers(p)'
      BY <1>2 DEF CopiesLayers, At
    <3>1. PICK c : c = Container(p)
      OBVIOUS
    <3>2. /\ c \in DOMAIN containers /\ containers[c].done = FALSE
          /\ containers[c].image = loc[p].id
          /\ InOrder(loc[p].id) /\ Kept(loc[p].id) =>
               Stage(LayersOf[loc[p].id[2]], loc[p].copy, containers[c].rootfs)
      BY <1>0, <3>1 DEF CopiesLayers, Rootfs
    <3>3. Container(p)' = c /\ loc'[p] = loc[p]
      BY <1>2, <3>1 DEF Container
    <3>4. loc[p].id \notin disturbed' => Kept(loc[p].id)
      BY <1>2 DEF Kept
    <3>5. QED
      BY <2>3, <3>2, <3>3, <3>4, CopyThen
  <2>5. DOMAIN containers' = DOMAIN containers
    BY <1>2
  <2>6. QED
    BY <2>1, <2>2, <2>3, <2>4, <2>5 DEF RootfsInv
<1>3. CASE Next
  <2>1. Remember
    BY <1>3 DEF Next
  <2>2. CASE ContainerStops /\ UNCHANGED <<kernelVars, work, bld>>
    BY <1>2, <2>1, <2>2, Remembered DEF ContainerStops
  <2>3. QED
    BY <1>1, <1>3, <2>1, <2>2, WhoActs
<1>4. CASE UNCHANGED vars
  <2>1. UNCHANGED <<images, todo, loc, disturbed, containers>>
    BY <1>4 DEF vars, imageVars, stores, files, history
  <2>2. QED
    BY <1>2, <2>1
<1>5. QED
  BY <1>3, <1>4

(* A container whose root file system was assembled while nobody else was  *)
(* at its image has every file of every layer, a later layer of the        *)
(* manifest before an earlier one, where the digests sort like the         *)
(* manifest (rootfs.go:11-42).  Images with a layer that has a file at the *)
(* path of a link of a layer below it are left out: copyFile opens the     *)
(* path and writes through the link (rootfs.go:44-90).                     *)
THEOREM RootfsAreWhole == LinksOnce /\ LinksStand => (Spec => []RootfsWhole)
<1> SUFFICES ASSUME LinksOnce, LinksStand
             PROVE  Spec => []RootfsWhole
  OBVIOUS
<1>1. Init => RootfsInv
  BY RootfsInvInit
<1>2. TypeInv /\ BuildInv /\ ImageInv /\ RootfsInv /\ [Next]_vars => RootfsInv'
  BY RootfsInvKept
<1>3. RootfsInv => RootfsWhole
  <2> SUFFICES ASSUME RootfsInv, NEW c \in DOMAIN containers, Assembling(c),
                      NEW s, s = LayersOf[containers[c].image[2]], s = NameOrder(Range(s))
               PROVE  containers[c].rootfs = Stacked(s)
    BY DEF RootfsWhole
  <2>1. InOrder(containers[c].image)
    BY DEF Assembling, InOrder
  <2>2. QED
    BY <2>1 DEF RootfsInv, ContainerOK, Assembling, Kept
<1>4. QED
  BY <1>1, <1>2, <1>3, ImageInvariant, PTL DEF Spec

-----------------------------------------------------------------------------
(* The settings after n instructions.                                      *)
Among(instrs, n, kind) == {i \in 1 .. n : instrs[i].kind = kind}
LastUpTo(instrs, n, kind, default) ==
  IF Among(instrs, n, kind) = {} THEN default ELSE instrs[Max(Among(instrs, n, kind))].args

SettledUpTo(instrs, n, base, settings) ==
  /\ DOMAIN settings = SettingNames
  /\ \A kind \in DOMAIN Replaces :
       settings[Replaces[kind]] = LastUpTo(instrs, n, kind, base[Replaces[kind]])
  /\ settings.ports = base.ports \cup {instrs[i].port : i \in Among(instrs, n, "EXPOSE")}
  /\ settings.volumes = base.volumes \cup {instrs[i].path : i \in Among(instrs, n, "VOLUME")}
  /\ IsSeq(settings.env)
  /\ Len(settings.env) = Len(base.env) + Cardinality(Among(instrs, n, "ENV"))
  /\ \A i \in 1 .. Len(base.env) : settings.env[i] = base.env[i]
  /\ \A i \in Among(instrs, n, "ENV") :
       settings.env[Len(base.env) + Cardinality(Among(instrs, i, "ENV"))]
         = <<instrs[i].key, instrs[i].value>>

LEMMA AmongGrows ==
  ASSUME NEW instrs, NEW n \in Nat, NEW kind
  PROVE  /\ instrs[n + 1].kind # kind => Among(instrs, n + 1, kind) = Among(instrs, n, kind)
         /\ instrs[n + 1].kind = kind =>
              /\ Among(instrs, n + 1, kind) = Among(instrs, n, kind) \cup {n + 1}
              /\ Max(Among(instrs, n + 1, kind)) = n + 1
              /\ Cardinality(Among(instrs, n + 1, kind)) = Cardinality(Among(instrs, n, kind)) + 1
         /\ Cardinality(Among(instrs, n, kind)) \in Nat
<1> DEFINE A == Among(instrs, n, kind)
           B == Among(instrs, n + 1, kind)
<1>1. IsFiniteSet(A) /\ Cardinality(A) \in Nat
  <2>1. IsFiniteSet(1 .. n)
    BY FS_Interval
  <2>2. A \subseteq 1 .. n
    BY DEF Among
  <2>3. QED
    BY <2>1, <2>2, FS_Subset, FS_CardinalityType
<1>2. instrs[n + 1].kind # kind => B = A
  BY DEF Among
<1>3. instrs[n + 1].kind = kind => B = A \cup {n + 1} /\ n + 1 \notin A /\ n + 1 \in B
  BY DEF Among
<1>4. B \in SUBSET (1 .. n + 1)
  BY DEF Among
<1> HIDE DEF A, B
<1>5. ASSUME instrs[n + 1].kind = kind
      PROVE  Max(B) = n + 1 /\ Cardinality(B) = Cardinality(A) + 1
  <2>1. Max(B) = n + 1
    BY <1>3, <1>4, <1>5, MaxOfUpTo
  <2>2. Cardinality(A \cup {n + 1}) = Cardinality(A) + 1
    BY <1>1, <1>3, <1>5, FS_AddElement
  <2>3. QED
    BY <1>3, <1>5, <2>1, <2>2
<1>6. QED
  BY <1>1, <1>2, <1>3, <1>5 DEF A, B

LEMMA NoneYet ==
  ASSUME NEW instrs, NEW base, DOMAIN base = SettingNames, IsSeq(base.env)
  PROVE  SettledUpTo(instrs, 0, base, base)
<1>1. \A kind : Among(instrs, 0, kind) = {}
  BY DEF Among
<1>2. Cardinality({}) = 0 /\ Len(base.env) \in Nat
  BY FS_EmptySet, SeqFacts
<1>3. \A kind, x : LastUpTo(instrs, 0, kind, x) = x
  BY <1>1 DEF LastUpTo
<1>4. /\ {instrs[i].port : i \in Among(instrs, 0, "EXPOSE")} = {}
      /\ {instrs[i].path : i \in Among(instrs, 0, "VOLUME")} = {}
  BY <1>1
<1>5. Len(base.env) = Len(base.env) + Cardinality(Among(instrs, 0, "ENV"))
  <2>1. PICK n : n = Len(base.env)
    OBVIOUS
  <2>2. n = n + 0
    BY <1>2, <2>1
  <2>3. QED
    BY <1>1, <1>2, <2>1, <2>2
<1>6. base.ports = base.ports \cup {} /\ base.volumes = base.volumes \cup {}
  OBVIOUS
<1>7. QED
  BY <1>1, <1>3, <1>4, <1>5, <1>6 DEF SettledUpTo

(* An instruction that changes no setting that is looked at.               *)
Listed == DOMAIN Replaces \cup {"EXPOSE", "VOLUME", "ENV"}

LEMMA NoSetting ==
  ASSUME NEW instrs, NEW n \in Nat, NEW base, NEW settings, NEW next,
         SettledUpTo(instrs, n, base, settings), instrs[n + 1].kind \notin Listed,
         DOMAIN next = SettingNames,
         \A x \in SettingNames \ {"labels"} : next[x] = settings[x]
  PROVE  SettledUpTo(instrs, n + 1, base, next)
<1>1. \A kind \in Listed : Among(instrs, n + 1, kind) = Among(instrs, n, kind)
  BY AmongGrows
<1>2. \A kind \in DOMAIN Replaces :
        /\ Replaces[kind] \in SettingNames \ {"labels"}
        /\ kind \in Listed
  BY DEF Replaces, SettingNames, Listed
<1>3. \A kind \in DOMAIN Replaces :
        next[Replaces[kind]] = LastUpTo(instrs, n + 1, kind, base[Replaces[kind]])
  BY <1>1, <1>2 DEF LastUpTo, SettledUpTo
<1>4. {"EXPOSE", "VOLUME", "ENV"} \subseteq Listed
  BY DEF Listed
<1>5. next.ports = settings.ports /\ next.volumes = settings.volumes /\ next.env = settings.env
  BY DEF SettingNames
<1>6. QED
  BY <1>1, <1>3, <1>4, <1>5 DEF SettledUpTo

(* A setting that is replaced.                                             *)
LEMMA Replacing ==
  ASSUME NEW instrs, NEW n \in Nat, NEW base, NEW settings, NEW next, NEW k \in DOMAIN Replaces,
         SettledUpTo(instrs, n, base, settings), instrs[n + 1].kind = k,
         DOMAIN next = SettingNames, next[Replaces[k]] = instrs[n + 1].args,
         \A x \in SettingNames \ {Replaces[k]} : next[x] = settings[x]
  PROVE  SettledUpTo(instrs, n + 1, base, next)
<1>1. \A kind \in Listed \ {k} : Among(instrs, n + 1, kind) = Among(instrs, n, kind)
  BY AmongGrows
<1>2. n + 1 \in Among(instrs, n + 1, k) /\ Max(Among(instrs, n + 1, k)) = n + 1
  <2>1. n + 1 \in Among(instrs, n + 1, k)
    BY DEF Among
  <2>2. Max(Among(instrs, n + 1, k)) = n + 1
    BY AmongGrows
  <2>3. QED
    BY <2>1, <2>2
<1>3. k \in {"CMD", "ENTRYPOINT", "WORKDIR", "USER", "SHELL"} /\ k \in Listed
  BY DEF Replaces, Listed
<1>4. ASSUME NEW kind \in DOMAIN Replaces
      PROVE  next[Replaces[kind]] = LastUpTo(instrs, n + 1, kind, base[Replaces[kind]])
  <2>1. CASE kind = k
    BY <1>2, <2>1 DEF LastUpTo
  <2>2. CASE kind # k
    <3>1. Replaces[kind] # Replaces[k] /\ Replaces[kind] \in SettingNames /\ kind \in Listed
      BY <2>2 DEF Replaces, SettingNames, Listed
    <3>2. next[Replaces[kind]] = settings[Replaces[kind]]
      BY <3>1
    <3>3. QED
      BY <1>1, <2>2, <3>1, <3>2 DEF LastUpTo, SettledUpTo
  <2>3. QED
    BY <2>1, <2>2
<1>5. {"EXPOSE", "VOLUME", "ENV"} \subseteq Listed \ {k}
  BY <1>3 DEF Listed
<1>6. {"ports", "volumes", "env"} \subseteq SettingNames \ {Replaces[k]}
  BY DEF SettingNames, Replaces
<1>7. next.ports = settings.ports /\ next.volumes = settings.volumes /\ next.env = settings.env
  BY <1>6
<1>8. QED
  BY <1>1, <1>4, <1>5, <1>7 DEF SettledUpTo

(* Settings that nothing else replaces stay what they are.                 *)
LEMMA OthersStay ==
  ASSUME NEW instrs, NEW n \in Nat, NEW base, NEW settings, NEW next,
         SettledUpTo(instrs, n, base, settings), instrs[n + 1].kind \notin DOMAIN Replaces,
         NEW x \in {"ports", "volumes", "env"},
         \A y \in SettingNames \ {x} : next[y] = settings[y]
  PROVE  /\ \A kind \in DOMAIN Replaces :
              next[Replaces[kind]] = LastUpTo(instrs, n + 1, kind, base[Replaces[kind]])
         /\ \A kind \in {"EXPOSE", "VOLUME", "ENV"} : instrs[n + 1].kind # kind =>
              Among(instrs, n + 1, kind) = Among(instrs, n, kind)
<1>1. \A kind \in DOMAIN Replaces : Among(instrs, n + 1, kind) = Among(instrs, n, kind)
  BY AmongGrows
<1>2. \A kind \in DOMAIN Replaces : Replaces[kind] \in SettingNames \ {x}
  BY DEF Replaces, SettingNames
<1>3. \A kind : instrs[n + 1].kind # kind => Among(instrs, n + 1, kind) = Among(instrs, n, kind)
  BY AmongGrows
<1>4. QED
  BY <1>1, <1>2, <1>3 DEF LastUpTo, SettledUpTo

LEMMA Exposing ==
  ASSUME NEW instrs, NEW n \in Nat, NEW base, NEW settings, NEW next,
         SettledUpTo(instrs, n, base, settings), instrs[n + 1].kind = "EXPOSE",
         DOMAIN next = SettingNames, next.ports = settings.ports \cup {instrs[n + 1].port},
         \A x \in SettingNames \ {"ports"} : next[x] = settings[x]
  PROVE  SettledUpTo(instrs, n + 1, base, next)
<1>1. instrs[n + 1].kind \notin DOMAIN Replaces
  BY DEF Replaces
<1>2. /\ \A kind \in DOMAIN Replaces :
           next[Replaces[kind]] = LastUpTo(instrs, n + 1, kind, base[Replaces[kind]])
      /\ Among(instrs, n + 1, "VOLUME") = Among(instrs, n, "VOLUME")
      /\ Among(instrs, n + 1, "ENV") = Among(instrs, n, "ENV")
  BY <1>1, OthersStay
<1>3. Among(instrs, n + 1, "EXPOSE") = Among(instrs, n, "EXPOSE") \cup {n + 1}
  BY AmongGrows
<1>4. next.volumes = settings.volumes /\ next.env = settings.env
  BY DEF SettingNames
<1>5. next.ports = base.ports \cup {instrs[i].port : i \in Among(instrs, n + 1, "EXPOSE")}
  <2>1. settings.ports = base.ports \cup {instrs[i].port : i \in Among(instrs, n, "EXPOSE")}
    BY DEF SettledUpTo
  <2>2. QED
    BY <1>3, <2>1
<1>6. QED
  BY <1>2, <1>4, <1>5 DEF SettledUpTo

LEMMA AddingVolume ==
  ASSUME NEW instrs, NEW n \in Nat, NEW base, NEW settings, NEW next,
         SettledUpTo(instrs, n, base, settings), instrs[n + 1].kind = "VOLUME",
         DOMAIN next = SettingNames, next.volumes = settings.volumes \cup {instrs[n + 1].path},
         \A x \in SettingNames \ {"volumes"} : next[x] = settings[x]
  PROVE  SettledUpTo(instrs, n + 1, base, next)
<1>1. instrs[n + 1].kind \notin DOMAIN Replaces
  BY DEF Replaces
<1>2. /\ \A kind \in DOMAIN Replaces :
           next[Replaces[kind]] = LastUpTo(instrs, n + 1, kind, base[Replaces[kind]])
      /\ Among(instrs, n + 1, "EXPOSE") = Among(instrs, n, "EXPOSE")
      /\ Among(instrs, n + 1, "ENV") = Among(instrs, n, "ENV")
  BY <1>1, OthersStay
<1>3. Among(instrs, n + 1, "VOLUME") = Among(instrs, n, "VOLUME") \cup {n + 1}
  BY AmongGrows
<1>4. next.ports = settings.ports /\ next.env = settings.env
  BY DEF SettingNames
<1>5. next.volumes = base.volumes \cup {instrs[i].path : i \in Among(instrs, n + 1, "VOLUME")}
  <2>1. settings.volumes = base.volumes \cup {instrs[i].path : i \in Among(instrs, n, "VOLUME")}
    BY DEF SettledUpTo
  <2>2. QED
    BY <1>3, <2>1
<1>6. QED
  BY <1>2, <1>4, <1>5 DEF SettledUpTo

LEMMA AddingVariable ==
  ASSUME NEW instrs, NEW n \in Nat, NEW base, NEW settings, NEW next,
         IsSeq(base.env), SettledUpTo(instrs, n, base, settings), instrs[n + 1].kind = "ENV",
         DOMAIN next = SettingNames,
         next.env = Append(settings.env, <<instrs[n + 1].key, instrs[n + 1].value>>),
         \A x \in SettingNames \ {"env"} : next[x] = settings[x]
  PROVE  SettledUpTo(instrs, n + 1, base, next)
<1>1. instrs[n + 1].kind \notin DOMAIN Replaces
  BY DEF Replaces
<1>2. /\ \A kind \in DOMAIN Replaces :
           next[Replaces[kind]] = LastUpTo(instrs, n + 1, kind, base[Replaces[kind]])
      /\ Among(instrs, n + 1, "EXPOSE") = Among(instrs, n, "EXPOSE")
      /\ Among(instrs, n + 1, "VOLUME") = Among(instrs, n, "VOLUME")
  BY <1>1, OthersStay
<1>3. next.ports = settings.ports /\ next.volumes = settings.volumes
  BY DEF SettingNames
<1> DEFINE A == Among(instrs, n, "ENV")
           B == Among(instrs, n + 1, "ENV")
           c == Cardinality(A)
           k == Len(base.env)
           env == settings.env
<1>4. B = A \cup {n + 1} /\ Cardinality(B) = c + 1 /\ c \in Nat /\ k \in Nat
  <2>1. B = A \cup {n + 1}
    BY DEF Among
  <2>2. Cardinality(B) = c + 1
    BY AmongGrows
  <2>3. c \in Nat
    BY AmongGrows
  <2>4. k \in Nat
    BY SeqFacts
  <2>5. QED
    BY <2>1, <2>2, <2>3, <2>4
<1>5. /\ IsSeq(env) /\ Len(env) = k + c
      /\ \A i \in 1 .. k : env[i] = base.env[i]
      /\ \A i \in A : env[k + Cardinality(Among(instrs, i, "ENV"))]
                        = <<instrs[i].key, instrs[i].value>>
  BY DEF SettledUpTo
<1>6. /\ IsSeq(next.env) /\ Len(next.env) = k + c + 1
      /\ \A i \in 1 .. k + c : next.env[i] = env[i]
      /\ next.env[k + c + 1] = <<instrs[n + 1].key, instrs[n + 1].value>>
  BY <1>5, AppendFacts
<1>7. \A i \in 1 .. k : next.env[i] = base.env[i]
  <2> HIDE DEF c, k
  <2>1. \A i \in 1 .. k : i \in 1 .. k + c
    BY <1>4
  <2>2. QED
    BY <1>5, <1>6, <2>1
<1>8. ASSUME NEW i \in B
      PROVE  next.env[k + Cardinality(Among(instrs, i, "ENV"))] = <<instrs[i].key, instrs[i].value>>
  <2>1. CASE i = n + 1
    <3>1. k + Cardinality(Among(instrs, i, "ENV")) = k + c + 1
      <4> DEFINE d == Cardinality(B)
      <4>1. d = c + 1 /\ d = Cardinality(Among(instrs, i, "ENV"))
        BY <1>4, <2>1
      <4> HIDE DEF c, k, d
      <4>2. k + d = k + c + 1
        BY <1>4, <4>1
      <4>3. QED
        BY <4>1, <4>2
    <3>2. QED
      BY <1>6, <2>1, <3>1
  <2>2. CASE i # n + 1
    <3>1. i \in A /\ i \in 1 .. n
      BY <1>4, <2>2 DEF Among
    <3> DEFINE d == Cardinality(Among(instrs, i, "ENV"))
    <3>2. d \in 1 .. c
      <4>1. Among(instrs, i, "ENV") \subseteq A /\ i \in Among(instrs, i, "ENV")
            /\ A \subseteq 1 .. n
        BY <3>1 DEF Among
      <4>2. IsFiniteSet(A)
        <5>1. IsFiniteSet(1 .. n)
          BY FS_Interval
        <5>2. QED
          BY <4>1, <5>1, FS_Subset
      <4>3. IsFiniteSet(Among(instrs, i, "ENV")) /\ d <= c
        BY <4>1, <4>2, FS_Subset
      <4>4. d \in Nat /\ d # 0
        BY <4>1, <4>3, FS_CardinalityType, FS_EmptySet
      <4> HIDE DEF d, c
      <4>5. QED
        BY <1>4, <4>3, <4>4
    <3>3. env[k + d] = <<instrs[i].key, instrs[i].value>>
      BY <1>5, <3>1
    <3> HIDE DEF d, c, k
    <3>4. k + d \in 1 .. k + c
      BY <1>4, <3>2
    <3>5. next.env[k + d] = env[k + d]
      BY <1>6, <3>4
    <3>6. QED
      BY <3>3, <3>5 DEF d, k
  <2>3. QED
    BY <2>1, <2>2
<1>9. Len(next.env) = k + Cardinality(B)
  <2> DEFINE d == Cardinality(B)
  <2>1. d = c + 1
    BY <1>4
  <2> HIDE DEF d, c, k
  <2>2. k + d = k + c + 1
    BY <1>4, <2>1
  <2>3. QED
    BY <1>6, <2>2 DEF d
<1>10. next.ports = base.ports \cup {instrs[i].port : i \in Among(instrs, n + 1, "EXPOSE")}
  BY <1>2, <1>3 DEF SettledUpTo
<1>11. next.volumes = base.volumes \cup {instrs[i].path : i \in Among(instrs, n + 1, "VOLUME")}
  BY <1>2, <1>3 DEF SettledUpTo
<1>12. QED
  BY <1>2, <1>6, <1>7, <1>8, <1>9, <1>10, <1>11 DEF SettledUpTo

(* What an instruction makes of the settings.                              *)
LEMMA ReplacingCases ==
  ASSUME NEW s, NEW i, DOMAIN s = SettingNames
  PROVE  /\ i.kind = "CMD" => Configured(s, i) = [s EXCEPT !.cmd = i.args]
         /\ i.kind = "ENTRYPOINT" => Configured(s, i) = [s EXCEPT !.entrypoint = i.args]
         /\ i.kind = "WORKDIR" => Configured(s, i) = [s EXCEPT !.workdir = i.args]
         /\ i.kind = "USER" => Configured(s, i) = [s EXCEPT !.user = i.args]
         /\ i.kind = "SHELL" => Configured(s, i) = [s EXCEPT !.shell = i.args]
<1>1. ASSUME i.kind = "CMD"
      PROVE  Configured(s, i) = [s EXCEPT !.cmd = i.args]
  BY <1>1 DEF Configured, SettingNames
<1>2. ASSUME i.kind = "ENTRYPOINT"
      PROVE  Configured(s, i) = [s EXCEPT !.entrypoint = i.args]
  BY <1>2 DEF Configured, SettingNames
<1>3. ASSUME i.kind = "WORKDIR"
      PROVE  Configured(s, i) = [s EXCEPT !.workdir = i.args]
  BY <1>3 DEF Configured, SettingNames
<1>4. ASSUME i.kind = "USER"
      PROVE  Configured(s, i) = [s EXCEPT !.user = i.args]
  BY <1>4 DEF Configured, SettingNames
<1>5. ASSUME i.kind = "SHELL"
      PROVE  Configured(s, i) = [s EXCEPT !.shell = i.args]
  BY <1>5 DEF Configured, SettingNames
<1>6. QED
  BY <1>1, <1>2, <1>3, <1>4, <1>5

LEMMA Configuring ==
  ASSUME NEW instrs, NEW n \in Nat, NEW base, NEW settings, IsSeq(base.env),
         SettledUpTo(instrs, n, base, settings), NEW i, i = instrs[n + 1]
  PROVE  SettledUpTo(instrs, n + 1, base, Configured(settings, i))
<1> DEFINE next == Configured(settings, i)
<1>0. DOMAIN settings = SettingNames
  BY DEF SettledUpTo
<1>a. ASSUME NEW x \in SettingNames, NEW v, next = [settings EXCEPT ![x] = v]
      PROVE  /\ DOMAIN next = SettingNames /\ next[x] = v
             /\ \A y \in SettingNames \ {x} : next[y] = settings[y]
  <2> HIDE DEF next
  <2>1. QED
    BY <1>0, <1>a
<1>b. ASSUME NEW k \in DOMAIN Replaces, i.kind = k, next = [settings EXCEPT ![Replaces[k]] = i.args]
      PROVE  SettledUpTo(instrs, n + 1, base, next)
  <2>1. Replaces[k] \in SettingNames
    BY DEF Replaces, SettingNames
  <2> HIDE DEF next
  <2>2. /\ DOMAIN next = SettingNames /\ next[Replaces[k]] = instrs[n + 1].args
        /\ \A y \in SettingNames \ {Replaces[k]} : next[y] = settings[y]
    BY <1>a, <1>b, <2>1
  <2>3. QED
    BY <1>b, <2>2, Replacing
<1>c. /\ DOMAIN Replaces = {"CMD", "ENTRYPOINT", "WORKDIR", "USER", "SHELL"}
      /\ Replaces["CMD"] = "cmd" /\ Replaces["ENTRYPOINT"] = "entrypoint"
      /\ Replaces["WORKDIR"] = "workdir" /\ Replaces["USER"] = "user"
      /\ Replaces["SHELL"] = "shell"
  BY DEF Replaces
<1>d. /\ i.kind = "EXPOSE" => next = [settings EXCEPT !.ports = settings.ports \cup {i.port}]
      /\ i.kind = "VOLUME" => next = [settings EXCEPT !.volumes = settings.volumes \cup {i.path}]
      /\ i.kind = "ENV" =>
           next = [settings EXCEPT !.env = Append(settings.env, <<i.key, i.value>>)]
      /\ i.kind \notin Listed =>
           next = settings \/ \E labels : next = [settings EXCEPT !.labels = labels]
  <2>1. PICK s : s = settings
    OBVIOUS
  <2>2. DOMAIN s = SettingNames
    BY <1>0, <2>1
  <2>3. ASSUME i.kind = "EXPOSE"
        PROVE  Configured(s, i) = [s EXCEPT !.ports = s.ports \cup {i.port}]
    BY <2>2, <2>3 DEF Configured, SettingNames
  <2>4. ASSUME i.kind = "ENV"
        PROVE  Configured(s, i) = [s EXCEPT !.env = Append(s.env, <<i.key, i.value>>)]
    BY <2>2, <2>4 DEF Configured, SettingNames
  <2>5. ASSUME i.kind \notin Listed
        PROVE  Configured(s, i) = s \/ \E labels : Configured(s, i) = [s EXCEPT !.labels = labels]
    <3>1. i.kind \notin {"CMD", "ENTRYPOINT", "ENV", "WORKDIR", "EXPOSE", "VOLUME", "USER", "SHELL"}
      BY <2>5 DEF Listed, Replaces
    <3>2. CASE i.kind = "LABEL"
      BY <3>2 DEF Configured
    <3>3. CASE i.kind # "LABEL"
      BY <3>1, <3>3 DEF Configured
    <3>4. QED
      BY <3>2, <3>3
  <2>6. ASSUME i.kind = "VOLUME"
        PROVE  Configured(s, i) = [s EXCEPT !.volumes = s.volumes \cup {i.path}]
    BY <2>2, <2>6 DEF Configured, SettingNames
  <2>7. QED
    BY <2>1, <2>3, <2>4, <2>5, <2>6
<1> HIDE DEF next
<1>1. CASE i.kind = "CMD"
  <2>1. next = [settings EXCEPT !.cmd = i.args]
    BY <1>0, <1>1, ReplacingCases DEF next
  <2>2. QED
    BY <1>b, <1>c, <1>1, <2>1 DEF next
<1>2. CASE i.kind = "ENTRYPOINT"
  <2>1. next = [settings EXCEPT !.entrypoint = i.args]
    BY <1>0, <1>2, ReplacingCases DEF next
  <2>2. QED
    BY <1>b, <1>c, <1>2, <2>1 DEF next
<1>3. CASE i.kind = "WORKDIR"
  <2>1. next = [settings EXCEPT !.workdir = i.args]
    BY <1>0, <1>3, ReplacingCases DEF next
  <2>2. QED
    BY <1>b, <1>c, <1>3, <2>1 DEF next
<1>4. CASE i.kind = "USER"
  <2>1. next = [settings EXCEPT !.user = i.args]
    BY <1>0, <1>4, ReplacingCases DEF next
  <2>2. QED
    BY <1>b, <1>c, <1>4, <2>1 DEF next
<1>5. CASE i.kind = "SHELL"
  <2>1. next = [settings EXCEPT !.shell = i.args]
    BY <1>0, <1>5, ReplacingCases DEF next
  <2>2. QED
    BY <1>b, <1>c, <1>5, <2>1 DEF next
<1>6. CASE i.kind = "EXPOSE"
  <2>1. next = [settings EXCEPT !.ports = settings.ports \cup {i.port}]
    BY <1>d, <1>6
  <2>2. "ports" \in SettingNames
    BY DEF SettingNames
  <2>3. /\ DOMAIN next = SettingNames /\ next.ports = settings.ports \cup {instrs[n + 1].port}
        /\ \A y \in SettingNames \ {"ports"} : next[y] = settings[y]
    BY <1>a, <2>1, <2>2
  <2>4. QED
    BY <1>6, <2>3, Exposing DEF next
<1>7. CASE i.kind = "VOLUME"
  <2>1. next = [settings EXCEPT !.volumes = settings.volumes \cup {i.path}]
    BY <1>d, <1>7
  <2>2. "volumes" \in SettingNames
    BY DEF SettingNames
  <2>3. /\ DOMAIN next = SettingNames
        /\ next.volumes = settings.volumes \cup {instrs[n + 1].path}
        /\ \A y \in SettingNames \ {"volumes"} : next[y] = settings[y]
    BY <1>a, <2>1, <2>2
  <2>4. QED
    BY <1>7, <2>3, AddingVolume DEF next
<1>8. CASE i.kind = "ENV"
  <2>1. next = [settings EXCEPT !.env = Append(settings.env, <<i.key, i.value>>)]
    BY <1>d, <1>8
  <2>2. "env" \in SettingNames
    BY DEF SettingNames
  <2>3. /\ DOMAIN next = SettingNames
        /\ next.env = Append(settings.env, <<instrs[n + 1].key, instrs[n + 1].value>>)
        /\ \A y \in SettingNames \ {"env"} : next[y] = settings[y]
    BY <1>a, <2>1, <2>2
  <2>4. QED
    BY <1>8, <2>3, AddingVariable DEF next
<1>9. CASE i.kind \notin Listed
  <2>1. next = settings \/ \E labels : next = [settings EXCEPT !.labels = labels]
    BY <1>d, <1>9
  <2>2. "labels" \in SettingNames
    BY DEF SettingNames
  <2>3. DOMAIN next = SettingNames /\ \A y \in SettingNames \ {"labels"} : next[y] = settings[y]
    BY <1>0, <1>a, <2>1, <2>2
  <2>4. QED
    BY <1>9, <2>3, NoSetting DEF next
<1>10. QED
  BY <1>1, <1>2, <1>3, <1>4, <1>5, <1>6, <1>7, <1>8, <1>9, <1>c DEF Listed, next

-----------------------------------------------------------------------------
(* The configuration of an image from a registry has the settings that the *)
(* registry says, on disk and in the hands of who found or pulled it.      *)
ConfigOK(id, config) ==
  IsRemote(id) /\ config # NoConfig =>
    id[2] \in DOMAIN LayersOf /\ config[1].settings = SettingsOf[id[2]]
Configs == \A id \in DOMAIN images : ConfigOK(id, images[id].config)

Got(p) == loc[p].at \in {"pulled", "from"} \/ (Indexing(p) /\ loc[p].next = "pulled")
HoldsConfig(p) == Got(p) => loc[p].config # NoConfig /\ ConfigOK(loc[p].id, loc[p].config)

(* Where a build is while it carries out KERNEL and RUN.                   *)
PullsFor(p) ==
  \/ loc[p].at \in PullPlaces \cup LayerPlaces \cup {"pulled"}
  \/ Indexing(p) /\ loc[p].next = "pulled"
KernelSide(p) ==
  \/ loc[p].at \in LoadPlaces \cup {"kernel", "binary", "modules", "kerneled"}
  \/ Indexing(p) /\ loc[p].next = "kerneled"
  \/ PullsFor(p) /\ loc[p].pulling = "kernel"
Serves(p) ==
  /\ loc[p].at \in {"machine", "ran"} => Instr(p).kind = "RUN"
  /\ KernelSide(p) /\ Cmd(p).kind = "build" => Instr(p).kind = "KERNEL"
  /\ loc[p].at = "commit kernel" => ~Unfinished(p)

(* The settings of a build whose Dockerfile begins with FROM.              *)
Settles(p) ==
  bld[p].instrs[1].kind = "FROM" =>
    /\ IsSeq(bld[p].base)
    /\ bld[p].base = <<>> => bld[p].pos = 1
    /\ Len(bld[p].base) = 1 /\ IsRemote(bld[p].base[1]) =>
         /\ BaseOf(p) \in DOMAIN LayersOf
         /\ SettledUpTo(bld[p].instrs, bld[p].pos - 1, SettingsOf[BaseOf(p)], bld[p].settings)

(* The image of a build has its settings.                                  *)
Recorded(p) ==
  Cmd(p).kind = "build" /\ NewId(p) \in DOMAIN images =>
    /\ ~Unfinished(p)
    /\ Has(NewId(p)) => images[NewId(p)].config[1].settings = bld[p].settings

SettingsInv ==
  /\ Configs
  /\ \A p \in Proc : HandOK(p) /\ FetchOK(p) /\ HoldsConfig(p)
  /\ \A p \in Proc : Serves(p) /\ Settles(p) /\ Recorded(p)

-----------------------------------------------------------------------------
(* Which steps put a configuration into the hands of a process.            *)
LEMMA AtFrom ==
  ASSUME NEW p \in Proc, Act(p), loc[p].at = "from"
  PROVE  CopyBaseLayer(p) \/ FromEnds(p) \/ Killed(p)
<1>1. ~PullResolve(p) /\ ~FetchManifest(p) /\ ~FetchPlatform(p) /\ ~FetchConfig(p)
  BY DEF PullResolve, FetchManifest, FetchPlatform, FetchConfig, At
<1>2. ~NextLayer(p) /\ ~GetBlob(p) /\ ~ExtractEntry(p) /\ ~VerifyLayer(p)
  BY DEF NextLayer, GetBlob, ExtractEntry, VerifyLayer, At
<1>3. ~SaveImage(p) /\ ~FailedAttempt(p) /\ ~LoadIndex(p) /\ ~Truncate(p) /\ ~SaveIndex(p)
  BY DEF SaveImage, FailedAttempt, Requests, LoadIndex, Truncate, SaveIndex, At
<1>4. ~Pulled(p) /\ ~RmiResolve(p) /\ ~RemoveAll(p) /\ ~WriteArchive(p) /\ ~ReadArchive(p)
  BY DEF Pulled, RmiResolve, RemoveAll, WriteArchive, ReadArchive, At
<1>5. ~AssembleRootfs(p) /\ ~CopyLayer(p) /\ ~Assembled(p) /\ ~CopyKernel(p)
  BY DEF AssembleRootfs, CopyLayer, Assembled, CopyKernel, At
<1>6. ~PullKernel(p) /\ ~DownloadArchive(p) /\ ~DownloadEnds(p) /\ ~ExtractArchive(p)
  BY DEF PullKernel, DownloadArchive, DownloadEnds, ExtractArchive, At
<1>7. ~OCIKernelPulled(p) /\ ~CopyBinary(p) /\ ~CopyModule(p) /\ ~SaveKernel(p)
  BY DEF OCIKernelPulled, CopyBinary, CopyModule, SaveKernel, At
<1>8. ~KernelPulled(p) /\ ~FindStored(p) /\ ~RemoveKernel(p) /\ ~Stall(p)
  BY DEF KernelPulled, FindStored, RemoveKernel, Stall, At
<1>9. ~ParseDockerfile(p) /\ ~BeginProcess(p) /\ ~HandleFrom(p) /\ ~FromPulled(p)
  BY DEF ParseDockerfile, BeginProcess, HandleFrom, Handles, FromPulled, At
<1>10. ~HandleKernel(p) /\ ~KernelEnds(p) /\ ~HandleRun(p) /\ ~Machine(p)
  BY DEF HandleKernel, Handles, KernelEnds, HandleRun, Machine, At
<1>11. ~RunEnds(p) /\ ~HandleCopy(p) /\ ~Configure(p) /\ ~ProcessEnds(p) /\ ~CleanUp(p)
  BY DEF RunEnds, HandleCopy, Handles, Configure, ProcessEnds, CleanUp, At
<1>12. ~CommitKernel(p) /\ ~CommitRootfs(p) /\ ~CommitSave(p) /\ ~NextCommand(p)
  BY DEF CommitKernel, CommitRootfs, CommitSave, NextCommand, Busy, Ended, At
<1>13. QED
  BY <1>1, <1>2, <1>3, <1>4, <1>5, <1>6, <1>7, <1>8, <1>9, <1>10, <1>11, <1>12
     DEF Act, Progress, ImageStep, Pull, KernelStep, BuildStep

LEMMA AtStep ==
  ASSUME NEW p \in Proc, Act(p), loc[p].at = "step"
  PROVE  \/ HandleFrom(p) \/ HandleKernel(p) \/ HandleRun(p) \/ HandleCopy(p) \/ Configure(p)
         \/ ProcessEnds(p) \/ Killed(p)
<1>1. ~PullResolve(p) /\ ~FetchManifest(p) /\ ~FetchPlatform(p) /\ ~FetchConfig(p)
  BY DEF PullResolve, FetchManifest, FetchPlatform, FetchConfig, At
<1>2. ~NextLayer(p) /\ ~GetBlob(p) /\ ~ExtractEntry(p) /\ ~VerifyLayer(p)
  BY DEF NextLayer, GetBlob, ExtractEntry, VerifyLayer, At
<1>3. ~SaveImage(p) /\ ~FailedAttempt(p) /\ ~LoadIndex(p) /\ ~Truncate(p) /\ ~SaveIndex(p)
  BY DEF SaveImage, FailedAttempt, Requests, LoadIndex, Truncate, SaveIndex, At
<1>4. ~Pulled(p) /\ ~RmiResolve(p) /\ ~RemoveAll(p) /\ ~WriteArchive(p) /\ ~ReadArchive(p)
  BY DEF Pulled, RmiResolve, RemoveAll, WriteArchive, ReadArchive, At
<1>5. ~AssembleRootfs(p) /\ ~CopyLayer(p) /\ ~Assembled(p) /\ ~CopyKernel(p)
  BY DEF AssembleRootfs, CopyLayer, Assembled, CopyKernel, At
<1>6. ~PullKernel(p) /\ ~DownloadArchive(p) /\ ~DownloadEnds(p) /\ ~ExtractArchive(p)
  BY DEF PullKernel, DownloadArchive, DownloadEnds, ExtractArchive, At
<1>7. ~OCIKernelPulled(p) /\ ~CopyBinary(p) /\ ~CopyModule(p) /\ ~SaveKernel(p)
  BY DEF OCIKernelPulled, CopyBinary, CopyModule, SaveKernel, At
<1>8. ~KernelPulled(p) /\ ~FindStored(p) /\ ~RemoveKernel(p) /\ ~Stall(p)
  BY DEF KernelPulled, FindStored, RemoveKernel, Stall, At
<1>9. ~ParseDockerfile(p) /\ ~BeginProcess(p) /\ ~CopyBaseLayer(p) /\ ~FromPulled(p)
  BY DEF ParseDockerfile, BeginProcess, CopyBaseLayer, FromPulled, At
<1>10. ~FromEnds(p) /\ ~KernelEnds(p) /\ ~Machine(p) /\ ~RunEnds(p) /\ ~CleanUp(p)
  BY DEF FromEnds, KernelEnds, Machine, RunEnds, CleanUp, At
<1>11. ~CommitKernel(p) /\ ~CommitRootfs(p) /\ ~CommitSave(p) /\ ~NextCommand(p)
  BY DEF CommitKernel, CommitRootfs, CommitSave, NextCommand, Busy, Ended, At
<1>12. QED
  BY <1>1, <1>2, <1>3, <1>4, <1>5, <1>6, <1>7, <1>8, <1>9, <1>10, <1>11
     DEF Act, Progress, ImageStep, Pull, KernelStep, BuildStep

KeepsConfig(p) == loc'[p].id = loc[p].id /\ loc'[p].config = loc[p].config

LEMMA GotArrives ==
  ASSUME NEW p \in Proc, Shapes, Control, Act(p), Got(p)'
  PROVE  \/ Got(p) /\ KeepsConfig(p)
         \/ PullResolve(p) \/ FetchConfig(p) \/ SaveImage(p)
<1>0. ShapesOK /\ Routed(p)
  BY DEF Shapes, Control
<1>a. ~Fail(p) /\ ~FailMet(p) /\ ~Killed(p)
  <2>1. Fail(p) \/ FailMet(p) => loc'[p].at = Failed(p)
    BY <1>0 DEF Fail, FailMet, ShapesOK, LocFields
  <2>2. QED
    BY <1>0, <2>1, KilledGoes DEF Failed, Got, Indexing
<1>b. ASSUME NEW at, Goto(p, at)
      PROVE  loc'[p].at = at /\ KeepsConfig(p) /\ loc'[p].next = loc[p].next
  BY <1>0, <1>b DEF Goto, KeepsConfig, ShapesOK, LocFields
<1>1. CASE Indexing(p)
  <2>1. loc[p].at \in Watched
    BY <1>1 DEF Indexing, Watched
  <2>2. LoadIndex(p) \/ Truncate(p) \/ SaveIndex(p)
    BY <1>1, <1>a, <2>1, ByPlace
       DEF Indexing, PullResolve, FetchManifest, FetchPlatform, FetchConfig, NextLayer, GetBlob,
           ExtractEntry, VerifyLayer, SaveImage, FailedAttempt, Requests, RmiResolve, RemoveAll,
           ReadArchive, CommitKernel, CommitRootfs, CommitSave, CopyModule, SaveKernel,
           FindStored, At
  <2>3. loc[p].next \notin {"load", "truncate", "write", "from"}
    BY <1>0, <1>1 DEF Routed, Routes
  <2>4. CASE LoadIndex(p)
    <3>1. PICK at, idx, names :
            \/ loc' = [loc EXCEPT ![p].at = "truncate", ![p].idx = idx, ![p].names = names]
            \/ loc' = [loc EXCEPT ![p].at = at, ![p].met = TRUE]
               /\ at = IF loc[p].strict THEN Failed(p) ELSE "panicked"
      <4> DEFINE names == IF loc[p].next \in {"removing", "kernel removing"}
                            THEN {n \in DOMAIN index[loc[p].store] :
                                    index[loc[p].store][n] = loc[p].id}
                            ELSE loc[p].names
      <4>1. \/ loc' = [loc EXCEPT ![p].at = "truncate", ![p].idx = index[loc[p].store],
                                  ![p].names = names]
            \/ loc' = [loc EXCEPT ![p].at = IF loc[p].strict THEN Failed(p) ELSE "panicked",
                                  ![p].met = TRUE]
        BY <1>0, <2>4 DEF LoadIndex, ShapesOK, LocFields
      <4> HIDE DEF names
      <4>2. QED
        BY <4>1
    <3>2. at \notin {"load", "truncate", "write", "pulled", "from"}
             \/ loc' = [loc EXCEPT ![p].at = "truncate", ![p].idx = idx, ![p].names = names]
      BY <3>1 DEF Failed
    <3>3. loc' = [loc EXCEPT ![p].at = "truncate", ![p].idx = idx, ![p].names = names]
      <4>1. ASSUME loc' = [loc EXCEPT ![p].at = at, ![p].met = TRUE]
            PROVE  loc'[p].at = at
        BY <1>0, <4>1 DEF ShapesOK, LocFields
      <4>2. QED
        BY <3>1, <3>2, <4>1 DEF Got, Indexing
    <3>4. KeepsConfig(p) /\ loc'[p].next = loc[p].next /\ loc'[p].at = "truncate"
      BY <1>0, <3>3 DEF KeepsConfig, ShapesOK, LocFields
    <3>5. QED
      BY <1>1, <3>4 DEF Got
  <2>5. CASE Truncate(p)
    BY <1>1, <1>b, <2>5 DEF Truncate, Got
  <2>6. CASE SaveIndex(p)
    BY <1>1, <1>a, <1>b, <2>3, <2>6 DEF SaveIndex, Got, Indexing
  <2>7. QED
    BY <2>2, <2>4, <2>5, <2>6
<1>2. CASE loc[p].at \in PullPlaces
  <2>1. loc[p].at \in Watched
    BY <1>2 DEF PullPlaces, Watched
  <2>2. PullResolve(p) \/ FetchManifest(p) \/ FetchPlatform(p) \/ FetchConfig(p)
        \/ FailedAttempt(p)
    BY <1>2, <1>a, <2>1, ByPlace
       DEF PullPlaces, NextLayer, GetBlob, ExtractEntry, VerifyLayer, SaveImage, LoadIndex,
           Truncate, SaveIndex, RmiResolve, RemoveAll, ReadArchive, CommitKernel, CommitRootfs,
           CommitSave, CopyModule, SaveKernel, FindStored, At
  <2>3. ~FetchManifest(p)
    <3>1. ASSUME NEW at, NEW image,
                 loc' = [loc EXCEPT ![p].at = at, ![p].image = image, ![p].tries = 0]
          PROVE  loc'[p].at = at
      BY <1>0, <3>1 DEF ShapesOK, LocFields
    <3>2. QED
      BY <1>a, <3>1, ManifestCases DEF Got, Indexing
  <2>4. ~FetchPlatform(p)
    BY <1>0 DEF FetchPlatform, Got, Indexing, ShapesOK, LocFields
  <2>5. ~FailedAttempt(p)
    <3>1. CASE loc' = [loc EXCEPT ![p].tries = @ + 1]
      BY <1>0, <1>2, <3>1 DEF PullPlaces, Got, Indexing, ShapesOK, LocFields
    <3>2. QED
      BY <1>a, <3>1 DEF FailedAttempt
  <2>6. QED
    BY <2>2, <2>3, <2>4, <2>5
<1>3. CASE loc[p].at \in LayerPlaces
  <2>1. loc[p].at \in Watched
    BY <1>3 DEF Watched
  <2>2. \/ NextLayer(p) \/ GetBlob(p) \/ ExtractEntry(p) \/ VerifyLayer(p) \/ SaveImage(p)
        \/ FailedAttempt(p)
    BY <1>3, <1>a, <2>1, ByPlace
       DEF LayerPlaces, PullResolve, FetchManifest, FetchPlatform, FetchConfig, LoadIndex,
           Truncate, SaveIndex, RmiResolve, RemoveAll, ReadArchive, CommitKernel, CommitRootfs,
           CommitSave, CopyModule, SaveKernel, FindStored, At
  <2>3. ~NextLayer(p)
    BY <1>b DEF NextLayer, Got, Indexing
  <2>4. ~GetBlob(p)
    BY <1>0 DEF GetBlob, Got, Indexing, ShapesOK, LocFields
  <2>5. ~ExtractEntry(p) /\ ~VerifyLayer(p)
    BY <1>0, <1>a DEF ExtractEntry, VerifyLayer, At, Got, Indexing, ShapesOK, LocFields
  <2>6. ~FailedAttempt(p)
    <3>1. CASE loc' = [loc EXCEPT ![p].tries = @ + 1]
      BY <1>0, <1>3, <3>1 DEF LayerPlaces, Got, Indexing, ShapesOK, LocFields
    <3>2. QED
      BY <1>a, <3>1 DEF FailedAttempt
  <2>7. QED
    BY <2>2, <2>3, <2>4, <2>5, <2>6
<1>4. CASE loc[p].at = "pulled"
  <2>1. ~NextCommand(p)
    BY <1>4 DEF NextCommand, Busy, Ended
  <2>2. Pulled(p) \/ OCIKernelPulled(p) \/ AssembleRootfs(p) \/ FromPulled(p)
    BY <1>4, <1>a, <2>1, AtPulled
  <2>3. ~Pulled(p) /\ ~OCIKernelPulled(p)
    BY <1>b DEF Pulled, OCIKernelPulled, Got, Indexing
  <2>4. ~AssembleRootfs(p)
    <3>1. ASSUME NEW copy, loc' = [loc EXCEPT ![p].at = "copy", ![p].copy = copy]
          PROVE  FALSE
      BY <1>0, <3>1 DEF Got, Indexing, ShapesOK, LocFields
    <3>2. QED
      BY <3>1 DEF AssembleRootfs
  <2>5. FromPulled(p)
    BY <2>2, <2>3, <2>4
  <2>6. PICK copy : loc' = [loc EXCEPT ![p].at = "from", ![p].copy = copy]
    BY <1>a, <2>5 DEF FromPulled
  <2>7. QED
    BY <1>0, <1>4, <2>6 DEF Got, KeepsConfig, ShapesOK, LocFields
<1>5. CASE loc[p].at = "from"
  <2>1. CASE CopyBaseLayer(p)
    <3>1. PICK copy : loc' = [loc EXCEPT ![p].copy = copy]
      <4>1. PICK tail : tail = Tail(loc[p].copy)
        OBVIOUS
      <4>2. loc' = [loc EXCEPT ![p].copy = tail]
        BY <1>0, <2>1, <4>1 DEF CopyBaseLayer, ShapesOK, LocFields
      <4>3. QED
        BY <4>2
    <3>2. QED
      BY <1>0, <1>5, <3>1 DEF Got, KeepsConfig, ShapesOK, LocFields
  <2>2. ~FromEnds(p)
    BY <1>b DEF FromEnds, Got, Indexing
  <2>3. QED
    BY <1>5, <1>a, <2>1, <2>2, AtFrom
<1>6. CASE ~Indexing(p) /\ loc[p].at \notin PullPlaces \cup LayerPlaces \cup {"pulled", "from"}
  <2>1. ~(loc' = loc) /\ ~KeepsPlace(p)
    BY <1>6 DEF KeepsPlace, KeepsRoute, Got, Indexing
  <2>2. ~Stops(p) /\ ~(BuildStep(p) /\ ToIdle(p))
    BY DEF Stops, Halts, ToIdle, Idle, Got, Indexing
  <2>3. ~PullsOn(p) /\ ~ToImage(p) /\ ~InLayers(p)
    BY <1>6 DEF PullsOn, ToImage, InLayers, PullPlaces
  <2>4. ~Loads(p) /\ ~Truncates(p) /\ ~Writes(p)
    BY <1>6 DEF Loads, Truncates, Writes, Indexing
  <2>5. ~ToIndex(p) /\ ~ToBase(p) /\ ~ToKernel(p) /\ ~Downloads(p) /\ ~ToModules(p)
    BY DEF ToIndex, ToBase, ToKernel, Downloads, ToModules, Got, Indexing
  <2>6. ~ToWork(p) /\ ~ToSaving(p) /\ ~ToRemoving(p)
    BY <1>6 DEF ToWork, ToSaving, ToRemoving, Got, Indexing
  <2>7. ~Begins(p)
    BY FirstPlaces DEF Begins, Got, Indexing
  <2>8. QED
    BY <2>1, <2>2, <2>3, <2>4, <2>5, <2>6, <2>7, Flow DEF Moves
<1>7. QED
  BY <1>1, <1>2, <1>3, <1>4, <1>5, <1>6

LEMMA ConfigDirs == Configs <=> \A id : ConfigOK(id, Dir(id).config)
<1>1. \A id \in DOMAIN images : Dir(id) = images[id]
  BY DEF Dir
<1>2. \A id : id \notin DOMAIN images => Dir(id).config = NoConfig
  BY DEF Dir, EmptyDir
<1>3. QED
  BY <1>1, <1>2 DEF Configs, ConfigOK

(* What SaveImage writes.                                                  *)
LEMMA SavedConfig ==
  ASSUME NEW p \in Proc, Shapes, FetchOK(p), SaveImage(p)
  PROVE  \E config : /\ config # NoConfig /\ ConfigOK(loc[p].id, config)
                     /\ Put(loc[p].id, [Dir(loc[p].id) EXCEPT !.config = config])
                     /\ loc' = [loc EXCEPT ![p].at = "load", ![p].config = config]
<1> DEFINE config == <<[layers |-> Layers(p), kernel |-> NoId,
                        settings |-> SettingsOf[loc[p].image]]>>
<1>1. /\ Put(loc[p].id, [Dir(loc[p].id) EXCEPT !.config = config])
      /\ loc' = [loc EXCEPT ![p].at = "load", ![p].config = config]
  BY DEF SaveImage
<1>2. loc[p].id = RemoteId(p) /\ loc[p].image \in DOMAIN LayersOf
  BY DEF SaveImage, At, FetchOK, Fetches, LayerPlaces
<1>3. config # NoConfig /\ config[1].settings = SettingsOf[loc[p].image]
  BY DEF NoConfig
<1>4. loc[p].id[2] = loc[p].image
  BY <1>2 DEF RemoteId
<1>5. ConfigOK(loc[p].id, config)
  <2> HIDE DEF config
  <2>1. QED
    BY <1>2, <1>3, <1>4 DEF ConfigOK
<1> HIDE DEF config
<1>6. QED
  BY <1>1, <1>3, <1>5

LEMMA HoldsConfigKept ==
  ASSUME NEW p \in Proc, Shapes, Control, FetchOK(p), Configs, HoldsConfig(p), Act(p)
  PROVE  HoldsConfig(p)'
<1>0. ShapesOK
  BY DEF Shapes
<1>a. \A id : ConfigOK(id, Dir(id).config)
  BY ConfigDirs
<1> SUFFICES ASSUME Got(p)'
             PROVE  loc'[p].config # NoConfig /\ ConfigOK(loc'[p].id, loc'[p].config)
  BY DEF HoldsConfig, ConfigOK, IsRemote
<1>1. CASE Got(p) /\ KeepsConfig(p)
  BY <1>1 DEF HoldsConfig, KeepsConfig
<1>2. CASE PullResolve(p)
  <2>1. PICK id : id = Resolve(loc[p].ref)
    OBVIOUS
  <2>2. PICK config : config = Dir(id).config
    OBVIOUS
  <2>3. loc' = [loc EXCEPT ![p].id = id, ![p].tries = 0, ![p].config = config,
                           ![p].at = IF id = NoId THEN "manifest" ELSE "pulled"]
    BY <1>2, <2>1, <2>2 DEF PullResolve
  <2>4. /\ loc'[p].id = id /\ loc'[p].config = config
        /\ loc'[p].at = IF id = NoId THEN "manifest" ELSE "pulled"
    BY <1>0, <2>3 DEF ShapesOK, LocFields
  <2>5. id # NoId
    BY <2>4 DEF Got, Indexing
  <2>6. Has(id)
    BY <2>1, <2>5 DEF Resolve
  <2>7. config # NoConfig
    BY <2>2, <2>6, HasConfig
  <2>8. QED
    BY <1>a, <2>2, <2>4, <2>7
<1>3. CASE FetchConfig(p)
  <2>1. ~FailMet(p)
    <3>1. FailMet(p) => loc'[p].at = Failed(p)
      BY <1>0 DEF FailMet, ShapesOK, LocFields
    <3>2. QED
      BY <3>1 DEF Failed, Got, Indexing
  <2>2. PICK at, config, names, strict : GotConfig(p, at, config, names, strict)
    BY <1>3, <2>1, FetchConfigCases
  <2>3. /\ loc'[p].id = RemoteId(p) /\ loc'[p].config = config /\ loc'[p].at = at
        /\ config = Dir(RemoteId(p)).config /\ at = IF Has(RemoteId(p)) THEN "load" ELSE "layer"
    BY <1>0, <2>2 DEF GotConfig, ShapesOK, LocFields
  <2>4. Has(RemoteId(p))
    BY <2>3 DEF Got, Indexing
  <2>5. config # NoConfig
    BY <2>3, <2>4, HasConfig
  <2>6. QED
    BY <1>a, <2>3, <2>5
<1>4. CASE SaveImage(p)
  <2>1. PICK config : /\ config # NoConfig /\ ConfigOK(loc[p].id, config)
                      /\ loc' = [loc EXCEPT ![p].at = "load", ![p].config = config]
    BY <1>4, SavedConfig
  <2>2. loc'[p].id = loc[p].id /\ loc'[p].config = config
    BY <1>0, <2>1 DEF ShapesOK, LocFields
  <2>3. QED
    BY <2>1, <2>2
<1>5. QED
  BY <1>1, <1>2, <1>3, <1>4, GotArrives

LEMMA ConfigsKept ==
  ASSUME NEW p \in Proc, Shapes, Kinds, ImagesOK, HandOK(p), FetchOK(p), Configs, Act(p)
  PROVE  Configs'
<1> SUFFICES ASSUME NEW id
             PROVE  ConfigOK(id, Dir(id)'.config)
  <2>1. \A id : ConfigOK(id, Dir(id)'.config)
    OBVIOUS
  <2>2. (\A id : ConfigOK(id, Dir(id).config))'
    BY <2>1 DEF ConfigOK, IsRemote
  <2>3. QED
    BY <2>2, ConfigDirs, PTL
<1>0. ConfigOK(id, Dir(id).config)
  BY ConfigDirs
<1>a. ConfigOK(id, NoConfig)
  BY DEF ConfigOK
<1>1. CASE Dir(id)' = Dir(id)
  BY <1>0, <1>1
<1>2. CASE ~IsRemote(id)
  BY <1>2 DEF ConfigOK
<1>3. CASE id = loc[p].id /\ Fetches(p) /\ ~(Dir(id)' = Dir(id))
  <2>1. ~(images' = images)
    BY <1>3, SameDir
  <2>2. loc[p].at \in LayerPlaces
    BY <1>3 DEF Fetches
  <2>3. ~CommitSave(p) /\ ~RemoveAll(p) /\ ~ReadArchive(p) /\ ~WriteArchive(p)
        /\ ~CommitKernel(p) /\ ~CommitRootfs(p)
    BY <2>2 DEF LayerPlaces, CommitSave, RemoveAll, ReadArchive, WriteArchive, CommitKernel,
       CommitRootfs, At
  <2>4. CASE NextLayer(p) \/ ExtractEntry(p) \/ Killed(p)
    <3>1. PICK content : PutLayer(p, content)
      BY <2>1, <2>4 DEF NextLayer, ExtractEntry, Killed
    <3>2. Dir(id)'.config = Dir(id).config
      BY <1>3, <3>1, PutLayerDir
    <3>3. QED
      BY <1>0, <3>2
  <2>5. CASE SaveImage(p)
    <3>1. PICK config : /\ ConfigOK(id, config)
                        /\ Put(id, [Dir(id) EXCEPT !.config = config])
      BY <1>3, <2>5, SavedConfig
    <3>2. Dir(id)'.config = config
      BY <3>1, PutConfigDir
    <3>3. QED
      BY <3>1, <3>2
  <2>6. QED
    BY <2>1, <2>3, <2>4, <2>5, ImageEffects
<1>4. CASE id = loc[p].id /\ At(p, "removing") /\ ~(Dir(id)' = Dir(id))
  <2>1. ~(images' = images) /\ loc[p].at = "removing"
    BY <1>4, SameDir DEF At
  <2>2. RemoveAll(p)
    BY <2>1, ImageEffects
       DEF NextLayer, ExtractEntry, Killed, SaveImage, CommitSave, ReadArchive, WriteArchive,
           CommitKernel, CommitRootfs, At
  <2>3. CASE Put(id, [Dir(id) EXCEPT !.config = NoConfig])
    BY <1>a, <2>3, PutConfigDir
  <2>4. ASSUME NEW l \in DOMAIN Dir(id).layers,
               Put(id, [Dir(id) EXCEPT !.layers = Restrict(@, DOMAIN @ \ {l})])
        PROVE  ConfigOK(id, Dir(id)'.config)
    <3>1. Dir(id)' = [Dir(id) EXCEPT !.layers = Restrict(@, DOMAIN @ \ {l})]
      BY <2>4, PutDir
    <3>2. DOMAIN Dir(id) = {"config", "layers", "kernel"}
      BY DirIsOK DEF DirOK
    <3>3. Dir(id)'.config = Dir(id).config
      BY <3>1, <3>2
    <3>4. QED
      BY <1>0, <3>3
  <2>5. CASE images' = Restrict(images, DOMAIN images \ {id})
    <3>1. Dir(id)' = EmptyDir
      BY <2>5, RestrictDir
    <3>2. QED
      BY <1>a, <3>1 DEF EmptyDir
  <2>6. QED
    BY <1>4, <2>2, <2>3, <2>4, <2>5 DEF RemoveAll
<1>5. CASE id = loc[p].id /\ InCommit(p)
  BY <1>2, <1>5, NewIsNoRemote DEF HandOK
<1>6. CASE id = NewId(p) /\ (ReadArchive(p) \/ CommitKernel(p))
  BY <1>2, <1>6, NewIsNoRemote
<1>7. QED
  BY <1>1, <1>3, <1>4, <1>5, <1>6, DirFlow

-----------------------------------------------------------------------------
(* KERNEL and RUN are carried out for such an instruction only.            *)
LEMMA ToKernelSide ==
  ASSUME NEW p \in Proc, Shapes, Control, Kinds, Act(p), KernelSide(p)', Cmd(p)'.kind = "build"
  PROVE  \/ KernelSide(p) /\ Cmd(p).kind = "build"
         \/ HandleKernel(p)
<1>0. ShapesOK /\ Routed(p)
  BY DEF Shapes, Control
<1>1. ~NextCommand(p)
  <2>1. Begins(p) => loc'[p].at = "parse"
    BY FirstPlaces DEF Begins
  <2>2. QED
    BY <2>1, NextBegins DEF KernelSide, PullsFor, Indexing, PullPlaces, LayerPlaces, LoadPlaces
<1>2. Cmd(p).kind = "build"
  BY <1>1, CommandsKept DEF Cmd
<1>3. CASE loc' = loc \/ KeepsPlace(p)
  <2>1. KernelSide(p)
    BY <1>3 DEF KeepsPlace, KeepsRoute, KeepsId, KernelSide, PullsFor, Indexing
  <2>2. QED
    BY <1>2, <2>1
<1>4. ~Stops(p) /\ ~(BuildStep(p) /\ ToIdle(p))
  BY DEF Stops, Halts, ToIdle, Idle, KernelSide, PullsFor, Indexing, PullPlaces, LayerPlaces,
     LoadPlaces
<1>5. CASE PullsOn(p) \/ ToImage(p)
  <2>1. loc[p].at \in PullPlaces /\ loc[p].pulling = loc'[p].pulling
    BY <1>5 DEF PullsOn, ToImage, PullPlaces
  <2>2. loc'[p].pulling = "kernel"
    BY <1>5 DEF PullsOn, ToImage, KernelSide, PullsFor, Indexing, LoadPlaces
  <2>3. QED
    BY <1>2, <2>1, <2>2 DEF KernelSide, PullsFor
<1>6. CASE InLayers(p)
  <2>1. loc[p].at \in LayerPlaces /\ loc[p].pulling = loc'[p].pulling /\ loc'[p].next = "pulled"
    BY <1>0, <1>6 DEF InLayers, KeepsId, KeepsRoute, Routed, LayerPlaces
  <2>2. loc'[p].pulling = "kernel"
    BY <1>6, <2>1 DEF InLayers, KernelSide, PullsFor, Indexing, LoadPlaces, LayerPlaces
  <2>3. QED
    BY <1>2, <2>1, <2>2 DEF KernelSide, PullsFor
<1>7. CASE Loads(p) \/ Truncates(p)
  <2>1. /\ Indexing(p) /\ loc'[p].at \in {"truncate", "write"} /\ KeepsId(p)
        /\ loc[p].next = loc'[p].next
    BY <1>7 DEF Loads, Truncates, Indexing, KeepsRoute
  <2>2. QED
    BY <1>2, <2>1 DEF KernelSide, PullsFor, Indexing, KeepsId, LoadPlaces, PullPlaces, LayerPlaces
<1>8. CASE Writes(p)
  <2>1. Indexing(p) /\ loc'[p].at = loc[p].next /\ loc[p].pulling = loc'[p].pulling
    BY <1>8 DEF Writes, Indexing, KeepsId
  <2>2. loc[p].next \in {"pulled", "kerneled"}
    BY <1>0, <2>1 DEF Routed, Routes, KernelSide, PullsFor, Indexing, LoadPlaces, PullPlaces,
       LayerPlaces
  <2>3. KernelSide(p)
    BY <2>1, <2>2 DEF KernelSide, PullsFor, Indexing, LoadPlaces
  <2>4. QED
    BY <1>2, <2>3
<1>9. ~ToIndex(p) /\ ~ToBase(p) /\ ~ToRemoving(p)
  BY DEF ToIndex, ToBase, ToRemoving, KernelSide, PullsFor, Indexing, LoadPlaces, PullPlaces,
     LayerPlaces
<1>10. CASE ToWork(p)
  <2>1. loc[p].at = "step" /\ loc'[p].at = "kernel"
    BY <1>10 DEF ToWork, KernelSide, PullsFor, Indexing, LoadPlaces, PullPlaces, LayerPlaces
  <2>2. ASSUME NEW at, Goto(p, at)
        PROVE  at = "kernel"
    BY <1>0, <2>1, <2>2 DEF Goto, ShapesOK, LocFields
  <2>3. ~Fail(p)
    <3>1. Fail(p) => loc'[p].at = Failed(p)
      BY <1>0 DEF Fail, ShapesOK, LocFields
    <3>2. QED
      BY <2>1, <3>1 DEF Failed
  <2>4. ~HandleFrom(p)
    <3>1. ASSUME NEW ref, NEW platform,
                 loc' = [loc EXCEPT ![p].at = "resolve", ![p].pulling = "image",
                                    ![p].ref = ref, ![p].platform = platform]
          PROVE  FALSE
      BY <1>0, <2>1, <3>1 DEF ShapesOK, LocFields
    <3>2. QED
      BY <2>3, <3>1 DEF HandleFrom
  <2>5. ~(loc' = loc)
    BY <2>1
  <2>6. ~HandleRun(p) /\ ~HandleCopy(p) /\ ~Configure(p) /\ ~ProcessEnds(p)
    BY <2>2, <2>3, <2>5 DEF HandleRun, HandleCopy, Configure, ProcessEnds
  <2>7. ~Killed(p)
    BY <1>0, <2>1, KilledGoes
  <2>8. QED
    BY <2>1, <2>4, <2>6, <2>7, AtStep
<1>11. CASE ToKernel(p) \/ Downloads(p) \/ ToModules(p) \/ ToSaving(p)
  <2>1. KernelSide(p)
    BY <1>11 DEF ToKernel, Downloads, ToModules, ToSaving, KernelSide, PullsFor
  <2>2. QED
    BY <1>2, <2>1
<1>12. QED
  BY <1>1, <1>3, <1>4, <1>5, <1>6, <1>7, <1>8, <1>9, <1>10, <1>11, Flow DEF Moves

(* What a step does to the base and to the settings of a build.            *)
KeepsBuild(p) ==
  SameBuild(p) /\ bld'[p].base = bld[p].base /\ bld'[p].settings = bld[p].settings
Advances(p) == bld'[p].instrs = bld[p].instrs /\ bld'[p].pos = bld[p].pos + 1
Restarts(p) == loc[p].at = "parse" /\ bld'[p].base = <<>> /\ bld'[p].pos = 1
Lays(p) ==
  /\ loc[p].at = "from" /\ Advances(p)
  /\ bld'[p].base = Append(bld[p].base, loc[p].id)
  /\ bld'[p].settings = loc[p].config[1].settings
Skips(p) ==
  /\ loc[p].at \in {"kerneled", "ran", "step"} /\ Advances(p)
  /\ bld'[p].base = bld[p].base /\ bld'[p].settings = bld[p].settings
  /\ Instr(p).kind \in {"KERNEL", "RUN", "COPY", "ADD"}
Sets(p) ==
  /\ loc[p].at = "step" /\ Advances(p) /\ bld'[p].base = bld[p].base
  /\ bld'[p].settings = Configured(bld[p].settings, Instr(p))
  /\ Instr(p).kind \notin {"FROM", "KERNEL", "RUN", "COPY", "ADD"}
Settling(p) == KeepsBuild(p) \/ Restarts(p) \/ Lays(p) \/ Skips(p) \/ Sets(p)

LEMMA BuildSettles ==
  ASSUME NEW p \in Proc, Shapes, Serves(p), Act(p)
  PROVE  Settling(p)
<1>0. ShapesOK
  BY DEF Shapes
<1>a. ASSUME NEW b, Step(p, b), DOMAIN b = BldFields, b.instrs = bld[p].instrs,
             b.pos = bld[p].pos
      PROVE  Advances(p) /\ bld'[p].base = b.base /\ bld'[p].settings = b.settings
  BY <1>0, <1>a DEF Step, Advances, ShapesOK, BldFields
<1>b. Step(p, bld[p]) =>
        Advances(p) /\ bld'[p].base = bld[p].base /\ bld'[p].settings = bld[p].settings
  BY <1>0, <1>a DEF ShapesOK
<1>1. bld' = bld => Settling(p)
  BY DEF Settling, KeepsBuild, SameBuild
<1>2. CASE ParseDockerfile(p)
  <2>1. /\ loc[p].at = "parse"
        /\ \/ bld' = bld
           \/ \E instrs, settings :
                bld' = [bld EXCEPT ![p] = [NoBuild EXCEPT !.instrs = instrs, !.settings = settings]]
    BY <1>2 DEF ParseDockerfile, At
  <2>2. ASSUME NEW instrs, NEW settings,
               bld' = [bld EXCEPT ![p] = [NoBuild EXCEPT !.instrs = instrs, !.settings = settings]]
        PROVE  bld'[p].base = <<>> /\ bld'[p].pos = 1
    <3>1. bld'[p] = [NoBuild EXCEPT !.instrs = instrs, !.settings = settings]
      BY <1>0, <2>2 DEF ShapesOK
    <3>2. QED
      BY <3>1 DEF NoBuild
  <2>3. QED
    BY <1>1, <2>1, <2>2 DEF Settling, Restarts
<1>3. CASE FromEnds(p)
  <2>1. PICK config : config = loc[p].config[1]
    OBVIOUS
  <2>2. Step(p, [bld[p] EXCEPT !.layers = @ \o config.layers, !.settings = config.settings,
                               !.base = Append(@, loc[p].id)])
    BY <1>3, <2>1 DEF FromEnds
  <2>3. PICK layers, settings, base :
          /\ layers = bld[p].layers \o config.layers /\ settings = config.settings
          /\ base = Append(bld[p].base, loc[p].id)
    OBVIOUS
  <2>4. Step(p, [bld[p] EXCEPT !.layers = layers, !.settings = settings, !.base = base])
    <3>1. [bld[p] EXCEPT !.layers = @ \o config.layers, !.settings = config.settings,
                         !.base = Append(@, loc[p].id)]
            = [bld[p] EXCEPT !.layers = layers, !.settings = settings, !.base = base]
      BY <1>0, <2>3 DEF ShapesOK, BldFields
    <3>2. QED
      BY <2>2, <3>1
  <2>5. Advances(p) /\ bld'[p].base = base /\ bld'[p].settings = settings
    BY <1>0, <2>4 DEF Step, Advances, ShapesOK, BldFields
  <2>6. loc[p].at = "from"
    BY <1>3 DEF FromEnds, At
  <2>7. QED
    BY <2>1, <2>3, <2>5, <2>6 DEF Settling, Lays
<1>4. CASE KernelEnds(p)
  <2>1. /\ loc[p].at = "kerneled" /\ Cmd(p).kind = "build"
        /\ Step(p, [bld[p] EXCEPT !.kid = loc[p].id])
    BY <1>4 DEF KernelEnds, At
  <2>2. Advances(p) /\ bld'[p].base = bld[p].base /\ bld'[p].settings = bld[p].settings
    BY <1>0, <2>1 DEF Step, Advances, ShapesOK, BldFields
  <2>3. Instr(p).kind = "KERNEL"
    BY <2>1 DEF Serves, KernelSide
  <2>4. QED
    BY <2>1, <2>2, <2>3 DEF Settling, Skips
<1>5. CASE HandleRun(p)
  <2>1. loc[p].at = "step" /\ Instr(p).kind = "RUN" /\ (bld' = bld \/ Step(p, bld[p]))
    BY <1>5 DEF HandleRun, Handles, At
  <2>2. QED
    BY <1>1, <1>b, <2>1 DEF Settling, Skips
<1>6. CASE RunEnds(p)
  <2>1. loc[p].at = "ran" /\ (bld' = bld \/ Step(p, bld[p]))
    BY <1>6 DEF RunEnds, At
  <2>2. QED
    BY <1>1, <1>b, <2>1 DEF Settling, Skips, Serves
<1>7. CASE HandleCopy(p)
  <2>1. loc[p].at = "step" /\ Instr(p).kind \in {"COPY", "ADD"} /\ (bld' = bld \/ Step(p, bld[p]))
    BY <1>7 DEF HandleCopy, Handles, At
  <2>2. QED
    BY <1>1, <1>b, <2>1 DEF Settling, Skips
<1>8. CASE Configure(p)
  <2>1. PICK settings : settings = Configured(bld[p].settings, Instr(p))
    OBVIOUS
  <2>2. Step(p, [bld[p] EXCEPT !.settings = Configured(@, Instr(p))])
    BY <1>8 DEF Configure
  <2>3. Step(p, [bld[p] EXCEPT !.settings = settings])
    BY <1>0, <2>1, <2>2 DEF ShapesOK, BldFields
  <2>4. Advances(p) /\ bld'[p].base = bld[p].base /\ bld'[p].settings = settings
    BY <1>0, <2>3 DEF Step, Advances, ShapesOK, BldFields
  <2>5. loc[p].at = "step" /\ Instr(p).kind \notin {"FROM", "KERNEL", "RUN", "COPY", "ADD"}
    BY <1>8 DEF Configure, At
  <2>6. QED
    BY <2>1, <2>4, <2>5 DEF Settling, Sets
<1>9. CASE Machine(p)
  <2>1. PICK status \in {"0", "1"}, written \in {"all", "created", "nothing"} :
          LET bad == /\ status = "1" /\ written # "created"
                     /\ ExitCode \notin DOMAIN CurRootfs(p)
          IN  bld' = [bld EXCEPT ![p].bad = @ \/ bad]
    BY <1>9 DEF Machine
  <2> DEFINE bad == /\ status = "1" /\ written # "created"
                    /\ ExitCode \notin DOMAIN CurRootfs(p)
  <2>2. bld' = [bld EXCEPT ![p].bad = @ \/ bad]
    BY <2>1
  <2> HIDE DEF bad
  <2>3. bld' = [bld EXCEPT ![p].bad = bld[p].bad \/ bad]
    BY <1>0, <2>2 DEF ShapesOK, BldFields
  <2>4. PICK b : b = (bld[p].bad \/ bad)
    OBVIOUS
  <2>5. bld' = [bld EXCEPT ![p].bad = b]
    BY <2>3, <2>4
  <2>6. QED
    BY <1>0, <2>5 DEF Settling, KeepsBuild, SameBuild, ShapesOK, BldFields
<1>10. CASE BuildStep(p)
  BY <1>1, <1>2, <1>3, <1>4, <1>5, <1>6, <1>7, <1>8, <1>9, <1>10
     DEF BuildStep, BeginProcess, HandleFrom, FromPulled, CopyBaseLayer, HandleKernel,
         ProcessEnds, CommitKernel, CommitRootfs, CommitSave, CleanUp
<1>11. QED
  BY <1>1, <1>10, Elsewhere

(* The end of process is all that leads to the commit.                     *)
LEMMA ToCommit ==
  ASSUME NEW p \in Proc, Shapes, Control, Kinds, Act(p), loc'[p].at = "commit kernel"
  PROVE  loc[p].at = "commit kernel" \/ ProcessEnds(p)
<1>0. ShapesOK /\ Routed(p) /\ OfKind(p)
  BY DEF Shapes, Control, Kinds
<1>a. ASSUME NEW at, Goto(p, at)
      PROVE  at = "commit kernel"
  BY <1>0, <1>a DEF Goto, ShapesOK, LocFields
<1>b. ~Fail(p)
  <2>1. Fail(p) => loc'[p].at = Failed(p)
    BY <1>0 DEF Fail, ShapesOK, LocFields
  <2>2. QED
    BY <2>1 DEF Failed
<1>1. CASE BuildStep(p)
  <2>1. BuildMoves(p)
    BY <1>0, <1>1, BuildSteps
  <2>2. Builds(p)
    BY <2>1 DEF BuildMoves, Parses, Opens, Boots, Judges, Commits, Cleans, Committing, Indexing
  <2>3. ~(loc' = loc)
    BY <2>2 DEF Builds
  <2>4. ~HandleFrom(p)
    <3>1. ASSUME NEW ref, NEW platform,
                 loc' = [loc EXCEPT ![p].at = "resolve", ![p].pulling = "image",
                                    ![p].ref = ref, ![p].platform = platform]
          PROVE  FALSE
      BY <1>0, <3>1 DEF ShapesOK, LocFields
    <3>2. QED
      BY <1>b, <3>1 DEF HandleFrom
  <2>5. ~FromPulled(p)
    <3>1. ASSUME NEW copy, loc' = [loc EXCEPT ![p].at = "from", ![p].copy = copy]
          PROVE  FALSE
      BY <1>0, <3>1 DEF ShapesOK, LocFields
    <3>2. QED
      BY <1>b, <3>1 DEF FromPulled
  <2>6. ~CopyBaseLayer(p)
    <3>1. ASSUME loc[p].at = "from", loc' = [loc EXCEPT ![p].copy = Tail(@)]
          PROVE  FALSE
      BY <1>0, <3>1 DEF ShapesOK, LocFields
    <3>2. QED
      BY <3>1 DEF CopyBaseLayer, At
  <2>7. ~FromEnds(p) /\ ~HandleKernel(p) /\ ~KernelEnds(p) /\ ~HandleRun(p)
    BY <1>a, <2>3 DEF FromEnds, HandleKernel, KernelEnds, HandleRun
  <2>8. ~HandleCopy(p) /\ ~Configure(p)
    BY <1>b, <2>3 DEF HandleCopy, Configure
  <2>9. QED
    BY <1>1, <2>2, <2>4, <2>5, <2>6, <2>7, <2>8
       DEF Builds, BuildStep, ParseDockerfile, BeginProcess, Machine, RunEnds, CommitKernel,
           CommitRootfs, CommitSave, CleanUp, At
<1>2. CASE ~BuildStep(p)
  <2>1. ~Stops(p) /\ ~PullsOn(p) /\ ~ToImage(p) /\ ~InLayers(p)
    BY DEF Stops, Halts, PullsOn, ToImage, InLayers, LayerPlaces
  <2>2. ~Loads(p) /\ ~Truncates(p) /\ ~ToIndex(p) /\ ~ToBase(p) /\ ~ToWork(p)
    BY DEF Loads, Truncates, ToIndex, ToBase, ToWork
  <2>3. ~Writes(p)
    BY <1>0 DEF Writes, Routed, Indexing, Routes
  <2>4. ~ToKernel(p) /\ ~Downloads(p) /\ ~ToModules(p) /\ ~ToSaving(p) /\ ~ToRemoving(p)
    BY DEF ToKernel, Downloads, ToModules, ToSaving, ToRemoving
  <2>5. ~Begins(p)
    BY FirstPlaces DEF Begins
  <2>6. loc' = loc \/ KeepsPlace(p)
    BY <1>2, <2>1, <2>2, <2>3, <2>4, <2>5, Flow DEF Moves
  <2>7. QED
    BY <2>6 DEF KeepsPlace
<1>3. QED
  BY <1>1, <1>2

(* RUN is all that boots a machine.                                        *)
LEMMA ToMachine ==
  ASSUME NEW p \in Proc, Shapes, Control, Kinds, Act(p), loc'[p].at \in {"machine", "ran"}
  PROVE  loc[p].at \in {"machine", "ran"} \/ HandleRun(p)
<1>0. ShapesOK /\ Routed(p)
  BY DEF Shapes, Control
<1>1. CASE loc' = loc \/ KeepsPlace(p)
  BY <1>1 DEF KeepsPlace
<1>2. ~Stops(p) /\ ~PullsOn(p) /\ ~ToImage(p) /\ ~InLayers(p) /\ ~ToIdle(p)
  BY DEF Stops, Halts, PullsOn, ToImage, InLayers, LayerPlaces, ToIdle, Idle
<1>3. ~Loads(p) /\ ~Truncates(p) /\ ~ToIndex(p) /\ ~ToBase(p)
  BY DEF Loads, Truncates, ToIndex, ToBase
<1>4. ~Writes(p)
  BY <1>0 DEF Writes, Routed, Indexing, Routes
<1>5. ~ToKernel(p) /\ ~Downloads(p) /\ ~ToModules(p) /\ ~ToSaving(p) /\ ~ToRemoving(p)
  BY DEF ToKernel, Downloads, ToModules, ToSaving, ToRemoving
<1>6. ~Begins(p)
  BY FirstPlaces DEF Begins
<1>7. CASE ToWork(p)
  <2>1. CASE loc[p].at = "step" /\ loc'[p].at = "machine"
    <3>1. ASSUME NEW at, Goto(p, at)
          PROVE  at = "machine"
      BY <1>0, <2>1, <3>1 DEF Goto, ShapesOK, LocFields
    <3>2. ~Fail(p)
      <4>1. Fail(p) => loc'[p].at = Failed(p)
        BY <1>0 DEF Fail, ShapesOK, LocFields
      <4>2. QED
        BY <2>1, <4>1 DEF Failed
    <3>3. ~(loc' = loc)
      BY <2>1
    <3>4. ~HandleFrom(p)
      <4>1. ASSUME NEW ref, NEW platform,
                   loc' = [loc EXCEPT ![p].at = "resolve", ![p].pulling = "image",
                                      ![p].ref = ref, ![p].platform = platform]
            PROVE  FALSE
        BY <1>0, <2>1, <4>1 DEF ShapesOK, LocFields
      <4>2. QED
        BY <3>2, <4>1 DEF HandleFrom
    <3>5. ~HandleKernel(p) /\ ~HandleCopy(p) /\ ~Configure(p) /\ ~ProcessEnds(p)
      BY <3>1, <3>2, <3>3 DEF HandleKernel, HandleCopy, Configure, ProcessEnds
    <3>6. ~Killed(p)
      BY <1>0, <2>1, KilledGoes
    <3>7. QED
      BY <2>1, <3>4, <3>5, <3>6, AtStep
  <2>2. QED
    BY <1>7, <2>1 DEF ToWork
<1>8. QED
  BY <1>1, <1>2, <1>3, <1>4, <1>5, <1>6, <1>7, Flow DEF Moves

LEMMA ServesKept ==
  ASSUME NEW p \in Proc, Shapes, Control, Kinds, Readable(p), Serves(p), Act(p)
  PROVE  Serves(p)'
<1>0. ASSUME loc'[p].at \notin {"step", "begin"}
      PROVE  Instr(p)' = Instr(p) /\ (Unfinished(p)' <=> Unfinished(p))
  BY <1>0, BuildFlow DEF BuildsOn, NextInstr, NewBuild, SameBuild, Instr, Unfinished
<1>1. ASSUME loc'[p].at \in {"machine", "ran"}
      PROVE  Instr(p)'.kind = "RUN"
  <2>1. CASE loc[p].at \in {"machine", "ran"}
    BY <1>0, <1>1, <2>1 DEF Serves
  <2>2. CASE HandleRun(p)
    BY <1>0, <1>1, <2>2 DEF HandleRun, Handles
  <2>3. QED
    BY <1>1, <2>1, <2>2, ToMachine
<1>2. ASSUME KernelSide(p)', Cmd(p)'.kind = "build"
      PROVE  Instr(p)'.kind = "KERNEL"
  <2>1. loc'[p].at \notin {"step", "begin"}
    BY <1>2 DEF KernelSide, PullsFor, Indexing, LoadPlaces, PullPlaces, LayerPlaces
  <2>2. CASE KernelSide(p) /\ Cmd(p).kind = "build"
    BY <1>0, <2>1, <2>2 DEF Serves
  <2>3. CASE HandleKernel(p)
    BY <1>0, <2>1, <2>3 DEF HandleKernel, Handles
  <2>4. QED
    BY <1>2, <2>2, <2>3, ToKernelSide
<1>3. ASSUME loc'[p].at = "commit kernel"
      PROVE  ~Unfinished(p)'
  <2>1. CASE loc[p].at = "commit kernel"
    BY <1>0, <1>3, <2>1 DEF Serves
  <2>2. CASE ProcessEnds(p)
    <3>1. bld[p].pos > Len(bld[p].instrs)
      BY <2>2 DEF ProcessEnds
    <3>2. bld[p].pos \in Int /\ Len(bld[p].instrs) \in Int
      BY SeqFacts DEF Readable
    <3>3. ~Unfinished(p)
      BY <3>1, <3>2 DEF Unfinished
    <3>4. QED
      BY <1>0, <1>3, <3>3
  <2>3. QED
    BY <1>3, <2>1, <2>2, ToCommit
<1>4. QED
  BY <1>1, <1>2, <1>3 DEF Serves

(* What is looked at of the settings follows the instructions.             *)
LEMMA SettlesKept ==
  ASSUME NEW p \in Proc, Shapes, Readable(p), HoldsConfig(p), Serves(p), Settles(p), Act(p)
  PROVE  Settles(p)'
<1> DEFINE instrs == bld[p].instrs
           n == bld[p].pos - 1
<1>1. CASE KeepsBuild(p)
  BY <1>1 DEF KeepsBuild, SameBuild, Settles, BaseOf, IsRemote
<1>2. CASE Restarts(p)
  <2>1. IsSeq(<<>>) /\ Len(<<>>) # 1
    <3>1. IsSeq(<<>>)
      BY EmptySeq, SeqIsSeq
    <3>2. Len(<<>>) = 0
      OBVIOUS
    <3>3. QED
      BY <3>1, <3>2
  <2>2. QED
    BY <1>2, <2>1 DEF Restarts, Settles
<1>3. SUFFICES ASSUME Advances(p), Settling(p), instrs[1].kind = "FROM"
               PROVE  Settles(p)'
  <2>1. CASE Advances(p)
    BY <2>1, <1>3, BuildSettles DEF Advances, Settles
  <2>2. QED
    BY <1>1, <1>2, <2>1, BuildSettles DEF Settling, Lays, Skips, Sets
<1>4. /\ bld'[p].instrs = instrs /\ n \in Nat /\ n + 1 = bld[p].pos
      /\ bld'[p].pos - 1 = n + 1 /\ Instr(p) = instrs[n + 1]
  <2>1. Len(instrs) \in Nat
    BY SeqFacts DEF Readable
  <2>2. bld[p].pos \in 1 .. Len(instrs) + 1
    BY DEF Readable
  <2>3. bld'[p].instrs = instrs /\ bld'[p].pos = bld[p].pos + 1
    BY <1>3 DEF Advances
  <2>4. PICK k : k = bld[p].pos
    OBVIOUS
  <2>5. k \in Nat /\ k - 1 \in Nat /\ k - 1 + 1 = k /\ (k + 1) - 1 = k - 1 + 1
    BY <2>1, <2>2, <2>4
  <2>6. Instr(p) = instrs[k]
    BY <2>4 DEF Instr
  <2> HIDE DEF instrs
  <2>7. QED
    BY <2>3, <2>4, <2>5, <2>6
<1>5. IsSeq(bld[p].base) /\ (bld[p].base = <<>> => n = 0)
  <2>1. IsSeq(bld[p].base) /\ (bld[p].base = <<>> => bld[p].pos = 1)
    BY <1>3 DEF Settles
  <2>2. QED
    BY <2>1
<1> HIDE DEF instrs, n
<1>6. CASE Lays(p)
  <2>1. PICK base, id : base = bld[p].base /\ id = loc[p].id
    OBVIOUS
  <2>2. /\ bld'[p].base = Append(base, id) /\ IsSeq(Append(base, id))
        /\ Len(Append(base, id)) = Len(base) + 1 /\ Append(base, id)[Len(base) + 1] = id
    BY <1>5, <1>6, <2>1, AppendFacts DEF Lays
  <2>3. Len(base) \in Nat /\ (base # <<>> <=> Len(base) > 0)
    BY <1>5, <2>1, SeqFacts
  <2>4. Append(base, id) # <<>>
    <3>1. Len(<<>>) = 0
      BY EmptySeq
    <3>2. QED
      BY <2>2, <2>3, <3>1
  <2>5. ASSUME Len(bld'[p].base) = 1, IsRemote(bld'[p].base[1])
        PROVE  /\ bld'[p].base[1][2] \in DOMAIN LayersOf
               /\ SettledUpTo(instrs, n + 1, SettingsOf[bld'[p].base[1][2]], bld'[p].settings)
    <3>1. Len(base) = 0
      BY <2>2, <2>3, <2>5
    <3>2. base = <<>> /\ bld'[p].base[1] = id /\ n = 0
      BY <1>5, <2>1, <2>2, <2>3, <3>1
    <3>3. id[2] \in DOMAIN LayersOf /\ bld'[p].settings = SettingsOf[id[2]]
      BY <1>6, <2>1, <2>5, <3>2 DEF Lays, HoldsConfig, Got, ConfigOK
    <3>4. PICK s : s = SettingsOf[id[2]]
      OBVIOUS
    <3>5. DOMAIN s = SettingNames /\ IsSeq(s.env)
      BY <3>3, <3>4, SettingsAssumption
    <3>6. SettledUpTo(instrs, 0, s, s)
      BY <3>5, NoneYet
    <3>7. instrs[0 + 1].kind \notin Listed
      <4>1. instrs[1].kind = "FROM"
        BY <1>3 DEF instrs
      <4>2. "FROM" \notin Listed
        BY DEF Listed, Replaces
      <4>3. QED
        BY <4>1, <4>2
    <3>8. SettledUpTo(instrs, 0 + 1, s, s)
      BY <3>5, <3>6, <3>7, NoSetting
    <3>9. QED
      BY <3>2, <3>3, <3>4, <3>8
  <2>6. QED
    BY <1>4, <2>2, <2>4, <2>5 DEF Settles, BaseOf, IsRemote
<1>7. CASE Skips(p) \/ Sets(p)
  <2>1. bld'[p].base = bld[p].base /\ Instr(p).kind # "FROM"
    BY <1>7 DEF Skips, Sets
  <2>2. bld[p].base # <<>>
    <3>1. instrs[1].kind = "FROM"
      BY <1>3 DEF instrs
    <3>2. n # 0
      BY <1>4, <2>1, <3>1
    <3>3. QED
      BY <1>5, <3>2
  <2>3. ASSUME Len(bld[p].base) = 1, IsRemote(bld[p].base[1])
        PROVE  /\ BaseOf(p) \in DOMAIN LayersOf
               /\ SettledUpTo(instrs, n + 1, SettingsOf[BaseOf(p)], bld'[p].settings)
    <3>1. /\ BaseOf(p) \in DOMAIN LayersOf
          /\ SettledUpTo(instrs, n, SettingsOf[BaseOf(p)], bld[p].settings)
      BY <1>3, <2>3 DEF Settles, instrs, n
    <3>2. PICK s : s = SettingsOf[BaseOf(p)]
      OBVIOUS
    <3>3. DOMAIN s = SettingNames /\ IsSeq(s.env)
      BY <3>1, <3>2, SettingsAssumption
    <3>4. CASE Skips(p)
      <4>1. bld'[p].settings = bld[p].settings /\ instrs[n + 1].kind \notin Listed
        BY <1>4, <3>4 DEF Skips, Listed, Replaces
      <4>2. DOMAIN bld[p].settings = SettingNames
        BY <3>1 DEF SettledUpTo
      <4>3. SettledUpTo(instrs, n + 1, s, bld[p].settings)
        BY <1>4, <3>1, <3>2, <4>1, <4>2, NoSetting
      <4>4. QED
        BY <3>1, <3>2, <4>1, <4>3
    <3>5. CASE Sets(p)
      <4>1. bld'[p].settings = Configured(bld[p].settings, Instr(p))
        BY <3>5 DEF Sets
      <4>2. SettledUpTo(instrs, n + 1, s, Configured(bld[p].settings, Instr(p)))
        BY <1>4, <3>1, <3>2, <3>3, Configuring
      <4>3. QED
        BY <3>1, <3>2, <4>1, <4>2
    <3>6. QED
      BY <1>7, <3>4, <3>5
  <2>4. BaseOf(p)' = BaseOf(p) /\ IsRemote(bld[p].base[1])' = IsRemote(bld'[p].base[1])
    BY <2>1 DEF BaseOf, IsRemote
  <2>5. QED
    BY <1>4, <1>5, <2>1, <2>2, <2>3, <2>4 DEF Settles, IsRemote
<1>8. QED
  BY <1>1, <1>2, <1>3, <1>6, <1>7 DEF Settling

(* What a step does to the configuration of an image that build makes.     *)
LEMMA BuiltConfigFlow ==
  ASSUME NEW p \in Proc, Shapes, Control, Kinds, ImagesOK, HandOK(p), Act(p),
         NEW id, id[1] = "build", ~(CommitKernel(p) /\ id = NewId(p))
  PROVE  \/ Dir(id)'.config \in {Dir(id).config, NoConfig}
         \/ /\ CommitSave(p) /\ id = NewId(p)
            /\ Dir(id)'.config[1].settings = bld[p].settings
<1>0. Routed(p) /\ OfKind(p)
  BY DEF Control, Kinds
<1>1. CASE Dir(id)' = Dir(id)
  BY <1>1
<1>2. ~(id = loc[p].id /\ Fetches(p))
  BY <1>0 DEF Routed, Fetches, LayerPlaces
<1>3. CASE id = loc[p].id /\ At(p, "removing") /\ ~(Dir(id)' = Dir(id))
  <2>1. ~(images' = images) /\ loc[p].at = "removing"
    BY <1>3, SameDir DEF At
  <2>2. RemoveAll(p)
    BY <2>1, ImageEffects
       DEF NextLayer, ExtractEntry, Killed, SaveImage, CommitSave, ReadArchive, WriteArchive,
           CommitKernel, CommitRootfs, At
  <2>3. CASE Put(id, [Dir(id) EXCEPT !.config = NoConfig])
    BY <2>3, PutConfigDir
  <2>4. ASSUME NEW l \in DOMAIN Dir(id).layers,
               Put(id, [Dir(id) EXCEPT !.layers = Restrict(@, DOMAIN @ \ {l})])
        PROVE  Dir(id)'.config = Dir(id).config
    <3>1. Dir(id)' = [Dir(id) EXCEPT !.layers = Restrict(@, DOMAIN @ \ {l})]
      BY <2>4, PutDir
    <3>2. DOMAIN Dir(id) = {"config", "layers", "kernel"}
      BY DirIsOK DEF DirOK
    <3>3. QED
      BY <3>1, <3>2
  <2>5. CASE images' = Restrict(images, DOMAIN images \ {id})
    <3>1. Dir(id)' = EmptyDir
      BY <2>5, RestrictDir
    <3>2. QED
      BY <3>1 DEF EmptyDir
  <2>6. QED
    BY <1>3, <2>2, <2>3, <2>4, <2>5 DEF RemoveAll
<1>4. CASE id = loc[p].id /\ InCommit(p) /\ ~(Dir(id)' = Dir(id))
  <2>1. id = NewId(p) /\ ~(images' = images)
    BY <1>4, SameDir DEF HandOK
  <2>2. loc[p].at \in {"commit rootfs", "commit save"}
    BY <1>4 DEF InCommit
  <2>3. CASE CommitRootfs(p)
    <3>1. Put(id, [Dir(id) EXCEPT !.layers = Just(RootfsLayer, CurRootfs(p))])
      BY <2>1, <2>3 DEF CommitRootfs
    <3>2. Dir(id)' = [Dir(id) EXCEPT !.layers = Just(RootfsLayer, CurRootfs(p))]
      BY <3>1, PutDir
    <3>3. DOMAIN Dir(id) = {"config", "layers", "kernel"}
      BY DirIsOK DEF DirOK
    <3>4. Dir(id)'.config = Dir(id).config
      BY <3>2, <3>3
    <3>5. QED
      BY <3>4
  <2>4. CASE CommitSave(p)
    <3> DEFINE config == <<[layers |-> Append(bld[p].layers, RootfsLayer),
                            kernel |-> bld[p].kid, settings |-> bld[p].settings]>>
    <3>1. Put(id, [Dir(id) EXCEPT !.config = config])
      BY <2>1, <2>4 DEF CommitSave
    <3>2. config[1].settings = bld[p].settings
      OBVIOUS
    <3> HIDE DEF config
    <3>3. Dir(id)'.config = config
      BY <3>1, PutConfigDir
    <3>4. QED
      BY <2>1, <2>4, <3>2, <3>3
  <2>5. QED
    BY <2>1, <2>2, <2>3, <2>4, ImageEffects
       DEF NextLayer, ExtractEntry, Killed, SaveImage, RemoveAll, ReadArchive, WriteArchive,
           CommitKernel, At
<1>5. ~(id = NewId(p) /\ ReadArchive(p))
  <2>1. ASSUME ReadArchive(p)
        PROVE  NewId(p)[1] = "load"
    BY <1>0, <2>1 DEF ReadArchive, At, OfKind, NewId
  <2>2. QED
    BY <2>1
<1>6. QED
  BY <1>1, <1>2, <1>3, <1>4, <1>5, DirFlow

(* The image of a build has its settings.                                  *)
LEMMA RecordedKept ==
  ASSUME NEW p \in Proc, Shapes, Control, Kinds, ImagesOK, HandOK(p), Fresh, OwnImages,
         Serves(p), Act(p), NEW q \in Proc, Recorded(q)
  PROVE  Recorded(q)'
<1>0. /\ ShapesOK /\ CommandsOK /\ CommandsOK' /\ Alone(p) /\ Settling(p)
      /\ todo' = todo \/ NextCommand(p)
  BY ShapesKept, CommandsKept, BuildSettles DEF Shapes
<1>1. SUFFICES ASSUME Cmd(q)'.kind = "build", NewId(q)' \in DOMAIN images'
               PROVE  /\ ~Unfinished(q)'
                      /\ Has(NewId(q))' =>
                           images'[NewId(q)'].config[1].settings = bld'[q].settings
  BY DEF Recorded
<1>2. Len(todo[q]) \in Nat
  BY <1>0, LenProperties DEF CommandsOK, IsSeq
<1>3. PICK id : id = NewId(q)'
  OBVIOUS
<1>4. id = BId(q, Len(todo'[q])) /\ id[1] = "build"
  BY <1>1, <1>3 DEF NewId, BId
<1>5. id \in DOMAIN images' /\ Dir(id)' = images'[id] /\ (Has(id)' <=> Dir(id)'.config # NoConfig)
  BY <1>1, <1>3 DEF Dir, Has
<1>a. ASSUME bld'[q].instrs = bld[q].instrs, bld'[q].pos = bld[q].pos
      PROVE  Unfinished(q)' <=> Unfinished(q)
  BY <1>a DEF Unfinished
<1>6. CASE CommitKernel(p) /\ id = NewId(p)
  <2>1. q = p /\ bld' = bld /\ loc[p].at = "commit kernel"
    <3>1. bld' = bld /\ loc[p].at = "commit kernel"
      BY <1>6 DEF CommitKernel, At
    <3>2. q = p
      BY <1>4, <1>6 DEF NewId, BId
    <3>3. QED
      BY <3>1, <3>2
  <2>2. ~Unfinished(q)'
    BY <1>a, <2>1 DEF Serves
  <2>3. PICK copied \in BOOLEAN : Put(id, [EmptyDir EXCEPT !.kernel = copied])
    BY <1>6 DEF CommitKernel
  <2>4. Dir(id)' = [EmptyDir EXCEPT !.kernel = copied]
    BY <2>3, PutDir
  <2>5. Dir(id)'.config = NoConfig
    BY <2>4 DEF EmptyDir
  <2>6. QED
    BY <1>3, <1>5, <2>2, <2>5
<1>7. CASE ~(CommitKernel(p) /\ id = NewId(p))
  <2>1. id \in DOMAIN images
    BY <1>4, <1>5, <1>7, ImageFlow DEF OwnImages
  <2>2. BKnown(BId(q, Len(todo'[q])))
    BY <1>4, <2>1 DEF BKnown
  <2>3. todo'[q] = todo[q] /\ Committed(q)
    <3>1. todo'[q] = todo[q] \/ (q = p /\ NextCommand(p))
      BY <1>0 DEF Alone
    <3>2. ~(q = p /\ NextCommand(p))
      <4>1. ASSUME q = p, NextCommand(p)
            PROVE  FALSE
        <5>1. todo'[p] = Tail(todo[p]) /\ IsSeq(todo[p]) /\ Len(todo[p]) > 1
          BY <1>0, <4>1 DEF NextCommand, CommandsOK
        <5>2. Len(todo'[p]) = Len(todo[p]) - 1
          BY <5>1, TailIsSeq
        <5>3. Len(todo'[p]) \in Nat /\ ~(Len(todo'[p]) >= Len(todo[p]))
          BY <1>2, <4>1, <5>1, <5>2
        <5>4. QED
          BY <2>2, <4>1, <5>3 DEF Fresh, FreshFor
      <4>2. QED
        BY <4>1
    <3>3. todo'[q] = todo[q]
      BY <3>1, <3>2
    <3>4. QED
      BY <1>2, <2>2, <3>3 DEF Fresh, FreshFor
  <2>4. /\ bld'[q].instrs = bld[q].instrs /\ bld'[q].pos = bld[q].pos
        /\ bld'[q].settings = bld[q].settings
    <3>1. loc[q].at \notin {"parse", "from", "kerneled", "ran", "step"}
      BY <2>3 DEF Committed, Committing, Indexing, Halts
    <3>2. CASE q # p
      BY <1>0, <3>2 DEF Alone
    <3>3. CASE q = p
      BY <1>0, <3>1, <3>3 DEF Settling, Restarts, Lays, Skips, Sets, KeepsBuild, SameBuild
    <3>4. QED
      BY <3>2, <3>3
  <2>5. Cmd(q).kind = "build" /\ NewId(q) = id
    BY <1>1, <1>3, <2>3 DEF Cmd, NewId
  <2>6. /\ ~Unfinished(q)
        /\ Dir(id).config # NoConfig => Dir(id).config[1].settings = bld[q].settings
    BY <2>1, <2>5 DEF Recorded, Has, Dir
  <2>7. ~Unfinished(q)'
    BY <1>a, <2>4, <2>6
  <2>8. Dir(id)'.config # NoConfig => Dir(id)'.config[1].settings = bld'[q].settings
    <3>1. CASE Dir(id)'.config \in {Dir(id).config, NoConfig}
      BY <2>4, <2>6, <3>1
    <3>2. CASE id = NewId(p) /\ Dir(id)'.config[1].settings = bld[p].settings
      <4>1. q = p
        BY <1>4, <3>2 DEF NewId, BId
      <4>2. QED
        BY <2>4, <3>2, <4>1
    <3>3. QED
      BY <1>4, <1>7, <3>1, <3>2, BuiltConfigFlow
  <2>9. QED
    BY <1>3, <1>5, <2>7, <2>8
<1>8. QED
  BY <1>6, <1>7

LEMMA OthersSettle ==
  ASSUME NEW q \in Proc, loc'[q] = loc[q], bld'[q] = bld[q], todo'[q] = todo[q],
         HandOK(q), FetchOK(q), HoldsConfig(q), Serves(q), Settles(q)
  PROVE  HandOK(q)' /\ FetchOK(q)' /\ HoldsConfig(q)' /\ Serves(q)' /\ Settles(q)'
<1>1. NewId(q)' = NewId(q) /\ Cmd(q)' = Cmd(q)
  BY DEF NewId, Cmd
<1>2. HandOK(q)'
  <2>1. (HasInHand(q)' <=> HasInHand(q)) /\ (InCommit(q)' <=> InCommit(q))
        /\ (Untags(q)' <=> Untags(q))
    BY <1>1 DEF HasInHand, Fetches, Names, Untags, InCommit, At, Indexing
  <2>2. QED
    BY <1>1, <2>1 DEF HandOK, At
<1>3. FetchOK(q)'
  BY DEF FetchOK, Fetches, RemoteId, Layers, Layer, At
<1>4. HoldsConfig(q)'
  BY DEF HoldsConfig, Got, Indexing, ConfigOK, IsRemote
<1>5. Serves(q)'
  <2>1. Instr(q)' = Instr(q) /\ (Unfinished(q)' <=> Unfinished(q))
    BY DEF Instr, Unfinished
  <2>2. KernelSide(q)' <=> KernelSide(q)
    BY DEF KernelSide, PullsFor, Indexing
  <2>3. QED
    BY <1>1, <2>1, <2>2 DEF Serves
<1>6. Settles(q)'
  BY DEF Settles, BaseOf, IsRemote
<1>7. QED
  BY <1>2, <1>3, <1>4, <1>5, <1>6

LEMMA SettingsInvInit == Init => SettingsInv
<1> SUFFICES ASSUME Init
             PROVE  SettingsInv
  OBVIOUS
<1>1. \A p \in Proc : HandOK(p) /\ FetchOK(p)
  BY ImageInvInit DEF ImageInv
<1>2. ASSUME NEW p \in Proc
      PROVE  /\ loc[p].at \in {"resolve", "rmi", "save image", "load image", "parse", "kernel",
                               "kernel rm"}
             /\ Cmd(p).kind = "build" => loc[p].at = "parse"
  <2>1. loc[p] = Local(Cmd(p))
    BY DEF Init, ImageInit, Cmd
  <2>2. \A cmd : Local(cmd).at = First[cmd.kind]
    BY DEF Local
  <2>3. Cmd(p).kind \in DOMAIN First
    <3>1. CommandsOK
      BY TypeInvInit DEF TypeInv, BaseInv, Shapes
    <3>2. IsSeq(todo[p]) /\ todo[p] # <<>>
      BY <3>1 DEF CommandsOK
    <3>3. Cmd(p) = todo[p][1] /\ 1 \in DOMAIN todo[p]
      BY <3>2, HeadInDomain DEF Cmd
    <3>4. QED
      BY <3>1, <3>3 DEF CommandsOK
  <2>4. QED
    BY <2>1, <2>2, <2>3, FirstPlaces
<1>3. ASSUME NEW p \in Proc
      PROVE  HoldsConfig(p) /\ Serves(p)
  <2>1. HoldsConfig(p)
    BY <1>2 DEF HoldsConfig, Got, Indexing
  <2>2. ~(KernelSide(p) /\ Cmd(p).kind = "build")
    BY <1>2 DEF KernelSide, PullsFor, Indexing, LoadPlaces, PullPlaces, LayerPlaces
  <2>3. QED
    BY <1>2, <2>1, <2>2 DEF Serves
<1>4. ASSUME NEW p \in Proc
      PROVE  Settles(p)
  <2>1. bld[p].base = <<>> /\ bld[p].pos = 1
    BY DEF Init, NoBuild
  <2>2. IsSeq(<<>>)
    BY EmptySeq, SeqIsSeq
  <2>3. Len(<<>>) = 0
    OBVIOUS
  <2>4. QED
    BY <2>1, <2>2, <2>3 DEF Settles
<1>5. images = <<>>
  BY DEF Init, ImageInit
<1>6. Configs /\ \A p \in Proc : Recorded(p)
  BY <1>5 DEF Configs, Recorded
<1>7. QED
  BY <1>1, <1>3, <1>4, <1>6 DEF SettingsInv

LEMMA SettingsInvKept == TypeInv /\ BuildInv /\ SettingsInv /\ [Next]_vars => SettingsInv'
<1> SUFFICES ASSUME TypeInv, BuildInv, SettingsInv, [Next]_vars
             PROVE  SettingsInv'
  OBVIOUS
<1>0. /\ Shapes /\ Control /\ Instructions /\ ImagesOK /\ Kinds /\ Fresh /\ OwnImages /\ Configs
      /\ \A p \in Proc : /\ Readable(p) /\ HandOK(p) /\ FetchOK(p) /\ HoldsConfig(p)
                         /\ Serves(p) /\ Settles(p) /\ Recorded(p)
  BY DEF TypeInv, BaseInv, Instructions, BuildInv, SettingsInv
<1>1. ASSUME NEW p \in Proc, Act(p)
      PROVE  SettingsInv'
  <2>1. Alone(p)
    BY <1>0, <1>1, ShapesKept
  <2>2. Configs'
    BY <1>0, <1>1, ConfigsKept
  <2>3. HandOK(p)' /\ FetchOK(p)'
    BY <1>0, <1>1, HandKept, FetchKept
  <2>4. HoldsConfig(p)'
    BY <1>0, <1>1, HoldsConfigKept
  <2>5. Serves(p)'
    BY <1>0, <1>1, ServesKept
  <2>6. Settles(p)'
    BY <1>0, <1>1, SettlesKept
  <2>7. \A q \in Proc : Recorded(q)'
    BY <1>0, <1>1, RecordedKept
  <2>8. ASSUME NEW q \in Proc \ {p}
        PROVE  HandOK(q)' /\ FetchOK(q)' /\ HoldsConfig(q)' /\ Serves(q)' /\ Settles(q)'
    <3>1. loc'[q] = loc[q] /\ bld'[q] = bld[q] /\ todo'[q] = todo[q]
      BY <2>1 DEF Alone
    <3>2. QED
      BY <1>0, <3>1, OthersSettle
  <2>9. QED
    BY <2>2, <2>3, <2>4, <2>5, <2>6, <2>7, <2>8 DEF SettingsInv
<1>2. ASSUME UNCHANGED <<images, todo, loc, bld>>
      PROVE  SettingsInv'
  <2>1. ASSUME NEW q \in Proc
        PROVE  HandOK(q)' /\ FetchOK(q)' /\ HoldsConfig(q)' /\ Serves(q)' /\ Settles(q)'
    BY <1>0, <1>2, OthersSettle
  <2>2. Configs'
    BY <1>0, <1>2 DEF Configs, ConfigOK, IsRemote
  <2>3. ASSUME NEW q \in Proc
        PROVE  Recorded(q)'
    <3>1. Recorded(q)
      BY <1>0
    <3>2. QED
      BY <1>2, <3>1 DEF Recorded, Unfinished, Has, NewId, Cmd
  <2>4. QED
    BY <2>1, <2>2, <2>3 DEF SettingsInv
<1>3. CASE ContainerStops /\ UNCHANGED <<kernelVars, work, bld>>
  BY <1>2, <1>3 DEF ContainerStops
<1>4. CASE UNCHANGED vars
  BY <1>2, <1>4 DEF vars, imageVars, files, buildVars
<1>5. QED
  BY <1>1, <1>3, <1>4, WhoActs

LEMMA SettingsInvariant == Spec => [](TypeInv /\ SettingsInv)
<1>1. Init => SettingsInv
  BY SettingsInvInit
<1>2. TypeInv /\ BuildInv /\ SettingsInv /\ [Next]_vars => SettingsInv'
  BY SettingsInvKept
<1>3. QED
  BY <1>1, <1>2, BuildInvariant, PTL DEF Spec

LEMMA EqualToThere ==
  ASSUME NEW s, NEW t, IsSeq(s), IsSeq(t), Len(s) <= Len(t), \A i \in 1 .. Len(s) : t[i] = s[i]
  PROVE  IsPrefix(s, t)
<1> DEFINE n == Len(s)
<1>1. n \in Nat /\ Len(t) \in Nat /\ DOMAIN s = 1 .. n
  BY SeqFacts
<1>2. \A i \in 1 .. n : s[i] \in Range(s) /\ t[i] \in Range(s)
  BY <1>1 DEF Range
<1>3. PICK u, v : u = SubSeq(s, 1, n) /\ v = SubSeq(t, 1, n)
  OBVIOUS
<1> HIDE DEF n
<1>4. /\ u \in Seq(Range(s)) /\ Len(u) = (IF 1 <= n THEN n - 1 + 1 ELSE 0)
      /\ \A i \in 1 .. n - 1 + 1 : u[i] = s[1 + i - 1]
  BY <1>1, <1>2, <1>3, SubSeqProperties
<1>5. /\ v \in Seq(Range(s)) /\ Len(v) = (IF 1 <= n THEN n - 1 + 1 ELSE 0)
      /\ \A i \in 1 .. n - 1 + 1 : v[i] = t[1 + i - 1]
  BY <1>1, <1>2, <1>3, SubSeqProperties
<1>6. IsSeq(u) /\ IsSeq(v)
  BY <1>4, <1>5, SeqIsSeq
<1>7. Len(u) = n /\ Len(v) = n
  BY <1>1, <1>4, <1>5
<1>8. \A i \in 1 .. n : u[i] = v[i]
  <2>1. ASSUME NEW i \in 1 .. n
        PROVE  u[i] = s[i] /\ v[i] = t[i]
    <3>1. i \in 1 .. n - 1 + 1 /\ 1 + i - 1 = i
      BY <1>1
    <3>2. QED
      BY <1>4, <1>5, <3>1
  <2>2. QED
    BY <2>1 DEF n
<1>9. u = v
  BY <1>6, <1>7, <1>8, SameSeq
<1>10. QED
  BY <1>3, <1>9 DEF IsPrefix, n

(* An image that was built on one image from a registry has the settings   *)
(* of that image, as the registry has them, with all that the Dockerfile   *)
(* replaces or adds, the variables in its order (builder.go:211, 518-580). *)
(* Nothing is left out: not even another process that removes the base     *)
(* image or pulls it anew, nor a build in the same directory.              *)
THEOREM SettingsAreBuilt == Spec => []BuiltSettings
<1>1. ASSUME TypeInv, SettingsInv, NEW p \in Proc, OneBase(p)
      PROVE  LET base == SettingsOf[BaseOf(p)]
                 settings == images[NewId(p)].config[1].settings
                 env == Those(p, {"ENV"})
             IN  /\ \A kind \in DOMAIN Replaces :
                      settings[Replaces[kind]] = LastArgs(p, kind, base[Replaces[kind]])
                 /\ settings.ports =
                      base.ports \cup {bld[p].instrs[i].port : i \in Those(p, {"EXPOSE"})}
                 /\ settings.volumes =
                      base.volumes \cup {bld[p].instrs[i].path : i \in Those(p, {"VOLUME"})}
                 /\ Len(settings.env) = Len(base.env) + Cardinality(env)
                 /\ IsPrefix(base.env, settings.env)
                 /\ \A i \in env :
                      settings.env[Len(base.env) + Cardinality({j \in env : j <= i})]
                        = <<bld[p].instrs[i].key, bld[p].instrs[i].value>>
  <2> DEFINE instrs == bld[p].instrs
             base == SettingsOf[BaseOf(p)]
             settings == images[NewId(p)].config[1].settings
             n == Len(instrs)
  <2>1. n \in Nat /\ DOMAIN instrs = 1 .. n /\ bld[p].pos - 1 = n /\ settings = bld[p].settings
    <3>1. Readable(p) /\ Recorded(p)
      BY <1>1 DEF TypeInv, BaseInv, Instructions, SettingsInv
    <3>2. n \in Nat /\ DOMAIN instrs = 1 .. n
      BY <3>1, SeqFacts DEF Readable
    <3>3. ~Unfinished(p) /\ settings = bld[p].settings
      BY <1>1, <3>1 DEF Recorded, OneBase, Has
    <3>4. bld[p].pos \in 1 .. n + 1 /\ ~(bld[p].pos <= n)
      BY <3>1, <3>3 DEF Readable, Unfinished
    <3>5. PICK k : k = bld[p].pos
      OBVIOUS
    <3> HIDE DEF n
    <3>6. k - 1 = n
      BY <3>2, <3>4, <3>5
    <3>7. QED
      BY <3>2, <3>3, <3>5, <3>6
  <2>2. BaseOf(p) \in DOMAIN LayersOf /\ SettledUpTo(instrs, n, base, settings)
    BY <1>1, <2>1 DEF SettingsInv, Settles, OneBase
  <2>3. \A kind : Those(p, {kind}) = Among(instrs, n, kind)
    BY <2>1 DEF Those, Among
  <2>4. \A kind, default : LastArgs(p, kind, default) = LastUpTo(instrs, n, kind, default)
    BY <2>3 DEF LastArgs, LastUpTo
  <2>5. ASSUME NEW i \in Those(p, {"ENV"})
        PROVE  {j \in Those(p, {"ENV"}) : j <= i} = Among(instrs, i, "ENV")
    <3>1. Those(p, {"ENV"}) = Among(instrs, n, "ENV")
      BY <2>3
    <3>2. i \in 1 .. n
      BY <3>1 DEF Among
    <3> HIDE DEF n
    <3>3. \A j : j \in 1 .. n /\ j <= i <=> j \in 1 .. i
      BY <2>1, <3>2
    <3>4. QED
      BY <3>1, <3>3 DEF Among
  <2>6. IsPrefix(base.env, settings.env)
    <3>1. IsSeq(base.env)
      BY <2>2, SettingsAssumption
    <3>2. /\ IsSeq(settings.env)
          /\ Len(settings.env) = Len(base.env) + Cardinality(Among(instrs, n, "ENV"))
          /\ \A i \in 1 .. Len(base.env) : settings.env[i] = base.env[i]
      BY <2>2 DEF SettledUpTo
    <3>3. Cardinality(Among(instrs, n, "ENV")) \in Nat /\ Len(base.env) \in Nat
      <4>1. Cardinality(Among(instrs, n, "ENV")) \in Nat
        BY <2>1, AmongGrows
      <4>2. QED
        BY <3>1, <4>1, SeqFacts
    <3>4. Len(base.env) <= Len(settings.env)
      <4>1. PICK a, b : a = Len(base.env) /\ b = Cardinality(Among(instrs, n, "ENV"))
        OBVIOUS
      <4>2. a <= a + b
        BY <3>3, <4>1
      <4>3. QED
        BY <3>2, <4>1, <4>2
    <3>5. QED
      BY <3>1, <3>2, <3>4, EqualToThere
  <2>7. \A kind \in DOMAIN Replaces :
          settings[Replaces[kind]] = LastArgs(p, kind, base[Replaces[kind]])
    <3>1. ASSUME NEW kind \in DOMAIN Replaces
          PROVE  settings[Replaces[kind]] = LastArgs(p, kind, base[Replaces[kind]])
      <4>1. PICK default : default = base[Replaces[kind]]
        OBVIOUS
      <4>2. settings[Replaces[kind]] = LastUpTo(instrs, n, kind, default)
        BY <2>2, <4>1 DEF SettledUpTo
      <4>3. QED
        BY <2>4, <4>1, <4>2
    <3>2. QED
      BY <3>1
  <2>8. /\ settings.ports = base.ports \cup {instrs[i].port : i \in Those(p, {"EXPOSE"})}
        /\ settings.volumes = base.volumes \cup {instrs[i].path : i \in Those(p, {"VOLUME"})}
        /\ Len(settings.env) = Len(base.env) + Cardinality(Those(p, {"ENV"}))
    <3>1. /\ Those(p, {"EXPOSE"}) = Among(instrs, n, "EXPOSE")
          /\ Those(p, {"VOLUME"}) = Among(instrs, n, "VOLUME")
          /\ Those(p, {"ENV"}) = Among(instrs, n, "ENV")
      BY <2>3
    <3>2. QED
      BY <2>2, <3>1 DEF SettledUpTo
  <2>9. \A i \in Those(p, {"ENV"}) :
          settings.env[Len(base.env) + Cardinality({j \in Those(p, {"ENV"}) : j <= i})]
            = <<instrs[i].key, instrs[i].value>>
    BY <2>2, <2>3, <2>5 DEF SettledUpTo
  <2>10. QED
    BY <2>6, <2>7, <2>8, <2>9
<1>2. TypeInv /\ SettingsInv => BuiltSettings
  BY <1>1 DEF BuiltSettings
<1>3. QED
  BY <1>2, SettingsInvariant, PTL
=============================================================================
