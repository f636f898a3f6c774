----------------------------- MODULE ImageProofs -----------------------------
(***************************************************************************)
(* What has a name in the list of images is whole: the layers that pull    *)
(* unpacks, and what others do meanwhile.                                  *)
(***************************************************************************)
EXTENDS BuildProofs, WellFoundedInduction

(* Tar files have no second entry for the path of a link.                  *)
LinksOnce ==
  \A l \in DOMAIN Tar : \A i, j \in DOMAIN Tar[l] :
    Tar[l][i].path = Tar[l][j].path /\ Tar[l][i].kind = "link" => i = j

-----------------------------------------------------------------------------
(* A directory that holds what the manifest of its image says.             *)
HasLayer(dir, l) == l \in DOMAIN dir.layers /\ dir.layers[l] = LayerContent(l)
WholeDir(id, dir) ==
  /\ dir.config # NoConfig
  /\ IsRemote(id) => \A l \in Range(LayersOf[id[2]]) : HasLayer(dir, l)
Whole(id) == WholeDir(id, Dir(id))

(* The image that a process writes, names or removes.                      *)
Fetches(p) == loc[p].at \in LayerPlaces
Names(p) == Indexing(p) /\ loc[p].store = "image" /\ loc[p].next # "removing"
Untags(p) == Indexing(p) /\ loc[p].next = "removing"
InCommit(p) == loc[p].at \in {"commit rootfs", "commit save"}
HasInHand(p) == Fetches(p) \/ Names(p) \/ Untags(p) \/ InCommit(p) \/ At(p, "removing")

HandOK(p) ==
  /\ HasInHand(p) => loc[p].id # NoId
  /\ InCommit(p) => loc[p].id = NewId(p)
  /\ At(p, "rmi") \/ Untags(p) => loc[p].strict
  /\ Untags(p) /\ loc[p].at # "load" =>
       loc[p].names = {n \in DOMAIN loc[p].idx : loc[p].idx[n] = loc[p].id}

FetchOK(p) ==
  /\ Fetches(p) \/ loc[p].at \in {"platform", "config"} => loc[p].image \in DOMAIN LayersOf
  /\ Fetches(p) => loc[p].id = RemoteId(p) /\ loc[p].n \in Nat \ {0}
  /\ loc[p].at \in {"blob", "extract"} => loc[p].n \in DOMAIN Layers(p)
  /\ At(p, "save") => loc[p].n > Len(Layers(p))
  /\ At(p, "extract") => /\ loc[p].e \in 1 .. Len(Tar[Layer(p)]) + 1
                         /\ loc[p].met \/ loc[p].blob = "good"

(* Two processes at one image disturb it.                                  *)
Apart == Together \subseteq disturbed
Kept(id) == id \notin disturbed

(* An image has no configuration while its layers are fetched, no name     *)
(* while it is removed, and is whole while it gets one.                    *)
Unread(p) == Fetches(p) /\ Kept(loc[p].id) => Dir(loc[p].id).config = NoConfig
Unnamed(p) ==
  At(p, "removing") /\ Kept(loc[p].id) /\ ~lost => loc[p].id \notin Range(index["image"])
Nameable(p) == Names(p) /\ Kept(loc[p].id) => Whole(loc[p].id)

(* The layers before the current one are as their digests say.             *)
Fetched(p) ==
  Fetches(p) /\ Kept(loc[p].id) =>
    \A i \in DOMAIN Layers(p) :
      i < loc[p].n /\ ~(At(p, "extract") /\ Layers(p)[i] = Layer(p)) =>
        HasLayer(Dir(loc[p].id), Layers(p)[i])

(* Of the current one the last of the entries so far is there for every    *)
(* path.                                                                   *)
LastOf(l, e, j) ==
  /\ j \in 1 .. e - 1
  /\ \A k \in 1 .. e - 1 : Tar[l][k].path = Tar[l][j].path => k <= j
Unpacking(p) ==
  loc[p].at \in {"blob", "extract"} /\ Kept(loc[p].id) =>
    /\ Layer(p) \in DOMAIN Dir(loc[p].id).layers
    /\ At(p, "extract") /\ loc[p].blob = "good" =>
         \A j \in 1 .. loc[p].e - 1 :
           LastOf(Layer(p), loc[p].e, j) =>
             /\ Tar[Layer(p)][j].path \in DOMAIN Content(p)
             /\ Content(p)[Tar[Layer(p)][j].path] = Tar[Layer(p)][j]

(* A layer's directory holds no path that its archive has not, and links   *)
(* where the archive has them.                                             *)
Piece(l, f, kind) == \E i \in DOMAIN Tar[l] : Tar[l][i].path = f /\ Tar[l][i].kind = kind
PiecesOf(l, content) ==
  /\ content = [f \in DOMAIN content |-> content[f]]
  /\ \A f \in DOMAIN content : Piece(l, f, content[f].kind)
Pieces ==
  \A id \in DOMAIN images : IsRemote(id) =>
    \A l \in DOMAIN images[id].layers : PiecesOf(l, images[id].layers[l])

(* What was pulled is whole, or somebody is removing it.                   *)
Filled ==
  \A id \in DOMAIN images :
    IsRemote(id) /\ Has(id) /\ Kept(id) =>
      Whole(id) \/ \E p \in Proc : At(p, "removing") /\ loc[p].id = id

NamedWhole == ~lost => \A id \in Range(index["image"]) : Kept(id) => Whole(id)
ArchiveRead == archive # <<>> => archive[1].config # NoConfig

ImageInv ==
  /\ \A p \in Proc : HandOK(p) /\ FetchOK(p)
  /\ Apart /\ ArchiveRead /\ Pieces /\ Filled /\ NamedWhole
  /\ \A p \in Proc : Unread(p) /\ Unnamed(p) /\ Nameable(p) /\ Fetched(p) /\ Unpacking(p)

-----------------------------------------------------------------------------
(* A set of numbers that is not empty has a smallest one, and a greatest   *)
(* one when it is bounded.                                                 *)
LEMMA MinExists ==
  ASSUME NEW T \in SUBSET Nat, T # {}
  PROVE  \E x \in T : \A y \in T : x <= y
<1> DEFINE R == OpToRel(<, Nat)
<1>1. IsWellFoundedOn(R, Nat)
  BY NatLessThanWellFounded
<1>2. PICK x \in T : \A y \in T : ~(<<y, x>> \in R)
  <2> HIDE DEF R
  <2>1. QED
    BY <1>1, WFMin
<1>3. ASSUME NEW y \in T
      PROVE  x <= y
  <2>1. ~(<<y, x>> \in R)
    BY <1>2
  <2>2. y \in Nat /\ x \in Nat
    OBVIOUS
  <2>3. ~(y < x)
    BY <2>1, <2>2, Zenon DEF OpToRel
  <2>4. QED
    BY <2>2, <2>3
<1>4. QED
  BY <1>2, <1>3

LEMMA MaxExists ==
  ASSUME NEW n \in Nat, NEW T \in SUBSET (0 .. n), T # {}
  PROVE  \E x \in T : \A y \in T : y <= x
<1> DEFINE U == {n - x : x \in T}
<1>1. U \in SUBSET Nat /\ U # {}
  <2>1. \A x \in T : n - x \in Nat
    OBVIOUS
  <2>2. QED
    BY <2>1
<1>2. PICK u \in U : \A v \in U : u <= v
  <2> HIDE DEF U
  <2>1. QED
    BY <1>1, MinExists
<1>3. PICK x \in T : u = n - x
  OBVIOUS
<1>4. ASSUME NEW y \in T
      PROVE  y <= x
  <2>1. n - x <= n - y
    BY <1>2, <1>3
  <2>2. QED
    BY <2>1
<1>5. QED
  BY <1>4

LEMMA MinIs ==
  ASSUME NEW T \in SUBSET Nat, T # {}
  PROVE  Min(T) \in T /\ \A y \in T : Min(T) <= y
BY MinExists DEF Min

-----------------------------------------------------------------------------
(* What there is in an archive.                                            *)
LEMMA LayerTypes ==
  ASSUME NEW i \in DOMAIN LayersOf
  PROVE  /\ Len(LayersOf[i]) \in Nat /\ DOMAIN LayersOf[i] = 1 .. Len(LayersOf[i])
         /\ \A k \in DOMAIN LayersOf[i] : LayersOf[i][k] \in DOMAIN Tar
<1>1. IsSeq(LayersOf[i]) /\ Range(LayersOf[i]) \subseteq DOMAIN Tar
  BY LayerAssumption
<1>2. QED
  BY <1>1, LenProperties DEF IsSeq, Range

LEMMA TarTypes ==
  ASSUME NEW l \in DOMAIN Tar
  PROVE  /\ Len(Tar[l]) \in Nat /\ DOMAIN Tar[l] = 1 .. Len(Tar[l])
         /\ \A k \in DOMAIN Tar[l] :
              Tar[l][k] = [path |-> Tar[l][k].path, kind |-> Tar[l][k].kind,
                           data |-> Tar[l][k].data]
<1>1. /\ IsSeq(Tar[l])
      /\ \A e \in Range(Tar[l]) : e = [path |-> e.path, kind |-> e.kind, data |-> e.data]
  BY LayerAssumption
<1>2. Len(Tar[l]) \in Nat /\ DOMAIN Tar[l] = 1 .. Len(Tar[l])
  BY <1>1, LenProperties DEF IsSeq
<1>3. \A k \in DOMAIN Tar[l] : Tar[l][k] \in Range(Tar[l])
  BY DEF Range
<1>4. QED
  BY <1>1, <1>2, <1>3

(* The last entry for a path is what the layer holds there.                *)
LEMMA LastDecides ==
  ASSUME NEW l \in DOMAIN Tar, NEW j \in DOMAIN Tar[l],
         \A k \in DOMAIN Tar[l] : Tar[l][k].path = Tar[l][j].path => k <= j
  PROVE  /\ Tar[l][j].path \in DOMAIN LayerContent(l)
         /\ LayerContent(l)[Tar[l][j].path] = Tar[l][j]
<1> DEFINE f == Tar[l][j].path
           S == {i \in DOMAIN Tar[l] : Tar[l][i].path = f}
<1>1. DOMAIN Tar[l] \subseteq Int
  BY TarTypes
<1>2. Max(S) = j
  <2>1. j \in S /\ \A k \in S : k <= j
    OBVIOUS
  <2>2. S \subseteq Int
    BY <1>1
  <2> HIDE DEF S
  <2>3. \A x \in S : (\A y \in S : x >= y) => x = j
    BY <2>1, <2>2
  <2>4. \E x \in S : \A y \in S : x >= y
    BY <2>1, <2>2
  <2>5. QED
    BY <2>3, <2>4 DEF Max
<1>3. f \in {Tar[l][i].path : i \in DOMAIN Tar[l]}
  OBVIOUS
<1>4. LayerContent(l)[f] = Tar[l][Max(S)]
  BY <1>3 DEF LayerContent
<1>5. QED
  BY <1>2, <1>3, <1>4 DEF LayerContent

(* A directory with the last entry for every path and no others is the     *)
(* layer.                                                                  *)
LEMMA LayerIsContent ==
  ASSUME NEW l \in DOMAIN Tar, NEW content, PiecesOf(l, content),
         \A j \in DOMAIN Tar[l] :
           (\A k \in DOMAIN Tar[l] : Tar[l][k].path = Tar[l][j].path => k <= j) =>
             Tar[l][j].path \in DOMAIN content /\ content[Tar[l][j].path] = Tar[l][j]
  PROVE  content = LayerContent(l)
<1>1. ASSUME NEW f \in {Tar[l][i].path : i \in DOMAIN Tar[l]}
      PROVE  f \in DOMAIN content /\ content[f] = LayerContent(l)[f]
  <2> DEFINE S == {i \in DOMAIN Tar[l] : Tar[l][i].path = f}
  <2>1. S \in SUBSET (0 .. Len(Tar[l])) /\ S # {} /\ Len(Tar[l]) \in Nat
    BY TarTypes
  <2>2. PICK j \in S : \A k \in S : k <= j
    <3> HIDE DEF S
    <3>1. QED
      BY <2>1, MaxExists
  <2>3. /\ j \in DOMAIN Tar[l] /\ Tar[l][j].path = f
        /\ \A k \in DOMAIN Tar[l] : Tar[l][k].path = Tar[l][j].path => k <= j
    BY <2>2
  <2>4. QED
    BY <2>3, LastDecides
<1>2. DOMAIN LayerContent(l) = {Tar[l][i].path : i \in DOMAIN Tar[l]}
  BY DEF LayerContent
<1>3. DOMAIN content = DOMAIN LayerContent(l)
  BY <1>1, <1>2 DEF PiecesOf, Piece
<1>4. content = [f \in DOMAIN content |-> content[f]]
  BY DEF PiecesOf
<1>5. LayerContent(l) = [f \in DOMAIN LayerContent(l) |-> LayerContent(l)[f]]
  BY DEF LayerContent
<1>6. QED
  BY <1>1, <1>2, <1>3, <1>4, <1>5

-----------------------------------------------------------------------------
(* What happens at the places where images are written, named and removed. *)
Watched ==
  LayerPlaces \cup {"resolve", "manifest", "platform", "config", "load", "truncate", "write",
    "removing", "rmi", "load image", "commit kernel", "commit rootfs", "commit save", "modules",
    "kernel rm"}
Tracked ==
  LayerPlaces \cup {"platform", "config", "load", "truncate", "write", "removing", "rmi",
    "commit rootfs", "commit save"}

LEMMA ByPlace ==
  ASSUME NEW p \in Proc, Act(p), loc[p].at \in Watched
  PROVE  \/ PullResolve(p) \/ FetchManifest(p) \/ FetchPlatform(p) \/ FetchConfig(p)
         \/ NextLayer(p) \/ GetBlob(p) \/ ExtractEntry(p) \/ VerifyLayer(p) \/ SaveImage(p)
         \/ FailedAttempt(p) \/ LoadIndex(p) \/ Truncate(p) \/ SaveIndex(p)
         \/ RmiResolve(p) \/ RemoveAll(p) \/ ReadArchive(p)
         \/ CommitKernel(p) \/ CommitRootfs(p) \/ CommitSave(p)
         \/ CopyModule(p) \/ SaveKernel(p) \/ FindStored(p) \/ Killed(p)
<1>1. ~Pulled(p) /\ ~WriteArchive(p)
  BY DEF Pulled, WriteArchive, At, Watched, LayerPlaces
<1>2. ~AssembleRootfs(p) /\ ~CopyLayer(p) /\ ~Assembled(p) /\ ~CopyKernel(p)
  BY DEF AssembleRootfs, CopyLayer, Assembled, CopyKernel, At, Watched, LayerPlaces
<1>3. ~PullKernel(p) /\ ~DownloadArchive(p) /\ ~DownloadEnds(p) /\ ~ExtractArchive(p)
  BY DEF PullKernel, DownloadArchive, DownloadEnds, ExtractArchive, At, Watched, LayerPlaces
<1>4. ~OCIKernelPulled(p) /\ ~CopyBinary(p) /\ ~KernelPulled(p) /\ ~RemoveKernel(p) /\ ~Stall(p)
  BY DEF OCIKernelPulled, CopyBinary, KernelPulled, RemoveKernel, Stall, At, Watched, LayerPlaces
<1>5. ~ParseDockerfile(p) /\ ~BeginProcess(p) /\ ~HandleFrom(p) /\ ~FromPulled(p)
  BY DEF ParseDockerfile, BeginProcess, HandleFrom, Handles, FromPulled, At, Watched, LayerPlaces
<1>6. ~CopyBaseLayer(p) /\ ~FromEnds(p) /\ ~HandleKernel(p) /\ ~KernelEnds(p)
  BY DEF CopyBaseLayer, FromEnds, HandleKernel, Handles, KernelEnds, At, Watched, LayerPlaces
<1>7. ~HandleRun(p) /\ ~Machine(p) /\ ~RunEnds(p) /\ ~HandleCopy(p)
  BY DEF HandleRun, Machine, RunEnds, HandleCopy, Handles, At, Watched, LayerPlaces
<1>8. ~Configure(p) /\ ~ProcessEnds(p) /\ ~CleanUp(p)
  BY DEF Configure, ProcessEnds, CleanUp, At, Watched, LayerPlaces
<1>9. ~NextCommand(p)
  BY DEF NextCommand, Busy, Ended, Watched, LayerPlaces
<1>10. QED
  BY <1>1, <1>2, <1>3, <1>4, <1>5, <1>6, <1>7, <1>8, <1>9
     DEF Act, Progress, ImageStep, Pull, KernelStep, BuildStep

(* Nobody gets there from elsewhere but at the beginning of a command.     *)
LEMMA Arrivals ==
  ASSUME NEW p \in Proc, Shapes, Kinds, Act(p), loc[p].at \notin Watched, ~NextCommand(p)
  PROVE  loc'[p].at \notin Tracked
<1>1. loc' = loc \/ KeepsPlace(p) => loc'[p].at \notin Tracked
  BY DEF KeepsPlace, Tracked, Watched
<1>2. Stops(p) \/ ToBase(p) \/ ToWork(p) \/ ToKernel(p) \/ Downloads(p) \/ ToModules(p) =>
        loc'[p].at \notin Tracked
  BY DEF Stops, Halts, ToBase, ToWork, ToKernel, Downloads, ToModules, Tracked, LayerPlaces
<1>3. ~PullsOn(p) /\ ~ToImage(p) /\ ~InLayers(p) /\ ~Loads(p) /\ ~Truncates(p) /\ ~Writes(p)
      /\ ~ToIndex(p) /\ ~ToSaving(p) /\ ~ToRemoving(p)
  BY DEF PullsOn, PullPlaces, ToImage, InLayers, Loads, Truncates, Writes, ToIndex, ToSaving,
     ToRemoving, Watched
<1>4. BuildStep(p) => loc'[p].at \notin Tracked
  <2>1. BuildStep(p) => BuildMoves(p)
    BY BuildSteps DEF Kinds
  <2>2. ~Commits(p)
    BY DEF Commits, Watched
  <2>3. BuildMoves(p) => loc'[p].at \notin Tracked
    BY <2>2 DEF BuildMoves, Parses, Opens, Builds, Boots, Judges, Cleans, Tracked, LayerPlaces
  <2>4. QED
    BY <2>1, <2>3
<1>5. QED
  BY <1>1, <1>2, <1>3, <1>4, Flow DEF Moves

(* A process that stops is at none of these places.                        *)
LEMMA StopsUntracked ==
  ASSUME NEW p \in Proc, ShapesOK, Fail(p) \/ FailMet(p) \/ Killed(p)
  PROVE  loc'[p].at \notin Tracked
<1>1. Fail(p) \/ FailMet(p) => loc'[p].at = Failed(p)
  BY DEF Fail, FailMet, ShapesOK, LocFields
<1>2. QED
  BY <1>1, KilledGoes DEF Failed, Tracked, LayerPlaces

-----------------------------------------------------------------------------
(* What the fetching of layers does.                                       *)
MakesDir(p) ==
  /\ At(p, "layer") /\ loc'[p].at = "blob" /\ loc'[p].n = loc[p].n
  /\ ~(loc[p].n > Len(Layers(p))) /\ PutLayer(p, Content(p))
HasAll(p) ==
  /\ At(p, "layer") /\ loc'[p].at = "save" /\ loc'[p].n = loc[p].n
  /\ loc[p].n > Len(Layers(p)) /\ images' = images
AsksAgain(p) ==
  At(p, "blob") /\ loc'[p].at = "blob" /\ loc'[p].n = loc[p].n /\ images' = images
GetsBlob(p) ==
  /\ At(p, "blob") /\ loc'[p].at = "extract" /\ loc'[p].n = loc[p].n /\ loc'[p].e = 1
  /\ loc'[p].met \/ loc'[p].blob = "good"
  /\ images' = images
Entry(p) == Tar[Layer(p)][loc[p].e]
Extracts(p) ==
  /\ At(p, "extract") /\ loc'[p].at = "extract" /\ loc'[p].n = loc[p].n
  /\ loc[p].e <= Len(Tar[Layer(p)]) /\ loc'[p].e = loc[p].e + 1
  /\ loc'[p].blob = loc[p].blob /\ loc'[p].met = loc[p].met
  /\ Entry(p).kind = "link" => Entry(p).path \notin DOMAIN Content(p)
  /\ \E data : /\ loc[p].blob = "good" => data = Entry(p).data
               /\ PutLayer(p, Merge(Just(Entry(p).path, [Entry(p) EXCEPT !.data = data]),
                                    Content(p)))
Accepts(p) ==
  /\ At(p, "extract") /\ loc'[p].at = "layer" /\ loc'[p].n = loc[p].n + 1
  /\ loc[p].e > Len(Tar[Layer(p)]) /\ loc[p].blob = "good" /\ images' = images
SavesImage(p) ==
  /\ At(p, "save") /\ loc'[p].at = "load"
  /\ \E config : config # NoConfig /\ Put(loc[p].id, [Dir(loc[p].id) EXCEPT !.config = config])

LayerMoves(p) ==
  /\ KeepsRoute(p) /\ KeepsId(p) /\ loc'[p].image = loc[p].image
  /\ MakesDir(p) \/ HasAll(p) \/ AsksAgain(p) \/ GetsBlob(p) \/ Extracts(p) \/ Accepts(p)
     \/ SavesImage(p)

LEMMA LayerFlow ==
  ASSUME NEW p \in Proc, Shapes, Act(p), Fetches(p), loc'[p].at \in Tracked
  PROVE  LayerMoves(p)
<1>0. ShapesOK
  BY DEF Shapes
<1>a. ~Fail(p) /\ ~FailMet(p) /\ ~Killed(p)
  BY <1>0, StopsUntracked
<1>b. loc[p].at \in Watched /\ loc[p].at \in LayerPlaces
  BY DEF Fetches, Watched
<1>1. CASE NextLayer(p)
  <2>1. PICK at \in {"save", "blob"} :
          /\ At(p, "layer") /\ Goto(p, at)
          /\ IF at = "save" THEN loc[p].n > Len(Layers(p)) /\ images' = images
             ELSE ~(loc[p].n > Len(Layers(p))) /\ PutLayer(p, Content(p))
    BY <1>1 DEF NextLayer
  <2>2. /\ loc'[p].at = at /\ loc'[p].n = loc[p].n /\ loc'[p].image = loc[p].image
        /\ KeepsRoute(p) /\ KeepsId(p)
    BY <1>0, <2>1 DEF Goto, ShapesOK, LocFields, KeepsRoute, KeepsId
  <2>3. QED
    BY <2>1, <2>2 DEF LayerMoves, MakesDir, HasAll
<1>2. CASE GetBlob(p)
  <2>1. PICK blob \in {"good", "bad"} :
          loc' = [loc EXCEPT ![p].at = "extract", ![p].e = 1, ![p].tries = 0,
                             ![p].blob = blob, ![p].met = @ \/ blob = "bad"]
    BY <1>2 DEF GetBlob
  <2>2. /\ loc'[p].at = "extract" /\ loc'[p].n = loc[p].n /\ loc'[p].image = loc[p].image
        /\ loc'[p].e = 1 /\ loc'[p].blob = blob /\ KeepsRoute(p) /\ KeepsId(p)
    BY <1>0, <2>1 DEF ShapesOK, LocFields, KeepsRoute, KeepsId
  <2>3. loc'[p].met = (loc[p].met \/ blob = "bad")
    BY <1>0, <2>1 DEF ShapesOK, LocFields
  <2>4. loc'[p].met \/ blob = "good"
    BY <2>3
  <2>5. At(p, "blob") /\ images' = images
    BY <1>2 DEF GetBlob, files
  <2>6. QED
    BY <2>2, <2>4, <2>5 DEF LayerMoves, GetsBlob
<1>3. CASE ExtractEntry(p)
  <2>1. /\ At(p, "extract") /\ loc[p].e <= Len(Tar[Layer(p)])
        /\ loc' = [loc EXCEPT ![p].e = @ + 1]
        /\ Entry(p).kind = "link" => Entry(p).path \notin DOMAIN Content(p)
        /\ \E data \in {Entry(p).data} \cup IF loc[p].blob = "bad" THEN {"wrong"} ELSE {} :
             PutLayer(p, Merge(Just(Entry(p).path, [Entry(p) EXCEPT !.data = data]), Content(p)))
    BY <1>a, <1>3 DEF ExtractEntry, Entry
  <2>2. /\ loc'[p].at = loc[p].at /\ loc'[p].n = loc[p].n /\ loc'[p].image = loc[p].image
        /\ loc'[p].e = loc[p].e + 1 /\ loc'[p].blob = loc[p].blob /\ loc'[p].met = loc[p].met
        /\ KeepsRoute(p) /\ KeepsId(p)
    BY <1>0, <2>1 DEF ShapesOK, LocFields, KeepsRoute, KeepsId
  <2>3. \E data : /\ loc[p].blob = "good" => data = Entry(p).data
                  /\ PutLayer(p, Merge(Just(Entry(p).path, [Entry(p) EXCEPT !.data = data]),
                                       Content(p)))
    BY <2>1
  <2>4. Extracts(p)
    BY <2>1, <2>2, <2>3 DEF Extracts, At
  <2>5. QED
    BY <2>2, <2>4 DEF LayerMoves
<1>4. CASE VerifyLayer(p)
  <2>1. /\ At(p, "extract") /\ loc[p].e > Len(Tar[Layer(p)]) /\ loc[p].blob = "good"
        /\ loc' = [loc EXCEPT ![p].at = "layer", ![p].n = @ + 1] /\ images' = images
    BY <1>a, <1>4 DEF VerifyLayer, files
  <2>2. /\ loc'[p].at = "layer" /\ loc'[p].n = loc[p].n + 1 /\ loc'[p].image = loc[p].image
        /\ KeepsRoute(p) /\ KeepsId(p)
    BY <1>0, <2>1 DEF ShapesOK, LocFields, KeepsRoute, KeepsId
  <2>3. QED
    BY <2>1, <2>2 DEF LayerMoves, Accepts
<1>5. CASE SaveImage(p)
  <2>1. PICK config :
          /\ At(p, "save") /\ config # NoConfig
          /\ Put(loc[p].id, [Dir(loc[p].id) EXCEPT !.config = config])
          /\ loc' = [loc EXCEPT ![p].at = "load", ![p].config = config]
    <3>1. ASSUME NEW x
          PROVE  <<x>> # NoConfig
      BY DEF NoConfig
    <3>2. QED
      BY <1>5, <3>1 DEF SaveImage
  <2>2. /\ loc'[p].at = "load" /\ loc'[p].image = loc[p].image
        /\ KeepsRoute(p) /\ KeepsId(p)
    BY <1>0, <2>1 DEF ShapesOK, LocFields, KeepsRoute, KeepsId
  <2>3. SavesImage(p)
    BY <2>1, <2>2 DEF SavesImage
  <2>4. QED
    BY <2>2, <2>3 DEF LayerMoves
<1>6. CASE FailedAttempt(p)
  <2>1. /\ loc' = [loc EXCEPT ![p].tries = @ + 1] /\ images' = images
        /\ loc[p].at \in Requests
    BY <1>a, <1>6 DEF FailedAttempt, files
  <2>2. /\ loc'[p].at = loc[p].at /\ loc'[p].n = loc[p].n /\ loc'[p].image = loc[p].image
        /\ KeepsRoute(p) /\ KeepsId(p)
    BY <1>0, <2>1 DEF ShapesOK, LocFields, KeepsRoute, KeepsId
  <2>3. At(p, "blob")
    BY <1>b, <2>1 DEF Requests, LayerPlaces, At
  <2>4. QED
    BY <2>1, <2>2, <2>3 DEF LayerMoves, AsksAgain, At
<1>7. ~PullResolve(p) /\ ~FetchManifest(p) /\ ~FetchPlatform(p) /\ ~FetchConfig(p)
      /\ ~LoadIndex(p) /\ ~Truncate(p) /\ ~SaveIndex(p) /\ ~RmiResolve(p) /\ ~RemoveAll(p)
      /\ ~ReadArchive(p) /\ ~CommitKernel(p) /\ ~CommitRootfs(p) /\ ~CommitSave(p)
      /\ ~CopyModule(p) /\ ~SaveKernel(p) /\ ~FindStored(p)
  BY <1>b DEF PullResolve, FetchManifest, FetchPlatform, FetchConfig, LoadIndex, Truncate,
     SaveIndex, RmiResolve, RemoveAll, ReadArchive, CommitKernel, CommitRootfs, CommitSave,
     CopyModule, SaveKernel, FindStored, At, LayerPlaces
<1>8. QED
  BY <1>a, <1>b, <1>1, <1>2, <1>3, <1>4, <1>5, <1>6, <1>7, ByPlace

-----------------------------------------------------------------------------
(* The entry of the manifest that is taken is one of its entries.          *)
LEMMA MatchIsEntry ==
  ASSUME NEW entries, IsSeq(entries), NEW target
  PROVE  MatchManifest(entries, target) \in {0} \cup DOMAIN entries
<1> DEFINE stated == {i \in DOMAIN entries : entries[i].stated}
           alike == {i \in stated : Match(target, entries[i].platform)}
           near == {i \in stated : /\ entries[i].platform.os = target.os
                                   /\ entries[i].platform.arch = target.arch}
<1>1. DOMAIN entries \subseteq Nat
  BY LenProperties DEF IsSeq
<1>2. alike \subseteq DOMAIN entries /\ near \subseteq DOMAIN entries
  OBVIOUS
<1>3. MatchManifest(entries, target) =
        IF alike # {} THEN Min(alike) ELSE IF near # {} THEN Min(near) ELSE 0
  BY DEF MatchManifest
<1> HIDE DEF stated, alike, near
<1>4. alike # {} => Min(alike) \in DOMAIN entries
  <2>1. alike \in SUBSET Nat
    BY <1>1, <1>2
  <2>2. QED
    BY <1>2, <2>1, MinIs
<1>5. near # {} => Min(near) \in DOMAIN entries
  <2>1. near \in SUBSET Nat
    BY <1>1, <1>2
  <2>2. QED
    BY <1>2, <2>1, MinIs
<1>6. QED
  BY <1>3, <1>4, <1>5

LEMMA ManifestCases ==
  ASSUME NEW p \in Proc, FetchManifest(p)
  PROVE  \/ FailMet(p)
         \/ \E at \in {"platform", "config"}, image \in DOMAIN LayersOf :
              loc' = [loc EXCEPT ![p].at = at, ![p].image = image, ![p].tries = 0]
<1> DEFINE ref == loc[p].ref
           name == <<ref.registry, ref.repository, ref.tag>>
           entries == Remote[name].entries
           i == MatchManifest(entries, ParsePlatform(loc[p].platform))
           at == IF Remote[name].list THEN "platform" ELSE "config"
           image == entries[IF Remote[name].list THEN i ELSE 1].image
<1>1. CASE name \in DOMAIN Remote /\ ~(Remote[name].list /\ i = 0)
  <2>1. loc' = [loc EXCEPT ![p].at = at, ![p].image = image, ![p].tries = 0]
    BY <1>1 DEF FetchManifest
  <2>2. /\ IsSeq(entries) /\ (Remote[name].list \/ entries # <<>>)
        /\ \A k \in DOMAIN entries : entries[k].image \in DOMAIN LayersOf
    BY <1>1, RemoteAssumption
  <2>3. i \in {0} \cup DOMAIN entries
    <3> HIDE DEF entries
    <3>1. QED
      BY <2>2, MatchIsEntry
  <2>4. ~Remote[name].list => 1 \in DOMAIN entries
    <3> HIDE DEF entries
    <3>1. QED
      BY <2>2, HeadInDomain
  <2>5. image \in DOMAIN LayersOf
    <3> HIDE DEF entries, i
    <3>1. QED
      BY <1>1, <2>2, <2>3, <2>4
  <2>6. at \in {"platform", "config"}
    OBVIOUS
  <2> HIDE DEF at, image
  <2>7. QED
    BY <2>1, <2>5, <2>6
<1>2. CASE ~(name \in DOMAIN Remote /\ ~(Remote[name].list /\ i = 0))
  BY <1>2 DEF FetchManifest
<1>3. QED
  BY <1>1, <1>2

(* What a pull has in hand before it comes to the layers.                  *)
LEMMA FetchKept ==
  ASSUME NEW p \in Proc, Shapes, Control, Kinds, FetchOK(p), Act(p)
  PROVE  FetchOK(p)'
<1>0. ShapesOK /\ Routed(p)
  BY DEF Shapes, Control
<1> DEFINE Places == LayerPlaces \cup {"platform", "config"}
<1>1. ASSUME loc'[p].at \notin Places
      PROVE  FetchOK(p)'
  BY <1>1 DEF FetchOK, Fetches, LayerPlaces, At
<1>a. loc'[p].at \notin Tracked => loc'[p].at \notin Places
  BY DEF Tracked
<1>2. CASE Fetches(p) /\ loc'[p].at \in Tracked
  <2>1. LayerMoves(p)
    BY <1>2, LayerFlow
  <2>2. /\ loc[p].image \in DOMAIN LayersOf
        /\ loc[p].id = RemoteId(p) /\ loc[p].n \in Nat \ {0}
    BY <1>2 DEF FetchOK
  <2>3. /\ Layers(p)' = Layers(p) /\ RemoteId(p)' = RemoteId(p)
        /\ loc'[p].id = loc[p].id /\ loc'[p].image = loc[p].image
    BY <2>1 DEF LayerMoves, Layers, RemoteId, KeepsId
  <2>4. Len(Layers(p)) \in Nat /\ DOMAIN Layers(p) = 1 .. Len(Layers(p))
    BY <2>2, LayerTypes DEF Layers
  <2>5. CASE MakesDir(p)
    <3>1. loc[p].n \in DOMAIN Layers(p)
      BY <2>2, <2>4, <2>5 DEF MakesDir
    <3>2. QED
      BY <2>2, <2>3, <2>5, <3>1 DEF MakesDir, FetchOK, Fetches, At
  <2>6. CASE HasAll(p)
    BY <2>2, <2>3, <2>6 DEF HasAll, FetchOK, Fetches, At
  <2>7. CASE AsksAgain(p)
    BY <2>2, <2>3, <2>7 DEF AsksAgain, FetchOK, Fetches, At
  <2>8. CASE GetsBlob(p)
    <3>1. loc[p].n \in DOMAIN Layers(p)
      BY <2>8 DEF GetsBlob, FetchOK, At
    <3>2. Layer(p)' = Layer(p) /\ Layer(p) \in DOMAIN Tar
      BY <2>2, <2>3, <2>8, <3>1, LayerTypes DEF GetsBlob, Layer, Layers
    <3>3. 1 \in 1 .. Len(Tar[Layer(p)]) + 1
      BY <3>2, TarTypes
    <3>4. loc'[p].at = "extract"
      BY <2>8 DEF GetsBlob
    <3>5. loc'[p].e \in 1 .. Len(Tar[Layer(p)']) + 1 /\ (loc'[p].met \/ loc'[p].blob = "good")
      BY <2>8, <3>2, <3>3 DEF GetsBlob
    <3>6. loc'[p].n \in DOMAIN Layers(p)' /\ loc'[p].n \in Nat \ {0}
      BY <2>2, <2>3, <2>8, <3>1 DEF GetsBlob
    <3>7. QED
      BY <2>2, <2>3, <3>4, <3>5, <3>6 DEF FetchOK, Fetches, At
  <2>9. CASE Extracts(p)
    <3>1. /\ loc[p].n \in DOMAIN Layers(p) /\ loc[p].e \in 1 .. Len(Tar[Layer(p)]) + 1
          /\ loc[p].met \/ loc[p].blob = "good"
      BY <2>9 DEF Extracts, FetchOK, At
    <3>2. Layer(p)' = Layer(p) /\ Layer(p) \in DOMAIN Tar
      BY <2>2, <2>3, <2>9, <3>1, LayerTypes DEF Extracts, Layer, Layers
    <3>3. loc[p].e + 1 \in 1 .. Len(Tar[Layer(p)]) + 1
      BY <2>9, <3>1, <3>2, TarTypes DEF Extracts
    <3>4. loc'[p].at = "extract"
      BY <2>9 DEF Extracts
    <3>5. loc'[p].e \in 1 .. Len(Tar[Layer(p)']) + 1 /\ (loc'[p].met \/ loc'[p].blob = "good")
      BY <2>9, <3>1, <3>2, <3>3 DEF Extracts
    <3>6. loc'[p].n \in DOMAIN Layers(p)' /\ loc'[p].n \in Nat \ {0}
      BY <2>2, <2>3, <2>9, <3>1 DEF Extracts
    <3>7. QED
      BY <2>2, <2>3, <3>4, <3>5, <3>6 DEF FetchOK, Fetches, At
  <2>10. CASE Accepts(p)
    BY <2>2, <2>3, <2>10 DEF Accepts, FetchOK, Fetches, At
  <2>11. CASE SavesImage(p)
    BY <1>1, <2>11 DEF SavesImage, LayerPlaces
  <2>12. QED
    BY <2>1, <2>5, <2>6, <2>7, <2>8, <2>9, <2>10, <2>11 DEF LayerMoves
<1>3. CASE FetchManifest(p)
  <2>1. CASE FailMet(p)
    BY <1>0, <1>1, <1>a, <2>1, StopsUntracked
  <2>2. ASSUME NEW at \in {"platform", "config"}, NEW image \in DOMAIN LayersOf,
               loc' = [loc EXCEPT ![p].at = at, ![p].image = image, ![p].tries = 0]
        PROVE  FetchOK(p)'
    <3>1. loc'[p].at = at /\ loc'[p].image = image
      BY <1>0, <2>2 DEF ShapesOK, LocFields
    <3>2. QED
      BY <2>2, <3>1 DEF FetchOK, Fetches, LayerPlaces, At
  <2>3. QED
    BY <1>3, <2>1, <2>2, ManifestCases
<1>4. CASE FetchPlatform(p)
  <2>1. loc'[p].at = "config" /\ loc'[p].image = loc[p].image /\ At(p, "platform")
    BY <1>0, <1>4 DEF FetchPlatform, ShapesOK, LocFields
  <2>2. QED
    BY <2>1 DEF FetchOK, Fetches, LayerPlaces, At
<1>5. CASE FetchConfig(p)
  <2>1. CASE FailMet(p)
    BY <1>0, <1>1, <1>a, <2>1, StopsUntracked
  <2>2. ASSUME NEW at, NEW config, NEW names, NEW strict, GotConfig(p, at, config, names, strict)
        PROVE  FetchOK(p)'
    <3>1. /\ loc'[p].at = at /\ loc'[p].image = loc[p].image /\ loc'[p].n = 1
          /\ loc'[p].id = RemoteId(p) /\ at \in {"load", "layer"}
      BY <1>0, <2>2 DEF GotConfig, ShapesOK, LocFields
    <3>2. RemoteId(p)' = RemoteId(p)
      BY <3>1 DEF RemoteId
    <3>3. loc[p].image \in DOMAIN LayersOf
      BY <1>5 DEF FetchConfig, FetchOK, At
    <3>4. QED
      BY <3>1, <3>2, <3>3 DEF FetchOK, Fetches, LayerPlaces, At
  <2>3. QED
    BY <1>5, <2>1, <2>2, FetchConfigCases
<1>6. CASE FailedAttempt(p) /\ ~Fetches(p)
  <2>1. CASE FailMet(p)
    BY <1>0, <1>1, <1>a, <2>1, StopsUntracked
  <2>2. CASE loc' = [loc EXCEPT ![p].tries = @ + 1]
    <3>1. loc'[p].at = loc[p].at /\ loc'[p].image = loc[p].image
      BY <1>0, <2>2 DEF ShapesOK, LocFields
    <3>2. QED
      BY <1>6, <3>1 DEF FetchOK, Fetches, LayerPlaces, At
  <2>3. QED
    BY <1>6, <2>1, <2>2 DEF FailedAttempt
<1>7. CASE Killed(p)
  BY <1>0, <1>1, <1>a, <1>7, StopsUntracked
<1>8. CASE LoadIndex(p)
  <2>1. loc'[p].at \in {"truncate", "panicked", "failed", "build failed"}
    <3>1. \/ \E idx, names : loc' = [loc EXCEPT ![p].at = "truncate", ![p].idx = idx,
                                                ![p].names = names]
          \/ \E at \in {"panicked", "failed", "build failed"} :
               loc' = [loc EXCEPT ![p].at = at, ![p].met = TRUE]
      BY <1>8 DEF LoadIndex, Failed
    <3>2. ASSUME NEW idx, NEW names,
                 loc' = [loc EXCEPT ![p].at = "truncate", ![p].idx = idx, ![p].names = names]
          PROVE  loc'[p].at = "truncate"
      BY <1>0, <3>2 DEF ShapesOK, LocFields
    <3>3. ASSUME NEW at, loc' = [loc EXCEPT ![p].at = at, ![p].met = TRUE]
          PROVE  loc'[p].at = at
      BY <1>0, <3>3 DEF ShapesOK, LocFields
    <3>4. QED
      BY <3>1, <3>2, <3>3
  <2>2. QED
    BY <1>1, <2>1 DEF LayerPlaces
<1>9. CASE Truncate(p)
  BY <1>0, <1>1, <1>9 DEF Truncate, Goto, ShapesOK, LocFields, LayerPlaces
<1>10. CASE SaveIndex(p)
  <2>1. FailMet(p) \/ Goto(p, loc[p].next)
    BY <1>10 DEF SaveIndex
  <2>2. FailMet(p) \/ loc'[p].at \in {"pulled", "removing", "done", "clean", "kerneled",
                                      "kernel removing"}
    BY <1>0, <1>10, <2>1 DEF SaveIndex, At, Goto, ShapesOK, LocFields, Routed, Routes, Indexing
  <2>3. QED
    BY <1>0, <1>1, <1>a, <2>2, StopsUntracked DEF LayerPlaces
<1>11. CASE RmiResolve(p) \/ ReadArchive(p) \/ SaveKernel(p) \/ FindStored(p) \/ CommitSave(p)
  <2>1. Fail(p) \/ loc'[p].at = "load"
    <3>1. ASSUME NEW id, loc' = [loc EXCEPT ![p].at = "load", ![p].id = id,
                                            ![p].next = "removing"]
          PROVE  loc'[p].at = "load"
      BY <1>0, <3>1 DEF ShapesOK, LocFields
    <3>2. ASSUME NEW id, loc' = [loc EXCEPT ![p].at = "load", ![p].id = id,
                                            ![p].store = "kernel", ![p].next = "kernel removing"]
          PROVE  loc'[p].at = "load"
      BY <1>0, <3>2 DEF ShapesOK, LocFields
    <3>3. ASSUME NEW id, NEW names, loc' = [loc EXCEPT ![p].at = "load", ![p].id = id,
                            ![p].names = names, ![p].next = "done", ![p].strict = FALSE]
          PROVE  loc'[p].at = "load"
      BY <1>0, <3>3 DEF ShapesOK, LocFields
    <3>4. ASSUME NEW names, NEW store, NEW next,
                 loc' = [loc EXCEPT ![p].at = "load", ![p].store = store, ![p].names = names,
                                    ![p].next = next, ![p].strict = FALSE]
          PROVE  loc'[p].at = "load"
      BY <1>0, <3>4 DEF ShapesOK, LocFields
    <3>5. ASSUME NEW names, NEW store, NEW next,
                 loc' = [loc EXCEPT ![p].at = "load", ![p].store = store, ![p].strict = FALSE,
                                    ![p].names = names, ![p].next = next]
          PROVE  loc'[p].at = "load"
      BY <1>0, <3>5 DEF ShapesOK, LocFields
    <3>6. RmiResolve(p) => Fail(p) \/ loc'[p].at = "load"
      BY <3>1 DEF RmiResolve
    <3>7. FindStored(p) => Fail(p) \/ loc'[p].at = "load"
      BY <3>2 DEF FindStored
    <3>8. ReadArchive(p) => Fail(p) \/ loc'[p].at = "load"
      BY <3>3, ReadArchiveCases
    <3>9. ASSUME CommitSave(p)
          PROVE  loc'[p].at = "load"
      <4>1. PICK names : ImageNames(p, names, "clean", FALSE)
        BY <3>9 DEF CommitSave
      <4>2. QED
        BY <3>4, <4>1 DEF ImageNames
    <3>10. ASSUME SaveKernel(p)
           PROVE  loc'[p].at = "load"
      <4>1. PICK names :
              loc' = [loc EXCEPT ![p].at = "load", ![p].store = "kernel", ![p].strict = FALSE,
                                 ![p].names = names, ![p].next = "kerneled"]
        BY <3>10 DEF SaveKernel
      <4>2. QED
        BY <3>5, <4>1
    <3>11. QED
      BY <1>11, <3>6, <3>7, <3>8, <3>9, <3>10
  <2>2. QED
    BY <1>0, <1>1, <1>a, <2>1, StopsUntracked DEF LayerPlaces
<1>12. CASE RemoveAll(p) \/ CopyModule(p)
  <2>1. \/ loc' = loc /\ loc[p].at \in {"removing", "modules"}
        \/ Goto(p, "done")
    BY <1>12 DEF RemoveAll, CopyModule, At
  <2>2. loc'[p].at \in {"removing", "modules", "done"}
    BY <1>0, <2>1 DEF Goto, ShapesOK, LocFields
  <2>3. QED
    BY <1>1, <2>2 DEF LayerPlaces
<1>13. CASE CommitKernel(p) \/ CommitRootfs(p)
  <2>1. CommitKernel(p) => loc'[p].at = "commit rootfs"
    BY <1>0 DEF CommitKernel, ShapesOK, LocFields
  <2>2. CommitRootfs(p) => loc'[p].at = "commit save"
    BY <1>0 DEF CommitRootfs, Goto, ShapesOK, LocFields
  <2>3. QED
    BY <1>1, <1>13, <2>1, <2>2 DEF LayerPlaces
<1>14. CASE PullResolve(p)
  <2>1. loc'[p].at \in {"manifest", "pulled"}
    BY <1>0, <1>14 DEF PullResolve, ShapesOK, LocFields
  <2>2. QED
    BY <1>1, <2>1 DEF LayerPlaces
<1>15. CASE NextCommand(p)
  <2>1. loc'[p].at \notin Places
    BY <1>15, NextBegins, FirstPlaces DEF Begins, LayerPlaces
  <2>2. QED
    BY <1>1, <2>1
<1>16. CASE loc[p].at \notin Watched /\ ~NextCommand(p)
  BY <1>1, <1>a, <1>16, Arrivals
<1>17. CASE Fetches(p) /\ loc'[p].at \notin Tracked
  BY <1>1, <1>a, <1>17
<1>18. CASE ~Fetches(p) /\ loc[p].at \in Watched
  <2>1. ~NextLayer(p) /\ ~GetBlob(p) /\ ~ExtractEntry(p) /\ ~VerifyLayer(p) /\ ~SaveImage(p)
    BY <1>18 DEF Fetches, LayerPlaces, NextLayer, GetBlob, ExtractEntry, VerifyLayer, SaveImage,
       At
  <2>2. QED
    BY <1>3, <1>4, <1>5, <1>6, <1>7, <1>8, <1>9, <1>10, <1>11, <1>12, <1>13, <1>14, <1>18, <2>1,
       ByPlace
<1>19. QED
  BY <1>2, <1>15, <1>16, <1>17, <1>18

-----------------------------------------------------------------------------
(* How a process gets an image in hand, what it then does with it, and how *)
(* it comes to remove one.                                                 *)
Goes(p) == ~HasInHand(p)' /\ loc'[p].at # "rmi"
GoesToRmi(p) == NextCommand(p) /\ loc'[p].at = "rmi" /\ loc'[p].strict
KeepsStrict(p) == loc'[p].strict = loc[p].strict
FindsImage(p) ==
  /\ At(p, "config") /\ loc'[p].at = (IF Has(RemoteId(p)) THEN "load" ELSE "layer")
  /\ loc'[p].id = RemoteId(p) /\ loc'[p].image = loc[p].image /\ loc'[p].n = 1
  /\ loc'[p].store = "image" /\ loc'[p].next = "pulled" /\ images' = images /\ index' = index
ReadsNames(p) == LoadIndex(p) /\ Loads(p) /\ KeepsStrict(p)
TakesTurn(p) == Truncate(p) /\ Truncates(p) /\ KeepsStrict(p)
DropsNames(p) ==
  /\ SaveIndex(p) /\ Writes(p) /\ loc[p].next = "removing" /\ KeepsStrict(p)
  /\ index' = [index EXCEPT ![loc[p].store] = Change(p)]
Dismantles(p) == RemoveAll(p) /\ loc' = loc
ToRmi(p) ==
  /\ RmiResolve(p) /\ loc'[p].at = "load" /\ loc'[p].id # NoId
  /\ loc'[p].store = "image" /\ loc'[p].next = "removing" /\ KeepsStrict(p)
ReadsArchive(p) ==
  /\ ReadArchive(p) /\ loc'[p].at = "load" /\ loc'[p].id = NewId(p) /\ archive # <<>>
  /\ loc'[p].store = "image" /\ loc'[p].next = "done"
  /\ Put(NewId(p), [EmptyDir EXCEPT !.config = archive[1].config])
CommitsOn(p) ==
  \/ CommitKernel(p) /\ loc'[p].at = "commit rootfs" /\ loc'[p].id = NewId(p)
  \/ CommitRootfs(p) /\ loc'[p].at = "commit save" /\ loc'[p].id = loc[p].id
CommitsConfig(p) ==
  /\ CommitSave(p) /\ loc'[p].at = "load" /\ loc'[p].id = loc[p].id
  /\ loc'[p].store = "image" /\ loc'[p].next = "clean"

HandMoves(p) ==
  \/ Goes(p) \/ GoesToRmi(p) \/ FindsImage(p) \/ (Fetches(p) /\ LayerMoves(p))
  \/ ReadsNames(p) \/ TakesTurn(p) \/ DropsNames(p) \/ Dismantles(p)
  \/ ToRmi(p) \/ ReadsArchive(p) \/ CommitsOn(p) \/ CommitsConfig(p)

LEMMA HandPlaces ==
  ASSUME NEW p \in Proc
  PROVE  /\ HasInHand(p) => loc[p].at \in Tracked /\ Busy(p)
         /\ HasInHand(p)' => loc'[p].at \in Tracked /\ Busy(p)'
         /\ loc'[p].at \notin Tracked => Goes(p)
BY DEF HasInHand, Fetches, Names, Untags, InCommit, At, Tracked, LayerPlaces, Indexing, Busy,
   Ended, Goes

LEMMA HandFlow ==
  ASSUME NEW p \in Proc, Shapes, Control, Kinds, HandOK(p), Act(p)
  PROVE  HandMoves(p)
<1>0. ShapesOK /\ Routed(p)
  BY DEF Shapes, Control
<1>1. ASSUME loc'[p].at \notin Tracked
      PROVE  HandMoves(p)
  BY <1>1, HandPlaces DEF HandMoves
<1>2. CASE Fetches(p) /\ loc'[p].at \in Tracked
  BY <1>2, LayerFlow DEF HandMoves
<1>3. CASE PullResolve(p) \/ FetchManifest(p) \/ FetchPlatform(p)
  <2>1. PullResolve(p) => loc'[p].at \in {"manifest", "pulled"}
    BY <1>0 DEF PullResolve, ShapesOK, LocFields
  <2>2. FetchPlatform(p) => loc'[p].at = "config"
    BY <1>0 DEF FetchPlatform, ShapesOK, LocFields
  <2>3. ASSUME FetchManifest(p)
        PROVE  loc'[p].at \notin Tracked \/ loc'[p].at \in {"platform", "config"}
    <3>1. ASSUME NEW at, NEW image, loc' = [loc EXCEPT ![p].at = at, ![p].image = image,
                                                       ![p].tries = 0]
          PROVE  loc'[p].at = at
      BY <1>0, <3>1 DEF ShapesOK, LocFields
    <3>2. QED
      BY <1>0, <2>3, <3>1, ManifestCases, StopsUntracked
  <2>4. loc'[p].at \notin Tracked \/ loc'[p].at \in {"manifest", "pulled", "platform", "config"}
    BY <1>3, <2>1, <2>2, <2>3
  <2>5. QED
    BY <1>1, <2>4 DEF HandMoves, Goes, HasInHand, Fetches, Names, Untags, InCommit, At,
       LayerPlaces, Indexing
<1>4. CASE FetchConfig(p)
  <2>1. CASE FailMet(p)
    BY <1>0, <1>1, <2>1, StopsUntracked
  <2>2. ASSUME NEW at, NEW config, NEW names, NEW strict, GotConfig(p, at, config, names, strict)
        PROVE  HandMoves(p)
    <3>1. /\ loc'[p].at = at /\ loc'[p].image = loc[p].image /\ loc'[p].n = 1
          /\ loc'[p].id = RemoteId(p) /\ loc'[p].store = "image" /\ loc'[p].next = "pulled"
      BY <1>0, <2>2 DEF GotConfig, ShapesOK, LocFields
    <3>2. /\ at = IF Has(RemoteId(p)) THEN "load" ELSE "layer"
          /\ At(p, "config") /\ images' = images /\ index' = index
      BY <1>4, <2>2 DEF GotConfig, FetchConfig, files, stores
    <3>3. QED
      BY <3>1, <3>2 DEF HandMoves, FindsImage
  <2>3. QED
    BY <1>4, <2>1, <2>2, FetchConfigCases
<1>5. CASE FailedAttempt(p) /\ ~Fetches(p)
  <2>1. CASE FailMet(p)
    BY <1>0, <1>1, <2>1, StopsUntracked
  <2>2. CASE loc' = [loc EXCEPT ![p].tries = @ + 1]
    <3>1. loc'[p].at \in {"manifest", "platform", "config"}
      BY <1>0, <1>5, <2>2 DEF FailedAttempt, Requests, Fetches, LayerPlaces, ShapesOK, LocFields
    <3>2. QED
      BY <3>1 DEF HandMoves, Goes, HasInHand, Fetches, Names, Untags, InCommit, At,
         LayerPlaces, Indexing
  <2>3. QED
    BY <1>5, <2>1, <2>2 DEF FailedAttempt
<1>6. CASE LoadIndex(p)
  <2> DEFINE idx == index[loc[p].store]
             names == IF loc[p].next \in {"removing", "kernel removing"}
                        THEN {n \in DOMAIN idx : idx[n] = loc[p].id} ELSE loc[p].names
             at == IF loc[p].strict THEN Failed(p) ELSE "panicked"
  <2>1. \/ loc' = [loc EXCEPT ![p].at = "truncate", ![p].idx = idx, ![p].names = names]
        \/ loc' = [loc EXCEPT ![p].at = at, ![p].met = TRUE]
    BY <1>0, <1>6 DEF LoadIndex, ShapesOK, LocFields
  <2>2. loc[p].at = "load" /\ at \notin Tracked
    BY <1>6 DEF LoadIndex, At, Failed, Tracked, LayerPlaces
  <2> HIDE DEF idx, names, at
  <2>3. CASE loc' = [loc EXCEPT ![p].at = at, ![p].met = TRUE]
    <3>1. loc'[p].at = at
      BY <1>0, <2>3 DEF ShapesOK, LocFields
    <3>2. QED
      BY <1>1, <2>2, <3>1
  <2>4. CASE loc' = [loc EXCEPT ![p].at = "truncate", ![p].idx = idx, ![p].names = names]
    <3>1. /\ loc'[p].at = "truncate" /\ KeepsRoute(p) /\ KeepsId(p) /\ KeepsStrict(p)
          /\ loc'[p].idx = idx /\ loc'[p].names = names
      BY <1>0, <2>4 DEF KeepsRoute, KeepsId, KeepsStrict, ShapesOK, LocFields
    <3>2. Loads(p)
      BY <2>2, <3>1 DEF Loads, idx, names
    <3>3. QED
      BY <1>6, <3>1, <3>2 DEF HandMoves, ReadsNames
  <2>5. QED
    BY <2>1, <2>3, <2>4
<1>7. CASE Truncate(p)
  BY <1>0, <1>7 DEF Truncate, Truncates, Goto, At, KeepsRoute, KeepsId, KeepsIndex, KeepsStrict,
     ShapesOK, LocFields, HandMoves, TakesTurn
<1>8. CASE SaveIndex(p)
  <2>1. CASE Goto(p, loc[p].next) /\ loc[p].next = "removing"
    <3>1. Writes(p) /\ KeepsStrict(p)
      BY <1>0, <1>8, <2>1 DEF SaveIndex, Writes, Goto, At, KeepsRoute, KeepsId, KeepsIndex,
         KeepsStrict, ShapesOK, LocFields
    <3>2. loc[p].strict
      BY <1>8, <2>1 DEF HandOK, Untags, Indexing, SaveIndex, At
    <3>3. ~FailMet(p)
      <4>1. loc'[p].at = "removing"
        BY <2>1, <3>1 DEF Writes
      <4>2. QED
        BY <1>0, <4>1, StopsUntracked DEF Tracked
    <3>4. index' = [index EXCEPT ![loc[p].store] = Change(p)]
      BY <1>8, <2>1, <3>2, <3>3 DEF SaveIndex
    <3>5. QED
      BY <1>8, <2>1, <3>1, <3>4 DEF HandMoves, DropsNames
  <2>2. CASE Goto(p, loc[p].next) /\ loc[p].next # "removing"
    <3>1. loc'[p].at \in {"pulled", "done", "clean", "kerneled", "kernel removing"}
      BY <1>0, <1>8, <2>2 DEF SaveIndex, At, Goto, ShapesOK, LocFields, Routed, Routes, Indexing
    <3>2. QED
      BY <1>1, <3>1 DEF Tracked, LayerPlaces
  <2>3. CASE FailMet(p)
    BY <1>0, <1>1, <2>3, StopsUntracked
  <2>4. FailMet(p) \/ Goto(p, loc[p].next)
    BY <1>8 DEF SaveIndex
  <2>5. QED
    BY <2>1, <2>2, <2>3, <2>4
<1>9. CASE RmiResolve(p)
  <2>1. CASE Fail(p)
    BY <1>0, <1>1, <2>1, StopsUntracked
  <2>2. CASE ~Fail(p)
    <3>1. PICK id : /\ id # NoId
                    /\ loc' = [loc EXCEPT ![p].at = "load", ![p].id = id, ![p].next = "removing"]
      BY <1>9, <2>2 DEF RmiResolve
    <3>2. /\ loc'[p].at = "load" /\ loc'[p].id = id /\ loc'[p].next = "removing"
          /\ loc'[p].store = loc[p].store /\ KeepsStrict(p)
      BY <1>0, <3>1 DEF ShapesOK, LocFields, KeepsStrict
    <3>3. loc[p].store = "image"
      BY <1>0, <1>9 DEF RmiResolve, At, Routed
    <3>4. QED
      BY <1>9, <3>1, <3>2, <3>3 DEF HandMoves, ToRmi
  <2>3. QED
    BY <2>1, <2>2
<1>10. CASE RemoveAll(p)
  <2>1. loc' = loc \/ Goto(p, "done")
    BY <1>10 DEF RemoveAll
  <2>2. Goto(p, "done") => loc'[p].at = "done"
    BY <1>0 DEF Goto, ShapesOK, LocFields
  <2>3. QED
    BY <1>1, <1>10, <2>1, <2>2 DEF HandMoves, Dismantles, Tracked, LayerPlaces
<1>11. CASE ReadArchive(p)
  <2>1. CASE Fail(p)
    BY <1>0, <1>1, <2>1, StopsUntracked
  <2>2. ASSUME NEW names,
               loc' = [loc EXCEPT ![p].at = "load", ![p].id = NewId(p), ![p].names = names,
                                  ![p].next = "done", ![p].strict = FALSE]
        PROVE  /\ loc'[p].at = "load" /\ loc'[p].id = NewId(p) /\ loc'[p].next = "done"
               /\ loc'[p].store = loc[p].store
    BY <1>0, <2>2 DEF ShapesOK, LocFields
  <2>3. loc[p].store = "image"
    BY <1>0, <1>11 DEF ReadArchive, At, Routed
  <2>4. QED
    BY <1>11, <2>1, <2>2, <2>3, ReadArchiveCases DEF HandMoves, ReadsArchive
<1>12. CASE CommitKernel(p)
  <2>1. loc'[p].at = "commit rootfs" /\ loc'[p].id = NewId(p)
    BY <1>0, <1>12 DEF CommitKernel, ShapesOK, LocFields
  <2>2. QED
    BY <1>12, <2>1 DEF HandMoves, CommitsOn
<1>13. CASE CommitRootfs(p)
  <2>1. loc'[p].at = "commit save" /\ loc'[p].id = loc[p].id
    BY <1>0, <1>13 DEF CommitRootfs, Goto, ShapesOK, LocFields
  <2>2. QED
    BY <1>13, <2>1 DEF HandMoves, CommitsOn
<1>14. CASE CommitSave(p)
  <2>1. PICK names : ImageNames(p, names, "clean", FALSE)
    BY <1>14 DEF CommitSave
  <2>2. /\ loc'[p].at = "load" /\ loc'[p].id = loc[p].id
        /\ loc'[p].store = "image" /\ loc'[p].next = "clean"
    BY <1>0, <2>1 DEF ImageNames, ShapesOK, LocFields
  <2>3. QED
    BY <1>14, <2>2 DEF HandMoves, CommitsConfig
<1>15. CASE SaveKernel(p) \/ FindStored(p)
  <2>1. ASSUME NEW names,
               loc' = [loc EXCEPT ![p].at = "load", ![p].store = "kernel", ![p].strict = FALSE,
                                  ![p].names = names, ![p].next = "kerneled"]
        PROVE  loc'[p].at = "load" /\ loc'[p].store = "kernel" /\ loc'[p].next # "removing"
    BY <1>0, <2>1 DEF ShapesOK, LocFields
  <2>2. ASSUME NEW id, loc' = [loc EXCEPT ![p].at = "load", ![p].id = id,
                                          ![p].store = "kernel", ![p].next = "kernel removing"]
        PROVE  loc'[p].at = "load" /\ loc'[p].store = "kernel" /\ loc'[p].next # "removing"
    BY <1>0, <2>2 DEF ShapesOK, LocFields
  <2>3. CASE Fail(p)
    BY <1>0, <1>1, <2>3, StopsUntracked
  <2>4. FindStored(p) => Fail(p) \/ \E id :
          loc' = [loc EXCEPT ![p].at = "load", ![p].id = id, ![p].store = "kernel",
                             ![p].next = "kernel removing"]
    BY DEF FindStored
  <2>5. SaveKernel(p) => \E names :
          loc' = [loc EXCEPT ![p].at = "load", ![p].store = "kernel", ![p].strict = FALSE,
                             ![p].names = names, ![p].next = "kerneled"]
    BY DEF SaveKernel
  <2>6. \/ Fail(p)
        \/ loc'[p].at = "load" /\ loc'[p].store = "kernel" /\ loc'[p].next # "removing"
    BY <1>15, <2>1, <2>2, <2>4, <2>5
  <2>7. QED
    BY <2>3, <2>6 DEF HandMoves, Goes, HasInHand, Fetches, Names, Untags, InCommit, At,
       LayerPlaces, Indexing
<1>16. CASE CopyModule(p)
  <2>1. loc'[p].at = "modules"
    BY <1>16 DEF CopyModule, At
  <2>2. QED
    BY <1>1, <2>1 DEF Tracked, LayerPlaces
<1>17. CASE NextCommand(p)
  <2>1. loc'[p].at \in {"resolve", "rmi", "save image", "load image", "parse", "kernel",
                        "kernel rm"}
    BY <1>17, NextBegins, FirstPlaces DEF Begins
  <2>2. loc'[p].strict
    <3>1. loc' = [loc EXCEPT ![p] = Local(todo[p][2])]
      BY <1>17 DEF NextCommand
    <3>2. loc'[p] = Local(todo[p][2])
      BY <1>0, <3>1 DEF ShapesOK
    <3>3. QED
      <4>1. Local(todo[p][2]).strict = TRUE
        BY DEF Local
      <4>2. QED
        BY <3>2, <4>1
  <2>3. QED
    BY <1>1, <1>17, <2>1, <2>2 DEF HandMoves, GoesToRmi, Tracked, LayerPlaces
<1>18. CASE Killed(p)
  BY <1>0, <1>1, <1>18, StopsUntracked
<1>19. CASE loc[p].at \notin Watched /\ ~NextCommand(p)
  BY <1>1, <1>19, Arrivals DEF Shapes
<1>20. CASE loc[p].at \in Watched /\ ~Fetches(p)
  <2>1. ~NextLayer(p) /\ ~GetBlob(p) /\ ~ExtractEntry(p) /\ ~VerifyLayer(p) /\ ~SaveImage(p)
    BY <1>20 DEF Fetches, LayerPlaces, NextLayer, GetBlob, ExtractEntry, VerifyLayer, SaveImage,
       At
  <2>2. QED
    BY <1>3, <1>4, <1>5, <1>6, <1>7, <1>8, <1>9, <1>10, <1>11, <1>12, <1>13, <1>14, <1>15,
       <1>16, <1>18, <1>20, <2>1, ByPlace
<1>21. QED
  BY <1>1, <1>2, <1>17, <1>19, <1>20

LEMMA HandKept ==
  ASSUME NEW p \in Proc, Shapes, Control, Kinds, HandOK(p), Act(p)
  PROVE  HandOK(p)'
<1>0. HandMoves(p)
  BY HandFlow
<1>1. CASE Goes(p)
  BY <1>1 DEF Goes, HandOK, HasInHand, InCommit, Untags, At
<1>2. CASE GoesToRmi(p)
  BY <1>2 DEF GoesToRmi, HandOK, HasInHand, Fetches, Names, Untags, InCommit, LayerPlaces, At,
     Indexing
<1>3. CASE FindsImage(p)
  <2>1. RemoteId(p)[1] # NoId[1]
    BY DEF RemoteId, NoId
  <2>2. loc'[p].id # NoId
    BY <1>3, <2>1 DEF FindsImage
  <2>3. loc'[p].at \in {"load", "layer"} /\ loc'[p].next = "pulled"
    BY <1>3 DEF FindsImage
  <2>4. QED
    BY <2>2, <2>3 DEF HandOK, HasInHand, InCommit, Untags, At, Indexing
<1>4. CASE Fetches(p) /\ LayerMoves(p)
  <2>1. loc[p].id # NoId /\ loc[p].next = "pulled"
    BY <1>4 DEF HandOK, HasInHand, Control, Routed, Fetches, LayerPlaces
  <2>2. loc'[p].id = loc[p].id /\ loc'[p].next = loc[p].next
    BY <1>4 DEF LayerMoves, KeepsId, KeepsRoute
  <2>3. loc'[p].at \in LayerPlaces \cup {"load"}
    BY <1>4 DEF LayerMoves, MakesDir, HasAll, AsksAgain, GetsBlob, Extracts, Accepts, SavesImage,
       LayerPlaces
  <2>4. QED
    BY <2>1, <2>2, <2>3 DEF HandOK, HasInHand, InCommit, Untags, At, Indexing, LayerPlaces
<1>5. CASE ReadsNames(p)
  <2>1. /\ loc[p].at = "load" /\ loc'[p].at = "truncate" /\ loc'[p].store = loc[p].store
        /\ loc'[p].next = loc[p].next /\ loc'[p].id = loc[p].id
        /\ loc'[p].strict = loc[p].strict
        /\ loc[p].next = "removing" =>
             loc'[p].names = {n \in DOMAIN loc'[p].idx : loc'[p].idx[n] = loc[p].id}
    BY <1>5 DEF ReadsNames, Loads, KeepsRoute, KeepsId, KeepsStrict
  <2>2. Untags(p)' => Untags(p)
    BY <2>1 DEF Untags, Indexing
  <2>3. HasInHand(p)' => HasInHand(p)
    BY <2>1, <2>2 DEF HasInHand, Fetches, Names, InCommit, LayerPlaces, At, Indexing
  <2>4. QED
    BY <2>1, <2>2, <2>3 DEF HandOK, InCommit, At, Untags
<1>6. CASE TakesTurn(p)
  <2>1. /\ loc[p].at = "truncate" /\ loc'[p].at = "write" /\ loc'[p].store = loc[p].store
        /\ loc'[p].next = loc[p].next /\ loc'[p].id = loc[p].id
        /\ loc'[p].strict = loc[p].strict
        /\ loc'[p].names = loc[p].names /\ loc'[p].idx = loc[p].idx
    BY <1>6 DEF TakesTurn, Truncates, KeepsRoute, KeepsId, KeepsStrict, KeepsIndex
  <2>2. Untags(p)' => Untags(p)
    BY <2>1 DEF Untags, Indexing
  <2>3. HasInHand(p)' => HasInHand(p)
    BY <2>1, <2>2 DEF HasInHand, Fetches, Names, InCommit, LayerPlaces, At, Indexing
  <2>4. QED
    BY <2>1, <2>2, <2>3 DEF HandOK, InCommit, At
<1>7. CASE DropsNames(p)
  <2>1. loc'[p].at = "removing" /\ loc'[p].id = loc[p].id /\ Untags(p)
    BY <1>7 DEF DropsNames, Writes, KeepsId, Untags, Indexing
  <2>2. QED
    BY <2>1 DEF HandOK, HasInHand, InCommit, Untags, At, Indexing
<1>8. CASE Dismantles(p)
  <2>1. loc'[p] = loc[p] /\ loc[p].at = "removing"
    BY <1>8 DEF Dismantles, RemoveAll, At
  <2>2. QED
    BY <2>1 DEF HandOK, HasInHand, InCommit, Untags, At, Indexing
<1>9. CASE ToRmi(p)
  <2>1. loc[p].strict /\ loc'[p].strict = loc[p].strict
    BY <1>9 DEF ToRmi, KeepsStrict, HandOK, RmiResolve
  <2>2. loc'[p].strict
    BY <2>1
  <2>3. QED
    BY <1>9, <2>2 DEF ToRmi, HandOK, HasInHand, InCommit, Untags, At
<1>10. CASE ReadsArchive(p)
  <2>1. NewId(p)[1] # NoId[1]
    BY <1>10 DEF ReadsArchive, ReadArchive, NewId, NoId, Kinds, OfKind, At
  <2>2. loc'[p].id # NoId
    BY <1>10, <2>1 DEF ReadsArchive
  <2>3. QED
    BY <1>10, <2>2 DEF ReadsArchive, HandOK, HasInHand, InCommit, Untags, At
<1>11. CASE CommitsOn(p)
  <2>1. NewId(p)[1] # NoId[1]
    BY <1>11 DEF CommitsOn, CommitKernel, CommitRootfs, NewId, NoId, Kinds, OfKind, BuildPlaces,
       At
  <2>2. loc'[p].id = NewId(p)
    BY <1>11 DEF CommitsOn, CommitRootfs, HandOK, InCommit, At
  <2>3. NewId(p)' = NewId(p)
    BY <1>11 DEF CommitsOn, CommitKernel, CommitRootfs, NewId, Cmd
  <2>4. loc'[p].at \in {"commit rootfs", "commit save"} /\ loc'[p].id # NoId
    BY <1>11, <2>1, <2>2 DEF CommitsOn
  <2>5. QED
    BY <2>2, <2>3, <2>4 DEF HandOK, HasInHand, InCommit, Untags, At, Indexing
<1>12. CASE CommitsConfig(p)
  <2>1. loc[p].id # NoId
    BY <1>12 DEF CommitsConfig, CommitSave, HandOK, HasInHand, InCommit, At
  <2>2. QED
    BY <1>12, <2>1 DEF CommitsConfig, HandOK, HasInHand, InCommit, Untags, At
<1>13. QED
  BY <1>0, <1>1, <1>2, <1>3, <1>4, <1>5, <1>6, <1>7, <1>8, <1>9, <1>10, <1>11, <1>12
     DEF HandMoves

-----------------------------------------------------------------------------
(* What a step leaves of the directories of images.                        *)
LEMMA PutDir ==
  ASSUME NEW id, NEW dir, Put(id, dir)
  PROVE  \A x : Dir(x)' = IF x = id THEN dir ELSE Dir(x)
BY DEF Put, With, Dir

LEMMA RestrictDir ==
  ASSUME NEW id, images' = Restrict(images, DOMAIN images \ {id})
  PROVE  \A x : Dir(x)' = IF x = id THEN EmptyDir ELSE Dir(x)
BY DEF Restrict, Dir

LEMMA SameDir ==
  ASSUME images' = images
  PROVE  \A x : Dir(x)' = Dir(x)
BY DEF Dir

LEMMA HasConfig ==
  ASSUME NEW id
  PROVE  /\ Has(id) <=> Dir(id).config # NoConfig
         /\ Dir(id).layers # <<>> => id \in DOMAIN images
BY DEF Has, Dir, EmptyDir

LEMMA DirFlow ==
  ASSUME NEW p \in Proc, Shapes, Kinds, HandOK(p), Act(p), NEW id
  PROVE  \/ Dir(id)' = Dir(id)
         \/ id = loc[p].id /\ (Fetches(p) \/ At(p, "removing") \/ InCommit(p))
         \/ id = NewId(p) /\ (ReadArchive(p) \/ CommitKernel(p))
<1>1. CASE UNCHANGED <<images, archive>> \/ WriteArchive(p)
  BY <1>1, SameDir DEF WriteArchive
<1>2. CASE NextLayer(p)
  BY <1>2, SameDir, PutDir DEF NextLayer, PutLayer, Fetches, LayerPlaces, At
<1>3. CASE ExtractEntry(p)
  BY <1>3, SameDir, PutDir DEF ExtractEntry, PutLayer, Fetches, LayerPlaces, At
<1>4. CASE Killed(p)
  BY <1>4, SameDir, PutDir DEF Killed, PutLayer, Fetches, LayerPlaces, At
<1>5. CASE SaveImage(p)
  BY <1>5, PutDir DEF SaveImage, Fetches, LayerPlaces, At
<1>6. CASE RemoveAll(p)
  BY <1>6, PutDir, RestrictDir DEF RemoveAll
<1>7. CASE ReadArchive(p)
  BY <1>7, PutDir, SameDir, ReadArchiveCases
<1>8. CASE CommitKernel(p)
  BY <1>8, PutDir DEF CommitKernel
<1>9. CASE CommitRootfs(p)
  BY <1>9, PutDir, SameDir DEF CommitRootfs, InCommit, At, HandOK
<1>10. CASE CommitSave(p)
  BY <1>10, PutDir DEF CommitSave, InCommit, At, HandOK
<1>11. QED
  BY <1>1, <1>2, <1>3, <1>4, <1>5, <1>6, <1>7, <1>8, <1>9, <1>10, ImageEffects

LEMMA PutLayerDir ==
  ASSUME ImagesOK, NEW p, NEW id, id = loc[p].id, NEW content, PutLayer(p, content)
  PROVE  /\ Dir(id)'.config = Dir(id).config
         /\ Dir(id)'.layers = With(Dir(id).layers, Layer(p), content)
<1> DEFINE dir == [Dir(id) EXCEPT !.layers = With(@, Layer(p), content)]
<1>1. Dir(id)' = dir
  <2>1. Put(id, dir)
    BY DEF PutLayer
  <2> HIDE DEF dir
  <2>2. QED
    BY <2>1, PutDir
<1>2. DOMAIN Dir(id) = {"config", "layers", "kernel"}
  BY DirIsOK DEF DirOK
<1>3. dir.config = Dir(id).config /\ dir.layers = With(Dir(id).layers, Layer(p), content)
  BY <1>2
<1> HIDE DEF dir
<1>4. QED
  BY <1>1, <1>3

LEMMA PutConfigDir ==
  ASSUME ImagesOK, NEW id, NEW config, Put(id, [Dir(id) EXCEPT !.config = config])
  PROVE  Dir(id)'.config = config /\ Dir(id)'.layers = Dir(id).layers
<1>1. \A x : Dir(x)' = IF x = id THEN [Dir(id) EXCEPT !.config = config] ELSE Dir(x)
  BY PutDir
<1>2. DOMAIN Dir(id) = {"config", "layers", "kernel"}
  BY DirIsOK DEF DirOK
<1>3. QED
  BY <1>1, <1>2

-----------------------------------------------------------------------------
(* Every directory of a layer holds pieces of its archive only.            *)
LEMMA PiecesOfDirs ==
  Pieces <=> \A id : IsRemote(id) =>
               \A l \in DOMAIN Dir(id).layers : PiecesOf(l, Dir(id).layers[l])
<1>1. \A id \in DOMAIN images : Dir(id) = images[id]
  BY DEF Dir
<1>2. \A id : id \notin DOMAIN images => DOMAIN Dir(id).layers = {}
  BY DEF Dir, EmptyDir
<1>3. QED
  BY <1>1, <1>2 DEF Pieces

LEMMA NoPieces ==
  ASSUME NEW l
  PROVE  PiecesOf(l, <<>>)
BY DEF PiecesOf

LEMMA MergePieces ==
  ASSUME NEW l, NEW new, NEW old, PiecesOf(l, new), PiecesOf(l, old)
  PROVE  PiecesOf(l, Merge(new, old))
BY DEF PiecesOf, Merge

LEMMA EntryPieces ==
  ASSUME NEW l \in DOMAIN Tar, NEW e \in DOMAIN Tar[l], NEW data
  PROVE  PiecesOf(l, Just(Tar[l][e].path, [Tar[l][e] EXCEPT !.data = data]))
<1> DEFINE entry == [Tar[l][e] EXCEPT !.data = data]
<1>1. entry.kind = Tar[l][e].kind
  BY TarTypes
<1>2. Piece(l, Tar[l][e].path, entry.kind)
  BY <1>1 DEF Piece
<1> HIDE DEF entry
<1>3. PiecesOf(l, Just(Tar[l][e].path, entry))
  BY <1>2 DEF PiecesOf, Just
<1>4. QED
  BY <1>3 DEF entry

LEMMA RestrictPieces ==
  ASSUME NEW l, NEW content, NEW S, PiecesOf(l, content), S \subseteq DOMAIN content
  PROVE  PiecesOf(l, Restrict(content, S))
BY DEF PiecesOf, Restrict

LEMMA ContentPieces ==
  ASSUME NEW p, Pieces, IsRemote(loc[p].id)
  PROVE  PiecesOf(Layer(p), Content(p))
BY PiecesOfDirs, NoPieces DEF Content

LEMMA PutPieces ==
  ASSUME ImagesOK, NEW p, NEW id, id = loc[p].id, NEW content, PutLayer(p, content),
         PiecesOf(Layer(p), content), Pieces, IsRemote(id)
  PROVE  \A l \in DOMAIN Dir(id)'.layers : PiecesOf(l, Dir(id)'.layers[l])
<1>1. Dir(id)'.layers = With(Dir(id).layers, Layer(p), content)
  BY PutLayerDir
<1>2. \A l \in DOMAIN Dir(id).layers : PiecesOf(l, Dir(id).layers[l])
  BY PiecesOfDirs
<1>3. QED
  BY <1>1, <1>2 DEF With

(* What is being unpacked.                                                 *)
LEMMA Current ==
  ASSUME NEW p \in Proc, FetchOK(p), loc[p].at \in {"blob", "extract"}
  PROVE  /\ IsRemote(loc[p].id) /\ Layer(p) \in DOMAIN Tar
         /\ At(p, "extract") /\ loc[p].e <= Len(Tar[Layer(p)]) => loc[p].e \in DOMAIN Tar[Layer(p)]
<1>1. /\ loc[p].image \in DOMAIN LayersOf /\ loc[p].n \in DOMAIN LayersOf[loc[p].image]
      /\ loc[p].id = RemoteId(p)
      /\ At(p, "extract") => loc[p].e \in 1 .. Len(Tar[Layer(p)]) + 1
  BY DEF FetchOK, Fetches, LayerPlaces, Layers, At
<1>2. Layer(p) \in DOMAIN Tar
  BY <1>1, LayerTypes DEF Layer, Layers
<1>3. QED
  BY <1>1, <1>2, TarTypes DEF IsRemote, RemoteId

LEMMA NewIsNoRemote ==
  ASSUME NEW p \in Proc, Kinds, InCommit(p) \/ ReadArchive(p) \/ CommitKernel(p)
  PROVE  ~IsRemote(NewId(p)) /\ NewId(p) # NoId
<1>1. Cmd(p).kind \in {"build", "load"}
  BY DEF InCommit, ReadArchive, CommitKernel, At, Kinds, OfKind, BuildPlaces
<1>2. NewId(p)[1] = Cmd(p).kind /\ NoId[1] = "none"
  BY DEF NewId, NoId
<1>3. QED
  BY <1>1, <1>2 DEF IsRemote

LEMMA PiecesKept ==
  ASSUME NEW p \in Proc, Shapes, Kinds, ImagesOK, HandOK(p), FetchOK(p), Pieces, Act(p)
  PROVE  Pieces'
<1>0. ASSUME NEW id, IsRemote(id)
      PROVE  \A l \in DOMAIN Dir(id).layers : PiecesOf(l, Dir(id).layers[l])
  BY <1>0, PiecesOfDirs
<1> DEFINE Kept_(id) == \A l \in DOMAIN Dir(id)'.layers : PiecesOf(l, Dir(id)'.layers[l])
<1> SUFFICES ASSUME NEW id, IsRemote(id)
             PROVE  Kept_(id)
  <2>1. \A id : IsRemote(id) => \A l \in DOMAIN Dir(id)'.layers : PiecesOf(l, Dir(id)'.layers[l])
    OBVIOUS
  <2>2. (\A id : IsRemote(id) =>
           \A l \in DOMAIN Dir(id).layers : PiecesOf(l, Dir(id).layers[l]))'
    BY <2>1 DEF PiecesOf, Piece, IsRemote
  <2>3. QED
    BY <2>2, PiecesOfDirs, PTL
<1>1. CASE Dir(id)' = Dir(id)
  BY <1>0, <1>1
<1>2. CASE NextLayer(p) /\ id = loc[p].id
  BY <1>0, <1>2, ContentPieces, PutPieces, SameDir DEF NextLayer
<1>3. CASE ExtractEntry(p) /\ id = loc[p].id
  <2>1. CASE images' = images
    BY <1>0, <2>1, SameDir
  <2>2. CASE ~(images' = images)
    <3>1. PICK data :
            PutLayer(p, Merge(Just(Entry(p).path, [Entry(p) EXCEPT !.data = data]), Content(p)))
      BY <1>3, <2>2 DEF ExtractEntry, Entry
    <3>2. Layer(p) \in DOMAIN Tar /\ loc[p].e \in DOMAIN Tar[Layer(p)]
      BY <1>3, Current DEF ExtractEntry, At
    <3>3. PiecesOf(Layer(p), Just(Entry(p).path, [Entry(p) EXCEPT !.data = data]))
      BY <3>2, EntryPieces DEF Entry
    <3>4. QED
      BY <1>3, <3>1, <3>3, ContentPieces, MergePieces, PutPieces
  <2>3. QED
    BY <2>1, <2>2
<1>4. CASE Killed(p) /\ id = loc[p].id
  <2>1. CASE images' = images
    BY <1>0, <2>1, SameDir
  <2>2. CASE ~(images' = images)
    <3>1. PICK S \in SUBSET DOMAIN Content(p) : PutLayer(p, Restrict(Content(p), S))
      BY <1>4, <2>2 DEF Killed
    <3>2. PiecesOf(Layer(p), Restrict(Content(p), S))
      BY <1>4, ContentPieces, RestrictPieces
    <3>3. QED
      BY <1>4, <3>1, <3>2, PutPieces
  <2>3. QED
    BY <2>1, <2>2
<1>5. CASE SaveImage(p) /\ id = loc[p].id
  BY <1>0, <1>5, PutConfigDir DEF SaveImage
<1>6. CASE RemoveAll(p) /\ id = loc[p].id
  <2>1. CASE Put(id, [Dir(id) EXCEPT !.config = NoConfig])
    BY <1>0, <2>1, PutConfigDir
  <2>2. ASSUME NEW l \in DOMAIN Dir(id).layers,
               Put(id, [Dir(id) EXCEPT !.layers = Restrict(@, DOMAIN @ \ {l})])
        PROVE  Kept_(id)
    <3>1. Dir(id)' = [Dir(id) EXCEPT !.layers = Restrict(@, DOMAIN @ \ {l})]
      BY <2>2, PutDir
    <3>2. DOMAIN Dir(id) = {"config", "layers", "kernel"}
      BY DirIsOK DEF DirOK
    <3>3. Dir(id)'.layers = Restrict(Dir(id).layers, DOMAIN Dir(id).layers \ {l})
      BY <3>1, <3>2
    <3>4. QED
      BY <1>0, <3>3 DEF Restrict
  <2>3. CASE images' = Restrict(images, DOMAIN images \ {id})
    <3>1. Dir(id)' = EmptyDir
      BY <2>3, RestrictDir
    <3>2. QED
      BY <3>1 DEF EmptyDir
  <2>4. QED
    BY <1>6, <2>1, <2>2, <2>3 DEF RemoveAll
<1>7. id = loc[p].id /\ InCommit(p) => ~IsRemote(id)
  BY NewIsNoRemote DEF HandOK
<1>8. id = NewId(p) /\ (ReadArchive(p) \/ CommitKernel(p)) => ~IsRemote(id)
  BY NewIsNoRemote
<1>9. CASE id = loc[p].id /\ (Fetches(p) \/ At(p, "removing"))
  <2>1. ~ReadArchive(p) /\ ~CommitKernel(p) /\ ~CommitRootfs(p) /\ ~CommitSave(p)
        /\ ~WriteArchive(p)
    BY <1>9 DEF Fetches, LayerPlaces, At, ReadArchive, CommitKernel, CommitRootfs, CommitSave,
       WriteArchive
  <2>2. UNCHANGED <<images, archive>> => Dir(id)' = Dir(id)
    BY SameDir
  <2>3. QED
    BY <1>1, <1>2, <1>3, <1>4, <1>5, <1>6, <1>9, <2>1, <2>2, ImageEffects
<1>10. QED
  BY <1>1, <1>7, <1>8, <1>9, DirFlow

-----------------------------------------------------------------------------
(* Where the layers, the names and the removal of an image come from.      *)
LEMMA FetchesFlow ==
  ASSUME NEW p \in Proc, HandMoves(p), Fetches(p)'
  PROVE  \/ FindsImage(p) /\ ~Has(RemoteId(p)) /\ loc'[p].at = "layer"
         \/ Fetches(p) /\ LayerMoves(p) /\ ~SavesImage(p)
<1>1. ~Goes(p) /\ loc'[p].at \in LayerPlaces
  BY DEF Goes, HasInHand, Fetches
<1>2. ~GoesToRmi(p) /\ ~ToRmi(p) /\ ~ReadsArchive(p) /\ ~CommitsOn(p) /\ ~CommitsConfig(p)
  BY <1>1 DEF GoesToRmi, ToRmi, ReadsArchive, CommitsOn, CommitsConfig, LayerPlaces
<1>3. ~ReadsNames(p) /\ ~TakesTurn(p) /\ ~DropsNames(p)
  BY <1>1 DEF ReadsNames, Loads, TakesTurn, Truncates, DropsNames, Writes, LayerPlaces
<1>4. ~Dismantles(p) /\ ~SavesImage(p)
  BY <1>1 DEF Dismantles, RemoveAll, SavesImage, LayerPlaces, At
<1>5. FindsImage(p) => ~Has(RemoteId(p)) /\ loc'[p].at = "layer"
  BY <1>1 DEF FindsImage, LayerPlaces
<1>6. QED
  BY <1>2, <1>3, <1>4, <1>5, <1>1 DEF HandMoves

LEMMA NamesFlow ==
  ASSUME NEW p \in Proc, HandMoves(p), Names(p)'
  PROVE  \/ FindsImage(p) /\ Has(RemoteId(p))
         \/ Fetches(p) /\ LayerMoves(p) /\ SavesImage(p)
         \/ Names(p) /\ loc'[p].id = loc[p].id /\ images' = images
         \/ ReadsArchive(p) \/ CommitsConfig(p)
<1>1. ~Goes(p) /\ loc'[p].at \in {"load", "truncate", "write"} /\ loc'[p].next # "removing"
      /\ loc'[p].store = "image"
  BY DEF Goes, HasInHand, Names, Indexing
<1>2. ~GoesToRmi(p) /\ ~ToRmi(p) /\ ~CommitsOn(p)
  BY <1>1 DEF GoesToRmi, ToRmi, CommitsOn
<1>3. ~DropsNames(p) /\ ~Dismantles(p)
  BY <1>1 DEF DropsNames, Writes, Dismantles, RemoveAll, At
<1>4. ReadsNames(p) => Names(p) /\ loc'[p].id = loc[p].id /\ images' = images
  BY <1>1 DEF ReadsNames, LoadIndex, Loads, KeepsRoute, KeepsId, files, Names, Indexing
<1>5. TakesTurn(p) => Names(p) /\ loc'[p].id = loc[p].id /\ images' = images
  BY <1>1 DEF TakesTurn, Truncate, Truncates, KeepsRoute, KeepsId, files, Names, Indexing
<1>6. LayerMoves(p) => SavesImage(p)
  BY <1>1 DEF LayerMoves, MakesDir, HasAll, AsksAgain, GetsBlob, Extracts, Accepts
<1>7. FindsImage(p) => Has(RemoteId(p))
  BY <1>1 DEF FindsImage
<1>8. QED
  BY <1>1, <1>2, <1>3, <1>4, <1>5, <1>6, <1>7 DEF HandMoves

LEMMA RemovingFlow ==
  ASSUME NEW p \in Proc, HandMoves(p), At(p, "removing")'
  PROVE  DropsNames(p) \/ Dismantles(p)
<1>1. ~Goes(p) /\ loc'[p].at = "removing"
  BY DEF Goes, HasInHand, At
<1>2. ~GoesToRmi(p) /\ ~ToRmi(p) /\ ~ReadsArchive(p) /\ ~CommitsOn(p) /\ ~CommitsConfig(p)
  BY <1>1 DEF GoesToRmi, ToRmi, ReadsArchive, CommitsOn, CommitsConfig
<1>3. ~ReadsNames(p) /\ ~TakesTurn(p) /\ ~FindsImage(p)
  BY <1>1 DEF ReadsNames, Loads, TakesTurn, Truncates, FindsImage
<1>4. ~LayerMoves(p)
  BY <1>1 DEF LayerMoves, MakesDir, HasAll, AsksAgain, GetsBlob, Extracts, Accepts, SavesImage
<1>5. QED
  BY <1>1, <1>2, <1>3, <1>4 DEF HandMoves

(* What the fetching of layers does to the directory.                      *)
LEMMA LayerDir ==
  ASSUME NEW p \in Proc, ImagesOK, LayerMoves(p), NEW id, id = loc[p].id
  PROVE  /\ ~SavesImage(p) => Dir(id)'.config = Dir(id).config
         /\ HasAll(p) \/ AsksAgain(p) \/ GetsBlob(p) \/ Accepts(p) => Dir(id)' = Dir(id)
         /\ MakesDir(p) => Dir(id)'.layers = With(Dir(id).layers, Layer(p), Content(p))
         /\ Extracts(p) => \E data :
              /\ loc[p].blob = "good" => data = Entry(p).data
              /\ Dir(id)'.layers =
                   With(Dir(id).layers, Layer(p),
                        Merge(Just(Entry(p).path, [Entry(p) EXCEPT !.data = data]), Content(p)))
         /\ SavesImage(p) => Dir(id)'.config # NoConfig /\ Dir(id)'.layers = Dir(id).layers
<1>1. HasAll(p) \/ AsksAgain(p) \/ GetsBlob(p) \/ Accepts(p) => Dir(id)' = Dir(id)
  BY SameDir DEF HasAll, AsksAgain, GetsBlob, Accepts
<1>2. MakesDir(p) => /\ Dir(id)'.config = Dir(id).config
                     /\ Dir(id)'.layers = With(Dir(id).layers, Layer(p), Content(p))
  BY PutLayerDir DEF MakesDir
<1>3. ASSUME Extracts(p)
      PROVE  /\ Dir(id)'.config = Dir(id).config
             /\ \E data :
                  /\ loc[p].blob = "good" => data = Entry(p).data
                  /\ Dir(id)'.layers =
                       With(Dir(id).layers, Layer(p),
                            Merge(Just(Entry(p).path, [Entry(p) EXCEPT !.data = data]),
                                  Content(p)))
  <2>1. PICK data :
          /\ loc[p].blob = "good" => data = Entry(p).data
          /\ PutLayer(p, Merge(Just(Entry(p).path, [Entry(p) EXCEPT !.data = data]), Content(p)))
    BY <1>3 DEF Extracts
  <2>2. PICK content :
          content = Merge(Just(Entry(p).path, [Entry(p) EXCEPT !.data = data]), Content(p))
    OBVIOUS
  <2>3. /\ Dir(id)'.config = Dir(id).config
        /\ Dir(id)'.layers = With(Dir(id).layers, Layer(p), content)
    BY <2>1, <2>2, PutLayerDir
  <2>4. QED
    BY <2>1, <2>2, <2>3
<1>4. ASSUME SavesImage(p)
      PROVE  Dir(id)'.config # NoConfig /\ Dir(id)'.layers = Dir(id).layers
  <2>1. PICK config : config # NoConfig /\ Put(id, [Dir(id) EXCEPT !.config = config])
    BY <1>4 DEF SavesImage
  <2>2. QED
    BY <2>1, PutConfigDir
<1>5. QED
  BY <1>1, <1>2, <1>3, <1>4 DEF LayerMoves

LEMMA UnreadKept ==
  ASSUME NEW p \in Proc, ImagesOK, HandMoves(p), Unread(p), disturbed \subseteq disturbed'
  PROVE  Unread(p)'
<1> SUFFICES ASSUME Fetches(p)', Kept(loc[p].id)'
             PROVE  (Dir(loc[p].id).config = NoConfig)'
  BY DEF Unread
<1>1. PICK id : id = loc'[p].id
  OBVIOUS
<1>2. Kept(id)
  BY <1>1 DEF Kept
<1>3. CASE FindsImage(p) /\ ~Has(RemoteId(p))
  <2>1. Dir(id)' = Dir(id) /\ id = RemoteId(p)
    BY <1>1, <1>3, SameDir DEF FindsImage
  <2>2. Dir(id)'.config = NoConfig
    BY <1>3, <2>1, HasConfig
  <2>3. QED
    BY <1>1, <2>2
<1>4. CASE Fetches(p) /\ LayerMoves(p) /\ ~SavesImage(p)
  <2>1. id = loc[p].id
    BY <1>1, <1>4 DEF LayerMoves, KeepsId
  <2>2. Dir(id)'.config = NoConfig
    BY <1>2, <1>4, <2>1, LayerDir DEF Unread
  <2>3. QED
    BY <1>1, <2>2
<1>5. QED
  BY <1>3, <1>4, FetchesFlow

(* A layer that was unpacked to the end is what its digest says.           *)
LEMMA LayerDone ==
  ASSUME NEW p \in Proc, FetchOK(p), Unpacking(p), Pieces, Accepts(p), Kept(loc[p].id)
  PROVE  HasLayer(Dir(loc[p].id), Layer(p))
<1>1. /\ loc[p].at = "extract" /\ loc[p].blob = "good" /\ loc[p].e > Len(Tar[Layer(p)])
      /\ loc[p].e \in 1 .. Len(Tar[Layer(p)]) + 1
  BY DEF Accepts, FetchOK, At
<1>2. IsRemote(loc[p].id) /\ Layer(p) \in DOMAIN Tar
  BY <1>1, Current
<1>3. /\ Len(Tar[Layer(p)]) \in Nat /\ DOMAIN Tar[Layer(p)] = 1 .. Len(Tar[Layer(p)])
  BY <1>2, TarTypes
<1>4. loc[p].e = Len(Tar[Layer(p)]) + 1
  BY <1>1, <1>3
<1>5. Layer(p) \in DOMAIN Dir(loc[p].id).layers
  BY <1>1 DEF Unpacking
<1>6. \A j \in 1 .. loc[p].e - 1 :
        LastOf(Layer(p), loc[p].e, j) =>
          /\ Tar[Layer(p)][j].path \in DOMAIN Content(p)
          /\ Content(p)[Tar[Layer(p)][j].path] = Tar[Layer(p)][j]
  BY <1>1 DEF Unpacking, At
<1>7. 1 .. loc[p].e - 1 = DOMAIN Tar[Layer(p)]
  BY <1>3, <1>4
<1>8. \A j \in DOMAIN Tar[Layer(p)] :
        (\A k \in DOMAIN Tar[Layer(p)] : Tar[Layer(p)][k].path = Tar[Layer(p)][j].path => k <= j)
        => /\ Tar[Layer(p)][j].path \in DOMAIN Content(p)
           /\ Content(p)[Tar[Layer(p)][j].path] = Tar[Layer(p)][j]
  BY <1>6, <1>7 DEF LastOf
<1>9. Content(p) = LayerContent(Layer(p))
  <2>1. PiecesOf(Layer(p), Content(p))
    BY <1>2, ContentPieces
  <2>2. QED
    BY <1>2, <1>8, <2>1, LayerIsContent
<1>10. QED
  BY <1>5, <1>9 DEF HasLayer, Content

LEMMA FetchedKept ==
  ASSUME NEW p \in Proc, ImagesOK, FetchOK(p), HandMoves(p), Fetched(p), Unpacking(p), Pieces,
         disturbed \subseteq disturbed'
  PROVE  Fetched(p)'
<1> SUFFICES ASSUME Fetches(p)', Kept(loc[p].id)', NEW i, (i \in DOMAIN Layers(p))',
                    i < loc'[p].n, ~(At(p, "extract") /\ Layers(p)[i] = Layer(p))'
             PROVE  HasLayer(Dir(loc[p].id), Layers(p)[i])'
  BY DEF Fetched
<1>1. PICK id : id = loc'[p].id
  OBVIOUS
<1>2. Kept(id)
  BY <1>1 DEF Kept
<1>3. CASE FindsImage(p) /\ ~Has(RemoteId(p))
  <2>1. loc'[p].n = 1 /\ loc'[p].image \in DOMAIN LayersOf
    BY <1>3 DEF FindsImage, FetchOK, At
  <2>2. i \in 1 .. Len(LayersOf[loc'[p].image]) /\ Len(LayersOf[loc'[p].image]) \in Nat
    BY <2>1, LayerTypes DEF Layers
  <2>3. QED
    BY <2>1, <2>2
<1>4. CASE Fetches(p) /\ LayerMoves(p) /\ ~SavesImage(p)
  <2>1. id = loc[p].id /\ loc'[p].image = loc[p].image
    BY <1>1, <1>4 DEF LayerMoves, KeepsId
  <2>2. loc[p].image \in DOMAIN LayersOf /\ loc[p].n \in Nat \ {0}
    BY <1>4 DEF FetchOK
  <2>3. PICK l : l = Layers(p)[i] /\ l = Layers(p)'[i]
    BY <2>1 DEF Layers
  <2>4. i \in DOMAIN Layers(p) /\ i \in Nat
    BY <2>1, <2>2, LayerTypes DEF Layers
  <2>5. i < loc[p].n /\ ~(At(p, "extract") /\ l = Layer(p)) => HasLayer(Dir(id), l)
    BY <1>2, <1>4, <2>1, <2>3, <2>4 DEF Fetched
  <2>6. SUFFICES HasLayer(Dir(id)', l)
    BY <1>1, <2>3 DEF HasLayer, LayerContent
  <2>7. CASE HasAll(p) \/ AsksAgain(p)
    <3>1. Dir(id)' = Dir(id) /\ i < loc[p].n /\ ~At(p, "extract")
      BY <1>4, <2>1, <2>7, LayerDir DEF HasAll, AsksAgain, At
    <3>2. QED
      BY <2>5, <3>1
  <2>8. CASE GetsBlob(p)
    <3>1. Dir(id)' = Dir(id) /\ i < loc[p].n /\ ~At(p, "extract")
      BY <1>4, <2>1, <2>8, LayerDir DEF GetsBlob, At
    <3>2. QED
      BY <2>5, <3>1
  <2>9. CASE MakesDir(p)
    <3>1. Dir(id)'.layers = With(Dir(id).layers, Layer(p), Content(p)) /\ i < loc[p].n
          /\ ~At(p, "extract")
      BY <1>4, <2>1, <2>9, LayerDir DEF MakesDir, At
    <3>2. HasLayer(Dir(id), l)
      BY <2>5, <3>1
    <3>3. l = Layer(p) => Content(p) = Dir(id).layers[l]
      BY <2>1, <3>2 DEF Content, HasLayer
    <3>4. QED
      BY <3>1, <3>2, <3>3 DEF With, HasLayer
  <2>10. CASE Extracts(p)
    <3>1. PICK content : Dir(id)'.layers = With(Dir(id).layers, Layer(p), content)
      BY <1>4, <2>1, <2>10, LayerDir
    <3>2. Layer(p)' = Layer(p) /\ loc'[p].n = loc[p].n /\ loc'[p].at = "extract"
      BY <2>1, <2>10 DEF Extracts, Layer, Layers
    <3>3. l # Layer(p)
      BY <2>3, <3>2 DEF At
    <3>4. HasLayer(Dir(id), l)
      BY <2>5, <3>2, <3>3
    <3>5. QED
      BY <3>1, <3>3, <3>4 DEF With, HasLayer
  <2>11. CASE Accepts(p)
    <3>1. Dir(id)' = Dir(id) /\ loc'[p].n = loc[p].n + 1
      BY <1>4, <2>1, <2>11, LayerDir DEF Accepts
    <3>2. CASE l = Layer(p)
      <4>1. HasLayer(Dir(loc[p].id), Layer(p))
        BY <1>2, <2>1, <2>11, LayerDone
      <4>2. QED
        BY <2>1, <3>1, <3>2, <4>1
    <3>3. CASE l # Layer(p)
      <4>1. i # loc[p].n
        BY <2>3, <3>3 DEF Layer
      <4>2. i < loc[p].n
        BY <2>2, <2>4, <3>1, <4>1
      <4>3. QED
        BY <2>5, <3>1, <3>3, <4>2
    <3>4. QED
      BY <3>2, <3>3
  <2>12. QED
    BY <1>4, <2>7, <2>8, <2>9, <2>10, <2>11 DEF LayerMoves
<1>5. QED
  BY <1>3, <1>4, FetchesFlow

(* An entry that is written is there; no later one has made a link of its  *)
(* path.                                                                   *)
LEMMA EntryWritten ==
  ASSUME LinksOnce, NEW l \in DOMAIN Tar, NEW e \in DOMAIN Tar[l], NEW old, PiecesOf(l, old),
         NEW data, data = Tar[l][e].data,
         Tar[l][e].kind = "link" => Tar[l][e].path \notin DOMAIN old,
         \A j \in 1 .. e - 1 : LastOf(l, e, j) =>
           Tar[l][j].path \in DOMAIN old /\ old[Tar[l][j].path] = Tar[l][j],
         NEW content, content = Merge(Just(Tar[l][e].path, [Tar[l][e] EXCEPT !.data = data]), old),
         NEW j \in 1 .. e, LastOf(l, e + 1, j)
  PROVE  Tar[l][j].path \in DOMAIN content /\ content[Tar[l][j].path] = Tar[l][j]
<1> DEFINE f == Tar[l][e].path
<1>1. e \in Nat /\ e >= 1
  BY TarTypes
<1>2. [Tar[l][e] EXCEPT !.data = data] = Tar[l][e]
  BY TarTypes
<1>3. content = Merge(Just(f, Tar[l][e]), old)
  BY <1>2
<1>4. CASE j = e
  <2>1. f \in DOMAIN old => "link" \notin {Tar[l][e].kind, old[f].kind}
    <3>1. SUFFICES ASSUME f \in DOMAIN old, old[f].kind = "link"
                   PROVE  FALSE
      OBVIOUS
    <3>2. PICK i \in DOMAIN Tar[l] : Tar[l][i].path = f /\ Tar[l][i].kind = "link"
      BY <3>1 DEF PiecesOf, Piece
    <3>3. i = e
      BY <3>2 DEF LinksOnce
    <3>4. QED
      BY <3>1, <3>2, <3>3
  <2>2. f \in DOMAIN content /\ content[f] = Tar[l][e]
    BY <1>3, <2>1 DEF Merge, Just
  <2>3. QED
    BY <1>4, <2>2
<1>5. CASE j # e
  <2>1. j \in 1 .. e - 1
    BY <1>1, <1>5
  <2>2. \A k \in 1 .. e : Tar[l][k].path = Tar[l][j].path => k <= j
    BY <1>1 DEF LastOf
  <2>3. LastOf(l, e, j)
    BY <1>1, <2>1, <2>2 DEF LastOf
  <2>4. Tar[l][j].path # f
    BY <1>1, <2>1, <2>2
  <2>5. Tar[l][j].path \in DOMAIN old /\ old[Tar[l][j].path] = Tar[l][j]
    BY <2>1, <2>3
  <2>6. QED
    BY <1>3, <2>4, <2>5 DEF Merge, Just
<1>6. QED
  BY <1>4, <1>5

LEMMA UnpackingKept ==
  ASSUME LinksOnce, NEW p \in Proc, ImagesOK, FetchOK(p), HandMoves(p), Unpacking(p), Pieces,
         disturbed \subseteq disturbed'
  PROVE  Unpacking(p)'
<1> SUFFICES ASSUME loc'[p].at \in {"blob", "extract"}, Kept(loc[p].id)'
             PROVE  /\ (Layer(p) \in DOMAIN Dir(loc[p].id).layers)'
                    /\ At(p, "extract")' /\ loc'[p].blob = "good" =>
                         \A j \in 1 .. loc'[p].e - 1 :
                           LastOf(Layer(p), loc[p].e, j)' =>
                             (/\ Tar[Layer(p)][j].path \in DOMAIN Content(p)
                              /\ Content(p)[Tar[Layer(p)][j].path] = Tar[Layer(p)][j])'
  BY DEF Unpacking
<1>1. PICK id : id = loc'[p].id
  OBVIOUS
<1>2. Kept(id)
  BY <1>1 DEF Kept
<1>3. Fetches(p)'
  BY DEF Fetches, LayerPlaces
<1>4. /\ Fetches(p) /\ LayerMoves(p) /\ ~SavesImage(p)
      /\ id = loc[p].id /\ loc'[p].image = loc[p].image
  <2>1. Fetches(p) /\ LayerMoves(p) /\ ~SavesImage(p)
    BY <1>3, FetchesFlow
  <2>2. QED
    BY <1>1, <2>1 DEF LayerMoves, KeepsId
<1>5. CASE MakesDir(p)
  <2>1. Dir(id)'.layers = With(Dir(id).layers, Layer(p), Content(p))
    BY <1>4, <1>5, LayerDir
  <2>2. Layer(p)' = Layer(p) /\ loc'[p].at = "blob"
    BY <1>4, <1>5 DEF MakesDir, Layer, Layers
  <2>3. QED
    BY <1>1, <2>1, <2>2 DEF With, At
<1>6. CASE AsksAgain(p)
  <2>1. Dir(id)' = Dir(id)
    BY <1>4, <1>6, LayerDir
  <2>2. Layer(p)' = Layer(p) /\ loc'[p].at = "blob" /\ loc[p].at = "blob"
    BY <1>4, <1>6 DEF AsksAgain, Layer, Layers, At
  <2>3. QED
    BY <1>1, <1>2, <1>4, <2>1, <2>2 DEF Unpacking, At
<1>7. CASE GetsBlob(p)
  <2>1. Dir(id)' = Dir(id)
    BY <1>4, <1>7, LayerDir
  <2>2. Layer(p)' = Layer(p) /\ loc'[p].e = 1 /\ loc[p].at = "blob"
    BY <1>4, <1>7 DEF GetsBlob, Layer, Layers, At
  <2>3. Layer(p) \in DOMAIN Dir(id).layers
    BY <1>2, <1>4, <2>2 DEF Unpacking
  <2>4. (Layer(p) \in DOMAIN Dir(loc[p].id).layers)'
    BY <1>1, <2>1, <2>2, <2>3
  <2>5. 1 .. loc'[p].e - 1 = {}
    BY <2>2
  <2>6. QED
    BY <2>4, <2>5
<1>8. CASE Extracts(p)
  <2>1. /\ loc[p].at = "extract" /\ loc[p].e <= Len(Tar[Layer(p)]) /\ loc'[p].e = loc[p].e + 1
        /\ loc'[p].blob = loc[p].blob /\ Layer(p)' = Layer(p)
        /\ Entry(p).kind = "link" => Entry(p).path \notin DOMAIN Content(p)
    BY <1>4, <1>8 DEF Extracts, Layer, Layers, At
  <2>2. /\ IsRemote(loc[p].id) /\ Layer(p) \in DOMAIN Tar
        /\ loc[p].e \in DOMAIN Tar[Layer(p)]
    BY <2>1, Current DEF At
  <2>3. PICK data :
          /\ loc[p].blob = "good" => data = Entry(p).data
          /\ Dir(id)'.layers =
               With(Dir(id).layers, Layer(p),
                    Merge(Just(Entry(p).path, [Entry(p) EXCEPT !.data = data]), Content(p)))
    BY <1>4, <1>8, LayerDir
  <2>4. PICK content :
          content = Merge(Just(Entry(p).path, [Entry(p) EXCEPT !.data = data]), Content(p))
    OBVIOUS
  <2>5. PICK l : l = Layer(p)
    OBVIOUS
  <2>6. Dir(id)'.layers = With(Dir(id).layers, l, content)
    BY <2>3, <2>4, <2>5
  <2>7. (Layer(p) \in DOMAIN Dir(loc[p].id).layers)' /\ Content(p)' = content
    BY <1>1, <2>1, <2>5, <2>6 DEF With, Content
  <2>8. ASSUME loc[p].blob = "good", NEW j \in 1 .. loc[p].e, LastOf(l, loc[p].e + 1, j)
        PROVE  Tar[l][j].path \in DOMAIN content /\ content[Tar[l][j].path] = Tar[l][j]
    <3>1. PICK e : e = loc[p].e
      OBVIOUS
    <3>2. PICK old : old = Content(p)
      OBVIOUS
    <3>3. PiecesOf(l, old)
      BY <2>2, <2>5, <3>2, ContentPieces
    <3>4. \A k \in 1 .. e - 1 : LastOf(l, e, k) =>
            Tar[l][k].path \in DOMAIN old /\ old[Tar[l][k].path] = Tar[l][k]
      BY <1>2, <1>4, <2>1, <2>5, <2>8, <3>1, <3>2 DEF Unpacking, At
    <3>5. /\ content = Merge(Just(Tar[l][e].path, [Tar[l][e] EXCEPT !.data = data]), old)
          /\ data = Tar[l][e].data /\ l \in DOMAIN Tar /\ e \in DOMAIN Tar[l]
          /\ Tar[l][e].kind = "link" => Tar[l][e].path \notin DOMAIN old
      BY <2>1, <2>2, <2>3, <2>4, <2>5, <2>8, <3>1, <3>2 DEF Entry
    <3>6. j \in 1 .. e /\ LastOf(l, e + 1, j)
      BY <2>8, <3>1
    <3>7. QED
      BY <3>3, <3>4, <3>5, <3>6, EntryWritten
  <2>9. loc[p].e \in Nat
    BY <2>2, TarTypes
  <2>10. 1 .. loc'[p].e - 1 = 1 .. loc[p].e
    BY <2>1, <2>9
  <2>11. QED
    BY <2>1, <2>5, <2>7, <2>8, <2>10 DEF LastOf
<1>9. ~HasAll(p) /\ ~Accepts(p)
  BY DEF HasAll, Accepts
<1>10. QED
  BY <1>4, <1>5, <1>6, <1>7, <1>8, <1>9 DEF LayerMoves

-----------------------------------------------------------------------------
(* Nobody else is at an image that is not disturbed.                       *)
LEMMA Remembered ==
  ASSUME Remember
  PROVE  /\ disturbed \subseteq disturbed' /\ Apart'
         /\ \A q \in Proc : At(q, "removing") /\ At(q, "killed")' => loc[q].id \in disturbed'
BY DEF Remember, Apart

LEMMA NobodyElse ==
  ASSUME Apart, NEW p \in Proc, NEW q \in Proc \ {p}, Busy(p), Busy(q),
         loc[p].id = loc[q].id, loc[p].id # NoId
  PROVE  ~Kept(loc[p].id)
<1>1. loc[p].id \in Together
  BY DEF Together
<1>2. QED
  BY <1>1 DEF Apart, Kept

LEMMA NobodyElseThen ==
  ASSUME Apart', NEW p \in Proc, NEW q \in Proc \ {p}, Busy(p)', Busy(q)',
         loc'[p].id = loc'[q].id, loc'[p].id # NoId
  PROVE  loc'[p].id \in disturbed'
<1>1. (loc[p].id \in Together)'
  BY DEF Together, NoId
<1>2. QED
  BY <1>1 DEF Apart

LEMMA BusyDir ==
  ASSUME NEW p \in Proc, NEW q \in Proc \ {p}, Shapes, Kinds, Control, Apart, Alone(p),
         HandOK(p), Act(p), Remember, Busy(q),
         NEW id, id = loc[q].id, id # NoId, id \notin disturbed'
  PROVE  Dir(id)' = Dir(id)
<1>0. /\ id # NoId /\ Busy(q) /\ loc'[q] = loc[q] /\ Busy(q)' /\ Kept(id)
  <2>1. disturbed \subseteq disturbed'
    BY Remembered
  <2>2. loc'[q] = loc[q]
    BY DEF Alone
  <2>3. QED
    BY <2>1, <2>2 DEF Busy, Kept
<1>1. CASE id = loc[p].id /\ (Fetches(p) \/ At(p, "removing") \/ InCommit(p))
  <2>1. Busy(p)
    BY <1>1 DEF Fetches, LayerPlaces, At, InCommit, Busy, Ended
  <2>2. QED
    BY <1>0, <1>1, <2>1, NobodyElse
<1>2. CASE id = NewId(p) /\ (ReadArchive(p) \/ CommitKernel(p))
  <2>1. ShapesOK
    BY DEF Shapes
  <2>2. CASE images' = images
    BY <2>2, SameDir
  <2>3. CASE ~(images' = images)
    <3>1. CASE ReadArchive(p)
      <4>1. PICK names :
              loc' = [loc EXCEPT ![p].at = "load", ![p].id = NewId(p), ![p].names = names,
                                 ![p].next = "done", ![p].strict = FALSE]
        BY <2>3, <3>1, ReadArchiveCases
      <4>2. loc'[p].at = "load" /\ loc'[p].id = NewId(p)
        BY <2>1, <4>1 DEF ShapesOK, LocFields
      <4>3. QED
        BY <1>0, <1>2, <4>2, NobodyElseThen, Remembered DEF Busy, Ended
    <3>2. CASE CommitKernel(p)
      <4>1. loc'[p].at = "commit rootfs" /\ loc'[p].id = NewId(p)
        BY <2>1, <3>2 DEF CommitKernel, ShapesOK, LocFields
      <4>2. QED
        BY <1>0, <1>2, <4>1, NobodyElseThen, Remembered DEF Busy, Ended
    <3>3. QED
      BY <1>2, <3>1, <3>2
  <2>4. QED
    BY <2>2, <2>3
<1>3. QED
  BY <1>1, <1>2, DirFlow

LEMMA OthersDir ==
  ASSUME NEW p \in Proc, NEW q \in Proc \ {p}, Shapes, Kinds, Control, Apart, Alone(p),
         HandOK(p), HandOK(q), Act(p), Remember, HasInHand(q),
         NEW id, id = loc[q].id, id \notin disturbed'
  PROVE  Dir(id)' = Dir(id)
<1>1. Busy(q) /\ id # NoId
  BY HandPlaces DEF HandOK
<1>2. QED
  BY <1>1, BusyDir

LEMMA OthersImages ==
  ASSUME NEW p \in Proc, NEW q \in Proc \ {p}, Shapes, Kinds, Control, Apart, Alone(p),
         HandOK(p), HandOK(q), Act(p), Remember,
         Unread(q), Nameable(q), Fetched(q), Unpacking(q)
  PROVE  (Unread(q) /\ Nameable(q) /\ Fetched(q) /\ Unpacking(q))'
<1>1. PICK id : id = loc[q].id
  OBVIOUS
<1>2. loc'[q] = loc[q] /\ (Kept(id)' => Kept(id))
  BY Remembered DEF Alone, Kept
<1>3. /\ Fetches(q)' <=> Fetches(q)
      /\ Names(q)' <=> Names(q)
      /\ Layers(q)' = Layers(q) /\ Layer(q)' = Layer(q)
  BY <1>2 DEF Fetches, Names, Indexing, Layers, Layer
<1>4. HasInHand(q) /\ Kept(id)' => Dir(id)' = Dir(id)
  BY <1>1, OthersDir DEF Kept
<1>5. Fetches(q) \/ Names(q) => HasInHand(q)
  BY DEF HasInHand
<1>6. Unread(q)'
  BY <1>1, <1>2, <1>3, <1>4, <1>5 DEF Unread
<1>7. Nameable(q)'
  <2>1. SUFFICES ASSUME Names(q)', Kept(id)'
                 PROVE  Whole(id)'
    BY <1>1, <1>2 DEF Nameable
  <2>2. Whole(id) /\ Dir(id)' = Dir(id)
    BY <1>1, <1>2, <1>3, <1>4, <1>5, <2>1 DEF Nameable
  <2>3. QED
    BY <2>2 DEF Whole, WholeDir, HasLayer, LayerContent, IsRemote
<1>8. Fetched(q)'
  <2>1. SUFFICES ASSUME Fetches(q)', Kept(loc[q].id)', NEW i, (i \in DOMAIN Layers(q))',
                        i < loc'[q].n, ~(At(q, "extract") /\ Layers(q)[i] = Layer(q))'
                 PROVE  HasLayer(Dir(loc[q].id), Layers(q)[i])'
    BY DEF Fetched
  <2>2. PICK l : l = Layers(q)[i] /\ l = Layers(q)'[i]
    BY <1>3
  <2>3. Dir(id)' = Dir(id) /\ Kept(id)
    BY <1>1, <1>2, <1>3, <1>4, <1>5, <2>1
  <2>4. HasLayer(Dir(id), l)
    BY <1>1, <1>2, <1>3, <2>1, <2>2, <2>3 DEF Fetched, At
  <2>5. HasLayer(Dir(id)', l)
    BY <2>3, <2>4
  <2>6. QED
    BY <1>1, <1>2, <2>2, <2>5 DEF HasLayer, LayerContent
<1>9. Unpacking(q)'
  <2>1. SUFFICES ASSUME loc[q].at \in {"blob", "extract"}, Kept(id)'
                 PROVE  Unpacking(q)'
    BY <1>1, <1>2 DEF Unpacking
  <2>2. Dir(id)' = Dir(id) /\ Kept(id)
    BY <1>2, <1>4, <1>5, <2>1 DEF Fetches, LayerPlaces
  <2>3. Content(q)' = Content(q)
    BY <1>1, <1>2, <1>3, <2>2 DEF Content
  <2>4. QED
    BY <1>1, <1>2, <1>3, <2>1, <2>2, <2>3 DEF Unpacking, At, LastOf
<1>10. QED
  BY <1>6, <1>7, <1>8, <1>9

LEMMA OthersUnnamed ==
  ASSUME NEW p \in Proc, NEW q \in Proc \ {p}, Shapes, Kinds, Control, Apart, Alone(p),
         HandOK(q), Act(p), Remember, Unnamed(q)
  PROVE  Unnamed(q)'
<1> SUFFICES ASSUME At(q, "removing")', Kept(loc[q].id)', ~lost',
                    loc'[q].id \in Range(index'["image"])
             PROVE  FALSE
  BY DEF Unnamed
<1>1. PICK id : id = loc[q].id
  OBVIOUS
<1>2. /\ loc'[q] = loc[q] /\ Kept(id) /\ At(q, "removing")
      /\ id \in Range(index'["image"]) /\ id # NoId
  <2>1. loc'[q] = loc[q]
    BY DEF Alone
  <2>2. At(q, "removing")
    BY <2>1 DEF At
  <2>3. QED
    BY <1>1, <2>1, <2>2, Remembered DEF Kept, HandOK, HasInHand
<1>3. ~lost
  BY IndexFlow
<1>4. id \notin Range(index["image"])
  BY <1>1, <1>2, <1>3 DEF Unnamed
<1>5. index' # index
  BY <1>2, <1>4
<1>6. /\ SaveIndex(p) /\ index' = [index EXCEPT ![loc[p].store] = Change(p)]
      /\ index[loc[p].store] = loc[p].idx
  BY <1>5, IndexFlow
<1>7. loc[p].store = "image" /\ index'["image"] = Change(p)
  <2>1. DOMAIN index = {"image", "kernel"}
    BY DEF Shapes, ShapesOK
  <2>2. QED
    BY <1>2, <1>4, <1>6, <2>1
<1>8. id = loc[p].id
  BY <1>2, <1>4, <1>6, <1>7, ChangedIds
<1>9. Busy(p) /\ Busy(q)
  BY <1>2, <1>6 DEF SaveIndex, At, Busy, Ended
<1>10. QED
  BY <1>1, <1>2, <1>8, <1>9, NobodyElse

-----------------------------------------------------------------------------
(* An image that pull saves has all its layers.                            *)
LEMMA SavedWhole ==
  ASSUME NEW p \in Proc, ImagesOK, FetchOK(p), Fetched(p), Fetches(p), LayerMoves(p),
         SavesImage(p), NEW id, id = loc[p].id, Kept(id)
  PROVE  WholeDir(id, Dir(id)')
<1>1. /\ Dir(id)'.config # NoConfig /\ Dir(id)'.layers = Dir(id).layers
  BY LayerDir
<1>2. /\ loc[p].at = "save" /\ loc[p].n > Len(Layers(p)) /\ loc[p].n \in Nat
      /\ loc[p].image \in DOMAIN LayersOf /\ id = RemoteId(p)
  BY DEF SavesImage, FetchOK, At
<1>3. id[2] = loc[p].image
  BY <1>2 DEF RemoteId
<1>4. Len(Layers(p)) \in Nat /\ DOMAIN Layers(p) = 1 .. Len(Layers(p))
  BY <1>2, LayerTypes DEF Layers
<1>5. ASSUME NEW i \in DOMAIN Layers(p)
      PROVE  HasLayer(Dir(id), Layers(p)[i])
  <2>1. i < loc[p].n
    BY <1>2, <1>4
  <2>2. QED
    BY <1>2, <2>1 DEF Fetched, At
<1>6. ASSUME NEW l \in Range(LayersOf[id[2]])
      PROVE  HasLayer(Dir(id)', l)
  <2>1. PICK i \in DOMAIN Layers(p) : l = Layers(p)[i]
    BY <1>3 DEF Layers, Range
  <2>2. QED
    BY <1>1, <1>5, <2>1 DEF HasLayer
<1>7. QED
  BY <1>1, <1>6 DEF WholeDir

LEMMA WholeThen ==
  ASSUME NEW id, WholeDir(id, Dir(id)')
  PROVE  Whole(id)'
BY DEF Whole, WholeDir, HasLayer, LayerContent, IsRemote

LEMMA StaysWhole ==
  ASSUME NEW id, Whole(id), Dir(id)' = Dir(id)
  PROVE  Whole(id)'
BY WholeThen DEF Whole

LEMMA NameableKept ==
  ASSUME NEW p \in Proc, Shapes, Kinds, ImagesOK, HandOK(p), FetchOK(p), HandMoves(p), Act(p),
         Alone(p), Remember, ArchiveRead, Fetched(p), Filled, Nameable(p)
  PROVE  Nameable(p)'
<1> SUFFICES ASSUME Names(p)', Kept(loc[p].id)'
             PROVE  Whole(loc[p].id)'
  BY DEF Nameable
<1>1. PICK id : id = loc'[p].id
  OBVIOUS
<1>2. Kept(id) /\ id \notin disturbed'
  BY <1>1, Remembered DEF Kept
<1>3. SUFFICES Whole(id)'
  BY <1>1 DEF Whole, WholeDir, HasLayer, LayerContent, IsRemote
<1>4. CASE FindsImage(p) /\ Has(RemoteId(p))
  <2>1. /\ id = RemoteId(p) /\ images' = images /\ Has(id) /\ loc[p].at = "config"
        /\ loc'[p].at = "load"
    BY <1>1, <1>4 DEF FindsImage, At
  <2>2. id \in DOMAIN images /\ IsRemote(id) /\ id # NoId
    BY <2>1 DEF Has, IsRemote, RemoteId, NoId
  <2>3. ASSUME NEW q \in Proc, At(q, "removing"), loc[q].id = id
        PROVE  FALSE
    <3>1. q # p
      BY <2>1, <2>3 DEF At
    <3>2. loc'[q] = loc[q]
      BY <3>1 DEF Alone
    <3>3. Busy(q)' /\ Busy(p)' /\ loc'[q].id = id
      BY <2>1, <2>3, <3>2 DEF Busy, Ended, At
    <3>4. QED
      BY <1>1, <1>2, <2>2, <3>1, <3>3, NobodyElseThen, Remembered
  <2>4. Whole(id)
    BY <1>2, <2>1, <2>2, <2>3 DEF Filled
  <2>5. QED
    BY <2>1, <2>4, SameDir, StaysWhole
<1>5. CASE Fetches(p) /\ LayerMoves(p) /\ SavesImage(p)
  <2>1. id = loc[p].id
    BY <1>1, <1>5 DEF LayerMoves, KeepsId
  <2>2. QED
    BY <1>2, <1>5, <2>1, SavedWhole, WholeThen
<1>6. CASE Names(p) /\ loc'[p].id = loc[p].id /\ images' = images
  BY <1>1, <1>2, <1>6, SameDir, StaysWhole DEF Nameable
<1>7. CASE ReadsArchive(p)
  <2>1. /\ id = NewId(p) /\ archive # <<>>
        /\ Put(id, [EmptyDir EXCEPT !.config = archive[1].config])
    BY <1>1, <1>7 DEF ReadsArchive
  <2>2. Dir(id)' = [EmptyDir EXCEPT !.config = archive[1].config]
    BY <2>1, PutDir
  <2>3. Dir(id)'.config # NoConfig
    BY <2>1, <2>2 DEF EmptyDir, ArchiveRead
  <2>4. ~IsRemote(id)
    BY <1>7, <2>1, NewIsNoRemote DEF ReadsArchive
  <2>5. QED
    BY <2>3, <2>4, WholeThen DEF WholeDir
<1>8. CASE CommitsConfig(p)
  <2>1. InCommit(p) /\ id = NewId(p)
    BY <1>1, <1>8 DEF CommitsConfig, CommitSave, InCommit, At, HandOK
  <2>2. PICK x : Put(id, [Dir(id) EXCEPT !.config = <<x>>])
    BY <1>8, <2>1 DEF CommitsConfig, CommitSave
  <2>3. Dir(id)'.config = <<x>>
    BY <2>2, PutConfigDir
  <2>4. Dir(id)'.config # NoConfig
    BY <2>3 DEF NoConfig
  <2>5. ~IsRemote(id)
    BY <2>1, NewIsNoRemote
  <2>6. QED
    BY <2>4, <2>5, WholeThen DEF WholeDir
<1>9. QED
  BY <1>4, <1>5, <1>6, <1>7, <1>8, NamesFlow

LEMMA UnnamedKept ==
  ASSUME NEW p \in Proc, Shapes, Control, HandOK(p), HandMoves(p), Act(p), Unnamed(p), Remember
  PROVE  Unnamed(p)'
<1> SUFFICES ASSUME At(p, "removing")', Kept(loc[p].id)', ~lost'
             PROVE  loc'[p].id \notin Range(index'["image"])
  BY DEF Unnamed
<1>1. CASE DropsNames(p)
  <2>1. /\ loc[p].at = "write" /\ loc[p].next = "removing" /\ loc'[p].id = loc[p].id
        /\ index' = [index EXCEPT ![loc[p].store] = Change(p)]
    BY <1>1 DEF DropsNames, Writes, KeepsId
  <2>2. loc[p].store = "image"
    BY <2>1 DEF Control, Routed, Indexing, Routes
  <2>3. index'["image"] = Change(p)
    BY <2>1, <2>2 DEF Shapes, ShapesOK
  <2>4. loc[p].names = {n \in DOMAIN loc[p].idx : loc[p].idx[n] = loc[p].id}
    BY <2>1 DEF HandOK, Untags, Indexing
  <2>5. Change(p) = Restrict(loc[p].idx, DOMAIN loc[p].idx \ loc[p].names)
    BY <2>1 DEF Change
  <2>6. loc[p].id \notin Range(Change(p))
    BY <2>4, <2>5 DEF Range, Restrict
  <2>7. QED
    BY <2>1, <2>3, <2>6
<1>2. CASE Dismantles(p)
  <2>1. /\ loc' = loc /\ index' = index /\ lost' = lost /\ At(p, "removing")
    BY <1>2 DEF Dismantles, RemoveAll, stores
  <2>2. QED
    BY <2>1, Remembered DEF Unnamed, Kept
<1>3. QED
  BY <1>1, <1>2, RemovingFlow

LEMMA RemovesOn ==
  ASSUME NEW p \in Proc, Shapes, Act(p), At(p, "removing"), Remember,
         NEW id, id = loc[p].id, id \notin disturbed'
  PROVE  loc' = loc \/ Dir(id)' = EmptyDir
<1>1. ~Killed(p)
  <2>1. Killed(p) => At(p, "killed")'
    BY KilledGoes DEF Shapes, At
  <2>2. QED
    BY <2>1, Remembered
<1>2. RemoveAll(p)
  <2>1. loc[p].at = "removing"
    BY DEF At
  <2>2. QED
    BY <1>1, <2>1, ByPlace
       DEF Watched, PullResolve, FetchManifest, FetchPlatform, FetchConfig, NextLayer, GetBlob,
           ExtractEntry, VerifyLayer, SaveImage, FailedAttempt, Requests, LoadIndex, Truncate,
           SaveIndex, RmiResolve, ReadArchive, CommitKernel, CommitRootfs, CommitSave,
           CopyModule, SaveKernel, FindStored, At
<1>3. loc' = loc \/ images' = Restrict(images, DOMAIN images \ {id})
  BY <1>2 DEF RemoveAll
<1>4. QED
  BY <1>3, RestrictDir

LEMMA FilledKept ==
  ASSUME NEW p \in Proc, Shapes, Kinds, ImagesOK, HandOK(p), FetchOK(p), HandMoves(p), Act(p),
         Alone(p), Remember, Unread(p), Fetched(p), Filled
  PROVE  Filled'
<1> SUFFICES ASSUME NEW id, IsRemote(id), Has(id)', id \notin disturbed',
                    ~\E q \in Proc : At(q, "removing")' /\ loc'[q].id = id
             PROVE  Whole(id)'
  BY DEF Filled, Kept, IsRemote
<1>1. Dir(id)'.config # NoConfig /\ Kept(id)
  BY Remembered DEF Has, Dir, Kept
<1>2. At(p, "removing") => id # loc[p].id
  BY <1>1, RemovesOn DEF EmptyDir, At
<1>3. CASE Dir(id)' = Dir(id)
  <2>1. Has(id) /\ id \in DOMAIN images
    BY <1>1, <1>3, HasConfig DEF Has
  <2>2. ASSUME NEW q \in Proc, At(q, "removing"), loc[q].id = id
        PROVE  FALSE
    <3>1. q # p
      BY <1>2, <2>2
    <3>2. loc'[q] = loc[q]
      BY <3>1 DEF Alone
    <3>3. QED
      BY <2>2, <3>2 DEF At
  <2>3. Whole(id)
    BY <1>1, <2>1, <2>2 DEF Filled
  <2>4. QED
    BY <1>3, <2>3, StaysWhole
<1>4. CASE id = loc[p].id /\ Fetches(p) /\ ~(Dir(id)' = Dir(id))
  <2>1. Dir(id).config = NoConfig
    BY <1>1, <1>4 DEF Unread
  <2>2. ASSUME NEW content, PutLayer(p, content)
        PROVE  FALSE
    BY <1>1, <1>4, <2>1, <2>2, PutLayerDir
  <2>3. ~(images' = images)
    BY <1>4, SameDir
  <2>4. ~NextLayer(p)
    BY <2>2, <2>3 DEF NextLayer
  <2>5. ~ExtractEntry(p)
    BY <2>2, <2>3 DEF ExtractEntry
  <2>6. ~Killed(p)
    BY <2>2, <2>3 DEF Killed
  <2>7. loc[p].at \in LayerPlaces
    BY <1>4 DEF Fetches
  <2>8. ~CommitSave(p) /\ ~RemoveAll(p) /\ ~ReadArchive(p) /\ ~WriteArchive(p)
        /\ ~CommitKernel(p) /\ ~CommitRootfs(p)
    BY <2>7 DEF LayerPlaces, CommitSave, RemoveAll, ReadArchive, WriteArchive, CommitKernel,
       CommitRootfs, At
  <2>9. SaveImage(p)
    BY <2>3, <2>4, <2>5, <2>6, <2>8, ImageEffects
  <2>10. loc'[p].at = "load" /\ loc[p].at = "save"
    <3>1. PICK config : loc' = [loc EXCEPT ![p].at = "load", ![p].config = config]
      BY <2>9 DEF SaveImage
    <3>2. QED
      BY <2>9, <3>1 DEF SaveImage, At, Shapes, ShapesOK, LocFields
  <2>11. LayerMoves(p)
    BY <1>4, <2>10, LayerFlow DEF Tracked
  <2>12. SavesImage(p)
    BY <2>10, <2>11 DEF LayerMoves, MakesDir, HasAll, AsksAgain, GetsBlob, Extracts, Accepts
  <2>13. QED
    BY <1>1, <1>4, <2>11, <2>12, SavedWhole, WholeThen
<1>5. ~(id = loc[p].id /\ InCommit(p))
  BY NewIsNoRemote DEF HandOK
<1>6. ~(id = NewId(p) /\ (ReadArchive(p) \/ CommitKernel(p)))
  BY NewIsNoRemote
<1>7. QED
  BY <1>2, <1>3, <1>4, <1>5, <1>6, DirFlow

-----------------------------------------------------------------------------
(* What has a name stays whole, and gets one when it is.                   *)
LEMMA NamedStays ==
  ASSUME NEW p \in Proc, Shapes, Kinds, BadFails, Fresh, OwnImage(p), HandOK(p),
         Act(p), Remember, RememberBuilds, ArchiveRead, Unread(p), Unnamed(p), ~lost,
         NEW id \in Range(index["image"]), id \notin disturbed', Whole(id)
  PROVE  Whole(id)'
<1>1. Kept(id) /\ Named(id)
  BY Remembered DEF Kept, Named
<1>2. CASE id = loc[p].id /\ (Fetches(p) \/ At(p, "removing") \/ InCommit(p))
  <2>1. ~Fetches(p)
    BY <1>1, <1>2 DEF Unread, Whole, WholeDir
  <2>2. ~At(p, "removing")
    BY <1>1, <1>2 DEF Unnamed
  <2>3. ~InCommit(p)
    BY <1>1, <1>2 DEF InCommit, OwnImage, Alien, HandOK
  <2>4. QED
    BY <1>2, <2>1, <2>2, <2>3
<1>3. CASE id = NewId(p) /\ ReadArchive(p)
  <2>1. CASE images' = images
    BY <2>1, SameDir, StaysWhole
  <2>2. CASE ~(images' = images)
    <3>1. archive # <<>> /\ Put(id, [EmptyDir EXCEPT !.config = archive[1].config])
      BY <1>3, <2>2, ReadArchiveCases
    <3>2. Dir(id)' = [EmptyDir EXCEPT !.config = archive[1].config]
      BY <3>1, PutDir
    <3>3. Dir(id)'.config # NoConfig
      BY <3>1, <3>2 DEF EmptyDir, ArchiveRead
    <3>4. ~IsRemote(id)
      BY <1>3, NewIsNoRemote
    <3>5. QED
      BY <3>3, <3>4, WholeThen DEF WholeDir
  <2>3. QED
    BY <2>1, <2>2
<1>4. CASE id = NewId(p) /\ CommitKernel(p)
  BY <1>1, <1>4, CommitsOnce DEF BKnown
<1>5. CASE Dir(id)' = Dir(id)
  BY <1>5, StaysWhole
<1>6. QED
  BY <1>2, <1>3, <1>4, <1>5, DirFlow

LEMMA NamedWholeKept ==
  ASSUME NEW p \in Proc, Shapes, Control, Kinds, BadFails, Fresh, OwnImage(p), HandOK(p),
         Act(p), Remember, RememberBuilds, ArchiveRead, Unread(p), Unnamed(p), Nameable(p),
         NamedWhole
  PROVE  NamedWhole'
<1> SUFFICES ASSUME ~lost', NEW id, id \in Range(index'["image"]), id \notin disturbed'
             PROVE  Whole(id)'
  BY DEF NamedWhole, Kept
<1>1. ~lost /\ Kept(id)
  BY IndexFlow, Remembered DEF Kept
<1>2. CASE id \in Range(index["image"])
  <2>1. Whole(id)
    BY <1>1, <1>2 DEF NamedWhole
  <2>2. QED
    BY <1>1, <1>2, <2>1, NamedStays
<1>3. CASE id \notin Range(index["image"])
  <2>1. /\ SaveIndex(p) /\ index' = [index EXCEPT ![loc[p].store] = Change(p)]
        /\ index[loc[p].store] = loc[p].idx
    BY <1>3, IndexFlow
  <2>2. loc[p].store = "image" /\ index'["image"] = Change(p)
    <3>1. DOMAIN index = {"image", "kernel"}
      BY DEF Shapes, ShapesOK
    <3>2. QED
      BY <1>3, <2>1, <3>1
  <2>3. id = loc[p].id
    BY <1>3, <2>1, <2>2, ChangedIds
  <2>4. loc[p].next # "removing"
    <3>1. SUFFICES ASSUME loc[p].next = "removing"
                   PROVE  id \in Range(loc[p].idx)
      BY <1>3, <2>1, <2>2
    <3>2. Change(p) = Restrict(loc[p].idx, DOMAIN loc[p].idx \ loc[p].names)
      BY <3>1 DEF Change
    <3>3. QED
      BY <2>2, <3>2 DEF Range, Restrict
  <2>5. Whole(id)
    BY <1>1, <2>1, <2>2, <2>3, <2>4 DEF Nameable, Names, Indexing, SaveIndex, At
  <2>6. images' = images
    BY <2>1 DEF SaveIndex, files
  <2>7. QED
    BY <2>5, <2>6, SameDir, StaysWhole
<1>4. QED
  BY <1>2, <1>3

LEMMA ArchiveReadKept ==
  ASSUME NEW p \in Proc, Act(p), ArchiveRead
  PROVE  ArchiveRead'
<1>1. CASE archive' = archive
  BY <1>1 DEF ArchiveRead
<1>2. CASE WriteArchive(p)
  <2>1. CASE Resolve(loc[p].ref) # NoId
    <3>1. PICK id : id = Resolve(loc[p].ref)
      OBVIOUS
    <3>2. Has(id)
      BY <2>1, <3>1 DEF Resolve
    <3>3. archive' = <<[name |-> FullName(loc[p].ref), config |-> images[id].config]>>
          \/ archive' = archive
      BY <1>2, <2>1, <3>1 DEF WriteArchive
    <3>4. QED
      BY <1>1, <3>2, <3>3 DEF ArchiveRead, Has
  <2>2. CASE Resolve(loc[p].ref) = NoId
    BY <1>1, <1>2, <2>2 DEF WriteArchive
  <2>3. QED
    BY <2>1, <2>2
<1>3. QED
  BY <1>1, <1>2, ImageEffects DEF NextLayer, ExtractEntry, Killed, SaveImage, CommitSave,
     RemoveAll, ReadArchive, CommitKernel, CommitRootfs

-----------------------------------------------------------------------------
(* The invariant holds initially and is kept by every step.                *)
LEMMA ImageInvInit == Init => ImageInv
<1> SUFFICES ASSUME Init
             PROVE  ImageInv
  OBVIOUS
<1>1. ASSUME NEW p \in Proc
      PROVE  /\ loc[p].at \in {"resolve", "rmi", "save image", "load image", "parse", "kernel",
                               "kernel rm"}
             /\ loc[p].id = NoId /\ loc[p].strict = TRUE
  <2>1. loc[p] = Local(Head(todo[p]))
    BY DEF Init, ImageInit
  <2>2. \A cmd : /\ Local(cmd).at = First[cmd.kind]
                 /\ Local(cmd).id = NoId /\ Local(cmd).strict = TRUE
    BY DEF Local
  <2>3. Head(todo[p]).kind \in DOMAIN First
    <3>1. CommandsOK
      BY TypeInvInit DEF TypeInv, BaseInv, Shapes
    <3>2. IsSeq(todo[p]) /\ todo[p] # <<>>
      BY <3>1 DEF CommandsOK
    <3>3. Head(todo[p]) = todo[p][1] /\ 1 \in DOMAIN todo[p]
      BY <3>2, HeadInDomain
    <3>4. QED
      BY <3>1, <3>3 DEF CommandsOK
  <2>4. QED
    BY <2>1, <2>2, <2>3, FirstPlaces
<1>2. ASSUME NEW p \in Proc
      PROVE  /\ HandOK(p) /\ FetchOK(p) /\ Unread(p) /\ Unnamed(p) /\ Nameable(p)
             /\ Fetched(p) /\ Unpacking(p)
  <2>1. ~HasInHand(p) /\ ~Fetches(p) /\ ~Names(p) /\ ~Untags(p) /\ ~InCommit(p)
        /\ ~At(p, "removing")
    BY <1>1 DEF HasInHand, Fetches, Names, Untags, InCommit, At, LayerPlaces, Indexing
  <2>2. loc[p].at \notin {"platform", "config", "blob", "extract", "save"}
    BY <1>1
  <2>3. loc[p].strict
    BY <1>1
  <2>4. HandOK(p) /\ FetchOK(p)
    BY <2>1, <2>2, <2>3 DEF HandOK, FetchOK, At
  <2>5. QED
    BY <2>1, <2>2, <2>4 DEF Unread, Unnamed, Nameable, Fetched, Unpacking
<1>3. Apart
  <2>1. Together = {}
    BY <1>1 DEF Together
  <2>2. QED
    BY <2>1 DEF Apart
<1>4. /\ images = <<>> /\ archive = <<>> /\ index["image"] = <<>>
  BY DEF Init, ImageInit
<1>5. Pieces /\ Filled /\ NamedWhole /\ ArchiveRead
  BY <1>4 DEF Pieces, Filled, NamedWhole, ArchiveRead, Range
<1>6. QED
  BY <1>2, <1>3, <1>5 DEF ImageInv

LEMMA ImageInvKept ==
  ASSUME LinksOnce
  PROVE  TypeInv /\ BuildInv /\ ImageInv /\ [Next]_vars => ImageInv'
<1> SUFFICES ASSUME TypeInv, BuildInv, ImageInv, [Next]_vars
             PROVE  ImageInv'
  OBVIOUS
<1>0. /\ Shapes /\ Control /\ Kinds /\ BadFails /\ Fresh /\ ImagesOK
      /\ \A p \in Proc : OwnImage(p)
      /\ Apart /\ ArchiveRead /\ Pieces /\ Filled /\ NamedWhole
      /\ \A p \in Proc : /\ HandOK(p) /\ FetchOK(p) /\ Unread(p) /\ Unnamed(p) /\ Nameable(p)
                         /\ Fetched(p) /\ Unpacking(p)
  BY DEF TypeInv, BaseInv, BuildInv, OwnImages, ImageInv
<1>1. ASSUME NEW p \in Proc, Act(p), Remember, RememberBuilds
      PROVE  ImageInv'
  <2>1. Alone(p) /\ HandMoves(p) /\ disturbed \subseteq disturbed' /\ Apart'
    BY <1>0, <1>1, ShapesKept, HandFlow, Remembered
  <2>2. (HandOK(p) /\ FetchOK(p))'
    BY <1>0, <1>1, HandKept, FetchKept
  <2>3. (Unread(p) /\ Unnamed(p) /\ Nameable(p))'
    <3>1. Unread(p)'
      BY <1>0, <2>1, UnreadKept
    <3>2. Unnamed(p)'
      BY <1>0, <1>1, <2>1, UnnamedKept
    <3>3. Nameable(p)'
      BY <1>0, <1>1, <2>1, NameableKept
    <3>4. QED
      BY <3>1, <3>2, <3>3
  <2>4. (Fetched(p) /\ Unpacking(p))'
    <3>1. Fetched(p)'
      BY <1>0, <2>1, FetchedKept
    <3>2. Unpacking(p)'
      BY <1>0, <2>1, UnpackingKept
    <3>3. QED
      BY <3>1, <3>2
  <2>5. ASSUME NEW q \in Proc \ {p}
        PROVE  (/\ HandOK(q) /\ FetchOK(q) /\ Unread(q) /\ Unnamed(q) /\ Nameable(q)
                /\ Fetched(q) /\ Unpacking(q))'
    <3>1. loc'[q] = loc[q] /\ NewId(q)' = NewId(q)
      BY <2>1 DEF Alone, NewId, Cmd
    <3>2. HandOK(q)'
      <4>1. (HasInHand(q)' <=> HasInHand(q)) /\ (InCommit(q)' <=> InCommit(q))
            /\ (Untags(q)' <=> Untags(q))
        BY <3>1 DEF HasInHand, Fetches, Names, Untags, InCommit, At, Indexing
      <4>2. HandOK(q)
        BY <1>0
      <4>3. QED
        BY <3>1, <4>1, <4>2 DEF HandOK, At
    <3>3. FetchOK(q)'
      BY <1>0, <3>1 DEF FetchOK, Fetches, RemoteId, Layers, Layer, At
    <3>4. (Unread(q) /\ Nameable(q) /\ Fetched(q) /\ Unpacking(q))'
      BY <1>0, <1>1, <2>1, OthersImages
    <3>5. Unnamed(q)'
      BY <1>0, <1>1, <2>1, OthersUnnamed
    <3>6. QED
      BY <3>2, <3>3, <3>4, <3>5
  <2>6. Pieces'
    BY <1>0, <1>1, PiecesKept
  <2>7. Filled'
    BY <1>0, <1>1, <2>1, FilledKept
  <2>8. NamedWhole'
    BY <1>0, <1>1, NamedWholeKept
  <2>9. ArchiveRead'
    BY <1>0, <1>1, ArchiveReadKept
  <2>10. QED
    BY <2>1, <2>2, <2>3, <2>4, <2>5, <2>6, <2>7, <2>8, <2>9 DEF ImageInv
<1>2. ASSUME UNCHANGED <<index, lost, images, archive, todo, loc>>,
             disturbed \subseteq disturbed', Apart'
      PROVE  ImageInv'
  <2>1. \A id : Dir(id)' = Dir(id) /\ (Kept(id)' => Kept(id)) /\ (Whole(id)' <=> Whole(id))
    BY <1>2 DEF Dir, Kept, Whole, WholeDir, HasLayer, LayerContent, IsRemote
  <2>2. ASSUME NEW p \in Proc
        PROVE  (/\ HandOK(p) /\ FetchOK(p) /\ Unread(p) /\ Unnamed(p) /\ Nameable(p)
                /\ Fetched(p) /\ Unpacking(p))'
    <3>1. HandOK(p)'
      BY <1>0, <1>2 DEF HandOK, HasInHand, Fetches, Names, Untags, InCommit, At, Indexing, NewId,
         Cmd
    <3>2. FetchOK(p)'
      BY <1>0, <1>2 DEF FetchOK, Fetches, RemoteId, Layers, Layer, At
    <3>3. Unread(p)' /\ Unnamed(p)' /\ Nameable(p)'
      BY <1>0, <1>2, <2>1 DEF Unread, Unnamed, Nameable, Fetches, Names, At, Indexing
    <3>4. Fetched(p)'
      <4>1. PICK id : id = loc[p].id
        OBVIOUS
      <4>2. /\ loc'[p] = loc[p] /\ Layers(p)' = Layers(p) /\ Layer(p)' = Layer(p)
            /\ (Fetches(p)' <=> Fetches(p)) /\ (At(p, "extract")' <=> At(p, "extract"))
        BY <1>2 DEF Fetches, At, Layers, Layer
      <4>3. \A l : HasLayer(Dir(id), l)' <=> HasLayer(Dir(id), l)
        BY <2>1 DEF HasLayer, LayerContent
      <4>4. Kept(id)' => Kept(id)
        BY <2>1
      <4>5. Fetched(p)
        BY <1>0
      <4>6. SUFFICES ASSUME Fetches(p)', Kept(id)', NEW i \in DOMAIN Layers(p), i < loc[p].n,
                            ~(At(p, "extract") /\ Layers(p)[i] = Layer(p))
                     PROVE  HasLayer(Dir(id), Layers(p)[i])'
        BY <4>1, <4>2 DEF Fetched
      <4>7. PICK l : l = Layers(p)[i] /\ l = Layers(p)'[i]
        BY <4>2
      <4>8. HasLayer(Dir(id), l)
        BY <4>1, <4>2, <4>4, <4>5, <4>6, <4>7 DEF Fetched
      <4>9. QED
        BY <4>3, <4>7, <4>8 DEF HasLayer
    <3>5. Unpacking(p)'
      BY <1>0, <1>2, <2>1 DEF Unpacking, At, Layers, Layer, Content, LastOf
    <3>6. QED
      BY <3>1, <3>2, <3>3, <3>4, <3>5
  <2>3. Pieces' /\ ArchiveRead'
    BY <1>0, <1>2 DEF Pieces, PiecesOf, Piece, IsRemote, ArchiveRead
  <2>4. Filled'
    BY <1>0, <1>2, <2>1 DEF Filled, Has, IsRemote, At
  <2>5. NamedWhole'
    BY <1>0, <1>2, <2>1 DEF NamedWhole
  <2>6. QED
    BY <1>2, <2>2, <2>3, <2>4, <2>5 DEF ImageInv
<1>3. CASE Next
  <2>1. Remember /\ RememberBuilds
    BY <1>3 DEF Next
  <2>2. CASE ContainerStops /\ UNCHANGED <<kernelVars, work, bld>>
    BY <1>2, <2>1, <2>2, Remembered DEF ContainerStops, stores
  <2>3. QED
    BY <1>1, <1>3, <2>1, <2>2, WhoActs
<1>4. CASE UNCHANGED vars
  <2>1. UNCHANGED <<index, lost, images, archive, todo, loc, disturbed>>
    BY <1>4 DEF vars, imageVars, stores, files, history
  <2>2. Apart'
    BY <1>0, <2>1 DEF Apart, Together, Busy
  <2>3. QED
    BY <1>2, <2>1, <2>2
<1>5. QED
  BY <1>3, <1>4

LEMMA ImageInvariant ==
  ASSUME LinksOnce
  PROVE  Spec => [](TypeInv /\ BuildInv /\ ImageInv)
<1>1. Init => ImageInv
  BY ImageInvInit
<1>2. TypeInv /\ BuildInv /\ ImageInv /\ [Next]_vars => ImageInv'
  BY ImageInvKept
<1>3. QED
  BY <1>1, <1>2, BuildInvariant, PTL DEF Spec

(* A name in the list of images leads to one that can be read, and that    *)
(* has every layer, as its digest says, when it came from a registry,      *)
(* whatever others do, fails or is killed meanwhile (pull.go:78-121,       *)
(* store.go:25-55).  In a layer with a second entry for the path of a link *)
(* that entry is written through the link; such layers are left out.       *)
THEOREM ImagesAreWhole == LinksOnce => (Spec => []ImagesWhole)
<1>1. ImageInv => ImagesWhole
  <2> SUFFICES ASSUME ImageInv, ~torn["image"], ~lost, NEW n \in DOMAIN index["image"],
                      index["image"][n] \notin disturbed
               PROVE  LET id == index["image"][n]
                      IN  Has(id) /\ (IsRemote(id) => Verified(id))
    BY DEF ImagesWhole
  <2>1. PICK id : id = index["image"][n]
    OBVIOUS
  <2>2. Whole(id)
    BY <2>1 DEF ImageInv, NamedWhole, Kept, Range
  <2>3. Has(id)
    BY <2>2, HasConfig DEF Whole, WholeDir
  <2>4. Dir(id) = images[id]
    BY <2>3 DEF Has, Dir
  <2>5. IsRemote(id) => Verified(id)
    BY <2>2, <2>4 DEF Whole, WholeDir, Verified, HasLayer
  <2>6. QED
    BY <2>1, <2>3, <2>5
<1>2. LinksOnce => (Spec => [](TypeInv /\ BuildInv /\ ImageInv))
  BY ImageInvariant
<1>3. QED
  BY <1>1, <1>2, PTL

-----------------------------------------------------------------------------
(* Pulls that meet no error of their own.  A layer with links cannot be    *)
(* unpacked twice, so no manifest may list one twice.                      *)
HasLink(l) == \E e \in DOMAIN Tar[l] : Tar[l][e].kind = "link"
LinkLayersOnce ==
  \A i \in DOMAIN LayersOf : \A j, k \in DOMAIN LayersOf[i] :
    LayersOf[i][j] = LayersOf[i][k] /\ HasLink(LayersOf[i][j]) => j = k

(* Where the command pull is.                                              *)
Pulling(p) ==
  Cmd(p).kind = "pull" =>
    \/ loc[p].at \in Ended
    \/ /\ loc[p].pulling = "image"
       /\ \/ loc[p].at \in PullPlaces \cup LayerPlaces \cup {"pulled"}
          \/ Indexing(p) /\ loc[p].next = "pulled"

(* What a pull finds in the directory of its image is its own.             *)
Clean(id) == id \notin disturbed \cup spoiled
Before(p, l) == \E i \in DOMAIN Layers(p) : i < loc[p].n /\ Layers(p)[i] = l
AtLayer(p) == loc[p].at \in {"blob", "extract"}
FromTar(p, f) ==
  At(p, "extract") /\ \E k \in 1 .. loc[p].e - 1 : Tar[Layer(p)][k].path = f
Leftovers(p) ==
  Fetches(p) /\ Clean(loc[p].id) =>
    /\ \A l \in DOMAIN Dir(loc[p].id).layers : Before(p, l) \/ (AtLayer(p) /\ l = Layer(p))
    /\ AtLayer(p) /\ ~Before(p, Layer(p)) => \A f \in DOMAIN Content(p) : FromTar(p, f)

(* Layers without a configuration are somebody's.                          *)
SomebodyAt(id) == \E p \in Proc : (Fetches(p) \/ At(p, "removing")) /\ loc[p].id = id
Swept ==
  \A id \in DOMAIN images :
    IsRemote(id) /\ Clean(id) /\ ~Has(id) => DOMAIN images[id].layers = {} \/ SomebodyAt(id)

RecoverInv == Swept /\ \A p \in Proc : Leftovers(p) /\ Pulling(p)

LEMMA SpoiledNoted ==
  ASSUME Remember
  PROVE  /\ spoiled \subseteq spoiled' /\ disturbed \subseteq disturbed'
         /\ \A q \in Proc : /\ loc[q].at \in LayerPlaces
                            /\ loc'[q].at \in {"failed", "build failed", "killed"}
                            => loc[q].id \in spoiled'
         /\ \A id : Clean(id)' => Clean(id) /\ id \notin disturbed'
BY DEF Remember, Clean, LayerPlaces

(* A pull that leaves its layers has saved them, failed or been killed.    *)
LEMMA LayerStops ==
  ASSUME NEW p \in Proc, Shapes, Act(p), Fetches(p), loc'[p].at \notin Tracked
  PROVE  loc'[p].at \in {"failed", "build failed", "killed"}
<1>0. ShapesOK
  BY DEF Shapes
<1>1. loc[p].at \in Watched /\ loc[p].at \in LayerPlaces
  BY DEF Fetches, Watched
<1>2. ~PullResolve(p) /\ ~FetchManifest(p) /\ ~FetchPlatform(p) /\ ~FetchConfig(p)
      /\ ~LoadIndex(p) /\ ~Truncate(p) /\ ~SaveIndex(p) /\ ~RmiResolve(p) /\ ~RemoveAll(p)
      /\ ~ReadArchive(p) /\ ~CommitKernel(p) /\ ~CommitRootfs(p) /\ ~CommitSave(p)
      /\ ~CopyModule(p) /\ ~SaveKernel(p) /\ ~FindStored(p)
  BY <1>1 DEF PullResolve, FetchManifest, FetchPlatform, FetchConfig, LoadIndex, Truncate,
     SaveIndex, RmiResolve, RemoveAll, ReadArchive, CommitKernel, CommitRootfs, CommitSave,
     CopyModule, SaveKernel, FindStored, At, LayerPlaces
<1>3. ASSUME Fail(p) \/ FailMet(p)
      PROVE  loc'[p].at \in {"failed", "build failed", "killed"}
  <2>1. loc'[p].at = Failed(p)
    BY <1>0, <1>3 DEF Fail, FailMet, ShapesOK, LocFields
  <2>2. QED
    BY <2>1 DEF Failed
<1>4. CASE NextLayer(p)
  <2>1. loc'[p].at \in {"save", "blob"}
    BY <1>0, <1>4 DEF NextLayer, Goto, ShapesOK, LocFields
  <2>2. QED
    BY <2>1 DEF Tracked, LayerPlaces
<1>5. CASE GetBlob(p)
  <2>1. PICK blob, met :
          loc' = [loc EXCEPT ![p].at = "extract", ![p].e = 1, ![p].tries = 0,
                             ![p].blob = blob, ![p].met = met]
    BY <1>5 DEF GetBlob
  <2>2. loc'[p].at = "extract"
    BY <1>0, <2>1 DEF ShapesOK, LocFields
  <2>3. QED
    BY <2>2 DEF Tracked, LayerPlaces
<1>6. CASE ExtractEntry(p)
  <2>1. Fail(p) \/ loc' = [loc EXCEPT ![p].e = @ + 1]
    BY <1>6 DEF ExtractEntry
  <2>2. CASE loc' = [loc EXCEPT ![p].e = @ + 1]
    <3>1. loc'[p].at = loc[p].at
      BY <1>0, <2>2 DEF ShapesOK, LocFields
    <3>2. QED
      BY <1>1, <3>1 DEF Tracked
  <2>3. QED
    BY <1>3, <2>1, <2>2
<1>7. CASE VerifyLayer(p)
  <2>1. Fail(p) \/ loc' = [loc EXCEPT ![p].at = "layer", ![p].n = @ + 1]
    BY <1>7 DEF VerifyLayer
  <2>2. CASE loc' = [loc EXCEPT ![p].at = "layer", ![p].n = @ + 1]
    <3>1. loc'[p].at = "layer"
      BY <1>0, <2>2 DEF ShapesOK, LocFields
    <3>2. QED
      BY <3>1 DEF Tracked, LayerPlaces
  <2>3. QED
    BY <1>3, <2>1, <2>2
<1>8. CASE SaveImage(p)
  <2>1. PICK config : loc' = [loc EXCEPT ![p].at = "load", ![p].config = config]
    BY <1>8 DEF SaveImage
  <2>2. loc'[p].at = "load"
    BY <1>0, <2>1 DEF ShapesOK, LocFields
  <2>3. QED
    BY <2>2 DEF Tracked
<1>9. CASE FailedAttempt(p)
  <2>1. FailMet(p) \/ loc' = [loc EXCEPT ![p].tries = @ + 1]
    BY <1>9 DEF FailedAttempt
  <2>2. CASE loc' = [loc EXCEPT ![p].tries = @ + 1]
    <3>1. loc'[p].at = loc[p].at
      BY <1>0, <2>2 DEF ShapesOK, LocFields
    <3>2. QED
      BY <1>1, <3>1 DEF Tracked
  <2>3. QED
    BY <1>3, <2>1, <2>2
<1>10. CASE Killed(p)
  BY <1>0, <1>10, KilledGoes
<1>11. QED
  BY <1>1, <1>2, <1>4, <1>5, <1>6, <1>7, <1>8, <1>9, <1>10, ByPlace

(* What a pull finds and leaves in the directory of its image.             *)
LEMMA LeftoversKept ==
  ASSUME NEW p \in Proc, ImagesOK, FetchOK(p), HandMoves(p), Alone(p), Remember,
         Leftovers(p), Swept
  PROVE  Leftovers(p)'
<1> SUFFICES ASSUME Fetches(p)', Clean(loc[p].id)'
             PROVE  (/\ \A l \in DOMAIN Dir(loc[p].id).layers :
                          Before(p, l) \/ (AtLayer(p) /\ l = Layer(p))
                     /\ AtLayer(p) /\ ~Before(p, Layer(p)) =>
                          \A f \in DOMAIN Content(p) : FromTar(p, f))'
  BY DEF Leftovers
<1>1. PICK id : id = loc'[p].id
  OBVIOUS
<1>2. Clean(id) /\ id \notin disturbed'
  <2>1. Clean(id)'
    BY <1>1 DEF Clean
  <2>2. QED
    BY <2>1, SpoiledNoted
<1>3. CASE FindsImage(p) /\ ~Has(RemoteId(p)) /\ loc'[p].at = "layer"
  <2>1. Dir(id)' = Dir(id) /\ id = RemoteId(p) /\ loc[p].at = "config"
    BY <1>1, <1>3, SameDir DEF FindsImage, At
  <2>2. ~Has(id) /\ IsRemote(id) /\ id # NoId
    BY <1>3, <2>1 DEF RemoteId, IsRemote, NoId
  <2>3. ~SomebodyAt(id)
    <3>1. SUFFICES ASSUME NEW q \in Proc, Fetches(q) \/ At(q, "removing"), loc[q].id = id
                   PROVE  FALSE
      BY DEF SomebodyAt
    <3>2. q # p
      BY <2>1, <3>1 DEF Fetches, LayerPlaces, At
    <3>3. loc'[q] = loc[q]
      BY <3>2 DEF Alone
    <3>4. Busy(q)' /\ Busy(p)'
      BY <1>3, <3>1, <3>3 DEF Busy, Ended, Fetches, LayerPlaces, At
    <3>5. QED
      BY <1>1, <1>2, <2>2, <3>1, <3>2, <3>3, <3>4, NobodyElseThen, Remembered
  <2>4. DOMAIN Dir(id).layers = {}
    BY <1>2, <2>2, <2>3 DEF Swept, Dir, EmptyDir
  <2>5. ~AtLayer(p)'
    BY <1>3 DEF AtLayer
  <2>6. QED
    BY <1>1, <2>1, <2>4, <2>5
<1>4. CASE Fetches(p) /\ LayerMoves(p) /\ ~SavesImage(p)
  <2>1. id = loc[p].id /\ loc'[p].image = loc[p].image /\ Layers(p)' = Layers(p)
    BY <1>1, <1>4 DEF LayerMoves, KeepsId, Layers
  <2>2. loc[p].n \in Nat \ {0} /\ DOMAIN Layers(p) = 1 .. Len(Layers(p)) /\ Len(Layers(p)) \in Nat
    BY <1>4, LayerTypes DEF FetchOK, Layers
  <2>3. /\ \A l \in DOMAIN Dir(id).layers : Before(p, l) \/ (AtLayer(p) /\ l = Layer(p))
        /\ AtLayer(p) /\ ~Before(p, Layer(p)) => \A f \in DOMAIN Content(p) : FromTar(p, f)
    BY <1>2, <1>4, <2>1 DEF Leftovers
  <2>4. loc'[p].n = loc[p].n => /\ Layer(p)' = Layer(p)
                                /\ \A l : Before(p, l)' <=> Before(p, l)
    BY <2>1 DEF Layer, Before
  <2>5. Dir(id)' = Dir(id) => (loc'[p].n = loc[p].n => Content(p)' = Content(p))
    BY <1>1, <2>1, <2>4 DEF Content
  <2>6. CASE HasAll(p)
    <3>1. Dir(id)' = Dir(id) /\ loc'[p].n = loc[p].n /\ ~AtLayer(p)' /\ ~AtLayer(p)
      BY <1>4, <2>1, <2>6, LayerDir DEF HasAll, AtLayer, At
    <3>2. QED
      BY <1>1, <2>3, <2>4, <3>1
  <2>7. CASE AsksAgain(p) \/ GetsBlob(p)
    <3>1. /\ Dir(id)' = Dir(id) /\ loc'[p].n = loc[p].n /\ AtLayer(p)' /\ AtLayer(p)
          /\ ~At(p, "extract")
      BY <1>4, <2>1, <2>7, LayerDir DEF AsksAgain, GetsBlob, AtLayer, At
    <3>2. ~Before(p, Layer(p)) => DOMAIN Content(p) = {}
      BY <2>3, <3>1 DEF FromTar
    <3>3. QED
      BY <1>1, <2>3, <2>4, <2>5, <3>1, <3>2
  <2>8. CASE MakesDir(p)
    <3>1. /\ Dir(id)'.layers = With(Dir(id).layers, Layer(p), Content(p))
          /\ loc'[p].n = loc[p].n /\ AtLayer(p)' /\ ~AtLayer(p)
      BY <1>4, <2>1, <2>8, LayerDir DEF MakesDir, AtLayer, At
    <3>2. Content(p)' = Content(p)
      BY <1>1, <2>4, <3>1 DEF Content, With
    <3>3. ~Before(p, Layer(p)) => DOMAIN Content(p) = {}
      BY <2>1, <2>3, <3>1 DEF Content
    <3>4. DOMAIN Dir(id)'.layers = DOMAIN Dir(id).layers \cup {Layer(p)}
      BY <3>1 DEF With
    <3>5. QED
      BY <1>1, <2>3, <2>4, <3>1, <3>2, <3>3, <3>4
  <2>9. CASE Extracts(p)
    <3>1. /\ loc'[p].n = loc[p].n /\ AtLayer(p)' /\ AtLayer(p) /\ At(p, "extract")
          /\ loc'[p].e = loc[p].e + 1 /\ loc'[p].at = "extract"
      BY <2>9 DEF Extracts, AtLayer, At
    <3>2. PICK data : Dir(id)'.layers =
            With(Dir(id).layers, Layer(p),
                 Merge(Just(Entry(p).path, [Entry(p) EXCEPT !.data = data]), Content(p)))
      BY <1>4, <2>1, <2>9, LayerDir
    <3>3. PICK content :
            content = Merge(Just(Entry(p).path, [Entry(p) EXCEPT !.data = data]), Content(p))
      OBVIOUS
    <3>4. DOMAIN content = DOMAIN Content(p) \cup {Entry(p).path}
      BY <3>3 DEF Merge, Just
    <3>5. Dir(id)'.layers = With(Dir(id).layers, Layer(p), content)
      BY <3>2, <3>3
    <3>6. Content(p)' = content
      BY <1>1, <2>4, <3>1, <3>5 DEF Content, With
    <3>7. DOMAIN Dir(id)'.layers = DOMAIN Dir(id).layers \cup {Layer(p)}
      BY <3>5 DEF With
    <3>8. ASSUME ~Before(p, Layer(p)), NEW f \in DOMAIN content
          PROVE  \E k \in 1 .. loc'[p].e - 1 : Tar[Layer(p)][k].path = f
      <4>1. loc[p].e \in Nat \ {0}
        <5>1. loc[p].e \in 1 .. Len(Tar[Layer(p)]) + 1 /\ Layer(p) \in DOMAIN Tar
          BY <3>1, Current DEF FetchOK, AtLayer, At
        <5>2. QED
          BY <5>1, TarTypes
      <4>2. 1 .. loc'[p].e - 1 = (1 .. loc[p].e - 1) \cup {loc[p].e}
        BY <3>1, <4>1
      <4>3. CASE f = Entry(p).path
        BY <4>2, <4>3 DEF Entry
      <4>4. CASE f \in DOMAIN Content(p)
        BY <2>3, <3>1, <3>8, <4>2, <4>4 DEF FromTar
      <4>5. QED
        BY <3>4, <4>3, <4>4
    <3>9. ~Before(p, Layer(p))' => \A f \in DOMAIN Content(p)' : FromTar(p, f)'
      <4>1. Layer(p)' = Layer(p) /\ (Before(p, Layer(p))' <=> Before(p, Layer(p)))
        BY <2>4, <3>1
      <4>2. QED
        BY <3>1, <3>6, <3>8, <4>1 DEF FromTar, At
    <3>10. \A l \in DOMAIN Dir(id)'.layers : Before(p, l)' \/ l = Layer(p)'
      BY <2>3, <2>4, <3>1, <3>7
    <3>11. QED
      BY <1>1, <3>1, <3>9, <3>10
  <2>10. CASE Accepts(p)
    <3>1. /\ Dir(id)' = Dir(id) /\ loc'[p].n = loc[p].n + 1 /\ ~AtLayer(p)'
          /\ loc[p].n \in DOMAIN Layers(p)
      BY <1>4, <2>1, <2>10, LayerDir DEF Accepts, AtLayer, At, FetchOK
    <3>2. ASSUME NEW l \in DOMAIN Dir(id).layers
          PROVE  Before(p, l)'
      <4>1. CASE Before(p, l)
        <5>1. PICK i \in DOMAIN Layers(p) : i < loc[p].n /\ Layers(p)[i] = l
          BY <4>1 DEF Before
        <5>2. i < loc'[p].n
          BY <2>2, <3>1, <5>1
        <5>3. QED
          BY <2>1, <5>1, <5>2 DEF Before
      <4>2. CASE l = Layer(p)
        <5>1. loc[p].n < loc'[p].n
          BY <2>2, <3>1
        <5>2. QED
          BY <2>1, <3>1, <4>2, <5>1 DEF Before, Layer
      <4>3. QED
        BY <2>3, <4>1, <4>2
    <3>3. QED
      BY <1>1, <3>1, <3>2
  <2>11. QED
    BY <1>4, <2>6, <2>7, <2>8, <2>9, <2>10 DEF LayerMoves
<1>5. QED
  BY <1>3, <1>4, FetchesFlow

LEMMA OthersLeftovers ==
  ASSUME NEW p \in Proc, NEW q \in Proc \ {p}, Shapes, Kinds, Control, Apart, Alone(p),
         HandOK(p), HandOK(q), Act(p), Remember, Leftovers(q)
  PROVE  Leftovers(q)'
<1>1. PICK id : id = loc[q].id
  OBVIOUS
<1>2. loc'[q] = loc[q] /\ (Clean(id)' => Clean(id) /\ id \notin disturbed')
  BY SpoiledNoted DEF Alone
<1>3. Fetches(q) /\ Clean(id)' => Dir(id)' = Dir(id)
  <2>1. Fetches(q) => HasInHand(q)
    BY DEF HasInHand
  <2>2. QED
    BY <1>1, <1>2, <2>1, OthersDir
<1>4. CASE ~(Fetches(q) /\ Clean(id)')
  <2>1. ~(Fetches(q)' /\ Clean(loc[q].id)')
    BY <1>1, <1>2, <1>4 DEF Fetches, Clean
  <2>2. QED
    BY <2>1 DEF Leftovers
<1>5. CASE Fetches(q) /\ Clean(id)'
  <2>1. Dir(id)' = Dir(id) /\ Clean(id)
    BY <1>2, <1>3, <1>5
  <2>2. /\ Layers(q)' = Layers(q) /\ Layer(q)' = Layer(q) /\ (AtLayer(q)' <=> AtLayer(q))
    BY <1>2 DEF Layers, Layer, AtLayer
  <2>3. /\ Content(q)' = Content(q)
        /\ \A l : Before(q, l)' <=> Before(q, l)
        /\ \A f : FromTar(q, f)' <=> FromTar(q, f)
    BY <1>1, <1>2, <2>1, <2>2 DEF Content, Before, FromTar, At
  <2>4. /\ \A l \in DOMAIN Dir(id).layers : Before(q, l) \/ (AtLayer(q) /\ l = Layer(q))
        /\ AtLayer(q) /\ ~Before(q, Layer(q)) => \A f \in DOMAIN Content(q) : FromTar(q, f)
    BY <1>1, <1>5, <2>1 DEF Leftovers
  <2>5. Dir(loc[q].id)' = Dir(id)
    BY <1>1, <1>2, <2>1
  <2>6. QED
    BY <2>2, <2>3, <2>4, <2>5 DEF Leftovers
<1>6. QED
  BY <1>4, <1>5

LEMMA AtPulled ==
  ASSUME NEW p \in Proc, Act(p), loc[p].at = "pulled", ~NextCommand(p)
  PROVE  Pulled(p) \/ OCIKernelPulled(p) \/ AssembleRootfs(p) \/ FromPulled(p) \/ Killed(p)
<1>1. ~PullResolve(p) /\ ~FetchManifest(p) /\ ~FetchPlatform(p) /\ ~FetchConfig(p)
  BY DEF PullResolve, FetchManifest, FetchPlatform, FetchConfig, At
<1>2. ~NextLayer(p) /\ ~GetBlob(p) /\ ~ExtractEntry(p) /\ ~VerifyLayer(p)
  BY DEF NextLayer, GetBlob, ExtractEntry, VerifyLayer, At
<1>3. ~SaveImage(p) /\ ~FailedAttempt(p) /\ ~LoadIndex(p) /\ ~Truncate(p) /\ ~SaveIndex(p)
  BY DEF SaveImage, FailedAttempt, Requests, LoadIndex, Truncate, SaveIndex, At
<1>4. ~RmiResolve(p) /\ ~RemoveAll(p) /\ ~WriteArchive(p) /\ ~ReadArchive(p)
  BY DEF RmiResolve, RemoveAll, WriteArchive, ReadArchive, At
<1>5. ~CopyLayer(p) /\ ~Assembled(p) /\ ~CopyKernel(p)
  BY DEF CopyLayer, Assembled, CopyKernel, At
<1>6. ~PullKernel(p) /\ ~DownloadArchive(p) /\ ~DownloadEnds(p) /\ ~ExtractArchive(p)
  BY DEF PullKernel, DownloadArchive, DownloadEnds, ExtractArchive, At
<1>7. ~CopyBinary(p) /\ ~CopyModule(p) /\ ~SaveKernel(p) /\ ~KernelPulled(p)
  BY DEF CopyBinary, CopyModule, SaveKernel, KernelPulled, At
<1>8. ~FindStored(p) /\ ~RemoveKernel(p) /\ ~Stall(p)
  BY DEF FindStored, RemoveKernel, Stall, At
<1>9. ~ParseDockerfile(p) /\ ~BeginProcess(p) /\ ~HandleFrom(p) /\ ~CopyBaseLayer(p)
  BY DEF ParseDockerfile, BeginProcess, HandleFrom, Handles, CopyBaseLayer, At
<1>10. ~FromEnds(p) /\ ~HandleKernel(p) /\ ~KernelEnds(p) /\ ~HandleRun(p) /\ ~Machine(p)
  BY DEF FromEnds, HandleKernel, Handles, KernelEnds, HandleRun, Machine, At
<1>11. ~RunEnds(p) /\ ~HandleCopy(p) /\ ~Configure(p) /\ ~ProcessEnds(p) /\ ~CleanUp(p)
  BY DEF RunEnds, HandleCopy, Handles, Configure, ProcessEnds, CleanUp, At
<1>12. ~CommitKernel(p) /\ ~CommitRootfs(p) /\ ~CommitSave(p)
  BY DEF CommitKernel, CommitRootfs, CommitSave, At
<1>13. QED
  BY <1>1, <1>2, <1>3, <1>4, <1>5, <1>6, <1>7, <1>8, <1>9, <1>10, <1>11, <1>12
     DEF Act, Progress, ImageStep, Pull, KernelStep, BuildStep

LEMMA SweptKept ==
  ASSUME NEW p \in Proc, Shapes, Kinds, ImagesOK, HandOK(p), Act(p), Alone(p), Remember, Swept
  PROVE  Swept'
<1> SUFFICES ASSUME NEW id \in DOMAIN images', IsRemote(id), Clean(id)', ~Has(id)',
                    ~(DOMAIN images'[id].layers = {})
             PROVE  SomebodyAt(id)'
  BY DEF Swept, IsRemote
<1>1. Dir(id)'.config = NoConfig /\ DOMAIN Dir(id)'.layers # {}
  BY DEF Has, Dir
<1>2. Clean(id) /\ id \notin disturbed'
  BY SpoiledNoted
<1>3. CASE id = loc[p].id /\ Fetches(p)
  <2>1. loc'[p].at \in Tracked
    BY <1>3, LayerStops, SpoiledNoted DEF Clean, Fetches
  <2>2. LayerMoves(p)
    BY <1>3, <2>1, LayerFlow
  <2>3. ~SavesImage(p)
    BY <1>1, <1>3, <2>2, LayerDir
  <2>4. loc'[p].at \in LayerPlaces
    BY <2>2, <2>3 DEF LayerMoves, MakesDir, HasAll, AsksAgain, GetsBlob, Extracts, Accepts,
       LayerPlaces
  <2>5. loc'[p].id = id
    BY <1>3, <2>2 DEF LayerMoves, KeepsId
  <2>6. QED
    BY <2>4, <2>5 DEF SomebodyAt, Fetches
<1>4. CASE id = loc[p].id /\ At(p, "removing")
  <2>1. loc' = loc \/ Dir(id)' = EmptyDir
    BY <1>2, <1>4, RemovesOn
  <2>2. loc' = loc
    BY <1>1, <2>1 DEF EmptyDir
  <2>3. QED
    BY <1>4, <2>2 DEF SomebodyAt, At
<1>5. CASE Dir(id)' = Dir(id) /\ ~(id = loc[p].id /\ (Fetches(p) \/ At(p, "removing")))
  <2>1. id \in DOMAIN images /\ ~Has(id) /\ DOMAIN images[id].layers # {}
    BY <1>1, <1>5 DEF Dir, EmptyDir, Has
  <2>2. PICK q \in Proc : (Fetches(q) \/ At(q, "removing")) /\ loc[q].id = id
    BY <1>2, <2>1 DEF Swept, SomebodyAt
  <2>3. loc'[q] = loc[q]
    BY <1>5, <2>2 DEF Alone
  <2>4. QED
    BY <2>2, <2>3 DEF SomebodyAt, Fetches, At
<1>6. ~(id = loc[p].id /\ InCommit(p))
  BY NewIsNoRemote DEF HandOK
<1>7. ~(id = NewId(p) /\ (ReadArchive(p) \/ CommitKernel(p)))
  BY NewIsNoRemote
<1>8. QED
  BY <1>3, <1>4, <1>5, <1>6, <1>7, DirFlow

(* What ends a pull.                                                       *)
MeetsLink(p) ==
  /\ At(p, "extract") /\ loc[p].e <= Len(Tar[Layer(p)])
  /\ Entry(p).kind = "link" /\ Entry(p).path \in DOMAIN Content(p)
PullGoes(p) ==
  \/ loc'[p].at \in PullPlaces \cup LayerPlaces
       \cup {"load", "truncate", "write", "pulled", "done", "panicked", "killed"}
  \/ loc'[p].at = "failed" /\ (loc'[p].met \/ MeetsLink(p))

LEMMA PullEnds ==
  ASSUME NEW p \in Proc, Shapes, Control, FetchOK(p), Pulling(p), Cmd(p).kind = "pull", Busy(p),
         Act(p)
  PROVE  PullGoes(p)
<1>0. ShapesOK /\ Routed(p)
  BY DEF Shapes, Control
<1>1. /\ loc[p].at \in PullPlaces \cup LayerPlaces \cup {"pulled", "load", "truncate", "write"}
      /\ Indexing(p) => loc[p].next = "pulled"
      /\ loc[p].pulling = "image"
  BY DEF Pulling, Busy, Indexing, PullPlaces, LayerPlaces
<1>2. ASSUME FailMet(p)
      PROVE  PullGoes(p)
  <2>1. loc'[p].at = Failed(p) /\ loc'[p].met = TRUE
    BY <1>0, <1>2 DEF FailMet, ShapesOK, LocFields
  <2>2. QED
    BY <2>1 DEF Failed, PullGoes
<1>3. ASSUME Fail(p)
      PROVE  loc'[p].at = "failed" /\ loc'[p].met = loc[p].met
  <2>1. loc'[p].at = Failed(p) /\ loc'[p].met = loc[p].met
    BY <1>0, <1>3 DEF Fail, ShapesOK, LocFields
  <2>2. QED
    BY <2>1 DEF Failed
<1>4. CASE Killed(p)
  BY <1>0, <1>4, KilledGoes DEF PullGoes
<1>5. CASE loc[p].at = "pulled" /\ ~Killed(p)
  <2>1. ~NextCommand(p)
    BY DEF NextCommand
  <2>2. ~OCIKernelPulled(p) /\ ~AssembleRootfs(p) /\ ~FromPulled(p)
    BY <1>1 DEF OCIKernelPulled, AssembleRootfs, FromPulled
  <2>3. Pulled(p)
    BY <1>5, <2>1, <2>2, AtPulled
  <2>4. loc'[p].at = "done"
    BY <1>0, <2>3 DEF Pulled, Goto, ShapesOK, LocFields
  <2>5. QED
    BY <2>4 DEF PullGoes
<1>6. CASE PullResolve(p)
  <2>1. loc'[p].at \in {"manifest", "pulled"}
    BY <1>0, <1>6 DEF PullResolve, ShapesOK, LocFields
  <2>2. QED
    BY <2>1 DEF PullGoes, PullPlaces
<1>7. CASE FetchManifest(p)
  <2>1. ASSUME NEW at \in {"platform", "config"}, NEW image \in DOMAIN LayersOf,
               loc' = [loc EXCEPT ![p].at = at, ![p].image = image, ![p].tries = 0]
        PROVE  PullGoes(p)
    <3>1. loc'[p].at = at
      BY <1>0, <2>1 DEF ShapesOK, LocFields
    <3>2. QED
      BY <3>1 DEF PullGoes, PullPlaces
  <2>2. QED
    BY <1>2, <1>7, <2>1, ManifestCases
<1>8. CASE FetchPlatform(p)
  <2>1. loc'[p].at = "config"
    BY <1>0, <1>8 DEF FetchPlatform, ShapesOK, LocFields
  <2>2. QED
    BY <2>1 DEF PullGoes, PullPlaces
<1>9. CASE FetchConfig(p)
  <2>1. ASSUME NEW at, NEW config, NEW names, NEW strict, GotConfig(p, at, config, names, strict)
        PROVE  PullGoes(p)
    <3>1. loc'[p].at = at /\ at \in {"load", "layer"}
      BY <1>0, <2>1 DEF GotConfig, ShapesOK, LocFields
    <3>2. QED
      BY <3>1 DEF PullGoes, LayerPlaces
  <2>2. QED
    BY <1>2, <1>9, <2>1, FetchConfigCases
<1>10. CASE Fetches(p) /\ loc'[p].at \in Tracked
  <2>1. LayerMoves(p)
    BY <1>10, LayerFlow
  <2>2. loc'[p].at \in LayerPlaces \cup {"load"}
    BY <2>1 DEF LayerMoves, MakesDir, HasAll, AsksAgain, GetsBlob, Extracts, Accepts, SavesImage,
       LayerPlaces
  <2>3. QED
    BY <2>2 DEF PullGoes
<1>11. CASE ExtractEntry(p) /\ loc'[p].at \notin Tracked
  <2>1. loc[p].at = "extract" /\ (loc[p].met \/ loc[p].blob = "good")
    BY <1>11 DEF ExtractEntry, FetchOK, At
  <2>2. /\ Fail(p) /\ loc[p].e <= Len(Tar[Layer(p)])
        /\ loc[p].blob = "bad" \/ (Entry(p).kind = "link" /\ Entry(p).path \in DOMAIN Content(p))
    <3>1. ~(loc' = [loc EXCEPT ![p].e = @ + 1])
      <4>1. ASSUME loc' = [loc EXCEPT ![p].e = @ + 1]
            PROVE  loc'[p].at = "extract"
        BY <1>0, <2>1, <4>1 DEF ShapesOK, LocFields
      <4>2. QED
        BY <1>11, <4>1 DEF Tracked, LayerPlaces
    <3>2. QED
      BY <1>11, <3>1 DEF ExtractEntry, Entry
  <2>3. loc'[p].at = "failed" /\ loc'[p].met = loc[p].met
    BY <1>3, <2>2
  <2>4. loc[p].met \/ MeetsLink(p)
    BY <2>1, <2>2 DEF MeetsLink, At
  <2>5. QED
    BY <2>3, <2>4 DEF PullGoes
<1>12. CASE VerifyLayer(p) /\ loc'[p].at \notin Tracked
  <2>1. loc[p].at = "extract" /\ (loc[p].met \/ loc[p].blob = "good")
    BY <1>12 DEF VerifyLayer, FetchOK, At
  <2>2. Fail(p) /\ loc[p].blob # "good"
    <3>1. ~(loc' = [loc EXCEPT ![p].at = "layer", ![p].n = @ + 1])
      <4>1. ASSUME loc' = [loc EXCEPT ![p].at = "layer", ![p].n = @ + 1]
            PROVE  loc'[p].at = "layer"
        BY <1>0, <4>1 DEF ShapesOK, LocFields
      <4>2. QED
        BY <1>12, <4>1 DEF Tracked, LayerPlaces
    <3>2. QED
      BY <1>12, <3>1 DEF VerifyLayer
  <2>3. loc'[p].at = "failed" /\ loc'[p].met = loc[p].met
    BY <1>3, <2>2
  <2>4. QED
    BY <2>1, <2>2, <2>3 DEF PullGoes
<1>13. CASE FailedAttempt(p)
  <2>1. CASE loc' = [loc EXCEPT ![p].tries = @ + 1]
    <3>1. loc'[p].at = loc[p].at /\ loc[p].at \in {"manifest", "platform", "config", "blob"}
      BY <1>0, <1>13, <2>1 DEF FailedAttempt, Requests, ShapesOK, LocFields
    <3>2. QED
      BY <3>1 DEF PullGoes, PullPlaces, LayerPlaces
  <2>2. QED
    BY <1>2, <1>13, <2>1 DEF FailedAttempt
<1>14. CASE LoadIndex(p)
  <2>1. \/ \E idx, names : loc' = [loc EXCEPT ![p].at = "truncate", ![p].idx = idx,
                                              ![p].names = names]
        \/ \E at \in {"panicked", "failed"} :
             loc' = [loc EXCEPT ![p].at = at, ![p].met = TRUE]
    BY <1>14 DEF LoadIndex, Failed
  <2>2. ASSUME NEW idx, NEW names,
               loc' = [loc EXCEPT ![p].at = "truncate", ![p].idx = idx, ![p].names = names]
        PROVE  PullGoes(p)
    <3>1. loc'[p].at = "truncate"
      BY <1>0, <2>2 DEF ShapesOK, LocFields
    <3>2. QED
      BY <3>1 DEF PullGoes
  <2>3. ASSUME NEW at \in {"panicked", "failed"},
               loc' = [loc EXCEPT ![p].at = at, ![p].met = TRUE]
        PROVE  PullGoes(p)
    <3>1. loc'[p].at = at /\ loc'[p].met = TRUE
      BY <1>0, <2>3 DEF ShapesOK, LocFields
    <3>2. QED
      BY <3>1 DEF PullGoes
  <2>4. QED
    BY <2>1, <2>2, <2>3
<1>15. CASE Truncate(p)
  <2>1. loc'[p].at = "write"
    BY <1>0, <1>15 DEF Truncate, Goto, ShapesOK, LocFields
  <2>2. QED
    BY <2>1 DEF PullGoes
<1>16. CASE SaveIndex(p)
  <2>1. FailMet(p) \/ Goto(p, loc[p].next)
    BY <1>16 DEF SaveIndex
  <2>2. loc[p].next = "pulled"
    BY <1>1, <1>16 DEF SaveIndex, At, Indexing
  <2>3. Goto(p, loc[p].next) => loc'[p].at = "pulled"
    BY <1>0, <2>2 DEF Goto, ShapesOK, LocFields
  <2>4. QED
    BY <1>2, <2>1, <2>3 DEF PullGoes
<1>17. CASE loc[p].at # "pulled"
  <2>1. loc[p].at \in Watched
    BY <1>1, <1>17 DEF Watched, PullPlaces
  <2>2. ~RmiResolve(p) /\ ~RemoveAll(p) /\ ~ReadArchive(p) /\ ~CommitKernel(p)
        /\ ~CommitRootfs(p) /\ ~CommitSave(p) /\ ~CopyModule(p) /\ ~SaveKernel(p)
        /\ ~FindStored(p)
    BY <1>1 DEF RmiResolve, RemoveAll, ReadArchive, CommitKernel, CommitRootfs, CommitSave,
       CopyModule, SaveKernel, FindStored, At, LayerPlaces, PullPlaces
  <2>3. NextLayer(p) \/ GetBlob(p) \/ ExtractEntry(p) \/ VerifyLayer(p) \/ SaveImage(p)
        => Fetches(p)
    BY DEF NextLayer, GetBlob, ExtractEntry, VerifyLayer, SaveImage, Fetches, LayerPlaces, At
  <2>4. NextLayer(p) \/ GetBlob(p) \/ SaveImage(p) => loc'[p].at \in Tracked
    <3>1. NextLayer(p) => loc'[p].at \in {"save", "blob"}
      BY <1>0 DEF NextLayer, Goto, ShapesOK, LocFields
    <3>2. ASSUME GetBlob(p)
          PROVE  loc'[p].at = "extract"
      <4>1. PICK blob, met :
              loc' = [loc EXCEPT ![p].at = "extract", ![p].e = 1, ![p].tries = 0,
                                 ![p].blob = blob, ![p].met = met]
        BY <3>2 DEF GetBlob
      <4>2. QED
        BY <1>0, <4>1 DEF ShapesOK, LocFields
    <3>3. ASSUME SaveImage(p)
          PROVE  loc'[p].at = "load"
      <4>1. PICK config : loc' = [loc EXCEPT ![p].at = "load", ![p].config = config]
        BY <3>3 DEF SaveImage
      <4>2. QED
        BY <1>0, <4>1 DEF ShapesOK, LocFields
    <3>4. QED
      BY <3>1, <3>2, <3>3 DEF Tracked, LayerPlaces
  <2>5. QED
    BY <1>4, <1>6, <1>7, <1>8, <1>9, <1>10, <1>11, <1>12, <1>13, <1>14, <1>15, <1>16,
       <2>1, <2>2, <2>3, <2>4, ByPlace
<1>18. QED
  BY <1>4, <1>5, <1>17

(* After its end a process only goes on to its next command.              *)
LEMMA EndedRests ==
  ASSUME NEW p \in Proc, Act(p), ~Busy(p)
  PROVE  NextCommand(p)
<1>1. loc[p].at \in Ended
  BY DEF Busy
<1>2. ~PullResolve(p) /\ ~FetchManifest(p) /\ ~FetchPlatform(p) /\ ~FetchConfig(p)
  BY <1>1 DEF PullResolve, FetchManifest, FetchPlatform, FetchConfig, At, Ended
<1>3. ~NextLayer(p) /\ ~GetBlob(p) /\ ~ExtractEntry(p) /\ ~VerifyLayer(p)
  BY <1>1 DEF NextLayer, GetBlob, ExtractEntry, VerifyLayer, At, Ended
<1>4. ~SaveImage(p) /\ ~FailedAttempt(p) /\ ~LoadIndex(p) /\ ~Truncate(p) /\ ~SaveIndex(p)
  BY <1>1 DEF SaveImage, FailedAttempt, Requests, LoadIndex, Truncate, SaveIndex, At, Ended
<1>5. ~RmiResolve(p) /\ ~RemoveAll(p) /\ ~WriteArchive(p) /\ ~ReadArchive(p) /\ ~Pulled(p)
  BY <1>1 DEF RmiResolve, RemoveAll, WriteArchive, ReadArchive, Pulled, At, Ended
<1>6. ~CopyLayer(p) /\ ~Assembled(p) /\ ~CopyKernel(p) /\ ~AssembleRootfs(p)
  BY <1>1 DEF CopyLayer, Assembled, CopyKernel, AssembleRootfs, At, Ended
<1>7. ~PullKernel(p) /\ ~DownloadArchive(p) /\ ~DownloadEnds(p) /\ ~ExtractArchive(p)
  BY <1>1 DEF PullKernel, DownloadArchive, DownloadEnds, ExtractArchive, At, Ended
<1>8. ~CopyBinary(p) /\ ~CopyModule(p) /\ ~SaveKernel(p) /\ ~KernelPulled(p)
      /\ ~OCIKernelPulled(p)
  BY <1>1 DEF CopyBinary, CopyModule, SaveKernel, KernelPulled, OCIKernelPulled, At, Ended
<1>9. ~FindStored(p) /\ ~RemoveKernel(p) /\ ~Stall(p)
  BY <1>1 DEF FindStored, RemoveKernel, Stall, At, Ended
<1>10. ~ParseDockerfile(p) /\ ~BeginProcess(p) /\ ~HandleFrom(p) /\ ~FromPulled(p)
       /\ ~CopyBaseLayer(p)
  BY <1>1 DEF ParseDockerfile, BeginProcess, HandleFrom, Handles, FromPulled, CopyBaseLayer, At,
     Ended
<1>11. ~FromEnds(p) /\ ~HandleKernel(p) /\ ~KernelEnds(p) /\ ~HandleRun(p) /\ ~Machine(p)
       /\ ~RunEnds(p)
  BY <1>1 DEF FromEnds, HandleKernel, KernelEnds, HandleRun, Machine, RunEnds, Handles, At, Ended
<1>12. ~HandleCopy(p) /\ ~Configure(p) /\ ~ProcessEnds(p) /\ ~CleanUp(p)
  BY <1>1 DEF HandleCopy, Configure, ProcessEnds, CleanUp, Handles, At, Ended
<1>13. ~CommitKernel(p) /\ ~CommitRootfs(p) /\ ~CommitSave(p) /\ ~Killed(p)
  BY <1>1 DEF CommitKernel, CommitRootfs, CommitSave, Killed, Busy, At, Ended
<1>14. QED
  BY <1>2, <1>3, <1>4, <1>5, <1>6, <1>7, <1>8, <1>9, <1>10, <1>11, <1>12, <1>13
     DEF Act, Progress, ImageStep, Pull, KernelStep, BuildStep

LEMMA PullingKept ==
  ASSUME NEW p \in Proc, Shapes, Control, FetchOK(p), Pulling(p), Act(p)
  PROVE  Pulling(p)'
<1>1. ShapesOK /\ Routed(p)
  BY DEF Shapes, Control
<1>2. CASE NextCommand(p)
  <2>1. Begins(p)
    BY <1>2, NextBegins
  <2>2. First["pull"] = "resolve"
    BY DEF First
  <2>3. QED
    BY <2>1, <2>2 DEF Begins, Pulling, PullPlaces
<1>3. CASE ~NextCommand(p)
  <2>1. SUFFICES ASSUME Cmd(p).kind = "pull", loc'[p].at \notin Ended
                 PROVE  /\ loc'[p].pulling = "image"
                        /\ \/ loc'[p].at \in PullPlaces \cup LayerPlaces \cup {"pulled"}
                           \/ loc'[p].at \in {"load", "truncate", "write"}
                              /\ loc'[p].next = "pulled"
    <3>1. Cmd(p)' = Cmd(p)
      BY <1>3, CommandsKept DEF Cmd
    <3>2. QED
      BY <3>1 DEF Pulling, Indexing
  <2>2. Busy(p)
    BY <1>3, EndedRests
  <2>3. PullGoes(p)
    BY <2>1, <2>2, PullEnds
  <2>4. /\ loc[p].pulling = "image"
        /\ \/ loc[p].at \in PullPlaces \cup LayerPlaces \cup {"pulled"}
           \/ loc[p].at \in {"load", "truncate", "write"} /\ loc[p].next = "pulled"
    BY <2>1, <2>2 DEF Pulling, Busy, Indexing
  <2>5. Fetches(p) => loc[p].next = "pulled"
    BY <1>1 DEF Fetches, Routed, LayerPlaces
  <2>6. loc'[p].at \in PullPlaces \cup LayerPlaces \cup {"pulled", "load", "truncate", "write"}
    BY <2>1, <2>3 DEF PullGoes, Ended
  <2>7. loc' = loc \/ KeepsPlace(p) => loc'[p].pulling = "image" /\ loc'[p].at = loc[p].at
                                       /\ loc'[p].next = loc[p].next
    BY <2>4 DEF KeepsPlace, KeepsRoute, KeepsId
  <2>8. ~Stops(p) /\ ~(BuildStep(p) /\ ToIdle(p))
    BY <2>6 DEF Stops, Halts, ToIdle, Idle, PullPlaces, LayerPlaces
  <2>9. ~ToIndex(p) /\ ~ToBase(p) /\ ~ToKernel(p) /\ ~ToModules(p) /\ ~ToSaving(p)
        /\ ~ToRemoving(p)
    BY <2>4 DEF ToIndex, ToBase, ToKernel, ToModules, ToSaving, ToRemoving, PullPlaces,
       LayerPlaces
  <2>10. ~ToWork(p) /\ ~Downloads(p)
    BY <2>1, <2>4 DEF ToWork, Downloads, LoadPlaces, PullPlaces, LayerPlaces
  <2>11. PullsOn(p) \/ ToImage(p) => /\ loc'[p].pulling = "image"
                                     /\ ~PullsOn(p) => loc'[p].next = "pulled"
    BY <2>4 DEF PullsOn, ToImage
  <2>12. InLayers(p) \/ Loads(p) \/ Truncates(p) \/ Writes(p) =>
           loc'[p].pulling = "image" /\ loc'[p].next = loc[p].next
    BY <2>4 DEF InLayers, Loads, Truncates, Writes, KeepsId, KeepsRoute
  <2>13. InLayers(p) \/ Loads(p) \/ Truncates(p) \/ Writes(p) => loc[p].next = "pulled"
    BY <2>4, <2>5 DEF InLayers, Loads, Truncates, Writes, Fetches, PullPlaces, LayerPlaces
  <2>14. PullsOn(p) => loc'[p].at \in PullPlaces \cup {"pulled"}
    BY DEF PullsOn, PullPlaces
  <2>15. \/ loc' = loc \/ KeepsPlace(p) \/ PullsOn(p) \/ ToImage(p)
         \/ InLayers(p) \/ Loads(p) \/ Truncates(p) \/ Writes(p)
    <3>1. Moves(p)
      BY Flow
    <3>2. QED
      BY <1>3, <2>8, <2>9, <2>10, <3>1 DEF Moves
  <2>16. CASE loc' = loc \/ KeepsPlace(p)
    BY <2>4, <2>7, <2>16
  <2>17. CASE PullsOn(p)
    BY <2>11, <2>14, <2>17
  <2>18. CASE ~PullsOn(p) /\ ~(loc' = loc \/ KeepsPlace(p))
    <3>1. loc'[p].pulling = "image" /\ loc'[p].next = "pulled"
      BY <2>11, <2>12, <2>13, <2>15, <2>18
    <3>2. QED
      BY <2>6, <3>1
  <2>19. QED
    BY <2>16, <2>17, <2>18
<1>4. QED
  BY <1>2, <1>3

(* Only a link in the way stops a pull that met no error.                  *)
LEMMA LinkInTheWay ==
  ASSUME LinksOnce, LinkLayersOnce, NEW p \in Proc, FetchOK(p), Leftovers(p), MeetsLink(p)
  PROVE  /\ loc[p].id \in spoiled \cup disturbed
         /\ \E f \in DOMAIN LayerContent(Layer(p)) : LayerContent(Layer(p))[f].kind = "link"
<1>1. /\ loc[p].at = "extract" /\ Fetches(p) /\ AtLayer(p)
      /\ loc[p].n \in DOMAIN Layers(p) /\ loc[p].image \in DOMAIN LayersOf
  BY DEF MeetsLink, At, Fetches, LayerPlaces, AtLayer, FetchOK
<1>2. /\ Layer(p) \in DOMAIN Tar /\ loc[p].e \in DOMAIN Tar[Layer(p)]
      /\ DOMAIN Tar[Layer(p)] = 1 .. Len(Tar[Layer(p)])
      /\ Len(Tar[Layer(p)]) \in Nat
  BY <1>1, Current, TarTypes DEF MeetsLink
<1>3. PICK l, e : l = Layer(p) /\ e = loc[p].e
  OBVIOUS
<1>4. Tar[l][e].kind = "link" /\ Tar[l][e].path \in DOMAIN Content(p)
  BY <1>3 DEF MeetsLink, Entry
<1>5. \A k \in DOMAIN Tar[l] : Tar[l][k].path = Tar[l][e].path => k = e
  BY <1>2, <1>3, <1>4 DEF LinksOnce
<1>6. Tar[l][e].path \in DOMAIN LayerContent(l) /\ LayerContent(l)[Tar[l][e].path] = Tar[l][e]
  <2>1. l \in DOMAIN Tar /\ e \in DOMAIN Tar[l] /\ e \in Nat
    BY <1>2, <1>3
  <2>2. \A k \in DOMAIN Tar[l] : Tar[l][k].path = Tar[l][e].path => k <= e
    BY <1>5, <2>1
  <2>3. QED
    BY <2>1, <2>2, LastDecides
<1>7. ~Before(p, l)
  <2>1. SUFFICES ASSUME NEW i \in DOMAIN Layers(p), i < loc[p].n, Layers(p)[i] = l
                 PROVE  FALSE
    BY DEF Before
  <2>2. HasLink(l)
    BY <1>2, <1>3, <1>4 DEF HasLink
  <2>3. i = loc[p].n
    BY <1>1, <1>3, <2>1, <2>2 DEF LinkLayersOnce, Layers, Layer
  <2>4. i \in Nat
    BY <1>1, LayerTypes DEF Layers
  <2>5. QED
    BY <2>1, <2>3, <2>4
<1>8. ~Clean(loc[p].id)
  <2>1. SUFFICES ASSUME Clean(loc[p].id)
                 PROVE  FALSE
    OBVIOUS
  <2>2. FromTar(p, Tar[l][e].path)
    BY <1>1, <1>3, <1>4, <1>7, <2>1 DEF Leftovers
  <2>3. PICK k \in 1 .. e - 1 : Tar[l][k].path = Tar[l][e].path
    BY <1>3, <2>2 DEF FromTar
  <2>4. k \in DOMAIN Tar[l] /\ k # e
    BY <1>2, <1>3
  <2>5. QED
    BY <1>5, <2>3, <2>4
<1>9. QED
  BY <1>3, <1>4, <1>6, <1>8 DEF Clean

LEMMA RecoverInvInit == Init => RecoverInv
<1> SUFFICES ASSUME Init
             PROVE  RecoverInv
  OBVIOUS
<1>1. images = <<>>
  BY DEF Init, ImageInit
<1>2. ASSUME NEW p \in Proc
      PROVE  Leftovers(p) /\ Pulling(p)
  <2>1. loc[p] = Local(Cmd(p))
    BY DEF Init, ImageInit, Cmd
  <2>2. \A cmd : Local(cmd).at = First[cmd.kind] /\ Local(cmd).pulling = "image"
    BY DEF Local
  <2>3. Cmd(p).kind \in DOMAIN First
    <3>1. CommandsOK
      BY TypeInvInit DEF TypeInv, BaseInv, Shapes
    <3>2. IsSeq(todo[p]) /\ todo[p] # <<>>
      BY <3>1 DEF CommandsOK
    <3>3. Cmd(p) = todo[p][1] /\ 1 \in DOMAIN todo[p]
      BY <3>2, HeadInDomain DEF Cmd
    <3>4. QED
      BY <3>1, <3>3 DEF CommandsOK
  <2>4. ~Fetches(p)
    BY <2>1, <2>2, <2>3, FirstPlaces DEF Fetches, LayerPlaces
  <2>5. First["pull"] = "resolve"
    BY DEF First
  <2>6. Pulling(p)
    BY <2>1, <2>2, <2>5 DEF Pulling, PullPlaces
  <2>7. QED
    BY <2>4, <2>6 DEF Leftovers
<1>3. Swept
  BY <1>1 DEF Swept
<1>4. QED
  BY <1>2, <1>3 DEF RecoverInv

LEMMA RecoverInvKept ==
  TypeInv /\ BuildInv /\ ImageInv /\ RecoverInv /\ [Next]_vars => RecoverInv'
<1> SUFFICES ASSUME TypeInv, BuildInv, ImageInv, RecoverInv, [Next]_vars
             PROVE  RecoverInv'
  OBVIOUS
<1>0. /\ Shapes /\ Control /\ Kinds /\ BadFails /\ ImagesOK /\ Apart /\ Swept
      /\ \A p \in Proc : HandOK(p) /\ FetchOK(p) /\ Leftovers(p) /\ Pulling(p)
  BY DEF TypeInv, BaseInv, BuildInv, ImageInv, RecoverInv
<1>1. ASSUME NEW p \in Proc, Act(p), Remember
      PROVE  RecoverInv'
  <2>1. Alone(p) /\ HandMoves(p)
    BY <1>0, <1>1, ShapesKept, HandFlow
  <2>2. Leftovers(p)'
    BY <1>0, <1>1, <2>1, LeftoversKept
  <2>3. Pulling(p)'
    BY <1>0, <1>1, PullingKept
  <2>4. ASSUME NEW q \in Proc \ {p}
        PROVE  (Leftovers(q) /\ Pulling(q))'
    <3>1. Leftovers(q)'
      BY <1>0, <1>1, <2>1, OthersLeftovers
    <3>2. loc'[q] = loc[q] /\ todo'[q] = todo[q]
      BY <2>1 DEF Alone
    <3>3. Pulling(q)'
      BY <1>0, <3>2 DEF Pulling, Cmd, Indexing
    <3>4. QED
      BY <3>1, <3>3
  <2>5. Swept'
    BY <1>0, <1>1, <2>1, SweptKept
  <2>6. QED
    BY <2>2, <2>3, <2>4, <2>5 DEF RecoverInv
<1>2. ASSUME UNCHANGED <<images, todo, loc>>, disturbed \subseteq disturbed',
             spoiled \subseteq spoiled'
      PROVE  RecoverInv'
  <2>1. \A id : Dir(id)' = Dir(id) /\ (Clean(id)' => Clean(id))
    BY <1>2 DEF Dir, Clean
  <2>2. ASSUME NEW p \in Proc
        PROVE  (Leftovers(p) /\ Pulling(p))'
    <3>1. Leftovers(p)'
      <4>1. PICK id : id = loc[p].id
        OBVIOUS
      <4>2. /\ loc'[p].id = id /\ Dir(id)' = Dir(id) /\ (Clean(id)' => Clean(id))
            /\ (Fetches(p)' <=> Fetches(p)) /\ (AtLayer(p)' <=> AtLayer(p))
            /\ Layers(p)' = Layers(p) /\ Layer(p)' = Layer(p) /\ loc'[p] = loc[p]
        BY <1>2, <2>1, <4>1 DEF Fetches, AtLayer, Layers, Layer
      <4>3. /\ Content(p)' = Content(p)
            /\ \A l : Before(p, l)' <=> Before(p, l)
            /\ \A f : FromTar(p, f)' <=> FromTar(p, f)
        BY <4>1, <4>2 DEF Content, Before, FromTar, At
      <4>4. Leftovers(p)
        BY <1>0
      <4>5. Dir(loc[p].id)' = Dir(id)
        BY <4>2
      <4>6. QED
        BY <4>1, <4>2, <4>3, <4>4, <4>5 DEF Leftovers
    <3>2. Pulling(p)'
      BY <1>0, <1>2 DEF Pulling, Cmd, Indexing
    <3>3. QED
      BY <3>1, <3>2
  <2>3. Swept'
    BY <1>0, <1>2, <2>1 DEF Swept, Has, SomebodyAt, Fetches, At, IsRemote
  <2>4. QED
    BY <2>2, <2>3 DEF RecoverInv
<1>3. CASE Next
  <2>1. Remember
    BY <1>3 DEF Next
  <2>2. CASE ContainerStops /\ UNCHANGED <<kernelVars, work, bld>>
    BY <1>2, <2>1, <2>2, SpoiledNoted DEF ContainerStops
  <2>3. QED
    BY <1>1, <1>3, <2>1, <2>2, WhoActs
<1>4. CASE UNCHANGED vars
  <2>1. UNCHANGED <<images, todo, loc, disturbed, spoiled>>
    BY <1>4 DEF vars, imageVars, stores, files, history
  <2>2. QED
    BY <1>2, <2>1
<1>5. QED
  BY <1>3, <1>4

LEMMA RecoverInvariant ==
  ASSUME LinksOnce
  PROVE  Spec => [](TypeInv /\ BuildInv /\ ImageInv /\ RecoverInv)
<1>1. Init => RecoverInv
  BY RecoverInvInit
<1>2. TypeInv /\ BuildInv /\ ImageInv /\ RecoverInv /\ [Next]_vars => RecoverInv'
  BY RecoverInvKept
<1>3. QED
  BY <1>1, <1>2, ImageInvariant, PTL DEF Spec

(* A pull that meets no error of its own succeeds; it fails otherwise only *)
(* over a link that an earlier attempt or another command left where it    *)
(* unpacks one (pull.go:78-121, layer.go:65).  A manifest that lists one   *)
(* layer with links twice can never be pulled; such images are left out.   *)
THEOREM PullsRecover == LinksOnce /\ LinkLayersOnce => (Spec => PullRecovers)
<1> SUFFICES ASSUME LinksOnce, LinkLayersOnce
             PROVE  Spec => PullRecovers
  OBVIOUS
<1> DEFINE Recovers ==
      \A p \in Proc :
        ~At(p, "failed") /\ At(p, "failed")' /\ Cmd(p).kind = "pull" /\ ~loc'[p].met =>
          /\ loc[p].id \in spoiled \cup disturbed
          /\ \E f \in DOMAIN LayerContent(Layer(p)) : LayerContent(Layer(p))[f].kind = "link"
<1>1. TypeInv /\ BuildInv /\ ImageInv /\ RecoverInv /\ [Next]_vars => [Recovers]_vars
  <2>1. SUFFICES ASSUME TypeInv, BuildInv, ImageInv, RecoverInv, Next, NEW p \in Proc,
                        ~At(p, "failed"), loc'[p].at = "failed", Cmd(p).kind = "pull",
                        ~loc'[p].met
                 PROVE  /\ loc[p].id \in spoiled \cup disturbed
                        /\ \E f \in DOMAIN LayerContent(Layer(p)) :
                             LayerContent(Layer(p))[f].kind = "link"
    BY DEF At
  <2>2. Shapes /\ Control /\ FetchOK(p) /\ Leftovers(p) /\ Pulling(p)
    BY <2>1 DEF TypeInv, BaseInv, ImageInv, RecoverInv
  <2>3. Act(p)
    <3>1. CASE ContainerStops
      BY <2>1, <3>1 DEF ContainerStops, At
    <3>2. ASSUME NEW q \in Proc, Act(q)
          PROVE  q = p
      <4>1. Alone(q)
        BY <2>2, <3>2, ShapesKept
      <4>2. QED
        BY <2>1, <4>1 DEF Alone, At
    <3>3. QED
      BY <2>1, <3>1, <3>2, WhoActs
  <2>4. Busy(p)
    <3>1. SUFFICES ASSUME ~Busy(p)
                   PROVE  FALSE
      OBVIOUS
    <3>2. Begins(p)
      BY <2>2, <2>3, <3>1, EndedRests, NextBegins
    <3>3. QED
      BY <2>1, <3>2, FirstPlaces DEF Begins
  <2>5. PullGoes(p)
    BY <2>1, <2>2, <2>3, <2>4, PullEnds
  <2>6. MeetsLink(p)
    BY <2>1, <2>5 DEF PullGoes, PullPlaces, LayerPlaces
  <2>7. QED
    BY <2>2, <2>6, LinkInTheWay
<1>2. Spec => [](TypeInv /\ BuildInv /\ ImageInv /\ RecoverInv)
  BY RecoverInvariant
<1>3. [][Recovers]_vars => PullRecovers
  BY PTL DEF PullRecovers
<1>4. QED
  BY <1>1, <1>2, <1>3, PTL DEF Spec
=============================================================================
