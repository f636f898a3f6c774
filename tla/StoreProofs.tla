----------------------------- MODULE StoreProofs -----------------------------
(***************************************************************************)
(* Types and places of the commands of stores and builder: what each local *)
(* variable looks like (Shapes), which place may follow which (Control),   *)
(* what an image, a kernel and a build hold, and from these the type       *)
(* invariant.                                                              *)
(***************************************************************************)
EXTENDS StoreProperties, SequenceTheorems, TLAPS

-----------------------------------------------------------------------------
(* What the variables look like.                                           *)

LocFields ==
  {"at", "ref", "platform", "pulling", "image", "id", "config", "n", "e", "tries", "blob",
   "met", "store", "idx", "names", "next", "strict", "copy"}
KernFields == {"raw", "req", "url", "format", "from", "left", "count"}
BldFields == {"instrs", "pos", "kid", "base", "layers", "settings", "bad"}

CommandsOK ==
  /\ DOMAIN todo = Proc
  /\ \A p \in Proc :
       /\ IsSeq(todo[p]) /\ todo[p] # <<>>
       /\ \A i \in DOMAIN todo[p] : /\ todo[p][i].kind \in DOMAIN First
                                    /\ IsSeq(todo[p][i].kernel)
                                    /\ todo[p][i].kind = "build" => todo[p][i].lines \in Dockerfiles

ShapesOK ==
  /\ DOMAIN loc = Proc /\ \A p \in Proc : DOMAIN loc[p] = LocFields
  /\ DOMAIN kern = Proc /\ \A p \in Proc : DOMAIN kern[p] = KernFields
  /\ DOMAIN bld = Proc /\ \A p \in Proc : DOMAIN bld[p] = BldFields
  /\ DOMAIN index = {"image", "kernel"} /\ DOMAIN torn = {"image", "kernel"}

Shapes == CommandsOK /\ ShapesOK

-----------------------------------------------------------------------------
(* Which steps follow on the index.                                        *)
Indexing(p) == loc[p].at \in {"load", "truncate", "write"}

Routes(p) ==
  \/ loc[p].store = "image" /\ loc[p].next \in {"pulled", "removing", "done", "clean"}
  \/ loc[p].store = "kernel" /\ loc[p].next \in {"kerneled", "kernel removing"}

Routed(p) ==
  /\ Indexing(p) => Routes(p)
  /\ loc[p].at \in {"rmi", "load image"} => loc[p].store = "image"
  /\ loc[p].at = "parse" => Cmd(p).kind = "build"
  /\ loc[p].at \in {"layer", "blob", "extract", "save"} =>
       loc[p].id[1] = "remote" /\ loc[p].store = "image" /\ loc[p].next = "pulled"

Control == \A p \in Proc : Routed(p)

(* What was read of Dockerfiles, and that an instruction is carried out.   *)
Midway(p) ==
  \/ loc[p].at \in {"from", "machine", "ran"}
  \/ /\ Cmd(p).kind = "build"
     /\ \/ loc[p].at \in {"resolve", "manifest", "platform", "config", "layer", "blob",
                          "extract", "save", "pulled", "kernel", "download", "body", "unpack",
                          "binary", "modules", "kerneled"}
        \/ Indexing(p) /\ loc[p].next \in {"pulled", "kerneled"}

Readable(p) ==
  /\ IsSeq(bld[p].instrs) /\ bld[p].pos \in 1 .. Len(bld[p].instrs) + 1
  /\ \A i \in DOMAIN bld[p].instrs :
       bld[p].instrs[i].kind = "KERNEL" => IsSeq(bld[p].instrs[i].args)
  /\ IsSeq(kern[p].raw)
  /\ Midway(p) => bld[p].pos <= Len(bld[p].instrs)

Instructions == \A p \in Proc : Readable(p)

BaseInv == Shapes /\ Control /\ Instructions

-----------------------------------------------------------------------------
(* A sequence over any set is one over its own elements.                   *)
LEMMA SeqIsSeq ==
  ASSUME NEW S, NEW s \in Seq(S)
  PROVE  IsSeq(s)
BY SeqOfRange DEF IsSeq

(* What is left of a sequence of two or more elements without the first.   *)
LEMMA TailIsSeq ==
  ASSUME NEW s, IsSeq(s), Len(s) > 1
  PROVE  /\ IsSeq(Tail(s)) /\ Tail(s) # <<>> /\ Head(Tail(s)) = s[2]
         /\ Len(Tail(s)) = Len(s) - 1
         /\ \A i \in DOMAIN Tail(s) : Tail(s)[i] = s[i + 1] /\ i + 1 \in DOMAIN s
<1>1. s \in Seq(Range(s)) /\ s # <<>>
  BY EmptySeq DEF IsSeq
<1>2. Len(s) \in Nat /\ DOMAIN s = 1 .. Len(s)
  BY <1>1, LenProperties
<1>3. /\ Tail(s) \in Seq(Range(s)) /\ Len(Tail(s)) = Len(s) - 1
      /\ \A i \in 1 .. Len(Tail(s)) : Tail(s)[i] = s[i + 1]
  BY <1>1, HeadTailProperties
<1>4. Tail(s) # <<>> /\ DOMAIN Tail(s) = 1 .. Len(s) - 1
  <2>1. Len(Tail(s)) # 0
    BY <1>2, <1>3
  <2>2. Tail(s) # <<>>
    BY <1>3, <2>1, EmptySeq
  <2>3. DOMAIN Tail(s) = 1 .. Len(Tail(s))
    BY <1>3, LenProperties
  <2>4. QED
    BY <1>3, <2>2, <2>3
<1>5. IsSeq(Tail(s))
  BY <1>3, SeqIsSeq
<1>6. Head(Tail(s)) = s[2]
  <2>1. Head(Tail(s)) = Tail(s)[1]
    OBVIOUS
  <2>2. 1 \in 1 .. Len(Tail(s))
    BY <1>2, <1>3
  <2>3. QED
    BY <2>1, <2>2, <1>3
<1>7. QED
  BY <1>2, <1>3, <1>4, <1>5, <1>6

(* The first element of a sequence is at its first position.               *)
LEMMA HeadInDomain ==
  ASSUME NEW s, IsSeq(s), s # <<>>
  PROVE  Head(s) = s[1] /\ 1 \in DOMAIN s
<1>1. Len(s) \in Nat \ {0} /\ DOMAIN s = 1 .. Len(s)
  BY EmptySeq, LenProperties DEF IsSeq
<1>2. QED
  BY <1>1

-----------------------------------------------------------------------------
(* A step of one process, and what it leaves to the others.                *)
Act(p) ==
  \/ Progress(p)
  \/ Killed(p) /\ UNCHANGED <<kernelVars, work, bld>>
  \/ Stall(p) /\ UNCHANGED <<work, bld>>

Alone(p) ==
  \A q \in Proc \ {p} :
    loc'[q] = loc[q] /\ kern'[q] = kern[q] /\ bld'[q] = bld[q] /\ todo'[q] = todo[q]

LEMMA WhoActs ==
  ASSUME Next
  PROVE  \/ \E p \in Proc : Act(p)
         \/ ContainerStops /\ UNCHANGED <<kernelVars, work, bld>>
BY DEF Next, Act

(* What the beginning of a kernel pull does to the locals.                 *)
PullsKernel(p, req, url, format, id) ==
  /\ kern' = [kern EXCEPT ![p].req = req, ![p].url = url, ![p].format = format,
                          ![p].count = @ + 1]
  /\ \E at \in {"kerneled", "resolve", "download"} : \E ref :
       /\ at = "kerneled" => id # NoId
       /\ loc' = [loc EXCEPT ![p].at = at, ![p].id = id, ![p].pulling = "kernel",
                             ![p].ref = ref, ![p].platform = <<"linux", req.arch>>]

LEMMA PullKernelCases ==
  ASSUME NEW p \in Proc, ShapesOK, PullKernel(p)
  PROVE  \/ FailMet(p) /\ kern' = kern
         \/ LET asked == ParseKernelRef(Wanted(p))
                req == [asked EXCEPT !.arch = IF @ = "" THEN hostArchKernel ELSE @]
                found == ResolveKernel(req)
                full == [req EXCEPT !.version = found.version]
            IN  /\ asked.ok /\ found.ok
                /\ PullsKernel(p, full, found.url, found.format, ResolveStored(full))
<1> DEFINE asked == ParseKernelRef(Wanted(p))
           req == [asked EXCEPT !.arch = IF @ = "" THEN hostArchKernel ELSE @]
           found == ResolveKernel(req)
           full == [req EXCEPT !.version = found.version]
           at == IF ResolveStored(full) # NoId /\ HasNinePModules(ResolveStored(full))
                   THEN "kerneled"
                 ELSE IF found.format = "oci-image" THEN "resolve" ELSE "download"
           ref == IF found.format = "oci-image" THEN OCIImageRef(found.url) ELSE loc[p].ref
<1>1. \/ FailMet(p) /\ kern' = kern
      \/ /\ asked.ok /\ found.ok
         /\ kern' = [kern EXCEPT ![p].req = full, ![p].url = found.url,
                       ![p].format = found.format, ![p].count = @ + 1]
         /\ loc' = [loc EXCEPT
              ![p].at = at, ![p].id = ResolveStored(full), ![p].pulling = "kernel",
              ![p].ref = IF found.format = "oci-image" THEN OCIImageRef(found.url) ELSE @,
              ![p].platform = <<"linux", full.arch>>]
  BY DEF PullKernel
<1>2. /\ at \in {"kerneled", "resolve", "download"}
      /\ at = "kerneled" => ResolveStored(full) # NoId
  OBVIOUS
<1> HIDE DEF asked, req, found, full, at
<1>3. CASE FailMet(p) /\ kern' = kern
  BY <1>3
<1>4. ASSUME loc' = [loc EXCEPT
              ![p].at = at, ![p].id = ResolveStored(full), ![p].pulling = "kernel",
              ![p].ref = IF found.format = "oci-image" THEN OCIImageRef(found.url) ELSE @,
              ![p].platform = <<"linux", full.arch>>]
      PROVE  loc' = [loc EXCEPT
              ![p].at = at, ![p].id = ResolveStored(full), ![p].pulling = "kernel",
              ![p].ref = ref, ![p].platform = <<"linux", full.arch>>]
  BY <1>4 DEF ShapesOK, LocFields
<1>5. CASE asked.ok /\ found.ok /\ ~(FailMet(p) /\ kern' = kern)
  <2>1. PullsKernel(p, full, found.url, found.format, ResolveStored(full))
    BY <1>1, <1>2, <1>4, <1>5 DEF PullsKernel
  <2>2. QED
    BY <2>1, <1>5 DEF asked, req, found, full
<1>6. QED
  BY <1>1, <1>3, <1>5

(* What load does to the locals.                                           *)
LEMMA ReadArchiveCases ==
  ASSUME NEW p \in Proc, ReadArchive(p)
  PROVE  /\ UNCHANGED <<stores, archive, containers, todo, faults, kills>>
         /\ \/ Fail(p) /\ images' = images
            \/ /\ archive # <<>>
               /\ Put(NewId(p), [EmptyDir EXCEPT !.config = archive[1].config])
               /\ loc' = [loc EXCEPT ![p].at = "load", ![p].id = NewId(p),
                                     ![p].names = {archive[1].name},
                                     ![p].next = "done", ![p].strict = FALSE]
BY DEF ReadArchive

(* What the answer to the request for a configuration does to the locals.  *)
RemoteId(p) == <<"remote", loc[p].image, 0>>

GotConfig(p, at, config, names, strict) ==
  /\ at = IF Has(RemoteId(p)) THEN "load" ELSE "layer"
  /\ config = Dir(RemoteId(p)).config /\ names = {FullName(loc[p].ref)}
  /\ loc' = [loc EXCEPT ![p].id = RemoteId(p), ![p].tries = 0, ![p].n = 1,
       ![p].at = at, ![p].config = config, ![p].store = "image",
       ![p].names = names, ![p].next = "pulled", ![p].strict = strict]

LEMMA FetchConfigCases ==
  ASSUME NEW p \in Proc, FetchConfig(p)
  PROVE  /\ UNCHANGED <<stores, files, todo, kills>>
         /\ \/ FailMet(p)
            \/ \E at, config, names, strict : GotConfig(p, at, config, names, strict)
<1> DEFINE at == IF Has(RemoteId(p)) THEN "load" ELSE "layer"
           config == Dir(RemoteId(p)).config
           names == {FullName(loc[p].ref)}
           strict == IF Has(RemoteId(p)) THEN FALSE ELSE TRUE
<1>1. UNCHANGED <<stores, files, todo, kills>>
  BY DEF FetchConfig
<1>2. FailMet(p) \/ GotConfig(p, at, config, names, strict)
  BY DEF FetchConfig, RemoteId, GotConfig
<1>3. QED
  BY <1>1, <1>2

LEMMA ShapesKept ==
  ASSUME NEW p \in Proc, Shapes, Act(p)
  PROVE  ShapesOK' /\ Alone(p)
<1>0. ShapesOK /\ CommandsOK
  BY DEF Shapes
<1>1. ASSUME ImageStep(p), UNCHANGED <<kernelVars, work, bld>>
      PROVE  ShapesOK' /\ Alone(p)
  <2>0. UNCHANGED <<kern, bld>>
    BY <1>1 DEF kernelVars
  <2>1. CASE PullResolve(p)
    BY <2>1, <1>0, <2>0 DEF PullResolve, ShapesOK, LocFields, Alone, Goto, Fail, FailMet, stores
  <2>2. CASE FetchManifest(p)
    <3>1. UNCHANGED stores /\ UNCHANGED todo
      BY <2>2 DEF FetchManifest
    <3>2. \/ FailMet(p)
          \/ \E at, image : loc' = [loc EXCEPT ![p].at = at, ![p].image = image, ![p].tries = 0]
      BY <2>2 DEF FetchManifest
    <3>3. QED
      BY <1>0, <2>0, <3>1, <3>2 DEF ShapesOK, Alone, FailMet, stores
  <2>3. CASE FetchPlatform(p)
    BY <2>3, <1>0, <2>0 DEF FetchPlatform, ShapesOK, LocFields, Alone, Goto, Fail, FailMet, stores
  <2>4. CASE NextLayer(p)
    BY <2>4, <1>0, <2>0 DEF NextLayer, ShapesOK, LocFields, Alone, Goto, Fail, FailMet, stores
  <2>5. CASE GetBlob(p)
    BY <2>5, <1>0, <2>0 DEF GetBlob, ShapesOK, LocFields, Alone, Goto, Fail, FailMet, stores
  <2>6. CASE ExtractEntry(p)
    BY <2>6, <1>0, <2>0 DEF ExtractEntry, ShapesOK, LocFields, Alone, Goto, Fail, FailMet, stores
  <2>7. CASE VerifyLayer(p)
    BY <2>7, <1>0, <2>0 DEF VerifyLayer, ShapesOK, LocFields, Alone, Goto, Fail, FailMet, stores
  <2>8. CASE SaveImage(p)
    BY <2>8, <1>0, <2>0 DEF SaveImage, ShapesOK, LocFields, Alone, Goto, Fail, FailMet, stores
  <2>9. CASE Pulled(p)
    BY <2>9, <1>0, <2>0 DEF Pulled, ShapesOK, LocFields, Alone, Goto, Fail, FailMet, stores
  <2>10. CASE FailedAttempt(p)
    BY <2>10, <1>0, <2>0 DEF FailedAttempt, ShapesOK, LocFields, Alone, Goto, Fail, FailMet, stores
  <2>11. CASE LoadIndex(p)
    BY <2>11, <1>0, <2>0 DEF LoadIndex, ShapesOK, LocFields, Alone, Goto, Fail, FailMet, stores
  <2>12. CASE Truncate(p)
    BY <2>12, <1>0, <2>0 DEF Truncate, ShapesOK, LocFields, Alone, Goto, Fail, FailMet, stores
  <2>13. CASE SaveIndex(p)
    BY <2>13, <1>0, <2>0 DEF SaveIndex, ShapesOK, LocFields, Alone, Goto, Fail, FailMet, stores
  <2>14. CASE RmiResolve(p)
    BY <2>14, <1>0, <2>0 DEF RmiResolve, ShapesOK, LocFields, Alone, Goto, Fail, FailMet, stores
  <2>15. CASE RemoveAll(p)
    BY <2>15, <1>0, <2>0 DEF RemoveAll, ShapesOK, LocFields, Alone, Goto, Fail, FailMet, stores
  <2>16. CASE WriteArchive(p)
    BY <2>16, <1>0, <2>0 DEF WriteArchive, ShapesOK, LocFields, Alone, Goto, Fail, FailMet, stores
  <2>17. CASE AssembleRootfs(p)
    BY <2>17, <1>0, <2>0 DEF AssembleRootfs, ShapesOK, LocFields, Alone, Goto, Fail, FailMet, stores
  <2>18. CASE CopyLayer(p)
    BY <2>18, <1>0, <2>0 DEF CopyLayer, ShapesOK, LocFields, Alone, Goto, Fail, FailMet, stores
  <2>19. CASE Assembled(p)
    BY <2>19, <1>0, <2>0 DEF Assembled, ShapesOK, LocFields, Alone, Goto, Fail, FailMet, stores
  <2>20. CASE CopyKernel(p)
    BY <2>20, <1>0, <2>0 DEF CopyKernel, ShapesOK, LocFields, Alone, Goto, Fail, FailMet, stores
  <2>21. CASE ReadArchive(p)
    <3>1. /\ UNCHANGED stores /\ UNCHANGED todo
          /\ \/ Fail(p)
             \/ \E id, names :
                  loc' = [loc EXCEPT ![p].at = "load", ![p].id = id, ![p].names = names,
                                     ![p].next = "done", ![p].strict = FALSE]
      BY <2>21 DEF ReadArchive
    <3>2. CASE Fail(p)
      BY <1>0, <2>0, <3>1, <3>2 DEF ShapesOK, Alone, Fail, stores
    <3>3. ASSUME NEW id, NEW names,
                 loc' = [loc EXCEPT ![p].at = "load", ![p].id = id, ![p].names = names,
                                    ![p].next = "done", ![p].strict = FALSE]
          PROVE  ShapesOK' /\ Alone(p)
      BY <1>0, <2>0, <3>1, <3>3 DEF ShapesOK, Alone, stores
    <3>4. QED
      BY <3>1, <3>2, <3>3
  <2>22. CASE FetchConfig(p)
    <3>1. CASE FailMet(p)
      BY <1>0, <2>0, <2>22, <3>1, FetchConfigCases
         DEF ShapesOK, Alone, FailMet, stores
    <3>2. ASSUME NEW at, NEW config, NEW names, NEW strict,
                 GotConfig(p, at, config, names, strict)
          PROVE  ShapesOK' /\ Alone(p)
      <4>1. UNCHANGED stores /\ UNCHANGED todo
        BY <2>22, FetchConfigCases
      <4>2. QED
        BY <1>0, <2>0, <3>2, <4>1 DEF GotConfig, ShapesOK, Alone, stores
    <3>3. QED
      BY <2>22, <3>1, <3>2, FetchConfigCases
  <2>23. QED
    BY <1>1, <2>1, <2>2, <2>3, <2>4, <2>5, <2>6, <2>7, <2>8, <2>9, <2>10, <2>11, <2>12, <2>13,
       <2>14, <2>15, <2>16, <2>17, <2>18, <2>19, <2>20, <2>21, <2>22 DEF ImageStep, Pull
<1>2. ASSUME KernelStep(p) \/ Stall(p), UNCHANGED <<work, bld>>
      PROVE  ShapesOK' /\ Alone(p)
  <2>0. UNCHANGED bld
    BY <1>2
  <2>1. CASE DownloadArchive(p)
    BY <2>1, <1>0, <2>0 DEF DownloadArchive, ShapesOK, LocFields, Alone, Goto, Fail, FailMet,
       stores, kernelVars
  <2>2. CASE DownloadEnds(p)
    BY <2>2, <1>0, <2>0 DEF DownloadEnds, ShapesOK, LocFields, Alone, Goto, Fail, FailMet, stores,
       kernelVars
  <2>3. CASE ExtractArchive(p)
    BY <2>3, <1>0, <2>0 DEF ExtractArchive, ShapesOK, LocFields, Alone, Goto, Fail, FailMet, stores,
       kernelVars
  <2>4. CASE OCIKernelPulled(p)
    BY <2>4, <1>0, <2>0 DEF OCIKernelPulled, ShapesOK, LocFields, Alone, Goto, Fail, FailMet,
       stores, kernelVars
  <2>5. CASE CopyBinary(p)
    BY <2>5, <1>0, <2>0 DEF CopyBinary, ShapesOK, LocFields, Alone, Goto, Fail, FailMet, stores,
       kernelVars
  <2>6. CASE CopyModule(p)
    BY <2>6, <1>0, <2>0 DEF CopyModule, ShapesOK, LocFields, Alone, Goto, Fail, FailMet, stores,
       kernelVars
  <2>7. CASE SaveKernel(p)
    BY <2>7, <1>0, <2>0 DEF SaveKernel, ShapesOK, LocFields, Alone, Goto, Fail, FailMet, stores,
       kernelVars
  <2>8. CASE KernelPulled(p)
    BY <2>8, <1>0, <2>0 DEF KernelPulled, ShapesOK, LocFields, Alone, Goto, Fail, FailMet, stores,
       kernelVars
  <2>9. CASE FindStored(p)
    BY <2>9, <1>0, <2>0 DEF FindStored, ShapesOK, LocFields, Alone, Goto, Fail, FailMet, stores,
       kernelVars
  <2>10. CASE RemoveKernel(p)
    BY <2>10, <1>0, <2>0 DEF RemoveKernel, ShapesOK, LocFields, Alone, Goto, Fail, FailMet, stores,
       kernelVars
  <2>11. CASE Stall(p)
    BY <2>11, <1>0, <2>0 DEF Stall, ShapesOK, LocFields, Alone, Goto, Fail, FailMet, stores,
       kernelVars
  <2>12. CASE PullKernel(p)
    <3>1. UNCHANGED stores /\ UNCHANGED todo
      BY <2>12 DEF PullKernel
    <3>2. \/ FailMet(p) /\ kern' = kern
          \/ \E req, url, format, id : PullsKernel(p, req, url, format, id)
      BY <1>0, <2>12, PullKernelCases
    <3>3. CASE FailMet(p) /\ kern' = kern
      BY <1>0, <2>0, <3>1, <3>3 DEF ShapesOK, Alone, LocFields, FailMet, stores
    <3>4. ASSUME NEW req, NEW url, NEW format, NEW id, PullsKernel(p, req, url, format, id)
          PROVE  ShapesOK' /\ Alone(p)
      BY <1>0, <2>0, <3>1, <3>4
         DEF PullsKernel, ShapesOK, Alone, LocFields, KernFields, stores
    <3>5. QED
      BY <3>2, <3>3, <3>4
  <2>13. QED
    BY <1>2, <2>1, <2>2, <2>3, <2>4, <2>5, <2>6, <2>7, <2>8, <2>9, <2>10, <2>11, <2>12 DEF
       KernelStep
<1>3. ASSUME BuildStep(p)
      PROVE  ShapesOK' /\ Alone(p)
  <2>1. CASE ParseDockerfile(p)
    <3>1. /\ UNCHANGED stores /\ UNCHANGED todo /\ UNCHANGED kern
          /\ \E at : Goto(p, at)
          /\ \/ bld' = bld
             \/ \E instrs, settings :
                  bld' = [bld EXCEPT ![p] = [NoBuild EXCEPT !.instrs = instrs,
                                                            !.settings = settings]]
      BY <2>1 DEF ParseDockerfile, kernelVars
    <3>2. QED
      BY <1>0, <3>1 DEF ShapesOK, Alone, Goto, NoBuild, BldFields, stores
  <2>2. CASE BeginProcess(p)
    BY <2>2, <1>0 DEF BeginProcess, ShapesOK, LocFields, Alone, Goto, Fail, FailMet, stores,
       BldFields, kernelVars, ImageNames, Step, NoBuild
  <2>3. CASE HandleFrom(p)
    BY <2>3, <1>0 DEF HandleFrom, ShapesOK, LocFields, Alone, Goto, Fail, FailMet, stores,
       BldFields, kernelVars, ImageNames, Step, NoBuild
  <2>4. CASE FromPulled(p)
    BY <2>4, <1>0 DEF FromPulled, ShapesOK, LocFields, Alone, Goto, Fail, FailMet, stores,
       BldFields, kernelVars, ImageNames, Step, NoBuild
  <2>5. CASE CopyBaseLayer(p)
    BY <2>5, <1>0 DEF CopyBaseLayer, ShapesOK, LocFields, Alone, Goto, Fail, FailMet, stores,
       BldFields, kernelVars, ImageNames, Step, NoBuild
  <2>6. CASE FromEnds(p)
    BY <2>6, <1>0 DEF FromEnds, ShapesOK, LocFields, Alone, Goto, Fail, FailMet, stores, BldFields,
       kernelVars, ImageNames, Step, NoBuild
  <2>7. CASE HandleKernel(p)
    BY <2>7, <1>0 DEF HandleKernel, ShapesOK, LocFields, Alone, Goto, Fail, FailMet, stores,
       BldFields, kernelVars, ImageNames, Step, NoBuild
  <2>8. CASE KernelEnds(p)
    BY <2>8, <1>0 DEF KernelEnds, ShapesOK, LocFields, Alone, Goto, Fail, FailMet, stores,
       BldFields, kernelVars, ImageNames, Step, NoBuild
  <2>9. CASE HandleRun(p)
    BY <2>9, <1>0 DEF HandleRun, ShapesOK, LocFields, Alone, Goto, Fail, FailMet, stores, BldFields,
       kernelVars, ImageNames, Step, NoBuild
  <2>10. CASE Machine(p)
    BY <2>10, <1>0 DEF Machine, ShapesOK, LocFields, Alone, Goto, Fail, FailMet, stores, BldFields,
       kernelVars, ImageNames, Step, NoBuild
  <2>11. CASE RunEnds(p)
    BY <2>11, <1>0 DEF RunEnds, ShapesOK, LocFields, Alone, Goto, Fail, FailMet, stores, BldFields,
       kernelVars, ImageNames, Step, NoBuild
  <2>12. CASE HandleCopy(p)
    BY <2>12, <1>0 DEF HandleCopy, ShapesOK, LocFields, Alone, Goto, Fail, FailMet, stores,
       BldFields, kernelVars, ImageNames, Step, NoBuild
  <2>13. CASE Configure(p)
    BY <2>13, <1>0 DEF Configure, ShapesOK, LocFields, Alone, Goto, Fail, FailMet, stores,
       BldFields, kernelVars, ImageNames, Step, NoBuild
  <2>14. CASE ProcessEnds(p)
    BY <2>14, <1>0 DEF ProcessEnds, ShapesOK, LocFields, Alone, Goto, Fail, FailMet, stores,
       BldFields, kernelVars, ImageNames, Step, NoBuild
  <2>15. CASE CommitKernel(p)
    BY <2>15, <1>0 DEF CommitKernel, ShapesOK, LocFields, Alone, Goto, Fail, FailMet, stores,
       BldFields, kernelVars, ImageNames, Step, NoBuild
  <2>16. CASE CommitRootfs(p)
    BY <2>16, <1>0 DEF CommitRootfs, ShapesOK, LocFields, Alone, Goto, Fail, FailMet, stores,
       BldFields, kernelVars, ImageNames, Step, NoBuild
  <2>17. CASE CommitSave(p)
    BY <2>17, <1>0 DEF CommitSave, ShapesOK, LocFields, Alone, Goto, Fail, FailMet, stores,
       BldFields, kernelVars, ImageNames, Step, NoBuild
  <2>18. CASE CleanUp(p)
    BY <2>18, <1>0 DEF CleanUp, ShapesOK, LocFields, Alone, Goto, Fail, FailMet, stores, BldFields,
       kernelVars, ImageNames, Step, NoBuild
  <2>19. QED
    BY <1>3, <2>1, <2>2, <2>3, <2>4, <2>5, <2>6, <2>7, <2>8, <2>9, <2>10, <2>11, <2>12, <2>13,
       <2>14, <2>15, <2>16, <2>17, <2>18 DEF BuildStep
<1>4. ASSUME NextCommand(p) \/ Killed(p), UNCHANGED <<kernelVars, work, bld>>
      PROVE  ShapesOK' /\ Alone(p)
  <2>0. UNCHANGED <<kern, bld>>
    BY <1>4 DEF kernelVars
  <2>1. CASE NextCommand(p)
    <3>1. PICK l : loc' = [loc EXCEPT ![p] = l] /\ DOMAIN l = LocFields
      <4>1. loc' = [loc EXCEPT ![p] = Local(todo[p][2])]
        BY <2>1 DEF NextCommand
      <4>2. DOMAIN Local(todo[p][2]) = LocFields
        BY DEF Local, LocFields
      <4>3. QED
        BY <4>1, <4>2
    <3>2. DOMAIN todo' = DOMAIN todo /\ \A q \in Proc \ {p} : todo'[q] = todo[q]
      BY <1>0, <2>1 DEF NextCommand, CommandsOK
    <3>3. UNCHANGED stores
      BY <2>1 DEF NextCommand
    <3>4. QED
      BY <1>0, <2>0, <3>1, <3>2, <3>3 DEF ShapesOK, Alone, stores
  <2>2. CASE Killed(p)
    BY <1>0, <2>0, <2>2 DEF Killed, Goto, ShapesOK, LocFields, Alone, stores
  <2>3. QED
    BY <1>4, <2>1, <2>2
<1>5. QED
  BY <1>1, <1>2, <1>3, <1>4 DEF Act, Progress

LEMMA CommandsKept ==
  ASSUME NEW p \in Proc, Shapes, Act(p)
  PROVE  CommandsOK' /\ (todo' = todo \/ NextCommand(p))
<1>0. ShapesOK /\ CommandsOK
  BY DEF Shapes
<1>1. CASE NextCommand(p)
  <2>1. IsSeq(todo[p]) /\ Len(todo[p]) > 1
    BY <1>0, <1>1 DEF CommandsOK, NextCommand
  <2>2. /\ IsSeq(Tail(todo[p])) /\ Tail(todo[p]) # <<>>
        /\ \A i \in DOMAIN Tail(todo[p]) :
             Tail(todo[p])[i] = todo[p][i + 1] /\ i + 1 \in DOMAIN todo[p]
    BY <2>1, TailIsSeq
  <2>3. todo'[p] = Tail(todo[p]) /\ DOMAIN todo' = Proc
    BY <1>0, <1>1 DEF NextCommand, CommandsOK
  <2>4. \A q \in Proc \ {p} : todo'[q] = todo[q]
    BY <1>0, <1>1 DEF NextCommand, CommandsOK
  <2>5. \A i \in DOMAIN todo'[p] :
          todo'[p][i] = todo[p][i + 1] /\ i + 1 \in DOMAIN todo[p]
    BY <2>2, <2>3
  <2>6. IsSeq(todo'[p]) /\ todo'[p] # <<>>
    BY <2>2, <2>3
  <2>7. \A i \in DOMAIN todo'[p] :
          /\ todo'[p][i].kind \in DOMAIN First /\ IsSeq(todo'[p][i].kernel)
          /\ todo'[p][i].kind = "build" => todo'[p][i].lines \in Dockerfiles
    BY <1>0, <2>5 DEF CommandsOK
  <2>8. CommandsOK'
    BY <1>0, <2>3, <2>4, <2>6, <2>7 DEF CommandsOK
  <2>9. QED
    BY <1>1, <2>8
<1>2. CASE todo' = todo
  BY <1>0, <1>2 DEF CommandsOK
<1>3. todo' = todo \/ NextCommand(p)
  <2>1. ImageStep(p) => todo' = todo
    BY DEF ImageStep, Pull, PullResolve, FetchManifest, FetchPlatform,
           FetchConfig, NextLayer, GetBlob, ExtractEntry, VerifyLayer,
           SaveImage, Pulled, FailedAttempt, LoadIndex, Truncate, SaveIndex,
           RmiResolve, RemoveAll, WriteArchive, ReadArchive, AssembleRootfs,
           CopyLayer, Assembled, CopyKernel
  <2>2. KernelStep(p) \/ Stall(p) => todo' = todo
    BY DEF KernelStep, PullKernel, Stall, DownloadArchive, DownloadEnds,
           ExtractArchive, OCIKernelPulled, CopyBinary, CopyModule,
           SaveKernel, KernelPulled, FindStored, RemoveKernel
  <2>3. BuildStep(p) => todo' = todo
    BY DEF BuildStep, ParseDockerfile, BeginProcess, HandleFrom, FromPulled,
           CopyBaseLayer, FromEnds, HandleKernel, KernelEnds, HandleRun,
           Machine, RunEnds, HandleCopy, Configure, ProcessEnds, CommitKernel,
           CommitRootfs, CommitSave, CleanUp
  <2>4. Killed(p) => todo' = todo
    BY DEF Killed
  <2>5. QED
    BY <2>1, <2>2, <2>3, <2>4 DEF Act, Progress
<1>4. QED
  BY <1>1, <1>2, <1>3

-----------------------------------------------------------------------------
(* What a step does to the locals of its process, as far as the invariants *)
(* of the stores need it.                                                  *)
PullPlaces == {"resolve", "manifest", "platform", "config"}
LayerPlaces == {"layer", "blob", "extract", "save"}
LoadPlaces == {"download", "body", "unpack"}
Idle ==
  {"done", "failed", "build failed", "killed", "panicked", "stalled", "copy", "copy kernel",
   "begin", "step", "commit kernel", "commit rootfs", "commit save", "save image"}

KeepsRoute(p) == loc'[p].store = loc[p].store /\ loc'[p].next = loc[p].next
KeepsIndex(p) == loc'[p].idx = loc[p].idx /\ loc'[p].names = loc[p].names
KeepsId(p) == loc'[p].id = loc[p].id /\ loc'[p].pulling = loc[p].pulling

KeepsPlace(p) ==
  loc'[p].at = loc[p].at /\ KeepsRoute(p) /\ KeepsIndex(p) /\ KeepsId(p)
ToIdle(p) == loc'[p].at \in Idle
Halts == {"done", "failed", "killed", "panicked", "stalled", "copy", "copy kernel"}
Stops(p) == loc'[p].at \in Halts \/ (loc'[p].at = "build failed" /\ Cmd(p).kind = "build")
PullsOn(p) ==
  /\ loc[p].at \in PullPlaces /\ loc'[p].at \in {"manifest", "platform", "config", "pulled"}
  /\ loc'[p].pulling = loc[p].pulling
ToImage(p) ==
  /\ loc[p].at = "config" /\ loc'[p].at \in {"load", "layer"}
  /\ loc'[p].pulling = loc[p].pulling /\ loc'[p].id[1] = "remote"
  /\ loc'[p].store = "image" /\ loc'[p].next = "pulled"
InLayers(p) ==
  /\ loc[p].at \in LayerPlaces /\ loc'[p].at \in LayerPlaces \cup {"load"}
  /\ KeepsRoute(p) /\ KeepsId(p)
Loads(p) ==
  /\ loc[p].at = "load" /\ loc'[p].at = "truncate" /\ KeepsRoute(p) /\ KeepsId(p)
  /\ loc'[p].idx = index[loc[p].store]
  /\ loc'[p].names = IF loc[p].next \in {"removing", "kernel removing"}
                       THEN {n \in DOMAIN loc'[p].idx : loc'[p].idx[n] = loc[p].id}
                       ELSE loc[p].names
Truncates(p) ==
  /\ loc[p].at = "truncate" /\ loc'[p].at = "write"
  /\ KeepsRoute(p) /\ KeepsId(p) /\ KeepsIndex(p)
Writes(p) ==
  /\ loc[p].at = "write" /\ loc'[p].at = loc[p].next
  /\ KeepsRoute(p) /\ KeepsId(p) /\ KeepsIndex(p)
ToIndex(p) ==
  /\ loc[p].at \in {"rmi", "load image", "commit save"} /\ loc'[p].at = "load"
  /\ \/ loc[p].at # "commit save" /\ loc'[p].store = loc[p].store
     \/ loc'[p].store = "image"
  /\ loc'[p].next \in {"removing", "done", "clean"}
  /\ loc'[p].next = "clean" <=> loc[p].at = "commit save"
Unfinished(p) == bld[p].pos <= Len(bld[p].instrs)
ToBase(p) ==
  /\ loc[p].at = "step" /\ Unfinished(p)
  /\ loc'[p].at = "resolve" /\ loc'[p].pulling = "image"
ToWork(p) ==
  \/ loc[p].at = "step" /\ Unfinished(p) /\ loc'[p].at \in {"kernel", "machine"}
  \/ loc[p].at = "pulled" /\ Cmd(p).kind = "build" /\ loc'[p].at = "from"
  \/ loc[p].at = "from" /\ loc'[p].at = "from"
  \/ loc[p].at = "machine" /\ loc'[p].at = "ran"
ToKernel(p) ==
  /\ loc[p].at = "kernel" /\ loc'[p].at \in {"kerneled", "resolve", "download"}
  /\ loc'[p].pulling = "kernel"
Downloads(p) ==
  /\ loc'[p].at \in {"body", "unpack", "binary"}
  /\ loc[p].at \in LoadPlaces \/ (loc[p].at = "pulled" /\ loc[p].pulling = "kernel")
  /\ KeepsRoute(p) /\ KeepsId(p)
ToModules(p) ==
  /\ loc[p].at = "binary" /\ loc'[p].at = "modules" /\ loc'[p].id = NewKernelId(p)
ToSaving(p) ==
  /\ loc[p].at = "modules" /\ loc'[p].at = "load" /\ KeepsId(p)
  /\ loc'[p].store = "kernel" /\ loc'[p].next = "kerneled"
  /\ loc'[p].names = {KernelName(kern[p].req)}
ToRemoving(p) ==
  /\ loc[p].at = "kernel rm" /\ loc'[p].at = "load"
  /\ loc'[p].id = ResolveStored(ParseKernelRef(Wanted(p))) /\ loc'[p].id # NoId
  /\ loc'[p].store = "kernel" /\ loc'[p].next = "kernel removing"
Begins(p) ==
  /\ loc'[p].at = First[Cmd(p)'.kind] /\ Cmd(p)'.kind \in DOMAIN First
  /\ loc'[p].store = "image" /\ loc'[p].pulling = "image"

Moves(p) ==
  \/ loc' = loc
  \/ KeepsPlace(p) \/ Stops(p) \/ (BuildStep(p) /\ ToIdle(p))
  \/ PullsOn(p) \/ ToImage(p) \/ InLayers(p)
  \/ LoadIndex(p) /\ Loads(p)
  \/ Truncate(p) /\ Truncates(p)
  \/ SaveIndex(p) /\ Writes(p)
  \/ ToIndex(p) \/ ToBase(p) \/ ToWork(p)
  \/ PullKernel(p) /\ ToKernel(p)
  \/ Downloads(p)
  \/ CopyBinary(p) /\ ToModules(p)
  \/ SaveKernel(p) /\ ToSaving(p)
  \/ FindStored(p) /\ ToRemoving(p)
  \/ NextCommand(p) /\ Begins(p)

(* Where a command begins.                                                 *)
LEMMA FirstPlaces ==
  ASSUME NEW k \in DOMAIN First
  PROVE  /\ First[k] \in {"resolve", "rmi", "save image", "load image", "parse", "kernel",
                           "kernel rm"}
         /\ First[k] = "parse" <=> k = "build"
<1>1. k \in {"pull", "run", "rmi", "save", "load", "build", "kpull", "krm"}
  BY DEF First
<1>2. /\ First.pull = "resolve" /\ First.run = "resolve" /\ First.rmi = "rmi"
      /\ First.save = "save image" /\ First.load = "load image" /\ First.build = "parse"
      /\ First.kpull = "kernel" /\ First.krm = "kernel rm"
  BY DEF First
<1>3. QED
  BY <1>1, <1>2

LEMMA NextBegins ==
  ASSUME NEW p \in Proc, Shapes, Act(p), NextCommand(p)
  PROVE  Begins(p)
<1>0. ShapesOK /\ CommandsOK
  BY DEF Shapes
<1>1. IsSeq(todo[p]) /\ Len(todo[p]) > 1
  BY <1>0 DEF CommandsOK, NextCommand
<1>2. todo'[p] = Tail(todo[p]) /\ loc'[p] = Local(todo[p][2])
  BY <1>0 DEF NextCommand, CommandsOK, ShapesOK
<1>3. Cmd(p)' = todo[p][2]
  BY <1>1, <1>2, TailIsSeq DEF Cmd
<1>4. Cmd(p)'.kind \in DOMAIN First
  <2>1. CommandsOK'
    BY CommandsKept
  <2>2. IsSeq(todo'[p]) /\ todo'[p] # <<>>
    BY <2>1 DEF CommandsOK
  <2>3. Cmd(p)' = todo'[p][1] /\ 1 \in DOMAIN todo'[p]
    BY <2>2, HeadInDomain DEF Cmd
  <2>4. QED
    BY <2>1, <2>3 DEF CommandsOK
<1>5. /\ loc'[p].at = First[todo[p][2].kind]
      /\ loc'[p].store = "image" /\ loc'[p].pulling = "image"
  <2>1. ASSUME NEW cmd
        PROVE  /\ Local(cmd).at = First[cmd.kind]
               /\ Local(cmd).store = "image" /\ Local(cmd).pulling = "image"
    BY DEF Local
  <2>2. QED
    BY <1>2, <2>1
<1>6. QED
  BY <1>3, <1>4, <1>5 DEF Begins

LEMMA StopsIdle ==
  ASSUME NEW p, Stops(p)
  PROVE  ToIdle(p)
BY DEF Stops, Halts, ToIdle, Idle

LEMMA Flow ==
  ASSUME NEW p \in Proc, Shapes, Act(p)
  PROVE  Moves(p)
<1>0. ShapesOK /\ CommandsOK
  BY DEF Shapes
<1>1. Fail(p) \/ FailMet(p) => Stops(p)
  <2>1. Failed(p) = "failed" \/ (Failed(p) = "build failed" /\ Cmd(p).kind = "build")
    BY DEF Failed
  <2>2. ASSUME NEW x, \/ loc' = [loc EXCEPT ![p].at = x]
                      \/ loc' = [loc EXCEPT ![p].at = x, ![p].met = TRUE]
        PROVE  loc'[p].at = x
    <3>1. CASE loc' = [loc EXCEPT ![p].at = x]
      BY <1>0, <3>1 DEF ShapesOK, LocFields
    <3>2. CASE loc' = [loc EXCEPT ![p].at = x, ![p].met = TRUE]
      BY <1>0, <3>2 DEF ShapesOK, LocFields
    <3>3. QED
      BY <2>2, <3>1, <3>2
  <2>3. Fail(p) \/ FailMet(p) => loc'[p].at = Failed(p)
    BY <2>2 DEF Fail, FailMet
  <2>4. QED
    BY <2>1, <2>3 DEF Stops, Halts
<1>2. ASSUME Pull(p)
      PROVE  Moves(p)
  <2>1. ASSUME PullResolve(p)  PROVE PullsOn(p)
    BY <2>1, <1>0 DEF PullResolve, ShapesOK, LocFields, Goto, At, PullsOn,
       PullPlaces
  <2>2. ASSUME FetchManifest(p)  PROVE Stops(p) \/ PullsOn(p)
    <3>1. \/ FailMet(p)
          \/ At(p, "manifest") /\ \E at \in {"platform", "config"} : \E image :
               loc' = [loc EXCEPT ![p].at = at, ![p].image = image, ![p].tries = 0]
      BY <2>2 DEF FetchManifest, Goto
    <3>2. ASSUME At(p, "manifest"), NEW at \in {"platform", "config"}, NEW image,
                 loc' = [loc EXCEPT ![p].at = at, ![p].image = image, ![p].tries = 0]
          PROVE  Stops(p) \/ PullsOn(p)
      BY <3>2, <1>0, <2>2 DEF ShapesOK, LocFields, Goto, At, PullsOn,
         PullPlaces, Stops, Halts
    <3>3. QED
      BY <3>1, <1>1, <3>2
  <2>3. ASSUME FetchPlatform(p)  PROVE PullsOn(p)
    BY <2>3, <1>0 DEF FetchPlatform, ShapesOK, LocFields, Goto, At, PullsOn,
       PullPlaces
  <2>4. ASSUME NextLayer(p)  PROVE InLayers(p)
    <3>1. At(p, "layer") /\ \E at \in {"save", "blob"} : Goto(p, at)
      BY <2>4 DEF NextLayer, Goto
    <3>2. ASSUME At(p, "layer"), NEW at \in {"save", "blob"}, Goto(p, at)
          PROVE  InLayers(p)
      BY <3>2, <1>0, <2>4 DEF ShapesOK, LocFields, Goto, At, InLayers,
         LayerPlaces, KeepsRoute, KeepsId
    <3>3. QED
      BY <3>1, <3>2
  <2>5. ASSUME GetBlob(p)  PROVE InLayers(p)
    <3>1. At(p, "blob") /\ \E blob, met :
            loc' = [loc EXCEPT ![p].at = "extract", ![p].e = 1, ![p].tries = 0,
                               ![p].blob = blob, ![p].met = met]
      BY <2>5 DEF GetBlob, Goto
    <3>2. ASSUME At(p, "blob"), NEW blob, NEW met,
                 loc' = [loc EXCEPT ![p].at = "extract", ![p].e = 1, ![p].tries = 0,
                                    ![p].blob = blob, ![p].met = met]
          PROVE  InLayers(p)
      BY <3>2, <1>0, <2>5 DEF ShapesOK, LocFields, Goto, At, InLayers,
         LayerPlaces, KeepsRoute, KeepsId
    <3>3. QED
      BY <3>1, <3>2
  <2>6. ASSUME ExtractEntry(p)  PROVE Stops(p) \/ InLayers(p)
    <3>1. \/ Fail(p)
          \/ At(p, "extract") /\ loc' = [loc EXCEPT ![p].e = @ + 1]
      BY <2>6 DEF ExtractEntry, Goto
    <3>2. CASE At(p, "extract") /\ loc' = [loc EXCEPT ![p].e = @ + 1]
      BY <3>2, <1>0, <2>6 DEF ShapesOK, LocFields, Goto, At, Stops, Halts,
         InLayers, LayerPlaces, KeepsRoute, KeepsId
    <3>3. QED
      BY <3>1, <1>1, <3>2
  <2>7. ASSUME VerifyLayer(p)  PROVE Stops(p) \/ InLayers(p)
    <3>1. \/ Fail(p)
          \/ At(p, "extract") /\ loc' = [loc EXCEPT ![p].at = "layer", ![p].n = @ + 1]
      BY <2>7 DEF VerifyLayer, Goto
    <3>2. CASE At(p, "extract") /\ loc' = [loc EXCEPT ![p].at = "layer", ![p].n = @ + 1]
      BY <3>2, <1>0, <2>7 DEF ShapesOK, LocFields, Goto, At, Stops, Halts,
         InLayers, LayerPlaces, KeepsRoute, KeepsId
    <3>3. QED
      BY <3>1, <1>1, <3>2
  <2>8. ASSUME SaveImage(p)  PROVE InLayers(p)
    BY <2>8, <1>0 DEF SaveImage, ShapesOK, LocFields, Goto, At, InLayers,
       LayerPlaces, KeepsRoute, KeepsId
  <2>9. ASSUME Pulled(p)  PROVE Stops(p)
    BY <2>9, <1>0 DEF Pulled, ShapesOK, LocFields, Goto, At, Stops, Halts
  <2>10. ASSUME FailedAttempt(p)  PROVE Stops(p) \/ PullsOn(p) \/ InLayers(p) \/ KeepsPlace(p)
    <3>1. \/ FailMet(p)
          \/ loc[p].at \in Requests /\ loc' = [loc EXCEPT ![p].tries = @ + 1]
      BY <2>10 DEF FailedAttempt, Goto
    <3>2. CASE loc[p].at \in Requests /\ loc' = [loc EXCEPT ![p].tries = @ + 1]
      BY <3>2, <1>0, <2>10 DEF ShapesOK, LocFields, Goto, At, Requests,
         PullsOn, PullPlaces, Stops, Halts, InLayers, LayerPlaces, KeepsRoute,
         KeepsId, KeepsPlace, KeepsIndex, PullPlaces, LayerPlaces
    <3>3. QED
      BY <3>1, <1>1, <3>2
  <2>11. ASSUME Truncate(p)  PROVE Truncates(p)
    BY <2>11, <1>0 DEF Truncate, ShapesOK, LocFields, Goto, At, Truncates,
       KeepsRoute, KeepsIndex, KeepsId
  <2>12. ASSUME SaveIndex(p)  PROVE Stops(p) \/ Writes(p)
    <3>1. \/ FailMet(p)
          \/ At(p, "write") /\ Goto(p, loc[p].next)
      BY <2>12 DEF SaveIndex, Goto
    <3>2. CASE At(p, "write") /\ Goto(p, loc[p].next)
      BY <3>2, <1>0, <2>12 DEF ShapesOK, LocFields, Goto, At, Stops, Halts,
         Writes, KeepsRoute, KeepsIndex, KeepsId
    <3>3. QED
      BY <3>1, <1>1, <3>2
  <2>13. ASSUME LoadIndex(p)  PROVE Stops(p) \/ Loads(p)
    <3> DEFINE idx == index[loc[p].store]
               names == IF loc[p].next \in {"removing", "kernel removing"}
                          THEN {n \in DOMAIN idx : idx[n] = loc[p].id} ELSE loc[p].names
               at == IF loc[p].strict THEN Failed(p) ELSE "panicked"
    <3>1. \/ loc' = [loc EXCEPT ![p].at = "truncate", ![p].idx = idx, ![p].names = names]
          \/ loc' = [loc EXCEPT ![p].at = at, ![p].met = TRUE]
      BY <2>13, <1>0 DEF LoadIndex, ShapesOK, LocFields
    <3>2. /\ loc[p].at = "load"
          /\ at \in {"failed", "panicked"} \/ (at = "build failed" /\ Cmd(p).kind = "build")
      BY <2>13 DEF LoadIndex, At, Failed
    <3> HIDE DEF idx, names, at
    <3>3. CASE loc' = [loc EXCEPT ![p].at = at, ![p].met = TRUE]
      <4>1. loc'[p].at = at
        BY <3>3, <1>0 DEF ShapesOK, LocFields
      <4>2. QED
        BY <3>2, <4>1 DEF Stops, Halts
    <3>4. CASE loc' = [loc EXCEPT ![p].at = "truncate", ![p].idx = idx, ![p].names = names]
      <4>1. /\ loc'[p].at = "truncate" /\ KeepsRoute(p) /\ KeepsId(p)
            /\ loc'[p].idx = idx /\ loc'[p].names = names
        BY <3>4, <1>0 DEF KeepsRoute, KeepsId, ShapesOK, LocFields
      <4>2. QED
        BY <3>2, <4>1 DEF Loads, idx, names
    <3>5. QED
      BY <3>1, <3>3, <3>4
  <2>14. ASSUME FetchConfig(p)  PROVE Stops(p) \/ ToImage(p)
    <3>1. loc[p].at = "config"
      BY <2>14 DEF FetchConfig, At
    <3>2. ASSUME NEW at, NEW config, NEW names, NEW strict,
                 GotConfig(p, at, config, names, strict)
          PROVE  ToImage(p)
      <4>1. at \in {"load", "layer"} /\ RemoteId(p)[1] = "remote"
        BY <3>2 DEF GotConfig, RemoteId
      <4>2. /\ loc'[p].at = at /\ loc'[p].id = RemoteId(p) /\ loc'[p].pulling = loc[p].pulling
            /\ loc'[p].store = "image" /\ loc'[p].next = "pulled"
        <5>1. PICK id : id = RemoteId(p)
          OBVIOUS
        <5>2. loc' = [loc EXCEPT ![p].id = id, ![p].tries = 0, ![p].n = 1, ![p].at = at,
                                 ![p].config = config, ![p].store = "image",
                                 ![p].names = names, ![p].next = "pulled",
                                 ![p].strict = strict]
          BY <3>2, <5>1 DEF GotConfig
        <5>3. /\ loc'[p].at = at /\ loc'[p].id = id /\ loc'[p].pulling = loc[p].pulling
              /\ loc'[p].store = "image" /\ loc'[p].next = "pulled"
          BY <5>2, <1>0 DEF ShapesOK, LocFields
        <5>4. QED
          BY <5>1, <5>3
      <4>3. QED
        BY <3>1, <4>1, <4>2 DEF ToImage
    <3>3. QED
      BY <2>14, <3>2, <1>1, FetchConfigCases
  <2>15. QED
    BY <1>2, <2>1, <2>2, <2>3, <2>4, <2>5, <2>6, <2>7, <2>8, <2>9, <2>10,
       <2>11, <2>12, <2>13, <2>14 DEF Pull, Moves
<1>3. ASSUME ImageStep(p)
      PROVE  Moves(p)
  <2>1. ASSUME RmiResolve(p)  PROVE Stops(p) \/ ToIndex(p)
    <3>1. \/ Fail(p)
          \/ At(p, "rmi") /\ \E id :
               loc' = [loc EXCEPT ![p].at = "load", ![p].id = id, ![p].next = "removing"]
      BY <2>1 DEF RmiResolve, Goto
    <3>2. ASSUME At(p, "rmi"), NEW id,
                 loc' = [loc EXCEPT ![p].at = "load", ![p].id = id, ![p].next = "removing"]
          PROVE  Stops(p) \/ ToIndex(p)
      BY <3>2, <1>0, <2>1 DEF ShapesOK, LocFields, Goto, At, Stops, Halts,
         ToIndex
    <3>3. QED
      BY <3>1, <1>1, <3>2
  <2>2. ASSUME RemoveAll(p)  PROVE Stops(p) \/ loc' = loc
    <3>1. loc' = loc \/ Goto(p, "done")
      BY <2>2 DEF RemoveAll
    <3>2. CASE Goto(p, "done")
      BY <3>2, <1>0 DEF Goto, ShapesOK, LocFields, Stops, Halts
    <3>3. QED
      BY <3>1, <3>2
  <2>3. ASSUME WriteArchive(p)  PROVE Stops(p)
    <3>1. \/ Fail(p)
          \/ Goto(p, "done")
      BY <2>3 DEF WriteArchive, Goto
    <3>2. CASE Goto(p, "done")
      BY <3>2, <1>0, <2>3 DEF ShapesOK, LocFields, Goto, At, Stops, Halts
    <3>3. QED
      BY <3>1, <1>1, <3>2
  <2>4. ASSUME AssembleRootfs(p)  PROVE Stops(p)
    BY <2>4, <1>0 DEF AssembleRootfs, ShapesOK, LocFields, Goto, At, Stops,
       Halts
  <2>5. ASSUME CopyLayer(p)  PROVE Stops(p)
    <3>1. \/ Fail(p)
          \/ At(p, "copy") /\ loc' = [loc EXCEPT ![p].copy = Tail(@)]
      BY <2>5 DEF CopyLayer, Goto
    <3>2. CASE At(p, "copy") /\ loc' = [loc EXCEPT ![p].copy = Tail(@)]
      BY <3>2, <1>0, <2>5 DEF ShapesOK, LocFields, Goto, At, Stops, Halts
    <3>3. QED
      BY <3>1, <1>1, <3>2
  <2>6. ASSUME Assembled(p)  PROVE Stops(p)
    BY <2>6, <1>0 DEF Assembled, ShapesOK, LocFields, Goto, At, Stops, Halts
  <2>7. ASSUME CopyKernel(p)  PROVE Stops(p)
    <3>1. \/ Fail(p)
          \/ Goto(p, "done")
      BY <2>7 DEF CopyKernel, Goto
    <3>2. CASE Goto(p, "done")
      BY <3>2, <1>0, <2>7 DEF ShapesOK, LocFields, Goto, At, Stops, Halts
    <3>3. QED
      BY <3>1, <1>1, <3>2
  <2>8. ASSUME ReadArchive(p)  PROVE Stops(p) \/ ToIndex(p)
    <3>1. loc[p].at = "load image"
      BY <2>8 DEF ReadArchive, At
    <3>2. ASSUME NEW names,
                 loc' = [loc EXCEPT ![p].at = "load", ![p].id = NewId(p), ![p].names = names,
                                    ![p].next = "done", ![p].strict = FALSE]
          PROVE  ToIndex(p)
      BY <3>1, <3>2, <1>0 DEF ToIndex, ShapesOK, LocFields
    <3>3. QED
      BY <2>8, <3>2, <1>1, ReadArchiveCases
  <2>9. QED
    BY <1>2, <1>3, <2>1, <2>2, <2>3, <2>4, <2>5, <2>6, <2>7, <2>8 DEF
       ImageStep, Moves
<1>4. ASSUME KernelStep(p) \/ Stall(p)
      PROVE  Moves(p)
  <2>1. ASSUME DownloadArchive(p)  PROVE Stops(p) \/ Downloads(p)
    <3>1. \/ FailMet(p)
          \/ At(p, "download") /\ Goto(p, "body")
      BY <2>1 DEF DownloadArchive, Goto
    <3>2. CASE At(p, "download") /\ Goto(p, "body")
      BY <3>2, <1>0, <2>1 DEF ShapesOK, LocFields, Goto, At, Stops, Halts,
         Downloads, LoadPlaces, KeepsRoute, KeepsId
    <3>3. QED
      BY <3>1, <1>1, <3>2
  <2>2. ASSUME DownloadEnds(p)  PROVE Stops(p) \/ Downloads(p)
    <3>1. \/ FailMet(p)
          \/ At(p, "body") /\ Goto(p, "unpack")
      BY <2>2 DEF DownloadEnds, Goto
    <3>2. CASE At(p, "body") /\ Goto(p, "unpack")
      BY <3>2, <1>0, <2>2 DEF ShapesOK, LocFields, Goto, At, Stops, Halts,
         Downloads, LoadPlaces, KeepsRoute, KeepsId
    <3>3. QED
      BY <3>1, <1>1, <3>2
  <2>3. ASSUME ExtractArchive(p)  PROVE Stops(p) \/ Downloads(p)
    <3>1. \/ FailMet(p)
          \/ At(p, "unpack") /\ Goto(p, "binary")
      BY <2>3 DEF ExtractArchive, Goto
    <3>2. CASE At(p, "unpack") /\ Goto(p, "binary")
      BY <3>2, <1>0, <2>3 DEF ShapesOK, LocFields, Goto, At, Stops, Halts,
         Downloads, LoadPlaces, KeepsRoute, KeepsId
    <3>3. QED
      BY <3>1, <1>1, <3>2
  <2>4. ASSUME OCIKernelPulled(p)  PROVE Downloads(p)
    BY <2>4, <1>0 DEF OCIKernelPulled, ShapesOK, LocFields, Goto, At,
       Downloads, LoadPlaces, KeepsRoute, KeepsId
  <2>5. ASSUME CopyBinary(p)  PROVE Stops(p) \/ ToModules(p)
    <3>1. \/ FailMet(p)
          \/ At(p, "binary") /\ loc' = [loc EXCEPT ![p].at = "modules", ![p].id = NewKernelId(p)]
      BY <2>5 DEF CopyBinary, Goto
    <3>2. CASE At(p, "binary") /\ loc' = [loc EXCEPT ![p].at = "modules", ![p].id = NewKernelId(p)]
      BY <3>2, <1>0, <2>5 DEF ShapesOK, LocFields, Goto, At, Stops, Halts,
         ToModules
    <3>3. QED
      BY <3>1, <1>1, <3>2
  <2>6. ASSUME CopyModule(p)  PROVE loc' = loc
    BY <2>6, <1>0 DEF CopyModule, ShapesOK, LocFields, Goto, At, At
  <2>7. ASSUME SaveKernel(p)  PROVE ToSaving(p)
    BY <2>7, <1>0 DEF SaveKernel, ShapesOK, LocFields, Goto, At, ToSaving,
       KeepsId
  <2>8. ASSUME KernelPulled(p)  PROVE Stops(p)
    BY <2>8, <1>0 DEF KernelPulled, ShapesOK, LocFields, Goto, At, Stops,
       Halts
  <2>9. ASSUME FindStored(p)  PROVE Stops(p) \/ ToRemoving(p)
    <3>0. PICK id : id = ResolveStored(ParseKernelRef(Wanted(p)))
      OBVIOUS
    <3>1. \/ Fail(p)
          \/ /\ loc[p].at = "kernel rm" /\ id # NoId
             /\ loc' = [loc EXCEPT ![p].at = "load", ![p].id = id, ![p].store = "kernel",
                                   ![p].next = "kernel removing"]
      BY <2>9, <3>0 DEF FindStored, At
    <3>2. ASSUME loc[p].at = "kernel rm", id # NoId,
                 loc' = [loc EXCEPT ![p].at = "load", ![p].id = id, ![p].store = "kernel",
                                    ![p].next = "kernel removing"]
          PROVE  ToRemoving(p)
      <4>1. /\ loc'[p].at = "load" /\ loc'[p].id = id /\ loc'[p].store = "kernel"
            /\ loc'[p].next = "kernel removing"
        BY <1>0, <3>2 DEF ShapesOK, LocFields
      <4>2. QED
        BY <3>0, <3>2, <4>1 DEF ToRemoving
    <3>3. QED
      BY <1>1, <3>1, <3>2
  <2>10. ASSUME RemoveKernel(p)  PROVE Stops(p)
    BY <2>10, <1>0 DEF RemoveKernel, ShapesOK, LocFields, Goto, At, Stops,
       Halts
  <2>11. ASSUME Stall(p)  PROVE Stops(p)
    BY <2>11, <1>0 DEF Stall, ShapesOK, LocFields, Goto, At, Stops, Halts
  <2>12. ASSUME PullKernel(p)  PROVE Stops(p) \/ ToKernel(p)
    <3>1. loc[p].at = "kernel"
      BY <2>12 DEF PullKernel, At
    <3>2. ASSUME NEW req, NEW url, NEW format, NEW id, PullsKernel(p, req, url, format, id)
          PROVE  ToKernel(p)
      BY <3>1, <3>2, <1>0 DEF PullsKernel, ToKernel, ShapesOK, LocFields
    <3>3. FailMet(p) \/ \E req, url, format, id : PullsKernel(p, req, url, format, id)
      BY <2>12, <1>0, PullKernelCases
    <3>4. QED
      BY <3>2, <3>3, <1>1
  <2>13. QED
    BY <1>4, <2>1, <2>2, <2>3, <2>4, <2>5, <2>6, <2>7, <2>8, <2>9, <2>10,
       <2>11, <2>12 DEF KernelStep, Moves
<1>5. ASSUME BuildStep(p)
      PROVE  Moves(p)
  <2>0. Fail(p) \/ FailMet(p) => ToIdle(p)
    BY <1>1, StopsIdle
  <2>1. ASSUME ParseDockerfile(p)  PROVE ToIdle(p) \/ loc' = loc
    <3>1. \E at \in {"begin", "panicked", "failed"} : Goto(p, at)
      BY <2>1 DEF ParseDockerfile, Goto
    <3>2. ASSUME NEW at \in {"begin", "panicked", "failed"}, Goto(p, at)
          PROVE  ToIdle(p) \/ loc' = loc
      BY <3>2, <1>0, <2>1 DEF ShapesOK, LocFields, Goto, At, ToIdle, Idle
    <3>3. QED
      BY <3>1, <3>2
  <2>2. ASSUME BeginProcess(p)  PROVE ToIdle(p) \/ loc' = loc
    BY <2>2, <1>0 DEF BeginProcess, ShapesOK, LocFields, Goto, At, ToIdle,
       Idle
  <2>3. ASSUME HandleFrom(p)  PROVE ToIdle(p) \/ ToBase(p)
    <3>1. \/ Fail(p)
          \/ At(p, "step") /\ Unfinished(p) /\ \E ref, platform :
               loc' = [loc EXCEPT ![p].at = "resolve", ![p].pulling = "image", ![p].ref = ref,
                                  ![p].platform = platform]
      BY <2>3 DEF HandleFrom, Goto, Handles, Unfinished
    <3>2. ASSUME At(p, "step") /\ Unfinished(p), NEW ref, NEW platform,
                 loc' = [loc EXCEPT ![p].at = "resolve", ![p].pulling = "image", ![p].ref = ref,
                                    ![p].platform = platform]
          PROVE  ToIdle(p) \/ ToBase(p)
      BY <3>2, <1>0, <2>3 DEF ShapesOK, LocFields, Goto, At, ToIdle, Idle,
         ToBase
    <3>3. QED
      BY <3>1, <2>0, <3>2
  <2>4. ASSUME FromPulled(p)  PROVE ToIdle(p) \/ ToWork(p)
    <3>1. \/ Fail(p)
          \/ At(p, "pulled") /\ Cmd(p).kind = "build" /\ \E copy :
               loc' = [loc EXCEPT ![p].at = "from", ![p].copy = copy]
      BY <2>4 DEF FromPulled, Goto
    <3>2. ASSUME At(p, "pulled") /\ Cmd(p).kind = "build", NEW copy,
                 loc' = [loc EXCEPT ![p].at = "from", ![p].copy = copy]
          PROVE  ToIdle(p) \/ ToWork(p)
      BY <3>2, <1>0, <2>4 DEF ShapesOK, LocFields, Goto, At, ToIdle, Idle,
         ToWork, Unfinished, Handles
    <3>3. QED
      BY <3>1, <2>0, <3>2
  <2>5. ASSUME CopyBaseLayer(p)  PROVE ToWork(p)
    BY <2>5, <1>0 DEF CopyBaseLayer, ShapesOK, LocFields, Goto, At, ToWork,
       Unfinished, Handles
  <2>6. ASSUME FromEnds(p)  PROVE ToIdle(p) \/ loc' = loc
    BY <2>6, <1>0 DEF FromEnds, ShapesOK, LocFields, Goto, At, ToIdle, Idle
  <2>7. ASSUME HandleKernel(p)  PROVE ToWork(p)
    BY <2>7, <1>0 DEF HandleKernel, ShapesOK, LocFields, Goto, At, ToWork,
       Unfinished, Handles
  <2>8. ASSUME KernelEnds(p)  PROVE ToIdle(p) \/ loc' = loc
    BY <2>8, <1>0 DEF KernelEnds, ShapesOK, LocFields, Goto, At, ToIdle, Idle
  <2>9. ASSUME HandleRun(p)  PROVE loc' = loc \/ ToWork(p)
    <3>1. \/ loc' = loc
          \/ At(p, "step") /\ Unfinished(p) /\ Goto(p, "machine")
      BY <2>9 DEF HandleRun, Goto, Handles, Unfinished
    <3>2. CASE At(p, "step") /\ Unfinished(p) /\ Goto(p, "machine")
      BY <3>2, <1>0, <2>9 DEF ShapesOK, LocFields, Goto, At, ToWork,
         Unfinished, Handles
    <3>3. QED
      BY <3>1, <3>2
  <2>10. ASSUME Machine(p)  PROVE ToWork(p)
    <3>1. loc[p].at = "machine" /\ Goto(p, "ran")
      BY <2>10 DEF Machine, At
    <3>2. QED
      BY <1>0, <3>1 DEF ShapesOK, LocFields, Goto, ToWork
  <2>11. ASSUME RunEnds(p)  PROVE ToIdle(p) \/ loc' = loc
    <3>1. \/ Fail(p)
          \/ Goto(p, "step")
      BY <2>11 DEF RunEnds, Goto
    <3>2. CASE Goto(p, "step")
      BY <3>2, <1>0, <2>11 DEF ShapesOK, LocFields, Goto, At, ToIdle, Idle
    <3>3. QED
      BY <3>1, <2>0, <3>2
  <2>12. ASSUME HandleCopy(p)  PROVE ToIdle(p) \/ loc' = loc
    <3>1. \/ Fail(p)
          \/ loc' = loc
      BY <2>12 DEF HandleCopy, Goto, Handles, Unfinished
    <3>2. QED
      BY <3>1, <2>0
  <2>13. ASSUME Configure(p)  PROVE ToIdle(p) \/ loc' = loc
    BY <2>13, <1>0 DEF Configure, ShapesOK, LocFields, Goto, At, ToIdle, Idle
  <2>14. ASSUME ProcessEnds(p)  PROVE ToIdle(p) \/ loc' = loc
    <3>1. \/ Fail(p)
          \/ Goto(p, "commit kernel")
      BY <2>14 DEF ProcessEnds, Goto
    <3>2. CASE Goto(p, "commit kernel")
      BY <3>2, <1>0, <2>14 DEF ShapesOK, LocFields, Goto, At, ToIdle, Idle
    <3>3. QED
      BY <3>1, <2>0, <3>2
  <2>15. ASSUME CommitKernel(p)  PROVE ToIdle(p) \/ loc' = loc
    BY <2>15, <1>0 DEF CommitKernel, ShapesOK, LocFields, Goto, At, ToIdle,
       Idle
  <2>16. ASSUME CommitRootfs(p)  PROVE ToIdle(p) \/ loc' = loc
    BY <2>16, <1>0 DEF CommitRootfs, ShapesOK, LocFields, Goto, At, ToIdle,
       Idle
  <2>17. ASSUME CommitSave(p)  PROVE ToIndex(p)
    <3>1. /\ loc[p].at = "commit save"
          /\ \E names : ImageNames(p, names, "clean", FALSE)
      BY <2>17 DEF CommitSave, At
    <3>2. ASSUME NEW names, ImageNames(p, names, "clean", FALSE)
          PROVE  loc'[p].at = "load" /\ loc'[p].store = "image" /\ loc'[p].next = "clean"
      BY <1>0, <3>2 DEF ImageNames, ShapesOK, LocFields
    <3>3. QED
      BY <3>1, <3>2 DEF ToIndex
  <2>18. ASSUME CleanUp(p)  PROVE ToIdle(p) \/ loc' = loc
    BY <2>18, <1>0 DEF CleanUp, ShapesOK, LocFields, Goto, At, ToIdle, Idle
  <2>19. QED
    BY <1>5, <2>1, <2>2, <2>3, <2>4, <2>5, <2>6, <2>7, <2>8, <2>9, <2>10,
       <2>11, <2>12, <2>13, <2>14, <2>15, <2>16, <2>17, <2>18 DEF BuildStep,
       Moves
<1>6. ASSUME NextCommand(p)
      PROVE  Begins(p)
  BY <1>6, NextBegins
<1>7. ASSUME Killed(p)
      PROVE  Stops(p)
  BY <1>7, <1>0 DEF Killed, Stops, Halts, Goto, ShapesOK, LocFields
<1>8. QED
  BY <1>3, <1>4, <1>5, <1>6, <1>7 DEF Act, Progress, Moves

(* Every step keeps to the routes.                                         *)
LEMMA ControlKept ==
  ASSUME NEW p \in Proc, Shapes, Control, Act(p)
  PROVE  Control'
<1>1. Alone(p) /\ (todo' = todo \/ NextCommand(p))
  BY ShapesKept, CommandsKept
<1>2. ASSUME NEW q \in Proc \ {p}
      PROVE  Routed(q)'
  <2>1. loc'[q] = loc[q] /\ todo'[q] = todo[q] /\ Routed(q)
    BY <1>1 DEF Control, Alone
  <2>2. QED
    BY <2>1 DEF Routed, Indexing, Routes, Cmd
<1>3. Routed(p)'
  <2>0. Routed(p)
    BY DEF Control
  <2>1. CASE NextCommand(p)
    <3>1. Begins(p)
      BY <2>1, NextBegins
    <3>2. QED
      BY <3>1, FirstPlaces DEF Begins, Routed, Indexing, Routes
  <2>2. CASE todo' = todo
    <3>1. Cmd(p)' = Cmd(p)
      BY <2>2 DEF Cmd
    <3>2. CASE Begins(p)
      BY <3>2, FirstPlaces DEF Begins, Routed, Indexing, Routes
    <3>3. CASE loc' = loc
      BY <3>3, <3>1, <2>0 DEF Routed, Indexing, Routes
    <3>4. CASE KeepsPlace(p)
      BY <3>4, <3>1, <2>0 DEF Routed, Indexing, Routes, KeepsPlace, KeepsRoute, KeepsId
    <3>5. CASE ToIdle(p)
      BY <3>5, <3>1, <2>0 DEF Routed, Indexing, Routes, ToIdle, Idle
    <3>6. CASE PullsOn(p)
      BY <3>6, <3>1, <2>0 DEF Routed, Indexing, Routes, PullsOn
    <3>7. CASE ToImage(p)
      BY <3>7, <3>1, <2>0 DEF Routed, Indexing, Routes, ToImage
    <3>8. CASE InLayers(p)
      BY <3>8, <3>1, <2>0 DEF Routed, Indexing, Routes, InLayers, LayerPlaces, KeepsRoute, KeepsId
    <3>9. CASE Loads(p)
      BY <3>9, <3>1, <2>0 DEF Routed, Indexing, Routes, Loads, KeepsRoute
    <3>10. CASE Truncates(p)
      BY <3>10, <3>1, <2>0 DEF Routed, Indexing, Routes, Truncates, KeepsRoute
    <3>11. CASE Writes(p)
      BY <3>11, <3>1, <2>0 DEF Routed, Indexing, Routes, Writes, KeepsRoute
    <3>12. CASE ToIndex(p)
      BY <3>12, <3>1, <2>0 DEF Routed, Indexing, Routes, ToIndex
    <3>13. CASE ToBase(p)
      BY <3>13, <3>1, <2>0 DEF Routed, Indexing, Routes, ToBase
    <3>14. CASE ToWork(p)
      BY <3>14, <3>1, <2>0 DEF Routed, Indexing, Routes, ToWork
    <3>15. CASE ToKernel(p)
      BY <3>15, <3>1, <2>0 DEF Routed, Indexing, Routes, ToKernel
    <3>16. CASE Downloads(p)
      BY <3>16, <3>1, <2>0 DEF Routed, Indexing, Routes, Downloads
    <3>17. CASE ToModules(p)
      BY <3>17, <3>1, <2>0 DEF Routed, Indexing, Routes, ToModules
    <3>18. CASE ToSaving(p)
      BY <3>18, <3>1, <2>0 DEF Routed, Indexing, Routes, ToSaving
    <3>19. CASE ToRemoving(p)
      BY <3>19, <3>1, <2>0 DEF Routed, Indexing, Routes, ToRemoving
    <3>20. QED
      BY Flow, StopsIdle, <3>2, <3>3, <3>4, <3>5, <3>6, <3>7, <3>8, <3>9, <3>10, <3>11,
         <3>12, <3>13, <3>14, <3>15, <3>16, <3>17, <3>18, <3>19 DEF Moves
  <2>3. QED
    BY <1>1, <2>1, <2>2
<1>4. QED
  BY <1>2, <1>3 DEF Control

-----------------------------------------------------------------------------
(* What a step does to the build of its process.                           *)
SameBuild(p) == bld'[p].instrs = bld[p].instrs /\ bld'[p].pos = bld[p].pos
NextInstr(p) ==
  /\ bld'[p].instrs = bld[p].instrs /\ bld'[p].pos = bld[p].pos + 1
  /\ Midway(p) \/ Unfinished(p)
  /\ loc'[p].at = "step"
NewBuild(p) ==
  /\ loc[p].at = "parse" /\ loc'[p].at = "begin"
  /\ bld'[p].instrs = Parsed[Cmd(p).lines].instrs /\ bld'[p].pos = 1
SameRaw(p) == kern'[p].raw = kern[p].raw
NewRaw(p) ==
  Unfinished(p) /\ Instr(p).kind = "KERNEL" /\ kern'[p].raw = Instr(p).args

BuildsOn(p) ==
  \/ SameRaw(p) /\ (SameBuild(p) \/ NextInstr(p) \/ NewBuild(p))
  \/ SameBuild(p) /\ NewRaw(p)

LEMMA BuildFlow ==
  ASSUME NEW p \in Proc, Shapes, Act(p)
  PROVE  BuildsOn(p)
<1>0. ShapesOK
  BY DEF Shapes
<1>1. CASE UNCHANGED <<bld, kern>>
  BY <1>1 DEF BuildsOn, SameRaw, SameBuild
<1>2. ASSUME KernelStep(p) \/ Stall(p), bld' = bld
      PROVE  SameRaw(p) /\ SameBuild(p)
  <2>1. CASE PullKernel(p)
    <3>1. ASSUME NEW req, NEW url, NEW format, NEW id, PullsKernel(p, req, url, format, id)
          PROVE  SameRaw(p)
      BY <3>1, <1>0 DEF PullsKernel, SameRaw, ShapesOK, KernFields
    <3>2. \/ FailMet(p) /\ kern' = kern
          \/ \E req, url, format, id : PullsKernel(p, req, url, format, id)
      BY <2>1, <1>0, PullKernelCases
    <3>3. QED
      BY <1>2, <3>1, <3>2 DEF SameRaw, SameBuild
  <2>2. CASE DownloadArchive(p) \/ DownloadEnds(p) \/ ExtractArchive(p)
    BY <2>2, <1>0, <1>2 DEF DownloadArchive, DownloadEnds, ExtractArchive,
       SameRaw, SameBuild, ShapesOK, KernFields, kernelVars, kernelFiles
  <2>3. CASE OCIKernelPulled(p)
    BY <2>3, <1>0, <1>2 DEF OCIKernelPulled, SameRaw, SameBuild, ShapesOK,
       KernFields, kernelVars, kernelFiles
  <2>4. CASE CopyBinary(p)
    BY <2>4, <1>0, <1>2 DEF CopyBinary, SameRaw, SameBuild, ShapesOK,
       KernFields, kernelVars, kernelFiles
  <2>5. CASE CopyModule(p)
    BY <2>5, <1>0, <1>2 DEF CopyModule, SameRaw, SameBuild, ShapesOK,
       KernFields, kernelVars, kernelFiles
  <2>6. CASE SaveKernel(p) \/ KernelPulled(p) \/ FindStored(p) \/
           RemoveKernel(p) \/ Stall(p)
    BY <2>6, <1>0, <1>2 DEF SaveKernel, KernelPulled, FindStored,
       RemoveKernel, Stall, SameRaw, SameBuild, ShapesOK, KernFields,
       kernelVars, kernelFiles
  <2>7. QED
    BY <1>2, <2>1, <2>2, <2>3, <2>4, <2>5, <2>6 DEF KernelStep
<1>3. ASSUME BuildStep(p)
      PROVE  BuildsOn(p)
  <2>1. CASE kern' = kern /\ bld' = bld
    BY <1>1, <2>1
  <2>2. CASE ParseDockerfile(p) /\ bld' # bld
    <3>1. /\ bld' = [bld EXCEPT ![p] = [NoBuild EXCEPT !.instrs = Parsed[Cmd(p).lines].instrs,
                                                      !.settings = SettingsOf[""]]]
          /\ Goto(p, "begin") /\ At(p, "parse") /\ kern' = kern
      BY <2>2 DEF ParseDockerfile, kernelVars
    <3>2. ASSUME NEW i, NEW s,
                 bld' = [bld EXCEPT ![p] = [NoBuild EXCEPT !.instrs = i, !.settings = s]]
          PROVE  bld'[p].instrs = i /\ bld'[p].pos = 1
      BY <3>2, <1>0 DEF NoBuild, ShapesOK, BldFields
    <3>3. bld'[p].instrs = Parsed[Cmd(p).lines].instrs /\ bld'[p].pos = 1
      BY <3>1, <3>2
    <3>4. loc[p].at = "parse" /\ loc'[p].at = "begin"
      BY <3>1, <1>0 DEF At, Goto, ShapesOK, LocFields
    <3>5. QED
      BY <3>1, <3>3, <3>4 DEF NewBuild, SameRaw, BuildsOn
  <2>3. CASE Machine(p)
    <3>1. kern' = kern /\ \E b : bld' = [bld EXCEPT ![p].bad = b]
      BY <2>3 DEF Machine, kernelVars
    <3>2. SameBuild(p)
      BY <3>1, <1>0 DEF SameBuild, ShapesOK, BldFields
    <3>3. QED
      BY <3>1, <3>2 DEF SameRaw, BuildsOn
  <2>4. CASE HandleKernel(p)
    <3>1. NewRaw(p)
      BY <2>4, <1>0 DEF HandleKernel, Handles, NewRaw, Unfinished, ShapesOK, KernFields
    <3>2. bld' = bld
      BY <2>4 DEF HandleKernel
    <3>3. QED
      BY <3>1, <3>2 DEF SameBuild, BuildsOn
  <2>5. CASE FromEnds(p) \/ KernelEnds(p)
    <3>1. kern' = kern /\ Midway(p)
      <4>1. /\ kern' = kern
            /\ loc[p].at = "from" \/ (loc[p].at = "kerneled" /\ Cmd(p).kind = "build")
        BY <2>5 DEF FromEnds, KernelEnds, At, kernelVars
      <4>2. QED
        BY <4>1 DEF Midway
    <3>2. /\ bld'[p].instrs = bld[p].instrs /\ bld'[p].pos = bld[p].pos + 1
          /\ loc'[p].at = "step"
      <4>1. CASE FromEnds(p)
        BY <4>1, <1>0 DEF FromEnds, Step, Goto, ShapesOK, LocFields, BldFields
      <4>2. CASE KernelEnds(p)
        BY <4>2, <1>0 DEF KernelEnds, Step, Goto, ShapesOK, LocFields, BldFields
      <4>3. QED
        BY <2>5, <4>1, <4>2
    <3>3. QED
      BY <3>1, <3>2 DEF SameRaw, NextInstr, BuildsOn
  <2>6. CASE (HandleRun(p) \/ HandleCopy(p) \/ Configure(p) \/ RunEnds(p)) /\ bld' # bld
    <3>1. kern' = kern /\ (Midway(p) \/ Unfinished(p))
      BY <2>6 DEF HandleRun, HandleCopy, Configure, RunEnds, Handles, Midway, Unfinished, At,
         kernelVars
    <3>2. /\ bld'[p].instrs = bld[p].instrs /\ bld'[p].pos = bld[p].pos + 1
          /\ loc'[p].at = "step"
      <4>1. CASE HandleRun(p)
        BY <2>6, <4>1, <1>0 DEF HandleRun, Handles, Step, At, ShapesOK, LocFields, BldFields
      <4>2. CASE HandleCopy(p)
        BY <2>6, <4>2, <1>0 DEF HandleCopy, Handles, Step, At, ShapesOK, LocFields, BldFields
      <4>3. CASE Configure(p)
        BY <2>6, <4>3, <1>0 DEF Configure, Step, At, ShapesOK, LocFields, BldFields
      <4>4. CASE RunEnds(p)
        BY <2>6, <4>4, <1>0 DEF RunEnds, Step, Goto, ShapesOK, LocFields, BldFields
      <4>5. QED
        BY <2>6, <4>1, <4>2, <4>3, <4>4
    <3>3. QED
      BY <3>1, <3>2 DEF SameRaw, NextInstr, BuildsOn
  <2>7. QED
    BY <1>3, <2>1, <2>2, <2>3, <2>4, <2>5, <2>6 DEF BuildStep, BeginProcess,
       HandleFrom, FromPulled, CopyBaseLayer, ProcessEnds, CommitKernel,
       CommitRootfs, CommitSave, CleanUp, ParseDockerfile, HandleRun,
       HandleCopy, Configure, RunEnds, kernelVars
<1>4. QED
  BY <1>1, <1>2, <1>3 DEF Act, Progress, kernelVars, BuildsOn

(* What was read stays what it was.                                        *)
LEMMA InstructionsKept ==
  ASSUME NEW p \in Proc, Shapes, Control, Instructions, Act(p)
  PROVE  Instructions'
<1>1. Alone(p) /\ (todo' = todo \/ NextCommand(p)) /\ CommandsOK /\ ShapesOK'
  BY ShapesKept, CommandsKept DEF Shapes
<1>2. ASSUME NEW q \in Proc \ {p}
      PROVE  Readable(q)'
  BY <1>1 DEF Instructions, Readable, Alone, Midway, Indexing, Cmd
<1> DEFINE len == Len(bld[p].instrs)
<1>0. Readable(p) /\ Routed(p)
  BY DEF Instructions, Control
<1>3. /\ len \in Nat /\ DOMAIN bld[p].instrs = 1 .. len
      /\ bld[p].pos \in 1 .. len + 1
  BY <1>0, LenProperties DEF Readable, IsSeq
<1>4. Midway(p)' => Midway(p) \/ Unfinished(p)
  <2>1. CASE NextCommand(p)
    <3>1. Begins(p)
      BY <2>1, NextBegins
    <3>2. loc'[p].at \in {"resolve", "rmi", "save image", "load image", "parse", "kernel",
                          "kernel rm"} /\ (loc'[p].at = "parse" <=> Cmd(p)'.kind = "build")
      BY <3>1, FirstPlaces DEF Begins
    <3>3. QED
      BY <3>2 DEF Midway, Indexing
  <2>2. CASE todo' = todo
    <3>1. Cmd(p)' = Cmd(p)
      BY <2>2 DEF Cmd
    <3>2. CASE Begins(p)
      <4>1. loc'[p].at \in {"resolve", "rmi", "save image", "load image", "parse", "kernel",
                            "kernel rm"} /\ (loc'[p].at = "parse" <=> Cmd(p)'.kind = "build")
        BY <3>2, FirstPlaces DEF Begins
      <4>2. QED
        BY <4>1 DEF Midway, Indexing
    <3>3. CASE loc' = loc
      BY <3>3, <3>1, <1>0 DEF Midway, Indexing, Routed
    <3>4. CASE KeepsPlace(p)
      BY <3>4, <3>1, <1>0 DEF Midway, Indexing, Routed, KeepsPlace, KeepsRoute
    <3>5. CASE ToIdle(p)
      BY <3>5, <3>1, <1>0 DEF Midway, Indexing, Routed, ToIdle, Idle
    <3>6. CASE PullsOn(p)
      BY <3>6, <3>1, <1>0 DEF Midway, Indexing, Routed, PullsOn, PullPlaces
    <3>7. CASE ToImage(p)
      BY <3>7, <3>1, <1>0 DEF Midway, Indexing, Routed, ToImage
    <3>8. CASE InLayers(p)
      BY <3>8, <3>1, <1>0 DEF Midway, Indexing, Routed, InLayers, LayerPlaces, KeepsRoute
    <3>9. CASE Loads(p)
      BY <3>9, <3>1, <1>0 DEF Midway, Indexing, Routed, Loads, KeepsRoute
    <3>10. CASE Truncates(p)
      BY <3>10, <3>1, <1>0 DEF Midway, Indexing, Routed, Truncates, KeepsRoute
    <3>11. CASE Writes(p)
      BY <3>11, <3>1, <1>0 DEF Midway, Indexing, Routed, Writes, Routes, KeepsRoute
    <3>12. CASE ToIndex(p)
      BY <3>12, <3>1, <1>0 DEF Midway, Indexing, Routed, ToIndex
    <3>13. CASE ToBase(p)
      BY <3>13, <3>1, <1>0 DEF Midway, Indexing, Routed, ToBase
    <3>14. CASE ToWork(p)
      BY <3>14, <3>1, <1>0 DEF Midway, Indexing, Routed, ToWork
    <3>15. CASE ToKernel(p)
      BY <3>15, <3>1, <1>0 DEF Midway, Indexing, Routed, ToKernel
    <3>16. CASE Downloads(p)
      BY <3>16, <3>1, <1>0 DEF Midway, Indexing, Routed, Downloads, LoadPlaces
    <3>17. CASE ToModules(p)
      BY <3>17, <3>1, <1>0 DEF Midway, Indexing, Routed, ToModules
    <3>18. CASE ToSaving(p)
      BY <3>18, <3>1, <1>0 DEF Midway, Indexing, Routed, ToSaving
    <3>19. CASE ToRemoving(p)
      BY <3>19, <3>1, <1>0 DEF Midway, Indexing, Routed, ToRemoving
    <3>20. QED
      BY Flow, StopsIdle, <3>2, <3>3, <3>4, <3>5, <3>6, <3>7, <3>8, <3>9, <3>10, <3>11,
         <3>12, <3>13, <3>14, <3>15, <3>16, <3>17, <3>18, <3>19 DEF Moves
  <2>3. QED
    BY <1>1, <2>1, <2>2
<1>5. ASSUME SameBuild(p) /\ SameRaw(p)
      PROVE  Readable(p)'
  BY <1>0, <1>4, <1>5 DEF SameBuild, SameRaw, Readable, Unfinished
<1>6. ASSUME NextInstr(p) /\ SameRaw(p)
      PROVE  Readable(p)'
  <2>1. bld[p].pos <= len /\ ~Midway(p)'
    BY <1>0, <1>6 DEF NextInstr, Readable, Unfinished, Midway, Indexing
  <2>2. bld'[p].pos \in 1 .. len + 1
    BY <1>3, <1>6, <2>1 DEF NextInstr
  <2>3. QED
    BY <1>0, <1>6, <2>1, <2>2 DEF NextInstr, SameRaw, Readable
<1>7. ASSUME NewBuild(p) /\ SameRaw(p)
      PROVE  Readable(p)'
  <2>1. Cmd(p).lines \in Dockerfiles
    <3>1. Cmd(p).kind = "build"
      BY <1>0, <1>7 DEF NewBuild, Routed
    <3>2. Cmd(p) = todo[p][1] /\ 1 \in DOMAIN todo[p]
      BY <1>1, HeadInDomain DEF Cmd, CommandsOK
    <3>3. QED
      BY <1>1, <3>1, <3>2 DEF CommandsOK
  <2> DEFINE instrs == Parse(Cmd(p).lines).instrs
  <2>2. bld'[p].instrs = instrs /\ bld'[p].pos = 1
    BY <1>7, <2>1 DEF NewBuild, Parsed
  <2>3. IsSeq(instrs) /\ \A i \in DOMAIN instrs : instrs[i].kind = "KERNEL" => IsSeq(instrs[i].args)
    BY <2>1, DockerfileAssumption
  <2> HIDE DEF instrs
  <2>4. Len(instrs) \in Nat
    BY <2>3, LenProperties DEF IsSeq
  <2>5. ~Midway(p)'
    BY <1>7 DEF NewBuild, Midway, Indexing
  <2>6. QED
    <3>1. 1 \in 1 .. Len(instrs) + 1
      BY <2>4
    <3>2. QED
      BY <1>0, <1>7, <2>2, <2>3, <2>5, <3>1 DEF SameRaw, Readable
<1>8. ASSUME SameBuild(p) /\ NewRaw(p)
      PROVE  Readable(p)'
  <2>1. bld[p].pos \in DOMAIN bld[p].instrs
    BY <1>3, <1>8 DEF NewRaw, Unfinished
  <2>2. IsSeq(kern'[p].raw)
    BY <1>0, <1>8, <2>1 DEF NewRaw, Instr, Readable
  <2>3. QED
    BY <1>0, <1>4, <1>8, <2>2 DEF SameBuild, Readable, Unfinished
<1>9. Readable(p)'
  BY BuildFlow, <1>5, <1>6, <1>7, <1>8 DEF BuildsOn
<1>10. QED
  BY <1>2, <1>9 DEF Instructions

-----------------------------------------------------------------------------
(* What a step does to the index.                                          *)
LEMMA StoresKept ==
  ASSUME NEW p \in Proc, Act(p)
  PROVE  UNCHANGED stores \/ SaveIndex(p) \/ Truncate(p)
<1>1. ImageStep(p) => UNCHANGED stores \/ SaveIndex(p) \/ Truncate(p)
  BY DEF ImageStep, Pull, PullResolve, FetchManifest, FetchPlatform,
         FetchConfig, NextLayer, GetBlob, ExtractEntry, VerifyLayer,
         SaveImage, Pulled, FailedAttempt, LoadIndex, RmiResolve, RemoveAll,
         WriteArchive, ReadArchive, AssembleRootfs, CopyLayer, Assembled,
         CopyKernel
<1>2. KernelStep(p) \/ Stall(p) => UNCHANGED stores
  BY DEF KernelStep, PullKernel, Stall, DownloadArchive, DownloadEnds,
         ExtractArchive, OCIKernelPulled, CopyBinary, CopyModule,
         SaveKernel, KernelPulled, FindStored, RemoveKernel
<1>3. BuildStep(p) => UNCHANGED stores
  BY DEF BuildStep, ParseDockerfile, BeginProcess, HandleFrom, FromPulled,
         CopyBaseLayer, FromEnds, HandleKernel, KernelEnds, HandleRun,
         Machine, RunEnds, HandleCopy, Configure, ProcessEnds, CommitKernel,
         CommitRootfs, CommitSave, CleanUp
<1>4. Killed(p) \/ NextCommand(p) => UNCHANGED stores
  BY DEF Killed, NextCommand
<1>5. QED
  BY <1>1, <1>2, <1>3, <1>4 DEF Act, Progress

LEMMA IndexFlow ==
  ASSUME NEW p \in Proc, Shapes, Act(p)
  PROVE  /\ lost => lost'
         /\ \/ index' = index
            \/ /\ SaveIndex(p) /\ Writes(p) /\ index' = [index EXCEPT ![loc[p].store] = Change(p)]
               /\ ~lost' => index[loc[p].store] = loc[p].idx
<1>1. CASE SaveIndex(p)
  <2>1. CASE index' = [index EXCEPT ![loc[p].store] = Change(p)] /\ Goto(p, loc[p].next)
             /\ lost' = (lost \/ index[loc[p].store] # loc[p].idx)
    <3>1. Writes(p)
      BY <1>1, <2>1 DEF SaveIndex, At, Goto, Writes, KeepsRoute, KeepsIndex, KeepsId, Shapes,
         ShapesOK, LocFields
    <3>2. QED
      BY <1>1, <2>1, <3>1
  <2>2. CASE UNCHANGED stores
    BY <2>2 DEF stores
  <2>3. QED
    BY <1>1, <2>1, <2>2 DEF SaveIndex
<1>2. CASE UNCHANGED stores
  BY <1>2 DEF stores
<1>3. UNCHANGED stores \/ SaveIndex(p) \/ Truncate(p)
  BY StoresKept
<1>4. CASE Truncate(p)
  BY <1>4 DEF Truncate
<1>5. QED
  BY <1>1, <1>2, <1>3, <1>4
-----------------------------------------------------------------------------
(* What the images, the kernels and the counters are.                      *)
DirOK(dir) ==
  /\ DOMAIN dir = {"config", "layers", "kernel"}
  /\ Len(dir.config) <= 1 /\ dir.kernel \in BOOLEAN

ImagesOK ==
  /\ \A id \in DOMAIN images : DirOK(images[id])
  /\ archive # <<>> => Len(archive[1].config) <= 1

KernelsOK ==
  /\ \A id \in DOMAIN kernels : /\ DOMAIN kernels[id] = {"bin", "mods", "saved", "url"}
                                /\ kernels[id].mods \subseteq NineP
  /\ \A p \in Proc : kern[p].left \subseteq NineP

LimitsOK ==
  /\ \A s \in {"image", "kernel"} : torn[s] \in BOOLEAN
  /\ \A p \in Proc : loc[p].tries \in 0 .. 2
  /\ faults \in 0 .. MaxFaults /\ kills \in 0 .. MaxKills

LEMMA DirIsOK ==
  ASSUME ImagesOK, NEW id
  PROVE  DirOK(Dir(id))
<1>1. DirOK(EmptyDir)
  BY DEF DirOK, EmptyDir, NoConfig
<1>2. QED
  BY <1>1 DEF Dir, ImagesOK

LEMMA PutIsOK ==
  ASSUME ImagesOK, NEW id, NEW dir, DirOK(dir), Put(id, dir), archive' = archive
  PROVE  ImagesOK'
BY DEF ImagesOK, Put, With, DirOK

LEMMA PutLayerIsOK ==
  ASSUME ImagesOK, NEW p, NEW content, PutLayer(p, content), archive' = archive
  PROVE  ImagesOK'
<1> DEFINE old == Dir(loc[p].id)
<1>1. DirOK(old)
  BY DirIsOK
<1> HIDE DEF old
<1>2. \A layers : DirOK([old EXCEPT !.layers = layers])
  BY <1>1 DEF DirOK
<1>3. DirOK([old EXCEPT !.layers = With(@, Layer(p), content)])
  BY <1>2
<1>4. Put(loc[p].id, [old EXCEPT !.layers = With(@, Layer(p), content)])
  BY DEF PutLayer, old
<1>5. QED
  BY <1>3, <1>4, PutIsOK

(* The actions that write to the directories of images.                    *)
LEMMA ImageEffects ==
  ASSUME NEW p \in Proc, Act(p)
  PROVE  \/ UNCHANGED <<images, archive>> \/ NextLayer(p) \/ ExtractEntry(p) \/ Killed(p)
         \/ SaveImage(p) \/ CommitSave(p) \/ RemoveAll(p) \/ ReadArchive(p) \/ WriteArchive(p)
         \/ CommitKernel(p) \/ CommitRootfs(p)
<1>1. CASE ImageStep(p)
  BY <1>1 DEF ImageStep, Pull, PullResolve, FetchManifest, FetchPlatform, FetchConfig,
     GetBlob, VerifyLayer, Pulled, FailedAttempt, LoadIndex, Truncate, SaveIndex,
     RmiResolve, AssembleRootfs, CopyLayer, Assembled, CopyKernel, files
<1>2. CASE KernelStep(p) \/ Stall(p) \/ NextCommand(p)
  BY <1>2 DEF KernelStep, PullKernel, Stall, DownloadArchive, DownloadEnds,
     ExtractArchive, OCIKernelPulled, CopyBinary, CopyModule, SaveKernel, KernelPulled,
     FindStored, RemoveKernel, NextCommand, files
<1>3. CASE BuildStep(p)
  BY <1>3 DEF BuildStep, ParseDockerfile, BeginProcess, HandleFrom, FromPulled,
     CopyBaseLayer, FromEnds, HandleKernel, KernelEnds, HandleRun, Machine, RunEnds,
     HandleCopy, Configure, ProcessEnds, CleanUp, files
<1>4. QED
  BY <1>1, <1>2, <1>3 DEF Act, Progress

LEMMA ImagesKept ==
  ASSUME NEW p \in Proc, ImagesOK, Act(p)
  PROVE  ImagesOK'
<1>1. CASE UNCHANGED <<images, archive>>
  BY <1>1 DEF ImagesOK
<1>2. CASE NextLayer(p) \/ ExtractEntry(p)
  <2>1. archive' = archive /\ (images' = images \/ \E content : PutLayer(p, content))
    BY <1>2 DEF NextLayer, ExtractEntry
  <2>2. QED
    BY <1>1, <2>1, PutLayerIsOK
<1>3. CASE Killed(p)
  <2>1. archive' = archive /\ (images' = images \/ \E content : PutLayer(p, content))
    BY <1>3 DEF Killed
  <2>2. QED
    BY <1>1, <2>1, PutLayerIsOK
<1>4. ASSUME NEW id, NEW x, Put(id, [Dir(id) EXCEPT !.config = <<x>>]), archive' = archive
      PROVE  ImagesOK'
  <2>1. ASSUME NEW old, DirOK(old)
        PROVE  DirOK([old EXCEPT !.config = <<x>>])
    BY <2>1 DEF DirOK
  <2>2. QED
    BY <1>4, <2>1, DirIsOK, PutIsOK
<1>5. CASE SaveImage(p)
  BY <1>4, <1>5 DEF SaveImage
<1>6. CASE CommitSave(p)
  BY <1>4, <1>6 DEF CommitSave
<1>7. CASE RemoveAll(p)
  <2>1. ASSUME NEW old, DirOK(old), NEW layers
        PROVE  DirOK([old EXCEPT !.config = NoConfig]) /\ DirOK([old EXCEPT !.layers = layers])
    BY <2>1 DEF DirOK, NoConfig
  <2>2. archive' = archive
    BY <1>7 DEF RemoveAll
  <2>3. CASE Put(loc[p].id, [Dir(loc[p].id) EXCEPT !.config = NoConfig])
    BY <2>1, <2>2, <2>3, DirIsOK, PutIsOK
  <2>4. CASE \E layers : Put(loc[p].id, [Dir(loc[p].id) EXCEPT !.layers = layers])
    BY <2>1, <2>2, <2>4, DirIsOK, PutIsOK
  <2>5. CASE images' = Restrict(images, DOMAIN images \ {loc[p].id})
    BY <2>2, <2>5 DEF ImagesOK, Restrict
  <2>6. QED
    BY <1>7, <2>3, <2>4, <2>5 DEF RemoveAll
<1>8. CASE ReadArchive(p)
  <2>1. ASSUME NEW config, Len(config) <= 1
        PROVE  DirOK([EmptyDir EXCEPT !.config = config])
    BY <2>1 DEF DirOK, EmptyDir
  <2>2. /\ archive' = archive
        /\ \/ images' = images
           \/ archive # <<>> /\ Put(NewId(p), [EmptyDir EXCEPT !.config = archive[1].config])
    BY <1>8, ReadArchiveCases
  <2>3. QED
    BY <1>1, <2>1, <2>2, PutIsOK DEF ImagesOK
<1>9. CASE WriteArchive(p)
  <2>1. images' = images
    BY <1>9 DEF WriteArchive
  <2>2. ASSUME NEW id, id = Resolve(loc[p].ref), id # NoId,
               archive' = <<[name |-> FullName(loc[p].ref), config |-> images[id].config]>>
        PROVE  ImagesOK'
    <3>1. id \in DOMAIN images
      BY <2>2 DEF Resolve, Has
    <3>2. archive'[1].config = images[id].config
      BY <2>2
    <3>3. QED
      BY <2>1, <3>1, <3>2 DEF ImagesOK, DirOK
  <2>3. QED
    BY <1>1, <1>9, <2>1, <2>2 DEF WriteArchive
<1>10. CASE CommitKernel(p)
  <2>1. \E copied \in BOOLEAN : Put(NewId(p), [EmptyDir EXCEPT !.kernel = copied])
    BY <1>10 DEF CommitKernel
  <2>2. ASSUME NEW copied \in BOOLEAN
        PROVE  DirOK([EmptyDir EXCEPT !.kernel = copied])
    BY DEF DirOK, EmptyDir, NoConfig
  <2>3. archive' = archive
    BY <1>10 DEF CommitKernel
  <2>4. QED
    BY <2>1, <2>2, <2>3, PutIsOK
<1>11. CASE CommitRootfs(p)
  <2>1. ASSUME NEW old, DirOK(old), NEW layers
        PROVE  DirOK([old EXCEPT !.layers = layers])
    BY <2>1 DEF DirOK
  <2>2. /\ archive' = archive
        /\ images' = images \/ \E layers : Put(NewId(p), [Dir(NewId(p)) EXCEPT !.layers = layers])
    BY <1>11 DEF CommitRootfs
  <2>3. QED
    BY <1>1, <2>1, <2>2, DirIsOK, PutIsOK
<1>12. QED
  BY <1>1, <1>2, <1>3, <1>5, <1>6, <1>7, <1>8, <1>9, <1>10, <1>11, ImageEffects

LEMMA KernelsKept ==
  ASSUME NEW p \in Proc, Shapes, KernelsOK, Act(p)
  PROVE  KernelsOK'
<1>0. ShapesOK /\ Alone(p)
  BY ShapesKept DEF Shapes
<1>1. ASSUME kernels' = kernels, kern'[p].left = kern[p].left
      PROVE  KernelsOK'
  BY <1>0, <1>1 DEF KernelsOK, Alone
<1>2. CASE CopyBinary(p)
  <2>1. CASE kernels' = kernels /\ kern' = kern
    BY <1>1, <2>1
  <2>2. ASSUME NEW id, NEW url, NEW tree,
               kernels' = With(kernels, id, [bin |-> TRUE, mods |-> {}, saved |-> FALSE,
                                             url |-> url]),
               kern' = [kern EXCEPT ![p].left = tree \cap NineP]
        PROVE  KernelsOK'
    <3>1. kern'[p].left \subseteq NineP
      BY <1>0, <2>2 DEF ShapesOK, KernFields
    <3>2. QED
      BY <1>0, <2>2, <3>1 DEF KernelsOK, Alone, With
  <2>3. QED
    BY <1>2, <2>1, <2>2 DEF CopyBinary
<1>3. CASE CopyModule(p)
  <2>1. PICK m \in kern[p].left, copied \in BOOLEAN :
          /\ kern' = [kern EXCEPT ![p].left = @ \ {m}]
          /\ kernels' = [kernels EXCEPT ![loc[p].id].mods = IF copied THEN @ \cup {m} ELSE @]
    BY <1>3 DEF CopyModule
  <2>2. m \in NineP /\ kern'[p].left \subseteq NineP
    BY <1>0, <2>1 DEF KernelsOK, ShapesOK, KernFields
  <2>3. QED
    BY <1>0, <2>1, <2>2 DEF KernelsOK, Alone
<1>4. CASE SaveKernel(p)
  BY <1>0, <1>4 DEF SaveKernel, KernelsOK, Alone
<1>5. CASE RemoveKernel(p)
  BY <1>0, <1>5 DEF RemoveKernel, KernelsOK, Alone, Restrict
<1>6. CASE PullKernel(p)
  <2>1. kernels' = kernels
    BY <1>6 DEF PullKernel, kernelFiles
  <2>2. ASSUME NEW req, NEW url, NEW format, NEW id, PullsKernel(p, req, url, format, id)
        PROVE  kern'[p].left = kern[p].left
    BY <1>0, <2>2 DEF PullsKernel, ShapesOK, KernFields
  <2>3. \/ FailMet(p) /\ kern' = kern
        \/ \E req, url, format, id : PullsKernel(p, req, url, format, id)
    BY <1>0, <1>6, PullKernelCases
  <2>4. QED
    BY <1>1, <2>1, <2>2, <2>3
<1>7. CASE UNCHANGED <<kernels, kern>>
  BY <1>1, <1>7
<1>8. CASE OCIKernelPulled(p)
  BY <1>0, <1>1, <1>8 DEF OCIKernelPulled, ShapesOK, KernFields, kernelFiles
<1>9. CASE HandleKernel(p)
  BY <1>0, <1>1, <1>9 DEF HandleKernel, ShapesOK, KernFields, kernelFiles
<1>10. \/ UNCHANGED <<kernels, kern>> \/ CopyBinary(p) \/ CopyModule(p) \/ SaveKernel(p)
       \/ RemoveKernel(p) \/ PullKernel(p) \/ OCIKernelPulled(p) \/ HandleKernel(p)
  <2>1. CASE KernelStep(p) \/ Stall(p)
    BY <2>1 DEF KernelStep, Stall, DownloadArchive, DownloadEnds, ExtractArchive,
       KernelPulled, FindStored, kernelVars
  <2>2. CASE BuildStep(p)
    BY <2>2 DEF BuildStep, ParseDockerfile, BeginProcess, HandleFrom, FromPulled,
       CopyBaseLayer, FromEnds, KernelEnds, HandleRun, Machine, RunEnds, HandleCopy,
       Configure, ProcessEnds, CommitKernel, CommitRootfs, CommitSave, CleanUp, kernelVars
  <2>3. QED
    BY <2>1, <2>2 DEF Act, Progress, kernelVars
<1>11. QED
  BY <1>2, <1>3, <1>4, <1>5, <1>6, <1>7, <1>8, <1>9, <1>10

LEMMA TriesKept ==
  ASSUME NEW p \in Proc, Shapes, loc[p].tries \in 0 .. 2, Act(p)
  PROVE  loc'[p].tries \in 0 .. 2
<1>0. ShapesOK /\ CommandsOK
  BY DEF Shapes
<1>1. CASE loc' = loc
  BY <1>1
<1>2. CASE Fail(p) \/ FailMet(p)
  BY <1>0, <1>2 DEF Fail, FailMet, ShapesOK, LocFields
<1>3. ASSUME NEW at, Goto(p, at)
      PROVE  loc'[p].tries \in 0 .. 2
  BY <1>0, <1>3 DEF Goto, ShapesOK, LocFields
<1>4. CASE ImageStep(p)
  <2>1. CASE PullResolve(p)
    BY <1>0, <2>1 DEF PullResolve, ShapesOK, LocFields
  <2>2. CASE FetchManifest(p)
    <3>1. \/ FailMet(p)
          \/ \E at, image : loc' = [loc EXCEPT ![p].at = at, ![p].image = image, ![p].tries = 0]
      BY <2>2 DEF FetchManifest
    <3>2. ASSUME NEW at, NEW image,
                 loc' = [loc EXCEPT ![p].at = at, ![p].image = image, ![p].tries = 0]
          PROVE  loc'[p].tries \in 0 .. 2
      BY <1>0, <3>2 DEF ShapesOK, LocFields
    <3>3. QED
      BY <1>2, <3>1, <3>2
  <2>3. CASE FetchPlatform(p)
    BY <1>0, <2>3 DEF FetchPlatform, ShapesOK, LocFields
  <2>4. CASE GetBlob(p)
    BY <1>0, <2>4 DEF GetBlob, ShapesOK, LocFields
  <2>5. CASE ExtractEntry(p)
    BY <1>0, <1>2, <2>5 DEF ExtractEntry, ShapesOK, LocFields
  <2>6. CASE VerifyLayer(p)
    BY <1>0, <1>2, <2>6 DEF VerifyLayer, ShapesOK, LocFields
  <2>7. CASE SaveImage(p)
    BY <1>0, <2>7 DEF SaveImage, ShapesOK, LocFields
  <2>8. CASE FailedAttempt(p)
    BY <1>0, <1>2, <2>8 DEF FailedAttempt, ShapesOK, LocFields
  <2>9. CASE LoadIndex(p)
    <3> DEFINE idx == index[loc[p].store]
               names == IF loc[p].next \in {"removing", "kernel removing"}
                          THEN {n \in DOMAIN idx : idx[n] = loc[p].id} ELSE loc[p].names
               at == IF loc[p].strict THEN Failed(p) ELSE "panicked"
    <3>1. \/ loc' = [loc EXCEPT ![p].at = "truncate", ![p].idx = idx, ![p].names = names]
          \/ loc' = [loc EXCEPT ![p].at = at, ![p].met = TRUE]
      BY <2>9, <1>0 DEF LoadIndex, ShapesOK, LocFields
    <3> HIDE DEF idx, names, at
    <3>2. QED
      BY <1>0, <3>1 DEF ShapesOK, LocFields
  <2>10. CASE \/ NextLayer(p) \/ Pulled(p) \/ Truncate(p) \/ SaveIndex(p) \/ Assembled(p)
              \/ CopyKernel(p)
    BY <1>2, <1>3, <2>10 DEF NextLayer, Pulled, Truncate, SaveIndex, Assembled, CopyKernel
  <2>11. CASE RmiResolve(p)
    BY <1>0, <1>2, <2>11 DEF RmiResolve, ShapesOK, LocFields
  <2>12. CASE RemoveAll(p) \/ WriteArchive(p)
    BY <1>1, <1>2, <1>3, <2>12 DEF RemoveAll, WriteArchive
  <2>13. CASE AssembleRootfs(p)
    BY <1>0, <2>13 DEF AssembleRootfs, ShapesOK, LocFields
  <2>14. CASE CopyLayer(p)
    BY <1>0, <1>2, <2>14 DEF CopyLayer, ShapesOK, LocFields
  <2>15. CASE ReadArchive(p)
    <3>1. ASSUME NEW names,
                 loc' = [loc EXCEPT ![p].at = "load", ![p].id = NewId(p), ![p].names = names,
                                    ![p].next = "done", ![p].strict = FALSE]
          PROVE  loc'[p].tries \in 0 .. 2
      BY <1>0, <3>1 DEF ShapesOK, LocFields
    <3>2. QED
      BY <1>2, <2>15, <3>1, ReadArchiveCases
  <2>16. CASE FetchConfig(p)
    <3>1. ASSUME NEW at, NEW config, NEW names, NEW strict,
                 GotConfig(p, at, config, names, strict)
          PROVE  loc'[p].tries \in 0 .. 2
      BY <1>0, <3>1 DEF GotConfig, ShapesOK, LocFields
    <3>2. QED
      BY <1>2, <2>16, <3>1, FetchConfigCases
  <2>17. QED
    BY <1>4, <2>1, <2>2, <2>3, <2>4, <2>5, <2>6, <2>7, <2>8, <2>9, <2>10, <2>11, <2>12,
       <2>13, <2>14, <2>15, <2>16 DEF ImageStep, Pull
<1>5. CASE KernelStep(p) \/ Stall(p)
  <2>1. CASE DownloadArchive(p) \/ DownloadEnds(p) \/ ExtractArchive(p) \/ OCIKernelPulled(p)
             \/ KernelPulled(p) \/ RemoveKernel(p) \/ Stall(p) \/ CopyModule(p)
    BY <1>1, <1>2, <1>3, <2>1 DEF DownloadArchive, DownloadEnds, ExtractArchive,
       OCIKernelPulled, KernelPulled, RemoveKernel, Stall, CopyModule
  <2>2. CASE CopyBinary(p)
    BY <1>0, <1>2, <2>2 DEF CopyBinary, ShapesOK, LocFields
  <2>3. CASE SaveKernel(p)
    BY <1>0, <2>3 DEF SaveKernel, ShapesOK, LocFields
  <2>4. CASE FindStored(p)
    <3>1. \/ Fail(p)
          \/ \E id : loc' = [loc EXCEPT ![p].at = "load", ![p].id = id, ![p].store = "kernel",
                                        ![p].next = "kernel removing"]
      BY <2>4 DEF FindStored
    <3>2. ASSUME NEW id,
                 loc' = [loc EXCEPT ![p].at = "load", ![p].id = id, ![p].store = "kernel",
                                    ![p].next = "kernel removing"]
          PROVE  loc'[p].tries \in 0 .. 2
      BY <1>0, <3>2 DEF ShapesOK, LocFields
    <3>3. QED
      BY <1>2, <3>1, <3>2
  <2>5. CASE PullKernel(p)
    <3>1. ASSUME NEW req, NEW url, NEW format, NEW id, PullsKernel(p, req, url, format, id)
          PROVE  loc'[p].tries \in 0 .. 2
      BY <1>0, <3>1 DEF PullsKernel, ShapesOK, LocFields
    <3>2. FailMet(p) \/ \E req, url, format, id : PullsKernel(p, req, url, format, id)
      BY <1>0, <2>5, PullKernelCases
    <3>3. QED
      BY <1>2, <3>1, <3>2
  <2>6. QED
    BY <1>5, <2>1, <2>2, <2>3, <2>4, <2>5 DEF KernelStep
<1>6. CASE BuildStep(p)
  <2>1. CASE ParseDockerfile(p) \/ BeginProcess(p) \/ FromEnds(p) \/ HandleKernel(p)
             \/ KernelEnds(p) \/ HandleRun(p) \/ Machine(p) \/ RunEnds(p)
    BY <1>1, <1>2, <1>3, <2>1 DEF ParseDockerfile, BeginProcess, FromEnds, HandleKernel,
       KernelEnds, HandleRun, Machine, RunEnds
  <2>2. CASE HandleCopy(p) \/ Configure(p) \/ ProcessEnds(p) \/ CommitRootfs(p) \/ CleanUp(p)
    BY <1>1, <1>2, <1>3, <2>2 DEF HandleCopy, Configure, ProcessEnds, CommitRootfs, CleanUp
  <2>3. CASE HandleFrom(p)
    BY <1>0, <1>2, <2>3 DEF HandleFrom, ShapesOK, LocFields
  <2>4. CASE FromPulled(p)
    BY <1>0, <1>2, <2>4 DEF FromPulled, ShapesOK, LocFields
  <2>5. CASE CopyBaseLayer(p)
    BY <1>0, <2>5 DEF CopyBaseLayer, ShapesOK, LocFields
  <2>6. CASE CommitKernel(p)
    BY <1>0, <2>6 DEF CommitKernel, ShapesOK, LocFields
  <2>7. CASE CommitSave(p)
    BY <1>0, <2>7 DEF CommitSave, ImageNames, ShapesOK, LocFields
  <2>8. QED
    BY <1>6, <2>1, <2>2, <2>3, <2>4, <2>5, <2>6, <2>7 DEF BuildStep
<1>7. CASE NextCommand(p)
  <2>1. ASSUME NEW cmd
        PROVE  Local(cmd).tries = 0
    BY DEF Local
  <2>2. \E cmd : loc' = [loc EXCEPT ![p] = Local(cmd)]
    BY <1>7 DEF NextCommand
  <2>3. QED
    BY <1>0, <2>1, <2>2 DEF ShapesOK
<1>8. CASE Killed(p)
  BY <1>3, <1>8 DEF Killed
<1>9. QED
  BY <1>4, <1>5, <1>6, <1>7, <1>8 DEF Act, Progress

LEMMA FaultsCount ==
  ASSUME NEW p \in Proc, Act(p)
  PROVE  faults' = faults \/ Fault
<1>1. ImageStep(p) => faults' = faults \/ Fault
  BY DEF ImageStep, Pull, PullResolve, FetchManifest, FetchPlatform, FetchConfig, NextLayer,
     GetBlob, ExtractEntry, VerifyLayer, SaveImage, Pulled, FailedAttempt, LoadIndex,
     Truncate, SaveIndex, RmiResolve, RemoveAll, WriteArchive, ReadArchive, AssembleRootfs,
     CopyLayer, Assembled, CopyKernel
<1>2. KernelStep(p) \/ Stall(p) => faults' = faults \/ Fault
  BY DEF KernelStep, PullKernel, Stall, DownloadArchive, DownloadEnds, ExtractArchive,
     OCIKernelPulled, CopyBinary, CopyModule, SaveKernel, KernelPulled, FindStored,
     RemoveKernel
<1>3. BuildStep(p) => faults' = faults \/ Fault
  BY DEF BuildStep, ParseDockerfile, BeginProcess, HandleFrom, FromPulled, CopyBaseLayer,
     FromEnds, HandleKernel, KernelEnds, HandleRun, Machine, RunEnds, HandleCopy, Configure,
     ProcessEnds, CommitKernel, CommitRootfs, CommitSave, CleanUp
<1>4. Killed(p) \/ NextCommand(p) => faults' = faults
  BY DEF Killed, NextCommand
<1>5. QED
  BY <1>1, <1>2, <1>3, <1>4 DEF Act, Progress

LEMMA LimitsKept ==
  ASSUME NEW p \in Proc, Shapes, LimitsOK, Act(p)
  PROVE  LimitsOK'
<1>0. ShapesOK /\ Alone(p)
  BY ShapesKept DEF Shapes
<1>1. \A q \in Proc : loc'[q].tries \in 0 .. 2
  BY <1>0, TriesKept DEF LimitsOK, Alone
<1>2. faults' = faults \/ Fault
  BY FaultsCount
<1>3. kills' = kills \/ (kills < MaxKills /\ kills' = kills + 1)
  <2>1. ImageStep(p) => kills' = kills
    BY DEF ImageStep, Pull, PullResolve, FetchManifest, FetchPlatform, FetchConfig, NextLayer,
       GetBlob, ExtractEntry, VerifyLayer, SaveImage, Pulled, FailedAttempt, LoadIndex,
       Truncate, SaveIndex, RmiResolve, RemoveAll, WriteArchive, ReadArchive, AssembleRootfs,
       CopyLayer, Assembled, CopyKernel
  <2>2. KernelStep(p) \/ Stall(p) => kills' = kills
    BY DEF KernelStep, PullKernel, Stall, DownloadArchive, DownloadEnds, ExtractArchive,
       OCIKernelPulled, CopyBinary, CopyModule, SaveKernel, KernelPulled, FindStored,
       RemoveKernel
  <2>3. BuildStep(p) => kills' = kills
    BY DEF BuildStep, ParseDockerfile, BeginProcess, HandleFrom, FromPulled, CopyBaseLayer,
       FromEnds, HandleKernel, KernelEnds, HandleRun, Machine, RunEnds, HandleCopy, Configure,
       ProcessEnds, CommitKernel, CommitRootfs, CommitSave, CleanUp
  <2>4. NextCommand(p) => kills' = kills
    BY DEF NextCommand
  <2>5. Killed(p) => kills < MaxKills /\ kills' = kills + 1
    BY DEF Killed
  <2>6. QED
    BY <2>1, <2>2, <2>3, <2>4, <2>5 DEF Act, Progress
<1>4. faults' \in 0 .. MaxFaults /\ kills' \in 0 .. MaxKills
  BY <1>2, <1>3, LimitAssumption DEF Fault, LimitsOK
<1>5. \A s \in {"image", "kernel"} : torn'[s] \in BOOLEAN
  <2>1. CASE UNCHANGED stores
    BY <2>1 DEF stores, LimitsOK
  <2>2. CASE Truncate(p)
    BY <1>0, <2>2 DEF Truncate, LimitsOK, ShapesOK
  <2>3. CASE SaveIndex(p)
    BY <1>0, <2>3 DEF SaveIndex, LimitsOK, ShapesOK, stores
  <2>4. QED
    BY <2>1, <2>2, <2>3, StoresKept
<1>6. QED
  BY <1>1, <1>4, <1>5 DEF LimitsOK

-----------------------------------------------------------------------------
TypeInv == BaseInv /\ ImagesOK /\ KernelsOK /\ LimitsOK

LEMMA TypeInvInit == Init => TypeInv
<1> SUFFICES ASSUME Init
             PROVE  TypeInv
  OBVIOUS
<1> USE DEF Init, ImageInit, KernelInit
<1>1. CommandsOK
  BY PlanAssumption, DockerfileAssumption DEF CommandsOK
<1>2. \A p \in Proc : /\ loc[p] = Local(Head(todo[p]))
                     /\ Head(todo[p]) = todo[p][1] /\ 1 \in DOMAIN todo[p]
  BY <1>1, HeadInDomain DEF CommandsOK
<1>3. ASSUME NEW cmd
      PROVE  /\ DOMAIN Local(cmd) = LocFields /\ Local(cmd).tries = 0
             /\ Local(cmd).at = First[cmd.kind] /\ Local(cmd).store = "image"
  BY DEF Local, LocFields
<1>4. ShapesOK
  BY <1>2, <1>3 DEF ShapesOK, NoKernel, KernFields, NoBuild, BldFields
<1>5. ASSUME NEW p \in Proc
      PROVE  /\ loc[p].at \in {"resolve", "rmi", "save image", "load image", "parse", "kernel",
                               "kernel rm"}
             /\ loc[p].at = "parse" <=> Cmd(p).kind = "build"
             /\ loc[p].store = "image"
  BY <1>1, <1>2, <1>3, FirstPlaces DEF CommandsOK, Cmd
<1>6. Control
  BY <1>5 DEF Control, Routed, Indexing
<1>7. Instructions
  <2>1. IsSeq(<<>>)
    BY EmptySeq, SeqIsSeq
  <2>2. Len(<<>>) = 0 /\ DOMAIN <<>> = {}
    OBVIOUS
  <2>3. \A p \in Proc : ~Midway(p)
    BY <1>5 DEF Midway, Indexing
  <2>4. \A p \in Proc : bld[p].instrs = <<>> /\ bld[p].pos = 1 /\ kern[p].raw = <<>>
    BY DEF NoBuild, NoKernel
  <2>5. QED
    BY <2>1, <2>2, <2>3, <2>4 DEF Instructions, Readable
<1>8. ImagesOK /\ KernelsOK
  <2>1. DOMAIN <<>> = {}
    OBVIOUS
  <2>2. \A p \in Proc : kern[p].left = {}
    BY DEF NoKernel
  <2>3. images = <<>> /\ archive = <<>> /\ kernels = <<>>
    OBVIOUS
  <2>4. QED
    BY ONLY <2>1, <2>2, <2>3 DEF ImagesOK, KernelsOK
<1>9. LimitsOK
  BY <1>2, <1>3, LimitAssumption DEF LimitsOK
<1>10. QED
  BY <1>1, <1>4, <1>6, <1>7, <1>8, <1>9 DEF TypeInv, BaseInv, Shapes

LEMMA TypeInvKept == TypeInv /\ [Next]_vars => TypeInv'
<1> SUFFICES ASSUME TypeInv, [Next]_vars
             PROVE  TypeInv'
  OBVIOUS
<1>0. Shapes /\ Control /\ Instructions /\ ImagesOK /\ KernelsOK /\ LimitsOK
  BY DEF TypeInv, BaseInv
<1>1. ASSUME NEW p \in Proc, Act(p)
      PROVE  TypeInv'
  BY <1>0, <1>1, ShapesKept, CommandsKept, ControlKept, InstructionsKept, ImagesKept,
     KernelsKept, LimitsKept DEF TypeInv, BaseInv, Shapes
<1>2. ASSUME UNCHANGED <<stores, images, archive, todo, loc, faults, kills, kernelVars, bld>>
      PROVE  TypeInv'
  <2>1. Shapes'
    BY <1>0, <1>2 DEF Shapes, ShapesOK, CommandsOK, stores, kernelVars
  <2>2. Control' /\ Instructions'
    BY <1>0, <1>2 DEF Control, Routed, Indexing, Routes, Cmd, Instructions, Readable, Midway,
       kernelVars
  <2>3. ImagesOK' /\ KernelsOK' /\ LimitsOK'
    BY <1>0, <1>2 DEF ImagesOK, KernelsOK, LimitsOK, stores, kernelVars
  <2>4. QED
    BY <2>1, <2>2, <2>3 DEF TypeInv, BaseInv
<1>3. CASE ContainerStops /\ UNCHANGED <<kernelVars, work, bld>>
  BY <1>2, <1>3 DEF ContainerStops
<1>4. CASE UNCHANGED vars
  BY <1>2, <1>4 DEF vars, imageVars, buildVars, files
<1>5. QED
  BY <1>1, <1>3, <1>4, WhoActs

LEMMA TypeInvariant == Spec => []TypeInv
BY TypeInvInit, TypeInvKept, PTL DEF Spec

(* Whatever processes do at once, fail at or are killed in, every process  *)
(* is at a command of its own, a build at an instruction of its Dockerfile *)
(* or after the last, and no request is sent more than three times.        *)
THEOREM TypeCorrect == Spec => []TypeOK
<1>1. TypeInv => TypeOK
  BY DEF TypeInv, BaseInv, Shapes, CommandsOK, Instructions, Readable, ImagesOK, DirOK,
     KernelsOK, LimitsOK, TypeOK
<1>2. QED
  BY <1>1, TypeInvariant, PTL
=============================================================================
