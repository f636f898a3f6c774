-------------------------- MODULE StoreProperties --------------------------
(***************************************************************************)
(* What must hold of images, kernels and builds while the commands that    *)
(* work on them interleave, meet errors and are killed.                    *)
(***************************************************************************)
EXTENDS Builder

(* Every name leads to an id, and every process is at one command. *)
TypeOK ==
  /\ \A s \in {"image", "kernel"} : torn[s] \in BOOLEAN
  /\ \A id \in DOMAIN images : /\ Len(images[id].config) <= 1
                               /\ images[id].kernel \in BOOLEAN
  /\ \A id \in DOMAIN kernels : kernels[id].mods \subseteq NineP
  /\ \A p \in Proc : /\ todo[p] # <<>> /\ loc[p].tries \in 0 .. 2
                     /\ bld[p].pos \in 1 .. Len(bld[p].instrs) + 1
  /\ faults \in 0 .. MaxFaults /\ kills \in 0 .. MaxKills

-----------------------------------------------------------------------------
IsRemote(id) == id[1] = "remote"

(* What a layer holds: the last entry of its archive for every path. *)
LayerContent(l) ==
  [f \in {Tar[l][i].path : i \in DOMAIN Tar[l]} |->
     Tar[l][Max({i \in DOMAIN Tar[l] : Tar[l][i].path = f})]]

Verified(id) ==
  \A l \in Range(LayersOf[id[2]]) :
    l \in DOMAIN images[id].layers /\ images[id].layers[l] = LayerContent(l)

(* An image that has a name can be read, and one that came from a registry *)
(* has every layer, each as its digest says, whatever pulls failed or were *)
(* killed before.  Left out are images that two processes had in hand at   *)
(* once or whose removal was killed, and an index that lost an update or   *)
(* was left truncated (pull.go:78-121, store.go:25-55).                    *)
ImagesWhole ==
  ~torn["image"] /\ ~lost =>
    \A n \in DOMAIN index["image"] :
      LET id == index["image"][n]
      IN  id \notin disturbed => Has(id) /\ (IsRemote(id) => Verified(id))

(* A pull that meets no error of its own succeeds; what an earlier attempt *)
(* left behind, before this one fails, stops it only where a link is in    *)
(* the way (layer.go:65).                                                  *)
PullRecovers ==
  [][\A p \in Proc :
       ~At(p, "failed") /\ At(p, "failed")' /\ Cmd(p).kind = "pull" /\ ~loc'[p].met =>
         /\ loc[p].id \in spoiled \cup disturbed
         /\ \E f \in DOMAIN LayerContent(Layer(p)) : LayerContent(Layer(p))[f].kind = "link"
    ]_vars

(* The layer that decides about a path when layers are applied in the      *)
(* order of their positions in s.                                          *)
LastWith(s, f) == Max({i \in DOMAIN s : f \in DOMAIN LayerContent(s[i])})
Stacked(s) ==
  [f \in UNION {DOMAIN LayerContent(s[i]) : i \in DOMAIN s} |->
     LayerContent(s[LastWith(s, f)])[f]]

Assembling(c) ==
  /\ containers[c].done /\ IsRemote(containers[c].image)
  /\ containers[c].image \notin disturbed

(* A container whose root file system was assembled while nobody else was  *)
(* at its image has every file of every layer, a later layer of the        *)
(* manifest before an earlier one, where the digests happen to sort like   *)
(* the manifest (rootfs.go:11-42).                                         *)
RootfsWhole ==
  \A c \in {d \in DOMAIN containers : Assembling(d)} :
    LET s == LayersOf[containers[c].image[2]]
    IN  s = NameOrder(Range(s)) => containers[c].rootfs = Stacked(s)

(* The same for every image: the order of the manifest decides, as the     *)
(* test of AssembleRootfs expects of a layer that overwrites a file.       *)
TopLayerWins ==
  \A c \in {d \in DOMAIN containers : Assembling(d)} :
    containers[c].rootfs = Stacked(LayersOf[containers[c].image[2]])

(* What users write: a name with a digest has no more than one colon in    *)
(* its last part, and no part is empty.                                    *)
WellWritten(raw) ==
  /\ IsSeq(raw.parts) /\ raw.parts # <<>>
  /\ IsSeq(Last(raw.parts)) /\ Last(raw.parts) # <<>>
  /\ raw.digest # "" => Len(Last(raw.parts)) <= 2

NamesWellWritten ==
  \A plan \in Plan : \A p \in Proc : \A i \in DOMAIN plan[p] : WellWritten(plan[p][i].raw)

(* What registries are called: a repository of one part is served by one   *)
(* whose name looks like a host, and the last part has no colon.           *)
RegistriesAreHosts ==
  \A name \in DOMAIN Remote :
    /\ IsSeq(name[2]) /\ name[2] # <<>>
    /\ Len(name[2]) > 1 \/ isRegistryHost(name[1])
    /\ IsSeq(Last(name[2])) /\ Len(Last(name[2])) = 1

(* A name from the list of images or kernels can be typed again and means  *)
(* the same: read and written out it is found in the index (name.go:24-88, *)
(* kernel.go:51-94).                                                       *)
NamesParseBack ==
  /\ \A n \in DOMAIN index["image"] : FullName(ParseImageRef(n)) = n
  /\ \A k \in DOMAIN index["kernel"] : KernelName(ParseKernelRef(k.fields)) = k

-----------------------------------------------------------------------------
(* A kernel that has a name has its binary and, unless it is an image's,   *)
(* all the modules that its package offers for the root file system and    *)
(* the network.  Left out are kernels for which a module could not be      *)
(* copied or, on removal, the index not be written, which nobody is told,  *)
(* and an index that lost an update or was left truncated                  *)
(* (puller.go:86-120, 206-232, store.go:75-87).                            *)
KernelWhole ==
  ~torn["kernel"] /\ ~lost =>
    \A k \in DOMAIN index["kernel"] :
      LET id == index["kernel"][k]
      IN  id \notin halved \cup harmed =>
            /\ id \in DOMAIN kernels /\ kernels[id].bin /\ kernels[id].saved
            /\ k.fields[1] # "oci" /\ kernels[id].url \in DOMAIN Packages =>
                 kernels[id].mods = Packages[kernels[id].url] \cap NineP

-----------------------------------------------------------------------------
Built(p) ==
  /\ Cmd(p).kind = "build" /\ At(p, "done") /\ Second(p) \notin shared
  /\ Has(NewId(p)) /\ NewId(p) \notin disturbed
  /\ \A q \in Proc : ~(At(q, "removing") /\ loc[q].id = NewId(p))

(* A kernel that KERNEL named and that still exists is in the image that   *)
(* was built with it, when no write failed: run needs it (builder.go:587). *)
BuiltBoots ==
  \A p \in Proc :
    Built(p) /\ faults = 0 /\ bld[p].kid \in DOMAIN kernels => images[NewId(p)].kernel

(* An image whose RUN command failed gets no name, unless two builds had   *)
(* the same directory, or what the command left for its status was not to  *)
(* be read: the file was there before, or was still empty, which reads as  *)
(* zero, when the machine went down (builder.go:358).                      *)
BadRunNeverTagged ==
  \A p \in Proc :
    /\ Cmd(p).kind = "build" /\ bld[p].bad /\ Second(p) \notin shared
    => NewId(p) \notin Range(index["image"])

(* The positions of the instructions of these kinds. *)
Those(p, kinds) == {i \in DOMAIN bld[p].instrs : bld[p].instrs[i].kind \in kinds}

(* The last pattern that matches a path decides; what lies in an excluded  *)
(* directory is excluded with it.                                          *)
Excluded(path, patterns) ==
  \E i \in DOMAIN patterns :
    /\ matchPattern(patterns[i], path) /\ ~patterns[i].negate
    /\ \A j \in i + 1 .. Len(patterns) :
         matchPattern(patterns[j], path) => ~patterns[j].negate

(* What COPY or ADD at position i of a build offers for the path.          *)
Offers(p, i, path) ==
  LET instr == bld[p].instrs[i]
      Given(f, src) ==
        /\ IsPrefix(src, f) /\ Target(f, src, instr.dest) = path
        /\ ~(instr.kind = "ADD" /\ IsURL(src))
        /\ \A k \in Len(src) .. Len(f) : ~Excluded(SubSeq(f, 1, k), Cmd(p).ignore)
  IN  {Context[f] : f \in {g \in DOMAIN Context : \E src \in Range(instr.sources) : Given(g, src)}}
Offered(p, i) ==
  {Target(g, src, bld[p].instrs[i].dest) :
     g \in DOMAIN Context, src \in Range(bld[p].instrs[i].sources)}
Writers(p, path) == {i \in Those(p, {"COPY", "ADD"}) : Offers(p, i, path) # {}}

(* A build with one FROM, at its beginning, of an image from a registry.   *)
OneBase(p) ==
  /\ Cmd(p).kind = "build" /\ At(p, "done") /\ Has(NewId(p))
  /\ Len(bld[p].base) = 1 /\ IsRemote(bld[p].base[1]) /\ bld[p].instrs[1].kind = "FROM"
BaseOf(p) == bld[p].base[1][2]

(* Layers one on top of the other as FROM copies them: a link stays what   *)
(* it is, and no link replaces a file.                                     *)
Having(s, f) == {i \in DOMAIN s : f \in DOMAIN LayerContent(s[i])}
Laid(s) ==
  [f \in UNION {DOMAIN LayerContent(s[i]) : i \in DOMAIN s} |->
     LET lowest == LayerContent(s[Min(Having(s, f))])[f]
         plain == {i \in Having(s, f) : LayerContent(s[i])[f].kind # "link"}
     IN  IF lowest.kind = "link" THEN lowest ELSE LayerContent(s[Max(plain)])[f]]

(* The paths that poqman uses for itself while a RUN is carried out.       *)
Own == {Script, ExitCode}

(* The image of a build with one base image holds what the Dockerfile      *)
(* says: every link of the base image, and else of every path what COPY or *)
(* ADD put there last, what a later RUN made, or what the base image has   *)
(* there; nothing of what .dockerignore excludes, and nothing is missing.  *)
(* Left out are builds that shared a directory and images that were        *)
(* disturbed (builder.go:172-214, 464-580, dockerignore.go:46).            *)
BuiltFiles ==
  \A p \in {q \in Proc : Built(q) /\ OneBase(q) /\ bld[q].base[1] \notin disturbed} :
    LET base == Laid(NameOrder(Range(LayersOf[BaseOf(p)])))
        fs == images[NewId(p)].layers[RootfsLayer]
        RunMade(f) == \E i \in Those(p, {"RUN"}) :
          bld[p].instrs[i].args = f /\ fs[f].data = "made" /\ \A j \in Writers(p, f) : j < i
    IN  /\ \A f \in DOMAIN fs \ Own :
             IF f \in DOMAIN base /\ base[f].kind = "link" THEN fs[f] = base[f]
             ELSE \/ RunMade(f)
                  \/ Writers(p, f) # {} /\ fs[f].data \in Offers(p, Max(Writers(p, f)), f)
                  \/ Writers(p, f) = {} /\ f \in DOMAIN base /\ fs[f] = base[f]
        /\ DOMAIN base \ Own \subseteq DOMAIN fs
        /\ \A i \in Those(p, {"COPY", "ADD"}) : \A f \in Offered(p, i) \ Own :
             Offers(p, i, f) # {} => f \in DOMAIN fs

(* Which setting an instruction replaces. *)
Replaces == [CMD |-> "cmd", ENTRYPOINT |-> "entrypoint", WORKDIR |-> "workdir",
             USER |-> "user", SHELL |-> "shell"]
LastArgs(p, kind, default) ==
  LET all == Those(p, {kind}) IN IF all = {} THEN default ELSE bld[p].instrs[Max(all)].args

(* The image of such a build has the settings of its base image with all   *)
(* that was replaced or added, variables in the order of the Dockerfile    *)
(* (builder.go:211, 518-580); labels are not looked at.                    *)
BuiltSettings ==
  \A p \in {q \in Proc : OneBase(q)} :
    LET base == SettingsOf[BaseOf(p)]
        settings == images[NewId(p)].config[1].settings
        env == Those(p, {"ENV"})
    IN  /\ \A kind \in DOMAIN Replaces :
             settings[Replaces[kind]] = LastArgs(p, kind, base[Replaces[kind]])
        /\ settings.ports = base.ports \cup {bld[p].instrs[i].port : i \in Those(p, {"EXPOSE"})}
        /\ settings.volumes = base.volumes \cup {bld[p].instrs[i].path : i \in Those(p, {"VOLUME"})}
        /\ Len(settings.env) = Len(base.env) + Cardinality(env)
        /\ IsPrefix(base.env, settings.env)
        /\ \A i \in env : settings.env[Len(base.env) + Cardinality({j \in env : j <= i})]
                            = <<bld[p].instrs[i].key, bld[p].instrs[i].value>>

(* A Dockerfile whose comments and blank lines stand between instructions  *)
(* and do not end in a backslash is carried out line by line: every line   *)
(* that does not continue the one before it is an instruction, the last    *)
(* one too, and in that order (parser.go:36-99).                           *)
Comment(line) == line.words # <<>> /\ line.words[1][1] = "#"
Starts(lines, i) == i = 1 \/ ~lines[i - 1].cont
InstructionLines(lines) ==
  {i \in DOMAIN lines : Starts(lines, i) /\ lines[i].words # <<>> /\ ~Comment(lines[i])}
Tidy(lines) ==
  \A i \in DOMAIN lines :
    /\ Comment(lines[i]) => Starts(lines, i) /\ ~lines[i].cont
    /\ Starts(lines, i) /\ lines[i].words = <<>> => ~lines[i].cont
OneInstructionPerLine ==
  \A p \in {q \in Proc : Cmd(q).kind = "build" /\ At(q, "begin")} :
    LET lines == Cmd(p).lines
        starts == InstructionLines(lines)
    IN  Tidy(lines) =>
          /\ Len(bld[p].instrs) = Cardinality(starts)
          /\ \A i \in starts :
               bld[p].instrs[Cardinality({j \in starts : j <= i})].kind = lines[i].words[1][1]

-----------------------------------------------------------------------------
(* Every command comes to an end, or waits for a server that has stopped   *)
(* to answer a request for a kernel: the attempts of a request are         *)
(* limited and nobody waits for anybody else (client.go:100-116).          *)
CommandsEnd == \A p \in Proc : []<>(~Busy(p) \/ At(p, "stalled"))
=============================================================================
