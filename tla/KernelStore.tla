---------------------------- MODULE KernelStore ----------------------------
(***************************************************************************)
(* The kernels on disk: kernel pull, which build calls for KERNEL, and     *)
(* kernel rm.  A package is downloaded to and unpacked in a directory that *)
(* is named after the kernel, so that processes that want the same kernel  *)
(* share it; the binary and the modules are then copied from there.        *)
(*                                                                         *)
(* A directory is the set of the files in it.  http.Get has no time limit  *)
(* here: a server that stops to answer holds the process for good.         *)
(***************************************************************************)
EXTENDS ImageStore

CONSTANTS
  Binaries,   \* files that findKernelBinary takes for a kernel
  NineP       \* uncompressed modules for 9p, virtio and the network

VARIABLES
  kernels,    \* id -> directory, [bin, mods, saved, url]
  unpacked,   \* key -> [archive, tree], the shared directories
  kern,       \* what each process is pulling
  harmed      \* kernels whose modules met a full disk or a missing file

kernelVars == <<kernels, unpacked, kern, harmed>>
kernelFiles == <<kernels, unpacked, harmed>>

NoKernel == [raw |-> <<>>, req |-> <<>>, url |-> <<>>, format |-> "", from |-> NoId,
             left |-> {}, count |-> 0]

KernelInit ==
  /\ kernels = <<>> /\ unpacked = <<>> /\ harmed = {}
  /\ kern = [p \in Proc |-> NoKernel]

Wanted(p) == IF Cmd(p).kind = "build" THEN kern[p].raw ELSE Cmd(p).kernel
NewKernelId(p) == <<"kernel", p, Len(todo[p]), kern[p].count>>

(* store.Resolve, which reads the index and then the configuration. *)
ResolveStored(req) ==
  LET name == KernelName(req)
      known == ~torn["kernel"] /\ name \in DOMAIN index["kernel"]
      id == index["kernel"][name]
  IN  IF known /\ id \in DOMAIN kernels /\ kernels[id].saved THEN id ELSE NoId

HasNinePModules(id) == kernels[id].mods # {}

(* The beginning of Pull.  Where the version is not complete the site of   *)
(* the distribution is asked.                                              *)
PullKernel(p) ==
  /\ At(p, "kernel")
  /\ LET asked == ParseKernelRef(Wanted(p))
         req == [asked EXCEPT !.arch = IF @ = "" THEN hostArchKernel ELSE @]
         found == ResolveKernel(req)
         full == [req EXCEPT !.version = found.version]
         id == ResolveStored(full)
         cached == id # NoId /\ HasNinePModules(id)
         oci == found.format = "oci-image"
     IN  \/ ~(asked.ok /\ found.ok) /\ FailMet(p) /\ UNCHANGED <<kern, faults>>
         \/ /\ asked.ok /\ found.ok /\ found.version # req.version
            /\ Fault /\ FailMet(p) /\ UNCHANGED kern
         \/ /\ asked.ok /\ found.ok
            /\ kern' = [kern EXCEPT ![p].req = full, ![p].url = found.url,
                          ![p].format = found.format, ![p].count = @ + 1]
            /\ loc' = [loc EXCEPT
                 ![p].at = IF cached THEN "kerneled"
                           ELSE IF oci THEN "resolve" ELSE "download",
                 ![p].id = id, ![p].pulling = "kernel",
                 ![p].ref = IF oci THEN OCIImageRef(found.url) ELSE @,
                 ![p].platform = <<"linux", full.arch>>]
            /\ UNCHANGED faults
  /\ UNCHANGED <<stores, files, todo, kills, kernelFiles>>

Stall(p) ==
  /\ At(p, "kernel") \/ At(p, "download") \/ At(p, "body")
  /\ Fault /\ Goto(p, "stalled")
  /\ UNCHANGED <<stores, files, todo, kills, kernelVars>>

-----------------------------------------------------------------------------
(* downloadAndExtract.  The archive is created anew over the one that may  *)
(* be there; it holds the name of the last process to do so until that one *)
(* has written all of it.                                                  *)
Key(p) == KernelName(kern[p].req)
Archive(p) == IF Key(p) \in DOMAIN unpacked THEN unpacked[Key(p)].archive ELSE "none"
Unpacked(p) == IF Key(p) \in DOMAIN unpacked THEN unpacked[Key(p)].tree ELSE {}
Unpack(p, state, tree) ==
  unpacked' = With(unpacked, Key(p), [archive |-> state, tree |-> tree])
RemoveUnpacked(p) == unpacked' = Restrict(unpacked, DOMAIN unpacked \ {Key(p)})

DownloadArchive(p) ==
  /\ At(p, "download")
  /\ \/ /\ kern[p].url \in DOMAIN Packages
        /\ Unpack(p, p, Unpacked(p)) /\ Goto(p, "body") /\ UNCHANGED faults
     \/ /\ IF kern[p].url \in DOMAIN Packages THEN Fault ELSE UNCHANGED faults
        /\ RemoveUnpacked(p) /\ FailMet(p)
  /\ UNCHANGED <<stores, files, todo, kills, kernels, kern, harmed>>

DownloadEnds(p) ==
  /\ At(p, "body")
  /\ \/ /\ IF Archive(p) = p THEN Unpack(p, "full", Unpacked(p)) ELSE UNCHANGED unpacked
        /\ Goto(p, "unpack") /\ UNCHANGED faults
     \/ Fault /\ RemoveUnpacked(p) /\ FailMet(p)
  /\ UNCHANGED <<stores, files, todo, kills, kernels, kern, harmed>>

(* ExtractDeb and the like add to what is there already. *)
Extracted(p) == Unpacked(p) \cup Packages[kern[p].url]

ExtractArchive(p) ==
  /\ At(p, "unpack")
  /\ IF Archive(p) = "full"
       THEN Unpack(p, "full", Extracted(p)) /\ Goto(p, "binary")
       ELSE RemoveUnpacked(p) /\ FailMet(p)
  /\ UNCHANGED <<stores, files, todo, faults, kills, kernels, kern, harmed>>

(* pullOCIKernel: Pull of the image comes before. *)
OCIKernelPulled(p) ==
  /\ At(p, "pulled") /\ loc[p].pulling = "kernel"
  /\ kern' = [kern EXCEPT ![p].from = loc[p].id]
  /\ Goto(p, "binary")
  /\ UNCHANGED <<stores, files, todo, faults, kills, kernelFiles>>

(* The files that are taken for a kernel; which of several is left open. *)
findKernelBinary(tree) == tree \cap Binaries

(* The directory that is searched for the modules: of the image's first    *)
(* layer, when a kernel is found there, only the place of the kernel.      *)
OCITree(id) ==
  LET dirs == Dir(id).layers
      first == DOMAIN dirs[Head(NameOrder(DOMAIN dirs))]
  IN  IF DOMAIN dirs # {} /\ findKernelBinary(first) # {} THEN findKernelBinary(first)
      ELSE UNION {DOMAIN dirs[l] : l \in DOMAIN dirs}

Tree(p) == IF kern[p].format = "oci-image" THEN OCITree(kern[p].from) ELSE Unpacked(p)

(* FindKernelInDir and the copy of the binary to a fresh directory. *)
CopyBinary(p) ==
  /\ At(p, "binary")
  /\ LET id == NewKernelId(p) IN
     \/ /\ findKernelBinary(Tree(p)) # {}
        /\ kernels' = With(kernels, id, [bin |-> TRUE, mods |-> {}, saved |-> FALSE,
                                         url |-> kern[p].url])
        /\ loc' = [loc EXCEPT ![p].at = "modules", ![p].id = id]
        /\ kern' = [kern EXCEPT ![p].left = Tree(p) \cap NineP]
        /\ UNCHANGED faults
     \/ /\ IF findKernelBinary(Tree(p)) # {} THEN Fault ELSE UNCHANGED faults
        /\ FailMet(p) /\ UNCHANGED <<kernels, kern>>
  /\ UNCHANGED <<stores, files, todo, kills, unpacked, harmed>>

(* Mutant: the walk ends at the first module. *)
CopyOneModule(p) ==
  /\ At(p, "modules") /\ kern[p].left # {}
  /\ LET m == CHOOSE x \in kern[p].left : TRUE
         copied == m \in Tree(p)
     IN  /\ kern' = [kern EXCEPT ![p].left = {}]
         /\ kernels' = [kernels EXCEPT ![loc[p].id].mods = IF copied THEN @ \cup {m} ELSE @]
         /\ harmed' = IF copied THEN harmed ELSE harmed \cup {loc[p].id}
  /\ UNCHANGED <<stores, files, todo, loc, faults, kills, unpacked>>

(* copyKernelModules looks at no error. *)
CopyModule(p) ==
  /\ At(p, "modules") /\ kern[p].left # {}
  /\ LET m == CHOOSE x \in kern[p].left : TRUE IN
     \E copied \in BOOLEAN :
       /\ copied => m \in Tree(p)
       /\ IF ~copied /\ m \in Tree(p) THEN Fault ELSE UNCHANGED faults
       /\ kern' = [kern EXCEPT ![p].left = @ \ {m}]
       /\ kernels' = [kernels EXCEPT ![loc[p].id].mods = IF copied THEN @ \cup {m} ELSE @]
       /\ harmed' = IF copied THEN harmed ELSE harmed \cup {loc[p].id}
  /\ UNCHANGED <<stores, files, todo, loc, kills, unpacked>>

SaveKernel(p) ==
  /\ At(p, "modules") /\ kern[p].left = {}
  /\ kernels' = [kernels EXCEPT ![loc[p].id].saved = TRUE]
  /\ loc' = [loc EXCEPT ![p].at = "load", ![p].store = "kernel", ![p].strict = FALSE,
                        ![p].names = {KernelName(kern[p].req)}, ![p].next = "kerneled"]
  /\ UNCHANGED <<stores, files, todo, faults, kills, unpacked, kern, harmed>>

KernelPulled(p) ==
  /\ At(p, "kerneled") /\ Cmd(p).kind = "kpull" /\ Goto(p, "done")
  /\ UNCHANGED <<stores, files, todo, faults, kills, kernelVars>>

-----------------------------------------------------------------------------
(* runKernelRemove: the reference is not completed, neither with an        *)
(* architecture nor with the version of a package.                         *)
FindStored(p) ==
  /\ At(p, "kernel rm")
  /\ LET req == ParseKernelRef(Wanted(p))
         id == ResolveStored(req)
     IN  IF ~req.ok \/ id = NoId THEN Fail(p)
         ELSE loc' = [loc EXCEPT ![p].at = "load", ![p].id = id, ![p].store = "kernel",
                                 ![p].next = "kernel removing"]
  /\ UNCHANGED <<stores, files, todo, faults, kills, kernelVars>>

(* After Remove has saved the index, whether that succeeded or not. *)
RemoveKernel(p) ==
  /\ At(p, "kernel removing")
  /\ kernels' = Restrict(kernels, DOMAIN kernels \ {loc[p].id})
  /\ Goto(p, "done")
  /\ UNCHANGED <<stores, files, todo, faults, kills, unpacked, kern, harmed>>

KernelStep(p) ==
  \/ PullKernel(p) \/ DownloadArchive(p) \/ DownloadEnds(p) \/ ExtractArchive(p)
  \/ OCIKernelPulled(p) \/ CopyBinary(p) \/ CopyModule(p) \/ SaveKernel(p)
  \/ KernelPulled(p) \/ FindStored(p) \/ RemoveKernel(p)
=============================================================================
