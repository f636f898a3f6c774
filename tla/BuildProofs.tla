---------------------------- MODULE BuildProofs ----------------------------
(***************************************************************************)
(* Kernels and builds.  A kernel that has a name is complete: the ids that *)
(* are in use, the directories that downloads share, and what is known of  *)
(* a kernel from the moment it is asked for until its name is removed.     *)
(* And what a build leaves behind: an image whose RUN failed gets no name, *)
(* and one that was named has the kernel that KERNEL named.                *)
(***************************************************************************)
EXTENDS StoreProofs

-----------------------------------------------------------------------------
(* The ids of kernels.                                                     *)
KId(p, n, c) == <<"kernel", p, n, c>>

(* A process that has a kernel in hand, and one that has read its index.   *)
HasKernelId(p) ==
  \/ loc[p].at \in {"modules", "kerneled", "kernel removing"}
  \/ Indexing(p) /\ loc[p].store = "kernel"

InIndex(p, id) ==
  /\ loc[p].at \in {"truncate", "write"} /\ loc[p].store = "kernel"
  /\ id \in Range(loc[p].idx)

Touches(p, id) == InIndex(p, id) \/ (HasKernelId(p) /\ loc[p].id = id)

KKnown(id) ==
  id \in DOMAIN kernels \/ id \in Range(index["kernel"]) \/ \E q \in Proc : Touches(q, id)

(* A process that has asked for a kernel and has no directory for it yet.  *)
Fetching(p) ==
  \/ loc[p].at \in {"download", "body", "unpack", "binary"}
  \/ /\ loc[p].pulling = "kernel"
     /\ \/ loc[p].at \in {"resolve", "manifest", "platform", "config", "layer", "blob",
                          "extract", "save", "pulled"}
        \/ Indexing(p) /\ loc[p].next = "pulled"

(* An id is taken once, at the end of a download.                          *)
Counted ==
  \A p \in Proc :
    /\ kern[p].count \in Nat
    /\ \A n, c \in Nat : KKnown(KId(p, n, c)) =>
                           c <= kern[p].count /\ (Fetching(p) => c < kern[p].count)

ReqOK(r) ==
  /\ {"distro", "version", "arch"} \subseteq DOMAIN r
  /\ IsSeq(r.version) /\ r.arch # ""

(* The address a process loads from is the one its complete name leads to. *)
Asked ==
  \A p \in Proc :
    /\ Fetching(p) \/ loc[p].at = "modules" => kern[p].count > 0
    /\ kern[p].count > 0 =>
         /\ ReqOK(kern[p].req)
         /\ kern[p].url = ResolveKernel(kern[p].req).url
         /\ kern[p].format = ResolveKernel(kern[p].req).format

(* Who shares a directory unpacks the same package in it.                  *)
Shared ==
  \A key \in DOMAIN unpacked : \A r :
    ReqOK(r) /\ KernelName(r) = key =>
      unpacked[key].tree \in {{}, Packages[ResolveKernel(r).url]}

Complete(id, name) ==
  /\ id \in DOMAIN kernels /\ kernels[id].bin /\ kernels[id].saved
  /\ name.fields[1] # "oci" /\ kernels[id].url \in DOMAIN Packages =>
       kernels[id].mods = Packages[kernels[id].url] \cap NineP

(* A kernel without a name is in the hands of the process that copies it.  *)
Saving(p) == Indexing(p) /\ loc[p].next = "kerneled"
Making(p) == loc[p].at = "modules" \/ Saving(p)

OnlyFor(p, id) ==
  /\ id \notin Range(index["kernel"]) /\ ~InIndex(p, id)
  /\ \A q \in Proc \ {p} : ~Touches(q, id)

Unsaved == \A p \in Proc : Making(p) => OnlyFor(p, loc[p].id)

(* What is copied and what is left to copy are together what there is.     *)
Copying(p) ==
  LET id == loc[p].id
  IN  /\ id \in DOMAIN kernels /\ kernels[id].bin
      /\ kern[p].req.distro # "oci" /\ kernels[id].url \in DOMAIN Packages =>
           kernels[id].mods \cup kern[p].left = Packages[kernels[id].url] \cap NineP

Ready(p) ==
  LET name == KernelName(kern[p].req)
  IN  loc[p].names = {name} /\ Complete(loc[p].id, name)

Copied ==
  \A p \in Proc : loc[p].id \notin harmed =>
    /\ loc[p].at = "modules" => Copying(p)
    /\ Saving(p) => Ready(p)

Removing(p) ==
  Indexing(p) /\ loc[p].at # "load" /\ loc[p].next = "kernel removing"

Stored ==
  /\ \A p \in Proc : Removing(p) =>
       loc[p].names = {n \in DOMAIN loc[p].idx : loc[p].idx[n] = loc[p].id}
  /\ ~lost => \A p \in Proc :
       loc[p].at = "kernel removing" /\ loc[p].id \notin halved =>
         loc[p].id \notin Range(index["kernel"])
  /\ ~lost => \A k \in DOMAIN index["kernel"] :
       LET id == index["kernel"][k] IN id \notin halved \cup harmed => Complete(id, k)

KernelInv == Counted /\ Asked /\ Shared /\ Unsaved /\ Copied /\ Stored

-----------------------------------------------------------------------------
(* Names of kernels.                                                       *)
LEMMA NameOfKernel ==
  ASSUME NEW r, ReqOK(r)
  PROVE  LET name == KernelName(r).fields
         IN  /\ IsSeq(name) /\ Len(name) = Len(r.version) + 2 /\ Len(r.version) \in Nat
             /\ name[1] = r.distro /\ name[Len(name)] = r.arch
             /\ \A i \in 1 .. Len(r.version) : name[i + 1] = r.version[i]
<1> DEFINE S == Range(r.version) \cup {r.distro, r.arch}
           a == <<r.distro>>  v == r.version  c == <<r.arch>>
           name == KernelName(r).fields
<1>1. a \in Seq(S) /\ c \in Seq(S) /\ Len(a) = 1 /\ Len(c) = 1 /\ a[1] = r.distro /\ c[1] = r.arch
  OBVIOUS
<1>2. v \in Seq(Range(v))
  BY DEF ReqOK, IsSeq
<1>3. v \in Seq(S)
  <2>1. Len(v) \in Nat /\ v \in [1 .. Len(v) -> Range(v)]
    BY <1>2, LenProperties
  <2> HIDE DEF v
  <2>2. v \in [1 .. Len(v) -> S]
    BY <2>1 DEF v
  <2>3. QED
    BY <2>1, <2>2, IsASeq
<1>4. name = a \o v \o c
  <2>1. r.arch # ""
    BY DEF ReqOK
  <2>2. (IF r.arch = "" THEN <<>> ELSE <<r.arch>>) = c
    BY <2>1
  <2>3. QED
    BY <2>2 DEF KernelName
<1>5. Len(v) \in Nat
  BY <1>2, LenProperties
<1> HIDE DEF a, v, c, name, S
<1>6. /\ a \o v \in Seq(S) /\ Len(a \o v) = Len(v) + 1
      /\ \A i \in 1 .. Len(v) + 1 : (a \o v)[i] = IF i <= 1 THEN a[i] ELSE v[i - 1]
  <2>1. Len(a) + Len(v) = Len(v) + 1 /\ Len(a) = 1
    BY <1>1, <1>5
  <2>2. /\ a \o v \in Seq(S) /\ Len(a \o v) = Len(a) + Len(v)
        /\ \A i \in 1 .. Len(a) + Len(v) :
             (a \o v)[i] = IF i <= Len(a) THEN a[i] ELSE v[i - Len(a)]
    BY <1>1, <1>3, ConcatProperties
  <2>3. QED
    BY <2>1, <2>2
<1>7. /\ name \in Seq(S) /\ Len(name) = Len(v) + 2
      /\ \A i \in 1 .. Len(v) + 2 :
           name[i] = IF i <= Len(v) + 1 THEN (a \o v)[i] ELSE c[i - (Len(v) + 1)]
  BY <1>1, <1>4, <1>5, <1>6, ConcatProperties
<1>8. name[1] = r.distro
  BY <1>1, <1>5, <1>6, <1>7
<1>9. name[Len(name)] = r.arch
  BY <1>1, <1>5, <1>7
<1>10. ASSUME NEW i \in 1 .. Len(v)
       PROVE  name[i + 1] = v[i]
  <2>1. /\ i + 1 \in 1 .. Len(v) + 1 /\ i + 1 \in 1 .. Len(v) + 2 /\ ~(i + 1 <= 1)
        /\ i + 1 - 1 = i
    BY <1>5
  <2>2. name[i + 1] = (a \o v)[i + 1] /\ (a \o v)[i + 1] = v[i]
    BY <2>1, <1>5, <1>6, <1>7
  <2>3. QED
    BY <2>2
<1>11. IsSeq(name)
  BY <1>7, SeqIsSeq
<1>12. QED
  BY <1>5, <1>7, <1>8, <1>9, <1>10, <1>11 DEF v, name

(* Different requests have different names.                                *)
LEMMA NamesDiffer ==
  ASSUME NEW r, NEW s, ReqOK(r), ReqOK(s), KernelName(r) = KernelName(s)
  PROVE  r.distro = s.distro /\ r.version = s.version /\ r.arch = s.arch
<1> DEFINE name == KernelName(r).fields  n == Len(r.version)
<1> DEFINE Names(q) ==
             /\ Len(name) = Len(q.version) + 2 /\ Len(q.version) \in Nat
             /\ name[1] = q.distro /\ name[Len(name)] = q.arch
             /\ \A i \in 1 .. Len(q.version) : name[i + 1] = q.version[i]
<1>0. Names(r) /\ Names(s)
  <2>1. Names(r)
    BY NameOfKernel
  <2>2. name = KernelName(s).fields
    OBVIOUS
  <2>3. Names(s)
    BY <2>2, NameOfKernel
  <2>4. QED
    BY <2>1, <2>3
<1> HIDE DEF name
<1>1. n \in Nat /\ Len(s.version) \in Nat
  BY <1>0
<1>2. r.distro = s.distro /\ r.arch = s.arch
  BY <1>0
<1>3. Len(s.version) = n
  BY <1>0
<1>4. \A i \in 1 .. n : r.version[i] = s.version[i]
  BY <1>0, <1>3
<1>5. r.version \in Seq(Range(r.version)) /\ s.version \in Seq(Range(s.version))
  BY DEF ReqOK, IsSeq
<1>6. r.version = s.version
  <2>1. /\ DOMAIN r.version = 1 .. n /\ DOMAIN s.version = 1 .. n
        /\ r.version \in [1 .. n -> Range(r.version)] /\ s.version \in [1 .. n -> Range(s.version)]
    BY <1>3, <1>5, LenProperties
  <2>2. QED
    BY <1>4, <2>1
<1>7. QED
  BY <1>2, <1>6

LEMMA ConcatIsSeq ==
  ASSUME NEW s, NEW t, IsSeq(s), IsSeq(t)
  PROVE  IsSeq(s \o t)
<1> DEFINE S == Range(s) \cup Range(t)
<1>1. s \in Seq(Range(s)) /\ t \in Seq(Range(t))
  BY DEF IsSeq
<1>2. /\ Len(s) \in Nat /\ s \in [1 .. Len(s) -> Range(s)]
      /\ Len(t) \in Nat /\ t \in [1 .. Len(t) -> Range(t)]
  BY <1>1, LenProperties
<1>3. s \in [1 .. Len(s) -> S] /\ t \in [1 .. Len(t) -> S]
  BY <1>2
<1>4. s \in Seq(S) /\ t \in Seq(S)
  BY <1>2, <1>3
<1>5. s \o t \in Seq(S)
  BY <1>4, ConcatProperties
<1>6. QED
  BY <1>5, SeqIsSeq

LEMMA AppendIsSeq ==
  ASSUME NEW s, NEW e, IsSeq(s)
  PROVE  IsSeq(Append(s, e)) /\ Len(Append(s, e)) = Len(s) + 1
<1> DEFINE S == Range(s) \cup {e}
<1>1. Len(s) \in Nat /\ s \in [1 .. Len(s) -> Range(s)]
  BY LenProperties DEF IsSeq
<1>2. s \in [1 .. Len(s) -> S]
  BY <1>1
<1>3. s \in Seq(S)
  BY <1>1, <1>2
<1>4. Append(s, e) \in Seq(S) /\ Len(Append(s, e)) = Len(s) + 1
  BY <1>3, AppendProperties
<1>5. QED
  BY <1>4, SeqIsSeq

LEMMA NewestIsSeq ==
  ASSUME NEW req, IsSeq(req.version)
  PROVE  IsSeq(Newest(req))
<1>1. IsSeq(<<>>)
  BY EmptySeq, SeqIsSeq
<1>2. \A key \in DOMAIN Published : IsSeq(req.version \o Published[key])
  BY PublishedAssumption, ConcatIsSeq
<1>3. QED
  BY <1>1, <1>2 DEF Newest

(* A version that was completed is complete.                               *)
LEMMA ResolvedAgain ==
  ASSUME NEW req, ReqOK(req), ResolveKernel(req).ok
  PROVE  LET found == ResolveKernel(req)
             full == [req EXCEPT !.version = found.version]
         IN  /\ ReqOK(full)
             /\ ResolveKernel(full).url = found.url
             /\ ResolveKernel(full).format = found.format
<1> DEFINE found == ResolveKernel(req)
           full == [req EXCEPT !.version = found.version]
<1>1. ASSUME IsSeq(found.version)
      PROVE  ReqOK(full)
  BY <1>1 DEF ReqOK
<1>2. /\ full.version = found.version /\ full.distro = req.distro /\ full.arch = req.arch
      /\ IsSeq(req.version)
  BY DEF ReqOK
<1>3. ASSUME NEW v, NEW url, NEW format, found = Located(v, url, format)
      PROVE  found.version = v /\ found.url = url /\ found.format = format
  BY <1>3 DEF Located
<1>4. ~Unresolved.ok
  BY DEF Unresolved
<1> HIDE DEF full, found
<1>5. CASE req.distro = "debian"
  <2> DEFINE v == IF Len(req.version) = 1 THEN Newest(req) ELSE req.version
  <2>1. found = DebianResolve(req) /\ ResolveKernel(full) = DebianResolve(full)
    BY <1>2, <1>5 DEF ResolveKernel, found
  <2>2. ~(Len(v) < 2) /\ found = Located(v, <<"debian", v[1], Tail(v), req.arch>>, "deb")
    BY <1>4, <2>1 DEF DebianResolve, found
  <2>3. IsSeq(v)
    BY <1>2, NewestIsSeq
  <2> HIDE DEF v
  <2>4. found.version = v /\ Len(v) # 1
    <3>1. found.version = v
      BY <1>3, <2>2
    <3>2. Len(v) # 1
      BY <2>2
    <3>3. QED
      BY <3>1, <3>2
  <2>5. DebianResolve(full) = Located(v, <<"debian", v[1], Tail(v), req.arch>>, "deb")
    BY <1>2, <2>2, <2>4 DEF DebianResolve
  <2>6. QED
    BY <1>1, <2>1, <2>2, <2>3, <2>4, <2>5 DEF found, full
<1>6. CASE req.distro = "ubuntu"
  <2> DEFINE v == IF Len(req.version) = 1 THEN Newest(req) ELSE req.version
  <2>1. found = UbuntuResolve(req) /\ ResolveKernel(full) = UbuntuResolve(full)
    BY <1>2, <1>6 DEF ResolveKernel, found
  <2>2. ~(Len(v) < 2) /\ found = Located(v, <<"ubuntu", v[1], Tail(v), req.arch>>, "deb")
    BY <1>4, <2>1 DEF UbuntuResolve, found
  <2>3. IsSeq(v)
    BY <1>2, NewestIsSeq
  <2> HIDE DEF v
  <2>4. found.version = v /\ Len(v) # 1
    <3>1. found.version = v
      BY <1>3, <2>2
    <3>2. Len(v) # 1
      BY <2>2
    <3>3. QED
      BY <3>1, <3>2
  <2>5. UbuntuResolve(full) = Located(v, <<"ubuntu", v[1], Tail(v), req.arch>>, "deb")
    BY <1>2, <2>2, <2>4 DEF UbuntuResolve
  <2>6. QED
    BY <1>1, <2>1, <2>2, <2>3, <2>4, <2>5 DEF found, full
<1>7. CASE req.distro = "archlinux"
  <2> DEFINE v == IF Len(req.version) = 1 THEN Newest(req) ELSE req.version
  <2>1. found = ArchLinuxResolve(req) /\ ResolveKernel(full) = ArchLinuxResolve(full)
    BY <1>2, <1>7 DEF ResolveKernel, found
  <2>2. ~(Len(v) < 2) /\ found = Located(v, <<"archlinux", v[1], Tail(v), req.arch>>, "tar.zst")
    BY <1>4, <2>1 DEF ArchLinuxResolve, found
  <2>3. IsSeq(v)
    BY <1>2, NewestIsSeq
  <2> HIDE DEF v
  <2>4. found.version = v /\ Len(v) # 1
    <3>1. found.version = v
      BY <1>3, <2>2
    <3>2. Len(v) # 1
      BY <2>2
    <3>3. QED
      BY <3>1, <3>2
  <2>5. ArchLinuxResolve(full) = Located(v, <<"archlinux", v[1], Tail(v), req.arch>>, "tar.zst")
    BY <1>2, <2>2, <2>4 DEF ArchLinuxResolve
  <2>6. QED
    BY <1>1, <2>1, <2>2, <2>3, <2>4, <2>5 DEF found, full
<1>8. CASE req.distro = "alpine"
  <2> DEFINE flavored == IF Len(req.version) = 1 THEN Append(req.version, "lts") ELSE req.version
             v == IF Len(flavored) = 2 THEN Newest([req EXCEPT !.version = flavored])
                  ELSE flavored
  <2>1. found = AlpineResolve(req) /\ ResolveKernel(full) = AlpineResolve(full)
    BY <1>2, <1>8 DEF ResolveKernel, found
  <2>2. ~(Len(v) < 3) /\ found = Located(v, <<"alpine", v[1], Tail(v), req.arch>>, "apk")
    BY <1>4, <2>1 DEF AlpineResolve, found
  <2>3. IsSeq(v)
    <3>1. IsSeq(flavored)
      BY <1>2, AppendIsSeq
    <3>2. [req EXCEPT !.version = flavored].version = flavored
      BY DEF ReqOK
    <3> HIDE DEF flavored
    <3>3. QED
      BY <3>1, <3>2, NewestIsSeq
  <2> HIDE DEF v, flavored
  <2>4. found.version = v /\ Len(v) # 1 /\ Len(v) # 2
    <3>1. found.version = v
      BY <1>3, <2>2
    <3>2. Len(v) \in Nat
      BY <2>3, LenProperties DEF IsSeq
    <3>3. ~(Len(v) < 3)
      BY <2>2
    <3>4. Len(v) # 1 /\ Len(v) # 2
      <4>1. PICK n : n = Len(v)
        OBVIOUS
      <4>2. QED
        BY <3>2, <3>3, <4>1
    <3>5. QED
      BY <3>1, <3>4
  <2>5. AlpineResolve(full) = Located(v, <<"alpine", v[1], Tail(v), req.arch>>, "apk")
    BY <1>2, <2>2, <2>4 DEF AlpineResolve
  <2>6. QED
    BY <1>1, <2>1, <2>2, <2>3, <2>4, <2>5 DEF found, full
<1>9. CASE req.distro \in {"oci", "http", "https"}
  <2>1. \/ found = OCIResolve(req) /\ ResolveKernel(full) = OCIResolve(full)
        \/ found = HTTPResolve(req) /\ ResolveKernel(full) = HTTPResolve(full)
    BY <1>2, <1>9 DEF ResolveKernel, found
  <2>2. ASSUME NEW format, found = Located(req.version, req.version, format)
        PROVE  found.version = req.version /\ full.version = req.version
    BY <1>2, <1>3, <2>2
  <2>3. found.version = req.version /\ full.version = req.version
    BY <2>1, <2>2 DEF OCIResolve, HTTPResolve
  <2>4. ResolveKernel(full) = found
    BY <2>1, <2>3 DEF OCIResolve, HTTPResolve
  <2>5. ReqOK(full)
    BY <1>1, <1>2, <2>3 DEF found, full
  <2>6. QED
    BY <2>4, <2>5 DEF found, full
<1>10. CASE req.distro \notin Resolvers
  <2>1. found = Unresolved
    BY <1>10 DEF ResolveKernel, Resolvers, found
  <2>2. QED
    BY <1>4, <2>1 DEF found
<1>11. QED
  BY <1>5, <1>6, <1>7, <1>8, <1>9, <1>10 DEF Resolvers

(* Only the distribution, the version and the architecture matter.         *)
LEMMA SameAddress ==
  ASSUME NEW r, NEW s, ReqOK(r), ReqOK(s), KernelName(r) = KernelName(s)
  PROVE  ResolveKernel(r).url = ResolveKernel(s).url
<1>1. r.distro = s.distro /\ r.version = s.version /\ r.arch = s.arch
  BY NamesDiffer
<1>2. Newest(r) = Newest(s)
  BY <1>1 DEF Newest
<1>3. ASSUME NEW v
      PROVE  Newest([r EXCEPT !.version = v]) = Newest([s EXCEPT !.version = v])
  BY <1>1 DEF Newest, ReqOK
<1>4. /\ DebianResolve(r) = DebianResolve(s) /\ UbuntuResolve(r) = UbuntuResolve(s)
      /\ ArchLinuxResolve(r) = ArchLinuxResolve(s)
  BY <1>1, <1>2 DEF DebianResolve, UbuntuResolve, ArchLinuxResolve
<1>5. AlpineResolve(r) = AlpineResolve(s)
  <2> DEFINE flavored == IF Len(r.version) = 1 THEN Append(r.version, "lts") ELSE r.version
             v == IF Len(flavored) = 2 THEN Newest([r EXCEPT !.version = flavored])
                  ELSE flavored
             given == IF Len(s.version) = 1 THEN Append(s.version, "lts") ELSE s.version
             w == IF Len(given) = 2 THEN Newest([s EXCEPT !.version = given]) ELSE given
  <2>1. AlpineResolve(r) = IF Len(v) < 3 THEN Unresolved
                           ELSE Located(v, <<"alpine", v[1], Tail(v), r.arch>>, "apk")
    BY DEF AlpineResolve
  <2>2. AlpineResolve(s) = IF Len(w) < 3 THEN Unresolved
                           ELSE Located(w, <<"alpine", w[1], Tail(w), s.arch>>, "apk")
    BY DEF AlpineResolve
  <2>3. flavored = given
    BY <1>1
  <2> HIDE DEF flavored, given
  <2>4. v = w
    BY <1>3, <2>3
  <2> HIDE DEF v, w
  <2>5. QED
    BY <1>1, <2>1, <2>2, <2>4
<1>6. OCIResolve(r) = OCIResolve(s) /\ HTTPResolve(r) = HTTPResolve(s)
  BY <1>1 DEF OCIResolve, HTTPResolve
<1>7. QED
  BY <1>1, <1>4, <1>5, <1>6 DEF ResolveKernel

(* What users ask for, completed with the architecture of the host.        *)
LEMMA RequestIsOK ==
  ASSUME NEW raw, IsSeq(raw), ParseKernelRef(raw).ok
  PROVE  LET asked == ParseKernelRef(raw)
         IN  ReqOK([asked EXCEPT !.arch = IF @ = "" THEN hostArchKernel ELSE @])
<1> DEFINE asked == ParseKernelRef(raw)
           known == Len(Tail(raw)) = 2 /\ Tail(raw)[2] \in Arches
           version == IF known THEN <<Tail(raw)[1]>> ELSE Tail(raw)
           arch == IF known THEN Tail(raw)[2] ELSE ""
<1>1. asked = [ok |-> Len(raw) > 1, distro |-> raw[1], version |-> version, arch |-> arch]
  BY DEF ParseKernelRef
<1>2. Len(raw) > 1
  BY DEF ParseKernelRef
<1>3. IsSeq(Tail(raw))
  BY <1>2, TailIsSeq
<1>4. \A e : IsSeq(<<e>>)
  <2>1. \A e : <<e>> \in Seq({e})
    OBVIOUS
  <2>2. QED
    BY <2>1, SeqIsSeq
<1>5. IsSeq(version)
  BY <1>3, <1>4
<1> DEFINE req == [asked EXCEPT !.arch = IF @ = "" THEN hostArchKernel ELSE @]
<1> HIDE DEF asked, version, arch
<1>6. DOMAIN asked = {"ok", "distro", "version", "arch"} /\ asked.version = version
  BY <1>1
<1>7. req.version = version /\ {"distro", "version", "arch"} \subseteq DOMAIN req
  BY <1>6
<1>8. req.arch # ""
  BY <1>6 DEF hostArchKernel
<1>9. QED
  BY <1>5, <1>7, <1>8 DEF ReqOK, asked

-----------------------------------------------------------------------------
(* What a step does to the kernels, as far as their invariant needs it.    *)
SameFiles == kernels' = kernels /\ unpacked' = unpacked /\ harmed' = harmed
SameNames == index'["kernel"] = index["kernel"]
SameRequest(p) ==
  /\ kern'[p].req = kern[p].req /\ kern'[p].url = kern[p].url
  /\ kern'[p].format = kern[p].format /\ kern'[p].count = kern[p].count
SameKernel(p) == SameRequest(p) /\ kern'[p].left = kern[p].left
Holds(p) ==
  /\ loc'[p].at = loc[p].at \/ (loc[p].at = "truncate" /\ loc'[p].at = "write")
  /\ KeepsRoute(p) /\ KeepsIndex(p) /\ KeepsId(p)

Quiet(p) ==
  /\ SameFiles /\ SameNames /\ SameKernel(p)
  /\ HasKernelId(p)' => Holds(p)
  /\ Fetching(p)' => Fetching(p)

(* PullKernel, which takes what is there or begins to load.                *)
Asks(p) ==
  /\ SameFiles /\ SameNames
  /\ kern'[p].left = kern[p].left /\ kern'[p].count = kern[p].count + 1
  /\ ReqOK(kern'[p].req)
  /\ kern'[p].url = ResolveKernel(kern'[p].req).url
  /\ kern'[p].format = ResolveKernel(kern'[p].req).format
  /\ loc'[p].at \in {"kerneled", "resolve", "download"}
  /\ loc'[p].at = "kerneled" => loc'[p].id \in Range(index["kernel"])

(* The steps of downloadAndExtract.                                        *)
Unpacks(p) ==
  /\ kernels' = kernels /\ harmed' = harmed /\ SameNames /\ SameKernel(p)
  /\ Fetching(p) /\ ~HasKernelId(p)'
  /\ \/ unpacked' = unpacked \/ RemoveUnpacked(p)
     \/ \E state : \E tree \in {Unpacked(p), Extracted(p)} : Unpack(p, state, tree)

Makes(p) ==
  /\ unpacked' = unpacked /\ harmed' = harmed /\ SameNames /\ SameRequest(p)
  /\ kern'[p].left = Tree(p) \cap NineP
  /\ findKernelBinary(Tree(p)) # {}
  /\ kernels' = With(kernels, NewKernelId(p), [bin |-> TRUE, mods |-> {}, saved |-> FALSE,
                                               url |-> kern[p].url])
  /\ loc[p].at = "binary" /\ loc'[p].at = "modules" /\ loc'[p].id = NewKernelId(p)

Copies(p) ==
  /\ unpacked' = unpacked /\ SameNames /\ SameRequest(p)
  /\ loc[p].at = "modules" /\ loc' = loc
  /\ \E m \in kern[p].left, copied \in BOOLEAN :
       /\ kern'[p].left = kern[p].left \ {m}
       /\ kernels' = [kernels EXCEPT ![loc[p].id].mods = IF copied THEN @ \cup {m} ELSE @]
       /\ harmed' = IF copied THEN harmed ELSE harmed \cup {loc[p].id}

Saves(p) ==
  /\ unpacked' = unpacked /\ harmed' = harmed /\ SameNames /\ SameKernel(p)
  /\ kernels' = [kernels EXCEPT ![loc[p].id].saved = TRUE]
  /\ kern[p].left = {} /\ ToSaving(p)

Picks(p) ==
  /\ SameFiles /\ SameNames /\ SameKernel(p) /\ ToRemoving(p)
  /\ loc'[p].id \in Range(index["kernel"])

Drops(p) ==
  /\ unpacked' = unpacked /\ harmed' = harmed /\ SameNames /\ SameKernel(p)
  /\ kernels' = Restrict(kernels, DOMAIN kernels \ {loc[p].id})
  /\ loc[p].at = "kernel removing" /\ ToIdle(p)

Reads(p) ==
  /\ SameFiles /\ SameNames /\ SameKernel(p)
  /\ loc[p].store = "kernel" /\ Loads(p)

Indexes(p) ==
  /\ SameFiles /\ SameKernel(p)
  /\ loc[p].store = "kernel" /\ Writes(p)
  /\ \/ SameNames /\ Fault
     \/ index'["kernel"] = Change(p) /\ (~lost' => index["kernel"] = loc[p].idx)

KernelMoves(p) ==
  \/ Quiet(p) \/ Asks(p) \/ Unpacks(p) \/ Makes(p) \/ Copies(p) \/ Saves(p) \/ Picks(p)
  \/ Drops(p) \/ Reads(p) \/ Indexes(p)

LEMMA KernelEffects ==
  ASSUME NEW p \in Proc, Shapes, Act(p)
  PROVE  \/ SameFiles /\ SameKernel(p)
         \/ PullKernel(p) \/ DownloadArchive(p) \/ DownloadEnds(p) \/ ExtractArchive(p)
         \/ CopyBinary(p) \/ CopyModule(p) \/ SaveKernel(p) \/ RemoveKernel(p)
<1>0. ShapesOK
  BY DEF Shapes
<1>1. CASE UNCHANGED kernelVars
  BY <1>1 DEF kernelVars, SameFiles, SameKernel, SameRequest
<1>2. CASE OCIKernelPulled(p)
  BY <1>0, <1>2 DEF OCIKernelPulled, SameFiles, SameKernel, SameRequest, ShapesOK, KernFields,
     kernelFiles
<1>3. CASE HandleKernel(p)
  BY <1>0, <1>3 DEF HandleKernel, SameFiles, SameKernel, SameRequest, ShapesOK, KernFields,
     kernelFiles
<1>4. CASE KernelStep(p) \/ Stall(p)
  BY <1>1, <1>2, <1>4 DEF KernelStep, Stall, KernelPulled, FindStored
<1>5. CASE BuildStep(p)
  BY <1>1, <1>3, <1>5 DEF BuildStep, ParseDockerfile, BeginProcess, HandleFrom, FromPulled,
     CopyBaseLayer, FromEnds, KernelEnds, HandleRun, Machine, RunEnds, HandleCopy, Configure,
     ProcessEnds, CommitKernel, CommitRootfs, CommitSave, CleanUp
<1>6. QED
  BY <1>1, <1>4, <1>5 DEF Act, Progress

LEMMA WantedIsSeq ==
  ASSUME NEW p \in Proc, BaseInv
  PROVE  IsSeq(Wanted(p))
<1>1. IsSeq(kern[p].raw)
  BY DEF BaseInv, Instructions, Readable
<1>2. IsSeq(Cmd(p).kernel)
  <2>1. CommandsOK
    BY DEF BaseInv, Shapes
  <2>2. Cmd(p) = todo[p][1] /\ 1 \in DOMAIN todo[p]
    BY <2>1, HeadInDomain DEF Cmd, CommandsOK
  <2>3. QED
    BY <2>1, <2>2 DEF CommandsOK
<1>3. QED
  BY <1>1, <1>2 DEF Wanted

LEMMA StoredHasName ==
  ASSUME NEW req, ResolveStored(req) # NoId
  PROVE  ResolveStored(req) \in Range(index["kernel"])
BY DEF ResolveStored, Range

LEMMA PullKernelAsks ==
  ASSUME NEW p \in Proc, BaseInv, PullKernel(p)
  PROVE  Quiet(p) \/ Asks(p)
<1>0. ShapesOK
  BY DEF BaseInv, Shapes
<1>1. SameFiles /\ SameNames
  BY <1>0 DEF PullKernel, SameFiles, SameNames, kernelFiles, stores
<1>2. ASSUME FailMet(p), kern' = kern
      PROVE  Quiet(p)
  <2>1. loc'[p].at \in {"failed", "build failed"}
    BY <1>0, <1>2 DEF FailMet, Failed, ShapesOK, LocFields
  <2>2. QED
    BY <1>1, <1>2, <2>1 DEF Quiet, SameKernel, SameRequest, HasKernelId, Indexing, Fetching
<1> DEFINE asked == ParseKernelRef(Wanted(p))
           req == [asked EXCEPT !.arch = IF @ = "" THEN hostArchKernel ELSE @]
           found == ResolveKernel(req)
           full == [req EXCEPT !.version = found.version]
<1>3. ASSUME asked.ok, found.ok,
             PullsKernel(p, full, found.url, found.format, ResolveStored(full))
      PROVE  Asks(p)
  <2>1. ReqOK(req)
    BY <1>3, WantedIsSeq, RequestIsOK
  <2>2. /\ ReqOK(full) /\ ResolveKernel(full).url = found.url
        /\ ResolveKernel(full).format = found.format
    BY <1>3, <2>1, ResolvedAgain
  <2> HIDE DEF full, found, req, asked
  <2>3. /\ kern'[p].req = full /\ kern'[p].url = found.url /\ kern'[p].format = found.format
        /\ kern'[p].count = kern[p].count + 1 /\ kern'[p].left = kern[p].left
        /\ loc'[p].at \in {"kerneled", "resolve", "download"}
        /\ loc'[p].id = ResolveStored(full)
        /\ loc'[p].at = "kerneled" => ResolveStored(full) # NoId
    BY <1>0, <1>3 DEF PullsKernel, ShapesOK, KernFields, LocFields
  <2>4. QED
    BY <1>1, <2>2, <2>3, StoredHasName DEF Asks
<1>4. QED
  BY <1>0, <1>2, <1>3, PullKernelCases

LEMMA KernelSteps ==
  ASSUME NEW p \in Proc, Shapes
  PROVE  /\ DownloadArchive(p) \/ DownloadEnds(p) \/ ExtractArchive(p) => Unpacks(p)
         /\ CopyBinary(p) => Quiet(p) \/ Makes(p)
         /\ CopyModule(p) => Copies(p)
         /\ SaveKernel(p) /\ ToSaving(p) => Saves(p)
         /\ RemoveKernel(p) => Drops(p)
<1>0. ShapesOK
  BY DEF Shapes
<1>1. ASSUME FailMet(p)
      PROVE  ~HasKernelId(p)' /\ ~Fetching(p)'
  <2>1. loc'[p].at \in {"failed", "build failed"}
    BY <1>0, <1>1 DEF FailMet, Failed, ShapesOK, LocFields
  <2>2. QED
    BY <2>1 DEF HasKernelId, Indexing, Fetching
<1>2. ASSUME NEW at \in {"body", "unpack", "binary"}, Goto(p, at)
      PROVE  ~HasKernelId(p)'
  BY <1>0, <1>2 DEF Goto, HasKernelId, Indexing, ShapesOK, LocFields
<1>3. ASSUME stores' = stores
      PROVE  SameNames
  BY <1>3 DEF stores, SameNames
<1>4. ASSUME kern' = kern
      PROVE  SameKernel(p)
  BY <1>4 DEF SameKernel, SameRequest
<1>5. ASSUME DownloadArchive(p)
      PROVE  Unpacks(p)
  BY <1>1, <1>2, <1>3, <1>4, <1>5 DEF DownloadArchive, At, Unpacks, Fetching
<1>6. ASSUME DownloadEnds(p)
      PROVE  Unpacks(p)
  BY <1>1, <1>2, <1>3, <1>4, <1>6 DEF DownloadEnds, At, Unpacks, Fetching
<1>7. ASSUME ExtractArchive(p)
      PROVE  Unpacks(p)
  BY <1>1, <1>2, <1>3, <1>4, <1>7 DEF ExtractArchive, At, Unpacks, Fetching
<1>8. ASSUME CopyBinary(p)
      PROVE  Quiet(p) \/ Makes(p)
  <2>1. /\ SameNames /\ unpacked' = unpacked /\ harmed' = harmed /\ loc[p].at = "binary"
        /\ \/ FailMet(p) /\ kernels' = kernels /\ kern' = kern
           \/ /\ findKernelBinary(Tree(p)) # {}
              /\ kernels' = With(kernels, NewKernelId(p),
                   [bin |-> TRUE, mods |-> {}, saved |-> FALSE, url |-> kern[p].url])
              /\ loc' = [loc EXCEPT ![p].at = "modules", ![p].id = NewKernelId(p)]
              /\ kern' = [kern EXCEPT ![p].left = Tree(p) \cap NineP]
    BY <1>3, <1>8 DEF CopyBinary, At
  <2>2. CASE FailMet(p) /\ kernels' = kernels /\ kern' = kern
    BY <1>1, <1>4, <2>1, <2>2 DEF Quiet, SameFiles
  <2>3. ASSUME NEW id, loc' = [loc EXCEPT ![p].at = "modules", ![p].id = id],
               NEW left, kern' = [kern EXCEPT ![p].left = left]
        PROVE  /\ loc'[p].at = "modules" /\ loc'[p].id = id
               /\ SameRequest(p) /\ kern'[p].left = left
    BY <1>0, <2>3 DEF SameRequest, ShapesOK, LocFields, KernFields
  <2>4. QED
    BY <2>1, <2>2, <2>3 DEF Makes
<1>9. ASSUME CopyModule(p)
      PROVE  Copies(p)
  <2>1. PICK m \in kern[p].left, copied \in BOOLEAN :
          /\ kern' = [kern EXCEPT ![p].left = @ \ {m}]
          /\ kernels' = [kernels EXCEPT ![loc[p].id].mods = IF copied THEN @ \cup {m} ELSE @]
          /\ harmed' = IF copied THEN harmed ELSE harmed \cup {loc[p].id}
    BY <1>9 DEF CopyModule
  <2>2. SameRequest(p) /\ kern'[p].left = kern[p].left \ {m}
    BY <1>0, <2>1 DEF SameRequest, ShapesOK, KernFields
  <2>3. /\ unpacked' = unpacked /\ SameNames /\ loc[p].at = "modules" /\ loc' = loc
    BY <1>3, <1>9 DEF CopyModule, At
  <2>4. QED
    BY <2>1, <2>2, <2>3 DEF Copies
<1>10. ASSUME SaveKernel(p), ToSaving(p)
       PROVE  Saves(p)
  BY <1>3, <1>4, <1>10 DEF SaveKernel, Saves
<1>11. ASSUME RemoveKernel(p)
       PROVE  Drops(p)
  <2>1. loc[p].at = "kernel removing" /\ ToIdle(p)
    BY <1>0, <1>11 DEF RemoveKernel, At, Goto, ToIdle, Idle, ShapesOK, LocFields
  <2>2. QED
    BY <1>3, <1>4, <1>11, <2>1 DEF RemoveKernel, Drops
<1>12. QED
  BY <1>5, <1>6, <1>7, <1>8, <1>9, <1>10, <1>11

LEMMA KernelFlow ==
  ASSUME NEW p \in Proc, BaseInv, Act(p)
  PROVE  KernelMoves(p)
<1>0. Shapes /\ ShapesOK /\ Control /\ Routed(p)
  BY DEF BaseInv, Shapes, Control
<1>1. CASE PullKernel(p)
  BY <1>1, PullKernelAsks DEF KernelMoves
<1>2. CASE DownloadArchive(p) \/ DownloadEnds(p) \/ ExtractArchive(p) \/ CopyBinary(p)
           \/ CopyModule(p) \/ RemoveKernel(p)
  BY <1>0, <1>2, KernelSteps DEF KernelMoves
<1>3. CASE SaveKernel(p)
  <2>1. ToSaving(p)
    BY <1>0, <1>3 DEF SaveKernel, At, ToSaving, KeepsId, ShapesOK, LocFields
  <2>2. QED
    BY <1>0, <1>3, <2>1, KernelSteps DEF KernelMoves
<1>4. ASSUME SameFiles, SameKernel(p),
             ~PullKernel(p), ~CopyBinary(p), ~SaveKernel(p)
      PROVE  KernelMoves(p)
  <2>1. CASE SaveIndex(p) /\ Writes(p)
    <3>1. Routes(p)
      BY <1>0, <2>1 DEF SaveIndex, At, Routed, Indexing
    <3>2. CASE loc[p].store = "kernel"
      <4>1. \/ index' = index /\ Fault
            \/ /\ index' = [index EXCEPT !["kernel"] = Change(p)]
               /\ lost' = (lost \/ index["kernel"] # loc[p].idx)
        BY <2>1, <3>2 DEF SaveIndex, stores
      <4>2. \/ SameNames /\ Fault
            \/ index'["kernel"] = Change(p) /\ (~lost' => index["kernel"] = loc[p].idx)
        BY <1>0, <4>1 DEF SameNames, ShapesOK
      <4>3. QED
        BY <1>4, <2>1, <3>2, <4>2 DEF Indexes, KernelMoves
    <3>3. CASE loc[p].store = "image"
      <4>1. SameNames
        BY <1>0, <2>1, <3>3 DEF SaveIndex, SameNames, ShapesOK, stores
      <4>2. loc'[p].at \in {"pulled", "removing", "done", "clean"}
        BY <2>1, <3>1, <3>3 DEF Writes, Routes
      <4>3. ~HasKernelId(p)' /\ (Fetching(p)' => Fetching(p))
        BY <2>1, <3>1, <3>3, <4>2 DEF HasKernelId, Indexing, Fetching, Writes, Routes, KeepsRoute,
           KeepsId
      <4>4. QED
        BY <1>4, <4>1, <4>3 DEF Quiet, KernelMoves
    <3>4. QED
      BY <3>1, <3>2, <3>3 DEF Routes
  <2>2. CASE ~(SaveIndex(p) /\ Writes(p))
    <3>1. SameNames
      BY <1>0, <2>2, IndexFlow DEF SameNames
    <3>2. ASSUME HasKernelId(p)' => Holds(p), Fetching(p)' => Fetching(p)
          PROVE  KernelMoves(p)
      BY <1>4, <3>1, <3>2 DEF Quiet, KernelMoves
    <3>3. CASE loc' = loc
      BY <3>2, <3>3 DEF Holds, KeepsRoute, KeepsIndex, KeepsId, Fetching, Indexing
    <3>4. CASE KeepsPlace(p)
      BY <3>2, <3>4 DEF Holds, KeepsPlace, KeepsRoute, KeepsId, Fetching, Indexing
    <3>5. CASE ToIdle(p)
      BY <3>2, <3>5 DEF ToIdle, Idle, HasKernelId, Fetching, Indexing
    <3>6. CASE PullsOn(p)
      BY <3>2, <3>6 DEF PullsOn, PullPlaces, HasKernelId, Fetching, Indexing
    <3>7. CASE ToImage(p)
      BY <3>2, <3>7 DEF ToImage, HasKernelId, Fetching, Indexing
    <3>8. CASE InLayers(p)
      BY <1>0, <3>2, <3>8 DEF InLayers, LayerPlaces, HasKernelId, Fetching, Indexing, Routed,
         KeepsRoute, KeepsId
    <3>9. CASE LoadIndex(p) /\ Loads(p)
      <4>1. CASE loc[p].store = "kernel"
        BY <1>4, <3>1, <3>9, <4>1 DEF Reads, KernelMoves
      <4>2. CASE loc[p].store # "kernel"
        BY <3>2, <3>9, <4>2 DEF Loads, HasKernelId, Fetching, Indexing, KeepsRoute, KeepsId
      <4>3. QED
        BY <4>1, <4>2
    <3>10. CASE Truncate(p) /\ Truncates(p)
      BY <3>2, <3>10 DEF Truncates, Holds, Fetching, Indexing, KeepsRoute, KeepsId
    <3>11. CASE ToIndex(p)
      BY <1>0, <3>2, <3>11 DEF ToIndex, HasKernelId, Fetching, Indexing, Routed
    <3>12. CASE ToBase(p)
      BY <3>2, <3>12 DEF ToBase, HasKernelId, Fetching, Indexing
    <3>13. CASE ToWork(p)
      BY <3>2, <3>13 DEF ToWork, HasKernelId, Fetching, Indexing
    <3>14. CASE Downloads(p)
      BY <3>2, <3>14 DEF Downloads, LoadPlaces, HasKernelId, Fetching, Indexing
    <3>15. CASE FindStored(p) /\ ToRemoving(p)
      BY <1>4, <3>1, <3>15, StoredHasName DEF ToRemoving, Picks, KernelMoves
    <3>16. CASE Begins(p)
      <4>1. /\ loc'[p].at \in {"resolve", "rmi", "save image", "load image", "parse", "kernel",
                               "kernel rm"}
            /\ loc'[p].pulling = "image"
        BY <3>16, FirstPlaces DEF Begins
      <4>2. QED
        BY <3>2, <4>1 DEF HasKernelId, Fetching, Indexing
    <3>17. QED
      BY <1>0, <1>4, <2>2, Flow, StopsIdle, <3>3, <3>4, <3>5, <3>6, <3>7, <3>8, <3>9, <3>10, <3>11,
         <3>12, <3>13, <3>14, <3>15, <3>16 DEF Moves
  <2>3. QED
    BY <2>1, <2>2
<1>5. QED
  BY <1>0, <1>1, <1>2, <1>3, <1>4, KernelEffects

-----------------------------------------------------------------------------
(* Where a step leads from, and which ids it may bring up.                 *)
LEMMA KernelPlaces ==
  ASSUME NEW p \in Proc, Routed(p), Routed(p)', KernelMoves(p)
  PROVE  /\ ~Asks(p) => /\ SameRequest(p)
                        /\ Fetching(p)' => Fetching(p)
                        /\ loc'[p].at = "modules" => loc[p].at = "modules" \/ Fetching(p)
         /\ Making(p)' => \/ Makes(p)
                          \/ Making(p) /\ loc'[p].id = loc[p].id
<1>1. Making(p)' => HasKernelId(p)'
  BY DEF Making, Saving, HasKernelId, Routed, Routes, Indexing
<1>2. CASE Quiet(p)
  BY <1>1, <1>2 DEF Quiet, SameKernel, Holds, HasKernelId, Making, Saving, Indexing, KeepsRoute,
     KeepsId
<1>3. CASE Asks(p)
  BY <1>3 DEF Asks, Making, Saving, Indexing
<1>4. CASE Unpacks(p)
  BY <1>1, <1>4 DEF Unpacks, SameKernel, HasKernelId
<1>5. CASE Makes(p)
  BY <1>5 DEF Makes, Fetching, Indexing
<1>6. CASE Copies(p)
  BY <1>6 DEF Copies, Fetching, Making, Saving, Indexing
<1>7. CASE Saves(p)
  BY <1>7 DEF Saves, SameKernel, ToSaving, Fetching, Making, Saving, Indexing, KeepsId
<1>8. CASE Picks(p)
  BY <1>8 DEF Picks, SameKernel, ToRemoving, Fetching, Making, Saving, Indexing
<1>9. CASE Drops(p)
  BY <1>9 DEF Drops, SameKernel, ToIdle, Idle, Fetching, Making, Saving, Indexing
<1>10. CASE Reads(p)
  BY <1>10 DEF Reads, SameKernel, Loads, Fetching, Making, Saving, Indexing, KeepsRoute, KeepsId,
     Routed, Routes
<1>11. CASE Indexes(p)
  BY <1>11 DEF Indexes, SameKernel, Writes, Fetching, Making, Saving, Indexing, Routed, Routes
<1>12. QED
  BY <1>2, <1>3, <1>4, <1>5, <1>6, <1>7, <1>8, <1>9, <1>10, <1>11 DEF KernelMoves

LEMMA ChangedIds ==
  ASSUME NEW p, NEW id \in Range(Change(p))
  PROVE  id \in Range(loc[p].idx) \/ (id = loc[p].id /\ loc[p].next # "kernel removing")
BY DEF Change, Range, Restrict

LEMMA TouchedKept ==
  ASSUME NEW p \in Proc, Routed(p), Routed(p)', KernelMoves(p), NEW id
  PROVE  /\ Touches(p, id)' => \/ Touches(p, id) \/ id \in Range(index["kernel"])
                               \/ Makes(p) /\ id = NewKernelId(p)
         /\ id \in Range(index'["kernel"]) => id \in Range(index["kernel"]) \/ Touches(p, id)
<1>1. CASE SameNames /\ ~HasKernelId(p)'
  BY <1>1 DEF SameNames, Touches, InIndex, HasKernelId, Indexing
<1>2. CASE Quiet(p)
  BY <1>1, <1>2 DEF Quiet, SameNames, Holds, Touches, InIndex, HasKernelId, Indexing, KeepsRoute,
     KeepsId, KeepsIndex
<1>3. CASE Asks(p)
  BY <1>3 DEF Asks, SameNames, Touches, InIndex, HasKernelId, Indexing
<1>4. CASE Unpacks(p)
  BY <1>1, <1>4 DEF Unpacks
<1>5. CASE Makes(p)
  BY <1>5 DEF Makes, SameNames, Touches, InIndex, HasKernelId, Indexing
<1>6. CASE Copies(p)
  BY <1>6 DEF Copies, SameNames, Touches, InIndex, HasKernelId, Indexing
<1>7. CASE Saves(p)
  BY <1>7 DEF Saves, SameNames, ToSaving, Touches, InIndex, HasKernelId, Indexing, KeepsId
<1>8. CASE Picks(p)
  BY <1>8 DEF Picks, SameNames, ToRemoving, Touches, InIndex, HasKernelId, Indexing
<1>9. CASE Drops(p)
  BY <1>1, <1>9 DEF Drops, ToIdle, Idle, HasKernelId, Indexing
<1>10. CASE Reads(p)
  BY <1>10 DEF Reads, SameNames, Loads, Touches, InIndex, HasKernelId, Indexing, KeepsRoute,
     KeepsId
<1>11. CASE Indexes(p)
  <2>1. id \in Range(index'["kernel"]) => id \in Range(index["kernel"]) \/ Touches(p, id)
    BY <1>11, ChangedIds DEF Indexes, SameNames, Writes, Touches, InIndex, HasKernelId, Indexing
  <2>2. Touches(p, id)' => Touches(p, id)
    BY <1>11 DEF Indexes, Writes, Touches, InIndex, HasKernelId, Indexing, KeepsId, Routed, Routes
  <2>3. QED
    BY <2>1, <2>2
<1>12. QED
  BY <1>2, <1>3, <1>4, <1>5, <1>6, <1>7, <1>8, <1>9, <1>10, <1>11 DEF KernelMoves

LEMMA OthersTouch ==
  ASSUME NEW p \in Proc, Alone(p), NEW q \in Proc \ {p}
  PROVE  /\ \A id : Touches(q, id)' <=> Touches(q, id)
         /\ HasKernelId(q)' <=> HasKernelId(q)
         /\ Fetching(q)' <=> Fetching(q)
         /\ Making(q)' <=> Making(q)
         /\ Saving(q)' <=> Saving(q)
         /\ Removing(q)' <=> Removing(q)
         /\ loc'[q] = loc[q] /\ kern'[q] = kern[q]
BY DEF Alone, Touches, InIndex, HasKernelId, Fetching, Making, Saving, Removing, Indexing

LEMMA MadeKernels ==
  ASSUME NEW p \in Proc, KernelMoves(p), NEW id \in DOMAIN kernels'
  PROVE  id \in DOMAIN kernels \/ (Makes(p) /\ id = NewKernelId(p))
<1>1. CASE kernels' = kernels
  BY <1>1
<1>2. CASE Makes(p)
  BY <1>2 DEF Makes, With
<1>3. CASE Copies(p) \/ Saves(p)
  <2>1. DOMAIN kernels' = DOMAIN kernels
    BY <1>3 DEF Copies, Saves
  <2>2. QED
    BY <2>1
<1>4. CASE Drops(p)
  BY <1>4 DEF Drops, Restrict
<1>5. QED
  BY <1>1, <1>2, <1>3, <1>4
     DEF KernelMoves, Quiet, Asks, Unpacks, Picks, Reads, Indexes, SameFiles

LEMMA KnownKept ==
  ASSUME NEW p \in Proc, Routed(p), Routed(p)', Alone(p), KernelMoves(p), NEW id, KKnown(id)'
  PROVE  KKnown(id) \/ (Makes(p) /\ id = NewKernelId(p))
<1>1. id \in DOMAIN kernels' => id \in DOMAIN kernels \/ (Makes(p) /\ id = NewKernelId(p))
  BY MadeKernels
<1>2. QED
  BY <1>1, TouchedKept, OthersTouch DEF KKnown

LEMMA NewIdIsNew ==
  ASSUME NEW p \in Proc, CommandsOK, Counted, loc[p].at = "binary"
  PROVE  ~KKnown(NewKernelId(p))
<1>1. Len(todo[p]) \in Nat /\ kern[p].count \in Nat
  BY LenProperties DEF CommandsOK, IsSeq, Counted
<1>2. NewKernelId(p) = KId(p, Len(todo[p]), kern[p].count)
  BY DEF NewKernelId, KId
<1>3. Fetching(p) /\ ~(kern[p].count < kern[p].count)
  BY <1>1 DEF Fetching
<1>4. QED
  BY <1>1, <1>2, <1>3 DEF Counted

LEMMA CountedKept ==
  ASSUME NEW p \in Proc, Routed(p), Routed(p)', Alone(p), KernelMoves(p), Counted
  PROVE  Counted'
<1>1. \A q \in Proc : kern[q].count \in Nat
  BY DEF Counted
<1>2. /\ kern'[p].count \in {kern[p].count, kern[p].count + 1}
      /\ Fetching(p)' => Fetching(p) \/ kern'[p].count = kern[p].count + 1
      /\ Makes(p) => Fetching(p) /\ ~Fetching(p)'
  BY KernelPlaces DEF Asks, SameRequest, Makes, Fetching, Indexing
<1>3. ASSUME NEW q \in Proc, NEW n \in Nat, NEW c \in Nat, KKnown(KId(q, n, c))'
      PROVE  c <= kern'[q].count /\ (Fetching(q)' => c < kern'[q].count)
  <2>1. CASE KKnown(KId(q, n, c))
    BY <1>1, <1>2, <2>1, OthersTouch DEF Counted
  <2>2. CASE Makes(p) /\ KId(q, n, c) = NewKernelId(p)
    <3>1. q = p /\ c = kern[p].count
      BY <2>2 DEF KId, NewKernelId
    <3>2. QED
      BY <1>1, <1>2, <2>2, <3>1
  <2>3. QED
    BY <1>3, <2>1, <2>2, KnownKept
<1>4. \A q \in Proc : kern'[q].count \in Nat
  BY <1>1, <1>2, OthersTouch
<1>5. QED
  BY <1>3, <1>4 DEF Counted

LEMMA AskedKept ==
  ASSUME NEW p \in Proc, Routed(p), Routed(p)', Alone(p), KernelMoves(p), Counted, Asked
  PROVE  Asked'
<1>1. ASSUME NEW q \in Proc
      PROVE  /\ Fetching(q)' \/ loc'[q].at = "modules" => kern'[q].count > 0
             /\ kern'[q].count > 0 =>
                  /\ ReqOK(kern'[q].req)
                  /\ kern'[q].url = ResolveKernel(kern'[q].req).url
                  /\ kern'[q].format = ResolveKernel(kern'[q].req).format
  <2>1. CASE q # p
    BY <2>1, OthersTouch DEF Asked
  <2>2. CASE q = p /\ Asks(p)
    BY <2>2 DEF Asks, Counted
  <2>3. CASE q = p /\ ~Asks(p)
    BY <2>3, KernelPlaces DEF Asked, SameRequest
  <2>4. QED
    BY <2>1, <2>2, <2>3
<1>2. QED
  BY <1>1 DEF Asked

LEMMA SharedKept ==
  ASSUME NEW p \in Proc, KernelMoves(p), Asked, Shared
  PROVE  Shared'
<1>1. CASE unpacked' = unpacked
  BY <1>1 DEF Shared
<1>2. CASE RemoveUnpacked(p)
  BY <1>2 DEF Shared, RemoveUnpacked, Restrict
<1>3. ASSUME Fetching(p), NEW state, NEW tree \in {Unpacked(p), Extracted(p)},
             Unpack(p, state, tree)
      PROVE  Shared'
  <2>1. ReqOK(kern[p].req) /\ kern[p].url = ResolveKernel(kern[p].req).url
    BY <1>3 DEF Asked
  <2>2. Unpacked(p) \in {{}, Packages[kern[p].url]}
    BY <2>1 DEF Unpacked, Key, Shared
  <2>3. tree \in {{}, Packages[kern[p].url]}
    BY <1>3, <2>2 DEF Extracted
  <2>4. ASSUME NEW r, ReqOK(r), KernelName(r) = Key(p)
        PROVE  ResolveKernel(r).url = kern[p].url
    BY <2>1, <2>4, SameAddress DEF Key
  <2>5. unpacked' = With(unpacked, Key(p), [archive |-> state, tree |-> tree])
    BY <1>3 DEF Unpack
  <2> HIDE DEF Key
  <2>6. ASSUME NEW key \in DOMAIN unpacked', NEW r, ReqOK(r), KernelName(r) = key
        PROVE  unpacked'[key].tree \in {{}, Packages[ResolveKernel(r).url]}
    <3>1. CASE key = Key(p)
      BY <2>3, <2>4, <2>5, <2>6, <3>1 DEF With
    <3>2. CASE key # Key(p)
      BY <2>5, <2>6, <3>2 DEF With, Shared
    <3>3. QED
      BY <3>1, <3>2
  <2>7. QED
    BY <2>6 DEF Shared
<1>4. QED
  BY <1>1, <1>2, <1>3 DEF KernelMoves, Quiet, Asks, Unpacks, Makes, Copies, Saves, Picks, Drops,
     Reads, Indexes, SameFiles

LEMMA UnsavedKept ==
  ASSUME NEW p \in Proc, Control, Control', CommandsOK, Alone(p), KernelMoves(p), Counted, Unsaved
  PROVE  Unsaved'
<1>0. Routed(p) /\ Routed(p)'
  BY DEF Control
<1>1. \A q \in Proc : Making(q) =>
        /\ Touches(q, loc[q].id) /\ loc[q].id \notin Range(index["kernel"])
        /\ \A r \in Proc \ {q} : ~Touches(r, loc[q].id)
  BY DEF Unsaved, OnlyFor, Making, Saving, Touches, HasKernelId, Control, Routed, Routes, Indexing
<1>2. Makes(p) => ~KKnown(NewKernelId(p))
  BY NewIdIsNew DEF Makes
<1>3. ASSUME NEW q \in Proc, Making(q)', NEW x, x = loc'[q].id
      PROVE  OnlyFor(q, x)'
  <2>1. CASE q # p
    <3>1. Making(q) /\ loc[q].id = x /\ Touches(q, x) /\ ~Touches(p, x)
          /\ x \notin Range(index["kernel"])
      BY <1>1, <1>3, <2>1, OthersTouch
    <3>2. ~(Makes(p) /\ x = NewKernelId(p))
      BY <1>2, <3>1 DEF KKnown
    <3>3. x \notin Range(index'["kernel"]) /\ ~Touches(p, x)'
      BY <1>0, <3>1, <3>2, TouchedKept
    <3>4. ASSUME NEW r \in Proc \ {p, q}
          PROVE  ~Touches(r, x)'
      BY <1>1, <3>1, OthersTouch
    <3>5. ~InIndex(q, x)'
      BY <2>1, <3>1 DEF Alone, InIndex, Unsaved, OnlyFor
    <3>6. QED
      BY <2>1, <3>3, <3>4, <3>5 DEF OnlyFor
  <2>2. CASE q = p /\ Makes(p)
    <3>1. x = NewKernelId(p) /\ ~KKnown(x) /\ SameNames
      BY <1>2, <1>3, <2>2 DEF Makes
    <3>2. x \notin Range(index'["kernel"])
      BY <3>1 DEF SameNames, KKnown
    <3>3. ~InIndex(p, x)'
      BY <2>2 DEF Makes, InIndex
    <3>4. ASSUME NEW r \in Proc \ {p}
          PROVE  ~Touches(r, x)'
      BY <3>1, OthersTouch DEF KKnown
    <3>5. QED
      BY <2>2, <3>2, <3>3, <3>4 DEF OnlyFor
  <2>3. CASE q = p /\ ~Makes(p)
    <3>1. Making(p) /\ loc[p].id = x
      BY <1>0, <1>3, <2>3, KernelPlaces
    <3>2. x \notin Range(index["kernel"]) /\ ~InIndex(p, x)
      BY <3>1 DEF Unsaved, OnlyFor
    <3>3. ~InIndex(p, x)' /\ x \notin Range(index'["kernel"])
      <4>1. HasKernelId(p)'
        BY <1>0, <1>3, <2>3 DEF Making, Saving, HasKernelId, Routed, Routes, Indexing
      <4>2. CASE Quiet(p)
        BY <3>2, <4>1, <4>2 DEF Quiet, Holds, SameNames, InIndex, KeepsRoute, KeepsIndex
      <4>3. CASE Copies(p)
        BY <3>2, <4>3 DEF Copies, SameNames, InIndex
      <4>4. CASE Saves(p)
        BY <3>2, <4>4 DEF Saves, ToSaving, SameNames, InIndex
      <4>5. CASE Reads(p)
        BY <3>2, <4>5 DEF Reads, Loads, SameNames, InIndex
      <4>6. ~Asks(p) /\ ~Unpacks(p) /\ ~Picks(p) /\ ~Drops(p)
        BY <1>3, <2>3, <4>1 DEF Asks, Unpacks, Picks, Drops, ToIdle, Idle, ToRemoving, Making,
           Saving, Indexing
      <4>7. ~Indexes(p)
        BY <1>0, <1>3, <2>3 DEF Indexes, Writes, Making, Saving, Indexing, Routed, Routes
      <4>8. QED
        BY <2>3, <4>2, <4>3, <4>4, <4>5, <4>6, <4>7 DEF KernelMoves
    <3>4. ASSUME NEW r \in Proc \ {p}
          PROVE  ~Touches(r, x)'
      BY <1>1, <3>1, OthersTouch
    <3>5. QED
      BY <2>3, <3>3, <3>4 DEF OnlyFor
  <2>4. QED
    BY <2>1, <2>2, <2>3
<1>4. \A q \in Proc : Making(q)' => \A x : x = loc'[q].id => OnlyFor(q, x)'
  BY <1>3
<1>5. QED
  BY <1>4 DEF Unsaved, OnlyFor, Touches, InIndex

-----------------------------------------------------------------------------
(* A kernel that nobody else has in hand stays as it is.                   *)
LEMMA KernelStays ==
  ASSUME NEW p \in Proc, KernelMoves(p), NEW id \in DOMAIN kernels,
         Makes(p) => NewKernelId(p) # id,
         loc[p].at \in {"modules", "kernel removing"} => loc[p].id # id
  PROVE  id \in DOMAIN kernels' /\ kernels'[id] = kernels[id]
<1>1. CASE kernels' = kernels
  BY <1>1
<1>2. CASE Makes(p)
  BY <1>2 DEF Makes, With
<1>3. CASE Copies(p)
  BY <1>3 DEF Copies
<1>4. CASE Saves(p)
  BY <1>4 DEF Saves, ToSaving
<1>5. CASE Drops(p)
  BY <1>5 DEF Drops, Restrict
<1>6. QED
  BY <1>1, <1>2, <1>3, <1>4, <1>5
     DEF KernelMoves, Quiet, Asks, Unpacks, Picks, Reads, Indexes, SameFiles

(* Only images have the format of an image.                                *)
LEMMA OnlyImages ==
  ASSUME NEW req, ResolveKernel(req).format = "oci-image"
  PROVE  req.distro = "oci"
<1>1. \A v, url, format : Located(v, url, format).format = format
  BY DEF Located
<1>2. Unresolved.format = ""
  BY DEF Unresolved
<1>3. DebianResolve(req).format \in {"", "deb"}
  <2> DEFINE v == IF Len(req.version) = 1 THEN Newest(req) ELSE req.version
             url == <<"debian", v[1], Tail(v), req.arch>>
  <2>1. \/ DebianResolve(req) = Unresolved
        \/ DebianResolve(req) = Located(v, url, "deb")
    BY DEF DebianResolve
  <2> HIDE DEF v, url
  <2>2. Located(v, url, "deb").format = "deb"
    BY <1>1
  <2>3. CASE DebianResolve(req) = Unresolved
    BY <1>2, <2>3
  <2>4. CASE DebianResolve(req) = Located(v, url, "deb")
    BY <2>2, <2>4
  <2>5. QED
    BY <2>1, <2>3, <2>4
<1>4. UbuntuResolve(req).format \in {"", "deb"}
  <2> DEFINE v == IF Len(req.version) = 1 THEN Newest(req) ELSE req.version
             url == <<"ubuntu", v[1], Tail(v), req.arch>>
  <2>1. \/ UbuntuResolve(req) = Unresolved
        \/ UbuntuResolve(req) = Located(v, url, "deb")
    BY DEF UbuntuResolve
  <2> HIDE DEF v, url
  <2>2. Located(v, url, "deb").format = "deb"
    BY <1>1
  <2>3. CASE UbuntuResolve(req) = Unresolved
    BY <1>2, <2>3
  <2>4. CASE UbuntuResolve(req) = Located(v, url, "deb")
    BY <2>2, <2>4
  <2>5. QED
    BY <2>1, <2>3, <2>4
<1>5. ArchLinuxResolve(req).format \in {"", "tar.zst"}
  <2> DEFINE v == IF Len(req.version) = 1 THEN Newest(req) ELSE req.version
             url == <<"archlinux", v[1], Tail(v), req.arch>>
  <2>1. \/ ArchLinuxResolve(req) = Unresolved
        \/ ArchLinuxResolve(req) = Located(v, url, "tar.zst")
    BY DEF ArchLinuxResolve
  <2> HIDE DEF v, url
  <2>2. Located(v, url, "tar.zst").format = "tar.zst"
    BY <1>1
  <2>3. CASE ArchLinuxResolve(req) = Unresolved
    BY <1>2, <2>3
  <2>4. CASE ArchLinuxResolve(req) = Located(v, url, "tar.zst")
    BY <2>2, <2>4
  <2>5. QED
    BY <2>1, <2>3, <2>4
<1>6. AlpineResolve(req).format \in {"", "apk"}
  <2> DEFINE flavored == IF Len(req.version) = 1 THEN Append(req.version, "lts")
                         ELSE req.version
             v == IF Len(flavored) = 2 THEN Newest([req EXCEPT !.version = flavored])
                  ELSE flavored
             url == <<"alpine", v[1], Tail(v), req.arch>>
  <2>1. \/ AlpineResolve(req) = Unresolved
        \/ AlpineResolve(req) = Located(v, url, "apk")
    BY DEF AlpineResolve
  <2> HIDE DEF v, url
  <2>2. Located(v, url, "apk").format = "apk"
    BY <1>1
  <2>3. CASE AlpineResolve(req) = Unresolved
    BY <1>2, <2>3
  <2>4. CASE AlpineResolve(req) = Located(v, url, "apk")
    BY <2>2, <2>4
  <2>5. QED
    BY <2>1, <2>3, <2>4
<1>7. HTTPResolve(req).format = "tar.xz"
  BY <1>1 DEF HTTPResolve
<1>8. QED
  BY <1>2, <1>3, <1>4, <1>5, <1>6, <1>7 DEF ResolveKernel

(* What is searched for modules is the package, if it is not an image.     *)
LEMMA TreeIsPackage ==
  ASSUME NEW p \in Proc, Asked, Shared, Fetching(p), findKernelBinary(Tree(p)) # {},
         kern[p].req.distro # "oci"
  PROVE  Tree(p) = Packages[kern[p].url]
<1>1. /\ ReqOK(kern[p].req) /\ kern[p].url = ResolveKernel(kern[p].req).url
      /\ kern[p].format = ResolveKernel(kern[p].req).format
  BY DEF Asked
<1>2. Tree(p) = Unpacked(p)
  BY <1>1, OnlyImages DEF Tree
<1>3. Unpacked(p) # {}
  BY <1>2 DEF findKernelBinary
<1>4. Key(p) \in DOMAIN unpacked /\ Unpacked(p) = unpacked[Key(p)].tree
  BY <1>3 DEF Unpacked
<1>5. unpacked[Key(p)].tree \in {{}, Packages[kern[p].url]}
  BY <1>1, <1>4 DEF Shared, Key
<1>6. QED
  BY <1>2, <1>3, <1>4, <1>5

LEMMA CopiedKept ==
  ASSUME NEW p \in Proc, Control, Control', CommandsOK, KernelsOK, Alone(p), KernelMoves(p),
         Counted, Asked, Shared, Unsaved, Copied
  PROVE  Copied'
<1>0. Routed(p) /\ Routed(p)'
  BY DEF Control
<1>1. harmed \subseteq harmed'
  BY DEF KernelMoves, Quiet, Asks, Unpacks, Makes, Copies, Saves, Picks, Drops, Reads, Indexes,
     SameFiles
<1>2. ASSUME NEW q \in Proc \ {p}, Making(q), NEW x, x = loc[q].id, x \in DOMAIN kernels
      PROVE  x \in DOMAIN kernels' /\ kernels'[x] = kernels[x]
  <2>1. OnlyFor(q, x)
    BY <1>2 DEF Unsaved
  <2>2. loc[p].at \in {"modules", "kernel removing"} => loc[p].id # x
    BY <2>1 DEF OnlyFor, Touches, HasKernelId
  <2>3. Makes(p) => NewKernelId(p) # x
    BY <1>2, NewIdIsNew DEF Makes, KKnown
  <2>4. QED
    BY <1>2, <2>2, <2>3, KernelStays
<1>3. ASSUME NEW q \in Proc \ {p}, loc'[q].id \notin harmed'
      PROVE  /\ loc'[q].at = "modules" => Copying(q)'
             /\ Saving(q)' => Ready(q)'
  <2>1. loc'[q] = loc[q] /\ kern'[q] = kern[q] /\ (Saving(q)' <=> Saving(q))
        /\ loc[q].id \notin harmed
    BY <1>1, <1>3, OthersTouch
  <2>2. CASE loc[q].at = "modules"
    <3>1. Copying(q) /\ Making(q)
      BY <2>1, <2>2 DEF Copied, Making
    <3>2. loc[q].id \in DOMAIN kernels' /\ kernels'[loc[q].id] = kernels[loc[q].id]
      BY <1>2, <3>1 DEF Copying
    <3>3. QED
      BY <2>1, <2>2, <3>1, <3>2 DEF Copying, Saving, Indexing
  <2>3. CASE Saving(q)
    <3>1. Ready(q) /\ Making(q)
      BY <2>1, <2>3 DEF Copied, Making
    <3>2. loc[q].id \in DOMAIN kernels' /\ kernels'[loc[q].id] = kernels[loc[q].id]
      BY <1>2, <3>1 DEF Ready, Complete
    <3>3. QED
      BY <2>1, <2>3, <3>1, <3>2 DEF Ready, Complete, Saving, Indexing
  <2>4. QED
    BY <2>1, <2>2, <2>3
<1>4. ASSUME loc'[p].id \notin harmed', loc'[p].at = "modules"
      PROVE  Copying(p)'
  <2>1. CASE Makes(p)
    <3> DEFINE x == NewKernelId(p)
    <3>1. /\ x \in DOMAIN kernels' /\ kernels'[x].bin /\ kernels'[x].mods = {}
          /\ kernels'[x].url = kern[p].url
      BY <2>1 DEF Makes, With
    <3>2. kern[p].req.distro # "oci" => Tree(p) = Packages[kern[p].url]
      <4>1. Fetching(p) /\ findKernelBinary(Tree(p)) # {}
        BY <2>1 DEF Makes, Fetching
      <4>2. QED
        BY <4>1, TreeIsPackage
    <3>3. /\ loc'[p].id = x /\ kern'[p].left = Tree(p) \cap NineP
          /\ kern'[p].req = kern[p].req
      BY <2>1 DEF Makes, SameRequest
    <3> HIDE DEF x
    <3>4. QED
      BY <3>1, <3>2, <3>3 DEF Copying
  <2>2. CASE Copies(p)
    <3>1. PICK m \in kern[p].left, copied \in BOOLEAN :
            /\ kern'[p].left = kern[p].left \ {m}
            /\ kernels' = [kernels EXCEPT ![loc[p].id].mods = IF copied THEN @ \cup {m} ELSE @]
            /\ harmed' = IF copied THEN harmed ELSE harmed \cup {loc[p].id}
      BY <2>2 DEF Copies
    <3>2. loc'[p] = loc[p] /\ loc[p].at = "modules" /\ kern'[p].req = kern[p].req
      BY <2>2 DEF Copies, SameRequest
    <3>3. copied /\ harmed' = harmed
      BY <1>4, <3>1, <3>2
    <3>4. Copying(p)
      BY <1>4, <3>2, <3>3 DEF Copied
    <3>5. kernels' = [kernels EXCEPT ![loc[p].id].mods = @ \cup {m}]
      BY <3>1, <3>3
    <3>6. /\ loc[p].id \in DOMAIN kernels' /\ kernels'[loc[p].id].bin = kernels[loc[p].id].bin
          /\ kernels'[loc[p].id].url = kernels[loc[p].id].url
          /\ kernels'[loc[p].id].mods = kernels[loc[p].id].mods \cup {m}
      BY <3>4, <3>5 DEF Copying, KernelsOK
    <3>7. QED
      BY <3>1, <3>2, <3>4, <3>6 DEF Copying
  <2>3. CASE Quiet(p)
    <3>1. Holds(p) /\ SameFiles /\ SameKernel(p)
      BY <1>4, <2>3 DEF Quiet, HasKernelId
    <3>2. loc[p].at = "modules" /\ loc'[p].id = loc[p].id
      BY <1>4, <3>1 DEF Holds, KeepsId
    <3>3. Copying(p)
      BY <1>4, <3>1, <3>2 DEF Copied, SameFiles
    <3>4. QED
      BY <3>1, <3>2, <3>3 DEF Copying, SameFiles, SameKernel, SameRequest
  <2>4. ~Asks(p) /\ ~Unpacks(p) /\ ~Saves(p) /\ ~Picks(p) /\ ~Drops(p) /\ ~Reads(p)
    BY <1>4 DEF Asks, Unpacks, Saves, Picks, Drops, Reads, HasKernelId, ToSaving, ToRemoving,
       ToIdle, Idle, Loads
  <2>5. ~Indexes(p)
    BY <1>0, <1>4 DEF Indexes, Writes, Routed, Routes, Indexing
  <2>6. QED
    BY <2>1, <2>2, <2>3, <2>4, <2>5 DEF KernelMoves
<1>5. ASSUME loc'[p].id \notin harmed', Saving(p)'
      PROVE  Ready(p)'
  <2>0. HasKernelId(p)'
    BY <1>0, <1>5 DEF Saving, HasKernelId, Routed, Routes, Indexing
  <2>1. CASE Saves(p)
    <3>0. PICK x, name : x = loc[p].id /\ name = KernelName(kern[p].req)
      OBVIOUS
    <3>1. /\ loc'[p].id = x /\ loc'[p].names = {name} /\ kern'[p].req = kern[p].req
          /\ x \notin harmed /\ loc[p].at = "modules" /\ kern[p].left = {}
          /\ kernels' = [kernels EXCEPT ![x].saved = TRUE]
      BY <1>1, <1>5, <2>1, <3>0 DEF Saves, ToSaving, KeepsId, SameKernel, SameRequest
    <3>2. Copying(p)
      BY <3>0, <3>1 DEF Copied
    <3>3. name.fields[1] = kern[p].req.distro
      <4>1. ReqOK(kern[p].req)
        BY <3>1 DEF Asked
      <4>2. QED
        BY <3>0, <4>1, NameOfKernel
    <3>4. /\ x \in DOMAIN kernels' /\ kernels'[x].bin /\ kernels'[x].saved
          /\ kernels'[x].url = kernels[x].url /\ kernels'[x].mods = kernels[x].mods
      BY <3>0, <3>1, <3>2 DEF Copying, KernelsOK
    <3>5. Complete(x, name)'
      BY <3>0, <3>1, <3>2, <3>3, <3>4 DEF Copying, Complete
    <3>6. QED
      BY <3>0, <3>1, <3>5 DEF Ready, Complete
  <2>2. CASE Quiet(p)
    <3>1. Holds(p) /\ SameFiles /\ SameKernel(p)
      BY <2>0, <2>2 DEF Quiet
    <3>2. Saving(p) /\ loc'[p].id = loc[p].id /\ loc'[p].names = loc[p].names
      BY <1>5, <3>1 DEF Holds, KeepsId, KeepsRoute, KeepsIndex, Saving, Indexing
    <3>3. Ready(p)
      BY <1>5, <3>1, <3>2 DEF Copied, SameFiles
    <3>4. QED
      BY <3>1, <3>2, <3>3 DEF Ready, Complete, SameFiles, SameKernel, SameRequest
  <2>3. CASE Reads(p)
    <3>1. Loads(p) /\ SameFiles /\ SameKernel(p)
      BY <2>3 DEF Reads
    <3>2. Saving(p) /\ loc'[p].id = loc[p].id /\ loc'[p].names = loc[p].names
      BY <1>5, <3>1 DEF Loads, KeepsId, KeepsRoute, Saving, Indexing
    <3>3. Ready(p)
      BY <1>5, <3>1, <3>2 DEF Copied, SameFiles
    <3>4. QED
      BY <3>1, <3>2, <3>3 DEF Ready, Complete, SameFiles, SameKernel, SameRequest
  <2>4. ~Asks(p) /\ ~Unpacks(p) /\ ~Makes(p) /\ ~Copies(p) /\ ~Picks(p) /\ ~Drops(p)
    BY <1>5, <2>0 DEF Asks, Unpacks, Makes, Copies, Picks, Drops, ToRemoving, ToIdle, Idle, Saving,
       Indexing
  <2>5. ~Indexes(p)
    BY <1>0, <1>5 DEF Indexes, Writes, Routed, Routes, Saving, Indexing
  <2>6. QED
    BY <2>1, <2>2, <2>3, <2>4, <2>5 DEF KernelMoves
<1>6. QED
  BY <1>3, <1>4, <1>5 DEF Copied

(* What is noted when a kernel is removed under its name.                  *)
Halves(p) ==
  /\ halved \subseteq halved'
  /\ loc[p].at = "write" /\ loc'[p].at = "kernel removing" /\ faults' # faults =>
       loc[p].id \in halved'

LEMMA HalvedNoted ==
  ASSUME NEW p \in Proc, Remember
  PROVE  Halves(p)
BY DEF Remember, Halves, At

LEMMA StoredKept ==
  ASSUME NEW p \in Proc, Control, Control', CommandsOK, Alone(p), KernelMoves(p), Halves(p),
         lost => lost', faults \in Nat, Counted, Unsaved, Copied, Stored
  PROVE  Stored'
<1>0. Routed(p) /\ Routed(p)'
  BY DEF Control
<1>1. harmed \subseteq harmed' /\ halved \subseteq halved'
  BY DEF KernelMoves, Quiet, Asks, Unpacks, Makes, Copies, Saves, Picks, Drops, Reads, Indexes,
     SameFiles, Halves
<1>2. ASSUME Removing(p)'
      PROVE  loc'[p].names = {n \in DOMAIN loc'[p].idx : loc'[p].idx[n] = loc'[p].id}
  <2>0. HasKernelId(p)'
    BY <1>0, <1>2 DEF Removing, HasKernelId, Routed, Routes, Indexing
  <2>1. CASE Quiet(p)
    <3>1. Holds(p)
      BY <2>0, <2>1 DEF Quiet
    <3>2. Removing(p)
      BY <1>2, <3>1 DEF Holds, KeepsRoute, Removing, Indexing
    <3>3. QED
      BY <3>1, <3>2 DEF Stored, Holds, KeepsIndex, KeepsId
  <2>2. CASE Reads(p)
    <3>1. Loads(p) /\ loc[p].next = "kernel removing"
      BY <1>2, <2>2 DEF Reads, Loads, KeepsRoute, Removing
    <3>2. QED
      BY <3>1 DEF Loads, KeepsId
  <2>3. ~Asks(p) /\ ~Unpacks(p) /\ ~Makes(p) /\ ~Copies(p) /\ ~Saves(p)
    BY <1>2, <2>0 DEF Asks, Unpacks, Makes, Copies, Saves, ToSaving, Removing, Indexing
  <2>4. ~Picks(p) /\ ~Drops(p)
    BY <1>2 DEF Picks, Drops, ToRemoving, ToIdle, Idle, Removing, Indexing
  <2>5. ~Indexes(p)
    BY <1>0, <1>2 DEF Indexes, Writes, Routed, Routes, Removing, Indexing
  <2>6. QED
    BY <2>1, <2>2, <2>3, <2>4, <2>5 DEF KernelMoves
<1>3. ASSUME NEW q \in Proc, Removing(q)'
      PROVE  loc'[q].names = {n \in DOMAIN loc'[q].idx : loc'[q].idx[n] = loc'[q].id}
  <2>1. CASE q = p
    BY <1>2, <1>3, <2>1
  <2>2. CASE q # p
    <3>1. loc'[q] = loc[q] /\ Removing(q)
      BY <1>3, <2>2, OthersTouch
    <3>2. loc[q].names = {n \in DOMAIN loc[q].idx : loc[q].idx[n] = loc[q].id}
      BY <3>1 DEF Stored
    <3>3. QED
      BY <3>1, <3>2
  <2>3. QED
    BY <2>1, <2>2
<1>4. \/ SameNames
      \/ /\ Indexes(p) /\ index'["kernel"] = Change(p)
         /\ ~lost' => index["kernel"] = loc[p].idx
  BY DEF KernelMoves, Quiet, Asks, Unpacks, Makes, Copies, Saves, Picks, Drops, Reads, Indexes
<1>5. ASSUME ~lost', NEW q \in Proc \ {p}, loc'[q].at = "kernel removing", NEW x, x = loc'[q].id,
             x \notin halved'
      PROVE  x \notin Range(index'["kernel"])
  <2>1. loc[q].at = "kernel removing" /\ loc[q].id = x /\ x \notin halved /\ ~lost
    BY <1>1, <1>5, OthersTouch
  <2>2. x \notin Range(index["kernel"])
    BY <2>1 DEF Stored
  <2>3. CASE SameNames
    BY <2>2, <2>3 DEF SameNames
  <2>4. CASE Indexes(p) /\ index'["kernel"] = Change(p) /\ index["kernel"] = loc[p].idx
    <3>1. ASSUME x = loc[p].id, loc[p].next # "kernel removing"
          PROVE  FALSE
      <4>1. Making(p)
        BY <1>0, <2>4, <3>1 DEF Indexes, Writes, Making, Saving, Indexing, Routed, Routes
      <4>2. ~Touches(q, x)
        BY <3>1, <4>1 DEF Unsaved, OnlyFor
      <4>3. QED
        BY <2>1, <4>2 DEF Touches, HasKernelId
    <3>2. QED
      BY <2>2, <2>4, <3>1, ChangedIds
  <2>5. QED
    BY <1>4, <1>5, <2>3, <2>4
<1>6. ASSUME ~lost', loc'[p].at = "kernel removing", NEW x, x = loc'[p].id, x \notin halved'
      PROVE  x \notin Range(index'["kernel"])
  <2>0. HasKernelId(p)' /\ ~lost
    BY <1>6 DEF HasKernelId
  <2>1. CASE Quiet(p)
    <3>1. loc[p].at = "kernel removing" /\ loc[p].id = x /\ SameNames
      BY <1>6, <2>0, <2>1 DEF Quiet, Holds, KeepsId
    <3>2. QED
      BY <1>1, <1>6, <2>0, <3>1 DEF Stored, SameNames
  <2>2. CASE Indexes(p)
    <3>1. /\ loc[p].at = "write" /\ loc[p].next = "kernel removing" /\ loc[p].id = x
          /\ Removing(p)
      BY <1>6, <2>2 DEF Indexes, Writes, KeepsId, Removing, Indexing
    <3>2. ~Fault
      <4>1. Fault => faults' # faults
        BY DEF Fault
      <4>2. faults' = faults
        BY <1>6, <3>1 DEF Halves
      <4>3. QED
        BY <4>1, <4>2
    <3>3. index'["kernel"] = Restrict(loc[p].idx, DOMAIN loc[p].idx \ loc[p].names)
      BY <2>2, <3>1, <3>2 DEF Indexes, Change
    <3>4. loc[p].names = {n \in DOMAIN loc[p].idx : loc[p].idx[n] = x}
      BY <3>1 DEF Stored
    <3>5. QED
      BY <3>3, <3>4 DEF Restrict, Range
  <2>3. ~Asks(p) /\ ~Unpacks(p) /\ ~Makes(p) /\ ~Copies(p) /\ ~Saves(p)
    BY <1>6, <2>0 DEF Asks, Unpacks, Makes, Copies, Saves, ToSaving
  <2>4. ~Picks(p) /\ ~Drops(p) /\ ~Reads(p)
    BY <1>6 DEF Picks, Drops, Reads, ToRemoving, ToIdle, Idle, Loads
  <2>5. QED
    BY <2>1, <2>2, <2>3, <2>4 DEF KernelMoves
<1>7. ASSUME ~lost', NEW k \in DOMAIN index["kernel"], NEW x, x = index["kernel"][k],
             x \notin halved' \cup harmed'
      PROVE  Complete(x, k)'
  <2>1. Complete(x, k) /\ x \in Range(index["kernel"]) /\ x \notin halved /\ ~lost
    BY <1>1, <1>7 DEF Stored, Range
  <2>2. Makes(p) => NewKernelId(p) # x
    BY <2>1, NewIdIsNew DEF Makes, KKnown
  <2>3. loc[p].at = "modules" => loc[p].id # x
    BY <2>1 DEF Unsaved, OnlyFor, Making
  <2>4. loc[p].at = "kernel removing" => loc[p].id # x
    BY <2>1 DEF Stored
  <2>5. x \in DOMAIN kernels' /\ kernels'[x] = kernels[x]
    BY <2>1, <2>2, <2>3, <2>4, KernelStays DEF Complete
  <2>6. QED
    BY <2>1, <2>5 DEF Complete
<1>8. ASSUME ~lost', NEW k \in DOMAIN index'["kernel"], NEW x, x = index'["kernel"][k],
             x \notin halved' \cup harmed'
      PROVE  Complete(x, k)'
  <2>1. CASE SameNames
    BY <1>7, <1>8, <2>1 DEF SameNames
  <2>2. ASSUME Indexes(p), index'["kernel"] = Change(p), index["kernel"] = loc[p].idx
        PROVE  Complete(x, k)'
    <3>1. /\ loc[p].at = "write" /\ loc[p].next \in {"kerneled", "kernel removing"}
          /\ kernels' = kernels /\ harmed' = harmed
      BY <1>0, <2>2 DEF Indexes, Writes, Routed, Routes, Indexing, SameFiles
    <3>2. CASE k \in DOMAIN index["kernel"] /\ index["kernel"][k] = x
      BY <1>7, <1>8, <3>2
    <3>3. ASSUME ~(k \in DOMAIN index["kernel"] /\ index["kernel"][k] = x)
          PROVE  loc[p].next = "kerneled" /\ k \in loc[p].names /\ x = loc[p].id
      BY <1>8, <2>2, <3>1, <3>3 DEF Change, Restrict
    <3>4. ASSUME loc[p].next = "kerneled", k \in loc[p].names, x = loc[p].id
          PROVE  Complete(x, k)'
      <4>1. Ready(p)
        BY <1>8, <3>1, <3>4 DEF Copied, Saving, Indexing
      <4>2. k = KernelName(kern[p].req) /\ Complete(x, k)
        BY <3>4, <4>1 DEF Ready
      <4>3. QED
        BY <3>1, <4>2 DEF Complete
    <3>5. QED
      BY <3>2, <3>3, <3>4
  <2>3. QED
    BY <1>4, <1>8, <2>1, <2>2
<1>9. ASSUME ~lost', NEW q \in Proc, loc'[q].at = "kernel removing", loc'[q].id \notin halved'
      PROVE  loc'[q].id \notin Range(index'["kernel"])
  BY <1>5, <1>6, <1>9
<1>10. QED
  BY <1>3, <1>8, <1>9 DEF Stored, Complete

-----------------------------------------------------------------------------
LEMMA KernelInvInit == Init => KernelInv
<1> SUFFICES ASSUME Init
             PROVE  KernelInv
  OBVIOUS
<1>1. /\ index["kernel"] = <<>> /\ kernels = <<>> /\ unpacked = <<>>
      /\ \A p \in Proc : kern[p] = NoKernel /\ kern[p].count = 0
  BY DEF Init, ImageInit, KernelInit, NoKernel
<1>2. DOMAIN <<>> = {} /\ Range(<<>>) = {}
  BY DEF Range
<1>3. CommandsOK
  BY TypeInvInit DEF TypeInv, BaseInv, Shapes
<1>4. ASSUME NEW p \in Proc
      PROVE  /\ loc[p].at \in {"resolve", "rmi", "save image", "load image", "parse", "kernel",
                               "kernel rm"}
             /\ loc[p].pulling = "image"
  <2>1. /\ loc[p] = Local(Head(todo[p])) /\ Head(todo[p]) = todo[p][1] /\ 1 \in DOMAIN todo[p]
    BY <1>3, HeadInDomain DEF CommandsOK, Init, ImageInit
  <2>2. \A cmd : Local(cmd).at = First[cmd.kind] /\ Local(cmd).pulling = "image"
    BY DEF Local
  <2>3. todo[p][1].kind \in DOMAIN First
    BY <1>3, <2>1 DEF CommandsOK
  <2>4. /\ loc[p].at = First[todo[p][1].kind] /\ loc[p].pulling = "image"
    BY <2>1, <2>2
  <2>5. QED
    BY <2>3, <2>4, FirstPlaces
<1>5. \A p \in Proc : /\ ~HasKernelId(p) /\ ~Fetching(p) /\ ~Making(p) /\ ~Removing(p)
                      /\ loc[p].at \notin {"modules", "kernel removing", "truncate", "write"}
  BY <1>4 DEF HasKernelId, Fetching, Making, Saving, Removing, Indexing
<1>6. \A id : ~KKnown(id)
  BY <1>1, <1>2, <1>5 DEF KKnown, Touches, InIndex
<1>7. Counted /\ Asked /\ Unsaved
  <2>1. \A p \in Proc : kern[p].count = 0 /\ ~Fetching(p) /\ loc[p].at # "modules"
    BY <1>1, <1>5
  <2>2. Counted
    BY <1>6, <2>1 DEF Counted
  <2>3. Asked
    BY <2>1 DEF Asked
  <2>4. Unsaved
    BY <1>5 DEF Unsaved
  <2>5. QED
    BY <2>2, <2>3, <2>4
<1>8. Shared
  BY <1>1, <1>2 DEF Shared
<1>9. Copied /\ Stored
  BY <1>1, <1>2, <1>5 DEF Copied, Stored, Making
<1>10. QED
  BY <1>7, <1>8, <1>9 DEF KernelInv

LEMMA KernelInvKept == TypeInv /\ TypeInv' /\ KernelInv /\ [Next]_vars => KernelInv'
<1> SUFFICES ASSUME TypeInv, TypeInv', KernelInv, [Next]_vars
             PROVE  KernelInv'
  OBVIOUS
<1>0. /\ BaseInv /\ Shapes /\ CommandsOK /\ Control /\ Control' /\ KernelsOK /\ faults \in Nat
      /\ Counted /\ Asked /\ Shared /\ Unsaved /\ Copied /\ Stored
  BY LimitAssumption DEF TypeInv, BaseInv, Shapes, LimitsOK, KernelInv
<1>1. ASSUME NEW p \in Proc, Act(p), Alone(p), Remember
      PROVE  KernelInv'
  <2>1. Routed(p) /\ Routed(p)'
    BY <1>0 DEF Control
  <2>2. KernelMoves(p)
    BY <1>0, <1>1, KernelFlow
  <2>3. Halves(p) /\ (lost => lost')
    BY <1>0, <1>1, HalvedNoted, IndexFlow
  <2>4. Counted' /\ Asked'
    BY <1>0, <1>1, <2>1, <2>2, CountedKept, AskedKept
  <2>5. Shared'
    BY <1>0, <2>2, SharedKept
  <2>6. Unsaved'
    BY <1>0, <1>1, <2>2, UnsavedKept
  <2>7. Copied'
    BY <1>0, <1>1, <2>2, CopiedKept
  <2>8. Stored'
    BY <1>0, <1>1, <2>2, <2>3, StoredKept
  <2>9. QED
    BY <2>4, <2>5, <2>6, <2>7, <2>8 DEF KernelInv
<1>2. ASSUME UNCHANGED <<stores, loc, kernelVars>>, halved \subseteq halved'
      PROVE  KernelInv'
  <2>1. /\ index' = index /\ lost' = lost /\ loc' = loc /\ kernels' = kernels
        /\ unpacked' = unpacked /\ kern' = kern /\ harmed' = harmed
    BY <1>2 DEF stores, kernelVars
  <2>2. \A p \in Proc : /\ HasKernelId(p)' <=> HasKernelId(p)
                        /\ Fetching(p)' <=> Fetching(p)
                        /\ Making(p)' <=> Making(p)
                        /\ Saving(p)' <=> Saving(p)
                        /\ Removing(p)' <=> Removing(p)
                        /\ \A id : /\ Touches(p, id)' <=> Touches(p, id)
                                   /\ InIndex(p, id)' <=> InIndex(p, id)
    BY <2>1 DEF HasKernelId, Fetching, Making, Saving, Removing, Indexing, Touches, InIndex
  <2>3. \A id : KKnown(id)' <=> KKnown(id)
    BY <2>1, <2>2 DEF KKnown
  <2>4. Counted' /\ Asked' /\ Shared'
    BY <1>0, <2>1, <2>2, <2>3 DEF Counted, Asked, Shared
  <2>5. Unsaved'
    BY <1>0, <2>1, <2>2 DEF Unsaved, OnlyFor
  <2>6. Copied'
    <3>1. \A p \in Proc : (Copying(p)' <=> Copying(p)) /\ (Ready(p)' <=> Ready(p))
      BY <2>1 DEF Copying, Ready, Complete
    <3>2. \A p \in Proc : /\ loc'[p].id = loc[p].id /\ loc'[p].at = loc[p].at
                          /\ Saving(p)' <=> Saving(p)
      BY <2>1, <2>2
    <3>3. ASSUME NEW p \in Proc, loc'[p].id \notin harmed'
          PROVE  /\ loc'[p].at = "modules" => Copying(p)'
                 /\ Saving(p)' => Ready(p)'
      <4>1. /\ loc[p].at = "modules" => Copying(p)
            /\ Saving(p) => Ready(p)
        BY <1>0, <2>1, <3>3 DEF Copied
      <4>2. QED
        BY <3>1, <3>2, <4>1
    <3>4. QED
      BY <3>3 DEF Copied
  <2>7. Stored'
    <3>1. \A id, name : Complete(id, name)' <=> Complete(id, name)
      BY <2>1 DEF Complete
    <3>2. \A p \in Proc : Removing(p)' =>
            loc'[p].names = {n \in DOMAIN loc'[p].idx : loc'[p].idx[n] = loc'[p].id}
      BY <1>0, <2>1, <2>2 DEF Stored
    <3>3. ~lost' => \A p \in Proc :
            loc'[p].at = "kernel removing" /\ loc'[p].id \notin halved' =>
              loc'[p].id \notin Range(index'["kernel"])
      BY <1>0, <1>2, <2>1 DEF Stored
    <3>4. ASSUME ~lost', NEW k \in DOMAIN index'["kernel"],
                 index'["kernel"][k] \notin halved' \cup harmed'
          PROVE  Complete(index'["kernel"][k], k)
      BY <1>0, <1>2, <2>1, <3>4 DEF Stored
    <3>5. QED
      BY <2>1, <3>1, <3>2, <3>3, <3>4 DEF Stored, Complete
  <2>8. QED
    BY <2>4, <2>5, <2>6, <2>7 DEF KernelInv
<1>3. CASE Next
  <2>1. Remember /\ halved \subseteq halved'
    BY <1>3 DEF Next, Remember
  <2>2. CASE ContainerStops /\ UNCHANGED <<kernelVars, work, bld>>
    BY <1>2, <2>1, <2>2 DEF ContainerStops
  <2>3. ASSUME NEW p \in Proc, Act(p)
        PROVE  KernelInv'
    <3>1. Alone(p)
      BY <1>0, <2>3, ShapesKept
    <3>2. QED
      BY <1>1, <2>1, <2>3, <3>1
  <2>4. QED
    BY <1>3, <2>2, <2>3, WhoActs
<1>4. CASE UNCHANGED vars
  BY <1>2, <1>4 DEF vars, imageVars, buildVars, history
<1>5. QED
  BY <1>3, <1>4

LEMMA KernelInvariant == Spec => [](TypeInv /\ KernelInv)
BY TypeInvInit, TypeInvKept, KernelInvInit, KernelInvKept, PTL DEF Spec

(* A kernel that has a name is whole, whatever processes pull, remove or   *)
(* build it at once, whatever requests and writes fail and wherever they   *)
(* are killed: the name is written last, after the directory, which is     *)
(* nobody else's until then; who shares the unpacked package shares one    *)
(* address, since a complete name leads to one; and a directory goes after *)
(* its name has gone (puller.go:86-120, store.go:75-87).                   *)
THEOREM KernelsAreWhole == Spec => []KernelWhole
<1>1. KernelInv => KernelWhole
  BY DEF KernelInv, Stored, Complete, KernelWhole
<1>2. QED
  BY <1>1, KernelInvariant, PTL


-----------------------------------------------------------------------------
(* Where only a build is, and what only load does.                         *)
BuildPlaces ==
  {"begin", "step", "from", "machine", "ran", "commit kernel", "commit rootfs", "commit save",
   "clean", "build failed"}

Committing(p) ==
  loc[p].at \in {"commit rootfs", "commit save"} \/ (Indexing(p) /\ loc[p].next = "clean")

OfKind(p) ==
  /\ loc[p].at \in BuildPlaces \/ Committing(p) => Cmd(p).kind = "build"
  /\ loc[p].at = "load image" => Cmd(p).kind = "load"

Kinds == \A p \in Proc : OfKind(p)

(* A build that has its working directory, and has it alone unless shared  *)
(* says otherwise.                                                         *)
Active(p) == Cmd(p).kind = "build" /\ loc[p].at \notin {"parse", "begin"} \cup Ended

OwnsWork(p) ==
  Active(p) /\ Second(p) \notin shared =>
    /\ Second(p) \in DOMAIN work
    /\ \A q \in Proc \ {p} : ~(Active(q) /\ Second(q) = Second(p))

Owned == \A p \in Proc : OwnsWork(p)

(* What a failed command leaves: no status, or one that says so.           *)
Failure(fs) == ExitCode \notin DOMAIN fs \/ fs[ExitCode].data = "1"

(* A build that is bad fails at once.                                      *)
FailsNext(p) ==
  /\ Active(p) \/ loc[p].at = "begin"
  /\ bld[p].bad /\ Cmd(p).kind = "build" /\ Second(p) \notin shared
  => loc[p].at = "build failed" \/ (loc[p].at = "ran" /\ Failure(CurRootfs(p)))

BadFails == \A p \in Proc : FailsNext(p)

(* The ids of built images that somebody knows.                            *)
BId(p, n) == <<"build", p, n>>

Knows(q, id) == id = loc[q].id \/ id \in Range(loc[q].idx)
Named(id) == id \in Range(index["image"]) \cup Range(index["kernel"])
BKnown(id) == id \in DOMAIN images \/ Named(id) \/ \E q \in Proc : Knows(q, id)

Committed(p) ==
  /\ Cmd(p).kind = "build" /\ (bld[p].bad => Second(p) \in shared)
  /\ Committing(p) \/ loc[p].at \in {"clean", "build failed"} \cup Halts

FreshFor(p) ==
  \A n \in Nat : BKnown(BId(p, n)) =>
    n >= Len(todo[p]) /\ (n = Len(todo[p]) => Committed(p))

Fresh == \A p \in Proc : FreshFor(p)

(* While an image is written nobody else has it in hand.                   *)
Alien(p, id) == Named(id) \/ \E q \in Proc \ {p} : Knows(q, id)

OwnImage(p) ==
  loc[p].at \in {"commit rootfs", "commit save"} =>
    NewId(p) \in DOMAIN images /\ ~Alien(p, NewId(p))

OwnImages == \A p \in Proc : OwnImage(p)

BuildInv == Kinds /\ Owned /\ BadFails /\ Fresh /\ OwnImages

-----------------------------------------------------------------------------
(* What the steps of a build do.                                           *)
SameBad(p) == bld'[p].bad = bld[p].bad
InWork(p, fs) == work' = With(work, Second(p), fs)
SameWork(p) == work' = work \/ \E fs : InWork(p, fs)

Parses(p) ==
  /\ loc[p].at = "parse" /\ loc'[p].at \in {"begin", "failed", "panicked"} /\ work' = work
  /\ IF loc'[p].at = "begin" THEN ~bld'[p].bad ELSE SameBad(p)
Opens(p) ==
  /\ loc[p].at = "begin" /\ loc'[p].at = "step" /\ SameBad(p)
  /\ InWork(p, CurRootfs(p))
Builds(p) ==
  /\ \/ loc[p].at \in {"step", "from"}
     \/ loc[p].at \in {"pulled", "kerneled"} /\ Cmd(p).kind = "build"
  /\ loc'[p].at \in
       {"step", "from", "resolve", "kernel", "machine", "commit kernel", "build failed"}
  /\ SameBad(p) /\ SameWork(p)
Boots(p) ==
  /\ loc[p].at = "machine" /\ loc'[p].at = "ran"
  /\ \E fs : InWork(p, fs) /\ (bld'[p].bad => bld[p].bad \/ Failure(fs))
Judges(p) ==
  /\ loc[p].at = "ran" /\ loc'[p].at \in {"step", "build failed"} /\ SameBad(p) /\ SameWork(p)
  /\ Failure(CurRootfs(p)) => loc'[p].at = "build failed"
Commits(p) ==
  /\ loc[p].at \in {"commit kernel", "commit rootfs", "commit save"} /\ Committing(p)'
  /\ loc[p].at = "commit kernel" <=> CommitKernel(p)
  /\ SameBad(p) /\ work' = work
Cleans(p) ==
  /\ loc[p].at \in {"clean", "build failed"} /\ loc'[p].at \in {"done", "failed"}
  /\ SameBad(p) /\ work' = Restrict(work, DOMAIN work \ {Second(p)})

BuildMoves(p) ==
  Parses(p) \/ Opens(p) \/ Builds(p) \/ Boots(p) \/ Judges(p) \/ Commits(p) \/ Cleans(p)

LEMMA BuildSteps ==
  ASSUME NEW p \in Proc, Shapes, OfKind(p), BuildStep(p)
  PROVE  BuildMoves(p)
<1>0. ShapesOK
  BY DEF Shapes
<1>a. ASSUME Fail(p), Cmd(p).kind = "build"
      PROVE  loc'[p].at = "build failed"
  BY <1>0, <1>a DEF Fail, Failed, ShapesOK, LocFields
<1>b. ASSUME NEW at, Goto(p, at)
      PROVE  loc'[p].at = at
  BY <1>0, <1>b DEF Goto, ShapesOK, LocFields
<1>c. loc[p].at \in BuildPlaces => Cmd(p).kind = "build"
  BY DEF OfKind
<1>d. ASSUME NEW b, b.bad = bld[p].bad, Step(p, b), DOMAIN b = BldFields
      PROVE  SameBad(p)
  BY <1>0, <1>d DEF Step, SameBad, ShapesOK, BldFields
<1>e. bld' = bld => SameBad(p)
  BY DEF SameBad
<1>1. CASE ParseDockerfile(p)
  <2>1. loc[p].at = "parse" /\ work' = work
    BY <1>1 DEF ParseDockerfile, At
  <2>2. CASE Parsed[Cmd(p).lines].result = "ok"
    <3>1. Goto(p, "begin") /\ \E instrs, settings :
            bld' = [bld EXCEPT ![p] = [NoBuild EXCEPT !.instrs = instrs, !.settings = settings]]
      BY <1>1, <2>2 DEF ParseDockerfile
    <3>2. ~bld'[p].bad
      <4>1. PICK instrs, settings :
              bld' = [bld EXCEPT ![p] = [NoBuild EXCEPT !.instrs = instrs, !.settings = settings]]
        BY <3>1
      <4>2. bld'[p] = [NoBuild EXCEPT !.instrs = instrs, !.settings = settings]
        BY <1>0, <4>1 DEF ShapesOK
      <4>3. QED
        BY <4>2 DEF NoBuild
    <3>3. QED
      BY <1>b, <2>1, <3>1, <3>2 DEF Parses, BuildMoves
  <2>3. CASE Parsed[Cmd(p).lines].result # "ok"
    <3>1. bld' = bld /\ \E at \in {"failed", "panicked"} : Goto(p, at)
      BY <1>1, <2>3 DEF ParseDockerfile
    <3>2. loc'[p].at \in {"failed", "panicked"}
      BY <1>b, <3>1
    <3>3. QED
      BY <1>e, <2>1, <3>1, <3>2 DEF Parses, BuildMoves
  <2>4. QED
    BY <2>2, <2>3
<1>2. CASE BeginProcess(p)
  <2>1. loc[p].at = "begin" /\ Goto(p, "step") /\ bld' = bld /\ InWork(p, CurRootfs(p))
    BY <1>2 DEF BeginProcess, At, PutRootfs, InWork
  <2>2. QED
    BY <1>b, <1>e, <2>1 DEF Opens, BuildMoves
<1>3. CASE HandleFrom(p)
  <2>1. loc[p].at = "step" /\ bld' = bld /\ work' = work
    BY <1>3 DEF HandleFrom, Handles, At
  <2>2. \/ Fail(p)
        \/ \E ref, platform :
             loc' = [loc EXCEPT ![p].at = "resolve", ![p].pulling = "image", ![p].ref = ref,
                                ![p].platform = platform]
    BY <1>3 DEF HandleFrom
  <2>3. ASSUME NEW ref, NEW platform,
               loc' = [loc EXCEPT ![p].at = "resolve", ![p].pulling = "image", ![p].ref = ref,
                                  ![p].platform = platform]
        PROVE  loc'[p].at = "resolve"
    BY <1>0, <2>3 DEF ShapesOK, LocFields
  <2>4. loc'[p].at \in {"build failed", "resolve"}
    BY <1>a, <1>c, <2>1, <2>2, <2>3 DEF BuildPlaces
  <2>5. QED
    BY <1>e, <2>1, <2>4 DEF Builds, SameWork, BuildMoves
<1>4. CASE FromPulled(p)
  <2>1. loc[p].at = "pulled" /\ Cmd(p).kind = "build" /\ bld' = bld /\ work' = work
    BY <1>4 DEF FromPulled, At
  <2>2. Fail(p) \/ \E copy : loc' = [loc EXCEPT ![p].at = "from", ![p].copy = copy]
    BY <1>4 DEF FromPulled
  <2>3. ASSUME NEW copy, loc' = [loc EXCEPT ![p].at = "from", ![p].copy = copy]
        PROVE  loc'[p].at = "from"
    BY <1>0, <2>3 DEF ShapesOK, LocFields
  <2>4. loc'[p].at \in {"build failed", "from"}
    BY <1>a, <2>1, <2>2, <2>3
  <2>5. QED
    BY <1>e, <2>1, <2>4 DEF Builds, SameWork, BuildMoves
<1>5. CASE CopyBaseLayer(p)
  <2>1. /\ loc[p].at = "from" /\ bld' = bld /\ loc' = [loc EXCEPT ![p].copy = Tail(@)]
        /\ \E fs : InWork(p, fs)
    BY <1>5 DEF CopyBaseLayer, At, PutRootfs, InWork
  <2>2. loc'[p].at = "from"
    BY <1>0, <2>1 DEF ShapesOK, LocFields
  <2>3. QED
    BY <1>e, <2>1, <2>2 DEF Builds, SameWork, BuildMoves
<1>6. CASE FromEnds(p)
  <2>1. loc[p].at = "from" /\ Goto(p, "step") /\ work' = work
    BY <1>6 DEF FromEnds, At
  <2>2. PICK layers, settings, base :
          Step(p, [bld[p] EXCEPT !.layers = layers, !.settings = settings, !.base = base])
    <3>1. PICK config : config = loc[p].config[1]
      OBVIOUS
    <3>2. Step(p, [bld[p] EXCEPT !.layers = @ \o config.layers, !.settings = config.settings,
                                 !.base = Append(@, loc[p].id)])
      BY <1>6, <3>1 DEF FromEnds
    <3>3. [bld[p] EXCEPT !.layers = @ \o config.layers, !.settings = config.settings,
                         !.base = Append(@, loc[p].id)]
            = [bld[p] EXCEPT !.layers = bld[p].layers \o config.layers,
                 !.settings = config.settings, !.base = Append(bld[p].base, loc[p].id)]
      BY <1>0 DEF ShapesOK, BldFields
    <3>4. QED
      BY <3>2, <3>3
  <2>3. SameBad(p)
    BY <1>0, <2>2 DEF Step, SameBad, ShapesOK, BldFields
  <2>4. QED
    BY <1>b, <2>1, <2>3 DEF Builds, SameWork, BuildMoves
<1>7. CASE HandleKernel(p)
  <2>1. loc[p].at = "step" /\ bld' = bld /\ work' = work /\ Goto(p, "kernel")
    BY <1>7 DEF HandleKernel, Handles, At
  <2>2. QED
    BY <1>b, <1>e, <2>1 DEF Builds, SameWork, BuildMoves
<1>8. CASE KernelEnds(p)
  <2>1. /\ loc[p].at = "kerneled" /\ Cmd(p).kind = "build" /\ Goto(p, "step") /\ work' = work
        /\ Step(p, [bld[p] EXCEPT !.kid = loc[p].id])
    BY <1>8 DEF KernelEnds, At
  <2>2. SameBad(p)
    BY <1>0, <2>1 DEF Step, SameBad, ShapesOK, BldFields
  <2>3. QED
    BY <1>b, <2>1, <2>2 DEF Builds, SameWork, BuildMoves
<1>9. CASE HandleRun(p)
  <2>1. loc[p].at = "step" /\ SameWork(p)
    BY <1>9 DEF HandleRun, Handles, At, PutRootfs, InWork, SameWork
  <2>2. /\ Goto(p, "machine") \/ loc' = loc
        /\ Step(p, bld[p]) \/ bld' = bld
    BY <1>9 DEF HandleRun
  <2>3. loc'[p].at \in {"machine", "step"}
    BY <1>b, <2>1, <2>2
  <2>4. SameBad(p)
    BY <1>0, <1>d, <1>e, <2>2 DEF ShapesOK
  <2>5. QED
    BY <2>1, <2>3, <2>4 DEF Builds, BuildMoves
<1>10. CASE Machine(p)
  <2>1. loc[p].at = "machine" /\ Goto(p, "ran")
    BY <1>10 DEF Machine, At
  <2>2. PICK status \in {"0", "1"}, written \in {"all", "created", "nothing"} :
          LET made == IF status = "1" THEN <<>>
                      ELSE Just(Instr(p).args, File(Instr(p).args, "made"))
              exit == IF written = "nothing" THEN <<>>
                      ELSE Just(ExitCode, File(ExitCode, IF written = "all" THEN status ELSE ""))
              bad == /\ status = "1" /\ written # "created"
                     /\ ExitCode \notin DOMAIN CurRootfs(p)
          IN  /\ InWork(p, Merge(exit, Merge(made, CurRootfs(p))))
              /\ bld' = [bld EXCEPT ![p].bad = @ \/ bad]
    BY <1>10 DEF Machine, PutRootfs, InWork
  <2> DEFINE made == IF status = "1" THEN <<>>
                     ELSE Just(Instr(p).args, File(Instr(p).args, "made"))
             exit == IF written = "nothing" THEN <<>>
                     ELSE Just(ExitCode, File(ExitCode, IF written = "all" THEN status ELSE ""))
             bad == /\ status = "1" /\ written # "created"
                    /\ ExitCode \notin DOMAIN CurRootfs(p)
             old == CurRootfs(p)
             fs == Merge(exit, Merge(made, old))
  <2>3. InWork(p, fs)
    BY <2>2
  <2>4. bld'[p].bad => bld[p].bad \/ bad
    <3>1. bld' = [bld EXCEPT ![p].bad = @ \/ bad]
      BY <2>2
    <3> HIDE DEF bad
    <3>2. bld'[p].bad = (bld[p].bad \/ bad)
      BY <1>0, <3>1 DEF ShapesOK, BldFields
    <3>3. QED
      BY <3>2
  <2>5. ASSUME bad
        PROVE  Failure(fs)
    <3>1. made = <<>> /\ DOMAIN made = {} /\ ExitCode \notin DOMAIN old
      BY <2>5
    <3>2. ExitCode \notin DOMAIN Merge(made, old)
      BY <3>1 DEF Merge
    <3>3. CASE written = "nothing"
      <4>1. exit = <<>> /\ DOMAIN exit = {}
        BY <3>3
      <4>2. ExitCode \notin DOMAIN fs
        BY <3>2, <4>1 DEF Merge
      <4>3. QED
        BY <4>2 DEF Failure
    <3>4. CASE written = "all"
      <4>1. exit = Just(ExitCode, File(ExitCode, "1"))
        BY <2>5, <3>4
      <4>2. ExitCode \in DOMAIN exit /\ exit[ExitCode] = File(ExitCode, "1")
        BY <4>1 DEF Just
      <4> HIDE DEF exit, made, old
      <4>3. fs[ExitCode] = File(ExitCode, "1")
        BY <3>2, <4>2 DEF Merge
      <4>4. QED
        BY <4>3 DEF Failure, File
    <3>5. QED
      BY <2>5, <3>3, <3>4
  <2> HIDE DEF fs, bad
  <2>6. QED
    BY <1>b, <2>1, <2>3, <2>4, <2>5 DEF Boots, BuildMoves
<1>11. CASE RunEnds(p)
  <2>1. loc[p].at = "ran" /\ \E fs : InWork(p, fs)
    BY <1>11 DEF RunEnds, At, PutRootfs, InWork
  <2>2. \/ ~Failure(CurRootfs(p)) /\ Step(p, bld[p]) /\ Goto(p, "step")
        \/ Fail(p) /\ bld' = bld
    BY <1>11 DEF RunEnds, Failure
  <2>3. SameBad(p)
    BY <1>0, <1>d, <1>e, <2>2 DEF ShapesOK
  <2>4. Cmd(p).kind = "build"
    BY <1>c, <2>1 DEF BuildPlaces
  <2>5. QED
    BY <1>a, <1>b, <2>1, <2>2, <2>3, <2>4 DEF Judges, SameWork, BuildMoves
<1>12. CASE HandleCopy(p)
  <2>1. loc[p].at = "step" /\ SameWork(p)
    BY <1>12 DEF HandleCopy, Handles, At, PutRootfs, InWork, SameWork
  <2>2. \/ Step(p, bld[p]) /\ loc' = loc
        \/ Fail(p) /\ bld' = bld
    BY <1>12 DEF HandleCopy
  <2>3. SameBad(p)
    BY <1>0, <1>d, <1>e, <2>2 DEF ShapesOK
  <2>4. loc'[p].at \in {"step", "build failed"}
    BY <1>a, <1>c, <2>1, <2>2 DEF BuildPlaces
  <2>5. QED
    BY <2>1, <2>3, <2>4 DEF Builds, BuildMoves
<1>13. CASE Configure(p)
  <2>1. loc[p].at = "step" /\ work' = work /\ loc' = loc
    BY <1>13 DEF Configure, At
  <2>2. Step(p, [bld[p] EXCEPT !.settings = Configured(@, Instr(p))])
    BY <1>13 DEF Configure
  <2>3. SameBad(p)
    <3>1. PICK settings : settings = Configured(bld[p].settings, Instr(p))
      OBVIOUS
    <3>2. Step(p, [bld[p] EXCEPT !.settings = settings])
      BY <1>0, <2>2, <3>1 DEF ShapesOK, BldFields
    <3>3. QED
      BY <1>0, <3>2 DEF Step, SameBad, ShapesOK, BldFields
  <2>4. QED
    BY <2>1, <2>3 DEF Builds, SameWork, BuildMoves
<1>14. CASE ProcessEnds(p)
  <2>1. /\ loc[p].at = "step" /\ work' = work /\ bld' = bld
        /\ Goto(p, "commit kernel") \/ Fail(p)
    BY <1>14 DEF ProcessEnds, At
  <2>2. loc'[p].at \in {"commit kernel", "build failed"}
    BY <1>a, <1>b, <1>c, <2>1 DEF BuildPlaces
  <2>3. QED
    BY <1>e, <2>1, <2>2 DEF Builds, SameWork, BuildMoves
<1>15. CASE CommitKernel(p)
  <2>1. /\ loc[p].at = "commit kernel" /\ work' = work /\ bld' = bld
        /\ loc' = [loc EXCEPT ![p].at = "commit rootfs", ![p].id = NewId(p)]
    BY <1>15 DEF CommitKernel, At
  <2>2. loc'[p].at = "commit rootfs"
    BY <1>0, <2>1 DEF ShapesOK, LocFields
  <2>3. QED
    BY <1>e, <1>15, <2>1, <2>2 DEF Commits, Committing, BuildMoves
<1>16. CASE CommitRootfs(p)
  <2>1. /\ loc[p].at = "commit rootfs" /\ work' = work /\ bld' = bld
        /\ Goto(p, "commit save")
    BY <1>16 DEF CommitRootfs, At
  <2>2. QED
    BY <1>b, <1>e, <2>1 DEF Commits, Committing, BuildMoves, CommitKernel, At
<1>17. CASE CommitSave(p)
  <2>1. /\ loc[p].at = "commit save" /\ work' = work /\ bld' = bld
        /\ \E names : ImageNames(p, names, "clean", FALSE)
    BY <1>17 DEF CommitSave, At
  <2>2. ASSUME NEW names, ImageNames(p, names, "clean", FALSE)
        PROVE  loc'[p].at = "load" /\ loc'[p].next = "clean"
    BY <1>0, <2>2 DEF ImageNames, ShapesOK, LocFields
  <2>3. Committing(p)'
    BY <2>1, <2>2 DEF Committing, Indexing
  <2>4. QED
    BY <1>e, <2>1, <2>3 DEF Commits, BuildMoves, CommitKernel, At
<1>18. CASE CleanUp(p)
  <2>1. /\ loc[p].at \in {"clean", "build failed"} /\ bld' = bld
        /\ work' = Restrict(work, DOMAIN work \ {Second(p)})
        /\ Goto(p, "done") \/ Goto(p, "failed")
    BY <1>18 DEF CleanUp, At
  <2>2. QED
    BY <1>b, <1>e, <2>1 DEF Cleans, BuildMoves
<1>19. QED
  BY <1>1, <1>2, <1>3, <1>4, <1>5, <1>6, <1>7, <1>8, <1>9, <1>10, <1>11, <1>12, <1>13, <1>14,
     <1>15, <1>16, <1>17, <1>18 DEF BuildStep

(* Only a build changes builds and their directories.                      *)
LEMMA Elsewhere ==
  ASSUME NEW p \in Proc, Act(p), ~BuildStep(p)
  PROVE  bld' = bld /\ work' = work
BY DEF Act, Progress

(* What may happen at the beginning and the end of a command.              *)
LEMMA Guarded ==
  ASSUME NEW p \in Proc, Act(p), ~BuildStep(p),
         loc[p].at \in {"parse", "begin", "ran", "build failed"} \cup Ended
  PROVE  NextCommand(p) \/ Killed(p)
<1>1. ~PullResolve(p) /\ ~FetchManifest(p) /\ ~FetchPlatform(p) /\ ~FetchConfig(p)
  BY DEF PullResolve, FetchManifest, FetchPlatform, FetchConfig, At, Ended
<1>2. ~NextLayer(p) /\ ~GetBlob(p) /\ ~ExtractEntry(p) /\ ~VerifyLayer(p)
  BY DEF NextLayer, GetBlob, ExtractEntry, VerifyLayer, At, Ended
<1>3. ~SaveImage(p) /\ ~Pulled(p) /\ ~FailedAttempt(p)
  BY DEF SaveImage, Pulled, FailedAttempt, Requests, At, Ended
<1>4. ~LoadIndex(p) /\ ~Truncate(p) /\ ~SaveIndex(p)
  BY DEF LoadIndex, Truncate, SaveIndex, At, Ended
<1>5. ~RmiResolve(p) /\ ~RemoveAll(p) /\ ~WriteArchive(p) /\ ~ReadArchive(p)
  BY DEF RmiResolve, RemoveAll, WriteArchive, ReadArchive, At, Ended
<1>6. ~AssembleRootfs(p) /\ ~CopyLayer(p) /\ ~Assembled(p) /\ ~CopyKernel(p)
  BY DEF AssembleRootfs, CopyLayer, Assembled, CopyKernel, At, Ended
<1>7. ~PullKernel(p) /\ ~DownloadArchive(p) /\ ~DownloadEnds(p) /\ ~ExtractArchive(p)
  BY DEF PullKernel, DownloadArchive, DownloadEnds, ExtractArchive, At, Ended
<1>8. ~OCIKernelPulled(p) /\ ~CopyBinary(p) /\ ~CopyModule(p) /\ ~SaveKernel(p)
  BY DEF OCIKernelPulled, CopyBinary, CopyModule, SaveKernel, At, Ended
<1>9. ~KernelPulled(p) /\ ~FindStored(p) /\ ~RemoveKernel(p) /\ ~Stall(p)
  BY DEF KernelPulled, FindStored, RemoveKernel, Stall, At, Ended
<1>10. QED
  BY <1>1, <1>2, <1>3, <1>4, <1>5, <1>6, <1>7, <1>8, <1>9
     DEF Act, Progress, ImageStep, Pull, KernelStep

LEMMA KilledGoes ==
  ASSUME NEW p \in Proc, ShapesOK, Killed(p)
  PROVE  loc'[p].at = "killed"
BY DEF Killed, Goto, ShapesOK, LocFields

LEMMA FirstLoads ==
  ASSUME NEW k \in DOMAIN First, First[k] = "load image"
  PROVE  k = "load"
<1>1. k \in {"pull", "run", "rmi", "save", "load", "build", "kpull", "krm"}
  BY DEF First
<1>2. /\ First.pull = "resolve" /\ First.run = "resolve" /\ First.rmi = "rmi"
      /\ First.save = "save image" /\ First.load = "load image" /\ First.build = "parse"
      /\ First.kpull = "kernel" /\ First.krm = "kernel rm"
  BY DEF First
<1>3. QED
  BY <1>1, <1>2

-----------------------------------------------------------------------------
(* Every step keeps the places of build and load apart from the others.    *)
LEMMA KindsKept ==
  ASSUME NEW p \in Proc, Shapes, Control, Kinds, Act(p)
  PROVE  Kinds'
<1>1. Alone(p) /\ (todo' = todo \/ NextCommand(p))
  BY ShapesKept, CommandsKept
<1>2. ASSUME NEW q \in Proc \ {p}
      PROVE  OfKind(q)'
  <2>1. loc'[q] = loc[q] /\ todo'[q] = todo[q] /\ OfKind(q)
    BY <1>1 DEF Kinds, Alone
  <2>2. QED
    BY <2>1 DEF OfKind, Committing, Indexing, Cmd
<1>3. OfKind(p)'
  <2>0. Routed(p) /\ OfKind(p)
    BY DEF Control, Kinds
  <2>1. ASSUME Begins(p)
        PROVE  OfKind(p)'
    BY <2>1, FirstPlaces, FirstLoads DEF Begins, OfKind, Committing, Indexing, BuildPlaces
  <2>2. CASE NextCommand(p)
    BY <2>1, <2>2, NextBegins
  <2>3. CASE todo' = todo
    <3>1. Cmd(p)' = Cmd(p)
      BY <2>3 DEF Cmd
    <3>3. CASE loc' = loc
      BY <3>3, <3>1, <2>0 DEF OfKind, Committing, Indexing
    <3>4. CASE KeepsPlace(p)
      BY <3>4, <3>1, <2>0 DEF OfKind, Committing, Indexing, KeepsPlace, KeepsRoute
    <3>5. CASE Stops(p)
      BY <3>5, <3>1 DEF OfKind, Committing, Indexing, BuildPlaces, Stops, Halts
    <3>6. CASE BuildStep(p) /\ ToIdle(p)
      <4>1. BuildMoves(p)
        BY <2>0, <3>6, BuildSteps
      <4>2. Cmd(p).kind = "build"
        BY <2>0, <4>1 DEF BuildMoves, Parses, Opens, Builds, Boots, Judges, Commits, Cleans,
           OfKind, BuildPlaces, Routed
      <4>3. QED
        BY <3>1, <3>6, <4>2 DEF ToIdle, Idle, OfKind
    <3>7. CASE PullsOn(p)
      BY <3>7 DEF OfKind, Committing, Indexing, BuildPlaces, PullsOn
    <3>8. CASE ToImage(p)
      BY <3>8 DEF OfKind, Committing, Indexing, BuildPlaces, ToImage
    <3>9. CASE InLayers(p)
      BY <3>9, <2>0 DEF OfKind, Committing, Indexing, BuildPlaces, InLayers, LayerPlaces, Routed,
         KeepsRoute
    <3>10. CASE Loads(p)
      BY <3>10, <3>1, <2>0 DEF OfKind, Committing, Indexing, BuildPlaces, Loads, KeepsRoute
    <3>11. CASE Truncates(p)
      BY <3>11, <3>1, <2>0 DEF OfKind, Committing, Indexing, BuildPlaces, Truncates, KeepsRoute
    <3>12. CASE Writes(p)
      BY <3>12, <3>1, <2>0 DEF OfKind, Committing, Indexing, BuildPlaces, Writes, Routed, Routes
    <3>13. CASE ToIndex(p)
      BY <3>1, <3>13, <2>0 DEF OfKind, Committing, Indexing, BuildPlaces, ToIndex
    <3>14. CASE ToBase(p)
      BY <3>14 DEF OfKind, Committing, Indexing, BuildPlaces, ToBase
    <3>15. CASE ToWork(p)
      BY <3>15, <3>1, <2>0 DEF OfKind, Committing, Indexing, BuildPlaces, ToWork
    <3>16. CASE ToKernel(p)
      BY <3>16 DEF OfKind, Committing, Indexing, BuildPlaces, ToKernel
    <3>17. CASE Downloads(p)
      BY <3>17 DEF OfKind, Committing, Indexing, BuildPlaces, Downloads
    <3>18. CASE ToModules(p)
      BY <3>18 DEF OfKind, Committing, Indexing, BuildPlaces, ToModules
    <3>19. CASE ToSaving(p)
      BY <3>19 DEF OfKind, Committing, Indexing, BuildPlaces, ToSaving
    <3>20. CASE ToRemoving(p)
      BY <3>20 DEF OfKind, Committing, Indexing, BuildPlaces, ToRemoving
    <3>21. QED
      BY Flow, <2>1, <3>3, <3>4, <3>5, <3>6, <3>7, <3>8, <3>9, <3>10, <3>11, <3>12, <3>13,
         <3>14, <3>15, <3>16, <3>17, <3>18, <3>19, <3>20 DEF Moves
  <2>4. QED
    BY <1>1, <2>2, <2>3
<1>4. QED
  BY <1>2, <1>3 DEF Kinds

-----------------------------------------------------------------------------
(* Directories.                                                            *)
LEMMA SharedGrows ==
  ASSUME RememberBuilds
  PROVE  /\ shared \subseteq shared'
         /\ \A p \in Proc : At(p, "begin") /\ At(p, "step")' /\ Second(p) \in DOMAIN work =>
                              Second(p) \in shared'
BY DEF RememberBuilds

LEMMA OthersBuild ==
  ASSUME NEW p \in Proc, Alone(p), NEW q \in Proc \ {p}
  PROVE  /\ loc'[q] = loc[q] /\ bld'[q] = bld[q] /\ todo'[q] = todo[q]
         /\ Cmd(q)' = Cmd(q) /\ Second(q)' = Second(q)
         /\ Active(q)' <=> Active(q)
BY DEF Alone, Active, Cmd, Second

(* A build in progress is one that was in progress, or that now begins.    *)
LEMMA ActiveFlow ==
  ASSUME NEW p \in Proc, Shapes, Control, Kinds, Act(p), Active(p)'
  PROVE  /\ todo' = todo /\ Second(p)' = Second(p) /\ Cmd(p)' = Cmd(p)
         /\ Active(p) \/ (BuildStep(p) /\ Opens(p))
<1>0. ShapesOK /\ OfKind(p)
  BY DEF Shapes, Kinds
<1>1. ~NextCommand(p)
  <2>1. ASSUME Begins(p)
        PROVE  ~Active(p)'
    BY <2>1, FirstPlaces DEF Begins, Active
  <2>2. QED
    BY <2>1, NextBegins
<1>2. todo' = todo
  BY <1>1, CommandsKept
<1>3. Second(p)' = Second(p) /\ Cmd(p)' = Cmd(p)
  BY <1>2 DEF Second, Cmd
<1>4. CASE ~BuildStep(p) /\ ~Active(p)
  <2>1. loc[p].at \in {"parse", "begin"} \cup Ended
    BY <1>3, <1>4 DEF Active
  <2>2. Killed(p)
    BY <1>1, <1>4, <2>1, Guarded
  <2>3. QED
    BY <1>0, <2>2, KilledGoes DEF Active, Ended
<1>5. CASE BuildStep(p) /\ ~Active(p)
  <2>1. BuildMoves(p)
    BY <1>0, <1>5, BuildSteps
  <2>2. loc[p].at \in {"parse", "begin"} \cup Ended
    BY <1>3, <1>5 DEF Active
  <2>3. ~Parses(p)
    BY <1>0 DEF Parses, Active, Ended
  <2>4. QED
    BY <1>2, <1>3, <1>5, <2>1, <2>2, <2>3
       DEF BuildMoves, Builds, Boots, Judges, Commits, Cleans, Ended
<1>6. QED
  BY <1>2, <1>3, <1>4, <1>5

(* A step changes the directory of its own build, which then is in use.    *)
LEMMA WorkFlow ==
  ASSUME NEW p \in Proc, Shapes, Kinds, Control, Act(p)
  PROVE  \/ work' = work
         \/ /\ BuildStep(p) /\ (Active(p) \/ Opens(p))
            /\ \/ \E fs : InWork(p, fs)
               \/ Cleans(p) /\ ~Active(p)'
<1>0. OfKind(p)
  BY DEF Kinds
<1>1. CASE BuildStep(p) /\ work' # work
  <2>1. BuildMoves(p)
    BY <1>0, <1>1, BuildSteps
  <2>2. Opens(p) \/ Builds(p) \/ Boots(p) \/ Judges(p) \/ Cleans(p)
    BY <1>1, <2>1 DEF BuildMoves, Parses, Commits
  <2>3. Active(p) \/ Opens(p)
    BY <1>0, <2>2 DEF Builds, Boots, Judges, Cleans, Active, Ended, OfKind, BuildPlaces
  <2>4. CASE Cleans(p)
    BY <1>1, <2>3, <2>4 DEF Cleans, Active, Ended
  <2>5. QED
    BY <1>1, <2>2, <2>3, <2>4 DEF Opens, Builds, Boots, Judges, SameWork
<1>2. QED
  BY <1>1, Elsewhere

(* What others have in their directories stays there.                      *)
LEMMA OthersWork ==
  ASSUME NEW p \in Proc, Shapes, Control, Kinds, Owned, Act(p), RememberBuilds,
         NEW q \in Proc \ {p}, Active(q), Second(q) \notin shared'
  PROVE  /\ Second(q) \in DOMAIN work' /\ Second(q) \in DOMAIN work
         /\ work'[Second(q)] = work[Second(q)]
         /\ Active(p)' => Second(p)' # Second(q)
<1>1. Second(q) \notin shared
  BY SharedGrows
<1>2. Second(q) \in DOMAIN work /\ (Active(p) => Second(p) # Second(q))
  <2>1. OwnsWork(q)
    BY DEF Owned
  <2>2. QED
    BY <1>1, <2>1 DEF OwnsWork
<1>3. Opens(p) => Second(p) # Second(q)
  <2>1. ASSUME Opens(p), Second(p) = Second(q)
        PROVE  FALSE
    <3>1. At(p, "begin") /\ At(p, "step")' /\ Second(p) \in DOMAIN work
      BY <1>2, <2>1 DEF Opens, At
    <3>2. QED
      BY <2>1, <3>1, SharedGrows
  <2>2. QED
    BY <2>1
<1>4. /\ Second(q) \in DOMAIN work' /\ work'[Second(q)] = work[Second(q)]
  <2>1. CASE work' = work
    BY <1>2, <2>1
  <2>2. ASSUME Second(p) # Second(q), NEW fs, InWork(p, fs)
        PROVE  Second(q) \in DOMAIN work' /\ work'[Second(q)] = work[Second(q)]
    BY <1>2, <2>2 DEF InWork, With
  <2>3. ASSUME Second(p) # Second(q), Cleans(p)
        PROVE  Second(q) \in DOMAIN work' /\ work'[Second(q)] = work[Second(q)]
    BY <1>2, <2>3 DEF Cleans, Restrict
  <2>4. QED
    BY <1>2, <1>3, <2>1, <2>2, <2>3, WorkFlow
<1>5. Active(p)' => Second(p)' # Second(q)
  BY <1>2, <1>3, ActiveFlow
<1>6. QED
  BY <1>2, <1>4, <1>5

LEMMA OwnedKept ==
  ASSUME NEW p \in Proc, Shapes, Control, Kinds, Owned, Act(p), RememberBuilds
  PROVE  Owned'
<1>1. Alone(p)
  BY ShapesKept
<1>2. ASSUME NEW q \in Proc \ {p}
      PROVE  OwnsWork(q)'
  <2>1. OwnsWork(q)
    BY DEF Owned
  <2>2. ASSUME Active(q)', Second(q)' \notin shared'
        PROVE  /\ Second(q)' \in DOMAIN work'
               /\ \A r \in Proc \ {q} : ~(Active(r)' /\ Second(r)' = Second(q)')
    <3>1. Active(q) /\ Second(q)' = Second(q) /\ Second(q) \notin shared'
      BY <1>1, <2>2, OthersBuild
    <3>2. Second(q) \in DOMAIN work' /\ (Active(p)' => Second(p)' # Second(q))
      BY <3>1, OthersWork
    <3>3. Second(q) \notin shared
      BY <3>1, SharedGrows
    <3>4. ASSUME NEW r \in Proc \ {q}
          PROVE  ~(Active(r)' /\ Second(r)' = Second(q)')
      <4>1. CASE r = p
        BY <3>1, <3>2, <4>1
      <4>2. CASE r # p
        <5>1. (Active(r)' <=> Active(r)) /\ Second(r)' = Second(r)
          BY <1>1, <4>2, OthersBuild
        <5>2. ~(Active(r) /\ Second(r) = Second(q))
          BY <2>1, <3>1, <3>3 DEF OwnsWork
        <5>3. QED
          BY <3>1, <5>1, <5>2
      <4>3. QED
        BY <4>1, <4>2
    <3>5. QED
      BY <3>1, <3>2, <3>4
  <2>3. QED
    BY <2>2 DEF OwnsWork
<1>3. ASSUME Active(p)', Second(p)' \notin shared'
      PROVE  /\ Second(p)' \in DOMAIN work'
             /\ \A r \in Proc \ {p} : ~(Active(r)' /\ Second(r)' = Second(p)')
  <2>1. /\ Second(p)' = Second(p) /\ Second(p) \notin shared'
        /\ Active(p) \/ (BuildStep(p) /\ Opens(p))
    BY <1>3, ActiveFlow
  <2>2. Second(p) \in DOMAIN work'
    <3>1. ASSUME NEW fs, InWork(p, fs)
          PROVE  Second(p) \in DOMAIN work'
      BY <3>1 DEF InWork, With
    <3>2. CASE work' = work
      <4>1. CASE Active(p)
        <5>1. OwnsWork(p) /\ Second(p) \notin shared
          BY <2>1, SharedGrows DEF Owned
        <5>2. QED
          BY <3>2, <4>1, <5>1 DEF OwnsWork
      <4>2. QED
        BY <2>1, <3>1, <4>1 DEF Opens
    <3>3. QED
      BY <1>3, <3>1, <3>2, WorkFlow
  <2>3. ASSUME NEW r \in Proc \ {p}
        PROVE  ~(Active(r)' /\ Second(r)' = Second(p)')
    <3>1. (Active(r)' <=> Active(r)) /\ Second(r)' = Second(r)
      BY <1>1, OthersBuild
    <3>2. Active(r) /\ Second(r) = Second(p) => Second(p)' # Second(r)
      BY <1>3, <2>1, OthersWork
    <3>3. QED
      BY <2>1, <3>1, <3>2
  <2>4. QED
    BY <2>1, <2>2, <2>3
<1>4. OwnsWork(p)'
  BY <1>3 DEF OwnsWork
<1>5. QED
  BY <1>2, <1>4 DEF Owned

-----------------------------------------------------------------------------
(* A build that is bad goes no further.                                    *)
LEMMA StillBad ==
  ASSUME NEW p \in Proc, Shapes, Control, Kinds, Act(p), FailsNext(p),
         shared \subseteq shared'
  PROVE  FailsNext(p)'
<1>0. ShapesOK /\ OfKind(p)
  BY DEF Shapes, Kinds
<1>1. SUFFICES ASSUME Active(p)' \/ loc'[p].at = "begin", bld'[p].bad, Cmd(p)'.kind = "build",
                      Second(p)' \notin shared'
               PROVE  \/ loc'[p].at = "build failed"
                      \/ loc'[p].at = "ran" /\ Failure(CurRootfs(p)')
  BY DEF FailsNext, Failure
<1>2. ~NextCommand(p)
  <2>1. ASSUME Begins(p)
        PROVE  FALSE
    BY <1>1, <2>1, FirstPlaces DEF Begins, Active
  <2>2. QED
    BY <2>1, NextBegins
<1>3. todo' = todo /\ Cmd(p)' = Cmd(p) /\ Second(p)' = Second(p)
  BY <1>2, CommandsKept DEF Cmd, Second
<1>4. Second(p) \notin shared /\ Cmd(p).kind = "build"
  BY <1>1, <1>3
<1>5. ASSUME Active(p) \/ loc[p].at = "begin", bld[p].bad
      PROVE  loc[p].at = "build failed" \/ (loc[p].at = "ran" /\ Failure(CurRootfs(p)))
  BY <1>4, <1>5 DEF FailsNext
<1>6. CASE ~BuildStep(p)
  <2>1. bld' = bld
    BY <1>6, Elsewhere
  <2>2. ~Killed(p)
    BY <1>0, <1>1, KilledGoes DEF Active, Ended
  <2>3. loc[p].at \notin {"parse", "begin", "ran", "build failed"} \cup Ended
    BY <1>2, <1>6, <2>2, Guarded
  <2>4. Active(p)
    BY <1>4, <2>3 DEF Active
  <2>5. QED
    BY <1>1, <1>5, <2>1, <2>3, <2>4
<1>7. CASE BuildStep(p)
  <2>1. BuildMoves(p)
    BY <1>0, <1>7, BuildSteps
  <2>2. CASE Parses(p)
    BY <1>1, <2>2 DEF Parses, Active, Ended
  <2>3. CASE Opens(p)
    BY <1>1, <1>5, <2>3 DEF Opens, SameBad
  <2>4. CASE Builds(p) \/ Commits(p)
    BY <1>1, <1>4, <1>5, <2>4 DEF Builds, Commits, SameBad, Active, Ended
  <2>5. CASE Boots(p)
    <3>1. ~bld[p].bad
      BY <1>4, <1>5, <2>5 DEF Boots, Active, Ended
    <3>2. PICK fs : InWork(p, fs) /\ Failure(fs)
      BY <1>1, <2>5, <3>1 DEF Boots
    <3>3. CurRootfs(p)' = fs
      BY <1>3, <3>2 DEF CurRootfs, InWork, With
    <3>4. QED
      BY <2>5, <3>2, <3>3 DEF Boots
  <2>6. CASE Judges(p)
    BY <1>1, <1>4, <1>5, <2>6 DEF Judges, SameBad, Active, Ended
  <2>7. CASE Cleans(p)
    BY <1>1, <2>7 DEF Cleans, Active, Ended
  <2>8. QED
    BY <2>1, <2>2, <2>3, <2>4, <2>5, <2>6, <2>7 DEF BuildMoves
<1>8. QED
  BY <1>6, <1>7

LEMMA BadFailsKept ==
  ASSUME NEW p \in Proc, Shapes, Control, Kinds, Owned, BadFails, Act(p), RememberBuilds
  PROVE  BadFails'
<1>1. Alone(p) /\ shared \subseteq shared'
  BY ShapesKept, SharedGrows
<1>2. ASSUME NEW q \in Proc \ {p}
      PROVE  FailsNext(q)'
  <2>1. FailsNext(q)
    BY DEF BadFails
  <2>2. /\ loc'[q] = loc[q] /\ bld'[q] = bld[q] /\ Cmd(q)' = Cmd(q) /\ Second(q)' = Second(q)
        /\ Active(q)' <=> Active(q)
    BY <1>1, OthersBuild
  <2>3. SUFFICES ASSUME Active(q)' \/ loc'[q].at = "begin", bld'[q].bad,
                        Cmd(q)'.kind = "build", Second(q)' \notin shared'
                 PROVE  \/ loc'[q].at = "build failed"
                        \/ loc'[q].at = "ran" /\ Failure(CurRootfs(q)')
    BY DEF FailsNext, Failure
  <2>4. Second(q) \notin shared' /\ Second(q) \notin shared
    BY <1>1, <2>2, <2>3
  <2>5. loc[q].at = "build failed" \/ (loc[q].at = "ran" /\ Failure(CurRootfs(q)))
    BY <2>1, <2>2, <2>3, <2>4 DEF FailsNext
  <2>6. CASE loc[q].at = "ran" /\ Failure(CurRootfs(q))
    <3>1. Active(q)
      BY <2>2, <2>3, <2>6 DEF Active, Ended
    <3>2. CurRootfs(q)' = CurRootfs(q)
      BY <2>2, <2>4, <3>1, OthersWork DEF CurRootfs
    <3>3. QED
      BY <2>2, <2>6, <3>2
  <2>7. CASE loc[q].at = "build failed"
    BY <2>2, <2>7
  <2>8. QED
    BY <2>5, <2>6, <2>7
<1>3. FailsNext(p)'
  BY <1>1, StillBad DEF BadFails
<1>4. QED
  BY <1>2, <1>3 DEF BadFails

-----------------------------------------------------------------------------
(* The ids that a process takes in hand.                                   *)
KeepsIds(p) == loc'[p].id = loc[p].id /\ loc'[p].idx = loc[p].idx

TakesId(p) ==
  \/ loc'[p].id = loc[p].id
  \/ loc'[p].id[1] \in {"none", "remote", "kernel", "load"}
  \/ loc'[p].id \in Range(index["image"]) \cup Range(index["kernel"])
  \/ CommitKernel(p) /\ loc'[p].id = NewId(p)
TakesIndex(p) == loc'[p].idx \in {loc[p].idx, <<>>, index["image"], index["kernel"]}

LEMMA FoundIds ==
  ASSUME NEW ref
  PROVE  /\ Resolve(ref) = NoId \/ Resolve(ref) \in Range(index["image"])
         /\ ResolveStored(ref) = NoId \/ ResolveStored(ref) \in Range(index["kernel"])
<1>1. Resolve(ref) = NoId \/ Resolve(ref) \in Range(index["image"])
  BY DEF Resolve, Range
<1>2. ResolveStored(ref) = NoId \/ ResolveStored(ref) \in Range(index["kernel"])
  BY DEF ResolveStored, Range
<1>3. QED
  BY <1>1, <1>2

LEMMA IdsTaken ==
  ASSUME NEW p \in Proc, Shapes, Control, Kinds, Act(p)
  PROVE  TakesId(p) /\ TakesIndex(p)
<1>0. ShapesOK /\ Routed(p) /\ OfKind(p)
  BY DEF Shapes, Control, Kinds
<1>a. ASSUME NEW x, \/ loc' = [loc EXCEPT ![p].at = x]
                    \/ loc' = [loc EXCEPT ![p].at = x, ![p].met = TRUE]
      PROVE  KeepsIds(p)
  <2>1. CASE loc' = [loc EXCEPT ![p].at = x]
    BY <1>0, <2>1 DEF KeepsIds, ShapesOK, LocFields
  <2>2. CASE loc' = [loc EXCEPT ![p].at = x, ![p].met = TRUE]
    BY <1>0, <2>2 DEF KeepsIds, ShapesOK, LocFields
  <2>3. QED
    BY <1>a, <2>1, <2>2
<1>b. Fail(p) \/ FailMet(p) \/ (\E at : Goto(p, at)) \/ loc' = loc => KeepsIds(p)
  BY <1>a DEF Fail, FailMet, Goto, KeepsIds
<1>c. ASSUME KeepsIds(p)
      PROVE  TakesId(p) /\ TakesIndex(p)
  BY <1>c DEF KeepsIds, TakesId, TakesIndex
<1>d. NoId[1] = "none"
  BY DEF NoId
<1>1. ASSUME FetchManifest(p)
      PROVE  KeepsIds(p)
  <2>1. \/ FailMet(p)
        \/ \E at, image :
             loc' = [loc EXCEPT ![p].at = at, ![p].image = image, ![p].tries = 0]
    BY <1>1 DEF FetchManifest
  <2>2. ASSUME NEW at, NEW image,
               loc' = [loc EXCEPT ![p].at = at, ![p].image = image, ![p].tries = 0]
        PROVE  KeepsIds(p)
    BY <1>0, <2>2 DEF KeepsIds, ShapesOK, LocFields
  <2>3. QED
    BY <1>b, <2>1, <2>2
<1>2. ASSUME FetchPlatform(p)
      PROVE  KeepsIds(p)
  BY <1>0, <1>2 DEF FetchPlatform, KeepsIds, ShapesOK, LocFields
<1>3. ASSUME NextLayer(p) \/ Pulled(p) \/ Truncate(p) \/ RemoveAll(p) \/ WriteArchive(p)
      PROVE  KeepsIds(p)
  BY <1>b, <1>3 DEF NextLayer, Pulled, Truncate, RemoveAll, WriteArchive
<1>4. ASSUME GetBlob(p)
      PROVE  KeepsIds(p)
  <2>1. \E blob, met :
          loc' = [loc EXCEPT ![p].at = "extract", ![p].e = 1, ![p].tries = 0,
                             ![p].blob = blob, ![p].met = met]
    BY <1>4 DEF GetBlob
  <2>2. ASSUME NEW blob, NEW met,
               loc' = [loc EXCEPT ![p].at = "extract", ![p].e = 1, ![p].tries = 0,
                                  ![p].blob = blob, ![p].met = met]
        PROVE  KeepsIds(p)
    BY <1>0, <2>2 DEF KeepsIds, ShapesOK, LocFields
  <2>3. QED
    BY <2>1, <2>2
<1>5. ASSUME ExtractEntry(p)
      PROVE  KeepsIds(p)
  <2>1. Fail(p) \/ loc' = [loc EXCEPT ![p].e = @ + 1]
    BY <1>5 DEF ExtractEntry
  <2>2. CASE loc' = [loc EXCEPT ![p].e = @ + 1]
    BY <1>0, <2>2 DEF KeepsIds, ShapesOK, LocFields
  <2>3. QED
    BY <1>b, <2>1, <2>2
<1>6. ASSUME VerifyLayer(p)
      PROVE  KeepsIds(p)
  <2>1. Fail(p) \/ loc' = [loc EXCEPT ![p].at = "layer", ![p].n = @ + 1]
    BY <1>6 DEF VerifyLayer
  <2>2. CASE loc' = [loc EXCEPT ![p].at = "layer", ![p].n = @ + 1]
    BY <1>0, <2>2 DEF KeepsIds, ShapesOK, LocFields
  <2>3. QED
    BY <1>b, <2>1, <2>2
<1>7. ASSUME SaveImage(p)
      PROVE  KeepsIds(p)
  <2>1. \E config : loc' = [loc EXCEPT ![p].at = "load", ![p].config = config]
    BY <1>7 DEF SaveImage
  <2>2. QED
    BY <1>0, <2>1 DEF KeepsIds, ShapesOK, LocFields
<1>8. ASSUME FailedAttempt(p)
      PROVE  KeepsIds(p)
  <2>1. FailMet(p) \/ loc' = [loc EXCEPT ![p].tries = @ + 1]
    BY <1>8 DEF FailedAttempt
  <2>2. CASE loc' = [loc EXCEPT ![p].tries = @ + 1]
    BY <1>0, <2>2 DEF KeepsIds, ShapesOK, LocFields
  <2>3. QED
    BY <1>b, <2>1, <2>2
<1>9. ASSUME SaveIndex(p)
      PROVE  KeepsIds(p)
  <2>1. FailMet(p) \/ Goto(p, loc[p].next)
    BY <1>9 DEF SaveIndex
  <2>2. QED
    BY <1>b, <2>1
<1>10. ASSUME AssembleRootfs(p) \/ FromPulled(p)
       PROVE  KeepsIds(p)
  <2>1. Fail(p) \/ \E at, copy : loc' = [loc EXCEPT ![p].at = at, ![p].copy = copy]
    BY <1>10 DEF AssembleRootfs, FromPulled
  <2>2. ASSUME NEW at, NEW copy, loc' = [loc EXCEPT ![p].at = at, ![p].copy = copy]
        PROVE  KeepsIds(p)
    BY <1>0, <2>2 DEF KeepsIds, ShapesOK, LocFields
  <2>3. QED
    BY <1>b, <2>1, <2>2
<1>11. ASSUME CopyLayer(p) \/ CopyBaseLayer(p)
       PROVE  KeepsIds(p)
  <2>1. Fail(p) \/ loc' = [loc EXCEPT ![p].copy = Tail(@)]
    BY <1>11 DEF CopyLayer, CopyBaseLayer
  <2>2. CASE loc' = [loc EXCEPT ![p].copy = Tail(@)]
    BY <1>0, <2>2 DEF KeepsIds, ShapesOK, LocFields
  <2>3. QED
    BY <1>b, <2>1, <2>2
<1>12. ASSUME Assembled(p) \/ CopyKernel(p) \/ Killed(p) \/ Stall(p)
       PROVE  KeepsIds(p)
  BY <1>b, <1>12 DEF Assembled, CopyKernel, Killed, Stall
<1>13. ASSUME DownloadArchive(p) \/ DownloadEnds(p) \/ ExtractArchive(p) \/ OCIKernelPulled(p)
       PROVE  KeepsIds(p)
  BY <1>b, <1>13 DEF DownloadArchive, DownloadEnds, ExtractArchive, OCIKernelPulled
<1>14. ASSUME CopyModule(p) \/ KernelPulled(p) \/ RemoveKernel(p)
       PROVE  KeepsIds(p)
  BY <1>b, <1>14 DEF CopyModule, KernelPulled, RemoveKernel
<1>15. ASSUME SaveKernel(p)
       PROVE  KeepsIds(p)
  BY <1>0, <1>15 DEF SaveKernel, KeepsIds, ShapesOK, LocFields
<1>16. ASSUME ParseDockerfile(p) \/ BeginProcess(p) \/ FromEnds(p) \/ HandleKernel(p)
       PROVE  KeepsIds(p)
  BY <1>b, <1>16 DEF ParseDockerfile, BeginProcess, FromEnds, HandleKernel
<1>17. ASSUME KernelEnds(p) \/ HandleRun(p) \/ Machine(p) \/ RunEnds(p)
       PROVE  KeepsIds(p)
  BY <1>b, <1>17 DEF KernelEnds, HandleRun, Machine, RunEnds
<1>18. ASSUME HandleCopy(p) \/ Configure(p) \/ ProcessEnds(p) \/ CommitRootfs(p) \/ CleanUp(p)
       PROVE  KeepsIds(p)
  BY <1>b, <1>18 DEF HandleCopy, Configure, ProcessEnds, CommitRootfs, CleanUp
<1>19. ASSUME HandleFrom(p)
       PROVE  KeepsIds(p)
  <2>1. \/ Fail(p)
        \/ \E ref, platform :
             loc' = [loc EXCEPT ![p].at = "resolve", ![p].pulling = "image", ![p].ref = ref,
                                ![p].platform = platform]
    BY <1>19 DEF HandleFrom
  <2>2. ASSUME NEW ref, NEW platform,
               loc' = [loc EXCEPT ![p].at = "resolve", ![p].pulling = "image", ![p].ref = ref,
                                  ![p].platform = platform]
        PROVE  KeepsIds(p)
    BY <1>0, <2>2 DEF KeepsIds, ShapesOK, LocFields
  <2>3. QED
    BY <1>b, <2>1, <2>2
<1>20. ASSUME CommitSave(p)
       PROVE  KeepsIds(p)
  <2>1. \E names : ImageNames(p, names, "clean", FALSE)
    BY <1>20 DEF CommitSave
  <2>2. ASSUME NEW names, ImageNames(p, names, "clean", FALSE)
        PROVE  KeepsIds(p)
    BY <1>0, <2>2 DEF ImageNames, KeepsIds, ShapesOK, LocFields
  <2>3. QED
    BY <2>1, <2>2
<1>21. ASSUME PullResolve(p)
       PROVE  TakesId(p) /\ TakesIndex(p)
  <2>1. PICK id : id = Resolve(loc[p].ref)
    OBVIOUS
  <2>2. \E config, at : loc' = [loc EXCEPT ![p].id = id, ![p].tries = 0, ![p].config = config,
                                           ![p].at = at]
    BY <1>21, <2>1 DEF PullResolve
  <2>3. loc'[p].id = id /\ loc'[p].idx = loc[p].idx
    BY <1>0, <2>2 DEF ShapesOK, LocFields
  <2>4. QED
    BY <1>d, <2>1, <2>3, FoundIds DEF TakesId, TakesIndex
<1>22. ASSUME LoadIndex(p)
       PROVE  TakesId(p) /\ TakesIndex(p)
  <2>1. loc[p].store \in {"image", "kernel"}
    BY <1>0, <1>22 DEF LoadIndex, At, Routed, Routes, Indexing
  <2> DEFINE idx == index[loc[p].store]
             names == IF loc[p].next \in {"removing", "kernel removing"}
                        THEN {n \in DOMAIN idx : idx[n] = loc[p].id} ELSE loc[p].names
             at == IF loc[p].strict THEN Failed(p) ELSE "panicked"
  <2>2. \/ loc' = [loc EXCEPT ![p].at = "truncate", ![p].idx = idx, ![p].names = names]
        \/ loc' = [loc EXCEPT ![p].at = at, ![p].met = TRUE]
    BY <1>0, <1>22 DEF LoadIndex, ShapesOK, LocFields
  <2>3. idx \in {index["image"], index["kernel"]}
    BY <2>1
  <2> HIDE DEF idx, names, at
  <2>4. loc'[p].id = loc[p].id /\ loc'[p].idx \in {loc[p].idx, idx}
    <3>1. CASE loc' = [loc EXCEPT ![p].at = "truncate", ![p].idx = idx, ![p].names = names]
      BY <1>0, <3>1 DEF ShapesOK, LocFields
    <3>2. CASE loc' = [loc EXCEPT ![p].at = at, ![p].met = TRUE]
      BY <1>a, <3>2 DEF KeepsIds
    <3>3. QED
      BY <2>2, <3>1, <3>2
  <2>5. QED
    BY <2>3, <2>4 DEF TakesId, TakesIndex
<1>23. ASSUME FetchConfig(p)
       PROVE  TakesId(p) /\ TakesIndex(p)
  <2>1. ASSUME NEW at, NEW config, NEW names, NEW strict, GotConfig(p, at, config, names, strict)
        PROVE  TakesId(p) /\ TakesIndex(p)
    <3>1. PICK id : id = RemoteId(p)
      OBVIOUS
    <3>2. loc' = [loc EXCEPT ![p].id = id, ![p].tries = 0, ![p].n = 1, ![p].at = at,
                             ![p].config = config, ![p].store = "image",
                             ![p].names = names, ![p].next = "pulled", ![p].strict = strict]
      BY <2>1, <3>1 DEF GotConfig
    <3>3. loc'[p].id = id /\ loc'[p].idx = loc[p].idx
      BY <1>0, <3>2 DEF ShapesOK, LocFields
    <3>4. id[1] = "remote"
      BY <3>1 DEF RemoteId
    <3>5. QED
      BY <3>3, <3>4 DEF TakesId, TakesIndex
  <2>2. QED
    BY <1>23, <1>b, <1>c, <2>1, FetchConfigCases
<1>24. ASSUME RmiResolve(p)
       PROVE  TakesId(p) /\ TakesIndex(p)
  <2>1. PICK id : id = Resolve(loc[p].ref)
    OBVIOUS
  <2>2. Fail(p) \/ loc' = [loc EXCEPT ![p].at = "load", ![p].id = id, ![p].next = "removing"]
    BY <1>24, <2>1 DEF RmiResolve
  <2>3. CASE loc' = [loc EXCEPT ![p].at = "load", ![p].id = id, ![p].next = "removing"]
    <3>1. loc'[p].id = id /\ loc'[p].idx = loc[p].idx
      BY <1>0, <2>3 DEF ShapesOK, LocFields
    <3>2. QED
      BY <1>d, <2>1, <3>1, FoundIds DEF TakesId, TakesIndex
  <2>4. QED
    BY <1>b, <1>c, <2>2, <2>3
<1>25. ASSUME ReadArchive(p)
       PROVE  TakesId(p) /\ TakesIndex(p)
  <2>1. PICK id : id = NewId(p)
    OBVIOUS
  <2>2. \/ Fail(p)
        \/ \E names : loc' = [loc EXCEPT ![p].at = "load", ![p].id = id, ![p].names = names,
                                         ![p].next = "done", ![p].strict = FALSE]
    BY <1>25, <2>1, ReadArchiveCases
  <2>3. ASSUME NEW names,
               loc' = [loc EXCEPT ![p].at = "load", ![p].id = id, ![p].names = names,
                                  ![p].next = "done", ![p].strict = FALSE]
        PROVE  TakesId(p) /\ TakesIndex(p)
    <3>1. loc'[p].id = id /\ loc'[p].idx = loc[p].idx
      BY <1>0, <2>3 DEF ShapesOK, LocFields
    <3>2. id[1] = "load"
      <4>1. loc[p].at = "load image"
        BY <1>25 DEF ReadArchive, At
      <4>2. QED
        BY <1>0, <2>1, <4>1 DEF OfKind, NewId
    <3>3. QED
      BY <3>1, <3>2 DEF TakesId, TakesIndex
  <2>4. QED
    BY <1>b, <1>c, <2>2, <2>3
<1>26. ASSUME PullKernel(p)
       PROVE  TakesId(p) /\ TakesIndex(p)
  <2>1. \/ FailMet(p)
        \/ \E full, url, format : PullsKernel(p, full, url, format, ResolveStored(full))
    BY <1>0, <1>26, PullKernelCases
  <2>2. ASSUME NEW full, NEW url, NEW format, PullsKernel(p, full, url, format, ResolveStored(full))
        PROVE  TakesId(p) /\ TakesIndex(p)
    <3>1. PICK id : id = ResolveStored(full)
      OBVIOUS
    <3>2. \E at, ref, platform :
            loc' = [loc EXCEPT ![p].at = at, ![p].id = id, ![p].pulling = "kernel",
                               ![p].ref = ref, ![p].platform = platform]
      BY <2>2, <3>1 DEF PullsKernel
    <3>3. loc'[p].id = id /\ loc'[p].idx = loc[p].idx
      BY <1>0, <3>2 DEF ShapesOK, LocFields
    <3>4. QED
      BY <1>d, <3>1, <3>3, FoundIds DEF TakesId, TakesIndex
  <2>3. QED
    BY <1>b, <1>c, <2>1, <2>2
<1>27. ASSUME CopyBinary(p)
       PROVE  TakesId(p) /\ TakesIndex(p)
  <2>1. PICK id : id = NewKernelId(p)
    OBVIOUS
  <2>2. FailMet(p) \/ loc' = [loc EXCEPT ![p].at = "modules", ![p].id = id]
    BY <1>27, <2>1 DEF CopyBinary
  <2>3. CASE loc' = [loc EXCEPT ![p].at = "modules", ![p].id = id]
    <3>1. loc'[p].id = id /\ loc'[p].idx = loc[p].idx
      BY <1>0, <2>3 DEF ShapesOK, LocFields
    <3>2. id[1] = "kernel"
      BY <2>1 DEF NewKernelId
    <3>3. QED
      BY <3>1, <3>2 DEF TakesId, TakesIndex
  <2>4. QED
    BY <1>b, <1>c, <2>2, <2>3
<1>28. ASSUME FindStored(p)
       PROVE  TakesId(p) /\ TakesIndex(p)
  <2>1. PICK id : id = ResolveStored(ParseKernelRef(Wanted(p)))
    OBVIOUS
  <2>2. \/ Fail(p)
        \/ loc' = [loc EXCEPT ![p].at = "load", ![p].id = id, ![p].store = "kernel",
                              ![p].next = "kernel removing"]
    BY <1>28, <2>1 DEF FindStored
  <2>3. CASE loc' = [loc EXCEPT ![p].at = "load", ![p].id = id, ![p].store = "kernel",
                                ![p].next = "kernel removing"]
    <3>1. loc'[p].id = id /\ loc'[p].idx = loc[p].idx
      BY <1>0, <2>3 DEF ShapesOK, LocFields
    <3>2. QED
      BY <1>d, <2>1, <3>1, FoundIds DEF TakesId, TakesIndex
  <2>4. QED
    BY <1>b, <1>c, <2>2, <2>3
<1>29. ASSUME CommitKernel(p)
       PROVE  TakesId(p) /\ TakesIndex(p)
  <2>1. PICK id : id = NewId(p)
    OBVIOUS
  <2>2. loc' = [loc EXCEPT ![p].at = "commit rootfs", ![p].id = id]
    BY <1>29, <2>1 DEF CommitKernel
  <2>3. loc'[p].id = id /\ loc'[p].idx = loc[p].idx
    BY <1>0, <2>2 DEF ShapesOK, LocFields
  <2>4. QED
    BY <1>29, <2>1, <2>3 DEF TakesId, TakesIndex
<1>30. ASSUME NextCommand(p)
       PROVE  TakesId(p) /\ TakesIndex(p)
  <2>1. loc'[p] = Local(todo[p][2])
    BY <1>0, <1>30 DEF NextCommand, ShapesOK
  <2>2. ASSUME NEW cmd
        PROVE  Local(cmd).id = NoId /\ Local(cmd).idx = <<>>
    BY DEF Local
  <2>3. QED
    BY <1>d, <2>1, <2>2 DEF TakesId, TakesIndex
<1>31. CASE ImageStep(p)
  BY <1>31, <1>c, <1>1, <1>2, <1>3, <1>4, <1>5, <1>6, <1>7, <1>8, <1>9, <1>10, <1>11, <1>12,
     <1>21, <1>22, <1>23, <1>24, <1>25 DEF ImageStep, Pull
<1>32. CASE KernelStep(p)
  BY <1>32, <1>c, <1>13, <1>14, <1>15, <1>26, <1>27, <1>28 DEF KernelStep
<1>33. CASE BuildStep(p)
  BY <1>33, <1>c, <1>10, <1>11, <1>16, <1>17, <1>18, <1>19, <1>20, <1>29 DEF BuildStep
<1>34. QED
  BY <1>c, <1>12, <1>30, <1>31, <1>32, <1>33 DEF Act, Progress

-----------------------------------------------------------------------------
(* What a step does to the directories of images that build makes.         *)
LEMMA ImageFlow ==
  ASSUME NEW p \in Proc, Control, Kinds, Act(p), OwnImage(p), NEW id, id[1] = "build"
  PROVE  /\ id \in DOMAIN images' =>
              \/ id \in DOMAIN images /\ images'[id].kernel = images[id].kernel
              \/ CommitKernel(p) /\ id = NewId(p)
         /\ id \in DOMAIN images => \/ id \in DOMAIN images'
                                    \/ loc[p].at = "removing" /\ id = loc[p].id
<1> DEFINE Keeps == /\ id \in DOMAIN images' <=> id \in DOMAIN images
                    /\ id \in DOMAIN images => images'[id].kernel = images[id].kernel
           Removes == /\ id \in DOMAIN images' =>
                           id \in DOMAIN images /\ images'[id].kernel = images[id].kernel
                      /\ loc[p].at = "removing" /\ id = loc[p].id
           Makes2 == CommitKernel(p) /\ id = NewId(p) /\ id \in DOMAIN images'
<1>0. Routed(p) /\ OfKind(p)
  BY DEF Control, Kinds
<1>a. ASSUME NEW i, NEW dir, Put(i, dir), i # id
      PROVE  Keeps
  BY <1>a DEF Put, With
<1>b. ASSUME NEW i \in DOMAIN images, NEW dir, Put(i, dir), dir.kernel = images[i].kernel
      PROVE  Keeps
  BY <1>b DEF Put, With
<1>c. images' = images => Keeps
  OBVIOUS
<1>1. CASE NextLayer(p) \/ ExtractEntry(p) \/ Killed(p)
  <2>1. images' = images \/ (loc[p].at \in LayerPlaces /\ \E content : PutLayer(p, content))
    BY <1>1 DEF NextLayer, ExtractEntry, Killed, At, LayerPlaces
  <2>2. ASSUME loc[p].at \in LayerPlaces
        PROVE  loc[p].id # id
    BY <1>0, <2>2 DEF Routed, LayerPlaces
  <2>3. (\E content : PutLayer(p, content)) => \E dir : Put(loc[p].id, dir)
    BY DEF PutLayer
  <2>4. QED
    BY <1>a, <1>c, <2>1, <2>2, <2>3
<1>2. CASE SaveImage(p)
  <2>1. loc[p].id # id
    BY <1>0, <1>2 DEF SaveImage, At, Routed
  <2>2. \E dir : Put(loc[p].id, dir)
    BY <1>2 DEF SaveImage
  <2>3. QED
    BY <1>a, <2>1, <2>2
<1>3. CASE ReadArchive(p)
  <2>1. NewId(p) # id
    <3>1. NewId(p)[1] = "load"
      BY <1>0, <1>3 DEF ReadArchive, At, OfKind, NewId
    <3>2. QED
      BY <3>1
  <2>2. images' = images \/ \E dir : Put(NewId(p), dir)
    BY <1>3 DEF ReadArchive
  <2>3. QED
    BY <1>a, <1>c, <2>1, <2>2
<1>4. CASE RemoveAll(p)
  <2>1. /\ loc[p].at = "removing"
        /\ \/ /\ Dir(loc[p].id).config # NoConfig
              /\ Put(loc[p].id, [Dir(loc[p].id) EXCEPT !.config = NoConfig])
           \/ \E l \in DOMAIN Dir(loc[p].id).layers :
                Put(loc[p].id, [Dir(loc[p].id) EXCEPT !.layers = Restrict(@, DOMAIN @ \ {l})])
           \/ images' = Restrict(images, DOMAIN images \ {loc[p].id})
    BY <1>4 DEF RemoveAll, At
  <2>2. ASSUME loc[p].id \notin DOMAIN images
        PROVE  Dir(loc[p].id).config = NoConfig /\ DOMAIN Dir(loc[p].id).layers = {}
    BY <2>2 DEF Dir, EmptyDir
  <2>3. ASSUME NEW dir, loc[p].id \in DOMAIN images, Put(loc[p].id, dir),
               dir.kernel = Dir(loc[p].id).kernel
        PROVE  Keeps
    BY <1>b, <2>3 DEF Dir
  <2>4. CASE images' = Restrict(images, DOMAIN images \ {loc[p].id})
    BY <2>1, <2>4 DEF Restrict
  <2>5. CASE \/ /\ Dir(loc[p].id).config # NoConfig
                /\ Put(loc[p].id, [Dir(loc[p].id) EXCEPT !.config = NoConfig])
             \/ \E l \in DOMAIN Dir(loc[p].id).layers :
                  Put(loc[p].id, [Dir(loc[p].id) EXCEPT !.layers = Restrict(@, DOMAIN @ \ {l})])
    <3>1. loc[p].id \in DOMAIN images
      BY <2>2, <2>5
    <3>2. ASSUME NEW dir, NEW x
          PROVE  /\ [dir EXCEPT !.config = x].kernel = dir.kernel
                 /\ [dir EXCEPT !.layers = x].kernel = dir.kernel
      OBVIOUS
    <3>3. Keeps
      <4>1. CASE Put(loc[p].id, [Dir(loc[p].id) EXCEPT !.config = NoConfig])
        BY <2>3, <3>1, <3>2, <4>1
      <4>2. ASSUME NEW layers, Put(loc[p].id, [Dir(loc[p].id) EXCEPT !.layers = layers])
            PROVE  Keeps
        BY <2>3, <3>1, <3>2, <4>2
      <4>3. QED
        BY <2>5, <4>1, <4>2
    <3>4. QED
      BY <3>3
  <2>6. QED
    BY <2>1, <2>4, <2>5
<1>5. CASE CommitKernel(p)
  <2>1. \E dir : Put(NewId(p), dir)
    BY <1>5 DEF CommitKernel
  <2>2. NewId(p) # id => Keeps
    BY <1>a, <2>1
  <2>3. NewId(p) \in DOMAIN images'
    BY <2>1 DEF Put, With
  <2>4. QED
    BY <1>5, <2>2, <2>3
<1>6. CASE CommitRootfs(p) \/ CommitSave(p)
  <2>1. NewId(p) \in DOMAIN images
    BY <1>6 DEF CommitRootfs, CommitSave, At, OwnImage
  <2>2. \/ images' = images
        \/ \E x : Put(NewId(p), [Dir(NewId(p)) EXCEPT !.layers = x])
        \/ \E x : Put(NewId(p), [Dir(NewId(p)) EXCEPT !.config = x])
    BY <1>6 DEF CommitRootfs, CommitSave
  <2>3. ASSUME NEW dir, NEW x
        PROVE  /\ [dir EXCEPT !.config = x].kernel = dir.kernel
               /\ [dir EXCEPT !.layers = x].kernel = dir.kernel
    OBVIOUS
  <2>4. ASSUME NEW dir, Put(NewId(p), dir), dir.kernel = Dir(NewId(p)).kernel
        PROVE  Keeps
    BY <1>b, <2>1, <2>4 DEF Dir
  <2>5. QED
    BY <1>c, <2>2, <2>3, <2>4
<1>7. CASE UNCHANGED <<images, archive>> \/ WriteArchive(p)
  BY <1>c, <1>7 DEF WriteArchive
<1>8. QED
  BY <1>1, <1>2, <1>3, <1>4, <1>5, <1>6, <1>7, ImageEffects

(* Where the ids come from that a process has in hand.                     *)
LEMMA HeldIds ==
  ASSUME NEW p \in Proc, Shapes, Control, Kinds, Act(p), NEW id, id[1] = "build"
  PROVE  /\ Knows(p, id)' => Knows(p, id) \/ Named(id) \/ (CommitKernel(p) /\ id = NewId(p))
         /\ Named(id)' => Named(id) \/ (Knows(p, id) /\ SaveIndex(p))
<1>0. ShapesOK
  BY DEF Shapes
<1>1. Knows(p, id)' => Knows(p, id) \/ Named(id) \/ (CommitKernel(p) /\ id = NewId(p))
  <2>1. id = loc'[p].id => Knows(p, id) \/ Named(id) \/ (CommitKernel(p) /\ id = NewId(p))
    BY IdsTaken DEF TakesId, Named, Knows
  <2>2. Range(<<>>) = {}
    BY DEF Range
  <2>3. id \in Range(loc'[p].idx) => Knows(p, id) \/ Named(id)
    BY <2>2, IdsTaken DEF TakesIndex, Named, Knows
  <2>4. QED
    BY <2>1, <2>3 DEF Knows
<1>2. Named(id)' => Named(id) \/ (Knows(p, id) /\ SaveIndex(p))
  <2>1. CASE index' = index
    BY <2>1 DEF Named
  <2>2. CASE SaveIndex(p) /\ index' = [index EXCEPT ![loc[p].store] = Change(p)]
    <3>1. /\ index'["image"] \in {index["image"], Change(p)}
          /\ index'["kernel"] \in {index["kernel"], Change(p)}
      BY <1>0, <2>2 DEF ShapesOK
    <3>2. id \in Range(Change(p)) => Knows(p, id)
      BY ChangedIds DEF Knows
    <3>3. QED
      BY <2>2, <3>1, <3>2 DEF Named
  <2>3. QED
    BY <2>1, <2>2, IndexFlow
<1>3. QED
  BY <1>1, <1>2

(* The id of a build is known only after it was committed.                 *)
LEMMA KnownIds ==
  ASSUME NEW p \in Proc, Shapes, Control, Kinds, OwnImage(p), Act(p), NEW q \in Proc, NEW n,
         BKnown(BId(q, n))'
  PROVE  BKnown(BId(q, n)) \/ (CommitKernel(p) /\ q = p /\ n = Len(todo[p]))
<1> DEFINE id == BId(q, n)
<1>1. id[1] = "build"
  BY DEF BId
<1>2. CommitKernel(p) /\ id = NewId(p) => q = p /\ n = Len(todo[p])
  BY DEF BId, NewId
<1> HIDE DEF id
<1>3. Knows(p, id)' \/ Named(id)' => BKnown(id) \/ (CommitKernel(p) /\ id = NewId(p))
  BY <1>1, HeldIds DEF BKnown
<1>4. id \in DOMAIN images' => BKnown(id) \/ (CommitKernel(p) /\ id = NewId(p))
  BY <1>1, ImageFlow DEF BKnown
<1>5. ASSUME NEW r \in Proc \ {p}
      PROVE  Knows(r, id)' => Knows(r, id)
  BY ShapesKept DEF Alone, Knows
<1>6. BKnown(id)'
  BY DEF id
<1>7. BKnown(id) \/ (CommitKernel(p) /\ id = NewId(p))
  BY <1>3, <1>4, <1>5, <1>6 DEF BKnown
<1>8. QED
  BY <1>2, <1>7 DEF id

LEMMA CommittedKept ==
  ASSUME NEW p \in Proc, Shapes, Control, Kinds, Act(p), ~NextCommand(p), Committed(p),
         shared \subseteq shared'
  PROVE  Committed(p)'
<1>0. OfKind(p)
  BY DEF Kinds
<1>1. Cmd(p)' = Cmd(p) /\ Second(p)' = Second(p)
  BY CommandsKept DEF Cmd, Second
<1>2. Committing(p) \/ loc[p].at \in {"clean", "build failed"} \cup Halts
  BY DEF Committed
<1>3. CASE BuildStep(p)
  <2>1. BuildMoves(p)
    BY <1>0, <1>3, BuildSteps
  <2>2. Commits(p) \/ Cleans(p)
    BY <1>2, <2>1 DEF BuildMoves, Parses, Opens, Builds, Boots, Judges, Committing, Indexing,
       Halts
  <2>3. Committing(p)' \/ loc'[p].at \in Halts
    BY <2>2 DEF Commits, Cleans, Halts
  <2>4. bld'[p].bad = bld[p].bad
    BY <2>2 DEF Commits, Cleans, SameBad
  <2>5. QED
    BY <1>1, <2>3, <2>4 DEF Committed
<1>4. CASE ~BuildStep(p)
  <2>1. bld' = bld
    BY <1>4, Elsewhere
  <2>2. Committing(p)' \/ loc'[p].at \in {"clean", "build failed"} \cup Halts
    <3>1. CASE loc' = loc \/ KeepsPlace(p)
      BY <1>2, <3>1 DEF Committing, Indexing, KeepsPlace, KeepsRoute
    <3>2. CASE Stops(p)
      BY <3>2 DEF Stops
    <3>3. CASE Loads(p) \/ Truncates(p) \/ Writes(p)
      BY <1>2, <3>3 DEF Committing, Indexing, Halts, Loads, Truncates, Writes, KeepsRoute
    <3>4. CASE ToIndex(p)
      BY <1>2, <3>4 DEF Committing, Indexing, Halts, ToIndex
    <3>5. ~PullsOn(p) /\ ~ToImage(p) /\ ~InLayers(p)
      BY <1>2 DEF Committing, Indexing, Halts, PullsOn, PullPlaces, ToImage, InLayers, LayerPlaces
    <3>6. ~ToBase(p) /\ ~ToWork(p) /\ ~ToKernel(p) /\ ~Downloads(p)
      BY <1>2 DEF Committing, Indexing, Halts, ToBase, ToWork, ToKernel, Downloads, LoadPlaces
    <3>7. ~ToModules(p) /\ ~ToSaving(p) /\ ~ToRemoving(p)
      BY <1>2 DEF Committing, Indexing, Halts, ToModules, ToSaving, ToRemoving
    <3>8. QED
      BY <1>4, <3>1, <3>2, <3>3, <3>4, <3>5, <3>6, <3>7, Flow DEF Moves
  <2>3. QED
    BY <1>1, <2>1, <2>2 DEF Committed
<1>5. QED
  BY <1>3, <1>4

LEMMA CommitsOnce ==
  ASSUME NEW p \in Proc, Shapes, Kinds, BadFails, Fresh, RememberBuilds, CommitKernel(p)
  PROVE  Committed(p)' /\ ~BKnown(NewId(p)) /\ NewId(p) = BId(p, Len(todo[p]))
<1>0. ShapesOK /\ CommandsOK /\ OfKind(p)
  BY DEF Shapes, Kinds
<1>1. BuildStep(p) /\ loc[p].at = "commit kernel"
  BY DEF BuildStep, CommitKernel, At
<1>2. BuildMoves(p)
  BY <1>0, <1>1, BuildSteps
<1>3. Committing(p)' /\ SameBad(p)
  BY <1>1, <1>2
     DEF BuildMoves, Parses, Opens, Builds, Boots, Judges, Cleans, Commits
<1>4. Cmd(p)' = Cmd(p) /\ Second(p)' = Second(p)
  BY DEF CommitKernel, Cmd, Second
<1>5. Cmd(p).kind = "build" /\ Active(p)
  BY <1>0, <1>1 DEF OfKind, BuildPlaces, Active, Ended
<1>6. bld[p].bad => Second(p) \in shared
  BY <1>1, <1>5 DEF BadFails, FailsNext
<1>7. Committed(p)'
  BY <1>3, <1>4, <1>5, <1>6, SharedGrows DEF Committed, SameBad
<1>8. NewId(p) = BId(p, Len(todo[p])) /\ Len(todo[p]) \in Nat
  BY <1>0, <1>5, LenProperties DEF NewId, BId, CommandsOK, IsSeq
<1>9. ~Committed(p)
  BY <1>1 DEF Committed, Committing, Indexing, Halts
<1>10. QED
  BY <1>7, <1>8, <1>9 DEF Fresh, FreshFor

LEMMA FreshKept ==
  ASSUME NEW p \in Proc, Shapes, Control, Kinds, BadFails, Fresh, OwnImages, Act(p),
         RememberBuilds
  PROVE  Fresh'
<1>0. ShapesOK /\ CommandsOK /\ OfKind(p)
  BY DEF Shapes, Kinds
<1>1. Alone(p) /\ (todo' = todo \/ NextCommand(p)) /\ shared \subseteq shared'
  BY ShapesKept, CommandsKept, SharedGrows
<1>2. \A q \in Proc : Len(todo[q]) \in Nat
  BY <1>0, LenProperties DEF CommandsOK, IsSeq
<1>a. ASSUME NextCommand(p)
      PROVE  Len(todo'[p]) = Len(todo[p]) - 1
  <2>1. todo'[p] = Tail(todo[p]) /\ IsSeq(todo[p]) /\ Len(todo[p]) > 1
    BY <1>0, <1>a DEF NextCommand, CommandsOK
  <2>2. QED
    BY <2>1, TailIsSeq
<1>3. \A q \in Proc : todo'[q] = todo[q] \/ (q = p /\ Len(todo'[q]) = Len(todo[q]) - 1)
  BY <1>1, <1>a DEF Alone
<1>4. ASSUME NEW q \in Proc, Committed(q), todo'[q] = todo[q]
      PROVE  Committed(q)'
  <2>1. CASE q # p
    BY <1>1, <1>4, <2>1, OthersBuild DEF Committed, Committing, Indexing
  <2>2. CASE q = p
    <3>1. ~NextCommand(p)
      <4>1. Len(todo[p]) # Len(todo[p]) - 1
        BY <1>2
      <4>2. QED
        BY <1>4, <1>a, <2>2, <4>1
    <3>2. QED
      BY <1>1, <1>4, <2>2, <3>1, CommittedKept
  <2>3. QED
    BY <2>1, <2>2
<1>5. ASSUME NEW q \in Proc, NEW n \in Nat, BKnown(BId(q, n))'
      PROVE  n >= Len(todo'[q]) /\ (n = Len(todo'[q]) => Committed(q)')
  <2>1. CASE BKnown(BId(q, n))
    <3>1. n >= Len(todo[q]) /\ (n = Len(todo[q]) => Committed(q))
      BY <2>1 DEF Fresh, FreshFor
    <3>2. CASE todo'[q] = todo[q]
      BY <1>4, <3>1, <3>2
    <3>3. CASE Len(todo'[q]) = Len(todo[q]) - 1
      BY <1>2, <3>1, <3>3
    <3>4. QED
      BY <1>3, <3>2, <3>3
  <2>2. CASE CommitKernel(p) /\ q = p /\ n = Len(todo[p])
    <3>1. todo' = todo
      BY <2>2 DEF CommitKernel
    <3>2. Committed(p)'
      BY <2>2, CommitsOnce
    <3>3. QED
      BY <1>2, <2>2, <3>1, <3>2
  <2>3. QED
    BY <1>5, <2>1, <2>2, KnownIds DEF OwnImages
<1>6. QED
  BY <1>5 DEF Fresh, FreshFor

(* Nobody else gets hold of an image before it is saved.                   *)
LEMMA OwnImagesKept ==
  ASSUME NEW p \in Proc, Shapes, Control, Kinds, BadFails, Fresh, OwnImages, Act(p),
         RememberBuilds
  PROVE  OwnImages'
<1>0. ShapesOK /\ OfKind(p) /\ Routed(p) /\ Alone(p)
  BY ShapesKept DEF Shapes, Kinds, Control
<1>1. ASSUME NEW q \in Proc \ {p}
      PROVE  OwnImage(q)'
  <2>1. SUFFICES ASSUME loc'[q].at \in {"commit rootfs", "commit save"}
                 PROVE  NewId(q)' \in DOMAIN images' /\ ~Alien(q, NewId(q))'
    BY DEF OwnImage
  <2>2. PICK id : id = NewId(q)
    OBVIOUS
  <2>3. loc'[q] = loc[q] /\ NewId(q)' = id
    BY <1>0, <2>2 DEF Alone, NewId, Cmd
  <2>4. id \in DOMAIN images /\ ~Alien(q, id)
    BY <2>1, <2>2, <2>3 DEF OwnImages, OwnImage
  <2>5. id[1] = "build" /\ id # NewId(p)
    <3>1. Cmd(q).kind = "build"
      BY <2>1, <2>3 DEF Kinds, OfKind, BuildPlaces
    <3>2. QED
      BY <2>2, <3>1 DEF NewId
  <2>6. id \in DOMAIN images'
    BY <2>4, <2>5, ImageFlow DEF OwnImages, Alien, Knows
  <2>7. ~Alien(q, id)'
    <3>1. ~Named(id)' /\ ~Knows(p, id)'
      BY <2>4, <2>5, HeldIds DEF Alien
    <3>2. ASSUME NEW r \in Proc \ {p}
          PROVE  Knows(r, id)' => Knows(r, id)
      BY <1>0 DEF Alone, Knows
    <3>3. QED
      BY <2>4, <3>1, <3>2 DEF Alien
  <2>8. QED
    BY <2>3, <2>6, <2>7
<1>2. ASSUME loc'[p].at \in {"commit rootfs", "commit save"}
      PROVE  NewId(p)' \in DOMAIN images' /\ ~Alien(p, NewId(p))'
  <2>1. CommitKernel(p) \/ loc[p].at \in {"commit rootfs", "commit save"}
    <3>1. loc'[p].at = loc[p].at \/ BuildStep(p)
      <4>1. ~NextCommand(p)
        <5>1. ASSUME Begins(p)
              PROVE  FALSE
          BY <1>2, <5>1, FirstPlaces DEF Begins
        <5>2. QED
          BY <5>1, NextBegins
      <4>2. QED
        <5>1. ~Writes(p)
          BY <1>0, <1>2 DEF Writes, Routed, Routes, Indexing
        <5>2. QED
          BY <1>2, <4>1, <5>1, Flow DEF Moves, KeepsPlace, Stops, Halts, PullsOn, ToImage,
             InLayers, LayerPlaces, Loads, Truncates, ToIndex, ToBase, ToWork, ToKernel,
             Downloads, ToModules, ToSaving, ToRemoving
    <3>2. BuildStep(p) => BuildMoves(p)
      BY <1>0, BuildSteps
    <3>3. BuildMoves(p) => Commits(p)
      BY <1>2 DEF BuildMoves, Parses, Opens, Builds, Boots, Judges, Cleans
    <3>4. QED
      BY <1>2, <3>1, <3>2, <3>3 DEF Commits
  <2>2. todo' = todo /\ NewId(p)' = NewId(p)
    <3>1. loc[p].at \notin Ended
      BY <2>1 DEF CommitKernel, At, Ended
    <3>2. ~NextCommand(p)
      BY <3>1 DEF NextCommand, Busy
    <3>3. todo' = todo
      BY <3>2, CommandsKept
    <3>4. QED
      BY <3>3 DEF NewId, Cmd
  <2>3. PICK id : id = NewId(p)
    OBVIOUS
  <2>4. CASE CommitKernel(p)
    <3>1. ~BKnown(id)
      BY <2>3, <2>4, CommitsOnce
    <3>2. id \in DOMAIN images'
      BY <2>3, <2>4 DEF CommitKernel, Put, With
    <3>3. index' = index
      BY <2>4 DEF CommitKernel, stores
    <3>4. ~Alien(p, id)'
      BY <1>0, <3>1, <3>3 DEF Alone, Alien, BKnown, Named, Knows
    <3>5. QED
      BY <2>2, <2>3, <3>2, <3>4
  <2>5. CASE loc[p].at \in {"commit rootfs", "commit save"}
    <3>1. id[1] = "build"
      BY <1>0, <2>3, <2>5 DEF OfKind, BuildPlaces, NewId
    <3>2. id \in DOMAIN images /\ ~Alien(p, id)
      BY <2>3, <2>5 DEF OwnImages, OwnImage
    <3>3. id \in DOMAIN images'
      BY <2>5, <3>1, <3>2, ImageFlow DEF OwnImages
    <3>4. ~Named(id)'
      BY <2>5, <3>1, <3>2, HeldIds DEF SaveIndex, At, Alien
    <3>5. ~Alien(p, id)'
      BY <1>0, <3>2, <3>4 DEF Alone, Alien, Knows
    <3>6. QED
      BY <2>2, <2>3, <3>3, <3>5
  <2>6. QED
    BY <2>1, <2>4, <2>5
<1>3. OwnImage(p)'
  BY <1>2 DEF OwnImage
<1>4. QED
  BY <1>1, <1>3 DEF OwnImages

-----------------------------------------------------------------------------
LEMMA BuildInvInit == Init => BuildInv
<1> SUFFICES ASSUME Init
             PROVE  BuildInv
  OBVIOUS
<1>1. TypeInv
  BY TypeInvInit
<1>2. ASSUME NEW p \in Proc
      PROVE  /\ loc[p].at = First[Cmd(p).kind] /\ Cmd(p).kind \in DOMAIN First
             /\ loc[p].id = NoId /\ loc[p].idx = <<>> /\ ~bld[p].bad
  <2>1. loc[p] = Local(Cmd(p))
    BY DEF Init, ImageInit, Cmd
  <2>2. ASSUME NEW cmd
        PROVE  /\ Local(cmd).at = First[cmd.kind]
               /\ Local(cmd).id = NoId /\ Local(cmd).idx = <<>>
    BY DEF Local
  <2>3. ~bld[p].bad
    BY DEF Init, NoBuild
  <2>4. Cmd(p).kind \in DOMAIN First
    <3>1. CommandsOK
      BY <1>1 DEF TypeInv, BaseInv, Shapes
    <3>2. IsSeq(todo[p]) /\ todo[p] # <<>>
      BY <3>1 DEF CommandsOK
    <3>3. Cmd(p) = todo[p][1] /\ 1 \in DOMAIN todo[p]
      BY <3>2, HeadInDomain DEF Cmd
    <3>4. QED
      BY <3>1, <3>3 DEF CommandsOK
  <2>5. QED
    BY <2>1, <2>2, <2>3, <2>4
<1>3. Kinds
  BY <1>2, FirstPlaces, FirstLoads DEF Kinds, OfKind, Committing, Indexing, BuildPlaces
<1>4. Owned
  BY <1>2, FirstPlaces DEF Owned, OwnsWork, Active
<1>5. BadFails
  BY <1>2 DEF BadFails, FailsNext
<1>6. Fresh
  <2>1. ASSUME NEW p \in Proc, NEW n
        PROVE  ~BKnown(BId(p, n))
    <3>1. Range(<<>>) = {}
      BY DEF Range
    <3>2. BId(p, n) # NoId
      BY DEF BId, NoId
    <3>3. index["image"] = <<>> /\ index["kernel"] = <<>> /\ images = <<>>
      BY DEF Init, ImageInit
    <3>4. QED
      BY <1>2, <3>1, <3>2, <3>3 DEF BKnown, Named, Knows
  <2>2. QED
    BY <2>1 DEF Fresh, FreshFor
<1>7. OwnImages
  BY <1>2, FirstPlaces DEF OwnImages, OwnImage
<1>8. QED
  BY <1>3, <1>4, <1>5, <1>6, <1>7 DEF BuildInv

LEMMA BuildInvKept == TypeInv /\ BuildInv /\ [Next]_vars => BuildInv'
<1> SUFFICES ASSUME TypeInv, BuildInv, [Next]_vars
             PROVE  BuildInv'
  OBVIOUS
<1>0. Shapes /\ Control /\ Kinds /\ Owned /\ BadFails /\ Fresh /\ OwnImages
  BY DEF TypeInv, BaseInv, BuildInv
<1>1. ASSUME NEW p \in Proc, Act(p), RememberBuilds
      PROVE  BuildInv'
  BY <1>0, <1>1, KindsKept, OwnedKept, BadFailsKept, FreshKept, OwnImagesKept DEF BuildInv
<1>2. ASSUME UNCHANGED <<index, images, todo, loc, bld, work>>, shared \subseteq shared'
      PROVE  BuildInv'
  <2>1. ASSUME NEW p \in Proc
        PROVE  /\ Cmd(p)' = Cmd(p) /\ Second(p)' = Second(p) /\ CurRootfs(p)' = CurRootfs(p)
               /\ Active(p)' <=> Active(p)
               /\ Committing(p)' <=> Committing(p)
    BY <1>2 DEF Cmd, Second, CurRootfs, Active, Committing, Indexing
  <2>2. Kinds'
    BY <1>0, <1>2, <2>1 DEF Kinds, OfKind
  <2>3. Owned'
    BY <1>0, <1>2, <2>1 DEF Owned, OwnsWork
  <2>4. BadFails'
    BY <1>0, <1>2, <2>1 DEF BadFails, FailsNext, Failure
  <2>5. ASSUME NEW id
        PROVE  BKnown(id)' <=> BKnown(id)
    BY <1>2 DEF BKnown, Named, Knows
  <2>6. ASSUME NEW p \in Proc
        PROVE  Committed(p) => Committed(p)'
    BY <1>2, <2>1 DEF Committed
  <2>7. Fresh'
    BY <1>0, <1>2, <2>5, <2>6 DEF Fresh, FreshFor
  <2>8. OwnImages'
    BY <1>0, <1>2 DEF OwnImages, OwnImage, Alien, Named, Knows, NewId, Cmd
  <2>9. QED
    BY <2>2, <2>3, <2>4, <2>7, <2>8 DEF BuildInv
<1>3. CASE Next
  <2>1. RememberBuilds
    BY <1>3 DEF Next
  <2>2. CASE ContainerStops /\ UNCHANGED <<kernelVars, work, bld>>
    BY <1>2, <2>1, <2>2, SharedGrows DEF ContainerStops, stores
  <2>3. QED
    BY <1>1, <1>3, <2>1, <2>2, WhoActs
<1>4. CASE UNCHANGED vars
  BY <1>2, <1>4 DEF vars, imageVars, stores, files, buildVars
<1>5. QED
  BY <1>3, <1>4

LEMMA BuildInvariant == Spec => [](TypeInv /\ BuildInv)
<1>1. Init => TypeInv /\ BuildInv
  BY TypeInvInit, BuildInvInit
<1>2. TypeInv /\ BuildInv /\ [Next]_vars => (TypeInv /\ BuildInv)'
  BY TypeInvKept, BuildInvKept
<1>3. QED
  BY <1>1, <1>2, PTL DEF Spec

(* An image whose RUN command failed gets no name, unless two builds had   *)
(* the same directory, or the status of the command was not to be read     *)
(* (builder.go:358).                                                       *)
THEOREM BadRunsAreNeverTagged == Spec => []BadRunNeverTagged
<1>1. TypeInv /\ BuildInv => BadRunNeverTagged
  <2> SUFFICES ASSUME TypeInv, BuildInv, NEW p \in Proc, Cmd(p).kind = "build",
                      bld[p].bad, Second(p) \notin shared, NewId(p) \in Range(index["image"])
               PROVE  FALSE
    BY DEF BadRunNeverTagged
  <2>1. NewId(p) = BId(p, Len(todo[p]))
    BY DEF NewId, BId
  <2>2. BKnown(BId(p, Len(todo[p])))
    BY <2>1 DEF BKnown, Named
  <2>3. Len(todo[p]) \in Nat
    BY LenProperties DEF TypeInv, BaseInv, Shapes, CommandsOK, IsSeq
  <2>4. Committed(p)
    BY <2>2, <2>3 DEF BuildInv, Fresh, FreshFor
  <2>5. QED
    BY <2>4 DEF Committed
<1>2. QED
  BY <1>1, BuildInvariant, PTL

-----------------------------------------------------------------------------
(* The kernel that KERNEL names, and the one in the image.                 *)
KidCounted ==
  \A p, q \in Proc : \A n, c \in Nat : bld[p].kid = KId(q, n, c) =>
    c <= kern[q].count /\ (Fetching(q) => c < kern[q].count)

HaveBinaries == \A id \in DOMAIN kernels : kernels[id].bin

Bootable(p) ==
  /\ Cmd(p).kind = "build" /\ faults = 0
  /\ bld[p].kid \in DOMAIN kernels /\ NewId(p) \in DOMAIN images
  => images[NewId(p)].kernel

BootInv == KidCounted /\ HaveBinaries /\ \A p \in Proc : Bootable(p)

SameKid(p) == bld'[p].kid = bld[p].kid

LEMMA KidFlow ==
  ASSUME NEW p \in Proc, Shapes, Act(p)
  PROVE  \/ SameKid(p)
         \/ loc[p].at = "parse" /\ bld'[p].kid = NoId
         \/ loc[p].at = "kerneled" /\ bld'[p].kid = loc[p].id
<1>0. ShapesOK
  BY DEF Shapes
<1>1. ASSUME NEW b, Step(p, b), DOMAIN b = BldFields
      PROVE  bld'[p].kid = b.kid
  BY <1>0, <1>1 DEF Step, ShapesOK, BldFields
<1>2. CASE bld' = bld \/ Step(p, bld[p])
  BY <1>0, <1>1, <1>2 DEF ShapesOK, SameKid
<1>3. CASE ParseDockerfile(p)
  <2>1. /\ loc[p].at = "parse"
        /\ \/ bld' = bld
           \/ \E instrs, settings :
                bld' = [bld EXCEPT ![p] = [NoBuild EXCEPT !.instrs = instrs, !.settings = settings]]
    BY <1>3 DEF ParseDockerfile, At
  <2>2. ASSUME NEW instrs, NEW settings,
               bld' = [bld EXCEPT ![p] = [NoBuild EXCEPT !.instrs = instrs, !.settings = settings]]
        PROVE  bld'[p].kid = NoId
    <3>1. bld'[p] = [NoBuild EXCEPT !.instrs = instrs, !.settings = settings]
      BY <1>0, <2>2 DEF ShapesOK
    <3>2. QED
      BY <3>1 DEF NoBuild
  <2>3. QED
    BY <1>2, <2>1, <2>2
<1>4. CASE FromEnds(p)
  <2>1. PICK layers, settings, base :
          Step(p, [bld[p] EXCEPT !.layers = layers, !.settings = settings, !.base = base])
    <3>1. PICK config : config = loc[p].config[1]
      OBVIOUS
    <3>2. Step(p, [bld[p] EXCEPT !.layers = @ \o config.layers, !.settings = config.settings,
                                 !.base = Append(@, loc[p].id)])
      BY <1>4, <3>1 DEF FromEnds
    <3>3. [bld[p] EXCEPT !.layers = @ \o config.layers, !.settings = config.settings,
                         !.base = Append(@, loc[p].id)]
            = [bld[p] EXCEPT !.layers = bld[p].layers \o config.layers,
                 !.settings = config.settings, !.base = Append(bld[p].base, loc[p].id)]
      BY <1>0 DEF ShapesOK, BldFields
    <3>4. QED
      BY <3>2, <3>3
  <2>2. QED
    BY <1>0, <2>1 DEF Step, SameKid, ShapesOK, BldFields
<1>5. CASE KernelEnds(p)
  <2>1. loc[p].at = "kerneled" /\ Step(p, [bld[p] EXCEPT !.kid = loc[p].id])
    BY <1>5 DEF KernelEnds, At
  <2>2. bld'[p].kid = loc[p].id
    BY <1>0, <2>1 DEF Step, ShapesOK, BldFields
  <2>3. QED
    BY <2>1, <2>2
<1>6. CASE Configure(p)
  <2>1. PICK settings : Step(p, [bld[p] EXCEPT !.settings = settings])
    <3>1. PICK settings : settings = Configured(bld[p].settings, Instr(p))
      OBVIOUS
    <3>2. Step(p, [bld[p] EXCEPT !.settings = Configured(@, Instr(p))])
      BY <1>6 DEF Configure
    <3>3. Step(p, [bld[p] EXCEPT !.settings = settings])
      BY <1>0, <3>1, <3>2 DEF ShapesOK, BldFields
    <3>4. QED
      BY <3>3
  <2>2. QED
    BY <1>0, <2>1 DEF Step, SameKid, ShapesOK, BldFields
<1>7. CASE Machine(p)
  <2>1. \E bad : bld' = [bld EXCEPT ![p].bad = bad]
    <3>1. PICK status \in {"0", "1"}, written \in {"all", "created", "nothing"} :
            LET bad == /\ status = "1" /\ written # "created"
                       /\ ExitCode \notin DOMAIN CurRootfs(p)
            IN  bld' = [bld EXCEPT ![p].bad = @ \/ bad]
      BY <1>7 DEF Machine
    <3> DEFINE bad == /\ status = "1" /\ written # "created"
                      /\ ExitCode \notin DOMAIN CurRootfs(p)
    <3>2. bld' = [bld EXCEPT ![p].bad = @ \/ bad]
      BY <3>1
    <3> HIDE DEF bad
    <3>3. bld' = [bld EXCEPT ![p].bad = bld[p].bad \/ bad]
      BY <1>0, <3>2 DEF ShapesOK, BldFields
    <3>4. QED
      BY <3>3
  <2>2. QED
    BY <1>0, <2>1 DEF SameKid, ShapesOK, BldFields
<1>8. CASE BuildStep(p)
  BY <1>2, <1>3, <1>4, <1>5, <1>6, <1>7, <1>8
     DEF BuildStep, BeginProcess, HandleFrom, FromPulled, CopyBaseLayer, HandleKernel, HandleRun,
         RunEnds, HandleCopy, ProcessEnds, CommitKernel, CommitRootfs, CommitSave, CleanUp
<1>9. QED
  BY <1>2, <1>8, Elsewhere

(* The kernel of a build that was removed does not come back.              *)
LEMMA KidCountedKept ==
  ASSUME NEW p \in Proc, TypeInv, Control', Counted, KidCounted, Act(p)
  PROVE  KidCounted'
<1>0. Shapes /\ Routed(p) /\ Routed(p)' /\ Alone(p) /\ KernelMoves(p)
  BY KernelFlow, ShapesKept DEF TypeInv, BaseInv, Control
<1>1. \A q \in Proc : kern[q].count \in Nat
  BY DEF Counted
<1>2. /\ kern'[p].count \in {kern[p].count, kern[p].count + 1}
      /\ Fetching(p)' => Fetching(p) \/ kern'[p].count = kern[p].count + 1
  BY <1>0, KernelPlaces DEF Asks, SameRequest
<1>3. ASSUME NEW r \in Proc, NEW q \in Proc, NEW n \in Nat, NEW c \in Nat,
             bld'[r].kid = KId(q, n, c)
      PROVE  c <= kern[q].count /\ (Fetching(q) => c < kern[q].count)
  <2>1. NoId # KId(q, n, c)
    BY DEF NoId, KId
  <2>2. CASE bld[r].kid = KId(q, n, c)
    BY <2>2 DEF KidCounted
  <2>3. CASE r = p /\ loc[p].at = "kerneled" /\ loc[p].id = KId(q, n, c)
    <3>1. KKnown(KId(q, n, c))
      BY <2>3 DEF KKnown, Touches, HasKernelId
    <3>2. QED
      BY <3>1 DEF Counted
  <2>4. QED
    BY <1>0, <1>3, <2>1, <2>2, <2>3, KidFlow DEF Alone, SameKid
<1>4. ASSUME NEW r \in Proc, NEW q \in Proc, NEW n \in Nat, NEW c \in Nat,
             bld'[r].kid = KId(q, n, c)
      PROVE  c <= kern'[q].count /\ (Fetching(q)' => c < kern'[q].count)
  BY <1>0, <1>1, <1>2, <1>3, <1>4, OthersTouch
<1>5. QED
  BY <1>4 DEF KidCounted

LEMMA GoneKernels ==
  ASSUME NEW p \in Proc, TypeInv, Counted, KidCounted, Act(p), NEW q \in Proc,
         bld[q].kid \in DOMAIN kernels'
  PROVE  bld[q].kid \in DOMAIN kernels
<1>1. KernelMoves(p)
  BY KernelFlow DEF TypeInv
<1>2. Len(todo[p]) \in Nat /\ kern[p].count \in Nat
  BY LenProperties DEF TypeInv, BaseInv, Shapes, CommandsOK, IsSeq, Counted
<1>3. CASE Makes(p) /\ bld[q].kid = NewKernelId(p)
  <2>1. bld[q].kid = KId(p, Len(todo[p]), kern[p].count)
    BY <1>3 DEF NewKernelId, KId
  <2>2. Fetching(p)
    BY <1>3 DEF Makes, Fetching
  <2>3. kern[p].count < kern[p].count
    BY <1>2, <2>1, <2>2 DEF KidCounted
  <2>4. QED
    BY <1>2, <2>3
<1>4. QED
  BY <1>1, <1>3, MadeKernels

LEMMA BinariesKept ==
  ASSUME NEW p \in Proc, KernelMoves(p), KernelsOK, HaveBinaries
  PROVE  HaveBinaries'
<1>1. CASE kernels' = kernels
  BY <1>1 DEF HaveBinaries
<1>2. CASE Makes(p)
  BY <1>2 DEF Makes, With, HaveBinaries
<1>3. CASE Copies(p)
  <2>1. \E mods : kernels' = [kernels EXCEPT ![loc[p].id].mods = mods]
    <3>1. PICK m \in kern[p].left, copied \in BOOLEAN :
            kernels' = [kernels EXCEPT ![loc[p].id].mods = IF copied THEN @ \cup {m} ELSE @]
      BY <1>3 DEF Copies
    <3>2. PICK old : old = kernels[loc[p].id].mods
      OBVIOUS
    <3>3. kernels' = [kernels EXCEPT ![loc[p].id].mods = IF copied THEN old \cup {m} ELSE old]
      BY <3>1, <3>2
    <3>4. QED
      BY <3>3
  <2>2. QED
    BY <2>1 DEF HaveBinaries, KernelsOK
<1>4. CASE Saves(p)
  BY <1>4 DEF Saves, HaveBinaries, KernelsOK
<1>5. CASE Drops(p)
  BY <1>5 DEF Drops, Restrict, HaveBinaries
<1>6. QED
  BY <1>1, <1>2, <1>3, <1>4, <1>5
     DEF KernelMoves, Quiet, Asks, Unpacks, Picks, Reads, Indexes, SameFiles

LEMMA BootableKept ==
  ASSUME NEW p \in Proc, TypeInv, BuildInv, Counted, BootInv, Act(p), NEW q \in Proc
  PROVE  Bootable(q)'
<1>0. /\ Shapes /\ ShapesOK /\ Control /\ Kinds /\ OwnImages /\ Fresh /\ Alone(p)
      /\ faults \in Nat
  BY LimitAssumption, ShapesKept DEF TypeInv, BaseInv, Shapes, BuildInv, LimitsOK
<1>1. SUFFICES ASSUME Cmd(q)'.kind = "build", faults' = 0, bld'[q].kid \in DOMAIN kernels',
                      NewId(q)' \in DOMAIN images'
               PROVE  images'[NewId(q)'].kernel
  BY DEF Bootable
<1>2. faults = 0
  BY <1>0, <1>1, FaultsCount DEF Fault
<1>3. Len(todo[q]) \in Nat
  BY <1>0, LenProperties DEF Shapes, CommandsOK, IsSeq
<1>4. PICK id : id = NewId(q)'
  OBVIOUS
<1>5. id = BId(q, Len(todo'[q])) /\ id[1] = "build"
  BY <1>1, <1>4 DEF NewId, BId
<1>6. CASE CommitKernel(p) /\ id = NewId(p)
  <2>1. q = p /\ todo' = todo /\ bld' = bld /\ kernels' = kernels
    <3>1. todo' = todo /\ bld' = bld /\ kernels' = kernels
      BY <1>6 DEF CommitKernel, kernelVars
    <3>2. q = p
      BY <1>5, <1>6 DEF NewId, BId
    <3>3. QED
      BY <3>1, <3>2
  <2>2. HasKernel(p)
    BY <1>1, <2>1 DEF HasKernel, BootInv, HaveBinaries
  <2>3. PICK copied \in BOOLEAN :
          /\ IF HasKernel(p) /\ ~copied THEN Fault ELSE UNCHANGED faults
          /\ Put(NewId(p), [EmptyDir EXCEPT !.kernel = copied])
    BY <1>6 DEF CommitKernel
  <2>4. copied
    BY <1>0, <1>1, <1>2, <2>2, <2>3 DEF Fault
  <2>5. images'[id] = [EmptyDir EXCEPT !.kernel = copied]
    BY <1>6, <2>3 DEF Put, With
  <2>6. QED
    BY <1>4, <2>4, <2>5 DEF EmptyDir
<1>7. CASE ~(CommitKernel(p) /\ id = NewId(p))
  <2>1. id \in DOMAIN images /\ images'[id].kernel = images[id].kernel
    BY <1>0, <1>1, <1>4, <1>5, <1>7, ImageFlow DEF OwnImages
  <2>2. BKnown(BId(q, Len(todo'[q])))
    BY <1>5, <2>1 DEF BKnown
  <2>3. todo'[q] = todo[q] /\ Committed(q)
    <3>1. todo'[q] = todo[q] \/ (q = p /\ NextCommand(p))
      BY <1>0, CommandsKept DEF Alone
    <3>2. ~(q = p /\ NextCommand(p))
      <4>1. ASSUME q = p, NextCommand(p)
            PROVE  FALSE
        <5>1. todo'[p] = Tail(todo[p]) /\ IsSeq(todo[p]) /\ Len(todo[p]) > 1
          BY <1>0, <4>1 DEF NextCommand, Shapes, CommandsOK
        <5>2. Len(todo'[p]) = Len(todo[p]) - 1
          BY <5>1, TailIsSeq
        <5>3. Len(todo'[p]) \in Nat /\ ~(Len(todo'[p]) >= Len(todo[p]))
          BY <1>3, <4>1, <5>1, <5>2
        <5>4. QED
          BY <1>0, <2>2, <4>1, <5>3 DEF Fresh, FreshFor
      <4>2. QED
        BY <4>1
    <3>3. todo'[q] = todo[q]
      BY <3>1, <3>2
    <3>4. QED
      BY <1>0, <1>3, <2>2, <3>3 DEF Fresh, FreshFor
  <2>4. bld'[q].kid = bld[q].kid
    <3>1. loc[q].at \notin {"parse", "kerneled"}
      BY <2>3 DEF Committed, Committing, Indexing, Halts
    <3>2. QED
      BY <1>0, <3>1, KidFlow DEF Alone, SameKid
  <2>5. bld[q].kid \in DOMAIN kernels
    BY <1>1, <2>4, GoneKernels DEF BootInv
  <2>6. Cmd(q).kind = "build" /\ NewId(q) = id
    BY <1>1, <1>4, <2>3 DEF Cmd, NewId
  <2>7. images[id].kernel
    BY <1>2, <2>1, <2>5, <2>6 DEF BootInv, Bootable
  <2>8. QED
    BY <1>4, <2>1, <2>7
<1>8. QED
  BY <1>6, <1>7

LEMMA BootInvInit == Init => BootInv
<1> SUFFICES ASSUME Init
             PROVE  BootInv
  OBVIOUS
<1>1. DOMAIN kernels = {} /\ DOMAIN images = {}
  BY DEF Init, ImageInit, KernelInit
<1>2. \A p \in Proc : bld[p].kid = NoId
  BY DEF Init, NoBuild
<1>3. \A q, n, c : KId(q, n, c) # NoId
  BY DEF KId, NoId
<1>4. QED
  BY <1>1, <1>2, <1>3 DEF BootInv, KidCounted, HaveBinaries, Bootable

LEMMA BootInvKept ==
  TypeInv /\ TypeInv' /\ KernelInv /\ BuildInv /\ BootInv /\ [Next]_vars => BootInv'
<1> SUFFICES ASSUME TypeInv, TypeInv', KernelInv, BuildInv, BootInv, [Next]_vars
             PROVE  BootInv'
  OBVIOUS
<1>0. Counted /\ Control'
  BY DEF KernelInv, TypeInv, BaseInv
<1>1. ASSUME NEW p \in Proc, Act(p)
      PROVE  BootInv'
  <2>1. KernelMoves(p)
    BY <1>1, KernelFlow DEF TypeInv
  <2>2. KidCounted'
    BY <1>0, <1>1, KidCountedKept DEF BootInv
  <2>3. HaveBinaries'
    BY <2>1, BinariesKept DEF BootInv, TypeInv
  <2>4. \A q \in Proc : Bootable(q)'
    BY <1>0, <1>1, BootableKept
  <2>5. QED
    BY <2>2, <2>3, <2>4 DEF BootInv
<1>2. ASSUME UNCHANGED <<images, todo, loc, bld, faults, kernelVars>>
      PROVE  BootInv'
  <2>1. \A p \in Proc : /\ Fetching(p)' <=> Fetching(p)
                        /\ NewId(p)' = NewId(p) /\ Cmd(p)' = Cmd(p)
    BY <1>2 DEF Fetching, Indexing, NewId, Cmd
  <2>2. QED
    BY <1>2, <2>1 DEF BootInv, KidCounted, HaveBinaries, Bootable, kernelVars, kernelFiles
<1>3. CASE ContainerStops /\ UNCHANGED <<kernelVars, work, bld>>
  BY <1>2, <1>3 DEF ContainerStops
<1>4. CASE UNCHANGED vars
  BY <1>2, <1>4 DEF vars, imageVars, files, buildVars
<1>5. QED
  BY <1>1, <1>3, <1>4, WhoActs

LEMMA BootInvariant == Spec => [](TypeInv /\ BootInv)
<1>1. Init => TypeInv /\ KernelInv /\ BuildInv /\ BootInv
  BY TypeInvInit, KernelInvInit, BuildInvInit, BootInvInit
<1>2. TypeInv /\ KernelInv /\ BuildInv /\ BootInv /\ [Next]_vars
        => (TypeInv /\ KernelInv /\ BuildInv /\ BootInv)'
  BY TypeInvKept, KernelInvKept, BuildInvKept, BootInvKept
<1>3. QED
  BY <1>1, <1>2, PTL DEF Spec

(* An image that was built while no write failed has the kernel that its   *)
(* KERNEL named, as long as that one is not removed: the id of a removed   *)
(* kernel is not given again, so the file that commit copies is the one    *)
(* that was pulled, and nobody else can take hold of the directory of an   *)
(* image between the copy and the name (builder.go:587).                   *)
THEOREM KernelsAreBuiltIn == Spec => []BuiltBoots
<1>1. BootInv => BuiltBoots
  BY DEF BootInv, Bootable, BuiltBoots, Built, Has
<1>2. QED
  BY <1>1, BootInvariant, PTL
=============================================================================
