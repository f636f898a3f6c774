---------------------------- MODULE References ----------------------------
(***************************************************************************)
(* What users write to name images, platforms and kernels, and how poqman  *)
(* reads it.  A reference is a sequence of the pieces between its          *)
(* separators, because only the separators matter to the parsers: the      *)
(* parts of an image name stand between slashes and each is the sequence   *)
(* of what stands between its colons; a kernel reference is the sequence   *)
(* of its fields between colons.                                           *)
(***************************************************************************)
EXTENDS Naturals, Sequences, SequencesExt

CONSTANTS
  Hosts,      \* words that contain a dot, and "localhost"
  Published,  \* <<distro, version, arch>> -> the version of the newest package
  Packages,   \* download address -> what the package contains
  PathOf      \* what stands between the slashes of a field

IsSeq(s) == s \in Seq(Range(s))

ASSUME PublishedAssumption == \A key \in DOMAIN Published : IsSeq(Published[key])

-----------------------------------------------------------------------------
(* pkg/image/name.go *)

isRegistryHost(part) == Len(part) > 1 \/ part[1] \in Hosts

(* ParseImageRef: a colon in the last part introduces the tag, and the     *)
(* first of two parts is a registry when it looks like a host.  A first    *)
(* part of three or more is one in any case.                               *)
ParseImageRef(raw) ==
  LET last == Last(raw.parts)
      rest == IF Len(last) = 1 THEN raw.parts
              ELSE Append(Front(raw.parts), Front(last))
      named == Len(rest) > 2 \/ (Len(rest) = 2 /\ isRegistryHost(rest[1]))
  IN  [registry |-> IF named THEN rest[1] ELSE <<"docker.io">>,
       repository |-> IF named THEN Tail(rest)
                      ELSE IF Len(rest) = 1 THEN <<<<"library">>>> \o rest ELSE rest,
       tag |-> IF Len(last) = 1 THEN "latest" ELSE Last(last),
       digest |-> raw.digest]

(* Mutant: the default registry is left out, as in String. *)
ShortName(ref) ==
  LET path == IF ref.registry = <<"docker.io">> /\ Len(ref.repository) = 1
                THEN ref.repository ELSE <<ref.registry>> \o ref.repository
  IN  [parts |-> IF ref.digest # "" THEN path
                 ELSE Append(Front(path), Append(Last(path), ref.tag)),
       digest |-> ref.digest]

(* FullName, the key of an image in the index. *)
FullName(ref) ==
  LET path == <<ref.registry>> \o ref.repository
  IN  [parts |-> IF ref.digest # "" THEN path
                 ELSE Append(Front(path), Append(Last(path), ref.tag)),
       digest |-> ref.digest]

-----------------------------------------------------------------------------
(* pkg/registry/platform.go and manifest.go *)

(* ParsePlatform, which asks for os/arch; nothing means the host. *)
ParsePlatform(raw) ==
  [os |-> IF raw = <<>> THEN "linux" ELSE raw[1],
   arch |-> IF raw = <<>> THEN "amd64" ELSE raw[2],
   variant |-> IF Len(raw) > 2 THEN raw[3] ELSE ""]

Match(p, other) ==
  \A f \in {"os", "arch", "variant"} :
    p[f] = "" \/ other[f] = "" \/ p[f] = other[f]

(* MatchManifest: the first entry that matches, or else the first one of   *)
(* the system and architecture; zero when there is none.                   *)
MatchManifest(entries, target) ==
  LET stated == {i \in DOMAIN entries : entries[i].stated}
      alike == {i \in stated : Match(target, entries[i].platform)}
      near == {i \in stated : /\ entries[i].platform.os = target.os
                              /\ entries[i].platform.arch = target.arch}
  IN  IF alike # {} THEN Min(alike) ELSE IF near # {} THEN Min(near) ELSE 0

-----------------------------------------------------------------------------
(* pkg/kernel/kernel.go and the resolvers *)

Arches == {"amd64", "arm64", "arm", "armhf", "i386", "riscv64", "ppc64le",
           "s390x", "x86_64", "aarch64"}
hostArchKernel == "amd64"

(* ParseKernelRef sees an architecture only when it is all that follows    *)
(* the second colon.                                                       *)
ParseKernelRef(raw) ==
  LET rest == Tail(raw)
      known == Len(rest) = 2 /\ rest[2] \in Arches
  IN  [ok |-> Len(raw) > 1, distro |-> raw[1],
       version |-> IF known THEN <<rest[1]>> ELSE rest,
       arch |-> IF known THEN rest[2] ELSE ""]

(* String, the key of a kernel in its index. *)
KernelName(req) ==
  [fields |-> <<req.distro>> \o req.version \o IF req.arch = "" THEN <<>> ELSE <<req.arch>>]

Unresolved == [ok |-> FALSE, version |-> <<>>, url |-> <<>>, format |-> ""]
Located(version, url, format) ==
  [ok |-> TRUE, version |-> version, url |-> url, format |-> format]

(* A version that lacks its package version gets the newest one the        *)
(* distribution's site names; an empty one is not resolved.                *)
Newest(req) ==
  LET key == <<req.distro, req.version, req.arch>>
  IN  IF key \in DOMAIN Published THEN req.version \o Published[key] ELSE <<>>

(* The Debian resolver; the names of the package carry the architecture,   *)
(* and those of amd64 and arm64 the word unsigned.                         *)
DebianResolve(req) ==
  LET v == IF Len(req.version) = 1 THEN Newest(req) ELSE req.version
  IN  IF Len(v) < 2 THEN Unresolved
      ELSE Located(v, <<"debian", v[1], Tail(v), req.arch>>, "deb")

UbuntuResolve(req) ==
  LET v == IF Len(req.version) = 1 THEN Newest(req) ELSE req.version
  IN  IF Len(v) < 2 THEN Unresolved
      ELSE Located(v, <<"ubuntu", v[1], Tail(v), req.arch>>, "deb")

ArchLinuxResolve(req) ==
  LET v == IF Len(req.version) = 1 THEN Newest(req) ELSE req.version
  IN  IF Len(v) < 2 THEN Unresolved
      ELSE Located(v, <<"archlinux", v[1], Tail(v), req.arch>>, "tar.zst")

(* Release, flavor and version; the site is asked for the latter two. *)
AlpineResolve(req) ==
  LET flavored == IF Len(req.version) = 1 THEN Append(req.version, "lts")
                  ELSE req.version
      v == IF Len(flavored) = 2 THEN Newest([req EXCEPT !.version = flavored])
           ELSE flavored
  IN  IF Len(v) < 3 THEN Unresolved
      ELSE Located(v, <<"alpine", v[1], Tail(v), req.arch>>, "apk")

(* The OCI resolver hands on what followed "oci:"; the HTTP resolver what  *)
(* followed "http:" or "https:", so that the address has lost its scheme   *)
(* and the format, which depends on its end, never matters.                *)
OCIResolve(req) == Located(req.version, req.version, "oci-image")
HTTPResolve(req) == Located(req.version, req.version, "tar.xz")

Resolvers == {"debian", "ubuntu", "archlinux", "alpine", "oci", "http", "https"}
ResolveKernel(req) ==
  CASE req.distro = "debian" -> DebianResolve(req)
    [] req.distro = "ubuntu" -> UbuntuResolve(req)
    [] req.distro = "archlinux" -> ArchLinuxResolve(req)
    [] req.distro = "alpine" -> AlpineResolve(req)
    [] req.distro = "oci" -> OCIResolve(req)
    [] req.distro \in {"http", "https"} -> HTTPResolve(req)
    [] OTHER -> Unresolved

(* parseOCIImageRef takes whatever stands before a slash for a registry.   *)
OCIImageRef(version) ==
  LET path == PathOf[version[1]]
      rest == IF Len(path) > 1 THEN Tail(path) ELSE path
  IN  [registry |-> <<IF Len(path) > 1 THEN path[1] ELSE "docker.io">>,
       repository |-> [i \in DOMAIN rest |-> <<rest[i]>>],
       tag |-> IF Len(version) > 1 THEN version[2] ELSE "latest", digest |-> ""]
=============================================================================
