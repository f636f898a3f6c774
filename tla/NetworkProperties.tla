------------------------ MODULE NetworkProperties -------------------------
(***************************************************************************)
(* What pkg/network/manager.go has to guarantee.                           *)
(***************************************************************************)
EXTENDS NetworkManager

(* Two containers that were given an address by CreateTap, and have given  *)
(* up neither it nor their device, never have the same one: the mutex      *)
(* covers load, allocate and save, and a crash between truncating and      *)
(* writing state.json does not make addresses in use look free.            *)
UniqueAddresses ==
  \A c, d \in Container : held[c] = held[d] /\ held[c] # NoIP => c = d

(* Whatever a readable state.json says, it accounts for every address in   *)
(* use: no address is used that a later CreateTap would think free.        *)
HeldIsRecorded ==
  file # "torn" =>
    \A c \in Container : held[c] # NoIP => alloc[c] = held[c]

(* Writing state.json for one container never changes the allocation of    *)
(* another: no read-modify-write of the map loses an update.               *)
NoLostUpdate ==
  [][\A c \in Container : alloc'[c] # alloc[c] =>
       \E t \in Thread : frame[t].at = "write" /\ frame[t].of = c]_vars

Writing == \E t \in Thread : frame[t].at = "write"

(* A state.json that a crash left half written is never taken for an empty *)
(* one: loadState tells a missing file from a broken one, so that nobody   *)
(* begins to overwrite the broken one and forgets every address in use.    *)
TornStaysTorn == [][file = "torn" /\ ~Writing => ~Writing']_vars

(* A CreateTap that finds no device and returns without an address leaves  *)
(* no device behind, unless an `ip link set` failed or the process died:   *)
(* a call that runs out of addresses takes its device down again.          *)
FailedCreateLeavesNoTap ==
  [][\A t \in Thread :
       /\ frame[t].at \in {"add", "load"} /\ frame[t].op = "create"
       /\ frame'[t].at = "idle"
       /\ file # "torn" /\ crashes' = crashes
       => frame[t].of \notin taps']_vars

(* A container whose address is in use has its device, so nobody routes to *)
(* an address behind which there is nothing.                               *)
TapBehindAddress == \A c \in Container : held[c] # NoIP => c \in taps

(* Every call of CreateTap and ReleaseIP returns: no thread waits for a    *)
(* mutex for ever, CreateTap's own use of DestroyTap included.             *)
CallsReturn ==
  \A t \in Thread : frame[t].at # "idle" ~> frame[t].at = "idle"

(* Where the host fails nothing, a CreateTap for a container that has no   *)
(* device ends with an address, as long as one is free: every container    *)
(* gets its TAP device (ARCHITECTURE.md section 5).                        *)
CreateTapSucceeds ==
  [][\A t \in Thread :
       /\ frame[t].at \in Critical /\ frame[t].op = "create"
       /\ frame'[t].at = "idle"
       /\ frame[t].of \notin taps \/ frame[t].at # "show"
       /\ Candidates(alloc) # {}
       => held'[frame[t].of] # NoIP]_vars

(* The promise of module IPAM, kept by CreateTap and ReleaseIP. *)
Promise == INSTANCE IPAM WITH lease <- held
ImplementsIPAM == Promise!Spec
=============================================================================
