-------------------------- MODULE NetworkManager --------------------------
(***************************************************************************)
(* pkg/network/manager.go: the TAP devices and the address allocations of  *)
(* the containers.  A Manager value serialises CreateTap and ReleaseIP     *)
(* with its mutex; the allocations live in networks/state.json, which      *)
(* os.WriteFile truncates and then writes.  Threads are goroutines that    *)
(* call a Manager; threads of one Manager share a process, different       *)
(* Managers are different `poqman` processes, which share only the file    *)
(* and the kernel's devices.                                               *)
(*                                                                         *)
(* An address is the last byte of the IPv4 address, the only byte that     *)
(* allocateIP varies.                                                      *)
(***************************************************************************)
EXTENDS Naturals

CONSTANTS
  Container,            \* container IDs whose first 12 characters differ
  Thread,               \* goroutines
  Manager,              \* one network.Manager per process
  ManagerOf,            \* [Thread -> Manager]
  FirstHost, LastHost,  \* the loop bounds of allocateIP: 2 and 253
  Gateway,              \* host byte of the gateway, never allocated
  NameLen,              \* [Container -> Nat]: length of the container ID
  NameMax,              \* longest interface name `ip tuntap add` accepts
  Faults,               \* which operations the host may fail
  MaxCrashes,           \* bound on process crashes
  NoThread,             \* holder of an unlocked mutex
  NoContainer           \* argument of a thread that executes no call

NoIP == 0
Address == FirstHost..LastHost

IDPrefix == 12                 \* containerID[:12]
TapNameLen == 4 + IDPrefix     \* "tap-" + containerID[:12]

FaultKinds == {"ip", "read", "write"}

ASSUME HostAssumption ==
  FirstHost \in Nat \ {0} /\ LastHost \in Nat /\ Gateway \in Nat
ASSUME NameAssumption == NameLen \in [Container -> Nat] /\ NameMax \in Nat
ASSUME ThreadAssumption ==
  ManagerOf \in [Thread -> Manager] /\ NoThread \notin Thread
ASSUME ContainerAssumption == NoContainer \notin Container
ASSUME FaultAssumption == Faults \subseteq FaultKinds /\ MaxCrashes \in Nat

VARIABLES
  mu,       \* Manager.mu: the thread that holds it, or NoThread
  taps,     \* containers whose TAP device exists
  file,     \* state.json: "absent", "whole", or "torn" (truncated, unparsable)
  alloc,    \* Allocations of the last complete state.json
  frame,    \* the call each thread executes and its local state
  held,     \* the address each container's owner was given and still uses
  crashes   \* crashes so far

vars == <<mu, taps, file, alloc, frame, held, crashes>>

Allocations == [Container -> Address \cup {NoIP}]
NoAllocations == [c \in Container |-> NoIP]

(* Places inside CreateTap or ReleaseIP at which the mutex is held. *)
Critical == {"show", "add", "link", "load", "save", "write", "ret"}

(* The frame of a call in progress; snap is its local NetworkState. *)
Active == [at : {"lock"} \cup Critical,
           op : {"create", "release"},
           of : Container,
           snap : Allocations]

Idle == [at |-> "idle", op |-> "create", of |-> NoContainer,
         snap |-> NoAllocations]

TypeOK ==
  /\ mu \in [Manager -> Thread \cup {NoThread}]
  /\ taps \in SUBSET Container
  /\ file \in {"absent", "whole", "torn"}
  /\ alloc \in Allocations
  /\ frame \in [Thread -> Active \cup {Idle}]
  /\ held \in Allocations
  /\ crashes \in 0..MaxCrashes

Init ==
  /\ mu = [m \in Manager |-> NoThread]
  /\ taps = {}
  /\ file = "absent"
  /\ alloc = NoAllocations
  /\ frame = [t \in Thread |-> Idle]
  /\ held = NoAllocations
  /\ crashes = 0

-----------------------------------------------------------------------------
(* allocateIP: the lowest host number that is neither the gateway's nor    *)
(* recorded for some container.                                            *)

(* Mutants: the loop forgets the allocations; it runs one host too far. *)
CandidatesAny(a) == {i \in Address : i # Gateway}
CandidatesPastEnd(a) ==
  {i \in FirstHost..LastHost + 1 : i # Gateway /\ \A c \in Container : a[c] # i}

Candidates(a) ==
  {i \in Address : i # Gateway /\ \A c \in Container : a[c] # i}

LowestFree(a) ==
  CHOOSE i \in Candidates(a) : \A j \in Candidates(a) : i <= j

(* Leave the method; the deferred mu.Unlock runs. *)
Return(t) ==
  /\ frame' = [frame EXCEPT ![t] = Idle]
  /\ mu' = [mu EXCEPT ![ManagerOf[t]] = NoThread]

Goto(t, place) ==
  /\ frame' = [frame EXCEPT ![t].at = place]
  /\ UNCHANGED mu

(* Go on to saveState with the updated allocations a. *)
ToSave(t, a) ==
  /\ frame' = [frame EXCEPT ![t] = [at |-> "save", op |-> frame[t].op,
                                    of |-> frame[t].of, snap |-> a]]
  /\ UNCHANGED mu

(* The process of manager m dies and its goroutines and its mutex with it; *)
(* devices and files stay as they are.                                     *)
Die(m) ==
  /\ frame' = [t \in Thread |-> IF ManagerOf[t] = m THEN Idle ELSE frame[t]]
  /\ mu' = [mu EXCEPT ![m] = NoThread]

-----------------------------------------------------------------------------
(* The callers.  No two calls for one container are in flight at once; the *)
(* interleavings of whole commands on one container are the subject of     *)
(* module Lifecycle.                                                       *)

Busy(c) == \E t \in Thread : frame[t].of = c

Call(t, c, op) ==
  /\ frame[t].at = "idle"
  /\ ~Busy(c)
  /\ frame' = [frame EXCEPT ![t] = [at |-> "lock", op |-> op, of |-> c,
                                    snap |-> NoAllocations]]
  /\ UNCHANGED <<mu, taps, file, alloc, crashes>>

CallCreateTap(t, c) == Call(t, c, "create") /\ UNCHANGED held

(* Whoever calls ReleaseIP no longer uses the address. *)
CallReleaseIP(t, c) ==
  Call(t, c, "release") /\ held' = [held EXCEPT ![c] = NoIP]

(* DestroyTap takes no lock: CreateTap calls it with the mutex held. *)
DestroyTap(c) ==
  /\ ~Busy(c)
  /\ c \in taps
  /\ taps' = taps \ {c}
  /\ held' = [held EXCEPT ![c] = NoIP]
  /\ UNCHANGED <<mu, file, alloc, frame, crashes>>

(* Mutant: no mutex. *)
LockFree(t) ==
  /\ frame[t].at = "lock"
  /\ frame' = [frame EXCEPT ![t].at =
                 IF frame[t].op = "create" THEN "show" ELSE "load"]
  /\ UNCHANGED <<mu, taps, file, alloc, held, crashes>>

Lock(t) ==
  /\ frame[t].at = "lock"
  /\ mu[ManagerOf[t]] = NoThread
  /\ mu' = [mu EXCEPT ![ManagerOf[t]] = t]
  /\ frame' = [frame EXCEPT ![t].at =
                 IF frame[t].op = "create" THEN "show" ELSE "load"]
  /\ UNCHANGED <<taps, file, alloc, held, crashes>>

-----------------------------------------------------------------------------
(* CreateTap, one action per command and file access. *)

(* containerID[:12], which panics on a shorter ID; then `ip link show`. *)
ShowTap(t) ==
  /\ frame[t].at = "show"
  /\ LET c == frame[t].of IN
     \/ NameLen[c] < IDPrefix /\ Die(ManagerOf[t])
     \/ NameLen[c] >= IDPrefix /\ c \in taps /\ Return(t)
     \/ NameLen[c] >= IDPrefix /\ c \notin taps /\ Goto(t, "add")
  /\ UNCHANGED <<taps, file, alloc, held, crashes>>

(* `ip tuntap add`. *)
AddTap(t) ==
  /\ frame[t].at = "add"
  /\ \/ /\ TapNameLen <= NameMax
        /\ taps' = taps \cup {frame[t].of}
        /\ Goto(t, "link")
     \/ /\ TapNameLen > NameMax \/ "ip" \in Faults
        /\ UNCHANGED taps
        /\ Return(t)
  /\ UNCHANGED <<file, alloc, held, crashes>>

(* `ip link set ... master` and `... up`; if one fails the device stays. *)
LinkTap(t) ==
  /\ frame[t].at = "link"
  /\ \/ Goto(t, "load")
     \/ "ip" \in Faults /\ Return(t)
  /\ UNCHANGED <<taps, file, alloc, held, crashes>>

(* Mutant: a file that does not parse counts as empty too. *)
LoadedLeniently == IF file = "whole" THEN {alloc} ELSE {NoAllocations}

(* What loadState may return: a file that cannot be read counts as empty. *)
Loaded ==
  (IF file = "whole" THEN {alloc} ELSE {}) \cup
  (IF file = "absent" \/ "read" \in Faults THEN {NoAllocations} ELSE {})

(* Mutant: out of addresses, CreateTap forgets the device. *)
AllocateIPLeaks(t) ==
  /\ frame[t].at = "load" /\ frame[t].op = "create"
  /\ \E a \in Loaded :
       \/ Candidates(a) = {} /\ Return(t)
       \/ Candidates(a) # {} /\ ToSave(t, [a EXCEPT ![frame[t].of] = LowestFree(a)])
  /\ UNCHANGED <<taps, file, alloc, held, crashes>>

(* CreateTap drops the error of loadState, so that allocateIP dereferences *)
(* nil when state.json does not parse; when no address is left the new     *)
(* device is destroyed.                                                    *)
AllocateIP(t) ==
  /\ frame[t].at = "load" /\ frame[t].op = "create"
  /\ LET c == frame[t].of IN
     \/ /\ file = "torn"
        /\ Die(ManagerOf[t])
        /\ UNCHANGED taps
     \/ \E a \in Loaded :
          /\ Candidates(a) = {}
          /\ taps' = taps \ {c}
          /\ Return(t)
     \/ \E a \in Loaded :
          /\ Candidates(a) # {}
          /\ ToSave(t, [a EXCEPT ![c] = LowestFree(a)])
          /\ UNCHANGED taps
  /\ UNCHANGED <<file, alloc, held, crashes>>

(* ReleaseIP returns the parse error and leaves the file alone. *)
DropAllocation(t) ==
  /\ frame[t].at = "load" /\ frame[t].op = "release"
  /\ \/ file = "torn" /\ Return(t)
     \/ \E a \in Loaded : ToSave(t, [a EXCEPT ![frame[t].of] = NoIP])
  /\ UNCHANGED <<taps, file, alloc, held, crashes>>

-----------------------------------------------------------------------------
(* saveState: os.WriteFile opens the file with O_TRUNC, then writes it.    *)
(* Both callers go on when it fails.                                       *)

(* Mutant: when saveState fails the device goes, but the call succeeds. *)
TruncateStateUndoes(t) ==
  /\ frame[t].at = "save"
  /\ \/ file' = "torn" /\ Goto(t, "write") /\ UNCHANGED taps
     \/ /\ "write" \in Faults
        /\ taps' = taps \ {frame[t].of}
        /\ UNCHANGED file /\ Goto(t, "ret")
  /\ UNCHANGED <<alloc, held, crashes>>

TruncateState(t) ==
  /\ frame[t].at = "save"
  /\ \/ file' = "torn" /\ Goto(t, "write")
     \/ "write" \in Faults /\ UNCHANGED file /\ Goto(t, "ret")
  /\ UNCHANGED <<taps, alloc, held, crashes>>

(* Mutant: saveState tries again until the write succeeds. *)
WriteStateRetries(t) ==
  /\ frame[t].at = "write"
  /\ \/ file' = "whole" /\ alloc' = frame[t].snap /\ Goto(t, "ret")
     \/ "write" \in Faults /\ UNCHANGED <<file, alloc>> /\ Goto(t, "save")
  /\ UNCHANGED <<taps, held, crashes>>

WriteState(t) ==
  /\ frame[t].at = "write"
  /\ \/ file' = "whole" /\ alloc' = frame[t].snap
     \/ "write" \in Faults /\ UNCHANGED <<file, alloc>>
  /\ Goto(t, "ret")
  /\ UNCHANGED <<taps, held, crashes>>

(* CreateTap gives its caller the address; ReleaseIP returns nothing. *)
Finish(t) ==
  /\ frame[t].at = "ret"
  /\ held' = IF frame[t].op = "create"
               THEN [held EXCEPT ![frame[t].of] = frame[t].snap[frame[t].of]]
               ELSE held
  /\ Return(t)
  /\ UNCHANGED <<taps, file, alloc, crashes>>

-----------------------------------------------------------------------------
(* The process of a manager is killed, wherever its threads are. *)
Crash(m) ==
  /\ crashes < MaxCrashes
  /\ \E t \in Thread : ManagerOf[t] = m /\ frame[t].at # "idle"
  /\ crashes' = crashes + 1
  /\ Die(m)
  /\ UNCHANGED <<taps, file, alloc, held>>

(* What a thread does once it holds the mutex. *)
Body(t) ==
  \/ ShowTap(t) \/ AddTap(t) \/ LinkTap(t) \/ AllocateIP(t)
  \/ DropAllocation(t) \/ TruncateState(t) \/ WriteState(t) \/ Finish(t)

Next ==
  \/ \E t \in Thread :
       \/ \E c \in Container : CallCreateTap(t, c) \/ CallReleaseIP(t, c)
       \/ Lock(t)
       \/ Body(t)
  \/ \E c \in Container : DestroyTap(c)
  \/ \E m \in Manager : Crash(m)

Spec == Init /\ [][Next]_vars

(* Commands return, and sync.Mutex hands itself to a waiter that has been  *)
(* blocked for more than 1ms, so a waiting thread is served in the end.    *)
Fairness ==
  \A t \in Thread : WF_vars(Body(t)) /\ SF_vars(Lock(t))

FairSpec == Spec /\ Fairness
=============================================================================
