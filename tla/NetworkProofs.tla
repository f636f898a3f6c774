-------------------------- MODULE NetworkProofs ---------------------------
(***************************************************************************)
(* Theorems about module NetworkManager, for any number of containers,     *)
(* threads, addresses and crashes.  What is said of the devices holds      *)
(* without any assumption; the addresses are exclusive when the callers    *)
(* share one Manager (the mutex is all the code has) and reading and       *)
(* writing state.json does not fail; `ip` may fail at any point and the    *)
(* process may be killed at any point.                                     *)
(***************************************************************************)
EXTENDS NetworkProperties, WellFoundedInduction, TLAPS

OneManager == \A t, u \in Thread : ManagerOf[t] = ManagerOf[u]
StorageWorks == Faults \cap {"read", "write"} = {}

-----------------------------------------------------------------------------
(* allocateIP returns a member of the addresses it considers free whenever *)
(* there is one: its loop stops at the lowest.                             *)
LEMMA LowestFreeIsFree ==
  ASSUME NEW a \in Allocations, Candidates(a) # {}
  PROVE  LowestFree(a) \in Candidates(a)
<1>1. Candidates(a) \subseteq Nat
  BY HostAssumption DEF Candidates, Address
<1>2. PICK i \in Candidates(a) :
        \A j \in Candidates(a) : ~(<<j, i>> \in OpToRel(<, Nat))
  BY <1>1, NatLessThanWellFounded, WFMin
<1>3. \A j \in Candidates(a) : ~(j < i)
  BY <1>1, <1>2 DEF OpToRel
<1>4. \A j \in Candidates(a) : i <= j
  BY <1>1, <1>3
<1> QED
  BY <1>4 DEF LowestFree

-----------------------------------------------------------------------------
(* TypeOK holds whoever shares what and whatever fails. *)

LEMMA NoneAllocated == NoAllocations \in Allocations
BY DEF NoAllocations, Allocations

LEMMA TypeInit == Init => TypeOK
BY NoneAllocated, FaultAssumption DEF Init, TypeOK

LEMMA TypeStep == TypeOK /\ [Next]_vars => TypeOK'
<1> SUFFICES ASSUME TypeOK, [Next]_vars PROVE TypeOK'
  OBVIOUS
<1> USE ThreadAssumption, FaultAssumption, NoneAllocated DEF TypeOK
<1>1. ASSUME NEW t \in Thread, NEW c \in Container,
             CallCreateTap(t, c) \/ CallReleaseIP(t, c)
      PROVE  TypeOK'
  BY <1>1 DEF CallCreateTap, CallReleaseIP, Call, Idle, Active, Allocations
<1>2. ASSUME NEW t \in Thread, Lock(t) PROVE TypeOK'
  BY <1>2 DEF Lock, Active, Idle, Critical
<1>3. ASSUME NEW t \in Thread, ShowTap(t) PROVE TypeOK'
  BY <1>3 DEF ShowTap, Die, Return, Goto, Active, Idle, Critical
<1>4. ASSUME NEW t \in Thread, AddTap(t) PROVE TypeOK'
  BY <1>4 DEF AddTap, Return, Goto, Active, Idle, Critical
<1>5. ASSUME NEW t \in Thread, LinkTap(t) PROVE TypeOK'
  BY <1>5 DEF LinkTap, Return, Goto, Active, Idle, Critical
<1>6. ASSUME NEW t \in Thread, AllocateIP(t) PROVE TypeOK'
  <2>1. frame[t] \in Active
    BY <1>6 DEF AllocateIP, Idle
  <2>2. ASSUME NEW a \in Loaded, Candidates(a) # {}
        PROVE  [a EXCEPT ![frame[t].of] = LowestFree(a)] \in Allocations
    <3>1. a \in Allocations
      BY <2>2 DEF Loaded
    <3>2. LowestFree(a) \in Address
      BY <2>2, <3>1, LowestFreeIsFree DEF Candidates
    <3> QED
      BY <3>1, <3>2 DEF Allocations
  <2> QED
    BY <1>6, <2>1, <2>2 DEF AllocateIP, ToSave, Return, Die, Active, Critical
<1>7. ASSUME NEW t \in Thread, DropAllocation(t) PROVE TypeOK'
  <2>1. frame[t] \in Active
    BY <1>7 DEF DropAllocation, Idle
  <2>2. ASSUME NEW a \in Loaded
        PROVE  [a EXCEPT ![frame[t].of] = NoIP] \in Allocations
    BY <2>2 DEF Loaded, Allocations
  <2> QED
    BY <1>7, <2>1, <2>2
    DEF DropAllocation, ToSave, Return, Active, Critical
<1>8. ASSUME NEW t \in Thread, TruncateState(t) PROVE TypeOK'
  BY <1>8 DEF TruncateState, Goto, Active, Idle, Critical
<1>9. ASSUME NEW t \in Thread, WriteState(t) PROVE TypeOK'
  BY <1>9 DEF WriteState, Goto, Active, Idle, Critical
<1>10. ASSUME NEW t \in Thread, Finish(t) PROVE TypeOK'
  BY <1>10 DEF Finish, Return, Active, Idle, Allocations
<1>11. ASSUME NEW c \in Container, DestroyTap(c) PROVE TypeOK'
  BY <1>11 DEF DestroyTap, Allocations
<1>12. ASSUME NEW m \in Manager, Crash(m) PROVE TypeOK'
  BY <1>12 DEF Crash, Die
<1>13. CASE UNCHANGED vars
  BY <1>13 DEF vars
<1> QED
  BY <1>1, <1>2, <1>3, <1>4, <1>5, <1>6, <1>7, <1>8, <1>9, <1>10, <1>11,
     <1>12, <1>13 DEF Next, Body

(* NetworkManager is well typed, for every reachable state. *)
THEOREM TypeCorrect == Spec => []TypeOK
BY TypeInit, TypeStep, PTL DEF Spec

-----------------------------------------------------------------------------
(* The mutex and the calls in flight, whatever fails and whoever shares    *)
(* what.                                                                   *)

(* The mutex: the thread inside a Manager's methods is the one it records. *)
LockInv ==
  \A t \in Thread : frame[t].at \in Critical <=> mu[ManagerOf[t]] = t

(* Calls in flight are for different containers; a container for which one *)
(* is in flight uses no address, unless CreateTap has yet to discover that *)
(* the device exists; `ip tuntap add` makes the device, and no one else.   *)
CallInv ==
  \A t \in Thread : frame[t] # Idle =>
    LET c == frame[t].of IN
    /\ \A u \in Thread : frame[u].of = c => u = t
    /\ \/ frame[t].op = "create" /\ frame[t].at \in {"lock", "show"}
       \/ held[c] = NoIP
    /\ frame[t].op = "create" =>
         frame[t].at \in {"lock", "show", "add"} \/ c \in taps
    /\ frame[t].op = "release" =>
         frame[t].at \notin {"show", "add", "link"}
    /\ frame[t].at = "add" => c \notin taps

DeviceInv == TypeOK /\ LockInv /\ CallInv /\ TapBehindAddress

LEMMA DeviceInit == Init => DeviceInv
<1> SUFFICES ASSUME Init PROVE DeviceInv
  OBVIOUS
<1>1. LockInv
  BY ThreadAssumption DEF Init, LockInv, Idle, Critical
<1>2. CallInv /\ TapBehindAddress
  BY DEF Init, CallInv, TapBehindAddress, Idle, NoAllocations
<1> QED
  BY <1>1, <1>2, TypeInit DEF DeviceInv

LEMMA DeviceStep == DeviceInv /\ [Next]_vars => DeviceInv'
<1> SUFFICES ASSUME DeviceInv, [Next]_vars PROVE DeviceInv'
  OBVIOUS
<1>0. TypeOK /\ TypeOK'
  BY TypeStep DEF DeviceInv
<1> USE <1>0, ThreadAssumption, ContainerAssumption
<1>1. ASSUME NEW t \in Thread, NEW c \in Container,
             CallCreateTap(t, c) \/ CallReleaseIP(t, c)
      PROVE  DeviceInv'
  <2>0. /\ frame[t].at = "idle" /\ frame[t] = Idle
        /\ \E o \in {"create", "release"} :
              /\ frame' = [frame EXCEPT ![t] =
                   [at |-> "lock", op |-> o, of |-> c, snap |-> NoAllocations]]
              /\ o = "release" => held'[c] = NoIP
        /\ held' \in {held, [held EXCEPT ![c] = NoIP]}
        /\ \A u \in Thread : frame[u].of # c
        /\ UNCHANGED <<mu, taps>>
    BY <1>1 DEF CallCreateTap, CallReleaseIP, Call, Busy, TypeOK, Active,
                Critical, Allocations
  <2>1. LockInv'
    BY <2>0 DEF DeviceInv, LockInv, TypeOK, Critical
  <2>2. CallInv'
    BY <2>0 DEF DeviceInv, CallInv, TypeOK, Allocations, Active, Idle
  <2>3. TapBehindAddress'
    BY <2>0 DEF DeviceInv, TapBehindAddress, TypeOK, Allocations
  <2> QED
    BY <1>0, <2>1, <2>2, <2>3 DEF DeviceInv
<1>2. ASSUME NEW t \in Thread, Lock(t) PROVE DeviceInv'
  <2>0. frame[t] \in Active
    BY <1>2 DEF Lock, TypeOK, Idle
  <2>1. LockInv'
    BY <1>2, <2>0 DEF Lock, DeviceInv, LockInv, TypeOK, Critical,
       Active, Idle
  <2>2. CallInv'
    BY <1>2, <2>0 DEF Lock, DeviceInv, CallInv, TapBehindAddress,
       TypeOK, Active, Idle
  <2>3. TapBehindAddress'
    BY <1>2, <2>0 DEF Lock, DeviceInv, CallInv, TapBehindAddress,
       TypeOK, Active, Idle, Allocations
  <2> QED
    BY <1>0, <2>1, <2>2, <2>3 DEF DeviceInv
<1>3. ASSUME NEW t \in Thread, ShowTap(t) PROVE DeviceInv'
  <2>0. frame[t] \in Active
    BY <1>3 DEF ShowTap, TypeOK, Idle
  <2>1. LockInv'
    BY <1>3, <2>0 DEF ShowTap, Die, Return, Goto, DeviceInv, LockInv, TypeOK, Critical,
       Active, Idle
  <2>2. CallInv'
    BY <1>3, <2>0 DEF ShowTap, Die, Return, Goto, DeviceInv, CallInv, TapBehindAddress,
       TypeOK, Active, Idle
  <2>3. TapBehindAddress'
    BY <1>3, <2>0 DEF ShowTap, Die, Return, Goto, DeviceInv, CallInv, TapBehindAddress,
       TypeOK, Active, Idle, Allocations
  <2> QED
    BY <1>0, <2>1, <2>2, <2>3 DEF DeviceInv
<1>4. ASSUME NEW t \in Thread, AddTap(t) PROVE DeviceInv'
  <2>0. frame[t] \in Active
    BY <1>4 DEF AddTap, TypeOK, Idle
  <2>1. LockInv'
    BY <1>4, <2>0 DEF AddTap, Return, Goto, DeviceInv, LockInv, TypeOK, Critical,
       Active, Idle
  <2>2. CallInv'
    BY <1>4, <2>0 DEF AddTap, Return, Goto, DeviceInv, CallInv, TapBehindAddress,
       TypeOK, Active, Idle
  <2>3. TapBehindAddress'
    BY <1>4, <2>0 DEF AddTap, Return, Goto, DeviceInv, CallInv, TapBehindAddress,
       TypeOK, Active, Idle, Allocations
  <2> QED
    BY <1>0, <2>1, <2>2, <2>3 DEF DeviceInv
<1>5. ASSUME NEW t \in Thread, LinkTap(t) PROVE DeviceInv'
  <2>0. frame[t] \in Active
    BY <1>5 DEF LinkTap, TypeOK, Idle
  <2>1. LockInv'
    BY <1>5, <2>0 DEF LinkTap, Return, Goto, DeviceInv, LockInv, TypeOK, Critical,
       Active, Idle
  <2>2. CallInv'
    BY <1>5, <2>0 DEF LinkTap, Return, Goto, DeviceInv, CallInv, TapBehindAddress,
       TypeOK, Active, Idle
  <2>3. TapBehindAddress'
    BY <1>5, <2>0 DEF LinkTap, Return, Goto, DeviceInv, CallInv, TapBehindAddress,
       TypeOK, Active, Idle, Allocations
  <2> QED
    BY <1>0, <2>1, <2>2, <2>3 DEF DeviceInv
<1>6. ASSUME NEW t \in Thread, AllocateIP(t) PROVE DeviceInv'
  <2>0. frame[t] \in Active
    BY <1>6 DEF AllocateIP, TypeOK, Idle
  <2>1. LockInv'
    BY <1>6, <2>0 DEF AllocateIP, Die, Return, ToSave, DeviceInv, LockInv, TypeOK, Critical,
       Active, Idle
  <2>2. CallInv'
    BY <1>6, <2>0 DEF AllocateIP, Die, Return, ToSave, DeviceInv, CallInv, TapBehindAddress,
       TypeOK, Active, Idle
  <2>3. TapBehindAddress'
    BY <1>6, <2>0 DEF AllocateIP, Die, Return, ToSave, DeviceInv, CallInv, TapBehindAddress,
       TypeOK, Active, Idle, Allocations
  <2> QED
    BY <1>0, <2>1, <2>2, <2>3 DEF DeviceInv
<1>7. ASSUME NEW t \in Thread, DropAllocation(t) PROVE DeviceInv'
  <2>0. frame[t] \in Active
    BY <1>7 DEF DropAllocation, TypeOK, Idle
  <2>1. LockInv'
    BY <1>7, <2>0 DEF DropAllocation, Return, ToSave, DeviceInv, LockInv, TypeOK, Critical,
       Active, Idle
  <2>2. CallInv'
    BY <1>7, <2>0 DEF DropAllocation, Return, ToSave, DeviceInv, CallInv, TapBehindAddress,
       TypeOK, Active, Idle
  <2>3. TapBehindAddress'
    BY <1>7, <2>0 DEF DropAllocation, Return, ToSave, DeviceInv, CallInv, TapBehindAddress,
       TypeOK, Active, Idle, Allocations
  <2> QED
    BY <1>0, <2>1, <2>2, <2>3 DEF DeviceInv
<1>8. ASSUME NEW t \in Thread, TruncateState(t) PROVE DeviceInv'
  <2>0. frame[t] \in Active
    BY <1>8 DEF TruncateState, TypeOK, Idle
  <2>1. LockInv'
    BY <1>8, <2>0 DEF TruncateState, Goto, DeviceInv, LockInv, TypeOK, Critical,
       Active, Idle
  <2>2. CallInv'
    BY <1>8, <2>0 DEF TruncateState, Goto, DeviceInv, CallInv, TapBehindAddress,
       TypeOK, Active, Idle
  <2>3. TapBehindAddress'
    BY <1>8, <2>0 DEF TruncateState, Goto, DeviceInv, CallInv, TapBehindAddress,
       TypeOK, Active, Idle, Allocations
  <2> QED
    BY <1>0, <2>1, <2>2, <2>3 DEF DeviceInv
<1>9. ASSUME NEW t \in Thread, WriteState(t) PROVE DeviceInv'
  <2>0. frame[t] \in Active
    BY <1>9 DEF WriteState, TypeOK, Idle
  <2>1. LockInv'
    BY <1>9, <2>0 DEF WriteState, Goto, DeviceInv, LockInv, TypeOK, Critical,
       Active, Idle
  <2>2. CallInv'
    BY <1>9, <2>0 DEF WriteState, Goto, DeviceInv, CallInv, TapBehindAddress,
       TypeOK, Active, Idle
  <2>3. TapBehindAddress'
    BY <1>9, <2>0 DEF WriteState, Goto, DeviceInv, CallInv, TapBehindAddress,
       TypeOK, Active, Idle, Allocations
  <2> QED
    BY <1>0, <2>1, <2>2, <2>3 DEF DeviceInv
<1>10. ASSUME NEW t \in Thread, Finish(t) PROVE DeviceInv'
  <2>0. frame[t] \in Active
    BY <1>10 DEF Finish, TypeOK, Idle
  <2>1. LockInv'
    BY <1>10, <2>0 DEF Finish, Return, DeviceInv, LockInv, TypeOK, Critical,
       Active, Idle
  <2>2. CallInv'
    BY <1>10, <2>0 DEF Finish, Return, DeviceInv, CallInv, TapBehindAddress,
       TypeOK, Active, Idle, Allocations
  <2>3. TapBehindAddress'
    BY <1>10, <2>0 DEF Finish, Return, DeviceInv, CallInv, TapBehindAddress,
       TypeOK, Active, Idle, Allocations
  <2> QED
    BY <1>0, <2>1, <2>2, <2>3 DEF DeviceInv
<1>11. ASSUME NEW c \in Container, DestroyTap(c) PROVE DeviceInv'
  BY <1>0, <1>11
  DEF DestroyTap, Busy, DeviceInv, LockInv, CallInv, TapBehindAddress, TypeOK,
      Allocations, Active, Idle
<1>12. ASSUME NEW m \in Manager, Crash(m) PROVE DeviceInv'
  BY <1>0, <1>12
  DEF Crash, Die, DeviceInv, LockInv, CallInv, TapBehindAddress, TypeOK,
      Critical, Active, Idle
<1>13. CASE UNCHANGED vars
  BY <1>0, <1>13 DEF vars, DeviceInv, LockInv, CallInv, TapBehindAddress
<1> QED
  BY <1>1, <1>2, <1>3, <1>4, <1>5, <1>6, <1>7, <1>8, <1>9, <1>10, <1>11,
     <1>12, <1>13 DEF Next, Body

(* A container whose address is in use has its device, whatever fails,     *)
(* whoever is killed and however many processes take part.                 *)
THEOREM AddressesHaveTaps == Spec => []TapBehindAddress
<1>1. DeviceInv => TapBehindAddress
  BY DEF DeviceInv
<1> QED
  BY <1>1, DeviceInit, DeviceStep, PTL DEF Spec

(* A CreateTap that made no device, or has no address for the one it made, *)
(* leaves none behind: the device a returning call is responsible for is   *)
(* always its own, since no other call for the container is in flight, and *)
(* no other thread of its process can panic while it holds the mutex.      *)
THEOREM FailuresLeaveNoTap == Spec => FailedCreateLeavesNoTap
<1> DEFINE Failed(t) == /\ frame[t].at \in {"add", "load"} /\ frame[t].op = "create"
                        /\ frame'[t].at = "idle"
                        /\ file # "torn" /\ crashes' = crashes
<1>1. ASSUME DeviceInv, [Next]_vars, NEW t \in Thread, Failed(t)
      PROVE  frame[t].of \notin taps'
  <2>0. /\ frame \in [Thread -> Active \cup {Idle}] /\ crashes \in Nat
        /\ LockInv /\ CallInv /\ frame[t] # Idle /\ frame[t] \in Active
        /\ frame[t].at \in Critical
    BY <1>1, FaultAssumption DEF DeviceInv, TypeOK, Idle, Critical
  <2>1. ASSUME NEW u \in Thread, ShowTap(u) PROVE FALSE
    <3>1. u # t /\ frame[u].at \in Critical
      BY <1>1, <2>1 DEF ShowTap, Critical
    <3>2. ManagerOf[u] = ManagerOf[t]
      BY <1>1, <2>0, <2>1, <3>1 DEF ShowTap, Return, Goto, Die
    <3>3. mu[ManagerOf[t]] = t /\ mu[ManagerOf[t]] = u
      BY <2>0, <3>1, <3>2 DEF LockInv
    <3> QED
      BY <3>1, <3>3
  <2>2. ASSUME NEW u \in Thread, AddTap(u) PROVE frame[t].of \notin taps'
    <3>1. u = t
      BY <1>1, <2>0, <2>2 DEF AddTap, Return, Goto
    <3> QED
      BY <1>1, <2>0, <2>2, <3>1 DEF AddTap, Goto, CallInv, Active
  <2>3. ASSUME NEW u \in Thread, AllocateIP(u) PROVE frame[t].of \notin taps'
    BY <1>1, <2>0, <2>3 DEF AllocateIP, Return, ToSave
  <2>4. ASSUME NEW u \in Thread, \/ Lock(u) \/ LinkTap(u) \/ DropAllocation(u)
                                \/ TruncateState(u) \/ WriteState(u) \/ Finish(u)
        PROVE  FALSE
    BY <1>1, <2>0, <2>4 DEF Lock, LinkTap, DropAllocation, TruncateState,
       WriteState, Finish, Return, Goto, ToSave
  <2>5. ASSUME NEW u \in Thread, NEW c \in Container,
               CallCreateTap(u, c) \/ CallReleaseIP(u, c)
        PROVE  FALSE
    BY <1>1, <2>0, <2>5 DEF CallCreateTap, CallReleaseIP, Call
  <2>6. ASSUME \/ \E c \in Container : DestroyTap(c)
               \/ \E m \in Manager : Crash(m)
               \/ UNCHANGED vars
        PROVE  FALSE
    BY <1>1, <2>0, <2>6 DEF DestroyTap, Crash, vars
  <2> QED
    BY <1>1, <2>1, <2>2, <2>3, <2>4, <2>5, <2>6 DEF Next, Body
<1>2. DeviceInv /\ [Next]_vars =>
        [\A t \in Thread : Failed(t) => frame[t].of \notin taps']_vars
  BY <1>1
<1> QED
  BY <1>2, DeviceInit, DeviceStep, PTL DEF FailedCreateLeavesNoTap, Spec

-----------------------------------------------------------------------------
(* The inductive invariant behind the exclusiveness of addresses.          *)

(* An address in use stands in the last complete state.json; that file     *)
(* never gives one address to two containers.                              *)
AllocInv ==
  /\ \A c \in Container : held[c] # NoIP => alloc[c] = held[c]
  /\ \A c, d \in Container : alloc[c] = alloc[d] /\ alloc[c] # NoIP => c = d
  /\ file = "absent" => alloc = NoAllocations

(* What a thread is about to write differs from the file only in the entry *)
(* of its own container, and gives that container a free address.          *)
SnapInv ==
  \A t \in Thread :
    frame[t].at \in {"save", "write", "ret"} =>
      LET c == frame[t].of
          a == frame[t].snap
      IN  /\ \A d \in Container \ {c} :
               a[d] = alloc[d] /\ (a[d] = a[c] => a[d] = NoIP)
          /\ frame[t].op = "create" => a[c] \in Address
          /\ frame[t].at = "ret" => alloc = a

IInv == DeviceInv /\ AllocInv /\ SnapInv

LEMMA InvInit == Init => IInv
<1> SUFFICES ASSUME Init PROVE IInv
  OBVIOUS
<1>1. DeviceInv
  BY DeviceInit
<1>2. AllocInv /\ SnapInv
  BY DEF Init, AllocInv, SnapInv, Idle, NoAllocations
<1> QED
  BY <1>1, <1>2 DEF IInv

(* With one Manager at most one thread is inside its methods. *)
LEMMA OneInside ==
  ASSUME OneManager, LockInv,
         NEW t \in Thread, NEW u \in Thread,
         frame[t].at \in Critical, frame[u].at \in Critical
  PROVE  t = u
BY DEF OneManager, LockInv

(* When storage works, loadState returns what the file holds. *)
LEMMA LoadedIsAlloc ==
  ASSUME StorageWorks, AllocInv, NEW a \in Loaded
  PROVE  a = alloc /\ file # "torn"
BY DEF StorageWorks, AllocInv, Loaded

LEMMA InvStep ==
  ASSUME OneManager, StorageWorks
  PROVE  IInv /\ [Next]_vars => IInv'
<1> SUFFICES ASSUME IInv, [Next]_vars PROVE AllocInv' /\ SnapInv'
  BY DeviceStep DEF IInv
<1>0. /\ TypeOK /\ LockInv /\ CallInv /\ AllocInv /\ SnapInv
      /\ TypeOK'
  BY TypeStep DEF IInv, DeviceInv
<1> USE <1>0, ThreadAssumption, ContainerAssumption
<1>1. ASSUME NEW t \in Thread, NEW c \in Container,
             CallCreateTap(t, c) \/ CallReleaseIP(t, c)
      PROVE  AllocInv' /\ SnapInv'
  <2>0. /\ \E o \in {"create", "release"} :
              frame' = [frame EXCEPT ![t] =
                   [at |-> "lock", op |-> o, of |-> c, snap |-> NoAllocations]]
        /\ held' \in {held, [held EXCEPT ![c] = NoIP]}
        /\ UNCHANGED <<file, alloc>>
    BY <1>1 DEF CallCreateTap, CallReleaseIP, Call
  <2> QED
    BY <2>0 DEF AllocInv, SnapInv, TypeOK, Allocations
<1>2. ASSUME NEW t \in Thread,
             Lock(t) \/ ShowTap(t) \/ AddTap(t) \/ LinkTap(t)
      PROVE  AllocInv' /\ SnapInv'
  BY <1>2 DEF Lock, ShowTap, AddTap, LinkTap, Die, Return, Goto, AllocInv,
     SnapInv, TypeOK, Active, Idle
<1>3. ASSUME NEW t \in Thread, AllocateIP(t) PROVE AllocInv' /\ SnapInv'
  <2>0. frame[t] \in Active /\ UNCHANGED <<file, alloc, held>>
    BY <1>3 DEF AllocateIP, TypeOK, Idle
  <2>1. CASE Die(ManagerOf[t]) \/ Return(t)
    BY <2>0, <2>1 DEF Die, Return, AllocInv, SnapInv, TypeOK, Idle
  <2>2. ASSUME NEW a \in Loaded, Candidates(a) # {},
               ToSave(t, [a EXCEPT ![frame[t].of] = LowestFree(a)])
        PROVE  AllocInv' /\ SnapInv'
    <3>1. a = alloc
      BY LoadedIsAlloc
    <3>2. LowestFree(alloc) \in Candidates(alloc)
      BY <2>2, <3>1, LowestFreeIsFree DEF TypeOK
    <3>3. AllocInv'
      BY <2>0 DEF AllocInv
    <3>4. SnapInv'
      BY <2>0, <2>2, <3>1, <3>2
      DEF ToSave, SnapInv, TypeOK, Active, Allocations, Candidates
    <3> QED
      BY <3>3, <3>4
  <2> QED
    BY <1>3, <2>1, <2>2 DEF AllocateIP
<1>4. ASSUME NEW t \in Thread, DropAllocation(t) PROVE AllocInv' /\ SnapInv'
  <2>0. frame[t] \in Active /\ UNCHANGED <<file, alloc, held>>
    BY <1>4 DEF DropAllocation, TypeOK, Idle
  <2>1. CASE Return(t)
    BY <2>0, <2>1 DEF Return, AllocInv, SnapInv, TypeOK, Idle
  <2>2. ASSUME NEW a \in Loaded, ToSave(t, [a EXCEPT ![frame[t].of] = NoIP])
        PROVE  AllocInv' /\ SnapInv'
    <3>1. a = alloc
      BY LoadedIsAlloc
    <3>2. AllocInv'
      BY <2>0 DEF AllocInv
    <3>3. SnapInv'
      BY <1>4, <2>0, <2>2, <3>1
      DEF DropAllocation, ToSave, SnapInv, TypeOK, Active, Allocations
    <3> QED
      BY <3>2, <3>3
  <2> QED
    BY <1>4, <2>1, <2>2 DEF DropAllocation
<1>5. ASSUME NEW t \in Thread, TruncateState(t) PROVE AllocInv' /\ SnapInv'
  <2>1. /\ frame[t] \in Active /\ UNCHANGED <<alloc, held>>
        /\ file' = "torn" /\ Goto(t, "write")
    BY <1>5 DEF TruncateState, StorageWorks, TypeOK, Idle
  <2> QED
    BY <1>5, <2>1
    DEF TruncateState, Goto, AllocInv, SnapInv, TypeOK, Active
<1>6. ASSUME NEW t \in Thread, WriteState(t) PROVE AllocInv' /\ SnapInv'
  <2>0. frame[t] \in Active /\ held' = held
    BY <1>6 DEF WriteState, TypeOK, Idle
  <2>1. file' = "whole" /\ alloc' = frame[t].snap /\ Goto(t, "ret")
    BY <1>6 DEF WriteState, StorageWorks
  <2>2. AllocInv'
    BY <1>6, <2>0, <2>1
    DEF WriteState, CallInv, AllocInv, SnapInv, TypeOK, Active, Idle,
        Allocations
  <2>3. ASSUME NEW u \in Thread, u # t
        PROVE  frame'[u] = frame[u] /\ frame[u].at \notin Critical
    BY <1>6, <2>1, <2>3, OneInside DEF WriteState, Goto, TypeOK, Critical
  <2>4. SnapInv'
    BY <1>6, <2>0, <2>1, <2>3
    DEF WriteState, Goto, SnapInv, TypeOK, Active, Critical
  <2> QED
    BY <2>2, <2>4
<1>7. ASSUME NEW t \in Thread, Finish(t) PROVE AllocInv' /\ SnapInv'
  <2>0. frame[t] \in Active /\ UNCHANGED <<file, alloc>>
    BY <1>7 DEF Finish, TypeOK, Idle
  <2>1. AllocInv'
    BY <1>7, <2>0
    DEF Finish, CallInv, AllocInv, SnapInv, TypeOK, Active, Idle, Allocations
  <2>2. SnapInv'
    BY <1>7, <2>0 DEF Finish, Return, SnapInv, TypeOK, Active, Idle
  <2> QED
    BY <2>1, <2>2
<1>8. ASSUME NEW c \in Container, DestroyTap(c) PROVE AllocInv' /\ SnapInv'
  BY <1>8 DEF DestroyTap, AllocInv, SnapInv, TypeOK, Allocations
<1>9. ASSUME NEW m \in Manager, Crash(m) PROVE AllocInv' /\ SnapInv'
  BY <1>9 DEF Crash, Die, AllocInv, SnapInv, TypeOK, Active, Idle
<1>10. CASE UNCHANGED vars
  BY <1>10 DEF vars, AllocInv, SnapInv
<1> QED
  BY <1>1, <1>2, <1>3, <1>4, <1>5, <1>6, <1>7, <1>8, <1>9, <1>10 DEF Next, Body

LEMMA Invariance ==
  ASSUME OneManager, StorageWorks
  PROVE  Spec => []IInv
BY InvInit, InvStep, PTL DEF Spec

-----------------------------------------------------------------------------
(* Goroutines that share a Manager never make CreateTap hand out an        *)
(* address that another container still uses.                              *)
THEOREM AddressesAreUnique ==
  ASSUME OneManager, StorageWorks
  PROVE  Spec => []UniqueAddresses
<1>1. IInv => UniqueAddresses
  BY DEF IInv, AllocInv, UniqueAddresses
<1> QED
  BY <1>1, Invariance, PTL

(* Every address in use stands in state.json whenever that can be read.    *)
THEOREM AddressesAreRecorded ==
  ASSUME OneManager, StorageWorks
  PROVE  Spec => []HeldIsRecorded
<1>1. IInv => HeldIsRecorded
  BY DEF IInv, AllocInv, HeldIsRecorded
<1> QED
  BY <1>1, Invariance, PTL

(* saveState never overwrites the allocation of another container.         *)
THEOREM UpdatesAreKept ==
  ASSUME OneManager, StorageWorks
  PROVE  Spec => NoLostUpdate
<1>1. ASSUME IInv, [Next]_vars,
             NEW c \in Container, alloc'[c] # alloc[c]
      PROVE  \E t \in Thread : frame[t].at = "write" /\ frame[t].of = c
  <2>1. PICK t \in Thread : WriteState(t)
    BY <1>1
    DEF Next, Body, vars, CallCreateTap, CallReleaseIP, Call, DestroyTap, Lock,
        ShowTap, AddTap, LinkTap, AllocateIP, DropAllocation, TruncateState,
        Finish, Crash
  <2>2. frame[t].at = "write" /\ alloc' = frame[t].snap
    BY <1>1, <2>1 DEF WriteState
  <2> QED
    BY <1>1, <2>2 DEF IInv, SnapInv
<1>2. IInv /\ [Next]_vars =>
        [\A c \in Container : alloc'[c] # alloc[c] =>
           \E t \in Thread : frame[t].at = "write" /\ frame[t].of = c]_vars
  BY <1>1
<1> QED
  BY <1>2, Invariance, PTL DEF NoLostUpdate, Spec

(* A thread saves only what it has loaded: it is not about to overwrite a  *)
(* file that does not parse.                                               *)
TornInv == \A t \in Thread : frame[t].at = "save" => file # "torn"

LEMMA TornStep ==
  ASSUME OneManager, StorageWorks, IInv, TornInv, [Next]_vars
  PROVE  TornInv'
<1> SUFFICES ASSUME NEW u \in Thread, frame'[u].at = "save" PROVE file' # "torn"
  BY DEF TornInv
<1>0. /\ frame \in [Thread -> Active \cup {Idle}] /\ AllocInv /\ LockInv
      /\ frame[u].at = "save" => file # "torn"
  BY DEF IInv, DeviceInv, TypeOK, TornInv
<1>1. ASSUME NEW t \in Thread, TruncateState(t) PROVE FALSE
  <2>1. u # t /\ frame[u].at = "save" /\ frame[t].at = "save"
    BY <1>0, <1>1 DEF TruncateState, Goto, Active, Idle
  <2> QED
    BY <1>0, <2>1, OneInside DEF Critical
<1>2. ASSUME NEW t \in Thread, WriteState(t) PROVE FALSE
  <2>1. u # t /\ frame[u].at = "save" /\ frame[t].at = "write"
    BY <1>0, <1>2 DEF WriteState, Goto, Active, Idle
  <2> QED
    BY <1>0, <2>1, OneInside DEF Critical
<1>3. ASSUME NEW t \in Thread, AllocateIP(t) \/ DropAllocation(t)
      PROVE  file' # "torn"
  <2>1. CASE u = t
    <3>1. ~Return(t) /\ ~Die(ManagerOf[t])
      BY <1>0, <2>1 DEF Return, Die, Idle
    <3>2. Loaded # {}
      BY <1>3, <3>1 DEF AllocateIP, DropAllocation
    <3> QED
      BY <1>0, <1>3, <3>2, LoadedIsAlloc DEF AllocateIP, DropAllocation
  <2>2. CASE u # t
    <3>1. frame'[u] \in {frame[u], Idle}
      BY <1>0, <1>3, <2>2 DEF AllocateIP, DropAllocation, Return, Die, ToSave
    <3> QED
      BY <1>0, <1>3, <3>1 DEF AllocateIP, DropAllocation, Idle
  <2> QED
    BY <2>1, <2>2
<1>4. ASSUME NEW t \in Thread, \/ Lock(t) \/ ShowTap(t) \/ AddTap(t) \/ LinkTap(t)
                              \/ Finish(t)
      PROVE  frame[u].at = "save" /\ file' = file
  BY <1>0, <1>4 DEF Lock, ShowTap, AddTap, LinkTap, Finish, Return, Die, Goto, Idle, Active
<1>5. ASSUME NEW t \in Thread, NEW c \in Container,
             CallCreateTap(t, c) \/ CallReleaseIP(t, c)
      PROVE  frame[u].at = "save" /\ file' = file
  BY <1>0, <1>5 DEF CallCreateTap, CallReleaseIP, Call
<1>6. CASE \/ \E c \in Container : DestroyTap(c)
           \/ \E m \in Manager : Crash(m)
           \/ UNCHANGED vars
  BY <1>0, <1>6 DEF DestroyTap, Crash, Die, vars, Idle
<1> QED
  BY <1>0, <1>1, <1>2, <1>3, <1>4, <1>5, <1>6 DEF Next, Body

(* A state.json left half written is not overwritten: after a crash inside *)
(* saveState no call starts again from an empty map of allocations.        *)
THEOREM TornIsNotForgotten ==
  ASSUME OneManager, StorageWorks
  PROVE  Spec => TornStaysTorn
<1> DEFINE Inv == IInv /\ TornInv
<1>1. Init => Inv
  BY InvInit DEF Init, TornInv, Idle
<1>2. Inv /\ [Next]_vars => Inv'
  BY InvStep, TornStep
<1>3. Inv /\ [Next]_vars => [file = "torn" /\ ~Writing => ~Writing']_vars
  <2> SUFFICES ASSUME Inv, [Next]_vars, file = "torn", ~Writing PROVE ~Writing'
    OBVIOUS
  <2>1. \A t \in Thread : frame[t].at \notin {"save", "write"}
    BY DEF TornInv, Writing
  <2>2. frame \in [Thread -> Active \cup {Idle}]
    BY DEF IInv, DeviceInv, TypeOK
  <2>3. SUFFICES ASSUME NEW u \in Thread, frame'[u].at = "write" PROVE FALSE
    BY DEF Writing
  <2>4. ASSUME NEW t \in Thread, TruncateState(t) \/ WriteState(t) PROVE FALSE
    BY <2>1, <2>4 DEF TruncateState, WriteState
  <2>5. ASSUME NEW t \in Thread,
               AllocateIP(t) \/ DropAllocation(t) \/ Lock(t) \/ Finish(t)
        PROVE  FALSE
    BY <2>1, <2>2, <2>3, <2>5
    DEF AllocateIP, DropAllocation, Lock, Finish, Return, ToSave, Die, Idle,
        Active
  <2>6. ASSUME NEW t \in Thread, ShowTap(t) \/ AddTap(t) \/ LinkTap(t) PROVE FALSE
    BY <2>1, <2>2, <2>3, <2>6
    DEF ShowTap, AddTap, LinkTap, Return, Goto, Die, Idle, Active
  <2>7. ASSUME NEW t \in Thread, NEW c \in Container,
               CallCreateTap(t, c) \/ CallReleaseIP(t, c)
        PROVE  FALSE
    BY <2>1, <2>2, <2>3, <2>7 DEF CallCreateTap, CallReleaseIP, Call
  <2>8. CASE \/ \E c \in Container : DestroyTap(c)
             \/ \E m \in Manager : Crash(m)
             \/ UNCHANGED vars
    BY <2>1, <2>2, <2>3, <2>8 DEF DestroyTap, Crash, Die, Idle, vars
  <2> QED
    BY <2>4, <2>5, <2>6, <2>7, <2>8 DEF Next, Body
<1> QED
  BY <1>1, <1>2, <1>3, PTL DEF TornStaysTorn, Spec

-----------------------------------------------------------------------------
(* The manager implements module IPAM: CallReleaseIP and DestroyTap give   *)
(* up an address, the return of CreateTap acquires one, and every other    *)
(* step, crashes included, leaves the leases as they are.                  *)
THEOREM IPAMIsImplemented ==
  ASSUME OneManager, StorageWorks
  PROVE  Spec => ImplementsIPAM
<1>1. Init => Promise!Init
  BY DEF Init, Promise!Init, NoAllocations
<1>2. ASSUME IInv, [Next]_vars
      PROVE  [Promise!Next]_held
  <2>1. ASSUME NEW t \in Thread, NEW c \in Container, CallReleaseIP(t, c)
        PROVE  Promise!GiveUp(c)
    BY <2>1 DEF CallReleaseIP, Promise!GiveUp
  <2>2. ASSUME NEW c \in Container, DestroyTap(c)
        PROVE  Promise!GiveUp(c)
    BY <2>2 DEF DestroyTap, Promise!GiveUp
  <2>3. ASSUME NEW t \in Thread, Finish(t), frame[t].op = "create"
        PROVE  Promise!Acquire(frame[t].of)
    <3>1. frame[t] \in Active /\ frame[t].of \in Container
      BY <1>2, <2>3 DEF Finish, IInv, DeviceInv, TypeOK, Active, Idle
    <3>2. frame[t].snap[frame[t].of] \in Address
      BY <1>2, <2>3 DEF Finish, IInv, SnapInv
    <3>3. \A d \in Container : held[d] # frame[t].snap[frame[t].of]
      BY <1>2, <2>3, <3>1, <3>2, HostAssumption
      DEF Finish, IInv, DeviceInv, CallInv, AllocInv, SnapInv, Idle, Address, NoIP
    <3> QED
      BY <2>3, <3>2, <3>3 DEF Finish, Promise!Acquire, Promise!InUse
  <2>4. ASSUME NEW t \in Thread, Finish(t), frame[t].op = "create"
        PROVE  frame[t].of \in Container
    BY <1>2, <2>4 DEF Finish, IInv, DeviceInv, TypeOK, Active, Idle
  <2> QED
    BY <1>2, <2>1, <2>2, <2>3, <2>4
    DEF Promise!Next, Next, Body, vars, CallCreateTap, Lock, ShowTap, AddTap,
        LinkTap, AllocateIP, DropAllocation, TruncateState, WriteState, Finish,
        Crash
<1>3. IInv /\ [Next]_vars => [Promise!Next]_held
  BY <1>2
<1> QED
  BY <1>1, <1>3, Invariance, PTL DEF Spec, ImplementsIPAM, Promise!Spec
=============================================================================
