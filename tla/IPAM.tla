------------------------------- MODULE IPAM -------------------------------
(***************************************************************************)
(* What the network manager promises its callers about addresses: an       *)
(* address is handed out only while no container holds it, and it comes    *)
(* back when the container lets go.  How addresses are recorded on disk,   *)
(* who holds which lock and in which order the files are written is not    *)
(* visible here; NetworkManager implements this module.                    *)
(***************************************************************************)
CONSTANTS
  Container,  \* the containers that may ask for an address
  Address,    \* the addresses of the pool
  NoIP        \* "holds no address"; the zero value of the Go string

VARIABLE lease  \* lease[c]: the address container c may use, or NoIP

InUse(i) == \E c \in Container : lease[c] = i

Init == lease = [c \in Container |-> NoIP]

(* CreateTap succeeds for c: any address nobody holds. *)
Acquire(c) ==
  \E i \in Address :
    /\ ~InUse(i)
    /\ lease' = [lease EXCEPT ![c] = i]

(* ReleaseIP, or the loss of the device, ends the use of the address. *)
GiveUp(c) == lease' = [lease EXCEPT ![c] = NoIP]

Next == \E c \in Container : Acquire(c) \/ GiveUp(c)

Spec == Init /\ [][Next]_lease

(* Two containers never hold the same address. *)
Exclusive ==
  \A c, d \in Container : lease[c] = lease[d] /\ lease[c] # NoIP => c = d
=============================================================================
