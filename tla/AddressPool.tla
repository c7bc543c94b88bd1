---------------------------- MODULE AddressPool ----------------------------
(***************************************************************************)
(* What the tunnel VPN of Lab8 promises of virtual addresses: an address   *)
(* is given once, to one client, for good; a client holds one that was     *)
(* given to it, and keeps it.                                              *)
(***************************************************************************)
CONSTANTS Clients, Addresses, None

VARIABLES
  owner,   \* address -> the client it was given to, or None
  address  \* client -> the address it holds, or None

vars == <<owner, address>>

Init ==
  /\ owner = [a \in Addresses |-> None]
  /\ address = [c \in Clients |-> None]

Give(a, c) ==
  /\ owner[a] = None
  /\ owner' = [owner EXCEPT ![a] = c]
  /\ UNCHANGED address

Take(a, c) ==
  /\ owner[a] = c
  /\ address[c] = None
  /\ address' = [address EXCEPT ![c] = a]
  /\ UNCHANGED owner

Next == \E a \in Addresses, c \in Clients : Give(a, c) \/ Take(a, c)

Spec == Init /\ [][Next]_vars

=============================================================================
