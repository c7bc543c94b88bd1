------------------------------ MODULE MCTunVpn ------------------------------
(* Small instances of TunVpn. *)
EXTENDS TunVpn

CONSTANTS c1, c2

MCClients == {c1, c2}

\* The first address assigned, the server's, and one that is never assigned.
MCDestinations == {2, 4, 7}

\* Both clients' addresses and the server's.
MCEverybody == {2, 3, 4}
=============================================================================
