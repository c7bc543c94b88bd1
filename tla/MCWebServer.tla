---------------------------- MODULE MCWebServer ----------------------------
(* Small instances of WebServer. *)
EXTENDS WebServer

CONSTANTS h1, s1, s2

MCClients == {h1, s1, s2}

MCPort == [c \in MCClients |-> IF c = h1 THEN "http" ELSE "https"]

\* A page; a client that leaves is answered a page or an error.
MCRequests == {"file"}

MCGarbage == {"file", "other"}
=============================================================================
