---------------------------- MODULE MCChatServer ----------------------------
(* Small instances of ChatServer: the names u2 and t2 contain a forbidden  *)
(* word that masks to u1 and t1.                                           *)
EXTENDS ChatServer

CONSTANTS u1, u2, t1, t2

MCFds2 == {4, 5}
Boolean == BOOLEAN
AlwaysFalse == {FALSE}

MCMaskText == [t \in Texts |-> t1]
MCMaskName == [u \in Users |-> u1]
=============================================================================
