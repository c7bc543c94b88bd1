----------------------------- MODULE MCChatLoop -----------------------------
(* Small instances of ChatLoop. *)
EXTENDS ChatLoop

MCFds3 == {4, 5, 6}
=============================================================================
