------------------------------ MODULE Transfer ------------------------------
(***************************************************************************)
(* What the file transfer of Lab6 promises: files arrive whole, one at a   *)
(* time, each once, and the sender stops when the receiver has them all.   *)
(***************************************************************************)
CONSTANT Files

VARIABLES
  delivered,  \* the files the receiver has
  finished    \* has the sender stopped?

vars == <<delivered, finished>>

Init == delivered = {} /\ finished = FALSE

Deliver ==
  /\ \E f \in Files \ delivered : delivered' = delivered \cup {f}
  /\ UNCHANGED finished

Stop ==
  /\ delivered = Files
  /\ ~finished
  /\ finished' = TRUE
  /\ UNCHANGED delivered

Next == Deliver \/ Stop

Spec == Init /\ [][Next]_vars

=============================================================================
