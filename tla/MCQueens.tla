------------------------------- MODULE MCQueens -------------------------------
(* Boards of the server for Queens: peaceful ones of three or four queens.  *)
EXTENDS Queens

OneMore(boards) ==
  {b \cup {s} : b \in boards, s \in Squares} \ boards

MCBoards(k) == {p : p \in {q \in OneMore(k) : Peaceful(q)}}

MCThree == MCBoards(MCBoards(MCBoards({{}})))

MCPremises == MCThree \cup MCBoards(MCThree)
=============================================================================
