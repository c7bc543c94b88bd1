-------------------------------- MODULE MCMaze --------------------------------
(* Small mazes for Maze: every arrangement of walls, and every exit, around  *)
(* the given starts.                                                         *)
EXTENDS Maze

CONSTANT Starts

MCMazes ==
  {[free |-> free \cup {start, exit}, start |-> start, exit |-> exit] :
     free \in SUBSET Inner, start \in Starts, exit \in Inner} \
  {[free |-> free \cup {start}, start |-> start, exit |-> start] :
     free \in SUBSET Inner, start \in Starts}

MCStarts == {<<2, 2>>, <<2, 3>>, <<3, 3>>}
=============================================================================
