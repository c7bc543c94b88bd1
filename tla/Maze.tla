--------------------------------- MODULE Maze ---------------------------------
(***************************************************************************)
(* The maze player of Lab3 (client4.cpp).  It sees a window of the maze    *)
(* around its place on the server, searches depth first on the map it      *)
(* keeps, and does not send its moves one by one: they pile up in path     *)
(* until the search comes to a cell the map does not show.                 *)
(*                                                                         *)
(* The server is external.  It answers a line of moves with the window     *)
(* around the place they lead to; a move into a wall leads nowhere.        *)
(***************************************************************************)
EXTENDS Integers, Sequences, SequencesExt

CONSTANTS
  Rows, Columns,  \* the size of the maze, walls around it included
  RX, RY,         \* the window's reach: 3 rows and 5 columns in the code
  Mazes           \* records: the free cells, the start and the exit

Cells == (1..Rows) \X (1..Columns)

Inner == (2..(Rows - 1)) \X (2..(Columns - 1))

ASSUME MazeAssumption ==
  /\ {Rows, Columns, RX, RY} \subseteq Nat \ {0}
  /\ \A m \in Mazes : /\ m.free \subseteq Inner
                      /\ {m.start, m.exit} \subseteq m.free
                      /\ m.start # m.exit

VARIABLES
  maze,
  position,  \* the player's place on the server
  big_map,   \* " " where nothing is known
  visited,
  path,      \* the moves not sent yet
  calls,     \* the calls of run_maze: the cell, the loop's i, from
  asked,     \* was the window asked for in this iteration?
  find_ans

vars == <<maze, position, big_map, visited, path, calls, asked, find_ans>>

Directions == 0..3

Beside(cell, dir) ==
  LET dx == <<0, 0, 1, -1>>
      dy == <<1, -1, 0, 0>>
  IN  <<cell[1] + dx[dir + 1], cell[2] + dy[dir + 1]>>

-----------------------------------------------------------------------------
(* The server *)

Content(m, cell) ==
  IF cell = m.exit THEN "E" ELSE IF cell \in m.free THEN "." ELSE "#"

Move(m, place, dir) ==
  IF Beside(place, dir) \in m.free THEN Beside(place, dir) ELSE place

\* The places the moves lead to one after the other, place itself first.
Places(m, place, moves) ==
  LET at[n \in 0..Len(moves)] ==
        IF n = 0 THEN place ELSE Move(m, at[n - 1], moves[n])
  IN  at

Walk(m, place, moves) == Places(m, place, moves)[Len(moves)]

\* What the window around a place shows; the player is drawn over its cell.
Window(m, place) ==
  [off \in (-RX..RX) \X (-RY..RY) |->
     LET cell == <<place[1] + off[1], place[2] + off[2]>>
     IN  IF off = <<0, 0>> THEN "*"
         ELSE IF cell \in Cells THEN Content(m, cell) ELSE " "]

-----------------------------------------------------------------------------
(* The client *)

Plain(mark) == IF mark = "*" THEN "." ELSE mark

Offset(cell, cur) == <<cell[1] - cur[1], cell[2] - cur[2]>>

\* The window is copied onto the map around cur.
plot_map(map, window, cur) ==
  [cell \in Cells |-> IF Offset(cell, cur) \in DOMAIN window
                      THEN Plain(window[Offset(cell, cur)])
                      ELSE map[cell]]

Call   == Last(calls)
Target == Beside(Call.cell, Call.i)

\* Mutant: the window is put around the cell that is looked at.
Centre_Target == Target

Centre == Call.cell

\* Mutant: the last direction is never looked at.
Looking_Three == calls # <<>> /\ ~find_ans /\ Call.i < 3

\* The loop over the directions goes on.
Looking == calls # <<>> /\ ~find_ans /\ Call.i \in Directions

\* The moves are sent; what the answer shows is the window around the place
\* they led to.
send_receive(moves) == position' = Walk(maze, position, moves)

\* The iteration's cell is unknown: the moves are sent, the window read.
Ask ==
  /\ Looking
  /\ big_map[Target] = " " /\ ~asked
  /\ send_receive(path)
  /\ big_map' = plot_map(big_map, Window(maze, position'), Centre)
  /\ path' = <<>>
  /\ asked' = TRUE
  /\ UNCHANGED <<maze, visited, calls, find_ans>>

Looked == Looking /\ (big_map[Target] # " " \/ asked)

Open == big_map[Target] # "#" /\ Target \notin visited

\* Mutant: the loop looks in the same direction again.
NextDirection_Same(stack) == stack

NextDirection(stack) == [stack EXCEPT ![Len(stack)].i = @ + 1]

\* A wall, or a cell visited before.
Pass ==
  /\ Looked
  /\ ~Open
  /\ calls' = NextDirection(calls)
  /\ asked' = FALSE
  /\ UNCHANGED <<maze, position, big_map, visited, path, find_ans>>

Enter ==
  /\ Looked
  /\ Open
  /\ big_map[Target] # "E"
  /\ path' = Append(path, Call.i)
  /\ calls' = Append(calls, [cell |-> Target, i |-> 0, from |-> Call.i])
  /\ visited' = visited \cup {Target}
  /\ asked' = FALSE
  /\ UNCHANGED <<maze, position, big_map, find_ans>>

\* The exit is seen: the moves to it are sent, and every call returns.
Escape ==
  /\ Looked
  /\ Open
  /\ big_map[Target] = "E"
  /\ path' = Append(path, Call.i)
  /\ position' = Walk(maze, position, path')
  /\ find_ans' = TRUE
  /\ UNCHANGED <<maze, big_map, visited, calls, asked>>

\* Mutant: right and left, down and up are not told apart.
Opposite_Mixed(dir) == 3 - dir

Opposite(dir) == <<1, 0, 3, 2>>[dir + 1]

\* All directions were tried: back to where the call came from.  The first
\* call, with from = 5, has nowhere to go back to.
Backtrack ==
  /\ calls # <<>> /\ ~find_ans /\ ~Looking
  /\ IF Call.from \in Directions
     THEN /\ path' = Append(path, Opposite(Call.from))
          /\ calls' = NextDirection(Front(calls))
     ELSE UNCHANGED path /\ calls' = <<>>
  /\ UNCHANGED <<maze, position, big_map, visited, asked, find_ans>>

-----------------------------------------------------------------------------
Init ==
  /\ maze \in Mazes
  /\ position = maze.start
  /\ big_map = plot_map([cell \in Cells |-> " "], Window(maze, position), position)
  /\ visited = {position}
  /\ path = <<>>
  /\ calls = <<[cell |-> position, i |-> 0, from |-> 5]>>
  /\ asked = FALSE
  /\ find_ans = FALSE

Next == Ask \/ Pass \/ Enter \/ Escape \/ Backtrack

Spec == Init /\ [][Next]_vars

\* The program runs, and the server answers.
FairSpec == Spec /\ WF_vars(Next)

-----------------------------------------------------------------------------
(* Safety *)

\* The moves that were not sent yet lead from the player's place on the
\* server to the cell of the innermost call: whatever was held back, no move
\* was forgotten, sent twice or made into a wall.
InStep ==
  calls # <<>> /\ ~find_ans => Walk(maze, position, path) = Call.cell

\* Every cell the map shows is as it is in the maze, so the windows were put
\* where the server saw the player.
MapTrue ==
  \A cell \in Cells : big_map[cell] \in {" ", Content(maze, cell)}

\* No way leads out of the region.
Apart(region) ==
  \A cell \in region, dir \in Directions :
    Beside(cell, dir) \in maze.free => Beside(cell, dir) \in region

NoWayOut ==
  \E region \in SUBSET maze.free :
    maze.start \in region /\ maze.exit \notin region /\ Apart(region)

\* When the program says it found the answer the player stands on the exit,
\* and when it gives up no way leads there.
AnswerRight ==
  /\ find_ans => position = maze.exit
  /\ calls = <<>> => NoWayOut

\* The search ends.
Ends == <>(find_ans \/ calls = <<>>)
=============================================================================
