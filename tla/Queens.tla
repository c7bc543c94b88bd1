-------------------------------- MODULE Queens --------------------------------
(***************************************************************************)
(* The N-queens player of Lab7 (solver.c): it asks the server for a board  *)
(* with some queens on it, completes the board by a recursive search, one  *)
(* column per call, sends the queens it added and asks for the check.      *)
(*                                                                         *)
(* The call for column c has the frame row[c], cnt[c], call[c]: its loop   *)
(* variable i, its count of queens and the place it called the next column *)
(* from.  A board is the set of the squares <<row, column>> set to 1.      *)
(***************************************************************************)
EXTENDS Integers, FiniteSets

CONSTANTS
  N,         \* 30 in the code
  Premises   \* the boards the server may give

GivenQueens == 3   \* the count solveNQ starts with

Lines   == 0..(N - 1)
Squares == Lines \X Lines

Attacks(s, t) ==
  \/ s[1] = t[1]
  \/ s[2] = t[2]
  \/ s[1] - s[2] = t[1] - t[2]
  \/ s[1] + s[2] = t[1] + t[2]

Peaceful(queens) == \A s, t \in queens : s # t => ~Attacks(s, t)

\* The server gives queens that do not attack each other, and at least as
\* many as the program takes for granted.
ASSUME QueensAssumption ==
  /\ N \in Nat \ {0}
  /\ \A p \in Premises : /\ p \subseteq Squares
                         /\ Peaceful(p)
                         /\ Cardinality(p) >= GivenQueens

VARIABLES
  ori_board,  \* the board as the server gave it
  board,
  col,        \* the column of the innermost call
  row,
  cnt,
  call,
  pc,         \* "search", "return" (of 0 to column col), "send" or "done"
  found,      \* what solveNQUtil returned to solveNQ
  sent        \* the squares sent to the server

searchVars == <<board, col, row, cnt, call>>
vars == <<ori_board, searchVars, pc, found, sent>>

-----------------------------------------------------------------------------
(* solveNQUtil *)

Here == <<row[col], col>>

\* The whole row, the whole column and both diagonals are searched.
isSafe(square) == \A queen \in board : ~Attacks(square, queen)

\* The loop over the rows of the column goes on.
InRows == pc = "search" /\ col < N /\ row[col] < N

\* The call for the next column, which begins with row 0 and the count it
\* is given.
Call(from, count) ==
  /\ col' = col + 1
  /\ row' = [row EXCEPT ![col + 1] = 0]
  /\ cnt' = [cnt EXCEPT ![col] = count, ![col + 1] = count]
  /\ call' = [call EXCEPT ![col] = from]

\* Mutant: the loop tries the same row again.
NextRow_Same == row' = row

NextRow == row' = [row EXCEPT ![col] = @ + 1]

\* The search ends: every call returns 1 to its caller, or the first one 0.
Return(result) ==
  /\ found' = result
  /\ pc' = "send"
  /\ UNCHANGED searchVars

\* The square has a queen of the premise.
Given ==
  /\ InRows
  /\ Here \in board
  /\ Call("given", cnt[col])
  /\ UNCHANGED <<board, pc, found>>

Place ==
  /\ InRows
  /\ isSafe(Here)
  /\ board' = board \cup {Here}
  /\ Call("placed", cnt[col] + 1)
  /\ UNCHANGED <<pc, found>>

Skip ==
  /\ InRows
  /\ Here \notin board
  /\ ~isSafe(Here)
  /\ NextRow
  /\ UNCHANGED <<board, col, cnt, call, pc, found>>

\* All queens are placed.
Full ==
  /\ pc = "search"
  /\ col >= N
  /\ Return(1)

\* No row is left: 0 is returned to the column before.
Exhausted ==
  /\ pc = "search"
  /\ col < N
  /\ ~InRows
  /\ IF col = 0
     THEN Return(0)
     ELSE /\ pc' = "return"
          /\ col' = col - 1
          /\ UNCHANGED <<board, row, cnt, call, found>>

\* Mutant: the queen stays on the board.
Removed_Kept == board

Removed == board \ {Here}

\* The call for the next column returned 0.  The queen that was placed is
\* taken back; a square with a given queen is not safe, so the loop goes on.
Resume ==
  /\ pc = "return"
  /\ IF cnt[col] = N
     THEN Return(1)
     ELSE /\ IF call[col] = "placed"
             THEN board' = Removed /\ cnt' = [cnt EXCEPT ![col] = @ - 1]
             ELSE UNCHANGED <<board, cnt>>
          /\ NextRow
          /\ pc' = "search"
          /\ UNCHANGED <<col, call, found>>

Search ==
  /\ Given \/ Place \/ Skip \/ Full \/ Exhausted \/ Resume
  /\ UNCHANGED <<ori_board, sent>>

-----------------------------------------------------------------------------
(* main *)

\* Mutant: the queens of the premise are sent as well.
Moves_All == board \ sent

\* The queens that are still to be sent.
Moves == board \ (ori_board \cup sent)

Before(s, t) == s[1] < t[1] \/ (s[1] = t[1] /\ s[2] < t[2])

\* "M row column", row by row.
SendMove ==
  /\ pc = "send"
  /\ \E move \in Moves :
       /\ \A other \in Moves \ {move} : Before(move, other)
       /\ sent' = sent \cup {move}
  /\ UNCHANGED <<ori_board, searchVars, pc, found>>

\* "C", whether a solution was found or not.
SendCheck ==
  /\ pc = "send"
  /\ Moves = {}
  /\ pc' = "done"
  /\ UNCHANGED <<ori_board, searchVars, found, sent>>

-----------------------------------------------------------------------------
Init ==
  /\ ori_board \in Premises
  /\ board = ori_board
  /\ col = 0
  /\ row = [c \in 0..N |-> 0]
  /\ cnt = [c \in 0..N |-> GivenQueens]
  /\ call = [c \in 0..N |-> "none"]
  /\ pc = "search"
  /\ found = 0
  /\ sent = {}

Next == Search \/ SendMove \/ SendCheck

Spec == Init /\ [][Next]_vars

\* The program runs, and the server answers every move.
FairSpec == Spec /\ WF_vars(Next)

-----------------------------------------------------------------------------
(* Types *)

\* Every variable has its type.
TypeOK ==
  /\ ori_board \subseteq Squares
  /\ board \subseteq Squares
  /\ col \in 0..N
  /\ row \in [0..N -> 0..N]
  /\ cnt \in [0..N -> Nat]
  /\ call \in [0..N -> {"none", "given", "placed"}]
  /\ pc \in {"search", "return", "send", "done"}
  /\ found \in {0, 1}
  /\ sent \subseteq Squares

-----------------------------------------------------------------------------
(* Safety *)

\* The complete boards: a queen in every column, and none attacks another.
Queens(rows) == {<<rows[c], c>> : c \in Lines}

Solutions ==
  {Queens(rows) : rows \in {r \in [Lines -> Lines] : Peaceful(Queens(r))}}

Ended == pc \in {"send", "done"}

Solvable == \E solution \in Solutions : ori_board \subseteq solution

\* What the search says is right, however the calls counted to N: the board
\* it found is a solution with the given queens, and it gives up only when
\* there is none and has then put the board back as it was.
SearchRight ==
  Ended =>
    IF found = 1
    THEN ori_board \subseteq board /\ board \in Solutions
    ELSE board = ori_board /\ ~Solvable

\* When the server is asked to check, the moves it was sent complete the
\* given board to a solution, none of them twice, or there is none at all.
CheckedBoard ==
  pc = "done" =>
    /\ sent \cap ori_board = {}
    /\ \/ sent \cup ori_board \in Solutions
       \/ sent = {} /\ ~Solvable

\* The search and the sending end.
Finishes == <>(pc = "done")
=============================================================================
