----------------------------- MODULE QueensProofs -----------------------------
(***************************************************************************)
(* Theorems about Queens: for every size of the board and every premise,   *)
(* what the search finds is a solution, it gives up only where there is    *)
(* none, and the moves sent complete the given board.                      *)
(***************************************************************************)
EXTENDS Queens, FiniteSetTheorems, TLAPS

Searching == pc \in {"search", "return"}

\* The columns of the calls that wait for the next column's.
Waiting == IF pc = "return" THEN 0..col ELSE 0..(col - 1)

Path(rows, columns) == {<<rows[c], c>> : c \in columns}

\* The board holds the given queens and one for every waiting call, which
\* knows whether its queen was given.
BoardInv ==
  /\ board = ori_board \cup Path(row, Waiting)
  /\ Peaceful(board)
  /\ \A c \in Waiting : /\ row[c] < N
                        /\ call[c] \in {"given", "placed"}
                        /\ call[c] = "given" <=> <<row[c], c>> \in ori_board

Placed(marks, c) == {d \in 0..c : marks[d] = "placed"}

\* A call's count: the three queens it takes for granted and those placed up
\* to its column.
CountInv ==
  /\ \A c \in Waiting : cnt[c] = GivenQueens + Cardinality(Placed(call, c))
  /\ pc = "search" => cnt[col] = GivenQueens + Cardinality(Placed(call, col - 1))

Solves(rows) ==
  /\ rows \in [Lines -> Lines]
  /\ Peaceful(Queens(rows))
  /\ ori_board \subseteq Queens(rows)

Agrees(rows, columns) == \A c \in columns : rows[c] = row[c]

\* What was tried: no solution follows the path to a column and has a smaller
\* row there, and none follows a path from which the next column failed.
TriedInv ==
  \A rows : Solves(rows) =>
    /\ \A k \in (0..col) \cap Lines :
         Agrees(rows, 0..(k - 1)) => rows[k] >= row[k]
    /\ pc = "return" => ~Agrees(rows, 0..col)

SearchInv ==
  Searching =>
    /\ BoardInv /\ CountInv /\ TriedInv
    /\ pc = "return" => col < N
    /\ sent = {}

EndInv ==
  Ended =>
    /\ SearchRight
    /\ ori_board \subseteq board
    /\ sent \subseteq board \ ori_board
    /\ pc = "done" => Moves = {}

Inv == TypeOK /\ ori_board \in Premises /\ SearchInv /\ EndInv

-----------------------------------------------------------------------------
(* Squares and boards *)

LEMMA SquareParts ==
  ASSUME NEW s \in Squares
  PROVE  s[1] \in Lines /\ s[2] \in Lines /\ s = <<s[1], s[2]>>
BY DEF Squares

LEMMA LineNumbers == N \in Nat /\ N > 0 /\ Lines \subseteq Nat /\ Lines \subseteq 0..N
BY QueensAssumption DEF Lines

LEMMA AttacksSymmetric ==
  ASSUME NEW s, NEW t, Attacks(s, t) PROVE Attacks(t, s)
BY DEF Attacks

\* A queen of its own in every column.
LEMMA OneInColumn ==
  ASSUME NEW queens, Peaceful(queens), NEW s \in queens, NEW t \in queens, s[2] = t[2]
  PROVE  s = t
BY DEF Peaceful, Attacks

\* A peaceful board with a queen in every column is complete.
LEMMA FullBoard ==
  ASSUME NEW queens \in SUBSET Squares, Peaceful(queens),
         \A c \in Lines : \E s \in queens : s[2] = c
  PROVE  queens \in Solutions
<1> DEFINE r == [c \in Lines |-> CHOOSE i \in Lines : <<i, c>> \in queens]
<1>1. \A c \in Lines : r[c] \in Lines /\ <<r[c], c>> \in queens
  <2> SUFFICES ASSUME NEW c \in Lines
               PROVE  r[c] \in Lines /\ <<r[c], c>> \in queens
    OBVIOUS
  <2>1. PICK s \in queens : s[2] = c
    OBVIOUS
  <2>2. s[1] \in Lines /\ <<s[1], c>> \in queens
    BY <2>1, SquareParts
  <2>3. \E i \in Lines : <<i, c>> \in queens
    BY <2>2
  <2> QED
    BY <2>3
<1>2. Queens(r) \subseteq queens
  BY <1>1 DEF Queens
<1>3. ASSUME NEW s \in queens PROVE s \in Queens(r)
  <2>1. s[2] \in Lines /\ s = <<s[1], s[2]>>
    BY <1>3, SquareParts
  <2>2. <<r[s[2]], s[2]>> \in queens
    BY <1>1, <2>1
  <2>3. s = <<r[s[2]], s[2]>>
    BY <2>2, OneInColumn
  <2> QED
    BY <2>1, <2>3 DEF Queens
<1>4. queens = Queens(r)
  BY <1>2, <1>3
<1>5. r \in [Lines -> Lines]
  BY <1>1
<1> QED
  BY <1>4, <1>5 DEF Solutions

\* A solution of the given board, as a row for every column.
LEMMA SolutionRows ==
  ASSUME NEW solution \in Solutions, ori_board \subseteq solution
  PROVE  \E rows : Solves(rows)
BY DEF Solutions, Solves

-----------------------------------------------------------------------------
(* Counting *)

LEMMA PlacedFinite ==
  ASSUME NEW marks, NEW c \in Int
  PROVE  IsFiniteSet(Placed(marks, c)) /\ Cardinality(Placed(marks, c)) \in Nat
<1>1. IsFiniteSet(0..c)
  BY FS_Interval
<1>2. IsFiniteSet(Placed(marks, c))
  BY <1>1, FS_Subset, Placed(marks, c) \in SUBSET (0..c) DEF Placed
<1> QED
  BY <1>2, FS_CardinalityType

\* The step from one column to the next.
LEMMA PlacedStep ==
  ASSUME NEW marks, NEW c \in Nat
  PROVE  Cardinality(Placed(marks, c)) =
           Cardinality(Placed(marks, c - 1)) + (IF marks[c] = "placed" THEN 1 ELSE 0)
<1>1. c \notin Placed(marks, c - 1)
  BY DEF Placed
<1>2. Placed(marks, c) =
        IF marks[c] = "placed" THEN Placed(marks, c - 1) \cup {c} ELSE Placed(marks, c - 1)
  BY DEF Placed
<1>3. IsFiniteSet(Placed(marks, c - 1)) /\ Cardinality(Placed(marks, c - 1)) \in Nat
  BY PlacedFinite
<1>4. Cardinality(Placed(marks, c - 1) \cup {c}) = Cardinality(Placed(marks, c - 1)) + 1
  BY <1>1, <1>3, FS_AddElement
<1> QED
  BY <1>2, <1>3, <1>4

\* The given queens stand in columns of their own.
LEMMA GivenColumns ==
  ASSUME NEW p \in Premises
  PROVE  /\ IsFiniteSet({s[2] : s \in p})
         /\ Cardinality({s[2] : s \in p}) \in Nat
         /\ Cardinality({s[2] : s \in p}) >= GivenQueens
<1> DEFINE G == {s[2] : s \in p}
           f == [s \in p |-> s[2]]
<1>1. p \subseteq Squares /\ Peaceful(p) /\ Cardinality(p) >= GivenQueens
  BY QueensAssumption
<1>2. G \subseteq Lines
  BY <1>1, SquareParts
<1>3. IsFiniteSet(G) /\ Cardinality(G) \in Nat
  <2>1. IsFiniteSet(Lines)
    BY FS_Interval, LineNumbers DEF Lines
  <2> QED
    BY <2>1, <1>2, FS_Subset, FS_CardinalityType
<1>4. f \in Injection(p, G)
  <2>1. f \in [p -> G]
    OBVIOUS
  <2>2. ASSUME NEW s \in p, NEW t \in p, f[s] = f[t] PROVE s = t
    BY <2>2, <1>1, OneInColumn
  <2> QED
    BY <2>1, <2>2 DEF Injection, IsInjective
<1>5. IsFiniteSet(p) /\ Cardinality(p) <= Cardinality(G)
  BY <1>3, <1>4, FS_Injection
<1>6. Cardinality(p) \in Nat
  BY <1>5, FS_CardinalityType
<1> QED
  BY <1>1, <1>3, <1>5, <1>6 DEF GivenQueens

\* When a call's count comes to N, every column has a queen.
LEMMA CountFull ==
  ASSUME Inv, NEW c \in Waiting, Searching, cnt[c] = N
  PROVE  \A d \in Lines : \E s \in board : s[2] = d
<1> DEFINE G == {s[2] : s \in ori_board}
           P == Placed(call, c)
<1>1. /\ c \in Lines /\ Waiting \subseteq Lines /\ 0..c \subseteq Waiting
      /\ N \in Nat /\ c \in Int
  <2>1. col \in 0..N /\ (pc = "return" => col < N) /\ N \in Nat
    BY LineNumbers DEF Inv, TypeOK, SearchInv, Searching
  <2>2. CASE pc = "return"
    BY <2>1, <2>2 DEF Waiting, Lines
  <2>3. CASE pc # "return"
    BY <2>1, <2>3 DEF Waiting, Lines
  <2> QED
    BY <2>2, <2>3
<1>2. /\ board = ori_board \cup Path(row, Waiting) /\ Peaceful(board)
      /\ \A d \in Waiting : call[d] = "given" <=> <<row[d], d>> \in ori_board
      /\ cnt[c] = GivenQueens + Cardinality(P)
  BY DEF Inv, SearchInv, BoardInv, CountInv
<1>3. /\ IsFiniteSet(G) /\ Cardinality(G) \in Nat
      /\ Cardinality(G) >= GivenQueens
  BY GivenColumns DEF Inv
<1>4. IsFiniteSet(P) /\ Cardinality(P) \in Nat
  BY <1>1, PlacedFinite
<1>5. G \cap P = {}
  <2> SUFFICES ASSUME NEW d \in P, NEW s \in ori_board, s[2] = d PROVE FALSE
    OBVIOUS
  <2>1. d \in Waiting /\ call[d] = "placed"
    BY <1>1 DEF Placed
  <2>2. <<row[d], d>> \in board /\ <<row[d], d>> \notin ori_board
    BY <2>1, <1>2 DEF Path
  <2>3. s = <<row[d], d>>
    BY <2>2, <1>2, OneInColumn
  <2> QED
    BY <2>2, <2>3
<1>6. G \cup P \in SUBSET Lines
  <2>1. P \subseteq Lines
    BY <1>1 DEF Placed
  <2>2. ori_board \subseteq Squares
    BY QueensAssumption DEF Inv
  <2> QED
    BY <2>1, <2>2, SquareParts
<1>7. Cardinality(G \cup P) = Cardinality(G) + Cardinality(P)
  <2>1. Cardinality(G \cup P) = Cardinality(G) + Cardinality(P) - Cardinality(G \cap P)
    BY <1>3, <1>4, FS_Union
  <2>2. Cardinality(G \cap P) = 0
    BY <1>5, FS_EmptySet
  <2> QED
    BY <1>3, <1>4, <2>1, <2>2
<1>8. IsFiniteSet(Lines) /\ Cardinality(Lines) = N
  BY FS_Interval, LineNumbers DEF Lines
<1>9. Cardinality(G \cup P) >= N
  BY <1>2, <1>3, <1>4, <1>7, cnt[c] = N DEF GivenQueens
<1>10. G \cup P = Lines
  <2>1. Cardinality(G \cup P) <= N /\ (Cardinality(Lines) = Cardinality(G \cup P) => Lines = G \cup P)
    BY <1>6, <1>8, FS_Subset
  <2>2. Cardinality(G \cup P) \in Nat
    BY <1>3, <1>4, <1>7
  <2> QED
    BY <1>1, <1>8, <1>9, <2>1, <2>2
<1>11. \A d \in P : <<row[d], d>> \in board
  BY <1>1, <1>2 DEF Placed, Path
<1> QED
  BY <1>2, <1>10, <1>11

-----------------------------------------------------------------------------
(* The search *)

LEMMA InitInv == Init => Inv
<1> SUFFICES ASSUME Init PROVE Inv
  OBVIOUS
<1>1. TypeOK /\ ori_board \in Premises
  BY QueensAssumption, LineNumbers DEF Init, TypeOK, GivenQueens
<1>2. Waiting = {} /\ Path(row, Waiting) = {}
  BY DEF Init, Waiting, Path
<1>3. BoardInv
  BY <1>2, QueensAssumption DEF Init, BoardInv
<1>4. Placed(call, col - 1) = {}
  BY DEF Init, Placed
<1>5. CountInv
  <2>1. cnt[0] = GivenQueens /\ col = 0
    BY LineNumbers DEF Init
  <2> QED
    BY <1>2, <1>4, <2>1, FS_EmptySet DEF CountInv, GivenQueens
<1>6. TriedInv
  BY LineNumbers DEF Init, TriedInv, Solves, Lines
<1> QED
  BY <1>1, <1>3, <1>5, <1>6 DEF Init, Inv, SearchInv, EndInv, Ended, Searching

\* The step to the next column, from a square that now has a queen.
Descend(from, count) ==
  /\ InRows
  /\ from \in {"given", "placed"}
  /\ from = "given" <=> Here \in ori_board
  /\ count = cnt[col] + (IF from = "placed" THEN 1 ELSE 0)
  /\ Call(from, count)
  /\ board' = board \cup {Here}
  /\ Peaceful(board')
  /\ UNCHANGED <<ori_board, pc, found, sent>>

LEMMA DescendInv ==
  ASSUME Inv, NEW from, NEW count, Descend(from, count)
  PROVE  Inv'
<1>0. /\ row \in [0..N -> 0..N]
      /\ cnt \in [0..N -> Nat]
      /\ call \in [0..N -> {"none", "given", "placed"}]
      /\ col \in 0..N
      /\ N \in Nat
  BY LineNumbers DEF Inv, TypeOK
<1>1. /\ pc = "search" /\ Searching
      /\ col \in Nat /\ col \in Lines /\ col + 1 \in 0..N /\ col \in 0..N
      /\ row[col] \in Lines
  BY <1>0 DEF Descend, InRows, Searching, Lines
<1>u. /\ ori_board' = ori_board /\ pc' = pc /\ found' = found /\ sent' = sent
      /\ board' = board \cup {Here} /\ Peaceful(board')
      /\ col' = col + 1
  BY DEF Descend, Call
<1>f. /\ from \in {"given", "placed"}
      /\ from = "given" <=> Here \in ori_board
  BY DEF Descend
<1>2. Waiting = 0..(col - 1) /\ Waiting' = 0..col
  BY <1>0, <1>1, <1>u DEF Waiting
<1>3. /\ row' \in [0..N -> 0..N]
      /\ \A c \in 0..col : row'[c] = row[c]
      /\ row'[col + 1] = 0
  <2>1. row' = [row EXCEPT ![col + 1] = 0]
    BY DEF Descend, Call
  <2>2. row \in [0..N -> 0..N] /\ col + 1 \in 0..N /\ col \in Nat /\ N \in Nat
    BY <1>0, <1>1
  <2> QED
    BY <2>1, <2>2
<1>4. /\ call' \in [0..N -> {"none", "given", "placed"}]
      /\ \A c \in 0..(col - 1) : call'[c] = call[c]
      /\ call'[col] = from
  <2>1. call' = [call EXCEPT ![col] = from]
    BY DEF Descend, Call
  <2>2. call \in [0..N -> {"none", "given", "placed"}] /\ col \in 0..N /\ N \in Nat
    BY <1>0
  <2>3. from \in {"none", "given", "placed"}
    BY <1>f
  <2> QED
    BY <2>1, <2>2, <2>3
<1>5. /\ cnt' \in [0..N -> Nat]
      /\ \A c \in 0..(col - 1) : cnt'[c] = cnt[c]
      /\ cnt'[col] = count /\ cnt'[col + 1] = count
  <2>1. cnt' = [cnt EXCEPT ![col] = count, ![col + 1] = count]
    BY DEF Descend, Call
  <2>2. /\ cnt \in [0..N -> Nat] /\ col \in 0..N /\ col + 1 \in 0..N
        /\ N \in Nat /\ col \in Nat
    BY <1>0, <1>1
  <2>3. cnt[col] \in Nat
    BY <2>2
  <2>4. count = cnt[col] + (IF from = "placed" THEN 1 ELSE 0)
    BY DEF Descend
  <2>5. count \in Nat
    BY <2>3, <2>4
  <2> QED
    BY <2>1, <2>2, <2>5
<1>6. TypeOK' /\ ori_board' \in Premises
  <2>1. Here \in Squares
    BY <1>1, <1>u DEF Here, Squares
  <2>2. col' \in 0..N
    BY <1>1, <1>u
  <2>3. TypeOK /\ ori_board \in Premises
    BY DEF Inv
  <2> QED
    BY <2>1, <2>2, <2>3, <1>u, <1>3, <1>4, <1>5 DEF TypeOK
<1>7. BoardInv'
  <2>1. Path(row', 0..col) = Path(row, 0..(col - 1)) \cup {Here}
    <3>1. 0..col = (0..(col - 1)) \cup {col}
      BY <1>1, <1>u
    <3> QED
      BY <3>1, <1>1, <1>u, <1>3 DEF Path, Here
  <2>2. BoardInv
    BY <1>1, <1>u DEF Inv, SearchInv
  <2>3. board' = ori_board' \cup Path(row', Waiting')
    BY <2>1, <2>2, <1>2, <1>u DEF BoardInv
  <2>4. ASSUME NEW c \in 0..col
        PROVE  /\ row'[c] < N
               /\ call'[c] \in {"given", "placed"}
               /\ call'[c] = "given" <=> <<row'[c], c>> \in ori_board'
    <3>1. CASE c = col
      <4>1. row'[c] = row[col] /\ call'[c] = from
        BY <3>1, <1>1, <1>3, <1>4
      <4>2. row[col] < N
        BY <1>0, <1>1 DEF Lines
      <4>3. <<row'[c], c>> = Here
        BY <3>1, <4>1 DEF Here
      <4> QED
        BY <4>1, <4>2, <4>3, <1>f, <1>u
    <3>2. CASE c \in 0..(col - 1)
      <4>1. row'[c] = row[c] /\ call'[c] = call[c]
        BY <3>2, <1>1, <1>3, <1>4
      <4> QED
        BY <3>2, <4>1, <2>2, <1>2, <1>u DEF BoardInv
    <3> QED
      BY <3>1, <3>2, <1>1, <1>u
  <2> QED
    BY <2>3, <2>4, <1>2, <1>u DEF BoardInv
<1>8. CountInv'
  <2>1. \A c \in -1..(col - 1) : Placed(call', c) = Placed(call, c)
    BY <1>4, <1>1, <1>u DEF Placed
  <2>2. Cardinality(Placed(call', col)) =
          Cardinality(Placed(call, col - 1)) + (IF from = "placed" THEN 1 ELSE 0)
    <3>1. Cardinality(Placed(call', col)) =
            Cardinality(Placed(call', col - 1)) + (IF call'[col] = "placed" THEN 1 ELSE 0)
      BY <1>1, PlacedStep
    <3>2. Placed(call', col - 1) = Placed(call, col - 1)
      BY <2>1, <1>1
    <3> QED
      BY <3>1, <3>2, <1>4
  <2>3. CountInv
    BY <1>1, <1>u DEF Inv, SearchInv
  <2>4. count = GivenQueens + Cardinality(Placed(call', col))
    <3>1. cnt[col] = GivenQueens + Cardinality(Placed(call, col - 1))
      BY <2>3, <1>1 DEF CountInv
    <3>2. Cardinality(Placed(call, col - 1)) \in Nat
      BY <1>1, PlacedFinite
    <3>3. count = cnt[col] + (IF from = "placed" THEN 1 ELSE 0)
      BY DEF Descend
    <3> QED
      BY <2>2, <3>1, <3>2, <3>3 DEF GivenQueens
  <2>5. \A c \in 0..(col - 1) :
          cnt'[c] = GivenQueens + Cardinality(Placed(call', c))
    BY <2>1, <2>3, <1>1, <1>u, <1>2, <1>5 DEF CountInv
  <2>6. col' - 1 = col /\ col' = col + 1
    BY <1>1, <1>u
  <2> QED
    BY <2>4, <2>5, <2>6, <1>1, <1>u, <1>2, <1>5 DEF CountInv
<1>9. TriedInv'
  <2> SUFFICES ASSUME NEW rows, Solves(rows)',
                      NEW k \in (0..(col + 1)) \cap Lines,
                      Agrees(rows, 0..(k - 1))'
               PROVE  rows[k] >= row'[k]
    BY <1>1, <1>u DEF TriedInv
  <2>1. Solves(rows) /\ rows[k] \in Nat
    BY LineNumbers, <1>u DEF Solves
  <2>2. CASE k = col + 1
    BY <2>1, <2>2, <1>3
  <2>3. CASE k \in 0..col
    <3>1. Agrees(rows, 0..(k - 1))
      BY <2>3, <1>1, <1>u, <1>3 DEF Agrees
    <3> QED
      BY <2>1, <2>3, <3>1, <1>1, <1>u, <1>3 DEF Inv, SearchInv, TriedInv
  <2> QED
    BY <2>2, <2>3, <1>1, <1>u
<1> QED
  BY <1>1, <1>u, <1>6, <1>7, <1>8, <1>9
  DEF Inv, SearchInv, EndInv, Ended, Searching

\* What holds in a call whose column still has rows to try.
LEMMA InRowsFacts ==
  ASSUME Inv, pc = "search", col < N
  PROVE  /\ Searching /\ BoardInv /\ CountInv /\ TriedInv /\ sent = {}
         /\ Waiting = 0..(col - 1) /\ Waiting \subseteq Lines
         /\ col \in Nat /\ col \in Lines /\ N \in Nat
         /\ row[col] \in 0..N
<1>1. TypeOK /\ N \in Nat
  BY LineNumbers DEF Inv
<1>2. col \in 0..N /\ col \in Nat
  BY <1>1 DEF TypeOK
<1>3. Searching
  BY DEF Searching
<1> QED
  BY <1>1, <1>2, <1>3 DEF Inv, SearchInv, Waiting, Lines, TypeOK

\* The queen of a call's square is not on the path to its column.
LEMMA HereOffPath ==
  ASSUME col \in Nat
  PROVE  Here \notin Path(row, 0..(col - 1))
<1> SUFFICES ASSUME NEW c \in 0..(col - 1), Here = <<row[c], c>> PROVE FALSE
  BY DEF Path
<1>1. col = c
  BY DEF Here
<1> QED
  BY <1>1

LEMMA GivenInv == Inv /\ Given /\ UNCHANGED <<ori_board, sent>> => Inv'
<1> SUFFICES ASSUME Inv, Given, UNCHANGED <<ori_board, sent>> PROVE Inv'
  OBVIOUS
<1>1. InRows /\ Here \in board /\ board' = board
  BY DEF Given
<1>2. BoardInv /\ Waiting = 0..(col - 1) /\ col \in Nat
  BY <1>1, InRowsFacts DEF InRows
<1>3. Here \in ori_board
  BY <1>1, <1>2, HereOffPath DEF BoardInv
<1>4. Peaceful(board')
  BY <1>1, <1>2 DEF BoardInv
<1>5. cnt[col] \in Nat
  BY <1>1 DEF Inv, TypeOK
<1>6. Descend("given", cnt[col])
  BY <1>1, <1>3, <1>4, <1>5 DEF Given, Descend
<1> QED
  BY <1>6, DescendInv

LEMMA PlaceInv == Inv /\ Place /\ UNCHANGED <<ori_board, sent>> => Inv'
<1> SUFFICES ASSUME Inv, Place, UNCHANGED <<ori_board, sent>> PROVE Inv'
  OBVIOUS
<1>1. InRows /\ isSafe(Here) /\ board' = board \cup {Here}
  BY DEF Place
<1>2. BoardInv
  BY <1>1, InRowsFacts DEF InRows
<1>3. Here \notin ori_board
  <2>1. Attacks(Here, Here)
    BY DEF Attacks
  <2> QED
    BY <1>1, <1>2, <2>1 DEF isSafe, BoardInv
<1>4. Peaceful(board')
  <2> SUFFICES ASSUME NEW s \in board', NEW t \in board', s # t, Attacks(s, t)
               PROVE  FALSE
    BY DEF Peaceful
  <2>1. CASE s \in board /\ t \in board
    BY <2>1, <1>2 DEF BoardInv, Peaceful
  <2>2. CASE s = Here /\ t \in board
    BY <2>2, <1>1 DEF isSafe
  <2>3. CASE s \in board /\ t = Here
    BY <2>3, <1>1, AttacksSymmetric DEF isSafe
  <2> QED
    BY <1>1, <2>1, <2>2, <2>3
<1>5. Descend("placed", cnt[col] + 1)
  BY <1>1, <1>3, <1>4 DEF Place, Descend
<1> QED
  BY <1>5, DescendInv

\* A solution that follows the path holds every queen of the board.
LEMMA BoardWithin ==
  ASSUME BoardInv, Waiting \subseteq Lines,
         NEW rows, Solves(rows), Agrees(rows, Waiting)
  PROVE  board \subseteq Queens(rows)
<1>1. Path(row, Waiting) \subseteq Queens(rows)
  <2> SUFFICES ASSUME NEW c \in Waiting PROVE <<row[c], c>> \in Queens(rows)
    BY DEF Path
  <2>1. rows[c] = row[c] /\ c \in Lines
    BY DEF Agrees
  <2> QED
    BY <2>1 DEF Queens
<1> QED
  BY <1>1 DEF BoardInv, Solves

LEMMA NextRowFacts ==
  ASSUME TypeOK, NextRow, row[col] < N
  PROVE  /\ row' \in [0..N -> 0..N]
         /\ \A c \in 0..(col - 1) : row'[c] = row[c]
         /\ row'[col] = row[col] + 1
<1>1. row' = [row EXCEPT ![col] = @ + 1]
  BY DEF NextRow
<1>2. N \in Nat /\ col \in 0..N /\ row[col] \in 0..N
  BY LineNumbers DEF TypeOK
<1>3. row[col] + 1 \in 0..N
  BY <1>2
<1>4. row \in [0..N -> 0..N]
  BY DEF TypeOK
<1>5. row' \in [0..N -> 0..N] /\ row'[col] = row[col] + 1
  BY <1>1, <1>2, <1>3, <1>4
<1>6. ASSUME NEW c \in 0..(col - 1) PROVE row'[c] = row[c]
  <2>1. c \in 0..N /\ c # col
    BY <1>2
  <2> QED
    BY <2>1, <1>1, <1>4
<1> QED
  BY <1>5, <1>6

\* The next row: no solution follows the path with the row that was tried.
LEMMA NextTried ==
  ASSUME TriedInv, NextRow, pc' = "search",
         UNCHANGED <<ori_board, col>>,
         TypeOK, col \in Lines, row[col] < N,
         \A rows : Solves(rows) => ~Agrees(rows, 0..col)
  PROVE  TriedInv'
<1>1. col \in 0..N /\ row[col] \in Nat /\ col \in Nat
  BY LineNumbers DEF Lines, TypeOK
<1>2. /\ \A c \in 0..(col - 1) : row'[c] = row[c]
      /\ row'[col] = row[col] + 1
  BY <1>1, NextRowFacts
<1>3. ori_board' = ori_board /\ col' = col
  OBVIOUS
<1> SUFFICES ASSUME NEW rows, Solves(rows)',
                    NEW k \in (0..col) \cap Lines,
                    Agrees(rows, 0..(k - 1))'
             PROVE  rows[k] >= row'[k]
  BY <1>3 DEF TriedInv
<1>4. Solves(rows) /\ rows[k] \in Nat
  BY LineNumbers, <1>3 DEF Solves
<1>5. Agrees(rows, 0..(k - 1))
  BY <1>1, <1>2 DEF Agrees
<1>6. rows[k] >= row[k]
  BY <1>4, <1>5 DEF TriedInv
<1>7. CASE k = col
  <2>1. rows[col] # row[col]
    <3> SUFFICES ASSUME rows[col] = row[col] PROVE FALSE
      OBVIOUS
    <3>1. Agrees(rows, 0..col)
      BY <1>1, <1>5, <1>7 DEF Agrees
    <3> QED
      BY <1>4, <3>1
  <2>2. row'[k] = row[k] + 1 /\ row[k] \in Nat /\ rows[k] # row[k]
    BY <2>1, <1>1, <1>2, <1>7
  <2>3. rows[k] \in Nat
    BY <1>4
  <2> QED
    BY <2>2, <2>3, <1>6
<1>8. CASE k # col
  <2>1. row'[k] = row[k]
    BY <1>8, <1>1, <1>2
  <2> QED
    BY <2>1, <1>6
<1> QED
  BY <1>7, <1>8

\* The parts of the invariant while the search goes on.
LEMMA SearchingInv ==
  ASSUME TypeOK', ori_board' \in Premises, pc' \in {"search", "return"},
         BoardInv', CountInv', TriedInv', pc' = "return" => col' < N, sent' = {}
  PROVE  Inv'
BY DEF Inv, SearchInv, EndInv, Ended

LEMMA SkipInv == Inv /\ Skip /\ UNCHANGED <<ori_board, sent>> => Inv'
<1> SUFFICES ASSUME Inv, Skip, UNCHANGED <<ori_board, sent>> PROVE Inv'
  OBVIOUS
<1>1. /\ pc = "search" /\ col < N /\ row[col] < N
      /\ Here \notin board /\ ~isSafe(Here) /\ NextRow
      /\ board' = board /\ col' = col /\ cnt' = cnt /\ call' = call
      /\ pc' = pc /\ found' = found /\ ori_board' = ori_board /\ sent' = sent
  BY DEF Skip, InRows
<1>2. /\ BoardInv /\ CountInv /\ TriedInv /\ sent = {}
      /\ Waiting = 0..(col - 1) /\ Waiting \subseteq Lines
      /\ col \in Nat /\ col \in Lines /\ N \in Nat /\ row[col] \in 0..N
  BY <1>1, InRowsFacts
<1>3. TypeOK /\ row \in [0..N -> 0..N] /\ ori_board \in Premises /\ col \in 0..N
  BY DEF Inv, TypeOK
<1>4. row' \in [0..N -> 0..N] /\ \A c \in 0..(col - 1) : row'[c] = row[c]
  BY <1>1, <1>2, <1>3, NextRowFacts
<1>5. TypeOK'
  BY <1>1, <1>3, <1>4 DEF TypeOK
<1>6. Waiting' = Waiting
  BY <1>1, <1>2 DEF Waiting
<1>7. BoardInv'
  <2>1. Path(row', Waiting') = Path(row, Waiting)
    BY <1>2, <1>4, <1>6 DEF Path
  <2> QED
    BY <2>1, <1>1, <1>2, <1>4, <1>6 DEF BoardInv
<1>8. CountInv'
  BY <1>1, <1>2, <1>6 DEF CountInv
<1>9. \A rows : Solves(rows) => ~Agrees(rows, 0..col)
  <2> SUFFICES ASSUME NEW rows, Solves(rows), Agrees(rows, 0..col) PROVE FALSE
    OBVIOUS
  <2>1. Agrees(rows, Waiting) /\ rows[col] = row[col]
    BY <1>2 DEF Agrees
  <2>2. board \subseteq Queens(rows)
    BY <2>1, <1>2, BoardWithin
  <2>3. Here \in Queens(rows)
    BY <2>1, <1>2 DEF Here, Queens
  <2>4. PICK queen \in board : Attacks(Here, queen)
    BY <1>1 DEF isSafe
  <2>5. queen # Here
    BY <1>1, <2>4
  <2> QED
    BY <2>2, <2>3, <2>4, <2>5 DEF Solves, Peaceful
<1>10. TriedInv'
  BY <1>1, <1>2, <1>3, <1>9, NextTried
<1> QED
  BY <1>1, <1>2, <1>3, <1>5, <1>7, <1>8, <1>10, SearchingInv

\* The search ends with 1: the board is complete.
LEMMA FoundInv ==
  ASSUME Inv, Searching, Return(1), UNCHANGED <<ori_board, sent>>,
         \A d \in Lines : \E s \in board : s[2] = d
  PROVE  Inv'
<1>1. /\ found' = 1 /\ pc' = "send" /\ board' = board /\ col' = col /\ row' = row
      /\ cnt' = cnt /\ call' = call /\ ori_board' = ori_board /\ sent' = sent
  BY DEF Return, searchVars
<1>2. TypeOK /\ ori_board \in Premises /\ BoardInv /\ sent = {}
  BY DEF Inv, SearchInv
<1>3. board \in Solutions
  <2>1. board \in SUBSET Squares /\ Peaceful(board)
    BY <1>2 DEF TypeOK, BoardInv
  <2> QED
    BY <2>1, FullBoard
<1>4. ori_board \subseteq board
  BY <1>2 DEF BoardInv
<1>5. TypeOK'
  BY <1>1, <1>2 DEF TypeOK
<1>6. SearchRight'
  BY <1>1, <1>3, <1>4 DEF SearchRight
<1> QED
  BY <1>1, <1>2, <1>4, <1>5, <1>6 DEF Inv, SearchInv, Searching, EndInv

LEMMA FullInv == Inv /\ Full /\ UNCHANGED <<ori_board, sent>> => Inv'
<1> SUFFICES ASSUME Inv, Full, UNCHANGED <<ori_board, sent>> PROVE Inv'
  OBVIOUS
<1>1. pc = "search" /\ col >= N /\ Return(1)
  BY DEF Full
<1>2. Searching /\ BoardInv /\ TypeOK
  BY <1>1 DEF Searching, Inv, SearchInv
<1>3. Waiting = Lines
  <2>1. col \in 0..N /\ N \in Nat
    BY <1>2, LineNumbers DEF TypeOK
  <2> QED
    BY <2>1, <1>1 DEF Waiting, Lines
<1>4. \A d \in Lines : \E s \in board : s[2] = d
  <2> SUFFICES ASSUME NEW d \in Lines PROVE \E s \in board : s[2] = d
    OBVIOUS
  <2>1. <<row[d], d>> \in board
    BY <1>2, <1>3 DEF BoardInv, Path
  <2> QED
    BY <2>1
<1> QED
  BY <1>1, <1>2, <1>4, FoundInv

LEMMA ExhaustedInv == Inv /\ Exhausted /\ UNCHANGED <<ori_board, sent>> => Inv'
<1> SUFFICES ASSUME Inv, Exhausted, UNCHANGED <<ori_board, sent>> PROVE Inv'
  OBVIOUS
<1>1. pc = "search" /\ col < N /\ ~(row[col] < N)
  BY DEF Exhausted, InRows
<1>2. /\ BoardInv /\ CountInv /\ TriedInv /\ sent = {}
      /\ Waiting = 0..(col - 1)
      /\ col \in Nat /\ col \in Lines /\ N \in Nat /\ row[col] \in 0..N
  BY <1>1, InRowsFacts
<1>3. TypeOK /\ ori_board \in Premises
  BY DEF Inv
<1>4. \A rows : Solves(rows) => ~Agrees(rows, 0..(col - 1))
  <2> SUFFICES ASSUME NEW rows, Solves(rows), Agrees(rows, 0..(col - 1)) PROVE FALSE
    OBVIOUS
  <2>1. col \in (0..col) \cap Lines
    BY <1>2
  <2>2. rows[col] >= row[col]
    BY <1>2, <2>1 DEF TriedInv
  <2>3. rows[col] \in 0..(N - 1)
    BY <1>2 DEF Solves, Lines
  <2> QED
    BY <1>1, <1>2, <2>2, <2>3
<1>5. CASE col = 0
  <2>1. /\ found' = 0 /\ pc' = "send" /\ board' = board /\ col' = col /\ row' = row
        /\ cnt' = cnt /\ call' = call /\ ori_board' = ori_board /\ sent' = sent
    BY <1>5 DEF Exhausted, Return, searchVars
  <2>2. board = ori_board
    <3>1. Waiting = {}
      BY <1>2, <1>5
    <3> QED
      BY <3>1, <1>2 DEF BoardInv, Path
  <2>3. ~Solvable
    <3> SUFFICES ASSUME NEW solution \in Solutions, ori_board \subseteq solution
                 PROVE  FALSE
      BY DEF Solvable
    <3>1. PICK rows : Solves(rows)
      BY SolutionRows
    <3>2. Agrees(rows, 0..(col - 1))
      BY <1>5 DEF Agrees
    <3> QED
      BY <3>1, <3>2, <1>4
  <2>4. TypeOK'
    BY <2>1, <1>3 DEF TypeOK
  <2>5. SearchRight'
    BY <2>1, <2>2, <2>3 DEF SearchRight, Solvable
  <2> QED
    BY <2>1, <2>2, <2>4, <2>5, <1>2, <1>3 DEF Inv, SearchInv, Searching, EndInv
<1>6. CASE col # 0
  <2>1. /\ pc' = "return" /\ col' = col - 1 /\ board' = board /\ row' = row
        /\ cnt' = cnt /\ call' = call /\ found' = found
        /\ ori_board' = ori_board /\ sent' = sent
    BY <1>6 DEF Exhausted
  <2>2. Waiting' = Waiting
    BY <2>1, <1>2 DEF Waiting
  <2>3. col' \in 0..N /\ col' < N
    BY <2>1, <1>1, <1>2, <1>6
  <2>4. TypeOK'
    BY <2>1, <2>3, <1>3 DEF TypeOK
  <2>5. BoardInv'
    BY <2>1, <2>2, <1>2 DEF BoardInv
  <2>6. CountInv'
    BY <2>1, <2>2, <1>2 DEF CountInv
  <2>7. TriedInv'
    <3> SUFFICES ASSUME NEW rows, Solves(rows)'
                 PROVE  /\ \A k \in (0..(col - 1)) \cap Lines :
                             (\A c \in 0..(k - 1) : rows[c] = row'[c])
                               => rows[k] >= row'[k]
                        /\ ~\A c \in 0..(col - 1) : rows[c] = row'[c]
      BY <2>1 DEF TriedInv, Agrees
    <3>1. Solves(rows)
      BY <2>1 DEF Solves
    <3>3. ASSUME \A c \in 0..(col - 1) : rows[c] = row'[c] PROVE FALSE
      <4>1. Agrees(rows, 0..(col - 1))
        BY <3>3, <2>1 DEF Agrees
      <4> QED
        BY <4>1, <3>1, <1>4
    <3>4. ASSUME NEW k \in (0..(col - 1)) \cap Lines,
                 \A c \in 0..(k - 1) : rows[c] = row'[c]
          PROVE  rows[k] >= row'[k]
      <4>1. Agrees(rows, 0..(k - 1))
        BY <3>4, <2>1 DEF Agrees
      <4>2. k \in (0..col) \cap Lines
        BY <1>2
      <4> QED
        BY <4>1, <4>2, <3>1, <2>1, <1>2 DEF TriedInv
    <3> QED
      BY <3>3, <3>4
  <2> QED
    BY <2>1, <2>3, <2>4, <2>5, <2>6, <2>7, <1>2, <1>3, SearchingInv
<1> QED
  BY <1>5, <1>6

\* The call's own queen: what the board was without it.
LEMMA ResumeBoard ==
  ASSUME Inv, pc = "return"
  PROVE  (IF call[col] = "placed" THEN Removed ELSE board)
           = ori_board \cup Path(row, 0..(col - 1))
<1>1. /\ BoardInv /\ Waiting = 0..col /\ col \in Nat
  BY LineNumbers DEF Inv, TypeOK, SearchInv, Searching, Waiting
<1>2. 0..col = (0..(col - 1)) \cup {col} /\ col \in 0..col
  BY <1>1
<1>3. board = ori_board \cup Path(row, 0..(col - 1)) \cup {Here}
  BY <1>1, <1>2 DEF BoardInv, Path, Here
<1>4. call[col] \in {"given", "placed"} /\ (call[col] = "given" <=> Here \in ori_board)
  BY <1>1, <1>2 DEF BoardInv, Here
<1>5. Here \notin Path(row, 0..(col - 1))
  BY <1>1, HereOffPath
<1>6. CASE call[col] = "placed"
  <2>1. Here \notin ori_board
    BY <1>4, <1>6
  <2> QED
    BY <1>3, <1>5, <1>6, <2>1 DEF Removed
<1>7. CASE call[col] = "given"
  BY <1>3, <1>4, <1>7
<1> QED
  BY <1>4, <1>6, <1>7

LEMMA ResumeInv == Inv /\ Resume /\ UNCHANGED <<ori_board, sent>> => Inv'
<1> SUFFICES ASSUME Inv, Resume, UNCHANGED <<ori_board, sent>> PROVE Inv'
  OBVIOUS
<1>1. pc = "return" /\ Searching
  BY DEF Resume, Searching
<1>2. TypeOK /\ ori_board \in Premises /\ col < N /\ sent = {}
  BY <1>1 DEF Inv, SearchInv
<1>3. BoardInv /\ CountInv /\ TriedInv
  BY <1>1 DEF Inv, SearchInv
<1>4. N \in Nat /\ col \in Nat /\ col \in 0..N /\ col \in Lines
  BY <1>2, LineNumbers DEF TypeOK, Lines
<1>5. Waiting = 0..col /\ col \in Waiting
  BY <1>1, <1>4 DEF Waiting
<1>6. CASE cnt[col] = N
  <2>1. Return(1)
    BY <1>6 DEF Resume
  <2>2. \A d \in Lines : \E s \in board : s[2] = d
    BY <1>1, <1>5, <1>6, CountFull
  <2> QED
    BY <2>1, <2>2, <1>1, FoundInv
<1>7. CASE cnt[col] # N
  <2>1. /\ NextRow /\ pc' = "search" /\ col' = col /\ call' = call /\ found' = found
        /\ ori_board' = ori_board /\ sent' = sent
    BY <1>7 DEF Resume
  <2>2. board' = IF call[col] = "placed" THEN Removed ELSE board
    BY <1>7 DEF Resume
  <2>3. cnt' = IF call[col] = "placed" THEN [cnt EXCEPT ![col] = @ - 1] ELSE cnt
    BY <1>7 DEF Resume
  <2>4. Waiting' = 0..(col - 1)
    BY <2>1 DEF Waiting
  <2>5. row[col] < N
    BY <1>3, <1>5 DEF BoardInv
  <2>6. /\ row' \in [0..N -> 0..N]
        /\ \A c \in 0..(col - 1) : row'[c] = row[c]
    BY <2>1, <2>5, <1>2, NextRowFacts
  <2>7. Path(row', 0..(col - 1)) = Path(row, 0..(col - 1))
    BY <2>6 DEF Path
  <2>8. board' = ori_board \cup Path(row, 0..(col - 1))
    BY <2>2, <1>1, ResumeBoard
  <2>9. board' \subseteq board
    BY <2>2 DEF Removed
  <2>10. BoardInv'
    <3>1. board' = ori_board' \cup Path(row', Waiting')
      BY <2>1, <2>4, <2>7, <2>8
    <3>2. Peaceful(board')
      BY <2>9, <1>3 DEF BoardInv, Peaceful
    <3>3. ASSUME NEW c \in 0..(col - 1)
          PROVE  /\ row'[c] < N
                 /\ call'[c] \in {"given", "placed"}
                 /\ call'[c] = "given" <=> <<row'[c], c>> \in ori_board'
      <4>1. c \in Waiting /\ row'[c] = row[c]
        BY <1>4, <1>5, <2>6
      <4> QED
        BY <4>1, <2>1, <1>3 DEF BoardInv
    <3> QED
      BY <3>1, <3>2, <3>3, <2>4 DEF BoardInv
  <2>11. /\ cnt' \in [0..N -> Nat]
         /\ \A c \in 0..(col - 1) : cnt'[c] = cnt[c]
         /\ cnt'[col] = GivenQueens + Cardinality(Placed(call, col - 1))
    <3>1. /\ cnt[col] = GivenQueens + Cardinality(Placed(call, col))
          /\ Cardinality(Placed(call, col)) =
               Cardinality(Placed(call, col - 1)) + (IF call[col] = "placed" THEN 1 ELSE 0)
          /\ Cardinality(Placed(call, col - 1)) \in Nat
      BY <1>3, <1>4, <1>5, PlacedStep, PlacedFinite DEF CountInv
    <3>2. cnt \in [0..N -> Nat]
      BY <1>2 DEF TypeOK
    <3>3. CASE call[col] = "placed"
      <4>1. cnt' = [cnt EXCEPT ![col] = @ - 1]
        BY <2>3, <3>3
      <4>2. cnt[col] - 1 = GivenQueens + Cardinality(Placed(call, col - 1))
        BY <3>1, <3>3 DEF GivenQueens
      <4>3. cnt[col] - 1 \in Nat
        BY <4>2, <3>1 DEF GivenQueens
      <4> QED
        BY <4>1, <4>2, <4>3, <3>2, <1>4
    <3>4. CASE call[col] # "placed"
      <4>1. cnt' = cnt
        BY <2>3, <3>4
      <4> QED
        BY <4>1, <3>1, <3>2, <3>4 DEF GivenQueens
    <3> QED
      BY <3>3, <3>4
  <2>12. CountInv'
    <3>1. \A c \in 0..(col - 1) : cnt[c] = GivenQueens + Cardinality(Placed(call, c))
      BY <1>3, <1>4, <1>5 DEF CountInv
    <3> QED
      BY <3>1, <2>1, <2>4, <2>11 DEF CountInv
  <2>13. TriedInv'
    <3>1. \A rows : Solves(rows) => ~Agrees(rows, 0..col)
      BY <1>1, <1>3 DEF TriedInv
    <3> QED
      BY <3>1, <2>1, <2>5, <1>2, <1>3, <1>4, NextTried
  <2>14. TypeOK'
    <3>1. board' \subseteq Squares
      BY <2>9, <1>2 DEF TypeOK
    <3> QED
      BY <3>1, <2>1, <2>6, <2>11, <1>2 DEF TypeOK
  <2> QED
    BY <2>1, <2>10, <2>12, <2>13, <2>14, <1>2, SearchingInv
<1> QED
  BY <1>6, <1>7

-----------------------------------------------------------------------------
(* The moves *)

LEMMA SendMoveInv == Inv /\ SendMove => Inv'
<1> SUFFICES ASSUME Inv, SendMove PROVE Inv'
  OBVIOUS
<1>1. PICK move \in Moves : sent' = sent \cup {move}
  BY DEF SendMove
<1>2. /\ pc = "send" /\ pc' = pc /\ found' = found /\ ori_board' = ori_board
      /\ board' = board /\ col' = col /\ row' = row /\ cnt' = cnt /\ call' = call
  BY DEF SendMove, searchVars
<1>3. TypeOK /\ ori_board \in Premises
  BY DEF Inv
<1>4. SearchRight /\ ori_board \subseteq board /\ sent \subseteq board \ ori_board
  BY <1>2 DEF Inv, EndInv, Ended
<1>5. move \in board \ ori_board
  BY DEF Moves
<1>6. TypeOK'
  BY <1>1, <1>2, <1>3, <1>5 DEF TypeOK
<1>7. SearchRight'
  BY <1>2, <1>4 DEF SearchRight, Ended, Solvable
<1>8. sent' \subseteq board' \ ori_board'
  BY <1>1, <1>2, <1>4, <1>5
<1> QED
  BY <1>2, <1>3, <1>4, <1>6, <1>7, <1>8 DEF Inv, SearchInv, Searching, EndInv

LEMMA SendCheckInv == Inv /\ SendCheck => Inv'
<1> SUFFICES ASSUME Inv, SendCheck PROVE Inv'
  OBVIOUS
<1>1. /\ pc = "send" /\ pc' = "done" /\ Moves = {} /\ found' = found
      /\ ori_board' = ori_board /\ sent' = sent
      /\ board' = board /\ col' = col /\ row' = row /\ cnt' = cnt /\ call' = call
  BY DEF SendCheck, searchVars
<1>2. TypeOK /\ ori_board \in Premises
  BY DEF Inv
<1>3. SearchRight /\ ori_board \subseteq board /\ sent \subseteq board \ ori_board
  BY <1>1 DEF Inv, EndInv, Ended
<1>4. TypeOK'
  BY <1>1, <1>2 DEF TypeOK
<1>5. SearchRight'
  BY <1>1, <1>3 DEF SearchRight, Ended, Solvable
<1>6. Moves' = {}
  BY <1>1 DEF Moves
<1> QED
  BY <1>1, <1>2, <1>3, <1>4, <1>5, <1>6 DEF Inv, SearchInv, Searching, EndInv

-----------------------------------------------------------------------------
(* Theorems *)

LEMMA NextInv == Inv /\ [Next]_vars => Inv'
<1> SUFFICES ASSUME Inv, [Next]_vars PROVE Inv'
  OBVIOUS
<1>1. CASE Search
  BY <1>1, GivenInv, PlaceInv, SkipInv, FullInv, ExhaustedInv, ResumeInv DEF Search
<1>2. CASE SendMove
  BY <1>2, SendMoveInv
<1>3. CASE SendCheck
  BY <1>3, SendCheckInv
<1>4. CASE UNCHANGED vars
  BY <1>4 DEF vars, searchVars, Inv, TypeOK, SearchInv, BoardInv, CountInv, TriedInv,
     Solves, Agrees, EndInv, SearchRight, Ended, Solvable, Moves, Searching, Waiting
<1> QED
  BY <1>1, <1>2, <1>3, <1>4 DEF Next

LEMMA InvAlways == Spec => []Inv
BY InitInv, NextInv, PTL DEF Spec

\* Every variable has its type: the frames stay within the columns.
THEOREM QueensTypes == Spec => []TypeOK
<1>1. Inv => TypeOK
  BY DEF Inv
<1> QED
  BY <1>1, InvAlways, PTL

\* What the search says is right, on a board of any size: it completes the
\* given board, or it gives up where no solution has the given queens.
THEOREM SearchIsRight == Spec => []SearchRight
<1>1. Inv => SearchRight
  BY DEF Inv, EndInv, SearchRight
<1> QED
  BY <1>1, InvAlways, PTL

\* The moves that were sent before the check complete the given board, none
\* twice and none on a given queen, or there is no solution.
THEOREM CheckedIsRight == Spec => []CheckedBoard
<1>1. Inv => CheckedBoard
  <2> SUFFICES ASSUME Inv, pc = "done"
               PROVE  /\ sent \cap ori_board = {}
                      /\ \/ sent \cup ori_board \in Solutions
                         \/ sent = {} /\ ~Solvable
    BY DEF CheckedBoard
  <2>1. /\ SearchRight /\ Ended /\ ori_board \subseteq board
        /\ sent \subseteq board \ ori_board /\ Moves = {}
    BY DEF Inv, EndInv, Ended
  <2>2. sent \cup ori_board = board
    BY <2>1 DEF Moves
  <2>3. CASE found = 1
    BY <2>1, <2>2, <2>3 DEF SearchRight
  <2>4. CASE found # 1
    BY <2>1, <2>4 DEF SearchRight
  <2> QED
    BY <2>1, <2>3, <2>4
<1> QED
  BY <1>1, InvAlways, PTL
=============================================================================
