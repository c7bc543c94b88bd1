------------------------------ MODULE MazeProofs ------------------------------
(***************************************************************************)
(* Proofs about the maze player, for mazes and windows of any size.        *)
(*                                                                         *)
(* The server's walk is a function defined by recursion on the number of   *)
(* moves; that one more move leads one cell further is shown by a least    *)
(* counterexample.  The invariant is about the stack of run_maze calls:    *)
(* each call was made for the cell beside the one below it, has tried the  *)
(* directions before its i, and a visited cell that is no longer on the    *)
(* stack has been tried in every direction.                                *)
(***************************************************************************)
EXTENDS Maze, SequenceTheorems, WellFoundedInduction, TLAPS

-----------------------------------------------------------------------------
(* Walks *)

\* Of natural numbers one is the least.
LEMMA LeastElement ==
  ASSUME NEW S \in SUBSET Nat, S # {}
  PROVE  \E n \in S : \A k \in S : n <= k
<1>1. PICK n \in S : \A k \in S : ~ (<<k, n>> \in OpToRel(<, Nat))
  BY NatLessThanWellFounded, WFMin
<1>2. \A k \in S : n <= k
  <2> TAKE k \in S
  <2>1. ~(k < n)
    BY <1>1 DEF OpToRel
  <2> QED
    BY <2>1
<1> QED
  BY <1>2

\* f lists the places that the first n moves lead to.
Follows(f, n, m, place, moves) ==
  f = [k \in 0..n |-> IF k = 0 THEN place ELSE Move(m, f[k - 1], moves[k])]

\* There is such a list for any number of moves: else there would be a least
\* number without one, and the list for one move less could be continued.
LEMMA PlacesExist ==
  ASSUME NEW m, NEW place, NEW moves, NEW L \in Nat
  PROVE  \E f : Follows(f, L, m, place, moves)
<1> DEFINE Bad == {n \in Nat : ~ \E f : Follows(f, n, m, place, moves)}
<1>1. ASSUME Bad # {} PROVE FALSE
  <2>1. PICK n \in Bad : \A k \in Bad : n <= k
    BY <1>1, LeastElement
  <2>2. n \in Nat /\ \A f : ~Follows(f, n, m, place, moves)
    BY <2>1
  <2>3. CASE n = 0
    <3> DEFINE f == [k \in 0..n |-> place]
    <3>1. Follows(f, n, m, place, moves)
      BY <2>3 DEF Follows
    <3> QED
      BY <2>2, <3>1
  <2>4. CASE n # 0
    <3>1. n - 1 \in Nat /\ n - 1 \notin Bad
      BY <2>1, <2>2, <2>4
    <3>2. PICK f : Follows(f, n - 1, m, place, moves)
      BY <3>1
    <3> DEFINE g == [k \in 0..n |-> IF k = n THEN Move(m, f[n - 1], moves[n])
                                            ELSE f[k]]
    <3>3. \A k \in 0..n - 1 :
            f[k] = IF k = 0 THEN place ELSE Move(m, f[k - 1], moves[k])
      BY <3>2 DEF Follows
    <3>4. ASSUME NEW k \in 0..n
          PROVE  g[k] = IF k = 0 THEN place ELSE Move(m, g[k - 1], moves[k])
      <4>1. CASE k = n
        <5>1. g[k - 1] = f[n - 1] /\ k # 0
          BY <2>2, <2>4, <4>1
        <5> QED
          BY <4>1, <5>1
      <4>2. CASE k # n
        <5>1. k \in 0..n - 1 /\ (k # 0 => k - 1 \in 0..n /\ k - 1 # n)
          BY <2>2, <4>2
        <5> QED
          BY <3>3, <4>2, <5>1
      <4> QED
        BY <4>1, <4>2
    <3>5. DOMAIN g = 0..n /\ g = [k \in 0..n |-> g[k]]
      OBVIOUS
    <3> HIDE DEF g
    <3>6. Follows(g, n, m, place, moves)
      BY <3>4, <3>5 DEF Follows
    <3> QED
      BY <2>2, <3>6
  <2> QED
    BY <2>3, <2>4
<1> QED
  BY <1>1

LEMMA PlacesDefined ==
  ASSUME NEW m, NEW place, NEW moves, Len(moves) \in Nat
  PROVE  /\ Places(m, place, moves)[0] = place
         /\ \A n \in 1..Len(moves) :
              Places(m, place, moves)[n] =
                Move(m, Places(m, place, moves)[n - 1], moves[n])
<1> DEFINE p == Places(m, place, moves)
           L == Len(moves)
<1>1. \E f : Follows(f, L, m, place, moves)
  BY PlacesExist
<1>2. p = CHOOSE f : Follows(f, L, m, place, moves)
  BY DEF Places, Follows
<1> HIDE DEF p
<1>3. Follows(p, L, m, place, moves)
  BY <1>1, <1>2
<1>4. \A n \in 0..L : p[n] = IF n = 0 THEN place ELSE Move(m, p[n - 1], moves[n])
  BY <1>3 DEF Follows
<1> QED
  BY <1>4 DEF p

\* A walk of no moves leads nowhere.
LEMMA WalkEmpty ==
  ASSUME NEW m, NEW place PROVE Walk(m, place, <<>>) = place
<1>1. Len(<<>>) = 0
  BY EmptySeq
<1> QED
  BY <1>1, PlacesDefined DEF Walk

\* One more move leads one move further: both walks go through the same places
\* until then, or there would be a first place where they differ.
LEMMA WalkAppend ==
  ASSUME NEW m, NEW place, NEW moves \in Seq(Directions), NEW dir \in Directions
  PROVE  Walk(m, place, Append(moves, dir)) = Move(m, Walk(m, place, moves), dir)
<1> DEFINE more == Append(moves, dir)
           L == Len(moves)
           p == Places(m, place, moves)
           q == Places(m, place, more)
<1>1. L \in Nat
  BY LenProperties
<1>2. Len(more) = L + 1 /\ more[L + 1] = dir /\ \A n \in 1..L : more[n] = moves[n]
  BY AppendProperties
<1> HIDE DEF more
<1>3. p[0] = place /\ \A n \in 1..L : p[n] = Move(m, p[n - 1], moves[n])
  BY <1>1, PlacesDefined
<1>4. q[0] = place /\ \A n \in 1..L + 1 : q[n] = Move(m, q[n - 1], more[n])
  BY <1>1, <1>2, PlacesDefined
<1> HIDE DEF p, q
<1> DEFINE Bad == {n \in 0..L : q[n] # p[n]}
<1>5. ASSUME Bad # {} PROVE FALSE
  <2>0. Bad \in SUBSET Nat
    BY <1>1
  <2>1. PICK n \in Bad : \A k \in Bad : n <= k
    <3> HIDE DEF Bad
    <3> QED
      BY <1>5, <2>0, LeastElement
  <2>2. n \in 1..L /\ n - 1 \notin Bad /\ n - 1 \in 0..L
    BY <1>1, <1>3, <1>4, <2>1
  <2>3. q[n - 1] = p[n - 1]
    BY <2>2
  <2>4. q[n] = p[n]
    BY <1>1, <1>2, <1>3, <1>4, <2>2, <2>3
  <2> QED
    BY <2>1, <2>4
<1>6. q[L] = p[L]
  BY <1>1, <1>5
<1>7. q[L + 1] = Move(m, p[L], dir)
  <2>1. L + 1 \in 1..L + 1 /\ L + 1 - 1 = L
    BY <1>1
  <2> QED
    BY <1>2, <1>4, <1>6, <2>1
<1> QED
  BY <1>2, <1>7 DEF Walk, p, q, more

\* A walk stays in a region that no move leads out of: else there would be a
\* first place outside.
LEMMA WalkStays ==
  ASSUME NEW m, NEW region, NEW place \in region, NEW moves \in Seq(Directions),
         \A cell \in region, dir \in Directions :
           Beside(cell, dir) \in m.free => Beside(cell, dir) \in region
  PROVE  Walk(m, place, moves) \in region
<1> DEFINE L == Len(moves)
           p == Places(m, place, moves)
<1>1. L \in Nat /\ \A n \in 1..L : moves[n] \in Directions
  BY LenProperties
<1>2. p[0] = place /\ \A n \in 1..L : p[n] = Move(m, p[n - 1], moves[n])
  BY <1>1, PlacesDefined
<1> HIDE DEF p, L
<1> DEFINE Bad == {n \in 0..L : p[n] \notin region}
<1>3. ASSUME Bad # {} PROVE FALSE
  <2>1. Bad \in SUBSET Nat
    BY <1>1
  <2>2. PICK n \in Bad : \A k \in Bad : n <= k
    <3> HIDE DEF Bad
    <3> QED
      BY <1>3, <2>1, LeastElement
  <2>3. n \in 1..L /\ n - 1 \notin Bad /\ n - 1 \in 0..L
    BY <1>1, <1>2, <2>2
  <2>4. p[n - 1] \in region /\ moves[n] \in Directions
    BY <1>1, <2>3
  <2>5. p[n] \in region
    BY <1>2, <2>3, <2>4 DEF Move
  <2> QED
    BY <2>2, <2>5
<1>4. p[L] \in region
  BY <1>1, <1>3
<1> QED
  BY <1>4 DEF Walk, p, L

-----------------------------------------------------------------------------
(* The grid *)

Marks == {" ", ".", "#", "E"}

Reach == (-RX..RX) \X (-RY..RY)

\* The neighbours of a cell within the walls.
LEMMA BesideIs ==
  ASSUME NEW x \in Int, NEW y \in Int
  PROVE  /\ Beside(<<x, y>>, 0) = <<x, y + 1>>
         /\ Beside(<<x, y>>, 1) = <<x, y - 1>>
         /\ Beside(<<x, y>>, 2) = <<x + 1, y>>
         /\ Beside(<<x, y>>, 3) = <<x - 1, y>>
BY DEF Beside

\* A neighbour lies on the map and in the window around the cell, and the
\* opposite move leads back.
LEMMA BesideProperties ==
  ASSUME NEW cell \in Inner, NEW dir \in Directions
  PROVE  /\ Beside(cell, dir) \in Cells
         /\ Offset(Beside(cell, dir), cell) \in Reach \ {<<0, 0>>}
         /\ Opposite(dir) \in Directions
         /\ Beside(Beside(cell, dir), Opposite(dir)) = cell
<1>1. PICK x \in 2..Rows - 1, y \in 2..Columns - 1 : cell = <<x, y>>
  BY DEF Inner
<1>2. /\ Rows \in Nat /\ Columns \in Nat
      /\ RX \in Nat \ {0} /\ RY \in Nat \ {0}
  BY MazeAssumption
<1>3. /\ x \in Int /\ y \in Int
      /\ {x, x + 1, x - 1} \subseteq 1..Rows
      /\ {y, y + 1, y - 1} \subseteq 1..Columns
      /\ {0, 1, -1} \subseteq -RX..RX
      /\ {0, 1, -1} \subseteq -RY..RY
  BY <1>1, <1>2
<1>4. CASE dir = 0
  <2>1. Beside(cell, dir) = <<x, y + 1>> /\ Opposite(dir) = 1
    BY <1>1, <1>3, <1>4, BesideIs DEF Opposite
  <2>2. Beside(<<x, y + 1>>, 1) = <<x, y>>
    BY <1>3, BesideIs
  <2>3. Offset(<<x, y + 1>>, cell) = <<0, 1>>
    BY <1>1, <1>3 DEF Offset
  <2> QED
    BY <1>1, <1>3, <2>1, <2>2, <2>3 DEF Cells, Reach, Directions
<1>5. CASE dir = 1
  <2>1. Beside(cell, dir) = <<x, y - 1>> /\ Opposite(dir) = 0
    BY <1>1, <1>3, <1>5, BesideIs DEF Opposite
  <2>2. Beside(<<x, y - 1>>, 0) = <<x, y>>
    BY <1>3, BesideIs
  <2>3. Offset(<<x, y - 1>>, cell) = <<0, -1>>
    BY <1>1, <1>3 DEF Offset
  <2> QED
    BY <1>1, <1>3, <2>1, <2>2, <2>3 DEF Cells, Reach, Directions
<1>6. CASE dir = 2
  <2>1. Beside(cell, dir) = <<x + 1, y>> /\ Opposite(dir) = 3
    BY <1>1, <1>3, <1>6, BesideIs DEF Opposite
  <2>2. Beside(<<x + 1, y>>, 3) = <<x, y>>
    BY <1>3, BesideIs
  <2>3. Offset(<<x + 1, y>>, cell) = <<1, 0>>
    BY <1>1, <1>3 DEF Offset
  <2> QED
    BY <1>1, <1>3, <2>1, <2>2, <2>3 DEF Cells, Reach, Directions
<1>7. CASE dir = 3
  <2>1. Beside(cell, dir) = <<x - 1, y>> /\ Opposite(dir) = 2
    BY <1>1, <1>3, <1>7, BesideIs DEF Opposite
  <2>2. Beside(<<x - 1, y>>, 2) = <<x, y>>
    BY <1>3, BesideIs
  <2>3. Offset(<<x - 1, y>>, cell) = <<-1, 0>>
    BY <1>1, <1>3 DEF Offset
  <2> QED
    BY <1>1, <1>3, <2>1, <2>2, <2>3 DEF Cells, Reach, Directions
<1> QED
  BY <1>4, <1>5, <1>6, <1>7 DEF Directions

LEMMA InnerCells == Inner \subseteq Cells
BY MazeAssumption DEF Inner, Cells

\* What the window shows of a cell within its reach.
LEMMA WindowShows ==
  ASSUME NEW m, NEW place \in Inner, NEW cell \in Cells,
         Offset(cell, place) \in Reach
  PROVE  Window(m, place)[Offset(cell, place)] =
           IF cell = place THEN "*" ELSE Content(m, cell)
<1>1. PICK x \in Int, y \in Int : place = <<x, y>>
  BY MazeAssumption DEF Inner
<1>2. PICK a \in Int, b \in Int : cell = <<a, b>>
  BY MazeAssumption DEF Cells
<1> DEFINE off == Offset(cell, place)
<1>3. off = <<a - x, b - y>>
  BY <1>1, <1>2 DEF Offset
<1>4. <<place[1] + off[1], place[2] + off[2]>> = cell
  BY <1>1, <1>2, <1>3
<1>5. off = <<0, 0>> <=> cell = place
  BY <1>1, <1>2, <1>3
<1> HIDE DEF off
<1>6. Window(m, place)[off] =
        IF off = <<0, 0>> THEN "*"
        ELSE IF <<place[1] + off[1], place[2] + off[2]>> \in Cells
             THEN Content(m, <<place[1] + off[1], place[2] + off[2]>>) ELSE " "
  BY DEF Window, Reach, off
<1> QED
  BY <1>4, <1>5, <1>6 DEF off

LEMMA ContentMark ==
  ASSUME NEW m, NEW cell
  PROVE  Content(m, cell) \in Marks \ {" "}
BY DEF Content, Marks

\* Plotting the window around the player's place, which is not the exit, puts
\* nothing on the map that is not in the maze, and shows every neighbour.
LEMMA PlotTrue ==
  ASSUME NEW m \in Mazes, NEW place \in m.free, place # m.exit,
         NEW map \in [Cells -> Marks]
  PROVE  LET new == plot_map(map, Window(m, place), place)
         IN  /\ new \in [Cells -> Marks]
             /\ \A cell \in Cells : new[cell] \in {map[cell], Content(m, cell)}
             /\ \A dir \in Directions :
                  new[Beside(place, dir)] = Content(m, Beside(place, dir))
<1> DEFINE new == plot_map(map, Window(m, place), place)
<1>1. place \in Inner
  BY MazeAssumption
<1>2. DOMAIN Window(m, place) = Reach
  BY DEF Window, Reach
<1>3. ASSUME NEW cell \in Cells
      PROVE  new[cell] = IF Offset(cell, place) \in Reach
                         THEN Content(m, cell) ELSE map[cell]
  <2>1. new[cell] = IF Offset(cell, place) \in Reach
                    THEN Plain(Window(m, place)[Offset(cell, place)])
                    ELSE map[cell]
    BY <1>2 DEF plot_map
  <2>2. CASE Offset(cell, place) \in Reach
    <3>1. CASE cell = place
      <4>1. Content(m, cell) = "."
        BY <3>1 DEF Content
      <4> QED
        BY <1>1, <2>1, <2>2, <3>1, <4>1, WindowShows DEF Plain
    <3>2. CASE cell # place
      <4>1. Content(m, cell) # "*"
        BY ContentMark DEF Marks
      <4> QED
        BY <1>1, <2>1, <2>2, <3>2, <4>1, WindowShows DEF Plain
    <3> QED
      BY <3>1, <3>2
  <2>3. CASE Offset(cell, place) \notin Reach
    BY <2>1, <2>3
  <2> QED
    BY <2>2, <2>3
<1>4. DOMAIN new = Cells /\ new = [cell \in Cells |-> new[cell]]
  BY DEF plot_map
<1> HIDE DEF new
<1>5. \A cell \in Cells : new[cell] \in Marks
  BY <1>3, ContentMark
<1>6. new \in [Cells -> Marks]
  BY <1>4, <1>5
<1>7. ASSUME NEW dir \in Directions
      PROVE  new[Beside(place, dir)] = Content(m, Beside(place, dir))
  BY <1>1, <1>3, BesideProperties
<1> QED
  BY <1>3, <1>6, <1>7 DEF new

-----------------------------------------------------------------------------
(* The stack of calls *)

CallType == [cell : Cells, i : 0..4, from : Directions \cup {5}]

\* Every call but the first was made by the one below, for the cell beside it.
Linked(stack, seen) ==
  \A k \in 1..Len(stack) :
    /\ stack[k].cell \in seen
    /\ k = 1 => stack[k].from = 5
    /\ k # 1 => /\ stack[k - 1].i \in Directions
                /\ stack[k].from = stack[k - 1].i
                /\ stack[k].cell = Beside(stack[k - 1].cell, stack[k - 1].i)

\* The move leads nowhere new.
Tried(m, seen, cell, dir) ==
  Beside(cell, dir) \in m.free => Beside(cell, dir) \in seen

\* A call has tried the directions before its i.
TriedBelow(m, stack, seen) ==
  \A k \in 1..Len(stack) : \A dir \in Directions :
    dir < stack[k].i => Tried(m, seen, stack[k].cell, dir)

OnStack(cell, stack) == \E k \in 1..Len(stack) : stack[k].cell = cell

Done(m, seen, cell) == \A dir \in Directions : Tried(m, seen, cell, dir)

\* The search is not over with a visited cell before all its ways were tried.
Covered(m, stack, seen) ==
  \A cell \in seen : OnStack(cell, stack) \/ Done(m, seen, cell)

Search(m, stack, seen) ==
  Linked(stack, seen) /\ TriedBelow(m, stack, seen) /\ Covered(m, stack, seen)

LEMMA TopProperties ==
  ASSUME NEW stack \in Seq(CallType), stack # <<>>
  PROVE  /\ Len(stack) \in Nat \ {0}
         /\ Last(stack) = stack[Len(stack)]
         /\ Last(stack) \in CallType
         /\ \A k \in 1..Len(stack) : stack[k] \in CallType
<1>1. Len(stack) \in Nat \ {0}
  BY EmptySeq
<1>2. \A k \in 1..Len(stack) : stack[k] \in CallType
  BY LenProperties
<1> QED
  BY <1>1, <1>2 DEF Last

LEMMA NextDirectionProperties ==
  ASSUME NEW stack \in Seq(CallType), stack # <<>>,
         Last(stack).i \in Directions
  PROVE  LET new == NextDirection(stack)
             n   == Len(stack)
         IN  /\ new \in Seq(CallType)
             /\ Len(new) = n
             /\ \A k \in 1..n - 1 : new[k] = stack[k]
             /\ new[n].cell = stack[n].cell
             /\ new[n].from = stack[n].from
             /\ new[n].i = stack[n].i + 1
<1> DEFINE n == Len(stack)
           top == [stack[n] EXCEPT !.i = stack[n].i + 1]
<1>1. /\ n \in Nat \ {0} /\ n \in 1..n
      /\ stack[n] \in CallType /\ stack[n].i \in Directions
  BY TopProperties
<1>2. NextDirection(stack) = [stack EXCEPT ![n] = top]
  BY DEF NextDirection
<1>3. /\ top.cell = stack[n].cell
      /\ top.from = stack[n].from
      /\ top.i = stack[n].i + 1
  BY <1>1 DEF CallType
<1>4. top \in CallType
  BY <1>1 DEF CallType, Directions
<1> HIDE DEF top
<1>5. /\ [stack EXCEPT ![n] = top] \in Seq(CallType)
      /\ Len([stack EXCEPT ![n] = top]) = n
      /\ \A k \in 1..n :
           [stack EXCEPT ![n] = top][k] = IF k = n THEN top ELSE stack[k]
  BY <1>1, <1>4, ExceptSeq
<1> DEFINE new == NextDirection(stack)
<1>6. /\ new \in Seq(CallType) /\ Len(new) = n
      /\ \A k \in 1..n : new[k] = IF k = n THEN top ELSE stack[k]
  BY <1>2, <1>5
<1> HIDE DEF new, n
<1>7. \A k \in 1..n - 1 : k \in 1..n /\ k # n
  BY <1>1
<1>8. /\ \A k \in 1..n - 1 : new[k] = stack[k]
      /\ new[n] = top
  BY <1>1, <1>6, <1>7
<1> QED
  BY <1>3, <1>6, <1>8 DEF new, n

\* The direction that is passed over was tried.
LEMMA SearchNext ==
  ASSUME NEW m, NEW seen, NEW stack \in Seq(CallType), stack # <<>>,
         Search(m, stack, seen), Last(stack).i \in Directions,
         Tried(m, seen, Last(stack).cell, Last(stack).i)
  PROVE  Search(m, NextDirection(stack), seen)
<1> DEFINE new == NextDirection(stack)
           n == Len(stack)
<1>1. n \in Nat \ {0} /\ Last(stack) = stack[n]
  BY TopProperties
<1>2. /\ Len(new) = n
      /\ \A k \in 1..n - 1 : new[k] = stack[k]
      /\ new[n].cell = stack[n].cell
      /\ new[n].from = stack[n].from
      /\ new[n].i = stack[n].i + 1
  BY NextDirectionProperties
<1>3. \A k \in 1..n : new[k].cell = stack[k].cell /\ new[k].from = stack[k].from
  BY <1>1, <1>2
<1> HIDE DEF new
<1>4. Linked(new, seen)
  <2> SUFFICES ASSUME NEW k \in 1..n
               PROVE  /\ new[k].cell \in seen
                      /\ k = 1 => new[k].from = 5
                      /\ k # 1 => /\ new[k - 1].i \in Directions
                                  /\ new[k].from = new[k - 1].i
                                  /\ new[k].cell = Beside(new[k - 1].cell, new[k - 1].i)
    BY <1>2 DEF Linked
  <2>1. k # 1 => k - 1 \in 1..n - 1
    BY <1>1
  <2> QED
    BY <1>2, <1>3, <2>1 DEF Search, Linked
<1>5. TriedBelow(m, new, seen)
  <2> SUFFICES ASSUME NEW k \in 1..n, NEW dir \in Directions, dir < new[k].i
               PROVE  Tried(m, seen, new[k].cell, dir)
    BY <1>2 DEF TriedBelow
  <2>1. CASE k # n
    BY <1>1, <1>2, <2>1 DEF Search, TriedBelow
  <2>2. CASE k = n /\ dir < stack[n].i
    BY <1>1, <1>2, <2>2 DEF Search, TriedBelow
  <2>3. CASE k = n /\ ~(dir < stack[n].i)
    <3>1. dir = stack[n].i
      BY <1>1, <1>2, <2>3 DEF Directions
    <3> QED
      BY <1>1, <1>2, <2>3, <3>1
  <2> QED
    BY <2>1, <2>2, <2>3
<1>6. Covered(m, new, seen)
  BY <1>2, <1>3 DEF Search, Covered, OnStack
<1> QED
  BY <1>4, <1>5, <1>6 DEF Search, new

\* A call for the cell beside the top's.
LEMMA SearchPush ==
  ASSUME NEW m, NEW seen, NEW stack \in Seq(CallType), stack # <<>>,
         Search(m, stack, seen), Last(stack).i \in Directions,
         NEW call \in CallType, call.i = 0, call.from = Last(stack).i,
         call.cell = Beside(Last(stack).cell, Last(stack).i)
  PROVE  /\ Append(stack, call) \in Seq(CallType)
         /\ Append(stack, call) # <<>>
         /\ Last(Append(stack, call)) = call
         /\ Search(m, Append(stack, call), seen \cup {call.cell})
<1> DEFINE new == Append(stack, call)
           n == Len(stack)
           more == seen \cup {call.cell}
<1>1. n \in Nat \ {0} /\ Last(stack) = stack[n]
  BY TopProperties
<1>4. /\ new \in Seq(CallType) /\ new # <<>>
      /\ Len(new) = n + 1 /\ new[n + 1] = call
      /\ \A k \in 1..n : new[k] = stack[k]
  BY AppendProperties
<1> HIDE DEF new
<1>5. Last(new) = call
  BY <1>4 DEF Last
<1>6. \A k \in 1..n + 1 : k \in 1..n \/ k = n + 1
  BY <1>1
<1>7. Linked(new, more)
  <2> SUFFICES ASSUME NEW k \in 1..n + 1
               PROVE  /\ new[k].cell \in more
                      /\ k = 1 => new[k].from = 5
                      /\ k # 1 => /\ new[k - 1].i \in Directions
                                  /\ new[k].from = new[k - 1].i
                                  /\ new[k].cell = Beside(new[k - 1].cell, new[k - 1].i)
    BY <1>4 DEF Linked
  <2>1. CASE k \in 1..n
    <3>1. k # 1 => k - 1 \in 1..n
      BY <1>1, <2>1
    <3> QED
      BY <1>4, <2>1, <3>1 DEF Search, Linked
  <2>2. CASE k = n + 1
    <3>1. k # 1 /\ k - 1 = n /\ n \in 1..n
      BY <1>1, <2>2
    <3> QED
      BY <1>1, <1>4, <2>2, <3>1
  <2> QED
    BY <1>6, <2>1, <2>2
<1>8. \A cell, dir : Tried(m, seen, cell, dir) => Tried(m, more, cell, dir)
  BY DEF Tried
<1>9. TriedBelow(m, new, more)
  <2> SUFFICES ASSUME NEW k \in 1..n + 1, NEW dir \in Directions, dir < new[k].i
               PROVE  Tried(m, more, new[k].cell, dir)
    BY <1>4 DEF TriedBelow
  <2>1. k \in 1..n
    BY <1>4, <1>6 DEF Directions
  <2> QED
    BY <1>4, <1>8, <2>1 DEF Search, TriedBelow
<1>10. Covered(m, new, more)
  <2> SUFFICES ASSUME NEW cell \in more
               PROVE  OnStack(cell, new) \/ Done(m, more, cell)
    BY DEF Covered
  <2>1. CASE cell = call.cell
    <3>1. n + 1 \in 1..Len(new) /\ new[n + 1].cell = cell
      BY <1>1, <1>4, <2>1
    <3> QED
      BY <3>1 DEF OnStack
  <2>2. CASE cell \in seen
    <3>1. OnStack(cell, stack) \/ Done(m, seen, cell)
      BY <2>2 DEF Search, Covered
    <3>2. OnStack(cell, stack) => OnStack(cell, new)
      BY <1>1, <1>4 DEF OnStack
    <3> QED
      BY <1>8, <3>1, <3>2 DEF Done
  <2> QED
    BY <2>1, <2>2
<1> QED
  BY <1>4, <1>5, <1>7, <1>9, <1>10 DEF Search, new

\* The top call has tried its directions: its cell is done.
LEMMA TopDone ==
  ASSUME NEW m, NEW seen, NEW stack \in Seq(CallType), stack # <<>>,
         Search(m, stack, seen), Last(stack).i \notin Directions
  PROVE  Done(m, seen, Last(stack).cell)
<1> DEFINE n == Len(stack)
<1>1. n \in 1..n /\ Last(stack) = stack[n] /\ stack[n] \in CallType
  BY TopProperties
<1>2. \A dir \in Directions : dir < stack[n].i
  BY <1>1 DEF CallType, Directions
<1> QED
  BY <1>1, <1>2 DEF Search, TriedBelow, Done

\* The call that made it goes on behind the move it made.
LEMMA SearchPop ==
  ASSUME NEW m, NEW seen, NEW stack \in Seq(CallType), stack # <<>>,
         Search(m, stack, seen), Last(stack).i \notin Directions,
         Last(stack).from \in Directions
  PROVE  LET rest == Front(stack)
         IN  /\ rest \in Seq(CallType) /\ rest # <<>>
             /\ Search(m, rest, seen)
             /\ Last(rest).i = Last(stack).from
             /\ Last(stack).cell = Beside(Last(rest).cell, Last(rest).i)
             /\ Tried(m, seen, Last(rest).cell, Last(rest).i)
<1> DEFINE rest == Front(stack)
           n == Len(stack)
<1>1. /\ n \in Nat \ {0} /\ n \in 1..n
      /\ Last(stack) = stack[n]
      /\ \A k \in 1..n : stack[k] \in CallType
  BY TopProperties
<1>2. n # 1
  BY <1>1 DEF Search, Linked, Directions
<1> HIDE DEF n
<1>3. /\ rest \in Seq(CallType) /\ Len(rest) = n - 1
      /\ \A k \in 1..n - 1 : rest[k] = stack[k]
  <2>1. n - 1 \in Int /\ 1 <= n - 1 /\ \A k \in 1..n - 1 : stack[k] \in CallType
    BY <1>1, <1>2
  <2>2. rest = SubSeq(stack, 1, n - 1)
    BY DEF Front, n
  <2>3. /\ SubSeq(stack, 1, n - 1) \in Seq(CallType)
        /\ Len(SubSeq(stack, 1, n - 1)) = n - 1 - 1 + 1
        /\ \A k \in 1..n - 1 - 1 + 1 : SubSeq(stack, 1, n - 1)[k] = stack[1 + k - 1]
    BY <2>1, SubSeqProperties, Z3
  <2>4. n - 1 - 1 + 1 = n - 1 /\ \A k \in 1..n - 1 : 1 + k - 1 = k
    BY <1>1
  <2> HIDE DEF rest
  <2> QED
    BY <2>2, <2>3, <2>4
<1> HIDE DEF rest
<1>4. rest # <<>> /\ Last(rest) = stack[n - 1] /\ n - 1 \in 1..n - 1
  <2>1. n - 1 # 0 /\ n - 1 \in 1..n - 1
    BY <1>1, <1>2
  <2> QED
    BY <1>3, <2>1, EmptySeq DEF Last
<1>5. /\ stack[n].from = stack[n - 1].i
      /\ stack[n].cell = Beside(stack[n - 1].cell, stack[n - 1].i)
      /\ stack[n].cell \in seen
  BY <1>1, <1>2 DEF Search, Linked, n
<1>6. Linked(rest, seen)
  <2> SUFFICES ASSUME NEW k \in 1..n - 1
               PROVE  /\ rest[k].cell \in seen
                      /\ k = 1 => rest[k].from = 5
                      /\ k # 1 => /\ rest[k - 1].i \in Directions
                                  /\ rest[k].from = rest[k - 1].i
                                  /\ rest[k].cell = Beside(rest[k - 1].cell, rest[k - 1].i)
    BY <1>3 DEF Linked
  <2>1. k \in 1..n /\ (k # 1 => k - 1 \in 1..n - 1)
    BY <1>1
  <2> QED
    BY <1>3, <2>1 DEF Search, Linked, n
<1>7. TriedBelow(m, rest, seen)
  <2>1. \A k \in 1..n - 1 : k \in 1..n
    BY <1>1
  <2> QED
    BY <1>3, <2>1 DEF Search, TriedBelow, n
<1>8. Covered(m, rest, seen)
  <2> SUFFICES ASSUME NEW cell \in seen
               PROVE  OnStack(cell, rest) \/ Done(m, seen, cell)
    BY DEF Covered
  <2>1. CASE Done(m, seen, cell)
    BY <2>1
  <2>2. CASE OnStack(cell, stack)
    <3>1. PICK k \in 1..n : stack[k].cell = cell
      BY <2>2 DEF OnStack, n
    <3>2. CASE k = n
      BY <1>1, <3>1, <3>2, TopDone
    <3>3. CASE k # n
      <4>1. k \in 1..n - 1
        BY <1>1, <3>3
      <4> QED
        BY <1>3, <3>1, <4>1 DEF OnStack
    <3> QED
      BY <3>2, <3>3
  <2> QED
    BY <2>1, <2>2 DEF Search, Covered
<1> QED
  BY <1>1, <1>3, <1>4, <1>5, <1>6, <1>7, <1>8 DEF Search, Tried, rest, n

\* The first call is the last one left.
LEMMA FirstCall ==
  ASSUME NEW m, NEW seen, NEW stack \in Seq(CallType), stack # <<>>,
         Search(m, stack, seen), Last(stack).i \notin Directions,
         Last(stack).from \notin Directions
  PROVE  Covered(m, <<>>, seen)
<1> DEFINE n == Len(stack)
<1>1. n \in Nat \ {0} /\ n \in 1..n /\ Last(stack) = stack[n]
  BY TopProperties
<1>2. n = 1
  BY <1>1 DEF Search, Linked
<1>3. \A cell \in seen : Done(m, seen, cell)
  BY <1>1, <1>2, TopDone DEF Search, Covered, OnStack
<1> QED
  BY <1>3 DEF Covered

-----------------------------------------------------------------------------
(* The inductive invariant *)

Types ==
  /\ maze \in Mazes
  /\ big_map \in [Cells -> Marks]
  /\ visited \subseteq maze.free
  /\ path \in Seq(Directions)
  /\ calls \in Seq(CallType)

Searched ==
  /\ maze.start \in visited
  /\ maze.exit \notin visited
  /\ Search(maze, calls, visited)

\* The window that was asked for shows the cell it was asked for.
Shown == asked => find_ans \/ (Looking /\ big_map[Target] # " ")

Arrived == find_ans => position = maze.exit

IInv == Types /\ Searched /\ Shown /\ Arrived /\ MapTrue /\ InStep

\* The cell of a call is a visited one, and its neighbours are on the map.
LEMMA CallProperties ==
  ASSUME IInv, calls # <<>>
  PROVE  /\ Call \in CallType
         /\ Call.cell \in visited
         /\ Call.cell \in maze.free /\ Call.cell # maze.exit
         /\ Call.cell \in Inner
<1>1. /\ Call = calls[Len(calls)] /\ Call \in CallType
      /\ Len(calls) \in 1..Len(calls)
  BY TopProperties DEF IInv, Types, Call
<1>2. Call.cell \in visited
  BY <1>1 DEF IInv, Searched, Search, Linked
<1> QED
  BY <1>1, <1>2, MazeAssumption DEF IInv, Types, Searched

LEMMA LookProperties ==
  ASSUME IInv, Looking
  PROVE  /\ calls # <<>> /\ ~find_ans /\ Call.i \in Directions
         /\ Target = Beside(Call.cell, Call.i)
         /\ Target \in Cells
         /\ big_map[Target] \in {" ", Content(maze, Target)}
         /\ Walk(maze, position, path) = Call.cell
<1>1. calls # <<>> /\ ~find_ans /\ Call.i \in Directions
  BY DEF Looking
<1>2. Target = Beside(Call.cell, Call.i) /\ Target \in Cells
  BY <1>1, CallProperties, BesideProperties DEF Target
<1> QED
  BY <1>1, <1>2 DEF IInv, MapTrue, InStep

\* A cell that was looked at is known.
LEMMA LookedProperties ==
  ASSUME IInv, Looked
  PROVE  big_map[Target] = Content(maze, Target)
<1>1. Looking /\ big_map[Target] # " "
  BY DEF IInv, Shown, Looked, Looking
<1> QED
  BY <1>1, LookProperties

LEMMA IInvInit ==
  ASSUME Init PROVE IInv
<1> DEFINE blank == [cell \in Cells |-> " "]
           call  == [cell |-> position, i |-> 0, from |-> 5]
<1>1. /\ maze \in Mazes /\ position = maze.start
      /\ position \in maze.free /\ position # maze.exit
      /\ position \in Cells
  BY MazeAssumption, InnerCells DEF Init
<1>2. blank \in [Cells -> Marks]
  BY DEF Marks
<1>3. /\ big_map \in [Cells -> Marks]
      /\ \A cell \in Cells : big_map[cell] \in {blank[cell], Content(maze, cell)}
  <2> HIDE DEF blank
  <2>1. big_map = plot_map(blank, Window(maze, position), position)
    BY DEF Init, blank
  <2> QED
    BY <1>1, <1>2, <2>1, PlotTrue
<1>4. call \in CallType /\ call.cell = position /\ call.i = 0 /\ call.from = 5
  BY <1>1 DEF CallType
<1>5. calls = <<call>>
  BY DEF Init
<1> HIDE DEF call
<1>6. calls \in Seq(CallType) /\ Len(calls) = 1 /\ calls[1] = call
  BY <1>4, <1>5
<1>7. Types
  BY <1>1, <1>3, <1>6, EmptySeq DEF Types, Init
<1>8. Searched
  <2>1. visited = {position}
    BY DEF Init
  <2>2. \A k \in 1..Len(calls) : k = 1 /\ calls[k] = call
    BY <1>6
  <2>3. Linked(calls, visited)
    BY <1>4, <2>1, <2>2 DEF Linked
  <2>4. TriedBelow(maze, calls, visited)
    BY <1>4, <2>2 DEF TriedBelow, Directions
  <2>5. Covered(maze, calls, visited)
    BY <1>4, <1>6, <2>1 DEF Covered, OnStack
  <2> QED
    BY <1>1, <2>1, <2>3, <2>4, <2>5 DEF Searched, Search
<1>9. Shown /\ Arrived
  BY DEF Init, Shown, Arrived
<1>10. MapTrue
  BY <1>3 DEF MapTrue
<1>11. InStep
  BY <1>4, <1>6, WalkEmpty DEF InStep, Call, Last, Init
<1> QED
  BY <1>7, <1>8, <1>9, <1>10, <1>11 DEF IInv

LEMMA IInvAsk ==
  ASSUME IInv, Ask PROVE IInv'
<1>1. /\ Looking
      /\ UNCHANGED <<maze, visited, calls, find_ans>>
      /\ path' = <<>> /\ asked' = TRUE
      /\ position' = Walk(maze, position, path)
      /\ big_map' = plot_map(big_map, Window(maze, position'), Call.cell)
  BY DEF Ask, send_receive, Centre
<1>2. maze' = maze /\ visited' = visited /\ calls' = calls /\ find_ans' = find_ans
  BY <1>1
<1>3. position' = Call.cell
  BY <1>1, LookProperties
<1>4. /\ big_map' \in [Cells -> Marks]
      /\ \A cell \in Cells : big_map'[cell] \in {big_map[cell], Content(maze, cell)}
      /\ big_map'[Target] = Content(maze, Target)
  <2>1. big_map' = plot_map(big_map, Window(maze, Call.cell), Call.cell)
    BY <1>1, <1>3
  <2>2. /\ maze \in Mazes /\ big_map \in [Cells -> Marks]
        /\ Call.cell \in maze.free /\ Call.cell # maze.exit
        /\ Call.i \in Directions /\ Target = Beside(Call.cell, Call.i)
    BY <1>1, CallProperties, LookProperties DEF IInv, Types
  <2>3. /\ big_map' \in [Cells -> Marks]
        /\ \A cell \in Cells : big_map'[cell] \in {big_map[cell], Content(maze, cell)}
        /\ \A dir \in Directions :
             big_map'[Beside(Call.cell, dir)] = Content(maze, Beside(Call.cell, dir))
    BY <2>1, <2>2, PlotTrue
  <2> QED
    BY <2>2, <2>3
<1>5. Types'
  BY <1>1, <1>2, <1>4, EmptySeq DEF IInv, Types
<1>6. Searched'
  BY <1>2 DEF IInv, Searched
<1>7. Shown'
  <2>1. Looking' /\ Target' = Target
    BY <1>1, <1>2 DEF Looking, Target, Call
  <2> QED
    BY <1>4, <2>1, ContentMark DEF Shown
<1>8. Arrived'
  BY <1>1, <1>2 DEF Looking, Arrived
<1>9. MapTrue'
  BY <1>2, <1>4 DEF IInv, MapTrue
<1>10. InStep'
  BY <1>1, <1>2, <1>3, WalkEmpty DEF InStep, Call
<1> QED
  BY <1>5, <1>6, <1>7, <1>8, <1>9, <1>10 DEF IInv

LEMMA IInvPass ==
  ASSUME IInv, Pass PROVE IInv'
<1>1. /\ Looked /\ ~Open
      /\ calls' = NextDirection(calls) /\ asked' = FALSE
      /\ maze' = maze /\ position' = position /\ big_map' = big_map
      /\ visited' = visited /\ path' = path /\ find_ans' = find_ans
  BY DEF Pass
<1>2. Looking
  BY <1>1 DEF Looked
<1>3. /\ calls \in Seq(CallType) /\ calls # <<>>
      /\ Call = Last(calls) /\ Last(calls).i \in Directions
      /\ ~find_ans
  BY <1>2, LookProperties DEF IInv, Types, Call
<1>4. Tried(maze, visited, Last(calls).cell, Last(calls).i)
  <2>1. Target = Beside(Last(calls).cell, Last(calls).i)
    BY <1>3 DEF Target
  <2>2. Target \in visited \/ Content(maze, Target) = "#"
    BY <1>1, LookedProperties DEF Open
  <2>3. Target \in maze.free => Target \in visited
    BY <2>2 DEF Content
  <2> QED
    BY <2>1, <2>3 DEF Tried
<1>5. Search(maze, NextDirection(calls), visited)
  BY <1>3, <1>4, SearchNext DEF IInv, Searched
<1>6. calls' \in Seq(CallType) /\ Call'.cell = Call.cell
  <2>1. /\ calls' \in Seq(CallType) /\ Len(calls') = Len(calls)
        /\ calls'[Len(calls)].cell = calls[Len(calls)].cell
    BY <1>1, <1>3, NextDirectionProperties
  <2> QED
    BY <2>1 DEF Call, Last
<1>7. Types'
  BY <1>1, <1>6 DEF IInv, Types
<1>8. Searched'
  BY <1>1, <1>5 DEF IInv, Searched
<1>9. Shown' /\ Arrived' /\ MapTrue'
  BY <1>1 DEF IInv, Shown, Arrived, MapTrue
<1>10. InStep'
  BY <1>1, <1>3, <1>6 DEF IInv, InStep
<1> QED
  BY <1>7, <1>8, <1>9, <1>10 DEF IInv

LEMMA IInvEnter ==
  ASSUME IInv, Enter PROVE IInv'
<1>1. /\ Looked /\ Open /\ big_map[Target] # "E"
      /\ path' = Append(path, Call.i)
      /\ calls' = Append(calls, [cell |-> Target, i |-> 0, from |-> Call.i])
      /\ visited' = visited \cup {Target} /\ asked' = FALSE
      /\ maze' = maze /\ position' = position /\ big_map' = big_map
      /\ find_ans' = find_ans
  BY DEF Enter
<1>2. Looking
  BY <1>1 DEF Looked
<1>3. /\ calls \in Seq(CallType) /\ calls # <<>> /\ Call = Last(calls)
      /\ Last(calls).i \in Directions /\ ~find_ans
      /\ Target \in Cells /\ Target = Beside(Last(calls).cell, Last(calls).i)
      /\ Walk(maze, position, path) = Last(calls).cell
  BY <1>2, LookProperties DEF IInv, Types, Call
<1>4. Target \in maze.free /\ Target # maze.exit
  BY <1>1, LookedProperties DEF Open, Content
<1>5. /\ calls' \in Seq(CallType)
      /\ Call'.cell = Target
      /\ Search(maze, calls', visited')
  <2> DEFINE call == [cell |-> Target, i |-> 0, from |-> Last(calls).i]
  <2>1. Search(maze, calls, visited)
    BY DEF IInv, Searched
  <2>2. /\ call \in CallType /\ call.cell = Target
        /\ call.i = 0 /\ call.from = Last(calls).i
    BY <1>3 DEF CallType, Directions
  <2>3. /\ Append(calls, call) \in Seq(CallType)
        /\ Last(Append(calls, call)) = call
        /\ Search(maze, Append(calls, call), visited \cup {Target})
    <3> HIDE DEF call
    <3> QED
      BY <1>3, <2>1, <2>2, SearchPush
  <2>4. calls' = Append(calls, call) /\ visited' = visited \cup {Target}
    BY <1>1, <1>3
  <2>5. Call' = call
    BY <2>3, <2>4 DEF Call
  <2> QED
    BY <2>2, <2>3, <2>4, <2>5
<1>6. Types'
  <2>1. path' \in Seq(Directions)
    BY <1>1, <1>3, AppendProperties DEF IInv, Types
  <2> QED
    BY <1>1, <1>4, <1>5, <2>1 DEF IInv, Types
<1>7. Searched'
  BY <1>1, <1>4, <1>5 DEF IInv, Searched
<1>8. Shown' /\ Arrived' /\ MapTrue'
  BY <1>1 DEF IInv, Shown, Arrived, MapTrue
<1>9. InStep'
  <2>1. Walk(maze, position, path') = Move(maze, Last(calls).cell, Last(calls).i)
    BY <1>1, <1>3, WalkAppend DEF IInv, Types
  <2>2. Move(maze, Last(calls).cell, Last(calls).i) = Target
    BY <1>3, <1>4 DEF Move
  <2> QED
    BY <1>1, <1>5, <2>1, <2>2 DEF InStep
<1> QED
  BY <1>6, <1>7, <1>8, <1>9 DEF IInv

LEMMA IInvEscape ==
  ASSUME IInv, Escape PROVE IInv'
<1>1. /\ Looked /\ big_map[Target] = "E"
      /\ path' = Append(path, Call.i)
      /\ position' = Walk(maze, position, path')
      /\ find_ans' = TRUE
      /\ maze' = maze /\ big_map' = big_map /\ visited' = visited
      /\ calls' = calls /\ asked' = asked
  BY DEF Escape
<1>2. Looking
  BY <1>1 DEF Looked
<1>3. /\ Call.i \in Directions /\ Target = Beside(Call.cell, Call.i)
      /\ Walk(maze, position, path) = Call.cell
  BY <1>2, LookProperties
<1>4. Target = maze.exit /\ maze.exit \in maze.free
  BY <1>1, LookedProperties, MazeAssumption DEF Content, IInv, Types
<1>5. Types'
  BY <1>1, <1>3, AppendProperties DEF IInv, Types
<1>6. position' = maze.exit
  <2>1. Walk(maze, position, path') = Move(maze, Call.cell, Call.i)
    BY <1>1, <1>3, WalkAppend DEF IInv, Types
  <2>2. Move(maze, Call.cell, Call.i) = maze.exit
    BY <1>3, <1>4 DEF Move
  <2> QED
    BY <1>1, <2>1, <2>2
<1>7. Searched' /\ MapTrue'
  BY <1>1 DEF IInv, Searched, MapTrue
<1>8. Shown' /\ Arrived' /\ InStep'
  BY <1>1, <1>6 DEF Shown, Arrived, InStep
<1> QED
  BY <1>5, <1>7, <1>8 DEF IInv

LEMMA IInvBacktrack ==
  ASSUME IInv, Backtrack PROVE IInv'
<1>1. /\ calls # <<>> /\ ~find_ans /\ Call.i \notin Directions
      /\ maze' = maze /\ position' = position /\ big_map' = big_map
      /\ visited' = visited /\ asked' = asked /\ find_ans' = find_ans
  BY DEF Backtrack, Looking
<1>2. ~asked
  BY <1>1 DEF IInv, Shown, Looking
<1>3. Shown' /\ Arrived' /\ MapTrue'
  BY <1>1, <1>2 DEF IInv, Shown, Arrived, MapTrue
<1>4. calls \in Seq(CallType) /\ Call = Last(calls) /\ Search(maze, calls, visited)
  BY DEF IInv, Types, Searched, Call
<1>5. CASE Call.from \in Directions
  <2> DEFINE rest == Front(calls)
  <2>1. path' = Append(path, Opposite(Call.from)) /\ calls' = NextDirection(rest)
    BY <1>5 DEF Backtrack
  <2>2. /\ rest \in Seq(CallType) /\ rest # <<>>
        /\ Search(maze, rest, visited)
        /\ Last(rest).i = Call.from
        /\ Call.cell = Beside(Last(rest).cell, Last(rest).i)
        /\ Tried(maze, visited, Last(rest).cell, Last(rest).i)
    BY <1>1, <1>4, <1>5, SearchPop
  <2> HIDE DEF rest
  <2>3. /\ calls' \in Seq(CallType) /\ Len(calls') = Len(rest)
        /\ calls'[Len(rest)].cell = rest[Len(rest)].cell
    BY <1>5, <2>1, <2>2, NextDirectionProperties
  <2>4. Call'.cell = Last(rest).cell
    BY <2>3 DEF Call, Last
  <2>5. Search(maze, calls', visited)
    BY <1>5, <2>1, <2>2, SearchNext
  <2>6. Last(rest).cell \in visited
    <3>1. Len(rest) \in 1..Len(rest) /\ Last(rest) = rest[Len(rest)]
      BY <2>2, TopProperties
    <3> QED
      BY <2>2, <3>1 DEF Search, Linked
  <2>7. Last(rest).cell \in maze.free /\ Last(rest).cell \in Inner
    BY <2>6, MazeAssumption DEF IInv, Types
  <2>8. /\ Opposite(Call.from) \in Directions
        /\ Beside(Call.cell, Opposite(Call.from)) = Last(rest).cell
    BY <1>5, <2>2, <2>7, BesideProperties
  <2>9. Types'
    <3>1. path' \in Seq(Directions)
      BY <2>1, <2>8, AppendProperties DEF IInv, Types
    <3> QED
      BY <1>1, <2>3, <3>1 DEF IInv, Types
  <2>10. Searched'
    BY <1>1, <2>5 DEF IInv, Searched
  <2>11. InStep'
    <3>1. Walk(maze, position, path) = Call.cell
      BY <1>1 DEF IInv, InStep
    <3>2. Walk(maze, position, path') = Move(maze, Call.cell, Opposite(Call.from))
      BY <2>1, <2>8, <3>1, WalkAppend DEF IInv, Types
    <3>3. Move(maze, Call.cell, Opposite(Call.from)) = Last(rest).cell
      BY <2>7, <2>8 DEF Move
    <3> QED
      BY <1>1, <2>4, <3>2, <3>3 DEF InStep
  <2> QED
    BY <1>3, <2>9, <2>10, <2>11 DEF IInv
<1>6. CASE Call.from \notin Directions
  <2>1. path' = path /\ calls' = <<>>
    BY <1>6 DEF Backtrack
  <2>2. Types' /\ InStep'
    BY <1>1, <2>1, EmptySeq DEF IInv, Types, InStep
  <2>3. Search(maze, <<>>, visited)
    <3>1. Covered(maze, <<>>, visited)
      BY <1>1, <1>4, <1>6, FirstCall
    <3>2. \A k \in 1..Len(<<>>) : FALSE
      BY EmptySeq
    <3> QED
      BY <3>1, <3>2 DEF Search, Linked, TriedBelow
  <2>4. Searched'
    BY <1>1, <2>1, <2>3 DEF IInv, Searched
  <2> QED
    BY <1>3, <2>2, <2>4 DEF IInv
<1> QED
  BY <1>5, <1>6

LEMMA IInvStutter ==
  ASSUME IInv, UNCHANGED vars PROVE IInv'
<1>1. /\ maze' = maze /\ position' = position /\ big_map' = big_map
      /\ visited' = visited /\ path' = path /\ calls' = calls
      /\ asked' = asked /\ find_ans' = find_ans
  BY DEF vars
<1>2. Call' = Call /\ Target' = Target /\ Looking' = Looking
  BY <1>1 DEF Call, Target, Looking
<1>3. Types' /\ Searched' /\ Shown' /\ Arrived'
  BY <1>1, <1>2 DEF IInv, Types, Searched, Shown, Arrived
<1>4. MapTrue' /\ InStep'
  BY <1>1, <1>2 DEF IInv, MapTrue, InStep
<1> QED
  BY <1>3, <1>4 DEF IInv

LEMMA Invariance == Spec => []IInv
<1>1. Init => IInv
  BY IInvInit
<1>2. IInv /\ [Next]_vars => IInv'
  BY IInvAsk, IInvPass, IInvEnter, IInvEscape, IInvBacktrack, IInvStutter DEF Next
<1> QED
  BY <1>1, <1>2, PTL DEF Spec

-----------------------------------------------------------------------------
(* The properties *)

\* The moves not sent yet lead from the player's place on the server to the
\* cell that the innermost run_maze call is about, in every maze.
THEOREM StaysInStep == Spec => []InStep
<1>1. IInv => InStep
  BY DEF IInv
<1> QED
  BY <1>1, Invariance, PTL

\* The map never shows what is not in the maze.
THEOREM MapIsTrue == Spec => []MapTrue
<1>1. IInv => MapTrue
  BY DEF IInv
<1> QED
  BY <1>1, Invariance, PTL

\* An answer is right: found means on the exit, given up means that the
\* visited cells are a region no way leads out of.
THEOREM AnswersRight == Spec => []AnswerRight
<1>1. ASSUME IInv, calls = <<>> PROVE NoWayOut
  <2>1. visited \in SUBSET maze.free
    BY <1>1 DEF IInv, Types
  <2>2. \A cell : ~OnStack(cell, <<>>)
    BY EmptySeq DEF OnStack
  <2>3. Apart(visited)
    BY <1>1, <2>2 DEF IInv, Searched, Search, Covered, Done, Tried, Apart
  <2> QED
    BY <1>1, <2>1, <2>3 DEF IInv, Searched, NoWayOut
<1>2. IInv => AnswerRight
  BY <1>1 DEF IInv, Arrived, AnswerRight
<1> QED
  BY <1>2, Invariance, PTL

\* When the player gives up (line 104 returns from the first call), no line of
\* moves, of whatever length, would have led it from the start to the exit.
THEOREM GivesUpRightly ==
  Spec => [](calls = <<>> => \A moves \in Seq(Directions) :
                               Walk(maze, maze.start, moves) # maze.exit)
<1> DEFINE Lost == calls = <<>> => \A moves \in Seq(Directions) :
                                     Walk(maze, maze.start, moves) # maze.exit
<1>1. ASSUME AnswerRight PROVE Lost
  <2> SUFFICES ASSUME calls = <<>>, NEW moves \in Seq(Directions)
               PROVE  Walk(maze, maze.start, moves) # maze.exit
    OBVIOUS
  <2>1. PICK region \in SUBSET maze.free :
          maze.start \in region /\ maze.exit \notin region /\ Apart(region)
    BY <1>1 DEF AnswerRight, NoWayOut
  <2>2. Walk(maze, maze.start, moves) \in region
    BY <2>1, WalkStays DEF Apart
  <2> QED
    BY <2>1, <2>2
<1> QED
  BY <1>1, AnswersRight, PTL
===============================================================================
