------------------------------ MODULE RoomLogs ------------------------------
(***************************************************************************)
(* What the chat rooms promise about their histories: each keeps its       *)
(* newest lines, at most LogMax of them, of which at most one is pinned.   *)
(* A new pin replaces the old one wherever it stands, and taking the pin   *)
(* down removes its line.  There is no second copy of the pin: it is the   *)
(* pinned line of the log.  A step changes the log of one room.            *)
(***************************************************************************)
EXTENDS Integers, Sequences, SequencesExt

CONSTANTS Rooms,
          Lines,    \* the lines that can be said or pinned
          LogMax    \* how many of them a room keeps

VARIABLE log        \* the log of every room

Pinned(line) == line.kind = "pin"

\* The log without its pinned line, of which there is at most one.
Unpinned(l) ==
  IF \E n \in DOMAIN l : Pinned(l[n])
  THEN RemoveAt(l, CHOOSE n \in DOMAIN l : Pinned(l[n]))
  ELSE l

Newest(l) == IF Len(l) = LogMax THEN Tail(l) ELSE l

Init == log = [r \in Rooms |-> << >>]

Post(r) ==
  \E line \in Lines :
    ~Pinned(line) /\ log' = [log EXCEPT ![r] = Append(Newest(@), line)]

Pin(r) ==
  \E line \in Lines :
    Pinned(line) /\ log' = [log EXCEPT ![r] = Append(Newest(Unpinned(@)), line)]

Unpin(r) == log' = [log EXCEPT ![r] = Unpinned(@)]

Clear(r) == log' = [log EXCEPT ![r] = << >>]

Next == \E r \in Rooms : Post(r) \/ Pin(r) \/ Unpin(r) \/ Clear(r)

Spec == Init /\ [][Next]_log

=============================================================================
