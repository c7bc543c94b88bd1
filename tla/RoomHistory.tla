---------------------------- MODULE RoomHistory ----------------------------
(***************************************************************************)
(* The history and the pinned message of one chat room, as                 *)
(* HW2/hw2_chat_server.cpp keeps them: a deque of at most ten lines and a  *)
(* second copy, pin_message, of the line that is pinned.  The two copies   *)
(* are related only by comparing their text.                               *)
(*                                                                         *)
(* A line is a record [kind, from, text].  The code prefixes a pinned line *)
(* with "Pin -> [" and any other with "[", so lines of different kinds     *)
(* are different strings.  The first component of a deque element (the     *)
(* author) is never read and is left out.                                  *)
(***************************************************************************)
EXTENDS Integers, Sequences, SequencesExt

CONSTANTS
  Users,       \* the user names clients register
  Texts,       \* the message bodies clients type
  NoOne,       \* the empty user name ""
  NoText,      \* the body of a line that is not a message
  MaskText,    \* what filter_message makes of a body
  MaskName,    \* what filter_message makes of a user name
  HistoryMax   \* 10 in the code

ASSUME HistoryAssumption ==
  /\ HistoryMax \in Nat \ {0}
  /\ MaskText \in [Texts -> Texts]
  /\ MaskName \in [Users -> Users]
  /\ NoOne \notin Users
  /\ NoText \notin Texts

ChatLine(u, t) == [kind |-> "chat", from |-> u, text |-> MaskText[t]]

\* The whole pinned line is filtered, its author's name included.
PinLine(u, t) == [kind |-> "pin", from |-> MaskName[u], text |-> MaskText[t]]

NoPin == [kind |-> "none", from |-> NoOne, text |-> NoText]

Line == [kind : {"chat", "pin"}, from : Users, text : Texts]

ChatRoomInfo ==
  [ owner       : Users \cup {NoOne},
    pin_message : Line \cup {NoPin},
    members     : SUBSET Users,
    history     : Seq(Line) ]

\* What chat_rooms[number] creates for a number that has no room yet.
NewRoom == [ owner       |-> NoOne,
             pin_message |-> NoPin,
             members     |-> {},
             history     |-> << >> ]

\* Mutant: a line pushed out of the history stays pinned.
AddMessage_PinStays(room, line) ==
  IF Len(room.history) = HistoryMax
  THEN [room EXCEPT !.history = Append(Tail(@), line)]
  ELSE [room EXCEPT !.history = Append(@, line)]

(***************************************************************************)
(* A full history loses its oldest line, and the pin with it when that     *)
(* line reads like the pin; then the new line is appended.                 *)
(***************************************************************************)
AddMessage(room, line) ==
  IF Len(room.history) = HistoryMax
  THEN [room EXCEPT
          !.history     = Append(Tail(@), line),
          !.pin_message = IF Head(room.history) = @ THEN NoPin ELSE @]
  ELSE [room EXCEPT !.history = Append(@, line)]

\* Mutant: a new pin does not replace the line of the old one.
EraseOldPin_Never(room) == room

\* The first line that reads like the pin is erased from the history.
EraseOldPin(room) ==
  IF room.pin_message = NoPin
  THEN room
  ELSE [room EXCEPT !.history = RemoveFirst(@, room.pin_message)]

\* "/pin": the new pin is stored before the line is added to the history.
SetPin(room, line) ==
  AddMessage([EraseOldPin(room) EXCEPT !.pin_message = line], line)

\* "/delete-pin" in a room that has a pin.
ClearPin(room) == [EraseOldPin(room) EXCEPT !.pin_message = NoPin]

(***************************************************************************)
(* The pin of a room is shown: pin_message is empty exactly when no line   *)
(* of the history is pinned, and otherwise it is the only pinned line.     *)
(***************************************************************************)
PinShown(room) ==
  LET pins == {n \in DOMAIN room.history : room.history[n].kind = "pin"}
  IN  IF room.pin_message = NoPin
      THEN pins = {}
      ELSE \E n \in pins : pins = {n} /\ room.history[n] = room.pin_message

HistoryBounded(room) == Len(room.history) <= HistoryMax

============================================================================
