-------------------------- MODULE ChatServerProofs --------------------------
(***************************************************************************)
(* The accounts, rooms and sessions of the chat server stay consistent,    *)
(* for every number of users, rooms and connections, and its rooms         *)
(* implement modules Lobby and RoomLogs.                                   *)
(*                                                                         *)
(* The inductive invariant Inv is the conjunction of the invariants the    *)
(* runs check: none of them is inductive alone.  The types need            *)
(* RoomsConsistent (a message is sent to client_list[v].sd for a member v, *)
(* who must be registered); RoomsConsistent needs SessionsSettled (login   *)
(* may bind a user who is in a room, logout may not unbind one); and       *)
(* SessionsDistinct needs SessionsSettled (a bound descriptor cannot log   *)
(* in again because logged_in reads TRUE).                                 *)
(***************************************************************************)
EXTENDS ChatServer, SequenceTheorems, FiniteSetTheorems,
        WellFoundedInduction, TLAPS

\* Min returns a lower bound that belongs to the set.
LEMMA MinProperties ==
  ASSUME NEW S \in SUBSET Nat, S # {}
  PROVE  Min(S) \in S /\ \A n \in S : Min(S) <= n
<1>1. PICK x \in S : \A y \in S : ~ (<<y, x>> \in OpToRel(<, Nat))
  BY NatLessThanWellFounded, WFMin
<1>2. \A y \in S : x =< y
  <2> TAKE y \in S
  <2>1. ~(y < x)
    BY <1>1 DEF OpToRel
  <2> QED
    BY <2>1
<1> QED
  BY <1>2 DEF Min

-----------------------------------------------------------------------------
(* The history and the pin of one room: what its operations preserve      *)

\* RemoveFirst removes what stands at some position of the element.
LEMMA RemoveFirstIsRemoveAt ==
  ASSUME NEW s, Len(s) \in Nat, NEW e, NEW m \in 1..Len(s), s[m] = e
  PROVE  \E k \in 1..Len(s) : s[k] = e /\ RemoveFirst(s, e) = RemoveAt(s, k)
<1> DEFINE I == {i \in 1..Len(s) : s[i] = e}
           k == Min(I)
<1>1. I \in SUBSET Nat /\ I # {}
  OBVIOUS
<1>2. k \in I
  BY <1>1, MinProperties
<1>3. RemoveFirst(s, e) = RemoveAt(s, k)
  BY DEF RemoveFirst, SelectInSeq
<1> HIDE DEF k
<1> QED
  BY <1>2, <1>3

\* Removing the first occurrence of an element that is there closes the gap.
LEMMA RemoveFirstProperties ==
  ASSUME NEW S, NEW s \in Seq(S), NEW e, NEW m \in 1..Len(s), s[m] = e
  PROVE  \E k \in 1..Len(s) :
           /\ s[k] = e
           /\ RemoveFirst(s, e) \in Seq(S)
           /\ Len(RemoveFirst(s, e)) = Len(s) - 1
           /\ \A n \in 1..Len(s) - 1 :
                RemoveFirst(s, e)[n] = IF n < k THEN s[n] ELSE s[n + 1]
<1>1. Len(s) \in Nat
  BY LenProperties
<1>2. PICK k \in 1..Len(s) : s[k] = e /\ RemoveFirst(s, e) = RemoveAt(s, k)
  BY <1>1, RemoveFirstIsRemoveAt
<1> DEFINE a == SubSeq(s, 1, k - 1)
           b == SubSeq(s, k + 1, Len(s))
<1>3. RemoveFirst(s, e) = a \o b
  BY <1>2 DEF RemoveAt
<1>4. /\ a \in Seq(S)
      /\ Len(a) = k - 1
      /\ \A n \in 1..k - 1 : a[n] = s[n]
  <2>1. \A n \in 1..k - 1 : s[n] \in S
    BY <1>1, <1>2, ElementOfSeq
  <2> QED
    BY <1>1, <1>2, <2>1, SubSeqProperties
<1>5. /\ b \in Seq(S)
      /\ Len(b) = Len(s) - k
      /\ \A n \in 1..Len(s) - k : b[n] = s[k + n]
  <2>1. \A n \in k + 1..Len(s) : s[n] \in S
    BY <1>1, <1>2, ElementOfSeq
  <2>2. /\ b \in Seq(S)
        /\ Len(b) = IF k + 1 <= Len(s) THEN Len(s) - (k + 1) + 1 ELSE 0
        /\ \A n \in 1..Len(s) - (k + 1) + 1 : b[n] = s[k + 1 + n - 1]
    BY <1>1, <1>2, <2>1, SubSeqProperties
  <2> HIDE DEF b
  <2>3. Len(b) = Len(s) - k
    BY <1>1, <1>2, <2>2
  <2>4. ASSUME NEW n \in 1..Len(s) - k
        PROVE  b[n] = s[k + n]
    <3>1. n \in 1..Len(s) - (k + 1) + 1 /\ k + 1 + n - 1 = k + n
      BY <1>1, <1>2
    <3> QED
      BY <2>2, <3>1
  <2> QED
    BY <2>2, <2>3, <2>4
<1> HIDE DEF a, b
<1>6. /\ a \o b \in Seq(S)
      /\ Len(a \o b) = Len(s) - 1
      /\ \A n \in 1..Len(s) - 1 :
           (a \o b)[n] = IF n < k THEN s[n] ELSE s[n + 1]
  <2>1. /\ a \o b \in Seq(S)
        /\ Len(a \o b) = Len(a) + Len(b)
        /\ \A n \in 1..Len(a) + Len(b) :
             (a \o b)[n] = IF n <= Len(a) THEN a[n] ELSE b[n - Len(a)]
    BY <1>4, <1>5, ConcatProperties
  <2>2. Len(a) + Len(b) = Len(s) - 1
    BY <1>1, <1>2, <1>4, <1>5
  <2>3. ASSUME NEW n \in 1..Len(s) - 1
        PROVE  (a \o b)[n] = IF n < k THEN s[n] ELSE s[n + 1]
    <3>1. CASE n < k
      <4>1. n <= Len(a) /\ n \in 1..k - 1
        BY <1>1, <1>2, <1>4, <3>1
      <4> QED
        BY <1>4, <2>1, <2>2, <3>1, <4>1
    <3>2. CASE n >= k
      <4>1. /\ ~(n <= Len(a))
            /\ n - Len(a) \in 1..Len(s) - k
            /\ k + (n - Len(a)) = n + 1
            /\ ~(n < k)
        BY <1>1, <1>2, <1>4, <3>2
      <4> QED
        BY <1>5, <2>1, <2>2, <4>1
    <3>3. n < k \/ n >= k
      BY <1>1, <1>2
    <3> QED
      BY ONLY <3>1, <3>2, <3>3
  <2> QED
    BY <2>1, <2>2, <2>3
<1> QED
  BY <1>2, <1>3, <1>6

LEMMA NewRoomOK ==
  NewRoom \in ChatRoomInfo /\ PinShown(NewRoom) /\ HistoryBounded(NewRoom)
<1>1. << >> \in Seq(Line) /\ Len(<< >>) = 0
  BY EmptySeq
<1>2. DOMAIN << >> = {}
  BY <1>1, LenProperties
<1> QED
  BY <1>1, <1>2, HistoryAssumption
     DEF NewRoom, ChatRoomInfo, PinShown, HistoryBounded

LEMMA LinesTyped ==
  ASSUME NEW u \in Users, NEW t \in Texts
  PROVE  /\ ChatLine(u, t) \in Line /\ ChatLine(u, t).kind = "chat"
         /\ PinLine(u, t) \in Line /\ PinLine(u, t).kind = "pin"
BY HistoryAssumption DEF ChatLine, PinLine, Line

LEMMA NoPinIsNoLine == NoPin \notin Line
BY DEF NoPin, Line

\* The line of the pin leaves the history, and no pinned line is left.
LEMMA EraseOldPinProperties ==
  ASSUME NEW room \in ChatRoomInfo
  PROVE  /\ EraseOldPin(room) \in ChatRoomInfo
         /\ EraseOldPin(room) =
              [room EXCEPT !.history = EraseOldPin(room).history]
         /\ HistoryBounded(room) => HistoryBounded(EraseOldPin(room))
         /\ PinShown(room) =>
              \A n \in DOMAIN EraseOldPin(room).history :
                EraseOldPin(room).history[n].kind # "pin"
<1> DEFINE h == room.history
<1>1. h \in Seq(Line) /\ Len(h) \in Nat /\ DOMAIN h = 1..Len(h)
  BY LenProperties DEF ChatRoomInfo
<1>2. room = [room EXCEPT !.history = h]
  BY DEF ChatRoomInfo
<1>3. CASE room.pin_message = NoPin
  BY <1>2, <1>3 DEF EraseOldPin, PinShown
<1>4. CASE room.pin_message # NoPin
  <2> DEFINE g == RemoveFirst(h, room.pin_message)
  <2>1. EraseOldPin(room) = [room EXCEPT !.history = g]
    BY <1>4 DEF EraseOldPin
  <2>2. CASE \A m \in 1..Len(h) : h[m] # room.pin_message
    <3>1. g = h
      BY <2>2 DEF RemoveFirst
    <3>2. ~PinShown(room)
      BY <1>1, <1>4, <2>2 DEF PinShown
    <3> QED
      BY <1>2, <2>1, <3>1, <3>2
  <2>3. CASE \E m \in 1..Len(h) : h[m] = room.pin_message
    <3>1. PICK k \in 1..Len(h) :
             /\ h[k] = room.pin_message
             /\ g \in Seq(Line)
             /\ Len(g) = Len(h) - 1
             /\ \A n \in 1..Len(h) - 1 :
                  g[n] = IF n < k THEN h[n] ELSE h[n + 1]
      BY <1>1, <2>3, RemoveFirstProperties
    <3> HIDE DEF g
    <3>2. EraseOldPin(room).history = g
      BY <2>1 DEF ChatRoomInfo
    <3>3. EraseOldPin(room) \in ChatRoomInfo
      BY <2>1, <3>1 DEF ChatRoomInfo
    <3>4. HistoryBounded(room) => HistoryBounded(EraseOldPin(room))
      BY <1>1, <3>1, <3>2, HistoryAssumption DEF HistoryBounded
    <3>5. ASSUME PinShown(room), NEW n \in DOMAIN g
          PROVE  g[n].kind # "pin"
      <4>1. DOMAIN g = 1..Len(h) - 1
        BY <3>1, LenProperties
      <4>2. PICK p \in DOMAIN h :
              /\ {i \in DOMAIN h : h[i].kind = "pin"} = {p}
              /\ h[p] = room.pin_message
        BY <1>4, <3>5 DEF PinShown
      <4>3. k = p
        BY <1>1, <3>1, <4>2
      <4>4. \A i \in 1..Len(h) : i # k => h[i].kind # "pin"
        BY <1>1, <4>2, <4>3
      <4>5. /\ n < k => n \in 1..Len(h) /\ n # k
            /\ ~(n < k) => n + 1 \in 1..Len(h) /\ n + 1 # k
        BY <1>1, <3>1, <4>1
      <4> QED
        BY <3>1, <4>1, <4>4, <4>5
    <3> QED
      BY <2>1, <3>2, <3>3, <3>4, <3>5
  <2> QED
    BY <2>2, <2>3
<1> QED
  BY <1>3, <1>4

(***************************************************************************)
(* Adding a line to a room whose pin is shown, or whose pin is the very    *)
(* line that is added.                                                     *)
(***************************************************************************)
LEMMA AddMessageTyped ==
  ASSUME NEW room \in ChatRoomInfo, NEW line \in Line, HistoryBounded(room)
  PROVE  /\ AddMessage(room, line) \in ChatRoomInfo
         /\ HistoryBounded(AddMessage(room, line))
<1> DEFINE h == room.history
<1>1. h \in Seq(Line) /\ Len(h) \in Nat
  BY LenProperties DEF ChatRoomInfo
<1>2. CASE Len(h) = HistoryMax
  <2>1. h # << >>
    BY <1>1, <1>2, EmptySeq, HistoryAssumption
  <2>2. Tail(h) \in Seq(Line) /\ Len(Tail(h)) = Len(h) - 1
    BY <1>1, <2>1, HeadTailProperties
  <2>3. /\ Append(Tail(h), line) \in Seq(Line)
        /\ Len(Append(Tail(h), line)) = Len(h)
    BY <1>1, <2>2, AppendProperties
  <2>4. AddMessage(room, line) =
          [room EXCEPT !.history = Append(Tail(h), line),
                       !.pin_message = IF Head(h) = room.pin_message
                                       THEN NoPin ELSE room.pin_message]
    BY <1>2 DEF AddMessage
  <2> QED
    BY <1>2, <2>3, <2>4 DEF ChatRoomInfo, HistoryBounded
<1>3. CASE Len(h) # HistoryMax
  <2>1. /\ Append(h, line) \in Seq(Line)
        /\ Len(Append(h, line)) = Len(h) + 1
    BY <1>1, AppendProperties
  <2>2. AddMessage(room, line) = [room EXCEPT !.history = Append(h, line)]
    BY <1>3 DEF AddMessage
  <2>3. Len(h) + 1 <= HistoryMax
    BY <1>1, <1>3, HistoryAssumption DEF HistoryBounded
  <2> QED
    BY <2>1, <2>2, <2>3 DEF ChatRoomInfo, HistoryBounded
<1> QED
  BY <1>2, <1>3

\* The history after AddMessage: the old lines moved down by d, which is 1
\* when the history was full and 0 otherwise, and then the new line.
LEMMA AddMessageShape ==
  ASSUME NEW room \in ChatRoomInfo, NEW line \in Line
  PROVE  LET h == room.history
             g == AddMessage(room, line).history
         IN  \E d \in {0, 1} :
               /\ d <= Len(h)
               /\ Len(h) \in Nat /\ DOMAIN h = 1..Len(h)
               /\ DOMAIN g = 1..(Len(h) - d + 1)
               /\ \A n \in 1..Len(h) - d : g[n] = h[n + d]
               /\ g[Len(h) - d + 1] = line
               /\ AddMessage(room, line).pin_message =
                    IF d = 1 /\ h[1] = room.pin_message
                    THEN NoPin ELSE room.pin_message
<1> DEFINE h == room.history
           g == AddMessage(room, line).history
<1>1. h \in Seq(Line) /\ Len(h) \in Nat /\ DOMAIN h = 1..Len(h)
  BY LenProperties DEF ChatRoomInfo
<1>2. CASE Len(h) = HistoryMax
  <2>1. h # << >>
    BY <1>1, <1>2, EmptySeq, HistoryAssumption
  <2>2. /\ Tail(h) \in Seq(Line)
        /\ Len(Tail(h)) = Len(h) - 1
        /\ \A n \in 1..Len(Tail(h)) : Tail(h)[n] = h[n + 1]
    BY <1>1, <2>1, HeadTailProperties
  <2>3. /\ Append(Tail(h), line) \in Seq(Line)
        /\ Len(Append(Tail(h), line)) = Len(Tail(h)) + 1
        /\ \A n \in 1..Len(Tail(h)) : Append(Tail(h), line)[n] = Tail(h)[n]
        /\ Append(Tail(h), line)[Len(Tail(h)) + 1] = line
    BY <2>2, AppendProperties
  <2>4. DOMAIN Append(Tail(h), line) = 1..Len(Append(Tail(h), line))
    BY <2>3, LenProperties
  <2>5. /\ g = Append(Tail(h), line)
        /\ AddMessage(room, line).pin_message =
             IF Head(h) = room.pin_message THEN NoPin ELSE room.pin_message
    BY <1>2 DEF AddMessage, ChatRoomInfo
  <2>6. Head(h) = h[1]
    BY <1>1, <2>1
  <2>7. 1 <= Len(h)
    BY <1>1, <2>1, EmptySeq
  <2> HIDE DEF g, h
  <2>8. /\ DOMAIN g = 1..(Len(h) - 1 + 1)
        /\ \A n \in 1..Len(h) - 1 : g[n] = h[n + 1]
        /\ g[Len(h) - 1 + 1] = line
    BY <2>2, <2>3, <2>4, <2>5
  <2> QED
    BY <1>1, <2>5, <2>6, <2>7, <2>8 DEF g, h
<1>3. CASE Len(h) # HistoryMax
  <2>1. /\ Append(h, line) \in Seq(Line)
        /\ Len(Append(h, line)) = Len(h) + 1
        /\ \A n \in 1..Len(h) : Append(h, line)[n] = h[n]
        /\ Append(h, line)[Len(h) + 1] = line
    BY <1>1, AppendProperties
  <2>2. DOMAIN Append(h, line) = 1..Len(Append(h, line))
    BY <2>1, LenProperties
  <2>3. /\ g = Append(h, line)
        /\ AddMessage(room, line).pin_message = room.pin_message
    BY <1>3 DEF AddMessage, ChatRoomInfo
  <2> HIDE DEF g, h
  <2>4. /\ Len(h) - 0 = Len(h)
        /\ 0 <= Len(h)
        /\ \A n \in 1..Len(h) : n + 0 = n
    BY <1>1
  <2> QED
    BY <1>1, <2>1, <2>2, <2>3, <2>4 DEF g, h
<1> QED
  BY <1>2, <1>3

\* A chat line leaves the pin shown; if it pushes the pin out, both copies go.
LEMMA AddChatLine ==
  ASSUME NEW room \in ChatRoomInfo, NEW line \in Line,
         line.kind = "chat", PinShown(room)
  PROVE  PinShown(AddMessage(room, line))
<1> DEFINE h == room.history
           new == AddMessage(room, line)
           g == new.history
<1>1. PICK d \in {0, 1} :
        /\ d <= Len(h)
        /\ Len(h) \in Nat /\ DOMAIN h = 1..Len(h)
        /\ DOMAIN g = 1..(Len(h) - d + 1)
        /\ \A n \in 1..Len(h) - d : g[n] = h[n + d]
        /\ g[Len(h) - d + 1] = line
        /\ new.pin_message =
             IF d = 1 /\ h[1] = room.pin_message THEN NoPin ELSE room.pin_message
  BY AddMessageShape
<1> HIDE DEF new, h
<1>2. \A n \in DOMAIN g :
        g[n].kind = "pin" => /\ n \in 1..Len(h) - d
                             /\ n + d \in DOMAIN h
                             /\ h[n + d].kind = "pin"
                             /\ g[n] = h[n + d]
  <2> SUFFICES ASSUME NEW n \in DOMAIN g, g[n].kind = "pin"
               PROVE  /\ n \in 1..Len(h) - d
                      /\ n + d \in DOMAIN h
                      /\ h[n + d].kind = "pin"
                      /\ g[n] = h[n + d]
    OBVIOUS
  <2>1. n # Len(h) - d + 1
    BY <1>1
  <2>2. n \in 1..Len(h) - d /\ n + d \in 1..Len(h)
    BY <1>1, <2>1
  <2> QED
    BY <1>1, <2>2
<1>3. CASE room.pin_message = NoPin
  <2>1. \A n \in DOMAIN h : h[n].kind # "pin"
    BY <1>3 DEF PinShown, h
  <2>2. new.pin_message = NoPin
    BY <1>1, <1>3
  <2> QED
    BY <1>2, <2>1, <2>2 DEF PinShown, new
<1>4. CASE room.pin_message # NoPin
  <2>1. PICK p \in DOMAIN h :
          /\ h[p] = room.pin_message
          /\ h[p].kind = "pin"
          /\ \A n \in DOMAIN h : h[n].kind = "pin" => n = p
    BY <1>4 DEF PinShown, h
  <2>2. CASE d = 1 /\ p = 1
    <3>1. new.pin_message = NoPin
      BY <1>1, <2>1, <2>2
    <3>2. \A n \in DOMAIN g : g[n].kind # "pin"
      <4> SUFFICES ASSUME NEW n \in DOMAIN g, g[n].kind = "pin" PROVE FALSE
        OBVIOUS
      <4>1. n \in Nat /\ n >= 1 /\ n + d = p
        BY <1>1, <1>2, <2>1
      <4> QED
        BY <2>2, <4>1
    <3> QED
      BY <3>1, <3>2 DEF PinShown, new
  <2>3. CASE ~(d = 1 /\ p = 1)
    <3>1. h[1] = room.pin_message => p = 1
      <4>1. 1 \in DOMAIN h
        BY <1>1, <2>1
      <4> QED
        BY <2>1, <4>1
    <3>2. new.pin_message = room.pin_message
      BY <1>1, <2>3, <3>1
    <3>3. p - d \in 1..Len(h) - d /\ p - d + d = p /\ p - d \in DOMAIN g
      BY <1>1, <2>1, <2>3
    <3>4. g[p - d] = room.pin_message /\ g[p - d].kind = "pin"
      BY <1>1, <2>1, <3>3
    <3>5. \A n \in DOMAIN g : g[n].kind = "pin" => n = p - d
      <4> SUFFICES ASSUME NEW n \in DOMAIN g, g[n].kind = "pin"
                   PROVE  n = p - d
        OBVIOUS
      <4>1. n + d = p /\ n \in Int
        BY <1>1, <1>2, <2>1
      <4> QED
        BY <4>1
    <3> QED
      BY <1>4, <3>2, <3>3, <3>4, <3>5 DEF PinShown, new
  <2> QED
    BY <2>2, <2>3
<1> QED
  BY <1>3, <1>4

\* A new pin whose predecessor was erased is the only pinned line.
LEMMA AddPinLine ==
  ASSUME NEW room \in ChatRoomInfo, NEW line \in Line,
         line.kind = "pin", room.pin_message = line,
         \A n \in DOMAIN room.history : room.history[n].kind # "pin"
  PROVE  PinShown(AddMessage(room, line))
<1> DEFINE h == room.history
           new == AddMessage(room, line)
           g == new.history
<1>1. PICK d \in {0, 1} :
        /\ d <= Len(h)
        /\ Len(h) \in Nat /\ DOMAIN h = 1..Len(h)
        /\ DOMAIN g = 1..(Len(h) - d + 1)
        /\ \A n \in 1..Len(h) - d : g[n] = h[n + d]
        /\ g[Len(h) - d + 1] = line
        /\ new.pin_message =
             IF d = 1 /\ h[1] = room.pin_message THEN NoPin ELSE room.pin_message
  BY AddMessageShape
<1>2. \A n \in DOMAIN h : h[n].kind # "pin"
  OBVIOUS
<1> HIDE DEF new, h
<1>3. new.pin_message = line
  <2>1. CASE d = 1
    <3>1. 1 \in DOMAIN h
      BY <1>1, <2>1
    <3>2. h[1] # line
      BY <1>2, <3>1
    <3> QED
      BY <1>1, <3>2
  <2>2. CASE d # 1
    BY <1>1, <2>2
  <2> QED
    BY <2>1, <2>2
<1>4. \A n \in DOMAIN g : g[n].kind = "pin" => n = Len(h) - d + 1
  <2> SUFFICES ASSUME NEW n \in DOMAIN g, n # Len(h) - d + 1
               PROVE  g[n].kind # "pin"
    OBVIOUS
  <2>1. n \in 1..Len(h) - d /\ n + d \in DOMAIN h
    BY <1>1
  <2> QED
    BY <1>1, <1>2, <2>1
<1>5. Len(h) - d + 1 \in DOMAIN g
  BY <1>1
<1>6. line # NoPin
  BY NoPinIsNoLine
<1> QED
  BY <1>1, <1>3, <1>4, <1>5, <1>6 DEF PinShown, new

\* "/pin" and "/delete-pin" leave a room in which the pin is shown.
LEMMA SetPinProperties ==
  ASSUME NEW room \in ChatRoomInfo, NEW line \in Line, line.kind = "pin",
         PinShown(room), HistoryBounded(room)
  PROVE  /\ SetPin(room, line) \in ChatRoomInfo
         /\ PinShown(SetPin(room, line))
         /\ HistoryBounded(SetPin(room, line))
<1> DEFINE erased == [EraseOldPin(room) EXCEPT !.pin_message = line]
<1>1. /\ erased \in ChatRoomInfo
      /\ erased.pin_message = line
      /\ HistoryBounded(erased)
      /\ \A n \in DOMAIN erased.history : erased.history[n].kind # "pin"
  BY EraseOldPinProperties DEF ChatRoomInfo, HistoryBounded
<1> HIDE DEF erased
<1>2. /\ AddMessage(erased, line) \in ChatRoomInfo
      /\ HistoryBounded(AddMessage(erased, line))
  BY <1>1, AddMessageTyped
<1>3. PinShown(AddMessage(erased, line))
  BY <1>1, AddPinLine
<1> QED
  BY <1>2, <1>3 DEF SetPin, erased

LEMMA ClearPinProperties ==
  ASSUME NEW room \in ChatRoomInfo, PinShown(room), HistoryBounded(room)
  PROVE  /\ ClearPin(room) \in ChatRoomInfo
         /\ PinShown(ClearPin(room))
         /\ HistoryBounded(ClearPin(room))
BY EraseOldPinProperties DEF ClearPin, ChatRoomInfo, HistoryBounded, PinShown

\* No operation on the history touches the members or the owner.
LEMMA OthersKept ==
  ASSUME NEW room \in ChatRoomInfo, NEW line \in Line
  PROVE  /\ AddMessage(room, line).members = room.members
         /\ AddMessage(room, line).owner = room.owner
         /\ SetPin(room, line).members = room.members
         /\ SetPin(room, line).owner = room.owner
         /\ ClearPin(room).members = room.members
         /\ ClearPin(room).owner = room.owner
<1>1. /\ EraseOldPin(room) \in ChatRoomInfo
      /\ EraseOldPin(room).members = room.members
      /\ EraseOldPin(room).owner = room.owner
  BY EraseOldPinProperties DEF ChatRoomInfo
<1>2. \A r \in ChatRoomInfo : /\ AddMessage(r, line).members = r.members
                             /\ AddMessage(r, line).owner = r.owner
  BY DEF AddMessage, ChatRoomInfo
<1>3. [EraseOldPin(room) EXCEPT !.pin_message = line] \in ChatRoomInfo
  BY <1>1 DEF ChatRoomInfo
<1> QED
  BY <1>1, <1>2, <1>3 DEF SetPin, ClearPin, ChatRoomInfo

-----------------------------------------------------------------------------
(* The inductive invariant                                                 *)

\* What is said about client_list and chat_rooms alone.
Core ==
  /\ DOMAIN client_list \subseteq Users
  /\ client_list \in [DOMAIN client_list -> ClientInfo]
  /\ DOMAIN chat_rooms \subseteq Rooms
  /\ chat_rooms \in [DOMAIN chat_rooms -> ChatRoomInfo]
  /\ RoomsConsistent
  /\ SessionsDistinct
  /\ SessionsSettled
  /\ PinIsLine

\* What is said about the connections.
Aux ==
  /\ open \subseteq Fds
  /\ who \in [Fds -> Users \cup {NoOne}]
  /\ sent \subseteq SendCall
  /\ running \in BOOLEAN

Inv == Core /\ Aux

-----------------------------------------------------------------------------
(* Facts about one state *)

LEMMA Numbers ==
  /\ NoRoom \notin Rooms
  /\ NoSd \notin Fds
  /\ NoRoom \in Int /\ NoSd \in Int
  /\ Rooms \subseteq Int /\ Fds \subseteq Int
BY ServerAssumption DEF NoRoom, NoSd

LEMMA ClientFields ==
  ASSUME Core, NEW u \in DOMAIN client_list
  PROVE  /\ u \in Users
         /\ client_list[u] \in ClientInfo
         /\ client_list[u].passwd \in Passwds
         /\ client_list[u].status \in Statuses
         /\ client_list[u].room_number \in Rooms \cup {NoRoom}
         /\ client_list[u].sd \in Fds \cup {NoSd}
         /\ client_list[u].logged_in \in BOOLEAN
<1>1. client_list[u] \in ClientInfo
  BY DEF Core
<1> QED
  BY <1>1 DEF Core, ClientInfo

\* The room of a number, there or not, is a well-formed one whose members
\* are the users with that room number.
LEMMA RoomFacts ==
  ASSUME Core, NEW r \in Rooms
  PROVE  /\ Room(r) \in ChatRoomInfo
         /\ PinShown(Room(r)) /\ HistoryBounded(Room(r))
         /\ Room(r).members =
              {u \in DOMAIN client_list : client_list[u].room_number = r}
         /\ Room(r).members \subseteq DOMAIN client_list
<1>1. CASE r \in DOMAIN chat_rooms
  <2>1. chat_rooms[r] \in ChatRoomInfo
    BY <1>1 DEF Core
  <2> QED
    BY <1>1, <2>1 DEF Core, Room, RoomsConsistent, PinIsLine
<1>2. CASE r \notin DOMAIN chat_rooms
  <2>1. Room(r) = NewRoom
    BY <1>2 DEF Room
  <2>2. \A u \in DOMAIN client_list : client_list[u].room_number # r
    BY <1>2, Numbers DEF Core, RoomsConsistent
  <2>3. NewRoom.members = {}
    BY DEF NewRoom
  <2> QED
    BY <2>1, <2>2, <2>3, NewRoomOK
<1> QED
  BY <1>1, <1>2

\* A client in a room is in a room that exists.
LEMMA InRoomFacts ==
  ASSUME Core, NEW sd, NEW u, InRoom(sd, u)
  PROVE  /\ u \in DOMAIN client_list
         /\ client_list[u].sd = sd
         /\ client_list[u].room_number \in DOMAIN chat_rooms
         /\ client_list[u].room_number \in Rooms
         /\ Room(client_list[u].room_number) =
              chat_rooms[client_list[u].room_number]
<1>1. u \in DOMAIN client_list /\ client_list[u].sd = sd
  BY DEF InRoom, Attached
<1>2. client_list[u].room_number \in DOMAIN chat_rooms
  BY <1>1 DEF InRoom, Core, RoomsConsistent
<1> QED
  BY <1>1, <1>2 DEF Core, Room

\* A step that leaves client_list and chat_rooms alone keeps Core.
LEMMA CoreUnchanged ==
  ASSUME Core, UNCHANGED <<client_list, chat_rooms>> PROVE Core'
BY DEF Core, RoomsConsistent, SessionsDistinct, SessionsSettled, PinIsLine

\* A step that replaces a room by one with the same members and owner and a
\* well-formed history keeps Core.
LEMMA CoreNewHistory ==
  ASSUME Core, NEW r \in DOMAIN chat_rooms, NEW room \in ChatRoomInfo,
         room.members = chat_rooms[r].members,
         room.owner = chat_rooms[r].owner,
         PinShown(room), HistoryBounded(room),
         chat_rooms' = PutRoom(r, room), UNCHANGED client_list
  PROVE  Core'
<1>1. /\ DOMAIN chat_rooms' = DOMAIN chat_rooms
      /\ \A n \in DOMAIN chat_rooms :
           chat_rooms'[n] = IF n = r THEN room ELSE chat_rooms[n]
  BY DEF PutRoom
<1>2. chat_rooms' \in [DOMAIN chat_rooms' -> ChatRoomInfo]
  BY DEF PutRoom, Core
<1>3. RoomsConsistent'
  BY <1>1 DEF Core, RoomsConsistent
<1>4. PinIsLine'
  BY <1>1 DEF Core, PinIsLine
<1>5. SessionsDistinct' /\ SessionsSettled'
  BY DEF Core, SessionsDistinct, SessionsSettled
<1> QED
  BY <1>1, <1>2, <1>3, <1>4, <1>5 DEF Core

-----------------------------------------------------------------------------
(* Core is preserved: one lemma for each command that changes the maps *)

LEMMA PinCore ==
  ASSUME Core, NEW sd \in Fds, NEW u \in Users, NEW t \in Texts, Pin(sd, u, t)
  PROVE  Core'
<1> DEFINE r == client_list[u].room_number
<1>1. r \in DOMAIN chat_rooms /\ r \in Rooms /\ Room(r) = chat_rooms[r]
  BY InRoomFacts DEF Pin
<1>2. PinLine(u, t) \in Line /\ PinLine(u, t).kind = "pin"
  BY LinesTyped
<1>3. Room(r) \in ChatRoomInfo /\ PinShown(Room(r)) /\ HistoryBounded(Room(r))
  BY <1>1, RoomFacts
<1>4. /\ chat_rooms' = PutRoom(r, SetPin(Room(r), PinLine(u, t)))
      /\ UNCHANGED client_list
  BY DEF Pin
<1> QED
  BY <1>1, <1>2, <1>3, <1>4, SetPinProperties, OthersKept, CoreNewHistory

LEMMA DeletePinCore ==
  ASSUME Core, NEW sd \in Fds, NEW u \in Users, DeletePin(sd, u)
  PROVE  Core'
<1> DEFINE r == client_list[u].room_number
<1>1. r \in DOMAIN chat_rooms /\ r \in Rooms /\ Room(r) = chat_rooms[r]
  BY InRoomFacts DEF DeletePin
<1>2. Room(r) \in ChatRoomInfo /\ PinShown(Room(r)) /\ HistoryBounded(Room(r))
  BY <1>1, RoomFacts
<1>3. UNCHANGED client_list
  BY DEF DeletePin
<1>4. CASE chat_rooms' = PutRoom(r, Room(r))
  BY <1>1, <1>2, <1>3, <1>4, CoreNewHistory
<1>5. CASE chat_rooms' = PutRoom(r, ClearPin(Room(r)))
  <2>1. /\ ClearPin(Room(r)).members = Room(r).members
        /\ ClearPin(Room(r)).owner = Room(r).owner
    BY <1>2, EraseOldPinProperties DEF ClearPin, ChatRoomInfo
  <2> QED
    BY <1>1, <1>2, <1>3, <1>5, <2>1, ClearPinProperties, CoreNewHistory
<1> QED
  BY <1>4, <1>5 DEF DeletePin

LEMMA SayCore ==
  ASSUME Core, NEW sd \in Fds, NEW u \in Users, NEW t \in Texts, Say(sd, u, t)
  PROVE  Core'
<1> DEFINE r == client_list[u].room_number
<1>1. r \in DOMAIN chat_rooms /\ r \in Rooms /\ Room(r) = chat_rooms[r]
  BY InRoomFacts DEF Say
<1>2. ChatLine(u, t) \in Line /\ ChatLine(u, t).kind = "chat"
  BY LinesTyped
<1>3. Room(r) \in ChatRoomInfo /\ PinShown(Room(r)) /\ HistoryBounded(Room(r))
  BY <1>1, RoomFacts
<1>4. /\ chat_rooms' = PutRoom(r, AddMessage(Room(r), ChatLine(u, t)))
      /\ UNCHANGED client_list
  BY DEF Say
<1> QED
  BY <1>1, <1>2, <1>3, <1>4, AddMessageTyped, AddChatLine, OthersKept,
     CoreNewHistory

LEMMA ExitChatRoomCore ==
  ASSUME Core, NEW sd \in Fds, NEW u \in Users, ExitChatRoom(sd, u)
  PROVE  Core'
<1> DEFINE r == client_list[u].room_number
           left == [chat_rooms[r] EXCEPT !.members = @ \ {u}]
<1>1. /\ u \in DOMAIN client_list /\ client_list[u].sd = sd
      /\ r \in DOMAIN chat_rooms /\ r \in Rooms /\ Room(r) = chat_rooms[r]
  BY InRoomFacts DEF ExitChatRoom
<1>2. /\ client_list' = [client_list EXCEPT ![u].room_number = NoRoom]
      /\ chat_rooms' = PutRoom(r, left)
  BY <1>1 DEF ExitChatRoom
<1>3. /\ DOMAIN client_list' = DOMAIN client_list
      /\ \A v \in DOMAIN client_list :
           /\ client_list'[v].passwd = client_list[v].passwd
           /\ client_list'[v].status = client_list[v].status
           /\ client_list'[v].sd = client_list[v].sd
           /\ client_list'[v].logged_in = client_list[v].logged_in
           /\ client_list'[v].room_number =
                IF v = u THEN NoRoom ELSE client_list[v].room_number
  BY <1>1, <1>2, ClientFields DEF ClientInfo
<1>4. client_list' \in [DOMAIN client_list' -> ClientInfo]
  BY <1>1, <1>2 DEF Core, ClientInfo
<1>5. /\ left \in ChatRoomInfo
      /\ left.members = chat_rooms[r].members \ {u}
      /\ left.owner = chat_rooms[r].owner
      /\ left.history = chat_rooms[r].history
      /\ left.pin_message = chat_rooms[r].pin_message
  BY <1>1, RoomFacts DEF ChatRoomInfo
<1> HIDE DEF left
<1>6. /\ DOMAIN chat_rooms' = DOMAIN chat_rooms
      /\ \A n \in DOMAIN chat_rooms :
           chat_rooms'[n] = IF n = r THEN left ELSE chat_rooms[n]
  BY <1>1, <1>2 DEF PutRoom
<1>7. chat_rooms' \in [DOMAIN chat_rooms' -> ChatRoomInfo]
  BY <1>1, <1>2, <1>5 DEF PutRoom, Core
<1>8. RoomsConsistent'
  <2>1. \A n \in DOMAIN chat_rooms :
          /\ chat_rooms'[n].owner \in DOMAIN client_list'
          /\ chat_rooms'[n].members =
               {v \in DOMAIN client_list' : client_list'[v].room_number = n}
    <3> SUFFICES ASSUME NEW n \in DOMAIN chat_rooms
                 PROVE  /\ chat_rooms'[n].owner \in DOMAIN client_list'
                        /\ chat_rooms'[n].members =
                             {v \in DOMAIN client_list' :
                                client_list'[v].room_number = n}
      OBVIOUS
    <3>1. n # NoRoom
      BY Numbers DEF Core
    <3>2. chat_rooms[n].members =
            {v \in DOMAIN client_list : client_list[v].room_number = n}
      BY DEF Core, RoomsConsistent
    <3>3. chat_rooms[n].owner \in DOMAIN client_list
      BY DEF Core, RoomsConsistent
    <3> QED
      BY <1>1, <1>3, <1>5, <1>6, <3>1, <3>2, <3>3
  <2>2. \A v \in DOMAIN client_list :
          client_list'[v].room_number \in DOMAIN chat_rooms \cup {NoRoom}
    BY <1>3 DEF Core, RoomsConsistent
  <2> QED
    BY <1>3, <1>6, <2>1, <2>2 DEF RoomsConsistent
<1>9. SessionsDistinct' /\ SessionsSettled'
  BY <1>1, <1>3 DEF Core, SessionsDistinct, SessionsSettled
<1>10. PinIsLine'
  BY <1>5, <1>6 DEF Core, PinIsLine, PinShown, HistoryBounded
<1> QED
  BY <1>3, <1>4, <1>6, <1>7, <1>8, <1>9, <1>10 DEF Core

LEMMA RegisterCore ==
  ASSUME Core, NEW sd \in Fds, NEW u \in Users, NEW p \in Passwds,
         Register(sd, u, p)
  PROVE  Core'
<1>1. CASE u \in DOMAIN client_list
  BY <1>1, CoreUnchanged DEF Register
<1>2. CASE u \notin DOMAIN client_list
  <2> DEFINE new == [ passwd |-> p, status |-> "offline", room_number |-> NoRoom,
                      sd |-> NoSd, logged_in |-> FALSE ]
  <2>1. /\ client_list' = [v \in DOMAIN client_list \cup {u} |->
                             IF v = u THEN new ELSE client_list[v]]
        /\ UNCHANGED chat_rooms
    BY <1>2 DEF Register
  <2>2. new \in ClientInfo
    BY DEF ClientInfo, Statuses
  <2>3. /\ new.room_number = NoRoom /\ new.sd = NoSd /\ new.status = "offline"
    OBVIOUS
  <2> HIDE DEF new
  <2>4. /\ DOMAIN client_list' = DOMAIN client_list \cup {u}
        /\ client_list'[u] = new
        /\ \A v \in DOMAIN client_list : client_list'[v] = client_list[v]
    BY <1>2, <2>1
  <2>5. client_list' \in [DOMAIN client_list' -> ClientInfo]
    BY <2>1, <2>2 DEF Core
  <2>6. RoomsConsistent'
    <3>1. \A r \in DOMAIN chat_rooms : r # NoRoom
      BY Numbers DEF Core
    <3>2. \A r \in DOMAIN chat_rooms :
            /\ chat_rooms[r].owner \in DOMAIN client_list'
            /\ chat_rooms[r].members =
                 {v \in DOMAIN client_list' : client_list'[v].room_number = r}
      BY <2>3, <2>4, <3>1 DEF Core, RoomsConsistent
    <3>3. \A v \in DOMAIN client_list' :
            client_list'[v].room_number \in DOMAIN chat_rooms \cup {NoRoom}
      BY <2>3, <2>4 DEF Core, RoomsConsistent
    <3> QED
      BY <2>1, <3>2, <3>3 DEF RoomsConsistent
  <2>7. SessionsDistinct' /\ SessionsSettled'
    BY <2>3, <2>4 DEF Core, SessionsDistinct, SessionsSettled
  <2>8. PinIsLine'
    BY <2>1 DEF Core, PinIsLine
  <2> QED
    BY <2>1, <2>4, <2>5, <2>6, <2>7, <2>8 DEF Core
<1> QED
  BY <1>1, <1>2

\* What the commands that only touch one user's status and connection share.
LEMMA CoreOneSession ==
  ASSUME Core, NEW u \in DOMAIN client_list, NEW info \in ClientInfo,
         client_list' = [client_list EXCEPT ![u] = info],
         UNCHANGED chat_rooms,
         info.room_number = client_list[u].room_number,
         info.sd # NoSd =>
           \A v \in DOMAIN client_list \ {u} : client_list[v].sd # info.sd,
         IF info.sd = NoSd
         THEN info.status = "offline" /\ info.room_number = NoRoom
         ELSE info.logged_in
  PROVE  Core'
<1>1. /\ DOMAIN client_list' = DOMAIN client_list
      /\ \A v \in DOMAIN client_list :
           client_list'[v] = IF v = u THEN info ELSE client_list[v]
  OBVIOUS
<1>2. client_list' \in [DOMAIN client_list' -> ClientInfo]
  BY DEF Core
<1>3. \A v \in DOMAIN client_list :
        client_list'[v].room_number = client_list[v].room_number
  BY <1>1
<1>4. RoomsConsistent'
  BY <1>1, <1>3 DEF Core, RoomsConsistent
<1>5. SessionsDistinct'
  BY <1>1 DEF Core, SessionsDistinct
<1>6. SessionsSettled'
  BY <1>1 DEF Core, SessionsSettled
<1>7. PinIsLine'
  BY DEF Core, PinIsLine
<1> QED
  BY <1>1, <1>2, <1>4, <1>5, <1>6, <1>7 DEF Core

\* A login succeeds only on a descriptor that no user is bound to.
LEMMA LoginUnbound ==
  ASSUME Core, NEW sd \in Fds, FALSE \in LoggedInRead(sd)
  PROVE  \A v \in DOMAIN client_list : client_list[v].sd # sd
<1> SUFFICES ASSUME NEW v \in DOMAIN client_list, client_list[v].sd = sd
             PROVE  FALSE
  OBVIOUS
<1>1. v \in Attached(sd)
  BY DEF Attached
<1>2. PICK w \in Attached(sd) : client_list[w].logged_in = FALSE
  BY <1>1 DEF LoggedInRead
<1>3. w \in DOMAIN client_list /\ client_list[w].sd = sd /\ sd # NoSd
  BY <1>2, Numbers DEF Attached
<1> QED
  BY <1>2, <1>3 DEF Core, SessionsSettled

LEMMA LoginCore ==
  ASSUME Core, NEW sd \in Fds, NEW u \in Users, NEW p \in Passwds,
         Login(sd, u, p)
  PROVE  Core'
<1> DEFINE info == [client_list[u] EXCEPT !.logged_in = TRUE, !.sd = sd,
                                          !.status = "online"]
<1>1. u \in DOMAIN client_list
  BY DEF Login
<1>2. client_list[u] \in ClientInfo
  BY <1>1, ClientFields
<1>3. /\ info \in ClientInfo
      /\ info.sd = sd /\ info.logged_in = TRUE
      /\ info.room_number = client_list[u].room_number
  BY <1>2 DEF ClientInfo, Statuses
<1>4. client_list' = [client_list EXCEPT ![u] = info] /\ UNCHANGED chat_rooms
  BY <1>1 DEF Login
<1> HIDE DEF info
<1>5. \A v \in DOMAIN client_list : client_list[v].sd # sd
  BY LoginUnbound DEF Login
<1> QED
  BY <1>1, <1>3, <1>4, <1>5, Numbers, CoreOneSession

\* logout and exit: the client is at the prompt, so in no room.
LEMMA DetachedCore ==
  ASSUME Core, NEW sd \in Fds, NEW u, LoggedInAs(sd, u),
         client_list' = Detached(u), UNCHANGED chat_rooms
  PROVE  Core'
<1> DEFINE info == [client_list[u] EXCEPT !.status = "offline", !.sd = NoSd]
<1>1. u \in DOMAIN client_list /\ client_list[u].room_number = NoRoom
  BY DEF LoggedInAs, AtPrompt, Attached
<1>2. client_list[u] \in ClientInfo
  BY <1>1, ClientFields
<1>3. /\ info \in ClientInfo
      /\ info.sd = NoSd /\ info.status = "offline"
      /\ info.room_number = client_list[u].room_number
  BY <1>2 DEF ClientInfo, Statuses
<1>4. client_list' = [client_list EXCEPT ![u] = info]
  BY <1>1 DEF Detached
<1> HIDE DEF info
<1> QED
  BY <1>1, <1>3, <1>4, CoreOneSession

LEMMA SetStatusCore ==
  ASSUME Core, NEW sd \in Fds, NEW u, NEW status \in Statuses,
         SetStatus(sd, u, status)
  PROVE  Core'
<1> DEFINE info == [client_list[u] EXCEPT !.status = status]
<1>1. u \in DOMAIN client_list /\ client_list[u].sd = sd
  BY DEF SetStatus, LoggedInAs, Attached
<1>2. client_list[u] \in ClientInfo
  BY <1>1, ClientFields
<1>3. /\ info \in ClientInfo
      /\ info.sd = sd
      /\ info.logged_in = client_list[u].logged_in
      /\ info.room_number = client_list[u].room_number
  BY <1>1, <1>2 DEF ClientInfo
<1>4. client_list' = [client_list EXCEPT ![u] = info] /\ UNCHANGED chat_rooms
  BY <1>1 DEF SetStatus
<1> HIDE DEF info
<1>5. /\ sd # NoSd
      /\ \A v \in DOMAIN client_list \ {u} : client_list[v].sd # sd
      /\ client_list[u].logged_in
  BY <1>1, Numbers DEF Core, SessionsDistinct, SessionsSettled
<1> QED
  BY <1>1, <1>3, <1>4, <1>5, CoreOneSession

LEMMA EnterChatRoomCore ==
  ASSUME Core, NEW sd \in Fds, NEW u \in Users, NEW r \in Rooms,
         EnterChatRoom(sd, u, r)
  PROVE  Core'
<1> DEFINE room == Room(r)
           entered == [room EXCEPT !.owner   = IF @ = NoOne THEN u ELSE @,
                                   !.members = @ \cup {u}]
<1>1. /\ u \in DOMAIN client_list
      /\ client_list[u].sd = sd
      /\ client_list[u].room_number = NoRoom
  BY DEF EnterChatRoom, LoggedInAs, AtPrompt, Attached
<1>2. /\ client_list' = [client_list EXCEPT ![u].room_number = r]
      /\ chat_rooms' = PutRoom(r, entered)
  BY DEF EnterChatRoom
<1>3. /\ room \in ChatRoomInfo
      /\ PinShown(room) /\ HistoryBounded(room)
      /\ room.members =
           {v \in DOMAIN client_list : client_list[v].room_number = r}
  BY RoomFacts
<1>4. room.owner \in DOMAIN client_list \cup {NoOne}
  BY DEF Core, RoomsConsistent, Room, NewRoom
<1> HIDE DEF room
<1>5. /\ entered \in ChatRoomInfo
      /\ entered.members = room.members \cup {u}
      /\ entered.owner \in DOMAIN client_list
      /\ entered.history = room.history
      /\ entered.pin_message = room.pin_message
  BY <1>1, <1>3, <1>4 DEF ChatRoomInfo
<1>6. PinShown(entered) /\ HistoryBounded(entered)
  BY <1>3, <1>5 DEF PinShown, HistoryBounded
<1> HIDE DEF entered
<1>7. /\ DOMAIN client_list' = DOMAIN client_list
      /\ \A v \in DOMAIN client_list :
           /\ client_list'[v].passwd = client_list[v].passwd
           /\ client_list'[v].status = client_list[v].status
           /\ client_list'[v].sd = client_list[v].sd
           /\ client_list'[v].logged_in = client_list[v].logged_in
           /\ client_list'[v].room_number =
                IF v = u THEN r ELSE client_list[v].room_number
  BY <1>1, <1>2, ClientFields DEF ClientInfo
<1>8. client_list' \in [DOMAIN client_list' -> ClientInfo]
  BY <1>1, <1>2 DEF Core, ClientInfo
<1>9. /\ DOMAIN chat_rooms' = DOMAIN chat_rooms \cup {r}
      /\ chat_rooms'[r] = entered
      /\ \A n \in DOMAIN chat_rooms \ {r} : chat_rooms'[n] = chat_rooms[n]
  BY <1>2 DEF PutRoom
<1>10. chat_rooms' \in [DOMAIN chat_rooms' -> ChatRoomInfo]
  BY <1>2, <1>5 DEF PutRoom, Core
<1>11. RoomsConsistent'
  <2>1. ASSUME NEW n \in DOMAIN chat_rooms'
        PROVE  /\ chat_rooms'[n].owner \in DOMAIN client_list'
               /\ chat_rooms'[n].members =
                    {v \in DOMAIN client_list' : client_list'[v].room_number = n}
    <3>1. CASE n = r
      BY <1>1, <1>3, <1>5, <1>7, <1>9, <3>1
    <3>2. CASE n # r
      <4>1. n \in DOMAIN chat_rooms /\ n # NoRoom
        BY <1>9, <3>2, Numbers DEF Core
      <4>2. /\ chat_rooms[n].members =
                 {v \in DOMAIN client_list : client_list[v].room_number = n}
            /\ chat_rooms[n].owner \in DOMAIN client_list
        BY <4>1 DEF Core, RoomsConsistent
      <4> QED
        BY <1>1, <1>7, <1>9, <3>2, <4>1, <4>2
    <3> QED
      BY <3>1, <3>2
  <2>2. \A v \in DOMAIN client_list' :
          client_list'[v].room_number \in DOMAIN chat_rooms' \cup {NoRoom}
    BY <1>7, <1>9 DEF Core, RoomsConsistent
  <2> QED
    BY <2>1, <2>2 DEF RoomsConsistent
<1>12. SessionsDistinct' /\ SessionsSettled'
  BY <1>1, <1>7, Numbers DEF Core, SessionsDistinct, SessionsSettled
<1>13. PinIsLine'
  BY <1>6, <1>9 DEF Core, PinIsLine
<1> QED
  BY <1>7, <1>8, <1>9, <1>10, <1>11, <1>12, <1>13 DEF Core

LEMMA CloseChatRoomCore ==
  ASSUME Core, NEW sd \in Fds, NEW u \in Users, NEW r \in Rooms,
         CloseChatRoom(sd, u, r)
  PROVE  Core'
<1>1. r \in DOMAIN chat_rooms /\ Room(r) = chat_rooms[r]
  BY DEF CloseChatRoom, Room
<1>2. chat_rooms[r].members =
        {v \in DOMAIN client_list : client_list[v].room_number = r}
  BY <1>1 DEF Core, RoomsConsistent
<1>3. /\ client_list' = [v \in DOMAIN client_list |->
                           IF v \in chat_rooms[r].members
                           THEN [client_list[v] EXCEPT !.room_number = NoRoom]
                           ELSE client_list[v]]
      /\ chat_rooms' = [n \in DOMAIN chat_rooms \ {r} |-> chat_rooms[n]]
  BY <1>1 DEF CloseChatRoom
<1>4. /\ DOMAIN client_list' = DOMAIN client_list
      /\ \A v \in DOMAIN client_list :
           /\ client_list'[v] \in ClientInfo
           /\ client_list'[v].status = client_list[v].status
           /\ client_list'[v].sd = client_list[v].sd
           /\ client_list'[v].logged_in = client_list[v].logged_in
           /\ client_list'[v].room_number =
                IF client_list[v].room_number = r
                THEN NoRoom ELSE client_list[v].room_number
  <2>1. DOMAIN client_list' = DOMAIN client_list
    BY <1>3
  <2>2. ASSUME NEW v \in DOMAIN client_list
        PROVE  /\ client_list'[v] \in ClientInfo
               /\ client_list'[v].status = client_list[v].status
               /\ client_list'[v].sd = client_list[v].sd
               /\ client_list'[v].logged_in = client_list[v].logged_in
               /\ client_list'[v].room_number =
                    IF client_list[v].room_number = r
                    THEN NoRoom ELSE client_list[v].room_number
    <3>1. client_list[v] \in ClientInfo
      BY ClientFields
    <3>2. CASE client_list[v].room_number = r
      <4>1. client_list'[v] = [client_list[v] EXCEPT !.room_number = NoRoom]
        BY <1>2, <1>3, <3>2
      <4> QED
        BY <3>1, <3>2, <4>1 DEF ClientInfo
    <3>3. CASE client_list[v].room_number # r
      <4>1. client_list'[v] = client_list[v]
        BY <1>2, <1>3, <3>3
      <4> QED
        BY <3>1, <3>3, <4>1
    <3> QED
      BY <3>2, <3>3
  <2> QED
    BY <2>1, <2>2
<1>5. client_list' \in [DOMAIN client_list' -> ClientInfo]
  BY <1>3, <1>4
<1>6. chat_rooms' \in [DOMAIN chat_rooms' -> ChatRoomInfo]
  BY <1>3 DEF Core
<1>7. /\ DOMAIN chat_rooms' = DOMAIN chat_rooms \ {r}
      /\ \A n \in DOMAIN chat_rooms \ {r} : chat_rooms'[n] = chat_rooms[n]
  BY <1>3
<1>8. RoomsConsistent'
  <2>1. ASSUME NEW n \in DOMAIN chat_rooms'
        PROVE  /\ chat_rooms'[n].owner \in DOMAIN client_list'
               /\ chat_rooms'[n].members =
                    {v \in DOMAIN client_list' : client_list'[v].room_number = n}
    <3>1. n \in DOMAIN chat_rooms /\ n # r /\ n # NoRoom
      BY <1>7, Numbers DEF Core
    <3>2. /\ chat_rooms[n].members =
               {v \in DOMAIN client_list : client_list[v].room_number = n}
          /\ chat_rooms[n].owner \in DOMAIN client_list
      BY <3>1 DEF Core, RoomsConsistent
    <3> QED
      BY <1>4, <1>7, <3>1, <3>2
  <2>2. \A v \in DOMAIN client_list' :
          client_list'[v].room_number \in DOMAIN chat_rooms' \cup {NoRoom}
    BY <1>4, <1>7 DEF Core, RoomsConsistent
  <2> QED
    BY <2>1, <2>2 DEF RoomsConsistent
<1>9. SessionsDistinct' /\ SessionsSettled'
  BY <1>4 DEF Core, SessionsDistinct, SessionsSettled
<1>10. PinIsLine'
  BY <1>7 DEF Core, PinIsLine
<1> QED
  BY <1>4, <1>5, <1>6, <1>7, <1>8, <1>9, <1>10 DEF Core

LEMMA CoreStep ==
  ASSUME Core, [Next]_vars PROVE Core'
<1>1. CASE UNCHANGED vars
  BY <1>1, CoreUnchanged DEF vars
<1>2. CASE Accept \/ AcceptFails
  BY <1>2, CoreUnchanged DEF Accept, AcceptFails
<1>3. ASSUME NEW sd \in Fds, RoomCommand(sd) PROVE Core'
  <2>1. PICK u \in Users :
          \/ \E t \in Texts : Pin(sd, u, t) \/ Say(sd, u, t)
          \/ PinWithoutText(sd, u)
          \/ DeletePin(sd, u)
          \/ ExitChatRoom(sd, u)
          \/ RoomListUser(sd, u)
    BY <1>3 DEF RoomCommand
  <2>2. CASE \E t \in Texts : Pin(sd, u, t) \/ Say(sd, u, t)
    BY <2>2, PinCore, SayCore
  <2>3. CASE PinWithoutText(sd, u) \/ RoomListUser(sd, u)
    BY <2>3, CoreUnchanged DEF PinWithoutText, RoomListUser, Respond
  <2>4. CASE DeletePin(sd, u)
    BY <2>4, DeletePinCore
  <2>5. CASE ExitChatRoom(sd, u)
    BY <2>5, ExitChatRoomCore
  <2> QED
    BY <2>1, <2>2, <2>3, <2>4, <2>5
<1>4. ASSUME NEW sd \in Fds, AccountCommand(sd) PROVE Core'
  <2>1. ASSUME NEW u \in Users, NEW p \in Passwds,
               Register(sd, u, p) \/ LoginFails(sd, u, p) \/ Login(sd, u, p)
        PROVE  Core'
    BY <2>1, RegisterCore, LoginCore, CoreUnchanged DEF LoginFails, Respond
  <2>2. ASSUME NEW u \in Users, Logout(sd, u) PROVE Core'
    BY <2>2, DetachedCore DEF Logout
  <2>3. ASSUME NEW u \in Users,
               \/ LogoutFirst(sd, u) \/ Whoami(sd, u)
               \/ ListUser(sd, u) \/ ListChatRoom(sd, u)
        PROVE  Core'
    BY <2>3, CoreUnchanged
       DEF LogoutFirst, Whoami, ListUser, ListChatRoom, Respond
  <2>4. ASSUME NEW u \in Users, NEW status \in Statuses, SetStatus(sd, u, status)
        PROVE  Core'
    BY <2>4, SetStatusCore
  <2>5. CASE LoginFirst(sd) \/ Refuse(sd) \/ BlankLine(sd)
    BY <2>5, CoreUnchanged DEF LoginFirst, Refuse, BlankLine, Respond
  <2>6. CASE Exit(sd)
    <3>1. CASE UNCHANGED client_list
      BY <2>6, <3>1, CoreUnchanged DEF Exit
    <3>2. ASSUME NEW u \in Attached(sd), client_list' = Detached(u)
          PROVE  Core'
      BY <2>6, <3>2, DetachedCore DEF Exit, LoggedInAs
    <3> QED
      BY <2>6, <3>1, <3>2 DEF Exit
  <2> QED
    BY <1>4, <2>1, <2>2, <2>3, <2>4, <2>5, <2>6 DEF AccountCommand
<1>5. ASSUME NEW sd \in Fds, LobbyCommand(sd) PROVE Core'
  BY <1>5, EnterChatRoomCore, CloseChatRoomCore, CoreUnchanged
     DEF LobbyCommand, CloseRefused, Respond
<1>6. ASSUME NEW sd \in Fds, Disconnect(sd) PROVE Core'
  BY <1>6, CoreUnchanged DEF Disconnect
<1> QED
  BY <1>1, <1>2, <1>3, <1>4, <1>5, <1>6 DEF Next

-----------------------------------------------------------------------------
(* Aux is preserved *)

LEMMA NoteTyped ==
  ASSUME NEW sd \in Fds \cup {NoSd}, NEW u \in Users \cup {NoOne},
         NEW v \in Users \cup {NoOne}, NEW kind \in NoteKinds,
         NEW by \in {"member", "leave", "closing", "reply"}
  PROVE  Call(sd, by, v, Note(kind, u)) \in SendCall
BY DEF Call, Note, SendCall, Message

LEMMA ReplyTyped ==
  ASSUME NEW sd \in Fds, NEW kind \in NoteKinds
  PROVE  Reply(sd, kind) \subseteq SendCall
BY NoteTyped DEF Reply

LEMMA LineTyped ==
  ASSUME Core, NEW sd \in Fds, NEW line \in Line, NEW u,
         NEW r \in Rooms
  PROVE  SendToRoom(Room(r).members, line, u)
           \cup {Call(sd, "reply", NoOne, line)} \subseteq SendCall
<1>1. \A v \in Room(r).members :
        v \in Users /\ client_list[v].sd \in Fds \cup {NoSd}
  BY RoomFacts, ClientFields
<1> QED
  BY <1>1 DEF SendToRoom, Call, SendCall, Message

LEMMA RespondAux ==
  ASSUME Aux, NEW sd \in Fds, NEW kind \in NoteKinds, Respond(sd, kind)
  PROVE  Aux'
BY ReplyTyped DEF Aux, Respond

LEMMA RoomCommandAux ==
  ASSUME Core, Aux, NEW sd \in Fds, RoomCommand(sd) PROVE Aux'
<1>1. PICK u \in Users :
        \/ \E t \in Texts : Pin(sd, u, t) \/ Say(sd, u, t)
        \/ PinWithoutText(sd, u)
        \/ DeletePin(sd, u)
        \/ ExitChatRoom(sd, u)
        \/ RoomListUser(sd, u)
  BY DEF RoomCommand
<1>2. ASSUME NEW t \in Texts, Pin(sd, u, t) PROVE Aux'
  <2>1. client_list[u].room_number \in Rooms
    BY <1>2, InRoomFacts DEF Pin
  <2> QED
    BY <1>2, <2>1, LinesTyped, LineTyped DEF Pin, Aux
<1>3. ASSUME NEW t \in Texts, Say(sd, u, t) PROVE Aux'
  <2>1. client_list[u].room_number \in Rooms
    BY <1>3, InRoomFacts DEF Say
  <2> QED
    BY <1>3, <2>1, LinesTyped, LineTyped DEF Say, Aux
<1>4. CASE PinWithoutText(sd, u)
  BY <1>4 DEF PinWithoutText, Aux
<1>5. CASE DeletePin(sd, u)
  <2>1. "no_pin" \in NoteKinds
    BY DEF NoteKinds
  <2> QED
    BY <1>5, <2>1, ReplyTyped DEF DeletePin, Aux
<1>6. CASE ExitChatRoom(sd, u)
  <2>1. "left" \in NoteKinds
    BY DEF NoteKinds
  <2>2. \A v \in DOMAIN client_list :
          v \in Users /\ client_list[v].sd \in Fds \cup {NoSd}
    BY ClientFields
  <2>3. \A v \in DOMAIN client_list :
          Call(client_list[v].sd, "leave", v, Note("left", u)) \in SendCall
    BY <2>1, <2>2, NoteTyped
  <2> QED
    BY <1>6, <2>3 DEF ExitChatRoom, Aux
<1>7. CASE RoomListUser(sd, u)
  <2>1. "room_users" \in NoteKinds
    BY DEF NoteKinds
  <2> QED
    BY <1>7, <2>1, RespondAux DEF RoomListUser
<1> QED
  BY <1>1, <1>2, <1>3, <1>4, <1>5, <1>6, <1>7

LEMMA AccountCommandAux ==
  ASSUME Core, Aux, NEW sd \in Fds, AccountCommand(sd) PROVE Aux'
<1> USE DEF NoteKinds
<1>1. ASSUME NEW u \in Users, NEW p \in Passwds,
             Register(sd, u, p) \/ LoginFails(sd, u, p) \/ Login(sd, u, p)
      PROVE  Aux'
  <2>1. CASE Register(sd, u, p)
    <3>1. Reply(sd, "registered") \subseteq SendCall
      BY ReplyTyped
    <3>2. Reply(sd, "name_used") \subseteq SendCall
      BY ReplyTyped
    <3> QED
      BY <2>1, <3>1, <3>2 DEF Register, Aux
  <2>2. CASE LoginFails(sd, u, p)
    BY <2>2, RespondAux DEF LoginFails
  <2>3. CASE Login(sd, u, p)
    <3>1. Reply(sd, "welcome_user") \subseteq SendCall
      BY ReplyTyped
    <3> QED
      BY <2>3, <3>1 DEF Login, Aux
  <2> QED
    BY <1>1, <2>1, <2>2, <2>3
<1>2. ASSUME NEW u \in Users, LogoutFirst(sd, u) PROVE Aux'
  BY <1>2, RespondAux DEF LogoutFirst
<1>3. ASSUME NEW u \in Users, Logout(sd, u) PROVE Aux'
  <2>1. Reply(sd, "bye") \subseteq SendCall
    BY ReplyTyped
  <2> QED
    BY <1>3, <2>1 DEF Logout, Aux
<1>4. ASSUME NEW u \in Users, Whoami(sd, u) PROVE Aux'
  <2>1. Call(sd, "reply", NoOne, Note("you_are", u)) \in SendCall
    BY NoteTyped
  <2> QED
    BY <1>4, <2>1 DEF Whoami, Aux
<1>5. ASSUME NEW u \in Users, ListUser(sd, u) PROVE Aux'
  BY <1>5, RespondAux DEF ListUser
<1>6. ASSUME NEW u \in Users, ListChatRoom(sd, u) PROVE Aux'
  BY <1>6, RespondAux DEF ListChatRoom
<1>7. ASSUME NEW u \in Users, NEW status \in Statuses, SetStatus(sd, u, status)
      PROVE  Aux'
  <2>1. Reply(sd, "status_set") \subseteq SendCall
    BY ReplyTyped
  <2> QED
    BY <1>7, <2>1 DEF SetStatus, Aux
<1>8. CASE LoginFirst(sd)
  BY <1>8, RespondAux DEF LoginFirst
<1>9. CASE Exit(sd)
  <2>1. Reply(sd, "bye") \subseteq SendCall
    BY ReplyTyped
  <2> QED
    BY <1>9, <2>1 DEF Exit, Aux
<1>10. CASE Refuse(sd)
  BY <1>10, RespondAux DEF Refuse
<1>11. CASE BlankLine(sd)
  BY <1>11 DEF BlankLine, Aux
<1> QED
  BY <1>1, <1>2, <1>3, <1>4, <1>5, <1>6, <1>7, <1>8, <1>9, <1>10, <1>11
     DEF AccountCommand

LEMMA LobbyCommandAux ==
  ASSUME Core, Aux, NEW sd \in Fds, LobbyCommand(sd) PROVE Aux'
<1> USE DEF NoteKinds
<1>1. PICK u \in Users, r \in Rooms :
        \/ EnterChatRoom(sd, u, r)
        \/ CloseChatRoom(sd, u, r)
        \/ CloseRefused(sd, u, r)
  BY DEF LobbyCommand
<1>2. \A v \in DOMAIN client_list :
        v \in Users /\ client_list[v].sd \in Fds \cup {NoSd}
  BY ClientFields
<1>3. CASE EnterChatRoom(sd, u, r)
  <2> DEFINE entered == [Room(r) EXCEPT !.owner   = IF @ = NoOne THEN u ELSE @,
                                        !.members = @ \cup {u}]
  <2>1. entered.members \ {u} \subseteq DOMAIN client_list
    BY RoomFacts DEF ChatRoomInfo
  <2>2. sent' = SendToRoom(entered.members, Note("entered", u), u)
                  \cup Reply(sd, "welcome_room")
    BY <1>3 DEF EnterChatRoom
  <2> HIDE DEF entered
  <2>3. SendToRoom(entered.members, Note("entered", u), u) \subseteq SendCall
    <3>1. \A v \in DOMAIN client_list :
            Call(client_list[v].sd, "member", v, Note("entered", u)) \in SendCall
      BY <1>2, NoteTyped
    <3> QED
      BY <2>1, <3>1 DEF SendToRoom
  <2>4. Reply(sd, "welcome_room") \subseteq SendCall
    BY ReplyTyped
  <2> QED
    BY <1>3, <2>2, <2>3, <2>4 DEF EnterChatRoom, Aux
<1>4. CASE CloseChatRoom(sd, u, r)
  <2>1. \A v \in Room(r).members :
          Call(client_list[v].sd, "member", v, Note("closed", NoOne)) \in SendCall
    BY <1>2, RoomFacts, NoteTyped
  <2>2. Call(sd, "closing", NoOne, Note("closed", NoOne)) \in SendCall
    BY NoteTyped
  <2>3. Reply(sd, "closed") \subseteq SendCall
    BY ReplyTyped
  <2> QED
    BY <1>4, <2>1, <2>2, <2>3 DEF CloseChatRoom, Aux
<1>5. CASE CloseRefused(sd, u, r)
  BY <1>5, RespondAux DEF CloseRefused
<1> QED
  BY <1>1, <1>3, <1>4, <1>5

LEMMA AuxStep ==
  ASSUME Core, Aux, [Next]_vars PROVE Aux'
<1>1. CASE UNCHANGED vars
  BY <1>1 DEF vars, Aux
<1>2. CASE Accept
  <2>1. Fds \ open \in SUBSET Nat /\ Fds \ open # {}
    BY <1>2, ServerAssumption DEF Accept
  <2>2. Min(Fds \ open) \in Fds
    BY <2>1, MinProperties
  <2> QED
    BY <1>2, <2>2 DEF Accept, Aux
<1>3. CASE AcceptFails
  BY <1>3 DEF AcceptFails, Aux
<1>4. ASSUME NEW sd \in Fds, Disconnect(sd) PROVE Aux'
  BY <1>4 DEF Disconnect, Aux
<1> QED
  BY <1>1, <1>2, <1>3, <1>4, RoomCommandAux, AccountCommandAux, LobbyCommandAux
     DEF Next

LEMMA InitInv == Init => Inv
<1> SUFFICES ASSUME Init PROVE Inv
  OBVIOUS
<1>1. DOMAIN client_list = {} /\ DOMAIN chat_rooms = {}
  BY DEF Init
<1>2. /\ client_list \in [DOMAIN client_list -> ClientInfo]
      /\ chat_rooms \in [DOMAIN chat_rooms -> ChatRoomInfo]
  BY DEF Init
<1>3. Core
  BY <1>1, <1>2 DEF Core, RoomsConsistent, SessionsDistinct, SessionsSettled,
                    PinIsLine
<1>4. Aux
  BY DEF Init, Aux
<1> QED
  BY <1>3, <1>4 DEF Inv

LEMMA Invariance == Spec => []Inv
<1>1. Inv /\ [Next]_vars => Inv'
  BY CoreStep, AuxStep DEF Inv
<1> QED
  BY InitInv, <1>1, PTL DEF Spec

-----------------------------------------------------------------------------
(* Theorems *)

\* Every variable of the chat server keeps its type.
THEOREM TypeCorrectness == Spec => []TypeOK
<1>1. Inv => TypeOK
  BY DEF Inv, Core, Aux, TypeOK
<1> QED
  BY Invariance, <1>1, PTL

\* The member lists of the rooms and the room numbers of the users agree,
\* and rooms that are entered exist and have a registered owner.
THEOREM RoomConsistency == Spec => []RoomsConsistent
<1>1. Inv => RoomsConsistent
  BY DEF Inv, Core
<1> QED
  BY Invariance, <1>1, PTL

\* No two users are bound to one descriptor, even when clients disconnect
\* abruptly.
THEOREM SessionConsistency == Spec => []SessionsDistinct
<1>1. Inv => SessionsDistinct
  BY DEF Inv, Core
<1> QED
  BY Invariance, <1>1, PTL

\* Only users in no room and offline are bound to no descriptor, and logged_in
\* is set for all others: login, logout and exit keep a user's fields together.
THEOREM SessionSettlement == Spec => []SessionsSettled
<1>1. Inv => SessionsSettled
  BY DEF Inv, Core
<1> QED
  BY Invariance, <1>1, PTL

\* The pin of every room and its history agree, and the history is bounded.
THEOREM PinConsistency == Spec => []PinIsLine
<1>1. Inv => PinIsLine
  BY DEF Inv, Core
<1> QED
  BY Invariance, <1>1, PTL

-----------------------------------------------------------------------------
(* Sessions are isolated when no client disconnects abruptly               *)

LEMMA IsolationUnchanged ==
  ASSUME SessionIsolation, UNCHANGED <<client_list, open, who>>
  PROVE  SessionIsolation'
BY DEF SessionIsolation

\* A step that moves nobody to another descriptor keeps isolation.
LEMMA IsolationSameBinding ==
  ASSUME SessionIsolation, UNCHANGED <<open, who>>,
         DOMAIN client_list' = DOMAIN client_list,
         \A v \in DOMAIN client_list : client_list'[v].sd = client_list[v].sd
  PROVE  SessionIsolation'
BY DEF SessionIsolation

\* Ending the only session of a descriptor, the connection closed or not.
LEMMA IsolationDetached ==
  ASSUME Core, Aux, SessionIsolation, NEW sd \in Fds, NEW u,
         LoggedInAs(sd, u), client_list' = Detached(u),
         who' = [who EXCEPT ![sd] = NoOne], open \ {sd} \subseteq open'
  PROVE  SessionIsolation'
<1>1. u \in DOMAIN client_list /\ client_list[u].sd = sd /\ sd # NoSd
  BY Numbers DEF LoggedInAs, Attached
<1>2. client_list[u] \in ClientInfo
  BY <1>1, ClientFields
<1>3. /\ DOMAIN client_list' = DOMAIN client_list
      /\ client_list'[u].sd = NoSd
      /\ \A v \in DOMAIN client_list \ {u} : client_list'[v] = client_list[v]
  BY <1>1, <1>2 DEF Detached, ClientInfo
<1>4. \A v \in DOMAIN client_list \ {u} : client_list[v].sd # sd
  BY <1>1 DEF Core, SessionsDistinct
<1>5. \A v \in DOMAIN client_list : client_list[v].sd \in Fds \cup {NoSd}
  BY ClientFields
<1> QED
  BY <1>1, <1>3, <1>4, <1>5 DEF SessionIsolation, Aux

LEMMA IsolationStep ==
  ASSUME Inv, ~Abrupt, SessionIsolation, [Next]_vars
  PROVE  SessionIsolation'
<1> USE DEF Inv
<1>1. CASE UNCHANGED vars
  BY <1>1, IsolationUnchanged DEF vars
<1>2. CASE Accept
  <2>1. Fds \ open \in SUBSET Nat /\ Fds \ open # {}
    BY <1>2, ServerAssumption DEF Accept
  <2>2. Min(Fds \ open) \notin open /\ Min(Fds \ open) \in Fds
    BY <2>1, MinProperties
  <2> QED
    BY <1>2, <2>2 DEF Accept, SessionIsolation, Aux
<1>3. CASE AcceptFails
  BY <1>3, IsolationUnchanged DEF AcceptFails
<1>4. ASSUME NEW sd \in Fds, RoomCommand(sd) PROVE SessionIsolation'
  <2>1. PICK u \in Users :
          \/ \E t \in Texts : Pin(sd, u, t) \/ Say(sd, u, t)
          \/ PinWithoutText(sd, u)
          \/ DeletePin(sd, u)
          \/ ExitChatRoom(sd, u)
          \/ RoomListUser(sd, u)
    BY <1>4 DEF RoomCommand
  <2>2. CASE ExitChatRoom(sd, u)
    <3>1. u \in DOMAIN client_list /\ client_list[u] \in ClientInfo
      BY <2>2, InRoomFacts, ClientFields DEF ExitChatRoom
    <3> QED
      BY <2>2, <3>1, IsolationSameBinding DEF ExitChatRoom, ClientInfo
  <2>3. CASE UNCHANGED <<client_list, open, who>>
    BY <2>3, IsolationUnchanged
  <2> QED
    BY <2>1, <2>2, <2>3
       DEF Pin, Say, PinWithoutText, DeletePin, RoomListUser, Respond
<1>5. ASSUME NEW sd \in Fds, AccountCommand(sd) PROVE SessionIsolation'
  <2>1. ASSUME NEW u \in Users, NEW p \in Passwds, Register(sd, u, p)
        PROVE  SessionIsolation'
    BY <2>1 DEF Register, SessionIsolation
  <2>2. ASSUME NEW u \in Users, NEW p \in Passwds, Login(sd, u, p)
        PROVE  SessionIsolation'
    <3>1. u \in DOMAIN client_list /\ client_list[u] \in ClientInfo
      BY <2>2, ClientFields DEF Login
    <3>2. /\ DOMAIN client_list' = DOMAIN client_list
          /\ client_list'[u].sd = sd
          /\ \A v \in DOMAIN client_list \ {u} : client_list'[v] = client_list[v]
      BY <2>2, <3>1 DEF Login, ClientInfo
    <3>3. \A v \in DOMAIN client_list : client_list[v].sd # sd
      BY <2>2, LoginUnbound DEF Login
    <3>4. who' = [who EXCEPT ![sd] = u] /\ open' = open /\ sd \in open
      BY <2>2 DEF Login, AtPrompt
    <3> QED
      BY <3>2, <3>3, <3>4 DEF SessionIsolation, Aux
  <2>3. ASSUME NEW u \in Users, Logout(sd, u) PROVE SessionIsolation'
    BY <2>3, IsolationDetached DEF Logout
  <2>4. ASSUME NEW u \in Users, NEW status \in Statuses, SetStatus(sd, u, status)
        PROVE  SessionIsolation'
    <3>1. u \in DOMAIN client_list /\ client_list[u] \in ClientInfo
      BY <2>4, ClientFields DEF SetStatus, LoggedInAs, Attached
    <3> QED
      BY <2>4, <3>1, IsolationSameBinding DEF SetStatus, ClientInfo
  <2>5. CASE Exit(sd)
    <3>1. CASE Attached(sd) = {} /\ UNCHANGED client_list
      BY <2>5, <3>1 DEF Exit, SessionIsolation, Attached, Aux
    <3>2. ASSUME NEW u \in Attached(sd), client_list' = Detached(u)
          PROVE  SessionIsolation'
      BY <2>5, <3>2, IsolationDetached DEF Exit, LoggedInAs
    <3> QED
      BY <2>5, <3>1, <3>2 DEF Exit
  <2>6. CASE UNCHANGED <<client_list, open, who>>
    BY <2>6, IsolationUnchanged
  <2> QED
    BY <1>5, <2>1, <2>2, <2>3, <2>4, <2>5, <2>6
       DEF AccountCommand, LoginFails, LogoutFirst, Whoami, ListUser,
           ListChatRoom, LoginFirst, Refuse, BlankLine, Respond
<1>6. ASSUME NEW sd \in Fds, LobbyCommand(sd) PROVE SessionIsolation'
  <2>1. PICK u \in Users, r \in Rooms :
          \/ EnterChatRoom(sd, u, r)
          \/ CloseChatRoom(sd, u, r)
          \/ CloseRefused(sd, u, r)
    BY <1>6 DEF LobbyCommand
  <2>2. CASE EnterChatRoom(sd, u, r)
    <3>1. u \in DOMAIN client_list /\ client_list[u] \in ClientInfo
      BY <2>2, ClientFields DEF EnterChatRoom, LoggedInAs, Attached
    <3> QED
      BY <2>2, <3>1, IsolationSameBinding DEF EnterChatRoom, ClientInfo
  <2>3. CASE CloseChatRoom(sd, u, r)
    <3>1. \A v \in DOMAIN client_list : client_list[v] \in ClientInfo
      BY ClientFields
    <3>2. /\ DOMAIN client_list' = DOMAIN client_list
          /\ \A v \in DOMAIN client_list :
               client_list'[v].sd = client_list[v].sd
      BY <2>3, <3>1 DEF CloseChatRoom, ClientInfo
    <3> QED
      BY <2>3, <3>2, IsolationSameBinding DEF CloseChatRoom
  <2>4. CASE CloseRefused(sd, u, r)
    BY <2>4, IsolationUnchanged DEF CloseRefused, Respond
  <2> QED
    BY <2>1, <2>2, <2>3, <2>4
<1>7. ASSUME NEW sd \in Fds, Disconnect(sd) PROVE SessionIsolation'
  BY <1>7 DEF Disconnect
<1> QED
  BY <1>1, <1>2, <1>3, <1>4, <1>5, <1>6, <1>7 DEF Next

\* If clients leave by "exit" only, a bound descriptor is an open connection
\* on which that very user logged in.
THEOREM Isolation == ~Abrupt => (Spec => []SessionIsolation)
<1> SUFFICES ASSUME ~Abrupt PROVE Spec => []SessionIsolation
  OBVIOUS
<1>1. Init => SessionIsolation
  BY DEF Init, SessionIsolation
<1>2. Inv /\ SessionIsolation /\ [Next]_vars => SessionIsolation'
  BY IsolationStep
<1> QED
  BY Invariance, <1>1, <1>2, PTL DEF Spec

-----------------------------------------------------------------------------
(* What a step may do to the rooms                                         *)

\* The step leaves the rooms alone, moves no user and sends no line.
Quiet ==
  /\ chat_rooms' = chat_rooms
  /\ DOMAIN client_list \subseteq DOMAIN client_list'
  /\ \A v \in DOMAIN client_list' :
       client_list'[v].room_number = IF v \in DOMAIN client_list
                                     THEN client_list[v].room_number
                                     ELSE NoRoom
  /\ \A call \in sent' : call.msg \notin Line

\* A note is no line: its body is not a message.
LEMMA NoteIsNoLine ==
  \A kind, u : Note(kind, u) \notin Line
BY HistoryAssumption DEF Note, Line

LEMMA ReplyHasNoLine ==
  ASSUME NEW sd, NEW kind, NEW call \in Reply(sd, kind)
  PROVE  call.msg \notin Line
BY NoteIsNoLine DEF Reply, Call

\* A step that neither changes the maps nor sends a line.
LEMMA QuietUnchanged ==
  ASSUME Core, UNCHANGED <<client_list, chat_rooms>>,
         \A call \in sent' : call.msg \notin Line
  PROVE  Quiet
BY DEF Quiet

LEMMA QuietRespond ==
  ASSUME Core, NEW sd, NEW kind, Respond(sd, kind)
  PROVE  Quiet
BY QuietUnchanged, ReplyHasNoLine DEF Respond

\* A step that changes other fields of one user's record than the room.
LEMMA QuietSession ==
  ASSUME Core, NEW u \in DOMAIN client_list, NEW info,
         client_list' = [client_list EXCEPT ![u] = info],
         info.room_number = client_list[u].room_number,
         UNCHANGED chat_rooms,
         \A call \in sent' : call.msg \notin Line
  PROVE  Quiet
<1>1. /\ DOMAIN client_list' = DOMAIN client_list
      /\ \A v \in DOMAIN client_list :
           client_list'[v] = IF v = u THEN info ELSE client_list[v]
  OBVIOUS
<1> QED
  BY <1>1 DEF Quiet

LEMMA QuietDetached ==
  ASSUME Core, NEW sd \in Fds, NEW u \in Attached(sd),
         client_list' = Detached(u), UNCHANGED chat_rooms,
         sent' = Reply(sd, "bye")
  PROVE  Quiet
<1> DEFINE info == [client_list[u] EXCEPT !.status = "offline", !.sd = NoSd]
<1>1. u \in DOMAIN client_list /\ client_list[u] \in ClientInfo
  BY ClientFields DEF Attached
<1>2. info.room_number = client_list[u].room_number
  BY <1>1 DEF ClientInfo
<1>3. client_list' = [client_list EXCEPT ![u] = info]
  BY <1>1 DEF Detached
<1> HIDE DEF info
<1> QED
  BY <1>1, <1>2, <1>3, ReplyHasNoLine, QuietSession

LEMMA AccountCommandQuiet ==
  ASSUME Core, NEW sd \in Fds, AccountCommand(sd) PROVE Quiet
<1>1. ASSUME NEW u \in Users, NEW p \in Passwds, Register(sd, u, p)
      PROVE  Quiet
  <2>1. CASE u \in DOMAIN client_list
    BY <1>1, <2>1, QuietUnchanged, ReplyHasNoLine DEF Register
  <2>2. CASE u \notin DOMAIN client_list
    <3> DEFINE new == [ passwd |-> p, status |-> "offline",
                        room_number |-> NoRoom, sd |-> NoSd,
                        logged_in |-> FALSE ]
    <3>1. /\ client_list' = [v \in DOMAIN client_list \cup {u} |->
                               IF v = u THEN new ELSE client_list[v]]
          /\ UNCHANGED chat_rooms
          /\ sent' = Reply(sd, "registered")
      BY <1>1, <2>2 DEF Register
    <3>2. new.room_number = NoRoom
      OBVIOUS
    <3> HIDE DEF new
    <3> QED
      BY <2>2, <3>1, <3>2, ReplyHasNoLine DEF Quiet
  <2> QED
    BY <2>1, <2>2
<1>2. ASSUME NEW u \in Users, NEW p \in Passwds, Login(sd, u, p)
      PROVE  Quiet
  <2> DEFINE info == [client_list[u] EXCEPT !.logged_in = TRUE, !.sd = sd,
                                            !.status = "online"]
  <2>1. u \in DOMAIN client_list /\ client_list[u] \in ClientInfo
    BY <1>2, ClientFields DEF Login
  <2>2. info.room_number = client_list[u].room_number
    BY <2>1 DEF ClientInfo
  <2>3. /\ client_list' = [client_list EXCEPT ![u] = info]
        /\ UNCHANGED chat_rooms
        /\ sent' = Reply(sd, "welcome_user")
    BY <1>2, <2>1 DEF Login
  <2> HIDE DEF info
  <2> QED
    BY <2>1, <2>2, <2>3, ReplyHasNoLine, QuietSession
<1>3. ASSUME NEW u \in Users, Logout(sd, u) PROVE Quiet
  BY <1>3, QuietDetached DEF Logout, LoggedInAs
<1>4. ASSUME NEW u \in Users, Whoami(sd, u) PROVE Quiet
  <2>1. \A call \in sent' : call.msg \notin Line
    BY <1>4, NoteIsNoLine DEF Whoami, Call
  <2> QED
    BY <1>4, <2>1, QuietUnchanged DEF Whoami
<1>5. ASSUME NEW u \in Users, NEW status \in Statuses, SetStatus(sd, u, status)
      PROVE  Quiet
  <2> DEFINE info == [client_list[u] EXCEPT !.status = status]
  <2>1. u \in DOMAIN client_list /\ client_list[u] \in ClientInfo
    BY <1>5, ClientFields DEF SetStatus, LoggedInAs, Attached
  <2>2. info.room_number = client_list[u].room_number
    BY <2>1 DEF ClientInfo
  <2>3. /\ client_list' = [client_list EXCEPT ![u] = info]
        /\ UNCHANGED chat_rooms
        /\ sent' = Reply(sd, "status_set")
    BY <1>5, <2>1 DEF SetStatus
  <2> HIDE DEF info
  <2> QED
    BY <2>1, <2>2, <2>3, ReplyHasNoLine, QuietSession
<1>6. CASE Exit(sd)
  <2>1. CASE UNCHANGED client_list /\ sent' = {}
    BY <1>6, <2>1, QuietUnchanged DEF Exit
  <2>2. ASSUME NEW u \in Attached(sd), client_list' = Detached(u),
               sent' = Reply(sd, "bye")
        PROVE  Quiet
    BY <1>6, <2>2, QuietDetached DEF Exit
  <2> QED
    BY <1>6, <2>1, <2>2 DEF Exit
<1>7. CASE BlankLine(sd)
  BY <1>7, QuietUnchanged DEF BlankLine
<1>8. ASSUME NEW kind, Respond(sd, kind) PROVE Quiet
  BY <1>8, QuietRespond
<1> QED
  BY <1>1, <1>2, <1>3, <1>4, <1>5, <1>6, <1>7, <1>8
     DEF AccountCommand, LoginFails, LogoutFirst, ListUser, ListChatRoom,
         LoginFirst, Refuse

\* Apart from six commands, nothing in the server touches the rooms.
LEMMA StepKinds ==
  ASSUME Core, Next
  PROVE  \/ Quiet
         \/ \E sd \in Fds, u \in Users :
              \/ \E t \in Texts : Pin(sd, u, t) \/ Say(sd, u, t)
              \/ DeletePin(sd, u)
              \/ ExitChatRoom(sd, u)
              \/ \E r \in Rooms : \/ EnterChatRoom(sd, u, r)
                                  \/ CloseChatRoom(sd, u, r)
<1>1. CASE Accept \/ AcceptFails
  BY <1>1, QuietUnchanged DEF Accept, AcceptFails
<1>2. ASSUME NEW sd \in Fds, Disconnect(sd) PROVE Quiet
  BY <1>2, QuietUnchanged DEF Disconnect
<1>3. ASSUME NEW sd \in Fds, NEW u \in Users, PinWithoutText(sd, u)
      PROVE  Quiet
  BY <1>3, QuietUnchanged DEF PinWithoutText
<1>4. ASSUME NEW sd \in Fds, NEW u \in Users, RoomListUser(sd, u)
      PROVE  Quiet
  BY <1>4, QuietRespond DEF RoomListUser
<1>5. ASSUME NEW sd \in Fds, NEW u \in Users, NEW r \in Rooms,
             CloseRefused(sd, u, r)
      PROVE  Quiet
  BY <1>5, QuietRespond DEF CloseRefused
<1> QED
  BY <1>1, <1>2, <1>3, <1>4, <1>5, AccountCommandQuiet
     DEF Next, RoomCommand, LobbyCommand

-----------------------------------------------------------------------------
(* Nobody in a room misses who else is there                               *)

\* A step that erases no room and moves no registered user has nobody to tell.
LEMMA NobodyToTell ==
  ASSUME Core, DOMAIN chat_rooms \subseteq DOMAIN chat_rooms',
         \A v \in DOMAIN client_list :
           client_list'[v].room_number = client_list[v].room_number
  PROVE  OthersTold
BY DEF OthersTold, Core, RoomsConsistent

LEMMA ExitIsTold ==
  ASSUME Core, NEW sd \in Fds, NEW u \in Users, ExitChatRoom(sd, u)
  PROVE  OthersTold
<1> DEFINE r == client_list[u].room_number
<1>1. /\ u \in DOMAIN client_list
      /\ r \in DOMAIN chat_rooms /\ r # NoRoom
  BY InRoomFacts DEF ExitChatRoom, InRoom
<1>2. DOMAIN chat_rooms' = DOMAIN chat_rooms
  BY <1>1 DEF ExitChatRoom, PutRoom
<1>3. \A v \in DOMAIN client_list :
        client_list'[v].room_number =
          IF v = u THEN NoRoom ELSE client_list[v].room_number
  BY <1>1, ClientFields DEF ExitChatRoom, ClientInfo
<1>4. ASSUME NEW v \in DOMAIN client_list \ {u},
             client_list[v].room_number = r
      PROVE  \E call \in sent' : /\ call.to = client_list[v].sd
                                 /\ call.msg = Note("left", u)
  <2>1. Call(client_list[v].sd, "leave", v, Note("left", u)) \in sent'
    BY <1>4 DEF ExitChatRoom
  <2> QED
    BY <2>1 DEF Call
<1>5. \A v \in DOMAIN client_list :
        client_list[v].room_number \in DOMAIN chat_rooms \cup {NoRoom}
  BY DEF Core, RoomsConsistent
<1> QED
  BY <1>1, <1>2, <1>3, <1>4, <1>5 DEF OthersTold

LEMMA EnterIsTold ==
  ASSUME Core, NEW sd \in Fds, NEW u \in Users, NEW r \in Rooms,
         EnterChatRoom(sd, u, r)
  PROVE  OthersTold
<1> DEFINE entered == [Room(r) EXCEPT !.owner   = IF @ = NoOne THEN u ELSE @,
                                      !.members = @ \cup {u}]
<1>1. u \in DOMAIN client_list /\ client_list[u].room_number = NoRoom
  BY DEF EnterChatRoom, LoggedInAs, AtPrompt, Attached
<1>2. DOMAIN chat_rooms \subseteq DOMAIN chat_rooms'
  BY DEF EnterChatRoom, PutRoom
<1>3. \A v \in DOMAIN client_list :
        client_list'[v].room_number =
          IF v = u THEN r ELSE client_list[v].room_number
  BY <1>1, ClientFields DEF EnterChatRoom, ClientInfo
<1>4. ASSUME NEW v \in DOMAIN client_list \ {u},
             client_list[v].room_number = r
      PROVE  \E call \in sent' : /\ call.to = client_list[v].sd
                                 /\ call.msg = Note("entered", u)
  <2>1. v \in entered.members
    BY <1>4, RoomFacts DEF ChatRoomInfo
  <2>2. SendToRoom(entered.members, Note("entered", u), u) \subseteq sent'
    BY DEF EnterChatRoom
  <2> HIDE DEF entered
  <2>3. Call(client_list[v].sd, "member", v, Note("entered", u)) \in sent'
    BY <1>4, <2>1, <2>2 DEF SendToRoom
  <2> QED
    BY <2>3 DEF Call
<1>5. \A v \in DOMAIN client_list :
        client_list[v].room_number \in DOMAIN chat_rooms \cup {NoRoom}
  BY DEF Core, RoomsConsistent
<1> HIDE DEF entered
<1> QED
  BY <1>1, <1>2, <1>3, <1>4, <1>5 DEF OthersTold

\* Closing a room moves its members, and them only, outside.
LEMMA CloseMoves ==
  ASSUME Core, NEW sd \in Fds, NEW u \in Users, NEW r \in Rooms,
         CloseChatRoom(sd, u, r)
  PROVE  /\ DOMAIN client_list' = DOMAIN client_list
         /\ \A v \in DOMAIN client_list :
              client_list'[v].room_number = IF client_list[v].room_number = r
                                            THEN NoRoom
                                            ELSE client_list[v].room_number
<1>1. DOMAIN client_list' = DOMAIN client_list
  BY DEF CloseChatRoom
<1>2. ASSUME NEW v \in DOMAIN client_list
      PROVE  client_list'[v].room_number = IF client_list[v].room_number = r
                                           THEN NoRoom
                                           ELSE client_list[v].room_number
  <2>1. v \in Room(r).members <=> client_list[v].room_number = r
    BY RoomFacts
  <2>2. client_list[v] \in ClientInfo
    BY ClientFields
  <2>3. client_list'[v] = IF client_list[v].room_number = r
                          THEN [client_list[v] EXCEPT !.room_number = NoRoom]
                          ELSE client_list[v]
    BY <2>1 DEF CloseChatRoom
  <2> QED
    BY <2>2, <2>3 DEF ClientInfo
<1> QED
  BY <1>1, <1>2

\* A member of the room that is closed has a connection, so it is told.
LEMMA CloseIsTold ==
  ASSUME Core, NEW sd \in Fds, NEW u \in Users, NEW r \in Rooms,
         CloseChatRoom(sd, u, r)
  PROVE  OthersTold
<1>1. r \in DOMAIN chat_rooms /\ Room(r) = chat_rooms[r] /\ r # NoRoom
  BY Numbers DEF CloseChatRoom, Room
<1>2. DOMAIN chat_rooms' = DOMAIN chat_rooms \ {r}
  BY DEF CloseChatRoom
<1>3. \A v \in DOMAIN client_list :
        client_list'[v].room_number = IF client_list[v].room_number = r
                                      THEN NoRoom
                                      ELSE client_list[v].room_number
  BY CloseMoves
<1>4. ASSUME NEW v \in DOMAIN client_list,
             client_list[v].room_number = r
      PROVE  \E call \in sent' : /\ call.to = client_list[v].sd
                                 /\ call.msg = Note("closed", NoOne)
  <2>1. v \in Room(r).members
    BY <1>4, RoomFacts
  <2>2. client_list[v].sd # NoSd
    BY <1>1, <1>4 DEF Core, SessionsSettled
  <2>3. Call(client_list[v].sd, "member", v, Note("closed", NoOne)) \in sent'
    BY <1>1, <1>4, <2>1, <2>2 DEF CloseChatRoom
  <2> QED
    BY <2>3 DEF Call
<1>5. \A v \in DOMAIN client_list :
        client_list[v].room_number \in DOMAIN chat_rooms \cup {NoRoom}
  BY DEF Core, RoomsConsistent
<1> QED
  BY <1>1, <1>2, <1>3, <1>4, <1>5 DEF OthersTold

LEMMA ToldStep == ASSUME Core, Next PROVE OthersTold
<1>1. CASE Quiet
  BY <1>1, NobodyToTell DEF Quiet
<1>2. ASSUME NEW sd \in Fds, NEW u \in Users,
             \/ \E t \in Texts : Pin(sd, u, t) \/ Say(sd, u, t)
             \/ DeletePin(sd, u)
      PROVE  OthersTold
  <2>1. DOMAIN chat_rooms \subseteq DOMAIN chat_rooms' /\ UNCHANGED client_list
    BY <1>2 DEF Pin, Say, DeletePin, PutRoom
  <2> QED
    BY <2>1, NobodyToTell
<1> QED
  BY <1>1, <1>2, StepKinds, ExitIsTold, EnterIsTold, CloseIsTold

\* Whoever is in a room is told of everyone who enters or leaves it and of
\* its closing, whatever the step.
THEOREM MembersAreTold == Spec => RoomIsTold
<1>1. Inv /\ [Next]_vars => [OthersTold]_vars
  BY ToldStep DEF Inv
<1> QED
  BY Invariance, <1>1, PTL DEF Spec, RoomIsTold

-----------------------------------------------------------------------------
(* Lines are delivered *)

\* Counting who is in a room needs finitely many accounts.
FiniteAccounts == IsFiniteSet(DOMAIN client_list)

LEMMA FiniteStep == ASSUME Core, FiniteAccounts, [Next]_vars PROVE FiniteAccounts'
<1>1. CASE UNCHANGED client_list
  BY <1>1 DEF FiniteAccounts
<1>2. ASSUME NEW sd \in Fds, NEW u \in Users, NEW p \in Passwds,
             Register(sd, u, p)
      PROVE  FiniteAccounts'
  <2>1. DOMAIN client_list' = DOMAIN client_list \cup {u} \/ UNCHANGED client_list
    BY <1>2 DEF Register
  <2> QED
    BY <1>1, <2>1, FS_AddElement DEF FiniteAccounts
<1>3. CASE DOMAIN client_list' = DOMAIN client_list
  BY <1>3 DEF FiniteAccounts
<1>4. ASSUME NEW sd \in Fds, RoomCommand(sd)
      PROVE  DOMAIN client_list' = DOMAIN client_list
  BY <1>4 DEF RoomCommand, Pin, Say, PinWithoutText, DeletePin, ExitChatRoom,
              RoomListUser, Respond
<1>5. ASSUME NEW sd \in Fds, LobbyCommand(sd)
      PROVE  DOMAIN client_list' = DOMAIN client_list
  BY <1>5 DEF LobbyCommand, EnterChatRoom, CloseChatRoom, CloseRefused, Respond
<1>6. ASSUME NEW sd \in Fds, AccountCommand(sd)
      PROVE  \/ DOMAIN client_list' = DOMAIN client_list
             \/ \E u \in Users, p \in Passwds : Register(sd, u, p)
  BY <1>6 DEF AccountCommand, LoginFails, Login, LogoutFirst, Logout, Detached,
              Whoami, ListUser, ListChatRoom, SetStatus, LoginFirst, Exit,
              Refuse, BlankLine, Respond
<1> QED
  BY <1>1, <1>2, <1>3, <1>4, <1>5, <1>6
     DEF Next, vars, Accept, AcceptFails, Disconnect

\* What Pin and Say send: the line, once to each connection of the room.
LEMMA LineDelivered ==
  ASSUME Core, FiniteAccounts, NEW sd \in Fds, NEW u, InRoom(sd, u),
         NEW line \in Line, NEW room,
         chat_rooms' = PutRoom(client_list[u].room_number, room),
         room.history # << >>, Last(room.history) = line,
         sent' = SendToRoom(Room(client_list[u].room_number).members, line, u)
                   \cup {Call(sd, "reply", NoOne, line)},
         UNCHANGED client_list
  PROVE  DeliveredToRoom'
<1> DEFINE r == client_list[u].room_number
           users == {v \in DOMAIN client_list : client_list[v].room_number = r}
           call(v) == IF v = u THEN Call(sd, "reply", NoOne, line)
                               ELSE Call(client_list[v].sd, "member", v, line)
<1>1. /\ u \in DOMAIN client_list /\ client_list[u].sd = sd
      /\ r \in DOMAIN chat_rooms /\ r \in Rooms
      /\ Room(r).members = users
  BY InRoomFacts, RoomFacts
<1>2. u \in users /\ IsFiniteSet(users)
  <2>1. users \subseteq DOMAIN client_list
    OBVIOUS
  <2> QED
    BY <1>1, <2>1, FS_Subset DEF FiniteAccounts
<1>3. r \in DOMAIN chat_rooms' /\ chat_rooms'[r] = room
  BY <1>1 DEF PutRoom
<1> HIDE DEF users
<1>4. sent' = {call(v) : v \in users}
  BY <1>1, <1>2 DEF SendToRoom
<1>5. \A v \in users : /\ call(v).to = client_list[v].sd
                       /\ call(v).msg = line
  BY <1>1 DEF Call
<1>6. \A v, w \in users : call(v) = call(w) => v = w
  BY DEF Call
<1> HIDE DEF call
<1>7. \A c \in sent' : c.msg = line
  BY <1>4, <1>5
<1>8. {c.to : c \in sent'} = {client_list[v].sd : v \in users}
  BY <1>4, <1>5
<1>9. Cardinality(sent') = Cardinality(users)
  <2> DEFINE f == [v \in users |-> call(v)]
  <2>1. f \in Bijection(users, sent')
    BY <1>4, <1>6 DEF Bijection, Injection, IsInjective, Surjection
  <2>2. ExistsBijection(users, sent')
    BY <2>1 DEF ExistsBijection
  <2> QED
    BY <1>2, <2>2, FS_Bijection
<1>10. ASSUME NEW c0 \in sent'
       PROVE  /\ {c \in sent' : c.msg = c0.msg} = sent'
              /\ c0.msg = line
  BY <1>7
<1>11. users = {v \in DOMAIN client_list' : client_list'[v].room_number = r}
  BY DEF users
<1>12. OnceEach(sent', users, client_list)
  BY <1>8, <1>9 DEF OnceEach
<1> HIDE DEF r
<1> QED
  BY <1>3, <1>10, <1>11, <1>12 DEF DeliveredToRoom

\* AddMessage leaves its line as the newest.
LEMMA AddMessageLast ==
  ASSUME NEW room \in ChatRoomInfo, NEW line \in Line, HistoryBounded(room)
  PROVE  /\ AddMessage(room, line).history # << >>
         /\ Last(AddMessage(room, line).history) = line
<1> DEFINE h == room.history
           g == AddMessage(room, line).history
<1>1. g \in Seq(Line)
  BY AddMessageTyped DEF ChatRoomInfo
<1>2. PICK d \in {0, 1} :
        /\ d <= Len(h)
        /\ Len(h) \in Nat /\ DOMAIN h = 1..Len(h)
        /\ DOMAIN g = 1..(Len(h) - d + 1)
        /\ g[Len(h) - d + 1] = line
  BY AddMessageShape
<1> HIDE DEF g, h
<1>3. Len(g) = Len(h) - d + 1
  BY <1>1, <1>2, LenProperties
<1>4. g # << >>
  BY <1>1, <1>2, <1>3, EmptySeq
<1> QED
  BY <1>2, <1>3, <1>4 DEF Last, g, h

\* SetPin too.
LEMMA SetPinLast ==
  ASSUME NEW room \in ChatRoomInfo, NEW line \in Line, HistoryBounded(room)
  PROVE  /\ SetPin(room, line).history # << >>
         /\ Last(SetPin(room, line).history) = line
<1> DEFINE erased == [EraseOldPin(room) EXCEPT !.pin_message = line]
<1>1. erased \in ChatRoomInfo /\ HistoryBounded(erased)
  BY EraseOldPinProperties DEF ChatRoomInfo, HistoryBounded
<1> HIDE DEF erased
<1>2. /\ AddMessage(erased, line).history # << >>
      /\ Last(AddMessage(erased, line).history) = line
  BY <1>1, AddMessageLast
<1> QED
  BY <1>2 DEF SetPin, erased

\* A step that sends no line has nothing to deliver.
LEMMA NothingToDeliver ==
  ASSUME \A call \in sent' : call.msg \notin Line PROVE DeliveredToRoom'
BY DEF DeliveredToRoom

LEMMA DeliveredStep ==
  ASSUME Core, FiniteAccounts, DeliveredToRoom, [Next]_vars
  PROVE  DeliveredToRoom'
<1>1. CASE UNCHANGED vars
  <2>1. client_list' = client_list /\ chat_rooms' = chat_rooms /\ sent' = sent
    BY <1>1 DEF vars
  <2> QED
    BY <2>1 DEF DeliveredToRoom
<1>2. CASE Quiet
  BY <1>2, NothingToDeliver DEF Quiet
<1>3. ASSUME NEW sd \in Fds, NEW u \in Users, NEW t \in Texts, Pin(sd, u, t)
      PROVE  DeliveredToRoom'
  <2> DEFINE r == client_list[u].room_number
             room == SetPin(Room(r), PinLine(u, t))
  <2>1. InRoom(sd, u) /\ r \in Rooms
    BY <1>3, InRoomFacts DEF Pin
  <2>2. PinLine(u, t) \in Line
    BY LinesTyped
  <2>3. room.history # << >> /\ Last(room.history) = PinLine(u, t)
    BY <2>1, <2>2, RoomFacts, SetPinLast
  <2>4. /\ chat_rooms' = PutRoom(r, room)
        /\ sent' = SendToRoom(Room(r).members, PinLine(u, t), u)
                     \cup {Call(sd, "reply", NoOne, PinLine(u, t))}
        /\ UNCHANGED client_list
    BY <1>3 DEF Pin
  <2> HIDE DEF room
  <2> QED
    BY <2>1, <2>2, <2>3, <2>4, LineDelivered
<1>4. ASSUME NEW sd \in Fds, NEW u \in Users, NEW t \in Texts, Say(sd, u, t)
      PROVE  DeliveredToRoom'
  <2> DEFINE r == client_list[u].room_number
             room == AddMessage(Room(r), ChatLine(u, t))
  <2>1. InRoom(sd, u) /\ r \in Rooms
    BY <1>4, InRoomFacts DEF Say
  <2>2. ChatLine(u, t) \in Line
    BY LinesTyped
  <2>3. room.history # << >> /\ Last(room.history) = ChatLine(u, t)
    BY <2>1, <2>2, RoomFacts, AddMessageLast
  <2>4. /\ chat_rooms' = PutRoom(r, room)
        /\ sent' = SendToRoom(Room(r).members, ChatLine(u, t), u)
                     \cup {Call(sd, "reply", NoOne, ChatLine(u, t))}
        /\ UNCHANGED client_list
    BY <1>4 DEF Say
  <2> HIDE DEF room
  <2> QED
    BY <2>1, <2>2, <2>3, <2>4, LineDelivered
<1>5. ASSUME NEW sd \in Fds, NEW u \in Users, DeletePin(sd, u)
      PROVE  DeliveredToRoom'
  BY <1>5, NothingToDeliver, ReplyHasNoLine DEF DeletePin
<1>6. ASSUME NEW sd \in Fds, NEW u \in Users, ExitChatRoom(sd, u)
      PROVE  DeliveredToRoom'
  BY <1>6, NothingToDeliver, NoteIsNoLine DEF ExitChatRoom, Call
<1>7. ASSUME NEW sd \in Fds, NEW u \in Users, NEW r \in Rooms,
             EnterChatRoom(sd, u, r)
      PROVE  DeliveredToRoom'
  <2>1. PICK members : sent' = SendToRoom(members, Note("entered", u), u)
                                 \cup Reply(sd, "welcome_room")
    BY <1>7 DEF EnterChatRoom
  <2> QED
    BY <2>1, NothingToDeliver, NoteIsNoLine, ReplyHasNoLine DEF SendToRoom, Call
<1>8. ASSUME NEW sd \in Fds, NEW u \in Users, NEW r \in Rooms,
             CloseChatRoom(sd, u, r)
      PROVE  DeliveredToRoom'
  BY <1>8, NothingToDeliver, NoteIsNoLine, ReplyHasNoLine
     DEF CloseChatRoom, Call
<1> QED
  BY <1>1, <1>2, <1>3, <1>4, <1>5, <1>6, <1>7, <1>8, StepKinds

\* What is said or pinned reaches everyone in the room exactly once, and
\* nobody else.
THEOREM Delivery == Spec => []DeliveredToRoom
<1>1. Init => FiniteAccounts /\ DeliveredToRoom
  BY FS_EmptySet DEF Init, FiniteAccounts, DeliveredToRoom
<1>2. Inv /\ FiniteAccounts /\ DeliveredToRoom /\ [Next]_vars
        => FiniteAccounts' /\ DeliveredToRoom'
  BY FiniteStep, DeliveredStep DEF Inv
<1> QED
  BY Invariance, <1>1, <1>2, PTL DEF Spec

-----------------------------------------------------------------------------
(* The rooms implement the lobby *)

\* Where a user is can be read from either copy of the fact.
RoomOf == [u \in Users |-> IF u \in DOMAIN client_list
                           THEN client_list[u].room_number ELSE NoRoom]

OwnerOf == [r \in Rooms |-> IF r \in DOMAIN chat_rooms
                            THEN chat_rooms[r].owner ELSE NoOne]

LEMMA WhereIsRoomOf == Core => whereBar = RoomOf
<1> SUFFICES ASSUME Core, NEW u \in Users
             PROVE  Where(u) = IF u \in DOMAIN client_list
                               THEN client_list[u].room_number ELSE NoRoom
  BY DEF whereBar, RoomOf
<1>1. \A r \in DOMAIN chat_rooms :
        u \in chat_rooms[r].members <=>
          u \in DOMAIN client_list /\ client_list[u].room_number = r
  BY DEF Core, RoomsConsistent
<1>2. u \in DOMAIN client_list =>
        client_list[u].room_number \in DOMAIN chat_rooms \cup {NoRoom}
  BY DEF Core, RoomsConsistent
<1>3. NoRoom \notin DOMAIN chat_rooms
  BY Numbers DEF Core
<1> QED
  BY <1>1, <1>2, <1>3 DEF Where

LEMMA OwnerIsOwnerOf == ownerBar = OwnerOf
BY DEF ownerBar, OwnerOf, Room, NewRoom

BarsAgree == whereBar = RoomOf /\ ownerBar = OwnerOf

LEMMA LobbyBars == Core => BarsAgree
BY WhereIsRoomOf, OwnerIsOwnerOf DEF BarsAgree

LEMMA LobbyInit == Init => TheLobby!Init
<1> SUFFICES ASSUME Init PROVE TheLobby!Init
  OBVIOUS
<1>1. whereBar = RoomOf
  BY InitInv, WhereIsRoomOf DEF Inv
<1> QED
  BY <1>1, OwnerIsOwnerOf DEF Init, TheLobby!Init, RoomOf, OwnerOf

LEMMA LobbyStutters ==
  ASSUME DOMAIN client_list \subseteq DOMAIN client_list',
         \A v \in DOMAIN client_list' :
           client_list'[v].room_number = IF v \in DOMAIN client_list
                                         THEN client_list[v].room_number
                                         ELSE NoRoom,
         DOMAIN chat_rooms' = DOMAIN chat_rooms,
         \A r \in DOMAIN chat_rooms : chat_rooms'[r].owner = chat_rooms[r].owner
  PROVE  RoomOf' = RoomOf /\ OwnerOf' = OwnerOf
<1>1. \A u \in Users : 
        (IF u \in DOMAIN client_list' THEN client_list'[u].room_number ELSE NoRoom)
        = (IF u \in DOMAIN client_list THEN client_list[u].room_number ELSE NoRoom)
  OBVIOUS
<1> QED
  BY <1>1 DEF RoomOf, OwnerOf

\* Saying, pinning and unpinning move nobody and change no owner.
LEMMA TalkStutters ==
  ASSUME Core, NEW sd \in Fds, NEW u \in Users,
         \/ \E t \in Texts : Pin(sd, u, t) \/ Say(sd, u, t)
         \/ DeletePin(sd, u)
  PROVE  RoomOf' = RoomOf /\ OwnerOf' = OwnerOf
<1> DEFINE r == client_list[u].room_number
<1>1. /\ r \in DOMAIN chat_rooms /\ r \in Rooms
      /\ Room(r) = chat_rooms[r] /\ Room(r) \in ChatRoomInfo
  BY InRoomFacts, RoomFacts DEF Pin, Say, DeletePin
<1>2. \E room : chat_rooms' = PutRoom(r, room) /\ room.owner = Room(r).owner
  <2>1. ASSUME NEW t \in Texts, Pin(sd, u, t) \/ Say(sd, u, t)
        PROVE  \E room : chat_rooms' = PutRoom(r, room) /\ room.owner = Room(r).owner
    BY <1>1, <2>1, OthersKept, LinesTyped DEF Pin, Say
  <2>2. CASE DeletePin(sd, u)
    <3>1. ClearPin(Room(r)).owner = Room(r).owner
      BY <1>1, EraseOldPinProperties DEF ClearPin, ChatRoomInfo
    <3> QED
      BY <2>2, <3>1 DEF DeletePin
  <2> QED
    BY <2>1, <2>2
<1>3. UNCHANGED client_list
  BY DEF Pin, Say, DeletePin
<1>4. /\ DOMAIN chat_rooms' = DOMAIN chat_rooms
      /\ \A n \in DOMAIN chat_rooms : chat_rooms'[n].owner = chat_rooms[n].owner
  BY <1>1, <1>2 DEF PutRoom
<1> QED
  BY <1>3, <1>4, LobbyStutters

LEMMA LeaveImplemented ==
  ASSUME Core, NEW sd \in Fds, NEW u \in Users, ExitChatRoom(sd, u),
         BarsAgree, BarsAgree'
  PROVE  TheLobby!Leave(u)
<1> DEFINE r == client_list[u].room_number
<1>1. /\ u \in DOMAIN client_list /\ r # NoRoom
      /\ r \in DOMAIN chat_rooms /\ Room(r) = chat_rooms[r]
      /\ chat_rooms[r] \in ChatRoomInfo
  BY InRoomFacts DEF ExitChatRoom, InRoom, Core
<1>2. /\ DOMAIN client_list' = DOMAIN client_list
      /\ \A v \in DOMAIN client_list :
           client_list'[v].room_number =
             IF v = u THEN NoRoom ELSE client_list[v].room_number
  BY <1>1, ClientFields DEF ExitChatRoom, ClientInfo
<1>3. /\ DOMAIN chat_rooms' = DOMAIN chat_rooms
      /\ \A n \in DOMAIN chat_rooms : chat_rooms'[n].owner = chat_rooms[n].owner
  BY <1>1 DEF ExitChatRoom, PutRoom, ChatRoomInfo
<1>4. RoomOf[u] # NoRoom /\ RoomOf' = [RoomOf EXCEPT ![u] = NoRoom]
  BY <1>1, <1>2 DEF RoomOf
<1>5. OwnerOf' = OwnerOf
  BY <1>3 DEF OwnerOf
<1> QED
  BY <1>4, <1>5 DEF BarsAgree, TheLobby!Leave

LEMMA EnterImplemented ==
  ASSUME Core, NEW sd \in Fds, NEW u \in Users, NEW r \in Rooms,
         EnterChatRoom(sd, u, r),
         BarsAgree, BarsAgree'
  PROVE  TheLobby!Enter(u, r)
<1> DEFINE entered == [Room(r) EXCEPT !.owner   = IF @ = NoOne THEN u ELSE @,
                                      !.members = @ \cup {u}]
           owner == IF r \in DOMAIN chat_rooms THEN chat_rooms[r].owner ELSE NoOne
<1>1. u \in DOMAIN client_list /\ client_list[u].room_number = NoRoom
  BY DEF EnterChatRoom, LoggedInAs, AtPrompt, Attached
<1>2. /\ DOMAIN client_list' = DOMAIN client_list
      /\ \A v \in DOMAIN client_list :
           client_list'[v].room_number =
             IF v = u THEN r ELSE client_list[v].room_number
  BY <1>1, ClientFields DEF EnterChatRoom, ClientInfo
<1>3. Room(r).owner = owner
  BY DEF Room, NewRoom
<1>4. entered.owner = IF owner = NoOne THEN u ELSE owner
  BY <1>3, RoomFacts DEF ChatRoomInfo
<1>5. chat_rooms' = PutRoom(r, entered)
  BY DEF EnterChatRoom
<1> HIDE DEF entered
<1>6. /\ DOMAIN chat_rooms' = DOMAIN chat_rooms \cup {r}
      /\ chat_rooms'[r].owner = IF owner = NoOne THEN u ELSE owner
      /\ \A n \in DOMAIN chat_rooms \ {r} : chat_rooms'[n] = chat_rooms[n]
  BY <1>4, <1>5 DEF PutRoom
<1>7. RoomOf[u] = NoRoom /\ RoomOf' = [RoomOf EXCEPT ![u] = r]
  BY <1>1, <1>2 DEF RoomOf
<1>8. OwnerOf' = [OwnerOf EXCEPT ![r] = IF @ = NoOne THEN u ELSE @]
  BY <1>6 DEF OwnerOf
<1> QED
  BY <1>7, <1>8 DEF BarsAgree, TheLobby!Enter

LEMMA CloseImplemented ==
  ASSUME Core, NEW sd \in Fds, NEW u \in Users, NEW r \in Rooms,
         CloseChatRoom(sd, u, r),
         BarsAgree, BarsAgree'
  PROVE  TheLobby!Close(u, r)
<1>1. /\ u \in DOMAIN client_list /\ client_list[u].room_number = NoRoom
      /\ r \in DOMAIN chat_rooms /\ chat_rooms[r].owner = u
      /\ r # NoRoom
  BY Numbers DEF CloseChatRoom, LoggedInAs, AtPrompt, Attached
<1>2. /\ DOMAIN client_list' = DOMAIN client_list
      /\ \A v \in DOMAIN client_list :
           client_list'[v].room_number = IF client_list[v].room_number = r
                                         THEN NoRoom
                                         ELSE client_list[v].room_number
  BY CloseMoves
<1>3. /\ DOMAIN chat_rooms' = DOMAIN chat_rooms \ {r}
      /\ \A n \in DOMAIN chat_rooms \ {r} : chat_rooms'[n] = chat_rooms[n]
  BY DEF CloseChatRoom
<1>4. /\ RoomOf[u] = NoRoom
      /\ RoomOf' = [v \in Users |-> IF RoomOf[v] = r THEN NoRoom ELSE RoomOf[v]]
  BY <1>1, <1>2 DEF RoomOf
<1>5. OwnerOf[r] = u /\ OwnerOf' = [OwnerOf EXCEPT ![r] = NoOne]
  BY <1>1, <1>3 DEF OwnerOf
<1> QED
  BY <1>4, <1>5 DEF BarsAgree, TheLobby!Close

LEMMA LobbyStep ==
  ASSUME Core, BarsAgree, BarsAgree', [Next]_vars
  PROVE  [TheLobby!Next]_(TheLobby!vars)
<1>1. /\ whereBar = RoomOf /\ whereBar' = RoomOf'
      /\ ownerBar = OwnerOf /\ ownerBar' = OwnerOf'
  BY DEF BarsAgree
<1>2. CASE RoomOf' = RoomOf /\ OwnerOf' = OwnerOf
  BY <1>1, <1>2 DEF TheLobby!vars
<1>3. CASE UNCHANGED vars
  <2>1. client_list' = client_list /\ chat_rooms' = chat_rooms
    BY <1>3 DEF vars
  <2> QED
    BY <1>2, <2>1 DEF RoomOf, OwnerOf
<1>4. CASE Quiet
  <2>1. RoomOf' = RoomOf /\ OwnerOf' = OwnerOf
    BY <1>4, LobbyStutters DEF Quiet
  <2> QED
    BY <1>2, <2>1
<1>5. ASSUME NEW sd \in Fds, NEW u \in Users,
             \/ \E t \in Texts : Pin(sd, u, t) \/ Say(sd, u, t)
             \/ DeletePin(sd, u)
      PROVE  RoomOf' = RoomOf /\ OwnerOf' = OwnerOf
  BY <1>5, TalkStutters
<1>6. ASSUME NEW sd \in Fds, NEW u \in Users, ExitChatRoom(sd, u)
      PROVE  TheLobby!Next
  BY <1>6, LeaveImplemented DEF TheLobby!Next
<1>7. ASSUME NEW sd \in Fds, NEW u \in Users, NEW r \in Rooms,
             EnterChatRoom(sd, u, r) \/ CloseChatRoom(sd, u, r)
      PROVE  TheLobby!Next
  BY <1>7, EnterImplemented, CloseImplemented DEF TheLobby!Next
<1> QED
  BY <1>2, <1>3, <1>4, <1>5, <1>6, <1>7, StepKinds

\* Whatever happens to sessions and connections, the rooms keep the promises
\* of the lobby: one room per user, owners that stay until they close.
THEOREM ImplementsLobby == Spec => LobbyImplemented
<1>1. Inv => BarsAgree
  BY LobbyBars DEF Inv
<1>2. Inv /\ BarsAgree /\ BarsAgree' /\ [Next]_vars
        => [TheLobby!Next]_(TheLobby!vars)
  BY LobbyStep DEF Inv
<1> QED
  BY Invariance, LobbyInit, <1>1, <1>2, PTL
     DEF Spec, LobbyImplemented, TheLobby!Spec

-----------------------------------------------------------------------------
(* The histories implement the logs *)

LogOf == [r \in Rooms |-> IF r \in DOMAIN chat_rooms
                          THEN chat_rooms[r].history ELSE << >>]

LogsAgree == logBar = LogOf

LEMMA LogBars == LogsAgree
BY DEF LogsAgree, logBar, LogOf, Room, NewRoom

\* What one room does to its history, as an operation on a log.
LEMMA AddMessageLog ==
  ASSUME NEW room \in ChatRoomInfo, NEW line
  PROVE  AddMessage(room, line).history =
           Append(TheLogs!Newest(room.history), line)
BY DEF AddMessage, TheLogs!Newest, ChatRoomInfo

LEMMA EraseOldPinLog ==
  ASSUME NEW room \in ChatRoomInfo, PinShown(room)
  PROVE  EraseOldPin(room).history = TheLogs!Unpinned(room.history)
<1> DEFINE h == room.history
<1>1. h \in Seq(Line) /\ Len(h) \in Nat /\ DOMAIN h = 1..Len(h)
  BY LenProperties DEF ChatRoomInfo
<1>2. CASE room.pin_message = NoPin
  <2>1. \A n \in DOMAIN h : h[n].kind # "pin"
    BY <1>2 DEF PinShown
  <2> QED
    BY <1>2, <2>1 DEF EraseOldPin, TheLogs!Unpinned, TheLogs!Pinned
<1>3. CASE room.pin_message # NoPin
  <2>1. PICK p \in DOMAIN h :
          /\ h[p] = room.pin_message
          /\ h[p].kind = "pin"
          /\ \A n \in DOMAIN h : h[n].kind = "pin" => n = p
    BY <1>3 DEF PinShown
  <2>2. PICK k \in 1..Len(h) :
          /\ h[k] = room.pin_message
          /\ RemoveFirst(h, room.pin_message) = RemoveAt(h, k)
    BY <1>1, <2>1, RemoveFirstIsRemoveAt
  <2>3. k = p
    BY <1>1, <2>1, <2>2
  <2>4. (CHOOSE n \in DOMAIN h : TheLogs!Pinned(h[n])) = p
    BY <2>1 DEF TheLogs!Pinned
  <2>5. TheLogs!Unpinned(h) = RemoveAt(h, p)
    BY <2>1, <2>4
       DEF TheLogs!Unpinned, TheLogs!Pinned, TheLogs!RemoveAt, RemoveAt
  <2>6. EraseOldPin(room).history = RemoveFirst(h, room.pin_message)
    BY <1>3 DEF EraseOldPin, ChatRoomInfo
  <2> QED
    BY <2>2, <2>3, <2>5, <2>6
<1> QED
  BY <1>2, <1>3

LEMMA SetPinLog ==
  ASSUME NEW room \in ChatRoomInfo, PinShown(room), NEW line \in Line
  PROVE  SetPin(room, line).history =
           Append(TheLogs!Newest(TheLogs!Unpinned(room.history)), line)
<1> DEFINE erased == [EraseOldPin(room) EXCEPT !.pin_message = line]
<1>1. /\ erased \in ChatRoomInfo
      /\ erased.history = EraseOldPin(room).history
  BY EraseOldPinProperties DEF ChatRoomInfo
<1> HIDE DEF erased
<1>2. AddMessage(erased, line).history =
        Append(TheLogs!Newest(erased.history), line)
  BY <1>1, AddMessageLog
<1>3. SetPin(room, line) = AddMessage(erased, line)
  BY DEF SetPin, erased
<1> QED
  BY <1>1, <1>2, <1>3, EraseOldPinLog

\* A step that gives one room that exists another history.
LEMMA LogsExcept ==
  ASSUME NEW r \in DOMAIN chat_rooms, NEW room, r \in Rooms,
         chat_rooms' = PutRoom(r, room)
  PROVE  LogOf' = [LogOf EXCEPT ![r] = room.history]
BY DEF LogOf, PutRoom

\* A step that keeps the histories, or adds a room that has none.
LEMMA LogsStutter ==
  ASSUME NEW r \in Rooms, NEW room, chat_rooms' = PutRoom(r, room),
         room.history = LogOf[r]
  PROVE  LogOf' = LogOf
BY DEF LogOf, PutRoom

LEMMA LogsStep ==
  ASSUME Core, LogsAgree, LogsAgree', [Next]_vars
  PROVE  [TheLogs!Next]_logBar
<1>1. logBar = LogOf /\ logBar' = LogOf'
  BY DEF LogsAgree
<1>2. CASE chat_rooms' = chat_rooms
  BY <1>1, <1>2 DEF LogOf
<1>3. \A r \in DOMAIN chat_rooms : r \in Rooms /\ LogOf[r] = chat_rooms[r].history
  BY DEF Core, LogOf
<1>4. ASSUME NEW sd \in Fds, NEW u \in Users, NEW t \in Texts, Pin(sd, u, t)
      PROVE  TheLogs!Next
  <2> DEFINE r == client_list[u].room_number
             line == PinLine(u, t)
  <2>1. /\ r \in DOMAIN chat_rooms /\ r \in Rooms /\ Room(r) = chat_rooms[r]
        /\ Room(r) \in ChatRoomInfo /\ PinShown(Room(r))
    BY <1>4, InRoomFacts, RoomFacts DEF Pin
  <2>2. line \in Line /\ line.kind = "pin"
    BY LinesTyped
  <2>3. chat_rooms' = PutRoom(r, SetPin(Room(r), line))
    BY <1>4 DEF Pin
  <2> HIDE DEF r, line
  <2>4. LogOf' = [LogOf EXCEPT ![r] =
                    Append(TheLogs!Newest(TheLogs!Unpinned(LogOf[r])), line)]
    BY <1>3, <2>1, <2>2, <2>3, SetPinLog, LogsExcept
  <2>5. TheLogs!Pin(r)
    BY <1>1, <2>2, <2>4 DEF TheLogs!Pin, TheLogs!Pinned
  <2> QED
    BY <2>1, <2>5 DEF TheLogs!Next
<1>5. ASSUME NEW sd \in Fds, NEW u \in Users, NEW t \in Texts, Say(sd, u, t)
      PROVE  TheLogs!Next
  <2> DEFINE r == client_list[u].room_number
             line == ChatLine(u, t)
  <2>1. /\ r \in DOMAIN chat_rooms /\ r \in Rooms /\ Room(r) = chat_rooms[r]
        /\ Room(r) \in ChatRoomInfo
    BY <1>5, InRoomFacts, RoomFacts DEF Say
  <2>2. line \in Line /\ line.kind = "chat"
    BY LinesTyped
  <2>3. chat_rooms' = PutRoom(r, AddMessage(Room(r), line))
    BY <1>5 DEF Say
  <2> HIDE DEF r, line
  <2>4. LogOf' = [LogOf EXCEPT ![r] = Append(TheLogs!Newest(LogOf[r]), line)]
    BY <1>3, <2>1, <2>2, <2>3, AddMessageLog, LogsExcept
  <2>5. TheLogs!Post(r)
    BY <1>1, <2>2, <2>4 DEF TheLogs!Post, TheLogs!Pinned
  <2> QED
    BY <2>1, <2>5 DEF TheLogs!Next
<1>6. ASSUME NEW sd \in Fds, NEW u \in Users, DeletePin(sd, u)
      PROVE  TheLogs!Next \/ LogOf' = LogOf
  <2> DEFINE r == client_list[u].room_number
  <2>1. /\ r \in DOMAIN chat_rooms /\ r \in Rooms /\ Room(r) = chat_rooms[r]
        /\ Room(r) \in ChatRoomInfo /\ PinShown(Room(r))
    BY <1>6, InRoomFacts, RoomFacts DEF DeletePin
  <2>2. \/ chat_rooms' = PutRoom(r, Room(r))
        \/ chat_rooms' = PutRoom(r, ClearPin(Room(r)))
    BY <1>6 DEF DeletePin
  <2> HIDE DEF r
  <2>3. CASE chat_rooms' = PutRoom(r, Room(r))
    BY <1>3, <2>1, <2>3, LogsStutter
  <2>4. CASE chat_rooms' = PutRoom(r, ClearPin(Room(r)))
    <3>1. ClearPin(Room(r)).history = EraseOldPin(Room(r)).history
      BY <2>1, EraseOldPinProperties DEF ClearPin, ChatRoomInfo
    <3>2. LogOf' = [LogOf EXCEPT ![r] = TheLogs!Unpinned(LogOf[r])]
      BY <1>3, <2>1, <2>4, <3>1, EraseOldPinLog, LogsExcept
    <3>3. TheLogs!Unpin(r)
      BY <1>1, <3>2 DEF TheLogs!Unpin
    <3> QED
      BY <2>1, <3>3 DEF TheLogs!Next
  <2> QED
    BY <2>2, <2>3, <2>4
<1>7. ASSUME NEW sd \in Fds, NEW u \in Users, ExitChatRoom(sd, u)
      PROVE  LogOf' = LogOf
  <2> DEFINE r == client_list[u].room_number
             left == [Room(r) EXCEPT !.members = @ \ {u}]
  <2>1. /\ r \in DOMAIN chat_rooms /\ r \in Rooms /\ Room(r) = chat_rooms[r]
        /\ Room(r) \in ChatRoomInfo
    BY <1>7, InRoomFacts, RoomFacts DEF ExitChatRoom
  <2>2. left.history = Room(r).history
    BY <2>1 DEF ChatRoomInfo
  <2>3. chat_rooms' = PutRoom(r, left)
    BY <1>7 DEF ExitChatRoom
  <2> HIDE DEF r, left
  <2> QED
    BY <1>3, <2>1, <2>2, <2>3, LogsStutter
<1>8. ASSUME NEW sd \in Fds, NEW u \in Users, NEW r \in Rooms,
             EnterChatRoom(sd, u, r)
      PROVE  LogOf' = LogOf
  <2> DEFINE entered == [Room(r) EXCEPT !.owner   = IF @ = NoOne THEN u ELSE @,
                                        !.members = @ \cup {u}]
  <2>1. entered.history = Room(r).history
    BY RoomFacts DEF ChatRoomInfo
  <2>2. Room(r).history = LogOf[r]
    BY DEF LogOf, Room, NewRoom
  <2>3. chat_rooms' = PutRoom(r, entered)
    BY <1>8 DEF EnterChatRoom
  <2> HIDE DEF entered
  <2> QED
    BY <2>1, <2>2, <2>3, LogsStutter
<1>9. ASSUME NEW sd \in Fds, NEW u \in Users, NEW r \in Rooms,
             CloseChatRoom(sd, u, r)
      PROVE  TheLogs!Next
  <2>1. LogOf' = [LogOf EXCEPT ![r] = << >>]
    BY <1>9 DEF CloseChatRoom, LogOf
  <2>2. TheLogs!Clear(r)
    BY <1>1, <2>1 DEF TheLogs!Clear
  <2> QED
    BY <2>2 DEF TheLogs!Next
<1>10. CASE UNCHANGED vars \/ Quiet
  BY <1>2, <1>10 DEF vars, Quiet
<1> QED
  BY <1>1, <1>4, <1>5, <1>6, <1>7, <1>8, <1>9, <1>10, StepKinds

\* Deque and pin_message of every room together are one log with a pin.
THEOREM ImplementsLogs == Spec => RoomLogsImplemented
<1>1. Init => TheLogs!Init
  BY LogBars DEF LogsAgree, LogOf, Init, TheLogs!Init
<1>2. Inv /\ LogsAgree /\ LogsAgree' /\ [Next]_vars => [TheLogs!Next]_logBar
  BY LogsStep DEF Inv
<1> QED
  BY Invariance, LogBars, <1>1, <1>2, PTL
     DEF Spec, RoomLogsImplemented, TheLogs!Spec

=============================================================================
