----------------------------- MODULE ChatServer -----------------------------
(***************************************************************************)
(* The chat server of HW2/hw2_chat_server.cpp: the accounts, sessions and  *)
(* rooms that process_command keeps, and the connections it is called for. *)
(*                                                                         *)
(* The server is one thread; a step is one call of process_command, an     *)
(* accepted connection, or an end of file read from one.  The order in     *)
(* which the select loop picks them is the subject of module ChatLoop;     *)
(* here any open connection may be next.                                   *)
(***************************************************************************)
EXTENDS RoomHistory, FiniteSets, FiniteSetsExt

CONSTANTS
  Passwds,     \* the passwords clients use
  Rooms,       \* the valid room numbers, 1..100 in the code
  Fds,         \* the descriptors accept can return
  Abrupt,      \* may a client close its connection without "exit"?
  EndReads     \* what client_list.end()->second.logged_in may read as

NoRoom == -1
NoSd   == -1

ASSUME ServerAssumption ==
  /\ Rooms \subseteq Nat
  /\ Fds \subseteq Nat
  /\ Abrupt \in BOOLEAN
  /\ EndReads \subseteq BOOLEAN
  /\ EndReads # {}

VARIABLES
  client_list, \* registered user -> client_info
  chat_rooms,  \* room number -> chat_room_info
  open,        \* the descriptors of the open connections
  who,         \* history variable: the user a connection itself logged in as
  sent,        \* the send calls of the last step
  running      \* FALSE once the process has died

vars == <<client_list, chat_rooms, open, who, sent, running>>

Statuses == {"online", "offline", "busy"}

ClientInfo == [ passwd      : Passwds,
                status      : Statuses,
                room_number : Rooms \cup {NoRoom},
                sd          : Fds \cup {NoSd},
                logged_in   : BOOLEAN ]

-----------------------------------------------------------------------------
(* Helpers *)

\* The sessions bound to a descriptor; process_command takes the first one.
Attached(sd) == {u \in DOMAIN client_list : client_list[u].sd = sd}

\* chat_rooms[r], which creates the room when there is none.
Room(r) == IF r \in DOMAIN chat_rooms THEN chat_rooms[r] ELSE NewRoom

PutRoom(r, room) ==
  [n \in DOMAIN chat_rooms \cup {r} |-> IF n = r THEN room ELSE chat_rooms[n]]

\* A connection whose client is in a room types lines that only the room
\* commands interpret; every other connection types default commands.
InRoom(sd, u) ==
  /\ running
  /\ sd \in open
  /\ u \in Attached(sd)
  /\ client_list[u].room_number # NoRoom

\* Mutant: a client in a room may type default commands too.
AtPrompt_Anywhere(sd) == running /\ sd \in open

AtPrompt(sd) ==
  /\ running
  /\ sd \in open
  /\ \A u \in Attached(sd) : client_list[u].room_number = NoRoom

LoggedInAs(sd, u) == AtPrompt(sd) /\ u \in Attached(sd)

(***************************************************************************)
(* A send call: the descriptor, the statement that makes it ("member" and  *)
(* "leave" are loops over users, "closing" the one in close-chat-room,     *)
(* "reply" the one at the end), the user it is made for, and the message.  *)
(* Prompts are left out.                                                   *)
(***************************************************************************)
Call(sd, by, u, msg) == [to |-> sd, by |-> by, user |-> u, msg |-> msg]

Note(kind, u) == [kind |-> kind, from |-> u, text |-> NoText]

Reply(sd, kind) == {Call(sd, "reply", NoOne, Note(kind, NoOne))}

\* Mutant: the sender is not left out of the loop over the members.
SendToRoom_Echo(members, msg, sender) ==
  {Call(client_list[v].sd, "member", v, msg) : v \in members}

SendToRoom(members, msg, sender) ==
  {Call(client_list[v].sd, "member", v, msg) : v \in members \ {sender}}

Respond(sd, kind) ==
  /\ sent' = Reply(sd, kind)
  /\ UNCHANGED <<client_list, chat_rooms, open, who, running>>

-----------------------------------------------------------------------------
(* Commands of a client that is in a room *)

Pin(sd, u, t) ==
  LET r    == client_list[u].room_number
      line == PinLine(u, t)
  IN  /\ InRoom(sd, u)
      /\ chat_rooms' = PutRoom(r, SetPin(Room(r), line))
      /\ sent' = SendToRoom(Room(r).members, line, u)
                   \cup {Call(sd, "reply", NoOne, line)}
      /\ UNCHANGED <<client_list, open, who, running>>

\* "/pin" alone: cmd.substr(5) throws out_of_range and nothing catches it.
PinWithoutText(sd, u) ==
  /\ InRoom(sd, u)
  /\ running' = FALSE
  /\ sent' = {}
  /\ UNCHANGED <<client_list, chat_rooms, open, who>>

DeletePin(sd, u) ==
  LET r == client_list[u].room_number
  IN  /\ InRoom(sd, u)
      /\ \/ /\ Room(r).pin_message = NoPin
            /\ chat_rooms' = PutRoom(r, Room(r))
            /\ sent' = Reply(sd, "no_pin")
         \/ /\ Room(r).pin_message # NoPin
            /\ chat_rooms' = PutRoom(r, ClearPin(Room(r)))
            /\ sent' = {}
      /\ UNCHANGED <<client_list, open, who, running>>

\* Mutant: the user stays in the member list.
ExitChatRoom_Listed(sd, u) ==
  LET r == client_list[u].room_number
  IN  /\ InRoom(sd, u)
      /\ client_list' = [client_list EXCEPT ![u].room_number = NoRoom]
      /\ sent' = {Call(client_list[v].sd, "leave", v, Note("left", u)) :
                    v \in {w \in DOMAIN client_list \ {u} :
                             client_list[w].room_number = r}}
      /\ UNCHANGED <<chat_rooms, open, who, running>>

\* Mutant: the room to tell is read after room_number was set to -1.
ExitChatRoom_TellsLobby(sd, u) ==
  LET r == client_list[u].room_number
  IN  /\ InRoom(sd, u)
      /\ client_list' = [client_list EXCEPT ![u].room_number = NoRoom]
      /\ chat_rooms' = PutRoom(r, [Room(r) EXCEPT !.members = @ \ {u}])
      /\ sent' = {Call(client_list[v].sd, "leave", v, Note("left", u)) :
                    v \in {w \in DOMAIN client_list \ {u} :
                             client_list[w].room_number = NoRoom}}
      /\ UNCHANGED <<open, who, running>>

ExitChatRoom(sd, u) ==
  LET r == client_list[u].room_number
  IN  /\ InRoom(sd, u)
      /\ client_list' = [client_list EXCEPT ![u].room_number = NoRoom]
      /\ chat_rooms' = PutRoom(r, [Room(r) EXCEPT !.members = @ \ {u}])
      /\ sent' = {Call(client_list[v].sd, "leave", v, Note("left", u)) :
                    v \in {w \in DOMAIN client_list \ {u} :
                             client_list[w].room_number = r}}
      /\ UNCHANGED <<open, who, running>>

RoomListUser(sd, u) ==
  /\ InRoom(sd, u)
  /\ Respond(sd, "room_users")

Say(sd, u, t) ==
  LET r    == client_list[u].room_number
      line == ChatLine(u, t)
  IN  /\ InRoom(sd, u)
      /\ chat_rooms' = PutRoom(r, AddMessage(Room(r), line))
      /\ sent' = SendToRoom(Room(r).members, line, u)
                   \cup {Call(sd, "reply", NoOne, line)}
      /\ UNCHANGED <<client_list, open, who, running>>

-----------------------------------------------------------------------------
(* Default commands *)

Register(sd, u, p) ==
  /\ AtPrompt(sd)
  /\ \/ /\ u \notin DOMAIN client_list
        /\ client_list' =
             [v \in DOMAIN client_list \cup {u} |->
                IF v = u
                THEN [ passwd |-> p, status |-> "offline",
                       room_number |-> NoRoom, sd |-> NoSd,
                       logged_in |-> FALSE ]
                ELSE client_list[v]]
        /\ sent' = Reply(sd, "registered")
     \/ /\ u \in DOMAIN client_list
        /\ sent' = Reply(sd, "name_used")
        /\ UNCHANGED client_list
  /\ UNCHANGED <<chat_rooms, open, who, running>>

\* Mutant: a client may log in again without logging out.
LoggedInRead_Unchecked(sd) == {FALSE}

(***************************************************************************)
(* "login" reads logged_in through the iterator of the session bound to    *)
(* this descriptor.  Without one the iterator is client_list.end() and the *)
(* value read is whatever lies behind the map.                             *)
(***************************************************************************)
LoggedInRead(sd) ==
  IF Attached(sd) = {}
  THEN EndReads
  ELSE {client_list[v].logged_in : v \in Attached(sd)}

LoginFails(sd, u, p) ==
  /\ AtPrompt(sd)
  /\ u \in DOMAIN client_list =>
       FALSE \in LoggedInRead(sd) /\ client_list[u].passwd # p
  /\ Respond(sd, "login_failed")

LogoutFirst(sd, u) ==
  /\ AtPrompt(sd)
  /\ u \in DOMAIN client_list
  /\ TRUE \in LoggedInRead(sd)
  /\ Respond(sd, "logout_first")

Login(sd, u, p) ==
  /\ AtPrompt(sd)
  /\ u \in DOMAIN client_list
  /\ FALSE \in LoggedInRead(sd)
  /\ client_list[u].passwd = p
  /\ client_list' = [client_list EXCEPT ![u].logged_in = TRUE,
                                        ![u].sd        = sd,
                                        ![u].status    = "online"]
  /\ who' = [who EXCEPT ![sd] = u]
  /\ sent' = Reply(sd, "welcome_user")
  /\ UNCHANGED <<chat_rooms, open, running>>

\* What logout and exit do to the user's record.
Detached(u) == [client_list EXCEPT ![u].status = "offline", ![u].sd = NoSd]

\* What every command that needs a session answers on a connection without.
LoginFirst(sd) ==
  /\ AtPrompt(sd)
  /\ Attached(sd) = {}
  /\ Respond(sd, "login_first")

Logout(sd, u) ==
  /\ LoggedInAs(sd, u)
  /\ client_list' = Detached(u)
  /\ who' = [who EXCEPT ![sd] = NoOne]
  /\ sent' = Reply(sd, "bye")
  /\ UNCHANGED <<chat_rooms, open, running>>

Whoami(sd, u) ==
  /\ LoggedInAs(sd, u)
  /\ sent' = {Call(sd, "reply", NoOne, Note("you_are", u))}
  /\ UNCHANGED <<client_list, chat_rooms, open, who, running>>

\* Mutant: exit closes the connection and leaves the session behind.
Exit_SessionStays(sd) ==
  /\ AtPrompt(sd)
  /\ sent' = {}
  /\ open' = open \ {sd}
  /\ who' = [who EXCEPT ![sd] = NoOne]
  /\ UNCHANGED <<client_list, chat_rooms, running>>

\* process_command closes the descriptor, main closes it again and frees it.
Exit(sd) ==
  /\ AtPrompt(sd)
  /\ \/ /\ Attached(sd) = {}
        /\ sent' = {}
        /\ UNCHANGED client_list
     \/ \E u \in Attached(sd) :
          /\ sent' = Reply(sd, "bye")
          /\ client_list' = Detached(u)
  /\ open' = open \ {sd}
  /\ who' = [who EXCEPT ![sd] = NoOne]
  /\ UNCHANGED <<chat_rooms, running>>

\* A status other than these three is refused: see Refuse.
SetStatus(sd, u, status) ==
  /\ LoggedInAs(sd, u)
  /\ client_list' = [client_list EXCEPT ![u].status = status]
  /\ sent' = Reply(sd, "status_set")
  /\ UNCHANGED <<chat_rooms, open, who, running>>

ListUser(sd, u) ==
  /\ LoggedInAs(sd, u)
  /\ Respond(sd, "users")

\* Mutant: whoever enters becomes the owner.
EnterChatRoom_Owns(sd, u, r) ==
  LET entered == [Room(r) EXCEPT !.owner = u, !.members = @ \cup {u}]
  IN  /\ LoggedInAs(sd, u)
      /\ client_list' = [client_list EXCEPT ![u].room_number = r]
      /\ chat_rooms' = PutRoom(r, entered)
      /\ sent' = SendToRoom(entered.members, Note("entered", u), u)
                   \cup Reply(sd, "welcome_room")
      /\ UNCHANGED <<open, who, running>>

EnterChatRoom(sd, u, r) ==
  LET room    == Room(r)
      entered == [room EXCEPT
                    !.owner   = IF @ = NoOne THEN u ELSE @,
                    !.members = @ \cup {u}]
  IN  /\ LoggedInAs(sd, u)
      /\ client_list' = [client_list EXCEPT ![u].room_number = r]
      /\ chat_rooms' = PutRoom(r, entered)
      /\ sent' = SendToRoom(entered.members, Note("entered", u), u)
                   \cup Reply(sd, "welcome_room")
      /\ UNCHANGED <<open, who, running>>

ListChatRoom(sd, u) ==
  /\ LoggedInAs(sd, u)
  /\ Respond(sd, "rooms")

(***************************************************************************)
(* The owner closes a room: every member is told and put outside, the room *)
(* is erased, and the closing client is answered by two send calls.        *)
(***************************************************************************)
CloseChatRoom(sd, u, r) ==
  LET members == Room(r).members
      told    == {v \in members : /\ client_list[v].sd # NoSd
                                  /\ client_list[v].room_number # NoRoom}
  IN  /\ LoggedInAs(sd, u)
      /\ r \in DOMAIN chat_rooms
      /\ chat_rooms[r].owner = u
      /\ client_list' = [v \in DOMAIN client_list |->
                           IF v \in members
                           THEN [client_list[v] EXCEPT !.room_number = NoRoom]
                           ELSE client_list[v]]
      /\ chat_rooms' = [n \in DOMAIN chat_rooms \ {r} |-> chat_rooms[n]]
      /\ sent' = {Call(client_list[v].sd, "member", v, Note("closed", NoOne)) :
                    v \in told}
                   \cup {Call(sd, "closing", NoOne, Note("closed", NoOne))}
                   \cup Reply(sd, "closed")
      /\ UNCHANGED <<open, who, running>>

\* "... does not exist." and "Only the owner can close this chat room."
CloseRefused(sd, u, r) ==
  /\ LoggedInAs(sd, u)
  /\ r \in DOMAIN chat_rooms => chat_rooms[r].owner # u
  /\ Respond(sd, "not_closed")

\* Usage lines, unknown commands, a number or status that is not valid, a
\* pin of more than 150 characters: an answer and nothing else.
Refuse(sd) ==
  /\ running
  /\ sd \in open
  /\ Respond(sd, "refused")

\* A line of blanks has no first token, yet tokens[0] is copied.
BlankLine(sd) ==
  /\ running
  /\ sd \in open
  /\ running' = FALSE
  /\ sent' = {}
  /\ UNCHANGED <<client_list, chat_rooms, open, who>>

-----------------------------------------------------------------------------
(* Connections *)

\* accept returns the lowest descriptor that is free.
Accept ==
  /\ running
  /\ Fds \ open # {}
  /\ LET sd == Min(Fds \ open)
     IN  /\ open' = open \cup {sd}
         /\ who' = [who EXCEPT ![sd] = NoOne]
  /\ sent' = {}
  /\ UNCHANGED <<client_list, chat_rooms, running>>

\* Every descriptor is taken: accept fails and main exits.
AcceptFails ==
  /\ running
  /\ open = Fds
  /\ running' = FALSE
  /\ sent' = {}
  /\ UNCHANGED <<client_list, chat_rooms, open, who>>

\* read returned 0: the descriptor is closed, client_list is not looked at.
Disconnect(sd) ==
  /\ Abrupt
  /\ running
  /\ sd \in open
  /\ open' = open \ {sd}
  /\ who' = [who EXCEPT ![sd] = NoOne]
  /\ sent' = {}
  /\ UNCHANGED <<client_list, chat_rooms, running>>

-----------------------------------------------------------------------------
Init ==
  /\ client_list = [u \in {} |-> u]
  /\ chat_rooms = [r \in {} |-> r]
  /\ open = {}
  /\ who = [sd \in Fds |-> NoOne]
  /\ sent = {}
  /\ running = TRUE

RoomCommand(sd) ==
  \E u \in Users :
    \/ \E t \in Texts : Pin(sd, u, t) \/ Say(sd, u, t)
    \/ PinWithoutText(sd, u)
    \/ DeletePin(sd, u)
    \/ ExitChatRoom(sd, u)
    \/ RoomListUser(sd, u)

AccountCommand(sd) ==
  \/ \E u \in Users, p \in Passwds :
       Register(sd, u, p) \/ LoginFails(sd, u, p) \/ Login(sd, u, p)
  \/ \E u \in Users :
       \/ LogoutFirst(sd, u)
       \/ Logout(sd, u)
       \/ Whoami(sd, u)
       \/ ListUser(sd, u)
       \/ ListChatRoom(sd, u)
       \/ \E s \in Statuses : SetStatus(sd, u, s)
  \/ LoginFirst(sd)
  \/ Exit(sd)
  \/ Refuse(sd)
  \/ BlankLine(sd)

LobbyCommand(sd) ==
  \E u \in Users, r \in Rooms :
    EnterChatRoom(sd, u, r) \/ CloseChatRoom(sd, u, r) \/ CloseRefused(sd, u, r)

Next ==
  \/ Accept
  \/ AcceptFails
  \/ \E sd \in Fds : \/ RoomCommand(sd)
                     \/ AccountCommand(sd)
                     \/ LobbyCommand(sd)
                     \/ Disconnect(sd)

Spec == Init /\ [][Next]_vars

-----------------------------------------------------------------------------
(* Types *)

NoteKinds ==
  {"you_are", "left", "entered", "closed", "refused", "registered", "name_used",
   "login_failed", "logout_first", "login_first", "welcome_user", "bye",
   "status_set", "users", "welcome_room", "rooms", "not_closed", "no_pin",
   "room_users"}

Message == Line \cup
  [kind : NoteKinds, from : Users \cup {NoOne}, text : {NoText}]

SendCall == [ to   : Fds \cup {NoSd},
              by   : {"member", "leave", "closing", "reply"},
              user : Users \cup {NoOne},
              msg  : Message ]

\* Every variable has its type: maps are over registered users and valid
\* room numbers, records have the fields of client_info and chat_room_info.
TypeOK ==
  /\ DOMAIN client_list \subseteq Users
  /\ client_list \in [DOMAIN client_list -> ClientInfo]
  /\ DOMAIN chat_rooms \subseteq Rooms
  /\ chat_rooms \in [DOMAIN chat_rooms -> ChatRoomInfo]
  /\ open \subseteq Fds
  /\ who \in [Fds -> Users \cup {NoOne}]
  /\ sent \subseteq SendCall
  /\ running \in BOOLEAN

-----------------------------------------------------------------------------
(* Safety *)

\* A room's member list and its members' room_number, two copies of one
\* fact that every room command updates separately, always agree; a room
\* that is entered exists and its owner is a registered user.
RoomsConsistent ==
  /\ \A r \in DOMAIN chat_rooms :
       /\ chat_rooms[r].members =
            {u \in DOMAIN client_list : client_list[u].room_number = r}
       /\ chat_rooms[r].owner \in DOMAIN client_list
  /\ \A u \in DOMAIN client_list :
       client_list[u].room_number \in DOMAIN chat_rooms \cup {NoRoom}

\* No two users are bound to one descriptor, so the first session that
\* find_if meets is the only one.
SessionsDistinct ==
  \A u, v \in DOMAIN client_list :
    client_list[u].sd = client_list[v].sd /\ client_list[u].sd # NoSd => u = v

\* A user without a connection is offline and in no room, and logged_in,
\* which logout never resets, is set for every user with a connection:
\* "login" on a bound descriptor is always refused.
SessionsSettled ==
  \A u \in DOMAIN client_list :
    IF client_list[u].sd = NoSd
    THEN client_list[u].status = "offline" /\ client_list[u].room_number = NoRoom
    ELSE client_list[u].logged_in

\* As long as clients leave by "exit", a descriptor bound to a user is an
\* open connection on which that user logged in: no client acts, or
\* receives messages, as someone else.
SessionIsolation ==
  \A u \in DOMAIN client_list :
    client_list[u].sd # NoSd =>
      client_list[u].sd \in open /\ who[client_list[u].sd] = u

\* The two copies of a room's pin, pin_message and a line of the history
\* that later messages push out, agree, and the history keeps its bound.
PinIsLine ==
  \A r \in DOMAIN chat_rooms :
    PinShown(chat_rooms[r]) /\ HistoryBounded(chat_rooms[r])

\* The calls go to the connections of the users, one call to each.
OnceEach(calls, users, clients) ==
  /\ {call.to : call \in calls} = {clients[u].sd : u \in users}
  /\ Cardinality(calls) = Cardinality(users)

\* A line said or pinned is the newest line of one room, and it is sent to
\* the connections of the users who are in that room, once to each, and to
\* no other descriptor.
DeliveredToRoom ==
  \A call \in sent :
    call.msg \in Line =>
      \E r \in DOMAIN chat_rooms :
        /\ chat_rooms[r].history # << >>
        /\ Last(chat_rooms[r].history) = call.msg
        /\ OnceEach({c \in sent : c.msg = call.msg},
                    {u \in DOMAIN client_list : client_list[u].room_number = r},
                    client_list)

\* What a step must send to the users who are in a room: each is told of a
\* user who enters or leaves it, and of its closing.
OthersTold ==
  \A v \in DOMAIN client_list :
    LET r == client_list[v].room_number
        Told(kind, u) ==
          \E call \in sent' : call.to = client_list[v].sd
                             /\ call.msg = Note(kind, u)
    IN  r # NoRoom =>
          IF r \notin DOMAIN chat_rooms'
          THEN Told("closed", NoOne)
          ELSE \A u \in DOMAIN client_list \ {v} :
                 LET before == client_list[u].room_number
                     after  == client_list'[u].room_number
                 IN  /\ before # r /\ after = r => Told("entered", u)
                     /\ before = r /\ after # r => Told("left", u)

\* Nobody in a room misses who else is there: when a user enters or leaves,
\* each of the others in the room is told, and when the room is closed,
\* everyone who was in it is.
RoomIsTold == [][OthersTold]_vars

\* What the code's own checks and test.py expect of a connection on which
\* nobody has logged in: no command is carried out for a user on it.
SessionNeedsLogin ==
  \A sd \in open : Attached(sd) # {} => who[sd] \in Attached(sd)

-----------------------------------------------------------------------------
(* What the server implements *)

Where(u) ==
  IF \E r \in DOMAIN chat_rooms : u \in chat_rooms[r].members
  THEN CHOOSE r \in DOMAIN chat_rooms : u \in chat_rooms[r].members
  ELSE NoRoom

whereBar == [u \in Users |-> Where(u)]
ownerBar == [r \in Rooms |-> Room(r).owner]

TheLobby == INSTANCE Lobby WITH where <- whereBar, owner <- ownerBar

\* The member lists and owners of the rooms follow the promises of Lobby.
LobbyImplemented == TheLobby!Spec

logBar == [r \in Rooms |-> Room(r).history]

TheLogs == INSTANCE RoomLogs WITH
  log <- logBar, Lines <- Line, LogMax <- HistoryMax

\* The histories of the rooms are logs, each with one pin that moves.
RoomLogsImplemented == TheLogs!Spec

=============================================================================
