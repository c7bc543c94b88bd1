------------------------------- MODULE Lobby -------------------------------
(***************************************************************************)
(* What the chat server promises about rooms, whatever it does about       *)
(* sessions, histories and sockets: a user is in at most one room, a room  *)
(* belongs to the user who first entered it until that user closes it from *)
(* outside every room, and closing it puts everyone in it outside.         *)
(***************************************************************************)
CONSTANTS Users, Rooms, NoOne, NoRoom

VARIABLES
  where,   \* the room a user is in, or NoRoom
  owner    \* the owner of a room, or NoOne when there is no such room

vars == <<where, owner>>

Init ==
  /\ where = [u \in Users |-> NoRoom]
  /\ owner = [r \in Rooms |-> NoOne]

Enter(u, r) ==
  /\ where[u] = NoRoom
  /\ where' = [where EXCEPT ![u] = r]
  /\ owner' = [owner EXCEPT ![r] = IF @ = NoOne THEN u ELSE @]

Leave(u) ==
  /\ where[u] # NoRoom
  /\ where' = [where EXCEPT ![u] = NoRoom]
  /\ UNCHANGED owner

Close(u, r) ==
  /\ owner[r] = u
  /\ where[u] = NoRoom
  /\ where' = [v \in Users |-> IF where[v] = r THEN NoRoom ELSE where[v]]
  /\ owner' = [owner EXCEPT ![r] = NoOne]

Next ==
  \E u \in Users :
    \/ Leave(u)
    \/ \E r \in Rooms : Enter(u, r) \/ Close(u, r)

Spec == Init /\ [][Next]_vars

============================================================================
