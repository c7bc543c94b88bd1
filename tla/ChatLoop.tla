------------------------------ MODULE ChatLoop ------------------------------
(***************************************************************************)
(* The main loop of HW2/hw2_chat_server.cpp: one thread that watches the   *)
(* listening socket and the descriptors in client_socket_arr with select,  *)
(* accepts at most one connection a round, then reads each ready           *)
(* connection once.  A line makes process_command return true, "exit"      *)
(* makes it close the descriptor and return false (module ChatServer);     *)
(* lines that arrive together are read, and executed, as one command.      *)
(* A command sends to any connections: the sockets block, so the thread    *)
(* waits in send as long as a client takes nothing from a full buffer.     *)
(***************************************************************************)
EXTENDS Integers, FiniteSets, FiniteSetsExt

CONSTANTS
  MaxClients,  \* MAX_CLIENTS, the length of client_socket_arr
  Fds,         \* the descriptors accept can return
  Backlog      \* how many connections wait in the kernel

\* The listening socket; client descriptors are larger, 0 is a free slot.
ServerSocket == 3

ASSUME LoopAssumption ==
  /\ MaxClients \in Nat \ {0}
  /\ Fds \subseteq {fd \in Nat : fd > ServerSocket}
  /\ IsFiniteSet(Fds)
  /\ Backlog \in Nat \ {0}

VARIABLES
  slots,    \* client_socket_arr
  readfds,  \* the descriptors select reported
  pc,       \* "select", "accept", "scan", "answer" or "farewell" inside
            \* process_command, "dead" once the process ended
  i,        \* the slot the scan has reached
  sending,  \* the descriptors the command at hand still sends to
  open,     \* the descriptors the process holds
  input,    \* what the client of a descriptor sent and nobody read yet:
            \* "none", the line "exit", or any other "text"
  full,     \* the descriptors whose client leaves the send buffer full
  peer,     \* "up", "closed", "reset", or "broken": a reset that a send
            \* was told of already
  backlog   \* connections not accepted yet

vars == <<slots, readfds, pc, i, sending, open, input, full, peer, backlog>>

Slots == 1..MaxClients
Lines == {"text", "exit"}

Watched == {slots[n] : n \in Slots} \ {0}

\* read would return at once: a line, an end of file or an error is there.
Readable(fd) == input[fd] # "none" \/ peer[fd] # "up"

\* Mutant: the listening socket is looked at when no client has input.
Reported_ClientsFirst ==
  IF \E fd \in Watched : Readable(fd)
  THEN {fd \in Watched : Readable(fd)}
  ELSE IF backlog > 0 THEN {ServerSocket} ELSE {}

(***************************************************************************)
(* What select leaves in readfds.  With a descriptor that is not open it   *)
(* fails, and the code prints "select error" and goes on with the set as   *)
(* it had filled it.                                                       *)
(***************************************************************************)
Reported ==
  IF Watched \subseteq open
  THEN {fd \in Watched : Readable(fd)}
         \cup (IF backlog > 0 THEN {ServerSocket} ELSE {})
  ELSE Watched \cup {ServerSocket}

\* One round begins: select waits until it has something to report.
Select ==
  /\ pc = "select"
  /\ Reported # {}
  /\ readfds' = Reported
  /\ pc' = "accept"
  /\ UNCHANGED <<slots, i, sending, open, input, full, peer, backlog>>

NothingToAccept ==
  /\ pc = "accept"
  /\ ServerSocket \notin readfds
  /\ pc' = "scan"
  /\ i' = 1
  /\ UNCHANGED <<slots, readfds, sending, open, input, full, peer, backlog>>

\* Mutant: the test for a free slot is missing.
FreeSlots_Any == Slots

FreeSlots == {n \in Slots : slots[n] = 0}

\* The connection goes to the first free slot; with no free slot it stays
\* open and is watched by nobody.  The welcome and the prompt find the buffer
\* of a new connection empty, so these two sends return; the second one fails
\* when the client resets the connection between them.
Accept ==
  /\ pc = "accept"
  /\ ServerSocket \in readfds
  /\ backlog > 0
  /\ open # Fds
  /\ LET fd == Min(Fds \ open)
     IN  /\ open' = open \cup {fd}
         /\ input' = [input EXCEPT ![fd] = "none"]
         /\ full' = full \ {fd}
         /\ \E state \in {"up", "broken"} : peer' = [peer EXCEPT ![fd] = state]
         /\ slots' = IF FreeSlots = {}
                     THEN slots
                     ELSE [slots EXCEPT ![Min(FreeSlots)] = fd]
  /\ backlog' = backlog - 1
  /\ pc' = "scan"
  /\ i' = 1
  /\ UNCHANGED <<readfds, sending>>

\* No descriptor is left: perror("accept"), exit(EXIT_FAILURE).
AcceptFails ==
  /\ pc = "accept"
  /\ ServerSocket \in readfds
  /\ backlog > 0
  /\ open = Fds
  /\ pc' = "dead"
  /\ UNCHANGED <<slots, readfds, i, sending, open, input, full, peer, backlog>>

\* The client reset the connection before it was accepted: the welcome fails,
\* and the prompt after it raises SIGPIPE.
WelcomeDies ==
  /\ pc = "accept"
  /\ ServerSocket \in readfds
  /\ backlog > 0
  /\ open # Fds
  /\ pc' = "dead"
  /\ UNCHANGED <<slots, readfds, i, sending, open, input, full, peer, backlog>>

Ready == pc = "scan" /\ i \in Slots /\ slots[i] \in readfds

SkipSlot ==
  /\ pc = "scan"
  /\ i \in Slots
  /\ slots[i] \notin readfds
  /\ i' = i + 1
  /\ UNCHANGED <<slots, readfds, pc, sending, open, input, full, peer, backlog>>

EndScan ==
  /\ pc = "scan"
  /\ i \notin Slots
  /\ pc' = "select"
  /\ UNCHANGED <<slots, readfds, i, sending, open, input, full, peer, backlog>>

\* All that read returns is one command, and only "exit" alone is the exit
\* command; what does not fit into the buffer stays.  The command sends to
\* any connections, its own or those of a room.
ReadLine ==
  LET fd == slots[i]
  IN  /\ Ready
      /\ input[fd] = "text"
      /\ \E rest \in Lines \cup {"none"} : input' = [input EXCEPT ![fd] = rest]
      /\ sending' \in SUBSET open
      /\ pc' = "answer"
      /\ UNCHANGED <<slots, readfds, i, open, full, peer, backlog>>

\* "exit" is answered, if at all, on its own connection.
ReadExit ==
  LET fd == slots[i]
  IN  /\ Ready
      /\ input[fd] = "exit"
      /\ input' = [input EXCEPT ![fd] = "none"]
      /\ sending' \in SUBSET {fd}
      /\ pc' = "farewell"
      /\ UNCHANGED <<slots, readfds, i, open, full, peer, backlog>>

\* The sends to one connection: they wait for room in its buffer, which they
\* may fill.  The first send after a reset fails, which nobody looks at.
Send(fd) ==
  /\ pc \in {"answer", "farewell"}
  /\ fd \in sending \ full
  /\ peer[fd] # "broken"
  /\ sending' = sending \ {fd}
  /\ \/ peer[fd] = "reset" /\ full' = full
     \/ peer[fd] # "reset" /\ full' \in {full, full \cup {fd}}
  /\ peer' = [peer EXCEPT ![fd] = IF @ = "reset" THEN "broken" ELSE @]
  /\ UNCHANGED <<slots, readfds, pc, i, open, input, backlog>>

\* A further send after a reset raises SIGPIPE, which nothing catches.
SendDies(fd) ==
  /\ pc \in {"answer", "farewell"}
  /\ fd \in sending
  /\ peer[fd] \in {"reset", "broken"}
  /\ pc' = "dead"
  /\ UNCHANGED <<slots, readfds, i, sending, open, input, full, peer, backlog>>

\* Mutant: the same connection is read again without another select.
NextSlot_Again ==
  /\ pc = "answer"
  /\ sending = {}
  /\ pc' = "scan"
  /\ UNCHANGED <<slots, readfds, i, sending, open, input, full, peer, backlog>>

\* Mutant: the scan breaks off after every command.
NextSlot_Breaks ==
  /\ pc = "answer"
  /\ sending = {}
  /\ pc' = "select"
  /\ UNCHANGED <<slots, readfds, i, sending, open, input, full, peer, backlog>>

\* process_command returned true: the scan goes on.
NextSlot ==
  /\ pc = "answer"
  /\ sending = {}
  /\ pc' = "scan"
  /\ i' = i + 1
  /\ UNCHANGED <<slots, readfds, sending, open, input, full, peer, backlog>>

\* process_command closed the connection and returned false: the slot is free
\* and the scan breaks off, so that later slots wait for another round.
Hangup ==
  /\ pc = "farewell"
  /\ sending = {}
  /\ open' = open \ {slots[i]}
  /\ slots' = [slots EXCEPT ![i] = 0]
  /\ pc' = "select"
  /\ UNCHANGED <<readfds, i, sending, input, full, peer, backlog>>

\* Mutant: the slot of a closed connection is not freed.
ReadEnd_SlotStays ==
  LET fd == slots[i]
  IN  /\ Ready
      /\ input[fd] = "none"
      /\ peer[fd] \in {"closed", "broken"}
      /\ open' = open \ {fd}
      /\ i' = i + 1
      /\ UNCHANGED <<slots, readfds, pc, sending, input, full, peer, backlog>>

\* Mutant: -1, which marks a user without connection, marks a free slot.
ReadEnd_MinusOne ==
  LET fd == slots[i]
  IN  /\ Ready
      /\ input[fd] = "none"
      /\ peer[fd] \in {"closed", "broken"}
      /\ open' = open \ {fd}
      /\ slots' = [slots EXCEPT ![i] = -1]
      /\ i' = i + 1
      /\ UNCHANGED <<readfds, pc, sending, input, full, peer, backlog>>

\* read returned 0: the descriptor is closed and the slot is free again.
ReadEnd ==
  LET fd == slots[i]
  IN  /\ Ready
      /\ input[fd] = "none"
      /\ peer[fd] \in {"closed", "broken"}
      /\ open' = open \ {fd}
      /\ slots' = [slots EXCEPT ![i] = 0]
      /\ i' = i + 1
      /\ UNCHANGED <<readfds, pc, sending, input, full, peer, backlog>>

\* read returns -1: std::string(buffer, -1) throws and nothing catches it.
ReadError ==
  /\ Ready
  /\ peer[slots[i]] = "reset"
  /\ pc' = "dead"
  /\ UNCHANGED <<slots, readfds, i, sending, open, input, full, peer, backlog>>

Loop ==
  \/ Select
  \/ NothingToAccept
  \/ Accept
  \/ AcceptFails
  \/ WelcomeDies
  \/ SkipSlot
  \/ EndScan
  \/ ReadLine
  \/ ReadExit
  \/ \E fd \in Fds : Send(fd) \/ SendDies(fd)
  \/ NextSlot
  \/ Hangup
  \/ ReadEnd
  \/ ReadError

-----------------------------------------------------------------------------
(* Clients *)

Connect ==
  /\ pc # "dead"
  /\ backlog < Backlog
  /\ backlog' = backlog + 1
  /\ UNCHANGED <<slots, readfds, pc, i, sending, open, input, full, peer>>

\* A line that joins another one is no longer an exit command, nor is that.
ClientSends(fd) ==
  /\ pc # "dead"
  /\ fd \in open
  /\ peer[fd] = "up"
  /\ \E line \in Lines :
       input' = [input EXCEPT ![fd] = IF @ = "none" THEN line ELSE "text"]
  /\ UNCHANGED <<slots, readfds, pc, i, sending, open, full, peer, backlog>>

\* The client makes room in the buffer.
ClientReads(fd) ==
  /\ pc # "dead"
  /\ fd \in full
  /\ full' = full \ {fd}
  /\ UNCHANGED <<slots, readfds, pc, i, sending, open, input, peer, backlog>>

\* No more lines come; the client may still read.
ClientCloses(fd) ==
  /\ pc # "dead"
  /\ fd \in open
  /\ peer[fd] = "up"
  /\ peer' = [peer EXCEPT ![fd] = "closed"]
  /\ UNCHANGED <<slots, readfds, pc, i, sending, open, input, full, backlog>>

\* A reset discards what is not read yet at either end.
ClientResets(fd) ==
  /\ pc # "dead"
  /\ fd \in open
  /\ peer[fd] \in {"up", "closed"}
  /\ peer' = [peer EXCEPT ![fd] = "reset"]
  /\ input' = [input EXCEPT ![fd] = "none"]
  /\ full' = full \ {fd}
  /\ UNCHANGED <<slots, readfds, pc, i, sending, open, backlog>>

Client ==
  \/ Connect
  \/ \E fd \in Fds : \/ ClientSends(fd) \/ ClientReads(fd)
                     \/ ClientCloses(fd) \/ ClientResets(fd)

-----------------------------------------------------------------------------
Init ==
  /\ slots = [n \in Slots |-> 0]
  /\ readfds = {}
  /\ pc = "select"
  /\ i = 1
  /\ sending = {}
  /\ open = {}
  /\ input = [fd \in Fds |-> "none"]
  /\ full = {}
  /\ peer = [fd \in Fds |-> "up"]
  /\ backlog = 0

Next == Loop \/ Client

\* The thread runs when it can: not while it waits in send for a client that
\* does not read.
Fairness == WF_vars(Loop)

Spec == Init /\ [][Next]_vars /\ Fairness

-----------------------------------------------------------------------------
(* Types *)

\* Every variable has its type.
TypeOK ==
  /\ slots \in [Slots -> Fds \cup {0}]
  /\ readfds \subseteq Fds \cup {ServerSocket}
  /\ pc \in {"select", "accept", "scan", "answer", "farewell", "dead"}
  /\ i \in 1..MaxClients + 1
  /\ sending \subseteq Fds
  /\ open \subseteq Fds
  /\ input \in [Fds -> Lines \cup {"none"}]
  /\ full \subseteq Fds
  /\ peer \in [Fds -> {"up", "closed", "reset", "broken"}]
  /\ backlog \in 0..Backlog

-----------------------------------------------------------------------------
(* Safety *)

\* A slot holds an open descriptor and no two slots hold the same one, even
\* though accept hands out again the descriptors that were closed: select
\* never fails, and no connection is read twice in a round.
SlotsOpen ==
  /\ Watched \subseteq open
  /\ \A m, n \in Slots : slots[m] = slots[n] /\ slots[m] # 0 => m = n

\* The thread never blocks in accept or read: whatever readfds still
\* promises when the loop gets there is there, although the descriptors may
\* have been closed and handed out again since select.  In send it may block.
NeverBlocks ==
  /\ pc = "accept" /\ ServerSocket \in readfds => backlog > 0
  /\ pc = "accept" => \A n \in Slots : slots[n] \in readfds => Readable(slots[n])
  /\ pc = "scan" => \A n \in Slots :
                      n >= i /\ slots[n] \in readfds => Readable(slots[n])
  /\ pc = "answer" => \A n \in Slots :
                        n > i /\ slots[n] \in readfds => Readable(slots[n])

\* Only the descriptors beyond the number of slots can be open and watched by
\* nobody; with at least as many slots as descriptors every connection is
\* watched, whatever was closed and handed out again.
NobodyForgotten ==
  LET forgotten == open \ Watched
  IN  forgotten # {} => Cardinality(forgotten) + MaxClients <= Cardinality(Fds)

-----------------------------------------------------------------------------
(* Liveness *)

ReadsFrom(fd) ==
  /\ Ready
  /\ slots[i] = fd
  /\ ReadLine \/ ReadExit \/ ReadEnd

Alive == pc # "dead"

\* No client leaves the buffer of its connection full for ever.
ClientsRead == \A fd \in Fds : []<>(fd \notin full)

\* If clients go on reading, and from some time on none exits (every exit
\* breaks the scan off), a watched connection that has something to read is
\* read, unless the process dies first.  One client that stops reading may
\* stop the thread in send, and with it every other connection.
ConnectionsServed ==
  ClientsRead /\ <>[][~ReadExit]_vars =>
    \A fd \in Fds :
      \/ <>[]~Alive
      \/ []<>~(fd \in Watched /\ Readable(fd))
      \/ []<><<ReadsFrom(fd)>>_vars

\* If clients go on reading, a waiting client is accepted, whatever else the
\* others do, exits included.
ClientsAccepted ==
  ClientsRead =>
    \/ <>[]~Alive
    \/ []<>(backlog = 0)
    \/ []<><<Accept>>_vars

=============================================================================
