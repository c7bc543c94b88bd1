------------------------------ MODULE WebServer ------------------------------
(***************************************************************************)
(* The static web server of HW1 (server.c): a loop that accepts clients of *)
(* two ports and shakes hands with those of the second, and one thread per *)
(* client that reads a request, answers it and closes the connection.  An  *)
(* answer of 200 comes from a file, for which the thread needs a           *)
(* descriptor of its own.                                                  *)
(*                                                                         *)
(* The loop keeps a record of every client in an array that it reallocates *)
(* when it is full; a thread of the second port (HTTPS) has a pointer into *)
(* that array.  After the array was moved what such a thread does is       *)
(* undefined: it goes on as if nothing had happened, or the behaviour of   *)
(* the program ends (running = "undefined").                               *)
(***************************************************************************)
EXTENDS Integers, FiniteSets, FiniteSetsExt

CONSTANTS
  Clients,
  None,
  Port,      \* client -> "http" or "https"
  Requests,  \* the kinds of request clients send
  Garbage,   \* what a buffer that was not filled may be taken for
  Fds,       \* the descriptors the process may have open for clients and files
  Capacity   \* INITIAL_CAPACITY

Kinds == {"other", "missing", "dir", "dir/", "index/", "file/", "file"}

Statuses == {200, 301, 403, 404, 501}

ASSUME WebAssumption ==
  /\ Port \in [Clients -> {"http", "https"}]
  /\ Requests \subseteq Kinds /\ Garbage \subseteq Kinds
  /\ Fds \subseteq Nat
  /\ None \notin Clients /\ None \notin Fds
  /\ None \notin Kinds /\ None \notin Statuses
  /\ Capacity \in Nat \ {0}

VARIABLES
  running,          \* "yes", "died" of a signal, or "undefined"
  events,           \* the ports epoll_wait reported and the loop has still to serve
  num_clients,
  client_capacity,
  stale,            \* the threads whose pointer is into a block that was freed
  stage,            \* how far the server is with a client
  socket,           \* the descriptor the server uses for a client
  file,             \* the descriptor of the file open for a client, or None
  held,             \* descriptor -> the client it is open for, or None
  answer,           \* the status the client was sent
  client,           \* what the client has done
  request

loopVars == <<events, num_clients, client_capacity, stale>>
clientVars == <<client, request>>
vars == <<running, loopVars, stage, socket, file, held, answer, clientVars>>

Stages == {"new", "queued", "handshake", "read", "answer", "contents", "close",
           "done"}

Threads == {c \in Clients :
              stage[c] \in {"read", "answer", "contents", "close"}}

\* What the handlers answer.  A directory with a slash passes the test for
\* its index.html and is then opened itself.  Only HTTP_handle_client takes
\* what follows the name of a file for part of its suffix and cuts it off.
Status(kind, port) ==
  CASE kind = "other" -> 501
    [] kind = "missing" -> 404
    [] kind = "dir" -> 301
    [] kind = "dir/" -> 403
    [] kind = "file/" -> IF port = "http" THEN 200 ELSE 404
    [] OTHER -> 200

-----------------------------------------------------------------------------
(* The loop *)

Free == {d \in Fds : held[d] = None}

\* The loop is in SSL_accept.
ShakingHands == \E c \in Clients : stage[c] = "handshake"

\* epoll_wait reports the ports at which a client waits.
EpollWait ==
  /\ running = "yes"
  /\ events = {} /\ ~ShakingHands
  /\ \E c \in Clients : stage[c] = "queued"
  /\ events' = {Port[c] : c \in {x \in Clients : stage[x] = "queued"}}
  /\ UNCHANGED <<running, num_clients, client_capacity, stale, stage, socket,
                 file, held, answer, clientVars>>

\* Mutant: the array is enlarged one client early.
Enlarge_Early ==
  IF num_clients + 1 >= client_capacity
  THEN /\ client_capacity' = 2 * client_capacity
       /\ stale' \in {stale, stale \cup {c \in Threads : Port[c] = "https"}}
  ELSE UNCHANGED <<client_capacity, stale>>

\* The array is enlarged when it is full, and may move.
Enlarge ==
  IF num_clients >= client_capacity
  THEN /\ client_capacity' = 2 * client_capacity
       /\ stale' \in {stale, stale \cup {c \in Threads : Port[c] = "https"}}
  ELSE UNCHANGED <<client_capacity, stale>>

\* accept returns the lowest descriptor that is free; the client gets the
\* next record and a thread, one of HTTPS after the handshake.
Accept(c) ==
  /\ running = "yes"
  /\ stage[c] = "queued" /\ Port[c] \in events /\ ~ShakingHands
  /\ Free # {}
  /\ events' = events \ {Port[c]}
  /\ socket' = [socket EXCEPT ![c] = Min(Free)]
  /\ held' = [held EXCEPT ![Min(Free)] = c]
  /\ Enlarge
  /\ num_clients' = num_clients + 1
  /\ stage' = [stage EXCEPT ![c] = IF Port[c] = "http" THEN "read" ELSE "handshake"]
  /\ UNCHANGED <<running, file, answer, clientVars>>

\* There is no descriptor left: the client stays in the queue.
AcceptFails(port) ==
  /\ running = "yes"
  /\ port \in events /\ ~ShakingHands
  /\ Free = {}
  /\ events' = events \ {port}
  /\ UNCHANGED <<running, num_clients, client_capacity, stale, stage, socket,
                 file, held, answer, clientVars>>

\* Mutant: a thread is started although the handshake failed.
HandshakeFails_Continues(c) ==
  /\ running = "yes"
  /\ stage[c] = "handshake" /\ client[c] \in {"hello", "gone"}
  /\ stage' = [stage EXCEPT ![c] = "read"]
  /\ held' = [held EXCEPT ![socket[c]] = None]
  /\ UNCHANGED <<running, loopVars, socket, file, answer, clientVars>>

HandshakeFails(c) ==
  /\ running = "yes"
  /\ stage[c] = "handshake" /\ client[c] \in {"hello", "gone"}
  /\ stage' = [stage EXCEPT ![c] = "done"]
  /\ held' = [held EXCEPT ![socket[c]] = None]
  /\ UNCHANGED <<running, loopVars, socket, file, answer, clientVars>>

HandshakeSucceeds(c) ==
  /\ running = "yes"
  /\ stage[c] = "handshake" /\ client[c] = "hello"
  /\ stage' = [stage EXCEPT ![c] = "read"]
  /\ UNCHANGED <<running, loopVars, socket, file, held, answer, clientVars>>

Loop ==
  \/ EpollWait
  \/ \E c \in Clients : Accept(c) \/ HandshakeFails(c) \/ HandshakeSucceeds(c)
  \/ \E port \in events : AcceptFails(port)

-----------------------------------------------------------------------------
(* The threads *)

\* A request is read.  Of a client that has left, what it sent, an error, or
\* nothing, and then the buffer holds anything.
Read(c) ==
  /\ running = "yes"
  /\ stage[c] = "read" /\ client[c] \in {"asked", "gone"}
  /\ \/ stage' = [stage EXCEPT ![c] = "answer"] /\ UNCHANGED held
     \/ /\ client[c] = "gone"
        /\ stage' = [stage EXCEPT ![c] = "done"]
        /\ held' = [held EXCEPT ![socket[c]] = None]
  /\ UNCHANGED <<running, loopVars, socket, file, answer, clientVars>>

\* What the handlers answer to what they take the buffer for.
Answers(c) ==
  {Status(kind, Port[c]) : kind \in IF request[c] = None THEN Garbage ELSE {request[c]}}

\* Writing to a client that has left raises SIGPIPE, once its reset arrived.
Written(c) == running' \in IF client[c] = "gone" THEN {"yes", "died"} ELSE {"yes"}

\* An answer without a file is a header only.
Answer(c) ==
  /\ running = "yes"
  /\ stage[c] = "answer"
  /\ \E status \in Answers(c) \ {200} : answer' = [answer EXCEPT ![c] = status]
  /\ stage' = [stage EXCEPT ![c] = "close"]
  /\ Written(c)
  /\ UNCHANGED <<loopVars, socket, file, held, clientVars>>

\* Mutant: the header is written when the client has taken its contents.
OpenFile_HeaderLater(c) ==
  /\ running = "yes"
  /\ stage[c] = "answer" /\ 200 \in Answers(c) /\ client[c] \in {"ended", "gone"}
  /\ Free # {}
  /\ file' = [file EXCEPT ![c] = Min(Free)]
  /\ held' = [held EXCEPT ![Min(Free)] = c]
  /\ answer' = [answer EXCEPT ![c] = 200]
  /\ stage' = [stage EXCEPT ![c] = "contents"]
  /\ Written(c)
  /\ UNCHANGED <<loopVars, socket, clientVars>>

\* The file is opened and the header written.
OpenFile(c) ==
  /\ running = "yes"
  /\ stage[c] = "answer" /\ 200 \in Answers(c)
  /\ Free # {}
  /\ file' = [file EXCEPT ![c] = Min(Free)]
  /\ held' = [held EXCEPT ![Min(Free)] = c]
  /\ answer' = [answer EXCEPT ![c] = 200]
  /\ stage' = [stage EXCEPT ![c] = "contents"]
  /\ Written(c)
  /\ UNCHANGED <<loopVars, socket, clientVars>>

\* With no descriptor left fopen returns NULL, which fseek does not survive.
OpenFails(c) ==
  /\ running = "yes"
  /\ stage[c] = "answer" /\ 200 \in Answers(c)
  /\ Free = {}
  /\ running' = "died"
  /\ UNCHANGED <<loopVars, stage, socket, file, held, answer, clientVars>>

\* The contents are written, and the file is closed.
WriteContents(c) ==
  /\ running = "yes"
  /\ stage[c] = "contents"
  /\ held' = [held EXCEPT ![file[c]] = None]
  /\ file' = [file EXCEPT ![c] = None]
  /\ stage' = [stage EXCEPT ![c] = "close"]
  /\ Written(c)
  /\ UNCHANGED <<loopVars, socket, answer, clientVars>>

\* The connection is closed.  After a page over HTTPS, SSL_shutdown waits for
\* the client to end the session, too.
Close(c) ==
  /\ running = "yes"
  /\ stage[c] = "close"
  /\ Port[c] = "https" /\ answer[c] = 200 => client[c] \in {"ended", "gone"}
  /\ stage' = [stage EXCEPT ![c] = "done"]
  /\ held' = [held EXCEPT ![socket[c]] = None]
  /\ UNCHANGED <<running, loopVars, socket, file, answer, clientVars>>

\* A thread uses its pointer into a block that was freed.
UseStale(c) ==
  /\ running = "yes"
  /\ c \in stale \cap Threads
  /\ running' = "undefined"
  /\ UNCHANGED <<loopVars, stage, socket, file, held, answer, clientVars>>

\* What a thread does without its client's help, but for closing a session.
Working(c) == Read(c) \/ Answer(c) \/ OpenFile(c) \/ OpenFails(c) \/ Close(c)

Thread(c) == Working(c) \/ WriteContents(c)

-----------------------------------------------------------------------------
(* The clients *)

Connect(c) ==
  /\ client[c] = "away"
  /\ client' = [client EXCEPT ![c] = "connected"]
  /\ stage' = [stage EXCEPT ![c] = "queued"]
  /\ UNCHANGED <<running, loopVars, socket, file, held, answer, request>>

\* The first message of the handshake.
Hello(c) ==
  /\ Port[c] = "https" /\ client[c] = "connected"
  /\ client' = [client EXCEPT ![c] = "hello"]
  /\ UNCHANGED <<running, loopVars, stage, socket, file, held, answer, request>>

Ask(c) ==
  /\ IF Port[c] = "http"
     THEN client[c] = "connected"
     ELSE client[c] = "hello" /\ stage[c] = "read"
  /\ client' = [client EXCEPT ![c] = "asked"]
  /\ \E kind \in Requests : request' = [request EXCEPT ![c] = kind]
  /\ UNCHANGED <<running, loopVars, stage, socket, file, held, answer>>

End(c) ==
  /\ client[c] = "asked" /\ answer[c] # None
  /\ client' = [client EXCEPT ![c] = "ended"]
  /\ UNCHANGED <<running, loopVars, stage, socket, file, held, answer, request>>

Leave(c) ==
  /\ client[c] \in {"connected", "hello", "asked"}
  /\ client' = [client EXCEPT ![c] = "gone"]
  /\ UNCHANGED <<running, loopVars, stage, socket, file, held, answer, request>>

\* What clients do when the server has ended is of no interest.
Client(c) ==
  /\ running = "yes"
  /\ Connect(c) \/ Hello(c) \/ Ask(c) \/ End(c) \/ Leave(c)

-----------------------------------------------------------------------------
Init ==
  /\ running = "yes"
  /\ events = {}
  /\ num_clients = 0
  /\ client_capacity = Capacity
  /\ stale = {}
  /\ stage = [c \in Clients |-> "new"]
  /\ socket = [c \in Clients |-> None]
  /\ file = [c \in Clients |-> None]
  /\ held = [d \in Fds |-> None]
  /\ answer = [c \in Clients |-> None]
  /\ client = [c \in Clients |-> "away"]
  /\ request = [c \in Clients |-> None]

Next == Loop \/ \E c \in Clients : Thread(c) \/ UseStale(c) \/ Client(c)

(***************************************************************************)
(* The loop and every thread keep running; of a port, accept takes the     *)
(* client that came first, so nobody is passed over for ever.  Nothing is  *)
(* asked of clients: one that does not read keeps its thread writing the   *)
(* contents for ever.  A header fits into the buffer of the connection.    *)
(***************************************************************************)
Fairness ==
  /\ WF_vars(Loop)
  /\ \A c \in Clients : SF_vars(Accept(c)) /\ WF_vars(Working(c))

Spec == Init /\ [][Next]_vars

FairSpec == Spec /\ Fairness

-----------------------------------------------------------------------------
\* Every variable has its type; the array has room for all clients accepted.
TypeOK ==
  /\ running \in {"yes", "died", "undefined"}
  /\ events \subseteq {"http", "https"}
  /\ num_clients \in Nat /\ client_capacity \in Nat
  /\ num_clients <= client_capacity
  /\ stale \subseteq Clients
  /\ stage \in [Clients -> Stages]
  /\ socket \in [Clients -> Fds \cup {None}]
  /\ file \in [Clients -> Fds \cup {None}]
  /\ held \in [Fds -> Clients \cup {None}]
  /\ answer \in [Clients -> Statuses \cup {None}]
  /\ client \in [Clients -> {"away", "connected", "hello", "asked", "ended", "gone"}]
  /\ request \in [Clients -> Kinds \cup {None}]

InHand == {c \in Clients :
             stage[c] \in {"handshake", "read", "answer", "contents", "close"}}

WithFile == {c \in Clients : stage[c] = "contents"}

\* A client in the hands of the loop or of a thread has the descriptor it is
\* served on to itself, and so has a file that is being sent; a descriptor
\* that is open belongs to such a client or its file: nothing is closed twice,
\* reused too early, or left open.
DescriptorsOwned ==
  /\ \A c \in InHand : socket[c] \in Fds /\ held[socket[c]] = c
  /\ \A c \in WithFile :
       file[c] \in Fds /\ held[file[c]] = c /\ file[c] # socket[c]
  /\ \A d \in Fds : held[d] # None =>
       \/ held[d] \in InHand /\ socket[held[d]] = d
       \/ held[d] \in WithFile /\ file[held[d]] = d

\* As long as no more clients came than the array first had room for, no
\* thread works on freed memory, however late it comes to its record.
DefinedWhileSmall == num_clients <= Capacity => running # "undefined"

\* A client of HTTP that waits for a descriptor only while there is none.
NotStarved(c) == []<>(stage[c] = "queued" => Free # {})

Served(c) == answer[c] # None \/ client[c] = "gone" \/ running # "yes"

\* A client of HTTP that has asked is answered when handshakes come to an end,
\* and one that was accepted is answered even if the loop never comes back
\* from a handshake; whatever the others do or leave undone, unless it leaves,
\* waits for a descriptor for ever, or the server ends, as it does when there
\* is no descriptor for a file.  A client of HTTPS that connects and says
\* nothing stops the loop, and so everybody who comes after it.
HttpAnswered ==
  \A c \in Clients :
    Port[c] = "http" =>
      /\ <>[]~ShakingHands /\ NotStarved(c) => (client[c] = "asked" ~> Served(c))
      /\ client[c] = "asked" /\ c \in Threads ~> Served(c)

=============================================================================
