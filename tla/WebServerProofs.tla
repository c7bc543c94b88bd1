--------------------------- MODULE WebServerProofs ---------------------------
(* Safety of the web server, for any clients, descriptors and capacity.    *)
EXTENDS WebServer, WellFoundedInduction, TLAPS

\* Min returns a lower bound that belongs to the set.
LEMMA MinProperties ==
  ASSUME NEW S \in SUBSET Nat, S # {}
  PROVE  Min(S) \in S /\ \A n \in S : Min(S) <= n
<1>1. PICK x \in S : \A y \in S : ~ (<<y, x>> \in OpToRel(<, Nat))
  BY NatLessThanWellFounded, WFMin
<1>2. \A y \in S : x =< y
  <2> TAKE y \in S
  <2>1. ~(y < x)
    BY <1>1 DEF OpToRel
  <2> QED
    BY <2>1
<1> QED
  BY <1>2 DEF Min

(***************************************************************************)
(* The array never has fewer records than it started with, and it has been *)
(* moved only when more clients had come than that.                        *)
(***************************************************************************)
ArrayInv ==
  /\ client_capacity >= Capacity
  /\ stale # {} \/ running = "undefined" => num_clients > Capacity

\* A client that has not connected is nowhere in the server.
AwayInv == \A c \in Clients : client[c] = "away" => stage[c] = "new"

Core == TypeOK /\ DescriptorsOwned /\ ArrayInv

Inv == Core /\ AwayInv

-----------------------------------------------------------------------------
LEMMA Constants ==
  /\ Capacity \in Nat /\ Capacity > 0
  /\ Fds \subseteq Nat /\ None \notin Fds /\ None \notin Clients
  /\ \A c \in Clients : Port[c] \in {"http", "https"}
BY WebAssumption

LEMMA LowestFree ==
  ASSUME Free # {}
  PROVE  /\ Min(Free) \in Fds
         /\ held[Min(Free)] = None
<1>1. Free \in SUBSET Nat
  BY Constants DEF Free
<1>2. PICK d : d \in Free
  OBVIOUS
<1>3. Min(Free) \in Free
  BY <1>1, <1>2, MinProperties
<1> QED
  BY <1>3 DEF Free

LEMMA StatusType ==
  ASSUME TypeOK, NEW c \in Clients
  PROVE  Answers(c) \subseteq Statuses
<1>1. ASSUME NEW kind \in Kinds, NEW port PROVE Status(kind, port) \in Statuses
  BY <1>1 DEF Kinds, Statuses, Status
<1>2. request[c] \in Kinds \cup {None} /\ Garbage \subseteq Kinds
  BY WebAssumption DEF TypeOK
<1> QED
  BY <1>1, <1>2 DEF Answers

LEMMA InitInv == Init => Inv
<1> SUFFICES ASSUME Init PROVE Inv
  OBVIOUS
<1> USE Constants DEF Init
<1>1. TypeOK
  BY DEF TypeOK, Stages
<1>2. DescriptorsOwned /\ ArrayInv /\ AwayInv
  BY DEF DescriptorsOwned, InHand, WithFile, ArrayInv, AwayInv
<1> QED
  BY <1>1, <1>2 DEF Inv, Core

-----------------------------------------------------------------------------
(* Steps on the descriptors *)

\* A client comes into hand with a descriptor that was free.
LEMMA Opened ==
  ASSUME TypeOK, DescriptorsOwned, NEW c \in Clients, c \notin InHand,
         NEW d \in Fds, held[d] = None,
         NEW s \in {"handshake", "read"},
         socket' = [socket EXCEPT ![c] = d],
         held' = [held EXCEPT ![d] = c],
         stage' = [stage EXCEPT ![c] = s],
         file' = file
  PROVE  DescriptorsOwned'
<1>1. InHand' = InHand \cup {c} /\ WithFile' = WithFile /\ c \notin WithFile
  BY DEF InHand, WithFile, TypeOK
<1>2. \A x \in InHand : x # c /\ x \in Clients /\ socket[x] # d
  BY Constants DEF DescriptorsOwned, InHand
<1>3. \A x \in WithFile : x # c /\ x \in Clients /\ file[x] # d
  BY <1>1, Constants DEF DescriptorsOwned, WithFile
<1>4. ASSUME NEW x \in InHand' PROVE socket'[x] \in Fds /\ held'[socket'[x]] = x
  BY <1>1, <1>2, <1>4 DEF DescriptorsOwned, TypeOK
<1>5. ASSUME NEW x \in WithFile'
      PROVE  file'[x] \in Fds /\ held'[file'[x]] = x /\ file'[x] # socket'[x]
  BY <1>1, <1>3, <1>5 DEF DescriptorsOwned, TypeOK
<1>6. ASSUME NEW e \in Fds, held'[e] # None
      PROVE  \/ held'[e] \in InHand' /\ socket'[held'[e]] = e
             \/ held'[e] \in WithFile' /\ file'[held'[e]] = e
  BY <1>1, <1>2, <1>3, <1>6 DEF DescriptorsOwned, TypeOK
<1> QED
  BY <1>4, <1>5, <1>6 DEF DescriptorsOwned

\* A file is opened for a client that has none, on a descriptor that was free.
LEMMA FileOpened ==
  ASSUME TypeOK, DescriptorsOwned, NEW c \in InHand, c \notin WithFile,
         NEW d \in Fds, held[d] = None,
         socket' = socket,
         file' = [file EXCEPT ![c] = d],
         held' = [held EXCEPT ![d] = c],
         stage' = [stage EXCEPT ![c] = "contents"]
  PROVE  DescriptorsOwned'
<1>1. /\ c \in Clients
      /\ InHand' = InHand /\ WithFile' = WithFile \cup {c}
  BY DEF InHand, WithFile, TypeOK
<1>2. \A x \in InHand : x \in Clients /\ socket[x] # d
  BY Constants DEF DescriptorsOwned, InHand
<1>3. \A x \in WithFile : x # c /\ x \in Clients /\ file[x] # d
  BY Constants DEF DescriptorsOwned, WithFile
<1>4. ASSUME NEW x \in InHand' PROVE socket'[x] \in Fds /\ held'[socket'[x]] = x
  BY <1>1, <1>2, <1>4 DEF DescriptorsOwned, TypeOK
<1>5. ASSUME NEW x \in WithFile'
      PROVE  file'[x] \in Fds /\ held'[file'[x]] = x /\ file'[x] # socket'[x]
  BY <1>1, <1>2, <1>3, <1>5 DEF DescriptorsOwned, TypeOK
<1>6. ASSUME NEW e \in Fds, held'[e] # None
      PROVE  \/ held'[e] \in InHand' /\ socket'[held'[e]] = e
             \/ held'[e] \in WithFile' /\ file'[held'[e]] = e
  BY <1>1, <1>2, <1>3, <1>6 DEF DescriptorsOwned, TypeOK
<1> QED
  BY <1>4, <1>5, <1>6 DEF DescriptorsOwned

\* A file is closed, and its client is still in hand.
LEMMA FileClosed ==
  ASSUME TypeOK, DescriptorsOwned, NEW c \in WithFile,
         socket' = socket,
         file' = [file EXCEPT ![c] = None],
         held' = [held EXCEPT ![file[c]] = None],
         stage' = [stage EXCEPT ![c] = "close"]
  PROVE  DescriptorsOwned' /\ held' \in [Fds -> Clients \cup {None}]
<1>1. /\ c \in Clients /\ file[c] \in Fds /\ held[file[c]] = c
      /\ file[c] # socket[c] /\ c # None
  BY Constants DEF DescriptorsOwned, WithFile
<1>2. InHand' = InHand /\ WithFile' = WithFile \ {c}
  BY <1>1 DEF InHand, WithFile, TypeOK
<1>3. ASSUME NEW x \in InHand' PROVE socket'[x] \in Fds /\ held'[socket'[x]] = x
  BY <1>1, <1>2, <1>3 DEF DescriptorsOwned, TypeOK
<1>4. ASSUME NEW x \in WithFile'
      PROVE  file'[x] \in Fds /\ held'[file'[x]] = x /\ file'[x] # socket'[x]
  BY <1>1, <1>2, <1>4 DEF DescriptorsOwned, WithFile, TypeOK
<1>5. ASSUME NEW e \in Fds, held'[e] # None
      PROVE  \/ held'[e] \in InHand' /\ socket'[held'[e]] = e
             \/ held'[e] \in WithFile' /\ file'[held'[e]] = e
  BY <1>1, <1>2, <1>5 DEF DescriptorsOwned, WithFile, TypeOK
<1>6. held' \in [Fds -> Clients \cup {None}]
  BY <1>1 DEF TypeOK
<1> QED
  BY <1>3, <1>4, <1>5, <1>6 DEF DescriptorsOwned

\* A client without a file is let go, and its descriptor closed.
LEMMA Closed ==
  ASSUME TypeOK, DescriptorsOwned, NEW c \in InHand, c \notin WithFile,
         UNCHANGED <<socket, file>>,
         held' = [held EXCEPT ![socket[c]] = None],
         stage' = [stage EXCEPT ![c] = "done"]
  PROVE  DescriptorsOwned' /\ held' \in [Fds -> Clients \cup {None}]
<1>1. c \in Clients /\ socket[c] \in Fds /\ held[socket[c]] = c /\ c # None
  BY Constants DEF DescriptorsOwned, InHand
<1>2. InHand' = InHand \ {c} /\ WithFile' = WithFile
  BY <1>1 DEF InHand, WithFile, TypeOK
<1>3. ASSUME NEW x \in InHand' PROVE socket'[x] \in Fds /\ held'[socket'[x]] = x
  BY <1>1, <1>2, <1>3 DEF DescriptorsOwned, TypeOK
<1>4. ASSUME NEW x \in WithFile'
      PROVE  file'[x] \in Fds /\ held'[file'[x]] = x /\ file'[x] # socket'[x]
  BY <1>1, <1>2, <1>4 DEF DescriptorsOwned, TypeOK
<1>5. ASSUME NEW e \in Fds, held'[e] # None
      PROVE  \/ held'[e] \in InHand' /\ socket'[held'[e]] = e
             \/ held'[e] \in WithFile' /\ file'[held'[e]] = e
  BY <1>1, <1>2, <1>5 DEF DescriptorsOwned, TypeOK
<1>6. held' \in [Fds -> Clients \cup {None}]
  BY <1>1 DEF TypeOK
<1> QED
  BY <1>3, <1>4, <1>5, <1>6 DEF DescriptorsOwned

\* A client is as much in hand as before.
LEMMA Kept ==
  ASSUME TypeOK, DescriptorsOwned, UNCHANGED <<socket, file, held>>,
         InHand' = InHand, WithFile' = WithFile
  PROVE  DescriptorsOwned'
BY DEF DescriptorsOwned

\* Enlarging the array makes room for one client more.
LEMMA Room ==
  ASSUME TypeOK, ArrayInv, Enlarge, num_clients' = num_clients + 1,
         running' = running
  PROVE  /\ num_clients' \in Nat /\ client_capacity' \in Nat
         /\ num_clients' <= client_capacity'
         /\ stale' \subseteq Clients
         /\ ArrayInv'
<1> USE Constants
<1>1. CASE num_clients >= client_capacity
  BY <1>1 DEF TypeOK, ArrayInv, Enlarge, Threads
<1>2. CASE ~(num_clients >= client_capacity)
  BY <1>2 DEF TypeOK, ArrayInv, Enlarge
<1> QED
  BY <1>1, <1>2

-----------------------------------------------------------------------------
(* The invariant *)

LEMMA AcceptInv ==
  ASSUME Inv, NEW c \in Clients, Accept(c)
  PROVE  Core'
<1> USE DEF Inv, Core
<1> DEFINE d == Min(Free)
           s == IF Port[c] = "http" THEN "read" ELSE "handshake"
<1>1. d \in Fds /\ held[d] = None
  BY LowestFree DEF Accept
<1>2. /\ stage[c] = "queued" /\ s \in {"handshake", "read"}
      /\ socket' = [socket EXCEPT ![c] = d]
      /\ held' = [held EXCEPT ![d] = c]
      /\ stage' = [stage EXCEPT ![c] = s]
      /\ events' \subseteq events
      /\ Enlarge /\ num_clients' = num_clients + 1
      /\ UNCHANGED <<running, file, answer, client, request>>
  BY DEF Accept, clientVars
<1> HIDE DEF d, s
<1>3. DescriptorsOwned'
  BY <1>1, <1>2, Opened DEF InHand
<1>4. /\ num_clients' \in Nat /\ client_capacity' \in Nat
      /\ num_clients' <= client_capacity'
      /\ stale' \subseteq Clients
      /\ ArrayInv'
  BY <1>2, Room
<1>5. TypeOK'
  BY <1>1, <1>2, <1>4 DEF TypeOK, Stages
<1> QED
  BY <1>3, <1>4, <1>5

LEMMA LoopInv ==
  ASSUME Inv, Loop
  PROVE  Core'
<1> USE DEF Inv, Core
<1>1. CASE EpollWait
  <2>1. events' \subseteq {"http", "https"}
    BY <1>1, Constants DEF EpollWait
  <2>2. UNCHANGED <<running, num_clients, client_capacity, stale, stage, socket,
                    file, held, answer, client, request>>
    BY <1>1 DEF EpollWait, clientVars
  <2> QED
    BY <2>1, <2>2 DEF TypeOK, DescriptorsOwned, InHand, WithFile, ArrayInv
<1>2. ASSUME NEW c \in Clients, Accept(c) PROVE Core'
  BY <1>2, AcceptInv
<1>3. ASSUME NEW c \in Clients, HandshakeFails(c) PROVE Core'
  <2>1. c \in InHand /\ c \notin WithFile
    BY <1>3 DEF HandshakeFails, InHand, WithFile
  <2>2. DescriptorsOwned' /\ held' \in [Fds -> Clients \cup {None}]
    BY <1>3, <2>1, Closed DEF HandshakeFails
  <2> QED
    BY <1>3, <2>2 DEF HandshakeFails, TypeOK, Stages, ArrayInv, loopVars, clientVars
<1>4. ASSUME NEW c \in Clients, HandshakeSucceeds(c) PROVE Core'
  <2>1. InHand' = InHand /\ WithFile' = WithFile
    BY <1>4 DEF HandshakeSucceeds, InHand, WithFile, TypeOK
  <2> QED
    BY <1>4, <2>1, Kept
       DEF HandshakeSucceeds, TypeOK, Stages, ArrayInv, loopVars, clientVars
<1>5. ASSUME NEW port \in events, AcceptFails(port) PROVE Core'
  BY <1>5 DEF AcceptFails, TypeOK, DescriptorsOwned, InHand, WithFile, ArrayInv, clientVars
<1> QED
  BY <1>1, <1>2, <1>3, <1>4, <1>5 DEF Loop

LEMMA ThreadInv ==
  ASSUME Inv, NEW c \in Clients, Thread(c) \/ UseStale(c)
  PROVE  Core'
<1> USE DEF Inv, Core
<1>1. CASE Read(c)
  <2>1. CASE stage' = [stage EXCEPT ![c] = "answer"] /\ UNCHANGED held
    <3>1. InHand' = InHand /\ WithFile' = WithFile
      BY <1>1, <2>1 DEF Read, InHand, WithFile, TypeOK
    <3> QED
      BY <1>1, <2>1, <3>1, Kept
         DEF Read, TypeOK, Stages, ArrayInv, loopVars, clientVars
  <2>2. CASE /\ stage' = [stage EXCEPT ![c] = "done"]
             /\ held' = [held EXCEPT ![socket[c]] = None]
    <3>1. c \in InHand /\ c \notin WithFile
      BY <1>1 DEF Read, InHand, WithFile
    <3>2. DescriptorsOwned' /\ held' \in [Fds -> Clients \cup {None}]
      BY <1>1, <2>2, <3>1, Closed DEF Read
    <3> QED
      BY <1>1, <2>2, <3>2 DEF Read, TypeOK, Stages, ArrayInv, loopVars, clientVars
  <2> QED
    BY <1>1, <2>1, <2>2 DEF Read
<1>2. CASE Answer(c)
  <2>1. InHand' = InHand /\ WithFile' = WithFile
    BY <1>2 DEF Answer, InHand, WithFile, TypeOK
  <2>2. answer' \in [Clients -> Statuses \cup {None}]
    BY <1>2, StatusType DEF Answer, TypeOK
  <2>3. running' \in {"yes", "died"}
    BY <1>2 DEF Answer, Written
  <2>4. /\ stage' = [stage EXCEPT ![c] = "close"]
        /\ UNCHANGED <<loopVars, socket, file, held, clientVars>>
    BY <1>2 DEF Answer
  <2> QED
    BY <2>1, <2>2, <2>3, <2>4, Kept DEF TypeOK, Stages, ArrayInv, loopVars, clientVars
<1>3. CASE OpenFile(c)
  <2> DEFINE d == Min(Free)
  <2>1. d \in Fds /\ held[d] = None
    BY <1>3, LowestFree DEF OpenFile
  <2>2. c \in InHand /\ c \notin WithFile
    BY <1>3 DEF OpenFile, InHand, WithFile
  <2>3. /\ file' = [file EXCEPT ![c] = d]
        /\ held' = [held EXCEPT ![d] = c]
        /\ stage' = [stage EXCEPT ![c] = "contents"]
        /\ answer' = [answer EXCEPT ![c] = 200]
        /\ running' \in {"yes", "died"}
        /\ UNCHANGED <<loopVars, socket, clientVars>>
    BY <1>3 DEF OpenFile, Written
  <2> HIDE DEF d
  <2>4. DescriptorsOwned'
    BY <2>1, <2>2, <2>3, FileOpened
  <2>5. /\ file' \in [Clients -> Fds \cup {None}]
        /\ held' \in [Fds -> Clients \cup {None}]
        /\ answer' \in [Clients -> Statuses \cup {None}]
    BY <2>1, <2>3 DEF TypeOK, Statuses
  <2> QED
    BY <2>3, <2>4, <2>5 DEF TypeOK, Stages, ArrayInv, loopVars, clientVars
<1>4. CASE OpenFails(c)
  BY <1>4 DEF OpenFails, TypeOK, DescriptorsOwned, InHand, WithFile, ArrayInv,
              loopVars, clientVars
<1>5. CASE WriteContents(c)
  <2>1. c \in WithFile
    BY <1>5 DEF WriteContents, WithFile
  <2>2. DescriptorsOwned' /\ held' \in [Fds -> Clients \cup {None}]
    BY <1>5, <2>1, FileClosed DEF WriteContents
  <2>3. running' \in {"yes", "died"}
    BY <1>5 DEF WriteContents, Written
  <2> QED
    BY <1>5, <2>2, <2>3
       DEF WriteContents, TypeOK, Stages, ArrayInv, loopVars, clientVars
<1>6. CASE Close(c)
  <2>1. c \in InHand /\ c \notin WithFile
    BY <1>6 DEF Close, InHand, WithFile
  <2>2. DescriptorsOwned' /\ held' \in [Fds -> Clients \cup {None}]
    BY <1>6, <2>1, Closed DEF Close
  <2> QED
    BY <1>6, <2>2 DEF Close, TypeOK, Stages, ArrayInv, loopVars, clientVars
<1>7. CASE UseStale(c)
  BY <1>7 DEF UseStale, TypeOK, DescriptorsOwned, InHand, WithFile, ArrayInv,
              loopVars, clientVars
<1> QED
  BY <1>1, <1>2, <1>3, <1>4, <1>5, <1>6, <1>7 DEF Thread, Working

LEMMA ClientInv ==
  ASSUME Inv, NEW c \in Clients, Client(c)
  PROVE  Core'
<1> USE DEF Inv, Core
<1>1. UNCHANGED <<running, loopVars, socket, file, held, answer>>
  BY DEF Client, Connect, Hello, Ask, End, Leave
<1>2. /\ client' \in [Clients -> {"away", "connected", "hello", "asked", "ended", "gone"}]
      /\ request' \in [Clients -> Kinds \cup {None}]
  BY WebAssumption DEF Client, Connect, Hello, Ask, End, Leave, TypeOK
<1>3. stage' \in [Clients -> Stages] /\ InHand' = InHand /\ WithFile' = WithFile
  <2>1. CASE Connect(c)
    \* a client that connects was never in hand
    <3>1. CASE c \notin InHand
      BY <2>1, <3>1 DEF Connect, InHand, WithFile, TypeOK, Stages
    <3>2. CASE c \in InHand
      BY <2>1, <3>2 DEF Connect, InHand, AwayInv
    <3> QED
      BY <3>1, <3>2
  <2>2. CASE ~Connect(c)
    BY <2>2 DEF Client, Hello, Ask, End, Leave, InHand, WithFile, TypeOK
  <2> QED
    BY <2>1, <2>2
<1> QED
  BY <1>1, <1>2, <1>3, Kept DEF TypeOK, ArrayInv, loopVars

\* Only connecting ends being away, and no step serves who is away.
LEMMA AwayStep ==
  ASSUME Inv, [Next]_vars
  PROVE  AwayInv'
<1> USE DEF Inv, Core
<1> SUFFICES ASSUME NEW c \in Clients, client'[c] = "away" PROVE stage'[c] = "new"
  BY DEF AwayInv
<1>1. client[c] = "away" /\ stage[c] = "new"
  <2>1. client[c] = "away"
    BY DEF Next, Loop, EpollWait, Accept, HandshakeFails, HandshakeSucceeds,
           AcceptFails, Thread, Working, Read, Answer, OpenFile, OpenFails,
           WriteContents, Close, UseStale, Client, Connect, Hello, Ask, End, Leave, vars, clientVars, TypeOK
  <2> QED
    BY <2>1 DEF AwayInv
<1>2. CASE Loop
  BY <1>1, <1>2 DEF Loop, EpollWait, Accept, HandshakeFails, HandshakeSucceeds,
                    AcceptFails, TypeOK
<1>3. ASSUME NEW x \in Clients, Thread(x) \/ UseStale(x) PROVE stage'[c] = "new"
  BY <1>1, <1>3 DEF Thread, Working, Read, Answer, OpenFile, OpenFails,
                    WriteContents, Close, UseStale, TypeOK
<1>4. ASSUME NEW x \in Clients, Client(x) PROVE stage'[c] = "new"
  BY <1>1, <1>4 DEF Client, Connect, Hello, Ask, End, Leave, TypeOK
<1>5. CASE UNCHANGED vars
  BY <1>1, <1>5 DEF vars
<1> QED
  BY <1>2, <1>3, <1>4, <1>5 DEF Next

LEMMA NextInv == Inv /\ [Next]_vars => Inv'
<1> SUFFICES ASSUME Inv, [Next]_vars PROVE Inv'
  OBVIOUS
<1>1. CASE UNCHANGED vars
  BY <1>1 DEF vars, loopVars, clientVars, Inv, Core, TypeOK, DescriptorsOwned,
              InHand, WithFile, ArrayInv, AwayInv
<1>2. CASE Next
  <2>1. Core'
    BY <1>2, LoopInv, ThreadInv, ClientInv DEF Next
  <2> QED
    BY <2>1, AwayStep DEF Inv
<1> QED
  BY <1>1, <1>2

LEMMA Invariance == Spec => []Inv
BY InitInv, NextInv, PTL DEF Spec

\* Types are kept, and the array always has room for the clients accepted.
THEOREM WebTypes == Spec => []TypeOK
BY Invariance, PTL DEF Inv, Core

\* Every client in hand has its own descriptor, and no other one is open.
THEOREM Descriptors == Spec => []DescriptorsOwned
BY Invariance, PTL DEF Inv, Core

\* Behaviour becomes undefined only after the first capacity was exceeded.
THEOREM Defined == Spec => []DefinedWhileSmall
<1>1. Inv => DefinedWhileSmall
  BY Constants DEF Inv, Core, ArrayInv, TypeOK, DefinedWhileSmall
<1> QED
  BY <1>1, Invariance, PTL

=============================================================================
