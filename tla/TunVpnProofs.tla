---------------------------- MODULE TunVpnProofs ----------------------------
(* Safety of the tunnel VPN, for any clients, addresses and traffic.       *)
EXTENDS TunVpn, TLAPS

\* Address a was given to client c.
Given(c, a) == a \in DOMAIN client_addr /\ client_addr[a] = c

\* Whatever is on its way to a client names an address given to it, and
\* what the server's kernel sends is not for the server.
TrafficInv ==
  /\ \A d \in toClient : Given(d.to, d.ip)
  /\ MyAddr \notin tun

\* A client that has not had its answer has no address.
Unconfigured ==
  \A c \in Clients : phase[c] \in {"start", "wait"} => ~HasAddress(c)

Inv ==
  TypeOK /\ TrafficInv /\ Unconfigured /\ RoutesToHolder /\ ServerKeepsItsAddress

-----------------------------------------------------------------------------
(* The data *)

LEMMA Numbers ==
  /\ AddrBase \in Nat /\ AddrBase > 0
  /\ MaxRequests \in Nat /\ MyAddr \in Nat
  /\ 0 \notin Assigned /\ Header \notin Assigned /\ Header # 0
  /\ Header \notin Destinations
BY VpnAssumption DEF Assigned

LEMMA ToServerFields ==
  ASSUME NEW d \in ToServer
  PROVE  /\ d.from \in Clients
         /\ d.kind \in {"address", "packet"}
         /\ d.kind = "address" => d = Request(d.from)
         /\ d.kind = "packet" => d.dst \in Destinations
BY DEF ToServer, Request

LEMMA ToClientFields ==
  ASSUME NEW d \in ToClient
  PROVE  /\ d.to \in Clients /\ d.ip \in Assigned
         /\ d.kind \in {"address", "packet"}
BY DEF ToClient

LEMMA NewDatagrams ==
  ASSUME NEW c \in Clients
  PROVE  /\ Request(c) \in ToServer
         /\ \A a \in Destinations : Upward(c, a) \in ToServer
         /\ \A a \in Assigned : /\ Answer(c, a) \in ToClient
                                /\ Downward(c, a) \in ToClient
BY DEF Request, Upward, Answer, Downward, ToServer, ToClient

LEMMA TakenSubset ==
  ASSUME NEW channel, NEW d, NEW c \in Taken(channel, d)
  PROVE  /\ c \subseteq channel
         /\ ~Faulty => c = channel \ {d}
BY VpnAssumption DEF Taken

\* The addresses of the table are addresses that can be assigned.
LEMMA TableAddresses ==
  ASSUME TypeOK
  PROVE  /\ DOMAIN client_addr \subseteq Assigned
         /\ \A a \in DOMAIN client_addr : client_addr[a] \in Clients
<1>1. client_num \in 0..MaxRequests
  BY DEF TypeOK
<1>2. client_addr \in [AddrBase..(AddrBase + client_num - 1) -> Clients]
  BY DEF TypeOK
<1>3. AddrBase..(AddrBase + client_num - 1) \subseteq Assigned
  BY <1>1, Numbers DEF Assigned
<1> QED
  BY <1>2, <1>3

\* A new entry leaves the ones there are alone.
LEMMA TableGrows ==
  ASSUME TypeOK, client_num < MaxRequests, NEW c \in Clients,
         client_addr' = Entered(AddrBase + client_num, c),
         client_num' = client_num + 1
  PROVE  /\ client_num' \in 0..MaxRequests
         /\ client_addr' \in [AddrBase..(AddrBase + client_num' - 1) -> Clients]
         /\ AddrBase + client_num \in Assigned
         /\ AddrBase + client_num \notin DOMAIN client_addr
         /\ DOMAIN client_addr' = DOMAIN client_addr \cup {AddrBase + client_num}
         /\ client_addr'[AddrBase + client_num] = c
         /\ \A a \in DOMAIN client_addr : client_addr'[a] = client_addr[a]
<1> USE Numbers
<1> DEFINE new == AddrBase + client_num
           Old == AddrBase..(new - 1)
<1>1. client_num \in 0..MaxRequests /\ client_num' \in 0..MaxRequests
  BY DEF TypeOK
<1>2. client_addr \in [Old -> Clients] /\ DOMAIN client_addr = Old
  BY DEF TypeOK
<1>3. new \in Assigned /\ new \notin Old
  BY <1>1 DEF Assigned
<1>4. AddrBase..(AddrBase + client_num' - 1) = Old \cup {new}
  BY <1>1
<1>5. client_addr' = [a \in Old \cup {new} |-> IF a = new THEN c ELSE client_addr[a]]
  BY <1>2 DEF Entered
<1> HIDE DEF new, Old
<1>6. client_addr' \in [Old \cup {new} -> Clients]
  BY <1>2, <1>5
<1>7. DOMAIN client_addr' = Old \cup {new} /\ client_addr'[new] = c
      /\ \A a \in Old : client_addr'[a] = client_addr[a]
  BY <1>3, <1>5
<1> QED
  BY <1>1, <1>2, <1>3, <1>4, <1>6, <1>7 DEF new

-----------------------------------------------------------------------------
(* The invariant *)

LEMMA InitInv == Init => Inv
<1> SUFFICES ASSUME Init PROVE Inv
  OBVIOUS
<1> USE Numbers DEF Init
<1>1. TypeOK
  <2>1. AddrBase..(AddrBase + client_num - 1) = {}
    OBVIOUS
  <2>2. client_addr \in [{} -> Clients]
    BY Zenon
  <2>3. client_addr \in [AddrBase..(AddrBase + client_num - 1) -> Clients]
    BY ONLY <2>1, <2>2
  <2>4. client_num \in 0..MaxRequests /\ tun \subseteq Destinations
    OBVIOUS
  <2>5. /\ phase \in [Clients -> {"start", "wait", "up", "dead"}]
        /\ virtual_ip \in [Clients -> Assigned \cup {0, Header}]
        /\ buffer \in [Clients -> Assigned \cup Destinations \cup {0}]
    OBVIOUS
  <2> QED
    BY <2>3, <2>4, <2>5 DEF TypeOK
<1>2. TrafficInv /\ Unconfigured /\ RoutesToHolder /\ ServerKeepsItsAddress
  BY DEF TrafficInv, Unconfigured, RoutesToHolder, HasAddress, ServerKeepsItsAddress
<1> QED
  BY <1>1, <1>2 DEF Inv

LEMMA AssignInv ==
  ASSUME Inv, NEW d \in toServer, Assign(d)
  PROVE  Inv'
<1> DEFINE new == AddrBase + client_num
<1>1. d.from \in Clients
  BY ToServerFields DEF Inv, TypeOK
<1>2. /\ client_num < MaxRequests
      /\ toServer' \subseteq toServer
      /\ toClient' = toClient \cup {Answer(d.from, new)}
      /\ client_addr' = Entered(new, d.from)
      /\ client_num' = client_num + 1
      /\ UNCHANGED <<tun, tunReady, phase, virtual_ip, buffer>>
  BY TakenSubset DEF Assign, NextNum, Received, clientVars
<1>3. /\ client_num' \in 0..MaxRequests
      /\ client_addr' \in [AddrBase..(AddrBase + client_num' - 1) -> Clients]
      /\ new \in Assigned
      /\ DOMAIN client_addr' = DOMAIN client_addr \cup {new}
      /\ client_addr'[new] = d.from
      /\ \A a \in DOMAIN client_addr : client_addr'[a] = client_addr[a]
  BY <1>1, <1>2, TableGrows DEF Inv
<1> HIDE DEF new
<1>4. Answer(d.from, new) \in ToClient
  BY <1>1, <1>3, NewDatagrams
<1>5. TypeOK'
  BY <1>2, <1>3, <1>4 DEF Inv, TypeOK
<1>6. TrafficInv'
  BY <1>2, <1>3 DEF Inv, TrafficInv, Given, Answer
<1>7. RoutesToHolder' /\ Unconfigured'
  BY <1>2, <1>3 DEF Inv, RoutesToHolder, Unconfigured, HasAddress
<1>8. ServerKeepsItsAddress'
  BY <1>2 DEF Inv, ServerKeepsItsAddress, Answer
<1> QED
  BY <1>5, <1>6, <1>7, <1>8 DEF Inv

\* A step that sends a packet to the client its address was given to.
LEMMA SendDown ==
  ASSUME Inv, NEW a \in DOMAIN client_addr, a # MyAddr,
         toClient' = toClient \cup {Downward(client_addr[a], a)},
         toServer' \subseteq toServer, tun' \subseteq tun, tunReady' \in BOOLEAN,
         UNCHANGED <<client_num, client_addr, clientVars>>
  PROVE  Inv'
<1>1. Downward(client_addr[a], a) \in ToClient
  BY TableAddresses, NewDatagrams DEF Inv
<1>2. TypeOK'
  BY <1>1 DEF Inv, TypeOK, clientVars
<1>3. TrafficInv'
  BY DEF Inv, TrafficInv, Given, Downward
<1>4. RoutesToHolder' /\ Unconfigured'
  BY DEF Inv, RoutesToHolder, Unconfigured, HasAddress, clientVars
<1>5. ServerKeepsItsAddress'
  BY DEF Inv, ServerKeepsItsAddress, Downward
<1> QED
  BY <1>2, <1>3, <1>4, <1>5 DEF Inv

\* A step that leaves the table alone and sends nothing to clients.
LEMMA NothingDown ==
  ASSUME Inv, toClient' \subseteq toClient,
         UNCHANGED <<client_num, client_addr>>,
         tun' \subseteq Destinations \ {MyAddr}, tunReady' \in BOOLEAN,
         toServer' \subseteq ToServer,
         phase' \in [Clients -> {"start", "wait", "up", "dead"}],
         buffer' \in [Clients -> Assigned \cup Destinations \cup {0}],
         virtual_ip' = virtual_ip,
         \A c \in Clients : phase'[c] \in {"start", "wait"}
                               => phase[c] \in {"start", "wait"}
  PROVE  Inv'
<1>1. TypeOK'
  BY DEF Inv, TypeOK
<1>2. TrafficInv' /\ Unconfigured' /\ RoutesToHolder' /\ ServerKeepsItsAddress'
  BY DEF Inv, TrafficInv, Given, Unconfigured, RoutesToHolder, HasAddress,
         ServerKeepsItsAddress
<1> QED
  BY <1>1, <1>2 DEF Inv

LEMMA ServerInv ==
  ASSUME Inv, Server
  PROVE  Inv'
<1> USE DEF Inv
<1>1. ASSUME NEW d \in toServer, Assign(d) PROVE Inv'
  BY <1>1, AssignInv
<1>2. ASSUME NEW d \in toServer, Accept(d) \/ Reject(d) PROVE Inv'
  <2>1. /\ toServer' \subseteq toServer
        /\ UNCHANGED <<serverVars, clientVars, toClient>>
    BY <1>2, TakenSubset DEF Accept, Reject, Received
  <2> QED
    BY <2>1, NothingDown DEF TypeOK, TrafficInv, serverVars, clientVars
<1>3. ASSUME NEW d \in toServer, Forward(d) PROVE Inv'
  <2>1. /\ toServer' \subseteq toServer
        /\ d.dst \in DOMAIN client_addr /\ d.dst # MyAddr
        /\ toClient' = toClient \cup {Downward(client_addr[d.dst], d.dst)}
        /\ tunReady' \in BOOLEAN
        /\ UNCHANGED <<client_num, client_addr, tun, clientVars>>
    BY <1>3, TakenSubset DEF Forward, Received
  <2> QED
    BY <2>1, SendDown
<1>4. ASSUME NEW a \in tun, FromTun(a) PROVE Inv'
  <2>1. /\ a # MyAddr /\ tun' \subseteq tun /\ tunReady' = FALSE
        /\ UNCHANGED <<client_num, client_addr, toServer, clientVars>>
    BY <1>4 DEF FromTun, TrafficInv
  <2>2. CASE a \in DOMAIN client_addr
    <3>1. toClient' = toClient \cup {Downward(client_addr[a], a)}
      BY <1>4, <2>2 DEF FromTun
    <3> QED
      BY <2>1, <2>2, <3>1, SendDown
  <2>3. CASE a \notin DOMAIN client_addr
    <3>1. toClient' = toClient
      BY <1>4, <2>3 DEF FromTun
    <3> QED
      BY <2>1, <3>1, NothingDown DEF TypeOK, TrafficInv, clientVars
  <2> QED
    BY <2>2, <2>3
<1>5. ASSUME NEW a \in Destinations, ServerKernel(a) PROVE Inv'
  BY <1>5, NothingDown DEF ServerKernel, TypeOK, TrafficInv, clientVars
<1> QED
  BY <1>1, <1>2, <1>3, <1>4, <1>5 DEF Server, FromSocket

LEMMA ConfigureInv ==
  ASSUME Inv, NEW c \in Clients, NEW d \in toClient, Configure(c, d)
  PROVE  Inv'
<1> USE DEF Inv
<1> DEFINE a == IF d.kind = "address" THEN d.ip ELSE Header
<1>1. d.ip \in Assigned /\ Given(c, d.ip) /\ d.to = c
  BY ToClientFields DEF Configure, TypeOK, TrafficInv
<1>2. /\ toClient' \subseteq toClient
      /\ phase' = [phase EXCEPT ![c] = "up"]
      /\ virtual_ip' = [virtual_ip EXCEPT ![c] = a]
      /\ UNCHANGED <<client_num, client_addr, tun, tunReady, buffer, toServer>>
  BY TakenSubset DEF Configure, serverVars
<1>3. TypeOK'
  BY <1>1, <1>2 DEF TypeOK
<1>4. RoutesToHolder'
  BY <1>1, <1>2 DEF RoutesToHolder, HasAddress, Given, TypeOK
<1>5. TrafficInv' /\ Unconfigured' /\ ServerKeepsItsAddress'
  BY <1>2 DEF TrafficInv, Given, Unconfigured, HasAddress, TypeOK,
              ServerKeepsItsAddress
<1> QED
  BY <1>3, <1>4, <1>5

LEMMA ClientInv ==
  ASSUME Inv, NEW c \in Clients, Client(c)
  PROVE  Inv'
<1> USE DEF Inv
<1>1. CASE Ask(c)
  BY <1>1, NewDatagrams, NothingDown DEF Ask, TypeOK, TrafficInv, serverVars
<1>2. ASSUME NEW d \in toClient, Configure(c, d) PROVE Inv'
  BY <1>2, ConfigureInv
<1>3. ASSUME NEW d \in toClient, ReceivePacket(c, d) PROVE Inv'
  <2>1. toClient' \subseteq toClient /\ d.ip \in Assigned
    BY <1>3, TakenSubset, ToClientFields DEF ReceivePacket, TypeOK
  <2> QED
    BY <1>3, <2>1, NothingDown DEF ReceivePacket, TypeOK, TrafficInv, serverVars
<1>4. ASSUME NEW d \in toClient, ReceiveAnswer(c, d) PROVE Inv'
  <2>1. toClient' \subseteq toClient
    BY <1>4, TakenSubset DEF ReceiveAnswer
  <2> QED
    BY <1>4, <2>1, NothingDown DEF ReceiveAnswer, TypeOK, TrafficInv, serverVars
<1>5. ASSUME NEW a \in Destinations, ClientKernel(c, a) PROVE Inv'
  BY <1>5, NewDatagrams, NothingDown
     DEF ClientKernel, TypeOK, TrafficInv, serverVars
<1> QED
  BY <1>1, <1>2, <1>3, <1>4, <1>5 DEF Client, FromServer

LEMMA NextInv == Inv /\ [Next]_vars => Inv'
<1> SUFFICES ASSUME Inv, [Next]_vars PROVE Inv'
  OBVIOUS
<1>1. CASE Server
  BY <1>1, ServerInv
<1>2. ASSUME NEW c \in Clients, Client(c) PROVE Inv'
  BY <1>2, ClientInv
<1>3. CASE Lose
  BY <1>3, NothingDown DEF Lose, Inv, TypeOK, TrafficInv, serverVars, clientVars
<1>4. CASE UNCHANGED vars
  BY <1>4 DEF vars, serverVars, clientVars, Inv, TypeOK, TrafficInv, Given,
              Unconfigured, RoutesToHolder, HasAddress, ServerKeepsItsAddress
<1> QED
  BY <1>1, <1>2, <1>3, <1>4 DEF Next

LEMMA Invariance == Spec => []Inv
BY InitInv, NextInv, PTL DEF Spec

-----------------------------------------------------------------------------
(* Refinement *)

LEMMA PoolInit == Init => ThePool!Init
BY DEF Init, ThePool!Init, HasAddress

\* No step of the tunnel does to the addresses what the pool does not do.
LEMMA PoolStep ==
  ASSUME Inv, [Next]_vars
  PROVE  [ThePool!Next]_ThePool!vars
<1> USE DEF Inv
<1> DEFINE owner == [a \in Assigned |->
                       IF a \in DOMAIN client_addr THEN client_addr[a] ELSE None]
           address == [c \in Clients |->
                         IF HasAddress(c) THEN virtual_ip[c] ELSE None]
<1>1. ASSUME UNCHANGED <<client_addr, virtual_ip>> PROVE UNCHANGED ThePool!vars
  BY <1>1 DEF ThePool!vars, HasAddress
<1>2. ASSUME NEW d \in toServer, Assign(d) PROVE ThePool!Next
  <2> DEFINE new == AddrBase + client_num
  <2>1. d.from \in Clients
    BY ToServerFields DEF TypeOK
  <2>2. /\ new \in Assigned /\ new \notin DOMAIN client_addr
        /\ DOMAIN client_addr' = DOMAIN client_addr \cup {new}
        /\ client_addr'[new] = d.from
        /\ \A a \in DOMAIN client_addr : client_addr'[a] = client_addr[a]
    BY <1>2, <2>1, TableGrows DEF Assign, NextNum
  <2> HIDE DEF new
  <2>3. owner[new] = None
    BY <2>2
  <2>4. owner' = [owner EXCEPT ![new] = d.from]
    BY <2>2
  <2>5. address' = address
    BY <1>2 DEF Assign, clientVars, HasAddress
  <2>6. ThePool!Give(new, d.from)
    BY <2>3, <2>4, <2>5 DEF ThePool!Give
  <2> QED
    BY <2>1, <2>2, <2>6 DEF ThePool!Next
<1>3. ASSUME NEW c \in Clients, NEW d \in toClient, Configure(c, d)
      PROVE  [ThePool!Next]_ThePool!vars
  <2>1. /\ phase[c] = "wait" /\ client_addr' = client_addr
        /\ virtual_ip' = [virtual_ip EXCEPT ![c] =
                            IF d.kind = "address" THEN d.ip ELSE Header]
    BY <1>3 DEF Configure, serverVars
  <2>2. d.ip \in Assigned /\ Given(c, d.ip)
    BY <1>3, ToClientFields DEF Configure, TypeOK, TrafficInv
  <2>3. owner' = owner
    BY <2>1
  <2>4. ~HasAddress(c)
    BY <2>1 DEF Unconfigured
  <2>5. CASE d.kind = "address"
    <3>1. address' = [address EXCEPT ![c] = d.ip]
      BY <2>1, <2>2, <2>5, Numbers DEF HasAddress, TypeOK
    <3>2. owner[d.ip] = c /\ address[c] = None
      BY <2>2, <2>4 DEF Given
    <3>3. ThePool!Take(d.ip, c)
      BY <2>3, <3>1, <3>2 DEF ThePool!Take
    <3> QED
      BY <2>2, <3>3 DEF ThePool!Next
  <2>6. CASE d.kind # "address"
    <3>1. address' = address
      BY <2>1, <2>4, <2>6 DEF HasAddress, TypeOK
    <3> QED
      BY <2>3, <3>1 DEF ThePool!vars
  <2> QED
    BY <2>5, <2>6
<1>4. CASE Server
  BY <1>1, <1>2, <1>4
     DEF Server, FromSocket, Accept, Reject, Forward, FromTun, ServerKernel,
         serverVars, clientVars
<1>5. ASSUME NEW c \in Clients, Client(c) PROVE [ThePool!Next]_ThePool!vars
  BY <1>1, <1>3, <1>5
     DEF Client, Ask, FromServer, ReceivePacket, ReceiveAnswer, ClientKernel,
         serverVars
<1>6. CASE Lose \/ UNCHANGED vars
  BY <1>1, <1>6 DEF Lose, vars, serverVars, clientVars
<1> QED
  BY <1>4, <1>5, <1>6 DEF Next

\* Server and clients implement the pool of addresses.
THEOREM ImplementsPool == Spec => PoolImplemented
<1>1. Inv /\ [Next]_vars => [ThePool!Next]_ThePool!vars
  BY PoolStep
<1> QED
  BY <1>1, PoolInit, Invariance, PTL DEF Spec, PoolImplemented, ThePool!Spec

-----------------------------------------------------------------------------
(* Without faults *)

Owns(c) == \E a \in DOMAIN client_addr : client_addr[a] = c

Answers(c) == {d \in toClient : d.kind = "address" /\ d.to = c}

(***************************************************************************)
(* A request becomes one entry of the table and one answer, and the answer *)
(* an address: at any time a client has one of the three.                  *)
(***************************************************************************)
Served(c) ==
  /\ phase[c] # "dead"
  /\ phase[c] = "start" => Request(c) \notin toServer /\ ~Owns(c)
  /\ phase[c] = "wait" => Answers(c) # {} \/ ~Owns(c)
  /\ phase[c] = "up" => Request(c) \notin toServer /\ Answers(c) = {} /\ HasAddress(c)
  /\ Request(c) \in toServer => ~Owns(c)
  /\ \A d, e \in Answers(c) : d = e

OrderlyInv == \A c \in Clients : Served(c)

LEMMA OrderlyInit == Init => OrderlyInv
BY DEF Init, OrderlyInv, Served, Owns, Answers

\* What does not concern a client leaves it as it is.
LEMMA Unconcerned ==
  ASSUME NEW c \in Clients, Served(c),
         phase'[c] = phase[c], virtual_ip'[c] = virtual_ip[c],
         Request(c) \in toServer' => Request(c) \in toServer,
         Owns(c)' <=> Owns(c), Answers(c)' = Answers(c)
  PROVE  Served(c)'
BY DEF Served, HasAddress, Request

LEMMA AssignOrderly ==
  ASSUME Inv, ~Faulty, OrderlyInv, NEW d \in toServer, Assign(d)
  PROVE  OrderlyInv'
<1> DEFINE new == AddrBase + client_num
<1>1. d = Request(d.from) /\ d.from \in Clients
  BY ToServerFields DEF Inv, TypeOK, Assign
<1>2. /\ toServer' = toServer \ {d}
      /\ toClient' = toClient \cup {Answer(d.from, new)}
      /\ UNCHANGED <<phase, virtual_ip, buffer>>
  BY TakenSubset DEF Assign, NextNum, Received, clientVars
<1>3. /\ new \notin DOMAIN client_addr
      /\ DOMAIN client_addr' = DOMAIN client_addr \cup {new}
      /\ client_addr'[new] = d.from
      /\ \A a \in DOMAIN client_addr : client_addr'[a] = client_addr[a]
  BY <1>1, TableGrows DEF Inv, Assign, NextNum
<1> HIDE DEF new
<1>4. ASSUME NEW c \in Clients, c # d.from PROVE Served(c)'
  <2>1. Answers(c)' = Answers(c)
    BY <1>2, <1>4 DEF Answers, Answer
  <2>2. Owns(c)' <=> Owns(c)
    BY <1>3, <1>4 DEF Owns
  <2> QED
    BY <1>2, <2>1, <2>2, Unconcerned DEF OrderlyInv
<1>5. Served(d.from)'
  <2> DEFINE c == d.from
  <2>1. Served(c) /\ ~Owns(c) /\ phase[c] = "wait"
    <3>1. Served(c) /\ Request(c) \in toServer
      BY <1>1 DEF OrderlyInv
    <3>2. phase[c] \in {"start", "wait", "up", "dead"}
      BY <1>1 DEF Inv, TypeOK
    <3> QED
      BY <3>1, <3>2 DEF Served
  <2>2. \A e \in toClient : e.to # c
    BY <2>1 DEF Inv, TrafficInv, Given, Owns
  <2>3. Answers(c)' = {Answer(c, new)}
    BY <1>2, <2>2 DEF Answers, Answer
  <2>4. Request(c) \notin toServer'
    BY <1>1, <1>2
  <2>5. phase'[c] = "wait"
    BY <1>2, <2>1
  <2> QED
    BY <2>3, <2>4, <2>5 DEF Served, Request
<1> QED
  BY <1>4, <1>5 DEF OrderlyInv

LEMMA ConfigureOrderly ==
  ASSUME Inv, ~Faulty, OrderlyInv, NEW c \in Clients, NEW d \in toClient,
         Configure(c, d)
  PROVE  OrderlyInv'
<1>1. /\ phase[c] = "wait" /\ d.to = c /\ First(d)
      /\ toClient' = toClient \ {d}
      /\ phase' = [phase EXCEPT ![c] = "up"]
      /\ virtual_ip' = [virtual_ip EXCEPT ![c] =
                          IF d.kind = "address" THEN d.ip ELSE Header]
      /\ UNCHANGED <<client_num, client_addr, toServer>>
  BY TakenSubset DEF Configure, serverVars
<1>2. ASSUME NEW x \in Clients, x # c PROVE Served(x)'
  <2>1. Answers(x)' = Answers(x)
    BY <1>1, <1>2 DEF Answers
  <2>2. phase'[x] = phase[x] /\ virtual_ip'[x] = virtual_ip[x]
    BY <1>1, <1>2 DEF Inv, TypeOK
  <2> QED
    BY <1>1, <2>1, <2>2, Unconcerned DEF OrderlyInv, Owns
<1>3. Served(c)'
  <2>1. Owns(c) /\ d.ip \in Assigned
    BY <1>1, ToClientFields DEF Inv, TypeOK, TrafficInv, Given, Owns
  <2>2. Answers(c) # {} /\ \A x, y \in Answers(c) : x = y
    BY <1>1, <2>1 DEF OrderlyInv, Served
  <2>3. d \in Answers(c)
    BY <1>1, <2>2 DEF First, Answers
  <2>4. Answers(c)' = {}
    BY <1>1, <2>2, <2>3 DEF Answers
  <2>5. HasAddress(c)'
    BY <1>1, <2>1, <2>3, Numbers DEF HasAddress, Answers, Inv, TypeOK
  <2>6. Request(c) \notin toServer'
    BY <1>1, <2>1 DEF OrderlyInv, Served
  <2>7. phase'[c] = "up"
    BY <1>1 DEF Inv, TypeOK
  <2> QED
    BY <2>4, <2>5, <2>6, <2>7 DEF Served, Request
<1> QED
  BY <1>2, <1>3 DEF OrderlyInv

\* A step that neither assigns nor configures changes nothing of this.
LEMMA TrafficOrderly ==
  ASSUME OrderlyInv, UNCHANGED <<client_addr, phase, virtual_ip>>,
         \A c \in Clients : Request(c) \in toServer' => Request(c) \in toServer,
         \A d : d \in toClient' /\ d.kind = "address"
                 <=> d \in toClient /\ d.kind = "address"
  PROVE  OrderlyInv'
<1> SUFFICES ASSUME NEW c \in Clients PROVE Served(c)'
  BY DEF OrderlyInv
<1>1. Answers(c)' = Answers(c)
  BY DEF Answers
<1> QED
  BY <1>1, Unconcerned DEF OrderlyInv, Owns

LEMMA OrderlyStep ==
  ASSUME Inv, ~Faulty, OrderlyInv, [Next]_vars
  PROVE  OrderlyInv'
<1>1. ASSUME NEW d \in toServer, FromSocket(d) PROVE OrderlyInv'
  <2>1. CASE Assign(d)
    BY <2>1, AssignOrderly
  <2>2. CASE Accept(d) \/ Reject(d)
    BY <2>2, TrafficOrderly, TakenSubset
       DEF Accept, Reject, Received, serverVars, clientVars
  <2>3. CASE Forward(d)
    <3>1. toServer' \subseteq toServer
      BY <2>3, TakenSubset DEF Forward, Received
    <3> QED
      BY <2>3, <3>1, TrafficOrderly DEF Forward, Downward, clientVars
  <2> QED
    BY <1>1, <2>1, <2>2, <2>3 DEF FromSocket
<1>2. ASSUME NEW a, FromTun(a) \/ ServerKernel(a) PROVE OrderlyInv'
  BY <1>2, TrafficOrderly DEF FromTun, ServerKernel, Downward, clientVars
<1>3. ASSUME NEW c \in Clients, Ask(c) PROVE OrderlyInv'
  <2>1. /\ phase[c] = "start"
        /\ phase' = [phase EXCEPT ![c] = "wait"]
        /\ toServer' = toServer \cup {Request(c)}
        /\ UNCHANGED <<client_addr, virtual_ip, toClient>>
    BY <1>3 DEF Ask, serverVars
  <2>2. ASSUME NEW x \in Clients, x # c PROVE Served(x)'
    <3>1. Answers(x)' = Answers(x) /\ (Owns(x)' <=> Owns(x))
      BY <2>1 DEF Answers, Owns
    <3>2. phase'[x] = phase[x]
      BY <2>1, <2>2 DEF Inv, TypeOK
    <3>3. Request(x) \in toServer' => Request(x) \in toServer
      BY <2>1, <2>2 DEF Request
    <3> QED
      BY <2>1, <3>1, <3>2, <3>3, Unconcerned DEF OrderlyInv
  <2>3. Served(c)'
    <3>1. ~Owns(c)' /\ Answers(c)' = Answers(c)
      BY <2>1 DEF OrderlyInv, Served, Owns, Answers
    <3>2. phase'[c] = "wait"
      BY <2>1 DEF Inv, TypeOK
    <3> QED
      BY <3>1, <3>2 DEF OrderlyInv, Served
  <2> QED
    BY <2>2, <2>3 DEF OrderlyInv
<1>4. ASSUME NEW c \in Clients, NEW d \in toClient, Configure(c, d)
      PROVE  OrderlyInv'
  BY <1>4, ConfigureOrderly
<1>5. ASSUME NEW c \in Clients, NEW d \in toClient, ReceivePacket(c, d)
      PROVE  OrderlyInv'
  BY <1>5, TrafficOrderly, TakenSubset DEF ReceivePacket, serverVars
<1>6. ASSUME NEW c \in Clients, NEW d \in toClient, ReceiveAnswer(c, d)
      PROVE  OrderlyInv'
  \* cannot happen: a client that is up has had its only answer
  <2>1. Answers(c) = {}
    BY <1>6 DEF ReceiveAnswer, OrderlyInv, Served
  <2> QED
    BY <1>6, <2>1 DEF ReceiveAnswer, Answers
<1>7. ASSUME NEW c \in Clients, NEW a, ClientKernel(c, a) PROVE OrderlyInv'
  BY <1>7, TrafficOrderly DEF ClientKernel, Request, Upward, serverVars
<1>8. CASE UNCHANGED vars
  BY <1>8, TrafficOrderly DEF vars, serverVars, clientVars
<1> QED
  BY <1>1, <1>2, <1>3, <1>4, <1>5, <1>6, <1>7, <1>8
     DEF Next, Server, Client, FromServer, Lose

LEMMA OrderlyInvariance == Spec => [](~Faulty => OrderlyInv)
<1>1. CASE Faulty
  BY <1>1, PTL
<1>2. CASE ~Faulty
  <2>1. Inv /\ OrderlyInv /\ [Next]_vars => OrderlyInv'
    BY <1>2, OrderlyStep
  <2> QED
    BY <2>1, OrderlyInit, Invariance, PTL DEF Spec
<1> QED
  BY <1>1, <1>2

-----------------------------------------------------------------------------
(* What the invariants say *)

\* Types are kept, for any clients, addresses and network.
THEOREM VpnTypes == Spec => []TypeOK
BY Invariance, PTL DEF Inv

\* What is forwarded for the address of a client goes to that client.
THEOREM HoldersReached == Spec => []RoutesToHolder
BY Invariance, PTL DEF Inv

\* The server's own address is never forwarded to a client.
THEOREM ServerReached == Spec => []ServerKeepsItsAddress
BY Invariance, PTL DEF Inv

\* Without faults no client is brought down by a late answer.
THEOREM Survival == Spec => []ClientsSurvive
<1>1. (~Faulty => OrderlyInv) => ClientsSurvive
  BY DEF OrderlyInv, Served, ClientsSurvive
<1> QED
  BY <1>1, OrderlyInvariance, PTL

\* Without faults a client that is up has a real address.
THEOREM Addressing == Spec => []ClientsAddressed
<1>1. (~Faulty => OrderlyInv) => ClientsAddressed
  BY DEF OrderlyInv, Served, ClientsAddressed
<1> QED
  BY <1>1, OrderlyInvariance, PTL

=============================================================================
