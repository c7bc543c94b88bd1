------------------------------- MODULE TunVpn -------------------------------
(***************************************************************************)
(* The tunnel VPN of Lab8 (tunvpn.cpp).  A client asks the server for a    *)
(* virtual address, gives it to its tun0 and then carries IP packets       *)
(* between tun0 and the server, which forwards them by destination.        *)
(*                                                                         *)
(* An address is the number in it that varies; an IP packet is its         *)
(* destination, all that either program looks at.  A datagram of the size  *)
(* of an address is an address, any other one is an IP packet.  The        *)
(* network is two sets of datagrams, received in any order unless Faulty   *)
(* is FALSE and the order matters (see First).  A process that is started  *)
(* again has a socket of its own: it is another member of Clients.         *)
(***************************************************************************)
EXTENDS Integers, FiniteSets

CONSTANTS
  Clients,
  None,
  AddrBase,      \* ADDRBASE, the first address that is assigned
  MyAddr,        \* MYADDR, the server's own
  Header,        \* the first four bytes of an IP packet, as an address
  Destinations,  \* the addresses the kernels send packets to
  MaxRequests,   \* bound on client_num
  MaxInFlight,   \* bound on the packets in flight, either way
  Faulty         \* may the network lose, repeat and reorder datagrams?

Assigned == AddrBase..(AddrBase + MaxRequests - 1)

ASSUME VpnAssumption ==
  /\ AddrBase \in Nat \ {0}
  /\ MaxRequests \in Nat
  /\ MyAddr \in Nat
  /\ AddrBase < MyAddr
  /\ Destinations \subseteq Nat \ {0}
  /\ Header \in Nat \ ({0, MyAddr} \cup Assigned \cup Destinations)
  /\ None \notin Clients
  /\ Faulty \in BOOLEAN

VARIABLES
  \* server
  client_num,
  client_addr,  \* virtual address -> client
  tun,          \* destinations of the packets waiting at the server's tun0
  tunReady,     \* does the round go on with tun0?
  \* clients
  phase,        \* "start", "wait" for the address, "up", "dead"
  virtual_ip,   \* 0 before the answer
  buffer,       \* the destination found in the client's buffer
  \* network
  toServer,
  toClient

serverVars == <<client_num, client_addr, tun, tunReady>>
clientVars == <<phase, virtual_ip, buffer>>
vars == <<serverVars, clientVars, toServer, toClient>>

Request(c)   == [kind |-> "address", from |-> c]
Upward(c, a) == [kind |-> "packet", from |-> c, dst |-> a]

\* Mutant: the request is sent back as it came.
Answer_Unfilled(c, a) == [kind |-> "address", to |-> c, ip |-> 0]

Answer(c, a)   == [kind |-> "address", to |-> c, ip |-> a]
Downward(c, a) == [kind |-> "packet", to |-> c, ip |-> a]

\* The datagrams there are.
ToServer == [kind : {"address"}, from : Clients]
            \cup [kind : {"packet"}, from : Clients, dst : Destinations]

ToClient == [kind : {"address", "packet"}, to : Clients, ip : Assigned]

\* A datagram is received; another copy of it may be on its way.
Taken(channel, datagram) ==
  {channel \ {datagram}} \cup (IF Faulty THEN {channel} ELSE {})

\* Bound: packets are sent only while there are few in flight.
FewPackets(channel) ==
  Cardinality({d \in channel : d.kind = "packet"}) < MaxInFlight

-----------------------------------------------------------------------------
(* Server *)

\* recvfrom in a round of the loop.
Received(d) ==
  /\ ~tunReady
  /\ d \in toServer
  /\ toServer' \in Taken(toServer, d)

\* Mutant: a client that is in the table is not entered again.
Entered_Once(ip, c) ==
  IF \E a \in DOMAIN client_addr : client_addr[a] = c
  THEN client_addr
  ELSE [a \in DOMAIN client_addr \cup {ip} |-> IF a = ip THEN c ELSE client_addr[a]]

\* The table with one entry more.
Entered(ip, c) ==
  [a \in DOMAIN client_addr \cup {ip} |-> IF a = ip THEN c ELSE client_addr[a]]

\* Mutant: the counter counts the clients in the table.
NextNum_InUse == Cardinality({client_addr'[a] : a \in DOMAIN client_addr'})

NextNum == client_num + 1

\* Every request is given the next address, whoever sends it; the round ends.
Assign(d) ==
  /\ Received(d)
  /\ d.kind = "address"
  /\ client_num < MaxRequests
  /\ toClient' = toClient \cup {Answer(d.from, AddrBase + client_num)}
  /\ client_addr' = Entered(AddrBase + client_num, d.from)
  /\ client_num' = NextNum
  /\ UNCHANGED <<tun, tunReady, clientVars>>

\* A packet for the server itself goes to tun0; the round ends.
Accept(d) ==
  /\ Received(d)
  /\ d.kind = "packet"
  /\ d.dst = MyAddr
  /\ UNCHANGED <<serverVars, clientVars, toClient>>

\* A packet for an address nobody was given; the round ends.
Reject(d) ==
  /\ Received(d)
  /\ d.kind = "packet"
  /\ d.dst \notin DOMAIN client_addr \cup {MyAddr}
  /\ UNCHANGED <<serverVars, clientVars, toClient>>

\* Mutant: the server does not know its own address.
Forward_OwnToo(d) ==
  /\ Received(d)
  /\ d.kind = "packet"
  /\ d.dst \in DOMAIN client_addr
  /\ toClient' = toClient \cup {Downward(client_addr[d.dst], d.dst)}
  /\ tunReady' = (tun # {})
  /\ UNCHANGED <<client_num, client_addr, tun, clientVars>>

\* Mutant: the round ends after a packet that was forwarded, too.
Forward_EndsRound(d) ==
  /\ Received(d)
  /\ d.kind = "packet"
  /\ d.dst \in DOMAIN client_addr \ {MyAddr}
  /\ toClient' = toClient \cup {Downward(client_addr[d.dst], d.dst)}
  /\ UNCHANGED <<serverVars, clientVars>>

\* A packet for a client is forwarded; the round goes on with tun0, if the
\* select of this round found something there.
Forward(d) ==
  /\ Received(d)
  /\ d.kind = "packet"
  /\ d.dst \in DOMAIN client_addr \ {MyAddr}
  /\ toClient' = toClient \cup {Downward(client_addr[d.dst], d.dst)}
  /\ tunReady' = (tun # {})
  /\ UNCHANGED <<client_num, client_addr, tun, clientVars>>

FromSocket(d) == Assign(d) \/ Accept(d) \/ Reject(d) \/ Forward(d)

\* A packet waits at the server's tun0: the socket had nothing in this
\* round, for datagrams take their time, or was served before.
FromTun(a) ==
  /\ a \in tun
  /\ tun' = tun \ {a}
  /\ tunReady' = FALSE
  /\ toClient' = IF a \in DOMAIN client_addr
                 THEN toClient \cup {Downward(client_addr[a], a)}
                 ELSE toClient
  /\ UNCHANGED <<client_num, client_addr, toServer, clientVars>>

\* The kernel of the server sends a packet through tun0.
ServerKernel(a) ==
  /\ a # MyAddr
  /\ FewPackets(toClient)
  /\ tun' = tun \cup {a}
  /\ UNCHANGED <<client_num, client_addr, tunReady, clientVars, toServer,
                 toClient>>

-----------------------------------------------------------------------------
(* Clients *)

\* Mutant: the request is repeated while the client waits.
Ask_Again(c) ==
  /\ phase[c] \in {"start", "wait"}
  /\ phase' = [phase EXCEPT ![c] = "wait"]
  /\ toServer' = toServer \cup {Request(c)}
  /\ UNCHANGED <<serverVars, virtual_ip, buffer, toClient>>

\* Mutant: the client waits for the answer before it asks.
Ask_Later(c) ==
  /\ phase[c] = "start"
  /\ phase' = [phase EXCEPT ![c] = "wait"]
  /\ UNCHANGED <<serverVars, virtual_ip, buffer, toServer, toClient>>

\* The client asks for an address, once.
Ask(c) ==
  /\ phase[c] = "start"
  /\ phase' = [phase EXCEPT ![c] = "wait"]
  /\ toServer' = toServer \cup {Request(c)}
  /\ UNCHANGED <<serverVars, virtual_ip, buffer, toClient>>

\* Without faults the answer, which was sent first, arrives first.
First(d) ==
  Faulty \/ d.kind = "address" \/ \A e \in toClient : e.to = d.to => e.kind # "address"

\* Whatever arrives while the client waits is taken for its address: of an
\* IP packet, the first four bytes of its header.
Configure(c, d) ==
  /\ phase[c] = "wait"
  /\ d \in toClient /\ d.to = c
  /\ First(d)
  /\ toClient' \in Taken(toClient, d)
  /\ phase' = [phase EXCEPT ![c] = "up"]
  /\ virtual_ip' = [virtual_ip EXCEPT ![c] =
                      IF d.kind = "address" THEN d.ip ELSE Header]
  /\ UNCHANGED <<serverVars, buffer, toServer>>

\* A packet goes to tun0 when it is for the client's address, else nowhere.
ReceivePacket(c, d) ==
  /\ phase[c] = "up"
  /\ d \in toClient /\ d.to = c /\ d.kind = "packet"
  /\ toClient' \in Taken(toClient, d)
  /\ buffer' = [buffer EXCEPT ![c] = d.ip]
  /\ UNCHANGED <<serverVars, phase, virtual_ip, toServer>>

\* An answer that comes when the client is up overwrites four bytes of the
\* buffer, and the destination tested is the one of an earlier packet.  If
\* that was for this client, tun0 is given four bytes, refuses them, and the
\* client exits.
ReceiveAnswer(c, d) ==
  /\ phase[c] = "up"
  /\ d \in toClient /\ d.to = c /\ d.kind = "address"
  /\ toClient' \in Taken(toClient, d)
  /\ phase' = [phase EXCEPT ![c] =
                 IF buffer[c] = virtual_ip[c] THEN "dead" ELSE "up"]
  /\ UNCHANGED <<serverVars, virtual_ip, buffer, toServer>>

FromServer(c, d) == Configure(c, d) \/ ReceivePacket(c, d) \/ ReceiveAnswer(c, d)

\* The kernel of the client sends a packet through tun0.
ClientKernel(c, a) ==
  /\ phase[c] = "up"
  /\ virtual_ip[c] \notin {Header, a}
  /\ FewPackets(toServer)
  /\ buffer' = [buffer EXCEPT ![c] = a]
  /\ toServer' = toServer \cup {Upward(c, a)}
  /\ UNCHANGED <<serverVars, phase, virtual_ip, toClient>>

-----------------------------------------------------------------------------
Lose ==
  /\ Faulty
  /\ \/ \E d \in toServer : toServer' = toServer \ {d} /\ UNCHANGED toClient
     \/ \E d \in toClient : toClient' = toClient \ {d} /\ UNCHANGED toServer
  /\ UNCHANGED <<serverVars, clientVars>>

Init ==
  /\ client_num = 0
  /\ client_addr = [a \in {} |-> None]
  /\ tun = {}
  /\ tunReady = FALSE
  /\ phase = [c \in Clients |-> "start"]
  /\ virtual_ip = [c \in Clients |-> 0]
  /\ buffer = [c \in Clients |-> 0]
  /\ toServer = {}
  /\ toClient = {}

Server ==
  \/ \E d \in toServer : FromSocket(d)
  \/ \E a \in tun : FromTun(a)
  \/ \E a \in Destinations : ServerKernel(a)

Client(c) ==
  \/ Ask(c)
  \/ \E d \in toClient : FromServer(c, d)
  \/ \E a \in Destinations : ClientKernel(c, a)

Next == Server \/ (\E c \in Clients : Client(c)) \/ Lose

(***************************************************************************)
(* The processes run.  A queue of the kernel hands out its oldest entry,   *)
(* so a request, or a packet at tun0, is not passed over for ever by later *)
(* ones.  Of the server's tun0 this is granted only when the loop is bound *)
(* to come to it: nothing is on its way to the socket, or the round has    *)
(* reached tun0.                                                           *)
(***************************************************************************)
Fairness ==
  /\ \A c \in Clients : WF_vars(Ask(c))
  /\ \A c \in Clients : SF_vars(FromSocket(Request(c)))
  /\ WF_vars(\E d \in toServer : FromSocket(d))
  /\ \A a \in Destinations :
       SF_vars((tunReady \/ toServer = {}) /\ FromTun(a))
  /\ \A c \in Clients : WF_vars(\E d \in toClient : FromServer(c, d))

Spec == Init /\ [][Next]_vars

FairSpec == Spec /\ Fairness

-----------------------------------------------------------------------------
(* Every variable has its type, and the table holds the assigned addresses. *)
TypeOK ==
  /\ client_num \in 0..MaxRequests
  /\ client_addr \in [AddrBase..(AddrBase + client_num - 1) -> Clients]
  /\ tun \subseteq Destinations
  /\ tunReady \in BOOLEAN
  /\ phase \in [Clients -> {"start", "wait", "up", "dead"}]
  /\ virtual_ip \in [Clients -> Assigned \cup {0, Header}]
  /\ buffer \in [Clients -> Assigned \cup Destinations \cup {0}]
  /\ toServer \subseteq ToServer
  /\ toClient \subseteq ToClient

-----------------------------------------------------------------------------
(* Safety *)

\* The client has an address, not the bytes of a packet that came too early.
HasAddress(c) == virtual_ip[c] \notin {0, Header}

\* What the server forwards for the address of a client goes to this client,
\* however many addresses it was given; so no two clients share an address.
RoutesToHolder ==
  \A c \in Clients : HasAddress(c) =>
    /\ virtual_ip[c] \in DOMAIN client_addr
    /\ client_addr[virtual_ip[c]] = c

\* When the addresses have run into the server's own, what clients send to
\* the server is still not forwarded to the client that was given it.
ServerKeepsItsAddress ==
  \A d \in toClient : d.kind = "packet" => d.ip # MyAddr

\* Without repeated datagrams no client is brought down by an answer.
ClientsSurvive == ~Faulty => \A c \in Clients : phase[c] # "dead"

\* Without faults a client that is up has a real address.
ClientsAddressed ==
  ~Faulty => \A c \in Clients : phase[c] = "up" => HasAddress(c)

-----------------------------------------------------------------------------
(* Liveness *)

\* A client that asks gets an address, on a network without faults.
ClientsComeUp == \A c \in Clients : <>(phase[c] = "up")

\* A packet for a client that waits at the server's tun0 is read, provided
\* that from some time on all the socket delivers is packets to forward: any
\* other datagram ends the round before it comes to tun0.
TunServed ==
  <>[](\A d \in toServer :
         d.kind = "packet" /\ d.dst \in DOMAIN client_addr \ {MyAddr})
    => \A a \in Destinations : a \in tun ~> a \notin tun

-----------------------------------------------------------------------------
(* What the server and its clients implement *)

ThePool == INSTANCE AddressPool WITH
  Clients <- Clients,
  Addresses <- Assigned,
  None <- None,
  owner <- [a \in Assigned |->
              IF a \in DOMAIN client_addr THEN client_addr[a] ELSE None],
  address <- [c \in Clients |-> IF HasAddress(c) THEN virtual_ip[c] ELSE None]

\* Addresses are given and held as module AddressPool says.
PoolImplemented == ThePool!Spec

=============================================================================
