---------------------------- MODULE FileTransfer ----------------------------
(***************************************************************************)
(* The file transfer over UDP of Lab6: client.cpp sends the packets of     *)
(* numbered files, server.cpp stores them, acknowledges the files of a     *)
(* window by bitmaps of stored packets, and writes a file to disk when all *)
(* of its packets are there.                                               *)
(*                                                                         *)
(* The network is two sets of datagrams.  A datagram in flight may be      *)
(* received at any time and in any order, lost or received more than once, *)
(* and the data of a packet may be damaged; acknowledgements are not.      *)
(* Since a datagram may be delayed for as long as one likes, the sends of  *)
(* one loop (send_file, the acknowledgements of a window) are one step.    *)
(***************************************************************************)
EXTENDS Integers, FiniteSets, FiniteSetsExt

CONSTANTS
  NFiles,        \* the number of files, 1000 in the code
  TotalPackets,  \* the number of packets of each file
  Window,        \* INITIAL_WIN_SIZE
  InitSend,      \* CLI_INIT_SEND
  InitBitmaps    \* what the uninitialised bitmap of init_send may hold

MaxPackets == 20  \* MAX_PACKETS, the length of an acknowledgement's bitmap

Files == 0..(NFiles - 1)

ASSUME TransferAssumption ==
  /\ NFiles \in Nat \ {0}
  /\ TotalPackets \in [Files -> 1..MaxPackets]
  /\ Window \in 1..NFiles
  /\ InitSend \in 1..NFiles
  /\ InitBitmaps \subseteq SUBSET Nat

VARIABLES
  \* server
  stored_packet,  \* per file: packet number -> stored?, empty before and after
  expanded,       \* per file: was stored_packet given its size?
  file_saved,     \* one entry more than there are files
  start_file,
  end_file,
  disk,           \* per file: the packets written to it
  server,         \* "outer" or "inner" receive, or "finish"
  \* client
  client,         \* "init", "await" an acknowledgement, or "done"
  next_file,      \* the file init_send has reached
  \* network
  packets,
  acks,
  network         \* history: "intact", or "lossy" once a datagram was lost

serverVars == <<stored_packet, expanded, file_saved, start_file, end_file,
                disk, server>>
clientVars == <<client, next_file>>
vars == <<serverVars, clientVars, packets, acks, network>>

PacketNumbers(f) == 0..(TotalPackets[f] - 1)

Packet == UNION {[file : {f}, number : PacketNumbers(f)] : f \in Files}

\* An acknowledgement: the set of packet numbers whose bit is TRUE.  Bits
\* beyond the packets of the file, which the server reads past the end of
\* its vector, are left out: the client never looks at them.
Ack == UNION {[file : {f}, stored : SUBSET PacketNumbers(f)] : f \in Files}

\* The number FINISH in place of a file.
Finish == [file |-> NFiles, stored |-> {}]

NotYet   == [p \in {} |-> FALSE]  \* an empty vector
NoFile   == {}                    \* a file removed at the start

-----------------------------------------------------------------------------
(* Server *)

Stored(vector) == {p \in DOMAIN vector : vector[p]}

\* Mutant: the acknowledgement is one packet ahead.
AckOf_Ahead(f) ==
  [file |-> f,
   stored |-> {p \in PacketNumbers(f) : p + 1 \in Stored(stored_packet'[f])}]

AckOf(f) == [file |-> f, stored |-> Stored(stored_packet'[f])]

\* Mutant: the window starts behind the last file that was saved.
FirstUnsaved_AfterLast ==
  IF \E i \in Files : file_saved'[i]
  THEN 1 + Max({i \in Files : file_saved'[i]})
  ELSE 0

\* The entry behind the last file is never set, so there is always one.
FirstUnsaved == Min({i \in start_file..NFiles : ~file_saved'[i]})

WindowEnd ==
  IF FirstUnsaved + Window >= NFiles THEN NFiles ELSE FirstUnsaved + Window

(***************************************************************************)
(* The inner loop is left: the window moves to the first file that is not  *)
(* saved, and every unsaved file in it is acknowledged.  An empty window   *)
(* means that all is saved.                                                *)
(***************************************************************************)
AcknowledgeWindow ==
  /\ start_file' = FirstUnsaved
  /\ end_file' = WindowEnd
  /\ IF start_file' = end_file'
     THEN server' = "finish" /\ acks' = acks \cup {Finish}
     ELSE /\ server' = "outer"
          /\ acks' = acks \cup {AckOf(f) :
               f \in {g \in start_file'..(end_file' - 1) : ~file_saved'[g]}}

\* A datagram is received; another copy of it may be on its way.
Taken(channel, datagram) == {channel, channel \ {datagram}}

\* recvfrom, in the outer or the inner loop, returns a packet.
Received(pkt) ==
  /\ server \in {"outer", "inner"}
  /\ pkt \in packets
  /\ packets' \in Taken(packets, pkt)

\* Mutant: a vector that is empty is given its size again.
Vector_Reopened(f) ==
  IF DOMAIN stored_packet[f] = {}
  THEN [p \in PacketNumbers(f) |-> FALSE]
  ELSE stored_packet[f]

\* The vector of a file, given its size when its first packet arrives.
Vector(f) ==
  IF expanded[f] THEN stored_packet[f] ELSE [p \in PacketNumbers(f) |-> FALSE]

\* Mutant: the last packet of a file is not waited for.
Complete_LastMissing(vector) ==
  {p \in DOMAIN vector : p + 1 \in DOMAIN vector} \subseteq Stored(vector)

\* Every packet of the file is stored.
Complete(vector) == Stored(vector) = DOMAIN vector

\* The packet is stored; the inner loop waits for another one.
Store(pkt) ==
  LET f      == pkt.file
      vector == [Vector(f) EXCEPT ![pkt.number] = TRUE]
  IN  /\ Received(pkt)
      /\ DOMAIN Vector(f) # {}
      /\ ~Complete(vector)
      /\ stored_packet' = [stored_packet EXCEPT ![f] = vector]
      /\ expanded' = [expanded EXCEPT ![f] = TRUE]
      /\ server' = "inner"
      /\ UNCHANGED <<file_saved, start_file, end_file, disk, acks, network,
                     clientVars>>

\* The packet was the last one missing: the file is written, its vector
\* cleared.
Save(pkt) ==
  LET f      == pkt.file
      vector == [Vector(f) EXCEPT ![pkt.number] = TRUE]
  IN  /\ Received(pkt)
      /\ DOMAIN Vector(f) # {}
      /\ Complete(vector)
      /\ disk' = [disk EXCEPT ![f] = Stored(vector)]
      /\ stored_packet' = [stored_packet EXCEPT ![f] = NotYet]
      /\ expanded' = [expanded EXCEPT ![f] = TRUE]
      /\ file_saved' = [file_saved EXCEPT ![f] = TRUE]
      /\ AcknowledgeWindow
      /\ UNCHANGED <<network, clientVars>>

\* A packet of a file that was saved before.
Late(pkt) ==
  /\ Received(pkt)
  /\ DOMAIN Vector(pkt.file) = {}
  /\ UNCHANGED <<stored_packet, expanded, file_saved, disk, network,
                 clientVars>>
  /\ AcknowledgeWindow

\* The checksum does not match.
Damaged(pkt) ==
  /\ Received(pkt)
  /\ UNCHANGED <<stored_packet, expanded, file_saved, disk, network,
                 clientVars>>
  /\ AcknowledgeWindow

\* No packet within SRV_TIMEOUT.  (In the outer loop a timeout does nothing.)
InnerTimeout ==
  /\ server = "inner"
  /\ UNCHANGED <<stored_packet, expanded, file_saved, disk, packets, network,
                 clientVars>>
  /\ AcknowledgeWindow

\* All is saved: FINISH is sent for ever and nothing is received any more.
SendFinish ==
  /\ server = "finish"
  /\ acks' = acks \cup {Finish}
  /\ UNCHANGED <<serverVars, clientVars, packets, network>>

Server ==
  \/ \E pkt \in packets : Store(pkt) \/ Save(pkt) \/ Late(pkt) \/ Damaged(pkt)
  \/ InnerTimeout
  \/ SendFinish

-----------------------------------------------------------------------------
(* Client *)

\* Mutant: the size of the file divided by PACKET_SIZE, without the rest.
Missing_RoundedDown(f, stored) ==
  {[file |-> f, number |-> p] :
     p \in PacketNumbers(f) \ (stored \cup {TotalPackets[f] - 1})}

\* send_file: the packets of a file that are not acknowledged.
Missing(f, stored) ==
  {[file |-> f, number |-> p] : p \in PacketNumbers(f) \ stored}

\* init_send: the first files, each with the bitmap nobody initialised.
InitSendFile ==
  /\ client = "init"
  /\ \E stored \in InitBitmaps :
       packets' = packets \cup Missing(next_file, stored)
  /\ next_file' = next_file + 1
  /\ client' = IF next_file + 1 = InitSend THEN "await" ELSE "init"
  /\ UNCHANGED <<serverVars, acks, network>>

\* getAck returned an acknowledgement.
GetAck(ack) ==
  /\ client = "await"
  /\ ack \in acks
  /\ acks' \in Taken(acks, ack)
  /\ \/ /\ ack = Finish
        /\ client' = "done"
        /\ UNCHANGED packets
     \/ /\ ack # Finish
        /\ packets' = packets \cup Missing(ack.file, ack.stored)
        /\ UNCHANGED client
  /\ UNCHANGED <<serverVars, next_file, network>>

Client == InitSendFile \/ \E ack \in acks : GetAck(ack)

-----------------------------------------------------------------------------
(* Network *)

Lose ==
  /\ \/ \E pkt \in packets : packets' = packets \ {pkt} /\ UNCHANGED acks
     \/ \E ack \in acks : acks' = acks \ {ack} /\ UNCHANGED packets
  /\ network' = "lossy"
  /\ UNCHANGED <<serverVars, clientVars>>

-----------------------------------------------------------------------------
Init ==
  /\ stored_packet = [f \in Files |-> NotYet]
  /\ expanded = [f \in Files |-> FALSE]
  /\ file_saved = [i \in 0..NFiles |-> FALSE]
  /\ start_file = 0
  /\ end_file = Window
  /\ disk = [f \in Files |-> NoFile]
  /\ server = "outer"
  /\ client = "init"
  /\ next_file = 0
  /\ packets = {}
  /\ acks = {}
  /\ network = "intact"

Next == Server \/ Client \/ Lose

(***************************************************************************)
(* Both programs run, a datagram that stays in flight is received at last  *)
(* (the receiver comes back to recvfrom, the socket hands out datagrams in *)
(* their order), and the inner receive times out when nothing is coming.   *)
(***************************************************************************)
Fairness ==
  /\ \A pkt \in Packet : WF_vars(Store(pkt) \/ Save(pkt) \/ Late(pkt))
  /\ \A ack \in Ack \cup {Finish} : WF_vars(GetAck(ack))
  /\ WF_vars(packets = {} /\ InnerTimeout)
  /\ WF_vars(InitSendFile)

Spec == Init /\ [][Next]_vars

FairSpec == Spec /\ Fairness

-----------------------------------------------------------------------------
(* Types *)

Vectors == {NotYet} \cup UNION {[PacketNumbers(f) -> BOOLEAN] : f \in Files}

\* Every variable has its type; a vector is empty or has the file's size.
TypeOK ==
  /\ stored_packet \in [Files -> Vectors]
  /\ \A f \in Files : DOMAIN stored_packet[f] \in {{}, PacketNumbers(f)}
  /\ expanded \in [Files -> BOOLEAN]
  /\ file_saved \in [0..NFiles -> BOOLEAN]
  /\ start_file \in 0..NFiles
  /\ end_file \in 0..NFiles
  /\ disk \in [Files -> SUBSET Nat]
  /\ \A f \in Files : disk[f] \subseteq PacketNumbers(f)
  /\ server \in {"outer", "inner", "finish"}
  /\ client \in {"init", "await", "done"}
  /\ next_file \in 0..NFiles
  /\ packets \subseteq Packet
  /\ acks \subseteq Ack \cup {Finish}
  /\ network \in {"intact", "lossy"}

-----------------------------------------------------------------------------
(* Safety *)

OnDisk(f) == disk[f] = PacketNumbers(f)

\* A file counts as saved exactly when all of its packets are on disk; an
\* unsaved file is not on disk at all.
SavedComplete ==
  \A f \in Files : IF file_saved[f] THEN OnDisk(f) ELSE disk[f] = NoFile

\* However late an acknowledgement arrives, a packet it lets the client
\* skip is one the server has.
AcksHonest ==
  \A ack \in acks \ {Finish} :
    \/ file_saved[ack.file]
    \/ ack.stored \subseteq Stored(stored_packet[ack.file])

\* FINISH is said, and the client ends, only when every file is on disk.
FinishMeansAll ==
  server = "finish" \/ Finish \in acks \/ client = "done" =>
    \A f \in Files : OnDisk(f)

\* A packet that was stored stays stored until its file is saved, and a
\* file that was saved is not touched again, whatever arrives late.
StoredForGood ==
  [][\A f \in Files :
       IF file_saved[f]
       THEN /\ file_saved'[f]
            /\ disk'[f] = disk[f]
            /\ stored_packet'[f] = NotYet
       ELSE \/ file_saved'[f]
            \/ Stored(stored_packet[f]) \subseteq Stored(stored_packet'[f])]_vars

-----------------------------------------------------------------------------
(* Liveness *)

\* A packet that is damaged, or a datagram of which another copy stays.
Disturbed ==
  \/ \E pkt \in packets : Damaged(pkt) \/ (Received(pkt) /\ pkt \in packets')
  \/ \E ack \in acks : GetAck(ack) /\ ack \in acks'

\* On a network that loses nothing, and damages packets and repeats datagrams
\* only for a while, the client ends, unless the uninitialised bitmap kept it
\* from ever sending anything.
Completes ==
  <>[][~Disturbed]_vars =>
    <>(client = "done" \/ network = "lossy") \/ [](packets = {})

\* What header.hpp says of INIT_RETRY: the server sends an initial
\* acknowledgement, so when the client has come to wait for one, one is sent
\* although nothing of the client's may have arrived.
InitAckSent == <>(client = "await") => <>(acks # {})

-----------------------------------------------------------------------------
(* What the pair of programs implements *)

TheTransfer == INSTANCE Transfer WITH
  Files <- Files,
  delivered <- {f \in Files : OnDisk(f)},
  finished <- client = "done"

\* The two programs together follow the promises of Transfer.
TransferImplemented == TheTransfer!Spec

=============================================================================
