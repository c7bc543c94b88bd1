------------------------- MODULE FileTransferProofs -------------------------
(* Safety of the file transfer, for any files, window and faulty network.  *)
EXTENDS FileTransfer, WellFoundedInduction, TLAPS

\* Min returns a lower bound that belongs to the set.
LEMMA MinProperties ==
  ASSUME NEW S \in SUBSET Nat, S # {}
  PROVE  Min(S) \in S /\ \A n \in S : Min(S) <= n
<1>1. PICK x \in S : \A y \in S : ~ (<<y, x>> \in OpToRel(<, Nat))
  BY NatLessThanWellFounded, WFMin
<1>2. \A y \in S : x =< y
  <2> TAKE y \in S
  <2>1. ~(y < x)
    BY <1>1 DEF OpToRel
  <2> QED
    BY <2>1
<1> QED
  BY <1>2 DEF Min

(***************************************************************************)
(* The life of a file's vector: empty, then as long as the file, then      *)
(* empty again for good.  That it is never given its size a second time is *)
(* what "expanded" is for.                                                 *)
(***************************************************************************)
FileState(f) ==
  IF file_saved[f]
  THEN expanded[f] /\ stored_packet[f] = NotYet /\ disk[f] = PacketNumbers(f)
  ELSE /\ disk[f] = NoFile
       /\ IF expanded[f]
          THEN stored_packet[f] \in [PacketNumbers(f) -> BOOLEAN]
          ELSE stored_packet[f] = NotYet

FilesInv == \A f \in Files : FileState(f)

\* The window starts at a file before which everything is saved, and the
\* entry behind the last file stays unset.
WindowInv ==
  /\ ~file_saved[NFiles]
  /\ \A f \in Files : f < start_file => file_saved[f]

\* FINISH is said, and obeyed, only when every file is saved.
FinishInv ==
  server = "finish" \/ Finish \in acks \/ client = "done" =>
    \A f \in Files : file_saved[f]

Inv == TypeOK /\ FilesInv /\ WindowInv /\ AcksHonest /\ FinishInv

-----------------------------------------------------------------------------
(* The data *)

LEMMA Sizes ==
  /\ NFiles \in Nat \ {0}
  /\ \A f \in Files : /\ f \in Nat /\ f < NFiles
                      /\ TotalPackets[f] \in Nat \ {0}
                      /\ PacketNumbers(f) # {}
<1>1. NFiles \in Nat \ {0}
  BY TransferAssumption
<1>2. SUFFICES ASSUME NEW f \in Files
      PROVE  /\ f \in Nat /\ f < NFiles
             /\ TotalPackets[f] \in Nat \ {0}
             /\ PacketNumbers(f) # {}
  BY <1>1
<1>3. TotalPackets[f] \in 1..20
  BY TransferAssumption DEF MaxPackets
<1>4. 0 \in PacketNumbers(f)
  BY <1>3 DEF PacketNumbers
<1> QED
  BY <1>1, <1>3, <1>4 DEF Files

LEMMA PacketFields ==
  ASSUME NEW pkt \in Packet
  PROVE  pkt.file \in Files /\ pkt.number \in PacketNumbers(pkt.file)
BY DEF Packet

LEMMA AckFields ==
  ASSUME NEW ack \in Ack
  PROVE  /\ ack.file \in Files
         /\ ack.stored \subseteq PacketNumbers(ack.file)
         /\ ack # Finish
BY Sizes DEF Ack, Finish

LEMMA AckType ==
  ASSUME NEW f \in Files, NEW s \in SUBSET PacketNumbers(f)
  PROVE  [file |-> f, stored |-> s] \in Ack
BY DEF Ack

\* A file's vector is empty exactly while it is saved or not yet expanded.
LEMMA VectorType ==
  ASSUME NEW f \in Files, NEW v \in [PacketNumbers(f) -> BOOLEAN]
  PROVE  /\ v \in Vectors
         /\ DOMAIN v = PacketNumbers(f)
         /\ DOMAIN v # {}
         /\ Stored(v) \subseteq PacketNumbers(f)
BY Sizes DEF Vectors, Stored

LEMMA EmptyVector ==
  NotYet \in Vectors /\ DOMAIN NotYet = {} /\ Stored(NotYet) = {}
BY DEF NotYet, Vectors, Stored

LEMMA MissingTyped ==
  ASSUME NEW f \in Files, NEW stored
  PROVE  Missing(f, stored) \subseteq Packet
BY DEF Missing, Packet

LEMMA TakenSubset ==
  ASSUME NEW channel, NEW d, NEW c \in Taken(channel, d)
  PROVE  c \subseteq channel
BY DEF Taken

\* What the acknowledgement of a file reports is what is stored of it.
LEMMA StoredOfFile ==
  ASSUME FilesInv, NEW f \in Files
  PROVE  Stored(stored_packet[f]) \subseteq PacketNumbers(f)
BY VectorType, EmptyVector DEF FilesInv, FileState

-----------------------------------------------------------------------------
(* The window *)

\* The window holds files.
LEMMA WindowInFiles ==
  ASSUME NEW first \in 0..NFiles, NEW last \in 0..NFiles, NEW f \in first..(last - 1)
  PROVE  f \in Files
BY TransferAssumption DEF Files

\* Moving the window and acknowledging it, after a step on the files.
LEMMA WindowMoves ==
  ASSUME TypeOK, WindowInv, AcksHonest, FinishInv,
         AcknowledgeWindow, FilesInv',
         file_saved' \in [0..NFiles -> BOOLEAN],
         ~file_saved'[NFiles],
         \A f \in Files : file_saved[f] => file_saved'[f],
         \A f \in Files : \/ file_saved'[f]
                          \/ Stored(stored_packet[f])
                               \subseteq Stored(stored_packet'[f]),
         client' = client
  PROVE  /\ start_file' \in 0..NFiles
         /\ end_file' \in 0..NFiles
         /\ server' \in {"outer", "finish"}
         /\ acks' \subseteq Ack \cup {Finish}
         /\ WindowInv' /\ AcksHonest' /\ FinishInv'
<1> DEFINE S == {i \in start_file..NFiles : ~file_saved'[i]}
<1> USE Sizes
<1>1. S \in SUBSET Nat /\ NFiles \in S
  BY DEF TypeOK
<1>2. FirstUnsaved \in S /\ \A i \in S : FirstUnsaved <= i
  <2>1. Min(S) \in S /\ \A i \in S : Min(S) <= i
    BY <1>1, MinProperties
  <2> QED
    BY <2>1 DEF FirstUnsaved
<1>3. start_file' = FirstUnsaved /\ end_file' = WindowEnd
  BY DEF AcknowledgeWindow
<1>4. start_file' \in 0..NFiles /\ start_file <= start_file'
  BY <1>2, <1>3 DEF TypeOK
<1>5. /\ end_file' \in 0..NFiles
      /\ start_file' = end_file' => start_file' = NFiles
  BY <1>3, <1>4, TransferAssumption DEF WindowEnd
<1>6. \A f \in Files : f < start_file' => file_saved'[f]
  <2> SUFFICES ASSUME NEW f \in Files, f < start_file' PROVE file_saved'[f]
    OBVIOUS
  <2>1. CASE f < start_file
    BY <2>1 DEF WindowInv
  <2>2. CASE ~(f < start_file)
    <3>1. f \in start_file..NFiles /\ f \notin S
      BY <2>2, <1>2, <1>3, <1>4 DEF TypeOK
    <3> QED
      BY <3>1
  <2> QED
    BY <2>1, <2>2
<1>7. start_file' = end_file' => \A f \in Files : file_saved'[f]
  BY <1>5, <1>6
<1>8. WindowInv'
  BY <1>6 DEF WindowInv
<1> DEFINE New == {AckOf(f) :
                     f \in {g \in start_file'..(end_file' - 1) : ~file_saved'[g]}}
<1>9. \A ack \in New : /\ ack \in Ack
                       /\ ack.stored = Stored(stored_packet'[ack.file])
  <2> SUFFICES ASSUME NEW f \in start_file'..(end_file' - 1)
               PROVE  /\ AckOf(f) \in Ack
                      /\ AckOf(f).stored = Stored(stored_packet'[AckOf(f).file])
    OBVIOUS
  <2>1. f \in Files
    BY <1>4, <1>5, WindowInFiles
  <2>2. Stored(stored_packet'[f]) \subseteq PacketNumbers(f)
    BY <2>1, VectorType, EmptyVector DEF FilesInv, FileState
  <2> QED
    BY <2>1, <2>2, AckType DEF AckOf
<1>10. /\ server' \in {"outer", "finish"}
       /\ acks' \subseteq acks \cup New \cup {Finish}
       /\ server' = "finish" => start_file' = end_file'
       /\ acks' \subseteq acks \cup New \/ start_file' = end_file'
  BY DEF AcknowledgeWindow
<1>11. acks' \subseteq Ack \cup {Finish}
  BY <1>9, <1>10 DEF TypeOK
<1>12. AcksHonest'
  <2> SUFFICES ASSUME NEW ack \in acks', ack # Finish
               PROVE  \/ file_saved'[ack.file]
                      \/ ack.stored \subseteq Stored(stored_packet'[ack.file])
    BY DEF AcksHonest
  <2>1. CASE ack \in New
    BY <2>1, <1>9
  <2>2. CASE ack \in acks
    <3>1. ack \in Ack
      BY <2>2 DEF TypeOK
    <3>2. ack.file \in Files
      BY <3>1, AckFields
    <3>3. \/ file_saved[ack.file]
          \/ ack.stored \subseteq Stored(stored_packet[ack.file])
      BY <2>2 DEF AcksHonest
    <3> QED
      BY <3>2, <3>3
  <2> QED
    BY <2>1, <2>2, <1>10
<1>13. FinishInv'
  <2>1. Finish \notin New
    BY <1>9, AckFields
  <2>2. server' = "finish" \/ Finish \in acks' \/ client' = "done" =>
          start_file' = end_file' \/ Finish \in acks \/ client = "done"
    BY <2>1, <1>10
  <2> QED
    BY <2>2, <1>7 DEF FinishInv
<1> QED
  BY <1>4, <1>5, <1>8, <1>10, <1>11, <1>12, <1>13

-----------------------------------------------------------------------------
(* The invariant *)

LEMMA InitInv == Init => Inv
<1> SUFFICES ASSUME Init PROVE Inv
  OBVIOUS
<1> USE Sizes DEF Init
<1>1. TypeOK
  <2>1. \A f \in Files : stored_packet[f] = NotYet /\ disk[f] = {}
    BY DEF NoFile
  <2>2. stored_packet \in [Files -> Vectors]
    BY EmptyVector
  <2>3. end_file \in 0..NFiles
    BY TransferAssumption
  <2> QED
    BY <2>1, <2>2, <2>3, EmptyVector DEF TypeOK, NoFile
<1>2. FilesInv
  BY DEF FilesInv, FileState, Files
<1>3. WindowInv
  BY DEF WindowInv, Files
<1>4. AcksHonest /\ FinishInv
  BY DEF AcksHonest, FinishInv
<1> QED
  BY <1>1, <1>2, <1>3, <1>4 DEF Inv

\* What Store and Save make of a file's vector, while the file is open.
LEMMA VectorGrows ==
  ASSUME FilesInv, NEW pkt \in Packet, DOMAIN Vector(pkt.file) # {},
         NEW v, v = [Vector(pkt.file) EXCEPT ![pkt.number] = TRUE]
  PROVE  /\ ~file_saved[pkt.file]
         /\ v \in [PacketNumbers(pkt.file) -> BOOLEAN]
         /\ Stored(stored_packet[pkt.file]) \subseteq Stored(v)
<1> DEFINE f == pkt.file
<1>1. f \in Files /\ pkt.number \in PacketNumbers(f)
  BY PacketFields
<1>2. FileState(f)
  BY <1>1 DEF FilesInv
<1>3. ~file_saved[f]
  BY <1>2, EmptyVector DEF FileState, Vector
<1>4. Vector(f) \in [PacketNumbers(f) -> BOOLEAN]
  BY <1>2, <1>3 DEF FileState, Vector
<1>5. v \in [PacketNumbers(f) -> BOOLEAN]
  BY <1>4
<1>6. Stored(stored_packet[f]) \subseteq Stored(v)
  <2>1. CASE expanded[f]
    <3>1. Vector(f) = stored_packet[f]
      BY <2>1 DEF Vector
    <3> QED
      BY <3>1, <1>1, <1>4 DEF Stored
  <2>2. CASE ~expanded[f]
    BY <2>2, <1>2, <1>3, EmptyVector DEF FileState
  <2> QED
    BY <2>1, <2>2
<1> QED
  BY <1>3, <1>5, <1>6

LEMMA StoreInv ==
  ASSUME Inv, NEW pkt \in packets, Store(pkt)
  PROVE  Inv'
<1> DEFINE f == pkt.file
           v == [Vector(f) EXCEPT ![pkt.number] = TRUE]
<1>1. pkt \in Packet /\ f \in Files
  BY PacketFields DEF Inv, TypeOK
<1>2. /\ ~file_saved[f]
      /\ v \in [PacketNumbers(f) -> BOOLEAN]
      /\ Stored(stored_packet[f]) \subseteq Stored(v)
  BY <1>1, VectorGrows DEF Inv, Store
<1>3. /\ stored_packet' = [stored_packet EXCEPT ![f] = v]
      /\ expanded' = [expanded EXCEPT ![f] = TRUE]
      /\ server' = "inner"
      /\ packets' \subseteq packets
      /\ server # "finish"
      /\ UNCHANGED <<file_saved, start_file, end_file, disk, acks, client, next_file,
                   network>>
  BY TakenSubset DEF Store, Complete, Received, clientVars
<1>4. v \in Vectors /\ DOMAIN v = PacketNumbers(f)
  BY <1>1, <1>2, VectorType
<1>5. TypeOK'
  BY <1>1, <1>3, <1>4 DEF Inv, TypeOK
<1>6. FilesInv'
  <2> SUFFICES ASSUME NEW g \in Files PROVE FileState(g)'
    BY DEF FilesInv
  <2>1. FileState(g)
    BY DEF Inv, FilesInv
  <2>2. CASE g = f
    BY <2>1, <2>2, <1>1, <1>2, <1>3 DEF FileState, Inv, TypeOK
  <2>3. CASE g # f
    BY <2>1, <2>3, <1>3 DEF FileState, Inv, TypeOK
  <2> QED
    BY <2>2, <2>3
<1>7. WindowInv' /\ FinishInv'
  BY <1>3 DEF Inv, WindowInv, FinishInv
<1>8. AcksHonest'
  <2> SUFFICES ASSUME NEW ack \in acks, ack # Finish
               PROVE  \/ file_saved[ack.file]
                      \/ ack.stored \subseteq Stored(stored_packet'[ack.file])
    BY <1>3 DEF AcksHonest
  <2>1. ack.file \in Files
    BY AckFields DEF Inv, TypeOK
  <2>2. \/ file_saved[ack.file]
        \/ ack.stored \subseteq Stored(stored_packet[ack.file])
    BY DEF Inv, AcksHonest
  <2>3. Stored(stored_packet[ack.file]) \subseteq Stored(stored_packet'[ack.file])
    BY <2>1, <1>1, <1>2, <1>3 DEF Inv, TypeOK
  <2> QED
    BY <2>2, <2>3
<1> QED
  BY <1>5, <1>6, <1>7, <1>8 DEF Inv

LEMMA SaveInv ==
  ASSUME Inv, NEW pkt \in packets, Save(pkt)
  PROVE  Inv'
<1> DEFINE f == pkt.file
           v == [Vector(f) EXCEPT ![pkt.number] = TRUE]
<1>1. pkt \in Packet /\ f \in Files
  BY PacketFields DEF Inv, TypeOK
<1>2. /\ ~file_saved[f]
      /\ v \in [PacketNumbers(f) -> BOOLEAN]
  BY <1>1, VectorGrows DEF Inv, Save
<1>3. /\ disk' = [disk EXCEPT ![f] = Stored(v)]
      /\ stored_packet' = [stored_packet EXCEPT ![f] = NotYet]
      /\ expanded' = [expanded EXCEPT ![f] = TRUE]
      /\ file_saved' = [file_saved EXCEPT ![f] = TRUE]
      /\ packets' \subseteq packets
      /\ UNCHANGED <<client, next_file, network>>
      /\ AcknowledgeWindow
      /\ Stored(v) = DOMAIN v
  BY TakenSubset DEF Save, Complete, Received, clientVars
<1>4. Stored(v) = PacketNumbers(f)
  BY <1>1, <1>2, <1>3, VectorType
<1>5. /\ file_saved' \in [0..NFiles -> BOOLEAN]
      /\ f \in 0..NFiles /\ f # NFiles
  BY <1>1, <1>3, Sizes DEF Inv, TypeOK
<1>6. FilesInv'
  <2> SUFFICES ASSUME NEW g \in Files PROVE FileState(g)'
    BY DEF FilesInv
  <2>1. FileState(g) /\ g \in 0..NFiles
    BY Sizes DEF Inv, FilesInv
  <2>2. CASE g = f
    <3>1. file_saved'[g] /\ expanded'[g] /\ stored_packet'[g] = NotYet
      BY <2>1, <2>2, <1>3 DEF Inv, TypeOK
    <3>2. disk'[g] = PacketNumbers(g)
      BY <2>2, <1>3, <1>4 DEF Inv, TypeOK
    <3> QED
      BY <3>1, <3>2 DEF FileState
  <2>3. CASE g # f
    BY <2>1, <2>3, <1>3 DEF FileState, Inv, TypeOK
  <2> QED
    BY <2>2, <2>3
<1>7. /\ ~file_saved'[NFiles]
      /\ \A g \in Files : file_saved[g] => file_saved'[g]
      /\ \A g \in Files : \/ file_saved'[g]
                          \/ Stored(stored_packet[g])
                               \subseteq Stored(stored_packet'[g])
  <2>1. \A g \in Files : g \in 0..NFiles /\ NFiles \in 0..NFiles
    BY Sizes
  <2> QED
    BY <2>1, <1>1, <1>3, <1>5 DEF Inv, TypeOK, WindowInv
<1>8. /\ start_file' \in 0..NFiles /\ end_file' \in 0..NFiles
      /\ server' \in {"outer", "finish"}
      /\ acks' \subseteq Ack \cup {Finish}
      /\ WindowInv' /\ AcksHonest' /\ FinishInv'
  BY <1>3, <1>5, <1>6, <1>7, WindowMoves DEF Inv
<1>9. TypeOK'
  <2>1. stored_packet' \in [Files -> Vectors] /\ expanded' \in [Files -> BOOLEAN]
    BY <1>1, <1>3, EmptyVector DEF Inv, TypeOK
  <2>2. \A g \in Files : DOMAIN stored_packet'[g] \in {{}, PacketNumbers(g)}
    BY <1>1, <1>3, EmptyVector DEF Inv, TypeOK
  <2>3. \A g \in Files : disk'[g] \subseteq PacketNumbers(g)
    BY <1>6 DEF FilesInv, FileState, NoFile
  <2>4. Stored(v) \in SUBSET Nat
    BY <1>4 DEF PacketNumbers
  <2>5. disk' \in [Files -> SUBSET Nat]
    BY <2>4, <1>1, <1>3 DEF Inv, TypeOK
  <2> QED
    BY <2>1, <2>2, <2>3, <2>5, <1>3, <1>5, <1>8 DEF Inv, TypeOK
<1> QED
  BY <1>6, <1>8, <1>9 DEF Inv

\* The steps that leave the files alone and acknowledge the window.
LEMMA AcknowledgeInv ==
  ASSUME Inv, AcknowledgeWindow, packets' \subseteq packets,
         UNCHANGED <<stored_packet, expanded, file_saved, disk, client, next_file,
                     network>>
  PROVE  Inv'
<1>1. FilesInv'
  BY DEF Inv, FilesInv, FileState
<1>2. /\ file_saved' \in [0..NFiles -> BOOLEAN]
      /\ ~file_saved'[NFiles]
      /\ \A f \in Files : file_saved[f] => file_saved'[f]
      /\ \A f \in Files : \/ file_saved'[f]
                          \/ Stored(stored_packet[f])
                               \subseteq Stored(stored_packet'[f])
      /\ client' = client
  BY DEF Inv, TypeOK, WindowInv
<1>3. /\ start_file' \in 0..NFiles /\ end_file' \in 0..NFiles
      /\ server' \in {"outer", "finish"}
      /\ acks' \subseteq Ack \cup {Finish}
      /\ WindowInv' /\ AcksHonest' /\ FinishInv'
  BY <1>1, <1>2, WindowMoves DEF Inv
<1>4. TypeOK'
  BY <1>3 DEF Inv, TypeOK
<1> QED
  BY <1>1, <1>3, <1>4 DEF Inv

\* The steps that leave the server alone.
LEMMA OthersInv ==
  ASSUME Inv, UNCHANGED serverVars,
         packets' \subseteq Packet,
         acks' \subseteq acks \/ (acks' = acks \cup {Finish} /\ server = "finish"),
         client' \in {"init", "await", "done"}, next_file' \in 0..NFiles,
         network' \in {"intact", "lossy"},
         client' = "done" => client = "done" \/ Finish \in acks
  PROVE  Inv'
<1>1. TypeOK'
  BY DEF Inv, TypeOK, serverVars
<1>2. FilesInv' /\ WindowInv'
  BY DEF Inv, FilesInv, FileState, WindowInv, serverVars
<1>3. AcksHonest'
  BY DEF Inv, AcksHonest, serverVars
<1>4. FinishInv'
  BY DEF Inv, FinishInv, serverVars
<1> QED
  BY <1>1, <1>2, <1>3, <1>4 DEF Inv

\* next_file stays below the number of files init_send sends.
CursorInv == client = "init" => next_file \in 0..(InitSend - 1)

LEMMA CursorInit == Init => CursorInv
BY TransferAssumption DEF Init, CursorInv

LEMMA CursorNext == CursorInv /\ [Next]_vars => CursorInv'
<1> SUFFICES ASSUME CursorInv, [Next]_vars PROVE CursorInv'
  OBVIOUS
<1>1. CASE InitSendFile
  <2>1. next_file \in 0..(InitSend - 1) /\ next_file' = next_file + 1
    BY <1>1 DEF InitSendFile, CursorInv
  <2>2. client' = "init" => next_file + 1 # InitSend
    BY <1>1 DEF InitSendFile
  <2> QED
    BY <2>1, <2>2, TransferAssumption DEF CursorInv
<1>2. ASSUME NEW ack \in acks, GetAck(ack) PROVE CursorInv'
  BY <1>2 DEF GetAck, CursorInv
<1>3. ASSUME UNCHANGED clientVars PROVE CursorInv'
  BY <1>3 DEF CursorInv, clientVars
<1>4. Server \/ Lose \/ UNCHANGED vars => UNCHANGED clientVars
  BY DEF Server, Store, Save, Late, Damaged, InnerTimeout, SendFinish, Lose, vars
<1> QED
  BY <1>1, <1>2, <1>3, <1>4 DEF Next, Client

LEMMA NextInv == Inv /\ CursorInv /\ [Next]_vars => Inv'
<1> SUFFICES ASSUME Inv, CursorInv, [Next]_vars PROVE Inv'
  OBVIOUS
<1>1. ASSUME NEW pkt \in packets, Store(pkt) PROVE Inv'
  BY <1>1, StoreInv
<1>2. ASSUME NEW pkt \in packets, Save(pkt) PROVE Inv'
  BY <1>2, SaveInv
<1>3. ASSUME NEW pkt \in packets, Late(pkt) PROVE Inv'
  BY <1>3, AcknowledgeInv, TakenSubset DEF Late, Received, clientVars
<1>4. ASSUME NEW pkt \in packets, Damaged(pkt) PROVE Inv'
  BY <1>4, AcknowledgeInv, TakenSubset DEF Damaged, Received, clientVars
<1>5. CASE InnerTimeout
  BY <1>5, AcknowledgeInv DEF InnerTimeout, clientVars
<1>6. CASE SendFinish
  BY <1>6, OthersInv DEF SendFinish, Inv, TypeOK, clientVars
<1>7. CASE InitSendFile
  <2>1. PICK stored \in InitBitmaps :
          packets' = packets \cup Missing(next_file, stored)
    BY <1>7 DEF InitSendFile
  <2>2. next_file \in Files /\ next_file + 1 \in 0..NFiles
    BY <1>7, TransferAssumption DEF InitSendFile, CursorInv, Files
  <2>3. packets' \subseteq Packet
    BY <2>1, <2>2, MissingTyped DEF Inv, TypeOK
  <2> QED
    BY <1>7, <2>2, <2>3, OthersInv DEF InitSendFile, Inv, TypeOK
<1>8. ASSUME NEW ack \in acks, GetAck(ack) PROVE Inv'
  <2>1. packets' \subseteq Packet
    <3>1. CASE ack = Finish
      BY <1>8, <3>1 DEF GetAck, Inv, TypeOK
    <3>2. CASE ack # Finish
      BY <1>8, <3>2, AckFields, MissingTyped DEF GetAck, Inv, TypeOK
    <3> QED
      BY <3>1, <3>2
  <2>2. acks' \subseteq acks
    BY <1>8, TakenSubset DEF GetAck
  <2> QED
    BY <1>8, <2>1, <2>2, OthersInv DEF GetAck, Inv, TypeOK
<1>9. CASE Lose
  BY <1>9, OthersInv DEF Lose, clientVars, Inv, TypeOK
<1>10. CASE UNCHANGED vars
  BY <1>10, OthersInv DEF vars, clientVars, Inv, TypeOK
<1> QED
  BY <1>1, <1>2, <1>3, <1>4, <1>5, <1>6, <1>7, <1>8, <1>9, <1>10
  DEF Next, Server, Client

LEMMA Invariance == Spec => [](Inv /\ CursorInv)
<1>1. Inv /\ CursorInv /\ [Next]_vars => (Inv /\ CursorInv)'
  BY NextInv, CursorNext
<1> QED
  BY InitInv, CursorInit, <1>1, PTL DEF Spec

-----------------------------------------------------------------------------
(* The theorems *)

\* Every variable keeps its type, for every number and size of files.
THEOREM TransferTypes == Spec => []TypeOK
BY Invariance, PTL DEF Inv

\* A file that counts as saved is on disk with all of its packets, whatever
\* the network loses, repeats, delays or damages.
THEOREM FilesComplete == Spec => []SavedComplete
<1>1. Inv => SavedComplete
  BY DEF Inv, FilesInv, FileState, SavedComplete, OnDisk
<1> QED
  BY Invariance, <1>1, PTL

\* No acknowledgement in flight, however old, names a packet the server
\* lacks.
THEOREM AcknowledgementsHonest == Spec => []AcksHonest
<1>1. Inv => AcksHonest
  BY DEF Inv
<1> QED
  BY Invariance, <1>1, PTL

\* The client stops only when every file is on disk.
THEOREM FinishIsSafe == Spec => []FinishMeansAll
<1>1. Inv => FinishMeansAll
  BY DEF Inv, FinishInv, FilesInv, FileState, FinishMeansAll, OnDisk
<1> QED
  BY Invariance, <1>1, PTL

\* What a step does to one file: nothing, a packet is stored while the file
\* is open, or the open file is saved.
LEMMA FileStep ==
  ASSUME Inv, Next, NEW f \in Files
  PROVE  \/ /\ stored_packet'[f] = stored_packet[f]
            /\ file_saved'[f] = file_saved[f]
            /\ disk'[f] = disk[f]
         \/ /\ ~file_saved[f] /\ file_saved'[f] = file_saved[f]
            /\ disk'[f] = disk[f]
            /\ Stored(stored_packet[f]) \subseteq Stored(stored_packet'[f])
         \/ /\ ~file_saved[f] /\ file_saved'[f]
            /\ disk[f] = NoFile /\ disk'[f] = PacketNumbers(f)
            /\ \A g \in Files \ {f} : disk'[g] = disk[g]
            /\ client' = client
<1>1. ASSUME NEW pkt \in packets, Store(pkt) \/ Save(pkt), pkt.file # f
      PROVE  /\ stored_packet'[f] = stored_packet[f]
             /\ file_saved'[f] = file_saved[f]
             /\ disk'[f] = disk[f]
  <2>1. f \in 0..NFiles
    BY Sizes
  <2> QED
    BY <1>1, <2>1 DEF Store, Save, Inv, TypeOK
<1>2. ASSUME NEW pkt \in packets, Store(pkt), pkt.file = f
      PROVE  /\ ~file_saved[f] /\ file_saved'[f] = file_saved[f]
             /\ disk'[f] = disk[f]
             /\ Stored(stored_packet[f]) \subseteq Stored(stored_packet'[f])
  <2> DEFINE v == [Vector(f) EXCEPT ![pkt.number] = TRUE]
  <2>1. pkt \in Packet
    BY DEF Inv, TypeOK
  <2>2. ~file_saved[f] /\ Stored(stored_packet[f]) \subseteq Stored(v)
    BY <1>2, <2>1, VectorGrows DEF Store, Inv
  <2>3. stored_packet'[f] = v
    BY <1>2 DEF Store, Inv, TypeOK
  <2> QED
    BY <1>2, <2>2, <2>3 DEF Store
<1>3. ASSUME NEW pkt \in packets, Save(pkt), pkt.file = f
      PROVE  /\ ~file_saved[f] /\ file_saved'[f]
             /\ disk[f] = NoFile /\ disk'[f] = PacketNumbers(f)
             /\ \A g \in Files \ {f} : disk'[g] = disk[g]
             /\ client' = client
  <2> DEFINE v == [Vector(f) EXCEPT ![pkt.number] = TRUE]
  <2>1. pkt \in Packet
    BY DEF Inv, TypeOK
  <2>2. ~file_saved[f] /\ v \in [PacketNumbers(f) -> BOOLEAN]
    BY <1>3, <2>1, VectorGrows DEF Save, Inv
  <2>3. disk[f] = NoFile
    BY <2>2 DEF Inv, FilesInv, FileState
  <2>4. Stored(v) = DOMAIN v /\ disk' = [disk EXCEPT ![f] = Stored(v)]
    BY <1>3 DEF Save, Complete
  <2>5. disk'[f] = PacketNumbers(f) /\ \A g \in Files \ {f} : disk'[g] = disk[g]
    BY <2>2, <2>4, VectorType DEF Inv, TypeOK
  <2>6. file_saved'[f] /\ client' = client
    <3>1. f \in 0..NFiles
      BY Sizes
    <3> QED
      BY <3>1, <1>3 DEF Save, clientVars, Inv, TypeOK
  <2> QED
    BY <2>2, <2>3, <2>5, <2>6
<1>4. CASE \/ \E pkt \in packets : Late(pkt) \/ Damaged(pkt)
           \/ InnerTimeout \/ SendFinish \/ Client \/ Lose
  BY <1>4 DEF Late, Damaged, InnerTimeout, SendFinish, Client, InitSendFile,
     GetAck, Lose, serverVars
<1> QED
  BY <1>1, <1>2, <1>3, <1>4 DEF Next, Server

\* A stored packet stays stored until its file is saved, and a saved file is
\* not touched again, although its vector is empty as it was at the start.
THEOREM StorageIsForGood == Spec => StoredForGood
<1>1. ASSUME Inv, Next, NEW f \in Files
      PROVE  IF file_saved[f]
             THEN /\ file_saved'[f]
                  /\ disk'[f] = disk[f]
                  /\ stored_packet'[f] = NotYet
             ELSE \/ file_saved'[f]
                  \/ Stored(stored_packet[f]) \subseteq Stored(stored_packet'[f])
  <2>1. FileState(f)
    BY <1>1 DEF Inv, FilesInv
  <2> QED
    BY <1>1, <2>1, FileStep DEF FileState
<1>2. Inv /\ [Next]_vars =>
        [\A f \in Files :
           IF file_saved[f]
           THEN /\ file_saved'[f]
                /\ disk'[f] = disk[f]
                /\ stored_packet'[f] = NotYet
           ELSE \/ file_saved'[f]
                \/ Stored(stored_packet[f]) \subseteq Stored(stored_packet'[f])]_vars
  BY <1>1
<1> QED
  BY Invariance, <1>2, PTL DEF Spec, StoredForGood

-----------------------------------------------------------------------------
(* Refinement *)

\* The two programs implement Transfer: files arrive one at a time, each
\* once, and the client stops when it has sent them all.
THEOREM ImplementsTransfer == Spec => TransferImplemented
<1>1. Init => TheTransfer!Init
  <2> SUFFICES ASSUME Init PROVE TheTransfer!Init
    OBVIOUS
  <2>1. \A f \in Files : ~OnDisk(f)
    BY Sizes DEF Init, OnDisk, NoFile
  <2>2. client # "done"
    BY DEF Init
  <2> QED
    BY <2>1, <2>2 DEF TheTransfer!Init
<1>2. ASSUME Inv, [Next]_vars PROVE [TheTransfer!Next]_TheTransfer!vars
  <2> DEFINE D == {f \in Files : OnDisk(f)}
             fin == client = "done"
  <2>1. CASE UNCHANGED <<disk, client>>
    <3>1. D' = D /\ fin' = fin
      BY <2>1 DEF OnDisk
    <3> QED
      BY <3>1 DEF TheTransfer!vars
  <2>2. ASSUME NEW f \in Files, Next, disk'[f] # disk[f]
        PROVE  TheTransfer!Next
    <3>1. /\ disk[f] = NoFile /\ disk'[f] = PacketNumbers(f)
          /\ \A g \in Files \ {f} : disk'[g] = disk[g]
          /\ client' = client
      BY <1>2, <2>2, FileStep
    <3>2. f \in Files \ D
      BY <3>1, Sizes DEF OnDisk, NoFile
    <3>3. D' = D \cup {f}
      BY <3>1 DEF OnDisk
    <3>4. fin' = fin
      BY <3>1
    <3> QED
      BY <3>2, <3>3, <3>4 DEF TheTransfer!Next, TheTransfer!Deliver
  <2>3. CASE disk' = disk /\ client' # client
    <3>1. \/ InitSendFile
          \/ \E ack \in acks : GetAck(ack)
      BY <1>2, <2>3 DEF Next, Server, Client, Store, Save, Late, Damaged,
         InnerTimeout, SendFinish, Lose, vars, clientVars
    <3>2. CASE InitSendFile
      <4>1. D' = D /\ fin' = fin
        BY <2>3, <3>2 DEF OnDisk, InitSendFile
      <4> QED
        BY <4>1 DEF TheTransfer!vars
    <3>3. CASE \E ack \in acks : GetAck(ack)
      <4>1. Finish \in acks /\ client = "await" /\ client' = "done"
        BY <2>3, <3>3 DEF GetAck
      <4>2. D = Files
        BY <1>2, <4>1 DEF Inv, FinishInv, FilesInv, FileState, OnDisk
      <4>3. D' = D
        BY <2>3 DEF OnDisk
      <4> QED
        BY <4>1, <4>2, <4>3 DEF TheTransfer!Next, TheTransfer!Stop
    <3> QED
      BY <3>1, <3>2, <3>3
  <2>4. \/ Next
        \/ UNCHANGED vars
    BY <1>2
  <2>5. disk' = disk \/ \E f \in Files : disk'[f] # disk[f]
    <3>1. disk \in [Files -> SUBSET Nat]
      BY <1>2 DEF Inv, TypeOK
    <3>2. disk' = [f \in Files |-> disk'[f]]
      BY <3>1, <1>2 DEF Next, Server, Client, Store, Save, Late, Damaged,
         InnerTimeout, SendFinish, Lose, vars, serverVars, InitSendFile, GetAck
    <3> QED
      BY <3>1, <3>2
  <2> QED
    BY <2>1, <2>2, <2>3, <2>4, <2>5 DEF vars, serverVars
<1> QED
  BY Invariance, <1>1, <1>2, PTL DEF Spec, TransferImplemented, TheTransfer!Spec
=============================================================================
