--------------------------- MODULE ChatLoopProofs ---------------------------
(***************************************************************************)
(* The select loop of the chat server, for every number of slots and       *)
(* descriptors: the table of slots stays right although descriptors are    *)
(* closed and handed out again between select and the scan, and the thread *)
(* never blocks in accept or read.                                         *)
(*                                                                         *)
(* NeverBlocks is not inductive: Accept could put a connection without     *)
(* input into a slot whose number is still in readfds.  Stale says why it  *)
(* cannot: until the scan begins, readfds holds watched descriptors only,  *)
(* which are open by SlotsOpen, and accept returns one that is not.        *)
(* Serving says that the slot of a command stays taken while it sends.     *)
(***************************************************************************)
EXTENDS ChatLoop, FiniteSetTheorems, WellFoundedInduction, TLAPS

\* Min returns a lower bound that belongs to the set.
LEMMA MinProperties ==
  ASSUME NEW S \in SUBSET Nat, S # {}
  PROVE  Min(S) \in S /\ \A n \in S : Min(S) <= n
<1>1. PICK x \in S : \A y \in S : ~ (<<y, x>> \in OpToRel(<, Nat))
  BY NatLessThanWellFounded, WFMin
<1>2. \A y \in S : x =< y
  <2> TAKE y \in S
  <2>1. ~(y < x)
    BY <1>1 DEF OpToRel
  <2> QED
    BY <2>1
<1> QED
  BY <1>2 DEF Min

\* Between select and accept, what readfds reports is still watched.
Stale == pc = "accept" => readfds \subseteq Watched \cup {ServerSocket}

\* Inside process_command, slot i holds the connection the command came from.
Serving == pc \in {"answer", "farewell"} => i \in Slots /\ slots[i] \in Fds

Inv ==
  /\ TypeOK
  /\ SlotsOpen
  /\ Serving
  /\ Stale
  /\ NeverBlocks
  /\ NobodyForgotten

-----------------------------------------------------------------------------
(* Facts about one state *)

LEMMA Descriptors ==
  /\ Fds \in SUBSET Nat
  /\ \A fd \in Fds : fd # 0 /\ fd # ServerSocket
  /\ ServerSocket # 0
BY LoopAssumption DEF ServerSocket

\* The descriptor that accept returns is not open.
LEMMA AcceptedIsNew ==
  ASSUME TypeOK, open # Fds
  PROVE  /\ Min(Fds \ open) \in Fds /\ Min(Fds \ open) \notin open
<1>1. Fds \ open \in SUBSET Nat /\ Fds \ open # {}
  BY Descriptors DEF TypeOK
<1> QED
  BY <1>1, MinProperties

\* The slot that is filled is free.
LEMMA FreeSlotIsFree ==
  ASSUME FreeSlots # {}
  PROVE  Min(FreeSlots) \in Slots /\ slots[Min(FreeSlots)] = 0
<1>1. FreeSlots \in SUBSET Nat
  BY LoopAssumption DEF FreeSlots, Slots
<1>2. Min(FreeSlots) \in FreeSlots
  BY <1>1, MinProperties
<1> QED
  BY <1>2 DEF FreeSlots

\* A taken slot holds an open descriptor that no other slot holds.
LEMMA TakenSlot ==
  ASSUME SlotsOpen, i \in Slots, slots[i] \in Fds
  PROVE  /\ i \in Nat /\ slots[i] \in Watched /\ slots[i] \in open
         /\ \A n \in Slots \ {i} : slots[n] # slots[i]
<1>1. slots[i] \in Watched /\ slots[i] # 0
  BY Descriptors DEF Watched
<1> QED
  BY <1>1, LoopAssumption DEF SlotsOpen, Slots

\* The slot that the scan reads holds an open descriptor.
LEMMA ReadyFacts ==
  ASSUME TypeOK, SlotsOpen, Ready
  PROVE  /\ pc = "scan" /\ i \in Slots /\ i \in Nat
         /\ slots[i] \in Fds /\ slots[i] \in open /\ slots[i] \in readfds
         /\ \A n \in Slots \ {i} : slots[n] # slots[i]
<1>1. i \in Slots /\ slots[i] \in Fds \cup {0} /\ slots[i] \in Fds \cup {ServerSocket}
  BY DEF Ready, TypeOK
<1>2. slots[i] \in Fds
  BY <1>1, Descriptors
<1> QED
  BY <1>1, <1>2, TakenSlot DEF Ready

-----------------------------------------------------------------------------
(* Types *)

LEMMA TypeStep == ASSUME TypeOK, SlotsOpen, Serving, [Next]_vars PROVE TypeOK'
<1>1. CASE UNCHANGED vars
  BY <1>1 DEF vars, TypeOK
<1>2. CASE Select
  <2>1. Reported \subseteq Fds \cup {ServerSocket}
    BY DEF TypeOK, Reported, Watched
  <2> QED
    BY <1>2, <2>1 DEF Select, TypeOK
<1>3. CASE NothingToAccept
  BY <1>3, LoopAssumption DEF NothingToAccept, TypeOK
<1>4. CASE Accept
  <2> DEFINE fd == Min(Fds \ open)
  <2>1. fd \in Fds
    BY <1>4, AcceptedIsNew DEF Accept
  <2>2. /\ open' = open \cup {fd}
        /\ input' = [input EXCEPT ![fd] = "none"]
        /\ full' = full \ {fd}
        /\ \E state \in {"up", "broken"} : peer' = [peer EXCEPT ![fd] = state]
        /\ slots' = IF FreeSlots = {}
                    THEN slots ELSE [slots EXCEPT ![Min(FreeSlots)] = fd]
        /\ backlog' = backlog - 1 /\ backlog > 0
        /\ pc' = "scan" /\ i' = 1 /\ UNCHANGED <<readfds, sending>>
    BY <1>4 DEF Accept
  <2> HIDE DEF fd
  <2>3. slots' \in [Slots -> Fds \cup {0}]
    BY <2>1, <2>2 DEF TypeOK
  <2>4. i' \in 1..MaxClients + 1 /\ backlog' \in 0..Backlog
    BY <2>2, LoopAssumption DEF TypeOK
  <2> QED
    BY <2>1, <2>2, <2>3, <2>4 DEF TypeOK
<1>5. CASE AcceptFails \/ WelcomeDies
  BY <1>5 DEF AcceptFails, WelcomeDies, TypeOK
<1>6. CASE SkipSlot
  BY <1>6, LoopAssumption DEF SkipSlot, TypeOK, Slots
<1>7. CASE EndScan
  BY <1>7 DEF EndScan, TypeOK
<1>8. CASE ReadLine
  <2>1. PICK rest \in Lines \cup {"none"} : input' = [input EXCEPT ![slots[i]] = rest]
    BY <1>8 DEF ReadLine
  <2> QED
    BY <1>8, <2>1 DEF ReadLine, TypeOK
<1>9. CASE ReadExit
  BY <1>9, ReadyFacts DEF ReadExit, TypeOK
<1>10. ASSUME NEW fd \in Fds, Send(fd) \/ SendDies(fd) PROVE TypeOK'
  BY <1>10 DEF Send, SendDies, TypeOK
<1>11. CASE NextSlot
  BY <1>11, LoopAssumption DEF NextSlot, Serving, TypeOK, Slots
<1>12. CASE Hangup
  BY <1>12 DEF Hangup, TypeOK
<1>13. CASE ReadEnd
  <2>1. i' \in 1..MaxClients + 1
    BY <1>13, ReadyFacts, LoopAssumption DEF ReadEnd, Slots
  <2> QED
    BY <1>13, <2>1 DEF ReadEnd, TypeOK
<1>14. CASE ReadError
  BY <1>14 DEF ReadError, TypeOK
<1>15. CASE Connect
  BY <1>15, LoopAssumption DEF Connect, TypeOK
<1>16. ASSUME NEW fd \in Fds, ClientSends(fd) PROVE TypeOK'
  BY <1>16 DEF ClientSends, TypeOK, Lines
<1>17. ASSUME NEW fd \in Fds, ClientReads(fd) \/ ClientCloses(fd) \/ ClientResets(fd)
       PROVE  TypeOK'
  BY <1>17 DEF ClientReads, ClientCloses, ClientResets, TypeOK
<1> QED
  BY <1>1, <1>2, <1>3, <1>4, <1>5, <1>6, <1>7, <1>8, <1>9, <1>10, <1>11,
     <1>12, <1>13, <1>14, <1>15, <1>16, <1>17 DEF Next, Loop, Client

-----------------------------------------------------------------------------
(* The table of slots *)

\* The table and the open descriptors change in three ways only.
LEMMA TableSteps ==
  ASSUME [Next]_vars
  PROVE  UNCHANGED <<slots, open>> \/ Accept \/ Hangup \/ ReadEnd
BY DEF Next, Loop, Client, vars, Select, NothingToAccept, AcceptFails,
       WelcomeDies, SkipSlot,
       EndScan, ReadLine, ReadExit, Send, SendDies, NextSlot, ReadError, Connect,
       ClientSends, ClientReads, ClientCloses, ClientResets

\* What closing the connection of slot i does.
LEMMA CloseFacts ==
  ASSUME TypeOK, SlotsOpen, Serving, Hangup \/ ReadEnd
  PROVE  /\ slots[i] \in Watched
         /\ open' = open \ {slots[i]}
         /\ Watched' = Watched \ {slots[i]}
         /\ slots'[i] = 0
         /\ \A n \in Slots \ {i} : slots'[n] = slots[n]
<1>1. i \in Slots /\ slots[i] \in Fds
  BY ReadyFacts DEF Hangup, Serving, ReadEnd
<1>2. slots[i] \in Watched /\ \A n \in Slots \ {i} : slots[n] # slots[i]
  BY <1>1, TakenSlot
<1>3. slots' = [slots EXCEPT ![i] = 0] /\ open' = open \ {slots[i]}
  BY DEF Hangup, ReadEnd
<1>4. slots'[i] = 0 /\ \A n \in Slots \ {i} : slots'[n] = slots[n]
  BY <1>1, <1>3 DEF TypeOK
<1>5. Watched' = Watched \ {slots[i]}
  BY <1>1, <1>2, <1>4 DEF Watched
<1> QED
  BY <1>2, <1>3, <1>4, <1>5

LEMMA SlotsStep == ASSUME TypeOK, SlotsOpen, Serving, [Next]_vars PROVE SlotsOpen'
<1>1. CASE UNCHANGED <<slots, open>>
  BY <1>1 DEF SlotsOpen, Watched
<1>2. CASE Accept
  <2> DEFINE fd == Min(Fds \ open)
  <2>1. fd \in Fds /\ fd \notin open
    BY <1>2, AcceptedIsNew DEF Accept
  <2>2. open' = open \cup {fd}
    BY <1>2 DEF Accept
  <2>3. \A n \in Slots : slots[n] # fd
    BY <2>1, Descriptors DEF SlotsOpen, Watched
  <2>4. \/ slots' = slots
        \/ \E n \in Slots : slots' = [slots EXCEPT ![n] = fd]
    BY <1>2, FreeSlotIsFree DEF Accept
  <2> HIDE DEF fd
  <2>5. CASE slots' = slots
    BY <2>2, <2>5 DEF SlotsOpen, Watched
  <2>6. ASSUME NEW m \in Slots, slots' = [slots EXCEPT ![m] = fd]
        PROVE  SlotsOpen'
    <3>1. \A n \in Slots : slots'[n] = IF n = m THEN fd ELSE slots[n]
      BY <2>6 DEF TypeOK
    <3> QED
      BY <2>1, <2>2, <2>3, <3>1 DEF SlotsOpen, Watched
  <2> QED
    BY <2>4, <2>5, <2>6
<1>3. CASE Hangup \/ ReadEnd
  <2>1. /\ open' = open \ {slots[i]}
        /\ Watched' = Watched \ {slots[i]}
        /\ slots'[i] = 0
        /\ \A n \in Slots \ {i} : slots'[n] = slots[n]
    BY <1>3, CloseFacts
  <2> QED
    BY <2>1 DEF SlotsOpen
<1> QED
  BY <1>1, <1>2, <1>3, TableSteps

LEMMA ServingStep ==
  ASSUME TypeOK, SlotsOpen, Serving, [Next]_vars PROVE Serving'
<1>1. CASE UNCHANGED <<slots, pc, i>>
  BY <1>1 DEF Serving
<1>2. CASE pc' \notin {"answer", "farewell"}
  BY <1>2 DEF Serving
<1>3. CASE ReadLine \/ ReadExit
  BY <1>3, ReadyFacts DEF ReadLine, ReadExit, Serving
<1> QED
  BY <1>1, <1>2, <1>3
     DEF Next, Loop, Client, vars, Select, NothingToAccept, Accept, AcceptFails,
         WelcomeDies,
         SkipSlot, EndScan, Send, SendDies, NextSlot, Hangup, ReadEnd, ReadError,
         Ready, Connect, ClientSends, ClientReads, ClientCloses, ClientResets

-----------------------------------------------------------------------------
(* The thread never blocks *)

\* What clients do before the next read takes nothing away from a connection.
LEMMA ClientKeepsReadable ==
  ASSUME TypeOK, Client
  PROVE  /\ UNCHANGED <<slots, readfds, pc, i, open>>
         /\ backlog' >= backlog
         /\ \A fd \in Fds : Readable(fd) => Readable(fd)'
<1>1. CASE Connect
  BY <1>1 DEF Connect, Readable, TypeOK
<1>2. ASSUME NEW f \in Fds, ClientSends(f)
      PROVE  \A fd \in Fds : Readable(fd) => Readable(fd)'
  BY <1>2 DEF ClientSends, Readable, TypeOK, Lines
<1>3. ASSUME NEW f \in Fds, ClientReads(f) \/ ClientCloses(f) \/ ClientResets(f)
      PROVE  \A fd \in Fds : Readable(fd) => Readable(fd)'
  BY <1>3 DEF ClientReads, ClientCloses, ClientResets, Readable, TypeOK
<1> QED
  BY <1>1, <1>2, <1>3
     DEF Client, Connect, ClientSends, ClientReads, ClientCloses, ClientResets,
         TypeOK

LEMMA StaleStep ==
  ASSUME TypeOK, SlotsOpen, Stale, [Next]_vars PROVE Stale'
<1>1. CASE UNCHANGED <<slots, readfds, pc>>
  BY <1>1 DEF Stale, Watched
<1>2. CASE Select
  BY <1>2 DEF Select, Reported, SlotsOpen, Stale, Watched
<1>3. CASE pc' # "accept"
  BY <1>3 DEF Stale
<1>4. CASE Client
  BY <1>1, <1>4 DEF Client, Connect, ClientSends, ClientReads, ClientCloses,
                    ClientResets
<1> QED
  BY <1>1, <1>2, <1>3, <1>4
     DEF Next, Loop, vars, NothingToAccept, Accept, AcceptFails,
         WelcomeDies, SkipSlot,
         EndScan, ReadLine, ReadExit, Send, SendDies, NextSlot, Hangup, ReadEnd,
         ReadError, Ready

LEMMA NeverBlocksStep ==
  ASSUME TypeOK, SlotsOpen, Serving, Stale, NeverBlocks, [Next]_vars
  PROVE  NeverBlocks'
<1>1. CASE UNCHANGED vars
  BY <1>1 DEF vars, NeverBlocks, Readable
<1>2. CASE Client
  <2>1. /\ UNCHANGED <<slots, readfds, pc, i, open>>
        /\ backlog' >= backlog
        /\ \A fd \in Fds : Readable(fd) => Readable(fd)'
    BY <1>2, ClientKeepsReadable
  <2>2. \A n \in Slots : slots[n] \in readfds => slots[n] \in Fds
    BY Descriptors DEF TypeOK
  <2>3. backlog \in Nat /\ backlog' \in Int
    BY <1>2, LoopAssumption
       DEF TypeOK, Client, Connect, ClientSends, ClientReads, ClientCloses,
           ClientResets
  <2> QED
    BY <2>1, <2>2, <2>3 DEF NeverBlocks
<1>3. CASE Select
  <2>1. Watched \subseteq open
    BY DEF SlotsOpen
  <2>2. readfds' = {fd \in Watched : Readable(fd)}
                     \cup (IF backlog > 0 THEN {ServerSocket} ELSE {})
    BY <1>3, <2>1 DEF Select, Reported
  <2>3. ServerSocket \notin Watched
    BY Descriptors DEF Watched, TypeOK
  <2>4. \A n \in Slots : slots[n] # ServerSocket
    BY Descriptors DEF TypeOK
  <2> QED
    BY <1>3, <2>2, <2>3, <2>4 DEF Select, NeverBlocks, Readable
<1>4. CASE NothingToAccept
  BY <1>4, LoopAssumption DEF NothingToAccept, NeverBlocks, Readable, Slots
<1>5. CASE Accept
  <2> DEFINE fd == Min(Fds \ open)
  <2>1. fd \in Fds /\ fd \notin open /\ fd # ServerSocket
    BY <1>5, AcceptedIsNew, Descriptors DEF Accept
  <2>2. fd \notin readfds
    BY <1>5, <2>1 DEF Accept, Stale, SlotsOpen
  <2>3. /\ pc' = "scan" /\ readfds' = readfds
        /\ input' = [input EXCEPT ![fd] = "none"]
        /\ \E state \in {"up", "broken"} : peer' = [peer EXCEPT ![fd] = state]
        /\ \/ slots' = slots
           \/ \E n \in Slots : slots' = [slots EXCEPT ![n] = fd]
    BY <1>5, FreeSlotIsFree DEF Accept
  <2>4. \A n \in Slots : slots[n] \in readfds => Readable(slots[n])
    BY <1>5 DEF Accept, NeverBlocks
  <2> HIDE DEF fd
  <2>5. ASSUME NEW n \in Slots, slots'[n] \in readfds
        PROVE  slots'[n] = slots[n]
    BY <2>2, <2>3, <2>5 DEF TypeOK
  <2>6. ASSUME NEW f \in Fds, f # fd, Readable(f) PROVE Readable(f)'
    BY <2>3, <2>6 DEF Readable, TypeOK
  <2>7. ASSUME NEW n \in Slots, slots'[n] \in readfds
        PROVE  input'[slots'[n]] # "none" \/ peer'[slots'[n]] # "up"
    <3>1. slots'[n] = slots[n] /\ Readable(slots[n])
      BY <2>4, <2>5, <2>7
    <3>2. slots[n] \in Fds /\ slots[n] # fd
      BY <2>2, <2>7, <3>1, Descriptors DEF TypeOK
    <3>3. Readable(slots[n])'
      BY <2>6, <3>1, <3>2
    <3> QED
      BY <2>3, <2>7, <3>1, <3>2 DEF Readable, TypeOK
  <2> QED
    BY <2>3, <2>7 DEF NeverBlocks, Readable
<1>6. CASE AcceptFails \/ WelcomeDies \/ ReadError
  BY <1>6 DEF AcceptFails, WelcomeDies, ReadError, NeverBlocks
<1>7. CASE SkipSlot
  BY <1>7, LoopAssumption DEF SkipSlot, NeverBlocks, Readable, Slots
<1>8. CASE EndScan \/ ReadExit \/ Hangup
  BY <1>8 DEF EndScan, ReadExit, Hangup, NeverBlocks
<1>9. CASE ReadLine
  <2>1. /\ pc = "scan" /\ i \in Slots /\ i \in Nat
        /\ \A n \in Slots \ {i} : slots[n] # slots[i]
    BY <1>9, ReadyFacts DEF ReadLine
  <2>2. /\ UNCHANGED <<slots, readfds, i, peer>> /\ pc' = "answer"
        /\ \A fd \in Fds \ {slots[i]} : input'[fd] = input[fd]
    BY <1>9 DEF ReadLine, TypeOK
  <2>3. ASSUME NEW n \in Slots, n > i, slots[n] \in readfds
        PROVE  input'[slots[n]] # "none" \/ peer[slots[n]] # "up"
    <3>1. n >= i /\ n # i
      BY <2>1, <2>3, LoopAssumption DEF Slots
    <3>2. slots[n] \in Fds
      BY <2>3, Descriptors DEF TypeOK
    <3> QED
      BY <2>1, <2>2, <2>3, <3>1, <3>2 DEF NeverBlocks, Readable
  <2> QED
    BY <2>1, <2>2, <2>3 DEF NeverBlocks, Readable
<1>10. CASE NextSlot
  <2>1. /\ pc = "answer" /\ pc' = "scan" /\ i' = i + 1 /\ i \in Nat
        /\ UNCHANGED <<slots, readfds, input, peer>>
    BY <1>10, LoopAssumption DEF NextSlot, TypeOK
  <2>2. \A n \in Slots : n >= i + 1 => n > i
    BY <2>1, LoopAssumption DEF Slots
  <2> QED
    BY <2>1, <2>2 DEF NeverBlocks, Readable
<1>11. ASSUME NEW f \in Fds, Send(f) PROVE NeverBlocks'
  <2>1. \A fd \in Fds : Readable(fd) => Readable(fd)'
    BY <1>11 DEF Send, Readable, TypeOK
  <2>2. /\ UNCHANGED <<slots, readfds, pc, i, backlog>>
        /\ pc \in {"answer", "farewell"}
    BY <1>11 DEF Send
  <2>3. \A n \in Slots : slots[n] \in readfds => slots[n] \in Fds
    BY Descriptors DEF TypeOK
  <2> QED
    BY <2>1, <2>2, <2>3 DEF NeverBlocks
<1>12. ASSUME NEW f \in Fds, SendDies(f) PROVE NeverBlocks'
  BY <1>12 DEF SendDies, NeverBlocks
<1>13. CASE ReadEnd
  <2>1. /\ pc = "scan" /\ i \in Slots /\ i \in Nat
        /\ \A n \in Slots \ {i} : slots'[n] = slots[n]
    BY <1>13, ReadyFacts, CloseFacts DEF ReadEnd
  <2>2. UNCHANGED <<readfds, pc, input, peer>> /\ i' = i + 1
    BY <1>13 DEF ReadEnd
  <2>3. ASSUME NEW n \in Slots, n >= i + 1, slots'[n] \in readfds
        PROVE  slots'[n] = slots[n] /\ n >= i
    BY <2>1, <2>3, LoopAssumption DEF Slots
  <2> QED
    BY <2>1, <2>2, <2>3 DEF NeverBlocks, Readable
<1> QED
  BY <1>1, <1>2, <1>3, <1>4, <1>5, <1>6, <1>7, <1>8, <1>9, <1>10, <1>11,
     <1>12, <1>13 DEF Next, Loop

-----------------------------------------------------------------------------
(* Nobody is forgotten *)

\* With no slot free, the watched descriptors are as many as the slots.
LEMMA FullTable ==
  ASSUME TypeOK, SlotsOpen, FreeSlots = {}
  PROVE  IsFiniteSet(Watched) /\ Cardinality(Watched) = MaxClients
<1>1. \A n \in Slots : slots[n] # 0
  BY DEF FreeSlots
<1>2. slots \in Bijection(Slots, Watched)
  BY <1>1 DEF SlotsOpen, TypeOK, Watched, Bijection, Injection, IsInjective,
              Surjection
<1>3. ExistsBijection(Slots, Watched)
  BY <1>2 DEF ExistsBijection
<1>4. IsFiniteSet(Slots) /\ Cardinality(Slots) = MaxClients
  BY FS_Interval, LoopAssumption DEF Slots
<1> QED
  BY <1>3, <1>4, FS_Bijection

LEMMA ForgottenStep ==
  ASSUME TypeOK, TypeOK', SlotsOpen, Serving, NobodyForgotten, [Next]_vars
  PROVE  NobodyForgotten'
<1>1. CASE open' \ Watched' = open \ Watched
  BY <1>1 DEF NobodyForgotten
<1>2. CASE UNCHANGED <<slots, open>>
  BY <1>1, <1>2 DEF Watched
<1>3. CASE Hangup \/ ReadEnd
  <2>1. /\ open' = open \ {slots[i]} /\ Watched' = Watched \ {slots[i]}
        /\ slots[i] \in Watched
    BY <1>3, CloseFacts
  <2> QED
    BY <1>1, <2>1
<1>4. CASE Accept
  <2> DEFINE fd == Min(Fds \ open)
  <2>1. fd \in Fds /\ fd \notin open /\ fd # 0 /\ open' = open \cup {fd}
    BY <1>4, AcceptedIsNew, Descriptors DEF Accept
  <2>2. fd \notin Watched
    BY <2>1 DEF SlotsOpen
  <2>3. CASE FreeSlots # {}
    <3> DEFINE m == Min(FreeSlots)
    <3>1. m \in Slots /\ slots[m] = 0
      BY <2>3, FreeSlotIsFree
    <3>2. slots' = [slots EXCEPT ![m] = fd]
      BY <1>4, <2>3 DEF Accept
    <3> HIDE DEF m, fd
    <3>3. Watched' = Watched \cup {fd}
      BY <2>1, <3>1, <3>2 DEF Watched, TypeOK
    <3> QED
      BY <1>1, <2>1, <2>2, <3>3
  <2>4. CASE FreeSlots = {}
    <3> DEFINE forgotten == open' \ Watched
    <3>1. Watched' = Watched
      BY <1>4, <2>4 DEF Accept, Watched
    <3>2. IsFiniteSet(Watched) /\ Cardinality(Watched) = MaxClients
      BY <2>4, FullTable
    <3>3. IsFiniteSet(Fds) /\ open' \subseteq Fds
      BY LoopAssumption DEF TypeOK
    <3>4. IsFiniteSet(forgotten) /\ IsFiniteSet(open')
      BY <3>3, FS_Subset
    <3>5. forgotten \cup Watched = open' /\ forgotten \cap Watched = {}
      BY <2>1 DEF SlotsOpen
    <3>6. Cardinality(open') = Cardinality(forgotten) + Cardinality(Watched)
                                 - Cardinality(forgotten \cap Watched)
      BY <3>2, <3>4, <3>5, FS_Union
    <3>7. Cardinality(forgotten \cap Watched) = 0
      BY <3>5, FS_EmptySet
    <3>8. Cardinality(open') <= Cardinality(Fds)
      BY <3>3, FS_Subset
    <3>9. Cardinality(forgotten) \in Nat
      BY <3>4, FS_CardinalityType
    <3> HIDE DEF forgotten
    <3>10. Cardinality(forgotten) + MaxClients <= Cardinality(Fds)
      BY <3>2, <3>6, <3>7, <3>8, <3>9, LoopAssumption
    <3> QED
      BY <3>1, <3>10 DEF NobodyForgotten, forgotten
  <2> QED
    BY <2>3, <2>4
<1> QED
  BY <1>2, <1>3, <1>4, TableSteps

-----------------------------------------------------------------------------
(* Theorems *)

LEMMA InitInv == Init => Inv
<1> SUFFICES ASSUME Init PROVE Inv
  OBVIOUS
<1>1. TypeOK
  BY LoopAssumption DEF Init, TypeOK, Slots
<1>2. Watched = {}
  BY DEF Init, Watched
<1>3. SlotsOpen /\ Serving /\ Stale /\ NeverBlocks /\ NobodyForgotten
  BY <1>2 DEF Init, SlotsOpen, Serving, Stale, NeverBlocks, NobodyForgotten
<1> QED
  BY <1>1, <1>3 DEF Inv

LEMMA Invariance == Spec => []Inv
<1>1. Inv /\ [Next]_vars => Inv'
  <2> SUFFICES ASSUME Inv, [Next]_vars PROVE Inv'
    OBVIOUS
  <2>1. TypeOK' /\ SlotsOpen'
    BY TypeStep, SlotsStep DEF Inv
  <2>2. Serving' /\ Stale' /\ NeverBlocks' /\ NobodyForgotten'
    BY <2>1, ServingStep, StaleStep, NeverBlocksStep, ForgottenStep DEF Inv
  <2> QED
    BY <2>1, <2>2 DEF Inv
<1> QED
  BY InitInv, <1>1, PTL DEF Spec

\* Every variable of the loop keeps its type: a slot is 0 or a descriptor.
THEOREM LoopTypes == Spec => []TypeOK
<1>1. Inv => TypeOK
  BY DEF Inv
<1> QED
  BY Invariance, <1>1, PTL

\* Every slot that is taken holds an open descriptor of its own.
THEOREM TableRight == Spec => []SlotsOpen
<1>1. Inv => SlotsOpen
  BY DEF Inv
<1> QED
  BY Invariance, <1>1, PTL

\* accept and read are called only where they return at once.
THEOREM LoopNeverBlocks == Spec => []NeverBlocks
<1>1. Inv => NeverBlocks
  BY DEF Inv
<1> QED
  BY Invariance, <1>1, PTL

\* Only connections beyond the number of slots are watched by nobody.
THEOREM ForgottenBounded == Spec => []NobodyForgotten
<1>1. Inv => NobodyForgotten
  BY DEF Inv
<1> QED
  BY Invariance, <1>1, PTL

=============================================================================
