------------------------ MODULE MessageFilterProofs ------------------------
(* What filter_message does to every message, for every list of words.     *)
EXTENDS MessageFilter, SequenceTheorems, WellFoundedInduction, TLAPS

\* Min returns a lower bound that belongs to the set.
LEMMA MinProperties ==
  ASSUME NEW S \in SUBSET Nat, S # {}
  PROVE  Min(S) \in S /\ \A n \in S : Min(S) <= n
<1>1. PICK x \in S : \A y \in S : ~ (<<y, x>> \in OpToRel(<, Nat))
  BY NatLessThanWellFounded, WFMin
<1>2. \A y \in S : x =< y
  <2> TAKE y \in S
  <2>1. ~(y < x)
    BY <1>1 DEF OpToRel
  <2> QED
    BY <2>1
<1> QED
  BY <1>2 DEF Min

\* What is true of the words already done, and of the part of the message
\* that the pass for the current word has done.
DoneSoFar ==
  \A w \in DOMAIN Words, p \in DOMAIN message :
    (w < word \/ (w = word /\ p < start_pos)) =>
      ~OccursAt(filtered_message, Words[w], p)

Inv == TypeOK /\ OnlyForbiddenMasked /\ DoneSoFar

LEMMA InitInv == Init => Inv
<1> SUFFICES ASSUME Init PROVE Inv
  OBVIOUS
<1> USE FilterAssumption
<1>1. message \in Seq(Chars)
  BY DEF Init
<1>2. TypeOK
  <2>1. Chars \subseteq Chars \cup {Star}
    OBVIOUS
  <2>2. filtered_message \in Seq(Chars \cup {Star})
    BY <1>1, <2>1, SeqMonotonic DEF Init
  <2>3. Len(Words) \in Nat /\ Len(message) \in Nat
    BY <1>1, LenProperties
  <2> QED
    BY <1>1, <2>2, <2>3 DEF Init, TypeOK
<1>3. OnlyForbiddenMasked
  BY DEF Init, OnlyForbiddenMasked
<1>4. DoneSoFar
  <2>1. DOMAIN Words = 1..Len(Words) /\ DOMAIN message = 1..Len(message)
    BY <1>1, LenProperties
  <2>2. Len(Words) \in Nat /\ Len(message) \in Nat
    BY <1>1, LenProperties
  <2>3. \A w \in DOMAIN Words, p \in DOMAIN message : ~(w < 1) /\ ~(p < 1)
    BY <2>1, <2>2
  <2>4. word = 1 /\ start_pos = 1
    BY DEF Init
  <2> QED
    BY <2>3, <2>4 DEF DoneSoFar
<1> QED
  BY <1>2, <1>3, <1>4 DEF Inv

\* The facts about lengths and domains that every step below needs.
LEMMA Shape ==
  ASSUME Inv
  PROVE  /\ Len(message) \in Nat
         /\ Len(filtered_message) = Len(message)
         /\ DOMAIN message = 1..Len(message)
         /\ DOMAIN filtered_message = 1..Len(message)
         /\ \A q \in 1..Len(message) : message[q] \in Chars
         /\ Len(Words) \in Nat
         /\ DOMAIN Words = 1..Len(Words)
         /\ word \in Nat /\ start_pos \in Nat
         /\ \A w \in DOMAIN Words :
              /\ Len(Words[w]) \in Nat \ {0}
              /\ DOMAIN Words[w] = 1..Len(Words[w])
              /\ \A j \in DOMAIN Words[w] : Words[w][j] \in Chars
<1> USE FilterAssumption DEF Inv, TypeOK, OnlyForbiddenMasked
<1>1. /\ Len(message) \in Nat
      /\ DOMAIN message = 1..Len(message)
      /\ \A q \in 1..Len(message) : message[q] \in Chars
  BY LenProperties, ElementOfSeq
<1>2. DOMAIN filtered_message = 1..Len(message)
  BY LenProperties
<1>3. /\ Len(Words) \in Nat
      /\ DOMAIN Words = 1..Len(Words)
  BY LenProperties
<1>4. ASSUME NEW w \in DOMAIN Words
      PROVE  /\ Len(Words[w]) \in Nat \ {0}
             /\ DOMAIN Words[w] = 1..Len(Words[w])
             /\ \A j \in DOMAIN Words[w] : Words[w][j] \in Chars
  <2>1. Words[w] \in Seq(Chars) /\ Words[w] # << >>
    BY <1>3, ElementOfSeq
  <2>2. Len(Words[w]) # 0
    BY <2>1, EmptySeq
  <2> QED
    BY <2>1, <2>2, LenProperties, ElementOfSeq
<1>5. word \in Nat /\ start_pos \in Nat
  BY <1>1, <1>3
<1> QED
  BY <1>1, <1>2, <1>3, <1>4, <1>5

LEMMA NextWordInv ==
  ASSUME Inv, NextWord PROVE Inv'
<1> USE DEF NextWord
<1>1. TypeOK'
  BY Shape DEF Inv, TypeOK
<1>2. OnlyForbiddenMasked'
  BY DEF Inv, OnlyForbiddenMasked, OccursAt
<1>3. DoneSoFar'
  <2> SUFFICES ASSUME NEW w \in DOMAIN Words, NEW p \in DOMAIN message,
                      w < word + 1 \/ (w = word + 1 /\ p < 1)
               PROVE  ~OccursAt(filtered_message, Words[w], p)
    BY DEF DoneSoFar, OccursAt
  <2>1. CASE w < word
    BY <2>1 DEF Inv, DoneSoFar
  <2>2. CASE w = word /\ p < start_pos
    BY <2>2 DEF Inv, DoneSoFar
  <2>3. CASE w = word /\ p >= start_pos
    <3>1. p \notin Found(filtered_message, Words[word], start_pos)
      OBVIOUS
    <3>2. p \in start_pos..Len(filtered_message)
      BY <2>3, Shape
    <3> QED
      BY <2>3, <3>1, <3>2 DEF Found
  <2> QED
    BY <2>1, <2>2, <2>3, Shape
<1> QED
  BY <1>1, <1>2, <1>3 DEF Inv

LEMMA ReplaceInv ==
  ASSUME Inv, Replace PROVE Inv'
<1> DEFINE p == Min(Found(filtered_message, Words[word], start_pos))
           len == Len(Words[word])
<1>0. word \in DOMAIN Words
  BY DEF Replace
<1>1. /\ p \in start_pos..Len(message)
      /\ OccursAt(filtered_message, Words[word], p)
      /\ \A q \in start_pos..Len(message) :
           OccursAt(filtered_message, Words[word], q) => p <= q
  <2>1. /\ Found(filtered_message, Words[word], start_pos) \in SUBSET Nat
        /\ Found(filtered_message, Words[word], start_pos) # {}
    BY Shape DEF Found, Replace
  <2>2. p \in Found(filtered_message, Words[word], start_pos)
    BY <2>1, MinProperties
  <2>3. \A q \in Found(filtered_message, Words[word], start_pos) : p <= q
    BY <2>1, MinProperties
  <2> HIDE DEF p
  <2> QED
    BY <2>2, <2>3, Shape DEF Found
<1>2. /\ filtered_message' =
           [q \in DOMAIN filtered_message |->
              IF q \in p..(p + len - 1) THEN Star ELSE filtered_message[q]]
      /\ start_pos' = p + len
      /\ message' = message
      /\ word' = word
  BY DEF Replace
<1> HIDE DEF p
<1>3. /\ len \in Nat \ {0}
      /\ p \in Nat
      /\ p + len - 1 <= Len(message)
      /\ p >= start_pos
      /\ start_pos >= 1
  BY <1>0, <1>1, Shape DEF OccursAt, Inv, TypeOK
<1>4. \A q \in p..(p + len - 1) :
        /\ q \in 1..Len(message)
        /\ filtered_message[q] \in Chars
  <2> SUFFICES ASSUME NEW q \in p..(p + len - 1)
               PROVE  /\ q \in 1..Len(message)
                      /\ filtered_message[q] \in Chars
    OBVIOUS
  <2>1. q - p + 1 \in DOMAIN Words[word]
    BY <1>0, <1>3, Shape
  <2>2. filtered_message[p + (q - p + 1) - 1] = Words[word][q - p + 1]
    BY <1>1, <2>1 DEF OccursAt
  <2>3. p + (q - p + 1) - 1 = q
    BY <1>3
  <2>4. filtered_message[q] \in Chars
    BY <1>0, <2>1, <2>2, <2>3, Shape
  <2> QED
    BY <1>3, <2>4, Shape
<1>5. \A q \in 1..Len(message) :
        filtered_message'[q] =
          IF q \in p..(p + len - 1) THEN Star ELSE filtered_message[q]
  BY <1>2, Shape
<1>6. TypeOK'
  <2>1. Len(filtered_message') = Len(message)
        /\ filtered_message' \in Seq(Chars \cup {Star})
    <3>1. filtered_message' \in [1..Len(message) -> Chars \cup {Star}]
      <4>1. \A q \in 1..Len(message) : filtered_message[q] \in Chars \cup {Star}
        BY Shape, ElementOfSeq DEF Inv, TypeOK
      <4> QED
        BY <1>2, <4>1, Shape
    <3> QED
      BY <3>1, Shape
  <2>2. start_pos' \in 1..Len(message) + 1
    BY <1>2, <1>3, Shape
  <2> QED
    BY <1>2, <2>1, <2>2 DEF Inv, TypeOK
<1>7. OnlyForbiddenMasked'
  <2>1. Len(filtered_message') = Len(message)
    <3>1. filtered_message' \in Seq(Chars \cup {Star})
      BY <1>6 DEF TypeOK
    <3>2. DOMAIN filtered_message' = 1..Len(message)
      BY <1>2, Shape
    <3> QED
      BY <3>1, <3>2, Shape, LenProperties
  <2>2. ASSUME NEW q \in DOMAIN message, filtered_message'[q] # message[q]
        PROVE  /\ filtered_message'[q] = Star
               /\ \E w \in DOMAIN Words, r \in DOMAIN message :
                    /\ OccursAt(message, Words[w], r)
                    /\ q \in r..(r + Len(Words[w]) - 1)
    <3>1. CASE q \notin p..(p + len - 1)
      BY <1>5, <2>2, <3>1, Shape DEF Inv, OnlyForbiddenMasked
    <3>2. CASE q \in p..(p + len - 1)
      <4>1. \A r \in p..(p + len - 1) : message[r] = filtered_message[r]
        BY <1>4, Shape, FilterAssumption DEF Inv, OnlyForbiddenMasked
      <4>2. ASSUME NEW j \in DOMAIN Words[word]
            PROVE  message[p + j - 1] = Words[word][j]
        <5>1. p + j - 1 \in p..(p + len - 1)
          BY <1>0, <1>3, Shape
        <5> QED
          BY <1>1, <4>1, <5>1 DEF OccursAt
      <4>3. OccursAt(message, Words[word], p)
        BY <1>3, <4>2 DEF OccursAt
      <4>4. p \in DOMAIN message
        BY <1>1, <1>3, Shape
      <4> QED
        BY <1>0, <1>5, <3>2, <4>3, <4>4, Shape
    <3> QED
      BY <3>1, <3>2
  <2> QED
    BY <1>2, <2>1, <2>2 DEF OnlyForbiddenMasked, OccursAt
<1>8. \A w \in DOMAIN Words, r \in DOMAIN message :
        OccursAt(filtered_message', Words[w], r) =>
          /\ OccursAt(filtered_message, Words[w], r)
          /\ r \notin p..(p + len - 1)
  <2> SUFFICES ASSUME NEW w \in DOMAIN Words, NEW r \in DOMAIN message,
                      OccursAt(filtered_message', Words[w], r)
               PROVE  /\ OccursAt(filtered_message, Words[w], r)
                      /\ r \notin p..(p + len - 1)
    OBVIOUS
  <2>1. Len(filtered_message') = Len(message)
    BY <1>2, <1>7 DEF OnlyForbiddenMasked
  <2>2. r + Len(Words[w]) - 1 <= Len(message)
    BY <2>1 DEF OccursAt
  <2>3. ASSUME NEW j \in DOMAIN Words[w]
        PROVE  /\ r + j - 1 \in 1..Len(message)
               /\ r + j - 1 \notin p..(p + len - 1)
               /\ filtered_message[r + j - 1] = Words[w][j]
    <3>1. r + j - 1 \in 1..Len(message)
      BY <2>2, Shape
    <3>2. filtered_message'[r + j - 1] = Words[w][j]
      BY DEF OccursAt
    <3>3. Words[w][j] # Star
      BY Shape, FilterAssumption
    <3> QED
      BY <1>5, <3>1, <3>2, <3>3
  <2>4. 1 \in DOMAIN Words[w] /\ r + 1 - 1 = r
    BY Shape
  <2>5. r \notin p..(p + len - 1)
    BY <2>3, <2>4
  <2>6. OccursAt(filtered_message, Words[w], r)
    BY <2>2, <2>3, Shape DEF OccursAt
  <2> QED
    BY <2>5, <2>6
<1>9. DoneSoFar'
  <2> SUFFICES ASSUME NEW w \in DOMAIN Words, NEW r \in DOMAIN message,
                      w < word \/ (w = word /\ r < p + len),
                      OccursAt(filtered_message', Words[w], r)
               PROVE  FALSE
    BY <1>2 DEF DoneSoFar, OccursAt
  <2>1. OccursAt(filtered_message, Words[w], r) /\ r \notin p..(p + len - 1)
    BY <1>8
  <2>2. w = word /\ r >= start_pos
    BY <2>1, Shape DEF Inv, DoneSoFar
  <2>3. r >= p
    BY <1>1, <2>1, <2>2, Shape
  <2> QED
    BY <1>3, <2>1, <2>2, <2>3, Shape
<1> QED
  BY <1>6, <1>7, <1>9 DEF Inv

LEMMA FilterInvariant == Spec => []Inv
<1>1. Inv /\ [Next]_vars => Inv'
  <2> SUFFICES ASSUME Inv, [Next]_vars PROVE Inv'
    OBVIOUS
  <2>1. CASE Replace
    BY <2>1, ReplaceInv
  <2>2. CASE NextWord
    BY <2>2, NextWordInv
  <2>3. CASE UNCHANGED vars
    BY <2>3 DEF vars, Inv, TypeOK, OnlyForbiddenMasked, DoneSoFar, OccursAt
  <2> QED
    BY <2>1, <2>2, <2>3 DEF Next
<1> QED
  BY InitInv, <1>1, PTL DEF Spec

\* The search never leaves the message: start_pos and word stay in their
\* ranges, and the filtered message keeps its length.
THEOREM FilterTypes == Spec => []TypeOK
<1>1. Inv => TypeOK
  BY DEF Inv
<1> QED
  BY FilterInvariant, <1>1, PTL

\* filter_message keeps the length of a message and overwrites nothing but
\* characters of forbidden words, whatever the words and the message are.
THEOREM FilterMasksOnlyForbidden == Spec => []OnlyForbiddenMasked
<1>1. Inv => OnlyForbiddenMasked
  BY DEF Inv
<1> QED
  BY FilterInvariant, <1>1, PTL

\* The message filter_message returns contains no forbidden word, whatever
\* the words and the message are.
THEOREM FilterLeavesNothingForbidden == Spec => []NothingForbiddenLeft
<1>1. Inv => NothingForbiddenLeft
  <2> SUFFICES ASSUME Inv, Finished,
                      NEW w \in DOMAIN Words, NEW p \in DOMAIN message
               PROVE  ~OccursAt(filtered_message, Words[w], p)
    BY DEF NothingForbiddenLeft
  <2>1. word = Len(Words) + 1
    BY Shape DEF Inv, TypeOK, Finished
  <2>2. w < word
    BY <2>1, Shape
  <2> QED
    BY <2>2 DEF Inv, DoneSoFar
<1> QED
  BY FilterInvariant, <1>1, PTL
============================================================================
