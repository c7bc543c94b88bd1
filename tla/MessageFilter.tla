--------------------------- MODULE MessageFilter ---------------------------
(***************************************************************************)
(* filter_message of HW2/hw2_chat_server.cpp: for every forbidden word in  *)
(* turn, the occurrences of the word are overwritten with stars from left  *)
(* to right, the search going on behind each replacement.  A message is a  *)
(* sequence of characters.                                                 *)
(***************************************************************************)
EXTENDS Integers, Sequences, FiniteSetsExt

CONSTANTS
  Chars,       \* the characters messages are made of, without the star
  Star,        \* '*'
  Words,       \* forbidden_words, a sequence of words
  MessageMax   \* the longest message considered

ASSUME FilterAssumption ==
  /\ Star \notin Chars
  /\ MessageMax \in Nat
  /\ Words \in Seq(Seq(Chars) \ {<< >>})

VARIABLES
  message,            \* the argument
  filtered_message,
  word,               \* the index of the word of this pass
  start_pos           \* where the next find starts, counted from 1

vars == <<message, filtered_message, word, start_pos>>

OccursAt(m, w, p) ==
  /\ p + Len(w) - 1 <= Len(m)
  /\ \A j \in DOMAIN w : m[p + j - 1] = w[j]

\* Where std::string::find finds w from position p on; none is npos.
Found(m, w, p) == {q \in p..Len(m) : OccursAt(m, w, q)}

Init ==
  /\ message \in UNION {[1..n -> Chars] : n \in 0..MessageMax}
  /\ filtered_message = message
  /\ word = 1
  /\ start_pos = 1

\* Mutant: one star too many.
Replace_StarTooMany ==
  /\ word \in DOMAIN Words
  /\ Found(filtered_message, Words[word], start_pos) # {}
  /\ LET p   == Min(Found(filtered_message, Words[word], start_pos))
         len == Len(Words[word])
     IN  /\ filtered_message' =
              [q \in DOMAIN filtered_message |->
                 IF q \in p..(p + len) THEN Star ELSE filtered_message[q]]
         /\ start_pos' = p + len
  /\ UNCHANGED <<message, word>>

\* The next occurrence of the word is overwritten with stars.
Replace ==
  /\ word \in DOMAIN Words
  /\ Found(filtered_message, Words[word], start_pos) # {}
  /\ LET p   == Min(Found(filtered_message, Words[word], start_pos))
         len == Len(Words[word])
     IN  /\ filtered_message' =
              [q \in DOMAIN filtered_message |->
                 IF q \in p..(p + len - 1) THEN Star ELSE filtered_message[q]]
         /\ start_pos' = p + len
  /\ UNCHANGED <<message, word>>

\* Mutant: start_pos is declared outside the loop over the words.
NextWord_PositionStays ==
  /\ word \in DOMAIN Words
  /\ Found(filtered_message, Words[word], start_pos) = {}
  /\ word' = word + 1
  /\ UNCHANGED <<message, filtered_message, start_pos>>

\* npos: the pass for the next word starts at the front.
NextWord ==
  /\ word \in DOMAIN Words
  /\ Found(filtered_message, Words[word], start_pos) = {}
  /\ word' = word + 1
  /\ start_pos' = 1
  /\ UNCHANGED <<message, filtered_message>>

Next == Replace \/ NextWord

Spec == Init /\ [][Next]_vars

\* filter_message has returned filtered_message.
Finished == word \notin DOMAIN Words

-----------------------------------------------------------------------------

\* Every variable has its type.
TypeOK ==
  /\ message \in Seq(Chars)
  /\ filtered_message \in Seq(Chars \cup {Star})
  /\ word \in 1..Len(Words) + 1
  /\ start_pos \in 1..Len(message) + 1

\* No forbidden word is left in the message that is returned: neither the
\* search that skips ahead nor a later word's stars leave one standing.
NothingForbiddenLeft ==
  Finished => \A w \in DOMAIN Words, p \in DOMAIN message :
                ~OccursAt(filtered_message, Words[w], p)

\* The message keeps its length, and a character that was replaced stood in
\* an occurrence of a forbidden word of the original message.
OnlyForbiddenMasked ==
  /\ Len(filtered_message) = Len(message)
  /\ \A q \in DOMAIN message :
       filtered_message[q] # message[q] =>
         /\ filtered_message[q] = Star
         /\ \E w \in DOMAIN Words, p \in DOMAIN message :
              /\ OccursAt(message, Words[w], p)
              /\ q \in p..(p + Len(Words[w]) - 1)

============================================================================
