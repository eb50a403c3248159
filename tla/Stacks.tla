------------------------------- MODULE Stacks -------------------------------
(***************************************************************************)
(* The stacks of the parsers, which are sequences of anything, and what    *)
(* pushing, popping and replacing the top do to them.                      *)
(*                                                                         *)
(* The least number of a set stands in for induction: a claim about all    *)
(* numbers holds if the set of its exceptions can have no least element.   *)
(***************************************************************************)
EXTENDS Integers, Sequences, SequenceTheorems, WellFoundedInduction, TLAPS

IsSequence(s) == s \in Seq({s[k] : k \in DOMAIN s})

(* The ways a sequence changes, under names that keep them folded. *)
Extended(s, e) == Append(s, e)
Popped(s)      == SubSeq(s, 1, Len(s) - 1)
Replaced(s, e) == [s EXCEPT ![Len(s)] = e]
Changed(s, i, e) == [s EXCEPT ![i] = e]

-----------------------------------------------------------------------------
LEMMA LeastNumber ==
  ASSUME NEW T \in SUBSET Nat, T # {}
  PROVE  \E x \in T : \A y \in T : x <= y
<1>1. IsWellFoundedOn(OpToRel(<, Nat), Nat)
  BY NatLessThanWellFounded
<1>2. PICK x \in T : \A y \in T : <<y, x>> \notin OpToRel(<, Nat)
  BY <1>1, WFMin
<1>3. ASSUME NEW y \in T PROVE x <= y
  <2>1. <<y, x>> \in Nat \X Nat /\ <<y, x>>[1] = y /\ <<y, x>>[2] = x
    OBVIOUS
  <2>2. ~ (y < x)
    BY <1>2, <2>1 DEF OpToRel
  <2> QED BY <2>2
<1> QED BY <1>3

(* Every sequence is a sequence of its own elements. *)
LEMMA SequenceOfElements ==
  ASSUME NEW S, NEW s \in Seq(S)
  PROVE  IsSequence(s)
<1> DEFINE R == {s[k] : k \in DOMAIN s}
<1>1. \A i \in 1 .. Len(s) : s[i] \in R
  BY LenProperties
<1>2. Len(s) \in Int /\ SubSeq(s, 1, Len(s)) = s
  BY LenProperties, SubSeqFull
<1>3. SubSeq(s, 1, Len(s)) \in Seq(R)
  <2> HIDE DEF R
  <2> QED BY <1>1, <1>2, SubSeqProperties
<1> QED BY <1>2, <1>3 DEF IsSequence

LEMMA EmptySequence == IsSequence(<< >>) /\ Len(<< >>) = 0 /\ DOMAIN << >> = {}
<1>1. << >> \in Seq({}) /\ Len(<< >>) = 0
  BY EmptySeq
<1>2. DOMAIN << >> = 1 .. Len(<< >>)
  BY <1>1, LenProperties
<1>3. IsSequence(<< >>)
  BY <1>1, SequenceOfElements
<1>4. 1 .. 0 = {}
  OBVIOUS
<1> QED BY <1>1, <1>2, <1>3, <1>4

LEMMA SequenceFacts ==
  ASSUME NEW s, IsSequence(s)
  PROVE  /\ Len(s) \in Nat
         /\ DOMAIN s = 1 .. Len(s)
         /\ s # << >> => Len(s) \in Nat \ {0}
         /\ s = << >> => Len(s) = 0
<1> DEFINE R == {s[k] : k \in DOMAIN s}
<1>1. s \in Seq(R)
  BY DEF IsSequence
<1> HIDE DEF R
<1> QED BY <1>1, LenProperties, EmptySeq

(* What appending an element, dropping the last and replacing it do. *)
LEMMA AppendSequence ==
  ASSUME NEW s, IsSequence(s), NEW e
  PROVE  /\ IsSequence(Extended(s, e))
         /\ Extended(s, e) # << >>
         /\ Len(s) \in Nat
         /\ Len(Extended(s, e)) = Len(s) + 1
         /\ \A k \in 1 .. Len(s) : Extended(s, e)[k] = s[k]
         /\ Extended(s, e)[Len(s) + 1] = e
<1> DEFINE t == Extended(s, e)
           R == {s[k] : k \in DOMAIN s}
           T == R \cup {e}
<1>1. s \in Seq(R)
  BY DEF IsSequence
<1>2. s \in Seq(T) /\ e \in T
  <2> HIDE DEF R
  <2> QED BY <1>1, SeqMonotonic
<1> HIDE DEF T
<1>3. /\ t \in Seq(T)
      /\ t # << >>
      /\ Len(s) \in Nat
      /\ Len(t) = Len(s) + 1
      /\ \A k \in 1 .. Len(s) : t[k] = s[k]
      /\ t[Len(s) + 1] = e
  BY <1>2 DEF Extended
<1>4. IsSequence(t)
  BY <1>3, SequenceOfElements
<1> QED BY <1>3, <1>4

LEMMA PopSequence ==
  ASSUME NEW s, IsSequence(s), s # << >>
  PROVE  /\ IsSequence(Popped(s))
         /\ Len(s) \in Nat \ {0}
         /\ Len(Popped(s)) = Len(s) - 1
         /\ \A k \in 1 .. Len(Popped(s)) : Popped(s)[k] = s[k]
<1> DEFINE p == Popped(s)
           R == {s[k] : k \in DOMAIN s}
<1>1. s \in Seq(R)
  BY DEF IsSequence
<1> HIDE DEF R
<1>2. Len(s) \in Nat \ {0} /\ \A i \in 1 .. Len(s) - 1 : s[i] \in R
  BY <1>1, EmptySeq, LenProperties
<1>3. /\ p \in Seq(R)
      /\ Len(p) = Len(s) - 1
      /\ \A k \in 1 .. Len(s) - 1 : p[k] = s[k]
  <2>1. PICK n \in Nat : n = Len(s) - 1
    BY <1>2
  <2>2. /\ SubSeq(s, 1, n) \in Seq(R)
        /\ Len(SubSeq(s, 1, n)) = IF 1 <= n THEN n - 1 + 1 ELSE 0
        /\ \A i \in 1 .. n - 1 + 1 : SubSeq(s, 1, n)[i] = s[1 + i - 1]
    <3>1. 1 \in Int /\ n \in Int
      OBVIOUS
    <3> QED BY <1>2, <2>1, <3>1, SubSeqProperties
  <2>3. Len(SubSeq(s, 1, n)) = n
    BY <2>2
  <2>4. ASSUME NEW k \in 1 .. n PROVE SubSeq(s, 1, n)[k] = s[k]
    <3>1. k \in 1 .. n - 1 + 1 /\ 1 + k - 1 = k
      OBVIOUS
    <3> QED BY <2>2, <3>1
  <2>5. p = SubSeq(s, 1, n)
    BY <2>1 DEF Popped
  <2> QED BY <2>1, <2>2, <2>3, <2>4, <2>5
<1>4. IsSequence(p)
  BY <1>3, SequenceOfElements
<1> QED BY <1>2, <1>3, <1>4

LEMMA ReplaceLast ==
  ASSUME NEW s, IsSequence(s), s # << >>, NEW e
  PROVE  /\ IsSequence(Replaced(s, e))
         /\ Len(s) \in Nat \ {0}
         /\ Len(Replaced(s, e)) = Len(s)
         /\ Replaced(s, e) # << >>
         /\ Replaced(s, e)[Len(s)] = e
         /\ \A k \in 1 .. Len(s) : k # Len(s) => Replaced(s, e)[k] = s[k]
<1> DEFINE r == Replaced(s, e)
           R == {s[k] : k \in DOMAIN s}
           T == R \cup {e}
<1>1. s \in Seq(R)
  BY DEF IsSequence
<1>2. s \in Seq(T) /\ e \in T
  <2> HIDE DEF R
  <2> QED BY <1>1, SeqMonotonic
<1>3. Len(s) \in Nat \ {0} /\ Len(s) \in 1 .. Len(s)
  <2> HIDE DEF R
  <2> QED BY <1>1, EmptySeq
<1> HIDE DEF T
<1>4. /\ r \in Seq(T)
      /\ Len(r) = Len(s)
      /\ \A j \in 1 .. Len(s) : r[j] = IF j = Len(s) THEN e ELSE s[j]
  BY <1>2, <1>3, ExceptSeq DEF Replaced
<1>5. IsSequence(r)
  BY <1>4, SequenceOfElements
<1>6. r # << >>
  BY <1>3, <1>4, EmptySeq
<1> QED BY <1>3, <1>4, <1>5, <1>6

LEMMA ReplaceAny ==
  ASSUME NEW s, IsSequence(s), NEW i \in 1 .. Len(s), NEW e
  PROVE  /\ IsSequence(Changed(s, i, e)) /\ Len(Changed(s, i, e)) = Len(s)
         /\ Changed(s, i, e)[i] = e
         /\ \A k \in 1 .. Len(s) : k # i => Changed(s, i, e)[k] = s[k]
<1> DEFINE r == Changed(s, i, e)
           R == {s[k] : k \in DOMAIN s}
           T == R \cup {e}
<1>1. s \in Seq(R)
  BY DEF IsSequence
<1>2. s \in Seq(T) /\ e \in T
  <2> HIDE DEF R
  <2> QED BY <1>1, SeqMonotonic
<1> HIDE DEF T
<1>3. /\ r \in Seq(T)
      /\ Len(r) = Len(s)
      /\ \A j \in 1 .. Len(s) : r[j] = IF j = i THEN e ELSE s[j]
  BY <1>2, ExceptSeq DEF Changed
<1>4. IsSequence(r)
  BY <1>3, SequenceOfElements
<1> QED BY <1>3, <1>4

=============================================================================
