---------------------------- MODULE Serde_proofs ----------------------------
(***************************************************************************)
(* Serde, for every value, every impl and every visitor: how deep a        *)
(* deserializer counts itself (DepthCounted), what a builder of the        *)
(* serializer holds (BuildersHold), and what a deserialization that        *)
(* succeeds has of the value (AccountsForParts).  And the integers they    *)
(* handle, of any width (Agreement).                                       *)
(***************************************************************************)
EXTENDS Serde, Scalars, Stacks, FiniteSetTheorems

-----------------------------------------------------------------------------
(***************************************************************************)
(* The deserializer: how deep an access is.                                *)
(***************************************************************************)
Container(a) == a.from.type \in {"array", "dictionary"}

Around(as, d) == {k \in 1 .. d : Container(as[k])}

IsAccess(a) ==
  a = [name |-> a.name, from |-> a.from, rest |-> a.rest, pending |-> a.pending, depth |-> a.depth,
       lax |-> a.lax, got |-> a.got]

LEMMA AroundFacts ==
  ASSUME NEW as, NEW d \in Nat
  PROVE  IsFiniteSet(Around(as, d)) /\ Cardinality(Around(as, d)) \in Nat
<1>1. IsFiniteSet(1 .. d)
  BY FS_Interval
<1>2. Around(as, d) \subseteq 1 .. d
  BY DEF Around
<1>3. IsFiniteSet(Around(as, d))
  BY <1>1, <1>2, FS_Subset
<1> QED BY <1>3, FS_CardinalityType

LEMMA AroundSame ==
  ASSUME NEW as, NEW bs, NEW d \in Nat, \A k \in 1 .. d : bs[k].from = as[k].from
  PROVE  Around(bs, d) = Around(as, d)
  BY DEF Around, Container

(* One more access: a container is one more, anything else is none. *)
LEMMA AroundMore ==
  ASSUME NEW as, NEW d \in Nat
  PROVE  Cardinality(Around(as, d + 1))
           = Cardinality(Around(as, d)) + IF Container(as[d + 1]) THEN 1 ELSE 0
<1>1. IsFiniteSet(Around(as, d)) /\ Cardinality(Around(as, d)) \in Nat
  BY AroundFacts
<1> PICK e \in Nat : e = d + 1
  OBVIOUS
<1>2. d + 1 = e /\ e \notin 1 .. d /\ \A k : k \in 1 .. e <=> k \in 1 .. d \/ k = e
  OBVIOUS
<1>3. CASE Container(as[e])
  <2>1. Around(as, e) = Around(as, d) \cup {e} /\ e \notin Around(as, d)
    BY <1>2, <1>3 DEF Around
  <2>2. Cardinality(Around(as, e)) = Cardinality(Around(as, d)) + 1
    BY <1>1, <2>1, FS_AddElement
  <2> QED BY <1>2, <1>3, <2>2
<1>4. CASE ~ Container(as[e])
  <2>1. Around(as, e) = Around(as, d)
    BY <1>2, <1>4 DEF Around
  <2>2. \A c \in Nat : c + 0 = c
    OBVIOUS
  <2> QED BY <1>1, <1>2, <1>4, <2>1, <2>2
<1> QED BY <1>3, <1>4

(* The length under a name, which keeps it out of plain arithmetic. *)
Size(s, n) == Len(s) = n

LEMMA SizeFacts ==
  ASSUME NEW s, IsSequence(s)
  PROVE  /\ \E n \in Nat : Size(s, n)
         /\ s # << >> => \E n \in Nat \ {0} : Size(s, n)
  BY SequenceFacts DEF Size

(* One more, and the others as they were. *)
OneMoreIs(t, s, n, e) == t[n + 1] = e /\ \A k \in 1 .. n : t[k] = s[k]

LEMMA ExtendedTo ==
  ASSUME NEW s, IsSequence(s), NEW n, Size(s, n), NEW e
  PROVE  /\ IsSequence(Extended(s, e)) /\ Size(Extended(s, e), n + 1)
         /\ OneMoreIs(Extended(s, e), s, n, e)
  BY AppendSequence DEF Size, OneMoreIs

LEMMA PoppedTo ==
  ASSUME NEW s, IsSequence(s), s # << >>, NEW n, Size(s, n)
  PROVE  /\ IsSequence(Popped(s)) /\ Size(Popped(s), n - 1)
         /\ \A k \in 1 .. n - 1 : Popped(s)[k] = s[k]
  BY PopSequence DEF Size

(* Only the last one is another. *)
LastIs(t, s, n, e) == t[n] = e /\ \A k \in 1 .. n : k # n => t[k] = s[k]

LEMMA ReplacedTo ==
  ASSUME NEW s, IsSequence(s), s # << >>, NEW n, Size(s, n), NEW e
  PROVE  /\ IsSequence(Replaced(s, e)) /\ Size(Replaced(s, e), n)
         /\ LastIs(Replaced(s, e), s, n, e)
  BY ReplaceLast DEF Size, LastIs

(* The first n accesses are as deep as the containers they are in.         *)
NestedTo(as, n) ==
  \A d \in 1 .. n :
    IsAccess(as[d]) /\ as[d].depth = Cardinality(Around(as, d)) /\ as[d].depth <= MaxParseDepth

Nested(as) == IsSequence(as) /\ \A n : Size(as, n) => NestedTo(as, n)

LEMMA NestedEmpty == Nested(<< >>) /\ Around(<< >>, 0) = {}
<1>1. IsSequence(<< >>) /\ \A n : Size(<< >>, n) => n = 0
  BY EmptySequence DEF Size
<1>2. Around(<< >>, 0) = {} /\ NestedTo(<< >>, 0)
  BY DEF Around, NestedTo
<1> QED BY <1>1, <1>2 DEF Nested

(* A value inside of the innermost access may be as deep as the cap. *)
LEMMA NestedBound ==
  ASSUME NEW as, NEW n \in Nat, NestedTo(as, n)
  PROVE  Cardinality(Around(as, n)) \in Nat /\ Cardinality(Around(as, n)) <= MaxParseDepth
<1>1. Cardinality(Around(as, n)) \in Nat
  BY AroundFacts
<1>2. CASE n = 0
  <2>1. Around(as, n) = {}
    BY <1>2 DEF Around
  <2>2. Cardinality(Around(as, n)) = 0
    BY <2>1, FS_EmptySet
  <2> QED BY <2>2, DeserializerAssumption
<1>3. CASE n # 0
  <2>1. n \in 1 .. n
    BY <1>3
  <2>2. as[n].depth = Cardinality(Around(as, n)) /\ as[n].depth <= MaxParseDepth
    BY <2>1 DEF NestedTo
  <2> QED BY <1>1, <2>2
<1> QED BY <1>2, <1>3

LEMMA NestedSame ==
  ASSUME NEW as, NEW bs, NEW n \in Nat, NestedTo(as, n),
         \A d \in 1 .. n : bs[d].from = as[d].from /\ bs[d].depth = as[d].depth /\ IsAccess(bs[d])
  PROVE  NestedTo(bs, n) /\ Around(bs, n) = Around(as, n)
<1>1. ASSUME NEW d \in 0 .. n PROVE Around(bs, d) = Around(as, d)
  <2>1. d \in Nat /\ \A k \in 1 .. d : k \in 1 .. n
    OBVIOUS
  <2> QED BY <2>1, AroundSame
<1>2. n \in 0 .. n /\ \A d \in 1 .. n : d \in 0 .. n
  OBVIOUS
<1> QED BY <1>1, <1>2 DEF NestedTo

LEMMA NestedFewer ==
  ASSUME NEW as, NEW n \in Nat \ {0}, NestedTo(as, n)
  PROVE  NestedTo(as, n - 1)
<1>1. \A d \in 1 .. n - 1 : d \in 1 .. n
  OBVIOUS
<1> QED BY <1>1 DEF NestedTo

LEMMA NestedMore ==
  ASSUME NEW as, NEW n \in Nat, NestedTo(as, n), IsAccess(as[n + 1]), as[n + 1].depth <= MaxParseDepth,
         as[n + 1].depth = Cardinality(Around(as, n)) + IF Container(as[n + 1]) THEN 1 ELSE 0
  PROVE  NestedTo(as, n + 1)
<1>1. as[n + 1].depth = Cardinality(Around(as, n + 1))
  BY AroundMore
<1>2. ASSUME NEW d \in 1 .. n + 1 PROVE d \in 1 .. n \/ d = n + 1
  <2> QED BY ONLY n \in Nat, d \in 1 .. n + 1
<1> QED BY <1>1, <1>2 DEF NestedTo

(* What a deserializer enters is as deep as the containers around it. *)
Fits(a, depth) ==
  IsAccess(a) /\ a.depth <= MaxParseDepth /\ a.depth = depth + IF Container(a) THEN 1 ELSE 0

LEMMA EnteredAt ==
  ASSUME NEW name, NEW s, NEW rest, s.value.type \in {"array", "dictionary"}, s.depth \in Nat,
         EnterAt(name, s, rest, Descend(s.depth)).does = "enter"
  PROVE  Fits(EnterAt(name, s, rest, Descend(s.depth)).access, s.depth)
<1>1. Descend(s.depth) # {}
  BY DEF EnterAt, Fail
<1>2. s.depth + 1 <= MaxParseDepth /\ Descend(s.depth) = {s.depth + 1}
  BY <1>1, DeserializerAssumption DEF Descend
<1> PICK a : a = EnterAt(name, s, rest, Descend(s.depth)).access
  OBVIOUS
<1>3. a = Access(name, s.value, rest, {}, s.depth + 1, s.lax)
  BY <1>1, <1>2 DEF EnterAt, Enter
<1>4. IsAccess(a) /\ a.from = s.value /\ a.depth = s.depth + 1
  BY <1>3 DEF Access, IsAccess
<1> QED BY <1>2, <1>4 DEF Fits, Container

(* One at the depth of the deserializer itself. *)
LEMMA EnteredFlat ==
  ASSUME NEW name, NEW from, NEW rest, NEW pending, NEW depth \in Nat, NEW soft, depth <= MaxParseDepth,
         from.type \notin {"array", "dictionary"}
  PROVE  Fits(Access(name, from, rest, pending, depth, soft), depth)
<1> PICK a : a = Access(name, from, rest, pending, depth, soft)
  OBVIOUS
<1>1. IsAccess(a) /\ a.from = from /\ a.depth = depth
  BY DEF Access, IsAccess
<1> QED BY <1>1 DEF Fits, Container

LEMMA ContainerEntered ==
  ASSUME NEW s, s.depth \in Nat, Descend(s.depth) # {}
  PROVE  /\ s.value.type = "array" => Fits(visit_array(s).access, s.depth)
         /\ s.value.type = "dictionary" => Fits(visit_dictionary(s).access, s.depth)
<1>1. visit_array(s).does = "enter" /\ visit_dictionary(s).does = "enter"
  BY DEF visit_array, visit_dictionary, EnterAt, Enter
<1> QED BY <1>1, EnteredAt DEF visit_array, visit_dictionary

LEMMA NothingEntered ==
  /\ \A value : Visit(value).does # "enter"
  /\ \A kind : Fail(kind).does # "enter"
  /\ Mismatch.does # "enter"
  /\ \A scalars : Coerced(scalars).does # "enter"
<1>1. \A value : Visit(value).does # "enter"
  BY DEF Visit
<1>2. \A kind : Fail(kind).does # "enter"
  BY DEF Fail
<1> QED BY <1>1, <1>2 DEF Mismatch, Coerced

(* No scalar is a way into an access. *)
LEMMA ScalarsEnterNothing ==
  ASSUME NEW s, NEW parsed
  PROVE  /\ integer_target(s, parsed).does # "enter" /\ float_target(s).does # "enter"
         /\ deserialize_bool(s).does # "enter" /\ string_target(s).does # "enter"
         /\ date_sentinel(s).does # "enter"
<1>1. integer_target(s, parsed).does # "enter"
  BY NothingEntered DEF integer_target
<1>2. float_target(s).does # "enter"
  BY NothingEntered DEF float_target
<1>3. deserialize_bool(s).does # "enter"
  BY NothingEntered DEF deserialize_bool
<1>4. string_target(s).does # "enter"
  BY NothingEntered DEF string_target
<1>5. \A dates : visit_date(dates).does # "enter"
  BY NothingEntered DEF visit_date
<1>6. date_sentinel(s).does # "enter"
  BY <1>5, NothingEntered DEF date_sentinel
<1> QED BY <1>1, <1>2, <1>3, <1>4, <1>6

LEMMA AnyEnters ==
  ASSUME NEW s, deserialize_any(s).does = "enter"
  PROVE  \/ s.value.type = "array" /\ deserialize_any(s) = visit_array(s)
         \/ s.value.type = "dictionary" /\ deserialize_any(s) = visit_dictionary(s)
<1>1. ASSUME NEW payload, payload.type \in {"integer", "string"}
      PROVE  Replayed(payload).does # "enter"
  <2>1. \A dates : ReplayedDate(dates).does # "enter"
    BY NothingEntered DEF ReplayedDate
  <2>2. CASE payload.type = "integer"
    BY <2>2, NothingEntered DEF Replayed
  <2>3. CASE payload.type = "string"
    BY <2>1, <2>3 DEF Replayed
  <2> QED BY <1>1, <2>2, <2>3
<1>2. \A n : Integer(n).type \in {"integer", "string"}
  BY DEF Integer
<1>3. \A t : String(t).type \in {"integer", "string"}
  BY DEF String, Scalar
<1> QED BY <1>1, <1>2, <1>3, NothingEntered DEF deserialize_any

LEMMA Entered ==
  ASSUME NEW hint \in Hints, NEW s, s.depth \in Nat, s.depth <= MaxParseDepth, Asked(hint, s).does = "enter"
  PROVE  Fits(Asked(hint, s).access, s.depth)
<1>1. ~ (s.depth > MaxParseDepth)
  BY DeserializerAssumption
<1>2. s.value.type = "array" /\ visit_array(s).does = "enter" => Fits(visit_array(s).access, s.depth)
  BY EnteredAt DEF visit_array
<1>3. s.value.type = "dictionary" /\ visit_dictionary(s).does = "enter" => Fits(visit_dictionary(s).access, s.depth)
  BY EnteredAt DEF visit_dictionary
<1>4. CASE hint \in {"bool", "signed", "unsigned", "float", "string", "unit", "uid", "date"}
  <2>1. Asked(hint, s).does # "enter"
    BY <1>1, <1>4, ScalarsEnterNothing, NothingEntered DEF Asked
  <2> QED BY <2>1
<1>5. CASE hint = "any"
  <2>1. Asked(hint, s) = deserialize_any(s)
    BY <1>1, <1>5 DEF Asked
  <2> QED BY <1>2, <1>3, <2>1, AnyEnters
<1>6. CASE hint = "bytes"
  BY <1>1, <1>2, <1>6, NothingEntered DEF Asked
<1>7. CASE hint = "seq"
  <2>1. s.value.type = "data" => Fits(visit_bytes(s).access, s.depth)
    <3>1. ASSUME s.value.type = "data" PROVE Fits(visit_bytes(s).access, s.depth)
      <4> DEFINE numbers == [k \in DOMAIN s.value.bytes |-> Integer(ByteOf(s.value.bytes[k]))]
      <4>1. Fits(Access("seq", s.value, numbers, {}, s.depth, s.lax), s.depth)
        BY <3>1, EnteredFlat
      <4>2. visit_bytes(s).access = Access("seq", s.value, numbers, {}, s.depth, s.lax)
        BY DEF visit_bytes, EnterAt, Enter
      <4> QED BY <4>1, <4>2
    <3> QED BY <3>1
  <2> QED BY <1>1, <1>2, <1>7, <2>1, NothingEntered DEF Asked
<1>8. CASE hint = "map"
  BY <1>1, <1>3, <1>8, NothingEntered DEF Asked
<1>9. CASE hint = "enum"
  <2>1. Asked(hint, s) = deserialize_enum(s)
    BY <1>1, <1>9 DEF Asked
  <2>2. CASE s.value.type = "string"
    <3>1. deserialize_enum(s).access = Access("enum", s.value, <<s.value.text>>, {}, s.depth, s.lax)
      BY <2>2 DEF deserialize_enum, Enter
    <3>2. Fits(Access("enum", s.value, <<s.value.text>>, {}, s.depth, s.lax), s.depth)
      BY <2>2, EnteredFlat
    <3> QED BY <2>1, <3>1, <3>2
  <2>3. CASE s.value.type = "dictionary"
    <3> DEFINE names == [k \in DOMAIN s.value.entries |-> s.value.entries[k].key]
    <3>1. deserialize_enum(s).does = "enter"
          => deserialize_enum(s) = EnterAt("enum", s, names, Descend(s.depth))
      BY <2>3, NothingEntered DEF deserialize_enum
    <3> HIDE DEF names
    <3> QED BY <2>1, <2>3, <3>1, EnteredAt
  <2>4. CASE s.value.type \notin {"string", "dictionary"}
    BY <2>1, <2>4, NothingEntered DEF deserialize_enum
  <2> QED BY <2>2, <2>3, <2>4
<1> QED BY <1>4, <1>5, <1>6, <1>7, <1>8, <1>9 DEF Hints

LEMMA NestedPushed ==
  ASSUME NEW as, Nested(as), NEW n \in Nat, Size(as, n), NEW a, Fits(a, Cardinality(Around(as, n)))
  PROVE  Nested(Extended(as, a))
<1> PICK e : e = Extended(as, a)
  OBVIOUS
<1>1. IsSequence(as) /\ NestedTo(as, n)
  BY DEF Nested
<1>2. IsSequence(e) /\ Size(e, n + 1) /\ OneMoreIs(e, as, n, a)
  BY <1>1, ExtendedTo
<1>3. \A d \in 1 .. n : IsAccess(as[d])
  BY <1>1 DEF NestedTo
<1>4. NestedTo(e, n) /\ Around(e, n) = Around(as, n)
  <2>1. \A d \in 1 .. n : e[d].from = as[d].from /\ e[d].depth = as[d].depth /\ IsAccess(e[d])
    BY <1>2, <1>3 DEF OneMoreIs
  <2> QED BY ONLY n \in Nat, <1>1, <2>1, NestedSame
<1>5. NestedTo(e, n + 1)
  BY <1>2, <1>4, NestedMore DEF Fits, OneMoreIs
<1> QED BY <1>2, <1>5 DEF Nested, Size

(* The accesses, and what is handed out and returned. *)
DeIInv ==
  /\ Nested(accesses)
  /\ \A n : Size(accesses, n) => \A s \in seed : s.depth = Cardinality(Around(accesses, n))
  /\ seed = {} \/ answer = {}

LEMMA AskDeIInv ==
  ASSUME DeIInv, NEW hint \in Hints, Ask(hint)
  PROVE  DeIInv'
<1> PICK n \in Nat : Size(accesses, n)
  BY SizeFacts DEF DeIInv, Nested
<1> PICK s : s = Seed
  OBVIOUS
<1> PICK c \in Nat : c = Cardinality(Around(accesses, n)) /\ c <= MaxParseDepth
  BY NestedBound DEF DeIInv, Nested
<1>1. s \in seed /\ s.depth = c /\ answer = {}
  BY DEF Ask, Seed, DeIInv
<1>2. seed' = {}
  BY DEF Ask
<1>3. CASE UNCHANGED accesses
  BY <1>2, <1>3 DEF DeIInv
<1>4. CASE accesses' = Append(accesses, Asked(hint, s).access) /\ Asked(hint, s).does = "enter" /\ UNCHANGED answer
  <2>1. Fits(Asked(hint, s).access, c)
    BY <1>1, <1>4, Entered
  <2>2. accesses' = Extended(accesses, Asked(hint, s).access)
    BY <1>4 DEF Extended
  <2>3. Nested(accesses')
    BY <2>1, <2>2, NestedPushed DEF DeIInv
  <2> QED BY <1>2, <2>3 DEF DeIInv
<1> QED BY <1>3, <1>4 DEF Ask

LEMMA NestedPopped ==
  ASSUME NEW as, Nested(as), as # << >>
  PROVE  Nested(Popped(as))
<1>0. IsSequence(as)
  BY DEF Nested
<1> PICK n \in Nat \ {0} : Size(as, n)
  BY <1>0, SizeFacts
<1> PICK p : p = Popped(as)
  OBVIOUS
<1>1. IsSequence(p) /\ Size(p, n - 1) /\ \A k \in 1 .. n - 1 : p[k] = as[k]
  BY <1>0, PoppedTo
<1>2. NestedTo(as, n - 1)
  BY NestedFewer DEF Nested
<1>3. n - 1 \in Nat
  OBVIOUS
<1>4. \A d \in 1 .. n - 1 : IsAccess(as[d])
  BY <1>2 DEF NestedTo
<1>5. NestedTo(p, n - 1)
  BY <1>1, <1>2, <1>3, <1>4, NestedSame
<1> QED BY <1>1, <1>5 DEF Nested, Size

SamePlace(a, b) == a.from = b.from /\ a.depth = b.depth

LEMMA NestedReplaced ==
  ASSUME NEW as, Nested(as), as # << >>, NEW n \in Nat, Size(as, n),
         NEW a, IsAccess(a), SamePlace(a, as[n])
  PROVE  /\ Nested(Replaced(as, a)) /\ Size(Replaced(as, a), n)
         /\ Around(Replaced(as, a), n) = Around(as, n)
<1>1. IsSequence(as) /\ NestedTo(as, n)
  BY DEF Nested
<1> PICK r : r = Replaced(as, a)
  OBVIOUS
<1>2. IsSequence(r) /\ Size(r, n) /\ LastIs(r, as, n, a)
  BY <1>1, ReplacedTo
<1>3. \A d \in 1 .. n : IsAccess(as[d])
  BY <1>1 DEF NestedTo
<1>4. ASSUME NEW d \in 1 .. n
      PROVE  r[d].from = as[d].from /\ r[d].depth = as[d].depth /\ IsAccess(r[d])
  <2>1. CASE d = n
    BY <1>2, <2>1 DEF SamePlace, LastIs
  <2>2. CASE d # n
    BY <1>2, <1>3, <2>2 DEF LastIs
  <2> QED BY <2>1, <2>2
<1>5. NestedTo(r, n) /\ Around(r, n) = Around(as, n)
  BY ONLY n \in Nat, <1>1, <1>4, NestedSame
<1> QED BY <1>2, <1>5 DEF Nested, Size

(* A visitor is done, or gives up: its access goes.                        *)
LEMMA LeavesAccess ==
  ASSUME DeIInv, accesses # << >>, accesses' = Outer, seed = {}, seed' = seed
  PROVE  DeIInv'
<1>1. Nested(accesses')
  BY NestedPopped DEF DeIInv, Outer, Popped
<1> QED BY <1>1 DEF DeIInv

(* An access hands out a value, or takes what became of one.               *)
LEMMA ChangesAccess ==
  ASSUME DeIInv, accesses # << >>, NEW a, IsAccess(a), a.from = Inner.from, a.depth = Inner.depth,
         accesses' = WithInner(a), \A s \in seed' : s.depth = Inner.depth, seed' = {} \/ answer' = {}
  PROVE  DeIInv'
<1>0. Nested(accesses) /\ IsSequence(accesses)
  BY DEF DeIInv, Nested
<1> PICK n \in Nat \ {0} : Size(accesses, n)
  BY <1>0, SizeFacts
<1>1. accesses' = Replaced(accesses, a)
  BY DEF WithInner, Replaced
<1>4. Inner = accesses[n]
  BY DEF Inner, Size
<1>2. Nested(accesses') /\ Size(accesses', n) /\ Around(accesses', n) = Around(accesses, n)
  <2>1. SamePlace(a, accesses[n])
    BY <1>4 DEF SamePlace
  <2> QED BY <1>0, <1>1, <2>1, NestedReplaced
<1>3. n \in 1 .. n
  OBVIOUS
<1>5. Inner.depth = Cardinality(Around(accesses, n))
  BY <1>0, <1>3, <1>4 DEF Nested, NestedTo
<1> QED BY <1>2, <1>5 DEF DeIInv, Size

LEMMA InnerIsAccess ==
  ASSUME DeIInv, accesses # << >>
  PROVE  IsAccess(Inner)
<1>0. Nested(accesses) /\ IsSequence(accesses)
  BY DEF DeIInv, Nested
<1> PICK n \in Nat \ {0} : Size(accesses, n)
  BY <1>0, SizeFacts
<1>1. n \in 1 .. n
  OBVIOUS
<1> QED BY <1>0, <1>1 DEF Nested, NestedTo, Inner, Size

(* What an access is asked for changes neither its place nor its depth.    *)
Turned(a, b) == \E x : b = [a EXCEPT !.rest = x] \/ b = [a EXCEPT !.pending = x] \/ b = [a EXCEPT !.got = x]
TurnedTwice(a, b) == \E x, y : b = [a EXCEPT !.rest = x, !.pending = y]

LEMMA AccessTurned ==
  ASSUME NEW a, IsAccess(a), NEW b, Turned(a, b)
  PROVE  IsAccess(b) /\ b.from = a.from /\ b.depth = a.depth
<1> PICK x : b = [a EXCEPT !.rest = x] \/ b = [a EXCEPT !.pending = x] \/ b = [a EXCEPT !.got = x]
  BY DEF Turned
<1>1. CASE b = [a EXCEPT !.rest = x]
  BY <1>1 DEF IsAccess
<1>2. CASE b = [a EXCEPT !.pending = x]
  BY <1>2 DEF IsAccess
<1>3. CASE b = [a EXCEPT !.got = x]
  BY <1>3 DEF IsAccess
<1> QED BY <1>1, <1>2, <1>3

LEMMA AccessTurnedTwice ==
  ASSUME NEW a, IsAccess(a), NEW b, TurnedTwice(a, b)
  PROVE  IsAccess(b) /\ b.from = a.from /\ b.depth = a.depth
<1>1. PICK x, y : b = [a EXCEPT !.rest = x, !.pending = y]
  BY DEF TurnedTwice
<1> PICK c : c = [a EXCEPT !.rest = x]
  OBVIOUS
<1>2. Turned(a, c)
  BY DEF Turned
<1>3. b = [c EXCEPT !.pending = y]
  BY <1>1
<1>4. Turned(c, b)
  BY <1>3 DEF Turned
<1> HIDE <1>1, <1>3
<1>5. IsAccess(c) /\ c.from = a.from /\ c.depth = a.depth
  BY ONLY IsAccess(a), <1>2, AccessTurned
<1>6. IsAccess(b) /\ b.from = c.from /\ b.depth = c.depth
  BY ONLY <1>4, <1>5, AccessTurned
<1> QED BY <1>5, <1>6

(* A visitor gives up or is done. *)
LEMMA LeaveDeIInv ==
  ASSUME DeIInv, Refuse \/ ValueRequestedFirst \/ UnitVariant \/ VariantFails \/ Finish \/ FinishVariant
                 \/ ReturnError \/ DropEnum \/ DropVariant
  PROVE  DeIInv'
<1>1. seed' = seed
  BY DEF Refuse, ValueRequestedFirst, UnitVariant, VariantFails, Finish, FinishVariant, ReturnError, DropEnum,
         DropVariant
<1>2. seed = {}
  BY DEF Refuse, ValueRequestedFirst, UnitVariant, VariantFails, VariantNamed, Visiting, Finish,
         FinishVariant, ReturnError, DropEnum, DropVariant, DeIInv
<1>3. accesses' = accesses \/ (accesses # << >> /\ accesses' = Outer)
  BY DEF Refuse, ValueRequestedFirst, UnitVariant, VariantFails, VariantNamed, Visiting, InnerIs, Finish,
         FinishVariant, ReturnError, DropEnum, DropVariant
<1>4. CASE accesses' = accesses
  BY <1>1, <1>2, <1>4 DEF DeIInv
<1> QED BY <1>1, <1>2, <1>3, <1>4, LeavesAccess

(* It lets go of what it was handed, or makes do without. *)
LEMMA MakeDoDeIInv ==
  ASSUME DeIInv, MakeDo
  PROVE  DeIInv'
  BY DEF DeIInv, MakeDo

LEMMA HandOutDeIInv ==
  ASSUME DeIInv, accesses # << >>, seed = {}, answer = {}, NEW value, NEW soft, NEW a, IsAccess(a),
         a.from = Inner.from, a.depth = Inner.depth, HandOut(At(value, Inner.depth, soft), a)
  PROVE  DeIInv'
<1>1. \A s \in seed' : s.depth = Inner.depth
  BY DEF HandOut, At
<1>2. accesses' = WithInner(a) /\ answer' = {}
  BY DEF HandOut
<1> QED BY <1>1, <1>2, ChangesAccess

(* A visitor takes an element, a key, a value, or the name of a variant.   *)
LEMMA NextDeIInv ==
  ASSUME DeIInv, NextElement \/ NextKey \/ NextValue \/ NextVariant \/ NewtypeVariant
  PROVE  DeIInv'
<1>1. accesses # << >> /\ seed = {} /\ answer = {}
  BY DEF NextElement, NextKey, NextValue, NextVariant, NewtypeVariant, VariantNamed, Visiting, InnerIs
<1>2. IsAccess(Inner)
  BY <1>1, InnerIsAccess
<1>3. CASE NextElement
  <2>1. PICK value, soft, a : Turned(Inner, a) /\ HandOut(At(value, Inner.depth, soft), a)
    BY <1>3 DEF NextElement, Turned
  <2>2. IsAccess(a) /\ a.from = Inner.from /\ a.depth = Inner.depth
    BY <1>2, <2>1, AccessTurned
  <2> QED BY <1>1, <2>1, <2>2, HandOutDeIInv
<1>4. CASE NextKey
  <2>1. PICK value, soft, a : TurnedTwice(Inner, a) /\ HandOut(At(value, Inner.depth, soft), a)
    BY <1>4 DEF NextKey, TurnedTwice
  <2>2. IsAccess(a) /\ a.from = Inner.from /\ a.depth = Inner.depth
    BY <1>2, <2>1, AccessTurnedTwice
  <2> QED BY <1>1, <2>1, <2>2, HandOutDeIInv
<1>5. CASE NextValue \/ NewtypeVariant
  <2>1. PICK value, soft, a : Turned(Inner, a) /\ HandOut(At(value, Inner.depth, soft), a)
    BY <1>5 DEF NextValue, NewtypeVariant, Turned
  <2>2. IsAccess(a) /\ a.from = Inner.from /\ a.depth = Inner.depth
    BY <1>2, <2>1, AccessTurned
  <2> QED BY <1>1, <2>1, <2>2, HandOutDeIInv
<1>6. CASE NextVariant
  <2>1. PICK value, soft, a : TurnedTwice(Inner, a) /\ HandOut(At(value, Inner.depth, soft), a)
    BY <1>6 DEF NextVariant, TurnedTwice
  <2>2. IsAccess(a) /\ a.from = Inner.from /\ a.depth = Inner.depth
    BY <1>2, <2>1, AccessTurnedTwice
  <2> QED BY <1>1, <2>1, <2>2, HandOutDeIInv
<1> QED BY <1>3, <1>4, <1>5, <1>6

LEMMA TakeDeIInv ==
  ASSUME DeIInv, TakeAnswer
  PROVE  DeIInv'
<1>1. accesses # << >> /\ answer' = {} /\ seed' = seed /\ seed = {}
  BY DEF TakeAnswer, DeIInv
<1>2. PICK a : Turned(Inner, a) /\ accesses' = WithInner(a)
  BY DEF TakeAnswer, Turned
<1>3. IsAccess(a) /\ a.from = Inner.from /\ a.depth = Inner.depth
  BY <1>1, <1>2, InnerIsAccess, AccessTurned
<1> QED BY <1>1, <1>2, <1>3, ChangesAccess

(* A variant's array or dictionary is entered at once. *)
LEMMA ContainerVariantDeIInv ==
  ASSUME DeIInv, NEW type \in {"array", "dictionary"}, ContainerVariant(type)
  PROVE  DeIInv'
<1>1. accesses # << >> /\ seed = {} /\ seed' = seed
  BY DEF ContainerVariant, VariantNamed, Visiting, InnerIs
<1>2. PICK value : /\ value.type = type /\ Descend(Inner.depth) # {}
                   /\ LET s == At(value, Inner.depth, Inner.lax)
                          inside == IF type = "array" THEN visit_array(s) ELSE visit_dictionary(s)
                      IN accesses' = Append(WithInner([Inner EXCEPT !.pending = {}]), inside.access)
  BY DEF ContainerVariant
<1> PICK s : s = At(value, Inner.depth, Inner.lax)
  OBVIOUS
<1> PICK a : a = [Inner EXCEPT !.pending = {}]
  OBVIOUS
<1> PICK e : e = IF type = "array" THEN visit_array(s).access ELSE visit_dictionary(s).access
  OBVIOUS
<1>3. IsAccess(a) /\ a.from = Inner.from /\ a.depth = Inner.depth
  <2>1. Turned(Inner, a)
    BY DEF Turned
  <2> QED BY <1>1, <2>1, InnerIsAccess, AccessTurned
<1>4. Nested(accesses) /\ IsSequence(accesses)
  BY DEF DeIInv, Nested
<1> PICK n \in Nat \ {0} : Size(accesses, n)
  BY <1>1, <1>4, SizeFacts
<1>5. Inner = accesses[n]
  BY DEF Inner, Size
<1> PICK w : w = Replaced(accesses, a)
  OBVIOUS
<1>6. Nested(w) /\ Size(w, n) /\ Around(w, n) = Around(accesses, n)
  <2>1. SamePlace(a, accesses[n])
    BY <1>3, <1>5 DEF SamePlace
  <2> QED BY <1>1, <1>3, <1>4, <2>1, NestedReplaced
<1>7. Inner.depth = Cardinality(Around(w, n)) /\ Inner.depth \in Nat
  <2>1. n \in 1 .. n
    OBVIOUS
  <2>2. Inner.depth = Cardinality(Around(accesses, n))
    BY <1>4, <1>5, <2>1 DEF Nested, NestedTo
  <2> QED BY <1>6, <2>2, AroundFacts
<1>8. Fits(e, Inner.depth)
  <2>1. s.value = value /\ s.depth = Inner.depth
    BY DEF At
  <2>2. value.type = type /\ Descend(Inner.depth) # {}
    BY <1>2
  <2> QED BY ONLY type \in {"array", "dictionary"}, <1>7, <2>1, <2>2, ContainerEntered,
                  e = IF type = "array" THEN visit_array(s).access ELSE visit_dictionary(s).access
<1>9. accesses' = Extended(w, e)
  BY <1>2 DEF WithInner, Replaced, Extended
<1>10. Nested(accesses')
  BY <1>6, <1>7, <1>8, <1>9, NestedPushed
<1> QED BY <1>1, <1>10 DEF DeIInv

SdIInv == DeIInv /\ (visitor = "none" => accesses = << >> /\ seed = {} /\ answer = {})

LEMMA SdInit == SerdeInit => SdIInv
<1> SUFFICES ASSUME SerdeInit PROVE SdIInv
  OBVIOUS
<1>1. accesses = << >> /\ seed = {} /\ answer = {} /\ Nested(accesses)
  BY NestedEmpty DEF SerdeInit
<1> QED BY <1>1 DEF SdIInv, DeIInv

LEMMA DeserializeSdIInv ==
  ASSUME SdIInv, Deserialize
  PROVE  SdIInv'
<1>1. visitor' # "none" /\ DeIInv
  BY DEF Deserialize, SdIInv
<1>2. VisitValue => DeIInv'
  <2>1. ASSUME VisitValue
        PROVE  \/ \E hint \in Hints : Ask(hint)
               \/ NextElement \/ NextKey \/ NextValue \/ Finish \/ TakeAnswer \/ ReturnError
    BY <2>1 DEF VisitValue, Hints
  <2> QED BY <1>1, <2>1, AskDeIInv, LeaveDeIInv, NextDeIInv, TakeDeIInv
<1>3. VisitOther => DeIInv'
  <2>1. ASSUME VisitOther
        PROVE  \/ \E hint \in Hints : Ask(hint)
               \/ \E type \in {"array", "dictionary"} : ContainerVariant(type)
               \/ NextElement \/ NextKey \/ NextValue \/ NextVariant \/ NewtypeVariant \/ TakeAnswer
               \/ Refuse \/ ValueRequestedFirst \/ UnitVariant \/ VariantFails \/ Finish \/ FinishVariant
               \/ ReturnError \/ MakeDo \/ DropEnum \/ DropVariant
    BY <2>1 DEF VisitOther, Hints
  <2> QED BY <1>1, <2>1, AskDeIInv, ContainerVariantDeIInv, LeaveDeIInv, NextDeIInv, TakeDeIInv, MakeDoDeIInv
<1> QED BY <1>1, <1>2, <1>3 DEF Deserialize, SdIInv

LEMMA HandOverSdIInv ==
  ASSUME SdIInv, HandOver
  PROVE  SdIInv'
<1>1. accesses' = << >> /\ answer' = {} /\ visitor' # "none"
  BY DEF HandOver, SdIInv
<1>2. \A s \in seed' : s.depth = 0
  BY DEF HandOver, At
<1>3. Nested(accesses')
  BY <1>1, NestedEmpty
<1>4. \A n : Size(accesses', n) => Cardinality(Around(accesses', n)) = 0
  <2>1. \A n : Size(<< >>, n) => n = 0
    BY EmptySequence DEF Size
  <2>2. Cardinality(Around(<< >>, 0)) = 0
    BY NestedEmpty, FS_EmptySet
  <2> QED BY <1>1, <2>1, <2>2
<1> QED BY <1>1, <1>2, <1>3, <1>4 DEF SdIInv, DeIInv, Size

LEMMA SdStep == SdIInv /\ [SerdeNext]_serdeVars => SdIInv'
<1> SUFFICES ASSUME SdIInv, [SerdeNext]_serdeVars PROVE SdIInv'
  OBVIOUS
<1>1. CASE Serialize \/ Stop \/ UNCHANGED serdeVars
  <2>1. accesses' = accesses /\ seed' = seed /\ answer' = answer /\ visitor' = visitor
    BY <1>1 DEF Serialize, Stop, serdeVars, deVars
  <2> QED BY <2>1 DEF SdIInv, DeIInv
<1>2. CASE Deserialize
  BY <1>2, DeserializeSdIInv
<1>3. CASE HandOver
  BY <1>3, HandOverSdIInv
<1> QED BY <1>1, <1>2, <1>3 DEF SerdeNext

LEMMA SdDepth == SdIInv => DepthCountsContainers
<1> SUFFICES ASSUME SdIInv PROVE DepthCountsContainers
  OBVIOUS
<1>1. IsSequence(accesses) /\ \A n : Size(accesses, n) => NestedTo(accesses, n)
  BY DEF SdIInv, DeIInv, Nested
<1>2. \A n : Size(accesses, n) => \A s \in seed : s.depth = Cardinality(Around(accesses, n))
  BY DEF SdIInv, DeIInv
<1> PICK n \in Nat : Size(accesses, n)
  BY <1>1, SizeFacts
<1>3. Len(accesses) = n /\ DOMAIN accesses = 1 .. n
  BY <1>1, SequenceFacts DEF Size
<1>4. \A d \in DOMAIN accesses : accesses[d].depth = Cardinality(Around(accesses, d))
                                 /\ accesses[d].depth <= MaxParseDepth
  BY <1>1, <1>3 DEF NestedTo
<1>5. \A s \in seed : s.depth = Cardinality(Around(accesses, Len(accesses)))
  BY <1>2 DEF Size
<1> QED BY <1>4, <1>5 DEF DepthCountsContainers, Around, Container

(* de.rs guard_descent and guard_entry: whatever visitor runs, of whatever *)
(* value, a deserializer's depth is the number of arrays and dictionaries  *)
(* it is in, and no access is deeper than the cap.                         *)
THEOREM DepthCounted == SerdeSpec => []DepthCountsContainers
<1> QED BY SdInit, SdStep, SdDepth, PTL DEF SerdeSpec

-----------------------------------------------------------------------------
(***************************************************************************)
(* The serializer: what was handed to a builder.                           *)
(***************************************************************************)
(* The keys that got a value, and the first and the last of the same key,  *)
(* in what was given: ValueSerializer's, of a sequence.                    *)
PairsIn(g)     == {j \in 1 .. Len(g) - 1 : g[j].what = "key" /\ g[j + 1].what = "value"}
ValuesIn(g)    == {j \in DOMAIN g : g[j].what = "value"}
IsFirst(g, j)  == \A i \in PairsIn(g) : g[i].text = g[j].text => j <= i
IsLast(g, j)   == \A i \in PairsIn(g) : g[i].text = g[j].text => i <= j

LastGiven(g, key, value) ==
  \E j \in PairsIn(g) : IsLast(g, j) /\ g[j].text = key /\ g[j + 1].value = value
Held(en, key, value) == \E p \in DOMAIN en : en[p].key = key /\ en[p].value = value

EntriesAreLast(en, g) == \A key, value : Held(en, key, value) <=> LastGiven(g, key, value)

FirstBefore(g, key, other) ==
  \E i, j \in PairsIn(g) : IsFirst(g, i) /\ IsFirst(g, j) /\ i < j /\ g[i].text = key /\ g[j].text = other

InFirstOrder(en, g) == \A k, l \in DOMAIN en : k < l => FirstBefore(g, en[k].key, en[l].key)

LEMMA PairsBounds ==
  ASSUME NEW g, NEW n \in Nat, Size(g, n), NEW j \in PairsIn(g)
  PROVE  j \in Nat /\ j \in 1 .. n /\ j + 1 \in 1 .. n /\ j < n
<1>1. j \in 1 .. n - 1
  BY DEF PairsIn, Size
<1> QED BY ONLY n \in Nat, <1>1

(* One more event: a pair more if it is a value after a key. *)
LEMMA PairsMore ==
  ASSUME NEW g, NEW n \in Nat, Size(g, n), NEW h, Size(h, n + 1), NEW e, OneMoreIs(h, g, n, e), NEW j
  PROVE  /\ j \in PairsIn(g) <=> j \in PairsIn(h) /\ j # n
         /\ n \in PairsIn(h) <=> n # 0 /\ g[n].what = "key" /\ e.what = "value"
<1>1. PairsIn(g) = {i \in 1 .. n - 1 : g[i].what = "key" /\ g[i + 1].what = "value"}
  BY DEF PairsIn, Size
<1>2. PairsIn(h) = {i \in 1 .. n : h[i].what = "key" /\ h[i + 1].what = "value"}
  <2>1. n + 1 - 1 = n
    OBVIOUS
  <2> QED BY <2>1 DEF PairsIn, Size
<1>3. h[n + 1] = e /\ \A k \in 1 .. n : h[k] = g[k]
  BY DEF OneMoreIs
<1>4. j \in PairsIn(g) <=> j \in PairsIn(h) /\ j # n
  <2>1. j \in 1 .. n - 1 <=> j \in 1 .. n /\ j # n
    OBVIOUS
  <2>2. j \in 1 .. n - 1 => j \in 1 .. n /\ j + 1 \in 1 .. n
    OBVIOUS
  <2> QED BY ONLY <1>1, <1>2, <1>3, <2>1, <2>2
<1>5. n \in PairsIn(h) <=> n # 0 /\ g[n].what = "key" /\ e.what = "value"
  <2>1. n \in 1 .. n <=> n # 0
    OBVIOUS
  <2> QED BY ONLY <1>2, <1>3, <2>1
<1> QED BY <1>4, <1>5

(* No pair more: the first and last of each key are what they were. *)
LEMMA SamePairs ==
  ASSUME NEW g, NEW n \in Nat, Size(g, n), NEW h, Size(h, n + 1), NEW e, OneMoreIs(h, g, n, e),
         n \notin PairsIn(h)
  PROVE  /\ \A key, value : LastGiven(h, key, value) <=> LastGiven(g, key, value)
         /\ \A key, other : FirstBefore(h, key, other) <=> FirstBefore(g, key, other)
<1>1. PairsIn(h) = PairsIn(g)
  <2>1. \A j : j \in PairsIn(g) <=> j \in PairsIn(h) /\ j # n
    BY PairsMore
  <2> QED BY ONLY <2>1, n \notin PairsIn(h)
<1>2. \A j \in PairsIn(g) : h[j] = g[j] /\ h[j + 1] = g[j + 1]
  BY PairsBounds DEF OneMoreIs
<1>3. \A j \in PairsIn(g) : (IsFirst(h, j) <=> IsFirst(g, j)) /\ (IsLast(h, j) <=> IsLast(g, j))
  BY <1>1, <1>2 DEF IsFirst, IsLast
<1> QED BY <1>1, <1>2, <1>3 DEF LastGiven, FirstBefore

(* The last and the first of a key that got a value. *)
LEMMA SomeLast ==
  ASSUME NEW g, NEW n \in Nat, Size(g, n), NEW j \in PairsIn(g)
  PROVE  \E i \in PairsIn(g) : IsLast(g, i) /\ g[i].text = g[j].text
<1> DEFINE T == {m \in Nat : \E i \in PairsIn(g) : g[i].text = g[j].text /\ m = n - i}
<1>1. \A i \in PairsIn(g) : i \in Nat /\ i < n
  BY PairsBounds
<1>2. n - j \in T
  BY <1>1
<1>3. PICK m \in T : \A y \in T : m <= y
  <2>1. T \in SUBSET Nat /\ T # {}
    BY <1>2
  <2> HIDE DEF T
  <2> QED BY <2>1, LeastNumber
<1>4. PICK i \in PairsIn(g) : g[i].text = g[j].text /\ m = n - i
  BY <1>3
<1>5. ASSUME NEW k \in PairsIn(g), g[k].text = g[i].text PROVE k <= i
  <2>1. n - k \in T
    BY <1>1, <1>4, <1>5
  <2>2. n - i <= n - k
    BY <1>3, <1>4, <2>1
  <2> QED BY ONLY <2>2, <1>1, n \in Nat, k \in PairsIn(g), i \in PairsIn(g)
<1> QED BY <1>4, <1>5 DEF IsLast

LEMMA SomeFirst ==
  ASSUME NEW g, NEW n \in Nat, Size(g, n), NEW j \in PairsIn(g)
  PROVE  \E i \in PairsIn(g) : IsFirst(g, i) /\ g[i].text = g[j].text
<1> DEFINE T == {i \in PairsIn(g) : g[i].text = g[j].text}
<1>1. T \in SUBSET Nat /\ T # {}
  BY PairsBounds
<1>2. PICK i \in T : \A y \in T : i <= y
  <2> HIDE DEF T
  <2> QED BY <1>1, LeastNumber
<1> QED BY <1>2 DEF IsFirst

(* A value under a key: the last of that key, and of no other. *)
LEMMA LastGivenMore ==
  ASSUME NEW g, NEW n \in Nat, Size(g, n), NEW h, Size(h, n + 1), NEW e, OneMoreIs(h, g, n, e),
         n \in PairsIn(h), NEW key, NEW value
  PROVE  LastGiven(h, key, value) <=> IF key = g[n].text THEN value = e.value ELSE LastGiven(g, key, value)
<1>1. \A j : j \in PairsIn(h) <=> j \in PairsIn(g) \/ j = n
  BY PairsMore
<1>2. h[n] = g[n] /\ h[n + 1] = e /\ n # 0
  <2>1. n # 0
    BY PairsMore
  <2> QED BY <2>1 DEF OneMoreIs
<1>3. \A j \in PairsIn(g) : h[j] = g[j] /\ h[j + 1] = g[j + 1] /\ j \in Nat /\ j < n
  BY PairsBounds DEF OneMoreIs
<1>4. IsLast(h, n)
  BY <1>1, <1>3 DEF IsLast
<1>5. \A j \in PairsIn(g) : IsLast(h, j) <=> IsLast(g, j) /\ g[j].text # g[n].text
  <2> SUFFICES ASSUME NEW j \in PairsIn(g)
               PROVE  IsLast(h, j) <=> IsLast(g, j) /\ g[j].text # g[n].text
    OBVIOUS
  <2>1. j \in Nat /\ j < n /\ ~ (n <= j)
    BY <1>3
  <2> QED BY <1>1, <1>2, <1>3, <2>1 DEF IsLast
<1> QED BY <1>1, <1>2, <1>3, <1>4, <1>5 DEF LastGiven

LEMMA FirstBeforeMore ==
  ASSUME NEW g, NEW n \in Nat, Size(g, n), NEW h, Size(h, n + 1), NEW e, OneMoreIs(h, g, n, e),
         n \in PairsIn(h)
  PROVE  /\ \A key, other : FirstBefore(g, key, other) => FirstBefore(h, key, other)
         /\ \A key, value : LastGiven(g, key, value) /\ (\A v : ~ LastGiven(g, g[n].text, v))
                              => FirstBefore(h, key, g[n].text)
<1>1. \A j : j \in PairsIn(h) <=> j \in PairsIn(g) \/ j = n
  BY PairsMore
<1>2. h[n] = g[n]
  <2>1. n # 0
    BY PairsMore
  <2> QED BY <2>1 DEF OneMoreIs
<1>3. \A j \in PairsIn(g) : h[j] = g[j] /\ j \in Nat /\ j < n
  BY PairsBounds DEF OneMoreIs
<1>4. \A j \in PairsIn(g) : IsFirst(g, j) => IsFirst(h, j)
  BY <1>1, <1>2, <1>3 DEF IsFirst
<1>5. \A key, other : FirstBefore(g, key, other) => FirstBefore(h, key, other)
  BY <1>1, <1>3, <1>4 DEF FirstBefore
<1>6. ASSUME NEW key, NEW value, LastGiven(g, key, value), \A v : ~ LastGiven(g, g[n].text, v)
      PROVE  FirstBefore(h, key, g[n].text)
  <2>1. PICK j \in PairsIn(g) : g[j].text = key
    BY <1>6 DEF LastGiven
  <2>2. PICK i \in PairsIn(g) : IsFirst(g, i) /\ g[i].text = key
    BY <2>1, SomeFirst
  <2>3. \A k \in PairsIn(g) : g[k].text # g[n].text
    BY <1>6, SomeLast DEF LastGiven
  <2>4. IsFirst(h, n)
    BY <1>1, <1>2, <1>3, <2>3 DEF IsFirst
  <2> QED BY <1>1, <1>2, <1>3, <1>4, <2>2, <2>4 DEF FirstBefore
<1> QED BY <1>5, <1>6

(* The entries: where they are held, and under which key first.            *)
LEMMA InsertHeld ==
  ASSUME NEW en, IsSequence(en), NEW key, NEW value, NEW k, NEW v
  PROVE  /\ Held(Insert(en, Entry(key, value)), k, v) <=> IF k = key THEN v = value ELSE Held(en, k, v)
         /\ IsSequence(Insert(en, Entry(key, value)))
<1> PICK n \in Nat : Size(en, n)
  BY SizeFacts
<1>1. DOMAIN en = 1 .. n
  BY SequenceFacts DEF Size
<1> PICK e : e = Entry(key, value)
  OBVIOUS
<1>2. e.key = key /\ e.value = value
  BY DEF Entry
<1>3. CASE \E p \in 1 .. n : en[p].key = key
  <2> PICK t : t = [p \in 1 .. n |-> IF en[p].key = key THEN e ELSE en[p]]
    OBVIOUS
  <2>1. Insert(en, e) = t
    BY <1>2, <1>3 DEF Insert, Size
  <2>2. DOMAIN t = 1 .. n /\ \A p \in 1 .. n : t[p] = IF en[p].key = key THEN e ELSE en[p]
    OBVIOUS
  <2>3. IsSequence(t)
    <3>1. t \in Seq({t[p] : p \in 1 .. n})
      <4> DEFINE R == {t[p] : p \in 1 .. n}
      <4>1. \A p \in 1 .. n : t[p] \in R
        OBVIOUS
      <4>2. t \in [1 .. n -> R]
        BY <2>2, <4>1
      <4> HIDE DEF R
      <4> QED BY <4>2, SeqDef
    <3> QED BY <2>2, <3>1 DEF IsSequence
  <2>4. Held(t, k, v) <=> IF k = key THEN v = value ELSE Held(en, k, v)
    BY <1>1, <1>2, <1>3, <2>2 DEF Held
  <2> QED BY <2>1, <2>3, <2>4
<1>4. CASE ~ \E p \in 1 .. n : en[p].key = key
  <2> PICK t : t = Extended(en, e)
    OBVIOUS
  <2>1. Insert(en, e) = t
    BY <1>2, <1>4 DEF Insert, Size, Extended
  <2>2. IsSequence(t) /\ Size(t, n + 1) /\ OneMoreIs(t, en, n, e)
    BY ExtendedTo
  <2>3. DOMAIN t = 1 .. n + 1
    BY <2>2, SequenceFacts DEF Size
  <2>4. \A p : p \in DOMAIN t <=> p \in 1 .. n \/ p = n + 1
    BY ONLY <2>3, n \in Nat
  <2>5. Held(t, k, v) <=> IF k = key THEN v = value ELSE Held(en, k, v)
    BY <1>1, <1>2, <1>4, <2>2, <2>4 DEF Held, OneMoreIs
  <2> QED BY <2>1, <2>2, <2>5
<1> QED BY <1>3, <1>4

LEMMA InsertInFirstOrder ==
  ASSUME NEW en, IsSequence(en), NEW value, NEW g, NEW n \in Nat, Size(g, n), NEW h, Size(h, n + 1), NEW e,
         OneMoreIs(h, g, n, e), n \in PairsIn(h), EntriesAreLast(en, g), InFirstOrder(en, g)
  PROVE  InFirstOrder(Insert(en, Entry(g[n].text, value)), h)
<1> PICK m \in Nat : Size(en, m)
  BY SizeFacts
<1>1. DOMAIN en = 1 .. m
  BY SequenceFacts DEF Size
<1> PICK key : key = g[n].text
  OBVIOUS
<1> PICK r : r = Entry(key, value)
  OBVIOUS
<1>2. r.key = key
  BY DEF Entry
<1>3. \A k, l \in 1 .. m : k < l => FirstBefore(h, en[k].key, en[l].key)
  BY <1>1, FirstBeforeMore DEF InFirstOrder
<1>4. CASE \E p \in 1 .. m : en[p].key = key
  <2> PICK t : t = [p \in 1 .. m |-> IF en[p].key = key THEN r ELSE en[p]]
    OBVIOUS
  <2>1. Insert(en, r) = t
    BY <1>2, <1>4 DEF Insert, Size
  <2>2. DOMAIN t = 1 .. m /\ \A p \in 1 .. m : t[p].key = en[p].key
    BY <1>2
  <2> QED BY <1>3, <2>1, <2>2 DEF InFirstOrder
<1>5. CASE ~ \E p \in 1 .. m : en[p].key = key
  <2> PICK t : t = Extended(en, r)
    OBVIOUS
  <2>1. Insert(en, r) = t
    BY <1>2, <1>5 DEF Insert, Size, Extended
  <2>2. IsSequence(t) /\ Size(t, m + 1) /\ OneMoreIs(t, en, m, r)
    BY ExtendedTo
  <2>3. DOMAIN t = 1 .. m + 1
    BY <2>2, SequenceFacts DEF Size
  <2>4. \A v : ~ LastGiven(g, key, v)
    BY <1>1, <1>5 DEF EntriesAreLast, Held
  <2>5. ASSUME NEW k \in 1 .. m PROVE FirstBefore(h, en[k].key, key)
    <3>1. LastGiven(g, en[k].key, en[k].value)
      BY <1>1 DEF EntriesAreLast, Held
    <3> QED BY <2>4, <3>1, FirstBeforeMore
  <2>6. ASSUME NEW k \in DOMAIN t, NEW l \in DOMAIN t, k < l PROVE FirstBefore(h, t[k].key, t[l].key)
    <3>1. k \in 1 .. m /\ (l \in 1 .. m \/ l = m + 1)
      BY ONLY <2>3, <2>6, m \in Nat
    <3>2. t[k] = en[k] /\ (l \in 1 .. m => t[l] = en[l]) /\ t[m + 1].key = key
      BY <1>2, <2>2, <3>1 DEF OneMoreIs
    <3> QED BY <1>3, <2>5, <2>6, <3>1, <3>2
  <2> QED BY <2>1, <2>6 DEF InFirstOrder
<1> QED BY <1>4, <1>5

(* The elements: from says at which place each of the m was given.         *)
Gathers(from, es, m, g) ==
  /\ from \in [1 .. m -> ValuesIn(g)]
  /\ \A k \in 1 .. m : es[k] = g[from[k]].value
  /\ \A k, l \in 1 .. m : k < l => from[k] < from[l]
  /\ \A j \in ValuesIn(g) : \E k \in 1 .. m : from[k] = j

ElementsAreValues(es, g) == \A m : Size(es, m) => \E from : Gathers(from, es, m, g)

LEMMA ValuesMore ==
  ASSUME NEW g, IsSequence(g), NEW n \in Nat, Size(g, n), NEW h, IsSequence(h), Size(h, n + 1), NEW e,
         OneMoreIs(h, g, n, e)
  PROVE  /\ \A j \in ValuesIn(g) : j \in Nat /\ j <= n /\ h[j] = g[j]
         /\ \A j : j \in ValuesIn(h) <=> j \in ValuesIn(g) \/ (j = n + 1 /\ e.what = "value")
<1>1. DOMAIN g = 1 .. n /\ DOMAIN h = 1 .. n + 1
  BY SequenceFacts DEF Size
<1>2. \A j : j \in DOMAIN h <=> j \in 1 .. n \/ j = n + 1
  BY ONLY <1>1, n \in Nat
<1>3. \A j \in 1 .. n : j \in Nat /\ j <= n
  OBVIOUS
<1>4. h[n + 1] = e /\ \A k \in 1 .. n : h[k] = g[k]
  BY DEF OneMoreIs
<1>5. \A j : j \in ValuesIn(g) <=> j \in 1 .. n /\ g[j].what = "value"
  BY <1>1 DEF ValuesIn
<1>6. \A j : j \in ValuesIn(h) <=> j \in DOMAIN h /\ h[j].what = "value"
  BY DEF ValuesIn
<1> QED BY ONLY <1>2, <1>3, <1>4, <1>5, <1>6

LEMMA ElementsKept ==
  ASSUME NEW es, NEW g, IsSequence(g), NEW n \in Nat, Size(g, n), NEW h, IsSequence(h), Size(h, n + 1), NEW e,
         OneMoreIs(h, g, n, e), e.what # "value", ElementsAreValues(es, g)
  PROVE  ElementsAreValues(es, h)
<1>1. \A j : j \in ValuesIn(h) <=> j \in ValuesIn(g)
  BY ValuesMore
<1>2. ValuesIn(h) = ValuesIn(g)
  BY ONLY <1>1
<1>3. \A j \in ValuesIn(g) : h[j] = g[j]
  BY ValuesMore
<1>4. ASSUME NEW m, NEW from, Gathers(from, es, m, g) PROVE Gathers(from, es, m, h)
  <2>1. \A k \in 1 .. m : from[k] \in ValuesIn(g)
    BY <1>4 DEF Gathers
  <2> QED BY ONLY <1>2, <1>3, <1>4, <2>1 DEF Gathers
<1> QED BY <1>4 DEF ElementsAreValues

LEMMA ElementsGathered ==
  ASSUME NEW es, IsSequence(es), NEW g, IsSequence(g), NEW n \in Nat, Size(g, n), NEW h, IsSequence(h),
         Size(h, n + 1), NEW e, OneMoreIs(h, g, n, e), e.what = "value", ElementsAreValues(es, g)
  PROVE  ElementsAreValues(Extended(es, e.value), h)
<1> PICK m \in Nat : Size(es, m)
  BY SizeFacts
<1> PICK fs : fs = Extended(es, e.value)
  OBVIOUS
<1>1. Size(fs, m + 1) /\ OneMoreIs(fs, es, m, e.value)
  BY ExtendedTo
<1> PICK from : Gathers(from, es, m, g)
  BY DEF ElementsAreValues
<1>2. /\ \A j \in ValuesIn(g) : j \in Nat /\ j <= n /\ h[j] = g[j]
      /\ \A j : j \in ValuesIn(h) <=> j \in ValuesIn(g) \/ j = n + 1
  BY ValuesMore
<1>3. h[n + 1] = e
  BY DEF OneMoreIs
<1> PICK into : into = [k \in 1 .. m + 1 |-> IF k = m + 1 THEN n + 1 ELSE from[k]]
  OBVIOUS
<1>4. \A k : k \in 1 .. m + 1 <=> k \in 1 .. m \/ k = m + 1
  OBVIOUS
<1>5. \A k \in 1 .. m : k # m + 1 /\ k < m + 1 /\ ~ (m + 1 < k)
  OBVIOUS
<1>6. into[m + 1] = n + 1 /\ \A k \in 1 .. m : into[k] = from[k] /\ from[k] \in ValuesIn(g)
  BY <1>4, <1>5 DEF Gathers
<1>7. into \in [1 .. m + 1 -> ValuesIn(h)]
  <2>1. \A k \in 1 .. m + 1 : into[k] \in ValuesIn(h)
    BY <1>2, <1>4, <1>6
  <2> QED BY <2>1
<1>8. ASSUME NEW k \in 1 .. m + 1 PROVE fs[k] = h[into[k]].value
  <2>1. CASE k = m + 1
    BY <1>1, <1>3, <1>6, <2>1 DEF OneMoreIs
  <2>2. CASE k \in 1 .. m
    BY <1>1, <1>2, <1>6, <2>2 DEF OneMoreIs, Gathers
  <2> QED BY <1>4, <2>1, <2>2
<1>9. ASSUME NEW k \in 1 .. m + 1, NEW l \in 1 .. m + 1, k < l PROVE into[k] < into[l]
  <2>1. k \in 1 .. m
    BY ONLY <1>9, m \in Nat
  <2>2. CASE l = m + 1
    <3>1. from[k] \in Nat /\ from[k] <= n /\ into[k] = from[k] /\ into[l] = n + 1
      BY <1>2, <1>6, <2>1, <2>2
    <3> QED BY ONLY <3>1, n \in Nat
  <2>3. CASE l \in 1 .. m
    BY <1>6, <1>9, <2>1, <2>3 DEF Gathers
  <2> QED BY <1>4, <2>2, <2>3
<1>10. ASSUME NEW j \in ValuesIn(h) PROVE \E k \in 1 .. m + 1 : into[k] = j
  <2>1. CASE j = n + 1
    BY <1>4, <1>6, <2>1
  <2>2. CASE j \in ValuesIn(g)
    BY <1>4, <1>6, <2>2 DEF Gathers
  <2> QED BY <1>2, <2>1, <2>2
<1>11. Gathers(into, fs, m + 1, h)
  BY <1>7, <1>8, <1>9, <1>10 DEF Gathers
<1> QED BY <1>1, <1>11 DEF ElementsAreValues, Size

(* A builder keeps its elements, or its entries, by what it was given.     *)
KeptElements(b) ==
  IF b.method \in SeqMethods THEN ElementsAreValues(b.elements, b.given) ELSE b.elements = << >>

KeptEntries(b) ==
  IF b.method \in MapMethods THEN EntriesAreLast(b.entries, b.given) /\ InFirstOrder(b.entries, b.given)
  ELSE b.entries = << >>

Keeps(b) ==
  /\ IsSequence(b.given) /\ IsSequence(b.elements) /\ IsSequence(b.entries)
  /\ KeptElements(b) /\ KeptEntries(b)

LEMMA KeepsHolds ==
  ASSUME NEW b, Keeps(b)
  PROVE  HoldsWhatWasGiven(b)
<1>1. Paired(b) = PairsIn(b.given) /\ ValuesOf(b) = ValuesIn(b.given)
  BY DEF Paired, PairsIn, ValuesOf, ValuesIn
<1>2. ASSUME b.method \in SeqMethods PROVE Gathered(b)
  <2> PICK m \in Nat : m = Len(b.elements)
    BY SequenceFacts DEF Keeps
  <2>1. PICK from : Gathers(from, b.elements, m, b.given)
    BY <1>2 DEF Keeps, KeptElements, ElementsAreValues, Size
  <2> QED BY <1>1, <2>1 DEF Gathered, Gathers
<1>3. IF b.method \in SeqMethods THEN Gathered(b) ELSE b.elements = << >>
  BY <1>2 DEF Keeps, KeptElements
<1>4. {<<e.key, e.value>> : e \in Range(b.entries)}
        = IF b.method \in MapMethods
          THEN {<<b.given[j].text, b.given[j + 1].value>> : j \in {i \in Paired(b) : LastOf(b, i)}}
          ELSE {}
  <2>1. CASE b.method \in MapMethods
    <3>1. \A j \in Paired(b) : LastOf(b, j) <=> IsLast(b.given, j)
      BY <1>1 DEF LastOf, IsLast
    <3>2. \A key, value : Held(b.entries, key, value) <=> LastGiven(b.given, key, value)
      BY <2>1 DEF Keeps, KeptEntries, EntriesAreLast
    <3>3. ASSUME NEW e \in Range(b.entries)
          PROVE  \E j \in Paired(b) : LastOf(b, j) /\ b.given[j].text = e.key /\ b.given[j + 1].value = e.value
      <4>1. Held(b.entries, e.key, e.value)
        BY DEF Range, Held
      <4> QED BY <1>1, <3>1, <3>2, <4>1 DEF LastGiven
    <3>4. ASSUME NEW j \in Paired(b), LastOf(b, j)
          PROVE  \E e \in Range(b.entries) : b.given[j].text = e.key /\ b.given[j + 1].value = e.value
      <4>1. LastGiven(b.given, b.given[j].text, b.given[j + 1].value)
        BY <1>1, <3>1, <3>4 DEF LastGiven
      <4> QED BY <3>2, <4>1 DEF Held, Range
    <3> QED BY <2>1, <3>3, <3>4
  <2>2. CASE b.method \notin MapMethods
    BY <2>2, EmptySequence DEF Keeps, KeptEntries, Range
  <2> QED BY <2>1, <2>2
<1>5. ASSUME NEW k \in DOMAIN b.entries, NEW l \in DOMAIN b.entries, k < l
      PROVE  \E i, j \in Paired(b) : /\ FirstOf(b, i) /\ FirstOf(b, j) /\ i < j
                                     /\ b.given[i].text = b.entries[k].key
                                     /\ b.given[j].text = b.entries[l].key
  <2>1. b.method \in MapMethods
    BY EmptySequence DEF Keeps, KeptEntries
  <2>2. FirstBefore(b.given, b.entries[k].key, b.entries[l].key)
    BY <1>5, <2>1 DEF Keeps, KeptEntries, InFirstOrder
  <2> QED BY <1>1, <2>2 DEF FirstBefore, FirstOf, IsFirst
<1> QED BY <1>3, <1>4, <1>5 DEF HoldsWhatWasGiven

(* The events, under a name. *)
Gets(c, b, e) == c.method = b.method /\ c.given = Extended(b.given, e)

LEMMA GivenFacts ==
  ASSUME NEW b, Keeps(b), NEW e, NEW c, Gets(c, b, e)
  PROVE  \E n \in Nat : /\ IsSequence(b.given) /\ Size(b.given, n) /\ IsSequence(c.given) /\ Size(c.given, n + 1)
                        /\ OneMoreIs(c.given, b.given, n, e)
<1>1. IsSequence(b.given)
  BY DEF Keeps
<1> PICK n \in Nat : Size(b.given, n)
  BY <1>1, SizeFacts
<1>2. /\ IsSequence(Extended(b.given, e)) /\ Size(Extended(b.given, e), n + 1)
      /\ OneMoreIs(Extended(b.given, e), b.given, n, e)
  BY <1>1, ExtendedTo
<1> QED BY <1>1, <1>2 DEF Gets

(* A key, a null or a failure is given, and nothing changes. *)
LEMMA GivesNoValue ==
  ASSUME NEW b, Keeps(b), NEW e, e.what # "value", NEW c, Gets(c, b, e),
         c.elements = b.elements, c.entries = b.entries
  PROVE  Keeps(c)
<1> PICK n \in Nat : /\ IsSequence(b.given) /\ Size(b.given, n) /\ IsSequence(c.given) /\ Size(c.given, n + 1)
                     /\ OneMoreIs(c.given, b.given, n, e)
  BY GivenFacts
<1>1. n \notin PairsIn(c.given)
  BY PairsMore
<1>2. KeptElements(c)
  BY ElementsKept DEF Keeps, KeptElements, Gets
<1>3. KeptEntries(c)
  BY <1>1, SamePairs DEF Keeps, KeptEntries, Gets, EntriesAreLast, InFirstOrder
<1> QED BY <1>2, <1>3 DEF Keeps

LEMMA MethodsDiffer == \A m : ~ (m \in SeqMethods /\ m \in MapMethods)
  BY DEF SeqMethods, MapMethods

LEMMA GivesElement ==
  ASSUME NEW b, Keeps(b), b.method \in SeqMethods, NEW v, NEW c, Gets(c, b, ValueGiven(v)),
         c.elements = Extended(b.elements, v), c.entries = b.entries
  PROVE  Keeps(c)
<1> PICK e : e = ValueGiven(v)
  OBVIOUS
<1>1. e.what = "value" /\ e.value = v
  BY DEF ValueGiven
<1> PICK n \in Nat : /\ IsSequence(b.given) /\ Size(b.given, n) /\ IsSequence(c.given) /\ Size(c.given, n + 1)
                     /\ OneMoreIs(c.given, b.given, n, e)
  BY GivenFacts
<1>2. IsSequence(b.elements) /\ ElementsAreValues(b.elements, b.given) /\ b.entries = << >>
  BY MethodsDiffer DEF Keeps, KeptElements, KeptEntries
<1>3. ElementsAreValues(Extended(b.elements, v), c.given)
  BY <1>1, <1>2, ElementsGathered
<1>4. IsSequence(Extended(b.elements, v))
  BY <1>2, AppendSequence
<1> QED BY <1>2, <1>3, <1>4, MethodsDiffer, EmptySequence DEF Keeps, KeptElements, KeptEntries, Gets

(* Under the key that was given last. *)
LEMMA GivesEntry ==
  ASSUME NEW b, Keeps(b), b.method \in MapMethods, NEW v, NEW t, NEW c, Gets(c, b, ValueGiven(v)),
         \A n : Size(b.given, n) => n # 0 /\ b.given[n] = KeyGiven(t),
         c.elements = b.elements, c.entries = Insert(b.entries, Entry(t, v))
  PROVE  Keeps(c)
<1> PICK e : e = ValueGiven(v)
  OBVIOUS
<1>1. e.what = "value" /\ e.value = v
  BY DEF ValueGiven
<1> PICK n \in Nat : /\ IsSequence(b.given) /\ Size(b.given, n) /\ IsSequence(c.given) /\ Size(c.given, n + 1)
                     /\ OneMoreIs(c.given, b.given, n, e)
  BY GivenFacts
<1>2. n # 0 /\ b.given[n].what = "key" /\ b.given[n].text = t
  BY DEF KeyGiven
<1>3. n \in PairsIn(c.given)
  BY <1>1, <1>2, PairsMore
<1>4. IsSequence(b.entries) /\ EntriesAreLast(b.entries, b.given) /\ InFirstOrder(b.entries, b.given)
      /\ b.elements = << >>
  BY MethodsDiffer DEF Keeps, KeptElements, KeptEntries
<1> PICK es : es = Insert(b.entries, Entry(t, v))
  OBVIOUS
<1>5. InFirstOrder(es, c.given)
  BY <1>2, <1>3, <1>4, InsertInFirstOrder
<1>6. IsSequence(es) /\ \A k, w : Held(es, k, w) <=> IF k = t THEN w = v ELSE Held(b.entries, k, w)
  BY <1>4, InsertHeld
<1>7. \A k, w : LastGiven(c.given, k, w) <=> IF k = t THEN w = v ELSE LastGiven(b.given, k, w)
  BY <1>1, <1>2, <1>3, LastGivenMore
<1>8. EntriesAreLast(es, c.given)
  BY <1>4, <1>6, <1>7 DEF EntriesAreLast
<1> QED BY <1>4, <1>5, <1>6, <1>8, MethodsDiffer, EmptySequence DEF Keeps, KeptElements, KeptEntries, Gets

-----------------------------------------------------------------------------
IsBuilder(b) ==
  b = [method |-> b.method, name |-> b.name, elements |-> b.elements, entries |-> b.entries,
       pending |-> b.pending, key |-> b.key, given |-> b.given]

(* The key that awaits its value is the last thing that was given.         *)
Expecting(b, keys) ==
  keys = {} \/ \E t : keys = {t} /\ \A n : Size(b.given, n) => n # 0 /\ b.given[n] = KeyGiven(t)

WellKept(b) ==
  /\ IsBuilder(b) /\ Keeps(b) /\ Expecting(b, b.pending) /\ Expecting(b, b.key)
  /\ b.pending # {} => b.method \in MapMethods /\ b.key = {}

(* A map whose value is serialized knows its key. *)
AwaitsValue(b) == b.method \in MapMethods => b.key # {}

Built(bs) ==
  /\ IsSequence(bs)
  /\ \A n : Size(bs, n) => \A d \in 1 .. n : WellKept(bs[d]) /\ (d # n => AwaitsValue(bs[d]))

AllAwait(bs) == \A n : Size(bs, n) => \A d \in 1 .. n : AwaitsValue(bs[d])

SerIInv == Built(builders) /\ (returned # {} => AllAwait(builders))

LEMMA BuiltEmpty == Built(<< >>) /\ AllAwait(<< >>)
<1>1. IsSequence(<< >>) /\ \A n : Size(<< >>, n) => n = 0
  BY EmptySequence DEF Size
<1> QED BY <1>1 DEF Built, AllAwait

LEMMA BuiltPopped ==
  ASSUME NEW bs, Built(bs), bs # << >>
  PROVE  Built(Popped(bs)) /\ AllAwait(Popped(bs))
<1>0. IsSequence(bs)
  BY DEF Built
<1> PICK n \in Nat \ {0} : Size(bs, n)
  BY <1>0, SizeFacts
<1> PICK p : p = Popped(bs)
  OBVIOUS
<1>1. IsSequence(p) /\ Size(p, n - 1) /\ \A k \in 1 .. n - 1 : p[k] = bs[k]
  BY <1>0, PoppedTo
<1>2. \A d \in 1 .. n - 1 : d \in 1 .. n /\ d # n
  OBVIOUS
<1>3. \A d \in 1 .. n - 1 : WellKept(p[d]) /\ AwaitsValue(p[d])
  BY <1>1, <1>2 DEF Built
<1> QED BY <1>1, <1>3 DEF Built, AllAwait, Size

LEMMA BuiltReplaced ==
  ASSUME NEW bs, Built(bs), bs # << >>, NEW b, WellKept(b)
  PROVE  Built(Replaced(bs, b)) /\ (AwaitsValue(b) => AllAwait(Replaced(bs, b)))
<1>0. IsSequence(bs)
  BY DEF Built
<1> PICK n \in Nat \ {0} : Size(bs, n)
  BY <1>0, SizeFacts
<1> PICK r : r = Replaced(bs, b)
  OBVIOUS
<1>1. IsSequence(r) /\ Size(r, n) /\ LastIs(r, bs, n, b)
  BY <1>0, ReplacedTo
<1>2. \A d \in 1 .. n : WellKept(r[d]) /\ (d # n => AwaitsValue(r[d]))
  BY <1>1 DEF Built, LastIs
<1>3. r[n] = b
  BY <1>1 DEF LastIs
<1> QED BY <1>1, <1>2, <1>3 DEF Built, AllAwait, Size

LEMMA BuiltPushed ==
  ASSUME NEW bs, Built(bs), AllAwait(bs), NEW b, WellKept(b)
  PROVE  Built(Extended(bs, b))
<1>0. IsSequence(bs)
  BY DEF Built
<1> PICK n \in Nat : Size(bs, n)
  BY <1>0, SizeFacts
<1> PICK e : e = Extended(bs, b)
  OBVIOUS
<1>1. IsSequence(e) /\ Size(e, n + 1) /\ OneMoreIs(e, bs, n, b)
  BY <1>0, ExtendedTo
<1>2. \A d \in 1 .. n : WellKept(bs[d]) /\ AwaitsValue(bs[d])
  BY DEF Built, AllAwait
<1>3. \A d \in 1 .. n + 1 : d \in 1 .. n \/ d = n + 1
  OBVIOUS
<1>4. \A d \in 1 .. n + 1 : WellKept(e[d]) /\ (d # n + 1 => AwaitsValue(e[d]))
  BY <1>1, <1>2, <1>3 DEF OneMoreIs
<1> QED BY <1>1, <1>4 DEF Built, Size

LEMMA TopBuilt ==
  ASSUME Built(builders), builders # << >>
  PROVE  WellKept(Top) /\ (AllAwait(builders) => AwaitsValue(Top))
<1>0. IsSequence(builders)
  BY DEF Built
<1> PICK n \in Nat \ {0} : Size(builders, n)
  BY <1>0, SizeFacts
<1>1. n \in 1 .. n
  OBVIOUS
<1>2. Top = builders[n]
  BY DEF Top, Size
<1> QED BY <1>1, <1>2 DEF Built, AllAwait

(* A new builder holds nothing. *)
LEMMA NewBuilder ==
  ASSUME NEW opening
  PROVE  WellKept(Builder(opening))
<1> PICK b : b = Builder(opening)
  OBVIOUS
<1>1. IsBuilder(b) /\ b.elements = << >> /\ b.entries = << >> /\ b.given = << >> /\ b.pending = {} /\ b.key = {}
  BY DEF Builder, IsBuilder
<1>2. IsSequence(<< >>) /\ DOMAIN << >> = {} /\ \A n : Size(<< >>, n) => n = 0
  BY EmptySequence DEF Size
<1>3. ElementsAreValues(<< >>, << >>)
  <2>1. ValuesIn(<< >>) = {}
    BY <1>2 DEF ValuesIn
  <2> PICK from : from = [k \in 1 .. 0 |-> k]
    OBVIOUS
  <2>2. Gathers(from, << >>, 0, << >>)
    BY <2>1 DEF Gathers
  <2> QED BY <1>2, <2>2 DEF ElementsAreValues
<1>4. EntriesAreLast(<< >>, << >>) /\ InFirstOrder(<< >>, << >>)
  <2>1. PairsIn(<< >>) = {}
    BY EmptySequence DEF PairsIn
  <2> QED BY <1>2, <2>1 DEF EntriesAreLast, InFirstOrder, Held, LastGiven
<1>5. Keeps(b)
  BY <1>1, <1>2, <1>3, <1>4 DEF Keeps, KeptElements, KeptEntries
<1> QED BY <1>1, <1>5 DEF WellKept, Expecting

(* What does not touch what is kept. *)
KeepsAs(c, b) ==
  c.method = b.method /\ c.given = b.given /\ c.elements = b.elements /\ c.entries = b.entries

LEMMA KeptAs ==
  ASSUME NEW b, WellKept(b), NEW c, KeepsAs(c, b), IsBuilder(c), Expecting(b, c.pending), Expecting(b, c.key),
         c.pending = {}
  PROVE  WellKept(c)
<1>1. Keeps(c)
  BY DEF WellKept, KeepsAs, Keeps, KeptElements, KeptEntries
<1>2. Expecting(c, c.pending) /\ Expecting(c, c.key)
  BY DEF Expecting, KeepsAs
<1> QED BY <1>1, <1>2 DEF WellKept

(* Before a value: the builders below it await it, whatever comes.         *)
LEMMA BegunBuilt ==
  ASSUME SerIInv, TakesValue
  PROVE  Built(Begun) /\ AllAwait(Begun)
<1>1. CASE builders = << >>
  <2>1. Begun = << >>
    BY <1>1 DEF Begun, TopIs
  <2> QED BY <2>1, BuiltEmpty
<1>2. CASE builders # << >> /\ Top.method \notin MapMethods
  <2>1. Begun = builders
    BY <1>2 DEF Begun, TopIs
  <2>2. AwaitsValue(Top)
    BY <1>2 DEF AwaitsValue
  <2>3. AllAwait(builders)
    <3> PICK n \in Nat \ {0} : Size(builders, n)
      BY <1>2, SizeFacts DEF SerIInv, Built
    <3>1. Top = builders[n]
      BY DEF Top, Size
    <3>2. \A d \in 1 .. n : AwaitsValue(builders[d])
      BY <2>2, <3>1 DEF SerIInv, Built
    <3> QED BY <3>2 DEF AllAwait, Size
  <2> QED BY <2>1, <2>3 DEF SerIInv
<1>3. CASE builders # << >> /\ Top.method \in MapMethods
  <2> PICK b : b = Top
    OBVIOUS
  <2> PICK c : c = [b EXCEPT !.key = b.pending, !.pending = {}]
    OBVIOUS
  <2>1. WellKept(b) /\ b.pending # {}
    <3>1. Top.pending # {}
      BY <1>3 DEF TakesValue, TopIs, SeqMethods, MapMethods, Wrapping
    <3> QED BY <1>3, <3>1, TopBuilt DEF SerIInv
  <2>2. IsBuilder(c) /\ KeepsAs(c, b) /\ c.key = b.pending /\ c.pending = {}
    BY <2>1 DEF WellKept, IsBuilder, KeepsAs
  <2>3. WellKept(c)
    <3>1. Expecting(b, c.pending) /\ Expecting(b, c.key)
      BY <2>1, <2>2 DEF WellKept, Expecting
    <3> QED BY ONLY <2>1, <2>2, <3>1, KeptAs
  <2>4. AwaitsValue(c)
    BY <2>1, <2>2 DEF AwaitsValue
  <2>5. Begun = Replaced(builders, c)
    BY <1>3 DEF Begun, TopIs, WithTop, Replaced
  <2> QED BY <1>3, <2>3, <2>4, <2>5, BuiltReplaced DEF SerIInv
<1> QED BY <1>1, <1>2, <1>3

(* The builder that is given something, which takes its key. *)
LEMMA GiveFacts ==
  ASSUME NEW e, WellKept(Top)
  PROVE  /\ IsBuilder(Give(e)) /\ Gets(Give(e), Top, e)
         /\ Give(e).elements = Top.elements /\ Give(e).entries = Top.entries
         /\ Give(e).pending = Top.pending /\ Give(e).key = {}
<1> PICK g : g = Extended(Top.given, e)
  OBVIOUS
<1> PICK b : b = Top
  OBVIOUS
<1> PICK c : c = [b EXCEPT !.given = g, !.key = {}]
  OBVIOUS
<1>1. IsBuilder(b)
  BY DEF WellKept
<1>2. Give(e) = c
  BY DEF Give, Extended
<1>3. /\ IsBuilder(c) /\ c.method = b.method /\ c.given = g /\ c.elements = b.elements
      /\ c.entries = b.entries /\ c.pending = b.pending /\ c.key = {}
  BY <1>1 DEF IsBuilder
<1> QED BY <1>2, <1>3 DEF Gets

LEMMA ExpectingNothing == \A b : Expecting(b, {})
  BY DEF Expecting

(* A null, or a value that failed: its key is spent. *)
LEMMA HoleKept ==
  ASSUME WellKept(Top), Top.pending = {}
  PROVE  WellKept(Give(Hole))
<1> PICK c : c = Give(Hole)
  OBVIOUS
<1>1. /\ IsBuilder(c) /\ Gets(c, Top, Hole) /\ c.elements = Top.elements /\ c.entries = Top.entries
      /\ c.pending = {} /\ c.key = {}
  BY GiveFacts
<1>2. Hole.what # "value"
  BY DEF Hole
<1>3. Keeps(c)
  BY <1>1, <1>2, GivesNoValue DEF WellKept
<1> QED BY <1>1, <1>3, ExpectingNothing DEF WellKept

LEMMA KeyKept ==
  ASSUME WellKept(Top), Top.method \in MapMethods, NEW t
  PROVE  WellKept([Give(KeyGiven(t)) EXCEPT !.pending = {t}])
<1> PICK e : e = KeyGiven(t)
  OBVIOUS
<1> PICK g : g = Give(e)
  OBVIOUS
<1> PICK c : c = [g EXCEPT !.pending = {t}]
  OBVIOUS
<1>1. /\ IsBuilder(g) /\ Gets(g, Top, e) /\ g.elements = Top.elements /\ g.entries = Top.entries /\ g.key = {}
  BY GiveFacts
<1>2. e.what # "value"
  BY DEF KeyGiven
<1>3. /\ IsBuilder(c) /\ c.method = g.method /\ c.given = g.given /\ c.elements = g.elements
      /\ c.entries = g.entries /\ c.pending = {t} /\ c.key = {}
  BY <1>1 DEF IsBuilder
<1>4. Gets(c, Top, e)
  BY <1>1, <1>3 DEF Gets
<1>5. Keeps(c)
  BY <1>1, <1>2, <1>3, <1>4, GivesNoValue DEF WellKept
<1>6. Expecting(c, c.pending)
  <2> PICK n \in Nat : Size(c.given, n + 1) /\ OneMoreIs(c.given, Top.given, n, e)
    BY <1>4, GivenFacts DEF WellKept
  <2>1. \A m : Size(c.given, m) => m = n + 1
    BY DEF Size
  <2>2. n + 1 # 0 /\ c.given[n + 1] = KeyGiven(t)
    BY DEF OneMoreIs
  <2> QED BY ONLY <1>3, <2>1, <2>2 DEF Expecting
<1>7. c.method \in MapMethods
  BY <1>4 DEF Gets
<1> QED BY <1>3, <1>5, <1>6, <1>7, ExpectingNothing DEF WellKept

LEMMA ElementKept ==
  ASSUME WellKept(Top), Top.method \in SeqMethods, NEW v
  PROVE  WellKept([Give(ValueGiven(v)) EXCEPT !.elements = Append(@, v)])
<1> PICK e : e = ValueGiven(v)
  OBVIOUS
<1> PICK g : g = Give(e)
  OBVIOUS
<1> PICK es : es = Extended(g.elements, v)
  OBVIOUS
<1> PICK c : c = [g EXCEPT !.elements = es]
  OBVIOUS
<1>1. /\ IsBuilder(g) /\ Gets(g, Top, e) /\ g.elements = Top.elements /\ g.entries = Top.entries
      /\ g.pending = Top.pending /\ g.key = {}
  BY GiveFacts
<1>2. Top.pending = {}
  BY MethodsDiffer DEF WellKept
<1>3. /\ IsBuilder(c) /\ c.method = g.method /\ c.given = g.given /\ c.elements = es
      /\ c.entries = g.entries /\ c.pending = g.pending /\ c.key = g.key
  BY <1>1 DEF IsBuilder
<1>4. Gets(c, Top, ValueGiven(v))
  BY <1>1, <1>3 DEF Gets
<1>5. Keeps(c)
  BY <1>1, <1>3, <1>4, GivesElement DEF WellKept
<1>6. WellKept(c)
  BY <1>1, <1>2, <1>3, <1>5, ExpectingNothing DEF WellKept
<1> QED BY <1>6 DEF Extended

LEMMA EntryKept ==
  ASSUME WellKept(Top), Top.method \in MapMethods, Top.key # {}, NEW v
  PROVE  WellKept([Give(ValueGiven(v)) EXCEPT !.entries = Insert(@, Entry(CHOOSE k \in Top.key : TRUE, v))])
<1> PICK t : Top.key = {t} /\ \A n : Size(Top.given, n) => n # 0 /\ Top.given[n] = KeyGiven(t)
  BY DEF WellKept, Expecting
<1> PICK e : e = ValueGiven(v)
  OBVIOUS
<1> PICK g : g = Give(e)
  OBVIOUS
<1> PICK es : es = Insert(g.entries, Entry(t, v))
  OBVIOUS
<1> PICK c : c = [g EXCEPT !.entries = es]
  OBVIOUS
<1>1. /\ IsBuilder(g) /\ Gets(g, Top, e) /\ g.elements = Top.elements /\ g.entries = Top.entries
      /\ g.pending = Top.pending /\ g.key = {}
  BY GiveFacts
<1>2. Top.pending = {}
  BY DEF WellKept
<1>3. /\ IsBuilder(c) /\ c.method = g.method /\ c.given = g.given /\ c.elements = g.elements
      /\ c.entries = es /\ c.pending = g.pending /\ c.key = g.key
  BY <1>1 DEF IsBuilder
<1>4. Gets(c, Top, ValueGiven(v))
  BY <1>1, <1>3 DEF Gets
<1>5. Keeps(c)
  <2>1. c.elements = Top.elements /\ c.entries = Insert(Top.entries, Entry(t, v))
    BY <1>1, <1>3
  <2>2. Keeps(Top)
    BY DEF WellKept
  <2>3. \A n : Size(Top.given, n) => n # 0 /\ Top.given[n] = KeyGiven(t)
    OBVIOUS
  <2> QED BY ONLY Top.method \in MapMethods, <1>4, <2>1, <2>2, <2>3, GivesEntry
<1>6. WellKept(c)
  BY <1>1, <1>2, <1>3, <1>5, ExpectingNothing DEF WellKept
<1>7. (CHOOSE k \in Top.key : TRUE) = t
  BY Zenon
<1> QED BY <1>6, <1>7

-----------------------------------------------------------------------------
LEMMA SerInitSerIInv == SerInit => SerIInv
  BY BuiltEmpty DEF SerInit, SerIInv

LEMMA CallSerIInv ==
  ASSUME SerIInv,
         \/ \E leaf : SerializeLeaf(leaf)
         \/ \E opening : OpenBuilder(opening)
         \/ \E keyCall : SerializeKey(keyCall) \/ RefuseKey(keyCall)
         \/ ValueBeforeKey \/ End
  PROVE  SerIInv'
<1>1. CASE \E leaf : SerializeLeaf(leaf)
  BY <1>1, BegunBuilt DEF SerializeLeaf, SerIInv
<1>2. CASE \E opening : OpenBuilder(opening)
  <2>1. PICK opening : OpenBuilder(opening)
    BY <1>2
  <2>2. builders' = Extended(Begun, Builder(opening)) /\ returned' = {} /\ TakesValue
    BY <2>1 DEF OpenBuilder, Calling, Extended
  <2>3. Built(builders')
    BY <2>2, BegunBuilt, NewBuilder, BuiltPushed
  <2> QED BY <2>2, <2>3 DEF SerIInv
<1>3. CASE \E keyCall : SerializeKey(keyCall)
  <2>1. PICK keyCall : SerializeKey(keyCall)
    BY <1>3
  <2> PICK t : t = keyCall.payload
    OBVIOUS
  <2> PICK c : c = [Give(KeyGiven(t)) EXCEPT !.pending = {t}]
    OBVIOUS
  <2>2. builders # << >> /\ Top.method \in MapMethods /\ builders' = Replaced(builders, c) /\ returned' = {}
    BY <2>1 DEF SerializeKey, Calling, TopIs, WithTop, Replaced
  <2>3. WellKept(c)
    BY <2>2, TopBuilt, KeyKept DEF SerIInv
  <2>4. Built(builders')
    BY <2>2, <2>3, BuiltReplaced DEF SerIInv
  <2> QED BY <2>2, <2>4 DEF SerIInv
<1>4. CASE (\E keyCall : RefuseKey(keyCall)) \/ ValueBeforeKey \/ End
  <2>1. \/ builders' = builders /\ returned' = returned
        \/ builders # << >> /\ builders' = Popped(builders)
    BY <1>4 DEF RefuseKey, ValueBeforeKey, End, TopIs, Below, Popped
  <2> QED BY <2>1, BuiltPopped DEF SerIInv
<1> QED BY <1>1, <1>2, <1>3, <1>4

(* The builder below takes what a call returned.                           *)
LEMMA ReturnSerIInv ==
  ASSUME SerIInv, Return
  PROVE  SerIInv'
<1>1. CASE PushElement \/ InsertEntry \/ IgnoreError
  <2>1. builders # << >> /\ Top.method \in SeqMethods \cup MapMethods /\ returned # {} /\ returned' = {}
    BY <1>1 DEF PushElement, InsertEntry, IgnoreError, Returning, TopIs
  <2>2. WellKept(Top) /\ AwaitsValue(Top)
    BY <2>1, TopBuilt DEF SerIInv
  <2>3. Top.pending = {}
    BY <2>2 DEF WellKept, AwaitsValue
  <2>4. \E c : WellKept(c) /\ builders' = Replaced(builders, c)
    <3>1. CASE builders' = WithTop(Give(Hole))
      BY <2>2, <2>3, <3>1, HoleKept DEF WithTop, Replaced
    <3>2. CASE PushElement /\ builders' # WithTop(Give(Hole))
      <4> PICK v : v = Outcome.value
        OBVIOUS
      <4> PICK c : c = [Give(ValueGiven(v)) EXCEPT !.elements = Append(@, v)]
        OBVIOUS
      <4>1. builders' = Replaced(builders, c) /\ Top.method \in SeqMethods
        BY <3>2 DEF PushElement, Returning, TopIs, WithTop, Replaced
      <4> QED BY <2>2, <4>1, ElementKept
    <3>3. CASE InsertEntry /\ builders' # WithTop(Give(Hole))
      <4> PICK v : v = Outcome.value
        OBVIOUS
      <4> PICK c : c = [Give(ValueGiven(v)) EXCEPT !.entries = Insert(@, Entry(CHOOSE k \in Top.key : TRUE, v))]
        OBVIOUS
      <4>1. builders' = Replaced(builders, c) /\ Top.method \in MapMethods
        BY <3>3 DEF InsertEntry, Returning, TopIs, WithTop, Replaced
      <4>2. Top.key # {}
        BY <2>2, <4>1 DEF AwaitsValue
      <4> QED BY <2>2, <4>1, <4>2, EntryKept
    <3> QED BY <1>1, <3>1, <3>2, <3>3 DEF IgnoreError
  <2> QED BY <2>1, <2>4, BuiltReplaced DEF SerIInv
<1>2. CASE PassError \/ Wrap
  <2>1. builders # << >> /\ builders' = Popped(builders)
    BY <1>2 DEF PassError, Wrap, Returning, TopIs, Below, Popped
  <2> QED BY <2>1, BuiltPopped DEF SerIInv
<1>3. CASE ReturnRoot
  BY <1>3 DEF ReturnRoot, SerIInv
<1> QED BY <1>1, <1>2, <1>3 DEF Return

LEMMA SerStep == SerIInv /\ [SerdeNext]_serdeVars => SerIInv'
<1> SUFFICES ASSUME SerIInv, [SerdeNext]_serdeVars PROVE SerIInv'
  OBVIOUS
<1>1. CASE Serialize
  <2>1. \/ \E leaf : SerializeLeaf(leaf)
        \/ \E opening : OpenBuilder(opening)
        \/ \E keyCall : SerializeKey(keyCall) \/ RefuseKey(keyCall)
        \/ ValueBeforeKey \/ End \/ Return
    BY <1>1 DEF Serialize, MakeAnyCall, MakeNextCall
  <2> QED BY <2>1, CallSerIInv, ReturnSerIInv
<1>2. CASE HandOver \/ Deserialize \/ Stop \/ UNCHANGED serdeVars
  <2>1. builders' = builders /\ returned' = returned
    BY <1>2 DEF HandOver, Deserialize, Stop, serdeVars, serVars
  <2> QED BY <2>1 DEF SerIInv
<1> QED BY <1>1, <1>2 DEF SerdeNext

LEMMA SerHolds == SerIInv => BuildersHoldWhatWasGiven
<1> SUFFICES ASSUME SerIInv, NEW d \in DOMAIN builders PROVE HoldsWhatWasGiven(builders[d])
  BY DEF BuildersHoldWhatWasGiven
<1>1. IsSequence(builders)
  BY DEF SerIInv, Built
<1> PICK n \in Nat : Size(builders, n) /\ DOMAIN builders = 1 .. n
  BY <1>1, SequenceFacts DEF Size
<1>2. WellKept(builders[d])
  BY DEF SerIInv, Built
<1> QED BY <1>2, KeepsHolds DEF WellKept

(* ser.rs SeqBuilder::push and MapBuilder::insert_pending: whatever calls  *)
(* an impl makes, in whatever order, and whichever errors it ignores, a    *)
(* builder holds the values it was handed, in their order, a dictionary    *)
(* the last value of each key at the place of the key's first.             *)
THEOREM BuildersHold == SerdeSpec => []BuildersHoldWhatWasGiven
<1>1. SerdeInit => SerIInv
  BY SerInitSerIInv DEF SerdeInit
<1> QED BY <1>1, SerStep, SerHolds, PTL DEF SerdeSpec

-----------------------------------------------------------------------------
(***************************************************************************)
(* The two-headed integers.                                                *)
(***************************************************************************)
LEMMA Remainder ==
  ASSUME NEW w \in Nat \ {0}, NEW n \in Int, -w <= n, n < w
  PROVE  n % w = IF n < 0 THEN n + w ELSE n
<1> PICK q \in Int, r \in Int : q = n \div w /\ r = n % w
  OBVIOUS
<1>1. n = w * q + r /\ 0 <= r /\ r < w
  OBVIOUS
<1>2. CASE n >= 0
  <2>1. q = 0
    BY <1>1, <1>2
  <2> QED BY <1>1, <1>2, <2>1
<1>3. CASE n < 0
  <2>1. q = -1
    BY <1>1, <1>3
  <2> QED BY <1>1, <1>3, <2>1
<1> QED BY <1>2, <1>3

(* The numbers of both forms, and their bits. *)
IsInteger(i) ==
  \/ i.form = "signed" /\ i.n \in IntMin .. -IntMin - 1
  \/ i.form = "unsigned" /\ i.n \in 0 .. Word - 1

LEMMA IntegerForms ==
  ASSUME NEW i \in AllIntegers
  PROVE  IsInteger(i) /\ i = [form |-> i.form, n |-> i.n]
  BY DEF AllIntegers, Signed, Unsigned, IsInteger

LEMMA IntegerBits ==
  ASSUME NEW i \in AllIntegers
  PROVE  i.n \in Int /\ -Word <= 2 * i.n /\ i.n < Word /\ i.n % Word = IF i.n < 0 THEN i.n + Word ELSE i.n
<1>1. i.n \in Int /\ -Word <= 2 * i.n /\ -Word <= i.n /\ i.n < Word
  BY IntegerForms, NumberAssumption DEF IsInteger
<1> QED BY <1>1, NumberAssumption, Remainder

(* Two integers are equal just if their numbers are. *)
LEMMA EqualNumbers ==
  ASSUME NEW i \in AllIntegers, NEW j \in AllIntegers
  PROVE  equal(i, j) <=> i.n = j.n
<1>1. IsInteger(i) /\ IsInteger(j)
  BY IntegerForms
<1>2. /\ i.n \in Int /\ j.n \in Int /\ Word \in Nat
      /\ i.n % Word = IF i.n < 0 THEN i.n + Word ELSE i.n
      /\ j.n % Word = IF j.n < 0 THEN j.n + Word ELSE j.n
  BY IntegerBits, NumberAssumption
<1> QED BY <1>1, <1>2 DEF equal, IsInteger

LEMMA EqualHashes ==
  ASSUME NEW i \in AllIntegers, NEW j \in AllIntegers
  PROVE  equal(i, j) => hash(i) = hash(j)
  BY EqualNumbers DEF hash

LEMMA RawPartsTell ==
  ASSUME NEW i \in AllIntegers, NEW j \in AllIntegers, to_raw_parts(i) = to_raw_parts(j)
  PROVE  i = j
<1>1. IsInteger(i) /\ IsInteger(j) /\ i = [form |-> i.form, n |-> i.n] /\ j = [form |-> j.form, n |-> j.n]
  BY IntegerForms
<1>2. (i.form = "signed" <=> j.form = "signed") /\ i.n % Word = j.n % Word
  BY DEF to_raw_parts
<1>3. /\ i.n \in Int /\ j.n \in Int /\ -Word <= 2 * i.n /\ i.n < Word /\ -Word <= 2 * j.n /\ j.n < Word
      /\ i.n % Word = IF i.n < 0 THEN i.n + Word ELSE i.n
      /\ j.n % Word = IF j.n < 0 THEN j.n + Word ELSE j.n
  BY IntegerBits
<1>4. i.form = j.form
  BY <1>1, <1>2 DEF IsInteger
<1>5. i.n = j.n
  BY <1>1, <1>2, <1>3, <1>4, NumberAssumption DEF IsInteger
<1> QED BY <1>1, <1>4, <1>5

LEMMA Views ==
  ASSUME NEW i \in AllIntegers
  PROVE  /\ as_signed(i) \in {{}, {i.n}} /\ as_unsigned(i) \in {{}, {i.n}}
         /\ as_signed(i) # {} <=> i.n <= -IntMin - 1
         /\ as_unsigned(i) # {} <=> i.n >= 0
<1>1. IsInteger(i)
  BY IntegerForms
<1> QED BY <1>1, NumberAssumption DEF as_signed, as_unsigned, IsInteger

LEMMA Agreeing ==
  ASSUME NEW i \in AllIntegers, NEW j \in AllIntegers
  PROVE  /\ equal(i, j) <=> ~ less(i, j) /\ ~ less(j, i)
         /\ equal(i, j) => hash(i) = hash(j)
         /\ equal(i, j) => as_signed(i) = as_signed(j) /\ as_unsigned(i) = as_unsigned(j)
         /\ to_raw_parts(i) = to_raw_parts(j) => i = j
         /\ equal(i, j) <=> \/ as_signed(i) # {} /\ as_signed(i) = as_signed(j)
                            \/ as_unsigned(i) # {} /\ as_unsigned(i) = as_unsigned(j)
<1>1. i.n \in Int /\ j.n \in Int
  BY IntegerBits
<1>2. equal(i, j) <=> ~ less(i, j) /\ ~ less(j, i)
  BY <1>1, EqualNumbers DEF less
<1>3. equal(i, j) => as_signed(i) = as_signed(j) /\ as_unsigned(i) = as_unsigned(j)
  BY EqualNumbers, Views
<1>4. as_signed(i) # {} \/ as_unsigned(i) # {}
  BY <1>1, Views, NumberAssumption
<1>5. \/ as_signed(i) # {} /\ as_signed(i) = as_signed(j)
      \/ as_unsigned(i) # {} /\ as_unsigned(i) = as_unsigned(j)
      => i.n = j.n
  BY Views
<1> QED BY <1>2, <1>3, <1>4, <1>5, EqualNumbers, EqualHashes, RawPartsTell

IntegersKept == subject = "integers" => \E i, j \in AllIntegers : now = <<i, j>>

(* integer.rs: whatever the widths, Eq, Ord and the conversions of the two *)
(* forms agree, and what is equal hashes alike.                            *)
THEOREM Agreement == Spec => []IntegersAgree
<1>1. Init => IntegersKept
  BY DEF Init, IntegersKept
<1>2. IntegersKept /\ [Next]_vars => IntegersKept'
  BY DEF IntegersKept, Next, Travel, Refused, Archive, Type, vars
<1>3. IntegersKept => IntegersAgree
  <2> SUFFICES ASSUME IntegersKept, subject = "integers"
               PROVE  LET i == now[1]  j == now[2] IN
                      /\ equal(i, j) <=> ~ less(i, j) /\ ~ less(j, i)
                      /\ equal(i, j) => hash(i) = hash(j)
                      /\ equal(i, j) => as_signed(i) = as_signed(j) /\ as_unsigned(i) = as_unsigned(j)
                      /\ to_raw_parts(i) = to_raw_parts(j) => i = j
                      /\ equal(i, j) <=> \/ as_signed(i) # {} /\ as_signed(i) = as_signed(j)
                                         \/ as_unsigned(i) # {} /\ as_unsigned(i) = as_unsigned(j)
    BY DEF IntegersAgree
  <2> PICK i \in AllIntegers, j \in AllIntegers : now[1] = i /\ now[2] = j
    BY DEF IntegersKept
  <2> QED BY Agreeing
<1> QED BY <1>1, <1>2, <1>3, PTL DEF Spec

-----------------------------------------------------------------------------
(***************************************************************************)
(* What a visitor has got of a container, and what it is still waiting for. *)
(* c says that texts are coerced, which keys never are, and w that each     *)
(* value is asked for and nothing that was handed out is let go of.         *)
(***************************************************************************)
(* r is v, all the way down: a relation that holds between all parts too.  *)
Closed(R, c, w) == \A p \in R : Represents(p[1], p[2], c, w) /\ Matched(p[1], p[2]) \subseteq R
Whole(r, v, c, w) == \E R : <<r, v>> \in R /\ Closed(R, c, w)

(* v is a value, all the way down.                                         *)
AllValues(S) == \A v \in S : IsValue(v) /\ Contents(v) \subseteq S
Sound(v) == \E S : v \in S /\ AllValues(S)

(* What can be handed out: a value, or the text of a key.                  *)
Legible(v) == Sound(v) \/ v = String(v.text)

(* rest is what follows the first n of s.                                  *)
Behind(rest, s, n) ==
  IsSequence(rest) /\ n + Len(rest) = Len(s) /\ \A k \in 1 .. Len(rest) : rest[k] = s[n + k]

Bytes(v) == [k \in DOMAIN v.bytes |-> Integer(ByteOf(v.bytes[k]))]
Items(v) == IF v.type = "data" THEN Bytes(v) ELSE v.items

(* The first n items, as they were got.                                    *)
GotItems(g, s, n, c, w) == IsSequence(g) /\ Size(g, n) /\ \A k \in 1 .. n : Whole(g[k], s[k], c, w)

IsPair(e) == e = [key |-> e.key, value |-> e.value]

GotEntry(e, entry, c, w) ==
  IsPair(e) /\ IsKept(e.key, String(entry.key), w) /\ \A x \in e.value : Whole(x, entry.value, c, w)

(* The first n entries, values and all for the first m.                    *)
GotEntries(g, s, n, m, c, w) ==
  /\ IsSequence(g) /\ Size(g, n)
  /\ \A k \in 1 .. n : GotEntry(g[k], s[k], c, w) /\ ((w \/ k = n) /\ k <= m => g[k].value # {})

Payload(v) == IF v.type = "dictionary" THEN {v.entries[1].value} ELSE {}
Variant(v) == IF v.type = "dictionary" THEN v.entries[1].key ELSE v.text
IsVariant(v) == (v.type = "dictionary" /\ Len(v.entries) = 1) \/ (v.type = "string" /\ v = String(v.text))

GotName(a, w) == \E x : a.got = <<x>> /\ Whole(x, String(Variant(a.from)), a.lax, w)

(* Between two steps of a visitor: n things have been handed out and got.  *)
SeqAt(a, n, w) ==
  /\ a.name = "seq" /\ a.from.type \in {"array", "data"} /\ a.pending = {}
  /\ Behind(a.rest, Items(a.from), n) /\ GotItems(a.got, Items(a.from), n, a.lax, w)

MapAt(a, n, w) ==
  /\ a.name = "map" /\ a.from.type = "dictionary"
  /\ Behind(a.rest, a.from.entries, n)
  /\ \/ a.pending = {} /\ GotEntries(a.got, a.from.entries, n, n, a.lax, w)
     \/ n # 0 /\ a.pending = {a.from.entries[n].value} /\ GotEntries(a.got, a.from.entries, n, n - 1, a.lax, w)

EnumFresh(a) ==
  a.name = "enum" /\ IsVariant(a.from) /\ a.pending = {} /\ a.rest = <<Variant(a.from)>> /\ a.got = << >>

EnumNamed(a, w) ==
  a.name = "enum" /\ IsVariant(a.from) /\ a.pending = Payload(a.from) /\ a.rest = << >> /\ GotName(a, w)

(* While what was handed out, which is v, is deserialized, coerced if k.   *)
SeqAwaits(a, v, n, w) ==
  /\ a.name = "seq" /\ a.from.type \in {"array", "data"} /\ a.pending = {}
  /\ Behind(a.rest, Items(a.from), n + 1) /\ GotItems(a.got, Items(a.from), n, a.lax, w)
  /\ v = Items(a.from)[n + 1]

KeyAwaits(a, v, n, w) ==
  /\ a.name = "map" /\ a.from.type = "dictionary"
  /\ Behind(a.rest, a.from.entries, n + 1)
  /\ a.pending = {a.from.entries[n + 1].value}
  /\ IsSequence(a.got) /\ Size(a.got, n)
  /\ \A k \in 1 .. n : GotEntry(a.got[k], a.from.entries[k], a.lax, w) /\ (w => a.got[k].value # {})
  /\ v = String(a.from.entries[n + 1].key)

ValueAwaits(a, v, n, w) ==
  /\ a.name = "map" /\ a.from.type = "dictionary"
  /\ Behind(a.rest, a.from.entries, n) /\ n # 0
  /\ a.pending = {} /\ GotEntries(a.got, a.from.entries, n, n - 1, a.lax, w)
  /\ v = a.from.entries[n].value

NameAwaits(a, v) ==
  /\ a.name = "enum" /\ IsVariant(a.from) /\ a.pending = Payload(a.from) /\ a.rest = << >> /\ a.got = << >>
  /\ v = String(Variant(a.from))

PayloadAwaits(a, v, w) ==
  /\ a.name = "enum" /\ a.from.type = "dictionary" /\ Len(a.from.entries) = 1 /\ a.rest = << >>
  /\ a.pending = {} /\ v = a.from.entries[1].value /\ GotName(a, w)

Open(a) == IsAccess(a) /\ Legible(a.from)

Idle(a, w) ==
  Open(a) /\ ((\E n \in Nat : SeqAt(a, n, w) \/ MapAt(a, n, w)) \/ EnumFresh(a) \/ EnumNamed(a, w))

Awaits(a, v, k, w) ==
  /\ Open(a)
  /\ \/ k = a.lax /\ \E n \in Nat : SeqAwaits(a, v, n, w) \/ ValueAwaits(a, v, n, w)
     \/ k = a.lax /\ (NameAwaits(a, v) \/ PayloadAwaits(a, v, w))
     \/ k = FALSE /\ \E n \in Nat : KeyAwaits(a, v, n, w)

(* What the n-th access is waiting for, or from_value itself.              *)
Expected(as, n, v, k, root, c, w) == IF n = 0 THEN v = root /\ k = c ELSE Awaits(as[n], v, k, w)

Chained(as, n, root, c, w) == \A d \in 1 .. n : Expected(as, d - 1, as[d].from, as[d].lax, root, c, w)

(* What the innermost access is given, or from_value gives: an error too   *)
(* stands where a value is awaited.                                        *)
Yields(an, as, n, root, c, w) ==
  \A a \in an : \E v, k : Expected(as, n, v, k, root, c, w) /\ (a.ok => Whole(a.value, v, k, w))

Asks(sd, as, n, root, c, w) ==
  \A s \in sd : Legible(s.value) /\ Expected(as, n, s.value, s.lax, root, c, w)

(* There is one at most. *)
Lone(an) == \A a, b \in an : a = b

Consistent(as, sd, an, root, c, w) ==
  /\ IsSequence(as)
  /\ \A n : Size(as, n) =>
       /\ Chained(as, n, root, c, w)
       /\ Asks(sd, as, n, root, c, w) /\ Yields(an, as, n, root, c, w)
       /\ sd = {} /\ an = {} /\ n # 0 => Idle(as[n], w)
  /\ (sd = {} \/ an = {}) /\ Lone(an)

-----------------------------------------------------------------------------
LEMMA WholeFacts ==
  ASSUME NEW r, NEW v, NEW c, NEW w, Whole(r, v, c, w)
  PROVE  /\ Represents(r, v, c, w)
         /\ \A x, y : <<x, y>> \in Matched(r, v) => Whole(x, y, c, w)
<1> PICK R : <<r, v>> \in R /\ Closed(R, c, w)
  BY DEF Whole
<1>1. Represents(r, v, c, w) /\ Matched(r, v) \subseteq R
  BY DEF Closed
<1> QED BY <1>1 DEF Whole

(* All parts are pairs. *)
LEMMA MatchedPairs ==
  ASSUME NEW r, NEW v, NEW p \in Matched(r, v)
  PROVE  p = <<p[1], p[2]>>
  BY DEF Matched

LEMMA WholeMade ==
  ASSUME NEW r, NEW v, NEW c, NEW w, Represents(r, v, c, w),
         \A x, y : <<x, y>> \in Matched(r, v) => Whole(x, y, c, w)
  PROVE  Whole(r, v, c, w)
<1> DEFINE Q(p) == CHOOSE R : p \in R /\ Closed(R, c, w)
           T == {<<r, v>>} \cup UNION {Q(p) : p \in Matched(r, v)}
<1>1. ASSUME NEW p \in Matched(r, v) PROVE p \in Q(p) /\ Closed(Q(p), c, w)
  <2>1. p = <<p[1], p[2]>>
    BY MatchedPairs
  <2>2. Whole(p[1], p[2], c, w)
    BY <2>1
  <2>3. \E R : p \in R /\ Closed(R, c, w)
    BY <2>1, <2>2 DEF Whole
  <2> QED BY <2>3
<1> HIDE DEF Q
<1>2. Matched(r, v) \subseteq T
  BY <1>1
<1>3. ASSUME NEW p \in T PROVE Represents(p[1], p[2], c, w) /\ Matched(p[1], p[2]) \subseteq T
  <2>1. CASE p = <<r, v>>
    BY <1>2, <2>1
  <2>2. CASE \E q \in Matched(r, v) : p \in Q(q)
    <3> PICK q \in Matched(r, v) : p \in Q(q)
      BY <2>2
    <3>1. Represents(p[1], p[2], c, w) /\ Matched(p[1], p[2]) \subseteq Q(q)
      BY <1>1 DEF Closed
    <3> QED BY <3>1
  <2> QED BY <2>1, <2>2
<1>4. Closed(T, c, w) /\ <<r, v>> \in T
  BY <1>3 DEF Closed
<1> QED BY <1>4 DEF Whole

(* A scalar has no parts. *)
LEMMA WholeScalar ==
  ASSUME NEW r, NEW v, NEW c, NEW w, Represents(r, v, c, w), v.type \notin {"array", "dictionary"}
  PROVE  Whole(r, v, c, w)
<1>1. Matched(r, v) = {}
  BY DEF Matched
<1> QED BY <1>1, WholeMade

(* What a careless visitor made without looking has no parts. *)
LEMMA NothingWhole ==
  ASSUME NEW v, NEW c, NEW w, ~ w
  PROVE  Whole(Nothing, v, c, w)
<1>1. Nothing.type = "nothing"
  BY DEF Nothing
<1>2. Matched(Nothing, v) = {}
  BY <1>1 DEF Matched
<1>3. Represents(Nothing, v, c, w)
  BY DEF Represents, Unasked
<1> QED BY <1>2, <1>3, WholeMade

LEMMA SoundFacts ==
  ASSUME NEW v, Sound(v)
  PROVE  IsValue(v) /\ \A x \in Contents(v) : Sound(x)
<1> PICK S : v \in S /\ AllValues(S)
  BY DEF Sound
<1>1. IsValue(v) /\ Contents(v) \subseteq S
  BY DEF AllValues
<1> QED BY <1>1 DEF Sound

LEMMA SoundMade ==
  ASSUME NEW v, IsValue(v), \A x \in Contents(v) : Sound(x)
  PROVE  Sound(v)
<1> DEFINE Q(x) == CHOOSE S : x \in S /\ AllValues(S)
           T == {v} \cup UNION {Q(x) : x \in Contents(v)}
<1>1. ASSUME NEW x \in Contents(v) PROVE x \in Q(x) /\ AllValues(Q(x))
  BY DEF Sound
<1> HIDE DEF Q
<1>2. Contents(v) \subseteq T
  BY <1>1
<1>3. ASSUME NEW x \in T PROVE IsValue(x) /\ Contents(x) \subseteq T
  <2>1. CASE x = v
    BY <1>2, <2>1
  <2>2. CASE \E y \in Contents(v) : x \in Q(y)
    <3> PICK y \in Contents(v) : x \in Q(y)
      BY <2>2
    <3>1. IsValue(x) /\ Contents(x) \subseteq Q(y)
      BY <1>1 DEF AllValues
    <3> QED BY <3>1
  <2> QED BY <2>1, <2>2
<1>4. AllValues(T) /\ v \in T
  BY <1>3 DEF AllValues
<1> QED BY <1>4 DEF Sound

LEMMA SoundScalar ==
  ASSUME NEW v, IsValue(v), v.type \notin {"array", "dictionary"}
  PROVE  Sound(v)
<1>1. Contents(v) = {}
  BY DEF Contents
<1> QED BY <1>1, SoundMade

LEMMA IntegersSound == \A n : Sound(Integer(n))
<1> TAKE n
<1>1. Integer(n).type = "integer"
  BY DEF Integer
<1>2. IsValue(Integer(n))
  BY <1>1 DEF IsValue
<1> QED BY <1>1, <1>2, SoundScalar

-----------------------------------------------------------------------------
(***************************************************************************)
(* Handing out one thing after the other.                                  *)
(***************************************************************************)
LEMMA BehindStart ==
  ASSUME NEW s, IsSequence(s)
  PROVE  Behind(s, s, 0)
<1>1. Len(s) \in Nat
  BY SequenceFacts
<1> QED BY <1>1 DEF Behind

LEMMA HeadAndTail ==
  ASSUME NEW s, IsSequence(s), s # << >>
  PROVE  /\ Head(s) = s[1] /\ IsSequence(Tail(s)) /\ Len(s) \in Nat \ {0} /\ Len(Tail(s)) = Len(s) - 1
         /\ \A k \in 1 .. Len(s) - 1 : Tail(s)[k] = s[k + 1]
<1> DEFINE R == {s[k] : k \in DOMAIN s}
<1>1. s \in Seq(R)
  BY DEF IsSequence
<1> HIDE DEF R
<1>2. /\ Head(s) = s[1] /\ Tail(s) \in Seq(R) /\ Len(s) \in Nat \ {0} /\ Len(Tail(s)) = Len(s) - 1
      /\ \A k \in 1 .. Len(Tail(s)) : Tail(s)[k] = s[k + 1]
  BY <1>1, HeadTailProperties, EmptySeq, LenProperties
<1>3. IsSequence(Tail(s))
  BY <1>2, SequenceOfElements
<1> QED BY <1>2, <1>3

LEMMA BehindStep ==
  ASSUME NEW rest, NEW s, IsSequence(s), NEW n \in Nat, Behind(rest, s, n), rest # << >>
  PROVE  n + 1 \in 1 .. Len(s) /\ Head(rest) = s[n + 1] /\ Behind(Tail(rest), s, n + 1)
<1>1. /\ IsSequence(rest) /\ n + Len(rest) = Len(s) /\ \A k \in 1 .. Len(rest) : rest[k] = s[n + k]
  BY DEF Behind
<1> PICK m \in Nat \ {0} : m = Len(rest)
  BY <1>1, SequenceFacts
<1> PICK l \in Nat : l = Len(s)
  BY SequenceFacts
<1> PICK t : t = Tail(rest)
  OBVIOUS
<1>2. Head(rest) = rest[1] /\ IsSequence(t) /\ Len(t) = m - 1 /\ \A k \in 1 .. m - 1 : t[k] = rest[k + 1]
  BY <1>1, HeadAndTail
<1>3. n + m = l /\ \A k \in 1 .. m : rest[k] = s[n + k]
  BY <1>1
<1>4. 1 \in 1 .. m /\ n + 1 \in 1 .. l
  BY <1>3
<1>5. \A k \in 1 .. m - 1 : k + 1 \in 1 .. m /\ n + (k + 1) = n + 1 + k
  OBVIOUS
<1>6. \A k \in 1 .. m - 1 : t[k] = s[n + 1 + k]
  BY <1>2, <1>3, <1>5
<1>7. n + 1 + (m - 1) = l
  BY <1>3
<1> QED BY <1>2, <1>3, <1>4, <1>6, <1>7 DEF Behind

LEMMA BehindEnd ==
  ASSUME NEW s, IsSequence(s), NEW n \in Nat, Behind(<< >>, s, n)
  PROVE  Len(s) = n
  BY EmptySequence, SequenceFacts DEF Behind

LEMMA OneItem ==
  ASSUME NEW x
  PROVE  IsSequence(<<x>>) /\ Len(<<x>>) = 1 /\ <<x>>[1] = x /\ <<x>> # << >>
<1>1. <<x>> \in Seq({x}) /\ Len(<<x>>) = 1 /\ <<x>>[1] = x
  OBVIOUS
<1>2. IsSequence(<<x>>)
  BY <1>1, SequenceOfElements
<1> QED BY <1>1, <1>2, EmptySequence

LEMMA SequenceOf ==
  ASSUME NEW n \in Nat, NEW f, f = [k \in 1 .. n |-> f[k]]
  PROVE  IsSequence(f) /\ Len(f) = n
<1> DEFINE R == {f[k] : k \in 1 .. n}
<1>1. \A k \in 1 .. n : f[k] \in R
  OBVIOUS
<1> HIDE DEF R
<1>2. f \in Seq(R) /\ Len(f) = n
  BY <1>1
<1> QED BY <1>2, SequenceOfElements

-----------------------------------------------------------------------------
(***************************************************************************)
(* A visitor of an access, step by step: b is a after it.                  *)
(***************************************************************************)
Moved(b, a, rest, pending, got) ==
  /\ IsAccess(b) /\ b.name = a.name /\ b.from = a.from /\ b.lax = a.lax
  /\ b.rest = rest /\ b.pending = pending /\ b.got = got

LEMMA LegibleSound ==
  ASSUME NEW v, Legible(v), v.type # "string"
  PROVE  Sound(v)
  BY DEF Legible, String, Scalar

(* The items of an array, and of data, are values too. *)
LEMMA ItemsFacts ==
  ASSUME NEW v, Legible(v), v.type \in {"array", "data"}
  PROVE  /\ IsSequence(Items(v)) /\ \A k \in 1 .. Len(Items(v)) : Sound(Items(v)[k])
         /\ v.type = "data" => IsSequence(v.bytes) /\ Len(Items(v)) = Len(v.bytes)
                                 /\ \A k \in 1 .. Len(v.bytes) : Items(v)[k] = Integer(ByteOf(v.bytes[k]))
<1>1. Sound(v)
  BY LegibleSound
<1>2. CASE v.type = "array"
  <2>1. IsSequence(v.items) /\ \A x \in Contents(v) : Sound(x)
    BY <1>1, <1>2, SoundFacts DEF IsValue
  <2>2. Items(v) = v.items /\ Contents(v) = {v.items[k] : k \in DOMAIN v.items}
    BY <1>2 DEF Items, Contents
  <2>3. DOMAIN v.items = 1 .. Len(v.items)
    BY <2>1, SequenceFacts
  <2> QED BY <1>2, <2>1, <2>2, <2>3
<1>3. CASE v.type = "data"
  <2> PICK b : b = v.bytes
    OBVIOUS
  <2>1. IsSequence(b)
    BY <1>1, <1>3, SoundFacts DEF IsValue
  <2> PICK n \in Nat : n = Len(b) /\ DOMAIN b = 1 .. n
    BY <2>1, SequenceFacts
  <2> PICK f : f = [k \in 1 .. n |-> Integer(ByteOf(b[k]))]
    OBVIOUS
  <2>2. Items(v) = f
    BY <1>3 DEF Items, Bytes
  <2>3. f = [k \in 1 .. n |-> f[k]] /\ \A k \in 1 .. n : f[k] = Integer(ByteOf(b[k]))
    OBVIOUS
  <2>4. IsSequence(f) /\ Len(f) = n
    BY <2>3, SequenceOf
  <2> QED BY <2>1, <2>2, <2>3, <2>4, IntegersSound
<1> QED BY <1>2, <1>3

LEMMA EntriesFacts ==
  ASSUME NEW v, Legible(v), v.type = "dictionary"
  PROVE  IsSequence(v.entries) /\ \A k \in 1 .. Len(v.entries) : Sound(v.entries[k].value)
<1>1. IsSequence(v.entries) /\ \A x \in Contents(v) : Sound(x)
  BY LegibleSound, SoundFacts DEF IsValue
<1>2. Contents(v) = {v.entries[k].value : k \in DOMAIN v.entries}
  BY DEF Contents
<1>3. DOMAIN v.entries = 1 .. Len(v.entries)
  BY <1>1, SequenceFacts
<1> QED BY <1>1, <1>2, <1>3

LEMMA OpenMoved ==
  ASSUME NEW a, NEW b, NEW rest, NEW pending, NEW got, Open(a), Moved(b, a, rest, pending, got)
  PROVE  Open(b)
  BY DEF Open, Moved

(* A sequence. *)
LEMMA SeqHands ==
  ASSUME NEW a, NEW b, NEW w, NEW n \in Nat, Open(a), SeqAt(a, n, w), a.rest # << >>,
         Moved(b, a, Tail(a.rest), a.pending, a.got)
  PROVE  SeqAwaits(b, Head(a.rest), n, w) /\ Legible(Head(a.rest))
<1> PICK s : s = Items(a.from)
  OBVIOUS
<1>1. /\ a.name = "seq" /\ a.from.type \in {"array", "data"} /\ a.pending = {}
      /\ Behind(a.rest, s, n) /\ GotItems(a.got, s, n, a.lax, w) /\ Legible(a.from)
  BY DEF SeqAt, Open
<1>2. IsSequence(s) /\ \A k \in 1 .. Len(s) : Sound(s[k])
  BY <1>1, ItemsFacts
<1>3. n + 1 \in 1 .. Len(s) /\ Head(a.rest) = s[n + 1] /\ Behind(Tail(a.rest), s, n + 1)
  BY <1>1, <1>2, BehindStep
<1>4. Legible(Head(a.rest))
  BY <1>2, <1>3 DEF Legible
<1> QED BY <1>1, <1>3, <1>4 DEF Moved, SeqAwaits

LEMMA GotMore ==
  ASSUME NEW g, NEW s, NEW n \in Nat, NEW c, NEW w, GotItems(g, s, n, c, w), NEW r, Whole(r, s[n + 1], c, w)
  PROVE  GotItems(Extended(g, r), s, n + 1, c, w)
<1> PICK h : h = Extended(g, r)
  OBVIOUS
<1>1. IsSequence(g) /\ Size(g, n) /\ \A k \in 1 .. n : Whole(g[k], s[k], c, w)
  BY DEF GotItems
<1>2. IsSequence(h) /\ Size(h, n + 1) /\ OneMoreIs(h, g, n, r)
  BY <1>1, ExtendedTo
<1>3. ASSUME NEW k \in 1 .. n + 1 PROVE Whole(h[k], s[k], c, w)
  <2>1. k \in 1 .. n \/ k = n + 1
    BY ONLY n \in Nat, k \in 1 .. n + 1
  <2> QED BY <1>1, <1>2, <2>1 DEF OneMoreIs
<1> QED BY <1>2, <1>3 DEF GotItems

LEMMA SeqGets ==
  ASSUME NEW a, NEW b, NEW v, NEW w, NEW n \in Nat, SeqAwaits(a, v, n, w), NEW r, Whole(r, v, a.lax, w),
         Moved(b, a, a.rest, a.pending, Extended(a.got, r))
  PROVE  SeqAt(b, n + 1, w)
<1> PICK s : s = Items(a.from)
  OBVIOUS
<1>1. /\ a.name = "seq" /\ a.from.type \in {"array", "data"} /\ a.pending = {}
      /\ Behind(a.rest, s, n + 1) /\ GotItems(a.got, s, n, a.lax, w) /\ v = s[n + 1]
  BY DEF SeqAwaits
<1>2. GotItems(Extended(a.got, r), s, n + 1, a.lax, w)
  BY <1>1, GotMore
<1> QED BY <1>1, <1>2 DEF Moved, SeqAt

LEMMA SeqMade ==
  ASSUME NEW a, NEW w, NEW n \in Nat, Open(a), SeqAt(a, n, w), a.rest = << >>
  PROVE  Whole(Array(a.got), a.from, a.lax, w)
<1> PICK s : s = Items(a.from)
  OBVIOUS
<1> PICK g : g = a.got
  OBVIOUS
<1> PICK v : v = a.from
  OBVIOUS
<1> PICK r : r = Array(g)
  OBVIOUS
<1>1. v.type \in {"array", "data"} /\ Behind(<< >>, s, n) /\ GotItems(g, s, n, a.lax, w) /\ Legible(v)
  BY DEF SeqAt, Open
<1>2. IsSequence(s) /\ s = Items(v)
  BY <1>1, ItemsFacts
<1>3. Len(s) = n
  BY <1>1, <1>2, BehindEnd
<1>4. IsSequence(g) /\ Len(g) = n /\ \A k \in 1 .. n : Whole(g[k], s[k], a.lax, w)
  BY <1>1 DEF GotItems, Size
<1>5. r.type = "array" /\ r.items = g
  BY DEF Array
<1>6. CASE v.type = "array"
  <2>1. s = v.items
    BY <1>2, <1>6 DEF Items
  <2>2. DOMAIN v.items = 1 .. n
    BY <1>2, <1>3, <2>1, SequenceFacts
  <2>3. Represents(r, v, a.lax, w)
    BY <1>3, <1>4, <1>5, <1>6, <2>1 DEF Represents
  <2>4. Matched(r, v) = {<<g[k], s[k]>> : k \in 1 .. n}
    BY <1>5, <1>6, <2>1, <2>2 DEF Matched
  <2>5. ASSUME NEW x, NEW y, <<x, y>> \in Matched(r, v) PROVE Whole(x, y, a.lax, w)
    BY <1>4, <2>4, <2>5
  <2> QED BY <2>3, <2>5, WholeMade
<1>7. CASE v.type = "data"
  <2>1. n = Len(v.bytes) /\ IsSequence(v.bytes) /\ \A k \in 1 .. n : s[k] = Integer(ByteOf(v.bytes[k]))
    BY <1>1, <1>2, <1>3, <1>7, ItemsFacts
  <2>2. ASSUME NEW k \in 1 .. n PROVE IsKept(g[k], Integer(ByteOf(v.bytes[k])), w)
    <3>1. s[k].type = "integer"
      <4>1. \A m : Integer(m).type = "integer"
        BY DEF Integer
      <4> QED BY <2>1, <4>1
    <3>2. Represents(g[k], s[k], a.lax, w)
      BY <1>4, WholeFacts
    <3>3. IsKept(g[k], s[k], w)
      BY <3>1, <3>2 DEF Represents, IsKept
    <3> QED BY <2>1, <3>3
  <2>3. DOMAIN v.bytes = 1 .. n
    BY <2>1, SequenceFacts
  <2>4. RepresentsData(r, v, w)
    BY <1>4, <1>5, <2>1, <2>2, <2>3 DEF RepresentsData
  <2>5. Represents(r, v, a.lax, w)
    BY <1>7, <2>4 DEF Represents
  <2> QED BY <1>7, <2>5, WholeScalar
<1> QED BY <1>1, <1>6, <1>7

LEMMA LastOrEarlier ==
  ASSUME NEW n \in Nat
  PROVE  /\ \A k \in 1 .. n + 1 : (k \in 1 .. n /\ k # n + 1) \/ (k = n + 1 /\ ~ (k <= n))
         /\ \A k \in 1 .. n : k = n \/ (k # n /\ k <= n - 1)
  OBVIOUS

(* A dictionary: a key, and its value. *)
LEMMA MapHandsKey ==
  ASSUME NEW a, NEW b, NEW w, NEW n \in Nat, Open(a), MapAt(a, n, w), a.rest # << >>, w => a.pending = {},
         Moved(b, a, Tail(a.rest), {Head(a.rest).value}, a.got)
  PROVE  KeyAwaits(b, String(Head(a.rest).key), n, w)
<1> PICK s : s = a.from.entries
  OBVIOUS
<1> PICK g : g = a.got
  OBVIOUS
<1>1. a.name = "map" /\ a.from.type = "dictionary" /\ Behind(a.rest, s, n) /\ Legible(a.from)
  BY DEF MapAt, Open
<1>2. n + 1 \in 1 .. Len(s) /\ Head(a.rest) = s[n + 1] /\ Behind(Tail(a.rest), s, n + 1)
  BY <1>1, EntriesFacts, BehindStep
<1>3. IsSequence(g) /\ Size(g, n) /\ \A k \in 1 .. n : GotEntry(g[k], s[k], a.lax, w) /\ (w => g[k].value # {})
  <2>1. CASE a.pending = {}
    <3>1. GotEntries(g, s, n, n, a.lax, w)
      BY <2>1 DEF MapAt
    <3>2. \A k \in 1 .. n : k <= n
      OBVIOUS
    <3> QED BY <3>1, <3>2 DEF GotEntries
  <2>2. CASE a.pending # {}
    BY <2>2 DEF MapAt, GotEntries
  <2> QED BY <2>1, <2>2
<1> QED BY <1>1, <1>2, <1>3 DEF KeyAwaits, Moved

LEMMA KeyWhole ==
  ASSUME NEW r, NEW t, NEW w, Whole(r, String(t), FALSE, w)
  PROVE  IsKept(r, String(t), w)
<1>1. String(t).type = "string"
  BY DEF String, Scalar
<1>2. Represents(r, String(t), FALSE, w)
  BY WholeFacts
<1> QED BY <1>1, <1>2 DEF Represents, IsKept

(* A key without its value yet. *)
KeyAlone(r) == [key |-> r, value |-> {}]

LEMMA MapGetsKey ==
  ASSUME NEW a, NEW b, NEW v, NEW w, NEW n \in Nat, KeyAwaits(a, v, n, w), NEW r, Whole(r, v, FALSE, w),
         Moved(b, a, a.rest, a.pending, Extended(a.got, KeyAlone(r)))
  PROVE  MapAt(b, n + 1, w)
<1> PICK s : s = a.from.entries
  OBVIOUS
<1> PICK g : g = a.got
  OBVIOUS
<1> PICK e : e = KeyAlone(r)
  OBVIOUS
<1> PICK h : h = Extended(g, e)
  OBVIOUS
<1>1. /\ a.name = "map" /\ a.from.type = "dictionary" /\ Behind(a.rest, s, n + 1)
      /\ a.pending = {s[n + 1].value} /\ v = String(s[n + 1].key)
  BY DEF KeyAwaits
<1>2. IsSequence(g) /\ Size(g, n) /\ \A k \in 1 .. n : GotEntry(g[k], s[k], a.lax, w) /\ (w => g[k].value # {})
  BY DEF KeyAwaits
<1>3. IsSequence(h) /\ Size(h, n + 1) /\ OneMoreIs(h, g, n, e)
  BY <1>2, ExtendedTo
<1>4. IsKept(r, v, w)
  BY <1>1, KeyWhole
<1>5. e.key = r /\ e.value = {} /\ IsPair(e)
  BY DEF IsPair, KeyAlone
<1>6. GotEntry(e, s[n + 1], a.lax, w)
  BY <1>1, <1>4, <1>5 DEF GotEntry
<1>7. ASSUME NEW k \in 1 .. n + 1
      PROVE  GotEntry(h[k], s[k], a.lax, w) /\ ((w \/ k = n + 1) /\ k <= n => h[k].value # {})
  <2>1. (k \in 1 .. n /\ k # n + 1) \/ (k = n + 1 /\ ~ (k <= n))
    BY LastOrEarlier
  <2> QED BY <1>2, <1>3, <1>6, <2>1 DEF OneMoreIs
<1>8. GotEntries(h, s, n + 1, n, a.lax, w)
  BY <1>3, <1>7 DEF GotEntries
<1>9. n + 1 # 0 /\ n + 1 - 1 = n
  OBVIOUS
<1> QED BY <1>1, <1>8, <1>9 DEF MapAt, Moved

LEMMA MapHandsValue ==
  ASSUME NEW a, NEW b, NEW w, NEW n \in Nat, Open(a), MapAt(a, n, w), NEW v \in a.pending,
         Moved(b, a, a.rest, {}, a.got)
  PROVE  ValueAwaits(b, v, n, w) /\ Legible(v)
<1> PICK s : s = a.from.entries
  OBVIOUS
<1>1. /\ a.name = "map" /\ a.from.type = "dictionary" /\ Behind(a.rest, s, n) /\ Legible(a.from)
      /\ n # 0 /\ v = s[n].value /\ GotEntries(a.got, s, n, n - 1, a.lax, w)
  BY DEF MapAt, Open
<1>2. IsSequence(s) /\ \A k \in 1 .. Len(s) : Sound(s[k].value)
  BY <1>1, EntriesFacts
<1>3. n \in 1 .. Len(s)
  <2>1. Len(a.rest) \in Nat /\ Len(s) \in Nat
    BY <1>1, <1>2, SequenceFacts DEF Behind
  <2> QED BY <1>1, <2>1 DEF Behind
<1>4. Legible(v)
  BY <1>1, <1>2, <1>3 DEF Legible
<1> QED BY <1>1, <1>4 DEF ValueAwaits, Moved

(* A value that came after its key. *)
WithValue(e, r) == [e EXCEPT !.value = {r}]

LEMMA MapGetsValue ==
  ASSUME NEW a, NEW b, NEW v, NEW w, NEW n \in Nat, ValueAwaits(a, v, n, w), NEW r, Whole(r, v, a.lax, w),
         Moved(b, a, a.rest, a.pending, Replaced(a.got, WithValue(a.got[n], r)))
  PROVE  MapAt(b, n, w)
<1> PICK s : s = a.from.entries
  OBVIOUS
<1> PICK g : g = a.got
  OBVIOUS
<1> PICK e : e = WithValue(g[n], r)
  OBVIOUS
<1> PICK h : h = Replaced(g, e)
  OBVIOUS
<1>1. /\ a.name = "map" /\ a.from.type = "dictionary" /\ Behind(a.rest, s, n) /\ n # 0
      /\ a.pending = {} /\ GotEntries(g, s, n, n - 1, a.lax, w) /\ v = s[n].value
  BY DEF ValueAwaits
<1>2. /\ IsSequence(g) /\ Size(g, n)
      /\ \A k \in 1 .. n : GotEntry(g[k], s[k], a.lax, w) /\ ((w \/ k = n) /\ k <= n - 1 => g[k].value # {})
  BY <1>1 DEF GotEntries
<1>3. g # << >>
  BY <1>1, <1>2, EmptySequence DEF Size
<1>4. IsSequence(h) /\ Size(h, n) /\ LastIs(h, g, n, e)
  BY <1>2, <1>3, ReplacedTo
<1>5. n \in 1 .. n
  BY <1>1
<1>6. IsPair(e) /\ e.key = g[n].key /\ e.value = {r}
  <2> PICK p : p = g[n]
    OBVIOUS
  <2>1. p = [key |-> p.key, value |-> p.value]
    BY <1>2, <1>5 DEF GotEntry, IsPair
  <2>2. e = [key |-> p.key, value |-> {r}]
    BY <2>1 DEF WithValue
  <2> QED BY <2>2 DEF IsPair
<1>7. GotEntry(e, s[n], a.lax, w)
  BY <1>1, <1>2, <1>5, <1>6 DEF GotEntry
<1>8. ASSUME NEW k \in 1 .. n
      PROVE  GotEntry(h[k], s[k], a.lax, w) /\ ((w \/ k = n) /\ k <= n => h[k].value # {})
  <2>1. k = n \/ (k # n /\ k <= n - 1)
    BY LastOrEarlier
  <2> QED BY <1>2, <1>4, <1>6, <1>7, <2>1 DEF LastIs
<1>9. GotEntries(h, s, n, n, a.lax, w)
  BY <1>4, <1>8 DEF GotEntries
<1> QED BY <1>1, <1>9 DEF MapAt, Moved

LEMMA MapMade ==
  ASSUME NEW a, NEW w, NEW n \in Nat, Open(a), MapAt(a, n, w), a.rest = << >>, a.pending = {}
  PROVE  Whole([type |-> "map", got |-> a.got], a.from, a.lax, w)
<1> PICK s : s = a.from.entries
  OBVIOUS
<1> PICK g : g = a.got
  OBVIOUS
<1> PICK v : v = a.from
  OBVIOUS
<1> PICK r : r = [type |-> "map", got |-> g]
  OBVIOUS
<1>1. v.type = "dictionary" /\ Behind(<< >>, s, n) /\ GotEntries(g, s, n, n, a.lax, w) /\ Legible(v)
  BY DEF MapAt, Open
<1>2. IsSequence(s) /\ s = v.entries
  BY <1>1, EntriesFacts
<1>3. Len(s) = n /\ DOMAIN s = 1 .. n
  BY <1>1, <1>2, BehindEnd, SequenceFacts
<1>4. /\ Len(g) = n
      /\ \A k \in 1 .. n : GotEntry(g[k], s[k], a.lax, w) /\ (w \/ k = n => g[k].value # {})
  <2>1. \A k \in 1 .. n : k <= n
    OBVIOUS
  <2> QED BY <1>1, <2>1 DEF GotEntries, Size
<1>5. r.type = "map" /\ r.got = g
  OBVIOUS
<1>6. Represents(r, v, a.lax, w)
  <2>1. ASSUME NEW k \in 1 .. n
        PROVE  IsKept(g[k].key, String(s[k].key), w) /\ (w \/ k = Len(s) => g[k].value # {})
    BY <1>3, <1>4 DEF GotEntry
  <2>2. RepresentsDictionary(r, v, w)
    BY <1>2, <1>3, <1>4, <1>5, <2>1 DEF RepresentsDictionary
  <2> QED BY <1>1, <2>2 DEF Represents
<1>7. Matched(r, v) = UNION {{<<x, s[k].value>> : x \in g[k].value} : k \in 1 .. n}
  BY <1>1, <1>2, <1>3, <1>5 DEF Matched
<1>8. ASSUME NEW x, NEW y, <<x, y>> \in Matched(r, v) PROVE Whole(x, y, a.lax, w)
  <2>1. PICK k \in 1 .. n : <<x, y>> \in {<<z, s[k].value>> : z \in g[k].value}
    BY <1>7, <1>8
  <2>2. x \in g[k].value /\ y = s[k].value
    BY <2>1
  <2> QED BY <1>4, <2>2 DEF GotEntry
<1> QED BY <1>6, <1>8, WholeMade

(* An enum: its name, and its payload. *)
LEMMA EnumHandsName ==
  ASSUME NEW a, NEW b, EnumFresh(a), Moved(b, a, << >>, Payload(a.from), a.got)
  PROVE  NameAwaits(b, String(Head(a.rest))) /\ Legible(String(Head(a.rest)))
<1>1. a.rest = <<Variant(a.from)>>
  BY DEF EnumFresh
<1>2. Head(a.rest) = Variant(a.from)
  BY <1>1, OneItem, HeadAndTail
<1>3. \A t : Legible(String(t))
  BY DEF Legible, String, Scalar
<1> QED BY <1>2, <1>3 DEF EnumFresh, Moved, NameAwaits

LEMMA EnumGetsName ==
  ASSUME NEW a, NEW b, NEW v, NEW w, NameAwaits(a, v), NEW r, Whole(r, v, a.lax, w),
         Moved(b, a, a.rest, a.pending, Extended(a.got, r))
  PROVE  EnumNamed(b, w)
<1>1. Extended(<< >>, r) = <<r>>
  BY DEF Extended
<1>2. b.got = <<r>> /\ Whole(r, String(Variant(b.from)), b.lax, w)
  BY <1>1 DEF NameAwaits, Moved
<1>3. GotName(b, w)
  BY <1>2 DEF GotName
<1> QED BY <1>3 DEF EnumNamed, NameAwaits, Moved

LEMMA EnumUnit ==
  ASSUME NEW a, NEW w, EnumNamed(a, w), a.pending = {}
  PROVE  Whole(a.got[1], a.from, a.lax, w)
<1>1. a.from = String(Variant(a.from))
  BY DEF EnumNamed, Payload, IsVariant, Variant
<1>2. PICK x : a.got = <<x>> /\ Whole(x, String(Variant(a.from)), a.lax, w)
  BY DEF EnumNamed, GotName
<1>3. a.got[1] = x
  BY <1>2
<1> QED BY <1>1, <1>2, <1>3

LEMMA EnumHandsPayload ==
  ASSUME NEW a, NEW b, NEW w, Open(a), EnumNamed(a, w), NEW v \in a.pending, Moved(b, a, a.rest, {}, a.got)
  PROVE  PayloadAwaits(b, v, w) /\ Legible(v)
<1>1. a.from.type = "dictionary" /\ Len(a.from.entries) = 1 /\ v = a.from.entries[1].value
  BY DEF EnumNamed, Payload, IsVariant
<1>2. Sound(a.from.entries[1].value)
  BY <1>1, EntriesFacts DEF Open
<1>3. GotName(b, w)
  BY DEF EnumNamed, GotName, Moved
<1> QED BY <1>1, <1>2, <1>3 DEF EnumNamed, PayloadAwaits, Moved, Legible

LEMMA EnumMade ==
  ASSUME NEW a, NEW v, NEW w, PayloadAwaits(a, v, w), NEW r, Whole(r, v, a.lax, w)
  PROVE  Whole(VariantMade(a.got[1], r), a.from, a.lax, w)
<1> PICK u : u = a.from
  OBVIOUS
<1> PICK m : m = VariantMade(a.got[1], r)
  OBVIOUS
<1>1. u.type = "dictionary" /\ Len(u.entries) = 1 /\ v = u.entries[1].value /\ Variant(u) = u.entries[1].key
  BY DEF PayloadAwaits, Variant
<1>2. PICK x : a.got = <<x>> /\ Whole(x, String(Variant(u)), a.lax, w)
  BY DEF PayloadAwaits, GotName
<1>3. m.type = "variant" /\ m.name = x /\ m.payload = r
  BY <1>2 DEF VariantMade
<1>4. Represents(m, u, a.lax, w)
  BY <1>1, <1>3 DEF Represents, RepresentsDictionary
<1>5. Matched(m, u) = {<<x, String(u.entries[1].key)>>, <<r, v>>}
  BY <1>1, <1>3 DEF Matched
<1>6. ASSUME NEW y, NEW z, <<y, z>> \in Matched(m, u) PROVE Whole(y, z, a.lax, w)
  BY <1>1, <1>2, <1>5, <1>6
<1> QED BY <1>4, <1>6, WholeMade

-----------------------------------------------------------------------------
(***************************************************************************)
(* What a deserializer makes of a value it is asked about.                 *)
(***************************************************************************)
Begins(a, s, w) == Idle(a, w) /\ a.from = s.value /\ a.lax = s.lax

LEMMA AccessFields ==
  ASSUME NEW name, NEW from, NEW rest, NEW pending, NEW depth, NEW soft, NEW a,
         a = Access(name, from, rest, pending, depth, soft)
  PROVE  /\ IsAccess(a) /\ a.name = name /\ a.from = from /\ a.rest = rest /\ a.pending = pending
         /\ a.lax = soft /\ a.got = << >>
  BY DEF Access, IsAccess

LEMMA SeqBegins ==
  ASSUME NEW s, Legible(s.value), s.value.type \in {"array", "data"}, NEW depth, NEW w
  PROVE  Begins(Access("seq", s.value, Items(s.value), {}, depth, s.lax), s, w)
<1> PICK v : v = s.value
  OBVIOUS
<1> PICK r : r = Items(v)
  OBVIOUS
<1> PICK a : a = Access("seq", v, r, {}, depth, s.lax)
  OBVIOUS
<1>1. /\ IsAccess(a) /\ a.name = "seq" /\ a.from = v /\ a.rest = r /\ a.pending = {}
      /\ a.lax = s.lax /\ a.got = << >>
  BY AccessFields
<1>2. Behind(r, r, 0)
  BY ItemsFacts, BehindStart
<1>3. GotItems(<< >>, r, 0, a.lax, w)
  BY EmptySequence DEF GotItems, Size
<1>4. SeqAt(a, 0, w) /\ 0 \in Nat
  BY <1>1, <1>2, <1>3 DEF SeqAt
<1> QED BY <1>1, <1>4 DEF Begins, Idle, Open

LEMMA MapBegins ==
  ASSUME NEW s, Legible(s.value), s.value.type = "dictionary", NEW depth, NEW w
  PROVE  Begins(Access("map", s.value, s.value.entries, {}, depth, s.lax), s, w)
<1> PICK v : v = s.value
  OBVIOUS
<1> PICK r : r = v.entries
  OBVIOUS
<1> PICK a : a = Access("map", v, r, {}, depth, s.lax)
  OBVIOUS
<1>1. /\ IsAccess(a) /\ a.name = "map" /\ a.from = v /\ a.rest = r /\ a.pending = {}
      /\ a.lax = s.lax /\ a.got = << >>
  BY AccessFields
<1>2. Behind(r, r, 0)
  BY EntriesFacts, BehindStart
<1>3. GotEntries(<< >>, r, 0, 0, a.lax, w)
  BY EmptySequence DEF GotEntries, Size
<1>4. MapAt(a, 0, w) /\ 0 \in Nat
  BY <1>1, <1>2, <1>3 DEF MapAt
<1> QED BY <1>1, <1>4 DEF Begins, Idle, Open

LEMMA EnumBegins ==
  ASSUME NEW s, Legible(s.value), IsVariant(s.value), NEW depth, NEW w
  PROVE  Begins(Access("enum", s.value, <<Variant(s.value)>>, {}, depth, s.lax), s, w)
<1> PICK v : v = s.value
  OBVIOUS
<1> PICK a : a = Access("enum", v, <<Variant(v)>>, {}, depth, s.lax)
  OBVIOUS
<1>1. /\ IsAccess(a) /\ a.name = "enum" /\ a.from = v /\ a.rest = <<Variant(v)>> /\ a.pending = {}
      /\ a.lax = s.lax /\ a.got = << >>
  BY AccessFields
<1>2. EnumFresh(a)
  BY <1>1 DEF EnumFresh
<1> QED BY <1>1, <1>2 DEF Begins, Idle, Open

LEMMA EntersAt ==
  ASSUME NEW name, NEW s, NEW rest, NEW depths, EnterAt(name, s, rest, depths).does = "enter"
  PROVE  \E d : EnterAt(name, s, rest, depths).access = Access(name, s.value, rest, {}, d, s.lax)
  BY DEF EnterAt, Fail, Enter

LEMMA ArrayBegins ==
  ASSUME NEW s, Legible(s.value), s.value.type = "array", visit_array(s).does = "enter", NEW w
  PROVE  Begins(visit_array(s).access, s, w)
<1>1. Items(s.value) = s.value.items
  BY DEF Items
<1> QED BY <1>1, EntersAt, SeqBegins DEF visit_array

LEMMA DictionaryBegins ==
  ASSUME NEW s, Legible(s.value), s.value.type = "dictionary", visit_dictionary(s).does = "enter", NEW w
  PROVE  Begins(visit_dictionary(s).access, s, w)
  BY EntersAt, MapBegins DEF visit_dictionary

LEMMA BytesBegin ==
  ASSUME NEW s, Legible(s.value), s.value.type = "data", visit_bytes(s).does = "enter", NEW w
  PROVE  Begins(visit_bytes(s).access, s, w)
<1> DEFINE numbers == [k \in DOMAIN s.value.bytes |-> Integer(ByteOf(s.value.bytes[k]))]
<1>1. Items(s.value) = numbers
  BY DEF Items, Bytes
<1>2. visit_bytes(s) = EnterAt("seq", s, Items(s.value), {s.depth})
  BY <1>1 DEF visit_bytes
<1> QED BY <1>2, EntersAt, SeqBegins

LEMMA VariantBegins ==
  ASSUME NEW s, Legible(s.value), deserialize_enum(s).does = "enter", NEW w
  PROVE  Begins(deserialize_enum(s).access, s, w)
<1>1. CASE s.value.type = "string"
  <2>1. s.value = String(s.value.text)
    BY <1>1, SoundFacts DEF Legible, IsValue
  <2>2. IsVariant(s.value) /\ Variant(s.value) = s.value.text
    BY <1>1, <2>1 DEF IsVariant, Variant
  <2>3. deserialize_enum(s).access = Access("enum", s.value, <<s.value.text>>, {}, s.depth, s.lax)
    BY <1>1 DEF deserialize_enum, Enter
  <2> QED BY <2>2, <2>3, EnumBegins
<1>2. CASE s.value.type = "dictionary"
  <2> DEFINE names == [k \in DOMAIN s.value.entries |-> s.value.entries[k].key]
  <2>1. Descend(s.depth) # {} /\ Len(s.value.entries) = 1
        /\ deserialize_enum(s) = EnterAt("enum", s, names, Descend(s.depth))
    BY <1>2, NothingEntered DEF deserialize_enum, EnterAt
  <2>2. IsVariant(s.value) /\ Variant(s.value) = s.value.entries[1].key
    BY <1>2, <2>1 DEF IsVariant, Variant
  <2>3. DOMAIN s.value.entries = 1 .. 1
    BY <1>2, <2>1, EntriesFacts, SequenceFacts
  <2>4. names = <<s.value.entries[1].key>>
    <3>1. names = [k \in 1 .. 1 |-> s.value.entries[k].key]
      BY <2>3
    <3>2. \A f : [k \in 1 .. 1 |-> f[k].key] = <<f[1].key>>
      OBVIOUS
    <3> QED BY <3>1, <3>2
  <2> HIDE DEF names
  <2> QED BY <2>1, <2>2, <2>4, EntersAt, EnumBegins
<1>3. CASE s.value.type \notin {"string", "dictionary"}
  BY <1>3, NothingEntered DEF deserialize_enum
<1> QED BY <1>1, <1>2, <1>3

LEMMA AskedBegins ==
  ASSUME NEW hint \in Hints, NEW s, Legible(s.value), Asked(hint, s).does = "enter", NEW w
  PROVE  Begins(Asked(hint, s).access, s, w)
<1>1. ~ (s.depth > MaxParseDepth)
  BY NothingEntered DEF Asked
<1>2. s.value.type = "array" /\ visit_array(s).does = "enter" => Begins(visit_array(s).access, s, w)
  BY ArrayBegins
<1>3. s.value.type = "dictionary" /\ visit_dictionary(s).does = "enter" => Begins(visit_dictionary(s).access, s, w)
  BY DictionaryBegins
<1>4. CASE hint \in {"bool", "signed", "unsigned", "float", "string", "unit", "uid", "date"}
  <2>1. Asked(hint, s).does # "enter"
    BY <1>1, <1>4, ScalarsEnterNothing, NothingEntered DEF Asked
  <2> QED BY <2>1
<1>5. CASE hint = "any"
  <2>1. Asked(hint, s) = deserialize_any(s)
    BY <1>1, <1>5 DEF Asked
  <2> QED BY <1>2, <1>3, <2>1, AnyEnters
<1>6. CASE hint = "bytes"
  BY <1>1, <1>2, <1>6, NothingEntered DEF Asked
<1>7. CASE hint = "seq"
  BY <1>1, <1>2, <1>7, BytesBegin, NothingEntered DEF Asked
<1>8. CASE hint = "map"
  BY <1>1, <1>3, <1>8, NothingEntered DEF Asked
<1>9. CASE hint = "enum"
  <2>1. Asked(hint, s) = deserialize_enum(s)
    BY <1>1, <1>9 DEF Asked
  <2> QED BY <2>1, VariantBegins
<1> QED BY <1>4, <1>5, <1>6, <1>7, <1>8, <1>9 DEF Hints

-----------------------------------------------------------------------------
(* A scalar that stands for a value.                                       *)
Told(does, s, w) ==
  does.does = "visit" => Represents(does.value, s.value, s.lax, w) /\ s.value.type \notin {"array", "dictionary"}

LEMMA NothingTold ==
  ASSUME NEW s, NEW w
  PROVE  /\ \A kind : Told(Fail(kind), s, w)
         /\ Told(Mismatch, s, w)
         /\ \A name, rest, depths : Told(EnterAt(name, s, rest, depths), s, w)
         /\ \A access : Told(Enter(access), s, w)
<1>1. \A kind : Fail(kind).does # "visit"
  BY DEF Fail
<1>2. \A access : Enter(access).does # "visit"
  BY DEF Enter
<1> QED BY <1>1, <1>2 DEF Told, Mismatch, EnterAt

LEMMA Visited == \A value : Visit(value).does = "visit" /\ Visit(value).value = value
  BY DEF Visit

LEMMA CoercedTold ==
  ASSUME NEW s, NEW w, NEW scalars, s.value.type = "string", s.lax,
         \A x \in scalars : x.type \in {"boolean", "integer", "real", "string"}
  PROVE  Told(Coerced(scalars), s, w)
<1>1. CASE scalars = {}
  BY <1>1, NothingTold DEF Coerced
<1>2. CASE scalars # {}
  <2>1. PICK x \in scalars : Coerced(scalars) = Visit(x)
    BY <1>2 DEF Coerced
  <2>2. Represents(x, s.value, s.lax, w)
    BY <2>1 DEF Represents
  <2> QED BY <2>1, <2>2, Visited DEF Told
<1> QED BY <1>1, <1>2

LEMMA SameTold ==
  ASSUME NEW s, NEW w, s.value.type \notin {"array", "dictionary"}
  PROVE  Told(Visit(s.value), s, w)
<1>1. Represents(s.value, s.value, s.lax, w)
  BY DEF Represents, RepresentsData
<1> QED BY <1>1, Visited DEF Told

LEMMA IntegerTold ==
  ASSUME NEW s, NEW w, NEW parsed
  PROVE  Told(integer_target(s, parsed), s, w)
<1>1. CASE s.value.type = "integer"
  BY <1>1, SameTold DEF integer_target
<1>2. CASE s.value.type = "uid"
  <2>1. Represents(Integer(s.value.bits), s.value, s.lax, w)
    BY <1>2 DEF Represents
  <2>2. integer_target(s, parsed) = Visit(Integer(s.value.bits))
    BY <1>2 DEF integer_target
  <2> QED BY <1>2, <2>1, <2>2, Visited DEF Told
<1>3. CASE s.value.type = "string" /\ s.lax
  <2>1. \A x \in {Integer(n) : n \in parsed} : x.type = "integer"
    BY DEF Integer
  <2>2. integer_target(s, parsed) = Coerced({Integer(n) : n \in parsed})
    BY <1>3 DEF integer_target
  <2> QED BY <1>3, <2>1, <2>2, CoercedTold
<1>4. CASE s.value.type \notin {"integer", "uid"} /\ ~ (s.value.type = "string" /\ s.lax)
  <2>1. integer_target(s, parsed) = Mismatch
    BY <1>4 DEF integer_target
  <2> QED BY <2>1, NothingTold
<1> QED BY <1>1, <1>2, <1>3, <1>4

LEMMA FloatTold ==
  ASSUME NEW s, NEW w
  PROVE  Told(float_target(s), s, w)
<1>1. CASE s.value.type = "real"
  <2>1. Represents(Real(s.value.real, TRUE), s.value, s.lax, w)
    BY <1>1 DEF Represents
  <2>2. float_target(s) = Visit(Real(s.value.real, TRUE))
    BY <1>1 DEF float_target
  <2> QED BY <1>1, <2>1, <2>2, Visited DEF Told
<1>2. CASE s.value.type = "string" /\ s.lax
  <2>1. \A x \in {Real(f, TRUE) : f \in parse_f64(s.value.text)} : x.type = "real"
    BY DEF Real
  <2>2. float_target(s) = Coerced({Real(f, TRUE) : f \in parse_f64(s.value.text)})
    BY <1>2 DEF float_target
  <2> QED BY <1>2, <2>1, <2>2, CoercedTold
<1>3. CASE s.value.type # "real" /\ ~ (s.value.type = "string" /\ s.lax)
  <2>1. float_target(s) = Mismatch
    BY <1>3 DEF float_target
  <2> QED BY <2>1, NothingTold
<1> QED BY <1>1, <1>2, <1>3

LEMMA BoolTold ==
  ASSUME NEW s, NEW w
  PROVE  Told(deserialize_bool(s), s, w)
<1>1. CASE s.value.type = "boolean"
  BY <1>1, SameTold DEF deserialize_bool
<1>2. CASE s.value.type = "string" /\ s.lax
  <2>1. \A x \in {Boolean(b) : b \in parse_bool(s.value.text)} : x.type = "boolean"
    BY DEF Boolean
  <2>2. deserialize_bool(s) = Coerced({Boolean(b) : b \in parse_bool(s.value.text)})
    BY <1>2 DEF deserialize_bool
  <2> QED BY <1>2, <2>1, <2>2, CoercedTold
<1>3. CASE s.value.type # "boolean" /\ ~ (s.value.type = "string" /\ s.lax)
  <2>1. deserialize_bool(s) = Mismatch
    BY <1>3 DEF deserialize_bool
  <2> QED BY <2>1, NothingTold
<1> QED BY <1>1, <1>2, <1>3

LEMMA StringTold ==
  ASSUME NEW s, NEW w
  PROVE  Told(string_target(s), s, w)
  BY SameTold, NothingTold DEF string_target

LEMMA DateTold ==
  ASSUME NEW s, NEW w
  PROVE  Told(date_sentinel(s), s, w)
<1>1. CASE s.value.type = "date"
  <2> PICK i : i = s.value.instant
    OBVIOUS
  <2>1. (CHOOSE d \in {i} : TRUE) = i
    BY Zenon
  <2>2. date_sentinel(s) = Visit(String(format_sentinel_date(i)))
    BY <1>1, <2>1 DEF date_sentinel, visit_date
  <2>3. Represents(String(format_sentinel_date(i)), s.value, s.lax, w)
    BY <1>1 DEF Represents
  <2> QED BY <1>1, <2>2, <2>3, Visited DEF Told
<1>2. CASE s.value.type = "string" /\ s.lax
  <2> PICK dates : dates = parse_text_layout(s.value.text)
    OBVIOUS
  <2>1. date_sentinel(s) = visit_date(dates)
    BY <1>2 DEF date_sentinel
  <2>2. visit_date(dates) = Fail("ParseScalar") \/ \E t : visit_date(dates) = Visit(String(t))
    BY DEF visit_date
  <2>3. ASSUME NEW t PROVE Told(Visit(String(t)), s, w)
    <3>1. String(t).type = "string"
      BY DEF String, Scalar
    <3>2. Represents(String(t), s.value, s.lax, w)
      BY <1>2, <3>1 DEF Represents
    <3> QED BY <1>2, <3>2, Visited DEF Told
  <2> QED BY <2>1, <2>2, <2>3, NothingTold
<1>3. CASE s.value.type # "date" /\ ~ (s.value.type = "string" /\ s.lax)
  <2>1. date_sentinel(s) = Mismatch
    BY <1>3 DEF date_sentinel
  <2> QED BY <2>1, NothingTold
<1> QED BY <1>1, <1>2, <1>3

(* A UID and a date that are replayed are themselves again. *)
LEMMA AnyTold ==
  ASSUME NEW s, NEW w, Legible(s.value)
  PROVE  Told(deserialize_any(s), s, w)
<1> PICK v : v = s.value
  OBVIOUS
<1>1. CASE v.type \in {"array", "dictionary"}
  BY <1>1, NothingTold DEF deserialize_any, visit_array, visit_dictionary
<1>2. CASE v.type = "uid"
  <2> PICK n : n = v.bits
    OBVIOUS
  <2>1. v = Uid(n)
    BY <1>2, LegibleSound, SoundFacts DEF IsValue
  <2>2. Integer(n).type = "integer" /\ Integer(n).number = n
    BY DEF Integer
  <2>3. Replayed(Integer(n)) = Visit(Uid(n)) \/ Replayed(Integer(n)) = Fail("Message")
    BY <2>2 DEF Replayed
  <2>4. deserialize_any(s) = Replayed(Integer(n))
    BY <1>2 DEF deserialize_any
  <2> QED BY <1>2, <2>1, <2>3, <2>4, SameTold, NothingTold
<1>3. CASE v.type = "date"
  <2> PICK i : i = v.instant
    OBVIOUS
  <2>1. v = Date(i) /\ parse_sentinel_date(format_sentinel_date(i)) = {i}
    BY <1>3, LegibleSound, SoundFacts DEF IsValue, ReadsBack
  <2> PICK t : t = format_sentinel_date(i)
    OBVIOUS
  <2>2. String(t).type = "string" /\ String(t).text = t
    BY DEF String, Scalar
  <2>3. (CHOOSE d \in {i} : TRUE) = i
    BY Zenon
  <2>4. Replayed(String(t)) = Visit(Date(i))
    BY <2>1, <2>2, <2>3 DEF Replayed, ReplayedDate
  <2>5. deserialize_any(s) = Replayed(String(t))
    BY <1>3 DEF deserialize_any
  <2> QED BY <1>3, <2>1, <2>4, <2>5, SameTold
<1>4. CASE v.type \notin {"array", "dictionary", "uid", "date"}
  <2>1. deserialize_any(s) = Visit(v)
    BY <1>4 DEF deserialize_any
  <2> QED BY <1>4, <2>1, SameTold
<1> QED BY <1>1, <1>2, <1>3, <1>4

LEMMA AskedTold ==
  ASSUME NEW hint \in Hints, NEW s, Legible(s.value), NEW w
  PROVE  Told(Asked(hint, s), s, w)
<1>1. CASE s.depth > MaxParseDepth
  BY <1>1, NothingTold DEF Asked
<1>2. CASE ~ (s.depth > MaxParseDepth)
  <2>1. Told(visit_array(s), s, w) /\ Told(visit_dictionary(s), s, w) /\ Told(visit_bytes(s), s, w)
    BY NothingTold DEF visit_array, visit_dictionary, visit_bytes
  <2>2. Told(deserialize_enum(s), s, w)
    BY NothingTold DEF deserialize_enum
  <2>3. CASE hint \in {"any", "bool", "float", "string", "date", "unit"}
    BY <1>2, <2>3, AnyTold, BoolTold, FloatTold, StringTold, DateTold, NothingTold DEF Asked
  <2>4. CASE hint \in {"signed", "unsigned", "uid"}
    BY <1>2, <2>4, IntegerTold DEF Asked
  <2>5. CASE hint \in {"bytes", "seq", "map", "enum"}
    <3>1. s.value.type = "data" => Told(Visit(s.value), s, w)
      BY SameTold
    <3> QED BY <1>2, <2>1, <2>2, <2>5, <3>1, NothingTold DEF Asked
  <2> QED BY <2>3, <2>4, <2>5 DEF Hints
<1> QED BY <1>1, <1>2

LEMMA AskedVisits ==
  ASSUME NEW hint \in Hints, NEW s, Legible(s.value), Asked(hint, s).does = "visit", NEW w
  PROVE  Whole(Asked(hint, s).value, s.value, s.lax, w)
  BY AskedTold, WholeScalar DEF Told

-----------------------------------------------------------------------------
(***************************************************************************)
(* The stack of accesses: each waits for the one above it.                 *)
(***************************************************************************)
LEMMA ExpectedSame ==
  ASSUME NEW as, NEW bs, NEW n, n # 0 => bs[n] = as[n], NEW v, NEW k, NEW root, NEW c, NEW w,
         Expected(as, n, v, k, root, c, w)
  PROVE  Expected(bs, n, v, k, root, c, w)
  BY DEF Expected

LEMMA ChainedSame ==
  ASSUME NEW as, NEW bs, NEW n \in Nat, NEW root, NEW c, NEW w, Chained(as, n, root, c, w),
         \A d \in 1 .. n : d # n => bs[d] = as[d],
         n # 0 => bs[n].from = as[n].from /\ bs[n].lax = as[n].lax
  PROVE  Chained(bs, n, root, c, w)
<1>1. ASSUME NEW d \in 1 .. n PROVE Expected(bs, d - 1, bs[d].from, bs[d].lax, root, c, w)
  <2>1. Expected(as, d - 1, as[d].from, as[d].lax, root, c, w)
    BY DEF Chained
  <2>2. d - 1 # 0 => d - 1 \in 1 .. n /\ d - 1 # n
    OBVIOUS
  <2>3. d - 1 # 0 => bs[d - 1] = as[d - 1]
    BY <2>2
  <2>4. bs[d].from = as[d].from /\ bs[d].lax = as[d].lax
    <3>1. n # 0
      OBVIOUS
    <3> QED BY <3>1
  <2> QED BY <2>1, <2>3, <2>4, ExpectedSame
<1> QED BY <1>1 DEF Chained

LEMMA ChainedExtended ==
  ASSUME NEW as, NEW bs, NEW n \in Nat, NEW root, NEW c, NEW w, Chained(as, n, root, c, w),
         NEW a, Expected(as, n, a.from, a.lax, root, c, w), OneMoreIs(bs, as, n, a)
  PROVE  Chained(bs, n + 1, root, c, w)
<1>1. bs[n + 1] = a /\ \A d \in 1 .. n : bs[d] = as[d]
  BY DEF OneMoreIs
<1>2. n # 0 => n \in 1 .. n
  OBVIOUS
<1>3. Chained(bs, n, root, c, w)
  BY <1>1, <1>2, ChainedSame
<1>4. Expected(bs, n, a.from, a.lax, root, c, w)
  BY <1>1, <1>2, ExpectedSame
<1>5. ASSUME NEW d \in 1 .. n + 1 PROVE Expected(bs, d - 1, bs[d].from, bs[d].lax, root, c, w)
  <2>1. d \in 1 .. n \/ (d = n + 1 /\ d - 1 = n)
    OBVIOUS
  <2> QED BY <1>1, <1>3, <1>4, <2>1 DEF Chained
<1> QED BY <1>5 DEF Chained

LEMMA ChainedPopped ==
  ASSUME NEW as, NEW bs, NEW n \in Nat \ {0}, NEW root, NEW c, NEW w, Chained(as, n, root, c, w),
         \A d \in 1 .. n - 1 : bs[d] = as[d]
  PROVE  /\ Chained(bs, n - 1, root, c, w)
         /\ Expected(bs, n - 1, as[n].from, as[n].lax, root, c, w)
<1> PICK m \in Nat : m = n - 1
  OBVIOUS
<1>1. (\A d \in 1 .. m : d \in 1 .. n) /\ n \in 1 .. n /\ (m # 0 => m \in 1 .. m)
  OBVIOUS
<1>2. Chained(as, m, root, c, w)
  BY <1>1 DEF Chained
<1>3. Chained(bs, m, root, c, w)
  BY <1>1, <1>2, ChainedSame
<1>4. Expected(as, m, as[n].from, as[n].lax, root, c, w)
  BY <1>1 DEF Chained
<1>5. Expected(bs, m, as[n].from, as[n].lax, root, c, w)
  BY <1>1, <1>4, ExpectedSame
<1> QED BY <1>3, <1>5

LEMMA ConsistentFacts ==
  ASSUME NEW as, NEW sd, NEW an, NEW root, NEW c, NEW w, Consistent(as, sd, an, root, c, w)
  PROVE  /\ IsSequence(as) /\ (sd = {} \/ an = {}) /\ Lone(an)
         /\ \E n \in Nat : /\ Size(as, n) /\ Chained(as, n, root, c, w) /\ (as # << >> => n # 0)
                           /\ Asks(sd, as, n, root, c, w) /\ Yields(an, as, n, root, c, w)
                           /\ (sd = {} /\ an = {} /\ n # 0 => Idle(as[n], w))
<1>1. IsSequence(as)
  BY DEF Consistent
<1>2. PICK n \in Nat : Size(as, n) /\ (as # << >> => n # 0)
  BY <1>1, SequenceFacts DEF Size
<1>3. (sd = {} \/ an = {}) /\ Lone(an)
  BY DEF Consistent
<1> QED BY <1>1, <1>2, <1>3 DEF Consistent

(* It is enough to look at one length. *)
LEMMA ConsistentMade ==
  ASSUME NEW as, NEW sd, NEW an, NEW root, NEW c, NEW w, NEW n, IsSequence(as), Size(as, n),
         Chained(as, n, root, c, w), Asks(sd, as, n, root, c, w), Yields(an, as, n, root, c, w),
         sd = {} /\ an = {} /\ n # 0 => Idle(as[n], w), sd = {} \/ an = {}, Lone(an)
  PROVE  Consistent(as, sd, an, root, c, w)
<1>1. \A m : Size(as, m) => m = n
  BY DEF Size
<1> QED BY <1>1 DEF Consistent

LEMMA NoneAsks == \A as, n, root, c, w : Asks({}, as, n, root, c, w)
  BY DEF Asks

LEMMA NoneYields == Lone({}) /\ \A as, n, root, c, w : Yields({}, as, n, root, c, w)
  BY DEF Yields, Lone

LEMMA GoodYields ==
  ASSUME NEW as, NEW n, NEW root, NEW c, NEW w, NEW r, NEW v, NEW k, Whole(r, v, k, w),
         Expected(as, n, v, k, root, c, w)
  PROVE  Yields({Good(r)}, as, n, root, c, w) /\ Lone({Good(r)})
<1>1. Good(r).value = r
  BY DEF Good
<1> QED BY <1>1 DEF Yields, Lone

(* The access that was replaced is still the one of the same container. *)
LEMMA ChainedReplaced ==
  ASSUME NEW as, NEW bs, NEW n \in Nat \ {0}, NEW root, NEW c, NEW w, Chained(as, n, root, c, w),
         NEW b, LastIs(bs, as, n, b), b.from = as[n].from, b.lax = as[n].lax
  PROVE  Chained(bs, n, root, c, w)
  BY ChainedSame DEF LastIs

LEMMA Entering ==
  ASSUME NEW as, NEW sd, NEW an, NEW root, NEW c, NEW w, Consistent(as, sd, an, root, c, w),
         NEW s \in sd, NEW a, Begins(a, s, w)
  PROVE  Consistent(Extended(as, a), {}, {}, root, c, w)
<1>1. IsSequence(as)
  BY ConsistentFacts
<1> PICK n \in Nat : Size(as, n) /\ Chained(as, n, root, c, w) /\ Asks(sd, as, n, root, c, w)
  BY ConsistentFacts
<1> PICK bs : bs = Extended(as, a)
  OBVIOUS
<1>2. Expected(as, n, a.from, a.lax, root, c, w) /\ Idle(a, w)
  BY DEF Asks, Begins
<1>3. IsSequence(bs) /\ Size(bs, n + 1) /\ OneMoreIs(bs, as, n, a)
  BY <1>1, ExtendedTo
<1>4. Chained(bs, n + 1, root, c, w) /\ Idle(bs[n + 1], w)
  BY <1>2, <1>3, ChainedExtended DEF OneMoreIs
<1> QED BY <1>3, <1>4, ConsistentMade, NoneAsks, NoneYields

LEMMA Answering ==
  ASSUME NEW as, NEW sd, NEW an, NEW root, NEW c, NEW w, Consistent(as, sd, an, root, c, w),
         NEW s \in sd, NEW r, Whole(r, s.value, s.lax, w)
  PROVE  Consistent(as, {}, {Good(r)}, root, c, w)
<1>1. IsSequence(as)
  BY ConsistentFacts
<1> PICK n \in Nat : Size(as, n) /\ Chained(as, n, root, c, w) /\ Asks(sd, as, n, root, c, w)
  BY ConsistentFacts
<1>2. Yields({Good(r)}, as, n, root, c, w) /\ Lone({Good(r)})
  BY GoodYields DEF Asks
<1> QED BY <1>1, <1>2, ConsistentMade, NoneAsks

Failed(an) == an # {} /\ Lone(an) /\ \A a \in an : ~ a.ok

LEMMA Failing ==
  ASSUME NEW as, NEW sd, NEW an, NEW root, NEW c, NEW w, Consistent(as, sd, an, root, c, w),
         NEW bn, Failed(bn)
  PROVE  /\ sd # {} \/ an # {} => Consistent(as, {}, bn, root, c, w)
         /\ as # << >> => Consistent(Popped(as), {}, bn, root, c, w)
<1>1. IsSequence(as)
  BY ConsistentFacts
<1> PICK n \in Nat : /\ Size(as, n) /\ Chained(as, n, root, c, w)
                     /\ Asks(sd, as, n, root, c, w) /\ Yields(an, as, n, root, c, w)
  BY ConsistentFacts
<1>2. bn # {} /\ Lone(bn)
      /\ \A bs, m, v, k : Expected(bs, m, v, k, root, c, w) => Yields(bn, bs, m, root, c, w)
  BY DEF Yields, Failed
<1>3. ASSUME sd # {} \/ an # {} PROVE Consistent(as, {}, bn, root, c, w)
  <2>1. \E v, k : Expected(as, n, v, k, root, c, w)
    BY <1>3 DEF Asks, Yields
  <2> QED BY <1>1, <1>2, <2>1, ConsistentMade, NoneAsks
<1>4. ASSUME as # << >> PROVE Consistent(Popped(as), {}, bn, root, c, w)
  <2> PICK p : p = Popped(as)
    OBVIOUS
  <2>1. IsSequence(p) /\ Size(p, n - 1) /\ \A k \in 1 .. n - 1 : p[k] = as[k]
    BY <1>1, <1>4, PoppedTo
  <2>2. n # 0
    BY <1>1, <1>4, SequenceFacts DEF Size
  <2>3. Chained(p, n - 1, root, c, w) /\ Expected(p, n - 1, as[n].from, as[n].lax, root, c, w)
    BY <2>1, <2>2, ChainedPopped
  <2> QED BY <1>2, <2>1, <2>3, ConsistentMade, NoneAsks
<1> QED BY <1>3, <1>4

LEMMA Handing ==
  ASSUME NEW as, NEW sd, NEW an, NEW root, NEW c, NEW w, Consistent(as, sd, an, root, c, w), as # << >>,
         NEW b, NEW s, b.from = as[Len(as)].from, b.lax = as[Len(as)].lax,
         Awaits(b, s.value, s.lax, w), Legible(s.value)
  PROVE  Consistent(Replaced(as, b), {s}, {}, root, c, w)
<1>1. IsSequence(as)
  BY ConsistentFacts
<1> PICK n \in Nat \ {0} : Size(as, n) /\ Chained(as, n, root, c, w)
  BY ConsistentFacts
<1> PICK bs : bs = Replaced(as, b)
  OBVIOUS
<1>2. IsSequence(bs) /\ Size(bs, n) /\ LastIs(bs, as, n, b)
  BY <1>1, ReplacedTo
<1>3. Chained(bs, n, root, c, w)
  BY <1>2, ChainedReplaced DEF Size
<1>4. bs[n] = b
  BY <1>2 DEF LastIs
<1>5. Asks({s}, bs, n, root, c, w)
  BY <1>4 DEF Asks, Expected
<1> QED BY <1>2, <1>3, <1>5, ConsistentMade, NoneYields

LEMMA Idling ==
  ASSUME NEW as, NEW sd, NEW an, NEW root, NEW c, NEW w, Consistent(as, sd, an, root, c, w), as # << >>,
         NEW b, b.from = as[Len(as)].from, b.lax = as[Len(as)].lax, Idle(b, w)
  PROVE  Consistent(Replaced(as, b), {}, {}, root, c, w)
<1>1. IsSequence(as)
  BY ConsistentFacts
<1> PICK n \in Nat \ {0} : Size(as, n) /\ Chained(as, n, root, c, w)
  BY ConsistentFacts
<1> PICK bs : bs = Replaced(as, b)
  OBVIOUS
<1>2. IsSequence(bs) /\ Size(bs, n) /\ LastIs(bs, as, n, b)
  BY <1>1, ReplacedTo
<1>3. Chained(bs, n, root, c, w)
  BY <1>2, ChainedReplaced DEF Size
<1>4. bs[n] = b
  BY <1>2 DEF LastIs
<1> QED BY <1>2, <1>3, <1>4, ConsistentMade, NoneAsks, NoneYields

LEMMA Leaving ==
  ASSUME NEW as, NEW sd, NEW an, NEW root, NEW c, NEW w, Consistent(as, sd, an, root, c, w), as # << >>,
         NEW r, Whole(r, as[Len(as)].from, as[Len(as)].lax, w)
  PROVE  Consistent(Popped(as), {}, {Good(r)}, root, c, w)
<1>1. IsSequence(as)
  BY ConsistentFacts
<1> PICK n \in Nat \ {0} : Size(as, n) /\ Chained(as, n, root, c, w)
  BY ConsistentFacts
<1> PICK p : p = Popped(as)
  OBVIOUS
<1>2. IsSequence(p) /\ Size(p, n - 1) /\ \A k \in 1 .. n - 1 : p[k] = as[k]
  BY <1>1, PoppedTo
<1>3. Chained(p, n - 1, root, c, w) /\ Expected(p, n - 1, as[n].from, as[n].lax, root, c, w)
  BY <1>2, ChainedPopped
<1>4. Whole(r, as[n].from, as[n].lax, w)
  BY DEF Size
<1>5. Yields({Good(r)}, p, n - 1, root, c, w) /\ Lone({Good(r)})
  BY <1>3, <1>4, GoodYields
<1> QED BY <1>2, <1>3, <1>5, ConsistentMade, NoneAsks

-----------------------------------------------------------------------------
(***************************************************************************)
(* The steps of a visitor.                                                 *)
(***************************************************************************)
LEMMA MovedFacts ==
  ASSUME NEW a, IsAccess(a), NEW x, NEW y
  PROVE  /\ Moved([a EXCEPT !.rest = x], a, x, a.pending, a.got)
         /\ Moved([a EXCEPT !.rest = x, !.pending = y], a, x, y, a.got)
         /\ Moved([a EXCEPT !.pending = y], a, a.rest, y, a.got)
         /\ Moved([a EXCEPT !.got = x], a, a.rest, a.pending, x)
<1> PICK n, f, r, p, d, l, g :
      a = [name |-> n, from |-> f, rest |-> r, pending |-> p, depth |-> d, lax |-> l, got |-> g]
  BY DEF IsAccess
<1> DEFINE made(s, q, t) == [name |-> n, from |-> f, rest |-> s, pending |-> q, depth |-> d, lax |-> l, got |-> t]
<1>1. /\ [a EXCEPT !.rest = x] = made(x, p, g)
      /\ [a EXCEPT !.rest = x, !.pending = y] = made(x, y, g)
      /\ [a EXCEPT !.pending = y] = made(r, y, g)
      /\ [a EXCEPT !.got = x] = made(r, p, x)
  <2>1. [a EXCEPT !.rest = x] = made(x, p, g)
    OBVIOUS
  <2>2. [a EXCEPT !.rest = x, !.pending = y] = made(x, y, g)
    <3>1. [a EXCEPT !.rest = x, !.pending = y] = [made(x, p, g) EXCEPT !.pending = y]
      BY <2>1
    <3>2. [made(x, p, g) EXCEPT !.pending = y] = made(x, y, g)
      OBVIOUS
    <3> QED BY <3>1, <3>2
  <2>3. [a EXCEPT !.pending = y] = made(r, y, g)
    OBVIOUS
  <2>4. [a EXCEPT !.got = x] = made(r, p, x)
    OBVIOUS
  <2> QED BY <2>1, <2>2, <2>3, <2>4
<1>2. ASSUME NEW s, NEW q, NEW t PROVE Moved(made(s, q, t), a, s, q, t)
  BY DEF Moved, IsAccess
<1>3. a.rest = r /\ a.pending = p /\ a.got = g
  OBVIOUS
<1> HIDE DEF made
<1> QED BY <1>1, <1>2, <1>3

LEMMA InnerFacts ==
  ASSUME NEW root, NEW c, NEW w, Consistent(accesses, seed, answer, root, c, w), accesses # << >>
  PROVE  /\ \E n \in Nat \ {0} : Size(accesses, n) /\ Inner = accesses[n]
         /\ seed = {} /\ answer = {} => Idle(Inner, w)
<1>1. IsSequence(accesses)
  BY ConsistentFacts
<1> PICK n \in Nat \ {0} : Size(accesses, n) /\ (seed = {} /\ answer = {} => Idle(accesses[n], w))
  BY ConsistentFacts
<1>2. Inner = accesses[n]
  BY DEF Inner, Size
<1> QED BY <1>2

(* The answer is a value of what the innermost access waits for. *)
LEMMA AnswerFacts ==
  ASSUME NEW root, NEW c, NEW w, Consistent(accesses, seed, answer, root, c, w), answer # {}, Answer.ok
  PROVE  IF accesses = << >> THEN Whole(Answer.value, root, c, w)
         ELSE \E v, k : Whole(Answer.value, v, k, w) /\ Awaits(Inner, v, k, w)
<1>1. Answer \in answer
  BY DEF Answer
<1>2. IsSequence(accesses)
  BY ConsistentFacts
<1> PICK n \in Nat : Size(accesses, n) /\ Yields(answer, accesses, n, root, c, w)
  BY ConsistentFacts
<1>3. PICK v, k : Whole(Answer.value, v, k, w) /\ Expected(accesses, n, v, k, root, c, w)
  BY <1>1 DEF Yields
<1>4. CASE accesses = << >>
  <2>1. n = 0
    BY <1>4, EmptySequence DEF Size
  <2> QED BY <1>3, <1>4, <2>1 DEF Expected
<1>5. CASE accesses # << >>
  <2>1. n # 0 /\ Inner = accesses[n]
    BY <1>2, <1>5, SequenceFacts DEF Size, Inner
  <2> QED BY <1>3, <1>5, <2>1 DEF Expected
<1> QED BY <1>4, <1>5

LEMMA AskStep ==
  ASSUME NEW root, NEW c, NEW w, Consistent(accesses, seed, answer, root, c, w), NEW hint \in Hints, Ask(hint)
  PROVE  Consistent(accesses', seed', answer', root, c, w)
<1> PICK s : s = Seed
  OBVIOUS
<1>1. s \in seed /\ answer = {} /\ seed' = {}
  BY DEF Ask, Seed, Consistent
<1>2. Legible(s.value)
  BY <1>1, ConsistentFacts DEF Asks
<1>3. CASE Asked(hint, s).does = "visit" /\ answer' = {Good(Asked(hint, s).value)} /\ UNCHANGED accesses
  BY <1>1, <1>2, <1>3, AskedVisits, Answering
<1>4. CASE Asked(hint, s).does = "fail" /\ answer' = {Bad(Asked(hint, s).kind)} /\ UNCHANGED accesses
  <2>1. Failed(answer')
    BY <1>4 DEF Failed, Bad, Lone
  <2> QED BY <1>1, <1>4, <2>1, Failing
<1>5. CASE Asked(hint, s).does = "enter" /\ accesses' = Append(accesses, Asked(hint, s).access) /\ UNCHANGED answer
  <2>1. Begins(Asked(hint, s).access, s, w)
    BY <1>2, <1>5, AskedBegins
  <2>2. accesses' = Extended(accesses, Asked(hint, s).access)
    BY <1>5 DEF Extended
  <2> QED BY <1>1, <1>5, <2>1, <2>2, Entering
<1> QED BY <1>3, <1>4, <1>5 DEF Ask

(* Every way to fail. *)
LEMMA FailStep ==
  ASSUME NEW root, NEW c, NEW w, Consistent(accesses, seed, answer, root, c, w),
         Refuse \/ ValueRequestedFirst \/ VariantFails \/ ReturnError
  PROVE  Consistent(accesses', seed', answer', root, c, w)
<1>1. Failed(answer')
  <2>1. CASE Refuse \/ ValueRequestedFirst \/ VariantFails
    <3>1. \E kind : answer' = {Bad(kind)}
      BY <2>1 DEF Refuse, ValueRequestedFirst, VariantFails
    <3>2. \A kind : ~ Bad(kind).ok
      BY DEF Bad
    <3> QED BY <3>1, <3>2 DEF Failed, Lone
  <2>2. CASE ReturnError
    <3>1. answer # {} /\ ~ Answer.ok /\ answer' = answer
      BY <2>2 DEF ReturnError
    <3>2. Lone(answer) /\ Answer \in answer
      BY <3>1, ConsistentFacts DEF Answer
    <3> QED BY <3>1, <3>2 DEF Failed, Lone
  <2> QED BY <2>1, <2>2
<1>2. seed' = {} /\ ((answer # {} /\ accesses' = accesses) \/ (accesses # << >> /\ accesses' = Popped(accesses)))
  BY DEF Refuse, ValueRequestedFirst, VariantFails, ReturnError, Outer, Popped, VariantNamed, Visiting, InnerIs,
         Consistent
<1> QED BY <1>1, <1>2, Failing

(* A visitor is handed a value, and will get what is made of it.           *)
LEMMA HandedStep ==
  ASSUME NEW root, NEW c, NEW w, Consistent(accesses, seed, answer, root, c, w), accesses # << >>,
         NEW b, NEW s, HandOut(s, b), answer = {}, NEW rest, NEW pending, NEW got,
         Moved(b, Inner, rest, pending, got), Awaits(b, s.value, s.lax, w), Legible(s.value)
  PROVE  Consistent(accesses', seed', answer', root, c, w)
<1>1. accesses' = Replaced(accesses, b) /\ seed' = {s} /\ answer' = {}
  BY DEF HandOut, WithInner, Replaced
<1>2. b.from = accesses[Len(accesses)].from /\ b.lax = accesses[Len(accesses)].lax
  BY DEF Moved, Inner
<1> QED BY <1>1, <1>2, Handing

LEMMA AtFields == \A v, d, k : At(v, d, k).value = v /\ At(v, d, k).lax = k
  BY DEF At

LEMMA VisitingFacts ==
  ASSUME NEW root, NEW c, NEW w, Consistent(accesses, seed, answer, root, c, w), NEW name, Visiting(name)
  PROVE  /\ accesses # << >> /\ seed = {} /\ answer = {} /\ Idle(Inner, w) /\ Open(Inner) /\ IsAccess(Inner)
         /\ Inner.name = name
         /\ name = "seq" => \E n \in Nat : SeqAt(Inner, n, w)
         /\ name = "map" => \E n \in Nat : MapAt(Inner, n, w)
         /\ name = "enum" => EnumFresh(Inner) \/ EnumNamed(Inner, w)
<1>1. accesses # << >> /\ seed = {} /\ answer = {} /\ Inner.name = name
  BY DEF Visiting, InnerIs
<1>2. Idle(Inner, w)
  BY <1>1, InnerFacts
<1>3. Open(Inner) /\ IsAccess(Inner)
  BY <1>2 DEF Idle, Open
<1>4. name = "seq" => \E n \in Nat : SeqAt(Inner, n, w)
  BY <1>1, <1>2 DEF Idle, MapAt, EnumFresh, EnumNamed
<1>5. name = "map" => \E n \in Nat : MapAt(Inner, n, w)
  BY <1>1, <1>2 DEF Idle, SeqAt, EnumFresh, EnumNamed
<1>6. name = "enum" => EnumFresh(Inner) \/ EnumNamed(Inner, w)
  BY <1>1, <1>2 DEF Idle, SeqAt, MapAt
<1> QED BY <1>1, <1>2, <1>3, <1>4, <1>5, <1>6

LEMMA NextElementStep ==
  ASSUME NEW root, NEW c, NEW w, Consistent(accesses, seed, answer, root, c, w), NextElement
  PROVE  Consistent(accesses', seed', answer', root, c, w)
<1> PICK a : a = Inner
  OBVIOUS
<1> PICK t : t = Tail(a.rest)
  OBVIOUS
<1> PICK b : b = [a EXCEPT !.rest = t]
  OBVIOUS
<1> PICK s : s = At(Head(a.rest), a.depth, a.lax)
  OBVIOUS
<1>1. Visiting("seq") /\ a.rest # << >> /\ HandOut(s, b)
  BY DEF NextElement
<1>2. accesses # << >> /\ answer = {} /\ Open(a) /\ IsAccess(a)
  BY <1>1, VisitingFacts
<1> PICK n \in Nat : SeqAt(a, n, w)
  BY <1>1, VisitingFacts
<1>3. Moved(b, a, t, a.pending, a.got)
  BY <1>2, MovedFacts
<1>4. SeqAwaits(b, Head(a.rest), n, w) /\ Legible(Head(a.rest)) /\ Open(b)
  BY <1>1, <1>2, <1>3, SeqHands, OpenMoved
<1>5. s.value = Head(a.rest) /\ s.lax = b.lax
  BY <1>3, AtFields DEF Moved
<1>6. Awaits(b, s.value, s.lax, w)
  BY <1>4, <1>5 DEF Awaits
<1> QED BY <1>1, <1>2, <1>3, <1>4, <1>5, <1>6, HandedStep

LEMMA NextKeyStep ==
  ASSUME NEW root, NEW c, NEW w, Consistent(accesses, seed, answer, root, c, w), NextKey,
         w => Inner.pending = {}
  PROVE  Consistent(accesses', seed', answer', root, c, w)
<1> PICK a : a = Inner
  OBVIOUS
<1> PICK t : t = Tail(a.rest)
  OBVIOUS
<1> PICK p : p = {Head(a.rest).value}
  OBVIOUS
<1> PICK b : b = [a EXCEPT !.rest = t, !.pending = p]
  OBVIOUS
<1> PICK s : s = At(String(Head(a.rest).key), a.depth, FALSE)
  OBVIOUS
<1>1. Visiting("map") /\ a.rest # << >> /\ HandOut(s, b)
  BY DEF NextKey
<1>2. accesses # << >> /\ answer = {} /\ Open(a) /\ IsAccess(a)
  BY <1>1, VisitingFacts
<1> PICK n \in Nat : MapAt(a, n, w)
  BY <1>1, VisitingFacts
<1>3. Moved(b, a, t, p, a.got)
  BY <1>2, MovedFacts
<1>4. KeyAwaits(b, String(Head(a.rest).key), n, w) /\ Open(b)
  <2>1. Open(b)
    BY <1>2, <1>3, OpenMoved
  <2>2. Moved(b, a, Tail(a.rest), {Head(a.rest).value}, a.got)
    BY <1>3
  <2>3. w => a.pending = {}
    OBVIOUS
  <2>4. n \in Nat /\ MapAt(a, n, w) /\ a.rest # << >>
    BY <1>1
  <2>5. KeyAwaits(b, String(Head(a.rest).key), n, w)
    BY ONLY <1>2, <2>2, <2>3, <2>4, MapHandsKey
  <2> QED BY <2>1, <2>5
<1>5. s.value = String(Head(a.rest).key) /\ s.lax = FALSE
  BY AtFields
<1>6. Legible(s.value)
  <2>1. \A x : Legible(String(x))
    BY DEF Legible, String, Scalar
  <2> QED BY <1>5, <2>1
<1>7. Awaits(b, s.value, s.lax, w)
  BY <1>4, <1>5 DEF Awaits
<1> QED BY <1>1, <1>2, <1>3, <1>6, <1>7, HandedStep

LEMMA NextValueStep ==
  ASSUME NEW root, NEW c, NEW w, Consistent(accesses, seed, answer, root, c, w), NextValue
  PROVE  Consistent(accesses', seed', answer', root, c, w)
<1> PICK a : a = Inner
  OBVIOUS
<1> PICK b : b = [a EXCEPT !.pending = {}]
  OBVIOUS
<1> PICK v \in a.pending : HandOut(At(v, a.depth, a.lax), b)
  BY DEF NextValue
<1> PICK s : s = At(v, a.depth, a.lax)
  OBVIOUS
<1>1. Visiting("map")
  BY DEF NextValue
<1>2. accesses # << >> /\ answer = {} /\ Open(a) /\ IsAccess(a)
  BY <1>1, VisitingFacts
<1> PICK n \in Nat : MapAt(a, n, w)
  BY <1>1, VisitingFacts
<1>3. Moved(b, a, a.rest, {}, a.got)
  BY <1>2, MovedFacts
<1>4. ValueAwaits(b, v, n, w) /\ Legible(v) /\ Open(b)
  BY <1>2, <1>3, MapHandsValue, OpenMoved
<1>5. s.value = v /\ s.lax = b.lax
  BY <1>3, AtFields DEF Moved
<1>6. Awaits(b, s.value, s.lax, w)
  BY <1>4, <1>5 DEF Awaits
<1> QED BY <1>2, <1>3, <1>4, <1>5, <1>6, HandedStep

LEMMA NextVariantStep ==
  ASSUME NEW root, NEW c, NEW w, Consistent(accesses, seed, answer, root, c, w), NextVariant
  PROVE  Consistent(accesses', seed', answer', root, c, w)
<1> PICK a : a = Inner
  OBVIOUS
<1> PICK p : p = Payload(a.from)
  OBVIOUS
<1> PICK b : b = [a EXCEPT !.rest = << >>, !.pending = p]
  OBVIOUS
<1> PICK s : s = At(String(Head(a.rest)), a.depth, a.lax)
  OBVIOUS
<1>1. Visiting("enum") /\ a.rest # << >> /\ HandOut(s, b)
  BY DEF NextVariant, Payload
<1>2. accesses # << >> /\ answer = {} /\ Open(a) /\ IsAccess(a)
  BY <1>1, VisitingFacts
<1>3. EnumFresh(a)
  BY <1>1, VisitingFacts DEF EnumNamed
<1>4. Moved(b, a, << >>, p, a.got)
  BY <1>2, MovedFacts
<1>5. NameAwaits(b, String(Head(a.rest))) /\ Legible(String(Head(a.rest))) /\ Open(b)
  BY <1>2, <1>3, <1>4, EnumHandsName, OpenMoved
<1>6. s.value = String(Head(a.rest)) /\ s.lax = b.lax
  BY <1>4, AtFields DEF Moved
<1>7. Awaits(b, s.value, s.lax, w)
  BY <1>5, <1>6 DEF Awaits
<1> QED BY <1>1, <1>2, <1>4, <1>5, <1>6, <1>7, HandedStep

(* A variant that was named hands out its payload. *)
LEMMA NamedFacts ==
  ASSUME NEW root, NEW c, NEW w, Consistent(accesses, seed, answer, root, c, w), VariantNamed
  PROVE  /\ accesses # << >> /\ seed = {} /\ answer = {} /\ Open(Inner) /\ IsAccess(Inner)
         /\ EnumNamed(Inner, w)
<1>1. Visiting("enum") /\ Inner.rest = << >>
  BY DEF VariantNamed
<1>2. <<Variant(Inner.from)>> # << >>
  BY OneItem
<1> QED BY <1>1, <1>2, VisitingFacts DEF EnumFresh

LEMMA PayloadHanded ==
  ASSUME NEW root, NEW c, NEW w, Consistent(accesses, seed, answer, root, c, w), VariantNamed,
         NEW v \in Inner.pending
  PROVE  LET a == Inner
             b == [a EXCEPT !.pending = {}]
             s == At(v, a.depth, a.lax)
         IN  Moved(b, a, a.rest, {}, a.got) /\ Awaits(b, s.value, s.lax, w) /\ s.value = v /\ Legible(v)
<1> PICK a : a = Inner
  OBVIOUS
<1> PICK b : b = [a EXCEPT !.pending = {}]
  OBVIOUS
<1> PICK s : s = At(v, a.depth, a.lax)
  OBVIOUS
<1>1. Open(a) /\ IsAccess(a) /\ EnumNamed(a, w)
  BY NamedFacts
<1>2. Moved(b, a, a.rest, {}, a.got)
  BY <1>1, MovedFacts
<1>3. PayloadAwaits(b, v, w) /\ Legible(v) /\ Open(b)
  BY <1>1, <1>2, EnumHandsPayload, OpenMoved
<1>4. s.value = v /\ s.lax = b.lax
  BY <1>2, AtFields DEF Moved
<1>5. Awaits(b, s.value, s.lax, w)
  BY <1>3, <1>4 DEF Awaits
<1> QED BY <1>2, <1>3, <1>4, <1>5

LEMMA NewtypeVariantStep ==
  ASSUME NEW root, NEW c, NEW w, Consistent(accesses, seed, answer, root, c, w), NewtypeVariant
  PROVE  Consistent(accesses', seed', answer', root, c, w)
<1> PICK v \in Inner.pending : HandOut(At(v, Inner.depth, Inner.lax), [Inner EXCEPT !.pending = {}])
  BY DEF NewtypeVariant
<1>1. VariantNamed
  BY DEF NewtypeVariant
<1>2. accesses # << >> /\ answer = {}
  BY <1>1, NamedFacts
<1> QED BY <1>1, <1>2, PayloadHanded, HandedStep

LEMMA ContainerVariantStep ==
  ASSUME NEW root, NEW c, NEW w, Consistent(accesses, seed, answer, root, c, w),
         NEW type \in {"array", "dictionary"}, ContainerVariant(type)
  PROVE  Consistent(accesses', seed', answer', root, c, w)
<1> PICK b : b = [Inner EXCEPT !.pending = {}]
  OBVIOUS
<1> DEFINE S(v) == At(v, Inner.depth, Inner.lax)
           inside(v) == IF type = "array" THEN visit_array(S(v)) ELSE visit_dictionary(S(v))
<1> PICK v \in Inner.pending : /\ v.type = type /\ Descend(Inner.depth) # {}
                               /\ accesses' = Append(WithInner(b), inside(v).access)
  BY DEF ContainerVariant
<1>0. VariantNamed /\ seed' = seed /\ answer' = answer
  BY DEF ContainerVariant
<1> PICK s : s = S(v)
  OBVIOUS
<1> PICK a : a = inside(v).access
  OBVIOUS
<1>1. accesses # << >> /\ seed = {} /\ answer = {}
  BY <1>0, NamedFacts
<1>2. /\ Moved(b, Inner, Inner.rest, {}, Inner.got) /\ Awaits(b, s.value, s.lax, w)
      /\ s.value = v /\ Legible(s.value)
  BY <1>0, PayloadHanded
<1>3. b.from = accesses[Len(accesses)].from /\ b.lax = accesses[Len(accesses)].lax
  BY <1>2 DEF Moved, Inner
<1>4. Consistent(Replaced(accesses, b), {s}, {}, root, c, w)
  BY <1>1, <1>2, <1>3, Handing
<1>5. s.depth = Inner.depth
  BY DEF At
<1>6. visit_array(s).does = "enter" /\ visit_dictionary(s).does = "enter"
  BY <1>5 DEF visit_array, visit_dictionary, EnterAt, Enter
<1>7. Begins(a, s, w)
  <2>1. CASE type = "array"
    BY <1>2, <1>6, <2>1, ArrayBegins
  <2>2. CASE type = "dictionary"
    BY <1>2, <1>6, <2>2, DictionaryBegins
  <2> QED BY <2>1, <2>2
<1> HIDE DEF S, inside
<1>8. Consistent(Extended(Replaced(accesses, b), a), {}, {}, root, c, w)
  BY <1>4, <1>7, Entering
<1>9. accesses' = Extended(Replaced(accesses, b), a)
  BY DEF Extended, Replaced, WithInner
<1> QED BY <1>0, <1>1, <1>8, <1>9

(* What a visitor is given, it keeps.                                      *)
LEMMA Taken ==
  ASSUME NEW a, NEW b, NEW v, NEW k, NEW w, NEW r, Awaits(a, v, k, w), Whole(r, v, k, w),
         ~ (a.name = "enum" /\ a.got # << >>), Moved(b, a, a.rest, a.pending, Got(a, r))
  PROVE  Idle(b, w)
<1>0. Open(a) /\ Open(b)
  BY OpenMoved DEF Awaits
<1>1. CASE k = a.lax /\ \E n \in Nat : SeqAwaits(a, v, n, w)
  <2> PICK n \in Nat : SeqAwaits(a, v, n, w)
    BY <1>1
  <2>1. Got(a, r) = Extended(a.got, r)
    BY DEF SeqAwaits, Got, Extended
  <2>2. SeqAt(b, n + 1, w) /\ n + 1 \in Nat
    BY <1>1, <2>1, SeqGets
  <2> QED BY <1>0, <2>2 DEF Idle
<1>2. CASE k = a.lax /\ \E n \in Nat : ValueAwaits(a, v, n, w)
  <2> PICK n \in Nat : ValueAwaits(a, v, n, w)
    BY <1>2
  <2>1. Len(a.got) = n /\ a.name = "map" /\ a.pending = {}
    BY DEF ValueAwaits, GotEntries, Size
  <2>2. Got(a, r) = [a.got EXCEPT ![Len(a.got)].value = {r}]
    BY <2>1 DEF Got
  <2>3. [a.got EXCEPT ![Len(a.got)].value = {r}] = Replaced(a.got, WithValue(a.got[Len(a.got)], r))
    BY DEF Replaced, WithValue
  <2>4. Got(a, r) = Replaced(a.got, WithValue(a.got[n], r))
    BY <2>1, <2>2, <2>3
  <2>5. MapAt(b, n, w)
    BY <1>2, <2>4, MapGetsValue
  <2> QED BY <1>0, <2>5 DEF Idle
<1>3. CASE k = a.lax /\ NameAwaits(a, v)
  <2>1. Got(a, r) = Extended(a.got, r)
    BY <1>3 DEF NameAwaits, Got, Extended
  <2>2. EnumNamed(b, w)
    BY <1>3, <2>1, EnumGetsName
  <2> QED BY <1>0, <2>2 DEF Idle
<1>4. CASE PayloadAwaits(a, v, w)
  BY <1>4, OneItem DEF PayloadAwaits, GotName
<1>5. CASE k = FALSE /\ \E n \in Nat : KeyAwaits(a, v, n, w)
  <2> PICK n \in Nat : KeyAwaits(a, v, n, w)
    BY <1>5
  <2>1. Got(a, r) = Extended(a.got, KeyAlone(r))
    BY DEF KeyAwaits, Got, Extended, KeyAlone
  <2>2. Whole(r, v, FALSE, w)
    BY <1>5
  <2>3. Moved(b, a, a.rest, a.pending, Extended(a.got, KeyAlone(r)))
    BY <2>1
  <2>4. KeyAwaits(a, v, n, w)
    OBVIOUS
  <2>5. MapAt(b, n + 1, w)
    BY ONLY n \in Nat, <2>2, <2>3, <2>4, MapGetsKey
  <2>6. n + 1 \in Nat
    OBVIOUS
  <2> QED BY <1>0, <2>5, <2>6 DEF Idle
<1> QED BY <1>1, <1>2, <1>3, <1>4, <1>5 DEF Awaits

LEMMA TakeAnswerStep ==
  ASSUME NEW root, NEW c, NEW w, Consistent(accesses, seed, answer, root, c, w), TakeAnswer
  PROVE  Consistent(accesses', seed', answer', root, c, w)
<1> PICK a : a = Inner
  OBVIOUS
<1> PICK g : g = Got(a, Answer.value)
  OBVIOUS
<1> PICK b : b = [a EXCEPT !.got = g]
  OBVIOUS
<1>1. /\ accesses # << >> /\ answer # {} /\ Answer.ok /\ ~ (a.name = "enum" /\ a.got # << >>)
      /\ accesses' = Replaced(accesses, b) /\ answer' = {} /\ seed' = seed
  BY DEF TakeAnswer, InnerIs, WithInner, Replaced
<1>2. PICK v, k : Whole(Answer.value, v, k, w) /\ Awaits(a, v, k, w)
  BY <1>1, AnswerFacts
<1>3. IsAccess(a)
  BY <1>2 DEF Awaits, Open
<1>4. Moved(b, a, a.rest, a.pending, g)
  BY <1>3, MovedFacts
<1>5. Idle(b, w)
  BY <1>1, <1>2, <1>4, Taken
<1>6. b.from = accesses[Len(accesses)].from /\ b.lax = accesses[Len(accesses)].lax
  BY <1>4 DEF Moved, Inner
<1>7. seed = {}
  BY <1>1, ConsistentFacts
<1> QED BY <1>1, <1>5, <1>6, <1>7, Idling

(* A visitor that is done.                                                 *)
LEMMA LeftStep ==
  ASSUME NEW root, NEW c, NEW w, Consistent(accesses, seed, answer, root, c, w), accesses # << >>, seed' = {},
         accesses' = Outer,
         \/ \E kind : answer' = {Bad(kind)}
         \/ \E r : answer' = {Good(r)} /\ Whole(r, Inner.from, Inner.lax, w)
  PROVE  Consistent(accesses', seed', answer', root, c, w)
<1>1. accesses' = Popped(accesses)
  BY DEF Outer, Popped
<1>2. CASE \E kind : answer' = {Bad(kind)}
  <2>1. \A kind : Failed({Bad(kind)})
    BY DEF Bad, Failed, Lone
  <2> QED BY <1>1, <1>2, <2>1, Failing
<1>3. CASE \E r : answer' = {Good(r)} /\ Whole(r, Inner.from, Inner.lax, w)
  BY <1>1, <1>3, Leaving DEF Inner
<1> QED BY <1>2, <1>3

LEMMA FinishStep ==
  ASSUME NEW root, NEW c, NEW w, Consistent(accesses, seed, answer, root, c, w), Finish
  PROVE  Consistent(accesses', seed', answer', root, c, w)
<1> PICK a : a = Inner
  OBVIOUS
<1>1. /\ Visiting("seq") \/ Visiting("map")
      /\ accesses' = Outer /\ seed' = seed
      /\ answer' = {IF a.rest = << >> /\ a.pending = {} THEN Good(Made(a)) ELSE Bad("Message")}
  BY DEF Finish
<1>2. accesses # << >> /\ seed = {} /\ Open(a)
  BY <1>1, VisitingFacts
<1>3. CASE ~ (a.rest = << >> /\ a.pending = {})
  BY <1>1, <1>2, <1>3, LeftStep
<1>4. CASE a.rest = << >> /\ a.pending = {}
  <2>1. answer' = {Good(Made(a))}
    BY <1>1, <1>4
  <2>2. CASE Visiting("seq")
    <3> PICK n \in Nat : SeqAt(a, n, w)
      BY <2>2, VisitingFacts
    <3>1. Made(a) = Array(a.got)
      BY DEF SeqAt, Made
    <3>2. Whole(Made(a), a.from, a.lax, w)
      BY <1>2, <1>4, <3>1, SeqMade
    <3> QED BY <1>1, <1>2, <2>1, <3>2, LeftStep
  <2>3. CASE Visiting("map")
    <3> PICK n \in Nat : MapAt(a, n, w)
      BY <2>3, VisitingFacts
    <3>1. Made(a) = [type |-> "map", got |-> a.got]
      BY DEF MapAt, Made
    <3>2. Whole(Made(a), a.from, a.lax, w)
      BY <1>2, <1>4, <3>1, MapMade
    <3> QED BY <1>1, <1>2, <2>1, <3>2, LeftStep
  <2> QED BY <1>1, <2>2, <2>3
<1> QED BY <1>3, <1>4

LEMMA UnitVariantStep ==
  ASSUME NEW root, NEW c, NEW w, Consistent(accesses, seed, answer, root, c, w), UnitVariant
  PROVE  Consistent(accesses', seed', answer', root, c, w)
<1>1. /\ VariantNamed /\ accesses' = Outer /\ seed' = seed
      /\ answer' = {IF Inner.pending = {} THEN Good(Inner.got[1]) ELSE Bad("Message")}
  BY DEF UnitVariant
<1>2. accesses # << >> /\ seed = {} /\ EnumNamed(Inner, w)
  BY <1>1, NamedFacts
<1>3. Inner.pending = {} => Whole(Inner.got[1], Inner.from, Inner.lax, w)
  BY <1>2, EnumUnit
<1> QED BY <1>1, <1>2, <1>3, LeftStep

LEMMA FinishVariantStep ==
  ASSUME NEW root, NEW c, NEW w, Consistent(accesses, seed, answer, root, c, w), FinishVariant
  PROVE  Consistent(accesses', seed', answer', root, c, w)
<1> PICK a : a = Inner
  OBVIOUS
<1> PICK m : m = VariantMade(a.got[1], Answer.value)
  OBVIOUS
<1>1. /\ accesses # << >> /\ a.name = "enum" /\ a.got # << >> /\ answer # {} /\ Answer.ok
      /\ accesses' = Outer /\ seed' = seed /\ answer' = {Good(m)}
  BY DEF FinishVariant, InnerIs
<1>2. PICK v, k : Whole(Answer.value, v, k, w) /\ Awaits(a, v, k, w)
  BY <1>1, AnswerFacts
<1>3. k = a.lax /\ PayloadAwaits(a, v, w)
  BY <1>1, <1>2 DEF Awaits, SeqAwaits, ValueAwaits, KeyAwaits, NameAwaits
<1>4. Whole(m, a.from, a.lax, w)
  BY <1>2, <1>3, EnumMade
<1>5. seed = {}
  BY <1>1, ConsistentFacts
<1> QED BY <1>1, <1>4, <1>5, LeftStep

(* A visitor that lets go: of a deserializer, of an enum, of its payload.  *)
LEMMA MakeDoStep ==
  ASSUME NEW root, NEW c, NEW w, ~ w, Consistent(accesses, seed, answer, root, c, w), MakeDo
  PROVE  Consistent(accesses', seed', answer', root, c, w)
<1>1. IsSequence(accesses)
  BY ConsistentFacts
<1> PICK n \in Nat : /\ Size(accesses, n) /\ Chained(accesses, n, root, c, w)
                     /\ Asks(seed, accesses, n, root, c, w) /\ Yields(answer, accesses, n, root, c, w)
  BY ConsistentFacts
<1>2. (seed # {} \/ answer # {}) /\ accesses' = accesses /\ seed' = {} /\ answer' = {Good(Nothing)}
  BY DEF MakeDo
<1>3. PICK v, k : Expected(accesses, n, v, k, root, c, w)
  BY <1>2 DEF Asks, Yields
<1>4. Yields({Good(Nothing)}, accesses, n, root, c, w) /\ Lone({Good(Nothing)})
  BY <1>3, NothingWhole, GoodYields
<1> QED BY <1>1, <1>2, <1>4, ConsistentMade, NoneAsks

LEMMA DropEnumStep ==
  ASSUME NEW root, NEW c, NEW w, ~ w, Consistent(accesses, seed, answer, root, c, w), DropEnum
  PROVE  Consistent(accesses', seed', answer', root, c, w)
<1>1. Visiting("enum") /\ accesses' = Outer /\ seed' = seed /\ answer' = {Good(Nothing)}
  BY DEF DropEnum
<1>2. accesses # << >> /\ seed = {}
  BY <1>1, VisitingFacts
<1>3. Whole(Nothing, Inner.from, Inner.lax, w)
  BY NothingWhole
<1> QED BY <1>1, <1>2, <1>3, LeftStep

LEMMA DropVariantStep ==
  ASSUME NEW root, NEW c, NEW w, ~ w, Consistent(accesses, seed, answer, root, c, w), DropVariant
  PROVE  Consistent(accesses', seed', answer', root, c, w)
<1> PICK a : a = Inner
  OBVIOUS
<1> PICK b : b = [a EXCEPT !.pending = {}]
  OBVIOUS
<1>1. /\ VariantNamed /\ accesses' = Outer /\ seed' = seed
      /\ answer' = {Good(VariantMade(a.got[1], Nothing))}
  BY DEF DropVariant
<1>2. accesses # << >> /\ seed = {} /\ Open(a) /\ IsAccess(a) /\ EnumNamed(a, w)
  BY <1>1, NamedFacts
<1>3. PICK v : v \in a.pending
  BY DEF DropVariant
<1>4. Moved(b, a, a.rest, {}, a.got)
  BY <1>2, MovedFacts
<1>5. PayloadAwaits(b, v, w)
  BY <1>2, <1>3, <1>4, EnumHandsPayload
<1>6. Whole(VariantMade(b.got[1], Nothing), b.from, b.lax, w)
  BY <1>5, NothingWhole, EnumMade
<1>7. Whole(VariantMade(a.got[1], Nothing), a.from, a.lax, w)
  BY <1>4, <1>6 DEF Moved
<1> QED BY <1>1, <1>2, <1>7, LeftStep

(* A visitor that is no "any" asks for the value first, and lets go of     *)
(* nothing.                                                                *)
Patient == visitor # "any"

LEMMA DeserializeStep ==
  ASSUME NEW root, NEW c, NEW w, Consistent(accesses, seed, answer, root, c, w), w <=> Patient,
         IF visitor = "Value" THEN VisitValue ELSE VisitOther
  PROVE  Consistent(accesses', seed', answer', root, c, w)
<1>1. CASE \E hint \in Hints : Ask(hint)
  BY <1>1, AskStep
<1>2. CASE Refuse \/ ValueRequestedFirst \/ VariantFails \/ ReturnError
  BY <1>2, FailStep
<1>3. CASE NextElement \/ NextValue \/ NextVariant \/ NewtypeVariant
  BY <1>3, NextElementStep, NextValueStep, NextVariantStep, NewtypeVariantStep
<1>4. CASE NextKey /\ (w => Inner.pending = {})
  BY <1>4, NextKeyStep
<1>5. CASE ContainerVariant("array") \/ ContainerVariant("dictionary")
  BY <1>5, ContainerVariantStep
<1>6. CASE Finish \/ UnitVariant \/ FinishVariant \/ TakeAnswer
  BY <1>6, FinishStep, UnitVariantStep, FinishVariantStep, TakeAnswerStep
<1>7. ASSUME VisitValue
      PROVE  \/ \E hint \in Hints : Ask(hint)
             \/ ReturnError \/ NextElement \/ NextValue \/ Finish \/ TakeAnswer
             \/ NextKey /\ Inner.pending = {}
  BY <1>7 DEF VisitValue, Hints
<1>8. ASSUME VisitOther
      PROVE  \/ \E hint \in Hints : Ask(hint)
             \/ Refuse \/ ValueRequestedFirst \/ VariantFails \/ ReturnError
             \/ NextElement \/ NextValue \/ NextVariant \/ NewtypeVariant
             \/ ContainerVariant("array") \/ ContainerVariant("dictionary")
             \/ Finish \/ UnitVariant \/ FinishVariant \/ TakeAnswer
             \/ NextKey /\ (InnerIs({"map"}) /\ Inner.pending # {} => visitor = "any")
             \/ visitor = "any" /\ (MakeDo \/ DropEnum \/ DropVariant)
  BY <1>8 DEF VisitOther, Hints
<1>9. NextKey => InnerIs({"map"})
  BY DEF NextKey, Visiting
<1>10. w => visitor # "any"
  BY DEF Patient
<1>11. CASE ~ w /\ (MakeDo \/ DropEnum \/ DropVariant)
  BY <1>11, MakeDoStep, DropEnumStep, DropVariantStep
<1> QED BY <1>1, <1>2, <1>3, <1>4, <1>5, <1>6, <1>7, <1>8, <1>9, <1>10, <1>11

-----------------------------------------------------------------------------
(***************************************************************************)
(* The serializer makes values: of calls that are ones, and of values.     *)
(***************************************************************************)
SoundItems(es) == IsSequence(es) /\ \A k \in DOMAIN es : Sound(es[k])
SoundEntries(en) == IsSequence(en) /\ \A k, x : Held(en, k, x) => Sound(x)

LEMMA NothingSound == SoundItems(<< >>) /\ SoundEntries(<< >>)
  BY EmptySequence DEF SoundItems, SoundEntries, Held

LEMMA ArraySound ==
  ASSUME NEW es, SoundItems(es)
  PROVE  Sound(Array(es))
<1> PICK v : v = Array(es)
  OBVIOUS
<1>1. v.type = "array" /\ v.items = es
  BY DEF Array
<1>2. IsSequence(es) /\ \A k \in DOMAIN es : Sound(es[k])
  BY DEF SoundItems
<1>3. Contents(v) = {es[k] : k \in DOMAIN es}
  BY <1>1 DEF Contents
<1>4. IsValue(v)
  BY <1>1, <1>2 DEF IsValue
<1> QED BY <1>2, <1>3, <1>4, SoundMade

LEMMA MappingSound ==
  ASSUME NEW en, SoundEntries(en)
  PROVE  Sound(Mapping(en))
<1> PICK v : v = Mapping(en)
  OBVIOUS
<1>1. v.type = "dictionary" /\ v.entries = en
  BY DEF Mapping
<1>2. Contents(v) = {en[k].value : k \in DOMAIN en}
  BY <1>1 DEF Contents
<1>3. IsValue(v)
  BY <1>1 DEF IsValue, SoundEntries
<1>4. \A x \in Contents(v) : Sound(x)
  BY <1>2 DEF SoundEntries, Held
<1> QED BY <1>3, <1>4, SoundMade

LEMMA TaggedSound ==
  ASSUME NEW name, NEW v, Sound(v)
  PROVE  Sound(Tagged(name, v))
<1> PICK e : e = Entry(name, v)
  OBVIOUS
<1>1. e.value = v
  BY DEF Entry
<1>2. IsSequence(<<e>>) /\ DOMAIN <<e>> = 1 .. 1 /\ <<e>>[1] = e
  BY OneItem, SequenceFacts
<1>3. SoundEntries(<<e>>)
  BY <1>1, <1>2 DEF SoundEntries, Held
<1> QED BY <1>3, MappingSound DEF Tagged

LEMMA ScalarsSound ==
  /\ \A n : Sound(Uid(n))
  /\ \A b : Sound(Boolean(b))
  /\ \A x, wide : Sound(Real(x, wide))
  /\ \A t : TextSettles(t) => Sound(String(t))
  /\ \A bytes : IsSequence(bytes) => Sound(Data(bytes))
  /\ \A date : ReadsBack(date) => Sound(Date(date))
<1>1. ASSUME NEW n PROVE Sound(Uid(n))
  <2>1. Uid(n).type = "uid" /\ Uid(n).bits = n
    BY DEF Uid
  <2> QED BY <2>1, SoundScalar DEF IsValue
<1>2. ASSUME NEW b PROVE Sound(Boolean(b))
  <2>1. Boolean(b).type = "boolean"
    BY DEF Boolean
  <2> QED BY <2>1, SoundScalar DEF IsValue
<1>3. ASSUME NEW x, NEW wide PROVE Sound(Real(x, wide))
  <2>1. Real(x, wide).type = "real"
    BY DEF Real
  <2> QED BY <2>1, SoundScalar DEF IsValue
<1>4. ASSUME NEW t, TextSettles(t) PROVE Sound(String(t))
  <2>1. String(t).type = "string" /\ String(t).text = t
    BY DEF String, Scalar
  <2> QED BY <1>4, <2>1, SoundScalar DEF IsValue
<1>5. ASSUME NEW bytes, IsSequence(bytes) PROVE Sound(Data(bytes))
  <2>1. Data(bytes).type = "data" /\ Data(bytes).bytes = bytes
    BY DEF Data
  <2> QED BY <1>5, <2>1, SoundScalar DEF IsValue
<1>6. ASSUME NEW date, ReadsBack(date) PROVE Sound(Date(date))
  <2>1. Date(date).type = "date" /\ Date(date).instant = date
    BY DEF Date
  <2> QED BY <1>6, <2>1, SoundScalar DEF IsValue
<1> QED BY <1>1, <1>2, <1>3, <1>4, <1>5, <1>6

(* What a call returns: a value, if it is no error.                        *)
Returns(o) == o.ok => Sound(o.value)

LEMMA ReturnsFacts ==
  /\ \A kind : Returns(Err(kind)) /\ ~ Err(kind).ok
  /\ \A v : Ok(v).ok /\ Ok(v).value = v /\ (Sound(v) => Returns(Ok(v)))
<1>1. \A kind : ~ Err(kind).ok
  BY DEF Err
<1>2. \A v : Ok(v).ok /\ Ok(v).value = v
  BY DEF Ok
<1> QED BY <1>1, <1>2 DEF Returns

LEMMA LeafReturns ==
  ASSUME NEW leaf, IsLeaf(leaf)
  PROVE  Returns(serialize_scalar(leaf))
<1> PICK p : p = leaf.payload
  OBVIOUS
<1>1. CASE leaf.method \in {"none", "unit", "unit_struct"}
  <2>1. serialize_scalar(leaf) = Err("NullNotRepresentable")
    BY <1>1 DEF serialize_scalar, Null
  <2> QED BY <2>1, ReturnsFacts
<1>2. CASE leaf.method \in {"i128", "u128"}
  <2>1. serialize_scalar(leaf) = Ok(Integer(p)) \/ serialize_scalar(leaf) = Err("UnknownType")
    BY <1>2 DEF serialize_scalar
  <2> QED BY <2>1, ReturnsFacts, IntegersSound
<1>3. CASE leaf.method \in {"i64", "u64"}
  <2>1. serialize_scalar(leaf) = Ok(Integer(p))
    BY <1>3 DEF serialize_scalar
  <2> QED BY <2>1, ReturnsFacts, IntegersSound
<1>4. CASE leaf.method = "bool"
  <2>1. serialize_scalar(leaf) = Ok(Boolean(p))
    BY <1>4 DEF serialize_scalar
  <2> QED BY <2>1, ReturnsFacts, ScalarsSound
<1>5. CASE leaf.method \in {"f32", "f64"}
  <2>1. \E wide : serialize_scalar(leaf) = Ok(Real(p, wide))
    BY <1>5 DEF serialize_scalar
  <2> QED BY <2>1, ReturnsFacts, ScalarsSound
<1>6. CASE leaf.method \in {"char", "str", "unit_variant"}
  <2>1. serialize_scalar(leaf) = Ok(String(p))
    BY <1>6 DEF serialize_scalar
  <2>2. TextSettles(p)
    BY <1>6 DEF IsLeaf
  <2> QED BY <2>1, <2>2, ReturnsFacts, ScalarsSound
<1>7. CASE leaf.method = "bytes"
  <2>1. serialize_scalar(leaf) = Ok(Data(p))
    BY <1>7 DEF serialize_scalar
  <2>2. IsSequence(p)
    BY <1>7 DEF IsLeaf
  <2> QED BY <2>1, <2>2, ReturnsFacts, ScalarsSound
<1> QED BY <1>1, <1>2, <1>3, <1>4, <1>5, <1>6, <1>7 DEF IsLeaf

(* A builder holds values.                                                 *)
Filled(b) ==
  /\ IsBuilder(b) /\ SoundItems(b.elements) /\ SoundEntries(b.entries)
  /\ b.method = "newtype_struct" => b.name \in {UidNewtype, DateNewtype}

LEMMA FinishedSound ==
  ASSUME NEW b, Filled(b), b.method \in SeqMethods \cup MapMethods
  PROVE  Sound(Finished(b))
<1>1. Sound(Array(b.elements)) /\ Sound(Mapping(b.entries))
  BY ArraySound, MappingSound DEF Filled
<1>2. Sound(Tagged(b.name, Array(b.elements))) /\ Sound(Tagged(b.name, Mapping(b.entries)))
  BY <1>1, TaggedSound
<1> QED BY <1>1, <1>2 DEF Finished, SeqMethods, MapMethods

LEMMA WrappedReturns ==
  ASSUME NEW b, Filled(b), b.method \in Wrapping, NEW v, Sound(v)
  PROVE  Returns(Wrapped(b, v))
<1> DEFINE uid == IF v.type = "integer" /\ v.number >= 0 THEN Ok(Uid(v.number)) ELSE Err("Message")
           date == IF v.type = "string" THEN OkDate(parse_sentinel_date(v.text)) ELSE Err("Message")
<1>1. Returns(Ok(Tagged(b.name, v)))
  BY TaggedSound, ReturnsFacts
<1>2. Returns(uid)
  BY ScalarsSound, ReturnsFacts
<1>3. Returns(date)
  <2>1. CASE v.type = "string"
    <3> PICK dates : dates = parse_sentinel_date(v.text)
      OBVIOUS
    <3>1. \A d \in dates : ReadsBack(d)
      BY <2>1, SoundFacts DEF IsValue, TextSettles
    <3>2. OkDate(dates) = Err("Message") \/ \E d \in dates : OkDate(dates) = Ok(Date(d))
      BY DEF OkDate
    <3> QED BY <2>1, <3>1, <3>2, ScalarsSound, ReturnsFacts
  <2>2. CASE v.type # "string"
    BY <2>2, ReturnsFacts
  <2> QED BY <2>1, <2>2
<1>4. Wrapped(b, v) = Ok(Tagged(b.name, v)) \/ Wrapped(b, v) = uid \/ Wrapped(b, v) = date
  BY DEF Wrapped, Filled, Wrapping
<1> HIDE DEF uid, date
<1> QED BY <1>1, <1>2, <1>3, <1>4

(* All of the builders. *)
AllFilled(bs) == IsSequence(bs) /\ \A n : Size(bs, n) => \A d \in 1 .. n : Filled(bs[d])

LEMMA FilledPopped ==
  ASSUME NEW bs, AllFilled(bs), bs # << >>
  PROVE  AllFilled(Popped(bs))
<1>0. IsSequence(bs)
  BY DEF AllFilled
<1> PICK n \in Nat \ {0} : Size(bs, n)
  BY <1>0, SizeFacts
<1> PICK p : p = Popped(bs)
  OBVIOUS
<1>1. IsSequence(p) /\ Size(p, n - 1) /\ \A k \in 1 .. n - 1 : p[k] = bs[k]
  BY <1>0, PoppedTo
<1>2. \A d \in 1 .. n - 1 : d \in 1 .. n
  OBVIOUS
<1>3. \A d \in 1 .. n - 1 : Filled(p[d])
  BY <1>1, <1>2 DEF AllFilled
<1> QED BY <1>1, <1>3 DEF AllFilled, Size

LEMMA FilledReplaced ==
  ASSUME NEW bs, AllFilled(bs), bs # << >>, NEW b, Filled(b)
  PROVE  AllFilled(Replaced(bs, b))
<1>0. IsSequence(bs)
  BY DEF AllFilled
<1> PICK n \in Nat \ {0} : Size(bs, n)
  BY <1>0, SizeFacts
<1> PICK r : r = Replaced(bs, b)
  OBVIOUS
<1>1. IsSequence(r) /\ Size(r, n) /\ LastIs(r, bs, n, b)
  BY <1>0, ReplacedTo
<1>2. \A d \in 1 .. n : Filled(r[d])
  BY <1>1 DEF AllFilled, LastIs
<1> QED BY <1>1, <1>2 DEF AllFilled, Size

LEMMA FilledPushed ==
  ASSUME NEW bs, AllFilled(bs), NEW b, Filled(b)
  PROVE  AllFilled(Extended(bs, b))
<1>0. IsSequence(bs)
  BY DEF AllFilled
<1> PICK n \in Nat : Size(bs, n)
  BY <1>0, SizeFacts
<1> PICK e : e = Extended(bs, b)
  OBVIOUS
<1>1. IsSequence(e) /\ Size(e, n + 1) /\ OneMoreIs(e, bs, n, b)
  BY <1>0, ExtendedTo
<1>2. \A d \in 1 .. n : Filled(bs[d])
  BY DEF AllFilled
<1>3. \A d \in 1 .. n + 1 : d \in 1 .. n \/ d = n + 1
  OBVIOUS
<1>4. \A d \in 1 .. n + 1 : Filled(e[d])
  BY <1>1, <1>2, <1>3 DEF OneMoreIs
<1> QED BY <1>1, <1>4 DEF AllFilled, Size

LEMMA TopFilled ==
  ASSUME AllFilled(builders), builders # << >>
  PROVE  Filled(Top)
<1>0. IsSequence(builders)
  BY DEF AllFilled
<1> PICK n \in Nat \ {0} : Size(builders, n)
  BY <1>0, SizeFacts
<1>1. n \in 1 .. n
  OBVIOUS
<1>2. Top = builders[n]
  BY DEF Top, Size
<1> QED BY <1>1, <1>2 DEF AllFilled

(* A builder that holds something else. *)
Alters(c, b, es, en) ==
  IsBuilder(c) /\ c.method = b.method /\ c.name = b.name /\ c.elements = es /\ c.entries = en

LEMMA FilledAlters ==
  ASSUME NEW b, Filled(b), NEW c, NEW es, NEW en, Alters(c, b, es, en), SoundItems(es), SoundEntries(en)
  PROVE  Filled(c)
  BY DEF Filled, Alters

LEMMA BuilderAlters ==
  ASSUME NEW b, IsBuilder(b), NEW x
  PROVE  /\ Alters([b EXCEPT !.pending = x], b, b.elements, b.entries)
         /\ Alters([b EXCEPT !.elements = x], b, x, b.entries)
         /\ Alters([b EXCEPT !.entries = x], b, b.elements, x)
<1>1. Alters([b EXCEPT !.pending = x], b, b.elements, b.entries)
  BY DEF IsBuilder, Alters
<1>2. Alters([b EXCEPT !.elements = x], b, x, b.entries)
  BY DEF IsBuilder, Alters
<1>3. Alters([b EXCEPT !.entries = x], b, b.elements, x)
  BY DEF IsBuilder, Alters
<1> QED BY <1>1, <1>2, <1>3

(* A key that is spent, and one that is taken. *)
Spent(b, given)     == [b EXCEPT !.given = given, !.key = {}]
TakesKey(b, pending) == [b EXCEPT !.key = pending, !.pending = {}]

LEMMA KeyAlters ==
  ASSUME NEW b, IsBuilder(b), NEW x
  PROVE  /\ Alters(Spent(b, x), b, b.elements, b.entries)
         /\ Alters(TakesKey(b, x), b, b.elements, b.entries)
<1> PICK m, n, el, en, p, k, g :
      b = [method |-> m, name |-> n, elements |-> el, entries |-> en, pending |-> p, key |-> k, given |-> g]
  BY DEF IsBuilder
<1> DEFINE made(q, l, h) ==
      [method |-> m, name |-> n, elements |-> el, entries |-> en, pending |-> q, key |-> l, given |-> h]
<1>1. Spent(b, x) = made(p, {}, x)
  <2>1. [b EXCEPT !.given = x] = made(p, k, x)
    OBVIOUS
  <2>2. Spent(b, x) = [made(p, k, x) EXCEPT !.key = {}]
    BY <2>1 DEF Spent
  <2>3. [made(p, k, x) EXCEPT !.key = {}] = made(p, {}, x)
    OBVIOUS
  <2> QED BY <2>2, <2>3
<1>2. TakesKey(b, x) = made({}, x, g)
  <2>1. [b EXCEPT !.key = x] = made(p, x, g)
    OBVIOUS
  <2>2. TakesKey(b, x) = [made(p, x, g) EXCEPT !.pending = {}]
    BY <2>1 DEF TakesKey
  <2>3. [made(p, x, g) EXCEPT !.pending = {}] = made({}, x, g)
    OBVIOUS
  <2> QED BY <2>2, <2>3
<1>3. ASSUME NEW q, NEW l, NEW h PROVE Alters(made(q, l, h), b, b.elements, b.entries)
  BY DEF Alters, IsBuilder
<1> HIDE DEF made
<1> QED BY <1>1, <1>2, <1>3

LEMMA GiveFilled ==
  ASSUME Filled(Top), NEW e
  PROVE  Filled(Give(e)) /\ Give(e).elements = Top.elements /\ Give(e).entries = Top.entries
<1> PICK b : b = Top
  OBVIOUS
<1> PICK g : g = Append(b.given, e)
  OBVIOUS
<1>1. Give(e) = Spent(b, g)
  BY DEF Give, Spent
<1>2. Alters(Give(e), b, b.elements, b.entries)
  BY <1>1, KeyAlters DEF Filled
<1>3. Filled(Give(e))
  BY <1>2, FilledAlters DEF Filled
<1> QED BY <1>2, <1>3 DEF Alters

LEMMA BegunFilled ==
  ASSUME AllFilled(builders)
  PROVE  AllFilled(Begun)
<1>1. CASE TopIs(MapMethods)
  <2> PICK b : b = Top
    OBVIOUS
  <2> PICK c : c = TakesKey(b, b.pending)
    OBVIOUS
  <2>1. builders # << >> /\ Begun = Replaced(builders, c)
    BY <1>1 DEF Begun, TopIs, WithTop, Replaced, TakesKey
  <2>2. Filled(b)
    BY <2>1, TopFilled
  <2>3. Alters(c, b, b.elements, b.entries)
    BY <2>2, KeyAlters DEF Filled
  <2>4. Filled(c)
    BY <2>2, <2>3, FilledAlters DEF Filled
  <2> QED BY <2>1, <2>4, FilledReplaced
<1>2. CASE ~ TopIs(MapMethods)
  BY <1>2 DEF Begun
<1> QED BY <1>1, <1>2

SerSound == AllFilled(builders) /\ \A o \in returned : Returns(o)

LEMMA CallSerSound ==
  ASSUME SerSound,
         \/ \E leaf : IsLeaf(leaf) /\ SerializeLeaf(leaf)
         \/ \E opening : IsOpening(opening) /\ OpenBuilder(opening)
         \/ \E keyCall : SerializeKey(keyCall) \/ RefuseKey(keyCall)
         \/ ValueBeforeKey \/ End
  PROVE  SerSound'
<1>1. CASE \E leaf : IsLeaf(leaf) /\ SerializeLeaf(leaf)
  <2> PICK leaf : IsLeaf(leaf) /\ SerializeLeaf(leaf)
    BY <1>1
  <2>1. builders' = Begun /\ returned' = {serialize_scalar(leaf)}
    BY DEF SerializeLeaf
  <2> QED BY <2>1, BegunFilled, LeafReturns DEF SerSound
<1>2. CASE \E opening : IsOpening(opening) /\ OpenBuilder(opening)
  <2> PICK opening : IsOpening(opening) /\ OpenBuilder(opening)
    BY <1>2
  <2> PICK b : b = Builder(opening)
    OBVIOUS
  <2>1. builders' = Extended(Begun, b) /\ returned' = returned
    BY DEF OpenBuilder, Extended
  <2>2. IsBuilder(b) /\ b.elements = << >> /\ b.entries = << >> /\ b.method = opening.method /\ b.name = opening.name
    BY DEF Builder, IsBuilder
  <2>3. Filled(b)
    BY <2>2, NothingSound DEF Filled, IsOpening
  <2> QED BY <2>1, <2>3, BegunFilled, FilledPushed DEF SerSound
<1>3. CASE \E keyCall : SerializeKey(keyCall)
  <2> PICK keyCall : SerializeKey(keyCall)
    BY <1>3
  <2> PICK t : t = keyCall.payload
    OBVIOUS
  <2> PICK g : g = Give(KeyGiven(t))
    OBVIOUS
  <2> PICK c : c = [g EXCEPT !.pending = {t}]
    OBVIOUS
  <2>1. builders # << >> /\ builders' = Replaced(builders, c) /\ returned' = returned
    BY DEF SerializeKey, TopIs, WithTop, Replaced
  <2>2. Filled(g)
    BY <2>1, TopFilled, GiveFilled DEF SerSound
  <2>3. Alters(c, g, g.elements, g.entries)
    BY <2>2, BuilderAlters DEF Filled
  <2>4. Filled(c)
    BY <2>2, <2>3, FilledAlters DEF Filled
  <2> QED BY <2>1, <2>4, FilledReplaced DEF SerSound
<1>4. CASE (\E keyCall : RefuseKey(keyCall)) \/ ValueBeforeKey
  <2>1. \/ builders' = builders /\ returned' = returned
        \/ /\ builders # << >> /\ builders' = Popped(builders)
           /\ \E o : returned' = {o} /\ ~ o.ok
    BY <1>4, ReturnsFacts DEF RefuseKey, ValueBeforeKey, TopIs, Below, Popped
  <2> QED BY <2>1, FilledPopped DEF SerSound, Returns
<1>5. CASE End
  <2>1. /\ builders # << >> /\ Top.method \in SeqMethods \cup MapMethods
        /\ builders' = Popped(builders) /\ returned' = {Ok(Finished(Top))}
    BY <1>5 DEF End, TopIs, Below, Popped
  <2>2. Sound(Finished(Top))
    BY <2>1, TopFilled, FinishedSound DEF SerSound
  <2> QED BY <2>1, <2>2, FilledPopped, ReturnsFacts DEF SerSound
<1> QED BY <1>1, <1>2, <1>3, <1>4, <1>5

LEMMA MoreSound ==
  ASSUME NEW es, SoundItems(es), NEW v, Sound(v)
  PROVE  SoundItems(Extended(es, v))
<1> PICK t : t = Extended(es, v)
  OBVIOUS
<1>1. IsSequence(es) /\ \A k \in DOMAIN es : Sound(es[k])
  BY DEF SoundItems
<1> PICK n \in Nat : Size(es, n)
  BY <1>1, SizeFacts
<1>2. DOMAIN es = 1 .. n
  BY <1>1, SequenceFacts DEF Size
<1>3. IsSequence(t) /\ Size(t, n + 1) /\ OneMoreIs(t, es, n, v)
  BY <1>1, ExtendedTo
<1>4. DOMAIN t = 1 .. n + 1
  BY <1>3, SequenceFacts DEF Size
<1>5. \A d \in 1 .. n + 1 : d \in 1 .. n \/ d = n + 1
  OBVIOUS
<1>6. \A d \in 1 .. n + 1 : Sound(t[d])
  BY <1>1, <1>2, <1>3, <1>5 DEF OneMoreIs
<1> QED BY <1>3, <1>4, <1>6 DEF SoundItems

LEMMA EntrySound ==
  ASSUME NEW en, SoundEntries(en), NEW key, NEW v, Sound(v)
  PROVE  SoundEntries(Insert(en, Entry(key, v)))
<1> PICK t : t = Insert(en, Entry(key, v))
  OBVIOUS
<1>1. IsSequence(en) /\ \A k, x : Held(en, k, x) => Sound(x)
  BY DEF SoundEntries
<1>2. IsSequence(t) /\ \A k, x : Held(t, k, x) => IF k = key THEN x = v ELSE Held(en, k, x)
  BY <1>1, InsertHeld
<1>3. \A k, x : Held(t, k, x) => Sound(x)
  BY <1>1, <1>2
<1> QED BY <1>2, <1>3 DEF SoundEntries

LEMMA ReturnSerSound ==
  ASSUME SerSound, Return
  PROVE  SerSound'
<1>0. returned # {}
  BY DEF Return, PushElement, InsertEntry, IgnoreError, PassError, Wrap, ReturnRoot, Returning
<1> PICK o : o = Outcome
  OBVIOUS
<1>1. o \in returned /\ Returns(o)
  BY <1>0 DEF Outcome, SerSound
<1>2. CASE PushElement \/ InsertEntry \/ IgnoreError
  <2>1. builders # << >> /\ returned' = {}
    BY <1>2 DEF PushElement, InsertEntry, IgnoreError, Returning, TopIs
  <2>2. Filled(Top)
    BY <2>1, TopFilled DEF SerSound
  <2>3. \E c : Filled(c) /\ builders' = Replaced(builders, c)
    <3>1. CASE builders' = WithTop(Give(Hole))
      BY <2>2, <3>1, GiveFilled DEF WithTop, Replaced
    <3>2. CASE PushElement /\ builders' # WithTop(Give(Hole))
      <4> PICK v : v = o.value
        OBVIOUS
      <4> PICK g : g = Give(ValueGiven(v))
        OBVIOUS
      <4> PICK es : es = Extended(g.elements, v)
        OBVIOUS
      <4> PICK c : c = [g EXCEPT !.elements = es]
        OBVIOUS
      <4>1. builders' = Replaced(builders, c) /\ o.ok
        BY <3>2 DEF PushElement, WithTop, Replaced, Extended
      <4>2. Filled(g)
        BY <2>2, GiveFilled
      <4>3. SoundItems(es)
        BY <1>1, <4>1, <4>2, MoreSound DEF Returns, Filled
      <4>4. Alters(c, g, es, g.entries)
        BY <4>2, BuilderAlters DEF Filled
      <4>5. Filled(c)
        BY <4>2, <4>3, <4>4, FilledAlters DEF Filled
      <4> QED BY <4>1, <4>5
    <3>3. CASE InsertEntry /\ builders' # WithTop(Give(Hole))
      <4> PICK v : v = o.value
        OBVIOUS
      <4> PICK g : g = Give(ValueGiven(v))
        OBVIOUS
      <4> PICK k : k = CHOOSE x \in Top.key : TRUE
        OBVIOUS
      <4> PICK en : en = Insert(g.entries, Entry(k, v))
        OBVIOUS
      <4> PICK c : c = [g EXCEPT !.entries = en]
        OBVIOUS
      <4>1. builders' = Replaced(builders, c) /\ o.ok
        BY <3>3 DEF InsertEntry, WithTop, Replaced
      <4>2. Filled(g)
        BY <2>2, GiveFilled
      <4>3. SoundEntries(en)
        BY <1>1, <4>1, <4>2, EntrySound DEF Returns, Filled
      <4>4. Alters(c, g, g.elements, en)
        BY <4>2, BuilderAlters DEF Filled
      <4>5. Filled(c)
        BY <4>2, <4>3, <4>4, FilledAlters DEF Filled
      <4> QED BY <4>1, <4>5
    <3> QED BY <1>2, <3>1, <3>2, <3>3 DEF IgnoreError
  <2> QED BY <2>1, <2>3, FilledReplaced DEF SerSound
<1>3. CASE PassError \/ Wrap
  <2>1. builders # << >> /\ builders' = Popped(builders)
    BY <1>3 DEF PassError, Wrap, Returning, TopIs, Below, Popped
  <2>2. returned' = returned \/ (o.ok /\ Top.method \in Wrapping /\ returned' = {Wrapped(Top, o.value)})
    BY <1>3 DEF PassError, Wrap, Returning, TopIs
  <2>3. Filled(Top)
    BY <2>1, TopFilled DEF SerSound
  <2>4. \A x \in returned' : Returns(x)
    BY <1>1, <2>2, <2>3, WrappedReturns DEF SerSound, Returns
  <2> QED BY <2>1, <2>4, FilledPopped DEF SerSound
<1>4. CASE ReturnRoot
  BY <1>4 DEF ReturnRoot, SerSound
<1> QED BY <1>2, <1>3, <1>4 DEF Return

-----------------------------------------------------------------------------
(***************************************************************************)
(* The calls the Serialize impl of a Value has yet to make.                *)
(***************************************************************************)
ItemOK(e) ==
  /\ e.does = "value" => Sound(e.value)
  /\ e.does = "leaf"  => IsLeaf(e.call)
  /\ e.does = "open"  => IsOpening(e.call)

Runs(s) == \E T : s \in Seq(T) /\ \A e \in T : ItemOK(e)

LEMMA ItemsOK ==
  /\ \A v : Sound(v) => ItemOK([does |-> "value", value |-> v])
  /\ \A call : IsLeaf(call) => ItemOK([does |-> "leaf", call |-> call])
  /\ \A call : IsOpening(call) => ItemOK([does |-> "open", call |-> call])
  /\ \A call : ItemOK([does |-> "key", call |-> call])
  /\ ItemOK([does |-> "end"])
<1>1. ASSUME NEW v, Sound(v) PROVE ItemOK([does |-> "value", value |-> v])
  BY <1>1 DEF ItemOK
<1>2. ASSUME NEW call, IsLeaf(call) PROVE ItemOK([does |-> "leaf", call |-> call])
  BY <1>2 DEF ItemOK
<1>3. ASSUME NEW call, IsOpening(call) PROVE ItemOK([does |-> "open", call |-> call])
  BY <1>3 DEF ItemOK
<1>4. ASSUME NEW call PROVE ItemOK([does |-> "key", call |-> call])
  BY DEF ItemOK
<1>5. ItemOK([does |-> "end"])
  BY DEF ItemOK
<1> QED BY <1>1, <1>2, <1>3, <1>4, <1>5

LEMMA RunsNothing == Runs(<< >>)
<1> PICK T : T = {}
  OBVIOUS
<1>1. << >> \in Seq(T)
  OBVIOUS
<1>2. \A e \in T : ItemOK(e)
  OBVIOUS
<1> QED BY <1>1, <1>2 DEF Runs

LEMMA RunsOne ==
  ASSUME NEW e, ItemOK(e)
  PROVE  Runs(<<e>>) /\ <<e>> # << >>
<1> PICK T : T = {e}
  OBVIOUS
<1>1. <<e>> \in Seq(T) /\ <<e>> # << >>
  BY OneItem
<1>2. \A x \in T : ItemOK(x)
  OBVIOUS
<1> QED BY <1>1, <1>2 DEF Runs

LEMMA RunsMany ==
  ASSUME NEW n \in Nat, NEW f, f = [k \in 1 .. n |-> f[k]], \A k \in 1 .. n : ItemOK(f[k])
  PROVE  Runs(f)
<1> DEFINE T == {f[k] : k \in 1 .. n}
<1>1. \A k \in 1 .. n : f[k] \in T
  OBVIOUS
<1>2. \A e \in T : ItemOK(e)
  OBVIOUS
<1> HIDE DEF T
<1>3. f \in Seq(T)
  BY <1>1
<1> QED BY <1>2, <1>3 DEF Runs

LEMMA RunsBoth ==
  ASSUME NEW s, NEW t, Runs(s), Runs(t)
  PROVE  Runs(s \o t) /\ (s # << >> => s \o t # << >>)
<1> PICK T : s \in Seq(T) /\ \A e \in T : ItemOK(e)
  BY DEF Runs
<1> PICK U : t \in Seq(U) /\ \A e \in U : ItemOK(e)
  BY DEF Runs
<1> PICK A : A = T \cup U
  OBVIOUS
<1>1. s \in Seq(A) /\ t \in Seq(A)
  BY SeqMonotonic
<1>2. s \o t \in Seq(A) /\ Len(s \o t) = Len(s) + Len(t) /\ Len(s) \in Nat /\ Len(t) \in Nat
  BY <1>1, ConcatProperties, LenProperties
<1>3. s # << >> => Len(s) # 0
  BY <1>1, EmptySeq
<1>4. s # << >> => s \o t # << >>
  BY <1>2, <1>3, EmptySequence
<1> QED BY <1>2, <1>4 DEF Runs

LEMMA RunsFirst ==
  ASSUME NEW s, Runs(s), s # << >>
  PROVE  ItemOK(Head(s)) /\ Runs(Tail(s))
<1> PICK T : s \in Seq(T) /\ \A e \in T : ItemOK(e)
  BY DEF Runs
<1>1. Head(s) \in T /\ Tail(s) \in Seq(T)
  BY HeadTailProperties
<1> QED BY <1>1 DEF Runs

(* open, something in between, end.                                        *)
LEMMA RunsAround ==
  ASSUME NEW call, IsOpening(call), NEW s, Runs(s)
  PROVE  LET r == <<[does |-> "open", call |-> call]>> \o s \o <<[does |-> "end"]>> IN Runs(r) /\ r # << >>
<1> PICK o : o = [does |-> "open", call |-> call]
  OBVIOUS
<1> PICK e : e = [does |-> "end"]
  OBVIOUS
<1>1. ItemOK(o) /\ ItemOK(e)
  BY ItemsOK
<1>2. Runs(<<o>>) /\ <<o>> # << >> /\ Runs(<<e>>)
  BY <1>1, RunsOne
<1>3. Runs(<<o>> \o s) /\ <<o>> \o s # << >>
  BY <1>2, RunsBoth
<1>4. Runs((<<o>> \o s) \o <<e>>) /\ (<<o>> \o s) \o <<e>> # << >>
  BY <1>2, <1>3, RunsBoth
<1> QED BY <1>4

LEMMA CallsRun ==
  ASSUME NEW v, Sound(v)
  PROVE  Runs(Calls(v)) /\ Calls(v) # << >>
<1>0. IsValue(v) /\ \A x \in Contents(v) : Sound(x)
  BY SoundFacts
<1> DEFINE leaf(method, payload) == [does |-> "leaf", call |-> [method |-> method, payload |-> payload]]
           opening(m, name)      == [method |-> m, name |-> name]
           open(m, name)         == [does |-> "open", call |-> opening(m, name)]
<1>1. ASSUME NEW m, NEW p, IsLeaf([method |-> m, payload |-> p]) PROVE Runs(<<leaf(m, p)>>) /\ <<leaf(m, p)>> # << >>
  BY <1>1, ItemsOK, RunsOne
<1>2. CASE v.type = "dictionary"
  <2> DEFINE f == [k \in 1 .. 2 * Len(v.entries) |->
                     IF k % 2 = 1 THEN [does |-> "key", call |-> [method |-> "str", payload |-> v.entries[(k + 1) \div 2].key]]
                     ELSE [does |-> "value", value |-> v.entries[k \div 2].value]]
  <2> PICK n \in Nat : n = Len(v.entries) /\ DOMAIN v.entries = 1 .. n
    BY <1>0, <1>2, SequenceFacts DEF IsValue
  <2>1. \A k \in 1 .. n : Sound(v.entries[k].value)
    BY <1>0, <1>2 DEF Contents
  <2>2. ASSUME NEW k \in 1 .. 2 * n PROVE ItemOK(f[k])
    <3>1. CASE k % 2 = 1
      BY <3>1, ItemsOK
    <3>2. CASE k % 2 # 1
      <4>1. k \div 2 \in 1 .. n
        BY <3>2
      <4>2. f[k] = [does |-> "value", value |-> v.entries[k \div 2].value]
        BY <3>2
      <4> QED BY <2>1, <4>1, <4>2, ItemsOK
    <3> QED BY <3>1, <3>2
  <2>3. f = [k \in 1 .. 2 * n |-> f[k]] /\ 2 * n \in Nat
    OBVIOUS
  <2>4. Runs(f)
    <3> HIDE DEF f
    <3> QED BY <2>2, <2>3, RunsMany
  <2>5. IsOpening(opening("map", ""))
    BY DEF IsOpening
  <2>6. Calls(v) = <<open("map", "")>> \o f \o <<[does |-> "end"]>>
    BY <1>2 DEF Calls
  <2> HIDE DEF f
  <2> QED BY <2>4, <2>5, <2>6, RunsAround
<1>3. CASE v.type = "array"
  <2> DEFINE f == [k \in DOMAIN v.items |-> [does |-> "value", value |-> v.items[k]]]
  <2> PICK n \in Nat : n = Len(v.items) /\ DOMAIN v.items = 1 .. n
    BY <1>0, <1>3, SequenceFacts DEF IsValue
  <2>1. \A k \in 1 .. n : Sound(v.items[k])
    BY <1>0, <1>3 DEF Contents
  <2>2. \A k \in 1 .. n : ItemOK(f[k])
    BY <2>1, ItemsOK
  <2>3. f = [k \in 1 .. n |-> f[k]]
    OBVIOUS
  <2>4. Runs(f)
    <3> HIDE DEF f
    <3> QED BY <2>2, <2>3, RunsMany
  <2>5. IsOpening(opening("seq", ""))
    BY DEF IsOpening
  <2>6. Calls(v) = <<open("seq", "")>> \o f \o <<[does |-> "end"]>>
    BY <1>3 DEF Calls
  <2> HIDE DEF f
  <2> QED BY <2>4, <2>5, <2>6, RunsAround
<1>4. CASE v.type \in {"string", "integer", "real", "boolean", "data"}
  <2>1. \E m, p : Calls(v) = <<leaf(m, p)>> /\ IsLeaf([method |-> m, payload |-> p])
    <3>1. CASE v.type = "string"
      BY <1>0, <3>1 DEF Calls, IsLeaf, IsValue
    <3>2. CASE v.type = "integer"
      <4> PICK m : m = IF v.number < 0 THEN "i64" ELSE "u64"
        OBVIOUS
      <4>1. m \in {"i64", "u64"}
        OBVIOUS
      <4>2. IsLeaf([method |-> m, payload |-> v.number])
        BY <4>1 DEF IsLeaf
      <4>3. Calls(v) = <<leaf(m, v.number)>>
        BY <3>2 DEF Calls
      <4> QED BY <4>2, <4>3
    <3>3. CASE v.type = "real"
      <4> PICK m : m = IF v.wide THEN "f64" ELSE "f32"
        OBVIOUS
      <4>1. m \in {"f32", "f64"}
        OBVIOUS
      <4>2. IsLeaf([method |-> m, payload |-> v.real])
        BY <4>1 DEF IsLeaf
      <4>3. Calls(v) = <<leaf(m, v.real)>>
        BY <3>3 DEF Calls
      <4> QED BY <4>2, <4>3
    <3>4. CASE v.type = "boolean"
      <4> PICK m : m = "bool"
        OBVIOUS
      <4>1. m \in {"bool"}
        OBVIOUS
      <4>2. IsLeaf([method |-> m, payload |-> v.truth])
        BY <4>1 DEF IsLeaf
      <4>3. Calls(v) = <<leaf(m, v.truth)>>
        BY <3>4 DEF Calls
      <4> QED BY <4>2, <4>3
    <3>5. CASE v.type = "data"
      BY <1>0, <3>5 DEF Calls, IsLeaf, IsValue
    <3> QED BY <1>4, <3>1, <3>2, <3>3, <3>4, <3>5
  <2> QED BY <1>1, <2>1
<1>5. CASE v.type \in {"uid", "date"}
  <2>1. \E name, m, p : /\ Calls(v) = <<open("newtype_struct", name)>> \o <<leaf(m, p)>>
                        /\ IsLeaf([method |-> m, payload |-> p]) /\ name \in {UidNewtype, DateNewtype}
    <3>1. CASE v.type = "uid"
      <4>1. Calls(v) = <<open("newtype_struct", UidNewtype)>> \o <<leaf("u64", v.bits)>>
        BY <3>1 DEF Calls
      <4>2. IsLeaf([method |-> "u64", payload |-> v.bits])
        BY DEF IsLeaf
      <4> QED BY <4>1, <4>2
    <3>2. CASE v.type = "date"
      <4>1. TextSettles(format_sentinel_date(v.instant))
        BY <1>0, <3>2 DEF IsValue, ReadsBack, TextSettles
      <4> PICK p : p = format_sentinel_date(v.instant)
        OBVIOUS
      <4>2. Calls(v) = <<open("newtype_struct", DateNewtype)>> \o <<leaf("str", p)>>
        BY <3>2 DEF Calls
      <4>3. IsLeaf([method |-> "str", payload |-> p])
        BY <4>1 DEF IsLeaf
      <4> QED BY <4>2, <4>3
    <3> QED BY <1>5, <3>1, <3>2
  <2> PICK name, m, p : /\ Calls(v) = <<open("newtype_struct", name)>> \o <<leaf(m, p)>>
                        /\ IsLeaf([method |-> m, payload |-> p]) /\ name \in {UidNewtype, DateNewtype}
    BY <2>1
  <2>2. IsOpening(opening("newtype_struct", name))
    BY DEF IsOpening
  <2>3. Runs(<<open("newtype_struct", name)>>) /\ <<open("newtype_struct", name)>> # << >>
    BY <2>2, ItemsOK, RunsOne
  <2> QED BY <1>1, <2>3, RunsBoth
<1> QED BY <1>0, <1>2, <1>3, <1>4, <1>5 DEF IsValue

-----------------------------------------------------------------------------
(***************************************************************************)
(* What the serializer returned is a value, and what visitors have got of  *)
(* it is a part of it.                                                     *)
(***************************************************************************)
ResultOK == result = {} \/ (returned = {} /\ \E r : result = {r} /\ Returns(r))

NdIInv ==
  /\ SerSound /\ Runs(script) /\ ResultOK
  /\ visitor = "none" => accesses = << >> /\ seed = {} /\ answer = {}
  /\ visitor # "none" =>
       result # {} /\ Consistent(accesses, seed, answer, Made_Value.value, lax, Patient)

LEMMA ValuesSound == \A v \in Values : Sound(v)
<1>1. AllValues(Values)
  BY ValuesAssumption DEF AllValues
<1> QED BY <1>1 DEF Sound

LEMMA NdInit == SerdeInit => NdIInv
<1> SUFFICES ASSUME SerdeInit PROVE NdIInv
  OBVIOUS
<1>1. SerSound /\ ResultOK
  <2>1. builders = << >> /\ returned = {} /\ result = {}
    BY DEF SerdeInit, SerInit
  <2>2. AllFilled(<< >>)
    <3>1. \A n : Size(<< >>, n) => n = 0
      BY EmptySequence DEF Size
    <3>2. 1 .. 0 = {}
      OBVIOUS
    <3> QED BY <3>1, <3>2, EmptySequence DEF AllFilled
  <2> QED BY <2>1, <2>2 DEF SerSound, ResultOK
<1>2. Runs(script)
  <2>1. script = << >> \/ \E v \in Values : script = <<[does |-> "value", value |-> v]>>
    BY DEF SerdeInit
  <2>2. \A v \in Values : Runs(<<[does |-> "value", value |-> v]>>)
    BY ValuesSound, ItemsOK, RunsOne
  <2> QED BY <2>1, <2>2, RunsNothing
<1>3. visitor = "none" /\ accesses = << >> /\ seed = {} /\ answer = {}
  BY DEF SerdeInit
<1> QED BY <1>1, <1>2, <1>3 DEF NdIInv

(* The first thing to do, when a value is opened, is the first of its calls. *)
LEMMA ScriptRuns ==
  ASSUME Runs(script), script # << >>, NEW todo,
         todo = IF Head(script).does = "value" THEN Calls(Head(script).value) ELSE <<Head(script)>>
  PROVE  ItemOK(Head(todo)) /\ Runs(Tail(todo) \o Tail(script))
<1> PICK h : h = Head(script)
  OBVIOUS
<1>1. ItemOK(h) /\ Runs(Tail(script))
  BY RunsFirst
<1>2. Runs(todo) /\ todo # << >>
  <2>1. CASE h.does = "value"
    BY <1>1, <2>1, CallsRun DEF ItemOK
  <2>2. CASE h.does # "value"
    BY <1>1, <2>2, RunsOne
  <2> QED BY <2>1, <2>2
<1> QED BY <1>1, <1>2, RunsFirst, RunsBoth

LEMMA SerializeNdIInv ==
  ASSUME NdIInv, Serialize
  PROVE  NdIInv'
<1>1. UNCHANGED <<accesses, seed, answer, visitor, lax>>
  BY DEF Serialize, deVars
<1> DEFINE call ==
      \/ \E leaf : IsLeaf(leaf) /\ SerializeLeaf(leaf)
      \/ \E opening : IsOpening(opening) /\ OpenBuilder(opening)
      \/ \E keyCall : SerializeKey(keyCall) \/ RefuseKey(keyCall)
      \/ ValueBeforeKey \/ End
<1>2. CASE MakeAnyCall
  <2>1. call /\ script' = script
    BY <1>2, LeavesAssumption, OpeningsAssumption DEF MakeAnyCall
  <2>2. result = {} /\ result' = {}
    BY <2>1 DEF SerializeLeaf, OpenBuilder, SerializeKey, RefuseKey, ValueBeforeKey, End, Calling
  <2>3. SerSound'
    BY <2>1, CallSerSound DEF NdIInv
  <2> QED BY <1>1, <2>1, <2>2, <2>3 DEF NdIInv, ResultOK
<1>3. CASE MakeNextCall
  <2> PICK todo : todo = IF Head(script).does = "value" THEN Calls(Head(script).value) ELSE <<Head(script)>>
    OBVIOUS
  <2> PICK next : next = Head(todo)
    OBVIOUS
  <2>1. /\ script # << >> /\ script' = Tail(todo) \o Tail(script)
        /\ \/ next.does = "leaf" /\ SerializeLeaf(next.call)
           \/ next.does = "open" /\ OpenBuilder(next.call)
           \/ next.does = "key"  /\ SerializeKey(next.call)
           \/ next.does = "end"  /\ End
    BY <1>3 DEF MakeNextCall
  <2>2. ItemOK(next) /\ Runs(script')
    BY <2>1, ScriptRuns DEF NdIInv
  <2>3. call
    BY <2>1, <2>2 DEF ItemOK
  <2>4. result = {} /\ result' = {}
    BY <2>3 DEF SerializeLeaf, OpenBuilder, SerializeKey, RefuseKey, ValueBeforeKey, End, Calling
  <2>5. SerSound'
    BY <2>3, CallSerSound DEF NdIInv
  <2> QED BY <1>1, <2>2, <2>4, <2>5 DEF NdIInv, ResultOK
<1>4. CASE Return /\ UNCHANGED script
  <2>1. returned # {} /\ result = {}
    BY <1>4 DEF Return, PushElement, InsertEntry, IgnoreError, PassError, Wrap, ReturnRoot, Returning,
                NdIInv, ResultOK
  <2>2. SerSound'
    BY <1>4, ReturnSerSound DEF NdIInv
  <2>3. ResultOK'
    <3>1. CASE ReturnRoot
      <4> PICK o : o = Outcome
        OBVIOUS
      <4>1. Returns(o)
        BY <2>1 DEF Outcome, NdIInv, SerSound
      <4>2. \E r : Returns(r) /\ result' = {r} /\ returned' = {}
        BY <3>1, <4>1, ReturnsFacts DEF ReturnRoot
      <4> QED BY <4>2 DEF ResultOK
    <3>2. CASE ~ ReturnRoot
      <4>1. result' = result
        BY <1>4, <3>2 DEF Return, PushElement, InsertEntry, IgnoreError, PassError, Wrap, Returning
      <4> QED BY <2>1, <4>1 DEF ResultOK
    <3> QED BY <3>1, <3>2
  <2> QED BY <1>1, <1>4, <2>1, <2>2, <2>3 DEF NdIInv
<1> QED BY <1>2, <1>3, <1>4 DEF Serialize

(* from_value at first.                                                    *)
LEMMA Beginning ==
  ASSUME NEW root, NEW c, NEW w, Sound(root)
  PROVE  Consistent(<< >>, {At(root, 0, c)}, {}, root, c, w)
<1> PICK s : s = At(root, 0, c)
  OBVIOUS
<1>1. s.value = root /\ s.lax = c
  BY DEF At
<1>2. \A n : Size(<< >>, n) => n = 0
  BY EmptySequence DEF Size
<1>3. Chained(<< >>, 0, root, c, w)
  <2>1. 1 .. 0 = {}
    OBVIOUS
  <2> QED BY <2>1 DEF Chained
<1>4. Asks({s}, << >>, 0, root, c, w)
  BY <1>1 DEF Asks, Legible, Expected
<1>5. Yields({}, << >>, 0, root, c, w) /\ Lone({})
  BY DEF Yields, Lone
<1> QED BY <1>2, <1>3, <1>4, <1>5, EmptySequence DEF Consistent

LEMMA HandOverNdIInv ==
  ASSUME NdIInv, HandOver
  PROVE  NdIInv'
<1>1. visitor = "none" /\ visitor' # "none" /\ UNCHANGED <<builders, returned, result, script, accesses, answer>>
  BY DEF HandOver, serVars
<1>2. accesses' = << >> /\ answer' = {}
  BY <1>1 DEF NdIInv
<1>3. \E r \in result : r.ok /\ seed' = {At(r.value, 0, lax')}
  BY DEF HandOver
<1> PICK r : result = {r} /\ Returns(r)
  BY <1>3 DEF NdIInv, ResultOK
<1>4. r.ok /\ seed' = {At(r.value, 0, lax')}
  BY <1>3
<1>5. Made_Value = r /\ Made_Value' = r
  BY <1>1 DEF Made_Value
<1>6. Consistent(<< >>, {At(r.value, 0, lax')}, {}, r.value, lax', Patient')
  BY <1>4, Beginning DEF Returns
<1>7. SerSound' /\ Runs(script') /\ ResultOK'
  BY <1>1 DEF NdIInv, SerSound, ResultOK
<1>8. result' # {}
  BY <1>1, <1>3
<1> QED BY <1>1, <1>2, <1>4, <1>5, <1>6, <1>7, <1>8 DEF NdIInv

LEMMA DeserializeNdIInv ==
  ASSUME NdIInv, Deserialize
  PROVE  NdIInv'
<1>1. /\ visitor # "none"
      /\ UNCHANGED <<builders, returned, result, script, visitor, lax>>
      /\ IF visitor = "Value" THEN VisitValue ELSE VisitOther
  BY DEF Deserialize, serVars
<1>2. result # {} /\ Consistent(accesses, seed, answer, Made_Value.value, lax, Patient)
  BY <1>1 DEF NdIInv
<1>3. Consistent(accesses', seed', answer', Made_Value.value, lax, Patient)
  BY <1>1, <1>2, DeserializeStep
<1>4. Made_Value' = Made_Value /\ Patient' = Patient
  BY <1>1 DEF Made_Value, Patient
<1>5. SerSound' /\ Runs(script') /\ ResultOK'
  BY <1>1 DEF NdIInv, SerSound, ResultOK
<1> QED BY <1>1, <1>2, <1>3, <1>4, <1>5 DEF NdIInv

LEMMA NdStep == NdIInv /\ [SerdeNext]_serdeVars => NdIInv'
<1> SUFFICES ASSUME NdIInv, [SerdeNext]_serdeVars PROVE NdIInv'
  OBVIOUS
<1>1. CASE Stop \/ UNCHANGED serdeVars
  <2>1. UNCHANGED <<builders, returned, result, script, accesses, seed, answer, visitor, lax>>
    BY <1>1 DEF Stop, serdeVars, serVars, deVars
  <2>2. Made_Value' = Made_Value /\ Patient' = Patient
    BY <2>1 DEF Made_Value, Patient
  <2> QED BY <2>1, <2>2 DEF NdIInv, SerSound, ResultOK
<1> QED BY <1>1, SerializeNdIInv, HandOverNdIInv, DeserializeNdIInv DEF SerdeNext

-----------------------------------------------------------------------------
(***************************************************************************)
(* The levels of an answer and a value: Level is the function it says.     *)
(***************************************************************************)
InsideOf(pairs) == UNION {Matched(p[1], p[2]) : p \in pairs}
Levels(g, top, n) == g[0] = top /\ \A k \in 1 .. n : g[k] = InsideOf(g[k - 1])

LEMMA LevelsExist ==
  ASSUME NEW top
  PROVE  \A n \in Nat : \E g : Levels(g, top, n)
<1> DEFINE T == {n \in Nat : ~ \E g : Levels(g, top, n)}
<1>1. SUFFICES ASSUME T # {} PROVE FALSE
  OBVIOUS
<1>2. PICK x \in T : \A y \in T : x <= y
  BY <1>1, LeastNumber
<1>3. x # 0
  <2>1. Levels([k \in 0 .. 0 |-> top], top, 0)
    BY DEF Levels
  <2> QED BY <2>1
<1>4. PICK g : Levels(g, top, x - 1)
  <2>1. x - 1 \in Nat /\ x - 1 \notin T
    BY <1>2, <1>3
  <2> QED BY <2>1
<1>5. Levels([k \in 0 .. x |-> IF k = x THEN InsideOf(g[x - 1]) ELSE g[k]], top, x)
  BY <1>3, <1>4 DEF Levels
<1> QED BY <1>5

LEMMA LevelsAgree ==
  ASSUME NEW top, NEW n \in Nat, NEW m \in Nat, NEW g, NEW h, Levels(g, top, n), Levels(h, top, m)
  PROVE  \A k \in Nat : k <= n /\ k <= m => g[k] = h[k]
<1> DEFINE T == {k \in Nat : k <= n /\ k <= m /\ g[k] # h[k]}
<1>1. SUFFICES ASSUME T # {} PROVE FALSE
  OBVIOUS
<1>2. PICK x \in T : \A y \in T : x <= y
  BY <1>1, LeastNumber
<1>3. x # 0
  BY DEF Levels
<1>4. x - 1 \in Nat /\ g[x - 1] = h[x - 1]
  BY <1>2, <1>3
<1> QED BY <1>3, <1>4 DEF Levels

LEMMA LevelDef ==
  \A n \in Nat : Level[n] = IF n = 0 THEN {<<Answer.value, Made_Value.value>>} ELSE InsideOf(Level[n - 1])
<1> PICK top : top = {<<Answer.value, Made_Value.value>>}
  OBVIOUS
<1> DEFINE s(n) == CHOOSE g : Levels(g, top, n)
           f    == [n \in Nat |-> s(n)[n]]
<1>1. \A n \in Nat : Levels(s(n), top, n)
  BY LevelsExist
<1>2. ASSUME NEW n \in Nat
      PROVE  f[n] = IF n = 0 THEN top ELSE InsideOf(f[n - 1])
  <2>1. CASE n = 0
    BY <1>1, <2>1 DEF Levels
  <2>2. CASE n # 0
    <3>1. s(n)[n] = InsideOf(s(n)[n - 1])
      BY <1>1, <2>2 DEF Levels
    <3>2. s(n)[n - 1] = s(n - 1)[n - 1]
      BY <1>1, <2>2, LevelsAgree
    <3> QED BY <3>1, <3>2, <2>2
  <2> QED BY <2>1, <2>2
<1>3. f = [n \in Nat |-> f[n]]
  OBVIOUS
<1> HIDE DEF f
<1>4. f = [n \in Nat |-> IF n = 0 THEN top ELSE InsideOf(f[n - 1])]
  BY <1>2, <1>3
<1>5. f = [n \in Nat |-> IF n = 0 THEN {<<Answer.value, Made_Value.value>>}
                       ELSE UNION {Matched(p[1], p[2]) : p \in f[n - 1]}]
  BY <1>4 DEF InsideOf
<1>6. Level = [n \in Nat |-> IF n = 0 THEN {<<Answer.value, Made_Value.value>>}
                           ELSE UNION {Matched(p[1], p[2]) : p \in Level[n - 1]}]
  BY <1>5 DEF Level
<1>7. Level = [n \in Nat |-> IF n = 0 THEN top ELSE InsideOf(Level[n - 1])]
  BY <1>6 DEF InsideOf
<1> QED BY <1>7

AllWhole(pairs, c, w) == \A p \in pairs : Whole(p[1], p[2], c, w)

LEMMA WholeInside ==
  ASSUME NEW pairs, NEW c, NEW w, AllWhole(pairs, c, w)
  PROVE  AllWhole(InsideOf(pairs), c, w)
<1> SUFFICES ASSUME NEW p \in pairs, NEW q \in Matched(p[1], p[2])
             PROVE  Whole(q[1], q[2], c, w)
  BY DEF AllWhole, InsideOf
<1>1. Whole(p[1], p[2], c, w)
  BY DEF AllWhole
<1>2. q = <<q[1], q[2]>>
  BY MatchedPairs
<1> QED BY <1>1, <1>2, WholeFacts

LEMMA LevelsWhole ==
  ASSUME NEW c, NEW w, Whole(Answer.value, Made_Value.value, c, w)
  PROVE  \A n \in Nat : AllWhole(Level[n], c, w)
<1> DEFINE T == {n \in Nat : ~ AllWhole(Level[n], c, w)}
<1>1. SUFFICES ASSUME T # {} PROVE FALSE
  OBVIOUS
<1>2. PICK x \in T : \A y \in T : x <= y
  BY <1>1, LeastNumber
<1>3. x # 0
  <2>1. Level[0] = {<<Answer.value, Made_Value.value>>}
    BY LevelDef
  <2> QED BY <2>1 DEF AllWhole
<1>4. x - 1 \in Nat /\ AllWhole(Level[x - 1], c, w)
  BY <1>2, <1>3
<1>5. Level[x] = InsideOf(Level[x - 1])
  BY <1>3, LevelDef
<1> QED BY <1>4, <1>5, WholeInside

LEMMA NdAccounts == NdIInv => PartsAccountedFor
<1> SUFFICES ASSUME NdIInv, answer # {}, accesses = << >>, Answer.ok,
                    NEW n \in 0 .. MaxParseDepth, NEW p \in Level[n]
             PROVE  Represents(p[1], p[2], lax, Patient)
  BY DEF PartsAccountedFor, Patient
<1>1. Consistent(accesses, seed, answer, Made_Value.value, lax, Patient)
  BY DEF NdIInv
<1>2. Whole(Answer.value, Made_Value.value, lax, Patient)
  BY <1>1, AnswerFacts
<1>3. n \in Nat
  BY DeserializerAssumption
<1>4. Whole(p[1], p[2], lax, Patient)
  BY <1>2, <1>3, LevelsWhole DEF AllWhole
<1> QED BY <1>4, WholeFacts

(* de.rs seq, map and enum accesses: whatever value was serialized, by the *)
(* impl of a Value or by any other, what a deserialization that succeeds   *)
(* lacks of it is what the visitor let go of, did not ask for before the   *)
(* next key, or made do without; a visitor that does none of these has     *)
(* every part in its place.                                                *)
THEOREM AccountsForParts == SerdeSpec => []PartsAccountedFor
<1> QED BY NdInit, NdStep, NdAccounts, PTL DEF SerdeSpec

=============================================================================
