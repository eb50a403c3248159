------------------------ MODULE BinaryLayout_proofs -------------------------
(***************************************************************************)
(* What the trailer checks guarantee, and that no checked read leaves its  *)
(* region, for words, bytes and trailers of every size.                    *)
(***************************************************************************)
EXTENDS BinaryLayout, Stacks

-----------------------------------------------------------------------------
(***************************************************************************)
(* Powers of two.  Powers(g, n) says that g is PowerOfTwo up to n; there   *)
(* is such a function for every n, and only one, so that PowerOfTwo itself *)
(* is what its definition says.                                            *)
(***************************************************************************)
Powers(g, n) == /\ DOMAIN g = 0 .. n /\ g[0] = 1
                /\ \A k \in 1 .. n : g[k] = 2 * g[k - 1]

LEMMA PowersExist ==
  \A n \in Nat : \E g : Powers(g, n)
<1> DEFINE T == {n \in Nat : ~ \E g : Powers(g, n)}
<1>1. SUFFICES ASSUME T # {} PROVE FALSE
  OBVIOUS
<1>2. PICK x \in T : \A y \in T : x <= y
  BY <1>1, LeastNumber
<1>3. x # 0
  <2>1. Powers([k \in 0 .. 0 |-> 1], 0)
    BY DEF Powers
  <2> QED BY <2>1
<1>4. PICK g : Powers(g, x - 1)
  <2>1. x - 1 \in Nat /\ x - 1 \notin T
    BY <1>2, <1>3
  <2> QED BY <2>1
<1>5. Powers([k \in 0 .. x |-> IF k = x THEN 2 * g[x - 1] ELSE g[k]], x)
  BY <1>3, <1>4 DEF Powers
<1> QED BY <1>5

LEMMA PowersAgree ==
  ASSUME NEW n \in Nat, NEW m \in Nat, NEW g, NEW h, Powers(g, n), Powers(h, m)
  PROVE  \A k \in Nat : k <= n /\ k <= m => g[k] = h[k]
<1> DEFINE T == {k \in Nat : k <= n /\ k <= m /\ g[k] # h[k]}
<1>1. SUFFICES ASSUME T # {} PROVE FALSE
  OBVIOUS
<1>2. PICK x \in T : \A y \in T : x <= y
  BY <1>1, LeastNumber
<1>3. x # 0
  BY DEF Powers
<1>4. x - 1 \in Nat /\ g[x - 1] = h[x - 1]
  BY <1>2, <1>3
<1> QED BY <1>3, <1>4 DEF Powers

LEMMA PowerOfTwoDef ==
  \A n \in Nat : PowerOfTwo[n] = IF n = 0 THEN 1 ELSE 2 * PowerOfTwo[n - 1]
<1> DEFINE s(n) == CHOOSE g : Powers(g, n)
           f    == [n \in Nat |-> s(n)[n]]
<1>1. \A n \in Nat : Powers(s(n), n)
  BY PowersExist
<1>2. ASSUME NEW n \in Nat
      PROVE  f[n] = IF n = 0 THEN 1 ELSE 2 * f[n - 1]
  <2>1. CASE n = 0
    BY <1>1, <2>1 DEF Powers
  <2>2. CASE n # 0
    <3>1. s(n)[n] = 2 * s(n)[n - 1]
      BY <1>1, <2>2 DEF Powers
    <3>2. s(n)[n - 1] = s(n - 1)[n - 1]
      BY <1>1, <2>2, PowersAgree
    <3> QED BY <3>1, <3>2, <2>2
  <2> QED BY <2>1, <2>2
<1>3. f = [n \in Nat |-> f[n]]
  OBVIOUS
<1> HIDE DEF f
<1>4. f = [n \in Nat |-> IF n = 0 THEN 1 ELSE 2 * f[n - 1]]
  BY <1>2, <1>3
<1>5. PowerOfTwo = [n \in Nat |-> IF n = 0 THEN 1 ELSE 2 * PowerOfTwo[n - 1]]
  BY <1>4 DEF PowerOfTwo
<1> QED BY <1>5

LEMMA PowersPositive ==
  \A n \in Nat : PowerOfTwo[n] \in Nat \ {0}
<1> DEFINE T == {n \in Nat : PowerOfTwo[n] \notin Nat \ {0}}
<1>1. SUFFICES ASSUME T # {} PROVE FALSE
  OBVIOUS
<1>2. PICK x \in T : \A y \in T : x <= y
  BY <1>1, LeastNumber
<1>3. x # 0
  BY PowerOfTwoDef
<1>4. x - 1 \in Nat /\ PowerOfTwo[x - 1] \in Nat \ {0}
  BY <1>2, <1>3
<1>5. PowerOfTwo[x] = 2 * PowerOfTwo[x - 1]
  BY <1>3, PowerOfTwoDef
<1> QED BY <1>4, <1>5

LEMMA PowersGrow ==
  ASSUME NEW m \in Nat, NEW n \in Nat, m <= n
  PROVE  PowerOfTwo[m] <= PowerOfTwo[n]
<1> DEFINE T == {k \in Nat : m <= k /\ ~ PowerOfTwo[m] <= PowerOfTwo[k]}
<1>1. SUFFICES ASSUME T # {} PROVE FALSE
  OBVIOUS
<1>2. PICK x \in T : \A y \in T : x <= y
  BY <1>1, LeastNumber
<1>3. x # m
  BY PowersPositive
<1>4. x - 1 \in Nat /\ m <= x - 1 /\ PowerOfTwo[m] <= PowerOfTwo[x - 1]
  BY <1>2, <1>3
<1>5. PowerOfTwo[x] = 2 * PowerOfTwo[x - 1]
  BY <1>4, PowerOfTwoDef
<1> QED BY <1>4, <1>5, PowersPositive

-----------------------------------------------------------------------------
(***************************************************************************)
(* What validate has checked when it says "ok".                            *)
(***************************************************************************)
LEMMA LeastOfChecks ==
  ASSUME NEW S \in SUBSET (1 .. 7), S # {}
  PROVE  Min(S) \in 1 .. 7
<1>1. S \in SUBSET Nat
  OBVIOUS
<1>2. \E x \in S : \A y \in S : x <= y
  BY <1>1, LeastNumber
<1>3. Min(S) \in S
  BY <1>2 DEF Min
<1> QED BY <1>3

LEMMA NoneFails ==
  ASSUME NEW t, validate(t) = "ok"
  PROVE  \A check \in 1 .. 7 : ~ Fails(t, check)
<1> DEFINE failed == {check \in 1 .. 7 : Fails(t, check)}
<1>1. SUFFICES ASSUME failed # {} PROVE FALSE
  OBVIOUS
<1>2. Min(failed) \in 1 .. 7
  BY <1>1, LeastOfChecks
<1>3. ASSUME NEW k \in 1 .. 7 PROVE Reasons[k] # "ok"
  <2>1. k = 1 \/ k = 2 \/ k = 3 \/ k = 4 \/ k = 5 \/ k = 6 \/ k = 7
    OBVIOUS
  <2>2. /\ Reasons[1] # "ok" /\ Reasons[2] # "ok" /\ Reasons[3] # "ok" /\ Reasons[4] # "ok"
        /\ Reasons[5] # "ok" /\ Reasons[6] # "ok" /\ Reasons[7] # "ok"
    BY DEF Reasons
  <2> QED BY <2>1, <2>2
<1>4. validate(t) = Reasons[Min(failed)]
  BY <1>1 DEF validate
<1> QED BY <1>2, <1>3, <1>4

LEMMA Checked ==
  ASSUME NEW t, validate(t) = "ok"
  PROVE  /\ ~ t.table >= t.start /\ ~ t.table < HeaderLen
         /\ ~ Garbage(t) /\ ~ TooShort(t)
         /\ ~ t.numObjects > MaxRef(t) /\ ~ CannotAddress(t)
         /\ ~ t.topObject >= t.numObjects
<1>1. \A check \in 1 .. 7 : ~ Fails(t, check)
  BY NoneFails
<1>2. ~ Fails(t, 1) /\ ~ Fails(t, 2) /\ ~ Fails(t, 3) /\ ~ Fails(t, 4)
      /\ ~ Fails(t, 5) /\ ~ Fails(t, 6) /\ ~ Fails(t, 7)
  BY <1>1
<1> QED BY <1>2 DEF Fails

LEMMA ValidIsSane ==
  ASSUME NEW t \in Trailers, validate(t) = "ok"
  PROVE  Sane(t)
<1> USE WidthsAssumption
<1>1. /\ t.offsetIntSize \in Nat /\ t.objectRefSize \in Nat /\ t.start \in Nat
      /\ t.numObjects \in Nat /\ t.topObject \in Nat /\ t.table \in Nat /\ t.table <= WordMax
  BY TrailersAssumption
<1>2. /\ HeaderLen <= t.table /\ t.table < t.start /\ t.topObject < t.numObjects
  BY <1>1, Checked
<1>3. t.table + t.numObjects * t.offsetIntSize = t.start
  <2> DEFINE end == t.numObjects * t.offsetIntSize + t.table
  <2>1. end \in Nat
    BY <1>1
  <2>2. ~ Overflows(t) /\ ~ t.start > TableEnd(t) /\ ~ TableEnd(t) > t.start
    BY Checked DEF Garbage, TooShort
  <2>3. end <= WordMax
    BY <2>1, <2>2 DEF Overflows
  <2>4. TableEnd(t) = end % (WordMax + 1)
    BY DEF TableEnd
  <2> HIDE DEF end
  <2>5. TableEnd(t) = end
    BY <2>1, <2>3, <2>4
  <2>6. end = t.start
    BY <2>1, <2>2, <2>5, <1>1
  <2> QED BY <2>6, <1>1 DEF end
<1>4. t.table <= PowerOfTwo[ByteBits * t.offsetIntSize]
  <2>1. CASE t.offsetIntSize < WordBytes
    <3>1. ~ PowerOfTwo[ByteBits * t.offsetIntSize] <= t.table
      BY <2>1, Checked DEF CannotAddress
    <3>2. ByteBits * t.offsetIntSize \in Nat
      BY <1>1
    <3> QED BY <1>1, <3>1, <3>2, PowersPositive
  <2>2. CASE ~ t.offsetIntSize < WordBytes
    <3>1. /\ ByteBits * WordBytes \in Nat /\ ByteBits * t.offsetIntSize \in Nat
          /\ ByteBits * WordBytes <= ByteBits * t.offsetIntSize
      BY <1>1, <2>2
    <3>2. PowerOfTwo[ByteBits * WordBytes] <= PowerOfTwo[ByteBits * t.offsetIntSize]
      BY <3>1, PowersGrow
    <3> QED BY <1>1, <3>1, <3>2, WordAssumption, PowersPositive
  <2> QED BY <2>1, <2>2
<1>5. t.numObjects <= PowerOfTwo[ByteBits * t.objectRefSize]
  <2> DEFINE bits  == ByteBits * t.objectRefSize
             shift == bits % ByteRange
  <2>1. bits \in Nat
    BY <1>1
  <2>2. MaxRef(t) = IF shift >= ByteBits * WordBytes THEN 0 ELSE PowerOfTwo[shift]
    BY DEF MaxRef
  <2>3. t.numObjects <= MaxRef(t)
    <3>1. MaxRef(t) \in Int
      BY <1>1, <2>2, PowersPositive
    <3> QED BY <1>1, <3>1, Checked
  <2>4. t.numObjects # 0
    BY <1>1, <1>2
  <2>5. t.numObjects <= PowerOfTwo[shift]
    BY <1>1, <2>2, <2>3, <2>4
  <2> HIDE DEF bits
  <2>6. shift \in Nat /\ shift <= bits
    BY <2>1
  <2>7. PowerOfTwo[shift] <= PowerOfTwo[bits]
    BY <2>1, <2>6, PowersGrow
  <2>8. PowerOfTwo[shift] \in Nat /\ PowerOfTwo[bits] \in Nat
    BY <2>1, <2>6, PowersPositive
  <2> QED BY <1>1, <2>5, <2>7, <2>8 DEF bits
<1> QED BY <1>2, <1>3, <1>4, <1>5 DEF Sane

-----------------------------------------------------------------------------
(***************************************************************************)
(* The inductive invariant: the trailer is one that may end a document,    *)
(* reading goes on only behind an accepted one, and both the last read and *)
(* the rest of the open list are in their regions.                         *)
(***************************************************************************)
InRegion(r, t) ==
  /\ r.for = "entry" => r.result \in {"ok", "width"} /\ r.pos + r.len <= t.start
  /\ r.for = "reference" => r.result \in {"ok", "width"} /\ r.pos + r.len <= t.table
  /\ r.for = "payload" => r.result # "range" /\ (r.result = "ok" => r.pos + r.len <= t.table)

ListInRegion(l, t) ==
  /\ l.pos \in Nat /\ l.left \in Nat
  /\ l.pos + l.left * t.objectRefSize <= t.table

IInv ==
  /\ trailer \in Trailers
  /\ verdict = "ok" => validate(trailer) = "ok"
  /\ ListInRegion(list, trailer)
  /\ InRegion(read, trailer)

LEMMA TrailerFacts ==
  ASSUME NEW t \in Trailers
  PROVE  /\ t.offsetIntSize \in Nat /\ t.objectRefSize \in Nat /\ t.start \in Nat
         /\ t.numObjects \in Nat /\ t.table \in Nat /\ t.table <= WordMax
         /\ t.start + TrailerLen <= WordMax /\ WordMax \in Nat /\ TrailerLen \in Nat
  BY TrailersAssumption, WidthsAssumption

LEMMA InitIInv == Init => IInv
<1> SUFFICES ASSUME Init PROVE IInv
  OBVIOUS
<1>1. trailer \in Trailers /\ verdict = "unchecked" /\ list = NoList /\ read = NoRead
  BY DEF Init
<1>2. ListInRegion(list, trailer)
  BY <1>1, TrailerFacts DEF ListInRegion, NoList
<1>3. InRegion(read, trailer)
  BY <1>1 DEF InRegion, NoRead, Read
<1> QED BY <1>1, <1>2, <1>3 DEF IInv

(* A read that ends within the buffer's contents succeeds, if its width is *)
(* legal.                                                                  *)
LEMMA ReadableBelow ==
  ASSUME trailer \in Trailers, NEW pos \in Nat, NEW n \in Nat, pos + n <= trailer.start
  PROVE  slice_at(pos, n) = "ok" /\ sized_integer(pos, n) \in {"ok", "width"}
<1>1. pos + n <= WordMax /\ pos + n <= BufferLen
  BY TrailerFacts DEF BufferLen
<1> QED BY <1>1 DEF slice_at, sized_integer

LEMMA ReadEntryIInv ==
  ASSUME IInv, NEW index \in Values, ReadEntry(index)
  PROVE  IInv'
<1> DEFINE t == trailer
           n == t.offsetIntSize
<1>1. Reading /\ index \in 0 .. t.numObjects - 1 /\ UNCHANGED <<trailer, verdict, list>>
  BY DEF ReadEntry
<1>2. t \in Trailers /\ validate(t) = "ok"
  BY <1>1 DEF IInv, Reading
<1>3. t.table + t.numObjects * n = t.start
  BY <1>2, ValidIsSane DEF Sane
<1>4. /\ EntryPos(index) \in Nat /\ EntryPos(index) + n <= t.start
      /\ EntryPos(index) <= WordMax
  <2>1. t.numObjects \in Nat /\ n \in Nat /\ t.table \in Nat /\ index + 1 \in 0 .. t.numObjects
    BY <1>1, <1>2, TrailerFacts
  <2>2. (index + 1) * n <= t.numObjects * n
    BY <2>1
  <2>3. (index + 1) * n = index * n + n
    BY <1>1, <2>1
  <2> QED BY <1>1, <1>2, <1>3, <2>1, <2>2, <2>3, TrailerFacts DEF EntryPos
<1>5. sized_integer(EntryPos(index), n) \in {"ok", "width"}
  BY <1>2, <1>4, ReadableBelow, TrailerFacts
<1>6. InRegion(read', t)
  BY <1>4, <1>5, <1>2, TrailerFacts DEF ReadEntry, Read, InRegion
<1> QED BY <1>1, <1>6 DEF IInv

LEMMA ReadScalarIInv ==
  ASSUME IInv, NEW off, NEW n, ReadScalar(off, n)
  PROVE  IInv'
  BY DEF IInv, ReadScalar, InRegion, Read

(* A count starts at or behind its object, at a position that is a number. *)
LEMMA CountFacts ==
  ASSUME NEW off \in Nat, NEW counted \in CountsAt(off)
  PROVE  counted.start \in Nat /\ counted.count \in Nat
<1>1. WordMax \in Nat /\ WordBytes \in Nat /\ \A v \in Values : v \in Nat
  BY WidthsAssumption
<1>2. \A a, b \in Nat : SaturatingAdd(a, b) \in Nat
  BY <1>1 DEF SaturatingAdd
<1>3. CASE \E count \in Values : counted = InlineCount(off, count)
  BY <1>1, <1>2, <1>3 DEF InlineCount
<1>4. CASE \E x \in (0 .. WordBytes) \X Values : counted = ExtendedCount(off, x[1], x[2])
  <2>1. PICK x \in (0 .. WordBytes) \X Values : counted = ExtendedCount(off, x[1], x[2])
    BY <1>4
  <2>2. x[1] \in Nat /\ x[2] \in Values
    BY <2>1, <1>1
  <2>3. PowerOfTwo[x[1]] \in Nat
    BY <2>2, PowersPositive
  <2>4. counted.start = SaturatingAdd(SaturatingAdd(off, 2), PowerOfTwo[x[1]]) /\ counted.count = x[2]
    BY <2>1 DEF ExtendedCount
  <2> QED BY <1>1, <1>2, <2>2, <2>3, <2>4
<1> QED BY <1>3, <1>4 DEF CountsAt

LEMMA OpenListIInv ==
  ASSUME IInv, NEW off \in Nat, NEW counted \in CountsAt(off), NEW perEntry \in {1, 2},
         OpenList(off, counted, perEntry)
  PROVE  IInv'
<1> DEFINE total == counted.count * perEntry
<1>1. Reading /\ UNCHANGED <<trailer, verdict>>
  BY DEF OpenList
<1>2. trailer \in Trailers /\ validate(trailer) = "ok" /\ ListInRegion(list, trailer)
  BY <1>1 DEF IInv, Reading
<1>3. counted.start \in Nat /\ total \in Nat
  BY CountFacts
<1>4. InRegion(read', trailer)
  BY DEF OpenList, Read, InRegion
<1>5. \/ list' = list
      \/ /\ EndsInRegion(counted.start, total, trailer.objectRefSize)
         /\ list' = [pos |-> counted.start, left |-> total]
  BY DEF OpenList
<1>6. ListInRegion(list', trailer)
  BY <1>2, <1>3, <1>5 DEF ListInRegion, EndsInRegion
<1> QED BY <1>1, <1>2, <1>4, <1>6 DEF IInv

LEMMA ReadRefIInv ==
  ASSUME IInv, ReadRef
  PROVE  IInv'
<1> DEFINE t == trailer
           n == t.objectRefSize
<1>1. Reading /\ list.left > 0 /\ UNCHANGED <<trailer, verdict>>
  BY DEF ReadRef, HasMoreRefs
<1>2. t \in Trailers /\ validate(t) = "ok" /\ ListInRegion(list, t)
  BY <1>1 DEF IInv, Reading
<1>3. n \in Nat /\ t.table \in Nat /\ t.table <= WordMax /\ WordMax \in Nat /\ t.start \in Nat
  BY <1>2, TrailerFacts
<1>4. t.table < t.start
  BY <1>2, ValidIsSane DEF Sane
<1>5. /\ list.pos \in Nat /\ list.left - 1 \in Nat
      /\ list.pos + n + (list.left - 1) * n <= t.table
  <2>1. list.left * n = n + (list.left - 1) * n
    BY <1>2, <1>3 DEF ListInRegion
  <2> QED BY <1>1, <1>2, <1>3, <2>1 DEF ListInRegion
<1>6. (list.left - 1) * n \in Nat
  BY <1>3, <1>5
<1>7. list.pos + n <= t.table
  BY <1>3, <1>5, <1>6
<1>8. sized_integer(list.pos, n) \in {"ok", "width"}
  BY <1>2, <1>3, <1>4, <1>5, <1>7, ReadableBelow
<1>9. InRegion(read', t)
  BY <1>7, <1>8 DEF ReadRef, Read, InRegion
<1>10. list' = [pos |-> list.pos + n, left |-> list.left - 1]
  BY <1>3, <1>5, <1>7 DEF ReadRef, SaturatingAdd
<1>11. ListInRegion(list', t)
  BY <1>3, <1>5, <1>10 DEF ListInRegion
<1> QED BY <1>1, <1>2, <1>9, <1>11 DEF IInv

LEMMA ReadPayloadIInv ==
  ASSUME IInv, NEW off \in Nat, NEW counted \in CountsAt(off), NEW perUnit \in {1, 2},
         ReadPayload(off, counted, perUnit)
  PROVE  IInv'
<1> DEFINE bytes == counted.count * perUnit
<1>1. Reading /\ UNCHANGED <<trailer, verdict, list>>
  BY DEF ReadPayload
<1>2. trailer \in Trailers /\ validate(trailer) = "ok"
  BY <1>1 DEF IInv, Reading
<1>3. counted.start \in Nat /\ bytes \in Nat
  BY CountFacts
<1>4. trailer.table < trailer.start /\ trailer.table \in Nat /\ trailer.start \in Nat
  BY <1>2, ValidIsSane, TrailerFacts DEF Sane
<1>5. EndsInRegion(counted.start, bytes, 1) =>
        counted.start + bytes <= trailer.table /\ slice_at(counted.start, bytes) = "ok"
  <2> HIDE DEF bytes
  <2>1. EndsInRegion(counted.start, bytes, 1) => counted.start + bytes <= trailer.table
    BY <1>3 DEF EndsInRegion
  <2>2. ASSUME counted.start + bytes <= trailer.table PROVE slice_at(counted.start, bytes) = "ok"
    <3>1. counted.start + bytes <= trailer.start
      BY <1>3, <1>4, <2>2
    <3> QED BY <1>2, <1>3, <3>1, ReadableBelow
  <2> QED BY <2>1, <2>2
<1>6. InRegion(read', trailer)
  <2>1. PICK result : /\ read' = Read("payload", counted.start, bytes, result)
                      /\ \/ result \in {"count", "payload"}
                         \/ /\ EndsInRegion(counted.start, bytes, 1)
                            /\ result = slice_at(counted.start, bytes)
    BY DEF ReadPayload
  <2>2. /\ read'.for = "payload" /\ read'.result = result
        /\ read'.pos = counted.start /\ read'.len = bytes
    BY <2>1 DEF Read
  <2> QED BY <1>5, <2>1, <2>2 DEF InRegion
<1> QED BY <1>1, <1>6 DEF IInv

LEMMA NextIInv == IInv /\ [Next]_vars => IInv'
<1> SUFFICES ASSUME IInv, [Next]_vars PROVE IInv'
  OBVIOUS
<1>1. CASE Validate
  BY <1>1 DEF Validate, IInv
<1>2. ASSUME NEW index \in Values, ReadEntry(index) PROVE IInv'
  BY <1>2, ReadEntryIInv
<1>3. ASSUME NEW off \in Values \cap (0 .. trailer.table - 1), NEW n, ReadScalar(off, n) PROVE IInv'
  BY <1>3, ReadScalarIInv
<1>4. ASSUME NEW off \in Values \cap (0 .. trailer.table - 1),
             NEW counted \in CountsAt(off), NEW per \in {1, 2},
             OpenList(off, counted, per) \/ ReadPayload(off, counted, per)
      PROVE  IInv'
  <2>1. off \in Nat
    BY WidthsAssumption
  <2> QED BY <1>4, <2>1, OpenListIInv, ReadPayloadIInv
<1>5. CASE ReadRef
  BY <1>5, ReadRefIInv
<1>6. CASE UNCHANGED vars
  BY <1>6 DEF vars, IInv
<1> QED BY <1>1, <1>2, <1>3, <1>4, <1>5, <1>6 DEF Next

-----------------------------------------------------------------------------
(* Every reachable state satisfies the invariant. *)
THEOREM Invariance == Spec => []IInv
  BY InitIInv, NextIInv, PTL DEF Spec

(* Whatever the numbers of a trailer, one that passes the seven checks of  *)
(* Trailer::validate describes a document.                                 *)
THEOREM AcceptedSane == Spec => []AcceptedIsSane
<1>1. IInv => AcceptedIsSane
  BY ValidIsSane DEF IInv, AcceptedIsSane
<1> QED BY <1>1, Invariance, PTL

(* Whatever the bytes hold, every read that was checked beforehand is one  *)
(* the parser can make, inside its region.                                 *)
THEOREM ReadsInRegion == Spec => []ReadsStayInRegion
<1>1. IInv => ReadsStayInRegion
  BY DEF IInv, InRegion, ListInRegion, ReadsStayInRegion, EntriesReadable, RefsReadable, PayloadsReadable
<1> QED BY <1>1, Invariance, PTL

=============================================================================
