---------------------------- MODULE BinaryLayout ----------------------------
(***************************************************************************)
(* The byte arithmetic of the binary parser (src/src/binary/parser.rs):    *)
(* the trailer checks, and the reads of table entries, counts, reference   *)
(* lists and payloads that rely on them.  What is read is arbitrary; where *)
(* it is read, and whether the read can leave its region, is modelled      *)
(* exactly, with the widths of the program's integers as parameters.       *)
(***************************************************************************)
EXTENDS Integers, FiniteSetsExt

CONSTANTS
  Trailers,    (* the trailers that may end a document *)
  Values,      (* the integers a read may yield *)
  WordMax,     (* u64::MAX *)
  ByteBits,    (* 8 *)
  ByteRange,   (* 256, the values of a u8 *)
  WordBytes,   (* 8, the bytes of a u64 *)
  HeaderLen,   (* 9, the first offset the table may have *)
  TrailerLen,  (* 32 *)
  EscapeNibble (* 15, the count nibble that announces an integer object *)

ASSUME WidthsAssumption ==
  /\ WordMax \in Nat /\ ByteBits \in Nat /\ ByteRange \in Nat \ {0}
  /\ WordBytes \in Nat /\ HeaderLen \in Nat /\ TrailerLen \in Nat /\ EscapeNibble \in Nat
  /\ Values \subseteq 0 .. WordMax

(* 1 << n, as a function, so that it can be reasoned about. *)
PowerOfTwo[n \in Nat] == IF n = 0 THEN 1 ELSE 2 * PowerOfTwo[n - 1]

ASSUME WordAssumption == WordMax = PowerOfTwo[ByteBits * WordBytes] - 1

(* struct Trailer: what be_u64_at and the size bytes can hold; the buffer, *)
(* start plus TrailerLen bytes, exists in memory.                          *)
ASSUME TrailersAssumption ==
  \A t \in Trailers :
    /\ t.offsetIntSize \in 0 .. ByteRange - 1 /\ t.objectRefSize \in 0 .. ByteRange - 1
    /\ t.numObjects \in 0 .. WordMax /\ t.topObject \in 0 .. WordMax
    /\ t.table \in 0 .. WordMax
    /\ t.start \in Nat /\ t.start + TrailerLen <= WordMax

VARIABLES
  trailer,
  verdict,   (* "unchecked", "ok", or the trailer check that failed *)
  list,      (* the open reference list: where it goes on and what is left *)
  read       (* the last read: for what, from where, and how it ended *)

vars == <<trailer, verdict, list, read>>

BufferLen      == trailer.start + TrailerLen
SaturatingAdd(a, b) == IF a + b > WordMax THEN WordMax ELSE a + b

-----------------------------------------------------------------------------
(***************************************************************************)
(* Trailer::validate: the checks, and the first that fails.                *)
(***************************************************************************)
(* What the multiplication and the addition yield, and whether they wrap.  *)
TableEnd(t) == (t.numObjects * t.offsetIntSize + t.table) % (WordMax + 1)

OverflowsUnseen(t) == FALSE   (* mutant: wrapping for checked arithmetic *)
Overflows(t) == t.numObjects * t.offsetIntSize + t.table > WordMax

Garbage(t)  == Overflows(t) \/ t.start > TableEnd(t)
TooShort(t) == TableEnd(t) > t.start

(* The shift count wraps in u8, and a shift out of the word gives zero. *)
MaxRef(t) ==
  LET shift == (ByteBits * t.objectRefSize) % ByteRange
  IN IF shift >= ByteBits * WordBytes THEN 0 ELSE PowerOfTwo[shift]

CannotAddress(t) ==
  t.offsetIntSize < WordBytes /\ PowerOfTwo[ByteBits * t.offsetIntSize] <= t.table

Fails(t, check) ==
  CASE check = 1 -> t.table >= t.start
    [] check = 2 -> t.table < HeaderLen
    [] check = 3 -> Garbage(t)
    [] check = 4 -> TooShort(t)
    [] check = 5 -> t.numObjects > MaxRef(t)
    [] check = 6 -> CannotAddress(t)
    [] check = 7 -> t.topObject >= t.numObjects

Reasons == <<"beyond trailer", "inside header", "garbage", "too short",
             "reference size", "offset size", "top object">>

validate(t) ==
  LET failed == {check \in 1 .. 7 : Fails(t, check)}
  IN IF failed = {} THEN "ok" ELSE Reasons[Min(failed)]

-----------------------------------------------------------------------------
(***************************************************************************)
(* slice_at and sized_integer: a read succeeds, leaves the buffer, or has  *)
(* a width that no integer has.                                            *)
(***************************************************************************)
LegalWidth(n) == n \in 0 .. WordBytes \cup {2 * WordBytes}

slice_at(pos, n) == IF pos + n <= WordMax /\ pos + n <= BufferLen THEN "ok" ELSE "range"

sized_integer(pos, n) == IF LegalWidth(n) THEN slice_at(pos, n) ELSE "width"

Read(for, pos, n, result) == [for |-> for, pos |-> pos, len |-> n, result |-> result]
NoRead == Read("nothing", 0, 0, "ok")
NoList == [pos |-> 0, left |-> 0]

Init ==
  /\ trailer \in Trailers
  /\ verdict = "unchecked"
  /\ list = NoList
  /\ read = NoRead

Validate ==
  /\ verdict = "unchecked"
  /\ verdict' = validate(trailer)
  /\ UNCHANGED <<trailer, list, read>>

(* The parser goes on as long as no read has failed. *)
Reading == verdict = "ok" /\ read.result = "ok"

(* resolve_step: the table entry of an object in range. *)
EntryPos(index) == index * trailer.offsetIntSize + trailer.table

ReadEntry(index) ==
  /\ Reading
  /\ index \in 0 .. trailer.numObjects - 1
  /\ read' = Read("entry", EntryPos(index), trailer.offsetIntSize,
                  IF EntryPos(index) > WordMax THEN "overflow"
                  ELSE sized_integer(EntryPos(index), trailer.offsetIntSize))
  /\ UNCHANGED <<trailer, verdict, list>>

(* parse_integer_at, parse_date_at, parse_real_at, parse_uid_at: a scalar  *)
(* below the table; its payload may run into the table or the trailer.     *)
ReadScalar(off, n) ==
  /\ Reading
  /\ off < trailer.table
  /\ read' = Read("scalar", off + 1, n, sized_integer(SaturatingAdd(off, 1), n))
  /\ UNCHANGED <<trailer, verdict, list>>

(***************************************************************************)
(* count_for_tag_at: an inline count, or an integer object of 2^exponent   *)
(* bytes that starts behind the marker and a marker of its own.            *)
(***************************************************************************)
InlineCount(off, count) == [result |-> "ok", count |-> count, start |-> SaturatingAdd(off, 1)]

ExtendedCount(off, exponent, count) ==
  LET legible == /\ slice_at(SaturatingAdd(off, 1), 1) = "ok"
                 /\ sized_integer(SaturatingAdd(off, 2), PowerOfTwo[exponent]) = "ok"
  IN [result |-> IF legible /\ count <= trailer.table THEN "ok" ELSE "count",
      count  |-> count,
      start  |-> SaturatingAdd(SaturatingAdd(off, 2), PowerOfTwo[exponent])]

(* The counts that can stand at off. *)
Holds(width, v) == width >= WordBytes \/ v < PowerOfTwo[ByteBits * width]

CountsAt(off) ==
  {InlineCount(off, count) : count \in {v \in Values : v < EscapeNibble}}
  \cup {ExtendedCount(off, x[1], x[2]) :
          x \in {y \in (0 .. WordBytes) \X Values : Holds(PowerOfTwo[y[1]], y[2])}}

(* open_container: the whole reference list must end at or before the table. *)
EndsInRegionByStart(start, n, size) == start <= trailer.table   (* mutant: only its start *)
EndsInRegion(start, n, size) ==
  n * size <= WordMax /\ start + n * size <= WordMax /\ start + n * size <= trailer.table

OpenList(off, counted, perEntry) ==
  LET total  == counted.count * perEntry
      result == IF counted.result # "ok" THEN "count"
                ELSE IF total <= WordMax /\ EndsInRegion(counted.start, total, trailer.objectRefSize)
                THEN "ok" ELSE "container"
  IN /\ Reading
     /\ off < trailer.table
     /\ read' = Read("list", counted.start, 0, result)
     /\ list' = IF result = "ok" THEN [pos |-> counted.start, left |-> total] ELSE list
     /\ UNCHANGED <<trailer, verdict>>

(* advance_step: the next reference of the list. *)
HasMoreRefs == list.left > 0

ReadRef ==
  /\ Reading
  /\ HasMoreRefs
  /\ read' = Read("reference", list.pos, trailer.objectRefSize,
                  sized_integer(list.pos, trailer.objectRefSize))
  /\ list' = [pos |-> SaturatingAdd(list.pos, trailer.objectRefSize), left |-> list.left - 1]
  /\ UNCHANGED <<trailer, verdict>>

(* counted_payload of data, ASCII and UTF-16 strings (perUnit 1 or 2). *)
ReadPayload(off, counted, perUnit) ==
  LET bytes  == counted.count * perUnit
      result == IF counted.result # "ok" THEN "count"
                ELSE IF EndsInRegion(counted.start, bytes, 1)
                THEN slice_at(counted.start, bytes) ELSE "payload"
  IN /\ Reading
     /\ off < trailer.table
     /\ read' = Read("payload", counted.start, bytes, result)
     /\ UNCHANGED <<trailer, verdict, list>>

(* The parse has returned: an error, or nothing left to show. *)
Stop == verdict \notin {"unchecked", "ok"} \/ read.result # "ok"

Next ==
  \/ Validate
  \/ Reading /\ \E index \in Values : ReadEntry(index)
  \/ Reading /\ \E off \in Values \cap (0 .. trailer.table - 1) :
       \/ \E n \in {1, WordBytes, 2 * WordBytes} : ReadScalar(off, n)
       \/ \E counted \in CountsAt(off), perEntry \in {1, 2} :
            OpenList(off, counted, perEntry) \/ ReadPayload(off, counted, perEntry)
  \/ ReadRef
  \/ Stop /\ UNCHANGED vars

Spec == Init /\ [][Next]_vars

-----------------------------------------------------------------------------
(***************************************************************************)
(* Properties.                                                             *)
(***************************************************************************)
Sane(t) ==
  /\ HeaderLen <= t.table /\ t.table < t.start
  /\ t.table + t.numObjects * t.offsetIntSize = t.start
  /\ t.table <= PowerOfTwo[ByteBits * t.offsetIntSize]
  /\ t.numObjects <= PowerOfTwo[ByteBits * t.objectRefSize]
  /\ t.topObject < t.numObjects

(* An accepted trailer describes a document, in plain arithmetic: the      *)
(* table fills the space up to the trailer exactly, and every offset below *)
(* the table, every index and the top object can be written in the widths  *)
(* it gives.  The wrapping and checked arithmetic lets no other one pass.  *)
AcceptedIsSane == verdict = "ok" => Sane(trailer)

(* Once the trailer is accepted the entry of an object in range can be     *)
(* read, unless its width is one that no integer has.                      *)
EntriesReadable ==
  read.for = "entry" => read.result \in {"ok", "width"} /\ read.pos + read.len <= trailer.start

(* What open_container has checked once holds for every reference of the   *)
(* list: the cursor neither saturates nor leaves the object region.        *)
RefsReadable ==
  /\ read.for = "reference" =>
       read.result \in {"ok", "width"} /\ read.pos + read.len <= trailer.table
  /\ verdict = "ok" => list.pos + list.left * trailer.objectRefSize <= trailer.table

(* A payload whose end was checked against the table is there to be read,  *)
(* and read within the object region.                                      *)
PayloadsReadable ==
  read.for = "payload" =>
    /\ read.result # "range"
    /\ read.result = "ok" => read.pos + read.len <= trailer.table

(* Every read that the parser has checked beforehand is one it can make,   *)
(* inside its region, however the numbers of the document are chosen.      *)
ReadsStayInRegion == EntriesReadable /\ RefsReadable /\ PayloadsReadable

=============================================================================
