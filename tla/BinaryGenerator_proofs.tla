------------------------ MODULE BinaryGenerator_proofs -------------------------
(***************************************************************************)
(* Proofs about the binary generator, for every set of values, whatever    *)
(* they are, and every checksum.                                           *)
(***************************************************************************)
EXTENDS BinaryGenerator, Stacks

-----------------------------------------------------------------------------
(***************************************************************************)
(* The inductive invariant, over any table, map and frames.                *)
(***************************************************************************)
Places(table) == 0 .. Len(table) - 1

(* A lookup that is put off finds its key; a container that a slot found   *)
(* behind place from is there.                                             *)
SlotOK(slot, from, keys, table) ==
  /\ slot.slot = "Find" => slot.key \in keys
  /\ slot.slot = "Fixed" =>
       slot.index > from /\ slot.index \in Places(table) /\ table[slot.index + 1].tag # "scalar"

SlotsOK(slots, from, keys, table) == \A k \in DOMAIN slots : SlotOK(slots[k], from, keys, table)

EntryOK(e) == e.tag # "scalar" => e = Container(e.tag, e.refs)

TableOK(table, keys) ==
  /\ IsSequence(table)
  /\ \A p \in 1 .. Len(table) : EntryOK(table[p]) /\ SlotsOK(RefsOf(table[p]), p - 1, keys, table)

IsCall(f) == f = [index |-> f.index, todo |-> f.todo, slots |-> f.slots] /\ IsSequence(f.slots)

(* An open call fills a container, and one inside it is of a later one.    *)
CallOK(f, keys, table) ==
  /\ IsCall(f)
  /\ f.index \in Places(table) /\ table[f.index + 1].tag # "scalar"
  /\ SlotsOK(f.slots, f.index, keys, table)

CallsOK(calls, keys, table) ==
  /\ IsSequence(calls)
  /\ \A d \in 1 .. Len(calls) : CallOK(calls[d], keys, table)
  /\ \A d, e \in 1 .. Len(calls) : d < e => calls[d].index < calls[e].index

MapOK(map, table) ==
  \A key \in DOMAIN map :
    /\ map[key] \in Places(table)
    /\ table[map[key] + 1].tag = "scalar" /\ UniqueKey(table[map[key] + 1].value) = key

(* What is uniqued is in the map, which is why it is not appended again.   *)
UniqueOK(table, keys) ==
  /\ \A p \in 1 .. Len(table) : ~ Repeatable(table[p]) => UniqueKey(table[p].value) \in keys
  /\ \A p, q \in 1 .. Len(table) :
       p < q /\ ~ Repeatable(table[p]) /\ ~ Repeatable(table[q]) =>
         UniqueKey(table[p].value) # UniqueKey(table[q].value)

IInv ==
  /\ CallsOK(frames, DOMAIN objmap, objtable)
  /\ TableOK(objtable, DOMAIN objmap)
  /\ MapOK(objmap, objtable)
  /\ UniqueOK(objtable, DOMAIN objmap)
  /\ \A slot \in rootSlot : SlotOK(slot, -1, DOMAIN objmap, objtable)

-----------------------------------------------------------------------------
(***************************************************************************)
(* A table that grows, with more keys, keeps what was sound.               *)
(***************************************************************************)
Grows(table, keys, table2, keys2) ==
  /\ IsSequence(table) /\ IsSequence(table2) /\ keys \subseteq keys2
  /\ Len(table) <= Len(table2)
  /\ \A p \in 1 .. Len(table) : table2[p].tag = table[p].tag

LEMMA PlacesGrow ==
  ASSUME NEW table, NEW keys, NEW table2, NEW keys2, Grows(table, keys, table2, keys2), NEW i \in Places(table)
  PROVE  i \in Places(table2) /\ table2[i + 1].tag = table[i + 1].tag
<1> PICK n \in Nat : n = Len(table) /\ IsSequence(table)
  BY SequenceFacts DEF Grows
<1> PICK m \in Nat : m = Len(table2) /\ IsSequence(table2)
  BY SequenceFacts DEF Grows
<1>1. n <= m /\ i \in 0 .. n - 1
  BY DEF Grows, Places
<1>2. i \in 0 .. m - 1 /\ i + 1 \in 1 .. n
  BY <1>1
<1> QED BY <1>2 DEF Grows, Places

LEMMA SlotsGrow ==
  ASSUME NEW table, NEW keys, NEW table2, NEW keys2, Grows(table, keys, table2, keys2),
         NEW from, NEW slots, SlotsOK(slots, from, keys, table)
  PROVE  SlotsOK(slots, from, keys2, table2)
<1>1. ASSUME NEW slot, SlotOK(slot, from, keys, table) PROVE SlotOK(slot, from, keys2, table2)
  <2>1. slot.slot = "Find" => slot.key \in keys2
    BY <1>1 DEF SlotOK, Grows
  <2>2. ASSUME slot.slot = "Fixed"
        PROVE  slot.index > from /\ slot.index \in Places(table2) /\ table2[slot.index + 1].tag # "scalar"
    <3>1. slot.index > from /\ slot.index \in Places(table) /\ table[slot.index + 1].tag # "scalar"
      BY <1>1, <2>2 DEF SlotOK
    <3> QED BY <3>1, PlacesGrow
  <2> QED BY <2>1, <2>2 DEF SlotOK
<1> QED BY <1>1 DEF SlotsOK

LEMMA CallsGrow ==
  ASSUME NEW table, NEW keys, NEW table2, NEW keys2, Grows(table, keys, table2, keys2),
         NEW calls, CallsOK(calls, keys, table)
  PROVE  CallsOK(calls, keys2, table2)
<1>1. ASSUME NEW d \in 1 .. Len(calls) PROVE CallOK(calls[d], keys2, table2)
  <2>1. CallOK(calls[d], keys, table)
    BY DEF CallsOK
  <2>2. calls[d].index \in Places(table2) /\ table2[calls[d].index + 1].tag # "scalar"
    BY <2>1, PlacesGrow DEF CallOK
  <2>3. SlotsOK(calls[d].slots, calls[d].index, keys2, table2)
    BY <2>1, SlotsGrow DEF CallOK
  <2> QED BY <2>1, <2>2, <2>3 DEF CallOK
<1> QED BY <1>1 DEF CallsOK

(* An entry is appended that refers to nothing.                            *)
LEMMA TableExtended ==
  ASSUME NEW table, NEW keys, NEW keys2, keys \subseteq keys2, TableOK(table, keys),
         NEW e, EntryOK(e), RefsOf(e) = << >>
  PROVE  /\ Grows(table, keys, Extended(table, e), keys2)
         /\ TableOK(Extended(table, e), keys2)
         /\ Len(table) \in Places(Extended(table, e))
         /\ Extended(table, e)[Len(table) + 1] = e
<1> PICK n \in Nat : n = Len(table) /\ IsSequence(table)
  BY SequenceFacts DEF TableOK
<1> PICK table2 : table2 = Extended(table, e)
  OBVIOUS
<1>1. /\ IsSequence(table2) /\ Len(table2) = n + 1 /\ table2[n + 1] = e
      /\ \A p \in 1 .. n : table2[p] = table[p]
  BY AppendSequence
<1>2. Grows(table, keys, table2, keys2)
  BY <1>1 DEF Grows
<1>3. ASSUME NEW p \in 1 .. n + 1
      PROVE  EntryOK(table2[p]) /\ SlotsOK(RefsOf(table2[p]), p - 1, keys2, table2)
  <2>1. CASE p \in 1 .. n
    <3>1. table2[p] = table[p] /\ EntryOK(table[p]) /\ SlotsOK(RefsOf(table[p]), p - 1, keys, table)
      BY <1>1, <2>1 DEF TableOK
    <3>2. SlotsOK(RefsOf(table[p]), p - 1, keys2, table2)
      BY <1>2, <3>1, SlotsGrow
    <3> QED BY <3>1, <3>2
  <2>2. CASE p = n + 1
    <3>1. DOMAIN RefsOf(e) = {}
      OBVIOUS
    <3> QED BY <1>1, <2>2, <3>1 DEF SlotsOK
  <2> QED BY <2>1, <2>2
<1>4. TableOK(table2, keys2)
  BY <1>1, <1>3 DEF TableOK
<1>5. n \in Places(table2)
  BY <1>1 DEF Places
<1> QED BY <1>1, <1>2, <1>4, <1>5

(* A key bound to the entry that is appended.                              *)
Bound(map, key, n) == [k \in DOMAIN map \cup {key} |-> IF k = key THEN n ELSE map[k]]

LEMMA MapBound ==
  ASSUME NEW table, IsSequence(table), NEW map, MapOK(map, table),
         NEW e, e.tag = "scalar", NEW key, UniqueKey(e.value) = key
  PROVE  MapOK(Bound(map, key, Len(table)), Extended(table, e))
<1> PICK n \in Nat : n = Len(table)
  BY SequenceFacts
<1> PICK table2 : table2 = Extended(table, e)
  OBVIOUS
<1>1. Len(table2) = n + 1 /\ table2[n + 1] = e /\ \A p \in 1 .. n : table2[p] = table[p]
  BY AppendSequence
<1> PICK map2 : map2 = Bound(map, key, n)
  OBVIOUS
<1>2. DOMAIN map2 = DOMAIN map \cup {key} /\ \A k \in DOMAIN map2 : map2[k] = IF k = key THEN n ELSE map[k]
  BY DEF Bound
<1>3. ASSUME NEW k \in DOMAIN map2
      PROVE  /\ map2[k] \in Places(table2) /\ table2[map2[k] + 1].tag = "scalar"
             /\ UniqueKey(table2[map2[k] + 1].value) = k
  <2>1. CASE k = key
    <3>1. map2[k] = n /\ table2[map2[k] + 1] = e /\ n \in 0 .. n
      BY <1>1, <1>2, <2>1
    <3> QED BY <1>1, <2>1, <3>1 DEF Places
  <2>2. CASE k # key
    <3>1. map2[k] = map[k] /\ k \in DOMAIN map
      BY <1>2, <2>2
    <3>2. map[k] \in 0 .. n - 1 /\ table[map[k] + 1].tag = "scalar" /\ UniqueKey(table[map[k] + 1].value) = k
      BY <3>1 DEF MapOK, Places
    <3>3. map[k] \in 0 .. n /\ table2[map[k] + 1] = table[map[k] + 1]
      BY <1>1, <3>2
    <3> QED BY <1>1, <3>1, <3>2, <3>3 DEF Places
  <2> QED BY <2>1, <2>2
<1> QED BY <1>3 DEF MapOK

LEMMA MapGrows ==
  ASSUME NEW table, NEW table2, IsSequence(table), IsSequence(table2), Len(table) <= Len(table2),
         NEW map, MapOK(map, table),
         \A p \in 1 .. Len(table) : table[p].tag = "scalar" => table2[p] = table[p]
  PROVE  MapOK(map, table2)
<1> PICK n \in Nat, m \in Nat : n = Len(table) /\ m = Len(table2)
  BY SequenceFacts
<1>1. ASSUME NEW k \in DOMAIN map
      PROVE  /\ map[k] \in Places(table2) /\ table2[map[k] + 1].tag = "scalar"
             /\ UniqueKey(table2[map[k] + 1].value) = k
  <2>1. map[k] \in 0 .. n - 1 /\ table[map[k] + 1].tag = "scalar" /\ UniqueKey(table[map[k] + 1].value) = k
    BY DEF MapOK, Places
  <2>2. map[k] \in 0 .. m - 1 /\ map[k] + 1 \in 1 .. n
    BY <2>1
  <2>3. table2[map[k] + 1] = table[map[k] + 1]
    BY <2>1, <2>2
  <2> QED BY <2>1, <2>2, <2>3 DEF Places
<1> QED BY <1>1 DEF MapOK

(* An entry is appended that may occur twice, or whose key is new.         *)
LEMMA UniqueExtended ==
  ASSUME NEW table, IsSequence(table), NEW keys, NEW keys2, keys \subseteq keys2, UniqueOK(table, keys), NEW e,
         ~ Repeatable(e) => UniqueKey(e.value) \in keys2 /\ UniqueKey(e.value) \notin keys
  PROVE  UniqueOK(Extended(table, e), keys2)
<1> PICK n \in Nat : n = Len(table)
  BY SequenceFacts
<1> PICK table2 : table2 = Extended(table, e)
  OBVIOUS
<1>1. Len(table2) = n + 1 /\ table2[n + 1] = e /\ \A p \in 1 .. n : table2[p] = table[p]
  BY AppendSequence
<1>2. ASSUME NEW p \in 1 .. n, ~ Repeatable(table[p])
      PROVE  UniqueKey(table[p].value) \in keys
  BY <1>2 DEF UniqueOK
<1>3. ASSUME NEW p \in 1 .. n + 1, ~ Repeatable(table2[p])
      PROVE  UniqueKey(table2[p].value) \in keys2
  <2>1. CASE p \in 1 .. n
    BY <1>1, <1>2, <1>3, <2>1
  <2>2. CASE p = n + 1
    BY <1>1, <1>3, <2>2
  <2> QED BY <2>1, <2>2
<1>4. ASSUME NEW p \in 1 .. n + 1, NEW q \in 1 .. n + 1, p < q, ~ Repeatable(table2[p]), ~ Repeatable(table2[q])
      PROVE  UniqueKey(table2[p].value) # UniqueKey(table2[q].value)
  <2>1. p \in 1 .. n /\ table2[p] = table[p]
    BY <1>1, <1>4
  <2>2. CASE q \in 1 .. n
    BY <1>1, <1>4, <2>1, <2>2 DEF UniqueOK
  <2>3. CASE q = n + 1
    <3>1. UniqueKey(table[p].value) \in keys
      BY <1>2, <1>4, <2>1
    <3>2. table2[q] = e
      BY <1>1, <2>3
    <3> QED BY <1>4, <2>1, <3>1, <3>2
  <2> QED BY <2>2, <2>3
<1> QED BY <1>1, <1>3, <1>4 DEF UniqueOK

-----------------------------------------------------------------------------
(***************************************************************************)
(* The slot goes to the call around it.                                    *)
(***************************************************************************)
LEMMA CallChanged ==
  ASSUME NEW index, NEW todo, NEW given, NEW f, f = [index |-> index, todo |-> todo, slots |-> given],
         NEW todo2, NEW given2
  PROVE  [f EXCEPT !.todo = todo2, !.slots = given2] = [index |-> index, todo |-> todo2, slots |-> given2]
<1>1. [f EXCEPT !.todo = todo2, !.slots = given2] = [[f EXCEPT !.todo = todo2] EXCEPT !.slots = given2]
  OBVIOUS
<1>2. [f EXCEPT !.todo = todo2] = [index |-> index, todo |-> todo2, slots |-> given]
  OBVIOUS
<1>3. ASSUME NEW g, g = [index |-> index, todo |-> todo2, slots |-> given]
      PROVE  [g EXCEPT !.slots = given2] = [index |-> index, todo |-> todo2, slots |-> given2]
  BY <1>3
<1> QED BY <1>1, <1>2, <1>3

LEMMA Given ==
  ASSUME NEW outer, NEW slot, Give(outer, slot), NEW keys, NEW table, CallsOK(outer, keys, table),
         outer # << >> => SlotOK(slot, outer[Len(outer)].index, keys, table), SlotOK(slot, -1, keys, table),
         \A s \in rootSlot : SlotOK(s, -1, keys, table)
  PROVE  CallsOK(frames', keys, table) /\ \A s \in rootSlot' : SlotOK(s, -1, keys, table)
<1>1. CASE outer = << >>
  BY <1>1 DEF Give
<1>2. CASE outer # << >>
  <2> PICK n \in Nat \ {0} : n = Len(outer) /\ IsSequence(outer)
    BY <1>2, SequenceFacts DEF CallsOK
  <2> PICK f : f = outer[n]
    OBVIOUS
  <2> PICK slots : slots = Extended(f.slots, slot)
    OBVIOUS
  <2> PICK g : g = Filled(f, slot)
    OBVIOUS
  <2>1. frames' = Replaced(outer, g) /\ rootSlot' = rootSlot
    <3>1. frames' = [outer EXCEPT ![Len(outer)] = Filled(outer[Len(outer)], slot)] /\ rootSlot' = rootSlot
      BY <1>2 DEF Give
    <3>2. frames' = Replaced(outer, Filled(outer[Len(outer)], slot))
      BY <3>1 DEF Replaced
    <3> QED BY <3>1, <3>2
  <2>2. n \in 1 .. n /\ CallOK(f, keys, table)
    BY DEF CallsOK
  <2>3. g.index = f.index /\ g.slots = slots /\ g = [index |-> g.index, todo |-> g.todo, slots |-> g.slots]
    <3>1. ASSUME NEW index, NEW todo, NEW given, f = [index |-> index, todo |-> todo, slots |-> given]
          PROVE  g = [index |-> index, todo |-> Tail(f.todo), slots |-> slots] /\ f.index = index
      <4>1. f.todo = todo /\ f.slots = given /\ f.index = index
        BY <3>1
      <4>2. slots = Append(given, slot)
        BY <4>1 DEF Extended
      <4>3. g = [f EXCEPT !.todo = Tail(f.todo), !.slots = Append(f.slots, slot)]
        BY DEF Filled
      <4>4. g = [f EXCEPT !.todo = Tail(todo), !.slots = Append(given, slot)]
        BY <4>1, <4>3
      <4> QED BY <3>1, <4>1, <4>2, <4>4, CallChanged
    <3>2. f = [index |-> f.index, todo |-> f.todo, slots |-> f.slots]
      BY <2>2 DEF CallOK, IsCall
    <3>3. g = [index |-> f.index, todo |-> Tail(f.todo), slots |-> slots]
      BY <3>1, <3>2
    <3> QED BY <3>3
  <2>4. IsSequence(slots) /\ SlotsOK(slots, f.index, keys, table)
    <3> PICK m \in Nat : m = Len(f.slots) /\ IsSequence(f.slots) /\ DOMAIN f.slots = 1 .. m
      BY <2>2, SequenceFacts DEF CallOK, IsCall
    <3>1. /\ IsSequence(slots) /\ Len(slots) = m + 1 /\ slots[m + 1] = slot
          /\ \A k \in 1 .. m : slots[k] = f.slots[k]
      BY AppendSequence
    <3>2. DOMAIN slots = 1 .. m + 1
      BY <3>1, SequenceFacts
    <3>3. ASSUME NEW k \in 1 .. m + 1 PROVE SlotOK(slots[k], f.index, keys, table)
      <4>1. CASE k \in 1 .. m
        BY <2>2, <3>1, <4>1 DEF CallOK, SlotsOK
      <4>2. CASE k = m + 1
        BY <1>2, <3>1, <4>2
      <4> QED BY <4>1, <4>2
    <3> QED BY <3>1, <3>2, <3>3 DEF SlotsOK
  <2>5. CallOK(g, keys, table)
    BY <2>2, <2>3, <2>4 DEF CallOK, IsCall
  <2>6. /\ IsSequence(frames') /\ Len(frames') = n /\ frames'[n] = g
        /\ \A d \in 1 .. n : d # n => frames'[d] = outer[d]
    BY <1>2, <2>1, ReplaceLast
  <2>7. ASSUME NEW d \in 1 .. n PROVE CallOK(frames'[d], keys, table) /\ frames'[d].index = outer[d].index
    <3>1. CASE d = n
      BY <2>3, <2>5, <2>6, <3>1
    <3>2. CASE d # n
      BY <2>6, <3>2 DEF CallsOK
    <3> QED BY <3>1, <3>2
  <2>8. \A d, e \in 1 .. n : d < e => frames'[d].index < frames'[e].index
    BY <2>7 DEF CallsOK
  <2>9. CallsOK(frames', keys, table)
    BY <2>6, <2>7, <2>8 DEF CallsOK
  <2> QED BY <2>1, <2>9
<1> QED BY <1>1, <1>2

-----------------------------------------------------------------------------
(***************************************************************************)
(* The actions.                                                            *)
(***************************************************************************)
LEMMA LeafFacts ==
  ASSUME NEW v
  PROVE  /\ EntryOK(Leaf(v)) /\ RefsOf(Leaf(v)) = << >> /\ Leaf(v).tag = "scalar" /\ Leaf(v).value = v
BY DEF EntryOK, RefsOf, Leaf

LEMMA SlotKinds ==
  ASSUME NEW keys, NEW table, NEW from, NEW key, NEW index
  PROVE  /\ SlotOK(Missing, from, keys, table)
         /\ key \in keys => SlotOK(Find(key), from, keys, table)
         /\ index > from /\ index \in Places(table) /\ table[index + 1].tag # "scalar" =>
              SlotOK(Fixed(index), from, keys, table)
BY DEF SlotOK, Missing, Find, Fixed

LEMMA RootGrows ==
  ASSUME NEW table, NEW keys, NEW table2, NEW keys2, Grows(table, keys, table2, keys2),
         NEW S, \A slot \in S : SlotOK(slot, -1, keys, table)
  PROVE  \A slot \in S : SlotOK(slot, -1, keys2, table2)
<1> TAKE slot \in S
<1>1. SlotsOK([k \in {1} |-> slot], -1, keys, table)
  BY DEF SlotsOK
<1>2. SlotsOK([k \in {1} |-> slot], -1, keys2, table2)
  BY <1>1, SlotsGrow
<1> QED BY <1>2 DEF SlotsOK

(* A scalar that is put in the table, found by a key or by nothing.        *)
LEMMA LeafAppended ==
  ASSUME IInv, NEW v, objtable' = Extended(objtable, Leaf(v)), NEW slot, Give(frames, slot),
         \/ /\ objmap' = Bound(objmap, UniqueKey(v), Len(objtable)) /\ slot = Find(UniqueKey(v))
            /\ Repeatable(Leaf(v)) \/ UniqueKey(v) \notin DOMAIN objmap
         \/ objmap' = objmap /\ slot = Missing /\ Repeatable(Leaf(v))
  PROVE  IInv'
<1>1. DOMAIN objmap \subseteq DOMAIN objmap' /\ (slot = Find(UniqueKey(v)) => UniqueKey(v) \in DOMAIN objmap')
  <2>1. CASE objmap' = Bound(objmap, UniqueKey(v), Len(objtable))
    <3>1. DOMAIN objmap' = DOMAIN objmap \cup {UniqueKey(v)}
      BY <2>1 DEF Bound
    <3> QED BY <3>1
  <2>2. CASE objmap' = objmap /\ slot = Missing
    <3>1. slot # Find(UniqueKey(v))
      BY <2>2 DEF Missing, Find
    <3> QED BY <2>2, <3>1
  <2> QED BY <2>1, <2>2
<1>2. TableOK(objtable, DOMAIN objmap) /\ IsSequence(objtable)
  BY DEF IInv, TableOK
<1>3. Grows(objtable, DOMAIN objmap, objtable', DOMAIN objmap') /\ TableOK(objtable', DOMAIN objmap')
  BY <1>1, <1>2, LeafFacts, TableExtended
<1>4. CallsOK(frames, DOMAIN objmap', objtable')
  BY <1>3, CallsGrow DEF IInv
<1>5. \A s \in rootSlot : SlotOK(s, -1, DOMAIN objmap', objtable')
  BY <1>3, RootGrows DEF IInv
<1>6. \A from : SlotOK(slot, from, DOMAIN objmap', objtable')
  BY <1>1, SlotKinds
<1>7. CallsOK(frames', DOMAIN objmap', objtable') /\ \A s \in rootSlot' : SlotOK(s, -1, DOMAIN objmap', objtable')
  BY <1>4, <1>5, <1>6, Given
<1>8. MapOK(objmap', objtable')
  <2>1. CASE objmap' = Bound(objmap, UniqueKey(v), Len(objtable))
    BY <1>2, <2>1, LeafFacts, MapBound DEF IInv
  <2>2. CASE objmap' = objmap
    <3> PICK n \in Nat : n = Len(objtable)
      BY <1>2, SequenceFacts
    <3>1. IsSequence(objtable') /\ Len(objtable') = n + 1 /\ \A p \in 1 .. n : objtable'[p] = objtable[p]
      BY <1>2, AppendSequence
    <3>2. Len(objtable) <= Len(objtable')
      BY <3>1
    <3> QED BY <1>2, <2>2, <3>1, <3>2, MapGrows DEF IInv
  <2> QED BY <2>1, <2>2
<1>9. UniqueOK(objtable', DOMAIN objmap')
  <2>1. ~ Repeatable(Leaf(v)) => UniqueKey(v) \in DOMAIN objmap' /\ UniqueKey(v) \notin DOMAIN objmap
    BY <1>1
  <2> QED BY <1>1, <1>2, <2>1, LeafFacts, UniqueExtended DEF IInv
<1> QED BY <1>3, <1>7, <1>8, <1>9 DEF IInv

LEMMA FlattenUniqueIInv ==
  ASSUME IInv, FlattenUnique
  PROVE  IInv'
<1> PICK v : v = Current
  OBVIOUS
<1>1. Give(frames, Find(UniqueKey(v)))
  BY DEF FlattenUnique
<1>2. CASE UniqueKey(v) \in DOMAIN objmap
  <2>1. UNCHANGED <<objmap, objtable>>
    BY <1>2 DEF FlattenUnique
  <2>2. \A from : SlotOK(Find(UniqueKey(v)), from, DOMAIN objmap, objtable)
    BY <1>2, SlotKinds
  <2>3. /\ CallsOK(frames', DOMAIN objmap, objtable)
        /\ \A s \in rootSlot' : SlotOK(s, -1, DOMAIN objmap, objtable)
    BY <1>1, <2>2, Given DEF IInv
  <2> QED BY <2>1, <2>3 DEF IInv
<1>3. CASE UniqueKey(v) \notin DOMAIN objmap
  <2>1. objtable' = Extended(objtable, Leaf(v)) /\ objmap' = Bound(objmap, UniqueKey(v), Len(objtable))
    BY <1>3 DEF FlattenUnique, Bind, Bound, Extended
  <2> QED BY <1>1, <1>3, <2>1, LeafAppended
<1> QED BY <1>2, <1>3

LEMMA FlattenOverwriteIInv ==
  ASSUME IInv, FlattenOverwrite
  PROVE  IInv'
<1> PICK v : v = Current
  OBVIOUS
<1>1. /\ Give(frames, Find(UniqueKey(v))) /\ objtable' = Extended(objtable, Leaf(v))
      /\ objmap' = Bound(objmap, UniqueKey(v), Len(objtable)) /\ LastWins(v)
  BY DEF FlattenOverwrite, Bind, Bound, Extended
<1>2. Repeatable(Leaf(v))
  BY <1>1, LeafFacts DEF Repeatable
<1> QED BY <1>1, <1>2, LeafAppended

LEMMA FlattenNaNIInv ==
  ASSUME IInv, FlattenNaN
  PROVE  IInv'
<1> PICK v : v = Current
  OBVIOUS
<1>1. Give(frames, Missing) /\ objtable' = Extended(objtable, Leaf(v)) /\ objmap' = objmap /\ IsNaN(v)
  BY DEF FlattenNaN, Extended
<1>2. Repeatable(Leaf(v))
  BY <1>1, LeafFacts DEF Repeatable
<1> QED BY <1>1, <1>2, LeafAppended

(* A container gets its place before its parts, and behind every open one. *)
LEMMA OpenContainerIInv ==
  ASSUME IInv, OpenContainer
  PROVE  IInv'
<1> PICK v : v = Current
  OBVIOUS
<1> PICK e : e = Container(v.type, << >>)
  OBVIOUS
<1> PICK n \in Nat : n = Len(objtable) /\ IsSequence(objtable)
  BY SequenceFacts DEF IInv, TableOK
<1> PICK f : f = [index |-> n, todo |-> Parts(v), slots |-> << >>]
  OBVIOUS
<1> PICK c \in Nat : c = Len(frames) /\ IsSequence(frames)
  BY SequenceFacts DEF IInv, CallsOK
<1>1. objtable' = Extended(objtable, e) /\ frames' = Extended(frames, f) /\ UNCHANGED <<objmap, rootSlot>> /\ IsHolder(v)
  BY DEF OpenContainer, Extended
<1>2. e.tag # "scalar" /\ EntryOK(e) /\ RefsOf(e) = << >> /\ Repeatable(e)
  BY <1>1 DEF Container, IsHolder, EntryOK, RefsOf, Repeatable
<1>3. /\ Grows(objtable, DOMAIN objmap, objtable', DOMAIN objmap') /\ TableOK(objtable', DOMAIN objmap')
      /\ n \in Places(objtable') /\ objtable'[n + 1] = e
  BY <1>1, <1>2, TableExtended DEF IInv
<1>4. CallsOK(frames, DOMAIN objmap', objtable')
  BY <1>3, CallsGrow DEF IInv
<1>5. \A s \in rootSlot' : SlotOK(s, -1, DOMAIN objmap', objtable')
  BY <1>1, <1>3, RootGrows DEF IInv
<1>6. CallOK(f, DOMAIN objmap', objtable')
  <2>1. IsSequence(<< >>) /\ DOMAIN << >> = {}
    BY EmptySequence
  <2>2. IsCall(f) /\ f.index = n /\ f.slots = << >>
    BY <2>1 DEF IsCall
  <2>3. SlotsOK(f.slots, f.index, DOMAIN objmap', objtable')
    BY <2>1, <2>2 DEF SlotsOK
  <2> QED BY <1>2, <1>3, <2>2, <2>3 DEF CallOK
<1>7. /\ IsSequence(frames') /\ Len(frames') = c + 1 /\ frames'[c + 1] = f
      /\ \A d \in 1 .. c : frames'[d] = frames[d]
  BY <1>1, AppendSequence
<1>8. \A d \in 1 .. c : frames[d].index < n /\ frames[d].index \in Int
  BY DEF IInv, CallsOK, CallOK, Places
<1>9. ASSUME NEW d \in 1 .. c + 1 PROVE CallOK(frames'[d], DOMAIN objmap', objtable')
  <2>1. CASE d \in 1 .. c
    BY <1>4, <1>7, <2>1 DEF CallsOK
  <2>2. CASE d = c + 1
    BY <1>6, <1>7, <2>2
  <2> QED BY <2>1, <2>2
<1>10. ASSUME NEW d \in 1 .. c + 1, NEW g \in 1 .. c + 1, d < g
       PROVE  frames'[d].index < frames'[g].index
  <2>1. d \in 1 .. c /\ frames'[d] = frames[d]
    BY <1>7, <1>10
  <2>2. CASE g \in 1 .. c
    BY <1>4, <1>7, <1>10, <2>1, <2>2 DEF CallsOK
  <2>3. CASE g = c + 1
    <3>1. frames'[g].index = n
      BY <1>7, <2>3
    <3> QED BY <1>8, <2>1, <3>1
  <2> QED BY <2>2, <2>3
<1>11. CallsOK(frames', DOMAIN objmap', objtable')
  BY <1>7, <1>9, <1>10 DEF CallsOK
<1>12. MapOK(objmap', objtable')
  <2>1. IsSequence(objtable') /\ Len(objtable') = n + 1 /\ \A p \in 1 .. n : objtable'[p] = objtable[p]
    BY <1>1, AppendSequence
  <2>2. Len(objtable) <= Len(objtable')
    BY <2>1
  <2> QED BY <1>1, <2>1, <2>2, MapGrows DEF IInv
<1>13. UniqueOK(objtable', DOMAIN objmap')
  BY <1>1, <1>2, UniqueExtended DEF IInv
<1> QED BY <1>3, <1>5, <1>11, <1>12, <1>13 DEF IInv

(* The references of a container are what its call has collected, all of   *)
(* them behind it; the container itself is behind the one around it.       *)
LEMMA CloseContainerIInv ==
  ASSUME IInv, CloseContainer
  PROVE  IInv'
<1> PICK c \in Nat \ {0} : c = Len(frames) /\ IsSequence(frames)
  BY SequenceFacts DEF IInv, CallsOK, CloseContainer
<1> PICK f : f = frames[c]
  OBVIOUS
<1> PICK i : i = f.index
  OBVIOUS
<1> PICK n \in Nat : n = Len(objtable) /\ IsSequence(objtable) /\ DOMAIN objtable = 1 .. n
  BY SequenceFacts DEF IInv, TableOK
<1> PICK outer : outer = Popped(frames)
  OBVIOUS
<1>1. Give(outer, Fixed(i)) /\ objmap' = objmap /\ frames # << >>
  BY DEF CloseContainer, Top, Popped
<1>2. c \in 1 .. c /\ CallOK(f, DOMAIN objmap, objtable)
  BY DEF IInv, CallsOK
<1>3. i \in 0 .. n - 1 /\ i + 1 \in 1 .. n /\ objtable[i + 1].tag # "scalar"
  BY <1>2 DEF CallOK, Places
<1>4. PICK e : /\ objtable' = Changed(objtable, i + 1, e)
                /\ e = Container(e.tag, e.refs) /\ e.tag = objtable[i + 1].tag /\ e.refs = f.slots
  <2>1. objtable' = Changed(objtable, i + 1, [objtable[i + 1] EXCEPT !.refs = f.slots])
    BY DEF CloseContainer, Top, Changed
  <2>2. objtable[i + 1] = Container(objtable[i + 1].tag, objtable[i + 1].refs)
    BY <1>3 DEF IInv, TableOK, EntryOK
  <2>3. ASSUME NEW e, NEW tag, NEW refs, objtable[i + 1] = [tag |-> tag, refs |-> refs],
               e = [objtable[i + 1] EXCEPT !.refs = f.slots]
        PROVE  e = [tag |-> tag, refs |-> f.slots] /\ objtable[i + 1].tag = tag
    BY <2>3
  <2>4. ASSUME NEW e, e = [objtable[i + 1] EXCEPT !.refs = f.slots]
        PROVE  e = Container(e.tag, e.refs) /\ e.tag = objtable[i + 1].tag /\ e.refs = f.slots
    BY <2>2, <2>3, <2>4 DEF Container
  <2> QED BY <2>1, <2>4
<1>5. /\ IsSequence(objtable') /\ Len(objtable') = n /\ objtable'[i + 1] = e
      /\ \A p \in 1 .. n : p # i + 1 => objtable'[p] = objtable[p]
  BY <1>3, <1>4, ReplaceAny
<1>6. Grows(objtable, DOMAIN objmap, objtable', DOMAIN objmap)
  <2>1. \A p \in 1 .. n : objtable'[p].tag = objtable[p].tag
    BY <1>4, <1>5
  <2>2. n <= n
    OBVIOUS
  <2> QED BY <1>5, <2>1, <2>2 DEF Grows
<1>7. TableOK(objtable', DOMAIN objmap)
  <2>1. ASSUME NEW p \in 1 .. n
        PROVE  EntryOK(objtable'[p]) /\ SlotsOK(RefsOf(objtable'[p]), p - 1, DOMAIN objmap, objtable')
    <3>1. CASE p = i + 1
      <4>1. EntryOK(e) /\ RefsOf(e) = f.slots
        BY <1>3, <1>4 DEF EntryOK, RefsOf
      <4>2. SlotsOK(f.slots, i, DOMAIN objmap, objtable')
        BY <1>2, <1>6, SlotsGrow DEF CallOK
      <4>3. p - 1 = i
        BY <1>3, <3>1
      <4> QED BY <1>5, <3>1, <4>1, <4>2, <4>3
    <3>2. CASE p # i + 1
      <4>1. objtable'[p] = objtable[p] /\ EntryOK(objtable[p])
            /\ SlotsOK(RefsOf(objtable[p]), p - 1, DOMAIN objmap, objtable)
        BY <1>5, <3>2 DEF IInv, TableOK
      <4> QED BY <1>6, <4>1, SlotsGrow
    <3> QED BY <3>1, <3>2
  <2> QED BY <1>5, <2>1 DEF TableOK
<1>8. /\ IsSequence(outer) /\ Len(outer) = c - 1 /\ \A d \in 1 .. c - 1 : outer[d] = frames[d]
  BY <1>1, PopSequence
<1>9. CallsOK(outer, DOMAIN objmap, objtable')
  <2>1. CallsOK(frames, DOMAIN objmap, objtable')
    BY <1>6, CallsGrow DEF IInv
  <2>2. \A d \in 1 .. c - 1 : d \in 1 .. c
    OBVIOUS
  <2> QED BY <1>8, <2>1, <2>2 DEF CallsOK
<1>10. i \in Places(objtable') /\ objtable'[i + 1].tag # "scalar" /\ i > -1
  <2>1. objtable'[i + 1].tag # "scalar"
    BY <1>3, <1>4, <1>5
  <2>2. i \in 0 .. n - 1 /\ i > -1
    BY <1>3
  <2>3. i \in Places(objtable')
    BY <1>5, <2>2 DEF Places
  <2> QED BY <2>1, <2>2, <2>3
<1>11. outer # << >> => i > outer[Len(outer)].index
  <2> SUFFICES ASSUME outer # << >> PROVE i > outer[Len(outer)].index
    OBVIOUS
  <2>1. c - 1 \in 1 .. c /\ c - 1 < c /\ c - 1 \in 1 .. c - 1
    BY <1>8, SequenceFacts
  <2>2. frames[c - 1].index < frames[c].index
    BY <1>2, <2>1 DEF IInv, CallsOK
  <2>3. frames[c - 1].index \in Int
    BY <2>1 DEF IInv, CallsOK, CallOK, Places
  <2>4. outer[Len(outer)] = frames[c - 1]
    BY <1>8, <2>1
  <2> QED BY <1>3, <2>2, <2>3, <2>4
<1>12. /\ CallsOK(frames', DOMAIN objmap, objtable')
       /\ \A s \in rootSlot' : SlotOK(s, -1, DOMAIN objmap, objtable')
  <2>1. \A s \in rootSlot : SlotOK(s, -1, DOMAIN objmap, objtable')
    BY <1>6, RootGrows DEF IInv
  <2>2. SlotOK(Fixed(i), -1, DOMAIN objmap, objtable')
    BY <1>10, SlotKinds
  <2>3. outer # << >> => SlotOK(Fixed(i), outer[Len(outer)].index, DOMAIN objmap, objtable')
    BY <1>10, <1>11, SlotKinds
  <2>4. Give(outer, Fixed(i))
    BY <1>1
  <2> QED BY <1>9, <2>1, <2>2, <2>3, <2>4, Given
<1>13. MapOK(objmap, objtable')
  <2>1. \A p \in 1 .. n : objtable[p].tag = "scalar" => objtable'[p] = objtable[p]
    BY <1>3, <1>5
  <2> QED BY <1>5, <2>1, MapGrows DEF IInv
<1>14. UniqueOK(objtable', DOMAIN objmap)
  <2>1. ASSUME NEW p \in 1 .. n, ~ Repeatable(objtable'[p])
        PROVE  objtable'[p] = objtable[p]
    <3>1. Repeatable(e)
      BY <1>3, <1>4 DEF Repeatable
    <3> QED BY <1>5, <2>1, <3>1
  <2> QED BY <1>5, <2>1 DEF IInv, UniqueOK
<1> QED BY <1>1, <1>7, <1>12, <1>13, <1>14 DEF IInv

-----------------------------------------------------------------------------
(***************************************************************************)
(* Theorems.                                                               *)
(***************************************************************************)
(* The walk keeps the invariant (generator.rs:172-222).                    *)
THEOREM Invariance == Spec => []IInv
<1>1. Init => IInv
  <2> SUFFICES ASSUME Init PROVE IInv
    OBVIOUS
  <2>1. IsSequence(<< >>) /\ Len(<< >>) = 0 /\ DOMAIN << >> = {}
    BY EmptySequence
  <2>2. CallsOK(<< >>, {}, << >>) /\ TableOK(<< >>, {}) /\ MapOK(<< >>, << >>) /\ UniqueOK(<< >>, {})
    BY <2>1 DEF CallsOK, TableOK, MapOK, UniqueOK
  <2> QED BY <2>1, <2>2 DEF Init, IInv
<1>2. ASSUME IInv, [Next]_vars PROVE IInv'
  <2>1. CASE Write \/ UNCHANGED vars
    <3>1. UNCHANGED <<frames, objmap, objtable, rootSlot>>
      BY <2>1 DEF Write, vars
    <3> QED BY <1>2, <3>1 DEF IInv
  <2> QED BY <1>2, <2>1, FlattenUniqueIInv, FlattenOverwriteIInv, FlattenNaNIInv, OpenContainerIInv,
             CloseContainerIInv DEF Next
<1>3. IInv /\ [Next]_vars => IInv'
  BY <1>2
<1> QED BY <1>1, <1>3, PTL DEF Spec

(* Every lookup that was put off finds its object, which is the right one; *)
(* nothing that is uniqued is in the table twice; and no container is      *)
(* reached from itself (generator.rs:87-95, 172-222).                      *)
THEOREM TableCorrect == Spec => []TableFaithful
<1>1. IInv => TableFaithful
  <2> SUFFICES ASSUME IInv PROVE TableFaithful
    OBVIOUS
  <2> PICK n \in Nat : n = Len(objtable) /\ DOMAIN objtable = 1 .. n
    BY SequenceFacts DEF IInv, TableOK
  <2>1. UniquedOnce
    BY DEF IInv, UniqueOK, UniquedOnce
  <2>2. ContainersForward
    BY DEF IInv, TableOK, SlotsOK, SlotOK, Places, Indices, ContainersForward
  <2>3. ASSUME NEW slot \in Slots PROVE slot.slot = "Find" => slot.key \in DOMAIN objmap
    <3>1. CASE slot \in rootSlot
      BY <3>1 DEF IInv, SlotOK
    <3>2. ASSUME NEW p \in DOMAIN objtable, NEW k \in DOMAIN RefsOf(objtable[p]), slot = RefsOf(objtable[p])[k]
          PROVE  slot.slot = "Find" => slot.key \in DOMAIN objmap
      BY <3>2 DEF IInv, TableOK, SlotsOK, SlotOK
    <3>3. ASSUME NEW d \in DOMAIN frames, NEW k \in DOMAIN frames[d].slots, slot = frames[d].slots[k]
          PROVE  slot.slot = "Find" => slot.key \in DOMAIN objmap
      <4>1. DOMAIN frames = 1 .. Len(frames)
        BY SequenceFacts DEF IInv, CallsOK
      <4> QED BY <3>3, <4>1 DEF IInv, CallsOK, CallOK, SlotsOK, SlotOK
    <3>4. \/ slot \in rootSlot
          \/ \E p \in DOMAIN objtable : \E k \in DOMAIN RefsOf(objtable[p]) : slot = RefsOf(objtable[p])[k]
          \/ \E d \in DOMAIN frames : \E k \in DOMAIN frames[d].slots : slot = frames[d].slots[k]
      BY Zenon DEF Slots
    <3> QED BY <3>1, <3>2, <3>3, <3>4
  <2>4. LookupsFaithful
    BY <2>3 DEF IInv, MapOK, Places, Indices, LookupsFaithful
  <2> QED BY <2>1, <2>2, <2>4 DEF TableFaithful
<1> QED BY <1>1, Invariance, PTL

=============================================================================
