--------------------------- MODULE HandlesProofs ---------------------------
(***************************************************************************)
(* The two stores whose handles outlive what they name.  The free list is  *)
(* sound for every number of slots and of frees, loses no slot, and        *)
(* implements the handle store that freelist.rs documents.  The data store *)
(* follows the interner, and a scene finds its items in it, for every set  *)
(* of keys, every age and every number of items and scenes.                *)
(***************************************************************************)
EXTENDS FreeList, Interning, FiniteSetTheorems, WellFoundedInduction, TLAPS

-----------------------------------------------------------------------------
(* FreeList.                                                               *)

LEMMA NoWrap ==
  ASSUME NEW n \in Nat, NEW m \in Nat, n < m
  PROVE  n % m = n
  OBVIOUS

LEMMA InitSound == ListInit => ListTypeOK /\ FreeListInv
<1> SUFFICES ASSUME ListInit PROVE ListTypeOK /\ FreeListInv
  OBVIOUS
<1>1. ListTypeOK
  BY FreeListAssumption DEF ListInit, ListTypeOK, FirstSlot, Slot, SlotIndices, NoSlot
<1>2. FreeListInv
  BY FreeListAssumption
     DEF ListInit, FreeListInv, NoPanic, OneOwner, FreeListShape, EpochsFresh, FirstSlot,
         Occupied, HandleOf, Matches, NoSlot
<1> QED  BY <1>1, <1>2

(* insert gives the slot at the head of the list, or a new one, to a       *)
(* handle nobody had.                                                      *)
LEMMA InsertSound ==
  ASSUME ListTypeOK, FreeListInv, NEW v \in Values, Inserted(v), frees' = frees
  PROVE  ListTypeOK' /\ FreeListInv'
<1> USE FreeListAssumption DEF NoSlot
<1>1. CASE TakeFreeSlot(v)
  <2> DEFINE head == free_list_head
  <2> USE <1>1
  <2>1. /\ size \in 1..MaxSlots /\ MaxSlots \in Nat
        /\ head \in 0..(size - 1) /\ size' = size /\ found' = Nothing
        /\ slots' = [slots EXCEPT ![head] = [@ EXCEPT !.next = NoSlot, !.value = v]]
        /\ free_list_head' = slots[head].next
        /\ strong' = strong \cup {HandleOf(head)} /\ issued' = issued \cup {HandleOf(head)}
        /\ active_count' = active_count + 1
    BY DEF TakeFreeSlot, Inserted, Given, ListTypeOK
  <2>2. /\ slots[head] \in Slot /\ HandleOf(head) \in SlotHandle /\ head \in SlotIndices
    BY <2>1 DEF ListTypeOK, Slot, HandleOf, SlotHandle, SlotIndices
  <2>3. ~Occupied(head) /\ slots[head].next \in 0..(size - 1) \cup {NoSlot}
    BY <2>1, <2>2 DEF FreeListInv, FreeListShape, Slot, SlotIndices, ListTypeOK
  <2>4. /\ slots'[head] = [next |-> NoSlot, epoch |-> slots[head].epoch, value |-> v]
        /\ \A i \in 0..(size - 1) : i # head => slots'[i] = slots[i]
    BY <2>1, <2>2 DEF ListTypeOK, Slot
  <2>5. ListTypeOK'
    <3>1. slots' \in [0..(size - 1) -> Slot]
      BY <2>1, <2>2 DEF ListTypeOK, Slot
    <3> QED  BY <2>1, <2>2, <2>3, <3>1 DEF ListTypeOK
  <2>6. \A i \in 0..(size - 1) :
          /\ slots'[i].value # Nothing <=> Occupied(i) \/ i = head
          /\ slots'[i].epoch = slots[i].epoch
    BY <2>1, <2>4 DEF Occupied
  <2>7. OneOwner'
    <3>1. /\ HandleOf(head).index = head
          /\ \A k \in strong : /\ k.index \in 0..(size - 1) /\ Occupied(k.index)
                              /\ k = [index |-> k.index, epoch |-> slots[k.index].epoch]
          /\ \A i \in 0..(size - 1) :
               Occupied(i) => [index |-> i, epoch |-> slots[i].epoch] \in strong
      BY DEF OneOwner, FreeListInv, ListTypeOK, SlotHandle, SlotIndices, HandleOf
    <3>2. ASSUME NEW k \in strong'
          PROVE  /\ k.index < size' /\ slots'[k.index].value # Nothing
                 /\ k = [index |-> k.index, epoch |-> slots'[k.index].epoch]
      <4>1. k \in strong \/ k = HandleOf(head)
        BY <2>1, <3>2
      <4> QED  BY <2>1, <2>6, <3>1, <4>1 DEF HandleOf
    <3>3. ASSUME NEW i \in 0..(size' - 1), slots'[i].value # Nothing
          PROVE  [index |-> i, epoch |-> slots'[i].epoch] \in strong'
      BY <2>1, <2>6, <3>1, <3>3 DEF HandleOf
    <3> QED  BY <3>2, <3>3 DEF OneOwner, Occupied, HandleOf
  <2>8. FreeListShape'
    <3>1. \A i \in 0..(size - 1) : slots[i].next \in SlotIndices \cup {NoSlot}
      BY DEF ListTypeOK, Slot
    <3>2. \A i \in 0..(size - 1) : slots'[i].next = IF i = head THEN NoSlot ELSE slots[i].next
      BY <2>4, <2>1
    <3> QED  BY <2>1, <2>3, <2>6, <3>1, <3>2 DEF FreeListShape, FreeListInv, Occupied, SlotIndices
  <2>9. EpochsFresh'
    <3>1. \A i \in 0..(size - 1) : slots'[i].epoch = slots[i].epoch
      BY <2>6
    <3>2. slots[head].epoch \in 1..(frees + 1)
      BY <2>1 DEF FreeListInv, EpochsFresh
    <3>3. ASSUME NEW k \in issued'
          PROVE  /\ k.index < size' /\ k.epoch \in 1..slots'[k.index].epoch
                 /\ slots'[k.index].epoch = k.epoch => slots'[k.index].value # Nothing
      <4>1. CASE k \in issued
        <5>1. k.index \in 0..(size - 1) /\ k.epoch \in 1..slots[k.index].epoch
              /\ (slots[k.index].epoch = k.epoch => Occupied(k.index))
          BY <4>1 DEF FreeListInv, EpochsFresh, Matches, ListTypeOK, SlotHandle, SlotIndices
        <5> QED  BY <2>1, <2>6, <3>1, <5>1
      <4>2. CASE k = HandleOf(head)
        BY <2>1, <2>2, <2>6, <3>1, <3>2, <4>2 DEF HandleOf
      <4> QED  BY <2>1, <4>1, <4>2
    <3>4. \A i \in 0..(size' - 1) : slots'[i].epoch \in 1..(frees' + 1)
      BY <2>1, <3>1 DEF FreeListInv, EpochsFresh
    <3> QED  BY <3>3, <3>4 DEF EpochsFresh, Matches, Occupied
  <2> QED  BY <2>1, <2>5, <2>7, <2>8, <2>9 DEF FreeListInv, NoPanic
<1>2. CASE PushSlot(v)
  <2> DEFINE new == [index |-> size, epoch |-> 1]
  <2> USE <1>2
  <2>1. /\ size \in 1..MaxSlots /\ MaxSlots \in Nat /\ size < MaxSlots /\ size' = size + 1 /\ found' = Nothing
        /\ slots' = [i \in 0..size |-> IF i = size THEN [FirstSlot EXCEPT !.value = v] ELSE slots[i]]
        /\ free_list_head = NoSlot /\ free_list_head' = NoSlot
        /\ strong' = strong \cup {new} /\ issued' = issued \cup {new}
        /\ active_count' = active_count + 1
    BY DEF PushSlot, Inserted, Given, ListTypeOK
  <2>2. /\ slots'[size] = [next |-> NoSlot, epoch |-> 1, value |-> v]
        /\ \A i \in 0..(size - 1) : slots'[i] = slots[i]
    BY <2>1 DEF FirstSlot
  <2>3. ListTypeOK'
    <3>1. new \in SlotHandle
      BY <2>1 DEF SlotHandle, SlotIndices
    <3>2. slots' \in [0..size -> Slot]
      <4>1. ASSUME NEW i \in 0..size PROVE slots'[i] \in Slot
        <5>1. CASE i = size
          BY <2>2, <5>1 DEF Slot, ListTypeOK
        <5>2. CASE i # size
          <6>1. i \in 0..(size - 1)
            BY <2>1, <5>2
          <6> QED  BY <2>2, <6>1 DEF ListTypeOK
        <5> QED  BY <5>1, <5>2
      <4>2. \E f : slots' = [i \in 0..size |-> f[i]]
        BY <2>1
      <4> QED  BY <4>1, <4>2
    <3>3. size' - 1 = size
      BY <2>1
    <3>4. slots' \in [0..(size' - 1) -> Slot]
      BY <3>2, <3>3
    <3>5. strong' \subseteq SlotHandle /\ issued' \subseteq SlotHandle
      BY <2>1, <3>1 DEF ListTypeOK
    <3>6. /\ size' \in 1..MaxSlots /\ free_list_head' \in 0..(size' - 1) \cup {NoSlot}
          /\ active_count' \in Int /\ found' \in Values \cup {Nothing, Panic}
          /\ frees' \in 0..MaxFrees
      BY <2>1 DEF ListTypeOK
    <3> QED  BY <3>4, <3>5, <3>6 DEF ListTypeOK
  <2>4. v # Nothing
    OBVIOUS
  <2>5. Nothing # v /\ new.index = size /\ new.epoch = 1
    BY <2>4
  <2>6. OneOwner'
    <3>1. /\ \A k \in strong : /\ k.index \in 0..(size - 1) /\ Occupied(k.index)
                              /\ k = [index |-> k.index, epoch |-> slots[k.index].epoch]
          /\ \A i \in 0..(size - 1) :
               Occupied(i) => [index |-> i, epoch |-> slots[i].epoch] \in strong
      BY DEF OneOwner, FreeListInv, ListTypeOK, SlotHandle, SlotIndices, HandleOf
    <3>2. ASSUME NEW k \in strong'
          PROVE  /\ k.index < size' /\ slots'[k.index].value # Nothing
                 /\ k = [index |-> k.index, epoch |-> slots'[k.index].epoch]
      <4>1. k \in strong \/ (k = new /\ k.index = size)
        BY <2>1, <3>2
      <4> QED  BY <2>1, <2>2, <2>5, <3>1, <4>1 DEF Occupied
    <3>3. ASSUME NEW i \in 0..(size' - 1), slots'[i].value # Nothing
          PROVE  [index |-> i, epoch |-> slots'[i].epoch] \in strong'
      <4>1. i \in 0..(size - 1) \/ i = size
        BY <2>1
      <4> QED  BY <2>1, <2>2, <2>5, <3>1, <3>3, <4>1 DEF Occupied
    <3> QED  BY <3>2, <3>3 DEF OneOwner, Occupied, HandleOf
  <2>7. FreeListShape'
    <3>1. ASSUME NEW i \in 0..(size' - 1)
          PROVE  i \in 0..(size - 1) \/ (i = size /\ slots'[i].value # Nothing /\ slots'[i].next = NoSlot)
      BY <2>1, <2>2, <2>4
    <3>2. \A i \in 0..(size - 1) : slots[i].next \in Int
      BY DEF ListTypeOK, Slot, SlotIndices
    <3>3. ASSUME NEW i \in 0..(size' - 1), slots'[i].value = Nothing, slots'[i].next # NoSlot
          PROVE  /\ slots'[i].next < size' /\ slots'[slots'[i].next].value = Nothing
                 /\ slots'[i].next # NoSlot
                 /\ \A j \in 0..(size' - 1) :
                      slots'[j].value = Nothing /\ slots'[j].next = slots'[i].next => j = i
      <4> DEFINE succ == slots[i].next
      <4>1. i \in 0..(size - 1) /\ slots'[i] = slots[i]
        BY <2>2, <3>1, <3>3
      <4>2. /\ succ < size /\ slots[succ].value = Nothing
            /\ \A j \in 0..(size - 1) : slots[j].value = Nothing /\ slots[j].next = succ => j = i
        BY <3>3, <4>1 DEF FreeListShape, FreeListInv, Occupied
      <4>3. succ \in 0..(size - 1)
        BY <2>1, <3>3, <4>1, <4>2 DEF ListTypeOK, Slot, SlotIndices
      <4>4. slots'[succ].value = Nothing
        BY <2>2, <4>2, <4>3
      <4>5. ASSUME NEW j \in 0..(size' - 1), slots'[j].value = Nothing, slots'[j].next = succ
            PROVE  j = i
        <5>1. j \in 0..(size - 1) /\ slots'[j] = slots[j]
          BY <2>2, <3>1, <4>5
        <5> QED  BY <4>2, <4>5, <5>1
      <4> QED  BY <2>1, <3>3, <4>1, <4>2, <4>3, <4>4, <4>5
    <3>4. ASSUME NEW i \in 0..(size' - 1), slots'[i].value # Nothing
          PROVE  slots'[i].next = NoSlot
      BY <2>2, <3>1, <3>4 DEF FreeListShape, FreeListInv, Occupied
    <3> QED  BY <2>1, <3>3, <3>4 DEF FreeListShape, Occupied
  <2>8. EpochsFresh'
    <3>1. ASSUME NEW k \in issued'
          PROVE  /\ k.index < size' /\ k.epoch \in 1..slots'[k.index].epoch
                 /\ slots'[k.index].epoch = k.epoch => slots'[k.index].value # Nothing
      <4>1. CASE k \in issued
        <5>1. k.index \in 0..(size - 1) /\ k.epoch \in 1..slots[k.index].epoch
              /\ (slots[k.index].epoch = k.epoch => Occupied(k.index))
          BY <4>1 DEF FreeListInv, EpochsFresh, Matches, ListTypeOK, SlotHandle, SlotIndices
        <5> QED  BY <2>1, <2>2, <5>1 DEF Occupied
      <4>2. CASE k = new
        <5>1. k.index = size /\ k.epoch = 1 /\ slots'[size].epoch = 1
              /\ slots'[size].value = v /\ size \in 0..(size' - 1)
          BY <2>1, <2>2, <4>2
        <5> QED  BY <2>1, <2>5, <5>1
      <4> QED  BY <2>1, <4>1, <4>2
    <3>2. ASSUME NEW i \in 0..(size' - 1) PROVE slots'[i].epoch \in 1..(frees' + 1)
      <4>1. i \in 0..(size - 1) \/ i = size
        BY <2>1
      <4> QED  BY <2>1, <2>2, <4>1 DEF FreeListInv, EpochsFresh, ListTypeOK
    <3> QED  BY <3>1, <3>2 DEF EpochsFresh, Matches, Occupied
  <2> QED  BY <2>1, <2>3, <2>6, <2>7, <2>8 DEF FreeListInv, NoPanic
<1> QED  BY <1>1, <1>2 DEF Inserted

(* A weak handle that matches its slot is the strong handle of the entry   *)
(* in it; the invalid handle matches nothing.                              *)
LEMMA MatchIsOwner ==
  ASSUME ListTypeOK, FreeListInv, NEW h \in issued \cup {InvalidHandle}
  PROVE  /\ h \in SlotHandle /\ h.index \in 0..(size - 1)
         /\ Matches(h) => Occupied(h.index) /\ h \in strong
         /\ h \in strong => Matches(h) /\ Occupied(h.index)
<1> USE FreeListAssumption
<1>1. h \in SlotHandle /\ h.index \in 0..(size - 1)
  BY DEF ListTypeOK, FreeListInv, EpochsFresh, InvalidHandle, SlotHandle, SlotIndices
<1>2. h = [index |-> h.index, epoch |-> h.epoch]
  BY <1>1 DEF SlotHandle
<1>3. ASSUME Matches(h) PROVE Occupied(h.index) /\ h \in strong
  <2>1. h # InvalidHandle
    BY <1>1, <1>3 DEF FreeListInv, EpochsFresh, Matches, InvalidHandle
  <2>2. Occupied(h.index)
    BY <2>1, <1>3 DEF FreeListInv, EpochsFresh
  <2> QED  BY <1>1, <1>2, <1>3, <2>2 DEF FreeListInv, OneOwner, Matches, HandleOf
<1>4. ASSUME h \in strong PROVE Matches(h) /\ Occupied(h.index)
  BY <1>4 DEF FreeListInv, OneOwner, Matches, HandleOf
<1> QED  BY <1>1, <1>3, <1>4

LEMMA GetOptSound ==
  ASSUME ListTypeOK, FreeListInv, NEW h \in issued \cup {InvalidHandle}, GetOpt(h)
  PROVE  /\ ListTypeOK' /\ FreeListInv'
         /\ found' = IF h \in strong THEN slots[h.index].value ELSE Nothing
<1> USE FreeListAssumption
<1>1. h.index \in 0..(size - 1) /\ slots[h.index] \in Slot
  BY MatchIsOwner DEF ListTypeOK
<1>2. found' = IF h \in strong THEN slots[h.index].value ELSE Nothing
  BY <1>1, MatchIsOwner DEF GetOpt, ListTypeOK
<1>3. /\ found' \in Values \cup {Nothing}
      /\ UNCHANGED <<slots, free_list_head, active_count, size, strong, issued, frees>>
  BY <1>1, <1>2 DEF GetOpt, Slot
<1> QED
  BY <1>2, <1>3 DEF ListTypeOK, FreeListInv, NoPanic, OneOwner, FreeListShape, EpochsFresh, Occupied,
                    HandleOf, Matches

(* What upsert does: it replaces the entry of a strong handle or inserts.  *)
LEMMA UpsertCases ==
  ASSUME ListTypeOK, FreeListInv, NEW h \in issued \cup {InvalidHandle}, NEW v \in Values, Upsert(h, v)
  PROVE  \/ /\ h \in strong
            /\ slots' = [slots EXCEPT ![h.index].value = v]
            /\ found' = slots[h.index].value
            /\ UNCHANGED <<free_list_head, active_count, size, strong, issued, frees>>
         \/ Inserted(v) /\ frees' = frees
<1>1. h.index \in 0..(size - 1) /\ size \in 1..MaxSlots
  BY MatchIsOwner DEF ListTypeOK
<1>2. CASE Matches(h)
  BY <1>1, <1>2, MatchIsOwner, FreeListAssumption DEF Upsert, Occupied
<1>3. CASE ~Matches(h)
  BY <1>1, <1>3, FreeListAssumption DEF Upsert
<1> QED  BY <1>2, <1>3

LEMMA UpsertSound ==
  ASSUME ListTypeOK, FreeListInv, NEW h \in issued \cup {InvalidHandle}, NEW v \in Values, Upsert(h, v)
  PROVE  ListTypeOK' /\ FreeListInv'
<1> USE FreeListAssumption
<1>1. ASSUME h \in strong, slots' = [slots EXCEPT ![h.index].value = v],
             found' = slots[h.index].value,
             UNCHANGED <<free_list_head, active_count, size, strong, issued, frees>>
      PROVE  ListTypeOK' /\ FreeListInv'
  <2>1. /\ size \in 1..MaxSlots /\ MaxSlots \in Nat
        /\ h.index \in 0..(size - 1) /\ slots[h.index] \in Slot
        /\ Occupied(h.index)
    BY <1>1, MatchIsOwner DEF ListTypeOK
  <2>2. \A i \in 0..(size - 1) : /\ slots'[i].next = slots[i].next /\ slots'[i].epoch = slots[i].epoch
                                /\ slots'[i].value # Nothing <=> slots[i].value # Nothing
    BY <1>1, <2>1 DEF ListTypeOK, Slot, Occupied
  <2>3. ListTypeOK'
    <3>1. slots' \in [0..(size - 1) -> Slot]
      BY <1>1, <2>1 DEF ListTypeOK, Slot
    <3> QED  BY <1>1, <2>1, <3>1 DEF ListTypeOK, Slot
  <2>4. found' # Panic
    BY <1>1, <2>1 DEF Slot, Occupied
  <2>5. OneOwner'
    BY <1>1, <2>2 DEF FreeListInv, OneOwner, ListTypeOK, SlotHandle, SlotIndices, Occupied, HandleOf
  <2>6. FreeListShape'
    <3>1. \A i \in 0..(size - 1) : slots[i].next \in SlotIndices \cup {NoSlot}
      BY DEF ListTypeOK, Slot
    <3>2. free_list_head \in 0..(size - 1) \cup {NoSlot}
      BY DEF ListTypeOK
    <3> QED  BY <1>1, <2>1, <2>2, <3>1, <3>2 DEF FreeListInv, FreeListShape, NoSlot, SlotIndices, Occupied
  <2>7. EpochsFresh'
    BY <1>1, <2>2 DEF FreeListInv, EpochsFresh, Matches, ListTypeOK, SlotHandle, SlotIndices, Occupied
  <2> QED  BY <2>3, <2>4, <2>5, <2>6, <2>7 DEF FreeListInv, NoPanic
<1> QED  BY <1>1, UpsertCases, InsertSound

(* What free does to the slot of its handle.                               *)
LEMMA FreeFacts ==
  ASSUME ListTypeOK, FreeListInv, NEW h \in strong, Free(h)
  PROVE  /\ h \in SlotHandle /\ h.index \in 0..(size - 1) /\ slots[h.index] \in Slot
         /\ h = HandleOf(h.index) /\ Occupied(h.index)
         /\ slots'[h.index] = [next |-> free_list_head, epoch |-> slots[h.index].epoch + 1,
                               value |-> Nothing]
         /\ \A i \in 0..(size - 1) : i # h.index => slots'[i] = slots[i]
         /\ found' = slots[h.index].value
         /\ slots[h.index].epoch + 1 \in 1..(frees' + 1)
         /\ frees' = frees + 1 /\ frees' \in 0..MaxFrees
         /\ free_list_head' = h.index /\ strong' = strong \ {h}
         /\ UNCHANGED <<size, issued>>
         /\ slots' \in [0..(size - 1) -> Slot]
<1> USE FreeListAssumption
<1>1. /\ h \in SlotHandle /\ h.index \in 0..(size - 1)
      /\ h = HandleOf(h.index) /\ Occupied(h.index)
  BY DEF ListTypeOK, FreeListInv, OneOwner, SlotHandle, SlotIndices
<1>2. slots[h.index] \in Slot /\ slots[h.index].epoch \in 1..(frees + 1) /\ frees \in 0..MaxFrees
  BY <1>1 DEF ListTypeOK, FreeListInv, EpochsFresh
<1>3. /\ frees < MaxFrees /\ frees' = frees + 1 /\ free_list_head' = h.index
      /\ strong' = strong \ {h} /\ UNCHANGED <<size, issued>>
      /\ slots' = [slots EXCEPT ![h.index] = FreedSlot(slots[h.index])]
      /\ found' = slots[h.index].value
  BY <1>1 DEF Free, Occupied
<1>4. (slots[h.index].epoch + 1) % EpochSpan = slots[h.index].epoch + 1
  BY <1>2, <1>3, NoWrap
<1>5. FreedSlot(slots[h.index]) = [next |-> free_list_head, epoch |-> slots[h.index].epoch + 1,
                                   value |-> Nothing]
  BY <1>4 DEF FreedSlot
<1>6. FreedSlot(slots[h.index]) \in Slot
  BY <1>2, <1>3, <1>5 DEF Slot, ListTypeOK, SlotIndices
<1>7. slots' \in [0..(size - 1) -> Slot]
  BY <1>1, <1>3, <1>6 DEF ListTypeOK
<1> QED  BY <1>1, <1>2, <1>3, <1>5, <1>7 DEF ListTypeOK

LEMMA FreeSound ==
  ASSUME ListTypeOK, FreeListInv, NEW h \in strong, Free(h)
  PROVE  ListTypeOK' /\ FreeListInv'
<1> USE FreeListAssumption
<1> DEFINE at == h.index
<1>0. /\ size \in 1..MaxSlots /\ MaxSlots \in Nat
      /\ h \in SlotHandle /\ at \in 0..(size - 1) /\ slots[at] \in Slot
      /\ h = HandleOf(at) /\ Occupied(at)
      /\ slots'[at] = [next |-> free_list_head, epoch |-> slots[at].epoch + 1, value |-> Nothing]
      /\ \A i \in 0..(size - 1) : i # at => slots'[i] = slots[i]
      /\ found' = slots[at].value
      /\ slots[at].epoch + 1 \in 1..(frees' + 1)
      /\ frees' = frees + 1 /\ frees' \in 0..MaxFrees
      /\ free_list_head' = at /\ strong' = strong \ {h}
      /\ UNCHANGED <<size, issued>>
      /\ slots' \in [0..(size - 1) -> Slot]
  BY FreeFacts DEF ListTypeOK
<1> HIDE DEF at
<1>1. \A i \in 0..(size - 1) :
        /\ slots'[i].value # Nothing <=> Occupied(i) /\ i # at
        /\ i # at => slots'[i].epoch = slots[i].epoch /\ slots'[i].next = slots[i].next
  BY <1>0 DEF Occupied
<1>2. ListTypeOK'
  BY <1>0 DEF Free, ListTypeOK, Slot
<1>3. found' # Panic
  BY <1>0 DEF Slot, Occupied
<1>4. OneOwner'
  <2>1. /\ \A k \in strong : /\ k.index \in 0..(size - 1) /\ Occupied(k.index)
                            /\ k = [index |-> k.index, epoch |-> slots[k.index].epoch]
        /\ \A i \in 0..(size - 1) :
             Occupied(i) => [index |-> i, epoch |-> slots[i].epoch] \in strong
    BY DEF OneOwner, FreeListInv, ListTypeOK, SlotHandle, SlotIndices, HandleOf
  <2>2. h = [index |-> at, epoch |-> slots[at].epoch]
    BY <1>0 DEF HandleOf
  <2>3. \A k \in strong' : k.index # at
    BY <1>0, <2>1, <2>2
  <2> QED  BY <1>0, <1>1, <2>1, <2>2, <2>3 DEF OneOwner, Occupied, HandleOf
<1>5. FreeListShape'
  <2>1. \A i \in 0..(size - 1) : slots[i].next # at
    BY <1>0 DEF FreeListInv, FreeListShape, NoSlot
  <2>2. free_list_head # at
    BY <1>0 DEF FreeListInv, FreeListShape, NoSlot
  <2>3. slots'[at].next = free_list_head
    BY <1>0
  <2>4. free_list_head \in 0..(size - 1) \cup {NoSlot}
    BY DEF ListTypeOK
  <2>5. \A i \in 0..(size - 1) : slots[i].next \in SlotIndices \cup {NoSlot}
    BY DEF ListTypeOK, Slot
  <2>6. ASSUME NEW i \in 0..(size' - 1), slots'[i].value # Nothing PROVE slots'[i].next = NoSlot
    BY <1>0, <1>1, <2>6 DEF FreeListInv, FreeListShape, Occupied
  <2>7. ASSUME NEW i \in 0..(size' - 1), slots'[i].value = Nothing, slots'[i].next # NoSlot
        PROVE  /\ slots'[i].next < size' /\ slots'[slots'[i].next].value = Nothing
               /\ slots'[i].next # at
               /\ \A j \in 0..(size' - 1) :
                    slots'[j].value = Nothing /\ slots'[j].next = slots'[i].next => j = i
    <3>1. CASE i = at
      <4>1. free_list_head \in 0..(size - 1) /\ slots'[i].next = free_list_head
        BY <2>3, <2>4, <2>7, <3>1
      <4>2. slots'[free_list_head].value = Nothing
        BY <1>0, <1>1, <2>2, <4>1 DEF FreeListInv, FreeListShape, Occupied, NoSlot
      <4>3. ASSUME NEW j \in 0..(size' - 1), slots'[j].value = Nothing, slots'[j].next = free_list_head
            PROVE  j = at
        <5>1. j \in 0..(size - 1)
          BY <1>0, <4>3
        <5>2. ASSUME j # at PROVE ~Occupied(j) /\ slots[j].next = free_list_head
          BY <1>1, <4>3, <5>1, <5>2
        <5>3. ~Occupied(j) /\ slots[j].next = free_list_head => free_list_head = NoSlot
          BY <5>1 DEF FreeListInv, FreeListShape, Occupied
        <5>4. free_list_head # NoSlot
          BY <4>1 DEF NoSlot
        <5> QED  BY <5>2, <5>3, <5>4
      <4>4. free_list_head < size'
        BY <1>0, <4>1 DEF ListTypeOK
      <4>5. PICK x : x = free_list_head /\ slots'[i].next = x
        BY <4>1
      <4> QED  BY <2>2, <3>1, <4>2, <4>3, <4>4, <4>5
    <3>2. CASE i # at
      <4> DEFINE succ == slots[i].next
      <4>1. i \in 0..(size - 1) /\ slots'[i] = slots[i] /\ ~Occupied(i)
        BY <1>0, <2>7, <3>2 DEF Occupied
      <4>2. /\ succ < size /\ slots[succ].value = Nothing /\ succ # free_list_head
            /\ \A j \in 0..(size - 1) : slots[j].value = Nothing /\ slots[j].next = succ => j = i
        BY <2>7, <4>1 DEF FreeListShape, FreeListInv, Occupied
      <4>3. succ \in 0..(size - 1) /\ succ # at
        BY <1>0, <2>1, <2>5, <2>7, <4>1, <4>2 DEF NoSlot, SlotIndices
      <4>4. slots'[succ].value = Nothing
        BY <1>0, <4>2, <4>3
      <4>5. ASSUME NEW j \in 0..(size' - 1), slots'[j].value = Nothing, slots'[j].next = succ
            PROVE  j = i
        <5>1. j \in 0..(size - 1) /\ j # at /\ slots'[j] = slots[j]
          BY <1>0, <2>3, <4>2, <4>5
        <5> QED  BY <4>2, <4>5, <5>1
      <4> QED  BY <1>0, <4>1, <4>2, <4>3, <4>4, <4>5
    <3> QED  BY <3>1, <3>2
  <2> QED  BY <1>0, <1>1, <2>6, <2>7 DEF FreeListShape, Occupied
<1>6. EpochsFresh'
  <2>1. ASSUME NEW i \in 0..(size - 1) PROVE slots'[i].epoch \in 1..(frees' + 1)
    BY <1>0 DEF FreeListInv, EpochsFresh, ListTypeOK
  <2>2. ASSUME NEW k \in issued
        PROVE  /\ k.index < size /\ k.epoch \in 1..slots'[k.index].epoch
               /\ slots'[k.index].epoch = k.epoch => slots'[k.index].value # Nothing
    <3>1. /\ k \in SlotHandle /\ k.index \in 0..(size - 1) /\ k.epoch \in 1..slots[k.index].epoch
          /\ slots[k.index].epoch = k.epoch => Occupied(k.index)
          /\ slots[k.index].epoch \in Nat
      BY <2>2 DEF FreeListInv, EpochsFresh, Matches, ListTypeOK, SlotHandle, SlotIndices, Slot
    <3>2. CASE k.index = at
      <4>1. /\ k.epoch \in Nat /\ k.epoch >= 1 /\ k.epoch <= slots[at].epoch
            /\ slots[at].epoch \in Nat
        BY <3>1, <3>2
      <4>2. at < size /\ slots'[at].epoch = slots[at].epoch + 1
        BY <1>0
      <4> QED  BY <3>2, <4>1, <4>2
    <3>3. CASE k.index # at
      BY <1>0, <1>1, <3>1, <3>3
    <3> QED  BY <3>2, <3>3
  <2> QED  BY <1>0, <2>1, <2>2 DEF EpochsFresh, Matches, Occupied
<1> QED  BY <1>0, <1>2, <1>3, <1>4, <1>5, <1>6 DEF FreeListInv, NoPanic

LEMMA ClearSound ==
  ASSUME ListTypeOK, FreeListInv, Clear
  PROVE  ListTypeOK' /\ FreeListInv'
<1>1. ListTypeOK'
  BY FreeListAssumption DEF Clear, ListTypeOK, FirstSlot, Slot, SlotIndices, NoSlot
<1>2. FreeListInv'
  BY FreeListAssumption
     DEF Clear, ListTypeOK, FreeListInv, NoPanic, OneOwner, FreeListShape, EpochsFresh, FirstSlot,
         Occupied, HandleOf, Matches, NoSlot
<1> QED  BY <1>1, <1>2

LEMMA StepSound == ListTypeOK /\ FreeListInv /\ [ListNext]_listVars => ListTypeOK' /\ FreeListInv'
<1> SUFFICES ASSUME ListTypeOK, FreeListInv, [ListNext]_listVars PROVE ListTypeOK' /\ FreeListInv'
  OBVIOUS
<1>1. ASSUME NEW v \in Values, Insert(v) PROVE ListTypeOK' /\ FreeListInv'
  BY <1>1, InsertSound DEF Insert
<1>2. ASSUME NEW h \in issued \cup {InvalidHandle}, GetOpt(h) PROVE ListTypeOK' /\ FreeListInv'
  BY <1>2, GetOptSound
<1>3. ASSUME NEW h \in issued \cup {InvalidHandle}, NEW v \in Values, Upsert(h, v)
      PROVE  ListTypeOK' /\ FreeListInv'
  BY <1>3, UpsertSound
<1>4. ASSUME NEW h \in strong, Free(h) PROVE ListTypeOK' /\ FreeListInv'
  BY <1>4, FreeSound
<1>5. CASE Clear
  BY <1>5, ClearSound
<1>6. CASE UNCHANGED listVars
  BY <1>6 DEF listVars, ListTypeOK, FreeListInv, NoPanic, OneOwner, FreeListShape, EpochsFresh, Occupied,
              HandleOf, Matches
<1> QED  BY <1>1, <1>2, <1>3, <1>4, <1>5, <1>6 DEF ListNext

(* The free list keeps its shape: no operation of the texture cache panics *)
(* (freelist.rs unwrap()s 217 and 269, index operations 192-269), every    *)
(* strong handle owns an occupied slot of its own, and the epochs given    *)
(* out for a slot are not used again.                                      *)
THEOREM Sound == ListSpec => [](ListTypeOK /\ FreeListInv)
<1>1. ListInit => ListTypeOK /\ FreeListInv
  BY InitSound
<1>2. ListTypeOK /\ FreeListInv /\ [ListNext]_listVars => (ListTypeOK /\ FreeListInv)'
  BY StepSound
<1> QED  BY <1>1, <1>2, PTL DEF ListSpec
-----------------------------------------------------------------------------
LEMMA EpochsGrow ==
  ASSUME ListTypeOK, FreeListInv, [ListNext]_listVars, ~Clear
  PROVE  size' >= size /\ \A i \in 0..(size - 1) : slots'[i].epoch >= slots[i].epoch
<1> USE FreeListAssumption
<1>0. /\ size \in 1..MaxSlots /\ slots \in [0..(size - 1) -> Slot]
      /\ \A i \in 0..(size - 1) : slots[i].epoch \in Nat
  BY DEF ListTypeOK, Slot
<1>1. ASSUME NEW v \in Values, Inserted(v)
      PROVE  size' >= size /\ \A i \in 0..(size - 1) : slots'[i].epoch >= slots[i].epoch
  <2>1. CASE TakeFreeSlot(v)
    BY <1>0, <2>1 DEF TakeFreeSlot, ListTypeOK, Slot
  <2>2. CASE PushSlot(v)
    BY <1>0, <2>2 DEF PushSlot
  <2> QED  BY <1>1, <2>1, <2>2 DEF Inserted
<1>2. ASSUME NEW h \in issued \cup {InvalidHandle}, NEW v \in Values, Upsert(h, v)
      PROVE  size' >= size /\ \A i \in 0..(size - 1) : slots'[i].epoch >= slots[i].epoch
  <2>1. ASSUME h \in strong, slots' = [slots EXCEPT ![h.index].value = v], size' = size
        PROVE  \A i \in 0..(size - 1) : slots'[i].epoch = slots[i].epoch
    BY <1>0, <2>1 DEF Slot
  <2> QED  BY <1>0, <1>1, <1>2, <2>1, UpsertCases
<1>3. ASSUME NEW h \in strong, Free(h)
      PROVE  size' >= size /\ \A i \in 0..(size - 1) : slots'[i].epoch >= slots[i].epoch
  <2>1. /\ size' = size /\ h.index \in 0..(size - 1)
        /\ slots'[h.index].epoch = slots[h.index].epoch + 1
        /\ \A i \in 0..(size - 1) : i # h.index => slots'[i] = slots[i]
    <3>1. /\ h.index \in 0..(size - 1)
          /\ slots'[h.index] = [next |-> free_list_head, epoch |-> slots[h.index].epoch + 1,
                                value |-> Nothing]
          /\ \A i \in 0..(size - 1) : i # h.index => slots'[i] = slots[i]
          /\ UNCHANGED <<size, issued>>
      BY <1>3, FreeFacts
    <3> QED  BY <3>1
  <2> QED  BY <1>0, <2>1
<1>4. ASSUME NEW h \in issued \cup {InvalidHandle}, GetOpt(h)
      PROVE  size' >= size /\ \A i \in 0..(size - 1) : slots'[i].epoch >= slots[i].epoch
  BY <1>0, <1>4 DEF GetOpt
<1>5. CASE UNCHANGED listVars
  BY <1>0, <1>5 DEF listVars
<1> QED  BY <1>1, <1>2, <1>3, <1>4, <1>5 DEF ListNext, Insert

(* A weak handle that does not find its entry any more never finds another *)
(* one (freelist.rs 16-18).                                                *)
THEOREM Stale == ListSpec => StaysInvalid
<1>1. ASSUME ListTypeOK, FreeListInv, [ListNext]_listVars, NEW h \in issued, ~Valid(h)
      PROVE  ~(Valid(h)')
  <2>1. /\ h.index \in 0..(size - 1) /\ h.epoch \in 1..slots[h.index].epoch
        /\ slots[h.index].epoch \in Nat
        /\ slots[h.index].epoch # h.epoch
    BY <1>1, FreeListAssumption
       DEF FreeListInv, EpochsFresh, Valid, Matches, ListTypeOK, SlotHandle, SlotIndices, Slot
  <2>2. CASE Clear
    <3>1. size' = 1 /\ slots'[0].value = Nothing
      BY <2>2 DEF Clear, FirstSlot
    <3>2. h.index < size' => h.index = 0
      BY <2>1, <3>1, FreeListAssumption DEF ListTypeOK
    <3> QED  BY <3>1, <3>2 DEF Valid, Occupied
  <2>3. CASE ~Clear
    <3>1. slots'[h.index].epoch >= slots[h.index].epoch
      BY <1>1, <2>1, <2>3, EpochsGrow
    <3>2. slots'[h.index].epoch # h.epoch
      BY <2>1, <3>1
    <3> QED  BY <3>2 DEF Valid, Matches
  <2> QED  BY <2>2, <2>3
<1>2. ListTypeOK /\ FreeListInv /\ [ListNext]_listVars => [\A h \in issued : ~Valid(h) => ~(Valid(h)')]_listVars
  BY <1>1
<1>3. StaysInvalid <=> [][\A h \in issued : ~Valid(h) => ~(Valid(h)')]_listVars
  BY PTL DEF StaysInvalid
<1> QED  BY <1>2, <1>3, Sound, PTL DEF ListSpec
-----------------------------------------------------------------------------
(* The slots of the strong handles, as the store sees them.                *)
LEMMA Owners ==
  ASSUME ListTypeOK, FreeListInv
  PROVE  /\ size \in 1..MaxSlots /\ MaxSlots \in Nat
         /\ \A h \in strong : h.index \in 0..(size - 1) /\ Occupied(h.index)
                              /\ h = [index |-> h.index, epoch |-> slots[h.index].epoch]
BY FreeListAssumption DEF ListTypeOK, FreeListInv, OneOwner, SlotHandle, SlotIndices, HandleOf

LEMMA InsertImplements ==
  ASSUME ListTypeOK, FreeListInv, NEW v \in Values, Inserted(v)
  PROVE  \E h \in SlotHandle : Store!Insert(h, v)
<1> USE FreeListAssumption
<1>0. /\ size \in 1..MaxSlots /\ MaxSlots \in Nat
      /\ \A h \in strong : h.index \in 0..(size - 1) /\ Occupied(h.index)
  BY Owners
<1>1. CASE TakeFreeSlot(v)
  <2> DEFINE head == free_list_head
  <2> DEFINE new == [index |-> head, epoch |-> slots[head].epoch]
  <2>1. /\ head \in 0..(size - 1) /\ ~Occupied(head)
    BY <1>1 DEF TakeFreeSlot, ListTypeOK, FreeListInv, FreeListShape
  <2>2. /\ found' = Nothing /\ strong' = strong \cup {new} /\ issued' = issued \cup {new}
        /\ slots'[head].value = v
        /\ \A i \in 0..(size - 1) : i # head => slots'[i] = slots[i]
    BY <1>1, <2>1 DEF TakeFreeSlot, Inserted, Given, ListTypeOK, Slot, HandleOf
  <2>3. new \in SlotHandle
    BY <2>1 DEF ListTypeOK, Slot, SlotHandle, SlotIndices
  <2>4. new \notin issued
    BY <2>1 DEF FreeListInv, EpochsFresh, Matches
  <2>5. \A k \in strong : k.index \in 0..(size - 1) /\ k.index # head
    BY <1>0, <2>1
  <2>6. [k \in strong' |-> slots'[k.index].value]
          = [k \in strong \cup {new} |-> IF k = new THEN v
                                         ELSE [h \in strong |-> slots[h.index].value][k]]
    BY <2>2, <2>5
  <2>7. Store!Insert(new, v)
    BY <2>2, <2>4, <2>6 DEF Store!Insert
  <2> QED  BY <2>3, <2>7
<1>2. CASE PushSlot(v)
  <2> DEFINE new == [index |-> size, epoch |-> 1]
  <2>1. /\ found' = Nothing /\ strong' = strong \cup {new} /\ issued' = issued \cup {new}
        /\ slots'[size].value = v
        /\ \A i \in 0..(size - 1) : slots'[i] = slots[i]
    BY <1>0, <1>2 DEF PushSlot, Inserted, Given, FirstSlot
  <2>2. new \in SlotHandle
    BY <1>0, <1>2 DEF PushSlot, SlotHandle, SlotIndices
  <2>3. new \notin issued
    BY <1>0 DEF FreeListInv, EpochsFresh
  <2>4. \A k \in strong : k.index \in 0..(size - 1) /\ k # new
    BY <1>0
  <2>5. [k \in strong' |-> slots'[k.index].value]
          = [k \in strong \cup {new} |-> IF k = new THEN v
                                         ELSE [h \in strong |-> slots[h.index].value][k]]
    BY <2>1, <2>4
  <2>6. Store!Insert(new, v)
    BY <2>1, <2>3, <2>5 DEF Store!Insert
  <2> QED  BY <2>2, <2>6
<1> QED  BY <1>1, <1>2 DEF Inserted

LEMMA StepImplements ==
  ListTypeOK /\ FreeListInv /\ [ListNext]_listVars => [Store!Next]_(Store!storeVars)
<1> SUFFICES ASSUME ListTypeOK, FreeListInv, [ListNext]_listVars PROVE [Store!Next]_(Store!storeVars)
  OBVIOUS
<1> USE FreeListAssumption
<1>1. ASSUME NEW v \in Values, Inserted(v) PROVE Store!Next
  BY <1>1, InsertImplements DEF Store!Next
<1>2. ASSUME NEW h \in issued \cup {InvalidHandle}, GetOpt(h) PROVE Store!Next
  <2>1. h \in SlotHandle /\ found' = IF h \in strong THEN slots[h.index].value ELSE Nothing
    BY <1>2, GetOptSound, MatchIsOwner
  <2>2. UNCHANGED <<slots, strong, issued>>
    BY <1>2 DEF GetOpt
  <2>3. Store!Lookup(h)
    BY <2>1, <2>2 DEF Store!Lookup, Store!Answer
  <2> QED  BY <2>1, <2>3 DEF Store!Next
<1>3. ASSUME NEW h \in issued \cup {InvalidHandle}, NEW v \in Values, Upsert(h, v) PROVE Store!Next
  <2>1. ASSUME h \in strong, slots' = [slots EXCEPT ![h.index].value = v],
               found' = slots[h.index].value, UNCHANGED <<strong, issued>>
        PROVE  Store!Next
    <3>1. h \in SlotHandle /\ h.index \in 0..(size - 1) /\ slots \in [0..(size - 1) -> Slot]
      BY MatchIsOwner DEF ListTypeOK
    <3>2. \A k \in strong : k.index \in 0..(size - 1) /\ (k.index = h.index => k = h)
      BY <2>1, Owners
    <3>3. /\ slots'[h.index].value = v
          /\ \A i \in 0..(size - 1) : i # h.index => slots'[i] = slots[i]
      BY <2>1, <3>1 DEF Slot
    <3>4. [k \in strong' |-> slots'[k.index].value]
            = [[k \in strong |-> slots[k.index].value] EXCEPT ![h] = v]
      <4>1. \A k \in strong : slots'[k.index].value = IF k = h THEN v ELSE slots[k.index].value
        BY <3>2, <3>3
      <4>2. strong' = strong
        BY <2>1
      <4> QED  BY <4>1, <4>2
    <3>5. Store!Replace(h, v)
      BY <2>1, <3>4 DEF Store!Replace
    <3> QED  BY <3>1, <3>5 DEF Store!Next
  <2> QED  BY <1>1, <1>3, <2>1, UpsertCases
<1>4. ASSUME NEW h \in strong, Free(h) PROVE Store!Next
  <2>1. /\ h \in SlotHandle /\ h.index \in 0..(size - 1)
        /\ \A i \in 0..(size - 1) : i # h.index => slots'[i] = slots[i]
        /\ found' = slots[h.index].value /\ strong' = strong \ {h} /\ UNCHANGED issued
    BY <1>4, FreeFacts
  <2>2. \A k \in strong : k.index \in 0..(size - 1) /\ (k.index = h.index => k = h)
    BY Owners
  <2>3. [k \in strong' |-> slots'[k.index].value]
          = [k \in strong \ {h} |-> [j \in strong |-> slots[j.index].value][k]]
    BY <2>1, <2>2
  <2>4. Store!Free(h)
    BY <2>1, <2>3 DEF Store!Free
  <2> QED  BY <2>1, <2>4 DEF Store!Next
<1>5. CASE Clear
  <2>1. Store!Clear
    BY <1>5 DEF Clear, Store!Clear
  <2> QED  BY <2>1 DEF Store!Next
<1>6. CASE UNCHANGED listVars
  BY <1>6 DEF listVars, Store!storeVars
<1> QED  BY <1>1, <1>2, <1>3, <1>4, <1>5, <1>6 DEF ListNext, Insert

(* The free list implements the store of freelist.rs 5-18: a handle finds  *)
(* its own entry until the entry is freed, and nothing afterwards.         *)
THEOREM Implements == ListSpec => StoreSpec
<1>1. ListInit => Store!Init
  BY DEF ListInit, Store!Init
<1>2. ListTypeOK /\ FreeListInv /\ [ListNext]_listVars => [Store!Next]_(Store!storeVars)
  BY StepImplements
<1> QED  BY <1>1, <1>2, Sound, PTL DEF ListSpec, StoreSpec, Store!Spec
-----------------------------------------------------------------------------
(* No slot is lost.  The free slots are the members of one chain s, in the *)
(* order in which insert will take them.                                   *)
Chain(k, s) ==
  /\ \A n \in 1..k : ~Occupied(s[n])
  /\ \A i \in 0..(size - 1) : Occupied(i) \/ \E n \in 1..k : s[n] = i
  /\ \A m, n \in 1..k : s[m] = s[n] => m = n
  /\ free_list_head = IF k = 0 THEN NoSlot ELSE s[1]
  /\ \A n \in 1..k : slots[s[n]].next = IF n = k THEN NoSlot ELSE s[n + 1]

Linked == \E k \in Nat : \E s \in [1..k -> 0..(size - 1)] : Chain(k, s)

Counted == active_count = size - Cardinality(FreeSlots)

LEMMA ChainPrimed ==
  ASSUME NEW CONSTANT k, NEW CONSTANT s
  PROVE  Chain(k, s)' <=>
           /\ \A n \in 1..k : slots'[s[n]].value = Nothing
           /\ \A i \in 0..(size' - 1) : slots'[i].value # Nothing \/ \E n \in 1..k : s[n] = i
           /\ \A m, n \in 1..k : s[m] = s[n] => m = n
           /\ free_list_head' = IF k = 0 THEN NoSlot ELSE s[1]
           /\ \A n \in 1..k : slots'[s[n]].next = IF n = k THEN NoSlot ELSE s[n + 1]
BY DEF Chain, Occupied

LEMMA ListFacts ==
  ASSUME ListTypeOK
  PROVE  /\ size \in Nat /\ size >= 1 /\ MaxSlots \in Nat /\ active_count \in Int
         /\ \A i \in 0..(size - 1) : slots[i] \in Slot
         /\ FreeSlots \subseteq 0..(size - 1)
         /\ IsFiniteSet(FreeSlots) /\ Cardinality(FreeSlots) \in Nat
<1>1. size \in Nat /\ size >= 1 /\ MaxSlots \in Nat
  BY FreeListAssumption DEF ListTypeOK
<1>2. FreeSlots \in SUBSET (0..(size - 1)) /\ IsFiniteSet(0..(size - 1))
  BY <1>1, FS_Interval DEF FreeSlots
<1>3. IsFiniteSet(FreeSlots)
  BY <1>2, FS_Subset
<1> QED  BY <1>1, <1>2, <1>3, FS_CardinalityType DEF ListTypeOK

(* insert takes the first of the chain, or adds a slot when it is empty.   *)
LEMMA InsertLinked ==
  ASSUME ListTypeOK, FreeListInv, Linked, Counted, NEW v \in Values, Inserted(v)
  PROVE  Linked' /\ Counted'
<1>0. PICK k \in Nat : \E s \in [1..k -> 0..(size - 1)] : Chain(k, s)
  BY DEF Linked
<1>1. PICK s \in [1..k -> 0..(size - 1)] : Chain(k, s)
  BY <1>0
<1>2. /\ size \in Nat /\ size >= 1 /\ active_count \in Int /\ v # Nothing
      /\ \A i \in 0..(size - 1) : slots[i] \in Slot
      /\ FreeSlots \subseteq 0..(size - 1)
      /\ IsFiniteSet(FreeSlots) /\ Cardinality(FreeSlots) \in Nat
  BY ListFacts, FreeListAssumption
<1>3. CASE TakeFreeSlot(v)
  <2>1. k # 0 /\ free_list_head = s[1] /\ s[1] \in 0..(size - 1) /\ 1 \in 1..k
    BY <1>1, <1>3 DEF Chain, TakeFreeSlot, NoSlot
  <2>2. /\ slots'[s[1]].value = v /\ size' = size
        /\ \A i \in 0..(size - 1) : i # s[1] => slots'[i] = slots[i]
        /\ free_list_head' = slots[s[1]].next
    BY <1>2, <1>3, <2>1 DEF TakeFreeSlot, ListTypeOK, Slot
  <2> DEFINE t == [n \in 1..(k - 1) |-> s[n + 1]]
  <2>3. /\ k - 1 \in Nat /\ \A n \in 1..(k - 1) : n + 1 \in 1..k /\ n + 1 # 1 /\ t[n] = s[n + 1]
        /\ t \in [1..(k - 1) -> 0..(size' - 1)]
    BY <1>1, <2>1, <2>2
  <2>4. \A n \in 1..(k - 1) : t[n] # s[1] /\ slots'[t[n]] = slots[t[n]] /\ ~Occupied(t[n])
    BY <1>1, <2>1, <2>2, <2>3 DEF Chain
  <2>5. ASSUME NEW i \in 0..(size' - 1), slots'[i].value = Nothing
        PROVE  \E n \in 1..(k - 1) : t[n] = i
    <3>1. i # s[1] /\ ~Occupied(i)
      BY <1>2, <2>2, <2>5 DEF Occupied
    <3>2. PICK m \in 1..k : s[m] = i
      BY <1>1, <2>2, <3>1 DEF Chain
    <3>3. m - 1 \in 1..(k - 1) /\ t[m - 1] = i
      BY <2>3, <3>1, <3>2
    <3> QED  BY <3>3
  <2>6. \A m, n \in 1..(k - 1) : t[m] = t[n] => m = n
    <3>1. ASSUME NEW m \in 1..(k - 1), NEW n \in 1..(k - 1), t[m] = t[n] PROVE m = n
      <4>1. m + 1 = n + 1
        BY <1>1, <2>3, <3>1 DEF Chain
      <4> QED  BY <4>1
    <3> QED  BY <3>1
  <2>7. free_list_head' = IF k - 1 = 0 THEN NoSlot ELSE t[1]
    BY <1>1, <2>1, <2>2, <2>3 DEF Chain
  <2>8. \A n \in 1..(k - 1) : slots'[t[n]].next = IF n = k - 1 THEN NoSlot ELSE t[n + 1]
    <3>1. ASSUME NEW n \in 1..(k - 1)
          PROVE  slots'[t[n]].next = IF n = k - 1 THEN NoSlot ELSE t[n + 1]
      <4>1. slots'[t[n]].next = IF n + 1 = k THEN NoSlot ELSE s[n + 1 + 1]
        BY <1>1, <2>3, <2>4 DEF Chain
      <4>2. n # k - 1 => n + 1 \in 1..(k - 1)
        OBVIOUS
      <4> QED  BY <2>3, <4>1, <4>2
    <3> QED  BY <3>1
  <2>9. \A n \in 1..(k - 1) : slots'[t[n]].value = Nothing
    BY <2>4 DEF Occupied
  <2>10. Linked'
    <3> HIDE DEF t
    <3>1. Chain(k - 1, t)'
      BY <2>5, <2>6, <2>7, <2>8, <2>9, ChainPrimed
    <3> QED  BY <2>3, <3>1 DEF Linked
  <2>11. FreeSlots' = FreeSlots \ {s[1]} /\ s[1] \in FreeSlots
    <3>1. s[1] \in FreeSlots
      BY <1>1, <2>1 DEF FreeSlots, Chain
    <3>2. FreeSlots' = {i \in 0..(size - 1) : ~(slots'[i].value # Nothing)}
      BY <2>2 DEF FreeSlots, Occupied
    <3>3. \A i \in 0..(size - 1) :
            slots'[i].value # Nothing <=> Occupied(i) \/ i = s[1]
      BY <1>2, <2>2 DEF Occupied
    <3> QED  BY <3>1, <3>2, <3>3 DEF FreeSlots
  <2>12. Cardinality(FreeSlots') = Cardinality(FreeSlots) - 1
    BY <1>2, <2>11, FS_RemoveElement
  <2>13. active_count' = active_count + 1
    BY DEF Inserted
  <2> QED  BY <1>2, <2>2, <2>10, <2>12, <2>13 DEF Counted
<1>4. CASE PushSlot(v)
  <2>1. k = 0
    <3>1. k # 0 => s[1] \in 0..(size - 1)
      BY <1>1
    <3> QED  BY <1>1, <1>4, <3>1 DEF Chain, PushSlot, NoSlot
  <2>2. /\ size' = size + 1 /\ free_list_head' = NoSlot /\ slots'[size].value = v
        /\ \A i \in 0..(size - 1) : slots'[i] = slots[i]
    BY <1>1, <1>2, <1>4, <2>1 DEF PushSlot, Chain, FirstSlot
  <2>3. \A i \in 0..(size - 1) : Occupied(i)
    BY <1>1, <2>1 DEF Chain
  <2>4. \A i \in 0..(size' - 1) : slots'[i].value # Nothing
    <3>1. \A i \in 0..(size' - 1) : i \in 0..(size - 1) \/ i = size
      BY <1>2, <2>2
    <3> QED  BY <1>2, <2>2, <2>3, <3>1 DEF Occupied
  <2>5. FreeSlots = {} /\ FreeSlots' = {}
    BY <2>3, <2>4 DEF FreeSlots, Occupied
  <2>6. Linked'
    <3> DEFINE t == [n \in 1..0 |-> 0]
    <3>1. t \in [1..0 -> 0..(size' - 1)]
      OBVIOUS
    <3>2. Chain(0, t)'
      BY <2>2, <2>4, ChainPrimed
    <3> QED  BY <3>1, <3>2 DEF Linked
  <2>7. active_count' = active_count + 1
    BY DEF Inserted
  <2>8. Cardinality(FreeSlots)' = Cardinality(FreeSlots)
    BY <2>5
  <2>9. active_count + 1 = (size + 1) - Cardinality(FreeSlots)
    BY <1>2 DEF Counted
  <2>10. Counted'
    BY <2>2, <2>7, <2>8, <2>9 DEF Counted
  <2> QED  BY <2>6, <2>10
<1> QED  BY <1>3, <1>4 DEF Inserted

(* free puts its slot before the others.                                   *)
LEMMA FreeLinked ==
  ASSUME ListTypeOK, FreeListInv, Linked, Counted, NEW h \in strong, Free(h)
  PROVE  Linked' /\ Counted'
<1>0. PICK k \in Nat : \E s \in [1..k -> 0..(size - 1)] : Chain(k, s)
  BY DEF Linked
<1>1. PICK s \in [1..k -> 0..(size - 1)] : Chain(k, s)
  BY <1>0
<1> DEFINE i == h.index
           t == [n \in 1..(k + 1) |-> IF n = 1 THEN i ELSE s[n - 1]]
<1>2. /\ size \in Nat /\ active_count \in Int
      /\ FreeSlots \subseteq 0..(size - 1)
      /\ IsFiniteSet(FreeSlots) /\ Cardinality(FreeSlots) \in Nat
  BY ListFacts
<1>3. /\ i \in 0..(size - 1) /\ slots'[i].next = free_list_head /\ slots'[i].value = Nothing
      /\ \A j \in 0..(size - 1) : j # i => slots'[j] = slots[j]
      /\ size' = size /\ free_list_head' = i /\ active_count' = active_count - 1
      /\ Occupied(i)
  <2>1. /\ i \in 0..(size - 1)
        /\ slots'[i] = [next |-> free_list_head, epoch |-> slots[i].epoch + 1, value |-> Nothing]
        /\ \A j \in 0..(size - 1) : j # i => slots'[j] = slots[j]
        /\ UNCHANGED <<size, issued>>
    BY FreeFacts
  <2>2. Occupied(i)
    BY Owners
  <2> QED  BY <2>1, <2>2 DEF Free
<1>4. \A n \in 1..k : s[n] \in 0..(size - 1) /\ s[n] # i /\ slots'[s[n]] = slots[s[n]]
  BY <1>1, <1>3 DEF Chain
<1>5. /\ k + 1 \in Nat /\ k + 1 # 0 /\ 1 \in 1..(k + 1) /\ t[1] = i
      /\ \A n \in 1..(k + 1) : n # 1 => n - 1 \in 1..k /\ t[n] = s[n - 1]
      /\ \A n \in 1..k : n + 1 \in 1..(k + 1) /\ t[n + 1] = s[n]
  BY <1>1
<1>6. t \in [1..(k + 1) -> 0..(size' - 1)]
  BY <1>3, <1>4, <1>5
<1>7. \A n \in 1..(k + 1) : slots'[t[n]].value = Nothing
  <2>1. \A n \in 1..k : slots'[s[n]].value = Nothing
    BY <1>1, <1>4 DEF Chain, Occupied
  <2> QED  BY <1>3, <1>5, <2>1
<1>8. \A j \in 0..(size' - 1) : slots'[j].value # Nothing \/ \E n \in 1..(k + 1) : t[n] = j
  <2>1. ASSUME NEW j \in 0..(size - 1), j # i, slots'[j].value = Nothing
        PROVE  \E n \in 1..(k + 1) : t[n] = j
    <3>1. ~Occupied(j)
      BY <1>3, <2>1 DEF Occupied
    <3>2. PICK n \in 1..k : s[n] = j
      BY <1>1, <2>1, <3>1 DEF Chain
    <3> QED  BY <1>5, <3>2
  <2>2. \E n \in 1..(k + 1) : t[n] = i
    BY <1>5
  <2> QED  BY <1>3, <2>1, <2>2
<1>9. \A m, n \in 1..(k + 1) : t[m] = t[n] => m = n
  <2>1. ASSUME NEW m \in 1..(k + 1), NEW n \in 1..(k + 1), t[m] = t[n] PROVE m = n
    <3>1. CASE m # 1 /\ n # 1
      <4>1. m - 1 = n - 1
        BY <1>1, <1>5, <2>1, <3>1 DEF Chain
      <4> QED  BY <4>1
    <3>2. CASE m = 1 \/ n = 1
      BY <1>4, <1>5, <2>1, <3>2
    <3> QED  BY <3>1, <3>2
  <2> QED  BY <2>1
<1>10. \A n \in 1..(k + 1) : slots'[t[n]].next = IF n = k + 1 THEN NoSlot ELSE t[n + 1]
  <2>1. ASSUME NEW n \in 1..(k + 1)
        PROVE  slots'[t[n]].next = IF n = k + 1 THEN NoSlot ELSE t[n + 1]
    <3>1. CASE n = 1
      <4>1. slots'[t[n]].next = IF k = 0 THEN NoSlot ELSE s[1]
        BY <1>1, <1>3, <1>5, <3>1 DEF Chain
      <4>2. k # 0 => 1 \in 1..k /\ t[n + 1] = s[1]
        BY <1>5, <3>1
      <4> QED  BY <3>1, <4>1, <4>2
    <3>2. CASE n # 1
      <4>1. n - 1 \in 1..k /\ t[n] = s[n - 1]
        BY <1>5, <3>2
      <4>2. slots'[t[n]].next = IF n - 1 = k THEN NoSlot ELSE s[n - 1 + 1]
        BY <1>1, <1>4, <4>1 DEF Chain
      <4>3. n - 1 # k => n \in 1..k /\ t[n + 1] = s[n]
        BY <1>5
      <4> QED  BY <4>2, <4>3
    <3> QED  BY <3>1, <3>2
  <2> QED  BY <2>1
<1>11. Linked'
  <2>1. free_list_head' = IF k + 1 = 0 THEN NoSlot ELSE t[1]
    BY <1>3, <1>5
  <2> HIDE DEF t
  <2>2. Chain(k + 1, t)'
    BY <1>7, <1>8, <1>9, <1>10, <2>1, ChainPrimed
  <2> QED  BY <1>5, <1>6, <2>2 DEF Linked
<1>12. FreeSlots' = FreeSlots \cup {i} /\ i \notin FreeSlots
  BY <1>3 DEF FreeSlots, Occupied
<1>13. Cardinality(FreeSlots') = Cardinality(FreeSlots) + 1
  BY <1>2, <1>12, FS_AddElement
<1> QED  BY <1>2, <1>3, <1>11, <1>13 DEF Counted

LEMMA StepLinked ==
  ASSUME ListTypeOK, FreeListInv, Linked, Counted, [ListNext]_listVars
  PROVE  Linked' /\ Counted'
<1>1. ASSUME free_list_head' = free_list_head, size' = size, active_count' = active_count,
             \A i \in 0..(size - 1) : /\ (slots'[i].value = Nothing) <=> (slots[i].value = Nothing)
                                      /\ slots'[i].next = slots[i].next
      PROVE  Linked' /\ Counted'
  <2>0. PICK k \in Nat : \E s \in [1..k -> 0..(size - 1)] : Chain(k, s)
    BY DEF Linked
  <2>1. PICK s \in [1..k -> 0..(size - 1)] : Chain(k, s)
    BY <2>0
  <2>2. Chain(k, s)'
    <3>1. \A n \in 1..k : s[n] \in 0..(size - 1)
      OBVIOUS
    <3> QED  BY <1>1, <2>1, <3>1, ChainPrimed DEF Chain, Occupied
  <2>3. Linked'
    BY <1>1, <2>2 DEF Linked
  <2>4. FreeSlots' = FreeSlots
    BY <1>1 DEF FreeSlots, Occupied
  <2> QED  BY <1>1, <2>3, <2>4 DEF Counted
<1>2. ASSUME NEW v \in Values, Insert(v) PROVE Linked' /\ Counted'
  BY <1>2, InsertLinked DEF Insert
<1>3. ASSUME NEW h \in issued \cup {InvalidHandle}, GetOpt(h) PROVE Linked' /\ Counted'
  BY <1>1, <1>3 DEF GetOpt
<1>4. ASSUME NEW h \in issued \cup {InvalidHandle}, NEW v \in Values, Upsert(h, v)
      PROVE  Linked' /\ Counted'
  <2>1. CASE Inserted(v)
    BY <2>1, InsertLinked
  <2>2. ASSUME h \in strong, slots' = [slots EXCEPT ![h.index].value = v],
               UNCHANGED <<free_list_head, active_count, size>>
        PROVE  Linked' /\ Counted'
    <3>1. /\ h.index \in 0..(size - 1) /\ slots[h.index].value # Nothing /\ v # Nothing
          /\ \A i \in 0..(size - 1) : slots[i] \in Slot
      BY <2>2, Owners, ListFacts, FreeListAssumption DEF Occupied
    <3>2. /\ slots'[h.index].value = v /\ slots'[h.index].next = slots[h.index].next
          /\ \A i \in 0..(size - 1) : i # h.index => slots'[i] = slots[i]
      BY <2>2, <3>1 DEF ListTypeOK, Slot
    <3> QED  BY <1>1, <2>2, <3>1, <3>2
  <2>3. CASE UNCHANGED <<slots, free_list_head, active_count, size>>
    BY <1>1, <2>3
  <2> QED  BY <1>4, <2>1, <2>2, <2>3, UpsertCases
<1>5. ASSUME NEW h \in strong, Free(h) PROVE Linked' /\ Counted'
  BY <1>5, FreeLinked
<1>6. CASE Clear
  <2> DEFINE s == [n \in 1..1 |-> 0]
  <2>1. /\ slots'[0].value = Nothing /\ slots'[0].next = NoSlot /\ size' = 1
        /\ free_list_head' = 0 /\ active_count' = 0
    BY <1>6 DEF Clear, FirstSlot
  <2>2. \A i \in 0..(size' - 1) : i = 0
    BY <2>1
  <2>3. Linked'
    <3>1. s \in [1..1 -> 0..(size' - 1)] /\ s[1] = 0 /\ \A n \in 1..1 : n = 1
      BY <2>1
    <3> HIDE DEF s
    <3>2. Chain(1, s)'
      BY <2>1, <2>2, <3>1, ChainPrimed
    <3> QED  BY <3>1, <3>2 DEF Linked
  <2>4. FreeSlots' = {0}
    BY <2>1, <2>2 DEF FreeSlots, Occupied
  <2>5. Cardinality(FreeSlots') = 1
    BY <2>4, FS_Singleton
  <2> QED  BY <2>1, <2>3, <2>5 DEF Counted
<1>7. CASE UNCHANGED listVars
  BY <1>1, <1>7 DEF listVars
<1> QED  BY <1>2, <1>3, <1>4, <1>5, <1>6, <1>7 DEF ListNext

LEMMA InitLinked == ListInit => Linked /\ Counted
<1> SUFFICES ASSUME ListInit PROVE Linked /\ Counted
  OBVIOUS
<1> DEFINE s == [n \in 1..1 |-> 0]
<1>1. /\ slots[0].value = Nothing /\ slots[0].next = NoSlot /\ size = 1
      /\ free_list_head = 0 /\ active_count = 0
  BY DEF ListInit, FirstSlot
<1>2. \A i \in 0..(size - 1) : i = 0
  BY <1>1
<1>3. Linked
  <2>1. s \in [1..1 -> 0..(size - 1)] /\ s[1] = 0 /\ \A n \in 1..1 : n = 1
    BY <1>1
  <2> HIDE DEF s
  <2>2. Chain(1, s)
    BY <1>1, <1>2, <2>1 DEF Chain, Occupied
  <2> QED  BY <2>1, <2>2 DEF Linked
<1>4. FreeSlots = {0}
  BY <1>1, <1>2 DEF FreeSlots, Occupied
<1>5. Cardinality(FreeSlots) = 1
  BY <1>4, FS_Singleton
<1> QED  BY <1>1, <1>3, <1>5 DEF Counted

(* The walk: a recursive function, for which a definition by steps exists  *)
(* as there is no first place where it would not.                          *)
LEMMA Smallest ==
  ASSUME NEW T \in SUBSET Nat, T # {}
  PROVE  \E x \in T : \A y \in T : x <= y
<1>1. PICK R : R = {ss \in Nat \X Nat : ss[1] < ss[2]} /\ IsWellFoundedOn(R, Nat)
  BY NatLessThanWellFounded, Zenon DEF OpToRel
<1>2. PICK x \in T : \A y \in T : <<y, x>> \notin R
  BY <1>1, WFMin
<1>3. \A y \in T : ~(y < x)
  BY <1>1, <1>2
<1> QED  BY <1>3

WalkStep(f, n) == IF n = 0 THEN free_list_head
                  ELSE IF f[n - 1] = NoSlot THEN NoSlot ELSE slots[f[n - 1]].next

LEMMA WalkExists ==
  ASSUME NEW m \in Nat
  PROVE  \E f : f = [n \in 0..m |-> WalkStep(f, n)]
<1> DEFINE Missing(k) == ~ \E f : f = [n \in 0..k |-> WalkStep(f, n)]
           T == {k \in Nat : Missing(k)}
<1> SUFFICES ASSUME T # {} PROVE FALSE
  OBVIOUS
<1>1. PICK k \in T : \A j \in T : k <= j
  BY Smallest
<1>2. CASE k = 0
  <2> DEFINE f == [n \in 0..0 |-> free_list_head]
  <2>1. \A n \in 0..0 : WalkStep(f, n) = free_list_head
    BY DEF WalkStep
  <2>2. f = [n \in 0..0 |-> WalkStep(f, n)]
    BY <2>1
  <2> QED  BY <1>1, <1>2, <2>2
<1>3. CASE k # 0
  <2>1. k - 1 \in Nat /\ k - 1 \notin T
    BY <1>1, <1>3
  <2>2. PICK g : g = [n \in 0..(k - 1) |-> WalkStep(g, n)]
    BY <2>1
  <2> DEFINE f == [n \in 0..k |-> WalkStep(g, n)]
  <2>3. \A n \in 0..k : n # 0 => n - 1 \in 0..(k - 1) /\ n - 1 \in 0..k
    BY <1>1
  <2>4. \A n \in 0..(k - 1) : f[n] = g[n]
    BY <1>1, <2>2
  <2>5. \A n \in 0..k : WalkStep(f, n) = WalkStep(g, n)
    <3> HIDE DEF f
    <3> QED  BY <2>3, <2>4 DEF WalkStep
  <2>6. f = [n \in 0..k |-> WalkStep(f, n)]
    BY <2>5
  <2> QED  BY <1>1, <2>6
<1> QED  BY <1>2, <1>3

LEMMA WalkSteps ==
  ASSUME size \in Nat
  PROVE  \A n \in 0..size : Walk[n] = WalkStep(Walk, n)
<1>1. PICK f : f = [n \in 0..size |-> WalkStep(f, n)]
  BY WalkExists
<1>2. Walk = [n \in 0..size |-> WalkStep(Walk, n)]
  BY <1>1, Zenon DEF Walk, WalkStep
<1> QED  BY <1>2

(* The walk follows the chain, to its end.                                 *)
LEMMA WalkIsChain ==
  ASSUME ListTypeOK, NEW k \in Nat, NEW s \in [1..k -> 0..(size - 1)], Chain(k, s)
  PROVE  /\ k <= size
         /\ \A n \in 0..size : Walk[n] = IF n < k THEN s[n + 1] ELSE NoSlot
<1>1. size \in Nat /\ \A n \in 1..k : s[n] \in 0..(size - 1) /\ s[n] # NoSlot
  BY ListFacts DEF NoSlot
<1>2. k <= size
  <2>1. s \in Injection(1..k, 0..(size - 1))
    BY DEF Injection, IsInjective, Chain
  <2>2. IsFiniteSet(0..(size - 1)) /\ Cardinality(0..(size - 1)) = size
    <3>1. size - 1 \in Int /\ 0 \in Int /\ (size # 0 => ~(0 > size - 1))
          /\ (size = 0 => 0 > size - 1)
      BY <1>1
    <3>2. /\ IsFiniteSet(0..(size - 1))
          /\ Cardinality(0..(size - 1)) = IF 0 > size - 1 THEN 0 ELSE (size - 1) - 0 + 1
      BY <3>1, FS_Interval
    <3> QED  BY <1>1, <3>1, <3>2
  <2>3. Cardinality(1..k) = k
    <3>1. Cardinality(1..k) = IF 1 > k THEN 0 ELSE k - 1 + 1
      BY FS_Interval
    <3> QED  BY <3>1
  <2> QED  BY <2>1, <2>2, <2>3, FS_Injection
<1> DEFINE Right(n) == Walk[n] = IF n < k THEN s[n + 1] ELSE NoSlot
           T == {n \in 0..size : ~Right(n)}
<1>3. T = {}
  <2> SUFFICES ASSUME T # {} PROVE FALSE
    OBVIOUS
  <2>1. T \in SUBSET Nat
    BY <1>1
  <2>2. PICK n \in T : \A m \in T : n <= m
    BY <2>1, Smallest
  <2>3. n \in 0..size /\ ~Right(n) /\ Walk[n] = WalkStep(Walk, n)
    BY <1>1, <2>2, WalkSteps
  <2>4. CASE n = 0
    BY <2>3, <2>4 DEF WalkStep, Chain
  <2>5. CASE n # 0
    <3>1. n - 1 \in 0..size /\ n - 1 \notin T
      BY <1>1, <2>2, <2>3, <2>5
    <3>2. Right(n - 1)
      BY <3>1
    <3>3. CASE n - 1 < k
      <4>1. n \in 1..k /\ Walk[n - 1] = s[n]
        BY <1>1, <2>3, <2>5, <3>2, <3>3
      <4>2. Walk[n] = IF n = k THEN NoSlot ELSE s[n + 1]
        BY <1>1, <2>3, <2>5, <4>1 DEF WalkStep, Chain
      <4> QED  BY <2>3, <4>1, <4>2
    <3>4. CASE ~(n - 1 < k)
      <4>1. Walk[n - 1] = NoSlot /\ ~(n < k)
        BY <1>1, <2>3, <3>2, <3>4
      <4> QED  BY <2>3, <2>5, <4>1 DEF WalkStep
    <3> QED  BY <3>3, <3>4
  <2> QED  BY <2>4, <2>5
<1> QED  BY <1>2, <1>3

(* Whatever was inserted, upserted, freed and cleared, the free list ends  *)
(* and has every free slot on it (FreeList::insert, FreeList::free).       *)
THEOREM NothingLost == ListSpec => []NoSlotLost
<1>1. ASSUME ListTypeOK, Linked, Counted PROVE NoSlotLost
  <2>0. PICK k \in Nat : \E s \in [1..k -> 0..(size - 1)] : Chain(k, s)
    BY <1>1 DEF Linked
  <2>1. PICK s \in [1..k -> 0..(size - 1)] : Chain(k, s)
    BY <2>0
  <2>2. /\ size \in Nat /\ k <= size
        /\ \A n \in 0..size : Walk[n] = IF n < k THEN s[n + 1] ELSE NoSlot
    BY <1>1, <2>1, WalkIsChain, ListFacts
  <2>3. ASSUME NEW n \in 0..size PROVE Walk[n] \in FreeSlots \cup {NoSlot}
    <3>1. n < k => n + 1 \in 1..k /\ s[n + 1] \in FreeSlots
      BY <2>1 DEF Chain, FreeSlots
    <3> QED  BY <2>2, <3>1
  <2>4. ASSUME NEW i \in FreeSlots PROVE \E n \in 0..size : Walk[n] = i
    <3>1. PICK m \in 1..k : s[m] = i
      BY <2>1 DEF Chain, FreeSlots
    <3>2. m - 1 \in 0..size /\ m - 1 < k /\ Walk[m - 1] = s[m]
      BY <2>2
    <3> QED  BY <3>1, <3>2
  <2>5. k \in 0..size /\ Walk[k] = NoSlot
    BY <2>2
  <2>6. {Walk[n] : n \in 0..size} = FreeSlots \cup {NoSlot}
    BY <2>3, <2>4, <2>5
  <2> QED  BY <1>1, <2>6 DEF NoSlotLost, Counted
<1>2. ListTypeOK /\ FreeListInv /\ Linked /\ Counted /\ [ListNext]_listVars => Linked' /\ Counted'
  BY StepLinked
<1> QED  BY <1>1, <1>2, InitLinked, Sound, PTL DEF ListSpec

-----------------------------------------------------------------------------
(* Interning.                                                              *)

(* The first list on its way says what the store grows to.                 *)
LEMMA GrownUpto ==
  ASSUME NEW contents \in Contents, NEW n \in 0..MaxItems, NEW built \in Built,
         Follows(contents, n, built)
  PROVE  Grown(n, built) = built.upto
  <1> DEFINE Fit(m) == /\ \A i \in Indices : built.inserts[i] # NoKey => i < m
                       /\ m = n \/ built.inserts[m - 1] # NoKey
  <1> USE InterningAssumption
  <1>1. /\ built.upto \in 0..MaxItems /\ n <= built.upto
        /\ \A i \in Indices : i >= n => (built.inserts[i] # NoKey <=> i < built.upto)
    BY DEF Built, Follows
  <1>2. built.upto \in n..MaxItems /\ Fit(built.upto)
    <2>1. \A i \in Indices : built.inserts[i] # NoKey => i < built.upto
      BY <1>1 DEF Indices
    <2>2. built.upto = n \/ built.inserts[built.upto - 1] # NoKey
      BY <1>1 DEF Indices
    <2> QED
      BY <1>1, <2>1, <2>2
  <1>3. ASSUME NEW m \in n..MaxItems, Fit(m)
        PROVE  m = built.upto
    <2>1. ~(m < built.upto)
      <3> SUFFICES ASSUME m < built.upto
                   PROVE  FALSE
        OBVIOUS
      <3>1. m \in Indices /\ m >= n
        BY <1>1 DEF Indices
      <3> QED
        BY <1>1, <1>3, <3>1
    <2>2. ~(m > built.upto)
      <3> SUFFICES ASSUME m > built.upto
                   PROVE  FALSE
        OBVIOUS
      <3>1. m - 1 \in Indices /\ m - 1 >= n /\ m # n
        BY <1>1 DEF Indices
      <3> QED
        BY <1>1, <1>3, <3>1
    <2> QED
      BY <1>1, <2>1, <2>2
  <1>4. Grown(n, built) = CHOOSE m \in n..MaxItems : Fit(m)
    BY DEF Grown
  <1> HIDE DEF Fit
  <1> QED
    BY <1>2, <1>3, <1>4

(* What a list of updates makes of the store is again a store.             *)
LEMMA AppliedType ==
  ASSUME NEW contents \in Contents, NEW built \in Built
  PROVE  Applied(contents, built) \in Contents
  BY DEF Applied, Inserting, Without, Contents, Built

(* What the last list on its way leaves behind.                            *)
LEMMA LastType ==
  ASSUME TypeOK
  PROVE  LastUpto \in 0..MaxItems /\ LastAfter \in Contents
  <1>1. CASE results = <<>>
    BY <1>1 DEF LastUpto, LastAfter, TypeOK
  <1>2. CASE results # <<>>
    <2>1. Len(results) \in Nat /\ Len(results) \in 1..Len(results)
      BY <1>2 DEF TypeOK
    <2>2. results[Len(results)] \in Built
      BY <2>1 DEF TypeOK
    <2> QED
      BY <1>2, <2>2 DEF LastUpto, LastAfter, Built
  <1> QED
    BY <1>1, <1>2

LEMMA InitInv == Init => TypeOK /\ InternerInv
  <1> SUFFICES ASSUME Init
               PROVE  TypeOK /\ InternerInv
    OBVIOUS
  <1> USE InterningAssumption DEF Init
  <1>1. TypeOK
    BY DEF TypeOK, NotInterned, Handle, Empty, Contents, NoItems, Scene
  <1>2. BooksBalance
    BY DEF BooksBalance, Interned, NotInterned, Live, NoItems, Indices
  <1>3. ListsLead
    BY DEF ListsLead, View, Live, LastAfter, LastUpto, Empty, Indices
  <1>4. ScenesFound
    BY DEF ScenesFound, InternedFound, NoItems
  <1> QED
    BY <1>1, <1>2, <1>3, <1>4 DEF InternerInv

-----------------------------------------------------------------------------
(* An item that is known is only marked as used.                           *)
LEMMA KnownStep ==
  ASSUME TypeOK, InternerInv, NEW k \in Keys, InternKnown(k)
  PROVE  TypeOK' /\ InternerInv'
  <1> USE InterningAssumption DEF InternKnown
  <1>1. map[k].index \in Indices
    BY DEF TypeOK, Handle, Interned
  <1>2. TypeOK'
    <2>1. map' \in [Keys -> Handle]
      BY DEF TypeOK, Handle
    <2>2. scene' \in Scene
      BY <1>1 DEF TypeOK, Scene
    <2> QED
      BY <2>1, <2>2 DEF TypeOK, storeVars
  <1>3. BooksBalance'
    BY <1>1 DEF InternerInv, BooksBalance, Live, Interned, TypeOK, Handle, Scene
  <1>4. ListsLead'
    BY DEF InternerInv, ListsLead, View, Live, LastAfter, LastUpto, storeVars
  <1>5. ScenesFound'
    BY DEF InternerInv, ScenesFound, InternedFound, storeVars
  <1> QED
    BY <1>2, <1>3, <1>4, <1>5 DEF InternerInv

(* A new item takes an index that no item has, and its insertion joins the *)
(* list of the scene under construction.                                   *)
LEMMA NewStep ==
  ASSUME TypeOK, InternerInv, NEW k \in Keys, InternNew(k)
  PROVE  TypeOK' /\ InternerInv'
  <1> USE InterningAssumption
  <1>0. PICK i \in NewIndices :
          /\ map' = [map EXCEPT ![k] = [index |-> i, epoch |-> current_epoch]]
          /\ scene' = [scene EXCEPT ![k] = i]
          /\ inserts' = [inserts EXCEPT ![i] = k]
          /\ local_data' = [local_data EXCEPT ![i] = k]
          /\ free_list' = free_list \ {i}
          /\ count' = IF i = count THEN count + 1 ELSE count
    BY DEF InternNew
  <1>1. /\ ~Interned(k)
        /\ UNCHANGED <<current_epoch, results, items, len, shown, rb>>
    BY DEF InternNew, storeVars
  <1>2. i \in Indices /\ ~Live(i) /\ (i \in free_list \/ i = count)
    BY DEF NewIndices, TypeOK, Live, Indices
  <1>3. i < count' /\ count' \in 0..MaxItems /\ count <= count'
        /\ \A j \in Indices : j # i => (j < count' <=> j < count)
    BY <1>0, <1>2 DEF Indices, TypeOK, InternerInv, BooksBalance
  <1>4. \A j \in Indices : Live(j)' <=> (Live(j) \/ j = i)
    BY <1>0, <1>2, <1>3 DEF Live
  <1>5. TypeOK'
    BY <1>0, <1>1, <1>2, <1>3 DEF TypeOK, Handle, Contents, Scene
  <1>6. BooksBalance'
    <2> USE DEF InternerInv, BooksBalance
    <2>1. \A k2 \in Keys : k2 # k => map'[k2] = map[k2] /\ scene'[k2] = scene[k2]
      BY <1>0 DEF TypeOK, Scene
    <2>2. map'[k].index = i /\ map'[k].epoch = current_epoch /\ scene'[k] = i
      BY <1>0 DEF TypeOK, Scene
    <2>3. \A j \in Indices : local_data'[j] = IF j = i THEN k ELSE local_data[j]
      BY <1>0 DEF TypeOK, Contents
    <2>4. \A k2 \in Keys : map'[k2].index # NoIndex =>
            /\ map'[k2].index < count' /\ map'[k2].index \notin free_list'
            /\ local_data'[map'[k2].index] = k2
            /\ map'[k2].epoch <= current_epoch'
      <3> SUFFICES ASSUME NEW k2 \in Keys, map'[k2].index # NoIndex
                   PROVE  /\ map'[k2].index < count' /\ map'[k2].index \notin free_list'
                          /\ local_data'[map'[k2].index] = k2
                          /\ map'[k2].epoch <= current_epoch'
        OBVIOUS
      <3>1. CASE k2 = k
        BY <3>1, <1>0, <1>1, <1>2, <1>3, <2>2, <2>3 DEF TypeOK
      <3>2. CASE k2 # k
        <4>1. map[k2].index \in Indices /\ Live(map[k2].index) /\ map[k2].index # i
          BY <3>2, <2>1, <1>2 DEF Interned, TypeOK, Handle
        <4> QED
          BY <3>2, <4>1, <1>0, <1>1, <1>3, <2>1, <2>3 DEF Interned, Live
      <3> QED
        BY <3>1, <3>2
    <2>5. \A j \in Indices : j < count' /\ j \notin free_list' =>
            local_data'[j] \in Keys /\ map'[local_data'[j]].index = j
      <3> SUFFICES ASSUME NEW j \in Indices, Live(j)'
                   PROVE  local_data'[j] \in Keys /\ map'[local_data'[j]].index = j
        BY DEF Live
      <3>1. CASE j = i
        BY <3>1, <2>2, <2>3
      <3>2. CASE j # i
        <4>1. local_data[j] \in Keys /\ map[local_data[j]].index = j
          BY <3>2, <1>4
        <4>2. local_data[j] # k
          BY <4>1, <1>1 DEF Interned, NoIndex, Indices
        <4> QED
          BY <3>2, <4>1, <4>2, <2>1, <2>3
      <3> QED
        BY <3>1, <3>2
    <2>6. \A j \in free_list' : j < count'
      BY <1>0, <1>3 DEF TypeOK
    <2>7. \A k2 \in Keys : scene'[k2] # NoIndex =>
            map'[k2].index = scene'[k2] /\ map'[k2].epoch = current_epoch'
      BY <1>1, <2>1, <2>2
    <2> QED
      BY <2>4, <2>5, <2>6, <2>7 DEF Interned, Live
  <1>7. ListsLead'
    <2>1. LastAfter' = LastAfter /\ LastUpto' = LastUpto
      BY <1>1 DEF LastAfter, LastUpto
    <2>2. \A j \in Indices : inserts'[j] = IF j = i THEN k ELSE inserts[j]
      BY <1>0 DEF TypeOK, Contents
    <2>3. \A j \in Indices : View'[j] = IF j = i THEN k ELSE View[j]
      <3>1. \A j \in Indices : local_data'[j] = IF j = i THEN k ELSE local_data[j]
        BY <1>0 DEF TypeOK, Contents
      <3>2. \A j \in Indices : View'[j] = IF Live(j)' THEN local_data'[j] ELSE NoKey
        BY DEF View
      <3> QED
        BY <1>4, <3>1, <3>2 DEF View
    <2>4. View' = [j \in Indices |-> IF inserts'[j] # NoKey THEN inserts'[j] ELSE LastAfter'[j]]
      <3>1. \A j \in Indices : View[j] = IF inserts[j] # NoKey THEN inserts[j] ELSE LastAfter[j]
        BY DEF InternerInv, ListsLead
      <3>2. \A j \in Indices :
              View'[j] = IF inserts'[j] # NoKey THEN inserts'[j] ELSE LastAfter'[j]
        BY <2>1, <2>2, <2>3, <3>1
      <3> QED
        BY <3>2 DEF View
    <2>5. LastUpto \in 0..MaxItems
      BY LastType
    <2>6. LastUpto <= count'
      BY <1>3, <2>5 DEF InternerInv, ListsLead, TypeOK
    <2>7. \A j \in Indices : j >= LastUpto => (inserts'[j] # NoKey <=> j < count')
      BY <1>3, <2>2 DEF InternerInv, ListsLead
    <2> QED
      BY <1>1, <2>1, <2>4, <2>6, <2>7 DEF InternerInv, ListsLead
  <1>8. ScenesFound'
    BY <1>1 DEF InternerInv, ScenesFound, InternedFound
  <1> QED
    BY <1>5, <1>6, <1>7, <1>8 DEF InternerInv

(* At the end of a scene its list is sent, and the items that expired free *)
(* their indices.                                                          *)
LEMMA EndStep ==
  ASSUME TypeOK, InternerInv, EndScene
  PROVE  TypeOK' /\ InternerInv'
  <1> DEFINE b == [scene |-> scene, inserts |-> inserts, removes |-> Removed,
                   after |-> Without(View, Removed), upto |-> count]
  <1> USE InterningAssumption
  <1>1. /\ results' = Append(results, b)
        /\ free_list' = free_list \cup Removed
        /\ map' = [k \in Keys |-> IF k \in Expired THEN NotInterned ELSE map[k]]
        /\ inserts' = Empty /\ current_epoch' = current_epoch + 1 /\ scene' = NoItems
        /\ UNCHANGED <<local_data, count, items, len, shown, rb>>
    BY DEF EndScene, Removed, storeVars
  <1>2. /\ \A i \in Removed : i \in Indices /\ Live(i) /\ local_data[i] \in Expired
        /\ \A k \in Keys : Interned(k) /\ k \notin Expired => map[k].index \notin Removed
    <2>1. \A k \in Keys : Interned(k) =>
            map[k].index \in Indices /\ Live(map[k].index) /\ local_data[map[k].index] = k
      BY DEF InternerInv, BooksBalance, Interned, TypeOK, Handle
    <2>2. \A k \in Expired : k \in Keys /\ Interned(k)
      BY DEF Expired
    <2> QED
      BY <2>1, <2>2 DEF Removed
  <1>3. View \in Contents
    BY DEF View, Live, TypeOK, Contents
  <1>4. b \in Built
    <2>1. b.after \in Contents
      BY <1>3 DEF Without, Contents
    <2>2. Removed \subseteq Indices
      BY <1>2
    <2> QED
      BY <2>1, <2>2 DEF Built, TypeOK
  <1>5. /\ Len(results') = Len(results) + 1 /\ Len(results) \in Nat
        /\ \A j \in 1..Len(results) : results'[j] = results[j]
        /\ results'[Len(results) + 1] = b
        /\ results' # <<>> /\ results' \in Seq(Built)
    BY <1>1, <1>4 DEF TypeOK
  <1> HIDE DEF b
  <1>6. TypeOK'
    <2>1. map' \in [Keys -> Handle]
      BY <1>1 DEF TypeOK, NotInterned, Handle
    <2>2. inserts' \in Contents /\ scene' \in Scene
      BY <1>1 DEF Empty, Contents, NoItems, Scene
    <2> QED
      BY <1>1, <1>2, <1>5, <2>1, <2>2 DEF TypeOK
  <1>7. BooksBalance'
    <2> USE DEF InternerInv, BooksBalance
    <2>1. \A k \in Keys : map'[k].index # NoIndex =>
            /\ k \notin Expired /\ Interned(k) /\ map'[k] = map[k]
      BY <1>1 DEF NotInterned, Interned
    <2>2. \A k \in Keys : map'[k].index # NoIndex =>
            /\ map'[k].index < count' /\ map'[k].index \notin free_list'
            /\ local_data'[map'[k].index] = k
      BY <1>1, <1>2, <2>1 DEF Live
    <2>3. \A k \in Keys : map'[k].index # NoIndex => map'[k].epoch <= current_epoch'
      <3>1. \A k \in Keys : map[k].epoch \in Nat
        BY DEF TypeOK, Handle
      <3> QED
        BY <1>1, <2>1, <3>1 DEF TypeOK
    <2>4. \A i \in Indices : i < count' /\ i \notin free_list' =>
            local_data'[i] \in Keys /\ map'[local_data'[i]].index = i
      <3> SUFFICES ASSUME NEW i \in Indices, i < count', i \notin free_list'
                   PROVE  local_data'[i] \in Keys /\ map'[local_data'[i]].index = i
        OBVIOUS
      <3>1. Live(i) /\ i \notin Removed
        BY <1>1 DEF Live
      <3>2. local_data[i] \in Keys /\ map[local_data[i]].index = i
        BY <3>1
      <3>3. local_data[i] \notin Expired
        BY <3>1, <3>2 DEF Removed
      <3> QED
        BY <1>1, <3>2, <3>3
    <2>5. \A i \in free_list' : i < count'
      BY <1>1, <1>2 DEF Live
    <2>6. \A k \in Keys : scene'[k] = NoIndex
      BY <1>1 DEF NoItems
    <2> QED
      BY <2>2, <2>3, <2>4, <2>5, <2>6 DEF Interned, Live
  <1>8. LastUpto \in 0..MaxItems /\ LastAfter \in Contents
    BY LastType
  <1>9. Follows(LastAfter, LastUpto, b)
    <2>1. View = Inserting(LastAfter, b)
      BY DEF InternerInv, ListsLead, Inserting, b
    <2>2. b.after = Applied(LastAfter, b)
      BY <2>1 DEF Applied, b
    <2>3. \A i \in b.removes : i < b.upto
      BY <1>2 DEF b, Live
    <2> QED
      BY <2>2, <2>3 DEF Follows, InternerInv, ListsLead, b
  <1>10. ListsLead'
    <2>1. LastAfter' = b.after /\ LastUpto' = count
      BY <1>5 DEF LastAfter, LastUpto, b
    <2>2. Follows(items, len, results'[1])
      <3>1. CASE results = <<>>
        <4>1. results'[1] = b /\ LastAfter = items /\ LastUpto = len
          BY <1>5, <3>1 DEF LastAfter, LastUpto
        <4> QED
          BY <4>1, <1>9
      <3>2. CASE results # <<>>
        <4>1. results'[1] = results[1]
          BY <1>5, <3>2 DEF TypeOK
        <4> QED
          BY <4>1, <3>2 DEF InternerInv, ListsLead
      <3> QED
        BY <3>1, <3>2
    <2>3. ASSUME NEW j \in 1..(Len(results') - 1)
          PROVE  Follows(results'[j].after, results'[j].upto, results'[j + 1])
      <3>1. j \in 1..Len(results) /\ results'[j] = results[j] /\ results # <<>>
        BY <1>5
      <3>2. CASE j = Len(results)
        <4>1. results'[j + 1] = b /\ results[j].after = LastAfter /\ results[j].upto = LastUpto
          BY <1>5, <3>1, <3>2 DEF LastAfter, LastUpto
        <4> QED
          BY <4>1, <3>1, <1>9
      <3>3. CASE j # Len(results)
        <4>1. j \in 1..(Len(results) - 1) /\ results'[j + 1] = results[j + 1]
          BY <1>5, <3>1, <3>3
        <4> QED
          BY <4>1, <3>1 DEF InternerInv, ListsLead
      <3> QED
        BY <3>2, <3>3
    <2>4. \A i \in Indices : View'[i] = IF i \in Removed THEN NoKey ELSE View[i]
      <3>1. \A i \in Indices : Live(i)' <=> Live(i) /\ i \notin Removed
        BY <1>1 DEF Live
      <3>2. \A i \in Indices : View'[i] = IF Live(i)' THEN local_data[i] ELSE NoKey
        BY <1>1 DEF View
      <3> QED
        BY <3>1, <3>2 DEF View
    <2>5. View' = [i \in Indices |-> IF inserts'[i] # NoKey THEN inserts'[i] ELSE LastAfter'[i]]
      <3>1. \A i \in Indices : inserts'[i] = NoKey
        BY <1>1 DEF Empty
      <3>2. \A i \in Indices : b.after[i] = IF i \in Removed THEN NoKey ELSE View[i]
        BY DEF b, Without
      <3>3. \A i \in Indices :
              View'[i] = IF inserts'[i] # NoKey THEN inserts'[i] ELSE LastAfter'[i]
        BY <2>1, <2>4, <3>1, <3>2
      <3> QED
        BY <3>3 DEF View
    <2>6. \A i \in Indices : i >= count => (inserts'[i] # NoKey <=> i < count)
      BY <1>1 DEF Empty, Indices, TypeOK
    <2>7. count \in Nat
      BY DEF TypeOK
    <2> QED
      BY <1>1, <1>5, <2>1, <2>2, <2>3, <2>5, <2>6, <2>7 DEF ListsLead
  <1>11. ScenesFound'
    <2>1. \A k \in Keys : b.scene[k] # NoIndex => b.after[b.scene[k]] = k
      <3> SUFFICES ASSUME NEW k \in Keys, scene[k] # NoIndex
                   PROVE  Without(View, Removed)[scene[k]] = k
        BY DEF b
      <3>1. map[k].index = scene[k] /\ map[k].epoch = current_epoch /\ Interned(k)
        BY DEF InternerInv, BooksBalance, Interned
      <3>2. k \notin Expired
        BY <3>1 DEF Expired, TypeOK
      <3>3. scene[k] \in Indices /\ Live(scene[k]) /\ local_data[scene[k]] = k
        BY <3>1 DEF InternerInv, BooksBalance, Interned, TypeOK, Handle
      <3>4. scene[k] \notin Removed
        BY <1>2, <3>1, <3>2
      <3> QED
        BY <3>3, <3>4 DEF Without, View
    <2>2. \A j \in DOMAIN results' : \A k \in Keys :
            results'[j].scene[k] # NoIndex => results'[j].after[results'[j].scene[k]] = k
      <3> SUFFICES ASSUME NEW j \in 1..(Len(results) + 1)
                   PROVE  \A k \in Keys : results'[j].scene[k] # NoIndex =>
                            results'[j].after[results'[j].scene[k]] = k
        BY <1>5
      <3>1. CASE j = Len(results) + 1
        BY <1>5, <2>1, <3>1
      <3>2. CASE j # Len(results) + 1
        <4>1. j \in DOMAIN results /\ results'[j] = results[j]
          BY <1>5, <3>2 DEF TypeOK
        <4> QED
          BY <4>1 DEF InternerInv, ScenesFound
      <3> QED
        BY <3>1, <3>2
    <2>3. rb' = "swapped" => results' # <<>> /\ shown' = results'[1].scene
      <3> SUFFICES ASSUME rb = "swapped"
                   PROVE  shown = results'[1].scene
        BY <1>1, <1>5
      <3>1. results # <<>> /\ shown = results[1].scene
        BY DEF InternerInv, ScenesFound
      <3>2. results'[1] = results[1]
        BY <1>5, <3>1 DEF TypeOK
      <3> QED
        BY <3>1, <3>2
    <2>4. InternedFound'
      BY <1>1 DEF InternerInv, ScenesFound, InternedFound
    <2> QED
      BY <2>2, <2>3, <2>4 DEF ScenesFound
  <1> QED
    BY <1>6, <1>7, <1>10, <1>11 DEF InternerInv

-----------------------------------------------------------------------------
(* The scene is swapped before the store has its items ...                 *)
LEMMA SwapStep ==
  ASSUME TypeOK, InternerInv, SwapScene
  PROVE  TypeOK' /\ InternerInv'
  <1> USE DEF SwapScene, internerVars
  <1>1. results # <<>> /\ Head(results) = results[1] /\ results[1] \in Built
    BY DEF TypeOK
  <1>2. TypeOK'
    BY <1>1 DEF TypeOK, Built
  <1>3. BooksBalance'
    BY DEF InternerInv, BooksBalance, Interned, Live
  <1>4. ListsLead'
    BY DEF InternerInv, ListsLead, View, Live, LastAfter, LastUpto
  <1>5. ScenesFound'
    BY <1>1 DEF InternerInv, ScenesFound, InternedFound
  <1> QED
    BY <1>2, <1>3, <1>4, <1>5 DEF InternerInv

(* ... and the list that came with it makes the store the one it was built *)
(* for.                                                                    *)
LEMMA ApplyStep ==
  ASSUME TypeOK, InternerInv, ApplyUpdates
  PROVE  TypeOK' /\ InternerInv'
  <1> USE DEF ApplyUpdates, internerVars
  <1>1. /\ results # <<>> /\ Head(results) = results[1] /\ results[1] \in Built
        /\ shown = results[1].scene
    BY DEF TypeOK, InternerInv, ScenesFound
  <1>2. Follows(items, len, results[1])
    BY <1>1 DEF InternerInv, ListsLead
  <1>3. items' = results[1].after /\ len' = results[1].upto
    BY <1>1, <1>2, GrownUpto DEF Follows, TypeOK
  <1>4. /\ Len(results) \in Nat \ {0} /\ Len(results') = Len(results) - 1
        /\ \A j \in 1..Len(results') : results'[j] = results[j + 1]
        /\ results' \in Seq(Built)
    BY <1>1 DEF TypeOK
  <1>5. TypeOK'
    BY <1>1, <1>3, <1>4 DEF TypeOK, Built
  <1>6. BooksBalance'
    BY DEF InternerInv, BooksBalance, Interned, Live
  <1>7. ListsLead'
    <2>1. LastAfter' = LastAfter /\ LastUpto' = LastUpto
      <3>1. CASE Len(results) = 1
        <4>1. results' = <<>>
          BY <1>4, <3>1
        <4> QED
          BY <1>1, <1>3, <3>1, <4>1 DEF LastAfter, LastUpto
      <3>2. CASE Len(results) # 1
        <4>1. Len(results') >= 1 /\ Len(results') + 1 = Len(results)
          BY <1>4, <3>2
        <4>2. results' # <<>>
          <5>1. ASSUME results' = <<>>
                PROVE  Len(results') = 0
            <6> HIDE DEF ApplyUpdates
            <6> QED
              BY <5>1
          <5> QED
            BY <4>1, <5>1
        <4>3. results'[Len(results')] = results[Len(results') + 1]
          BY <1>4, <4>1
        <4> QED
          BY <1>1, <4>1, <4>2, <4>3 DEF LastAfter, LastUpto
      <3> QED
        BY <3>1, <3>2
    <2>2. ASSUME results' # <<>>
          PROVE  Follows(items', len', results'[1])
      <3>1. 1 \in 1..(Len(results) - 1) /\ results'[1] = results[2]
        BY <1>4, <2>2
      <3>2. Follows(results[1].after, results[1].upto, results[1 + 1])
        BY <3>1 DEF InternerInv, ListsLead
      <3> QED
        BY <1>3, <3>1, <3>2
    <2>3. ASSUME NEW j \in 1..(Len(results') - 1)
          PROVE  Follows(results'[j].after, results'[j].upto, results'[j + 1])
      <3>1. /\ j + 1 \in 1..(Len(results) - 1)
            /\ results'[j] = results[j + 1] /\ results'[j + 1] = results[(j + 1) + 1]
        BY <1>4
      <3> QED
        BY <3>1 DEF InternerInv, ListsLead
    <2>4. View' = View
      BY DEF View, Live
    <2> QED
      BY <2>1, <2>2, <2>3, <2>4 DEF InternerInv, ListsLead
  <1>8. ScenesFound'
    <2>1. \A j \in DOMAIN results' : j + 1 \in DOMAIN results /\ results'[j] = results[j + 1]
      BY <1>4
    <2>2. 1 \in DOMAIN results
      BY <1>4
    <2>3. InternedFound'
      BY <1>1, <1>3, <2>2 DEF InternerInv, ScenesFound, InternedFound
    <2> QED
      BY <2>1, <2>3 DEF InternerInv, ScenesFound
  <1> QED
    BY <1>5, <1>6, <1>7, <1>8 DEF InternerInv

-----------------------------------------------------------------------------
(* The inductive invariant: the interner's books balance, the lists on     *)
(* their way lead from the store to what the interner expects, and each    *)
(* scene finds its items once its list is applied (intern.rs).             *)
THEOREM Lead == Spec => [](TypeOK /\ InternerInv)
  <1>1. Init => TypeOK /\ InternerInv
    BY InitInv
  <1>2. TypeOK /\ InternerInv /\ [Next]_vars => TypeOK' /\ InternerInv'
    <2> SUFFICES ASSUME TypeOK, InternerInv, [Next]_vars
                 PROVE  TypeOK' /\ InternerInv'
      OBVIOUS
    <2>1. ASSUME NEW k \in Keys, InternKnown(k)
          PROVE  TypeOK' /\ InternerInv'
      BY <2>1, KnownStep
    <2>2. ASSUME NEW k \in Keys, InternNew(k)
          PROVE  TypeOK' /\ InternerInv'
      BY <2>2, NewStep
    <2>3. CASE EndScene
      BY <2>3, EndStep
    <2>4. CASE SwapScene
      BY <2>4, SwapStep
    <2>5. CASE ApplyUpdates
      BY <2>5, ApplyStep
    <2>6. CASE UNCHANGED vars
      <3>1. UNCHANGED <<map, free_list, local_data, count, inserts, current_epoch, scene,
                        results, items, len, shown, rb>>
        BY <2>6 DEF vars, internerVars, storeVars
      <3> QED
        BY <3>1 DEF TypeOK, InternerInv, BooksBalance, Interned, Live, ListsLead, View,
           LastAfter, LastUpto, ScenesFound, InternedFound
    <2> QED
      BY <2>1, <2>2, <2>3, <2>4, <2>5, <2>6 DEF Next
  <1> QED
    BY <1>1, <1>2, PTL DEF Spec

(* No frame is built with an item missing or with another one in its       *)
(* place, however long an item survives and however many scenes are on     *)
(* their way (expect("Bad datastore lookup")).                             *)
THEOREM Found == Spec => []InternedFound
  <1>1. TypeOK /\ InternerInv => InternedFound
    BY DEF InternerInv, ScenesFound
  <1> QED
    BY <1>1, Lead, PTL

(* The render backend can apply every list: no insertion leaves a gap and  *)
(* no removal is out of bounds (VecHelper::entry, DataStore::apply_updates). *)
THEOREM Fit == Spec => []UpdatesFit
  <1>1. TypeOK /\ InternerInv => UpdatesFit
    <2> SUFFICES ASSUME TypeOK, InternerInv, rb = "swapped"
                 PROVE  Fits(len, Head(results))
      BY DEF UpdatesFit
    <2>1. Head(results) = results[1] /\ results[1] \in Built
      BY DEF TypeOK, InternerInv, ScenesFound
    <2>2. Follows(items, len, results[1])
      BY DEF InternerInv, ScenesFound, ListsLead
    <2>3. Grown(len, results[1]) = results[1].upto
      BY <2>1, <2>2, GrownUpto DEF TypeOK
    <2>4. results[1].upto \in 0..MaxItems /\ len \in 0..MaxItems
      BY <2>1 DEF Built, TypeOK
    <2>5. \A i \in len..(results[1].upto - 1) : results[1].inserts[i] # NoKey
      BY <2>2, <2>4, InterningAssumption DEF Follows, Indices
    <2> QED
      BY <2>1, <2>2, <2>3, <2>5 DEF Fits, Follows
  <1> QED
    BY <1>1, Lead, PTL

(* Nothing leaks: once every list is applied the store holds exactly what  *)
(* the interner maps.                                                      *)
THEOREM NoLeak == Spec => []StoreFollows
  <1>1. TypeOK /\ InternerInv => StoreFollows
    <2> SUFFICES ASSUME TypeOK, InternerInv, results = <<>>, inserts = Empty,
                        NEW i \in Indices, NEW k \in Keys
                 PROVE  items[i] = k <=> map[k].index = i
      BY DEF StoreFollows
    <2>1. items[i] = View[i]
      BY DEF InternerInv, ListsLead, LastAfter, Empty
    <2>2. ASSUME View[i] = k
          PROVE  map[k].index = i
      <3>1. Live(i) /\ local_data[i] = k
        BY <2>2, InterningAssumption DEF View
      <3> QED
        BY <3>1 DEF InternerInv, BooksBalance
    <2>3. ASSUME map[k].index = i
          PROVE  View[i] = k
      <3>1. Interned(k)
        BY <2>3, InterningAssumption DEF Interned, NoIndex, Indices
      <3> QED
        BY <2>3, <3>1 DEF InternerInv, BooksBalance, View
    <2> QED
      BY <2>1, <2>2, <2>3
  <1> QED
    BY <1>1, Lead, PTL
=============================================================================
