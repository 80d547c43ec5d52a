------------------------------ MODULE FreeList ------------------------------
(***************************************************************************)
(* freelist.rs: the vector with an internal free list behind the texture   *)
(* cache and the render task cache, with the handles its users hold.       *)
(***************************************************************************)
EXTENDS Integers, FiniteSets

CONSTANTS
  Values,     \* the entries T
  Nothing,    \* Option::None
  Panic,      \* an unwrap() or an index failed
  EpochSpan,  \* Epoch is a u32: 2^32
  MaxSlots,   \* BOUND on the length of the vector
  MaxFrees    \* BOUND on the calls of free(), so that no epoch wraps

ASSUME FreeListAssumption ==
  /\ Nothing \notin Values /\ Panic \notin Values /\ Panic # Nothing
  /\ EpochSpan \in Nat /\ MaxSlots \in Nat \ {0} /\ MaxFrees \in Nat
  /\ MaxFrees + 1 < EpochSpan

NoSlot == -1

SlotIndices == 0..(MaxSlots - 1)

Slot == [next : SlotIndices \cup {NoSlot}, epoch : 0..(EpochSpan - 1),
         value : Values \cup {Nothing}]

(* FreeListHandle and WeakFreeListHandle hold the same pair.               *)
SlotHandle == [index : SlotIndices, epoch : 0..(EpochSpan - 1)]

InvalidHandle == [index |-> 0, epoch |-> 0]

VARIABLES
  slots, free_list_head, active_count,   \* FreeList
  size,     \* slots.len()
  strong,   \* the strong handles, each held by one owner
  issued,   \* every handle returned since clear(): weak copies of them may exist
  found,    \* what the last operation answered
  frees     \* the calls of free() so far

listVars == <<slots, free_list_head, active_count, size, strong, issued, found, frees>>

ListTypeOK ==
  /\ size \in 1..MaxSlots
  /\ slots \in [0..(size - 1) -> Slot]
  /\ free_list_head \in 0..(size - 1) \cup {NoSlot}
  /\ active_count \in Int
  /\ strong \subseteq SlotHandle /\ issued \subseteq SlotHandle
  /\ found \in Values \cup {Nothing, Panic}
  /\ frees \in 0..MaxFrees

FirstSlot == [next |-> NoSlot, epoch |-> 1, value |-> Nothing]

(* FreeList::new: never without a slot, so that the invalid handle can be  *)
(* looked up.                                                              *)
ListInit ==
  /\ slots = [i \in {0} |-> FirstSlot] /\ size = 1
  /\ free_list_head = 0 /\ active_count = 0
  /\ strong = {} /\ issued = {} /\ found = Nothing /\ frees = 0

HandleOf(i) == [index |-> i, epoch |-> slots[i].epoch]

Given(h) == strong' = strong \cup {h} /\ issued' = issued \cup {h}

TakeFreeSlotDropsList(v) ==
  /\ free_list_head # NoSlot
  /\ slots' = [slots EXCEPT ![free_list_head] = [@ EXCEPT !.next = NoSlot, !.value = v]]
  /\ free_list_head' = NoSlot
  /\ size' = size
  /\ Given(HandleOf(free_list_head))

(* insert, from the free list ...                                          *)
TakeFreeSlot(v) ==
  /\ free_list_head # NoSlot
  /\ slots' = [slots EXCEPT ![free_list_head] = [@ EXCEPT !.next = NoSlot, !.value = v]]
  /\ free_list_head' = slots[free_list_head].next
  /\ size' = size
  /\ Given(HandleOf(free_list_head))

(* ... or at the end of the vector.                                        *)
PushSlot(v) ==
  /\ free_list_head = NoSlot
  /\ size < MaxSlots
  /\ slots' = [i \in 0..size |-> IF i = size THEN [FirstSlot EXCEPT !.value = v] ELSE slots[i]]
  /\ size' = size + 1
  /\ free_list_head' = free_list_head
  /\ Given([index |-> size, epoch |-> 1])

Inserted(v) ==
  /\ active_count' = active_count + 1
  /\ TakeFreeSlot(v) \/ PushSlot(v)
  /\ found' = Nothing

Insert(v) == found # Panic /\ Inserted(v) /\ UNCHANGED frees

Fails == found' = Panic /\ UNCHANGED <<slots, free_list_head, active_count, size, strong,
                                       issued, frees>>

(* The slot a weak handle is looked up in.                                 *)
Matches(h) == slots[h.index].epoch = h.epoch

(* get_opt and get_opt_mut.                                                *)
GetOpt(h) ==
  /\ found # Panic
  /\ found' = CASE h.index >= size -> Panic
                [] h.index < size /\ Matches(h) -> slots[h.index].value
                [] OTHER -> Nothing
  /\ UNCHANGED <<slots, free_list_head, active_count, size, strong, issued, frees>>

(* upsert.                                                                 *)
Upsert(h, v) ==
  /\ found # Panic
  /\ \/ h.index >= size /\ Fails
     \/ /\ h.index < size /\ Matches(h)
        /\ IF slots[h.index].value = Nothing
           THEN Fails
           ELSE /\ slots' = [slots EXCEPT ![h.index].value = v]
                /\ found' = slots[h.index].value
                /\ UNCHANGED <<free_list_head, active_count, size, strong, issued, frees>>
     \/ h.index < size /\ ~Matches(h) /\ Inserted(v) /\ UNCHANGED frees

FreedSlotKeepsEpoch(slot) ==
  [next |-> free_list_head, epoch |-> slot.epoch, value |-> Nothing]

FreedSlot(slot) ==
  [next |-> free_list_head, epoch |-> (slot.epoch + 1) % EpochSpan, value |-> Nothing]

(* free, which consumes the strong handle and trusts its epoch.            *)
Free(h) ==
  /\ found # Panic /\ frees < MaxFrees
  /\ frees' = frees + 1
  /\ active_count' = active_count - 1
  /\ strong' = strong \ {h}
  /\ slots' = [slots EXCEPT ![h.index] = FreedSlot(@)]
  /\ free_list_head' = h.index
  /\ found' = IF slots[h.index].value = Nothing THEN Panic ELSE slots[h.index].value
  /\ UNCHANGED <<size, issued>>

(* clear: the owner forgets its strong handles (RenderTaskCache::clear).   *)
(* Epochs start again, so a weak copy from before may match an entry that  *)
(* comes after: from here on only handles of the cleared list are followed.*)
Clear ==
  /\ found # Panic
  /\ slots' = [i \in {0} |-> FirstSlot] /\ size' = 1
  /\ free_list_head' = 0 /\ active_count' = 0
  /\ strong' = {} /\ issued' = {}
  /\ found' = Nothing
  /\ UNCHANGED frees

ListNext ==
  \/ \E v \in Values : Insert(v)
  \/ \E h \in issued \cup {InvalidHandle} : GetOpt(h) \/ \E v \in Values : Upsert(h, v)
  \/ \E h \in strong : Free(h)
  \/ Clear

ListSpec == ListInit /\ [][ListNext]_listVars
-----------------------------------------------------------------------------
Occupied(i) == slots[i].value # Nothing

(* Every operation finds the slot its handle is for: no unwrap() fails and *)
(* no index is out of bounds.                                              *)
NoPanic == found # Panic

(* Whoever holds a strong handle owns an occupied slot, alone, and every   *)
(* occupied slot has an owner who can free it.                             *)
OneOwner ==
  /\ \A h \in strong : h.index < size /\ Occupied(h.index) /\ h = HandleOf(h.index)
  /\ \A i \in 0..(size - 1) : Occupied(i) => HandleOf(i) \in strong

(* Whatever was freed, no slot is lost: walking the free list from its     *)
(* head passes every free slot and ends.                                   *)
Walk[n \in 0..size] == IF n = 0 THEN free_list_head
                      ELSE IF Walk[n - 1] = NoSlot THEN NoSlot
                      ELSE slots[Walk[n - 1]].next

FreeSlots == {i \in 0..(size - 1) : ~Occupied(i)}

NoSlotLost == /\ {Walk[n] : n \in 0..size} = FreeSlots \cup {NoSlot}
              /\ active_count = size - Cardinality(FreeSlots)

(* A weak handle whose entry was freed stays invalid, even when the slot   *)
(* is used again (freelist.rs: "weak handle lookups properly fail even if  *)
(* the entry has been freed and reused").                                  *)
Valid(h) == h.index < size /\ Matches(h) /\ Occupied(h.index)

StaysInvalid == [][\A h \in issued : ~Valid(h) => ~Valid(h)']_listVars

(* The handle store that the documentation describes.                      *)
Store == INSTANCE HandleStore
           WITH Handles <- SlotHandle, live <- [h \in strong |-> slots[h.index].value]

StoreSpec == Store!Spec

(* Why all this holds: free slots form a list without sharing, which the   *)
(* occupied slots are not on, and an epoch in use was never given out for  *)
(* an earlier entry of the slot.                                           *)
FreeListShape ==
  /\ free_list_head # NoSlot => ~Occupied(free_list_head)
  /\ \A i \in 0..(size - 1) :
       IF Occupied(i) THEN slots[i].next = NoSlot
       ELSE slots[i].next # NoSlot =>
              /\ slots[i].next < size /\ ~Occupied(slots[i].next)
              /\ slots[i].next # free_list_head
              /\ \A j \in 0..(size - 1) : ~Occupied(j) /\ slots[j].next = slots[i].next => j = i

EpochsFresh ==
  /\ \A i \in 0..(size - 1) : slots[i].epoch \in 1..(frees + 1)
  /\ \A h \in issued : /\ h.index < size /\ h.epoch \in 1..slots[h.index].epoch
                       /\ Matches(h) => Occupied(h.index)

FreeListInv == NoPanic /\ OneOwner /\ FreeListShape /\ EpochsFresh
=============================================================================
