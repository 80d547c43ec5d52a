------------------------------- MODULE Batching -------------------------------
(***************************************************************************)
(* The batches of a render target (batch.rs): which batch an instance is   *)
(* put in, the merge of the batches of several tasks into those of their   *)
(* target, and what the renderer's two passes leave on each pixel.         *)
(*                                                                         *)
(* A key is [kind, blend, texture]; a rect is a set of pixels, and those   *)
(* of different tasks are disjoint. An instance is [id, rect, z].          *)
(***************************************************************************)
EXTENDS Integers, Sequences, FiniteSets, SequencesExt

CONSTANTS
    LookbackCount,   \* batch_lookback_count
    AreaThreshold    \* pixel_area_threshold_for_new_batch

NoTexture == "Invalid"

Compatible(k, l) ==
    /\ k.kind = l.kind
    /\ k.blend = l.blend
    /\ \/ k.texture = l.texture
       \/ NoTexture \in {k.texture, l.texture}

EmptyContainer == [opaque |-> <<>>, alpha |-> <<>>]

\* current is the opaque batch of the last opaque instance, if any.
EmptyLists == [opaque |-> <<>>, alpha |-> <<>>, current |-> 0]

-----------------------------------------------------------------------------
(***************************************************************************)
(* A batch is [key, instances]. The item_rects of an alpha batch are the   *)
(* rects of its instances.                                                 *)
(***************************************************************************)
Overlaps(batch, rect) ==
    \E i \in DOMAIN batch.instances : batch.instances[i].rect \cap rect # {}

LookedBack(batches) ==
    {i \in DOMAIN batches : i > Len(batches) - LookbackCount}

\* The instances of such a batch are drawn in three passes, all in each pass.
NeedsDistinctPixels(key) == key.blend = "SubpixelWithBgColor"

(***************************************************************************)
(* The batches that an alpha instance can join without being drawn before  *)
(* something that it covers.                                                *)
(***************************************************************************)
AlphaCandidates(batches, key, rect) ==
    {i \in LookedBack(batches) :
        /\ Compatible(batches[i].key, key)
        /\ \A j \in (i + 1)..Len(batches) : ~Overlaps(batches[j], rect)
        /\ NeedsDistinctPixels(key) => ~Overlaps(batches[i], rect)}

(***************************************************************************)
(* An opaque instance can be drawn at any time: the z buffer sorts it out. *)
(* It stays in the current batch if that takes it; otherwise a large one   *)
(* only joins the last batch.                                              *)
(***************************************************************************)
OpaqueCandidates(batches, key, rect) ==
    {i \in LookedBack(batches) :
        /\ Compatible(batches[i].key, key)
        /\ Cardinality(rect) > AreaThreshold => i = Len(batches)}

StaysInCurrent(lists, key) ==
    /\ lists.current # 0
    /\ Compatible(lists.opaque[lists.current].key, key)

\* The last of the candidates, or a new batch.
Chosen(batches, candidates) ==
    IF candidates = {} THEN Len(batches) + 1
    ELSE CHOOSE i \in candidates : \A j \in candidates : j <= i

PutIn(batches, i, key, instance) ==
    IF i > Len(batches)
    THEN Append(batches, [key |-> key, instances |-> <<instance>>])
    ELSE [batches EXCEPT ![i].instances = Append(@, instance)]

AddOpaque(lists, key, instance) ==
    LET i == IF StaysInCurrent(lists, key) THEN lists.current
             ELSE Chosen(lists.opaque,
                         OpaqueCandidates(lists.opaque, key, instance.rect))
    IN  [lists EXCEPT !.opaque = PutIn(@, i, key, instance), !.current = i]

AddAlpha(lists, key, instance) ==
    LET i == Chosen(lists.alpha, AlphaCandidates(lists.alpha, key, instance.rect))
    IN  [lists EXCEPT !.alpha = PutIn(@, i, key, instance)]

AddInstance(lists, key, instance) ==
    IF key.blend = "None" THEN AddOpaque(lists, key, instance)
    ELSE AddAlpha(lists, key, instance)

\* The batches of one surface: items is a sequence of [key, rect, id] in
\* painting order, each of which takes the next z.
Batches(items) ==
    LET Add(lists, z) ==
            AddInstance(lists, items[z].key,
                        [id |-> items[z].id, rect |-> items[z].rect, z |-> z])
    IN  FoldLeft(Add, EmptyLists, [z \in DOMAIN items |-> z])

Finalized(lists) ==
    [lists EXCEPT !.opaque =
        [i \in DOMAIN @ |-> [@[i] EXCEPT !.instances = Reverse(@)]]]

-----------------------------------------------------------------------------
(***************************************************************************)
(* Merging the batches of a task into those of its target. The alpha       *)
(* batches of a task keep their order: one is never put before the batch   *)
(* that took the one before it.                                            *)
(***************************************************************************)
FirstCompatible(batches, key, from) ==
    LET found == {i \in from..Len(batches) : Compatible(batches[i].key, key)}
    IN  IF found = {} THEN 0 ELSE CHOOSE i \in found : \A j \in found : i <= j

\* Mutant: each batch of a task looks for the first compatible one.
MergeBatchAnywhere(batches, batch, from) ==
    LET i == FirstCompatible(batches, batch.key, 1)
    IN  IF i = 0
        THEN [batches |-> Append(batches, batch), at |-> Len(batches) + 1]
        ELSE [batches |-> [batches EXCEPT ![i].instances = @ \o batch.instances],
              at |-> i]

MergeBatch(batches, batch, from) ==
    LET i == FirstCompatible(batches, batch.key, from)
    IN  IF i = 0
        THEN [batches |-> Append(batches, batch), at |-> Len(batches) + 1]
        ELSE [batches |-> [batches EXCEPT ![i].instances = @ \o batch.instances],
              at |-> i]

MergedOpaque(container, batches) ==
    FoldLeft(LAMBDA c, b : MergeBatch(c, b, 1).batches, container, batches)

MergedAlpha(container, batches) ==
    FoldLeft(LAMBDA s, b : MergeBatch(s.batches, b, s.at),
             [batches |-> container, at |-> 1], batches).batches

Merged(container, lists) ==
    [opaque |-> MergedOpaque(container.opaque, lists.opaque),
     alpha  |-> MergedAlpha(container.alpha, lists.alpha)]

-----------------------------------------------------------------------------
(***************************************************************************)
(* What the renderer leaves on a pixel: the ids that show, from the bottom *)
(* up. Opaque batches are drawn last to first with the z buffer written,   *)
(* then alpha batches in order with the z buffer tested.                   *)
(***************************************************************************)
Instances(batches) == FlattenSeq([i \in DOMAIN batches |-> batches[i].instances])

OpaqueAt(container, pixel) ==
    LET Draw(shown, instance) ==
            IF pixel \in instance.rect /\ instance.z >= shown.z
            THEN [z |-> instance.z, ids |-> <<instance.id>>]
            ELSE shown
    IN  FoldLeft(Draw, [z |-> 0, ids |-> <<>>],
                 Instances(Reverse(container.opaque)))

\* Each pass of a subpixel batch draws all its instances, so that two of them
\* on a pixel spoil it.
Spoiled == "spoiled"

AlphaBatchAt(batch, pixel, z) ==
    LET shown == SelectSeq(batch.instances,
                           LAMBDA i : pixel \in i.rect /\ i.z >= z)
        ids   == [i \in DOMAIN shown |-> shown[i].id]
    IN  IF NeedsDistinctPixels(batch.key) /\ Len(ids) > 1 THEN <<Spoiled>> ELSE ids

Drawn(container, pixel) ==
    LET opaque == OpaqueAt(container, pixel)
    IN  opaque.ids \o
        FlattenSeq([i \in DOMAIN container.alpha |->
                        AlphaBatchAt(container.alpha[i], pixel, opaque.z)])

\* What should be on it: everything from the last opaque item up.
Painted(items, pixel) ==
    LET covers == SelectSeq(items, LAMBDA i : pixel \in i.rect)
        opaque == {i \in DOMAIN covers : covers[i].key.blend = "None"}
        first  == IF opaque = {} THEN 1
                  ELSE CHOOSE i \in opaque : \A j \in opaque : j <= i
    IN  [i \in 1..(Len(covers) - first + 1) |-> covers[first + i - 1].id]
=============================================================================
