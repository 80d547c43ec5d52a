----------------------- MODULE TextureTransferProofs -----------------------
(***************************************************************************)
(* Theorems about TextureTransfer.  Without debug clears the lists of the  *)
(* texture cache agree with what the renderer has, and coalescing and      *)
(* delay are not to be seen, whatever the number of textures, layers and   *)
(* lists on their way.                                                     *)
(***************************************************************************)
EXTENDS TextureTransfer, TLAPS

-----------------------------------------------------------------------------
(* What the operators of TextureUpdates do, texture by texture.            *)

LEMMA SameTexture ==
  ASSUME NEW x \in Texture, NEW y \in Texture, x.layers = y.layers,
         \A l \in Layers : x.contents[l] = y.contents[l]
  PROVE  x = y
  BY DEF Texture

LEMMA AllocatedAt ==
  ASSUME NEW x \in Texture, NEW c \in Allocation
  PROVE  /\ Allocated(x, c) \in Texture
         /\ c.kind = "None" => Allocated(x, c) = x
         /\ c.kind # "None" => Allocated(x, c).layers = c.layers
         /\ c.kind = "Realloc" => Allocated(x, c).contents = x.contents
         /\ c.kind \in {"Alloc", "Reset", "Free"} =>
              Allocated(x, c).contents = [l \in Layers |-> Undefined]
  BY TextureAssumption DEF Allocated, Texture, Allocation, Fresh, Layers

LEMMA AppliedAt ==
  ASSUME NEW m \in [Ids -> Texture], NEW list \in UpdateList
  PROVE  /\ Applied(m, list) \in [Ids -> Texture]
         /\ \A t \in Ids :
              /\ Applied(m, list)[t].layers = Allocated(m[t], list.allocations[t]).layers
              /\ \A l \in Layers : Applied(m, list)[t].contents[l] =
                   IF list.updates[t][l] # Undefined THEN list.updates[t][l]
                   ELSE Allocated(m[t], list.allocations[t]).contents[l]
  <1> DEFINE x(t) == Allocated(m[t], list.allocations[t])
  <1>1. \A t \in Ids : x(t) \in Texture /\ list.updates[t] \in [Layers -> Contents \cup {Undefined}]
    BY AllocatedAt DEF UpdateList
  <1>2. Applied(m, list) = [t \in Ids |-> [x(t) EXCEPT !.contents = [l \in Layers |->
                              IF list.updates[t][l] # Undefined THEN list.updates[t][l] ELSE @[l]]]]
    BY DEF Applied
  <1> HIDE DEF x
  <1>3. ASSUME NEW t \in Ids
        PROVE  /\ Applied(m, list)[t] \in Texture
               /\ Applied(m, list)[t].layers = x(t).layers
               /\ \A l \in Layers : Applied(m, list)[t].contents[l] =
                    IF list.updates[t][l] # Undefined THEN list.updates[t][l] ELSE x(t).contents[l]
    <2> PICK y \in Texture, u \in [Layers -> Contents \cup {Undefined}] :
               y = x(t) /\ u = list.updates[t]
      BY <1>1
    <2>1. Applied(m, list)[t] = [y EXCEPT !.contents = [l \in Layers |->
                                   IF u[l] # Undefined THEN u[l] ELSE @[l]]]
      BY <1>2
    <2> QED
      BY <2>1 DEF Texture
  <1> QED
    BY <1>2, <1>3 DEF x

(* A texture for which two lists say the same is the same.                 *)
LEMMA AppliedSame ==
  ASSUME NEW m \in [Ids -> Texture], NEW list \in UpdateList, NEW other \in UpdateList,
         NEW t \in Ids, other.allocations[t] = list.allocations[t],
         other.updates[t] = list.updates[t]
  PROVE  Applied(m, other)[t] = Applied(m, list)[t]
  <1> DEFINE x == Applied(m, other)[t]
             y == Applied(m, list)[t]
  <1>1. x \in Texture /\ y \in Texture
    BY AppliedAt
  <1>2. x.layers = y.layers
    BY AppliedAt
  <1>3. ASSUME NEW l \in Layers
        PROVE  x.contents[l] = y.contents[l]
    <2> DEFINE old == Allocated(m[t], list.allocations[t]).contents[l]
    <2>1. x.contents[l] = IF other.updates[t][l] # Undefined THEN other.updates[t][l] ELSE old
      BY AppliedAt
    <2>2. y.contents[l] = IF list.updates[t][l] # Undefined THEN list.updates[t][l] ELSE old
      BY AppliedAt
    <2> QED
      BY <2>1, <2>2
  <1> QED
    BY <1>1, <1>2, <1>3, SameTexture

LEMMA EmptyListAt ==
  /\ EmptyList \in UpdateList
  /\ \A t \in Ids : EmptyList.allocations[t] = NoAllocation /\ EmptyList.updates[t] = NoUpdates
  BY DEF EmptyList, UpdateList, Allocation, NoAllocation, NoUpdates

LEMMA EmptyListApplied ==
  ASSUME NEW m \in [Ids -> Texture]
  PROVE  Applied(m, EmptyList) = m /\ Agrees(m, EmptyList)
  <1>1. \A t \in Ids : Applied(m, EmptyList)[t] = m[t]
    BY EmptyListAt, AppliedAt, AllocatedAt, SameTexture
       DEF NoAllocation, NoUpdates, Allocation
  <1>2. Applied(m, EmptyList) \in [Ids -> Texture]
    BY EmptyListAt, AppliedAt
  <1> QED
    BY <1>1, <1>2, EmptyListAt
       DEF Agrees, AllocationsAgree, UpdatesLand, NoAllocation, NoUpdates

LEMMA PushUpdateAt ==
  ASSUME NEW list \in UpdateList, NEW t \in Ids, NEW l \in Layers, NEW c \in Contents
  PROVE  /\ PushUpdate(list, t, l, c) \in UpdateList
         /\ PushUpdate(list, t, l, c).allocations = list.allocations
         /\ \A u \in Ids : u # t => PushUpdate(list, t, l, c).updates[u] = list.updates[u]
         /\ \A k \in Layers : PushUpdate(list, t, l, c).updates[t][k] =
              IF k = l THEN c ELSE list.updates[t][k]
  BY DEF PushUpdate, UpdateList

LEMMA PushAllocAt ==
  ASSUME NEW list \in UpdateList, NEW t \in Ids, NEW n \in 1..MaxLayers
  PROVE  /\ PushAlloc(list, t, n) \in UpdateList
         /\ PushAlloc(list, t, n).updates = list.updates
         /\ \A u \in Ids : u # t => PushAlloc(list, t, n).allocations[u] = list.allocations[u]
         /\ PushAlloc(list, t, n).allocations[t] = [kind |-> "Alloc", layers |-> n]
  BY DEF PushAlloc, UpdateList, Allocation

LEMMA PushReallocAt ==
  ASSUME NEW list \in UpdateList, NEW t \in Ids, NEW n \in 1..MaxLayers,
         ~AlreadyFreed(list, t)
  PROVE  /\ PushRealloc(list, t, n) \in UpdateList
         /\ PushRealloc(list, t, n).updates = list.updates
         /\ \A u \in Ids : u # t => PushRealloc(list, t, n).allocations[u] = list.allocations[u]
         /\ PushRealloc(list, t, n).allocations[t] =
              [kind |-> IF list.allocations[t].kind = "None" THEN "Realloc"
                        ELSE list.allocations[t].kind, layers |-> n]
  <1>1. list.allocations[t].kind \in {"None", "Alloc", "Realloc", "Reset"}
    BY DEF UpdateList, Allocation, AlreadyFreed
  <1> QED
    BY <1>1 DEF PushRealloc, UpdateList, Allocation

LEMMA PushResetAt ==
  ASSUME NEW list \in UpdateList, NEW t \in Ids, NEW n \in 1..MaxLayers
  PROVE  /\ PushReset(list, t, n) \in UpdateList
         /\ PushReset(list, t, n).updates = list.updates
         /\ \A u \in Ids : u # t => PushReset(list, t, n).allocations[u] = list.allocations[u]
         /\ PushReset(list, t, n).allocations[t] =
              [kind |-> IF list.allocations[t].kind = "Alloc" THEN "Alloc" ELSE "Reset",
               layers |-> n]
  BY DEF PushReset, UpdateList, Allocation

LEMMA PushFreeAt ==
  ASSUME NEW list \in UpdateList, NEW freed
  PROVE  /\ PushFree(list, freed) \in UpdateList
         /\ \A u \in Ids : u \notin freed =>
              /\ PushFree(list, freed).allocations[u] = list.allocations[u]
              /\ PushFree(list, freed).updates[u] = list.updates[u]
         /\ \A u \in Ids : u \in freed =>
              /\ PushFree(list, freed).allocations[u] =
                   IF list.allocations[u].kind = "Alloc" THEN NoAllocation
                   ELSE [kind |-> "Free", layers |-> 0]
              /\ PushFree(list, freed).updates[u] = NoUpdates
  BY DEF PushFree, UpdateList, Allocation, NoAllocation, NoUpdates

LEMMA EvictedNothing ==
  ASSUME ~DebugClears, NEW list \in UpdateList, NEW freed
  PROVE  Evicted(list, freed) = list
  BY DEF Evicted, UpdateList

-----------------------------------------------------------------------------
(* The list on its way, texture by texture.                                *)

(* What Agrees says of a texture.                                          *)
Fits(x, c, updates) ==
  /\ c.kind = "Alloc" => x.layers = 0
  /\ c.kind = "Realloc" => x.layers \in 1..c.layers
  /\ c.kind \in {"Reset", "Free"} => x.layers # 0
  /\ \A l \in Layers : updates[l] # Undefined => l < Allocated(x, c).layers

LEMMA AgreesAt ==
  ASSUME NEW m, NEW list
  PROVE  Agrees(m, list) <=>
           \A t \in Ids : Fits(m[t], list.allocations[t], list.updates[t])
  BY DEF Agrees, AllocationsAgree, UpdatesLand, Fits

LEMMA LastAfterType ==
  ASSUME TypeOK
  PROVE  LastAfter \in [Ids -> Texture]
  <1>1. CASE sent = <<>>
    BY <1>1 DEF LastAfter, TypeOK
  <1>2. CASE sent # <<>>
    <2>1. Len(sent) \in 1..Len(sent)
      BY <1>2 DEF TypeOK
    <2>2. sent[Len(sent)] \in Sent
      BY <2>1 DEF TypeOK
    <2> QED
      BY <1>2, <2>2 DEF LastAfter, Sent
  <1> QED
    BY <1>1, <1>2

LEMMA PendingAt ==
  ASSUME TypeOK, TransferInv, NEW t \in Ids
  PROVE  /\ LastAfter[t] \in Texture
         /\ pending_updates.allocations[t] \in Allocation
         /\ Fits(LastAfter[t], pending_updates.allocations[t], pending_updates.updates[t])
         /\ Allocated(LastAfter[t], pending_updates.allocations[t]).layers = layers[t]
         /\ kind[t] # "none" => /\ layers[t] \in 1..MaxLayers
                               /\ ~AlreadyFreed(pending_updates, t)
                               /\ t < next_id
  <1>1. LastAfter \in [Ids -> Texture] /\ pending_updates \in UpdateList
    BY LastAfterType DEF TypeOK
  <1>2. pending_updates.allocations[t] \in Allocation
    BY <1>1 DEF UpdateList
  <1>3. Fits(LastAfter[t], pending_updates.allocations[t], pending_updates.updates[t])
    BY AgreesAt DEF TransferInv, ListsLead
  <1>4. Allocated(LastAfter[t], pending_updates.allocations[t]).layers = layers[t]
    BY <1>1, AppliedAt DEF TransferInv, PendingFits, Believed
  <1>5. ASSUME kind[t] # "none"
        PROVE  /\ layers[t] \in 1..MaxLayers
               /\ ~AlreadyFreed(pending_updates, t)
               /\ t < next_id
    <2>1. layers[t] \in 1..MaxLayers
      BY <1>5, TextureAssumption DEF TypeOK, TransferInv, CacheShape
    <2>2. ~AlreadyFreed(pending_updates, t)
      BY <1>1, <1>2, <1>4, <2>1, AllocatedAt DEF AlreadyFreed, Allocation
    <2>3. t < next_id
      BY <1>5 DEF TypeOK, TransferInv, CacheShape, Ids
    <2> QED
      BY <2>1, <2>2, <2>3
  <1> QED
    BY <1>1, <1>2, <1>3, <1>4, <1>5

(* A step of the cache that changes the pending list only where it changes *)
(* the cache keeps the invariant if it does so there.                      *)
LEMMA PushedStep ==
  ASSUME TypeOK, TransferInv, TypeOK', CacheShape', UNCHANGED <<sent, textures>>,
         NEW touched,
         next_id' >= next_id,
         \A t \in Ids : t \notin touched =>
            /\ pending_updates'.allocations[t] = pending_updates.allocations[t]
            /\ pending_updates'.updates[t] = pending_updates.updates[t]
            /\ layers'[t] = layers[t] /\ kind'[t] = kind[t],
         \A t \in Ids : t \in touched =>
            /\ Fits(LastAfter[t], pending_updates'.allocations[t], pending_updates'.updates[t])
            /\ Allocated(LastAfter[t], pending_updates'.allocations[t]).layers = layers'[t]
            /\ t < next_id'
            /\ Silent(t)' => pending_updates'.updates[t] = NoUpdates
  PROVE  /\ TransferInv'
         /\ LastAfter' = LastAfter
         /\ Believed' \in [Ids -> Texture]
         /\ \A t \in Ids : t \notin touched => Believed'[t] = Believed[t]
  <1>1. LastAfter' = LastAfter
    BY DEF LastAfter
  <1>2. /\ LastAfter \in [Ids -> Texture]
        /\ pending_updates \in UpdateList /\ pending_updates' \in UpdateList
    BY LastAfterType DEF TypeOK
  <1>3. Believed' = Applied(LastAfter, pending_updates')
    BY <1>1 DEF Believed
  <1>4. \A t \in Ids : t \notin touched => Believed'[t] = Believed[t]
    BY <1>2, <1>3, AppliedSame DEF Believed
  <1>5. Agrees(LastAfter, pending_updates')
    BY PendingAt, AgreesAt
  <1>6. ListsLead'
    BY <1>1, <1>5 DEF TransferInv, ListsLead, Follows
  <1>7. \A t \in Ids : Believed'[t].layers = layers'[t]
    BY <1>2, <1>3, AppliedAt, PendingAt
  <1>8. ASSUME NEW t \in Ids, t >= next_id'
        PROVE  LastAfter'[t] = NoTexture /\ pending_updates'.allocations[t] = NoAllocation
    <2>1. t \notin touched /\ t >= next_id
      BY <1>8 DEF TypeOK, Ids
    <2> QED
      BY <1>1, <2>1 DEF TransferInv, PendingFits
  <1>9. \A t \in Ids : Silent(t)' => pending_updates'.updates[t] = NoUpdates
    BY DEF TransferInv, PendingFits, Silent
  <1>10. PendingFits'
    BY <1>7, <1>8, <1>9 DEF PendingFits
  <1>11. Believed' \in [Ids -> Texture]
    BY <1>2, <1>3, AppliedAt
  <1> QED
    BY <1>1, <1>4, <1>6, <1>10, <1>11 DEF TransferInv

LEMMA PushedAt ==
  ASSUME TypeOK, TransferInv, TypeOK', CacheShape', UNCHANGED <<sent, textures>>,
         NEW t \in Ids,
         next_id' >= next_id,
         \A u \in Ids : u # t =>
            /\ pending_updates'.allocations[u] = pending_updates.allocations[u]
            /\ pending_updates'.updates[u] = pending_updates.updates[u]
            /\ layers'[u] = layers[u] /\ kind'[u] = kind[u],
         Fits(LastAfter[t], pending_updates'.allocations[t], pending_updates'.updates[t]),
         Allocated(LastAfter[t], pending_updates'.allocations[t]).layers = layers'[t],
         t < next_id',
         Silent(t)' => pending_updates'.updates[t] = NoUpdates
  PROVE  /\ TransferInv'
         /\ Believed' \in [Ids -> Texture]
         /\ \A u \in Ids : u # t => Believed'[u] = Believed[u]
  <1> DEFINE touched == {t}
  <1>1. \A u \in Ids : u \notin touched =>
            /\ pending_updates'.allocations[u] = pending_updates.allocations[u]
            /\ pending_updates'.updates[u] = pending_updates.updates[u]
            /\ layers'[u] = layers[u] /\ kind'[u] = kind[u]
    OBVIOUS
  <1>2. \A u \in Ids : u \in touched =>
            /\ Fits(LastAfter[u], pending_updates'.allocations[u], pending_updates'.updates[u])
            /\ Allocated(LastAfter[u], pending_updates'.allocations[u]).layers = layers'[u]
            /\ u < next_id'
            /\ Silent(u)' => pending_updates'.updates[u] = NoUpdates
    OBVIOUS
  <1>3. /\ TransferInv' /\ Believed' \in [Ids -> Texture]
        /\ \A u \in Ids : u \notin touched => Believed'[u] = Believed[u]
    <2> HIDE DEF touched
    <2> QED
      BY <1>1, <1>2, PushedStep
  <1> QED
    BY <1>3

-----------------------------------------------------------------------------
(* The steps of the cache, and what they are on the memory.                *)

LEMMA MemoryTexture ==
  Memory!Texture = Texture
  <1>1. {0} \cup {l + 1 : l \in Layers} = 0..MaxLayers
    <2>1. ASSUME NEW n \in 0..MaxLayers, n # 0
          PROVE  n - 1 \in Layers /\ n = (n - 1) + 1
      BY <2>1, TextureAssumption DEF Layers
    <2> QED
      BY <2>1, TextureAssumption DEF Layers
  <1> QED
    BY <1>1 DEF Memory!Texture, Texture

(* A memory that a step changes in one texture.                            *)
LEMMA OneTexture ==
  ASSUME Believed \in [Ids -> Texture], Believed' \in [Ids -> Texture],
         NEW t \in Ids, \A u \in Ids : u # t => Believed'[u] = Believed[u]
  PROVE  Believed' = [Believed EXCEPT ![t] = Believed'[t]]
  OBVIOUS

LEMMA BelievedType ==
  ASSUME TypeOK
  PROVE  Believed \in [Ids -> Texture]
  BY LastAfterType, AppliedAt DEF Believed, TypeOK

(* A texture, allocated in the list: one that is not there.                *)
LEMMA NewTextureStep ==
  ASSUME TypeOK, TransferInv, NEW k \in {"standalone", "shared"}, NewTexture(k)
  PROVE  TypeOK' /\ TransferInv' /\ Memory!Next
  <1>0. PICK t \in Ids : t = next_id
    BY DEF NewTexture, TypeOK, Ids
  <1>1. t = next_id /\ kind[t] = "none" /\ layers[t] = 0 /\ t # Picture /\ 1 \in 1..MaxLayers
    BY <1>0, TextureAssumption DEF NewTexture, TypeOK, TransferInv, CacheShape, Ids, Picture
  <1>2. /\ LastAfter[t] = NoTexture /\ pending_updates.allocations[t] = NoAllocation
        /\ pending_updates.updates[t] = NoUpdates
    <2>1. Silent(t)
      BY <1>1 DEF Silent
    <2>2. t >= next_id
      BY <1>1 DEF TypeOK
    <2> QED
      BY <2>1, <2>2 DEF TransferInv, PendingFits
  <1>3. /\ pending_updates \in UpdateList /\ pending_updates' \in UpdateList
        /\ pending_updates'.updates = pending_updates.updates
        /\ \A u \in Ids : u # t =>
             pending_updates'.allocations[u] = pending_updates.allocations[u]
        /\ pending_updates'.allocations[t] = [kind |-> "Alloc", layers |-> 1]
    BY <1>1, PushAllocAt DEF NewTexture, TypeOK
  <1>4. TypeOK'
    BY <1>1, <1>3, TextureAssumption DEF NewTexture, TypeOK, Ids
  <1>5. CacheShape'
    BY <1>1 DEF NewTexture, TransferInv, CacheShape, TypeOK, Ids, Picture
  <1>6. /\ pending_updates'.allocations[t] \in Allocation /\ LastAfter[t] \in Texture
        /\ LastAfter[t].layers = 0
    BY <1>1, <1>2, <1>3, LastAfterType DEF Allocation, NoTexture, Fresh
  <1>7. Allocated(LastAfter[t], pending_updates'.allocations[t]).layers = 1
    BY <1>3, <1>6, AllocatedAt
  <1>8. Fits(LastAfter[t], pending_updates'.allocations[t], pending_updates'.updates[t])
    BY <1>2, <1>3, <1>6 DEF Fits, NoUpdates
  <1>9. /\ TransferInv' /\ Believed' \in [Ids -> Texture]
        /\ \A u \in Ids : u # t => Believed'[u] = Believed[u]
    <2>1. next_id' >= next_id /\ t < next_id' /\ ~Silent(t)' /\ layers'[t] = 1
      BY <1>1 DEF NewTexture, TypeOK, Silent
    <2>2. \A u \in Ids : u # t =>
            /\ pending_updates'.allocations[u] = pending_updates.allocations[u]
            /\ pending_updates'.updates[u] = pending_updates.updates[u]
            /\ layers'[u] = layers[u] /\ kind'[u] = kind[u]
      BY <1>1, <1>3 DEF NewTexture, TypeOK
    <2>3. UNCHANGED <<sent, textures>>
      BY DEF NewTexture
    <2> QED
      BY <1>1, <1>4, <1>5, <1>7, <1>8, <2>1, <2>2, <2>3, PushedAt
  <1>10. Believed[t].layers = 0 /\ Believed'[t].layers = 1
    BY <1>1, <1>9 DEF NewTexture, TransferInv, PendingFits, TypeOK
  <1>11. Memory!Allocate(t, Believed'[t])
    BY <1>1, <1>9, <1>10, BelievedType, OneTexture DEF Memory!Allocate, Memory!Exists
  <1> QED
    BY <1>1, <1>4, <1>9, <1>11, MemoryTexture DEF Memory!Next

(* More layers for a texture: a reallocation, or more of what the list     *)
(* will allocate.                                                          *)
LEMMA GrowStep ==
  ASSUME TypeOK, TransferInv, UNCHANGED <<kind, next_id, sent, textures>>,
         NEW t \in Ids, kind[t] # "none", NEW n \in 1..MaxLayers, n > layers[t],
         layers' = [layers EXCEPT ![t] = n],
         pending_updates' = PushRealloc(pending_updates, t, n),
         slices' \subseteq Layers, \A l \in slices' : l < layers'[Picture]
  PROVE  TypeOK' /\ TransferInv' /\ Memory!Next
  <1> DEFINE c == pending_updates.allocations[t]
             d == pending_updates'.allocations[t]
  <1>1. /\ layers[t] \in 1..MaxLayers /\ layers \in [Ids -> 0..MaxLayers]
        /\ LastAfter[t] \in Texture /\ c \in Allocation
        /\ Fits(LastAfter[t], c, pending_updates.updates[t])
        /\ Allocated(LastAfter[t], c).layers = layers[t] /\ t < next_id
    BY PendingAt DEF TypeOK
  <1>2. /\ pending_updates' \in UpdateList
        /\ pending_updates'.updates = pending_updates.updates
        /\ \A u \in Ids : u # t =>
             pending_updates'.allocations[u] = pending_updates.allocations[u]
        /\ d = [kind |-> IF c.kind = "None" THEN "Realloc" ELSE c.kind, layers |-> n]
    BY PendingAt, PushReallocAt DEF TypeOK
  <1>3. TypeOK'
    BY <1>2, TextureAssumption DEF TypeOK
  <1>4. CacheShape'
    BY <1>1 DEF TransferInv, CacheShape
  <1>5. d \in Allocation /\ d.layers = n /\ d.kind # "None"
    BY <1>2 DEF UpdateList
  <1>6. c.kind # "Free"
    BY PendingAt DEF AlreadyFreed
  <1>7. Allocated(LastAfter[t], d).layers = n
    BY <1>1, <1>5, AllocatedAt
  <1>8. Fits(LastAfter[t], d, pending_updates'.updates[t])
    <2>1. d.kind = "Realloc" => LastAfter[t].layers \in 1..d.layers
      <3>1. CASE c.kind = "None"
        <4>1. LastAfter[t].layers = layers[t]
          BY <1>1, <3>1, AllocatedAt
        <4> QED
          BY <1>1, <1>5, <4>1
      <3>2. CASE c.kind = "Realloc"
        <4>1. LastAfter[t].layers \in 1..c.layers /\ c.layers = layers[t]
          BY <1>1, <3>2, AllocatedAt DEF Fits
        <4> QED
          BY <1>1, <1>5, <4>1
      <3> QED
        BY <1>2, <3>1, <3>2
    <2>2. \A l \in Layers : pending_updates'.updates[t][l] # Undefined =>
                             l < Allocated(LastAfter[t], d).layers
      BY <1>1, <1>2, <1>7 DEF Fits, Layers
    <2>3. /\ d.kind = "Alloc" => LastAfter[t].layers = 0
          /\ d.kind \in {"Reset", "Free"} => LastAfter[t].layers # 0
      BY <1>1, <1>2, <1>6 DEF Fits
    <2> HIDE DEF c, d
    <2> QED
      BY <2>1, <2>2, <2>3 DEF Fits
  <1>9. /\ TransferInv' /\ Believed' \in [Ids -> Texture]
        /\ \A u \in Ids : u # t => Believed'[u] = Believed[u]
    <2>1. /\ next_id' >= next_id /\ t < next_id' /\ layers'[t] = n
          /\ Silent(t)' => pending_updates'.updates[t] = NoUpdates
      BY <1>1, <1>2 DEF TypeOK, TransferInv, PendingFits, Silent
    <2>2. \A u \in Ids : u # t =>
            /\ pending_updates'.allocations[u] = pending_updates.allocations[u]
            /\ pending_updates'.updates[u] = pending_updates.updates[u]
            /\ layers'[u] = layers[u] /\ kind'[u] = kind[u]
      BY <1>1, <1>2
    <2> QED
      BY <1>3, <1>4, <1>7, <1>8, <2>1, <2>2, PushedAt
  <1>10. Believed[t].layers = layers[t] /\ Believed'[t].layers = n
    BY <1>1, <1>9 DEF TransferInv, PendingFits
  <1>11. ASSUME NEW l \in Layers
         PROVE  Believed'[t].contents[l] = Believed[t].contents[l]
    <2>1. Allocated(LastAfter[t], d).contents = Allocated(LastAfter[t], c).contents
      BY <1>1, <1>2, <1>5, <1>6, AllocatedAt DEF Allocation
    <2>2. /\ LastAfter \in [Ids -> Texture] /\ pending_updates \in UpdateList
          /\ LastAfter' = LastAfter
      BY LastAfterType DEF TypeOK, LastAfter
    <2>3. Believed[t].contents[l] =
            IF pending_updates.updates[t][l] # Undefined THEN pending_updates.updates[t][l]
            ELSE Allocated(LastAfter[t], c).contents[l]
      BY <2>2, AppliedAt DEF Believed
    <2>4. Believed'[t].contents[l] =
            IF pending_updates'.updates[t][l] # Undefined THEN pending_updates'.updates[t][l]
            ELSE Allocated(LastAfter[t], d).contents[l]
      BY <1>2, <2>2, AppliedAt DEF Believed
    <2> QED
      BY <1>2, <2>1, <2>3, <2>4
  <1>12. Memory!Grow(t, Believed'[t])
    BY <1>1, <1>9, <1>10, <1>11, BelievedType, OneTexture DEF Memory!Grow, Memory!Exists
  <1> QED
    BY <1>3, <1>9, <1>12, MemoryTexture DEF Memory!Next

LEMMA GrowUnitStep ==
  ASSUME TypeOK, TransferInv, NEW t \in Ids, GrowUnit(t)
  PROVE  TypeOK' /\ TransferInv' /\ Memory!Next
  <1>1. layers[t] + 1 \in 1..MaxLayers /\ layers[t] + 1 > layers[t]
    BY TextureAssumption DEF GrowUnit, TypeOK
  <1>2. /\ layers' = [layers EXCEPT ![t] = layers[t] + 1] /\ t # Picture
        /\ pending_updates' = PushRealloc(pending_updates, t, layers[t] + 1)
        /\ UNCHANGED <<kind, slices, next_id, sent, textures>> /\ kind[t] # "none"
    BY DEF GrowUnit, TransferInv, CacheShape, TypeOK
  <1>3. slices' \subseteq Layers /\ \A l \in slices' : l < layers'[Picture]
    BY <1>2, TextureAssumption DEF TypeOK, TransferInv, CacheShape, Ids, Picture
  <1> QED
    BY <1>1, <1>2, <1>3, GrowStep

LEMMA GrowPictureStep ==
  ASSUME TypeOK, TransferInv, GrowPicture
  PROVE  TypeOK' /\ TransferInv' /\ Memory!Next
  <1> DEFINE n == layers[Picture] + AddSlices
  <1>1. Picture \in Ids /\ kind[Picture] # "none"
    BY TextureAssumption DEF TypeOK, TransferInv, CacheShape, Ids, Picture
  <1>2. n \in 1..MaxLayers /\ n > layers[Picture] /\ layers[Picture] \in Layers
    BY <1>1, TextureAssumption, TransferAssumption DEF GrowPicture, TypeOK, Layers
  <1>3. /\ layers' = [layers EXCEPT ![Picture] = n]
        /\ pending_updates' = PushRealloc(pending_updates, Picture, n)
        /\ UNCHANGED <<kind, next_id, sent, textures>>
    BY DEF GrowPicture
  <1>4. slices' \subseteq Layers /\ \A l \in slices' : l < layers'[Picture]
    <2>1. layers'[Picture] = n
      BY <1>1, <1>3 DEF TypeOK
    <2>2. \A l \in slices : l \in Layers /\ l < layers[Picture]
      BY DEF TypeOK, TransferInv, CacheShape
    <2>3. slices' = slices \cup {layers[Picture]}
      BY DEF GrowPicture
    <2> QED
      BY <1>2, <2>1, <2>2, <2>3 DEF Layers
  <1> HIDE DEF n
  <1> QED
    BY <1>1, <1>2, <1>3, <1>4, GrowStep

(* A write to a layer that the texture will have by then.                  *)
LEMMA UpdateStep ==
  ASSUME TypeOK, TransferInv, NEW t \in Ids, NEW k \in Layers, NEW v \in Contents,
         Update(t, k, v)
  PROVE  TypeOK' /\ TransferInv' /\ Memory!Next /\ Memory!Write(t, k, v)
  <1> DEFINE c == pending_updates.allocations[t]
  <1>1. /\ kind[t] # "none" /\ ~Silent(t)' /\ k < layers[t]
        /\ pending_updates' = PushUpdate(pending_updates, t, k, v)
        /\ UNCHANGED <<kind, layers, slices, next_id, sent, textures>>
    BY DEF Update, cacheVars, Silent
  <1>2. /\ pending_updates' \in UpdateList
        /\ pending_updates'.allocations = pending_updates.allocations
        /\ \A u \in Ids : u # t => pending_updates'.updates[u] = pending_updates.updates[u]
        /\ \A l \in Layers : pending_updates'.updates[t][l] =
             IF l = k THEN v ELSE pending_updates.updates[t][l]
    BY <1>1, PushUpdateAt DEF TypeOK
  <1>3. TypeOK' /\ CacheShape'
    BY <1>1, <1>2 DEF TypeOK, TransferInv, CacheShape
  <1>4. /\ Allocated(LastAfter[t], c).layers = layers[t] /\ t < next_id
        /\ Fits(LastAfter[t], c, pending_updates.updates[t])
    BY <1>1, PendingAt
  <1>5. Fits(LastAfter[t], c, pending_updates'.updates[t])
    BY <1>1, <1>2, <1>4 DEF Fits
  <1>6. /\ TransferInv' /\ Believed' \in [Ids -> Texture]
        /\ \A u \in Ids : u # t => Believed'[u] = Believed[u]
    <2>1. next_id' >= next_id
      BY <1>1 DEF TypeOK
    <2>2. \A u \in Ids : u # t =>
            /\ pending_updates'.allocations[u] = pending_updates.allocations[u]
            /\ pending_updates'.updates[u] = pending_updates.updates[u]
            /\ layers'[u] = layers[u] /\ kind'[u] = kind[u]
      BY <1>1, <1>2
    <2> QED
      BY <1>1, <1>2, <1>3, <1>4, <1>5, <2>1, <2>2, PushedAt
  <1>7. Believed[t].layers = layers[t] /\ Believed'[t].layers = layers[t]
    BY <1>1, <1>6 DEF TransferInv, PendingFits
  <1>8. ASSUME NEW l \in Layers
        PROVE  Believed'[t].contents[l] = IF l = k THEN v ELSE Believed[t].contents[l]
    <2>1. /\ LastAfter \in [Ids -> Texture] /\ pending_updates \in UpdateList
          /\ LastAfter' = LastAfter
      BY <1>1, LastAfterType DEF TypeOK, LastAfter
    <2>2. Believed[t].contents[l] =
            IF pending_updates.updates[t][l] # Undefined THEN pending_updates.updates[t][l]
            ELSE Allocated(LastAfter[t], c).contents[l]
      BY <2>1, AppliedAt DEF Believed
    <2>3. Believed'[t].contents[l] =
            IF pending_updates'.updates[t][l] # Undefined THEN pending_updates'.updates[t][l]
            ELSE Allocated(LastAfter[t], c).contents[l]
      BY <1>2, <2>1, AppliedAt DEF Believed
    <2> QED
      BY <1>2, <2>2, <2>3, TextureAssumption
  <1>9. Believed' = [Believed EXCEPT ![t].contents[k] = v]
    <2>1. Believed'[t] = [Believed[t] EXCEPT !.contents[k] = v]
      <3> DEFINE y == [Believed[t] EXCEPT !.contents[k] = v]
      <3>1. Believed[t] \in Texture /\ y \in Texture
        BY BelievedType DEF Texture
      <3>2. y.layers = layers[t]
        BY <1>7, <3>1 DEF Texture
      <3>3. \A l \in Layers : y.contents[l] = IF l = k THEN v ELSE Believed[t].contents[l]
        BY <3>1 DEF Texture
      <3> HIDE DEF y
      <3>4. Believed'[t] = y
        BY <1>6, <1>7, <1>8, <3>1, <3>2, <3>3, SameTexture
      <3> QED
        BY <3>4 DEF y
    <2> QED
      BY <1>6, <2>1, BelievedType
  <1>10. Memory!Write(t, k, v)
    BY <1>1, <1>7, <1>9 DEF Memory!Write, Memory!Exists, Layers, TypeOK
  <1> QED
    BY <1>3, <1>6, <1>10 DEF Memory!Next

(* The release of textures, at once or together with their allocation.     *)
LEMMA FreedAt ==
  ASSUME TypeOK, TransferInv,
         NEW freed \in SUBSET Ids, \A t \in freed : kind[t] \in {"standalone", "shared"},
         NEW t \in Ids,
         NEW list \in UpdateList, list = PushFree(pending_updates, freed)
  PROVE  /\ Fits(LastAfter[t], list.allocations[t], list.updates[t])
         /\ Allocated(LastAfter[t], list.allocations[t]).layers =
              IF t \in freed THEN 0 ELSE layers[t]
         /\ t \notin freed => /\ list.allocations[t] = pending_updates.allocations[t]
                             /\ list.updates[t] = pending_updates.updates[t]
         /\ t \in freed => t < next_id /\ list.updates[t] = NoUpdates
  <1>1. /\ t \notin freed => /\ list.allocations[t] = pending_updates.allocations[t]
                            /\ list.updates[t] = pending_updates.updates[t]
        /\ t \in freed =>
             /\ list.allocations[t] =
                  IF pending_updates.allocations[t].kind = "Alloc" THEN NoAllocation
                  ELSE [kind |-> "Free", layers |-> 0]
             /\ list.updates[t] = NoUpdates
    BY PushFreeAt DEF TypeOK
  <1>2. CASE t \notin freed
    BY <1>1, <1>2, PendingAt
  <1>3. CASE t \in freed
    <2> DEFINE c == pending_updates.allocations[t]
    <2>1. /\ LastAfter[t] \in Texture /\ c \in Allocation /\ layers[t] \in 1..MaxLayers
          /\ Fits(LastAfter[t], c, pending_updates.updates[t]) /\ c.kind # "Free"
          /\ Allocated(LastAfter[t], c).layers = layers[t] /\ t < next_id
      BY <1>3, PendingAt DEF AlreadyFreed
    <2>2. list.allocations[t] =
            IF c.kind = "Alloc" THEN NoAllocation ELSE [kind |-> "Free", layers |-> 0]
      BY <1>1, <1>3
    <2>3. list.allocations[t] \in Allocation
      BY DEF UpdateList
    <2>4. CASE c.kind = "Alloc"
      <3>1. LastAfter[t].layers = 0
        BY <2>1, <2>4 DEF Fits
      <3> QED
        BY <1>1, <1>3, <2>1, <2>2, <2>3, <2>4, <3>1, AllocatedAt
           DEF Fits, NoAllocation, NoUpdates
    <2>5. CASE c.kind # "Alloc"
      <3>1. LastAfter[t].layers # 0
        BY <2>1, <2>5, AllocatedAt DEF Fits, Allocation
      <3> QED
        BY <1>1, <1>3, <2>1, <2>2, <2>3, <2>5, <3>1, AllocatedAt DEF Fits, NoUpdates
    <2> QED
      BY <2>4, <2>5
  <1> QED
    BY <1>2, <1>3

LEMMA FreeStep ==
  ASSUME TypeOK, TransferInv, UNCHANGED <<slices, next_id, sent, textures>>,
         NEW freed \in SUBSET Ids, \A t \in freed : kind[t] \in {"standalone", "shared"},
         kind' = [t \in Ids |-> IF t \in freed THEN "none" ELSE kind[t]],
         layers' = [t \in Ids |-> IF t \in freed THEN 0 ELSE layers[t]],
         pending_updates' = PushFree(pending_updates, freed)
  PROVE  TypeOK' /\ TransferInv' /\ Memory!Next
  <1>1. pending_updates' \in UpdateList
    BY PushFreeAt DEF TypeOK
  <1>2. TypeOK'
    BY <1>1, TextureAssumption DEF TypeOK
  <1>3. CacheShape'
    <2>1. Picture \in Ids /\ kind[Picture] = "picture" /\ Picture \notin freed
      BY TextureAssumption DEF TransferInv, CacheShape, Ids, Picture
    <2>2. layers'[Picture] = layers[Picture]
      BY <2>1
    <2>3. \A t \in Ids : kind'[t] = "none" <=> layers'[t] = 0
      BY DEF TransferInv, CacheShape
    <2>4. \A t \in Ids : kind'[t] = "picture" <=> t = Picture
      BY <2>1 DEF TransferInv, CacheShape
    <2>5. \A t \in Ids : t >= next_id' => kind'[t] = "none"
      BY DEF TransferInv, CacheShape
    <2> QED
      BY <2>2, <2>3, <2>4, <2>5 DEF TransferInv, CacheShape
  <1>4. \A t \in Ids : t \in freed =>
          /\ Fits(LastAfter[t], pending_updates'.allocations[t], pending_updates'.updates[t])
          /\ Allocated(LastAfter[t], pending_updates'.allocations[t]).layers = layers'[t]
          /\ t < next_id'
          /\ Silent(t)' => pending_updates'.updates[t] = NoUpdates
    BY <1>1, FreedAt
  <1>5. /\ TransferInv' /\ Believed' \in [Ids -> Texture]
        /\ \A u \in Ids : u \notin freed => Believed'[u] = Believed[u]
    <2>1. next_id' >= next_id
      BY DEF TypeOK
    <2>2. \A u \in Ids : u \notin freed =>
            /\ pending_updates'.allocations[u] = pending_updates.allocations[u]
            /\ pending_updates'.updates[u] = pending_updates.updates[u]
            /\ layers'[u] = layers[u] /\ kind'[u] = kind[u]
      BY <1>1, FreedAt
    <2> QED
      BY <1>2, <1>3, <1>4, <2>1, <2>2, PushedStep
  <1>6. \A t \in freed : Believed[t].layers # 0 /\ Believed'[t].layers = 0
    <2>1. \A t \in freed : layers[t] # 0 /\ layers'[t] = 0
      BY DEF TypeOK, TransferInv, CacheShape
    <2> QED
      BY <1>5, <2>1 DEF TransferInv, PendingFits
  <1>7. Memory!Clear(freed, {})
    BY <1>5, <1>6, MemoryTexture DEF Memory!Clear, Memory!Exists
  <1> QED
    BY <1>2, <1>5, <1>7 DEF Memory!Next

LEMMA FreeStandaloneStep ==
  ASSUME TypeOK, TransferInv, NEW t \in Ids, FreeStandalone(t)
  PROVE  TypeOK' /\ TransferInv' /\ Memory!Next
  <1> DEFINE freed == {t}
  <1>1. kind' = [u \in Ids |-> IF u \in freed THEN "none" ELSE kind[u]]
    BY DEF FreeStandalone, TypeOK
  <1>2. layers' = [u \in Ids |-> IF u \in freed THEN 0 ELSE layers[u]]
    BY DEF FreeStandalone, TypeOK
  <1>3. /\ pending_updates' = PushFree(pending_updates, freed)
        /\ UNCHANGED <<slices, next_id, sent, textures>>
        /\ freed \in SUBSET Ids /\ \A u \in freed : kind[u] \in {"standalone", "shared"}
    BY DEF FreeStandalone
  <1> HIDE DEF freed
  <1> QED
    BY <1>1, <1>2, <1>3, FreeStep

LEMMA ClearSharedStep ==
  ASSUME TypeOK, TransferInv, ClearShared
  PROVE  TypeOK' /\ TransferInv' /\ Memory!Next
  <1> DEFINE freed == {t \in Ids : kind[t] = "shared"}
  <1>1. kind' = [u \in Ids |-> IF u \in freed THEN "none" ELSE kind[u]]
    BY DEF ClearShared, Freed
  <1>2. layers' = [u \in Ids |-> IF u \in freed THEN 0 ELSE layers[u]]
    BY DEF ClearShared
  <1>3. /\ pending_updates' = PushFree(pending_updates, freed)
        /\ UNCHANGED <<slices, next_id, sent, textures>>
        /\ freed \in SUBSET Ids /\ \A u \in freed : kind[u] \in {"standalone", "shared"}
    BY DEF ClearShared, Freed
  <1> HIDE DEF freed
  <1> QED
    BY <1>1, <1>2, <1>3, FreeStep

(* The slices of the picture texture are no concern of the list.           *)
LEMMA SliceStep ==
  ASSUME TypeOK, TransferInv, ~DebugClears,
         OccupySlice \/ \E l \in Layers : FreeSlice(l)
  PROVE  TypeOK' /\ TransferInv' /\ UNCHANGED Believed
  <1>1. UNCHANGED <<kind, layers, next_id, pending_updates, sent, textures>>
    BY EvictedNothing DEF OccupySlice, FreeSlice, TypeOK
  <1>2. slices' \subseteq Layers /\ \A l \in slices' : l < layers[Picture]
    <2>1. Picture \in Ids
      BY TextureAssumption DEF Ids, Picture
    <2>2. layers[Picture] \in 0..MaxLayers
      BY <2>1 DEF TypeOK
    <2>3. CASE OccupySlice
      BY <2>2, <2>3, TextureAssumption DEF OccupySlice, TypeOK, TransferInv, CacheShape, Layers
    <2>4. CASE \E l \in Layers : FreeSlice(l)
      BY <2>4 DEF FreeSlice, TypeOK, TransferInv, CacheShape
    <2> QED
      BY <2>3, <2>4
  <1>3. LastAfter' = LastAfter /\ Believed' = Believed
    BY <1>1 DEF LastAfter, Believed
  <1> QED
    BY <1>1, <1>2, <1>3 DEF TypeOK, TransferInv, CacheShape, ListsLead, PendingFits, Follows, Silent

-----------------------------------------------------------------------------
(* The list on its way.                                                    *)

LEMMA TakenStep ==
  ASSUME TypeOK, TransferInv, NEW list \in UpdateList, Agrees(LastAfter, list),
         Taken(list), UNCHANGED textures, pending_updates' = EmptyList
  PROVE  /\ sent' \in Seq(Sent) /\ pending_updates' \in UpdateList
         /\ LastAfter' = Applied(LastAfter, list)
         /\ Believed' = Applied(LastAfter, list)
         /\ ListsLead'
  <1> DEFINE s == [list |-> list, after |-> Applied(LastAfter, list)]
  <1>1. s \in Sent /\ s.list = list /\ s.after = Applied(LastAfter, list)
    BY LastAfterType, AppliedAt DEF Sent
  <1>2. sent' = Append(sent, s) /\ sent \in Seq(Sent)
    BY DEF Taken, TypeOK
  <1> HIDE DEF s
  <1>3. /\ sent' \in Seq(Sent) /\ Len(sent) \in Nat /\ Len(sent') = Len(sent) + 1
        /\ sent'[Len(sent) + 1] = s
        /\ \A i \in 1..Len(sent) : sent'[i] = sent[i]
    BY <1>1, <1>2
  <1>4. sent' # <<>>
    BY <1>1, <1>2
  <1>5. LastAfter' = Applied(LastAfter, list)
    BY <1>1, <1>3, <1>4 DEF LastAfter
  <1>6. Applied(LastAfter, list) \in [Ids -> Texture]
    BY LastAfterType, AppliedAt
  <1>7. Believed' = Applied(LastAfter, list) /\ Agrees(LastAfter', pending_updates')
    BY <1>5, <1>6, EmptyListApplied DEF Believed
  <1>8. Follows(LastAfter, s)
    BY <1>1 DEF Follows
  <1>9. Follows(textures', sent'[1])
    <2>1. CASE Len(sent) = 0
      <3>1. sent = <<>>
        BY <1>2, <2>1
      <3> QED
        BY <1>3, <1>8, <2>1, <3>1 DEF LastAfter
    <2>2. CASE Len(sent) # 0
      <3>1. sent # <<>> /\ sent'[1] = sent[1]
        BY <1>2, <1>3, <2>2
      <3> QED
        BY <3>1 DEF TransferInv, ListsLead
    <2> QED
      BY <2>1, <2>2
  <1>10. ASSUME NEW i \in 1..(Len(sent') - 1)
         PROVE  Follows(sent'[i].after, sent'[i + 1])
    <2>1. CASE i < Len(sent)
      <3>1. i \in 1..(Len(sent) - 1) /\ sent'[i] = sent[i] /\ sent'[i + 1] = sent[i + 1]
        BY <1>3, <2>1
      <3> QED
        BY <3>1 DEF TransferInv, ListsLead
    <2>2. CASE ~(i < Len(sent))
      <3>1. /\ i = Len(sent) /\ sent'[i] = sent[Len(sent)] /\ sent'[i + 1] = s
            /\ Len(sent) # 0
        BY <1>3, <2>2
      <3>2. sent # <<>>
        BY <1>2, <3>1
      <3> QED
        BY <1>8, <3>1, <3>2 DEF LastAfter
    <2> QED
      BY <2>1, <2>2
  <1>11. ListsLead'
    BY <1>7, <1>9, <1>10 DEF ListsLead
  <1> QED
    BY <1>3, <1>5, <1>7, <1>11, EmptyListAt

LEMMA PublishStep ==
  ASSUME TypeOK, TransferInv, Publish
  PROVE  TypeOK' /\ TransferInv' /\ UNCHANGED Believed
  <1>1. /\ UNCHANGED <<kind, layers, slices, next_id, textures>>
        /\ pending_updates \in UpdateList /\ pending_updates' = EmptyList
        /\ Taken(pending_updates) /\ Agrees(LastAfter, pending_updates)
    BY DEF Publish, cacheVars, TypeOK, TransferInv, ListsLead
  <1>2. /\ sent' \in Seq(Sent) /\ pending_updates' \in UpdateList /\ ListsLead'
        /\ LastAfter' = Believed /\ Believed' = Believed
    BY <1>1, TakenStep DEF Believed
  <1>3. TypeOK' /\ CacheShape'
    BY <1>1, <1>2 DEF TypeOK, TransferInv, CacheShape
  <1>4. ASSUME NEW t \in Ids, t >= next_id
        PROVE  Believed[t] = NoTexture
    <2>1. /\ LastAfter[t] = NoTexture /\ pending_updates.allocations[t] = NoAllocation
          /\ kind[t] = "none"
      BY <1>4 DEF TransferInv, PendingFits, CacheShape
    <2>2. pending_updates.updates[t] = NoUpdates
      BY <2>1 DEF TransferInv, PendingFits, Silent
    <2>3. Believed[t] = LastAfter[t]
      BY <1>1, <2>1, <2>2, LastAfterType, EmptyListAt, EmptyListApplied, AppliedSame
         DEF Believed
    <2> QED
      BY <2>1, <2>3
  <1>5. PendingFits'
    BY <1>1, <1>2, <1>4, EmptyListAt DEF TransferInv, PendingFits
  <1> QED
    BY <1>2, <1>3, <1>5 DEF TransferInv

(* Everything goes, and the picture texture starts again.                  *)
LEMMA MemoryPressureStep ==
  ASSUME TypeOK, TransferInv, ~DebugClears, MemoryPressure
  PROVE  TypeOK' /\ TransferInv' /\ Memory!Next
  <1> DEFINE freed == {t \in Ids : kind[t] \in {"standalone", "shared"}}
             mid == PushFree(pending_updates, freed)
             list == AllCleared
  <1>1. mid \in UpdateList /\ list = Reset(mid)
    BY PushFreeAt, EvictedNothing DEF AllCleared, TypeOK
  <1>2. /\ Picture \in Ids /\ kind[Picture] = "picture" /\ Picture \notin freed
        /\ layers[Picture] \in 1..MaxLayers
    BY TextureAssumption DEF TypeOK, TransferInv, CacheShape, Ids, Picture
  <1>3. \A t \in Ids : /\ kind'[t] = IF t \in freed THEN "none" ELSE kind[t]
                       /\ kind' = [u \in Ids |-> IF u \in freed THEN "none" ELSE kind[u]]
    BY DEF MemoryPressure, Freed
  <1>4. /\ layers' \in [Ids -> 0..MaxLayers]
        /\ \A t \in Ids : layers'[t] = IF t \in freed THEN 0
                         ELSE IF t = Picture /\ layers[t] > AddSlices THEN AddSlices
                         ELSE layers[t]
    BY TextureAssumption, TransferAssumption DEF MemoryPressure, TypeOK
  <1>5. /\ slices' = {} /\ UNCHANGED <<next_id, textures>> /\ pending_updates' = EmptyList
        /\ Taken(list)
    BY DEF MemoryPressure, Freed
  <1>6. ASSUME NEW t \in Ids
        PROVE  /\ LastAfter[t] \in Texture
               /\ Fits(LastAfter[t], mid.allocations[t], mid.updates[t])
               /\ Allocated(LastAfter[t], mid.allocations[t]).layers =
                    IF t \in freed THEN 0 ELSE layers[t]
               /\ t \notin freed => /\ mid.allocations[t] = pending_updates.allocations[t]
                                   /\ mid.updates[t] = pending_updates.updates[t]
    BY <1>1, FreedAt, PendingAt
  <1> HIDE DEF list, mid, freed
  <1>7. /\ list \in UpdateList
        /\ \A t \in Ids : t # Picture => /\ list.allocations[t] = mid.allocations[t]
                                        /\ list.updates[t] = mid.updates[t]
    <2>1. CASE list = mid
      BY <1>1, <2>1
    <2>2. CASE list = PushReset(mid, Picture, AddSlices)
      <3>1. AddSlices \in 1..MaxLayers /\ mid \in UpdateList /\ Picture \in Ids
        BY <1>1, <1>2, TransferAssumption
      <3>2. /\ PushReset(mid, Picture, AddSlices) \in UpdateList
            /\ PushReset(mid, Picture, AddSlices).updates = mid.updates
            /\ \A t \in Ids : t # Picture =>
                 PushReset(mid, Picture, AddSlices).allocations[t] = mid.allocations[t]
        <4>1. ASSUME NEW x \in UpdateList, NEW t \in Ids, NEW n \in 1..MaxLayers
              PROVE  /\ PushReset(x, t, n) \in UpdateList
                     /\ PushReset(x, t, n).updates = x.updates
                     /\ \A u \in Ids : u # t =>
                          PushReset(x, t, n).allocations[u] = x.allocations[u]
          BY DEF PushReset, UpdateList, Allocation
        <4> QED
          BY <3>1, <4>1, Zenon
      <3> QED
        BY <2>2, <3>2
    <2> QED
      BY <1>1, <2>1, <2>2 DEF Reset
  <1>8. /\ Fits(LastAfter[Picture], list.allocations[Picture], list.updates[Picture])
        /\ Allocated(LastAfter[Picture], list.allocations[Picture]).layers = layers'[Picture]
    <2>1. CASE layers[Picture] <= AddSlices
      BY <1>1, <1>2, <1>4, <1>6, <2>1, TransferAssumption DEF Reset
    <2>2. CASE layers[Picture] > AddSlices
      <3> DEFINE c == pending_updates.allocations[Picture]
                 d == list.allocations[Picture]
      <3>1. /\ LastAfter[Picture] \in Texture /\ c \in Allocation
            /\ Fits(LastAfter[Picture], c, pending_updates.updates[Picture])
            /\ Allocated(LastAfter[Picture], c).layers = layers[Picture]
        BY <1>2, PendingAt
      <3>2. pending_updates.updates[Picture] = NoUpdates
        BY <1>2 DEF TransferInv, PendingFits, Silent
      <3>3. /\ d = [kind |-> IF c.kind = "Alloc" THEN "Alloc" ELSE "Reset",
                    layers |-> AddSlices]
            /\ list.updates[Picture] = NoUpdates
        BY <1>1, <1>2, <1>6, <2>2, <3>2, TransferAssumption, PushResetAt DEF Reset
      <3>4. d \in Allocation /\ layers'[Picture] = AddSlices
        BY <1>2, <1>4, <1>7, <2>2 DEF UpdateList
      <3>5. Allocated(LastAfter[Picture], d).layers = AddSlices
        BY <3>1, <3>3, <3>4, AllocatedAt
      <3>6. c.kind # "Alloc" => LastAfter[Picture].layers # 0
        BY <1>2, <3>1, AllocatedAt DEF Fits, Allocation
      <3>7. Fits(LastAfter[Picture], d, list.updates[Picture])
        BY <3>1, <3>3, <3>6 DEF Fits, NoUpdates
      <3> QED
        BY <3>4, <3>5, <3>7
    <2> QED
      BY <1>2, <2>1, <2>2, TransferAssumption
  <1>9. \A t \in Ids : /\ Fits(LastAfter[t], list.allocations[t], list.updates[t])
                       /\ Allocated(LastAfter[t], list.allocations[t]).layers = layers'[t]
    BY <1>4, <1>6, <1>7, <1>8
  <1>10. Agrees(LastAfter, list)
    BY <1>9, AgreesAt
  <1>11. /\ sent' \in Seq(Sent) /\ pending_updates' \in UpdateList /\ ListsLead'
         /\ LastAfter' = Applied(LastAfter, list) /\ Believed' = Applied(LastAfter, list)
    BY <1>5, <1>7, <1>10, TakenStep
  <1>12. TypeOK'
    BY <1>2, <1>3, <1>4, <1>5, <1>11 DEF TypeOK
  <1>13. CacheShape'
    <2>1. \A t \in freed : kind[t] # "picture" /\ t # Picture
      BY <1>2 DEF freed
    <2>2. \A t \in Ids : kind'[t] = "picture" <=> t = Picture
      BY <1>3, <2>1 DEF TransferInv, CacheShape
    <2>3. \A t \in Ids : kind'[t] = "none" <=> layers'[t] = 0
      BY <1>2, <1>3, <1>4, TransferAssumption DEF TransferInv, CacheShape
    <2>4. \A t \in Ids : t >= next_id' => kind'[t] = "none"
      BY <1>3, <1>5 DEF TransferInv, CacheShape
    <2> QED
      BY <1>5, <2>2, <2>3, <2>4 DEF CacheShape
  <1>14. ASSUME NEW t \in Ids
         PROVE  Believed'[t].layers = layers'[t]
    BY <1>7, <1>9, <1>11, LastAfterType, AppliedAt
  <1> DEFINE reset == {t \in {Picture} : layers[t] > AddSlices}
  <1>15. ASSUME NEW t \in Ids, t \notin freed, t \notin reset
         PROVE  Believed'[t] = Believed[t]
    <2>1. list.allocations[t] = mid.allocations[t] /\ list.updates[t] = mid.updates[t]
      <3>1. CASE t = Picture
        BY <1>1, <1>15, <3>1 DEF Reset
      <3>2. CASE t # Picture
        BY <1>7, <3>2
      <3> QED
        BY <3>1, <3>2
    <2>2. /\ list.allocations[t] = pending_updates.allocations[t]
          /\ list.updates[t] = pending_updates.updates[t]
      BY <1>6, <1>15, <2>1
    <2>3. /\ LastAfter \in [Ids -> Texture] /\ list \in UpdateList
          /\ pending_updates \in UpdateList
      BY <1>7, LastAfterType DEF TypeOK
    <2> QED
      BY <1>11, <2>2, <2>3, AppliedSame DEF Believed
  <1>16. ASSUME NEW t \in Ids, t >= next_id'
         PROVE  LastAfter'[t] = NoTexture
    <2>1. /\ LastAfter[t] = NoTexture /\ pending_updates.allocations[t] = NoAllocation
          /\ kind[t] = "none"
      BY <1>5, <1>16 DEF TransferInv, PendingFits, CacheShape
    <2>2. pending_updates.updates[t] = NoUpdates
      BY <2>1 DEF TransferInv, PendingFits, Silent
    <2>3. Believed[t] = LastAfter[t]
      <3>1. /\ LastAfter \in [Ids -> Texture] /\ pending_updates \in UpdateList
            /\ Applied(LastAfter, EmptyList) = LastAfter
        BY LastAfterType, EmptyListApplied DEF TypeOK
      <3> QED
        BY <2>1, <2>2, <3>1, EmptyListAt, AppliedSame DEF Believed
    <2>4. t \notin freed /\ t # Picture
      BY <1>2, <2>1 DEF freed
    <2> QED
      BY <1>11, <1>15, <2>1, <2>3, <2>4
  <1>17. PendingFits'
    BY <1>5, <1>14, <1>16, EmptyListAt DEF PendingFits
  <1>18. Memory!Clear(freed, reset)
    <2>1. Believed' \in [Ids -> Texture]
      BY <1>7, <1>11, LastAfterType, AppliedAt
    <2>2. freed \subseteq Ids /\ \A t \in freed : layers[t] # 0
      BY DEF freed, TransferInv, CacheShape
    <2>3. \A t \in freed \cup reset : Believed[t].layers # 0
      BY <1>2, <2>2 DEF TransferInv, PendingFits
    <2>4. \A t \in freed : Believed'[t].layers = 0
      BY <1>4, <1>14, <2>2
    <2>5. ASSUME NEW t \in reset
          PROVE  Believed'[t].layers \in 1..(Believed[t].layers - 1)
      <3>1. t = Picture /\ t \in Ids /\ layers[t] > AddSlices /\ t \notin freed
        BY <1>2
      <3>2. Believed'[t].layers = AddSlices /\ Believed[t].layers = layers[t]
        BY <1>4, <1>14, <3>1 DEF TransferInv, PendingFits
      <3> QED
        BY <1>2, <3>1, <3>2, TransferAssumption
    <2> HIDE DEF reset
    <2> QED
      BY <1>15, <2>1, <2>3, <2>4, <2>5, MemoryTexture DEF Memory!Clear, Memory!Exists
  <1>19. freed \in SUBSET Ids /\ reset \in SUBSET Ids
    BY <1>2 DEF freed
  <1> QED
    BY <1>11, <1>12, <1>13, <1>17, <1>18, <1>19 DEF TransferInv, Memory!Next

(* The renderer takes a list: it comes to have what the list was for.      *)
LEMMA UpdateTextureCacheStep ==
  ASSUME TypeOK, TransferInv, UpdateTextureCache
  PROVE  TypeOK' /\ TransferInv' /\ UNCHANGED Believed
  <1>1. /\ UNCHANGED <<kind, layers, slices, next_id, pending_updates>>
        /\ sent \in Seq(Sent) /\ sent # <<>> /\ sent' = Tail(sent) /\ Head(sent) = sent[1]
        /\ textures' = Applied(textures, sent[1].list)
    BY DEF UpdateTextureCache, cacheVars, TypeOK
  <1>2. Follows(textures, sent[1])
    BY <1>1 DEF TransferInv, ListsLead
  <1>3. textures' = sent[1].after
    BY <1>1, <1>2 DEF Follows
  <1>4. /\ Len(sent) \in Nat \ {0} /\ Len(sent') = Len(sent) - 1
        /\ \A j \in 1..Len(sent') : sent'[j] = sent[j + 1]
        /\ sent' \in Seq(Sent) /\ sent[1] \in Sent
    BY <1>1
  <1>5. TypeOK'
    BY <1>1, <1>3, <1>4 DEF TypeOK, Sent
  <1> HIDE DEF UpdateTextureCache
  <1>6. sent' = <<>> <=> Len(sent) = 1
    <2>1. sent' = <<>> <=> Len(sent') = 0
      BY <1>4
    <2> QED
      BY <1>4, <2>1
  <1>7. LastAfter' = LastAfter
    <2>1. CASE Len(sent) = 1
      BY <1>1, <1>3, <1>6, <2>1 DEF LastAfter
    <2>2. CASE Len(sent) # 1
      <3>1. Len(sent') \in 1..Len(sent') /\ Len(sent') + 1 = Len(sent)
        BY <1>4, <2>2
      <3>2. sent'[Len(sent')] = sent[Len(sent)]
        BY <1>4, <3>1
      <3> QED
        BY <1>1, <1>6, <2>2, <3>2 DEF LastAfter
    <2> QED
      BY <2>1, <2>2
  <1>8. Believed' = Believed
    BY <1>1, <1>7 DEF Believed
  <1>9. ASSUME sent' # <<>>
        PROVE  Follows(textures', sent'[1])
    <2>1. 1 \in 1..(Len(sent) - 1) /\ sent'[1] = sent[2]
      BY <1>4, <1>6, <1>9
    <2>2. Follows(sent[1].after, sent[1 + 1])
      BY <2>1 DEF TransferInv, ListsLead
    <2> QED
      BY <1>3, <2>1, <2>2
  <1>10. ASSUME NEW i \in 1..(Len(sent') - 1)
         PROVE  Follows(sent'[i].after, sent'[i + 1])
    <2>1. /\ i + 1 \in 1..(Len(sent) - 1) /\ sent'[i] = sent[i + 1]
          /\ sent'[i + 1] = sent[(i + 1) + 1]
      BY <1>4
    <2> QED
      BY <2>1 DEF TransferInv, ListsLead
  <1>11. ListsLead'
    BY <1>1, <1>7, <1>9, <1>10 DEF TransferInv, ListsLead
  <1>12. CacheShape' /\ PendingFits'
    BY <1>1, <1>7, <1>8 DEF TransferInv, CacheShape, PendingFits, Silent
  <1> QED
    BY <1>5, <1>8, <1>11, <1>12 DEF TransferInv

LEMMA InitHolds ==
  ASSUME Init
  PROVE  TypeOK /\ TransferInv /\ Memory!Init
  <1>1. Picture \in Ids /\ Picture = 1 /\ InitialSlices \in 1..MaxLayers
    BY TextureAssumption, TransferAssumption DEF Ids, Picture
  <1>2. /\ pending_updates \in UpdateList /\ pending_updates.updates = EmptyList.updates
        /\ \A u \in Ids : u # Picture => pending_updates.allocations[u] = NoAllocation
        /\ pending_updates.allocations[Picture] = [kind |-> "Alloc", layers |-> InitialSlices]
    BY <1>1, EmptyListAt, PushAllocAt DEF Init
  <1>3. /\ \A t \in Ids : pending_updates.updates[t] = NoUpdates
        /\ \A t \in Ids : pending_updates.allocations[t] \in Allocation
    BY <1>2, EmptyListAt DEF UpdateList
  <1>4. NoTexture \in Texture /\ NoTexture.layers = 0
    BY TextureAssumption DEF NoTexture, Fresh, Texture
  <1>5. LastAfter = textures /\ textures \in [Ids -> Texture] /\ sent = <<>>
        /\ \A t \in Ids : textures[t] = NoTexture
    BY <1>4 DEF Init, LastAfter
  <1>6. TypeOK
    BY <1>1, <1>2, <1>5, TextureAssumption DEF Init, TypeOK, Picture
  <1>7. CacheShape
    BY <1>1, TextureAssumption DEF Init, CacheShape, Ids
  <1>8. \A t \in Ids : Allocated(LastAfter[t], pending_updates.allocations[t]).layers
                       = layers[t]
    <2>1. ASSUME NEW t \in Ids, t # Picture
          PROVE  Allocated(LastAfter[t], pending_updates.allocations[t]).layers = layers[t]
      BY <1>2, <1>3, <1>4, <1>5, <2>1, AllocatedAt DEF Init, NoAllocation
    <2>2. Allocated(LastAfter[Picture], pending_updates.allocations[Picture]).layers
          = layers[Picture]
      BY <1>1, <1>2, <1>3, <1>4, <1>5, AllocatedAt DEF Init
    <2> QED
      BY <2>1, <2>2
  <1>9. \A t \in Ids : Fits(LastAfter[t], pending_updates.allocations[t],
                            pending_updates.updates[t])
    BY <1>2, <1>3, <1>4, <1>5 DEF Fits, NoAllocation, NoUpdates
  <1>10. ListsLead
    <2>1. Len(sent) = 0
      BY <1>5
    <2> QED
      BY <1>5, <1>9, <2>1, AgreesAt DEF ListsLead
  <1>11. Believed \in [Ids -> Texture] /\ \A t \in Ids : Believed[t].layers = layers[t]
    BY <1>2, <1>5, <1>8, AppliedAt DEF Believed
  <1>12. PendingFits
    <2>1. \A t \in Ids : t >= next_id => t # Picture
      BY <1>1 DEF Init
    <2> QED
      BY <1>2, <1>3, <1>5, <1>11, <2>1 DEF PendingFits
  <1>13. Memory!Init
    <2>1. \A t \in Ids : t # Picture => Believed[t].layers = 0
      BY <1>11 DEF Init
    <2> QED
      BY <1>11, <2>1, MemoryTexture DEF Memory!Init, Memory!Exists
  <1> QED
    BY <1>6, <1>7, <1>10, <1>12, <1>13 DEF TransferInv

-----------------------------------------------------------------------------
(* The theorems.                                                           *)

LEMMA StepHolds ==
  ASSUME TypeOK, TransferInv, ~DebugClears, [Next]_vars
  PROVE  TypeOK' /\ TransferInv' /\ [Memory!Next]_Believed
  <1>1. ASSUME NEW k \in {"standalone", "shared"}, NewTexture(k)
        PROVE  TypeOK' /\ TransferInv' /\ [Memory!Next]_Believed
    BY <1>1, NewTextureStep
  <1>2. ASSUME NEW t \in Ids, GrowUnit(t)
        PROVE  TypeOK' /\ TransferInv' /\ [Memory!Next]_Believed
    BY <1>2, GrowUnitStep
  <1>3. ASSUME NEW t \in Ids, FreeStandalone(t)
        PROVE  TypeOK' /\ TransferInv' /\ [Memory!Next]_Believed
    BY <1>3, FreeStandaloneStep
  <1>4. ASSUME NEW t \in Ids, NEW l \in Layers, NEW c \in Contents, Update(t, l, c)
        PROVE  TypeOK' /\ TransferInv' /\ [Memory!Next]_Believed
    BY <1>4, UpdateStep
  <1>5. CASE OccupySlice \/ \E l \in Layers : FreeSlice(l)
    BY <1>5, SliceStep
  <1>6. CASE GrowPicture
    BY <1>6, GrowPictureStep
  <1>7. CASE ClearShared
    BY <1>7, ClearSharedStep
  <1>8. CASE MemoryPressure
    BY <1>8, MemoryPressureStep
  <1>9. CASE Publish
    BY <1>9, PublishStep
  <1>10. CASE UpdateTextureCache
    BY <1>10, UpdateTextureCacheStep
  <1>11. CASE UNCHANGED vars
    BY <1>11 DEF vars, cacheVars, TypeOK, TransferInv, CacheShape, ListsLead, PendingFits,
                 Silent, LastAfter, Believed
  <1> QED
    BY <1>1, <1>2, <1>3, <1>4, <1>5, <1>6, <1>7, <1>8, <1>9, <1>10, <1>11 DEF Next

(* The invariant, without debug clears: each list on its way agrees with   *)
(* what the lists before it lead to, and the pending one leads to what the *)
(* texture cache believes to own.                                          *)
THEOREM TransferInvHolds ==
  ASSUME ~DebugClears
  PROVE  Spec => []TypeOK /\ []TransferInv
  <1>1. Init => TypeOK /\ TransferInv
    BY InitHolds
  <1>2. TypeOK /\ TransferInv /\ [Next]_vars => TypeOK' /\ TransferInv'
    BY StepHolds
  <1> QED
    BY <1>1, <1>2, PTL DEF Spec

(* "Renderer and backend disagree!" never: the renderer is never told to   *)
(* allocate a texture that it has, to free, reset or grow one that it does *)
(* not have, or to write to a layer that is not there.                     *)
THEOREM RendererNeverDisagrees ==
  ASSUME ~DebugClears
  PROVE  Spec => []RendererAgrees
  <1>1. TypeOK /\ TransferInv => RendererAgrees
    BY DEF TypeOK, TransferInv, ListsLead, Follows, RendererAgrees
  <1> QED
    BY <1>1, TransferInvHolds, PTL

(* "Double free", "Resetting freed texture" and "Reallocating freed        *)
(* texture" never: the cache does not use what it has freed in the list.   *)
THEOREM NothingFreedInUseHolds ==
  ASSUME ~DebugClears
  PROVE  Spec => []NothingFreedInUse
  <1>1. TypeOK /\ TransferInv => NothingFreedInUse
    BY PendingAt DEF NothingFreedInUse
  <1> QED
    BY <1>1, TransferInvHolds, PTL

(* Coalescing and delay are not to be seen: once it has caught up the      *)
(* renderer has what the operations of the cache, each done at once and in *)
(* order, would have made.                                                 *)
THEOREM TransferImplementsMemory ==
  ASSUME ~DebugClears
  PROVE  Spec => MemorySpec
  <1>1. Init => Memory!Init
    BY InitHolds
  <1>2. TypeOK /\ TransferInv /\ [Next]_vars => [Memory!Next]_Believed
    BY StepHolds
  <1> QED
    BY <1>1, <1>2, TransferInvHolds, PTL DEF Spec, MemorySpec, Memory!Spec

(* No update is lost, in whatever list its texture is allocated,           *)
(* reallocated or reset.                                                   *)
THEOREM UpdatesTakeEffectHolds ==
  ASSUME ~DebugClears
  PROVE  Spec => UpdatesTakeEffect
  <1>1. TypeOK /\ TransferInv /\ [Next]_vars =>
          [\A t \in Ids, l \in Layers, c \in Contents :
             Update(t, l, c) => Memory!Write(t, l, c)]_vars
    BY UpdateStep
  <1> QED
    BY <1>1, TransferInvHolds, PTL DEF Spec, UpdatesTakeEffect
=============================================================================
