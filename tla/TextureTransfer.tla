--------------------------- MODULE TextureTransfer ---------------------------
(***************************************************************************)
(* The textures of the texture cache (texture_cache.rs), from the cache on *)
(* the render backend, which believes its operations done, to the          *)
(* renderer, which performs them when it takes their lists: standalone     *)
(* textures, the growing units of the shared cache, and the one texture of *)
(* a picture tile size, whose slices come and go.                          *)
(***************************************************************************)
EXTENDS TextureUpdates, Sequences

CONSTANTS
  AddSlices,    \* PICTURE_TEXTURE_ADD_SLICES: 4
  InitialSlices,\* slices of the picture texture for the initial window
  DebugClears,  \* TEXTURE_CACHE_DBG and TEXTURE_CACHE_DBG_CLEAR_EVICTED are set
  Cleared,      \* the colour of a debug clear
  MaxLists      \* BOUND on the lists on their way

ASSUME TransferAssumption ==
  /\ AddSlices \in 1..MaxLayers /\ InitialSlices \in 1..MaxLayers
  /\ DebugClears \in BOOLEAN /\ Cleared \in Contents
  /\ MaxLists \in Nat

Picture == 1   \* its texture id

VARIABLES
  kind,      \* [Ids -> kind], TextureCache: whose texture it is
  layers,    \* [Ids -> 0..MaxLayers], regions or slices of it
  slices,    \* the occupied slices of the picture texture
  next_id,   \* TextureCache::next_id
  pending_updates,
  sent,      \* the lists on their way, with what the renderer will have then
  textures   \* TextureResolver::texture_cache_map

cacheVars == <<kind, layers, slices, next_id>>
vars      == <<cacheVars, pending_updates, sent, textures>>

Sent == [list : UpdateList, after : [Ids -> Texture]]

TypeOK ==
  /\ kind \in [Ids -> {"none", "standalone", "shared", "picture"}]
  /\ layers \in [Ids -> 0..MaxLayers]
  /\ slices \subseteq Layers
  /\ next_id \in 2..(MaxTextures + 1)
  /\ pending_updates \in UpdateList
  /\ sent \in Seq(Sent)
  /\ textures \in [Ids -> Texture]

(* TextureCache::new allocates the picture texture.                        *)
Init ==
  /\ kind = [t \in Ids |-> IF t = Picture THEN "picture" ELSE "none"]
  /\ layers = [t \in Ids |-> IF t = Picture THEN InitialSlices ELSE 0]
  /\ slices = {} /\ next_id = Picture + 1
  /\ pending_updates = PushAlloc(EmptyList, Picture, InitialSlices)
  /\ sent = <<>>
  /\ textures = [t \in Ids |-> NoTexture]

-----------------------------------------------------------------------------
(* The texture cache.                                                      *)

(* allocate_standalone_entry, and allocate_from_shared_cache when no unit  *)
(* has room and none can grow.                                             *)
NewTexture(k) ==
  /\ next_id <= MaxTextures
  /\ kind' = [kind EXCEPT ![next_id] = k]
  /\ layers' = [layers EXCEPT ![next_id] = 1]
  /\ next_id' = next_id + 1
  /\ pending_updates' = PushAlloc(pending_updates, next_id, 1)
  /\ UNCHANGED <<slices, sent, textures>>

(* allocate_from_shared_cache when a unit can grow.                        *)
GrowUnit(t) ==
  /\ kind[t] = "shared" /\ layers[t] < MaxLayers
  /\ layers' = [layers EXCEPT ![t] = @ + 1]
  /\ pending_updates' = PushRealloc(pending_updates, t, layers[t] + 1)
  /\ UNCHANGED <<kind, slices, next_id, sent, textures>>

(* update, with data; and free of an entry in a region, which under the    *)
(* debug flags writes a colour there and otherwise concerns no texture.    *)
Update(t, l, c) ==
  /\ kind[t] \in {"standalone", "shared"} /\ l < layers[t]
  /\ pending_updates' = PushUpdate(pending_updates, t, l, c)
  /\ UNCHANGED <<cacheVars, sent, textures>>

(* free, for an entry that has a texture to itself ...                     *)
FreeStandalone(t) ==
  /\ kind[t] = "standalone"
  /\ kind' = [kind EXCEPT ![t] = "none"]
  /\ layers' = [layers EXCEPT ![t] = 0]
  /\ pending_updates' = PushFree(pending_updates, {t})
  /\ UNCHANGED <<slices, next_id, sent, textures>>

(* ... or a slice.                                                         *)
Evicted(list, freed) ==
  [list EXCEPT !.updates[Picture] = [l \in Layers |->
     IF DebugClears /\ l \in freed THEN Cleared ELSE @[l]]]

FreeSlice(l) ==
  /\ l \in slices
  /\ slices' = slices \ {l}
  /\ pending_updates' = Evicted(pending_updates, {l})
  /\ UNCHANGED <<kind, layers, next_id, sent, textures>>

(* update_picture_cache: find_free and occupy the first free slice ...     *)
OccupySlice ==
  \E l \in 0..(layers[Picture] - 1) :
    /\ l \notin slices /\ 0..(l - 1) \subseteq slices
    /\ slices' = slices \cup {l}
    /\ UNCHANGED <<kind, layers, next_id, pending_updates, sent, textures>>

(* ... or grow the texture.                                                *)
GrowPicture ==
  /\ 0..(layers[Picture] - 1) \subseteq slices
  /\ layers[Picture] + AddSlices <= MaxLayers
  /\ slices' = slices \cup {layers[Picture]}
  /\ layers' = [layers EXCEPT ![Picture] = @ + AddSlices]
  /\ pending_updates' = PushRealloc(pending_updates, Picture, layers[Picture] + AddSlices)
  /\ UNCHANGED <<kind, next_id, sent, textures>>

Freed(kinds) ==
  /\ kind' = [t \in Ids |-> IF kind[t] \in kinds THEN "none" ELSE kind[t]]
  /\ UNCHANGED next_id

(* maybe_reclaim_shared_memory: clear_shared.                              *)
ClearShared ==
  /\ Freed({"shared"})
  /\ layers' = [t \in Ids |-> IF kind[t] = "shared" THEN 0 ELSE layers[t]]
  /\ pending_updates' = PushFree(pending_updates, {t \in Ids : kind[t] = "shared"})
  /\ UNCHANGED <<slices, sent, textures>>

(* clear_all, with WholeTextureArray::reset.                               *)
Reset(list) ==
  IF layers[Picture] > AddSlices THEN PushReset(list, Picture, AddSlices) ELSE list

AllCleared ==
  Reset(Evicted(PushFree(pending_updates,
                         {t \in Ids : kind[t] \in {"standalone", "shared"}}), slices))

(* What the renderer will have when it has taken the lists on their way,   *)
(* and what the cache believes.                                            *)
LastAfter == IF sent = <<>> THEN textures ELSE sent[Len(sent)].after

Taken(list) ==
  /\ Len(sent) < MaxLists
  /\ sent' = Append(sent, [list |-> list, after |-> Applied(LastAfter, list)])

(* On memory pressure the render backend clears the cache and sends the    *)
(* list at once.                                                           *)
MemoryPressure ==
  /\ Freed({"standalone", "shared"})
  /\ slices' = {}
  /\ layers' = [t \in Ids |-> IF kind[t] \in {"standalone", "shared"} THEN 0
                              ELSE IF t = Picture /\ layers[t] > AddSlices THEN AddSlices
                              ELSE layers[t]]
  /\ Taken(AllCleared)
  /\ pending_updates' = EmptyList
  /\ UNCHANGED textures

(* pending_updates, with a frame.                                          *)
Publish ==
  /\ Taken(pending_updates)
  /\ pending_updates' = EmptyList
  /\ UNCHANGED <<cacheVars, textures>>

(* Renderer::update_texture_cache, for one of its lists.                   *)
UpdateTextureCache ==
  /\ sent # <<>>
  /\ textures' = Applied(textures, Head(sent).list)
  /\ sent' = Tail(sent)
  /\ UNCHANGED <<cacheVars, pending_updates>>

Next ==
  \/ \E k \in {"standalone", "shared"} : NewTexture(k)
  \/ \E t \in Ids : GrowUnit(t) \/ FreeStandalone(t)
  \/ \E t \in Ids, l \in Layers, c \in Contents : Update(t, l, c)
  \/ OccupySlice \/ GrowPicture
  \/ \E l \in Layers : FreeSlice(l)
  \/ ClearShared \/ MemoryPressure \/ Publish
  \/ UpdateTextureCache

Spec == Init /\ [][Next]_vars
-----------------------------------------------------------------------------
(* No list surprises the renderer ("Renderer and backend disagree!"): it   *)
(* allocates what is not there, frees, resets and grows what is, and       *)
(* writes to layers that exist.                                            *)
RendererAgrees == sent # <<>> => Agrees(textures, Head(sent).list)

(* The cache itself never touches a texture that it has freed in the list  *)
(* ("Double free", "Resetting freed texture", "Reallocating freed          *)
(* texture").                                                              *)
NothingFreedInUse ==
  \A t \in Ids : kind[t] # "none" => ~AlreadyFreed(pending_updates, t)

(* Coalescing and delay are not to be seen: what the renderer will have    *)
(* when it has caught up is what the operations of the cache, each done at *)
(* once, would have made.                                                  *)
Believed == Applied(LastAfter, pending_updates)

Memory == INSTANCE TextureMemory
            WITH memory <- Believed, Contents <- Contents \cup {Undefined}

MemorySpec == Memory!Spec

(* And no update is lost on the way: each is a write to that memory, in    *)
(* whatever list its texture is allocated, reallocated or reset.           *)
UpdatesTakeEffect ==
  [][\A t \in Ids, l \in Layers, c \in Contents :
       Update(t, l, c) => Memory!Write(t, l, c)]_vars

(* Why all this holds: each list on its way agrees with what the lists     *)
(* before it lead to, and the last of them and the pending one lead to     *)
(* what the cache believes to own.                                         *)
CacheShape ==
  /\ \A t \in Ids : kind[t] = "none" <=> layers[t] = 0
  /\ \A t \in Ids : kind[t] = "picture" <=> t = Picture
  /\ \A t \in Ids : t >= next_id => kind[t] = "none"
  /\ \A l \in slices : l < layers[Picture]

Follows(before, s) == Agrees(before, s.list) /\ s.after = Applied(before, s.list)

ListsLead ==
  /\ sent # <<>> => Follows(textures, sent[1])
  /\ \A i \in 1..(Len(sent) - 1) : Follows(sent[i].after, sent[i + 1])
  /\ Agrees(LastAfter, pending_updates)

(* An id is fresh until it is minted, and a texture that is gone has       *)
(* nothing left in the list but the command to free it, as the picture     *)
(* texture, which is drawn to, has no updates but debug clears.            *)
Silent(t) == kind[t] = "none" \/ (kind[t] = "picture" /\ ~DebugClears)

PendingFits ==
  \A t \in Ids :
    /\ Believed[t].layers = layers[t]
    /\ t >= next_id => LastAfter[t] = NoTexture
                       /\ pending_updates.allocations[t] = NoAllocation
    /\ Silent(t) => pending_updates.updates[t] = NoUpdates

TransferInv == CacheShape /\ ListsLead /\ PendingFits
=============================================================================
