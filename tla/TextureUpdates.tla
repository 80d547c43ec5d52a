--------------------------- MODULE TextureUpdates ---------------------------
(***************************************************************************)
(* TextureUpdateList (internal_types.rs): the commands by which the        *)
(* texture cache, on the render backend, manipulates the textures of the   *)
(* renderer.  The commands of a list are coalesced when they are pushed,   *)
(* so that the renderer can process all allocations before all updates.    *)
(***************************************************************************)
EXTENDS Integers

CONSTANTS
  Contents,     \* what the texels of a layer may hold
  Undefined,    \* what they hold before anything is written
  MaxTextures,  \* BOUND on the texture ids minted
  MaxLayers     \* max_texture_layers

ASSUME TextureAssumption ==
  /\ Undefined \notin Contents
  /\ MaxTextures \in Nat \ {0} /\ MaxLayers \in Nat \ {0}

(* CacheTextureId and LayerIndex.                                          *)
Ids    == 1..MaxTextures
Layers == 0..(MaxLayers - 1)

(* A texture of the renderer's texture_cache_map; one without layers is    *)
(* not in the map.                                                         *)
Texture == [layers : 0..MaxLayers, contents : [Layers -> Contents \cup {Undefined}]]

Fresh(n) == [layers |-> n, contents |-> [l \in Layers |-> Undefined]]

NoTexture == Fresh(0)

(* TextureCacheAllocation: at most one for a texture.                      *)
Allocation == [kind : {"None", "Free"}, layers : {0}]
              \cup [kind : {"Alloc", "Realloc", "Reset"}, layers : 1..MaxLayers]

NoAllocation == [kind |-> "None", layers |-> 0]

(* TextureCacheUpdate: the last one for a texel wins.                      *)
NoUpdates == [l \in Layers |-> Undefined]

UpdateList == [allocations : [Ids -> Allocation],
               updates     : [Ids -> [Layers -> Contents \cup {Undefined}]]]

EmptyList == [allocations |-> [t \in Ids |-> NoAllocation],
              updates     |-> [t \in Ids |-> NoUpdates]]

-----------------------------------------------------------------------------
(* The push operations.                                                    *)

PushUpdate(list, t, l, c) == [list EXCEPT !.updates[t][l] = c]

PushAlloc(list, t, n) == [list EXCEPT !.allocations[t] = [kind |-> "Alloc", layers |-> n]]

PushReallocBlank(list, t, n) ==
  [list EXCEPT !.allocations[t] =
     [kind |-> IF @.kind \in {"None", "Realloc"} THEN "Reset" ELSE @.kind, layers |-> n]]

(* A texture to be allocated or reset in this list is so with more layers. *)
PushRealloc(list, t, n) ==
  [list EXCEPT !.allocations[t] =
     [kind |-> IF @.kind = "None" THEN "Realloc" ELSE @.kind, layers |-> n]]

(* "Reset takes precedence over realloc."                                  *)
PushReset(list, t, n) ==
  [list EXCEPT !.allocations[t] =
     [kind |-> IF @.kind = "Alloc" THEN "Alloc" ELSE "Reset", layers |-> n]]

PushFreeKeepsUpdates(list, freed) ==
  [list EXCEPT !.allocations = [t \in Ids |->
     IF t \notin freed THEN @[t]
     ELSE IF @[t].kind = "Alloc" THEN NoAllocation
     ELSE [kind |-> "Free", layers |-> 0]]]

(* An allocation and its release collapse; updates of the freed texture    *)
(* are dropped.  Done for each texture of a set.                           *)
PushFree(list, freed) ==
  [allocations |-> [t \in Ids |->
     IF t \notin freed THEN list.allocations[t]
     ELSE IF list.allocations[t].kind = "Alloc" THEN NoAllocation
     ELSE [kind |-> "Free", layers |-> 0]],
   updates |-> [t \in Ids |-> IF t \in freed THEN NoUpdates ELSE list.updates[t]]]

(* What push_realloc, push_reset and push_free panic on.                   *)
AlreadyFreed(list, t) == list.allocations[t].kind = "Free"

-----------------------------------------------------------------------------
(* Renderer::update_texture_cache.                                         *)

(* The allocations first ...                                               *)
Allocated(texture, allocation) ==
  CASE allocation.kind = "None"    -> texture
    [] allocation.kind = "Realloc" -> [texture EXCEPT !.layers = allocation.layers]
    [] OTHER                       -> Fresh(allocation.layers)

AppliedUpdatesFirst(textures, list) ==
  [t \in Ids |->
     Allocated([textures[t] EXCEPT !.contents = [l \in Layers |->
                  IF list.updates[t][l] # Undefined THEN list.updates[t][l] ELSE @[l]]],
               list.allocations[t])]

(* ... then the updates.                                                   *)
Applied(textures, list) ==
  [t \in Ids |->
     [Allocated(textures[t], list.allocations[t]) EXCEPT !.contents = [l \in Layers |->
        IF list.updates[t][l] # Undefined THEN list.updates[t][l] ELSE @[l]]]]

(* The assertions on the way ("Renderer and backend disagree!"): it is     *)
(* told to allocate what is not there, to free, reset and grow what is ... *)
AllocationsAgree(textures, list) ==
  \A t \in Ids :
    LET allocation == list.allocations[t]
    IN /\ allocation.kind = "Alloc" => textures[t].layers = 0
       /\ allocation.kind = "Realloc" => textures[t].layers \in 1..allocation.layers
       /\ allocation.kind \in {"Reset", "Free"} => textures[t].layers # 0

(* ... and every update finds its texture and its layer.                   *)
UpdatesLand(textures, list) ==
  \A t \in Ids, l \in Layers :
    list.updates[t][l] # Undefined => l < Allocated(textures[t], list.allocations[t]).layers

Agrees(textures, list) == AllocationsAgree(textures, list) /\ UpdatesLand(textures, list)
=============================================================================
