---------------------------- MODULE TextureCache ----------------------------
(***************************************************************************)
(* texture_cache.rs: the entries of the texture cache, from the frames     *)
(* that request them to the renderer that draws those frames.  All         *)
(* documents share the textures; each counts its own frames, keeps its own *)
(* list of entries and evicts from that list only.  How the operations on  *)
(* whole textures reach the renderer is the business of TextureTransfer:   *)
(* here an update list says what it frees and what it writes.              *)
(*                                                                         *)
(* A region of the shared texture, a slice of the picture texture and a    *)
(* standalone texture hold one entry each.                                 *)
(***************************************************************************)
EXTENDS Integers, Sequences, FiniteSets

CONSTANTS
  Docs, NoDoc,
  Images,        \* handles of images and glyphs: their data is uploaded
  Tasks, Tiles,  \* handles of cached render tasks and picture tiles: frames draw them
  Users,         \* [Handles -> SUBSET Docs]: whose frames request a handle
  Blobs,         \* images with Eviction::Manual
  AddSlices,     \* PICTURE_TEXTURE_ADD_SLICES
  DebugClears,   \* whether a debugger clears the caches
  MaxFrames,     \* BOUND on the frames of each document
  MaxVersions,   \* BOUND on the changes of each handle's data
  MaxLayers,     \* BOUND on the regions, and on the slices
  MaxIds,        \* BOUND on textures
  MaxClears,     \* BOUND on the times that entries are cleared
  MaxInFlight    \* BOUND on the messages the renderer has not taken

Handles == Images \cup Tasks \cup Tiles

ASSUME TextureCacheAssumption ==
  /\ NoDoc \notin Docs
  /\ Images \cap Tasks = {} /\ Images \cap Tiles = {} /\ Tasks \cap Tiles = {}
  /\ Blobs \subseteq Images /\ AddSlices \in Nat \ {0}
  /\ Users \in [Handles -> SUBSET Docs] /\ DebugClears \in BOOLEAN
  /\ \A h \in Tiles : \A d, e \in Users[h] : d = e
  /\ MaxFrames \in [Docs -> Nat] /\ MaxVersions \in [Handles -> Nat]
  /\ {MaxLayers, MaxClears, MaxInFlight} \subseteq Nat /\ MaxIds \in Nat \ {0}

VARIABLES
  (* TextureCache *)
  entries,       \* Handles -> CacheEntry, of the handles that are valid
  regions, free_regions,   \* layers of the shared texture, and those without an entry
  slices, free_slices,     \* the same of the picture texture
  shared_id,     \* the id of the shared texture, 0 if there is none
  next_id,
  pending_updates,
  expired,       \* whether last_shared_cache_expiration is this frame
  require_frame_build,
  (* the render backend *)
  documents,
  frame_id,      \* [Docs -> the FrameId of its stamp]
  version,       \* [Handles -> which data its entry has]
  now,           \* the document it builds a frame of
  nops, batch,   \* the documents the group still has to build
  requested, wanted,    \* by this frame: found, and to be uploaded or drawn
  draws,         \* what this frame draws into the cache
  clears,        \* how often entries were cleared
  results,       \* to the renderer
  (* Renderer *)
  textures,      \* address -> data
  pending_texture_updates,
  active_documents,        \* document -> frame
  documents_seen, shared_texture_cache_cleared,
  taken_clears,  \* history: clears of the last list taken
  panicked       \* an unwrap or an assertion has failed

sharedVars == <<regions, free_regions, shared_id>>
pictureVars == <<slices, free_slices>>
cacheVars == <<entries, sharedVars, pictureVars, next_id, pending_updates, expired,
               require_frame_build>>
frameVars == <<requested, wanted, draws>>
backendVars == <<documents, frame_id, version, now, nops, batch, frameVars, clears>>
rendererVars == <<textures, pending_texture_updates, active_documents, documents_seen,
                  shared_texture_cache_cleared, taken_clears>>
vars == <<cacheVars, backendVars, results, rendererVars, panicked>>

Kinds == {"shared", "standalone", "picture"}
Evictions == {"Auto", "Manual", "Eager"}

(* A texture and its layer.                                                *)
Address == Nat \X Nat
Picture == 0    \* the id of the picture texture

Data == Handles \X Nat

(* last_access is the frame id only: 0 is FrameStamp::INVALID, and which   *)
(* document the frame is of plays no role.  owner is the document on whose *)
(* EntryHandles the strong handle is; dropped says that the weak handle is *)
(* gone.                                                                   *)
CacheEntry == [kind : Kinds, at : Address, last_access : Nat, eviction : Evictions,
               owner : Docs, dropped : BOOLEAN]

EmptyMap == <<>>
Override(f, g) == [a \in DOMAIN f \cup DOMAIN g |-> IF a \in DOMAIN g THEN g[a] ELSE f[a]]
Without(f, S) == [a \in DOMAIN f \ S |-> f[a]]
Of(f, ids) == {a \in DOMAIN f : a[1] \in ids}

(* A TextureUpdateList, with its frees first.                              *)
EmptyList == [clear |-> FALSE, frees |-> {}, writes |-> EmptyMap]
Applied(list, texs) == Override(Without(texs, Of(texs, list.frees)), list.writes)
Then(l1, l2) == [clear |-> l1.clear \/ l2.clear, frees |-> l1.frees \cup l2.frees,
                 writes |-> Applied(l2, l1.writes)]

Freeing(ids) == [EmptyList EXCEPT !.frees = ids]
Writing(at, data) == [EmptyList EXCEPT !.writes = [a \in {at} |-> data]]

(* What a frame reads; shared if other documents request the handle too.   *)
Use == [of : Handles, at : Address, data : Data, shared : BOOLEAN]

Init ==
  /\ entries = EmptyMap
  /\ regions = 0 /\ free_regions = {} /\ slices = 0 /\ free_slices = {}
  /\ shared_id = 0 /\ next_id = 1
  /\ pending_updates = EmptyList /\ expired = FALSE /\ require_frame_build = FALSE
  /\ documents = {} /\ frame_id = [d \in Docs |-> 0] /\ version = [h \in Handles |-> 0]
  /\ now = NoDoc /\ nops = {} /\ batch = {}
  /\ requested = {} /\ wanted = {} /\ draws = EmptyMap
  /\ clears = 0 /\ results = <<>>
  /\ textures = EmptyMap /\ pending_texture_updates = EmptyList
  /\ active_documents = EmptyMap /\ documents_seen = {}
  /\ shared_texture_cache_cleared = FALSE /\ taken_clears = 0
  /\ panicked = FALSE

-----------------------------------------------------------------------------
(* Entries and their places.                                               *)

Valid(h) == h \in DOMAIN entries /\ ~entries[h].dropped

OldTooSoon(h, stamp, kept) == entries[h].last_access <= stamp - kept

(* EvictionThreshold::should_evict, by frames: entries that were used in   *)
(* the frames kept before the frame stamp stay.  They stay for some time   *)
(* too, and memory pressure lowers both limits, down to nothing: old       *)
(* entries may go, and those that were marked unused must.                 *)
Old(h, stamp, kept) == entries[h].last_access < stamp - kept

MayGo(h, stamp, kept) ==
  entries[h].eviction = "Auto" /\ (Old(h, stamp, kept) \/ entries[h].last_access = 0)

MustGo(h, stamp) ==
  \/ entries[h].eviction = "Auto" /\ entries[h].last_access = 0
  \/ entries[h].eviction = "Eager" /\ entries[h].last_access + 1 < stamp

ExpiredOfAll(d, stamp, kinds, kept) ==
  LET old == {h \in DOMAIN entries : entries[h].kind \in kinds}
      must == {h \in old : MustGo(h, stamp)}
  IN {must \cup E : E \in SUBSET {h \in old : MayGo(h, stamp, kept)}}

(* expire_old_entries of document d looks at the list of d.                *)
Expired(d, stamp, kinds, kept) ==
  LET mine == {h \in DOMAIN entries : entries[h].owner = d /\ entries[h].kind \in kinds}
      must == {h \in mine : MustGo(h, stamp)}
  IN {must \cup E : E \in SUBSET {h \in mine : MayGo(h, stamp, kept)}}

Ids(E, kind) == {entries[h].at[1] : h \in {g \in E : entries[g].kind = kind}}
Layers(E, kind) == {entries[h].at[2] : h \in {g \in E : entries[g].kind = kind}}

(* TextureCache::free, of the entries E.                                   *)
RegionsAfter(E) == free_regions \cup Layers(E, "shared")
SlicesAfter(E) == free_slices \cup Layers(E, "picture")
UpdatesAfter(E) == Then(pending_updates, Freeing(Ids(E, "standalone")))

-----------------------------------------------------------------------------
(* Clearing.                                                               *)

(* clear_shared.                                                           *)
ClearShared ==
  /\ clears < MaxClears /\ clears' = clears + 1
  /\ entries' = Without(entries, {h \in DOMAIN entries : entries[h].kind = "shared"})
  /\ regions' = 0 /\ free_regions' = {} /\ shared_id' = 0
  /\ pending_updates' = Then(pending_updates, [Freeing({shared_id} \ {0}) EXCEPT !.clear = TRUE])
  /\ UNCHANGED pictureVars

(* clear_all: the picture texture is reset if it has grown.                *)
AllCleared ==
  LET reset == IF slices > AddSlices THEN {Picture} ELSE {}
  IN Then(UpdatesAfter(DOMAIN entries),
          [Freeing(({shared_id} \ {0}) \cup reset) EXCEPT !.clear = TRUE])

ClearAll ==
  /\ clears < MaxClears /\ clears' = clears + 1
  /\ entries' = EmptyMap
  /\ regions' = 0 /\ free_regions' = {} /\ shared_id' = 0
  /\ slices' = (IF slices > AddSlices THEN AddSlices ELSE slices)
  /\ free_slices' = 1..slices'
  /\ require_frame_build' = TRUE

Between == now = NoDoc /\ nops = {} /\ batch = {}

unchangedBetween == <<next_id, expired, documents, frame_id, version, now, nops, batch,
                      frameVars, rendererVars, panicked>>

(* The renderer is told to drop all frames.                                *)
MemoryPressure ==
  /\ Between
  /\ Len(results) < MaxInFlight
  /\ ClearAll
  /\ results' = Append(results, [kind |-> "pressure", list |-> AllCleared, clears |-> clears'])
  /\ pending_updates' = EmptyList
  /\ UNCHANGED unchangedBetween

(* DebugCommand::ClearCaches.                                              *)
ClearCaches ==
  /\ Between /\ DebugClears
  /\ ClearAll
  /\ pending_updates' = AllCleared
  /\ UNCHANGED <<results, unchangedBetween>>

(* An image is deleted: mark_unused.                                       *)
Delete(h) ==
  /\ Between
  /\ h \in Images /\ Valid(h)
  /\ entries' = [entries EXCEPT ![h] = [@ EXCEPT !.last_access = 0, !.eviction = "Auto",
                                                 !.dropped = TRUE]]
  /\ UNCHANGED <<sharedVars, pictureVars, pending_updates, require_frame_build, clears, results,
                 unchangedBetween>>

AddDocument(d) ==
  /\ Between
  /\ d \notin documents /\ frame_id[d] = 0
  /\ documents' = documents \cup {d}
  /\ UNCHANGED <<cacheVars, frame_id, version, now, nops, batch, frameVars, clears, results,
                 rendererVars, panicked>>

(* Its entries, and its frame in the renderer, stay.                       *)
DeleteDocument(d) ==
  /\ Between
  /\ d \in documents
  /\ documents' = documents \ {d}
  /\ UNCHANGED <<cacheVars, frame_id, version, now, nops, batch, frameVars, clears, results,
                 rendererVars, panicked>>

-----------------------------------------------------------------------------
(* A group of frames.                                                      *)

(* prepare_for_frames, and maybe_force_nop_documents.                      *)
StartGroup(ds) ==
  /\ Between
  /\ ds \subseteq documents
  /\ \A d \in documents : frame_id[d] < MaxFrames[d]
  /\ \/ /\ free_regions # {}
        /\ ClearShared
        /\ require_frame_build' = (documents # {})
     \/ /\ UNCHANGED <<entries, sharedVars, pictureVars, pending_updates, clears>>
        /\ require_frame_build' = (require_frame_build /\ documents # {})
  /\ batch' = ds
  /\ nops' = IF require_frame_build' THEN documents \ ds ELSE {}
  /\ UNCHANGED <<next_id, expired, documents, frame_id, version, now, frameVars, results,
                 rendererVars, panicked>>

(* begin_frame, with the periodic collection of old shared entries.        *)
BeginFrame(d) ==
  /\ now = NoDoc
  /\ d \in (IF nops # {} THEN nops ELSE batch)
  /\ now' = d
  /\ frame_id' = [frame_id EXCEPT ![d] = @ + 1]
  /\ nops' = nops \ {d} /\ batch' = batch \ {d}
  /\ \/ /\ expired' = FALSE
        /\ UNCHANGED <<entries, free_regions>>
     \/ /\ expired' = TRUE
        /\ \E E \in Expired(d, frame_id'[d], {"shared"}, IF frame_id'[d] > 1 THEN 1 ELSE 0) :
             /\ entries' = Without(entries, E)
             /\ free_regions' = RegionsAfter(E)
  /\ UNCHANGED <<regions, shared_id, pictureVars, next_id, pending_updates, require_frame_build,
                 documents, version, frameVars, clears, results, rendererVars, panicked>>

Stamp == frame_id[now]

unchangedByBuilding == <<require_frame_build, documents, frame_id, now, nops, batch, clears,
                         results, rendererVars>>

(* request.  What is not in the cache has to be uploaded or drawn, and so  *)
(* has what changed; a render task that is in the cache is used as it is.  *)
Request(h) ==
  /\ now # NoDoc /\ now \in Users[h] /\ h \notin requested \cup wanted
  /\ h \in DOMAIN entries => Valid(h)
  /\ entries' = IF Valid(h) THEN [entries EXCEPT ![h] = [@ EXCEPT !.last_access = Stamp]]
                            ELSE entries
  /\ \/ Valid(h) /\ requested' = requested \cup {h} /\ UNCHANGED wanted
     \/ ~(Valid(h) /\ h \in Tasks) /\ wanted' = wanted \cup {h} /\ UNCHANGED requested
  /\ UNCHANGED <<sharedVars, pictureVars, next_id, pending_updates, expired, version, draws,
                 unchangedByBuilding, panicked>>

PolicyOf(h) == CASE h \in Blobs -> "Manual" [] h \in Images \ Blobs -> "Auto" [] OTHER -> "Eager"

(* What has to be done for the data to get there.                          *)
Filled(h, at, list) ==
  /\ version[h] < MaxVersions[h] /\ version' = [version EXCEPT ![h] = @ + 1]
  /\ IF h \in Images
     THEN pending_updates' = Then(list, Writing(at, <<h, version'[h]>>)) /\ UNCHANGED draws
     ELSE pending_updates' = list /\ draws' = Override(draws, [a \in {at} |-> <<h, version'[h]>>])
  /\ requested' = requested \cup {h} /\ wanted' = wanted \ {h}

(* The entry at a new place; the strong handle of a valid entry stays      *)
(* where it is.                                                            *)
Upserted(h, kind, at, E) ==
  LET left == Without(entries, E)
      owner == IF h \in DOMAIN left THEN left[h].owner ELSE now
  IN [x \in DOMAIN left \cup {h} |->
        IF x # h THEN left[x]
        ELSE [kind |-> kind, at |-> at, last_access |-> Stamp, eviction |-> PolicyOf(h),
              owner |-> owner, dropped |-> FALSE]]

ReleasedNot(h, E) == E

(* What goes when h moves, the entries E having expired.                   *)
Released(h, E) == IF h \in DOMAIN entries THEN E \cup {h} ELSE E

(* upsert_entry moves the strong handle to the list of its new kind, of    *)
(* the document of the frame: it must be there.                            *)
MovesBetweenLists(h, kind, E) ==
  /\ h \in DOMAIN entries \ E
  /\ entries[h].kind # kind /\ entries[h].owner # now

Moved(h, kind, at, E) ==
  /\ entries' = Upserted(h, kind, at, E)
  /\ Filled(h, at, UpdatesAfter(Released(h, E)))
  /\ panicked' = MovesBetweenLists(h, kind, E)

(* allocate_from_shared_cache: old entries make room if there is none and  *)
(* this was not tried in this frame; then the texture grows.               *)
UpdateShared(h) ==
  /\ h \in wanted /\ h \notin Tiles
  /\ LET try == free_regions = {} /\ ~expired
     IN /\ expired' = (expired \/ try)
        /\ \E E \in IF try THEN Expired(now, Stamp, {"shared"}, 0) ELSE {{}} :
             LET space == RegionsAfter(E)
             IN IF space # {}
                THEN \E layer \in space :
                       /\ Moved(h, "shared", <<shared_id, layer>>, E)
                       /\ free_regions' = RegionsAfter(Released(h, E)) \ {layer}
                       /\ UNCHANGED <<regions, shared_id, next_id>>
                ELSE /\ regions < MaxLayers /\ regions' = regions + 1
                     /\ IF shared_id = 0
                        THEN next_id < MaxIds /\ shared_id' = next_id /\ next_id' = next_id + 1
                        ELSE UNCHANGED <<shared_id, next_id>>
                     /\ Moved(h, "shared", <<shared_id', regions'>>, E)
                     /\ free_regions' = RegionsAfter(Released(h, E))
  /\ UNCHANGED <<pictureVars, unchangedByBuilding>>

UpdateStandalone(h) ==
  /\ h \in wanted /\ h \notin Tiles
  /\ next_id < MaxIds /\ next_id' = next_id + 1
  /\ Moved(h, "standalone", <<next_id, 1>>, {})
  /\ free_regions' = RegionsAfter(Released(h, {}))
  /\ UNCHANGED <<regions, shared_id, pictureVars, expired, unchangedByBuilding>>

(* update, of an entry whose size is the same.                             *)
UpdateInPlace(h) ==
  /\ h \in wanted /\ Valid(h)
  /\ Filled(h, entries[h].at, pending_updates)
  /\ UNCHANGED <<entries, sharedVars, pictureVars, next_id, expired, unchangedByBuilding, panicked>>

(* update_picture_cache.                                                   *)
UpdatePicture(h) ==
  /\ h \in wanted \cap Tiles /\ ~Valid(h)
  /\ IF free_slices # {}
     THEN \E layer \in free_slices :
            /\ \A other \in free_slices : layer <= other
            /\ Moved(h, "picture", <<Picture, layer>>, {})
            /\ free_slices' = free_slices \ {layer} /\ UNCHANGED slices
     ELSE /\ slices + AddSlices <= MaxLayers /\ slices' = slices + AddSlices
          /\ Moved(h, "picture", <<Picture, slices + 1>>, {})
          /\ free_slices' = (slices + 2)..slices'
  /\ UNCHANGED <<sharedVars, next_id, expired, unchangedByBuilding>>

Reads ==
  {[of |-> h, at |-> entries[h].at, data |-> <<h, version[h]>>, shared |-> Users[h] # {now}] :
     h \in requested \cap DOMAIN entries}

(* end_frame, and what update_document publishes.  After the last frame of *)
(* the group comes bookkeep_after_frames.                                  *)
EndFrame ==
  /\ now # NoDoc /\ wanted = {}
  /\ Len(results) < MaxInFlight
  /\ \E E \in Expired(now, Stamp, {"standalone", "picture"}, 0) :
       /\ entries' = Without(entries, E)
       /\ free_slices' = SlicesAfter(E)
       /\ results' = Append(results,
            [kind |-> "document", id |-> now, list |-> UpdatesAfter(E), clears |-> clears,
             frame |-> [reads |-> Reads, draws |-> draws, clears |-> clears, rendered |-> FALSE]])
  /\ pending_updates' = EmptyList
  /\ require_frame_build' = (require_frame_build /\ (nops # {} \/ batch # {}))
  /\ now' = NoDoc /\ requested' = {} /\ draws' = EmptyMap /\ expired' = FALSE
  /\ UNCHANGED <<sharedVars, slices, next_id, documents, frame_id, version, nops, batch, wanted,
                 clears, rendererVars, panicked>>

-----------------------------------------------------------------------------
(* The renderer.                                                           *)

Active == DOMAIN active_documents

MustBeDrawnNever(frame) == FALSE

MustBeDrawn(frame) == frame.draws # EmptyMap /\ ~frame.rendered

(* update_texture_cache, and what the frames draw into the cache: a frame  *)
(* that has been rendered does not draw there again.                       *)
DrawnBy(frames, texs) ==
  LET undrawn == {d \in DOMAIN frames : ~frames[d].rendered}
      at == UNION {DOMAIN frames[d].draws : d \in undrawn}
  IN Override(texs, [a \in at |-> frames[CHOOSE d \in undrawn : a \in DOMAIN frames[d].draws].draws[a]])

Rendered(frames) == [d \in DOMAIN frames |-> [frames[d] EXCEPT !.rendered = TRUE]]

Drawn == DrawnBy(active_documents, Applied(pending_texture_updates, textures))

Cleared == shared_texture_cache_cleared \/ pending_texture_updates.clear

(* "Cleared texture cache without sending new document frame."             *)
AllSeen == Cleared => Active \subseteq documents_seen

(* render_impl; without documents it returns at once.                      *)
Render ==
  /\ Active # {}
  /\ IF AllSeen
     THEN /\ textures' = Drawn /\ pending_texture_updates' = EmptyList
          /\ active_documents' = Rendered(active_documents)
          /\ documents_seen' = {} /\ shared_texture_cache_cleared' = FALSE
          /\ UNCHANGED panicked
     ELSE /\ panicked' = TRUE
          /\ UNCHANGED <<textures, pending_texture_updates, active_documents, documents_seen,
                         shared_texture_cache_cleared>>
  /\ UNCHANGED <<cacheVars, backendVars, results, taken_clears>>

Take(kind) ==
  /\ results # <<>> /\ Head(results).kind = kind
  /\ results' = Tail(results)
  /\ taken_clears' = Head(results).clears
  /\ UNCHANGED <<cacheVars, backendVars>>

(* A frame that has something to draw into the cache is drawn before it is *)
(* replaced.                                                               *)
TakeDocument ==
  /\ Take("document")
  /\ LET new == Head(results)
         forced == new.id \in Active /\ MustBeDrawn(active_documents[new.id])
         frames == IF forced THEN Rendered(active_documents) ELSE active_documents
     IN IF forced /\ ~AllSeen
        THEN /\ panicked' = TRUE
             /\ UNCHANGED <<textures, pending_texture_updates, active_documents, documents_seen,
                            shared_texture_cache_cleared>>
        ELSE /\ textures' = IF forced THEN Drawn ELSE textures
             /\ pending_texture_updates' =
                  Then(IF forced THEN EmptyList ELSE pending_texture_updates, new.list)
             /\ active_documents' = Override(frames, [d \in {new.id} |-> new.frame])
             /\ documents_seen' = (IF forced THEN {} ELSE documents_seen) \cup {new.id}
             /\ shared_texture_cache_cleared' = (~forced /\ shared_texture_cache_cleared)
             /\ UNCHANGED panicked

(* UpdateResources with memory_pressure.                                   *)
TakePressure ==
  /\ Take("pressure")
  /\ textures' = Applied(Then(pending_texture_updates, Head(results).list), textures)
  /\ pending_texture_updates' = EmptyList
  /\ shared_texture_cache_cleared' = TRUE
  /\ active_documents' = EmptyMap
  /\ UNCHANGED <<documents_seen, panicked>>

RenderBackend ==
  \/ MemoryPressure \/ ClearCaches
  \/ \E d \in Docs : AddDocument(d) \/ DeleteDocument(d) \/ BeginFrame(d)
  \/ \E ds \in SUBSET Docs : StartGroup(ds)
  \/ \E h \in Handles :
       \/ Delete(h) \/ Request(h)
       \/ UpdateShared(h) \/ UpdateStandalone(h) \/ UpdateInPlace(h) \/ UpdatePicture(h)
  \/ EndFrame

Renderer == Render \/ TakeDocument \/ TakePressure

Next == ~panicked /\ (RenderBackend \/ Renderer)

Spec == Init /\ [][Next]_vars

-----------------------------------------------------------------------------
(* Properties.                                                             *)

IsList(l) ==
  /\ l.clear \in BOOLEAN /\ l.frees \subseteq Nat
  /\ DOMAIN l.writes \subseteq Address /\ \A a \in DOMAIN l.writes : l.writes[a] \in Data

TypeOK ==
  /\ DOMAIN entries \subseteq Handles /\ \A h \in DOMAIN entries : entries[h] \in CacheEntry
  /\ regions \in 0..MaxLayers /\ free_regions \subseteq 1..regions
  /\ slices \in 0..MaxLayers /\ free_slices \subseteq 1..slices
  /\ shared_id \in 0..MaxIds /\ next_id \in 1..MaxIds
  /\ IsList(pending_updates) /\ IsList(pending_texture_updates)
  /\ \A m \in 1..Len(results) : IsList(results[m].list)
  /\ documents \subseteq Docs /\ now \in Docs \cup {NoDoc}
  /\ requested \cap wanted = {}

(* Each layer of the shared texture and each slice of the picture texture  *)
(* is free or the place of one entry, whatever was evicted, moved, cleared *)
(* or grown: a layer that is neither is lost until the next clear, one     *)
(* that is both will be overwritten.                                       *)
PlacesHeldOnce ==
  /\ \A g, h \in DOMAIN entries : entries[g].at = entries[h].at => g = h
  /\ free_regions = 1..regions \ Layers(DOMAIN entries, "shared")
  /\ free_slices = 1..slices \ Layers(DOMAIN entries, "picture")
  /\ Ids(DOMAIN entries, "shared") \subseteq {shared_id}

TextureCacheInv == TypeOK /\ PlacesHeldOnce

(* What a frame has requested stays until the frame is built, although     *)
(* room is made for other entries meanwhile: get would find that it "was   *)
(* dropped from cache or not updated".                                     *)
RequestedStays ==
  \A h \in requested : Valid(h) /\ entries[h].last_access = Stamp

(* What the renderer has, when it has drawn, and when it has taken m.      *)
Store == [textures |-> textures, list |-> pending_texture_updates, frames |-> active_documents]

DrawnStore(st) == [textures |-> DrawnBy(st.frames, Applied(st.list, st.textures)),
                   list |-> EmptyList, frames |-> Rendered(st.frames)]

AfterMessage(st, m) ==
  IF m.kind = "pressure"
  THEN [textures |-> Applied(Then(st.list, m.list), st.textures), list |-> EmptyList,
        frames |-> EmptyMap]
  ELSE LET forced == m.id \in DOMAIN st.frames /\ MustBeDrawn(st.frames[m.id])
           had == IF forced THEN DrawnStore(st) ELSE st
       IN [textures |-> had.textures, list |-> Then(had.list, m.list),
           frames |-> Override(had.frames, [d \in {m.id} |-> m.frame])]

(* What the textures will hold when everything on its way has been taken   *)
(* and drawn.                                                              *)
OnceDelivered ==
  LET after[n \in 0..Len(results)] ==
        IF n = 0 THEN Store ELSE AfterMessage(after[n - 1], results[n])
  IN Override(Applied(pending_updates, DrawnStore(after[Len(results)]).textures), draws)

(* A handle that request finds in the cache is not uploaded or drawn       *)
(* again: its data must be in its place or on its way there, also when it  *)
(* is a frame that draws it, and that frame is replaced before it is shown.*)
(* A debugger that clears the caches must not meet tiles of two documents: *)
(* the slices are given out anew while a frame from before the clear may   *)
(* still draw there, as documents_seen then has its document too.          *)
ValidIsFilled ==
  ~panicked => \A h \in DOMAIN entries \ wanted :
    entries[h].at \in DOMAIN OnceDelivered /\ OnceDelivered[entries[h].at] = <<h, version[h]>>

(* Whenever the renderer draws, every entry that a frame reads is in its   *)
(* place, with the data of that frame, although the list of a later frame  *)
(* of another document has been applied, and entries have been evicted and *)
(* their places reused.  Entries that several documents request are        *)
(* excepted, and frames from before a clear.                               *)
(* A clear by the debugger, and tiles of two documents, break it as they   *)
(* break ValidIsFilled.                                                    *)
Current(d) == active_documents[d].clears = taken_clears

FrameIntact ==
  \A d \in Active : Current(d) =>
    \A u \in active_documents[d].reads :
      ~u.shared => u.at \in DOMAIN Drawn /\ Drawn[u.at] = u.data

(* update_texture_cache tells a frame from before a clear by               *)
(* documents_seen, and asserts that none is drawn (renderer.rs:2963).  TLC *)
(* refutes it with a clear of the shared textures and two documents, whose *)
(* new frames reach the renderer in two messages.                          *)
ClearedFramesReplaced == ~panicked
=============================================================================
