------------------------------ MODULE GpuCache ------------------------------
(***************************************************************************)
(* gpu_cache.rs: the cache of small data blocks that shaders read, from    *)
(* the slab allocator of the render backend to the texture of the          *)
(* renderer, with the documents whose frames fill it.  All documents share *)
(* the texture; each counts its own frames and keeps its own list of       *)
(* occupied blocks.                                                        *)
(***************************************************************************)
EXTENDS Integers, Sequences, FiniteSets

CONSTANTS
  Docs, NoDoc,
  Handles,         \* GpuCacheHandles
  Users,           \* [Handles -> SUBSET Docs]: whose frames request a handle
  Classes,         \* block sizes, one free list each
  ItemsPerRow,     \* [Classes -> Nat]: MAX_VERTEX_TEXTURE_WIDTH / alloc_size
  FramesBeforeEviction,
  External,        \* the data the renderer writes for a deferred block
  MaxFrames,       \* BOUND on the frames of each document
  MaxVersions,     \* BOUND on the changes of a handle's data
  MaxUses,         \* BOUND on the blocks that a frame reads
  MaxRows,         \* BOUND on the rows of the texture
  MaxClears,       \* BOUND on the calls of clear()
  MaxEpoch,        \* BOUND on epochs; Epoch is a u32
  MaxInFlight      \* BOUND on the messages the renderer has not taken

ASSUME GpuCacheAssumption ==
  /\ NoDoc \notin Docs
  /\ Users \in [Handles -> SUBSET Docs]
  /\ ItemsPerRow \in [Classes -> Nat \ {0}]
  /\ FramesBeforeEviction \in Nat \ {0}
  /\ MaxFrames \in [Docs -> Nat]
  /\ {MaxVersions, MaxUses, MaxRows, MaxClears, MaxEpoch, MaxInFlight} \subseteq Nat
  /\ External \notin (Handles \cup Docs) \X Nat

(* Index 0 of the vector is a dummy, so that 0 is None.                    *)
None == 0

VARIABLES
  (* GpuCache and its Texture, in the render backend *)
  blocks,        \* [1..block_count -> Block]
  block_count,
  rows,          \* the size class of each row
  free_lists,    \* [Classes -> head]
  occupied_list_heads,   \* [Docs -> head]
  base_epoch, max_epoch,
  updates,       \* address -> data, to be sent
  pending_clear,
  requires_frame_build,
  location,      \* [Handles -> CacheLocation]
  (* the render backend *)
  documents,
  frame_id,      \* [Docs -> the FrameId of its stamp]
  version,       \* [Handles -> which data its owner wants there]
  now,           \* the document it builds a frame of
  nops, batch,   \* the documents the group still has to build
  current_block, prev_block,    \* the loop of evict_old_blocks
  uses, deferred,               \* what the frame has obtained so far
  clears,        \* calls of clear() so far
  results,       \* to the renderer
  (* Renderer *)
  gpu_cache_texture,    \* address -> data
  pending_gpu_cache_updates, pending_gpu_cache_clear,
  active_documents,     \* document -> frame
  taken_base,    \* history: base_epoch of the last list taken
  spoiled        \* history: a frame of a dropped texture has written into this one

textureVars == <<blocks, block_count, rows, free_lists, occupied_list_heads, base_epoch,
                 max_epoch>>
cacheVars == <<textureVars, updates, pending_clear, requires_frame_build, location>>
backendVars == <<documents, frame_id, version, now, nops, batch, current_block,
                 prev_block, uses, deferred, clears>>
rendererVars == <<gpu_cache_texture, pending_gpu_cache_updates, pending_gpu_cache_clear,
                  active_documents, taken_base, spoiled>>
vars == <<cacheVars, backendVars, results, rendererVars>>

Epochs == 0..MaxEpoch
Address == (Nat \ {0}) \X Nat
Data == ((Handles \cup Docs) \X Nat) \cup {External}

(* owner is history: whose list the block is on.                           *)
Block == [at : Address, epoch : Epochs, next : Nat, last_access_time : Nat,
          owner : Docs \cup {NoDoc}]

CacheLocation == [block : Nat, epoch : Epochs]
NoLocation == [block |-> None, epoch |-> 0]

(* What a frame reads, for a handle or (of its document) for this frame    *)
(* only; shared if other documents request the handle too.                 *)
Use == [of : Handles \cup Docs, at : Address, data : Data, shared : BOOLEAN]
Frame == [uses : SUBSET Use, deferred : SUBSET Address, base : Epochs]

EmptyMap == <<>>

(* The second update of an address wins.                                   *)
Override(f, g) == [a \in DOMAIN f \cup DOMAIN g |-> IF a \in DOMAIN g THEN g[a] ELSE f[a]]

Init ==
  /\ blocks = EmptyMap /\ block_count = 0 /\ rows = <<>>
  /\ free_lists = [c \in Classes |-> None]
  /\ occupied_list_heads = [d \in Docs |-> None]
  /\ base_epoch = 0 /\ max_epoch = 0
  /\ updates = EmptyMap /\ pending_clear = FALSE /\ requires_frame_build = FALSE
  /\ location = [h \in Handles |-> NoLocation]
  /\ documents = {}
  /\ frame_id = [d \in Docs |-> 0]
  /\ version = [h \in Handles |-> 0]
  /\ now = NoDoc /\ nops = {} /\ batch = {}
  /\ current_block = None /\ prev_block = None /\ uses = {} /\ deferred = {}
  /\ clears = 0 /\ results = <<>>
  /\ gpu_cache_texture = EmptyMap /\ pending_gpu_cache_updates = EmptyMap
  /\ pending_gpu_cache_clear = FALSE
  /\ active_documents = EmptyMap /\ taken_base = 0 /\ spoiled = FALSE

-----------------------------------------------------------------------------
(* The texture.                                                            *)

NextBaseEpochKept == base_epoch

NextBaseEpoch == max_epoch + 1

(* GpuCache::clear: a new texture, whose epochs start above all those ever *)
(* given out.                                                              *)
Clear ==
  /\ max_epoch < MaxEpoch
  /\ blocks' = EmptyMap /\ block_count' = 0 /\ rows' = <<>>
  /\ free_lists' = [c \in Classes |-> None]
  /\ occupied_list_heads' = [d \in Docs |-> None]
  /\ base_epoch' = NextBaseEpoch /\ max_epoch' = NextBaseEpoch
  /\ updates' = EmptyMap
  /\ pending_clear' = TRUE
  /\ clears < MaxClears /\ clears' = clears + 1

NewAddress(i) == <<Len(rows) + 1, i>>

(* The blocks bs with those of a new row, each linked to the one before.   *)
WithNewRow(bs, c) ==
  [b \in 1..(block_count + ItemsPerRow[c]) |->
     IF b <= block_count THEN bs[b]
     ELSE [at |-> NewAddress(b - block_count - 1), epoch |-> base_epoch,
           next |-> IF b = block_count + 1 THEN None ELSE b - 1,
           last_access_time |-> frame_id[now], owner |-> NoDoc]]

(* From the head of a free list to the head of the document's list.        *)
Take(bs, b, c) ==
  /\ free_lists' = [free_lists EXCEPT ![c] = bs[b].next]
  /\ blocks' = [bs EXCEPT ![b] = [@ EXCEPT !.next = occupied_list_heads[now],
                                           !.last_access_time = frame_id[now],
                                           !.owner = now]]
  /\ occupied_list_heads' = [occupied_list_heads EXCEPT ![now] = b]

TakeFree(bs, c) ==
  /\ free_lists[c] # None
  /\ Take(bs, free_lists[c], c)
  /\ UNCHANGED <<block_count, rows>>

TakeFromNewRow(bs, c) ==
  /\ free_lists[c] = None
  /\ Len(rows) < MaxRows
  /\ rows' = Append(rows, c)
  /\ block_count' = block_count + ItemsPerRow[c]
  /\ Take(WithNewRow(bs, c), block_count + ItemsPerRow[c], c)

(* push_data, into the blocks bs.                                          *)
PushData(bs, c) == TakeFree(bs, c) \/ TakeFromNewRow(bs, c)

Pushed == occupied_list_heads'[now]
PushedAt == blocks'[Pushed].at

Copy(data) == updates' = Override(updates, [a \in {PushedAt} |-> data])

(* Block::advance_epoch.                                                   *)
Advanced(b) == [blocks[b] EXCEPT !.epoch = @ + 1]

MaxAfter(b) == IF max_epoch < blocks[b].epoch + 1 THEN blocks[b].epoch + 1 ELSE max_epoch

(* Whether a handle still refers to what was pushed for it.                *)
Valid(h) ==
  /\ location[h].block \in 1..block_count
  /\ blocks[location[h].block].epoch = location[h].epoch

-----------------------------------------------------------------------------
(* A group of frames.                                                      *)

Between == now = NoDoc /\ nops = {} /\ batch = {}

NopDocumentsNone(ds) == {}

(* maybe_force_nop_documents: a cleared cache owes every document a frame. *)
NopDocuments(ds) == IF requires_frame_build' THEN documents \ ds ELSE {}

(* RenderBackend::prepare_transactions, for the documents ds that are to   *)
(* build: prepare_for_frames may reclaim the texture; the documents that   *)
(* are forced to build come first.                                         *)
StartGroup(ds) ==
  /\ Between
  /\ ds \subseteq documents
  /\ \A d \in documents : frame_id[d] < MaxFrames[d]
  /\ \/ /\ Clear /\ rows # <<>>
        /\ requires_frame_build' = (documents # {})
     \/ /\ UNCHANGED <<textureVars, updates, pending_clear, clears>>
        /\ requires_frame_build' = (requires_frame_build /\ documents # {})
  /\ batch' = ds
  /\ nops' = NopDocuments(ds)
  /\ UNCHANGED <<location, documents, frame_id, version, now, current_block, prev_block,
                 uses, deferred, results, rendererVars>>

(* Document::build_frame and begin_frame, up to the loop over the occupied *)
(* list.                                                                   *)
BeginFrame(d) ==
  /\ now = NoDoc
  /\ d \in (IF nops # {} THEN nops ELSE batch)
  /\ frame_id' = [frame_id EXCEPT ![d] = @ + 1]
  /\ now' = d
  /\ current_block' = occupied_list_heads[d] /\ prev_block' = None
  /\ nops' = nops \ {d} /\ batch' = batch \ {d}
  /\ UNCHANGED <<cacheVars, documents, version, uses, deferred, clears, results, rendererVars>>

OldTooSoon(b) == blocks[b].last_access_time + FramesBeforeEviction <= frame_id[now]

Old(b) == blocks[b].last_access_time + FramesBeforeEviction < frame_id[now]

UnlinkedNot(following) == blocks

(* The previous block of the list skips the current one.                   *)
Unlinked(following) ==
  [i \in 1..block_count |->
     IF i = prev_block THEN [blocks[i] EXCEPT !.next = following] ELSE blocks[i]]

(* One turn of evict_old_blocks: an old block moves to the free list of    *)
(* its row ...                                                             *)
EvictOld ==
  /\ current_block # None
  /\ Old(current_block)
  /\ max_epoch' = MaxAfter(current_block) /\ max_epoch' <= MaxEpoch
  /\ LET b == current_block
         c == rows[blocks[b].at[1]]
         following == blocks[b].next
     IN /\ free_lists' = [free_lists EXCEPT ![c] = b]
        /\ blocks' = [Unlinked(following) EXCEPT
                        ![b] = [Advanced(b) EXCEPT !.next = free_lists[c], !.owner = NoDoc]]
        /\ occupied_list_heads' = IF prev_block = None
                                  THEN [occupied_list_heads EXCEPT ![now] = following]
                                  ELSE occupied_list_heads
        /\ current_block' = following
  /\ UNCHANGED <<block_count, rows, base_epoch, updates, pending_clear, requires_frame_build,
                 location, documents, frame_id, version, now, nops, batch, prev_block,
                 uses, deferred, clears, results, rendererVars>>

(* ... and a block in use stays.                                           *)
KeepRecent ==
  /\ current_block # None
  /\ ~Old(current_block)
  /\ prev_block' = current_block
  /\ current_block' = blocks[current_block].next
  /\ UNCHANGED <<cacheVars, documents, frame_id, version, now, nops, batch, uses,
                 deferred, clears, results, rendererVars>>

Building == now # NoDoc /\ current_block = None

(* The frame will read the handle's block, where it was last requested.    *)
Using(h, at) ==
  uses' = {u \in uses : u.of # h}
            \cup {[of |-> h, at |-> at, data |-> <<h, version'[h]>>,
                   shared |-> Users[h] # {now}]}

RoomFor(h) == Cardinality({u \in uses : u.of # h}) < MaxUses

(* request, of a handle that is in the cache ...                           *)
Touch(h) ==
  /\ Valid(h)
  /\ blocks' = [blocks EXCEPT ![location[h].block] =
                  [@ EXCEPT !.last_access_time = frame_id[now]]]
  /\ Using(h, blocks[location[h].block].at)
  /\ UNCHANGED <<block_count, rows, free_lists, occupied_list_heads, updates, location>>

(* ... and of one that is not: its GpuDataRequest pushes the data when it  *)
(* is dropped.                                                             *)
Fill(h, bs, c) ==
  /\ PushData(bs, c)
  /\ Copy(<<h, version'[h]>>)
  /\ location' = [location EXCEPT ![h] = [block |-> Pushed, epoch |-> blocks'[Pushed].epoch]]
  /\ Using(h, PushedAt)

unchangedByBuilding == <<base_epoch, pending_clear, requires_frame_build, documents, frame_id,
                         now, nops, batch, current_block, prev_block, clears, results,
                         rendererVars>>

Request(h) ==
  /\ Building /\ now \in Users[h] /\ RoomFor(h)
  /\ UNCHANGED version
  /\ Touch(h) \/ (~Valid(h) /\ \E c \in Classes : Fill(h, blocks, c))
  /\ UNCHANGED <<max_epoch, deferred, unchangedByBuilding>>

(* invalidate: the handle's block, if it still is the handle's, stays on   *)
(* the occupied list and is not found again.                               *)
Retired(h) ==
  IF Valid(h) THEN [blocks EXCEPT ![location[h].block] = Advanced(location[h].block)]
              ELSE blocks

RetiredMax(h) == IF Valid(h) THEN MaxAfter(location[h].block) ELSE max_epoch

NewVersion(h) ==
  /\ Building /\ now \in Users[h]
  /\ version[h] < MaxVersions
  /\ version' = [version EXCEPT ![h] = @ + 1]
  /\ max_epoch' = RetiredMax(h) /\ max_epoch' <= MaxEpoch

(* A picture invalidates its handles before the frame requests them.       *)
Invalidate(h) ==
  /\ NewVersion(h)
  /\ \A u \in uses : u.of # h
  /\ blocks' = Retired(h)
  /\ UNCHANGED <<block_count, rows, free_lists, occupied_list_heads, updates, location, uses,
                 deferred, unchangedByBuilding>>

(* TextureCache::update invalidates and requests, also in mid-frame.       *)
Update(h) ==
  /\ NewVersion(h) /\ RoomFor(h)
  /\ \E c \in Classes : Fill(h, Retired(h), c)
  /\ UNCHANGED <<deferred, unchangedByBuilding>>

PushedForFrame(data) ==
  uses' = uses \cup {[of |-> now, at |-> PushedAt, data |-> data, shared |-> FALSE]}

(* push_per_frame_blocks.                                                  *)
PushPerFrame(c) ==
  /\ Building
  /\ Cardinality(uses) < MaxUses
  /\ PushData(blocks, c)
  /\ Copy(<<now, frame_id[now]>>)
  /\ PushedForFrame(<<now, frame_id[now]>>)
  /\ UNCHANGED <<max_epoch, version, location, deferred, unchangedByBuilding>>

(* push_deferred_per_frame_blocks: the renderer will fill the block, each  *)
(* time it draws the frame.                                                *)
PushDeferred(c) ==
  /\ Building
  /\ Cardinality(uses) < MaxUses
  /\ PushData(blocks, c)
  /\ PushedForFrame(External)
  /\ deferred' = deferred \cup {PushedAt}
  /\ UNCHANGED <<max_epoch, updates, version, location, unchangedByBuilding>>

(* end_frame, extract_updates, and the two messages of update_document.    *)
(* The last frame of the group is followed by bookkeep_after_frames.       *)
EndFrame ==
  /\ Building
  /\ Len(results) + 2 <= MaxInFlight
  /\ results' = results \o
       << [kind |-> "gpu", clear |-> pending_clear, updates |-> updates, base |-> base_epoch],
          [kind |-> "document", id |-> now,
           frame |-> [uses |-> uses, deferred |-> deferred, base |-> base_epoch]] >>
  /\ pending_clear' = FALSE /\ updates' = EmptyMap
  /\ requires_frame_build' = (requires_frame_build /\ (nops # {} \/ batch # {}))
  /\ now' = NoDoc /\ prev_block' = None /\ uses' = {} /\ deferred' = {}
  /\ UNCHANGED <<textureVars, location, documents, frame_id, version, nops, batch,
                 current_block, clears, rendererVars>>

(* Memory pressure, or the debug display of the cache being toggled.       *)
DropCaches ==
  /\ Between
  /\ Clear /\ requires_frame_build' = TRUE
  /\ \/ results' = results
     \/ Len(results) < MaxInFlight /\ results' = Append(results, [kind |-> "pressure"])
  /\ UNCHANGED <<location, documents, frame_id, version, now, nops, batch, current_block,
                 prev_block, uses, deferred, rendererVars>>

(* A document, from the first scene on: it is built when it is asked to.   *)
AddDocument(d) ==
  /\ Between
  /\ d \notin documents /\ frame_id[d] = 0
  /\ documents' = documents \cup {d}
  /\ UNCHANGED <<cacheVars, frame_id, version, now, nops, batch, current_block, prev_block,
                 uses, deferred, clears, results, rendererVars>>

(* Neither the cache nor the renderer is told.                             *)
DeleteDocument(d) ==
  /\ Between
  /\ d \in documents
  /\ documents' = documents \ {d}
  /\ UNCHANGED <<cacheVars, frame_id, version, now, nops, batch, current_block, prev_block,
                 uses, deferred, clears, results, rendererVars>>

-----------------------------------------------------------------------------
(* The renderer.                                                           *)

TakeUpdates ==
  /\ results # <<>> /\ Head(results).kind = "gpu" /\ results' = Tail(results)
  /\ LET list == Head(results)
     IN /\ pending_gpu_cache_clear' = (pending_gpu_cache_clear \/ list.clear)
        /\ pending_gpu_cache_updates' = Override(pending_gpu_cache_updates, list.updates)
        /\ taken_base' = list.base
  /\ UNCHANGED <<cacheVars, backendVars, gpu_cache_texture, active_documents, spoiled>>

TakeDocument ==
  /\ results # <<>> /\ Head(results).kind = "document" /\ results' = Tail(results)
  /\ active_documents' =
       Override(active_documents, [d \in {Head(results).id} |-> Head(results).frame])
  /\ UNCHANGED <<cacheVars, backendVars, gpu_cache_texture, pending_gpu_cache_updates,
                 pending_gpu_cache_clear, taken_base, spoiled>>

TakePressure ==
  /\ results # <<>> /\ Head(results).kind = "pressure" /\ results' = Tail(results)
  /\ active_documents' = EmptyMap
  /\ UNCHANGED <<cacheVars, backendVars, gpu_cache_texture, pending_gpu_cache_updates,
                 pending_gpu_cache_clear, taken_base, spoiled>>

Active == DOMAIN active_documents

(* What the lists make of the texture: the clear comes first, even before  *)
(* the lists that are older than it.                                       *)
Uploaded ==
  Override(IF pending_gpu_cache_clear THEN EmptyMap ELSE gpu_cache_texture,
           pending_gpu_cache_updates)

(* update_deferred_resolves, for every document drawn.                     *)
Deferred == UNION {active_documents[d].deferred : d \in Active}
Drawn == Override(Uploaded, [a \in Deferred |-> External])

(* A frame of a dropped texture is drawn, and writes into the new one.     *)
Spoiled ==
  \/ spoiled
  \/ \E d \in Active : /\ active_documents[d].base # taken_base
                      /\ active_documents[d].deferred # {}

(* render_impl; without documents it returns at once.                      *)
Render ==
  /\ Active # {}
  /\ gpu_cache_texture' = Drawn
  /\ pending_gpu_cache_updates' = EmptyMap /\ pending_gpu_cache_clear' = FALSE
  /\ spoiled' = Spoiled
  /\ UNCHANGED <<cacheVars, backendVars, results, active_documents, taken_base>>

RenderBackend ==
  \/ \E ds \in SUBSET Docs : StartGroup(ds)
  \/ \E d \in Docs : BeginFrame(d)
  \/ EvictOld \/ KeepRecent
  \/ \E h \in Handles : Request(h) \/ Invalidate(h) \/ Update(h)
  \/ \E c \in Classes : PushPerFrame(c) \/ PushDeferred(c)
  \/ EndFrame
  \/ DropCaches
  \/ \E d \in Docs : AddDocument(d) \/ DeleteDocument(d)

Renderer == TakeUpdates \/ TakeDocument \/ TakePressure \/ Render

Next == RenderBackend \/ Renderer

Spec == Init /\ [][Next]_vars

-----------------------------------------------------------------------------
(* Properties.                                                             *)

(* The blocks of a list.                                                   *)
Linked(head) ==
  LET nth[n \in 0..block_count] ==
        IF n = 0 THEN head
        ELSE IF nth[n - 1] = None THEN None ELSE blocks[nth[n - 1]].next
  IN {nth[n] : n \in 0..block_count} \ {None}

Lists == [free : Classes] \cup [occupied : Docs]
ListOf(l) == Linked(IF l \in [free : Classes] THEN free_lists[l.free]
                                              ELSE occupied_list_heads[l.occupied])

(* A map from addresses to data, as sent and as kept in the texture.       *)
IsMap(f) == DOMAIN f \subseteq Address /\ \A a \in DOMAIN f : f[a] \in Data

TypeOK ==
  /\ block_count \in Nat /\ blocks \in [1..block_count -> Block]
  /\ rows \in Seq(Classes)
  /\ free_lists \in [Classes -> 0..block_count]
  /\ occupied_list_heads \in [Docs -> 0..block_count]
  /\ base_epoch \in Epochs /\ max_epoch \in base_epoch..MaxEpoch
  /\ IsMap(updates) /\ pending_clear \in BOOLEAN /\ requires_frame_build \in BOOLEAN
  /\ location \in [Handles -> CacheLocation]
  /\ documents \subseteq Docs /\ frame_id \in [Docs -> Nat] /\ version \in [Handles -> Nat]
  /\ now \in Docs \cup {NoDoc} /\ nops \subseteq Docs /\ batch \subseteq Docs
  /\ current_block \in 0..block_count /\ prev_block \in 0..block_count
  /\ uses \subseteq Use /\ deferred \subseteq Address /\ clears \in Nat
  /\ IsMap(gpu_cache_texture) /\ IsMap(pending_gpu_cache_updates)
  /\ pending_gpu_cache_clear \in BOOLEAN
  /\ Active \subseteq Docs
  /\ \A d \in Active : active_documents[d] \in Frame
  /\ taken_base \in Epochs /\ spoiled \in BOOLEAN

(* Every block of the texture is on exactly one list, the free list of its *)
(* row's size or the occupied list of one document, also half-way through  *)
(* the loop that moves old blocks: a block on no list would be lost until  *)
(* the next clear, a block on two would be given out twice.                *)
BlockOnOneList ==
  /\ \A b \in 1..block_count : Cardinality({l \in Lists : b \in ListOf(l)}) = 1
  /\ \A c \in Classes : \A b \in ListOf([free |-> c]) : rows[blocks[b].at[1]] = c

GpuCacheInv == TypeOK /\ BlockOnOneList

(* What the texture will hold when every list on its way has been taken    *)
(* and drawn.                                                              *)
OnceUploaded ==
  LET after[n \in 0..Len(results)] ==
        IF n = 0 THEN Uploaded
        ELSE IF results[n].kind # "gpu" THEN after[n - 1]
        ELSE Override(IF results[n].clear THEN EmptyMap ELSE after[n - 1], results[n].updates)
  IN Override(IF pending_clear THEN EmptyMap ELSE after[Len(results)], updates)

(* A handle that request finds in the cache is not uploaded again: its     *)
(* data, in the version its owner means, must be in the texture or on its  *)
(* way there, across evictions, reuses of the block, and clears, which a   *)
(* kept handle knows of only by its epoch.                                 *)
ValidHandleIsUploaded ==
  ~spoiled =>
    \A h \in Handles : Valid(h) =>
      LET at == blocks[location[h].block].at
      IN at \in DOMAIN OnceUploaded /\ OnceUploaded[at] = <<h, version[h]>>

(* A frame of a dropped texture stays until the new frame of its document  *)
(* arrives.                                                                *)
Current(d) == active_documents[d].base = taken_base

(* Whenever the renderer draws, every block that a frame reads holds what  *)
(* the frame stored there, although later frames, of this document and of  *)
(* others, have reused and overwritten blocks: evict_old_blocks looks at   *)
(* the document's own list and spares what its last frame requested.       *)
(* Blocks of handles that several documents request are excepted, and so   *)
(* is a texture that a frame from before a clear has written into.         *)
DrawnIntact ==
  ~Spoiled =>
    \A d \in Active : Current(d) =>
      \A u \in active_documents[d].uses :
        ~u.shared => u.at \in DOMAIN Drawn /\ Drawn[u.at] = u.data

(* A clear makes the frames of all documents unusable, also of those that  *)
(* no transaction asks a new frame of: once the group of frames that       *)
(* follows it has been delivered, no document is left with such a frame.   *)
ClearedFramesReplaced ==
  results = <<>> /\ Between /\ ~requires_frame_build =>
    \A d \in Active \cap documents : active_documents[d].base = base_epoch
=============================================================================
