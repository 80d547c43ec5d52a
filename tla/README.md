# WebRender in TLA+

WebRender turns display lists into pixels. A client hands it *transactions*;
four threads take them through scene building and frame building to the
renderer. This directory models the parts of it whose difficulty is in their
order and their bookkeeping: the pipeline of threads, and the stores that are
updated on one side and read on the other. TLC checks small instances;
TLAPS proves the results that matter most for all instances.

Paths below are relative to `src/webrender/src/` unless they say otherwise.

## 1. The system

| Component | State | Operations | Talks to |
|---|---|---|---|
| Clients: `RenderApi`, `Transaction`, `NotificationRequest` (`webrender_api/src/api.rs`) | namespace, documents, requests not yet notified | `send_transaction(s)`, `add_document`, `delete_document`, `flush_scene_builder`, `notify_memory_pressure`, `shut_down`, drop | one channel (`api`) to the render backend |
| Render backend (`render_backend.rs`) | documents: view, current scene, `frame_is_valid`, `hit_tester_is_valid`, removed pipelines; resource caches | `run`, `process_api_msg`, `prepare_transactions`, `update_document`, `maybe_force_nop_documents` | scene builder (two queues), renderer, embedder (`RenderNotifier`) |
| Scene builder (`scene_builder_thread.rs`, `scene.rs`, `scene_building.rs`) | per document: the scene as submitted, interners | `process_transaction`, `forward_built_transactions`, flush, delete, clear namespace, stop | render backend: results, a `WakeUp` on `api`, the swap and resume channels; hooks of the embedder |
| Low priority scene builder (`scene_builder_thread.rs`) | none | forwards each request, after blob rasterization | scene builder |
| Renderer (`renderer.rs`) | pipeline info, active documents, pending texture updates, notifications | `update`, `render` | GPU; the embedder calls it |
| FreeList (`freelist.rs`) | slots with epochs, an intrusive list of the free ones | insert, upsert, get, free, clear | texture cache, render task cache |
| Interning (`intern.rs`) | interner: key to handle, free indices, pending updates; data store: items by index | intern, end of frame, apply updates | interner in the scene builder, store in the render backend |
| Texture updates (`internal_types.rs`, `texture_cache.rs`) | the pending list: one allocation per texture, updates | push alloc, realloc, reset, free, update; apply | texture cache, renderer |
| Texture cache (`texture_cache.rs`) | entries by handle, per document a frame stamp; shared layers, standalone textures, tile slices; pending list | request, update, evict, end of frame, clear | renderer, through update lists; everything that caches pixels |
| GPU cache (`gpu_cache.rs`) | blocks by size class in linked lists, epochs, rows; pending list | request, invalidate, push, evict, extract, clear | renderer, through update lists; every primitive |
| Resource cache (`resource_cache.rs`, `image.rs`) | image templates, rasterized blobs, cached image entries, the requests of the frame | add, update, delete, request, block until all done, update texture cache | clients' resource updates, blob rasterizer on the scene builder, texture cache |
| Render task graph (`render_task_graph.rs`, `render_task.rs`, `render_target.rs`) | tasks, passes, targets; a pool of target textures in the renderer | add tasks, assign to passes, allocate, draw | pictures and primitives make tasks; renderer draws passes |
| Picture caching (`picture.rs`, `composite.rs`) | tiles of each slice: dependencies, validity, dirty rect, surface; retained across scenes | pre-update, dependencies, post-update, split, merge, composite | resource and texture cache, native compositor, renderer |
| Scene building from display lists (`scene_building.rs`) | the stack of stacking contexts with their primitive lists, pending shadows, pictures, hit testing items | `build`: one step per display item, push and pop of contexts, iframes, shadows, backdrop filters | runs on the scene builder thread; its pictures go to the frame builder |
| Frame building, visibility and batching (`frame_builder.rs`, `prim_store/mod.rs`, `clip.rs`, `batch.rs`) | clip chain stack, surfaces, batches; rebuilt for each frame | `update_visibility`, `add_pic_to_batch`, `merge` | all of the above |
| Device, shaders, compositor, platform fonts, software GL | GPU objects | drawing | OS, OpenGL |

What is hard: five kinds of thread interleave over six channels. The render
backend drains one channel without blocking and blocks on another, so whoever
fills the first must also wake it through the second. With hooks installed the
render backend and the scene builder wait *for each other* in the middle of a
transaction. A flush, a deletion and a shutdown overtake or follow
transactions over queues of two priorities. Notification requests are dealt
out by four threads and promise to be notified exactly once. Indices given out
on one thread are used on another while updates travel between them. Four
caches, each with an eviction policy of its own, are filled for one frame and
read by later ones, and the renderer draws frames after the caches have moved
on: what a frame was built from must still be there, or be its own, when it is
drawn; frames may be replaced before they are drawn, and are drawn more than
once. A scene is rebuilt from stacking contexts that may be dissolved, cut,
hoisted, sliced and isolated in any nesting, and must still paint what the
display list says. The `hazards` of `PROJECT.json` list these by source line, each with the
property that watches it.

## 2. The modules

`SceneDocument` is the data of one document and what one transaction does to
it: `Scene`, `ApplyToScene`, `BuiltScene` (scene builder side), `Document`,
`SwapScene`, `UpdatedDocument` (render backend side). It has no variables.

`ScenePipeline` composes clients, render backend, scene builder, low priority
thread, renderer and embedder over their channels. Correspondence:

| Code | Model |
|---|---|
| `api_rx`, `scene_tx`, `low_priority_scene_tx`, `scene_rx`, `result_tx` | sequences `api`, `highScene`, `lowScene`, `sceneResults`, `output` |
| channel for `SceneSwapResult` | `swapQueue`; `swapTx` is the sender, "closed" when the receiver was dropped |
| `resume_tx`/`resume_rx` | `resume`: none, waiting, sent, dropped |
| position in `RenderBackend::run` | `rbPc`: poll, api, apply, resume, settle, notify, stopping, done, panicked |
| position in `SceneBuilderThread::run` | `sbPc`: recv, wake, wakeSwap, swap, hook, hookResume, done |
| `Renderer::update` / `render` by the embedder | `rPc`: idle, update, render; `woken` |
| `documents` of either thread | `alive`, `docs`; `sbAlive`, `sbScene` |
| transactions being applied | `work`; `outbox` holds what `update_document` has yet to send |
| `maybe_force_nop_documents` | `nops`; `required` is `requires_frame_build()` |

A thread takes one step for each point at which another thread can see it:
each send, each receive, each wait. A display list is known by its epoch, and
the client uses the number of its message as the epoch of everything in it, so
"which frame contains which display list" is a comparison of numbers. Resource
updates, frame operations and view changes are flags of a transaction that
say what they do to the validity of scene, frame and hit tester. `sent`,
`settled`, `answered` and `fired` are history that no guard reads.

`MCScenePipeline` defines the *menus*, the messages the clients of a run choose
from, in any order, up to `MaxSends`.

`FreeList` models `freelist.rs` slot by slot, with its users' handles: `strong`
ones with one owner each, and `issued`, all handles given since the last
`clear()`, of which weak copies may exist. `HandleStore` is the abstract store
its documentation describes, in which a handle finds its own entry or nothing;
`StoreSpec` is the refinement (`live` is the value of each strong handle).

In the run `handles` `FreeList` and `Interning` stand side by side, without
sharing anything: each takes steps while the other is in its initial state.

`Interning` models one interner, its data store and the update lists between
them, with the scenes that hold its handles. An item is collected after
`MaxAge` scenes (10 in the code). A scene's `after` and `upto` in each list
record what the list is expected to lead to, and are read only by the
invariant.

`TextureUpdates` has the operations of `TextureUpdateList`, with their
coalescing, and `Applied`, what the renderer makes of a list: allocations
first, then updates. It has no variables. `TextureTransfer` is the texture
cache as far as it commands textures: standalone textures, the units of the
shared cache and one picture texture whose slices come and go (`kind`,
`layers`, `slices`), the list being built (`pending_updates`), the lists on
their way (`sent`) and the textures of the renderer. A texture has contents
by layer; regions, formats and sizes are left out. The `after` of a list on its
way records what it is expected to lead to, and is read only by the invariant.
`TextureMemory` is what the cache takes all this to be: a memory that each
operation changes at once. In the refinement, `memory` is `Believed`, what the
renderer will have when it has taken every list, the pending one included.

`GpuCache` models `gpu_cache.rs` block by block: rows, free and occupied lists
threaded through the blocks, epochs and the base epoch, the eviction loop one
block per step (`current_block`, `prev_block`), the update list, and the
renderer's `active_documents` and `pending_gpu_cache_updates`. The render
backend builds frames in groups, one document after the other, as
`prepare_transactions` and `maybe_force_nop_documents` do, and sends each frame
in a message of its own. `base` of a frame, `taken_base` and `spoiled` are
history: which texture a frame was built for, which one the renderer has, and
whether a frame from before a clear has written into it.

`TextureCache` has the same shape one level up: entries with a place
(`entries[h].at`: texture and layer), a policy and a last access; the regions
of the shared texture and the slices of the picture texture, with their free
sets; eviction by frame stamps; the clear of the shared textures, also the one
that `ReclaimSharedMemory` asks for; and in the renderer the textures, the
pending list, the frames and `documents_seen`. A list says only what it frees,
writes and clears, since `TextureTransfer` has the rest.

`ImageResources` follows one image, raw or blob, from the client's updates
through the scene builder (`transactions`, with the rects they rasterize) to
the templates, the queue of rasterized parts, the requests of one frame
(`state` is `ResourceCache::state`), and the entry of each rendering. Contents
are the number of the update that last changed each pixel of a row.

`GlyphRasterizer` has the fonts, which tasks of the worker pool put into the
context of each worker, locked all at once (`for_each`, `owner`); the glyph
cache of each font instance, whose entries are known by texture cache handles
that may be evicted; the requests of a frame, the tasks that rasterize them
glyph by glyph on any worker (`rasters`), and the wait for what they send. The
texture cache is in it as what `TextureCache` promises: an entry requested in
this frame stays. In the run `texture_users` it stands beside
`TextureTransfer` as the two stores stand in `handles`.

`RenderTasks` has the frame builder of each document add tasks in every way
`picture.rs`, `prim_store` and `render_task.rs` do (surfaces, blurs with their
downscalings, drop shadows, backdrop and SVG filters, mix blends, clip masks,
tiles, cached tasks), then assigns them to passes as `render_task_graph.rs`
does, marking what must be saved or blitted, and has the renderer draw the
passes of all documents, with targets from the pool of `TextureResolver`. A
target remembers whose outputs it holds, so that a read of something else is
visible (`misread`).

`PictureTiles` has the tile cache of one slice along one axis. A frame finds
the tiles it needs (`BuildTiles`: pre-update, dependencies, opacity, dirty
rects, the split and merge of a tile's leaves, the surface of each tile), and
the renderer draws it, if it is not replaced before that. `pixels` holds what
each tile's surface shows of the scene, unit by unit; `look` in a frame is what
the scene asks for, so that a stale pixel is visible. `retained` are the tiles
between two scenes.

`SceneBuilding` reads a display list item by item, as `build_items` does, with
the stack of stacking contexts (`sc_stack`), the items that wait for their
shadows, and the pictures made so far. Popping a context dissolves it into its
parent, between a push and a pop of its clips, or wraps it in a picture for
each filter, for its blend mode and for the 3d context it is the root of; an
opacity is collapsed into a rectangle; a backdrop filter cuts the contexts up
to the backdrop root. `Finish` makes the slices of the picture cache, with the
clips their primitives share. `BuildFrame` walks the pictures as
`update_visibility` does, with the stack of open clips, and puts what is on
each surface in batches. Beside that, `asked` keeps what the open contexts
should paint, a tree that follows the display list and knows of no pictures.
`PaintsAsAsked` compares the two in a normal form (`Normal`): order of the
items, clips of each, and the groups that an effect, a blend or a rounded clip
needs. A clip is a name, a spatial node likewise, and geometry is left out;
the rect of an item is a set of pixels, and matters to batches only.

`Batching` has the rules by which an instance joins a batch, the merge of the
batches of several tasks, and what the opaque and the alpha pass of the
renderer leave on a pixel. It has no variables.

`PrimitiveClipping` follows one rectangle through its clips, in the frames of
one scene. A clip is a rectangle, a rounded one, an image or a box shadow,
inside or outside, on the spatial node of the primitive, on one that scrolls
against it, or in another coordinate system. `UpdateVisibility` reduces the
clips to a `ClipChainInstance`; `UpdateClipTask` builds the segments in the
first frame that draws the primitive, from the clips of its own node or as a
grid, and decides for each segment in each frame whether it is opaque, clipped
or has a mask; `Draw` is what the renderer leaves: the pixels of each segment
inside the local clip rect, times the mask, which is the product of the clips
in it, or stale where neither a clear nor the first clip wrote. `drawn` is
compared with `Asked`, all clips applied to each pixel.

Theorems are in the `...Proofs` modules (section 4). Operators whose
names extend another's (`SendLowViaHigh`, `FreedSlotKeepsEpoch`, ...) are
plausible mistakes in the operator they are named after; nothing uses them but
the mutants listed in `PROJECT.json`, each of which breaks the property it is
listed with.

## 3. What is checked

| Run | Instance | Shows |
|---|---|---|
| `pipeline_handshake` | one document, hooks, one flushing client, fair threads, 3 messages out of 5 | `NoPanic`, `HookExclusion`: the swap handshake; `FlushBarrier`; `BuilderInOrder`; `NotifiedOnce`; `DeletionReachesBuilder`; no deadlock; `ClientsAnswered` (flushes, requested frames, notification requests, shutdown) |
| `pipeline_frames` | batches over two documents, no hooks, cache clears and a cleared namespace, 3 messages out of 10 | `ValidFrameIsActive`, `PublishedEpochsShown`, `RemovalReported` |
| `handles` | a free list of 3 slots, 5 frees, 2 values, clears; and an interner of 3 keys, 3 indices, 4 scenes, collection after 1 scene | `NoSlotLost` and `StoreSpec`, the refinement, which implies `StaysInvalid`; `InternedFound`, `UpdatesFit`, `StoreFollows` |
| `texture_users` | 2 textures of up to 2 layers, growth by 1, lists without bound on operations, 2 on their way, no debug clears; and beside them 2 fonts with an instance and 2 glyphs each, one of them blank, 2 workers, 2 frames, at most 3 bytes | `RendererAgrees`; `MemorySpec`, the refinement; `UpdatesTakeEffect`: no update is lost in the coalescing; `GlyphsDrawn`, `GlyphFonts`, `UsageBounded`; `FramesResolve`; no deadlock |
| `gpu_cache` | 2 documents with a handle and 3 and 1 frames, one block size, 2 rows of 2, eviction after 1 frame, 1 clear, 2 messages on their way | `GpuCacheInv`, `ValidHandleIsUploaded`, `DrawnIntact`, `ClearedFramesReplaced` |
| `texture_cache` | 2 documents with 2 frames each; an image, a cached task that both use and a tile; 2 layers, 3 textures, 1 clear | `TextureCacheInv`, `RequestedStays`, `ValidIsFilled`, `FrameIntact` |
| `images` | 3 pixels, 2 renderings, 3 updates, one transaction on its way, a queue limit of 1, 1 clear, 1 failure | `DrawnIsCurrent`; `ImagesInv` with `QueueForRequests`, `QueueStaysShort` |
| `render_tasks` | 2 documents with 5 and 1 or 4 and 3 tasks and 3 surfaces each, or 6 and 1 tasks without surfaces, filters of one and of two shadows, 2 renders | `NoPanic`, `ReadsOwnChild` |
| `picture_tiles` | 7 scenes, 4 views, 3 compositors, 3 changes; 8 units, a screen of 4, tiles of 2 or 4 | `NoPanic`, `TilesAreCurrent` |
| `scene_building` | display lists of up to 5 items beside the closing ones, contexts and iframes nested 3 deep, from one of 8 menus of 5 to 7 items | `PaintsAsAsked`, `HitTestAgrees`, `BatchesKeepOrder` |
| `primitive_clipping` | chains of up to 3 of 15 clips, 2 frames, 2 scroll offsets, the whole or a part of the screen, on a grid of 8 | `DrawnAsClipped` |
| `pipeline_batch_hooks` | one batch over two documents, hooks | that `NoPanic` fails |

*Bounds.* A message travels through every queue alone, behind one other and
between two others with three messages, which is enough for every pair of
messages to race at every stage with a third in the way (each mutant is found
within these bounds). The renderer, the embedder and the low priority thread
may lag as far as they like: queues are not bounded except by what was sent.
Three slots give the free list a middle, and five frees reuse a slot often
enough for its epoch to matter. With three items and an age of one, an index
is freed, reused and freed again while lists from before are still on their
way. Operations on two textures commute in a list, so the picture texture and
one other, which is standalone or shared and grows once, meet every pair of
operations in one list and in successive ones; two lists on their way besides
the pending one let the cache be two steps ahead.

In the GPU cache three frames of one document let a block be used, evicted and
reused while the renderer still has the frame before and the other document's
only frame; two rows make it grow once. In the texture cache each kind of entry
has a place of its own kind, two layers make both textures grow once, and two
frames of each document are one that fills the cache and one that finds,
evicts or overwrites. Three pixels are the fewest of which a dirty rect can
leave out one on either side, or span an untouched one with its union. Five
tasks make graphs of up to five passes, enough for a target to be reused
twice below the reader of a saved one. In `picture_tiles` three changes are the
fewest in which a tile goes off screen, changes there, and comes back; scenes
and views are chosen in `MCPictureTiles` so that each sort of primitive and
dependency, a page that shrinks, a clip that moves, a hole and a slice that
leaves the root coordinate system occur.

In `scene_building` each menu is about one theme: clips and iframes, slices,
filters, blends, 3d contexts, shadows, backdrop filters, batches. Five items
are enough for a context between two items, in another context, in an iframe;
for three slices where two are too many; for a plane between two flat items of
its parent; and for two surfaces whose batches are merged. (With six items
the run passes too, in two minutes.) Every mechanism has been broken by hand,
and the run notices: redundancy tests, cuts, isolation, the collapse of
opacities, the closing and opening of clip chains, the sharing of clips, the
overlap tests. A lookback of two batches is the fewest that looks past one.

In `primitive_clipping` the catalog has each kind and mode of clip on each node,
so placed on a square of 8 by 8 that it is accepted, rejected and partial for
some segment, offset or view; three clips are enough for one that is shared by
the tile cache, one that the local clip rect takes over, and one in the mask.
Grids of 4, tiles of 2 and an area of 16 stand for 128, 128 and 65536 pixels,
so that a primitive has several cells and a mask several tiles. Two frames are
one that builds the segments and one that has to live with them.

In `texture_users` two workers can rasterize, lock and apply in each other's
way, and two fonts with glyphs of 2, 1, 2 and 0 bytes exceed the limit of 3 so
that pruning clears a cache in one state and takes a part of one in another;
the second frame finds what the first has cached, pruned or lost.

The pipeline's two-document cases with hooks are left to the theorems
`Exclusion` and `OneDocumentNoPanic` and to `pipeline_batch_hooks`.

*Fairness.* `FairSpec` has weak fairness for each thread (`Backend`,
`LowForward`, `SceneBuilder`, `Renderer`): each is an OS thread that runs when
it is not blocked, and the embedder's event loop calls `update` and `render`
when `new_frame_ready` has woken it. Clients are not fair; they need not send
anything. No action needs strong fairness. `GlyphFairness` is the same for the
render backend within a frame (`FrameStep`), which waits for nothing but the
pool, and for the pool (`PoolStep`), some worker of which takes the next step
that one can take; nothing new need ever be asked.

*Deadlock* is checked in the pipeline: a state without a step is an error
unless all threads are parked with empty queues (`AtRest`), in
`handles`, where a lookup or a new scene is always possible, and in
`texture_users`, where the cache can always go on and a scene may always arrive
between two frames. In the other runs the bounds on frames, updates or changes
let the system stop.

### Where the code and its documentation part

One run checks that a statement of the code is violated:

* `pipeline_batch_hooks` / `NoPanic`. A batch over several documents reports
  several swaps to a scene builder that listens for one. The second report may
  find the channel closed, and `unwrap()` at `render_backend.rs:900` panics.
  `OneDocumentNoPanic` proves that one document per message is enough to
  exclude it.

The following were found in the same way, with TLC where constants are given.
The properties that are checked leave these cases out, and say so.

* A transaction that skips the scene builder overtakes one of the same
  priority, which `webrender_api/src/api.rs:459` rules out. `BuilderInOrder` is
  what holds.
* `Renderer::current_epoch` can report the epoch of a display list that the
  frame being drawn does not contain (`renderer.rs:2430`), as epochs travel
  before the frame. `PublishedEpochsShown` is what holds, for clients that use
  one priority and one way per document and whose roots come with their lists,
  and is proved for them.
* After `FreeList::clear` (`freelist.rs:172`) a weak handle from before may
  become valid for another entry, since epochs start again.
* With `TEXTURE_CACHE_DBG` and `TEXTURE_CACHE_DBG_CLEAR_EVICTED`, memory
  pressure pushes a debug clear for every slice it frees and then resets the
  texture to fewer slices (`texture_cache.rs:704`). `push_reset` keeps the
  clears, and the renderer, which resets first, looks for a layer that is not
  there (`DebugClears = TRUE`). Without the flags `RendererAgrees` is proved.
* Each entry of an image has a dirty rect of its own, so that each rendering of
  it is updated (`resource_cache.rs:934`). For a blob image the first upload
  drains the queue, and the other entry keeps old pixels: TLC refutes
  `ImageResources.CopiesUpdated` with `Width = 1`, `QueueLimit = 2`,
  `MaxUpdates = 1` and no clears, failures or transactions in flight.
* "Cleared texture cache without sending new document frame"
  (`renderer.rs:2963`): the frames of a group arrive in one message per
  document, and the first carries the list that clears. A render between two of
  them trips the assertion: TLC refutes `TextureCache.ClearedFramesReplaced`
  with one image and one tile, two documents, `MaxIds = 3`, `MaxInFlight = 1`.
* `DebugCommand::ClearCaches` (`render_backend.rs:1185`) gives the slices of the
  picture texture out anew. A frame from before that has not been drawn may then
  draw its tile into the slice of another document's tile, whose frame takes it
  as done: `documents_seen` has the document of the old frame, so that nothing
  is asserted (`renderer.rs:2494`). TLC refutes `TextureCache.ValidIsFilled`
  with one tile for each of two documents, `MaxLayers = 2`, `MaxInFlight = 2`
  and `DebugClears = TRUE`; with `FALSE` it holds.
* Two documents that both save targets in one render trip
  "Expected saved target index" (`renderer.rs:1108`), as each numbers its own
  from 0. `RenderTasks.NoPanic` is about at most one document that saves.
* The renderer applies `native_surface_updates` whenever it draws a frame,
  the second time too, and `bug: creating existing surface`
  (`renderer.rs:4888`) fires: TLC refutes `PictureTiles.NoPanic` with
  `Repeats = TRUE`. `SurfacesSound` proves that nothing else does.
* Tiles compare the fractional offset of the scroll root and not its scale
  (`picture.rs:1484`): after a pinch zoom a tile may keep pixels of the old
  scale. TLC refutes `TilesAreCurrent` when `Views` has a view of scale 2;
  `TilesShown` proves it for views of one scale.
* `end_frame` forgets which images are dirty (`resource_cache.rs:1855`) also in
  a frame in which the slice had no tiles, since its spatial node was not in
  the root coordinate system (`picture.rs:3665`), and a tile that was kept
  shows the old image; `TilesAreCurrent` excepts it by `skipped`.
* `composite.rs:256` says that a compositor without partial updates is given
  the whole surface as dirty rect; a tile with a primitive that cannot be
  cached gives it a part (`picture.rs:646`).
* A context that blends with the root itself, as an item of the root's list, is
  put in a slice and blends only with what is in the same slice
  (`scene_building.rs:487`). `PaintsAsAsked` excepts it when there are several.
* Subpixel text with a background colour is drawn in several passes, so that
  `batch.rs:193` keeps overlapping instances in different batches;
  `AlphaBatchContainer::merge` (`batch.rs:424`) looks at keys only and puts
  them together again. `BatchesKeepOrder` excepts such overlaps on surfaces
  that are merged.
* A clip that all primitives of a slice share is left out below the slice
  (`prim_store/mod.rs:1966`), also inside a blurred surface, whose content is
  then clipped after the blur and no longer before it. `Normal` takes a clip
  above an effect to be enough.
* "Only segment with clips that have the same positioning node", instead of
  segmenting again while scrolling (`prim_store/mod.rs:3543`), is not enough.
  The segments are built from the clips that matter where the primitive is in
  the first frame; a clip of its own node that a scrolled clip kept away from
  is not in them, and when it does matter its segments have
  `may_need_clip_mask` unset and are drawn without a mask, unless a clip of
  another node is there too. TLC refutes
  `PrimitiveClipping.KeptSegmentsClip`; `DrawnAsClipped` excepts it by
  `SegmentsFit`.
* The primary clip of a mask is drawn without blending, "knowing that it will
  overwrite every pixel in the mask area" (`renderer.rs:4473`). An image mask
  discards what is outside of its rect (`cs_clip_image.glsl:65`), which is not
  all of the mask when the image is in another coordinate system: such pixels
  are what was in the target before, or, below another clip, not clipped. The
  catalog of `MCPrimitiveClipping` has no such clip.
* "Events must be ordered such that ... the end events are processed before the
  begin events" (`segment.rs:98`) describes `Ord` of an event; `sort()` calls
  `lt`, which is derived and goes by item first (`segment.rs:126`). Nothing
  depends on it but items of no width, which this order makes inactive, while
  the one of the comment would leave them active for the rest of the row.
* `prune_excess_usage` takes the bytes that a cache used off the total after
  `clear_glyphs` has set them to 0 (`glyph_cache.rs:249`), so that clearing a
  cache never brings the total down, and it goes on to clear or prune others
  that need not go. Glyphs are lost early, not wrongly: `UsageBounded` holds,
  and is proved.
* A frame whose only native operations are destructions need not be drawn; if
  it is replaced, they are lost, and the surfaces live until the renderer's
  `deinit`. `SurfacesSound` allows it: no surface is destroyed twice.

## 4. What is proved

All theorems hold for every value of the constants allowed by the assumptions
next to their declarations.

**ScenePipelineProofs** (assuming `NoPipelineAssumption`,
`PipelineAssumption`, `MenuAssumption`).
`TypeCorrect` is `TypeOK /\ HandshakeInv`, together inductive. The swap
handshake is a baton: a result that carries the swap channel, an open sender
and a message in the swap channel each imply that the scene builder is waiting
and that none of the others exists (`SwapInOnePlace`); a `Complete` that was
not answered keeps the render backend in `resume_rx.recv()`
(`ResumeOutstanding`); and whenever it is there it has a transaction to go on
with (`Working`). `HookExclusion` alone is not inductive, because whether the
render backend waits depends on a message sent two steps before; it follows
from `ResumeOutstanding` (`Exclusion`). Shutdown is included: draining a
result drops its sender. `OneDocumentNoPanic` adds `OneDocumentInv`: with one
transaction in each message, the receiver of the swap channel is dropped only
after the render backend has sent its one report (`ReportedOnce`).

The second part of the module is about order. A message goes from `api` through
the queues of the scene builder threads to their results, and at each point the
render backend or a builder takes it from the front of one queue and puts it at
the back of the next: the queues are one line. Each message in it is known by
its *marks*, the transactions it carries or the flush, addition, deletion or
clearing it asks for, and `NeverBehind(y, x)` says that no `y` is behind an `x`
anywhere in the line. Every step of every thread but one keeps that for all
marks (`OrderKept`): only a transaction of high priority leaves its place, past
what is in the low priority queue (`OrderKeptHigh`). `LineInv` says, of this
line: a batch is carried whole, and once (`BatchesWhole`, `NumbersOK`); what is
being applied is out of it, and until a shutdown each transaction sent is in it,
being applied, or settled (`WorkOK`, `NothingLost`); no transaction sent before
a flush is behind that flush, as both take the low priority queue or an earlier
place (`FlushesInLine`); of two transactions of one priority the later is never
ahead, nor settled first (`TxnsInLine`); and a document's addition is before its
transactions, these are before its deletion, and while the scene builder has or
will have a document that the render backend has not, the deletion is on its way
(`DocumentsInLine`). None of the three properties is inductive, since each
speaks of an end of the line: `Barrier` (nothing is behind the flush that is
answered, nothing is lost, so all is settled), `SentOrder` and
`DeletionArrives` follow from it.

`NotifiedExactlyOnce` follows a notification request through the line, what is
being applied, and the renderer. A request that has not been notified is in one
of five places, and `Apart` that it is in one of them only is the crux: a
transaction is in the line once, or is being applied, or is settled
(`MarksOnce`); a batch has one transaction for a document, and what comes out of
the scene builder is what went in, less the requests it has notified
(`BuiltOK`); the renderer is handed requests of settled transactions only, each
once (`HandedOK`); and no number is notified before it was sent (`FiredOK`).
Then each step of each thread leaves a request where it is, moves it on, or
notifies it, takes it out of its only place and leaves the others without it
(`RequestMoves`). A shutdown that drops `api` and the results counts as
notifying, as dropping a `NotificationRequest` does.

`FrameOnScreen` is about what the renderer *will* show once it has taken what is
on its way: the last message about a document's frame in `outbox`, or else the
one in `output`, or else what it shows now (`WillShow`). `FrameInv` says that
this is the current scene for each document with a valid frame, unless a rebuild
is `Owed`: `required` is set and the document's turn, in this round of
transactions and nop documents, is still to come. It needs that a valid frame
has something to render, that a document which is not alive has not
(`FrameOwner`), and that every built scene has its root pipeline
(`ScenesRender`), without which a rebuild could be due and never happen.

`RemovalArrives` says where a removed pipeline is at each moment: in the
document, `outbox`, `output` or the renderer, from the moment its transaction is
applied (`RemovalsKept`), which is earlier than when it settles. A
transaction may settle while its document is not alive, and would be unreported
if the document came alive later; `BegunAdded` excludes that, as a document
that has been worked for was added and its addition is not in the line any more.

**EpochProofs** goes on from there, for clients with two rules: the transactions of
a document that change its scene go one way, all at high priority or all at low
(`OneWayMenu`; otherwise a list sent at low priority may come after an epoch
that was sent later), and a root pipeline is set with its display list and
removed only with all the others (`RootsKeptMenu`; otherwise no frame is built
for the lists that come after). The menu of `pipeline_frames` follows both, which
TLC checks (`FramesMenuIsOneWay`). `EpochsArrive` is then
`PublishedEpochsShown`. The display lists of a document are followed from end to
end. The scene builder has every list that is past it, and no epoch beyond, or
the pipeline's removal is past it too (`BuilderInv`). A built scene has every
list up to its own transaction, and if lists were sent and none was built, all
pipelines were removed or it would have been the first (`ScenesOK`). The document
has every list that was applied, and whatever epoch it or the renderer has been
told of, all that was sent up to it has been applied (`DocsOK`): here the one way
counts, since a transaction that settles must leave none behind that was sent
earlier. At the other end, whatever frame the renderer has or will have
(`WillShow`) contains every list up to every epoch that it has or will be told of
for the pipeline, unless the pipeline's removal is on its way (`EpochsShow`).
The crux is an update that publishes epochs and builds no frame: as the document
has pixels (`PixelsKnown`) and can be rendered (`ShownKnown`), its frame was
valid and no rebuild was due, so that by `FrameInv` the renderer has that frame
or will have it, and its scene is the document's (`ShownAtUpdate`).
The conjunction is `EpochInv`; its parts
need each other, and none is inductive alone.

**HandlesProofs**, of `FreeList` (assuming `FreeListAssumption`: fewer frees than
the epoch has values) and of `Interning` (assuming the module's assumption on its
bounds). `FreeListInv` is inductive with `TypeOK`: every strong handle owns
an occupied slot alone and the other way round (`OneOwner`), free slots form a
list without sharing (`FreeListShape`), epochs given out are positive, at most
the slot's, and equal to it only while the slot is occupied (`EpochsFresh`).
`Stale` (a weak handle that fails once fails until the next clear, after which
it is not looked up) and `Implements` (the refinement of `HandleStore`) follow
step by step.

`NothingLost` is that no slot is lost. `FreeListShape` does not say so: slots
that point to each other in a circle, apart from the list, share nothing either.
`Linked` says that there is a sequence (`Chain`) of the free slots in which each
points to the next, the first is `free_list_head` and the last points to `NONE`;
insertion takes the first off and freeing puts one in front, and a slot that is
filled again is at no place of it twice. `NoSlotLost` walks the list as the code
would, by a recursive function over the number of steps. That such a function
does what its definition says, and that the walk is at the place of the chain
that its number tells, are inductions; they are made as arguments from the
smallest counterexample, with the well-ordering of the naturals (`Smallest`).

For `Interning`, `InternerInv` says that the interner's books balance, that the lists in flight
lead, one after the other, from the contents of the store to what the interner
expects (`ListsLead`), and that each scene in flight finds its items in the
contents after its own list (`ScenesFound`). `Found`, `Fit` and `NoLeak` are
the three properties a reader of `intern.rs` wants: no missing or foreign item,
every list applicable, nothing left behind.

**TextureTransferProofs** (assuming `TextureAssumption` and
`TransferAssumption`, and in each theorem `~DebugClears`, for the reason above).
That the renderer agrees with a list says nothing of the next one. `TransferInv`
adds that each list on its way agrees with what the list before it leads to,
that the pending list does so with what the last one leads to (`ListsLead`),
that this gives each texture the layers the cache believes in, and that a
texture that is gone or not yet minted has nothing left in the list but its
release (`PendingFits`). `RendererNeverDisagrees` and
`NothingFreedInUseHolds` follow; `TransferImplementsMemory` is the refinement
of `TextureMemory` and `UpdatesTakeEffectHolds` adds to it that no update is
lost, which a refinement up to stuttering would allow.

**PictureTilesProofs** (assuming `PictureTilesAssumption`, and `~Repeats`, for
the reason above). `SurfacesSound` is that no assertion about native surfaces
or retained tiles fails. The frame builder believes in surfaces that exist only
once its frame has been drawn, so the invariant (`TilesInv`) speaks of
`Future`, the surfaces after the frame in the renderer: every tile, of the
current scene or retained, that believes in a surface has one there and no two
share an identifier (`CachesOK`); what a frame creates does not exist yet, what
it destroys does, and a frame that creates or recreates a surface has something
to draw, so that it is drawn before it is replaced (`FrameOK`).

`TilesShown` is `TilesAreCurrent`, with three more hypotheses: the views have
one scale (`OneScale`; section 3 has the reason), which divides the tile sizes,
and a primitive that is a video in one scene is not something else in another
(`VideosKnown`: no dependency tells these apart). A tile remembers descriptors
of primitives, not what it shows, so the invariant (`PixelsInv`) is about what
there will be of its surface after the frame in the renderer (`WillBe`): at each
pixel that is not marked dirty, what is there has a look for each primitive
seen there and no other, and each `Agrees` with the descriptor, with the
fractional offset, transform and opacity of the last frame and, unless an
upload is due, with the version of the image. An update keeps that where it
marks nothing dirty (`UpdateKeeps`): every unit is in a leaf that lists what is
seen there (`LeavesOK`, kept by splits and merges), so that a leaf found the same has the same
primitives. What agrees with the new record and is no video looks as the scene
asks (`ShownAgrees`). A tile with no surface yet must be dirty everywhere or have
no primitives (`TileRecordOK`, `NewlyDirty`). Before a frame is replaced it is
drawn, or has nothing to draw (`PublishedPixels`), so nothing that the cache
relies on is lost. A tile of one colour has its one primitive everywhere in it,
as the backdrop is what clips one of them (`BackdropIs`, `ColorTile`). The first part of the
module has what this needs of intervals, of the order of a finite set and of the
chain of backdrops, which is an argument by a least counterexample.

**TextureCacheProofs** (assuming `TextureCacheAssumption`). `PlacesHold` is
`PlacesHeldOnce`, inductive with what ties the place of an entry to its kind
(`PlacedAsKind`): shared entries are in layers of the one shared texture, tiles,
and only tiles, in slices of the picture texture, and a standalone entry has an
id that was given out and is not that of the shared texture. All that moves an
entry (`UpdateShared`, `UpdateStandalone`, `UpdatePicture`) is one step, of an
entry that leaves its old place, and others that expired, for a place that fits
its kind and is nobody's (`Put`). An image that was deleted may keep a
place, but only an image can be (`dropped`): a tile that is drawn anew has
no old slice to give back, and `update_picture_cache` gives none back.
`RequestsHold` needs that what is requested or wanted, and in the cache, has the
stamp of the frame, so that no threshold lets it expire.

`EntriesFilled` and `FramesReadIntact` state `ValidIsFilled` and `FrameIntact`,
assuming `ClearsSafely`: no debugger clears the caches, or one document has all
the tiles. (Tiles of two documents and a debug clear do break both, see
section 3.) Their invariant (`DInv`) cannot speak of one future of the
renderer: it draws when it likes, and has to draw a frame that fills entries
before it takes the next one of that document. So `Delivery` is about every path
on which it takes the messages under way and draws, or not, before and after
each (`IsPath`). At the end of a path, what each valid entry should hold is in
the textures, the pending updates or the draws of this frame (`Fills`); a frame
that has not drawn draws only into entries of its own document, or where no
entry is and none will be, because the texture is gone or only that document is
given slices (`DrawsStand`); and what a frame reads and no other document
requests is in the cache as the frame saw it (`ReadsStand`). All along a path
the frames of the last clear find what they read (`Intact`). A step of the
backend keeps the ends of all paths (`EndsKept`), or adds a message after which
they are right (`SendsWell`); a step of the renderer leaves a path that was
one before (`PathAfterDrawing`, `PathAfterTaking`).

**GpuCacheProofs** (assuming `GpuCacheAssumption`). The lists of blocks are
chains: a chain lists the blocks of an owner, each once, in the order in which
`next` leads through them (`ChainsOK`). Taking a block from the front, putting
one there, and taking one from the middle, as `evict_old_blocks` does with the
two indices it remembers, keep chains; that the walk by `next` meets exactly the
blocks of the chain (`ChainLinked`), and so no block is on two lists or on none,
is `GpuCacheInvariant`.

The other three theorems are about what the renderer has not taken yet. The
messages, and the list that the next frame will be sent after, are one line
(`Line`), and the renderer after the first `q` of them has a texture: address
`a` `Holds` datum `x` there if the last list before `q` that writes to `a`
writes `x`, with no clear after it. `Shown` says which frames it has then, of
those that are of the texture it has. `DataInv` asks three things, for each `q`
and not only for now: that frames find their data (`FramesHold`), so that a
frame is intact whenever the renderer happens to draw; that what is being built
and what valid handles refer to will be found at the end (`UsesHold`,
`HandlesHold`); and that an upload to a block that an older frame has as a
deferred block comes after that frame (`DeferredApart`, `DeferredBefore`),
because the renderer writes deferred blocks each time it draws. Taking a message
shifts the line, copying a block changes its last list, sending a frame extends
it, a clear replaces its end, drawing changes what the lists start from: for
each of these there is a lemma about any line (`TakenData`, `CopyData`,
`SentData`, `ClearedData`, `DrawnData`), without the blocks.

`KeptInv` ties the blocks to the line. A block that a frame at the end of the
line uses belongs to its document and was requested for the last frame that was
sent, or later (`FramesKept`), so that neither `push_data`, which takes free
blocks, nor `evict_old_blocks`, which spares what was requested at most
`FRAMES_BEFORE_EVICTION` frames ago and that is at least one, gives it away; an
address is of one block only, as rows are never taken back but by a clear.
Bases never sink along the line and rise with each clear (`BasesOK`), so that a
frame of a dropped texture is told from one of the present texture even while
clears are on their way; and a document with such a frame is `Owed` a new one.
The exceptions of the properties are hypotheses of these parts: a block of a
handle that two documents request is on the list of one of them only, and the
other's frames do not keep it.

**ResourceCacheProofs**, of `GlyphRasterizer` (assuming `GlyphAssumption`) and of
`ImageResources` (assuming `ImageAssumption`). In the first the render backend
takes the locks of all font contexts and goes on, so that a task may still be
copying a font when the next one is spawned: `FontsLead` says that each context,
with the tasks that have not reached it yet, leads to the fonts of the
templates, `Locks` and `TasksKnow` that at most one task takes locks and one
applies its font, and that the last one spawned knows what is to come.
`JobsInv` is that no message is ever waited for that nobody will send, and that
a glyph on its way is right, as its font is at hand in every context that is
not locked; `EntriesInv` that each pending entry of a glyph cache is on its way.
`Drawn` (no glyph is drawn that was not rasterized with its font) and
`FontsAgree` (no worker misses a font that a glyph asks for, and the contexts
agree once no task is left) follow.

`Usage` (a frame begins with the glyphs below the maximum) rests on `UsageInv`. A
cache knows its size, or it knows that it does not: it has an eviction notice, or
it is dirty, which it stays for as long as jobs for it are `Expected`, since
each of them makes it larger. While caches are pruned all of them know their
sizes, the total that `begin_frame` keeps is never below their sum, and as long
as it is not below the maximum the caches that have been looked at hold nothing
(`PruningInv`): the total errs to the high side when a cache is cleared, and
either comes down by what is pruned or runs out of caches. The sums are folds of
the community modules, recursive functions that take a set apart by a choice of
an element; that they exist (`SumExists`) and may be taken apart in any order
(`SumTake`, `SumSplit`) is shown for finite sets with smallest counterexamples,
as an induction over a set of sets needs no operator as a parameter.

In the second `DrawnCurrent` is an argument about single pixels. A pixel of an entry that is not dirty was uploaded
with the content it has in the template (`EntryIsCurrent`). A pixel of a blob
image that the queue covers has that content in the last item over it, whatever
the order in which the items are uploaded (`QueueIsCurrent`), and one that it
does not cover has it in the texture (`WholeIfUnallocated`: a part of an image
is rasterized only if an entry with automatic rendering has the rest). The transactions on
their way lead, one after the other, from the template to what the client has
made of the image, and what one rasterizes covers what it changes
(`TransactionsLead`). During the building of a frame, what is requested and
missing is dirty or asked for (`RequestsOK`, `FrameIsCurrent`). The exceptions
of `DrawnIsCurrent` are the hypotheses of these parts: an entry is `torn`, for
one, when its texture went while a part of the image was being rasterized, and
the rest is then nowhere. `ImagesHold` follows from the same invariant: there is
a rasterized blob for whoever waits for one, and the bound of the queue counts
the partial rasterizations on their way, which were asked for while it was
short.

Proved and not run, as the runs check what follows from them: `TypeOK` of
`ScenePipeline`, `FreeList`, `Interning` and `TextureTransfer`;
`HandshakeInv`, `OneDocumentInv`, `LineInv`, `NotifyInv`, `FrameInv`,
`BegunAdded`, `RemovalsKept`, `EpochInv`, `FreeListInv`,
`InternerInv`, `TransferInv`, `NothingFreedInUse`, `TilesInv`, `PixelsInv`; `Linked` and
`Counted` of `FreeList`; `IInv` of `GlyphRasterizer`, `GpuCache` and
`TextureCache`, `ImageInv` of `ImageResources`; `UsageInv` of the first and `DInv`
of `TextureCache`.

Only model-checked, because it is out of the prover's reach: the liveness
properties, which need fairness and `ENABLED`, and `RenderTasks` and
`SceneBuilding`, whose graphs and trees are walked by `RECURSIVE` operators. Not
proved yet: `DrawnAsClipped`, whose chains and segments are given by recursive
functions over a small grid.

## 5. Abstractions

* Channels are reliable and first-in first-out; a send to a receiver that is
  gone fails, and matters only where the code unwraps it.
* Clients use document ids between adding and deleting them, and send nothing
  after `shut_down`; one that blocks in a flush may race with both.
* A release build: the `debug_assert!(false)` for a flush that meets a shutdown
  (`render_backend.rs:981`) is not a panic.
* `Renderer::flush_pipeline_info` is not called: `removed` accumulates.
* In `ScenePipeline`, whether a cache wants to be cleared
  (`requires_frame_build`) and whether a replaced frame must be drawn first are
  free choices of the environment; `GpuCache`, `TextureCache` and
  `PictureTiles` have what decides them.
* In `TextureTransfer` the picture texture is drawn to, not updated. One
  picture texture stands for one per tile size, one shared texture for one per
  format and filter; a layer of the shared texture is one region.
* Eviction by age has two limits, in frames and in seconds; time is left out,
  so that what may be evicted between the two is a free choice.
* In `GpuCache` and `TextureCache` documents share the handles of `Users`, but a
  picture tile is of one document (`frame_builder.rs:109`). A debugger clears
  the texture cache if `DebugClears` says so. Documents of `ImageResources` stay.
* The image of `ImageResources` is not tiled and keeps its size; external
  images are left out.
* In `GlyphRasterizer` a client adds a font once, under a new key, and deletes
  it when the scene that arrives has no text in it; a glyph has no pixels or is
  rasterized, if the font is there; one document. Rasterizing a glyph is one
  step, as its context is locked meanwhile and nothing else reads it.
* The targets of `RenderTasks` have one size per kind and no places within
  them; a pooled target is reused at once, and the ones unused for 30 frames
  are not freed. Conversions of colour between blur and shadow are left out.
* `PictureTiles` has one axis, one slice and one level of leaves; the dirty
  history of 64 frames, the subpixel mode, cached images that are evicted and
  the limit of sub-dependencies are left out, and so is partial present
  (`renderer.rs:3993`), which redraws a part of the window. A device of one
  pixel per unit at scale 1.
* `SceneBuilding` has no geometry: nothing is culled, a spatial node is a name
  and its own scroll root, and borders and gradients are left out
  (segments and clip masks are in `PrimitiveClipping`). Advanced blend modes are left out as well. All surfaces but the
  tile caches are drawn on one target, though only those of one pass share one.
  The inputs follow what Gecko sends: shadows come before what casts them, and
  nothing else is between them and their `PopAllShadows`; a backdrop filter is
  the first item in the contexts inside its root; contexts with a clip are not
  also preserve-3d. Where these are not met the code differs from the tree that
  the list describes: a gradient among shadowed items is painted before them,
  items before a backdrop filter lose the filters of inner contexts, and a clip
  of a nested preserve-3d context is not applied to what is hoisted out of it
  (hit testing does apply it), and a blend mode directly in a preserve-3d
  context is dropped, as the list it would blend with has just been cut.
* `PrimitiveClipping` has whole coordinates and device pixels of the same size;
  a transform is an offset or an exchange of the axes, so that rectangles stay
  rectangles and nothing is antialiased. A rounded corner is cut off along the
  diagonal, and an image or a blur is a fixed pattern. The primitive is a plain
  rectangle: tiled images, pictures that are clipped themselves, line shadows
  and primitives with segments of their own (borders, gradients) are left out.
* Not modelled, each with its reason in `PROJECT.json`: the GPU side,
  serialization, profiling and tools.

## 6. Plan

Order, most important first. Done: 1 to 11 and 13.

1. `SceneDocument`, `ScenePipeline`: the threads, the handshake, the flush.
2. Proofs of its type invariant and handshake.
3. `FreeList` and `HandleStore`, with the refinement and its proof.
4. `Interning`, with its proof.
5. `TextureUpdates`, `TextureTransfer`, `TextureMemory`, with the refinement and
   its proof.
6. `TextureCache` and 7. `GpuCache`: entries, stamps, eviction and clears, with
   two documents and the renderer.
8. `RenderTasks` and `ImageResources`.
9. `PictureTiles`, with the proofs about its surfaces and pixels.
10. `SceneBuilding` and `Batching`: the tree of pictures that the stacking
    contexts, shadows and clips of a display list lead to, against the order and
    the clips that the display list asks for, and the order of draw calls.
11. `PrimitiveClipping`: clip chains, segments and masks on a small grid.
12. Proofs: left is `DrawnAsClipped`.
13. `GlyphRasterizer`: fonts, glyphs and the worker pool.
14. Plane splitting.
