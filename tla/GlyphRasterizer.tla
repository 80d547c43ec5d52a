--------------------------- MODULE GlyphRasterizer ---------------------------
(***************************************************************************)
(* glyph_rasterizer/mod.rs and glyph_cache.rs: the glyphs of a frame.  The *)
(* render backend asks the glyph cache for the glyphs of each text run; a  *)
(* worker pool rasterizes those that are missing, each worker with a font  *)
(* context of its own; before the frame is drawn, the render backend waits *)
(* for all of them and puts them into the texture cache.  Fonts are added  *)
(* to and deleted from all contexts by tasks of the same pool.             *)
(*                                                                         *)
(* The texture cache is here as far as TextureCache promises it: an entry  *)
(* that the frame has requested stays, any other one may go.  One document.*)
(***************************************************************************)
EXTENDS Integers, Sequences, FiniteSetsExt

CONSTANTS
  Fonts, Instances,
  FontOf,         \* [Instances -> Fonts]: FontInstance::font_key
  GlyphKeys,
  Size,           \* [Instances -> [GlyphKeys -> Nat]]: bytes; 0 for a glyph without pixels
  NumWorkers,
  MaxBytesUsed,   \* the usage from which begin_frame prunes
  MaxFrames       \* BOUND on the frames

ASSUME GlyphAssumption ==
  /\ IsFiniteSet(Instances) /\ IsFiniteSet(GlyphKeys)
  /\ FontOf \in [Instances -> Fonts]
  /\ Size \in [Instances -> [GlyphKeys -> Nat]]
  /\ {NumWorkers, MaxBytesUsed} \subseteq Nat \ {0} /\ MaxFrames \in Nat

Workers == 1..NumWorkers

(* FontContexts: the shared context is context 0.                          *)
Shared == 0
FontContexts == Shared..NumWorkers
Unlocked == 0

Dirty == -1

(* GlyphCacheEntry.  live: whether the handle finds its texture cache      *)
(* entry; shows: the glyph that was rasterized into that.                  *)
Absent == [is |-> "Absent", live |-> FALSE, shows |-> <<>>]
Blank == [Absent EXCEPT !.is = "Blank"]
Pending == [Absent EXCEPT !.is = "Pending"]
Cached(glyph) == [is |-> "Cached", live |-> TRUE, shows |-> glyph]

(* GlyphKeyCache.  orphans: whether the texture cache has entries with     *)
(* this cache's eviction notice that no glyph names any more.              *)
NewGlyphKeyCache ==
  [glyphs |-> [k \in GlyphKeys |-> Absent], eviction_notice |-> FALSE, orphans |-> FALSE,
   last_frame_used |-> 0, bytes_used |-> 0]
NoCache == [NewGlyphKeyCache EXCEPT !.last_frame_used = -1]

(* A task that changes all contexts; next is the context it is at.         *)
NoTask == [does |-> "nothing", add |-> {}, remove |-> {}, next |-> 0]
ForEach(add, remove) == [does |-> "lock", add |-> add, remove |-> remove, next |-> 0]

(* A task that rasterizes glyphs, and sends those that are not Absent as   *)
(* GlyphRasterJobs.                                                        *)
Raster(i, ks) ==
  [does |-> "raster", font |-> i, todo |-> ks, jobs |-> [k \in GlyphKeys |-> Absent]]

VARIABLES
  fonts,             \* [Fonts -> "new", "added" or "deleted"]: font_templates
  scene,             \* the instances that the scene draws text in
  stage,             \* ResourceCache::state, with the steps of begin_frame and of resolve_glyphs
  current_frame,
  glyph_key_caches, glyph_bytes_used,
  to_prune,          \* the caches that prune_excess_usage has yet to look at
  asked,             \* the glyphs that the frame has requested
  fonts_to_remove, instances_to_remove,
  pending_glyphs, glyph_rx,
  spawned,           \* the tasks that no worker has taken
  rasters,           \* the raster tasks that workers are at
  for_each,          \* [Workers -> the other task it is at]
  contexts, owner,   \* the fonts of each context; the worker that has locked it
  locked, waiting    \* FontContexts::locked_mutex; whether the render backend waits for it

backendVars == <<fonts, scene, stage, current_frame, glyph_key_caches, glyph_bytes_used, to_prune,
                 asked, fonts_to_remove, instances_to_remove, pending_glyphs>>
poolVars == <<rasters, for_each, contexts, owner>>
waitVars == <<locked, waiting>>
glyphVars == <<backendVars, glyph_rx, spawned, poolVars, waitVars>>

GlyphInit ==
  /\ fonts = [f \in Fonts |-> "new"] /\ scene = {}
  /\ stage = "Idle" /\ current_frame = 0
  /\ glyph_key_caches = [i \in Instances |-> NoCache] /\ glyph_bytes_used = 0
  /\ to_prune = {} /\ asked = {}
  /\ fonts_to_remove = {} /\ instances_to_remove = FALSE
  /\ pending_glyphs = 0 /\ glyph_rx = <<>>
  /\ spawned = <<>> /\ rasters = {}
  /\ for_each = [w \in Workers |-> NoTask]
  /\ contexts = [c \in FontContexts |-> {}] /\ owner = [c \in FontContexts |-> Unlocked]
  /\ locked = FALSE /\ waiting = FALSE

-----------------------------------------------------------------------------
(* The glyph cache.                                                        *)

Has(i) == glyph_key_caches[i] # NoCache

(* GlyphCacheEntry::get_allocated_size: None for Blank, and for a glyph    *)
(* that the texture cache has evicted.                                     *)
Sized(i, c) == {k \in GlyphKeys : c.glyphs[k].is = "Pending" \/ c.glyphs[k].live}
AllocatedSize(i, c) == [k \in GlyphKeys |-> IF c.glyphs[k].live THEN Size[i][k] ELSE 0]
Bytes(i, c, ks) == SumFunctionOnSet(AllocatedSize(i, c), ks)
Drop(c, ks) == [k \in GlyphKeys |-> IF k \in ks THEN Absent ELSE c.glyphs[k]]

(* GlyphKeyCache::clear_evicted                                            *)
ClearEvicted(i, c) ==
  IF c.eviction_notice \/ c.bytes_used = Dirty
  THEN [c EXCEPT !.glyphs = Drop(c, GlyphKeys \ Sized(i, c)), !.eviction_notice = FALSE,
                 !.bytes_used = Bytes(i, c, Sized(i, c))]
  ELSE c

(* GlyphKeyCache::clear_glyphs                                             *)
ClearGlyphs(c) ==
  [c EXCEPT !.glyphs = [k \in GlyphKeys |-> Absent], !.bytes_used = 0,
            !.orphans = @ \/ \E k \in GlyphKeys : c.glyphs[k].live]

PrunableUpToExcess(i, c, excess) ==
  {ks \in SUBSET Sized(i, c) :
    /\ Bytes(i, c, ks) >= excess \/ ks = Sized(i, c)
    /\ ks # {} => \E k \in ks : Bytes(i, c, ks \ {k}) < excess}

(* GlyphKeyCache::prune_glyphs: a set of glyphs that its loop may prune,   *)
(* in an order of the hash map.                                            *)
Prunable(i, c, excess) ==
  {ks \in SUBSET Sized(i, c) :
    /\ Bytes(i, c, ks) > excess \/ ks = Sized(i, c)
    /\ ks # {} => \E k \in ks : Bytes(i, c, ks \ {k}) <= excess}
PruneGlyphs(i, c, ks) ==
  [c EXCEPT !.glyphs = Drop(c, ks), !.bytes_used = @ - Bytes(i, c, ks),
            !.orphans = @ \/ \E k \in ks : c.glyphs[k].live]

-----------------------------------------------------------------------------
(* The render backend.                                                     *)

AsyncForEachAtOnce(add, remove) ==
  /\ spawned' = Append(spawned, ForEach(add, remove))
  /\ UNCHANGED waitVars

(* async_for_each: the caller waits until the task has all locks.          *)
AsyncForEach(add, remove) ==
  /\ spawned' = Append(spawned, ForEach(add, remove))
  /\ locked' = FALSE /\ waiting' = TRUE

Resume == waiting /\ locked /\ waiting' = FALSE
          /\ UNCHANGED <<backendVars, glyph_rx, spawned, poolVars, locked>>

(* add_font_template, before the scene of its transaction is built.        *)
AddFont(f) ==
  /\ stage = "Idle" /\ ~waiting /\ fonts[f] = "new"
  /\ fonts' = [fonts EXCEPT ![f] = "added"]
  /\ AsyncForEach({f}, {})
  /\ UNCHANGED <<scene, stage, current_frame, glyph_key_caches, glyph_bytes_used, to_prune, asked,
                 fonts_to_remove, instances_to_remove, pending_glyphs, glyph_rx, poolVars>>

(* A built scene arrives.  Its transaction deletes fonts that the scene    *)
(* has no text in (delete_font_template).                                  *)
SwapScene(s, deleted_fonts) ==
  /\ stage = "Idle" /\ ~waiting
  /\ \A f \in deleted_fonts : fonts[f] = "added"
  /\ \A i \in s : fonts[FontOf[i]] = "added" /\ FontOf[i] \notin deleted_fonts
  /\ scene' = s
  /\ fonts' = [f \in Fonts |-> IF f \in deleted_fonts THEN "deleted" ELSE fonts[f]]
  /\ fonts_to_remove' = fonts_to_remove \cup deleted_fonts
  /\ glyph_key_caches' = [i \in Instances |->
       IF FontOf[i] \in deleted_fonts THEN NoCache ELSE glyph_key_caches[i]]
  /\ UNCHANGED <<stage, current_frame, glyph_bytes_used, to_prune, asked, instances_to_remove,
                 pending_glyphs, glyph_rx, spawned, poolVars, waitVars>>

(* ResourceCache::clear(ClearCache::GLYPHS)                                *)
ClearCacheGlyphs ==
  /\ stage = "Idle" /\ ~waiting
  /\ glyph_key_caches' = [i \in Instances |-> NoCache]
  /\ UNCHANGED <<fonts, scene, stage, current_frame, glyph_bytes_used, to_prune, asked,
                 fonts_to_remove, instances_to_remove, pending_glyphs, glyph_rx, spawned,
                 poolVars, waitVars>>

(* The texture cache evicts a glyph that the frame has not requested.      *)
EvictGlyph(i, k) ==
  /\ stage \in {"Idle", "AddResources", "QueryResources"} /\ ~waiting
  /\ glyph_key_caches[i].glyphs[k].live /\ <<i, k>> \notin asked
  /\ glyph_key_caches' =
       [glyph_key_caches EXCEPT ![i].glyphs[k].live = FALSE, ![i].eviction_notice = TRUE]
  /\ UNCHANGED <<fonts, scene, stage, current_frame, glyph_bytes_used, to_prune, asked,
                 fonts_to_remove, instances_to_remove, pending_glyphs, glyph_rx, spawned,
                 poolVars, waitVars>>

EvictOrphan(i) ==
  /\ stage \in {"Idle", "AddResources", "QueryResources"} /\ ~waiting
  /\ glyph_key_caches[i].orphans
  /\ \E more \in BOOLEAN : glyph_key_caches' =
       [glyph_key_caches EXCEPT ![i].orphans = more, ![i].eviction_notice = TRUE]
  /\ UNCHANGED <<fonts, scene, stage, current_frame, glyph_bytes_used, to_prune, asked,
                 fonts_to_remove, instances_to_remove, pending_glyphs, glyph_rx, spawned,
                 poolVars, waitVars>>

(* GlyphCache::begin_frame, with clear_evicted ...                         *)
GlyphBeginFrame ==
  /\ stage = "Idle" /\ ~waiting /\ current_frame < MaxFrames
  /\ stage' = "Pruning" /\ current_frame' = current_frame + 1
  /\ glyph_key_caches' = [i \in Instances |->
       IF Has(i) THEN ClearEvicted(i, glyph_key_caches[i]) ELSE NoCache]
  /\ glyph_bytes_used' =
       SumFunctionOnSet([i \in Instances |-> glyph_key_caches'[i].bytes_used], Instances)
  /\ to_prune' = {i \in Instances : Has(i)}
  /\ UNCHANGED <<fonts, scene, asked, fonts_to_remove, instances_to_remove, pending_glyphs,
                 glyph_rx, spawned, poolVars, waitVars>>

(* ... one cache of prune_excess_usage.  A cache that is cleared counts    *)
(* zero bytes by the time they are subtracted from the total ...           *)
PruneOldest(i) ==
  LET c == glyph_key_caches[i]
      excess == glyph_bytes_used - MaxBytesUsed
  IN /\ stage = "Pruning" /\ i \in to_prune /\ excess >= 0
     /\ \A j \in to_prune : c.last_frame_used <= glyph_key_caches[j].last_frame_used
     /\ to_prune' = to_prune \ {i}
     /\ \/ /\ excess >= c.bytes_used
           /\ glyph_key_caches' = [glyph_key_caches EXCEPT ![i] = ClearGlyphs(c)]
           /\ glyph_bytes_used' = glyph_bytes_used - ClearGlyphs(c).bytes_used
        \/ /\ excess < c.bytes_used
           /\ \E ks \in Prunable(i, c, excess) :
                /\ glyph_key_caches' = [glyph_key_caches EXCEPT ![i] = PruneGlyphs(i, c, ks)]
                /\ glyph_bytes_used' = glyph_bytes_used - Bytes(i, c, ks)
     /\ UNCHANGED <<fonts, scene, stage, current_frame, asked, fonts_to_remove,
                    instances_to_remove, pending_glyphs, glyph_rx, spawned, poolVars, waitVars>>

(* ... and clear_empty_caches.                                             *)
ClearEmptyCaches ==
  LET empty == {i \in Instances : Has(i) /\ \A k \in GlyphKeys : glyph_key_caches[i].glyphs[k] = Absent}
  IN /\ stage = "Pruning" /\ (glyph_bytes_used < MaxBytesUsed \/ to_prune = {})
     /\ stage' = "AddResources" /\ to_prune' = {}
     /\ glyph_key_caches' = [i \in Instances |-> IF i \in empty THEN NoCache ELSE glyph_key_caches[i]]
     /\ instances_to_remove' = (instances_to_remove \/ empty # {})
     /\ UNCHANGED <<fonts, scene, current_frame, glyph_bytes_used, asked, fonts_to_remove,
                    pending_glyphs, glyph_rx, spawned, poolVars, waitVars>>

NewGlyphsOnce(c, ks) == {k \in ks : c.glyphs[k].is = "Absent"}

(* request_glyphs, for one text run: the glyphs that have to be rasterized *)
NewGlyphs(c, ks) == {k \in ks : \/ c.glyphs[k].is = "Absent"
                                \/ c.glyphs[k].is = "Cached" /\ ~c.glyphs[k].live}

JobsForAll(new) == 1

(* The messages that are to come for them.                                 *)
JobsFor(new) == IF new = {} THEN 0 ELSE 1

RequestGlyphs(i, ks) ==
  LET c == IF Has(i) THEN glyph_key_caches[i] ELSE NewGlyphKeyCache
      new == NewGlyphs(c, ks)
  IN /\ stage = "AddResources" /\ ~waiting /\ i \in scene
     /\ \E k \in ks : <<i, k>> \notin asked
     /\ owner[Shared] = Unlocked
     /\ asked' = asked \cup {<<i, k>> : k \in ks}
     /\ glyph_key_caches' = [glyph_key_caches EXCEPT ![i] =
          [c EXCEPT !.glyphs = [k \in GlyphKeys |-> IF k \in new THEN Pending ELSE c.glyphs[k]],
                    !.last_frame_used = current_frame,
                    !.bytes_used = IF new = {} THEN @ ELSE Dirty]]
     /\ pending_glyphs' = pending_glyphs + JobsFor(new)
     /\ spawned' = IF new = {} THEN spawned ELSE Append(spawned, Raster(i, new))
     /\ UNCHANGED <<fonts, scene, stage, current_frame, glyph_bytes_used, to_prune,
                    fonts_to_remove, instances_to_remove, glyph_rx, poolVars, waitVars>>

(* block_until_all_resources_added                                         *)
BlockForGlyphs ==
  /\ stage = "AddResources" /\ ~waiting /\ stage' = "QueryResources"
  /\ UNCHANGED <<fonts, scene, current_frame, glyph_key_caches, glyph_bytes_used, to_prune, asked,
                 fonts_to_remove, instances_to_remove, pending_glyphs, glyph_rx, spawned,
                 poolVars, waitVars>>

(* resolve_glyphs: the jobs of one task arrive ...                         *)
ReceiveJobs ==
  LET msg == Head(glyph_rx)
      c == IF Has(msg.font) THEN glyph_key_caches[msg.font] ELSE NewGlyphKeyCache
  IN /\ stage = "QueryResources" /\ pending_glyphs > 0 /\ glyph_rx # <<>>
     /\ pending_glyphs' = pending_glyphs - 1 /\ glyph_rx' = Tail(glyph_rx)
     /\ glyph_key_caches' = [glyph_key_caches EXCEPT ![msg.font] =
          [c EXCEPT !.glyphs = [k \in GlyphKeys |->
                                 IF msg.jobs[k] = Absent THEN c.glyphs[k] ELSE msg.jobs[k]],
                    !.last_frame_used = current_frame]]
     /\ UNCHANGED <<fonts, scene, stage, current_frame, glyph_bytes_used, to_prune, asked,
                    fonts_to_remove, instances_to_remove, spawned, poolVars, waitVars>>

(* ... and, after the last one, remove_dead_fonts.                         *)
RemoveDeadFonts ==
  /\ stage = "QueryResources" /\ pending_glyphs = 0
  /\ stage' = "Resolved" /\ fonts_to_remove' = {} /\ instances_to_remove' = FALSE
  /\ IF fonts_to_remove = {} /\ ~instances_to_remove
     THEN UNCHANGED <<spawned, waitVars>>
     ELSE AsyncForEach({}, fonts_to_remove)
  /\ UNCHANGED <<fonts, scene, current_frame, glyph_key_caches, glyph_bytes_used, to_prune, asked,
                 pending_glyphs, glyph_rx, poolVars>>

(* fetch_glyphs, for all text runs, and the end of the frame.              *)
FetchGlyphs ==
  /\ stage = "Resolved" /\ ~waiting
  /\ stage' = "Idle" /\ asked' = {}
  /\ UNCHANGED <<fonts, scene, current_frame, glyph_key_caches, glyph_bytes_used, to_prune,
                 fonts_to_remove, instances_to_remove, pending_glyphs, glyph_rx, spawned,
                 poolVars, waitVars>>

-----------------------------------------------------------------------------
(* The workers.                                                            *)

Idle(w) == for_each[w] = NoTask

TakeTask(w) ==
  /\ Idle(w) /\ spawned # <<>> /\ spawned' = Tail(spawned)
  /\ IF Head(spawned).does = "raster"
     THEN rasters' = rasters \cup {Head(spawned)} /\ UNCHANGED for_each
     ELSE for_each' = [for_each EXCEPT ![w] = Head(spawned)] /\ UNCHANGED rasters
  /\ UNCHANGED <<backendVars, glyph_rx, contexts, owner, waitVars>>

LockContext(w) ==
  LET c == for_each[w].next
  IN /\ for_each[w].does = "lock" /\ c \in FontContexts /\ owner[c] = Unlocked
     /\ owner' = [owner EXCEPT ![c] = w]
     /\ for_each' = [for_each EXCEPT ![w].next = c + 1]
     /\ UNCHANGED <<backendVars, glyph_rx, spawned, rasters, contexts, waitVars>>

SignalLocked(w) ==
  /\ for_each[w].does = "lock" /\ for_each[w].next = NumWorkers + 1
  /\ locked' = TRUE
  /\ for_each' = [for_each EXCEPT ![w].does = "apply", ![w].next = Shared]
  /\ UNCHANGED <<backendVars, glyph_rx, spawned, rasters, contexts, owner, waiting>>

ApplyToContext(w) ==
  LET t == for_each[w]
  IN /\ t.does = "apply"
     /\ contexts' = [contexts EXCEPT ![t.next] = (@ \cup t.add) \ t.remove]
     /\ owner' = [owner EXCEPT ![t.next] = Unlocked]
     /\ for_each' = [for_each EXCEPT ![w] = IF t.next = NumWorkers THEN NoTask
                                            ELSE [t EXCEPT !.next = t.next + 1]]
     /\ UNCHANGED <<backendVars, glyph_rx, spawned, rasters, waitVars>>

(* FontContext::rasterize_glyph fails without the font, and for a glyph    *)
(* without pixels.                                                         *)
Rasterized(w, i, k) ==
  IF FontOf[i] \in contexts[w] /\ Size[i][k] > 0 THEN Cached(<<i, k>>) ELSE Blank

(* par_iter: any idle worker takes a glyph, with its own context locked.   *)
RasterizeGlyph(w) ==
  \E t \in rasters : \E k \in t.todo :
    /\ Idle(w) /\ owner[w] = Unlocked
    /\ rasters' = (rasters \ {t}) \cup
         {[t EXCEPT !.todo = @ \ {k}, !.jobs[k] = Rasterized(w, t.font, k)]}
    /\ UNCHANGED <<backendVars, glyph_rx, spawned, for_each, contexts, owner, waitVars>>

SendJobs ==
  \E t \in rasters :
    /\ t.todo = {}
    /\ rasters' = rasters \ {t}
    /\ glyph_rx' = Append(glyph_rx, [font |-> t.font, jobs |-> t.jobs])
    /\ UNCHANGED <<backendVars, spawned, for_each, contexts, owner, waitVars>>

-----------------------------------------------------------------------------
PoolStep ==
  \/ \E w \in Workers : TakeTask(w) \/ LockContext(w) \/ SignalLocked(w) \/ ApplyToContext(w)
                        \/ RasterizeGlyph(w)
  \/ SendJobs

(* What the render backend does when nothing new is asked of it.           *)
FrameStep ==
  \/ Resume \/ ClearEmptyCaches \/ BlockForGlyphs \/ ReceiveJobs \/ RemoveDeadFonts \/ FetchGlyphs
  \/ \E i \in Instances : PruneOldest(i)

GlyphNext ==
  \/ \E f \in Fonts : AddFont(f)
  \/ \E s \in SUBSET Instances, d \in SUBSET Fonts : SwapScene(s, d)
  \/ ClearCacheGlyphs \/ GlyphBeginFrame
  \/ \E i \in Instances : EvictOrphan(i) \/ \E k \in GlyphKeys : EvictGlyph(i, k)
  \/ \E i \in Instances, ks \in SUBSET GlyphKeys : RequestGlyphs(i, ks)
  \/ FrameStep \/ PoolStep

GlyphFairness == WF_glyphVars(FrameStep) /\ WF_glyphVars(PoolStep)
GlyphSpec == GlyphInit /\ [][GlyphNext]_glyphVars /\ GlyphFairness

-----------------------------------------------------------------------------
(* Properties.                                                             *)

(* A frame that draws text finds every glyph it has requested: rasterized  *)
(* from that glyph, in the texture cache, and blank only if it has no      *)
(* pixels, whatever was evicted, pruned or cleared, in whatever order the  *)
(* workers are done, and wherever the tasks that add fonts are.            *)
GlyphsDrawn ==
  stage = "Resolved" => \A g \in asked :
    glyph_key_caches[g[1]].glyphs[g[2]] = IF Size[g[1]][g[2]] = 0 THEN Blank ELSE Cached(g)

(* request_glyphs asserts that the shared context has the font.            *)
FontsAtHand ==
  stage = "AddResources" /\ ~waiting /\ owner[Shared] = Unlocked
    => \A i \in scene : FontOf[i] \in contexts[Shared]

(* When the tasks are done, all contexts have the same fonts: those of the *)
(* templates, and those that are to be removed after the next frame.       *)
ContextsAgree ==
  spawned = <<>> /\ ~waiting /\ (\A w \in Workers : Idle(w)) => \A c \in FontContexts :
    contexts[c] = {f \in Fonts : fonts[f] = "added"} \cup fonts_to_remove

(* The fonts are where they are asserted to be and where they are needed.  *)
GlyphFonts == FontsAtHand /\ ContextsAgree

(* A frame begins with the glyphs in the cache using less than the         *)
(* maximum, however the caches' own counts went stale before that, and     *)
(* though the total is not lowered by a cache that is cleared.             *)
Held(i) == Bytes(i, glyph_key_caches[i], GlyphKeys)
BytesInUse == SumFunctionOnSet([i \in Instances |-> Held(i)], Instances)
UsageBounded == stage = "AddResources" /\ asked = {} => BytesInUse < MaxBytesUsed

(* A frame that was begun is completed: the render backend waits neither   *)
(* for jobs that no task sends nor for locks that no task gets.            *)
FramesResolve == stage # "Idle" ~> stage = "Idle"
=============================================================================
