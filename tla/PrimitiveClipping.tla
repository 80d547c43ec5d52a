-------------------------- MODULE PrimitiveClipping --------------------------
(***************************************************************************)
(* clip.rs, segment.rs and their users in prim_store/mod.rs, render_task.rs *)
(* and batch.rs: how a rectangle primitive is drawn through its clips.     *)
(* Each frame reduces the clips to those that matter where the primitive   *)
(* is, and draws the primitive in segments with a mask for those segments  *)
(* that need one.  The segments are built once, in the first frame that    *)
(* draws the primitive, and kept for all frames of the scene.              *)
(*                                                                         *)
(* Rectangles have whole coordinates, the screen is in the space of the    *)
(* primitive, and each transform between coordinate systems is an exchange *)
(* of the axes: it maps rectangles to rectangles.                          *)
(***************************************************************************)
EXTENDS Integers, Sequences, FiniteSets

CONSTANTS
  Scenes,         \* the scenes to draw
  Scrolls,        \* the offsets of the scrolled node
  Views,          \* what frames draw: <<culling rect, dirty rect>>
  GridSize,       \* 128, for a primitive without local clips
  MaxGrid,        \* 8
  MaskTile,       \* CLIP_RECTANGLE_TILE_SIZE
  MaskThreshold,  \* CLIP_RECTANGLE_AREA_THRESHOLD
  Invalid,        \* SegmentInstanceIndex::INVALID
  MaxFrames       \* BOUND on the frames

Least(a, b) == IF a <= b THEN a ELSE b
Greatest(a, b) == IF a <= b THEN b ELSE a

IsEmpty(r) == r[1] >= r[3] \/ r[2] >= r[4]
None == <<0, 0, 0, 0>>

(* euclid's Rect: an empty rect inside of another one intersects it.       *)
Intersects(a, b) == a[1] < b[3] /\ b[1] < a[3] /\ a[2] < b[4] /\ b[2] < a[4]
Contains(a, b) == IsEmpty(b) \/ (a[1] <= b[1] /\ a[2] <= b[2] /\ b[3] <= a[3] /\ b[4] <= a[4])

Intersection(a, b) ==
  LET r == <<Greatest(a[1], b[1]), Greatest(a[2], b[2]), Least(a[3], b[3]), Least(a[4], b[4])>>
  IN IF IsEmpty(r) THEN None ELSE r

Has(r, p) == r[1] <= p[1] /\ p[1] < r[3] /\ r[2] <= p[2] /\ p[2] < r[4]

(* A clip is [kind, mode, rect, radius, node].  The kind is "rect",        *)
(* "rounded", "image" or "shadow", the mode "clip" or "out", of a shadow   *)
(* "outset" or "inset"; the radius of that is half of original_alloc_size. *)
(* The node is "prim", that of the primitive, "scroll", which the scroll   *)
(* offset moves against it, or "turned", of another coordinate system.     *)
(* A scene is [prim_rect, local_clip_rect, picture_clips, prim_clips,      *)
(* shared_clips, is_large, at_root, fast_clears]: the primitive, the clips *)
(* of its picture and its own, those of them that the tile cache has,      *)
(* whether its area is above MIN_BRUSH_SPLIT_AREA, whether its coordinate  *)
(* system is the root, and gpu_supports_fast_clears.                       *)
NoChain == [visible |-> FALSE]
NoScene == [prim_rect |-> None]
Unused == {}

VARIABLES
  scene,
  scroll, culling_rect, dirty_rect,   \* of the frame
  frames,         \* the frames so far
  phase,          \* of the frame: "Visibility", "Prepare", "Batch", "Drawn"
  clip_chain,     \* the ClipChainInstance of the primitive
  segments,       \* of the primitive: Invalid, Unused, or its segments
  segmented,      \* history: the local clips that the segments were built for
  masks,          \* its parts with their clip masks: clip_mask_instances
  drawn, stale    \* history: the pixels it covers, those of them of stale masks

frameVars == <<scroll, culling_rect, dirty_rect>>
vars == <<scene, frameVars, frames, phase, clip_chain, segments, segmented, masks, drawn, stale>>

Init ==
  /\ scene = NoScene
  /\ scroll = 0 /\ culling_rect = None /\ dirty_rect = None /\ frames = 0
  /\ phase = "Drawn"
  /\ clip_chain = NoChain
  /\ segments = Invalid /\ segmented = {}
  /\ masks = {} /\ drawn = {} /\ stale = {}

-----------------------------------------------------------------------------
(* The clips of the primitive.                                             *)

(* ClipSpaceConversion.                                                    *)
Turned(r) == <<r[2], r[1], r[4], r[3]>>
Moved(r, d) == <<r[1] + d, r[2], r[3] + d, r[4]>>

MapRect(clip, r) ==
  CASE clip.node = "prim" -> r
    [] clip.node = "scroll" -> Moved(r, scroll)
    [] clip.node = "turned" -> Turned(r)

UnmapRect(clip, r) ==
  CASE clip.node = "prim" -> r
    [] clip.node = "scroll" -> Moved(r, -scroll)
    [] clip.node = "turned" -> Turned(r)

SameCoordSystem(clip) == clip.node # "turned"

(* extract_inner_rect_safe, of radii that are all the same.                *)
HasInnerRect(clip) ==
  /\ 2 * clip.radius <= clip.rect[3] - clip.rect[1]
  /\ 2 * clip.radius <= clip.rect[4] - clip.rect[2]

InnerRect(clip) ==
  <<clip.rect[1] + clip.radius, clip.rect[2] + clip.radius,
    clip.rect[3] - clip.radius, clip.rect[4] - clip.radius>>

(* get_local_clip_rect: whether the clip keeps only what is in its rect.   *)
HasLocalClipRect(clip) == clip.mode = "clip"

(* get_clip_result, of a clip and a rect in its space.                     *)
GetClipResult(clip, r) ==
  LET accepted == IF clip.mode = "clip" THEN "Accept" ELSE "Reject"
      rejected == IF clip.mode = "clip" THEN "Reject" ELSE "Accept"
  IN CASE clip.kind = "rect" /\ Contains(clip.rect, r) -> accepted
       [] clip.kind = "rounded" /\ HasInnerRect(clip) /\ Contains(InnerRect(clip), r) -> accepted
       [] clip.kind # "shadow" /\ ~Intersects(clip.rect, r) -> rejected
       [] OTHER -> "Partial"

(* get_clip_result_complex, in world space, of a clip of another           *)
(* coordinate system; only what is in the world rect has to be right.      *)
GetClipResultComplex(clip, prim_world_rect, world_rect) ==
  LET visible == Intersection(prim_world_rect, world_rect)
      inner == MapRect(clip, InnerRect(clip))
  IN CASE visible = None -> "Reject"
       [] clip.kind = "shadow" -> "Partial"
       [] \/ clip.kind = "rect" /\ Contains(MapRect(clip, clip.rect), visible)
          \/ clip.kind = "rounded" /\ HasInnerRect(clip) /\ Contains(inner, visible) ->
            IF clip.mode = "clip" THEN "Accept" ELSE "Reject"
       [] /\ clip.mode = "clip"
          /\ ~Intersects(MapRect(clip, clip.rect), prim_world_rect) -> "Reject"
       [] OTHER -> "Partial"

(* ClipChainStack::push_clip leaves out the clips that are shared: they    *)
(* clip the surface of the tile cache.                                     *)
Unshared(clips) == SelectSeq(clips, LAMBDA clip : clip \notin scene.shared_clips)

CurrentClips == Unshared(scene.picture_clips) \o Unshared(scene.prim_clips)

SeqRange(s) == {s[i] : i \in DOMAIN s}

(* set_active_clips: the local clip rect, None if a clip leaves nothing.   *)
ActiveLocalClipRect(clips) ==
  LET after[n \in 0..Len(clips)] ==
        IF n = 0 THEN scene.local_clip_rect
        ELSE IF HasLocalClipRect(clips[n]) /\ SameCoordSystem(clips[n])
             THEN Intersection(after[n - 1], MapRect(clips[n], clips[n].rect))
             ELSE after[n - 1]
  IN after[Len(clips)]

(* build_clip_chain_instance, of active clips and their local clip rect,   *)
(* for a rect.                                                             *)
NeedsMask(clip) == clip.kind = "rect" /\ clip.mode = "clip" => ~SameCoordSystem(clip)

BuildClipChainInstance(clips, local_clip_rect, local_rect, world_rect) ==
  LET bounds == Intersection(local_rect, local_clip_rect)
      Result(clip) == IF SameCoordSystem(clip) THEN GetClipResult(clip, UnmapRect(clip, bounds))
                      ELSE GetClipResultComplex(clip, bounds, world_rect)
      partial == SelectSeq(clips, LAMBDA clip : Result(clip) = "Partial")
  IN IF bounds = None \/ \E clip \in SeqRange(clips) : Result(clip) = "Reject" THEN NoChain
     ELSE [visible |-> TRUE,
           clips |-> partial,
           local_clip_rect |-> local_clip_rect,
           has_non_local_clips |-> \E clip \in SeqRange(clips) : clip.node # "prim",
           needs_mask |-> \E clip \in SeqRange(partial) : NeedsMask(clip),
           pic_clip_rect |-> bounds]

-----------------------------------------------------------------------------
(* The segments of the primitive.                                          *)

Item(rect, mode, mask) == [rect |-> rect, mode |-> mode, mask |-> mask]

(* The parts of a nine-patch between the outer and the inner rect.         *)
Corners(o, i) == {<<o[1], o[2], i[1], i[2]>>, <<i[3], o[2], o[3], i[2]>>,
                  <<i[3], i[4], o[3], o[4]>>, <<o[1], i[4], i[1], o[4]>>}
Edges(o, i) == {<<i[1], o[2], i[3], i[2]>>, <<i[3], i[2], o[3], i[4]>>,
                <<i[1], i[4], i[3], o[4]>>, <<o[1], i[2], i[1], i[4]>>}

(* push_clip_rect.                                                         *)
ClipItems(clip) ==
  CASE clip.kind = "rect" -> {Item(clip.rect, clip.mode, FALSE)}
    [] clip.kind = "rounded" /\ ~HasInnerRect(clip) -> {Item(clip.rect, clip.mode, TRUE)}
    [] clip.kind = "rounded" /\ HasInnerRect(clip) ->
         {Item(r, clip.mode, TRUE) : r \in Corners(clip.rect, InnerRect(clip))}
           \cup {Item(r, clip.mode, FALSE) :
                   r \in Edges(clip.rect, InnerRect(clip)) \cup {InnerRect(clip)}}

(* push_mask_region.                                                       *)
MaskItems(outer, inner, inner_mode) ==
  IF IsEmpty(inner) THEN {Item(outer, "none", TRUE)}
  ELSE {Item(r, "none", TRUE) : r \in Corners(outer, inner) \cup Edges(outer, inner)}
         \cup (IF inner_mode = "none" THEN {} ELSE {Item(inner, inner_mode, FALSE)})

ShadowItems(clip) ==
  MaskItems(clip.rect, InnerRect(clip), IF clip.mode = "inset" THEN "out" ELSE "none")

(* A grid, for a primitive that only other nodes clip.                     *)
Fraction(from, size, k, count) == from + (size * k) \div count

GridItems(r) ==
  LET width == r[3] - r[1]
      height == r[4] - r[2]
      columns == Least(MaxGrid, (width + GridSize - 1) \div GridSize)
      rows == Least(MaxGrid, (height + GridSize - 1) \div GridSize)
  IN {Item(<<Fraction(r[1], width, x, columns), Fraction(r[2], height, y, rows),
             Fraction(r[1], width, x + 1, columns), Fraction(r[2], height, y + 1, rows)>>,
           "none", TRUE) : x \in 0..(columns - 1), y \in 0..(rows - 1)}

Clamp(low, v, high) == Least(Greatest(v, low), high)

(* SegmentBuilder::build sweeps over the begins and ends of the items,     *)
(* which sort() takes in the order of PartialOrd: the begin of an item is  *)
(* before its end, so that an item of no width is active nowhere.          *)
ActiveFrom(begin, end, from, low, high) ==
  Clamp(low, begin, high) <= from /\ from < Clamp(low, end, high)

Emitted(items, cell, bounds) ==
  LET active == {i \in items :
                   /\ ActiveFrom(i.rect[1], i.rect[3], cell[1], bounds[1], bounds[3])
                   /\ ActiveFrom(i.rect[2], i.rect[4], cell[2], bounds[2], bounds[4])}
  IN IF \E i \in active : i.mode = "out" /\ ~i.mask THEN {}
     ELSE {[rect |-> cell, may_need_clip_mask |-> \E i \in active : i.mask]}

BuildSegments(pushed, bounds) ==
  LET items == {i \in pushed : Intersects(i.rect, bounds)}
      xs == {Clamp(bounds[1], v, bounds[3]) : v \in UNION {{i.rect[1], i.rect[3]} : i \in items}}
      ys == {Clamp(bounds[2], v, bounds[4]) : v \in UNION {{i.rect[2], i.rect[4]} : i \in items}}
      After(v, s) == {w \in s : v < w}
      NextOf(v, s) == CHOOSE w \in After(v, s) : \A u \in After(v, s) : w <= u
  IN UNION {Emitted(items, <<x, y, NextOf(x, xs), NextOf(y, ys)>>, bounds) :
              x \in {x \in xs : After(x, xs) # {}}, y \in {y \in ys : After(y, ys) # {}}}

(* write_brush_segment_description and the segments that build gives.      *)
LocalClipsOfScrolled(chain) == SelectSeq(chain.clips, SameCoordSystem)

LocalClips(chain) == SelectSeq(chain.clips, LAMBDA clip : clip.node = "prim")

PushedItems(chain, local) ==
  {Item(scene.prim_rect, "clip", FALSE), Item(scene.local_clip_rect, "clip", FALSE)}
    \cup UNION {IF clip.kind = "shadow" THEN ShadowItems(clip) ELSE ClipItems(clip) : clip \in local}
    \cup IF local = {} /\ chain.clips # <<>> THEN GridItems(scene.prim_rect) ELSE {}

SegmentsFor(chain) ==
  LET local == SeqRange(LocalClips(chain))
      rect_clips_only == \A clip \in local : clip.kind = "rect"
      Bounds[s \in SUBSET {clip \in local : clip.kind # "shadow" /\ clip.mode = "clip"}] ==
        IF s = {} THEN Intersection(scene.prim_rect, scene.local_clip_rect)
        ELSE LET clip == CHOOSE clip \in s : TRUE IN Intersection(clip.rect, Bounds[s \ {clip}])
      bounds == Bounds[{clip \in local : clip.kind # "shadow" /\ clip.mode = "clip"}]
  IN IF \/ \E clip \in local : clip.kind = "image"
        \/ ~(scene.is_large \/ rect_clips_only)
        \/ bounds = None
     THEN {}
     ELSE IF chain.clips = <<>> THEN {[rect |-> bounds, may_need_clip_mask |-> FALSE]}
     ELSE BuildSegments(PushedItems(chain, local), bounds)

-----------------------------------------------------------------------------
(* The masks.                                                              *)

NoMask == [kind |-> "None"]
ClippedMask == [kind |-> "Clipped"]

NewMask(rect, clips) == [kind |-> "Mask", rect |-> rect, clips |-> clips]

ClippedWorldRect == Intersection(clip_chain.pic_clip_rect, culling_rect)

(* BrushSegment::update_clip_task, with the clip chain of the segment.     *)
UpdateSegmentMask(segment, chain) ==
  LET rect == Intersection(chain.pic_clip_rect, ClippedWorldRect)
  IN CASE ~chain.visible -> ClippedMask
       [] /\ chain.visible
          /\ ~chain.needs_mask \/ ~(segment.may_need_clip_mask \/ chain.has_non_local_clips) ->
            NoMask
       [] OTHER -> IF rect = None THEN ClippedMask ELSE NewMask(rect, chain.clips)

(* update_clip_task_for_brush: one segment takes the chain of the          *)
(* primitive, each of several a chain of its own.                          *)
SegmentChain(segment, built) ==
  IF Cardinality(built) = 1 THEN clip_chain
  ELSE BuildClipChainInstance(clip_chain.clips, clip_chain.local_clip_rect, segment.rect, dirty_rect)

Part(rect, mask) == [rect |-> rect, mask |-> mask]

MasksFor(built) ==
  IF built = Unused
  THEN {Part(scene.prim_rect, IF clip_chain.needs_mask
                              THEN NewMask(ClippedWorldRect, clip_chain.clips) ELSE NoMask)}
  ELSE {Part(segment.rect, UpdateSegmentMask(segment, SegmentChain(segment, built))) :
          segment \in built}

(* RenderTask::new_mask.                                                   *)
NeedsClear(clips) ==
  \/ scene.fast_clears
  \/ \E clip \in SeqRange(clips) :
       clip.kind = "rect" /\ clip.mode = "clip" /\ ~SameCoordSystem(clip)

(* ClipBatcher::add leaves out what the local clip rect has clipped.       *)
AddedClips(clips) == SelectSeq(clips, NeedsMask)

(* add_tiled_clip_mask: the tiles that are all in the clip are not drawn.  *)
Area(r) == (r[3] - r[1]) * (r[4] - r[2])

IsTiled(clip, mask_rect) ==
  /\ clip.kind = "rect" /\ clip.mode = "clip"
  /\ Area(mask_rect) >= MaskThreshold
  /\ ~scene.at_root

TileOf(mask_rect, p) ==
  LET x == mask_rect[1] + MaskTile * ((p[1] - mask_rect[1]) \div MaskTile)
      y == mask_rect[2] + MaskTile * ((p[2] - mask_rect[2]) \div MaskTile)
  IN Intersection(<<x, y, x + MaskTile, y + MaskTile>>, mask_rect)

(* Whether the clip is drawn on a pixel of a mask.                         *)
DrawnOn(clip, mask_rect, p) ==
  /\ IsTiled(clip, mask_rect) => ~Contains(MapRect(clip, clip.rect), TileOf(mask_rect, p))
  /\ clip.kind = "image" => Has(MapRect(clip, clip.rect), p)

-----------------------------------------------------------------------------
(* What clips do to pixels.                                                *)

MapPixel(clip, p) ==
  CASE clip.node = "prim" -> p
    [] clip.node = "scroll" -> <<p[1] - scroll, p[2]>>
    [] clip.node = "turned" -> <<p[2], p[1]>>

(* The distance of a pixel from the nearer side of an interval.            *)
Depth(v, low, high) == Least(v - low, high - 1 - v)

InCorner(clip, p) ==
  Depth(p[1], clip.rect[1], clip.rect[3]) + Depth(p[2], clip.rect[2], clip.rect[4]) < clip.radius - 1

(* What an image or a blur does is any pattern: this one tells neighbours  *)
(* apart.                                                                  *)
Pattern(p) == (p[1] + p[2]) % 2 = 0

Shows(clip, p) ==
  LET q == MapPixel(clip, p)
      within == Has(clip.rect, q)
      solid == within /\ (clip.kind = "rounded" => ~InCorner(clip, q))
      blurred == within /\ ~Has(InnerRect(clip), q)
  IN CASE clip.kind \in {"rect", "rounded"} -> solid = (clip.mode = "clip")
       [] clip.kind = "image" -> within /\ Pattern(q)
       [] clip.kind = "shadow" /\ clip.mode = "outset" -> within /\ (blurred => Pattern(q))
       [] clip.kind = "shadow" /\ clip.mode = "inset" -> within => blurred /\ Pattern(q)

(* A pixel of a mask: the first clip overwrites what was there, and the    *)
(* others are multiplied with it.                                          *)
IsPrimary(clips, i) == i = 1 /\ ~scene.fast_clears

MaskShows(mask, p) ==
  LET added == AddedClips(mask.clips)
  IN \A i \in DOMAIN added : DrawnOn(added[i], mask.rect, p) => Shows(added[i], p)

MaskIsStale(mask, p) ==
  LET added == AddedClips(mask.clips)
  IN /\ ~NeedsClear(mask.clips)
     /\ ~\E i \in DOMAIN added : IsPrimary(added, i) /\ DrawnOn(added[i], mask.rect, p)

Covers(part, p) ==
  /\ Has(part.rect, p) /\ Has(scene.prim_rect, p) /\ Has(clip_chain.local_clip_rect, p)
  /\ part.mask.kind # "Clipped"
  /\ part.mask.kind = "Mask" => Has(part.mask.rect, p)

Visible(part, p) == Covers(part, p) /\ (part.mask.kind = "Mask" => MaskShows(part.mask, p))

Stale(part, p) == Covers(part, p) /\ part.mask.kind = "Mask" /\ MaskIsStale(part.mask, p)

(* The tile cache clips its surface by its shared clips when it is drawn.  *)
Composited(p) == \A clip \in scene.shared_clips : Shows(clip, p)

-----------------------------------------------------------------------------
(* The frames.                                                             *)

NewScene ==
  /\ scene = NoScene
  /\ scene' \in Scenes
  /\ UNCHANGED <<frameVars, frames, phase, clip_chain, segments, segmented, masks, drawn, stale>>

NewFrame ==
  /\ scene # NoScene /\ phase = "Drawn" /\ frames < MaxFrames
  /\ frames' = frames + 1
  /\ scroll' \in Scrolls
  /\ \E view \in Views : culling_rect' = view[1] /\ dirty_rect' = view[2]
  /\ phase' = "Visibility"
  /\ clip_chain' = NoChain /\ masks' = {} /\ drawn' = {} /\ stale' = {}
  /\ UNCHANGED <<scene, segments, segmented>>

(* PrimitiveStore::update_visibility.                                      *)
UpdateVisibility ==
  /\ phase = "Visibility"
  /\ LET local_rect == Intersection(scene.prim_rect, scene.local_clip_rect)
         chain == BuildClipChainInstance(CurrentClips, ActiveLocalClipRect(CurrentClips),
                                         local_rect, culling_rect)
     IN IF chain.visible /\ Intersection(chain.pic_clip_rect, culling_rect) # None
        THEN clip_chain' = chain /\ phase' = "Prepare"
        ELSE clip_chain' = NoChain /\ phase' = "Drawn"
  /\ UNCHANGED <<scene, frameVars, frames, segments, segmented, masks, drawn, stale>>

(* prepare_primitives: only what is in the dirty region; then              *)
(* PrimitiveInstance::update_clip_task.                                    *)
SkipClean ==
  /\ phase = "Prepare" /\ ~Intersects(ClippedWorldRect, dirty_rect)
  /\ clip_chain' = NoChain /\ phase' = "Drawn"
  /\ UNCHANGED <<scene, frameVars, frames, segments, segmented, masks, drawn, stale>>

BuildSegmentsIfNeeded ==
  LET built == SegmentsFor(clip_chain)
  IN IF segments # Invalid THEN UNCHANGED <<segments, segmented>>
     ELSE /\ segments' = built
          /\ segmented' = SeqRange(LocalClips(clip_chain))

UpdateClipTask ==
  /\ phase = "Prepare" /\ Intersects(ClippedWorldRect, dirty_rect)
  /\ BuildSegmentsIfNeeded
  /\ masks' = MasksFor(segments')
  /\ phase' = "Batch"
  /\ UNCHANGED <<scene, frameVars, frames, clip_chain, drawn, stale>>

(* BatchBuilder::add_segmented_prim_to_batch, and the draw of the masks    *)
(* and of the primitive by the renderer.                                   *)
Pixels(r) == (r[1]..(r[3] - 1)) \X (r[2]..(r[4] - 1))

Draw ==
  /\ phase = "Batch"
  /\ drawn' = {p \in Pixels(scene.prim_rect) : \E part \in masks : Visible(part, p)}
  /\ stale' = {p \in Pixels(scene.prim_rect) : \E part \in masks : Stale(part, p)}
  /\ phase' = "Drawn"
  /\ UNCHANGED <<scene, frameVars, frames, clip_chain, segments, segmented, masks>>

Next == NewScene \/ NewFrame \/ UpdateVisibility \/ SkipClean \/ UpdateClipTask \/ Draw

Spec == Init /\ [][Next]_vars

-----------------------------------------------------------------------------
(* Properties.                                                             *)

AllClips == SeqRange(scene.picture_clips) \cup SeqRange(scene.prim_clips)

Asked(p) == Has(scene.local_clip_rect, p) /\ \A clip \in AllClips : Shows(clip, p)

DrawnAsAsked ==
  phase = "Drawn" /\ frames > 0 =>
    \A p \in Pixels(scene.prim_rect) :
      Has(culling_rect, p) /\ Has(dirty_rect, p) =>
        p \notin stale /\ (p \in drawn /\ Composited(p)) = Asked(p)

(* The segments know every clip of their node that the frame needs: those  *)
(* of a scene that scrolls may not, see KeptSegmentsClip.                  *)
SegmentsFit ==
  \/ Cardinality(segments) <= 1
  \/ \A clip \in SeqRange(LocalClips(clip_chain)) : NeedsMask(clip) => clip \in segmented

(* A frame leaves of the primitive, on the pixels that it redraws, what    *)
(* all of its clips leave of it, however they were reduced, segmented,     *)
(* masked in tiles or left to the local clip rect or the tile cache; and   *)
(* it reads no pixel of a mask that neither a clear nor the primary clip   *)
(* has written.                                                            *)
DrawnAsClipped ==
  phase = "Drawn" /\ (clip_chain.visible => SegmentsFit) => DrawnAsAsked

(* "Only segment with clips that have the same positioning node", instead  *)
(* of segmenting again while scrolling (prim_store/mod.rs:3543).  TLC      *)
(* refutes it: a clip of the node that the first frame did without is not  *)
(* in the segments, and gets no mask in a frame where it matters.          *)
KeptSegmentsClip == DrawnAsAsked
=============================================================================
