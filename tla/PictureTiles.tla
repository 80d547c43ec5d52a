---------------------------- MODULE PictureTiles ----------------------------
(***************************************************************************)
(* Picture caching (picture.rs): the tiles of a slice keep their pixels    *)
(* between frames and scenes, and are redrawn only where the primitives    *)
(* they depend on have changed.  The render backend decides what to draw   *)
(* when it builds a frame; the pixels change later, when the renderer      *)
(* draws that frame, which the next one may replace.                       *)
(*                                                                         *)
(* One slice of one document, along one axis.  A picture is a row of       *)
(* units, a rectangle an interval of units.  At scale n a unit is n        *)
(* pixels; tiles are a fixed number of pixels wide.                        *)
(***************************************************************************)
EXTENDS Integers, Sequences, SequencesExt, FiniteSetsExt

CONSTANTS
  Scenes,          \* display lists: [prims, size, clip, background]
  Views,           \* [at, fract, scale, flat]: see view below
  Values,          \* of the animated opacity
  Compositors,     \* of CompositorKind: "Draw", "Native", "NativeWhole"
  MaxChanges,      \* what the client changes, at most so many times
  MaxId,           \* BOUND on the identifiers of tiles
  Repeats,         \* does the client render a frame more than once?
  TILE_SIZE,       \* [{"small", "large"} -> pixels]
  Screen,          \* pixels on screen
  Inflation        \* tiles kept around the screen

NoValue == -1

(***************************************************************************)
(* Intervals <<a, b>> of Int stand for rectangles: the units n with        *)
(* a <= n < b                                                              *)
(***************************************************************************)
Interval == Int \X Int
Nowhere == <<0, 0>>
IsEmpty(r) == r[1] >= r[2]
Intersection(r, s) ==
  LET a == Max({r[1], s[1]})
      b == Min({r[2], s[2]})
  IN IF a < b THEN <<a, b>> ELSE Nowhere
Meets(r, s) == ~IsEmpty(Intersection(r, s))
Hull(rects) ==
  LET some == {r \in rects : ~IsEmpty(r)}
  IN IF some = {} THEN Nowhere
     ELSE <<Min({r[1] : r \in some}), Max({r[2] : r \in some})>>
Covers(r, s) == IsEmpty(s) \/ (r[1] <= s[1] /\ s[2] <= r[2])
Clamp(r, to) ==
  LET Clamped(n) == Max({to[1], Min({n, to[2]})})
  IN <<Clamped(r[1]), Clamped(r[2])>>
Within(n, r) == r[1] <= n /\ n < r[2]

(***************************************************************************)
(* Primitives.  A "rect" is opaque, a "video" is an external image, a      *)
(* "fading" picture has an animated opacity, and turned says whether the   *)
(* primitive is under the node.  What clips a primitive leaves a part of   *)
(* it (clip.rs:800).                                                       *)
(***************************************************************************)
Primitive ==
  [uid : Nat, kind : {"rect", "clear", "text", "image", "fading", "video"},
   rect : Interval, clip : Interval, turned : BOOLEAN]
Scene == [prims : Seq(Primitive), size : Nat, clip : Interval, background : Nat]
View == [at : Int, fract : Int, scale : Nat \ {0}, flat : BOOLEAN]

ASSUME PictureTilesAssumption ==
  /\ {TILE_SIZE.small, TILE_SIZE.large, Screen} \subseteq Nat \ {0}
  /\ {Inflation, MaxChanges, MaxId} \subseteq Nat
  /\ Repeats \in BOOLEAN
  /\ Compositors \subseteq {"Draw", "Native", "NativeWhole"}
  /\ Scenes \subseteq Scene /\ Views \subseteq View
  /\ \A s \in Scenes : \A p \in ToSet(s.prims) : Covers(p.rect, p.clip)

VARIABLES
  compositor,      \* max_update_rects is 0 for "NativeWhole"
  scene,           \* the display list of the current scene
  view,            \* where the screen begins in pixels, the fractional offset
                   \* and scale of the scroll root, and whether it is flat:
                   \* in the root coordinate system
  turn,            \* the transform of the one spatial node above the slice
  fade,            \* the opacity property; NoValue: it is not set
  image,           \* the version of the image, and whether a part of it is to
                   \* be uploaded with the next request
  video,           \* the frame of the external image
  cache,           \* TileCacheInstance
  retained,        \* RetainedTiles
  frame,           \* the frame the renderer has
  pixels,          \* the content of the tile surfaces in the renderer
  allocated,       \* allocated_native_surfaces
  changes,         \* so many changes so far
  skipped,         \* the image was uploaded in a frame without this slice
  panic            \* the first assertion that failed

contentVars == <<scene, view, turn, fade, image, video>>
rendererVars == <<frame, pixels, allocated>>
vars == <<compositor, contentVars, cache, retained, rendererVars, changes,
          skipped, panic>>

is_cacheable(p) == p.kind # "video"

(* PrimitiveDescriptor and the dependencies added with it                  *)
Descriptor(p, rect) ==
  LET byTile == p.kind = "rect"
  IN [uid |-> p.uid,
      origin |-> IF byTile THEN Clamp(p.rect, rect)[1] ELSE p.rect[1],
      clip |-> IF byTile THEN Clamp(p.clip, rect) ELSE p.clip,
      turned |-> p.turned,
      fading |-> p.kind = "fading",
      image |-> p.kind = "image"]

(* What a unit of the picture looks like now                               *)
Look(p) ==
  [uid |-> p.uid,
   turn |-> IF p.turned THEN turn ELSE NoValue,
   fade |-> IF p.kind = "fading" THEN fade ELSE NoValue,
   image |-> IF p.kind = "image" THEN image.version ELSE NoValue,
   video |-> IF p.kind = "video" THEN video ELSE NoValue]
Shown(u) ==
  [background |-> scene.background, fract |-> view.fract, scale |-> view.scale,
   prims |-> {Look(p) : p \in {q \in ToSet(scene.prims) : Within(u, q.clip)}}]
Blank == [background |-> NoValue, fract |-> 0, scale |-> 1, prims |-> {}]

(***************************************************************************)
(* Tiles                                                                   *)
(***************************************************************************)
(* age: complete frames since the texture was requested; NoValue: none.    *)
NewTile(id) ==
  [id |-> id, surface |-> "None", age |-> NoValue, valid |-> FALSE,
   dirty |-> Nowhere, opaque |-> FALSE, background |-> 0,
   prims |-> <<>>, leaves |-> << <<>> >>]

NewCache == [tiles |-> <<>>, fract |-> 0, turn |-> NoValue, fade |-> NoValue,
             size |-> "none"]
Native == compositor \in {"Native", "NativeWhole"}

(* The numbers of a set in order, and the elements of a sequence that      *)
(* stand at them                                                           *)
InOrder(I) ==
  CHOOSE s \in [1..Cardinality(I) -> I] :
    ToSet(s) = I /\ \A j, k \in DOMAIN s : j < k => s[j] < s[k]
Selected(s, I) == LET i == InOrder(I) IN [j \in DOMAIN i |-> s[i[j]]]

(* TileNode: a leaf, or a node with two.  A leaf lists the primitives by   *)
(* their indices.                                                          *)
LeafRect(rect, k, n) ==
  IF n = 1 THEN rect
  ELSE LET mid == (rect[1] + rect[2]) \div 2
       IN IF k = 1 THEN <<rect[1], mid>> ELSE <<mid, rect[2]>>
add_prim(prims, rect, n) ==
  [k \in 1..n |-> InOrder({i \in DOMAIN prims :
                             n = 1 \/ Meets(prims[i].rect, LeafRect(rect, k, n))})]
maybe_merge_or_split(tile, rect) ==
  [tile EXCEPT !.leaves =
     IF Len(@) = 1
     THEN [k \in 1..2 |-> InOrder({i \in ToSet(@[1]) :
                                   Meets(tile.prims[i].clip, LeafRect(rect, k, 2))})]
     ELSE << InOrder(ToSet(@[1]) \cup ToSet(@[2])) >>]

(* Step by step: is_prim_same of one primitive, then update_dirty_rects of *)
(* the leaves.  changed tells which dependencies the caches saw change.    *)
is_prim_same(prev, curr, changed) ==
  /\ prev = curr
  /\ curr.turned => ~changed.turn
  /\ curr.fading => ~changed.fade
  /\ curr.image => ~changed.image
SameLeaf(old, new, k, changed) ==
  /\ Len(old.leaves[k]) = Len(new.leaves[k])
  /\ \A j \in DOMAIN new.leaves[k] :
       is_prim_same(old.prims[old.leaves[k][j]], new.prims[new.leaves[k][j]],
                    changed)
update_dirty_rects(old, new, rect, changed) ==
  Hull({new.dirty} \cup
       {LeafRect(rect, k, Len(new.leaves)) :
          k \in {l \in DOMAIN new.leaves : ~SameLeaf(old, new, l, changed)}})

(***************************************************************************)
(* The tile cache before a frame: what pre_update and the visibility pass  *)
(* find out about the slice                                                *)
(***************************************************************************)
(* BackdropInfo: the last opaque rectangle that covers the one before it,  *)
(* or the last clear primitive.                                            *)
NoBackdrop == [rect |-> Nowhere, kind |-> "Color"]
BackdropAfter(b, p) ==
  CASE p.kind = "clear" -> [rect |-> p.clip, kind |-> "Clear"]
    [] p.kind = "rect" /\ ~p.turned /\ Covers(p.clip, b.rect)
         -> [rect |-> p.clip, kind |-> "Color"]
    [] OTHER -> b
Backdrop(prims) ==
  LET b[i \in 0..Len(prims)] ==
        IF i = 0 THEN NoBackdrop ELSE BackdropAfter(b[i - 1], prims[i])
  IN b[Len(prims)]

Slice ==
  LET base == IF retained.tiles # <<>> THEN retained ELSE cache
      size == IF scene.size < 2 * TILE_SIZE.small THEN "small" ELSE "large"
      width == TILE_SIZE[size] \div view.scale
      screen == <<view.at \div view.scale, (view.at + Screen) \div view.scale>>
      needed == Intersection(<<screen[1] - Inflation * width,
                               screen[2] + Inflation * width>>,
                             <<0, scene.size>>)
      first == needed[1] \div width
      last == (needed[2] + width - 1) \div width
      bounds == <<first * width, last * width>>
      prims == Selected(scene.prims, {i \in DOMAIN scene.prims :
                                        Meets(scene.prims[i].rect, bounds)})
  IN [tiles |-> IF size = base.size THEN base.tiles ELSE <<>>,
      dropped |-> {base.tiles[x].id : x \in
                     {y \in DOMAIN base.tiles :
                        /\ base.tiles[y].surface = "Native"
                        /\ size # base.size \/ y \notin first..(last - 1)}},
      coords |-> first..(last - 1),
      rect |-> [x \in first..(last - 1) |-> <<x * width, (x + 1) * width>>],
      size |-> size,
      screen |-> screen,
      prims |-> prims,
      backdrop |-> Backdrop(prims),
      changed |->
        [fract |-> base.fract # view.fract,
         turn |-> base.turn # turn,
         fade |-> fade = NoValue \/ base.fade # fade,
         image |-> image.dirty /\ \E p \in ToSet(prims) :
                     p.kind = "image" /\ Meets(p.clip, bounds)]]

(* NEXT_TILE_ID: identifiers that nothing has any more will do as well.    *)
TileIds ==
  {cache.tiles[x].id : x \in DOMAIN cache.tiles}
    \cup {retained.tiles[x].id : x \in DOMAIN retained.tiles}
UsedIds == TileIds \cup DOMAIN frame.tiles \cup frame.created \cup allocated
UnusedByTiles(n, coords) == \A x \in coords : n + x \notin TileIds
Unused(n, coords) == \A x \in coords : n + x \notin UsedIds
FirstUnused(coords) ==
  {n \in 0..MaxId : Unused(n, coords) /\ \A m \in 0..(n - 1) : ~Unused(m, coords)}

(***************************************************************************)
(* One tile in a frame: pre_update, add_prim_dependency for each           *)
(* primitive, update_content_validity                                      *)
(***************************************************************************)
Updated(old, x, s) ==
  LET rect == s.rect[x]
      clipped == Intersection(Intersection(rect, <<0, scene.size>>), scene.clip)
      prims == Selected(s.prims, {i \in DOMAIN s.prims : Meets(s.prims[i].rect, rect)})
      start == IF s.changed.fract \/ old.background # scene.background
               THEN rect ELSE old.dirty
      new == [old EXCEPT
                !.background = scene.background,
                !.opaque = Covers(s.backdrop.rect, clipped),
                !.prims = [i \in DOMAIN prims |-> Descriptor(prims[i], rect)],
                !.leaves = add_prim(prims, rect, Len(@)),
                !.dirty = Hull({start} \cup
                   {p.rect : p \in {q \in ToSet(prims) : ~is_cacheable(q)}})]
      dirty == update_dirty_rects(old, new, rect, s.changed)
  IN [new EXCEPT !.dirty = dirty, !.valid = @ /\ IsEmpty(dirty)]

(* A tile with primitives that is on screen is one of tiles_to_draw.       *)
ToDraw(tile, x, s) == tile.prims # <<>> /\ Meets(s.rect[x], s.screen)

(* The rest of Tile::post_update: a surface for a tile to draw             *)
Surfaced(old, tile, x, s) ==
  IF Len(tile.prims) = 1 /\ tile.opaque /\ ~Native
  THEN [tile EXCEPT !.surface = IF s.backdrop.kind = "Clear" THEN "Clear" ELSE "Color",
                    !.age = NoValue]
  ELSE CASE tile.surface = "Texture" -> tile
         [] tile.surface = "Native" ->
              IF tile.opaque = old.opaque THEN tile
              ELSE [tile EXCEPT !.dirty = s.rect[x], !.valid = FALSE]
         [] OTHER ->
              [tile EXCEPT !.surface = IF Native THEN "Native" ELSE "Texture",
                           !.age = NoValue]

(* take_context: is the surface to be drawn, and where                     *)
Evicted(tile) == tile.surface = "Texture" /\ tile.age = NoValue
Prepared(tile, x, s) ==
  IF Evicted(tile) THEN [tile EXCEPT !.valid = FALSE, !.dirty = s.rect[x]]
  ELSE tile
Taken(tile) ==
  [tile EXCEPT !.age = IF tile.surface = "Texture" THEN 0 ELSE NoValue,
               !.dirty = Nowhere, !.valid = TRUE]

Aged(tile) ==    \* Eviction::Eager, at the end of a frame without a request
  [tile EXCEPT !.age = IF @ \in {NoValue, 1} THEN NoValue ELSE @ + 1]
AllAged == [cache EXCEPT !.tiles = [x \in DOMAIN @ |-> Aged(@[x])]]

(* The tile as its frame carries it: where its picture task draws, what it *)
(* is to show, and, for the properties, where it can be seen.              *)
CompositeTile(tile, x, s) ==
  LET first == x * TILE_SIZE[s.size]
      all == first..(first + TILE_SIZE[s.size] - 1)
      Pixels(r) == {q \in all : Within(q \div view.scale, r)}
      clipped == Intersection(<<0, scene.size>>, scene.clip)
  IN [surface |-> tile.surface,
      task |-> ~tile.valid /\ tile.surface \in {"Texture", "Native"},
      drawn |-> Pixels(tile.dirty),
      fresh |-> Evicted(tile),
      visible |-> Pixels(clipped),
      look |-> [q \in all |-> Shown(q \div view.scale)]]

(***************************************************************************)
(* The renderer                                                            *)
(***************************************************************************)
NoFrame == [tiles |-> <<>>, created |-> {}, recreated |-> {}, destroyed |-> {},
            rendered |-> TRUE]

Tasks(f) == {id \in DOMAIN f.tiles : f.tiles[id].task}
MustBeDrawnNever(f) == FALSE
must_be_drawn(f) == Tasks(f) # {} /\ ~f.rendered

(* update_native_surfaces, whether the frame was rendered before or not    *)
surfacePanic(f) ==
  CASE ~(f.destroyed \cup f.recreated \subseteq allocated) ->
         "removing unknown surface"
    [] f.created \cap allocated # {} -> "creating existing surface"
    [] OTHER -> panic
update_native_surfaces(f) == (allocated \ f.destroyed) \cup f.created

(* draw_picture_cache_target, within the scissor rectangle of the task; a  *)
(* new surface or texture has none of the pixels that the old one had.     *)
Intact(f) == Restrict(pixels, DOMAIN pixels \ (f.created \cup f.recreated))
Drawn(f, id) ==
  LET tile == f.tiles[id]
      blank == tile.fresh \/ id \notin DOMAIN Intact(f)
  IN [q \in DOMAIN tile.look |->
        IF q \in tile.drawn THEN tile.look[q]
        ELSE IF blank THEN Blank ELSE pixels[id][q]]
draw_frame(f) ==
  LET tasks == IF f.rendered THEN {} ELSE Tasks(f)
  IN [id \in DOMAIN Intact(f) \cup tasks |->
        IF id \in tasks THEN Drawn(f, id) ELSE pixels[id]]

Render ==
  /\ panic = "no"
  /\ ~frame.rendered \/ Repeats
  /\ panic' = surfacePanic(frame)
  /\ allocated' = update_native_surfaces(frame)
  /\ pixels' = draw_frame(frame)
  /\ frame' = [frame EXCEPT !.rendered = TRUE]
  /\ UNCHANGED <<compositor, contentVars, cache, retained, changes, skipped>>

(* PublishDocument: the frame that new replaces is only drawn if it must   *)
(* be.  (Contents of surfaces that no tile has any more are forgotten.)    *)
Publish(new, kept) ==
  /\ frame' = new
  /\ IF must_be_drawn(frame)
     THEN /\ panic' = surfacePanic(frame)
          /\ allocated' = update_native_surfaces(frame)
          /\ pixels' = Restrict(draw_frame(frame),
                                 kept \cap DOMAIN draw_frame(frame))
     ELSE /\ pixels' = Restrict(pixels, kept \cap DOMAIN pixels)
          /\ UNCHANGED <<panic, allocated>>

(***************************************************************************)
(* Frames                                                                  *)
(***************************************************************************)
NextVideo == video' = IF \E p \in ToSet(scene.prims) : p.kind = "video"
                      THEN 1 - video ELSE video

(* A tile that wants to splits or merges its leaves; which want to depends *)
(* on how often they were dirty in the last 64 frames: here any may.       *)
Added(s) == s.coords \ DOMAIN s.tiles
Existing(s, next) ==
  [x \in s.coords |-> IF x \in Added(s) THEN NewTile(next + x) ELSE s.tiles[x]]
Finished(old, tile, x, s, wanting) ==
  Surfaced(old, IF x \in wanting THEN maybe_merge_or_split(tile, s.rect[x])
                ELSE tile, x, s)

(* The tile cache as the next frame finds it                               *)
NextCache(s, updated, finished) ==
  [tiles |-> [x \in s.coords |-> IF x \in DOMAIN finished THEN Taken(finished[x])
                                ELSE Aged(updated[x])],
   fract |-> view.fract,
   turn |-> IF \E p \in ToSet(s.prims) : p.turned THEN turn ELSE NoValue,
   fade |-> fade,
   size |-> s.size]

(* The frame, and the operations on native surfaces it tells the renderer  *)
NewFrame(s, old, finished) ==
  LET Id(X) == {old[x].id : x \in X}
      native == {x \in DOMAIN finished : finished[x].surface = "Native"}
      At(id) == CHOOSE x \in DOMAIN finished : old[x].id = id
  IN [tiles |-> [id \in Id(DOMAIN finished) |->
                   CompositeTile(Prepared(finished[At(id)], At(id), s), At(id), s)],
      created |-> Id({x \in native : old[x].surface = "None"}),
      recreated |-> Id({x \in native : /\ old[x].surface = "Native"
                                       /\ old[x].opaque # finished[x].opaque}),
      destroyed |-> s.dropped,
      rendered |-> FALSE]

(* take_context for the tiles to draw                                      *)
BuildTiles(s, old, updated, finished) ==
  /\ cache' = NextCache(s, updated, finished)
  /\ retained' = NewCache
  /\ image' = [image EXCEPT !.dirty = @ /\ ~s.changed.image]
  /\ skipped' = (skipped /\ ~s.changed.image)
  /\ Publish(NewFrame(s, old, finished), {old[x].id : x \in s.coords})
  /\ NextVideo
  /\ UNCHANGED <<compositor, scene, view, turn, fade, changes>>

(* update_visibility, then take_context.  (A \E v \in {e} only names the   *)
(* value of e.)                                                            *)
BuildFrame ==
  /\ panic = "no" /\ view.flat
  /\ \E s \in {Slice} :
     \E next \in FirstUnused(Added(s)) :
     \E old \in {Existing(s, next)} :
     \E updated \in {[x \in s.coords |-> Updated(old[x], x, s)]} :
     \E toDraw \in {{x \in s.coords : ToDraw(updated[x], x, s)}} :
     \E wanting \in (IF compositor = "NativeWhole" THEN {{}} ELSE SUBSET toDraw) :
     \E finished \in {[x \in toDraw |->
                         Finished(old[x], updated[x], x, s, wanting)]} :
       BuildTiles(s, old, updated, finished)

(* A slice that is not in the root coordinate system is drawn like any     *)
(* other picture.  Tiles retained from the scene before are given up.      *)
BuildFrameWithoutTiles ==
  LET screen == <<view.at, view.at + Screen>>
      requested == \E p \in ToSet(scene.prims) :
                     p.kind = "image" /\ Meets(p.clip, screen)
      given == {x \in DOMAIN retained.tiles :
                  retained.tiles[x].surface = "Native"}
  IN /\ panic = "no" /\ ~view.flat
     /\ cache' = AllAged
     /\ retained' = NewCache
     /\ image' = [image EXCEPT !.dirty = @ /\ ~requested]
     /\ skipped' = (skipped \/ (image.dirty /\ requested))
     /\ NextVideo
     /\ Publish([NoFrame EXCEPT !.destroyed = {retained.tiles[x].id : x \in given},
                                !.rendered = FALSE],
                 {cache.tiles[x].id : x \in DOMAIN cache.tiles})
     /\ UNCHANGED <<compositor, scene, view, turn, fade, changes>>

(***************************************************************************)
(* What changes between frames                                             *)
(***************************************************************************)
Change ==
  /\ panic = "no" /\ changes < MaxChanges
  /\ changes' = changes + 1
  /\ UNCHANGED <<compositor, rendererVars, skipped>>

(* new_async_scene_ready: PicturePrimitive::destroy gives up the tiles to  *)
(* RetainedTiles, merged with those no frame has claimed yet.              *)
SceneReady(new) ==
  /\ Change
  /\ scene' = new
  /\ panic' = IF retained.tiles # <<>> /\ cache.tiles # <<>>
              THEN "merging retained tiles" ELSE panic
  /\ retained' = IF retained.tiles = <<>> /\ cache.tiles # <<>>
                 THEN cache ELSE retained
  /\ cache' = NewCache
  /\ UNCHANGED <<view, turn, fade, image, video>>

(* Scrolling, zooming and animation, in a transaction or by an OS event    *)
SetView(new) ==
  /\ Change /\ new # view
  /\ view' = new
  /\ UNCHANGED <<scene, turn, fade, image, video, cache, retained, panic>>

SetTurn ==
  /\ Change
  /\ turn' = 1 - turn
  /\ UNCHANGED <<scene, view, fade, image, video, cache, retained, panic>>

SetFade(value) ==
  /\ Change /\ value # fade
  /\ fade' = value
  /\ UNCHANGED <<scene, view, turn, image, video, cache, retained, panic>>

UpdateImage ==
  /\ Change
  /\ image' = [version |-> 1 - image.version, dirty |-> TRUE]
  /\ UNCHANGED <<scene, view, turn, fade, video, cache, retained, panic>>


(* clear_all, or an allocation under memory pressure                       *)
ClearTextures ==
  /\ Change /\ ~Native
  /\ cache' = [cache EXCEPT !.tiles =
                 [x \in DOMAIN @ |-> [@[x] EXCEPT !.age = NoValue]]]
  /\ retained' = [retained EXCEPT !.tiles =
                    [x \in DOMAIN @ |-> [@[x] EXCEPT !.age = NoValue]]]
  /\ UNCHANGED <<contentVars, panic>>

Init ==
  /\ compositor \in Compositors
  /\ scene \in Scenes /\ view \in Views
  /\ turn = 0 /\ fade = NoValue /\ video = 0
  /\ image = [version |-> 0, dirty |-> TRUE]
  /\ cache = NewCache /\ retained = NewCache
  /\ frame = NoFrame /\ pixels = <<>> /\ allocated = {}
  /\ changes = 0 /\ skipped = FALSE /\ panic = "no"

Next ==
  \/ BuildFrame
  \/ BuildFrameWithoutTiles
  \/ Render
  \/ \E new \in Scenes : SceneReady(new)
  \/ \E new \in Views : SetView(new)
  \/ SetTurn
  \/ \E value \in Values : SetFade(value)
  \/ UpdateImage
  \/ ClearTextures

Spec == Init /\ [][Next]_vars

-----------------------------------------------------------------------------
(* No assertion about retained tiles or native surfaces fails.  TLC        *)
(* refutes it with Repeats: every render applies the native surface        *)
(* updates of the frame, not only the first (renderer.rs:4888).            *)
NoPanic == panic = "no"

(* A frame that was rendered shows, wherever a tile can be seen, what its  *)
(* scene and the state of its animations and images ask for, although most *)
(* of it was drawn in frames before, some of which were never presented; a *)
(* tile without a surface has nothing to show but the one backdrop.        *)
(* Not counted is an image uploaded while the slice had no tiles; and TLC  *)
(* refutes it with views of two scales, which picture.rs:1484 does not     *)
(* compare.                                                                *)
SameLook(l, m) ==
  /\ l.uid = m.uid /\ l.turn = m.turn /\ l.fade = m.fade /\ l.video = m.video
  /\ skipped \/ l.image = m.image
LooksLike(a, b) ==
  /\ a.background = b.background /\ a.fract = b.fract /\ a.scale = b.scale
  /\ \A l \in a.prims : \E m \in b.prims : SameLook(l, m)
  /\ \A m \in b.prims : \E l \in a.prims : SameLook(l, m)
ShowsItsScene(id) ==
  LET tile == frame.tiles[id]
  IN IF tile.surface \in {"Texture", "Native"}
     THEN /\ id \in DOMAIN pixels
          /\ \A q \in tile.visible : LooksLike(pixels[id][q], tile.look[q])
     ELSE \A q \in tile.visible : Cardinality(tile.look[q].prims) = 1
TilesAreCurrent == frame.rendered => \A id \in DOMAIN frame.tiles : ShowsItsScene(id)
=============================================================================
