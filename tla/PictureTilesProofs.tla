------------------------- MODULE PictureTilesProofs -------------------------
(***************************************************************************)
(* Native surfaces are created and destroyed once (PictureTiles), whatever *)
(* the scenes, the views and the order of frames, renders and scene swaps, *)
(* as long as no frame is rendered twice.                                  *)
(*                                                                         *)
(* The frame builder believes in surfaces that the renderer will have when *)
(* it has drawn the frame, and a frame that is replaced may never be.  The *)
(* invariant therefore says which surfaces there will be after the frame   *)
(* in the renderer, and that a frame with operations a tile relies on is   *)
(* one that must be drawn.                                                 *)
(*                                                                         *)
(* And the tiles of a frame that was rendered show what they should        *)
(* (TilesShown).  Again the invariant is about what there will be after    *)
(* the frame in the renderer: at each pixel of a tile that is not marked   *)
(* dirty, its content agrees with what the cache recorded of the tile, the *)
(* primitives it was last seen with and the values they depend on.  So     *)
(* what an update finds unchanged looks as the scene asks, and the rest is *)
(* drawn.                                                                  *)
(***************************************************************************)
EXTENDS PictureTiles, FiniteSetTheorems, NaturalsInduction, SequenceTheorems,
        WellFoundedInduction, TLAPS

(* The surfaces there are once the frame has been drawn                    *)
Future ==
  IF frame.rendered THEN allocated
  ELSE (allocated \ frame.destroyed) \cup frame.created

Surfaces == IF Native THEN {"None", "Native"}
            ELSE {"None", "Texture", "Color", "Clear"}

TileFields == {"id", "surface", "age", "valid", "dirty", "opaque", "background",
               "prims", "leaves"}
IsTile(t) ==
  /\ DOMAIN t = TileFields
  /\ t.surface \in Surfaces
  /\ t.surface = "None" => t.valid = FALSE

TileOK(t) ==
  /\ IsTile(t)
  /\ t.surface = "Native" => t.id \in Future
  /\ t.surface # "Native" => t.id \notin allocated \cup frame.created

Distinct(tiles) ==
  \A x, y \in DOMAIN tiles : x # y => tiles[x].id # tiles[y].id

TilesOK(tiles) == Distinct(tiles) /\ \A x \in DOMAIN tiles : TileOK(tiles[x])

FrameOK ==
  /\ frame.rendered \in BOOLEAN
  /\ DOMAIN frame = {"tiles", "created", "recreated", "destroyed", "rendered"}
  /\ ~frame.rendered =>
       /\ frame.created \cap allocated = {}
       /\ frame.destroyed \cup frame.recreated \subseteq allocated
       /\ frame.created \cup frame.recreated # {} => Tasks(frame) # {}

CachesOK ==
  /\ "tiles" \in DOMAIN cache /\ "tiles" \in DOMAIN retained
  /\ cache.tiles = <<>> \/ retained.tiles = <<>>
  /\ TilesOK(cache.tiles) /\ TilesOK(retained.tiles)

TilesInv == panic = "no" /\ FrameOK /\ CachesOK

-----------------------------------------------------------------------------
(* A row of no tiles stays one.                                            *)
LEMMA NoTiles ==
  ASSUME NEW f, NEW Op(_), f = <<>>
  PROVE  [x \in DOMAIN f |-> Op(x)] = <<>>
  OBVIOUS

(* What becomes of one tile in a frame.                                    *)
LEMMA UpdatedTile ==
  ASSUME NEW old, NEW x, NEW s, IsTile(old)
  PROVE  /\ IsTile(Updated(old, x, s))
         /\ Updated(old, x, s).id = old.id
         /\ Updated(old, x, s).surface = old.surface
  BY DEF IsTile, TileFields, Updated

LEMMA AgedTile ==
  ASSUME NEW tile, IsTile(tile)
  PROVE  /\ IsTile(Aged(tile))
         /\ Aged(tile).id = tile.id
         /\ Aged(tile).surface = tile.surface
  BY DEF IsTile, TileFields, Aged

LEMMA SplitTile ==
  ASSUME NEW tile, NEW rect, IsTile(tile)
  PROVE  /\ IsTile(maybe_merge_or_split(tile, rect))
         /\ \A f \in TileFields \ {"leaves"} :
              maybe_merge_or_split(tile, rect)[f] = tile[f]
  BY DEF IsTile, TileFields, maybe_merge_or_split

(* A tile to draw has a surface, and one that is new or changes its        *)
(* opacity is to be drawn.                                                 *)
IsFinished(old, new) ==
  /\ IsTile(new)
  /\ new.id = old.id
  /\ new.surface # "None"
  /\ Native /\ (old.surface = "None" \/ new.opaque # old.opaque)
       => new.valid = FALSE

LEMMA SurfacedTile ==
  ASSUME NEW old, NEW tile, NEW x, NEW s, IsTile(old), IsTile(tile),
         tile.id = old.id, tile.surface = old.surface
  PROVE  IsFinished(old, Surfaced(old, tile, x, s))
  <1>1. CASE ~Native
    BY <1>1 DEF Surfaced, IsFinished, IsTile, TileFields, Surfaces
  <1>2. CASE Native
    <2>1. CASE tile.surface = "None"
      BY <1>2, <2>1 DEF Surfaced, IsFinished, IsTile, TileFields, Surfaces
    <2>2. CASE tile.surface = "Native"
      BY <1>2, <2>2 DEF Surfaced, IsFinished, IsTile, TileFields, Surfaces
    <2> QED  BY <1>2, <2>1, <2>2 DEF IsTile, Surfaces
  <1> QED  BY <1>1, <1>2

LEMMA FinishedTile ==
  ASSUME NEW old, NEW x, NEW s, NEW wanting, IsTile(old)
  PROVE  IsFinished(old, Finished(old, Updated(old, x, s), x, s, wanting))
  <1> DEFINE u == Updated(old, x, s)
             m == IF x \in wanting THEN maybe_merge_or_split(u, s.rect[x]) ELSE u
  <1>1. IsTile(u) /\ u.id = old.id /\ u.surface = old.surface
    BY UpdatedTile
  <1> HIDE DEF u
  <1>2. IsTile(m) /\ m.id = old.id /\ m.surface = old.surface
    BY <1>1, SplitTile DEF TileFields
  <1>3. Finished(old, u, x, s, wanting) = Surfaced(old, m, x, s)
    BY DEF Finished
  <1> HIDE DEF m
  <1>4. IsFinished(old, Surfaced(old, m, x, s))
    BY <1>2, SurfacedTile
  <1> QED  BY <1>3, <1>4 DEF u

LEMMA TakenTile ==
  ASSUME NEW tile, IsTile(tile), tile.surface # "None"
  PROVE  /\ IsTile(Taken(tile))
         /\ Taken(tile).id = tile.id
         /\ Taken(tile).surface = tile.surface
  BY DEF IsTile, TileFields, Taken

(* A frame that is drawn meets the surfaces it was built for, and one that *)
(* is replaced without has nothing to say about those of any tile.         *)
LEMMA Published ==
  ASSUME TilesInv, NEW new, NEW kept, Publish(new, kept)
  PROVE  /\ panic' = "no"
         /\ Future \subseteq allocated'
         /\ allocated' \subseteq allocated \cup frame.created
  BY DEF TilesInv, FrameOK, Publish, must_be_drawn, surfacePanic,
         update_native_surfaces, Future
(* The tiles that a slice starts from, and those it gives up.              *)
Base == IF retained.tiles # <<>> THEN retained ELSE cache

LEMMA SliceTiles ==
  /\ Slice.coords \subseteq Int
  /\ \A x \in DOMAIN Slice.tiles :
       x \in DOMAIN Base.tiles /\ Slice.tiles[x] = Base.tiles[x]
  /\ \A id \in Slice.dropped :
       \E y \in DOMAIN Base.tiles :
         /\ id = Base.tiles[y].id /\ Base.tiles[y].surface = "Native"
         /\ y \notin Slice.coords \cap DOMAIN Slice.tiles
  <1>1. Slice.coords \subseteq Int
    BY DEF Slice
  <1>2. Slice.tiles = Base.tiles \/ Slice.tiles = <<>>
    BY DEF Slice, Base
  <1>3. \A id \in Slice.dropped :
          \E y \in DOMAIN Base.tiles :
            /\ id = Base.tiles[y].id /\ Base.tiles[y].surface = "Native"
            /\ Slice.tiles = <<>> \/ y \notin Slice.coords
    <2> DEFINE size == IF scene.size < 2 * TILE_SIZE.small THEN "small" ELSE "large"
               lost == {y \in DOMAIN Base.tiles :
                          /\ Base.tiles[y].surface = "Native"
                          /\ size # Base.size \/ y \notin Slice.coords}
    <2>1. Slice.dropped = {Base.tiles[y].id : y \in lost}
      BY DEF Slice, Base
    <2>2. Slice.tiles = IF size = Base.size THEN Base.tiles ELSE <<>>
      BY DEF Slice, Base
    <2> HIDE DEF size
    <2> QED  BY <2>1, <2>2
  <1>4. DOMAIN <<>> = {}
    OBVIOUS
  <1>5. \A x \in DOMAIN Slice.tiles :
          x \in DOMAIN Base.tiles /\ Slice.tiles[x] = Base.tiles[x]
    BY <1>2, <1>4
  <1>6. ASSUME NEW id \in Slice.dropped
        PROVE  \E y \in DOMAIN Base.tiles :
                 /\ id = Base.tiles[y].id /\ Base.tiles[y].surface = "Native"
                 /\ y \notin Slice.coords \cap DOMAIN Slice.tiles
    <2>1. PICK y \in DOMAIN Base.tiles :
            /\ id = Base.tiles[y].id /\ Base.tiles[y].surface = "Native"
            /\ Slice.tiles = <<>> \/ y \notin Slice.coords
      BY <1>3
    <2>2. y \notin Slice.coords \cap DOMAIN Slice.tiles
      BY <1>4, <2>1
    <2> QED  BY <2>1, <2>2
  <1> QED  BY <1>1, <1>5, <1>6

LEMMA ExistingTiles ==
  ASSUME TilesInv, NEW s, s = Slice, NEW next \in FirstUnused(Added(s))
  PROVE  /\ DOMAIN Existing(s, next) = s.coords
         /\ TilesOK(Existing(s, next))
         /\ \A x \in s.coords :
              Existing(s, next)[x].surface = "Native"
                => Existing(s, next)[x].id \notin s.dropped
  <1> DEFINE old == Existing(s, next)
  <1>1. TilesOK(Base.tiles) /\ Base \in {cache, retained}
    BY DEF TilesInv, CachesOK, Base
  <1>2. \A x \in s.coords \cap DOMAIN s.tiles :
          x \in DOMAIN Base.tiles /\ old[x] = Base.tiles[x]
    BY SliceTiles DEF Existing, Added
  <1>3. \A x \in Added(s) : old[x] = NewTile(next + x)
    BY DEF Existing, Added
  <1>4. s.coords \subseteq Int /\ next \in Int
    BY SliceTiles DEF FirstUnused
  <1>5. DOMAIN old = s.coords /\ Added(s) = s.coords \ DOMAIN s.tiles
    BY DEF Existing, Added
  <1> HIDE DEF old
  <1>6. \A x \in Added(s) :
          /\ TileOK(old[x]) /\ old[x].surface = "None"
          /\ old[x].id = next + x /\ old[x].id \notin TileIds
    <2> TAKE x \in Added(s)
    <2>1. /\ DOMAIN old[x] = TileFields
          /\ old[x].id = next + x
          /\ old[x].surface = "None"
          /\ old[x].valid = FALSE
      <3>1. old[x] = NewTile(next + x)
        BY <1>3
      <3>2. DOMAIN NewTile(next + x) = TileFields
        BY DEF NewTile, TileFields
      <3>3. /\ NewTile(next + x).id = next + x
            /\ NewTile(next + x).surface = "None"
            /\ NewTile(next + x).valid = FALSE
        BY DEF NewTile
      <3> QED  BY <3>1, <3>2, <3>3
    <2>2. next + x \notin UsedIds
      BY DEF FirstUnused, Unused
    <2> QED  BY <2>1, <2>2 DEF UsedIds, TileOK, IsTile, Surfaces
  <1>7. \A x \in DOMAIN Base.tiles : Base.tiles[x].id \in TileIds
    BY <1>1 DEF TileIds
  <1>8. Distinct(old)
    <2> SUFFICES ASSUME NEW x \in s.coords, NEW y \in s.coords, x # y
                 PROVE  old[x].id # old[y].id
      BY <1>5 DEF Distinct
    <2>1. CASE x \in Added(s) /\ y \in Added(s)
      <3>1. x \in Int /\ y \in Int /\ next \in Int
        BY <1>4
      <3>2. next + x # next + y
        BY <3>1
      <3> QED  BY <2>1, <3>2, <1>6
    <2>2. CASE x \in Added(s) /\ y \notin Added(s)
      BY <2>2, <1>2, <1>5, <1>6, <1>7
    <2>3. CASE x \notin Added(s) /\ y \in Added(s)
      BY <2>3, <1>2, <1>5, <1>6, <1>7
    <2>4. CASE x \notin Added(s) /\ y \notin Added(s)
      BY <2>4, <1>1, <1>2, <1>5 DEF TilesOK, Distinct
    <2> QED  BY <2>1, <2>2, <2>3, <2>4
  <1>9. \A x \in s.coords : TileOK(old[x])
    BY <1>1, <1>2, <1>5, <1>6 DEF TilesOK
  <1>10. ASSUME NEW x \in s.coords, old[x].surface = "Native"
         PROVE  old[x].id \notin s.dropped
    <2>1. x \in DOMAIN s.tiles /\ x \in DOMAIN Base.tiles /\ old[x] = Base.tiles[x]
      BY <1>10, <1>2, <1>5, <1>6
    <2> QED  BY <2>1, <1>1, SliceTiles DEF TilesOK, Distinct
  <1> QED  BY <1>5, <1>8, <1>9, <1>10 DEF TilesOK, old

(* What the new frame does to surfaces, and that it must be drawn if a     *)
(* tile relies on it.                                                      *)
OperationsOK(f, old, finished) ==
  /\ DOMAIN f = {"tiles", "created", "recreated", "destroyed", "rendered"}
  /\ f.rendered = FALSE
  /\ \A id \in f.created : \E x \in DOMAIN finished :
       /\ id = old[x].id /\ old[x].surface = "None"
       /\ finished[x].surface = "Native"
  /\ \A x \in DOMAIN finished :
       old[x].surface = "None" /\ finished[x].surface = "Native"
         => old[x].id \in f.created
  /\ \A id \in f.recreated : \E x \in DOMAIN finished :
       id = old[x].id /\ old[x].surface = "Native"
  /\ f.created \cup f.recreated # {} => Tasks(f) # {}

LEMMA NewFrameOK ==
  ASSUME NEW s, NEW old, Distinct(old), NEW finished,
         DOMAIN finished \subseteq DOMAIN old,
         \A x \in DOMAIN finished : IsFinished(old[x], finished[x])
  PROVE  OperationsOK(NewFrame(s, old, finished), old, finished)
  <1> DEFINE f == NewFrame(s, old, finished)
             At(id) == CHOOSE x \in DOMAIN finished : old[x].id = id
  <1>1. /\ DOMAIN f = {"tiles", "created", "recreated", "destroyed", "rendered"}
        /\ f.rendered = FALSE
    BY DEF NewFrame
  <1>2. \A id \in f.created : \E x \in DOMAIN finished :
          /\ id = old[x].id /\ old[x].surface = "None"
          /\ finished[x].surface = "Native"
    BY DEF NewFrame
  <1>3. \A x \in DOMAIN finished :
          old[x].surface = "None" /\ finished[x].surface = "Native"
            => old[x].id \in f.created
    BY DEF NewFrame
  <1>4. \A id \in f.recreated : \E x \in DOMAIN finished :
          /\ id = old[x].id /\ old[x].surface = "Native"
          /\ finished[x].surface = "Native" /\ old[x].opaque # finished[x].opaque
    BY DEF NewFrame
  <1>5. \A x \in DOMAIN finished :
          /\ old[x].id \in DOMAIN f.tiles
          /\ f.tiles[old[x].id] = CompositeTile(Prepared(finished[At(old[x].id)],
                                                         At(old[x].id), s),
                                                At(old[x].id), s)
    BY DEF NewFrame
  <1>6. \A x \in DOMAIN finished : At(old[x].id) = x
    BY DEF Distinct
  <1>7. ASSUME NEW id \in f.created \cup f.recreated
        PROVE  id \in Tasks(f)
    <2>1. PICK x \in DOMAIN finished :
            /\ id = old[x].id /\ finished[x].surface = "Native"
            /\ old[x].surface = "None" \/ finished[x].opaque # old[x].opaque
      BY <1>2, <1>4
    <2>2. Native /\ finished[x].valid = FALSE
      BY <2>1 DEF IsFinished, IsTile, Surfaces
    <2>3. Prepared(finished[x], x, s) = finished[x]
      BY <2>1 DEF Prepared, Evicted
    <2>4. CompositeTile(finished[x], x, s).task = TRUE
      BY <2>1, <2>2 DEF CompositeTile
    <2>5. id \in DOMAIN f.tiles /\ f.tiles[id].task = TRUE
      BY <2>1, <1>5, <1>6, <2>3, <2>4
    <2> QED  BY <2>5 DEF Tasks
  <1> QED  BY <1>1, <1>2, <1>3, <1>4, <1>7 DEF OperationsOK

-----------------------------------------------------------------------------
LEMMA InitOK == Init => TilesInv
  BY DEF Init, TilesInv, FrameOK, NoFrame, CachesOK, NewCache, TilesOK, Distinct

LEMMA RenderOK == TilesInv /\ Render /\ ~Repeats => TilesInv'
  <1> SUFFICES ASSUME TilesInv, Render, ~Repeats  PROVE TilesInv'
    OBVIOUS
  <1>1. frame.rendered = FALSE /\ panic' = "no"
    BY DEF TilesInv, FrameOK, Render, surfacePanic
  <1>2. FrameOK' /\ frame'.rendered = TRUE /\ frame'.created = frame.created
    BY DEF TilesInv, FrameOK, Render
  <1>3. Future' = Future /\ allocated' \subseteq allocated \cup frame.created
    BY <1>1, <1>2 DEF Future, Render, update_native_surfaces
  <1>4. cache' = cache /\ retained' = retained /\ compositor' = compositor
    BY DEF Render
  <1>5. CachesOK'
    BY <1>2, <1>3, <1>4 DEF TilesInv, CachesOK, TilesOK, Distinct, TileOK, IsTile,
                            Surfaces, Native
  <1> QED  BY <1>1, <1>2, <1>5 DEF TilesInv

LEMMA BuildFrameOK == TilesInv /\ BuildFrame => TilesInv'
  <1> SUFFICES ASSUME TilesInv, BuildFrame  PROVE TilesInv'
    OBVIOUS
  <1>1. PICK s, next, old, updated, toDraw, wanting, finished :
          /\ s = Slice
          /\ next \in FirstUnused(Added(s))
          /\ old = Existing(s, next)
          /\ updated = [x \in s.coords |-> Updated(old[x], x, s)]
          /\ toDraw = {x \in s.coords : ToDraw(updated[x], x, s)}
          /\ finished = [x \in toDraw |-> Finished(old[x], updated[x], x, s, wanting)]
          /\ BuildTiles(s, old, updated, finished)
    BY DEF BuildFrame
  <1> DEFINE f == NewFrame(s, old, finished)
  <1>2. /\ DOMAIN old = s.coords /\ TilesOK(old)
        /\ \A x \in s.coords : old[x].surface = "Native" => old[x].id \notin s.dropped
    BY <1>1, ExistingTiles
  <1>3. toDraw \subseteq s.coords /\ DOMAIN finished = toDraw
    BY <1>1
  <1>4. \A x \in s.coords :
          /\ IsTile(Aged(updated[x]))
          /\ Aged(updated[x]).id = old[x].id
          /\ Aged(updated[x]).surface = old[x].surface
    BY <1>1, <1>2, UpdatedTile, AgedTile DEF TilesOK, TileOK
  <1>5. \A x \in toDraw : IsFinished(old[x], finished[x])
    BY <1>1, <1>2, <1>3, FinishedTile DEF TilesOK, TileOK
  <1>6. \A x \in toDraw :
          /\ IsTile(Taken(finished[x]))
          /\ Taken(finished[x]).id = old[x].id
          /\ Taken(finished[x]).surface = finished[x].surface
    BY <1>5, TakenTile DEF IsFinished
  <1>7. OperationsOK(f, old, finished)
    BY <1>2, <1>3, <1>5, NewFrameOK DEF TilesOK
  <1>8. f.destroyed = s.dropped
    BY DEF NewFrame
  <1>9. \A id \in s.dropped : id \in Future
    BY <1>1, SliceTiles DEF TilesInv, CachesOK, Base, TilesOK, TileOK
  <1>10. frame' = f
    BY <1>1 DEF BuildTiles, Publish
  <1>11. /\ panic' = "no" /\ Future \subseteq allocated'
         /\ allocated' \subseteq allocated \cup frame.created
    BY <1>1, Published DEF BuildTiles
  <1> HIDE DEF f
  <1>12. Future' = (allocated' \ s.dropped) \cup f.created
    BY <1>7, <1>8, <1>10 DEF Future, OperationsOK
  <1>13. f.created \cap (allocated \cup frame.created) = {}
    BY <1>2, <1>3, <1>7 DEF OperationsOK, TilesOK, TileOK
  <1>14. f.recreated \subseteq Future
    BY <1>2, <1>3, <1>7 DEF OperationsOK, TilesOK, TileOK
  <1>15. FrameOK'
    BY <1>7, <1>8, <1>9, <1>10, <1>11, <1>13, <1>14 DEF FrameOK, OperationsOK, Tasks
  <1>16. Surfaces' = Surfaces
    BY <1>1 DEF BuildTiles, Surfaces, Native
  <1>17. /\ "tiles" \in DOMAIN cache' /\ DOMAIN cache'.tiles = s.coords
         /\ \A x \in toDraw : cache'.tiles[x] = Taken(finished[x])
         /\ \A x \in s.coords \ toDraw : cache'.tiles[x] = Aged(updated[x])
    BY <1>1, <1>3 DEF BuildTiles, NextCache
  <1>18. "tiles" \in DOMAIN retained' /\ retained'.tiles = <<>>
    BY <1>1 DEF BuildTiles, NewCache
  <1>19. \A x \in s.coords : cache'.tiles[x].id = old[x].id
    BY <1>3, <1>4, <1>6, <1>17
  <1>20. ASSUME NEW x \in toDraw  PROVE TileOK(cache.tiles[x])'
    <2> DEFINE t == Taken(finished[x])
    <2>1. TileOK(old[x]) /\ x \in s.coords
      BY <1>2, <1>3 DEF TilesOK
    <2>2. /\ IsTile(t) /\ t.id = old[x].id /\ t.surface = finished[x].surface
          /\ t.surface # "None"
      BY <1>5, <1>6 DEF IsFinished
    <2> HIDE DEF t
    <2>3. CASE Native
      <3>1. t.surface = "Native"
        BY <2>2, <2>3 DEF IsTile, Surfaces
      <3>2. old[x].surface \in {"None", "Native"}
        BY <2>1, <2>3 DEF TileOK, IsTile, Surfaces
      <3>3. t.id \in Future'
        <4>1. CASE old[x].surface = "None"
          BY <4>1, <2>2, <3>1, <1>3, <1>7, <1>12 DEF OperationsOK
        <4>2. CASE old[x].surface = "Native"
          BY <4>2, <2>1, <2>2, <1>2, <1>11, <1>12 DEF TileOK
        <4> QED  BY <3>2, <4>1, <4>2
      <3> QED  BY <1>16, <1>17, <2>2, <3>1, <3>3 DEF TileOK, IsTile, t
    <2>4. CASE ~Native
      <3>1. t.surface # "Native" /\ old[x].surface # "Native"
        BY <2>1, <2>2, <2>4 DEF TileOK, IsTile, Surfaces
      <3>2. f.created = {}
        BY <1>3, <1>5, <1>7, <2>4 DEF OperationsOK, IsFinished, IsTile, Surfaces
      <3>3. t.id \notin allocated' \cup frame'.created
        BY <1>10, <1>11, <2>1, <2>2, <3>1, <3>2 DEF TileOK
      <3> QED  BY <1>16, <1>17, <2>2, <3>1, <3>3 DEF TileOK, IsTile, t
    <2> QED  BY <2>3, <2>4
  <1>21. ASSUME NEW x \in s.coords \ toDraw  PROVE TileOK(cache.tiles[x])'
    <2> DEFINE t == Aged(updated[x])
    <2>1. TileOK(old[x])
      BY <1>2 DEF TilesOK
    <2>2. IsTile(t) /\ t.id = old[x].id /\ t.surface = old[x].surface
      BY <1>4
    <2> HIDE DEF t
    <2>3. t.surface = "Native" => t.id \in Future'
      BY <1>2, <1>11, <1>12, <2>1, <2>2 DEF TileOK
    <2>4. old[x].id \notin f.created
      BY <1>2, <1>3, <1>7 DEF OperationsOK, TilesOK, Distinct
    <2>5. t.surface # "Native" => t.id \notin allocated' \cup frame'.created
      BY <1>10, <1>11, <2>1, <2>2, <2>4 DEF TileOK
    <2> QED  BY <1>16, <1>17, <2>2, <2>3, <2>5 DEF TileOK, IsTile, t
  <1>22. TilesOK(cache.tiles)'
    BY <1>2, <1>17, <1>19, <1>20, <1>21 DEF TilesOK, Distinct
  <1> QED  BY <1>11, <1>15, <1>17, <1>18, <1>22 DEF TilesInv, CachesOK, TilesOK, Distinct

LEMMA BuildFrameWithoutTilesOK == TilesInv /\ BuildFrameWithoutTiles => TilesInv'
  <1> SUFFICES ASSUME TilesInv, BuildFrameWithoutTiles  PROVE TilesInv'
    OBVIOUS
  <1> DEFINE given == {x \in DOMAIN retained.tiles : retained.tiles[x].surface = "Native"}
             f == [NoFrame EXCEPT !.destroyed = {retained.tiles[x].id : x \in given},
                                  !.rendered = FALSE]
             kept == {cache.tiles[x].id : x \in DOMAIN cache.tiles}
  <1>1. /\ cache' = AllAged /\ retained' = NewCache /\ compositor' = compositor
        /\ Publish(f, kept)
    BY DEF BuildFrameWithoutTiles
  <1>2. /\ DOMAIN f = {"tiles", "created", "recreated", "destroyed", "rendered"}
        /\ f.created = {} /\ f.recreated = {} /\ f.rendered = FALSE
        /\ f.destroyed = {retained.tiles[x].id : x \in given}
    BY DEF NoFrame
  <1> HIDE DEF f, kept
  <1>3. frame' = f
    BY <1>1 DEF Publish
  <1>4. /\ panic' = "no" /\ Future \subseteq allocated'
        /\ allocated' \subseteq allocated \cup frame.created
    BY <1>1, Published
  <1>5. f.destroyed \subseteq Future
    BY <1>2 DEF TilesInv, CachesOK, TilesOK, TileOK
  <1>6. FrameOK'
    BY <1>2, <1>3, <1>4, <1>5 DEF FrameOK, Tasks
  <1>7. Future' = allocated' \ f.destroyed
    BY <1>2, <1>3 DEF Future
  <1>8. Surfaces' = Surfaces
    BY <1>1 DEF Surfaces, Native
  <1>9. /\ "tiles" \in DOMAIN cache' /\ DOMAIN cache'.tiles = DOMAIN cache.tiles
        /\ \A x \in DOMAIN cache.tiles : cache'.tiles[x] = Aged(cache.tiles[x])
    BY <1>1 DEF AllAged, TilesInv, CachesOK
  <1>10. \A x \in DOMAIN cache.tiles :
           /\ IsTile(cache'.tiles[x])
           /\ cache'.tiles[x].id = cache.tiles[x].id
           /\ cache'.tiles[x].surface = cache.tiles[x].surface
    BY <1>9, AgedTile DEF TilesInv, CachesOK, TilesOK, TileOK
  <1>11. \A x \in DOMAIN cache.tiles : cache.tiles[x].id \notin f.destroyed
    BY <1>2, NoTiles DEF TilesInv, CachesOK
  <1>12. \A x \in DOMAIN cache.tiles : TileOK(cache.tiles[x])'
    <2> TAKE x \in DOMAIN cache.tiles
    <2>1. TileOK(cache.tiles[x])
      BY DEF TilesInv, CachesOK, TilesOK
    <2>2. cache'.tiles[x].surface = "Native" => cache'.tiles[x].id \in Future'
      BY <1>4, <1>7, <1>10, <1>11, <2>1 DEF TileOK
    <2>3. cache'.tiles[x].surface # "Native"
            => cache'.tiles[x].id \notin allocated' \cup frame'.created
      BY <1>2, <1>3, <1>4, <1>10, <2>1 DEF TileOK
    <2> QED  BY <1>8, <1>10, <2>2, <2>3 DEF TileOK, IsTile
  <1>13. TilesOK(cache.tiles)'
    BY <1>9, <1>10, <1>12 DEF TilesInv, CachesOK, TilesOK, Distinct
  <1>14. "tiles" \in DOMAIN retained' /\ retained'.tiles = <<>>
    BY <1>1 DEF NewCache
  <1> QED  BY <1>4, <1>6, <1>9, <1>13, <1>14 DEF TilesInv, CachesOK, TilesOK, Distinct

LEMMA SceneReadyOK ==
  ASSUME TilesInv, NEW new \in Scenes, SceneReady(new)  PROVE TilesInv'
  <1>1. UNCHANGED <<frame, allocated, compositor>> /\ panic' = "no"
    BY DEF SceneReady, Change, rendererVars, TilesInv, CachesOK
  <1>2. /\ cache' = NewCache
        /\ retained' = cache \/ retained' = retained
    BY DEF SceneReady
  <1>3. "tiles" \in DOMAIN cache' /\ cache'.tiles = <<>>
    BY <1>2 DEF NewCache
  <1> QED  BY <1>1, <1>2, <1>3 DEF TilesInv, FrameOK, Tasks, CachesOK, TilesOK, Distinct,
                                   TileOK, IsTile, Surfaces, Native, Future

LEMMA ClearTexturesOK == TilesInv /\ ClearTextures => TilesInv'
  <1> SUFFICES ASSUME TilesInv, ClearTextures  PROVE TilesInv'
    OBVIOUS
  <1> DEFINE Cleared(tiles) == [x \in DOMAIN tiles |-> [tiles[x] EXCEPT !.age = NoValue]]
  <1>1. UNCHANGED <<frame, allocated, compositor, panic>>
    BY DEF ClearTextures, Change, rendererVars
  <1>2. /\ "tiles" \in DOMAIN cache' /\ "tiles" \in DOMAIN retained'
        /\ cache'.tiles = Cleared(cache.tiles) /\ retained'.tiles = Cleared(retained.tiles)
    BY DEF ClearTextures, TilesInv, CachesOK
  <1>3. cache'.tiles = <<>> \/ retained'.tiles = <<>>
    BY <1>2 DEF TilesInv, CachesOK
  <1>4. ASSUME NEW tiles, TilesOK(tiles)  PROVE TilesOK(Cleared(tiles))
    BY <1>4 DEF TilesOK, Distinct, TileOK, IsTile, TileFields
  <1>5. TilesOK(cache'.tiles) /\ TilesOK(retained'.tiles)
    BY <1>2, <1>4 DEF TilesInv, CachesOK
  <1> QED  BY <1>1, <1>2, <1>3, <1>5 DEF TilesInv, FrameOK, Tasks, CachesOK, TilesOK, Distinct,
                                   TileOK, IsTile, Surfaces, Native, Future

LEMMA QuietOK ==
  ASSUME TilesInv, UNCHANGED <<compositor, cache, retained, frame, allocated, panic>>
  PROVE  TilesInv'
  BY DEF TilesInv, FrameOK, Tasks, CachesOK, TilesOK, Distinct, TileOK, IsTile, Surfaces,
         Native, Future

LEMMA NextOK == TilesInv /\ [Next]_vars /\ ~Repeats => TilesInv'
  <1> SUFFICES ASSUME TilesInv, [Next]_vars, ~Repeats  PROVE TilesInv'
    OBVIOUS
  <1>1. CASE BuildFrame
    BY <1>1, BuildFrameOK
  <1>2. CASE BuildFrameWithoutTiles
    BY <1>2, BuildFrameWithoutTilesOK
  <1>3. CASE Render
    BY <1>3, RenderOK
  <1>4. CASE \E new \in Scenes : SceneReady(new)
    BY <1>4, SceneReadyOK
  <1>5. CASE \E new \in Views : SetView(new)
    BY <1>5, QuietOK DEF SetView, Change, rendererVars
  <1>6. CASE SetTurn
    BY <1>6, QuietOK DEF SetTurn, Change, rendererVars
  <1>7. CASE \E value \in Values : SetFade(value)
    BY <1>7, QuietOK DEF SetFade, Change, rendererVars
  <1>8. CASE UpdateImage
    BY <1>8, QuietOK DEF UpdateImage, Change, rendererVars
  <1>9. CASE ClearTextures
    BY <1>9, ClearTexturesOK
  <1>10. CASE UNCHANGED vars
    BY <1>10, QuietOK DEF vars, rendererVars
  <1> QED  BY <1>1, <1>2, <1>3, <1>4, <1>5, <1>6, <1>7, <1>8, <1>9, <1>10 DEF Next

(* Retained tiles are never merged with others, and no native surface is   *)
(* created twice or destroyed before it exists, unless a frame is rendered *)
(* again: for any scenes, views and compositors.                           *)
THEOREM SurfacesSound ==
  ASSUME ~Repeats
  PROVE  Spec => []NoPanic
  <1>1. TilesInv /\ [Next]_vars => TilesInv'
    BY NextOK
  <1>2. TilesInv => NoPanic
    BY DEF TilesInv, NoPanic
  <1> QED  BY InitOK, <1>1, <1>2, PTL DEF Spec
-----------------------------------------------------------------------------
(* Numbers, finite sets of them, and intervals                             *)

LEMMA Smallest ==
  ASSUME NEW T \in SUBSET Nat, T # {}
  PROVE  \E x \in T : \A y \in T : x <= y
  <1>1. PICK R : R = {ss \in Nat \X Nat : ss[1] < ss[2]} /\ IsWellFoundedOn(R, Nat)
    BY NatLessThanWellFounded, Zenon DEF OpToRel
  <1>2. PICK x \in T : \A y \in T : <<y, x>> \notin R
    BY <1>1, WFMin
  <1>3. \A y \in T : ~(y < x)
    BY <1>1, <1>2
  <1> QED  BY <1>3

HasMin(S) == \E x \in S : \A y \in S : x <= y
HasMax(S) == \E x \in S : \A y \in S : x >= y

(* A finite set of numbers has a least and a greatest one.                 *)
LEMMA Bounded ==
  ASSUME NEW S \in SUBSET Int, IsFiniteSet(S), S # {}
  PROVE  HasMin(S) /\ HasMax(S)
  <1> DEFINE Good(T) == T # {} => HasMin(T) /\ HasMax(T)
             bad == {T \in SUBSET S : ~Good(T)}
             sizes == {Cardinality(T) : T \in bad}
  <1>1. \A T \in SUBSET S : IsFiniteSet(T) /\ Cardinality(T) \in Nat
    BY FS_Subset, FS_CardinalityType
  <1>2. bad = {}
    <2> SUFFICES ASSUME bad # {}  PROVE FALSE
      OBVIOUS
    <2>1. sizes \in SUBSET Nat /\ sizes # {}
      BY <1>1
    <2>2. PICK n \in sizes : \A m \in sizes : n <= m
      BY <2>1, Smallest
    <2>3. PICK T \in bad : n = Cardinality(T)
      BY <2>2
    <2>4. T \in SUBSET S /\ T # {} /\ ~(HasMin(T) /\ HasMax(T))
      BY <2>3
    <2>5. PICK x : x \in T
      BY <2>4
    <2> DEFINE R == T \ {x}
    <2>6. Cardinality(R) = Cardinality(T) - 1 /\ R \in SUBSET S
      BY <1>1, <2>4, <2>5, FS_RemoveElement
    <2>7. R \notin bad
      <3>1. R \in bad => Cardinality(R) \in sizes
        OBVIOUS
      <3>2. Cardinality(T) \in Nat
        BY <1>1, <2>4
      <3> HIDE DEF bad, sizes, R
      <3> QED  BY <2>2, <2>3, <2>6, <3>1, <3>2
    <2>8. R # {} => HasMin(R) /\ HasMax(R)
      BY <2>6, <2>7
    <2>9. T = R \cup {x} /\ x \in Int /\ T \subseteq Int /\ R \subseteq Int
      BY <2>4, <2>5
    <2> HIDE DEF bad, sizes, R
    <2>10. CASE R = {}
      BY <2>4, <2>9, <2>10 DEF HasMin, HasMax
    <2>11. CASE R # {}
      <3>1. PICK a \in R : \A y \in R : a <= y
        BY <2>8, <2>11 DEF HasMin
      <3>2. PICK b \in R : \A y \in R : b >= y
        BY <2>8, <2>11 DEF HasMax
      <3>3. HasMin(T)
        <4>1. \A y \in T : IF x <= a THEN x <= y ELSE a <= y
          BY <2>9, <3>1
        <4> QED  BY <2>9, <3>1, <4>1 DEF HasMin
      <3>4. HasMax(T)
        <4>1. \A y \in T : IF x >= b THEN x >= y ELSE b >= y
          BY <2>9, <3>2
        <4> QED  BY <2>9, <3>2, <4>1 DEF HasMax
      <3> QED  BY <2>4, <3>3, <3>4
    <2> QED  BY <2>10, <2>11
  <1>3. S \notin bad
    BY <1>2
  <1> QED  BY <1>3

LEMMA MinMax ==
  ASSUME NEW S \in SUBSET Int, IsFiniteSet(S), S # {}
  PROVE  /\ Min(S) \in S /\ \A y \in S : Min(S) <= y
         /\ Max(S) \in S /\ \A y \in S : Max(S) >= y
  BY Bounded, Zenon DEF HasMin, HasMax, Min, Max

LEMMA MinMaxOfTwo ==
  ASSUME NEW a \in Int, NEW b \in Int
  PROVE  /\ Min({a, b}) = IF a <= b THEN a ELSE b
         /\ Max({a, b}) = IF a >= b THEN a ELSE b
  <1>1. IsFiniteSet({a, b})
    <2>1. {a, b} = {a} \cup {b}
      OBVIOUS
    <2>2. IsFiniteSet({a} \cup {b})
      BY FS_Singleton, FS_AddElement
    <2> QED  BY <2>1, <2>2
  <1>2. {a, b} \in SUBSET Int /\ {a, b} # {}
    OBVIOUS
  <1>3. /\ Min({a, b}) \in {a, b} /\ \A y \in {a, b} : Min({a, b}) <= y
        /\ Max({a, b}) \in {a, b} /\ \A y \in {a, b} : Max({a, b}) >= y
    BY <1>1, <1>2, MinMax
  <1> QED  BY <1>3

LEMMA IntersectionIs ==
  ASSUME NEW r \in Interval, NEW s \in Interval
  PROVE  /\ Intersection(r, s) \in Interval
         /\ \A u \in Int : Within(u, Intersection(r, s)) <=> Within(u, r) /\ Within(u, s)
         /\ (\E u \in Int : Within(u, r) /\ Within(u, s)) => Meets(r, s)
  <1>1. r[1] \in Int /\ r[2] \in Int /\ s[1] \in Int /\ s[2] \in Int
    BY DEF Interval
  <1>2. PICK a \in Int, b \in Int :
          /\ a = Max({r[1], s[1]}) /\ a = IF r[1] >= s[1] THEN r[1] ELSE s[1]
          /\ b = Min({r[2], s[2]}) /\ b = IF r[2] <= s[2] THEN r[2] ELSE s[2]
    BY <1>1, MinMaxOfTwo
  <1>3. Intersection(r, s) = IF a < b THEN <<a, b>> ELSE <<0, 0>>
    BY <1>2 DEF Intersection, Nowhere
  <1>4. Intersection(r, s) \in Interval
    BY <1>3 DEF Interval
  <1>5. \A u \in Int : Within(u, Intersection(r, s)) <=> Within(u, r) /\ Within(u, s)
    BY <1>1, <1>2, <1>3 DEF Within
  <1>6. (\E u \in Int : Within(u, r) /\ Within(u, s)) => Meets(r, s)
    BY <1>1, <1>2, <1>3 DEF Within, Meets, IsEmpty
  <1> QED  BY <1>4, <1>5, <1>6

LEMMA HullIs ==
  ASSUME NEW rects \in SUBSET Interval, IsFiniteSet(rects)
  PROVE  /\ Hull(rects) \in Interval
         /\ \A r \in rects, u \in Int : Within(u, r) => Within(u, Hull(rects))
         /\ \A r \in rects : Covers(Hull(rects), r)
  <1> DEFINE some == {r \in rects : ~IsEmpty(r)}
             lows == {r[1] : r \in some}
             highs == {r[2] : r \in some}
  <1>1. IsFiniteSet(some)
    BY FS_Subset
  <1>2. IsFiniteSet(lows) /\ IsFiniteSet(highs)
    <2> DEFINE f == [r \in some |-> r[1]]
               g == [r \in some |-> r[2]]
    <2>1. f \in Surjection(some, lows) /\ g \in Surjection(some, highs)
      BY DEF Surjection
    <2> HIDE DEF some, lows, highs, f, g
    <2> QED  BY <1>1, <2>1, FS_Surjection
  <1>3. lows \in SUBSET Int /\ highs \in SUBSET Int
    BY DEF Interval
  <1>4. \A r \in rects, u \in Int : Within(u, r) => r \in some
    BY DEF Within, IsEmpty, Interval
  <1>5. CASE some = {}
    <2>1. Hull(rects) = Nowhere
      BY <1>5 DEF Hull
    <2> QED  BY <1>4, <1>5, <2>1 DEF Nowhere, Interval, Covers
  <1>6. CASE some # {}
    <2>1. Hull(rects) = <<Min(lows), Max(highs)>>
      BY <1>6 DEF Hull
    <2>2. lows # {} /\ highs # {}
      BY <1>6
    <2>3. /\ Min(lows) \in lows /\ \A y \in lows : Min(lows) <= y
          /\ Max(highs) \in highs /\ \A y \in highs : Max(highs) >= y
      BY <1>2, <1>3, <2>2, MinMax
    <2>4. \A r \in some : r[1] \in lows /\ r[2] \in highs /\ r \in Interval
      OBVIOUS
    <2> HIDE DEF lows, highs
    <2>5. Hull(rects) \in Interval
      <3>1. Min(lows) \in Int /\ Max(highs) \in Int
        BY <1>3, <2>3
      <3> QED  BY <2>1, <3>1 DEF Interval
    <2>6. PICK lo \in Int, hi \in Int : lo = Min(lows) /\ hi = Max(highs)
      BY <1>3, <2>3
    <2>7. \A r \in some : lo <= r[1] /\ r[2] <= hi
      BY <1>3, <2>3, <2>4, <2>6
    <2>8. Hull(rects) = <<lo, hi>>
      BY <2>1, <2>6
    <2>9. \A r \in rects, u \in Int : Within(u, r) => Within(u, Hull(rects))
      BY <1>4, <2>4, <2>7, <2>8 DEF Within, Interval
    <2>10. \A r \in rects : Covers(Hull(rects), r)
      BY <2>7, <2>8 DEF Covers
    <2> QED  BY <2>5, <2>9, <2>10
  <1> QED  BY <1>5, <1>6

(* Units and pixels of a tile, when every view has the same scale and a    *)
(* tile is a whole number of units wide                                    *)
Sizes == {"small", "large"}
Scale == (CHOOSE v \in Views : TRUE).scale
OneScale ==
  /\ Scale \in Nat \ {0} /\ \A v \in Views : v.scale = Scale
  /\ \A z \in Sizes : \E w \in Nat : TILE_SIZE[z] = w * Scale
Unit(q) == q \div Scale
Width(z) == TILE_SIZE[z] \div Scale
RectOf(z, x) == <<x * Width(z), (x + 1) * Width(z)>>
PixelsOf(z, x) == x * TILE_SIZE[z]..(x * TILE_SIZE[z] + TILE_SIZE[z] - 1)

LEMMA UnitInTile ==
  ASSUME OneScale, NEW z \in Sizes, NEW x \in Int
  PROVE  /\ RectOf(z, x) \in Interval
         /\ \A q \in PixelsOf(z, x) : Unit(q) \in Int /\ Within(Unit(q), RectOf(z, x))
  <1>1. PICK w \in Nat : TILE_SIZE[z] = w * Scale
    BY DEF OneScale
  <1>2. PICK n \in Nat \ {0} : n = Scale
    BY DEF OneScale
  <1>3. Width(z) = w
    <2>1. (w * n) \div n = w
      OBVIOUS
    <2> QED  BY <1>1, <1>2, <2>1 DEF Width
  <1>4. RectOf(z, x) = <<x * w, (x + 1) * w>> /\ x * w \in Int /\ (x + 1) * w = x * w + w
    BY <1>3 DEF RectOf
  <1>5. PICK a \in Int : a = x * w
    BY <1>4
  <1>6. x * TILE_SIZE[z] = a * n
    <2>1. x * (w * n) = (x * w) * n
      OBVIOUS
    <2> QED  BY <1>1, <1>2, <1>5, <2>1
  <1>7. TILE_SIZE[z] = w * n /\ w * n \in Int /\ a * n \in Int /\ (a + w) * n = a * n + w * n
    BY <1>1, <1>2
  <1>8. ASSUME NEW q \in PixelsOf(z, x)
        PROVE  Unit(q) \in Int /\ Within(Unit(q), RectOf(z, x))
    <2>1. q \in Int /\ a * n <= q /\ q < (a + w) * n
      BY <1>6, <1>7, <1>8 DEF PixelsOf
    <2>2. PICK d \in Int, e \in Int : /\ d = q \div n /\ 0 <= e /\ e < n /\ q = d * n + e
      <3>1. q \div n \in Int /\ q % n \in 0..(n - 1) /\ q = n * (q \div n) + (q % n)
        BY <2>1
      <3>2. PICK d \in Int, e \in Int : d = q \div n /\ e = q % n
        BY <3>1
      <3>3. n * d = d * n
        OBVIOUS
      <3>4. 0 <= e /\ e < n /\ q = n * d + e
        BY <3>1, <3>2
      <3> QED  BY <3>2, <3>3, <3>4
    <2>3. d >= a
      <3> SUFFICES ASSUME d + 1 <= a  PROVE FALSE
        OBVIOUS
      <3>1. (d + 1) * n <= a * n /\ (d + 1) * n = d * n + n
        OBVIOUS
      <3> QED  BY <2>1, <2>2, <3>1
    <2>4. d < a + w
      <3> SUFFICES ASSUME a + w <= d  PROVE FALSE
        OBVIOUS
      <3>1. (a + w) * n <= d * n
        OBVIOUS
      <3> QED  BY <2>1, <2>2, <3>1
    <2>5. Unit(q) = d
      BY <1>2, <2>2 DEF Unit
    <2> QED  BY <1>4, <1>5, <2>3, <2>4, <2>5 DEF Within
  <1>9. RectOf(z, x) \in Interval
    BY <1>4, <1>5 DEF Interval
  <1> QED  BY <1>8, <1>9

(* The numbers of a finite set have an order.                              *)
IsOrder(s, I) ==
  /\ s \in [1..Cardinality(I) -> I]
  /\ ToSet(s) = I /\ \A j, k \in DOMAIN s : j < k => s[j] < s[k]

LEMMA FinitePlaces ==
  ASSUME NEW m \in Nat, NEW I, I \subseteq 1..m
  PROVE  IsFiniteSet(I) /\ Cardinality(I) \in Nat
  <1>1. IsFiniteSet(1..m)
    BY FS_Interval
  <1>2. IsFiniteSet(I)
    BY <1>1, FS_Subset
  <1> QED  BY <1>2, FS_CardinalityType

LEMMA OrderExists ==
  ASSUME NEW m \in Nat, NEW I \in SUBSET (1..m)
  PROVE  \E s : IsOrder(s, I)
  <1> DEFINE Ordered(n) == \A J \in SUBSET (1..n) : \E s : IsOrder(s, J)
             bad == {n \in Nat : ~Ordered(n)}
  <1>1. bad = {}
    <2> SUFFICES ASSUME bad # {}  PROVE FALSE
      OBVIOUS
    <2>1. bad \in SUBSET Nat
      OBVIOUS
    <2>2. PICK n \in bad : \A l \in bad : n <= l
      <3> HIDE DEF bad
      <3> QED  BY <2>1, Smallest
    <2>3. n \in Nat /\ ~Ordered(n)
      OBVIOUS
    <2>4. PICK J \in SUBSET (1..n) : \A s : ~IsOrder(s, J)
      BY <2>3
    <2>5. n = 0 \/ Ordered(n - 1)
      <3>1. n = 0 \/ (n - 1 \in Nat /\ ~(n <= n - 1))
        BY <2>3
      <3> QED  BY <2>2, <3>1
    <2> HIDE DEF bad
    <2>6. CASE J = {}
      <3> DEFINE s == [j \in 1..0 |-> j]
      <3>1. Cardinality(J) = 0
        BY <2>6, FS_EmptySet
      <3>2. ToSet(s) = {} /\ DOMAIN s = {} /\ s \in [1..0 -> {}]
        BY DEF ToSet
      <3>3. IsOrder(s, J)
        BY <2>6, <3>1, <3>2 DEF IsOrder
      <3> QED  BY <2>4, <3>3
    <2>7. CASE J # {} /\ n \in J
      <3> DEFINE K == J \ {n}
      <3>1. n # 0 /\ K \in SUBSET (1..(n - 1))
        BY <2>3, <2>7
      <3>2. PICK s : IsOrder(s, K)
        BY <2>5, <3>1
      <3>3. IsFiniteSet(J) /\ Cardinality(J) \in Nat /\ Cardinality(K) \in Nat
        BY <2>3, <3>1, FinitePlaces
      <3>4. Cardinality(K) = Cardinality(J) - 1
        BY <2>7, <3>3, FS_RemoveElement
      <3>5. PICK c \in Nat : c = Cardinality(K) /\ Cardinality(J) = c + 1
        BY <3>3, <3>4
      <3> DEFINE r == [j \in 1..(c + 1) |-> IF j = c + 1 THEN n ELSE s[j]]
      <3>6. s \in [1..c -> K] /\ ToSet(s) = K /\ \A j, k \in 1..c : j < k => s[j] < s[k]
        BY <3>2, <3>5 DEF IsOrder
      <3>7. \A j \in 1..c : s[j] \in 1..(n - 1) /\ s[j] \in J
        BY <3>1, <3>6
      <3>8. r \in [1..(c + 1) -> J]
        BY <2>7, <3>7
      <3>9. ToSet(r) = J
        <4>1. ToSet(r) \subseteq J
          BY <3>8 DEF ToSet
        <4>2. ASSUME NEW x \in K  PROVE x \in ToSet(r)
          <5>1. PICK j \in 1..c : x = s[j]
            BY <3>6 DEF ToSet
          <5>2. r[j] = x /\ j \in DOMAIN r
            BY <5>1
          <5> QED  BY <5>2 DEF ToSet
        <4>3. r[c + 1] = n /\ c + 1 \in DOMAIN r
          OBVIOUS
        <4>4. n \in ToSet(r)
          BY <4>3 DEF ToSet
        <4> QED  BY <4>1, <4>2, <4>4
      <3>10. \A j, k \in 1..(c + 1) : j < k => r[j] < r[k]
        BY <2>3, <3>6, <3>7
      <3>11. IsOrder(r, J)
        BY <3>5, <3>8, <3>9, <3>10 DEF IsOrder
      <3> QED  BY <2>4, <3>11
    <2>8. CASE J # {} /\ n \notin J
      <3>1. \A j \in J : j \in 1..n /\ j # n
        BY <2>8
      <3>2. n # 0 /\ J \in SUBSET (1..(n - 1))
        <4>1. PICK k : k \in J
          BY <2>8
        <4>2. n # 0
          BY <3>1, <4>1
        <4>3. \A j : j \in 1..n /\ j # n => j \in 1..(n - 1)
          BY <2>3
        <4> QED  BY <3>1, <4>2, <4>3
      <3> QED  BY <2>4, <2>5, <3>2
    <2> QED  BY <2>6, <2>7, <2>8
  <1>2. Ordered(m)
    BY <1>1
  <1> QED  BY <1>2

LEMMA InOrderIs ==
  ASSUME NEW m \in Nat, NEW I \in SUBSET (1..m)
  PROVE  /\ InOrder(I) \in Seq(I) /\ ToSet(InOrder(I)) = I
         /\ DOMAIN InOrder(I) = 1..Len(InOrder(I)) /\ Len(InOrder(I)) \in Nat
  <1>1. IsOrder(InOrder(I), I)
    <2>1. \E s : IsOrder(s, I)
      BY OrderExists
    <2> QED  BY <2>1, Zenon DEF IsOrder, InOrder
  <1>2. Cardinality(I) \in Nat
    BY FinitePlaces
  <1>3. InOrder(I) \in Seq(I)
    BY <1>1, <1>2, SeqDef DEF IsOrder
  <1> QED  BY <1>1, <1>3, LenProperties DEF IsOrder

LEMMA SelectedIs ==
  ASSUME NEW S, NEW s \in Seq(S), NEW I \in SUBSET DOMAIN s
  PROVE  /\ Selected(s, I) \in Seq(S)
         /\ ToSet(Selected(s, I)) = {s[i] : i \in I}
  <1>1. Len(s) \in Nat /\ DOMAIN s = 1..Len(s) /\ \A i \in DOMAIN s : s[i] \in S
    BY LenProperties, ElementOfSeq
  <1>2. PICK o : o = InOrder(I)
    OBVIOUS
  <1>3. o \in Seq(I) /\ ToSet(o) = I /\ DOMAIN o = 1..Len(o) /\ Len(o) \in Nat
    BY <1>1, <1>2, InOrderIs
  <1>4. \A j \in DOMAIN o : o[j] \in I
    BY <1>3 DEF ToSet
  <1>5. Selected(s, I) = [j \in 1..Len(o) |-> s[o[j]]]
    BY <1>2, <1>3 DEF Selected
  <1>6. Selected(s, I) \in [1..Len(o) -> S]
    BY <1>1, <1>3, <1>4, <1>5
  <1>7. Selected(s, I) \in Seq(S)
    BY <1>3, <1>6, SeqDef
  <1>8. ToSet(Selected(s, I)) = {s[o[j]] : j \in DOMAIN o}
    BY <1>3, <1>5 DEF ToSet
  <1>9. \A i \in I : \E j \in DOMAIN o : i = o[j]
    BY <1>3 DEF ToSet
  <1> QED  BY <1>4, <1>7, <1>8, <1>9

(* The backdrop is what clips one of the primitives.                       *)
IsBackdrop(b, prims) ==
  b.rect = Nowhere \/ \E p \in ToSet(prims) : b.rect = p.clip
Chain(b, prims, n) ==
  b = [i \in 0..n |-> IF i = 0 THEN NoBackdrop ELSE BackdropAfter(b[i - 1], prims[i])]

LEMMA ChainExists ==
  ASSUME NEW prims, NEW m \in Nat
  PROVE  \E b : Chain(b, prims, m)
  <1> DEFINE bad == {n \in Nat : ~\E b : Chain(b, prims, n)}
  <1>1. bad = {}
    <2> SUFFICES ASSUME bad # {}  PROVE FALSE
      OBVIOUS
    <2>1. bad \in SUBSET Nat
      OBVIOUS
    <2>2. PICK n \in bad : \A l \in bad : n <= l
      <3> HIDE DEF bad
      <3> QED  BY <2>1, Smallest
    <2>3. n \in Nat /\ \A b : ~Chain(b, prims, n)
      OBVIOUS
    <2>4. n = 0 \/ (n - 1 \in Nat /\ \E b : Chain(b, prims, n - 1))
      <3>1. n = 0 \/ (n - 1 \in Nat /\ ~(n <= n - 1))
        BY <2>3
      <3> QED  BY <2>2, <3>1
    <2> HIDE DEF bad
    <2>5. CASE n = 0
      <3> DEFINE b == [i \in 0..0 |-> NoBackdrop]
      <3>1. \A i \in 0..0 : i = 0
        OBVIOUS
      <3>2. Chain(b, prims, 0)
        BY <3>1 DEF Chain
      <3> QED  BY <2>3, <2>5, <3>2
    <2>6. CASE n # 0
      <3>1. PICK b : Chain(b, prims, n - 1)
        BY <2>4, <2>6
      <3> DEFINE c == [i \in 0..n |-> IF i = n THEN BackdropAfter(b[n - 1], prims[n]) ELSE b[i]]
                 d == [i \in 0..n |-> IF i = 0 THEN NoBackdrop
                                      ELSE BackdropAfter(c[i - 1], prims[i])]
      <3>2. \A i \in 0..(n - 1) :
              b[i] = IF i = 0 THEN NoBackdrop ELSE BackdropAfter(b[i - 1], prims[i])
        BY <3>1 DEF Chain
      <3>3. \A i \in 0..(n - 1) : i \in 0..n /\ i # n /\ c[i] = b[i]
        BY <2>3
      <3>4. n - 1 \in 0..(n - 1) /\ \A i \in 0..n : i = n \/ i \in 0..(n - 1)
        BY <2>3, <2>6
      <3>5. \A i \in 0..(n - 1) : i = 0 \/ i - 1 \in 0..(n - 1)
        BY <2>3
      <3>6. ASSUME NEW i \in 0..n  PROVE c[i] = d[i]
        <4>1. CASE i = n
          BY <2>6, <3>3, <3>4, <4>1
        <4>2. CASE i \in 0..(n - 1)
          BY <3>2, <3>3, <3>5, <4>2
        <4> QED  BY <3>4, <4>1, <4>2
      <3>7. c = d
        BY <3>6
      <3>8. Chain(c, prims, n)
        BY <3>7 DEF Chain
      <3> QED  BY <2>3, <3>8
    <2> QED  BY <2>5, <2>6
  <1> QED  BY <1>1

LEMMA BackdropIs ==
  ASSUME NEW S, NEW prims \in Seq(S)
  PROVE  IsBackdrop(Backdrop(prims), prims)
  <1> DEFINE b == CHOOSE f : f = [i \in 0..Len(prims) |->
                    IF i = 0 THEN NoBackdrop ELSE BackdropAfter(f[i - 1], prims[i])]
  <1>1. Len(prims) \in Nat /\ DOMAIN prims = 1..Len(prims)
    BY LenProperties
  <1>2. \E f : Chain(f, prims, Len(prims))
    BY <1>1, ChainExists
  <1>3. Chain(b, prims, Len(prims))
    BY <1>2, Zenon DEF Chain
  <1>4. Backdrop(prims) = b[Len(prims)]
    BY Zenon DEF Backdrop
  <1> HIDE DEF b
  <1>5. PICK m \in Nat : m = Len(prims)
    BY <1>1
  <1> DEFINE bad == {i \in 0..m : ~IsBackdrop(b[i], prims)}
  <1>6. bad = {}
    <2> SUFFICES ASSUME bad # {}  PROVE FALSE
      OBVIOUS
    <2>1. bad \in SUBSET Nat
      BY <1>5
    <2>2. PICK n \in bad : \A l \in bad : n <= l
      <3> HIDE DEF bad
      <3> QED  BY <2>1, Smallest
    <2>3. n \in 0..m /\ ~IsBackdrop(b[n], prims)
      OBVIOUS
    <2>4. n = 0 \/ IsBackdrop(b[n - 1], prims)
      <3>1. n = 0 \/ (n - 1 \in 0..m /\ ~(n <= n - 1))
        BY <2>3
      <3> QED  BY <2>2, <3>1
    <2>5. b[n] = IF n = 0 THEN NoBackdrop ELSE BackdropAfter(b[n - 1], prims[n])
      BY <1>3, <1>5, <2>3 DEF Chain
    <2>6. CASE n = 0
      BY <2>3, <2>5, <2>6 DEF IsBackdrop, NoBackdrop
    <2>7. CASE n # 0
      <3>1. prims[n] \in ToSet(prims)
        BY <1>1, <1>5, <2>3, <2>7 DEF ToSet
      <3>2. b[n] = BackdropAfter(b[n - 1], prims[n])
        BY <2>5, <2>7
      <3>3. BackdropAfter(b[n - 1], prims[n]) = b[n - 1]
              \/ BackdropAfter(b[n - 1], prims[n]).rect = prims[n].clip
        BY DEF BackdropAfter
      <3> QED  BY <2>3, <2>4, <2>7, <3>1, <3>2, <3>3 DEF IsBackdrop
    <2> QED  BY <2>6, <2>7
  <1>7. m \in 0..m
    BY <1>5
  <1> QED  BY <1>4, <1>5, <1>6, <1>7

(* Of a rectangle no more is kept than what is within the tile, and every  *)
(* unit of a tile is within one of its leaves.                             *)
LEMMA ClampIs ==
  ASSUME NEW r \in Interval, NEW to \in Interval, NEW u \in Int, Within(u, to)
  PROVE  Within(u, Clamp(r, to)) <=> Within(u, r)
  <1>1. r[1] \in Int /\ r[2] \in Int /\ to[1] \in Int /\ to[2] \in Int
    BY DEF Interval
  <1>2. /\ Clamp(r, to)[1] = Max({to[1], Min({r[1], to[2]})})
        /\ Clamp(r, to)[2] = Max({to[1], Min({r[2], to[2]})})
    BY DEF Clamp
  <1>3. PICK a \in Int, b \in Int :
          /\ a = Min({r[1], to[2]}) /\ a = IF r[1] <= to[2] THEN r[1] ELSE to[2]
          /\ b = Min({r[2], to[2]}) /\ b = IF r[2] <= to[2] THEN r[2] ELSE to[2]
    BY <1>1, MinMaxOfTwo
  <1>4. PICK c \in Int, d \in Int :
          /\ c = Max({to[1], a}) /\ c = IF to[1] >= a THEN to[1] ELSE a
          /\ d = Max({to[1], b}) /\ d = IF to[1] >= b THEN to[1] ELSE b
    BY <1>1, MinMaxOfTwo
  <1>5. Clamp(r, to)[1] = c /\ Clamp(r, to)[2] = d
    BY <1>2, <1>3, <1>4
  <1> QED  BY <1>1, <1>3, <1>4, <1>5 DEF Within

LEMMA ClampType ==
  ASSUME NEW r \in Interval, NEW to \in Interval
  PROVE  Clamp(r, to) \in Interval
  <1>1. r[1] \in Int /\ r[2] \in Int /\ to[1] \in Int /\ to[2] \in Int
    BY DEF Interval
  <1>2. Min({r[1], to[2]}) \in Int /\ Min({r[2], to[2]}) \in Int
    BY <1>1, MinMaxOfTwo
  <1>3. /\ Max({to[1], Min({r[1], to[2]})}) \in Int
        /\ Max({to[1], Min({r[2], to[2]})}) \in Int
    BY <1>1, <1>2, MinMaxOfTwo
  <1> QED  BY <1>3 DEF Clamp, Interval

LEMMA LeafRectIs ==
  ASSUME NEW rect \in Interval, NEW n \in {1, 2}
  PROVE  /\ \A k \in 1..n : LeafRect(rect, k, n) \in Interval
         /\ \A u \in Int : Within(u, rect) => \E k \in 1..n : Within(u, LeafRect(rect, k, n))
         /\ \A u \in Int, k \in 1..n : n = 1 => (Within(u, LeafRect(rect, k, n)) <=> Within(u, rect))
  <1>1. rect[1] \in Int /\ rect[2] \in Int
    BY DEF Interval
  <1>2. PICK mid \in Int : mid = (rect[1] + rect[2]) \div 2
    BY <1>1
  <1>3. CASE n = 1
    <2>1. \A k : LeafRect(rect, k, n) = rect
      BY <1>3 DEF LeafRect
    <2>2. 1 \in 1..n
      BY <1>3
    <2> QED  BY <2>1, <2>2
  <1>4. CASE n = 2
    <2>1. /\ LeafRect(rect, 1, n) = <<rect[1], mid>>
          /\ LeafRect(rect, 2, n) = <<mid, rect[2]>>
          /\ \A k \in 1..n : k = 1 \/ k = 2
          /\ 1 \in 1..n /\ 2 \in 1..n
      BY <1>2, <1>4 DEF LeafRect
    <2>2. \A u \in Int : Within(u, rect)
            => Within(u, <<rect[1], mid>>) \/ Within(u, <<mid, rect[2]>>)
      BY <1>1 DEF Within
    <2>3. \A k \in 1..n : LeafRect(rect, k, n) \in Interval
      BY <1>1, <2>1 DEF Interval
    <2>4. \A u \in Int : Within(u, rect) => \E k \in 1..n : Within(u, LeafRect(rect, k, n))
      BY <2>1, <2>2
    <2> QED  BY <1>4, <2>3, <2>4
  <1> QED  BY <1>3, <1>4
-----------------------------------------------------------------------------
(* What a frame knows of the slice                                         *)

TypesOK ==
  /\ scene \in Scenes /\ view \in Views
  /\ image \in [version : {0, 1}, dirty : BOOLEAN] /\ skipped \in BOOLEAN

LEMMA SceneIs ==
  ASSUME TypesOK
  PROVE  /\ scene \in Scene
         /\ \A p \in ToSet(scene.prims) : p \in Primitive /\ Covers(p.rect, p.clip)
  <1>1. scene \in Scene /\ scene.prims \in Seq(Primitive)
    BY PictureTilesAssumption DEF TypesOK, Scene
  <1>2. \A p \in ToSet(scene.prims) : p \in Primitive
    BY <1>1, LenProperties, ElementOfSeq DEF ToSet
  <1> QED  BY <1>1, <1>2, PictureTilesAssumption DEF TypesOK

(* A unit that is within what clips a primitive is within the primitive.   *)
LEMMA ClipIsWithin ==
  ASSUME NEW p \in Primitive, Covers(p.rect, p.clip), NEW u \in Int, Within(u, p.clip)
  PROVE  Within(u, p.rect)
  BY DEF Primitive, Interval, Covers, Within, IsEmpty

(* The primitives of the slice are those that reach its tiles, and an      *)
(* image that is to be uploaded and seen in one of them is.                *)
IsSlice(s) ==
  /\ s.size \in Sizes /\ s.backdrop = Backdrop(s.prims)
  /\ s.prims \in Seq(Primitive) /\ ToSet(s.prims) \subseteq ToSet(scene.prims)
  /\ \A x \in s.coords : x \in Int /\ s.rect[x] = RectOf(s.size, x)
  /\ \A x \in s.coords, u \in Int, p \in ToSet(scene.prims) :
       Within(u, s.rect[x]) /\ Within(u, p.rect) => p \in ToSet(s.prims)
  /\ \A x \in s.coords, u \in Int, p \in ToSet(s.prims) :
       image.dirty /\ p.kind = "image" /\ Within(u, s.rect[x]) /\ Within(u, p.clip)
         => s.changed.image
  /\ s.changed.image => image.dirty
  /\ s.changed.image \in BOOLEAN /\ s.changed.fract \in BOOLEAN
  /\ ~s.changed.fract => Base.fract = view.fract
  /\ ~s.changed.turn => Base.turn = turn
  /\ ~s.changed.fade => Base.fade = fade
  /\ \A x \in DOMAIN s.tiles : Base.size = s.size

LEMMA SliceIs ==
  ASSUME OneScale, TypesOK
  PROVE  IsSlice(Slice)
  <1> DEFINE size == IF scene.size < 2 * TILE_SIZE.small THEN "small" ELSE "large"
             width == TILE_SIZE[size] \div view.scale
             screen == <<view.at \div view.scale, (view.at + Screen) \div view.scale>>
             inflated == <<screen[1] - Inflation * width, screen[2] + Inflation * width>>
             needed == Intersection(inflated, <<0, scene.size>>)
             first == needed[1] \div width
             last == (needed[2] + width - 1) \div width
             bounds == <<first * width, last * width>>
             reached == {i \in DOMAIN scene.prims : Meets(scene.prims[i].rect, bounds)}
             prims == Selected(scene.prims, reached)
  <1>1. /\ Slice.size = size /\ Slice.backdrop = Backdrop(Slice.prims) /\ Slice.prims = prims
        /\ Slice.coords = first..(last - 1)
        /\ Slice.rect = [x \in first..(last - 1) |-> <<x * width, (x + 1) * width>>]
        /\ Slice.changed.image = (image.dirty /\ \E p \in ToSet(Slice.prims) :
                                    p.kind = "image" /\ Meets(p.clip, bounds))
        /\ Slice.changed.fract = (Base.fract # view.fract)
        /\ Slice.changed.turn = (Base.turn # turn)
        /\ Slice.changed.fade = (fade = NoValue \/ Base.fade # fade)
        /\ Slice.tiles = IF size = Base.size THEN Base.tiles ELSE <<>>
    BY DEF Slice, Base
  <1>2. /\ scene.size \in Nat /\ scene.prims \in Seq(Primitive)
        /\ view.at \in Int /\ view.scale = Scale /\ view.scale \in Nat \ {0}
    BY PictureTilesAssumption DEF TypesOK, Scene, View, OneScale
  <1>3. size \in Sizes /\ TILE_SIZE[size] \in Nat \ {0}
    BY PictureTilesAssumption DEF Sizes
  <1>4. width \in Nat \ {0} /\ width = Width(size)
    <2>1. PICK w \in Nat : TILE_SIZE[size] = w * Scale
      BY <1>3 DEF OneScale
    <2>2. PICK n \in Nat \ {0} : n = Scale
      BY <1>2
    <2>3. w # 0
      BY <1>3, <2>1, <2>2
    <2>4. (w * n) \div n = w
      OBVIOUS
    <2> QED  BY <1>2, <2>1, <2>2, <2>3, <2>4 DEF Width
  <1> HIDE DEF size, width
  <1>5. inflated \in Interval /\ <<0, scene.size>> \in Interval
    <2>1. PICK n \in Nat \ {0}, w \in Nat : n = view.scale /\ w = width
      BY <1>2, <1>4
    <2>2. /\ view.at \div n \in Int /\ (view.at + Screen) \div n \in Int
          /\ Inflation * w \in Int
      <3>1. PICK v \in Int, s \in Nat, i \in Nat : v = view.at /\ s = Screen /\ i = Inflation
        BY <1>2, PictureTilesAssumption
      <3>2. v \div n \in Int /\ (v + s) \div n \in Int /\ i * w \in Int
        OBVIOUS
      <3> QED  BY <3>1, <3>2
    <2> QED  BY <1>2, <2>1, <2>2 DEF Interval
  <1>6. needed \in Interval
    BY <1>5, IntersectionIs
  <1> HIDE DEF needed
  <1>7. first \in Int /\ last \in Int
    BY <1>4, <1>6 DEF Interval
  <1> HIDE DEF first, last
  <1>8. bounds \in Interval
    BY <1>4, <1>7 DEF Interval
  <1>9. \A x \in Slice.coords : x \in Int /\ Slice.rect[x] = RectOf(size, x)
    BY <1>1, <1>4, <1>7 DEF RectOf
  <1>10. \A x \in Slice.coords, u \in Int : Within(u, Slice.rect[x]) => Within(u, bounds)
    <2> TAKE x \in Slice.coords, u \in Int
    <2>1. x \in Int /\ first <= x /\ x + 1 <= last /\ width \in Nat
      BY <1>1, <1>4, <1>7
    <2>2. first * width <= x * width /\ (x + 1) * width <= last * width
      BY <2>1, <1>7
    <2>3. Slice.rect[x] = <<x * width, (x + 1) * width>>
      BY <1>1
    <2>4. PICK a \in Int, b \in Int, c \in Int, d \in Int :
            a = first * width /\ b = x * width /\ c = (x + 1) * width /\ d = last * width
      BY <2>1, <1>7
    <2> QED  BY <2>2, <2>3, <2>4 DEF Within
  <1>11. reached \in SUBSET DOMAIN scene.prims
    OBVIOUS
  <1>12. prims \in Seq(Primitive) /\ ToSet(prims) = {scene.prims[i] : i \in reached}
    <2> HIDE DEF reached
    <2> QED  BY <1>2, <1>11, SelectedIs
  <1>13. ToSet(Slice.prims) = {p \in ToSet(scene.prims) : Meets(p.rect, bounds)}
    <2>1. Slice.prims = prims
      BY <1>1
    <2>2. reached = {i \in DOMAIN scene.prims : Meets(scene.prims[i].rect, bounds)}
      OBVIOUS
    <2> HIDE DEF prims, reached, bounds
    <2> QED  BY <1>12, <2>1, <2>2 DEF ToSet
  <1> HIDE DEF prims, reached, bounds
  <1>14. \A x \in Slice.coords, u \in Int, p \in ToSet(scene.prims) :
           Within(u, Slice.rect[x]) /\ Within(u, p.rect) => p \in ToSet(Slice.prims)
    <2> TAKE x \in Slice.coords, u \in Int, p \in ToSet(scene.prims)
    <2>1. p.rect \in Interval
      BY SceneIs DEF Primitive
    <2> QED  BY <1>8, <1>10, <1>13, <2>1, IntersectionIs
  <1>15. \A x \in Slice.coords, u \in Int, p \in ToSet(Slice.prims) :
           image.dirty /\ p.kind = "image" /\ Within(u, Slice.rect[x]) /\ Within(u, p.clip)
             => Slice.changed.image
    <2> TAKE x \in Slice.coords, u \in Int, p \in ToSet(Slice.prims)
    <2>1. p.clip \in Interval
      BY <1>13, SceneIs DEF Primitive
    <2>2. Within(u, Slice.rect[x]) /\ Within(u, p.clip) => Meets(p.clip, bounds)
      BY <1>8, <1>10, <2>1, IntersectionIs
    <2> QED  BY <1>1, <2>2
  <1>16. /\ Slice.changed.image => image.dirty
         /\ Slice.changed.image \in BOOLEAN /\ Slice.changed.fract \in BOOLEAN
         /\ ~Slice.changed.fract => Base.fract = view.fract
         /\ ~Slice.changed.turn => Base.turn = turn
         /\ ~Slice.changed.fade => Base.fade = fade
    BY <1>1 DEF TypesOK
  <1>17. \A x \in DOMAIN Slice.tiles : Base.size = Slice.size
    BY <1>1
  <1> QED  BY <1>1, <1>3, <1>9, <1>12, <1>13, <1>14, <1>15, <1>16, <1>17 DEF IsSlice
-----------------------------------------------------------------------------
(* What is recorded of a tile, and what looks agree with it.  A video is   *)
(* drawn again in every frame: the record says nothing of how it looks.    *)

IsVideo(uid) == \E s \in Scenes : \E p \in ToSet(s.prims) : p.uid = uid /\ p.kind = "video"
VideosKnown == \A s \in Scenes : \A p \in ToSet(s.prims) : IsVideo(p.uid) => p.kind = "video"

At(t, u) == {i \in DOMAIN t.prims : Within(u, t.prims[i].clip)}
UnderVideo(t, u) == \E i \in At(t, u) : IsVideo(t.prims[i].uid)

(* A look of a primitive, by its descriptor d, the caches' record c and    *)
(* the version v of the image, if that is known                            *)
Matches(d, l, c, v) ==
  /\ l.uid = d.uid
  /\ l.turn = IF d.turned THEN c.turn ELSE NoValue
  /\ l.fade = IF d.fading THEN c.fade ELSE NoValue
  /\ d.image /\ v # NoValue => l.image = v
  /\ ~d.image => l.image = NoValue
  /\ ~IsVideo(d.uid) => l.video = NoValue
Agrees(t, c, v, u, look) ==
  /\ look.background = t.background /\ look.fract = c.fract /\ look.scale = Scale
  /\ \A l \in look.prims : \E i \in At(t, u) : Matches(t.prims[i], l, c, v)
  /\ \A i \in At(t, u) : \E l \in look.prims : Matches(t.prims[i], l, c, v)
Known == IF image.dirty \/ skipped THEN NoValue ELSE image.version

(* Every leaf lists the primitives seen in it.                             *)
LeavesOK(t, rect) ==
  /\ \E m \in Nat : DOMAIN t.prims = 1..m
  /\ \A i \in DOMAIN t.prims : t.prims[i].clip \in Interval
  /\ t.leaves \in Seq(Seq(Nat)) /\ Len(t.leaves) \in {1, 2}
  /\ \A k \in 1..Len(t.leaves) : ToSet(t.leaves[k]) \subseteq DOMAIN t.prims
  /\ \A k \in 1..Len(t.leaves), u \in Int : \A i \in At(t, u) :
       Within(u, rect) /\ Within(u, LeafRect(rect, k, Len(t.leaves)))
         => i \in ToSet(t.leaves[k])
AllDirty(t, rect) == \A u \in Int : Within(u, rect) => Within(u, t.dirty)
TileRecordOK(t, rect) ==
  /\ t.dirty \in Interval /\ LeavesOK(t, rect)
  /\ t.valid \in BOOLEAN
  /\ t.surface = "None" =>
       /\ Len(t.leaves) = 1 /\ ToSet(t.leaves[1]) = DOMAIN t.prims
       /\ DOMAIN t.prims = {} \/ AllDirty(t, rect)

LEMMA DescriptorIs ==
  ASSUME NEW p \in Primitive, NEW rect \in Interval
  PROVE  /\ \A u \in Int : Within(u, rect) =>
              (Within(u, Descriptor(p, rect).clip) <=> Within(u, p.clip))
         /\ Descriptor(p, rect).clip \in Interval
         /\ Descriptor(p, rect).uid = p.uid /\ Descriptor(p, rect).turned = p.turned
         /\ Descriptor(p, rect).fading = (p.kind = "fading")
         /\ Descriptor(p, rect).image = (p.kind = "image")
  <1>1. p.clip \in Interval
    BY DEF Primitive
  <1>2. Descriptor(p, rect).clip = p.clip \/ Descriptor(p, rect).clip = Clamp(p.clip, rect)
    BY DEF Descriptor
  <1>3. \A u \in Int : Within(u, rect) =>
          (Within(u, Descriptor(p, rect).clip) <=> Within(u, p.clip))
    BY <1>1, <1>2, ClampIs
  <1>4. /\ Descriptor(p, rect).uid = p.uid /\ Descriptor(p, rect).turned = p.turned
        /\ Descriptor(p, rect).fading = (p.kind = "fading")
        /\ Descriptor(p, rect).image = (p.kind = "image")
    BY DEF Descriptor
  <1> QED  BY <1>1, <1>2, <1>3, <1>4, ClampType

(* What an update records of a tile, and what it marks dirty               *)
IsUpdate(old, t, x, s) ==
  /\ t.dirty \in Interval /\ t.valid \in BOOLEAN /\ (t.valid => IsEmpty(t.dirty))
  /\ t.background = scene.background
  /\ \A u \in Int : Within(u, s.rect[x]) =>
       /\ s.changed.fract \/ old.background # scene.background => Within(u, t.dirty)
       /\ Within(u, old.dirty) => Within(u, t.dirty)
       /\ \A p \in ToSet(s.prims) : p.kind = "video" /\ Within(u, p.rect) => Within(u, t.dirty)
  /\ \A u \in Int, k \in 1..Len(old.leaves) :
       Within(u, LeafRect(s.rect[x], k, Len(old.leaves))) /\ ~SameLeaf(old, t, k, s.changed)
         => Within(u, t.dirty)
  /\ LeavesOK(t, s.rect[x]) /\ Len(t.leaves) = Len(old.leaves)
  /\ Len(t.leaves) = 1 => ToSet(t.leaves[1]) = DOMAIN t.prims
  /\ t.prims # <<>> => DOMAIN t.prims # {}
  /\ Len(t.prims) = 1 => DOMAIN t.prims = {1}
  /\ t.age = old.age
  /\ t.opaque = Covers(s.backdrop.rect,
       Intersection(Intersection(s.rect[x], <<0, scene.size>>), scene.clip))
  /\ \A u \in Int, p \in ToSet(scene.prims) :
       Within(u, s.rect[x]) /\ Within(u, p.clip)
         => \E i \in DOMAIN t.prims : t.prims[i] = Descriptor(p, s.rect[x])
  /\ \A i \in DOMAIN t.prims : \E p \in ToSet(s.prims) : t.prims[i] = Descriptor(p, s.rect[x])

LEMMA UpdatedIs ==
  ASSUME OneScale, TypesOK, NEW s, IsSlice(s), NEW x \in s.coords, NEW old, IsTile(old),
         TileRecordOK(old, s.rect[x])
  PROVE  IsUpdate(old, Updated(old, x, s), x, s)
  <1> DEFINE rect == s.rect[x]
             reached == {i \in DOMAIN s.prims : Meets(s.prims[i].rect, rect)}
             prims == Selected(s.prims, reached)
             n == Len(old.leaves)
             start == IF s.changed.fract \/ old.background # scene.background
                      THEN rect ELSE old.dirty
             videos == {p.rect : p \in {q \in ToSet(prims) : ~is_cacheable(q)}}
             first == Hull({start} \cup videos)
             new == [old EXCEPT
                       !.background = scene.background,
                       !.opaque = Covers(s.backdrop.rect,
                          Intersection(Intersection(rect, <<0, scene.size>>), scene.clip)),
                       !.prims = [i \in DOMAIN prims |-> Descriptor(prims[i], rect)],
                       !.leaves = add_prim(prims, rect, n),
                       !.dirty = first]
             changed == {LeafRect(rect, k, Len(new.leaves)) :
                          k \in {l \in DOMAIN new.leaves : ~SameLeaf(old, new, l, s.changed)}}
             t == Updated(old, x, s)
  <1>1. rect \in Interval /\ rect = RectOf(s.size, x) /\ x \in Int
    BY UnitInTile DEF IsSlice
  <1>2. s.prims \in Seq(Primitive) /\ reached \in SUBSET DOMAIN s.prims
    BY DEF IsSlice
  <1>3. /\ prims \in Seq(Primitive) /\ ToSet(prims) = {s.prims[i] : i \in reached}
        /\ Len(prims) \in Nat /\ DOMAIN prims = 1..Len(prims)
        /\ \A i \in DOMAIN prims : prims[i] \in Primitive
    <2> HIDE DEF reached
    <2>1. prims \in Seq(Primitive) /\ ToSet(prims) = {s.prims[i] : i \in reached}
      BY <1>2, SelectedIs
    <2> QED  BY <2>1, LenProperties, ElementOfSeq
  <1>4. ToSet(prims) = {p \in ToSet(s.prims) : Meets(p.rect, rect)}
    BY <1>3 DEF ToSet
  <1>5. n \in {1, 2} /\ old.dirty \in Interval /\ old.valid \in BOOLEAN
    BY DEF TileRecordOK, LeavesOK
  <1>6. /\ new.prims = [i \in DOMAIN prims |-> Descriptor(prims[i], rect)]
        /\ new.leaves = add_prim(prims, rect, n) /\ new.dirty = first
        /\ new.background = scene.background /\ new.valid = old.valid /\ new.age = old.age
        /\ new.opaque = Covers(s.backdrop.rect,
             Intersection(Intersection(rect, <<0, scene.size>>), scene.clip))
        /\ DOMAIN new = TileFields
    BY DEF IsTile, TileFields
  <1>7. t = [new EXCEPT !.dirty = Hull({new.dirty} \cup changed),
                        !.valid = @ /\ IsEmpty(Hull({new.dirty} \cup changed))]
    BY DEF Updated, update_dirty_rects
  <1> HIDE DEF new
  <1>8. /\ t.prims = new.prims /\ t.leaves = new.leaves /\ t.background = scene.background
        /\ t.dirty = Hull({first} \cup changed)
        /\ t.valid = (old.valid /\ IsEmpty(t.dirty))
        /\ t.age = old.age /\ t.opaque = new.opaque
    BY <1>6, <1>7 DEF TileFields
  <1>9. \A k : SameLeaf(old, t, k, s.changed) <=> SameLeaf(old, new, k, s.changed)
    BY <1>8 DEF SameLeaf
  <1> HIDE DEF t
  <1>10. /\ videos \in SUBSET Interval /\ IsFiniteSet(videos)
         /\ \A p \in ToSet(s.prims), u \in Int :
              p.kind = "video" /\ Within(u, p.rect) /\ Within(u, rect)
                => \E r \in videos : Within(u, r)
    <2>1. \A p \in ToSet(s.prims) : p.rect \in Interval
      BY SceneIs DEF IsSlice, Primitive
    <2>2. videos \in SUBSET Interval
      BY <1>4, <2>1
    <2>3. IsFiniteSet(videos)
      <3> DEFINE some == {q \in ToSet(prims) : ~is_cacheable(q)}
                 f == [i \in 1..Len(prims) |-> prims[i]]
                 g == [p \in some |-> p.rect]
      <3>1. f \in Surjection(1..Len(prims), ToSet(prims))
        BY <1>3 DEF Surjection, ToSet
      <3>2. IsFiniteSet(1..Len(prims))
        BY <1>3, FS_Interval
      <3>3. IsFiniteSet(ToSet(prims))
        <4> HIDE DEF f, prims
        <4> QED  BY <3>1, <3>2, FS_Surjection
      <3>4. IsFiniteSet(some)
        <4> HIDE DEF prims
        <4> QED  BY <3>3, FS_Subset
      <3>5. g \in Surjection(some, videos)
        BY DEF Surjection
      <3> HIDE DEF g, some, videos
      <3> QED  BY <3>4, <3>5, FS_Surjection
    <2>4. ASSUME NEW p \in ToSet(s.prims), NEW u \in Int,
                 p.kind = "video", Within(u, p.rect), Within(u, rect)
          PROVE  \E r \in videos : Within(u, r)
      <3>1. Meets(p.rect, rect)
        BY <1>1, <2>1, <2>4, IntersectionIs
      <3>2. p \in ToSet(prims) /\ ~is_cacheable(p)
        BY <1>4, <2>4, <3>1 DEF is_cacheable
      <3> QED  BY <2>4, <3>2
    <2> QED  BY <2>2, <2>3, <2>4
  <1>11. start \in Interval
    BY <1>1, <1>5
  <1> HIDE DEF videos
  <1>12. first \in Interval /\ \A r \in {start} \cup videos, u \in Int :
                                 Within(u, r) => Within(u, first)
    <2>1. {start} \cup videos \in SUBSET Interval
      BY <1>10, <1>11
    <2>2. IsFiniteSet({start} \cup videos)
      BY <1>10, FS_AddElement, {start} \cup videos = videos \cup {start}
    <2> HIDE DEF start
    <2> QED  BY <2>1, <2>2, HullIs
  <1> HIDE DEF first
  <1>13. new.leaves = [k \in 1..n |-> InOrder({i \in DOMAIN prims :
                          n = 1 \/ Meets(prims[i].rect, LeafRect(rect, k, n))})]
    BY <1>6 DEF add_prim
  <1>14. /\ new.leaves \in Seq(Seq(Nat)) /\ Len(new.leaves) = n /\ DOMAIN new.leaves = 1..n
         /\ \A k \in 1..n : ToSet(new.leaves[k]) =
              {i \in DOMAIN prims : n = 1 \/ Meets(prims[i].rect, LeafRect(rect, k, n))}
    <2>1. \A k \in 1..n : new.leaves[k] \in Seq(Nat) /\ ToSet(new.leaves[k]) =
            {i \in DOMAIN prims : n = 1 \/ Meets(prims[i].rect, LeafRect(rect, k, n))}
      <3> TAKE k \in 1..n
      <3> DEFINE listed == {i \in DOMAIN prims :
                              n = 1 \/ Meets(prims[i].rect, LeafRect(rect, k, n))}
      <3>1. listed \in SUBSET (1..Len(prims)) /\ Len(prims) \in Nat
        BY <1>3
      <3>2. new.leaves[k] = InOrder(listed)
        BY <1>13
      <3> HIDE DEF listed
      <3>3. InOrder(listed) \in Seq(listed) /\ ToSet(InOrder(listed)) = listed
        BY <3>1, InOrderIs
      <3>4. listed \subseteq Nat
        BY <3>1
      <3> QED  BY <3>2, <3>3, <3>4, SeqMonotonic DEF listed
    <2>2. n \in Nat
      BY <1>5
    <2>3. new.leaves \in [1..n -> Seq(Nat)]
      BY <1>13, <2>1
    <2>4. new.leaves \in Seq(Seq(Nat))
      BY <2>2, <2>3, SeqDef
    <2>5. Len(new.leaves) = n
      BY <2>2, <2>3, <2>4, LenProperties
    <2> QED  BY <2>1, <2>3, <2>4, <2>5
  <1>15. changed \in SUBSET Interval /\ IsFiniteSet(changed)
    <2>1. changed \subseteq {LeafRect(rect, k, n) : k \in 1..n}
      BY <1>14
    <2>2. \A k \in 1..n : LeafRect(rect, k, n) \in Interval /\ k \in {1, 2}
      <3>1. \A m \in {1, 2} : \A k \in 1..m : k \in {1, 2}
        OBVIOUS
      <3> QED  BY <1>1, <1>5, <3>1, LeafRectIs
    <2>3. changed \subseteq {LeafRect(rect, 1, n)} \cup {LeafRect(rect, 2, n)}
      BY <2>1, <2>2
    <2>4. changed \in SUBSET Interval
      BY <2>1, <2>2
    <2>5. IsFiniteSet({LeafRect(rect, 1, n)} \cup {LeafRect(rect, 2, n)})
      <3>1. \A a, b : IsFiniteSet({a} \cup {b})
        BY FS_Singleton, FS_AddElement
      <3> QED  BY <3>1
    <2> HIDE DEF changed
    <2> QED  BY <2>3, <2>4, <2>5, FS_Subset
  <1>16. \A u \in Int, k \in 1..n :
           Within(u, LeafRect(rect, k, n)) /\ ~SameLeaf(old, t, k, s.changed)
             => \E r \in changed : Within(u, r)
    BY <1>9, <1>14
  <1> HIDE DEF changed
  <1>17. t.dirty \in Interval /\ \A r \in {first} \cup changed, u \in Int :
                                   Within(u, r) => Within(u, t.dirty)
    <2>1. {first} \cup changed \in SUBSET Interval
      BY <1>12, <1>15
    <2>2. IsFiniteSet({first} \cup changed)
      BY <1>15, FS_AddElement, {first} \cup changed = changed \cup {first}
    <2> QED  BY <1>8, <2>1, <2>2, HullIs
  <1>18. \A u \in Int : Within(u, start) => Within(u, t.dirty)
    BY <1>12, <1>17
  <1>19. \A u \in Int : Within(u, rect) =>
           /\ s.changed.fract \/ old.background # scene.background => Within(u, t.dirty)
           /\ Within(u, old.dirty) => Within(u, t.dirty)
           /\ \A p \in ToSet(s.prims) :
                p.kind = "video" /\ Within(u, p.rect) => Within(u, t.dirty)
    BY <1>10, <1>12, <1>17, <1>18
  <1>20. \A u \in Int, k \in 1..n :
           Within(u, LeafRect(rect, k, n)) /\ ~SameLeaf(old, t, k, s.changed)
             => Within(u, t.dirty)
    BY <1>16, <1>17
  <1>21. DOMAIN t.prims = DOMAIN prims /\ \A i \in DOMAIN prims : t.prims[i] = Descriptor(prims[i], rect)
    BY <1>6, <1>8
  <1>22. /\ t.prims # <<>> => DOMAIN t.prims # {}
         /\ Len(t.prims) = 1 => DOMAIN t.prims = {1}
    <2> DEFINE D == {Descriptor(prims[i], rect) : i \in DOMAIN prims}
    <2>1. t.prims = [i \in 1..Len(prims) |-> Descriptor(prims[i], rect)]
      BY <1>3, <1>6, <1>8
    <2>2. t.prims \in [1..Len(prims) -> D]
      BY <1>3, <2>1
    <2> HIDE DEF D
    <2>3. t.prims \in Seq(D)
      BY <1>3, <2>2, SeqDef
    <2>4. Len(t.prims) \in Nat /\ DOMAIN t.prims = 1..Len(t.prims)
      BY <2>3, LenProperties
    <2>5. t.prims # <<>> => Len(t.prims) # 0
      BY <2>3, EmptySeq
    <2>6. Len(t.prims) # 0 => 1 \in DOMAIN t.prims
      BY <2>4
    <2>7. 1..1 = {1}
      OBVIOUS
    <2> QED  BY <2>4, <2>5, <2>6, <2>7
  <1>23. \A u \in Int, p \in ToSet(scene.prims) :
           Within(u, rect) /\ Within(u, p.clip)
             => \E i \in DOMAIN t.prims : t.prims[i] = Descriptor(p, rect)
    <2> SUFFICES ASSUME NEW u \in Int, NEW p \in ToSet(scene.prims),
                        Within(u, rect), Within(u, p.clip)
                 PROVE  \E i \in DOMAIN t.prims : t.prims[i] = Descriptor(p, rect)
      OBVIOUS
    <2>1. p \in Primitive /\ Within(u, p.rect)
      BY SceneIs, ClipIsWithin
    <2>2. p \in ToSet(s.prims) /\ p.rect \in Interval
      BY <2>1 DEF IsSlice, Primitive
    <2>3. p \in ToSet(prims)
      BY <1>1, <1>4, <2>1, <2>2, IntersectionIs
    <2> QED  BY <1>21, <2>3 DEF ToSet
  <1>24. \A i \in DOMAIN t.prims : \E p \in ToSet(s.prims) : t.prims[i] = Descriptor(p, rect)
    BY <1>4, <1>21 DEF ToSet
  <1>25. LeavesOK(t, rect)
    <2>1. ASSUME NEW k \in 1..n, NEW u \in Int, NEW i \in At(t, u),
                 Within(u, rect), Within(u, LeafRect(rect, k, n))
          PROVE  i \in ToSet(t.leaves[k])
      <3>1. i \in DOMAIN prims /\ Within(u, Descriptor(prims[i], rect).clip)
        BY <1>21, <2>1 DEF At
      <3>2. Within(u, prims[i].clip) /\ prims[i] \in Primitive
        BY <1>1, <1>3, <2>1, <3>1, DescriptorIs
      <3>3. Within(u, prims[i].rect) /\ prims[i].rect \in Interval
        <4>1. prims[i] \in ToSet(scene.prims)
          BY <1>4, <3>1 DEF IsSlice, ToSet
        <4> QED  BY <3>2, <4>1, SceneIs, ClipIsWithin DEF Primitive
      <3>4. LeafRect(rect, k, n) \in Interval
        BY <1>1, <1>5, LeafRectIs
      <3>5. Meets(prims[i].rect, LeafRect(rect, k, n))
        BY <2>1, <3>3, <3>4, IntersectionIs
      <3> QED  BY <1>8, <1>14, <3>1, <3>5
    <2>2. \A k \in 1..n : ToSet(t.leaves[k]) \subseteq DOMAIN t.prims
      BY <1>8, <1>14, <1>21
    <2>3. \E m \in Nat : DOMAIN t.prims = 1..m
      BY <1>3, <1>21
    <2>4. t.leaves \in Seq(Seq(Nat)) /\ Len(t.leaves) = n
      BY <1>8, <1>14
    <2>5. \A i \in DOMAIN t.prims : t.prims[i].clip \in Interval
      BY <1>1, <1>3, <1>21, DescriptorIs
    <2> QED  BY <1>5, <2>1, <2>2, <2>3, <2>4, <2>5 DEF LeavesOK
  <1>26. Len(t.leaves) = 1 => ToSet(t.leaves[1]) = DOMAIN t.prims
    <2> SUFFICES ASSUME n = 1  PROVE ToSet(t.leaves[1]) = DOMAIN t.prims
      BY <1>8, <1>14
    <2>1. 1 \in 1..n
      BY <1>5
    <2>2. ToSet(new.leaves[1]) =
            {i \in DOMAIN prims : n = 1 \/ Meets(prims[i].rect, LeafRect(rect, 1, n))}
      BY <1>14, <2>1
    <2> QED  BY <1>8, <1>21, <2>2
  <1>27. t.valid \in BOOLEAN /\ (t.valid => IsEmpty(t.dirty))
    BY <1>5, <1>8
  <1>28. Len(t.leaves) = Len(old.leaves)
    BY <1>8, <1>14
  <1>29. IsUpdate(old, t, x, s)
    BY <1>6, <1>8, <1>17, <1>19, <1>20, <1>22, <1>23, <1>24, <1>25, <1>26, <1>27, <1>28
       DEF IsUpdate
  <1> QED  BY <1>29 DEF t

(* What the caches record after the frame, and what the image's version is *)
(* known to be                                                             *)
NextRecord(c, s) ==
  /\ c.fract = view.fract /\ c.fade = fade
  /\ (\E p \in ToSet(s.prims) : p.turned) => c.turn = turn
NextKnown(s) ==
  IF ~s.changed.image /\ (image.dirty \/ skipped) THEN NoValue ELSE image.version

(* In what an update leaves clean, the look that agreed with the record    *)
(* does so with the new one, and there is no video.                        *)
LEMMA UpdateKeeps ==
  ASSUME OneScale, TypesOK, VideosKnown, NEW s, IsSlice(s), NEW x \in s.coords,
         NEW old, TileRecordOK(old, s.rect[x]),
         NEW t, IsUpdate(old, t, x, s), NEW c, NextRecord(c, s),
         NEW u \in Int, Within(u, s.rect[x]), ~Within(u, t.dirty), NEW look,
         Within(u, old.dirty) \/ Agrees(old, Base, Known, u, look)
  PROVE  Agrees(t, c, NextKnown(s), u, look) /\ ~UnderVideo(t, u)
  <1> DEFINE rect == s.rect[x]
             n == Len(old.leaves)
  <1>1. rect \in Interval
    BY UnitInTile DEF IsSlice
  <1>2. /\ ~s.changed.fract /\ old.background = scene.background /\ t.background = scene.background
        /\ ~Within(u, old.dirty)
        /\ \A p \in ToSet(s.prims) : ~(p.kind = "video" /\ Within(u, p.rect))
    BY DEF IsUpdate
  <1>3. PICK k \in 1..n : Within(u, LeafRect(rect, k, n))
    <2>1. n \in {1, 2}
      BY DEF TileRecordOK, LeavesOK
    <2> QED  BY <1>1, <2>1, LeafRectIs
  <1>4. SameLeaf(old, t, k, s.changed)
    BY <1>3 DEF IsUpdate
  <1> DEFINE a == old.leaves[k]
             b == t.leaves[k]
  <1>5. /\ a \in Seq(Nat) /\ ToSet(a) \subseteq DOMAIN old.prims
        /\ \A i \in At(old, u) : i \in ToSet(a)
    BY <1>3, ElementOfSeq DEF TileRecordOK, LeavesOK
  <1>6. /\ b \in Seq(Nat) /\ ToSet(b) \subseteq DOMAIN t.prims
        /\ \A i \in At(t, u) : i \in ToSet(b)
    BY <1>3, ElementOfSeq DEF IsUpdate, LeavesOK
  <1>7. /\ DOMAIN a = DOMAIN b
        /\ \A j \in DOMAIN b : is_prim_same(old.prims[a[j]], t.prims[b[j]], s.changed)
    BY <1>4, <1>5, <1>6, LenProperties DEF SameLeaf
  <1> HIDE DEF a, b
  <1>8. ASSUME NEW i \in At(t, u)
        PROVE  \E h \in At(old, u) : is_prim_same(old.prims[h], t.prims[i], s.changed)
    <2>1. PICK j \in DOMAIN b : i = b[j]
      BY <1>6 DEF ToSet
    <2>2. a[j] \in DOMAIN old.prims
      BY <1>5, <1>7 DEF ToSet
    <2>3. is_prim_same(old.prims[a[j]], t.prims[i], s.changed)
      BY <1>7, <2>1
    <2>4. a[j] \in At(old, u)
      BY <2>2, <2>3 DEF At, is_prim_same
    <2> QED  BY <2>3, <2>4
  <1>9. ASSUME NEW h \in At(old, u)
        PROVE  \E i \in At(t, u) : is_prim_same(old.prims[h], t.prims[i], s.changed)
    <2>1. PICK j \in DOMAIN a : h = a[j]
      BY <1>5 DEF ToSet
    <2>2. b[j] \in DOMAIN t.prims
      BY <1>6, <1>7 DEF ToSet
    <2>3. is_prim_same(old.prims[h], t.prims[b[j]], s.changed)
      BY <1>7, <2>1
    <2>4. b[j] \in At(t, u)
      BY <2>2, <2>3 DEF At, is_prim_same
    <2> QED  BY <2>3, <2>4
  <1>10. ASSUME NEW i \in At(t, u)
         PROVE  \E p \in ToSet(s.prims) :
                  /\ p \in ToSet(scene.prims) /\ p \in Primitive /\ Within(u, p.clip)
                  /\ t.prims[i].uid = p.uid /\ t.prims[i].turned = p.turned
    <2>1. i \in DOMAIN t.prims /\ Within(u, t.prims[i].clip)
      BY <1>10 DEF At
    <2>2. PICK p \in ToSet(s.prims) : t.prims[i] = Descriptor(p, rect)
      BY <2>1 DEF IsUpdate
    <2>3. p \in ToSet(scene.prims) /\ p \in Primitive
      BY SceneIs DEF IsSlice
    <2> QED  BY <1>1, <2>1, <2>2, <2>3, DescriptorIs
  <1>11. ~UnderVideo(t, u)
    <2> SUFFICES ASSUME NEW i \in At(t, u), IsVideo(t.prims[i].uid)  PROVE FALSE
      BY DEF UnderVideo
    <2>1. PICK p \in ToSet(s.prims) :
            /\ p \in ToSet(scene.prims) /\ p \in Primitive /\ Within(u, p.clip)
            /\ t.prims[i].uid = p.uid
      BY <1>10
    <2>2. p.kind = "video"
      BY <2>1 DEF VideosKnown, TypesOK
    <2>3. Within(u, p.rect)
      BY <2>1, SceneIs, ClipIsWithin
    <2> QED  BY <1>2, <2>2, <2>3
  <1>12. Agrees(old, Base, Known, u, look)
    BY <1>2
  <1>13. ASSUME NEW i \in At(t, u), NEW h \in At(old, u), NEW l,
                is_prim_same(old.prims[h], t.prims[i], s.changed),
                Matches(old.prims[h], l, Base, Known)
         PROVE  Matches(t.prims[i], l, c, NextKnown(s))
    <2> DEFINE d == t.prims[i]
    <2>1. /\ old.prims[h] = d /\ (d.turned => ~s.changed.turn)
          /\ (d.fading => ~s.changed.fade) /\ (d.image => ~s.changed.image)
      BY <1>13 DEF is_prim_same
    <2>2. d.turned => c.turn = turn
      BY <1>10 DEF NextRecord
    <2>3. d.turned => Base.turn = c.turn
      BY <2>1, <2>2 DEF IsSlice
    <2>4. d.fading => Base.fade = c.fade
      BY <2>1 DEF IsSlice, NextRecord
    <2>5. d.image => NextKnown(s) = Known
      BY <2>1 DEF NextKnown, Known
    <2> HIDE DEF d
    <2> QED  BY <1>13, <2>1, <2>3, <2>4, <2>5 DEF Matches, d
  <1>14. look.background = t.background /\ look.fract = c.fract /\ look.scale = Scale
    BY <1>2, <1>12 DEF Agrees, IsSlice, NextRecord
  <1>15. \A l \in look.prims : \E i \in At(t, u) : Matches(t.prims[i], l, c, NextKnown(s))
    BY <1>9, <1>12, <1>13 DEF Agrees
  <1>16. \A i \in At(t, u) : \E l \in look.prims : Matches(t.prims[i], l, c, NextKnown(s))
    BY <1>8, <1>12, <1>13 DEF Agrees
  <1> QED  BY <1>11, <1>14, <1>15, <1>16 DEF Agrees

(* What a frame asks for agrees with the record it makes, and looks alike  *)
(* whatever agrees with it where there is no video.                        *)
AlikeIf(l, m, unseen) ==
  /\ l.uid = m.uid /\ l.turn = m.turn /\ l.fade = m.fade /\ l.video = m.video
  /\ unseen \/ l.image = m.image
LooksLikeIf(a, b, unseen) ==
  /\ a.background = b.background /\ a.fract = b.fract /\ a.scale = b.scale
  /\ \A l \in a.prims : \E m \in b.prims : AlikeIf(l, m, unseen)
  /\ \A m \in b.prims : \E l \in a.prims : AlikeIf(l, m, unseen)

LEMMA ShownAgrees ==
  ASSUME OneScale, TypesOK, NEW s, IsSlice(s), NEW x \in s.coords,
         NEW old, NEW t, IsUpdate(old, t, x, s), NEW c, NextRecord(c, s),
         NEW u \in Int, Within(u, s.rect[x])
  PROVE  /\ Agrees(t, c, NextKnown(s), u, Shown(u))
         /\ \A look : Agrees(t, c, NextKnown(s), u, look) /\ ~UnderVideo(t, u)
              => LooksLikeIf(look, Shown(u), skipped /\ ~s.changed.image)
  <1> DEFINE rect == s.rect[x]
             v == NextKnown(s)
             here == {q \in ToSet(scene.prims) : Within(u, q.clip)}
  <1>1. rect \in Interval
    BY UnitInTile DEF IsSlice
  <1>d. \A p \in Primitive :
          /\ Descriptor(p, rect).uid = p.uid /\ (Descriptor(p, rect).turned <=> p.turned)
          /\ Descriptor(p, rect).fading <=> p.kind = "fading"
          /\ Descriptor(p, rect).image <=> p.kind = "image"
    <2> TAKE p \in Primitive
    <2> PICK r \in Interval : r = rect
      BY <1>1
    <2>1. /\ Descriptor(p, r).uid = p.uid /\ Descriptor(p, r).turned = p.turned
          /\ Descriptor(p, r).fading = (p.kind = "fading")
          /\ Descriptor(p, r).image = (p.kind = "image")
      BY DescriptorIs
    <2> QED  BY <2>1
  <1>2. /\ Shown(u).background = scene.background /\ Shown(u).fract = view.fract
        /\ Shown(u).scale = Scale /\ Shown(u).prims = {Look(p) : p \in here}
    BY DEF Shown, OneScale, TypesOK
  <1>3. \A p \in here : p \in Primitive /\ p \in ToSet(scene.prims) /\ p \in ToSet(s.prims)
    <2> TAKE p \in here
    <2>1. p \in Primitive /\ Within(u, p.rect)
      BY SceneIs, ClipIsWithin
    <2> QED  BY <2>1 DEF IsSlice
  <1>4. \A p \in here : \E i \in At(t, u) : t.prims[i] = Descriptor(p, rect)
    <2> TAKE p \in here
    <2>1. PICK i \in DOMAIN t.prims : t.prims[i] = Descriptor(p, rect)
      BY DEF IsUpdate
    <2>2. Within(u, t.prims[i].clip)
      BY <1>1, <1>3, <2>1, DescriptorIs
    <2> QED  BY <2>1, <2>2 DEF At
  <1>5. \A i \in At(t, u) : \E p \in here : t.prims[i] = Descriptor(p, rect)
    <2> TAKE i \in At(t, u)
    <2>1. i \in DOMAIN t.prims /\ Within(u, t.prims[i].clip)
      BY DEF At
    <2>2. PICK p \in ToSet(s.prims) : t.prims[i] = Descriptor(p, rect)
      BY <2>1 DEF IsUpdate
    <2>3. p \in ToSet(scene.prims) /\ p \in Primitive
      BY SceneIs DEF IsSlice
    <2>4. Within(u, p.clip)
      BY <1>1, <2>1, <2>2, <2>3, DescriptorIs
    <2> QED  BY <2>2, <2>3, <2>4
  <1>6. \A p \in here : /\ Look(p).uid = p.uid
                        /\ Look(p).turn = IF p.turned THEN c.turn ELSE NoValue
                        /\ Look(p).fade = IF p.kind = "fading" THEN c.fade ELSE NoValue
                        /\ Look(p).image = IF p.kind = "image" THEN image.version ELSE NoValue
                        /\ p.kind # "video" => Look(p).video = NoValue
    BY <1>3 DEF Look, NextRecord
  <1>7. v = NoValue \/ v = image.version
    BY DEF NextKnown
  <1>8. \A p \in here : (p.kind = "video") => IsVideo(p.uid)
    BY <1>3 DEF IsVideo, TypesOK
  <1>9. \A p \in here : Matches(Descriptor(p, rect), Look(p), c, v)
    <2> TAKE p \in here
    <2>1. PICK d : d = Descriptor(p, rect) /\ p \in Primitive
      BY <1>3
    <2>2. /\ d.uid = p.uid /\ (d.turned <=> p.turned)
          /\ (d.fading <=> p.kind = "fading") /\ (d.image <=> p.kind = "image")
      BY <1>d, <2>1
    <2>3. ~IsVideo(d.uid) => p.kind # "video"
      BY <1>8, <2>2
    <2>4. PICK l : l = Look(p)
      OBVIOUS
    <2> HIDE DEF here, v, rect
    <2>5. Matches(d, l, c, v)
      BY <1>6, <1>7, <2>2, <2>3, <2>4 DEF Matches
    <2> QED  BY <2>1, <2>4, <2>5
  <1>10. Agrees(t, c, v, u, Shown(u))
    BY <1>2, <1>4, <1>5, <1>9 DEF Agrees, IsUpdate, NextRecord
  <1>11. ASSUME NEW look, Agrees(t, c, v, u, look), ~UnderVideo(t, u)
         PROVE  LooksLikeIf(look, Shown(u), skipped /\ ~s.changed.image)
    <2> DEFINE unseen == skipped /\ ~s.changed.image
    <2>1. ASSUME NEW i \in At(t, u), NEW p \in here, t.prims[i] = Descriptor(p, rect),
                 NEW l, Matches(t.prims[i], l, c, v)
          PROVE  AlikeIf(l, Look(p), unseen)
      <3>1. p \in Primitive /\ p \in ToSet(s.prims) /\ Within(u, p.clip)
        BY <1>3
      <3>2. ~IsVideo(p.uid) /\ p.kind # "video"
        BY <1>d, <1>8, <1>11, <2>1, <3>1 DEF UnderVideo
      <3>3. p.kind = "image" /\ ~unseen => v = image.version /\ v # NoValue
        <4>1. p.kind = "image" /\ image.dirty => s.changed.image
          BY <3>1 DEF IsSlice
        <4>2. image.version # NoValue
          BY DEF TypesOK, NoValue
        <4> QED  BY <4>1, <4>2 DEF NextKnown
      <3>4. PICK d : d = Descriptor(p, rect)
        OBVIOUS
      <3>5. /\ d.uid = p.uid /\ (d.turned <=> p.turned)
            /\ (d.fading <=> p.kind = "fading") /\ (d.image <=> p.kind = "image")
        BY <1>d, <3>1, <3>4
      <3>6. Matches(d, l, c, v)
        BY <2>1, <3>4
      <3>7. PICK m : m = Look(p)
        OBVIOUS
      <3>8. /\ m.uid = p.uid /\ m.turn = IF p.turned THEN c.turn ELSE NoValue
            /\ m.fade = IF p.kind = "fading" THEN c.fade ELSE NoValue
            /\ m.image = IF p.kind = "image" THEN image.version ELSE NoValue
            /\ m.video = NoValue
        BY <1>6, <3>2, <3>7
      <3> HIDE DEF unseen, v, here, rect
      <3>9. AlikeIf(l, m, unseen)
        BY <3>2, <3>3, <3>5, <3>6, <3>8 DEF Matches, AlikeIf
      <3> QED  BY <3>7, <3>9
    <2>2. /\ look.background = Shown(u).background /\ look.fract = Shown(u).fract
          /\ look.scale = Shown(u).scale
      BY <1>2, <1>11 DEF Agrees, IsUpdate, NextRecord
    <2>3. \A l \in look.prims : \E m \in Shown(u).prims : AlikeIf(l, m, unseen)
      <3> TAKE l \in look.prims
      <3>1. PICK i \in At(t, u) : Matches(t.prims[i], l, c, v)
        BY <1>11 DEF Agrees
      <3>2. PICK p \in here : t.prims[i] = Descriptor(p, rect)
        BY <1>5
      <3> QED  BY <1>2, <2>1, <3>1, <3>2
    <2>4. \A m \in Shown(u).prims : \E l \in look.prims : AlikeIf(l, m, unseen)
      <3> TAKE m \in Shown(u).prims
      <3>1. PICK p \in here : m = Look(p)
        BY <1>2
      <3>2. PICK i \in At(t, u) : t.prims[i] = Descriptor(p, rect)
        BY <1>4
      <3>3. PICK l \in look.prims : Matches(t.prims[i], l, c, v)
        BY <1>11 DEF Agrees
      <3> QED  BY <2>1, <3>1, <3>2, <3>3
    <2> QED  BY <2>2, <2>3, <2>4 DEF LooksLikeIf
  <1> QED  BY <1>10, <1>11

(* A tile that splits or merges its leaves still lists all primitives.     *)
LEMMA SplitLeaves ==
  ASSUME NEW rect \in Interval, NEW t, IsTile(t), LeavesOK(t, rect)
  PROVE  LeavesOK(maybe_merge_or_split(t, rect), rect)
  <1> DEFINE m == maybe_merge_or_split(t, rect)
             seen(k) == {i \in ToSet(t.leaves[1]) : Meets(t.prims[i].clip, LeafRect(rect, k, 2))}
             all == ToSet(t.leaves[1]) \cup ToSet(t.leaves[2])
  <1>1. PICK top \in Nat : DOMAIN t.prims = 1..top
    BY DEF LeavesOK
  <1>2. m.prims = t.prims
    BY SplitTile DEF TileFields
  <1>3. m.leaves = IF Len(t.leaves) = 1 THEN [k \in 1..2 |-> InOrder(seen(k))]
                   ELSE << InOrder(all) >>
    BY DEF maybe_merge_or_split, IsTile, TileFields
  <1> SUFFICES LeavesOK(m, rect)
    OBVIOUS
  <1> HIDE DEF m
  <1>4. \A u : At(m, u) = At(t, u)
    BY <1>2 DEF At
  <1>5. \A I \in SUBSET (1..top) : InOrder(I) \in Seq(Nat) /\ ToSet(InOrder(I)) = I
    <2> TAKE I \in SUBSET (1..top)
    <2>1. InOrder(I) \in Seq(I) /\ ToSet(InOrder(I)) = I
      BY InOrderIs
    <2>2. I \subseteq Nat
      OBVIOUS
    <2> QED  BY <2>1, <2>2, SeqMonotonic
  <1> DEFINE Lists(n) ==
        /\ \A k \in 1..n : ToSet(m.leaves[k]) \subseteq DOMAIN m.prims
        /\ \A k \in 1..n, u \in Int : \A i \in At(m, u) :
             Within(u, rect) /\ Within(u, LeafRect(rect, k, n)) => i \in ToSet(m.leaves[k])
  <1>6. ASSUME m.leaves \in Seq(Seq(Nat)), NEW n \in {1, 2}, Len(m.leaves) = n, Lists(n)
        PROVE  LeavesOK(m, rect)
    <2>1. DOMAIN m.prims = 1..top /\ \A i \in DOMAIN m.prims : m.prims[i].clip \in Interval
      BY <1>1, <1>2 DEF LeavesOK
    <2> HIDE DEF m
    <2> QED  BY <1>6, <2>1 DEF LeavesOK
  <1>7. CASE Len(t.leaves) = 1
    <2>1. ToSet(t.leaves[1]) \subseteq 1..top
      BY <1>1, <1>7 DEF LeavesOK
    <2>2. \A k \in 1..2 : seen(k) \in SUBSET (1..top)
      BY <2>1
    <2>3. \A k \in 1..2 : m.leaves[k] = InOrder(seen(k))
      BY <1>3, <1>7
    <2>4. \A k \in 1..2 : m.leaves[k] \in Seq(Nat) /\ ToSet(m.leaves[k]) = seen(k)
      <3> HIDE DEF seen
      <3> QED  BY <1>5, <2>2, <2>3
    <2>5. m.leaves \in [1..2 -> Seq(Nat)]
      BY <1>3, <1>7, <2>3, <2>4
    <2>6. m.leaves \in Seq(Seq(Nat)) /\ Len(m.leaves) = 2
      <3>1. \A S : \A r \in [1..2 -> S] : r \in Seq(S)
        BY SeqDef
      <3>2. m.leaves \in Seq(Seq(Nat))
        BY <2>5, <3>1
      <3> QED  BY <2>5, <3>2, LenProperties
    <2>7. ASSUME NEW k \in 1..2, NEW u \in Int, NEW i \in At(t, u),
                 Within(u, rect), Within(u, LeafRect(rect, k, 2))
          PROVE  i \in seen(k)
      <3>1. Len(t.leaves) = 1 /\ Within(u, LeafRect(rect, 1, 1))
        BY <1>7, <2>7, LeafRectIs
      <3>2. i \in ToSet(t.leaves[1])
        BY <2>7, <3>1 DEF LeavesOK
      <3>3. i \in DOMAIN t.prims /\ Within(u, t.prims[i].clip)
        BY <2>7 DEF At
      <3>4. Meets(t.prims[i].clip, LeafRect(rect, k, 2))
        <4>1. LeafRect(rect, k, 2) \in Interval
          BY LeafRectIs
        <4>2. t.prims[i].clip \in Interval
          BY <3>3 DEF LeavesOK
        <4> QED  BY <2>7, <3>3, <4>1, <4>2, IntersectionIs
      <3> QED  BY <3>2, <3>4
    <2> HIDE DEF seen
    <2>8. Lists(2)
      BY <1>1, <1>2, <1>4, <2>2, <2>4, <2>7
    <2> QED  BY <1>6, <2>6, <2>8
  <1>8. CASE Len(t.leaves) = 2
    <2>1. all \in SUBSET (1..top)
      BY <1>1, <1>8 DEF LeavesOK
    <2>2. InOrder(all) \in Seq(Nat) /\ ToSet(InOrder(all)) = all
      <3> HIDE DEF all
      <3> QED  BY <1>5, <2>1
    <2>3. m.leaves = << InOrder(all) >>
      BY <1>3, <1>8
    <2>4. m.leaves \in Seq(Seq(Nat)) /\ Len(m.leaves) = 1 /\ m.leaves[1] = InOrder(all)
      BY <2>2, <2>3
    <2>5. \A u \in Int : \A i \in At(t, u) : Within(u, rect) => i \in all
      <3> TAKE u \in Int
      <3> TAKE i \in At(t, u)
      <3> HAVE Within(u, rect)
      <3>1. PICK k \in 1..2 : Within(u, LeafRect(rect, k, 2))
        BY LeafRectIs
      <3>2. i \in ToSet(t.leaves[k])
        BY <1>8, <3>1 DEF LeavesOK
      <3> QED  BY <3>2
    <2> HIDE DEF all
    <2>6. \A k \in 1..1 : k = 1
      OBVIOUS
    <2>7. Lists(1)
      BY <1>1, <1>2, <1>4, <2>1, <2>2, <2>4, <2>5, <2>6
    <2> QED  BY <1>6, <2>4, <2>7
  <1> QED  BY <1>7, <1>8 DEF LeavesOK

(* What the frame knows of a tile it draws                                 *)
IsDrawn(old, t, f, rect) ==
  /\ f.prims = t.prims /\ f.background = t.background /\ f.opaque = t.opaque
  /\ LeavesOK(f, rect)
  /\ \/ f.dirty = t.dirty /\ f.valid = t.valid /\ (old.surface = "Native" => f.opaque = old.opaque)
     \/ f.dirty = rect /\ f.valid = FALSE
  /\ f.surface = "Texture" /\ f.age # NoValue => old.surface = "Texture" /\ old.age # NoValue
  /\ f.surface = "Native" => old.surface \in {"None", "Native"}
  /\ f.surface \in {"Color", "Clear"} => Len(t.prims) = 1 /\ t.opaque

LEMMA FinishedIs ==
  ASSUME NEW x, NEW s, NEW wanting, NEW old, IsTile(old), s.rect[x] \in Interval,
         NEW t, IsTile(t), t.surface = old.surface, t.age = old.age,
         LeavesOK(t, s.rect[x])
  PROVE  IsDrawn(old, t, Finished(old, t, x, s, wanting), s.rect[x])
  <1> DEFINE rect == s.rect[x]
             m == IF x \in wanting THEN maybe_merge_or_split(t, rect) ELSE t
             f == Surfaced(old, m, x, s)
  <1>1. Finished(old, t, x, s, wanting) = f
    BY DEF Finished
  <1>2. /\ IsTile(m) /\ LeavesOK(m, rect) /\ m.prims = t.prims /\ m.background = t.background
        /\ m.opaque = t.opaque /\ m.dirty = t.dirty /\ m.valid = t.valid
        /\ m.surface = old.surface /\ m.age = old.age
    BY SplitTile, SplitLeaves DEF TileFields
  <1> HIDE DEF m
  <1>3. f.prims = m.prims /\ f.background = m.background /\ f.leaves = m.leaves /\ f.opaque = m.opaque
    BY <1>2 DEF Surfaced, IsTile, TileFields
  <1>4. LeavesOK(f, rect)
    BY <1>2, <1>3 DEF LeavesOK, At
  <1>5. CASE Len(m.prims) = 1 /\ m.opaque /\ ~Native
    <2>1. /\ f.surface \in {"Clear", "Color"} /\ f.dirty = m.dirty /\ f.valid = m.valid
          /\ old.surface # "Native"
      BY <1>2, <1>5 DEF Surfaced, IsTile, TileFields, Surfaces
    <2> HIDE DEF f
    <2> QED  BY <1>1, <1>2, <1>3, <1>4, <1>5, <2>1 DEF IsDrawn
  <1>6. CASE ~(Len(m.prims) = 1 /\ m.opaque /\ ~Native)
    <2>1. CASE m.surface = "Texture"
      <3>1. f = m
        BY <1>6, <2>1 DEF Surfaced
      <3> HIDE DEF f
      <3> QED  BY <1>1, <1>2, <1>3, <1>4, <2>1, <3>1 DEF IsDrawn
    <2>2. CASE m.surface = "Native"
      <3>1. f.surface = "Native" /\ \/ f.dirty = rect /\ f.valid = FALSE
                                    \/ f = m /\ m.opaque = old.opaque
        BY <1>2, <1>6, <2>2 DEF Surfaced, IsTile, TileFields
      <3> HIDE DEF f
      <3> QED  BY <1>1, <1>2, <1>3, <1>4, <2>2, <3>1 DEF IsDrawn
    <2>3. CASE m.surface \notin {"Texture", "Native"}
      <3>1. /\ f.surface = (IF Native THEN "Native" ELSE "Texture") /\ f.age = NoValue
            /\ f.dirty = m.dirty /\ f.valid = m.valid
        BY <1>2, <1>6, <2>3 DEF Surfaced, IsTile, TileFields
      <3>2. Native => old.surface = "None"
        BY <1>2, <2>3 DEF IsTile, Surfaces
      <3> HIDE DEF f
      <3> QED  BY <1>1, <1>2, <1>3, <1>4, <2>3, <3>1, <3>2 DEF IsDrawn
    <2> QED  BY <2>1, <2>2, <2>3
  <1> QED  BY <1>5, <1>6

(* A tile that has its first primitives and never had a surface is to be   *)
(* drawn in full.                                                          *)
LEMMA NewlyDirty ==
  ASSUME NEW x, NEW s, s.rect[x] \in Interval, NEW old, old.surface = "None",
         TileRecordOK(old, s.rect[x]), NEW t, IsUpdate(old, t, x, s), DOMAIN t.prims # {}
  PROVE  AllDirty(t, s.rect[x])
  <1> SUFFICES ASSUME NEW u \in Int, Within(u, s.rect[x])  PROVE Within(u, t.dirty)
    BY DEF AllDirty
  <1>1. Len(old.leaves) = 1 /\ ToSet(old.leaves[1]) = DOMAIN old.prims
    BY DEF TileRecordOK
  <1>2. CASE AllDirty(old, s.rect[x])
    BY <1>2 DEF AllDirty, IsUpdate
  <1>3. CASE DOMAIN old.prims = {}
    <2>1. Len(t.leaves) = 1 /\ ToSet(t.leaves[1]) = DOMAIN t.prims
      BY <1>1 DEF IsUpdate
    <2>2. old.leaves[1] \in Seq(Nat) /\ t.leaves[1] \in Seq(Nat)
      BY <1>1, <2>1, ElementOfSeq DEF TileRecordOK, IsUpdate, LeavesOK
    <2>3. DOMAIN old.leaves[1] = {}
      BY <1>1, <1>3 DEF ToSet
    <2>4. DOMAIN t.leaves[1] # {}
      BY <2>1 DEF ToSet
    <2>5. Len(old.leaves[1]) # Len(t.leaves[1])
      BY <2>2, <2>3, <2>4, LenProperties
    <2>6. ~SameLeaf(old, t, 1, s.changed)
      BY <2>5 DEF SameLeaf
    <2>7. Within(u, LeafRect(s.rect[x], 1, 1))
      BY LeafRectIs
    <2>8. 1 \in 1..Len(old.leaves)
      BY <1>1
    <2> QED  BY <1>1, <2>6, <2>7, <2>8 DEF IsUpdate
  <1> QED  BY <1>2, <1>3 DEF TileRecordOK

(* Where an opaque tile of one primitive can be seen there is just that.   *)
LEMMA ColorTile ==
  ASSUME OneScale, TypesOK, VideosKnown, NEW s, IsSlice(s), NEW x \in s.coords,
         NEW old, NEW t, IsUpdate(old, t, x, s), Len(t.prims) = 1, t.opaque,
         NEW u \in Int, Within(u, s.rect[x]),
         Within(u, Intersection(<<0, scene.size>>, scene.clip))
  PROVE  Cardinality(Shown(u).prims) = 1
  <1> DEFINE rect == s.rect[x]
             page == <<0, scene.size>>
             clipped == Intersection(Intersection(rect, page), scene.clip)
             here == {q \in ToSet(scene.prims) : Within(u, q.clip)}
  <1>1. rect \in Interval /\ page \in Interval /\ scene.clip \in Interval
    <2>1. rect \in Interval
      BY UnitInTile DEF IsSlice
    <2>2. scene.size \in Nat /\ scene.clip \in Interval
      BY SceneIs DEF Scene
    <2> QED  BY <2>1, <2>2 DEF Interval
  <1>2. clipped \in Interval /\ Within(u, clipped)
    <2>1. Within(u, page) /\ Within(u, scene.clip)
      BY <1>1, IntersectionIs
    <2>2. Intersection(rect, page) \in Interval /\ Within(u, Intersection(rect, page))
      BY <1>1, <2>1, IntersectionIs
    <2> QED  BY <1>1, <2>1, <2>2, IntersectionIs
  <1>3. Covers(s.backdrop.rect, clipped)
    BY DEF IsUpdate
  <1>4. s.backdrop.rect = Nowhere \/ \E p \in ToSet(s.prims) : s.backdrop.rect = p.clip
    <2>1. IsBackdrop(Backdrop(s.prims), s.prims)
      BY BackdropIs DEF IsSlice
    <2> QED  BY <2>1 DEF IsSlice, IsBackdrop
  <1> HIDE DEF clipped
  <1>5. \E p \in ToSet(scene.prims) : p \in here
    <2>1. s.backdrop.rect \in Interval
      <3>1. Nowhere \in Interval
        BY DEF Nowhere, Interval
      <3>2. \A p \in ToSet(s.prims) : p.clip \in Interval
        BY SceneIs DEF IsSlice, Primitive
      <3> QED  BY <1>4, <3>1, <3>2
    <2>2. Within(u, s.backdrop.rect)
      BY <1>2, <1>3, <2>1 DEF Covers, Within, IsEmpty, Interval
    <2>3. s.backdrop.rect # Nowhere
      BY <2>2 DEF Nowhere, Within
    <2> QED  BY <1>4, <2>2, <2>3 DEF IsSlice
  <1>6. ASSUME NEW p \in here, NEW q \in here
        PROVE  Look(p) = Look(q)
    <2>1. Descriptor(p, rect) = t.prims[1] /\ Descriptor(q, rect) = t.prims[1]
      BY DEF IsUpdate
    <2>2. p \in Primitive /\ q \in Primitive
      BY SceneIs
    <2>3. p.uid = q.uid /\ p.turned = q.turned
      BY <1>1, <2>1, <2>2, DescriptorIs
    <2>4. (p.kind = "fading") = (q.kind = "fading") /\ (p.kind = "image") = (q.kind = "image")
      BY <1>1, <2>1, <2>2, DescriptorIs
    <2>5. (p.kind = "video") <=> (q.kind = "video")
      BY <2>3 DEF VideosKnown, IsVideo, TypesOK
    <2> HIDE DEF here
    <2> QED  BY <2>3, <2>4, <2>5 DEF Look
  <1>7. PICK p \in here : Shown(u).prims = {Look(p)}
    <2>1. Shown(u).prims = {Look(p) : p \in here}
      BY DEF Shown
    <2>2. PICK p : p \in here
      BY <1>5
    <2> HIDE DEF here
    <2> QED  BY <1>6, <2>1, <2>2
  <1> QED  BY <1>7, FS_Singleton

-----------------------------------------------------------------------------
(* The pixels there are once the renderer has drawn its frame              *)
WillBe == IF frame.rendered THEN pixels ELSE draw_frame(frame)

(* That one frame draws in them, as a function of what there is before     *)
IntactOf(P, f) == Restrict(P, DOMAIN P \ (f.created \cup f.recreated))
DrawnOf(P, f, id) ==
  [q \in DOMAIN f.tiles[id].look |->
     IF q \in f.tiles[id].drawn THEN f.tiles[id].look[q]
     ELSE IF f.tiles[id].fresh \/ id \notin DOMAIN IntactOf(P, f) THEN Blank ELSE P[id][q]]
DrawOf(P, f) ==
  [id \in DOMAIN IntactOf(P, f) \cup (IF f.rendered THEN {} ELSE Tasks(f)) |->
     IF id \in (IF f.rendered THEN {} ELSE Tasks(f)) THEN DrawnOf(P, f, id) ELSE P[id]]

IsDrawing(V, P, f) ==
  /\ DOMAIN V = (DOMAIN P \ (f.created \cup f.recreated)) \cup Tasks(f)
  /\ \A id \in DOMAIN P \ (f.created \cup f.recreated) :
       id \notin Tasks(f) => V[id] = P[id]
  /\ \A id \in Tasks(f) : \A q \in DOMAIN f.tiles[id].look :
       /\ q \in f.tiles[id].drawn => V[id][q] = f.tiles[id].look[q]
       /\ q \notin f.tiles[id].drawn /\ ~f.tiles[id].fresh
            /\ id \in DOMAIN P \ (f.created \cup f.recreated)
            => V[id][q] = P[id][q]

LEMMA DrawIs ==
  ASSUME NEW P, NEW f, f.rendered = FALSE
  PROVE  IsDrawing(DrawOf(P, f), P, f)
  <1>1. DOMAIN IntactOf(P, f) = DOMAIN P \ (f.created \cup f.recreated)
    BY DEF IntactOf, Restrict
  <1>2. DrawOf(P, f) = [id \in DOMAIN IntactOf(P, f) \cup Tasks(f) |->
                          IF id \in Tasks(f) THEN DrawnOf(P, f, id) ELSE P[id]]
    BY DEF DrawOf
  <1>3. \A id \in Tasks(f) : DrawOf(P, f)[id] = DrawnOf(P, f, id)
    BY <1>2
  <1>4. \A id \in Tasks(f) : \A q \in DOMAIN f.tiles[id].look :
          /\ q \in f.tiles[id].drawn => DrawnOf(P, f, id)[q] = f.tiles[id].look[q]
          /\ q \notin f.tiles[id].drawn /\ ~f.tiles[id].fresh
               /\ id \in DOMAIN P \ (f.created \cup f.recreated)
               => DrawnOf(P, f, id)[q] = P[id][q]
    <2> TAKE id \in Tasks(f)
    <2> TAKE q \in DOMAIN f.tiles[id].look
    <2>1. DrawnOf(P, f, id)[q] =
            IF q \in f.tiles[id].drawn THEN f.tiles[id].look[q]
            ELSE IF f.tiles[id].fresh \/ id \notin DOMAIN IntactOf(P, f) THEN Blank ELSE P[id][q]
      BY DEF DrawnOf
    <2>2. id \in DOMAIN P \ (f.created \cup f.recreated) => id \in DOMAIN IntactOf(P, f)
      BY <1>1
    <2>3. q \in f.tiles[id].drawn => DrawnOf(P, f, id)[q] = f.tiles[id].look[q]
      BY <2>1
    <2>4. ASSUME q \notin f.tiles[id].drawn, ~f.tiles[id].fresh,
                 id \in DOMAIN P \ (f.created \cup f.recreated)
          PROVE  DrawnOf(P, f, id)[q] = P[id][q]
      <3>1. ~(f.tiles[id].fresh \/ id \notin DOMAIN IntactOf(P, f))
        BY <2>2, <2>4, Zenon
      <3> QED  BY <2>1, <2>4, <3>1, Zenon
    <2> QED  BY <2>3, <2>4
  <1>5. PICK V : V = DrawOf(P, f)
    OBVIOUS
  <1>6. IsDrawing(V, P, f)
    BY <1>1, <1>2, <1>3, <1>4, <1>5 DEF IsDrawing
  <1> QED  BY <1>5, <1>6

(* Of a new frame, that is what there will be; and whether or not the one  *)
(* it replaces is drawn, the renderer has what there was to be.            *)
IsKept(W, kept) ==
  /\ DOMAIN pixels = kept \cap DOMAIN W
  /\ \A id \in DOMAIN pixels : pixels[id] = W[id]

LEMMA PublishedPixels ==
  ASSUME TilesInv, NEW new, new.rendered = FALSE, NEW kept, Publish(new, kept), NEW W, W = WillBe
  PROVE  IsKept(W, kept)' /\ WillBe' = DrawOf(pixels', new)
  <1>1. frame' = new /\ WillBe' = DrawOf(pixels', new)
    BY DEF Publish, WillBe, draw_frame, DrawOf, Intact, IntactOf, Drawn, DrawnOf, Tasks
  <1>2. CASE must_be_drawn(frame)
    <2>1. W = draw_frame(frame)
      BY <1>2 DEF must_be_drawn, WillBe
    <2>2. pixels' = Restrict(W, kept \cap DOMAIN W)
      BY <1>2, <2>1 DEF Publish
    <2> QED  BY <1>1, <2>2 DEF Restrict, IsKept
  <1>3. CASE ~must_be_drawn(frame)
    <2>1. pixels' = Restrict(pixels, kept \cap DOMAIN pixels)
      BY <1>3 DEF Publish
    <2>2. DOMAIN W = DOMAIN pixels /\ \A id \in DOMAIN W : W[id] = pixels[id]
      <3>1. CASE frame.rendered
        BY <3>1 DEF WillBe
      <3>2. CASE ~frame.rendered
        <4>1. Tasks(frame) = {} /\ frame.created \cup frame.recreated = {}
          BY <1>3, <3>2 DEF must_be_drawn, TilesInv, FrameOK
        <4>2. DOMAIN Intact(frame) = DOMAIN pixels
          BY <4>1 DEF Intact, Restrict
        <4>3. W = [id \in DOMAIN Intact(frame) |-> pixels[id]]
          BY <3>2, <4>1 DEF WillBe, draw_frame
        <4> QED  BY <4>2, <4>3
      <3> QED  BY <3>1, <3>2
    <2> QED  BY <1>1, <2>1, <2>2 DEF Restrict, IsKept
  <1> QED  BY <1>2, <1>3

-----------------------------------------------------------------------------
(* What there will be of a tile agrees with its record wherever it is not  *)
(* marked dirty, and what a frame shows is what it was asked for.          *)

Live(t) == t.surface = "Native" \/ (t.surface = "Texture" /\ t.age # NoValue)
Holds(t, c, v, W, z, x) ==
  Live(t) =>
    /\ t.id \in DOMAIN W
    /\ \A q \in PixelsOf(z, x) :
         Within(Unit(q), t.dirty) \/ Agrees(t, c, v, Unit(q), W[t.id][q])
CacheFields == {"tiles", "fract", "turn", "fade", "size"}
CacheInv(c, v, W) ==
  /\ DOMAIN c = CacheFields
  /\ \A x \in DOMAIN c.tiles :
       /\ x \in Int /\ c.size \in Sizes
       /\ TileRecordOK(c.tiles[x], RectOf(c.size, x))
       /\ Holds(c.tiles[x], c, v, W, c.size, x)
TileShows(ct, id, W, unseen) ==
  IF ct.surface \in {"Texture", "Native"}
  THEN /\ id \in DOMAIN W
       /\ \A q \in ct.visible : LooksLikeIf(W[id][q], ct.look[q], unseen)
  ELSE \A q \in ct.visible : Cardinality(ct.look[q].prims) = 1
FrameShows(f, W, unseen) ==
  \A id \in DOMAIN f.tiles : TileShows(f.tiles[id], id, W, unseen)

PixelsInv ==
  /\ TypesOK
  /\ CacheInv(cache, Known, WillBe) /\ CacheInv(retained, Known, WillBe)
  /\ FrameShows(frame, WillBe, skipped)

LEMMA ShownAtLast == PixelsInv => TilesAreCurrent
  <1> SUFFICES ASSUME PixelsInv, frame.rendered  PROVE \A id \in DOMAIN frame.tiles : ShowsItsScene(id)
    BY DEF TilesAreCurrent
  <1>1. WillBe = pixels
    BY DEF WillBe
  <1>2. \A a, b : LooksLike(a, b) <=> LooksLikeIf(a, b, skipped)
    BY DEF LooksLike, LooksLikeIf, SameLook, AlikeIf
  <1> QED  BY <1>1, <1>2 DEF PixelsInv, FrameShows, TileShows, ShowsItsScene

LEMMA PixelsInit == Init => PixelsInv
  <1> SUFFICES ASSUME Init  PROVE PixelsInv
    OBVIOUS
  <1>1. TypesOK
    BY DEF Init, TypesOK
  <1>2. /\ DOMAIN cache.tiles = {} /\ DOMAIN retained.tiles = {} /\ DOMAIN frame.tiles = {}
        /\ DOMAIN cache = CacheFields /\ DOMAIN retained = CacheFields
    BY DEF Init, NewCache, NoFrame, CacheFields
  <1> QED  BY <1>1, <1>2 DEF PixelsInv, CacheInv, FrameShows
-----------------------------------------------------------------------------
(* One tile in a frame                                                     *)

LEMMA OldTilesOK ==
  ASSUME OneScale, TilesInv, PixelsInv, NEW s, s = Slice, IsSlice(s),
         NEW next \in FirstUnused(Added(s))
  PROVE  \A x \in s.coords :
           /\ IsTile(Existing(s, next)[x])
           /\ TileRecordOK(Existing(s, next)[x], s.rect[x])
           /\ Holds(Existing(s, next)[x], Base, Known, WillBe, s.size, x)
  <1> DEFINE old == Existing(s, next)
  <1> TAKE x \in s.coords
  <1>1. IsTile(old[x]) /\ s.rect[x] = RectOf(s.size, x)
    BY ExistingTiles DEF TilesOK, TileOK, IsSlice
  <1>2. CASE x \in DOMAIN s.tiles
    <2>1. x \in DOMAIN Base.tiles /\ old[x] = Base.tiles[x] /\ Base.size = s.size
      BY <1>2, SliceTiles DEF Existing, Added, IsSlice
    <2>2. CacheInv(Base, Known, WillBe)
      BY DEF Base, PixelsInv
    <2> QED  BY <1>1, <2>1, <2>2 DEF CacheInv
  <1>3. CASE x \notin DOMAIN s.tiles
    <2>1. PICK new : new = NewTile(next + x) /\ new = old[x]
      BY <1>3 DEF Existing, Added
    <2>2. /\ new.surface = "None" /\ new.valid = FALSE /\ new.dirty = Nowhere
          /\ new.prims = <<>> /\ new.leaves = << <<>> >>
      BY <2>1 DEF NewTile
    <2>3. /\ new.leaves \in Seq(Seq(Nat)) /\ Len(new.leaves) = 1 /\ new.leaves[1] = <<>>
          /\ DOMAIN new.prims = {} /\ DOMAIN new.prims = 1..0
      BY <2>2
    <2>4. ToSet(new.leaves[1]) = {}
      BY <2>3 DEF ToSet
    <2>5. \A k \in 1..Len(new.leaves) : k = 1
      BY <2>3
    <2>6. LeavesOK(new, s.rect[x])
      BY <2>3, <2>4, <2>5 DEF LeavesOK, At
    <2>7. TileRecordOK(new, s.rect[x])
      <3>1. new.dirty \in Interval /\ new.valid \in BOOLEAN
        <4>1. <<0, 0>> \in Int \X Int
          OBVIOUS
        <4>2. Nowhere \in Interval
          BY <4>1 DEF Nowhere, Interval
        <4> QED  BY <2>2, <4>2
      <3>2. Len(new.leaves) = 1 /\ ToSet(new.leaves[1]) = DOMAIN new.prims /\ DOMAIN new.prims = {}
        BY <2>3, <2>4
      <3> QED  BY <2>6, <3>1, <3>2 DEF TileRecordOK
    <2>8. ~Live(new)
      BY <2>2 DEF Live
    <2> QED  BY <1>1, <2>1, <2>7, <2>8 DEF Holds
  <1> QED  BY <1>2, <1>3

(* How a frame carries a tile                                              *)
LEMMA CompositeIs ==
  ASSUME OneScale, TypesOK, NEW tile, NEW x, NEW s, NEW ct, ct = CompositeTile(tile, x, s)
  PROVE  /\ ct.surface = tile.surface
         /\ ct.task <=> ~tile.valid /\ tile.surface \in {"Texture", "Native"}
         /\ ct.fresh = Evicted(tile)
         /\ ct.drawn = {q \in PixelsOf(s.size, x) : Within(Unit(q), tile.dirty)}
         /\ ct.visible = {q \in PixelsOf(s.size, x) :
                            Within(Unit(q), Intersection(<<0, scene.size>>, scene.clip))}
         /\ DOMAIN ct.look = PixelsOf(s.size, x)
         /\ \A q \in PixelsOf(s.size, x) : ct.look[q] = Shown(Unit(q))
  <1>1. view.scale = Scale
    BY DEF OneScale, TypesOK
  <1>2. /\ ct.surface = tile.surface
        /\ ct.task = (~tile.valid /\ tile.surface \in {"Texture", "Native"})
        /\ ct.fresh = Evicted(tile)
    BY DEF CompositeTile
  <1>3. ct.drawn = {q \in PixelsOf(s.size, x) : Within(Unit(q), tile.dirty)}
    BY <1>1 DEF CompositeTile, PixelsOf, Unit
  <1>4. ct.visible = {q \in PixelsOf(s.size, x) :
                        Within(Unit(q), Intersection(<<0, scene.size>>, scene.clip))}
    BY <1>1 DEF CompositeTile, PixelsOf, Unit
  <1>5. ct.look = [q \in PixelsOf(s.size, x) |-> Shown(Unit(q))]
    BY <1>1 DEF CompositeTile, PixelsOf, Unit
  <1> QED  BY <1>2, <1>3, <1>4, <1>5

(* What there will be of a tile the frame draws: L, when P is what the     *)
(* renderer has of it, if it has any                                       *)
IsPainted(L, ct, P, has, z, x) ==
  \A q \in PixelsOf(z, x) :
    /\ ct.task =>
         /\ q \in ct.drawn => L[q] = ct.look[q]
         /\ q \notin ct.drawn /\ ~ct.fresh /\ has => L[q] = P[q]
    /\ ~ct.task /\ has => L[q] = P[q]
IsCurrent(L, t, c, s, x) ==
  \A q \in PixelsOf(s.size, x) :
    \/ L[q] = Shown(Unit(q))
    \/ Agrees(t, c, NextKnown(s), Unit(q), L[q]) /\ ~UnderVideo(t, Unit(q))

LEMMA DrawnTile ==
  ASSUME OneScale, TypesOK, VideosKnown, NEW s, IsSlice(s), NEW x \in s.coords,
         NEW old, IsTile(old), TileRecordOK(old, s.rect[x]),
         NEW W, Holds(old, Base, Known, W, s.size, x),
         NEW t, IsUpdate(old, t, x, s), t.prims # <<>>, NEW c, NextRecord(c, s),
         NEW f, IsFinished(old, f), IsDrawn(old, t, f, s.rect[x]),
         f.surface \in {"Texture", "Native"},
         NEW ct, ct = CompositeTile(Prepared(f, x, s), x, s),
         NEW has \in BOOLEAN,
         old.id \in DOMAIN W /\ (f.surface = "Native" => old.surface = "Native" /\ f.opaque = old.opaque)
           => has,
         NEW L, IsPainted(L, ct, W[old.id], has, s.size, x)
  PROVE  IsCurrent(L, t, c, s, x) /\ (ct.task \/ has)
  <1> DEFINE rect == s.rect[x]
             all == PixelsOf(s.size, x)
             g == Prepared(f, x, s)
  <1>1. /\ rect = RectOf(s.size, x) /\ rect \in Interval
        /\ \A q \in all : Unit(q) \in Int /\ Within(Unit(q), rect)
    BY UnitInTile DEF IsSlice
  <1>2. /\ ct.task <=> ~g.valid /\ g.surface \in {"Texture", "Native"}
        /\ ct.fresh = Evicted(g)
        /\ ct.drawn = {q \in all : Within(Unit(q), g.dirty)}
        /\ \A q \in all : ct.look[q] = Shown(Unit(q))
    BY CompositeIs
  <1>3. ASSUME g.valid = FALSE, g.surface \in {"Texture", "Native"},
               \A u \in Int : Within(u, rect) => Within(u, g.dirty)
        PROVE  IsCurrent(L, t, c, s, x) /\ ct.task
    BY <1>1, <1>2, <1>3 DEF IsPainted, IsCurrent
  <1>4. CASE Evicted(f)
    <2>1. g.valid = FALSE /\ g.dirty = rect /\ g.surface = f.surface
      BY <1>4 DEF Prepared, IsFinished, IsTile, TileFields
    <2> QED  BY <1>3, <2>1
  <1>5. CASE ~Evicted(f)
    <2>1. g = f
      BY <1>5 DEF Prepared
    <2>2. CASE f.dirty = rect /\ f.valid = FALSE
      BY <1>3, <2>1, <2>2
    <2>3. CASE /\ f.dirty = t.dirty /\ f.valid = t.valid
               /\ old.surface = "Native" => f.opaque = old.opaque
      <3>1. CASE old.surface = "None"
        <4>1. f.valid = FALSE
          BY <1>5, <3>1 DEF IsFinished, IsDrawn, IsTile, Surfaces, Evicted
        <4>2. DOMAIN t.prims # {}
          BY DEF IsUpdate
        <4>3. AllDirty(t, rect)
          BY <1>1, <3>1, <4>2, NewlyDirty
        <4> QED  BY <1>3, <2>1, <2>3, <4>1, <4>3 DEF AllDirty
      <3>2. CASE old.surface # "None"
        <4>1. Live(old) /\ (f.surface = "Native" => old.surface = "Native")
          BY <1>5, <3>2 DEF IsDrawn, Evicted, Live
        <4>2. /\ old.id \in DOMAIN W
              /\ \A q \in all : \/ Within(Unit(q), old.dirty)
                                \/ Agrees(old, Base, Known, Unit(q), W[old.id][q])
          BY <4>1 DEF Holds
        <4>3. has /\ ~ct.fresh
          BY <1>2, <1>5, <2>1, <2>3, <4>1, <4>2
        <4>4. ASSUME NEW q \in all, L[q] = W[old.id][q], ~Within(Unit(q), t.dirty)
              PROVE  Agrees(t, c, NextKnown(s), Unit(q), L[q]) /\ ~UnderVideo(t, Unit(q))
          BY <1>1, <4>2, <4>4, UpdateKeeps
        <4>5. ASSUME NEW q \in all
              PROVE  \/ L[q] = Shown(Unit(q))
                     \/ L[q] = W[old.id][q] /\ ~Within(Unit(q), t.dirty)
          <5>1. CASE ct.task
            BY <1>2, <2>1, <2>3, <4>3, <5>1 DEF IsPainted
          <5>2. CASE ~ct.task
            <6>1. t.valid = TRUE /\ t.valid \in BOOLEAN
              BY <1>2, <2>1, <2>3, <5>2 DEF IsUpdate
            <6>2. ~Within(Unit(q), t.dirty)
              BY <1>1, <6>1 DEF IsUpdate, IsEmpty, Within, Interval
            <6> QED  BY <4>3, <5>2, <6>2 DEF IsPainted
          <5> QED  BY <5>1, <5>2
        <4> QED  BY <4>3, <4>4, <4>5 DEF IsCurrent
      <3> QED  BY <3>1, <3>2
    <2> QED  BY <2>2, <2>3 DEF IsDrawn
  <1> QED  BY <1>4, <1>5

(* How a new frame carries its tiles                                       *)
IsNewFrame(f, s, old, finished) ==
  /\ f.rendered = FALSE /\ DOMAIN f.tiles = {old[x].id : x \in DOMAIN finished}
  /\ \A x \in DOMAIN finished :
       /\ f.tiles[old[x].id] = CompositeTile(Prepared(finished[x], x, s), x, s)
       /\ old[x].id \in f.created => finished[x].surface = "Native" /\ old[x].surface = "None"
       /\ old[x].id \in f.recreated =>
            /\ finished[x].surface = "Native" /\ old[x].surface = "Native"
            /\ old[x].opaque # finished[x].opaque
  /\ \A x \in DOMAIN old \ DOMAIN finished :
       old[x].id \notin DOMAIN f.tiles \cup f.created \cup f.recreated

LEMMA NewFrameIs ==
  ASSUME NEW s, NEW old, Distinct(old), NEW finished, DOMAIN finished \subseteq DOMAIN old
  PROVE  IsNewFrame(NewFrame(s, old, finished), s, old, finished)
  <1> DEFINE Place(id) == CHOOSE x \in DOMAIN finished : old[x].id = id
  <1>1. PICK f : f = NewFrame(s, old, finished)
    OBVIOUS
  <1>2. f.rendered = FALSE /\ DOMAIN f.tiles = {old[x].id : x \in DOMAIN finished}
    BY <1>1 DEF NewFrame
  <1>3. \A id \in f.created : \E x \in DOMAIN finished :
          id = old[x].id /\ old[x].surface = "None" /\ finished[x].surface = "Native"
    BY <1>1 DEF NewFrame
  <1>4. \A id \in f.recreated : \E x \in DOMAIN finished :
          /\ id = old[x].id /\ old[x].surface = "Native"
          /\ finished[x].surface = "Native" /\ old[x].opaque # finished[x].opaque
    BY <1>1 DEF NewFrame
  <1>5. \A x \in DOMAIN finished :
          f.tiles[old[x].id] = CompositeTile(Prepared(finished[Place(old[x].id)], Place(old[x].id), s),
                                             Place(old[x].id), s)
    BY <1>1 DEF NewFrame
  <1>6. \A x \in DOMAIN finished : Place(old[x].id) = x
    BY DEF Distinct
  <1>7. \A x \in DOMAIN finished, y \in DOMAIN old : old[x].id = old[y].id => x = y
    BY DEF Distinct
  <1>8. \A x \in DOMAIN finished :
          f.tiles[old[x].id] = CompositeTile(Prepared(finished[x], x, s), x, s)
    BY <1>5, <1>6
  <1> HIDE DEF Place
  <1>9. \A x \in DOMAIN finished :
          old[x].id \in f.created => finished[x].surface = "Native" /\ old[x].surface = "None"
    BY <1>3, <1>7
  <1>10. \A x \in DOMAIN finished :
           old[x].id \in f.recreated =>
             /\ finished[x].surface = "Native" /\ old[x].surface = "Native"
             /\ old[x].opaque # finished[x].opaque
    BY <1>4, <1>7
  <1>11. \A x \in DOMAIN old \ DOMAIN finished :
           old[x].id \notin DOMAIN f.tiles \cup f.created \cup f.recreated
    BY <1>2, <1>3, <1>4, <1>7
  <1> QED  BY <1>1, <1>2, <1>8, <1>9, <1>10, <1>11 DEF IsNewFrame

(* A tile the frame does not draw keeps what there was to be of it.        *)
LEMMA AgedIs ==
  ASSUME OneScale, TypesOK, VideosKnown, NEW s, IsSlice(s), NEW x \in s.coords,
         NEW old, IsTile(old), TileRecordOK(old, s.rect[x]),
         NEW W, Holds(old, Base, Known, W, s.size, x),
         NEW t, IsTile(t), t.id = old.id, t.surface = old.surface, IsUpdate(old, t, x, s),
         NEW c, NextRecord(c, s),
         NEW V, old.id \in DOMAIN W => old.id \in DOMAIN V /\ V[old.id] = W[old.id]
  PROVE  /\ TileRecordOK(Aged(t), s.rect[x])
         /\ Holds(Aged(t), c, NextKnown(s), V, s.size, x)
  <1>1. /\ s.rect[x] \in Interval
        /\ \A q \in PixelsOf(s.size, x) : Unit(q) \in Int /\ Within(Unit(q), s.rect[x])
    BY UnitInTile DEF IsSlice
  <1>2. PICK a : a = Aged(t)
    OBVIOUS
  <1>3. /\ a.id = t.id /\ a.surface = t.surface /\ a.valid = t.valid /\ a.dirty = t.dirty
        /\ a.background = t.background /\ a.prims = t.prims /\ a.leaves = t.leaves
        /\ a.age # NoValue => t.age # NoValue
    BY <1>2 DEF Aged, IsTile, TileFields
  <1>4. TileRecordOK(t, s.rect[x])
    <2>1. t.surface = "None" => Len(t.leaves) = 1 /\ ToSet(t.leaves[1]) = DOMAIN t.prims
      BY DEF IsUpdate, TileRecordOK
    <2>2. t.surface = "None" => DOMAIN t.prims = {} \/ AllDirty(t, s.rect[x])
      BY <1>1, NewlyDirty
    <2> QED  BY <2>1, <2>2 DEF IsUpdate, TileRecordOK
  <1>5. TileRecordOK(a, s.rect[x])
    BY <1>3, <1>4 DEF TileRecordOK, LeavesOK, At, AllDirty
  <1>6. ASSUME Live(a), NEW q \in PixelsOf(s.size, x), ~Within(Unit(q), t.dirty)
        PROVE  Agrees(a, c, NextKnown(s), Unit(q), V[a.id][q])
    <2>1. Live(old)
      BY <1>3, <1>6 DEF Live, IsUpdate
    <2>2. /\ V[a.id] = W[old.id]
          /\ Within(Unit(q), old.dirty) \/ Agrees(old, Base, Known, Unit(q), W[old.id][q])
      BY <1>3, <2>1 DEF Holds
    <2>3. Agrees(t, c, NextKnown(s), Unit(q), W[old.id][q])
      BY <1>1, <1>6, <2>2, UpdateKeeps
    <2> QED  BY <1>3, <2>2, <2>3 DEF Agrees, At
  <1>7. Live(a) => a.id \in DOMAIN V
    BY <1>3 DEF Live, IsUpdate, Holds
  <1>8. Holds(a, c, NextKnown(s), V, s.size, x)
    BY <1>3, <1>6, <1>7 DEF Holds
  <1> QED  BY <1>2, <1>5, <1>8

(* A tile the frame draws is clean, and agrees with its record.            *)
LEMMA TakenIs ==
  ASSUME OneScale, TypesOK, NEW s, IsSlice(s), NEW x \in s.coords,
         NEW old, NEW t, IsUpdate(old, t, x, s), NEW c, NextRecord(c, s),
         NEW f, IsFinished(old, f), IsDrawn(old, t, f, s.rect[x]),
         NEW V, f.surface \in {"Texture", "Native"}
                  => old.id \in DOMAIN V /\ IsCurrent(V[old.id], t, c, s, x)
  PROVE  /\ TileRecordOK(Taken(f), s.rect[x])
         /\ Holds(Taken(f), c, NextKnown(s), V, s.size, x)
  <1>1. \A q \in PixelsOf(s.size, x) : Unit(q) \in Int /\ Within(Unit(q), s.rect[x])
    BY UnitInTile DEF IsSlice
  <1>2. PICK a : a = Taken(f)
    OBVIOUS
  <1>3. /\ a.id = old.id /\ a.surface = f.surface /\ a.valid = TRUE /\ a.dirty = Nowhere
        /\ a.background = t.background /\ a.prims = t.prims /\ a.leaves = f.leaves
        /\ f.prims = t.prims /\ a.surface # "None" /\ LeavesOK(f, s.rect[x])
    BY <1>2 DEF Taken, IsFinished, IsDrawn, IsTile, TileFields
  <1>4. a.dirty \in Interval
    BY <1>3 DEF Nowhere, Interval
  <1>5. LeavesOK(a, s.rect[x])
    BY <1>3 DEF LeavesOK, At
  <1>6. TileRecordOK(a, s.rect[x])
    BY <1>3, <1>4, <1>5 DEF TileRecordOK
  <1>7. ASSUME f.surface \in {"Texture", "Native"}, NEW q \in PixelsOf(s.size, x)
        PROVE  Agrees(a, c, NextKnown(s), Unit(q), V[a.id][q])
    <2>1. Agrees(t, c, NextKnown(s), Unit(q), Shown(Unit(q)))
      BY <1>1, ShownAgrees
    <2>2. Agrees(t, c, NextKnown(s), Unit(q), V[a.id][q])
      BY <1>3, <1>7, <2>1 DEF IsCurrent
    <2> QED  BY <1>3, <2>2 DEF Agrees, At
  <1>8. Holds(a, c, NextKnown(s), V, s.size, x)
    BY <1>3, <1>7 DEF Holds, Live
  <1> QED  BY <1>2, <1>6, <1>8

(* What the new frame shows of a tile is what its scene asks for.          *)
LEMMA FrameTile ==
  ASSUME OneScale, TypesOK, VideosKnown, NEW s, IsSlice(s), NEW x \in s.coords,
         NEW old, NEW t, IsUpdate(old, t, x, s), NEW c, NextRecord(c, s),
         NEW f, IsFinished(old, f), IsDrawn(old, t, f, s.rect[x]),
         NEW ct, ct = CompositeTile(Prepared(f, x, s), x, s),
         NEW V, f.surface \in {"Texture", "Native"}
                  => old.id \in DOMAIN V /\ IsCurrent(V[old.id], t, c, s, x)
  PROVE  TileShows(ct, old.id, V, skipped /\ ~s.changed.image)
  <1>1. \A q \in PixelsOf(s.size, x) : Unit(q) \in Int /\ Within(Unit(q), s.rect[x])
    BY UnitInTile DEF IsSlice
  <1>2. Prepared(f, x, s).surface = f.surface
    BY DEF Prepared, IsFinished, IsTile, TileFields
  <1>3. PICK g : g = Prepared(f, x, s)
    OBVIOUS
  <1>4. /\ ct.surface = f.surface
        /\ ct.visible = {q \in PixelsOf(s.size, x) :
                           Within(Unit(q), Intersection(<<0, scene.size>>, scene.clip))}
        /\ \A q \in ct.visible : ct.look[q] = Shown(Unit(q))
    BY <1>2, <1>3, CompositeIs
  <1>5. CASE f.surface \in {"Texture", "Native"}
    <2>1. ASSUME NEW q \in ct.visible
          PROVE  LooksLikeIf(V[old.id][q], ct.look[q], skipped /\ ~s.changed.image)
      <3>1. q \in PixelsOf(s.size, x) /\ ct.look[q] = Shown(Unit(q))
        BY <1>4
      <3>2. CASE V[old.id][q] = Shown(Unit(q))
        BY <3>1, <3>2 DEF LooksLikeIf, AlikeIf
      <3>3. CASE /\ Agrees(t, c, NextKnown(s), Unit(q), V[old.id][q])
                 /\ ~UnderVideo(t, Unit(q))
        BY <1>1, <3>1, <3>3, ShownAgrees
      <3> QED  BY <1>5, <3>1, <3>2, <3>3 DEF IsCurrent
    <2> QED  BY <1>4, <1>5, <2>1 DEF TileShows
  <1>6. CASE f.surface \notin {"Texture", "Native"}
    <2>1. Len(t.prims) = 1 /\ t.opaque
      BY <1>6 DEF IsDrawn, IsFinished, IsTile, Surfaces
    <2>2. \A q \in ct.visible : Cardinality(ct.look[q].prims) = 1
      BY <1>1, <1>4, <2>1, ColorTile
    <2> QED  BY <1>4, <1>6, <2>2 DEF TileShows
  <1> QED  BY <1>5, <1>6

(* The tiles of a slice in a frame: as they were, as the frame finds them, *)
(* and as it draws them                                                    *)
IsRow(s, old, updated, toDraw, finished) ==
  /\ DOMAIN old = s.coords /\ Distinct(old)
  /\ toDraw \subseteq s.coords /\ DOMAIN finished = toDraw
  /\ \A x \in s.coords :
       /\ IsTile(old[x]) /\ TileRecordOK(old[x], s.rect[x])
       /\ Holds(old[x], Base, Known, WillBe, s.size, x)
       /\ IsTile(updated[x]) /\ updated[x].id = old[x].id
       /\ updated[x].surface = old[x].surface /\ IsUpdate(old[x], updated[x], x, s)
  /\ \A x \in toDraw :
       /\ updated[x].prims # <<>> /\ IsFinished(old[x], finished[x])
       /\ IsDrawn(old[x], updated[x], finished[x], s.rect[x])

LEMMA RowIs ==
  ASSUME OneScale, TilesInv, PixelsInv, NEW s, s = Slice, IsSlice(s),
         NEW next \in FirstUnused(Added(s)), NEW old, old = Existing(s, next),
         NEW updated, updated = [x \in s.coords |-> Updated(old[x], x, s)],
         NEW toDraw, toDraw = {x \in s.coords : ToDraw(updated[x], x, s)}, NEW wanting,
         NEW finished,
         finished = [x \in toDraw |-> Finished(old[x], updated[x], x, s, wanting)]
  PROVE  IsRow(s, old, updated, toDraw, finished)
  <1>1. DOMAIN old = s.coords /\ Distinct(old)
    BY ExistingTiles DEF TilesOK
  <1>2. toDraw \subseteq s.coords /\ DOMAIN finished = toDraw
    OBVIOUS
  <1>3. \A x \in s.coords : s.rect[x] \in Interval
    BY UnitInTile DEF IsSlice
  <1>4. \A x \in s.coords :
          /\ IsTile(old[x]) /\ TileRecordOK(old[x], s.rect[x])
          /\ Holds(old[x], Base, Known, WillBe, s.size, x)
    BY OldTilesOK
  <1>5. \A x \in s.coords :
          /\ updated[x] = Updated(old[x], x, s) /\ IsTile(updated[x])
          /\ updated[x].id = old[x].id /\ updated[x].surface = old[x].surface
    BY <1>4, UpdatedTile
  <1>6. \A x \in s.coords : IsUpdate(old[x], updated[x], x, s)
    BY <1>4, <1>5, UpdatedIs DEF PixelsInv
  <1>7. ASSUME NEW x \in toDraw
        PROVE  /\ updated[x].prims # <<>> /\ IsFinished(old[x], finished[x])
               /\ IsDrawn(old[x], updated[x], finished[x], s.rect[x])
    <2>1. /\ x \in s.coords /\ updated[x].prims # <<>>
          /\ finished[x] = Finished(old[x], updated[x], x, s, wanting)
      BY DEF ToDraw
    <2>2. IsFinished(old[x], finished[x])
      BY <1>4, <1>5, <2>1, FinishedTile
    <2>3. LeavesOK(updated[x], s.rect[x]) /\ updated[x].age = old[x].age
      BY <1>6, <2>1 DEF IsUpdate
    <2>4. IsDrawn(old[x], updated[x], finished[x], s.rect[x])
      BY <1>3, <1>4, <1>5, <2>1, <2>3, FinishedIs
    <2> QED  BY <2>1, <2>2, <2>4
  <1> QED  BY <1>1, <1>2, <1>4, <1>5, <1>6, <1>7 DEF IsRow

(* What there will be of a row of tiles once the new frame is drawn        *)
LEMMA RowDrawn ==
  ASSUME OneScale, TypesOK, VideosKnown, NEW s, IsSlice(s), NEW old, NEW updated,
         NEW toDraw, NEW finished, IsRow(s, old, updated, toDraw, finished),
         NEW f, IsNewFrame(f, s, old, finished), NEW c, NextRecord(c, s),
         NEW P, DOMAIN P = {old[x].id : x \in s.coords} \cap DOMAIN WillBe,
         \A id \in DOMAIN P : P[id] = WillBe[id]
  PROVE  /\ \A x \in s.coords \ toDraw : old[x].id \in DOMAIN WillBe =>
              old[x].id \in DOMAIN DrawOf(P, f) /\ DrawOf(P, f)[old[x].id] = WillBe[old[x].id]
         /\ \A x \in toDraw : finished[x].surface \in {"Texture", "Native"} =>
              /\ old[x].id \in DOMAIN DrawOf(P, f)
              /\ IsCurrent(DrawOf(P, f)[old[x].id], updated[x], c, s, x)
  <1> DEFINE W == WillBe
             V == DrawOf(P, f)
             Has(id) == id \in DOMAIN P \ (f.created \cup f.recreated)
  <1>1. /\ DOMAIN V = (DOMAIN P \ (f.created \cup f.recreated)) \cup Tasks(f)
        /\ \A id : Has(id) /\ id \notin Tasks(f) => V[id] = P[id]
        /\ \A id \in Tasks(f) : \A q \in DOMAIN f.tiles[id].look :
             /\ q \in f.tiles[id].drawn => V[id][q] = f.tiles[id].look[q]
             /\ q \notin f.tiles[id].drawn /\ ~f.tiles[id].fresh /\ Has(id)
                  => V[id][q] = P[id][q]
    <2>1. f.rendered = FALSE
      BY DEF IsNewFrame
    <2>2. IsDrawing(V, P, f)
      BY <2>1, DrawIs
    <2> HIDE DEF V
    <2> QED  BY <2>2 DEF IsDrawing
  <1> HIDE DEF V
  <1>2. ASSUME NEW x \in s.coords \ toDraw, old[x].id \in DOMAIN W
        PROVE  old[x].id \in DOMAIN V /\ V[old[x].id] = W[old[x].id]
    <2>1. Has(old[x].id) /\ old[x].id \notin Tasks(f)
      BY <1>2 DEF IsRow, IsNewFrame, Tasks
    <2> QED  BY <1>1, <2>1
  <1>3. ASSUME NEW x \in toDraw, finished[x].surface \in {"Texture", "Native"}
        PROVE  /\ old[x].id \in DOMAIN V
               /\ IsCurrent(V[old[x].id], updated[x], c, s, x)
    <2> DEFINE id == old[x].id
               ct == f.tiles[id]
    <2>1. x \in s.coords /\ x \in DOMAIN finished /\ id \in DOMAIN f.tiles
      BY <1>3 DEF IsRow, IsNewFrame
    <2>2. ct = CompositeTile(Prepared(finished[x], x, s), x, s)
      BY <2>1 DEF IsNewFrame
    <2>3. id \in DOMAIN W
          /\ (finished[x].surface = "Native"
                => old[x].surface = "Native" /\ finished[x].opaque = old[x].opaque)
            => Has(id)
      BY <2>1 DEF IsNewFrame
    <2>4. DOMAIN ct.look = PixelsOf(s.size, x)
      <3>1. PICK g : g = Prepared(finished[x], x, s)
        OBVIOUS
      <3> QED  BY <2>2, <3>1, CompositeIs
    <2>5. ct.task <=> id \in Tasks(f)
      BY <2>1 DEF Tasks
    <2>6. Has(id) => P[id] = W[id]
      OBVIOUS
    <2>7. PICK has \in BOOLEAN : has <=> Has(id)
      OBVIOUS
    <2>8. IsPainted(V[id], ct, W[id], has, s.size, x)
      <3> SUFFICES ASSUME NEW q \in PixelsOf(s.size, x)
                   PROVE  /\ ct.task =>
                               /\ q \in ct.drawn => V[id][q] = ct.look[q]
                               /\ q \notin ct.drawn /\ ~ct.fresh /\ has => V[id][q] = W[id][q]
                          /\ ~ct.task /\ has => V[id][q] = W[id][q]
        BY DEF IsPainted
      <3>1. CASE id \in Tasks(f)
        <4>1. q \in DOMAIN f.tiles[id].look
          BY <2>4
        <4>2. /\ q \in ct.drawn => V[id][q] = ct.look[q]
              /\ q \notin ct.drawn /\ ~ct.fresh /\ Has(id) => V[id][q] = P[id][q]
          BY <1>1, <3>1, <4>1
        <4> HIDE DEF W
        <4> QED  BY <2>5, <2>6, <2>7, <3>1, <4>2
      <3>2. CASE id \notin Tasks(f)
        <4> HIDE DEF W
        <4> QED  BY <1>1, <2>5, <2>6, <2>7, <3>2
      <3> QED  BY <3>1, <3>2
    <2>9. /\ IsTile(old[x]) /\ TileRecordOK(old[x], s.rect[x])
          /\ Holds(old[x], Base, Known, W, s.size, x) /\ IsUpdate(old[x], updated[x], x, s)
          /\ updated[x].prims # <<>> /\ IsFinished(old[x], finished[x])
          /\ IsDrawn(old[x], updated[x], finished[x], s.rect[x])
      BY <2>1 DEF IsRow
    <2>10. PICK L, o, t, g, ct1, W1 :
             /\ L = V[id] /\ o = old[x] /\ t = updated[x] /\ g = finished[x] /\ ct1 = ct
             /\ W1 = W
      OBVIOUS
    <2>11. o.id \in DOMAIN W1
           /\ (g.surface = "Native" => o.surface = "Native" /\ g.opaque = o.opaque) => has
      BY <2>3, <2>7, <2>10
    <2> HIDE DEF W
    <2>12. /\ IsPainted(L, ct1, W1[o.id], has, s.size, x)
           /\ ct1 = CompositeTile(Prepared(g, x, s), x, s)
           /\ IsTile(o) /\ TileRecordOK(o, s.rect[x])
           /\ Holds(o, Base, Known, W1, s.size, x) /\ IsUpdate(o, t, x, s)
           /\ t.prims # <<>> /\ IsFinished(o, g) /\ IsDrawn(o, t, g, s.rect[x])
           /\ g.surface \in {"Texture", "Native"}
      BY <1>3, <2>2, <2>8, <2>9, <2>10
    <2>13. IsCurrent(L, t, c, s, x) /\ (ct1.task \/ has)
      BY <2>1, <2>11, <2>12, DrawnTile
    <2> QED  BY <1>1, <2>5, <2>7, <2>10, <2>13
  <1> QED  BY <1>2, <1>3 DEF V

-----------------------------------------------------------------------------
(* The steps                                                               *)
LEMMA BuildFramePixels ==
  ASSUME OneScale, VideosKnown, TilesInv, PixelsInv, BuildFrame
  PROVE  PixelsInv'
  <1>1. PICK s, next, old, updated, toDraw, wanting, finished :
          /\ s = Slice
          /\ next \in FirstUnused(Added(s))
          /\ old = Existing(s, next)
          /\ updated = [x \in s.coords |-> Updated(old[x], x, s)]
          /\ toDraw = {x \in s.coords : ToDraw(updated[x], x, s)}
          /\ finished = [x \in toDraw |-> Finished(old[x], updated[x], x, s, wanting)]
          /\ BuildTiles(s, old, updated, finished)
    BY DEF BuildFrame
  <1>2. TypesOK /\ IsSlice(s)
    BY <1>1, SliceIs DEF PixelsInv
  <1>3. IsRow(s, old, updated, toDraw, finished)
    BY <1>1, <1>2, RowIs
  <1>4. PICK f : f = NewFrame(s, old, finished) /\ IsNewFrame(f, s, old, finished)
    BY <1>3, NewFrameIs DEF IsRow
  <1>5. PICK P, V, W, c : P = pixels' /\ V = WillBe' /\ W = WillBe /\ c = cache'
    OBVIOUS
  <1>6. /\ V = DrawOf(P, f) /\ DOMAIN P = {old[x].id : x \in s.coords} \cap DOMAIN W
        /\ \A id \in DOMAIN P : P[id] = W[id]
    <2>1. Publish(f, {old[x].id : x \in s.coords}) /\ f.rendered = FALSE
      BY <1>1, <1>4 DEF BuildTiles, IsNewFrame
    <2>2. /\ IsKept(W, {old[x].id : x \in s.coords})'
          /\ WillBe' = DrawOf(pixels', f)
      BY <1>5, <2>1, PublishedPixels
    <2> QED  BY <1>5, <2>2 DEF IsKept
  <1>7. /\ NextRecord(c, s) /\ c.size = s.size /\ DOMAIN c.tiles = s.coords
        /\ DOMAIN c = CacheFields
        /\ \A x \in s.coords : c.tiles[x] = IF x \in toDraw THEN Taken(finished[x])
                                           ELSE Aged(updated[x])
    <2>1. c = NextCache(s, updated, finished) /\ DOMAIN finished = toDraw
      BY <1>1, <1>3, <1>5 DEF BuildTiles, IsRow
    <2> QED  BY <2>1 DEF NextCache, NextRecord, CacheFields
  <1>8. /\ \A x \in s.coords \ toDraw : old[x].id \in DOMAIN W =>
             old[x].id \in DOMAIN V /\ V[old[x].id] = W[old[x].id]
        /\ \A x \in toDraw : finished[x].surface \in {"Texture", "Native"} =>
             old[x].id \in DOMAIN V /\ IsCurrent(V[old[x].id], updated[x], c, s, x)
    BY <1>2, <1>3, <1>4, <1>5, <1>6, <1>7, RowDrawn
  <1>9. \A x \in s.coords \ toDraw :
          /\ TileRecordOK(Aged(updated[x]), s.rect[x])
          /\ Holds(Aged(updated[x]), c, NextKnown(s), V, s.size, x)
    <2> TAKE x \in s.coords \ toDraw
    <2>1. PICK o, t : o = old[x] /\ t = updated[x]
      OBVIOUS
    <2>2. /\ IsTile(o) /\ TileRecordOK(o, s.rect[x]) /\ Holds(o, Base, Known, W, s.size, x)
          /\ IsTile(t) /\ t.id = o.id /\ t.surface = o.surface /\ IsUpdate(o, t, x, s)
          /\ o.id \in DOMAIN W => o.id \in DOMAIN V /\ V[o.id] = W[o.id]
      BY <1>3, <1>5, <1>8, <2>1 DEF IsRow
    <2> QED  BY <1>2, <1>7, <2>1, <2>2, AgedIs
  <1>10. \A x \in toDraw :
           /\ TileRecordOK(Taken(finished[x]), s.rect[x])
           /\ Holds(Taken(finished[x]), c, NextKnown(s), V, s.size, x)
    <2> TAKE x \in toDraw
    <2>1. PICK o, t, g : o = old[x] /\ t = updated[x] /\ g = finished[x]
      OBVIOUS
    <2>2. /\ x \in s.coords /\ IsUpdate(o, t, x, s) /\ IsFinished(o, g)
          /\ IsDrawn(o, t, g, s.rect[x])
          /\ g.surface \in {"Texture", "Native"}
               => o.id \in DOMAIN V /\ IsCurrent(V[o.id], t, c, s, x)
      BY <1>3, <1>8, <2>1 DEF IsRow
    <2> QED  BY <1>2, <1>7, <2>1, <2>2, TakenIs
  <1>11. CacheInv(c, NextKnown(s), V)
    <2>1. \A x \in s.coords : x \in Int /\ s.size \in Sizes /\ s.rect[x] = RectOf(s.size, x)
      BY <1>2 DEF IsSlice
    <2> QED  BY <1>7, <1>9, <1>10, <2>1 DEF CacheInv
  <1>12. /\ image' = [image EXCEPT !.dirty = @ /\ ~s.changed.image]
         /\ skipped' = (skipped /\ ~s.changed.image)
         /\ UNCHANGED <<scene, view>>
    BY <1>1 DEF BuildTiles
  <1>13. TypesOK'
    <2>1. s.changed.image \in BOOLEAN
      BY <1>2 DEF IsSlice
    <2> QED  BY <1>2, <1>12, <2>1 DEF TypesOK
  <1>14. Known' = NextKnown(s)
    <2>1. image'.dirty = (image.dirty /\ ~s.changed.image) /\ image'.version = image.version
      BY <1>2, <1>12 DEF TypesOK
    <2> QED  BY <1>12, <2>1 DEF Known, NextKnown
  <1>15. FrameShows(f, V, skipped /\ ~s.changed.image)
    <2> SUFFICES ASSUME NEW x \in toDraw
                 PROVE  TileShows(f.tiles[old[x].id], old[x].id, V, skipped /\ ~s.changed.image)
      <3>1. DOMAIN f.tiles = {old[x].id : x \in toDraw}
        BY <1>3, <1>4 DEF IsRow, IsNewFrame
      <3> QED  BY <3>1, Zenon DEF FrameShows
    <2>1. PICK o, t, g, ct : o = old[x] /\ t = updated[x] /\ g = finished[x]
                             /\ ct = f.tiles[old[x].id]
      OBVIOUS
    <2>2. /\ x \in s.coords /\ IsUpdate(o, t, x, s) /\ IsFinished(o, g)
          /\ IsDrawn(o, t, g, s.rect[x])
          /\ ct = CompositeTile(Prepared(g, x, s), x, s)
          /\ g.surface \in {"Texture", "Native"}
               => o.id \in DOMAIN V /\ IsCurrent(V[o.id], t, c, s, x)
      BY <1>3, <1>4, <1>8, <2>1 DEF IsRow, IsNewFrame
    <2>3. TileShows(ct, o.id, V, skipped /\ ~s.changed.image)
      BY <1>2, <1>7, <2>2, FrameTile
    <2> QED  BY <2>1, <2>3
  <1>16. frame' = f /\ DOMAIN retained'.tiles = {} /\ DOMAIN retained' = CacheFields
    BY <1>1, <1>4 DEF BuildTiles, Publish, NewCache, CacheFields
  <1>17. CacheInv(retained', Known', WillBe')
    BY <1>16 DEF CacheInv
  <1>18. CacheInv(cache', Known', WillBe')
    BY <1>5, <1>11, <1>14
  <1>19. FrameShows(frame', WillBe', skipped')
    BY <1>5, <1>12, <1>15, <1>16
  <1> QED  BY <1>13, <1>17, <1>18, <1>19 DEF PixelsInv

(* What agrees does so when less is known, or when a tile ages.            *)
LEMMA AgreesLess ==
  ASSUME NEW t, NEW c, NEW v, NEW u, NEW look, Agrees(t, c, v, u, look)
  PROVE  Agrees(t, c, NoValue, u, look)
  BY DEF Agrees, Matches

LEMMA HoldsLess ==
  ASSUME NEW t, IsTile(t), NEW a, IsTile(a),
         \A k \in TileFields \ {"age"} : a[k] = t[k], a.age # NoValue => t.age # NoValue,
         NEW c, NEW v, NEW W, NEW V, NEW z, NEW x, Holds(t, c, v, W, z, x),
         t.id \in DOMAIN W => t.id \in DOMAIN V /\ V[t.id] = W[t.id],
         NEW w \in {v, NoValue}
  PROVE  Holds(a, c, w, V, z, x)
  <1>1. /\ a.id = t.id /\ a.surface = t.surface /\ a.dirty = t.dirty
        /\ a.background = t.background /\ a.prims = t.prims
    BY DEF TileFields
  <1> SUFFICES ASSUME Live(a)
               PROVE  /\ a.id \in DOMAIN V
                      /\ \A q \in PixelsOf(z, x) :
                           Within(Unit(q), a.dirty) \/ Agrees(a, c, w, Unit(q), V[a.id][q])
    BY DEF Holds
  <1>2. Live(t)
    BY <1>1 DEF Live
  <1>3. /\ a.id \in DOMAIN V /\ V[a.id] = W[t.id]
        /\ \A q \in PixelsOf(z, x) :
             Within(Unit(q), t.dirty) \/ Agrees(t, c, v, Unit(q), W[t.id][q])
    BY <1>1, <1>2 DEF Holds
  <1>4. ASSUME NEW q \in PixelsOf(z, x), Agrees(t, c, v, Unit(q), W[t.id][q])
        PROVE  Agrees(a, c, w, Unit(q), V[a.id][q])
    <2>1. Agrees(t, c, w, Unit(q), W[t.id][q])
      BY <1>4, AgreesLess
    <2> QED  BY <1>1, <1>3, <2>1 DEF Agrees, At
  <1> QED  BY <1>1, <1>3, <1>4

(* A cache whose tiles are as they were, but for their age                 *)
Older(c, d) ==
  /\ DOMAIN d = DOMAIN c /\ DOMAIN d.tiles = DOMAIN c.tiles
  /\ d.fract = c.fract /\ d.turn = c.turn /\ d.fade = c.fade /\ d.size = c.size
  /\ \A x \in DOMAIN c.tiles :
       /\ IsTile(c.tiles[x]) /\ IsTile(d.tiles[x])
       /\ \A k \in TileFields \ {"age"} : d.tiles[x][k] = c.tiles[x][k]
       /\ d.tiles[x].age # NoValue => c.tiles[x].age # NoValue

LEMMA CacheLess ==
  ASSUME NEW c, NEW d, Older(c, d), NEW v, NEW w \in {v, NoValue}, NEW W, NEW V,
         CacheInv(c, v, W),
         \A x \in DOMAIN c.tiles : c.tiles[x].id \in DOMAIN W =>
           c.tiles[x].id \in DOMAIN V /\ V[c.tiles[x].id] = W[c.tiles[x].id]
  PROVE  CacheInv(d, w, V)
  <1>0. DOMAIN d = CacheFields
    BY DEF CacheInv, Older
  <1> SUFFICES ASSUME NEW x \in DOMAIN c.tiles
               PROVE  /\ x \in Int /\ d.size \in Sizes
                      /\ TileRecordOK(d.tiles[x], RectOf(d.size, x))
                      /\ Holds(d.tiles[x], d, w, V, d.size, x)
    BY <1>0 DEF CacheInv, Older
  <1>1. PICK t, a : t = c.tiles[x] /\ a = d.tiles[x]
    OBVIOUS
  <1>2. /\ IsTile(t) /\ IsTile(a) /\ \A k \in TileFields \ {"age"} : a[k] = t[k]
        /\ a.age # NoValue => t.age # NoValue
        /\ t.id \in DOMAIN W => t.id \in DOMAIN V /\ V[t.id] = W[t.id]
        /\ d.fract = c.fract /\ d.turn = c.turn /\ d.fade = c.fade /\ d.size = c.size
    BY <1>1 DEF Older
  <1>3. /\ x \in Int /\ c.size \in Sizes /\ TileRecordOK(t, RectOf(c.size, x))
        /\ Holds(t, c, v, W, c.size, x)
    BY <1>1 DEF CacheInv
  <1>4. TileRecordOK(a, RectOf(c.size, x))
    <2>1. /\ a.surface = t.surface /\ a.valid = t.valid /\ a.dirty = t.dirty
          /\ a.prims = t.prims /\ a.leaves = t.leaves
      BY <1>2 DEF TileFields
    <2> QED  BY <1>3, <2>1 DEF TileRecordOK, LeavesOK, At, AllDirty
  <1>5. Holds(a, c, w, V, c.size, x)
    BY <1>2, <1>3, HoldsLess
  <1>6. Holds(a, d, w, V, c.size, x)
    BY <1>2, <1>5 DEF Holds, Agrees, Matches
  <1> QED  BY <1>1, <1>2, <1>3, <1>4, <1>6

LEMMA WithoutTilesPixels ==
  ASSUME OneScale, TilesInv, PixelsInv, BuildFrameWithoutTiles
  PROVE  PixelsInv'
  <1> DEFINE requested == \E p \in ToSet(scene.prims) :
               p.kind = "image" /\ Meets(p.clip, <<view.at, view.at + Screen>>)
             given == {x \in DOMAIN retained.tiles : retained.tiles[x].surface = "Native"}
  <1>1. PICK f : f = [NoFrame EXCEPT !.destroyed = {retained.tiles[x].id : x \in given},
                                     !.rendered = FALSE]
    OBVIOUS
  <1>2. PICK kept : kept = {cache.tiles[x].id : x \in DOMAIN cache.tiles}
    OBVIOUS
  <1>3. /\ cache' = AllAged /\ retained' = NewCache /\ Publish(f, kept)
        /\ image' = [image EXCEPT !.dirty = @ /\ ~requested]
        /\ skipped' = (skipped \/ (image.dirty /\ requested))
        /\ UNCHANGED <<scene, view>>
    BY <1>1, <1>2 DEF BuildFrameWithoutTiles
  <1>4. /\ f.created = {} /\ f.recreated = {} /\ f.rendered = FALSE
        /\ DOMAIN f.tiles = {} /\ Tasks(f) = {}
    BY <1>1 DEF NoFrame, Tasks
  <1>5. PICK r \in BOOLEAN : r <=> requested
    OBVIOUS
  <1> HIDE DEF requested, given
  <1>6. PICK P, V, W, d : P = pixels' /\ V = WillBe' /\ W = WillBe /\ d = cache'
    OBVIOUS
  <1>7. /\ V = DrawOf(P, f) /\ DOMAIN P = kept \cap DOMAIN W
        /\ \A id \in DOMAIN P : P[id] = W[id]
    <2>1. IsKept(W, kept)' /\ WillBe' = DrawOf(pixels', f)
      BY <1>3, <1>4, <1>6, PublishedPixels
    <2> QED  BY <1>6, <2>1 DEF IsKept
  <1>8. DOMAIN V = DOMAIN P /\ \A id \in DOMAIN P : V[id] = P[id]
    <2>1. IsDrawing(V, P, f)
      BY <1>4, <1>7, DrawIs
    <2> QED  BY <1>4, <2>1 DEF IsDrawing
  <1>9. Older(cache, d)
    <2>1. DOMAIN cache = CacheFields
      BY DEF PixelsInv, CacheInv
    <2>2. /\ DOMAIN d = CacheFields /\ d.fract = cache.fract /\ d.turn = cache.turn
          /\ d.fade = cache.fade /\ d.size = cache.size
          /\ d.tiles = [x \in DOMAIN cache.tiles |-> Aged(cache.tiles[x])]
      BY <1>3, <1>6, <2>1 DEF AllAged, CacheFields
    <2>3. ASSUME NEW x \in DOMAIN cache.tiles
          PROVE  /\ IsTile(cache.tiles[x]) /\ IsTile(d.tiles[x])
                 /\ \A k \in TileFields \ {"age"} : d.tiles[x][k] = cache.tiles[x][k]
                 /\ d.tiles[x].age # NoValue => cache.tiles[x].age # NoValue
      <3>1. PICK t : t = cache.tiles[x] /\ IsTile(t) /\ d.tiles[x] = Aged(t)
        BY <2>2 DEF TilesInv, CachesOK, TilesOK, TileOK
      <3>2. /\ IsTile(Aged(t)) /\ \A k \in TileFields \ {"age"} : Aged(t)[k] = t[k]
            /\ Aged(t).age # NoValue => t.age # NoValue
        BY <3>1, AgedTile DEF Aged, IsTile, TileFields
      <3> QED  BY <3>1, <3>2
    <2> QED  BY <2>1, <2>2, <2>3 DEF Older
  <1>10. TypesOK'
    <2>1. image' = [image EXCEPT !.dirty = @ /\ ~r] /\ skipped' = (skipped \/ (image.dirty /\ r))
      BY <1>3, <1>5
    <2> QED  BY <1>3, <2>1 DEF PixelsInv, TypesOK
  <1>11. Known' \in {Known, NoValue}
    <2>1. /\ image'.dirty = (image.dirty /\ ~r) /\ image'.version = image.version
          /\ skipped' = (skipped \/ (image.dirty /\ r))
      BY <1>3, <1>5 DEF PixelsInv, TypesOK
    <2> QED  BY <2>1 DEF Known
  <1>12. CacheInv(cache', Known', WillBe')
    <2>1. PICK w, v : w = Known' /\ v = Known /\ w \in {v, NoValue}
      BY <1>11
    <2>2. CacheInv(cache, v, W)
      BY <1>6, <2>1 DEF PixelsInv
    <2>3. \A x \in DOMAIN cache.tiles : cache.tiles[x].id \in DOMAIN W =>
            cache.tiles[x].id \in DOMAIN V /\ V[cache.tiles[x].id] = W[cache.tiles[x].id]
      BY <1>2, <1>7, <1>8
    <2>4. CacheInv(d, w, V)
      BY <1>9, <2>1, <2>2, <2>3, CacheLess
    <2> QED  BY <1>6, <2>1, <2>4
  <1>13. CacheInv(retained', Known', WillBe')
    <2>1. DOMAIN retained'.tiles = {} /\ DOMAIN retained' = CacheFields
      BY <1>3 DEF NewCache, CacheFields
    <2> QED  BY <2>1 DEF CacheInv
  <1>14. FrameShows(frame', WillBe', skipped')
    <2>1. DOMAIN frame'.tiles = {}
      BY <1>3, <1>4 DEF Publish
    <2> QED  BY <2>1 DEF FrameShows
  <1> QED  BY <1>10, <1>12, <1>13, <1>14 DEF PixelsInv

LEMMA RenderPixels ==
  ASSUME PixelsInv, TilesInv, Render, ~Repeats
  PROVE  PixelsInv'
  <1>1. frame.rendered = FALSE
    BY DEF TilesInv, FrameOK, Render
  <1>2. /\ frame'.rendered = TRUE /\ frame'.tiles = frame.tiles
        /\ pixels' = draw_frame(frame)
    BY DEF TilesInv, FrameOK, Render
  <1>3. WillBe' = WillBe
    BY <1>1, <1>2 DEF WillBe
  <1>4. UNCHANGED <<scene, view, image, skipped, cache, retained>>
    BY DEF Render, contentVars
  <1>5. Known' = Known
    BY <1>4 DEF Known
  <1>6. TypesOK'
    BY <1>4 DEF PixelsInv, TypesOK
  <1>7. FrameShows(frame', WillBe', skipped')
    BY <1>2, <1>3, <1>4 DEF PixelsInv, FrameShows
  <1> QED  BY <1>3, <1>4, <1>5, <1>6, <1>7 DEF PixelsInv

(* A change between frames that does not touch the tiles, and one that     *)
(* leaves the image alone or is yet to be uploaded                         *)
LEMMA QuietPixels ==
  ASSUME PixelsInv, UNCHANGED <<frame, pixels, skipped, cache, retained>>,
         TypesOK', Known' \in {Known, NoValue}
  PROVE  PixelsInv'
  <1>1. WillBe' = WillBe
    BY DEF WillBe, draw_frame, Intact, Drawn, Tasks
  <1>2. PICK v, w, W : v = Known /\ w = Known' /\ w \in {v, NoValue} /\ W = WillBe
    OBVIOUS
  <1>3. ASSUME NEW c, CacheInv(c, v, W)  PROVE CacheInv(c, w, W)
    BY <1>2, <1>3, AgreesLess DEF CacheInv, Holds
  <1>4. CacheInv(cache, w, W) /\ CacheInv(retained, w, W)
    BY <1>2, <1>3 DEF PixelsInv
  <1>5. FrameShows(frame', WillBe', skipped')
    BY <1>1 DEF PixelsInv
  <1> QED  BY <1>1, <1>2, <1>4, <1>5 DEF PixelsInv

LEMMA SceneReadyPixels ==
  ASSUME PixelsInv, TilesInv, NEW new \in Scenes, SceneReady(new)
  PROVE  PixelsInv'
  <1>1. UNCHANGED <<frame, pixels, skipped, image, view>> /\ scene' = new
    BY DEF SceneReady, Change, rendererVars
  <1>2. cache' = NewCache /\ (retained' = cache \/ retained' = retained)
    BY DEF SceneReady
  <1>3. WillBe' = WillBe /\ Known' = Known
    BY <1>1 DEF WillBe, draw_frame, Intact, Drawn, Tasks, Known
  <1>4. TypesOK'
    BY <1>1 DEF PixelsInv, TypesOK
  <1>5. CacheInv(retained', Known', WillBe')
    BY <1>2, <1>3 DEF PixelsInv
  <1>6. CacheInv(cache', Known', WillBe')
    BY <1>2 DEF CacheInv, NewCache, CacheFields
  <1>7. FrameShows(frame', WillBe', skipped')
    BY <1>1, <1>3 DEF PixelsInv
  <1> QED  BY <1>4, <1>5, <1>6, <1>7 DEF PixelsInv

LEMMA ClearTexturesPixels ==
  ASSUME PixelsInv, TilesInv, ClearTextures
  PROVE  PixelsInv'
  <1> DEFINE Cleared(c) == [c EXCEPT !.tiles =
               [x \in DOMAIN @ |-> [@[x] EXCEPT !.age = NoValue]]]
  <1>1. /\ UNCHANGED <<frame, pixels, skipped, image, view, scene>>
        /\ cache' = Cleared(cache) /\ retained' = Cleared(retained)
    BY DEF ClearTextures, Change, rendererVars, contentVars
  <1>2. WillBe' = WillBe /\ Known' = Known
    BY <1>1 DEF WillBe, draw_frame, Intact, Drawn, Tasks, Known
  <1>3. TypesOK'
    BY <1>1 DEF PixelsInv, TypesOK
  <1>4. ASSUME NEW c, DOMAIN c = CacheFields, \A x \in DOMAIN c.tiles : IsTile(c.tiles[x])
        PROVE  Older(c, Cleared(c))
    <2>1. PICK d : d = Cleared(c)
      OBVIOUS
    <2>2. /\ DOMAIN d = CacheFields /\ d.fract = c.fract /\ d.turn = c.turn
          /\ d.fade = c.fade /\ d.size = c.size
          /\ d.tiles = [x \in DOMAIN c.tiles |-> [c.tiles[x] EXCEPT !.age = NoValue]]
      BY <1>4, <2>1 DEF CacheFields
    <2>3. ASSUME NEW x \in DOMAIN c.tiles
          PROVE  /\ IsTile(c.tiles[x]) /\ IsTile(d.tiles[x])
                 /\ \A k \in TileFields \ {"age"} : d.tiles[x][k] = c.tiles[x][k]
                 /\ d.tiles[x].age # NoValue => c.tiles[x].age # NoValue
      BY <1>4, <2>2 DEF IsTile, TileFields
    <2> HIDE DEF Cleared
    <2> QED  BY <1>4, <2>1, <2>2, <2>3 DEF Older
  <1> HIDE DEF Cleared
  <1>5. Older(cache, cache') /\ Older(retained, retained')
    BY <1>1, <1>4 DEF PixelsInv, CacheInv, TilesInv, CachesOK, TilesOK, TileOK
  <1>6. PICK c, d, r, e, v, W : /\ c = cache /\ d = cache' /\ r = retained /\ e = retained'
                                /\ v = Known /\ W = WillBe
    OBVIOUS
  <1>7. CacheInv(d, v, W) /\ CacheInv(e, v, W)
    BY <1>5, <1>6, CacheLess DEF PixelsInv
  <1>8. FrameShows(frame', WillBe', skipped')
    BY <1>1, <1>2 DEF PixelsInv
  <1> QED  BY <1>2, <1>3, <1>6, <1>7, <1>8 DEF PixelsInv

LEMMA PixelsNext ==
  ASSUME ~Repeats, OneScale, VideosKnown, TilesInv, PixelsInv, [Next]_vars
  PROVE  PixelsInv'
  <1>1. CASE BuildFrame
    BY <1>1, BuildFramePixels
  <1>2. CASE BuildFrameWithoutTiles
    BY <1>2, WithoutTilesPixels
  <1>3. CASE Render
    BY <1>3, RenderPixels
  <1>4. CASE \E new \in Scenes : SceneReady(new)
    BY <1>4, SceneReadyPixels
  <1>5. CASE \E new \in Views : SetView(new)
    <2>1. PICK new \in Views : SetView(new)
      BY <1>5
    <2>2. UNCHANGED <<frame, pixels, skipped, cache, retained, image, scene>> /\ view' = new
      BY <2>1 DEF SetView, Change, rendererVars
    <2>3. TypesOK' /\ Known' = Known
      BY <2>2 DEF PixelsInv, TypesOK, Known
    <2> QED  BY <2>2, <2>3, QuietPixels
  <1>6. CASE SetTurn \/ \E value \in Values : SetFade(value)
    <2>1. UNCHANGED <<frame, pixels, skipped, cache, retained, image, scene, view>>
      BY <1>6 DEF SetTurn, SetFade, Change, rendererVars
    <2>2. TypesOK' /\ Known' = Known
      BY <2>1 DEF PixelsInv, TypesOK, Known
    <2> QED  BY <2>1, <2>2, QuietPixels
  <1>7. CASE UpdateImage
    <2>1. /\ UNCHANGED <<frame, pixels, skipped, cache, retained, scene, view>>
          /\ image' = [version |-> 1 - image.version, dirty |-> TRUE]
      BY <1>7 DEF UpdateImage, Change, rendererVars
    <2>2. TypesOK' /\ Known' = NoValue
      BY <2>1 DEF PixelsInv, TypesOK, Known
    <2> QED  BY <2>1, <2>2, QuietPixels
  <1>8. CASE ClearTextures
    BY <1>8, ClearTexturesPixels
  <1>9. CASE UNCHANGED vars
    <2>1. UNCHANGED <<frame, pixels, skipped, cache, retained, image, scene, view>>
      BY <1>9 DEF vars, rendererVars, contentVars
    <2>2. TypesOK' /\ Known' = Known
      BY <2>1 DEF PixelsInv, TypesOK, Known
    <2> QED  BY <2>1, <2>2, QuietPixels
  <1> QED  BY <1>1, <1>2, <1>3, <1>4, <1>5, <1>6, <1>7, <1>8, <1>9 DEF Next

(* Whatever was drawn when, and whichever frames were never presented, a   *)
(* frame that was rendered shows what its scene and the state of its       *)
(* animations and images ask for.  Of the views it takes that they are of  *)
(* one scale, with tiles a whole number of units wide, of the scenes that  *)
(* what is a video in one of them is not something else in another, and    *)
(* that no frame is rendered a second time.                                *)
THEOREM TilesShown ==
  ASSUME ~Repeats, OneScale, VideosKnown
  PROVE  Spec => []TilesAreCurrent
  <1> DEFINE Inv == TilesInv /\ PixelsInv
  <1>1. Init => Inv
    BY InitOK, PixelsInit
  <1>2. Inv /\ [Next]_vars => Inv'
    BY NextOK, PixelsNext
  <1>3. Inv => TilesAreCurrent
    BY ShownAtLast
  <1> QED  BY <1>1, <1>2, <1>3, PTL DEF Spec
=============================================================================
