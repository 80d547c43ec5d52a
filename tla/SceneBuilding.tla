---------------------------- MODULE SceneBuilding ----------------------------
(***************************************************************************)
(* From a display list to a frame: SceneBuilder reads the items of a       *)
(* display list and its iframes and builds pictures, cached slices and the *)
(* hit testing scene (scene_building.rs); the frame builder then finds the *)
(* clips of each primitive (prim_store, clip.rs) and puts the instances of *)
(* each surface in batches (batch.rs).                                     *)
(*                                                                         *)
(* An item is its token in the display list, known by its position. A clip *)
(* chain is the sequence of its clip handles, the leaf first.              *)
(***************************************************************************)
EXTENDS Batching, FiniteSetsExt

CONSTANTS
    Menus,               \* sets of tokens; a display list is made from one
    MaxItems,            \* items in a display list, the closing ones excluded
    MaxDepth,            \* stacking contexts and iframes open at once
    MAX_CONTENT_SLICES,
    Complex              \* clips that are not rectangles (ClipNodeKind)

VARIABLES
    menu,
    list,                       \* the display list so far
    open,                       \* build_items on the call stack
    sc_stack,
    pending_shadow_items,
    pictures,
    found_explicit_tile_cache,
    hits,                       \* hit testing items: position to set of clips
    asked,                      \* history: what each open context should paint
    within,                     \* history: clips of the iframes around each item
    frame                       \* what is drawn; NotBuilt until all is read

vars == <<menu, list, open, sc_stack, pending_shadow_items, pictures,
          found_explicit_tile_cache, hits, asked, within, frame>>

NotBuilt == [built |-> FALSE]

RootSpace == "root"
Backface == "IS_BACKFACE_VISIBLE"
Scrollbar == "SCROLLBAR_CONTAINER"

-----------------------------------------------------------------------------
(***************************************************************************)
(* Primitive lists. A primitive instance is known by its kind and by the   *)
(* position of its item, or the index of its picture; source is the        *)
(* shadow it is drawn for, or the picture that a backdrop reads.           *)
(***************************************************************************)
Prim(kind, id, chain) ==
    [kind |-> kind, id |-> id, chain |-> chain, source |-> 0, opacity |-> 0]

KindFlags(kind) ==
    CASE kind = "Picture"  -> {"IS_PICTURE"}
      [] kind = "Backdrop" -> {"IS_BACKDROP_FILTER"}
      [] kind = "Clear"    -> {"IS_CLEAR_PRIMITIVE"}
      [] OTHER             -> {}

Cluster(prim, space, flags) ==
    [space |-> space, flags |-> flags \cup KindFlags(prim.kind),
     prims |-> <<prim>>, cache_scroll_root |-> RootSpace]

AddPrim(prims, prim, space, flags) ==
    LET new == Cluster(prim, space, flags)
    IN  IF prims # <<>> /\ Last(prims).space = space /\ Last(prims).flags = new.flags
        THEN [prims EXCEPT ![Len(prims)].prims = Append(@, prim)]
        ELSE Append(prims, new)

AddPrimToStart(prims, prim, space, flags) ==
    <<Cluster(prim, space, flags)>> \o prims

Picture(mode, prims, shared) ==
    [mode |-> mode, prims |-> prims, shared_clips |-> shared]

\* A picture made of prims, and the instance that draws it.
NewPicture(pics, mode, prims, chain) ==
    [pictures |-> Append(pics, Picture(mode, prims, {})),
     prim |-> Prim("Picture", Len(pics) + 1, chain)]

Single(prim, space, flags) == AddPrim(<<>>, prim, space, flags)

Wrapped(b, mode, chain, space, flags) ==
    NewPicture(b.pictures, mode, Single(b.prim, space, flags), chain)

-----------------------------------------------------------------------------
(***************************************************************************)
(* Clips. An item that uses the root clip of its pipeline need not be      *)
(* clipped to the iframe when a stacking context around it is.             *)
(***************************************************************************)
ClipChain(own) == own \o Last(open).clip

\* Mutant: the pipeline clip is never added to an item of its own.
GetClipAndScrollUnclipped(token) ==
    IF token.clip = <<>> THEN <<>> ELSE ClipChain(token.clip)

GetClipAndScroll(token) ==
    IF token.clip = <<>> /\ ~Last(open).apply_pipeline_clip
    THEN <<>>
    ELSE ClipChain(token.clip)

RectangleClips(chain) == ToSet(chain) \ Complex

-----------------------------------------------------------------------------
(***************************************************************************)
(* Filters. An opacity filter on one rectangle is collapsed into it, also  *)
(* through pictures that need no surface (optimize_picture_if_possible).   *)
(***************************************************************************)
OnlyPrim(picture) ==
    IF Len(picture.prims) = 1 /\ Len(picture.prims[1].prims) = 1
    THEN picture.prims[1].prims[1]
    ELSE Prim("None", 0, <<>>)

CollapsePicture(pics, index) ==
    LET target[i \in DOMAIN pics] ==
            LET only == OnlyPrim(pics[i])
            IN  CASE only.kind = "Rectangle" -> i
                  [] only.kind = "Picture" /\ pics[only.id].mode = "None" ->
                        target[only.id]
                  [] OTHER -> 0
    IN  target[index]

Optimized(pics, index) ==
    LET target == CollapsePicture(pics, index)
    IN  IF pics[index].mode # "Opacity" \/ target = 0
        THEN pics
        ELSE [pics EXCEPT ![target].prims[1].prims[1].opacity = @ + 1,
                          ![index].mode = "None"]

WrapPrimWithFilters(b, filters, space, flags) ==
    LET Wrap(c, filter) ==
            LET d == Wrapped(c, filter, <<>>, space, flags)
            IN  [d EXCEPT !.pictures = Optimized(@, Len(@))]
    IN  FoldLeft(Wrap, b, filters)

-----------------------------------------------------------------------------
(***************************************************************************)
(* Stacking contexts (FlattenedStackingContext). context_3d is "Out", "In" *)
(* or "Root"; a root keeps in planes what is hoisted to it (root_data).    *)
(***************************************************************************)
OpsEmpty(token) == token.filters = <<>> /\ ~token.blend

Is3D(sc) == sc.transform_style = "Preserve3D" /\ sc.filters = <<>> /\ ~sc.blend

StackingContext(token, pipeline, chain, context_3d) ==
    [prim_list |-> <<>>, planes |-> <<>>, pipeline |-> pipeline,
     chain |-> chain, context_3d |-> context_3d,
     blit_reason |-> IF ToSet(chain) \cap Complex = {} THEN {} ELSE {"CLIP"},
     filters |-> token.filters, blend |-> token.blend, flags |-> token.flags,
     space |-> token.space, raster_space |-> token.raster_space,
     transform_style |-> token.transform_style,
     is_backdrop_root |-> token.is_backdrop_root]

RootToken ==
    [op |-> "PushStackingContext", filters |-> <<>>, blend |-> FALSE,
     flags |-> {Backface}, space |-> RootSpace, raster_space |-> "Screen",
     transform_style |-> "Flat", is_backdrop_root |-> TRUE, clip_id |-> <<>>]

\* The items so far of a context as a picture, and its list emptied.
CutItemSequence(b, sc, mode) == NewPicture(b, mode, sc.prim_list, sc.chain)

AddTo3DRoot(stack, plane) ==
    LET root == Max({i \in DOMAIN stack : stack[i].context_3d = "Root"})
    IN  [stack EXCEPT ![root].planes = Append(@, plane)]

Plane(prim, sc) == [prim |-> prim, space |-> sc.space, flags |-> sc.flags]

AddToList(stack, at, prim, space, flags) ==
    [stack EXCEPT ![at].prim_list = AddPrim(@, prim, space, flags)]

IsRedundant(sc, parent) ==
    /\ sc.context_3d = "Out"
    /\ sc.filters = <<>>
    /\ ~sc.blend \/ parent.prim_list = <<>>
    /\ Backface \in sc.flags
    /\ sc.raster_space = parent.raster_space
    /\ sc.blit_reason = {}
    /\ Scrollbar \notin sc.flags

\* The flat items of a preserve-3d parent become a plane of their own, so
\* that they keep their place among its children.
FlatItemsCut(b) ==
    LET top == Last(b.sc_stack)
        cut == CutItemSequence(b.pictures, top, "Blit")
        emptied == [b.sc_stack EXCEPT ![Len(b.sc_stack)].prim_list = <<>>]
    IN  IF ~Is3D(top) \/ top.prim_list = <<>>
        THEN b
        ELSE [pictures |-> cut.pictures,
              sc_stack |-> AddTo3DRoot(emptied, Plane(cut.prim, top))]

Context3D(token, parent) ==
    CASE OpsEmpty(token) /\ Is3D(parent) -> "In"
      [] OpsEmpty(token) /\ ~Is3D(parent) /\ token.transform_style = "Preserve3D"
            -> "Root"
      [] OTHER -> "Out"

\* What is painted, or should be: a primitive or a group of them.
Group(effect, chain, kids) ==
    [effect |-> effect, id |-> 0, source |-> 0, opacity |-> 0,
     clips |-> ToSet(chain), kids |-> kids]

Leaf(id, chain) == [Group("Leaf", chain, <<>>) EXCEPT !.id = id]

\* The item that is read now, and its chain.
Position == Len(list) + 1

Asked(kids) == asked' = [asked EXCEPT ![Len(asked)] = @ \o kids]

NotEmpty(opened) == [opened EXCEPT ![Len(opened)].empty = FALSE]

PushStackingContext(token) ==
    LET chain == IF token.clip_id = <<>> THEN <<>> ELSE ClipChain(token.clip_id[1])
        b     == FlatItemsCut([pictures |-> pictures, sc_stack |-> sc_stack])
        opens == [Last(open) EXCEPT !.is_context = TRUE, !.empty = TRUE,
                                    !.apply_pipeline_clip = @ /\ chain = <<>>]
    IN  /\ token.op = "PushStackingContext"
        /\ Len(open) < MaxDepth
        /\ pending_shadow_items = <<>>
        /\ pictures' = b.pictures
        /\ sc_stack' = Append(b.sc_stack,
                StackingContext(token, Last(open).pipeline, chain,
                                Context3D(token, Last(sc_stack))))
        /\ open' = Append(NotEmpty(open), opens)
        /\ asked' = Append(asked, <<>>)
        /\ UNCHANGED <<pending_shadow_items, found_explicit_tile_cache, hits>>

-----------------------------------------------------------------------------
(***************************************************************************)
(* Picture cache slices. The content of an iframe directly below the root  *)
(* pipeline is sliced where its scroll root changes (init_picture_caching).*)
(* The model's spaces are their own scroll roots.                          *)
(***************************************************************************)
SliceStarts(prims) ==
    {i \in DOMAIN prims :
        \/ i = 1
        \/ Scrollbar \in prims[i].flags
        \/ prims[i].space # prims[i - 1].space}

InitPictureCaching(prims) ==
    LET starts == SliceStarts(prims)
        few    == Cardinality(starts) <= MAX_CONTENT_SLICES
        Before(i) ==
            CASE few /\ i \in starts ->
                    [prims[i] EXCEPT !.flags = @ \cup {"CREATE_PICTURE_CACHE_PRE"},
                                     !.cache_scroll_root = prims[i].space]
              [] ~few /\ i = 1 ->
                    [prims[i] EXCEPT !.flags = @ \cup {"CREATE_PICTURE_CACHE_PRE"},
                                     !.cache_scroll_root = RootSpace]
              [] OTHER -> prims[i]
    IN  IF prims = <<>>
        THEN prims
        ELSE [[i \in DOMAIN prims |-> Before(i)] EXCEPT
                ![Len(prims)].flags = @ \cup {"CREATE_PICTURE_CACHE_POST"}]

(***************************************************************************)
(* setup_picture_caching walks the clusters of the root. Clip chains that  *)
(* are open where a slice ends are closed there and opened in the next.    *)
(* shared_clips is <<>> until the slice has a primitive.                   *)
(***************************************************************************)
ClosedSlice(slice, stack) ==
    [slice EXCEPT !.prims = FoldLeft(
        LAMBDA p, c : AddPrim(p, Prim("PopClipChain", 0, c.chain), c.space, {Backface}),
        @, stack)]

NewSlice(cluster, stack) ==
    [scroll_root  |-> cluster.cache_scroll_root,
     shared_clips |-> <<>>,
     prims |-> FoldRight(
        LAMBDA c, p : AddPrimToStart(p, Prim("PushClipChain", 0, c.chain),
                                     c.space, {Backface}),
        stack, <<>>)]

LastClosed(slices, stack) ==
    IF slices = <<>> THEN slices
    ELSE [slices EXCEPT ![Len(slices)] = ClosedSlice(@, stack)]

SliceStarted(s, cluster) ==
    IF s.create \/ cluster.flags \cap
            {"CREATE_PICTURE_CACHE_PRE", "IS_CLEAR_PRIMITIVE"} # {}
    THEN [s EXCEPT !.slices = Append(LastClosed(@, s.stack),
                                     NewSlice(cluster, s.stack))]
    ELSE s

\* Mutant: only the first primitive counts.
SharedWithFirst(shared, prim_clips, update) ==
    IF shared = <<>> THEN <<prim_clips>> ELSE shared

SharedWith(shared, prim_clips, update) ==
    CASE shared = <<>>              -> <<prim_clips>>
      [] shared # <<>> /\ update -> <<shared[1] \cap prim_clips>>
      [] OTHER                      -> shared

\* The clips of a primitive, collected anew when its chain or one that is
\* open around it has changed.
SharedClipsOf(s, space, prim) ==
    LET update == s.update \/ s.last_chain # prim.chain
        prim_clips ==
            IF update /\ found_explicit_tile_cache
            THEN UNION {RectangleClips(s.stack[i].chain) : i \in DOMAIN s.stack}
                    \cup RectangleClips(prim.chain)
            ELSE s.prim_clips
    IN  [s EXCEPT !.prim_clips = prim_clips, !.update = FALSE,
                  !.last_chain = prim.chain,
                  !.slices[Len(s.slices)].shared_clips =
                        SharedWith(@, prim_clips, update)]

PrimSliced(s, space, prim) ==
    CASE prim.kind = "PushClipChain" ->
            [s EXCEPT !.stack = Append(@, [chain |-> prim.chain, space |-> space]),
                      !.update = TRUE]
      [] prim.kind = "PopClipChain" -> [s EXCEPT !.stack = Front(@), !.update = TRUE]
      [] OTHER -> SharedClipsOf(s, space, prim)

ClusterSliced(s, cluster) ==
    LET started == SliceStarted(s, cluster)
        walked  == FoldLeft(LAMBDA t, p : PrimSliced(t, cluster.space, p),
                            started, cluster.prims)
    IN  [walked EXCEPT
            !.slices[Len(walked.slices)].prims = Append(@, cluster),
            !.create = cluster.flags \cap
                {"CREATE_PICTURE_CACHE_POST", "IS_CLEAR_PRIMITIVE"} # {}]

Slices(prims) ==
    LET start == [slices |-> <<>>, stack |-> <<>>, create |-> TRUE,
                  prim_clips |-> {}, update |-> TRUE, last_chain |-> <<>>]
        end   == FoldLeft(ClusterSliced, start, prims)
    IN  LastClosed(end.slices, end.stack)

CreateTileCache(b, slice) ==
    LET shared == IF slice.shared_clips = <<>> THEN {} ELSE slice.shared_clips[1]
    IN  [pictures |-> Append(b.pictures, Picture("TileCache", slice.prims, shared)),
         prims |-> AddPrim(b.prims,
                           Prim("Picture", Len(b.pictures) + 1, SetToSeq(shared)),
                           slice.scroll_root, {Backface})]

SetupPictureCaching(pics, prims) ==
    FoldLeft(CreateTileCache, [pictures |-> pics, prims |-> <<>>], Slices(prims))

-----------------------------------------------------------------------------
(***************************************************************************)
(* Popping a stacking context. A redundant one leaves its items in the     *)
(* list of its parent, between a push and a pop of its clips.              *)
(***************************************************************************)
IframeDepth == Cardinality({i \in DOMAIN open : ~open[i].is_context}) - 1

Unwrapped(sc) ==
    IF sc.chain = <<>> \/ sc.prim_list = <<>>
    THEN sc.prim_list
    ELSE AddPrim(
            AddPrimToStart(sc.prim_list, Prim("PushClipChain", 0, sc.chain),
                           sc.space, {Backface}),
            Prim("PopClipChain", 0, sc.chain), sc.space, {Backface})

IsIframeContent(sc, parent) ==
    /\ sc.prim_list # <<>>
    /\ parent.pipeline # sc.pipeline
    /\ IframeDepth = 1

PopRedundant(sc, stack) ==
    LET content == IsIframeContent(sc, Last(stack))
        items   == IF content THEN InitPictureCaching(Unwrapped(sc)) ELSE Unwrapped(sc)
    IN  /\ found_explicit_tile_cache' = (found_explicit_tile_cache \/ content)
        /\ sc_stack' = [stack EXCEPT ![Len(stack)].prim_list = @ \o items]
        /\ UNCHANGED pictures

LeafMode(sc) ==
    IF sc.context_3d # "Out" \/ sc.blit_reason # {} THEN "Blit" ELSE "None"

\* The container of a 3d context: what was hoisted to it, then the rest.
Container3D(b, sc) ==
    LET planes == Append(sc.planes, Plane(b.prim, sc))
        prims  == FoldLeft(LAMBDA p, x : AddPrim(p, x.prim, x.space, x.flags),
                           <<>>, planes)
    IN  IF sc.context_3d = "Root" THEN NewPicture(b.pictures, "None", prims, <<>>)
        ELSE b

PopPicture(sc, stack) ==
    LET leaf     == NewPicture(pictures, LeafMode(sc), sc.prim_list, <<>>)
        filtered == WrapPrimWithFilters(Container3D(leaf, sc), sc.filters,
                                        sc.space, sc.flags)
        parent   == Last(stack)
        blends   == sc.blend /\ parent.prim_list # <<>>
        b        == IF blends THEN Wrapped(filtered, "Blend", <<>>, sc.space, sc.flags)
                    ELSE filtered
        prim     == [b.prim EXCEPT !.chain = sc.chain]
        isolated == IF blends
                    THEN [stack EXCEPT ![Len(stack)].blit_reason = @ \cup {"ISOLATE"}]
                    ELSE stack
    IN  /\ pictures' = b.pictures
        /\ sc_stack' = IF Is3D(parent)
                       THEN AddTo3DRoot(stack, Plane(prim, sc))
                       ELSE AddToList(isolated, Len(stack), prim, sc.space, sc.flags)
        /\ UNCHANGED found_explicit_tile_cache

AskedGroup(sc, kids) ==
    LET filtered == FoldLeft(LAMBDA g, f : Group(f, <<>>, <<g>>),
                             Group("Group", <<>>, kids), sc.filters)
        outer    == IF sc.blend THEN Group("Blend", <<>>, <<filtered>>) ELSE filtered
    IN  [outer EXCEPT !.clips = ToSet(sc.chain)]

\* An empty stacking context is skipped altogether.
PopStackingContext ==
    LET sc    == Last(sc_stack)
        stack == Front(sc_stack)
        below == Front(asked)
    IN  /\ Last(open).is_context /\ ~Last(open).empty
        /\ pending_shadow_items = <<>>
        /\ IF IsRedundant(sc, Last(stack)) THEN PopRedundant(sc, stack)
           ELSE PopPicture(sc, stack)
        /\ open' = Front(open)
        /\ asked' = [below EXCEPT ![Len(below)] =
                        Append(@, AskedGroup(sc, Last(asked)))]
        /\ UNCHANGED <<menu, list, pending_shadow_items, hits, within, frame>>

-----------------------------------------------------------------------------
(***************************************************************************)
(* Iframes. Their items are read in place, clipped to the iframe.          *)
(***************************************************************************)
IframeClip(position) == "iframe" \o ToString(position)

Iframe(token) ==
    /\ token.op = "Iframe"
    /\ Len(open) < MaxDepth
    /\ pending_shadow_items = <<>>
    /\ open' = Append(NotEmpty(open),
            [pipeline |-> Position,
             clip |-> <<IframeClip(Position)>> \o ClipChain(token.clip),
             apply_pipeline_clip |-> TRUE, is_context |-> FALSE, empty |-> TRUE])
    /\ UNCHANGED <<sc_stack, pending_shadow_items, pictures,
                   found_explicit_tile_cache, hits, asked>>

EndIframe ==
    /\ Len(open) > 1 /\ ~Last(open).is_context
    /\ pending_shadow_items = <<>>
    /\ open' = Front(open)
    /\ UNCHANGED <<menu, list, sc_stack, pending_shadow_items, pictures,
                   found_explicit_tile_cache, hits, asked, within, frame>>

-----------------------------------------------------------------------------
(***************************************************************************)
(* Primitives. Rectangles stand for images as well, which are treated      *)
(* alike, and gradients for all that casts no shadow.                      *)
(***************************************************************************)
HitTestable(id, chain) ==
    id :> ToSet(chain) \cup UNION {ToSet(sc_stack[i].chain) : i \in DOMAIN sc_stack}

Drawn1(stack, token, prim) == AddToList(stack, Len(stack), prim, token.space, token.flags)

ItemRead == open' = NotEmpty(open)

\* A transparent rectangle is there for hit testing only.
AddTransparentRectangle(token) ==
    /\ token.op = "Rectangle" /\ ~token.visible
    /\ hits' = hits @@ HitTestable(Position, GetClipAndScroll(token))
    /\ ItemRead
    /\ UNCHANGED <<sc_stack, pending_shadow_items, pictures,
                   found_explicit_tile_cache, asked>>

IsPrimitive(token) ==
    \/ token.op \in {"Text", "Gradient", "Clear"}
    \/ token.op = "Rectangle" /\ token.visible

AddPrimitive(token) ==
    LET chain == GetClipAndScroll(token)
    IN  /\ IsPrimitive(token)
        /\ pending_shadow_items = <<>>
        /\ IF token.visible
           THEN /\ sc_stack' = Drawn1(sc_stack, token, Prim(token.op, Position, chain))
                /\ hits' = hits @@ HitTestable(Position, chain)
                /\ Asked(<<Leaf(Position, chain)>>)
           ELSE UNCHANGED <<sc_stack, hits, asked>>
        /\ ItemRead
        /\ UNCHANGED <<pending_shadow_items, pictures, found_explicit_tile_cache>>

-----------------------------------------------------------------------------
(***************************************************************************)
(* Shadows, and the primitives that wait for all of them to be popped.     *)
(***************************************************************************)
Pending(token) ==
    [id |-> Position, token |-> token, chain |-> GetClipAndScroll(token)]

IsShadow(item) == item.token.op = "PushShadow"

Wait(token) ==
    /\ pending_shadow_items' = Append(pending_shadow_items, Pending(token))
    /\ ItemRead
    /\ UNCHANGED <<sc_stack, pictures, found_explicit_tile_cache, hits, asked>>

\* Shadows come before what casts them.
PushShadow(token) ==
    /\ token.op = "PushShadow"
    /\ \A i \in DOMAIN pending_shadow_items : IsShadow(pending_shadow_items[i])
    /\ Wait(token)

AddShadowed(token) ==
    /\ IsPrimitive(token) /\ token.op # "Gradient"
    /\ pending_shadow_items # <<>>
    /\ Wait(token)

PendingPrim(item) == Prim(item.token.op, item.id, item.chain)

\* The picture of a shadow, of all the primitives that come after it.
AddShadow(b, i) ==
    LET item  == pending_shadow_items[i]
        casts == SelectSeq(SubSeq(pending_shadow_items, i + 1,
                                  Len(pending_shadow_items)),
                           LAMBDA x : ~IsShadow(x))
        prims == FoldLeft(LAMBDA p, x :
                            AddPrim(p, [PendingPrim(x) EXCEPT !.source = item.id],
                                    x.token.space, x.token.flags),
                          <<>>, casts)
        made  == NewPicture(b.pictures, item.token.blur, prims, item.chain)
    IN  IF casts = <<>> THEN b
        ELSE [b EXCEPT !.pictures = made.pictures,
                !.sc_stack = AddToList(@, Len(@), made.prim, item.token.space, {Backface})]

AddPending(b, i) ==
    LET item == pending_shadow_items[i]
    IN  CASE IsShadow(item) -> AddShadow(b, i)
          [] ~IsShadow(item) /\ item.token.visible ->
                [b EXCEPT !.sc_stack = Drawn1(@, item.token, PendingPrim(item)),
                          !.hits = @ @@ HitTestable(item.id, item.chain)]
          [] OTHER -> b

\* All shadows of the text, then the text.
AskedShadows ==
    LET shadows == SelectSeq(pending_shadow_items, IsShadow)
        prims   == SelectSeq(pending_shadow_items, LAMBDA x : ~IsShadow(x))
        Copies(s) == [i \in DOMAIN prims |->
                        [Leaf(prims[i].id, prims[i].chain) EXCEPT !.source = s.id]]
        Effect(s) == IF s.token.blur = "Blur" THEN "Blur" ELSE "Group"
        visible == SelectSeq(prims, LAMBDA x : x.token.visible)
    IN  [i \in DOMAIN shadows |->
            Group(Effect(shadows[i]), shadows[i].chain, Copies(shadows[i]))]
        \o [i \in DOMAIN visible |-> Leaf(visible[i].id, visible[i].chain)]

PopAllShadows ==
    LET b == FoldLeft(AddPending,
                      [pictures |-> pictures, sc_stack |-> sc_stack, hits |-> hits],
                      [i \in DOMAIN pending_shadow_items |-> i])
    IN  /\ pending_shadow_items # <<>>
        /\ pending_shadow_items' = <<>>
        /\ pictures' = b.pictures
        /\ sc_stack' = b.sc_stack
        /\ hits' = b.hits
        /\ Asked(AskedShadows)
        /\ UNCHANGED <<menu, list, open, found_explicit_tile_cache, within, frame>>

-----------------------------------------------------------------------------
(***************************************************************************)
(* Backdrop filters. What the backdrop root and the contexts in it have so *)
(* far becomes a picture in the root, which the filtered copy is drawn on. *)
(***************************************************************************)
BackdropRoot == Max({i \in DOMAIN sc_stack : sc_stack[i].is_backdrop_root})

\* From the innermost context outwards, each with the picture of the one in it.
CutLevel(b, i) ==
    LET sc    == b.sc_stack[i]
        prims == IF b.cut = <<>> THEN sc.prim_list
                 ELSE AddPrim(sc.prim_list, b.cut[1], b.space, b.flags)
        made  == NewPicture(b.pictures, "None", prims, sc.chain)
        next  == [b EXCEPT !.cut = <<>>, !.space = sc.space, !.flags = sc.flags]
    IN  IF prims = <<>> THEN next
        ELSE [next EXCEPT !.pictures = made.pictures, !.cut = <<made.prim>>,
                          !.sc_stack[i].prim_list = <<>>]

ContextsTo(root) == Reverse([i \in 1..(Len(sc_stack) - root + 1) |-> root + i - 1])

CutBackdropPicture ==
    LET start == [pictures |-> pictures, sc_stack |-> sc_stack, cut |-> <<>>,
                  space |-> RootSpace, flags |-> {}]
        b     == FoldLeft(CutLevel, start, ContextsTo(BackdropRoot))
        pic   == b.cut[1].id
    IN  IF b.cut = <<>> THEN b
        ELSE [b EXCEPT !.pictures[pic].mode = "Blit",
                !.sc_stack = AddToList(@, BackdropRoot, b.cut[1], b.space, b.flags)]

\* The backdrop, in a picture with the clips of each context up to the root,
\* in its own filters, then in those of these contexts.
FilteredBackdrop(cut, token, chain) ==
    LET inner    == ContextsTo(BackdropRoot + 1)
        backdrop == [Prim("Backdrop", Position, chain) EXCEPT !.source = cut.cut[1].id]
        Clip(b, i) == Wrapped(b, "None", sc_stack[i].chain, cut.space, sc_stack[i].flags)
        Filter(b, i) == WrapPrimWithFilters(b, sc_stack[i].filters, cut.space, token.flags)
        clipped  == FoldLeft(Clip, [pictures |-> cut.pictures, prim |-> backdrop], inner)
        filtered == WrapPrimWithFilters(clipped, token.filters, cut.space, token.flags)
    IN  FoldLeft(Filter, filtered, inner)

AskedBackdrop(token, chain) ==
    LET root == BackdropRoot
        Filter(g, f) == Group(f, <<>>, <<g>>)
        effects == token.filters \o
            FlattenSeq([i \in 1..(Len(sc_stack) - root) |->
                            sc_stack[Len(sc_stack) - i + 1].filters])
        copy == FoldLeft(Filter,
                    [Leaf(Position, <<>>) EXCEPT !.kids = asked[root]], effects)
    IN  [asked EXCEPT ![root] = Append(@, [copy EXCEPT !.clips = ToSet(chain)])]

\* It comes first in the contexts inside its root, which Gecko sees to.
AddBackdropFilter(token) ==
    LET chain == GetClipAndScroll(token)
        cut   == CutBackdropPicture
        b     == FilteredBackdrop(cut, token, chain)
        prim  == [b.prim EXCEPT !.chain = chain]
    IN  /\ token.op = "BackdropFilter"
        /\ pending_shadow_items = <<>>
        /\ \A i \in (BackdropRoot + 1)..Len(sc_stack) : sc_stack[i].prim_list = <<>>
        /\ IF cut.cut = <<>>
           THEN UNCHANGED <<pictures, sc_stack, asked>>
           ELSE /\ pictures' = b.pictures
                /\ sc_stack' = AddToList(cut.sc_stack, BackdropRoot, prim,
                                         cut.space, token.flags)
                /\ asked' = AskedBackdrop(token, chain)
        /\ ItemRead
        /\ UNCHANGED <<pending_shadow_items, found_explicit_tile_cache, hits>>

-----------------------------------------------------------------------------
(***************************************************************************)
(* Frames. UpdateVisibility walks the pictures with the clip chain stack:  *)
(* entries are the clips pushed since the last surface, less those that    *)
(* the tile cache around them is known to share.                           *)
(***************************************************************************)
HasSurface(picture) == picture.mode \notin {"None", "NoBlur"}

RECURSIVE UpdateVisibility(_, _, _)
UpdateVisibility(index, entries, shared) ==
    LET picture == pictures[index]
        ignored == shared \cup picture.shared_clips
        Pushed(e, prim) == Append(e, ToSet(prim.chain) \ ignored)
        Clips(e, prim)  == UNION ToSet(Pushed(e, prim))
        Backdrop(prim) ==
            IF prim.kind = "Backdrop"
            THEN UpdateVisibility(prim.source, <<>>, ignored).drawn ELSE <<>>
        Child(s, prim) ==
            LET below == UpdateVisibility(prim.id, Pushed(s.entries, prim), ignored)
                group == [Group(pictures[prim.id].mode, <<>>, below.drawn)
                            EXCEPT !.clips = Clips(s.entries, prim)]
            IN  IF HasSurface(pictures[prim.id])
                THEN [s EXCEPT !.drawn = Append(@, group),
                               !.balanced = @ /\ below.balanced /\ below.entries = <<>>]
                ELSE [below EXCEPT !.entries = Front(@), !.drawn = s.drawn \o @,
                                   !.balanced = @ /\ s.balanced]
        Item(s, prim) ==
            [Leaf(prim.id, <<>>) EXCEPT
                !.clips = Clips(s.entries, prim), !.opacity = prim.opacity,
                !.source = IF prim.kind = "Backdrop" THEN 0 ELSE prim.source,
                !.kids = Backdrop(prim)]
        Step(s, prim) ==
            CASE prim.kind = "PushClipChain" -> [s EXCEPT !.entries = Pushed(@, prim)]
              [] prim.kind = "PopClipChain"  -> [s EXCEPT !.entries = Front(@)]
              [] prim.kind = "Picture"       -> Child(s, prim)
              [] OTHER -> [s EXCEPT !.drawn = Append(@, Item(s, prim))]
    IN  FoldLeft(Step,
                 [entries |-> IF HasSurface(picture) THEN <<>> ELSE entries,
                  drawn |-> <<>>, balanced |-> TRUE],
                 FlattenSeq([i \in DOMAIN picture.prims |-> picture.prims[i].prims]))

(***************************************************************************)
(* Batches. What is drawn on one surface is batched together, and merged   *)
(* into the batches of the target. A tile cache has a target of its own,   *)
(* and all other surfaces are on one target here; one that a clip makes    *)
(* smaller than its content needs a scissor and keeps its batches. The     *)
(* root has no batches: it is composited from the tiles.                   *)
(***************************************************************************)
RECURSIVE Surfaces(_)
Surfaces(group) ==
    LET below(i) == IF group.kids[i].effect = "Leaf" THEN <<>>
                    ELSE Surfaces(group.kids[i])
    IN  Append(FlattenSeq([i \in DOMAIN group.kids |-> below(i)]), group)

RECURSIVE Pixels(_)
Pixels(term) ==
    IF term.effect = "Leaf" THEN list[term.id].rect
    ELSE UNION {Pixels(term.kids[i]) : i \in DOMAIN term.kids}

\* A mix blend reads back what it blends with, in a batch of its own.
KeyOf(term, place) ==
    CASE term.effect = "Leaf"  -> list[term.id].look
      [] term.effect = "Blend" -> [kind |-> "MixBlend" \o ToString(place),
                                   blend |-> "PremultipliedAlpha", texture |-> NoTexture]
      [] OTHER                 -> [kind |-> "Image", blend |-> "PremultipliedAlpha",
                                   texture |-> "RenderTaskCache"]

BatchItems(surface, number) ==
    [i \in DOMAIN surface.kids |->
        [key  |-> KeyOf(surface.kids[i], i), id |-> i,
         rect |-> {<<number, p>> : p \in Pixels(surface.kids[i])}]]

IsTileCache(surface) == surface.effect = "TileCache"

CanMerge(surface) == surface.clips = {}

Targets(surfaces) ==
    LET lists(k) == Finalized(Batches(BatchItems(surfaces[k], k)))
        Shared(k) == ~IsTileCache(surfaces[k]) /\ CanMerge(surfaces[k])
        Merge(c, k) == IF Shared(k) THEN Merged(c, lists(k)) ELSE c
        merged == FoldLeft(Merge, EmptyContainer, [k \in DOMAIN surfaces |-> k])
        Target(k) == CASE IsTileCache(surfaces[k]) -> Merged(EmptyContainer, lists(k))
                       [] Shared(k)                -> merged
                       [] OTHER                    -> lists(k)
    IN  [k \in DOMAIN surfaces |-> Target(k)]

-----------------------------------------------------------------------------
Init ==
    /\ menu \in Menus
    /\ list = <<>>
    /\ open = <<[pipeline |-> 0, clip |-> <<>>, apply_pipeline_clip |-> TRUE,
                 is_context |-> FALSE, empty |-> TRUE]>>
    /\ sc_stack = <<StackingContext(RootToken, 0, <<>>, "Out")>>
    /\ pending_shadow_items = <<>>
    /\ pictures = <<>>
    /\ found_explicit_tile_cache = FALSE
    /\ hits = <<>>
    /\ asked = <<<<>>>>
    /\ within = <<>>
    /\ frame = NotBuilt

IframesAround ==
    {IframeClip(open[i].pipeline) : i \in {j \in DOMAIN open : open[j].pipeline # 0}}

BuildItem ==
    /\ sc_stack # <<>>
    /\ Len(list) < MaxItems
    /\ \E token \in menu :
        /\ list' = Append(list, token)
        /\ within' = Append(within, IframesAround)
        /\ \/ PushStackingContext(token)
           \/ Iframe(token)
           \/ AddTransparentRectangle(token)
           \/ AddPrimitive(token)
           \/ PushShadow(token)
           \/ AddShadowed(token)
           \/ AddBackdropFilter(token)
    /\ UNCHANGED <<menu, frame>>

\* The end of the display list: the root stacking context becomes the root
\* picture, the last one made.
Finish ==
    LET root  == sc_stack[1]
        cache == SetupPictureCaching(pictures, root.prim_list)
    IN  /\ Len(sc_stack) = 1 /\ Len(open) = 1
        /\ pending_shadow_items = <<>>
        /\ pictures' = NewPicture(cache.pictures, LeafMode(root), cache.prims, <<>>).pictures
        /\ sc_stack' = <<>>
        /\ UNCHANGED <<menu, list, open, pending_shadow_items,
                       found_explicit_tile_cache, hits, asked, within, frame>>

BuildFrame ==
    LET root     == UpdateVisibility(Len(pictures), <<>>, {})
        term     == Group("Root", <<>>, root.drawn)
        surfaces == Front(Surfaces(term))
    IN  /\ sc_stack = <<>>
        /\ ~frame.built
        /\ frame' = [built |-> TRUE, term |-> term,
                     balanced |-> root.balanced /\ root.entries = <<>>,
                     surfaces |-> surfaces, targets |-> Targets(surfaces)]
        /\ UNCHANGED <<menu, list, open, sc_stack, pending_shadow_items, pictures,
                       found_explicit_tile_cache, hits, asked, within>>

Next ==
    \/ BuildItem
    \/ PopStackingContext
    \/ EndIframe
    \/ PopAllShadows
    \/ Finish
    \/ BuildFrame

Spec == Init /\ [][Next]_vars

-----------------------------------------------------------------------------
(***************************************************************************)
(* When two groups paint the same. A group without an effect only matters  *)
(* if something in it blends, or if it is clipped by more than a rectangle *)
(* and holds several items; the clips of other groups are given to what is *)
(* in them. What is inside an effect needs no clip of a group around it.   *)
(* Nothing is blended with an empty group, and the opacity of a rectangle  *)
(* is its own.                                                             *)
(***************************************************************************)
IsEffect(term) == term.effect \in {"Opacity", "Blur", "Blend"}

HasBlend(terms) == \E i \in DOMAIN terms : terms[i].effect = "Blend"

\* What is alone in a group can do without it.
Alone(terms) ==
    IF Len(terms) = 1 /\ terms[1].effect = "Group" /\ terms[1].clips = {}
    THEN terms[1].kids ELSE terms

IsRectangle(term) == term.effect = "Leaf" /\ list[term.id].op = "Rectangle"

WithEffect(term, clips, kids) ==
    CASE kids = <<>> -> <<>>
      [] term.effect = "Opacity" /\ Len(kids) = 1 /\ IsRectangle(kids[1]) ->
            <<[kids[1] EXCEPT !.opacity = @ + 1, !.clips = @ \cup clips]>>
      [] OTHER -> <<[term EXCEPT !.clips = clips, !.kids = kids]>>

RECURSIVE Normal(_, _, _)
Normal(terms, pushed, above) ==
    LET NormalGroup(clips, kids) ==
            LET spliced == Normal(kids, clips, above)
                complex == clips \cap Complex
            IN  CASE complex # {} /\ Len(spliced) > 1 ->
                        <<Group("Group", SetToSeq(complex),
                            Alone(Normal(kids, clips \ complex, above \cup complex)))>>
                  [] ~(complex # {} /\ Len(spliced) > 1) /\ HasBlend(spliced) ->
                        <<Group("Group", <<>>, spliced)>>
                  [] OTHER -> spliced
        Add(done, term) ==
            LET clips == (term.clips \cup pushed) \ above
            IN  done \o
                CASE term.effect = "Leaf" ->
                        <<[term EXCEPT !.clips = clips,
                                       !.kids = Alone(Normal(@, {}, {}))]>>
                  [] IsEffect(term) /\ ~(term.effect = "Blend" /\ done = <<>>) ->
                        WithEffect(term, clips,
                                   Alone(Normal(term.kids, {}, above \cup clips)))
                  [] OTHER -> NormalGroup(clips, term.kids)
    IN  FoldLeft(Add, <<>>, terms)

RootNormal(terms) == Alone(Normal(terms, {}, {}))

NumSlices(terms) == Cardinality({i \in DOMAIN terms : terms[i].effect = "TileCache"})

(***************************************************************************)
(* The frame paints what the display list asks for: each item in its       *)
(* place, under all its clips, in the effects of its contexts, whatever    *)
(* contexts were dissolved, cut or hoisted, filters collapsed, clips       *)
(* shared and slices made. An item that blends with the root itself is     *)
(* left out if there are several slices: it only blends with its own.      *)
(***************************************************************************)
PaintsAsAsked ==
    frame.built =>
        \/ HasBlend(asked[1]) /\ NumSlices(frame.term.kids) > 1
        \/ /\ frame.balanced
           /\ RootNormal(frame.term.kids) = RootNormal(asked[1])

RECURSIVE ClipsAbove(_, _)
ClipsAbove(term, above) ==
    LET clips == above \cup term.clips
    IN  IF term.effect = "Leaf"
        THEN IF term.source = 0 THEN {[id |-> term.id, clips |-> clips]} ELSE {}
        ELSE UNION {ClipsAbove(term.kids[i], clips) : i \in DOMAIN term.kids}

(***************************************************************************)
(* An item is hit exactly where it is drawn: hit testing, which the scene  *)
(* keeps apart, knows each clip that the frame draws it with. What is in   *)
(* an iframe is clipped to it, also where apply_pipeline_clip leaves that  *)
(* to a stacking context.                                                  *)
(***************************************************************************)
HitTestAgrees ==
    frame.built =>
        \A leaf \in ClipsAbove(frame.term, {}) :
            /\ within[leaf.id] \subseteq leaf.clips
            /\ leaf.id \in DOMAIN hits => hits[leaf.id] = leaf.clips

(***************************************************************************)
(* Batching never changes what is on top: on each pixel of each surface    *)
(* the target shows the instances of the surface that are not covered, in  *)
(* their order, although they were drawn in other batches than their       *)
(* neighbours' and together with those of other surfaces. Left out are the *)
(* subpixel instances that overlap on a surface whose batches are merged:  *)
(* merging puts the batches together that had been kept apart for them.    *)
(***************************************************************************)
Overlapping(items, pixel) ==
    \E i, j \in DOMAIN items :
        i # j /\ pixel \in items[i].rect \cap items[j].rect
            /\ NeedsDistinctPixels(items[i].key) /\ NeedsDistinctPixels(items[j].key)

BatchesKeepOrder ==
    frame.built =>
        \A k \in DOMAIN frame.surfaces :
            LET items == BatchItems(frame.surfaces[k], k)
            IN  \A pixel \in UNION {items[i].rect : i \in DOMAIN items} :
                    \/ /\ IsTileCache(frame.surfaces[k]) \/ CanMerge(frame.surfaces[k])
                       /\ Overlapping(items, pixel)
                    \/ Drawn(frame.targets[k], pixel) = Painted(items, pixel)
=============================================================================
