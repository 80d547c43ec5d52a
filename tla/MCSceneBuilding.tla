--------------------------- MODULE MCSceneBuilding ---------------------------
(* Instances of SceneBuilding for TLC. A menu has the tokens for one theme; *)
(* c and d are rectangle clips, r is a rounded one.                         *)
EXTENDS SceneBuilding

Look(kind, blend, texture) == [kind |-> kind, blend |-> blend, texture |-> texture]
Solid == Look("Solid", "None", NoTexture)
Glyphs(blend, texture) == Look("Glyphs", blend, texture)

Item(op, clip, space) ==
    [op |-> op, clip |-> clip, space |-> space, flags |-> {Backface},
     visible |-> TRUE, look |-> Glyphs("Alpha", "A"), rect |-> {1},
     blur |-> "NoBlur", filters |-> <<>>]

Context ==
    [op |-> "PushStackingContext", clip_id |-> <<>>, filters |-> <<>>,
     blend |-> FALSE, flags |-> {Backface}, space |-> RootSpace,
     raster_space |-> "Screen", transform_style |-> "Flat",
     is_backdrop_root |-> FALSE]
Clipped(clip) == [Context EXCEPT !.clip_id = <<clip>>]
With(filters) == [Context EXCEPT !.filters = filters]

Rect(clip, space) == Item("Rectangle", clip, space)
Text(clip) == Item("Text", clip, RootSpace)
Pages(clip) == Item("Iframe", clip, RootSpace)
Shadow(clip, blur) == [Item("PushShadow", clip, RootSpace) EXCEPT !.blur = blur]
Backdrop(filters) == [Item("BackdropFilter", <<>>, RootSpace) EXCEPT !.filters = filters]

Clips ==
    {Rect(<<"c">>, RootSpace), [Rect(<<>>, "scrolled") EXCEPT !.visible = FALSE],
     Text(<<>>), Clipped(<<"c", "d">>), Clipped(<<"r">>), Pages(<<"d">>)}
Sliced ==
    {Rect(<<"c">>, RootSpace), Rect(<<"r", "c">>, "scrolled"), Item("Clear", <<>>, RootSpace),
     [Clipped(<<"c">>) EXCEPT !.flags = {Backface, Scrollbar}], Clipped(<<"c">>),
     Pages(<<>>)}
Filters ==
    {Rect(<<"c">>, RootSpace), Text(<<>>), With(<<"Opacity">>),
     [With(<<"Blur", "Opacity">>) EXCEPT !.clip_id = <<<<"c">>>>], Context}
Blends ==
    {Rect(<<>>, RootSpace), [Context EXCEPT !.blend = TRUE],
     [With(<<"Opacity">>) EXCEPT !.blend = TRUE], Clipped(<<"d">>), Pages(<<>>)}
Planes ==
    {Rect(<<>>, RootSpace), [Context EXCEPT !.transform_style = "Preserve3D"],
     [Context EXCEPT !.space = "turned"], With(<<"Opacity">>)}
Shadows ==
    {Rect(<<"c">>, RootSpace), [Text(<<>>) EXCEPT !.visible = FALSE], Shadow(<<"c">>, "Blur"),
     Shadow(<<"d">>, "NoBlur"), Clipped(<<"d">>)}
Backdrops ==
    {Rect(<<"c">>, RootSpace), Context, With(<<"Opacity">>),
     [Context EXCEPT !.is_backdrop_root = TRUE], Backdrop(<<"Blur">>)}
Looks ==
    {[Rect(<<>>, RootSpace) EXCEPT !.look = Solid, !.rect = {1, 2}],
     [Rect(<<>>, RootSpace) EXCEPT !.look = Look("Image", "None", "A")], Text(<<>>),
     [Text(<<>>) EXCEPT !.look.texture = "B", !.rect = {1, 2}],
     [Text(<<>>) EXCEPT !.look.blend = "SubpixelWithBgColor", !.rect = {2}],
     With(<<"Blur">>), Clipped(<<"r">>)}

MCMenus == {Clips, Sliced, Filters, Blends, Planes, Shadows, Backdrops, Looks}
=============================================================================
