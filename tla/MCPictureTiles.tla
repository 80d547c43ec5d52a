--------------------------- MODULE MCPictureTiles ---------------------------
(* Instances of PictureTiles for TLC.                                      *)
EXTENDS PictureTiles

MCTileSize == [small |-> 2, large |-> 4]

Prim(uid, kind, from, to) ==
  [uid |-> uid, kind |-> kind, rect |-> <<from, to>>, clip |-> <<from, to>>,
   turned |-> FALSE]
Page(prims) == [prims |-> prims, size |-> 8, clip |-> <<0, 8>>, background |-> 0]

Background == Prim(1, "rect", 0, 8)
Image == Prim(2, "image", 3, 5)
Text == [Prim(3, "text", 0, 3) EXCEPT !.turned = TRUE]
Fading == Prim(4, "fading", 5, 7)
Video == Prim(5, "video", 1, 2)
Hole == Prim(6, "clear", 0, 4)
Label == [Prim(7, "text", 0, 4) EXCEPT !.clip = <<2, 4>>]

Part == Prim(8, "rect", 0, 6)
MCScenes == {
  Page(<<Background, Image, Text>>),
  [Page(<<Image, Fading, Label>>) EXCEPT !.clip = <<1, 8>>],
  [Page(<<Image, [Label EXCEPT !.clip = <<1, 4>>]>>) EXCEPT !.background = 1],
  Page(<<Part, Video>>),
  [Page(<<Part, Text>>) EXCEPT !.clip = <<0, 6>>],
  Page(<<Hole, Fading>>),
  [Page(<<Background>>) EXCEPT !.size = 3]}
MCViews == {
  [at |-> 0, fract |-> 0, scale |-> 1, flat |-> TRUE],
  [at |-> 4, fract |-> 1, scale |-> 1, flat |-> TRUE],
  [at |-> 4, fract |-> 0, scale |-> 1, flat |-> TRUE],
  [at |-> 0, fract |-> 0, scale |-> 1, flat |-> FALSE]}
MCValues == {NoValue, 1}
=============================================================================
