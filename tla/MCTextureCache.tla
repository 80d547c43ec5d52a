--------------------------- MODULE MCTextureCache ---------------------------
(* Instances of TextureCache for TLC.                                      *)
EXTENDS TextureCache

CONSTANTS d1, d2, image, task, tile

MCUsers == [h \in Handles |-> CASE h = image -> {d2} [] h = tile -> {d1} [] OTHER -> {d1, d2}]
MCMaxFrames == [d \in Docs |-> 2]
MCMaxVersions == [h \in Handles |-> IF h = image THEN 2 ELSE 1]
=============================================================================
