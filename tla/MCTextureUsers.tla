--------------------------- MODULE MCTextureUsers ---------------------------
(* Instances of TextureTransfer and of GlyphRasterizer for TLC, the texture *)
(* cache as it commands textures and the glyphs it is filled with. They     *)
(* share nothing: each takes its steps while the other one is in its        *)
(* initial state.                                                           *)
EXTENDS TextureTransfer, GlyphRasterizer, TLC

CONSTANTS a, b, f, g, i1, i2

(* Glyph b of the second font is a space.                                   *)
MCFontOf == (i1 :> f) @@ (i2 :> g)
MCSize == (i1 :> ((a :> 2) @@ (b :> 1))) @@ (i2 :> ((a :> 2) @@ (b :> 0)))

TextureUsersInit == Init /\ GlyphInit

TextureUsersNext ==
  \/ GlyphInit /\ Next /\ UNCHANGED glyphVars
  \/ Init /\ GlyphNext /\ UNCHANGED vars

TextureUsersSpec ==
  TextureUsersInit /\ [][TextureUsersNext]_<<vars, glyphVars>> /\ GlyphFairness
=============================================================================
