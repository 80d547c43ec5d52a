------------------------ MODULE MCPrimitiveClipping ------------------------
EXTENDS PrimitiveClipping

C(kind, mode, rect, radius, node) ==
  [kind |-> kind, mode |-> mode, rect |-> rect, radius |-> radius, node |-> node]

Catalog == <<
  C("rect", "clip", <<1, 1, 7, 9>>, 0, "prim"),
  C("rect", "out", <<3, 3, 5, 5>>, 0, "prim"),
  C("rounded", "clip", <<0, 0, 8, 8>>, 2, "prim"),
  C("rounded", "clip", <<1, 0, 5, 8>>, 3, "prim"),
  C("rounded", "out", <<5, 2, 9, 7>>, 2, "prim"),
  C("image", "clip", <<-1, 1, 6, 8>>, 0, "prim"),
  C("shadow", "outset", <<-1, -1, 9, 9>>, 3, "prim"),
  C("shadow", "inset", <<0, 1, 8, 7>>, 2, "prim"),
  C("rect", "clip", <<1, 1, 5, 7>>, 0, "scroll"),
  C("rect", "out", <<2, 2, 4, 9>>, 0, "scroll"),
  C("rounded", "clip", <<-3, 0, 5, 8>>, 2, "scroll"),
  C("image", "clip", <<0, 0, 4, 8>>, 0, "scroll"),
  C("rect", "clip", <<2, 1, 9, 6>>, 0, "turned"),
  C("rect", "out", <<2, 1, 6, 4>>, 0, "turned"),
  C("rounded", "clip", <<0, -1, 8, 7>>, 2, "turned") >>

Chains(n) == {s \in UNION {[1..k -> DOMAIN Catalog] : k \in 0..n} :
               \/ \A i \in 2..Len(s) : s[i - 1] < s[i]
               \/ \A i \in 2..Len(s) : s[i - 1] > s[i]}

(* A tile cache, of the root coordinate system, may have the first clip.   *)
Shared(c, root) == IF root THEN {{}, {c[i] : i \in {1} \cap DOMAIN c}} ELSE {{}}

MCScenes ==
  UNION {{[prim_rect |-> <<0, 0, 8, 8>>, local_clip_rect |-> <<0, 0, 8, 9>>,
           picture_clips |-> SubSeq(c, 1, Least(1, Len(c))), prim_clips |-> SubSeq(c, 2, Len(c)),
           shared_clips |-> shared, is_large |-> large, at_root |-> root, fast_clears |-> fast] :
             shared \in Shared(c, root), large \in BOOLEAN, fast \in BOOLEAN} :
           c \in {[i \in DOMAIN s |-> Catalog[s[i]]] : s \in Chains(3)}, root \in BOOLEAN}

MCViews == {<<<<-2, -2, 10, 10>>, <<-2, -2, 10, 10>>>>, <<<<0, 0, 8, 6>>, <<4, 2, 8, 6>>>>}
=============================================================================
