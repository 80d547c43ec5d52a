------------------------- MODULE ResourceCacheProofs -------------------------
(***************************************************************************)
(* Theorems about what the resource cache keeps: the glyphs, of            *)
(* GlyphRasterizer, and the images, of ImageResources.                     *)
(*                                                                         *)
(* Every glyph that a frame asks for is there when it is drawn, and every  *)
(* worker that rasterizes it has its font, whatever the number of fonts,   *)
(* glyphs and workers.  A frame draws an image as the transactions that    *)
(* have arrived make it, for images of any width, any number of renderings *)
(* and any sequence of updates, uploads, clears and frames.                *)
(***************************************************************************)
EXTENDS GlyphRasterizer, ImageResources, FiniteSetTheorems, NaturalsInduction,
        WellFoundedInduction, TLAPS

-----------------------------------------------------------------------------
(* Sums.  SumFunctionOnSet is a recursive function on the subsets of a set *)
(* that takes them apart by a choice of an element.  That it exists and    *)
(* what it adds up to is shown with smallest counterexamples.              *)

LEMMA Smallest ==
  ASSUME NEW T \in SUBSET Nat, T # {}
  PROVE  \E x \in T : \A y \in T : x <= y
  <1>1. PICK R : R = {ss \in Nat \X Nat : ss[1] < ss[2]} /\ IsWellFoundedOn(R, Nat)
    BY NatLessThanWellFounded, Zenon DEF OpToRel
  <1>2. PICK x \in T : \A y \in T : <<y, x>> \notin R
    BY <1>1, WFMin
  <1>3. \A y \in T : ~(y < x)
    BY <1>1, <1>2
  <1> QED
    BY <1>3

LEMMA SmallestSet ==
  ASSUME NEW S, IsFiniteSet(S), NEW B \in SUBSET SUBSET S, B # {}
  PROVE  \E s \in B : \A x \in s : s \ {x} \notin B
  <1>1. \A s \in B : IsFiniteSet(s) /\ Cardinality(s) \in Nat
    BY FS_Subset, FS_CardinalityType
  <1> DEFINE sizes == {Cardinality(s) : s \in B}
  <1>2. sizes \in SUBSET Nat /\ sizes # {}
    BY <1>1
  <1>3. PICK n \in sizes : \A m \in sizes : n <= m
    BY <1>2, Smallest
  <1>4. PICK s \in B : n = Cardinality(s)
    BY <1>3
  <1>5. ASSUME NEW x \in s
        PROVE  s \ {x} \notin B
    <2>1. Cardinality(s \ {x}) = Cardinality(s) - 1
      BY <1>1, <1>5, FS_RemoveElement
    <2> QED
      BY <1>1, <1>3, <1>4, <2>1
  <1> QED
    BY <1>5

Chosen(s) == CHOOSE x \in s : TRUE
SumStep(w, f, s) == IF s = {} THEN 0 ELSE w[Chosen(s)] + f[s \ {Chosen(s)}]
Adds(w, f, S) == f = [s \in SUBSET S |-> SumStep(w, f, s)]

Agree(f, g, S, T) == \A s \in (SUBSET S) \cap (SUBSET T) : f[s] = g[s]

LEMMA ChosenIn ==
  ASSUME NEW s, s # {}
  PROVE  Chosen(s) \in s
  BY DEF Chosen

LEMMA SumUnique ==
  ASSUME NEW w, NEW S, IsFiniteSet(S), NEW T, NEW f, NEW g, Adds(w, f, S), Adds(w, g, T)
  PROVE  Agree(f, g, S, T)
  <1> DEFINE B == {s \in SUBSET S : s \in SUBSET T /\ f[s] # g[s]}
  <1> SUFFICES ASSUME B # {} PROVE FALSE
    BY DEF Agree
  <1>1. PICK s \in B : \A x \in s : s \ {x} \notin B
    <2>1. B \in SUBSET SUBSET S
      OBVIOUS
    <2> HIDE DEF B
    <2> QED
      BY <2>1, SmallestSet
  <1>2. f[s] = SumStep(w, f, s) /\ g[s] = SumStep(w, g, s)
    BY <1>1 DEF Adds
  <1>3. s = {} \/ f[s \ {Chosen(s)}] = g[s \ {Chosen(s)}]
    BY <1>1, ChosenIn
  <1> QED
    BY <1>1, <1>2, <1>3 DEF SumStep

LEMMA SumExists ==
  ASSUME NEW w, NEW S, IsFiniteSet(S)
  PROVE  \E f : Adds(w, f, S)
  <1> DEFINE Summed(s) == \E f : Adds(w, f, s)
             B == {s \in SUBSET S : ~Summed(s)}
  <1> SUFFICES ASSUME B # {} PROVE FALSE
    OBVIOUS
  <1>1. PICK s \in B : \A x \in s : s \ {x} \notin B
    <2>1. B \in SUBSET SUBSET S
      OBVIOUS
    <2> HIDE DEF B
    <2> QED
      BY <2>1, SmallestSet
  <1>2. IsFiniteSet(s)
    BY <1>1, FS_Subset
  <1>3. CASE s = {}
    <2> DEFINE f == [t \in SUBSET {} |-> 0]
    <2>1. Adds(w, f, {})
      BY DEF Adds, SumStep
    <2> QED
      BY <1>1, <1>3, <2>1
  <1>4. CASE s # {}
    <2> DEFINE h == [x \in s |-> CHOOSE f : Adds(w, f, s \ {x})]
               F == [t \in SUBSET s |-> IF t = s THEN w[Chosen(s)] + h[Chosen(s)][s \ {Chosen(s)}]
                                        ELSE h[Chosen(s \ t)][t]]
    <2>1. ASSUME NEW x \in s
          PROVE  Adds(w, h[x], s \ {x})
      <3>1. \E f : Adds(w, f, s \ {x})
        BY <1>1
      <3>2. h[x] = CHOOSE f : Adds(w, f, s \ {x})
        OBVIOUS
      <3> HIDE DEF h
      <3> QED
        BY <3>1, <3>2, Zenon
    <2>2. ASSUME NEW x \in s, NEW t \in SUBSET (s \ {x})
          PROVE  F[t] = h[x][t]
      <3>1. t # s /\ Chosen(s \ t) \in s \ t
        BY ChosenIn
      <3>2. F[t] = h[Chosen(s \ t)][t]
        BY <3>1
      <3>3. Adds(w, h[x], s \ {x}) /\ Adds(w, h[Chosen(s \ t)], s \ {Chosen(s \ t)})
        BY <2>1, <3>1
      <3>4. IsFiniteSet(s \ {x}) /\ t \in SUBSET (s \ {Chosen(s \ t)})
        BY <1>2, <3>1, FS_Subset
      <3> HIDE DEF h, F
      <3>5. PICK R, Q, u, v : /\ R = s \ {x} /\ Q = s \ {Chosen(s \ t)}
                              /\ u = h[x] /\ v = h[Chosen(s \ t)]
        OBVIOUS
      <3>6. IsFiniteSet(R) /\ Adds(w, u, R) /\ Adds(w, v, Q)
        BY <3>3, <3>4, <3>5
      <3>7. Agree(u, v, R, Q)
        BY <3>6, SumUnique
      <3> QED
        BY <3>2, <3>4, <3>5, <3>7 DEF Agree
    <2> HIDE DEF h, F
    <2>3. ASSUME NEW t \in SUBSET s
          PROVE  F[t] = SumStep(w, F, t)
            <3>1. CASE t = {}
        <4>1. PICK x \in s : TRUE
          BY <1>4
        <4>2. F[t] = h[x][t]
          BY <2>2, <3>1
        <4>3. h[x][t] = SumStep(w, h[x], t)
          BY <2>1, <3>1 DEF Adds
        <4> QED
          BY <3>1, <4>2, <4>3 DEF SumStep
      <3>2. CASE t # {} /\ t # s
        <4>1. PICK x \in s : x \notin t
          BY <3>2
        <4>2. Chosen(t) \in t
          BY <3>2, ChosenIn
        <4>3. t \in SUBSET (s \ {x}) /\ t \ {Chosen(t)} \in SUBSET (s \ {x})
          BY <4>1
        <4>4. F[t] = h[x][t] /\ F[t \ {Chosen(t)}] = h[x][t \ {Chosen(t)}]
          BY <2>2, <4>3
        <4>5. h[x][t] = SumStep(w, h[x], t)
          BY <2>1, <4>3 DEF Adds
        <4> QED
          BY <3>2, <4>4, <4>5 DEF SumStep
      <3>3. CASE t = s
        <4>1. Chosen(s) \in s
          BY <1>4, ChosenIn
        <4>2. F[s \ {Chosen(s)}] = h[Chosen(s)][s \ {Chosen(s)}]
          BY <2>2, <4>1
        <4>3. F[s] = w[Chosen(s)] + h[Chosen(s)][s \ {Chosen(s)}]
          BY DEF F
        <4> QED
          BY <1>4, <3>3, <4>2, <4>3 DEF SumStep
      <3> QED
        BY <3>1, <3>2, <3>3
    <2>4. F = [t \in SUBSET s |-> SumStep(w, F, t)]
      <3>1. F = [t \in SUBSET s |-> F[t]]
        BY DEF F
      <3> QED
        BY <2>3, <3>1
    <2>5. Summed(s)
      BY <2>4 DEF Adds
    <2> QED
      BY <1>1, <2>5
  <1> QED
    BY <1>3, <1>4

LEMMA SumIs ==
  ASSUME NEW w, NEW S, IsFiniteSet(S)
  PROVE  \E f : Adds(w, f, S) /\ SumFunctionOnSet(w, S) = f[S]
  <1> DEFINE g == CHOOSE f : f = [s \in SUBSET S |->
                    IF s = {} THEN 0
                    ELSE w[CHOOSE x \in s : TRUE] + f[s \ {CHOOSE x \in s : TRUE}]]
  <1>1. \E f : Adds(w, f, S)
    BY SumExists
  <1>2. Adds(w, g, S)
    BY <1>1, Zenon DEF Adds, SumStep, Chosen
  <1>3. SumFunctionOnSet(w, S) = g[S]
    BY Zenon DEF SumFunctionOnSet, FoldFunctionOnSet, MapThenFoldSet
  <1> QED
    BY <1>2, <1>3

(* What the library's operator adds first.                                 *)
LEMMA SumFirst ==
  ASSUME NEW w, NEW S, IsFiniteSet(S)
  PROVE  /\ S = {} => SumFunctionOnSet(w, S) = 0
         /\ S # {} => SumFunctionOnSet(w, S) =
              w[Chosen(S)] + SumFunctionOnSet(w, S \ {Chosen(S)})
  <1>1. PICK f : Adds(w, f, S) /\ SumFunctionOnSet(w, S) = f[S]
    BY SumIs
  <1>2. f[S] = SumStep(w, f, S)
    BY <1>1 DEF Adds
  <1>3. CASE S = {}
    BY <1>1, <1>2, <1>3 DEF SumStep
  <1>4. CASE S # {}
    <2>1. PICK R : R = S \ {Chosen(S)}
      OBVIOUS
    <2>2. IsFiniteSet(R)
      BY <2>1, FS_Subset
    <2>3. PICK g : Adds(w, g, R) /\ SumFunctionOnSet(w, R) = g[R]
      BY <2>2, SumIs
    <2>4. R \in (SUBSET S) \cap (SUBSET R)
      BY <2>1
    <2>5. f[R] = g[R]
      <3>1. Agree(f, g, S, R)
        BY <1>1, <2>3, SumUnique
      <3> QED
        BY <2>4, <3>1 DEF Agree
    <2> QED
      BY <1>1, <1>2, <1>4, <2>1, <2>3, <2>5 DEF SumStep
  <1> QED
    BY <1>3, <1>4

LEMMA SumNat ==
  ASSUME NEW S, IsFiniteSet(S), NEW w, \A x \in S : w[x] \in Nat
  PROVE  SumFunctionOnSet(w, S) \in Nat
  <1> DEFINE B == {s \in SUBSET S : SumFunctionOnSet(w, s) \notin Nat}
  <1> SUFFICES ASSUME B # {} PROVE FALSE
    BY DEF B
  <1>1. PICK s \in B : \A x \in s : s \ {x} \notin B
    <2>1. B \in SUBSET SUBSET S
      OBVIOUS
    <2> HIDE DEF B
    <2> QED
      BY <2>1, SmallestSet
  <1>2. IsFiniteSet(s)
    BY <1>1, FS_Subset
  <1>3. s # {}
    <2>1. s = {} => SumFunctionOnSet(w, s) = 0
      BY <1>2, SumFirst
    <2> QED
      BY <1>1, <2>1
  <1>4. Chosen(s) \in s /\ SumFunctionOnSet(w, s \ {Chosen(s)}) \in Nat
    BY <1>1, <1>3, ChosenIn
  <1> QED
    BY <1>1, <1>2, <1>3, <1>4, SumFirst

(* Any element can be added first.                                         *)
LEMMA SumTake ==
  ASSUME NEW S, IsFiniteSet(S), NEW w, \A x \in S : w[x] \in Nat, NEW x \in S
  PROVE  SumFunctionOnSet(w, S) = w[x] + SumFunctionOnSet(w, S \ {x})
  <1> DEFINE Takes(s) == \A y \in s :
               SumFunctionOnSet(w, s) = w[y] + SumFunctionOnSet(w, s \ {y})
             B == {s \in SUBSET S : ~Takes(s)}
  <1> SUFFICES ASSUME B # {} PROVE FALSE
    <2>1. Takes(S)
      OBVIOUS
    <2> QED
      BY <2>1
  <1>1. PICK s \in B : \A y \in s : s \ {y} \notin B
    <2>1. B \in SUBSET SUBSET S
      OBVIOUS
    <2> HIDE DEF B
    <2> QED
      BY <2>1, SmallestSet
  <1>2. PICK y \in s : SumFunctionOnSet(w, s) # w[y] + SumFunctionOnSet(w, s \ {y})
    BY <1>1
  <1>3. IsFiniteSet(s) /\ s # {}
    BY <1>1, <1>2, FS_Subset
  <1>4. PICK z \in s : SumFunctionOnSet(w, s) = w[z] + SumFunctionOnSet(w, s \ {z})
    BY <1>3, SumFirst, ChosenIn
  <1>5. y # z
    BY <1>2, <1>4
  <1>6. Takes(s \ {y}) /\ Takes(s \ {z})
    BY <1>1
  <1>7. /\ SumFunctionOnSet(w, s \ {z}) = w[y] + SumFunctionOnSet(w, (s \ {z}) \ {y})
        /\ SumFunctionOnSet(w, s \ {y}) = w[z] + SumFunctionOnSet(w, (s \ {y}) \ {z})
    BY <1>5, <1>6
  <1>8. PICK R : R = (s \ {z}) \ {y} /\ R = (s \ {y}) \ {z}
    OBVIOUS
  <1>9. SumFunctionOnSet(w, R) \in Nat /\ w[y] \in Nat /\ w[z] \in Nat
    <2>1. IsFiniteSet(R) /\ \A u \in R : w[u] \in Nat
      BY <1>1, <1>3, <1>8, FS_Subset
    <2>2. SumFunctionOnSet(w, R) \in Nat
      BY <2>1, SumNat
    <2> QED
      BY <1>1, <2>2
  <1>10. /\ SumFunctionOnSet(w, s \ {z}) = w[y] + SumFunctionOnSet(w, R)
         /\ SumFunctionOnSet(w, s \ {y}) = w[z] + SumFunctionOnSet(w, R)
    BY <1>7, <1>8
  <1> QED
    BY <1>2, <1>4, <1>9, <1>10

LEMMA SumSame ==
  ASSUME NEW S, IsFiniteSet(S), NEW v, NEW w, \A x \in S : v[x] = w[x]
  PROVE  SumFunctionOnSet(v, S) = SumFunctionOnSet(w, S)
  <1> DEFINE B == {s \in SUBSET S : SumFunctionOnSet(v, s) # SumFunctionOnSet(w, s)}
  <1> SUFFICES ASSUME B # {} PROVE FALSE
    BY DEF B
  <1>1. PICK s \in B : \A x \in s : s \ {x} \notin B
    <2>1. B \in SUBSET SUBSET S
      OBVIOUS
    <2> HIDE DEF B
    <2> QED
      BY <2>1, SmallestSet
  <1>2. IsFiniteSet(s)
    BY <1>1, FS_Subset
  <1>3. s # {}
    BY <1>1, <1>2, SumFirst
  <1>4. /\ Chosen(s) \in s
        /\ SumFunctionOnSet(v, s \ {Chosen(s)}) = SumFunctionOnSet(w, s \ {Chosen(s)})
    BY <1>1, <1>3, ChosenIn
  <1> QED
    BY <1>1, <1>2, <1>3, <1>4, SumFirst

LEMMA SumLess ==
  ASSUME NEW S, IsFiniteSet(S), NEW v, NEW w,
         \A x \in S : v[x] \in Nat /\ w[x] \in Nat /\ v[x] <= w[x]
  PROVE  SumFunctionOnSet(v, S) <= SumFunctionOnSet(w, S)
  <1> DEFINE B == {s \in SUBSET S : ~(SumFunctionOnSet(v, s) <= SumFunctionOnSet(w, s))}
  <1> SUFFICES ASSUME B # {} PROVE FALSE
    BY DEF B
  <1>1. PICK s \in B : \A x \in s : s \ {x} \notin B
    <2>1. B \in SUBSET SUBSET S
      OBVIOUS
    <2> HIDE DEF B
    <2> QED
      BY <2>1, SmallestSet
  <1>2. IsFiniteSet(s)
    BY <1>1, FS_Subset
  <1>3. s # {}
    BY <1>1, <1>2, SumFirst
  <1>4. PICK x, R : x = Chosen(s) /\ x \in s /\ R = s \ {x} /\ IsFiniteSet(R)
    BY <1>2, <1>3, ChosenIn, FS_Subset
  <1>5. SumFunctionOnSet(v, R) \in Nat /\ SumFunctionOnSet(w, R) \in Nat
    <2>1. \A u \in R : v[u] \in Nat /\ w[u] \in Nat
      BY <1>1, <1>4
    <2> QED
      BY <1>4, <2>1, SumNat
  <1>6. SumFunctionOnSet(v, R) <= SumFunctionOnSet(w, R)
    BY <1>1, <1>4
  <1>7. /\ SumFunctionOnSet(v, s) = v[x] + SumFunctionOnSet(v, R)
        /\ SumFunctionOnSet(w, s) = w[x] + SumFunctionOnSet(w, R)
    BY <1>2, <1>3, <1>4, SumFirst
  <1>8. v[x] \in Nat /\ w[x] \in Nat /\ v[x] <= w[x]
    BY <1>1, <1>4
  <1>9. ~(SumFunctionOnSet(v, s) <= SumFunctionOnSet(w, s))
    BY <1>1
  <1> HIDE DEF B
  <1> QED
    BY <1>5, <1>6, <1>7, <1>8, <1>9

LEMMA SumSplit ==
  ASSUME NEW S, IsFiniteSet(S), NEW w, \A x \in S : w[x] \in Nat, NEW T \in SUBSET S
  PROVE  SumFunctionOnSet(w, S) = SumFunctionOnSet(w, T) + SumFunctionOnSet(w, S \ T)
  <1> DEFINE Splits(s) ==
               SumFunctionOnSet(w, S) = SumFunctionOnSet(w, s) + SumFunctionOnSet(w, S \ s)
             B == {s \in SUBSET S : ~Splits(s)}
  <1> SUFFICES ASSUME B # {} PROVE FALSE
    <2>1. Splits(T)
      OBVIOUS
    <2> QED
      BY <2>1
  <1>1. PICK s \in B : \A x \in s : s \ {x} \notin B
    <2>1. B \in SUBSET SUBSET S
      OBVIOUS
    <2> HIDE DEF B
    <2> QED
      BY <2>1, SmallestSet
  <1>2. IsFiniteSet(s) /\ SumFunctionOnSet(w, S) \in Nat
    BY <1>1, FS_Subset, SumNat
  <1>3. CASE s = {}
    <2>1. SumFunctionOnSet(w, s) = 0 /\ S \ s = S
      BY <1>2, <1>3, SumFirst
    <2> QED
      BY <1>1, <1>2, <2>1
  <1>4. CASE s # {}
    <2>1. PICK x, R, Q : x \in s /\ R = s \ {x} /\ Q = S \ s
      BY <1>4
    <2>2. PICK P : P = S \ R
      OBVIOUS
    <2>3. x \in P /\ Q = P \ {x} /\ P \in SUBSET S /\ Q \in SUBSET S /\ R \in SUBSET S
      BY <1>1, <2>1, <2>2
    <2>4. /\ IsFiniteSet(P) /\ IsFiniteSet(Q) /\ IsFiniteSet(R)
          /\ \A u \in P \cup s : w[u] \in Nat
      BY <1>1, <2>3, FS_Subset
    <2>5. SumFunctionOnSet(w, Q) \in Nat /\ SumFunctionOnSet(w, R) \in Nat /\ w[x] \in Nat
      <3>1. \A u \in S : w[u] \in Nat
        OBVIOUS
      <3> QED
        BY <1>1, <2>1, <2>3, <2>4, <3>1, SumNat
    <2>6. SumFunctionOnSet(w, P) = w[x] + SumFunctionOnSet(w, Q)
      <3>1. SumFunctionOnSet(w, P) = w[x] + SumFunctionOnSet(w, P \ {x})
        BY <2>3, <2>4, SumTake
      <3> QED
        BY <2>3, <3>1
    <2>7. SumFunctionOnSet(w, s) = w[x] + SumFunctionOnSet(w, R)
      <3>1. SumFunctionOnSet(w, s) = w[x] + SumFunctionOnSet(w, s \ {x})
        BY <1>2, <2>1, <2>4, SumTake
      <3> QED
        BY <2>1, <3>1
    <2>8. SumFunctionOnSet(w, S) = SumFunctionOnSet(w, R) + SumFunctionOnSet(w, P)
      BY <1>1, <2>1, <2>2, <2>3
    <2>9. SumFunctionOnSet(w, S) = SumFunctionOnSet(w, s) + SumFunctionOnSet(w, Q)
      <3> HIDE DEF B, Splits
      <3> QED
        BY <2>5, <2>6, <2>7, <2>8
    <2> QED
      BY <1>1, <2>1, <2>9
  <1> QED
    BY <1>3, <1>4

-----------------------------------------------------------------------------
(* The inductive invariant.                                                *)

(* What an entry is once the glyph has been rasterized, and once the       *)
(* texture cache has evicted that.                                         *)
Right(i, k) == IF Size[i][k] = 0 THEN Blank ELSE Cached(<<i, k>>)
Evicted(i, k) == [Cached(<<i, k>>) EXCEPT !.live = FALSE]

Entries ==
  [is : {"Absent", "Blank", "Pending", "Cached"}, live : BOOLEAN,
   shows : {<<>>} \cup (Instances \X GlyphKeys)]
CacheFields == {"glyphs", "eviction_notice", "orphans", "last_frame_used", "bytes_used"}
ForEachTask ==
  [does : {"lock", "apply"}, add : SUBSET Fonts, remove : SUBSET Fonts, next : 0..NumWorkers + 1]
RasterTask ==
  [does : {"raster"}, font : Instances, todo : SUBSET GlyphKeys, jobs : [GlyphKeys -> Entries]]
Message == [font : Instances, jobs : [GlyphKeys -> Entries]]

GlyphTypeOK ==
  /\ fonts \in [Fonts -> {"new", "added", "deleted"}] /\ scene \subseteq Instances
  /\ stage \in {"Idle", "Pruning", "AddResources", "QueryResources", "Resolved"}
  /\ DOMAIN glyph_key_caches = Instances
  /\ \A i \in Instances : /\ DOMAIN glyph_key_caches[i] = CacheFields
                          /\ glyph_key_caches[i].glyphs \in [GlyphKeys -> Entries]
  /\ asked \subseteq Instances \X GlyphKeys
  /\ fonts_to_remove \subseteq Fonts
  /\ pending_glyphs \in Nat /\ glyph_rx \in Seq(Message)
  /\ spawned \in Seq(ForEachTask \cup RasterTask)
  /\ rasters \subseteq RasterTask /\ IsFiniteSet(rasters)
  /\ for_each \in [Workers -> {NoTask} \cup ForEachTask]
  /\ contexts \in [FontContexts -> SUBSET Fonts]
  /\ owner \in [FontContexts -> {Unlocked} \cup Workers]
  /\ locked \in BOOLEAN /\ waiting \in BOOLEAN

InFrame == stage \in {"AddResources", "QueryResources"}
Queued(n) == spawned[n].does = "lock"
Locking(w) == for_each[w].does = "lock"
Applying(w) == for_each[w].does = "apply"

(* While the render backend waits for a task to have all locks it does not *)
(* ask for another one, so that there is at most one that has not, and one *)
(* that has.  In a frame nothing but glyphs to rasterize is queued.        *)
OneTaskAtATime ==
  /\ waiting => stage \in {"Idle", "Resolved"}
  /\ \A w \in Workers : Locking(w) => waiting /\ ~locked /\ spawned = <<>>
  /\ \A v, w \in Workers : Locking(v) /\ Locking(w) => v = w
  /\ \A v, w \in Workers : Applying(v) /\ Applying(w) => v = w
  /\ IF InFrame THEN \A n \in 1..Len(spawned) : spawned[n].does = "raster"
     ELSE spawned # <<>> =>
            Len(spawned) = 1 /\ Queued(1) /\ spawned[1].next = 0 /\ waiting /\ ~locked

(* The contexts that a task has locked.                                    *)
Locks ==
  \A w \in Workers, c \in FontContexts :
    /\ Locking(w) /\ c < for_each[w].next => owner[c] = w
    /\ Applying(w) => for_each[w].next \in FontContexts
    /\ Applying(w) /\ c >= for_each[w].next => owner[c] = w

(* The fonts that all contexts have once the tasks are done.               *)
Current(f) == fonts[f] = "added" \/ f \in fonts_to_remove
Gone(f) == fonts[f] = "deleted" /\ f \notin fonts_to_remove

(* The worker's task is still to come to this context.                     *)
Before(w, c) == Locking(w) \/ (Applying(w) /\ for_each[w].next <= c)

TasksKnow ==
  /\ \A n \in 1..Len(spawned) : Queued(n) =>
       (\A f \in spawned[n].remove : Gone(f)) /\ (\A f \in spawned[n].add : fonts[f] = "added")
  /\ \A w \in Workers :
       /\ \A f \in for_each[w].remove : Gone(f)
       /\ Locking(w) => \A f \in for_each[w].add : fonts[f] = "added"

Added(f, c) ==
  \/ f \in contexts[c]
  \/ \E n \in 1..Len(spawned) : Queued(n) /\ f \in spawned[n].add
  \/ \E w \in Workers : Before(w, c) /\ f \in for_each[w].add
Removed(f, c) ==
  \/ \E n \in 1..Len(spawned) : Queued(n) /\ f \in spawned[n].remove
  \/ \E w \in Workers : Before(w, c) /\ f \in for_each[w].remove

FontsLead ==
  /\ \A i \in scene : fonts[FontOf[i]] = "added"
  /\ \A f \in fonts_to_remove : fonts[f] = "deleted"
  /\ \A c \in FontContexts, f \in Fonts : Current(f) <=> Added(f, c) /\ ~Removed(f, c)

(* Jobs that have been done show the right glyph, and there are no more    *)
(* messages to come than the render backend waits for.                     *)
JobsRight(i, jobs) == \A k \in GlyphKeys : jobs[k] \in {Absent, Right(i, k)}

JobsInv ==
  /\ \A n \in 1..Len(spawned) : spawned[n].does = "raster" =>
       spawned[n].font \in scene /\ JobsRight(spawned[n].font, spawned[n].jobs)
  /\ \A t \in rasters : t.font \in scene /\ JobsRight(t.font, t.jobs)
  /\ \A n \in 1..Len(glyph_rx) : JobsRight(glyph_rx[n].font, glyph_rx[n].jobs)
  /\ IF InFrame THEN pending_glyphs >= Len(spawned) + Cardinality(rasters) + Len(glyph_rx)
     ELSE rasters = {} /\ glyph_rx = <<>>

(* An entry that is pending is on its way.                                 *)
InTask(t, i, k) == t.does = "raster" /\ t.font = i /\ (k \in t.todo \/ t.jobs[k] # Absent)
OnItsWay(i, k) ==
  \/ \E n \in 1..Len(spawned) : InTask(spawned[n], i, k)
  \/ \E t \in rasters : InTask(t, i, k)
  \/ \E n \in 1..Len(glyph_rx) : glyph_rx[n].font = i /\ glyph_rx[n].jobs[k] # Absent

EntryOK(i, k, e) ==
  \/ e \in {Absent, Right(i, k)}
  \/ e = Pending /\ OnItsWay(i, k)
  \/ e = Evicted(i, k) /\ Size[i][k] # 0

EntriesInv ==
  /\ \A i \in Instances, k \in GlyphKeys : EntryOK(i, k, glyph_key_caches[i].glyphs[k])
  /\ \A g \in asked : glyph_key_caches[g[1]].glyphs[g[2]] \in {Pending, Right(g[1], g[2])}
  /\ stage \in {"Idle", "Pruning"} => asked = {}

IInv == GlyphTypeOK /\ OneTaskAtATime /\ Locks /\ TasksKnow /\ FontsLead /\ JobsInv /\ EntriesInv

-----------------------------------------------------------------------------
(* Types.                                                                  *)

LEMMA EntryTypes ==
  /\ {Absent, Pending, Blank} \subseteq Entries
  /\ \A i \in Instances, k \in GlyphKeys :
       Cached(<<i, k>>) \in Entries /\ Right(i, k) \in Entries /\ Evicted(i, k) \in Entries
  <1>1. Absent \in Entries /\ Pending \in Entries /\ Blank \in Entries
    BY DEF Entries, Absent, Pending, Blank
  <1>2. ASSUME NEW i \in Instances, NEW k \in GlyphKeys
        PROVE  Cached(<<i, k>>) \in Entries /\ Evicted(i, k) \in Entries
    BY DEF Entries, Cached, Evicted
  <1> QED
    BY <1>1, <1>2 DEF Right

LEMMA NewCacheTypes ==
  /\ DOMAIN NoCache = CacheFields /\ NoCache.glyphs = [k \in GlyphKeys |-> Absent]
  /\ DOMAIN NewGlyphKeyCache = CacheFields
  /\ NewGlyphKeyCache.glyphs = [k \in GlyphKeys |-> Absent]
  BY DEF NoCache, NewGlyphKeyCache, CacheFields

LEMMA ConstantTypes ==
  /\ NumWorkers \in Nat /\ NumWorkers >= 1
  /\ FontOf \in [Instances -> Fonts] /\ Size \in [Instances -> [GlyphKeys -> Nat]]
  /\ Workers \subseteq FontContexts /\ 0 \notin Workers /\ FontContexts = 0..NumWorkers
  BY GlyphAssumption DEF Workers, FontContexts, Shared

(* What the operations on a cache do to its glyphs.                        *)
LEMMA CacheOperations ==
  ASSUME NEW i, NEW c, DOMAIN c = CacheFields, NEW ks
  PROVE  /\ DOMAIN ClearGlyphs(c) = CacheFields
         /\ ClearGlyphs(c).glyphs = [k \in GlyphKeys |-> Absent]
         /\ DOMAIN PruneGlyphs(i, c, ks) = CacheFields
         /\ PruneGlyphs(i, c, ks).glyphs = Drop(c, ks)
         /\ DOMAIN ClearEvicted(i, c) = CacheFields
         /\ ClearEvicted(i, c).glyphs \in {c.glyphs, Drop(c, GlyphKeys \ Sized(i, c))}
  BY DEF CacheFields, ClearGlyphs, PruneGlyphs, ClearEvicted

LEMMA TaskTypes ==
  /\ \A add \in SUBSET Fonts, remove \in SUBSET Fonts : ForEach(add, remove) \in ForEachTask
  /\ \A i \in Instances, ks \in SUBSET GlyphKeys : Raster(i, ks) \in RasterTask
  /\ \A t \in ForEachTask : t.does \in {"lock", "apply"}
  /\ \A t \in RasterTask : t.does = "raster"
  /\ NoTask.does = "nothing" /\ NoTask \notin ForEachTask
  BY GlyphAssumption, EntryTypes DEF ForEachTask, ForEach, RasterTask, Raster, NoTask

LEMMA CacheOperationTypes ==
  ASSUME NEW i, NEW c, DOMAIN c = CacheFields, c.glyphs \in [GlyphKeys -> Entries], NEW ks
  PROVE  /\ ClearGlyphs(c).glyphs \in [GlyphKeys -> Entries]
         /\ PruneGlyphs(i, c, ks).glyphs \in [GlyphKeys -> Entries]
         /\ ClearEvicted(i, c).glyphs \in [GlyphKeys -> Entries]
  <1>1. \A dropped : Drop(c, dropped) \in [GlyphKeys -> Entries]
    BY EntryTypes DEF Drop
  <1>2. /\ ClearGlyphs(c).glyphs = [k \in GlyphKeys |-> Absent]
        /\ PruneGlyphs(i, c, ks).glyphs = Drop(c, ks)
        /\ ClearEvicted(i, c).glyphs \in {c.glyphs, Drop(c, GlyphKeys \ Sized(i, c))}
    BY DEF CacheFields, ClearGlyphs, PruneGlyphs, ClearEvicted
  <1>3. ClearGlyphs(c).glyphs \in [GlyphKeys -> Entries]
    BY <1>2, EntryTypes
  <1>4. PruneGlyphs(i, c, ks).glyphs \in [GlyphKeys -> Entries]
    BY <1>1, <1>2
  <1>5. ClearEvicted(i, c).glyphs \in [GlyphKeys -> Entries]
    BY <1>1, <1>2
  <1> QED
    BY <1>3, <1>4, <1>5

LEMMA EvictedTypes ==
  ASSUME NEW e \in Entries
  PROVE  /\ [e EXCEPT !.live = FALSE] \in Entries
         /\ [e EXCEPT !.live = FALSE].is = e.is /\ [e EXCEPT !.live = FALSE].shows = e.shows
  BY DEF Entries

LEMMA TaskSteps ==
  ASSUME NEW t \in ForEachTask
  PROVE  /\ t.next \in FontContexts => [t EXCEPT !.next = t.next + 1] \in ForEachTask
         /\ [t EXCEPT !.does = "apply", !.next = Shared] \in ForEachTask
  <1>1. \A n \in 0..NumWorkers + 1, d \in {"lock", "apply"} :
          [t EXCEPT !.does = d, !.next = n] \in ForEachTask /\ [t EXCEPT !.next = n] \in ForEachTask
    BY DEF ForEachTask
  <1>2. Shared \in 0..NumWorkers + 1 /\ \A n \in FontContexts : n + 1 \in 0..NumWorkers + 1
    BY ConstantTypes DEF Shared
  <1> QED
    BY <1>1, <1>2

LEMMA TypeInit == GlyphInit => GlyphTypeOK
  <1> SUFFICES ASSUME GlyphInit PROVE GlyphTypeOK
    OBVIOUS
  <1>1. \A i \in Instances : /\ DOMAIN glyph_key_caches[i] = CacheFields
                            /\ glyph_key_caches[i].glyphs \in [GlyphKeys -> Entries]
    BY NewCacheTypes, EntryTypes DEF GlyphInit
  <1>2. rasters \subseteq RasterTask /\ IsFiniteSet(rasters)
    BY FS_EmptySet DEF GlyphInit
  <1>3. glyph_rx \in Seq(Message) /\ spawned \in Seq(ForEachTask \cup RasterTask)
    BY DEF GlyphInit
  <1> QED
    BY <1>1, <1>2, <1>3 DEF GlyphInit, GlyphTypeOK

LEMMA TypeNext ==
  ASSUME GlyphTypeOK, Locks, GlyphNext
  PROVE  GlyphTypeOK'
  <1> USE DEF GlyphTypeOK, backendVars, poolVars, waitVars
  <1>1. ASSUME NEW f \in Fonts, AddFont(f)
        PROVE  GlyphTypeOK'
    <2>1. ForEach({f}, {}) \in ForEachTask
      BY TaskTypes
    <2>2. spawned' \in Seq(ForEachTask \cup RasterTask)
      BY <1>1, <2>1 DEF AddFont, AsyncForEach
    <2> QED
      BY <1>1, <2>2 DEF AddFont, AsyncForEach
  <1>2. ASSUME NEW s \in SUBSET Instances, NEW d \in SUBSET Fonts, SwapScene(s, d)
        PROVE  GlyphTypeOK'
    BY <1>2, NewCacheTypes, EntryTypes DEF SwapScene
  <1>3. CASE ClearCacheGlyphs
    BY <1>3, NewCacheTypes, EntryTypes DEF ClearCacheGlyphs
  <1>4. CASE GlyphBeginFrame
    <2>1. ASSUME NEW i \in Instances
          PROVE  LET c == ClearEvicted(i, glyph_key_caches[i])
                 IN  DOMAIN c = CacheFields /\ c.glyphs \in [GlyphKeys -> Entries]
      BY CacheOperations, CacheOperationTypes
    <2> QED
      BY <1>4, <2>1, NewCacheTypes, EntryTypes DEF GlyphBeginFrame
  <1>5. ASSUME NEW i \in Instances, EvictOrphan(i)
        PROVE  GlyphTypeOK'
    BY <1>5 DEF EvictOrphan, CacheFields
  <1>6. ASSUME NEW i \in Instances, NEW k \in GlyphKeys, EvictGlyph(i, k)
        PROVE  GlyphTypeOK'
    <2>1. [glyph_key_caches[i].glyphs EXCEPT ![k].live = FALSE] \in [GlyphKeys -> Entries]
      BY EvictedTypes
    <2> QED
      BY <1>6, <2>1 DEF EvictGlyph, CacheFields
  <1>7. ASSUME NEW i \in Instances, NEW ks \in SUBSET GlyphKeys, RequestGlyphs(i, ks)
        PROVE  GlyphTypeOK'
    <2> DEFINE c == IF Has(i) THEN glyph_key_caches[i] ELSE NewGlyphKeyCache
               new == NewGlyphs(c, ks)
    <2>1. new \in SUBSET GlyphKeys
      BY DEF NewGlyphs
    <2>2. Raster(i, new) \in RasterTask
      BY <2>1, TaskTypes
    <2>3. DOMAIN c = CacheFields /\ c.glyphs \in [GlyphKeys -> Entries]
      BY NewCacheTypes, EntryTypes
    <2>4. [k \in GlyphKeys |-> IF k \in new THEN Pending ELSE c.glyphs[k]] \in [GlyphKeys -> Entries]
      BY <2>3, EntryTypes
    <2>5. pending_glyphs' \in Nat
      BY <1>7 DEF RequestGlyphs, JobsFor
    <2>6. spawned' \in Seq(ForEachTask \cup RasterTask)
      BY <1>7, <2>2 DEF RequestGlyphs
    <2>7. asked' \subseteq Instances \X GlyphKeys
      BY <1>7 DEF RequestGlyphs
    <2>8. glyph_key_caches' =
            [glyph_key_caches EXCEPT ![i] =
              [c EXCEPT !.glyphs = [k \in GlyphKeys |-> IF k \in new THEN Pending ELSE c.glyphs[k]],
                        !.last_frame_used = current_frame,
                        !.bytes_used = IF new = {} THEN @ ELSE Dirty]]
      BY <1>7 DEF RequestGlyphs
    <2>9. /\ DOMAIN glyph_key_caches' = Instances
          /\ \A j \in Instances : /\ DOMAIN glyph_key_caches'[j] = CacheFields
                                  /\ glyph_key_caches'[j].glyphs \in [GlyphKeys -> Entries]
      <3> HIDE DEF c, new
      <3> QED
        BY <2>3, <2>4, <2>8 DEF CacheFields
    <2> QED
      BY <1>7, <2>5, <2>6, <2>7, <2>9 DEF RequestGlyphs
  <1>8. CASE Resume
    BY <1>8 DEF Resume
  <1>9. CASE ClearEmptyCaches
    BY <1>9, NewCacheTypes, EntryTypes DEF ClearEmptyCaches
  <1>10. CASE BlockForGlyphs
    BY <1>10 DEF BlockForGlyphs
  <1>11. CASE ReceiveJobs
    <2> DEFINE msg == Head(glyph_rx)
               c == IF Has(msg.font) THEN glyph_key_caches[msg.font] ELSE NewGlyphKeyCache
               got == [k \in GlyphKeys |->
                         IF msg.jobs[k] = Absent THEN c.glyphs[k] ELSE msg.jobs[k]]
    <2>1. msg \in Message /\ glyph_rx' \in Seq(Message)
      BY <1>11 DEF ReceiveJobs
    <2>2. DOMAIN c = CacheFields /\ c.glyphs \in [GlyphKeys -> Entries]
      BY <2>1, NewCacheTypes, EntryTypes DEF Message
    <2>3. got \in [GlyphKeys -> Entries]
      BY <2>1, <2>2 DEF Message
    <2>4. glyph_key_caches' = [glyph_key_caches EXCEPT ![msg.font] =
            [c EXCEPT !.glyphs = got, !.last_frame_used = current_frame]]
      BY <1>11 DEF ReceiveJobs
    <2>5. /\ DOMAIN glyph_key_caches' = Instances
          /\ \A j \in Instances : /\ DOMAIN glyph_key_caches'[j] = CacheFields
                                  /\ glyph_key_caches'[j].glyphs \in [GlyphKeys -> Entries]
      <3>1. msg.font \in Instances
        BY <2>1 DEF Message
      <3> HIDE DEF msg, c, got
      <3> QED
        BY <2>2, <2>3, <2>4, <3>1 DEF CacheFields
    <2>6. /\ pending_glyphs > 0 /\ pending_glyphs' = pending_glyphs - 1
          /\ UNCHANGED <<fonts, scene, stage, asked, fonts_to_remove, spawned, poolVars, waitVars>>
      BY <1>11 DEF ReceiveJobs
    <2> QED
      BY <2>1, <2>5, <2>6
  <1>12. CASE RemoveDeadFonts
    <2>1. ForEach({}, fonts_to_remove) \in ForEachTask
      BY TaskTypes
    <2>2. spawned' \in Seq(ForEachTask \cup RasterTask)
      <3>1. CASE spawned' = spawned
        BY <3>1
      <3>2. CASE spawned' = Append(spawned, ForEach({}, fonts_to_remove))
        BY <2>1, <3>2
      <3> QED
        BY <1>12, <3>1, <3>2 DEF RemoveDeadFonts, AsyncForEach
    <2> QED
      BY <1>12, <2>2 DEF RemoveDeadFonts, AsyncForEach
  <1>13. CASE FetchGlyphs
    BY <1>13 DEF FetchGlyphs
  <1>14. ASSUME NEW i \in Instances, PruneOldest(i)
         PROVE  GlyphTypeOK'
    <2> DEFINE c == glyph_key_caches[i]
    <2>2. ASSUME NEW new, glyph_key_caches' = [glyph_key_caches EXCEPT ![i] = new],
                 DOMAIN new = CacheFields, new.glyphs \in [GlyphKeys -> Entries]
          PROVE  GlyphTypeOK'
      BY <1>14, <2>2 DEF PruneOldest
    <2>3. DOMAIN ClearGlyphs(c) = CacheFields /\ ClearGlyphs(c).glyphs \in [GlyphKeys -> Entries]
      BY CacheOperations, CacheOperationTypes
    <2>4. \A ks : /\ DOMAIN PruneGlyphs(i, c, ks) = CacheFields
                  /\ PruneGlyphs(i, c, ks).glyphs \in [GlyphKeys -> Entries]
      BY CacheOperations, CacheOperationTypes
    <2>5. \/ glyph_key_caches' = [glyph_key_caches EXCEPT ![i] = ClearGlyphs(c)]
          \/ \E ks : glyph_key_caches' = [glyph_key_caches EXCEPT ![i] = PruneGlyphs(i, c, ks)]
      BY <1>14 DEF PruneOldest
    <2> QED
      BY <2>2, <2>3, <2>4, <2>5
  <1>15. ASSUME NEW w \in Workers, TakeTask(w)
         PROVE  GlyphTypeOK'
    <2>1. Head(spawned) \in ForEachTask \cup RasterTask /\ spawned' \in Seq(ForEachTask \cup RasterTask)
      BY <1>15 DEF TakeTask
    <2>2. Head(spawned).does = "raster" => Head(spawned) \in RasterTask
      BY <2>1, TaskTypes
    <2>3. Head(spawned).does # "raster" => Head(spawned) \in ForEachTask
      BY <2>1, TaskTypes
    <2>4. IsFiniteSet(rasters \cup {Head(spawned)})
      BY FS_AddElement
    <2> QED
      BY <1>15, <2>1, <2>2, <2>3, <2>4 DEF TakeTask
  <1>16. ASSUME NEW w \in Workers, LockContext(w)
         PROVE  GlyphTypeOK'
    <2>1. for_each[w] \in ForEachTask
      BY <1>16, TaskTypes DEF LockContext
    <2>2. [for_each[w] EXCEPT !.next = for_each[w].next + 1] \in ForEachTask
      BY <1>16, <2>1, TaskSteps DEF LockContext
    <2> QED
      BY <1>16, <2>2 DEF LockContext
  <1>17. ASSUME NEW w \in Workers, SignalLocked(w)
         PROVE  GlyphTypeOK'
    <2>1. for_each[w] \in ForEachTask
      BY <1>17, TaskTypes DEF SignalLocked
    <2>2. [for_each[w] EXCEPT !.does = "apply", !.next = Shared] \in ForEachTask
      BY <2>1, TaskSteps
    <2> QED
      BY <1>17, <2>2 DEF SignalLocked
  <1>18. ASSUME NEW w \in Workers, ApplyToContext(w)
         PROVE  GlyphTypeOK'
    <2> DEFINE t == for_each[w]
    <2>1. t \in ForEachTask
      BY <1>18, TaskTypes DEF ApplyToContext
    <2>2. t.next \in FontContexts
      BY <1>18, GlyphAssumption DEF ApplyToContext, Locks, Applying, FontContexts, Shared
    <2>3. t.next # NumWorkers => [t EXCEPT !.next = t.next + 1] \in ForEachTask
      BY <2>1, <2>2, TaskSteps
    <2>4. for_each' \in [Workers -> {NoTask} \cup ForEachTask]
      BY <1>18, <2>3 DEF ApplyToContext
    <2>5. contexts' \in [FontContexts -> SUBSET Fonts]
      BY <1>18, <2>1, <2>2 DEF ApplyToContext, ForEachTask
    <2> QED
      BY <1>18, <2>2, <2>4, <2>5 DEF ApplyToContext
  <1>19. ASSUME NEW w \in Workers, RasterizeGlyph(w)
         PROVE  GlyphTypeOK'
    <2>1. PICK t \in rasters : \E k \in t.todo :
            rasters' = (rasters \ {t}) \cup
              {[t EXCEPT !.todo = @ \ {k}, !.jobs[k] = Rasterized(w, t.font, k)]}
      BY <1>19 DEF RasterizeGlyph
    <2>2. PICK k \in t.todo :
            rasters' = (rasters \ {t}) \cup
              {[t EXCEPT !.todo = @ \ {k}, !.jobs[k] = Rasterized(w, t.font, k)]}
      BY <2>1
    <2>3. t \in RasterTask /\ t.font \in Instances /\ k \in GlyphKeys
      BY <2>2 DEF RasterTask
    <2>4. Rasterized(w, t.font, k) \in Entries
      BY <2>3, EntryTypes DEF Rasterized
    <2>5. [t EXCEPT !.todo = @ \ {k}, !.jobs[k] = Rasterized(w, t.font, k)] \in RasterTask
      BY <2>3, <2>4 DEF RasterTask
    <2>6. rasters' \subseteq RasterTask /\ IsFiniteSet(rasters')
      BY <2>2, <2>5, FS_RemoveElement, FS_AddElement
    <2> QED
      BY <1>19, <2>6 DEF RasterizeGlyph
  <1>20. CASE SendJobs
    <2>1. PICK t \in rasters :
            rasters' = rasters \ {t} /\ glyph_rx' = Append(glyph_rx, [font |-> t.font, jobs |-> t.jobs])
      BY <1>20 DEF SendJobs
    <2>2. [font |-> t.font, jobs |-> t.jobs] \in Message
      BY DEF RasterTask, Message
    <2>3. IsFiniteSet(rasters')
      BY <2>1, FS_RemoveElement
    <2> QED
      BY <1>20, <2>1, <2>2, <2>3 DEF SendJobs
  <1> QED
    BY <1>1, <1>2, <1>3, <1>4, <1>5, <1>6, <1>7, <1>8, <1>9, <1>10, <1>11, <1>12, <1>13, <1>14,
       <1>15, <1>16, <1>17, <1>18, <1>19, <1>20, GlyphNext DEF GlyphNext, FrameStep, PoolStep

-----------------------------------------------------------------------------
(* The tasks that change contexts.                                         *)

LEMMA OneTaskInit == GlyphInit => OneTaskAtATime /\ Locks
  BY DEF GlyphInit, OneTaskAtATime, Locks, InFrame, Locking, Applying, NoTask

(* When the render backend has all messages, no task is left.              *)
LEMMA AllReceived ==
  ASSUME GlyphTypeOK, JobsInv, InFrame, pending_glyphs = 0
  PROVE  spawned = <<>> /\ rasters = {} /\ glyph_rx = <<>>
  <1>1. Cardinality(rasters) \in Nat /\ (Cardinality(rasters) = 0 => rasters = {})
    BY FS_CardinalityType, FS_EmptySet DEF GlyphTypeOK
  <1>2. Len(spawned) \in Nat /\ Len(glyph_rx) \in Nat
    BY DEF GlyphTypeOK
  <1>3. 0 >= Len(spawned) + Cardinality(rasters) + Len(glyph_rx)
    BY DEF JobsInv
  <1>4. Len(spawned) = 0 /\ Cardinality(rasters) = 0 /\ Len(glyph_rx) = 0
    BY <1>1, <1>2, <1>3
  <1> QED
    BY <1>1, <1>4 DEF GlyphTypeOK

LEMMA OneTaskNext ==
  ASSUME GlyphTypeOK, OneTaskAtATime, Locks, JobsInv, GlyphNext
  PROVE  OneTaskAtATime'
  <1> USE DEF backendVars, poolVars, waitVars
  <1>a. ASSUME UNCHANGED <<stage, waiting, locked, spawned, for_each>>
        PROVE  OneTaskAtATime'
    BY <1>a DEF OneTaskAtATime, InFrame, Queued, Locking, Applying
  (* A new task for all contexts.                                          *)
  <1>b. ASSUME NEW add \in SUBSET Fonts, NEW remove \in SUBSET Fonts, AsyncForEach(add, remove),
               spawned = <<>>, \A w \in Workers : ~Locking(w), stage' \in {"Idle", "Resolved"},
               UNCHANGED for_each
        PROVE  OneTaskAtATime'
    <2>1. Len(spawned') = 1 /\ spawned'[1] = ForEach(add, remove)
      BY <1>b DEF AsyncForEach
    <2>2. ForEach(add, remove).does = "lock" /\ ForEach(add, remove).next = 0
      BY DEF ForEach
    <2> QED
      BY <1>b, <2>1, <2>2 DEF OneTaskAtATime, InFrame, Queued, Locking, Applying, AsyncForEach
  <1>c. ~waiting => \A w \in Workers : ~Locking(w)
    BY DEF OneTaskAtATime
  <1>d. ~waiting /\ ~InFrame => spawned = <<>>
    BY DEF OneTaskAtATime
  <1>1. ASSUME NEW f \in Fonts, AddFont(f)
        PROVE  OneTaskAtATime'
    <2>1. spawned = <<>> /\ \A w \in Workers : ~Locking(w)
      BY <1>1, <1>c, <1>d DEF AddFont, InFrame
    <2> QED
      BY <1>1, <1>b, <2>1 DEF AddFont
  <1>2. ASSUME NEW s \in SUBSET Instances, NEW d \in SUBSET Fonts, SwapScene(s, d)
        PROVE  OneTaskAtATime'
    BY <1>2, <1>a DEF SwapScene
  <1>3. CASE ClearCacheGlyphs
    BY <1>3, <1>a DEF ClearCacheGlyphs
  <1>4. CASE GlyphBeginFrame
    BY <1>4 DEF GlyphBeginFrame, OneTaskAtATime, InFrame, Queued, Locking, Applying
  <1>5. ASSUME NEW i \in Instances, EvictOrphan(i)
        PROVE  OneTaskAtATime'
    BY <1>5, <1>a DEF EvictOrphan
  <1>6. ASSUME NEW i \in Instances, NEW k \in GlyphKeys, EvictGlyph(i, k)
        PROVE  OneTaskAtATime'
    BY <1>6, <1>a DEF EvictGlyph
  <1>7. ASSUME NEW i \in Instances, NEW ks \in SUBSET GlyphKeys, RequestGlyphs(i, ks)
        PROVE  OneTaskAtATime'
    <2>1. stage = "AddResources" /\ ~waiting /\ UNCHANGED <<stage, waiting, locked, for_each>>
      BY <1>7 DEF RequestGlyphs
    <2>2. PICK new \in SUBSET GlyphKeys : spawned' \in {spawned, Append(spawned, Raster(i, new))}
      BY <1>7 DEF RequestGlyphs, NewGlyphs
    <2>3. Raster(i, new) \in RasterTask /\ Raster(i, new).does = "raster"
      BY TaskTypes
    <2>4. \A n \in 1..Len(spawned') : spawned'[n].does = "raster"
      <3>1. \A n \in 1..Len(spawned) : spawned[n].does = "raster"
        BY <2>1 DEF OneTaskAtATime, InFrame
      <3>2. CASE spawned' = Append(spawned, Raster(i, new))
        <4>1. /\ Len(spawned') = Len(spawned) + 1
              /\ \A n \in 1..Len(spawned') : spawned'[n] =
                   IF n = Len(spawned) + 1 THEN Raster(i, new) ELSE spawned[n]
          BY <2>3, <3>2 DEF GlyphTypeOK
        <4>2. \A n \in 1..Len(spawned') : n = Len(spawned) + 1 \/ n \in 1..Len(spawned)
          BY <4>1 DEF GlyphTypeOK
        <4> QED
          BY <2>3, <3>1, <4>1, <4>2
      <3> QED
        BY <2>2, <3>1, <3>2
    <2> QED
      BY <2>1, <2>4, <1>c DEF OneTaskAtATime, InFrame, Locking, Applying
  <1>8. CASE Resume
    <2>1. spawned = <<>> \/ InFrame
      BY <1>8 DEF Resume, OneTaskAtATime
    <2> QED
      BY <1>8, <2>1 DEF Resume, OneTaskAtATime, InFrame, Queued, Locking, Applying
  <1>9. CASE ClearEmptyCaches
    <2>1. stage = "Pruning" /\ stage' = "AddResources"
          /\ UNCHANGED <<waiting, locked, spawned, for_each>>
      BY <1>9 DEF ClearEmptyCaches
    <2>2. ~waiting /\ spawned = <<>>
      BY <2>1, <1>d DEF OneTaskAtATime, InFrame
    <2> QED
      BY <2>1, <2>2 DEF OneTaskAtATime, InFrame, Queued, Locking, Applying
  <1>10. CASE BlockForGlyphs
    BY <1>10 DEF BlockForGlyphs, OneTaskAtATime, InFrame, Queued, Locking, Applying
  <1>11. CASE ReceiveJobs
    BY <1>11, <1>a DEF ReceiveJobs
  <1>12. CASE RemoveDeadFonts
    <2>1. ~waiting
      BY <1>12 DEF RemoveDeadFonts, OneTaskAtATime
    <2>2. spawned = <<>>
      BY <1>12, AllReceived DEF RemoveDeadFonts, InFrame
    <2>3. CASE UNCHANGED <<spawned, waitVars>>
      BY <1>12, <2>1, <2>2, <2>3, <1>c
         DEF RemoveDeadFonts, OneTaskAtATime, InFrame, Queued, Locking, Applying
    <2>4. CASE AsyncForEach({}, fonts_to_remove)
      <3>1. fonts_to_remove \in SUBSET Fonts
        BY DEF GlyphTypeOK
      <3> QED
        BY <1>12, <1>b, <1>c, <2>1, <2>2, <2>4, <3>1 DEF RemoveDeadFonts
    <2> QED
      BY <1>12, <2>3, <2>4 DEF RemoveDeadFonts
  <1>13. CASE FetchGlyphs
    BY <1>13, <1>c, <1>d DEF FetchGlyphs, OneTaskAtATime, InFrame, Queued, Locking, Applying
  <1>14. ASSUME NEW i \in Instances, PruneOldest(i)
         PROVE  OneTaskAtATime'
    BY <1>14, <1>a DEF PruneOldest
  <1>15. ASSUME NEW w \in Workers, TakeTask(w)
         PROVE  OneTaskAtATime'
    <2>1. /\ spawned # <<>> /\ spawned' = Tail(spawned) /\ for_each[w] = NoTask
          /\ UNCHANGED <<stage, waiting, locked>>
      BY <1>15 DEF TakeTask, Idle
    <2>2. Len(spawned) >= 1 /\ Len(spawned') = Len(spawned) - 1
          /\ \A n \in 1..Len(spawned') : n + 1 \in 1..Len(spawned) /\ spawned'[n] = spawned[n + 1]
      BY <2>1 DEF GlyphTypeOK
    <2>3. 1 \in 1..Len(spawned) /\ Head(spawned) = spawned[1]
      BY <2>1, <2>2 DEF GlyphTypeOK
    <2>4. \A v \in Workers : ~Locking(v)
      BY <2>1 DEF OneTaskAtATime
    <2>5. CASE InFrame
      <3>1. UNCHANGED for_each /\ \A n \in 1..Len(spawned') : spawned'[n].does = "raster"
        BY <1>15, <2>2, <2>3, <2>5 DEF TakeTask, OneTaskAtATime
      <3> QED
        BY <2>1, <2>4, <2>5, <3>1 DEF OneTaskAtATime, InFrame, Queued, Locking, Applying
    <2>6. CASE ~InFrame
      <3>1. Queued(1) /\ Len(spawned) = 1 /\ waiting /\ ~locked
        BY <2>1, <2>6 DEF OneTaskAtATime
      <3>2. for_each' = [for_each EXCEPT ![w] = spawned[1]] /\ spawned' = <<>>
        BY <1>15, <2>1, <2>2, <2>3, <3>1 DEF TakeTask, Queued, GlyphTypeOK
      <3>3. \A v \in Workers : Locking(v)' <=> v = w
        BY <2>4, <3>1, <3>2 DEF Locking, Queued, GlyphTypeOK
      <3>4. \A v \in Workers : Applying(v)' => Applying(v)
        BY <3>1, <3>2 DEF Applying, Queued, GlyphTypeOK
      <3> QED
        BY <2>1, <2>6, <3>1, <3>2, <3>3, <3>4 DEF OneTaskAtATime, InFrame
    <2> QED
      BY <2>5, <2>6
  <1>16. ASSUME NEW w \in Workers, LockContext(w)
         PROVE  OneTaskAtATime'
    <2>1. for_each[w] \in ForEachTask
      BY <1>16, TaskTypes DEF LockContext, GlyphTypeOK
    <2>2. \A v \in Workers : for_each'[v].does = for_each[v].does
      BY <1>16, <2>1 DEF LockContext, GlyphTypeOK, ForEachTask
    <2> QED
      BY <1>16, <2>2 DEF LockContext, OneTaskAtATime, InFrame, Queued, Locking, Applying
  <1>17. ASSUME NEW w \in Workers, SignalLocked(w)
         PROVE  OneTaskAtATime'
    <2>1. for_each[w] \in ForEachTask /\ Locking(w) /\ for_each[w].next = NumWorkers + 1
      BY <1>17, TaskTypes DEF SignalLocked, GlyphTypeOK, Locking
    <2>2. /\ for_each'[w].does = "apply"
          /\ \A v \in Workers : v # w => for_each'[v] = for_each[v]
      BY <1>17, <2>1 DEF SignalLocked, GlyphTypeOK, ForEachTask
    <2>3. spawned = <<>> /\ \A v \in Workers : ~Locking(v)'
      BY <2>1, <2>2 DEF OneTaskAtATime, Locking
    <2>4. \A v \in Workers : ~Applying(v)
      <3>1. SUFFICES ASSUME NEW v \in Workers, Applying(v) PROVE FALSE
        OBVIOUS
      <3>2. for_each[v].next \in FontContexts /\ owner[for_each[v].next] = v
        <4>1. for_each[v].next \in FontContexts
          BY <3>1, ConstantTypes DEF Locks
        <4> QED
          BY <3>1, <4>1, ConstantTypes DEF Locks
      <3>3. owner[for_each[v].next] = w
        BY <2>1, <3>2, ConstantTypes DEF Locks
      <3> QED
        BY <2>1, <3>1, <3>2, <3>3 DEF Locking, Applying
    <2>5. \A v \in Workers : Applying(v)' <=> v = w
      BY <2>2, <2>4 DEF Applying
    <2> QED
      BY <1>17, <2>3, <2>5 DEF SignalLocked, OneTaskAtATime, InFrame
  <1>18. ASSUME NEW w \in Workers, ApplyToContext(w)
         PROVE  OneTaskAtATime'
    <2>1. for_each[w] \in ForEachTask
      BY <1>18, TaskTypes DEF ApplyToContext, GlyphTypeOK
    <2>2. \A v \in Workers : (Locking(v)' => Locking(v)) /\ (Applying(v)' => Applying(v))
      BY <1>18, <2>1 DEF ApplyToContext, GlyphTypeOK, ForEachTask, NoTask, Locking, Applying
    <2> QED
      BY <1>18, <2>2 DEF ApplyToContext, OneTaskAtATime, InFrame, Queued
  <1>19. ASSUME NEW w \in Workers, RasterizeGlyph(w)
         PROVE  OneTaskAtATime'
    BY <1>19, <1>a DEF RasterizeGlyph
  <1>20. CASE SendJobs
    BY <1>20, <1>a DEF SendJobs
  <1> QED
    BY <1>1, <1>2, <1>3, <1>4, <1>5, <1>6, <1>7, <1>8, <1>9, <1>10, <1>11, <1>12, <1>13, <1>14,
       <1>15, <1>16, <1>17, <1>18, <1>19, <1>20, GlyphNext DEF GlyphNext, FrameStep, PoolStep

(* Only the workers at a task for all contexts change locks and fonts.     *)
LEMMA ContextSteps ==
  ASSUME GlyphNext
  PROVE  \/ \E w \in Workers : TakeTask(w) \/ LockContext(w) \/ SignalLocked(w) \/ ApplyToContext(w)
         \/ UNCHANGED <<for_each, contexts, owner>>
  <1> USE DEF backendVars, poolVars, waitVars
  <1>1. CASE \E f \in Fonts : AddFont(f)
    BY <1>1 DEF AddFont
  <1>2. CASE \E s \in SUBSET Instances, d \in SUBSET Fonts : SwapScene(s, d)
    BY <1>2 DEF SwapScene
  <1>3. CASE ClearCacheGlyphs \/ GlyphBeginFrame
    BY <1>3 DEF ClearCacheGlyphs, GlyphBeginFrame
  <1>4. CASE \E i \in Instances : EvictOrphan(i) \/ \E k \in GlyphKeys : EvictGlyph(i, k)
    BY <1>4 DEF EvictOrphan, EvictGlyph
  <1>5. CASE \E i \in Instances, ks \in SUBSET GlyphKeys : RequestGlyphs(i, ks)
    BY <1>5 DEF RequestGlyphs
  <1>6. CASE FrameStep
    BY <1>6 DEF FrameStep, Resume, ClearEmptyCaches, BlockForGlyphs, ReceiveJobs, RemoveDeadFonts,
                FetchGlyphs, PruneOldest
  <1>7. CASE PoolStep
    BY <1>7 DEF PoolStep, RasterizeGlyph, SendJobs
  <1> QED
    BY <1>1, <1>2, <1>3, <1>4, <1>5, <1>6, <1>7, GlyphNext DEF GlyphNext

(* The task that TakeTask takes, if it is not one for glyphs.              *)
LEMMA TakesForEach ==
  ASSUME GlyphTypeOK, OneTaskAtATime, NEW w \in Workers, TakeTask(w)
  PROVE  /\ for_each[w] = NoTask /\ \A v \in Workers : ~Locking(v)
         /\ \/ Head(spawned).does = "raster" /\ UNCHANGED for_each
            \/ /\ Len(spawned) = 1 /\ spawned' = <<>> /\ Queued(1)
               /\ spawned[1] \in ForEachTask /\ spawned[1].next = 0
               /\ for_each' = [for_each EXCEPT ![w] = spawned[1]] /\ UNCHANGED rasters
  <1>1. for_each[w] = NoTask /\ spawned # <<>> /\ spawned' = Tail(spawned)
    BY DEF TakeTask, Idle
  <1>2. \A v \in Workers : ~Locking(v)
    BY <1>1 DEF OneTaskAtATime
  <1>3. Head(spawned) = spawned[1] /\ spawned[1] \in ForEachTask \cup RasterTask
    BY <1>1 DEF GlyphTypeOK
  <1>4. CASE Head(spawned).does = "raster"
    BY <1>1, <1>2, <1>4 DEF TakeTask
  <1>5. CASE Head(spawned).does # "raster"
    <2>1. Len(spawned) = 1 /\ Queued(1) /\ spawned[1].next = 0
      <3>1. 1 \in 1..Len(spawned)
        BY <1>1 DEF GlyphTypeOK
      <3> QED
        BY <1>1, <1>3, <1>5, <3>1 DEF OneTaskAtATime
    <2>2. Len(spawned) = 1 /\ spawned' = <<>>
      BY <1>1, <2>1 DEF GlyphTypeOK
    <2>3. spawned[1] \in ForEachTask
      BY <1>3, <1>5, TaskTypes
    <2>4. for_each' = [for_each EXCEPT ![w] = spawned[1]] /\ UNCHANGED rasters
      BY <1>3, <1>5 DEF TakeTask
    <2> QED
      BY <1>1, <1>2, <2>1, <2>2, <2>3, <2>4
  <1> QED
    BY <1>4, <1>5

LEMMA LocksNext ==
  ASSUME GlyphTypeOK, OneTaskAtATime, Locks, GlyphNext
  PROVE  Locks'
  <1> USE ConstantTypes DEF Locks, Locking, Applying
  <1>1. ASSUME UNCHANGED <<for_each, contexts, owner>>
        PROVE  Locks'
    BY <1>1
  <1>2. ASSUME NEW w \in Workers, TakeTask(w)
        PROVE  Locks'
    <2>1. UNCHANGED owner
      BY <1>2 DEF TakeTask
    <2>2. CASE UNCHANGED for_each
      BY <2>1, <2>2
    <2>3. CASE /\ for_each' = [for_each EXCEPT ![w] = spawned[1]]
               /\ Queued(1) /\ spawned[1].next = 0
      <3>1. for_each'[w].does = "lock" /\ for_each'[w].next = 0
            /\ \A v \in Workers : v # w => for_each'[v] = for_each[v]
        BY <2>3 DEF Queued, GlyphTypeOK
      <3> QED
        BY <2>1, <3>1
    <2> QED
      BY <1>2, <2>2, <2>3, TakesForEach
  <1>3. ASSUME NEW w \in Workers, LockContext(w)
        PROVE  Locks'
    <2> DEFINE c == for_each[w].next
    <2>1. for_each[w] \in ForEachTask /\ Locking(w) /\ c \in FontContexts /\ owner[c] = Unlocked
      BY <1>3, TaskTypes DEF LockContext, GlyphTypeOK
    <2>2. for_each'[w].does = "lock" /\ for_each'[w].next = c + 1
          /\ \A v \in Workers : v # w => for_each'[v] = for_each[v]
      BY <1>3, <2>1 DEF LockContext, GlyphTypeOK, ForEachTask
    <2>3. owner' = [owner EXCEPT ![c] = w]
      BY <1>3 DEF LockContext
    <2>4. \A v \in Workers : Applying(v) => ~(c >= for_each[v].next)
      BY <2>1 DEF Unlocked
    <2>5. ASSUME NEW d \in FontContexts, d < c + 1
          PROVE  owner'[d] = w
      <3>1. d = c \/ d < c
        BY <2>1, <2>5
      <3> QED
        BY <2>1, <2>3, <3>1 DEF GlyphTypeOK
    <2>6. \A v \in Workers : v # w => ~Locking(v)
      BY <2>1 DEF OneTaskAtATime
    <2>7. ASSUME NEW v \in Workers, v # w, Applying(v)
          PROVE  for_each[v].next \in FontContexts
                 /\ \A d \in FontContexts : d >= for_each[v].next => owner'[d] = v
      BY <2>1, <2>3, <2>4, <2>7 DEF GlyphTypeOK
    <2> QED
      BY <2>2, <2>5, <2>6, <2>7
  <1>4. ASSUME NEW w \in Workers, SignalLocked(w)
        PROVE  Locks'
    <2>1. for_each[w] \in ForEachTask /\ Locking(w) /\ for_each[w].next = NumWorkers + 1
      BY <1>4, TaskTypes DEF SignalLocked, GlyphTypeOK
    <2>2. /\ for_each'[w].does = "apply" /\ for_each'[w].next = 0
          /\ \A v \in Workers : v # w => for_each'[v] = for_each[v]
      BY <1>4, <2>1 DEF SignalLocked, GlyphTypeOK, ForEachTask, Shared
    <2>3. UNCHANGED owner
      BY <1>4 DEF SignalLocked
    <2>4. \A d \in FontContexts : owner[d] = w
      BY <2>1
    <2>5. 0 \in FontContexts
      OBVIOUS
    <2> QED
      BY <2>2, <2>3, <2>4, <2>5
  <1>5. ASSUME NEW w \in Workers, ApplyToContext(w)
        PROVE  Locks'
    <2> DEFINE c == for_each[w].next
    <2>1. for_each[w] \in ForEachTask /\ Applying(w)
      BY <1>5, TaskTypes DEF ApplyToContext, GlyphTypeOK
    <2>2. c \in FontContexts /\ \A d \in FontContexts : d >= c => owner[d] = w
      BY <2>1
    <2>3. owner' = [owner EXCEPT ![c] = Unlocked]
      BY <1>5 DEF ApplyToContext
    <2>4. /\ for_each'[w].does # "lock"
          /\ for_each'[w].does = "apply" => c # NumWorkers /\ for_each'[w].next = c + 1
          /\ \A v \in Workers : v # w => for_each'[v] = for_each[v]
      BY <1>5, <2>1, TaskTypes DEF ApplyToContext, GlyphTypeOK, ForEachTask
    <2>5. \A v \in Workers : v # w => ~Applying(v)
      BY <2>1 DEF OneTaskAtATime
    <2>6. ASSUME NEW v \in Workers, v # w, Locking(v), NEW d \in FontContexts, d < for_each[v].next
          PROVE  owner'[d] = v
      <3>1. owner[d] = v
        BY <2>6
      <3>2. d # c
        BY <2>2, <2>6, <3>1
      <3> QED
        BY <2>3, <3>1, <3>2 DEF GlyphTypeOK
    <2>7. ASSUME NEW d \in FontContexts, d >= c + 1
          PROVE  owner'[d] = w
      BY <2>2, <2>3, <2>7 DEF GlyphTypeOK
    <2>8. c # NumWorkers => c + 1 \in FontContexts
      BY <2>2
    <2>9. ASSUME NEW v \in Workers, v = w
          PROVE  /\ ~Locking(v)'
                 /\ Applying(v)' => /\ for_each'[v].next \in FontContexts
                                    /\ \A d \in FontContexts : d >= for_each'[v].next => owner'[d] = v
      BY <2>4, <2>7, <2>8, <2>9
    <2>10. ASSUME NEW v \in Workers, v # w
           PROVE  /\ ~Applying(v)' /\ for_each'[v] = for_each[v]
                  /\ \A d \in FontContexts : Locking(v) /\ d < for_each[v].next => owner'[d] = v
      BY <2>4, <2>5, <2>6, <2>10
    <2> QED
      BY <2>9, <2>10
  <1> QED
    BY <1>1, <1>2, <1>3, <1>4, <1>5, ContextSteps

-----------------------------------------------------------------------------
(* The fonts of the contexts.                                              *)

LEMMA NothingToCome ==
  ASSUME GlyphTypeOK, OneTaskAtATime, ~waiting
  PROVE  (\A n \in 1..Len(spawned) : ~Queued(n)) /\ (\A w \in Workers : ~Locking(w))
  <1>1. \A w \in Workers : ~Locking(w)
    BY DEF OneTaskAtATime
  <1>2. ASSUME NEW n \in 1..Len(spawned)
        PROVE  ~Queued(n)
    <2>1. CASE InFrame
      BY <2>1 DEF OneTaskAtATime, Queued
    <2>2. CASE ~InFrame
      <3>1. spawned = <<>>
        BY <2>2 DEF OneTaskAtATime
      <3> QED
        BY <3>1
    <2> QED
      BY <2>1, <2>2
  <1> QED
    BY <1>1, <1>2

LEMMA TaskFonts ==
  ASSUME GlyphTypeOK
  PROVE  /\ \A n \in 1..Len(spawned) : Queued(n) =>
              spawned[n] \in ForEachTask /\ spawned[n].add \subseteq Fonts
              /\ spawned[n].remove \subseteq Fonts
         /\ \A w \in Workers : for_each[w].add \subseteq Fonts /\ for_each[w].remove \subseteq Fonts
         /\ NoTask.add = {} /\ NoTask.remove = {}
  <1>1. NoTask.add = {} /\ NoTask.remove = {}
    BY DEF NoTask
  <1>2. \A t \in ForEachTask : t.add \subseteq Fonts /\ t.remove \subseteq Fonts
    BY DEF ForEachTask
  <1>3. ASSUME NEW n \in 1..Len(spawned), Queued(n)
        PROVE  spawned[n] \in ForEachTask
    <2>1. spawned[n] \in ForEachTask \cup RasterTask
      BY DEF GlyphTypeOK
    <2> QED
      BY <1>3, <2>1, TaskTypes DEF Queued
  <1>4. \A w \in Workers : for_each[w] = NoTask \/ for_each[w] \in ForEachTask
    BY DEF GlyphTypeOK
  <1> QED
    BY <1>1, <1>2, <1>3, <1>4

LEMMA FontsInit == GlyphInit => TasksKnow /\ FontsLead
  BY DEF GlyphInit, TasksKnow, FontsLead, Current, Added, Removed, Before, Locking, Applying, NoTask

(* Nothing changes for fonts.                                              *)
LEMMA FontsSame ==
  ASSUME TasksKnow, FontsLead,
         UNCHANGED <<fonts, scene, fonts_to_remove, for_each, contexts>>,
         UNCHANGED spawned \/ /\ \A n \in 1..Len(spawned) : ~Queued(n)
                              /\ \A n \in 1..Len(spawned') : ~Queued(n)'
  PROVE  TasksKnow' /\ FontsLead'
  <1>1. CASE UNCHANGED spawned
    BY <1>1 DEF TasksKnow, FontsLead, Current, Gone, Added, Removed, Before, Locking, Applying, Queued
  <1>2. CASE /\ \A n \in 1..Len(spawned) : ~Queued(n)
             /\ \A n \in 1..Len(spawned') : ~Queued(n)'
    <2>1. TasksKnow'
      BY <1>2 DEF TasksKnow, Gone, Locking
    <2>2. \A c, f : (Added(f, c)' <=> Added(f, c)) /\ (Removed(f, c)' <=> Removed(f, c))
      BY <1>2 DEF Added, Removed, Before, Locking, Applying
    <2> QED
      BY <2>1, <2>2 DEF FontsLead, Current
  <1> QED
    BY <1>1, <1>2

LEMMA AddFontFonts ==
  ASSUME GlyphTypeOK, OneTaskAtATime, TasksKnow, FontsLead, NEW f \in Fonts, AddFont(f)
  PROVE  TasksKnow' /\ FontsLead'
  <1>1. /\ fonts[f] = "new" /\ fonts' = [fonts EXCEPT ![f] = "added"] /\ ~waiting
        /\ spawned' = Append(spawned, ForEach({f}, {}))
        /\ UNCHANGED <<scene, fonts_to_remove, for_each, contexts>>
    BY DEF AddFont, AsyncForEach, poolVars
  <1>2. spawned = <<>> /\ \A w \in Workers : ~Locking(w)
    BY NothingToCome DEF AddFont, OneTaskAtATime, InFrame
  <1>3. Len(spawned') = 1 /\ spawned'[1] = ForEach({f}, {})
    BY <1>1, <1>2
  <1>4. /\ ForEach({f}, {}).does = "lock"
        /\ ForEach({f}, {}).add = {f} /\ ForEach({f}, {}).remove = {}
    BY DEF ForEach
  <1>5. fonts'[f] = "added" /\ \A g \in Fonts \ {f} : fonts'[g] = fonts[g]
    BY <1>1 DEF GlyphTypeOK
  <1>6. \A g \in Fonts : Gone(g) => Gone(g)'
    BY <1>1, <1>5 DEF Gone
  <1>7. TasksKnow'
    <2>1. \A n \in 1..Len(spawned') : n = 1
      BY <1>3
    <2>2. \A w \in Workers : for_each[w].remove \subseteq Fonts /\ \A g \in for_each[w].remove : Gone(g)
      BY TaskFonts DEF TasksKnow
    <2>3. \A w \in Workers : ~Locking(w)'
      BY <1>1, <1>2 DEF Locking
    <2> QED
      <3>1. ASSUME NEW n \in 1..Len(spawned')
            PROVE  /\ spawned'[n].remove = {}
                   /\ \A g \in spawned'[n].add : fonts'[g] = "added"
        BY <1>3, <1>4, <1>5, <2>1
      <3>2. ASSUME NEW w \in Workers
            PROVE  (\A g \in for_each'[w].remove : Gone(g)') /\ ~Locking(w)'
        BY <1>1, <1>6, <2>2, <2>3
      <3> QED
        BY <3>1, <3>2 DEF TasksKnow
  <1>8. \A w \in Workers, c \in FontContexts : Before(w, c)' <=> Before(w, c)
    BY <1>1 DEF Before, Locking, Applying
  <1>9. \A g \in Fonts, c \in FontContexts :
          (Added(g, c)' <=> Added(g, c) \/ g = f) /\ (Removed(g, c)' <=> Removed(g, c))
    <2>1. Queued(1)' /\ 1 \in 1..Len(spawned') /\ \A n \in 1..Len(spawned') : n = 1
      BY <1>3, <1>4 DEF Queued
    <2>2. \A n \in 1..Len(spawned) : FALSE
      BY <1>2
    <2>3. \A g \in Fonts, c \in FontContexts : Added(g, c)' <=> Added(g, c) \/ g = f
      BY <1>1, <1>3, <1>4, <1>8, <2>1, <2>2 DEF Added
    <2>4. \A g \in Fonts, c \in FontContexts : Removed(g, c)' <=> Removed(g, c)
      BY <1>1, <1>3, <1>4, <1>8, <2>1, <2>2 DEF Removed
    <2> QED
      BY <2>3, <2>4
  <1>10. \A c \in FontContexts : ~Removed(f, c)
    BY <1>1, <1>2 DEF Removed, TasksKnow, Gone
  <1>11. \A g \in Fonts : Current(g)' <=> Current(g) \/ g = f
    BY <1>1, <1>5 DEF Current
  <1>12. \A c \in FontContexts, g \in Fonts : Current(g)' <=> Added(g, c)' /\ ~Removed(g, c)'
    BY <1>9, <1>10, <1>11 DEF FontsLead
  <1>13. \A i \in scene' : fonts'[FontOf[i]] = "added"
    BY <1>1, <1>5, ConstantTypes DEF FontsLead, GlyphTypeOK
  <1>14. \A g \in fonts_to_remove' : fonts'[g] = "deleted"
    BY <1>1, <1>5 DEF FontsLead, GlyphTypeOK
  <1> QED
    BY <1>7, <1>12, <1>13, <1>14 DEF FontsLead

LEMMA SwapSceneFonts ==
  ASSUME GlyphTypeOK, OneTaskAtATime, TasksKnow, FontsLead,
         NEW s \in SUBSET Instances, NEW d \in SUBSET Fonts, SwapScene(s, d)
  PROVE  TasksKnow' /\ FontsLead'
  <1>1. /\ \A f \in d : fonts[f] = "added" /\ ~waiting
        /\ \A i \in s : fonts[FontOf[i]] = "added" /\ FontOf[i] \notin d
        /\ fonts' = [f \in Fonts |-> IF f \in d THEN "deleted" ELSE fonts[f]]
        /\ scene' = s /\ fonts_to_remove' = fonts_to_remove \cup d
        /\ UNCHANGED <<spawned, for_each, contexts>>
    BY DEF SwapScene, poolVars
  <1>2. (\A n \in 1..Len(spawned) : ~Queued(n)) /\ \A w \in Workers : ~Locking(w)
    BY <1>1, NothingToCome DEF SwapScene
  <1>3. \A f \in Fonts : (Current(f)' <=> Current(f)) /\ (Gone(f) => Gone(f)')
    BY <1>1 DEF Current, Gone
  <1>4. TasksKnow'
    <2>1. \A w \in Workers : for_each[w].remove \subseteq Fonts /\ \A g \in for_each[w].remove : Gone(g)
      BY TaskFonts DEF TasksKnow
    <2> QED
      BY <1>1, <1>2, <1>3, <2>1 DEF TasksKnow, Queued, Locking
  <1>5. \A c, f : (Added(f, c)' <=> Added(f, c)) /\ (Removed(f, c)' <=> Removed(f, c))
    BY <1>1 DEF Added, Removed, Queued, Before, Locking, Applying
  <1>6. \A i \in scene' : fonts'[FontOf[i]] = "added"
    BY <1>1, ConstantTypes
  <1>7. \A f \in fonts_to_remove' : fonts'[f] = "deleted"
    BY <1>1 DEF FontsLead, GlyphTypeOK
  <1> QED
    BY <1>3, <1>4, <1>5, <1>6, <1>7 DEF FontsLead

LEMMA RemoveDeadFontsFonts ==
  ASSUME GlyphTypeOK, OneTaskAtATime, TasksKnow, FontsLead, JobsInv, RemoveDeadFonts
  PROVE  TasksKnow' /\ FontsLead'
  <1>1. /\ fonts_to_remove' = {} /\ ~waiting /\ spawned = <<>>
        /\ UNCHANGED <<fonts, scene, for_each, contexts>>
    BY AllReceived DEF RemoveDeadFonts, InFrame, OneTaskAtATime, poolVars
  <1>2. \A w \in Workers : ~Locking(w)
    BY <1>1, NothingToCome
  <1>3. CASE fonts_to_remove = {} /\ UNCHANGED spawned
    BY <1>1, <1>3, FontsSame
  <1>4. CASE spawned' = Append(spawned, ForEach({}, fonts_to_remove))
    <2>1. Len(spawned') = 1 /\ spawned'[1] = ForEach({}, fonts_to_remove)
      BY <1>1, <1>4
    <2>2. /\ ForEach({}, fonts_to_remove).does = "lock"
          /\ ForEach({}, fonts_to_remove).add = {}
          /\ ForEach({}, fonts_to_remove).remove = fonts_to_remove
      BY DEF ForEach
    <2>3. (\A f : Gone(f) => Gone(f)') /\ \A f \in fonts_to_remove : Gone(f)'
      BY <1>1 DEF Gone, FontsLead
    <2>4. Queued(1)' /\ \A n \in 1..Len(spawned') : n = 1
      BY <2>1, <2>2 DEF Queued
    <2>5. TasksKnow'
      BY <1>1, <1>2, <2>1, <2>2, <2>3, <2>4 DEF TasksKnow, Locking
    <2>6. \A w \in Workers, c \in FontContexts : Before(w, c)' <=> Before(w, c)
      BY <1>1 DEF Before, Locking, Applying
    <2>7. \A f \in Fonts, c \in FontContexts :
            (Added(f, c)' <=> Added(f, c)) /\ (Removed(f, c)' <=> Removed(f, c) \/ f \in fonts_to_remove)
      BY <1>1, <2>1, <2>2, <2>4, <2>6 DEF Added, Removed
    <2>8. \A f \in Fonts : Current(f)' <=> Current(f) /\ f \notin fonts_to_remove
      BY <1>1 DEF Current, FontsLead
    <2>9. \A c \in FontContexts, f \in Fonts : Current(f)' <=> Added(f, c)' /\ ~Removed(f, c)'
      BY <2>7, <2>8 DEF FontsLead
    <2> QED
      BY <1>1, <2>5, <2>9 DEF FontsLead
  <1> QED
    BY <1>3, <1>4 DEF RemoveDeadFonts, AsyncForEach

LEMMA TakeTaskFonts ==
  ASSUME GlyphTypeOK, OneTaskAtATime, TasksKnow, FontsLead, NEW w \in Workers, TakeTask(w)
  PROVE  TasksKnow' /\ FontsLead'
  <1>1. UNCHANGED <<fonts, scene, fonts_to_remove, contexts>> /\ spawned # <<>> /\ spawned' = Tail(spawned)
    BY DEF TakeTask, backendVars
  <1>2. CASE Head(spawned).does = "raster" /\ UNCHANGED for_each
    <2>1. Len(spawned) \in Nat \ {0} /\ Len(spawned') = Len(spawned) - 1 /\ Head(spawned) = spawned[1]
          /\ \A n \in 1..Len(spawned') : n + 1 \in 1..Len(spawned) /\ spawned'[n] = spawned[n + 1]
      BY <1>1 DEF GlyphTypeOK
    <2>2. InFrame
      BY <1>1, <1>2, <2>1 DEF OneTaskAtATime, Queued
    <2>3. \A n \in 1..Len(spawned) : ~Queued(n)
      BY <2>2 DEF OneTaskAtATime, Queued
    <2>4. \A n \in 1..Len(spawned') : ~Queued(n)'
      BY <2>1, <2>3 DEF Queued
    <2> QED
      BY <1>1, <1>2, <2>3, <2>4, FontsSame
  <1>3. CASE /\ Len(spawned) = 1 /\ spawned' = <<>> /\ Queued(1)
             /\ for_each' = [for_each EXCEPT ![w] = spawned[1]]
    <2> DEFINE t == spawned[1]
    <2>1. for_each[w] = NoTask /\ (\A v \in Workers : ~Locking(v))
      BY TakesForEach
    <2>2. for_each'[w] = t /\ t.does = "lock" /\ \A v \in Workers : v # w => for_each'[v] = for_each[v]
      BY <1>3 DEF GlyphTypeOK, Queued
    <2>3. 1 \in 1..Len(spawned) /\ (\A n \in 1..Len(spawned) : n = 1) /\ Len(spawned') = 0
      BY <1>3
    <2>4. TasksKnow'
      BY <1>1, <1>3, <2>1, <2>2, <2>3 DEF TasksKnow, Gone, Locking
    <2>5. \A c \in FontContexts :
            Before(w, c)' /\ ~Before(w, c) /\ \A v \in Workers : v # w => (Before(v, c)' <=> Before(v, c))
      BY <2>1, <2>2 DEF Before, Locking, Applying, NoTask
    <2>6. ASSUME NEW f, NEW c \in FontContexts
          PROVE  (Added(f, c)' <=> Added(f, c)) /\ (Removed(f, c)' <=> Removed(f, c))
      <3>1. Added(f, c) <=> \/ f \in contexts[c] \cup t.add
                            \/ \E v \in Workers : v # w /\ Before(v, c) /\ f \in for_each[v].add
        BY <1>3, <2>3, <2>5 DEF Added
      <3>2. Added(f, c)' <=> \/ f \in contexts[c] \cup t.add
                             \/ \E v \in Workers : v # w /\ Before(v, c) /\ f \in for_each[v].add
        BY <1>1, <2>2, <2>3, <2>5 DEF Added
      <3>3. Removed(f, c) <=> \/ f \in t.remove
                              \/ \E v \in Workers : v # w /\ Before(v, c) /\ f \in for_each[v].remove
        BY <1>3, <2>3, <2>5 DEF Removed
      <3>4. Removed(f, c)' <=> \/ f \in t.remove
                               \/ \E v \in Workers : v # w /\ Before(v, c) /\ f \in for_each[v].remove
        BY <2>2, <2>3, <2>5 DEF Removed
      <3> QED
        BY <3>1, <3>2, <3>3, <3>4
    <2> QED
      BY <1>1, <2>4, <2>6 DEF FontsLead, Current
  <1> QED
    BY <1>2, <1>3, TakesForEach

(* A task that locks contexts stays to come to all of them.                *)
LEMMA LockingFonts ==
  ASSUME GlyphTypeOK, TasksKnow, FontsLead, NEW w \in Workers, LockContext(w) \/ SignalLocked(w)
  PROVE  TasksKnow' /\ FontsLead'
  <1>1. UNCHANGED <<fonts, scene, fonts_to_remove, contexts, spawned>>
    BY DEF LockContext, SignalLocked, backendVars
  <1>2. Locking(w) /\ for_each[w] \in ForEachTask
    BY TaskTypes DEF LockContext, SignalLocked, Locking, GlyphTypeOK
  <1>3. /\ for_each'[w].add = for_each[w].add /\ for_each'[w].remove = for_each[w].remove
        /\ \A v \in Workers : v # w => for_each'[v] = for_each[v]
    BY <1>2 DEF LockContext, SignalLocked, GlyphTypeOK, ForEachTask
  <1>4. Locking(w)' \/ (Applying(w)' /\ for_each'[w].next = 0)
    BY <1>2 DEF LockContext, SignalLocked, GlyphTypeOK, ForEachTask, Locking, Applying, Shared
  <1>5. \A v \in Workers, c \in FontContexts : Before(v, c)' <=> Before(v, c)
    BY <1>2, <1>3, <1>4, ConstantTypes DEF Before, Locking, Applying
  <1>6. \A f, c : c \in FontContexts =>
          (Added(f, c)' <=> Added(f, c)) /\ (Removed(f, c)' <=> Removed(f, c))
    BY <1>1, <1>3, <1>5 DEF Added, Removed, Queued
  <1>7. TasksKnow'
    BY <1>1, <1>2, <1>3 DEF TasksKnow, Gone, Queued, Locking
  <1> QED
    BY <1>1, <1>6, <1>7 DEF FontsLead, Current

(* A task changes the context that it is at, before any task after it.     *)
LEMMA ApplyFonts ==
  ASSUME GlyphTypeOK, OneTaskAtATime, Locks, TasksKnow, FontsLead,
         NEW w \in Workers, ApplyToContext(w), NEW c, c = for_each[w].next
  PROVE  TasksKnow' /\ FontsLead'
  <1> DEFINE t == for_each[w]
  <1>1. /\ UNCHANGED <<fonts, scene, fonts_to_remove, spawned>> /\ t.does = "apply"
        /\ contexts' = [contexts EXCEPT ![c] = (@ \cup t.add) \ t.remove]
        /\ for_each' = [for_each EXCEPT ![w] = IF c = NumWorkers THEN NoTask
                                               ELSE [t EXCEPT !.next = c + 1]]
    BY DEF ApplyToContext, backendVars
  <1>2. t \in ForEachTask /\ c = t.next /\ c \in FontContexts
    BY <1>1, TaskTypes, ConstantTypes DEF GlyphTypeOK, Locks, Applying
  <1>3. /\ for_each'[w].remove \in {{}, t.remove} /\ for_each'[w].does \in {"nothing", "apply"}
        /\ for_each'[w].does = "apply" => /\ for_each'[w].add = t.add /\ for_each'[w].remove = t.remove
                                          /\ for_each'[w].next = c + 1
        /\ for_each'[w].does = "nothing" <=> c = NumWorkers
        /\ \A v \in Workers : v # w => for_each'[v] = for_each[v]
    BY <1>1, <1>2 DEF GlyphTypeOK, ForEachTask, NoTask
  <1>4. TasksKnow'
    BY <1>1, <1>3 DEF TasksKnow, Gone, Queued, Locking
  <1>5. \A v \in Workers : v # w => ~Applying(v)
    BY <1>1 DEF OneTaskAtATime, Applying
  <1>6. \A d \in FontContexts : d # c => (Before(w, d)' <=> Before(w, d)) /\ contexts'[d] = contexts[d]
    BY <1>1, <1>2, <1>3, ConstantTypes DEF Before, Locking, Applying, GlyphTypeOK
  <1>7. \A v \in Workers, d \in FontContexts : v # w => (Before(v, d)' <=> Before(v, d))
    BY <1>3 DEF Before, Locking, Applying
  <1>8. Before(w, c) /\ ~Before(w, c)'
    BY <1>1, <1>2, <1>3, ConstantTypes DEF Before, Locking, Applying
  <1>9. ASSUME NEW d \in FontContexts, NEW f \in Fonts, d # c
        PROVE  (Added(f, d)' <=> Added(f, d)) /\ (Removed(f, d)' <=> Removed(f, d))
    <2>1. Before(w, d) => for_each'[w].add = t.add /\ for_each'[w].remove = t.remove
      BY <1>1, <1>2, <1>3, <1>9, ConstantTypes DEF Before, Locking, Applying
    <2> QED
      BY <1>1, <1>3, <1>6, <1>7, <1>9, <2>1 DEF Added, Removed, Queued
  <1>10. ASSUME NEW f \in Fonts
         PROVE  Added(f, c) /\ ~Removed(f, c) <=> Added(f, c)' /\ ~Removed(f, c)'
    <2> DEFINE later == \/ \E n \in 1..Len(spawned) : Queued(n) /\ f \in spawned[n].add
                        \/ \E v \in Workers : v # w /\ Before(v, c) /\ f \in for_each[v].add
               gone == \/ \E n \in 1..Len(spawned) : Queued(n) /\ f \in spawned[n].remove
                       \/ \E v \in Workers : v # w /\ Before(v, c) /\ f \in for_each[v].remove
    <2>1. Added(f, c) <=> f \in contexts[c] \cup t.add \/ later
      BY <1>8 DEF Added
    <2>2. Removed(f, c) <=> f \in t.remove \/ gone
      BY <1>8 DEF Removed
    <2>3. Added(f, c)' <=> f \in (contexts[c] \cup t.add) \ t.remove \/ later
      BY <1>1, <1>2, <1>3, <1>7, <1>8 DEF Added, Queued, GlyphTypeOK
    <2>4. Removed(f, c)' <=> gone
      BY <1>1, <1>2, <1>3, <1>7, <1>8 DEF Removed, Queued
    <2>5. later => fonts[f] = "added"
      BY <1>5 DEF TasksKnow, Before
    <2>6. f \in t.remove => fonts[f] = "deleted"
      BY DEF TasksKnow, Gone
    <2> QED
      BY <2>1, <2>2, <2>3, <2>4, <2>5, <2>6
  <1>11. \A d \in FontContexts, f \in Fonts : Current(f)' <=> Added(f, d)' /\ ~Removed(f, d)'
    BY <1>1, <1>2, <1>9, <1>10 DEF FontsLead, Current
  <1> QED
    BY <1>1, <1>4, <1>11 DEF FontsLead

LEMMA FontsNext ==
  ASSUME GlyphTypeOK, OneTaskAtATime, Locks, TasksKnow, FontsLead, JobsInv, GlyphNext
  PROVE  TasksKnow' /\ FontsLead'
  <1> USE DEF backendVars, poolVars, waitVars
  <1>1. CASE \E f \in Fonts : AddFont(f)
    BY <1>1, AddFontFonts
  <1>2. CASE \E s \in SUBSET Instances, d \in SUBSET Fonts : SwapScene(s, d)
    BY <1>2, SwapSceneFonts
  <1>3. CASE ClearCacheGlyphs \/ GlyphBeginFrame
    BY <1>3, FontsSame DEF ClearCacheGlyphs, GlyphBeginFrame
  <1>4. CASE \E i \in Instances : EvictOrphan(i) \/ \E k \in GlyphKeys : EvictGlyph(i, k)
    BY <1>4, FontsSame DEF EvictOrphan, EvictGlyph
  <1>5. ASSUME NEW i \in Instances, NEW ks \in SUBSET GlyphKeys, RequestGlyphs(i, ks)
        PROVE  TasksKnow' /\ FontsLead'
    <2>1. UNCHANGED <<stage, fonts, scene, fonts_to_remove, for_each, contexts, waiting, locked>>
          /\ InFrame
      BY <1>5 DEF RequestGlyphs, InFrame
    <2>2. (\A n \in 1..Len(spawned) : ~Queued(n)) /\ (\A n \in 1..Len(spawned') : ~Queued(n)')
      BY <1>5, <2>1, OneTaskNext DEF GlyphNext, OneTaskAtATime, InFrame, Queued
    <2> QED
      BY <2>1, <2>2, FontsSame
  <1>6. CASE FrameStep
    <2>1. CASE RemoveDeadFonts
      BY <2>1, RemoveDeadFontsFonts
    <2>2. CASE Resume \/ ClearEmptyCaches \/ BlockForGlyphs \/ ReceiveJobs \/ FetchGlyphs
      BY <2>2, FontsSame DEF Resume, ClearEmptyCaches, BlockForGlyphs, ReceiveJobs, FetchGlyphs
    <2>3. CASE \E i \in Instances : PruneOldest(i)
      BY <2>3, FontsSame DEF PruneOldest
    <2> QED
      BY <1>6, <2>1, <2>2, <2>3 DEF FrameStep
  <1>7. CASE PoolStep
    <2>1. ASSUME NEW w \in Workers, RasterizeGlyph(w)
          PROVE  TasksKnow' /\ FontsLead'
      BY <2>1, FontsSame DEF RasterizeGlyph
    <2>2. CASE SendJobs
      BY <2>2, FontsSame DEF SendJobs
    <2> QED
      BY <1>7, <2>1, <2>2, TakeTaskFonts, LockingFonts, ApplyFonts DEF PoolStep
  <1> QED
    BY <1>1, <1>2, <1>3, <1>4, <1>5, <1>6, <1>7, GlyphNext DEF GlyphNext

(* In a frame, a context that is not locked has the fonts of the scene.    *)
LEMMA FontAtHand ==
  ASSUME GlyphTypeOK, OneTaskAtATime, Locks, FontsLead, ~waiting,
         NEW c \in FontContexts, owner[c] = Unlocked, NEW i \in scene
  PROVE  FontOf[i] \in contexts[c]
  <1>1. FontOf[i] \in Fonts /\ Current(FontOf[i])
    BY ConstantTypes DEF FontsLead, GlyphTypeOK, Current
  <1>2. (\A n \in 1..Len(spawned) : ~Queued(n)) /\ \A w \in Workers : ~Locking(w)
    BY NothingToCome
  <1>3. ASSUME NEW w \in Workers
        PROVE  ~Before(w, c)
    <2>1. SUFFICES ASSUME Applying(w), for_each[w].next <= c PROVE FALSE
      BY <1>2 DEF Before
    <2>2. for_each[w].next \in FontContexts
      BY <2>1 DEF Locks
    <2>3. owner[c] = w
      BY <2>1, <2>2, ConstantTypes DEF Locks
    <2> QED
      BY <2>3, ConstantTypes DEF Unlocked
  <1>4. Added(FontOf[i], c)
    BY <1>1 DEF FontsLead
  <1> QED
    BY <1>2, <1>3, <1>4 DEF Added

-----------------------------------------------------------------------------
(* The glyphs on their way.                                                *)

LEMMA JobsInit == GlyphInit => JobsInv
  BY DEF GlyphInit, JobsInv, InFrame

LEMMA RasterTaskFields ==
  ASSUME NEW i \in Instances, NEW ks \in SUBSET GlyphKeys
  PROVE  /\ Raster(i, ks).does = "raster" /\ Raster(i, ks).font = i
         /\ Raster(i, ks).todo = ks /\ JobsRight(i, Raster(i, ks).jobs)
  BY DEF Raster, JobsRight

(* What TakeTask does with glyphs.                                         *)
LEMMA TakesRaster ==
  ASSUME GlyphTypeOK, OneTaskAtATime, NEW w \in Workers, TakeTask(w)
  PROVE  \/ /\ InFrame /\ Head(spawned) = spawned[1] /\ spawned[1].does = "raster"
            /\ spawned[1] \in RasterTask
            /\ rasters' = rasters \cup {spawned[1]}
            /\ Len(spawned) \in Nat \ {0} /\ Len(spawned') = Len(spawned) - 1
            /\ \A n \in 1..Len(spawned') : n + 1 \in 1..Len(spawned) /\ spawned'[n] = spawned[n + 1]
         \/ /\ Len(spawned) = 1 /\ Queued(1) /\ ~InFrame /\ spawned' = <<>> /\ UNCHANGED rasters
  <1>1. spawned # <<>> /\ spawned' = Tail(spawned)
    BY DEF TakeTask
  <1>2. Len(spawned) \in Nat \ {0} /\ Len(spawned') = Len(spawned) - 1 /\ Head(spawned) = spawned[1]
        /\ \A n \in 1..Len(spawned') : n + 1 \in 1..Len(spawned) /\ spawned'[n] = spawned[n + 1]
    BY <1>1 DEF GlyphTypeOK
  <1>3. spawned[1] \in ForEachTask \cup RasterTask
    BY <1>1, <1>2 DEF GlyphTypeOK
  <1>4. CASE InFrame
    <2>1. spawned[1].does = "raster"
      BY <1>2, <1>4 DEF OneTaskAtATime
    <2> QED
      BY <1>2, <1>3, <1>4, <2>1, TaskTypes DEF TakeTask
  <1>5. CASE ~InFrame
    <2>1. Len(spawned) = 1 /\ Queued(1)
      BY <1>1, <1>5 DEF OneTaskAtATime
    <2>2. spawned' = <<>>
      BY <1>1, <2>1 DEF GlyphTypeOK
    <2>3. UNCHANGED rasters
      BY <1>2, <2>1 DEF TakeTask, Queued
    <2> QED
      BY <1>5, <2>1, <2>2, <2>3
  <1> QED
    BY <1>4, <1>5

(* What RequestGlyphs spawns.                                              *)
LEMMA SpawnsRaster ==
  ASSUME GlyphTypeOK, NEW i \in Instances, NEW ks \in SUBSET GlyphKeys, RequestGlyphs(i, ks),
         NEW new, new = NewGlyphs(glyph_key_caches[i], ks)
  PROVE  /\ new \in SUBSET GlyphKeys
         /\ new = NewGlyphs(IF Has(i) THEN glyph_key_caches[i] ELSE NewGlyphKeyCache, ks)
         /\ \/ new = {} /\ UNCHANGED <<spawned, pending_glyphs>>
            \/ /\ spawned' = Append(spawned, Raster(i, new)) /\ pending_glyphs' = pending_glyphs + 1
               /\ Len(spawned) \in Nat /\ Len(spawned') = Len(spawned) + 1
               /\ spawned'[Len(spawned')] = Raster(i, new)
               /\ \A n \in 1..Len(spawned) : n \in 1..Len(spawned') /\ spawned'[n] = spawned[n]
  <1> DEFINE c == IF Has(i) THEN glyph_key_caches[i] ELSE NewGlyphKeyCache
  <1>1. c.glyphs = glyph_key_caches[i].glyphs
    BY NewCacheTypes DEF Has
  <1>2. new = NewGlyphs(c, ks) /\ new \in SUBSET GlyphKeys
    BY <1>1 DEF NewGlyphs
  <1>3. \/ new = {} /\ UNCHANGED <<spawned, pending_glyphs>>
        \/ spawned' = Append(spawned, Raster(i, new)) /\ pending_glyphs' = pending_glyphs + 1
    BY <1>2 DEF RequestGlyphs, JobsFor, GlyphTypeOK
  <1>4. Raster(i, new) \in RasterTask
    BY <1>2, TaskTypes
  <1>5. ASSUME spawned' = Append(spawned, Raster(i, new))
        PROVE  /\ Len(spawned) \in Nat /\ Len(spawned') = Len(spawned) + 1
               /\ spawned'[Len(spawned')] = Raster(i, new)
               /\ \A n \in 1..Len(spawned) : n \in 1..Len(spawned') /\ spawned'[n] = spawned[n]
    BY <1>4, <1>5 DEF GlyphTypeOK
  <1> QED
    BY <1>2, <1>3, <1>5

(* What RasterizeGlyph changes.                                            *)
LEMMA Rasterizes ==
  ASSUME GlyphTypeOK, OneTaskAtATime, Locks, FontsLead, JobsInv,
         NEW w \in Workers, RasterizeGlyph(w)
  PROVE  \E t \in rasters, u \in RasterTask, k \in GlyphKeys :
           /\ rasters' = (rasters \ {t}) \cup {u} /\ k \in t.todo
           /\ u.font = t.font /\ u.todo = t.todo \ {k} /\ JobsRight(u.font, u.jobs)
           /\ u.jobs[k] # Absent /\ \A l \in GlyphKeys : l # k => u.jobs[l] = t.jobs[l]
  <1>1. PICK t \in rasters : \E k \in t.todo :
          /\ rasters' = (rasters \ {t}) \cup
               {[t EXCEPT !.todo = @ \ {k}, !.jobs[k] = Rasterized(w, t.font, k)]}
          /\ owner[w] = Unlocked
    BY DEF RasterizeGlyph
  <1>2. PICK k \in t.todo :
          /\ rasters' = (rasters \ {t}) \cup
               {[t EXCEPT !.todo = @ \ {k}, !.jobs[k] = Rasterized(w, t.font, k)]}
          /\ owner[w] = Unlocked
    BY <1>1
  <1>3. t \in RasterTask /\ t.font \in Instances /\ k \in GlyphKeys
    BY <1>2 DEF GlyphTypeOK, RasterTask
  <1>4. t.font \in scene /\ JobsRight(t.font, t.jobs)
    BY DEF JobsInv
  <1>5. ~waiting
    BY DEF JobsInv, OneTaskAtATime, InFrame
  <1>6. FontOf[t.font] \in contexts[w]
    BY <1>2, <1>4, <1>5, FontAtHand, ConstantTypes
  <1>7. Rasterized(w, t.font, k) = Right(t.font, k)
    BY <1>3, <1>6, ConstantTypes DEF Rasterized, Right
  <1>8. Right(t.font, k) \in Entries /\ Right(t.font, k) # Absent
    BY <1>3, EntryTypes DEF Right, Blank, Cached, Absent
  <1> DEFINE u == [t EXCEPT !.todo = @ \ {k}, !.jobs[k] = Right(t.font, k)]
  <1>9. /\ u \in RasterTask /\ u.font = t.font /\ u.todo = t.todo \ {k}
        /\ u.jobs[k] = Right(t.font, k) /\ \A l \in GlyphKeys : l # k => u.jobs[l] = t.jobs[l]
    BY <1>3, <1>8 DEF RasterTask
  <1>10. JobsRight(u.font, u.jobs)
    BY <1>4, <1>9 DEF JobsRight
  <1>11. rasters' = (rasters \ {t}) \cup {u}
    BY <1>2, <1>7
  <1> HIDE DEF u
  <1> QED
    BY <1>2, <1>3, <1>8, <1>9, <1>10, <1>11

LEMMA JobsNext ==
  ASSUME GlyphTypeOK, OneTaskAtATime, Locks, FontsLead, JobsInv, GlyphNext
  PROVE  JobsInv'
  <1> USE DEF backendVars, poolVars, waitVars
  <1>a. ASSUME UNCHANGED <<stage, scene, spawned, rasters, glyph_rx, pending_glyphs>>
        PROVE  JobsInv'
    BY <1>a DEF JobsInv, InFrame
  <1>b. ~InFrame => \A n \in 1..Len(spawned) : spawned[n].does # "raster"
    BY DEF OneTaskAtATime, Queued
  <1>c. Cardinality(rasters) \in Nat /\ Len(spawned) \in Nat /\ Len(glyph_rx) \in Nat
        /\ pending_glyphs \in Nat
    BY FS_CardinalityType DEF GlyphTypeOK
  (* Outside of a frame there are no glyphs on their way.                  *)
  <1>d. ASSUME ~InFrame, InFrame' => spawned' = <<>>, UNCHANGED <<rasters, glyph_rx, pending_glyphs>>,
               \A n \in 1..Len(spawned') : spawned'[n].does # "raster"
        PROVE  JobsInv'
    <2>1. rasters' = {} /\ glyph_rx' = <<>>
      BY <1>d DEF JobsInv
    <2>2. Cardinality(rasters') = 0 /\ Len(glyph_rx') = 0
      BY <2>1, FS_EmptySet
    <2>3. InFrame' => Len(spawned') = 0
      BY <1>d
    <2>4. InFrame' => pending_glyphs' >= Len(spawned') + Cardinality(rasters') + Len(glyph_rx')
      BY <1>c, <1>d, <2>2, <2>3
    <2> QED
      BY <1>d, <2>1, <2>4 DEF JobsInv
  <1>e. ASSUME UNCHANGED spawned, ~InFrame
        PROVE  \A n \in 1..Len(spawned') : spawned'[n].does # "raster"
    BY <1>b, <1>e
  <1>f. ASSUME NEW add, NEW remove, spawned' = Append(spawned, ForEach(add, remove)), spawned = <<>>
        PROVE  \A n \in 1..Len(spawned') : spawned'[n].does # "raster"
    <2>1. Len(spawned') = 1 /\ spawned'[1] = ForEach(add, remove)
      BY <1>f
    <2> QED
      BY <2>1 DEF ForEach
  <1>1. ASSUME NEW f \in Fonts, AddFont(f)
        PROVE  JobsInv'
    <2>1. ~InFrame /\ ~InFrame' /\ ~waiting /\ UNCHANGED <<rasters, glyph_rx, pending_glyphs>>
      BY <1>1 DEF AddFont, InFrame
    <2>2. spawned = <<>>
      BY <2>1 DEF OneTaskAtATime
    <2> QED
      BY <1>1, <1>d, <1>f, <2>1, <2>2 DEF AddFont, AsyncForEach
  <1>2. ASSUME NEW s \in SUBSET Instances, NEW d \in SUBSET Fonts, SwapScene(s, d)
        PROVE  JobsInv'
    BY <1>2, <1>d, <1>e DEF SwapScene, InFrame
  <1>3. CASE ClearCacheGlyphs
    BY <1>3, <1>a DEF ClearCacheGlyphs
  <1>4. CASE GlyphBeginFrame
    BY <1>4, <1>d, <1>e DEF GlyphBeginFrame, InFrame
  <1>5. ASSUME NEW i \in Instances, EvictOrphan(i)
        PROVE  JobsInv'
    BY <1>5, <1>a DEF EvictOrphan
  <1>6. ASSUME NEW i \in Instances, NEW k \in GlyphKeys, EvictGlyph(i, k)
        PROVE  JobsInv'
    BY <1>6, <1>a DEF EvictGlyph
  <1>7. ASSUME NEW i \in Instances, NEW ks \in SUBSET GlyphKeys, RequestGlyphs(i, ks)
        PROVE  JobsInv'
    <2> DEFINE new == NewGlyphs(glyph_key_caches[i], ks)
    <2>1. /\ InFrame /\ i \in scene
          /\ UNCHANGED <<stage, scene, rasters, glyph_rx>>
      BY <1>7 DEF RequestGlyphs, InFrame
    <2>2. CASE UNCHANGED <<spawned, pending_glyphs>>
      BY <1>a, <2>1, <2>2
    <2>3. CASE /\ Len(spawned') = Len(spawned) + 1 /\ pending_glyphs' = pending_glyphs + 1
               /\ spawned'[Len(spawned')] = Raster(i, new)
               /\ \A n \in 1..Len(spawned) : n \in 1..Len(spawned') /\ spawned'[n] = spawned[n]
      <3>1. new \in SUBSET GlyphKeys
        BY <1>7, SpawnsRaster
      <3>2. Raster(i, new).font \in scene /\ JobsRight(Raster(i, new).font, Raster(i, new).jobs)
        BY <2>1, <3>1, RasterTaskFields
      <3>3. ASSUME NEW n \in 1..Len(spawned'), spawned'[n].does = "raster"
            PROVE  spawned'[n].font \in scene /\ JobsRight(spawned'[n].font, spawned'[n].jobs)
        <4>1. n = Len(spawned') \/ n \in 1..Len(spawned)
          BY <1>c, <2>3
        <4> QED
          BY <2>3, <3>2, <3>3, <4>1 DEF JobsInv
      <3>4. pending_glyphs' >= Len(spawned') + Cardinality(rasters') + Len(glyph_rx')
        <4>1. pending_glyphs >= Len(spawned) + Cardinality(rasters) + Len(glyph_rx)
          BY <2>1 DEF JobsInv
        <4> QED
          BY <1>c, <2>1, <2>3, <4>1
      <3> QED
        BY <2>1, <3>3, <3>4 DEF JobsInv, InFrame
    <2> QED
      BY <1>7, <2>2, <2>3, SpawnsRaster
  <1>8. CASE Resume
    BY <1>8, <1>a DEF Resume
  <1>9. CASE ClearEmptyCaches
    <2>1. ~InFrame /\ ~waiting /\ UNCHANGED <<spawned, rasters, glyph_rx, pending_glyphs>>
      BY <1>9 DEF ClearEmptyCaches, InFrame, OneTaskAtATime
    <2>2. spawned = <<>>
      BY <2>1 DEF OneTaskAtATime
    <2> QED
      BY <1>d, <1>e, <2>1, <2>2
  <1>10. CASE BlockForGlyphs
    BY <1>10 DEF BlockForGlyphs, JobsInv, InFrame
  <1>11. CASE ReceiveJobs
    <2>1. /\ InFrame /\ UNCHANGED <<stage, scene, spawned, rasters>> /\ glyph_rx # <<>>
          /\ glyph_rx' = Tail(glyph_rx) /\ pending_glyphs' = pending_glyphs - 1
      BY <1>11 DEF ReceiveJobs, InFrame
    <2>2. Len(glyph_rx') = Len(glyph_rx) - 1
          /\ \A n \in 1..Len(glyph_rx') : n + 1 \in 1..Len(glyph_rx) /\ glyph_rx'[n] = glyph_rx[n + 1]
      BY <2>1 DEF GlyphTypeOK
    <2>3. pending_glyphs >= Len(spawned) + Cardinality(rasters) + Len(glyph_rx)
      BY <2>1 DEF JobsInv
    <2>4. pending_glyphs' >= Len(spawned') + Cardinality(rasters') + Len(glyph_rx')
      BY <1>c, <2>1, <2>2, <2>3
    <2> QED
      BY <2>1, <2>2, <2>4 DEF JobsInv, InFrame
  <1>12. CASE RemoveDeadFonts
    <2>1. spawned = <<>> /\ rasters = {} /\ glyph_rx = <<>>
      BY <1>12, AllReceived DEF RemoveDeadFonts, InFrame
    <2>2. ~InFrame' /\ UNCHANGED <<rasters, glyph_rx>>
      BY <1>12 DEF RemoveDeadFonts, InFrame
    <2>3. \A n \in 1..Len(spawned') : spawned'[n].does # "raster"
      BY <1>12, <1>f, <2>1 DEF RemoveDeadFonts, AsyncForEach
    <2> QED
      BY <2>1, <2>2, <2>3 DEF JobsInv
  <1>13. CASE FetchGlyphs
    BY <1>13, <1>d, <1>e DEF FetchGlyphs, InFrame
  <1>14. ASSUME NEW i \in Instances, PruneOldest(i)
         PROVE  JobsInv'
    BY <1>14, <1>a DEF PruneOldest
  <1>15. ASSUME NEW w \in Workers, TakeTask(w)
         PROVE  JobsInv'
    <2>1. UNCHANGED <<stage, scene, glyph_rx, pending_glyphs>>
      BY <1>15 DEF TakeTask
    <2>2. CASE /\ Queued(1) /\ ~InFrame /\ spawned' = <<>> /\ UNCHANGED rasters
      BY <1>d, <2>1, <2>2 DEF InFrame
    <2>3. CASE /\ InFrame /\ spawned[1].does = "raster" /\ rasters' = rasters \cup {spawned[1]}
               /\ Len(spawned) \in Nat \ {0} /\ Len(spawned') = Len(spawned) - 1
               /\ \A n \in 1..Len(spawned') : n + 1 \in 1..Len(spawned) /\ spawned'[n] = spawned[n + 1]
      <3>1. Cardinality(rasters') \in Nat /\ Cardinality(rasters') <= Cardinality(rasters) + 1
        <4>1. Cardinality(rasters \cup {spawned[1]}) \in {Cardinality(rasters), Cardinality(rasters) + 1}
          BY FS_AddElement DEF GlyphTypeOK
        <4> QED
          BY <1>c, <2>3, <4>1
      <3>2. pending_glyphs' >= Len(spawned') + Cardinality(rasters') + Len(glyph_rx')
        <4>1. pending_glyphs >= Len(spawned) + Cardinality(rasters) + Len(glyph_rx)
          BY <2>3 DEF JobsInv
        <4> QED
          BY <1>c, <2>1, <2>3, <3>1, <4>1
      <3>3. spawned[1].font \in scene /\ JobsRight(spawned[1].font, spawned[1].jobs)
        BY <2>3 DEF JobsInv
      <3> QED
        BY <2>1, <2>3, <3>2, <3>3 DEF JobsInv, InFrame
    <2> QED
      BY <1>15, <2>2, <2>3, TakesRaster
  <1>16. ASSUME NEW w \in Workers, LockContext(w)
         PROVE  JobsInv'
    BY <1>16, <1>a DEF LockContext
  <1>17. ASSUME NEW w \in Workers, SignalLocked(w)
         PROVE  JobsInv'
    BY <1>17, <1>a DEF SignalLocked
  <1>18. ASSUME NEW w \in Workers, ApplyToContext(w)
         PROVE  JobsInv'
    BY <1>18, <1>a DEF ApplyToContext
  <1>19. ASSUME NEW w \in Workers, RasterizeGlyph(w)
         PROVE  JobsInv'
    <2>1. UNCHANGED <<stage, scene, spawned, glyph_rx, pending_glyphs>>
      BY <1>19 DEF RasterizeGlyph
    <2>2. PICK t \in rasters, u \in RasterTask :
            rasters' = (rasters \ {t}) \cup {u} /\ u.font = t.font /\ JobsRight(u.font, u.jobs)
      BY <1>19, Rasterizes
    <2>3. Cardinality(rasters') \in Nat /\ Cardinality(rasters') <= Cardinality(rasters)
      <3>1. IsFiniteSet(rasters \ {t}) /\ Cardinality(rasters \ {t}) = Cardinality(rasters) - 1
        BY FS_RemoveElement DEF GlyphTypeOK
      <3>2. /\ IsFiniteSet((rasters \ {t}) \cup {u})
            /\ \/ Cardinality((rasters \ {t}) \cup {u}) = Cardinality(rasters \ {t})
               \/ Cardinality((rasters \ {t}) \cup {u}) = Cardinality(rasters \ {t}) + 1
        BY <3>1, FS_AddElement
      <3> QED
        BY <1>c, <2>2, <3>1, <3>2, FS_CardinalityType
    <2>4. InFrame
      BY DEF JobsInv
    <2>5. pending_glyphs' >= Len(spawned') + Cardinality(rasters') + Len(glyph_rx')
      <3>1. pending_glyphs >= Len(spawned) + Cardinality(rasters) + Len(glyph_rx)
        BY <2>4 DEF JobsInv
      <3> QED
        BY <1>c, <2>1, <2>3, <3>1
    <2> QED
      BY <2>1, <2>2, <2>4, <2>5 DEF JobsInv, InFrame
  <1>20. CASE SendJobs
    <2>1. UNCHANGED <<stage, scene, spawned, pending_glyphs>>
      BY <1>20 DEF SendJobs
    <2>2. PICK t \in rasters :
            rasters' = rasters \ {t} /\ glyph_rx' = Append(glyph_rx, [font |-> t.font, jobs |-> t.jobs])
      BY <1>20 DEF SendJobs
    <2>3. Cardinality(rasters') = Cardinality(rasters) - 1
      BY <2>2, FS_RemoveElement DEF GlyphTypeOK
    <2>4. InFrame
      BY DEF JobsInv
    <2>5. /\ Len(glyph_rx') = Len(glyph_rx) + 1
          /\ \A n \in 1..Len(glyph_rx') :
               \/ n \in 1..Len(glyph_rx) /\ glyph_rx'[n] = glyph_rx[n]
               \/ glyph_rx'[n] = [font |-> t.font, jobs |-> t.jobs]
      <3>1. [font |-> t.font, jobs |-> t.jobs] \in Message
        BY DEF GlyphTypeOK, RasterTask, Message
      <3> QED
        BY <2>2, <3>1 DEF GlyphTypeOK
    <2>6. pending_glyphs' >= Len(spawned') + Cardinality(rasters') + Len(glyph_rx')
      <3>1. pending_glyphs >= Len(spawned) + Cardinality(rasters) + Len(glyph_rx)
        BY <2>4 DEF JobsInv
      <3> QED
        BY <1>c, <2>1, <2>3, <2>5, <3>1
    <2> QED
      BY <2>1, <2>2, <2>4, <2>5, <2>6 DEF JobsInv, InFrame
  <1> QED
    BY <1>1, <1>2, <1>3, <1>4, <1>5, <1>6, <1>7, <1>8, <1>9, <1>10, <1>11, <1>12, <1>13, <1>14,
       <1>15, <1>16, <1>17, <1>18, <1>19, <1>20, GlyphNext DEF GlyphNext, FrameStep, PoolStep

-----------------------------------------------------------------------------
(* The entries of the glyph cache.                                         *)

LEMMA EntriesInit == GlyphInit => EntriesInv
  BY NewCacheTypes DEF GlyphInit, EntriesInv, EntryOK

LEMMA EntryKinds ==
  ASSUME NEW i \in Instances, NEW k \in GlyphKeys, NEW e, EntryOK(i, k, e)
  PROVE  /\ e.live => e = Right(i, k) /\ Size[i][k] # 0 /\ [e EXCEPT !.live = FALSE] = Evicted(i, k)
         /\ e.is # "Absent" /\ ~(e.is = "Cached" /\ ~e.live) => e \in {Pending, Right(i, k)}
         /\ Pending # Absent /\ Right(i, k) # Pending /\ Right(i, k) # Absent
         /\ Evicted(i, k) # Pending
  <1>1. /\ Absent.is = "Absent" /\ ~Absent.live /\ Pending.is = "Pending" /\ ~Pending.live
        /\ Blank.is = "Blank" /\ ~Blank.live
        /\ Cached(<<i, k>>).is = "Cached" /\ Cached(<<i, k>>).live
        /\ Evicted(i, k).is = "Cached" /\ ~Evicted(i, k).live
    BY DEF Absent, Blank, Pending, Cached, Evicted
  <1>2. Right(i, k).is \in {"Blank", "Cached"} /\ (Right(i, k).live <=> Size[i][k] # 0)
    BY <1>1 DEF Right
  <1>3. Size[i][k] # 0 => [Right(i, k) EXCEPT !.live = FALSE] = Evicted(i, k)
    BY DEF Right, Evicted
  <1>4. e \in {Absent, Right(i, k), Pending, Evicted(i, k)}
    BY DEF EntryOK
  <1>5. e.live => e = Right(i, k) /\ Size[i][k] # 0 /\ [e EXCEPT !.live = FALSE] = Evicted(i, k)
    BY <1>1, <1>2, <1>3, <1>4
  <1>6. e.is # "Absent" /\ ~(e.is = "Cached" /\ ~e.live) => e \in {Pending, Right(i, k)}
    BY <1>1, <1>2, <1>4
  <1> QED
    BY <1>1, <1>2, <1>5, <1>6

LEMMA TakesStaysOnItsWay ==
  ASSUME GlyphTypeOK, OneTaskAtATime, NEW w \in Workers, TakeTask(w), NEW i, NEW k, OnItsWay(i, k)
  PROVE  OnItsWay(i, k)'
  <1>1. UNCHANGED glyph_rx
    BY DEF TakeTask
  <1>2. CASE /\ Len(spawned) = 1 /\ Queued(1) /\ UNCHANGED rasters
    <2>1. \A n \in 1..Len(spawned) : ~InTask(spawned[n], i, k)
      BY <1>2 DEF Queued, InTask
    <2> QED
      BY <1>1, <1>2, <2>1 DEF OnItsWay
  <1>3. CASE /\ rasters' = rasters \cup {spawned[1]}
             /\ Len(spawned) \in Nat \ {0} /\ Len(spawned') = Len(spawned) - 1
             /\ \A n \in 1..Len(spawned') : n + 1 \in 1..Len(spawned) /\ spawned'[n] = spawned[n + 1]
    <2>1. ASSUME NEW n \in 1..Len(spawned), InTask(spawned[n], i, k)
          PROVE  OnItsWay(i, k)'
      <3>1. CASE n = 1
        BY <1>3, <2>1, <3>1 DEF OnItsWay
      <3>2. CASE n # 1
        <4>1. n - 1 \in 1..Len(spawned') /\ spawned'[n - 1] = spawned[n]
          BY <1>3, <3>2
        <4> QED
          BY <2>1, <4>1 DEF OnItsWay
      <3> QED
        BY <3>1, <3>2
    <2> QED
      BY <1>1, <1>3, <2>1 DEF OnItsWay
  <1> QED
    BY <1>2, <1>3, TakesRaster

LEMMA RasterizesStaysOnItsWay ==
  ASSUME GlyphTypeOK, OneTaskAtATime, Locks, FontsLead, JobsInv,
         NEW w \in Workers, RasterizeGlyph(w),
         NEW i \in Instances, NEW l \in GlyphKeys, OnItsWay(i, l)
  PROVE  OnItsWay(i, l)'
  <1>1. UNCHANGED <<spawned, glyph_rx>>
    BY DEF RasterizeGlyph
  <1>2. PICK t \in rasters, u \in RasterTask, k \in GlyphKeys :
          /\ rasters' = (rasters \ {t}) \cup {u} /\ k \in t.todo
          /\ u.font = t.font /\ u.todo = t.todo \ {k}
          /\ u.jobs[k] # Absent /\ \A j \in GlyphKeys : j # k => u.jobs[j] = t.jobs[j]
    BY Rasterizes
  <1>3. InTask(t, i, l) => InTask(u, i, l)
    BY <1>2, TaskTypes DEF InTask
  <1> QED
    BY <1>1, <1>2, <1>3 DEF OnItsWay

LEMMA SendStaysOnItsWay ==
  ASSUME GlyphTypeOK, SendJobs, NEW i, NEW k, OnItsWay(i, k)
  PROVE  OnItsWay(i, k)'
  <1>1. UNCHANGED spawned
    BY DEF SendJobs
  <1>2. PICK t \in rasters :
          /\ t.todo = {} /\ rasters' = rasters \ {t}
          /\ glyph_rx' = Append(glyph_rx, [font |-> t.font, jobs |-> t.jobs])
    BY DEF SendJobs
  <1>3. [font |-> t.font, jobs |-> t.jobs] \in Message
    BY DEF GlyphTypeOK, RasterTask, Message
  <1>4. /\ Len(glyph_rx') \in 1..Len(glyph_rx')
        /\ glyph_rx'[Len(glyph_rx')].font = t.font /\ glyph_rx'[Len(glyph_rx')].jobs = t.jobs
        /\ \A n \in 1..Len(glyph_rx) : n \in 1..Len(glyph_rx') /\ glyph_rx'[n] = glyph_rx[n]
    BY <1>2, <1>3 DEF GlyphTypeOK
  <1>5. CASE InTask(t, i, k)
    BY <1>2, <1>4, <1>5 DEF OnItsWay, InTask
  <1>6. CASE ~InTask(t, i, k)
    BY <1>1, <1>2, <1>4, <1>6 DEF OnItsWay
  <1> QED
    BY <1>5, <1>6

LEMMA EntriesNext ==
  ASSUME GlyphTypeOK, OneTaskAtATime, Locks, FontsLead, JobsInv, EntriesInv, GlyphNext
  PROVE  EntriesInv'
  <1> DEFINE at(i, k) == glyph_key_caches[i].glyphs[k]
  <1> USE DEF backendVars, poolVars, waitVars
  (* Nothing happens to the entries.                                       *)
  <1>a. ASSUME \A i \in Instances, k \in GlyphKeys : at(i, k)' = at(i, k),
               \A i \in Instances, k \in GlyphKeys : at(i, k) = Pending /\ OnItsWay(i, k) => OnItsWay(i, k)',
               asked' \in {asked, {}}, stage' \in {"Idle", "Pruning"} => asked' = {}
        PROVE  EntriesInv'
    <2>1. \A i \in Instances, k \in GlyphKeys : EntryOK(i, k, at(i, k))'
      BY <1>a DEF EntriesInv, EntryOK
    <2>2. \A g \in asked' : at(g[1], g[2])' \in {Pending, Right(g[1], g[2])}
      BY <1>a DEF EntriesInv, GlyphTypeOK
    <2> QED
      BY <1>a, <2>1, <2>2 DEF EntriesInv
  <1>b. ASSUME UNCHANGED <<glyph_key_caches, asked, spawned, rasters, glyph_rx>>,
               UNCHANGED stage \/ stage' \notin {"Idle", "Pruning"}
        PROVE  EntriesInv'
    <2>1. \A i, k : OnItsWay(i, k) => OnItsWay(i, k)'
      BY <1>b DEF OnItsWay
    <2> QED
      BY <1>a, <1>b, <2>1 DEF EntriesInv
  (* Outside of a frame nothing is pending.                                *)
  <1>c. ASSUME ~InFrame, NEW i \in Instances, NEW k \in GlyphKeys
        PROVE  at(i, k) # Pending /\ ~OnItsWay(i, k)
    <2>1. rasters = {} /\ glyph_rx = <<>>
      BY <1>c DEF JobsInv
    <2>2. \A n \in 1..Len(spawned) : spawned[n].does # "raster"
      BY <1>c DEF OneTaskAtATime, Queued
    <2>3. ~OnItsWay(i, k)
      BY <2>1, <2>2 DEF OnItsWay, InTask
    <2>4. EntryOK(i, k, at(i, k))
      BY DEF EntriesInv
    <2> QED
      BY <2>3, <2>4, EntryKinds DEF EntryOK
  <1>d. ASSUME ~InFrame, asked' = {},
               \A i \in Instances, k \in GlyphKeys : at(i, k)' \in {at(i, k), Absent}
        PROVE  EntriesInv'
    <2>1. ASSUME NEW i \in Instances, NEW k \in GlyphKeys
          PROVE  EntryOK(i, k, at(i, k))'
      <3>1. EntryOK(i, k, at(i, k)) /\ at(i, k) # Pending
        BY <1>c, <1>d DEF EntriesInv
      <3> QED
        BY <1>d, <3>1 DEF EntryOK
    <2> QED
      BY <1>d, <2>1 DEF EntriesInv
  <1>e. \A i \in Instances, k \in GlyphKeys : NoCache.glyphs[k] = Absent
    BY NewCacheTypes
  <1>1. ASSUME NEW f \in Fonts, AddFont(f)
        PROVE  EntriesInv'
    BY <1>1, <1>a, <1>c DEF AddFont, InFrame, EntriesInv
  <1>2. ASSUME NEW s \in SUBSET Instances, NEW d \in SUBSET Fonts, SwapScene(s, d)
        PROVE  EntriesInv'
    <2>1. ~InFrame /\ asked' = {}
      BY <1>2 DEF SwapScene, InFrame, EntriesInv
    <2>2. \A i \in Instances, k \in GlyphKeys : at(i, k)' \in {at(i, k), Absent}
      BY <1>2, <1>e DEF SwapScene
    <2> QED
      BY <1>d, <2>1, <2>2
  <1>3. CASE ClearCacheGlyphs
    <2>1. ~InFrame /\ asked' = {}
      BY <1>3 DEF ClearCacheGlyphs, InFrame, EntriesInv
    <2>2. \A i \in Instances, k \in GlyphKeys : at(i, k)' \in {at(i, k), Absent}
      BY <1>3, <1>e DEF ClearCacheGlyphs
    <2> QED
      BY <1>d, <2>1, <2>2
  <1>4. CASE GlyphBeginFrame
    <2>1. ~InFrame /\ asked' = {}
      BY <1>4 DEF GlyphBeginFrame, InFrame, EntriesInv
    <2>2. ASSUME NEW i \in Instances, NEW k \in GlyphKeys
          PROVE  at(i, k)' \in {at(i, k), Absent}
      <3> DEFINE c == glyph_key_caches[i]
      <3>1. ClearEvicted(i, c).glyphs \in {c.glyphs, Drop(c, GlyphKeys \ Sized(i, c))}
        BY CacheOperations DEF GlyphTypeOK
      <3>2. ClearEvicted(i, c).glyphs[k] \in {c.glyphs[k], Absent}
        BY <3>1 DEF Drop
      <3>3. glyph_key_caches'[i] \in {ClearEvicted(i, c), NoCache}
        BY <1>4 DEF GlyphBeginFrame
      <3> QED
        BY <1>e, <3>2, <3>3
    <2> QED
      BY <1>d, <2>1, <2>2
  <1>5. ASSUME NEW i \in Instances, EvictOrphan(i)
        PROVE  EntriesInv'
    <2>1. glyph_key_caches'[i].glyphs = glyph_key_caches[i].glyphs
          /\ \A j \in Instances : j # i => glyph_key_caches'[j] = glyph_key_caches[j]
      BY <1>5 DEF EvictOrphan, GlyphTypeOK, CacheFields
    <2>2. UNCHANGED <<asked, stage, spawned, rasters, glyph_rx>>
      BY <1>5 DEF EvictOrphan
    <2>3. \A j, k : OnItsWay(j, k) => OnItsWay(j, k)'
      BY <2>2 DEF OnItsWay
    <2> QED
      BY <1>a, <2>1, <2>2, <2>3 DEF EntriesInv
  <1>6. ASSUME NEW i \in Instances, NEW k \in GlyphKeys, EvictGlyph(i, k)
        PROVE  EntriesInv'
    <2>1. UNCHANGED <<asked, stage, spawned, rasters, glyph_rx>> /\ at(i, k).live /\ <<i, k>> \notin asked
      BY <1>6 DEF EvictGlyph
    <2>2. /\ at(i, k)' = [at(i, k) EXCEPT !.live = FALSE]
          /\ \A j \in Instances, l \in GlyphKeys : <<j, l>> # <<i, k>> => at(j, l)' = at(j, l)
      BY <1>6 DEF EvictGlyph, GlyphTypeOK, CacheFields
    <2>3. at(i, k)' = Evicted(i, k) /\ Size[i][k] # 0
      BY <2>1, <2>2, EntryKinds DEF EntriesInv
    <2>4. \A j, l : OnItsWay(j, l) => OnItsWay(j, l)'
      BY <2>1 DEF OnItsWay
    <2>5. \A j \in Instances, l \in GlyphKeys : EntryOK(j, l, at(j, l))'
      BY <2>2, <2>3, <2>4 DEF EntriesInv, EntryOK
    <2>6. ASSUME NEW g \in asked
          PROVE  at(g[1], g[2])' = at(g[1], g[2])
      <3>1. PICK j \in Instances, l \in GlyphKeys : g = <<j, l>>
        BY DEF GlyphTypeOK
      <3> QED
        BY <2>1, <2>2, <3>1
    <2> QED
      BY <2>1, <2>5, <2>6 DEF EntriesInv
  <1>7. ASSUME NEW i \in Instances, NEW ks \in SUBSET GlyphKeys, RequestGlyphs(i, ks)
        PROVE  EntriesInv'
    <2> DEFINE new == NewGlyphs(glyph_key_caches[i], ks)
    <2>1. /\ stage = "AddResources" /\ UNCHANGED <<stage, rasters, glyph_rx>>
          /\ asked' = asked \cup {<<i, k>> : k \in ks}
      BY <1>7 DEF RequestGlyphs
    <2>2. /\ new \in SUBSET GlyphKeys
          /\ new = NewGlyphs(IF Has(i) THEN glyph_key_caches[i] ELSE NewGlyphKeyCache, ks)
          /\ \/ new = {} /\ UNCHANGED <<spawned, pending_glyphs>>
             \/ /\ Len(spawned) \in Nat /\ Len(spawned') = Len(spawned) + 1
                /\ spawned'[Len(spawned')] = Raster(i, new)
                /\ \A n \in 1..Len(spawned) : n \in 1..Len(spawned') /\ spawned'[n] = spawned[n]
      BY <1>7, SpawnsRaster
    <2>3. \A k \in new : OnItsWay(i, k)'
      <3> HIDE DEF new
      <3>1. ASSUME NEW k \in new
            PROVE  InTask(Raster(i, new), i, k)
        BY <2>2, RasterTaskFields DEF InTask
      <3>2. CASE Len(spawned) \in Nat /\ Len(spawned') = Len(spawned) + 1
                 /\ spawned'[Len(spawned')] = Raster(i, new)
        <4>1. Len(spawned') \in 1..Len(spawned')
          BY <3>2
        <4> QED
          BY <3>1, <3>2, <4>1 DEF OnItsWay
      <3> QED
        BY <2>2, <3>2
    <2>4. \A j, l : OnItsWay(j, l) => OnItsWay(j, l)'
      BY <2>1, <2>2 DEF OnItsWay
    <2>5. /\ \A k \in GlyphKeys : at(i, k)' = IF k \in new THEN Pending ELSE at(i, k)
          /\ \A j \in Instances : j # i => glyph_key_caches'[j] = glyph_key_caches[j]
      <3> DEFINE c == IF Has(i) THEN glyph_key_caches[i] ELSE NewGlyphKeyCache
      <3>1. c.glyphs = glyph_key_caches[i].glyphs /\ DOMAIN c = CacheFields
        BY NewCacheTypes DEF Has, GlyphTypeOK
      <3>2. glyph_key_caches' =
              [glyph_key_caches EXCEPT ![i] =
                [c EXCEPT !.glyphs = [k \in GlyphKeys |-> IF k \in new THEN Pending ELSE c.glyphs[k]],
                          !.last_frame_used = current_frame,
                          !.bytes_used = IF new = {} THEN @ ELSE Dirty]]
        BY <1>7, <2>2 DEF RequestGlyphs
      <3> HIDE DEF c, new
      <3> QED
        BY <3>1, <3>2 DEF GlyphTypeOK, CacheFields
    <2>6. \A j \in Instances, k \in GlyphKeys : EntryOK(j, k, at(j, k))'
      BY <2>3, <2>4, <2>5 DEF EntriesInv, EntryOK
    <2>7. ASSUME NEW g \in asked'
          PROVE  at(g[1], g[2])' \in {Pending, Right(g[1], g[2])}
      <3>1. CASE g \in asked
        <4>1. g[1] \in Instances /\ g[2] \in GlyphKeys
          BY <3>1 DEF GlyphTypeOK
        <4> QED
          BY <2>5, <3>1, <4>1 DEF EntriesInv
      <3>2. CASE g \notin asked
        <4>1. PICK k \in ks : g = <<i, k>>
          BY <2>1, <2>7, <3>2
        <4>2. CASE k \in new
          BY <2>5, <4>1, <4>2
        <4>3. CASE k \notin new
          <5>1. at(i, k).is # "Absent" /\ ~(at(i, k).is = "Cached" /\ ~at(i, k).live)
            BY <4>3 DEF NewGlyphs
          <5>2. at(i, k) \in {Pending, Right(i, k)}
            BY <5>1, EntryKinds DEF EntriesInv
          <5> QED
            BY <2>5, <4>1, <4>3, <5>2
        <4> QED
          BY <4>2, <4>3
      <3> QED
        BY <3>1, <3>2
    <2> QED
      BY <2>1, <2>6, <2>7 DEF EntriesInv
  <1>8. CASE Resume
    BY <1>8, <1>b DEF Resume
  <1>9. CASE ClearEmptyCaches
    <2>1. ~InFrame /\ asked' = {}
      BY <1>9 DEF ClearEmptyCaches, InFrame, EntriesInv
    <2>2. \A i \in Instances, k \in GlyphKeys : at(i, k)' \in {at(i, k), Absent}
      BY <1>9, <1>e DEF ClearEmptyCaches
    <2> QED
      BY <1>d, <2>1, <2>2
  <1>10. CASE BlockForGlyphs
    BY <1>10, <1>b DEF BlockForGlyphs
  <1>11. CASE ReceiveJobs
    <2>0. PICK msg : msg = glyph_rx[1]
      OBVIOUS
    <2>1. /\ UNCHANGED <<stage, asked, spawned, rasters>> /\ glyph_rx # <<>>
          /\ glyph_rx' = Tail(glyph_rx)
      BY <1>11 DEF ReceiveJobs
    <2>2. /\ Len(glyph_rx') = Len(glyph_rx) - 1 /\ Head(glyph_rx) = msg /\ 1 \in 1..Len(glyph_rx)
          /\ msg \in Message
          /\ \A n \in 1..Len(glyph_rx) : n # 1 => n - 1 \in 1..Len(glyph_rx') /\ glyph_rx'[n - 1] = glyph_rx[n]
      BY <2>0, <2>1 DEF GlyphTypeOK
    <2>3. JobsRight(msg.font, msg.jobs)
      BY <2>0, <2>2 DEF JobsInv
    <2>4. /\ \A k \in GlyphKeys : at(msg.font, k)' =
               IF msg.jobs[k] = Absent THEN at(msg.font, k) ELSE msg.jobs[k]
          /\ \A j \in Instances : j # msg.font => glyph_key_caches'[j] = glyph_key_caches[j]
      <3> DEFINE c == IF Has(msg.font) THEN glyph_key_caches[msg.font] ELSE NewGlyphKeyCache
                 got == [k \in GlyphKeys |-> IF msg.jobs[k] = Absent THEN c.glyphs[k] ELSE msg.jobs[k]]
      <3>1. msg.font \in Instances
        BY <2>2 DEF Message
      <3>2. c.glyphs = glyph_key_caches[msg.font].glyphs /\ DOMAIN c = CacheFields
        BY <3>1, NewCacheTypes DEF Has, GlyphTypeOK
      <3>3. glyph_key_caches' = [glyph_key_caches EXCEPT ![msg.font] =
              [c EXCEPT !.glyphs = got, !.last_frame_used = current_frame]]
        BY <1>11, <2>2 DEF ReceiveJobs
      <3>4. glyph_key_caches'[msg.font].glyphs = got
            /\ \A j \in Instances : j # msg.font => glyph_key_caches'[j] = glyph_key_caches[j]
        <4> HIDE DEF c, got
        <4> QED
          BY <3>1, <3>2, <3>3 DEF GlyphTypeOK, CacheFields
      <3>5. \A k \in GlyphKeys :
              got[k] = IF msg.jobs[k] = Absent THEN glyph_key_caches[msg.font].glyphs[k] ELSE msg.jobs[k]
        <4> HIDE DEF c
        <4> QED
          BY <3>2
      <3> QED
        BY <3>4, <3>5
    <2>5. ASSUME NEW j \in Instances, NEW k \in GlyphKeys, OnItsWay(j, k),
                 ~(j = msg.font /\ msg.jobs[k] # Absent)
          PROVE  OnItsWay(j, k)'
      <3>1. CASE \E n \in 1..Len(glyph_rx) : glyph_rx[n].font = j /\ glyph_rx[n].jobs[k] # Absent
        <4>1. PICK n \in 1..Len(glyph_rx) : glyph_rx[n].font = j /\ glyph_rx[n].jobs[k] # Absent
          BY <3>1
        <4>2. n # 1
          BY <2>0, <2>5, <4>1
        <4>3. n - 1 \in 1..Len(glyph_rx') /\ glyph_rx'[n - 1] = glyph_rx[n]
          BY <2>2, <4>2
        <4> QED
          BY <4>1, <4>3 DEF OnItsWay
      <3>2. CASE ~\E n \in 1..Len(glyph_rx) : glyph_rx[n].font = j /\ glyph_rx[n].jobs[k] # Absent
        BY <2>1, <2>5, <3>2 DEF OnItsWay
      <3> QED
        BY <3>1, <3>2
    <2>6. ASSUME NEW j \in Instances, NEW k \in GlyphKeys
          PROVE  /\ EntryOK(j, k, at(j, k))'
                 /\ at(j, k) \in {Pending, Right(j, k)} => at(j, k)' \in {Pending, Right(j, k)}
      <3>1. EntryOK(j, k, at(j, k))
        BY DEF EntriesInv
      <3>2. CASE j = msg.font /\ msg.jobs[k] # Absent
        <4>1. at(j, k)' = msg.jobs[k]
          BY <2>4, <3>2
        <4>2. msg.jobs[k] = Right(j, k)
          BY <2>3, <3>2 DEF JobsRight
        <4> QED
          BY <4>1, <4>2 DEF EntryOK
      <3>3. CASE ~(j = msg.font /\ msg.jobs[k] # Absent)
        <4>1. at(j, k)' = at(j, k)
          BY <2>4, <3>3
        <4>2. OnItsWay(j, k) => OnItsWay(j, k)'
          BY <2>5, <3>3
        <4> QED
          BY <3>1, <4>1, <4>2 DEF EntryOK
      <3> QED
        BY <3>2, <3>3
    <2>7. \A g \in asked : g[1] \in Instances /\ g[2] \in GlyphKeys
      BY DEF GlyphTypeOK
    <2> QED
      BY <2>1, <2>6, <2>7 DEF EntriesInv
  <1>12. CASE RemoveDeadFonts
    <2>1. spawned = <<>> /\ rasters = {} /\ glyph_rx = <<>>
      BY <1>12, AllReceived DEF RemoveDeadFonts, InFrame
    <2>2. \A i, k : ~OnItsWay(i, k)
      BY <2>1 DEF OnItsWay
    <2> QED
      BY <1>12, <1>a, <2>2 DEF RemoveDeadFonts
  <1>13. CASE FetchGlyphs
    BY <1>13, <1>a, <1>c DEF FetchGlyphs, InFrame
  <1>14. ASSUME NEW i \in Instances, PruneOldest(i)
         PROVE  EntriesInv'
    <2> DEFINE c == glyph_key_caches[i]
    <2>1. ~InFrame /\ asked' = {}
      BY <1>14 DEF PruneOldest, InFrame, EntriesInv
    <2>2. \/ glyph_key_caches' = [glyph_key_caches EXCEPT ![i] = ClearGlyphs(c)]
          \/ \E ks : glyph_key_caches' = [glyph_key_caches EXCEPT ![i] = PruneGlyphs(i, c, ks)]
      BY <1>14 DEF PruneOldest
    <2>3. ASSUME NEW k \in GlyphKeys
          PROVE  ClearGlyphs(c).glyphs[k] = Absent
                 /\ \A ks : PruneGlyphs(i, c, ks).glyphs[k] \in {c.glyphs[k], Absent}
      <3>1. DOMAIN c = CacheFields
        BY DEF GlyphTypeOK
      <3>2. ClearGlyphs(c).glyphs = [l \in GlyphKeys |-> Absent]
            /\ \A ks : PruneGlyphs(i, c, ks).glyphs = Drop(c, ks)
        BY <3>1 DEF ClearGlyphs, PruneGlyphs, CacheFields
      <3>3. \A ks : Drop(c, ks)[k] \in {c.glyphs[k], Absent}
        BY DEF Drop
      <3>4. \A ks : PruneGlyphs(i, c, ks).glyphs[k] \in {c.glyphs[k], Absent}
        BY <3>2, <3>3
      <3> QED
        BY <3>2, <3>4
    <2>4. \A j \in Instances, k \in GlyphKeys : at(j, k)' \in {at(j, k), Absent}
      BY <2>2, <2>3 DEF GlyphTypeOK
    <2> QED
      BY <1>d, <2>1, <2>4
  <1>15. ASSUME NEW w \in Workers, TakeTask(w)
         PROVE  EntriesInv'
    BY <1>15, <1>a, TakesStaysOnItsWay DEF TakeTask, EntriesInv
  <1>16. ASSUME NEW w \in Workers, LockContext(w)
         PROVE  EntriesInv'
    BY <1>16, <1>b DEF LockContext
  <1>17. ASSUME NEW w \in Workers, SignalLocked(w)
         PROVE  EntriesInv'
    BY <1>17, <1>b DEF SignalLocked
  <1>18. ASSUME NEW w \in Workers, ApplyToContext(w)
         PROVE  EntriesInv'
    BY <1>18, <1>b DEF ApplyToContext
  <1>19. ASSUME NEW w \in Workers, RasterizeGlyph(w)
         PROVE  EntriesInv'
    BY <1>19, <1>a, RasterizesStaysOnItsWay DEF RasterizeGlyph, EntriesInv
  <1>20. CASE SendJobs
    BY <1>20, <1>a, SendStaysOnItsWay DEF SendJobs, EntriesInv
  <1> QED
    BY <1>1, <1>2, <1>3, <1>4, <1>5, <1>6, <1>7, <1>8, <1>9, <1>10, <1>11, <1>12, <1>13, <1>14,
       <1>15, <1>16, <1>17, <1>18, <1>19, <1>20, GlyphNext DEF GlyphNext, FrameStep, PoolStep

-----------------------------------------------------------------------------
(* The bytes in use.                                                       *)

(* A cache knows its size, or that it does not.                            *)
Exact(i, c) == c.bytes_used = Bytes(i, c, GlyphKeys)
Stale(c) == c.eviction_notice \/ c.bytes_used = Dirty
Known(i, c) == Exact(i, c) \/ Stale(c)

(* Glyphs of the font are yet to come.                                     *)
Expected(i) ==
  \/ \E n \in 1..Len(spawned) : spawned[n].does = "raster" /\ spawned[n].font = i
  \/ \E t \in rasters : t.font = i
  \/ \E n \in 1..Len(glyph_rx) : glyph_rx[n].font = i

(* While caches are pruned, all of them know their sizes.  The total is    *)
(* never below what they sum up to, and as long as it is not below the     *)
(* maximum the caches that have been looked at hold nothing.               *)
PruningInv ==
  stage = "Pruning" =>
    /\ \A i \in Instances : Exact(i, glyph_key_caches[i])
    /\ glyph_bytes_used \in Int /\ BytesInUse <= glyph_bytes_used
    /\ glyph_bytes_used >= MaxBytesUsed => \A i \in Instances \ to_prune : Held(i) = 0

(* Each glyph that comes makes its cache larger, so that a cache is dirty  *)
(* for as long as any may come.                                            *)
UsageInv ==
  /\ \A i \in Instances : Known(i, glyph_key_caches[i])
  /\ \A i \in Instances : Expected(i) => glyph_key_caches[i].bytes_used = Dirty
  /\ PruningInv
  /\ UsageBounded

LEMMA AllocatedNat ==
  ASSUME NEW i \in Instances, NEW c
  PROVE  \A k \in GlyphKeys : AllocatedSize(i, c)[k] \in Nat
  BY GlyphAssumption DEF AllocatedSize

LEMMA BytesNat ==
  ASSUME NEW i \in Instances, NEW c, NEW ks \in SUBSET GlyphKeys
  PROVE  Bytes(i, c, ks) \in Nat
  <1>1. IsFiniteSet(ks) /\ \A k \in ks : AllocatedSize(i, c)[k] \in Nat
    BY GlyphAssumption, AllocatedNat, FS_Subset
  <1> QED
    BY <1>1, SumNat DEF Bytes

LEMMA BytesSame ==
  ASSUME NEW i, NEW c, NEW d, c.glyphs = d.glyphs, NEW ks
  PROVE  Bytes(i, c, ks) = Bytes(i, d, ks)
  <1>1. AllocatedSize(i, c) = AllocatedSize(i, d)
    BY DEF AllocatedSize
  <1> QED
    BY <1>1 DEF Bytes

LEMMA SumZero ==
  ASSUME NEW S, IsFiniteSet(S), NEW w, \A x \in S : w[x] = 0
  PROVE  SumFunctionOnSet(w, S) = 0
  <1> DEFINE B == {s \in SUBSET S : SumFunctionOnSet(w, s) # 0}
  <1> SUFFICES ASSUME B # {} PROVE FALSE
    BY DEF B
  <1>1. PICK s \in B : \A x \in s : s \ {x} \notin B
    <2>1. B \in SUBSET SUBSET S
      OBVIOUS
    <2> HIDE DEF B
    <2> QED
      BY <2>1, SmallestSet
  <1>2. IsFiniteSet(s)
    BY <1>1, FS_Subset
  <1>3. s # {}
    BY <1>1, <1>2, SumFirst
  <1>4. Chosen(s) \in s /\ SumFunctionOnSet(w, s \ {Chosen(s)}) = 0
    BY <1>1, <1>3, ChosenIn
  <1> QED
    BY <1>1, <1>2, <1>3, <1>4, SumFirst

(* Glyphs without a live entry hold nothing.                               *)
LEMMA NoBytes ==
  ASSUME NEW i, NEW c, NEW ks \in SUBSET GlyphKeys, \A k \in ks : ~c.glyphs[k].live
  PROVE  Bytes(i, c, ks) = 0
  <1>1. IsFiniteSet(ks) /\ \A k \in ks : AllocatedSize(i, c)[k] = 0
    BY GlyphAssumption, FS_Subset DEF AllocatedSize
  <1> QED
    BY <1>1, SumZero DEF Bytes

LEMMA BytesSplit ==
  ASSUME NEW i \in Instances, NEW c, NEW ks \in SUBSET GlyphKeys
  PROVE  Bytes(i, c, GlyphKeys) = Bytes(i, c, ks) + Bytes(i, c, GlyphKeys \ ks)
  BY GlyphAssumption, AllocatedNat, SumSplit DEF Bytes

LEMMA BytesSized ==
  ASSUME NEW i \in Instances, NEW c
  PROVE  Bytes(i, c, Sized(i, c)) = Bytes(i, c, GlyphKeys)
  <1>0. Sized(i, c) \in SUBSET GlyphKeys /\ GlyphKeys \ Sized(i, c) \in SUBSET GlyphKeys
    BY DEF Sized
  <1>1. PICK ks, rest : /\ ks = Sized(i, c) /\ rest = GlyphKeys \ ks
                        /\ ks \in SUBSET GlyphKeys /\ rest \in SUBSET GlyphKeys
    BY <1>0
  <1>2. \A k \in rest : ~c.glyphs[k].live
    BY <1>1 DEF Sized
  <1>3. Bytes(i, c, rest) = 0 /\ Bytes(i, c, ks) \in Nat
    BY <1>1, <1>2, NoBytes, BytesNat
  <1>4. Bytes(i, c, GlyphKeys) = Bytes(i, c, ks) + Bytes(i, c, rest)
    BY <1>1, BytesSplit
  <1> QED
    BY <1>1, <1>3, <1>4

LEMMA BytesDropped ==
  ASSUME NEW i \in Instances, NEW c, NEW d, NEW ks \in SUBSET GlyphKeys, d.glyphs = Drop(c, ks)
  PROVE  Bytes(i, d, GlyphKeys) = Bytes(i, c, GlyphKeys) - Bytes(i, c, ks)
  <1>0. GlyphKeys \ ks \in SUBSET GlyphKeys /\ IsFiniteSet(GlyphKeys \ ks)
    BY GlyphAssumption, FS_Subset
  <1>1. PICK rest : rest = GlyphKeys \ ks /\ rest \in SUBSET GlyphKeys /\ IsFiniteSet(rest)
    BY <1>0
  <1>2. Bytes(i, d, ks) = 0
    <2>1. \A k \in ks : ~d.glyphs[k].live
      BY DEF Drop, Absent
    <2> QED
      BY <2>1, NoBytes
  <1>3. Bytes(i, d, rest) = Bytes(i, c, rest)
    <2>1. \A k \in rest : AllocatedSize(i, d)[k] = AllocatedSize(i, c)[k]
      BY <1>1 DEF Drop, AllocatedSize
    <2> QED
      BY <1>1, <2>1, SumSame DEF Bytes
  <1>4. /\ Bytes(i, d, GlyphKeys) = Bytes(i, d, ks) + Bytes(i, d, rest)
        /\ Bytes(i, c, GlyphKeys) = Bytes(i, c, ks) + Bytes(i, c, rest)
    BY <1>1, BytesSplit
  <1>5. Bytes(i, c, ks) \in Nat /\ Bytes(i, c, rest) \in Nat
    BY <1>1, BytesNat
  <1> QED
    BY <1>2, <1>3, <1>4, <1>5

LEMMA ClearEvictedExact ==
  ASSUME NEW i \in Instances, NEW c, DOMAIN c = CacheFields, Known(i, c)
  PROVE  Exact(i, ClearEvicted(i, c))
  <1>1. CASE Stale(c)
    <2>1. PICK d : d = ClearEvicted(i, c)
      OBVIOUS
    <2>2. d.glyphs = Drop(c, GlyphKeys \ Sized(i, c)) /\ d.bytes_used = Bytes(i, c, Sized(i, c))
      BY <1>1, <2>1 DEF ClearEvicted, Stale, CacheFields
    <2>3. PICK ks : ks = GlyphKeys \ Sized(i, c) /\ ks \in SUBSET GlyphKeys
      OBVIOUS
    <2>4. Bytes(i, c, ks) = 0
      <3>1. \A k \in ks : ~c.glyphs[k].live
        BY <2>3 DEF Sized
      <3> QED
        BY <2>3, <3>1, NoBytes
    <2>5. Bytes(i, d, GlyphKeys) = Bytes(i, c, GlyphKeys) - Bytes(i, c, ks)
      BY <2>2, <2>3, BytesDropped
    <2>6. Bytes(i, c, GlyphKeys) \in Nat
      BY BytesNat
    <2> QED
      BY <2>1, <2>2, <2>4, <2>5, <2>6, BytesSized DEF Exact
  <1>2. CASE ~Stale(c)
    <2>1. ClearEvicted(i, c) = c
      BY <1>2 DEF ClearEvicted, Stale
    <2> QED
      BY <1>2, <2>1 DEF Known
  <1> QED
    BY <1>1, <1>2

LEMMA NoCacheExact ==
  ASSUME NEW i \in Instances
  PROVE  /\ Exact(i, NoCache) /\ Bytes(i, NoCache, GlyphKeys) = 0
         /\ Exact(i, NewGlyphKeyCache) /\ NoCache.bytes_used # Dirty
  <1>1. \A k \in GlyphKeys : ~NoCache.glyphs[k].live /\ ~NewGlyphKeyCache.glyphs[k].live
    BY NewCacheTypes DEF Absent
  <1>2. Bytes(i, NoCache, GlyphKeys) = 0 /\ Bytes(i, NewGlyphKeyCache, GlyphKeys) = 0
    BY <1>1, NoBytes
  <1>3. NoCache.bytes_used = 0 /\ NewGlyphKeyCache.bytes_used = 0
    BY DEF NoCache, NewGlyphKeyCache
  <1> QED
    BY <1>2, <1>3 DEF Exact, Dirty

LEMMA UsageInit == GlyphInit => UsageInv
  <1> SUFFICES ASSUME GlyphInit PROVE UsageInv
    OBVIOUS
  <1>1. \A i \in Instances : Known(i, glyph_key_caches[i])
    BY NoCacheExact DEF GlyphInit, Known
  <1>2. \A i \in Instances : ~Expected(i)
    BY DEF GlyphInit, Expected
  <1> QED
    BY <1>1, <1>2 DEF GlyphInit, UsageInv, PruningInv, UsageBounded

(* Outside of a frame no glyphs are yet to come, and no others than those  *)
(* that RequestGlyphs asks for ever are.                                   *)
LEMMA NoneExpected ==
  ASSUME OneTaskAtATime, JobsInv, ~InFrame, NEW i
  PROVE  ~Expected(i)
  BY DEF OneTaskAtATime, JobsInv, Queued, Expected

LEMMA ExpectedTask ==
  ASSUME GlyphTypeOK, OneTaskAtATime, NEW w \in Workers, TakeTask(w), NEW i, Expected(i)'
  PROVE  Expected(i)
  <1>1. UNCHANGED glyph_rx
    BY DEF TakeTask
  <1>2. CASE spawned' = <<>> /\ UNCHANGED rasters
    BY <1>1, <1>2 DEF Expected
  <1>3. CASE /\ spawned[1].does = "raster" /\ rasters' = rasters \cup {spawned[1]}
             /\ Len(spawned) \in Nat \ {0}
             /\ \A n \in 1..Len(spawned') : n + 1 \in 1..Len(spawned) /\ spawned'[n] = spawned[n + 1]
    <2>1. 1 \in 1..Len(spawned)
      BY <1>3
    <2> QED
      BY <1>1, <1>3, <2>1 DEF Expected
  <1> QED
    BY <1>2, <1>3, TakesRaster

LEMMA ExpectedRequest ==
  ASSUME GlyphTypeOK, NEW j \in Instances, NEW ks \in SUBSET GlyphKeys, RequestGlyphs(j, ks),
         NEW i, Expected(i)'
  PROVE  Expected(i) \/ (i = j /\ NewGlyphs(glyph_key_caches[j], ks) # {})
  <1>1. PICK new : new = NewGlyphs(glyph_key_caches[j], ks)
    OBVIOUS
  <1>2. UNCHANGED <<rasters, glyph_rx>> /\ new \in SUBSET GlyphKeys
    <2>1. UNCHANGED <<rasters, glyph_rx>>
      BY DEF RequestGlyphs, poolVars
    <2>2. new \in SUBSET GlyphKeys
      BY <1>1, SpawnsRaster
    <2> QED
      BY <2>1, <2>2
  <1>3. CASE UNCHANGED spawned
    BY <1>2, <1>3 DEF Expected
  <1>4. CASE /\ new # {} /\ Len(spawned) \in Nat /\ Len(spawned') = Len(spawned) + 1
             /\ spawned'[Len(spawned')] = Raster(j, new)
             /\ \A n \in 1..Len(spawned) : n \in 1..Len(spawned') /\ spawned'[n] = spawned[n]
    <2>1. ASSUME NEW n \in 1..Len(spawned'), spawned'[n].does = "raster", spawned'[n].font = i
          PROVE  Expected(i) \/ i = j
      <3>1. CASE n = Len(spawned')
        BY <1>2, <1>4, <2>1, <3>1, RasterTaskFields
      <3>2. CASE n # Len(spawned')
        <4>1. n \in 1..Len(spawned)
          BY <1>4, <3>2
        <4> QED
          BY <1>4, <2>1, <4>1 DEF Expected
      <3> QED
        BY <3>1, <3>2
    <2> QED
      BY <1>1, <1>2, <1>4, <2>1 DEF Expected
  <1> QED
    <2>1. \/ new = {} /\ UNCHANGED spawned
          \/ /\ Len(spawned) \in Nat /\ Len(spawned') = Len(spawned) + 1
             /\ spawned'[Len(spawned')] = Raster(j, new)
             /\ \A n \in 1..Len(spawned) : n \in 1..Len(spawned') /\ spawned'[n] = spawned[n]
      BY <1>1, SpawnsRaster
    <2>2. new = {} => UNCHANGED spawned
      <3>1. new = NewGlyphs(IF Has(j) THEN glyph_key_caches[j] ELSE NewGlyphKeyCache, ks)
        BY <1>1, SpawnsRaster
      <3> QED
        BY <3>1 DEF RequestGlyphs
    <2> QED
      BY <1>3, <1>4, <2>1, <2>2

LEMMA ExpectedSend ==
  ASSUME GlyphTypeOK, SendJobs, NEW i, Expected(i)'
  PROVE  Expected(i)
  <1>1. PICK t \in rasters :
          rasters' = rasters \ {t} /\ glyph_rx' = Append(glyph_rx, [font |-> t.font, jobs |-> t.jobs])
    BY DEF SendJobs
  <1>2. /\ UNCHANGED spawned
        /\ \A n \in 1..Len(glyph_rx') :
             \/ n \in 1..Len(glyph_rx) /\ glyph_rx'[n] = glyph_rx[n]
             \/ glyph_rx'[n] = [font |-> t.font, jobs |-> t.jobs]
    <2>1. [font |-> t.font, jobs |-> t.jobs] \in Message
      BY DEF GlyphTypeOK, RasterTask, Message
    <2> QED
      BY <1>1, <2>1 DEF GlyphTypeOK, SendJobs
  <1> QED
    BY <1>1, <1>2 DEF Expected

LEMMA ExpectedRasterize ==
  ASSUME GlyphTypeOK, OneTaskAtATime, Locks, FontsLead, JobsInv,
         NEW w \in Workers, RasterizeGlyph(w), NEW i, Expected(i)'
  PROVE  Expected(i)
  <1>1. UNCHANGED <<spawned, glyph_rx>>
    BY DEF RasterizeGlyph
  <1>2. PICK t \in rasters, u \in RasterTask : rasters' = (rasters \ {t}) \cup {u} /\ u.font = t.font
    BY Rasterizes
  <1> QED
    BY <1>1, <1>2 DEF Expected

(* The sum changes with the one cache that is changed.                     *)
LEMMA SumChanges ==
  ASSUME NEW v, NEW w, NEW i \in Instances, \A j \in Instances : v[j] \in Nat /\ w[j] \in Nat,
         \A j \in Instances : j # i => w[j] = v[j]
  PROVE  SumFunctionOnSet(w, Instances) = SumFunctionOnSet(v, Instances) - v[i] + w[i]
  <1>1. PICK R : R = Instances \ {i} /\ IsFiniteSet(R)
    BY GlyphAssumption, FS_Subset
  <1>2. /\ SumFunctionOnSet(v, Instances) = v[i] + SumFunctionOnSet(v, R)
        /\ SumFunctionOnSet(w, Instances) = w[i] + SumFunctionOnSet(w, R)
    BY <1>1, GlyphAssumption, SumTake
  <1>3. SumFunctionOnSet(v, R) = SumFunctionOnSet(w, R)
    <2>1. \A j \in R : v[j] = w[j]
      BY <1>1
    <2> QED
      BY <1>1, <2>1, SumSame
  <1>4. SumFunctionOnSet(v, R) \in Nat
    <2>1. \A j \in R : v[j] \in Nat
      BY <1>1
    <2> QED
      BY <1>1, <2>1, SumNat
  <1>5. v[i] \in Nat /\ w[i] \in Nat
    OBVIOUS
  <1> QED
    BY <1>2, <1>3, <1>4, <1>5

LEMMA HeldNat ==
  ASSUME NEW caches
  PROVE  /\ \A i \in Instances : Bytes(i, caches[i], GlyphKeys) \in Nat
         /\ SumFunctionOnSet([i \in Instances |-> Bytes(i, caches[i], GlyphKeys)], Instances) \in Nat
  <1>1. \A i \in Instances : Bytes(i, caches[i], GlyphKeys) \in Nat
    BY BytesNat
  <1> DEFINE w == [i \in Instances |-> Bytes(i, caches[i], GlyphKeys)]
  <1>2. \A i \in Instances : w[i] \in Nat
    BY <1>1
  <1> HIDE DEF w
  <1>3. SumFunctionOnSet(w, Instances) \in Nat
    BY <1>2, GlyphAssumption, SumNat
  <1> QED
    BY <1>1, <1>3 DEF w

LEMMA BytesFewer ==
  ASSUME NEW i \in Instances, NEW c, NEW d,
         \A k \in GlyphKeys : d.glyphs[k].live => c.glyphs[k].live
  PROVE  Bytes(i, d, GlyphKeys) <= Bytes(i, c, GlyphKeys)
  <1>1. \A k \in GlyphKeys : /\ AllocatedSize(i, d)[k] \in Nat /\ AllocatedSize(i, c)[k] \in Nat
                             /\ AllocatedSize(i, d)[k] <= AllocatedSize(i, c)[k]
    BY GlyphAssumption DEF AllocatedSize
  <1> QED
    BY <1>1, GlyphAssumption, SumLess DEF Bytes

(* Whoever holds no more than before uses no more.                         *)
LEMMA UsesLess ==
  ASSUME \A i \in Instances : Held(i)' <= Held(i)
  PROVE  BytesInUse' <= BytesInUse
  <1>1. \A i \in Instances : Held(i) \in Nat /\ Held(i)' \in Nat
    BY BytesNat DEF Held
  <1> DEFINE v == [i \in Instances |-> Held(i)']
             w == [i \in Instances |-> Held(i)]
  <1>2. \A i \in Instances : v[i] \in Nat /\ w[i] \in Nat /\ v[i] <= w[i]
    BY <1>1
  <1> HIDE DEF v, w
  <1>3. SumFunctionOnSet(v, Instances) <= SumFunctionOnSet(w, Instances)
    BY <1>2, GlyphAssumption, SumLess
  <1> QED
    BY <1>3 DEF v, w, BytesInUse

LEMMA UsesChanged ==
  ASSUME NEW i \in Instances, \A j \in Instances : j # i => Held(j)' = Held(j)
  PROVE  BytesInUse' = BytesInUse - Held(i) + Held(i)'
  <1>1. \A j \in Instances : Held(j) \in Nat /\ Held(j)' \in Nat
    BY BytesNat DEF Held
  <1> DEFINE v == [j \in Instances |-> Held(j)]
             w == [j \in Instances |-> Held(j)']
  <1>2. /\ \A j \in Instances : v[j] \in Nat /\ w[j] \in Nat
        /\ \A j \in Instances : j # i => w[j] = v[j]
        /\ v[i] = Held(i) /\ w[i] = Held(i)'
    BY <1>1
  <1> HIDE DEF v, w
  <1>3. SumFunctionOnSet(w, Instances) = SumFunctionOnSet(v, Instances) - v[i] + w[i]
    BY <1>2, SumChanges
  <1> QED
    BY <1>2, <1>3 DEF v, w, BytesInUse

LEMMA ClearGlyphsExact ==
  ASSUME NEW i \in Instances, NEW c, DOMAIN c = CacheFields
  PROVE  /\ Exact(i, ClearGlyphs(c)) /\ Bytes(i, ClearGlyphs(c), GlyphKeys) = 0
         /\ ClearGlyphs(c).bytes_used = 0
  <1>1. PICK d : d = ClearGlyphs(c)
    OBVIOUS
  <1>2. d.glyphs = [k \in GlyphKeys |-> Absent] /\ d.bytes_used = 0
    BY <1>1 DEF ClearGlyphs, CacheFields
  <1>3. \A k \in GlyphKeys : ~d.glyphs[k].live
    BY <1>2 DEF Absent
  <1>4. Bytes(i, d, GlyphKeys) = 0
    BY <1>3, NoBytes
  <1> QED
    BY <1>1, <1>2, <1>4 DEF Exact

(* What prune_glyphs takes out of a cache that knows its size, and that    *)
(* has more than the excess, is more than the excess.                      *)
LEMMA PruneGlyphsExact ==
  ASSUME NEW i \in Instances, NEW c, DOMAIN c = CacheFields, Exact(i, c),
         NEW excess \in Int, excess < c.bytes_used, NEW ks \in Prunable(i, c, excess)
  PROVE  /\ Exact(i, PruneGlyphs(i, c, ks))
         /\ Bytes(i, PruneGlyphs(i, c, ks), GlyphKeys) = Bytes(i, c, GlyphKeys) - Bytes(i, c, ks)
         /\ Bytes(i, c, ks) \in Nat /\ Bytes(i, c, ks) > excess
  <1>1. ks \in SUBSET GlyphKeys /\ (Bytes(i, c, ks) > excess \/ ks = Sized(i, c))
    BY DEF Prunable, Sized
  <1>2. Bytes(i, c, ks) \in Nat /\ Bytes(i, c, GlyphKeys) \in Nat
    BY <1>1, BytesNat
  <1>3. Bytes(i, c, ks) > excess
    BY <1>1, <1>2, BytesSized DEF Exact
  <1>4. PICK d : d = PruneGlyphs(i, c, ks)
    OBVIOUS
  <1>5. d.glyphs = Drop(c, ks) /\ d.bytes_used = c.bytes_used - Bytes(i, c, ks)
    BY <1>4 DEF PruneGlyphs, CacheFields
  <1>6. Bytes(i, d, GlyphKeys) = Bytes(i, c, GlyphKeys) - Bytes(i, c, ks)
    BY <1>1, <1>5, BytesDropped
  <1> QED
    BY <1>2, <1>3, <1>4, <1>5, <1>6 DEF Exact

LEMMA UsageBegins ==
  ASSUME GlyphTypeOK, OneTaskAtATime, JobsInv, UsageInv, GlyphBeginFrame
  PROVE  UsageInv'
  <1>1. PICK cs : cs = glyph_key_caches'
    OBVIOUS
  <1>2. ASSUME NEW i \in Instances
        PROVE  /\ Exact(i, cs[i])
               /\ ~Has(i) => Bytes(i, cs[i], GlyphKeys) = 0
    <2>1. Exact(i, ClearEvicted(i, glyph_key_caches[i]))
      BY ClearEvictedExact DEF UsageInv, GlyphTypeOK
    <2>2. cs[i] = IF Has(i) THEN ClearEvicted(i, glyph_key_caches[i]) ELSE NoCache
      BY <1>1 DEF GlyphBeginFrame
    <2> QED
      BY <2>1, <2>2, NoCacheExact
  <1> DEFINE v == [i \in Instances |-> cs[i].bytes_used]
             w == [i \in Instances |-> Bytes(i, cs[i], GlyphKeys)]
  <1>3. glyph_bytes_used' = SumFunctionOnSet(w, Instances)
    <2>1. glyph_bytes_used' = SumFunctionOnSet(v, Instances)
      BY <1>1 DEF GlyphBeginFrame
    <2>2. \A i \in Instances : v[i] = w[i]
      BY <1>2 DEF Exact
    <2> HIDE DEF v, w
    <2> QED
      BY <2>1, <2>2, GlyphAssumption, SumSame
  <1>4. SumFunctionOnSet(w, Instances) \in Nat
    BY HeldNat
  <1>5. BytesInUse' = SumFunctionOnSet(w, Instances)
    BY <1>1 DEF BytesInUse, Held
  <1>6. \A i \in Instances \ to_prune' : Held(i)' = 0
    BY <1>1, <1>2 DEF GlyphBeginFrame, Held
  <1>7. \A i \in Instances : Exact(i, glyph_key_caches[i])'
    BY <1>1, <1>2 DEF Exact
  <1>8. PruningInv'
    <2> HIDE DEF w
    <2> QED
      BY <1>3, <1>4, <1>5, <1>6, <1>7 DEF PruningInv
  <1>9. \A i \in Instances : ~Expected(i)'
    <2>1. \A i \in Instances : ~Expected(i)
      BY NoneExpected DEF GlyphBeginFrame, InFrame
    <2>2. UNCHANGED <<spawned, rasters, glyph_rx>>
      BY DEF GlyphBeginFrame, poolVars
    <2> QED
      BY <2>1, <2>2 DEF Expected
  <1>10. UsageBounded'
    BY DEF GlyphBeginFrame, UsageBounded
  <1> QED
    BY <1>7, <1>8, <1>9, <1>10 DEF UsageInv, Known

LEMMA UsagePrunes ==
  ASSUME GlyphTypeOK, OneTaskAtATime, JobsInv, UsageInv, NEW i \in Instances, PruneOldest(i)
  PROVE  UsageInv'
  <1>1. PICK c, excess : c = glyph_key_caches[i] /\ excess = glyph_bytes_used - MaxBytesUsed
    OBVIOUS
  <1>2. /\ stage = "Pruning" /\ stage' = "Pruning" /\ to_prune' = to_prune \ {i}
        /\ UNCHANGED <<spawned, rasters, glyph_rx>>
    BY DEF PruneOldest, poolVars
  <1>3. /\ \A j \in Instances : Exact(j, glyph_key_caches[j])
        /\ glyph_bytes_used \in Int /\ BytesInUse <= glyph_bytes_used
        /\ glyph_bytes_used >= MaxBytesUsed => \A j \in Instances \ to_prune : Held(j) = 0
    BY <1>2 DEF UsageInv, PruningInv
  <1>4. /\ DOMAIN glyph_key_caches = Instances /\ DOMAIN c = CacheFields /\ Exact(i, c)
        /\ Held(i) = Bytes(i, c, GlyphKeys) /\ Held(i) \in Nat /\ BytesInUse \in Nat
        /\ MaxBytesUsed \in Nat /\ excess \in Int /\ c.bytes_used = Held(i)
    <2>1. /\ DOMAIN glyph_key_caches = Instances /\ DOMAIN c = CacheFields
          /\ Held(i) = Bytes(i, c, GlyphKeys)
      BY <1>1 DEF GlyphTypeOK, Held
    <2>2. Held(i) \in Nat /\ BytesInUse \in Nat
      BY HeldNat DEF Held, BytesInUse
    <2> QED
      BY <1>1, <1>3, <2>1, <2>2, GlyphAssumption DEF Exact
  <1>5. ASSUME NEW d, glyph_key_caches' = [glyph_key_caches EXCEPT ![i] = d], Exact(i, d),
               Bytes(i, d, GlyphKeys) <= Held(i),
               glyph_bytes_used' \in Int,
               glyph_bytes_used' >= glyph_bytes_used - (Held(i) - Bytes(i, d, GlyphKeys)),
               glyph_bytes_used' >= MaxBytesUsed =>
                 glyph_bytes_used >= MaxBytesUsed /\ Bytes(i, d, GlyphKeys) = 0
        PROVE  UsageInv'
    <2>1. glyph_key_caches'[i] = d
          /\ \A j \in Instances : j # i => glyph_key_caches'[j] = glyph_key_caches[j]
      BY <1>4, <1>5
    <2>2. \A j \in Instances : Exact(j, glyph_key_caches[j])'
      BY <1>3, <1>5, <2>1 DEF Exact
    <2>3. Held(i)' = Bytes(i, d, GlyphKeys) /\ \A j \in Instances : j # i => Held(j)' = Held(j)
      BY <2>1 DEF Held
    <2>4. BytesInUse' = BytesInUse - Held(i) + Held(i)'
      BY <2>3, UsesChanged
    <2>5. Bytes(i, d, GlyphKeys) \in Nat
      BY BytesNat
    <2>6. BytesInUse' <= glyph_bytes_used'
      BY <1>3, <1>4, <1>5, <2>3, <2>4, <2>5
    <2>7. glyph_bytes_used' >= MaxBytesUsed => \A j \in Instances \ to_prune' : Held(j)' = 0
      BY <1>2, <1>3, <1>5, <2>3
    <2>8. PruningInv'
      BY <1>5, <2>2, <2>6, <2>7 DEF PruningInv
    <2>9. \A j \in Instances : ~Expected(j)'
      <3>1. \A j \in Instances : ~Expected(j)
        BY <1>2, NoneExpected DEF InFrame
      <3> QED
        BY <1>2, <3>1 DEF Expected
    <2> QED
      BY <1>2, <2>2, <2>8, <2>9 DEF UsageInv, Known, UsageBounded
  <1>6. CASE /\ excess >= 0 /\ excess >= c.bytes_used
             /\ glyph_key_caches' = [glyph_key_caches EXCEPT ![i] = ClearGlyphs(c)]
             /\ glyph_bytes_used' = glyph_bytes_used - ClearGlyphs(c).bytes_used
    <2>1. PICK d : d = ClearGlyphs(c)
      OBVIOUS
    <2>2. Exact(i, d) /\ Bytes(i, d, GlyphKeys) = 0 /\ d.bytes_used = 0
      BY <1>4, <2>1, ClearGlyphsExact
    <2>3. glyph_bytes_used' = glyph_bytes_used
      BY <1>3, <1>6, <2>1, <2>2
    <2>4. /\ glyph_key_caches' = [glyph_key_caches EXCEPT ![i] = d]
          /\ glyph_bytes_used >= MaxBytesUsed
      BY <1>1, <1>3, <1>4, <1>6, <2>1
    <2>5. /\ Bytes(i, d, GlyphKeys) <= Held(i) /\ glyph_bytes_used' \in Int
          /\ glyph_bytes_used' >= glyph_bytes_used - (Held(i) - Bytes(i, d, GlyphKeys))
      BY <1>3, <1>4, <2>2, <2>3
    <2> QED
      BY <1>5, <2>2, <2>4, <2>5
  <1>7. ASSUME NEW ks \in Prunable(i, c, excess), excess < c.bytes_used,
               glyph_key_caches' = [glyph_key_caches EXCEPT ![i] = PruneGlyphs(i, c, ks)],
               glyph_bytes_used' = glyph_bytes_used - Bytes(i, c, ks)
        PROVE  UsageInv'
    <2>1. PICK d, n : d = PruneGlyphs(i, c, ks) /\ n = Bytes(i, c, ks)
      OBVIOUS
    <2>2. Exact(i, d) /\ Bytes(i, d, GlyphKeys) = Held(i) - n /\ n \in Nat /\ n > excess
      BY <1>4, <1>7, <2>1, PruneGlyphsExact
    <2>3. glyph_bytes_used' = glyph_bytes_used - n
      BY <1>7, <2>1
    <2>4. ~(glyph_bytes_used' >= MaxBytesUsed) /\ glyph_bytes_used' \in Int
      BY <1>1, <1>3, <1>4, <2>2, <2>3
    <2>5. /\ Bytes(i, d, GlyphKeys) <= Held(i)
          /\ glyph_bytes_used' >= glyph_bytes_used - (Held(i) - Bytes(i, d, GlyphKeys))
      BY <1>3, <1>4, <2>2, <2>3
    <2> QED
      BY <1>5, <1>7, <2>1, <2>2, <2>4, <2>5
  <1> QED
    <2>1. \/ /\ excess >= 0 /\ excess >= c.bytes_used
             /\ glyph_key_caches' = [glyph_key_caches EXCEPT ![i] = ClearGlyphs(c)]
             /\ glyph_bytes_used' = glyph_bytes_used - ClearGlyphs(c).bytes_used
          \/ /\ excess < c.bytes_used
             /\ \E ks \in Prunable(i, c, excess) :
                  /\ glyph_key_caches' = [glyph_key_caches EXCEPT ![i] = PruneGlyphs(i, c, ks)]
                  /\ glyph_bytes_used' = glyph_bytes_used - Bytes(i, c, ks)
      BY <1>1 DEF PruneOldest
    <2> QED
      BY <1>6, <1>7, <2>1

LEMMA UsagePruned ==
  ASSUME GlyphTypeOK, OneTaskAtATime, JobsInv, UsageInv, ClearEmptyCaches
  PROVE  UsageInv'
  <1>1. /\ stage = "Pruning" /\ stage' = "AddResources"
        /\ glyph_bytes_used < MaxBytesUsed \/ to_prune = {}
        /\ UNCHANGED <<spawned, rasters, glyph_rx>>
    BY DEF ClearEmptyCaches, poolVars
  <1>2. /\ \A j \in Instances : Exact(j, glyph_key_caches[j])
        /\ glyph_bytes_used \in Int /\ BytesInUse <= glyph_bytes_used
        /\ glyph_bytes_used >= MaxBytesUsed => \A j \in Instances \ to_prune : Held(j) = 0
    BY <1>1 DEF UsageInv, PruningInv
  <1>3. ASSUME NEW i \in Instances
        PROVE  Known(i, glyph_key_caches[i])' /\ Held(i)' <= Held(i)
    <2>1. Held(i) \in Nat
      BY HeldNat DEF Held
    <2>2. CASE glyph_key_caches'[i] = NoCache
      BY <2>1, <2>2, NoCacheExact DEF Known, Exact, Held
    <2>3. CASE glyph_key_caches'[i] = glyph_key_caches[i]
      BY <1>2, <2>1, <2>3 DEF Known, Exact, Held
    <2> QED
      BY <2>2, <2>3 DEF ClearEmptyCaches
  <1>4. BytesInUse' <= BytesInUse
    BY <1>3, UsesLess
  <1>5. BytesInUse < MaxBytesUsed
    <2>1. CASE glyph_bytes_used < MaxBytesUsed
      <3>1. BytesInUse \in Nat /\ MaxBytesUsed \in Nat
        BY HeldNat, GlyphAssumption DEF BytesInUse, Held
      <3> QED
        BY <1>2, <2>1, <3>1
    <2>2. CASE to_prune = {} /\ glyph_bytes_used >= MaxBytesUsed
      <3> DEFINE w == [i \in Instances |-> Held(i)]
      <3>1. \A i \in Instances : w[i] = 0
        BY <1>2, <2>2
      <3> HIDE DEF w
      <3>2. SumFunctionOnSet(w, Instances) = 0
        BY <3>1, GlyphAssumption, SumZero
      <3>3. MaxBytesUsed \in Nat /\ MaxBytesUsed # 0
        BY GlyphAssumption
      <3> QED
        BY <3>2, <3>3 DEF w, BytesInUse
    <2>3. MaxBytesUsed \in Nat
      BY GlyphAssumption
    <2> QED
      BY <1>1, <1>2, <2>1, <2>2, <2>3
  <1>6. UsageBounded'
    <2>1. PICK cs : cs = glyph_key_caches'
      OBVIOUS
    <2>2. BytesInUse' \in Nat /\ BytesInUse \in Nat /\ MaxBytesUsed \in Nat
      <3>1. BytesInUse' = SumFunctionOnSet([i \in Instances |-> Bytes(i, cs[i], GlyphKeys)], Instances)
        BY <2>1 DEF BytesInUse, Held
      <3>2. BytesInUse' \in Nat
        BY <3>1, HeldNat
      <3>3. BytesInUse \in Nat
        BY HeldNat DEF BytesInUse, Held
      <3> QED
        BY <3>2, <3>3, GlyphAssumption
    <2> QED
      BY <1>4, <1>5, <2>2 DEF UsageBounded
  <1>7. \A j \in Instances : ~Expected(j)'
    <2>1. \A j \in Instances : ~Expected(j)
      BY <1>1, NoneExpected DEF InFrame
    <2> QED
      BY <1>1, <2>1 DEF Expected
  <1> QED
    BY <1>1, <1>3, <1>6, <1>7 DEF UsageInv, PruningInv

LEMMA UsageRequests ==
  ASSUME GlyphTypeOK, UsageInv, NEW i \in Instances, NEW ks \in SUBSET GlyphKeys,
         RequestGlyphs(i, ks)
  PROVE  UsageInv'
  <1>1. PICK c, new : /\ c = (IF Has(i) THEN glyph_key_caches[i] ELSE NewGlyphKeyCache)
                      /\ new = NewGlyphs(c, ks)
    OBVIOUS
  <1>2. PICK d : d = [c EXCEPT !.glyphs = [k \in GlyphKeys |-> IF k \in new THEN Pending ELSE c.glyphs[k]],
                               !.last_frame_used = current_frame,
                               !.bytes_used = IF new = {} THEN @ ELSE Dirty]
    OBVIOUS
  <1>3. /\ glyph_key_caches' = [glyph_key_caches EXCEPT ![i] = d]
        /\ stage = "AddResources" /\ stage' = "AddResources"
        /\ ks # {} /\ asked' = asked \cup {<<i, k>> : k \in ks}
    BY <1>1, <1>2 DEF RequestGlyphs
  <1>4. /\ glyph_key_caches'[i] = d
        /\ \A j \in Instances : j # i => glyph_key_caches'[j] = glyph_key_caches[j]
    BY <1>3 DEF GlyphTypeOK
  <1>5. /\ DOMAIN c = CacheFields /\ c.glyphs \in [GlyphKeys -> Entries] /\ Known(i, c)
        /\ c.glyphs = glyph_key_caches[i].glyphs
    <2>1. CASE Has(i)
      BY <1>1, <2>1 DEF GlyphTypeOK, UsageInv
    <2>2. CASE ~Has(i)
      BY <1>1, <2>2, NewCacheTypes, EntryTypes, NoCacheExact DEF Known, Has
    <2> QED
      BY <2>1, <2>2
  <1>6. /\ d.bytes_used = IF new = {} THEN c.bytes_used ELSE Dirty
        /\ d.eviction_notice = c.eviction_notice
        /\ d.glyphs = [k \in GlyphKeys |-> IF k \in new THEN Pending ELSE c.glyphs[k]]
    BY <1>2, <1>5 DEF CacheFields
  <1>7. Known(i, d)
    <2>1. CASE new = {}
      <3>1. d.glyphs = c.glyphs
        BY <1>5, <1>6, <2>1
      <3>2. Bytes(i, d, GlyphKeys) = Bytes(i, c, GlyphKeys)
        BY <3>1, BytesSame
      <3> QED
        BY <1>5, <1>6, <2>1, <3>2 DEF Known, Exact, Stale
    <2>2. CASE new # {}
      BY <1>6, <2>2 DEF Known, Stale
    <2> QED
      BY <2>1, <2>2
  <1>8. \A j \in Instances : Known(j, glyph_key_caches[j])'
    <2>1. \A j \in Instances : Known(j, glyph_key_caches'[j])
      BY <1>4, <1>7 DEF UsageInv
    <2> QED
      BY <2>1 DEF Known, Exact, Stale
  <1>9. ASSUME NEW j \in Instances, Expected(j)'
        PROVE  glyph_key_caches'[j].bytes_used = Dirty
    <2>1. Expected(j) \/ (j = i /\ NewGlyphs(glyph_key_caches[i], ks) # {})
      BY <1>9, ExpectedRequest
    <2>2. new = NewGlyphs(glyph_key_caches[i], ks)
      BY <1>1, <1>5 DEF NewGlyphs
    <2>3. CASE Expected(j) /\ j = i
      <3>1. glyph_key_caches[i].bytes_used = Dirty
        BY <2>3 DEF UsageInv
      <3>2. Has(i)
        BY <3>1, NoCacheExact DEF Has
      <3> QED
        BY <1>1, <1>4, <1>6, <2>3, <3>1, <3>2
    <2>4. CASE Expected(j) /\ j # i
      BY <1>4, <2>4 DEF UsageInv
    <2>5. CASE j = i /\ new # {}
      BY <1>4, <1>6, <2>5
    <2> QED
      BY <2>1, <2>2, <2>3, <2>4, <2>5
  <1>10. UsageBounded' /\ PruningInv'
    BY <1>3 DEF UsageBounded, PruningInv
  <1> QED
    BY <1>8, <1>9, <1>10 DEF UsageInv

LEMMA UsageReceives ==
  ASSUME GlyphTypeOK, UsageInv, ReceiveJobs
  PROVE  UsageInv'
  <1>1. PICK msg : msg = glyph_rx[1]
    OBVIOUS
  <1>2. PICK c : c = IF Has(msg.font) THEN glyph_key_caches[msg.font] ELSE NewGlyphKeyCache
    OBVIOUS
  <1>3. /\ stage = "QueryResources" /\ stage' = "QueryResources" /\ UNCHANGED <<spawned, rasters>>
        /\ glyph_rx # <<>> /\ glyph_rx' = Tail(glyph_rx)
    BY DEF ReceiveJobs, poolVars
  <1>4. /\ Len(glyph_rx') = Len(glyph_rx) - 1 /\ 1 \in 1..Len(glyph_rx) /\ msg \in Message
        /\ Head(glyph_rx) = msg
        /\ \A n \in 1..Len(glyph_rx') : n + 1 \in 1..Len(glyph_rx) /\ glyph_rx'[n] = glyph_rx[n + 1]
    BY <1>1, <1>3 DEF GlyphTypeOK
  <1>5. msg.font \in Instances /\ glyph_key_caches[msg.font].bytes_used = Dirty
    <2>1. msg.font \in Instances
      BY <1>4 DEF Message
    <2>2. Expected(msg.font)
      BY <1>1, <1>4 DEF Expected
    <2> QED
      BY <2>1, <2>2 DEF UsageInv
  <1>6. c = glyph_key_caches[msg.font] /\ DOMAIN c = CacheFields /\ c.bytes_used = Dirty
    BY <1>2, <1>5, NoCacheExact DEF Has, GlyphTypeOK
  <1>7. PICK d : d = [c EXCEPT !.glyphs = [k \in GlyphKeys |->
                                 IF msg.jobs[k] = Absent THEN c.glyphs[k] ELSE msg.jobs[k]],
                               !.last_frame_used = current_frame]
    OBVIOUS
  <1>8. d.bytes_used = Dirty
    BY <1>6, <1>7 DEF CacheFields
  <1>9. glyph_key_caches' = [glyph_key_caches EXCEPT ![msg.font] = d]
    BY <1>2, <1>4, <1>7 DEF ReceiveJobs
  <1>10. /\ glyph_key_caches'[msg.font] = d
         /\ \A j \in Instances : j # msg.font => glyph_key_caches'[j] = glyph_key_caches[j]
    BY <1>5, <1>9 DEF GlyphTypeOK
  <1>11. \A j \in Instances : Known(j, glyph_key_caches[j])'
    <2>1. Known(msg.font, d)
      BY <1>8 DEF Known, Stale
    <2>2. \A j \in Instances : Known(j, glyph_key_caches'[j])
      BY <1>10, <2>1 DEF UsageInv
    <2> QED
      BY <2>2 DEF Known, Exact, Stale
  <1>12. ASSUME NEW j \in Instances, Expected(j)'
         PROVE  glyph_key_caches'[j].bytes_used = Dirty
    <2>1. Expected(j)
      BY <1>3, <1>4, <1>12 DEF Expected
    <2>2. glyph_key_caches[j].bytes_used = Dirty
      BY <2>1 DEF UsageInv
    <2> QED
      BY <1>8, <1>10, <2>2
  <1>13. UsageBounded' /\ PruningInv'
    BY <1>3 DEF UsageBounded, PruningInv
  <1> QED
    BY <1>11, <1>12, <1>13 DEF UsageInv

(* The texture cache takes entries away.                                   *)
LEMMA UsageEvicts ==
  ASSUME GlyphTypeOK, UsageInv, NEW i \in Instances, NEW d,
         glyph_key_caches' = [glyph_key_caches EXCEPT ![i] = d], Stale(d),
         d.bytes_used = glyph_key_caches[i].bytes_used,
         \A k \in GlyphKeys : d.glyphs[k].live => glyph_key_caches[i].glyphs[k].live,
         UNCHANGED <<stage, asked, spawned, rasters, glyph_rx>>, stage # "Pruning"
  PROVE  UsageInv'
  <1>1. /\ glyph_key_caches'[i] = d
        /\ \A j \in Instances : j # i => glyph_key_caches'[j] = glyph_key_caches[j]
    BY DEF GlyphTypeOK
  <1>2. \A j \in Instances : Known(j, glyph_key_caches[j])'
    <2>1. \A j \in Instances : Known(j, glyph_key_caches'[j])
      BY <1>1 DEF UsageInv, Known
    <2> QED
      BY <2>1 DEF Known, Exact, Stale
  <1>3. ASSUME NEW j \in Instances
        PROVE  Held(j)' <= Held(j)
    <2>1. CASE j = i
      <3>1. Bytes(i, d, GlyphKeys) <= Bytes(i, glyph_key_caches[i], GlyphKeys)
        BY BytesFewer
      <3> QED
        BY <1>1, <2>1, <3>1 DEF Held
    <2>2. CASE j # i
      <3>1. Held(j) \in Nat /\ Held(j)' = Held(j)
        BY <1>1, <2>2, HeldNat DEF Held
      <3> QED
        BY <3>1
    <2> QED
      BY <2>1, <2>2
  <1>4. BytesInUse' <= BytesInUse
    BY <1>3, UsesLess
  <1>5. UsageBounded'
    <2>1. PICK cs : cs = glyph_key_caches'
      OBVIOUS
    <2>2. BytesInUse' = SumFunctionOnSet([j \in Instances |-> Bytes(j, cs[j], GlyphKeys)], Instances)
      BY <2>1 DEF BytesInUse, Held
    <2>3. BytesInUse' \in Nat /\ BytesInUse \in Nat /\ MaxBytesUsed \in Nat
      BY <2>2, HeldNat, GlyphAssumption DEF BytesInUse, Held
    <2> QED
      BY <1>4, <2>3 DEF UsageBounded, UsageInv
  <1>6. \A j \in Instances : Expected(j)' => glyph_key_caches'[j].bytes_used = Dirty
    BY <1>1 DEF Expected, UsageInv
  <1> QED
    BY <1>2, <1>5, <1>6 DEF UsageInv, PruningInv

LEMMA UsageNext ==
  ASSUME GlyphTypeOK, OneTaskAtATime, Locks, FontsLead, JobsInv, UsageInv, GlyphNext
  PROVE  UsageInv'
  <1> USE DEF backendVars, poolVars, waitVars
  (* Nothing happens to the caches.                                        *)
  <1>a. ASSUME UNCHANGED <<glyph_key_caches, glyph_bytes_used, to_prune>>,
               \A i \in Instances : Expected(i)' => Expected(i),
               \/ UNCHANGED <<stage, asked>>
               \/ stage' \notin {"Pruning", "AddResources"}
        PROVE  UsageInv'
    <2>1. \A i \in Instances : Known(i, glyph_key_caches[i])'
      BY <1>a DEF UsageInv, Known, Exact, Stale
    <2>2. \A i \in Instances : Expected(i)' => glyph_key_caches'[i].bytes_used = Dirty
      BY <1>a DEF UsageInv
    <2>3. UNCHANGED BytesInUse /\ \A i : UNCHANGED Held(i)
      BY <1>a DEF BytesInUse, Held
    <2>4. \A i \in Instances : Exact(i, glyph_key_caches[i]) => Exact(i, glyph_key_caches[i])'
      BY <1>a DEF Exact
    <2>5. PruningInv' /\ UsageBounded'
      BY <1>a, <2>3, <2>4 DEF UsageInv, PruningInv, UsageBounded
    <2> QED
      BY <2>1, <2>2, <2>5 DEF UsageInv
  <1>b. ASSUME UNCHANGED <<spawned, rasters, glyph_rx>>, NEW i
        PROVE  Expected(i)' => Expected(i)
    BY <1>b DEF Expected
  <1>c. ASSUME ~InFrame, UNCHANGED <<rasters, glyph_rx>>, NEW add, NEW remove,
               \/ spawned = <<>> /\ spawned' = Append(spawned, ForEach(add, remove))
               \/ UNCHANGED spawned,
               NEW i
        PROVE  ~Expected(i)'
    <2>1. ~Expected(i)
      BY <1>c, NoneExpected
    <2>2. CASE UNCHANGED spawned
      BY <1>c, <2>1, <2>2 DEF Expected
    <2>3. CASE spawned = <<>> /\ spawned' = Append(spawned, ForEach(add, remove))
      <3>1. Len(spawned') = 1 /\ spawned'[1].does # "raster"
        BY <2>3 DEF ForEach
      <3> QED
        BY <1>c, <2>1, <3>1 DEF Expected
    <2> QED
      BY <1>c, <2>2, <2>3
  (* Caches are removed while the render backend is idle.                  *)
  <1>d. ASSUME stage = "Idle", stage' = "Idle", UNCHANGED <<spawned, rasters, glyph_rx>>,
               \A i \in Instances : glyph_key_caches'[i] \in {glyph_key_caches[i], NoCache}
        PROVE  UsageInv'
    <2>1. \A i \in Instances : Known(i, glyph_key_caches[i])'
      <3>1. \A i \in Instances : Known(i, glyph_key_caches'[i])
        BY <1>d, NoCacheExact DEF UsageInv, Known
      <3> QED
        BY <3>1 DEF Known, Exact, Stale
    <2>2. \A i \in Instances : ~Expected(i)'
      BY <1>c, <1>d DEF InFrame
    <2> QED
      BY <1>d, <2>1, <2>2 DEF UsageInv, PruningInv, UsageBounded
  <1>1. ASSUME NEW f \in Fonts, AddFont(f)
        PROVE  UsageInv'
    <2>1. ~InFrame /\ ~waiting /\ UNCHANGED <<rasters, glyph_rx>>
      BY <1>1 DEF AddFont, InFrame
    <2>2. spawned = <<>> /\ spawned' = Append(spawned, ForEach({f}, {}))
      BY <1>1, <2>1 DEF AddFont, AsyncForEach, OneTaskAtATime
    <2>3. \A i \in Instances : ~Expected(i)'
      BY <1>c, <2>1, <2>2
    <2> QED
      BY <1>1, <1>a, <2>3 DEF AddFont
  <1>2. ASSUME NEW s \in SUBSET Instances, NEW d \in SUBSET Fonts, SwapScene(s, d)
        PROVE  UsageInv'
    BY <1>2, <1>d DEF SwapScene
  <1>3. CASE ClearCacheGlyphs
    BY <1>3, <1>d DEF ClearCacheGlyphs
  <1>4. CASE GlyphBeginFrame
    BY <1>4, UsageBegins
  <1>5. ASSUME NEW i \in Instances, EvictOrphan(i)
        PROVE  UsageInv'
    <2>1. PICK more : glyph_key_caches' =
            [glyph_key_caches EXCEPT ![i].orphans = more, ![i].eviction_notice = TRUE]
      BY <1>5 DEF EvictOrphan
    <2>2. PICK c, d : /\ c = glyph_key_caches[i] /\ DOMAIN c = CacheFields
                      /\ d = [c EXCEPT !.orphans = more, !.eviction_notice = TRUE]
      BY DEF GlyphTypeOK
    <2>3. d.glyphs = c.glyphs /\ d.bytes_used = c.bytes_used /\ Stale(d)
      BY <2>2 DEF CacheFields, Stale
    <2>4. glyph_key_caches' = [glyph_key_caches EXCEPT ![i] = d]
      BY <2>1, <2>2 DEF GlyphTypeOK
    <2>5. UNCHANGED <<stage, asked, spawned, rasters, glyph_rx>> /\ stage # "Pruning"
      BY <1>5 DEF EvictOrphan
    <2> QED
      <3>1. /\ d.bytes_used = glyph_key_caches[i].bytes_used
            /\ \A k \in GlyphKeys : d.glyphs[k].live => glyph_key_caches[i].glyphs[k].live
        BY <2>2, <2>3
      <3> QED
        BY <2>3, <2>4, <2>5, <3>1, UsageEvicts
  <1>6. ASSUME NEW i \in Instances, NEW k \in GlyphKeys, EvictGlyph(i, k)
        PROVE  UsageInv'
    <2>1. glyph_key_caches' =
            [glyph_key_caches EXCEPT ![i].glyphs[k].live = FALSE, ![i].eviction_notice = TRUE]
      BY <1>6 DEF EvictGlyph
    <2>2. PICK c, d : /\ c = glyph_key_caches[i] /\ DOMAIN c = CacheFields
                      /\ c.glyphs \in [GlyphKeys -> Entries]
                      /\ d = [c EXCEPT !.glyphs[k].live = FALSE, !.eviction_notice = TRUE]
      BY DEF GlyphTypeOK
    <2>3. /\ d.glyphs = [c.glyphs EXCEPT ![k].live = FALSE]
          /\ d.bytes_used = c.bytes_used /\ Stale(d)
      BY <2>2 DEF CacheFields, Stale
    <2>4. glyph_key_caches' = [glyph_key_caches EXCEPT ![i] = d]
      BY <2>1, <2>2 DEF GlyphTypeOK
    <2>5. UNCHANGED <<stage, asked, spawned, rasters, glyph_rx>> /\ stage # "Pruning"
      BY <1>6 DEF EvictGlyph
    <2>6. \A l \in GlyphKeys : d.glyphs[l].live => c.glyphs[l].live
      <3>1. c.glyphs[k] \in Entries
        BY <2>2
      <3>2. [c.glyphs[k] EXCEPT !.live = FALSE].live = FALSE
        BY <3>1 DEF Entries
      <3> QED
        BY <2>2, <2>3, <3>2
    <2> QED
      BY <2>2, <2>3, <2>4, <2>5, <2>6, UsageEvicts
  <1>7. ASSUME NEW i \in Instances, NEW ks \in SUBSET GlyphKeys, RequestGlyphs(i, ks)
        PROVE  UsageInv'
    BY <1>7, UsageRequests
  <1>8. CASE Resume
    BY <1>8, <1>a, <1>b DEF Resume
  <1>9. CASE ClearEmptyCaches
    BY <1>9, UsagePruned
  <1>10. CASE BlockForGlyphs
    BY <1>10, <1>a, <1>b DEF BlockForGlyphs
  <1>11. CASE ReceiveJobs
    BY <1>11, UsageReceives
  <1>12. CASE RemoveDeadFonts
    <2>1. spawned = <<>> /\ rasters = {} /\ glyph_rx = <<>>
      BY <1>12, AllReceived DEF RemoveDeadFonts, InFrame
    <2>2. UNCHANGED <<rasters, glyph_rx>> /\ stage' = "Resolved"
      BY <1>12 DEF RemoveDeadFonts
    <2>3. UNCHANGED spawned \/ spawned' = Append(spawned, ForEach({}, fonts_to_remove))
      BY <1>12 DEF RemoveDeadFonts, AsyncForEach
    <2>4. \A n \in 1..Len(spawned') : spawned'[n].does # "raster"
      <3>1. CASE UNCHANGED spawned
        BY <2>1, <3>1
      <3>2. CASE spawned' = Append(spawned, ForEach({}, fonts_to_remove))
        BY <2>1, <3>2 DEF ForEach
      <3> QED
        BY <2>3, <3>1, <3>2
    <2>5. \A i \in Instances : ~Expected(i)'
      BY <2>1, <2>2, <2>4 DEF Expected
    <2> QED
      BY <1>12, <1>a, <2>2, <2>5 DEF RemoveDeadFonts
  <1>13. CASE FetchGlyphs
    BY <1>13, <1>a, <1>b DEF FetchGlyphs
  <1>14. ASSUME NEW i \in Instances, PruneOldest(i)
         PROVE  UsageInv'
    BY <1>14, UsagePrunes
  <1>15. ASSUME NEW w \in Workers, TakeTask(w)
         PROVE  UsageInv'
    BY <1>15, <1>a, ExpectedTask DEF TakeTask
  <1>16. ASSUME NEW w \in Workers, LockContext(w)
         PROVE  UsageInv'
    BY <1>16, <1>a, <1>b DEF LockContext
  <1>17. ASSUME NEW w \in Workers, SignalLocked(w)
         PROVE  UsageInv'
    BY <1>17, <1>a, <1>b DEF SignalLocked
  <1>18. ASSUME NEW w \in Workers, ApplyToContext(w)
         PROVE  UsageInv'
    BY <1>18, <1>a, <1>b DEF ApplyToContext
  <1>19. ASSUME NEW w \in Workers, RasterizeGlyph(w)
         PROVE  UsageInv'
    BY <1>19, <1>a, ExpectedRasterize DEF RasterizeGlyph
  <1>20. CASE SendJobs
    BY <1>20, <1>a, ExpectedSend DEF SendJobs
  <1> QED
    BY <1>1, <1>2, <1>3, <1>4, <1>5, <1>6, <1>7, <1>8, <1>9, <1>10, <1>11, <1>12, <1>13, <1>14,
       <1>15, <1>16, <1>17, <1>18, <1>19, <1>20, GlyphNext DEF GlyphNext, FrameStep, PoolStep

-----------------------------------------------------------------------------
(* The theorems.                                                           *)

LEMMA Invariant == GlyphSpec => []IInv
  <1>1. GlyphInit => IInv
    BY TypeInit, OneTaskInit, FontsInit, JobsInit, EntriesInit DEF IInv
  <1>2. ASSUME IInv, [GlyphNext]_glyphVars
        PROVE  IInv'
    <2>1. CASE GlyphNext
      BY <1>2, <2>1, TypeNext, OneTaskNext, LocksNext, FontsNext, JobsNext, EntriesNext DEF IInv
    <2>2. CASE UNCHANGED glyphVars
      <3>1. UNCHANGED <<backendVars, glyph_rx, spawned, poolVars, waitVars>>
        BY <2>2 DEF glyphVars
      <3>2. GlyphTypeOK' /\ OneTaskAtATime' /\ Locks'
        BY <1>2, <3>1 DEF backendVars, poolVars, waitVars, IInv, GlyphTypeOK, OneTaskAtATime, Locks,
                          InFrame, Queued, Locking, Applying
      <3>3. TasksKnow' /\ FontsLead'
        BY <1>2, <3>1, FontsSame DEF backendVars, poolVars, IInv
      <3>4. JobsInv' /\ EntriesInv'
        BY <1>2, <3>1 DEF backendVars, poolVars, IInv, JobsInv, EntriesInv, EntryOK, OnItsWay, InFrame
      <3> QED
        BY <3>2, <3>3, <3>4 DEF IInv
    <2> QED
      BY <1>2, <2>1, <2>2
  <1> QED
    BY <1>1, <1>2, PTL DEF GlyphSpec

(* Every glyph that a frame has asked for is drawn as it should be: when   *)
(* the render backend has received as many messages as it has asked for,   *)
(* none is pending, whatever went on in the pool and in the texture cache. *)
THEOREM Drawn == GlyphSpec => []GlyphsDrawn
  <1>1. ASSUME IInv
        PROVE  GlyphsDrawn
    <2>1. SUFFICES ASSUME stage = "Resolved", NEW g \in asked
                   PROVE  glyph_key_caches[g[1]].glyphs[g[2]] =
                            IF Size[g[1]][g[2]] = 0 THEN Blank ELSE Cached(g)
      BY DEF GlyphsDrawn
    <2>2. PICK i \in Instances, k \in GlyphKeys : g = <<i, k>>
      BY <1>1 DEF IInv, GlyphTypeOK
    <2>3. rasters = {} /\ glyph_rx = <<>>
      BY <1>1, <2>1 DEF IInv, JobsInv, InFrame
    <2>4. \A n \in 1..Len(spawned) : spawned[n].does # "raster"
      BY <1>1, <2>1 DEF IInv, OneTaskAtATime, Queued, InFrame
    <2>5. ~OnItsWay(i, k)
      BY <2>3, <2>4 DEF OnItsWay, InTask
    <2>6. EntryOK(i, k, glyph_key_caches[i].glyphs[k])
          /\ glyph_key_caches[i].glyphs[k] \in {Pending, Right(i, k)}
      BY <1>1, <2>2 DEF IInv, EntriesInv
    <2>7. glyph_key_caches[i].glyphs[k] # Pending
      BY <2>5, <2>6, EntryKinds DEF EntryOK
    <2> QED
      BY <2>2, <2>6, <2>7 DEF Right
  <1> QED
    BY <1>1, Invariant, PTL

(* The fonts of the scene are in the shared context when the render        *)
(* backend asserts it, and all contexts have the fonts of the templates    *)
(* when the tasks are done.                                                *)
THEOREM FontsAgree == GlyphSpec => []GlyphFonts
  <1>1. ASSUME IInv
        PROVE  FontsAtHand
    <2>1. Shared \in FontContexts
      BY ConstantTypes DEF Shared
    <2> QED
      BY <1>1, <2>1, FontAtHand DEF IInv, FontsAtHand
  <1>2. ASSUME IInv
        PROVE  ContextsAgree
    <2>1. SUFFICES ASSUME spawned = <<>>, \A w \in Workers : Idle(w), NEW c \in FontContexts
                   PROVE  contexts[c] = {f \in Fonts : fonts[f] = "added"} \cup fonts_to_remove
      BY DEF ContextsAgree
    <2>2. \A w \in Workers : ~Before(w, c)
      BY <2>1 DEF Idle, NoTask, Before, Locking, Applying
    <2>3. \A f \in Fonts : Current(f) <=> f \in contexts[c]
      BY <1>2, <2>1, <2>2 DEF IInv, FontsLead, Added, Removed
    <2> QED
      BY <1>2, <2>3 DEF IInv, GlyphTypeOK, Current
  <1> QED
    <2>1. ASSUME IInv PROVE GlyphFonts
      BY <1>1, <1>2, <2>1 DEF GlyphFonts
    <2> QED
      BY <2>1, Invariant, PTL

(* A frame begins with fewer bytes in the glyph cache than the maximum:    *)
(* what clear_evicted and prune_glyphs believe of the sizes of the caches  *)
(* is right when they act on it, whatever came and went since they were    *)
(* last counted.                                                           *)
THEOREM Usage == GlyphSpec => []UsageBounded
  <1>1. GlyphInit => UsageInv
    BY UsageInit
  <1>2. ASSUME IInv, UsageInv, [GlyphNext]_glyphVars
        PROVE  UsageInv'
    <2>1. CASE GlyphNext
      BY <1>2, <2>1, UsageNext DEF IInv
    <2>2. CASE UNCHANGED glyphVars
      <3>1. UNCHANGED <<backendVars, glyph_rx, spawned, poolVars, waitVars>>
        BY <2>2 DEF glyphVars
      <3>2. \A i : UNCHANGED Held(i)
        BY <3>1 DEF backendVars, Held
      <3>3. UNCHANGED BytesInUse
        BY <3>1 DEF backendVars, BytesInUse, Held
      <3>4. PruningInv' /\ UsageBounded'
        BY <1>2, <3>1, <3>2, <3>3 DEF backendVars, UsageInv, PruningInv, UsageBounded, Exact
      <3> QED
        BY <1>2, <3>1, <3>4 DEF backendVars, poolVars, UsageInv, Known, Exact, Stale, Expected
    <2> QED
      BY <1>2, <2>1, <2>2
  <1>3. UsageInv => UsageBounded
    BY DEF UsageInv
  <1> QED
    BY <1>1, <1>2, <1>3, Invariant, PTL DEF GlyphSpec

-----------------------------------------------------------------------------
(* Images.  The argument is about each pixel: a pixel that is not dirty in *)
(* an entry has the current content there, and a pixel of a blob image     *)
(* that the queue covers has it in the last item over it, and one that it  *)
(* does not cover has it in the texture.                                   *)

(* The transactions on their way lead, one after the other, from the       *)
(* template to what the client has made of the image; what they rasterize  *)
(* covers what they change, and the first and the last are as they should. *)
ContentBefore(i) == IF i = 1 THEN image_template ELSE transactions[i - 1].content

Latest == IF transactions = <<>> THEN image_template ELSE transactions[Len(transactions)].content

LeadsOn(i) ==
  LET t == transactions[i]
  IN /\ t.op = "add" => i = 1 /\ t.request = Pixels
     /\ t.op = "update" =>
          /\ t.dirty \subseteq t.request /\ ContentBefore(i) \in Contents
          /\ \A p \in Pixels \ t.dirty : t.content[p] = ContentBefore(i)[p]
     /\ t.op = "delete" => deleted /\ i = Len(transactions)

TransactionsLead ==
  /\ \A i \in DOMAIN transactions : LeadsOn(i)
  /\ Len(transactions) <= MaxInFlight
  /\ kind = "none" => transactions = <<>> /\ ~deleted
  /\ kind # "none" /\ ~deleted => Latest = sent

(* Entries are of an image that has arrived, and so is the rasterizer.     *)
EntriesOK ==
  /\ \A r \in Renderings : IF Present(r) THEN image_template # Nothing
                                         ELSE cached_images[r] = NoEntry
  /\ \A i \in DOMAIN transactions : transactions[i].op = "add" => image_template = Nothing
  /\ kind = "none" => image_template = Nothing
  /\ kind = "blob" /\ image_template # Nothing => rasterizer = image_template

(* What the queue holds, in the order in which it came.                    *)
QueueOK ==
  /\ queue # {} => rasterized /\ kind = "blob"
  /\ IsFiniteSet(queue)
  /\ \A i \in queue : i.n < arrived
  /\ \A i, j \in queue : i.n = j.n => i = j

(* What has been requested of a frame, and what is missing for it.         *)
RequestsOK ==
  /\ state = "Idle" => pending_image_requests = {}
  /\ missing_blob_images => state = "AddResources" /\ kind = "blob" /\ image_template # Nothing
  /\ state = "AddResources" /\ kind = "blob" /\ pending_image_requests # {} /\ queue = {} =>
       missing_blob_images
  /\ state = "QueryResources" /\ kind = "blob" /\ failures = 0 /\ pending_image_requests # {} =>
       rasterized
  /\ state \in {"AddResources", "QueryResources"} =>
       /\ pending_image_requests \subseteq requested
       /\ \A r \in requested : Present(r)
  /\ state = "Panic" => failures # 0

(* A blob image that has one entry at most, with nothing torn or failed.   *)
Sound ==
  kind = "blob" =>
    ~torn /\ failures = 0 /\ \A r, s \in Renderings : Present(r) /\ Present(s) => r = s

(* A part is rasterized only when the entry of AutoRendering has the rest. *)
WholeIfUnallocated ==
  kind = "blob" /\ ~torn /\ NeedsUpload(AutoRendering) =>
    Partial = {} /\ \A i \in queue : i.rect = Pixels

Over(p) == {i \in queue : p \in i.rect}

QueueIsCurrent ==
  \A p \in Pixels, i \in queue :
    p \in i.rect /\ (\A j \in Over(p) : j.n <= i.n) =>
      image_template # Nothing /\ i.content[p] = image_template[p]

EntryIsCurrent(r) ==
  Present(r) /\ ~NeedsUpload(r) =>
    \A p \in Pixels :
      /\ p \notin cached_images[r].dirty_rect => cached_images[r].handle[p] = image_template[p]
      /\ kind = "blob" /\ Over(p) = {} => cached_images[r].handle[p] = image_template[p]

FrameIsCurrent ==
  /\ state \in {"AddResources", "QueryResources"} =>
       \A r \in requested \ pending_image_requests :
         ~NeedsUpload(r) /\ cached_images[r].dirty_rect = {}
  /\ state = "QueryResources" /\ kind = "blob" /\ pending_image_requests # {} => queue # {}

DrawInv ==
  /\ WholeIfUnallocated
  /\ Sound => QueueIsCurrent /\ FrameIsCurrent /\ \A r \in Renderings : EntryIsCurrent(r)

BookInv == TransactionsLead /\ EntriesOK /\ QueueOK /\ RequestsOK

ImageInv == TypeOK /\ BookInv /\ DrawInv

-----------------------------------------------------------------------------
(* Numbers: what lies below a bound has a largest element.                 *)
LEMMA Largest ==
  ASSUME NEW T \in SUBSET Nat, T # {}, NEW bound \in Nat, \A y \in T : y <= bound
  PROVE  \E x \in T : \A y \in T : y <= x
  <1> DEFINE U == {bound - y : y \in T}
  <1>1. \A y \in T : y \in Nat /\ bound - y \in Nat
    OBVIOUS
  <1>2. U \in SUBSET Nat /\ U # {}
    BY <1>1
  <1>3. PICK u \in U : \A v \in U : u <= v
    BY <1>2, Smallest
  <1>4. PICK x \in T : u = bound - x
    BY <1>3
  <1>5. ASSUME NEW y \in T PROVE y <= x
    <2>1. bound - y \in U
      OBVIOUS
    <2>2. bound - x <= bound - y
      BY <1>3, <1>4, <2>1
    <2> QED
      BY <1>1, <2>2
  <1> QED
    BY <1>5

(* Pixels, rects and contents.                                             *)
LEMMA Sizes ==
  /\ QueueLimit \in Nat /\ QueueLimit > 0
  /\ Width \in Nat /\ MaxUpdates \in Nat /\ MaxClears \in Nat /\ MaxFailures \in Nat
  /\ MaxInFlight \in Nat /\ IsFiniteSet(Renderings) /\ AutoRendering \in Renderings
  <1>1. \A n \in {Width, MaxUpdates, MaxClears, MaxFailures, MaxInFlight} : n \in Nat
    BY ImageAssumption
  <1>2. QueueLimit \in Nat \ {0} /\ IsFiniteSet(Renderings) /\ AutoRendering \in Renderings
    BY ImageAssumption
  <1> QED
    BY <1>1, <1>2

LEMMA RectFacts ==
  /\ {} \in Rects /\ Pixels \in Rects
  /\ \A r \in Rects : r \subseteq Pixels
  BY Sizes DEF Rects, Pixels

LEMMA HullIsRect ==
  ASSUME NEW r \in Rects, NEW s \in Rects
  PROVE  Hull(r, s) \in Rects /\ r \subseteq Hull(r, s) /\ s \subseteq Hull(r, s)
  <1>1. Pixels \subseteq Int /\ Hull(r, s) \subseteq Pixels
    BY Sizes DEF Pixels, Hull
  <1>2. ASSUME NEW a \in Hull(r, s), NEW b \in Hull(r, s), NEW p \in a..b PROVE p \in Hull(r, s)
    <2>1. PICK c \in r \cup s : c <= a
      BY <1>2 DEF Hull
    <2>2. PICK d \in r \cup s : b <= d
      BY <1>2 DEF Hull
    <2>3. /\ c \in 1..Width /\ d \in 1..Width /\ a \in 1..Width /\ b \in 1..Width /\ p \in Int
          /\ a <= p /\ p <= b
      BY <1>1, <1>2, RectFacts, <2>1, <2>2 DEF Pixels
    <2>4. c <= p /\ p <= d /\ p \in Pixels
      BY <2>1, <2>2, <2>3, Sizes DEF Pixels
    <2> QED
      BY <2>4 DEF Hull
  <1>3. \A p \in r \cup s : p \in Pixels /\ p <= p
    BY <1>1, RectFacts
  <1> QED
    BY <1>1, <1>2, <1>3 DEF Rects, Hull

LEMMA NotNothing ==
  ASSUME NEW S, NEW f \in [Pixels -> S]
  PROVE  f # Nothing <=> Pixels # {}
  BY DEF Nothing

LEMMA NotUnallocated ==
  ASSUME NEW S, NEW f \in [Pixels -> S]
  PROVE  f # Unallocated <=> Pixels # {}
  BY DEF Unallocated

-----------------------------------------------------------------------------
(* The queue.                                                              *)
LEMMA QueueTypes ==
  ASSUME TypeOK, NEW i \in queue
  PROVE  i \in RasterizedBlobImage /\ i.rect \in Rects /\ i.rect \subseteq Pixels
         /\ i.content \in Contents /\ i.n \in Nat
  BY RectFacts DEF TypeOK, RasterizedBlobImage

LEMMA FirstItem ==
  ASSUME TypeOK, queue # {}
  PROVE  \E i \in queue : \A j \in queue : i.n <= j.n
  <1> DEFINE T == {i.n : i \in queue}
  <1>1. T \in SUBSET Nat /\ T # {}
    BY QueueTypes
  <1>2. PICK x \in T : \A y \in T : x <= y
    BY <1>1, Smallest
  <1> QED
    BY <1>2

LEMMA LastItem ==
  ASSUME TypeOK, QueueOK, NEW Q \in SUBSET queue, Q # {}
  PROVE  \E i \in Q : \A j \in Q : j.n <= i.n
  <1> DEFINE T == {i.n : i \in Q}
  <1>1. T \in SUBSET Nat /\ T # {} /\ arrived \in Nat
    BY QueueTypes DEF TypeOK
  <1>2. \A y \in T : y <= arrived
    BY <1>1, QueueTypes DEF QueueOK
  <1>3. PICK x \in T : \A y \in T : y <= x
    BY <1>1, <1>2, Largest
  <1> QED
    BY <1>3

(* What add_rasterized_blob_images leaves: the items that the new one does *)
(* not cover, and after them the new one.                                  *)
LEMMA ImageAdded ==
  ASSUME TypeOK, QueueOK, NEW rect \in Rects, NEW content \in Contents,
         AddRasterized(rect, content)
  PROVE  \E i \in RasterizedBlobImage :
           /\ i.rect = rect /\ i.content = content
           /\ queue' = Kept(rect) \cup {i} /\ rasterized' = TRUE /\ arrived' = i.n + 1
           /\ \A j \in Kept(rect) : j.n < i.n
  <1> DEFINE n == IF Kept(rect) = {} THEN 0 ELSE arrived
             i == [rect |-> rect, content |-> content, n |-> n]
  <1>1. n \in Nat /\ \A j \in Kept(rect) : j.n < n
    BY DEF TypeOK, QueueOK, Kept
  <1>2. i \in RasterizedBlobImage
    BY <1>1 DEF RasterizedBlobImage
  <1>3. queue' = Kept(rect) \cup {i} /\ rasterized' = TRUE /\ arrived' = n + 1
    BY DEF AddRasterized
  <1> QED
    BY <1>1, <1>2, <1>3

LEMMA KeptFacts ==
  ASSUME TypeOK, QueueOK, NEW rect \in Rects
  PROVE  /\ Kept(rect) \subseteq queue /\ IsFiniteSet(Kept(rect))
         /\ Cardinality(Kept(rect)) <= Cardinality(queue)
         /\ rect = Pixels => Kept(rect) = {}
  <1>1. Kept(rect) \subseteq queue
    BY DEF Kept
  <1>2. rect = Pixels => Kept(rect) = {}
    BY QueueTypes DEF Kept
  <1> QED
    BY <1>1, <1>2, FS_Subset DEF QueueOK

-----------------------------------------------------------------------------
(* Uploads.                                                                *)
LEMMA UploadedType ==
  ASSUME NEW texture \in Texture \cup {Unallocated}, NEW rect \in Rects, NEW content \in Contents
  PROVE  Uploaded(texture, rect, content) \in Texture
  <1>1. \A p \in Pixels : content[p] \in Nat
    BY DEF Contents
  <1>2. texture # Unallocated => \A p \in Pixels : texture[p] \in Nat \cup {Garbage}
    BY DEF Texture
  <1> QED
    BY <1>1, <1>2 DEF Uploaded, Texture

(* What the queue leaves of a texture that is allocated, or if nothing of  *)
(* the queue is left out.                                                  *)
LEMMA DrainedType ==
  ASSUME TypeOK, QueueOK, NEW texture \in Texture \cup {Unallocated}
  PROVE  Drained(texture) \in Texture
  <1> DEFINE first == CHOOSE i \in queue : \A j \in queue : i.n <= j.n
             drawn == IF texture = Unallocated /\ first.rect # Pixels THEN queue \ {first} ELSE queue
             Ov(p) == {i \in drawn : p \in i.rect}
             last(p) == CHOOSE i \in Ov(p) : \A j \in Ov(p) : j.n <= i.n
             value(p) == IF Ov(p) # {} THEN last(p).content[p]
                         ELSE IF texture = Unallocated THEN Garbage ELSE texture[p]
  <1>1. drawn \subseteq queue
    OBVIOUS
  <1>2. ASSUME NEW p \in Pixels PROVE value(p) \in Nat \cup {Garbage}
    <2>1. CASE Ov(p) # {}
      <3>1. Ov(p) \in SUBSET queue
        BY <1>1
      <3>2. \E i \in Ov(p) : \A j \in Ov(p) : j.n <= i.n
        BY <2>1, <3>1, LastItem
      <3>3. last(p) \in Ov(p)
        BY <3>2
      <3>4. last(p).content \in Contents
        BY <3>1, <3>3, QueueTypes
      <3> QED
        BY <2>1, <3>4 DEF Contents
    <2>2. CASE Ov(p) = {}
      BY <2>2 DEF Texture
    <2> QED
      BY <2>1, <2>2
  <1>3. Drained(texture) = [p \in Pixels |-> value(p)]
    BY DEF Drained
  <1> HIDE DEF value
  <1> QED
    BY <1>2, <1>3 DEF Texture

LEMMA DrainedIsCurrent ==
  ASSUME TypeOK, QueueOK, QueueIsCurrent, NEW texture \in Texture \cup {Unallocated},
         image_template \in Contents, queue # {},
         texture = Unallocated => \A i \in queue : i.rect = Pixels,
         texture # Unallocated =>
           \A p \in Pixels : Over(p) = {} => texture[p] = image_template[p]
  PROVE  Drained(texture) = image_template
  <1> DEFINE first == CHOOSE i \in queue : \A j \in queue : i.n <= j.n
             drawn == IF texture = Unallocated /\ first.rect # Pixels THEN queue \ {first} ELSE queue
             Ov(p) == {i \in drawn : p \in i.rect}
             last(p) == CHOOSE i \in Ov(p) : \A j \in Ov(p) : j.n <= i.n
             value(p) == IF Ov(p) # {} THEN last(p).content[p]
                         ELSE IF texture = Unallocated THEN Garbage ELSE texture[p]
  <1>1. drawn = queue
    <2>1. first \in queue
      BY FirstItem
    <2> QED
      BY <2>1
  <1>2. \A p : Ov(p) = Over(p)
    BY <1>1 DEF Over
  <1>3. Drained(texture) = [p \in Pixels |-> value(p)]
    BY DEF Drained
  <1>4. ASSUME NEW p \in Pixels PROVE value(p) = image_template[p]
    <2>1. CASE Ov(p) # {}
      <3>1. Ov(p) \in SUBSET queue
        BY <1>1
      <3>2. \E i \in Ov(p) : \A j \in Ov(p) : j.n <= i.n
        BY <2>1, <3>1, LastItem
      <3>3. last(p) \in Ov(p) /\ \A j \in Ov(p) : j.n <= last(p).n
        BY <3>2
      <3>4. value(p) = last(p).content[p]
        BY <2>1
      <3> HIDE DEF last, value, drawn
      <3> QED
        BY <1>2, <3>1, <3>3, <3>4 DEF QueueIsCurrent, Over
    <2>2. CASE Ov(p) = {}
      <3>1. PICK i \in queue : TRUE
        OBVIOUS
      <3>2. texture # Unallocated
        BY <1>1, <2>2, <3>1
      <3> QED
        BY <1>2, <2>2, <3>2
    <2> QED
      BY <2>1, <2>2
  <1> HIDE DEF value
  <1> QED
    BY <1>3, <1>4 DEF Contents

-----------------------------------------------------------------------------
(* Types.                                                                  *)
LEMMA ImageEntryTypes ==
  ASSUME TypeOK, NEW r \in Renderings
  PROVE  /\ cached_images[r].present \in BOOLEAN
         /\ cached_images[r].handle \in Texture \cup {Unallocated}
         /\ cached_images[r].dirty_rect \in Rects
         /\ cached_images[r] = [present |-> cached_images[r].present,
                                handle |-> cached_images[r].handle,
                                dirty_rect |-> cached_images[r].dirty_rect]
  BY DEF TypeOK

EntryTexture == Texture \cup {Unallocated}
EntryType == [present : BOOLEAN, handle : EntryTexture, dirty_rect : Rects]

TransactionType == [op : {"add", "update", "delete"}, dirty : Rects, request : Rects,
                    content : Contents]

LEMMA TransactionTypes ==
  ASSUME TypeOK, NEW i \in DOMAIN transactions
  PROVE  /\ transactions[i].op \in {"add", "update", "delete"}
         /\ transactions[i].dirty \in Rects /\ transactions[i].request \in Rects
         /\ transactions[i].content \in Contents
         /\ i \in 1..Len(transactions) /\ Len(transactions) \in Nat
  <1>1. transactions \in Seq(TransactionType)
    BY DEF TypeOK, TransactionType
  <1>2. transactions[i] \in TransactionType /\ i \in 1..Len(transactions)
        /\ Len(transactions) \in Nat
    BY <1>1
  <1> QED
    BY <1>2 DEF TransactionType

LEMMA HeadTypes ==
  ASSUME TypeOK, transactions # <<>>
  PROVE  /\ Head(transactions).op \in {"add", "update", "delete"}
         /\ Head(transactions).dirty \in Rects /\ Head(transactions).request \in Rects
         /\ Head(transactions).content \in Contents
         /\ Head(transactions) = transactions[1] /\ 1 \in DOMAIN transactions
         /\ Len(transactions) \in Nat /\ Len(transactions) > 0
         /\ Len(Tail(transactions)) = Len(transactions) - 1
         /\ DOMAIN Tail(transactions) = 1..(Len(transactions) - 1)
         /\ \A i \in 1..(Len(transactions) - 1) :
              Tail(transactions)[i] = transactions[i + 1] /\ i + 1 \in DOMAIN transactions
         /\ Tail(transactions) \in Seq(TransactionType)
  <1>1. transactions \in Seq(TransactionType)
    BY DEF TypeOK, TransactionType
  <1>2. /\ Head(transactions) = transactions[1] /\ 1 \in DOMAIN transactions
        /\ Len(transactions) \in Nat /\ Len(transactions) > 0
        /\ Len(Tail(transactions)) = Len(transactions) - 1
        /\ DOMAIN Tail(transactions) = 1..(Len(transactions) - 1)
        /\ \A i \in 1..(Len(transactions) - 1) :
             Tail(transactions)[i] = transactions[i + 1] /\ i + 1 \in DOMAIN transactions
        /\ Tail(transactions) \in Seq(TransactionType)
    BY <1>1
  <1>3. /\ transactions[1].op \in {"add", "update", "delete"}
        /\ transactions[1].dirty \in Rects /\ transactions[1].request \in Rects
        /\ transactions[1].content \in Contents
    BY <1>2, TransactionTypes
  <1> QED
    BY <1>2, <1>3

(* What a client sends.                                                    *)
LEMMA SendTypes ==
  ASSUME TypeOK, NEW op \in {"add", "update", "delete"}, NEW dirty \in Rects,
         NEW request \in Rects, sent' \in Contents, Send(op, dirty, request),
         kind' \in {"none", "raw", "blob"}, deleted' \in BOOLEAN, updates' \in Nat
  PROVE  TypeOK'
  <1>1. transactions' \in Seq(TransactionType)
    BY DEF Send, TypeOK, TransactionType
  <1> QED
    BY <1>1 DEF Send, TypeOK, TransactionType, blobVars, frameVars

LEMMA TakeTypes ==
  ASSUME TypeOK, NEW op, Take(op)
  PROVE  /\ transactions' \in Seq(TransactionType)
         /\ kind' = kind /\ deleted' = deleted /\ sent' = sent /\ updates' = updates
         /\ state' = state /\ pending_image_requests' = pending_image_requests
         /\ missing_blob_images' = missing_blob_images /\ requested' = requested
         /\ clears' = clears /\ torn' = torn /\ transactions # <<>>
         /\ Head(transactions).op = op /\ transactions' = Tail(transactions)
  BY HeadTypes DEF Take, frameVars

LEMMA AddedTypes ==
  ASSUME TypeOK, QueueOK, NEW rect \in Rects, NEW content \in Contents,
         AddRasterized(rect, content)
  PROVE  rasterized' \in BOOLEAN /\ queue' \subseteq RasterizedBlobImage /\ arrived' \in Nat
  <1>1. PICK i \in RasterizedBlobImage : queue' = Kept(rect) \cup {i} /\ arrived' = i.n + 1
                                         /\ rasterized' = TRUE
    BY ImageAdded
  <1> QED
    BY <1>1, KeptFacts DEF TypeOK, RasterizedBlobImage

LEMMA BlobTypes ==
  ASSUME TypeOK, QueueOK, transactions # <<>>, TakeBlob(Head(transactions))
  PROVE  /\ rasterized' \in BOOLEAN /\ queue' \subseteq RasterizedBlobImage /\ arrived' \in Nat
         /\ rasterizer' \in Contents \cup {Nothing} /\ failures' \in Nat
  <1>1. CASE kind = "blob" /\ AddRasterized(Head(transactions).request, Head(transactions).content)
             /\ rasterizer' = Head(transactions).content /\ UNCHANGED failures
    BY <1>1, AddedTypes, HeadTypes DEF TypeOK
  <1>2. CASE rasterizer' = Head(transactions).content /\ RasterizationFails
    BY <1>2, HeadTypes DEF TypeOK, RasterizationFails, NothingRasterized
  <1>3. CASE UNCHANGED <<blobVars, failures>>
    BY <1>3 DEF TypeOK, blobVars
  <1> QED
    BY <1>1, <1>2, <1>3 DEF TakeBlob

LEMMA SetHandleTypes ==
  ASSUME TypeOK, NEW r \in Renderings, NEW texture \in EntryTexture, SetHandle(r, texture)
  PROVE  /\ cached_images' \in [Renderings -> EntryType]
         /\ cached_images'[r] = [present |-> Present(r), handle |-> texture, dirty_rect |-> {}]
         /\ \A s \in Renderings \ {r} : cached_images'[s] = cached_images[s]
  BY ImageEntryTypes, RectFacts DEF SetHandle, TypeOK, EntryType, EntryTexture, Present

(* What a frame uploads for an image that it waits for.                    *)
LEMMA UploadTypes ==
  ASSUME TypeOK, BookInv, NEW r \in Renderings, UpdateTextureCache(r)
  PROVE  cached_images' \in [Renderings -> EntryType]
  <1>1. image_template \in Contents
    BY DEF UpdateTextureCache, BookInv, EntriesOK, RequestsOK, TypeOK
  <1>2. CASE UploadRaw(r)
    <2> DEFINE rect == IF NeedsUpload(r) THEN Pixels ELSE cached_images[r].dirty_rect
    <2>1. rect \in Rects
      BY ImageEntryTypes, RectFacts
    <2>2. Uploaded(cached_images[r].handle, rect, image_template) \in EntryTexture
      BY <1>1, <2>1, ImageEntryTypes, UploadedType DEF EntryTexture
    <2> QED
      BY <1>2, <2>2, SetHandleTypes DEF UploadRaw
  <1>3. CASE UploadBlob(r)
    <2>1. Drained(cached_images[r].handle) \in EntryTexture
      BY ImageEntryTypes, DrainedType DEF EntryTexture, BookInv
    <2> QED
      BY <1>3, <2>1, SetHandleTypes DEF UploadBlob, TypeOK, EntryType, EntryTexture
  <1>4. CASE UploadFails
    BY <1>4 DEF UploadFails, TypeOK, EntryType, EntryTexture
  <1> QED
    BY <1>2, <1>3, <1>4 DEF UpdateTextureCache

LEMMA TypeStep ==
  ASSUME TypeOK, BookInv, [Next]_vars
  PROVE  TypeOK'
  <1>q. QueueOK
    BY DEF BookInv
  <1>1. ASSUME NEW k \in {"raw", "blob"}, Add(k) PROVE TypeOK'
    BY <1>1, SendTypes, RectFacts DEF Add, TypeOK
  <1>2. ASSUME NEW dirty \in Rects, Update(dirty) PROVE TypeOK'
    <2>1. updates' \in Nat /\ sent' \in Contents
      BY <1>2 DEF Update, TypeOK, Contents
    <2>2. RequestRect(dirty) \in Rects
      BY RectFacts DEF RequestRect
    <2> QED
      BY <1>2, <2>1, <2>2, SendTypes DEF Update, TypeOK
  <1>3. CASE Delete
    BY <1>3, SendTypes, RectFacts DEF Delete, TypeOK
  <1>4. CASE TakeAdd
    <2>1. image_template' \in Contents \cup {Nothing}
      BY <1>4, TakeTypes, HeadTypes DEF TakeAdd
    <2> QED
      BY <1>4, <1>q, <2>1, TakeTypes, BlobTypes DEF TakeAdd, TypeOK, TransactionType
  <1>5. CASE TakeUpdate
    <2>1. image_template' \in Contents \cup {Nothing}
      BY <1>5, TakeTypes, HeadTypes DEF TakeUpdate
    <2>2. cached_images' \in [Renderings -> EntryType]
      <3>1. ASSUME NEW r \in Renderings
            PROVE  /\ [cached_images[r] EXCEPT !.dirty_rect = Hull(@, Head(transactions).dirty)]
                        \in EntryType
                   /\ NoEntry \in EntryType
        <4>1. Head(transactions).dirty \in Rects
          BY <1>5, TakeTypes, HeadTypes DEF TakeUpdate
        <4>2. Hull(cached_images[r].dirty_rect, Head(transactions).dirty) \in Rects
          BY <4>1, ImageEntryTypes, HullIsRect
        <4> QED
          BY <4>2, ImageEntryTypes, RectFacts DEF EntryType, EntryTexture, NoEntry, TypeOK
      <3> QED
        BY <1>5, <3>1 DEF TakeUpdate
    <2> QED
      BY <1>5, <1>q, <2>1, <2>2, TakeTypes, BlobTypes
         DEF TakeUpdate, TypeOK, EntryType, EntryTexture, TransactionType
  <1>6. CASE TakeDelete
    <2>1. [r \in Renderings |-> NoEntry] \in [Renderings -> EntryType]
      BY RectFacts DEF EntryType, EntryTexture, NoEntry
    <2> QED
      BY <1>6, <2>1, TakeTypes DEF TakeDelete, TypeOK, TransactionType, EntryType, EntryTexture
  <1>7. CASE BeginFrame \/ EndFrame
    BY <1>7 DEF BeginFrame, EndFrame, TypeOK, clientVars, blobVars
  <1>8. CASE BlockUntilAllResourcesAdded
    <2>1. missing_blob_images => rasterizer \in Contents
      BY DEF BookInv, RequestsOK, EntriesOK, TypeOK
    <2>2. /\ rasterized' \in BOOLEAN /\ queue' \subseteq RasterizedBlobImage /\ arrived' \in Nat
          /\ failures' \in Nat
      BY <1>8, <1>q, <2>1, AddedTypes, RectFacts
         DEF BlockUntilAllResourcesAdded, RasterizationFails, NothingRasterized, TypeOK
    <2> QED
      BY <1>8, <2>2 DEF BlockUntilAllResourcesAdded, TypeOK, clientVars
  <1>9. ASSUME NEW r \in Renderings, RequestImage(r) PROVE TypeOK'
    <2>1. Entry(r) \in EntryType
      BY ImageEntryTypes, RectFacts DEF Entry, NewEntry, TypeOK, EntryType, EntryTexture
    <2>2. cached_images' \in [Renderings -> EntryType]
      BY <1>9, <2>1 DEF RequestImage, TypeOK, EntryType, EntryTexture
    <2>3. missing_blob_images' \in BOOLEAN /\ pending_image_requests' \subseteq Renderings
      BY <1>9 DEF RequestImage, TypeOK, Missing
    <2> QED
      BY <1>9, <2>2, <2>3 DEF RequestImage, TypeOK, EntryType, EntryTexture, clientVars, blobVars
  <1>10. ASSUME NEW r \in Renderings, UpdateTextureCache(r) PROVE TypeOK'
    <2>1. cached_images' \in [Renderings -> EntryType]
      BY <1>10, UploadTypes
    <2>2. /\ queue' \subseteq RasterizedBlobImage /\ arrived' \in Nat
          /\ state' \in {"Idle", "AddResources", "QueryResources", "Panic"}
      BY <1>10 DEF UpdateTextureCache, UploadRaw, UploadBlob, UploadFails, TypeOK
    <2> QED
      BY <1>10, <2>1, <2>2 DEF UpdateTextureCache, TypeOK, EntryType, EntryTexture, clientVars
  <1>11. ASSUME NEW r \in Renderings, Evict(r) PROVE TypeOK'
    <2>1. cached_images' \in [Renderings -> EntryType]
      BY <1>11, ImageEntryTypes DEF Evict, TypeOK, EntryType, EntryTexture
    <2> QED
      BY <1>11, <2>1 DEF Evict, TypeOK, EntryType, EntryTexture, clientVars, blobVars, frameVars
  <1>12. CASE ReclaimSharedMemory
    <2>1. cached_images' \in [Renderings -> EntryType]
      BY <1>12, ImageEntryTypes DEF ReclaimSharedMemory, TypeOK, EntryType, EntryTexture
    <2>2. torn' \in BOOLEAN /\ clears' \in Nat
      BY <1>12 DEF ReclaimSharedMemory, TypeOK
    <2> QED
      BY <1>12, <2>1, <2>2
         DEF ReclaimSharedMemory, TypeOK, EntryType, EntryTexture, clientVars, blobVars, frameVars
  <1>13. CASE MemoryPressure
    <2>1. [r \in Renderings |-> NoEntry] \in [Renderings -> EntryType]
      BY RectFacts DEF EntryType, EntryTexture, NoEntry
    <2>2. torn' \in BOOLEAN /\ clears' \in Nat
      BY <1>13 DEF MemoryPressure, TypeOK
    <2> QED
      BY <1>13, <2>1, <2>2
         DEF MemoryPressure, TypeOK, EntryType, EntryTexture, clientVars, blobVars, frameVars
  <1>14. CASE UNCHANGED vars
    BY <1>14 DEF vars, clientVars, blobVars, frameVars, TypeOK
  <1> QED
    BY <1>1, <1>2, <1>3, <1>4, <1>5, <1>6, <1>7, <1>8, <1>9, <1>10, <1>11, <1>12, <1>13, <1>14
       DEF Next

-----------------------------------------------------------------------------
(* The transactions.                                                       *)
LEMMA Sent ==
  ASSUME TypeOK, TransactionsLead, ~deleted, NEW t, Len(transactions) < MaxInFlight,
         transactions' = Append(transactions, t), image_template' = image_template,
         kind' # "none",
         t.op = "add" => transactions = <<>> /\ t.request = Pixels,
         t.op = "update" =>
           /\ t.dirty \subseteq t.request /\ Latest \in Contents
           /\ \A p \in Pixels \ t.dirty : t.content[p] = Latest[p],
         t.op = "delete" => deleted',
         ~deleted' => t.content = sent'
  PROVE  TransactionsLead'
  <1>1. /\ Len(transactions) \in Nat /\ Len(transactions') = Len(transactions) + 1
        /\ DOMAIN transactions = 1..Len(transactions)
        /\ DOMAIN transactions' = 1..(Len(transactions) + 1)
        /\ \A i \in 1..Len(transactions) : transactions'[i] = transactions[i]
        /\ transactions'[Len(transactions) + 1] = t
        /\ transactions' # <<>> /\ (transactions = <<>> <=> Len(transactions) = 0)
    BY DEF TypeOK
  <1>2. ASSUME NEW i \in 1..(Len(transactions) + 1)
        PROVE  ContentBefore(i)' = IF i <= Len(transactions) THEN ContentBefore(i) ELSE Latest
    <2>1. i # 1 => i - 1 \in 1..Len(transactions)
      BY <1>1
    <2> QED
      BY <1>1, <2>1 DEF ContentBefore, Latest
  <1>3. ASSUME NEW i \in 1..(Len(transactions) + 1) PROVE LeadsOn(i)'
    <2>1. CASE i <= Len(transactions)
      <3>1. LeadsOn(i) /\ transactions'[i] = transactions[i]
        BY <1>1, <2>1 DEF TransactionsLead
      <3> QED
        BY <1>1, <1>2, <2>1, <3>1 DEF LeadsOn
    <2>2. CASE i = Len(transactions) + 1
      <3>1. transactions'[i] = t /\ ContentBefore(i)' = Latest /\ (transactions = <<>> => i = 1)
        BY <1>1, <1>2, <2>2
      <3> QED
        BY <1>1, <2>2, <3>1 DEF LeadsOn
    <2> QED
      BY <1>1, <2>1, <2>2
  <1>4. Latest' = t.content
    BY <1>1 DEF Latest
  <1> QED
    BY <1>1, <1>3, <1>4, Sizes DEF TransactionsLead

LEMMA Taken ==
  ASSUME TypeOK, TransactionsLead, transactions # <<>>, transactions' = Tail(transactions),
         kind' = kind, deleted' = deleted, sent' = sent,
         Head(transactions).op # "delete" => image_template' = Head(transactions).content
  PROVE  TransactionsLead'
  <1>1. /\ Len(transactions) \in Nat /\ Len(transactions) > 0
        /\ Len(transactions') = Len(transactions) - 1
        /\ DOMAIN transactions = 1..Len(transactions)
        /\ DOMAIN transactions' = 1..(Len(transactions) - 1)
        /\ \A i \in 1..(Len(transactions) - 1) :
             transactions'[i] = transactions[i + 1] /\ i + 1 \in 1..Len(transactions)
        /\ Head(transactions) = transactions[1] /\ 1 \in 1..Len(transactions)
    BY HeadTypes DEF TypeOK
  <1>2. LeadsOn(1)
    BY <1>1 DEF TransactionsLead
  <1>3. ASSUME NEW i \in 1..(Len(transactions) - 1) PROVE LeadsOn(i)'
    <2>1. LeadsOn(i + 1) /\ i + 1 # 1 /\ i \in Nat /\ 1 # Len(transactions)
      BY <1>1 DEF TransactionsLead
    <2>2. image_template' = transactions[1].content
      BY <1>1, <1>2, <2>1 DEF LeadsOn
    <2>3. ContentBefore(i)' = ContentBefore(i + 1)
      <3>1. i # 1 => /\ i - 1 \in 1..(Len(transactions) - 1)
                     /\ transactions'[i - 1] = transactions[i]
        BY <1>1
      <3> QED
        BY <1>1, <2>1, <2>2, <3>1 DEF ContentBefore
    <2>4. transactions'[i] = transactions[i + 1] /\ i + 1 \in 1..Len(transactions)
      BY <1>1
    <2>5. transactions[i + 1].op # "add"
      BY <2>1 DEF LeadsOn
    <2>6. transactions[i + 1].op = "update" =>
            /\ transactions[i + 1].dirty \subseteq transactions[i + 1].request
            /\ ContentBefore(i + 1) \in Contents
            /\ \A p \in Pixels \ transactions[i + 1].dirty :
                 transactions[i + 1].content[p] = ContentBefore(i + 1)[p]
      BY <2>1 DEF LeadsOn
    <2>7. transactions[i + 1].op = "delete" => deleted /\ i + 1 = Len(transactions)
      BY <2>1 DEF LeadsOn
    <2>8. transactions'[i].op = "update" =>
            /\ transactions'[i].dirty \subseteq transactions'[i].request
            /\ ContentBefore(i)' \in Contents
            /\ \A p \in Pixels \ transactions'[i].dirty :
                 transactions'[i].content[p] = ContentBefore(i)'[p]
      BY <2>3, <2>4, <2>6
    <2>9. i + 1 = Len(transactions) => i = Len(transactions')
      <3>1. Len(transactions') = Len(transactions) - 1 /\ Len(transactions) \in Nat /\ i \in Int
        BY <1>1
      <3>2. \A m \in Nat : i + 1 = m => i = m - 1
        BY <3>1
      <3> QED
        BY <3>1, <3>2, Zenon
    <2> QED
      BY <2>4, <2>5, <2>7, <2>8, <2>9 DEF LeadsOn
  <1>4. ASSUME ~deleted, kind # "none" PROVE Latest' = sent
    <2>1. Latest = sent /\ Latest = transactions[Len(transactions)].content
      BY <1>1, <1>4 DEF TransactionsLead, Latest
    <2>2. image_template' = transactions[1].content
      BY <1>1, <1>2, <1>4 DEF LeadsOn
    <2>3. CASE Len(transactions) = 1
      <3>1. transactions' = <<>>
        BY <1>1, <2>3, HeadTypes
      <3> QED
        BY <2>1, <2>2, <2>3, <3>1 DEF Latest
    <2>4. CASE Len(transactions) # 1
      <3>1. /\ transactions' # <<>> /\ Len(transactions') \in 1..(Len(transactions) - 1)
            /\ transactions'[Len(transactions')] = transactions[Len(transactions)]
        BY <1>1, <2>4
      <3> QED
        BY <2>1, <3>1 DEF Latest
    <2> QED
      BY <2>3, <2>4
  <1> QED
    BY <1>1, <1>3, <1>4, Sizes DEF TransactionsLead

LEMMA NothingSent ==
  ASSUME TransactionsLead, UNCHANGED clientVars, image_template' = image_template
  PROVE  TransactionsLead'
  BY DEF TransactionsLead, clientVars, LeadsOn, ContentBefore, Latest

(* The steps that leave the client and the transactions alone.             *)
Frame ==
  \/ BeginFrame \/ BlockUntilAllResourcesAdded \/ EndFrame
  \/ \E r \in Renderings : RequestImage(r) \/ UpdateTextureCache(r) \/ Evict(r)
  \/ ReclaimSharedMemory \/ MemoryPressure

LEMMA FrameKeeps ==
  ASSUME Frame
  PROVE  UNCHANGED clientVars /\ image_template' = image_template
  BY DEF Frame, BeginFrame, BlockUntilAllResourcesAdded, EndFrame, RequestImage,
         UpdateTextureCache, Evict, ReclaimSharedMemory, MemoryPressure

LEMMA LeadStep ==
  ASSUME TypeOK, TransactionsLead, EntriesOK, [Next]_vars
  PROVE  TransactionsLead'
  <1>1. ASSUME NEW k \in {"raw", "blob"}, Add(k) PROVE TransactionsLead'
    <2>1. kind = "none" /\ transactions = <<>> /\ ~deleted /\ kind' = k /\ deleted' = deleted
      BY <1>1 DEF Add, TransactionsLead
    <2> DEFINE t == [op |-> "add", dirty |-> Pixels, request |-> Pixels, content |-> sent']
    <2>2. /\ t.op = "add" /\ t.request = Pixels /\ t.content = sent'
          /\ transactions' = Append(transactions, t) /\ Len(transactions) < MaxInFlight
          /\ image_template' = image_template
      BY <1>1 DEF Add, Send
    <2> HIDE DEF t
    <2> QED
      BY <2>1, <2>2, Sent
  <1>2. ASSUME NEW dirty \in Rects, Update(dirty) PROVE TransactionsLead'
    <2> DEFINE t == [op |-> "update", dirty |-> dirty, request |-> RequestRect(dirty),
                     content |-> sent']
    <2>1. /\ t.op = "update" /\ t.dirty = dirty /\ t.request = RequestRect(dirty)
          /\ t.content = sent' /\ kind' = kind /\ kind # "none" /\ ~deleted
          /\ transactions' = Append(transactions, t) /\ Len(transactions) < MaxInFlight
          /\ image_template' = image_template
      BY <1>2 DEF Update, Send
    <2>2. Latest = sent /\ sent \in Contents
      BY <2>1 DEF TransactionsLead, TypeOK
    <2>3. \A p \in Pixels \ dirty : sent'[p] = sent[p]
      BY <1>2 DEF Update
    <2>4. dirty \subseteq RequestRect(dirty)
      BY RectFacts DEF RequestRect
    <2> HIDE DEF t
    <2> QED
      BY <2>1, <2>2, <2>3, <2>4, Sent
  <1>3. CASE Delete
    <2> DEFINE t == [op |-> "delete", dirty |-> {}, request |-> {}, content |-> sent']
    <2>1. /\ t.op = "delete" /\ kind' = kind /\ kind # "none" /\ ~deleted /\ deleted' = TRUE
          /\ transactions' = Append(transactions, t) /\ Len(transactions) < MaxInFlight
          /\ image_template' = image_template
      BY <1>3 DEF Delete, Send
    <2> HIDE DEF t
    <2> QED
      BY <2>1, Sent
  <1>4. CASE TakeAdd \/ TakeUpdate
    BY <1>4, TakeTypes, Taken DEF TakeAdd, TakeUpdate
  <1>5. CASE TakeDelete
    BY <1>5, TakeTypes, Taken DEF TakeDelete
  <1>6. CASE Frame
    BY <1>6, FrameKeeps, NothingSent
  <1>7. CASE UNCHANGED vars
    BY <1>7, NothingSent DEF vars
  <1> QED
    BY <1>1, <1>2, <1>3, <1>4, <1>5, <1>6, <1>7 DEF Next, Frame

-----------------------------------------------------------------------------
(* Entries and the rasterizer.                                             *)
LEMMA Uploads ==
  ASSUME TypeOK, NEW r \in Renderings, UpdateTextureCache(r)
  PROVE  /\ r \in pending_image_requests
         /\ pending_image_requests' = pending_image_requests \ {r}
         /\ state = "QueryResources" /\ UNCHANGED clientVars
         /\ UNCHANGED <<image_template, rasterizer, rasterized, missing_blob_images, requested,
                        clears, torn, failures>>
         /\ \A s \in Renderings \ {r} : cached_images'[s] = cached_images[s]
         /\ Present(r)' = Present(r)
         /\ queue' = queue \/ (kind = "blob" /\ rasterized /\ queue' = {})
         /\ state' = state \/ (kind = "blob" /\ ~rasterized /\ state' = "Panic")
  <1>1. CASE UploadRaw(r)
    BY <1>1 DEF UpdateTextureCache, UploadRaw, SetHandle, Present, TypeOK
  <1>2. CASE UploadBlob(r)
    BY <1>2 DEF UpdateTextureCache, UploadBlob, SetHandle, Present, TypeOK
  <1>3. CASE UploadFails
    BY <1>3 DEF UpdateTextureCache, UploadFails, Present
  <1> QED
    BY <1>1, <1>2, <1>3 DEF UpdateTextureCache

(* Requests, evictions and lost textures.                                  *)
EvictedEntries(S) ==
  [r \in Renderings |->
     IF r \in S THEN [cached_images[r] EXCEPT !.handle = Unallocated] ELSE cached_images[r]]

LEMMA Loses ==
  ASSUME TypeOK, EntriesOK, NEW S \in SUBSET Renderings, cached_images' = EvictedEntries(S)
  PROVE  \A r \in Renderings :
           /\ Present(r)' = Present(r) /\ (~Present(r) => cached_images'[r] = cached_images[r])
           /\ cached_images'[r].dirty_rect = cached_images[r].dirty_rect
           /\ NeedsUpload(r)' \/ cached_images'[r] = cached_images[r]
  BY ImageEntryTypes DEF EvictedEntries, EntriesOK, NoEntry, Present, NeedsUpload

LEMMA LosesEntries ==
  ASSUME TypeOK, EntriesOK,
         (\E r \in Renderings : Evict(r)) \/ ReclaimSharedMemory
  PROVE  /\ \A r \in Renderings :
              /\ Present(r)' = Present(r) /\ (~Present(r) => cached_images'[r] = cached_images[r])
              /\ cached_images'[r].dirty_rect = cached_images[r].dirty_rect
              /\ NeedsUpload(r)' \/ cached_images'[r] = cached_images[r]
         /\ UNCHANGED clientVars /\ UNCHANGED <<image_template, blobVars, frameVars, failures>>
         /\ state = "Idle"
  <1>1. ASSUME NEW r \in Renderings, Evict(r)
        PROVE  cached_images' = EvictedEntries({r})
    BY <1>1 DEF Evict, EvictedEntries, TypeOK
  <1>2. CASE ReclaimSharedMemory
    <2>1. cached_images' = EvictedEntries(Renderings)
      BY <1>2 DEF ReclaimSharedMemory, EvictedEntries
    <2> QED
      BY <1>2, <2>1, Loses DEF ReclaimSharedMemory
  <1>3. ASSUME NEW r \in Renderings, Evict(r)
        PROVE  /\ UNCHANGED clientVars
               /\ UNCHANGED <<image_template, blobVars, frameVars, failures>> /\ state = "Idle"
    BY <1>3 DEF Evict
  <1> QED
    BY <1>1, <1>2, <1>3, Loses

LEMMA Requests ==
  ASSUME TypeOK, EntriesOK, NEW r \in Renderings, RequestImage(r)
  PROVE  /\ cached_images'[r] = Entry(r) /\ Present(r)'
         /\ \A s \in Renderings \ {r} : cached_images'[s] = cached_images[s]
         /\ Entry(r).handle = cached_images[r].handle
         /\ Present(r) => cached_images'[r] = cached_images[r]
  BY ImageEntryTypes DEF RequestImage, Entry, NewEntry, NoEntry, Present, TypeOK, EntriesOK

LEMMA TakenEntries ==
  ASSUME TypeOK, TakeUpdate, NEW r \in Renderings
  PROVE  /\ Present(r)' = Present(r)
         /\ ~Present(r) => cached_images'[r] = NoEntry
         /\ Present(r) => /\ cached_images'[r].handle = cached_images[r].handle
                          /\ cached_images'[r].dirty_rect =
                               Hull(cached_images[r].dirty_rect, Head(transactions).dirty)
  <1> DEFINE e == [cached_images[r] EXCEPT !.dirty_rect = Hull(@, Head(transactions).dirty)]
  <1>1. cached_images'[r] = IF Present(r) THEN e ELSE NoEntry
    BY DEF TakeUpdate
  <1>2. /\ e.present = cached_images[r].present /\ e.handle = cached_images[r].handle
        /\ e.dirty_rect = Hull(cached_images[r].dirty_rect, Head(transactions).dirty)
    BY ImageEntryTypes
  <1>3. Present(r) \in BOOLEAN
    BY ImageEntryTypes DEF Present
  <1>4. Present(r)' = cached_images'[r].present /\ Present(r) = cached_images[r].present
        /\ NoEntry.present = FALSE
    BY DEF Present, NoEntry
  <1> HIDE DEF e
  <1>5. CASE Present(r)
    BY <1>1, <1>2, <1>4, <1>5
  <1>6. CASE ~Present(r)
    BY <1>1, <1>3, <1>4, <1>6
  <1> QED
    BY <1>5, <1>6

LEMMA EntriesStep ==
  ASSUME TypeOK, BookInv, [Next]_vars
  PROVE  EntriesOK'
  <1>1. ASSUME NEW k \in {"raw", "blob"}, Add(k) PROVE EntriesOK'
    BY <1>1 DEF Add, Send, BookInv, EntriesOK, blobVars, Present
  <1>2. ASSUME kind' = kind, kind # "none", image_template' = image_template,
               rasterizer' = rasterizer, cached_images' = cached_images, NEW t, t.op # "add",
               transactions' = Append(transactions, t)
        PROVE  EntriesOK'
    <2>1. ASSUME NEW i \in DOMAIN transactions', transactions'[i].op = "add"
          PROVE  i \in DOMAIN transactions /\ transactions[i].op = "add"
      BY <1>2, <2>1 DEF TypeOK
    <2> QED
      BY <1>2, <2>1 DEF BookInv, EntriesOK, Present
  <1>3. CASE Delete \/ \E dirty \in Rects : Update(dirty)
    <2>1. /\ kind' = kind /\ kind # "none" /\ image_template' = image_template
          /\ rasterizer' = rasterizer /\ cached_images' = cached_images
      BY <1>3 DEF Delete, Update, Send, blobVars
    <2>2. \E t : t.op # "add" /\ transactions' = Append(transactions, t)
      BY <1>3 DEF Delete, Update, Send
    <2> QED
      BY <1>2, <2>1, <2>2
  <1>4. ASSUME TakeAdd \/ TakeUpdate \/ TakeDelete
        PROVE  /\ \A i \in DOMAIN transactions' : transactions'[i].op # "add"
               /\ kind # "none" /\ kind' = kind
    <2>1. transactions # <<>> /\ transactions' = Tail(transactions) /\ kind' = kind
      BY <1>4, TakeTypes DEF TakeAdd, TakeUpdate, TakeDelete
    <2>2. \A i \in DOMAIN transactions' : /\ i + 1 \in DOMAIN transactions /\ i + 1 # 1
                                          /\ transactions'[i] = transactions[i + 1]
      BY <2>1, HeadTypes
    <2> QED
      BY <2>1, <2>2 DEF BookInv, TransactionsLead, LeadsOn
  <1>5. ASSUME TakeBlob(Head(transactions))
        PROVE  kind = "blob" => rasterizer' = Head(transactions).content
    BY <1>5 DEF TakeBlob
  <1>6. CASE TakeAdd
    <2>1. transactions # <<>> /\ Head(transactions).op = "add"
      BY <1>6, TakeTypes DEF TakeAdd
    <2>2. image_template = Nothing
      BY <2>1, HeadTypes DEF BookInv, EntriesOK
    <2> QED
      BY <1>4, <1>5, <1>6, <2>2 DEF TakeAdd, BookInv, EntriesOK, Present
  <1>7. CASE TakeUpdate
    <2>1. image_template' = Head(transactions).content /\ Head(transactions).content \in Contents
      BY <1>7, TakeTypes, HeadTypes DEF TakeUpdate
    <2>2. ASSUME image_template # Nothing PROVE image_template' # Nothing
      BY <2>1, <2>2, NotNothing DEF TypeOK, Contents
    <2>3. ASSUME NEW r \in Renderings
          PROVE  /\ Present(r)' = Present(r)
                 /\ ~Present(r) => cached_images'[r] = NoEntry
      <3>1. ~Present(r) => cached_images[r] = NoEntry
        BY DEF BookInv, EntriesOK
      <3> QED
        BY <1>7, <3>1, TakenEntries
    <2> QED
      BY <1>4, <1>5, <1>7, <2>1, <2>2, <2>3 DEF TakeUpdate, BookInv, EntriesOK
  <1>8. CASE TakeDelete
    BY <1>4, <1>8 DEF TakeDelete, EntriesOK, Present, NoEntry
  <1>9. CASE BeginFrame \/ EndFrame \/ BlockUntilAllResourcesAdded
    BY <1>9 DEF BeginFrame, EndFrame, BlockUntilAllResourcesAdded, BookInv, EntriesOK, Present,
                clientVars, blobVars
  <1>10. ASSUME NEW r \in Renderings, RequestImage(r) PROVE EntriesOK'
    <2>1. /\ image_template # Nothing /\ image_template' = image_template /\ UNCHANGED clientVars
          /\ rasterizer' = rasterizer
      BY <1>10 DEF RequestImage, blobVars
    <2>2. \A s \in Renderings : s # r => cached_images'[s] = cached_images[s]
      BY <1>10, Requests DEF BookInv
    <2>3. Present(r)'
      BY <1>10, Requests DEF BookInv
    <2> QED
      BY <2>1, <2>2, <2>3 DEF BookInv, EntriesOK, Present, clientVars
  <1>11. ASSUME NEW r \in Renderings, UpdateTextureCache(r) PROVE EntriesOK'
    <2>1. Present(r)
      BY <1>11, Uploads DEF BookInv, RequestsOK, TypeOK
    <2> QED
      BY <1>11, <2>1, Uploads DEF BookInv, EntriesOK, Present, clientVars
  <1>12. CASE (\E r \in Renderings : Evict(r)) \/ ReclaimSharedMemory
    BY <1>12, LosesEntries DEF BookInv, EntriesOK, clientVars, blobVars
  <1>13. CASE MemoryPressure
    BY <1>13 DEF MemoryPressure, BookInv, EntriesOK, Present, NoEntry, clientVars
  <1>14. CASE UNCHANGED vars
    BY <1>14 DEF vars, clientVars, blobVars, BookInv, EntriesOK, Present
  <1> QED
    BY <1>1, <1>3, <1>6, <1>7, <1>8, <1>9, <1>10, <1>11, <1>12, <1>13, <1>14 DEF Next

-----------------------------------------------------------------------------
(* The queue and the requests.                                             *)
LEMMA AddedOK ==
  ASSUME TypeOK, QueueOK, NEW rect \in Rects, NEW content \in Contents,
         AddRasterized(rect, content), kind' = "blob"
  PROVE  QueueOK'
  <1>1. PICK i \in RasterizedBlobImage :
          /\ queue' = Kept(rect) \cup {i} /\ rasterized' = TRUE /\ arrived' = i.n + 1
          /\ \A j \in Kept(rect) : j.n < i.n
    BY ImageAdded
  <1>2. Kept(rect) \subseteq queue /\ IsFiniteSet(queue')
    BY <1>1, KeptFacts, FS_AddElement
  <1>3. i.n \in Nat /\ \A j \in Kept(rect) : j.n \in Nat
    BY <1>2, QueueTypes DEF RasterizedBlobImage
  <1>4. \A j \in queue' : j.n < arrived'
    BY <1>1, <1>3
  <1>5. \A j, k \in queue' : j.n = k.n => j = k
    BY <1>1, <1>2, <1>3 DEF QueueOK
  <1> QED
    BY <1>1, <1>2, <1>4, <1>5 DEF QueueOK

LEMMA NoQueue ==
  ASSUME queue' = {}
  PROVE  QueueOK'
  BY FS_EmptySet DEF QueueOK

LEMMA SameQueue ==
  ASSUME QueueOK, UNCHANGED <<queue, arrived, rasterized>>, kind' = kind \/ kind # "blob"
  PROVE  QueueOK'
  BY NoQueue DEF QueueOK

LEMMA BlobQueue ==
  ASSUME TypeOK, QueueOK, transactions # <<>>, TakeBlob(Head(transactions)), kind' = kind
  PROVE  QueueOK'
  <1>1. CASE kind = "blob" /\ AddRasterized(Head(transactions).request, Head(transactions).content)
    BY <1>1, AddedOK, HeadTypes
  <1>2. CASE UNCHANGED <<queue, arrived, rasterized>>
    BY <1>2, SameQueue
  <1> QED
    BY <1>1, <1>2 DEF TakeBlob, RasterizationFails, NothingRasterized, blobVars

LEMMA QueueStep ==
  ASSUME TypeOK, BookInv, [Next]_vars
  PROVE  QueueOK'
  <1>q. QueueOK
    BY DEF BookInv
  <1>1. CASE \/ \E k \in {"raw", "blob"} : Add(k)
             \/ \E dirty \in Rects : Update(dirty)
             \/ Delete
    BY <1>1, <1>q, SameQueue DEF Add, Update, Delete, Send, blobVars
  <1>2. CASE TakeAdd \/ TakeUpdate
    BY <1>2, <1>q, TakeTypes, BlobQueue DEF TakeAdd, TakeUpdate
  <1>3. CASE TakeDelete \/ MemoryPressure
    BY <1>3, NoQueue DEF TakeDelete, MemoryPressure
  <1>4. CASE BlockUntilAllResourcesAdded
    <2>1. missing_blob_images => kind = "blob" /\ rasterizer \in Contents
      BY DEF BookInv, RequestsOK, EntriesOK, TypeOK
    <2>2. kind' = kind
      BY <1>4 DEF BlockUntilAllResourcesAdded, clientVars
    <2>3. \/ missing_blob_images /\ AddRasterized(Pixels, rasterizer)
          \/ UNCHANGED <<queue, arrived, rasterized>>
      BY <1>4 DEF BlockUntilAllResourcesAdded, RasterizationFails, NothingRasterized
    <2> QED
      BY <1>q, <2>1, <2>2, <2>3, AddedOK, SameQueue, RectFacts
  <1>5. ASSUME NEW r \in Renderings, UpdateTextureCache(r) PROVE QueueOK'
    <2>1. queue' = {} \/ UNCHANGED <<queue, arrived, rasterized>>
      BY <1>5 DEF UpdateTextureCache, UploadRaw, UploadBlob, UploadFails
    <2>2. kind' = kind
      BY <1>5, Uploads DEF clientVars
    <2> QED
      BY <1>q, <2>1, <2>2, NoQueue, SameQueue
  <1>6. CASE BeginFrame \/ EndFrame \/ (\E r \in Renderings : RequestImage(r))
    BY <1>6, <1>q, SameQueue DEF BeginFrame, EndFrame, RequestImage, blobVars, clientVars
  <1>7. CASE (\E r \in Renderings : Evict(r)) \/ ReclaimSharedMemory
    BY <1>7, <1>q, SameQueue, LosesEntries DEF BookInv, clientVars, blobVars
  <1>8. CASE UNCHANGED vars
    BY <1>8, <1>q, SameQueue DEF vars, clientVars, blobVars
  <1> QED
    BY <1>1, <1>2, <1>3, <1>4, <1>5, <1>6, <1>7, <1>8 DEF Next

(* Between the frames nothing is requested.                                *)
LEMMA IdleRequests ==
  ASSUME RequestsOK, state = "Idle", UNCHANGED frameVars, UNCHANGED failures \/ failures' # 0
  PROVE  RequestsOK'
  BY DEF RequestsOK, frameVars

LEMMA RequestsStep ==
  ASSUME TypeOK, BookInv, [Next]_vars
  PROVE  RequestsOK'
  <1>r. RequestsOK /\ EntriesOK /\ QueueOK
    BY DEF BookInv
  <1>1. CASE \/ \E k \in {"raw", "blob"} : Add(k)
             \/ \E dirty \in Rects : Update(dirty)
             \/ Delete
    BY <1>1, <1>r, IdleRequests DEF Add, Update, Delete, Send
  <1>2. CASE TakeAdd \/ TakeUpdate \/ TakeDelete
    <2>1. state = "Idle" /\ UNCHANGED frameVars
      BY <1>2 DEF TakeAdd, TakeUpdate, TakeDelete, Take
    <2>2. UNCHANGED failures \/ failures' # 0
      BY <1>2 DEF TakeAdd, TakeUpdate, TakeDelete, TakeBlob, RasterizationFails, TypeOK
    <2> QED
      BY <1>r, <2>1, <2>2, IdleRequests
  <1>3. CASE MemoryPressure \/ ReclaimSharedMemory \/ (\E r \in Renderings : Evict(r))
    BY <1>3, <1>r, IdleRequests DEF MemoryPressure, ReclaimSharedMemory, Evict
  <1>4. CASE BeginFrame
    BY <1>4, <1>r DEF BeginFrame, RequestsOK, clientVars, blobVars
  <1>5. ASSUME NEW r \in Renderings, RequestImage(r) PROVE RequestsOK'
    <2>1. /\ state = "AddResources" /\ state' = state /\ UNCHANGED clientVars
          /\ image_template # Nothing /\ image_template' = image_template
          /\ UNCHANGED <<queue, rasterized, failures>> /\ requested' = requested \cup {r}
      BY <1>5 DEF RequestImage, blobVars
    <2>2. \A s \in requested' : Present(s)'
      <3>1. Present(r)' /\ \A s \in Renderings \ {r} : Present(s)' = Present(s)
        BY <1>5, <1>r, Requests DEF Present
      <3> QED
        BY <1>r, <2>1, <3>1 DEF RequestsOK, TypeOK
    <2>3. CASE /\ pending_image_requests' = pending_image_requests \cup {r}
               /\ missing_blob_images' = (missing_blob_images \/ Missing)
      BY <1>r, <2>1, <2>2, <2>3 DEF RequestsOK, Missing, clientVars
    <2>4. CASE UNCHANGED <<pending_image_requests, missing_blob_images>>
      BY <1>r, <2>1, <2>2, <2>4 DEF RequestsOK, clientVars
    <2> QED
      BY <1>5, <2>3, <2>4 DEF RequestImage
  <1>6. CASE BlockUntilAllResourcesAdded
    <2>1. /\ state = "AddResources" /\ state' = "QueryResources" /\ missing_blob_images' = FALSE
          /\ UNCHANGED <<kind, cached_images, pending_image_requests, requested>>
      BY <1>6 DEF BlockUntilAllResourcesAdded, clientVars
    <2>2. ASSUME kind = "blob", failures' = 0, pending_image_requests # {} PROVE rasterized'
      <3>1. CASE missing_blob_images
        BY <1>6, <2>2, <3>1
           DEF BlockUntilAllResourcesAdded, AddRasterized, RasterizationFails, TypeOK
      <3>2. CASE ~missing_blob_images
        <4>1. queue # {} /\ rasterized' = rasterized
          BY <1>6, <1>r, <2>1, <2>2, <3>2
             DEF BlockUntilAllResourcesAdded, NothingRasterized, RequestsOK
        <4> QED
          BY <1>r, <4>1 DEF QueueOK
      <3> QED
        BY <3>1, <3>2
    <2> QED
      BY <1>r, <2>1, <2>2 DEF RequestsOK, Present
  <1>7. ASSUME NEW r \in Renderings, UpdateTextureCache(r) PROVE RequestsOK'
    <2>1. /\ state = "QueryResources" /\ pending_image_requests' = pending_image_requests \ {r}
          /\ r \in pending_image_requests /\ UNCHANGED clientVars
          /\ UNCHANGED <<image_template, rasterized, missing_blob_images, requested, failures>>
          /\ state' = state \/ (kind = "blob" /\ ~rasterized /\ state' = "Panic")
      BY <1>7, Uploads
    <2>2. \A s \in Renderings : Present(s)' = Present(s)
      BY <1>7, Uploads DEF Present
    <2>3. requested \subseteq Renderings
      BY DEF TypeOK
    <2> QED
      BY <1>r, <2>1, <2>2, <2>3 DEF RequestsOK, clientVars
  <1>8. CASE EndFrame
    BY <1>8, <1>r DEF EndFrame, RequestsOK, clientVars, blobVars
  <1>9. CASE UNCHANGED vars
    BY <1>9, <1>r DEF vars, clientVars, blobVars, frameVars, RequestsOK, Present
  <1> QED
    BY <1>1, <1>2, <1>3, <1>4, <1>5, <1>6, <1>7, <1>8, <1>9 DEF Next

-----------------------------------------------------------------------------
(* A part is rasterized only when the entry of AutoRendering has the rest. *)
LEMMA PartialSent ==
  ASSUME TypeOK, NEW t, transactions' = Append(transactions, t),
         kind' = kind \/ transactions = <<>>, Partial = {},
         t.op = "delete" \/ t.request = Pixels
  PROVE  Partial' = {}
  <1>1. /\ Len(transactions) \in Nat /\ Len(transactions') = Len(transactions) + 1
        /\ transactions'[Len(transactions) + 1] = t
        /\ \A i \in 1..Len(transactions) : transactions'[i] = transactions[i]
        /\ transactions = <<>> => Len(transactions) = 0
        /\ \A i \in 1..(Len(transactions) + 1) :
             i \in 1..Len(transactions) \/ i = Len(transactions) + 1
    BY DEF TypeOK
  <1> QED
    BY <1>1 DEF Partial

LEMMA PartialTaken ==
  ASSUME TypeOK, transactions # <<>>, transactions' = Tail(transactions), kind' = kind,
         Partial = {}
  PROVE  /\ Partial' = {}
         /\ kind = "blob" /\ Head(transactions).op # "delete" => Head(transactions).request = Pixels
  <1>1. \A i \in 1..Len(transactions') : /\ i + 1 \in 1..Len(transactions)
                                         /\ transactions'[i] = transactions[i + 1]
    BY HeadTypes
  <1>2. 1 \in 1..Len(transactions) /\ Head(transactions) = transactions[1]
    BY HeadTypes
  <1> QED
    BY <1>1, <1>2 DEF Partial

LEMMA SamePartial ==
  ASSUME UNCHANGED clientVars
  PROVE  Partial' = Partial
  BY DEF Partial, clientVars

LEMMA WholeTaken ==
  ASSUME TypeOK, BookInv, WholeIfUnallocated, TakeAdd \/ TakeUpdate,
         NeedsUpload(AutoRendering)' => NeedsUpload(AutoRendering)
  PROVE  WholeIfUnallocated'
  <1> SUFFICES ASSUME kind = "blob", ~torn, NeedsUpload(AutoRendering)
               PROVE  Partial' = {} /\ \A i \in queue' : i.rect = Pixels
    BY TakeTypes DEF TakeAdd, TakeUpdate, WholeIfUnallocated
  <1>1. /\ transactions # <<>> /\ transactions' = Tail(transactions) /\ kind' = kind
        /\ Head(transactions).op # "delete" /\ TakeBlob(Head(transactions))
    BY TakeTypes DEF TakeAdd, TakeUpdate
  <1>2. /\ Partial' = {} /\ Head(transactions).request = Pixels
        /\ \A i \in queue : i.rect = Pixels
    BY <1>1, PartialTaken DEF WholeIfUnallocated
  <1>3. CASE AddRasterized(Head(transactions).request, Head(transactions).content)
    <2>1. PICK i \in RasterizedBlobImage :
            i.rect = Pixels /\ queue' = Kept(Pixels) \cup {i}
      BY <1>1, <1>2, <1>3, ImageAdded, HeadTypes DEF BookInv
    <2> QED
      BY <1>2, <2>1, KeptFacts, RectFacts DEF BookInv
  <1>4. CASE queue' = queue
    BY <1>2, <1>4
  <1> QED
    BY <1>1, <1>2, <1>3, <1>4 DEF TakeBlob, RasterizationFails, NothingRasterized, blobVars

(* What is uploaded has a texture.                                         *)
LEMMA UploadAllocates ==
  ASSUME TypeOK, BookInv, NEW r \in Renderings, UpdateTextureCache(r)
  PROVE  \/ cached_images' = cached_images
         \/ ~NeedsUpload(r)' /\ cached_images'[r].dirty_rect = {}
  <1>1. image_template \in Contents /\ Pixels # {}
    <2>1. image_template # Nothing /\ image_template \in Contents
      BY DEF UpdateTextureCache, BookInv, EntriesOK, RequestsOK, TypeOK
    <2> QED
      BY <2>1, NotNothing DEF Contents
  <1>2. ASSUME NEW texture \in Texture, SetHandle(r, texture)
        PROVE  ~NeedsUpload(r)' /\ cached_images'[r].dirty_rect = {}
    <2>1. cached_images'[r] = [present |-> Present(r), handle |-> texture, dirty_rect |-> {}]
      BY <1>2, SetHandleTypes DEF EntryTexture
    <2>2. texture # Unallocated
      BY <1>1, <1>2, NotUnallocated DEF Texture
    <2> QED
      BY <2>1, <2>2 DEF NeedsUpload
  <1>3. CASE UploadRaw(r)
    <2> DEFINE rect == IF NeedsUpload(r) THEN Pixels ELSE cached_images[r].dirty_rect
    <2>1. rect \in Rects
      BY ImageEntryTypes, RectFacts
    <2>2. Uploaded(cached_images[r].handle, rect, image_template) \in Texture
      BY <1>1, <2>1, ImageEntryTypes, UploadedType
    <2> QED
      BY <1>2, <1>3, <2>2 DEF UploadRaw
  <1>4. CASE UploadBlob(r)
    <2>1. Drained(cached_images[r].handle) \in Texture
      BY ImageEntryTypes, DrainedType DEF BookInv
    <2> QED
      BY <1>2, <1>4, <2>1 DEF UploadBlob
  <1>5. CASE UploadFails
    BY <1>5 DEF UploadFails
  <1> QED
    BY <1>3, <1>4, <1>5 DEF UpdateTextureCache

LEMMA WholeStep ==
  ASSUME TypeOK, BookInv, WholeIfUnallocated, [Next]_vars
  PROVE  WholeIfUnallocated'
  <1>1. CASE \E k \in {"raw", "blob"} : Add(k)
    <2>1. /\ transactions = <<>> /\ queue' = {}
          /\ \E t : t.request = Pixels /\ transactions' = Append(transactions, t)
      BY <1>1 DEF Add, Send, BookInv, TransactionsLead, QueueOK, blobVars
    <2>2. Partial = {}
      BY <2>1 DEF Partial
    <2> QED
      BY <2>1, <2>2, PartialSent DEF WholeIfUnallocated
  <1>2. ASSUME NEW dirty \in Rects, Update(dirty) PROVE WholeIfUnallocated'
    <2>1. /\ kind' = kind /\ cached_images' = cached_images /\ queue' = queue /\ torn' = torn
          /\ \E t : t.request = RequestRect(dirty) /\ transactions' = Append(transactions, t)
      BY <1>2 DEF Update, Send, blobVars
    <2>2. NeedsUpload(AutoRendering) => RequestRect(dirty) = Pixels
      BY DEF RequestRect
    <2> QED
      BY <2>1, <2>2, PartialSent DEF WholeIfUnallocated, NeedsUpload
  <1>3. CASE Delete
    <2>1. /\ kind' = kind /\ cached_images' = cached_images /\ queue' = queue /\ torn' = torn
          /\ \E t : t.op = "delete" /\ transactions' = Append(transactions, t)
      BY <1>3 DEF Delete, Send, blobVars
    <2> QED
      BY <2>1, PartialSent DEF WholeIfUnallocated, NeedsUpload
  <1>4. CASE TakeAdd
    BY <1>4, WholeTaken DEF TakeAdd, NeedsUpload
  <1>5. CASE TakeUpdate
    <2>1. NeedsUpload(AutoRendering)' => NeedsUpload(AutoRendering)
      BY <1>5, TakenEntries, Sizes DEF NeedsUpload, BookInv, EntriesOK, NoEntry
    <2> QED
      BY <1>5, <2>1, WholeTaken
  <1>6. CASE TakeDelete
    <2>1. /\ transactions # <<>> /\ transactions' = Tail(transactions)
          /\ Head(transactions).op = "delete"
      BY <1>6, TakeTypes DEF TakeDelete
    <2>2. LeadsOn(1) /\ transactions[1].op = "delete"
      BY <2>1, HeadTypes DEF BookInv, TransactionsLead
    <2>3. Len(transactions') = 0
      BY <2>1, <2>2, HeadTypes DEF LeadsOn
    <2>4. Partial' = {} /\ queue' = {}
      BY <1>6, <2>3 DEF Partial, TakeDelete
    <2> QED
      BY <2>4 DEF WholeIfUnallocated
  <1>7. CASE BeginFrame \/ EndFrame
    BY <1>7, SamePartial
       DEF BeginFrame, EndFrame, WholeIfUnallocated, NeedsUpload, blobVars, clientVars
  <1>8. CASE BlockUntilAllResourcesAdded
    <2>1. /\ Partial' = Partial /\ kind' = kind /\ torn' = torn
          /\ NeedsUpload(AutoRendering)' = NeedsUpload(AutoRendering)
      BY <1>8, SamePartial DEF BlockUntilAllResourcesAdded, clientVars, NeedsUpload
    <2>2. \/ queue' = queue
          \/ rasterizer \in Contents /\ AddRasterized(Pixels, rasterizer)
      BY <1>8 DEF BlockUntilAllResourcesAdded, RasterizationFails, NothingRasterized,
                  BookInv, RequestsOK, EntriesOK, TypeOK
    <2>3. ASSUME rasterizer \in Contents, AddRasterized(Pixels, rasterizer)
          PROVE  \A i \in queue' : i.rect = Pixels
      <3>1. PICK i \in RasterizedBlobImage : i.rect = Pixels /\ queue' = Kept(Pixels) \cup {i}
        BY <2>3, ImageAdded, RectFacts DEF BookInv
      <3>2. Kept(Pixels) = {}
        BY KeptFacts, RectFacts DEF BookInv
      <3> QED
        BY <3>1, <3>2
    <2> QED
      BY <2>1, <2>2, <2>3 DEF WholeIfUnallocated
  <1>9. ASSUME NEW r \in Renderings, RequestImage(r) PROVE WholeIfUnallocated'
    <2>1. /\ Partial' = Partial /\ kind' = kind /\ torn' = torn /\ queue' = queue
      BY <1>9, SamePartial DEF RequestImage, clientVars, blobVars
    <2>2. cached_images'[AutoRendering].handle = cached_images[AutoRendering].handle
      BY <1>9, Requests, Sizes DEF BookInv
    <2> QED
      BY <2>1, <2>2 DEF WholeIfUnallocated, NeedsUpload
  <1>10. ASSUME NEW r \in Renderings, UpdateTextureCache(r) PROVE WholeIfUnallocated'
    <2>1. /\ Partial' = Partial /\ kind' = kind /\ torn' = torn /\ (queue' = queue \/ queue' = {})
      BY <1>10, Uploads, SamePartial DEF clientVars
    <2>2. NeedsUpload(AutoRendering)' => NeedsUpload(AutoRendering)
      <3>1. CASE cached_images'[AutoRendering] = cached_images[AutoRendering]
        BY <3>1 DEF NeedsUpload
      <3>2. CASE r = AutoRendering /\ cached_images' # cached_images
        BY <1>10, <3>2, UploadAllocates DEF NeedsUpload
      <3> QED
        BY <1>10, <3>1, <3>2, Uploads, Sizes
    <2> QED
      BY <2>1, <2>2 DEF WholeIfUnallocated
  <1>11. ASSUME NEW r \in Renderings, Evict(r) PROVE WholeIfUnallocated'
    BY <1>11 DEF Evict, WholeIfUnallocated, clientVars
  <1>12. CASE ReclaimSharedMemory
    BY <1>12, SamePartial DEF ReclaimSharedMemory, WholeIfUnallocated, clientVars, blobVars
  <1>13. CASE MemoryPressure
    BY <1>13, SamePartial DEF MemoryPressure, WholeIfUnallocated, clientVars
  <1>14. CASE UNCHANGED vars
    BY <1>14, SamePartial DEF vars, clientVars, blobVars, WholeIfUnallocated, NeedsUpload
  <1> QED
    BY <1>1, <1>2, <1>3, <1>4, <1>5, <1>6, <1>7, <1>8, <1>9, <1>10, <1>11, <1>12, <1>13, <1>14
       DEF Next

-----------------------------------------------------------------------------
(* Each pixel is current where an entry or the queue says so.              *)
LEMMA OverPrimed ==
  ASSUME NEW CONSTANT p
  PROVE  Over(p)' = {i \in queue' : p \in i.rect}
  BY DEF Over

LEMMA CurrentAdded ==
  ASSUME TypeOK, QueueOK, QueueIsCurrent, NEW rect \in Rects, NEW content \in Contents,
         AddRasterized(rect, content), image_template' = content,
         image_template # Nothing => \A p \in Pixels \ rect : content[p] = image_template[p]
  PROVE  /\ QueueIsCurrent'
         /\ \A p \in Pixels : Over(p)' = {} => p \notin rect /\ Over(p) = {}
  <1>1. PICK k \in RasterizedBlobImage :
          /\ k.rect = rect /\ k.content = content /\ queue' = Kept(rect) \cup {k}
          /\ \A j \in Kept(rect) : j.n < k.n
    <2>1. \E i \in RasterizedBlobImage :
            /\ i.rect = rect /\ i.content = content
            /\ queue' = Kept(rect) \cup {i} /\ rasterized' = TRUE /\ arrived' = i.n + 1
            /\ \A j \in Kept(rect) : j.n < i.n
      BY ONLY TypeOK, QueueOK, rect \in Rects, content \in Contents,
              AddRasterized(rect, content), ImageAdded
    <2> QED
      BY <2>1, Zenon
  <1>2. \A i \in Kept(rect) : i \in queue /\ i.n \in Nat
    BY QueueTypes DEF Kept
  <1>3. \A i \in queue, p \in Pixels : p \in i.rect /\ p \notin rect => i \in Kept(rect)
    BY DEF Kept
  <1>4. ASSUME NEW p \in Pixels, NEW i \in queue', p \in i.rect, \A j \in Over(p)' : j.n <= i.n
        PROVE  image_template' # Nothing /\ i.content[p] = image_template'[p]
    <2>1. image_template' # Nothing
      BY <1>4, NotNothing DEF Contents
    <2>2. CASE p \in rect
      <3>1. k \in Over(p)' /\ k.n \in Nat
        BY <1>1, <2>2, OverPrimed DEF RasterizedBlobImage
      <3>2. i = k
        BY <1>1, <1>2, <1>4, <3>1
      <3> QED
        BY <1>1, <2>1, <3>2
    <2>3. CASE p \notin rect
      <3>1. i \in queue /\ i \in Kept(rect)
        BY <1>1, <1>2, <1>4, <2>3
      <3>2. \A j \in Over(p) : j \in Over(p)'
        BY <1>1, <1>3, <2>3, OverPrimed DEF Over
      <3>3. image_template # Nothing /\ i.content[p] = image_template[p]
        BY <1>4, <3>1, <3>2 DEF QueueIsCurrent
      <3> QED
        BY <2>1, <2>3, <3>3
    <2> QED
      BY <2>2, <2>3
  <1>5. ASSUME NEW p \in Pixels, Over(p)' = {} PROVE p \notin rect /\ Over(p) = {}
    BY <1>1, <1>3, <1>5, OverPrimed DEF Over
  <1> QED
    BY <1>4, <1>5 DEF QueueIsCurrent

ImageIsCurrent == QueueIsCurrent /\ FrameIsCurrent /\ \A r \in Renderings : EntryIsCurrent(r)

LEMMA SameCurrent ==
  ASSUME ImageIsCurrent, image_template' = image_template, queue' = queue,
         cached_images' = cached_images, kind' = kind \/ image_template = Nothing,
         \A r \in Renderings : Present(r) => image_template # Nothing
  PROVE  QueueIsCurrent' /\ \A r \in Renderings : EntryIsCurrent(r)'
  <1>1. QueueIsCurrent'
    BY DEF ImageIsCurrent, QueueIsCurrent, Over
  <1>2. ASSUME NEW r \in Renderings PROVE EntryIsCurrent(r)'
    BY DEF ImageIsCurrent, EntryIsCurrent, Over, Present, NeedsUpload
  <1> QED
    BY <1>1, <1>2

(* Without entries and a queue there is nothing to be wrong.               *)
LEMMA NothingWrong ==
  ASSUME queue' = {}, cached_images' = [r \in Renderings |-> NoEntry], state' = "Idle"
  PROVE  ImageIsCurrent'
  <1>1. QueueIsCurrent' /\ FrameIsCurrent'
    BY DEF QueueIsCurrent, FrameIsCurrent
  <1>2. ASSUME NEW r \in Renderings PROVE EntryIsCurrent(r)'
    BY DEF EntryIsCurrent, Present, NoEntry
  <1> QED
    BY <1>1, <1>2 DEF ImageIsCurrent

(* An update that arrives leaves what is not dirty current.                *)
LEMMA TakenCurrent ==
  ASSUME TypeOK, BookInv, TakeAdd \/ TakeUpdate, NEW r \in Renderings, EntryIsCurrent(r),
         kind' = kind, image_template' = Head(transactions).content,
         image_template # Nothing =>
           /\ TakeUpdate /\ Head(transactions).dirty \subseteq Head(transactions).request
           /\ \A p \in Pixels \ Head(transactions).dirty :
                Head(transactions).content[p] = image_template[p],
         kind = "blob" =>
           \A p \in Pixels : Over(p)' = {} => p \notin Head(transactions).request /\ Over(p) = {}
  PROVE  EntryIsCurrent(r)'
  <1> DEFINE t == Head(transactions)
  <1> SUFFICES ASSUME Present(r)', ~NeedsUpload(r)', NEW p \in Pixels
               PROVE  LET e == cached_images'[r]
                      IN /\ p \notin e.dirty_rect => e.handle[p] = image_template'[p]
                         /\ kind' = "blob" /\ Over(p)' = {} => e.handle[p] = image_template'[p]
    BY DEF EntryIsCurrent
  <1>1. Present(r)
    BY TakenEntries DEF TakeAdd, Present
  <1>2. image_template # Nothing /\ TakeUpdate
    BY <1>1 DEF BookInv, EntriesOK
  <1>3. /\ cached_images'[r].handle = cached_images[r].handle
        /\ cached_images'[r].dirty_rect = Hull(cached_images[r].dirty_rect, t.dirty)
    BY <1>1, <1>2, TakenEntries
  <1>4. ~NeedsUpload(r)
    BY <1>3 DEF NeedsUpload
  <1>5. t.dirty \in Rects /\ cached_images[r].dirty_rect \in Rects
    BY <1>2, TakeTypes, HeadTypes, ImageEntryTypes DEF TakeUpdate
  <1>6. /\ cached_images[r].dirty_rect \subseteq cached_images'[r].dirty_rect
        /\ t.dirty \subseteq cached_images'[r].dirty_rect
    BY <1>3, <1>5, HullIsRect
  <1>7. /\ p \notin cached_images[r].dirty_rect => cached_images[r].handle[p] = image_template[p]
        /\ kind = "blob" /\ Over(p) = {} => cached_images[r].handle[p] = image_template[p]
    BY <1>1, <1>4 DEF EntryIsCurrent
  <1>8. p \notin t.dirty => image_template'[p] = image_template[p]
    BY <1>2
  <1>9. kind = "blob" /\ Over(p)' = {} => p \notin t.dirty /\ Over(p) = {}
    BY <1>2
  <1> QED
    BY <1>3, <1>6, <1>7, <1>8, <1>9

LEMMA CurrentTaken ==
  ASSUME TypeOK, BookInv, TakeAdd \/ TakeUpdate, Sound', ImageIsCurrent
  PROVE  ImageIsCurrent'
  <1> DEFINE t == Head(transactions)
  <1>1. /\ transactions # <<>> /\ t = transactions[1] /\ 1 \in DOMAIN transactions
        /\ t.request \in Rects /\ t.content \in Contents /\ t.dirty \in Rects
        /\ kind' = kind /\ state = "Idle" /\ state' = state
        /\ image_template' = t.content /\ TakeBlob(t)
        /\ pending_image_requests' = pending_image_requests /\ requested' = requested
    BY HeadTypes, TakeTypes DEF TakeAdd, TakeUpdate, Take
  <1>2. ASSUME image_template # Nothing
        PROVE  /\ TakeUpdate /\ t.dirty \subseteq t.request
               /\ \A p \in Pixels \ t.dirty : t.content[p] = image_template[p]
    <2>1. TakeUpdate /\ t.op = "update"
      BY <1>1, <1>2, TakeTypes DEF TakeAdd, TakeUpdate, BookInv, EntriesOK
    <2>2. LeadsOn(1)
      BY <1>1 DEF BookInv, TransactionsLead
    <2> QED
      BY <1>1, <2>1, <2>2 DEF LeadsOn, ContentBefore
  <1>3. FrameIsCurrent'
    BY <1>1 DEF FrameIsCurrent
  <1>4. CASE kind = "raw" /\ UNCHANGED <<blobVars, failures>>
    <2>1. QueueIsCurrent'
      BY <1>4 DEF BookInv, QueueOK, QueueIsCurrent, blobVars
    <2>2. ASSUME NEW r \in Renderings PROVE EntryIsCurrent(r)'
      BY <1>1, <1>2, <1>4, TakenCurrent DEF ImageIsCurrent
    <2> QED
      BY <1>3, <2>1, <2>2 DEF ImageIsCurrent
  <1>5. CASE kind = "blob" /\ AddRasterized(t.request, t.content)
    <2>1. image_template # Nothing => \A p \in Pixels \ t.request : t.content[p] = image_template[p]
      BY <1>2
    <2>2. /\ QueueIsCurrent'
          /\ \A p \in Pixels : Over(p)' = {} => p \notin t.request /\ Over(p) = {}
      BY <1>1, <1>5, <2>1, CurrentAdded DEF BookInv, ImageIsCurrent
    <2>3. ASSUME NEW r \in Renderings PROVE EntryIsCurrent(r)'
      BY <1>1, <1>2, <1>5, <2>2, TakenCurrent DEF ImageIsCurrent
    <2> QED
      BY <1>3, <2>2, <2>3 DEF ImageIsCurrent
  <1>6. CASE kind = "blob" /\ RasterizationFails
    <2>1. failures' # 0
      BY <1>6 DEF RasterizationFails, TypeOK
    <2> QED
      BY <1>1, <1>6, <2>1 DEF Sound
  <1> QED
    BY <1>1, <1>4, <1>5, <1>6 DEF TakeBlob

-----------------------------------------------------------------------------
(* The steps of a frame.                                                   *)
LEMMA CurrentRequested ==
  ASSUME TypeOK, BookInv, NEW r \in Renderings, RequestImage(r), ImageIsCurrent
  PROVE  ImageIsCurrent'
  <1>1. /\ state = "AddResources" /\ state' = state /\ UNCHANGED clientVars
        /\ image_template' = image_template /\ queue' = queue
        /\ requested' = requested \cup {r}
    BY DEF RequestImage, blobVars
  <1>2. /\ \A s \in Renderings \ {r} : cached_images'[s] = cached_images[s]
        /\ cached_images'[r] = Entry(r) /\ Entry(r).handle = cached_images[r].handle
        /\ Present(r) => cached_images'[r] = cached_images[r]
    BY Requests DEF BookInv
  <1>3. QueueIsCurrent'
    BY <1>1 DEF ImageIsCurrent, QueueIsCurrent, Over
  <1>4. ASSUME NEW s \in Renderings PROVE EntryIsCurrent(s)'
    <2>1. CASE cached_images'[s] = cached_images[s]
      BY <1>1, <2>1 DEF ImageIsCurrent, EntryIsCurrent, Present, NeedsUpload, Over, clientVars
    <2>2. CASE s = r /\ ~Present(r)
      <3>1. NeedsUpload(r)'
        BY <1>2, <2>2 DEF NeedsUpload, Entry, NewEntry
      <3> QED
        BY <2>2, <3>1 DEF EntryIsCurrent
    <2> QED
      BY <1>2, <2>1, <2>2
  <1>5. FrameIsCurrent'
    <2>1. ASSUME NEW s \in requested' \ pending_image_requests'
          PROVE  ~NeedsUpload(s)' /\ cached_images'[s].dirty_rect = {}
      <3>1. s \in Renderings
        BY <1>1, <2>1 DEF TypeOK
      <3>2. CASE s # r
        <4>1. s \in requested \ pending_image_requests
          BY <1>1, <2>1, <3>2 DEF RequestImage
        <4> QED
          BY <1>1, <1>2, <3>1, <3>2, <4>1 DEF ImageIsCurrent, FrameIsCurrent, NeedsUpload
      <3>3. CASE s = r
        <4>1. ~(NeedsUpload(r) \/ Entry(r).dirty_rect # {})
          BY <2>1, <3>3 DEF RequestImage
        <4> QED
          BY <1>2, <3>3, <4>1 DEF NeedsUpload
      <3> QED
        BY <3>2, <3>3
    <2> QED
      BY <1>1, <2>1 DEF FrameIsCurrent
  <1> QED
    BY <1>3, <1>4, <1>5 DEF ImageIsCurrent

LEMMA CurrentBlocked ==
  ASSUME TypeOK, BookInv, BlockUntilAllResourcesAdded, Sound', ImageIsCurrent
  PROVE  ImageIsCurrent'
  <1>1. /\ state = "AddResources" /\ state' = "QueryResources" /\ kind' = kind
        /\ UNCHANGED <<image_template, cached_images, pending_image_requests, requested>>
    BY DEF BlockUntilAllResourcesAdded, clientVars
  <1>2. requested \subseteq Renderings
    BY DEF TypeOK
  <1>3. \A s \in requested' \ pending_image_requests' :
          ~NeedsUpload(s)' /\ cached_images'[s].dirty_rect = {}
    BY <1>1 DEF ImageIsCurrent, FrameIsCurrent, NeedsUpload
  <1>4. CASE missing_blob_images /\ AddRasterized(Pixels, rasterizer)
    <2>1. rasterizer \in Contents /\ image_template' = rasterizer
      BY <1>1, <1>4 DEF BookInv, RequestsOK, EntriesOK, TypeOK
    <2>2. /\ QueueIsCurrent'
          /\ \A p \in Pixels : Over(p)' # {}
      BY <2>1, <1>4, CurrentAdded, RectFacts DEF BookInv, ImageIsCurrent
    <2>3. ASSUME NEW s \in Renderings PROVE EntryIsCurrent(s)'
      BY <1>1, <2>2 DEF ImageIsCurrent, EntryIsCurrent, Present, NeedsUpload
    <2>4. queue' # {}
      BY <1>4, <2>1, ImageAdded, RectFacts DEF BookInv
    <2> QED
      BY <1>1, <1>3, <2>2, <2>3, <2>4 DEF ImageIsCurrent, FrameIsCurrent
  <1>5. CASE missing_blob_images /\ RasterizationFails
    <2>1. failures' # 0 /\ kind' = "blob"
      BY <1>1, <1>5 DEF RasterizationFails, TypeOK, BookInv, RequestsOK
    <2> QED
      BY <2>1 DEF Sound
  <1>6. CASE ~missing_blob_images /\ NothingRasterized
    <2>1. queue' = queue /\ kind = "blob" /\ pending_image_requests # {} => queue # {}
      BY <1>1, <1>6 DEF NothingRasterized, BookInv, RequestsOK
    <2>2. queue' = queue
      BY <1>6 DEF NothingRasterized
    <2>3. QueueIsCurrent' /\ \A s \in Renderings : EntryIsCurrent(s)'
      BY <1>1, <2>2, SameCurrent DEF BookInv, EntriesOK
    <2> QED
      BY <1>1, <1>3, <2>1, <2>2, <2>3 DEF ImageIsCurrent, FrameIsCurrent
  <1> QED
    BY <1>4, <1>5, <1>6 DEF BlockUntilAllResourcesAdded

(* What is uploaded for an image is all of it, and current.                *)
LEMMA UploadIsCurrent ==
  ASSUME TypeOK, BookInv, WholeIfUnallocated, NEW r \in Renderings, UpdateTextureCache(r),
         Sound, ImageIsCurrent
  PROVE  /\ cached_images'[r].handle = image_template
         /\ cached_images'[r].dirty_rect = {} /\ ~NeedsUpload(r)'
         /\ kind = "raw" \/ (kind = "blob" /\ queue' = {})
         /\ state' = state
  <1>1. /\ r \in pending_image_requests /\ state = "QueryResources"
        /\ Present(r) /\ image_template \in Contents
    BY DEF UpdateTextureCache, BookInv, RequestsOK, EntriesOK, TypeOK
  <1>2. image_template # Unallocated
    BY <1>1, NotUnallocated, NotNothing DEF Contents, BookInv, EntriesOK
  <1>3. ASSUME SetHandle(r, image_template)
        PROVE  /\ cached_images'[r].handle = image_template
               /\ cached_images'[r].dirty_rect = {} /\ ~NeedsUpload(r)'
    <2>1. image_template \in EntryTexture
      BY <1>1 DEF EntryTexture, Contents, Texture
    <2>2. cached_images'[r] =
            [present |-> Present(r), handle |-> image_template, dirty_rect |-> {}]
      BY <1>3, <2>1, SetHandleTypes
    <2> QED
      BY <1>2, <2>2 DEF NeedsUpload
  <1>4. CASE UploadRaw(r)
    <2> DEFINE rect == IF NeedsUpload(r) THEN Pixels ELSE cached_images[r].dirty_rect
               texture == cached_images[r].handle
    <2>1. ASSUME NEW p \in Pixels, p \notin rect
          PROVE  texture # Unallocated /\ texture[p] = image_template[p]
      BY <1>1, <2>1 DEF ImageIsCurrent, EntryIsCurrent, NeedsUpload
    <2>2. Uploaded(texture, rect, image_template) = image_template
      <3> HIDE DEF rect, texture
      <3> QED
        BY <1>1, <2>1 DEF Uploaded, Contents
    <2> QED
      BY <1>3, <1>4, <2>2 DEF UploadRaw
  <1>5. CASE UploadBlob(r)
    <2>1. queue # {} /\ kind = "blob"
      BY <1>1, <1>5 DEF UploadBlob, ImageIsCurrent, FrameIsCurrent
    <2>2. ASSUME NeedsUpload(r) PROVE \A i \in queue : i.rect = Pixels
      <3>1. NeedsUpload(AutoRendering)
        <4>1. r # AutoRendering => ~Present(AutoRendering)
          BY <1>1, <2>1, Sizes DEF Sound
        <4> QED
          BY <2>2, <4>1, Sizes DEF BookInv, EntriesOK, NeedsUpload, NoEntry
      <3> QED
        BY <2>1, <3>1 DEF WholeIfUnallocated, Sound
    <2>3. ~NeedsUpload(r) =>
            \A p \in Pixels : Over(p) = {} => cached_images[r].handle[p] = image_template[p]
      BY <1>1, <2>1 DEF ImageIsCurrent, EntryIsCurrent
    <2>4. Drained(cached_images[r].handle) = image_template
      BY <1>1, <2>1, <2>2, <2>3, ImageEntryTypes, DrainedIsCurrent DEF BookInv, ImageIsCurrent, NeedsUpload
    <2> QED
      BY <1>3, <1>5, <2>1, <2>4 DEF UploadBlob
  <1>6. CASE UploadFails
    BY <1>1, <1>6 DEF UploadFails, BookInv, RequestsOK, Sound
  <1>7. kind = "raw" => state' = state
    BY Uploads
  <1> QED
    BY <1>4, <1>5, <1>6, <1>3 DEF UpdateTextureCache, UploadRaw, UploadBlob

LEMMA CurrentUploaded ==
  ASSUME TypeOK, BookInv, WholeIfUnallocated, NEW r \in Renderings, UpdateTextureCache(r),
         Sound, ImageIsCurrent
  PROVE  ImageIsCurrent'
  <1>1. /\ r \in pending_image_requests /\ pending_image_requests' = pending_image_requests \ {r}
        /\ state = "QueryResources" /\ UNCHANGED clientVars
        /\ UNCHANGED <<image_template, requested>>
        /\ \A s \in Renderings \ {r} : cached_images'[s] = cached_images[s]
        /\ Present(r)' = Present(r)
        /\ queue' = queue \/ (kind = "blob" /\ queue' = {})
    BY Uploads
  <1>2. /\ cached_images'[r].handle = image_template
        /\ cached_images'[r].dirty_rect = {} /\ ~NeedsUpload(r)'
        /\ kind = "raw" \/ (kind = "blob" /\ queue' = {})
        /\ state' = state
    BY UploadIsCurrent
  <1>3. Present(r) /\ requested \subseteq Renderings /\ pending_image_requests \subseteq requested
        /\ \A s \in requested : Present(s)
    BY <1>1 DEF BookInv, RequestsOK, TypeOK
  <1>4. kind = "blob" => \A s \in Renderings : Present(s) => s = r
    BY <1>3 DEF Sound
  <1>5. QueueIsCurrent'
    BY <1>1 DEF ImageIsCurrent, QueueIsCurrent, Over
  <1>6. ASSUME NEW s \in Renderings PROVE EntryIsCurrent(s)'
    <2>1. CASE s = r
      BY <1>1, <1>2, <2>1 DEF EntryIsCurrent
    <2>2. CASE s # r
      <3>1. cached_images'[s] = cached_images[s]
        BY <1>1, <2>2
      <3>2. CASE kind = "blob"
        BY <1>4, <2>2, <3>1, <3>2 DEF EntryIsCurrent, Present
      <3>3. CASE kind = "raw"
        BY <1>1, <3>1, <3>3 DEF ImageIsCurrent, EntryIsCurrent, Present, NeedsUpload, clientVars
      <3> QED
        BY <1>2, <3>2, <3>3
    <2> QED
      BY <2>1, <2>2
  <1>7. FrameIsCurrent'
    <2>1. ASSUME NEW s \in requested' \ pending_image_requests'
          PROVE  ~NeedsUpload(s)' /\ cached_images'[s].dirty_rect = {}
      <3>1. CASE s = r
        BY <1>2, <3>1
      <3>2. CASE s # r
        BY <1>1, <1>3, <2>1, <3>2 DEF ImageIsCurrent, FrameIsCurrent, NeedsUpload
      <3> QED
        BY <3>1, <3>2
    <2>2. kind = "blob" => pending_image_requests' = {}
      BY <1>1, <1>3, <1>4
    <2> QED
      BY <1>1, <2>1, <2>2 DEF FrameIsCurrent, clientVars
  <1> QED
    BY <1>5, <1>6, <1>7 DEF ImageIsCurrent

-----------------------------------------------------------------------------
(* The steps of all.                                                       *)
LEMMA DrawStep ==
  ASSUME TypeOK, BookInv, DrawInv, [Next]_vars
  PROVE  DrawInv'
  <1>1. WholeIfUnallocated /\ (Sound => ImageIsCurrent)
    BY DEF DrawInv, ImageIsCurrent
  <1>2. WholeIfUnallocated'
    BY <1>1, WholeStep
  <1> SUFFICES ASSUME Sound' PROVE ImageIsCurrent'
    BY <1>2 DEF DrawInv, ImageIsCurrent
  <1>e. EntriesOK
    BY DEF BookInv
  <1>3. CASE \E k \in {"raw", "blob"} : Add(k)
    <2>1. /\ kind = "none" /\ state = "Idle" /\ state' = state
          /\ UNCHANGED <<image_template, queue, cached_images>>
      BY <1>3 DEF Add, Send, blobVars, frameVars
    <2>2. Sound /\ image_template = Nothing
      BY <2>1, <1>e DEF Sound, EntriesOK
    <2>3. FrameIsCurrent'
      BY <2>1 DEF FrameIsCurrent
    <2> QED
      BY <1>1, <1>e, <2>1, <2>2, <2>3, SameCurrent DEF ImageIsCurrent, EntriesOK
  <1>4. CASE Delete \/ \E dirty \in Rects : Update(dirty)
    <2>1. /\ state = "Idle" /\ state' = state /\ kind' = kind
          /\ UNCHANGED <<image_template, queue, cached_images, torn, failures>>
      BY <1>4 DEF Delete, Update, Send, blobVars, frameVars
    <2>2. Sound
      BY <2>1 DEF Sound, Present
    <2>3. FrameIsCurrent'
      BY <2>1 DEF FrameIsCurrent
    <2> QED
      BY <1>1, <1>e, <2>1, <2>2, <2>3, SameCurrent DEF ImageIsCurrent, EntriesOK
  <1>5. CASE TakeAdd \/ TakeUpdate
    <2>1. kind' = kind /\ torn' = torn
      BY <1>5, TakeTypes DEF TakeAdd, TakeUpdate
    <2>2. kind = "blob" /\ failures' = 0 => failures = 0
      BY <1>5 DEF TakeAdd, TakeUpdate, TakeBlob, RasterizationFails, TypeOK
    <2>3. \A r \in Renderings : Present(r)' = Present(r)
      BY <1>5, TakenEntries DEF TakeAdd, Present
    <2>4. Sound
      BY <2>1, <2>2, <2>3 DEF Sound
    <2> QED
      BY <1>1, <1>5, <2>4, CurrentTaken
  <1>6. CASE TakeDelete
    BY <1>6, TakeTypes, NothingWrong DEF TakeDelete, Take
  <1>7. CASE MemoryPressure
    BY <1>7, NothingWrong DEF MemoryPressure, frameVars
  <1>8. CASE BeginFrame \/ EndFrame
    <2>1. /\ kind' = kind /\ UNCHANGED <<image_template, queue, cached_images, torn, failures>>
      BY <1>8 DEF BeginFrame, EndFrame, clientVars, blobVars
    <2>2. Sound
      BY <2>1 DEF Sound, Present
    <2>3. FrameIsCurrent'
      BY <1>8 DEF BeginFrame, EndFrame, FrameIsCurrent
    <2> QED
      BY <1>1, <1>e, <2>1, <2>2, <2>3, SameCurrent DEF ImageIsCurrent, EntriesOK
  <1>9. CASE BlockUntilAllResourcesAdded
    <2>1. /\ kind' = kind /\ UNCHANGED <<cached_images, torn>>
          /\ failures' = 0 => failures = 0
      BY <1>9 DEF BlockUntilAllResourcesAdded, clientVars, RasterizationFails, TypeOK
    <2>2. Sound
      BY <2>1 DEF Sound, Present
    <2> QED
      BY <1>1, <1>9, <2>2, CurrentBlocked
  <1>10. ASSUME NEW r \in Renderings, RequestImage(r) PROVE ImageIsCurrent'
    <2>1. kind' = kind /\ torn' = torn /\ failures' = failures
      BY <1>10 DEF RequestImage, clientVars
    <2>2. \A s \in Renderings : Present(s) => Present(s)'
      BY <1>10, <1>e, Requests DEF Present
    <2>3. Sound
      BY <2>1, <2>2 DEF Sound
    <2> QED
      BY <1>1, <1>10, <2>3, CurrentRequested
  <1>11. ASSUME NEW r \in Renderings, UpdateTextureCache(r) PROVE ImageIsCurrent'
    <2>1. kind' = kind /\ torn' = torn /\ failures' = failures
      BY <1>11, Uploads DEF clientVars
    <2>2. \A s \in Renderings : Present(s)' = Present(s)
      BY <1>11, Uploads DEF Present
    <2>3. Sound
      BY <2>1, <2>2 DEF Sound
    <2> QED
      BY <1>1, <1>11, <2>3, CurrentUploaded
  <1>12. CASE (\E r \in Renderings : Evict(r)) \/ ReclaimSharedMemory
    <2>1. /\ \A r \in Renderings :
               /\ Present(r)' = Present(r)
               /\ cached_images'[r].dirty_rect = cached_images[r].dirty_rect
               /\ NeedsUpload(r)' \/ cached_images'[r] = cached_images[r]
          /\ kind' = kind /\ state = "Idle" /\ state' = state
          /\ UNCHANGED <<image_template, queue, failures>>
      BY <1>12, <1>e, LosesEntries DEF clientVars, blobVars, frameVars
    <2>2. ~torn' => ~torn
      BY <1>12 DEF Evict, ReclaimSharedMemory
    <2>3. Sound
      BY <2>1, <2>2 DEF Sound
    <2>4. QueueIsCurrent' /\ FrameIsCurrent'
      BY <1>1, <2>1, <2>3 DEF ImageIsCurrent, QueueIsCurrent, FrameIsCurrent, Over
    <2>5. ASSUME NEW r \in Renderings PROVE EntryIsCurrent(r)'
      <3>1. CASE NeedsUpload(r)'
        BY <3>1 DEF EntryIsCurrent
      <3>2. CASE cached_images'[r] = cached_images[r]
        BY <1>1, <2>1, <2>3, <3>2 DEF ImageIsCurrent, EntryIsCurrent, Present, NeedsUpload, Over
      <3> QED
        BY <2>1, <3>1, <3>2
    <2> QED
      BY <2>4, <2>5 DEF ImageIsCurrent
  <1>13. CASE UNCHANGED vars
    <2>1. /\ kind' = kind
          /\ UNCHANGED <<image_template, queue, cached_images, torn, failures, state,
                         pending_image_requests, requested>>
      BY <1>13 DEF vars, clientVars, blobVars, frameVars
    <2>2. Sound
      BY <2>1 DEF Sound, Present
    <2>3. FrameIsCurrent'
      BY <1>1, <2>1, <2>2 DEF ImageIsCurrent, FrameIsCurrent, NeedsUpload
    <2> QED
      BY <1>1, <1>e, <2>1, <2>2, <2>3, SameCurrent DEF ImageIsCurrent, EntriesOK
  <1> QED
    BY <1>3, <1>4, <1>5, <1>6, <1>7, <1>8, <1>9, <1>10, <1>11, <1>12, <1>13 DEF Next

LEMMA Start ==
  ASSUME Init
  PROVE  ImageInv
  <1>1. TypeOK
    <2>1. [p \in Pixels |-> 0] \in Contents /\ NoEntry \in EntryType
      BY RectFacts DEF Contents, NoEntry, EntryType, EntryTexture
    <2>2. <<>> \in Seq(TransactionType)
      OBVIOUS
    <2> QED
      BY <2>1, <2>2 DEF Init, TypeOK, EntryType, EntryTexture, TransactionType
  <1>2. BookInv
    BY FS_EmptySet, Sizes DEF Init, BookInv, TransactionsLead, EntriesOK, QueueOK, RequestsOK,
                              Present, NoEntry
  <1>3. DrawInv
    <2>1. queue = {} /\ state = "Idle" /\ transactions = <<>>
          /\ \A r \in Renderings : ~Present(r)
      BY DEF Init, Present, NoEntry
    <2> QED
      BY <2>1 DEF DrawInv, WholeIfUnallocated, QueueIsCurrent, FrameIsCurrent, EntryIsCurrent,
                  Partial
  <1> QED
    BY <1>1, <1>2, <1>3 DEF ImageInv

LEMMA IInvStep ==
  ASSUME ImageInv, [Next]_vars
  PROVE  ImageInv'
  <1>1. TypeOK /\ BookInv /\ DrawInv /\ TransactionsLead /\ EntriesOK
    BY DEF ImageInv, BookInv
  <1>2. TypeOK'
    BY <1>1, TypeStep
  <1>3. BookInv'
    BY <1>1, LeadStep, EntriesStep, QueueStep, RequestsStep DEF BookInv
  <1>4. DrawInv'
    BY <1>1, DrawStep
  <1> QED
    BY <1>2, <1>3, <1>4 DEF ImageInv

LEMMA Holds == Spec => []ImageInv
  BY Start, IInvStep, PTL DEF Spec

(* Two entries of a blob image are more than one.                          *)
LEMMA OneEntry ==
  ASSUME OneCopy, kind = "blob", NEW r \in Renderings, NEW s \in Renderings,
         Present(r), Present(s)
  PROVE  r = s
  <1> DEFINE P == {q \in Renderings : Present(q)}
  <1>1. IsFiniteSet(P)
    BY Sizes, FS_Subset
  <1>2. Cardinality(P) <= 1 /\ {r, s} \in SUBSET P
    BY DEF OneCopy
  <1>3. r # s => Cardinality({r, s}) = 2
    <2>1. IsFiniteSet({r}) /\ Cardinality({r}) = 1
      BY FS_Singleton
    <2>2. {r} \cup {s} = {r, s}
      OBVIOUS
    <2> QED
      BY <2>1, <2>2, FS_AddElement
  <1>4. /\ Cardinality({r, s}) <= Cardinality(P)
        /\ Cardinality(P) \in Nat /\ Cardinality({r, s}) \in Nat
    <2>1. IsFiniteSet({r, s})
      BY <1>1, <1>2, FS_Subset
    <2> QED
      BY <1>1, <1>2, <2>1, FS_Subset, FS_CardinalityType
  <1> QED
    BY <1>2, <1>3, <1>4

(* A frame draws an image as the transactions that have arrived make it,   *)
(* every pixel of it, for any width, updates, uploads of a part, queues of *)
(* rasterized rects, evictions and clears (request_image,                  *)
(* update_texture_cache, add_rasterized_blob_images).                      *)
THEOREM DrawnCurrent == Spec => []DrawnIsCurrent
  <1>1. ASSUME ImageInv PROVE DrawnIsCurrent
    <2> SUFFICES ASSUME OneCopy, ~torn, failures = 0, state = "QueryResources",
                        pending_image_requests = {}, NEW r \in requested
                 PROVE  cached_images[r].handle = image_template
      BY DEF DrawnIsCurrent
    <2>1. Sound
      BY OneEntry DEF Sound
    <2>2. r \in Renderings /\ Present(r) /\ image_template # Nothing
      BY <1>1 DEF ImageInv, TypeOK, BookInv, RequestsOK, EntriesOK
    <2>3. ~NeedsUpload(r) /\ cached_images[r].dirty_rect = {} /\ EntryIsCurrent(r)
      BY <1>1, <2>1, <2>2 DEF ImageInv, DrawInv, FrameIsCurrent
    <2>4. \A p \in Pixels : cached_images[r].handle[p] = image_template[p]
      BY <2>2, <2>3 DEF EntryIsCurrent
    <2>5. cached_images[r].handle \in Texture /\ image_template \in Contents
      BY <1>1, <2>2, <2>3, ImageEntryTypes DEF ImageInv, NeedsUpload, TypeOK
    <2> QED
      BY <2>4, <2>5 DEF Texture, Contents
  <1> QED
    BY <1>1, Holds, PTL

-----------------------------------------------------------------------------
(* The length of the queue.                                                *)
LEMMA UpToSize ==
  ASSUME NEW n \in Nat
  PROVE  IsFiniteSet(1..n) /\ Cardinality(1..n) = n
  <1> PICK a \in Int : a = 1
    OBVIOUS
  <1>1. IsFiniteSet(a..n) /\ Cardinality(a..n) = IF a > n THEN 0 ELSE n - a + 1
    BY FS_Interval
  <1> QED
    BY <1>1

LEMMA PartialSize ==
  ASSUME TypeOK, TransactionsLead
  PROVE  /\ IsFiniteSet(Partial) /\ Cardinality(Partial) \in Nat
         /\ Cardinality(Partial) <= MaxInFlight
  <1>1. Len(transactions) \in Nat /\ Len(transactions) <= MaxInFlight
    BY DEF TypeOK, TransactionsLead
  <1>2. /\ IsFiniteSet(1..Len(transactions)) /\ Partial \in SUBSET (1..Len(transactions))
        /\ Cardinality(1..Len(transactions)) = Len(transactions)
    <2> PICK n \in Nat : n = Len(transactions)
      BY <1>1
    <2>1. IsFiniteSet(1..n) /\ Cardinality(1..n) = n
      BY UpToSize
    <2> QED
      BY <2>1 DEF Partial
  <1>3. IsFiniteSet(Partial) /\ Cardinality(Partial) <= Len(transactions)
    BY <1>2, FS_Subset
  <1>4. Cardinality(Partial) \in Nat
    BY <1>3, FS_CardinalityType
  <1> QED
    BY <1>1, <1>3, <1>4, Sizes

LEMMA PartialSizePrimed ==
  ASSUME TypeOK', TransactionsLead'
  PROVE  /\ IsFiniteSet(Partial') /\ Cardinality(Partial') \in Nat
         /\ Cardinality(Partial') <= MaxInFlight
  <1>1. Len(transactions') \in Nat /\ Len(transactions') <= MaxInFlight
    BY DEF TypeOK, TransactionsLead
  <1>2. /\ IsFiniteSet(1..Len(transactions')) /\ Partial' \in SUBSET (1..Len(transactions'))
        /\ Cardinality(1..Len(transactions')) = Len(transactions')
    <2> PICK n \in Nat : n = Len(transactions')
      BY <1>1
    <2>1. IsFiniteSet(1..n) /\ Cardinality(1..n) = n
      BY UpToSize
    <2> QED
      BY <2>1 DEF Partial
  <1>3. IsFiniteSet(Partial') /\ Cardinality(Partial') <= Len(transactions')
    BY <1>2, FS_Subset
  <1>4. Cardinality(Partial') \in Nat
    BY <1>3, FS_CardinalityType
  <1> QED
    BY <1>1, <1>3, <1>4, Sizes

(* The queue is short enough for all that may be on its way.               *)
LEMMA ShortQueue ==
  ASSUME TypeOK', TransactionsLead', NEW n \in Nat, n <= QueueLimit,
         Cardinality(queue') <= n, Cardinality(queue') \in Nat
  PROVE  QueueStaysShort'
  BY PartialSizePrimed, Sizes DEF QueueStaysShort

LEMMA NotLonger ==
  ASSUME TypeOK, TransactionsLead, QueueOK, QueueStaysShort, Partial' \subseteq Partial,
         queue' = queue
  PROVE  QueueStaysShort'
  <1>1. Cardinality(Partial') <= Cardinality(Partial) /\ Cardinality(Partial') \in Nat
    BY PartialSize, FS_Subset, FS_CardinalityType
  <1>2. Cardinality(queue) \in Nat /\ Cardinality(Partial) \in Nat
    BY PartialSize, FS_CardinalityType DEF QueueOK
  <1> QED
    BY <1>1, <1>2, Sizes DEF QueueStaysShort

LEMMA PartialAppended ==
  ASSUME TypeOK, NEW t, transactions' = Append(transactions, t), kind' = kind,
         t.op = "delete" \/ t.request = Pixels
  PROVE  Partial' \subseteq Partial
  <1>1. /\ Len(transactions) \in Nat /\ Len(transactions') = Len(transactions) + 1
        /\ transactions'[Len(transactions) + 1] = t
        /\ \A i \in 1..Len(transactions) : transactions'[i] = transactions[i]
        /\ \A i \in 1..(Len(transactions) + 1) :
             i \in 1..Len(transactions) \/ i = Len(transactions) + 1
    BY DEF TypeOK
  <1> QED
    BY <1>1 DEF Partial

LEMMA PartialLeft ==
  ASSUME TypeOK, TransactionsLead, transactions # <<>>, transactions' = Tail(transactions),
         kind' = kind
  PROVE  /\ Cardinality(Partial') \in Nat /\ Cardinality(Partial') <= Cardinality(Partial)
         /\ 1 \in Partial => Cardinality(Partial') <= Cardinality(Partial) - 1
  <1> DEFINE f == [i \in Partial' |-> i + 1]
             rest == Partial \ {1}
  <1>1. ASSUME NEW i \in Partial' PROVE i \in Nat /\ i + 1 \in rest
    <2>1. /\ i \in 1..Len(transactions') /\ kind = "blob" /\ transactions'[i].op # "delete"
          /\ transactions'[i].request # Pixels
      BY <1>1 DEF Partial
    <2>2. /\ i \in Nat /\ i + 1 \in 1..Len(transactions) /\ i + 1 # 1
          /\ transactions'[i] = transactions[i + 1]
      BY <2>1, HeadTypes
    <2> QED
      BY <2>1, <2>2 DEF Partial
  <1>2. f \in [Partial' -> rest] /\ \A i, j \in Partial' : f[i] = f[j] => i = j
    BY <1>1
  <1>3. f \in Injection(Partial', rest)
    BY <1>2 DEF Injection, IsInjective
  <1>4. /\ IsFiniteSet(rest)
        /\ Cardinality(rest) = IF 1 \in Partial THEN Cardinality(Partial) - 1
                                                ELSE Cardinality(Partial)
    BY PartialSize, FS_RemoveElement
  <1>5. IsFiniteSet(Partial') /\ Cardinality(Partial') <= Cardinality(rest)
    BY <1>3, <1>4, FS_Injection
  <1> QED
    BY <1>4, <1>5, PartialSize, FS_CardinalityType

LEMMA QueueGrows ==
  ASSUME TypeOK, QueueOK, NEW rect \in Rects, NEW content \in Contents,
         AddRasterized(rect, content)
  PROVE  /\ Cardinality(queue') \in Nat /\ Cardinality(queue') <= Cardinality(queue) + 1
         /\ rect = Pixels => Cardinality(queue') <= 1
  <1>1. PICK i \in RasterizedBlobImage : queue' = Kept(rect) \cup {i}
    BY ImageAdded
  <1>2. /\ IsFiniteSet(Kept(rect)) /\ Cardinality(Kept(rect)) <= Cardinality(queue)
        /\ rect = Pixels => Cardinality(Kept(rect)) = 0
    BY KeptFacts, FS_EmptySet
  <1>3. Cardinality(Kept(rect)) \in Nat /\ Cardinality(queue) \in Nat
    BY <1>2, FS_CardinalityType DEF QueueOK
  <1>4. /\ IsFiniteSet(queue')
        /\ Cardinality(queue') = IF i \in Kept(rect) THEN Cardinality(Kept(rect))
                                 ELSE Cardinality(Kept(rect)) + 1
    BY <1>1, <1>2, FS_AddElement
  <1> QED
    BY <1>2, <1>3, <1>4

LEMMA ShortTaken ==
  ASSUME TypeOK, TransactionsLead, QueueOK, QueueStaysShort, TypeOK', TransactionsLead',
         TakeAdd \/ TakeUpdate
  PROVE  QueueStaysShort'
  <1> DEFINE t == Head(transactions)
  <1>1. /\ transactions # <<>> /\ transactions' = Tail(transactions) /\ kind' = kind
        /\ TakeBlob(t) /\ t.op # "delete" /\ t.request \in Rects /\ t.content \in Contents
        /\ t = transactions[1] /\ 1 \in 1..Len(transactions)
    BY TakeTypes, HeadTypes DEF TakeAdd, TakeUpdate
  <1>2. /\ Cardinality(Partial') \in Nat /\ Cardinality(Partial') <= Cardinality(Partial)
        /\ 1 \in Partial => Cardinality(Partial') <= Cardinality(Partial) - 1
    BY <1>1, PartialLeft
  <1>3. Cardinality(queue) \in Nat /\ Cardinality(Partial) \in Nat
    BY PartialSize, FS_CardinalityType DEF QueueOK
  <1>4. CASE kind = "blob" /\ AddRasterized(t.request, t.content)
    <2>1. /\ Cardinality(queue') \in Nat /\ Cardinality(queue') <= Cardinality(queue) + 1
          /\ t.request = Pixels => Cardinality(queue') <= 1
      BY <1>1, <1>4, QueueGrows
    <2>2. CASE t.request = Pixels
      BY <2>1, <2>2, ShortQueue, Sizes
    <2>3. CASE t.request # Pixels
      <3>1. 1 \in Partial
        BY <1>1, <1>4, <2>3 DEF Partial
      <3> QED
        BY <1>2, <1>3, <2>1, <3>1, Sizes DEF QueueStaysShort
    <2> QED
      BY <2>2, <2>3
  <1>5. CASE queue' = queue
    BY <1>2, <1>3, <1>5, Sizes DEF QueueStaysShort
  <1> QED
    BY <1>1, <1>4, <1>5 DEF TakeBlob, RasterizationFails, NothingRasterized, blobVars

LEMMA ShortStep ==
  ASSUME ImageInv, QueueStaysShort, [Next]_vars, ImageInv'
  PROVE  QueueStaysShort'
  <1>1. /\ TypeOK /\ TransactionsLead /\ QueueOK /\ EntriesOK /\ RequestsOK
        /\ TypeOK' /\ TransactionsLead' /\ QueueOK'
    BY DEF ImageInv, BookInv
  <1>2. Cardinality(queue) \in Nat /\ Cardinality(queue') \in Nat
    BY <1>1, FS_CardinalityType DEF QueueOK
  <1>3. ASSUME queue' = {} PROVE QueueStaysShort'
    <2>1. Cardinality(queue') = 0
      BY <1>3, FS_EmptySet
    <2> QED
      BY <1>1, <2>1, ShortQueue, Sizes
  <1>4. CASE \E k \in {"raw", "blob"} : Add(k)
    <2>1. queue' = {}
      BY <1>1, <1>4 DEF Add, Send, QueueOK, blobVars
    <2> QED
      BY <1>3, <2>1
  <1>5. ASSUME NEW dirty \in Rects, Update(dirty) PROVE QueueStaysShort'
    <2>1. kind' = kind /\ queue' = queue
      BY <1>5 DEF Update, Send, blobVars
    <2>2. PICK t : t.request = RequestRect(dirty) /\ transactions' = Append(transactions, t)
      BY <1>5 DEF Update, Send
    <2>3. CASE RequestRect(dirty) = Pixels
      BY <1>1, <2>1, <2>2, <2>3, PartialAppended, NotLonger
    <2>4. CASE RequestRect(dirty) # Pixels
      <3>1. ~(Cardinality(queue) > QueueLimit)
        BY <2>4 DEF RequestRect
      <3> QED
        BY <1>1, <1>2, <2>1, <3>1, ShortQueue, Sizes
    <2> QED
      BY <2>3, <2>4
  <1>6. CASE Delete
    <2>1. kind' = kind /\ queue' = queue
      BY <1>6 DEF Delete, Send, blobVars
    <2>2. PICK t : t.op = "delete" /\ transactions' = Append(transactions, t)
      BY <1>6 DEF Delete, Send
    <2> QED
      BY <1>1, <2>1, <2>2, PartialAppended, NotLonger
  <1>7. CASE TakeAdd \/ TakeUpdate
    BY <1>1, <1>7, ShortTaken
  <1>8. CASE TakeDelete \/ MemoryPressure
    BY <1>3, <1>8 DEF TakeDelete, MemoryPressure
  <1>9. CASE BlockUntilAllResourcesAdded
    <2>1. UNCHANGED clientVars
      BY <1>9 DEF BlockUntilAllResourcesAdded
    <2>2. CASE queue' = queue
      BY <1>1, <2>1, <2>2, SamePartial, NotLonger
    <2>3. CASE missing_blob_images /\ AddRasterized(Pixels, rasterizer)
      <3>1. rasterizer \in Contents
        BY <1>1, <2>3 DEF RequestsOK, EntriesOK, TypeOK
      <3>2. Cardinality(queue') <= 1
        BY <1>1, <2>3, <3>1, QueueGrows, RectFacts
      <3> QED
        BY <1>1, <1>2, <3>2, ShortQueue, Sizes
    <2> QED
      BY <1>9, <2>2, <2>3 DEF BlockUntilAllResourcesAdded, RasterizationFails, NothingRasterized
  <1>10. ASSUME NEW r \in Renderings, UpdateTextureCache(r) PROVE QueueStaysShort'
    BY <1>1, <1>3, <1>10, Uploads, SamePartial, NotLonger
  <1>11. CASE \/ BeginFrame \/ EndFrame \/ ReclaimSharedMemory
              \/ \E r \in Renderings : RequestImage(r) \/ Evict(r)
    <2>1. UNCHANGED clientVars /\ queue' = queue
      BY <1>11 DEF BeginFrame, EndFrame, ReclaimSharedMemory, RequestImage, Evict, blobVars
    <2> QED
      BY <1>1, <2>1, SamePartial, NotLonger
  <1>12. CASE UNCHANGED vars
    BY <1>1, <1>12, SamePartial, NotLonger DEF vars, blobVars
  <1> QED
    BY <1>4, <1>5, <1>6, <1>7, <1>8, <1>9, <1>10, <1>11, <1>12 DEF Next

(* The rasterized rects of an image that is off-screen do not pile up, and *)
(* a frame that waits for a blob image finds its queue, unless the blob    *)
(* handler failed (create_blob_scene_builder_requests,                     *)
(* rasterize_missing_blob_images).                                         *)
THEOREM ImagesHold == Spec => []ImagesInv
  <1>1. ASSUME Init PROVE QueueStaysShort
    <2>1. Cardinality(queue) = 0 /\ TypeOK /\ TransactionsLead
      BY <1>1, Start, FS_EmptySet DEF Init, ImageInv, BookInv
    <2> QED
      BY <2>1, PartialSize, Sizes DEF QueueStaysShort
  <1>2. ASSUME ImageInv, ImageInv', QueueStaysShort, [Next]_vars PROVE QueueStaysShort'
    BY <1>2, ShortStep
  <1>3. ImageInv /\ QueueStaysShort => ImagesInv
    BY DEF ImageInv, BookInv, RequestsOK, ImagesInv, QueueForRequests
  <1> QED
    BY <1>1, <1>2, <1>3, Holds, PTL DEF Spec
=============================================================================
