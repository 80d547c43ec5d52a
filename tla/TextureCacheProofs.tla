------------------------- MODULE TextureCacheProofs -------------------------
(***************************************************************************)
(* The texture cache, for any documents, handles and users.                *)
(*                                                                         *)
(* Whatever is requested, moved, evicted and cleared, each layer is free   *)
(* or held by one entry, and what a frame has requested is there when it   *)
(* is built: IInv.  And the data get to their places: what the cache says  *)
(* it has is in the textures or on its way there, and no frame that the    *)
(* renderer draws reads anything else: DInv, which follows each path on    *)
(* which the renderer takes the messages under way and draws in between.   *)
(***************************************************************************)
EXTENDS TextureCache, SequenceTheorems, NaturalsInduction, WellFoundedInduction, TLAPS

(* Where the entries of each kind are.  Ids below next_id have been given  *)
(* out, and the shared texture has one of them.                            *)
PlacedAsKind(h) ==
  LET e == entries[h] IN
  /\ e.kind = "picture" <=> h \in Tiles
  /\ e.kind = "shared" => e.at = <<shared_id, e.at[2]>> /\ e.at[2] \in 1..regions
  /\ e.kind = "picture" => e.at = <<Picture, e.at[2]>> /\ e.at[2] \in 1..slices
  /\ e.kind = "standalone" =>
       e.at = <<e.at[1], 1>> /\ e.at[1] \in 1..next_id - 1 /\ e.at[1] # shared_id
  /\ e.dropped => h \in Images

CacheOK ==
  /\ DOMAIN entries \subseteq Handles /\ \A h \in DOMAIN entries : entries[h] \in CacheEntry
  /\ regions \in 0..MaxLayers /\ free_regions \subseteq 1..regions
  /\ slices \in 0..MaxLayers /\ free_slices \subseteq 1..slices
  /\ shared_id \in 0..MaxIds /\ next_id \in 1..MaxIds
  /\ shared_id < next_id /\ (shared_id = 0 => regions = 0)
  /\ PlacesHeldOnce
  /\ \A h \in DOMAIN entries : PlacedAsKind(h)

(* What the frame being built has asked for.  What it wants may be in the  *)
(* cache, in an older state.                                               *)
FrameOK ==
  /\ documents \subseteq Docs /\ now \in Docs \cup {NoDoc}
  /\ frame_id \in [Docs -> Nat] /\ version \in [Handles -> Nat]
  /\ requested \cup wanted \subseteq Handles /\ requested \cap wanted = {}
  /\ IF now = NoDoc THEN requested \cup wanted = {} ELSE Stamp > 0
  /\ RequestedStays
  /\ \A h \in wanted : Valid(h) => entries[h].last_access = Stamp

ListsOK ==
  /\ IsList(pending_updates) /\ IsList(pending_texture_updates)
  /\ results \in Seq({results[m] : m \in DOMAIN results})
  /\ \A m \in DOMAIN results : IsList(results[m].list)

IInv == CacheOK /\ FrameOK /\ ListsOK

LEMMA Implied == IInv => TextureCacheInv /\ RequestedStays
  <1> SUFFICES ASSUME IInv  PROVE TypeOK /\ PlacesHeldOnce /\ RequestedStays
    BY DEF TextureCacheInv
  <1>1. DOMAIN results = 1..Len(results)
    BY DEF IInv, ListsOK
  <1> QED
    BY <1>1 DEF IInv, CacheOK, FrameOK, ListsOK, TypeOK

-----------------------------------------------------------------------------
(* Lists of updates.                                                       *)

LEMMA EmptyIsList == IsList(EmptyList)
  BY DEF IsList, EmptyList, EmptyMap

LEMMA FreeingIsList ==
  ASSUME NEW ids \in SUBSET Nat
  PROVE  IsList(Freeing(ids)) /\ IsList([Freeing(ids) EXCEPT !.clear = TRUE])
  BY EmptyIsList DEF IsList, Freeing, EmptyList

LEMMA WritingIsList ==
  ASSUME NEW at \in Address, NEW data \in Data
  PROVE  IsList(Writing(at, data))
  BY EmptyIsList DEF IsList, Writing, EmptyList

LEMMA ThenIsList ==
  ASSUME NEW l1, NEW l2, IsList(l1), IsList(l2)
  PROVE  IsList(Then(l1, l2))
  <1>1. /\ Then(l1, l2).clear = (l1.clear \/ l2.clear)
        /\ Then(l1, l2).frees = l1.frees \cup l2.frees
        /\ Then(l1, l2).writes = Applied(l2, l1.writes)
    BY DEF Then
  <1>2. /\ DOMAIN Applied(l2, l1.writes) \subseteq Address
        /\ \A a \in DOMAIN Applied(l2, l1.writes) : Applied(l2, l1.writes)[a] \in Data
    BY DEF Applied, Override, Without, IsList
  <1> QED
    BY <1>1, <1>2 DEF IsList

(* The layers of some entries, and the ids.                                *)
LEMMA LayersAre ==
  ASSUME NEW E, NEW k, NEW l
  PROVE  /\ l \in Layers(E, k) <=> \E h \in E : entries[h].kind = k /\ entries[h].at[2] = l
         /\ l \in Ids(E, k) <=> \E h \in E : entries[h].kind = k /\ entries[h].at[1] = l
  BY DEF Layers, Ids

LEMMA LayersPrimed ==
  ASSUME NEW l, NEW k
  PROVE  /\ l \in Layers(DOMAIN entries, k)' <=>
              \E h \in DOMAIN entries' : entries'[h].kind = k' /\ entries'[h].at[2] = l
         /\ l \in Ids(DOMAIN entries, k)' <=>
              \E h \in DOMAIN entries' : entries'[h].kind = k' /\ entries'[h].at[1] = l
  BY DEF Layers, Ids

(* What expires is not what the frame has requested.                       *)
LEMMA ExpiredAre ==
  ASSUME NEW d, NEW stamp, NEW kinds, NEW kept, NEW E \in Expired(d, stamp, kinds, kept)
  PROVE  /\ E \subseteq DOMAIN entries
         /\ \A h \in E : /\ entries[h].owner = d /\ entries[h].kind \in kinds
                         /\ MustGo(h, stamp) \/ MayGo(h, stamp, kept)
  BY DEF Expired

LEMMA RequestedNotExpired ==
  ASSUME CacheOK, FrameOK, now # NoDoc, NEW h \in DOMAIN entries, entries[h].last_access = Stamp
  PROVE  ~MustGo(h, Stamp) /\ ~MayGo(h, Stamp, 0)
  <1>1. Stamp \in Nat /\ Stamp > 0
    BY DEF FrameOK, Stamp
  <1> QED
    BY <1>1 DEF MustGo, MayGo, Old

-----------------------------------------------------------------------------
(* The places.                                                             *)

LEMMA Held ==
  ASSUME CacheOK, NEW l
  PROVE  /\ l \in free_regions <=>
              /\ l \in 1..regions
              /\ \A h \in DOMAIN entries : entries[h].kind = "shared" => entries[h].at[2] # l
         /\ l \in free_slices <=>
              /\ l \in 1..slices
              /\ \A h \in DOMAIN entries : entries[h].kind = "picture" => entries[h].at[2] # l
  BY LayersAre DEF CacheOK, PlacesHeldOnce

(* Two entries of different kinds are in different textures.               *)
LEMMA Apart ==
  ASSUME CacheOK, NEW g \in DOMAIN entries, NEW h \in DOMAIN entries
  PROVE  /\ entries[g].at = entries[h].at => g = h
         /\ entries[g].kind = entries[h].kind /\ entries[g].kind # "standalone"
              /\ entries[g].at[2] = entries[h].at[2] => g = h
  <1>1. PlacedAsKind(g) /\ PlacedAsKind(h) /\ entries[g] \in CacheEntry
    BY DEF CacheOK
  <1>2. entries[g].at = entries[h].at => g = h
    BY DEF CacheOK, PlacesHeldOnce
  <1> QED
    BY <1>1, <1>2 DEF PlacedAsKind, CacheEntry, Kinds

LEMMA HeldPrimed ==
  ASSUME \A g, h \in DOMAIN entries' : entries'[g].at = entries'[h].at => g = h,
         \A l : l \in free_regions' <=>
           /\ l \in 1..regions'
           /\ \A h \in DOMAIN entries' : entries'[h].kind = "shared" => entries'[h].at[2] # l,
         \A l : l \in free_slices' <=>
           /\ l \in 1..slices'
           /\ \A h \in DOMAIN entries' : entries'[h].kind = "picture" => entries'[h].at[2] # l,
         \A h \in DOMAIN entries' : entries'[h].kind = "shared" => entries'[h].at[1] = shared_id'
  PROVE  PlacesHeldOnce'
  <1>1. \A l : l \in Layers(DOMAIN entries, "shared")' <=>
                 \E h \in DOMAIN entries' : entries'[h].kind = "shared" /\ entries'[h].at[2] = l
    BY LayersPrimed
  <1>2. \A l : l \in Layers(DOMAIN entries, "picture")' <=>
                 \E h \in DOMAIN entries' : entries'[h].kind = "picture" /\ entries'[h].at[2] = l
    BY LayersPrimed
  <1>3. \A l : l \in Ids(DOMAIN entries, "shared")' <=>
                 \E h \in DOMAIN entries' : entries'[h].kind = "shared" /\ entries'[h].at[1] = l
    BY LayersPrimed
  <1>4. free_regions' = 1..regions' \ Layers(DOMAIN entries, "shared")'
    BY <1>1
  <1>5. free_slices' = 1..slices' \ Layers(DOMAIN entries, "picture")'
    BY <1>2
  <1>6. Ids(DOMAIN entries, "shared")' \subseteq {shared_id'}
    BY <1>3
  <1> QED
    BY <1>4, <1>5, <1>6 DEF PlacesHeldOnce

(* Entries that keep their kind and place.                                 *)
LEMMA Touched ==
  ASSUME CacheOK, DOMAIN entries' = DOMAIN entries,
         \A h \in DOMAIN entries :
           /\ entries'[h] \in CacheEntry
           /\ entries'[h].kind = entries[h].kind /\ entries'[h].at = entries[h].at
           /\ entries'[h].dropped => entries[h].dropped \/ h \in Images,
         UNCHANGED <<sharedVars, pictureVars, next_id>>
  PROVE  CacheOK'
  <1>1. UNCHANGED <<regions, free_regions, shared_id, slices, free_slices, next_id>>
    BY DEF sharedVars, pictureVars
  <1>2. PlacesHeldOnce'
    <2>1. \A g, h \in DOMAIN entries' : entries'[g].at = entries'[h].at => g = h
      BY Apart
    <2>2. \A l : l \in free_regions' <=>
            /\ l \in 1..regions'
            /\ \A h \in DOMAIN entries' : entries'[h].kind = "shared" => entries'[h].at[2] # l
      BY <1>1, Held
    <2>3. \A l : l \in free_slices' <=>
            /\ l \in 1..slices'
            /\ \A h \in DOMAIN entries' : entries'[h].kind = "picture" => entries'[h].at[2] # l
      BY <1>1, Held
    <2>4. \A h \in DOMAIN entries' : entries'[h].kind = "shared" => entries'[h].at[1] = shared_id'
      BY <1>1 DEF CacheOK, PlacedAsKind
    <2> QED
      BY <2>1, <2>2, <2>3, <2>4, HeldPrimed
  <1>3. \A h \in DOMAIN entries' : PlacedAsKind(h)'
    BY <1>1 DEF CacheOK, PlacedAsKind
  <1> QED
    BY <1>1, <1>2, <1>3 DEF CacheOK

(* What is free when the entries of E have given back their places.        *)
LEMMA Freed ==
  ASSUME CacheOK, NEW E \in SUBSET DOMAIN entries, NEW l
  PROVE  /\ l \in RegionsAfter(E) <=>
              /\ l \in 1..regions
              /\ \A h \in DOMAIN entries \ E : entries[h].kind = "shared" => entries[h].at[2] # l
         /\ l \in SlicesAfter(E) <=>
              /\ l \in 1..slices
              /\ \A h \in DOMAIN entries \ E : entries[h].kind = "picture" => entries[h].at[2] # l
  <1>1. l \in RegionsAfter(E) <=> \/ l \in free_regions
                                  \/ \E h \in E : entries[h].kind = "shared" /\ entries[h].at[2] = l
    BY LayersAre DEF RegionsAfter
  <1>2. l \in SlicesAfter(E) <=> \/ l \in free_slices
                                 \/ \E h \in E : entries[h].kind = "picture" /\ entries[h].at[2] = l
    BY LayersAre DEF SlicesAfter
  <1>3. \A h \in E : /\ entries[h].kind = "shared" => entries[h].at[2] \in 1..regions
                     /\ entries[h].kind = "picture" => entries[h].at[2] \in 1..slices
    BY DEF CacheOK, PlacedAsKind
  <1>4. \A g, h \in DOMAIN entries :
          entries[g].kind = entries[h].kind /\ entries[g].kind # "standalone"
            /\ entries[g].at[2] = entries[h].at[2] => g = h
    BY Apart
  <1>5. l \in RegionsAfter(E) <=>
          /\ l \in 1..regions
          /\ \A h \in DOMAIN entries \ E : entries[h].kind = "shared" => entries[h].at[2] # l
    BY <1>1, <1>3, <1>4, Held
  <1>6. l \in SlicesAfter(E) <=>
          /\ l \in 1..slices
          /\ \A h \in DOMAIN entries \ E : entries[h].kind = "picture" => entries[h].at[2] # l
    BY <1>2, <1>3, <1>4, Held
  <1> QED
    BY <1>5, <1>6

(* Entries that go and give back their places.                             *)
LEMMA Evicted ==
  ASSUME CacheOK, NEW E \in SUBSET DOMAIN entries, entries' = Without(entries, E),
         free_regions' = RegionsAfter(E), free_slices' = SlicesAfter(E),
         UNCHANGED <<regions, shared_id, slices, next_id>>
  PROVE  CacheOK'
  <1>1. DOMAIN entries' = DOMAIN entries \ E /\ \A h \in DOMAIN entries' : entries'[h] = entries[h]
    BY DEF Without
  <1>2. \A l : l \in free_regions' <=>
          /\ l \in 1..regions'
          /\ \A h \in DOMAIN entries' : entries'[h].kind = "shared" => entries'[h].at[2] # l
    BY <1>1, Freed
  <1>3. \A l : l \in free_slices' <=>
          /\ l \in 1..slices'
          /\ \A h \in DOMAIN entries' : entries'[h].kind = "picture" => entries'[h].at[2] # l
    BY <1>1, Freed
  <1>4. PlacesHeldOnce'
    <2>1. \A g, h \in DOMAIN entries' : entries'[g].at = entries'[h].at => g = h
      BY <1>1, Apart
    <2>2. \A h \in DOMAIN entries' : entries'[h].kind = "shared" => entries'[h].at[1] = shared_id'
      BY <1>1 DEF CacheOK, PlacedAsKind
    <2> QED
      BY <2>1, <2>2, <1>2, <1>3, HeldPrimed
  <1>5. \A h \in DOMAIN entries' : PlacedAsKind(h)'
    BY <1>1 DEF CacheOK, PlacedAsKind
  <1>6. free_regions' \subseteq 1..regions' /\ free_slices' \subseteq 1..slices'
    BY <1>2, <1>3
  <1> QED
    BY <1>1, <1>4, <1>5, <1>6 DEF CacheOK

(* An entry that is put into a new place, of its own, and leaves its old   *)
(* one.                                                                    *)
IsPut(h, kind, at, E) ==
  /\ DOMAIN entries' = (DOMAIN entries \ E) \cup {h}
  /\ \A x \in DOMAIN entries' : entries'[x] \in CacheEntry
  /\ \A x \in DOMAIN entries' : x # h => entries'[x] = entries[x]
  /\ entries'[h].kind = kind /\ entries'[h].at = at
  /\ entries'[h].last_access = Stamp /\ entries'[h].dropped = FALSE

LEMMA AfterUpsert ==
  ASSUME CacheOK, FrameOK, now # NoDoc, NEW h \in Handles, NEW E \in SUBSET DOMAIN entries,
         NEW kind \in Kinds, NEW at \in Address, entries' = Upserted(h, kind, at, E)
  PROVE  IsPut(h, kind, at, E)
  <1> DEFINE left == Without(entries, E)
             owner == IF h \in DOMAIN left THEN left[h].owner ELSE now
  <1>1. DOMAIN left = DOMAIN entries \ E /\ \A x \in DOMAIN left : left[x] = entries[x]
    BY DEF Without
  <1>2. owner \in Docs
    BY <1>1 DEF CacheOK, CacheEntry, FrameOK
  <1>3. Stamp \in Nat
    BY DEF FrameOK, Stamp
  <1>4. PolicyOf(h) \in Evictions
    BY DEF PolicyOf, Evictions
  <1>5. entries' = [x \in DOMAIN left \cup {h} |->
        IF x # h THEN left[x]
        ELSE [kind |-> kind, at |-> at, last_access |-> Stamp, eviction |-> PolicyOf(h),
              owner |-> owner, dropped |-> FALSE]]
    BY DEF Upserted
  <1> HIDE DEF left, owner
  <1>6. DOMAIN entries' = (DOMAIN entries \ E) \cup {h}
    BY <1>1, <1>5
  <1>7. \A x \in DOMAIN entries' : x # h => entries'[x] = entries[x]
    BY <1>1, <1>5
  <1>8. entries'[h] = [kind |-> kind, at |-> at, last_access |-> Stamp, eviction |-> PolicyOf(h),
                       owner |-> owner, dropped |-> FALSE]
    BY <1>5
  <1>9. entries'[h] \in CacheEntry
    BY <1>2, <1>3, <1>4, <1>8 DEF CacheEntry
  <1>10. \A x \in DOMAIN entries' : entries'[x] \in CacheEntry
    BY <1>6, <1>7, <1>9 DEF CacheOK
  <1>11. /\ entries'[h].kind = kind /\ entries'[h].at = at
         /\ entries'[h].last_access = Stamp /\ entries'[h].dropped = FALSE
    BY <1>8
  <1> QED
    BY <1>6, <1>7, <1>10, <1>11 DEF IsPut

LEMMA ReleasedIs ==
  ASSUME NEW h, NEW E \in SUBSET DOMAIN entries
  PROVE  /\ Released(h, E) \in SUBSET DOMAIN entries
         /\ DOMAIN entries \ Released(h, E) = (DOMAIN entries \ E) \ {h}
  BY DEF Released

(* What the place has to be like, and what has to be free then.            *)
Fits(h, kind, at, E) ==
  /\ kind = "picture" <=> h \in Tiles
  /\ kind = "shared" => at = <<shared_id', at[2]>> /\ at[2] \in 1..regions'
  /\ kind = "picture" => at = <<Picture, at[2]>> /\ at[2] \in 1..slices'
  /\ kind = "standalone" => at = <<next_id, 1>> /\ next_id' = next_id + 1
                               /\ shared_id' = shared_id
  /\ \A x \in (DOMAIN entries \ E) \ {h} : entries[x].at # at

Grown ==
  /\ regions' \in regions..MaxLayers /\ slices' \in slices..MaxLayers
  /\ next_id' \in next_id..MaxIds
  /\ shared_id' = shared_id \/ (shared_id = 0 /\ shared_id' = next_id /\ next_id' = next_id + 1)
  /\ shared_id' = 0 => regions' = 0

Counted(h, kind, at, E) ==
  /\ \A l : l \in free_regions' <=>
       /\ l \in 1..regions'
       /\ \A x \in (DOMAIN entries \ E) \ {h} : entries[x].kind = "shared" => entries[x].at[2] # l
       /\ kind = "shared" => at[2] # l
  /\ \A l : l \in free_slices' <=>
       /\ l \in 1..slices'
       /\ \A x \in (DOMAIN entries \ E) \ {h} : entries[x].kind = "picture" => entries[x].at[2] # l
       /\ kind = "picture" => at[2] # l

LEMMA Put ==
  ASSUME CacheOK, FrameOK, now # NoDoc, NEW h \in Handles, NEW E \in SUBSET DOMAIN entries,
         NEW kind \in Kinds, NEW at \in Address, IsPut(h, kind, at, E),
         Fits(h, kind, at, E), Grown, Counted(h, kind, at, E)
  PROVE  CacheOK'
  <1>1. /\ DOMAIN entries' = (DOMAIN entries \ E) \cup {h}
        /\ \A x \in DOMAIN entries' : entries'[x] \in CacheEntry
        /\ \A x \in DOMAIN entries' : x # h => entries'[x] = entries[x]
        /\ entries'[h].kind = kind /\ entries'[h].at = at /\ entries'[h].dropped = FALSE
    BY DEF IsPut
  <1>2. /\ regions \in Nat /\ slices \in Nat /\ regions' \in 0..MaxLayers /\ slices' \in 0..MaxLayers
        /\ next_id \in Nat /\ next_id' \in 1..MaxIds
    BY TextureCacheAssumption DEF CacheOK, Grown
  <1>3. shared_id' \in 0..MaxIds /\ shared_id' < next_id'
    BY TextureCacheAssumption DEF CacheOK, Grown
  <1>4. \A x \in DOMAIN entries' : PlacedAsKind(x)'
    <2> TAKE x \in DOMAIN entries'
    <2>1. CASE x = h
      <3>1. kind = "standalone" => at[1] \in 1..next_id' - 1 /\ at[1] # shared_id'
        BY <1>2 DEF CacheOK, Fits
      <3> QED
        BY <1>1, <2>1, <3>1 DEF PlacedAsKind, Fits
    <2>2. CASE x # h
      <3>1. x \in DOMAIN entries /\ entries'[x] = entries[x] /\ PlacedAsKind(x)
        BY <1>1, <2>2 DEF CacheOK
      <3>2. entries[x].kind = "shared" => shared_id # 0 /\ regions' >= regions
        BY <1>2, <3>1 DEF PlacedAsKind, CacheOK, Grown
      <3>3. entries[x].kind = "standalone" =>
              entries[x].at[1] \in 1..next_id' - 1 /\ entries[x].at[1] # shared_id'
        BY <1>2, <3>1 DEF PlacedAsKind, Grown
      <3>4. entries[x].kind = "picture" => entries[x].at[2] \in 1..slices'
        BY <1>2, <3>1 DEF PlacedAsKind, Grown
      <3>5. entries[x].kind = "shared" => shared_id' = shared_id /\ entries[x].at[2] \in 1..regions'
        BY <1>2, <3>1, <3>2 DEF PlacedAsKind, Grown
      <3> QED
        BY <3>1, <3>3, <3>4, <3>5 DEF PlacedAsKind
    <2> QED
      BY <2>1, <2>2
  <1>5. PlacesHeldOnce'
    <2>1. \A x, y \in DOMAIN entries' : entries'[x].at = entries'[y].at => x = y
      BY <1>1, Apart DEF Fits
    <2>2. \A l : l \in free_regions' <=>
            /\ l \in 1..regions'
            /\ \A x \in DOMAIN entries' : entries'[x].kind = "shared" => entries'[x].at[2] # l
      BY <1>1 DEF Counted
    <2>3. \A l : l \in free_slices' <=>
            /\ l \in 1..slices'
            /\ \A x \in DOMAIN entries' : entries'[x].kind = "picture" => entries'[x].at[2] # l
      BY <1>1 DEF Counted
    <2>4. \A x \in DOMAIN entries' : entries'[x].kind = "shared" => entries'[x].at[1] = shared_id'
      BY <1>4 DEF PlacedAsKind
    <2> QED
      BY <2>1, <2>2, <2>3, <2>4, HeldPrimed
  <1>6. free_regions' \subseteq 1..regions' /\ free_slices' \subseteq 1..slices'
    BY DEF Counted
  <1>7. DOMAIN entries' \subseteq Handles
    BY <1>1 DEF CacheOK
  <1> QED
    BY <1>1, <1>2, <1>3, <1>4, <1>5, <1>6, <1>7 DEF CacheOK, Grown

(* The places of the entries of other kinds.                               *)
LEMMA NoSuchPlace ==
  ASSUME CacheOK, NEW x \in DOMAIN entries
  PROVE  /\ entries[x].at[1] < next_id
         /\ \A l : entries[x].at = <<Picture, l>> => entries[x].kind = "picture"
         /\ \A l : shared_id # 0 /\ entries[x].at = <<shared_id, l>> =>
              entries[x].kind = "shared" /\ l \in 1..regions
         /\ entries[x].kind = "picture" => entries[x].at[2] \in 1..slices
  <1>1. PlacedAsKind(x) /\ entries[x].kind \in Kinds
    BY DEF CacheOK, CacheEntry
  <1>2. CASE entries[x].kind = "shared"
    BY <1>1, <1>2 DEF PlacedAsKind, CacheOK, Picture
  <1>3. CASE entries[x].kind = "picture"
    BY <1>1, <1>3 DEF PlacedAsKind, CacheOK, Picture
  <1>4. CASE entries[x].kind = "standalone"
    BY <1>1, <1>4 DEF PlacedAsKind, CacheOK, Picture
  <1> QED
    BY <1>1, <1>2, <1>3, <1>4 DEF Kinds

-----------------------------------------------------------------------------
(* An entry that moves, with what expired to make room for it.             *)

LEMMA StandaloneIds ==
  ASSUME CacheOK, NEW E \in SUBSET DOMAIN entries
  PROVE  Ids(E, "standalone") \subseteq Nat
  <1> SUFFICES ASSUME NEW i \in Ids(E, "standalone")  PROVE i \in Nat
    OBVIOUS
  <1>1. PICK h \in E : entries[h].kind = "standalone" /\ entries[h].at[1] = i
    BY LayersAre
  <1>2. PlacedAsKind(h) /\ next_id \in Nat
    BY DEF CacheOK
  <1> QED
    BY <1>1, <1>2 DEF PlacedAsKind

LEMMA UpdatesAreLists ==
  ASSUME CacheOK, ListsOK, NEW E \in SUBSET DOMAIN entries
  PROVE  IsList(UpdatesAfter(E))
  BY StandaloneIds, FreeingIsList, ThenIsList DEF UpdatesAfter, ListsOK

LEMMA FilledLists ==
  ASSUME CacheOK, FrameOK, ListsOK, NEW h \in Handles, NEW at \in Address, NEW list,
         IsList(list), Filled(h, at, list), UNCHANGED <<results, pending_texture_updates>>
  PROVE  ListsOK'
  <1>1. version[h] \in Nat /\ version'[h] = version[h] + 1
    BY DEF FrameOK, Filled
  <1>2. IsList(Then(list, Writing(at, <<h, version'[h]>>)))
    <2> PICK v : v = version'[h]
      OBVIOUS
    <2>1. IsList(Writing(at, <<h, v>>))
      BY <1>1, WritingIsList DEF Data
    <2> QED
      BY <2>1, ThenIsList
  <1>3. IsList(pending_updates')
    BY <1>2 DEF Filled
  <1>4. IsList(pending_updates)'
    BY <1>3 DEF IsList
  <1> QED
    BY <1>4 DEF ListsOK, IsList

LEMMA FilledFrame ==
  ASSUME CacheOK, FrameOK, now # NoDoc, NEW h \in wanted, NEW at, NEW list,
         Filled(h, at, list), UNCHANGED <<documents, frame_id, now>>,
         Valid(h)', entries'[h].last_access = Stamp,
         \A x \in DOMAIN entries : x # h /\ entries[x].last_access = Stamp =>
           x \in DOMAIN entries' /\ entries'[x] = entries[x],
         \A x \in DOMAIN entries' : x # h => x \in DOMAIN entries /\ entries'[x] = entries[x]
  PROVE  FrameOK'
  <1>1. requested' = requested \cup {h} /\ wanted' = wanted \ {h} /\ version' \in [Handles -> Nat]
    BY DEF Filled, FrameOK
  <1>2. Stamp' = Stamp
    BY DEF Stamp
  <1>3. RequestedStays'
    BY <1>1, <1>2 DEF FrameOK, RequestedStays, Valid
  <1>4. \A x \in wanted' : Valid(x)' => entries'[x].last_access = Stamp'
    BY <1>1, <1>2 DEF FrameOK, Valid
  <1>5. requested' \cup wanted' \subseteq Handles /\ requested' \cap wanted' = {}
    BY <1>1 DEF FrameOK
  <1> QED
    BY <1>1, <1>2, <1>3, <1>4, <1>5 DEF FrameOK

(* What expires in a frame has not been used in it.                        *)
LEMMA RoomFor ==
  ASSUME CacheOK, FrameOK, now # NoDoc, NEW kinds,
         NEW E, E \in Expired(now, Stamp, kinds, 0) \/ E = {}
  PROVE  /\ E \in SUBSET DOMAIN entries
         /\ \A x \in E : /\ entries[x].kind \in kinds /\ entries[x].owner = now
                         /\ entries[x].last_access # Stamp
  <1>1. CASE E \in Expired(now, Stamp, kinds, 0)
    BY <1>1, ExpiredAre, RequestedNotExpired
  <1>2. CASE E = {}
    BY <1>2
  <1> QED
    BY <1>1, <1>2

LEMMA MovedKeeps ==
  ASSUME IInv, now # NoDoc, NEW h \in wanted, NEW kind \in Kinds, NEW at \in Address,
         NEW E \in SUBSET DOMAIN entries, \A x \in E : entries[x].last_access # Stamp,
         Moved(h, kind, at, E), unchangedByBuilding' = unchangedByBuilding
  PROVE  IsPut(h, kind, at, E) /\ FrameOK' /\ ListsOK'
  <1>1. h \in Handles
    BY DEF IInv, FrameOK
  <1>2. IsPut(h, kind, at, E)
    BY <1>1, AfterUpsert DEF IInv, Moved
  <1>3. /\ Filled(h, at, UpdatesAfter(Released(h, E)))
        /\ UNCHANGED <<documents, frame_id, now, results, pending_texture_updates>>
    BY DEF Moved, unchangedByBuilding, rendererVars
  <1>4. FrameOK'
    <2>1. Valid(h)' /\ entries'[h].last_access = Stamp
      BY <1>2 DEF IsPut, Valid
    <2>2. \A x \in DOMAIN entries : x # h /\ entries[x].last_access = Stamp =>
            x \in DOMAIN entries' /\ entries'[x] = entries[x]
      BY <1>2 DEF IsPut
    <2>3. \A x \in DOMAIN entries' : x # h => x \in DOMAIN entries /\ entries'[x] = entries[x]
      BY <1>2 DEF IsPut
    <2> QED
      BY <1>3, <2>1, <2>2, <2>3, FilledFrame DEF IInv
  <1>5. ListsOK'
    BY <1>1, <1>3, ReleasedIs, UpdatesAreLists, FilledLists DEF IInv
  <1> QED
    BY <1>2, <1>4, <1>5

(* The move of h to a place that is its own then.                          *)
Moves(h, kind, at, E) ==
  /\ h \in wanted /\ now # NoDoc
  /\ \A x \in E : entries[x].owner = now /\ entries[x].last_access # Stamp
  /\ Moved(h, kind, at, E) /\ unchangedByBuilding' = unchangedByBuilding
  /\ Fits(h, kind, at, E) /\ Grown /\ Counted(h, kind, at, E)

IsMove(h) == \E kind \in Kinds, at \in Address, E \in SUBSET DOMAIN entries : Moves(h, kind, at, E)

LEMMA MoveKeeps ==
  ASSUME IInv, NEW h, IsMove(h)
  PROVE  IInv'
  <1>1. PICK kind \in Kinds, at \in Address, E \in SUBSET DOMAIN entries : Moves(h, kind, at, E)
    BY DEF IsMove
  <1>2. IsPut(h, kind, at, E) /\ FrameOK' /\ ListsOK'
    BY <1>1, MovedKeeps DEF Moves
  <1>3. h \in Handles
    BY <1>1 DEF Moves, IInv, FrameOK
  <1>4. CacheOK'
    BY <1>1, <1>2, <1>3, Put DEF Moves, IInv
  <1> QED
    BY <1>2, <1>4 DEF IInv

(* The slices stay if a handle that is no tile moves, and if only shared   *)
(* entries expire.                                                         *)
LEMMA SlicesStay ==
  ASSUME CacheOK, NEW h \in Handles, h \notin Tiles, NEW E \in SUBSET DOMAIN entries,
         \A x \in E : entries[x].kind \in {"shared"}, NEW l
  PROVE  l \in free_slices <=>
           /\ l \in 1..slices
           /\ \A x \in (DOMAIN entries \ E) \ {h} : entries[x].kind = "picture" => entries[x].at[2] # l
  <1>1. h \in DOMAIN entries => entries[h].kind # "picture"
    BY DEF CacheOK, PlacedAsKind
  <1> QED
    BY <1>1, Held

LEMMA UpdateSharedMoves ==
  ASSUME IInv, NEW h \in Handles, UpdateShared(h)
  PROVE  IsMove(h)
  <1>1. h \in wanted /\ h \notin Tiles /\ now # NoDoc
    BY DEF UpdateShared, IInv, FrameOK
  <1>2. PICK E : /\ E \in Expired(now, Stamp, {"shared"}, 0) \/ E = {}
                 /\ \/ \E layer \in RegionsAfter(E) :
                         /\ Moved(h, "shared", <<shared_id, layer>>, E)
                         /\ free_regions' = RegionsAfter(Released(h, E)) \ {layer}
                         /\ UNCHANGED <<regions, shared_id, next_id>>
                    \/ /\ RegionsAfter(E) = {}
                       /\ regions < MaxLayers /\ regions' = regions + 1
                       /\ \/ shared_id = 0 /\ next_id < MaxIds /\ shared_id' = next_id
                               /\ next_id' = next_id + 1
                          \/ shared_id # 0 /\ UNCHANGED <<shared_id, next_id>>
                       /\ Moved(h, "shared", <<shared_id', regions'>>, E)
                       /\ free_regions' = RegionsAfter(Released(h, E))
    BY Zenon DEF UpdateShared
  <1>3. /\ UNCHANGED <<slices, free_slices>> /\ unchangedByBuilding' = unchangedByBuilding
    BY DEF UpdateShared, pictureVars
  <1>4. /\ E \in SUBSET DOMAIN entries
        /\ \A x \in E : /\ entries[x].kind \in {"shared"} /\ entries[x].owner = now
                        /\ entries[x].last_access # Stamp
    BY <1>1, <1>2, RoomFor DEF IInv
  <1>5. /\ regions \in Nat /\ regions <= MaxLayers /\ slices \in 0..MaxLayers /\ MaxLayers \in Nat
        /\ shared_id \in Nat /\ next_id \in Nat /\ next_id <= MaxIds /\ shared_id < next_id
        /\ MaxIds \in Nat /\ (shared_id = 0 => regions = 0)
    BY TextureCacheAssumption DEF IInv, CacheOK
  <1>6. \A l : l \in free_slices' <=>
           /\ l \in 1..slices'
           /\ \A x \in (DOMAIN entries \ E) \ {h} : entries[x].kind = "picture" => entries[x].at[2] # l
    BY <1>1, <1>3, <1>4, SlicesStay DEF IInv
  <1>7. \A l : l \in RegionsAfter(Released(h, E)) <=>
           /\ l \in 1..regions
           /\ \A x \in (DOMAIN entries \ E) \ {h} : entries[x].kind = "shared" => entries[x].at[2] # l
    BY <1>4, ReleasedIs, Freed DEF IInv
  <1>8. \A l : l \in RegionsAfter(E) <=>
           /\ l \in 1..regions
           /\ \A x \in DOMAIN entries \ E : entries[x].kind = "shared" => entries[x].at[2] # l
    BY <1>4, Freed DEF IInv
  <1>9. CASE \E layer \in RegionsAfter(E) :
               /\ Moved(h, "shared", <<shared_id, layer>>, E)
               /\ free_regions' = RegionsAfter(Released(h, E)) \ {layer}
               /\ UNCHANGED <<regions, shared_id, next_id>>
    <2>1. PICK layer \in RegionsAfter(E) :
               /\ Moved(h, "shared", <<shared_id, layer>>, E)
               /\ free_regions' = RegionsAfter(Released(h, E)) \ {layer}
               /\ UNCHANGED <<regions, shared_id, next_id>>
      BY <1>9
    <2>2. layer \in 1..regions /\ shared_id # 0
      BY <1>5, <1>8
    <2> PICK at : at = <<shared_id, layer>>
      OBVIOUS
    <2>3. at \in Address /\ at[2] = layer /\ at[1] = shared_id
      BY <1>5, <2>2 DEF Address
    <2>4. \A x \in (DOMAIN entries \ E) \ {h} : entries[x].at # at
      BY <1>8, <2>2, <2>3, NoSuchPlace DEF IInv
    <2>5. \A l : l \in free_regions' <=>
            /\ l \in 1..regions'
            /\ \A x \in (DOMAIN entries \ E) \ {h} : entries[x].kind = "shared" => entries[x].at[2] # l
            /\ at[2] # l
      BY <1>7, <2>1, <2>3
    <2>6. Fits(h, "shared", at, E)
      BY <1>1, <2>1, <2>2, <2>3, <2>4 DEF Fits
    <2>7. Counted(h, "shared", at, E)
      BY <1>6, <2>5 DEF Counted
    <2>8. Grown
      BY <1>3, <1>5, <2>1 DEF Grown
    <2>9. Moves(h, "shared", at, E)
      BY <1>1, <1>3, <1>4, <2>1, <2>6, <2>7, <2>8 DEF Moves
    <2> QED
      BY <1>4, <2>3, <2>9 DEF IsMove, Kinds
  <1>10. CASE /\ RegionsAfter(E) = {}
              /\ regions < MaxLayers /\ regions' = regions + 1
              /\ \/ shared_id = 0 /\ next_id < MaxIds /\ shared_id' = next_id
                      /\ next_id' = next_id + 1
                 \/ shared_id # 0 /\ UNCHANGED <<shared_id, next_id>>
              /\ Moved(h, "shared", <<shared_id', regions'>>, E)
              /\ free_regions' = RegionsAfter(Released(h, E))
    <2> PICK at : at = <<shared_id', regions'>>
      OBVIOUS
    <2>1. at \in Address /\ at[2] = regions' /\ at[1] = shared_id' /\ shared_id' # 0
      BY <1>5, <1>10 DEF Address
    <2>2. \A x \in DOMAIN entries : entries[x].at # at
      <3> SUFFICES ASSUME NEW x \in DOMAIN entries, entries[x].at = <<shared_id', regions'>>
                   PROVE  FALSE
        OBVIOUS
      <3>1. entries[x].at[1] = shared_id' /\ shared_id' # next_id
        BY <1>5, NoSuchPlace DEF IInv
      <3>2. shared_id' = shared_id /\ shared_id # 0
        BY <1>10, <3>1
      <3>3. regions' \in 1..regions
        BY <3>2, NoSuchPlace DEF IInv
      <3> QED
        BY <1>5, <1>10, <3>3
    <2>3. \A x \in DOMAIN entries : entries[x].kind = "shared" => entries[x].at[2] \in 1..regions
      BY DEF IInv, CacheOK, PlacedAsKind
    <2>4. \A l : l \in free_regions' <=>
            /\ l \in 1..regions'
            /\ \A x \in (DOMAIN entries \ E) \ {h} : entries[x].kind = "shared" => entries[x].at[2] # l
            /\ at[2] # l
      BY <1>5, <1>7, <1>10, <2>1, <2>3
    <2>5. Fits(h, "shared", at, E)
      BY <1>1, <1>5, <1>10, <2>1, <2>2 DEF Fits
    <2>6. Counted(h, "shared", at, E)
      BY <1>6, <2>4 DEF Counted
    <2>7. Grown
      BY <1>3, <1>5, <1>10 DEF Grown
    <2>8. Moves(h, "shared", at, E)
      BY <1>1, <1>3, <1>4, <1>10, <2>5, <2>6, <2>7 DEF Moves
    <2> QED
      BY <1>4, <2>1, <2>8 DEF IsMove, Kinds
  <1> QED
    BY <1>2, <1>9, <1>10

LEMMA UpdateStandaloneMoves ==
  ASSUME IInv, NEW h \in Handles, UpdateStandalone(h)
  PROVE  IsMove(h)
  <1>1. /\ h \in wanted /\ h \notin Tiles /\ now # NoDoc
        /\ next_id < MaxIds /\ next_id' = next_id + 1
        /\ Moved(h, "standalone", <<next_id, 1>>, {})
        /\ free_regions' = RegionsAfter(Released(h, {}))
        /\ UNCHANGED <<regions, shared_id, slices, free_slices>>
        /\ unchangedByBuilding' = unchangedByBuilding
    BY DEF UpdateStandalone, IInv, FrameOK, pictureVars
  <1>2. /\ regions \in Nat /\ regions <= MaxLayers /\ slices \in 0..MaxLayers /\ MaxLayers \in Nat
        /\ next_id \in Nat /\ MaxIds \in Nat /\ (shared_id = 0 => regions = 0)
    BY TextureCacheAssumption DEF IInv, CacheOK
  <1> PICK at : at = <<next_id, 1>>
    OBVIOUS
  <1>3. at \in Address /\ at[1] = next_id
    BY <1>2 DEF Address
  <1>4. Fits(h, "standalone", at, {})
    <2>1. \A x \in DOMAIN entries : entries[x].at # at
      <3> SUFFICES ASSUME NEW x \in DOMAIN entries, entries[x].at = at  PROVE FALSE
        OBVIOUS
      <3>1. entries[x].at[1] < next_id
        BY NoSuchPlace DEF IInv
      <3> QED
        BY <1>2, <1>3, <3>1
    <2> QED
      BY <1>1, <2>1 DEF Fits
  <1>5. Counted(h, "standalone", at, {})
    <2>1. \A l : l \in RegionsAfter(Released(h, {})) <=>
             /\ l \in 1..regions
             /\ \A x \in (DOMAIN entries \ {}) \ {h} : entries[x].kind = "shared" => entries[x].at[2] # l
      BY ReleasedIs, Freed DEF IInv
    <2>2. \A l : l \in free_slices <=>
             /\ l \in 1..slices
             /\ \A x \in (DOMAIN entries \ {}) \ {h} : entries[x].kind = "picture" => entries[x].at[2] # l
      BY <1>1, SlicesStay DEF IInv
    <2> QED
      BY <1>1, <2>1, <2>2 DEF Counted
  <1>6. Grown
    BY <1>1, <1>2 DEF Grown
  <1>7. Moves(h, "standalone", at, {})
    BY <1>1, <1>4, <1>5, <1>6 DEF Moves
  <1> QED
    BY <1>3, <1>7 DEF IsMove, Kinds

LEMMA UpdateInPlaceKeeps ==
  ASSUME IInv, NEW h \in Handles, UpdateInPlace(h)
  PROVE  IInv'
  <1>1. /\ h \in wanted /\ Valid(h) /\ now # NoDoc
        /\ Filled(h, entries[h].at, pending_updates)
        /\ UNCHANGED <<entries, sharedVars, pictureVars, next_id>>
        /\ unchangedByBuilding' = unchangedByBuilding
    BY DEF UpdateInPlace, IInv, FrameOK
  <1>2. UNCHANGED <<documents, frame_id, now, results, pending_texture_updates>>
    BY <1>1 DEF unchangedByBuilding, rendererVars
  <1>3. CacheOK'
    <2>1. \A x \in DOMAIN entries : entries[x] \in CacheEntry
      BY DEF IInv, CacheOK
    <2> QED
      BY <1>1, <2>1, Touched DEF IInv
  <1>4. FrameOK'
    <2>1. Valid(h)' /\ entries'[h].last_access = Stamp
      BY <1>1 DEF Valid, IInv, FrameOK
    <2> QED
      BY <1>1, <1>2, <2>1, FilledFrame DEF IInv
  <1>5. ListsOK'
    <2>1. entries[h].at \in Address
      BY <1>1 DEF Valid, IInv, CacheOK, CacheEntry
    <2> QED
      BY <1>1, <1>2, <2>1, FilledLists DEF IInv, ListsOK
  <1> QED
    BY <1>3, <1>4, <1>5 DEF IInv

LEMMA UpdatePictureMoves ==
  ASSUME IInv, NEW h \in Handles, UpdatePicture(h)
  PROVE  IsMove(h)
  <1>1. /\ h \in wanted /\ h \in Tiles /\ ~Valid(h) /\ now # NoDoc
        /\ UNCHANGED <<regions, free_regions, shared_id, next_id>>
        /\ unchangedByBuilding' = unchangedByBuilding
    BY DEF UpdatePicture, IInv, FrameOK, sharedVars
  <1>2. h \notin DOMAIN entries
    BY <1>1, TextureCacheAssumption DEF Valid, IInv, CacheOK, PlacedAsKind
  <1>3. /\ regions \in 0..MaxLayers /\ slices \in Nat /\ slices <= MaxLayers /\ MaxLayers \in Nat
        /\ next_id \in 1..MaxIds /\ MaxIds \in Nat /\ (shared_id = 0 => regions = 0)
        /\ AddSlices \in Nat \ {0}
    BY TextureCacheAssumption DEF IInv, CacheOK
  <1>4. \A l : l \in free_regions' <=>
           /\ l \in 1..regions'
           /\ \A x \in (DOMAIN entries \ {}) \ {h} : entries[x].kind = "shared" => entries[x].at[2] # l
    BY <1>1, <1>2, Held DEF IInv
  <1>5. \A l : l \in free_slices <=>
           /\ l \in 1..slices
           /\ \A x \in (DOMAIN entries \ {}) \ {h} : entries[x].kind = "picture" => entries[x].at[2] # l
    BY <1>2, Held DEF IInv
  <1>6. PICK layer : \/ /\ layer \in free_slices
                        /\ free_slices' = free_slices \ {layer} /\ UNCHANGED slices
                     \/ /\ slices + AddSlices <= MaxLayers /\ slices' = slices + AddSlices
                        /\ layer = slices + 1 /\ free_slices = {}
                        /\ free_slices' = (slices + 2)..slices'
    <2>1. CASE free_slices # {}
      BY <2>1 DEF UpdatePicture
    <2>2. CASE free_slices = {}
      BY <2>2 DEF UpdatePicture
    <2> QED
      BY <2>1, <2>2
  <1>7. Moved(h, "picture", <<Picture, layer>>, {})
    <2>1. CASE free_slices # {}
      <3>1. PICK other \in free_slices :
              Moved(h, "picture", <<Picture, other>>, {}) /\ free_slices' = free_slices \ {other}
        BY <2>1 DEF UpdatePicture
      <3>2. layer \in free_slices /\ free_slices' = free_slices \ {layer}
        BY <1>6, <2>1
      <3>3. other = layer
        BY <3>1, <3>2
      <3> QED
        BY <3>1, <3>3
    <2>2. CASE free_slices = {}
      BY <1>6, <2>2 DEF UpdatePicture
    <2> QED
      BY <2>1, <2>2
  <1>8. slices' \in slices..MaxLayers /\ layer \in 1..slices'
    <2>1. CASE layer \in free_slices /\ UNCHANGED slices
      BY <1>3, <1>5, <2>1
    <2>2. CASE slices + AddSlices <= MaxLayers /\ slices' = slices + AddSlices /\ layer = slices + 1
      BY <1>3, <2>2
    <2> QED
      BY <1>6, <2>1, <2>2
  <1>9. \A x \in DOMAIN entries : entries[x].kind = "picture" => entries[x].at[2] \in 1..slices
    BY NoSuchPlace DEF IInv
  <1>10. \A x \in DOMAIN entries : entries[x].kind = "picture" => entries[x].at[2] # layer
    <2>1. CASE layer \in free_slices
      BY <1>2, <1>5, <2>1
    <2>2. CASE layer = slices + 1
      BY <1>3, <1>9, <2>2
    <2> QED
      BY <1>6, <2>1, <2>2
  <1> PICK at : at = <<Picture, layer>>
    OBVIOUS
  <1>11. at \in Address /\ at[2] = layer
    BY <1>3, <1>8 DEF Address, Picture
  <1>12. Fits(h, "picture", at, {})
    <2>1. \A x \in DOMAIN entries : entries[x].at # at
      <3> SUFFICES ASSUME NEW x \in DOMAIN entries, entries[x].at = at  PROVE FALSE
        OBVIOUS
      <3>1. entries[x].kind = "picture" /\ entries[x].at[2] = layer
        BY <1>11, NoSuchPlace DEF IInv
      <3> QED
        BY <1>10, <3>1
    <2> QED
      BY <1>1, <1>8, <1>11, <2>1 DEF Fits
  <1>13. \A l : l \in free_slices' <=>
           /\ l \in 1..slices'
           /\ \A x \in (DOMAIN entries \ {}) \ {h} : entries[x].kind = "picture" => entries[x].at[2] # l
           /\ layer # l
    <2>1. CASE layer \in free_slices /\ free_slices' = free_slices \ {layer} /\ UNCHANGED slices
      BY <1>5, <2>1
    <2>2. CASE /\ slices + AddSlices <= MaxLayers /\ slices' = slices + AddSlices
               /\ layer = slices + 1 /\ free_slices = {} /\ free_slices' = (slices + 2)..slices'
      <3> SUFFICES ASSUME NEW l
                   PROVE  l \in (slices + 2)..slices' <=>
                            /\ l \in 1..slices'
                            /\ \A x \in DOMAIN entries : entries[x].kind = "picture" => entries[x].at[2] # l
                            /\ layer # l
        BY <1>2, <2>2
      <3>1. l \in (slices + 2)..slices' <=> l \in 1..slices' /\ l \notin 1..slices /\ layer # l
        BY <1>3, <1>8, <2>2
      <3>2. l \in 1..slices => \E x \in DOMAIN entries : entries[x].kind = "picture" /\ entries[x].at[2] = l
        BY <1>2, <1>5, <2>2
      <3>3. \A x \in DOMAIN entries : entries[x].kind = "picture" /\ entries[x].at[2] = l => l \in 1..slices
        BY <1>9
      <3> QED
        BY <3>1, <3>2, <3>3
    <2> QED
      BY <1>6, <2>1, <2>2
  <1>14. Counted(h, "picture", at, {})
    BY <1>4, <1>11, <1>13 DEF Counted
  <1>15. Grown
    BY <1>1, <1>3, <1>8 DEF Grown
  <1>16. Moves(h, "picture", at, {})
    BY <1>1, <1>7, <1>12, <1>14, <1>15 DEF Moves
  <1> QED
    BY <1>11, <1>16 DEF IsMove, Kinds

-----------------------------------------------------------------------------
(* The other steps of the render backend.                                  *)

(* Between frames nothing has been requested.                              *)
LEMMA FrameBetween ==
  ASSUME FrameOK, now = NoDoc,
         UNCHANGED <<frame_id, version, now, requested, wanted>>, documents' \subseteq Docs
  PROVE  FrameOK'
  BY DEF FrameOK, RequestedStays, Valid, Stamp

LEMMA ClearingLists ==
  ASSUME CacheOK, ListsOK
  PROVE  /\ IsList(AllCleared)
         /\ IsList(Then(pending_updates, [Freeing({shared_id} \ {0}) EXCEPT !.clear = TRUE]))
  <1> DEFINE reset == IF slices > AddSlices THEN {Picture} ELSE {}
  <1>1. shared_id \in Nat /\ reset \subseteq Nat
    BY DEF CacheOK, Picture
  <1>2. IsList(UpdatesAfter(DOMAIN entries))
    BY UpdatesAreLists
  <1>3. /\ IsList([Freeing(({shared_id} \ {0}) \cup reset) EXCEPT !.clear = TRUE])
        /\ IsList([Freeing({shared_id} \ {0}) EXCEPT !.clear = TRUE])
    BY <1>1, FreeingIsList
  <1>4. AllCleared = Then(UpdatesAfter(DOMAIN entries),
                          [Freeing(({shared_id} \ {0}) \cup reset) EXCEPT !.clear = TRUE])
    BY DEF AllCleared
  <1> HIDE DEF reset
  <1> QED
    BY <1>2, <1>3, <1>4, ThenIsList DEF ListsOK

LEMMA ClearAllKeeps ==
  ASSUME CacheOK, ClearAll, next_id' = next_id
  PROVE  CacheOK'
  <1>1. /\ entries' = EmptyMap /\ regions' = 0 /\ free_regions' = {} /\ shared_id' = 0
        /\ slices' = (IF slices > AddSlices THEN AddSlices ELSE slices)
        /\ free_slices' = 1..slices'
    BY DEF ClearAll
  <1>2. DOMAIN entries' = {}
    BY <1>1 DEF EmptyMap
  <1>3. slices' \in 0..MaxLayers
    BY <1>1, TextureCacheAssumption DEF CacheOK
  <1>4. PlacesHeldOnce'
    BY <1>1, <1>2, HeldPrimed
  <1> QED
    BY <1>1, <1>2, <1>3, <1>4, TextureCacheAssumption DEF CacheOK

LEMMA ClearSharedKeeps ==
  ASSUME CacheOK, ClearShared, next_id' = next_id
  PROVE  CacheOK'
  <1>1. /\ entries' = Without(entries, {h \in DOMAIN entries : entries[h].kind = "shared"})
        /\ regions' = 0 /\ free_regions' = {} /\ shared_id' = 0
        /\ UNCHANGED <<slices, free_slices>>
    BY DEF ClearShared, pictureVars
  <1>2. /\ DOMAIN entries' = {h \in DOMAIN entries : entries[h].kind # "shared"}
        /\ \A h \in DOMAIN entries' : entries'[h] = entries[h]
    BY <1>1 DEF Without
  <1>3. PlacesHeldOnce'
    <2>1. \A g, h \in DOMAIN entries' : entries'[g].at = entries'[h].at => g = h
      BY <1>2, Apart
    <2>2. \A l : l \in free_regions' <=>
            /\ l \in 1..regions'
            /\ \A h \in DOMAIN entries' : entries'[h].kind = "shared" => entries'[h].at[2] # l
      BY <1>1
    <2>3. \A l : l \in free_slices' <=>
            /\ l \in 1..slices'
            /\ \A h \in DOMAIN entries' : entries'[h].kind = "picture" => entries'[h].at[2] # l
      <3> TAKE l
      <3>1. l \in free_slices <=>
              /\ l \in 1..slices
              /\ \A h \in DOMAIN entries : entries[h].kind = "picture" => entries[h].at[2] # l
        BY Held
      <3>2. \A h \in DOMAIN entries : entries[h].kind = "picture" =>
              h \in DOMAIN entries' /\ entries'[h] = entries[h]
        BY <1>2
      <3> QED
        BY <1>1, <1>2, <3>1, <3>2
    <2>4. \A h \in DOMAIN entries' : entries'[h].kind = "shared" => entries'[h].at[1] = shared_id'
      BY <1>2
    <2> QED
      BY <2>1, <2>2, <2>3, <2>4, HeldPrimed
  <1>4. \A h \in DOMAIN entries' : PlacedAsKind(h)'
    <2> TAKE h \in DOMAIN entries'
    <2>1. PlacedAsKind(h) /\ entries[h].kind # "shared" /\ entries'[h] = entries[h]
      BY <1>2 DEF CacheOK
    <2>2. entries[h].kind = "standalone" => entries[h].at[1] # 0
      BY <2>1 DEF PlacedAsKind, CacheOK
    <2>3. next_id' = next_id /\ shared_id' = 0 /\ slices' = slices
      BY <1>1
    <2> QED
      BY <2>1, <2>2, <2>3 DEF PlacedAsKind
  <1>5. DOMAIN entries' \subseteq Handles /\ \A h \in DOMAIN entries' : entries'[h] \in CacheEntry
    BY <1>2 DEF CacheOK
  <1>6. /\ regions' \in 0..MaxLayers /\ free_regions' \subseteq 1..regions'
        /\ shared_id' \in 0..MaxIds /\ shared_id' < next_id'
    BY <1>1, TextureCacheAssumption DEF CacheOK
  <1>7. slices' \in 0..MaxLayers /\ free_slices' \subseteq 1..slices' /\ next_id' \in 1..MaxIds
    BY <1>1 DEF CacheOK
  <1> QED
    BY <1>1, <1>3, <1>4, <1>5, <1>6, <1>7 DEF CacheOK

(* A message that is sent, and one that is taken.                          *)
LEMMA FunctionSeq ==
  ASSUME NEW T, NEW n \in Nat, NEW f \in [1..n -> T]
  PROVE  f \in Seq(T)
  OBVIOUS

LEMMA Sending ==
  ASSUME ListsOK, NEW m, IsList(m.list), results' = Append(results, m)
  PROVE  /\ results' \in Seq({results'[i] : i \in DOMAIN results'})
         /\ \A i \in DOMAIN results' : IsList(results'[i].list)
  <1> DEFINE S == {results[i] : i \in DOMAIN results}
  <1>1. results \in Seq(S)
    BY DEF ListsOK
  <1> HIDE DEF S
  <1>2. /\ results' \in Seq(S \cup {m}) /\ DOMAIN results' = 1..Len(results) + 1
        /\ \A i \in 1..Len(results) : results'[i] = results[i]
        /\ results'[Len(results) + 1] = m /\ DOMAIN results = 1..Len(results)
        /\ Len(results) \in Nat
    BY <1>1
  <1>3. results' \in Seq({results'[i] : i \in DOMAIN results'})
    <2>1. results' = [i \in 1..Len(results) + 1 |-> results'[i]]
      BY <1>2, LenProperties
    <2>2. results' \in [1..Len(results) + 1 -> {results'[i] : i \in DOMAIN results'}]
      BY <1>2, <2>1
    <2>3. \A k \in Nat : \A X, s : s \in [1..k -> X] => s \in Seq(X)
      OBVIOUS
    <2>4. Len(results) + 1 \in Nat
      BY <1>2
    <2> QED
      BY <2>2, <2>3, <2>4, Zenon
  <1>4. \A i \in DOMAIN results' : IsList(results'[i].list)
    BY <1>2 DEF ListsOK
  <1> QED
    BY <1>3, <1>4

LEMMA Taking ==
  ASSUME ListsOK, results # <<>>, results' = Tail(results)
  PROVE  /\ results' \in Seq({results'[i] : i \in DOMAIN results'})
         /\ \A i \in DOMAIN results' : IsList(results'[i].list)
         /\ IsList(Head(results).list)
  <1> DEFINE S == {results[i] : i \in DOMAIN results}
  <1>1. results \in Seq(S)
    BY DEF ListsOK
  <1> HIDE DEF S
  <1>2. /\ DOMAIN results' = 1..Len(results) - 1 /\ Len(results) \in Nat \ {0}
        /\ \A i \in 1..Len(results) - 1 : results'[i] = results[i + 1]
        /\ results' \in Seq(S) /\ DOMAIN results = 1..Len(results)
        /\ Head(results) = results[1]
    BY <1>1
  <1>3. results' \in Seq({results'[i] : i \in DOMAIN results'})
    <2>1. results' = [i \in 1..Len(results) - 1 |-> results'[i]]
      BY <1>2, LenProperties
    <2>2. results' \in [1..Len(results) - 1 -> {results'[i] : i \in DOMAIN results'}]
      BY <1>2, <2>1
    <2>3. Len(results) \in Nat \ {0}
      BY <1>2
    <2>4. PICK n : n = Len(results) - 1
      OBVIOUS
    <2>5. n \in Nat
      BY <2>3, <2>4
    <2> PICK q, T : q = results' /\ T = {results'[i] : i \in DOMAIN results'}
      OBVIOUS
    <2>6. q \in [1..n -> T]
      BY <2>2, <2>4
    <2>7. q \in Seq(T)
      BY <2>5, <2>6, FunctionSeq
    <2> QED
      BY <2>7
  <1>4. \A i \in DOMAIN results' : IsList(results'[i].list)
    BY <1>2 DEF ListsOK
  <1> QED
    BY <1>2, <1>3, <1>4 DEF ListsOK

LEMMA ListsPrimed ==
  ASSUME IsList(pending_updates'), IsList(pending_texture_updates'),
         results' \in Seq({results'[i] : i \in DOMAIN results'}),
         \A i \in DOMAIN results' : IsList(results'[i].list)
  PROVE  ListsOK'
  BY DEF ListsOK, IsList

LEMMA MemoryPressureKeeps ==
  ASSUME IInv, MemoryPressure
  PROVE  IInv'
  <1>1. /\ now = NoDoc /\ ClearAll /\ pending_updates' = EmptyList
        /\ UNCHANGED <<next_id, documents, frame_id, version, now, requested, wanted,
                       pending_texture_updates>>
    BY DEF MemoryPressure, Between, unchangedBetween, frameVars, rendererVars
  <1>2. PICK m : m = [kind |-> "pressure", list |-> AllCleared, clears |-> clears']
    OBVIOUS
  <1>3. results' = Append(results, m) /\ m.list = AllCleared
    BY <1>2 DEF MemoryPressure
  <1>4. ListsOK'
    BY <1>1, <1>3, ClearingLists, EmptyIsList, Sending, ListsPrimed DEF IInv, ListsOK
  <1>5. CacheOK' /\ FrameOK'
    BY <1>1, ClearAllKeeps, FrameBetween DEF IInv, FrameOK
  <1> QED
    BY <1>4, <1>5 DEF IInv

LEMMA ClearCachesKeeps ==
  ASSUME IInv, ClearCaches
  PROVE  IInv'
  <1>1. /\ now = NoDoc /\ ClearAll /\ pending_updates' = AllCleared
        /\ UNCHANGED <<results, next_id, documents, frame_id, version, now, requested, wanted,
                       pending_texture_updates>>
    BY DEF ClearCaches, Between, unchangedBetween, frameVars, rendererVars
  <1>2. ListsOK'
    BY <1>1, ClearingLists, ListsPrimed DEF IInv, ListsOK
  <1>3. CacheOK' /\ FrameOK'
    BY <1>1, ClearAllKeeps, FrameBetween DEF IInv, FrameOK
  <1> QED
    BY <1>2, <1>3 DEF IInv

LEMMA DeleteKeeps ==
  ASSUME IInv, NEW h \in Handles, Delete(h)
  PROVE  IInv'
  <1>1. /\ now = NoDoc /\ h \in Images /\ h \in DOMAIN entries
        /\ entries' = [entries EXCEPT ![h] = [@ EXCEPT !.last_access = 0, !.eviction = "Auto",
                                                       !.dropped = TRUE]]
        /\ UNCHANGED <<sharedVars, pictureVars, pending_updates, results, next_id, documents,
                       frame_id, version, now, requested, wanted, pending_texture_updates>>
    BY DEF Delete, Valid, Between, unchangedBetween, frameVars, rendererVars
  <1>2. \A x \in DOMAIN entries :
           /\ entries'[x] \in CacheEntry
           /\ entries'[x].kind = entries[x].kind /\ entries'[x].at = entries[x].at
           /\ x # h => entries'[x] = entries[x]
    <2> TAKE x \in DOMAIN entries
    <2>1. entries[x] \in CacheEntry
      BY DEF IInv, CacheOK
    <2>2. CASE x = h
      BY <1>1, <2>1, <2>2 DEF CacheEntry, Evictions
    <2>3. CASE x # h
      BY <1>1, <2>1, <2>3
    <2> QED
      BY <2>2, <2>3
  <1>3. CacheOK'
    BY <1>1, <1>2, Touched DEF IInv
  <1>4. FrameOK'
    BY <1>1, FrameBetween DEF IInv, FrameOK
  <1>5. ListsOK'
    BY <1>1, ListsPrimed DEF IInv, ListsOK
  <1> QED
    BY <1>3, <1>4, <1>5 DEF IInv

LEMMA SameCache ==
  ASSUME CacheOK, UNCHANGED <<entries, sharedVars, pictureVars, next_id>>
  PROVE  CacheOK'
  <1>1. \A x \in DOMAIN entries : entries[x] \in CacheEntry
    BY DEF CacheOK
  <1> QED
    BY <1>1, Touched

LEMMA DocumentsKeep ==
  ASSUME IInv, NEW d \in Docs, AddDocument(d) \/ DeleteDocument(d)
  PROVE  IInv'
  <1>1. /\ now = NoDoc /\ documents' \subseteq Docs
        /\ UNCHANGED <<entries, sharedVars, pictureVars, pending_updates, results, next_id,
                       frame_id, version, now, requested, wanted, pending_texture_updates>>
    BY DEF AddDocument, DeleteDocument, Between, frameVars, cacheVars, rendererVars, IInv, FrameOK
  <1> QED
    BY <1>1, SameCache, FrameBetween, ListsPrimed DEF IInv, ListsOK

LEMMA StartGroupKeeps ==
  ASSUME IInv, NEW ds \in SUBSET Docs, StartGroup(ds)
  PROVE  IInv'
  <1>1. /\ now = NoDoc
        /\ UNCHANGED <<next_id, documents, frame_id, version, now, requested, wanted, results,
                       pending_texture_updates>>
    BY DEF StartGroup, Between, frameVars, rendererVars
  <1>2. FrameOK'
    BY <1>1, FrameBetween DEF IInv, FrameOK
  <1>3. CASE ClearShared
    <2>1. ListsOK'
      BY <1>1, <1>3, ClearingLists, ListsPrimed DEF IInv, ListsOK, ClearShared
    <2> QED
      BY <1>1, <1>2, <1>3, <2>1, ClearSharedKeeps DEF IInv
  <1>4. CASE UNCHANGED <<entries, sharedVars, pictureVars, pending_updates>>
    BY <1>1, <1>2, <1>4, SameCache, ListsPrimed DEF IInv, ListsOK
  <1> QED
    BY <1>3, <1>4 DEF StartGroup

-----------------------------------------------------------------------------
(* A frame.                                                                *)

(* The eviction of entries of some kinds only gives back places of those.  *)
LEMMA OfOtherKinds ==
  ASSUME CacheOK, NEW E \in SUBSET DOMAIN entries
  PROVE  /\ (\A h \in E : entries[h].kind # "shared") => RegionsAfter(E) = free_regions
         /\ (\A h \in E : entries[h].kind # "picture") => SlicesAfter(E) = free_slices
  BY LayersAre DEF RegionsAfter, SlicesAfter

LEMMA BeginFrameKeeps ==
  ASSUME IInv, NEW d \in Docs, BeginFrame(d)
  PROVE  IInv'
  <1>1. /\ now = NoDoc /\ now' = d /\ frame_id' = [frame_id EXCEPT ![d] = @ + 1]
        /\ UNCHANGED <<regions, shared_id, slices, free_slices, next_id, pending_updates,
                       documents, version, requested, wanted, results, pending_texture_updates>>
    BY DEF BeginFrame, frameVars, rendererVars, pictureVars
  <1>2. UNCHANGED <<entries, free_regions>> => CacheOK'
    BY <1>1, SameCache DEF IInv, sharedVars, pictureVars
  <1>3. ASSUME NEW kept, NEW E \in Expired(d, frame_id'[d], {"shared"}, kept),
               entries' = Without(entries, E), free_regions' = RegionsAfter(E)
        PROVE  CacheOK'
    <2> PICK stamp : stamp = frame_id'[d]
      OBVIOUS
    <2>1. E \in SUBSET DOMAIN entries /\ \A h \in E : entries[h].kind \in {"shared"}
      BY ExpiredAre
    <2>2. SlicesAfter(E) = free_slices
      BY <2>1, OfOtherKinds DEF IInv
    <2> QED
      BY <1>1, <1>3, <2>1, <2>2, Evicted DEF IInv
  <1>4. CacheOK'
    BY <1>2, <1>3 DEF BeginFrame
  <1>5. FrameOK'
    <2>1. requested = {} /\ wanted = {} /\ frame_id[d] \in Nat
      BY <1>1 DEF IInv, FrameOK
    <2>2. frame_id' \in [Docs -> Nat] /\ Stamp' = frame_id[d] + 1 /\ now' # NoDoc
      BY <1>1, <2>1, TextureCacheAssumption DEF IInv, FrameOK, Stamp
    <2>3. Stamp' > 0
      BY <2>1, <2>2
    <2> QED
      BY <1>1, <2>1, <2>2, <2>3 DEF IInv, FrameOK, RequestedStays
  <1>6. ListsOK'
    BY <1>1, ListsPrimed DEF IInv, ListsOK
  <1> QED
    BY <1>4, <1>5, <1>6 DEF IInv

LEMMA RequestKeeps ==
  ASSUME IInv, NEW h \in Handles, Request(h)
  PROVE  IInv'
  <1>1. /\ now # NoDoc /\ h \notin requested \cup wanted
        /\ h \in DOMAIN entries => Valid(h)
        /\ UNCHANGED <<sharedVars, pictureVars, next_id, pending_updates, documents, frame_id,
                       version, now, results, pending_texture_updates>>
    BY DEF Request, unchangedByBuilding, rendererVars
  <1>2. /\ DOMAIN entries' = DOMAIN entries
        /\ \A x \in DOMAIN entries : x # h => entries'[x] = entries[x]
        /\ h \in DOMAIN entries => entries'[h] = [entries[h] EXCEPT !.last_access = Stamp]
    BY <1>1 DEF Request, Valid
  <1>3. Stamp \in Nat /\ Stamp' = Stamp
    BY <1>1 DEF IInv, FrameOK, Stamp
  <1>4. \A x \in DOMAIN entries :
           /\ entries'[x] \in CacheEntry
           /\ entries'[x].kind = entries[x].kind /\ entries'[x].at = entries[x].at
           /\ entries'[x].dropped = entries[x].dropped
    <2> TAKE x \in DOMAIN entries
    <2>1. entries[x] \in CacheEntry
      BY DEF IInv, CacheOK
    <2>2. CASE x = h
      BY <1>2, <1>3, <2>1, <2>2 DEF CacheEntry
    <2>3. CASE x # h
      BY <1>2, <2>1, <2>3
    <2> QED
      BY <2>2, <2>3
  <1>5. CacheOK'
    BY <1>1, <1>2, <1>4, Touched DEF IInv
  <1>6. h \in DOMAIN entries => entries'[h].last_access = Stamp /\ Valid(h)'
    <2> SUFFICES ASSUME h \in DOMAIN entries
                 PROVE  entries'[h].last_access = Stamp /\ Valid(h)'
      OBVIOUS
    <2>1. entries[h] \in CacheEntry /\ Valid(h)
      BY <1>1 DEF IInv, CacheOK
    <2>2. entries'[h] = [entries[h] EXCEPT !.last_access = Stamp]
      BY <1>2
    <2>3. entries'[h].last_access = Stamp /\ entries'[h].dropped = entries[h].dropped
      BY <2>1, <2>2 DEF CacheEntry
    <2> QED
      BY <1>2, <2>1, <2>3 DEF Valid
  <1>7. \A x \in requested : Valid(x)' /\ entries'[x].last_access = Stamp
    BY <1>1, <1>2 DEF IInv, FrameOK, RequestedStays, Valid
  <1>8. \A x \in wanted : Valid(x)' => entries'[x].last_access = Stamp
    BY <1>1, <1>2 DEF IInv, FrameOK, Valid
  <1>9. FrameOK'
    <2>1. CASE Valid(h) /\ requested' = requested \cup {h} /\ wanted' = wanted
      <3>1. RequestedStays'
        BY <1>3, <1>6, <1>7, <2>1 DEF RequestedStays, Valid
      <3>2. \A x \in wanted' : Valid(x)' => entries'[x].last_access = Stamp'
        BY <1>3, <1>8, <2>1
      <3> QED
        BY <1>1, <1>3, <2>1, <3>1, <3>2 DEF IInv, FrameOK
    <2>2. CASE wanted' = wanted \cup {h} /\ requested' = requested
      <3>1. RequestedStays'
        BY <1>3, <1>7, <2>2 DEF RequestedStays
      <3>2. \A x \in wanted' : Valid(x)' => entries'[x].last_access = Stamp'
        BY <1>2, <1>3, <1>6, <1>8, <2>2 DEF Valid
      <3> QED
        BY <1>1, <1>3, <2>2, <3>1, <3>2 DEF IInv, FrameOK
    <2> QED
      BY <2>1, <2>2 DEF Request
  <1>10. ListsOK'
    BY <1>1, ListsPrimed DEF IInv, ListsOK
  <1> QED
    BY <1>5, <1>9, <1>10 DEF IInv

LEMMA EndFrameKeeps ==
  ASSUME IInv, EndFrame
  PROVE  IInv'
  <1>1. /\ now # NoDoc /\ wanted = {} /\ now' = NoDoc /\ requested' = {} /\ wanted' = wanted
        /\ pending_updates' = EmptyList
        /\ UNCHANGED <<regions, free_regions, shared_id, slices, next_id, documents, frame_id,
                       version, pending_texture_updates>>
    BY DEF EndFrame, rendererVars, sharedVars
  <1>2. PICK E \in Expired(now, Stamp, {"standalone", "picture"}, 0) :
          /\ entries' = Without(entries, E)
          /\ free_slices' = SlicesAfter(E)
          /\ results' = Append(results,
               [kind |-> "document", id |-> now, list |-> UpdatesAfter(E), clears |-> clears,
                frame |-> [reads |-> Reads, draws |-> draws, clears |-> clears, rendered |-> FALSE]])
    BY DEF EndFrame
  <1>3. E \in SUBSET DOMAIN entries /\ \A h \in E : entries[h].kind \in {"standalone", "picture"}
    BY <1>2, ExpiredAre
  <1>4. RegionsAfter(E) = free_regions
    BY <1>3, OfOtherKinds DEF IInv
  <1>5. CacheOK'
    BY <1>1, <1>2, <1>3, <1>4, Evicted DEF IInv
  <1>6. FrameOK'
    BY <1>1 DEF IInv, FrameOK, RequestedStays
  <1>7. ListsOK'
    <2> PICK m : m = [kind |-> "document", id |-> now, list |-> UpdatesAfter(E), clears |-> clears,
                      frame |-> [reads |-> Reads, draws |-> draws, clears |-> clears,
                                 rendered |-> FALSE]]
      OBVIOUS
    <2>1. results' = Append(results, m) /\ m.list = UpdatesAfter(E)
      BY <1>2
    <2>2. IsList(m.list)
      BY <1>3, <2>1, UpdatesAreLists DEF IInv
    <2> QED
      BY <1>1, <2>1, <2>2, Sending, EmptyIsList, ListsPrimed DEF IInv, ListsOK
  <1> QED
    BY <1>5, <1>6, <1>7 DEF IInv

-----------------------------------------------------------------------------
(* The renderer.                                                           *)

LEMMA RendererKeeps ==
  ASSUME IInv, Renderer
  PROVE  IInv'
  <1>1. UNCHANGED <<cacheVars, backendVars>>
    BY DEF Renderer, Render, TakeDocument, TakePressure, Take
  <1>2. /\ UNCHANGED <<entries, sharedVars, pictureVars, next_id, pending_updates>>
        /\ UNCHANGED <<documents, frame_id, version, now, requested, wanted>>
    BY <1>1 DEF cacheVars, backendVars, frameVars
  <1>3. CacheOK'
    BY <1>2, SameCache DEF IInv
  <1>4. FrameOK'
    BY <1>2 DEF IInv, FrameOK, RequestedStays, Valid, Stamp
  <1>5. Render => ListsOK'
    BY <1>2, ListsPrimed, EmptyIsList DEF Render, IInv, ListsOK
  <1>6. ASSUME TakeDocument  PROVE ListsOK'
    <2>1. results # <<>> /\ results' = Tail(results)
      BY <1>6 DEF TakeDocument, Take
    <2>2. IsList(pending_texture_updates')
      <3>1. \/ pending_texture_updates' = Then(EmptyList, Head(results).list)
            \/ pending_texture_updates' = Then(pending_texture_updates, Head(results).list)
            \/ pending_texture_updates' = pending_texture_updates
        BY <1>6 DEF TakeDocument
      <3> QED
        BY <2>1, <3>1, Taking, EmptyIsList, ThenIsList DEF IInv, ListsOK
    <2> QED
      BY <1>2, <2>1, <2>2, Taking, ListsPrimed DEF IInv, ListsOK
  <1>7. ASSUME TakePressure  PROVE ListsOK'
    <2>1. results # <<>> /\ results' = Tail(results) /\ pending_texture_updates' = EmptyList
      BY <1>7 DEF TakePressure, Take
    <2> QED
      BY <1>2, <2>1, Taking, EmptyIsList, ListsPrimed DEF IInv, ListsOK
  <1>8. ListsOK'
    BY <1>5, <1>6, <1>7 DEF Renderer
  <1> QED
    BY <1>3, <1>4, <1>8 DEF IInv

-----------------------------------------------------------------------------
(* The invariant and what follows.                                         *)

LEMMA Start == Init => IInv
  <1> SUFFICES ASSUME Init  PROVE IInv
    OBVIOUS
  <1>1. DOMAIN entries = {}
    BY DEF Init, EmptyMap
  <1>2. PlacesHeldOnce
    BY <1>1 DEF Init, PlacesHeldOnce, Layers, Ids
  <1>3. CacheOK
    BY <1>1, <1>2, TextureCacheAssumption DEF Init, CacheOK
  <1>4. FrameOK
    BY DEF Init, FrameOK, RequestedStays
  <1>5. ListsOK
    <2>1. IsList(pending_updates) /\ IsList(pending_texture_updates)
      BY EmptyIsList DEF Init
    <2>2. results = <<>>
      BY DEF Init
    <2> QED
      BY <2>1, <2>2 DEF ListsOK
  <1> QED
    BY <1>3, <1>4, <1>5 DEF IInv

LEMMA Step == IInv /\ [Next]_vars => IInv'
  <1> SUFFICES ASSUME IInv, [Next]_vars  PROVE IInv'
    OBVIOUS
  <1>1. CASE UNCHANGED vars
    <2>1. UNCHANGED <<entries, sharedVars, pictureVars, next_id, pending_updates, documents,
                      frame_id, version, now, requested, wanted, results, pending_texture_updates>>
      BY <1>1 DEF vars, cacheVars, backendVars, frameVars, rendererVars
    <2>2. FrameOK'
      BY <2>1 DEF IInv, FrameOK, RequestedStays, Valid, Stamp
    <2> QED
      BY <2>1, <2>2, SameCache, ListsPrimed DEF IInv, ListsOK
  <1>2. CASE RenderBackend
    <2>1. CASE MemoryPressure \/ ClearCaches
      BY <2>1, MemoryPressureKeeps, ClearCachesKeeps
    <2>2. CASE \E d \in Docs : AddDocument(d) \/ DeleteDocument(d) \/ BeginFrame(d)
      BY <2>2, DocumentsKeep, BeginFrameKeeps
    <2>3. CASE \E ds \in SUBSET Docs : StartGroup(ds)
      BY <2>3, StartGroupKeeps
    <2>4. CASE \E h \in Handles : Delete(h) \/ Request(h)
      BY <2>4, DeleteKeeps, RequestKeeps
    <2>5. CASE \E h \in Handles : UpdateShared(h) \/ UpdateStandalone(h)
      BY <2>5, UpdateSharedMoves, UpdateStandaloneMoves, MoveKeeps
    <2>6. CASE \E h \in Handles : UpdateInPlace(h) \/ UpdatePicture(h)
      BY <2>6, UpdateInPlaceKeeps, UpdatePictureMoves, MoveKeeps
    <2>7. CASE EndFrame
      BY <2>7, EndFrameKeeps
    <2> QED
      BY <1>2, <2>1, <2>2, <2>3, <2>4, <2>5, <2>6, <2>7 DEF RenderBackend
  <1>3. CASE Renderer
    BY <1>3, RendererKeeps
  <1> QED
    BY <1>1, <1>2, <1>3 DEF Next

(* In every state each layer of the shared texture and each slice of the   *)
(* picture texture is free or the place of one entry: what is evicted,     *)
(* moved, cleared or grown loses none and gives none to two.               *)
THEOREM PlacesHold == Spec => []TextureCacheInv
  <1>1. Spec => []IInv
    BY Start, Step, PTL DEF Spec
  <1> QED
    BY <1>1, Implied, PTL

(* What a frame has requested is in the cache until the frame is built,    *)
(* whatever expires to make room for what it requests later.               *)
THEOREM RequestsHold == Spec => []RequestedStays
  <1>1. Spec => []IInv
    BY Start, Step, PTL DEF Spec
  <1> QED
    BY <1>1, Implied, PTL

-----------------------------------------------------------------------------
(* What lists of updates and frames make of the textures.                  *)

Has(texs, a, x) == a \in DOMAIN texs /\ texs[a] = x

LEMMA OverrideHas ==
  ASSUME NEW f, NEW g, NEW a, NEW x
  PROVE  /\ a \in DOMAIN g => (Has(Override(f, g), a, x) <=> g[a] = x)
         /\ a \notin DOMAIN g => (Has(Override(f, g), a, x) <=> Has(f, a, x))
  BY DEF Override, Has

LEMMA AppliedHas ==
  ASSUME NEW l, NEW texs, NEW a, NEW x
  PROVE  /\ a \in DOMAIN l.writes => (Has(Applied(l, texs), a, x) <=> l.writes[a] = x)
         /\ a \notin DOMAIN l.writes /\ a[1] \in l.frees => ~Has(Applied(l, texs), a, x)
         /\ a \notin DOMAIN l.writes /\ a[1] \notin l.frees =>
              (Has(Applied(l, texs), a, x) <=> Has(texs, a, x))
  <1>1. Has(Without(texs, Of(texs, l.frees)), a, x) <=> a[1] \notin l.frees /\ Has(texs, a, x)
    BY DEF Without, Of, Has
  <1> QED
    BY <1>1, OverrideHas DEF Applied

(* A list that is applied after another.                                   *)
LEMMA AppliedThen ==
  ASSUME NEW l1, NEW l2, NEW texs
  PROVE  Applied(Then(l1, l2), texs) = Applied(l2, Applied(l1, texs))
  <1>1. /\ Then(l1, l2).frees = l1.frees \cup l2.frees
        /\ Then(l1, l2).writes = Applied(l2, l1.writes)
    BY DEF Then
  <1> DEFINE left == Applied(Then(l1, l2), texs)
             right == Applied(l2, Applied(l1, texs))
  <1>2. DOMAIN left = DOMAIN right
    BY <1>1 DEF Applied, Override, Without, Of
  <1>3. \A a \in DOMAIN left : left[a] = right[a]
    BY <1>1 DEF Applied, Override, Without, Of
  <1>4. left = [a \in DOMAIN left |-> left[a]] /\ right = [a \in DOMAIN right |-> right[a]]
    BY DEF Applied, Override
  <1> HIDE DEF left, right
  <1>5. left = right
    BY <1>2, <1>3, <1>4
  <1> QED
    BY <1>5 DEF left, right

LEMMA EmptyHas ==
  ASSUME NEW texs, NEW a, NEW x
  PROVE  Has(Applied(EmptyList, texs), a, x) <=> Has(texs, a, x)
  <1>1. DOMAIN EmptyList.writes = {} /\ EmptyList.frees = {}
    BY DEF EmptyList, EmptyMap
  <1> QED
    BY <1>1, AppliedHas

(* A list that only frees.                                                 *)
Frees(l, ids) == DOMAIN l.writes = {} /\ l.frees = ids

LEMMA FreeingHas ==
  ASSUME NEW ids, NEW l, Frees(l, ids), NEW l1, NEW texs, NEW a, NEW x, a[1] \notin ids
  PROVE  Has(Applied(Then(l1, l), texs), a, x) <=> Has(Applied(l1, texs), a, x)
  BY AppliedThen, AppliedHas DEF Frees

LEMMA FreeingFrees ==
  ASSUME NEW ids
  PROVE  Frees(Freeing(ids), ids) /\ Frees([Freeing(ids) EXCEPT !.clear = TRUE], ids)
  BY DEF Frees, Freeing, EmptyList, EmptyMap

LEMMA WritingHas ==
  ASSUME NEW at, NEW data, NEW l1, NEW texs, NEW a, NEW x
  PROVE  /\ a = at => (Has(Applied(Then(l1, Writing(at, data)), texs), a, x) <=> data = x)
         /\ a # at => (Has(Applied(Then(l1, Writing(at, data)), texs), a, x)
                         <=> Has(Applied(l1, texs), a, x))
  <1> DEFINE l == Writing(at, data)
  <1>1. DOMAIN l.writes = {at} /\ l.frees = {} /\ l.writes[at] = data
    BY DEF Writing, EmptyList
  <1> HIDE DEF l
  <1>2. Applied(Then(l1, l), texs) = Applied(l, Applied(l1, texs))
    BY AppliedThen
  <1>3. /\ a = at => (Has(Applied(Then(l1, l), texs), a, x) <=> data = x)
        /\ a # at => (Has(Applied(Then(l1, l), texs), a, x) <=> Has(Applied(l1, texs), a, x))
    BY <1>1, <1>2, AppliedHas
  <1> QED
    BY <1>3 DEF l

(* The frames that have not drawn, and what the textures are when they     *)
(* have.                                                                   *)
Undrawn(st) == {d \in DOMAIN st.frames : ~st.frames[d].rendered}
DrawnTextures(st) == DrawnStore(st).textures
Sent(st) == Applied(st.list, st.textures)

DrawnAt(st, a) == {d \in Undrawn(st) : a \in DOMAIN st.frames[d].draws}

LEMMA DrawnHas ==
  ASSUME NEW st, NEW a, NEW x
  PROVE  /\ DrawnAt(st, a) = {} => (Has(DrawnTextures(st), a, x) <=> Has(Sent(st), a, x))
         /\ DrawnAt(st, a) # {} /\ (\A d \in DrawnAt(st, a) : st.frames[d].draws[a] = x) =>
              Has(DrawnTextures(st), a, x)
  <1> DEFINE undrawn == {d \in DOMAIN st.frames : ~st.frames[d].rendered}
             at == UNION {DOMAIN st.frames[d].draws : d \in undrawn}
             dr == [b \in at |->
                      st.frames[CHOOSE d \in undrawn : b \in DOMAIN st.frames[d].draws].draws[b]]
  <1>1. DrawnTextures(st) = Override(Sent(st), dr)
    BY DEF DrawnTextures, DrawnStore, DrawnBy, Sent
  <1>2. undrawn = Undrawn(st)
    BY DEF Undrawn
  <1>3. a \in at <=> DrawnAt(st, a) # {}
    BY <1>2 DEF DrawnAt
  <1>4. DOMAIN dr = at
    OBVIOUS
  <1>5. a \in at =>
          dr[a] = st.frames[CHOOSE d \in undrawn : a \in DOMAIN st.frames[d].draws].draws[a]
    OBVIOUS
  <1>6. a \in at => (CHOOSE d \in undrawn : a \in DOMAIN st.frames[d].draws) \in DrawnAt(st, a)
    BY <1>2 DEF DrawnAt
  <1> HIDE DEF dr, at, undrawn
  <1>7. ASSUME DrawnAt(st, a) = {}
        PROVE  Has(DrawnTextures(st), a, x) <=> Has(Sent(st), a, x)
    BY <1>1, <1>3, <1>4, <1>7, OverrideHas
  <1>8. ASSUME DrawnAt(st, a) # {}, \A d \in DrawnAt(st, a) : st.frames[d].draws[a] = x
        PROVE  Has(DrawnTextures(st), a, x)
    <2>1. a \in DOMAIN dr /\ dr[a] = x
      BY <1>3, <1>4, <1>5, <1>6, <1>8
    <2> QED
      BY <1>1, <2>1, OverrideHas
  <1> QED
    BY <1>7, <1>8

(* What has drawn does not draw again.                                     *)
IsFrame(frame) ==
  /\ frame = [x \in {"reads", "draws", "clears", "rendered"} |-> frame[x]]
  /\ frame.rendered \in BOOLEAN

AreFrames(frames) == \A d \in DOMAIN frames : IsFrame(frames[d])

LEMMA RenderedFrame ==
  ASSUME NEW frame, IsFrame(frame), NEW after, after = [frame EXCEPT !.rendered = TRUE]
  PROVE  /\ IsFrame(after) /\ after.rendered = TRUE /\ [after EXCEPT !.rendered = TRUE] = after
         /\ after.reads = frame.reads /\ after.draws = frame.draws
         /\ after.clears = frame.clears
  <1>1. /\ after = [x \in {"reads", "draws", "clears", "rendered"} |-> after[x]]
        /\ after.rendered = TRUE
        /\ after.reads = frame.reads /\ after.draws = frame.draws
        /\ after.clears = frame.clears
    BY DEF IsFrame
  <1>2. [after EXCEPT !.rendered = TRUE] = after
    BY <1>1
  <1> QED
    BY <1>1, <1>2 DEF IsFrame

LEMMA RenderedFrames ==
  ASSUME NEW frames, AreFrames(frames)
  PROVE  /\ DOMAIN Rendered(frames) = DOMAIN frames /\ AreFrames(Rendered(frames))
         /\ Rendered(Rendered(frames)) = Rendered(frames)
         /\ \A d \in DOMAIN frames :
              /\ Rendered(frames)[d].rendered = TRUE
              /\ Rendered(frames)[d].reads = frames[d].reads
              /\ Rendered(frames)[d].clears = frames[d].clears
  <1> PICK frs : frs = Rendered(frames)
    OBVIOUS
  <1>1. DOMAIN frs = DOMAIN frames
    BY DEF Rendered
  <1>2. ASSUME NEW d \in DOMAIN frames
        PROVE  /\ IsFrame(frs[d]) /\ frs[d].rendered = TRUE
               /\ [frs[d] EXCEPT !.rendered = TRUE] = frs[d]
               /\ frs[d].reads = frames[d].reads /\ frs[d].draws = frames[d].draws
               /\ frs[d].clears = frames[d].clears
    <2>1. IsFrame(frames[d]) /\ frs[d] = [frames[d] EXCEPT !.rendered = TRUE]
      BY DEF AreFrames, Rendered
    <2> QED
      BY <2>1, RenderedFrame
  <1>3. Rendered(frs) = [d \in DOMAIN frs |-> frs[d]]
    BY <1>1, <1>2 DEF Rendered
  <1>4. frs = [d \in DOMAIN frs |-> frs[d]]
    BY DEF Rendered
  <1> QED
    BY <1>1, <1>2, <1>3, <1>4 DEF AreFrames

LEMMA DrawnIs ==
  ASSUME NEW st, AreFrames(st.frames)
  PROVE  /\ DrawnStore(st).frames = Rendered(st.frames) /\ DrawnStore(st).list = EmptyList
         /\ AreFrames(DrawnStore(st).frames) /\ DOMAIN DrawnStore(st).frames = DOMAIN st.frames
         /\ Undrawn(DrawnStore(st)) = {}
         /\ DrawnStore(DrawnStore(st)) = DrawnStore(st)
         /\ DrawnTextures(DrawnStore(st)) = DrawnTextures(st)
         /\ \A d \in DOMAIN st.frames : /\ DrawnStore(st).frames[d].reads = st.frames[d].reads
                                       /\ DrawnStore(st).frames[d].clears = st.frames[d].clears
  <1> PICK s : s = DrawnStore(st)
    OBVIOUS
  <1>1. /\ s.frames = Rendered(st.frames) /\ s.list = EmptyList
        /\ s.textures = DrawnBy(st.frames, Applied(st.list, st.textures))
        /\ s = [textures |-> s.textures, list |-> EmptyList, frames |-> s.frames]
    BY DEF DrawnStore
  <1>2. /\ AreFrames(s.frames) /\ DOMAIN s.frames = DOMAIN st.frames
        /\ Rendered(s.frames) = s.frames
    BY <1>1, RenderedFrames
  <1>3. ASSUME NEW d \in DOMAIN st.frames
        PROVE  /\ s.frames[d].rendered = TRUE
               /\ s.frames[d].reads = st.frames[d].reads
               /\ s.frames[d].clears = st.frames[d].clears
    <2>1. IsFrame(st.frames[d]) /\ s.frames[d] = [st.frames[d] EXCEPT !.rendered = TRUE]
      BY <1>1 DEF AreFrames, Rendered
    <2> QED
      BY <2>1, RenderedFrame
  <1>4. Undrawn(s) = {}
    BY <1>2, <1>3 DEF Undrawn
  <1>5. s.textures = [a \in DOMAIN s.textures |-> s.textures[a]]
    BY <1>1 DEF DrawnBy, Override
  <1>6. Applied(EmptyList, s.textures) = s.textures
    <2>1. DOMAIN EmptyList.writes = {} /\ EmptyList.frees = {}
      BY DEF EmptyList, EmptyMap
    <2>2. Of(s.textures, EmptyList.frees) = {}
      BY <2>1 DEF Of
    <2>3. Without(s.textures, Of(s.textures, EmptyList.frees)) = s.textures
      BY <1>5, <2>2 DEF Without
    <2> QED
      BY <1>5, <2>1, <2>3 DEF Applied, Override
  <1>7. DrawnBy(s.frames, s.textures) = s.textures
    <2> DEFINE undrawn == {d \in DOMAIN s.frames : ~s.frames[d].rendered}
               at == UNION {DOMAIN s.frames[d].draws : d \in undrawn}
               dr == [a \in at |->
                        s.frames[CHOOSE d \in undrawn : a \in DOMAIN s.frames[d].draws].draws[a]]
    <2>1. at = {}
      BY <1>4 DEF Undrawn
    <2>2. DOMAIN dr = {}
      BY <2>1
    <2>3. DrawnBy(s.frames, s.textures) = Override(s.textures, dr)
      BY DEF DrawnBy
    <2> HIDE DEF dr
    <2> QED
      BY <1>5, <2>2, <2>3 DEF Override
  <1>8. DrawnStore(s) = s
    BY <1>1, <1>2, <1>6, <1>7 DEF DrawnStore
  <1> QED
    BY <1>1, <1>2, <1>4, <1>8, <1>3 DEF DrawnTextures

-----------------------------------------------------------------------------
(* What the renderer may come to have: it takes what is under way, message *)
(* by message, and may draw before and after each.  The frames of the      *)
(* cache have to be right on each of these paths.                          *)

Steps(st) == {st, DrawnStore(st)}

IsPath(f, st, ms) ==
  /\ f[0] \in Steps(st)
  /\ \A k \in 1..Len(ms) : f[k] \in Steps(AfterMessage(f[k - 1], ms[k]))

LEMMA Smallest ==
  ASSUME NEW T \in SUBSET Nat, T # {}
  PROVE  \E x \in T : \A y \in T : x <= y
  <1>1. PICK R : R = {ss \in Nat \X Nat : ss[1] < ss[2]} /\ IsWellFoundedOn(R, Nat)
    BY NatLessThanWellFounded, Zenon DEF OpToRel
  <1>2. PICK x \in T : \A y \in T : <<y, x>> \notin R
    BY <1>1, WFMin
  <1>3. \A y \in T : ~(y < x)
    BY <1>1, <1>2
  <1> QED
    BY <1>3

(* The path on which it only draws when it has to.                         *)
Straight(st, ms, f, n) == IF n = 0 THEN st ELSE AfterMessage(f[n - 1], ms[n])

LEMMA StraightExists ==
  ASSUME NEW st, NEW ms, NEW m \in Nat
  PROVE  \E f : f = [n \in 0..m |-> Straight(st, ms, f, n)]
  <1> DEFINE Missing(k) == ~ \E f : f = [n \in 0..k |-> Straight(st, ms, f, n)]
             T == {k \in Nat : Missing(k)}
  <1> SUFFICES ASSUME T # {} PROVE FALSE
    OBVIOUS
  <1>1. PICK k \in T : \A j \in T : k <= j
    BY Smallest
  <1>2. CASE k = 0
    <2> DEFINE f == [n \in 0..0 |-> st]
    <2>1. \A n \in 0..0 : Straight(st, ms, f, n) = st
      BY DEF Straight
    <2>2. f = [n \in 0..0 |-> Straight(st, ms, f, n)]
      BY <2>1
    <2> QED
      BY <1>1, <1>2, <2>2
  <1>3. CASE k # 0
    <2>1. k - 1 \in Nat /\ k - 1 \notin T
      BY <1>1, <1>3
    <2>2. PICK g : g = [n \in 0..(k - 1) |-> Straight(st, ms, g, n)]
      BY <2>1
    <2> DEFINE f == [n \in 0..k |-> Straight(st, ms, g, n)]
    <2>3. \A n \in 0..k : n # 0 => n - 1 \in 0..(k - 1) /\ n - 1 \in 0..k
      BY <1>1
    <2>4. \A n \in 0..(k - 1) : f[n] = g[n]
      BY <1>1, <2>2
    <2>5. \A n \in 0..k : Straight(st, ms, f, n) = Straight(st, ms, g, n)
      <3> HIDE DEF f
      <3> QED
        BY <2>3, <2>4 DEF Straight
    <2>6. f = [n \in 0..k |-> Straight(st, ms, f, n)]
      BY <2>5
    <2> QED
      BY <1>1, <2>6
  <1> QED
    BY <1>2, <1>3

LEMMA StraightIsPath ==
  ASSUME NEW st, NEW ms, Len(ms) \in Nat,
         NEW f, f = [n \in 0..Len(ms) |-> Straight(st, ms, f, n)]
  PROVE  IsPath(f, st, ms) /\ f[0] = st
  <1>1. f[0] = st
    BY DEF Straight
  <1>2. \A k \in 1..Len(ms) : f[k] = AfterMessage(f[k - 1], ms[k])
    BY DEF Straight
  <1> QED
    BY <1>1, <1>2 DEF IsPath, Steps

LEMMA OnceDeliveredIs ==
  ASSUME Len(results) \in Nat
  PROVE  \E f : /\ f = [n \in 0..Len(results) |-> Straight(Store, results, f, n)]
                /\ OnceDelivered =
                     Override(Applied(pending_updates, DrawnTextures(f[Len(results)])), draws)
  <1>1. \E f : f = [n \in 0..Len(results) |-> Straight(Store, results, f, n)]
    BY StraightExists
  <1> DEFINE g == CHOOSE f : f = [n \in 0..Len(results) |->
                    IF n = 0 THEN Store ELSE AfterMessage(f[n - 1], results[n])]
  <1>2. g = [n \in 0..Len(results) |-> Straight(Store, results, g, n)]
    BY <1>1, Zenon DEF Straight
  <1>3. OnceDelivered =
          Override(Applied(pending_updates, DrawnStore(g[Len(results)]).textures), draws)
    BY Zenon DEF OnceDelivered
  <1> HIDE DEF g
  <1> QED
    BY <1>2, <1>3 DEF DrawnTextures

(* A path is also one without its last message, one from before the first  *)
(* message was taken, and one from before the renderer drew.               *)
LEMMA PathBefore ==
  ASSUME NEW f, NEW st, NEW ms, Len(ms) \in Nat, NEW more, Len(more) = Len(ms) + 1,
         \A k \in 1..Len(ms) : more[k] = ms[k], IsPath(f, st, more)
  PROVE  IsPath(f, st, ms) /\ f[Len(more)] \in Steps(AfterMessage(f[Len(ms)], more[Len(more)]))
  <1>1. Len(more) \in 1..Len(more) /\ Len(more) - 1 = Len(ms)
    BY Z3
  <1>2. \A k \in 1..Len(ms) : k \in 1..Len(more)
    BY Z3
  <1> QED
    BY <1>1, <1>2 DEF IsPath

LEMMA PathAfterDrawing ==
  ASSUME NEW f, NEW st, NEW ms, AreFrames(st.frames), IsPath(f, DrawnStore(st), ms)
  PROVE  IsPath(f, st, ms)
  BY DrawnIs DEF IsPath, Steps

Longer(f, st, n) == [k \in 0..n |-> IF k = 0 THEN st ELSE f[k - 1]]

IsRest(rest, ms) ==
  /\ Len(ms) \in Nat \ {0} /\ Len(rest) = Len(ms) - 1
  /\ \A k \in 1..Len(rest) : rest[k] = ms[k + 1]

IsLonger(g, f, rest) == \A k \in 0..Len(rest) : g[k + 1] = f[k]

LEMMA PathAfterTaking ==
  ASSUME NEW f, NEW st, NEW ms, NEW rest, IsRest(rest, ms),
         IsPath(f, AfterMessage(st, ms[1]), rest)
  PROVE  \E g : IsPath(g, st, ms) /\ IsLonger(g, f, rest)
  <1> PICK g : g = Longer(f, st, Len(ms))
    OBVIOUS
  <1>1. g[0] = st /\ \A k \in 1..Len(ms) : g[k] = f[k - 1]
    BY DEF Longer, IsRest
  <1>2. \A k \in 0..Len(rest) : k + 1 \in 1..Len(ms) /\ g[k + 1] = f[k]
    BY <1>1 DEF IsRest
  <1>3. ASSUME NEW k \in 1..Len(ms)  PROVE g[k] \in Steps(AfterMessage(g[k - 1], ms[k]))
    <2>1. CASE k = 1
      BY <1>1, <2>1 DEF IsPath, IsRest
    <2>2. CASE k # 1
      <3>1. k - 1 \in 1..Len(rest) /\ k - 1 \in 1..Len(ms) /\ (k - 1) + 1 = k
        BY <2>2 DEF IsRest
      <3>2. g[k] = f[k - 1] /\ g[k - 1] = f[(k - 1) - 1] /\ rest[k - 1] = ms[k]
        BY <1>1, <3>1 DEF IsRest
      <3> QED
        BY <3>1, <3>2 DEF IsPath
    <2> QED
      BY <2>1, <2>2
  <1> QED
    BY <1>1, <1>2, <1>3 DEF IsPath, IsRest, IsLonger, Steps

-----------------------------------------------------------------------------
(* That what is in the cache has its data, and that the frames on their    *)
(* way find theirs.                                                        *)

(* One document has tiles.  Others may have some if no debugger clears the *)
(* caches.                                                                 *)
TilesOfOneDocument == \A t, u \in Tiles : \A d \in Users[t], e \in Users[u] : d = e

ClearsSafely == DebugClears => TilesOfOneDocument

(* What this frame draws is in entries that it requests, and whose handles *)
(* are on the list of its document.                                        *)
DrawsOK ==
  /\ \A b \in DOMAIN draws : \E h \in requested \ Images :
       /\ h \in DOMAIN entries /\ entries[h].at = b /\ entries[h].owner = now
       /\ draws[b] = <<h, version[h]>>
  /\ \A h \in DOMAIN entries : entries[h].owner \in Users[h]
  /\ \A h \in wanted \cap DOMAIN entries : h \notin Tasks
  /\ \A h \in requested \cup wanted : now \in Users[h]

MessagesOK ==
  /\ clears \in Nat /\ taken_clears \in 0..clears
  /\ \A k \in 1..Len(results) :
       /\ results[k].clears \in taken_clears..clears
       /\ \A j \in 1..k : results[j].clears <= results[k].clears

(* Where a frame of d that has not drawn yet draws x: in an entry of d, in *)
(* one that is gone with its texture, or, after a clear of everything, in  *)
(* a slice that no other document is given.                                *)
NoEntryAt(b) == \A g \in DOMAIN entries : entries[g].at # b

DrawStands(d, b, x) ==
  \/ \E g \in DOMAIN entries \ Images :
       entries[g].at = b /\ entries[g].owner = d /\ x = <<g, version[g]>>
  \/ NoEntryAt(b) /\ b[1] \in 1..next_id - 1 /\ b[1] # shared_id
  \/ NoEntryAt(b) /\ b[1] = Picture /\ \A t \in Tiles : Users[t] \subseteq {d}

DrawsStand(st) ==
  \A d \in Undrawn(st) \ {now} : \A b \in DOMAIN st.frames[d].draws :
    DrawStands(d, b, st.frames[d].draws[b])

(* What a frame of d reads stays until the next frame of d is built.       *)
ReadStands(d, u) ==
  /\ Users[u.of] = {d} /\ u.of \in DOMAIN entries
  /\ entries[u.of].at = u.at /\ u.data = <<u.of, version[u.of]>>

ReadsStand(st) ==
  \A d \in DOMAIN st.frames \ {now} : st.frames[d].clears = clears =>
    \A u \in st.frames[d].reads : ~u.shared => ReadStands(d, u)

FilledIn(texs, h) ==
  Has(Override(Applied(pending_updates, texs), draws), entries[h].at, <<h, version[h]>>)

Fills(st) == \A h \in DOMAIN entries \ wanted : FilledIn(DrawnTextures(st), h)

EndOK(st) == DrawsStand(st) /\ ReadsStand(st) /\ Fills(st)

(* The frames that the renderer has after a message of the c-th clear.     *)
FramesOf(st, c) ==
  /\ AreFrames(st.frames) /\ DOMAIN st.frames \subseteq Docs
  /\ \A d \in DOMAIN st.frames : st.frames[d].clears \in 0..c

Intact(st, c) ==
  \A d \in DOMAIN st.frames : st.frames[d].clears = c =>
    \A u \in st.frames[d].reads : ~u.shared => Has(DrawnTextures(st), u.at, u.data)

ClearsAt(k) == IF k = 0 THEN taken_clears ELSE results[k].clears

Delivery ==
  \A f : IsPath(f, Store, results) =>
    /\ EndOK(f[Len(results)])
    /\ \A k \in 0..Len(results) : FramesOf(f[k], ClearsAt(k)) /\ Intact(f[k], ClearsAt(k))

DInv == DrawsOK /\ MessagesOK /\ (~panicked => Delivery) /\ (panicked => FrameIntact)

LEMMA ResultsAre ==
  ASSUME ListsOK
  PROVE  Len(results) \in Nat /\ DOMAIN results = 1..Len(results)
  BY DEF ListsOK

(* A path ends with the frames of the clears so far.                       *)
LEMMA EndIs ==
  ASSUME ListsOK, MessagesOK, Delivery, NEW f, IsPath(f, Store, results)
  PROVE  EndOK(f[Len(results)]) /\ FramesOf(f[Len(results)], clears)
  <1>1. Len(results) \in Nat /\ Len(results) \in 0..Len(results)
    BY ResultsAre
  <1>2. FramesOf(f[Len(results)], ClearsAt(Len(results))) /\ EndOK(f[Len(results)])
    BY <1>1 DEF Delivery
  <1>3. ClearsAt(Len(results)) \in 0..clears /\ clears \in Nat
    BY <1>1 DEF MessagesOK, ClearsAt
  <1>4. \A c \in 0..ClearsAt(Len(results)) : c \in 0..clears
    BY <1>3
  <1> QED
    BY <1>2, <1>4 DEF FramesOf

(* What is on its way stays as it is while the backend builds.             *)
EndsKept == \A st : FramesOf(st, clears) /\ EndOK(st) => EndOK(st)'

LEMMA NotSent ==
  ASSUME ListsOK, MessagesOK, Delivery, EndsKept, UNCHANGED <<results, rendererVars>>,
         clears' \in {clears, clears + 1}
  PROVE  MessagesOK' /\ Delivery'
  <1>1. /\ UNCHANGED <<results, textures, pending_texture_updates, active_documents, taken_clears>>
        /\ Store' = Store
    BY DEF rendererVars, Store
  <1>2. MessagesOK'
    <2>1. \A c \in taken_clears..clears : c \in taken_clears'..clears'
      BY <1>1 DEF MessagesOK
    <2>2. clears' \in Nat /\ taken_clears' \in 0..clears'
      BY <1>1 DEF MessagesOK
    <2> QED
      BY <1>1, <2>1, <2>2 DEF MessagesOK
  <1>3. ASSUME NEW f, IsPath(f, Store, results)
        PROVE  EndOK(f[Len(results)])'
    <2> PICK st : st = f[Len(results)]
      OBVIOUS
    <2>1. EndOK(st)'
      BY <1>3, EndIs DEF EndsKept
    <2> QED
      BY <1>1, <2>1
  <1>4. Delivery'
    BY <1>1, <1>3 DEF Delivery, ClearsAt
  <1> QED
    BY <1>2, <1>4

-----------------------------------------------------------------------------
(* Steps that leave the entries of a document where they are.              *)

EntriesStand(d) ==
  \A g \in DOMAIN entries : entries[g].owner = d /\ (g \notin Images \/ Users[g] = {d}) =>
    /\ g \in DOMAIN entries' /\ entries'[g].at = entries[g].at /\ entries'[g].owner = d
    /\ version'[g] = version[g]

PlacesStay(d) ==
  \A b : /\ NoEntryAt(b)
         /\ \/ b[1] \in 1..next_id - 1 /\ b[1] # shared_id
            \/ b[1] = Picture /\ \A t \in Tiles : Users[t] \subseteq {d}
         => NoEntryAt(b)'

IdsGrow == next_id' \in Nat /\ next_id' >= next_id /\ shared_id' \in {0, shared_id, next_id}

LEMMA DrawStandsStill ==
  ASSUME CacheOK, IdsGrow, NEW d, EntriesStand(d), PlacesStay(d), NEW b, NEW x,
         DrawStands(d, b, x)
  PROVE  DrawStands(d, b, x)'
  <1>1. CASE \E g \in DOMAIN entries \ Images :
               entries[g].at = b /\ entries[g].owner = d /\ x = <<g, version[g]>>
    BY <1>1 DEF EntriesStand, DrawStands
  <1>2. CASE NoEntryAt(b) /\ b[1] \in 1..next_id - 1 /\ b[1] # shared_id
    <2>1. NoEntryAt(b)'
      BY <1>2 DEF PlacesStay
    <2>2. b[1] \in 1..next_id' - 1 /\ b[1] # shared_id'
      BY <1>2 DEF IdsGrow, CacheOK
    <2> QED
      BY <2>1, <2>2 DEF DrawStands
  <1>3. CASE NoEntryAt(b) /\ b[1] = Picture /\ \A t \in Tiles : Users[t] \subseteq {d}
    <2>1. NoEntryAt(b)'
      BY <1>3 DEF PlacesStay
    <2> QED
      BY <1>3, <2>1 DEF DrawStands
  <1> QED
    BY <1>1, <1>2, <1>3 DEF DrawStands

LEMMA ReadStandsStill ==
  ASSUME CacheOK, DrawsOK, NEW d, EntriesStand(d), NEW u, ReadStands(d, u)
  PROVE  ReadStands(d, u)'
  BY DEF DrawsOK, EntriesStand, ReadStands

LEMMA StandStill ==
  ASSUME CacheOK, DrawsOK, IdsGrow, UNCHANGED clears,
         \A d \in Docs \ {now'} : d # now /\ EntriesStand(d) /\ PlacesStay(d),
         NEW st, FramesOf(st, clears), DrawsStand(st), ReadsStand(st)
  PROVE  DrawsStand(st)' /\ ReadsStand(st)'
  <1>1. ASSUME NEW d \in Undrawn(st) \ {now'}, NEW b \in DOMAIN st.frames[d].draws
        PROVE  DrawStands(d, b, st.frames[d].draws[b])'
    <2>1. d \in Docs \ {now'} /\ d \in Undrawn(st) \ {now}
      BY DEF FramesOf, Undrawn
    <2>2. DrawStands(d, b, st.frames[d].draws[b])
      BY <2>1 DEF DrawsStand
    <2> QED
      BY <2>1, <2>2, DrawStandsStill
  <1>2. ASSUME NEW d \in DOMAIN st.frames \ {now'}, st.frames[d].clears = clears',
               NEW u \in st.frames[d].reads, ~u.shared
        PROVE  ReadStands(d, u)'
    <2>1. d \in Docs \ {now'} /\ d \in DOMAIN st.frames \ {now}
      BY DEF FramesOf
    <2>2. ReadStands(d, u)
      BY <1>2, <2>1 DEF ReadsStand
    <2> QED
      BY <2>1, <2>2, ReadStandsStill
  <1>3. DrawsStand(st)'
    BY <1>1 DEF DrawsStand
  <1>4. ReadsStand(st)'
    BY <1>2 DEF ReadsStand
  <1> QED
    BY <1>3, <1>4

(* What is in a place in the end.                                          *)
LEMMA FinalHas ==
  ASSUME NEW l, NEW texs, NEW dr, NEW a, NEW x
  PROVE  Has(Override(Applied(l, texs), dr), a, x) <=>
           IF a \in DOMAIN dr THEN dr[a] = x ELSE Has(Applied(l, texs), a, x)
  BY OverrideHas

LEMMA FillStays ==
  ASSUME NEW texs, NEW h, FilledIn(texs, h), entries'[h].at = entries[h].at,
         version'[h] = version[h], UNCHANGED draws,
         \/ UNCHANGED pending_updates
         \/ \E l, ids : /\ pending_updates' = Then(pending_updates, l) /\ Frees(l, ids)
                        /\ entries[h].at[1] \notin ids
  PROVE  FilledIn(texs, h)'
  <1> PICK a, x : a = entries[h].at /\ x = <<h, version[h]>>
    OBVIOUS
  <1>1. Has(Applied(pending_updates', texs), a, x) <=> Has(Applied(pending_updates, texs), a, x)
    BY FreeingHas
  <1>2. /\ FilledIn(texs, h) <=> Has(Override(Applied(pending_updates, texs), draws), a, x)
        /\ FilledIn(texs, h)' <=> Has(Override(Applied(pending_updates', texs), draws'), a, x)
    BY DEF FilledIn
  <1> QED
    BY <1>1, <1>2, FinalHas

(* Nothing that counts changes.                                            *)
LEMMA TouchKeepsEnds ==
  ASSUME IInv, DrawsOK, DOMAIN entries' = DOMAIN entries,
         \A g \in DOMAIN entries : entries'[g].at = entries[g].at
                                   /\ entries'[g].owner = entries[g].owner,
         wanted \subseteq wanted',
         UNCHANGED <<shared_id, next_id, version, now, pending_updates, draws, clears>>
  PROVE  EndsKept
  <1> SUFFICES ASSUME NEW st, FramesOf(st, clears), EndOK(st)  PROVE EndOK(st)'
    BY DEF EndsKept
  <1>1. IdsGrow
    BY DEF IdsGrow, IInv, CacheOK
  <1>2. \A d : EntriesStand(d) /\ PlacesStay(d)
    BY DEF EntriesStand, PlacesStay, NoEntryAt
  <1>3. DrawsStand(st)' /\ ReadsStand(st)'
    BY <1>1, <1>2, StandStill DEF IInv, EndOK
  <1>4. Fills(st)'
    <2> SUFFICES ASSUME NEW h \in DOMAIN entries \ wanted
                 PROVE  FilledIn(DrawnTextures(st), h)'
      BY DEF Fills
    <2>1. FilledIn(DrawnTextures(st), h)
      BY DEF EndOK, Fills
    <2> QED
      BY <2>1, FillStays
  <1> QED
    BY <1>3, <1>4 DEF EndOK

-----------------------------------------------------------------------------
(* Clearing.  A frame from before a clear may still draw where it was told *)
(* to; nothing else comes there.                                           *)

LEMMA NothingRead ==
  ASSUME NEW st, FramesOf(st, clears), clears \in Nat, clears' = clears + 1
  PROVE  ReadsStand(st)'
  <1>1. \A d \in DOMAIN st.frames : st.frames[d].clears # clears'
    BY DEF FramesOf
  <1> QED
    BY <1>1 DEF ReadsStand

LEMMA ClearAllEnds ==
  ASSUME IInv, DrawsOK, MessagesOK, TilesOfOneDocument, ClearAll, UNCHANGED <<next_id, now>>
  PROVE  EndsKept
  <1>1. DOMAIN entries' = {} /\ shared_id' = 0 /\ clears' = clears + 1
    BY DEF ClearAll, EmptyMap
  <1>2. \A b : NoEntryAt(b)'
    BY <1>1 DEF NoEntryAt
  <1>3. next_id \in Nat /\ shared_id \in Nat /\ shared_id < next_id
    BY DEF IInv, CacheOK
  <1>4. ASSUME NEW d, NEW b, NEW x, DrawStands(d, b, x)
        PROVE  DrawStands(d, b, x)'
    <2>1. CASE \E g \in DOMAIN entries \ Images :
                 entries[g].at = b /\ entries[g].owner = d /\ x = <<g, version[g]>>
      <3>1. PICK g \in DOMAIN entries : entries[g].at = b /\ entries[g].owner = d
        BY <2>1
      <3>2. PlacedAsKind(g) /\ entries[g].kind \in Kinds /\ d \in Users[g]
        BY <3>1 DEF IInv, CacheOK, CacheEntry, DrawsOK
      <3>3. CASE entries[g].kind = "picture"
        <4>1. b[1] = Picture /\ g \in Tiles
          BY <3>1, <3>2, <3>3 DEF PlacedAsKind
        <4>2. \A t \in Tiles : Users[t] \subseteq {d}
          BY <3>2, <4>1 DEF TilesOfOneDocument
        <4> QED
          BY <1>2, <4>1, <4>2 DEF DrawStands
      <3>4. CASE entries[g].kind # "picture"
        <4>1. b[1] \in 1..next_id - 1
          BY <1>3, <3>1, <3>2, <3>4 DEF PlacedAsKind, Kinds, IInv, CacheOK
        <4> QED
          BY <1>1, <1>2, <4>1 DEF DrawStands
      <3> QED
        BY <3>3, <3>4
    <2>2. CASE NoEntryAt(b) /\ b[1] \in 1..next_id - 1 /\ b[1] # shared_id
      BY <1>1, <1>2, <2>2 DEF DrawStands
    <2>3. CASE NoEntryAt(b) /\ b[1] = Picture /\ \A t \in Tiles : Users[t] \subseteq {d}
      BY <1>2, <2>3 DEF DrawStands
    <2> QED
      BY <1>4, <2>1, <2>2, <2>3 DEF DrawStands
  <1>5. ASSUME NEW st, FramesOf(st, clears), EndOK(st)  PROVE EndOK(st)'
    <2>1. ReadsStand(st)'
      BY <1>1, <1>5, NothingRead DEF MessagesOK
    <2>2. DrawsStand(st)'
      BY <1>4, <1>5 DEF EndOK, DrawsStand
    <2>3. Fills(st)'
      BY <1>1 DEF Fills
    <2> QED
      BY <2>1, <2>2, <2>3 DEF EndOK
  <1> QED
    BY <1>5 DEF EndsKept

LEMMA ClearSharedEnds ==
  ASSUME IInv, DrawsOK, MessagesOK, ClearShared, wanted = {}, UNCHANGED <<next_id, now, version, draws>>
  PROVE  EndsKept
  <1>1. /\ DOMAIN entries' = {h \in DOMAIN entries : entries[h].kind # "shared"}
        /\ \A h \in DOMAIN entries' : entries'[h] = entries[h]
        /\ shared_id' = 0 /\ clears' = clears + 1
        /\ pending_updates' = Then(pending_updates, [Freeing({shared_id} \ {0}) EXCEPT !.clear = TRUE])
    BY DEF ClearShared, Without
  <1>2. next_id \in Nat /\ shared_id \in Nat /\ shared_id < next_id
    BY DEF IInv, CacheOK
  <1>3. \A b : NoEntryAt(b) => NoEntryAt(b)'
    BY <1>1 DEF NoEntryAt
  <1>4. ASSUME NEW d, NEW b, NEW x, DrawStands(d, b, x)
        PROVE  DrawStands(d, b, x)'
    <2>1. CASE \E g \in DOMAIN entries \ Images :
                 entries[g].at = b /\ entries[g].owner = d /\ x = <<g, version[g]>>
      <3>1. PICK g \in DOMAIN entries \ Images :
                 entries[g].at = b /\ entries[g].owner = d /\ x = <<g, version[g]>>
        BY <2>1
      <3>2. PlacedAsKind(g)
        BY <3>1 DEF IInv, CacheOK
      <3>3. CASE entries[g].kind = "shared"
        <4>1. b[1] \in 1..next_id - 1
          BY <1>2, <3>1, <3>2, <3>3 DEF PlacedAsKind, IInv, CacheOK
        <4>2. NoEntryAt(b)'
          BY <1>1, <3>1, <3>3, Apart DEF NoEntryAt, IInv
        <4> QED
          BY <1>1, <4>1, <4>2 DEF DrawStands
      <3>4. CASE entries[g].kind # "shared"
        BY <1>1, <3>1, <3>4 DEF DrawStands
      <3> QED
        BY <3>3, <3>4
    <2>2. CASE NoEntryAt(b) /\ b[1] \in 1..next_id - 1 /\ b[1] # shared_id
      BY <1>1, <1>3, <2>2 DEF DrawStands
    <2>3. CASE NoEntryAt(b) /\ b[1] = Picture /\ \A t \in Tiles : Users[t] \subseteq {d}
      BY <1>3, <2>3 DEF DrawStands
    <2> QED
      BY <1>4, <2>1, <2>2, <2>3 DEF DrawStands
  <1>5. ASSUME NEW st, FramesOf(st, clears), EndOK(st)  PROVE EndOK(st)'
    <2>1. ReadsStand(st)'
      BY <1>1, <1>5, NothingRead DEF MessagesOK
    <2>2. DrawsStand(st)'
      BY <1>4, <1>5 DEF EndOK, DrawsStand
    <2>3. ASSUME NEW h \in DOMAIN entries'  PROVE FilledIn(DrawnTextures(st), h)'
      <3>1. FilledIn(DrawnTextures(st), h) /\ h \in DOMAIN entries
        BY <1>1, <1>5 DEF EndOK, Fills
      <3>2. PlacedAsKind(h) /\ entries[h].kind \in Kinds \ {"shared"}
        BY <1>1, <3>1 DEF IInv, CacheOK, CacheEntry
      <3>3. entries[h].at[1] \notin {shared_id} \ {0}
        BY <3>2 DEF PlacedAsKind, Kinds, Picture
      <3> QED
        BY <1>1, <3>1, <3>3, FillStays, FreeingFrees
    <2>4. Fills(st)'
      BY <2>3 DEF Fills
    <2> QED
      BY <2>1, <2>2, <2>4 DEF EndOK
  <1> QED
    BY <1>5 DEF EndsKept

(* Entries of d go; the others stay.                                       *)
OnlyGone(d) ==
  /\ DOMAIN entries' \subseteq DOMAIN entries
  /\ \A g \in DOMAIN entries' : entries'[g] = entries[g]
  /\ \A g \in DOMAIN entries \ DOMAIN entries' : entries[g].owner = d

LEMMA BeginFrameEnds ==
  ASSUME IInv, DrawsOK, NEW d \in Docs, BeginFrame(d)
  PROVE  EndsKept /\ OnlyGone(d)
  <1>1. /\ now = NoDoc /\ now' = d /\ wanted = {} /\ wanted' = {}
        /\ UNCHANGED <<shared_id, next_id, version, pending_updates, draws, clears>>
    BY DEF BeginFrame, frameVars, IInv, FrameOK
  <1>2. OnlyGone(d)
    <2>1. CASE UNCHANGED entries
      BY <2>1 DEF OnlyGone
    <2>2. ASSUME NEW kept, NEW E \in Expired(d, frame_id'[d], {"shared"}, kept),
                 entries' = Without(entries, E)
          PROVE  OnlyGone(d)
      <3> PICK stamp : stamp = frame_id'[d]
        OBVIOUS
      <3>1. E \in Expired(d, stamp, {"shared"}, kept)
        BY <2>2
      <3>2. E \in SUBSET DOMAIN entries /\ \A h \in E : entries[h].owner = d
        BY <3>1, ExpiredAre
      <3> QED
        BY <2>2, <3>2 DEF Without, OnlyGone
    <2> QED
      BY <2>1, <2>2 DEF BeginFrame
  <1>3. IdsGrow
    BY <1>1 DEF IdsGrow, IInv, CacheOK
  <1>4. \A e \in Docs \ {now'} : e # now /\ EntriesStand(e) /\ PlacesStay(e)
    BY <1>1, <1>2, TextureCacheAssumption DEF EntriesStand, PlacesStay, NoEntryAt, OnlyGone
  <1>5. ASSUME NEW st, FramesOf(st, clears), EndOK(st)  PROVE EndOK(st)'
    <2>1. DrawsStand(st)' /\ ReadsStand(st)'
      BY <1>1, <1>3, <1>4, <1>5, StandStill DEF IInv, EndOK
    <2>2. ASSUME NEW h \in DOMAIN entries'  PROVE FilledIn(DrawnTextures(st), h)'
      <3>1. FilledIn(DrawnTextures(st), h)
        BY <1>1, <1>2, <1>5 DEF EndOK, Fills, OnlyGone
      <3> QED
        BY <1>1, <1>2, <3>1, FillStays DEF OnlyGone
    <2> QED
      BY <2>1, <2>2 DEF EndOK, Fills
  <1> QED
    BY <1>2, <1>5 DEF EndsKept

-----------------------------------------------------------------------------
(* Entries that are filled.                                                *)

(* An entry that is to be drawn is one of the document of the frame.       *)
LEMMA WantedIsMine ==
  ASSUME IInv, DrawsOK, NEW h \in wanted
  PROVE  /\ now \in Users[h] /\ h \in Handles
         /\ h \in DOMAIN entries /\ h \notin Images => entries[h].owner = now
  <1>1. now \in Users[h] /\ h \in Handles /\ (h \in DOMAIN entries => h \notin Tasks)
    BY DEF DrawsOK, IInv, FrameOK
  <1>2. h \in DOMAIN entries /\ h \notin Images => h \in Tiles /\ entries[h].owner \in Users[h]
    BY <1>1 DEF Handles, DrawsOK
  <1> QED
    BY <1>1, <1>2, TextureCacheAssumption

LEMMA OwnerAfter ==
  ASSUME CacheOK, NEW h, NEW E \in SUBSET DOMAIN entries, NEW kind, NEW at,
         entries' = Upserted(h, kind, at, E)
  PROVE  entries'[h].owner = IF h \in DOMAIN entries \ E THEN entries[h].owner ELSE now
  <1> DEFINE left == Without(entries, E)
             owner == IF h \in DOMAIN left THEN left[h].owner ELSE now
  <1>1. entries'[h] = [kind |-> kind, at |-> at, last_access |-> Stamp, eviction |-> PolicyOf(h),
                       owner |-> owner, dropped |-> FALSE]
    BY DEF Upserted
  <1>2. DOMAIN left = DOMAIN entries \ E /\ \A x \in DOMAIN left : left[x] = entries[x]
    BY DEF Without
  <1>3. owner = IF h \in DOMAIN entries \ E THEN entries[h].owner ELSE now
    BY <1>2
  <1> HIDE DEF owner, left
  <1> QED
    BY <1>1, <1>3

LEMMA NotFreed ==
  ASSUME CacheOK, NEW R \in SUBSET DOMAIN entries, NEW x \in DOMAIN entries \ R
  PROVE  entries[x].at[1] \notin Ids(R, "standalone")
  <1> SUFFICES ASSUME NEW g \in R, entries[g].kind = "standalone", entries[g].at[1] = entries[x].at[1]
               PROVE  FALSE
    BY LayersAre
  <1>1. PlacedAsKind(g) /\ PlacedAsKind(x) /\ entries[x].kind \in Kinds
    BY DEF CacheOK, CacheEntry
  <1>2. /\ entries[g].at = <<entries[g].at[1], 1>>
        /\ entries[g].at[1] # shared_id /\ entries[g].at[1] # Picture
    BY <1>1 DEF PlacedAsKind, Picture, CacheOK
  <1>3. entries[x].at = <<entries[g].at[1], 1>>
    BY <1>1, <1>2 DEF PlacedAsKind, Kinds
  <1> QED
    BY <1>2, <1>3, Apart

(* Updates of the place at of h, the list saying what has been freed.      *)
LEMMA FilledHere ==
  ASSUME NEW texs, NEW h, NEW at, NEW list, Filled(h, at, list), entries'[h].at = at,
         at \notin DOMAIN draws
  PROVE  FilledIn(texs, h)'
  <1> PICK x : x = <<h, version'[h]>>
    OBVIOUS
  <1>1. FilledIn(texs, h)' <=> Has(Override(Applied(pending_updates', texs), draws'), at, x)
    BY DEF FilledIn
  <1>2. CASE h \in Images
    <2>1. pending_updates' = Then(list, Writing(at, x)) /\ draws' = draws
      BY <1>2 DEF Filled
    <2> QED
      BY <1>1, <2>1, WritingHas, FinalHas
  <1>3. CASE h \notin Images
    <2>1. draws' = Override(draws, [a \in {at} |-> x])
      BY <1>3 DEF Filled
    <2>2. at \in DOMAIN draws' /\ draws'[at] = x
      BY <2>1 DEF Override
    <2> QED
      BY <1>1, <2>2, FinalHas
  <1> QED
    BY <1>2, <1>3

LEMMA FilledElsewhere ==
  ASSUME FrameOK, NEW texs, NEW h, NEW at, NEW list, Filled(h, at, list),
         NEW g \in Handles, g # h, FilledIn(texs, g), entries'[g].at = entries[g].at, entries[g].at # at,
         \/ list = pending_updates
         \/ \E l, ids : /\ list = Then(pending_updates, l) /\ Frees(l, ids)
                        /\ entries[g].at[1] \notin ids
  PROVE  FilledIn(texs, g)'
  <1> PICK a, x, y : a = entries[g].at /\ x = <<g, version[g]>> /\ y = <<h, version'[h]>>
    OBVIOUS
  <1>1. version'[g] = version[g]
    BY DEF Filled, FrameOK
  <1>2. /\ FilledIn(texs, g) <=> Has(Override(Applied(pending_updates, texs), draws), a, x)
        /\ FilledIn(texs, g)' <=> Has(Override(Applied(pending_updates', texs), draws'), a, x)
    BY <1>1 DEF FilledIn
  <1>3. Has(Applied(list, texs), a, x) <=> Has(Applied(pending_updates, texs), a, x)
    BY FreeingHas
  <1>4. CASE h \in Images
    <2>1. pending_updates' = Then(list, Writing(at, y)) /\ draws' = draws
      BY <1>4 DEF Filled
    <2>2. Has(Applied(pending_updates', texs), a, x) <=> Has(Applied(list, texs), a, x)
      BY <2>1, WritingHas
    <2> QED
      BY <1>2, <1>3, <2>1, <2>2, FinalHas
  <1>5. CASE h \notin Images
    <2>1. pending_updates' = list /\ draws' = Override(draws, [b \in {at} |-> y])
      BY <1>5 DEF Filled
    <2>2. (a \in DOMAIN draws' <=> a \in DOMAIN draws) /\ (a \in DOMAIN draws => draws'[a] = draws[a])
      BY <2>1 DEF Override
    <2> QED
      BY <1>2, <1>3, <2>1, <2>2, FinalHas
  <1> QED
    BY <1>4, <1>5

(* What the moves and the update in place have in common.                  *)
Fills1(h, at, list, E) ==
  /\ h \in wanted /\ E \in SUBSET DOMAIN entries
  /\ \A x \in E : entries[x].owner = now /\ entries[x].last_access # Stamp
  /\ DOMAIN entries' = (DOMAIN entries \ E) \cup {h}
  /\ \A x \in DOMAIN entries' : x # h => entries'[x] = entries[x]
  /\ entries'[h].at = at
  /\ entries'[h].owner = IF h \in DOMAIN entries \ E THEN entries[h].owner ELSE now
  /\ \A x \in (DOMAIN entries \ E) \ {h} : entries[x].at # at
  /\ \/ h \in DOMAIN entries /\ entries[h].at = at
     \/ at[1] \notin 1..next_id - 1 \/ at[1] = shared_id
  /\ at[1] = Picture => h \in Tiles
  /\ Filled(h, at, list)
  /\ list \in {pending_updates, UpdatesAfter(Released(h, E))}
  /\ IdsGrow /\ UNCHANGED <<now, clears>>

LEMMA FillKeepsDraws ==
  ASSUME IInv, DrawsOK, NEW h, NEW at, NEW list, NEW E, Fills1(h, at, list, E)
  PROVE  DrawsOK' /\ at \notin DOMAIN draws
  <1>1. /\ h \in wanted /\ Filled(h, at, list) /\ now' = now
        /\ DOMAIN entries' = (DOMAIN entries \ E) \cup {h}
        /\ \A x \in DOMAIN entries' : x # h => entries'[x] = entries[x]
        /\ entries'[h].at = at
    BY DEF Fills1
  <1>2. /\ now \in Users[h] /\ h \in Handles /\ h \notin requested
        /\ h \in DOMAIN entries /\ h \notin Images => entries[h].owner = now
    BY <1>1, WantedIsMine DEF IInv, FrameOK
  <1>3. /\ requested' = requested \cup {h} /\ wanted' = wanted \ {h}
        /\ \A x \in Handles \ {h} : version'[x] = version[x]
    BY <1>1 DEF Filled, IInv, FrameOK
  <1>4. \A g \in requested : g \in DOMAIN entries /\ g \notin E /\ g # h /\ g \in Handles
    BY <1>2 DEF Fills1, IInv, FrameOK, RequestedStays, Valid
  <1>5. \A g \in requested : entries[g].at # at /\ entries'[g] = entries[g] /\ g \in DOMAIN entries'
    BY <1>1, <1>4 DEF Fills1
  <1>6. at \notin DOMAIN draws
    BY <1>5 DEF DrawsOK
  <1>7. ASSUME NEW b \in DOMAIN draws
        PROVE  \E g \in requested' \ Images :
                 /\ g \in DOMAIN entries' /\ entries'[g].at = b /\ entries'[g].owner = now'
                 /\ draws[b] = <<g, version'[g]>>
    <2>1. PICK g \in requested \ Images : /\ g \in DOMAIN entries /\ entries[g].at = b
                                          /\ entries[g].owner = now /\ draws[b] = <<g, version[g]>>
      BY DEF DrawsOK
    <2> QED
      BY <1>1, <1>3, <1>4, <1>5, <2>1
  <1>8. ASSUME NEW b \in DOMAIN draws'
        PROVE  \E g \in requested' \ Images :
                 /\ g \in DOMAIN entries' /\ entries'[g].at = b /\ entries'[g].owner = now'
                 /\ draws'[b] = <<g, version'[g]>>
    <2>1. CASE h \in Images
      BY <1>1, <1>7, <2>1 DEF Filled
    <2>2. CASE h \notin Images
      <3>1. /\ DOMAIN draws' = DOMAIN draws \cup {at} /\ draws'[at] = <<h, version'[h]>>
            /\ \A a \in DOMAIN draws \ {at} : draws'[a] = draws[a]
        BY <1>1, <2>2 DEF Filled, Override
      <3>2. entries'[h].owner = now
        BY <1>2, <2>2 DEF Fills1
      <3>3. CASE b = at
        BY <1>1, <1>3, <2>2, <3>1, <3>2, <3>3
      <3>4. CASE b # at
        <4>1. b \in DOMAIN draws /\ draws'[b] = draws[b]
          BY <3>1, <3>4
        <4> QED
          BY <1>7, <4>1
      <3> QED
        BY <3>3, <3>4
    <2> QED
      BY <2>1, <2>2
  <1>9. \A g \in DOMAIN entries' : entries'[g].owner \in Users[g]
    BY <1>1, <1>2 DEF Fills1, DrawsOK
  <1>10. \A g \in wanted' \cap DOMAIN entries' : g \notin Tasks
    BY <1>1, <1>3 DEF DrawsOK
  <1>11. \A g \in requested' \cup wanted' : now' \in Users[g]
    BY <1>1, <1>2, <1>3 DEF DrawsOK
  <1> QED
    BY <1>6, <1>8, <1>9, <1>10, <1>11 DEF DrawsOK

LEMMA FillStands ==
  ASSUME IInv, DrawsOK, NEW h, NEW at, NEW list, NEW E, Fills1(h, at, list, E), NEW d, d # now
  PROVE  EntriesStand(d) /\ PlacesStay(d)
  <1>1. /\ h \in wanted /\ Filled(h, at, list)
        /\ DOMAIN entries' = (DOMAIN entries \ E) \cup {h}
        /\ \A x \in DOMAIN entries' : x # h => entries'[x] = entries[x]
        /\ entries'[h].at = at
    BY DEF Fills1
  <1>2. /\ now \in Users[h] /\ h \in Handles
        /\ h \in DOMAIN entries /\ h \notin Images => entries[h].owner = now
    BY <1>1, WantedIsMine
  <1>3. EntriesStand(d)
    <2> SUFFICES ASSUME NEW g \in DOMAIN entries, entries[g].owner = d,
                        g \notin Images \/ Users[g] = {d}
                 PROVE  /\ g \in DOMAIN entries' /\ entries'[g].at = entries[g].at
                        /\ entries'[g].owner = d /\ version'[g] = version[g]
      BY DEF EntriesStand
    <2>1. g # h
      BY <1>2
    <2>2. g \notin E /\ g \in Handles
      BY DEF Fills1, IInv, CacheOK
    <2>3. version'[g] = version[g]
      BY <1>1, <2>1, <2>2 DEF Filled, IInv, FrameOK
    <2> QED
      BY <1>1, <2>1, <2>2, <2>3
  <1>4. PlacesStay(d)
    <2> SUFFICES ASSUME NEW b, NoEntryAt(b),
                        \/ b[1] \in 1..next_id - 1 /\ b[1] # shared_id
                        \/ b[1] = Picture /\ \A t \in Tiles : Users[t] \subseteq {d},
                        NEW g \in DOMAIN entries', entries'[g].at = b
                 PROVE  FALSE
      BY DEF PlacesStay, NoEntryAt
    <2>1. g = h
      BY <1>1 DEF NoEntryAt
    <2>2. b = at /\ ~(h \in DOMAIN entries /\ entries[h].at = at)
      BY <1>1, <2>1 DEF NoEntryAt
    <2>3. at[1] = Picture => h \in Tiles
      BY DEF Fills1
    <2>4. at[1] \notin 1..next_id - 1 \/ at[1] = shared_id
      BY <2>2 DEF Fills1
    <2> QED
      BY <1>2, <2>2, <2>3, <2>4
  <1> QED
    BY <1>3, <1>4

LEMMA FillEnds ==
  ASSUME IInv, DrawsOK, NEW h, NEW at, NEW list, NEW E, Fills1(h, at, list, E)
  PROVE  EndsKept
  <1>1. /\ h \in wanted /\ Filled(h, at, list) /\ UNCHANGED <<now, clears>> /\ IdsGrow
        /\ DOMAIN entries' = (DOMAIN entries \ E) \cup {h}
        /\ \A x \in DOMAIN entries' : x # h => entries'[x] = entries[x]
        /\ entries'[h].at = at /\ E \in SUBSET DOMAIN entries
        /\ \A x \in (DOMAIN entries \ E) \ {h} : entries[x].at # at
        /\ list \in {pending_updates, UpdatesAfter(Released(h, E))}
    BY DEF Fills1
  <1>2. \A d \in Docs \ {now'} : d # now /\ EntriesStand(d) /\ PlacesStay(d)
    BY <1>1, FillStands
  <1>3. at \notin DOMAIN draws
    BY FillKeepsDraws
  <1>4. wanted' = wanted \ {h}
    BY <1>1 DEF Filled
  <1>5. ASSUME NEW st, FramesOf(st, clears), EndOK(st)  PROVE EndOK(st)'
    <2>1. DrawsStand(st)' /\ ReadsStand(st)'
      BY <1>1, <1>2, <1>5, StandStill DEF IInv, EndOK
    <2>2. ASSUME NEW g \in DOMAIN entries' \ wanted'  PROVE FilledIn(DrawnTextures(st), g)'
      <3>1. CASE g = h
        BY <1>1, <1>3, <3>1, FilledHere
      <3>2. CASE g # h
        <4>1. /\ g \in DOMAIN entries \ E /\ g \notin wanted /\ g \in Handles
              /\ entries'[g] = entries[g] /\ entries[g].at # at
          BY <1>1, <1>4, <3>2 DEF IInv, CacheOK
        <4>2. FilledIn(DrawnTextures(st), g)
          BY <1>5, <4>1 DEF EndOK, Fills
        <4>3. Released(h, E) \in SUBSET DOMAIN entries /\ g \in DOMAIN entries \ Released(h, E)
          BY <1>1, <3>2, <4>1, ReleasedIs
        <4>4. entries[g].at[1] \notin Ids(Released(h, E), "standalone")
          BY <4>3, NotFreed DEF IInv
        <4>5. \/ list = pending_updates
              \/ \E l, ids : /\ list = Then(pending_updates, l) /\ Frees(l, ids)
                             /\ entries[g].at[1] \notin ids
          BY <1>1, <4>4, FreeingFrees DEF UpdatesAfter
        <4> QED
          BY <1>1, <3>2, <4>1, <4>2, <4>5, FilledElsewhere DEF IInv
      <3> QED
        BY <3>1, <3>2
    <2> QED
      BY <2>1, <2>2 DEF EndOK, Fills
  <1> QED
    BY <1>5 DEF EndsKept

LEMMA MoveFills ==
  ASSUME IInv, NEW h, IsMove(h)
  PROVE  \E at, list, E : Fills1(h, at, list, E)
  <1>1. PICK kind \in Kinds, at \in Address, E \in SUBSET DOMAIN entries : Moves(h, kind, at, E)
    BY DEF IsMove
  <1>2. /\ h \in wanted /\ now # NoDoc
        /\ \A x \in E : entries[x].owner = now /\ entries[x].last_access # Stamp
        /\ entries' = Upserted(h, kind, at, E) /\ Filled(h, at, UpdatesAfter(Released(h, E)))
        /\ Fits(h, kind, at, E) /\ Grown /\ UNCHANGED <<now, clears>>
    BY <1>1 DEF Moves, Moved, unchangedByBuilding
  <1>3. h \in Handles
    BY <1>2 DEF IInv, FrameOK
  <1>4. IsPut(h, kind, at, E)
    BY <1>2, <1>3, AfterUpsert DEF IInv
  <1>5. entries'[h].owner = IF h \in DOMAIN entries \ E THEN entries[h].owner ELSE now
    BY <1>2, OwnerAfter DEF IInv
  <1>6. next_id \in Nat /\ next_id' \in Nat /\ MaxIds \in Nat /\ shared_id \in Nat /\ next_id > 0
    BY <1>2, TextureCacheAssumption DEF IInv, CacheOK, Grown
  <1>7. IdsGrow
    BY <1>2, <1>6 DEF IdsGrow, Grown
  <1>8. (at[1] \notin 1..next_id - 1 \/ at[1] = shared_id) /\ (at[1] = Picture => h \in Tiles)
    <2>1. CASE kind = "shared"
      <3>1. at[1] = shared_id' /\ shared_id' # 0 /\ shared_id' \in {shared_id, next_id}
        BY <1>2, <2>1 DEF Fits, Grown
      <3> QED
        BY <1>6, <3>1 DEF Picture
    <2>2. CASE kind = "picture"
      BY <1>2, <2>2 DEF Fits, Picture
    <2>3. CASE kind = "standalone"
      BY <1>2, <1>6, <2>3 DEF Fits, Picture
    <2> QED
      BY <2>1, <2>2, <2>3 DEF Kinds
  <1>9. Fills1(h, at, UpdatesAfter(Released(h, E)), E)
    BY <1>2, <1>4, <1>5, <1>7, <1>8 DEF Fills1, IsPut, Fits
  <1> QED
    BY <1>9

LEMMA InPlaceFills ==
  ASSUME IInv, NEW h \in Handles, UpdateInPlace(h)
  PROVE  \E at, list, E : Fills1(h, at, list, E)
  <1>1. /\ h \in wanted /\ h \in DOMAIN entries /\ Filled(h, entries[h].at, pending_updates)
        /\ UNCHANGED <<entries, shared_id, next_id, now, clears>>
    BY DEF UpdateInPlace, Valid, sharedVars, unchangedByBuilding
  <1>2. IdsGrow
    BY <1>1 DEF IdsGrow, IInv, CacheOK
  <1>3. \A x \in (DOMAIN entries \ {}) \ {h} : entries[x].at # entries[h].at
    BY <1>1, Apart DEF IInv
  <1>4. entries[h].at[1] = Picture => h \in Tiles
    <2>1. PlacedAsKind(h) /\ entries[h].kind \in Kinds
      BY <1>1 DEF IInv, CacheOK, CacheEntry
    <2>2. entries[h].kind = "shared" => shared_id # 0
      BY <2>1 DEF PlacedAsKind, IInv, CacheOK
    <2> QED
      BY <2>1, <2>2 DEF PlacedAsKind, Kinds, Picture
  <1>5. Fills1(h, entries[h].at, pending_updates, {})
    BY <1>1, <1>2, <1>3, <1>4 DEF Fills1
  <1> QED
    BY <1>5

-----------------------------------------------------------------------------
(* Messages to the renderer.                                               *)

SendsWell(m) ==
  \A st, after : FramesOf(st, clears) /\ EndOK(st) /\ after \in Steps(AfterMessage(st, m)) =>
    EndOK(after)' /\ FramesOf(after, clears') /\ Intact(after, clears')

LEMMA SentWell ==
  ASSUME ListsOK, MessagesOK, Delivery, UNCHANGED rendererVars, NEW m, results' = Append(results, m),
         m.clears = clears', clears' \in {clears, clears + 1}, SendsWell(m)
  PROVE  MessagesOK' /\ Delivery'
  <1>1. UNCHANGED <<textures, pending_texture_updates, active_documents, taken_clears>> /\ Store' = Store
    BY DEF rendererVars, Store
  <1>2. /\ Len(results) \in Nat /\ Len(results') = Len(results) + 1
        /\ \A k \in 1..Len(results) : results'[k] = results[k]
        /\ results'[Len(results) + 1] = m
    <2> DEFINE S == {results[i] : i \in DOMAIN results}
    <2>1. results \in Seq(S)
      BY DEF ListsOK
    <2> HIDE DEF S
    <2> QED
      BY <2>1
  <1>3. MessagesOK'
    <2>1. /\ clears' \in Nat /\ taken_clears' \in 0..clears'
          /\ \A c \in taken_clears..clears : c \in taken_clears'..clears' /\ c <= clears'
          /\ clears' \in taken_clears'..clears'
      BY <1>1 DEF MessagesOK
    <2>2. ASSUME NEW k \in 1..Len(results')
          PROVE  /\ results'[k].clears \in taken_clears'..clears'
                 /\ \A j \in 1..k : results'[j].clears <= results'[k].clears
      <3>1. CASE k \in 1..Len(results)
        <4>1. \A j \in 1..k : j \in 1..Len(results)
          BY <1>2, <3>1
        <4> QED
          BY <1>2, <2>1, <3>1, <4>1 DEF MessagesOK
      <3>2. CASE k \notin 1..Len(results)
        <4>1. k = Len(results) + 1 /\ results'[k].clears = clears'
          BY <1>2, <3>2
        <4>2. \A j \in 1..k : j = k \/ j \in 1..Len(results)
          BY <1>2, <4>1
        <4>3. \A j \in 1..Len(results) : results'[j].clears <= clears'
          BY <1>2, <2>1 DEF MessagesOK
        <4>4. clears' <= clears'
          BY <2>1
        <4> QED
          BY <2>1, <4>1, <4>2, <4>3, <4>4
      <3> QED
        BY <3>1, <3>2
    <2> QED
      BY <2>1, <2>2 DEF MessagesOK
  <1>4. ASSUME NEW f, IsPath(f, Store', results')
        PROVE  /\ EndOK(f[Len(results)])'
               /\ \A k \in 0..Len(results') : FramesOf(f[k], ClearsAt(k)') /\ Intact(f[k], ClearsAt(k)')
    <2> PICK n : n = Len(results)
      OBVIOUS
    <2>1. /\ IsPath(f, Store, results)
          /\ f[n + 1] \in Steps(AfterMessage(f[n], m))
      <3> PICK st, ms, more : st = Store /\ ms = results /\ more = results'
        OBVIOUS
      <3>1. IsPath(f, st, ms) /\ f[Len(more)] \in Steps(AfterMessage(f[Len(ms)], more[Len(more)]))
        BY <1>1, <1>2, <1>4, PathBefore
      <3> QED
        BY <1>2, <3>1
    <2>2. EndOK(f[n]) /\ FramesOf(f[n], clears)
      BY <2>1, EndIs
    <2>3. EndOK(f[n + 1])' /\ FramesOf(f[n + 1], clears') /\ Intact(f[n + 1], clears')
      BY <2>1, <2>2 DEF SendsWell
    <2>4. ASSUME NEW k \in 0..Len(results')
          PROVE  FramesOf(f[k], ClearsAt(k)') /\ Intact(f[k], ClearsAt(k)')
      <3>1. CASE k \in 0..n
        <4>1. ClearsAt(k)' = ClearsAt(k)
          BY <1>1, <1>2, <3>1 DEF ClearsAt
        <4> QED
          BY <2>1, <3>1, <4>1 DEF Delivery
      <3>2. CASE k = n + 1
        <4>1. ClearsAt(k)' = clears'
          BY <1>2, <3>2 DEF ClearsAt
        <4> QED
          BY <2>3, <3>2, <4>1
      <3> QED
        BY <1>2, <3>1, <3>2
    <2> QED
      BY <1>2, <2>3, <2>4
  <1>5. Delivery'
    BY <1>4 DEF Delivery
  <1> QED
    BY <1>3, <1>5

(* What the renderer has after it took a frame: it had drawn before if the *)
(* frame of that document had something to draw.                           *)
Took(had, y, m) ==
  /\ y.textures = had.textures /\ y.list = Then(had.list, m.list)
  /\ DOMAIN y.frames = DOMAIN had.frames \cup {m.id} /\ y.frames[m.id] = m.frame
  /\ \A d \in DOMAIN had.frames \ {m.id} : y.frames[d] = had.frames[d]
  /\ m.id \in Undrawn(had) => DOMAIN had.frames[m.id].draws = {}

LEMMA AfterDocument ==
  ASSUME NEW st, AreFrames(st.frames), NEW m, m.kind # "pressure"
  PROVE  \E had \in Steps(st) : Took(had, AfterMessage(st, m), m)
  <1> DEFINE forced == m.id \in DOMAIN st.frames /\ MustBeDrawn(st.frames[m.id])
  <1> PICK had : had = IF forced THEN DrawnStore(st) ELSE st
    OBVIOUS
  <1> PICK y : y = AfterMessage(st, m)
    OBVIOUS
  <1>1. /\ y.textures = had.textures /\ y.list = Then(had.list, m.list)
        /\ y.frames = Override(had.frames, [d \in {m.id} |-> m.frame])
    BY DEF AfterMessage
  <1>2. /\ DOMAIN y.frames = DOMAIN had.frames \cup {m.id} /\ y.frames[m.id] = m.frame
        /\ \A d \in DOMAIN had.frames \ {m.id} : y.frames[d] = had.frames[d]
    BY <1>1 DEF Override
  <1>3. m.id \in Undrawn(had) => DOMAIN had.frames[m.id].draws = {}
    <2>1. CASE forced
      BY <2>1, DrawnIs
    <2>2. CASE ~forced
      BY <2>2 DEF Undrawn, MustBeDrawn, EmptyMap
    <2> QED
      BY <2>1, <2>2
  <1>4. had \in Steps(st)
    BY DEF Steps
  <1> HIDE DEF forced
  <1> QED
    BY <1>1, <1>2, <1>3, <1>4 DEF Took

(* What has drawn is as good.                                              *)
LEMMA DrawnEnd ==
  ASSUME NEW c, NEW st, FramesOf(st, c), NEW had \in Steps(st)
  PROVE  /\ FramesOf(had, c) /\ DrawnTextures(had) = DrawnTextures(st)
         /\ EndOK(st) => EndOK(had)
         /\ EndOK(st)' => EndOK(had)'
  <1>1. CASE had = st
    BY <1>1
  <1>2. CASE had = DrawnStore(st)
    <2>1. /\ had.frames = Rendered(st.frames) /\ AreFrames(had.frames)
          /\ DOMAIN had.frames = DOMAIN st.frames /\ Undrawn(had) = {}
          /\ DrawnTextures(had) = DrawnTextures(st)
      BY <1>2, DrawnIs DEF FramesOf
    <2>2. \A d \in DOMAIN st.frames : /\ had.frames[d].reads = st.frames[d].reads
                                      /\ had.frames[d].clears = st.frames[d].clears
      BY <1>2, DrawnIs DEF FramesOf
    <2>3. FramesOf(had, c)
      BY <2>1, <2>2 DEF FramesOf
    <2>4. DrawsStand(had) /\ DrawsStand(had)'
      BY <2>1 DEF DrawsStand
    <2>5. /\ ReadsStand(st) => ReadsStand(had)
          /\ ReadsStand(st)' => ReadsStand(had)'
      BY <2>1, <2>2 DEF ReadsStand
    <2>6. /\ Fills(st) => Fills(had)
          /\ Fills(st)' => Fills(had)'
      BY <2>1 DEF Fills
    <2> QED
      BY <2>1, <2>3, <2>4, <2>5, <2>6 DEF EndOK
  <1> QED
    BY <1>1, <1>2 DEF Steps

(* When no frame is being built, what frames read is there.                *)
LEMMA EndIsIntact ==
  ASSUME NEW st, FramesOf(st, clears'), EndOK(st)', now' = NoDoc, wanted' = {},
         pending_updates' = EmptyList, DOMAIN draws' = {}
  PROVE  Intact(st, clears')
  <1> SUFFICES ASSUME NEW d \in DOMAIN st.frames, st.frames[d].clears = clears',
                      NEW u \in st.frames[d].reads, ~u.shared
               PROVE  Has(DrawnTextures(st), u.at, u.data)
    BY DEF Intact
  <1>1. d # NoDoc
    BY TextureCacheAssumption DEF FramesOf
  <1>2. ReadStands(d, u)'
    BY <1>1 DEF EndOK, ReadsStand
  <1>3. u.of \in DOMAIN entries' /\ entries'[u.of].at = u.at /\ u.data = <<u.of, version'[u.of]>>
    BY <1>2 DEF ReadStands
  <1>4. Has(Override(Applied(pending_updates', DrawnTextures(st)), draws'), u.at, u.data)
    BY <1>3 DEF EndOK, Fills, FilledIn
  <1> QED
    BY <1>4, FinalHas, EmptyHas

LEMMA PressureSendsWell ==
  ASSUME IInv, ClearAll, now' = NoDoc, wanted' = {}, pending_updates' = EmptyList, DOMAIN draws' = {},
         NEW m, m.kind = "pressure"
  PROVE  SendsWell(m)
  <1>1. DOMAIN entries' = {}
    BY DEF ClearAll, EmptyMap
  <1>2. ASSUME NEW st, NEW after \in Steps(AfterMessage(st, m))
        PROVE  EndOK(after)' /\ FramesOf(after, clears') /\ Intact(after, clears')
    <2> PICK y : y = AfterMessage(st, m)
      OBVIOUS
    <2>1. DOMAIN y.frames = {}
      BY DEF AfterMessage, EmptyMap
    <2>2. FramesOf(y, clears')
      BY <2>1 DEF FramesOf, AreFrames
    <2>3. EndOK(y)'
      BY <1>1, <2>1 DEF EndOK, DrawsStand, ReadsStand, Fills, Undrawn
    <2>4. EndOK(after)' /\ FramesOf(after, clears')
      <3> PICK c : c = clears'
        OBVIOUS
      <3>1. FramesOf(after, c) /\ EndOK(after)'
        BY <2>2, <2>3, DrawnEnd
      <3> QED
        BY <3>1
    <2> QED
      BY <2>4, EndIsIntact
  <1> QED
    BY <1>2 DEF SendsWell

(* What EndFrame sends.                                                    *)
LEMMA EndFrameSendsWell ==
  ASSUME IInv, DrawsOK, MessagesOK, EndFrame
  PROVE  /\ OnlyGone(now)
         /\ \E m : results' = Append(results, m) /\ m.clears = clears' /\ SendsWell(m)
  <1>1. /\ now # NoDoc /\ wanted = {} /\ now' = NoDoc /\ wanted' = {} /\ requested' = {}
        /\ DOMAIN draws' = {} /\ pending_updates' = EmptyList
        /\ UNCHANGED <<shared_id, next_id, version, clears>>
    BY DEF EndFrame, sharedVars, EmptyMap
  <1>2. PICK E \in Expired(now, Stamp, {"standalone", "picture"}, 0) :
          /\ entries' = Without(entries, E)
          /\ results' = Append(results,
               [kind |-> "document", id |-> now, list |-> UpdatesAfter(E), clears |-> clears,
                frame |-> [reads |-> Reads, draws |-> draws, clears |-> clears, rendered |-> FALSE]])
    BY DEF EndFrame
  <1>3. /\ E \in SUBSET DOMAIN entries
        /\ \A x \in E : entries[x].owner = now /\ entries[x].last_access # Stamp
    BY <1>1, RoomFor DEF IInv
  <1> PICK m : m = [kind |-> "document", id |-> now, list |-> UpdatesAfter(E), clears |-> clears,
                    frame |-> [reads |-> Reads, draws |-> draws, clears |-> clears,
                               rendered |-> FALSE]]
    OBVIOUS
  <1>4. /\ m.kind # "pressure" /\ m.id = now /\ m.list = UpdatesAfter(E) /\ m.clears = clears
        /\ m.frame.reads = Reads /\ m.frame.draws = draws /\ m.frame.clears = clears
        /\ m.frame.rendered = FALSE /\ IsFrame(m.frame)
    BY DEF IsFrame
  <1>5. DOMAIN entries' = DOMAIN entries \ E /\ \A x \in DOMAIN entries' : entries'[x] = entries[x]
    BY <1>2 DEF Without
  <1>6. OnlyGone(now) /\ IdsGrow
    BY <1>1, <1>3, <1>5 DEF OnlyGone, IdsGrow, IInv, CacheOK
  <1>7. \A d : (d # now => EntriesStand(d)) /\ PlacesStay(d)
    BY <1>1, <1>3, <1>5 DEF EntriesStand, PlacesStay, NoEntryAt
  <1>8. \A x \in requested : x \in DOMAIN entries' /\ entries'[x] = entries[x] /\ x \in DOMAIN entries
    BY <1>3, <1>5 DEF IInv, FrameOK, RequestedStays, Valid
  <1>9. now \in Docs /\ clears \in Nat
    BY <1>1 DEF IInv, FrameOK, MessagesOK
  <1>10. ASSUME NEW st, FramesOf(st, clears), EndOK(st)
         PROVE  FramesOf(AfterMessage(st, m), clears) /\ EndOK(AfterMessage(st, m))'
    <2> PICK y : y = AfterMessage(st, m)
      OBVIOUS
    <2>1. PICK had \in Steps(st) : Took(had, y, m)
      BY <1>4, <1>10, AfterDocument DEF FramesOf
    <2>2. /\ FramesOf(had, clears) /\ EndOK(had)
      BY <1>10, DrawnEnd
    <2>3. /\ y.textures = had.textures /\ y.list = Then(had.list, m.list)
          /\ DOMAIN y.frames = DOMAIN had.frames \cup {now} /\ y.frames[now] = m.frame
          /\ \A d \in DOMAIN had.frames \ {now} : y.frames[d] = had.frames[d]
          /\ now \in Undrawn(had) => DOMAIN had.frames[now].draws = {}
      BY <1>4, <2>1 DEF Took
    <2>4. FramesOf(y, clears)
      <3>1. clears \in 0..clears
        BY <1>9
      <3>2. ASSUME NEW d \in DOMAIN y.frames
            PROVE  IsFrame(y.frames[d]) /\ d \in Docs /\ y.frames[d].clears \in 0..clears
        <4>1. CASE d = now
          BY <1>4, <1>9, <2>3, <3>1, <4>1
        <4>2. CASE d # now
          <5>1. d \in DOMAIN had.frames /\ y.frames[d] = had.frames[d]
            BY <2>3, <4>2
          <5> QED
            BY <2>2, <5>1 DEF FramesOf, AreFrames
        <4> QED
          BY <4>1, <4>2
      <3> QED
        BY <3>2 DEF FramesOf, AreFrames
    <2>5. /\ \A d \in Undrawn(y) : d # now => d \in Undrawn(had) /\ y.frames[d] = had.frames[d]
          /\ now \in Undrawn(y)
      BY <1>4, <2>3 DEF Undrawn
    <2>6. ASSUME NEW d \in Undrawn(y), d # now, NEW b \in DOMAIN y.frames[d].draws
          PROVE  DrawStands(d, b, y.frames[d].draws[b])
      BY <2>2, <2>5, <2>6 DEF EndOK, DrawsStand
    <2>7. DrawsStand(y)'
      <3> SUFFICES ASSUME NEW d \in Undrawn(y), NEW b \in DOMAIN y.frames[d].draws
                   PROVE  DrawStands(d, b, y.frames[d].draws[b])'
        BY DEF DrawsStand
      <3>1. CASE d # now
        BY <1>6, <1>7, <2>6, <3>1, DrawStandsStill DEF IInv
      <3>2. CASE d = now
        <4>1. b \in DOMAIN draws /\ y.frames[d].draws[b] = draws[b]
          BY <1>4, <2>3, <3>2
        <4>2. PICK h \in requested \ Images : /\ h \in DOMAIN entries /\ entries[h].at = b
                                              /\ entries[h].owner = now /\ draws[b] = <<h, version[h]>>
          BY <4>1 DEF DrawsOK
        <4>3. /\ h \in DOMAIN entries' \ Images /\ entries'[h].at = b /\ entries'[h].owner = d
              /\ y.frames[d].draws[b] = <<h, version'[h]>>
          BY <1>1, <1>8, <3>2, <4>1, <4>2
        <4> QED
          BY <4>3 DEF DrawStands
      <3> QED
        BY <3>1, <3>2
    <2>8. ReadsStand(y)'
      <3> SUFFICES ASSUME NEW d \in DOMAIN y.frames, y.frames[d].clears = clears,
                          NEW u \in y.frames[d].reads, ~u.shared
                   PROVE  ReadStands(d, u)'
        BY <1>1 DEF ReadsStand
      <3>1. CASE d # now
        <4>1. ReadStands(d, u)
          BY <2>2, <2>3, <3>1 DEF EndOK, ReadsStand
        <4> QED
          BY <1>7, <3>1, <4>1, ReadStandsStill DEF IInv
      <3>2. CASE d = now
        <4>1. u \in Reads
          BY <1>4, <2>3, <3>2
        <4>2. PICK h \in requested \cap DOMAIN entries :
                u = [of |-> h, at |-> entries[h].at, data |-> <<h, version[h]>>, shared |-> Users[h] # {now}]
          BY <4>1 DEF Reads
        <4> QED
          BY <1>1, <1>8, <3>2, <4>2 DEF ReadStands
      <3> QED
        BY <3>1, <3>2
    <2>9. Fills(y)'
      <3> SUFFICES ASSUME NEW h \in DOMAIN entries'  PROVE FilledIn(DrawnTextures(y), h)'
        BY DEF Fills
      <3> PICK a, x, T : /\ a = entries[h].at /\ x = <<h, version[h]>> /\ T = DrawnTextures(y)
        OBVIOUS
      <3>1. h \in DOMAIN entries \ E /\ entries'[h].at = a /\ <<h, version'[h]>> = x
        BY <1>1, <1>5
      <3>2. Has(Override(Applied(pending_updates, DrawnTextures(had)), draws), a, x)
        BY <1>1, <2>2, <3>1 DEF EndOK, Fills, FilledIn
      <3>3. ASSUME NEW d \in DrawnAt(y, a)  PROVE y.frames[d].draws[a] = x
        <4>1. d \in Undrawn(y) /\ a \in DOMAIN y.frames[d].draws
          BY DEF DrawnAt
        <4>2. CASE d = now
          <5>1. a \in DOMAIN draws /\ y.frames[d].draws[a] = draws[a]
            BY <1>4, <2>3, <4>1, <4>2
          <5> QED
            BY <3>2, <5>1, FinalHas
        <4>3. CASE d # now
          <5>1. DrawStands(d, a, y.frames[d].draws[a])
            BY <2>6, <4>1, <4>3
          <5>2. ~NoEntryAt(a)
            BY <3>1 DEF NoEntryAt
          <5>3. PICK g \in DOMAIN entries : entries[g].at = a /\ y.frames[d].draws[a] = <<g, version[g]>>
            BY <5>1, <5>2 DEF DrawStands
          <5>4. g = h
            BY <3>1, <5>3, Apart DEF IInv
          <5> QED
            BY <5>3, <5>4
        <4> QED
          BY <4>2, <4>3
      <3>4. ASSUME DrawnAt(y, a) = {}  PROVE Has(Sent(y), a, x)
        <4>1. a \notin DOMAIN draws
          <5>1. now \notin DrawnAt(y, a)
            BY <3>4
          <5>2. now \in Undrawn(y) /\ y.frames[now].draws = draws
            BY <1>4, <2>3, <2>5
          <5> QED
            BY <5>1, <5>2 DEF DrawnAt
        <4>2. DrawnAt(had, a) = {}
          <5> SUFFICES ASSUME NEW d \in Undrawn(had), a \in DOMAIN had.frames[d].draws  PROVE FALSE
            BY DEF DrawnAt
          <5>1. d # now
            BY <2>3
          <5>2. d \in Undrawn(y) /\ y.frames[d] = had.frames[d]
            BY <2>3, <5>1 DEF Undrawn
          <5> QED
            BY <3>4, <5>2 DEF DrawnAt
        <4>3. Has(Applied(pending_updates, DrawnTextures(had)), a, x)
          BY <3>2, <4>1, FinalHas
        <4>4. Has(DrawnTextures(had), a, x) <=> Has(Sent(had), a, x)
          BY <4>2, DrawnHas
        <4>5. Has(Applied(pending_updates, Sent(had)), a, x)
          BY <4>3, <4>4, AppliedHas
        <4>6. a[1] \notin Ids(E, "standalone")
          BY <1>3, <3>1, NotFreed DEF IInv
        <4>7. Has(Applied(m.list, Sent(had)), a, x)
          BY <1>4, <4>5, <4>6, FreeingHas, FreeingFrees DEF UpdatesAfter
        <4>8. Sent(y) = Applied(m.list, Sent(had))
          BY <2>3, AppliedThen DEF Sent
        <4> QED
          BY <4>7, <4>8
      <3>5. Has(T, a, x)
        BY <3>3, <3>4, DrawnHas
      <3>6. Has(Override(Applied(pending_updates', T), draws'), a, x)
        BY <1>1, <3>5, FinalHas, EmptyHas
      <3> QED
        BY <3>1, <3>6 DEF FilledIn
    <2> QED
      BY <2>4, <2>7, <2>8, <2>9 DEF EndOK
  <1>11. SendsWell(m)
    <2> SUFFICES ASSUME NEW st, FramesOf(st, clears), EndOK(st), NEW after \in Steps(AfterMessage(st, m))
                 PROVE  EndOK(after)' /\ FramesOf(after, clears') /\ Intact(after, clears')
      BY DEF SendsWell
    <2> PICK y : y = AfterMessage(st, m)
      OBVIOUS
    <2>1. FramesOf(y, clears) /\ EndOK(y)'
      BY <1>10
    <2>2. FramesOf(after, clears) /\ EndOK(after)'
      BY <2>1, DrawnEnd
    <2> QED
      BY <1>1, <2>2, EndIsIntact
  <1> QED
    BY <1>1, <1>2, <1>4, <1>6, <1>11

-----------------------------------------------------------------------------
(* Each step.                                                              *)

Flow == DrawsOK /\ MessagesOK /\ Delivery

LEMMA NothingDrawn ==
  ASSUME DrawsOK, DOMAIN draws' = {}, requested' = {}, wanted' = {},
         DOMAIN entries' \subseteq DOMAIN entries,
         \A g \in DOMAIN entries' : entries'[g].owner = entries[g].owner
  PROVE  DrawsOK'
  BY DEF DrawsOK

LEMMA BetweenFrames ==
  ASSUME FrameOK, DrawsOK, now = NoDoc, UNCHANGED frameVars
  PROVE  /\ requested = {} /\ wanted = {} /\ DOMAIN draws = {}
         /\ requested' = {} /\ wanted' = {} /\ DOMAIN draws' = {}
  BY DEF FrameOK, DrawsOK, frameVars

LEMMA MemoryPressureFlow ==
  ASSUME IInv, Flow, MemoryPressure
  PROVE  Flow'
  <1>1. /\ now = NoDoc /\ ClearAll /\ pending_updates' = EmptyList /\ now' = NoDoc
        /\ UNCHANGED <<frameVars, rendererVars>> /\ clears' = clears + 1
    BY DEF MemoryPressure, Between, unchangedBetween, ClearAll
  <1>2. DrawsOK /\ FrameOK /\ ListsOK /\ MessagesOK /\ Delivery
    BY DEF Flow, IInv
  <1>3. requested' = {} /\ wanted' = {} /\ DOMAIN draws' = {}
    BY <1>1, <1>2, BetweenFrames
  <1>4. PICK m : m = [kind |-> "pressure", list |-> AllCleared, clears |-> clears']
    OBVIOUS
  <1>5. results' = Append(results, m) /\ m.kind = "pressure" /\ m.clears = clears'
    BY <1>4 DEF MemoryPressure
  <1>6. SendsWell(m)
    BY <1>1, <1>3, <1>5, PressureSendsWell
  <1>7. DrawsOK'
    <2>1. DOMAIN entries' = {}
      BY <1>1 DEF ClearAll, EmptyMap
    <2> QED
      BY <1>2, <1>3, <2>1, NothingDrawn
  <1>8. MessagesOK' /\ Delivery'
    BY <1>1, <1>2, <1>5, <1>6, SentWell
  <1> QED
    BY <1>7, <1>8 DEF Flow

LEMMA ClearCachesFlow ==
  ASSUME ClearsSafely, IInv, Flow, ClearCaches
  PROVE  Flow'
  <1>1. /\ now = NoDoc /\ ClearAll /\ TilesOfOneDocument
        /\ UNCHANGED <<frameVars, rendererVars, results, next_id, now>> /\ clears' = clears + 1
    BY DEF ClearCaches, Between, unchangedBetween, ClearAll, ClearsSafely
  <1>2. DrawsOK /\ FrameOK /\ ListsOK /\ MessagesOK /\ Delivery
    BY DEF Flow, IInv
  <1>3. requested' = {} /\ wanted' = {} /\ DOMAIN draws' = {}
    BY <1>1, <1>2, BetweenFrames
  <1>4. DrawsOK'
    <2>1. DOMAIN entries' = {}
      BY <1>1 DEF ClearAll, EmptyMap
    <2> QED
      BY <1>2, <1>3, <2>1, NothingDrawn
  <1>5. EndsKept
    BY <1>1, <1>2, ClearAllEnds
  <1>6. MessagesOK' /\ Delivery'
    BY <1>1, <1>2, <1>5, NotSent
  <1> QED
    BY <1>4, <1>6 DEF Flow

(* Steps between frames that leave the entries where they are.             *)
LEMMA QuietFlow ==
  ASSUME IInv, Flow, now = NoDoc, DOMAIN entries' = DOMAIN entries,
         \A g \in DOMAIN entries : entries'[g].at = entries[g].at
                                   /\ entries'[g].owner = entries[g].owner,
         UNCHANGED <<shared_id, next_id, version, now, pending_updates, frameVars, clears, results,
                     rendererVars>>
  PROVE  Flow'
  <1>1. DrawsOK /\ FrameOK /\ ListsOK /\ MessagesOK /\ Delivery
    BY DEF Flow, IInv
  <1>2. requested' = {} /\ wanted' = {} /\ wanted = {} /\ DOMAIN draws' = {} /\ draws' = draws
    BY <1>1, BetweenFrames DEF frameVars
  <1>3. DrawsOK'
    BY <1>1, <1>2, NothingDrawn
  <1>4. EndsKept
    BY <1>1, <1>2, TouchKeepsEnds
  <1>5. MessagesOK' /\ Delivery'
    BY <1>1, <1>4, NotSent
  <1> QED
    BY <1>3, <1>5 DEF Flow

LEMMA DeleteFlow ==
  ASSUME IInv, Flow, NEW h \in Handles, Delete(h)
  PROVE  Flow'
  <1>1. /\ now = NoDoc /\ h \in DOMAIN entries
        /\ entries' = [entries EXCEPT ![h] = [@ EXCEPT !.last_access = 0, !.eviction = "Auto",
                                                       !.dropped = TRUE]]
        /\ UNCHANGED <<shared_id, next_id, version, now, pending_updates, frameVars, clears, results,
                       rendererVars>>
    BY DEF Delete, Valid, Between, unchangedBetween, sharedVars
  <1>2. \A x \in DOMAIN entries : entries'[x].at = entries[x].at /\ entries'[x].owner = entries[x].owner
    <2> TAKE x \in DOMAIN entries
    <2>1. entries[x] \in CacheEntry
      BY DEF IInv, CacheOK
    <2> QED
      BY <1>1, <2>1 DEF CacheEntry
  <1> QED
    BY <1>1, <1>2, QuietFlow

LEMMA DocumentsFlow ==
  ASSUME IInv, Flow, NEW d \in Docs, AddDocument(d) \/ DeleteDocument(d)
  PROVE  Flow'
  <1>1. /\ now = NoDoc
        /\ UNCHANGED <<entries, shared_id, next_id, version, now, pending_updates, frameVars, clears,
                       results, rendererVars>>
    BY DEF AddDocument, DeleteDocument, Between, cacheVars, sharedVars
  <1> QED
    BY <1>1, QuietFlow

LEMMA StartGroupFlow ==
  ASSUME IInv, Flow, NEW ds \in SUBSET Docs, StartGroup(ds)
  PROVE  Flow'
  <1>1. /\ now = NoDoc
        /\ UNCHANGED <<next_id, version, now, frameVars, results, rendererVars>>
    BY DEF StartGroup, Between
  <1>2. CASE UNCHANGED <<entries, sharedVars, pending_updates, clears>>
    BY <1>1, <1>2, QuietFlow DEF sharedVars
  <1>3. CASE ClearShared
    <2>1. DrawsOK /\ FrameOK /\ ListsOK /\ MessagesOK /\ Delivery
      BY DEF Flow, IInv
    <2>2. requested' = {} /\ wanted' = {} /\ wanted = {} /\ DOMAIN draws' = {} /\ draws' = draws
      BY <1>1, <2>1, BetweenFrames DEF frameVars
    <2>3. DrawsOK'
      <3>1. DOMAIN entries' \subseteq DOMAIN entries /\ \A g \in DOMAIN entries' : entries'[g] = entries[g]
        BY <1>3 DEF ClearShared, Without
      <3> QED
        BY <2>1, <2>2, <3>1, NothingDrawn
    <2>4. EndsKept /\ clears' = clears + 1
      BY <1>1, <1>3, <2>1, <2>2, ClearSharedEnds DEF ClearShared
    <2>5. MessagesOK' /\ Delivery'
      BY <1>1, <2>1, <2>4, NotSent
    <2> QED
      BY <2>3, <2>5 DEF Flow
  <1> QED
    BY <1>2, <1>3 DEF StartGroup

LEMMA BeginFrameFlow ==
  ASSUME IInv, Flow, NEW d \in Docs, BeginFrame(d)
  PROVE  Flow'
  <1>1. now = NoDoc /\ UNCHANGED <<frameVars, clears, results, rendererVars>>
    BY DEF BeginFrame
  <1>2. DrawsOK /\ FrameOK /\ ListsOK /\ MessagesOK /\ Delivery
    BY DEF Flow, IInv
  <1>3. requested' = {} /\ wanted' = {} /\ DOMAIN draws' = {}
    BY <1>1, <1>2, BetweenFrames
  <1>4. EndsKept /\ OnlyGone(d)
    BY <1>2, BeginFrameEnds
  <1>5. DrawsOK'
    BY <1>2, <1>3, <1>4, NothingDrawn DEF OnlyGone
  <1>6. MessagesOK' /\ Delivery'
    BY <1>1, <1>2, <1>4, NotSent
  <1> QED
    BY <1>5, <1>6 DEF Flow

LEMMA RequestFlow ==
  ASSUME IInv, Flow, NEW h \in Handles, Request(h)
  PROVE  Flow'
  <1>1. /\ now \in Users[h] /\ (h \in DOMAIN entries => Valid(h))
        /\ UNCHANGED <<shared_id, next_id, version, now, pending_updates, draws, clears, results,
                       rendererVars>>
        /\ \/ requested' = requested \cup {h} /\ wanted' = wanted
           \/ ~(Valid(h) /\ h \in Tasks) /\ wanted' = wanted \cup {h} /\ requested' = requested
    BY DEF Request, unchangedByBuilding, sharedVars
  <1>2. DrawsOK /\ ListsOK /\ MessagesOK /\ Delivery
    BY DEF Flow, IInv
  <1>3. /\ DOMAIN entries' = DOMAIN entries
        /\ \A x \in DOMAIN entries : entries'[x].at = entries[x].at /\ entries'[x].owner = entries[x].owner
    <2>1. entries' = IF Valid(h) THEN [entries EXCEPT ![h] = [@ EXCEPT !.last_access = Stamp]]
                                 ELSE entries
      BY DEF Request
    <2>2. \A x \in DOMAIN entries : entries[x] \in CacheEntry
      BY DEF IInv, CacheOK
    <2> QED
      BY <2>1, <2>2 DEF CacheEntry
  <1>4. DrawsOK'
    <2>1. ASSUME NEW b \in DOMAIN draws'
          PROVE  \E g \in requested' \ Images :
                   /\ g \in DOMAIN entries' /\ entries'[g].at = b /\ entries'[g].owner = now'
                   /\ draws'[b] = <<g, version'[g]>>
      <3>1. PICK g \in requested \ Images : /\ g \in DOMAIN entries /\ entries[g].at = b
                                            /\ entries[g].owner = now /\ draws[b] = <<g, version[g]>>
        BY <1>1, <1>2 DEF DrawsOK
      <3> QED
        BY <1>1, <1>3, <3>1
    <2>2. \A g \in DOMAIN entries' : entries'[g].owner \in Users[g]
      BY <1>2, <1>3 DEF DrawsOK
    <2>3. \A g \in wanted' \cap DOMAIN entries' : g \notin Tasks
      BY <1>1, <1>2, <1>3 DEF DrawsOK
    <2>4. \A g \in requested' \cup wanted' : now' \in Users[g]
      BY <1>1, <1>2 DEF DrawsOK
    <2> QED
      BY <2>1, <2>2, <2>3, <2>4 DEF DrawsOK
  <1>5. EndsKept
    BY <1>1, <1>2, <1>3, TouchKeepsEnds
  <1>6. MessagesOK' /\ Delivery'
    BY <1>1, <1>2, <1>5, NotSent
  <1> QED
    BY <1>4, <1>6 DEF Flow

LEMMA FillFlow ==
  ASSUME IInv, Flow, UNCHANGED <<results, rendererVars>>,
         \E h, at, list, E : Fills1(h, at, list, E)
  PROVE  Flow'
  <1>1. DrawsOK /\ ListsOK /\ MessagesOK /\ Delivery
    BY DEF Flow, IInv
  <1>2. PICK h, at, list, E : Fills1(h, at, list, E)
    OBVIOUS
  <1>3. DrawsOK' /\ EndsKept /\ clears' = clears
    <2>1. DrawsOK'
      BY <1>1, <1>2, FillKeepsDraws
    <2>2. EndsKept
      BY <1>1, <1>2, FillEnds
    <2>3. clears' = clears
      BY <1>2 DEF Fills1
    <2> QED
      BY <2>1, <2>2, <2>3
  <1>4. MessagesOK' /\ Delivery'
    BY <1>1, <1>3, NotSent
  <1> QED
    BY <1>3, <1>4 DEF Flow

LEMMA UpdateFlow ==
  ASSUME IInv, Flow, NEW h \in Handles,
         UpdateShared(h) \/ UpdateStandalone(h) \/ UpdateInPlace(h) \/ UpdatePicture(h)
  PROVE  Flow'
  <1>1. UNCHANGED <<results, rendererVars>>
    BY DEF UpdateShared, UpdateStandalone, UpdateInPlace, UpdatePicture, unchangedByBuilding
  <1>2. \E at, list, E : Fills1(h, at, list, E)
    BY UpdateSharedMoves, UpdateStandaloneMoves, UpdatePictureMoves, MoveFills, InPlaceFills
  <1> QED
    BY <1>1, <1>2, FillFlow

LEMMA EndFrameFlow ==
  ASSUME IInv, Flow, EndFrame
  PROVE  Flow'
  <1>1. /\ requested' = {} /\ wanted' = {} /\ DOMAIN draws' = {}
        /\ UNCHANGED <<clears, rendererVars>>
    BY DEF EndFrame, EmptyMap
  <1>2. DrawsOK /\ ListsOK /\ MessagesOK /\ Delivery
    BY DEF Flow, IInv
  <1>3. /\ OnlyGone(now)
        /\ \E m : results' = Append(results, m) /\ m.clears = clears' /\ SendsWell(m)
    BY <1>2, EndFrameSendsWell
  <1>4. DrawsOK'
    BY <1>1, <1>2, <1>3, NothingDrawn DEF OnlyGone
  <1>5. MessagesOK' /\ Delivery'
    BY <1>1, <1>2, <1>3, SentWell
  <1> QED
    BY <1>4, <1>5 DEF Flow

LEMMA BackendFlow ==
  ASSUME ClearsSafely, IInv, Flow, RenderBackend
  PROVE  Flow'
  <1>1. CASE MemoryPressure \/ ClearCaches
    BY <1>1, MemoryPressureFlow, ClearCachesFlow
  <1>2. CASE \E d \in Docs : AddDocument(d) \/ DeleteDocument(d) \/ BeginFrame(d)
    BY <1>2, DocumentsFlow, BeginFrameFlow
  <1>3. CASE \E ds \in SUBSET Docs : StartGroup(ds)
    BY <1>3, StartGroupFlow
  <1>4. CASE \E h \in Handles : Delete(h) \/ Request(h)
    BY <1>4, DeleteFlow, RequestFlow
  <1>5. CASE \E h \in Handles :
               UpdateShared(h) \/ UpdateStandalone(h) \/ UpdateInPlace(h) \/ UpdatePicture(h)
    BY <1>5, UpdateFlow
  <1>6. CASE EndFrame
    BY <1>6, EndFrameFlow
  <1> QED
    BY <1>1, <1>2, <1>3, <1>4, <1>5, <1>6 DEF RenderBackend

(* The frames that the renderer has now.                                   *)
LEMMA StoreNow ==
  ASSUME ListsOK, Delivery
  PROVE  FramesOf(Store, taken_clears) /\ Intact(Store, taken_clears)
  <1> PICK st, ms : st = Store /\ ms = results
    OBVIOUS
  <1>1. Len(ms) \in Nat
    BY ResultsAre
  <1> PICK k \in Nat : k = Len(ms)
    BY <1>1
  <1>2. PICK f : f = [n \in 0..Len(ms) |-> Straight(st, ms, f, n)]
    <2>1. \E f : f = [n \in 0..k |-> Straight(st, ms, f, n)]
      BY StraightExists
    <2> QED
      BY <2>1
  <1>3. IsPath(f, st, ms) /\ f[0] = st
    BY <1>1, <1>2, StraightIsPath
  <1>4. 0 \in 0..Len(results) /\ ClearsAt(0) = taken_clears
    BY <1>1 DEF ClearsAt
  <1> QED
    BY <1>3, <1>4 DEF Delivery

LEMMA IntactIs == Intact(Store, taken_clears) => FrameIntact
  <1>1. /\ Store.frames = active_documents /\ DrawnTextures(Store) = Drawn
    BY DEF Store, DrawnTextures, DrawnStore, Drawn
  <1> QED
    BY <1>1 DEF FrameIntact, Intact, Current, Active, Has

LEMMA IntactStays ==
  ASSUME UNCHANGED <<textures, pending_texture_updates, active_documents>>,
         Intact(Store, taken_clears')
  PROVE  FrameIntact'
  <1>1. /\ Store.frames = active_documents' /\ DrawnTextures(Store) = Drawn'
    BY DEF Store, DrawnTextures, DrawnStore, Drawn
  <1> QED
    BY <1>1 DEF FrameIntact, Intact, Current, Active, Has

(* The renderer changes nothing that says where things have to be.         *)
LEMMA SameEnds ==
  ASSUME UNCHANGED <<cacheVars, backendVars>>
  PROVE  /\ DrawsOK => DrawsOK'
         /\ \A st : EndOK(st) => EndOK(st)'
  <1>1. UNCHANGED <<entries, shared_id, next_id, pending_updates, version, now, requested, wanted,
                    draws, clears>>
    BY DEF cacheVars, backendVars, sharedVars, frameVars
  <1>2. DrawsOK => DrawsOK'
    BY <1>1 DEF DrawsOK
  <1>3. ASSUME NEW st, DrawsStand(st)  PROVE DrawsStand(st)'
    BY <1>1, <1>3 DEF DrawsStand, DrawStands, NoEntryAt
  <1>4. ASSUME NEW st, ReadsStand(st)  PROVE ReadsStand(st)'
    BY <1>1, <1>4 DEF ReadsStand, ReadStands
  <1>5. ASSUME NEW st, Fills(st)  PROVE Fills(st)'
    BY <1>1, <1>5 DEF Fills, FilledIn
  <1> QED
    BY <1>2, <1>3, <1>4, <1>5 DEF EndOK

LEMMA RenderFlow ==
  ASSUME IInv, Flow, UNCHANGED <<cacheVars, backendVars, results, taken_clears>>,
         Store' = DrawnStore(Store)
  PROVE  Flow'
  <1>1. ListsOK /\ DrawsOK /\ MessagesOK /\ Delivery /\ clears' = clears
    BY DEF Flow, IInv, backendVars
  <1>2. DrawsOK' /\ MessagesOK'
    BY <1>1, SameEnds DEF MessagesOK
  <1>3. AreFrames(Store.frames)
    BY <1>1, StoreNow DEF FramesOf
  <1>4. ASSUME NEW f, IsPath(f, Store', results')
        PROVE  /\ EndOK(f[Len(results)])'
               /\ \A k \in 0..Len(results) : FramesOf(f[k], ClearsAt(k)) /\ Intact(f[k], ClearsAt(k))
    <2>1. IsPath(f, Store, results)
      BY <1>3, <1>4, PathAfterDrawing
    <2> PICK st : st = f[Len(results)]
      OBVIOUS
    <2>2. EndOK(st) /\ \A k \in 0..Len(results) : FramesOf(f[k], ClearsAt(k)) /\ Intact(f[k], ClearsAt(k))
      BY <1>1, <2>1 DEF Delivery
    <2>3. EndOK(st)'
      BY <2>2, SameEnds
    <2> QED
      BY <2>2, <2>3
  <1>5. Delivery'
    BY <1>4 DEF Delivery, ClearsAt
  <1> QED
    BY <1>2, <1>5 DEF Flow

LEMMA ResultsTaken ==
  ASSUME ListsOK, results # <<>>, results' = Tail(results)
  PROVE  /\ Len(results) \in Nat \ {0} /\ Len(results') = Len(results) - 1
         /\ \A k \in 1..Len(results') : results'[k] = results[k + 1]
         /\ Head(results) = results[1]
  <1> DEFINE S == {results[i] : i \in DOMAIN results}
  <1>1. results \in Seq(S)
    BY DEF ListsOK
  <1> HIDE DEF S
  <1> QED
    BY <1>1

LEMMA TakenMessages ==
  ASSUME ListsOK, MessagesOK, results # <<>>, results' = Tail(results),
         taken_clears' = results[1].clears, UNCHANGED clears
  PROVE  MessagesOK'
  <1>1. /\ Len(results) \in Nat \ {0} /\ Len(results') = Len(results) - 1
        /\ \A k \in 1..Len(results') : results'[k] = results[k + 1]
    BY ResultsTaken
  <1>2. /\ 1 \in 1..Len(results) /\ clears \in Nat /\ taken_clears \in Nat
        /\ taken_clears' \in Nat /\ taken_clears' <= clears
    BY <1>1 DEF MessagesOK
  <1>3. ASSUME NEW k \in 1..Len(results')
        PROVE  /\ results'[k].clears \in taken_clears'..clears
               /\ \A j \in 1..k : results'[j].clears <= results'[k].clears
    <2>1. /\ k + 1 \in 1..Len(results) /\ 1 \in 1..k + 1
          /\ \A j \in 1..k : j \in 1..Len(results') /\ j + 1 \in 1..k + 1
      BY <1>1
    <2>2. /\ results[k + 1].clears \in taken_clears..clears
          /\ results[1].clears <= results[k + 1].clears
          /\ \A j \in 1..k : results[j + 1].clears <= results[k + 1].clears
      BY <2>1 DEF MessagesOK
    <2>3. results[k + 1].clears \in taken_clears'..clears
      BY <1>2, <2>2
    <2> QED
      BY <1>1, <2>1, <2>2, <2>3
  <1> QED
    BY <1>2, <1>3 DEF MessagesOK

LEMMA TakeFlow ==
  ASSUME IInv, Flow, UNCHANGED <<cacheVars, backendVars>>, results # <<>>, results' = Tail(results),
         taken_clears' = Head(results).clears, Store' = AfterMessage(Store, Head(results))
  PROVE  Flow'
  <1>1. ListsOK /\ DrawsOK /\ MessagesOK /\ Delivery /\ clears' = clears
    BY DEF Flow, IInv, backendVars
  <1>2. /\ Len(results) \in Nat \ {0} /\ Len(results') = Len(results) - 1
        /\ \A k \in 1..Len(results') : results'[k] = results[k + 1]
        /\ Head(results) = results[1]
    BY <1>1, ResultsTaken
  <1>3. DrawsOK' /\ MessagesOK'
    BY <1>1, <1>2, SameEnds, TakenMessages
  <1>4. \A k \in 0..Len(results') : k + 1 \in 0..Len(results) /\ ClearsAt(k)' = ClearsAt(k + 1)
    BY <1>2 DEF ClearsAt
  <1>5. ASSUME NEW f, IsPath(f, Store', results')
        PROVE  /\ EndOK(f[Len(results)])'
               /\ \A k \in 0..Len(results') : FramesOf(f[k], ClearsAt(k)') /\ Intact(f[k], ClearsAt(k)')
    <2> PICK st, ms, rest : st = Store /\ ms = results /\ rest = results'
      OBVIOUS
    <2>1. /\ IsPath(f, AfterMessage(st, ms[1]), rest)
          /\ IsRest(rest, ms)
      BY <1>2, <1>5 DEF IsRest
    <2>2. PICK g : IsPath(g, st, ms) /\ IsLonger(g, f, rest)
      BY <2>1, PathAfterTaking
    <2>3. \A k \in 0..Len(results') : g[k + 1] = f[k]
      BY <2>2 DEF IsLonger
    <2>4. Len(results') \in 0..Len(results') /\ Len(results') + 1 = Len(results)
      BY <1>2
    <2> PICK last : last = f[Len(results')]
      OBVIOUS
    <2>5. last = g[Len(results)]
      BY <2>3, <2>4
    <2>6. EndOK(last)
      BY <1>1, <2>2, <2>5 DEF Delivery
    <2>7. EndOK(last)'
      BY <2>6, SameEnds
    <2>8. ASSUME NEW k \in 0..Len(results')
          PROVE  FramesOf(f[k], ClearsAt(k)') /\ Intact(f[k], ClearsAt(k)')
      <3>1. FramesOf(g[k + 1], ClearsAt(k + 1)) /\ Intact(g[k + 1], ClearsAt(k + 1))
        BY <1>1, <1>4, <2>2 DEF Delivery
      <3> QED
        BY <1>4, <2>3, <3>1
    <2> QED
      BY <2>7, <2>8
  <1>6. Delivery'
    BY <1>5 DEF Delivery
  <1> QED
    BY <1>3, <1>6 DEF Flow

(* A frame from before the last message that was taken is from before a    *)
(* clear or stays intact, also when the renderer panics.                   *)
LEMMA IntactWhenTaken ==
  ASSUME ListsOK, MessagesOK, Delivery, NEW c \in Nat, c >= taken_clears
  PROVE  Intact(Store, c)
  <1>1. FramesOf(Store, taken_clears) /\ Intact(Store, taken_clears) /\ taken_clears \in Nat
    BY StoreNow DEF MessagesOK
  <1>2. CASE c = taken_clears
    BY <1>1, <1>2
  <1>3. CASE c # taken_clears
    <2>1. \A d \in DOMAIN Store.frames : Store.frames[d].clears # c
      BY <1>1, <1>3 DEF FramesOf
    <2> QED
      BY <2>1 DEF Intact
  <1> QED
    BY <1>2, <1>3

Halted == panicked /\ DrawsOK /\ MessagesOK /\ FrameIntact

LEMMA RendererFlow ==
  ASSUME IInv, Flow, Renderer
  PROVE  (Flow' /\ UNCHANGED panicked) \/ Halted'
  <1>1. UNCHANGED <<cacheVars, backendVars>>
    BY DEF Renderer, Render, TakeDocument, TakePressure, Take
  <1>2. ListsOK /\ DrawsOK /\ MessagesOK /\ Delivery /\ DrawsOK' /\ clears' = clears
    BY <1>1, SameEnds DEF Flow, IInv, backendVars
  <1>3. CASE Render
    <2>1. CASE AllSeen
      <3>1. Store' = DrawnStore(Store)
        BY <1>3, <2>1 DEF Render, Store, DrawnStore, Drawn
      <3>2. UNCHANGED <<cacheVars, backendVars, results, taken_clears>>
        BY <1>3 DEF Render
      <3>3. Flow' /\ UNCHANGED panicked
        BY <1>3, <2>1, <3>1, <3>2, RenderFlow DEF Render
      <3> QED
        BY <3>3
    <2>2. CASE ~AllSeen
      <3>1. /\ panicked' /\ UNCHANGED <<results, taken_clears>>
            /\ UNCHANGED <<textures, pending_texture_updates, active_documents>>
        BY <1>3, <2>2 DEF Render
      <3>2. MessagesOK'
        BY <1>2, <3>1 DEF MessagesOK
      <3>3. FrameIntact'
        BY <1>2, <3>1, StoreNow, IntactStays
      <3> QED
        BY <1>2, <3>1, <3>2, <3>3 DEF Halted
    <2> QED
      BY <2>1, <2>2
  <1>4. CASE TakeDocument \/ TakePressure
    <2>1. /\ results # <<>> /\ results' = Tail(results) /\ taken_clears' = Head(results).clears
      BY <1>4 DEF TakeDocument, TakePressure, Take
    <2>2. Head(results) = results[1] /\ 1 \in 1..Len(results)
      BY <1>2, <2>1, ResultsTaken
    <2>3. CASE TakePressure
      <3>1. Head(results).kind = "pressure"
        BY <2>3 DEF TakePressure, Take
      <3>2. Store' = AfterMessage(Store, Head(results))
        BY <2>3, <3>1 DEF TakePressure, Store, AfterMessage
      <3>3. Flow' /\ UNCHANGED panicked
        BY <1>1, <2>1, <2>3, <3>2, TakeFlow DEF TakePressure
      <3> QED
        BY <3>3
    <2>4. CASE TakeDocument
      <3> PICK new : new = Head(results)
        OBVIOUS
      <3> DEFINE forced == new.id \in Active /\ MustBeDrawn(active_documents[new.id])
      <3>1. new.kind = "document"
        BY <2>4 DEF TakeDocument, Take
      <3>2. CASE forced /\ ~AllSeen
        <4>1. /\ panicked'
              /\ UNCHANGED <<textures, pending_texture_updates, active_documents>>
          BY <2>4, <3>2 DEF TakeDocument
        <4>2. MessagesOK'
          BY <1>2, <2>1, <2>2, TakenMessages
        <4>3. results[1].clears \in Nat /\ results[1].clears >= taken_clears
          BY <1>2, <2>2 DEF MessagesOK
        <4>4. Intact(Store, results[1].clears)
          BY <1>2, <4>3, IntactWhenTaken
        <4>5. FrameIntact'
          BY <2>1, <2>2, <4>1, <4>4, IntactStays
        <4> QED
          BY <1>2, <4>1, <4>2, <4>5 DEF Halted
      <3>3. CASE ~(forced /\ ~AllSeen)
        <4>1. Store' = AfterMessage(Store, new)
          <5>1. CASE forced
            BY <2>4, <3>1, <3>3, <5>1 DEF TakeDocument, Store, AfterMessage, DrawnStore, Drawn, Active
          <5>2. CASE ~forced
            BY <2>4, <3>1, <5>2 DEF TakeDocument, Store, AfterMessage, Active
          <5> QED
            BY <5>1, <5>2
        <4>2. Flow'
          BY <1>1, <2>1, <4>1, TakeFlow
        <4>3. UNCHANGED panicked
          BY <2>4, <3>3 DEF TakeDocument
        <4> QED
          BY <4>2, <4>3
      <3> QED
        BY <3>2, <3>3
    <2> QED
      BY <1>4, <2>3, <2>4
  <1> QED
    BY <1>3, <1>4 DEF Renderer

LEMMA DStart == Init => DInv
  <1> SUFFICES ASSUME Init  PROVE DInv
    OBVIOUS
  <1>1. DOMAIN entries = {} /\ DOMAIN draws = {} /\ DOMAIN Store.frames = {} /\ requested = {} /\ wanted = {}
    BY DEF Init, EmptyMap, Store
  <1>2. Len(results) = 0 /\ clears = 0 /\ taken_clears = 0
    BY DEF Init
  <1>3. DrawsOK
    BY <1>1 DEF DrawsOK
  <1>4. MessagesOK
    BY <1>2 DEF MessagesOK
  <1>5. FramesOf(Store, 0) /\ EndOK(Store)
    BY <1>1 DEF FramesOf, AreFrames, EndOK, DrawsStand, ReadsStand, Fills, Undrawn
  <1>6. ASSUME NEW st \in Steps(Store)
        PROVE  EndOK(st) /\ FramesOf(st, 0) /\ Intact(st, 0)
    <2>1. DOMAIN st.frames = {}
      BY <1>1, <1>5, DrawnIs DEF Steps, FramesOf
    <2> QED
      BY <1>5, <2>1, DrawnEnd DEF Intact
  <1>7. Delivery
    BY <1>2, <1>6 DEF Delivery, IsPath, ClearsAt
  <1>8. ~panicked
    BY DEF Init
  <1> QED
    BY <1>3, <1>4, <1>7, <1>8 DEF DInv

LEMMA BackendLeaves ==
  ASSUME RenderBackend
  PROVE  UNCHANGED rendererVars
  BY DEF RenderBackend, MemoryPressure, ClearCaches, AddDocument, DeleteDocument, BeginFrame,
         StartGroup, Delete, Request, UpdateShared, UpdateStandalone, UpdateInPlace,
         UpdatePicture, EndFrame, unchangedBetween, unchangedByBuilding

LEMMA DStep == ClearsSafely /\ IInv /\ DInv /\ [Next]_vars => DInv'
  <1> SUFFICES ASSUME ClearsSafely, IInv, DInv, [Next]_vars  PROVE DInv'
    OBVIOUS
  <1>1. CASE UNCHANGED vars
    <2>1. /\ UNCHANGED <<cacheVars, backendVars, results, taken_clears, panicked>> /\ Store' = Store
          /\ clears' = clears
      BY <1>1 DEF vars, rendererVars, Store, backendVars
    <2>2. DrawsOK' /\ MessagesOK'
      BY <2>1, SameEnds DEF DInv, MessagesOK
    <2>3. FrameIntact => FrameIntact'
      BY <1>1 DEF vars, rendererVars, FrameIntact, Current, Active, Drawn
    <2>4. ASSUME Delivery  PROVE Delivery'
      BY <2>1, <2>4, SameEnds DEF Delivery, ClearsAt
    <2> QED
      BY <2>1, <2>2, <2>3, <2>4 DEF DInv
  <1>2. CASE Next
    <2>1. Flow
      BY <1>2 DEF Next, DInv, Flow
    <2>2. CASE RenderBackend
      <3>1. UNCHANGED rendererVars
        BY <2>2, BackendLeaves
      <3>2. Intact(Store, taken_clears)
        BY <2>1, StoreNow DEF Flow, IInv
      <3>3. FrameIntact'
        BY <3>1, <3>2, IntactStays DEF rendererVars
      <3>4. Flow'
        BY <2>1, <2>2, BackendFlow
      <3> QED
        BY <3>3, <3>4 DEF Flow, DInv
    <2>3. CASE Renderer
      <3>1. (Flow' /\ UNCHANGED panicked) \/ Halted'
        BY <2>1, <2>3, RendererFlow
      <3> QED
        BY <1>2, <3>1 DEF Next, Flow, DInv, Halted
    <2> QED
      BY <1>2, <2>2, <2>3 DEF Next
  <1> QED
    BY <1>1, <1>2

LEMMA DImplied == IInv /\ DInv => ValidIsFilled /\ FrameIntact
  <1> SUFFICES ASSUME IInv, DInv  PROVE ValidIsFilled /\ FrameIntact
    OBVIOUS
  <1>1. ASSUME ~panicked, NEW h \in DOMAIN entries \ wanted
        PROVE  Has(OnceDelivered, entries[h].at, <<h, version[h]>>)
    <2>1. Len(results) \in Nat
      BY ResultsAre DEF IInv
    <2>2. PICK f : /\ f = [n \in 0..Len(results) |-> Straight(Store, results, f, n)]
                   /\ OnceDelivered =
                        Override(Applied(pending_updates, DrawnTextures(f[Len(results)])), draws)
      BY <2>1, OnceDeliveredIs
    <2>3. IsPath(f, Store, results)
      <3> PICK st, ms : st = Store /\ ms = results
        OBVIOUS
      <3>1. IsPath(f, st, ms)
        BY <2>1, <2>2, StraightIsPath
      <3> QED
        BY <3>1
    <2>4. EndOK(f[Len(results)])
      BY <1>1, <2>3 DEF DInv, Delivery
    <2> QED
      BY <1>1, <2>2, <2>4 DEF EndOK, Fills, FilledIn
  <1>2. ~panicked => FrameIntact
    BY StoreNow, IntactIs DEF IInv, DInv
  <1> QED
    BY <1>1, <1>2 DEF ValidIsFilled, DInv, Has

(* What request finds in the cache has its data in its place, or on its    *)
(* way there in lists and in frames that have not drawn yet, for any       *)
(* documents and handles.  If a debugger may clear the caches, then only   *)
(* one document may have picture tiles.                                    *)
THEOREM EntriesFilled ==
  ASSUME ClearsSafely
  PROVE  Spec => []ValidIsFilled
  <1>1. IInv /\ DInv /\ [Next]_vars => (IInv /\ DInv)'
    BY Step, DStep
  <1>2. Spec => [](IInv /\ DInv)
    BY Start, DStart, <1>1, PTL DEF Spec
  <1> QED
    BY <1>2, DImplied, PTL

(* Whenever the renderer draws, the entries that a frame reads are in      *)
(* their places with the data of that frame, under the same hypothesis.    *)
THEOREM FramesReadIntact ==
  ASSUME ClearsSafely
  PROVE  Spec => []FrameIntact
  <1>1. IInv /\ DInv /\ [Next]_vars => (IInv /\ DInv)'
    BY Step, DStep
  <1>2. Spec => [](IInv /\ DInv)
    BY Start, DStart, <1>1, PTL DEF Spec
  <1> QED
    BY <1>2, DImplied, PTL

=============================================================================
