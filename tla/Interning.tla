----------------------------- MODULE Interning -----------------------------
(***************************************************************************)
(* intern.rs: the Interner of one document and data type, on the scene     *)
(* builder thread, and the DataStore that follows it on the render         *)
(* backend.  The interner gives the items of a scene their index in the    *)
(* store and recycles the indices of items no scene has used for a while,  *)
(* without knowing which scene the render backend shows; the changes       *)
(* travel with the scene that caused them.                                 *)
(***************************************************************************)
EXTENDS Integers, Sequences, FiniteSets

CONSTANTS
  Keys,      \* what is interned, I::Key; the value in the store is made of it
  NoKey,     \* None
  MaxAge,    \* scenes an unused item survives: 10 in the code
  MaxItems,  \* BOUND on the items of the store
  MaxScenes  \* BOUND on the scenes built

ASSUME InterningAssumption ==
  /\ NoKey \notin Keys
  /\ MaxAge \in Nat /\ MaxItems \in Nat /\ MaxScenes \in Nat

Indices == 0..(MaxItems - 1)

NoIndex == -1

(* Handle, without its uid.                                                *)
Handle == [index : Indices \cup {NoIndex}, epoch : Nat]

NotInterned == [index |-> NoIndex, epoch |-> 0]

Contents == [Indices -> Keys \cup {NoKey}]

Empty == [i \in Indices |-> NoKey]

(* The items of a scene, as the indices its handles hold.                  *)
Scene == [Keys -> Indices \cup {NoIndex}]

NoItems == [k \in Keys |-> NoIndex]

(* A built scene with its UpdateList: the insertions (the last one at an   *)
(* index wins, as in apply_updates), then the removals of the collection.  *)
(* What the store will hold, and how far, is history.                      *)
Built == [scene : Scene, inserts : Contents, removes : SUBSET Indices,
          after : Contents, upto : 0..MaxItems]

VARIABLES
  map,            \* Interner::map
  free_list,      \* Interner::free_list, without its order: the collection
                  \* fills it in the arbitrary order of a hash map
  local_data, count,  \* Interner::local_data and its length
  inserts,        \* Interner::updates and update_data
  current_epoch,
  scene,          \* the scene under construction
  results,        \* SceneBuilderResults on their way
  items, len,     \* DataStore::items and its length
  shown,          \* Document::scene on the render backend
  rb              \* what the render backend does

internerVars == <<map, free_list, local_data, count, inserts, current_epoch, scene>>
storeVars    == <<items, len, shown, rb>>
vars         == <<internerVars, results, storeVars>>

TypeOK ==
  /\ map \in [Keys -> Handle] /\ free_list \subseteq Indices
  /\ local_data \in Contents /\ count \in 0..MaxItems
  /\ inserts \in Contents /\ current_epoch \in Nat /\ scene \in Scene
  /\ results \in Seq(Built)
  /\ items \in Contents /\ len \in 0..MaxItems
  /\ shown \in Scene /\ rb \in {"frames", "swapped"}

Init ==
  /\ map = [k \in Keys |-> NotInterned] /\ free_list = {}
  /\ local_data = Empty /\ count = 0
  /\ inserts = Empty /\ current_epoch = 1 /\ scene = NoItems
  /\ results = <<>>
  /\ items = Empty /\ len = 0 /\ shown = NoItems /\ rb = "frames"

Interned(k) == map[k].index # NoIndex

-----------------------------------------------------------------------------
(* Interner::intern, by the scene builder.                                 *)

InternKnownKeepsEpoch(k) ==
  /\ Interned(k)
  /\ scene' = [scene EXCEPT ![k] = map[k].index]
  /\ UNCHANGED <<map, free_list, local_data, count, inserts, current_epoch, results,
                 storeVars>>

InternKnown(k) ==
  /\ Interned(k)
  /\ map' = [map EXCEPT ![k].epoch = current_epoch]
  /\ scene' = [scene EXCEPT ![k] = map[k].index]
  /\ UNCHANGED <<free_list, local_data, count, inserts, current_epoch, results, storeVars>>

NewIndicesSkip == IF free_list # {} THEN free_list ELSE {count + 1} \cap Indices

(* A free index, or the next one of local_data.                            *)
NewIndices == IF free_list # {} THEN free_list ELSE {count} \cap Indices

InternNew(k) ==
  /\ ~Interned(k)
  /\ \E i \in NewIndices :
       /\ map' = [map EXCEPT ![k] = [index |-> i, epoch |-> current_epoch]]
       /\ scene' = [scene EXCEPT ![k] = i]
       /\ inserts' = [inserts EXCEPT ![i] = k]
       /\ local_data' = [local_data EXCEPT ![i] = k]
       /\ free_list' = free_list \ {i}
       /\ count' = IF i = count THEN count + 1 ELSE count
  /\ UNCHANGED <<current_epoch, results, storeVars>>

-----------------------------------------------------------------------------
(* Interner::end_frame_and_get_pending_updates, when the scene is built;   *)
(* forward_built_transactions sends both to the render backend.            *)

Expired == {k \in Keys : Interned(k) /\ map[k].epoch + MaxAge < current_epoch}

RemovedNone == {}

Removed == {map[k].index : k \in Expired}

(* What the interner expects in the store.                                 *)
Live(i) == i < count /\ i \notin free_list
View == [i \in Indices |-> IF Live(i) THEN local_data[i] ELSE NoKey]

Without(contents, removes) ==
  [i \in Indices |-> IF i \in removes THEN NoKey ELSE contents[i]]

EndScene ==
  /\ current_epoch <= MaxScenes
  /\ results' = Append(results,
       [scene |-> scene, inserts |-> inserts, removes |-> Removed,
        after |-> Without(View, {map[k].index : k \in Expired}), upto |-> count])
  /\ free_list' = free_list \cup {map[k].index : k \in Expired}
  /\ map' = [k \in Keys |-> IF k \in Expired THEN NotInterned ELSE map[k]]
  /\ inserts' = Empty
  /\ current_epoch' = current_epoch + 1
  /\ scene' = NoItems
  /\ UNCHANGED <<local_data, count, storeVars>>

-----------------------------------------------------------------------------
(* The render backend.  The scene is swapped first (new_async_scene_ready) *)
(* and the store is updated next (update_document, apply_updates); the     *)
(* wait for the post_scene_swap hook may lie between, frames do not.       *)

SwapScene ==
  /\ rb = "frames" /\ results # <<>>
  /\ shown' = Head(results).scene
  /\ rb' = "swapped"
  /\ UNCHANGED <<internerVars, results, items, len>>

Inserting(contents, built) ==
  [i \in Indices |-> IF built.inserts[i] # NoKey THEN built.inserts[i] ELSE contents[i]]

Applied(contents, built) == Without(Inserting(contents, built), built.removes)

(* The length the insertions leave: VecHelper::entry appends at the end of *)
(* items and replaces what is before it.                                   *)
Grown(n, built) ==
  CHOOSE m \in n..MaxItems :
    /\ \A i \in Indices : built.inserts[i] # NoKey => i < m
    /\ m = n \/ built.inserts[m - 1] # NoKey

ApplyUpdates ==
  /\ rb = "swapped"
  /\ items' = Applied(items, Head(results))
  /\ len' = Grown(len, Head(results))
  /\ results' = Tail(results)
  /\ rb' = "frames"
  /\ UNCHANGED <<internerVars, shown>>

Next ==
  \/ \E k \in Keys : InternKnown(k) \/ InternNew(k)
  \/ EndScene
  \/ SwapScene \/ ApplyUpdates

Spec == Init /\ [][Next]_vars
-----------------------------------------------------------------------------
(* Whenever a frame is built, each handle of the scene finds its own item  *)
(* in the store: none is missing (expect("Bad datastore lookup")) and no   *)
(* index was given to another item meanwhile.                              *)
InternedFound ==
  rb = "frames" => \A k \in Keys : shown[k] # NoIndex => items[shown[k]] = k

(* The store can apply each list of updates: an insertion is at an index   *)
(* it has or the next one (assert_eq!(index, self.len()) in                *)
(* VecHelper::entry), a removal at one it has.                             *)
Fits(n, built) ==
  /\ \A i \in n..(Grown(n, built) - 1) : built.inserts[i] # NoKey
  /\ \A i \in built.removes : i < Grown(n, built)

UpdatesFit == rb = "swapped" => Fits(len, Head(results))

(* Nothing leaks: a store that has taken all updates holds what the        *)
(* interner maps and not one item more.                                    *)
StoreFollows ==
  results = <<>> /\ inserts = Empty =>
    \A i \in Indices, k \in Keys : items[i] = k <=> map[k].index = i

(* Why all this holds.  The interner's own books: an index is free or      *)
(* belongs to the one item that local_data has there.                      *)
BooksBalance ==
  /\ \A k \in Keys : Interned(k) =>
       /\ Live(map[k].index) /\ local_data[map[k].index] = k
       /\ map[k].epoch <= current_epoch
  /\ \A i \in Indices : Live(i) => local_data[i] \in Keys /\ map[local_data[i]].index = i
  /\ \A i \in free_list : i < count
  /\ \A k \in Keys : scene[k] # NoIndex => map[k].index = scene[k] /\ map[k].epoch = current_epoch

(* The lists on their way lead from what the store holds to what the       *)
(* interner expects, each scene finding its items once its own list is     *)
(* applied.                                                                *)
Follows(contents, n, built) ==
  /\ built.after = Applied(contents, built)
  /\ n <= built.upto
  /\ \A i \in Indices : i >= n => (built.inserts[i] # NoKey <=> i < built.upto)
  /\ \A i \in built.removes : i < built.upto

LastAfter == IF results = <<>> THEN items ELSE results[Len(results)].after
LastUpto  == IF results = <<>> THEN len ELSE results[Len(results)].upto

ListsLead ==
  /\ results # <<>> => Follows(items, len, results[1])
  /\ \A j \in 1..(Len(results) - 1) :
       Follows(results[j].after, results[j].upto, results[j + 1])
  /\ View = [i \in Indices |-> IF inserts[i] # NoKey THEN inserts[i] ELSE LastAfter[i]]
  /\ LastUpto <= count
  /\ \A i \in Indices : i >= LastUpto => (inserts[i] # NoKey <=> i < count)

ScenesFound ==
  /\ \A j \in DOMAIN results : \A k \in Keys :
       results[j].scene[k] # NoIndex => results[j].after[results[j].scene[k]] = k
  /\ rb = "swapped" => results # <<>> /\ shown = results[1].scene
  /\ InternedFound

InternerInv == BooksBalance /\ ListsLead /\ ScenesFound
=============================================================================
