--------------------------- MODULE TextureMemory ---------------------------
(***************************************************************************)
(* What the texture cache takes the textures of the renderer to be: a      *)
(* memory that every operation changes at once, in the order the cache     *)
(* performs them.  No list, no coalescing and no delay.                    *)
(***************************************************************************)
EXTENDS Integers

CONSTANTS
  Ids,      \* texture ids
  Layers,   \* layers of a texture, 0..
  Contents  \* what a layer can hold, undefined contents included

VARIABLE memory   \* [Ids -> [layers, contents]]; no layers: no texture

Texture == [layers : {0} \cup {l + 1 : l \in Layers}, contents : [Layers -> Contents]]

Exists(t) == memory[t].layers # 0

Init == memory \in [Ids -> Texture] /\ \A t, u \in Ids : Exists(t) /\ Exists(u) => t = u

(* The contents of a new texture are anything.                             *)
Allocate(t, new) == ~Exists(t) /\ new.layers # 0 /\ memory' = [memory EXCEPT ![t] = new]

(* More layers, without loss of the contents.                              *)
Grow(t, new) ==
  /\ Exists(t) /\ new.layers > memory[t].layers
  /\ \A l \in Layers : l < memory[t].layers => new.contents[l] = memory[t].contents[l]
  /\ memory' = [memory EXCEPT ![t] = new]

Write(t, l, c) ==
  /\ Exists(t) /\ l < memory[t].layers
  /\ memory' = [memory EXCEPT ![t].contents[l] = c]

(* Some textures are gone, and some start again with fewer layers and      *)
(* anything in them.                                                       *)
Clear(freed, reset) ==
  /\ \A t \in freed \cup reset : Exists(t)
  /\ memory' \in [Ids -> Texture]
  /\ \A t \in freed : memory'[t].layers = 0
  /\ \A t \in reset \ freed : memory'[t].layers \in 1..(memory[t].layers - 1)
  /\ \A t \in Ids \ (freed \cup reset) : memory'[t] = memory[t]

Next ==
  \/ \E freed, reset \in SUBSET Ids : Clear(freed, reset)
  \/ \E t \in Ids, new \in Texture : Allocate(t, new) \/ Grow(t, new)
  \/ \E t \in Ids, l \in Layers, c \in Contents : Write(t, l, c)

Spec == Init /\ [][Next]_memory
=============================================================================
