------------------------------ MODULE MCHandles ------------------------------
(* Instances of FreeList and of Interning for TLC, the two stores whose     *)
(* handles outlive what they name. They share nothing: each takes its steps *)
(* while the other one is in its initial state.                             *)
EXTENDS FreeList, Interning, TLC

CONSTANTS v1, v2, k1, k2, k3

KeySymmetry == Permutations(Keys)

HandlesInit == ListInit /\ Init

HandlesNext ==
  \/ Init /\ ListNext /\ UNCHANGED vars
  \/ ListInit /\ Next /\ UNCHANGED listVars

HandlesSpec == HandlesInit /\ [][HandlesNext]_<<listVars, vars>>
=============================================================================
