---------------------------- MODULE HandleStore ----------------------------
(***************************************************************************)
(* What the documentation of freelist.rs promises of a store with strong   *)
(* and weak handles: a handle is given out once, finds its own entry until *)
(* the entry is freed, and nothing ever after.                             *)
(***************************************************************************)
CONSTANTS
  Handles,   \* everything a handle can be
  Values,    \* what entries hold
  Nothing    \* the answer None

VARIABLES
  live,     \* [set of Handles -> Values], the entries by strong handle
  issued,   \* the handles given out since the last clear; weak copies of them may exist
  found     \* what the last operation answered

storeVars == <<live, issued, found>>

Init == live = [h \in {} |-> Nothing] /\ issued = {} /\ found = Nothing

Answer(h) == IF h \in DOMAIN live THEN live[h] ELSE Nothing

Insert(h, v) ==
  /\ h \notin issued
  /\ issued' = issued \cup {h}
  /\ live' = [k \in DOMAIN live \cup {h} |-> IF k = h THEN v ELSE live[k]]
  /\ found' = Nothing

Replace(h, v) ==
  /\ h \in DOMAIN live
  /\ live' = [live EXCEPT ![h] = v]
  /\ found' = live[h]
  /\ UNCHANGED issued

Free(h) ==
  /\ h \in DOMAIN live
  /\ live' = [k \in DOMAIN live \ {h} |-> live[k]]
  /\ found' = live[h]
  /\ UNCHANGED issued

Clear == live' = [h \in {} |-> Nothing] /\ issued' = {} /\ found' = Nothing

Lookup(h) == found' = Answer(h) /\ UNCHANGED <<live, issued>>

Next == \/ \E h \in Handles, v \in Values : Insert(h, v) \/ Replace(h, v)
        \/ \E h \in Handles : Free(h) \/ Lookup(h)
        \/ Clear

Spec == Init /\ [][Next]_storeVars
=============================================================================
