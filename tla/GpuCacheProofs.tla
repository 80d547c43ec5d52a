--------------------------- MODULE GpuCacheProofs ---------------------------
(***************************************************************************)
(* Each block of the GPU cache is on one list, and what a frame or a valid *)
(* handle refers to is in the texture when the renderer draws.             *)
(***************************************************************************)
EXTENDS GpuCache, FiniteSetTheorems, WellFoundedInduction, TLAPS

-----------------------------------------------------------------------------
(* What the renderer is going to take, in order: the messages in results,  *)
(* and the list that the next frame will be sent after.  A position says   *)
(* how many of them it has taken.                                          *)

PendingList == [kind |-> "gpu", clear |-> pending_clear, updates |-> updates,
                base |-> base_epoch]
Line == Append(results, PendingList)

IsList(L, j) == L[j].kind = "gpu"
ClearIn(L, i, j) == \E k \in (i + 1)..j : IsList(L, k) /\ L[k].clear
WrittenIn(L, i, j, a) == \E k \in (i + 1)..j : IsList(L, k) /\ a \in DOMAIN L[k].updates

(* At position q address a holds x: written by list i, or in the texture U *)
(* already.                                                                *)
Source(L, U, i) == IF i = 0 THEN U ELSE L[i].updates
WrittenLast(L, U, i, q, a, x) ==
  /\ i = 0 \/ IsList(L, i)
  /\ a \in DOMAIN Source(L, U, i) /\ Source(L, U, i)[a] = x
  /\ ~ClearIn(L, i, q) /\ ~WrittenIn(L, i, q, a)
Holds(L, U, q, a, x) == \E i \in 0..q : WrittenLast(L, U, i, q, a, x)

(* At position q the renderer shows the frame of document d that came at   *)
(* position i, of the texture it has then; A and T are its active          *)
(* documents and the base of their texture at position 0.                  *)
HasFrame(L, A, i, d) ==
  IF i = 0 THEN d \in DOMAIN A ELSE L[i].kind = "document" /\ L[i].id = d
FrameAt(L, A, i, d) == IF i = 0 THEN A[d] ELSE L[i].frame
Superseded(L, i, q, d) ==
  \E k \in (i + 1)..q : HasFrame(L, <<>>, k, d) \/ L[k].kind = "pressure"
Shown(L, A, T, i, q, d) ==
  /\ HasFrame(L, A, i, d) /\ ~Superseded(L, i, q, d)
  /\ ~ClearIn(L, i, q)
  /\ i = 0 => A[d].base = T

Places(L) == 0..Len(L)

(* A use of a block that the frame, and nobody else, relies on, and that   *)
(* was uploaded.                                                           *)
Plain(u) == ~u.shared /\ u.data # External

FramesHold(L, U, A, T) ==
  \A q \in Places(L), d \in Docs : \A i \in 0..q :
    Shown(L, A, T, i, q, d) =>
      \A u \in FrameAt(L, A, i, d).uses : Plain(u) => Holds(L, U, q, u.at, u.data)

(* Where a frame has a deferred block, and a frame that comes with or      *)
(* after it has uploaded something, the upload comes after it.             *)
DeferredApart(L, A, T) ==
  \A p, q \in Places(L), d, e \in Docs : \A i \in 0..p, k \in 0..q :
    p <= q /\ Shown(L, A, T, i, p, d) /\ Shown(L, A, T, k, q, e) /\ ~ClearIn(L, p, q) =>
      \A u \in FrameAt(L, A, k, e).uses :
        Plain(u) /\ u.at \in FrameAt(L, A, i, d).deferred => WrittenIn(L, p, q, u.at)

(* So it is for the frame being built, and for valid handles.              *)
DeferredBefore(L, A, T, S) ==
  \A p \in Places(L), d \in Docs : \A i \in 0..p :
    Shown(L, A, T, i, p, d) /\ ~ClearIn(L, p, Len(L)) =>
      \A a \in S : a \in FrameAt(L, A, i, d).deferred => WrittenIn(L, p, Len(L), a)

PlainUses == {u \in uses : Plain(u)}
HandleAt(h) == blocks[location[h].block].at
InUse == {u.at : u \in PlainUses} \cup {HandleAt(h) : h \in {g \in Handles : Valid(g)}}

UsesHold(L, U) == \A u \in PlainUses : Holds(L, U, Len(L), u.at, u.data)
HandlesHold(L, U) == \A h \in Handles : Valid(h) => Holds(L, U, Len(L), HandleAt(h), <<h, version[h]>>)

DataInv ==
  /\ DeferredApart(Line, active_documents, taken_base)
  /\ DeferredBefore(Line, active_documents, taken_base, InUse)
  /\ ~spoiled => /\ FramesHold(Line, Uploaded, active_documents, taken_base)
                 /\ UsesHold(Line, Uploaded)
                 /\ HandlesHold(Line, Uploaded)

-----------------------------------------------------------------------------
(* The blocks.                                                             *)

Owned(b, d) == blocks[b].owner = d
Free(b) == blocks[b].owner = NoDoc

(* A block at this address is the document's, used in frame t or later.    *)
Keeps(a, d, t) == \E b \in 1..block_count : /\ blocks[b].at = a /\ Owned(b, d)
                                           /\ blocks[b].last_access_time >= t

(* The number of the last frame that was sent.                             *)
LastSent(d) == IF now = d THEN frame_id[d] - 1 ELSE frame_id[d]

NoHandleAt(a) == \A h \in Handles : Valid(h) => HandleAt(h) # a
OwnHandleAt(a, d) == \A h \in Handles : Valid(h) /\ HandleAt(h) = a => Users[h] = {d}

FrameKept(f, d) ==
  /\ \A u \in f.uses : ~u.shared => Keeps(u.at, d, LastSent(d)) /\ OwnHandleAt(u.at, d)
  /\ \A a \in f.deferred : Keeps(a, d, LastSent(d)) /\ NoHandleAt(a)

FramesKept(L, A, T) ==
  \A d \in Docs : \A i \in Places(L) :
    Shown(L, A, T, i, Len(L), d) => FrameKept(FrameAt(L, A, i, d), d)

UsesKept ==
  /\ \A u \in uses : ~u.shared => Keeps(u.at, now, frame_id[now]) /\ OwnHandleAt(u.at, now)
  /\ \A a \in deferred : /\ Keeps(a, now, frame_id[now]) /\ NoHandleAt(a)
                         /\ \A u \in PlainUses : u.at # a
  /\ \A u \in uses : u.data = External => u.at \in deferred

FramesOK(L, A) ==
  \A d \in Docs, i \in Places(L) : HasFrame(L, A, i, d) =>
    /\ FrameAt(L, A, i, d) \in Frame
    /\ \A u \in FrameAt(L, A, i, d).uses : u.data = External => u.at \in FrameAt(L, A, i, d).deferred
    /\ frame_id[d] > 0

BlocksOK ==
  /\ \A b \in 1..block_count :
       /\ blocks[b].at[1] \in 1..Len(rows)
       /\ blocks[b].epoch \in base_epoch..max_epoch
       /\ blocks[b].next \in 0..block_count
  /\ \A b, c \in 1..block_count : blocks[b].at = blocks[c].at => b = c
  /\ \A h \in Handles :
       LET k == location[h] IN
       /\ k.epoch <= max_epoch
       /\ k.block # None /\ k.epoch >= base_epoch =>
            /\ k.block \in 1..block_count /\ k.epoch <= blocks[k.block].epoch
            /\ k.epoch = blocks[k.block].epoch => blocks[k.block].owner \in Users[h]
  /\ \A g, h \in Handles : Valid(g) /\ Valid(h) /\ location[g].block = location[h].block => g = h

LoopOK ==
  /\ now = NoDoc => uses = {} /\ deferred = {} /\ current_block = None /\ prev_block = None
  /\ current_block # None =>
       /\ uses = {} /\ deferred = {} /\ now \in Docs /\ Owned(current_block, now)
       /\ IF prev_block = None THEN current_block = occupied_list_heads[now]
          ELSE Owned(prev_block, now) /\ blocks[prev_block].next = current_block

-----------------------------------------------------------------------------
(* The bases, and the frames that a clear owes.                            *)

BaseAt(L, T, i) == IF i = 0 THEN T ELSE L[i].base

BasesOK(L, A, T) ==
  /\ \A i, j \in Places(L) : i < j /\ (i = 0 \/ IsList(L, i)) /\ IsList(L, j) =>
       /\ BaseAt(L, T, i) <= BaseAt(L, T, j)
       /\ L[j].clear => BaseAt(L, T, i) < BaseAt(L, T, j)
       /\ ~ClearIn(L, i, j) => BaseAt(L, T, i) = BaseAt(L, T, j)
  /\ \A d \in DOMAIN A : A[d].base <= T
  /\ \A i \in 1..Len(L) : L[i].kind = "document" =>
       \E k \in 0..(i - 1) : (k = 0 \/ IsList(L, k)) /\ L[i].frame.base <= BaseAt(L, T, k)

Owed(L, A) ==
  \A d \in documents, i \in Places(L) :
    HasFrame(L, A, i, d) /\ ~Superseded(L, i, Len(L), d)
      /\ FrameAt(L, A, i, d).base # base_epoch =>
      requires_frame_build /\ (Between \/ d \in nops \cup batch \cup {now})

-----------------------------------------------------------------------------
(* Chains of blocks.                                                       *)

(* The blocks of S, each once, from the head on.                           *)
Place(s, n, i) == IF i \in 1..n THEN s[i] ELSE None
IsChain(bs, head, S, n, s) ==
  /\ \A i, j \in 1..n : s[i] = s[j] => i = j
  /\ \A b \in S : \E i \in 1..n : s[i] = b
  /\ head = Place(s, n, 1)
  /\ \A i \in 1..n : bs[s[i]].next = Place(s, n, i + 1)
Chained(bs, head, S) == \E n \in Nat : \E s \in [1..n -> S] : IsChain(bs, head, S, n, s)

LEMMA ChainPicked ==
  ASSUME NEW bs, NEW head, NEW S, Chained(bs, head, S)
  PROVE  \E n, s : n \in Nat /\ s \in [1..n -> S] /\ IsChain(bs, head, S, n, s)
BY DEF Chained

LEMMA ChainSame ==
  ASSUME NEW bs, NEW cs, NEW head, NEW S, Chained(bs, head, S),
         \A b \in S : cs[b].next = bs[b].next
  PROVE  Chained(cs, head, S)
<1>1. PICK n, s : n \in Nat /\ s \in [1..n -> S] /\ IsChain(bs, head, S, n, s)
  BY ChainPicked
<1>2. IsChain(cs, head, S, n, s)
  BY <1>1 DEF IsChain
<1> QED  BY <1>1, <1>2 DEF Chained

LEMMA ChainEmpty ==
  ASSUME NEW bs
  PROVE  Chained(bs, None, {})
<1> DEFINE s == [i \in 1..0 |-> 0]
<1>1. s \in [1..0 -> {}] /\ 0 \in Nat
  OBVIOUS
<1>2. IsChain(bs, None, {}, 0, s)
  BY DEF IsChain, Place
<1> QED  BY <1>1, <1>2 DEF Chained

LEMMA ChainHead ==
  ASSUME NEW bs, NEW head, NEW S \in SUBSET (Nat \ {0}), Chained(bs, head, S)
  PROVE  /\ head # None => head \in S
         /\ head = None => S = {}
<1>1. PICK n, s : n \in Nat /\ s \in [1..n -> S] /\ IsChain(bs, head, S, n, s)
  BY ChainPicked
<1>2. head = Place(s, n, 1)
  BY <1>1 DEF IsChain
<1>3. CASE n = 0
  BY <1>1, <1>2, <1>3 DEF IsChain, Place, None
<1>4. CASE n # 0
  <2>1. 1 \in 1..n /\ s[1] \in S
    BY <1>1, <1>4
  <2> QED  BY <1>2, <2>1 DEF Place, None
<1> QED  BY <1>3, <1>4

(* A block comes to the front ...                                          *)
LEMMA ChainPush ==
  ASSUME NEW bs, NEW cs, NEW head, NEW S, NEW b, b \notin S,
         Chained(bs, head, S), cs[b].next = head,
         \A x \in S : cs[x].next = bs[x].next
  PROVE  Chained(cs, b, S \cup {b})
<1>1. PICK n, s : n \in Nat /\ s \in [1..n -> S] /\ IsChain(bs, head, S, n, s)
  BY ChainPicked
<1> DEFINE t == [i \in 1..(n + 1) |-> IF i = 1 THEN b ELSE s[i - 1]]
<1>2. \A i \in 1..(n + 1) : i # 1 => i - 1 \in 1..n /\ s[i - 1] \in S
  BY <1>1
<1>3. n + 1 \in Nat /\ t \in [1..(n + 1) -> S \cup {b}] /\ 1 \in 1..(n + 1)
  BY <1>1, <1>2
<1>4. t[1] = b /\ \A i \in 1..(n + 1) : i # 1 => t[i] = s[i - 1]
  BY <1>3
<1> HIDE DEF t
<1>5. ASSUME NEW i \in 1..(n + 1), NEW j \in 1..(n + 1), t[i] = t[j] PROVE i = j
  <2>1. CASE i = 1 /\ j # 1
    BY <1>2, <1>4, <1>5, <2>1
  <2>2. CASE i # 1 /\ j = 1
    BY <1>2, <1>4, <1>5, <2>2
  <2>3. CASE i # 1 /\ j # 1
    <3>1. i - 1 = j - 1
      BY <1>1, <1>2, <1>4, <1>5, <2>3 DEF IsChain
    <3> QED  BY <3>1
  <2> QED  BY <2>1, <2>2, <2>3
<1>6. ASSUME NEW x \in S \cup {b} PROVE \E i \in 1..(n + 1) : t[i] = x
  <2>1. CASE x = b
    BY <1>3, <1>4, <2>1
  <2>2. CASE x \in S
    <3>1. PICK i \in 1..n : s[i] = x
      BY <1>1, <2>2 DEF IsChain
    <3>2. i + 1 \in 1..(n + 1) /\ i + 1 # 1 /\ (i + 1) - 1 = i
      BY <1>1
    <3>3. t[i + 1] = x
      BY <1>4, <3>1, <3>2
    <3> QED  BY <3>2, <3>3
  <2> QED  BY <2>1, <2>2
<1>7. ASSUME NEW i \in 1..(n + 1) PROVE cs[t[i]].next = Place(t, n + 1, i + 1)
  <2>1. \A j \in 1..(n + 1) : Place(t, n + 1, j + 1) = Place(s, n, j)
    <3> SUFFICES ASSUME NEW j \in 1..(n + 1) PROVE Place(t, n + 1, j + 1) = Place(s, n, j)
      OBVIOUS
    <3>1. CASE j = n + 1
      BY <1>1, <3>1 DEF Place
    <3>2. CASE j # n + 1
      <4>1. j \in 1..n /\ j + 1 \in 1..(n + 1) /\ j + 1 # 1 /\ (j + 1) - 1 = j
        BY <1>1, <3>2
      <4> QED  BY <1>4, <4>1 DEF Place
    <3> QED  BY <3>1, <3>2
  <2>2. CASE i = 1
    <3>1. Place(t, n + 1, i + 1) = Place(s, n, 1)
      BY <2>1, <2>2
    <3> QED  BY <1>1, <1>4, <2>2, <3>1 DEF IsChain
  <2>3. CASE i # 1
    <3>1. i - 1 \in 1..n /\ s[i - 1] \in S /\ t[i] = s[i - 1] /\ (i - 1) + 1 = i
      BY <1>2, <1>4, <2>3
    <3>2. bs[s[i - 1]].next = Place(s, n, i)
      BY <1>1, <3>1 DEF IsChain
    <3> QED  BY <2>1, <3>1, <3>2
  <2> QED  BY <2>2, <2>3
<1>8. b = Place(t, n + 1, 1)
  BY <1>3, <1>4 DEF Place
<1>9. IsChain(cs, b, S \cup {b}, n + 1, t)
  BY <1>5, <1>6, <1>7, <1>8 DEF IsChain
<1> QED  BY <1>3, <1>9 DEF Chained

(* ... and the block at place k leaves: the one before it is linked to the *)
(* one behind it.                                                          *)
Leaves(bs, cs, n, s, k) ==
  /\ \A i \in 1..n : i # k /\ i # k - 1 => cs[s[i]].next = bs[s[i]].next
  /\ k # 1 => cs[s[k - 1]].next = bs[s[k]].next

LEMMA ChainWithout ==
  ASSUME NEW bs, NEW cs, NEW head, NEW S \in SUBSET (Nat \ {0}),
         NEW n \in Nat, NEW s \in [1..n -> S], IsChain(bs, head, S, n, s),
         NEW k \in 1..n, Leaves(bs, cs, n, s, k)
  PROVE  Chained(cs, IF k = 1 THEN bs[s[k]].next ELSE head, S \ {s[k]})
<1> DEFINE top == IF k = 1 THEN bs[s[k]].next ELSE head
<1> DEFINE Up(i) == IF i < k THEN i ELSE i + 1
           t == [i \in 1..(n - 1) |-> s[Up(i)]]
<1>1. /\ n - 1 \in Nat
      /\ \A i \in 1..(n - 1) : Up(i) \in 1..n /\ Up(i) # k /\ t[i] = s[Up(i)]
      /\ \A i, j \in 1..(n - 1) : Up(i) = Up(j) => i = j
  OBVIOUS
<1>2. \A i, j \in 1..n : s[i] = s[j] => i = j
  BY DEF IsChain
<1>3. t \in [1..(n - 1) -> S \ {s[k]}]
  <2>1. \A i \in 1..(n - 1) : s[Up(i)] \in S \ {s[k]}
    BY <1>1, <1>2
  <2> QED  BY <2>1
<1> HIDE DEF t
<1>4. ASSUME NEW i \in 1..(n - 1), NEW j \in 1..(n - 1), t[i] = t[j] PROVE i = j
  BY <1>1, <1>2, <1>4
<1>5. ASSUME NEW x \in S \ {s[k]} PROVE \E i \in 1..(n - 1) : t[i] = x
  <2>1. PICK j \in 1..n : s[j] = x
    BY DEF IsChain
  <2>2. j # k
    BY <2>1
  <2>3. CASE j < k
    <3>1. j \in 1..(n - 1) /\ Up(j) = j
      BY <2>3
    <3> QED  BY <1>1, <2>1, <3>1
  <2>4. CASE j > k
    <3>1. j - 1 \in 1..(n - 1) /\ Up(j - 1) = j
      BY <2>4
    <3> QED  BY <1>1, <2>1, <3>1
  <2> QED  BY <2>2, <2>3, <2>4
<1>6. \A i \in 1..(n - 1) : Place(t, n - 1, i + 1) = Place(s, n, Up(i + 1))
  <2> SUFFICES ASSUME NEW i \in 1..(n - 1) PROVE Place(t, n - 1, i + 1) = Place(s, n, Up(i + 1))
    OBVIOUS
  <2>1. CASE i = n - 1
    <3>1. i + 1 \notin 1..(n - 1) /\ Up(i + 1) \notin 1..n
      BY <2>1
    <3> QED  BY <3>1 DEF Place
  <2>2. CASE i # n - 1
    <3>1. i + 1 \in 1..(n - 1)
      BY <2>2
    <3>2. Up(i + 1) \in 1..n /\ t[i + 1] = s[Up(i + 1)]
      BY <1>1, <3>1
    <3> QED  BY <3>1, <3>2 DEF Place
  <2> QED  BY <2>1, <2>2
<1>7. ASSUME NEW i \in 1..(n - 1) PROVE cs[t[i]].next = Place(t, n - 1, i + 1)
  <2>1. CASE Up(i) # k - 1
    <3>1. cs[t[i]].next = Place(s, n, Up(i) + 1)
      BY <1>1, <2>1 DEF IsChain, Leaves
    <3>2. Up(i) + 1 = Up(i + 1)
      BY <2>1
    <3> QED  BY <1>6, <3>1, <3>2
  <2>2. CASE Up(i) = k - 1
    <3>1. k # 1 /\ i = k - 1 /\ Up(i + 1) = k + 1
      BY <2>2
    <3>2. t[i] = s[k - 1] /\ cs[s[k - 1]].next = bs[s[k]].next
      BY <1>1, <2>2, <3>1 DEF Leaves
    <3>3. bs[s[k]].next = Place(s, n, k + 1)
      BY DEF IsChain
    <3> QED  BY <1>6, <3>1, <3>2, <3>3
  <2> QED  BY <2>1, <2>2
<1>8. top = Place(t, n - 1, 1)
  <2>1. CASE k = 1 /\ n = 1
    BY <2>1 DEF IsChain, Place
  <2>2. CASE k = 1 /\ n # 1
    <3>1. 1 \in 1..(n - 1) /\ Up(1) = 2 /\ 2 \in 1..n
      BY <2>2
    <3>2. top = Place(s, n, 1 + 1)
      BY <2>2 DEF IsChain
    <3> QED  BY <1>1, <3>1, <3>2 DEF Place
  <2>3. CASE k # 1
    <3>1. 1 \in 1..(n - 1) /\ Up(1) = 1 /\ 1 \in 1..n
      BY <2>3
    <3>2. top = Place(s, n, 1)
      BY <2>3 DEF IsChain
    <3> QED  BY <1>1, <3>1, <3>2 DEF Place
  <2> QED  BY <2>1, <2>2, <2>3
<1>9. IsChain(cs, top, S \ {s[k]}, n - 1, t)
  BY <1>4, <1>5, <1>7, <1>8 DEF IsChain
<1> QED  BY <1>1, <1>3, <1>9 DEF Chained

LEMMA ChainPop ==
  ASSUME NEW bs, NEW cs, NEW head, NEW S \in SUBSET (Nat \ {0}), Chained(bs, head, S),
         head # None, \A x \in S \ {head} : cs[x].next = bs[x].next
  PROVE  Chained(cs, bs[head].next, S \ {head})
<1>1. PICK n, s : n \in Nat /\ s \in [1..n -> S] /\ IsChain(bs, head, S, n, s)
  BY ChainPicked
<1>2. 1 \in 1..n /\ head = s[1]
  BY <1>1 DEF IsChain, Place
<1>3. \A i \in 1..n : i # 1 => s[i] \in S \ {head}
  BY <1>1, <1>2 DEF IsChain
<1>4. Leaves(bs, cs, n, s, 1)
  BY <1>3 DEF Leaves
<1>5. Chained(cs, IF 1 = 1 THEN bs[s[1]].next ELSE head, S \ {s[1]})
  BY <1>1, <1>2, <1>4, ChainWithout
<1> QED  BY <1>2, <1>5

LEMMA ChainCut ==
  ASSUME NEW bs, NEW cs, NEW head, NEW S \in SUBSET (Nat \ {0}), Chained(bs, head, S),
         NEW prev \in S, NEW b, bs[prev].next = b, b # None,
         cs[prev].next = bs[b].next,
         \A x \in S \ {prev, b} : cs[x].next = bs[x].next
  PROVE  b # prev /\ Chained(cs, head, S \ {b})
<1>1. PICK n, s : n \in Nat /\ s \in [1..n -> S] /\ IsChain(bs, head, S, n, s)
  BY ChainPicked
<1>2. PICK j \in 1..n : s[j] = prev
  BY <1>1 DEF IsChain
<1>3. bs[s[j]].next = Place(s, n, j + 1)
  BY <1>1 DEF IsChain
<1>4. j + 1 \in 1..n /\ s[j + 1] = b
  BY <1>2, <1>3 DEF Place
<1>5. \A i, m \in 1..n : s[i] = s[m] => i = m
  BY <1>1 DEF IsChain
<1>6. b # prev
  BY <1>2, <1>4, <1>5
<1>7. (j + 1) - 1 = j /\ j + 1 # 1
  BY <1>1
<1>8. ASSUME NEW i \in 1..n, i # j + 1, i # j PROVE cs[s[i]].next = bs[s[i]].next
  <2>1. s[i] \in S \ {prev, b}
    BY <1>1, <1>2, <1>4, <1>5, <1>8
  <2> QED  BY <2>1
<1> DEFINE k == j + 1
<1>9. Chained(cs, head, S \ {s[k]})
  <2>1. k \in 1..n /\ k # 1 /\ k - 1 = j
    BY <1>4, <1>7
  <2>2. \A i \in 1..n : i # k /\ i # k - 1 => cs[s[i]].next = bs[s[i]].next
    BY <1>8, <2>1
  <2>3. Leaves(bs, cs, n, s, k)
    BY <1>2, <1>4, <2>1, <2>2 DEF Leaves
  <2> HIDE DEF k
  <2>4. Chained(cs, IF k = 1 THEN bs[s[k]].next ELSE head, S \ {s[k]})
    BY <1>1, <2>1, <2>3, ChainWithout
  <2> QED  BY <2>1, <2>4
<1> QED  BY <1>4, <1>6, <1>9

(* The blocks of a new row.                                                *)
LEMMA ChainNewRow ==
  ASSUME NEW cs, NEW m \in Nat, NEW k \in Nat \ {0},
         \A b \in (m + 1)..(m + k) : cs[b].next = IF b = m + 1 THEN None ELSE b - 1
  PROVE  Chained(cs, m + k, (m + 1)..(m + k))
<1> DEFINE s == [i \in 1..k |-> (m + k + 1) - i]
<1>1. \A i \in 1..k : (m + k + 1) - i \in (m + 1)..(m + k)
  OBVIOUS
<1>2. s \in [1..k -> (m + 1)..(m + k)] /\ \A i \in 1..k : s[i] = (m + k + 1) - i
  BY <1>1
<1> HIDE DEF s
<1>3. \A i, j \in 1..k : s[i] = s[j] => i = j
  BY <1>2
<1>4. ASSUME NEW b \in (m + 1)..(m + k) PROVE \E i \in 1..k : s[i] = b
  <2>1. (m + k + 1) - b \in 1..k
    OBVIOUS
  <2> QED  BY <1>2, <2>1
<1>5. m + k = Place(s, k, 1)
  BY <1>2 DEF Place
<1>6. ASSUME NEW i \in 1..k PROVE cs[s[i]].next = Place(s, k, i + 1)
  <2>1. s[i] \in (m + 1)..(m + k) /\ s[i] = (m + k + 1) - i
    BY <1>2
  <2>2. CASE i = k
    <3>1. s[i] = m + 1 /\ i + 1 \notin 1..k
      BY <2>1, <2>2
    <3> QED  BY <2>1, <3>1 DEF Place
  <2>3. CASE i # k
    <3>1. i + 1 \in 1..k /\ s[i + 1] = s[i] - 1 /\ s[i] # m + 1
      BY <1>2, <2>1, <2>3
    <3> QED  BY <2>1, <3>1 DEF Place
  <2> QED  BY <2>2, <2>3
<1>7. IsChain(cs, m + k, (m + 1)..(m + k), k, s)
  BY <1>3, <1>4, <1>5, <1>6 DEF IsChain
<1> QED  BY <1>2, <1>7 DEF Chained

-----------------------------------------------------------------------------
(* What a walk along the links finds.                                      *)

LEMMA Smallest ==
  ASSUME NEW T \in SUBSET Nat, T # {}
  PROVE  \E x \in T : \A y \in T : x <= y
<1>1. PICK R : R = {ss \in Nat \X Nat : ss[1] < ss[2]} /\ IsWellFoundedOn(R, Nat)
  BY NatLessThanWellFounded, Zenon DEF OpToRel
<1>2. PICK x \in T : \A y \in T : <<y, x>> \notin R
  BY <1>1, WFMin
<1>3. \A y \in T : ~(y < x)
  BY <1>1, <1>2
<1> QED  BY <1>3

LinkStep(bs, head, f, n) == IF n = 0 THEN head
                            ELSE IF f[n - 1] = None THEN None ELSE bs[f[n - 1]].next

LEMMA WalkExists ==
  ASSUME NEW bs, NEW head, NEW m \in Nat
  PROVE  \E f : f = [n \in 0..m |-> LinkStep(bs, head, f, n)]
<1> DEFINE Missing(k) == ~ \E f : f = [n \in 0..k |-> LinkStep(bs, head, f, n)]
           T == {k \in Nat : Missing(k)}
<1> SUFFICES ASSUME T # {} PROVE FALSE
  OBVIOUS
<1>1. PICK k \in T : \A j \in T : k <= j
  BY Smallest
<1>2. CASE k = 0
  <2> DEFINE f == [n \in 0..0 |-> head]
  <2>1. \A n \in 0..0 : LinkStep(bs, head, f, n) = head
    BY DEF LinkStep
  <2>2. f = [n \in 0..0 |-> LinkStep(bs, head, f, n)]
    BY <2>1
  <2> QED  BY <1>1, <1>2, <2>2
<1>3. CASE k # 0
  <2>1. k - 1 \in Nat /\ k - 1 \notin T
    BY <1>1, <1>3
  <2>2. PICK g : g = [n \in 0..(k - 1) |-> LinkStep(bs, head, g, n)]
    BY <2>1
  <2> DEFINE f == [n \in 0..k |-> LinkStep(bs, head, g, n)]
  <2>3. \A n \in 0..k : n # 0 => n - 1 \in 0..(k - 1) /\ n - 1 \in 0..k
    BY <1>1
  <2>4. \A n \in 0..(k - 1) : f[n] = g[n]
    BY <1>1, <2>2
  <2>5. \A n \in 0..k : LinkStep(bs, head, f, n) = LinkStep(bs, head, g, n)
    <3> HIDE DEF f
    <3> QED  BY <2>3, <2>4 DEF LinkStep
  <2>6. f = [n \in 0..k |-> LinkStep(bs, head, f, n)]
    BY <2>5
  <2> QED  BY <1>1, <2>6
<1> QED  BY <1>2, <1>3

LEMMA LinkedIs ==
  ASSUME NEW head, block_count \in Nat
  PROVE  \E f : /\ f = [n \in 0..block_count |-> LinkStep(blocks, head, f, n)]
                /\ Linked(head) = {f[n] : n \in 0..block_count} \ {None}
<1>1. \E f : f = [n \in 0..block_count |-> LinkStep(blocks, head, f, n)]
  BY WalkExists
<1> DEFINE g == CHOOSE f : f = [n \in 0..block_count |->
                  IF n = 0 THEN head
                  ELSE IF f[n - 1] = None THEN None ELSE blocks[f[n - 1]].next]
<1>2. g = [n \in 0..block_count |-> LinkStep(blocks, head, g, n)]
  BY <1>1, Zenon DEF LinkStep
<1>3. Linked(head) = {g[n] : n \in 0..block_count} \ {None}
  BY Zenon DEF Linked
<1> QED  BY <1>2, <1>3

LEMMA ChainLinked ==
  ASSUME NEW head, block_count \in Nat, NEW S \in SUBSET (1..block_count),
         Chained(blocks, head, S)
  PROVE  Linked(head) = S
<1>1. PICK n, s : n \in Nat /\ s \in [1..n -> S] /\ IsChain(blocks, head, S, n, s)
  BY ChainPicked
<1>2. PICK f : /\ f = [k \in 0..block_count |-> LinkStep(blocks, head, f, k)]
               /\ Linked(head) = {f[k] : k \in 0..block_count} \ {None}
  BY LinkedIs
<1>3. \A k \in 0..block_count : f[k] = LinkStep(blocks, head, f, k)
  BY <1>2
<1>4. n <= block_count
  <2> SUFFICES ASSUME n > block_count PROVE FALSE
    BY <1>1
  <2>1. IsFiniteSet(1..n) /\ Cardinality(1..n) = n
    BY <1>1, FS_Interval
  <2>2. IsFiniteSet(1..block_count) /\ Cardinality(1..block_count) = block_count
    BY FS_Interval
  <2>3. s \in [1..n -> 1..block_count]
    BY <1>1
  <2>4. PICK i, j \in 1..n : i # j /\ s[i] = s[j]
    BY <1>1, <2>1, <2>2, <2>3, FS_PigeonHole
  <2> QED  BY <1>1, <2>4 DEF IsChain
<1> DEFINE Right(k) == f[k] = Place(s, n, k + 1)
           T == {k \in 0..block_count : ~Right(k)}
<1>5. T = {}
  <2> SUFFICES ASSUME T # {} PROVE FALSE
    OBVIOUS
  <2>1. T \in SUBSET Nat
    OBVIOUS
  <2>2. PICK k \in T : \A j \in T : k <= j
    BY <2>1, Smallest
  <2>3. CASE k = 0
    <3>1. f[0] = head
      BY <1>3, <2>2, <2>3 DEF LinkStep
    <3> QED  BY <1>1, <2>2, <2>3, <3>1 DEF IsChain
  <2>4. CASE k # 0
    <3>1. k - 1 \in 0..block_count /\ k - 1 \notin T /\ k \in 0..block_count
      BY <2>2, <2>4
    <3>2. f[k - 1] = Place(s, n, k)
      BY <3>1
    <3>3. f[k] = IF f[k - 1] = None THEN None ELSE blocks[f[k - 1]].next
      BY <1>3, <2>4, <3>1 DEF LinkStep
    <3>4. CASE k \in 1..n
      <4>1. f[k - 1] = s[k] /\ s[k] # None
        BY <1>1, <3>2, <3>4 DEF Place, None
      <4>2. f[k] = Place(s, n, k + 1)
        BY <1>1, <3>3, <3>4, <4>1 DEF IsChain
      <4> QED  BY <2>2, <4>2
    <3>5. CASE k \notin 1..n
      <4>1. f[k] = None /\ k + 1 \notin 1..n
        BY <1>1, <2>2, <2>4, <3>1, <3>2, <3>3, <3>5 DEF Place
      <4>2. f[k] = Place(s, n, k + 1)
        BY <4>1 DEF Place
      <4> QED  BY <2>2, <4>2
    <3> QED  BY <3>4, <3>5
  <2> QED  BY <2>3, <2>4
<1>6. \A k \in 0..block_count : f[k] = Place(s, n, k + 1)
  BY <1>5
<1>7. ASSUME NEW b \in Linked(head) PROVE b \in S
  <2>1. PICK k \in 0..block_count : f[k] = b /\ b # None
    BY <1>2
  <2> QED  BY <1>1, <1>6, <2>1 DEF Place
<1>8. ASSUME NEW b \in S PROVE b \in Linked(head)
  <2>1. PICK i \in 1..n : s[i] = b
    BY <1>1 DEF IsChain
  <2>2. i - 1 \in 0..block_count /\ (i - 1) + 1 = i
    BY <1>1, <1>4
  <2>3. f[i - 1] = b
    BY <1>6, <2>1, <2>2 DEF Place
  <2>4. b # None
    BY DEF None
  <2> QED  BY <1>2, <2>2, <2>3, <2>4
<1> QED  BY <1>7, <1>8

-----------------------------------------------------------------------------
(* The renderer takes the first message.                                   *)

IsTail(L, M) ==
  /\ Len(L) \in Nat /\ Len(L) >= 1 /\ Len(M) = Len(L) - 1
  /\ \A j \in 1..Len(M) : M[j] = L[j + 1]

Taken(L, A, T, U, M, B, V, W) ==
  /\ IsTail(L, M)
  /\ \/ /\ IsList(L, 1) /\ B = A /\ V = L[1].base
        /\ \A a \in DOMAIN L[1].updates : a \in DOMAIN W /\ W[a] = L[1].updates[a]
        /\ ~L[1].clear => \A a \in DOMAIN U : a \notin DOMAIN L[1].updates =>
                             a \in DOMAIN W /\ W[a] = U[a]
     \/ /\ L[1].kind = "document" /\ V = T /\ W = U
        /\ DOMAIN B = DOMAIN A \cup {L[1].id} /\ B[L[1].id] = L[1].frame
        /\ \A d \in DOMAIN A : d # L[1].id => B[d] = A[d]
     \/ /\ L[1].kind = "pressure" /\ V = T /\ W = U /\ DOMAIN B = {}

LEMMA ShiftIn ==
  ASSUME NEW L, NEW M, IsTail(L, M), NEW i \in Places(M), NEW j \in Places(M)
  PROVE  /\ i + 1 \in Places(L) /\ j + 1 \in Places(L)
         /\ ClearIn(M, i, j) <=> ClearIn(L, i + 1, j + 1)
         /\ \A a : WrittenIn(M, i, j, a) <=> WrittenIn(L, i + 1, j + 1, a)
         /\ \A d : Superseded(M, i, j, d) <=> Superseded(L, i + 1, j + 1, d)
<1>1. /\ i \in Nat /\ j \in Nat /\ i <= Len(M) /\ j <= Len(M) /\ Len(M) \in Nat
      /\ Len(L) = Len(M) + 1
  BY DEF IsTail, Places
<1>2. ASSUME NEW k \in (i + 1)..j PROVE k + 1 \in ((i + 1) + 1)..(j + 1) /\ M[k] = L[k + 1]
  BY <1>1 DEF IsTail
<1>3. ASSUME NEW k \in ((i + 1) + 1)..(j + 1) PROVE k - 1 \in (i + 1)..j /\ M[k - 1] = L[k] /\ k # 0
  <2>1. k - 1 \in 1..Len(M) /\ (k - 1) + 1 = k
    BY <1>1
  <2> QED  BY <1>1, <2>1 DEF IsTail
<1>4. \A k \in (i + 1)..j : k # 0
  BY <1>1
<1>5. ClearIn(M, i, j) <=> ClearIn(L, i + 1, j + 1)
  BY <1>2, <1>3 DEF ClearIn, IsList
<1>6. ASSUME NEW a PROVE WrittenIn(M, i, j, a) <=> WrittenIn(L, i + 1, j + 1, a)
  BY <1>2, <1>3 DEF WrittenIn, IsList
<1>7. ASSUME NEW d PROVE Superseded(M, i, j, d) <=> Superseded(L, i + 1, j + 1, d)
  <2>1. ASSUME NEW k \in (i + 1)..j
        PROVE  HasFrame(M, <<>>, k, d) <=> HasFrame(L, <<>>, k + 1, d)
    BY <1>2, <1>1 DEF HasFrame
  <2>2. ASSUME NEW k \in ((i + 1) + 1)..(j + 1)
        PROVE  HasFrame(M, <<>>, k - 1, d) <=> HasFrame(L, <<>>, k, d)
    BY <1>1, <1>3 DEF HasFrame
  <2>3. Superseded(M, i, j, d) => Superseded(L, i + 1, j + 1, d)
    BY <1>2, <2>1 DEF Superseded
  <2>4. Superseded(L, i + 1, j + 1, d) => Superseded(M, i, j, d)
    BY <1>3, <2>2 DEF Superseded
  <2> QED  BY <2>3, <2>4
<1> QED  BY <1>1, <1>5, <1>6, <1>7 DEF Places

(* Up to a place, the first message counts or does not.                    *)
LEMMA FromZero ==
  ASSUME NEW L, NEW q \in Nat
  PROVE  /\ ClearIn(L, 0, q + 1) <=> ClearIn(L, 1, q + 1) \/ (IsList(L, 1) /\ L[1].clear)
         /\ \A a : WrittenIn(L, 0, q + 1, a) <=>
              WrittenIn(L, 1, q + 1, a) \/ (IsList(L, 1) /\ a \in DOMAIN L[1].updates)
         /\ \A d : Superseded(L, 0, q + 1, d) <=>
              \/ Superseded(L, 1, q + 1, d)
              \/ L[1].kind = "document" /\ L[1].id = d
              \/ L[1].kind = "pressure"
<1>1. /\ 1 \in (0 + 1)..(q + 1)
      /\ \A k \in (0 + 1)..(q + 1) : k = 1 \/ k \in (1 + 1)..(q + 1)
      /\ \A k \in (1 + 1)..(q + 1) : k \in (0 + 1)..(q + 1)
  OBVIOUS
<1>2. ClearIn(L, 0, q + 1) <=> ClearIn(L, 1, q + 1) \/ (IsList(L, 1) /\ L[1].clear)
  BY <1>1 DEF ClearIn
<1>3. \A a : WrittenIn(L, 0, q + 1, a) <=>
             WrittenIn(L, 1, q + 1, a) \/ (IsList(L, 1) /\ a \in DOMAIN L[1].updates)
  BY <1>1 DEF WrittenIn
<1>4. ASSUME NEW d
      PROVE  Superseded(L, 0, q + 1, d) <=>
              \/ Superseded(L, 1, q + 1, d)
              \/ L[1].kind = "document" /\ L[1].id = d
              \/ L[1].kind = "pressure"
  BY <1>1 DEF Superseded, HasFrame
<1> QED  BY <1>2, <1>3, <1>4

LEMMA TakenFrame ==
  ASSUME NEW L, NEW A, NEW T, NEW U, NEW M, NEW B, NEW V, NEW W, Taken(L, A, T, U, M, B, V, W),
         NEW q \in Places(M), NEW i \in 0..q, NEW d, HasFrame(M, B, i, d)
  PROVE  \E j \in 0..(q + 1) :
           /\ HasFrame(L, A, j, d) /\ FrameAt(M, B, i, d) = FrameAt(L, A, j, d)
           /\ Superseded(L, j, q + 1, d) => Superseded(M, i, q, d)
           /\ IF i > 0 \/ (L[1].kind = "document" /\ L[1].id = d) THEN j = i + 1
              ELSE j = 0 /\ L[1].kind # "pressure"
<1> USE DEF Taken
<1>1. /\ q \in Nat /\ i \in Nat /\ i \in Places(M) /\ Len(M) \in Nat /\ q <= Len(M)
      /\ i + 1 \in 1..(q + 1) /\ 0 \in 0..(q + 1) /\ IsTail(L, M)
  BY DEF Places, IsTail
<1>2. Superseded(M, i, q, d) <=> Superseded(L, i + 1, q + 1, d)
  BY <1>1, ShiftIn
<1>3. CASE i > 0
  <2>1. M[i] = L[i + 1]
    BY <1>1, <1>3 DEF IsTail, Places
  <2>2. HasFrame(L, A, i + 1, d) /\ FrameAt(M, B, i, d) = FrameAt(L, A, i + 1, d)
    BY <1>1, <1>3, <2>1 DEF HasFrame, FrameAt
  <2> QED  BY <1>1, <1>2, <1>3, <2>2
<1>4. CASE i = 0 /\ L[1].kind = "document" /\ L[1].id = d
  <2>1. HasFrame(L, A, 1, d) /\ FrameAt(M, B, 0, d) = FrameAt(L, A, 1, d)
    BY <1>4 DEF HasFrame, FrameAt, IsList
  <2> QED  BY <1>1, <1>2, <1>4, <2>1
<1>5. CASE i = 0 /\ ~(L[1].kind = "document" /\ L[1].id = d)
  <2>1. d \in DOMAIN B /\ L[1].kind # "pressure"
    BY <1>5 DEF HasFrame, IsList
  <2>2. d \in DOMAIN A /\ B[d] = A[d]
    BY <1>5, <2>1
  <2>3. HasFrame(L, A, 0, d) /\ FrameAt(M, B, 0, d) = FrameAt(L, A, 0, d)
    BY <2>2 DEF HasFrame, FrameAt
  <2>4. Superseded(L, 0, q + 1, d) => Superseded(L, 1, q + 1, d)
    BY <1>1, <1>5, <2>1, FromZero
  <2>5. 0 + 1 = 1
    OBVIOUS
  <2> QED  BY <1>1, <1>2, <1>5, <2>1, <2>3, <2>4, <2>5
<1> QED  BY <1>1, <1>3, <1>4, <1>5

LEMMA TakenShown ==
  ASSUME NEW L, NEW A, NEW T \in Int, NEW U, NEW M, NEW B, NEW V, NEW W,
         Taken(L, A, T, U, M, B, V, W), BasesOK(L, A, T),
         \A d \in DOMAIN A : A[d].base \in Int, IsList(L, 1) => L[1].base \in Int,
         NEW q \in Places(M), NEW i \in 0..q, NEW d, Shown(M, B, V, i, q, d)
  PROVE  \E j \in 0..(q + 1) : /\ Shown(L, A, T, j, q + 1, d)
                              /\ FrameAt(M, B, i, d) = FrameAt(L, A, j, d)
<1>1. /\ q \in Nat /\ i \in Nat /\ i \in Places(M) /\ Len(M) \in Nat /\ IsTail(L, M)
      /\ Len(L) \in Nat /\ Len(L) >= 1
  BY DEF Places, IsTail, Taken
<1>2. HasFrame(M, B, i, d) /\ ~Superseded(M, i, q, d) /\ ~ClearIn(M, i, q)
  BY DEF Shown
<1>3. PICK j \in 0..(q + 1) :
           /\ HasFrame(L, A, j, d) /\ FrameAt(M, B, i, d) = FrameAt(L, A, j, d)
           /\ Superseded(L, j, q + 1, d) => Superseded(M, i, q, d)
           /\ IF i > 0 \/ (L[1].kind = "document" /\ L[1].id = d) THEN j = i + 1
              ELSE j = 0 /\ L[1].kind # "pressure"
  BY <1>2, TakenFrame
<1>4. ~ClearIn(L, i + 1, q + 1)
  BY <1>1, <1>2, ShiftIn
<1>5. CASE j = i + 1
  <2>1. j # 0
    BY <1>1, <1>5
  <2> QED  BY <1>2, <1>3, <1>4, <1>5, <2>1 DEF Shown
<1>6. CASE j # i + 1
  <2>1. i = 0 /\ j = 0 /\ L[1].kind # "pressure" /\ ~(L[1].kind = "document" /\ L[1].id = d)
    BY <1>1, <1>3, <1>6
  <2>2. B[d].base = V /\ B[d] = A[d] /\ d \in DOMAIN A
    BY <1>3, <2>1 DEF Shown, FrameAt, HasFrame
  <2>3. CASE IsList(L, 1)
    <3>1. V = L[1].base
      BY <2>3 DEF Taken, IsList
    <3>2. A[d].base <= T
      BY <2>2 DEF BasesOK
    <3>3. /\ L[1].clear => T < L[1].base
          /\ ~ClearIn(L, 0, 1) => T = L[1].base
      <4>1. 0 \in Places(L) /\ 1 \in Places(L) /\ 0 < 1
        BY <1>1 DEF Places
      <4> QED  BY <2>3, <4>1 DEF BasesOK, BaseAt
    <3>4. ~L[1].clear
      BY <2>2, <2>3, <3>1, <3>2, <3>3
    <3>5. ~ClearIn(L, 0, 1)
      BY <3>4 DEF ClearIn
    <3>6. ~ClearIn(L, 0, q + 1)
      BY <1>1, <1>4, <2>1, <3>4, FromZero
    <3> QED  BY <1>2, <1>3, <2>1, <2>2, <3>1, <3>3, <3>5, <3>6 DEF Shown
  <2>4. CASE ~IsList(L, 1)
    <3>1. V = T
      BY <2>4 DEF Taken
    <3>2. ~ClearIn(L, 0, q + 1)
      BY <1>1, <1>4, <2>1, <2>4, FromZero
    <3> QED  BY <1>2, <1>3, <2>1, <2>2, <3>1, <3>2 DEF Shown
  <2> QED  BY <2>3, <2>4
<1> QED  BY <1>5, <1>6

LEMMA TakenHolds ==
  ASSUME NEW L, NEW A, NEW T, NEW U, NEW M, NEW B, NEW V, NEW W, Taken(L, A, T, U, M, B, V, W),
         NEW q \in Places(M), NEW a, NEW x, Holds(L, U, q + 1, a, x)
  PROVE  Holds(M, W, q, a, x)
<1>1. /\ q \in Nat /\ Len(M) \in Nat /\ IsTail(L, M) /\ Len(L) \in Nat /\ Len(L) >= 1
      /\ q <= Len(M)
  BY DEF Places, IsTail, Taken
<1>2. PICK i \in 0..(q + 1) : WrittenLast(L, U, i, q + 1, a, x)
  BY DEF Holds
<1>3. CASE i > 1
  <2>1. i - 1 \in 1..q /\ i - 1 \in Places(M) /\ (i - 1) + 1 = i /\ M[i - 1] = L[i]
    <3>1. i - 1 \in 1..Len(M) /\ (i - 1) + 1 = i
      BY <1>1, <1>3
    <3> QED  BY <1>1, <1>3, <3>1 DEF IsTail, Places
  <2>2. ~ClearIn(M, i - 1, q) /\ ~WrittenIn(M, i - 1, q, a)
    BY <1>1, <1>2, <2>1, ShiftIn DEF WrittenLast
  <2>3. WrittenLast(M, W, i - 1, q, a, x)
    BY <1>2, <1>3, <2>1, <2>2 DEF WrittenLast, IsList, Source
  <2> QED  BY <2>1, <2>3 DEF Holds
<1>4. ASSUME i = 0 \/ i = 1 PROVE Holds(M, W, q, a, x)
  <2>0. 0 \in Places(M) /\ 0 + 1 = 1 /\ 0 \in 0..q
    BY <1>1 DEF Places
  <2>1. ~ClearIn(L, 1, q + 1) /\ ~WrittenIn(L, 1, q + 1, a)
    BY <1>1, <1>2, <1>4, FromZero DEF WrittenLast
  <2>2. ~ClearIn(M, 0, q) /\ ~WrittenIn(M, 0, q, a)
    BY <1>1, <2>0, <2>1, ShiftIn
  <2>3. a \in DOMAIN W /\ W[a] = x
    <3>1. CASE i = 1
      <4>1. IsList(L, 1) /\ a \in DOMAIN L[1].updates /\ L[1].updates[a] = x
        BY <1>2, <3>1 DEF WrittenLast, Source
      <4> QED  BY <4>1 DEF Taken, IsList
    <3>2. CASE i = 0
      <4>1. a \in DOMAIN U /\ U[a] = x /\ ~ClearIn(L, 0, q + 1) /\ ~WrittenIn(L, 0, q + 1, a)
        BY <1>2, <3>2 DEF WrittenLast, Source
      <4>2. IsList(L, 1) => ~L[1].clear /\ a \notin DOMAIN L[1].updates
        BY <1>1, <4>1, FromZero
      <4> QED  BY <4>1, <4>2 DEF Taken
    <3> QED  BY <1>4, <3>1, <3>2
  <2>4. WrittenLast(M, W, 0, q, a, x)
    BY <2>2, <2>3 DEF WrittenLast, Source
  <2> QED  BY <2>0, <2>4 DEF Holds
<1> QED  BY <1>1, <1>3, <1>4

(* What holds of a line holds of it without its first message.             *)
LEMMA TakenData ==
  ASSUME NEW L, NEW A, NEW T \in Int, NEW U, NEW M, NEW B, NEW V, NEW W,
         Taken(L, A, T, U, M, B, V, W), BasesOK(L, A, T),
         \A d \in DOMAIN A : A[d].base \in Int, IsList(L, 1) => L[1].base \in Int
  PROVE  /\ DeferredApart(L, A, T) => DeferredApart(M, B, V)
         /\ \A S : DeferredBefore(L, A, T, S) => DeferredBefore(M, B, V, S)
         /\ FramesHold(L, U, A, T) => FramesHold(M, W, B, V)
         /\ FramesKept(L, A, T) => FramesKept(M, B, V)
         /\ FramesOK(L, A) => FramesOK(M, B)
         /\ Owed(L, A) => Owed(M, B)
<1>1. /\ IsTail(L, M) /\ Len(M) \in Nat /\ Len(L) = Len(M) + 1 /\ Len(M) \in Places(M)
      /\ \A q \in Places(M) : q \in Nat /\ q <= Len(M) /\ q + 1 \in Places(L)
  BY DEF Places, IsTail, Taken
<1>2. ASSUME NEW q \in Places(M), NEW i \in 0..q, NEW d, Shown(M, B, V, i, q, d)
      PROVE  \E j \in 0..(q + 1) : /\ Shown(L, A, T, j, q + 1, d)
                                  /\ FrameAt(M, B, i, d) = FrameAt(L, A, j, d)
  BY <1>2, TakenShown
<1>3. ASSUME DeferredApart(L, A, T) PROVE DeferredApart(M, B, V)
  <2>1. SUFFICES ASSUME NEW p \in Places(M), NEW q \in Places(M), NEW d \in Docs, NEW e \in Docs,
                        NEW i \in 0..p, NEW k \in 0..q,
                        p <= q, Shown(M, B, V, i, p, d), Shown(M, B, V, k, q, e),
                        ~ClearIn(M, p, q), NEW u \in FrameAt(M, B, k, e).uses, Plain(u),
                        u.at \in FrameAt(M, B, i, d).deferred
                 PROVE  WrittenIn(M, p, q, u.at)
    BY DEF DeferredApart
  <2>2. PICK ii \in 0..(p + 1) : Shown(L, A, T, ii, p + 1, d) /\ FrameAt(M, B, i, d) = FrameAt(L, A, ii, d)
    BY <1>2, <2>1
  <2>3. PICK kk \in 0..(q + 1) : Shown(L, A, T, kk, q + 1, e) /\ FrameAt(M, B, k, e) = FrameAt(L, A, kk, e)
    BY <1>2, <2>1
  <2>4. ~ClearIn(L, p + 1, q + 1)
    BY <1>1, <2>1, ShiftIn
  <2>5. p + 1 \in Places(L) /\ q + 1 \in Places(L) /\ p + 1 <= q + 1
    BY <1>1, <2>1
  <2>6. WrittenIn(L, p + 1, q + 1, u.at)
    BY <1>3, <2>1, <2>2, <2>3, <2>4, <2>5 DEF DeferredApart
  <2> QED  BY <1>1, <2>6, ShiftIn
<1>4. ASSUME NEW S, DeferredBefore(L, A, T, S) PROVE DeferredBefore(M, B, V, S)
  <2>1. SUFFICES ASSUME NEW p \in Places(M), NEW d \in Docs, NEW i \in 0..p,
                        Shown(M, B, V, i, p, d), ~ClearIn(M, p, Len(M)),
                        NEW a \in S, a \in FrameAt(M, B, i, d).deferred
                 PROVE  WrittenIn(M, p, Len(M), a)
    BY DEF DeferredBefore
  <2>2. PICK ii \in 0..(p + 1) : Shown(L, A, T, ii, p + 1, d) /\ FrameAt(M, B, i, d) = FrameAt(L, A, ii, d)
    BY <1>2, <2>1
  <2>3. ~ClearIn(L, p + 1, Len(L)) /\ p + 1 \in Places(L)
    BY <1>1, <2>1, ShiftIn
  <2>4. WrittenIn(L, p + 1, Len(L), a)
    BY <1>4, <2>1, <2>2, <2>3 DEF DeferredBefore
  <2> QED  BY <1>1, <2>4, ShiftIn
<1>5. ASSUME FramesHold(L, U, A, T) PROVE FramesHold(M, W, B, V)
  <2>1. SUFFICES ASSUME NEW q \in Places(M), NEW d \in Docs, NEW i \in 0..q,
                        Shown(M, B, V, i, q, d),
                        NEW u \in FrameAt(M, B, i, d).uses, Plain(u)
                 PROVE  Holds(M, W, q, u.at, u.data)
    BY DEF FramesHold
  <2>2. PICK ii \in 0..(q + 1) : Shown(L, A, T, ii, q + 1, d) /\ FrameAt(M, B, i, d) = FrameAt(L, A, ii, d)
    BY <1>2, <2>1
  <2>3. Holds(L, U, q + 1, u.at, u.data)
    BY <1>1, <1>5, <2>1, <2>2 DEF FramesHold
  <2> QED  BY <2>3, TakenHolds
<1>6. ASSUME FramesKept(L, A, T) PROVE FramesKept(M, B, V)
  <2>1. SUFFICES ASSUME NEW d \in Docs, NEW i \in Places(M), Shown(M, B, V, i, Len(M), d)
                 PROVE  FrameKept(FrameAt(M, B, i, d), d)
    BY DEF FramesKept
  <2>2. i \in 0..Len(M)
    BY DEF Places
  <2>3. PICK j \in 0..(Len(M) + 1) : Shown(L, A, T, j, Len(M) + 1, d) /\ FrameAt(M, B, i, d) = FrameAt(L, A, j, d)
    BY <1>1, <1>2, <2>1, <2>2
  <2>4. j \in Places(L)
    BY <1>1, <2>3 DEF Places
  <2> QED  BY <1>1, <1>6, <2>3, <2>4 DEF FramesKept
<1>7. ASSUME FramesOK(L, A) PROVE FramesOK(M, B)
  <2>1. SUFFICES ASSUME NEW d \in Docs, NEW i \in Places(M), HasFrame(M, B, i, d)
                 PROVE  \E j \in Places(L) : HasFrame(L, A, j, d) /\ FrameAt(M, B, i, d) = FrameAt(L, A, j, d)
    BY <1>7 DEF FramesOK
  <2>2. i \in 0..Len(M)
    BY DEF Places
  <2>3. PICK j \in 0..(Len(M) + 1) : HasFrame(L, A, j, d) /\ FrameAt(M, B, i, d) = FrameAt(L, A, j, d)
    BY <1>1, <2>1, <2>2, TakenFrame
  <2> QED  BY <1>1, <2>3 DEF Places
<1>8. ASSUME Owed(L, A) PROVE Owed(M, B)
  <2>1. SUFFICES ASSUME NEW d \in documents, NEW i \in Places(M), HasFrame(M, B, i, d),
                        ~Superseded(M, i, Len(M), d)
                 PROVE  \E j \in Places(L) : /\ HasFrame(L, A, j, d) /\ ~Superseded(L, j, Len(L), d)
                                            /\ FrameAt(M, B, i, d) = FrameAt(L, A, j, d)
    BY <1>8 DEF Owed
  <2>2. i \in 0..Len(M)
    BY DEF Places
  <2>3. PICK j \in 0..(Len(M) + 1) : /\ HasFrame(L, A, j, d) /\ FrameAt(M, B, i, d) = FrameAt(L, A, j, d)
                                     /\ Superseded(L, j, Len(M) + 1, d) => Superseded(M, i, Len(M), d)
    BY <1>1, <2>1, <2>2, TakenFrame
  <2> QED  BY <1>1, <2>1, <2>3 DEF Places
<1> QED  BY <1>3, <1>4, <1>5, <1>6, <1>7, <1>8

LEMMA TakenBases ==
  ASSUME NEW L, NEW A, NEW T \in Int, NEW U, NEW M, NEW B, NEW V, NEW W,
         Taken(L, A, T, U, M, B, V, W), BasesOK(L, A, T),
         \A d \in DOMAIN A : A[d].base \in Int,
         \A i \in 1..Len(L) : IsList(L, i) => L[i].base \in Int,
         \A i \in 1..Len(L) : L[i].kind = "document" => L[i].frame.base \in Int
  PROVE  BasesOK(M, B, V)
<1>1. /\ IsTail(L, M) /\ Len(M) \in Nat /\ Len(L) = Len(M) + 1
      /\ \A q \in Places(M) : q \in Nat /\ q <= Len(M) /\ q + 1 \in Places(L) /\ q + 1 > 0
      /\ 0 \in Places(L) /\ 1 \in Places(L) /\ 0 \in Places(M) /\ 1 \in 1..Len(L)
  BY DEF Places, IsTail, Taken
<1>2. ASSUME NEW j \in Places(M), j > 0
      PROVE  /\ M[j] = L[j + 1] /\ (IsList(M, j) <=> IsList(L, j + 1)) /\ j + 1 # 0
             /\ BaseAt(M, V, j) = BaseAt(L, T, j + 1)
  BY <1>1, <1>2 DEF IsTail, Places, IsList, BaseAt
<1>3. IF IsList(L, 1) THEN V = L[1].base /\ V = BaseAt(L, T, 1) /\ B = A ELSE V = T
  BY DEF Taken, IsList, BaseAt
<1>4. /\ BaseAt(M, V, 0) = V /\ BaseAt(L, T, 0) = T /\ V \in Int
      /\ IsList(L, 1) => T <= V
  <2>1. IsList(L, 1) => BaseAt(L, T, 0) <= BaseAt(L, T, 1)
    BY <1>1 DEF BasesOK
  <2> QED  BY <1>1, <1>3, <2>1 DEF BaseAt
<1>5. ASSUME NEW i \in Places(M), NEW j \in Places(M), i < j, i = 0 \/ IsList(M, i), IsList(M, j)
      PROVE  /\ BaseAt(M, V, i) <= BaseAt(M, V, j)
             /\ M[j].clear => BaseAt(M, V, i) < BaseAt(M, V, j)
             /\ ~ClearIn(M, i, j) => BaseAt(M, V, i) = BaseAt(M, V, j)
  <2>1. j > 0 /\ j + 1 \in Places(L) /\ i + 1 \in Places(L)
    BY <1>1, <1>5
  <2>2. M[j] = L[j + 1] /\ IsList(L, j + 1) /\ BaseAt(M, V, j) = BaseAt(L, T, j + 1)
    BY <1>2, <1>5, <2>1
  <2>3. ~ClearIn(M, i, j) <=> ~ClearIn(L, i + 1, j + 1)
    BY <1>1, ShiftIn
  <2>4. CASE i > 0
    <3>1. IsList(L, i + 1) /\ BaseAt(M, V, i) = BaseAt(L, T, i + 1) /\ i + 1 < j + 1
      BY <1>1, <1>2, <1>5, <2>4
    <3> QED  BY <2>1, <2>2, <2>3, <3>1 DEF BasesOK
  <2>5. CASE i = 0 /\ IsList(L, 1)
    <3>1. i + 1 = 1 /\ 1 < j + 1
      BY <1>1, <2>1, <2>5
    <3> QED  BY <1>1, <1>3, <1>4, <2>1, <2>2, <2>3, <2>5, <3>1 DEF BasesOK
  <2>6. CASE i = 0 /\ ~IsList(L, 1)
    <3>1. ClearIn(L, 0, j + 1) <=> ClearIn(L, 1, j + 1)
      BY <1>1, <2>6, FromZero
    <3>2. i + 1 = 1 /\ 0 < j + 1
      BY <1>1, <2>1, <2>6
    <3> QED  BY <1>1, <1>3, <1>4, <2>1, <2>2, <2>3, <2>6, <3>1, <3>2 DEF BasesOK
  <2> QED  BY <1>1, <2>4, <2>5, <2>6
<1>6. ASSUME NEW d \in DOMAIN B PROVE B[d].base <= V
  <2>1. CASE IsList(L, 1)
    <3>1. A[d].base <= T /\ B = A /\ A[d].base \in Int
      BY <1>3, <1>6, <2>1 DEF BasesOK
    <3> QED  BY <1>4, <2>1, <3>1
  <2>2. CASE L[1].kind = "document" /\ d = L[1].id
    <3>1. V = T /\ B[d] = L[1].frame
      BY <2>2 DEF Taken, IsList
    <3>2. PICK k \in 0..(1 - 1) : L[1].frame.base <= BaseAt(L, T, k)
      BY <1>1, <2>2 DEF BasesOK
    <3>3. k = 0
      OBVIOUS
    <3> QED  BY <3>1, <3>2, <3>3 DEF BaseAt
  <2>3. CASE L[1].kind = "document" /\ d # L[1].id
    <3>1. V = T /\ B[d] = A[d] /\ d \in DOMAIN A
      BY <2>3, <1>6 DEF Taken, IsList
    <3> QED  BY <3>1 DEF BasesOK
  <2>4. CASE L[1].kind = "pressure"
    BY <1>6, <2>4 DEF Taken, IsList
  <2> QED  BY <2>1, <2>2, <2>3, <2>4 DEF Taken
<1>7. ASSUME NEW i \in 1..Len(M), M[i].kind = "document"
      PROVE  \E k \in 0..(i - 1) : (k = 0 \/ IsList(M, k)) /\ M[i].frame.base <= BaseAt(M, V, k)
  <2>1. i + 1 \in 1..Len(L) /\ L[i + 1] = M[i]
    BY <1>1 DEF IsTail
  <2>2. PICK k \in 0..((i + 1) - 1) : /\ k = 0 \/ IsList(L, k)
                                     /\ L[i + 1].frame.base <= BaseAt(L, T, k)
    BY <1>7, <2>1 DEF BasesOK
  <2>3. L[i + 1].frame.base \in Int
    BY <1>7, <2>1
  <2>4. CASE k > 1
    <3>1. k - 1 \in Places(M) /\ k - 1 > 0 /\ (k - 1) + 1 = k /\ k - 1 \in 0..(i - 1)
      BY <1>1, <2>2, <2>4 DEF Places
    <3>2. IsList(M, k - 1) /\ BaseAt(M, V, k - 1) = BaseAt(L, T, k)
      BY <1>2, <2>2, <2>4, <3>1
    <3> QED  BY <2>1, <2>2, <3>1, <3>2
  <2>5. CASE k = 1
    <3>1. 0 \in 0..(i - 1) /\ BaseAt(M, V, 0) = BaseAt(L, T, 1)
      BY <1>3, <1>4, <2>2, <2>5
    <3> QED  BY <2>1, <2>2, <2>5, <3>1
  <2>6. CASE k = 0
    <3>1. 0 \in 0..(i - 1) /\ T <= V
      BY <1>3, <1>4
    <3>2. L[i + 1].frame.base <= V
      BY <1>4, <2>2, <2>3, <2>6, <3>1
    <3> QED  BY <1>4, <2>1, <3>1, <3>2
  <2> QED  BY <2>2, <2>4, <2>5, <2>6
<1> QED  BY <1>5, <1>6, <1>7 DEF BasesOK

-----------------------------------------------------------------------------
(* The renderer draws.                                                     *)

(* W is the texture after the frames that are shown have written their     *)
(* deferred blocks into U.                                                 *)
DrawnOver(A, T, U, W) ==
  \A a \in DOMAIN U :
    /\ a \in DOMAIN W
    /\ W[a] = U[a] \/ \E d \in Docs : d \in DOMAIN A /\ A[d].base = T /\ a \in A[d].deferred

LEMMA ShownFirst ==
  ASSUME NEW L, NEW A, NEW T, NEW d, d \in DOMAIN A, A[d].base = T
  PROVE  Shown(L, A, T, 0, 0, d) /\ FrameAt(L, A, 0, d) = A[d]
<1>1. \A k \in (0 + 1)..0 : FALSE
  OBVIOUS
<1> QED  BY <1>1 DEF Shown, HasFrame, FrameAt, Superseded, ClearIn

LEMMA DrawnHolds ==
  ASSUME NEW L, NEW A, NEW T, NEW U, NEW W, DrawnOver(A, T, U, W), NEW q \in Nat, NEW a, NEW x,
         Holds(L, U, q, a, x),
         \A d \in Docs : d \in DOMAIN A /\ A[d].base = T /\ a \in A[d].deferred
                           /\ ~ClearIn(L, 0, q) => WrittenIn(L, 0, q, a)
  PROVE  Holds(L, W, q, a, x)
<1>1. PICK i \in 0..q : WrittenLast(L, U, i, q, a, x)
  BY DEF Holds
<1>2. CASE i # 0
  BY <1>1, <1>2 DEF Holds, WrittenLast, Source
<1>3. CASE i = 0
  <2>1. a \in DOMAIN U /\ U[a] = x /\ ~ClearIn(L, 0, q) /\ ~WrittenIn(L, 0, q, a)
    BY <1>1, <1>3 DEF WrittenLast, Source
  <2>2. a \in DOMAIN W /\ W[a] = x
    BY <2>1 DEF DrawnOver
  <2> QED  BY <1>1, <1>3, <2>1, <2>2 DEF Holds, WrittenLast, Source
<1> QED  BY <1>2, <1>3

LEMMA DrawnData ==
  ASSUME NEW L, NEW A, NEW T, NEW U, NEW W, DrawnOver(A, T, U, W), Len(L) \in Nat,
         DeferredApart(L, A, T), NEW S, DeferredBefore(L, A, T, S)
  PROVE  /\ FramesHold(L, U, A, T) => FramesHold(L, W, A, T)
         /\ \A a \in S : \A x : Holds(L, U, Len(L), a, x) => Holds(L, W, Len(L), a, x)
<1>1. /\ 0 \in Places(L) /\ Len(L) \in Places(L) /\ 0 \in 0..0
      /\ \A q \in Places(L) : q \in Nat
  BY DEF Places
<1>2. ASSUME FramesHold(L, U, A, T) PROVE FramesHold(L, W, A, T)
  <2>1. SUFFICES ASSUME NEW q \in Places(L), NEW e \in Docs, NEW k \in 0..q, Shown(L, A, T, k, q, e),
                        NEW u \in FrameAt(L, A, k, e).uses, Plain(u)
                 PROVE  Holds(L, W, q, u.at, u.data)
    BY DEF FramesHold
  <2>2. Holds(L, U, q, u.at, u.data)
    BY <1>2, <2>1 DEF FramesHold
  <2>3. ASSUME NEW d \in Docs, d \in DOMAIN A, A[d].base = T, u.at \in A[d].deferred,
               ~ClearIn(L, 0, q)
        PROVE  WrittenIn(L, 0, q, u.at)
    <3>1. Shown(L, A, T, 0, 0, d) /\ FrameAt(L, A, 0, d) = A[d]
      BY <2>3, ShownFirst
    <3> QED  BY <1>1, <2>1, <2>3, <3>1 DEF DeferredApart
  <2> QED  BY <1>1, <2>2, <2>3, DrawnHolds
<1>3. ASSUME NEW a \in S, NEW x, Holds(L, U, Len(L), a, x) PROVE Holds(L, W, Len(L), a, x)
  <2>1. ASSUME NEW d \in Docs, d \in DOMAIN A, A[d].base = T, a \in A[d].deferred,
               ~ClearIn(L, 0, Len(L))
        PROVE  WrittenIn(L, 0, Len(L), a)
    <3>1. Shown(L, A, T, 0, 0, d) /\ FrameAt(L, A, 0, d) = A[d]
      BY <2>1, ShownFirst
    <3> QED  BY <1>1, <2>1, <3>1 DEF DeferredBefore
  <2> QED  BY <1>3, <2>1, DrawnHolds
<1> QED  BY <1>2, <1>3

-----------------------------------------------------------------------------
(* The line grows at its end.                                              *)

LEMMA Agree ==
  ASSUME NEW L, NEW M, NEW q \in Nat, \A j \in 1..q : M[j] = L[j], NEW i \in 0..q
  PROVE  /\ ClearIn(M, i, q) <=> ClearIn(L, i, q)
         /\ \A a : WrittenIn(M, i, q, a) <=> WrittenIn(L, i, q, a)
         /\ \A d : Superseded(M, i, q, d) <=> Superseded(L, i, q, d)
         /\ \A A, d : /\ HasFrame(M, A, i, d) <=> HasFrame(L, A, i, d)
                      /\ FrameAt(M, A, i, d) = FrameAt(L, A, i, d)
         /\ \A A, T, d : Shown(M, A, T, i, q, d) <=> Shown(L, A, T, i, q, d)
<1>1. \A k \in (i + 1)..q : k \in 1..q /\ k # 0
  OBVIOUS
<1>2. ClearIn(M, i, q) <=> ClearIn(L, i, q)
  BY <1>1 DEF ClearIn, IsList
<1>3. \A a : WrittenIn(M, i, q, a) <=> WrittenIn(L, i, q, a)
  BY <1>1 DEF WrittenIn, IsList
<1>4. i = 0 \/ i \in 1..q
  OBVIOUS
<1>5. ASSUME NEW A, NEW d
      PROVE  /\ HasFrame(M, A, i, d) <=> HasFrame(L, A, i, d)
             /\ FrameAt(M, A, i, d) = FrameAt(L, A, i, d)
  BY <1>4 DEF HasFrame, FrameAt
<1>6. ASSUME NEW d PROVE Superseded(M, i, q, d) <=> Superseded(L, i, q, d)
  BY <1>1 DEF Superseded, HasFrame
<1>7. ASSUME NEW A, NEW T, NEW d PROVE Shown(M, A, T, i, q, d) <=> Shown(L, A, T, i, q, d)
  BY <1>2, <1>5, <1>6 DEF Shown
<1> QED  BY <1>2, <1>3, <1>5, <1>6, <1>7

LEMMA AgreeShown ==
  ASSUME NEW L, NEW M, NEW q \in Nat, \A j \in 1..q : M[j] = L[j], NEW i \in 0..q,
         NEW A, NEW T, NEW d
  PROVE  /\ Shown(M, A, T, i, q, d) <=> Shown(L, A, T, i, q, d)
         /\ FrameAt(M, A, i, d) = FrameAt(L, A, i, d)
BY Agree

LEMMA AgreeHolds ==
  ASSUME NEW L, NEW M, NEW q \in Nat, \A j \in 1..q : M[j] = L[j], NEW U, NEW a, NEW x,
         Holds(L, U, q, a, x)
  PROVE  Holds(M, U, q, a, x)
<1>1. PICK i \in 0..q : WrittenLast(L, U, i, q, a, x)
  BY DEF Holds
<1>2. /\ ClearIn(M, i, q) <=> ClearIn(L, i, q)
      /\ WrittenIn(M, i, q, a) <=> WrittenIn(L, i, q, a)
  BY Agree
<1>3. i # 0 => M[i] = L[i]
  OBVIOUS
<1>4. WrittenLast(M, U, i, q, a, x)
  BY <1>1, <1>2, <1>3 DEF WrittenLast, IsList, Source
<1> QED  BY <1>4 DEF Holds

(* One more block is copied by the next list.                              *)
IsCopy(L, M, n, b, y) ==
  /\ n \in Nat \ {0} /\ Len(L) = n /\ Len(M) = n
  /\ \A j \in 1..(n - 1) : M[j] = L[j]
  /\ IsList(L, n) /\ IsList(M, n)
  /\ M[n].clear = L[n].clear /\ M[n].base = L[n].base
  /\ DOMAIN M[n].updates = DOMAIN L[n].updates \cup {b}
  /\ M[n].updates[b] = y
  /\ \A a \in DOMAIN L[n].updates : a # b => M[n].updates[a] = L[n].updates[a]

LEMMA CopyIn ==
  ASSUME NEW L, NEW M, NEW n, NEW b, NEW y, IsCopy(L, M, n, b, y),
         NEW q \in 0..n, NEW i \in 0..q
  PROVE  /\ ClearIn(M, i, q) <=> ClearIn(L, i, q)
         /\ \A a : WrittenIn(L, i, q, a) => WrittenIn(M, i, q, a)
         /\ \A a : a # b /\ WrittenIn(M, i, q, a) => WrittenIn(L, i, q, a)
         /\ i < n /\ q = n => WrittenIn(M, i, q, b)
         /\ \A d : Superseded(M, i, q, d) <=> Superseded(L, i, q, d)
         /\ \A A, d : HasFrame(M, A, i, d) <=> HasFrame(L, A, i, d)
         /\ \A A, d : HasFrame(M, A, i, d) => FrameAt(M, A, i, d) = FrameAt(L, A, i, d)
         /\ \A A, T, d : Shown(M, A, T, i, q, d) <=> Shown(L, A, T, i, q, d)
<1> USE DEF IsCopy
<1>1. \A k \in (i + 1)..q : k # 0 /\ (k \in 1..(n - 1) \/ k = n)
  OBVIOUS
<1>2. ClearIn(M, i, q) <=> ClearIn(L, i, q)
  BY <1>1 DEF ClearIn, IsList
<1>3. \A a : WrittenIn(L, i, q, a) => WrittenIn(M, i, q, a)
  BY <1>1 DEF WrittenIn, IsList
<1>4. \A a : a # b /\ WrittenIn(M, i, q, a) => WrittenIn(L, i, q, a)
  BY <1>1 DEF WrittenIn, IsList
<1>5. i < n /\ q = n => WrittenIn(M, i, q, b)
  BY DEF WrittenIn
<1>6. ASSUME NEW d PROVE Superseded(M, i, q, d) <=> Superseded(L, i, q, d)
  BY <1>1 DEF Superseded, HasFrame, IsList
<1>7. i = 0 \/ i \in 1..(n - 1) \/ i = n
  OBVIOUS
<1>8. ASSUME NEW A, NEW d
      PROVE  /\ HasFrame(M, A, i, d) <=> HasFrame(L, A, i, d)
             /\ HasFrame(M, A, i, d) => FrameAt(M, A, i, d) = FrameAt(L, A, i, d)
  BY <1>7 DEF HasFrame, FrameAt, IsList
<1>9. ASSUME NEW A, NEW T, NEW d PROVE Shown(M, A, T, i, q, d) <=> Shown(L, A, T, i, q, d)
  BY <1>2, <1>6, <1>8 DEF Shown
<1> QED  BY <1>2, <1>3, <1>4, <1>5, <1>6, <1>8, <1>9

LEMMA CopyHolds ==
  ASSUME NEW L, NEW M, NEW n, NEW b, NEW y, IsCopy(L, M, n, b, y), NEW U,
         NEW q \in 0..n, NEW a, NEW x
  PROVE  /\ Holds(L, U, q, a, x) /\ (a # b \/ q < n) => Holds(M, U, q, a, x)
         /\ Holds(M, U, n, b, y)
<1>1. ASSUME Holds(L, U, q, a, x), q < n PROVE Holds(M, U, q, a, x)
  <2>1. q \in Nat /\ \A j \in 1..q : M[j] = L[j]
    BY <1>1 DEF IsCopy
  <2> QED  BY <1>1, <2>1, AgreeHolds
<1>2. ASSUME Holds(L, U, q, a, x), a # b, q = n PROVE Holds(M, U, q, a, x)
  <2>1. PICK i \in 0..q : WrittenLast(L, U, i, q, a, x)
    BY <1>2 DEF Holds
  <2>2. ~ClearIn(M, i, q) /\ ~WrittenIn(M, i, q, a)
    BY <1>2, <2>1, CopyIn DEF WrittenLast
  <2>3. i = 0 \/ i \in 1..(n - 1) \/ i = n
    BY DEF IsCopy
  <2>4. /\ i = 0 \/ IsList(M, i)
        /\ a \in DOMAIN Source(M, U, i) /\ Source(M, U, i)[a] = x
    <3>1. CASE i = n
      BY <1>2, <2>1, <3>1 DEF WrittenLast, Source, IsList, IsCopy
    <3>2. CASE i # n
      BY <2>1, <2>3, <3>2 DEF WrittenLast, Source, IsList, IsCopy
    <3> QED  BY <3>1, <3>2
  <2>5. WrittenLast(M, U, i, q, a, x)
    BY <2>2, <2>4 DEF WrittenLast
  <2> QED  BY <2>5 DEF Holds
<1>3. Holds(M, U, n, b, y)
  <2>1. \A k \in (n + 1)..n : FALSE
    BY DEF IsCopy
  <2>2. WrittenLast(M, U, n, n, b, y)
    BY <2>1 DEF WrittenLast, Source, ClearIn, WrittenIn, IsCopy
  <2> QED  BY <2>2 DEF Holds, IsCopy
<1>4. q < n \/ q = n
  BY DEF IsCopy
<1> QED  BY <1>1, <1>2, <1>3, <1>4

(* No frame shown last has something at address b.                         *)
Unused(L, A, T, b) ==
  \A d \in Docs, i \in Places(L) : Shown(L, A, T, i, Len(L), d) =>
    /\ \A u \in FrameAt(L, A, i, d).uses : Plain(u) => u.at # b
    /\ b \notin FrameAt(L, A, i, d).deferred

LEMMA CopyData ==
  ASSUME NEW L, NEW M, NEW n, NEW b, NEW y, IsCopy(L, M, n, b, y), NEW A, NEW T, NEW U,
         Unused(L, A, T, b)
  PROVE  /\ DeferredApart(L, A, T) => DeferredApart(M, A, T)
         /\ \A S : DeferredBefore(L, A, T, S) => DeferredBefore(M, A, T, S \cup {b})
         /\ FramesHold(L, U, A, T) => FramesHold(M, U, A, T)
         /\ \A a, x : a # b /\ Holds(L, U, n, a, x) => Holds(M, U, n, a, x)
         /\ Holds(M, U, n, b, y)
         /\ FramesKept(L, A, T) => FramesKept(M, A, T)
         /\ FramesOK(L, A) => FramesOK(M, A)
         /\ Owed(L, A) => Owed(M, A)
<1>1. n \in Nat \ {0} /\ Len(L) = n /\ Len(M) = n /\ Places(L) = 0..n /\ Places(M) = 0..n /\ n \in 0..n
  BY DEF IsCopy, Places
<1>2. ASSUME DeferredApart(L, A, T) PROVE DeferredApart(M, A, T)
  <2>1. SUFFICES ASSUME NEW p \in 0..n, NEW q \in 0..n, NEW d \in Docs, NEW e \in Docs,
                        NEW i \in 0..p, NEW k \in 0..q,
                        p <= q, Shown(M, A, T, i, p, d), Shown(M, A, T, k, q, e),
                        ~ClearIn(M, p, q), NEW u \in FrameAt(M, A, k, e).uses, Plain(u),
                        u.at \in FrameAt(M, A, i, d).deferred
                 PROVE  WrittenIn(M, p, q, u.at)
    BY <1>1 DEF DeferredApart
  <2>2. p \in 0..q
    BY <2>1
  <2>3. Shown(L, A, T, i, p, d) /\ FrameAt(M, A, i, d) = FrameAt(L, A, i, d)
    BY <2>1, CopyIn DEF Shown
  <2>4. Shown(L, A, T, k, q, e) /\ FrameAt(M, A, k, e) = FrameAt(L, A, k, e)
    BY <2>1, CopyIn DEF Shown
  <2>5. ~ClearIn(L, p, q)
    BY <2>1, <2>2, CopyIn
  <2>6. WrittenIn(L, p, q, u.at)
    BY <1>1, <1>2, <2>1, <2>3, <2>4, <2>5 DEF DeferredApart
  <2> QED  BY <2>2, <2>6, CopyIn
<1>3. ASSUME NEW S, DeferredBefore(L, A, T, S) PROVE DeferredBefore(M, A, T, S \cup {b})
  <2>1. SUFFICES ASSUME NEW p \in 0..n, NEW d \in Docs, NEW i \in 0..p,
                        Shown(M, A, T, i, p, d), ~ClearIn(M, p, n),
                        NEW a \in S \cup {b}, a \in FrameAt(M, A, i, d).deferred
                 PROVE  WrittenIn(M, p, n, a)
    BY <1>1 DEF DeferredBefore
  <2>2. Shown(L, A, T, i, p, d) /\ FrameAt(M, A, i, d) = FrameAt(L, A, i, d)
    BY <2>1, CopyIn DEF Shown
  <2>3. CASE a \in S
    <3>1. ~ClearIn(L, p, n)
      BY <1>1, <2>1, CopyIn
    <3>2. WrittenIn(L, p, n, a)
      BY <1>1, <1>3, <2>1, <2>2, <2>3, <3>1 DEF DeferredBefore
    <3> QED  BY <1>1, <3>2, CopyIn
  <2>4. CASE a = b /\ p < n
    BY <1>1, <2>4, CopyIn
  <2>5. CASE a = b /\ p = n
    BY <1>1, <2>1, <2>2, <2>5 DEF Unused
  <2> QED  BY <1>1, <2>3, <2>4, <2>5
<1>4. ASSUME FramesHold(L, U, A, T) PROVE FramesHold(M, U, A, T)
  <2>1. SUFFICES ASSUME NEW q \in 0..n, NEW e \in Docs, NEW k \in 0..q, Shown(M, A, T, k, q, e),
                        NEW u \in FrameAt(M, A, k, e).uses, Plain(u)
                 PROVE  Holds(M, U, q, u.at, u.data)
    BY <1>1 DEF FramesHold
  <2>2. Shown(L, A, T, k, q, e) /\ FrameAt(M, A, k, e) = FrameAt(L, A, k, e)
    BY <2>1, CopyIn DEF Shown
  <2>3. Holds(L, U, q, u.at, u.data)
    BY <1>1, <1>4, <2>1, <2>2 DEF FramesHold
  <2>4. q = n => u.at # b
    BY <1>1, <2>1, <2>2 DEF Unused
  <2>5. q < n \/ q = n
    BY <1>1
  <2> QED  BY <2>3, <2>4, <2>5, CopyHolds
<1>5. \A a, x : a # b /\ Holds(L, U, n, a, x) => Holds(M, U, n, a, x)
  BY <1>1, CopyHolds
<1>6. Holds(M, U, n, b, y)
  BY <1>1, CopyHolds
<1>7. ASSUME NEW i \in 0..n, NEW d
      PROVE  /\ Shown(M, A, T, i, n, d) <=> Shown(L, A, T, i, n, d)
             /\ HasFrame(M, A, i, d) <=> HasFrame(L, A, i, d)
             /\ Superseded(M, i, n, d) <=> Superseded(L, i, n, d)
             /\ HasFrame(M, A, i, d) => FrameAt(M, A, i, d) = FrameAt(L, A, i, d)
  BY <1>1, CopyIn
<1>8. ASSUME FramesKept(L, A, T) PROVE FramesKept(M, A, T)
  <2>1. SUFFICES ASSUME NEW d \in Docs, NEW i \in 0..n, Shown(M, A, T, i, n, d)
                 PROVE  FrameKept(FrameAt(M, A, i, d), d)
    BY <1>1 DEF FramesKept
  <2>2. Shown(L, A, T, i, n, d) /\ FrameAt(M, A, i, d) = FrameAt(L, A, i, d)
    BY <1>7, <2>1 DEF Shown
  <2> QED  BY <1>1, <1>8, <2>2 DEF FramesKept
<1>9. ASSUME FramesOK(L, A) PROVE FramesOK(M, A)
  <2>1. SUFFICES ASSUME NEW d \in Docs, NEW i \in 0..n, HasFrame(M, A, i, d)
                 PROVE  HasFrame(L, A, i, d) /\ FrameAt(M, A, i, d) = FrameAt(L, A, i, d)
    BY <1>1, <1>9 DEF FramesOK
  <2> QED  BY <1>7, <2>1
<1>10. ASSUME Owed(L, A) PROVE Owed(M, A)
  <2>1. SUFFICES ASSUME NEW d \in documents, NEW i \in 0..n, HasFrame(M, A, i, d),
                        ~Superseded(M, i, n, d)
                 PROVE  /\ HasFrame(L, A, i, d) /\ ~Superseded(L, i, n, d)
                        /\ FrameAt(M, A, i, d) = FrameAt(L, A, i, d)
    BY <1>1, <1>10 DEF Owed
  <2> QED  BY <1>7, <2>1
<1> QED  BY <1>2, <1>3, <1>4, <1>5, <1>6, <1>8, <1>9, <1>10

LEMMA CopyBases ==
  ASSUME NEW L, NEW M, NEW n, NEW b, NEW y, IsCopy(L, M, n, b, y), NEW A, NEW T,
         BasesOK(L, A, T)
  PROVE  BasesOK(M, A, T)
<1>1. n \in Nat \ {0} /\ Len(L) = n /\ Len(M) = n /\ Places(L) = 0..n /\ Places(M) = 0..n /\ n \in 0..n
  BY DEF IsCopy, Places
<1>2. ASSUME NEW i \in 0..n
      PROVE  /\ BaseAt(M, T, i) = BaseAt(L, T, i)
             /\ i # 0 => /\ IsList(M, i) <=> IsList(L, i)
                         /\ M[i].clear = L[i].clear
                         /\ M[i].kind = L[i].kind
  <2>1. i = 0 \/ i \in 1..(n - 1) \/ i = n
    BY <1>1
  <2> QED  BY <1>1, <2>1 DEF IsCopy, BaseAt, IsList
<1>3. ASSUME NEW i \in 0..n, NEW j \in 0..n, i < j, i = 0 \/ IsList(M, i), IsList(M, j)
      PROVE  /\ BaseAt(M, T, i) <= BaseAt(M, T, j)
             /\ M[j].clear => BaseAt(M, T, i) < BaseAt(M, T, j)
             /\ ~ClearIn(M, i, j) => BaseAt(M, T, i) = BaseAt(M, T, j)
  <2>1. i \in 0..j /\ j # 0
    BY <1>1, <1>3
  <2>2. ClearIn(M, i, j) <=> ClearIn(L, i, j)
    BY <2>1, CopyIn
  <2> QED  BY <1>1, <1>2, <1>3, <2>1, <2>2 DEF BasesOK
<1>4. ASSUME NEW i \in 1..n, M[i].kind = "document"
      PROVE  \E k \in 0..(i - 1) : (k = 0 \/ IsList(M, k)) /\ M[i].frame.base <= BaseAt(M, T, k)
  <2>1. i \in 1..(n - 1) /\ M[i] = L[i]
    BY <1>1, <1>4 DEF IsCopy, IsList
  <2>2. PICK k \in 0..(i - 1) : (k = 0 \/ IsList(L, k)) /\ L[i].frame.base <= BaseAt(L, T, k)
    BY <1>1, <1>4, <2>1 DEF BasesOK
  <2>3. k \in 0..n
    BY <1>1
  <2> QED  BY <1>2, <2>1, <2>2, <2>3
<1> QED  BY <1>1, <1>3, <1>4 DEF BasesOK

(* A frame f of document c is sent after the list, and a new list begins.  *)
IsSent(L, M, n, c, f) ==
  /\ n \in Nat \ {0} /\ Len(L) = n /\ Len(M) = n + 2
  /\ \A j \in 1..n : M[j] = L[j]
  /\ IsList(L, n)
  /\ M[n + 1].kind = "document" /\ M[n + 1].id = c /\ M[n + 1].frame = f
  /\ IsList(M, n + 2) /\ ~M[n + 2].clear /\ DOMAIN M[n + 2].updates = {}
  /\ M[n + 2].base = L[n].base

LEMMA SentIn ==
  ASSUME NEW L, NEW M, NEW n, NEW c, NEW f, IsSent(L, M, n, c, f),
         NEW q \in (n + 1)..(n + 2), NEW i \in 0..q
  PROVE  /\ i <= n => /\ ClearIn(M, i, q) <=> ClearIn(L, i, n)
                      /\ \A a : WrittenIn(M, i, q, a) <=> WrittenIn(L, i, n, a)
                      /\ \A d : d # c => (Superseded(M, i, q, d) <=> Superseded(L, i, n, d))
                      /\ Superseded(M, i, q, c)
         /\ i > n => /\ ~ClearIn(M, i, q)
                     /\ \A a : ~WrittenIn(M, i, q, a)
         /\ \A A, d : i > n /\ HasFrame(M, A, i, d) => i = n + 1 /\ d = c /\ FrameAt(M, A, i, d) = f
         /\ \A A, d : i <= n => /\ HasFrame(M, A, i, d) <=> HasFrame(L, A, i, d)
                                /\ FrameAt(M, A, i, d) = FrameAt(L, A, i, d)
<1>1. /\ \A k \in (i + 1)..q : k # 0 /\ (k \in 1..n \/ k = n + 1 \/ k = n + 2)
      /\ n \in Nat /\ n # 0 /\ q \in Nat /\ i \in Nat
  BY DEF IsSent
<1>2. /\ \A j \in 1..n : M[j] = L[j]
      /\ M[n + 1].kind = "document" /\ M[n + 1].id = c /\ M[n + 1].frame = f
      /\ M[n + 2].kind = "gpu" /\ ~M[n + 2].clear /\ DOMAIN M[n + 2].updates = {}
  BY DEF IsSent, IsList
<1>3. ASSUME i <= n PROVE ClearIn(M, i, q) <=> ClearIn(L, i, n)
  <2>1. ClearIn(M, i, q) => ClearIn(L, i, n)
    BY <1>1, <1>2, <1>3 DEF ClearIn, IsList
  <2>2. \A k \in (i + 1)..n : k \in (i + 1)..q /\ k \in 1..n
    BY <1>1, <1>3
  <2>3. ClearIn(L, i, n) => ClearIn(M, i, q)
    BY <1>2, <2>2 DEF ClearIn, IsList
  <2> QED  BY <2>1, <2>3
<1>4. ASSUME i <= n, NEW a PROVE WrittenIn(M, i, q, a) <=> WrittenIn(L, i, n, a)
  <2>1. WrittenIn(M, i, q, a) => WrittenIn(L, i, n, a)
    BY <1>1, <1>2, <1>4 DEF WrittenIn, IsList
  <2>2. \A k \in (i + 1)..n : k \in (i + 1)..q /\ k \in 1..n
    BY <1>1, <1>4
  <2>3. WrittenIn(L, i, n, a) => WrittenIn(M, i, q, a)
    BY <1>2, <2>2 DEF WrittenIn, IsList
  <2> QED  BY <2>1, <2>3
<1>5. ASSUME i <= n, NEW d, d # c PROVE Superseded(M, i, q, d) <=> Superseded(L, i, n, d)
  <2>1. Superseded(M, i, q, d) => Superseded(L, i, n, d)
    BY <1>1, <1>2, <1>5 DEF Superseded, HasFrame
  <2>2. \A k \in (i + 1)..n : k \in (i + 1)..q /\ k \in 1..n /\ k # 0
    BY <1>1, <1>5
  <2>3. Superseded(L, i, n, d) => Superseded(M, i, q, d)
    BY <1>2, <2>2 DEF Superseded, HasFrame
  <2> QED  BY <2>1, <2>3
<1>6. ASSUME i <= n PROVE Superseded(M, i, q, c)
  <2>1. n + 1 \in (i + 1)..q /\ n + 1 # 0
    BY <1>1, <1>6
  <2> QED  BY <1>2, <2>1 DEF Superseded, HasFrame
<1>7. ASSUME i > n PROVE ~ClearIn(M, i, q) /\ \A a : ~WrittenIn(M, i, q, a)
  <2>1. \A k \in (i + 1)..q : k = n + 2
    BY <1>1, <1>7
  <2> QED  BY <1>2, <2>1 DEF ClearIn, WrittenIn, IsList
<1>8. ASSUME NEW A, NEW d, i > n, HasFrame(M, A, i, d)
      PROVE  i = n + 1 /\ d = c /\ FrameAt(M, A, i, d) = f
  <2>1. i # 0 /\ (i = n + 1 \/ i = n + 2)
    BY <1>1, <1>8
  <2> QED  BY <1>2, <1>8, <2>1 DEF HasFrame, FrameAt
<1>9. ASSUME NEW A, NEW d, i <= n
      PROVE  /\ HasFrame(M, A, i, d) <=> HasFrame(L, A, i, d)
             /\ FrameAt(M, A, i, d) = FrameAt(L, A, i, d)
  <2>1. i = 0 \/ i \in 1..n
    BY <1>1, <1>9
  <2> QED  BY <1>2, <2>1 DEF HasFrame, FrameAt
<1> QED  BY <1>3, <1>4, <1>5, <1>6, <1>7, <1>8, <1>9

LEMMA SentShown ==
  ASSUME NEW L, NEW M, NEW n, NEW c, NEW f, IsSent(L, M, n, c, f), NEW A, NEW T,
         NEW q \in (n + 1)..(n + 2), NEW i \in 0..q, NEW d, Shown(M, A, T, i, q, d)
  PROVE  \/ i \in 0..n /\ d # c /\ Shown(L, A, T, i, n, d) /\ FrameAt(M, A, i, d) = FrameAt(L, A, i, d)
         \/ i = n + 1 /\ d = c /\ FrameAt(M, A, i, d) = f
<1>1. n \in Nat /\ i \in Nat
  BY DEF IsSent
<1>2. CASE i <= n
  <2>1. d # c
    BY <1>2, SentIn DEF Shown
  <2> QED  BY <1>1, <1>2, <2>1, SentIn DEF Shown
<1>3. CASE i > n
  BY <1>3, SentIn DEF Shown
<1> QED  BY <1>1, <1>2, <1>3

LEMMA SentHolds ==
  ASSUME NEW L, NEW M, NEW n, NEW c, NEW f, IsSent(L, M, n, c, f), NEW U, NEW a, NEW x,
         NEW q \in (n + 1)..(n + 2), Holds(L, U, n, a, x)
  PROVE  Holds(M, U, q, a, x)
<1>1. PICK i \in 0..n : WrittenLast(L, U, i, n, a, x)
  BY DEF Holds
<1>2. i \in 0..q /\ i <= n /\ (i = 0 \/ i \in 1..n) /\ n \in Nat
  BY DEF IsSent
<1>3. ~ClearIn(M, i, q) /\ ~WrittenIn(M, i, q, a)
  BY <1>1, <1>2, SentIn DEF WrittenLast
<1>4. i # 0 => M[i] = L[i]
  BY <1>2 DEF IsSent
<1>5. WrittenLast(M, U, i, q, a, x)
  BY <1>1, <1>3, <1>4 DEF WrittenLast, IsList, Source
<1> QED  BY <1>2, <1>5 DEF Holds

(* What has to be so when f is sent: its deferred blocks are apart from    *)
(* what it uploaded, from what the frames shown last have, and from S.     *)
SentApart(L, A, T, c, f, S) ==
  /\ \A u \in f.uses : Plain(u) => u.at \notin f.deferred
  /\ \A d \in Docs, i \in Places(L) : d # c /\ Shown(L, A, T, i, Len(L), d) =>
       \A u \in FrameAt(L, A, i, d).uses : Plain(u) => u.at \notin f.deferred
  /\ \A a \in S : a \notin f.deferred

LEMMA SentData ==
  ASSUME NEW L, NEW M, NEW n, NEW c \in Docs, NEW f, IsSent(L, M, n, c, f), NEW A, NEW T, NEW U,
         NEW R, NEW S, DeferredBefore(L, A, T, R), DeferredApart(L, A, T),
         \A u \in f.uses : Plain(u) => u.at \in R,
         S \subseteq R, SentApart(L, A, T, c, f, S)
  PROVE  /\ DeferredApart(M, A, T)
         /\ DeferredBefore(M, A, T, S)
         /\ FramesHold(L, U, A, T) /\ (\A u \in f.uses : Plain(u) => Holds(L, U, n, u.at, u.data)) =>
              FramesHold(M, U, A, T)
         /\ \A a, x : Holds(L, U, n, a, x) => Holds(M, U, Len(M), a, x)
<1>1. /\ n \in Nat /\ Len(L) = n /\ Places(L) = 0..n /\ n \in 0..n /\ Len(M) = n + 2
      /\ Places(M) = 0..(n + 2) /\ n + 2 \in (n + 1)..(n + 2)
      /\ \A q \in 0..(n + 2) : (q \in 0..n /\ q <= n) \/ (q \in (n + 1)..(n + 2) /\ q > n)
      /\ \A q \in 0..n : q \in Nat /\ \A j \in 1..q : M[j] = L[j]
  BY DEF IsSent, Places
<1>2. ~WrittenIn(L, n, n, 0) /\ ~ClearIn(L, n, n) /\ \A a : ~WrittenIn(L, n, n, a)
  <2>1. \A k \in (n + 1)..n : FALSE
    BY <1>1
  <2> QED  BY <2>1 DEF WrittenIn, ClearIn
(* The frame at a late place is one of those shown last, or f.             *)
<1>3. ASSUME NEW p \in 0..n, NEW d \in Docs, NEW i \in 0..p, Shown(L, A, T, i, p, d), ~ClearIn(L, p, n),
             NEW q \in (n + 1)..(n + 2), NEW e \in Docs, NEW k \in 0..q, Shown(M, A, T, k, q, e),
             NEW u \in FrameAt(M, A, k, e).uses, Plain(u), u.at \in FrameAt(L, A, i, d).deferred
      PROVE  WrittenIn(L, p, n, u.at)
  <2>1. CASE k \in 0..n /\ Shown(L, A, T, k, n, e) /\ FrameAt(M, A, k, e) = FrameAt(L, A, k, e)
    <3>1. p <= n
      BY <1>1
    <3> QED  BY <1>1, <1>3, <2>1, <3>1 DEF DeferredApart
  <2>2. CASE FrameAt(M, A, k, e) = f
    <3>1. u.at \in R
      BY <1>3, <2>2
    <3> QED  BY <1>1, <1>3, <3>1 DEF DeferredBefore
  <2> QED  BY <1>3, <2>1, <2>2, SentShown
<1>4. DeferredApart(M, A, T)
  <2>1. SUFFICES ASSUME NEW p \in 0..(n + 2), NEW q \in 0..(n + 2), NEW d \in Docs, NEW e \in Docs,
                        NEW i \in 0..p, NEW k \in 0..q,
                        p <= q, Shown(M, A, T, i, p, d), Shown(M, A, T, k, q, e),
                        ~ClearIn(M, p, q), NEW u \in FrameAt(M, A, k, e).uses, Plain(u),
                        u.at \in FrameAt(M, A, i, d).deferred
                 PROVE  WrittenIn(M, p, q, u.at)
    BY <1>1 DEF DeferredApart
  <2>2. CASE q \in 0..n
    <3>1. p \in 0..n /\ p \in 0..q
      BY <1>1, <2>1, <2>2
    <3>0. /\ p \in Nat /\ \A j \in 1..p : M[j] = L[j]
          /\ q \in Nat /\ \A j \in 1..q : M[j] = L[j]
      BY <1>1, <2>2, <3>1
    <3>2. Shown(L, A, T, i, p, d) /\ FrameAt(M, A, i, d) = FrameAt(L, A, i, d)
      BY <2>1, <3>0, AgreeShown
    <3>3. Shown(L, A, T, k, q, e) /\ FrameAt(M, A, k, e) = FrameAt(L, A, k, e)
      BY <2>1, <3>0, AgreeShown
    <3>4. ~ClearIn(L, p, q)
      BY <1>1, <2>1, <2>2, <3>1, Agree
    <3>5. WrittenIn(L, p, q, u.at)
      BY <1>1, <2>1, <2>2, <3>1, <3>2, <3>3, <3>4 DEF DeferredApart
    <3> QED  BY <1>1, <2>2, <3>1, <3>5, Agree
  <2>3. CASE p \in 0..n /\ q \in (n + 1)..(n + 2)
    <3>0. p \in Nat /\ \A j \in 1..p : M[j] = L[j]
      BY <1>1, <2>3
    <3>1. Shown(L, A, T, i, p, d) /\ FrameAt(M, A, i, d) = FrameAt(L, A, i, d)
      BY <2>1, <3>0, AgreeShown
    <3>2. p \in 0..q /\ p <= n
      BY <1>1, <2>1, <2>3
    <3>3. ~ClearIn(L, p, n)
      BY <2>1, <2>3, <3>2, SentIn
    <3>4. WrittenIn(L, p, n, u.at)
      BY <1>3, <2>1, <2>3, <3>1, <3>3
    <3> QED  BY <2>3, <3>2, <3>4, SentIn
  <2>4. CASE p \in (n + 1)..(n + 2) /\ q \in (n + 1)..(n + 2)
    <3>1. CASE i \in 0..n /\ Shown(L, A, T, i, n, d) /\ FrameAt(M, A, i, d) = FrameAt(L, A, i, d)
      <4>1. WrittenIn(L, n, n, u.at)
        BY <1>1, <1>2, <1>3, <2>1, <2>4, <3>1
      <4> QED  BY <1>2, <4>1
    <3>2. CASE FrameAt(M, A, i, d) = f
      <4>1. CASE k \in 0..n /\ e # c /\ Shown(L, A, T, k, n, e) /\ FrameAt(M, A, k, e) = FrameAt(L, A, k, e)
        BY <1>1, <2>1, <3>2, <4>1 DEF SentApart
      <4>2. CASE FrameAt(M, A, k, e) = f
        BY <2>1, <3>2, <4>2 DEF SentApart
      <4> QED  BY <2>1, <2>4, <4>1, <4>2, SentShown
    <3> QED  BY <2>1, <2>4, <3>1, <3>2, SentShown
  <2> QED  BY <1>1, <2>1, <2>2, <2>3, <2>4
<1>5. DeferredBefore(M, A, T, S)
  <2>1. SUFFICES ASSUME NEW p \in 0..(n + 2), NEW d \in Docs, NEW i \in 0..p,
                        Shown(M, A, T, i, p, d), ~ClearIn(M, p, n + 2),
                        NEW a \in S, a \in FrameAt(M, A, i, d).deferred
                 PROVE  WrittenIn(M, p, n + 2, a)
    BY <1>1 DEF DeferredBefore
  <2>2. CASE p \in 0..n
    <3>0. p \in Nat /\ \A j \in 1..p : M[j] = L[j]
      BY <1>1, <2>2
    <3>1. Shown(L, A, T, i, p, d) /\ FrameAt(M, A, i, d) = FrameAt(L, A, i, d)
      BY <2>1, <3>0, AgreeShown
    <3>2. p \in 0..(n + 2) /\ p <= n
      BY <1>1, <2>2
    <3>3. ~ClearIn(L, p, n)
      BY <1>1, <2>1, <3>2, SentIn
    <3>4. WrittenIn(L, p, n, a)
      BY <1>1, <2>1, <2>2, <3>1, <3>3 DEF DeferredBefore
    <3> QED  BY <1>1, <3>2, <3>4, SentIn
  <2>3. CASE p \in (n + 1)..(n + 2)
    <3>1. CASE i \in 0..n /\ Shown(L, A, T, i, n, d) /\ FrameAt(M, A, i, d) = FrameAt(L, A, i, d)
      <4>1. WrittenIn(L, n, n, a)
        BY <1>1, <1>2, <2>1, <3>1 DEF DeferredBefore
      <4> QED  BY <1>2, <4>1
    <3>2. CASE FrameAt(M, A, i, d) = f
      BY <2>1, <3>2 DEF SentApart
    <3> QED  BY <2>1, <2>3, <3>1, <3>2, SentShown
  <2> QED  BY <1>1, <2>2, <2>3
<1>6. ASSUME FramesHold(L, U, A, T), \A u \in f.uses : Plain(u) => Holds(L, U, n, u.at, u.data)
      PROVE  FramesHold(M, U, A, T)
  <2>1. SUFFICES ASSUME NEW q \in 0..(n + 2), NEW e \in Docs, NEW k \in 0..q, Shown(M, A, T, k, q, e),
                        NEW u \in FrameAt(M, A, k, e).uses, Plain(u)
                 PROVE  Holds(M, U, q, u.at, u.data)
    BY <1>1 DEF FramesHold
  <2>2. CASE q \in 0..n
    <3>0. q \in Nat /\ \A j \in 1..q : M[j] = L[j]
      BY <1>1, <2>2
    <3>1. Shown(L, A, T, k, q, e) /\ FrameAt(M, A, k, e) = FrameAt(L, A, k, e)
      BY <2>1, <3>0, AgreeShown
    <3>2. Holds(L, U, q, u.at, u.data)
      BY <1>1, <1>6, <2>1, <2>2, <3>1 DEF FramesHold
    <3> QED  BY <1>1, <2>2, <3>2, AgreeHolds
  <2>3. CASE q \in (n + 1)..(n + 2)
    <3>1. Holds(L, U, n, u.at, u.data)
      <4>1. CASE k \in 0..n /\ Shown(L, A, T, k, n, e) /\ FrameAt(M, A, k, e) = FrameAt(L, A, k, e)
        BY <1>1, <1>6, <2>1, <4>1 DEF FramesHold
      <4>2. CASE FrameAt(M, A, k, e) = f
        BY <1>6, <2>1, <4>2
      <4> QED  BY <2>1, <2>3, <4>1, <4>2, SentShown
    <3> QED  BY <2>3, <3>1, SentHolds
  <2> QED  BY <1>1, <2>2, <2>3
<1>7. ASSUME NEW a, NEW x, Holds(L, U, n, a, x) PROVE Holds(M, U, Len(M), a, x)
  BY <1>1, <1>7, SentHolds
<1> QED  BY <1>4, <1>5, <1>6, <1>7

LEMMA SentBases ==
  ASSUME NEW L, NEW M, NEW n, NEW c, NEW f, IsSent(L, M, n, c, f), NEW A, NEW T \in Int,
         BasesOK(L, A, T), f.base = L[n].base,
         \A i \in 1..n : IsList(L, i) => L[i].base \in Int
  PROVE  BasesOK(M, A, T)
<1>1. /\ n \in Nat /\ n # 0 /\ Len(L) = n /\ Places(L) = 0..n /\ n \in 0..n /\ Len(M) = n + 2
      /\ Places(M) = 0..(n + 2) /\ n + 2 \in (n + 1)..(n + 2)
      /\ \A j \in 1..n : M[j] = L[j]
      /\ M[n + 1].kind = "document" /\ M[n + 1].frame = f
      /\ IsList(L, n) /\ IsList(M, n + 2) /\ ~M[n + 2].clear /\ M[n + 2].base = L[n].base
  BY DEF IsSent, Places
<1>2. ASSUME NEW i \in 0..n
      PROVE  BaseAt(M, T, i) = BaseAt(L, T, i) /\ (i # 0 => (IsList(M, i) <=> IsList(L, i)))
  <2>1. i = 0 \/ i \in 1..n
    BY <1>1
  <2> QED  BY <1>1, <2>1 DEF BaseAt, IsList
<1>3. BaseAt(M, T, n + 2) = BaseAt(L, T, n)
  BY <1>1 DEF BaseAt
<1>4. ASSUME NEW i \in 0..(n + 2), NEW j \in 0..(n + 2), i < j, i = 0 \/ IsList(M, i), IsList(M, j)
      PROVE  /\ BaseAt(M, T, i) <= BaseAt(M, T, j)
             /\ M[j].clear => BaseAt(M, T, i) < BaseAt(M, T, j)
             /\ ~ClearIn(M, i, j) => BaseAt(M, T, i) = BaseAt(M, T, j)
  <2>1. j # n + 1 /\ i # n + 1 /\ i # n + 2
    BY <1>1, <1>4 DEF IsList
  <2>2. i \in 0..n /\ (j \in 0..n \/ j = n + 2) /\ j # 0
    BY <1>1, <1>4, <2>1
  <2>3. CASE j \in 0..n
    <3>1. i \in 0..j /\ j \in Nat /\ \A k \in 1..j : M[k] = L[k]
      BY <1>1, <1>4, <2>3
    <3>2. ClearIn(M, i, j) <=> ClearIn(L, i, j)
      BY <3>1, Agree
    <3>3. M[j] = L[j]
      BY <1>1, <2>2, <2>3
    <3> QED  BY <1>1, <1>2, <1>4, <2>2, <2>3, <3>2, <3>3 DEF BasesOK
  <2>4. CASE j = n + 2 /\ i < n
    <3>1. i \in 0..(n + 2) /\ i <= n
      BY <1>1, <2>4
    <3>2. ClearIn(M, i, n + 2) <=> ClearIn(L, i, n)
      BY <1>1, <3>1, SentIn
    <3>3. i = 0 \/ IsList(L, i)
      BY <1>2, <1>4, <2>2
    <3>4. /\ BaseAt(L, T, i) <= BaseAt(L, T, n)
          /\ ~ClearIn(L, i, n) => BaseAt(L, T, i) = BaseAt(L, T, n)
      BY <1>1, <2>2, <2>4, <3>3 DEF BasesOK
    <3> QED  BY <1>1, <1>2, <1>3, <2>2, <2>4, <3>2, <3>4
  <2>5. CASE j = n + 2 /\ i = n
    <3>1. BaseAt(L, T, n) \in Int
      BY <1>1 DEF BaseAt
    <3> QED  BY <1>1, <1>2, <1>3, <2>2, <2>5, <3>1
  <2>6. j = n + 2 => i < n \/ i = n
    BY <1>1, <2>2
  <2> QED  BY <2>2, <2>3, <2>4, <2>5, <2>6
<1>5. ASSUME NEW i \in 1..(n + 2), M[i].kind = "document"
      PROVE  \E k \in 0..(i - 1) : (k = 0 \/ IsList(M, k)) /\ M[i].frame.base <= BaseAt(M, T, k)
  <2>1. CASE i \in 1..n
    <3>1. PICK k \in 0..(i - 1) : (k = 0 \/ IsList(L, k)) /\ L[i].frame.base <= BaseAt(L, T, k)
      BY <1>1, <1>5, <2>1 DEF BasesOK
    <3>2. k \in 0..n
      BY <1>1, <2>1
    <3> QED  BY <1>1, <1>2, <2>1, <3>1, <3>2
  <2>2. CASE i = n + 1
    <3>1. n \in 0..(i - 1) /\ IsList(M, n) /\ BaseAt(M, T, n) = L[n].base /\ L[n].base \in Int
      BY <1>1, <1>2, <2>2 DEF BaseAt
    <3> QED  BY <1>1, <2>2, <3>1
  <2>3. i # n + 2
    BY <1>1, <1>5 DEF IsList
  <2> QED  BY <1>1, <2>1, <2>2, <2>3
<1> QED  BY <1>1, <1>4, <1>5 DEF BasesOK

-----------------------------------------------------------------------------
(* The cache is cleared.                                                   *)

(* The list is dropped for one that clears the texture, of base e, after a *)
(* notice of memory pressure or not.                                       *)
IsCleared(L, M, n, m, e) ==
  /\ n \in Nat \ {0} /\ m \in n..(n + 1) /\ Len(L) = n /\ Len(M) = m
  /\ \A j \in 1..(n - 1) : M[j] = L[j]
  /\ \A j \in n..(m - 1) : M[j].kind = "pressure"
  /\ IsList(L, n) /\ IsList(M, m)
  /\ M[m].clear /\ M[m].base = e /\ DOMAIN M[m].updates = {}
  /\ e \in Int /\ L[n].base < e

LEMMA ClearedShown ==
  ASSUME NEW L, NEW M, NEW n, NEW m, NEW e, IsCleared(L, M, n, m, e), NEW A, NEW T,
         NEW q \in 0..m, NEW i \in 0..q, NEW d, Shown(M, A, T, i, q, d)
  PROVE  /\ q \in 0..(n - 1) /\ Shown(L, A, T, i, q, d) /\ FrameAt(M, A, i, d) = FrameAt(L, A, i, d)
<1>1. /\ n \in Nat /\ n # 0 /\ m \in Nat /\ n <= m
      /\ \A j \in 1..(n - 1) : M[j] = L[j]
      /\ \A j \in n..(m - 1) : M[j].kind = "pressure"
      /\ M[m].kind = "gpu" /\ M[m].clear
  BY DEF IsCleared, IsList
<1>2. HasFrame(M, A, i, d) /\ ~Superseded(M, i, q, d) /\ ~ClearIn(M, i, q)
  BY DEF Shown
<1>3. i \notin n..m
  <2>1. i \in n..m => i # 0 /\ (i \in n..(m - 1) \/ i = m)
    BY <1>1
  <2> QED  BY <1>1, <1>2, <2>1 DEF HasFrame
<1>4. i < n
  BY <1>1, <1>3
<1>5. q < n
  <2> SUFFICES ASSUME q >= n PROVE FALSE
    BY <1>1
  <2>1. CASE q = m
    <3>1. m \in (i + 1)..q
      BY <1>1, <1>4, <2>1
    <3> QED  BY <1>1, <1>2, <3>1 DEF ClearIn, IsList
  <2>2. CASE q # m
    <3>1. q \in (i + 1)..q /\ q \in n..(m - 1)
      BY <1>1, <1>4, <2>2
    <3> QED  BY <1>1, <1>2, <3>1 DEF Superseded
  <2> QED  BY <2>1, <2>2
<1>6. q \in Nat /\ q \in 0..(n - 1) /\ \A j \in 1..q : M[j] = L[j]
  BY <1>1, <1>5
<1> QED  BY <1>6, Agree

LEMMA ClearedData ==
  ASSUME NEW L, NEW M, NEW n, NEW m, NEW e, IsCleared(L, M, n, m, e), NEW A, NEW T, NEW U
  PROVE  /\ DeferredApart(L, A, T) => DeferredApart(M, A, T)
         /\ \A S : DeferredBefore(M, A, T, S)
         /\ FramesHold(L, U, A, T) => FramesHold(M, U, A, T)
         /\ FramesKept(M, A, T)
         /\ FramesOK(L, A) => FramesOK(M, A)
<1>1. /\ n \in Nat /\ n # 0 /\ m \in Nat /\ n <= m /\ Len(L) = n /\ Len(M) = m
      /\ Places(L) = 0..n /\ Places(M) = 0..m /\ m \in 0..m
      /\ \A q \in 0..(n - 1) : q \in Nat /\ q \in 0..n /\ q < n /\ \A j \in 1..q : M[j] = L[j]
  BY DEF IsCleared, Places
<1>2. ASSUME NEW q \in 0..m, NEW i \in 0..q, NEW d, Shown(M, A, T, i, q, d)
      PROVE  q \in 0..(n - 1) /\ Shown(L, A, T, i, q, d) /\ FrameAt(M, A, i, d) = FrameAt(L, A, i, d)
  BY <1>2, ClearedShown
<1>3. ASSUME DeferredApart(L, A, T) PROVE DeferredApart(M, A, T)
  <2>1. SUFFICES ASSUME NEW p \in 0..m, NEW q \in 0..m, NEW d \in Docs, NEW g \in Docs,
                        NEW i \in 0..p, NEW k \in 0..q,
                        p <= q, Shown(M, A, T, i, p, d), Shown(M, A, T, k, q, g),
                        ~ClearIn(M, p, q), NEW u \in FrameAt(M, A, k, g).uses, Plain(u),
                        u.at \in FrameAt(M, A, i, d).deferred
                 PROVE  WrittenIn(M, p, q, u.at)
    BY <1>1 DEF DeferredApart
  <2>2. Shown(L, A, T, i, p, d) /\ FrameAt(M, A, i, d) = FrameAt(L, A, i, d) /\ p \in 0..n
    BY <1>1, <1>2, <2>1
  <2>3. /\ Shown(L, A, T, k, q, g) /\ FrameAt(M, A, k, g) = FrameAt(L, A, k, g)
        /\ q \in 0..n /\ q \in 0..(n - 1)
    BY <1>1, <1>2, <2>1
  <2>4. p \in 0..q
    BY <2>1
  <2>5. ~ClearIn(L, p, q)
    BY <1>1, <2>1, <2>3, <2>4, Agree
  <2>6. WrittenIn(L, p, q, u.at)
    BY <1>1, <1>3, <2>1, <2>2, <2>3, <2>5 DEF DeferredApart
  <2> QED  BY <1>1, <2>3, <2>4, <2>6, Agree
<1>4. ASSUME NEW S PROVE DeferredBefore(M, A, T, S)
  <2>1. SUFFICES ASSUME NEW p \in 0..m, NEW d \in Docs, NEW i \in 0..p,
                        Shown(M, A, T, i, p, d), ~ClearIn(M, p, m)
                 PROVE  FALSE
    BY <1>1 DEF DeferredBefore
  <2>2. p \in 0..(n - 1)
    BY <1>2, <2>1
  <2>3. m \in (p + 1)..m
    BY <1>1, <2>2
  <2> QED  BY <2>1, <2>3 DEF ClearIn, IsCleared
<1>5. ASSUME FramesHold(L, U, A, T) PROVE FramesHold(M, U, A, T)
  <2>1. SUFFICES ASSUME NEW q \in 0..m, NEW g \in Docs, NEW k \in 0..q, Shown(M, A, T, k, q, g),
                        NEW u \in FrameAt(M, A, k, g).uses, Plain(u)
                 PROVE  Holds(M, U, q, u.at, u.data)
    BY <1>1 DEF FramesHold
  <2>2. /\ Shown(L, A, T, k, q, g) /\ FrameAt(M, A, k, g) = FrameAt(L, A, k, g) /\ q \in 0..n
        /\ q \in 0..(n - 1)
    BY <1>1, <1>2, <2>1
  <2>3. Holds(L, U, q, u.at, u.data)
    BY <1>1, <1>5, <2>1, <2>2 DEF FramesHold
  <2> QED  BY <1>1, <2>2, <2>3, AgreeHolds
<1>6. FramesKept(M, A, T)
  <2>1. SUFFICES ASSUME NEW d \in Docs, NEW i \in 0..m, Shown(M, A, T, i, m, d) PROVE FALSE
    BY <1>1 DEF FramesKept
  <2>2. m \in 0..(n - 1)
    BY <1>1, <1>2, <2>1
  <2> QED  BY <1>1, <2>2
<1>7. ASSUME FramesOK(L, A) PROVE FramesOK(M, A)
  <2>1. SUFFICES ASSUME NEW d \in Docs, NEW i \in 0..m, HasFrame(M, A, i, d)
                 PROVE  i \in Places(L) /\ HasFrame(L, A, i, d) /\ FrameAt(M, A, i, d) = FrameAt(L, A, i, d)
    BY <1>1, <1>7 DEF FramesOK
  <2>2. i \notin n..m
    <3>1. i \in n..m => i # 0 /\ (i \in n..(m - 1) \/ i = m)
      BY <1>1
    <3> QED  BY <2>1, <3>1 DEF HasFrame, IsCleared, IsList
  <2>3. i \in Nat /\ i \in 0..n /\ i \in 0..i /\ \A j \in 1..i : M[j] = L[j]
    BY <1>1, <2>2
  <2> QED  BY <1>1, <2>1, <2>3, Agree
<1> QED  BY <1>3, <1>4, <1>5, <1>6, <1>7

LEMMA ClearedBases ==
  ASSUME NEW L, NEW M, NEW n, NEW m, NEW e, IsCleared(L, M, n, m, e), NEW A, NEW T \in Int,
         BasesOK(L, A, T), \A i \in 1..n : IsList(L, i) => L[i].base \in Int
  PROVE  BasesOK(M, A, T)
<1>1. /\ n \in Nat /\ n # 0 /\ m \in Nat /\ n <= m /\ Len(L) = n /\ Len(M) = m
      /\ Places(L) = 0..n /\ Places(M) = 0..m /\ m \in 0..m /\ n \in 0..n
      /\ \A j \in 1..(n - 1) : M[j] = L[j]
      /\ \A j \in n..(m - 1) : M[j].kind = "pressure"
      /\ IsList(L, n) /\ IsList(M, m) /\ M[m].clear /\ M[m].base = e /\ e \in Int /\ L[n].base < e
  BY DEF IsCleared, Places
<1>2. ASSUME NEW i \in 0..m, i = 0 \/ IsList(M, i) \/ M[i].kind = "document"
      PROVE  i = m \/ i \in 0..(n - 1)
  <2>1. i \in 0..(n - 1) \/ i \in n..(m - 1) \/ i = m
    BY <1>1
  <2> QED  BY <1>1, <1>2, <2>1 DEF IsList
<1>3. ASSUME NEW i \in 0..(n - 1)
      PROVE  /\ BaseAt(M, T, i) = BaseAt(L, T, i) /\ i \in 0..n
             /\ i # 0 => (IsList(M, i) <=> IsList(L, i))
             /\ i = 0 \/ IsList(L, i) => BaseAt(L, T, i) \in Int
  <2>1. i = 0 \/ i \in 1..(n - 1)
    BY <1>1
  <2> QED  BY <1>1, <2>1 DEF BaseAt, IsList
<1>4. ASSUME NEW i \in 0..m, NEW j \in 0..m, i < j, i = 0 \/ IsList(M, i), IsList(M, j)
      PROVE  /\ BaseAt(M, T, i) <= BaseAt(M, T, j)
             /\ M[j].clear => BaseAt(M, T, i) < BaseAt(M, T, j)
             /\ ~ClearIn(M, i, j) => BaseAt(M, T, i) = BaseAt(M, T, j)
  <2>1. i \in 0..(n - 1) /\ j # 0 /\ (j = m \/ j \in 0..(n - 1))
    BY <1>1, <1>2, <1>4
  <2>2. CASE j \in 0..(n - 1)
    <3>1. i \in 0..j /\ j \in Nat /\ \A k \in 1..j : M[k] = L[k]
      BY <1>1, <1>4, <2>2
    <3>2. ClearIn(M, i, j) <=> ClearIn(L, i, j)
      BY <3>1, Agree
    <3>3. M[j] = L[j] /\ (i = 0 \/ IsList(L, i)) /\ IsList(L, j)
      BY <1>1, <1>3, <1>4, <2>1, <2>2
    <3> QED  BY <1>1, <1>3, <1>4, <2>1, <2>2, <3>2, <3>3 DEF BasesOK
  <2>3. CASE j = m
    <3>1. i = 0 \/ IsList(L, i)
      BY <1>3, <1>4, <2>1
    <3>2. BaseAt(L, T, i) <= BaseAt(L, T, n)
      <4>1. i \in 0..n /\ i < n
        BY <1>1, <2>1
      <4> QED  BY <1>1, <3>1, <4>1 DEF BasesOK
    <3>3. BaseAt(L, T, n) = L[n].base /\ BaseAt(M, T, m) = e /\ L[n].base \in Int
      BY <1>1 DEF BaseAt
    <3>4. BaseAt(M, T, i) < BaseAt(M, T, m)
      BY <1>1, <1>3, <2>1, <3>1, <3>2, <3>3
    <3>5. ClearIn(M, i, m)
      <4>1. m \in (i + 1)..m
        BY <1>1, <2>1
      <4> QED  BY <1>1, <4>1 DEF ClearIn
    <3>6. BaseAt(M, T, i) \in Int /\ BaseAt(M, T, m) \in Int
      BY <1>1, <1>3, <2>1, <3>1, <3>3
    <3> QED  BY <2>3, <3>4, <3>5, <3>6
  <2> QED  BY <2>1, <2>2, <2>3
<1>5. ASSUME NEW i \in 1..m, M[i].kind = "document"
      PROVE  \E k \in 0..(i - 1) : (k = 0 \/ IsList(M, k)) /\ M[i].frame.base <= BaseAt(M, T, k)
  <2>1. i \in 1..(n - 1) /\ M[i] = L[i]
    <3>1. i \in 0..m /\ i # m
      BY <1>1, <1>5 DEF IsList
    <3>2. i \in 0..(n - 1)
      BY <1>2, <1>5, <3>1
    <3> QED  BY <1>1, <3>2
  <2>2. PICK k \in 0..(i - 1) : (k = 0 \/ IsList(L, k)) /\ L[i].frame.base <= BaseAt(L, T, k)
    BY <1>1, <1>5, <2>1 DEF BasesOK
  <2>3. k \in 0..(n - 1)
    BY <1>1, <2>1
  <2> QED  BY <1>3, <2>1, <2>2, <2>3
<1> QED  BY <1>1, <1>4, <1>5 DEF BasesOK

-----------------------------------------------------------------------------
(* The lists of blocks.                                                    *)

FreeSet(c) == {b \in 1..block_count : Free(b) /\ rows[blocks[b].at[1]] = c}
OccupiedSet(d) == {b \in 1..block_count : Owned(b, d)}

ChainsOK ==
  /\ \A c \in Classes : Chained(blocks, free_lists[c], FreeSet(c))
  /\ \A d \in Docs : Chained(blocks, occupied_list_heads[d], OccupiedSet(d))

GoodMessage(m) ==
  /\ m.kind = "gpu" => m.clear \in BOOLEAN /\ IsMap(m.updates) /\ m.base \in Epochs
  /\ m.kind = "document" => m.id \in Docs /\ m.frame \in Frame

LineOK ==
  /\ \E S : results \in Seq(S)
  /\ \A i \in 1..Len(results) : GoodMessage(results[i])

BasicInv == TypeOK /\ LineOK /\ ChainsOK /\ BlocksOK /\ LoopOK

LEMMA Constants ==
  /\ NoDoc \notin Docs /\ MaxEpoch \in Nat /\ MaxRows \in Nat
  /\ \A c \in Classes : ItemsPerRow[c] \in Nat /\ ItemsPerRow[c] >= 1
  /\ FramesBeforeEviction \in Nat /\ FramesBeforeEviction >= 1
  /\ \A h \in Handles : Users[h] \in SUBSET Docs
  /\ External \notin (Handles \cup Docs) \X Nat
BY GpuCacheAssumption

LEMMA BlockFacts ==
  ASSUME TypeOK, BlocksOK
  PROVE  /\ block_count \in Nat /\ rows \in Seq(Classes) /\ Len(rows) \in Nat
         /\ base_epoch \in Nat /\ max_epoch \in Nat /\ base_epoch <= max_epoch /\ max_epoch <= MaxEpoch
         /\ \A b \in 1..block_count :
              /\ blocks[b] \in Block
              /\ blocks[b].at \in Address /\ blocks[b].at[1] \in 1..Len(rows) /\ blocks[b].at[2] \in Nat
              /\ blocks[b].at = <<blocks[b].at[1], blocks[b].at[2]>>
              /\ blocks[b].epoch \in Nat /\ base_epoch <= blocks[b].epoch /\ blocks[b].epoch <= max_epoch
              /\ blocks[b].next \in 0..block_count
              /\ blocks[b].last_access_time \in Nat
              /\ blocks[b].owner \in Docs \cup {NoDoc}
              /\ rows[blocks[b].at[1]] \in Classes
         /\ \A c \in Classes : free_lists[c] \in 0..block_count
         /\ \A d \in Docs : occupied_list_heads[d] \in 0..block_count /\ frame_id[d] \in Nat
         /\ \A h \in Handles : /\ location[h].block \in Nat /\ location[h].epoch \in Nat
                               /\ version[h] \in Nat
<1>1. block_count \in Nat /\ rows \in Seq(Classes) /\ Len(rows) \in Nat
  BY DEF TypeOK
<1>2. base_epoch \in Nat /\ max_epoch \in Nat /\ base_epoch <= max_epoch /\ max_epoch <= MaxEpoch
  BY Constants DEF TypeOK, Epochs
<1>3. ASSUME NEW b \in 1..block_count
      PROVE   /\ blocks[b] \in Block
              /\ blocks[b].at \in Address /\ blocks[b].at[1] \in 1..Len(rows) /\ blocks[b].at[2] \in Nat
              /\ blocks[b].at = <<blocks[b].at[1], blocks[b].at[2]>>
              /\ blocks[b].epoch \in Nat /\ base_epoch <= blocks[b].epoch /\ blocks[b].epoch <= max_epoch
              /\ blocks[b].next \in 0..block_count
              /\ blocks[b].last_access_time \in Nat
              /\ blocks[b].owner \in Docs \cup {NoDoc}
              /\ rows[blocks[b].at[1]] \in Classes
  <2>1. blocks[b] \in Block
    BY DEF TypeOK
  <2>2. blocks[b].at \in Address /\ blocks[b].last_access_time \in Nat /\ blocks[b].owner \in Docs \cup {NoDoc}
    BY <2>1 DEF Block
  <2>3. blocks[b].at = <<blocks[b].at[1], blocks[b].at[2]>> /\ blocks[b].at[2] \in Nat
    BY <2>2 DEF Address
  <2>4. blocks[b].at[1] \in 1..Len(rows) /\ blocks[b].epoch \in base_epoch..max_epoch /\ blocks[b].next \in 0..block_count
    BY DEF BlocksOK
  <2> QED  BY <1>1, <1>2, <2>1, <2>2, <2>3, <2>4
<1>4. /\ \A c \in Classes : free_lists[c] \in 0..block_count
      /\ \A d \in Docs : occupied_list_heads[d] \in 0..block_count /\ frame_id[d] \in Nat
  BY DEF TypeOK
<1>5. \A h \in Handles : location[h].block \in Nat /\ location[h].epoch \in Nat /\ version[h] \in Nat
  BY Constants DEF TypeOK, CacheLocation, Epochs
<1> QED  BY <1>1, <1>2, <1>3, <1>4, <1>5

(* Every block is on the list its owner says, and on no other.             *)
LEMMA OnOneList ==
  ASSUME BasicInv
  PROVE  BlockOnOneList
<1> USE DEF BasicInv
<1>1. /\ block_count \in Nat
      /\ \A c \in Classes : FreeSet(c) \in SUBSET (1..block_count)
      /\ \A d \in Docs : OccupiedSet(d) \in SUBSET (1..block_count)
  BY BlockFacts DEF FreeSet, OccupiedSet
<1>2. \A c \in Classes : ListOf([free |-> c]) = FreeSet(c)
  <2> SUFFICES ASSUME NEW c \in Classes PROVE ListOf([free |-> c]) = FreeSet(c)
    OBVIOUS
  <2>1. [free |-> c] \in [free : Classes] /\ [free |-> c].free = c
    OBVIOUS
  <2>2. ListOf([free |-> c]) = Linked(free_lists[c])
    BY <2>1 DEF ListOf
  <2> QED  BY <1>1, <2>2, ChainLinked DEF ChainsOK
<1>3. \A d \in Docs : ListOf([occupied |-> d]) = OccupiedSet(d)
  <2> SUFFICES ASSUME NEW d \in Docs PROVE ListOf([occupied |-> d]) = OccupiedSet(d)
    OBVIOUS
  <2>1. [occupied |-> d] \notin [free : Classes] /\ [occupied |-> d].occupied = d
    OBVIOUS
  <2>2. ListOf([occupied |-> d]) = Linked(occupied_list_heads[d])
    BY <2>1 DEF ListOf
  <2>3. Chained(blocks, occupied_list_heads[d], OccupiedSet(d))
    BY Zenon DEF ChainsOK
  <2>4. Linked(occupied_list_heads[d]) = OccupiedSet(d)
    BY <1>1, <2>3, ChainLinked
  <2> QED  BY <2>2, <2>4
<1>4. \A l \in Lists : (\E c \in Classes : l = [free |-> c]) \/ (\E d \in Docs : l = [occupied |-> d])
  BY DEF Lists
<1>5. ASSUME NEW b \in 1..block_count
      PROVE  Cardinality({l \in Lists : b \in ListOf(l)}) = 1
  <2>1. \E l \in Lists : {k \in Lists : b \in ListOf(k)} = {l}
    <3>1. CASE Free(b)
      <4> DEFINE c == rows[blocks[b].at[1]]
      <4>1. c \in Classes
        BY BlockFacts
      <4>2. [free |-> c] \in Lists /\ b \in ListOf([free |-> c])
        BY <1>2, <3>1, <4>1 DEF Lists, FreeSet
      <4>3. ASSUME NEW k \in Lists, b \in ListOf(k) PROVE k = [free |-> c]
        <5>1. \A d \in Docs : b \notin ListOf([occupied |-> d])
          BY <1>3, <3>1, Constants DEF OccupiedSet, Owned, Free
        <5>2. \A e \in Classes : b \in ListOf([free |-> e]) => e = c
          BY <1>2 DEF FreeSet
        <5> QED  BY <1>4, <4>3, <5>1, <5>2
      <4> HIDE DEF c
      <4> QED  BY <4>2, <4>3
    <3>2. CASE ~Free(b)
      <4> DEFINE d == blocks[b].owner
      <4>1. d \in Docs
        BY <3>2, BlockFacts DEF Free
      <4>2. [occupied |-> d] \in Lists /\ b \in ListOf([occupied |-> d])
        BY <1>3, <4>1 DEF Lists, OccupiedSet, Owned
      <4>3. ASSUME NEW k \in Lists, b \in ListOf(k) PROVE k = [occupied |-> d]
        <5>1. \A e \in Classes : b \notin ListOf([free |-> e])
          BY <1>2, <3>2 DEF FreeSet
        <5>2. \A e \in Docs : b \in ListOf([occupied |-> e]) => e = d
          BY <1>3 DEF OccupiedSet, Owned
        <5> QED  BY <1>4, <4>3, <5>1, <5>2
      <4> HIDE DEF d
      <4> QED  BY <4>2, <4>3
    <3> QED  BY <3>1, <3>2
  <2> QED  BY <2>1, FS_Singleton
<1>6. \A c \in Classes : \A b \in ListOf([free |-> c]) : rows[blocks[b].at[1]] = c
  BY <1>2 DEF FreeSet
<1> QED  BY <1>5, <1>6 DEF BlockOnOneList

(* bs are the blocks with some epochs advanced.                            *)
IsRetired(bs, e) ==
  /\ bs \in [1..block_count -> Block]
  /\ \A b \in 1..block_count :
       /\ bs[b].at = blocks[b].at /\ bs[b].next = blocks[b].next /\ bs[b].owner = blocks[b].owner
       /\ bs[b].last_access_time = blocks[b].last_access_time
       /\ bs[b].epoch \in Int /\ blocks[b].epoch <= bs[b].epoch /\ bs[b].epoch <= e

(* What push_data leaves: p is the block it has taken.                     *)
BlockGiven(bs, p) ==
  /\ block_count' \in Nat /\ block_count <= block_count' /\ p \in 1..block_count'
  /\ Len(rows') \in Nat /\ Len(rows) <= Len(rows')
  /\ \A b \in 1..block_count : b # p => blocks'[b] = bs[b]
  /\ p \in 1..block_count => Free(p) /\ blocks'[p].at = bs[p].at /\ blocks'[p].epoch = bs[p].epoch
  /\ \A b \in (block_count + 1)..block_count' :
       /\ blocks'[b].at[1] = Len(rows) + 1 /\ Len(rows') = Len(rows) + 1
       /\ blocks'[b].epoch = base_epoch
       /\ b # p => blocks'[b].owner = NoDoc
  /\ \A b, c \in (block_count + 1)..block_count' : blocks'[b].at = blocks'[c].at => b = c
  /\ blocks'[p].owner = now /\ blocks'[p].last_access_time = frame_id[now]

ListsTyped ==
  /\ blocks \in [1..block_count -> Block] /\ rows \in Seq(Classes)
  /\ free_lists \in [Classes -> 0..block_count]
  /\ occupied_list_heads \in [Docs -> 0..block_count]
  /\ \A b \in 1..block_count : blocks[b].next \in 0..block_count

LEMMA FreePushed ==
  ASSUME BasicInv, now \in Docs, NEW bs, NEW e, IsRetired(bs, e), NEW c \in Classes,
         TakeFree(bs, c)
  PROVE  BlockGiven(bs, Pushed) /\ Pushed = free_lists[c] /\ ListsTyped' /\ ChainsOK'
<1> USE DEF BasicInv
<1> DEFINE p == free_lists[c]
<1>0. p # None
  BY DEF TakeFree
<1>1. /\ free_lists' = [free_lists EXCEPT ![c] = bs[p].next]
      /\ blocks' = [bs EXCEPT ![p] = [@ EXCEPT !.next = occupied_list_heads[now],
                                              !.last_access_time = frame_id[now], !.owner = now]]
      /\ occupied_list_heads' = [occupied_list_heads EXCEPT ![now] = p]
      /\ block_count' = block_count /\ rows' = rows
  BY DEF TakeFree, Take
<1>2. /\ block_count \in Nat
      /\ \A k \in Classes : FreeSet(k) \in SUBSET (Nat \ {0}) /\ FreeSet(k) \subseteq 1..block_count
      /\ \A d \in Docs : OccupiedSet(d) \in SUBSET (Nat \ {0}) /\ OccupiedSet(d) \subseteq 1..block_count
  BY BlockFacts DEF FreeSet, OccupiedSet
<1>3. p \in FreeSet(c) /\ p \in 1..block_count /\ Free(p) /\ rows[blocks[p].at[1]] = c
  <2>1. p \in FreeSet(c)
    BY <1>0, <1>2, ChainHead DEF ChainsOK
  <2> QED  BY <2>1 DEF FreeSet
<1>4. Pushed = p
  BY <1>1 DEF Pushed, TypeOK
<1>5. /\ blocks'[p] = [bs[p] EXCEPT !.next = occupied_list_heads[now],
                                    !.last_access_time = frame_id[now], !.owner = now]
      /\ \A b \in 1..block_count : b # p => blocks'[b] = bs[b]
      /\ bs \in [1..block_count -> Block] /\ bs[p] \in Block
  BY <1>1, <1>3 DEF IsRetired
<1>6. /\ blocks'[p].at = bs[p].at /\ blocks'[p].epoch = bs[p].epoch
      /\ blocks'[p].next = occupied_list_heads[now] /\ blocks'[p].owner = now
      /\ blocks'[p].last_access_time = frame_id[now]
      /\ blocks'[p] \in Block
  <2>1. occupied_list_heads[now] \in Nat /\ frame_id[now] \in Nat
    BY BlockFacts
  <2> HIDE DEF p
  <2> QED  BY <1>5, <2>1 DEF Block
<1> HIDE DEF p
<1>7. BlockGiven(bs, Pushed)
  <2>1. \A b \in (block_count + 1)..block_count' : FALSE
    BY <1>1, <1>2
  <2>2. Len(rows) \in Nat
    BY BlockFacts
  <2> QED  BY <1>1, <1>2, <1>3, <1>4, <1>5, <1>6, <2>1, <2>2 DEF BlockGiven
<1>8. ListsTyped'
  <2>1. blocks' \in [1..block_count' -> Block]
    BY <1>1, <1>3, <1>5, <1>6
  <2>2. /\ free_lists' \in [Classes -> 0..block_count']
        /\ occupied_list_heads' \in [Docs -> 0..block_count']
    <3>1. bs[p].next \in 0..block_count
      BY <1>3, BlockFacts DEF IsRetired
    <3> QED  BY <1>1, <1>3, <3>1 DEF TypeOK
  <2>3. \A b \in 1..block_count' : blocks'[b].next \in 0..block_count'
    <3>1. \A b \in 1..block_count : bs[b].next \in 0..block_count
      BY BlockFacts DEF IsRetired
    <3> QED  BY <1>1, <1>5, <1>6, <3>1, BlockFacts
  <2> QED  BY <1>1, <2>1, <2>2, <2>3 DEF ListsTyped, TypeOK
<1>9. \A b \in 1..block_count :
        /\ blocks'[b].at = blocks[b].at
        /\ b # p => blocks'[b].next = blocks[b].next /\ blocks'[b].owner = blocks[b].owner
  <2> TAKE b \in 1..block_count
  <2>1. bs[b].at = blocks[b].at /\ bs[b].next = blocks[b].next /\ bs[b].owner = blocks[b].owner
    BY DEF IsRetired
  <2>2. CASE b = p
    BY <1>6, <2>1, <2>2
  <2>3. CASE b # p
    BY <1>5, <2>1, <2>3
  <2> QED  BY <2>2, <2>3
<1>10. ChainsOK'
  <2>1. ASSUME NEW k \in Classes PROVE Chained(blocks', free_lists'[k], FreeSet(k)')
    <3>1. FreeSet(k)' = FreeSet(k) \ {p}
      BY <1>1, <1>3, <1>6, <1>9, Constants DEF FreeSet, Free
    <3>2. CASE k = c
      <4>1. free_lists'[k] = blocks[p].next
        BY <1>1, <1>3, <3>2 DEF TypeOK, IsRetired
      <4>2. Chained(blocks, p, FreeSet(k))
        BY <3>2 DEF ChainsOK, p
      <4>3. \A x \in FreeSet(k) \ {p} : blocks'[x].next = blocks[x].next
        BY <1>2, <1>9
      <4>4. Chained(blocks', blocks[p].next, FreeSet(k) \ {p})
        BY <1>0, <1>2, <4>2, <4>3, ChainPop
      <4> QED  BY <3>1, <4>1, <4>4
    <3>3. CASE k # c
      <4>1. free_lists'[k] = free_lists[k] /\ p \notin FreeSet(k)
        BY <1>1, <1>3, <3>3 DEF TypeOK, FreeSet
      <4>2. \A x \in FreeSet(k) : blocks'[x].next = blocks[x].next
        BY <1>2, <1>9, <4>1
      <4>3. Chained(blocks', free_lists[k], FreeSet(k))
        BY <4>2, ChainSame DEF ChainsOK
      <4>4. FreeSet(k)' = FreeSet(k)
        BY <3>1, <4>1
      <4> QED  BY <4>1, <4>3, <4>4
    <3> QED  BY <3>2, <3>3
  <2>2. ASSUME NEW d \in Docs PROVE Chained(blocks', occupied_list_heads'[d], OccupiedSet(d)')
    <3>1. p \notin OccupiedSet(d) /\ \A x \in OccupiedSet(d) : blocks'[x].next = blocks[x].next
      BY <1>2, <1>3, <1>9, Constants DEF OccupiedSet, Owned, Free
    <3>2. CASE d = now
      <4>1. occupied_list_heads'[d] = p
        BY <1>1, <3>2 DEF TypeOK
      <4>2. OccupiedSet(d)' = OccupiedSet(d) \cup {p}
        BY <1>1, <1>3, <1>6, <1>9, <3>2 DEF OccupiedSet, Owned
      <4>3. Chained(blocks, occupied_list_heads[d], OccupiedSet(d))
        BY DEF ChainsOK
      <4>4. Chained(blocks', p, OccupiedSet(d) \cup {p})
        BY <1>6, <3>1, <3>2, <4>3, ChainPush
      <4> QED  BY <4>1, <4>2, <4>4
    <3>3. CASE d # now
      <4>1. occupied_list_heads'[d] = occupied_list_heads[d]
        BY <1>1, <3>3 DEF TypeOK
      <4>2. OccupiedSet(d)' = OccupiedSet(d)
        BY <1>1, <1>3, <1>6, <1>9, <3>1, <3>3 DEF OccupiedSet, Owned
      <4>3. Chained(blocks', occupied_list_heads[d], OccupiedSet(d))
        BY <3>1, ChainSame DEF ChainsOK
      <4> QED  BY <4>1, <4>2, <4>3
    <3> QED  BY <3>2, <3>3
  <2> QED  BY <2>1, <2>2 DEF ChainsOK
<1> QED  BY <1>4, <1>7, <1>8, <1>10 DEF p

LEMMA NewRowPushed ==
  ASSUME BasicInv, now \in Docs, NEW bs, NEW e, IsRetired(bs, e), NEW c \in Classes,
         TakeFromNewRow(bs, c)
  PROVE  BlockGiven(bs, Pushed) /\ Pushed \notin 1..block_count /\ ListsTyped' /\ ChainsOK'
<1> USE DEF BasicInv
<1> DEFINE k == ItemsPerRow[c]
           m == block_count
           p == m + k
           W == WithNewRow(bs, c)
<1>1. /\ free_lists[c] = None
      /\ free_lists' = [free_lists EXCEPT ![c] = W[p].next]
      /\ blocks' = [W EXCEPT ![p] = [@ EXCEPT !.next = occupied_list_heads[now],
                                              !.last_access_time = frame_id[now], !.owner = now]]
      /\ occupied_list_heads' = [occupied_list_heads EXCEPT ![now] = p]
      /\ block_count' = p /\ rows' = Append(rows, c)
  BY DEF TakeFromNewRow, Take
<1>2. /\ m \in Nat /\ k \in Nat /\ k >= 1 /\ p \in Nat /\ p \in (m + 1)..p /\ p \in 1..p /\ m < p
      /\ Len(rows) \in Nat /\ Len(rows') = Len(rows) + 1 /\ rows' \in Seq(Classes)
      /\ rows'[Len(rows) + 1] = c /\ \A r \in 1..Len(rows) : rows'[r] = rows[r]
  BY <1>1, BlockFacts, Constants
<1>3. /\ frame_id[now] \in Nat /\ occupied_list_heads[now] \in 0..m /\ base_epoch \in Epochs
      /\ NoDoc \notin Docs
  BY BlockFacts, Constants DEF TypeOK
<1>4. /\ W = [b \in 1..p |-> W[b]]
      /\ \A b \in 1..m : W[b] = bs[b]
      /\ \A b \in (m + 1)..p :
           W[b] = [at |-> NewAddress(b - m - 1), epoch |-> base_epoch,
                   next |-> IF b = m + 1 THEN None ELSE b - 1,
                   last_access_time |-> frame_id[now], owner |-> NoDoc]
  BY <1>2 DEF WithNewRow
<1> HIDE DEF W, p
<1>5. ASSUME NEW b \in (m + 1)..p
      PROVE  /\ W[b] \in Block /\ W[b].at = <<Len(rows) + 1, b - m - 1>> /\ W[b].epoch = base_epoch
             /\ W[b].next = (IF b = m + 1 THEN None ELSE b - 1) /\ W[b].owner = NoDoc
  <2> DEFINE x == IF b = m + 1 THEN None ELSE b - 1
             y == NewAddress(b - m - 1)
  <2>1. y \in Address /\ y = <<Len(rows) + 1, b - m - 1>>
    BY <1>2 DEF NewAddress, Address
  <2>2. x \in Nat
    BY <1>2 DEF None
  <2>3. W[b] = [at |-> y, epoch |-> base_epoch, next |-> x, last_access_time |-> frame_id[now],
                owner |-> NoDoc]
    BY <1>4
  <2> HIDE DEF x, y
  <2>4. W[b] \in Block /\ W[b].at = y /\ W[b].epoch = base_epoch /\ W[b].next = x /\ W[b].owner = NoDoc
    BY <1>3, <2>1, <2>2, <2>3 DEF Block
  <2> QED  BY <2>1, <2>4 DEF x
<1>6. /\ blocks' = [b \in 1..p |-> blocks'[b]]
      /\ \A b \in 1..p : b # p => blocks'[b] = W[b]
      /\ blocks'[p] = [W[p] EXCEPT !.next = occupied_list_heads[now],
                                   !.last_access_time = frame_id[now], !.owner = now]
  BY <1>1, <1>2, <1>4
<1>7. /\ blocks'[p].at = W[p].at /\ blocks'[p].epoch = W[p].epoch
      /\ blocks'[p].next = occupied_list_heads[now] /\ blocks'[p].owner = now
      /\ blocks'[p].last_access_time = frame_id[now]
      /\ blocks'[p] \in Block
  <2>1. W[p] \in Block /\ occupied_list_heads[now] \in Nat
    BY <1>2, <1>3, <1>5
  <2> QED  BY <1>3, <1>6, <2>1 DEF Block
<1>8. Pushed = p
  BY <1>1 DEF Pushed, TypeOK
<1>9. \A b \in 1..m : /\ b # p /\ b \in 1..p /\ blocks'[b] = bs[b] /\ bs[b] \in Block
                      /\ blocks'[b].at = blocks[b].at /\ blocks'[b].next = blocks[b].next
                      /\ blocks'[b].owner = blocks[b].owner
  <2>1. \A b \in 1..m : b # p /\ b \in 1..p
    BY <1>2
  <2>2. \A b \in 1..m : blocks'[b] = bs[b]
    BY <1>4, <1>6, <2>1
  <2> QED  BY <2>1, <2>2 DEF IsRetired
<1>10. ASSUME NEW b \in (m + 1)..p
       PROVE  /\ blocks'[b].at = <<Len(rows) + 1, b - m - 1>>
              /\ blocks'[b].at[1] = Len(rows) + 1 /\ blocks'[b].at[2] = b - m - 1
              /\ blocks'[b].epoch = base_epoch
              /\ b # p => blocks'[b].owner = NoDoc
                          /\ blocks'[b].next = IF b = m + 1 THEN None ELSE b - 1
  <2>1. b \in 1..p
    BY <1>2
  <2>2. b # p => blocks'[b] = W[b]
    BY <1>6, <2>1
  <2>3. blocks'[b].at = W[b].at /\ blocks'[b].epoch = W[b].epoch
    BY <1>7, <2>2
  <2> QED  BY <1>5, <2>2, <2>3
<1>11. \A b \in 1..p : b \in 1..m \/ b \in (m + 1)..p
  BY <1>2
<1>12. BlockGiven(bs, p)
  <2>1. /\ m \in Nat /\ m <= p /\ p \in 1..p /\ p \notin 1..m
        /\ Len(rows') \in Nat /\ Len(rows) <= Len(rows')
    BY <1>2 DEF p
  <2>2. \A b, d \in (m + 1)..p : blocks'[b].at = blocks'[d].at => b = d
    <3> SUFFICES ASSUME NEW b \in (m + 1)..p, NEW d \in (m + 1)..p, blocks'[b].at = blocks'[d].at
                 PROVE  b = d
      OBVIOUS
    <3>1. b - m - 1 = d - m - 1
      BY <1>10
    <3> QED  BY <1>2, <3>1
  <2> QED  BY <1>1, <1>2, <1>7, <1>9, <1>10, <2>1, <2>2 DEF BlockGiven
<1>13. ListsTyped'
  <2>1. blocks' \in [1..p -> Block]
    <3>1. \A b \in 1..p : blocks'[b] \in Block
      BY <1>4, <1>5, <1>6, <1>7, <1>9, <1>11
    <3> QED  BY <1>6, <3>1
  <2>2. W[p].next \in 0..p
    BY <1>2, <1>5 DEF None
  <2>3. free_lists' \in [Classes -> 0..p]
    <3>1. free_lists \in [Classes -> 0..p]
      BY <1>2 DEF TypeOK, p
    <3> QED  BY <1>1, <2>2, <3>1
  <2>4. occupied_list_heads' \in [Docs -> 0..p]
    <3>1. occupied_list_heads \in [Docs -> 0..p] /\ p \in 0..p
      BY <1>2 DEF TypeOK, p
    <3> QED  BY <1>1, <3>1
  <2>5. \A b \in 1..p : blocks'[b].next \in 0..p
    <3> SUFFICES ASSUME NEW b \in 1..p PROVE blocks'[b].next \in 0..p
      OBVIOUS
    <3>0. \A n \in 0..m : n \in 0..p
      BY <1>2 DEF p
    <3>1. CASE b \in 1..m
      <4>1. blocks[b].next \in 0..m
        BY <3>1, BlockFacts
      <4> QED  BY <1>9, <3>0, <3>1, <4>1
    <3>2. CASE b = p
      BY <1>3, <1>7, <3>0, <3>2
    <3>3. CASE b \in (m + 1)..p /\ b # p
      <4>1. b - 1 \in 0..p
        BY <1>2, <3>3
      <4> QED  BY <1>2, <1>10, <3>3, <4>1 DEF None
    <3> QED  BY <1>11, <3>1, <3>2, <3>3
  <2> QED  BY <1>1, <1>2, <2>1, <2>3, <2>4, <2>5 DEF ListsTyped
<1>14. /\ \A x \in Classes : FreeSet(x) \in SUBSET (Nat \ {0}) /\ FreeSet(x) \subseteq 1..m
       /\ \A d \in Docs : OccupiedSet(d) \in SUBSET (Nat \ {0}) /\ OccupiedSet(d) \subseteq 1..m
  BY <1>2 DEF FreeSet, OccupiedSet
<1>15. \A b \in 1..m : blocks[b].at[1] \in 1..Len(rows) /\ rows'[blocks'[b].at[1]] = rows[blocks[b].at[1]]
  BY <1>2, <1>9, BlockFacts
<1>16. ChainsOK'
  <2>1. ASSUME NEW x \in Classes PROVE Chained(blocks', free_lists'[x], FreeSet(x)')
    <3>1. \A b \in 1..m : b \in FreeSet(x)' <=> b \in FreeSet(x)
      BY <1>1, <1>9, <1>15 DEF FreeSet, Free
    <3>2. \A b \in (m + 1)..p : b \in FreeSet(x)' <=> x = c /\ b # p
      <4>1. \A b \in (m + 1)..p : b \in 1..p
        BY <1>2
      <4> QED  BY <1>1, <1>2, <1>3, <1>7, <1>10, <4>1 DEF FreeSet, Free
    <3>3. \A b \in FreeSet(x)' : b \in 1..p
      BY <1>1 DEF FreeSet
    <3>4. CASE x = c
      <4>1. FreeSet(c) = {}
        <5>1. Chained(blocks, free_lists[c], FreeSet(c))
          BY DEF ChainsOK
        <5> QED  BY <1>1, <1>14, <5>1, ChainHead
      <4>2. FreeSet(x)' = ((m + 1)..p) \ {p}
        BY <1>11, <3>1, <3>2, <3>3, <3>4, <4>1
      <4>3. Chained(W, p, (m + 1)..p)
        <5>1. \A b \in (m + 1)..(m + k) : W[b].next = IF b = m + 1 THEN None ELSE b - 1
          BY <1>5 DEF p
        <5> HIDE DEF k, m
        <5>2. k \in Nat \ {0}
          BY <1>2
        <5>3. Chained(W, m + k, (m + 1)..(m + k))
          BY <1>2, <5>1, <5>2, ChainNewRow
        <5> QED  BY <5>3 DEF p
      <4>4. \A b \in ((m + 1)..p) \ {p} : blocks'[b].next = W[b].next
        <5>1. \A b \in (m + 1)..p : b \in 1..p
          BY <1>2
        <5> QED  BY <1>6, <5>1
      <4>5. (m + 1)..p \in SUBSET (Nat \ {0}) /\ p # None
        BY <1>2 DEF None
      <4>6. Chained(blocks', W[p].next, ((m + 1)..p) \ {p})
        BY <4>3, <4>4, <4>5, ChainPop
      <4>7. free_lists'[x] = W[p].next
        BY <1>1, <3>4 DEF TypeOK
      <4> QED  BY <4>2, <4>6, <4>7
    <3>5. CASE x # c
      <4>1. FreeSet(x)' = FreeSet(x)
        BY <1>11, <1>14, <3>1, <3>2, <3>3, <3>5
      <4>2. free_lists'[x] = free_lists[x]
        BY <1>1, <3>5 DEF TypeOK
      <4>3. \A b \in FreeSet(x) : blocks'[b].next = blocks[b].next
        BY <1>9, <1>14
      <4>4. Chained(blocks, free_lists[x], FreeSet(x))
        BY DEF ChainsOK
      <4>5. Chained(blocks', free_lists[x], FreeSet(x))
        BY <4>3, <4>4, ChainSame
      <4> QED  BY <4>1, <4>2, <4>5
    <3> QED  BY <3>4, <3>5
  <2>2. ASSUME NEW d \in Docs PROVE Chained(blocks', occupied_list_heads'[d], OccupiedSet(d)')
    <3>1. p \notin OccupiedSet(d) /\ \A x \in OccupiedSet(d) : blocks'[x].next = blocks[x].next
      BY <1>9, <1>14
    <3>2. \A b \in 1..m : b \in OccupiedSet(d)' <=> b \in OccupiedSet(d)
      BY <1>1, <1>9 DEF OccupiedSet, Owned
    <3>3. \A b \in (m + 1)..p : b \in OccupiedSet(d)' <=> d = now /\ b = p
      <4>1. \A b \in (m + 1)..p : b \in 1..p
        BY <1>2
      <4> QED  BY <1>1, <1>3, <1>7, <1>10, <4>1 DEF OccupiedSet, Owned
    <3>4. \A b \in OccupiedSet(d)' : b \in 1..p
      BY <1>1 DEF OccupiedSet
    <3>5. Chained(blocks, occupied_list_heads[d], OccupiedSet(d))
      BY DEF ChainsOK
    <3>6. CASE d = now
      <4>1. occupied_list_heads'[d] = p
        BY <1>1, <3>6 DEF TypeOK
      <4>2. OccupiedSet(d)' = OccupiedSet(d) \cup {p}
        BY <1>2, <1>11, <1>14, <3>2, <3>3, <3>4, <3>6
      <4>3. Chained(blocks', p, OccupiedSet(d) \cup {p})
        BY <1>7, <3>1, <3>5, <3>6, ChainPush
      <4> QED  BY <4>1, <4>2, <4>3
    <3>7. CASE d # now
      <4>1. occupied_list_heads'[d] = occupied_list_heads[d]
        BY <1>1, <3>7 DEF TypeOK
      <4>2. OccupiedSet(d)' = OccupiedSet(d)
        BY <1>11, <1>14, <3>2, <3>3, <3>4, <3>7
      <4>3. Chained(blocks', occupied_list_heads[d], OccupiedSet(d))
        BY <3>1, <3>5, ChainSame
      <4> QED  BY <4>1, <4>2, <4>3
    <3> QED  BY <3>6, <3>7
  <2> QED  BY <2>1, <2>2 DEF ChainsOK
<1>17. p \notin 1..m
  BY <1>2 DEF p
<1> QED  BY <1>8, <1>12, <1>13, <1>16, <1>17

LEMMA DataGiven ==
  ASSUME BasicInv, now \in Docs, NEW bs, NEW e, IsRetired(bs, e), NEW c \in Classes,
         PushData(bs, c)
  PROVE  BlockGiven(bs, Pushed) /\ ListsTyped' /\ ChainsOK'
BY FreePushed, NewRowPushed DEF PushData

(* What push_data and advance_epoch do to a block that there was before.   *)
OldBlock(b) ==
  /\ b \in 1..block_count' /\ blocks'[b].at = blocks[b].at
  /\ blocks'[b].epoch \in Int /\ blocks[b].epoch <= blocks'[b].epoch /\ blocks'[b].epoch <= max_epoch'
  /\ b # Pushed => /\ blocks'[b].owner = blocks[b].owner
                   /\ blocks'[b].last_access_time = blocks[b].last_access_time
  /\ b = Pushed => Free(b)

LEMMA GivenOld ==
  ASSUME BasicInv, NEW bs, IsRetired(bs, max_epoch'), BlockGiven(bs, Pushed)
  PROVE  /\ \A b \in 1..block_count : OldBlock(b) /\ blocks'[b].epoch = bs[b].epoch
         /\ Pushed \in 1..block_count'
         /\ \A b \in 1..block_count' : b \in 1..block_count \/ b \in (block_count + 1)..block_count'
<1>1. block_count \in Nat /\ block_count' \in Nat /\ block_count <= block_count'
  BY BlockFacts DEF BlockGiven, BasicInv
<1>2. ASSUME NEW b \in 1..block_count PROVE OldBlock(b) /\ blocks'[b].epoch = bs[b].epoch
  <2>1. b \in 1..block_count'
    BY <1>1
  <2>2. CASE b # Pushed
    <3>1. blocks'[b] = bs[b]
      BY <2>2 DEF BlockGiven
    <3> QED  BY <2>1, <2>2, <3>1 DEF OldBlock, IsRetired
  <2>3. CASE b = Pushed
    <3>1. Free(b) /\ blocks'[b].at = bs[b].at /\ blocks'[b].epoch = bs[b].epoch
      BY <2>3 DEF BlockGiven
    <3> QED  BY <2>1, <2>3, <3>1 DEF OldBlock, IsRetired
  <2> QED  BY <2>2, <2>3
<1>3. Pushed \in 1..block_count'
  BY DEF BlockGiven
<1> QED  BY <1>1, <1>2, <1>3

(* The handles H now refer to the block given, the others to what they did.*)
Located(H) ==
  /\ H \in SUBSET Handles /\ \A g, h \in H : g = h
  /\ \A g \in Handles \ H : location'[g] = location[g]
  /\ \A g \in H : now \in Users[g]
                  /\ location'[g] = [block |-> Pushed, epoch |-> blocks'[Pushed].epoch]

LEMMA GivenValid ==
  ASSUME BasicInv, now \in Docs, NEW bs, IsRetired(bs, max_epoch'), BlockGiven(bs, Pushed),
         NEW H, Located(H)
  PROVE  /\ \A g \in Handles \ H : Valid(g)' =>
              /\ Valid(g) /\ location[g].block # Pushed /\ location[g].block \in 1..block_count
              /\ blocks'[location[g].block].at = blocks[location[g].block].at
              /\ bs[location[g].block].epoch = blocks[location[g].block].epoch
         /\ \A g \in H : Valid(g)' /\ location'[g].block = Pushed
<1> USE DEF BasicInv
<1>1. /\ \A b \in 1..block_count : OldBlock(b) /\ blocks'[b].epoch = bs[b].epoch
      /\ Pushed \in 1..block_count'
      /\ \A b \in 1..block_count' : b \in 1..block_count \/ b \in (block_count + 1)..block_count'
  BY GivenOld
<1>2. ASSUME NEW g \in Handles \ H, Valid(g)'
      PROVE  /\ Valid(g) /\ location[g].block # Pushed /\ location[g].block \in 1..block_count
             /\ blocks'[location[g].block].at = blocks[location[g].block].at
             /\ bs[location[g].block].epoch = blocks[location[g].block].epoch
  <2> DEFINE k == location[g]
  <2>1. location'[g] = k /\ k.block \in 1..block_count' /\ blocks'[k.block].epoch = k.epoch
    BY <1>2 DEF Valid, Located
  <2>2. k.epoch \in Nat /\ k.epoch <= max_epoch /\ base_epoch \in Nat
    BY BlockFacts, Constants DEF BlocksOK
  <2>3. k.epoch >= base_epoch
    <3>1. CASE k.block \in 1..block_count
      <4>1. blocks[k.block].epoch >= base_epoch /\ blocks[k.block].epoch \in Nat
        BY <3>1, BlockFacts
      <4>2. blocks[k.block].epoch <= k.epoch
        BY <1>1, <2>1, <3>1 DEF OldBlock
      <4> QED  BY <2>2, <4>1, <4>2
    <3>2. CASE k.block \in (block_count + 1)..block_count'
      BY <2>1, <2>2, <3>2 DEF BlockGiven
    <3> QED  BY <1>1, <2>1, <3>1, <3>2
  <2>4. k.block # None
    BY <2>1 DEF None
  <2>5. /\ k.block \in 1..block_count /\ k.epoch <= blocks[k.block].epoch
        /\ k.epoch = blocks[k.block].epoch => blocks[k.block].owner \in Users[g]
    BY <2>3, <2>4 DEF BlocksOK
  <2>6. OldBlock(k.block) /\ blocks'[k.block].epoch = bs[k.block].epoch /\ blocks[k.block].epoch \in Nat
    BY <1>1, <2>5, BlockFacts
  <2>7. blocks[k.block].epoch = k.epoch
    BY <2>1, <2>2, <2>5, <2>6 DEF OldBlock
  <2>8. k.block # Pushed
    BY <2>5, <2>6, <2>7, Constants DEF OldBlock, Free
  <2> QED  BY <2>1, <2>5, <2>6, <2>7, <2>8 DEF Valid, OldBlock
<1>3. ASSUME NEW g \in H PROVE Valid(g)' /\ location'[g].block = Pushed
  BY <1>1 DEF Valid, Located
<1> QED  BY <1>2, <1>3

LEMMA GivenBlocks ==
  ASSUME BasicInv, now \in Docs, NEW bs, IsRetired(bs, max_epoch'), BlockGiven(bs, Pushed),
         NEW H, Located(H), ListsTyped', base_epoch' = base_epoch,
         max_epoch' \in Nat, max_epoch <= max_epoch'
  PROVE  /\ BlocksOK'
         /\ \A g \in Handles \ H : Valid(g)' => Valid(g) /\ HandleAt(g)' = HandleAt(g) /\ HandleAt(g) # PushedAt
         /\ \A g \in H : Valid(g)' /\ HandleAt(g)' = PushedAt
<1> USE DEF BasicInv
<1>1. /\ \A b \in 1..block_count : OldBlock(b) /\ blocks'[b].epoch = bs[b].epoch
      /\ Pushed \in 1..block_count'
      /\ \A b \in 1..block_count' : b \in 1..block_count \/ b \in (block_count + 1)..block_count'
  BY GivenOld
<1>2. /\ \A g \in Handles \ H : Valid(g)' =>
           /\ Valid(g) /\ location[g].block # Pushed /\ location[g].block \in 1..block_count
           /\ blocks'[location[g].block].at = blocks[location[g].block].at
      /\ \A g \in H : Valid(g)' /\ location'[g].block = Pushed
  BY GivenValid
<1>3. /\ block_count \in Nat /\ block_count' \in Nat /\ Len(rows) \in Nat /\ Len(rows') \in Nat
      /\ Len(rows) <= Len(rows') /\ base_epoch \in Nat /\ max_epoch \in Nat /\ base_epoch <= max_epoch
  BY BlockFacts DEF BlockGiven
<1>4. ASSUME NEW b \in 1..block_count'
      PROVE  /\ blocks'[b].at[1] \in 1..Len(rows')
             /\ blocks'[b].epoch \in base_epoch..max_epoch'
             /\ blocks'[b].next \in 0..block_count'
  <2>1. blocks'[b].next \in 0..block_count'
    BY DEF ListsTyped
  <2>2. CASE b \in 1..block_count
    <3>1. blocks[b].at[1] \in 1..Len(rows) /\ blocks[b].epoch \in Nat /\ base_epoch <= blocks[b].epoch
      BY <2>2, BlockFacts
    <3>2. blocks'[b].at[1] = blocks[b].at[1] /\ blocks'[b].epoch \in Int
          /\ blocks[b].epoch <= blocks'[b].epoch /\ blocks'[b].epoch <= max_epoch'
      BY <1>1, <2>2 DEF OldBlock
    <3> QED  BY <1>3, <2>1, <3>1, <3>2
  <2>3. CASE b \in (block_count + 1)..block_count'
    BY <1>3, <2>1, <2>3 DEF BlockGiven
  <2> QED  BY <1>1, <2>2, <2>3
<1>5. ASSUME NEW b \in 1..block_count', NEW c \in 1..block_count', blocks'[b].at = blocks'[c].at
      PROVE  b = c
  <2>1. ASSUME NEW x \in 1..block_count PROVE blocks'[x].at[1] <= Len(rows)
    <3>1. blocks'[x].at = blocks[x].at
      BY <1>1 DEF OldBlock
    <3>2. blocks[x].at[1] \in 1..Len(rows) /\ Len(rows) \in Nat
      BY BlockFacts
    <3> QED  BY <3>1, <3>2
  <2>2. \A x \in (block_count + 1)..block_count' : blocks'[x].at[1] = Len(rows) + 1
    BY DEF BlockGiven
  <2>3. CASE b \in 1..block_count /\ c \in 1..block_count
    BY <1>1, <1>5, <2>3 DEF OldBlock, BlocksOK
  <2>4. CASE b \in (block_count + 1)..block_count' /\ c \in (block_count + 1)..block_count'
    BY <1>5, <2>4 DEF BlockGiven
  <2>5. CASE b \in 1..block_count /\ c \in (block_count + 1)..block_count'
    BY <1>3, <1>5, <2>1, <2>2, <2>5
  <2>6. CASE c \in 1..block_count /\ b \in (block_count + 1)..block_count'
    BY <1>3, <1>5, <2>1, <2>2, <2>6
  <2> QED  BY <1>1, <2>3, <2>4, <2>5, <2>6
<1>6. ASSUME NEW h \in Handles
      PROVE  LET k == location'[h] IN
             /\ k.epoch <= max_epoch'
             /\ k.block # None /\ k.epoch >= base_epoch =>
                  /\ k.block \in 1..block_count' /\ k.epoch <= blocks'[k.block].epoch
                  /\ k.epoch = blocks'[k.block].epoch => blocks'[k.block].owner \in Users[h]
  <2>1. CASE h \in H
    <3>1. location'[h] = [block |-> Pushed, epoch |-> blocks'[Pushed].epoch] /\ now \in Users[h]
      BY <2>1 DEF Located
    <3>2. location'[h].block = Pushed /\ location'[h].epoch = blocks'[Pushed].epoch
      BY <3>1
    <3>3. blocks'[Pushed].owner = now /\ blocks'[Pushed].epoch \in base_epoch..max_epoch'
      BY <1>1, <1>4 DEF BlockGiven
    <3> QED  BY <1>1, <1>3, <3>1, <3>2, <3>3
  <2>2. CASE h \notin H
    <3> DEFINE k == location[h]
    <3>1. location'[h] = k /\ k.epoch \in Nat /\ k.epoch <= max_epoch
      BY <2>2, BlockFacts DEF Located, BlocksOK
    <3>2. ASSUME k.block # None, k.epoch >= base_epoch
          PROVE  /\ k.block \in 1..block_count' /\ k.epoch <= blocks'[k.block].epoch
                 /\ k.epoch = blocks'[k.block].epoch => blocks'[k.block].owner \in Users[h]
      <4>1. /\ k.block \in 1..block_count /\ k.epoch <= blocks[k.block].epoch
            /\ k.epoch = blocks[k.block].epoch => blocks[k.block].owner \in Users[h]
        BY <3>2 DEF BlocksOK
      <4>2. OldBlock(k.block) /\ blocks[k.block].epoch \in Nat
        BY <1>1, <4>1, BlockFacts
      <4>3. k.block # Pushed \/ k.epoch # blocks'[k.block].epoch
        <5>1. ASSUME k.epoch = blocks'[k.block].epoch PROVE Valid(h)'
          BY <3>1, <4>2, <5>1 DEF Valid, OldBlock
        <5> QED  BY <1>2, <2>2, <5>1
      <4> QED  BY <3>1, <4>1, <4>2, <4>3 DEF OldBlock
    <3> HIDE DEF k
    <3> QED  BY <1>3, <3>1, <3>2
  <2> QED  BY <2>1, <2>2
<1>7. ASSUME NEW g \in Handles, NEW h \in Handles, Valid(g)', Valid(h)', location'[g].block = location'[h].block
      PROVE  g = h
  <2>1. CASE g \in H /\ h \in H
    BY <2>1 DEF Located
  <2>2. CASE g \notin H /\ h \notin H
    BY <1>2, <1>7, <2>2 DEF Located, BlocksOK
  <2>3. CASE g \in H /\ h \notin H
    BY <1>2, <1>7, <2>3 DEF Located
  <2>4. CASE g \notin H /\ h \in H
    BY <1>2, <1>7, <2>4 DEF Located
  <2> QED  BY <2>1, <2>2, <2>3, <2>4
<1>8. BlocksOK'
  BY <1>4, <1>5, <1>6, <1>7 DEF BlocksOK
<1>9. ASSUME NEW g \in Handles \ H, Valid(g)'
      PROVE  Valid(g) /\ HandleAt(g)' = HandleAt(g) /\ HandleAt(g) # PushedAt
  <2>1. /\ Valid(g) /\ location[g].block # Pushed /\ location[g].block \in 1..block_count
        /\ blocks'[location[g].block].at = blocks[location[g].block].at
        /\ location'[g] = location[g]
    BY <1>2, <1>9 DEF Located
  <2>2. location[g].block \in 1..block_count'
    <3> HIDE DEF Valid
    <3> QED  BY <1>1, <2>1 DEF OldBlock
  <2> QED  BY <1>1, <1>5, <2>1, <2>2 DEF HandleAt, PushedAt
<1>10. \A g \in H : Valid(g)' /\ HandleAt(g)' = PushedAt
  BY <1>2 DEF HandleAt, PushedAt, Located
<1> QED  BY <1>8, <1>9, <1>10

LEMMA ChainNext ==
  ASSUME NEW bs, NEW head, NEW S \in SUBSET (Nat \ {0}), Chained(bs, head, S), NEW b \in S
  PROVE  bs[b].next = None \/ bs[b].next \in S \ {b}
<1>1. PICK n, s : n \in Nat /\ s \in [1..n -> S] /\ IsChain(bs, head, S, n, s)
  BY ChainPicked
<1>2. PICK i \in 1..n : s[i] = b
  BY <1>1 DEF IsChain
<1>3. bs[b].next = Place(s, n, i + 1)
  BY <1>1, <1>2 DEF IsChain
<1>4. CASE i = n
  BY <1>1, <1>3, <1>4 DEF Place
<1>5. CASE i # n
  <2>1. i + 1 \in 1..n /\ i + 1 # i
    BY <1>1, <1>5
  <2>2. s[i + 1] # b
    BY <1>1, <1>2, <2>1 DEF IsChain
  <2> QED  BY <1>1, <1>3, <2>1, <2>2 DEF Place
<1> QED  BY <1>4, <1>5

(* Blocks that stay on their lists.                                        *)
StaysPut ==
  /\ UNCHANGED <<block_count, rows, free_lists, occupied_list_heads, location, base_epoch>>
  /\ blocks' \in [1..block_count -> Block]
  /\ \A b \in 1..block_count :
       /\ blocks'[b].at = blocks[b].at /\ blocks'[b].next = blocks[b].next
       /\ blocks'[b].owner = blocks[b].owner
       /\ blocks[b].epoch <= blocks'[b].epoch /\ blocks'[b].epoch <= max_epoch'
  /\ max_epoch <= max_epoch'

LEMMA SameLists ==
  ASSUME BasicInv, StaysPut, max_epoch' \in Nat
  PROVE  /\ ListsTyped' /\ ChainsOK' /\ BlocksOK'
         /\ \A g \in Handles : Valid(g)' => Valid(g) /\ HandleAt(g)' = HandleAt(g)
<1> USE DEF BasicInv
<1>1. /\ block_count' = block_count /\ rows' = rows /\ free_lists' = free_lists
      /\ occupied_list_heads' = occupied_list_heads /\ location' = location /\ base_epoch' = base_epoch
  BY DEF StaysPut
<1>2. ListsTyped'
  BY <1>1, BlockFacts DEF ListsTyped, StaysPut, TypeOK
<1>3. ASSUME NEW b \in 1..block_count
      PROVE  /\ blocks'[b].at = blocks[b].at /\ blocks'[b].next = blocks[b].next
             /\ blocks'[b].owner = blocks[b].owner /\ blocks'[b].epoch \in Nat
             /\ blocks[b].epoch <= blocks'[b].epoch /\ blocks'[b].epoch <= max_epoch'
             /\ blocks[b].epoch \in Nat /\ base_epoch <= blocks[b].epoch
  <2>1. blocks'[b] \in Block
    BY DEF StaysPut
  <2>2. blocks'[b].epoch \in Nat
    BY <2>1, Constants DEF Block, Epochs
  <2> QED  BY <2>2, BlockFacts DEF StaysPut
<1>4. ChainsOK'
  <2>1. \A c \in Classes : FreeSet(c)' = FreeSet(c) /\ \A b \in FreeSet(c) : b \in 1..block_count
    BY <1>1, <1>3 DEF FreeSet, Free
  <2>2. \A d \in Docs : OccupiedSet(d)' = OccupiedSet(d) /\ \A b \in OccupiedSet(d) : b \in 1..block_count
    BY <1>1, <1>3 DEF OccupiedSet, Owned
  <2>3. ASSUME NEW c \in Classes PROVE Chained(blocks', free_lists'[c], FreeSet(c)')
    <3>1. Chained(blocks, free_lists[c], FreeSet(c)) /\ \A b \in FreeSet(c) : blocks'[b].next = blocks[b].next
      BY <1>3, <2>1 DEF ChainsOK
    <3>2. Chained(blocks', free_lists[c], FreeSet(c))
      BY <3>1, ChainSame
    <3> QED  BY <1>1, <2>1, <3>2
  <2>4. ASSUME NEW d \in Docs PROVE Chained(blocks', occupied_list_heads'[d], OccupiedSet(d)')
    <3>1. Chained(blocks, occupied_list_heads[d], OccupiedSet(d))
          /\ \A b \in OccupiedSet(d) : blocks'[b].next = blocks[b].next
      BY <1>3, <2>2 DEF ChainsOK
    <3>2. Chained(blocks', occupied_list_heads[d], OccupiedSet(d))
      BY <3>1, ChainSame
    <3> QED  BY <1>1, <2>2, <3>2
  <2> QED  BY <2>3, <2>4 DEF ChainsOK
<1>5. ASSUME NEW g \in Handles, Valid(g)'
      PROVE  Valid(g) /\ HandleAt(g)' = HandleAt(g) /\ location[g].block \in 1..block_count
  <2> DEFINE k == location[g]
  <2>1. k.block \in 1..block_count /\ blocks'[k.block].epoch = k.epoch
    BY <1>1, <1>5 DEF Valid
  <2>2. k.epoch \in Nat /\ k.block # None /\ base_epoch \in Nat
    BY <2>1, BlockFacts DEF None
  <2>3. k.epoch >= base_epoch
    BY <1>3, <2>1, <2>2
  <2>4. k.epoch <= blocks[k.block].epoch
    BY <2>2, <2>3 DEF BlocksOK
  <2>5. blocks[k.block].epoch = k.epoch
    BY <1>3, <2>1, <2>2, <2>4
  <2> QED  BY <1>1, <1>3, <2>1, <2>5 DEF Valid, HandleAt
<1>6. BlocksOK'
  <2>0. base_epoch \in Nat /\ max_epoch \in Nat /\ max_epoch <= max_epoch'
    BY BlockFacts DEF StaysPut
  <2>1. \A b \in 1..block_count' :
          /\ blocks'[b].at[1] \in 1..Len(rows')
          /\ blocks'[b].epoch \in base_epoch'..max_epoch'
          /\ blocks'[b].next \in 0..block_count'
    <3> SUFFICES ASSUME NEW b \in 1..block_count
                 PROVE  /\ blocks'[b].at[1] \in 1..Len(rows)
                        /\ blocks'[b].epoch \in base_epoch..max_epoch'
                        /\ blocks'[b].next \in 0..block_count
      BY <1>1
    <3>1. blocks[b].at[1] \in 1..Len(rows) /\ blocks[b].next \in 0..block_count
      BY BlockFacts
    <3>2. blocks'[b].at = blocks[b].at /\ blocks'[b].next = blocks[b].next
      BY <1>3
    <3>3. blocks'[b].epoch \in Nat /\ base_epoch <= blocks'[b].epoch /\ blocks'[b].epoch <= max_epoch'
      BY <1>3, <2>0
    <3> QED  BY <2>0, <3>1, <3>2, <3>3
  <2>2. \A b, c \in 1..block_count' : blocks'[b].at = blocks'[c].at => b = c
    BY <1>1, <1>3 DEF BlocksOK
  <2>3. ASSUME NEW h \in Handles
        PROVE  LET k == location[h] IN
               /\ k.epoch <= max_epoch'
               /\ k.block # None /\ k.epoch >= base_epoch =>
                    /\ k.block \in 1..block_count' /\ k.epoch <= blocks'[k.block].epoch
                    /\ k.epoch = blocks'[k.block].epoch => blocks'[k.block].owner \in Users[h]
    <3> DEFINE k == location[h]
    <3>1. k.epoch \in Nat /\ k.epoch <= max_epoch
      BY BlockFacts DEF BlocksOK
    <3>2. ASSUME k.block # None, k.epoch >= base_epoch
          PROVE  /\ k.block \in 1..block_count' /\ k.epoch <= blocks'[k.block].epoch
                 /\ k.epoch = blocks'[k.block].epoch => blocks'[k.block].owner \in Users[h]
      <4>1. /\ k.block \in 1..block_count /\ k.epoch <= blocks[k.block].epoch
            /\ k.epoch = blocks[k.block].epoch => blocks[k.block].owner \in Users[h]
        BY <3>2 DEF BlocksOK
      <4> QED  BY <1>1, <1>3, <3>1, <4>1
    <3>3. k.epoch <= max_epoch'
      BY <2>0, <3>1
    <3> QED  BY <3>2, <3>3
  <2>4. \A g, h \in Handles : Valid(g)' /\ Valid(h)' /\ location'[g].block = location'[h].block => g = h
    BY <1>1, <1>5 DEF BlocksOK
  <2> QED  BY <1>1, <2>1, <2>2, <2>3, <2>4 DEF BlocksOK
<1> QED  BY <1>2, <1>4, <1>5, <1>6

LEMMA RetiredIs ==
  ASSUME BasicInv, NEW h \in Handles, RetiredMax(h) <= MaxEpoch
  PROVE  /\ IsRetired(Retired(h), RetiredMax(h)) /\ RetiredMax(h) \in Nat /\ max_epoch <= RetiredMax(h)
         /\ Valid(h) => Retired(h)[location[h].block].epoch = blocks[location[h].block].epoch + 1
<1> USE DEF BasicInv
<1>1. /\ max_epoch \in Nat /\ max_epoch <= MaxEpoch /\ blocks \in [1..block_count -> Block] /\ MaxEpoch \in Nat
      /\ \A b \in 1..block_count : blocks[b].epoch \in Nat /\ blocks[b].epoch <= max_epoch
  BY BlockFacts, Constants DEF TypeOK
<1>2. CASE ~Valid(h)
  BY <1>1, <1>2 DEF IsRetired, Retired, RetiredMax
<1>3. CASE Valid(h)
  <2> DEFINE k == location[h].block
             bs == Retired(h)
             e == RetiredMax(h)
  <2>1. k \in 1..block_count
    BY <1>3 DEF Valid
  <2>2. bs = [blocks EXCEPT ![k] = Advanced(k)] /\ e = MaxAfter(k)
    BY <1>3 DEF Retired, RetiredMax
  <2>3. e \in Nat /\ max_epoch <= e /\ blocks[k].epoch + 1 <= e
    BY <1>1, <2>1, <2>2 DEF MaxAfter
  <2>4. blocks[k] \in Block /\ blocks[k].epoch + 1 \in Epochs
    BY <1>1, <2>1, <2>3 DEF Epochs
  <2>5. /\ Advanced(k) \in Block /\ Advanced(k).epoch = blocks[k].epoch + 1
        /\ Advanced(k).at = blocks[k].at /\ Advanced(k).next = blocks[k].next
        /\ Advanced(k).owner = blocks[k].owner /\ Advanced(k).last_access_time = blocks[k].last_access_time
    <3> HIDE DEF k
    <3> QED  BY <2>4 DEF Advanced, Block
  <2>6. bs \in [1..block_count -> Block] /\ bs[k] = Advanced(k) /\ \A b \in 1..block_count : b # k => bs[b] = blocks[b]
    <3> HIDE DEF k, bs
    <3> QED  BY <1>1, <2>1, <2>2, <2>5
  <2>7. \A b \in 1..block_count :
          /\ bs[b].at = blocks[b].at /\ bs[b].next = blocks[b].next /\ bs[b].owner = blocks[b].owner
          /\ bs[b].last_access_time = blocks[b].last_access_time
          /\ bs[b].epoch \in Int /\ blocks[b].epoch <= bs[b].epoch /\ bs[b].epoch <= e
    <3> HIDE DEF k, bs, e
    <3> QED  BY <1>1, <2>1, <2>3, <2>5, <2>6
  <2>8. IsRetired(bs, e)
    BY <2>6, <2>7 DEF IsRetired
  <2> QED  BY <2>3, <2>5, <2>6, <2>8
<1> QED  BY <1>2, <1>3

LEMMA KeptIsRetired ==
  ASSUME BasicInv
  PROVE  IsRetired(blocks, max_epoch)
BY BlockFacts DEF IsRetired, BasicInv, TypeOK

LEMMA InvalidateStays ==
  ASSUME BasicInv, NEW h \in Handles, max_epoch' = RetiredMax(h), max_epoch' <= MaxEpoch,
         blocks' = Retired(h), UNCHANGED <<block_count, rows, free_lists, occupied_list_heads, location, base_epoch>>
  PROVE  StaysPut /\ ~Valid(h)' /\ max_epoch' \in Nat
<1>1. /\ IsRetired(Retired(h), RetiredMax(h)) /\ RetiredMax(h) \in Nat /\ max_epoch <= RetiredMax(h)
      /\ Valid(h) => Retired(h)[location[h].block].epoch = blocks[location[h].block].epoch + 1
  BY RetiredIs
<1>2. StaysPut
  BY <1>1 DEF StaysPut, IsRetired
<1>3. ~Valid(h)'
  <2>1. CASE Valid(h)
    <3>1. location[h].block \in 1..block_count /\ blocks[location[h].block].epoch = location[h].epoch
      BY <2>1 DEF Valid
    <3>2. location[h].epoch \in Nat
      BY BlockFacts DEF BasicInv
    <3> QED  BY <1>1, <2>1, <3>1, <3>2 DEF Valid
  <2>2. CASE ~Valid(h)
    BY <2>2 DEF Valid, Retired
  <2> QED  BY <2>1, <2>2
<1> QED  BY <1>1, <1>2, <1>3

LEMMA TouchStays ==
  ASSUME BasicInv, now \in Docs, NEW h \in Handles, Touch(h), UNCHANGED <<base_epoch, max_epoch>>
  PROVE  /\ StaysPut /\ max_epoch' \in Nat
         /\ location[h].block \in 1..block_count
         /\ blocks'[location[h].block].last_access_time = frame_id[now]
         /\ \A b \in 1..block_count : b # location[h].block => blocks'[b] = blocks[b]
<1> USE DEF BasicInv
<1> DEFINE k == location[h].block
<1>1. k \in 1..block_count /\ blocks \in [1..block_count -> Block] /\ frame_id[now] \in Nat
      /\ max_epoch \in Nat
      /\ \A b \in 1..block_count : blocks[b].epoch \in Nat /\ blocks[b].epoch <= max_epoch
  BY BlockFacts DEF Touch, Valid, TypeOK
<1>2. blocks' = [blocks EXCEPT ![k] = [@ EXCEPT !.last_access_time = frame_id[now]]]
  BY DEF Touch
<1>3. UNCHANGED <<block_count, rows, free_lists, occupied_list_heads, location, base_epoch>>
  BY DEF Touch
<1> HIDE DEF k
<1>4. /\ \A b \in 1..block_count : b # k => blocks'[b] = blocks[b]
      /\ blocks'[k] = [blocks[k] EXCEPT !.last_access_time = frame_id[now]] /\ blocks[k] \in Block
  BY <1>1, <1>2
<1>5. /\ blocks'[k] \in Block /\ blocks'[k].at = blocks[k].at /\ blocks'[k].next = blocks[k].next
      /\ blocks'[k].owner = blocks[k].owner /\ blocks'[k].epoch = blocks[k].epoch
      /\ blocks'[k].last_access_time = frame_id[now]
  BY <1>1, <1>4 DEF Block
<1>6. blocks' \in [1..block_count -> Block]
  BY <1>1, <1>2, <1>4, <1>5
<1>7. \A b \in 1..block_count :
        /\ blocks'[b].at = blocks[b].at /\ blocks'[b].next = blocks[b].next
        /\ blocks'[b].owner = blocks[b].owner
        /\ blocks[b].epoch <= blocks'[b].epoch /\ blocks'[b].epoch <= max_epoch
  <2> SUFFICES ASSUME NEW b \in 1..block_count
               PROVE  /\ blocks'[b].at = blocks[b].at /\ blocks'[b].next = blocks[b].next
                      /\ blocks'[b].owner = blocks[b].owner /\ blocks'[b].epoch = blocks[b].epoch
    BY <1>1
  <2>1. CASE b = k
    BY <1>5, <2>1
  <2>2. CASE b # k
    BY <1>4, <2>2
  <2> QED  BY <2>1, <2>2
<1> QED  BY <1>1, <1>3, <1>4, <1>5, <1>6, <1>7 DEF StaysPut, k

LEMMA EvictedLists ==
  ASSUME BasicInv, EvictOld
  PROVE  /\ ListsTyped' /\ ChainsOK' /\ BlocksOK' /\ LoopOK' /\ current_block' \in 0..block_count
         /\ max_epoch' \in Nat /\ max_epoch <= max_epoch'
         /\ \A i \in 1..block_count :
              /\ blocks'[i].at = blocks[i].at /\ blocks'[i].last_access_time = blocks[i].last_access_time
              /\ i # current_block => blocks'[i].owner = blocks[i].owner
         /\ current_block \in 1..block_count /\ Owned(current_block, now) /\ Old(current_block)
         /\ now \in Docs
         /\ \A g \in Handles : Valid(g)' => Valid(g) /\ HandleAt(g)' = HandleAt(g)
<1> USE DEF BasicInv
<1> DEFINE b == current_block
           c == rows[blocks[b].at[1]]
           f == blocks[b].next
           S == OccupiedSet(now)
           prev == prev_block
<1>1. /\ b # None /\ Old(b) /\ max_epoch' = MaxAfter(b) /\ max_epoch' <= MaxEpoch
      /\ free_lists' = [free_lists EXCEPT ![c] = b]
      /\ blocks' = [Unlinked(f) EXCEPT ![b] = [Advanced(b) EXCEPT !.next = free_lists[c], !.owner = NoDoc]]
      /\ occupied_list_heads' = (IF prev = None THEN [occupied_list_heads EXCEPT ![now] = f] ELSE occupied_list_heads)
      /\ current_block' = f
      /\ block_count' = block_count /\ rows' = rows /\ base_epoch' = base_epoch /\ location' = location
      /\ now' = now /\ prev_block' = prev /\ uses' = uses /\ deferred' = deferred
  BY DEF EvictOld
<1>2. /\ b \in 1..block_count /\ prev \in 0..block_count /\ now \in Docs /\ uses = {} /\ deferred = {}
      /\ Owned(b, now)
      /\ IF prev = None THEN b = occupied_list_heads[now]
         ELSE Owned(prev, now) /\ blocks[prev].next = b
  BY <1>1 DEF LoopOK, TypeOK, None
<1>3. /\ block_count \in Nat /\ MaxEpoch \in Nat /\ max_epoch \in Nat /\ NoDoc \notin Docs
      /\ \A k \in Classes : FreeSet(k) \in SUBSET (Nat \ {0}) /\ FreeSet(k) \subseteq 1..block_count
      /\ \A d \in Docs : OccupiedSet(d) \in SUBSET (Nat \ {0}) /\ OccupiedSet(d) \subseteq 1..block_count
      /\ b \in S /\ (prev # None => prev \in S)
  BY <1>2, BlockFacts, Constants DEF FreeSet, OccupiedSet, None
<1>4. Chained(blocks, occupied_list_heads[now], S) /\ Chained(blocks, free_lists[c], FreeSet(c)) /\ c \in Classes
  BY <1>2, BlockFacts DEF ChainsOK
<1>5. f = None \/ f \in S \ {b}
  BY <1>2, <1>3, <1>4, ChainNext
<1>6. prev # None => prev \in 1..block_count /\ prev # b
  <2> SUFFICES ASSUME prev # None PROVE prev \in 1..block_count /\ prev # b
    OBVIOUS
  <2>1. prev \in S /\ blocks[prev].next = b
    BY <1>2, <1>3
  <2>2. b \in S \ {prev}
    BY <1>1, <1>2, <1>3, <1>4, <2>1, ChainNext
  <2> QED  BY <1>2, <1>3, <2>1, <2>2
<1>7. /\ blocks[b].epoch \in Nat /\ blocks[b] \in Block /\ f \in 0..block_count /\ free_lists[c] \in 0..block_count
      /\ blocks[b].owner = now
      /\ \A i \in 1..block_count : blocks[i] \in Block /\ blocks[i].epoch \in Nat
  BY <1>2, <1>4, BlockFacts DEF Owned
<1>8. max_epoch' \in Nat /\ max_epoch <= max_epoch' /\ blocks[b].epoch + 1 <= max_epoch' /\ blocks[b].epoch + 1 \in Epochs
  BY <1>1, <1>3, <1>7 DEF MaxAfter, Epochs
<1> HIDE DEF b, c, f, S, prev
<1>9. /\ blocks'[b] = [Advanced(b) EXCEPT !.next = free_lists[c], !.owner = NoDoc]
      /\ prev # None => blocks'[prev] = [blocks[prev] EXCEPT !.next = f]
      /\ \A i \in 1..block_count : i # b /\ i # prev => blocks'[i] = blocks[i]
      /\ blocks' = [i \in 1..block_count |-> blocks'[i]]
  BY <1>1, <1>2, <1>6 DEF Unlinked, prev
<1>10. /\ blocks'[b] \in Block /\ blocks'[b].at = blocks[b].at /\ blocks'[b].epoch = blocks[b].epoch + 1
       /\ blocks'[b].next = free_lists[c] /\ blocks'[b].owner = NoDoc
       /\ blocks'[b].last_access_time = blocks[b].last_access_time
  <2> DEFINE adv == [blocks[b] EXCEPT !.epoch = @ + 1]
  <2>1. /\ adv \in Block /\ adv.at = blocks[b].at /\ adv.epoch = blocks[b].epoch + 1
        /\ adv.last_access_time = blocks[b].last_access_time
    BY <1>7, <1>8 DEF Block
  <2>2. blocks'[b] = [adv EXCEPT !.next = free_lists[c], !.owner = NoDoc] /\ free_lists[c] \in Nat
    BY <1>7, <1>9 DEF Advanced
  <2> HIDE DEF adv
  <2>3. adv \in [at : Address, epoch : Epochs, next : Nat, last_access_time : Nat, owner : Docs \cup {NoDoc}]
    BY <2>1 DEF Block
  <2> QED  BY <2>1, <2>2, <2>3 DEF Block
<1>11. ASSUME prev # None
       PROVE  /\ blocks'[prev] \in Block /\ blocks'[prev].at = blocks[prev].at /\ blocks'[prev].epoch = blocks[prev].epoch
              /\ blocks'[prev].next = f /\ blocks'[prev].owner = blocks[prev].owner
              /\ blocks'[prev].last_access_time = blocks[prev].last_access_time
  <2>1. blocks[prev] \in Block /\ f \in Nat
    BY <1>6, <1>7, <1>11
  <2> QED  BY <1>9, <1>11, <2>1 DEF Block
<1>12. ASSUME NEW i \in 1..block_count, i # b
       PROVE  /\ blocks'[i] \in Block /\ blocks'[i].at = blocks[i].at /\ blocks'[i].epoch = blocks[i].epoch
              /\ blocks'[i].owner = blocks[i].owner /\ blocks'[i].last_access_time = blocks[i].last_access_time
              /\ i # prev => blocks'[i].next = blocks[i].next
  <2>1. prev = i => prev # None
    BY DEF None
  <2>2. CASE i = prev
    BY <1>11, <2>1, <2>2
  <2>3. CASE i # prev
    BY <1>7, <1>9, <1>12, <2>3
  <2> QED  BY <2>2, <2>3
<1>13. ListsTyped'
  <2>1. \A i \in 1..block_count : blocks'[i] \in Block
    BY <1>10, <1>12
  <2>2. blocks' \in [1..block_count -> Block]
    BY <1>9, <2>1
  <2>3. free_lists' \in [Classes -> 0..block_count] /\ occupied_list_heads' \in [Docs -> 0..block_count]
    BY <1>1, <1>2, <1>4, <1>7 DEF TypeOK
  <2>4. \A i \in 1..block_count : blocks'[i].next \in 0..block_count
    <3> SUFFICES ASSUME NEW i \in 1..block_count PROVE blocks'[i].next \in 0..block_count
      OBVIOUS
    <3>1. blocks[i].next \in 0..block_count
      BY BlockFacts
    <3>2. CASE i = b
      BY <1>7, <1>10, <3>2
    <3>3. CASE i # b /\ i = prev
      <4>1. prev # None
        BY <3>3 DEF None
      <4> QED  BY <1>7, <1>11, <3>3, <4>1
    <3>4. CASE i # b /\ i # prev
      BY <1>12, <3>1, <3>4
    <3> QED  BY <3>2, <3>3, <3>4
  <2> QED  BY <1>1, <2>2, <2>3, <2>4 DEF ListsTyped, TypeOK
<1>14. ChainsOK'
  <2>1. ASSUME NEW k \in Classes PROVE Chained(blocks', free_lists'[k], FreeSet(k)')
    <3>1. FreeSet(k)' = IF k = c THEN FreeSet(c) \cup {b} ELSE FreeSet(k)
      <4>1. \A i \in 1..block_count : i # b => (i \in FreeSet(k)' <=> i \in FreeSet(k))
        BY <1>1, <1>12 DEF FreeSet, Free
      <4>2. b \in FreeSet(k)' <=> k = c
        BY <1>1, <1>2, <1>10 DEF FreeSet, Free, c, b
      <4>3. b \notin FreeSet(k)
        BY <1>2, <1>3, <1>7 DEF FreeSet, Free
      <4>4. FreeSet(k)' \subseteq 1..block_count /\ FreeSet(k) \subseteq 1..block_count
        BY <1>1 DEF FreeSet
      <4> QED  BY <1>2, <4>1, <4>2, <4>3, <4>4
    <3>2. \A x \in FreeSet(k) : x # b /\ x # prev /\ x \in 1..block_count
      <4>1. ASSUME NEW x \in FreeSet(k) PROVE blocks[x].owner = NoDoc /\ x \in 1..block_count
        BY DEF FreeSet, Free
      <4>2. prev # None => blocks[prev].owner = now
        BY <1>2 DEF Owned, prev
      <4> QED  BY <1>2, <1>3, <1>7, <4>1, <4>2 DEF None
    <3>3. Chained(blocks, free_lists[k], FreeSet(k)) /\ \A x \in FreeSet(k) : blocks'[x].next = blocks[x].next
      BY <1>12, <3>2 DEF ChainsOK
    <3>4. CASE k = c
      <4>1. b \notin FreeSet(k) /\ blocks'[b].next = free_lists[k]
        BY <1>10, <3>2, <3>4
      <4>2. Chained(blocks', b, FreeSet(k) \cup {b})
        BY <3>3, <4>1, ChainPush
      <4>3. free_lists'[k] = b
        BY <1>1, <3>4 DEF TypeOK
      <4> QED  BY <3>1, <3>4, <4>2, <4>3
    <3>5. CASE k # c
      <4>1. Chained(blocks', free_lists[k], FreeSet(k))
        BY <3>3, ChainSame
      <4>2. free_lists'[k] = free_lists[k]
        BY <1>1, <3>5 DEF TypeOK
      <4> QED  BY <3>1, <3>5, <4>1, <4>2
    <3> QED  BY <3>4, <3>5
  <2>2. ASSUME NEW d \in Docs PROVE Chained(blocks', occupied_list_heads'[d], OccupiedSet(d)')
    <3>1. OccupiedSet(d)' = OccupiedSet(d) \ {b}
      <4>1. \A i \in 1..block_count : i # b => (i \in OccupiedSet(d)' <=> i \in OccupiedSet(d))
        BY <1>1, <1>12 DEF OccupiedSet, Owned
      <4>2. b \notin OccupiedSet(d)'
        BY <1>3, <1>10 DEF OccupiedSet, Owned
      <4>4. OccupiedSet(d)' \subseteq 1..block_count /\ OccupiedSet(d) \subseteq 1..block_count
        BY <1>1 DEF OccupiedSet
      <4> QED  BY <4>1, <4>2, <4>4
    <3>2. CASE d = now /\ prev = None
      <4>1. \A x \in S \ {b} : blocks'[x].next = blocks[x].next
        <5>1. \A x \in S \ {b} : x \in 1..block_count /\ x # prev
          BY <1>2, <1>3, <3>2 DEF S, None
        <5> QED  BY <1>12, <5>1
      <4>2. Chained(blocks, b, S) /\ b # None /\ S \in SUBSET (Nat \ {0})
        BY <1>1, <1>2, <1>3, <1>4, <3>2 DEF S, b
      <4>3. Chained(blocks', f, S \ {b})
        BY <4>1, <4>2, ChainPop DEF f
      <4>4. occupied_list_heads'[d] = f
        BY <1>1, <3>2 DEF TypeOK
      <4> QED  BY <3>1, <3>2, <4>3, <4>4 DEF S
    <3>3. CASE d = now /\ prev # None
      <4>1. \A x \in S \ {prev, b} : blocks'[x].next = blocks[x].next
        <5>1. \A x \in S \ {prev, b} : x \in 1..block_count
          BY <1>2, <1>3 DEF S
        <5> QED  BY <1>12, <5>1
      <4>2. /\ Chained(blocks, occupied_list_heads[now], S) /\ b # None /\ S \in SUBSET (Nat \ {0})
            /\ prev \in S /\ blocks[prev].next = b /\ blocks'[prev].next = blocks[b].next
        BY <1>1, <1>2, <1>3, <1>4, <1>11, <3>3 DEF S, f, prev, b
      <4>3. Chained(blocks', occupied_list_heads[now], S \ {b})
        BY <4>1, <4>2, ChainCut
      <4>4. occupied_list_heads'[d] = occupied_list_heads[now]
        BY <1>1, <3>3
      <4> QED  BY <3>1, <3>3, <4>3, <4>4 DEF S
    <3>4. CASE d # now
      <4>1. \A x \in OccupiedSet(d) : x # b /\ x # prev /\ x \in 1..block_count
        <5>1. ASSUME NEW x \in OccupiedSet(d) PROVE blocks[x].owner = d /\ x \in 1..block_count
          BY DEF OccupiedSet, Owned
        <5>2. prev # None => blocks[prev].owner = now
          BY <1>2 DEF Owned, prev
        <5> QED  BY <1>7, <3>4, <5>1, <5>2 DEF None
      <4>2. Chained(blocks, occupied_list_heads[d], OccupiedSet(d))
            /\ \A x \in OccupiedSet(d) : blocks'[x].next = blocks[x].next
        BY <1>12, <4>1 DEF ChainsOK
      <4>3. Chained(blocks', occupied_list_heads[d], OccupiedSet(d))
        BY <4>2, ChainSame
      <4>4. occupied_list_heads'[d] = occupied_list_heads[d] /\ b \notin OccupiedSet(d)
        BY <1>1, <3>4, <4>1 DEF TypeOK
      <4>5. OccupiedSet(d)' = OccupiedSet(d)
        BY <3>1, <4>4
      <4> QED  BY <4>3, <4>4, <4>5
    <3> QED  BY <3>2, <3>3, <3>4
  <2> QED  BY <2>1, <2>2 DEF ChainsOK
<1>15. ASSUME NEW g \in Handles, Valid(g)'
       PROVE  Valid(g) /\ HandleAt(g)' = HandleAt(g) /\ location[g].block # b /\ location[g].block \in 1..block_count
  <2> DEFINE k == location[g]
  <2>1. k.block \in 1..block_count /\ blocks'[k.block].epoch = k.epoch
    BY <1>1, <1>15 DEF Valid
  <2>2. k.epoch \in Nat /\ k.block # None /\ base_epoch \in Nat /\ base_epoch <= blocks[k.block].epoch
    BY <2>1, BlockFacts DEF None
  <2>3. k.block # b
    <3> SUFFICES ASSUME k.block = b PROVE FALSE
      OBVIOUS
    <3>1. k.epoch = blocks[b].epoch + 1 /\ k.epoch >= base_epoch
      BY <1>7, <1>10, <2>1, <2>2
    <3>2. k.epoch <= blocks[b].epoch
      BY <2>2, <3>1 DEF BlocksOK
    <3> QED  BY <1>7, <3>1, <3>2
  <2>4. blocks'[k.block].epoch = blocks[k.block].epoch /\ blocks'[k.block].at = blocks[k.block].at
    BY <1>12, <2>1, <2>3
  <2> QED  BY <1>1, <2>1, <2>3, <2>4 DEF Valid, HandleAt
<1>16. BlocksOK'
  <2>1. \A i \in 1..block_count' :
          /\ blocks'[i].at[1] \in 1..Len(rows')
          /\ blocks'[i].epoch \in base_epoch'..max_epoch'
          /\ blocks'[i].next \in 0..block_count'
    <3> SUFFICES ASSUME NEW i \in 1..block_count
                 PROVE  /\ blocks'[i].at[1] \in 1..Len(rows)
                        /\ blocks'[i].epoch \in base_epoch..max_epoch'
                        /\ blocks'[i].next \in 0..block_count
      BY <1>1
    <3>1. blocks[i].at[1] \in 1..Len(rows) /\ blocks[i].epoch \in Nat /\ base_epoch <= blocks[i].epoch
          /\ blocks[i].epoch <= max_epoch /\ base_epoch \in Nat
      BY BlockFacts
    <3>2. blocks'[i].at = blocks[i].at /\ (blocks'[i].epoch = blocks[i].epoch \/ (i = b /\ blocks'[i].epoch = blocks[b].epoch + 1))
      BY <1>10, <1>12
    <3>3. blocks'[i].epoch \in Nat /\ base_epoch <= blocks'[i].epoch /\ blocks'[i].epoch <= max_epoch'
      BY <1>3, <1>8, <3>1, <3>2
    <3>4. blocks'[i].next \in 0..block_count
      BY <1>1, <1>13 DEF ListsTyped
    <3> QED  BY <1>8, <3>1, <3>2, <3>3, <3>4
  <2>2. \A i, k \in 1..block_count' : blocks'[i].at = blocks'[k].at => i = k
    <3>1. \A i \in 1..block_count : blocks'[i].at = blocks[i].at
      BY <1>10, <1>12
    <3> QED  BY <1>1, <3>1 DEF BlocksOK
  <2>3. ASSUME NEW h \in Handles
        PROVE  LET k == location[h] IN
               /\ k.epoch <= max_epoch'
               /\ k.block # None /\ k.epoch >= base_epoch =>
                    /\ k.block \in 1..block_count' /\ k.epoch <= blocks'[k.block].epoch
                    /\ k.epoch = blocks'[k.block].epoch => blocks'[k.block].owner \in Users[h]
    <3> DEFINE k == location[h]
    <3>1. k.epoch \in Nat /\ k.epoch <= max_epoch
      BY BlockFacts DEF BlocksOK
    <3>2. ASSUME k.block # None, k.epoch >= base_epoch
          PROVE  /\ k.block \in 1..block_count' /\ k.epoch <= blocks'[k.block].epoch
                 /\ k.epoch = blocks'[k.block].epoch => blocks'[k.block].owner \in Users[h]
      <4>1. /\ k.block \in 1..block_count /\ k.epoch <= blocks[k.block].epoch
            /\ k.epoch = blocks[k.block].epoch => blocks[k.block].owner \in Users[h]
        BY <3>2 DEF BlocksOK
      <4>2. CASE k.block = b
        BY <1>1, <1>7, <1>10, <3>1, <4>1, <4>2
      <4>3. CASE k.block # b
        BY <1>1, <1>12, <4>1, <4>3
      <4> QED  BY <4>2, <4>3
    <3>3. k.epoch <= max_epoch'
      BY <1>3, <1>8, <3>1
    <3> QED  BY <3>2, <3>3
  <2>4. \A g, h \in Handles : Valid(g)' /\ Valid(h)' /\ location'[g].block = location'[h].block => g = h
    BY <1>1, <1>15 DEF BlocksOK
  <2> QED  BY <1>1, <2>1, <2>2, <2>3, <2>4 DEF BlocksOK
<1>17. LoopOK'
  <2>1. now' # NoDoc /\ uses' = {} /\ deferred' = {} /\ now' \in Docs
    BY <1>1, <1>2, <1>3
  <2>2. ASSUME f # None PROVE blocks'[f].owner = now
    <3>1. f \in 1..block_count /\ f # b /\ blocks[f].owner = now
      BY <1>5, <2>2 DEF S, OccupiedSet, Owned
    <3> QED  BY <1>12, <3>1
  <2>3. prev = None => f = occupied_list_heads'[now]
    BY <1>1, <1>2 DEF TypeOK
  <2>4. ASSUME prev # None PROVE blocks'[prev].owner = now /\ blocks'[prev].next = f
    <3>1. blocks[prev].owner = now
      BY <1>2, <2>4 DEF Owned, prev
    <3> QED  BY <1>11, <2>4, <3>1
  <2> QED  BY <1>1, <2>1, <2>2, <2>3, <2>4 DEF LoopOK, Owned, prev
<1>18. \A i \in 1..block_count :
         /\ blocks'[i].at = blocks[i].at /\ blocks'[i].last_access_time = blocks[i].last_access_time
         /\ i # b => blocks'[i].owner = blocks[i].owner
  BY <1>10, <1>12
<1>19. Owned(b, now) /\ Old(b) /\ now \in Docs
  BY <1>1, <1>2
<1> QED  BY <1>1, <1>2, <1>7, <1>8, <1>13, <1>14, <1>15, <1>16, <1>17, <1>18, <1>19 DEF b

-----------------------------------------------------------------------------
(* The lists of blocks, step by step.                                      *)

LEMMA MapOverride ==
  ASSUME NEW m1, NEW m2, IsMap(m1), IsMap(m2)
  PROVE  IsMap(Override(m1, m2))
BY DEF IsMap, Override

LEMMA EmptyIsMap == IsMap(EmptyMap) /\ DOMAIN EmptyMap = {}
BY DEF IsMap, EmptyMap

LEMMA LineTail ==
  ASSUME LineOK, results # <<>>, results' = Tail(results)
  PROVE  LineOK' /\ GoodMessage(Head(results))
<1>1. PICK S : results \in Seq(S)
  BY DEF LineOK
<1>2. /\ Tail(results) \in Seq(S) /\ Len(results) \in Nat /\ Len(results) >= 1
      /\ Len(Tail(results)) = Len(results) - 1 /\ Head(results) = results[1]
      /\ \A i \in 1..Len(Tail(results)) : Tail(results)[i] = results[i + 1] /\ i + 1 \in 1..Len(results)
  BY <1>1
<1>3. 1 \in 1..Len(results)
  BY <1>2
<1>4. \A i \in 1..Len(results) : GoodMessage(results[i])
  BY DEF LineOK
<1>5. \A i \in 1..Len(results') : GoodMessage(results'[i])
  BY <1>2, <1>4
<1> QED  BY <1>2, <1>3, <1>4, <1>5 DEF LineOK

LEMMA LineMore ==
  ASSUME LineOK, NEW T, NEW more \in Seq(T), \A i \in 1..Len(more) : GoodMessage(more[i]),
         results' = results \o more
  PROVE  LineOK'
<1>1. PICK S : results \in Seq(S)
  BY DEF LineOK
<1>2. results \in Seq(S \cup T) /\ more \in Seq(S \cup T)
  BY <1>1
<1>3. /\ results \o more \in Seq(S \cup T) /\ Len(results) \in Nat /\ Len(more) \in Nat
      /\ Len(results \o more) = Len(results) + Len(more)
      /\ \A i \in 1..Len(results) : (results \o more)[i] = results[i]
      /\ \A i \in (Len(results) + 1)..(Len(results) + Len(more)) : (results \o more)[i] = more[i - Len(results)]
  BY <1>2
<1>4. ASSUME NEW i \in 1..Len(results') PROVE GoodMessage(results'[i])
  <2>1. CASE i \in 1..Len(results)
    BY <1>3, <2>1 DEF LineOK
  <2>2. CASE i \in (Len(results) + 1)..(Len(results) + Len(more))
    <3>1. i - Len(results) \in 1..Len(more)
      BY <1>3, <2>2
    <3> QED  BY <1>3, <2>2, <3>1
  <2> QED  BY <1>3, <2>1, <2>2
<1> QED  BY <1>3, <1>4 DEF LineOK

LEMMA LineSame ==
  ASSUME LineOK, UNCHANGED results
  PROVE  LineOK'
BY DEF LineOK, GoodMessage

(* Building does not touch the loop, the line or the renderer.             *)
LEMMA BuiltBasic ==
  ASSUME BasicInv, Building, UNCHANGED unchangedByBuilding,
         ListsTyped', ChainsOK', BlocksOK', block_count' \in Nat, block_count <= block_count',
         max_epoch' \in Nat, max_epoch <= max_epoch', max_epoch' <= MaxEpoch,
         version' \in [Handles -> Nat], location' \in [Handles -> CacheLocation],
         IsMap(updates'), uses' \subseteq Use, deferred' \subseteq Address
  PROVE  BasicInv'
<1> USE DEF BasicInv
<1>1. /\ base_epoch' = base_epoch /\ pending_clear' = pending_clear
      /\ requires_frame_build' = requires_frame_build /\ documents' = documents
      /\ frame_id' = frame_id /\ now' = now /\ nops' = nops /\ batch' = batch
      /\ current_block' = current_block /\ prev_block' = prev_block /\ clears' = clears
      /\ results' = results /\ UNCHANGED rendererVars
  BY DEF unchangedByBuilding
<1>2. /\ gpu_cache_texture' = gpu_cache_texture /\ pending_gpu_cache_updates' = pending_gpu_cache_updates
      /\ pending_gpu_cache_clear' = pending_gpu_cache_clear /\ active_documents' = active_documents
      /\ taken_base' = taken_base /\ spoiled' = spoiled
  BY <1>1 DEF rendererVars
<1>3. now # NoDoc /\ current_block = None
  BY DEF Building
<1>4. LoopOK'
  BY <1>1, <1>3 DEF LoopOK
<1>5. LineOK'
  BY <1>1, LineSame
<1>6. TypeOK'
  <2>1. max_epoch' \in base_epoch..MaxEpoch /\ current_block' \in 0..block_count'
    BY <1>1, <1>3, BlockFacts, Constants DEF None
  <2>2. prev_block' \in 0..block_count'
    BY <1>1, BlockFacts DEF TypeOK
  <2> QED  BY <1>1, <1>2, <2>1, <2>2 DEF TypeOK, ListsTyped, IsMap, Active
<1> QED  BY <1>4, <1>5, <1>6

LEMMA PushedTyped ==
  ASSUME NEW bs, BlockGiven(bs, Pushed), ListsTyped'
  PROVE  /\ Pushed \in 1..block_count' /\ Pushed \in Nat
         /\ blocks'[Pushed] \in Block /\ PushedAt \in Address /\ blocks'[Pushed].epoch \in Epochs
<1>1. Pushed \in 1..block_count' /\ block_count' \in Nat
  BY DEF BlockGiven
<1>2. blocks'[Pushed] \in Block
  BY <1>1 DEF ListsTyped
<1> QED  BY <1>1, <1>2 DEF Block, PushedAt

LEMMA GivenBasic ==
  ASSUME BasicInv, Building, UNCHANGED unchangedByBuilding,
         NEW bs, IsRetired(bs, max_epoch'), NEW c \in Classes, PushData(bs, c),
         NEW H, Located(H), max_epoch' \in Nat, max_epoch <= max_epoch', max_epoch' <= MaxEpoch,
         version' \in [Handles -> Nat], location' \in [Handles -> CacheLocation],
         IsMap(updates'), uses' \subseteq Use, deferred' \subseteq Address
  PROVE  BasicInv'
<1>1. now \in Docs /\ base_epoch' = base_epoch
  BY DEF Building, BasicInv, TypeOK, unchangedByBuilding
<1>2. BlockGiven(bs, Pushed) /\ ListsTyped' /\ ChainsOK'
  BY <1>1, DataGiven
<1>3. BlocksOK'
  BY <1>1, <1>2, GivenBlocks
<1>4. block_count' \in Nat /\ block_count <= block_count'
  BY <1>2 DEF BlockGiven
<1> QED  BY <1>2, <1>3, <1>4, BuiltBasic

LEMMA CopyTyped ==
  ASSUME BasicInv, PushedAt \in Address, NEW y \in Data, Copy(y)
  PROVE  IsMap(updates')
<1>1. IsMap([a \in {PushedAt} |-> y])
  BY DEF IsMap
<1>2. IsMap(updates)
  BY DEF BasicInv, TypeOK
<1> QED  BY <1>1, <1>2, MapOverride DEF Copy

LEMMA UsingTyped ==
  ASSUME BasicInv, NEW h \in Handles, NEW at \in Address, version' \in [Handles -> Nat], Using(h, at)
  PROVE  uses' \subseteq Use
<1>1. uses \subseteq Use
  BY DEF BasicInv, TypeOK
<1>2. <<h, version'[h]>> \in Data
  BY DEF Data
<1>3. (Users[h] # {now}) \in BOOLEAN
  OBVIOUS
<1>4. [of |-> h, at |-> at, data |-> <<h, version'[h]>>, shared |-> Users[h] # {now}] \in Use
  BY <1>2, <1>3 DEF Use
<1> QED  BY <1>1, <1>4 DEF Using

(* A handle is filled.                                                     *)
LEMMA FillLocated ==
  ASSUME BasicInv, NEW h \in Handles, now \in Users[h], NEW bs, NEW c, Fill(h, bs, c)
  PROVE  Located({h}) /\ location' = [location EXCEPT ![h] = [block |-> Pushed, epoch |-> blocks'[Pushed].epoch]]
<1>1. /\ location' = [location EXCEPT ![h] = [block |-> Pushed, epoch |-> blocks'[Pushed].epoch]]
      /\ location \in [Handles -> CacheLocation]
  BY DEF Fill, BasicInv, TypeOK
<1> QED  BY <1>1 DEF Located

LEMMA FillBasic ==
  ASSUME BasicInv, Building, UNCHANGED unchangedByBuilding, UNCHANGED deferred,
         NEW bs, IsRetired(bs, max_epoch'), NEW h \in Handles, now \in Users[h],
         NEW c \in Classes, Fill(h, bs, c),
         max_epoch' \in Nat, max_epoch <= max_epoch', max_epoch' <= MaxEpoch,
         version' \in [Handles -> Nat]
  PROVE  BasicInv'
<1>1. now \in Docs
  BY DEF Building, BasicInv, TypeOK
<1>2. BlockGiven(bs, Pushed) /\ ListsTyped'
  BY <1>1, DataGiven DEF Fill
<1>3. /\ Pushed \in 1..block_count' /\ Pushed \in Nat
      /\ blocks'[Pushed] \in Block /\ PushedAt \in Address /\ blocks'[Pushed].epoch \in Epochs
  BY <1>2, PushedTyped
<1>4. <<h, version'[h]>> \in Data
  BY DEF Data
<1>5. IsMap(updates')
  BY <1>3, <1>4, CopyTyped DEF Fill
<1>6. uses' \subseteq Use
  BY <1>3, UsingTyped DEF Fill
<1>7. location' \in [Handles -> CacheLocation]
  <2>1. location \in [Handles -> CacheLocation]
    BY DEF BasicInv, TypeOK
  <2>2. [block |-> Pushed, epoch |-> blocks'[Pushed].epoch] \in CacheLocation
    BY <1>3 DEF CacheLocation
  <2> QED  BY <2>1, <2>2 DEF Fill
<1>8. deferred' \subseteq Address
  BY DEF BasicInv, TypeOK
<1>9. Located({h}) /\ PushData(bs, c)
  BY FillLocated DEF Fill
<1> QED  BY <1>5, <1>6, <1>7, <1>8, <1>9, GivenBasic

LEMMA RequestBasic ==
  ASSUME BasicInv, NEW h \in Handles, Request(h)
  PROVE  BasicInv'
<1>1. /\ Building /\ now \in Users[h] /\ version' = version /\ max_epoch' = max_epoch
      /\ deferred' = deferred /\ UNCHANGED unchangedByBuilding
  BY DEF Request
<1>2. /\ now \in Docs /\ version' \in [Handles -> Nat] /\ deferred' \subseteq Address
      /\ location \in [Handles -> CacheLocation] /\ IsMap(updates)
  BY <1>1 DEF Building, BasicInv, TypeOK
<1>3. max_epoch' \in Nat /\ max_epoch <= max_epoch' /\ max_epoch' <= MaxEpoch /\ block_count \in Nat
  BY <1>1, BlockFacts DEF BasicInv
<1>4. CASE Touch(h)
  <2>0. base_epoch' = base_epoch
    BY <1>1 DEF unchangedByBuilding
  <2>1. StaysPut /\ location[h].block \in 1..block_count
    BY <1>1, <1>2, <1>4, <2>0, TouchStays
  <2>2. ListsTyped' /\ ChainsOK' /\ BlocksOK'
    BY <1>3, <2>1, SameLists
  <2>3. block_count' = block_count /\ location' = location /\ updates' = updates
    BY <1>4 DEF Touch
  <2>4. blocks[location[h].block].at \in Address
    BY <2>1, BlockFacts DEF BasicInv
  <2>5. uses' \subseteq Use
    BY <1>2, <1>4, <2>4, UsingTyped DEF Touch
  <2>6. IsMap(updates') /\ location' \in [Handles -> CacheLocation] /\ block_count' \in Nat /\ block_count <= block_count'
    BY <1>2, <1>3, <2>3
  <2> QED  BY <1>1, <1>2, <1>3, <2>2, <2>5, <2>6, BuiltBasic
<1>5. CASE ~Valid(h) /\ \E c \in Classes : Fill(h, blocks, c)
  <2>1. PICK c \in Classes : Fill(h, blocks, c)
    BY <1>5
  <2>2. IsRetired(blocks, max_epoch')
    BY <1>1, KeptIsRetired
  <2> QED  BY <1>1, <1>2, <1>3, <2>1, <2>2, FillBasic
<1> QED  BY <1>4, <1>5 DEF Request

LEMMA NewVersionFacts ==
  ASSUME BasicInv, NEW h \in Handles, NewVersion(h)
  PROVE  /\ Building /\ now \in Users[h] /\ now \in Docs /\ version' \in [Handles -> Nat]
         /\ max_epoch' = RetiredMax(h) /\ max_epoch' \in Nat /\ max_epoch <= max_epoch' /\ max_epoch' <= MaxEpoch
         /\ IsRetired(Retired(h), max_epoch')
         /\ version'[h] = version[h] + 1 /\ \A g \in Handles : g # h => version'[g] = version[g]
<1>1. Building /\ now \in Users[h] /\ max_epoch' = RetiredMax(h) /\ max_epoch' <= MaxEpoch
  BY DEF NewVersion
<1>2. now \in Docs /\ version \in [Handles -> Nat] /\ version' = [version EXCEPT ![h] = @ + 1]
  BY <1>1 DEF Building, BasicInv, TypeOK, NewVersion
<1>3. IsRetired(Retired(h), RetiredMax(h)) /\ RetiredMax(h) \in Nat /\ max_epoch <= RetiredMax(h)
  BY <1>1, RetiredIs
<1> QED  BY <1>1, <1>2, <1>3

LEMMA InvalidateBasic ==
  ASSUME BasicInv, NEW h \in Handles, Invalidate(h)
  PROVE  BasicInv'
<1>1. /\ Building /\ now \in Users[h] /\ now \in Docs /\ version' \in [Handles -> Nat]
      /\ max_epoch' = RetiredMax(h) /\ max_epoch' \in Nat /\ max_epoch <= max_epoch' /\ max_epoch' <= MaxEpoch
  BY NewVersionFacts DEF Invalidate
<1>2. /\ blocks' = Retired(h) /\ UNCHANGED unchangedByBuilding /\ base_epoch' = base_epoch
      /\ block_count' = block_count /\ rows' = rows /\ free_lists' = free_lists
      /\ occupied_list_heads' = occupied_list_heads /\ updates' = updates /\ location' = location
      /\ uses' = uses /\ deferred' = deferred
  BY DEF Invalidate, unchangedByBuilding
<1>3. StaysPut
  BY <1>1, <1>2, InvalidateStays
<1>4. ListsTyped' /\ ChainsOK' /\ BlocksOK'
  BY <1>1, <1>3, SameLists
<1>5. /\ location' \in [Handles -> CacheLocation] /\ IsMap(updates') /\ uses' \subseteq Use
      /\ deferred' \subseteq Address /\ block_count' \in Nat /\ block_count <= block_count'
  BY <1>2, BlockFacts DEF BasicInv, TypeOK
<1> QED  BY <1>1, <1>2, <1>4, <1>5, BuiltBasic

LEMMA UpdateBasic ==
  ASSUME BasicInv, NEW h \in Handles, Update(h)
  PROVE  BasicInv'
<1>1. /\ Building /\ now \in Users[h] /\ version' \in [Handles -> Nat]
      /\ max_epoch' \in Nat /\ max_epoch <= max_epoch' /\ max_epoch' <= MaxEpoch
      /\ IsRetired(Retired(h), max_epoch')
  BY NewVersionFacts DEF Update
<1>2. UNCHANGED unchangedByBuilding /\ UNCHANGED deferred
  BY DEF Update
<1>3. PICK c \in Classes : Fill(h, Retired(h), c)
  BY DEF Update
<1> QED  BY <1>1, <1>2, <1>3, FillBasic

LEMMA ForFrameBasic ==
  ASSUME BasicInv, NEW c \in Classes, Building, PushData(blocks, c),
         NEW y \in Data, PushedForFrame(y), Copy(y) \/ UNCHANGED updates,
         deferred' = deferred \/ deferred' = deferred \cup {PushedAt},
         UNCHANGED <<max_epoch, version, location, unchangedByBuilding>>
  PROVE  BasicInv'
<1>1. /\ now \in Docs /\ max_epoch' = max_epoch /\ max_epoch \in Nat /\ max_epoch <= MaxEpoch
      /\ version' \in [Handles -> Nat] /\ location' \in [Handles -> CacheLocation] /\ IsMap(updates)
      /\ uses \subseteq Use /\ deferred \subseteq Address
  BY BlockFacts DEF Building, BasicInv, TypeOK
<1>2. IsRetired(blocks, max_epoch')
  BY <1>1, KeptIsRetired
<1>3. BlockGiven(blocks, Pushed) /\ ListsTyped'
  BY <1>1, <1>2, DataGiven
<1>4. PushedAt \in Address
  BY <1>3, PushedTyped
<1>5. IsMap(updates')
  BY <1>1, <1>4, CopyTyped
<1>6. [of |-> now, at |-> PushedAt, data |-> y, shared |-> FALSE] \in Use
  BY <1>1, <1>4 DEF Use
<1>7. uses' \subseteq Use /\ deferred' \subseteq Address
  BY <1>1, <1>4, <1>6 DEF PushedForFrame
<1>8. Located({})
  BY DEF Located
<1>9. max_epoch' \in Nat /\ max_epoch <= max_epoch' /\ max_epoch' <= MaxEpoch
  BY <1>1
<1> QED  BY <1>1, <1>2, <1>5, <1>7, <1>8, <1>9, GivenBasic

(* The lists of an empty texture.                                          *)
LEMMA ClearBasic ==
  ASSUME BasicInv, Clear, UNCHANGED location
  PROVE  /\ ListsTyped' /\ ChainsOK' /\ BlocksOK' /\ block_count' = 0
         /\ base_epoch' = max_epoch + 1 /\ max_epoch' = max_epoch + 1 /\ max_epoch + 1 \in Epochs
         /\ IsMap(updates') /\ pending_clear' = TRUE /\ clears' \in Nat
         /\ \A g \in Handles : ~Valid(g)'
<1> USE DEF BasicInv
<1>1. /\ blocks' = EmptyMap /\ block_count' = 0 /\ rows' = <<>>
      /\ free_lists' = [c \in Classes |-> None] /\ occupied_list_heads' = [d \in Docs |-> None]
      /\ base_epoch' = max_epoch + 1 /\ max_epoch' = max_epoch + 1
      /\ updates' = EmptyMap /\ pending_clear' = TRUE /\ clears' = clears + 1
      /\ max_epoch < MaxEpoch /\ location' = location
  BY DEF Clear, NextBaseEpoch
<1>2. max_epoch \in Nat /\ MaxEpoch \in Nat /\ max_epoch + 1 \in Epochs /\ clears \in Nat
  BY <1>1, BlockFacts, Constants DEF Epochs, TypeOK
<1>3. \A b \in 1..block_count' : FALSE
  BY <1>1
<1>4. ListsTyped'
  <2>1. blocks' \in [1..block_count' -> Block]
    BY <1>1, EmptyIsMap DEF EmptyMap
  <2>2. rows' \in Seq(Classes)
    BY <1>1
  <2>3. /\ free_lists' \in [Classes -> 0..block_count']
        /\ occupied_list_heads' \in [Docs -> 0..block_count']
    BY <1>1 DEF None
  <2> QED  BY <1>3, <2>1, <2>2, <2>3 DEF ListsTyped
<1>5. ChainsOK'
  <2>1. \A c \in Classes : FreeSet(c)' = {} /\ free_lists'[c] = None
    BY <1>1, <1>3 DEF FreeSet
  <2>2. \A d \in Docs : OccupiedSet(d)' = {} /\ occupied_list_heads'[d] = None
    BY <1>1, <1>3 DEF OccupiedSet
  <2>3. Chained(blocks', None, {})
    BY ChainEmpty
  <2>4. \A c \in Classes : Chained(blocks', free_lists'[c], FreeSet(c)')
    BY <2>1, <2>3
  <2>5. \A d \in Docs : Chained(blocks', occupied_list_heads'[d], OccupiedSet(d)')
    BY <2>2, <2>3
  <2> QED  BY <2>4, <2>5 DEF ChainsOK
<1>6. \A g \in Handles : ~Valid(g)'
  BY <1>3 DEF Valid
<1>7. BlocksOK'
  <2>1. \A h \in Handles : location[h].epoch \in Nat /\ location[h].epoch <= max_epoch
    BY BlockFacts DEF BlocksOK
  <2>2. \A h \in Handles : location'[h].epoch <= max_epoch' /\ ~(location'[h].epoch >= base_epoch')
    BY <1>1, <1>2, <2>1
  <2> QED  BY <1>3, <1>6, <2>2 DEF BlocksOK
<1>8. IsMap(updates')
  BY <1>1, EmptyIsMap
<1> QED  BY <1>1, <1>2, <1>4, <1>5, <1>6, <1>7, <1>8

LEMMA SameBlocks ==
  ASSUME BasicInv, UNCHANGED <<textureVars, location>>
  PROVE  ListsTyped' /\ ChainsOK' /\ BlocksOK' /\ \A g \in Handles : Valid(g)' => Valid(g) /\ HandleAt(g)' = HandleAt(g)
<1>1. /\ blocks' = blocks /\ block_count' = block_count /\ rows' = rows /\ free_lists' = free_lists
      /\ occupied_list_heads' = occupied_list_heads /\ base_epoch' = base_epoch /\ max_epoch' = max_epoch
      /\ location' = location
  BY DEF textureVars
<1>2. StaysPut /\ max_epoch' \in Nat
  BY <1>1, BlockFacts DEF StaysPut, BasicInv, TypeOK
<1> QED  BY <1>2, SameLists

LEMMA StartGroupBasic ==
  ASSUME BasicInv, NEW ds, StartGroup(ds)
  PROVE  BasicInv'
<1> USE DEF BasicInv
<1>1. /\ now = NoDoc /\ ds \subseteq documents /\ batch' = ds /\ nops' = NopDocuments(ds)
      /\ location' = location /\ documents' = documents /\ frame_id' = frame_id /\ version' = version
      /\ now' = now /\ current_block' = current_block /\ prev_block' = prev_block
      /\ uses' = uses /\ deferred' = deferred /\ results' = results
      /\ requires_frame_build' \in BOOLEAN
  BY DEF StartGroup, Between, TypeOK
<1>2. /\ gpu_cache_texture' = gpu_cache_texture /\ pending_gpu_cache_updates' = pending_gpu_cache_updates
      /\ pending_gpu_cache_clear' = pending_gpu_cache_clear /\ active_documents' = active_documents
      /\ taken_base' = taken_base /\ spoiled' = spoiled
  BY DEF StartGroup, rendererVars
<1>3. uses = {} /\ deferred = {} /\ current_block = None /\ prev_block = None
  BY <1>1 DEF LoopOK
<1>4. /\ ListsTyped' /\ ChainsOK' /\ BlocksOK' /\ block_count' \in Nat
      /\ base_epoch' \in Epochs /\ max_epoch' \in base_epoch'..MaxEpoch
      /\ IsMap(updates') /\ pending_clear' \in BOOLEAN /\ clears' \in Nat
  <2>1. CASE Clear
    <3>1. /\ ListsTyped' /\ ChainsOK' /\ BlocksOK' /\ block_count' = 0
          /\ base_epoch' = max_epoch + 1 /\ max_epoch' = max_epoch + 1 /\ max_epoch + 1 \in Epochs
          /\ IsMap(updates') /\ pending_clear' = TRUE /\ clears' \in Nat
      BY <1>1, <2>1, ClearBasic
    <3> QED  BY <3>1, Constants DEF Epochs
  <2>2. CASE UNCHANGED <<textureVars, updates, pending_clear, clears>>
    <3>1. ListsTyped' /\ ChainsOK' /\ BlocksOK'
      BY <1>1, <2>2, SameBlocks
    <3>2. /\ block_count' = block_count /\ base_epoch' = base_epoch /\ max_epoch' = max_epoch
          /\ updates' = updates /\ pending_clear' = pending_clear /\ clears' = clears
      BY <2>2 DEF textureVars
    <3> QED  BY <3>1, <3>2 DEF TypeOK, IsMap
  <2> QED  BY <2>1, <2>2 DEF StartGroup
<1>5. nops' \subseteq Docs /\ batch' \subseteq Docs
  BY <1>1 DEF NopDocuments, TypeOK
<1>6. TypeOK'
  <2>1. current_block' \in 0..block_count' /\ prev_block' \in 0..block_count'
    BY <1>1, <1>3, <1>4 DEF None
  <2> QED  BY <1>1, <1>2, <1>4, <1>5, <2>1 DEF TypeOK, ListsTyped, IsMap, Active
<1>7. LoopOK'
  BY <1>1, <1>3 DEF LoopOK
<1> QED  BY <1>1, <1>4, <1>6, <1>7, LineSame

LEMMA DropCachesBasic ==
  ASSUME BasicInv, DropCaches
  PROVE  BasicInv'
<1> USE DEF BasicInv
<1>1. /\ now = NoDoc /\ batch' = batch /\ nops' = nops
      /\ location' = location /\ documents' = documents /\ frame_id' = frame_id /\ version' = version
      /\ now' = now /\ current_block' = current_block /\ prev_block' = prev_block
      /\ uses' = uses /\ deferred' = deferred /\ requires_frame_build' = TRUE
  BY DEF DropCaches, Between
<1>2. /\ gpu_cache_texture' = gpu_cache_texture /\ pending_gpu_cache_updates' = pending_gpu_cache_updates
      /\ pending_gpu_cache_clear' = pending_gpu_cache_clear /\ active_documents' = active_documents
      /\ taken_base' = taken_base /\ spoiled' = spoiled
  BY DEF DropCaches, rendererVars
<1>3. uses = {} /\ deferred = {} /\ current_block = None /\ prev_block = None
  BY <1>1 DEF LoopOK
<1>4. /\ ListsTyped' /\ ChainsOK' /\ BlocksOK' /\ block_count' \in Nat
      /\ base_epoch' \in Epochs /\ max_epoch' \in base_epoch'..MaxEpoch
      /\ IsMap(updates') /\ pending_clear' \in BOOLEAN /\ clears' \in Nat
  <2>1. /\ ListsTyped' /\ ChainsOK' /\ BlocksOK' /\ block_count' = 0
        /\ base_epoch' = max_epoch + 1 /\ max_epoch' = max_epoch + 1 /\ max_epoch + 1 \in Epochs
        /\ IsMap(updates') /\ pending_clear' = TRUE /\ clears' \in Nat
    BY <1>1, ClearBasic DEF DropCaches
  <2> QED  BY <2>1, Constants DEF Epochs
<1>5. TypeOK'
  <2>1. current_block' \in 0..block_count' /\ prev_block' \in 0..block_count'
    BY <1>1, <1>3, <1>4 DEF None
  <2> QED  BY <1>1, <1>2, <1>4, <2>1 DEF TypeOK, ListsTyped, IsMap, Active
<1>6. LoopOK'
  BY <1>1, <1>3 DEF LoopOK
<1>7. LineOK'
  <2>1. CASE results' = results
    BY <2>1, LineSame
  <2>2. CASE results' = Append(results, [kind |-> "pressure"])
    <3> DEFINE m == [kind |-> "pressure"]
               more == <<m>>
    <3>1. GoodMessage(m)
      BY DEF GoodMessage
    <3>2. more \in Seq({m}) /\ \A i \in 1..Len(more) : more[i] = m
      OBVIOUS
    <3>3. results' = results \o more
      <4>1. PICK S : results \in Seq(S)
        BY DEF LineOK
      <4>2. results \in Seq(S \cup {m}) /\ m \in S \cup {m}
        BY <4>1
      <4> HIDE DEF m
      <4>3. Append(results, m) = results \o <<m>>
        BY <4>2
      <4> QED  BY <2>2, <4>3 DEF m
    <3> HIDE DEF m, more
    <3> QED  BY <3>1, <3>2, <3>3, LineMore
  <2> QED  BY <2>1, <2>2 DEF DropCaches
<1> QED  BY <1>4, <1>5, <1>6, <1>7

(* Steps that change neither the blocks nor the line.                      *)
LEMMA BeginFrameBasic ==
  ASSUME BasicInv, NEW d \in Docs, BeginFrame(d)
  PROVE  BasicInv'
<1> USE DEF BasicInv
<1>1. /\ now = NoDoc /\ frame_id' = [frame_id EXCEPT ![d] = @ + 1] /\ now' = d
      /\ current_block' = occupied_list_heads[d] /\ prev_block' = None
      /\ nops' = nops \ {d} /\ batch' = batch \ {d}
      /\ UNCHANGED <<textureVars, location>> /\ updates' = updates /\ pending_clear' = pending_clear
      /\ requires_frame_build' = requires_frame_build /\ documents' = documents /\ version' = version
      /\ uses' = uses /\ deferred' = deferred /\ clears' = clears /\ results' = results
  BY DEF BeginFrame, cacheVars
<1>2. /\ gpu_cache_texture' = gpu_cache_texture /\ pending_gpu_cache_updates' = pending_gpu_cache_updates
      /\ pending_gpu_cache_clear' = pending_gpu_cache_clear /\ active_documents' = active_documents
      /\ taken_base' = taken_base /\ spoiled' = spoiled
  BY DEF BeginFrame, rendererVars
<1>3. uses = {} /\ deferred = {}
  BY <1>1 DEF LoopOK
<1>4. ListsTyped' /\ ChainsOK' /\ BlocksOK'
  BY <1>1, SameBlocks
<1>5. /\ block_count' = block_count /\ base_epoch' = base_epoch /\ max_epoch' = max_epoch
      /\ blocks' = blocks /\ occupied_list_heads' = occupied_list_heads /\ location' = location
  BY <1>1 DEF textureVars
<1>6. frame_id' \in [Docs -> Nat] /\ occupied_list_heads[d] \in 0..block_count /\ None \in 0..block_count
  BY <1>1, BlockFacts DEF TypeOK, None
<1>7. TypeOK'
  BY <1>1, <1>2, <1>4, <1>5, <1>6 DEF TypeOK, ListsTyped, IsMap, Active
<1>8. LoopOK'
  <2>1. ASSUME occupied_list_heads[d] # None PROVE blocks[occupied_list_heads[d]].owner = d
    <3>1. OccupiedSet(d) \in SUBSET (Nat \ {0}) /\ Chained(blocks, occupied_list_heads[d], OccupiedSet(d))
      BY DEF OccupiedSet, ChainsOK
    <3>2. occupied_list_heads[d] \in OccupiedSet(d)
      BY <2>1, <3>1, ChainHead
    <3> QED  BY <3>2 DEF OccupiedSet, Owned
  <2>2. d # NoDoc
    BY Constants
  <2> QED  BY <1>1, <1>3, <1>5, <2>1, <2>2 DEF LoopOK, Owned
<1> QED  BY <1>1, <1>4, <1>7, <1>8, LineSame

LEMMA KeepRecentBasic ==
  ASSUME BasicInv, KeepRecent
  PROVE  BasicInv'
<1> USE DEF BasicInv
<1>1. /\ current_block # None /\ prev_block' = current_block /\ current_block' = blocks[current_block].next
      /\ UNCHANGED <<textureVars, location>> /\ updates' = updates /\ pending_clear' = pending_clear
      /\ requires_frame_build' = requires_frame_build /\ documents' = documents /\ version' = version
      /\ frame_id' = frame_id /\ now' = now /\ nops' = nops /\ batch' = batch
      /\ uses' = uses /\ deferred' = deferred /\ clears' = clears /\ results' = results
  BY DEF KeepRecent, cacheVars
<1>2. /\ gpu_cache_texture' = gpu_cache_texture /\ pending_gpu_cache_updates' = pending_gpu_cache_updates
      /\ pending_gpu_cache_clear' = pending_gpu_cache_clear /\ active_documents' = active_documents
      /\ taken_base' = taken_base /\ spoiled' = spoiled
  BY DEF KeepRecent, rendererVars
<1>3. uses = {} /\ deferred = {} /\ now \in Docs /\ Owned(current_block, now) /\ current_block \in 1..block_count
  BY <1>1 DEF LoopOK, TypeOK, None
<1>4. ListsTyped' /\ ChainsOK' /\ BlocksOK'
  BY <1>1, SameBlocks
<1>5. /\ block_count' = block_count /\ base_epoch' = base_epoch /\ max_epoch' = max_epoch
      /\ blocks' = blocks /\ occupied_list_heads' = occupied_list_heads /\ location' = location
  BY <1>1 DEF textureVars
<1>6. blocks[current_block].next \in 0..block_count /\ current_block \in 0..block_count
  BY <1>3, BlockFacts
<1>7. TypeOK'
  BY <1>1, <1>2, <1>4, <1>5, <1>6 DEF TypeOK, ListsTyped, IsMap, Active
<1>8. LoopOK'
  <2> DEFINE f == blocks[current_block].next
  <2>1. ASSUME f # None PROVE blocks[f].owner = now
    <3>1. OccupiedSet(now) \in SUBSET (Nat \ {0}) /\ Chained(blocks, occupied_list_heads[now], OccupiedSet(now))
          /\ current_block \in OccupiedSet(now)
      BY <1>3 DEF OccupiedSet, ChainsOK
    <3>2. f \in OccupiedSet(now)
      BY <2>1, <3>1, ChainNext
    <3> QED  BY <3>2 DEF OccupiedSet, Owned
  <2>2. now # NoDoc
    BY <1>3, Constants
  <2> QED  BY <1>1, <1>3, <1>5, <2>1, <2>2 DEF LoopOK, Owned
<1> QED  BY <1>1, <1>4, <1>7, <1>8, LineSame

LEMMA EvictOldBasic ==
  ASSUME BasicInv, EvictOld
  PROVE  BasicInv'
<1> USE DEF BasicInv
<1>1. /\ block_count' = block_count /\ base_epoch' = base_epoch /\ prev_block' = prev_block
      /\ updates' = updates /\ pending_clear' = pending_clear /\ location' = location
      /\ requires_frame_build' = requires_frame_build /\ documents' = documents /\ version' = version
      /\ frame_id' = frame_id /\ now' = now /\ nops' = nops /\ batch' = batch
      /\ uses' = uses /\ deferred' = deferred /\ clears' = clears /\ results' = results
      /\ max_epoch' <= MaxEpoch
  BY DEF EvictOld
<1>2. /\ gpu_cache_texture' = gpu_cache_texture /\ pending_gpu_cache_updates' = pending_gpu_cache_updates
      /\ pending_gpu_cache_clear' = pending_gpu_cache_clear /\ active_documents' = active_documents
      /\ taken_base' = taken_base /\ spoiled' = spoiled
  BY DEF EvictOld, rendererVars
<1>3. /\ ListsTyped' /\ ChainsOK' /\ BlocksOK' /\ LoopOK' /\ current_block' \in 0..block_count
      /\ max_epoch' \in Nat /\ max_epoch <= max_epoch'
  BY EvictedLists
<1>4. max_epoch' \in base_epoch..MaxEpoch
  BY <1>1, <1>3, BlockFacts, Constants
<1>5. TypeOK'
  BY <1>1, <1>2, <1>3, <1>4 DEF TypeOK, ListsTyped, IsMap, Active
<1> QED  BY <1>1, <1>3, <1>5, LineSame

LEMMA EndFrameBasic ==
  ASSUME BasicInv, EndFrame
  PROVE  BasicInv'
<1> USE DEF BasicInv
<1> DEFINE fr == [uses |-> uses, deferred |-> deferred, base |-> base_epoch]
           m1 == [kind |-> "gpu", clear |-> pending_clear, updates |-> updates, base |-> base_epoch]
           m2 == [kind |-> "document", id |-> now, frame |-> fr]
           more == <<m1, m2>>
<1>1. /\ now # NoDoc /\ current_block = None /\ results' = results \o more
      /\ pending_clear' = FALSE /\ updates' = EmptyMap
      /\ requires_frame_build' = (requires_frame_build /\ (nops # {} \/ batch # {}))
      /\ now' = NoDoc /\ prev_block' = None /\ uses' = {} /\ deferred' = {}
      /\ UNCHANGED <<textureVars, location>> /\ documents' = documents /\ version' = version
      /\ frame_id' = frame_id /\ nops' = nops /\ batch' = batch /\ current_block' = current_block
      /\ clears' = clears
  BY DEF EndFrame, Building
<1>2. /\ gpu_cache_texture' = gpu_cache_texture /\ pending_gpu_cache_updates' = pending_gpu_cache_updates
      /\ pending_gpu_cache_clear' = pending_gpu_cache_clear /\ active_documents' = active_documents
      /\ taken_base' = taken_base /\ spoiled' = spoiled
  BY DEF EndFrame, rendererVars
<1>3. ListsTyped' /\ ChainsOK' /\ BlocksOK'
  BY <1>1, SameBlocks
<1>4. /\ block_count' = block_count /\ base_epoch' = base_epoch /\ max_epoch' = max_epoch
      /\ blocks' = blocks /\ location' = location
  BY <1>1 DEF textureVars
<1>5. IsMap(updates') /\ requires_frame_build' \in BOOLEAN
  BY <1>1, EmptyIsMap
<1>6. TypeOK'
  <2>1. current_block' \in 0..block_count /\ prev_block' \in 0..block_count
    BY <1>1, BlockFacts DEF None
  <2> QED  BY <1>1, <1>2, <1>3, <1>4, <1>5, <2>1 DEF TypeOK, ListsTyped, IsMap, Active
<1>7. LoopOK'
  BY <1>1 DEF LoopOK
<1>8. LineOK'
  <2>1. fr \in Frame
    BY DEF Frame, TypeOK
  <2>2. m2.id = now /\ m2.frame = fr /\ m2.kind = "document"
    OBVIOUS
  <2>3. m1.clear = pending_clear /\ m1.updates = updates /\ m1.base = base_epoch /\ m1.kind = "gpu"
    OBVIOUS
  <2>4. now \in Docs /\ pending_clear \in BOOLEAN /\ IsMap(updates) /\ base_epoch \in Epochs
    BY <1>1 DEF TypeOK
  <2> HIDE DEF fr, m1, m2
  <2>5. GoodMessage(m1) /\ GoodMessage(m2)
    BY <2>1, <2>2, <2>3, <2>4 DEF GoodMessage
  <2>6. more \in Seq({m1, m2}) /\ \A i \in 1..Len(more) : more[i] = m1 \/ more[i] = m2
    OBVIOUS
  <2>7. \A i \in 1..Len(more) : GoodMessage(more[i])
    BY <2>5, <2>6
  <2> HIDE DEF more
  <2> QED  BY <1>1, <2>6, <2>7, LineMore
<1> QED  BY <1>3, <1>6, <1>7, <1>8

LEMMA DocumentsBasic ==
  ASSUME BasicInv, NEW d \in Docs, AddDocument(d) \/ DeleteDocument(d)
  PROVE  BasicInv'
<1> USE DEF BasicInv
<1>1. /\ now = NoDoc /\ documents' \subseteq Docs /\ UNCHANGED <<textureVars, location>>
      /\ updates' = updates /\ pending_clear' = pending_clear
      /\ requires_frame_build' = requires_frame_build /\ version' = version
      /\ frame_id' = frame_id /\ now' = now /\ nops' = nops /\ batch' = batch
      /\ uses' = uses /\ deferred' = deferred /\ clears' = clears /\ results' = results
      /\ current_block' = current_block /\ prev_block' = prev_block
  BY DEF AddDocument, DeleteDocument, Between, cacheVars, TypeOK
<1>2. /\ gpu_cache_texture' = gpu_cache_texture /\ pending_gpu_cache_updates' = pending_gpu_cache_updates
      /\ pending_gpu_cache_clear' = pending_gpu_cache_clear /\ active_documents' = active_documents
      /\ taken_base' = taken_base /\ spoiled' = spoiled
  BY DEF AddDocument, DeleteDocument, rendererVars
<1>3. ListsTyped' /\ ChainsOK' /\ BlocksOK'
  BY <1>1, SameBlocks
<1>4. /\ block_count' = block_count /\ base_epoch' = base_epoch /\ max_epoch' = max_epoch
      /\ blocks' = blocks /\ location' = location
  BY <1>1 DEF textureVars
<1>5. TypeOK'
  BY <1>1, <1>2, <1>3, <1>4 DEF TypeOK, ListsTyped, IsMap, Active
<1>6. LoopOK'
  BY <1>1 DEF LoopOK
<1> QED  BY <1>1, <1>3, <1>5, <1>6, LineSame

(* The renderer.                                                           *)
LEMMA RendererBasic ==
  ASSUME BasicInv, UNCHANGED <<cacheVars, backendVars>>, LineOK',
         IsMap(gpu_cache_texture'), IsMap(pending_gpu_cache_updates'),
         pending_gpu_cache_clear' \in BOOLEAN, Active' \subseteq Docs,
         \A d \in Active' : active_documents'[d] \in Frame,
         taken_base' \in Epochs, spoiled' \in BOOLEAN
  PROVE  BasicInv'
<1> USE DEF BasicInv
<1>1. /\ UNCHANGED <<textureVars, location>>
      /\ updates' = updates /\ pending_clear' = pending_clear /\ documents' = documents
      /\ requires_frame_build' = requires_frame_build /\ version' = version
      /\ frame_id' = frame_id /\ now' = now /\ nops' = nops /\ batch' = batch
      /\ uses' = uses /\ deferred' = deferred /\ clears' = clears
      /\ current_block' = current_block /\ prev_block' = prev_block
  BY DEF cacheVars, backendVars
<1>2. ListsTyped' /\ ChainsOK' /\ BlocksOK'
  BY <1>1, SameBlocks
<1>3. /\ block_count' = block_count /\ base_epoch' = base_epoch /\ max_epoch' = max_epoch
      /\ blocks' = blocks /\ location' = location /\ occupied_list_heads' = occupied_list_heads
  BY <1>1 DEF textureVars
<1>4. TypeOK'
  BY <1>1, <1>2, <1>3 DEF TypeOK, ListsTyped, IsMap
<1>5. LoopOK'
  BY <1>1, <1>3 DEF LoopOK, Owned
<1> QED  BY <1>2, <1>4, <1>5

LEMMA UploadedTyped ==
  ASSUME BasicInv
  PROVE  IsMap(Uploaded) /\ IsMap(Drawn) /\ Deferred \in SUBSET Address
<1>1. IsMap(gpu_cache_texture) /\ IsMap(pending_gpu_cache_updates)
  BY DEF BasicInv, TypeOK
<1>2. IsMap(IF pending_gpu_cache_clear THEN EmptyMap ELSE gpu_cache_texture)
  BY <1>1, EmptyIsMap
<1>3. IsMap(Uploaded)
  BY <1>1, <1>2, MapOverride DEF Uploaded
<1>4. Deferred \subseteq Address
  BY DEF Deferred, BasicInv, TypeOK, Frame
<1>5. IsMap([a \in Deferred |-> External])
  BY <1>4 DEF IsMap, Data
<1> QED  BY <1>3, <1>4, <1>5, MapOverride DEF Drawn

LEMMA TakeBasic ==
  ASSUME BasicInv, TakeUpdates \/ TakeDocument \/ TakePressure
  PROVE  BasicInv'
<1> USE DEF BasicInv
<1>1. /\ results # <<>> /\ results' = Tail(results) /\ UNCHANGED <<cacheVars, backendVars>>
      /\ gpu_cache_texture' = gpu_cache_texture /\ spoiled' = spoiled
  BY DEF TakeUpdates, TakeDocument, TakePressure
<1>2. LineOK' /\ GoodMessage(Head(results))
  BY <1>1, LineTail
<1>3. /\ IsMap(gpu_cache_texture') /\ spoiled' \in BOOLEAN
      /\ IsMap(pending_gpu_cache_updates) /\ pending_gpu_cache_clear \in BOOLEAN
      /\ taken_base \in Epochs /\ Active \subseteq Docs /\ \A d \in Active : active_documents[d] \in Frame
  BY <1>1 DEF TypeOK
<1>4. CASE TakeUpdates
  <2> DEFINE list == Head(results)
  <2>1. /\ list.kind = "gpu" /\ pending_gpu_cache_clear' = (pending_gpu_cache_clear \/ list.clear)
        /\ pending_gpu_cache_updates' = Override(pending_gpu_cache_updates, list.updates)
        /\ taken_base' = list.base /\ active_documents' = active_documents
    BY <1>4 DEF TakeUpdates
  <2>2. list.clear \in BOOLEAN /\ IsMap(list.updates) /\ list.base \in Epochs
    BY <1>2, <2>1 DEF GoodMessage
  <2>3. IsMap(pending_gpu_cache_updates')
    BY <1>3, <2>1, <2>2, MapOverride
  <2>4. Active' \subseteq Docs /\ \A d \in Active' : active_documents'[d] \in Frame
    BY <1>3, <2>1 DEF Active
  <2> QED  BY <1>1, <1>2, <1>3, <2>1, <2>2, <2>3, <2>4, RendererBasic
<1>5. CASE TakeDocument
  <2> DEFINE m == Head(results)
  <2>1. /\ m.kind = "document"
        /\ active_documents' = Override(active_documents, [d \in {m.id} |-> m.frame])
        /\ pending_gpu_cache_clear' = pending_gpu_cache_clear /\ taken_base' = taken_base
        /\ pending_gpu_cache_updates' = pending_gpu_cache_updates
    BY <1>5 DEF TakeDocument
  <2>2. m.id \in Docs /\ m.frame \in Frame
    BY <1>2, <2>1 DEF GoodMessage
  <2>3. Active' \subseteq Docs /\ \A d \in Active' : active_documents'[d] \in Frame
    <3> HIDE DEF m
    <3> QED  BY <1>3, <2>1, <2>2 DEF Active, Override
  <2> QED  BY <1>1, <1>2, <1>3, <2>1, <2>3, RendererBasic
<1>6. CASE TakePressure
  <2>1. /\ active_documents' = EmptyMap
        /\ pending_gpu_cache_clear' = pending_gpu_cache_clear /\ taken_base' = taken_base
        /\ pending_gpu_cache_updates' = pending_gpu_cache_updates
    BY <1>6 DEF TakePressure
  <2>2. Active' = {}
    BY <2>1, EmptyIsMap DEF Active
  <2> QED  BY <1>1, <1>2, <1>3, <2>1, <2>2, RendererBasic
<1> QED  BY <1>4, <1>5, <1>6

LEMMA RenderBasic ==
  ASSUME BasicInv, Render
  PROVE  BasicInv'
<1> USE DEF BasicInv
<1>1. /\ gpu_cache_texture' = Drawn /\ pending_gpu_cache_updates' = EmptyMap
      /\ pending_gpu_cache_clear' = FALSE /\ spoiled' = Spoiled
      /\ UNCHANGED <<cacheVars, backendVars>> /\ results' = results
      /\ active_documents' = active_documents /\ taken_base' = taken_base
  BY DEF Render
<1>2. IsMap(gpu_cache_texture') /\ IsMap(pending_gpu_cache_updates')
  BY <1>1, UploadedTyped, EmptyIsMap
<1>3. /\ Active' \subseteq Docs /\ \A d \in Active' : active_documents'[d] \in Frame
      /\ taken_base' \in Epochs
  BY <1>1 DEF Active, TypeOK
<1>4. spoiled' \in BOOLEAN
  <2>1. spoiled \in BOOLEAN
    BY DEF TypeOK
  <2> QED  BY <1>1, <2>1 DEF Spoiled
<1>5. LineOK'
  BY <1>1, LineSame
<1> QED  BY <1>1, <1>2, <1>3, <1>4, <1>5, RendererBasic

LEMMA BasicInit == Init => BasicInv
<1> SUFFICES ASSUME Init PROVE BasicInv
  OBVIOUS
<1>1. /\ blocks = <<>> /\ block_count = 0 /\ rows = <<>>
      /\ free_lists = [c \in Classes |-> None] /\ occupied_list_heads = [d \in Docs |-> None]
      /\ \A b \in 1..block_count : FALSE
  BY DEF Init, EmptyMap
<1>2. TypeOK
  <2>1. blocks \in [1..block_count -> Block] /\ rows \in Seq(Classes)
    BY <1>1
  <2>2. IsMap(updates) /\ IsMap(gpu_cache_texture) /\ IsMap(pending_gpu_cache_updates) /\ Active = {}
    BY EmptyIsMap DEF Init, Active
  <2>3. base_epoch \in Epochs /\ max_epoch \in base_epoch..MaxEpoch /\ taken_base \in Epochs
        /\ location \in [Handles -> CacheLocation]
    BY Constants DEF Init, Epochs, NoLocation, CacheLocation, None
  <2>4. free_lists \in [Classes -> 0..block_count] /\ occupied_list_heads \in [Docs -> 0..block_count]
    BY <1>1 DEF None
  <2>5. /\ documents \subseteq Docs /\ frame_id \in [Docs -> Nat] /\ version \in [Handles -> Nat]
        /\ now \in Docs \cup {NoDoc} /\ nops \subseteq Docs /\ batch \subseteq Docs
        /\ current_block \in 0..block_count /\ prev_block \in 0..block_count
        /\ uses \subseteq Use /\ deferred \subseteq Address /\ clears \in Nat
    BY <1>1 DEF Init, None
  <2>6. /\ pending_clear \in BOOLEAN /\ requires_frame_build \in BOOLEAN
        /\ pending_gpu_cache_clear \in BOOLEAN /\ spoiled \in BOOLEAN
    BY DEF Init
  <2> QED  BY <1>1, <2>1, <2>2, <2>3, <2>4, <2>5, <2>6 DEF TypeOK
<1>3. LineOK
  <2>1. results \in Seq({}) /\ Len(results) = 0
    BY DEF Init
  <2> QED  BY <2>1 DEF LineOK
<1>4. Chained(blocks, None, {})
  BY ChainEmpty
<1>5. ChainsOK
  <2>1. \A c \in Classes : FreeSet(c) = {} /\ free_lists[c] = None
    BY <1>1 DEF FreeSet
  <2>2. \A d \in Docs : OccupiedSet(d) = {} /\ occupied_list_heads[d] = None
    BY <1>1 DEF OccupiedSet
  <2>3. \A c \in Classes : Chained(blocks, free_lists[c], FreeSet(c))
    BY <1>4, <2>1
  <2>4. \A d \in Docs : Chained(blocks, occupied_list_heads[d], OccupiedSet(d))
    BY <1>4, <2>2
  <2> QED  BY <2>3, <2>4 DEF ChainsOK
<1>6. BlocksOK
  BY <1>1 DEF Init, BlocksOK, NoLocation, Valid
<1>7. LoopOK
  BY DEF Init, LoopOK
<1> QED  BY <1>2, <1>3, <1>5, <1>6, <1>7 DEF BasicInv

LEMMA BasicNext == BasicInv /\ [Next]_vars => BasicInv'
<1> SUFFICES ASSUME BasicInv, [Next]_vars PROVE BasicInv'
  OBVIOUS
<1>1. CASE UNCHANGED vars
  BY <1>1 DEF vars, cacheVars, textureVars, backendVars, rendererVars, BasicInv, TypeOK, LineOK, ChainsOK,
     BlocksOK, LoopOK, IsMap, Active, FreeSet, OccupiedSet, Owned, Free, Valid
<1>2. ASSUME NEW ds \in SUBSET Docs, StartGroup(ds) PROVE BasicInv'
  BY <1>2, StartGroupBasic
<1>3. ASSUME NEW d \in Docs, BeginFrame(d) \/ AddDocument(d) \/ DeleteDocument(d) PROVE BasicInv'
  BY <1>3, BeginFrameBasic, DocumentsBasic
<1>4. CASE EvictOld \/ KeepRecent \/ EndFrame \/ DropCaches
  BY <1>4, EvictOldBasic, KeepRecentBasic, EndFrameBasic, DropCachesBasic
<1>5. ASSUME NEW h \in Handles, Request(h) \/ Invalidate(h) \/ Update(h) PROVE BasicInv'
  BY <1>5, RequestBasic, InvalidateBasic, UpdateBasic
<1>6. ASSUME NEW c \in Classes, PushPerFrame(c) PROVE BasicInv'
  <2>1. now \in Docs /\ frame_id[now] \in Nat
    BY <1>6 DEF PushPerFrame, Building, BasicInv, TypeOK
  <2>2. <<now, frame_id[now]>> \in Data
    BY <2>1 DEF Data
  <2> QED  BY <1>6, <2>2, ForFrameBasic DEF PushPerFrame
<1>7. ASSUME NEW c \in Classes, PushDeferred(c) PROVE BasicInv'
  <2>1. External \in Data
    BY DEF Data
  <2> QED  BY <1>7, <2>1, ForFrameBasic DEF PushDeferred
<1>8. CASE Renderer
  BY <1>8, TakeBasic, RenderBasic DEF Renderer
<1> QED  BY <1>1, <1>2, <1>3, <1>4, <1>5, <1>6, <1>7, <1>8 DEF Next, RenderBackend

-----------------------------------------------------------------------------
(* The line and what is referred to, step by step.                         *)

Stamped == now # NoDoc => frame_id[now] > 0

KeptInv ==
  /\ FramesKept(Line, active_documents, taken_base)
  /\ UsesKept /\ FramesOK(Line, active_documents)
  /\ BasesOK(Line, active_documents, taken_base)
  /\ Owed(Line, active_documents)
  /\ Stamped

IInv == BasicInv /\ KeptInv /\ DataInv

LEMMA LineFacts ==
  ASSUME BasicInv
  PROVE  /\ Len(Line) \in Nat /\ Len(Line) = Len(results) + 1 /\ Len(results) \in Nat
         /\ \A i \in 1..Len(results) : Line[i] = results[i]
         /\ Line[Len(Line)] = PendingList /\ IsList(Line, Len(Line))
         /\ PendingList.clear = pending_clear /\ PendingList.updates = updates
         /\ PendingList.base = base_epoch /\ PendingList.kind = "gpu"
         /\ \A i \in 1..Len(Line) : GoodMessage(Line[i])
         /\ \A i \in 1..Len(Line) : IsList(Line, i) => Line[i].base \in Int
         /\ \A i \in 1..Len(Line) : Line[i].kind = "document" => Line[i].frame.base \in Int
         /\ \A d \in DOMAIN active_documents : d \in Docs /\ active_documents[d].base \in Int
         /\ taken_base \in Int /\ base_epoch \in Int
<1> USE DEF BasicInv
<1>1. PICK S : results \in Seq(S)
  BY DEF LineOK
<1>2. results \in Seq(S \cup {PendingList})
  BY <1>1
<1>3. /\ Len(results) \in Nat /\ Len(Line) = Len(results) + 1 /\ Len(Line) \in Nat
      /\ Line[Len(Line)] = PendingList /\ \A i \in 1..Len(results) : Line[i] = results[i]
  <2> DEFINE pl == PendingList
  <2>1. pl \in S \cup {pl} /\ results \in Seq(S \cup {pl}) /\ Line = Append(results, pl)
    BY <1>2 DEF Line
  <2> HIDE DEF pl
  <2>2. /\ Len(results) \in Nat /\ Len(Line) = Len(results) + 1 /\ Len(Line) \in Nat
        /\ Line[Len(Line)] = pl /\ \A i \in 1..Len(results) : Line[i] = results[i]
    BY <2>1
  <2> QED  BY <2>2 DEF pl
<1>4. /\ PendingList.clear = pending_clear /\ PendingList.updates = updates
      /\ PendingList.base = base_epoch /\ PendingList.kind = "gpu"
  BY DEF PendingList
<1>5. pending_clear \in BOOLEAN /\ IsMap(updates) /\ base_epoch \in Epochs /\ taken_base \in Epochs
  BY DEF TypeOK
<1>6. GoodMessage(PendingList)
  BY <1>4, <1>5 DEF GoodMessage
<1>7. ASSUME NEW i \in 1..Len(Line) PROVE GoodMessage(Line[i])
  <2>1. i = Len(Line) \/ i \in 1..Len(results)
    BY <1>3
  <2> QED  BY <1>3, <1>6, <2>1 DEF LineOK
<1>8. \A e \in Epochs : e \in Int
  BY Constants DEF Epochs
<1>9. \A i \in 1..Len(Line) : IsList(Line, i) => Line[i].base \in Int
  BY <1>7, <1>8 DEF IsList, GoodMessage
<1>10. \A i \in 1..Len(Line) : Line[i].kind = "document" => Line[i].frame.base \in Int
  BY <1>7, <1>8 DEF GoodMessage, Frame
<1>11. \A d \in DOMAIN active_documents : d \in Docs /\ active_documents[d].base \in Int
  BY <1>8 DEF TypeOK, Active, Frame
<1>12. IsList(Line, Len(Line))
  BY <1>3, <1>4 DEF IsList
<1> QED  BY <1>3, <1>4, <1>5, <1>7, <1>8, <1>9, <1>10, <1>11, <1>12

(* What is kept stays kept.                                                *)
KeepsOn ==
  \A d \in Docs : \A a : Keeps(a, d, LastSent(d)) /\ OwnHandleAt(a, d) =>
    /\ Keeps(a, d, LastSent(d))' /\ OwnHandleAt(a, d)'
    /\ NoHandleAt(a) => NoHandleAt(a)'

UsesOn ==
  \A a : Keeps(a, now, frame_id[now]) /\ OwnHandleAt(a, now) =>
    /\ Keeps(a, now, frame_id[now])' /\ OwnHandleAt(a, now)'
    /\ NoHandleAt(a) => NoHandleAt(a)'

LEMMA FramesMove ==
  ASSUME KeepsOn, FramesKept(Line', active_documents', taken_base')
  PROVE  FramesKept(Line, active_documents, taken_base)'
<1>1. ASSUME NEW f, NEW d \in Docs, FrameKept(f, d) PROVE FrameKept(f, d)'
  <2>1. \A u \in f.uses : ~u.shared => Keeps(u.at, d, LastSent(d))' /\ OwnHandleAt(u.at, d)'
    BY <1>1 DEF FrameKept, KeepsOn
  <2>2. \A a \in f.deferred : OwnHandleAt(a, d)
    BY <1>1 DEF FrameKept, NoHandleAt, OwnHandleAt
  <2>3. \A a \in f.deferred : Keeps(a, d, LastSent(d))' /\ NoHandleAt(a)'
    BY <1>1, <2>2 DEF FrameKept, KeepsOn
  <2> QED  BY <2>1, <2>3 DEF FrameKept
<1> QED  BY <1>1 DEF FramesKept

(* push_data ...                                                           *)
LEMMA GivenKeeps ==
  ASSUME BasicInv, now \in Docs, NEW bs, IsRetired(bs, max_epoch'), BlockGiven(bs, Pushed),
         NEW H, Located(H), ListsTyped', base_epoch' = base_epoch,
         max_epoch' \in Nat, max_epoch <= max_epoch', now' = now, frame_id' = frame_id
  PROVE  /\ KeepsOn /\ UsesOn
         /\ \A d \in Docs : \A a, t : Keeps(a, d, t) => a # PushedAt
         /\ \A a : a = PushedAt => Keeps(a, now, frame_id[now])'
         /\ \A a : \A g \in Handles : a = PushedAt /\ Valid(g)' /\ HandleAt(g)' = a => g \in H
<1> USE DEF BasicInv
<1>1. /\ \A b \in 1..block_count : OldBlock(b) /\ blocks'[b].epoch = bs[b].epoch
      /\ Pushed \in 1..block_count'
  BY GivenOld
<1>2. /\ BlocksOK'
      /\ \A g \in Handles \ H : Valid(g)' => Valid(g) /\ HandleAt(g)' = HandleAt(g) /\ HandleAt(g) # PushedAt
      /\ \A g \in H : Valid(g)' /\ HandleAt(g)' = PushedAt
  BY GivenBlocks
<1>3. block_count \in Nat /\ block_count' \in Nat /\ block_count' >= block_count /\ frame_id[now] \in Nat
  BY BlockFacts DEF BlockGiven
<1>4. \A b \in 1..block_count : b # Pushed =>
           /\ blocks'[b].at = blocks[b].at /\ blocks'[b].owner = blocks[b].owner
           /\ blocks'[b].last_access_time = blocks[b].last_access_time
  BY <1>1 DEF OldBlock
<1>5. ASSUME NEW d \in Docs, NEW a, NEW t, Keeps(a, d, t)
      PROVE  /\ a # PushedAt
             /\ \E b \in 1..block_count' : blocks'[b].at = a /\ blocks'[b].owner = d /\ blocks'[b].last_access_time >= t
  <2>1. PICK b \in 1..block_count : blocks[b].at = a /\ blocks[b].owner = d /\ blocks[b].last_access_time >= t
    BY <1>5 DEF Keeps, Owned
  <2>2. b # Pushed /\ b \in 1..block_count' /\ blocks'[b].at = a
    BY <1>1, <2>1, Constants DEF OldBlock, Free
  <2>3. a # PushedAt
    BY <1>1, <1>2, <2>2 DEF BlocksOK, PushedAt
  <2> QED  BY <1>4, <2>1, <2>2, <2>3
<1>6. ASSUME NEW a, a # PushedAt, NoHandleAt(a) PROVE NoHandleAt(a)'
  BY <1>2, <1>6 DEF NoHandleAt
<1>7. ASSUME NEW a, NEW d, a # PushedAt, OwnHandleAt(a, d) PROVE OwnHandleAt(a, d)'
  BY <1>2, <1>7 DEF OwnHandleAt
<1>8. KeepsOn
  <2>1. \A d : LastSent(d)' = LastSent(d)
    BY DEF LastSent
  <2>2. ASSUME NEW a, NEW d \in Docs, Keeps(a, d, LastSent(d))
        PROVE  Keeps(a, d, LastSent(d))' /\ a # PushedAt
    BY <1>5, <2>1, <2>2 DEF Keeps, Owned
  <2> QED  BY <1>6, <1>7, <2>2 DEF KeepsOn
<1>9. UsesOn
  BY <1>5, <1>6, <1>7 DEF UsesOn, Keeps, Owned
<1>10. ASSUME NEW a, a = PushedAt PROVE Keeps(a, now, frame_id[now])'
  BY <1>1, <1>3, <1>10 DEF Keeps, Owned, PushedAt, BlockGiven
<1> QED  BY <1>2, <1>5, <1>8, <1>9, <1>10

(* ... request, of a handle that is in the cache ...                       *)
LEMMA TouchKeeps ==
  ASSUME BasicInv, now \in Docs, NEW h \in Handles, now \in Users[h], Touch(h),
         UNCHANGED <<base_epoch, max_epoch, now, frame_id>>
  PROVE  /\ KeepsOn /\ UsesOn
         /\ \A g \in Handles : Valid(g)' => Valid(g) /\ HandleAt(g)' = HandleAt(g)
         /\ Users[h] = {now} => \A a : a = HandleAt(h) => Keeps(a, now, frame_id[now])' /\ OwnHandleAt(a, now)'
<1> USE DEF BasicInv
<1> DEFINE k == location[h].block
<1>1. /\ StaysPut /\ max_epoch' \in Nat /\ k \in 1..block_count
      /\ blocks'[k].last_access_time = frame_id[now]
      /\ \A b \in 1..block_count : b # k => blocks'[b] = blocks[b]
  BY TouchStays
<1>2. /\ ListsTyped' /\ ChainsOK' /\ BlocksOK'
      /\ \A g \in Handles : Valid(g)' => Valid(g) /\ HandleAt(g)' = HandleAt(g)
  BY <1>1, SameLists
<1>3. /\ block_count' = block_count /\ location' = location
      /\ \A b \in 1..block_count : blocks'[b].at = blocks[b].at /\ blocks'[b].owner = blocks[b].owner
  BY <1>1 DEF StaysPut
<1>4. Valid(h) /\ HandleAt(h) = blocks[k].at /\ blocks[k].owner \in Users[h]
  <2>1. Valid(h)
    BY DEF Touch
  <2>2. location[h].epoch = blocks[k].epoch /\ k # None /\ location[h].epoch >= base_epoch
    BY <1>1, <2>1, BlockFacts DEF Valid, None
  <2> QED  BY <1>1, <2>1, <2>2 DEF BlocksOK, HandleAt
<1>5. \A d \in Docs : LastSent(d)' = LastSent(d) /\ LastSent(d) \in Int /\ frame_id[now] \in Nat
                      /\ (d = now => LastSent(d) <= frame_id[now])
  BY BlockFacts DEF LastSent
<1>6. ASSUME NEW d \in Docs, NEW a, NEW t, Keeps(a, d, t), OwnHandleAt(a, d), d = now => t <= frame_id[now]
      PROVE  \E b \in 1..block_count' : blocks'[b].at = a /\ blocks'[b].owner = d /\ blocks'[b].last_access_time >= t
  <2>1. PICK b \in 1..block_count : blocks[b].at = a /\ blocks[b].owner = d /\ blocks[b].last_access_time >= t
    BY <1>6 DEF Keeps, Owned
  <2>2. CASE b # k
    BY <1>1, <1>3, <2>1, <2>2
  <2>3. CASE b = k
    <3>1. Users[h] = {d}
      BY <1>4, <1>6, <2>1, <2>3 DEF OwnHandleAt
    <3>2. d = now
      BY <3>1
    <3> QED  BY <1>1, <1>3, <1>5, <1>6, <2>1, <2>3, <3>2
  <2> QED  BY <2>2, <2>3
<1>7. ASSUME NEW a, NoHandleAt(a) PROVE NoHandleAt(a)'
  BY <1>2, <1>7 DEF NoHandleAt
<1>8. ASSUME NEW a, NEW d, OwnHandleAt(a, d) PROVE OwnHandleAt(a, d)'
  BY <1>2, <1>8 DEF OwnHandleAt
<1>9. KeepsOn
  BY <1>5, <1>6, <1>7, <1>8 DEF KeepsOn, Keeps, Owned
<1>10. UsesOn
  <2>1. frame_id[now] <= frame_id[now]
    BY <1>5
  <2>2. ASSUME NEW a, Keeps(a, now, frame_id[now]), OwnHandleAt(a, now)
        PROVE  /\ \E b \in 1..block_count' : /\ blocks'[b].at = a /\ blocks'[b].owner = now
                                            /\ blocks'[b].last_access_time >= frame_id[now]
               /\ OwnHandleAt(a, now)'
    <3>1. OwnHandleAt(a, now)'
      BY <1>2, <2>2 DEF OwnHandleAt
    <3> QED  BY <1>6, <2>1, <2>2, <3>1
  <2> QED  BY <1>7, <2>2 DEF UsesOn, Keeps, Owned
<1>11. ASSUME Users[h] = {now}, NEW a, a = HandleAt(h)
       PROVE  Keeps(a, now, frame_id[now])' /\ OwnHandleAt(a, now)'
  <2>1. blocks[k].owner = now /\ blocks[k].at = a
    BY <1>4, <1>11
  <2>2. Keeps(a, now, frame_id[now])'
    BY <1>1, <1>3, <1>5, <2>1 DEF Keeps, Owned
  <2>3. ASSUME NEW g \in Handles, Valid(g), HandleAt(g) = a PROVE g = h
    <3>1. location[g].block \in 1..block_count /\ blocks[location[g].block].at = blocks[k].at
      BY <2>1, <2>3 DEF Valid, HandleAt
    <3>2. location[g].block = k
      BY <1>1, <3>1 DEF BlocksOK
    <3> QED  BY <1>4, <2>3, <3>2 DEF BlocksOK
  <2>4. OwnHandleAt(a, now)'
    BY <1>2, <1>11, <2>3 DEF OwnHandleAt
  <2> QED  BY <2>2, <2>4
<1> QED  BY <1>2, <1>9, <1>10, <1>11

(* ... blocks that stay on their lists ...                                 *)
LEMMA StaysKeeps ==
  ASSUME BasicInv, StaysPut, max_epoch' \in Nat,
         \A b \in 1..block_count : blocks'[b].last_access_time = blocks[b].last_access_time
  PROVE  /\ \A g \in Handles : Valid(g)' => Valid(g) /\ HandleAt(g)' = HandleAt(g)
         /\ \A d, a, t : Keeps(a, d, t) =>
              \E b \in 1..block_count' : blocks'[b].at = a /\ blocks'[b].owner = d /\ blocks'[b].last_access_time >= t
         /\ \A a : NoHandleAt(a) => NoHandleAt(a)'
         /\ \A a, d : OwnHandleAt(a, d) => \A g \in Handles : Valid(g)' /\ HandleAt(g)' = a => Users[g] = {d}
         /\ (\A d \in Docs : LastSent(d)' = LastSent(d)) => KeepsOn
         /\ (now' = now /\ frame_id' = frame_id) => UsesOn
<1>1. \A g \in Handles : Valid(g)' => Valid(g) /\ HandleAt(g)' = HandleAt(g)
  BY SameLists
<1>2. /\ block_count' = block_count
      /\ \A b \in 1..block_count : blocks'[b].at = blocks[b].at /\ blocks'[b].owner = blocks[b].owner
  BY DEF StaysPut
<1>3. ASSUME NEW d, NEW a, NEW t, Keeps(a, d, t)
      PROVE \E b \in 1..block_count' : blocks'[b].at = a /\ blocks'[b].owner = d /\ blocks'[b].last_access_time >= t
  BY <1>2, <1>3 DEF Keeps, Owned
<1>4. ASSUME NEW a, NoHandleAt(a) PROVE NoHandleAt(a)'
  BY <1>1, <1>4 DEF NoHandleAt
<1>5. ASSUME NEW a, NEW d, OwnHandleAt(a, d), NEW g \in Handles, Valid(g)', HandleAt(g)' = a PROVE Users[g] = {d}
  BY <1>1, <1>5 DEF OwnHandleAt
<1>6. ASSUME \A d \in Docs : LastSent(d)' = LastSent(d) PROVE KeepsOn
  <2>1. ASSUME NEW d \in Docs, NEW a, Keeps(a, d, LastSent(d)), OwnHandleAt(a, d)
        PROVE  Keeps(a, d, LastSent(d))' /\ OwnHandleAt(a, d)'
    <3>1. Keeps(a, d, LastSent(d))'
      BY <1>3, <1>6, <2>1 DEF Keeps, Owned
    <3>2. OwnHandleAt(a, d)'
      BY <1>5, <2>1 DEF OwnHandleAt
    <3> QED  BY <3>1, <3>2
  <2> QED  BY <1>4, <2>1 DEF KeepsOn
<1>7. ASSUME now' = now, frame_id' = frame_id PROVE UsesOn
  <2>1. ASSUME NEW a, Keeps(a, now, frame_id[now]), OwnHandleAt(a, now)
        PROVE  Keeps(a, now, frame_id[now])' /\ OwnHandleAt(a, now)'
    <3>1. Keeps(a, now, frame_id[now])'
      BY <1>3, <1>7, <2>1 DEF Keeps, Owned
    <3>2. OwnHandleAt(a, now)'
      BY <1>5, <1>7, <2>1 DEF OwnHandleAt
    <3> QED  BY <3>1, <3>2
  <2> QED  BY <1>4, <2>1 DEF UsesOn
<1> QED  BY <1>1, <1>3, <1>4, <1>5, <1>6, <1>7

(* ... and evict_old_blocks, which spares what its document's last frame   *)
(* requested.                                                              *)
LEMMA EvictKeeps ==
  ASSUME BasicInv, EvictOld
  PROVE  KeepsOn /\ \A g \in Handles : Valid(g)' => Valid(g) /\ HandleAt(g)' = HandleAt(g)
<1> USE DEF BasicInv
<1>1. /\ \A i \in 1..block_count :
           /\ blocks'[i].at = blocks[i].at /\ blocks'[i].last_access_time = blocks[i].last_access_time
           /\ i # current_block => blocks'[i].owner = blocks[i].owner
      /\ current_block \in 1..block_count /\ Owned(current_block, now) /\ Old(current_block)
      /\ now \in Docs
      /\ \A g \in Handles : Valid(g)' => Valid(g) /\ HandleAt(g)' = HandleAt(g)
  BY EvictedLists
<1>2. block_count' = block_count /\ now' = now /\ frame_id' = frame_id
  BY DEF EvictOld
<1>3. \A d : LastSent(d)' = LastSent(d)
  BY <1>2 DEF LastSent
<1>4. blocks[current_block].last_access_time < LastSent(now)
  <2>1. /\ blocks[current_block].last_access_time \in Nat /\ frame_id[now] \in Nat
        /\ FramesBeforeEviction \in Nat /\ FramesBeforeEviction >= 1
    BY <1>1, BlockFacts, Constants
  <2>2. blocks[current_block].last_access_time + FramesBeforeEviction < frame_id[now]
    BY <1>1 DEF Old
  <2> QED  BY <2>1, <2>2 DEF LastSent
<1>5. ASSUME NEW d \in Docs, NEW a, Keeps(a, d, LastSent(d)), OwnHandleAt(a, d)
      PROVE  Keeps(a, d, LastSent(d))' /\ OwnHandleAt(a, d)'
  <2>1. PICK b \in 1..block_count : /\ blocks[b].at = a /\ blocks[b].owner = d
                                    /\ blocks[b].last_access_time >= LastSent(d)
    BY <1>5 DEF Keeps, Owned
  <2>2. b # current_block
    <3>1. blocks[current_block].owner = now
      BY <1>1 DEF Owned
    <3>2. blocks[b].last_access_time \in Int /\ LastSent(d) \in Int
      BY BlockFacts DEF LastSent
    <3> QED  BY <1>4, <2>1, <3>1, <3>2
  <2>3. Keeps(a, d, LastSent(d))'
    BY <1>1, <1>2, <1>3, <2>1, <2>2 DEF Keeps, Owned
  <2>4. OwnHandleAt(a, d)'
    BY <1>1, <1>5 DEF OwnHandleAt
  <2> QED  BY <2>3, <2>4
<1>6. ASSUME NEW a, NoHandleAt(a) PROVE NoHandleAt(a)'
  BY <1>1, <1>6 DEF NoHandleAt
<1> QED  BY <1>1, <1>5, <1>6 DEF KeepsOn

(* Steps that leave the line and the renderer as they are.                 *)
LineStays == UNCHANGED <<results, pending_clear, updates, base_epoch, rendererVars>>

LEMMA LineStaysFacts ==
  ASSUME LineStays
  PROVE  /\ Line' = Line /\ active_documents' = active_documents /\ taken_base' = taken_base
         /\ Uploaded' = Uploaded /\ spoiled' = spoiled
BY DEF LineStays, Line, PendingList, Uploaded, rendererVars

LEMMA StaysData ==
  ASSUME DataInv, Line' = Line, active_documents' = active_documents, taken_base' = taken_base,
         Uploaded' = Uploaded, spoiled' = spoiled,
         \A u \in PlainUses' : u \in PlainUses \/ \E h \in Handles :
            Valid(h) /\ u.at = HandleAt(h) /\ u.data = <<h, version[h]>>,
         \A h \in Handles : Valid(h)' => Valid(h) /\ HandleAt(h)' = HandleAt(h) /\ version'[h] = version[h]
  PROVE  DataInv'
<1>1. DeferredApart(Line', active_documents', taken_base')
  BY DEF DataInv
<1>2. InUse' \subseteq InUse
  <2>1. \A u \in PlainUses' : u.at \in InUse
    BY DEF InUse
  <2>2. \A h \in Handles : Valid(h)' => HandleAt(h)' \in InUse
    BY DEF InUse
  <2> QED  BY <2>1, <2>2 DEF InUse
<1>3. DeferredBefore(Line', active_documents', taken_base', InUse')
  BY <1>2 DEF DataInv, DeferredBefore
<1>4. ASSUME ~spoiled'
      PROVE  /\ FramesHold(Line', Uploaded', active_documents', taken_base')
             /\ \A u \in PlainUses' : Holds(Line', Uploaded', Len(Line'), u.at, u.data)
             /\ \A h \in Handles : Valid(h)' => Holds(Line', Uploaded', Len(Line'), HandleAt(h)', <<h, version'[h]>>)
  <2>1. /\ FramesHold(Line, Uploaded, active_documents, taken_base)
        /\ UsesHold(Line, Uploaded) /\ HandlesHold(Line, Uploaded)
    BY <1>4 DEF DataInv
  <2>2. \A u \in PlainUses' : Holds(Line, Uploaded, Len(Line), u.at, u.data)
    BY <2>1 DEF UsesHold, HandlesHold
  <2>3. \A h \in Handles : Valid(h)' => Holds(Line, Uploaded, Len(Line), HandleAt(h)', <<h, version'[h]>>)
    BY <2>1 DEF HandlesHold
  <2> QED  BY <2>1, <2>2, <2>3
<1> QED  BY <1>1, <1>3, <1>4 DEF DataInv, UsesHold, HandlesHold

(* A block that nobody refers to is taken and data is copied to it.        *)
LEMMA CopiedData ==
  ASSUME DataInv, NEW n, n = Len(Line), NEW b, NEW y, IsCopy(Line, Line', n, b, y),
         Unused(Line, active_documents, taken_base, b),
         active_documents' = active_documents, taken_base' = taken_base,
         Uploaded' = Uploaded, spoiled' = spoiled,
         \A u \in PlainUses' : (u \in PlainUses /\ u.at # b) \/ (u.at = b /\ u.data = y),
         \A h \in Handles : Valid(h)' =>
            \/ Valid(h) /\ HandleAt(h)' = HandleAt(h) /\ HandleAt(h) # b /\ version'[h] = version[h]
            \/ HandleAt(h)' = b /\ <<h, version'[h]>> = y
  PROVE  DataInv'
<1> DEFINE L == Line
           M == Line'
           A == active_documents
           T == taken_base
           U == Uploaded
<1>1. /\ DeferredApart(L, A, T) => DeferredApart(M, A, T)
      /\ \A S : DeferredBefore(L, A, T, S) => DeferredBefore(M, A, T, S \cup {b})
      /\ FramesHold(L, U, A, T) => FramesHold(M, U, A, T)
      /\ \A a, x : a # b /\ Holds(L, U, n, a, x) => Holds(M, U, n, a, x)
      /\ Holds(M, U, n, b, y)
  <2> HIDE DEF L, M, A, T, U
  <2>1. IsCopy(L, M, n, b, y) /\ Unused(L, A, T, b)
    BY DEF L, M, A, T
  <2> QED  BY <2>1, CopyData
<1>2. Len(M) = n
  BY DEF IsCopy
<1>3. InUse' \subseteq InUse \cup {b}
  <2>1. \A u \in PlainUses' : u.at \in InUse \cup {b}
    BY DEF InUse
  <2>2. \A h \in Handles : Valid(h)' => HandleAt(h)' \in InUse \cup {b}
    BY DEF InUse
  <2> QED  BY <2>1, <2>2 DEF InUse
<1>4. DeferredApart(M, A, T) /\ DeferredBefore(M, A, T, InUse \cup {b})
  BY <1>1 DEF DataInv
<1>5. DeferredBefore(M, A, T, InUse')
  BY <1>3, <1>4 DEF DeferredBefore
<1>6. ASSUME ~spoiled'
      PROVE  /\ FramesHold(M, U, A, T)
             /\ \A u \in PlainUses' : Holds(M, U, n, u.at, u.data)
             /\ \A h \in Handles : Valid(h)' => Holds(M, U, n, HandleAt(h)', <<h, version'[h]>>)
  <2>1. FramesHold(L, U, A, T) /\ UsesHold(L, U) /\ HandlesHold(L, U)
    BY <1>6 DEF DataInv
  <2>2. \A u \in PlainUses : Holds(L, U, n, u.at, u.data)
    BY <2>1 DEF UsesHold
  <2>3. \A h \in Handles : Valid(h) => Holds(L, U, n, HandleAt(h), <<h, version[h]>>)
    BY <2>1 DEF HandlesHold
  <2> HIDE DEF L, M, A, T, U
  <2> QED  BY <1>1, <2>1, <2>2, <2>3
<1> QED  BY <1>2, <1>4, <1>5, <1>6 DEF DataInv, UsesHold, HandlesHold

LEMMA AppendFacts ==
  ASSUME NEW S, NEW r \in Seq(S), NEW m
  PROVE  /\ Len(r) \in Nat /\ Len(Append(r, m)) = Len(r) + 1
         /\ Append(r, m)[Len(r) + 1] = m /\ \A i \in 1..Len(r) : Append(r, m)[i] = r[i]
<1>1. r \in Seq(S \cup {m}) /\ m \in S \cup {m}
  OBVIOUS
<1> QED  BY <1>1

LEMMA CopyIs ==
  ASSUME BasicInv, UNCHANGED <<results, pending_clear, base_epoch>>, NEW y, Copy(y)
  PROVE  IsCopy(Line, Line', Len(Line), PushedAt, y)
<1> DEFINE n == Len(Line)
           b == PushedAt
<1>1. /\ n \in Nat /\ n = Len(results) + 1 /\ \A i \in 1..Len(results) : Line[i] = results[i]
      /\ Line[n] = PendingList /\ IsList(Line, n) /\ Len(results) \in Nat
      /\ PendingList.clear = pending_clear /\ PendingList.updates = updates
      /\ PendingList.base = base_epoch
  BY LineFacts
<1>2. PICK S : results \in Seq(S)
  BY DEF BasicInv, LineOK
<1>3. /\ Line' = Append(results, PendingList')
      /\ PendingList'.clear = pending_clear /\ PendingList'.updates = updates'
      /\ PendingList'.base = base_epoch /\ PendingList'.kind = "gpu"
  BY DEF Line, PendingList
<1>4. Len(Line') = n /\ Line'[n] = PendingList' /\ \A i \in 1..Len(results) : Line'[i] = results[i]
  BY <1>1, <1>2, <1>3, AppendFacts
<1>5. /\ DOMAIN updates' = DOMAIN updates \cup {b} /\ updates'[b] = y
      /\ \A a \in DOMAIN updates : a # b => updates'[a] = updates[a]
  BY DEF Copy, Override
<1>6. n \in Nat \ {0} /\ Len(results) = n - 1
  BY <1>1
<1> HIDE DEF n, b
<1>7. IsList(Line', n)
  BY <1>3, <1>4 DEF IsList
<1>8. IsCopy(Line, Line', n, b, y)
  BY <1>1, <1>3, <1>4, <1>5, <1>6, <1>7 DEF IsCopy, n
<1> QED  BY <1>8 DEF n, b

(* While a frame is built, the frames of the line stay what they are.      *)
LEMMA BuildKept ==
  ASSUME IInv, UNCHANGED unchangedByBuilding, KeepsOn,
         \/ Line' = Line
         \/ \E y : /\ IsCopy(Line, Line', Len(Line), PushedAt, y)
                   /\ Unused(Line, active_documents, taken_base, PushedAt)
  PROVE  /\ FramesKept(Line, active_documents, taken_base)' /\ FramesOK(Line, active_documents)'
         /\ BasesOK(Line, active_documents, taken_base)' /\ Owed(Line, active_documents)' /\ Stamped'
<1> DEFINE L == Line
           M == Line'
           A == active_documents
           T == taken_base
           b == PushedAt
           n == Len(L)
<1>1. /\ active_documents' = A /\ taken_base' = T /\ now' = now /\ frame_id' = frame_id
      /\ documents' = documents /\ requires_frame_build' = requires_frame_build /\ nops' = nops
      /\ batch' = batch /\ base_epoch' = base_epoch
  BY DEF unchangedByBuilding, rendererVars
<1>2. FramesKept(L, A, T) /\ FramesOK(L, A) /\ BasesOK(L, A, T) /\ Owed(L, A) /\ Stamped
  BY DEF IInv, KeptInv
<1>3. FramesKept(M, A, T) /\ FramesOK(M, A) /\ BasesOK(M, A, T) /\ Owed(M, A)
  <2>1. CASE M = L
    BY <1>2, <2>1
  <2>2. ASSUME NEW y, IsCopy(L, M, n, b, y), Unused(L, A, T, b)
        PROVE  FramesKept(M, A, T) /\ FramesOK(M, A) /\ BasesOK(M, A, T) /\ Owed(M, A)
    <3> HIDE DEF L, M, A, T, b, n
    <3>1. /\ FramesKept(L, A, T) => FramesKept(M, A, T)
          /\ FramesOK(L, A) => FramesOK(M, A)
          /\ Owed(L, A) => Owed(M, A)
      BY <2>2, CopyData
    <3>2. BasesOK(M, A, T)
      BY <1>2, <2>2, CopyBases
    <3> QED  BY <1>2, <3>1, <3>2
  <2> QED  BY <2>1, <2>2
<1>4. FramesKept(Line, active_documents, taken_base)'
  BY <1>1, <1>3, FramesMove
<1>5. FramesOK(Line, active_documents)'
  BY <1>1, <1>3 DEF FramesOK
<1>6. BasesOK(Line, active_documents, taken_base)'
  BY <1>1, <1>3
<1>7. Owed(Line, active_documents)'
  BY <1>1, <1>3 DEF Owed, Between
<1>8. Stamped'
  BY <1>1, <1>2 DEF Stamped
<1> QED  BY <1>4, <1>5, <1>6, <1>7, <1>8

LEMMA BuildUses ==
  ASSUME UsesKept, UsesOn, now' = now, frame_id' = frame_id, deferred \subseteq deferred',
         \A u \in uses' : \/ u \in uses
                          \/ /\ ~u.shared => Keeps(u.at, now, frame_id[now])' /\ OwnHandleAt(u.at, now)'
                             /\ u.data = External => u.at \in deferred'
                             /\ Plain(u) => u.at \notin deferred',
         \A a \in deferred' : \/ a \in deferred
                              \/ /\ Keeps(a, now, frame_id[now])' /\ NoHandleAt(a)'
                                 /\ \A u \in PlainUses : u.at # a
  PROVE  UsesKept'
<1>1. \A u \in uses' : ~u.shared => Keeps(u.at, now, frame_id[now])' /\ OwnHandleAt(u.at, now)'
  BY DEF UsesKept, UsesOn
<1>2. ASSUME NEW a \in deferred' PROVE Keeps(a, now, frame_id[now])' /\ NoHandleAt(a)'
  <2>1. CASE a \in deferred
    <3>1. Keeps(a, now, frame_id[now]) /\ NoHandleAt(a)
      BY <2>1 DEF UsesKept
    <3>2. OwnHandleAt(a, now)
      BY <3>1 DEF NoHandleAt, OwnHandleAt
    <3> QED  BY <3>1, <3>2 DEF UsesOn
  <2> QED  BY <2>1
<1>3. ASSUME NEW a \in deferred', NEW u \in uses', Plain(u) PROVE u.at # a
  <2>1. CASE u \in uses /\ a \in deferred
    BY <1>3, <2>1 DEF UsesKept, PlainUses
  <2>2. CASE u \in uses /\ a \notin deferred
    BY <1>3, <2>2 DEF PlainUses
  <2>3. CASE u \notin uses
    BY <1>3, <2>3
  <2> QED  BY <2>1, <2>2, <2>3
<1>4. \A u \in uses' : u.data = External => u.at \in deferred'
  BY DEF UsesKept
<1> QED  BY <1>1, <1>2, <1>3, <1>4 DEF UsesKept, PlainUses

LEMMA UnusedPushed ==
  ASSUME IInv, \A d \in Docs : \A a, t : Keeps(a, d, t) => a # PushedAt
  PROVE  Unused(Line, active_documents, taken_base, PushedAt)
<1>1. FramesKept(Line, active_documents, taken_base)
  BY DEF IInv, KeptInv
<1> DEFINE L == Line
           A == active_documents
           T == taken_base
           b == PushedAt
<1> HIDE DEF L, A, T, b
<1>2. FramesKept(L, A, T) /\ \A d \in Docs : \A a, t : Keeps(a, d, t) => a # b
  BY <1>1 DEF L, A, T, b
<1>3. Unused(L, A, T, b)
  BY <1>2 DEF Unused, FramesKept, FrameKept, Plain
<1> QED  BY <1>3 DEF L, A, T, b

-----------------------------------------------------------------------------
(* A frame is built.                                                       *)

LEMMA BuildingNow ==
  ASSUME BasicInv, UNCHANGED unchangedByBuilding
  PROVE  /\ UNCHANGED <<results, pending_clear, base_epoch, now, frame_id>>
         /\ active_documents' = active_documents /\ taken_base' = taken_base
         /\ Uploaded' = Uploaded /\ spoiled' = spoiled
         /\ UNCHANGED updates => Line' = Line
BY DEF unchangedByBuilding, rendererVars, Uploaded, Line, PendingList

(* The use that a request adds.                                            *)
UseOf(h, at) == [of |-> h, at |-> at, data |-> <<h, version'[h]>>, shared |-> Users[h] # {now}]

LEMMA UsingIs ==
  ASSUME NEW h \in Handles, NEW at, version'[h] \in Nat, Using(h, at)
  PROVE  /\ \A u \in uses' : u \in uses \/ u = UseOf(h, at)
         /\ UseOf(h, at).at = at /\ UseOf(h, at).data = <<h, version'[h]>>
         /\ UseOf(h, at).data # External
         /\ ~UseOf(h, at).shared => Users[h] = {now}
<1>1. uses' \subseteq uses \cup {UseOf(h, at)}
  BY DEF Using, UseOf
<1>2. <<h, version'[h]>> # External
  BY Constants
<1>3. /\ UseOf(h, at).at = at /\ UseOf(h, at).data = <<h, version'[h]>>
      /\ UseOf(h, at).shared = (Users[h] # {now})
  BY DEF UseOf
<1> QED  BY <1>1, <1>2, <1>3

LEMMA TouchNext ==
  ASSUME IInv, NEW h \in Handles, Building, now \in Users[h], Touch(h),
         UNCHANGED version, UNCHANGED <<max_epoch, deferred, unchangedByBuilding>>
  PROVE  KeptInv' /\ DataInv'
<1>1. BasicInv /\ UsesKept /\ DataInv /\ now \in Docs
  BY DEF IInv, KeptInv, Building, BasicInv, TypeOK
<1>2. /\ UNCHANGED <<base_epoch, max_epoch, now, frame_id>>
      /\ Line' = Line /\ active_documents' = active_documents /\ taken_base' = taken_base
      /\ Uploaded' = Uploaded /\ spoiled' = spoiled
  BY <1>1, BuildingNow DEF Touch
<1>3. /\ KeepsOn /\ UsesOn
      /\ \A g \in Handles : Valid(g)' => Valid(g) /\ HandleAt(g)' = HandleAt(g)
      /\ Users[h] = {now} => \A a : a = HandleAt(h) => Keeps(a, now, frame_id[now])' /\ OwnHandleAt(a, now)'
  BY <1>1, <1>2, TouchKeeps
<1>4. /\ FramesKept(Line, active_documents, taken_base)' /\ FramesOK(Line, active_documents)'
      /\ BasesOK(Line, active_documents, taken_base)' /\ Owed(Line, active_documents)' /\ Stamped'
  BY <1>2, <1>3, BuildKept
<1>5. version'[h] = version[h] /\ version'[h] \in Nat /\ Valid(h) /\ HandleAt(h) = blocks[location[h].block].at
  BY <1>1, BlockFacts DEF BasicInv, Touch, HandleAt
<1> DEFINE w == UseOf(h, HandleAt(h))
<1>6. /\ \A u \in uses' : u \in uses \/ u = w
      /\ w.at = HandleAt(h) /\ w.data = <<h, version'[h]>> /\ w.data # External
      /\ ~w.shared => Users[h] = {now}
  <2>1. Using(h, HandleAt(h))
    BY <1>5 DEF Touch
  <2> QED  BY <1>5, <2>1, UsingIs
<1> HIDE DEF w
<1>7. UsesKept'
  <2>1. w.at \notin deferred
    BY <1>1, <1>5, <1>6 DEF UsesKept, NoHandleAt
  <2>2. \A u \in uses' : \/ u \in uses
                         \/ /\ ~u.shared => Keeps(u.at, now, frame_id[now])' /\ OwnHandleAt(u.at, now)'
                            /\ u.data = External => u.at \in deferred'
                            /\ Plain(u) => u.at \notin deferred'
    BY <1>3, <1>6, <2>1
  <2> QED  BY <1>1, <1>2, <1>3, <2>2, BuildUses
<1>8. DataInv'
  <2>1. \A u \in PlainUses' : u \in PlainUses \/ \E g \in Handles :
            Valid(g) /\ u.at = HandleAt(g) /\ u.data = <<g, version[g]>>
    BY <1>5, <1>6 DEF PlainUses
  <2> QED  BY <1>1, <1>2, <1>3, <2>1, StaysData
<1> QED  BY <1>4, <1>7, <1>8 DEF KeptInv

LEMMA FillNext ==
  ASSUME IInv, Building, UNCHANGED <<deferred, unchangedByBuilding>>,
         NEW bs, IsRetired(bs, max_epoch'), NEW h \in Handles, now \in Users[h],
         NEW c \in Classes, Fill(h, bs, c),
         max_epoch' \in Nat, max_epoch <= max_epoch',
         version' \in [Handles -> Nat], \A g \in Handles \ {h} : version'[g] = version[g]
  PROVE  KeptInv' /\ DataInv'
<1>1. BasicInv /\ UsesKept /\ DataInv /\ now \in Docs
  BY DEF IInv, KeptInv, Building, BasicInv, TypeOK
<1>2. /\ UNCHANGED <<results, pending_clear, base_epoch, now, frame_id>>
      /\ active_documents' = active_documents /\ taken_base' = taken_base
      /\ Uploaded' = Uploaded /\ spoiled' = spoiled
  BY <1>1, BuildingNow
<1>3. BlockGiven(bs, Pushed) /\ ListsTyped' /\ Located({h})
  <2>1. PushData(bs, c)
    BY DEF Fill
  <2> QED  BY <1>1, <2>1, DataGiven, FillLocated
<1>4. /\ KeepsOn /\ UsesOn
      /\ \A d \in Docs : \A a, t : Keeps(a, d, t) => a # PushedAt
      /\ \A a : a = PushedAt => Keeps(a, now, frame_id[now])'
      /\ \A a : \A g \in Handles : a = PushedAt /\ Valid(g)' /\ HandleAt(g)' = a => g \in {h}
  BY <1>1, <1>2, <1>3, GivenKeeps
<1>5. /\ \A g \in Handles \ {h} : Valid(g)' => Valid(g) /\ HandleAt(g)' = HandleAt(g) /\ HandleAt(g) # PushedAt
      /\ \A g \in {h} : Valid(g)' /\ HandleAt(g)' = PushedAt
  BY <1>1, <1>2, <1>3, GivenBlocks
<1> DEFINE y == <<h, version'[h]>>
<1>6. IsCopy(Line, Line', Len(Line), PushedAt, y)
  BY <1>1, <1>2, CopyIs DEF Fill
<1>7. Unused(Line, active_documents, taken_base, PushedAt)
  BY <1>4, UnusedPushed
<1>8. /\ FramesKept(Line, active_documents, taken_base)' /\ FramesOK(Line, active_documents)'
      /\ BasesOK(Line, active_documents, taken_base)' /\ Owed(Line, active_documents)' /\ Stamped'
  BY <1>4, <1>6, <1>7, BuildKept
<1> DEFINE w == UseOf(h, PushedAt)
<1>9. /\ \A u \in uses' : u \in uses \/ u = w
      /\ w.at = PushedAt /\ w.data = y /\ w.data # External
      /\ ~w.shared => Users[h] = {now}
  <2>1. Using(h, PushedAt) /\ version'[h] \in Nat
    BY DEF Fill
  <2> QED  BY <2>1, UsingIs
<1> HIDE DEF w, y
<1>10. /\ \A a \in deferred : a # PushedAt
       /\ \A u \in PlainUses : u.at # PushedAt
  BY <1>1, <1>4 DEF UsesKept, PlainUses, Plain
<1>11. UsesKept'
  <2>1. ASSUME Users[h] = {now}, NEW a, a = PushedAt
        PROVE  Keeps(a, now, frame_id[now])' /\ OwnHandleAt(a, now)'
    <3>1. Keeps(a, now, frame_id[now])'
      BY <1>4, <2>1
    <3>2. ASSUME NEW g \in Handles, Valid(g)', HandleAt(g)' = a PROVE Users[g] = {now'}
      BY <1>2, <1>4, <2>1, <3>2
    <3>3. OwnHandleAt(a, now)'
      BY <3>2 DEF OwnHandleAt
    <3> QED  BY <3>1, <3>3
  <2>2. \A u \in uses' : \/ u \in uses
                         \/ /\ ~u.shared => Keeps(u.at, now, frame_id[now])' /\ OwnHandleAt(u.at, now)'
                            /\ u.data = External => u.at \in deferred'
                            /\ Plain(u) => u.at \notin deferred'
    BY <1>9, <1>10, <2>1
  <2> QED  BY <1>1, <1>2, <1>4, <2>2, BuildUses
<1>12. DataInv'
  <2>1. \A u \in PlainUses' : (u \in PlainUses /\ u.at # PushedAt) \/ (u.at = PushedAt /\ u.data = y)
    BY <1>9, <1>10 DEF PlainUses
  <2>2. \A g \in Handles : Valid(g)' =>
            \/ Valid(g) /\ HandleAt(g)' = HandleAt(g) /\ HandleAt(g) # PushedAt /\ version'[g] = version[g]
            \/ HandleAt(g)' = PushedAt /\ <<g, version'[g]>> = y
    BY <1>5 DEF y
  <2> DEFINE n == Len(Line)
             b == PushedAt
  <2>3. n = Len(Line) /\ IsCopy(Line, Line', n, b, y) /\ Unused(Line, active_documents, taken_base, b)
    BY <1>6, <1>7 DEF y
  <2> HIDE DEF n
  <2> QED  BY <1>1, <1>2, <2>1, <2>2, <2>3, CopiedData
<1> QED  BY <1>8, <1>11, <1>12 DEF KeptInv

LEMMA PushNext ==
  ASSUME IInv, NEW c \in Classes, PushPerFrame(c) \/ PushDeferred(c)
  PROVE  KeptInv' /\ DataInv'
<1>1. /\ Building /\ PushData(blocks, c)
      /\ UNCHANGED <<max_epoch, version, location, unchangedByBuilding>>
      /\ \/ /\ Copy(<<now, frame_id[now]>>) /\ PushedForFrame(<<now, frame_id[now]>>)
            /\ deferred' = deferred
         \/ /\ PushedForFrame(External) /\ deferred' = deferred \cup {PushedAt} /\ updates' = updates
  BY DEF PushPerFrame, PushDeferred
<1>2. BasicInv /\ UsesKept /\ DataInv /\ now \in Docs
  BY <1>1 DEF IInv, KeptInv, Building, BasicInv, TypeOK
<1>3. /\ UNCHANGED <<results, pending_clear, base_epoch, now, frame_id>>
      /\ active_documents' = active_documents /\ taken_base' = taken_base
      /\ Uploaded' = Uploaded /\ spoiled' = spoiled
      /\ UNCHANGED updates => Line' = Line
  BY <1>1, <1>2, BuildingNow
<1>4. /\ IsRetired(blocks, max_epoch') /\ Located({})
      /\ max_epoch' \in Nat /\ max_epoch <= max_epoch'
  <2>1. IsRetired(blocks, max_epoch)
    BY <1>2, KeptIsRetired
  <2> QED  BY <1>1, <1>2, <2>1, BlockFacts DEF Located, BasicInv
<1>5. BlockGiven(blocks, Pushed) /\ ListsTyped'
  BY <1>1, <1>2, <1>4, DataGiven
<1>6. /\ KeepsOn /\ UsesOn
      /\ \A d \in Docs : \A a, t : Keeps(a, d, t) => a # PushedAt
      /\ \A a : a = PushedAt => Keeps(a, now, frame_id[now])'
      /\ \A a : \A g \in Handles : a = PushedAt /\ Valid(g)' /\ HandleAt(g)' = a => g \in {}
  BY <1>2, <1>3, <1>4, <1>5, GivenKeeps
<1>7. \A g \in Handles \ {} : Valid(g)' => Valid(g) /\ HandleAt(g)' = HandleAt(g) /\ HandleAt(g) # PushedAt
  BY <1>2, <1>3, <1>4, <1>5, GivenBlocks
<1>8. Unused(Line, active_documents, taken_base, PushedAt)
  BY <1>6, UnusedPushed
<1>9. /\ \A a \in deferred : a # PushedAt
      /\ \A u \in PlainUses : u.at # PushedAt
  BY <1>2, <1>6 DEF UsesKept, PlainUses, Plain
<1>10. ASSUME NEW a, a = PushedAt
       PROVE  Keeps(a, now, frame_id[now])' /\ OwnHandleAt(a, now)' /\ NoHandleAt(a)'
  <2>1. Keeps(a, now, frame_id[now])'
    BY <1>6, <1>10
  <2>2. OwnHandleAt(a, now)' /\ NoHandleAt(a)'
    BY <1>6, <1>10 DEF OwnHandleAt, NoHandleAt
  <2> QED  BY <2>1, <2>2
<1>11. CASE /\ Copy(<<now, frame_id[now]>>) /\ PushedForFrame(<<now, frame_id[now]>>)
            /\ deferred' = deferred
  <2> DEFINE y == <<now, frame_id[now]>>
             n == Len(Line)
             b == PushedAt
  <2>1. IsCopy(Line, Line', n, b, y) /\ n = Len(Line) /\ y # External
    <3>1. <<now, frame_id[now]>> # External
      BY <1>2, BlockFacts, Constants DEF BasicInv
    <3> QED  BY <1>2, <1>3, <1>11, <3>1, CopyIs
  <2>2. /\ FramesKept(Line, active_documents, taken_base)' /\ FramesOK(Line, active_documents)'
        /\ BasesOK(Line, active_documents, taken_base)' /\ Owed(Line, active_documents)' /\ Stamped'
    BY <1>1, <1>6, <1>8, <2>1, BuildKept
  <2>3. \A u \in uses' : u \in uses \/ (u.at = PushedAt /\ u.data = y /\ ~u.shared)
    BY <1>11 DEF PushedForFrame
  <2> HIDE DEF y, n
  <2>4. UsesKept'
    <3>1. \A u \in uses' : \/ u \in uses
                           \/ /\ ~u.shared => Keeps(u.at, now, frame_id[now])' /\ OwnHandleAt(u.at, now)'
                              /\ u.data = External => u.at \in deferred'
                              /\ Plain(u) => u.at \notin deferred'
      BY <1>9, <1>10, <1>11, <2>1, <2>3
    <3> QED  BY <1>2, <1>3, <1>6, <1>11, <3>1, BuildUses
  <2>5. DataInv'
    <3>1. \A u \in PlainUses' : (u \in PlainUses /\ u.at # b) \/ (u.at = b /\ u.data = y)
      BY <1>9, <2>3 DEF PlainUses
    <3>2. \A g \in Handles : Valid(g)' =>
            \/ Valid(g) /\ HandleAt(g)' = HandleAt(g) /\ HandleAt(g) # b /\ version'[g] = version[g]
            \/ HandleAt(g)' = b /\ <<g, version'[g]>> = y
      BY <1>1, <1>7
    <3> QED  BY <1>2, <1>3, <1>8, <2>1, <3>1, <3>2, CopiedData
  <2> QED  BY <2>2, <2>4, <2>5 DEF KeptInv
<1>12. CASE /\ PushedForFrame(External) /\ deferred' = deferred \cup {PushedAt} /\ updates' = updates
  <2>1. Line' = Line
    BY <1>3, <1>12
  <2>2. /\ FramesKept(Line, active_documents, taken_base)' /\ FramesOK(Line, active_documents)'
        /\ BasesOK(Line, active_documents, taken_base)' /\ Owed(Line, active_documents)' /\ Stamped'
    BY <1>1, <1>6, <2>1, BuildKept
  <2>3. \A u \in uses' : u \in uses \/ (u.at = PushedAt /\ u.data = External /\ ~u.shared)
    BY <1>12 DEF PushedForFrame
  <2>4. UsesKept'
    <3>1. \A u \in uses' : \/ u \in uses
                           \/ /\ ~u.shared => Keeps(u.at, now, frame_id[now])' /\ OwnHandleAt(u.at, now)'
                              /\ u.data = External => u.at \in deferred'
                              /\ Plain(u) => u.at \notin deferred'
      BY <1>10, <1>12, <2>3 DEF Plain
    <3>2. \A a \in deferred' : \/ a \in deferred
                              \/ /\ Keeps(a, now, frame_id[now])' /\ NoHandleAt(a)'
                                 /\ \A u \in PlainUses : u.at # a
      BY <1>9, <1>10, <1>12
    <3> QED  BY <1>2, <1>3, <1>6, <1>12, <3>1, <3>2, BuildUses
  <2>5. DataInv'
    <3>1. \A u \in PlainUses' : u \in PlainUses
      BY <2>3 DEF PlainUses, Plain
    <3>2. \A g \in Handles : Valid(g)' => Valid(g) /\ HandleAt(g)' = HandleAt(g) /\ version'[g] = version[g]
      BY <1>1, <1>7
    <3> QED  BY <1>2, <1>3, <2>1, <3>1, <3>2, StaysData
  <2> QED  BY <2>2, <2>4, <2>5 DEF KeptInv
<1> QED  BY <1>1, <1>11, <1>12

LEMMA InvalidateNext ==
  ASSUME IInv, NEW h \in Handles, Invalidate(h)
  PROVE  KeptInv' /\ DataInv'
<1>1. BasicInv /\ UsesKept /\ DataInv
  BY DEF IInv, KeptInv
<1>2. /\ NewVersion(h) /\ blocks' = Retired(h)
      /\ UNCHANGED <<block_count, rows, free_lists, occupied_list_heads, updates, location, uses,
                     deferred, unchangedByBuilding>>
  BY DEF Invalidate
<1>3. /\ UNCHANGED <<results, pending_clear, base_epoch, now, frame_id>>
      /\ active_documents' = active_documents /\ taken_base' = taken_base
      /\ Uploaded' = Uploaded /\ spoiled' = spoiled /\ Line' = Line
  BY <1>1, <1>2, BuildingNow
<1>4. /\ max_epoch' = RetiredMax(h) /\ max_epoch' <= MaxEpoch /\ IsRetired(Retired(h), max_epoch')
      /\ \A g \in Handles : g # h => version'[g] = version[g]
  BY <1>1, <1>2, NewVersionFacts
<1>5. StaysPut /\ ~Valid(h)' /\ max_epoch' \in Nat
  BY <1>1, <1>2, <1>3, <1>4, InvalidateStays
<1>6. \A b \in 1..block_count : blocks'[b].last_access_time = blocks[b].last_access_time
  BY <1>2, <1>4 DEF IsRetired
<1>7. /\ \A g \in Handles : Valid(g)' => Valid(g) /\ HandleAt(g)' = HandleAt(g)
      /\ KeepsOn /\ UsesOn
  <2>1. \A d \in Docs : LastSent(d)' = LastSent(d)
    BY <1>3 DEF LastSent
  <2> QED  BY <1>1, <1>3, <1>5, <1>6, <2>1, StaysKeeps
<1>8. /\ FramesKept(Line, active_documents, taken_base)' /\ FramesOK(Line, active_documents)'
      /\ BasesOK(Line, active_documents, taken_base)' /\ Owed(Line, active_documents)' /\ Stamped'
  BY <1>2, <1>3, <1>7, BuildKept
<1>9. UsesKept'
  BY <1>1, <1>2, <1>3, <1>7, BuildUses
<1>10. DataInv'
  <2>1. PlainUses' = PlainUses
    BY <1>2 DEF PlainUses
  <2>2. \A g \in Handles : Valid(g)' => Valid(g) /\ HandleAt(g)' = HandleAt(g) /\ version'[g] = version[g]
    BY <1>4, <1>5, <1>7
  <2> QED  BY <1>1, <1>3, <2>1, <2>2, StaysData
<1> QED  BY <1>8, <1>9, <1>10 DEF KeptInv

LEMMA RequestNext ==
  ASSUME IInv, NEW h \in Handles, Request(h)
  PROVE  KeptInv' /\ DataInv'
<1>1. /\ Building /\ now \in Users[h] /\ UNCHANGED version
      /\ UNCHANGED <<max_epoch, deferred, unchangedByBuilding>>
      /\ Touch(h) \/ \E c \in Classes : Fill(h, blocks, c)
  BY DEF Request
<1>2. CASE Touch(h)
  BY <1>1, <1>2, TouchNext
<1>3. ASSUME NEW c \in Classes, Fill(h, blocks, c) PROVE KeptInv' /\ DataInv'
  <2>1. BasicInv
    BY DEF IInv
  <2>2. IsRetired(blocks, max_epoch') /\ max_epoch' \in Nat /\ max_epoch <= max_epoch'
    <3>1. IsRetired(blocks, max_epoch)
      BY <2>1, KeptIsRetired
    <3> QED  BY <1>1, <2>1, <3>1, BlockFacts DEF BasicInv
  <2>3. version' \in [Handles -> Nat] /\ \A g \in Handles \ {h} : version'[g] = version[g]
    BY <1>1, <2>1 DEF BasicInv, TypeOK
  <2> QED  BY <1>1, <1>3, <2>2, <2>3, FillNext
<1> QED  BY <1>1, <1>2, <1>3

LEMMA UpdateNext ==
  ASSUME IInv, NEW h \in Handles, Update(h)
  PROVE  KeptInv' /\ DataInv'
<1>1. /\ NewVersion(h) /\ UNCHANGED <<deferred, unchangedByBuilding>>
      /\ BasicInv
  BY DEF Update, IInv
<1>2. PICK c \in Classes : Fill(h, Retired(h), c)
  BY DEF Update
<1>3. /\ Building /\ now \in Users[h] /\ version' \in [Handles -> Nat]
      /\ max_epoch' \in Nat /\ max_epoch <= max_epoch'
      /\ IsRetired(Retired(h), max_epoch')
      /\ \A g \in Handles : g # h => version'[g] = version[g]
  BY <1>1, NewVersionFacts
<1>4. \A g \in Handles \ {h} : version'[g] = version[g]
  BY <1>3
<1> QED  BY <1>1, <1>2, <1>3, <1>4, FillNext

-----------------------------------------------------------------------------
(* Between the frames, and in the loop over the occupied list.             *)

LEMMA IdleNext ==
  ASSUME IInv, LineStays, KeepsOn, uses' = {}, deferred' = {},
         \A g \in Handles : Valid(g)' => Valid(g) /\ HandleAt(g)' = HandleAt(g) /\ version'[g] = version[g],
         \A d \in Docs : frame_id[d] > 0 => frame_id'[d] > 0,
         Owed(Line, active_documents)', Stamped'
  PROVE  KeptInv' /\ DataInv'
<1>1. /\ Line' = Line /\ active_documents' = active_documents /\ taken_base' = taken_base
      /\ Uploaded' = Uploaded /\ spoiled' = spoiled
  BY LineStaysFacts
<1>2. /\ FramesKept(Line, active_documents, taken_base) /\ FramesOK(Line, active_documents)
      /\ BasesOK(Line, active_documents, taken_base) /\ DataInv
  BY DEF IInv, KeptInv
<1>3. FramesKept(Line, active_documents, taken_base)'
  BY <1>1, <1>2, FramesMove
<1>4. FramesOK(Line, active_documents)'
  BY <1>1, <1>2 DEF FramesOK
<1>5. BasesOK(Line, active_documents, taken_base)'
  BY <1>1, <1>2
<1>6. UsesKept'
  BY DEF UsesKept, PlainUses
<1>7. DataInv'
  <2>1. PlainUses' = {}
    BY DEF PlainUses
  <2> QED  BY <1>1, <1>2, <2>1, StaysData
<1> QED  BY <1>3, <1>4, <1>5, <1>6, <1>7 DEF KeptInv

LEMMA SameBlocksKeep ==
  ASSUME BasicInv, UNCHANGED <<textureVars, location, version>>,
         \A d \in Docs : LastSent(d)' = LastSent(d)
  PROVE  /\ KeepsOn
         /\ \A g \in Handles : Valid(g)' => Valid(g) /\ HandleAt(g)' = HandleAt(g) /\ version'[g] = version[g]
<1>1. StaysPut /\ max_epoch' \in Nat
  <2>1. blocks \in [1..block_count -> Block]
    BY DEF BasicInv, TypeOK
  <2>2. /\ UNCHANGED <<block_count, rows, free_lists, occupied_list_heads, location, base_epoch>>
        /\ max_epoch' = max_epoch /\ blocks' = blocks
    BY DEF textureVars
  <2> QED  BY <2>1, <2>2, BlockFacts DEF StaysPut, BasicInv
<1>2. blocks' = blocks
  BY DEF textureVars
<1> QED  BY <1>1, <1>2, StaysKeeps

LEMMA BeginFrameNext ==
  ASSUME IInv, NEW d \in Docs, BeginFrame(d)
  PROVE  KeptInv' /\ DataInv'
<1>1. BasicInv /\ FramesOK(Line, active_documents) /\ Owed(Line, active_documents)
  BY DEF IInv, KeptInv
<1>2. /\ now = NoDoc /\ now' = d /\ frame_id' = [frame_id EXCEPT ![d] = @ + 1]
      /\ nops' = nops \ {d} /\ batch' = batch \ {d} /\ d \in nops \cup batch
      /\ UNCHANGED <<cacheVars, documents, version, uses, deferred, clears, results, rendererVars>>
  BY DEF BeginFrame
<1>3. /\ LineStays /\ uses' = {} /\ deferred' = {}
      /\ UNCHANGED <<textureVars, location, version>>
  BY <1>1, <1>2 DEF LineStays, cacheVars, textureVars, BasicInv, LoopOK
<1>4. /\ frame_id \in [Docs -> Nat] /\ documents \subseteq Docs /\ NoDoc \notin Docs
  BY <1>1, Constants DEF BasicInv, TypeOK
<1>5. \A e \in Docs : /\ frame_id[e] \in Nat
                      /\ frame_id'[e] = IF e = d THEN frame_id[e] + 1 ELSE frame_id[e]
  BY <1>2, <1>4
<1>6. \A e \in Docs : LastSent(e)' = LastSent(e)
  BY <1>2, <1>4, <1>5 DEF LastSent
<1>7. /\ KeepsOn
      /\ \A g \in Handles : Valid(g)' => Valid(g) /\ HandleAt(g)' = HandleAt(g) /\ version'[g] = version[g]
  BY <1>1, <1>3, <1>6, SameBlocksKeep
<1>8. Owed(Line, active_documents)'
  <2>1. /\ Line' = Line /\ active_documents' = active_documents /\ documents' = documents
        /\ base_epoch' = base_epoch /\ requires_frame_build' = requires_frame_build
    BY <1>2, <1>3, LineStaysFacts DEF cacheVars, textureVars
  <2>2. ~Between /\ \A x \in documents : x \in nops \cup batch \cup {now} => x \in nops' \cup batch' \cup {now'}
    BY <1>2, <1>4 DEF Between
  <2> QED  BY <1>1, <2>1, <2>2 DEF Owed
<1>9. Stamped'
  BY <1>2, <1>5 DEF Stamped
<1>10. \A e \in Docs : frame_id[e] > 0 => frame_id'[e] > 0
  BY <1>5
<1> QED  BY <1>3, <1>7, <1>8, <1>9, <1>10, IdleNext

LEMMA LoopNext ==
  ASSUME IInv, EvictOld \/ KeepRecent
  PROVE  KeptInv' /\ DataInv'
<1>1. BasicInv /\ Owed(Line, active_documents) /\ Stamped
  BY DEF IInv, KeptInv
<1>2. /\ current_block # None
      /\ UNCHANGED <<base_epoch, updates, pending_clear, requires_frame_build, location, documents,
                     frame_id, version, now, nops, batch, uses, deferred, results, rendererVars>>
  BY DEF EvictOld, KeepRecent, cacheVars, textureVars
<1>3. LineStays /\ uses' = {} /\ deferred' = {}
  BY <1>1, <1>2 DEF LineStays, BasicInv, LoopOK
<1>4. /\ KeepsOn
      /\ \A g \in Handles : Valid(g)' => Valid(g) /\ HandleAt(g)' = HandleAt(g) /\ version'[g] = version[g]
  <2>1. CASE EvictOld
    BY <1>1, <1>2, <2>1, EvictKeeps
  <2>2. CASE KeepRecent
    <3>1. UNCHANGED <<textureVars, location, version>>
      BY <2>2 DEF KeepRecent, cacheVars
    <3>2. \A e \in Docs : LastSent(e)' = LastSent(e)
      BY <1>2 DEF LastSent
    <3> QED  BY <1>1, <3>1, <3>2, SameBlocksKeep
  <2> QED  BY <2>1, <2>2
<1>5. Owed(Line, active_documents)'
  <2>1. /\ Line' = Line /\ active_documents' = active_documents
    BY <1>3, LineStaysFacts
  <2> QED  BY <1>1, <1>2, <2>1 DEF Owed, Between
<1>6. Stamped' /\ \A e \in Docs : frame_id[e] > 0 => frame_id'[e] > 0
  BY <1>1, <1>2 DEF Stamped
<1> QED  BY <1>3, <1>4, <1>5, <1>6, IdleNext

LEMMA DocumentsNext ==
  ASSUME IInv, NEW d \in Docs, AddDocument(d) \/ DeleteDocument(d)
  PROVE  KeptInv' /\ DataInv'
<1>1. BasicInv /\ FramesOK(Line, active_documents) /\ Owed(Line, active_documents)
  BY DEF IInv, KeptInv
<1>2. /\ now = NoDoc /\ Between
      /\ \A x \in documents' : x \in documents \/ (x = d /\ frame_id[x] = 0)
      /\ UNCHANGED <<cacheVars, frame_id, version, now, nops, batch, uses, deferred, results, rendererVars>>
  BY DEF AddDocument, DeleteDocument, Between
<1>3. /\ LineStays /\ uses' = {} /\ deferred' = {}
      /\ UNCHANGED <<textureVars, location, version, requires_frame_build>>
  BY <1>1, <1>2 DEF LineStays, cacheVars, textureVars, BasicInv, LoopOK
<1>4. \A e \in Docs : LastSent(e)' = LastSent(e)
  BY <1>2 DEF LastSent
<1>5. /\ KeepsOn
      /\ \A g \in Handles : Valid(g)' => Valid(g) /\ HandleAt(g)' = HandleAt(g) /\ version'[g] = version[g]
  BY <1>1, <1>3, <1>4, SameBlocksKeep
<1>6. Owed(Line, active_documents)'
  <2>1. /\ Line' = Line /\ active_documents' = active_documents /\ base_epoch' = base_epoch
    BY <1>3, LineStaysFacts DEF LineStays
  <2>2. Between' /\ requires_frame_build' = requires_frame_build
    BY <1>2, <1>3 DEF Between
  <2>3. \A x \in documents', i \in Places(Line) : HasFrame(Line, active_documents, i, x) => x \in documents
    BY <1>1, <1>2 DEF FramesOK
  <2> QED  BY <1>1, <2>1, <2>2, <2>3 DEF Owed
<1>7. Stamped' /\ \A e \in Docs : frame_id[e] > 0 => frame_id'[e] > 0
  BY <1>2 DEF Stamped
<1> QED  BY <1>3, <1>5, <1>6, <1>7, IdleNext

(* The cache is cleared.                                                   *)
LEMMA ClearIs ==
  ASSUME BasicInv, Clear,
         results' = results \/ results' = Append(results, [kind |-> "pressure"])
  PROVE  \E m : IsCleared(Line, Line', Len(Line), m, max_epoch + 1)
<1> DEFINE n == Len(Line)
           e == max_epoch + 1
           p == [kind |-> "pressure"]
<1>1. /\ n \in Nat /\ n = Len(results) + 1 /\ \A i \in 1..Len(results) : Line[i] = results[i]
      /\ Line[n] = PendingList /\ IsList(Line, n) /\ Len(results) \in Nat
      /\ PendingList.base = base_epoch
  BY LineFacts
<1>2. PICK S : results \in Seq(S)
  BY DEF BasicInv, LineOK
<1>3. /\ Line' = Append(results', PendingList')
      /\ PendingList'.clear = TRUE /\ DOMAIN PendingList'.updates = {}
      /\ PendingList'.base = e /\ PendingList'.kind = "gpu"
  BY EmptyIsMap DEF Line, PendingList, Clear, NextBaseEpoch
<1>4. e \in Int /\ base_epoch < e /\ n \in Nat \ {0} /\ Len(results) = n - 1
  BY <1>1, BlockFacts DEF BasicInv
<1>5. p.kind = "pressure"
  OBVIOUS
<1> HIDE DEF n, e, p
<1>6. CASE results' = results
  <2>1. Len(Line') = n /\ Line'[n] = PendingList' /\ \A i \in 1..Len(results) : Line'[i] = results[i]
    BY <1>1, <1>2, <1>3, <1>6, AppendFacts
  <2>2. \A j \in n..(n - 1) : Line'[j].kind = "pressure"
    BY <1>4
  <2>3. IsCleared(Line, Line', n, n, e)
    BY <1>1, <1>3, <1>4, <2>1, <2>2 DEF IsCleared, IsList, n
  <2> QED  BY <2>3 DEF n, e
<1>7. CASE results' = Append(results, p)
  <2>1. /\ Len(results') = n /\ results'[n] = p /\ \A i \in 1..(n - 1) : results'[i] = results[i]
        /\ results' \in Seq(S \cup {p})
    <3>1. /\ Len(results') = Len(results) + 1 /\ results'[Len(results) + 1] = p
          /\ \A i \in 1..Len(results) : results'[i] = results[i]
      BY <1>2, <1>7, AppendFacts
    <3>2. results \in Seq(S \cup {p}) /\ p \in S \cup {p}
      BY <1>2
    <3>3. results' \in Seq(S \cup {p})
      BY <1>7, <3>2
    <3>4. Len(results) + 1 = n
      BY <1>1, <1>4
    <3> QED  BY <1>4, <3>1, <3>3, <3>4
  <2>2. Len(Line') = n + 1 /\ Line'[n + 1] = PendingList' /\ \A i \in 1..n : Line'[i] = results'[i]
    BY <1>3, <2>1, AppendFacts
  <2>3. \A j \in n..(n + 1 - 1) : Line'[j].kind = "pressure"
    <3>1. ASSUME NEW j \in n..(n + 1 - 1) PROVE j = n
      BY <1>4
    <3> QED  BY <1>4, <1>5, <2>1, <2>2, <3>1
  <2>4. \A j \in 1..(n - 1) : Line'[j] = Line[j]
    BY <1>1, <1>4, <2>1, <2>2
  <2>5. n + 1 \in n..(n + 1)
    BY <1>4
  <2>6. IsCleared(Line, Line', n, n + 1, e)
    BY <1>1, <1>3, <1>4, <2>2, <2>3, <2>4, <2>5 DEF IsCleared, IsList, n
  <2> QED  BY <2>6 DEF n, e
<1> QED  BY <1>6, <1>7 DEF p

LEMMA ClearNext ==
  ASSUME IInv, now = NoDoc, now' = NoDoc, Clear, UNCHANGED <<location, frame_id, uses, deferred, rendererVars>>,
         results' = results \/ results' = Append(results, [kind |-> "pressure"]),
         \A d \in documents' : /\ requires_frame_build'
                               /\ Between' \/ d \in (nops \cup batch \cup {now})'
  PROVE  KeptInv' /\ DataInv'
<1>1. /\ BasicInv /\ FramesOK(Line, active_documents) /\ DataInv
      /\ BasesOK(Line, active_documents, taken_base)
  BY DEF IInv, KeptInv
<1> DEFINE L == Line
           M == Line'
           A == active_documents
           T == taken_base
           U == Uploaded
           n == Len(L)
           e == max_epoch + 1
<1>2. PICK m : IsCleared(L, M, n, m, e)
  BY <1>1, ClearIs
<1>3. /\ active_documents' = A /\ taken_base' = T /\ Uploaded' = U /\ spoiled' = spoiled
      /\ \A g \in Handles : ~Valid(g)'
  BY <1>1, ClearBasic DEF rendererVars, Uploaded
<1>4. uses' = {} /\ deferred' = {}
  BY <1>1 DEF BasicInv, LoopOK
<1>5. T \in Int /\ n \in Nat /\ \A i \in 1..n : IsList(L, i) => L[i].base \in Int
  BY <1>1, LineFacts
<1>6. /\ DeferredApart(L, A, T) => DeferredApart(M, A, T)
      /\ \A S : DeferredBefore(M, A, T, S)
      /\ FramesHold(L, U, A, T) => FramesHold(M, U, A, T)
      /\ FramesOK(L, A) => FramesOK(M, A)
      /\ BasesOK(L, A, T) => BasesOK(M, A, T)
      /\ \A d \in Docs : \A i \in Places(M) : ~Shown(M, A, T, i, Len(M), d)
  <2> HIDE DEF L, M, A, T, U, n, e
  <2>1. Len(M) = m /\ m \in n..(n + 1) /\ n \in Nat \ {0}
    BY <1>2 DEF IsCleared
  <2>2. ASSUME NEW d \in Docs, NEW i \in Places(M), Shown(M, A, T, i, Len(M), d) PROVE FALSE
    <3>1. m \in 0..m /\ i \in 0..m /\ Shown(M, A, T, i, m, d)
      BY <2>1, <2>2 DEF Places
    <3>2. m \in 0..(n - 1)
      BY <1>2, <3>1, ClearedShown
    <3> QED  BY <2>1, <3>2
  <2>3. BasesOK(L, A, T) => BasesOK(M, A, T)
    BY <1>2, <1>5, ClearedBases
  <2> QED  BY <1>2, <2>2, <2>3, ClearedData
<1>7. FramesKept(Line, active_documents, taken_base)'
  BY <1>3, <1>6 DEF FramesKept
<1>8. FramesOK(Line, active_documents)'
  BY <1>1, <1>3, <1>6 DEF FramesOK
<1>9. BasesOK(Line, active_documents, taken_base)'
  BY <1>1, <1>3, <1>6
<1>10. UsesKept'
  BY <1>4 DEF UsesKept, PlainUses
<1>11. Owed(Line, active_documents)'
  BY DEF Owed
<1>12. Stamped'
  BY DEF Stamped
<1>13. DataInv'
  <2>1. PlainUses' = {}
    BY <1>4 DEF PlainUses
  <2> QED  BY <1>1, <1>3, <1>6, <2>1 DEF DataInv, UsesHold, HandlesHold
<1> QED  BY <1>7, <1>8, <1>9, <1>10, <1>11, <1>12, <1>13 DEF KeptInv

LEMMA DropCachesNext ==
  ASSUME IInv, DropCaches
  PROVE  KeptInv' /\ DataInv'
<1>1. /\ now = NoDoc /\ now' = NoDoc /\ Clear /\ requires_frame_build' = TRUE /\ Between'
      /\ UNCHANGED <<location, frame_id, uses, deferred, rendererVars>>
      /\ results' = results \/ results' = Append(results, [kind |-> "pressure"])
  BY DEF DropCaches, Between
<1> QED  BY <1>1, ClearNext

LEMMA StartGroupNext ==
  ASSUME IInv, NEW ds, StartGroup(ds)
  PROVE  KeptInv' /\ DataInv'
<1>1. BasicInv /\ Owed(Line, active_documents)
  BY DEF IInv, KeptInv
<1>2. /\ Between /\ now = NoDoc /\ now' = NoDoc /\ documents' = documents
      /\ batch' = ds /\ nops' = IF requires_frame_build' THEN documents \ ds ELSE {}
      /\ UNCHANGED <<location, frame_id, version, uses, deferred, results, rendererVars>>
  BY DEF StartGroup, Between, NopDocuments
<1>3. requires_frame_build' =>
        \A d \in documents' : requires_frame_build' /\ d \in (nops \cup batch \cup {now})'
  BY <1>2
<1>4. CASE Clear /\ requires_frame_build' = (documents # {})
  <2>1. \A d \in documents' : /\ requires_frame_build'
                              /\ Between' \/ d \in (nops \cup batch \cup {now})'
    BY <1>2, <1>3, <1>4
  <2> QED  BY <1>2, <1>4, <2>1, ClearNext
<1>5. CASE /\ UNCHANGED <<textureVars, updates, pending_clear, clears>>
           /\ requires_frame_build' = (requires_frame_build /\ documents # {})
  <2>1. LineStays /\ uses' = {} /\ deferred' = {} /\ base_epoch' = base_epoch
    BY <1>1, <1>2, <1>5 DEF LineStays, textureVars, BasicInv, LoopOK
  <2>2. \A e \in Docs : LastSent(e)' = LastSent(e)
    BY <1>2 DEF LastSent
  <2>3. /\ KeepsOn
        /\ \A g \in Handles : Valid(g)' => Valid(g) /\ HandleAt(g)' = HandleAt(g) /\ version'[g] = version[g]
    BY <1>1, <1>2, <1>5, <2>2, SameBlocksKeep
  <2>4. Owed(Line, active_documents)'
    <3>1. Line' = Line /\ active_documents' = active_documents
      BY <2>1, LineStaysFacts
    <3>2. ASSUME NEW d \in documents, NEW i \in Places(Line),
                 HasFrame(Line, active_documents, i, d), ~Superseded(Line, i, Len(Line), d),
                 FrameAt(Line, active_documents, i, d).base # base_epoch
          PROVE  requires_frame_build'
      BY <1>1, <1>5, <3>2 DEF Owed
    <3> QED  BY <1>2, <1>3, <2>1, <3>1, <3>2 DEF Owed
  <2>5. Stamped' /\ \A e \in Docs : frame_id[e] > 0 => frame_id'[e] > 0
    BY <1>2 DEF Stamped
  <2> QED  BY <2>1, <2>3, <2>4, <2>5, IdleNext
<1> QED  BY <1>4, <1>5 DEF StartGroup

-----------------------------------------------------------------------------
(* The frame is sent.                                                      *)

FrameBuilt == [uses |-> uses, deferred |-> deferred, base |-> base_epoch]

LEMMA AppendTwo ==
  ASSUME NEW S, NEW r \in Seq(S), NEW x, NEW y, NEW z
  PROVE  LET M == Append(r \o <<x, y>>, z) IN
         /\ Len(M) = Len(r) + 3 /\ M[Len(r) + 1] = x /\ M[Len(r) + 2] = y /\ M[Len(r) + 3] = z
         /\ \A i \in 1..Len(r) : M[i] = r[i]
<1> DEFINE V == S \cup {x, y, z}
<1>1. r \in Seq(V) /\ <<x, y>> \in Seq(V) /\ z \in V /\ Len(<<x, y>>) = 2
      /\ <<x, y>>[1] = x /\ <<x, y>>[2] = y /\ Len(r) \in Nat
  OBVIOUS
<1> DEFINE t == <<x, y>>
           w == r \o t
<1> HIDE DEF V, t
<1>2. w \in Seq(V) /\ Len(w) = Len(r) + 2 /\ w[Len(r) + 1] = t[1] /\ w[Len(r) + 2] = t[2]
      /\ \A i \in 1..Len(r) : w[i] = r[i]
  BY <1>1 DEF t
<1> HIDE DEF w
<1>3. /\ Len(Append(w, z)) = Len(w) + 1 /\ Append(w, z)[Len(w) + 1] = z
      /\ \A i \in 1..Len(w) : Append(w, z)[i] = w[i]
  BY <1>2, AppendFacts
<1>4. /\ Len(Append(w, z)) = Len(r) + 3 /\ Append(w, z)[Len(r) + 3] = z
      /\ Append(w, z)[Len(r) + 1] = x /\ Append(w, z)[Len(r) + 2] = y
      /\ \A i \in 1..Len(r) : Append(w, z)[i] = r[i]
  BY <1>1, <1>2, <1>3 DEF t
<1> QED  BY <1>4 DEF w, t

LEMMA SentIs ==
  ASSUME BasicInv, EndFrame
  PROVE  IsSent(Line, Line', Len(Line), now, FrameBuilt)
<1> DEFINE n == Len(Line)
           D == [kind |-> "document", id |-> now, frame |-> FrameBuilt]
<1>1. /\ n \in Nat /\ n = Len(results) + 1 /\ \A i \in 1..Len(results) : Line[i] = results[i]
      /\ Line[n] = PendingList /\ IsList(Line, n) /\ Len(results) \in Nat
      /\ PendingList.base = base_epoch
  BY LineFacts
<1>2. PICK S : results \in Seq(S)
  BY DEF BasicInv, LineOK
<1>3. /\ results' = results \o <<PendingList, D>>
      /\ Line' = Append(results', PendingList')
      /\ PendingList'.clear = FALSE /\ DOMAIN PendingList'.updates = {}
      /\ PendingList'.base = base_epoch /\ PendingList'.kind = "gpu"
  BY EmptyIsMap DEF EndFrame, Line, PendingList, FrameBuilt, textureVars
<1>4. D.kind = "document" /\ D.id = now /\ D.frame = FrameBuilt
  OBVIOUS
<1> DEFINE pl == PendingList
           pn == PendingList'
<1> HIDE DEF n, D, pl, pn
<1>5. /\ Line' = Append(results \o <<pl, D>>, pn) /\ pl = PendingList /\ pn = PendingList'
  BY <1>3 DEF pl, pn
<1>6. /\ Len(Line') = Len(results) + 3 /\ Line'[Len(results) + 1] = pl
      /\ Line'[Len(results) + 2] = D /\ Line'[Len(results) + 3] = pn
      /\ \A i \in 1..Len(results) : Line'[i] = results[i]
  BY <1>2, <1>5, AppendTwo
<1>7. /\ Len(Line') = n + 2 /\ Line'[n] = pl /\ Line'[n + 1] = D /\ Line'[n + 2] = pn
      /\ \A i \in 1..(n - 1) : Line'[i] = Line[i]
      /\ n \in Nat \ {0}
  BY <1>1, <1>6
<1>8. \A j \in 1..n : Line'[j] = Line[j]
  BY <1>1, <1>5, <1>7
<1>9. pn.clear = FALSE /\ DOMAIN pn.updates = {} /\ pn.base = Line[n].base /\ pn.kind = "gpu"
  BY <1>1, <1>3, <1>5
<1>10. IsSent(Line, Line', n, now, FrameBuilt)
  BY <1>1, <1>4, <1>7, <1>8, <1>9 DEF IsSent, IsList, n
<1> QED  BY <1>10 DEF n

LEMMA EndFrameNext ==
  ASSUME IInv, EndFrame
  PROVE  KeptInv' /\ DataInv'
<1>1. /\ BasicInv /\ UsesKept /\ DataInv /\ Stamped
      /\ FramesKept(Line, active_documents, taken_base) /\ FramesOK(Line, active_documents)
      /\ BasesOK(Line, active_documents, taken_base) /\ Owed(Line, active_documents)
  BY DEF IInv, KeptInv
<1>2. /\ now \in Docs /\ now # NoDoc /\ now' = NoDoc /\ uses' = {} /\ deferred' = {}
      /\ requires_frame_build' = (requires_frame_build /\ (nops # {} \/ batch # {}))
      /\ UNCHANGED <<textureVars, location, documents, frame_id, version, nops, batch, rendererVars>>
  BY <1>1 DEF EndFrame, Building, BasicInv, TypeOK
<1>3. /\ UNCHANGED <<blocks, block_count, base_epoch>>
      /\ active_documents' = active_documents /\ taken_base' = taken_base
      /\ Uploaded' = Uploaded /\ spoiled' = spoiled
  BY <1>2 DEF textureVars, rendererVars, Uploaded
<1>4. /\ \A g \in Handles : (Valid(g)' <=> Valid(g)) /\ HandleAt(g)' = HandleAt(g)
      /\ PlainUses' = {}
  BY <1>2, <1>3 DEF Valid, HandleAt, PlainUses
<1> DEFINE L == Line
           M == Line'
           A == active_documents
           T == taken_base
           U == Uploaded
           n == Len(L)
           c == now
           f == FrameBuilt
           R == InUse
           S == InUse'
<1>5. IsSent(L, M, n, c, f)
  BY <1>1, SentIs
<1>6. f.uses = uses /\ f.deferred = deferred /\ f.base = base_epoch /\ f \in Frame
  BY <1>1 DEF FrameBuilt, BasicInv, TypeOK, Frame
<1>7. /\ T \in Int /\ n \in Nat /\ \A i \in 1..n : IsList(L, i) => L[i].base \in Int
      /\ L[n].base = base_epoch
  BY <1>1, LineFacts
<1>8. /\ \A u \in f.uses : Plain(u) => u.at \in R
      /\ S \subseteq R
      /\ \A a \in S : \E g \in Handles : Valid(g) /\ HandleAt(g) = a
  <2>1. \A u \in f.uses : Plain(u) => u.at \in R
    BY <1>6 DEF InUse, PlainUses
  <2>2. \A a \in S : \E g \in Handles : Valid(g) /\ HandleAt(g) = a
    BY <1>4 DEF InUse
  <2> QED  BY <2>1, <2>2 DEF InUse
<1>9. SentApart(L, A, T, c, f, S)
  <2>1. \A u \in f.uses : Plain(u) => u.at \notin f.deferred
    BY <1>1, <1>6 DEF UsesKept, PlainUses
  <2>2. \A a \in S : a \notin f.deferred
    BY <1>1, <1>6, <1>8 DEF UsesKept, NoHandleAt
  <2>3. ASSUME NEW d \in Docs, NEW i \in Places(L), d # c, Shown(L, A, T, i, Len(L), d),
               NEW u \in FrameAt(L, A, i, d).uses, Plain(u), u.at \in f.deferred
        PROVE  FALSE
    <3>1. FrameKept(FrameAt(L, A, i, d), d)
      BY <1>1, <2>3 DEF FramesKept
    <3>2. PICK b1 \in 1..block_count : blocks[b1].at = u.at /\ blocks[b1].owner = d
      BY <2>3, <3>1 DEF FrameKept, Plain, Keeps, Owned
    <3>3. PICK b2 \in 1..block_count : blocks[b2].at = u.at /\ blocks[b2].owner = c
      BY <1>1, <1>6, <2>3 DEF UsesKept, Keeps, Owned
    <3>4. b1 = b2
      BY <1>1, <3>2, <3>3 DEF BasicInv, BlocksOK
    <3> QED  BY <2>3, <3>2, <3>3, <3>4
  <2> QED  BY <2>1, <2>2, <2>3 DEF SentApart
<1>10. /\ \A d \in Docs : d # c => LastSent(d)' = LastSent(d)
       /\ \A d \in Docs : d = c => LastSent(d)' = frame_id[d]
  BY <1>2, Constants DEF LastSent
<1>11. ASSUME NEW fr, NEW d \in Docs, d # c, FrameKept(fr, d) PROVE FrameKept(fr, d)'
  <2>1. \A a, t : Keeps(a, d, t) => \E b \in 1..block_count' : /\ blocks'[b].at = a /\ blocks'[b].owner = d
                                                              /\ blocks'[b].last_access_time >= t
    BY <1>3 DEF Keeps, Owned
  <2>2. \A a : OwnHandleAt(a, d) => \A g \in Handles : Valid(g)' /\ HandleAt(g)' = a => Users[g] = {d}
    BY <1>4 DEF OwnHandleAt
  <2>3. \A a : NoHandleAt(a) => \A g \in Handles : Valid(g)' => HandleAt(g)' # a
    BY <1>4 DEF NoHandleAt
  <2>4. LastSent(d)' = LastSent(d)
    BY <1>10, <1>11
  <2>5. \A u \in fr.uses : ~u.shared => Keeps(u.at, d, LastSent(d))' /\ OwnHandleAt(u.at, d)'
    <3> SUFFICES ASSUME NEW u \in fr.uses, ~u.shared
                 PROVE  Keeps(u.at, d, LastSent(d))' /\ OwnHandleAt(u.at, d)'
      OBVIOUS
    <3>1. Keeps(u.at, d, LastSent(d)) /\ OwnHandleAt(u.at, d)
      BY <1>11 DEF FrameKept
    <3>2. Keeps(u.at, d, LastSent(d))'
      BY <2>1, <2>4, <3>1 DEF Keeps, Owned
    <3>3. OwnHandleAt(u.at, d)'
      BY <2>2, <3>1 DEF OwnHandleAt
    <3> QED  BY <3>2, <3>3
  <2>6. \A a \in fr.deferred : Keeps(a, d, LastSent(d))' /\ NoHandleAt(a)'
    BY <1>11, <2>1, <2>3, <2>4 DEF FrameKept, Keeps, Owned, NoHandleAt
  <2> QED  BY <2>5, <2>6 DEF FrameKept
<1>12. ASSUME NEW fr, fr = f, NEW d \in Docs, d = c PROVE FrameKept(fr, d)'
  <2>1. LastSent(d)' = frame_id[d]
    BY <1>10, <1>12
  <2>2. \A u \in uses : ~u.shared => \E b \in 1..block_count' : /\ blocks'[b].at = u.at /\ blocks'[b].owner = d
                                                               /\ blocks'[b].last_access_time >= frame_id[d]
    BY <1>1, <1>3, <1>12 DEF UsesKept, Keeps, Owned
  <2>3. \A u \in uses : ~u.shared => \A g \in Handles : Valid(g)' /\ HandleAt(g)' = u.at => Users[g] = {d}
    BY <1>1, <1>4, <1>12 DEF UsesKept, OwnHandleAt
  <2>4. \A a \in deferred : /\ \E b \in 1..block_count' : /\ blocks'[b].at = a /\ blocks'[b].owner = d
                                                         /\ blocks'[b].last_access_time >= frame_id[d]
                            /\ \A g \in Handles : Valid(g)' => HandleAt(g)' # a
    BY <1>1, <1>3, <1>4, <1>12 DEF UsesKept, Keeps, Owned, NoHandleAt
  <2> HIDE DEF f
  <2>5. fr.uses = uses /\ fr.deferred = deferred
    BY <1>6, <1>12
  <2>6. \A u \in fr.uses : ~u.shared => Keeps(u.at, d, LastSent(d))' /\ OwnHandleAt(u.at, d)'
    BY <2>1, <2>2, <2>3, <2>5 DEF Keeps, Owned, OwnHandleAt
  <2>7. \A a \in fr.deferred : Keeps(a, d, LastSent(d))' /\ NoHandleAt(a)'
    BY <2>1, <2>4, <2>5 DEF Keeps, Owned, NoHandleAt
  <2> QED  BY <2>6, <2>7 DEF FrameKept
<1>13. /\ Len(M) = n + 2 /\ n + 2 \in Nat
       /\ \A i \in Places(M) : \A d : Shown(M, A, T, i, n + 2, d) =>
            \/ i \in Places(L) /\ d # c /\ Shown(L, A, T, i, Len(L), d) /\ FrameAt(M, A, i, d) = FrameAt(L, A, i, d)
            \/ d = c /\ FrameAt(M, A, i, d) = f
       /\ \A i \in Places(M) : \A d : HasFrame(M, A, i, d) =>
            \/ /\ i \in Places(L) /\ HasFrame(L, A, i, d) /\ FrameAt(M, A, i, d) = FrameAt(L, A, i, d)
               /\ ~Superseded(M, i, n + 2, d) => d # c /\ ~Superseded(L, i, Len(L), d)
            \/ d = c /\ FrameAt(M, A, i, d) = f
  <2>1. n = Len(L)
    OBVIOUS
  <2> HIDE DEF L, M, A, T, U, n, c, f
  <2>2. /\ Len(M) = n + 2 /\ n \in Nat \ {0} /\ n + 2 \in (n + 1)..(n + 2) /\ Places(M) = 0..(n + 2)
        /\ Places(L) = 0..n
    BY <1>5, <2>1 DEF IsSent, Places
  <2>3. ASSUME NEW i \in Places(M), NEW d, Shown(M, A, T, i, n + 2, d)
        PROVE  \/ i \in Places(L) /\ d # c /\ Shown(L, A, T, i, Len(L), d) /\ FrameAt(M, A, i, d) = FrameAt(L, A, i, d)
               \/ d = c /\ FrameAt(M, A, i, d) = f
    BY <1>5, <2>1, <2>2, <2>3, SentShown
  <2>4. ASSUME NEW i \in Places(M), NEW d, HasFrame(M, A, i, d)
        PROVE  \/ /\ i \in Places(L) /\ HasFrame(L, A, i, d) /\ FrameAt(M, A, i, d) = FrameAt(L, A, i, d)
                  /\ ~Superseded(M, i, n + 2, d) => d # c /\ ~Superseded(L, i, Len(L), d)
               \/ d = c /\ FrameAt(M, A, i, d) = f
    <3>1. CASE i > n
      BY <1>5, <2>2, <2>4, <3>1, SentIn
    <3>2. CASE i <= n
      <4>1. /\ i \in Places(L) /\ HasFrame(L, A, i, d) /\ FrameAt(M, A, i, d) = FrameAt(L, A, i, d)
        BY <1>5, <2>2, <2>4, <3>2, SentIn
      <4>2. ~Superseded(M, i, n + 2, d) => d # c /\ ~Superseded(L, i, n, d)
        BY <1>5, <2>2, <3>2, SentIn
      <4> QED  BY <2>1, <4>1, <4>2
    <3>3. i \in 0..(n + 2) /\ n \in Int
      BY <2>2
    <3> QED  BY <3>1, <3>2, <3>3
  <2> QED  BY <2>2, <2>3, <2>4
<1>14. FramesKept(Line, active_documents, taken_base)'
  <2>1. ASSUME NEW d \in Docs, NEW i \in Places(M), Shown(M, A, T, i, n + 2, d),
               NEW fr, fr = FrameAt(M, A, i, d)
        PROVE  FrameKept(fr, d)'
    <3>1. CASE i \in Places(L) /\ d # c /\ Shown(L, A, T, i, Len(L), d) /\ FrameAt(M, A, i, d) = FrameAt(L, A, i, d)
      <4>1. FrameKept(fr, d)
        BY <1>1, <2>1, <3>1 DEF FramesKept
      <4> QED  BY <1>11, <3>1, <4>1
    <3>2. CASE d = c /\ FrameAt(M, A, i, d) = f
      BY <1>12, <2>1, <3>2
    <3> QED  BY <1>13, <2>1, <3>1, <3>2
  <2> QED  BY <1>3, <1>13, <2>1 DEF FramesKept
<1>15. FramesOK(Line, active_documents)'
  <2>1. ASSUME NEW d \in Docs, NEW i \in Places(M), HasFrame(M, A, i, d)
        PROVE  /\ FrameAt(M, A, i, d) \in Frame
               /\ \A u \in FrameAt(M, A, i, d).uses : u.data = External => u.at \in FrameAt(M, A, i, d).deferred
               /\ frame_id[d] > 0
    <3>1. CASE i \in Places(L) /\ HasFrame(L, A, i, d) /\ FrameAt(M, A, i, d) = FrameAt(L, A, i, d)
      BY <1>1, <3>1 DEF FramesOK
    <3>2. CASE d = c /\ FrameAt(M, A, i, d) = f
      BY <1>1, <1>2, <1>6, <3>2 DEF UsesKept, Stamped
    <3> QED  BY <1>13, <2>1, <3>1, <3>2
  <2> QED  BY <1>2, <1>3, <2>1 DEF FramesOK
<1>16. BasesOK(Line, active_documents, taken_base)'
  <2>1. BasesOK(L, A, T) /\ f.base = L[n].base
    BY <1>1, <1>6, <1>7
  <2>2. BasesOK(M, A, T)
    <3> HIDE DEF L, M, A, T, n, c, f
    <3> QED  BY <1>5, <1>7, <2>1, SentBases
  <2> QED  BY <1>3, <2>2
<1>17. Owed(Line, active_documents)'
  <2>1. ASSUME NEW d \in documents, NEW i \in Places(M), HasFrame(M, A, i, d), ~Superseded(M, i, n + 2, d),
               FrameAt(M, A, i, d).base # base_epoch
        PROVE  requires_frame_build' /\ d \in nops \cup batch
    <3>1. /\ i \in Places(L) /\ HasFrame(L, A, i, d) /\ FrameAt(M, A, i, d) = FrameAt(L, A, i, d)
          /\ d # c /\ ~Superseded(L, i, Len(L), d)
      BY <1>6, <1>13, <2>1
    <3>2. requires_frame_build /\ (Between \/ d \in nops \cup batch \cup {now})
      BY <1>1, <2>1, <3>1 DEF Owed
    <3> QED  BY <1>2, <3>1, <3>2 DEF Between
  <2> QED  BY <1>2, <1>3, <1>13, <2>1 DEF Owed
<1>18. UsesKept' /\ Stamped'
  BY <1>2 DEF UsesKept, PlainUses, Stamped
<1>19. DataInv'
  <2>1. /\ DeferredApart(L, A, T) /\ DeferredBefore(L, A, T, R)
        /\ \A u \in f.uses : Plain(u) => u.at \in R
        /\ S \subseteq R /\ c \in Docs
    BY <1>1, <1>2, <1>8 DEF DataInv
  <2>2. ASSUME ~spoiled
        PROVE  /\ FramesHold(L, U, A, T)
               /\ \A u \in f.uses : Plain(u) => Holds(L, U, n, u.at, u.data)
               /\ \A g \in Handles : Valid(g) => Holds(L, U, n, HandleAt(g), <<g, version[g]>>)
    BY <1>1, <1>6, <2>2 DEF DataInv, UsesHold, HandlesHold, PlainUses
  <2>3. /\ DeferredApart(M, A, T) /\ DeferredBefore(M, A, T, S)
        /\ ~spoiled => /\ FramesHold(M, U, A, T)
                       /\ \A g \in Handles : Valid(g) => Holds(M, U, Len(M), HandleAt(g), <<g, version[g]>>)
    <3> HIDE DEF L, M, A, T, U, n, c, f, R, S
    <3> QED  BY <1>5, <1>9, <2>1, <2>2, SentData
  <2> QED  BY <1>2, <1>3, <1>4, <2>3 DEF DataInv, UsesHold, HandlesHold
<1> QED  BY <1>14, <1>15, <1>16, <1>17, <1>18, <1>19 DEF KeptInv

-----------------------------------------------------------------------------
(* The renderer.                                                           *)

LEMMA LineShorter ==
  ASSUME BasicInv, results # <<>>, results' = Tail(results), UNCHANGED <<pending_clear, updates, base_epoch>>
  PROVE  IsTail(Line, Line') /\ Line[1] = Head(results) /\ Len(Line') = Len(results)
<1>1. PICK S : results \in Seq(S)
  BY DEF BasicInv, LineOK
<1>2. /\ Len(results) \in Nat /\ Len(results) >= 1 /\ Tail(results) \in Seq(S)
      /\ Len(Tail(results)) = Len(results) - 1 /\ Head(results) = results[1]
      /\ \A i \in 1..(Len(results) - 1) : Tail(results)[i] = results[i + 1]
  BY <1>1
<1>3. Line = Append(results, PendingList) /\ Line' = Append(results', PendingList)
  BY DEF Line, PendingList
<1> DEFINE pl == PendingList
           r == Tail(results)
<1>4. /\ Line = Append(results, pl) /\ Line' = Append(r, pl) /\ r \in Seq(S)
      /\ Len(r) = Len(results) - 1 /\ \A i \in 1..(Len(results) - 1) : r[i] = results[i + 1]
  BY <1>2, <1>3
<1> HIDE DEF pl, r
<1>5. /\ Len(Line) = Len(results) + 1 /\ Line[Len(results) + 1] = pl
      /\ \A i \in 1..Len(results) : Line[i] = results[i]
  BY <1>1, <1>4, AppendFacts
<1>6. /\ Len(Line') = Len(r) + 1 /\ Line'[Len(r) + 1] = pl
      /\ \A i \in 1..Len(r) : Line'[i] = r[i]
  BY <1>4, AppendFacts
<1>7. Len(Line') = Len(results) /\ Len(Line) = Len(results) + 1 /\ Len(results) \in Nat
  BY <1>2, <1>4, <1>5, <1>6
<1>8. ASSUME NEW j \in 1..Len(Line') PROVE Line'[j] = Line[j + 1]
  <2>1. CASE j = Len(results)
    BY <1>2, <1>4, <1>5, <1>6, <2>1
  <2>2. CASE j \in 1..(Len(results) - 1)
    <3>1. j \in 1..Len(r) /\ j + 1 \in 1..Len(results)
      BY <1>2, <1>4, <2>2
    <3> QED  BY <1>4, <1>5, <1>6, <2>2, <3>1
  <2>3. j = Len(results) \/ j \in 1..(Len(results) - 1)
    BY <1>7
  <2> QED  BY <2>1, <2>2, <2>3
<1>9. Line[1] = Head(results)
  BY <1>2, <1>5
<1> QED  BY <1>2, <1>7, <1>8, <1>9 DEF IsTail

LEMMA UploadedIs ==
  /\ DOMAIN Uploaded = DOMAIN pending_gpu_cache_updates
                         \cup (IF pending_gpu_cache_clear THEN {} ELSE DOMAIN gpu_cache_texture)
  /\ \A a \in DOMAIN pending_gpu_cache_updates : Uploaded[a] = pending_gpu_cache_updates[a]
  /\ ~pending_gpu_cache_clear => \A a \in DOMAIN gpu_cache_texture :
       a \notin DOMAIN pending_gpu_cache_updates => Uploaded[a] = gpu_cache_texture[a]
BY EmptyIsMap DEF Uploaded, Override

LEMMA TakenIs ==
  ASSUME BasicInv, TakeUpdates \/ TakeDocument \/ TakePressure
  PROVE  Taken(Line, active_documents, taken_base, Uploaded,
               Line', active_documents', taken_base', Uploaded')
<1>1. /\ results # <<>> /\ results' = Tail(results) /\ UNCHANGED <<pending_clear, updates, base_epoch>>
  BY DEF TakeUpdates, TakeDocument, TakePressure, cacheVars, textureVars
<1>2. IsTail(Line, Line') /\ Line[1] = Head(results)
  BY <1>1, LineShorter
<1> DEFINE m == Head(results)
           A == active_documents
           U == Uploaded
           W == Uploaded'
<1>3. CASE TakeUpdates
  <2>1. /\ m.kind = "gpu" /\ active_documents' = A /\ taken_base' = m.base
        /\ gpu_cache_texture' = gpu_cache_texture
        /\ pending_gpu_cache_clear' = (pending_gpu_cache_clear \/ m.clear)
        /\ pending_gpu_cache_updates' = Override(pending_gpu_cache_updates, m.updates)
    BY <1>3 DEF TakeUpdates
  <2> DEFINE P == pending_gpu_cache_updates
             Q == pending_gpu_cache_updates'
             X == gpu_cache_texture
  <2>2. /\ DOMAIN Q = DOMAIN P \cup DOMAIN m.updates
        /\ \A a \in DOMAIN m.updates : Q[a] = m.updates[a]
        /\ \A a \in DOMAIN P : a \notin DOMAIN m.updates => Q[a] = P[a]
    BY <2>1 DEF Override
  <2>3. /\ DOMAIN U = DOMAIN P \cup (IF pending_gpu_cache_clear THEN {} ELSE DOMAIN X)
        /\ \A a \in DOMAIN P : U[a] = P[a]
        /\ ~pending_gpu_cache_clear => \A a \in DOMAIN X : a \notin DOMAIN P => U[a] = X[a]
    BY UploadedIs
  <2>4. /\ DOMAIN W = DOMAIN Q \cup (IF pending_gpu_cache_clear' THEN {} ELSE DOMAIN X)
        /\ \A a \in DOMAIN Q : W[a] = Q[a]
        /\ ~pending_gpu_cache_clear' => \A a \in DOMAIN X : a \notin DOMAIN Q => W[a] = X[a]
    BY <2>1, EmptyIsMap DEF Uploaded, Override
  <2> HIDE DEF P, Q, X, U, W
  <2>5. \A a \in DOMAIN m.updates : a \in DOMAIN W /\ W[a] = m.updates[a]
    BY <2>2, <2>4
  <2>6. ASSUME ~m.clear, NEW a \in DOMAIN U, a \notin DOMAIN m.updates
        PROVE  a \in DOMAIN W /\ W[a] = U[a]
    <3>1. CASE a \in DOMAIN P
      BY <2>2, <2>3, <2>4, <2>6, <3>1
    <3>2. CASE a \notin DOMAIN P
      <4>1. ~pending_gpu_cache_clear /\ a \in DOMAIN X /\ ~pending_gpu_cache_clear'
        BY <2>1, <2>3, <2>6, <3>2
      <4>2. a \notin DOMAIN Q
        BY <2>2, <2>6, <3>2
      <4> QED  BY <2>3, <2>4, <3>2, <4>1, <4>2
    <3> QED  BY <3>1, <3>2
  <2> QED  BY <1>2, <2>1, <2>5, <2>6 DEF Taken, IsList, U, W
<1>4. CASE TakeDocument
  <2>1. /\ m.kind = "document" /\ taken_base' = taken_base
        /\ active_documents' = Override(A, [d \in {m.id} |-> m.frame])
        /\ W = U
    BY <1>4 DEF TakeDocument, Uploaded
  <2>2. /\ DOMAIN active_documents' = DOMAIN A \cup {m.id} /\ active_documents'[m.id] = m.frame
        /\ \A d \in DOMAIN A : d # m.id => active_documents'[d] = A[d]
    BY <2>1 DEF Override
  <2> QED  BY <1>2, <2>1, <2>2 DEF Taken
<1>5. CASE TakePressure
  <2>1. /\ m.kind = "pressure" /\ taken_base' = taken_base /\ DOMAIN active_documents' = {}
        /\ W = U
    BY <1>5, EmptyIsMap DEF TakePressure, Uploaded
  <2> QED  BY <1>2, <2>1 DEF Taken
<1> QED  BY <1>3, <1>4, <1>5

LEMMA TakeNext ==
  ASSUME IInv, TakeUpdates \/ TakeDocument \/ TakePressure
  PROVE  KeptInv' /\ DataInv'
<1>1. /\ BasicInv /\ UsesKept /\ DataInv /\ Stamped
      /\ FramesKept(Line, active_documents, taken_base) /\ FramesOK(Line, active_documents)
      /\ BasesOK(Line, active_documents, taken_base) /\ Owed(Line, active_documents)
  BY DEF IInv, KeptInv
<1>2. UNCHANGED <<cacheVars, backendVars, spoiled>>
  BY DEF TakeUpdates, TakeDocument, TakePressure
<1>3. /\ UNCHANGED <<textureVars, location, version, requires_frame_build, documents, frame_id,
                     now, nops, batch, uses, deferred, base_epoch, blocks, block_count, spoiled>>
  BY <1>2 DEF cacheVars, textureVars, backendVars
<1>4. KeepsOn
  <2>1. \A d \in Docs : LastSent(d)' = LastSent(d)
    BY <1>3 DEF LastSent
  <2> QED  BY <1>1, <1>3, <2>1, SameBlocksKeep
<1> DEFINE L == Line
           M == Line'
           A == active_documents
           B == active_documents'
           T == taken_base
           V == taken_base'
           U == Uploaded
           W == Uploaded'
<1>5. Taken(L, A, T, U, M, B, V, W)
  BY <1>1, TakenIs
<1>6. /\ Len(L) \in Nat /\ T \in Int /\ \A d \in DOMAIN A : A[d].base \in Int
      /\ \A i \in 1..Len(L) : IsList(L, i) => L[i].base \in Int
      /\ \A i \in 1..Len(L) : L[i].kind = "document" => L[i].frame.base \in Int
  BY <1>1, LineFacts
<1>7. /\ DeferredApart(M, B, V) /\ DeferredBefore(M, B, V, InUse)
      /\ FramesHold(L, U, A, T) => FramesHold(M, W, B, V)
      /\ FramesKept(M, B, V) /\ FramesOK(M, B) /\ Owed(M, B) /\ BasesOK(M, B, V)
      /\ \A a, x : Holds(L, U, Len(L), a, x) => Holds(M, W, Len(M), a, x)
  <2> DEFINE R == InUse
  <2>1. /\ DeferredApart(L, A, T) /\ DeferredBefore(L, A, T, R) /\ BasesOK(L, A, T)
        /\ FramesKept(L, A, T) /\ FramesOK(L, A) /\ Owed(L, A)
    BY <1>1 DEF DataInv
  <2> HIDE DEF L, M, A, B, T, V, U, W, R
  <2>2. IsTail(L, M)
    BY <1>5 DEF Taken
  <2>3. 1 \in 1..Len(L) /\ Len(L) = Len(M) + 1 /\ Len(M) \in Places(M)
    BY <2>2 DEF IsTail, Places
  <2>4. IsList(L, 1) => L[1].base \in Int
    BY <1>6, <2>3
  <2>5. BasesOK(M, B, V)
    BY <1>5, <1>6, <2>1, TakenBases
  <2>6. /\ DeferredApart(M, B, V) /\ DeferredBefore(M, B, V, R)
        /\ FramesHold(L, U, A, T) => FramesHold(M, W, B, V)
        /\ FramesKept(M, B, V) /\ FramesOK(M, B) /\ Owed(M, B)
    BY <1>5, <1>6, <2>1, <2>4, TakenData
  <2>7. \A a, x : Holds(L, U, Len(L), a, x) => Holds(M, W, Len(M), a, x)
    BY <1>5, <2>3, TakenHolds
  <2> QED  BY <2>5, <2>6, <2>7 DEF R
<1>8. FramesKept(Line, active_documents, taken_base)'
  BY <1>4, <1>7, FramesMove
<1>9. FramesOK(Line, active_documents)' /\ BasesOK(Line, active_documents, taken_base)'
  BY <1>3, <1>7 DEF FramesOK
<1>10. Owed(Line, active_documents)'
  BY <1>3, <1>7 DEF Owed, Between
<1>11. UsesKept' /\ Stamped' /\ PlainUses' = PlainUses /\ InUse' = InUse
       /\ \A g \in Handles : (Valid(g)' <=> Valid(g)) /\ HandleAt(g)' = HandleAt(g)
  <2>1. /\ \A g \in Handles : (Valid(g)' <=> Valid(g)) /\ HandleAt(g)' = HandleAt(g)
        /\ PlainUses' = PlainUses
    BY <1>3 DEF Valid, HandleAt, PlainUses
  <2>2. InUse' = InUse
    BY <2>1 DEF InUse
  <2>3. Stamped'
    BY <1>1, <1>3 DEF Stamped
  <2>4. UsesOn
    <3>1. StaysPut /\ max_epoch' \in Nat
      BY <1>1, <1>3, BlockFacts DEF StaysPut, BasicInv, TypeOK, textureVars
    <3> QED  BY <1>1, <1>3, <3>1, StaysKeeps
  <2>5. UsesKept'
    BY <1>1, <1>3, <2>4, BuildUses
  <2> QED  BY <2>1, <2>2, <2>3, <2>5
<1>12. DataInv'
  <2>1. ASSUME ~spoiled
        PROVE  /\ FramesHold(M, W, B, V)
               /\ \A u \in PlainUses : Holds(M, W, Len(M), u.at, u.data)
               /\ \A h \in Handles : Valid(h) => Holds(M, W, Len(M), HandleAt(h), <<h, version[h]>>)
    <3>1. /\ FramesHold(L, U, A, T)
          /\ \A u \in PlainUses : Holds(L, U, Len(L), u.at, u.data)
          /\ \A h \in Handles : Valid(h) => Holds(L, U, Len(L), HandleAt(h), <<h, version[h]>>)
      BY <1>1, <2>1 DEF DataInv, UsesHold, HandlesHold
    <3> QED  BY <1>7, <3>1
  <2> QED  BY <1>3, <1>7, <1>11, <2>1 DEF DataInv, UsesHold, HandlesHold
<1> QED  BY <1>8, <1>9, <1>10, <1>11, <1>12 DEF KeptInv

LEMMA DrawnIs ==
  /\ DOMAIN Drawn = DOMAIN Uploaded \cup Deferred
  /\ \A a \in Deferred : Drawn[a] = External
  /\ \A a \in DOMAIN Uploaded : a \notin Deferred => Drawn[a] = Uploaded[a]
BY DEF Drawn, Override

LEMMA RenderNext ==
  ASSUME IInv, Render
  PROVE  KeptInv' /\ DataInv'
<1>1. /\ BasicInv /\ UsesKept /\ DataInv /\ Stamped
      /\ FramesKept(Line, active_documents, taken_base) /\ FramesOK(Line, active_documents)
      /\ BasesOK(Line, active_documents, taken_base) /\ Owed(Line, active_documents)
  BY DEF IInv, KeptInv
<1>2. /\ UNCHANGED <<cacheVars, backendVars, results, active_documents, taken_base>>
      /\ gpu_cache_texture' = Drawn /\ pending_gpu_cache_updates' = EmptyMap
      /\ pending_gpu_cache_clear' = FALSE /\ spoiled' = Spoiled
  BY DEF Render
<1>3. /\ UNCHANGED <<textureVars, location, version, requires_frame_build, documents, frame_id,
                     now, nops, batch, uses, deferred, base_epoch, blocks, block_count>>
      /\ Line' = Line
  BY <1>2 DEF cacheVars, textureVars, backendVars, Line, PendingList
<1>4. /\ \A g \in Handles : (Valid(g)' <=> Valid(g)) /\ HandleAt(g)' = HandleAt(g)
      /\ PlainUses' = PlainUses
  BY <1>3 DEF Valid, HandleAt, PlainUses
<1>5. InUse' = InUse
  BY <1>4 DEF InUse
<1>6. KeepsOn /\ UsesOn
  <2>1. \A d \in Docs : LastSent(d)' = LastSent(d)
    BY <1>3 DEF LastSent
  <2>2. StaysPut /\ max_epoch' \in Nat
    BY <1>1, <1>3, BlockFacts DEF StaysPut, BasicInv, TypeOK, textureVars
  <2> QED  BY <1>1, <1>3, <2>1, <2>2, StaysKeeps
<1>7. /\ FramesKept(Line, active_documents, taken_base)'
  BY <1>1, <1>2, <1>3, <1>6, FramesMove
<1>8. /\ FramesOK(Line, active_documents)' /\ BasesOK(Line, active_documents, taken_base)'
      /\ Owed(Line, active_documents)' /\ Stamped'
  BY <1>1, <1>2, <1>3 DEF FramesOK, Owed, Between, Stamped
<1>9. UsesKept'
  BY <1>1, <1>3, <1>6, BuildUses
<1> DEFINE L == Line
           A == active_documents
           T == taken_base
           U == Uploaded
           W == Uploaded'
           R == InUse
<1>10. ASSUME ~Spoiled PROVE DrawnOver(A, T, U, W)
  <2>1. ASSUME NEW a \in DOMAIN Drawn PROVE a \in DOMAIN W /\ W[a] = Drawn[a]
    BY <1>2, <2>1, EmptyIsMap DEF Uploaded, Override
  <2>2. ASSUME NEW a \in Deferred
        PROVE  \E d \in Docs : d \in DOMAIN A /\ A[d].base = T /\ a \in A[d].deferred
    <3>1. PICK d \in Active : a \in A[d].deferred
      BY <2>2 DEF Deferred
    <3>2. d \in Docs /\ A[d].deferred # {}
      BY <1>1, <3>1 DEF BasicInv, TypeOK
    <3>3. A[d].base = T
      BY <1>10, <3>1, <3>2 DEF Spoiled
    <3> QED  BY <3>1, <3>2, <3>3 DEF Active
  <2>3. ASSUME NEW a \in DOMAIN U
        PROVE  /\ a \in DOMAIN W
               /\ W[a] = U[a] \/ \E d \in Docs : d \in DOMAIN A /\ A[d].base = T /\ a \in A[d].deferred
    <3>1. a \in DOMAIN Drawn /\ (a \notin Deferred => Drawn[a] = U[a])
      BY <2>3, DrawnIs
    <3>2. a \in DOMAIN W /\ W[a] = Drawn[a]
      BY <2>1, <3>1
    <3> QED  BY <2>2, <3>1, <3>2
  <2> QED  BY <2>3 DEF DrawnOver
<1>11. Len(L) \in Nat
  BY <1>1, LineFacts
<1>12. ASSUME ~Spoiled
       PROVE  /\ FramesHold(L, W, A, T)
              /\ \A u \in PlainUses : Holds(L, W, Len(L), u.at, u.data)
              /\ \A h \in Handles : Valid(h) => Holds(L, W, Len(L), HandleAt(h), <<h, version[h]>>)
  <2>1. ~spoiled
    BY <1>12 DEF Spoiled
  <2>2. /\ FramesHold(L, U, A, T) /\ DeferredApart(L, A, T) /\ DeferredBefore(L, A, T, R)
        /\ \A u \in PlainUses : Holds(L, U, Len(L), u.at, u.data)
        /\ \A h \in Handles : Valid(h) => Holds(L, U, Len(L), HandleAt(h), <<h, version[h]>>)
    BY <1>1, <2>1 DEF DataInv, UsesHold, HandlesHold
  <2>3. DrawnOver(A, T, U, W)
    BY <1>10, <1>12
  <2>4. /\ \A u \in PlainUses : u.at \in R
        /\ \A h \in Handles : Valid(h) => HandleAt(h) \in R
    BY DEF InUse
  <2> HIDE DEF L, A, T, U, W, R
  <2>5. /\ FramesHold(L, W, A, T)
        /\ \A a \in R : \A x : Holds(L, U, Len(L), a, x) => Holds(L, W, Len(L), a, x)
    BY <1>11, <2>2, <2>3, DrawnData
  <2> QED  BY <2>2, <2>4, <2>5
<1>13. DataInv'
  BY <1>1, <1>2, <1>3, <1>4, <1>5, <1>12 DEF DataInv, UsesHold, HandlesHold
<1> QED  BY <1>7, <1>8, <1>9, <1>13 DEF KeptInv

-----------------------------------------------------------------------------
(* All steps.                                                              *)

LEMMA InitKept == Init => KeptInv /\ DataInv
<1> SUFFICES ASSUME Init PROVE KeptInv /\ DataInv
  OBVIOUS
<1>1. BasicInv
  BY BasicInit
<1>2. /\ now = NoDoc /\ uses = {} /\ deferred = {} /\ documents = {} /\ block_count = 0
      /\ results = <<>> /\ base_epoch = 0 /\ taken_base = 0 /\ pending_clear = FALSE
      /\ DOMAIN active_documents = {}
  BY EmptyIsMap DEF Init
<1>3. /\ Len(results) = 0 /\ Len(Line) = 1 /\ Line[1] = PendingList /\ PendingList.kind = "gpu"
      /\ PendingList.clear = FALSE /\ PendingList.base = 0
  <2>1. Len(results) = 0
    BY <1>2
  <2>2. /\ Len(Line) = Len(results) + 1 /\ Line[Len(Line)] = PendingList /\ PendingList.kind = "gpu"
        /\ PendingList.clear = pending_clear /\ PendingList.base = base_epoch
    BY <1>1, LineFacts
  <2> QED  BY <1>2, <2>1, <2>2
<1>4. /\ Places(Line) = {0, 1}
      /\ \A p \in Places(Line) : \A i \in 0..p : i \in Places(Line)
      /\ \A d : \A i \in Places(Line) : ~HasFrame(Line, active_documents, i, d)
      /\ \A i, j \in Places(Line) : ~ClearIn(Line, i, j)
  <2>1. Places(Line) = {0, 1}
    BY <1>3 DEF Places
  <2>2. ASSUME NEW d, NEW i \in Places(Line) PROVE ~HasFrame(Line, active_documents, i, d)
    BY <1>2, <1>3, <2>1, <2>2 DEF HasFrame
  <2>3. ASSUME NEW i \in {0, 1}, NEW j \in {0, 1} PROVE ~ClearIn(Line, i, j)
    <3>1. ASSUME NEW k \in (i + 1)..j PROVE k = 1
      OBVIOUS
    <3> QED  BY <1>3, <3>1 DEF ClearIn
  <2>4. \A p \in {0, 1} : \A i \in 0..p : i \in {0, 1}
    OBVIOUS
  <2> QED  BY <2>1, <2>2, <2>3, <2>4
<1>5. \A h \in Handles : ~Valid(h)
  BY <1>2 DEF Valid
<1>6. KeptInv
  <2>1. FramesKept(Line, active_documents, taken_base) /\ FramesOK(Line, active_documents)
        /\ Owed(Line, active_documents)
    BY <1>4 DEF FramesKept, FramesOK, Owed, Shown
  <2>2. UsesKept /\ Stamped
    BY <1>2 DEF UsesKept, PlainUses, Stamped
  <2>3. \A i, j \in {0, 1} : i < j => i = 0 /\ j = 1
    OBVIOUS
  <2>4. \A i, j \in Places(Line) : i < j /\ (i = 0 \/ IsList(Line, i)) /\ IsList(Line, j) =>
           /\ BaseAt(Line, taken_base, i) <= BaseAt(Line, taken_base, j)
           /\ Line[j].clear => BaseAt(Line, taken_base, i) < BaseAt(Line, taken_base, j)
           /\ ~ClearIn(Line, i, j) => BaseAt(Line, taken_base, i) = BaseAt(Line, taken_base, j)
    BY <1>2, <1>3, <1>4, <2>3 DEF BaseAt
  <2>5. \A i \in 1..Len(Line) : Line[i].kind # "document"
    <3>1. \A i \in 1..1 : i = 1
      OBVIOUS
    <3> QED  BY <1>3, <3>1
  <2>6. BasesOK(Line, active_documents, taken_base)
    BY <1>2, <2>4, <2>5 DEF BasesOK
  <2> QED  BY <2>1, <2>2, <2>6 DEF KeptInv
<1>7. DataInv
  BY <1>2, <1>4, <1>5 DEF DataInv, DeferredApart, DeferredBefore, FramesHold, UsesHold, HandlesHold, PlainUses, Shown
<1> QED  BY <1>6, <1>7

LEMMA SameNext ==
  ASSUME IInv, UNCHANGED vars
  PROVE  KeptInv' /\ DataInv'
<1>1. BasicInv /\ UsesKept /\ DataInv
  BY DEF IInv, KeptInv
<1>2. /\ UNCHANGED <<textureVars, location, version, unchangedByBuilding, updates, uses, deferred, now, frame_id,
                     rendererVars>>
      /\ PlainUses' = PlainUses
  BY DEF vars, cacheVars, backendVars, textureVars, unchangedByBuilding, PlainUses
<1>3. /\ Line' = Line /\ active_documents' = active_documents /\ taken_base' = taken_base
      /\ Uploaded' = Uploaded /\ spoiled' = spoiled
  BY <1>1, <1>2, BuildingNow
<1>4. /\ KeepsOn /\ UsesOn
      /\ \A g \in Handles : Valid(g)' => Valid(g) /\ HandleAt(g)' = HandleAt(g) /\ version'[g] = version[g]
  <2>1. \A d \in Docs : LastSent(d)' = LastSent(d)
    BY <1>2 DEF LastSent
  <2>2. StaysPut /\ max_epoch' \in Nat /\ blocks' = blocks
    BY <1>1, <1>2, BlockFacts DEF StaysPut, BasicInv, TypeOK, textureVars
  <2> QED  BY <1>1, <1>2, <2>1, <2>2, StaysKeeps
<1>5. /\ FramesKept(Line, active_documents, taken_base)' /\ FramesOK(Line, active_documents)'
      /\ BasesOK(Line, active_documents, taken_base)' /\ Owed(Line, active_documents)' /\ Stamped'
  BY <1>2, <1>3, <1>4, BuildKept
<1>6. UsesKept'
  BY <1>1, <1>2, <1>4, BuildUses
<1>7. DataInv'
  BY <1>1, <1>2, <1>3, <1>4, StaysData
<1> QED  BY <1>5, <1>6, <1>7 DEF KeptInv

LEMMA InitIInv == Init => IInv
BY BasicInit, InitKept DEF IInv

LEMMA NextIInv == IInv /\ [Next]_vars => IInv'
<1> SUFFICES ASSUME IInv, [Next]_vars PROVE IInv'
  OBVIOUS
<1>1. BasicInv'
  BY BasicNext DEF IInv
<1>2. KeptInv' /\ DataInv'
  <2>1. CASE UNCHANGED vars
    BY <2>1, SameNext
  <2>2. ASSUME NEW ds \in SUBSET Docs, StartGroup(ds) PROVE KeptInv' /\ DataInv'
    BY <2>2, StartGroupNext
  <2>3. ASSUME NEW d \in Docs, BeginFrame(d) PROVE KeptInv' /\ DataInv'
    BY <2>3, BeginFrameNext
  <2>4. CASE EvictOld \/ KeepRecent
    BY <2>4, LoopNext
  <2>5. ASSUME NEW h \in Handles, Request(h) \/ Invalidate(h) \/ Update(h) PROVE KeptInv' /\ DataInv'
    BY <2>5, RequestNext, InvalidateNext, UpdateNext
  <2>6. ASSUME NEW c \in Classes, PushPerFrame(c) \/ PushDeferred(c) PROVE KeptInv' /\ DataInv'
    BY <2>6, PushNext
  <2>7. CASE EndFrame
    BY <2>7, EndFrameNext
  <2>8. CASE DropCaches
    BY <2>8, DropCachesNext
  <2>9. ASSUME NEW d \in Docs, AddDocument(d) \/ DeleteDocument(d) PROVE KeptInv' /\ DataInv'
    BY <2>9, DocumentsNext
  <2>10. CASE Renderer
    BY <2>10, TakeNext, RenderNext DEF Renderer
  <2> QED  BY <2>1, <2>2, <2>3, <2>4, <2>5, <2>6, <2>7, <2>8, <2>9, <2>10 DEF Next, RenderBackend
<1> QED  BY <1>1, <1>2 DEF IInv

LEMMA Inductive == Spec => []IInv
BY InitIInv, NextIInv, PTL DEF Spec

-----------------------------------------------------------------------------
(* What the invariant says of the frames and the handles.                  *)

LEMMA OwedReplaced ==
  ASSUME IInv
  PROVE  ClearedFramesReplaced
<1> SUFFICES ASSUME results = <<>>, Between, ~requires_frame_build,
                    NEW d \in Active \cap documents, active_documents[d].base # base_epoch
             PROVE  FALSE
  BY DEF ClearedFramesReplaced
<1>1. BasicInv /\ Owed(Line, active_documents)
  BY DEF IInv, KeptInv
<1>2. Len(results) = 0
  OBVIOUS
<1>3. Len(Line) = 1 /\ Line[1].kind = "gpu" /\ 0 \in Places(Line)
  <2>1. /\ Len(Line) = Len(results) + 1 /\ Line[Len(Line)] = PendingList /\ PendingList.kind = "gpu"
    BY <1>1, LineFacts
  <2> QED  BY <1>2, <2>1 DEF Places
<1>4. HasFrame(Line, active_documents, 0, d) /\ FrameAt(Line, active_documents, 0, d) = active_documents[d]
  BY DEF HasFrame, FrameAt, Active
<1>5. ~Superseded(Line, 0, Len(Line), d)
  <2>1. ASSUME NEW k \in (0 + 1)..Len(Line) PROVE k = 1
    BY <1>3
  <2> QED  BY <1>3, <2>1 DEF Superseded, HasFrame
<1> QED  BY <1>1, <1>3, <1>4, <1>5 DEF Owed

LEMMA ShownIntact ==
  ASSUME IInv
  PROVE  DrawnIntact
<1> SUFFICES ASSUME ~Spoiled, NEW d \in Active, Current(d),
                    NEW u \in active_documents[d].uses, ~u.shared
             PROVE  u.at \in DOMAIN Drawn /\ Drawn[u.at] = u.data
  BY DEF DrawnIntact
<1> DEFINE L == Line
           A == active_documents
           T == taken_base
           U == Uploaded
<1>1. /\ BasicInv /\ FramesOK(L, A) /\ DeferredApart(L, A, T) /\ FramesHold(L, U, A, T)
      /\ Active \subseteq Docs
  <2>1. ~spoiled
    BY DEF Spoiled
  <2> QED  BY <2>1 DEF IInv, KeptInv, DataInv, BasicInv, TypeOK
<1>2. 0 \in Places(L) /\ 0 \in 0..0
  <2>1. Len(L) \in Nat
    BY <1>1, LineFacts
  <2> QED  BY <2>1 DEF Places
<1>3. ASSUME NEW e \in Active, A[e].base = T
      PROVE  Shown(L, A, T, 0, 0, e) /\ FrameAt(L, A, 0, e) = A[e] /\ HasFrame(L, A, 0, e)
  <2>1. e \in DOMAIN A
    BY DEF Active
  <2> HIDE DEF L, A, T
  <2> QED  BY <1>3, <2>1, ShownFirst DEF Shown
<1>4. d \in Docs /\ Shown(L, A, T, 0, 0, d) /\ FrameAt(L, A, 0, d) = A[d] /\ HasFrame(L, A, 0, d)
  BY <1>1, <1>3 DEF Current
<1>5. CASE u.data = External
  <2>1. u.at \in A[d].deferred
    BY <1>1, <1>2, <1>4, <1>5 DEF FramesOK
  <2>2. u.at \in Deferred
    BY <2>1 DEF Deferred
  <2> QED  BY <1>5, <2>2, DrawnIs
<1>6. CASE u.data # External
  <2>1. Plain(u)
    BY <1>6 DEF Plain
  <2>2. Holds(L, U, 0, u.at, u.data)
    BY <1>1, <1>2, <1>4, <2>1 DEF FramesHold
  <2>3. u.at \in DOMAIN U /\ U[u.at] = u.data
    <3> HIDE DEF U, L
    <3>1. PICK i \in 0..0 : WrittenLast(L, U, i, 0, u.at, u.data)
      BY <2>2 DEF Holds
    <3>2. i = 0
      OBVIOUS
    <3> QED  BY <3>1, <3>2 DEF WrittenLast, Source
  <2>4. ASSUME u.at \in Deferred PROVE FALSE
    <3>1. PICK e \in Active : u.at \in A[e].deferred
      BY <2>4 DEF Deferred
    <3>2. A[e].base = T /\ e \in Docs
      BY <1>1, <3>1 DEF Spoiled
    <3>3. Shown(L, A, T, 0, 0, e) /\ FrameAt(L, A, 0, e) = A[e]
      BY <1>3, <3>2
    <3>4. ~ClearIn(L, 0, 0) /\ ~WrittenIn(L, 0, 0, u.at)
      BY DEF ClearIn, WrittenIn
    <3> HIDE DEF L, A, T
    <3>5. WrittenIn(L, 0, 0, u.at)
      <4>1. u \in FrameAt(L, A, 0, d).uses /\ Plain(u) /\ u.at \in FrameAt(L, A, 0, e).deferred
        BY <1>4, <2>1, <3>1, <3>3 DEF A
      <4>2. \A p, q \in Places(L), d1, e1 \in Docs : \A i \in 0..p, k \in 0..q :
              p <= q /\ Shown(L, A, T, i, p, d1) /\ Shown(L, A, T, k, q, e1) /\ ~ClearIn(L, p, q) =>
                \A v \in FrameAt(L, A, k, e1).uses :
                  Plain(v) /\ v.at \in FrameAt(L, A, i, d1).deferred => WrittenIn(L, p, q, v.at)
        BY <1>1 DEF DeferredApart
      <4> QED  BY <1>2, <1>4, <3>2, <3>3, <3>4, <4>1, <4>2
    <3> QED  BY <3>4, <3>5
  <2>5. u.at \in DOMAIN Drawn /\ Drawn[u.at] = U[u.at]
    BY <2>3, <2>4, DrawnIs
  <2> QED  BY <2>3, <2>5
<1> QED  BY <1>5, <1>6

(* What the lists make of the texture, one after the other.                *)
AfterList(L, U, f, n) ==
  IF n = 0 THEN U
  ELSE IF L[n].kind # "gpu" THEN f[n - 1]
  ELSE Override(IF L[n].clear THEN EmptyMap ELSE f[n - 1], L[n].updates)

LEMMA AfterExists ==
  ASSUME NEW L, NEW U, NEW m \in Nat
  PROVE  \E f : f = [n \in 0..m |-> AfterList(L, U, f, n)]
<1> DEFINE Missing(k) == ~ \E f : f = [n \in 0..k |-> AfterList(L, U, f, n)]
           T == {k \in Nat : Missing(k)}
<1> SUFFICES ASSUME T # {} PROVE FALSE
  OBVIOUS
<1>1. PICK k \in T : \A j \in T : k <= j
  BY Smallest
<1>2. CASE k = 0
  <2> DEFINE f == [n \in 0..0 |-> U]
  <2>1. \A n \in 0..0 : AfterList(L, U, f, n) = U
    BY DEF AfterList
  <2>2. f = [n \in 0..0 |-> AfterList(L, U, f, n)]
    BY <2>1
  <2> QED  BY <1>1, <1>2, <2>2
<1>3. CASE k # 0
  <2>1. k - 1 \in Nat /\ k - 1 \notin T
    BY <1>1, <1>3
  <2>2. PICK g : g = [n \in 0..(k - 1) |-> AfterList(L, U, g, n)]
    BY <2>1
  <2> DEFINE f == [n \in 0..k |-> AfterList(L, U, g, n)]
  <2>3. \A n \in 0..k : n # 0 => n - 1 \in 0..(k - 1) /\ n - 1 \in 0..k
    BY <1>1
  <2>4. \A n \in 0..(k - 1) : f[n] = g[n]
    BY <1>1, <2>2
  <2>5. \A n \in 0..k : AfterList(L, U, f, n) = AfterList(L, U, g, n)
    <3> HIDE DEF f
    <3> QED  BY <2>3, <2>4 DEF AfterList
  <2>6. f = [n \in 0..k |-> AfterList(L, U, f, n)]
    BY <2>5
  <2> QED  BY <1>1, <2>6
<1> QED  BY <1>2, <1>3

LEMMA OnceUploadedIs ==
  ASSUME Len(results) \in Nat
  PROVE  \E f : /\ f = [n \in 0..Len(results) |-> AfterList(results, Uploaded, f, n)]
                /\ OnceUploaded = Override(IF pending_clear THEN EmptyMap ELSE f[Len(results)], updates)
<1>1. \E f : f = [n \in 0..Len(results) |-> AfterList(results, Uploaded, f, n)]
  BY AfterExists
<1> DEFINE g == CHOOSE f : f = [n \in 0..Len(results) |->
                  IF n = 0 THEN Uploaded
                  ELSE IF results[n].kind # "gpu" THEN f[n - 1]
                  ELSE Override(IF results[n].clear THEN EmptyMap ELSE f[n - 1], results[n].updates)]
<1>2. g = [n \in 0..Len(results) |-> AfterList(results, Uploaded, g, n)]
  BY <1>1, Zenon DEF AfterList
<1>3. OnceUploaded = Override(IF pending_clear THEN EmptyMap ELSE g[Len(results)], updates)
  BY Zenon DEF OnceUploaded
<1> HIDE DEF g
<1> QED  BY <1>2, <1>3

LEMMA AfterHolds ==
  ASSUME NEW L, NEW U, NEW f, NEW q \in Nat, NEW a, NEW x, Holds(L, U, q, a, x),
         q # 0 /\ Holds(L, U, q - 1, a, x) => a \in DOMAIN f[q - 1] /\ f[q - 1][a] = x
  PROVE  a \in DOMAIN AfterList(L, U, f, q) /\ AfterList(L, U, f, q)[a] = x
<1>1. PICK i \in 0..q : WrittenLast(L, U, i, q, a, x)
  BY DEF Holds
<1>2. CASE q = 0
  <2>1. i = 0
    BY <1>2
  <2> QED  BY <1>1, <1>2, <2>1 DEF WrittenLast, Source, AfterList
<1>3. CASE q # 0 /\ i = q
  <2>1. /\ L[q].kind = "gpu" /\ a \in DOMAIN L[q].updates /\ L[q].updates[a] = x
    BY <1>1, <1>3 DEF WrittenLast, Source, IsList
  <2> QED  BY <1>3, <2>1 DEF AfterList, Override
<1>4. CASE q # 0 /\ i # q
  <2>1. /\ i \in 0..(q - 1) /\ q - 1 \in Nat /\ q \in (i + 1)..q
        /\ \A k \in (i + 1)..(q - 1) : k \in (i + 1)..q
    BY <1>4
  <2>2. ~ClearIn(L, i, q) /\ ~WrittenIn(L, i, q, a)
    BY <1>1 DEF WrittenLast
  <2>3. WrittenLast(L, U, i, q - 1, a, x)
    BY <1>1, <2>1, <2>2 DEF WrittenLast, ClearIn, WrittenIn
  <2>4. a \in DOMAIN f[q - 1] /\ f[q - 1][a] = x
    BY <1>4, <2>1, <2>3 DEF Holds
  <2>5. L[q].kind = "gpu" => ~L[q].clear /\ a \notin DOMAIN L[q].updates
    BY <2>1, <2>2 DEF ClearIn, WrittenIn, IsList
  <2> QED  BY <1>4, <2>4, <2>5 DEF AfterList, Override
<1> QED  BY <1>2, <1>3, <1>4

LEMMA HeldAfter ==
  ASSUME NEW L, NEW U, NEW m \in Nat, NEW f, f = [n \in 0..m |-> AfterList(L, U, f, n)],
         NEW a, NEW x
  PROVE  \A q \in 0..m : Holds(L, U, q, a, x) => a \in DOMAIN f[q] /\ f[q][a] = x
<1> DEFINE Wrong(q) == Holds(L, U, q, a, x) /\ ~(a \in DOMAIN f[q] /\ f[q][a] = x)
           T == {q \in 0..m : Wrong(q)}
<1> SUFFICES ASSUME T # {} PROVE FALSE
  OBVIOUS
<1>1. T \in SUBSET Nat
  OBVIOUS
<1>2. PICK q \in T : \A j \in T : q <= j
  BY <1>1, Smallest
<1>3. q \in Nat /\ q \in 0..m /\ f[q] = AfterList(L, U, f, q) /\ Wrong(q)
  BY <1>2
<1>4. q # 0 /\ Holds(L, U, q - 1, a, x) => a \in DOMAIN f[q - 1] /\ f[q - 1][a] = x
  BY <1>2, <1>3
<1>5. a \in DOMAIN AfterList(L, U, f, q) /\ AfterList(L, U, f, q)[a] = x
  BY <1>3, <1>4, AfterHolds
<1> QED  BY <1>3, <1>5

LEMMA HandlesUploaded ==
  ASSUME IInv
  PROVE  ValidHandleIsUploaded
<1> SUFFICES ASSUME ~spoiled, NEW h \in Handles, Valid(h)
             PROVE  HandleAt(h) \in DOMAIN OnceUploaded /\ OnceUploaded[HandleAt(h)] = <<h, version[h]>>
  BY DEF ValidHandleIsUploaded, HandleAt
<1> DEFINE L == Line
           U == Uploaded
           m == Len(results)
           a == HandleAt(h)
           x == <<h, version[h]>>
<1>1. /\ m \in Nat /\ Len(L) = m + 1 /\ \A i \in 1..m : L[i] = results[i]
      /\ L[m + 1].kind = "gpu" /\ L[m + 1].clear = pending_clear /\ L[m + 1].updates = updates
  <2>1. BasicInv
    BY DEF IInv
  <2>2. /\ Len(results) \in Nat /\ Len(Line) = Len(results) + 1 /\ \A i \in 1..Len(results) : Line[i] = results[i]
        /\ Line[Len(Line)] = PendingList /\ PendingList.kind = "gpu"
        /\ PendingList.clear = pending_clear /\ PendingList.updates = updates
    BY <2>1, LineFacts
  <2> QED  BY <2>2
<1>2. Holds(L, U, m + 1, a, x)
  BY <1>1 DEF IInv, DataInv, HandlesHold
<1>3. PICK f : /\ f = [n \in 0..m |-> AfterList(results, U, f, n)]
               /\ OnceUploaded = Override(IF pending_clear THEN EmptyMap ELSE f[m], updates)
  BY <1>1, OnceUploadedIs
<1>4. OnceUploaded = AfterList(L, U, f, m + 1)
  BY <1>1, <1>3 DEF AfterList
<1>5. f = [n \in 0..m |-> AfterList(L, U, f, n)]
  <2>1. \A n \in 0..m : AfterList(results, U, f, n) = AfterList(L, U, f, n)
    BY <1>1 DEF AfterList
  <2> QED  BY <1>3, <2>1
<1> HIDE DEF L, U, m, a, x
<1>6. m + 1 \in Nat /\ m \in 0..m /\ (m + 1) - 1 = m
  BY <1>1
<1>7. Holds(L, U, m, a, x) => a \in DOMAIN f[m] /\ f[m][a] = x
  BY <1>1, <1>5, <1>6, HeldAfter
<1>8. a \in DOMAIN AfterList(L, U, f, m + 1) /\ AfterList(L, U, f, m + 1)[a] = x
  BY <1>2, <1>6, <1>7, AfterHolds
<1> QED  BY <1>4, <1>8 DEF a, x

-----------------------------------------------------------------------------
(* The theorems.                                                           *)

(* Every block of the texture is on exactly one list, also half-way        *)
(* through evict_old_blocks, and a free list holds blocks of its size only.*)
THEOREM GpuCacheInvariant == Spec => []GpuCacheInv
<1>1. BasicInv => GpuCacheInv
  BY OnOneList DEF GpuCacheInv, BasicInv
<1> QED  BY <1>1, BasicInit, BasicNext, PTL DEF Spec

(* A handle that request finds valid is not uploaded again: what it holds, *)
(* in the version its owner means, is in the texture or on its way there,  *)
(* across evictions, reuses of its block, clears and frames of others.     *)
THEOREM HandlesUploadedAlways == Spec => []ValidHandleIsUploaded
BY Inductive, HandlesUploaded, PTL

(* Whenever the renderer draws, every block that a frame reads holds what  *)
(* the frame stored there: later frames of its document spare it in        *)
(* evict_old_blocks, and those of other documents do not look at it.       *)
THEOREM FramesDrawnIntact == Spec => []DrawnIntact
BY Inductive, ShownIntact, PTL

(* A clear is owed to every document: once the group of frames that        *)
(* follows it has been delivered, no document is left with a frame of the  *)
(* texture that was dropped.                                               *)
THEOREM ClearedReplaced == Spec => []ClearedFramesReplaced
BY Inductive, OwedReplaced, PTL
=============================================================================
