---------------------------- MODULE EpochProofs ----------------------------
(***************************************************************************)
(* PublishedEpochsShown: when the renderer has taken all it was sent, no   *)
(* display list up to the epoch it reports is missing from its frame.      *)
(*                                                                         *)
(* The lists of a document are followed from the scene builder, which      *)
(* holds every list it has taken or has seen its pipeline removed, through *)
(* the scenes it has built and the document of the render backend, to the  *)
(* frame that the renderer has or will have.                               *)
(***************************************************************************)
EXTENDS ScenePipelineProofs

-----------------------------------------------------------------------------
(* What is sent is numbered, and otherwise as the menu has it.             *)
FromMenu ==
  \A n \in 1..sends :
    \/ Batch(n) = {}
    \/ \E a \in MenuBatches : Batch(n) = {[t EXCEPT !.id = n] : t \in a}

LEMMA FromMenuStep ==
  ASSUME TypeOK, NumbersOK, FromMenu, [Next]_vars
  PROVE  FromMenu'
<1> SUFFICES ASSUME NEW n \in 1..sends', Batch(n)' # {}
             PROVE  \E a \in MenuBatches : Batch(n)' = {[t EXCEPT !.id = n] : t \in a}
  BY Zenon DEF FromMenu
<1>t. /\ sends \in Nat /\ sends' \in Nat /\ sends <= sends'
      /\ \A k \in 1..sends : Batch(k)' = Batch(k)
  BY BatchesKept, Zenon
<1>1. CASE n \in 1..sends
  BY <1>1, <1>t, Zenon DEF FromMenu
<1>2. CASE n \notin 1..sends
  <2>o. Batch(n) = {}
    BY <1>2, Zenon DEF NumbersOK, Batch
  <2>1. CASE \E m \in Menu : Send(m)
    <3>1. PICK m \in Menu : Send(m)
      BY <2>1
    <3>2. n = sends + 1 /\ n \in Nat
      BY <3>1, <1>2, <1>t DEF Send
    <3>3. m.type = "UpdateDocuments" /\ sent' = sent \cup TxnsOf(Numbered(m, n).txns)
      BY <3>1, <3>2, <2>o DEF Send, Batch
    <3>4. \A t \in TxnsOf(Numbered(m, n).txns) : t.id = n
      BY <3>2, <3>3, NumberedBatch
    <3>5. Batch(n)' = TxnsOf(Numbered(m, n).txns)
      BY <3>3, <3>4, <2>o DEF Batch
    <3>6. TxnsOf(Numbered(m, n).txns) = {[t EXCEPT !.id = n] : t \in TxnsOf(m.txns)}
      <4>1. m \in ApiMsg
        BY MenuAssumption
      <4>2. Numbered(m, n).txns = [i \in DOMAIN m.txns |-> [m.txns[i] EXCEPT !.id = n]]
        BY <3>3, <4>1 DEF Numbered, ApiMsg
      <4> DEFINE with(q) == [i \in DOMAIN q |-> [q[i] EXCEPT !.id = n]]
      <4>3. \A q : TxnsOf(with(q)) = {[t EXCEPT !.id = n] : t \in TxnsOf(q)}
        <5> SUFFICES ASSUME NEW q
                     PROVE  TxnsOf(with(q)) = {[t EXCEPT !.id = n] : t \in TxnsOf(q)}
          OBVIOUS
        <5>1. DOMAIN with(q) = DOMAIN q /\ \A i \in DOMAIN q : with(q)[i] = [q[i] EXCEPT !.id = n]
          BY Zenon
        <5> HIDE DEF with
        <5>2. TxnsOf(with(q)) = {[q[i] EXCEPT !.id = n] : i \in DOMAIN q}
          BY <5>1 DEF TxnsOf
        <5> QED BY <5>2 DEF TxnsOf
      <4> QED BY <4>2, <4>3, Zenon
    <3>7. TxnsOf(m.txns) \in MenuBatches
      BY <3>3, Zenon DEF MenuBatches
    <3> QED BY <3>5, <3>6, <3>7, Zenon
  <2>2. CASE ~ \E m \in Menu : Send(m)
    <3>1. sent' = sent
      <4>1. CASE \E c \in Clients : Flush(c)
        BY <4>1 DEF Flush
      <4>2. CASE ~ \E c \in Clients : Flush(c)
        BY <2>2, <4>2, NotSent
      <4> QED BY <4>1, <4>2
    <3> QED BY <3>1, <2>o, Zenon DEF Batch
  <2> QED BY <2>1, <2>2
<1> QED BY <1>1, <1>2

(* Two transactions of one document.                                       *)
LEMMA SentMeans ==
  ASSUME OneWayMenu, RootsKeptMenu, TypeOK, NumbersOK, FromMenu,
         NEW t \in sent, NEW u \in sent, t.doc = u.doc
  PROVE  RootsKept(t, u) /\ (Changes(t) /\ Changes(u) => SameWay(t.id, u.id))
<1>1. t \in Transaction /\ u \in Transaction /\ t \in Batch(t.id) /\ u \in Batch(u.id)
  BY DEF TypeOK, ClientTypeOK, Batch
<1>2. t.id \in 1..sends /\ u.id \in 1..sends
  BY DEF NumbersOK
<1>3. PICK a \in MenuBatches : Batch(t.id) = {[x EXCEPT !.id = t.id] : x \in a}
  BY <1>1, <1>2, Zenon DEF FromMenu
<1>4. PICK b \in MenuBatches : Batch(u.id) = {[x EXCEPT !.id = u.id] : x \in b}
  BY <1>1, <1>2, Zenon DEF FromMenu
<1>5. PICK x \in a : t = [x EXCEPT !.id = t.id]
  BY <1>1, <1>3, Zenon
<1>6. PICK y \in b : u = [y EXCEPT !.id = u.id]
  BY <1>1, <1>4, Zenon
<1>7. \A c \in MenuBatches : c \subseteq Transaction
  <2>1. \A m \in Menu : m.type = "UpdateDocuments" => m.txns \in Seq(Transaction)
    BY MenuAssumption DEF ApiMsg
  <2> QED BY <2>1, MembersType, Zenon DEF MenuBatches
<1>8. /\ x.doc = t.doc /\ x.display = t.display /\ x.epochs = t.epochs /\ x.root = t.root
      /\ x.removes = t.removes
      /\ y.doc = u.doc /\ y.display = u.display /\ y.epochs = u.epochs /\ y.root = u.root
      /\ y.removes = u.removes
  BY <1>5, <1>6, <1>7 DEF Transaction
<1>9. RootsKept(t, u)
  BY <1>8 DEF RootsKeptMenu, RootsKept
<1>10. ASSUME Changes(t), Changes(u)
       PROVE  SameWay(t.id, u.id)
  <2>1. Changes(x) /\ Changes(y)
    BY <1>8, <1>10 DEF Changes, CanSkipSceneBuilder
  <2>2. UsesHighPriority(a) <=> UsesHighPriority(b)
    BY <2>1, <1>8, Zenon DEF OneWayMenu
  <2>3. \A c \in MenuBatches, n \in Nat : \A z :
          z = {[v EXCEPT !.id = n] : v \in c} => (UsesHighPriority(z) <=> UsesHighPriority(c))
    <3> SUFFICES ASSUME NEW c \in MenuBatches, NEW n \in Nat, NEW z,
                        z = {[v EXCEPT !.id = n] : v \in c}
                 PROVE  UsesHighPriority(z) <=> UsesHighPriority(c)
      OBVIOUS
    <3>1. \A v \in c : [v EXCEPT !.id = n].low = v.low
      BY <1>7 DEF Transaction
    <3> QED BY <3>1 DEF UsesHighPriority
  <2>4. UsesHighPriority(Batch(t.id)) <=> UsesHighPriority(Batch(u.id))
    <3>1. t.id \in Nat /\ u.id \in Nat
      BY <1>1 DEF Transaction
    <3> QED BY <2>2, <2>3, <1>3, <1>4, <3>1, Zenon
  <2> QED BY <2>4, <1>1, <1>10, Zenon DEF SameWay, UsesSceneBuilder, Changes
<1> QED BY <1>9, <1>10

-----------------------------------------------------------------------------
(* The order in which the transactions of one document that change its     *)
(* scene leave the scene builder and settle.                               *)
Runs == rbPc \notin {"stopping", "done", "panicked"}

Past(t) == ~Early(TxnMark(t))

OneWay    == \A t, u \in sent : t.doc = u.doc /\ Changes(t) /\ Changes(u) => SameWay(t.id, u.id)
RootsStay == \A t, u \in sent : t.doc = u.doc => RootsKept(t, u)

LEMMA SentAll ==
  ASSUME OneWayMenu, RootsKeptMenu, TypeOK, NumbersOK, FromMenu
  PROVE  OneWay /\ RootsStay
BY SentMeans DEF OneWay, RootsStay

LEMMA Ahead ==
  ASSUME Ready, OneWay, NEW t \in sent, NEW u \in sent, t.doc = u.doc, Changes(t), Changes(u),
         t.id < u.id
  PROVE  Before(t.id, t.doc, u.id, u.doc)
<1>1. SameWay(u.id, t.id)
  BY Zenon DEF OneWay
<1>2. t.id \in 1..sends /\ u.id \in 1..sends /\ t.doc \in Docs /\ u.doc \in Docs
  BY DEF Ready, LineInv, NumbersOK, TypeOK, ClientTypeOK, Transaction
<1> QED BY <1>1, <1>2, Zenon DEF Ready, LineInv, TxnsInLine

LEMMA SomeWhere ==
  ASSUME Ready, Runs, NEW t \in sent
  PROVE  /\ SettledMark(t.id, t.doc) \/ Waiting(TxnMark(t)) \/ TxnMark(t) \in WorkMarks
         /\ Waiting(TxnMark(t)) => Has(ResultLine, TxnMark(t)) \/ Early(TxnMark(t))
BY Zenon DEF Ready, LineInv, NothingLost, Runs, Settled, SettledMark, Waiting, Early, InScene

(* What has left the scene builder was sent before what has not.           *)
LEMMA EarlierPast ==
  ASSUME Ready, OneWay, Runs, NEW t \in sent, NEW u \in sent, t.doc = u.doc,
         Changes(t), Changes(u), Past(t), Early(TxnMark(u))
  PROVE  t.id < u.id
<1>1. t.id \in Nat /\ u.id \in Nat
  BY DEF Ready, TypeOK, ClientTypeOK, Transaction
<1>2. t.id # u.id
  BY Zenon DEF Past, TxnMark
<1>3. ASSUME u.id < t.id PROVE FALSE
  <2>1. Before(u.id, u.doc, t.id, t.doc)
    BY <1>3, Ahead
  <2>2. /\ NeverBehind(TxnMark(u), TxnMark(t))
        /\ TxnMark(t) \in WorkMarks => ~Waiting(TxnMark(u))
        /\ SettledMark(t.id, t.doc) => ~Waiting(TxnMark(u))
    BY <2>1, Zenon DEF Before, TxnMark
  <2>3. Waiting(TxnMark(u))
    BY EarlyWaits, Zenon
  <2>4. Has(ResultLine, TxnMark(t))
    BY <2>2, <2>3, SomeWhere, Zenon DEF Past
  <2> QED BY <2>2, <2>4, Zenon DEF NeverBehind, InLine, Early, InScene
<1> QED BY <1>1, <1>2, <1>3

LEMMA InWorkSame ==
  ASSUME Ready, NEW n, NEW d, NEW m, NEW e, <<"txn", n, d>> \in WorkMarks,
         <<"txn", m, e>> \in WorkMarks
  PROVE  n = m /\ n \in 1..sends
<1>1. PICK b \in TxnsOf(work) : b.txn.id = n
  BY WorkMarkMeans, Zenon
<1>2. PICK c \in TxnsOf(work) : c.txn.id = m
  BY WorkMarkMeans, Zenon
<1> QED BY <1>1, <1>2, Zenon DEF Ready, LineInv, WorkOK

(* When one is at work, those sent before it are settled, and those that   *)
(* are settled were sent before it.                                        *)
LEMMA EarlierSettled ==
  ASSUME Ready, OneWay, Runs, NEW t \in sent, NEW u \in sent, t.doc = u.doc,
         Changes(t), Changes(u), TxnMark(u) \in WorkMarks
  PROVE  /\ t.id < u.id => SettledMark(t.id, t.doc)
         /\ SettledMark(t.id, t.doc) => t.id <= u.id
<1>1. t.id \in Nat /\ u.id \in Nat
  BY DEF Ready, TypeOK, ClientTypeOK, Transaction
<1>2. ASSUME t.id < u.id PROVE SettledMark(t.id, t.doc)
  <2>1. ~Waiting(TxnMark(t))
    BY <1>2, Ahead, Zenon DEF Before, TxnMark
  <2>2. TxnMark(t) \notin WorkMarks
    BY <1>1, <1>2, InWorkSame DEF TxnMark
  <2> QED BY <2>1, <2>2, SomeWhere, Zenon
<1>3. ASSUME SettledMark(t.id, t.doc), u.id < t.id PROVE FALSE
  BY <1>3, Ahead, Zenon DEF Before, TxnMark
<1> QED BY <1>1, <1>2, <1>3

(* What the scene builder takes next: all that was sent before it is past. *)
LEMMA NextBuilt ==
  ASSUME Ready, OneWay, BuildTransactions,
         NEW t \in sent, NEW u \in sent, t.doc = u.doc, Changes(t), Changes(u),
         u \in TxnsOf(Head(highScene).txns), t.id < u.id
  PROVE  Past(t)
<1>1. /\ highScene # <<>> /\ Head(highScene).type = "Transactions"
      /\ highScene \in Seq(SceneRequest) /\ Head(highScene) \in TxnsOf(highScene)
  BY MembersTail, Zenon DEF BuildTransactions, Ready, TypeOK, ChannelTypeOK
<1>2. PICK n \in 1..sends : IsBatchOf(Head(highScene).txns, n)
  BY <1>1, Zenon DEF Ready, LineInv, BatchesWhole
<1>3. \A x \in TxnsOf(Head(highScene).txns) : x.id = u.id
  BY <1>2 DEF IsBatchOf, Batch
<1>4. /\ Head(HighLine) = MarksOf(Head(highScene)) /\ HighLine # <<>>
      /\ HighLine \in Seq({MarksOf(m) : m \in SceneRequest})
  BY BuiltMove, LineTypes DEF Ready, TypeOK, Built, LineTypeOK
<1>5. TxnMark(u) \in Head(HighLine)
  BY <1>1, <1>4, Zenon DEF MarksOf
<1>6. t.id \in Nat /\ u.id \in Nat
  BY DEF Ready, TypeOK, ClientTypeOK, Transaction
<1>7. TxnMark(t) \notin Head(HighLine)
  BY <1>1, <1>3, <1>4, <1>6 DEF MarksOf, TxnMark
<1>8. Before(t.id, t.doc, u.id, u.doc)
  BY Ahead
<1>9. NeverBehind(TxnMark(t), TxnMark(u))
  BY <1>8, Zenon DEF Before, TxnMark
<1>10. /\ Has(HighLine, TxnMark(u)) => ~Has(LowLine, TxnMark(t)) /\ ~Has(ApiLine, TxnMark(t))
       /\ NoneBehind(HighLine, TxnMark(u), TxnMark(t))
  BY <1>9, Zenon DEF NeverBehind, InLine
<1>11. Has(HighLine, TxnMark(u))
  BY <1>4, <1>5, HasTail, Zenon
<1>12. ~Has(Tail(HighLine), TxnMark(t))
  BY <1>4, <1>5, <1>10, BehindTail, Zenon
<1>13. ~Has(HighLine, TxnMark(t))
  BY <1>4, <1>7, <1>12, HasTail, Zenon
<1> QED BY <1>10, <1>11, <1>13, Zenon DEF Past, Early, InScene

(* How a mark comes to be on the way to the scene builder, and past it.    *)
LEMMA EarlyBy ==
  ASSUME TypeOK, [Next]_vars, NEW CONSTANT x
  PROVE  /\ Early(x)' =>
              \/ Early(x)
              \/ \E m \in Menu : Send(m) /\ x \in MarksOf(Numbered(m, sends + 1))
              \/ \E c \in Clients : Flush(c) /\ x = <<"flush", 0, c>>
         /\ Early(x) =>
              \/ Early(x)'
              \/ (BuildTransactions \/ Builds \/ BuilderDeleteDocument)
                 /\ x \in MarksOf(Head(highScene))
              \/ (ReceiveForBackend \/ Takes) /\ x \in MarksOf(Head(api))
              \/ Stopped
<1>t. LineTypeOK
  BY LineTypes DEF TypeOK
<1>1. CASE \E m \in Menu : Send(m)
  BY <1>1, <1>t, ClientMove, EarlyAfter, Zenon
<1>2. CASE \E c \in Clients : Flush(c)
  <2>1. PICK c \in Clients : Flush(c)
    BY <1>2
  <2>2. Early(x)' <=> Early(x) \/ x \in {<<"flush", 0, c>>}
    BY <2>1, <1>t, ClientMove, EarlyAfter, Zenon
  <2> QED BY <2>1, <2>2
<1>3. CASE PollTransactions \/ PollFlushComplete \/ PollClearNamespace \/ Discard
  BY <1>3, <1>t, PolledMove, EarlyAfter, Zenon
<1>4. CASE ReceiveForBackend \/ Takes
  BY <1>4, <1>t, TakenMove, EarlyAfter, Zenon DEF Takes
<1>5. CASE ReceiveForSceneBuilder \/ Forwards
  BY <1>5, <1>t, ForwardMove, EarlyAfter, Zenon DEF Forwards
<1>6. CASE Stopped
  <2>1. ApiLine' = <<>> /\ UNCHANGED <<HighLine, LowLine>>
    BY <1>6, OtherMoves DEF Ended
  <2>2. Early(x)' <=> Has(HighLine', x) \/ Has(LowLine', x) \/ Has(ApiLine', x)
    BY DEF Early, InScene, Has
  <2> QED BY <1>6, <2>1, <2>2, EmptyLine, Zenon DEF Early, InScene
<1>7. CASE LowForward
  BY <1>7, <1>t, OtherMoves, EarlyAfter, Zenon
<1>8. CASE BuildTransactions \/ Builds
  BY <1>8, <1>t, BuiltMove, EarlyAfter, Zenon DEF Builds
<1>9. CASE BuilderDeleteDocument
  BY <1>9, <1>t, OtherMoves, EarlyAfter, Zenon
<1>10. CASE WakeBackend
  BY <1>10, <1>t, OtherMoves, EarlyAfter, Zenon
<1>11. CASE Elsewhere
  BY <1>11, <1>t, StayedMove, EarlyAfter, Zenon
<1> QED
  BY <1>1, <1>2, <1>3, <1>4, <1>5, <1>6, <1>7, <1>8, <1>9, <1>10, <1>11, Steps, Zenon

LEMMA PastBy ==
  ASSUME Ready, [Next]_vars, NEW CONSTANT t, t \in sent
  PROVE  /\ Past(t) => Past(t)'
         /\ rbPc' # "done" /\ Changes(t) /\ Past(t)' =>
              Past(t) \/ (BuildTransactions /\ t \in TxnsOf(Head(highScene).txns))
<1>p. Past(t)' <=> ~Early(TxnMark(t))'
  BY DEF Past
<1>t. /\ TypeOK /\ BatchesWhole /\ t.id \in 1..sends /\ t.id \in Nat /\ sends \in Nat
  BY DEF Ready, LineInv, NumbersOK, TypeOK, ClientTypeOK, Transaction
<1>e. /\ Early(TxnMark(t))' =>
              \/ Early(TxnMark(t))
              \/ \E m \in Menu : Send(m) /\ TxnMark(t) \in MarksOf(Numbered(m, sends + 1))
              \/ \E c \in Clients : Flush(c) /\ TxnMark(t) = <<"flush", 0, c>>
      /\ Early(TxnMark(t)) =>
              \/ Early(TxnMark(t))'
              \/ (BuildTransactions \/ Builds \/ BuilderDeleteDocument)
                 /\ TxnMark(t) \in MarksOf(Head(highScene))
              \/ (ReceiveForBackend \/ Takes) /\ TxnMark(t) \in MarksOf(Head(api))
              \/ Stopped
  BY <1>t, EarlyBy
<1>1. ASSUME Past(t) PROVE Past(t)'
  <2>1. ASSUME NEW m \in Menu, TxnMark(t) \in MarksOf(Numbered(m, sends + 1))
        PROVE  FALSE
    <3>1. t.id = sends + 1
      BY <1>t, <2>1, MenuTxn DEF TxnMark
    <3> QED BY <3>1, <1>t
  <2>2. \A c : TxnMark(t) # <<"flush", 0, c>>
    BY DEF TxnMark
  <2> QED BY <1>1, <1>p, <1>e, <2>1, <2>2 DEF Past
<1>2. ASSUME rbPc' # "done", Changes(t), Past(t)', ~Past(t)
      PROVE  BuildTransactions /\ t \in TxnsOf(Head(highScene).txns)
  <2>1. ~Stopped
    BY <1>2 DEF Stopped
  <2>2. ~((ReceiveForBackend \/ Takes) /\ TxnMark(t) \in MarksOf(Head(api)))
    <3> SUFFICES ASSUME ReceiveForBackend \/ Takes, TxnMark(t) \in MarksOf(Head(api))
                 PROVE  FALSE
      OBVIOUS
    <3>1. Head(api).type \in {"UpdateDocuments", "Transactions"}
      BY TxnIn, Zenon DEF TxnMark
    <3>2. ReceiveForBackend
      BY <3>1 DEF Takes, Receives, ReceiveAddDocument, ReceiveMemoryPressure, ReceiveWakeUp
    <3>3. Receives("UpdateDocuments") /\ ~UsesSceneBuilder(TxnsOf(Head(api).txns))
      BY <3>2, Zenon DEF ReceiveForBackend
    <3>4. TxnsOf(Head(api).txns) = Batch(t.id)
      BY <1>t, <3>3, HeadIsBatch, Zenon DEF TxnMark
    <3>5. t \in Batch(t.id)
      BY DEF Batch
    <3> QED BY <3>3, <3>4, <3>5, <1>2, Zenon DEF UsesSceneBuilder, Changes
  <2>3. /\ BuildTransactions \/ Builds \/ BuilderDeleteDocument
        /\ TxnMark(t) \in MarksOf(Head(highScene))
    BY <1>2, <1>p, <1>e, <2>1, <2>2, Zenon DEF Past
  <2>4. /\ Head(highScene).type \in {"UpdateDocuments", "Transactions"}
        /\ \E u \in TxnsOf(Head(highScene).txns) : u.id = t.id /\ u.doc = t.doc
    <3>1. <<"txn", t.id, t.doc>> \in MarksOf(Head(highScene))
      BY <2>3 DEF TxnMark
    <3> QED BY <3>1, TxnIn
  <2>5. BuildTransactions
    BY <2>3, <2>4 DEF Builds, BuilderFlush, BuilderClearNamespace, BuilderStop, BuilderDeleteDocument
  <2>6. \A u \in TxnsOf(Head(highScene).txns) : u \in sent
    <3>1. /\ highScene # <<>> /\ Head(highScene).type = "Transactions"
          /\ Head(highScene) \in TxnsOf(highScene)
      BY <2>5, <1>t, MembersTail, Zenon DEF BuildTransactions, TypeOK, ChannelTypeOK
    <3>2. PICK n \in 1..sends : IsBatchOf(Head(highScene).txns, n)
      BY <1>t, <3>1, Zenon DEF BatchesWhole
    <3> QED BY <3>2 DEF IsBatchOf, Batch
  <2>7. \A u \in sent : u.id = t.id /\ u.doc = t.doc => u = t
    BY SentOnce, Zenon DEF Ready, LineInv
  <2> QED BY <2>4, <2>5, <2>6, <2>7, Zenon
<1> QED BY <1>1, <1>2

(* Once the render backend has stopped, or panicked, it does not run again. *)
LEMMA RunsBack ==
  ASSUME [Next]_vars, Runs'
  PROVE  Runs
<1>1. ASSUME rbPc = "panicked" PROVE rbPc' = "panicked"
  <2>1. CASE Backend
    BY <1>1, <2>1 DEF Backend, At, PollTransactions, PollFlushComplete, PollClearNamespace,
       PollNothing, Publish, NopDocument, SkipTransaction, SwapAndWait, UpdateTransaction,
       ResumeAndUpdate, Settle, NewFrameReady, Receives, ReceiveForSceneBuilder,
       ReceiveForBackend, ReceiveAddDocument, ReceiveDeleteDocument, ReceiveForwarded,
       ReceiveMemoryPressure, ReceiveWakeUp, ReceiveShutDown, Discard, Stopped
  <2>2. CASE ~Backend
    BY <1>1, <2>2, OnlyBackend
  <2> QED BY <2>1, <2>2
<1>2. rbPc \in {"stopping", "done"} => rbPc' \in {"stopping", "done"}
  BY StaysStopped
<1>3. rbPc' \notin {"stopping", "done", "panicked"}
  BY DEF Runs
<1> QED BY <1>1, <1>2, <1>3 DEF Runs

-----------------------------------------------------------------------------
(* The scenes that are built and not yet settled.                          *)
Scenes ==
  TxnsOf(work) \cup
    UNION {TxnsOf(m.txns) : m \in {m \in TxnsOf(sceneResults) : m.type = "Transactions"}}

LEMMA ScenesMeans ==
  ASSUME NEW b
  PROVE  /\ b \in Scenes <=> \/ b \in TxnsOf(work)
                             \/ \E m \in TxnsOf(sceneResults) :
                                  m.type = "Transactions" /\ b \in TxnsOf(m.txns)
         /\ b \in Scenes' <=> \/ b \in TxnsOf(work')
                              \/ \E m \in TxnsOf(sceneResults') :
                                   m.type = "Transactions" /\ b \in TxnsOf(m.txns)
<1>1. Scenes' = TxnsOf(work') \cup
        UNION {TxnsOf(m.txns) : m \in {m \in TxnsOf(sceneResults') : m.type = "Transactions"}}
  BY DEF Scenes, TxnsOf
<1> QED BY <1>1 DEF Scenes

LEMMA ScenesBy ==
  ASSUME TypeOK, HandshakeInv, [Next]_vars, NEW b, b \in Scenes'
  PROVE  \/ b \in Scenes
         \/ BuildTransactions /\ \E t \in TxnsOf(Head(highScene).txns) : b = Processed(t)
         \/ /\ ReceiveForBackend
            /\ \E t \in TxnsOf(Head(api).txns) : b = [txn |-> t, built |-> EmptyScene]
<1>t. work \in Seq(BuiltTransaction) /\ sceneResults \in Seq(SceneResult)
  BY DEF TypeOK, ChannelTypeOK, BackendTypeOK
<1>1. CASE b \in TxnsOf(work')
  <2>1. CASE PollTransactions
    <3>1. /\ sceneResults # <<>> /\ Head(sceneResults).type = "Transactions"
          /\ work' = Head(sceneResults).txns
      BY <2>1, Zenon DEF PollTransactions
    <3>2. Head(sceneResults) \in TxnsOf(sceneResults)
      BY <1>t, <3>1, MembersTail, Zenon
    <3> QED BY <1>1, <3>1, <3>2, ScenesMeans, Zenon
  <2>2. CASE ReceiveForBackend
    <3>1. work' = [i \in DOMAIN Head(api).txns |->
                     [txn |-> Head(api).txns[i], built |-> EmptyScene]]
      BY <2>2, Zenon DEF ReceiveForBackend
    <3> QED BY <1>1, <2>2, <3>1 DEF TxnsOf
  <2>3. CASE SkipTransaction \/ Settle \/ NewFrameReady
    <3>1. TxnsOf(work) = {Head(work)} \cup TxnsOf(Tail(work))
      BY <2>3, WorkHead, Zenon
    <3>2. work' = work \/ work' = Tail(work)
      BY <2>3 DEF SkipTransaction, Settle, NewFrameReady, NextTransaction
    <3> QED BY <1>1, <3>1, <3>2, ScenesMeans
  <2>4. CASE work' = work
    BY <1>1, <2>4, ScenesMeans, Zenon
  <2> QED BY <2>1, <2>2, <2>3, <2>4, WorkUnchanged, Zenon
<1>2. CASE \E m \in TxnsOf(sceneResults') : m.type = "Transactions" /\ b \in TxnsOf(m.txns)
  <2>1. PICK m \in TxnsOf(sceneResults') : m.type = "Transactions" /\ b \in TxnsOf(m.txns)
    BY <1>2
  <2>2. CASE m \in TxnsOf(sceneResults)
    BY <2>1, <2>2, ScenesMeans, Zenon
  <2>3. CASE m \notin TxnsOf(sceneResults)
    <3>1. \/ sceneResults' = sceneResults
          \/ (sceneResults # <<>> /\ sceneResults' = Tail(sceneResults))
          \/ BuildTransactions \/ Builds
      BY QueuesUnchanged, Zenon
    <3>2. ~(sceneResults # <<>> /\ sceneResults' = Tail(sceneResults))
      BY <1>t, <2>1, <2>3, MembersTail
    <3>3. ~Builds
      <4> SUFFICES ASSUME Builds PROVE FALSE
        OBVIOUS
      <4>1. PICK r : sceneResults' = Append(sceneResults, r) /\ r.type # "Transactions"
        BY DEF Builds, BuilderFlush, BuilderClearNamespace, BuilderStop
      <4> QED BY <1>t, <4>1, <2>1, <2>3, MembersAppend
    <3>4. BuildTransactions
      BY <2>1, <2>3, <3>1, <3>2, <3>3, Zenon
    <3>5. PICK e : /\ sceneResults' = Append(sceneResults, e)
                   /\ e.txns = [i \in DOMAIN Head(highScene).txns |->
                                  Processed(Head(highScene).txns[i])]
      BY <3>4 DEF BuildTransactions
    <3>6. m = e
      BY <1>t, <2>1, <2>3, <3>5, MembersAppend
    <3>7. \E i \in DOMAIN Head(highScene).txns : b = Processed(Head(highScene).txns[i])
      BY <2>1, <3>5, <3>6 DEF TxnsOf
    <3> QED BY <3>4, <3>7 DEF TxnsOf
  <2> QED BY <2>2, <2>3
<1> QED BY <1>1, <1>2, ScenesMeans, Zenon

(* A scene is of a transaction that was sent and has left the scene        *)
(* builder, and there is one of a document at a time in the work.          *)
SceneOf(b, t) ==
  /\ t \in sent /\ b.txn \in {t, Stripped(t)}
  /\ b.txn.id = t.id /\ b.txn.doc = t.doc /\ b.txn.display = t.display
  /\ b.txn.epochs = t.epochs /\ b.txn.root = t.root /\ b.txn.removes = t.removes

LEMMA SceneSent ==
  ASSUME Ready, NEW b \in Scenes
  PROVE  \E t : /\ SceneOf(b, t) /\ Past(t)
                /\ b \in TxnsOf(work) => TxnMark(t) \in WorkMarks
                /\ b \notin TxnsOf(work) => Waiting(TxnMark(t))
<1>s. \A t \in sent : b.txn \in {t, Stripped(t)} => SceneOf(b, t)
  <2>1. \A t \in sent : t \in Transaction
    BY DEF Ready, TypeOK, ClientTypeOK
  <2> QED BY <2>1 DEF SceneOf, Stripped, Transaction
<1>p. \A t \in sent : InOnePlace(t.id, t.doc)
  BY DEF Ready, NotifyInv, MarksOnce, LineInv, NumbersOK, TypeOK, ClientTypeOK, Transaction
<1>1. CASE b \in TxnsOf(work)
  <2>1. PICK t \in sent : b.txn \in {t, Stripped(t)}
    BY <1>1, Zenon DEF Ready, NotifyInv, BuiltOK
  <2>2. SceneOf(b, t)
    BY <1>s, <2>1
  <2>3. TxnMark(t) \in WorkMarks
    BY <1>1, <2>2, WorkMarkMeans DEF SceneOf, TxnMark
  <2>4. Past(t)
    BY <1>p, <2>1, <2>3, EarlyWaits, Zenon DEF Past, InOnePlace, TxnMark
  <2> QED BY <1>1, <2>2, <2>3, <2>4
<1>2. CASE b \notin TxnsOf(work)
  <2>1. PICK m \in TxnsOf(sceneResults) : m.type = "Transactions" /\ b \in TxnsOf(m.txns)
    BY <1>2, ScenesMeans, Zenon
  <2>2. PICK t \in sent : b.txn = Stripped(t)
    BY <2>1, Zenon DEF Ready, NotifyInv, BuiltOK
  <2>3. SceneOf(b, t)
    BY <1>s, <2>2
  <2>4. TxnMark(t) \in ResultMarks(m)
    BY <2>1, <2>3 DEF SceneOf, TxnMark, ResultMarks
  <2>5. Has(ResultLine, TxnMark(t))
    BY <2>1, <2>4 DEF Has, ResultLine, Results, TxnsOf
  <2>6. Past(t)
    BY <1>p, <2>2, <2>5, Zenon DEF Past, InOnePlace, TxnMark, NeverBehind, InLine, Early, InScene
  <2> QED BY <1>2, <2>3, <2>5, <2>6, Zenon DEF Waiting
<1> QED BY <1>1, <1>2

-----------------------------------------------------------------------------
(* What one transaction does to a scene.                                   *)
LEMMA ApplyMeans ==
  ASSUME NEW s \in Scene, NEW t \in Transaction
  PROVE  /\ ApplyToScene(s, t) \in Scene
         /\ ApplyToScene(s, t).root \in {NoPipeline, t.root, s.root}
         /\ \A p \in Pipelines :
              /\ ApplyToScene(s, t).lists[p] =
                   IF p \in t.removes THEN 0 ELSE IF p \in t.display THEN t.id ELSE s.lists[p]
              /\ ApplyToScene(s, t).epochs[p] =
                   IF p \in t.removes THEN 0
                   ELSE IF p \in t.display \cup t.epochs THEN t.id ELSE s.epochs[p]
<1>1. ApplyToScene(s, t) \in Scene
  BY ApplyToSceneType
<1> QED BY <1>1 DEF ApplyToScene

(* A scene with a root that has a list keeps one, or is emptied.           *)
LEMMA RootKept ==
  ASSUME NEW s \in Scene, NEW t \in Transaction, t.id # 0, HasRootPipeline(s),
         \/ t.root \in t.display \cup {NoPipeline} \/ s.root \in {NoPipeline, t.root},
         s.root \in t.removes \/ t.root \in t.removes => t.removes = Pipelines
  PROVE  HasRootPipeline(ApplyToScene(s, t)) \/ (t.removes # {} /\ t.removes = Pipelines)
<1>1. /\ s.root \in Pipelines /\ s.lists[s.root] # 0 /\ t.root \in Pipelines \cup {NoPipeline}
  BY DEF HasRootPipeline, Scene, Transaction
<1>2. CASE t.removes = Pipelines
  BY <1>1, <1>2
<1>3. CASE t.removes # Pipelines
  <2> DEFINE root == IF t.root # NoPipeline THEN t.root ELSE s.root
  <2>1. root \in Pipelines /\ root # NoPipeline /\ root \notin t.removes
    BY <1>1, <1>3, NoPipelineAssumption
  <2>2. ApplyToScene(s, t).root = root
    BY <2>1 DEF ApplyToScene
  <2>3. root \in t.display \/ root = s.root
    BY <1>1, <2>1, NoPipelineAssumption
  <2>4. ApplyToScene(s, t).lists[root] # 0
    BY <1>1, <2>1, <2>3, ApplyMeans
  <2> QED BY <2>1, <2>2, <2>4 DEF HasRootPipeline
<1> QED BY <1>2, <1>3

-----------------------------------------------------------------------------
(* The scene builder.  When a document is not yet gone from it, its scene  *)
(* has every display list that the scene builder has taken, unless the     *)
(* pipeline was removed, epochs of what it has taken, and a root with a    *)
(* list once a scene of the document was built, unless all pipelines were  *)
(* removed.                                                                *)
RemovesAll(r, d) == r.doc = d /\ r.removes # {} /\ r.removes = Pipelines

Gone(d) == life[d] = "closed" /\ \A x \in TxnsFor(d) : ~Early(x)

Rendered(d) == CanRender(docs[d]) \/ \E b \in Scenes : b.txn.doc = d /\ b.built # EmptyScene

BuilderHas(d, p) ==
  \A t \in sent : t.doc = d /\ p \in t.display /\ Past(t) =>
    \/ t.id <= sbScene[d].lists[p]
    \/ \E r \in sent : r.doc = d /\ p \in r.removes /\ Past(r)

BuilderEpoch(d, p) ==
  \/ sbScene[d].epochs[p] = 0
  \/ \E u \in sent : u.doc = d /\ u.id = sbScene[d].epochs[p] /\ Changes(u) /\ Past(u)

BuilderRoots(d) ==
  Rendered(d) => HasRootPipeline(sbScene[d]) \/ \E r \in sent : RemovesAll(r, d) /\ Past(r)

BuilderKeeps(d) ==
  Gone(d) \/ (BuilderRoots(d) /\ \A p \in Pipelines : BuilderHas(d, p) /\ BuilderEpoch(d, p))

BuilderOf(d) ==
  /\ d \notin sbAlive => sbScene[d] = EmptyScene
  /\ sbScene[d].root = NoPipeline \/ \E u \in sent : u.doc = d /\ u.root = sbScene[d].root

BuilderInv == \A d \in Docs : BuilderOf(d) /\ (Runs => BuilderKeeps(d))

LEMMA BuilderBy ==
  ASSUME [Next]_vars
  PROVE  \/ UNCHANGED <<sbAlive, sbScene>>
         \/ BuildTransactions \/ BuilderDeleteDocument \/ BuilderClearNamespace
<1> SUFFICES ASSUME ~(UNCHANGED <<sbAlive, sbScene>>)
             PROVE  BuildTransactions \/ BuilderDeleteDocument \/ BuilderClearNamespace
  OBVIOUS
<1>1. ~Backend
  BY DEF Backend, sbVars, PollTransactions, PollFlushComplete, PollClearNamespace, PollNothing,
       Publish, NopDocument, SkipTransaction, SwapAndWait, UpdateTransaction, ResumeAndUpdate,
       Settle, NewFrameReady, ReceiveForSceneBuilder, ReceiveForBackend, ReceiveAddDocument,
       ReceiveDeleteDocument, ReceiveForwarded, ReceiveMemoryPressure, ReceiveWakeUp,
       ReceiveShutDown, Discard, Stopped
<1>2. ~Renderer
  BY DEF Renderer, sbVars, RendererWake, UpdatePipelineInfo, UpdateDocumentFrame,
       UpdateNotifications, UpdateResources, UpdateDone, Render
<1> QED BY <1>1, <1>2 DEF Next, vars, sbVars, Send, Flush, LowForward, SceneBuilder, Rest,
             BuilderFlush, BuilderStop, WakeBackend, ReceiveSwap, PostSceneSwap

(* A batch is of one number and has one transaction for a document.        *)
LEMMA BuildsBatch ==
  ASSUME Ready, BuildTransactions
  PROVE  /\ highScene \in Seq(SceneRequest) /\ highScene # <<>>
         /\ Head(highScene).type = "Transactions" /\ Head(highScene).txns \in Seq(Transaction)
         /\ TxnsOf(Head(highScene).txns) \subseteq sent
         /\ \A t, u \in TxnsOf(Head(highScene).txns) : t.id = u.id /\ (t.doc = u.doc => t = u)
         /\ \A t \in TxnsOf(Head(highScene).txns) : Early(TxnMark(t)) /\ ~Early(TxnMark(t))'
<1>1. /\ highScene # <<>> /\ Head(highScene).type = "Transactions"
      /\ highScene \in Seq(SceneRequest) /\ Head(highScene) \in TxnsOf(highScene)
  BY MembersTail, Zenon DEF BuildTransactions, Ready, TypeOK, ChannelTypeOK
<1>2. PICK n \in 1..sends : IsBatchOf(Head(highScene).txns, n)
  BY <1>1, Zenon DEF Ready, LineInv, BatchesWhole
<1>3. Head(highScene).txns \in Seq(Transaction)
  BY <1>1, RequestOfQueue, Zenon
<1>4. /\ TxnsOf(Head(highScene).txns) \subseteq sent
      /\ \A t, u \in TxnsOf(Head(highScene).txns) : t.id = u.id
  BY <1>2 DEF IsBatchOf, Batch
<1>5. \A t, u \in TxnsOf(Head(highScene).txns) : t.doc = u.doc => t = u
  BY <1>4, Zenon DEF Ready, LineInv, NumbersOK
<1>6. /\ Head(HighLine) = MarksOf(Head(highScene)) /\ Built /\ LineTypeOK
  BY BuiltMove, LineTypes DEF Ready, TypeOK
<1>7. ASSUME NEW CONSTANT t, t \in TxnsOf(Head(highScene).txns)
      PROVE  Early(TxnMark(t)) /\ ~Early(TxnMark(t))'
  <2>1. TxnMark(t) \in Head(HighLine)
    BY <1>1, <1>6, <1>7, Zenon DEF MarksOf
  <2>2. Early(TxnMark(t)) <=> Early(TxnMark(t))' \/ TxnMark(t) \in Head(HighLine)
    BY <1>6, EarlyAfter, Zenon
  <2>3. t \in sent
    BY <1>4, <1>7
  <2>4. InOnePlace(t.id, t.doc)
    BY <2>3 DEF Ready, NotifyInv, MarksOnce, LineInv, NumbersOK, TypeOK, ClientTypeOK, Transaction
  <2>5. NeverBehind(TxnMark(t), TxnMark(t))
    BY <2>4, Zenon DEF InOnePlace, TxnMark
  <2>6. ~Early(TxnMark(t))'
    BY <1>6, <2>1, <2>5, BuiltAlone, Zenon
  <2> QED BY <2>1, <2>2, <2>6
<1> QED BY <1>1, <1>3, <1>4, <1>5, <1>7

(* The scene of one document after a batch.                                *)
LEMMA SceneBuiltFor ==
  ASSUME Ready, BuildTransactions, NEW CONSTANT d \in Docs
  PROVE  \/ /\ \A t \in TxnsOf(Head(highScene).txns) : t.doc # d
            /\ sbScene'[d] = sbScene[d] /\ (d \in sbAlive' => d \in sbAlive)
         \/ /\ d \in sbAlive'
            /\ \E t \in TxnsOf(Head(highScene).txns) :
                 t.doc = d /\ sbScene'[d] = ApplyToScene(sbScene[d], t)
<1> DEFINE txns == Head(highScene).txns
<1>1. /\ sbScene' = SceneAfter(txns) /\ sbAlive' = sbAlive \cup DocsOf(txns)
      /\ sbScene \in [Docs -> Scene]
  BY DEF BuildTransactions, Ready, TypeOK, BuilderTypeOK
<1>2. CASE \A t \in TxnsOf(txns) : t.doc # d
  <2>1. sbScene'[d] = sbScene[d]
    BY <1>1, <1>2 DEF SceneAfter
  <2>2. d \notin DocsOf(txns)
    BY <1>2 DEF DocsOf, TxnsOf
  <2> QED BY <1>1, <1>2, <2>1, <2>2
<1>3. CASE \E t \in TxnsOf(txns) : t.doc = d
  <2>1. PICK t : t = CHOOSE x \in TxnsOf(txns) : x.doc = d
    OBVIOUS
  <2>2. t \in TxnsOf(txns) /\ t.doc = d
    BY <1>3, <2>1
  <2>3. sbScene'[d] = ApplyToScene(sbScene[d], t)
    BY <1>1, <1>3, <2>1 DEF SceneAfter
  <2>4. d \in DocsOf(txns)
    BY <2>2 DEF DocsOf, TxnsOf
  <2> QED BY <1>1, <2>2, <2>3, <2>4
<1> QED BY <1>2, <1>3

(* A document that is gone stays so, and one that is deleted is gone.      *)
LEMMA GonePrimed ==
  ASSUME NEW CONSTANT d
  PROVE  Gone(d)' <=> life'[d] = "closed" /\ \A n \in 1..sends' : ~Early(<<"txn", n, d>>)'
BY DEF Gone, TxnsFor

LEMMA GoneStays ==
  ASSUME Ready, [Next]_vars, NEW CONSTANT d \in Docs, Gone(d)
  PROVE  Gone(d)'
<1>t. TypeOK /\ NumbersOK /\ BatchesWhole
  BY DEF Ready, LineInv
<1>1. life'[d] = "closed"
  <2>1. life[d] = "closed"
    BY DEF Gone
  <2> QED BY <1>t, <2>1, SentLine, Zenon
<1>2. ASSUME NEW CONSTANT n, Early(<<"txn", n, d>>)' PROVE FALSE
  <2>1. CASE Early(<<"txn", n, d>>)
    <3>1. n \in 1..sends
      BY <1>t, <2>1, EarlyWaits, WaitingSent, Zenon
    <3> QED BY <2>1, <3>1 DEF Gone, TxnsFor
  <2>2. CASE \E m \in Menu : Send(m) /\ <<"txn", n, d>> \in MarksOf(Numbered(m, sends + 1))
    <3>1. PICK m \in Menu : Send(m) /\ <<"txn", n, d>> \in MarksOf(Numbered(m, sends + 1))
      BY <2>2
    <3>2. life[d] = "open"
      BY <1>t, <3>1, SendLife, Zenon
    <3> QED BY <3>2 DEF Gone
  <2>3. \A c : <<"txn", n, d>> # <<"flush", 0, c>>
    OBVIOUS
  <2> QED BY <1>t, <1>2, <2>1, <2>2, <2>3, EarlyBy, Zenon
<1> QED BY <1>1, <1>2, GonePrimed

LEMMA BecomesGone ==
  ASSUME Ready, [Next]_vars, NEW CONSTANT d \in Docs,
         \/ BuilderDeleteDocument /\ Head(highScene).doc = d
         \/ BuilderClearNamespace /\ NamespaceOf[d] = Head(highScene).ns
  PROVE  Gone(d)'
<1>t. /\ TypeOK /\ NumbersOK /\ BatchesWhole /\ LineTypeOK /\ ClosedLast(d)
  BY LineTypes DEF Ready, LineInv, DocumentsInLine, TypeOK
<1>1. /\ HighLine # <<>> /\ HighLine' = Tail(HighLine) /\ UNCHANGED <<LowLine, ApiLine>>
      /\ Head(HighLine) = MarksOf(Head(highScene))
  BY <1>t, OtherMoves, BuiltMove, Zenon DEF Removed, Built
<1>2. life' = life /\ sends' = sends
  BY DEF BuilderDeleteDocument, BuilderClearNamespace, clientVars
<1>3. PICK x \in Closers(d) : x \in Head(HighLine)
  <2>1. CASE BuilderDeleteDocument /\ Head(highScene).doc = d
    <3>1. Head(highScene).type = "DeleteDocument"
      BY <2>1 DEF BuilderDeleteDocument
    <3>2. Deletion(d) \in MarksOf(Head(highScene))
      BY <2>1, <3>1, MarkMeans DEF Deletion
    <3> QED BY <1>1, <3>2, Zenon DEF Closers
  <2>2. CASE BuilderClearNamespace /\ NamespaceOf[d] = Head(highScene).ns
    <3>1. Head(highScene).type = "ClearNamespace"
      BY <2>2 DEF BuilderClearNamespace
    <3>2. Clearing(d) \in MarksOf(Head(highScene))
      BY <2>2, <3>1, MarkMeans DEF Clearing
    <3> QED BY <1>1, <3>2, Zenon DEF Closers
  <2> QED BY <2>1, <2>2
<1>4. Has(HighLine, x)
  BY <1>t, <1>1, <1>3, HasTail, Zenon DEF LineTypeOK
<1>5. life[d] = "closed"
  BY <1>t, <1>4, Zenon DEF ClosedLast, Waiting
<1>6. ASSUME NEW CONSTANT n, n \in 1..sends, Early(<<"txn", n, d>>)' PROVE FALSE
  <2> DEFINE y == <<"txn", n, d>>
  <2>1. NeverBehind(y, x)
    BY <1>t, <1>6 DEF ClosedLast, TxnsFor
  <2>2. ~Has(LowLine, y) /\ ~Has(ApiLine, y) /\ NoneBehind(HighLine, x, y)
    BY <2>1, <1>4, Zenon DEF NeverBehind, InLine
  <2>3. ~Has(Tail(HighLine), y)
    BY <2>2, <1>t, <1>1, <1>3, BehindTail, Zenon DEF LineTypeOK
  <2>4. Early(y)' <=> Has(HighLine', y) \/ Has(LowLine', y) \/ Has(ApiLine', y)
    BY DEF Early, InScene, Has
  <2> QED BY <1>1, <1>6, <2>2, <2>3, <2>4, Zenon
<1> QED BY <1>2, <1>5, <1>6, GonePrimed

-----------------------------------------------------------------------------
(* The scene builder's invariant.                                          *)
LEMMA BuilderPrimed ==
  ASSUME NEW CONSTANT d
  PROVE  /\ BuilderOf(d)' <=>
              /\ d \notin sbAlive' => sbScene'[d] = EmptyScene
              /\ \/ sbScene'[d].root = NoPipeline
                 \/ \E u \in sent' : u.doc = d /\ u.root = sbScene'[d].root
         /\ BuilderRoots(d)' <=>
              (Rendered(d)' => \/ HasRootPipeline(sbScene'[d])
                               \/ \E r \in sent' : RemovesAll(r, d) /\ Past(r)')
         /\ BuilderKeeps(d)' <=>
              \/ Gone(d)'
              \/ BuilderRoots(d)' /\ \A p \in Pipelines : BuilderHas(d, p)' /\ BuilderEpoch(d, p)'
BY DEF BuilderOf, BuilderRoots, BuilderKeeps, HasRootPipeline, RemovesAll

LEMMA BuilderListsPrimed ==
  ASSUME NEW CONSTANT d, NEW CONSTANT p
  PROVE  /\ BuilderHas(d, p)' <=>
              \A t \in sent' : t.doc = d /\ p \in t.display /\ Past(t)' =>
                \/ t.id <= sbScene'[d].lists[p]
                \/ \E r \in sent' : r.doc = d /\ p \in r.removes /\ Past(r)'
         /\ BuilderEpoch(d, p)' <=>
              \/ sbScene'[d].epochs[p] = 0
              \/ \E u \in sent' : /\ u.doc = d /\ u.id = sbScene'[d].epochs[p]
                                  /\ Changes(u) /\ Past(u)'
BY DEF BuilderHas, BuilderEpoch, Changes, CanSkipSceneBuilder

LEMMA BuilderOfStep ==
  ASSUME Ready, BuilderInv, [Next]_vars, NEW CONSTANT d \in Docs
  PROVE  BuilderOf(d)'
<1>t. /\ sent \subseteq sent' /\ BuilderOf(d) /\ sbScene \in [Docs -> Scene]
      /\ NoPipeline = EmptyScene.root
  BY BatchesKept DEF Ready, LineInv, BuilderInv, TypeOK, BuilderTypeOK, EmptyScene
<1>s. SUFFICES
        /\ d \notin sbAlive' => sbScene'[d] = EmptyScene
        /\ sbScene'[d].root = NoPipeline \/ \E u \in sent : u.doc = d /\ u.root = sbScene'[d].root
  BY <1>t, BuilderPrimed
<1>1. CASE UNCHANGED <<sbAlive, sbScene>>
  BY <1>1, <1>t DEF BuilderOf
<1>2. CASE BuildTransactions
  <2>1. CASE sbScene'[d] = sbScene[d] /\ (d \in sbAlive' => d \in sbAlive)
    <3>1. sbAlive \subseteq sbAlive'
      BY <1>2 DEF BuildTransactions
    <3> QED BY <2>1, <3>1, <1>t DEF BuilderOf
  <2>2. CASE /\ d \in sbAlive'
             /\ \E t \in TxnsOf(Head(highScene).txns) :
                  t.doc = d /\ sbScene'[d] = ApplyToScene(sbScene[d], t)
    <3>1. PICK t \in TxnsOf(Head(highScene).txns) :
                 t.doc = d /\ sbScene'[d] = ApplyToScene(sbScene[d], t)
      BY <2>2
    <3>2. t \in sent /\ t \in Transaction
      BY <1>2, <3>1, BuildsBatch DEF Ready, TypeOK, ClientTypeOK
    <3>3. sbScene'[d].root \in {NoPipeline, t.root, sbScene[d].root}
      BY <1>t, <3>1, <3>2, ApplyMeans
    <3> QED BY <2>2, <3>1, <3>2, <3>3, <1>t DEF BuilderOf
  <2> QED BY <1>2, <2>1, <2>2, SceneBuiltFor
<1>3. CASE BuilderDeleteDocument
  BY <1>3, <1>t DEF BuilderDeleteDocument, BuilderOf
<1>4. CASE BuilderClearNamespace
  BY <1>4, <1>t DEF BuilderClearNamespace, BuilderOf
<1> QED BY <1>1, <1>2, <1>3, <1>4, BuilderBy

-----------------------------------------------------------------------------
(* What a step does to the scene of a document, where the render backend   *)
(* takes the one that was built and the epochs that come without one.      *)
TakesScene(d) ==
  /\ SwapAndWait \/ UpdateTransaction
  /\ work # <<>> /\ Head(work).txn.doc = d /\ Head(work).built # EmptyScene

TakesEpoch(d, p) ==
  /\ UpdateTransaction \/ ResumeAndUpdate
  /\ work # <<>> /\ Head(work).txn.doc = d /\ p \in Head(work).txn.epochs

SceneStep(d) ==
  /\ docs'[d].scene.lists =
       IF TakesScene(d) THEN Head(work).built.lists ELSE docs[d].scene.lists
  /\ \A p \in Pipelines :
       docs'[d].scene.epochs[p] = IF TakesEpoch(d, p) THEN Head(work).txn.id
                                  ELSE IF TakesScene(d) THEN Head(work).built.epochs[p]
                                  ELSE docs[d].scene.epochs[p]
  /\ CanRender(docs'[d]) <=> CanRender(docs[d]) \/ TakesScene(d)

LEMMA UpdatedScene ==
  ASSUME NEW old \in Document, NEW t \in Transaction, NEW r \in BOOLEAN
  PROVE  /\ UpdatedDocument(old, t, r).scene.lists = old.scene.lists
         /\ \A p \in Pipelines :
              UpdatedDocument(old, t, r).scene.epochs[p] =
                IF p \in t.epochs THEN t.id ELSE old.scene.epochs[p]
         /\ CanRender(UpdatedDocument(old, t, r)) <=> CanRender(old)
         /\ UpdatedDocument(old, t, r).pixels = old.pixels
<1>1. PICK d : d = ApplyFrameOps(old, t)
  OBVIOUS
<1>2. /\ d \in Document /\ d.pixels = old.pixels
      /\ \A p \in Pipelines : d.scene.epochs[p] = IF p \in t.epochs THEN t.id ELSE old.scene.epochs[p]
  <2> DEFINE epochs == [p \in Pipelines |-> IF p \in t.epochs THEN t.id ELSE old.scene.epochs[p]]
  <2>1. PICK s \in Scene : old.scene = s
    BY DEF Document
  <2>2. [s EXCEPT !.epochs = epochs].epochs = epochs
    BY DEF Scene
  <2>3. d.scene = [s EXCEPT !.epochs = epochs] /\ d.pixels = old.pixels
    BY <1>1, <2>1 DEF ApplyFrameOps, Document
  <2>4. \A p \in Pipelines : d.scene.epochs[p] = epochs[p]
    BY <2>2, <2>3
  <2> QED BY <1>1, <2>3, <2>4, FrameOpsType
<1>3. /\ UpdatedDocument(old, t, r).scene = d.scene
      /\ UpdatedDocument(old, t, r).pixels = d.pixels
  BY <1>1, <1>2 DEF UpdatedDocument, Document
<1> QED BY <1>2, <1>3, UpdateMeans

LEMMA SwappedScene ==
  ASSUME TypeOK, ScenesRender, work # <<>>
  PROVE  /\ Swapped \in Document /\ Swapped.pixels = docs[Head(work).txn.doc].pixels
         /\ Head(work).built = EmptyScene => Swapped.scene = docs[Head(work).txn.doc].scene
         /\ Head(work).built # EmptyScene => Swapped.scene = Head(work).built /\ CanRender(Swapped)
<1>1. /\ Head(work).txn \in Transaction /\ Head(work).txn.doc \in Docs
      /\ Head(work).built \in Scene
      /\ Head(work).built # EmptyScene => HasRootPipeline(Head(work).built)
  BY HeadRenders
<1>2. docs[Head(work).txn.doc] \in Document
  BY <1>1 DEF TypeOK, BackendTypeOK
<1>3. Swapped.pixels = docs[Head(work).txn.doc].pixels
  BY <1>2 DEF Swapped, SwapScene, Document
<1>4. /\ Head(work).built = EmptyScene => Swapped.scene = docs[Head(work).txn.doc].scene
      /\ Head(work).built # EmptyScene => Swapped.scene = Head(work).built
  <2>1. PICK old, t, b : old = docs[Head(work).txn.doc] /\ t = Head(work).txn /\ b = Head(work).built
    OBVIOUS
  <2>2. old \in Document /\ t \in Transaction /\ b \in Scene
    BY <1>1, <1>2, <2>1
  <2>3. Swapped = SwapScene(old, t, b)
    BY <2>1 DEF Swapped
  <2>4. /\ b = EmptyScene => SwapScene(old, t, b).scene = old.scene
        /\ b # EmptyScene => SwapScene(old, t, b).scene = b
    BY <2>2 DEF SwapScene, Document
  <2> QED BY <2>1, <2>3, <2>4
<1>5. Swapped \in Document
  BY SwappedMeans
<1> QED BY <1>1, <1>3, <1>4, <1>5 DEF CanRender

LEMMA SceneBy ==
  ASSUME TypeOK, HandshakeInv, ScenesRender, [Next]_vars, NEW CONSTANT d \in Docs
  PROVE  SceneStep(d) \/ (docs'[d] = NewDocument /\ d \notin alive')
<1>d. docs \in [Docs -> Document] /\ required \in BOOLEAN
  BY DEF TypeOK, BackendTypeOK
<1>1. CASE SwapAndWait
  <2>1. /\ work # <<>> /\ rbPc' \in {"resume", "panicked"}
        /\ docs' = [docs EXCEPT ![Head(work).txn.doc] = Swapped]
    BY <1>1 DEF SwapAndWait, Swapped
  <2>2. \A p : ~TakesEpoch(d, p)
    BY <2>1 DEF TakesEpoch, UpdateTransaction, ResumeAndUpdate, UpdateHead
  <2>3. CASE Head(work).txn.doc = d
    <3>1. docs'[d] = Swapped
      BY <1>d, <2>1, <2>3
    <3>2. TakesScene(d) <=> Head(work).built # EmptyScene
      BY <1>1, <2>1, <2>3 DEF TakesScene
    <3> QED BY <2>1, <2>2, <2>3, <3>1, <3>2, SwappedScene DEF SceneStep, CanRender
  <2>4. CASE Head(work).txn.doc # d
    <3>1. docs'[d] = docs[d]
      BY <1>d, <2>1, <2>4
    <3> QED BY <2>2, <2>4, <3>1 DEF SceneStep, TakesScene
  <2> QED BY <2>3, <2>4
<1>2. CASE UpdateTransaction \/ ResumeAndUpdate
  <2>1. PICK old, t : /\ work # <<>> /\ UpdatesFrom(old, t) /\ t = Head(work).txn
                      /\ old = IF UpdateTransaction THEN Swapped ELSE docs[Head(work).txn.doc]
    BY <1>2, UpdatingSteps
  <2>2. t \in Transaction /\ t.doc \in Docs /\ docs[t.doc] \in Document
    BY <1>d, <2>1, HeadRenders
  <2>3. ~SwapAndWait
    BY <1>2 DEF SwapAndWait, UpdateTransaction, ResumeAndUpdate, UpdateHead
  <2>4. /\ old \in Document
        /\ TakesScene(t.doc) => old.scene = Head(work).built /\ CanRender(old)
        /\ ~TakesScene(t.doc) => old.scene = docs[t.doc].scene
    BY <2>1, <2>2, <2>3, SwappedScene DEF TakesScene
  <2>5. docs' = [docs EXCEPT ![t.doc] = UpdatedDocument(old, t, required)]
    BY <2>1 DEF UpdatesFrom
  <2>6. CASE t.doc = d
    <3>1. docs'[d] = UpdatedDocument(old, t, required)
      BY <1>d, <2>5, <2>6
    <3>2. \A p : TakesEpoch(d, p) <=> p \in t.epochs
      BY <1>2, <2>1, <2>6 DEF TakesEpoch
    <3>3. /\ docs'[d].scene.lists = old.scene.lists
          /\ \A p \in Pipelines :
               docs'[d].scene.epochs[p] = IF p \in t.epochs THEN t.id ELSE old.scene.epochs[p]
          /\ CanRender(docs'[d]) <=> CanRender(old)
      BY <1>d, <2>2, <2>4, <3>1, UpdatedScene
    <3>4. CanRender(old) <=> CanRender(docs[d]) \/ TakesScene(d)
      BY <2>4, <2>6 DEF CanRender
    <3> QED BY <2>1, <2>4, <2>6, <3>2, <3>3, <3>4 DEF SceneStep
  <2>7. CASE t.doc # d
    <3>1. docs'[d] = docs[d]
      BY <1>d, <2>5, <2>7
    <3> QED BY <2>1, <2>7, <3>1 DEF SceneStep, TakesScene, TakesEpoch
  <2> QED BY <2>6, <2>7
<1>3. CASE ~SwapAndWait /\ ~UpdateTransaction /\ ~ResumeAndUpdate
  <2>1. ~TakesScene(d) /\ \A p : ~TakesEpoch(d, p)
    BY <1>3 DEF TakesScene, TakesEpoch
  <2>2. /\ docs'[d].scene.lists = docs[d].scene.lists
        /\ \A p \in Pipelines : docs'[d].scene.epochs[p] = docs[d].scene.epochs[p]
        /\ CanRender(docs'[d]) <=> CanRender(docs[d])
        => SceneStep(d)
    BY <2>1 DEF SceneStep
  <2>3. docs'[d].scene = docs[d].scene => SceneStep(d)
    BY <2>2 DEF CanRender
  <2>4. CASE \E e \in Docs : NopDocument(e)
    <3>1. PICK e \in Docs : NopDocument(e)
      BY <2>4
    <3>2. PICK old, t : /\ UpdatesFrom(old, t) /\ t \in Transaction /\ t.doc = e /\ old \in Document
                        /\ old = docs[e] /\ t.epochs = {}
      <4>1. NopTransaction(e).epochs = {}
        BY DEF NopTransaction
      <4> QED BY <3>1, <4>1, UpdatingSteps
    <3>3. docs' = [docs EXCEPT ![e] = UpdatedDocument(old, t, required)]
      BY <3>2 DEF UpdatesFrom
    <3> QED BY <1>d, <2>2, <2>3, <3>2, <3>3, UpdatedScene
  <2>5. CASE PollClearNamespace \/ Stopped
    <3>1. docs'[d] = IF d \in alive' THEN docs[d] ELSE NewDocument
      BY <2>5 DEF PollClearNamespace, Stopped
    <3> QED BY <2>3, <3>1
  <2>6. CASE ReceiveForSceneBuilder \/ ReceiveForBackend
    <3>1. PICK txns : txns = Head(api).txns
      OBVIOUS
    <3>2. txns \in Seq(Transaction)
      <4>1. api \in Seq(ApiMsg) /\ api # <<>> /\ Head(api).type = "UpdateDocuments"
        BY <2>6 DEF TypeOK, ChannelTypeOK, ReceiveForSceneBuilder, ReceiveForBackend, Receives
      <4> QED BY <3>1, <4>1, MessageOf
    <3>3. docs' = Viewed(txns)
      BY <2>6, <3>1 DEF ReceiveForSceneBuilder, ReceiveForBackend
    <3> QED BY <2>3, <3>2, <3>3, ViewedMeans
  <2>7. CASE ReceiveDeleteDocument
    <3>1. /\ alive' = alive \ {Head(api).doc}
          /\ docs' = [docs EXCEPT ![Head(api).doc] = NewDocument]
      BY <2>7 DEF ReceiveDeleteDocument
    <3> QED BY <1>d, <2>3, <3>1
  <2>8. CASE \/ Idle \/ Publish \/ Draws \/ Builder \/ PollTransactions
             \/ SkipTransaction \/ Settle \/ NewFrameReady
             \/ ReceiveAddDocument \/ ReceiveMemoryPressure
    <3>1. docs' = docs
      BY <2>8 DEF Idle, Publish, Draws, UpdatePipelineInfo, UpdateDocumentFrame,
         UpdateNotifications, UpdateResources, Builder, BuildTransactions, BuilderFlush,
         BuilderClearNamespace, BuilderStop, PollFlushComplete, Discard, PollTransactions,
         SkipTransaction, Settle, NewFrameReady, ReceiveAddDocument, ReceiveMemoryPressure,
         backendVars
    <3> QED BY <2>3, <3>1
  <2> QED BY <1>3, <2>4, <2>5, <2>6, <2>7, <2>8, FrameSteps
<1> QED BY <1>1, <1>2, <1>3

(* A document is rendered from its first scene on.                         *)
LEMMA RenderedPrimed ==
  ASSUME NEW CONSTANT d
  PROVE  Rendered(d)' <=>
           CanRender(docs'[d]) \/ \E b \in Scenes' : b.txn.doc = d /\ b.built # EmptyScene
BY DEF Rendered, CanRender, HasRootPipeline, EmptyScene

LEMMA ProcessedFor ==
  ASSUME NEW t \in Transaction
  PROVE  /\ Processed(t).txn.id = t.id /\ Processed(t).txn.doc = t.doc
         /\ Processed(t).txn.display = t.display /\ Processed(t).txn.root = t.root
         /\ Processed(t).built = BuiltScene(ApplyToScene(sbScene[t.doc], t), t)
BY ProcessedTxn DEF Processed, Stripped, Transaction

LEMMA RenderedBy ==
  ASSUME Ready, ScenesRender, [Next]_vars, NEW CONSTANT d \in Docs, Rendered(d)'
  PROVE  \/ Rendered(d)
         \/ /\ BuildTransactions
            /\ \E t \in TxnsOf(Head(highScene).txns) : t.doc = d /\ Processed(t).built # EmptyScene
<1>t. TypeOK /\ HandshakeInv
  BY DEF Ready
<1>1. CASE CanRender(docs'[d])
  <2>1. CASE SceneStep(d)
    <3>1. CASE TakesScene(d)
      <4>1. Head(work) \in TxnsOf(work) /\ Head(work).txn.doc = d /\ Head(work).built # EmptyScene
        BY <1>t, <3>1, HeadRenders DEF TakesScene
      <4> QED BY <4>1, ScenesMeans, Zenon DEF Rendered
    <3> QED BY <1>1, <2>1, <3>1 DEF SceneStep, Rendered
  <2> QED BY <1>t, <1>1, <2>1, SceneBy, NewIsBlank
<1>2. CASE \E b \in Scenes' : b.txn.doc = d /\ b.built # EmptyScene
  <2>1. PICK b \in Scenes' : b.txn.doc = d /\ b.built # EmptyScene
    BY <1>2
  <2>2. CASE b \in Scenes
    BY <2>1, <2>2, Zenon DEF Rendered
  <2>3. CASE BuildTransactions /\ \E t \in TxnsOf(Head(highScene).txns) : b = Processed(t)
    <3>1. PICK t \in TxnsOf(Head(highScene).txns) : b = Processed(t)
      BY <2>3
    <3>2. t \in Transaction
      BY <2>3, BuildsBatch DEF Ready, TypeOK, ClientTypeOK
    <3> QED BY <2>1, <2>3, <3>1, <3>2, ProcessedFor
  <2>4. CASE /\ ReceiveForBackend
             /\ \E t \in TxnsOf(Head(api).txns) : b = [txn |-> t, built |-> EmptyScene]
    BY <2>1, <2>4
  <2> QED BY <1>t, <2>1, <2>2, <2>3, <2>4, ScenesBy
<1> QED BY <1>1, <1>2, RenderedPrimed

(* What is past was sent before this step.                                 *)
LEMMA PastSent ==
  ASSUME Ready, [Next]_vars, NEW CONSTANT t, t \in sent', Past(t)'
  PROVE  t \in sent
<1> SUFFICES ASSUME t \notin sent PROVE Early(TxnMark(t))'
  BY DEF Past
<1>t. TypeOK /\ LineTypeOK /\ sends \in Nat
  BY LineTypes DEF Ready, TypeOK, ClientTypeOK
<1>1. PICK m \in Menu : Send(m)
  <2>1. CASE \E c \in Clients : Flush(c)
    BY <2>1 DEF Flush
  <2> QED BY <2>1, NotSent
<1>2. m.type = "UpdateDocuments" /\ t \in TxnsOf(Numbered(m, sends + 1).txns)
  BY <1>1 DEF Send
<1>3. Numbered(m, sends + 1).type = "UpdateDocuments"
  <2>1. m \in ApiMsg
    BY MenuAssumption
  <2> QED BY <2>1, <1>2 DEF Numbered, ApiMsg
<1>4. TxnMark(t) \in MarksOf(Numbered(m, sends + 1))
  BY <1>2, <1>3, Zenon DEF MarksOf
<1> QED BY <1>t, <1>1, <1>4, ClientMove, EarlyAfter, Zenon

(* The scene builder is not at work for the document.                      *)
LEMMA BuilderIdle ==
  ASSUME Ready, ScenesRender, [Next]_vars, Runs', NEW CONSTANT d \in Docs,
         sbScene'[d] = sbScene[d],
         BuildTransactions => \A t \in TxnsOf(Head(highScene).txns) : t.doc # d,
         BuilderRoots(d), \A p \in Pipelines : BuilderHas(d, p) /\ BuilderEpoch(d, p)
  PROVE  BuilderRoots(d)' /\ \A p \in Pipelines : BuilderHas(d, p)' /\ BuilderEpoch(d, p)'
<1>s. sent \subseteq sent' /\ rbPc' # "done"
  BY BatchesKept DEF Ready, LineInv, Runs
<1>p. \A t \in sent : Past(t) => Past(t)'
  BY PastBy
<1>q. ASSUME NEW CONSTANT t, t \in sent', t.doc = d, Changes(t), Past(t)'
      PROVE  t \in sent /\ Past(t)
  BY <1>q, <1>s, PastSent, PastBy
<1>1. BuilderRoots(d)'
  <2>1. SUFFICES ASSUME Rendered(d)'
                 PROVE  \/ HasRootPipeline(sbScene[d])
                        \/ \E r \in sent' : RemovesAll(r, d) /\ Past(r)'
    BY BuilderPrimed
  <2>2. Rendered(d)
    BY <2>1, RenderedBy
  <2> QED BY <2>2, <1>s, <1>p DEF BuilderRoots
<1>2. ASSUME NEW p \in Pipelines PROVE BuilderHas(d, p)'
  <2>1. SUFFICES ASSUME NEW t \in sent', t.doc = d, p \in t.display, Past(t)'
                 PROVE  \/ t.id <= sbScene'[d].lists[p]
                        \/ \E r \in sent' : r.doc = d /\ p \in r.removes /\ Past(r)'
    BY BuilderListsPrimed
  <2>2. Changes(t)
    BY <2>1 DEF Changes, CanSkipSceneBuilder
  <2>3. t \in sent /\ Past(t)
    BY <2>1, <2>2, <1>q
  <2> QED BY <1>2, <2>1, <2>3, <1>s, <1>p DEF BuilderHas
<1>3. ASSUME NEW p \in Pipelines PROVE BuilderEpoch(d, p)'
  <2>1. BuilderEpoch(d, p)
    BY <1>3
  <2> QED BY <2>1, <1>s, <1>p, BuilderListsPrimed DEF BuilderEpoch
<1> QED BY <1>1, <1>2, <1>3

(* It builds the document's transaction.                                   *)
LEMMA BuilderWorks ==
  ASSUME Ready, OneWay, RootsStay, ScenesRender, BuildTransactions, [Next]_vars, Runs', Runs,
         NEW CONSTANT d \in Docs, NEW CONSTANT u \in TxnsOf(Head(highScene).txns), u.doc = d,
         sbScene'[d] = ApplyToScene(sbScene[d], u),
         BuilderOf(d), BuilderRoots(d), \A p \in Pipelines : BuilderHas(d, p) /\ BuilderEpoch(d, p)
  PROVE  BuilderRoots(d)' /\ \A p \in Pipelines : BuilderHas(d, p)' /\ BuilderEpoch(d, p)'
<1>s. sent \subseteq sent' /\ rbPc' # "done"
  BY BatchesKept DEF Ready, LineInv, Runs
<1>p. \A t \in sent : Past(t) => Past(t)'
  BY PastBy
<1>u. /\ u \in sent /\ u \in Transaction /\ Early(TxnMark(u)) /\ Past(u)' /\ u.id \in Nat /\ u.id # 0
      /\ sbScene[d] \in Scene
  BY BuildsBatch DEF Past, Ready, TypeOK, ClientTypeOK, BuilderTypeOK, LineInv, NumbersOK, Transaction
<1>a. \A p \in Pipelines :
        /\ sbScene'[d].lists[p] =
             IF p \in u.removes THEN 0 ELSE IF p \in u.display THEN u.id ELSE sbScene[d].lists[p]
        /\ sbScene'[d].epochs[p] =
             IF p \in u.removes THEN 0
             ELSE IF p \in u.display \cup u.epochs THEN u.id ELSE sbScene[d].epochs[p]
  BY <1>u, ApplyMeans
<1>q. ASSUME NEW CONSTANT t, t \in sent', t.doc = d, Changes(t), Past(t)'
      PROVE  t = u \/ (t \in sent /\ Past(t))
  <2>1. t \in sent
    BY <1>q, PastSent
  <2>2. Past(t) \/ t \in TxnsOf(Head(highScene).txns)
    BY <1>q, <1>s, <2>1, PastBy
  <2> QED BY <1>q, <2>1, <2>2, BuildsBatch
<1>1. BuilderRoots(d)'
  <2>1. SUFFICES ASSUME Rendered(d)'
                 PROVE  \/ HasRootPipeline(sbScene'[d])
                        \/ \E r \in sent' : RemovesAll(r, d) /\ Past(r)'
    BY BuilderPrimed
  <2>2. CASE \E t \in TxnsOf(Head(highScene).txns) : t.doc = d /\ Processed(t).built # EmptyScene
    <3>1. Processed(u).built # EmptyScene
      BY <2>2, BuildsBatch
    <3>2. Processed(u).built = BuiltScene(ApplyToScene(sbScene[d], u), u)
      BY <1>u, ProcessedFor
    <3> QED BY <3>1, <3>2 DEF BuiltScene
  <2>3. CASE \E r \in sent : RemovesAll(r, d) /\ Past(r)
    BY <2>3, <1>s, <1>p
  <2>4. CASE HasRootPipeline(sbScene[d])
    <3>1. PICK v \in sent : v.doc = d /\ v.root = sbScene[d].root
      BY <2>4 DEF BuilderOf, HasRootPipeline
    <3>2. RootsKept(u, v) /\ RootsKept(u, u)
      BY <1>u, <3>1 DEF RootsStay
    <3>3. HasRootPipeline(ApplyToScene(sbScene[d], u)) \/ (u.removes # {} /\ u.removes = Pipelines)
      BY <1>u, <2>4, <3>1, <3>2, RootKept DEF RootsKept
    <3> QED BY <3>3, <1>u, <1>s DEF RemovesAll
  <2> QED BY <2>1, <2>2, <2>3, <2>4, RenderedBy DEF BuilderRoots
<1>2. ASSUME NEW p \in Pipelines PROVE BuilderHas(d, p)'
  <2>1. SUFFICES ASSUME NEW t \in sent', t.doc = d, p \in t.display, Past(t)'
                 PROVE  \/ t.id <= sbScene'[d].lists[p]
                        \/ \E r \in sent' : r.doc = d /\ p \in r.removes /\ Past(r)'
    BY BuilderListsPrimed
  <2>2. Changes(t)
    BY <2>1 DEF Changes, CanSkipSceneBuilder
  <2>3. t = u \/ (t \in sent /\ Past(t))
    BY <2>1, <2>2, <1>q
  <2>4. CASE p \in u.removes
    BY <2>4, <1>u, <1>s
  <2>5. CASE p \notin u.removes /\ p \in u.display
    <3>1. sbScene'[d].lists[p] = u.id
      BY <1>2, <1>a, <2>5
    <3>2. CASE t = u
      BY <3>1, <3>2, <1>u
    <3>3. CASE t \in sent /\ Past(t)
      <4>1. Changes(u)
        BY <2>5 DEF Changes, CanSkipSceneBuilder
      <4>2. t.id < u.id
        BY <2>1, <2>2, <3>3, <4>1, <1>u, EarlierPast
      <4>3. t.id \in Nat
        BY <3>3 DEF Ready, TypeOK, ClientTypeOK, Transaction
      <4> QED BY <3>1, <4>2, <4>3, <1>u
    <3> QED BY <2>3, <3>2, <3>3
  <2>6. CASE p \notin u.removes /\ p \notin u.display
    <3>1. sbScene'[d].lists[p] = sbScene[d].lists[p]
      BY <1>2, <1>a, <2>6
    <3>2. t \in sent /\ Past(t)
      BY <2>1, <2>3, <2>6
    <3> QED BY <1>2, <2>1, <3>1, <3>2, <1>s, <1>p DEF BuilderHas
  <2> QED BY <2>4, <2>5, <2>6
<1>3. ASSUME NEW p \in Pipelines PROVE BuilderEpoch(d, p)'
  <2>1. CASE p \in u.removes
    BY <1>3, <2>1, <1>a, BuilderListsPrimed
  <2>2. CASE p \notin u.removes /\ p \in u.display \cup u.epochs
    <3>1. Changes(u) /\ sbScene'[d].epochs[p] = u.id
      BY <1>3, <1>a, <2>2 DEF Changes, CanSkipSceneBuilder
    <3> QED BY <3>1, <1>u, <1>s, BuilderListsPrimed
  <2>3. CASE p \notin u.removes /\ p \notin u.display \cup u.epochs
    <3>1. sbScene'[d].epochs[p] = sbScene[d].epochs[p] /\ BuilderEpoch(d, p)
      BY <1>3, <1>a, <2>3
    <3> QED BY <3>1, <1>s, <1>p, BuilderListsPrimed DEF BuilderEpoch
  <2> QED BY <2>1, <2>2, <2>3
<1> QED BY <1>1, <1>2, <1>3

LEMMA BuilderStep ==
  ASSUME Ready, OneWay, RootsStay, ScenesRender, BuilderInv, [Next]_vars
  PROVE  BuilderInv'
<1> SUFFICES ASSUME NEW CONSTANT d \in Docs
             PROVE  BuilderOf(d)' /\ (Runs' => BuilderKeeps(d)')
  BY Zenon DEF BuilderInv, Runs
<1>1. BuilderOf(d)'
  BY BuilderOfStep
<1>2. ASSUME Runs', ~Gone(d)' PROVE BuilderKeeps(d)'
  <2>1. Runs /\ ~Gone(d)
    BY <1>2, RunsBack, GoneStays
  <2>2. BuilderOf(d) /\ BuilderRoots(d) /\ \A p \in Pipelines : BuilderHas(d, p) /\ BuilderEpoch(d, p)
    BY <2>1 DEF BuilderInv, BuilderKeeps
  <2>3. \/ /\ sbScene'[d] = sbScene[d]
           /\ BuildTransactions => \A t \in TxnsOf(Head(highScene).txns) : t.doc # d
        \/ /\ BuildTransactions
           /\ \E t \in TxnsOf(Head(highScene).txns) :
                t.doc = d /\ sbScene'[d] = ApplyToScene(sbScene[d], t)
    <3>1. CASE BuildTransactions
      BY <3>1, SceneBuiltFor
    <3>2. CASE UNCHANGED <<sbAlive, sbScene>> /\ ~BuildTransactions
      BY <3>2
    <3>3. CASE BuilderDeleteDocument
      <4>1. Head(highScene).doc # d
        BY <1>2, <3>3, BecomesGone
      <4>2. sbScene'[d] = sbScene[d] /\ ~BuildTransactions
        BY <3>3, <4>1 DEF BuilderDeleteDocument, BuildTransactions, Ready, TypeOK, BuilderTypeOK
      <4> QED BY <4>2
    <3>4. CASE BuilderClearNamespace
      <4>1. NamespaceOf[d] # Head(highScene).ns
        BY <1>2, <3>4, BecomesGone
      <4>2. d \in sbAlive' <=> d \in sbAlive
        BY <3>4, <4>1 DEF BuilderClearNamespace
      <4>3. sbScene'[d] = sbScene[d] /\ ~BuildTransactions
        BY <3>4, <4>2, <2>2 DEF BuilderClearNamespace, BuildTransactions, BuilderOf
      <4> QED BY <4>3
    <3> QED BY <3>1, <3>2, <3>3, <3>4, BuilderBy
  <2>4. BuilderRoots(d)' /\ \A p \in Pipelines : BuilderHas(d, p)' /\ BuilderEpoch(d, p)'
    BY <1>2, <2>1, <2>2, <2>3, BuilderIdle, BuilderWorks
  <2> QED BY <2>4, BuilderPrimed
<1> QED BY <1>1, <1>2, BuilderPrimed

-----------------------------------------------------------------------------
(* The scenes on their way.  A scene that was built has every display list *)
(* up to its transaction, unless the pipeline was removed, and no epoch    *)
(* beyond it; when display lists came and no scene was built, all          *)
(* pipelines were removed or none was built for the document before.       *)
HasAll(d, p, l, n) == \A t \in sent : t.doc = d /\ p \in t.display /\ t.id <= n => t.id <= l

Purged(d, p, n) == \E r \in sent : r.doc = d /\ p \in r.removes /\ r.id <= n

AllPurged(d, n) == \E r \in sent : RemovesAll(r, d) /\ r.id <= n

SceneHas(b) ==
  b.built # EmptyScene =>
    /\ ShouldBuildScene(b.txn)
    /\ \A p \in Pipelines :
         /\ HasAll(b.txn.doc, p, b.built.lists[p], b.txn.id) \/ Purged(b.txn.doc, p, b.txn.id)
         /\ b.built.epochs[p] <= b.txn.id

FirstScene(b) ==
  /\ ~CanRender(docs[b.txn.doc])
  /\ \A c \in Scenes : c.txn.doc = b.txn.doc /\ c.built # EmptyScene => b.txn.id < c.txn.id

SceneLacks(b) ==
  b.built = EmptyScene /\ b.txn.display # {} => AllPurged(b.txn.doc, b.txn.id) \/ FirstScene(b)

ScenesOK == Runs => \A b \in Scenes : SceneHas(b) /\ SceneLacks(b)

LEMMA SentBefore ==
  ASSUME Ready, [Next]_vars, NEW n \in Nat, n <= sends, NEW t \in sent', t.id <= n
  PROVE  t \in sent
<1>1. TypeOK /\ HandshakeInv /\ NumbersOK /\ WorkOK
  BY DEF Ready, LineInv
<1>2. /\ sends \in Nat /\ sends' \in Nat
      /\ \A k \in 1..sends : Batch(k)' = Batch(k)
  BY <1>1, BatchesKept
<1>3. t.id \in 1..sends'
  <2>1. NumbersOK'
    BY <1>1, NumbersStep
  <2>2. NumbersOK' => \A x \in sent' : x.id \in 1..sends'
    BY DEF NumbersOK
  <2> QED BY <2>1, <2>2
<1>4. t.id \in 1..sends
  BY <1>2, <1>3
<1>5. \A k : Batch(k)' = {x \in sent' : x.id = k}
  BY DEF Batch
<1> QED
  BY <1>2, <1>4, <1>5 DEF Batch

LEMMA KnownKept ==
  ASSUME Ready, [Next]_vars, NEW CONSTANT d, NEW CONSTANT p, NEW CONSTANT l,
         NEW CONSTANT n \in Nat, n <= sends
  PROVE  /\ HasAll(d, p, l, n) => HasAll(d, p, l, n)'
         /\ Purged(d, p, n) => Purged(d, p, n)'
         /\ AllPurged(d, n) => AllPurged(d, n)'
<1>1. sent \subseteq sent'
  BY BatchesKept DEF Ready, LineInv
<1>2. \A t \in sent' : t.id <= n => t \in sent
  BY SentBefore
<1>3. HasAll(d, p, l, n)' <=> \A t \in sent' : t.doc = d /\ p \in t.display /\ t.id <= n => t.id <= l
  BY DEF HasAll
<1>4. Purged(d, p, n)' <=> \E r \in sent' : r.doc = d /\ p \in r.removes /\ r.id <= n
  BY DEF Purged
<1>5. AllPurged(d, n)' <=> \E r \in sent' : RemovesAll(r, d) /\ r.id <= n
  BY DEF AllPurged, RemovesAll
<1> QED BY <1>1, <1>2, <1>3, <1>4, <1>5 DEF HasAll, Purged, AllPurged

LEMMA ScenesPrimed ==
  ASSUME NEW CONSTANT b
  PROVE  /\ SceneHas(b)' <=>
              (b.built # EmptyScene =>
                 /\ ShouldBuildScene(b.txn)
                 /\ \A p \in Pipelines :
                      /\ \/ HasAll(b.txn.doc, p, b.built.lists[p], b.txn.id)'
                         \/ Purged(b.txn.doc, p, b.txn.id)'
                      /\ b.built.epochs[p] <= b.txn.id)
         /\ SceneLacks(b)' <=>
              (b.built = EmptyScene /\ b.txn.display # {} =>
                 AllPurged(b.txn.doc, b.txn.id)' \/ FirstScene(b)')
         /\ FirstScene(b)' <=>
              /\ ~CanRender(docs'[b.txn.doc])
              /\ \A c \in Scenes' : c.txn.doc = b.txn.doc /\ c.built # EmptyScene =>
                   b.txn.id < c.txn.id
BY DEF SceneHas, SceneLacks, FirstScene, ShouldBuildScene, EmptyScene, CanRender, HasRootPipeline

LEMMA ChangesMeans ==
  ASSUME NEW t
  PROVE  /\ Changes(t) <=>
              t.display # {} \/ t.epochs # {} \/ t.removes # {} \/ t.root # NoPipeline
         /\ ShouldBuildScene(t) => Changes(t)
         /\ \A b : SceneOf(b, t) => (ShouldBuildScene(b.txn) <=> ShouldBuildScene(t))
BY DEF Changes, CanSkipSceneBuilder, ShouldBuildScene, SceneOf

(* A scene is not overtaken by one of a later transaction.                 *)
LEMMA SceneBefore ==
  ASSUME Ready, OneWay, NEW b \in Scenes, NEW c \in TxnsOf(work), NEW t, NEW u,
         SceneOf(b, t), SceneOf(c, u), t.doc = u.doc, Changes(t), Changes(u), t.id < u.id,
         TxnMark(u) \in WorkMarks, b \notin TxnsOf(work) => Waiting(TxnMark(t)),
         b \in TxnsOf(work) => TxnMark(t) \in WorkMarks
  PROVE  FALSE
<1>1. t \in sent /\ u \in sent /\ t.id \in Nat /\ u.id \in Nat
  BY DEF SceneOf, Ready, TypeOK, ClientTypeOK, Transaction
<1>2. Before(t.id, t.doc, u.id, u.doc)
  BY <1>1, Ahead
<1>3. ~Waiting(TxnMark(t))
  BY <1>2, Zenon DEF Before, TxnMark
<1>4. TxnMark(t) \in WorkMarks
  BY <1>3
<1>5. t.id = u.id
  <2>1. <<"txn", t.id, t.doc>> \in WorkMarks /\ <<"txn", u.id, u.doc>> \in WorkMarks
    BY <1>4 DEF TxnMark
  <2> QED BY <2>1, InWorkSame
<1> QED BY <1>1, <1>5

(* The scenes that were there.                                             *)
LEMMA SceneStays ==
  ASSUME Ready, OneWay, ScenesRender, [Next]_vars, Runs, NEW CONSTANT b, b \in Scenes,
         \A c \in Scenes : SceneHas(c) /\ SceneLacks(c)
  PROVE  SceneHas(b)' /\ SceneLacks(b)'
<1>r. TypeOK /\ HandshakeInv
  BY DEF Ready
<1>1. PICK t : /\ SceneOf(b, t) /\ Past(t)
               /\ b \in TxnsOf(work) => TxnMark(t) \in WorkMarks
               /\ b \notin TxnsOf(work) => Waiting(TxnMark(t))
  BY SceneSent, Zenon
<1>2. /\ t \in sent /\ t \in Transaction /\ t.doc = b.txn.doc /\ t.id = b.txn.id
      /\ t.display = b.txn.display /\ b.txn.id \in Nat /\ b.txn.id <= sends /\ b.txn.doc \in Docs
  BY <1>1 DEF SceneOf, Ready, TypeOK, ClientTypeOK, LineInv, NumbersOK, Transaction
<1>3. SceneHas(b) /\ SceneLacks(b)
  OBVIOUS
<1>4. SceneHas(b)'
  <2>1. SUFFICES ASSUME b.built # EmptyScene
                 PROVE  /\ ShouldBuildScene(b.txn)
                        /\ \A p \in Pipelines :
                             /\ \/ HasAll(b.txn.doc, p, b.built.lists[p], b.txn.id)'
                                \/ Purged(b.txn.doc, p, b.txn.id)'
                             /\ b.built.epochs[p] <= b.txn.id
    BY ScenesPrimed
  <2> QED BY <1>2, <1>3, <2>1, KnownKept DEF SceneHas
<1>5. SceneLacks(b)'
  <2>1. SUFFICES ASSUME b.built = EmptyScene, b.txn.display # {}
                 PROVE  AllPurged(b.txn.doc, b.txn.id)' \/ FirstScene(b)'
    BY ScenesPrimed
  <2>2. CASE AllPurged(b.txn.doc, b.txn.id)
    BY <1>2, <2>2, KnownKept
  <2>3. CASE FirstScene(b)
    <3>c. Changes(t)
      BY <1>2, <2>1, ChangesMeans
    <3>1. ~CanRender(docs'[b.txn.doc])
      <4>1. SUFFICES ASSUME CanRender(docs'[b.txn.doc]) PROVE FALSE
        OBVIOUS
      <4>2. TakesScene(b.txn.doc)
        <5>1. SceneStep(b.txn.doc)
          BY <1>2, <1>r, <4>1, SceneBy, NewIsBlank
        <5> QED BY <5>1, <4>1, <2>3 DEF SceneStep, FirstScene
      <4>3. PICK c : c = Head(work) /\ c \in TxnsOf(work) /\ c.txn.doc = b.txn.doc /\ c.built # EmptyScene
        BY <1>r, <4>2, HeadRenders DEF TakesScene
      <4>4. c \in Scenes
        BY <4>3, ScenesMeans, Zenon
      <4>5. PICK u : SceneOf(c, u) /\ TxnMark(u) \in WorkMarks
        BY <4>3, <4>4, SceneSent, Zenon
      <4>6. Changes(u) /\ t.id < u.id /\ t.doc = u.doc
        <5>1. ShouldBuildScene(c.txn)
          BY <4>3, <4>4 DEF SceneHas
        <5>2. Changes(u)
          BY <4>5, <5>1, ChangesMeans
        <5>3. b.txn.id < c.txn.id
          BY <2>3, <4>3, <4>4 DEF FirstScene
        <5> QED BY <1>2, <4>3, <4>5, <5>2, <5>3 DEF SceneOf
      <4> QED BY <1>1, <3>c, <4>3, <4>5, <4>6, SceneBefore, Zenon
    <3>2. ASSUME NEW c \in Scenes', c.txn.doc = b.txn.doc, c.built # EmptyScene
          PROVE  b.txn.id < c.txn.id
      <4>1. CASE c \in Scenes
        BY <2>3, <3>2, <4>1 DEF FirstScene
      <4>2. CASE BuildTransactions /\ \E u \in TxnsOf(Head(highScene).txns) : c = Processed(u)
        <5>1. PICK u \in TxnsOf(Head(highScene).txns) : c = Processed(u)
          BY <4>2
        <5>2. u \in sent /\ u \in Transaction /\ Early(TxnMark(u))
          BY <4>2, BuildsBatch DEF Ready, TypeOK, ClientTypeOK
        <5>3. /\ c.txn.id = u.id /\ c.txn.doc = u.doc
              /\ c.built = BuiltScene(ApplyToScene(sbScene[u.doc], u), u)
          BY <5>1, <5>2, ProcessedFor
        <5>4. Changes(u)
          BY <3>2, <5>3, ChangesMeans DEF BuiltScene
        <5> QED BY <1>1, <1>2, <3>2, <3>c, <5>2, <5>3, <5>4, EarlierPast
      <4>3. CASE /\ ReceiveForBackend
                 /\ \E u \in TxnsOf(Head(api).txns) : c = [txn |-> u, built |-> EmptyScene]
        BY <3>2, <4>3
      <4> QED BY <1>r, <4>1, <4>2, <4>3, ScenesBy
    <3> QED BY <3>1, <3>2, ScenesPrimed
  <2> QED BY <1>3, <2>1, <2>2, <2>3 DEF SceneLacks
<1> QED BY <1>4, <1>5

(* The scene that the scene builder builds.                                *)
LEMMA BuiltHas ==
  ASSUME Ready, OneWay, Runs, BuildTransactions, [Next]_vars,
         NEW CONSTANT u, u \in TxnsOf(Head(highScene).txns), u.doc \in Docs,
         \A p \in Pipelines : BuilderHas(u.doc, p) /\ BuilderEpoch(u.doc, p),
         NEW CONSTANT b, b = Processed(u)
  PROVE  SceneHas(b)'
<1>u. /\ u \in sent /\ u \in Transaction /\ Early(TxnMark(u)) /\ u.id \in Nat /\ u.id <= sends
      /\ sbScene[u.doc] \in Scene /\ sent \subseteq sent'
  BY BuildsBatch, BatchesKept
     DEF Ready, TypeOK, ClientTypeOK, BuilderTypeOK, LineInv, NumbersOK, Transaction
<1>b. /\ b.txn.id = u.id /\ b.txn.doc = u.doc /\ b.txn.display = u.display /\ b.txn.root = u.root
      /\ b.built = BuiltScene(ApplyToScene(sbScene[u.doc], u), u)
  BY <1>u, ProcessedFor
<1>1. SUFFICES ASSUME b.built # EmptyScene
               PROVE  /\ ShouldBuildScene(b.txn)
                      /\ \A p \in Pipelines :
                           /\ \/ HasAll(b.txn.doc, p, b.built.lists[p], b.txn.id)'
                              \/ Purged(b.txn.doc, p, b.txn.id)'
                           /\ b.built.epochs[p] <= b.txn.id
  BY ScenesPrimed
<1>2. ShouldBuildScene(u) /\ b.built = ApplyToScene(sbScene[u.doc], u) /\ Changes(u)
  BY <1>b, <1>1, ChangesMeans DEF BuiltScene
<1>3. ShouldBuildScene(b.txn)
  BY <1>b, <1>2 DEF ShouldBuildScene
<1>4. ASSUME NEW p \in Pipelines
      PROVE  b.built.epochs[p] <= u.id
  <2>1. b.built.epochs[p] =
             IF p \in u.removes THEN 0
             ELSE IF p \in u.display \cup u.epochs THEN u.id ELSE sbScene[u.doc].epochs[p]
    BY <1>u, <1>2, <1>4, ApplyMeans
  <2>2. sbScene[u.doc].epochs[p] <= u.id
    <3>1. CASE sbScene[u.doc].epochs[p] = 0
      BY <3>1, <1>u
    <3>2. CASE \E v \in sent : v.doc = u.doc /\ v.id = sbScene[u.doc].epochs[p] /\ Changes(v) /\ Past(v)
      <4>1. PICK v \in sent : v.doc = u.doc /\ v.id = sbScene[u.doc].epochs[p] /\ Changes(v) /\ Past(v)
        BY <3>2
      <4>2. v.id \in Nat
        BY <4>1 DEF Ready, TypeOK, ClientTypeOK, Transaction
      <4>3. v.id < u.id
        BY <4>1, <1>u, <1>2, EarlierPast
      <4> QED BY <4>1, <4>2, <4>3, <1>u
    <3> QED BY <1>4, <3>1, <3>2 DEF BuilderEpoch
  <2> QED BY <2>1, <2>2, <1>u
<1>5. ASSUME NEW CONSTANT p \in Pipelines, ~Purged(u.doc, p, u.id)'
      PROVE  HasAll(u.doc, p, b.built.lists[p], u.id)'
  <2>1. \A r \in sent : r.doc = u.doc /\ p \in r.removes => ~(r.id <= u.id)
    <3>1. Purged(u.doc, p, u.id)' <=> \E r \in sent' : r.doc = u.doc /\ p \in r.removes /\ r.id <= u.id
      BY DEF Purged
    <3> QED BY <3>1, <1>5, <1>u
  <2>2. p \notin u.removes
    BY <2>1, <1>u
  <2>3. b.built.lists[p] = IF p \in u.display THEN u.id ELSE sbScene[u.doc].lists[p]
    BY <1>u, <1>2, <1>5, <2>2, ApplyMeans
  <2>4. SUFFICES ASSUME NEW t \in sent', t.doc = u.doc, p \in t.display, t.id <= u.id
                 PROVE  t.id <= b.built.lists[p]
    BY DEF HasAll
  <2>5. t \in sent /\ t.id \in Nat /\ Changes(t)
    <3>1. t \in sent
      BY <2>4, <1>u, SentBefore
    <3> QED BY <2>4, <3>1, ChangesMeans DEF Ready, TypeOK, ClientTypeOK, Transaction
  <2>6. CASE p \in u.display
    BY <2>3, <2>4, <2>5, <2>6, <1>u
  <2>7. CASE p \notin u.display
    <3>1. t.id # u.id
      BY <2>4, <2>5, <2>7, <1>u, SentOnce DEF Ready, LineInv
    <3>2. Past(t)
      BY <2>4, <2>5, <3>1, <1>u, <1>2, NextBuilt
    <3>3. ~ \E r \in sent : r.doc = u.doc /\ p \in r.removes /\ Past(r)
      <4>1. SUFFICES ASSUME NEW r \in sent, r.doc = u.doc, p \in r.removes, Past(r) PROVE FALSE
        OBVIOUS
      <4>2. Changes(r) /\ r.id \in Nat
        BY <4>1, ChangesMeans DEF Ready, TypeOK, ClientTypeOK, Transaction
      <4>3. r.id < u.id
        BY <4>1, <4>2, <1>u, <1>2, EarlierPast
      <4> QED BY <2>1, <4>1, <4>2, <4>3, <1>u
    <3> QED BY <1>5, <2>3, <2>4, <2>5, <2>7, <3>2, <3>3 DEF BuilderHas
  <2> QED BY <2>6, <2>7
<1> QED BY <1>b, <1>3, <1>4, <1>5

LEMMA BuiltLacks ==
  ASSUME Ready, OneWay, RootsStay, Runs, ScenesRender, BuildTransactions, [Next]_vars,
         NEW CONSTANT u, u \in TxnsOf(Head(highScene).txns), u.doc \in Docs,
         BuilderOf(u.doc), BuilderRoots(u.doc),
         NEW CONSTANT b, b = Processed(u)
  PROVE  SceneLacks(b)'
<1>r. TypeOK /\ HandshakeInv
  BY DEF Ready
<1>u. /\ u \in sent /\ u \in Transaction /\ Early(TxnMark(u)) /\ u.id \in Nat /\ u.id # 0
      /\ u.id <= sends /\ sbScene[u.doc] \in Scene /\ sent \subseteq sent'
  BY BuildsBatch, BatchesKept
     DEF Ready, TypeOK, ClientTypeOK, BuilderTypeOK, LineInv, NumbersOK, Transaction
<1>b. /\ b.txn.id = u.id /\ b.txn.doc = u.doc /\ b.txn.display = u.display /\ b.txn.root = u.root
      /\ b.built = BuiltScene(ApplyToScene(sbScene[u.doc], u), u)
  BY <1>u, ProcessedFor
<1>1. SUFFICES ASSUME b.built = EmptyScene, u.display # {}
               PROVE  AllPurged(u.doc, u.id)' \/ FirstScene(b)'
  BY <1>b, ScenesPrimed
<1>2. Changes(u) /\ ~HasRootPipeline(ApplyToScene(sbScene[u.doc], u))
  BY <1>b, <1>1, ChangesMeans DEF BuiltScene, ShouldBuildScene, HasRootPipeline, EmptyScene
<1>3. CASE Rendered(u.doc)
  <2>1. PICK r \in sent : RemovesAll(r, u.doc) /\ r.id <= u.id
    <3>1. CASE HasRootPipeline(sbScene[u.doc])
      <4>1. PICK v \in sent : v.doc = u.doc /\ v.root = sbScene[u.doc].root
        BY <3>1 DEF BuilderOf, HasRootPipeline
      <4>2. RootsKept(u, v) /\ RootsKept(u, u)
        BY <1>u, <4>1 DEF RootsStay
      <4>3. u.removes # {} /\ u.removes = Pipelines
        BY <1>u, <1>2, <3>1, <4>1, <4>2, RootKept DEF RootsKept
      <4> QED BY <4>3, <1>u DEF RemovesAll
    <3>2. CASE \E r \in sent : RemovesAll(r, u.doc) /\ Past(r)
      <4>1. PICK r \in sent : RemovesAll(r, u.doc) /\ Past(r)
        BY <3>2
      <4>2. Changes(r) /\ r.id \in Nat /\ r.doc = u.doc
        BY <4>1, ChangesMeans DEF RemovesAll, Ready, TypeOK, ClientTypeOK, Transaction
      <4>3. r.id < u.id
        BY <4>1, <4>2, <1>u, <1>2, EarlierPast
      <4> QED BY <4>1, <4>2, <4>3, <1>u
    <3> QED BY <1>3, <3>1, <3>2 DEF BuilderRoots
  <2>2. AllPurged(u.doc, u.id)
    BY <2>1 DEF AllPurged
  <2> QED BY <2>2, <1>u, KnownKept
<1>4. CASE ~Rendered(u.doc)
  <2>1. ~CanRender(docs'[u.doc])
    <3>1. docs' = docs
      BY DEF BuildTransactions, backendVars
    <3> QED BY <3>1, <1>4 DEF Rendered
  <2>2. ASSUME NEW c \in Scenes', c.txn.doc = u.doc, c.built # EmptyScene PROVE FALSE
    <3>1. CASE c \in Scenes
      BY <1>4, <2>2, <3>1, Zenon DEF Rendered
    <3>2. CASE \E v \in TxnsOf(Head(highScene).txns) : c = Processed(v)
      <4>1. PICK v \in TxnsOf(Head(highScene).txns) : c = Processed(v)
        BY <3>2
      <4>2. v \in Transaction
        BY BuildsBatch DEF Ready, TypeOK, ClientTypeOK
      <4>3. v = u
        BY <2>2, <4>1, <4>2, ProcessedFor, BuildsBatch
      <4> QED BY <1>1, <2>2, <4>1, <4>3
    <3>3. ~ReceiveForBackend
      BY DEF ReceiveForBackend, Receives, BuildTransactions, backendVars, clientVars
    <3> QED BY <1>r, <2>2, <3>1, <3>2, <3>3, ScenesBy
  <2> QED BY <1>b, <2>1, <2>2, ScenesPrimed
<1> QED BY <1>3, <1>4

LEMMA ScenesStep ==
  ASSUME Ready, OneWay, RootsStay, ScenesRender, BuilderInv, ScenesOK, [Next]_vars
  PROVE  ScenesOK'
<1> SUFFICES ASSUME Runs', NEW CONSTANT b, b \in Scenes'
             PROVE  SceneHas(b)' /\ SceneLacks(b)'
  BY Zenon DEF ScenesOK
<1>r. TypeOK /\ HandshakeInv /\ Runs
  BY RunsBack DEF Ready
<1>1. CASE b \in Scenes
  BY <1>r, <1>1, SceneStays DEF ScenesOK
<1>2. CASE BuildTransactions /\ \E u \in TxnsOf(Head(highScene).txns) : b = Processed(u)
  <2>1. PICK u \in TxnsOf(Head(highScene).txns) : b = Processed(u)
    BY <1>2
  <2>2. u \in sent /\ u.doc \in Docs /\ u.id \in 1..sends /\ Early(TxnMark(u))
    BY <1>2, BuildsBatch DEF Ready, TypeOK, ClientTypeOK, LineInv, NumbersOK, Transaction
  <2>3. ~Gone(u.doc)
    BY <2>2 DEF Gone, TxnsFor, TxnMark
  <2>4. BuilderOf(u.doc) /\ BuilderKeeps(u.doc)
    BY <1>r, <2>2 DEF BuilderInv
  <2>5. /\ BuilderRoots(u.doc)
        /\ \A p \in Pipelines : BuilderHas(u.doc, p) /\ BuilderEpoch(u.doc, p)
    BY <2>3, <2>4 DEF BuilderKeeps
  <2>6. SceneHas(b)'
    BY <1>r, <1>2, <2>1, <2>2, <2>5, BuiltHas
  <2>7. SceneLacks(b)'
    BY <1>r, <1>2, <2>1, <2>2, <2>4, <2>5, BuiltLacks
  <2> QED BY <2>6, <2>7
<1>3. CASE /\ ReceiveForBackend
           /\ \E t \in TxnsOf(Head(api).txns) : b = [txn |-> t, built |-> EmptyScene]
  <2>1. PICK t \in TxnsOf(Head(api).txns) : b = [txn |-> t, built |-> EmptyScene]
    BY <1>3
  <2>2. t.display = {}
    BY <1>3 DEF ReceiveForBackend, UsesSceneBuilder, CanSkipSceneBuilder
  <2>3. b.txn.display = {} /\ b.built = EmptyScene
    BY <2>1, <2>2
  <2> QED BY <2>3, ScenesPrimed
<1> QED BY <1>r, <1>1, <1>2, <1>3, ScenesBy

-----------------------------------------------------------------------------
(* The documents of the render backend.  A document that can be rendered   *)
(* has every display list applied to it, unless the pipeline's removal is  *)
(* reported, and its epochs, and those that were reported, are of what was *)
(* applied.                                                                *)
Held(d, p, t) == t.id <= docs[d].scene.lists[p] \/ Reported(d, p)

DocHas(d) ==
  d \in alive /\ CanRender(docs[d]) =>
    \A p \in Pipelines, t \in sent :
      t.doc = d /\ p \in t.display /\ Applied(t.id, d) => Held(d, p, t)

AllApplied(d, p, e) ==
  e <= sends /\ \A t \in sent : t.doc = d /\ p \in t.display /\ t.id <= e => Applied(t.id, d)

(* An epoch that the renderer has for a pipeline or will be told of.       *)
Tells(queue, d, p, e) ==
  \E m \in TxnsOf(queue) : m.type = "PublishPipelineInfo" /\ m.doc = d /\ m.epochs[p] = e

Epoch(d, p, e) == e = info[d][p] \/ Tells(outbox, d, p, e) \/ Tells(output, d, p, e)

DocsOK ==
  Runs => \A d \in Docs :
    /\ DocHas(d)
    /\ \A p \in Pipelines :
         /\ AllApplied(d, p, docs[d].scene.epochs[p])
         /\ \A e \in Nat : Epoch(d, p, e) => AllApplied(d, p, e)

LEMMA AppliedStep ==
  ASSUME TypeOK, HandshakeInv, WorkOK, [Next]_vars, Runs', NEW n, NEW d, Applied(n, d)
  PROVE  Applied(n, d)'
<1>p. Applied(n, d)' <=> \/ SettledMark(n, d)'
                         \/ /\ rbPc' \in {"resume", "settle"} /\ work' # <<>>
                            /\ Head(work').txn.id = n /\ Head(work').txn.doc = d
  BY DEF Applied, IsHead
<1>1. CASE SettledMark(n, d)
  BY <1>1, <1>p, StaysSettled
<1>2. CASE rbPc \in {"resume", "settle"} /\ IsHead(n, d)
  <2>1. CASE Settle
    <3>1. settled' = Append(settled, <<n, d>>)
      BY <1>2, <2>1 DEF Settle, IsHead
    <3>2. settled \in Seq(Nat \X Docs)
      BY DEF TypeOK, HistoryTypeOK
    <3>3. TxnsOf(settled') = TxnsOf(settled) \cup {<<n, d>>}
      BY <3>1, <3>2, MembersAppend
    <3>4. \E i \in DOMAIN settled' : settled'[i] = <<n, d>>
      BY <3>3 DEF TxnsOf
    <3> QED BY <1>p, <3>4 DEF SettledMark
  <2>2. CASE ~Settle
    <3>1. CASE Backend
      BY <1>2, <1>p, <2>2, <3>1
         DEF IsHead, Backend, At, Receives, PollTransactions, PollFlushComplete,
           PollClearNamespace, PollNothing, Publish, NopDocument, SkipTransaction, SwapAndWait,
           UpdateTransaction, ResumeAndUpdate, UpdateHead, NewFrameReady, ReceiveForSceneBuilder,
           ReceiveForBackend, ReceiveAddDocument, ReceiveDeleteDocument, ReceiveForwarded,
           ReceiveMemoryPressure, ReceiveWakeUp, ReceiveShutDown, Discard, Stopped, backendVars
    <3>2. CASE ~Backend
      <4>1. rbPc' = rbPc /\ work' = work
        <5>1. CASE SceneBuilder
          BY <5>1 DEF SceneBuilder, backendVars, BuildTransactions, BuilderDeleteDocument,
               BuilderFlush, BuilderClearNamespace, BuilderStop, WakeBackend, ReceiveSwap,
               PostSceneSwap
        <5>2. CASE Renderer
          BY <5>2 DEF Renderer, backendVars, RendererWake, UpdatePipelineInfo, UpdateDocumentFrame,
               UpdateNotifications, UpdateResources, UpdateDone, Render
        <5>3. CASE (\E m \in Menu : Send(m)) \/ \E c \in Clients : Flush(c)
          BY <5>3 DEF Send, Flush, backendVars
        <5>4. CASE LowForward \/ Rest \/ UNCHANGED vars
          BY <5>4 DEF LowForward, Rest, vars, backendVars
        <5> QED BY <3>2, <5>1, <5>2, <5>3, <5>4 DEF Next
      <4> QED BY <1>2, <1>p, <4>1 DEF IsHead
    <3> QED BY <3>1, <3>2
  <2> QED BY <2>1, <2>2
<1> QED BY <1>1, <1>2 DEF Applied

(* The transaction of the head of the work.                                *)
LEMMA HeadSent ==
  ASSUME Ready, ScenesRender, work # <<>>
  PROVE  /\ Head(work) \in TxnsOf(work) /\ Head(work) \in Scenes
         /\ \E u : /\ SceneOf(Head(work), u) /\ TxnMark(u) \in WorkMarks
                   /\ IsHead(u.id, u.doc)
                   /\ \A t \in sent : IsHead(t.id, t.doc) => t = u
<1>1. Head(work) \in TxnsOf(work)
  BY HeadRenders DEF Ready
<1>2. Head(work) \in Scenes
  BY <1>1, ScenesMeans, Zenon
<1>3. PICK u : SceneOf(Head(work), u) /\ TxnMark(u) \in WorkMarks
  BY <1>1, <1>2, SceneSent, Zenon
<1>4. IsHead(u.id, u.doc) /\ u \in sent
  BY <1>3 DEF IsHead, SceneOf
<1>5. ASSUME NEW t \in sent, IsHead(t.id, t.doc) PROVE t = u
  <2>1. t.id = u.id /\ t.doc = u.doc
    BY <1>4, <1>5 DEF IsHead
  <2> QED BY <1>4, <2>1, SentOnce DEF Ready, LineInv
<1> QED BY <1>1, <1>2, <1>3, <1>4, <1>5

(* What takes a scene or an epoch.                                         *)
Applies == SwapAndWait \/ UpdateTransaction \/ ResumeAndUpdate

LEMMA AppliesUpTo ==
  ASSUME Ready, OneWay, [Next]_vars, Runs, Runs', Applies, NEW u, u \in sent, TxnMark(u) \in WorkMarks,
         IsHead(u.id, u.doc), Changes(u),
         NEW t, t \in sent, t.doc = u.doc, Changes(t), t.id <= u.id
  PROVE  Applied(t.id, t.doc)'
<1>r. TypeOK /\ HandshakeInv /\ WorkOK /\ t.id \in Nat /\ u.id \in Nat
  BY DEF Ready, LineInv, TypeOK, ClientTypeOK, Transaction
<1>1. CASE t.id < u.id
  <2>1. SettledMark(t.id, t.doc)
    BY <1>1, EarlierSettled
  <2> QED BY <1>r, <2>1, AppliedStep DEF Applied
<1>2. CASE t.id = u.id
  <2>1. work' = work /\ rbPc' \in {"resume", "settle"}
    BY DEF Applies, SwapAndWait, UpdateTransaction, ResumeAndUpdate, UpdateHead, Runs
  <2> QED BY <1>2, <2>1 DEF Applied, IsHead
<1> QED BY <1>r, <1>1, <1>2

LEMMA DocHasPrimed ==
  ASSUME NEW CONSTANT d
  PROVE  /\ DocHas(d)' <=>
              (d \in alive' /\ CanRender(docs'[d]) =>
                 \A p \in Pipelines, t \in sent' :
                   t.doc = d /\ p \in t.display /\ Applied(t.id, d)' => Held(d, p, t)')
         /\ \A p, t : Held(d, p, t)' <=> t.id <= docs'[d].scene.lists[p] \/ Reported(d, p)'
BY DEF DocHas, Held, CanRender

LEMMA SentStays ==
  ASSUME Ready, [Next]_vars, NEW t, t \in sent
  PROVE  t \in sent' /\ t.id \in 1..sends /\ t \in Transaction
<1>1. t.id \in 1..sends /\ t \in Transaction
  BY DEF Ready, LineInv, NumbersOK, TypeOK, ClientTypeOK
<1>2. sent \subseteq sent'
  BY BatchesKept DEF Ready, LineInv
<1> QED BY <1>1, <1>2

(* A pipeline that a scene does not have is reported removed once the      *)
(* render backend has taken the scene.                                     *)
LEMMA PurgeReported ==
  ASSUME Ready, OneWay, [Next]_vars, Runs, Runs', RemovalsKept', Applies,
         NEW u, u \in sent, TxnMark(u) \in WorkMarks, IsHead(u.id, u.doc), Changes(u),
         u.doc \in alive', NEW p \in Pipelines, Purged(u.doc, p, u.id)
  PROVE  Reported(u.doc, p)'
<1>1. PICK r \in sent : r.doc = u.doc /\ p \in r.removes /\ r.id <= u.id
  BY DEF Purged
<1>2. Changes(r)
  BY <1>1, ChangesMeans
<1>3. Applied(r.id, u.doc)' /\ r \in sent'
  BY <1>1, <1>2, AppliesUpTo, SentStays
<1> QED BY <1>1, <1>3, Zenon DEF RemovalsKept

LEMMA DocHasStep ==
  ASSUME Ready, OneWay, FrameInv, ScenesOK, [Next]_vars, Runs, Runs', RemovalsKept',
         NEW CONSTANT d \in Docs, DocHas(d)
  PROVE  DocHas(d)'
<1> SUFFICES ASSUME d \in alive', CanRender(docs'[d]),
                    NEW CONSTANT p \in Pipelines, NEW CONSTANT t, t \in sent', t.doc = d,
                    p \in t.display, Applied(t.id, d)'
             PROVE  t.id <= docs'[d].scene.lists[p] \/ Reported(d, p)'
  BY DocHasPrimed
<1>r. /\ TypeOK /\ HandshakeInv /\ NumbersOK /\ WorkOK /\ ScenesRender
      /\ \A b \in Scenes : SceneHas(b) /\ SceneLacks(b)
  BY DEF Ready, LineInv, FrameInv, ScenesOK
<1>1. \/ Applied(t.id, d)
      \/ (SkipTransaction \/ SwapAndWait \/ UpdateTransaction) /\ IsHead(t.id, d)
  BY <1>r, AppliedBy
<1>2. t \in sent /\ Changes(t) /\ t.id \in Nat
  <2>1. t.id \in 1..sends
    BY <1>r, <1>1, AppliedMeans
  <2>2. sends \in Nat /\ t.id \in Nat /\ t.id <= sends
    BY <1>r, <2>1 DEF TypeOK, ClientTypeOK
  <2> QED BY <2>2, SentBefore, ChangesMeans
<1>3. SceneStep(d)
  BY <1>r, SceneBy
<1>4. d \in alive
  <2>1. CanRender(docs[d]) => d \in alive
    BY DEF FrameInv, FrameOwner
  <2>2. TakesScene(d) => d \in alive
    BY DEF TakesScene, SwapAndWait, UpdateTransaction
  <2> QED BY <1>3, <2>1, <2>2 DEF SceneStep
<1>5. CASE TakesScene(d)
  <2>1. /\ work # <<>> /\ Head(work).txn.doc = d /\ Head(work).built # EmptyScene
        /\ Applies /\ rbPc = "apply"
    BY <1>5 DEF TakesScene, Applies, SwapAndWait, UpdateTransaction, At
  <2>2. PICK b : b = Head(work)
    OBVIOUS
  <2>3. PICK u : /\ SceneOf(b, u) /\ TxnMark(u) \in WorkMarks /\ IsHead(u.id, u.doc)
                 /\ \A x \in sent : IsHead(x.id, x.doc) => x = u
    BY <1>r, <2>1, <2>2, HeadSent
  <2>4. b \in Scenes /\ b.txn.doc = d /\ b.built # EmptyScene
    BY <1>r, <2>1, <2>2, HeadSent
  <2>5. u \in sent /\ u.doc = d /\ u.id = b.txn.id /\ Changes(u)
    <3>1. ShouldBuildScene(b.txn)
      BY <1>r, <2>4 DEF SceneHas
    <3>2. Changes(u)
      BY <2>3, <3>1, ChangesMeans
    <3> QED BY <2>3, <2>4, <3>2 DEF SceneOf
  <2>6. t.id <= u.id
    <3>1. CASE Applied(t.id, d)
      <4>1. SettledMark(t.id, t.doc)
        BY <2>1, <3>1 DEF Applied
      <4> QED BY <1>2, <2>3, <2>5, <4>1, EarlierSettled
    <3>2. CASE IsHead(t.id, d)
      BY <1>2, <2>3, <3>2
    <3> QED BY <1>1, <3>1, <3>2
  <2>7. HasAll(d, p, b.built.lists[p], u.id) \/ Purged(d, p, u.id)
    BY <1>r, <2>4, <2>5 DEF SceneHas
  <2>8. docs'[d].scene.lists = b.built.lists
    BY <1>3, <1>5, <2>2 DEF SceneStep
  <2>9. CASE HasAll(d, p, b.built.lists[p], u.id)
    BY <1>2, <2>6, <2>8, <2>9 DEF HasAll
  <2>10. CASE Purged(d, p, u.id)
    BY <2>1, <2>3, <2>5, <2>10, PurgeReported
  <2> QED BY <2>7, <2>9, <2>10
<1>6. CASE ~TakesScene(d)
  <2>1. CanRender(docs[d]) /\ docs'[d].scene.lists = docs[d].scene.lists
    BY <1>3, <1>6 DEF SceneStep
  <2>2. CASE Applied(t.id, d)
    <3>1. Held(d, p, t)
      BY <1>2, <1>4, <2>1, <2>2 DEF DocHas
    <3>2. Reported(d, p) => Reported(d, p)'
      BY <1>r, ReportedKept
    <3> QED BY <2>1, <3>1, <3>2 DEF Held
  <2>3. CASE (SkipTransaction \/ SwapAndWait \/ UpdateTransaction) /\ IsHead(t.id, d)
    <3>1. work # <<>> /\ Head(work).txn.doc = d /\ (SwapAndWait \/ UpdateTransaction)
      BY <1>4, <2>3 DEF IsHead, SkipTransaction
    <3>2. PICK b : b = Head(work)
      OBVIOUS
    <3>3. PICK u : /\ SceneOf(b, u) /\ TxnMark(u) \in WorkMarks /\ IsHead(u.id, u.doc)
                   /\ \A x \in sent : IsHead(x.id, x.doc) => x = u
      BY <1>r, <3>1, <3>2, HeadSent
    <3>4. t = u /\ Applies
      BY <1>2, <2>3, <3>1, <3>3 DEF Applies
    <3>5. b \in Scenes /\ b.txn.doc = d /\ b.built = EmptyScene /\ b.txn.display # {} /\ b.txn.id = u.id
      <4>1. b \in Scenes /\ b.txn.doc = d
        BY <1>r, <3>1, <3>2, HeadSent
      <4>2. b.built = EmptyScene
        BY <1>6, <3>1, <3>2 DEF TakesScene
      <4> QED BY <3>3, <3>4, <4>1, <4>2 DEF SceneOf
    <3>6. AllPurged(d, u.id)
      BY <1>r, <2>1, <3>5 DEF SceneLacks, FirstScene
    <3>7. Purged(d, p, u.id)
      BY <3>6 DEF AllPurged, Purged, RemovesAll
    <3> QED BY <1>2, <3>3, <3>4, <3>7, PurgeReported
  <2> QED BY <1>1, <2>2, <2>3
<1> QED BY <1>5, <1>6

(* How the renderer comes to know of an epoch.                             *)
LEMMA EpochPrimed ==
  ASSUME NEW CONSTANT d, NEW CONSTANT p, NEW CONSTANT e
  PROVE  /\ Epoch(d, p, e)' <=>
              e = info'[d][p] \/ Tells(outbox', d, p, e) \/ Tells(output', d, p, e)
         /\ AllApplied(d, p, e)' <=>
              /\ e <= sends'
              /\ \A t \in sent' : t.doc = d /\ p \in t.display /\ t.id <= e => Applied(t.id, d)'
BY DEF Epoch, Tells, TxnsOf, AllApplied

LEMMA TellsMoves ==
  ASSUME NEW S, NEW q \in Seq(S), NEW m, NEW d, NEW p, NEW e
  PROVE  /\ Tells(Append(q, m), d, p, e) =>
              \/ Tells(q, d, p, e)
              \/ m.type = "PublishPipelineInfo" /\ m.doc = d /\ m.epochs[p] = e
         /\ q # <<>> /\ m = Head(q) =>
              /\ Tells(Tail(q), d, p, e) => Tells(q, d, p, e)
              /\ m.type = "PublishPipelineInfo" /\ m.doc = d /\ m.epochs[p] = e
                   => Tells(q, d, p, e)
<1>1. TxnsOf(Append(q, m)) = TxnsOf(q) \cup {m}
  BY MembersAppend
<1>2. ASSUME q # <<>> PROVE TxnsOf(q) = {Head(q)} \cup TxnsOf(Tail(q))
  BY <1>2, MembersTail
<1> QED BY <1>1, <1>2 DEF Tells

LEMMA PublishedTells ==
  ASSUME NEW old, NEW t, NEW d, NEW p, NEW e, Tells(Published(old, t), d, p, e)
  PROVE  /\ d = t.doc /\ PublishesInfo(old, t, required)
         /\ e = ApplyFrameOps(old, t).scene.epochs[p]
<1> DEFINE doc == ApplyFrameOps(old, t)
           i   == [type |-> "PublishPipelineInfo", doc |-> t.doc,
                   epochs |-> doc.scene.epochs, removed |-> doc.removed]
           f   == [type |-> "PublishDocument", doc |-> t.doc, lists |-> doc.scene.lists]
           q   == IF PublishesInfo(old, t, required) THEN <<i>> ELSE <<>>
           r   == IF BuildsFrame(old, t, required) THEN <<f>> ELSE <<>>
<1>1. Published(old, t) = q \o r
  BY DEF Published
<1>2. /\ i.doc = t.doc /\ i.epochs = doc.scene.epochs
      /\ f.type # "PublishPipelineInfo"
  OBVIOUS
<1>q. (q = <<>> \/ (q = <<i>> /\ PublishesInfo(old, t, required))) /\ (r = <<>> \/ r = <<f>>)
  OBVIOUS
<1> HIDE DEF i, f, q, r
<1>3. q \in Seq({i, f}) /\ (TxnsOf(q) = {} \/ (TxnsOf(q) = {i} /\ PublishesInfo(old, t, required)))
  <2>1. CASE q = <<>>
    BY <2>1 DEF TxnsOf
  <2>2. CASE q = <<i>> /\ PublishesInfo(old, t, required)
    BY <2>2 DEF TxnsOf
  <2> QED BY <1>q, <2>1, <2>2
<1>4. r \in Seq({i, f}) /\ TxnsOf(r) \subseteq {f}
  <2>1. CASE r = <<>>
    BY <2>1 DEF TxnsOf
  <2>2. CASE r = <<f>>
    BY <2>2 DEF TxnsOf
  <2> QED BY <1>q, <2>1, <2>2
<1>5. TxnsOf(q \o r) \subseteq TxnsOf(q) \cup TxnsOf(r)
  BY <1>3, <1>4, MembersOfBoth
<1>6. PICK m \in TxnsOf(q \o r) : m.type = "PublishPipelineInfo" /\ m.doc = d /\ m.epochs[p] = e
  BY <1>1 DEF Tells
<1>7. m = i /\ PublishesInfo(old, t, required)
  BY <1>2, <1>3, <1>4, <1>5, <1>6
<1> QED BY <1>2, <1>6, <1>7

LEMMA InfoBy ==
  ASSUME [Next]_vars
  PROVE  info' = info \/ UpdatePipelineInfo
<1>1. CASE Backend
  BY <1>1 DEF Backend, rendererVars, PollTransactions, PollFlushComplete, PollClearNamespace,
       PollNothing, NopDocument, SwapAndWait, Publish, SkipTransaction, ReceiveForBackend,
       NewFrameReady, Settle, UpdateTransaction, ResumeAndUpdate, ReceiveForSceneBuilder,
       ReceiveAddDocument, ReceiveDeleteDocument, ReceiveForwarded, ReceiveMemoryPressure,
       ReceiveWakeUp, ReceiveShutDown, Discard, Stopped
<1>2. CASE SceneBuilder
  BY <1>2 DEF SceneBuilder, rendererVars, BuildTransactions, BuilderDeleteDocument, BuilderFlush,
       BuilderClearNamespace, BuilderStop, WakeBackend, ReceiveSwap, PostSceneSwap
<1>3. CASE Renderer
  BY <1>3 DEF Renderer, RendererWake, UpdateDone, UpdateDocumentFrame, UpdateNotifications,
       UpdateResources, Render
<1>4. CASE \/ \E m \in Menu : Send(m)
           \/ \E c \in Clients : Flush(c)
           \/ LowForward \/ Rest \/ UNCHANGED vars
  BY <1>4 DEF Send, Flush, LowForward, Rest, vars, rendererVars
<1> QED BY <1>1, <1>2, <1>3, <1>4 DEF Next

Updating == (\E d \in Docs : NopDocument(d)) \/ UpdateTransaction \/ ResumeAndUpdate

LEMMA NotUpdating ==
  ASSUME [Next]_vars, ~Updating
  PROVE  outbox' = outbox \/ (Publish /\ outbox' = Tail(outbox) /\ outbox # <<>>)
BY FrameSteps
   DEF Updating, Idle, Publish, Draws, UpdatePipelineInfo, UpdateDocumentFrame,
     UpdateNotifications, UpdateResources, Builder, BuildTransactions, BuilderFlush,
     BuilderClearNamespace, BuilderStop, PollFlushComplete, Discard, PollTransactions,
     PollClearNamespace, Stopped, SkipTransaction, SwapAndWait, Settle, NewFrameReady,
     ReceiveForSceneBuilder, ReceiveForBackend, ReceiveAddDocument, ReceiveDeleteDocument,
     ReceiveMemoryPressure, backendVars

(* An epoch that is new to the renderer's end is that of the document, at  *)
(* an update that publishes it.                                            *)
Publishes(d, old, t) == UpdatesIt(d) /\ UpdatedBy(d, old, t) /\ PublishesInfo(old, t, required)

LEMMA EpochBy ==
  ASSUME TypeOK, HandshakeInv, ScenesRender, \A x \in Docs : FrameOwner(x), [Next]_vars,
         NEW CONSTANT d \in Docs, NEW CONSTANT p \in Pipelines, NEW CONSTANT e, Epoch(d, p, e)'
  PROVE  \/ Epoch(d, p, e)
         \/ e = docs'[d].scene.epochs[p] /\ \E old, t : Publishes(d, old, t)
<1>t. /\ output \in Seq(ResultMsg) /\ outbox \in Seq(ResultMsg)
      /\ info \in [Docs -> [Pipelines -> Nat]] /\ docs \in [Docs -> Document]
  BY DEF TypeOK, ChannelTypeOK, BackendTypeOK, RendererTypeOK
<1>1. CASE e = info'[d][p]
  <2>1. CASE UpdatePipelineInfo
    <3>1. PICK m : m = Head(output)
      OBVIOUS
    <3>2. /\ output # <<>> /\ m.type = "PublishPipelineInfo"
          /\ info' = [info EXCEPT ![m.doc] =
                        [x \in Pipelines |-> IF m.epochs[x] # 0 THEN m.epochs[x] ELSE @[x]]]
      BY <2>1, <3>1 DEF UpdatePipelineInfo, Updates
    <3>3. e = info[d][p] \/ (m.doc = d /\ m.epochs[p] = e)
      BY <1>1, <1>t, <3>2
    <3>4. m.doc = d /\ m.epochs[p] = e => Tells(output, d, p, e)
      BY <1>t, <3>1, <3>2, TellsMoves
    <3> QED BY <3>3, <3>4 DEF Epoch
  <2> QED BY <1>1, <2>1, InfoBy DEF Epoch
<1>2. CASE Tells(outbox', d, p, e)
  <2>1. CASE Updating
    <3>1. ASSUME NEW old, NEW t, UpdatesFrom(old, t)
          PROVE  t.doc = d /\ PublishesInfo(old, t, required) /\ e = ApplyFrameOps(old, t).scene.epochs[p]
      <4>1. outbox' = Published(old, t)
        BY <3>1 DEF UpdatesFrom
      <4> QED BY <1>2, <4>1, PublishedTells
    <3>2. UpdatesIt(d) /\ \E old, t : UpdatedBy(d, old, t)
      BY <2>1, <3>1, UpdatedBySome DEF Updating
    <3>3. PICK old, t : UpdatedBy(d, old, t)
      BY <3>2
    <3>4. /\ t.doc = d /\ old \in Document /\ t \in Transaction /\ UpdatesFrom(old, t)
          /\ docs' = [docs EXCEPT ![d] = UpdatedDocument(old, t, required)]
      BY <3>3 DEF UpdatedBy, UpdatesFrom
    <3>5. docs'[d] = UpdatedDocument(old, t, required) /\ required \in BOOLEAN
      BY <1>t, <3>4 DEF TypeOK, BackendTypeOK
    <3>6. PublishesInfo(old, t, required) /\ e = ApplyFrameOps(old, t).scene.epochs[p]
      BY <3>1, <3>4
    <3>7. ApplyFrameOps(old, t).scene.epochs[p] =
            IF p \in t.epochs THEN t.id ELSE old.scene.epochs[p]
      BY <3>4 DEF ApplyFrameOps, Document, Scene
    <3>8. docs'[d].scene.epochs[p] = IF p \in t.epochs THEN t.id ELSE old.scene.epochs[p]
      BY <3>4, <3>5, UpdatedScene
    <3> QED BY <3>2, <3>3, <3>6, <3>7, <3>8 DEF Publishes
  <2>2. CASE ~Updating
    <3>1. CASE outbox' = outbox
      BY <1>2, <3>1 DEF Epoch
    <3>2. CASE outbox' = Tail(outbox) /\ outbox # <<>>
      <4>1. PICK m : m = Head(outbox)
        OBVIOUS
      <4>2. Tells(outbox, d, p, e)
        BY <1>t, <1>2, <3>2, <4>1, TellsMoves
      <4> QED BY <4>2 DEF Epoch
    <3> QED BY <2>2, <3>1, <3>2, NotUpdating
  <2> QED BY <2>1, <2>2
<1>3. CASE Tells(output', d, p, e)
  <2>1. CASE Publish
    <3>1. PICK m : m = Head(outbox)
      OBVIOUS
    <3>2. output' = Append(output, m) /\ outbox # <<>>
      BY <2>1, <3>1 DEF Publish
    <3>3. \/ Tells(output, d, p, e)
          \/ m.type = "PublishPipelineInfo" /\ m.doc = d /\ m.epochs[p] = e
      BY <1>3, <1>t, <3>2, TellsMoves
    <3>4. m.type = "PublishPipelineInfo" /\ m.doc = d /\ m.epochs[p] = e => Tells(outbox, d, p, e)
      BY <1>t, <3>1, <3>2, TellsMoves
    <3> QED BY <3>3, <3>4 DEF Epoch
  <2>2. CASE output' = output
    BY <1>3, <2>2 DEF Epoch
  <2>3. CASE output # <<>> /\ output' = Tail(output)
    <3>1. PICK m : m = Head(output)
      OBVIOUS
    <3>2. Tells(output, d, p, e)
      BY <1>3, <1>t, <2>3, <3>1, TellsMoves
    <3> QED BY <3>2 DEF Epoch
  <2>4. CASE \E m : output' = Append(output, m) /\ m.type # "PublishPipelineInfo"
    <3>1. PICK m : output' = Append(output, m) /\ m.type # "PublishPipelineInfo"
      BY <2>4
    <3>2. Tells(output, d, p, e)
      BY <1>3, <1>t, <3>1, TellsMoves
    <3> QED BY <3>2 DEF Epoch
  <2>5. \/ Publish \/ output' = output \/ (output # <<>> /\ output' = Tail(output))
        \/ \E m : output' = Append(output, m) /\ m.type # "PublishPipelineInfo"
    <3>1. CASE Settle
      <4>1. PICK late \in SUBSET RequestsOf(Head(work).txn) :
              \/ output' = output
              \/ output' = Append(output, [type |-> "AppendNotificationRequests",
                                            requests |-> late])
        BY <3>1, SettleHands
      <4>2. PICK m : m = [type |-> "AppendNotificationRequests", requests |-> late]
        OBVIOUS
      <4>3. m.type # "PublishPipelineInfo"
        BY <4>2
      <4> QED BY <4>1, <4>2, <4>3
    <3>2. CASE ReceiveMemoryPressure
      <4>1. PICK m : m = [type |-> "UpdateResources"]
        OBVIOUS
      <4>2. output' = Append(output, m) /\ m.type # "PublishPipelineInfo"
        BY <3>2, <4>1 DEF ReceiveMemoryPressure
      <4> QED BY <4>2
    <3>3. CASE \/ UpdatePipelineInfo \/ UpdateDocumentFrame \/ UpdateNotifications
               \/ UpdateResources \/ Render
      BY <3>3 DEF UpdatePipelineInfo, UpdateDocumentFrame, UpdateNotifications,
           UpdateResources, Render, Updates
    <3> QED BY <3>1, <3>2, <3>3, HandedBy
  <2> QED BY <2>1, <2>2, <2>3, <2>4, <2>5
<1> QED BY <1>1, <1>2, <1>3, EpochPrimed

LEMMA AllAppliedKept ==
  ASSUME Ready, [Next]_vars, Runs', NEW CONSTANT d \in Docs, NEW CONSTANT p \in Pipelines,
         NEW CONSTANT e \in Nat, AllApplied(d, p, e)
  PROVE  AllApplied(d, p, e)'
<1>1. e <= sends'
  <2>1. sends \in Nat /\ sends' \in Nat /\ sends <= sends'
    BY BatchesKept DEF Ready, LineInv
  <2> QED BY <2>1 DEF AllApplied
<1>2. ASSUME NEW t \in sent', t.doc = d, p \in t.display, t.id <= e
      PROVE  Applied(t.id, d)'
  <2>1. t \in sent
    BY <1>2, SentBefore DEF AllApplied
  <2>2. Applied(t.id, d)
    BY <1>2, <2>1 DEF AllApplied
  <2> QED BY <2>2, AppliedStep DEF Ready, LineInv
<1> QED BY <1>1, <1>2, EpochPrimed

(* The epochs of a document, after a step.                                 *)
LEMMA DocEpochs ==
  ASSUME Ready, OneWay, FrameInv, ScenesOK, [Next]_vars, Runs, Runs',
         NEW CONSTANT d \in Docs, NEW CONSTANT p \in Pipelines,
         AllApplied(d, p, docs[d].scene.epochs[p]),
         NEW CONSTANT e \in Nat, e = docs'[d].scene.epochs[p]
  PROVE  AllApplied(d, p, e)'
<1>r. /\ TypeOK /\ HandshakeInv /\ NumbersOK /\ WorkOK /\ ScenesRender
      /\ \A b \in Scenes : SceneHas(b) /\ SceneLacks(b)
  BY DEF Ready, LineInv, FrameInv, ScenesOK
<1>s. sends \in Nat /\ sends' \in Nat /\ sends <= sends' /\ docs \in [Docs -> Document]
  BY <1>r, BatchesKept DEF TypeOK, BackendTypeOK
<1>1. ASSUME Applies, work # <<>>, Head(work).txn.doc = d,
             Changes(Head(work).txn), e <= Head(work).txn.id
      PROVE  AllApplied(d, p, e)'
  <2>1. PICK b : b = Head(work)
    OBVIOUS
  <2>2. PICK u : SceneOf(b, u) /\ TxnMark(u) \in WorkMarks /\ IsHead(u.id, u.doc)
    BY <1>r, <1>1, <2>1, HeadSent
  <2>3. u \in sent /\ u.doc = d /\ e <= u.id /\ Changes(u)
    BY <1>1, <2>1, <2>2, ChangesMeans DEF SceneOf
  <2>4. u.id \in Nat /\ u.id <= sends
    BY <1>r, <1>s, <2>3 DEF NumbersOK
  <2>5. ASSUME NEW t \in sent', t.doc = d, p \in t.display, t.id <= e
        PROVE  Applied(t.id, d)'
    <3>1. t \in sent
      BY <1>s, <2>3, <2>4, <2>5, SentBefore
    <3>2. Changes(t) /\ t.id <= u.id
      <4>1. t.id \in Nat
        BY <1>r, <3>1 DEF TypeOK, ClientTypeOK, Transaction
      <4> QED BY <2>3, <2>4, <2>5, <4>1, ChangesMeans
    <3> QED BY <1>1, <2>2, <2>3, <2>5, <3>1, <3>2, AppliesUpTo
  <2>6. e <= sends'
    BY <1>s, <2>3, <2>4
  <2> QED BY <2>5, <2>6, EpochPrimed
<1>2. CASE docs'[d] = NewDocument
  <2>1. e = 0
    BY <1>2 DEF NewDocument, EmptyScene
  <2>2. \A t \in sent' : ~(t.id <= 0)
    <3>1. NumbersOK' /\ TypeOK'
      BY <1>r, TypeStep, LineStep DEF Ready, LineInv
    <3> QED BY <3>1, <1>s DEF NumbersOK
  <2> QED BY <1>s, <2>1, <2>2, EpochPrimed
<1>3. CASE SceneStep(d)
  <2>1. e = IF TakesEpoch(d, p) THEN Head(work).txn.id
            ELSE IF TakesScene(d) THEN Head(work).built.epochs[p]
            ELSE docs[d].scene.epochs[p]
    BY <1>3 DEF SceneStep
  <2>2. CASE TakesEpoch(d, p)
    <3>1. e = Head(work).txn.id
      BY <2>1, <2>2
    <3>2. Changes(Head(work).txn)
      BY <2>2, ChangesMeans DEF TakesEpoch
    <3>3. Applies /\ work # <<>> /\ Head(work).txn.doc = d
      BY <2>2 DEF TakesEpoch, Applies
    <3> QED BY <1>1, <3>1, <3>2, <3>3
  <2>3. CASE ~TakesEpoch(d, p) /\ TakesScene(d)
    <3>1. Applies /\ work # <<>> /\ Head(work).txn.doc = d /\ Head(work).built # EmptyScene
      BY <2>3 DEF TakesScene, Applies
    <3>2. PICK b : b = Head(work)
      OBVIOUS
    <3>3. b \in Scenes /\ b.built # EmptyScene
      BY <1>r, <3>1, <3>2, HeadSent
    <3>4. ShouldBuildScene(b.txn) /\ b.built.epochs[p] <= b.txn.id
      BY <1>r, <3>3 DEF SceneHas
    <3>5. Changes(Head(work).txn)
      BY <3>2, <3>4, ChangesMeans
    <3> QED BY <1>1, <2>1, <2>3, <3>1, <3>2, <3>4, <3>5
  <2>4. CASE ~TakesEpoch(d, p) /\ ~TakesScene(d)
    <3>1. AllApplied(d, p, e)
      BY <2>1, <2>4
    <3> QED BY <3>1, AllAppliedKept
  <2> QED BY <2>2, <2>3, <2>4
<1> QED BY <1>r, <1>2, <1>3, SceneBy


LEMMA DocsStep ==
  ASSUME Ready, OneWay, FrameInv, ScenesOK, DocsOK, [Next]_vars, RemovalsKept'
  PROVE  DocsOK'
<1> SUFFICES ASSUME Runs', NEW CONSTANT d \in Docs
             PROVE  /\ DocHas(d)'
                    /\ \A p \in Pipelines :
                         /\ AllApplied(d, p, docs[d].scene.epochs[p])'
                         /\ \A e \in Nat : Epoch(d, p, e)' => AllApplied(d, p, e)'
  BY DEF DocsOK
<1>r. /\ TypeOK /\ HandshakeInv /\ ScenesRender /\ Runs
      /\ \A x \in Docs : FrameOwner(x)
  BY RunsBack DEF Ready, FrameInv
<1>1. DocHas(d)'
  BY <1>r, DocHasStep DEF DocsOK
<1>2. ASSUME NEW CONSTANT p \in Pipelines, NEW CONSTANT e \in Nat, e = docs'[d].scene.epochs[p]
      PROVE  AllApplied(d, p, e)'
  BY <1>r, <1>2, DocEpochs DEF DocsOK
<1>3. ASSUME NEW CONSTANT p \in Pipelines, NEW CONSTANT e \in Nat, Epoch(d, p, e)'
      PROVE  AllApplied(d, p, e)'
  <2>1. CASE Epoch(d, p, e)
    <3>1. AllApplied(d, p, e)
      BY <1>r, <2>1 DEF DocsOK
    <3> QED BY <3>1, AllAppliedKept
  <2>2. CASE e = docs'[d].scene.epochs[p]
    BY <1>2, <2>2
  <2> QED BY <1>r, <1>3, <2>1, <2>2, EpochBy
<1>4. ASSUME NEW CONSTANT p \in Pipelines
      PROVE  AllApplied(d, p, docs[d].scene.epochs[p])'
  <2>1. PICK e \in Nat : e = docs'[d].scene.epochs[p]
    <3>1. TypeOK'
      BY <1>r, TypeStep
    <3> QED BY <3>1 DEF TypeOK, BackendTypeOK, Document, Scene
  <2>2. AllApplied(d, p, e)'
    BY <1>2, <2>1
  <2> QED BY <2>1, <2>2 DEF AllApplied
<1> QED BY <1>1, <1>3, <1>4

-----------------------------------------------------------------------------
(* What the renderer will show, from where it was shown.                   *)
LEMMA ShownOnce ==
  ASSUME NEW q, NEW d, NEW k, NEW l, DOMAIN q \subseteq Int, Shows(q, d, l)
  PROVE  ~Silent(q, d) /\ (Shows(q, d, k) => k = l)
<1>1. PICK i \in DOMAIN q :
        /\ q[i].type = "PublishDocument" /\ q[i].doc = d /\ q[i].lists = l
        /\ \A j \in DOMAIN q : i < j => ~OfFrame(q[j], d)
  BY DEF Shows
<1>2. OfFrame(q[i], d)
  BY <1>1 DEF OfFrame
<1>3. ASSUME Shows(q, d, k) PROVE k = l
  <2>1. PICK j \in DOMAIN q :
          /\ q[j].type = "PublishDocument" /\ q[j].doc = d /\ q[j].lists = k
          /\ \A x \in DOMAIN q : j < x => ~OfFrame(q[x], d)
    BY <1>3 DEF Shows
  <2>2. OfFrame(q[j], d)
    BY <2>1 DEF OfFrame
  <2>3. i = j
    BY <1>1, <1>2, <2>1, <2>2
  <2> QED BY <1>1, <2>1, <2>3
<1> QED BY <1>2, <1>3 DEF Silent, TxnsOf

LEMMA ShownAlone ==
  ASSUME TypeOK, NEW d, NEW k, NEW l, WillShow(d, k), WillShow(d, l)
  PROVE  k = l
<1>1. DOMAIN output \subseteq Int /\ DOMAIN outbox \subseteq Int
  <2>1. output \in Seq(ResultMsg) /\ outbox \in Seq(ResultMsg)
    BY DEF TypeOK, ChannelTypeOK, BackendTypeOK
  <2> QED BY <2>1
<1>2. /\ Shows(outbox, d, l) => ~Silent(outbox, d) /\ (Shows(outbox, d, k) => k = l)
      /\ Shows(outbox, d, k) => ~Silent(outbox, d)
  BY <1>1, ShownOnce
<1>3. /\ Shows(output, d, l) => ~Silent(output, d) /\ (Shows(output, d, k) => k = l)
      /\ Shows(output, d, k) => ~Silent(output, d)
  BY <1>1, ShownOnce
<1> QED BY <1>2, <1>3 DEF WillShow, Showing

LEMMA ShowsBack ==
  ASSUME NEW S, NEW q \in Seq(S), NEW e, NEW d, NEW l
  PROVE  /\ Shows(Append(q, e), d, l) =>
              \/ e.type = "PublishDocument" /\ e.doc = d /\ e.lists = l
              \/ ~OfFrame(e, d) /\ Shows(q, d, l)
         /\ q # <<>> =>
              /\ Shows(Tail(q), d, l) => Shows(q, d, l)
              /\ /\ Head(q).type = "PublishDocument" /\ Head(q).doc = d
                 /\ Head(q).lists = l /\ Silent(Tail(q), d)
                 => Shows(q, d, l)
<1>1. ASSUME Shows(Append(q, e), d, l), ~(e.type = "PublishDocument" /\ e.doc = d /\ e.lists = l)
      PROVE  ~OfFrame(e, d) /\ Shows(q, d, l)
  <2>1. /\ DOMAIN Append(q, e) = 1..(Len(q) + 1) /\ DOMAIN q = 1..Len(q) /\ Len(q) \in Nat
        /\ \A i \in 1..(Len(q) + 1) : Append(q, e)[i] = IF i = Len(q) + 1 THEN e ELSE q[i]
    OBVIOUS
  <2>2. PICK i \in 1..(Len(q) + 1) :
          /\ Append(q, e)[i].type = "PublishDocument" /\ Append(q, e)[i].doc = d
          /\ Append(q, e)[i].lists = l
          /\ \A j \in 1..(Len(q) + 1) : i < j => ~OfFrame(Append(q, e)[j], d)
    BY <1>1, <2>1 DEF Shows
  <2>3. i # Len(q) + 1
    BY <1>1, <2>1, <2>2
  <2>4. i \in DOMAIN q /\ i < Len(q) + 1 /\ Append(q, e)[i] = q[i]
    BY <2>1, <2>2, <2>3
  <2>5. ~OfFrame(e, d)
    BY <2>1, <2>2, <2>4
  <2>6. \A j \in DOMAIN q : i < j => ~OfFrame(q[j], d)
    BY <2>1, <2>2
  <2> QED BY <2>2, <2>4, <2>5, <2>6 DEF Shows
<1>2. ASSUME q # <<>>, Shows(Tail(q), d, l) PROVE Shows(q, d, l)
  <2>1. /\ Len(q) \in Nat /\ DOMAIN q = 1..Len(q) /\ DOMAIN Tail(q) = 1..(Len(q) - 1)
        /\ \A i \in DOMAIN Tail(q) : Tail(q)[i] = q[i + 1]
    BY <1>2
  <2>2. PICK i \in DOMAIN Tail(q) :
          /\ Tail(q)[i].type = "PublishDocument" /\ Tail(q)[i].doc = d /\ Tail(q)[i].lists = l
          /\ \A j \in DOMAIN Tail(q) : i < j => ~OfFrame(Tail(q)[j], d)
    BY <1>2 DEF Shows
  <2>3. i + 1 \in DOMAIN q /\ q[i + 1] = Tail(q)[i]
    BY <2>1
  <2>4. ASSUME NEW j \in DOMAIN q, i + 1 < j PROVE ~OfFrame(q[j], d)
    <3>1. PICK x : x = j - 1
      OBVIOUS
    <3>2. x \in DOMAIN Tail(q) /\ i < x /\ x + 1 = j
      BY <2>1, <2>4, <3>1
    <3>3. Tail(q)[x] = q[j]
      BY <2>1, <3>2
    <3> QED BY <2>2, <3>2, <3>3
  <2> QED BY <2>2, <2>3, <2>4 DEF Shows
<1>3. ASSUME q # <<>>, Head(q).type = "PublishDocument", Head(q).doc = d,
             Head(q).lists = l, Silent(Tail(q), d)
      PROVE  Shows(q, d, l)
  <2>1. /\ Len(q) \in Nat /\ DOMAIN q = 1..Len(q) /\ DOMAIN Tail(q) = 1..(Len(q) - 1)
        /\ \A i \in DOMAIN Tail(q) : Tail(q)[i] = q[i + 1]
        /\ 1 \in DOMAIN q /\ Head(q) = q[1]
    BY <1>3
  <2>2. ASSUME NEW j \in DOMAIN q, 1 < j PROVE ~OfFrame(q[j], d)
    <3>1. PICK x : x = j - 1
      OBVIOUS
    <3>2. x \in DOMAIN Tail(q) /\ x + 1 = j
      BY <2>1, <2>2, <3>1
    <3>3. Tail(q)[x] = q[j]
      BY <2>1, <3>2
    <3> QED BY <1>3, <3>2, <3>3 DEF Silent, TxnsOf
  <2> QED BY <1>3, <2>1, <2>2 DEF Shows
<1> QED BY <1>1, <1>2, <1>3

LEMMA NotShown ==
  ASSUME NEW q, NEW d, NEW l, Silent(q, d)
  PROVE  ~Shows(q, d, l)
BY DEF Silent, Shows, OfFrame, TxnsOf

LEMMA ShownByOthers ==
  ASSUME TypeOK, HandshakeInv, [Next]_vars, ~Updating, NEW CONSTANT d \in Docs,
         NEW CONSTANT l, WillShow(d, l)'
  PROVE  WillShow(d, l)
<1>t. output \in Seq(ResultMsg) /\ outbox \in Seq(ResultMsg) /\ frame \in [Docs -> [Pipelines -> Nat]]
  BY DEF TypeOK, ChannelTypeOK, BackendTypeOK, RendererTypeOK
<1>p. \/ Shows(outbox', d, l)
      \/ /\ Silent(outbox', d)
         /\ \/ Shows(output', d, l)
            \/ Silent(output', d) /\ d \in active' /\ frame'[d] = l
  BY WillShowPrimed
<1>1. CASE UNCHANGED <<outbox, output, active, frame>>
  BY <1>p, <1>1 DEF WillShow, Showing
<1>2. CASE Publish
  <2>1. PICK e : e = Head(outbox)
    OBVIOUS
  <2>2. /\ outbox # <<>> /\ output' = Append(output, e) /\ outbox' = Tail(outbox)
        /\ UNCHANGED <<active, frame>>
    BY <1>2, <2>1 DEF Publish, rendererVars
  <2>3. /\ Silent(outbox, d) <=> ~OfFrame(e, d) /\ Silent(outbox', d)
        /\ Silent(output', d) <=> Silent(output, d) /\ ~OfFrame(e, d)
    BY <1>t, <2>1, <2>2, SilentTail, SilentAppend
  <2>4. /\ Shows(outbox', d, l) => Shows(outbox, d, l)
        /\ e.type = "PublishDocument" /\ e.doc = d /\ e.lists = l /\ Silent(outbox', d)
             => Shows(outbox, d, l)
    BY <1>t, <2>1, <2>2, ShowsBack
  <2>5. Shows(output', d, l) =>
          \/ e.type = "PublishDocument" /\ e.doc = d /\ e.lists = l
          \/ ~OfFrame(e, d) /\ Shows(output, d, l)
    BY <1>t, <2>2, ShowsBack
  <2> QED BY <1>p, <2>2, <2>3, <2>4, <2>5 DEF WillShow, Showing
<1>3. CASE Draws
  <2>1. PICK m : m = Head(output)
    OBVIOUS
  <2>2. output # <<>> /\ output' = Tail(output) /\ outbox' = outbox
    BY <1>3 DEF Draws, UpdatePipelineInfo, UpdateDocumentFrame, UpdateNotifications,
         UpdateResources, Updates, backendVars
  <2>3. Silent(output, d) <=> ~OfFrame(m, d) /\ Silent(output', d)
    BY <1>t, <2>1, <2>2, SilentTail
  <2>4. /\ Shows(output', d, l) => Shows(output, d, l)
        /\ m.type = "PublishDocument" /\ m.doc = d /\ m.lists = l /\ Silent(output', d)
             => Shows(output, d, l)
    BY <1>t, <2>1, <2>2, ShowsBack
  <2>5. d \in active' /\ frame'[d] = l =>
          \/ m.type = "PublishDocument" /\ m.doc = d /\ m.lists = l
          \/ ~OfFrame(m, d) /\ d \in active /\ frame[d] = l
    <3>1. CASE UpdateDocumentFrame
      <4>1. /\ m.type = "PublishDocument" /\ active' = active \cup {m.doc}
            /\ frame' = [frame EXCEPT ![m.doc] = m.lists]
        BY <2>1, <3>1 DEF UpdateDocumentFrame, Updates
      <4> QED BY <1>t, <4>1 DEF OfFrame
    <3>2. CASE UpdateResources
      BY <3>2 DEF UpdateResources
    <3>3. CASE UpdatePipelineInfo \/ UpdateNotifications
      <4>1. m.type \in {"PublishPipelineInfo", "AppendNotificationRequests"}
        BY <2>1, <3>3 DEF UpdatePipelineInfo, UpdateNotifications, Updates
      <4>2. active' = active /\ frame' = frame
        BY <3>3 DEF UpdatePipelineInfo, UpdateNotifications
      <4> QED BY <4>1, <4>2 DEF OfFrame
    <3> QED BY <1>3, <3>1, <3>2, <3>3 DEF Draws
  <2> QED BY <1>p, <2>2, <2>3, <2>4, <2>5 DEF WillShow, Showing
<1>4. CASE Settle
  <2>1. PICK late \in SUBSET RequestsOf(Head(work).txn) :
          \/ output' = output
          \/ output' = Append(output, [type |-> "AppendNotificationRequests",
                                        requests |-> late])
    BY <1>4, SettleHands
  <2>2. UNCHANGED <<outbox, active, frame>>
    BY <1>4 DEF Settle, rendererVars
  <2>3. PICK e : e = [type |-> "AppendNotificationRequests", requests |-> late]
    OBVIOUS
  <2>4. ~OfFrame(e, d) /\ e.type # "PublishDocument"
    BY <2>3 DEF OfFrame
  <2>5. CASE output' = Append(output, e)
    <3>1. /\ Shows(output', d, l) => Shows(output, d, l)
          /\ Silent(output', d) => Silent(output, d)
      BY <1>t, <2>4, <2>5, ShowsBack, SilentAppend
    <3> QED BY <1>p, <2>2, <3>1 DEF WillShow, Showing
  <2> QED BY <1>1, <2>1, <2>2, <2>3, <2>5
<1>5. CASE ReceiveMemoryPressure
  <2>1. PICK e : e = [type |-> "UpdateResources"]
    OBVIOUS
  <2>2. output' = Append(output, e) /\ outbox' = <<>>
    BY <1>5, <2>1 DEF ReceiveMemoryPressure, Receives, At
  <2>3. OfFrame(e, d) /\ e.type # "PublishDocument"
    BY <2>1 DEF OfFrame
  <2>4. ~Silent(output', d) /\ ~Shows(output', d, l)
    BY <1>t, <2>2, <2>3, ShowsBack, SilentAppend
  <2> QED BY <1>p, <2>2, <2>4, NothingShown
<1>6. CASE \/ Idle \/ Builder \/ PollTransactions \/ PollClearNamespace \/ Stopped
           \/ SkipTransaction \/ SwapAndWait \/ NewFrameReady
           \/ ReceiveForSceneBuilder \/ ReceiveForBackend
           \/ ReceiveAddDocument \/ ReceiveDeleteDocument
  <2>1. UNCHANGED <<outbox, output, active, frame>>
    BY <1>6 DEF Idle, Builder, BuildTransactions, BuilderFlush, BuilderClearNamespace,
         BuilderStop, PollFlushComplete, Discard, PollTransactions, PollClearNamespace, Stopped,
         SkipTransaction, SwapAndWait, NewFrameReady, ReceiveForSceneBuilder,
         ReceiveForBackend, ReceiveAddDocument, ReceiveDeleteDocument, backendVars, rendererVars
  <2> QED BY <1>1, <2>1
<1> QED BY <1>2, <1>3, <1>4, <1>5, <1>6, FrameSteps DEF Updating

LEMMA ShownByUpdate ==
  ASSUME TypeOK, TypeOK', NEW CONSTANT d \in Docs, NEW CONSTANT l, NEW CONSTANT old, NEW CONSTANT t,
         UpdatesFrom(old, t), WillShow(d, l)'
  PROVE  \/ WillShow(d, l) /\ (~BuildsFrame(old, t, required) \/ d # t.doc)
         \/ BuildsFrame(old, t, required) /\ d = t.doc /\ l = ApplyFrameOps(old, t).scene.lists
<1>u. outbox = <<>> /\ outbox' = Published(old, t) /\ UNCHANGED <<output, active, frame>>
  BY DEF UpdatesFrom
<1>p. \/ Shows(outbox', d, l)
      \/ /\ Silent(outbox', d)
         /\ \/ Shows(output', d, l)
            \/ Silent(output', d) /\ d \in active' /\ frame'[d] = l
  BY WillShowPrimed
<1>1. CASE ~BuildsFrame(old, t, required) \/ d # t.doc
  <2>1. Silent(outbox', d)
    BY <1>u, <1>1, PublishedFrame
  <2>2. ~Shows(outbox', d, l)
    BY <2>1, NotShown
  <2>3. Showing(d, l)
    BY <1>p, <1>u, <2>2 DEF Showing
  <2> QED BY <1>u, <1>1, <2>3, NothingShown DEF WillShow
<1>2. CASE BuildsFrame(old, t, required) /\ d = t.doc
  <2>1. PICK k : k = ApplyFrameOps(old, t).scene.lists
    OBVIOUS
  <2>2. Shows(outbox', d, k)
    BY <1>u, <1>2, <2>1, PublishedFrame
  <2>3. DOMAIN outbox' \subseteq Int
    <3>1. outbox' \in Seq(ResultMsg)
      BY DEF TypeOK, BackendTypeOK
    <3> QED BY <3>1
  <2>4. ~Silent(outbox', d) /\ (Shows(outbox', d, l) => l = k)
    BY <2>2, <2>3, ShownOnce
  <2> QED BY <1>2, <1>p, <2>1, <2>4
<1> QED BY <1>1, <1>2

-----------------------------------------------------------------------------
(* No epoch at the renderer's end is of a message not yet sent, and the    *)
(* document whose update waits for the hook is there.                      *)
EpochsKnown ==
  \A d \in Docs, p \in Pipelines : \A e \in Nat : Epoch(d, p, e) => e <= sends

WorkAlive == rbPc = "resume" => Head(work).txn.doc \in alive

LEMMA EpochsKnownStep ==
  ASSUME Ready, OneWay, FrameInv, ScenesOK, DocsOK, EpochsKnown, [Next]_vars, RemovalsKept'
  PROVE  EpochsKnown'
<1> SUFFICES ASSUME NEW CONSTANT d \in Docs, NEW CONSTANT p \in Pipelines,
                    NEW CONSTANT e \in Nat, Epoch(d, p, e)'
             PROVE  e <= sends'
  BY DEF EpochsKnown
<1>r. /\ TypeOK /\ HandshakeInv /\ ScenesRender /\ \A x \in Docs : FrameOwner(x)
  BY DEF Ready, FrameInv
<1>s. sends \in Nat /\ sends' \in Nat /\ sends <= sends'
  BY BatchesKept DEF Ready, LineInv
<1>1. CASE Epoch(d, p, e)
  <2>1. e <= sends
    BY <1>1 DEF EpochsKnown
  <2> QED BY <1>s, <2>1
<1>2. CASE e = docs'[d].scene.epochs[p] /\ \E old, t : Publishes(d, old, t)
  <2>1. Runs'
    BY <1>2 DEF Publishes, UpdatesIt, NopDocument, UpdateTransaction, ResumeAndUpdate,
         UpdateHead, At, Runs
  <2>2. DocsOK'
    BY DocsStep
  <2>3. AllApplied(d, p, docs[d].scene.epochs[p])'
    BY <2>1, <2>2 DEF DocsOK
  <2> QED BY <1>2, <2>3 DEF AllApplied
<1> QED BY <1>r, <1>1, <1>2, EpochBy

LEMMA WorkAliveStep ==
  ASSUME TypeOK, HandshakeInv, WorkAlive, [Next]_vars
  PROVE  WorkAlive'
<1> SUFFICES ASSUME rbPc' = "resume" PROVE Head(work').txn.doc \in alive'
  BY DEF WorkAlive
<1>1. work' = work /\ (rbPc = "resume" \/ SwapAndWait \/ UpdateTransaction)
  BY StillHead
<1>2. CASE rbPc = "resume"
  <2>1. PICK d \in Docs : d = Head(work).txn.doc
    BY <1>2, WorkOf DEF HandshakeInv, Working, TypeOK, BackendTypeOK
  <2>2. d \in alive
    BY <1>2, <2>1 DEF WorkAlive
  <2>3. ~ReceiveDeleteDocument /\ ~PollClearNamespace /\ ~Stopped
    BY <1>2 DEF ReceiveDeleteDocument, Receives, PollClearNamespace, Stopped, At
  <2> QED BY <1>1, <2>1, <2>2, <2>3, AliveMove
<1>3. CASE SwapAndWait
  BY <1>1, <1>3 DEF SwapAndWait
<1>4. CASE UpdateTransaction
  BY <1>4 DEF UpdateTransaction, UpdateHead
<1> QED BY <1>1, <1>2, <1>3, <1>4

(* A document that is rendered or shown has been added, and while it is    *)
(* there it can be rendered.                                               *)
Known(d) == life[d] # "new" /\ ~Has(ApiLine, Addition(d))

Lists == [Pipelines -> Nat]

ShownKnown ==
  \A d \in Docs :
    /\ CanRender(docs[d]) => Known(d)
    /\ \A l \in Lists : WillShow(d, l) => Known(d) /\ (d \in alive => CanRender(docs[d]))

LEMMA KnownStays ==
  ASSUME TypeOK, NumbersOK, [Next]_vars, NEW CONSTANT d \in Docs, Known(d)
  PROVE  Known(d)'
<1>l. LineTypeOK
  BY LineTypes DEF TypeOK
<1>x. PICK y : y = Addition(d)
  OBVIOUS
<1>p. Known(d)' <=> life'[d] # "new" /\ ~Has(ApiLine', y)
  BY <1>x DEF Known, Addition
<1>1. life[d] # "new" /\ ~Has(ApiLine, y)
  BY <1>x DEF Known
<1>2. CASE ~(\E m \in Menu : Send(m)) /\ ~(\E c \in Clients : Flush(c))
  <2>1. life' = life
    BY <1>2, NotSent
  <2>2. Has(ApiLine', y) => Has(ApiLine, y)
    BY <1>2, ApiGains
  <2> QED BY <1>p, <1>1, <2>1, <2>2
<1>3. CASE \E w : /\ Arrived(w) /\ (life'[d] = "new" => life[d] = "new")
                  /\ Addition(d) \in w => life[d] = "new"
  <2>1. PICK w : /\ Arrived(w) /\ (life'[d] = "new" => life[d] = "new")
                 /\ y \in w => life[d] = "new"
    BY <1>x, <1>3
  <2>2. Has(ApiLine', y) => Has(ApiLine, y) \/ y \in w
    BY <1>l, <2>1, HasAppend DEF LineTypeOK, Arrived
  <2> QED BY <1>p, <1>1, <2>1, <2>2
<1>4. \/ ~(\E m \in Menu : Send(m)) /\ ~(\E c \in Clients : Flush(c))
      \/ \E w : /\ Arrived(w) /\ (life'[d] = "new" => life[d] = "new")
                /\ Addition(d) \in w => life[d] = "new"
  BY SentLine
<1> QED BY <1>2, <1>3, <1>4

LEMMA KnownIsThere ==
  ASSUME TypeOK, [Next]_vars, NEW CONSTANT d \in Docs, Known(d), d \in alive'
  PROVE  d \in alive
<1> SUFFICES ASSUME ReceiveAddDocument, Head(api).doc = d PROVE FALSE
  BY AliveGains
<1>1. LineTypeOK
  BY LineTypes DEF TypeOK
<1>2. api # <<>> /\ Head(api).type = "AddDocument"
  BY DEF ReceiveAddDocument, Receives
<1>3. Addition(d) \in MarksOf(Head(api))
  BY <1>2 DEF MarksOf, Addition
<1>4. ApiLine # <<>> /\ Head(ApiLine) = MarksOf(Head(api))
  <2>1. api \in Seq(ApiMsg)
    BY DEF TypeOK, ChannelTypeOK
  <2>2. /\ DOMAIN ApiLine = DOMAIN api /\ 1 \in DOMAIN api /\ Head(api) = api[1]
    BY <1>2, <2>1 DEF ApiLine, Marked
  <2>3. ApiLine[1] = MarksOf(api[1])
    BY <2>2 DEF ApiLine, Marked
  <2> QED BY <1>1, <2>2, <2>3 DEF LineTypeOK
<1>5. Has(ApiLine, Addition(d))
  BY <1>1, <1>3, <1>4, HasTail DEF LineTypeOK
<1> QED BY <1>5 DEF Known

LEMMA ShownKnownPrimed ==
  ASSUME NEW CONSTANT d
  PROVE  CanRender(docs[d])' <=> CanRender(docs'[d])
BY DEF CanRender, HasRootPipeline

LEMMA ShownKnownStep ==
  ASSUME Ready, FrameInv, BegunAdded, ShownKnown, [Next]_vars
  PROVE  ShownKnown'
<1>r. /\ TypeOK /\ HandshakeInv /\ LineInv /\ NumbersOK /\ ScenesRender
      /\ \A x \in Docs : FrameOwner(x)
  BY DEF Ready, FrameInv, LineInv
<1>t. TypeOK'
  BY <1>r, TypeStep
<1> SUFFICES ASSUME NEW CONSTANT d \in Docs
             PROVE  /\ CanRender(docs'[d]) => Known(d)'
                    /\ \A l \in Lists : WillShow(d, l)' =>
                         Known(d)' /\ (d \in alive' => CanRender(docs'[d]))
  BY ShownKnownPrimed DEF ShownKnown, Lists
<1>k. Known(d) => Known(d)'
  BY <1>r, KnownStays
<1>s. /\ CanRender(docs'[d]) => CanRender(docs[d]) \/ TakesScene(d)
      /\ CanRender(docs[d]) => CanRender(docs'[d]) \/ d \notin alive'
  BY <1>r, SceneBy, NewIsBlank DEF SceneStep
<1>1. CanRender(docs'[d]) => Known(d)'
  <2>1. CASE CanRender(docs[d])
    BY <1>k, <2>1 DEF ShownKnown
  <2>2. CASE TakesScene(d)
    <3>1. InTxns(work, d)
      BY <1>r, <2>2, HeadRenders DEF TakesScene, InTxns
    <3>2. Begun(d)
      BY <3>1 DEF Begun
    <3> QED BY <1>k, <3>2 DEF BegunAdded, Known
  <2> QED BY <1>s, <2>1, <2>2
<1>2. ASSUME NEW CONSTANT l \in Lists, WillShow(d, l)
      PROVE  Known(d)' /\ (d \in alive' => CanRender(docs'[d]))
  <2>1. Known(d) /\ (d \in alive => CanRender(docs[d]))
    BY <1>2 DEF ShownKnown
  <2>2. d \in alive' => d \in alive
    BY <1>r, <2>1, KnownIsThere
  <2> QED BY <1>k, <1>s, <2>1, <2>2
<1>3. ASSUME NEW CONSTANT l \in Lists, WillShow(d, l)'
      PROVE  Known(d)' /\ (d \in alive' => CanRender(docs'[d]))
  <2>1. CASE ~Updating
    BY <1>r, <1>2, <1>3, <2>1, ShownByOthers
  <2>2. CASE Updating
    <3>1. CASE \E old, t : UpdatedBy(d, old, t)
      <4>1. PICK old, t : UpdatedBy(d, old, t)
        BY <3>1
      <4>2. /\ UpdatesFrom(old, t) /\ t.doc = d /\ t \in Transaction /\ old \in Document
            /\ required \in BOOLEAN /\ docs \in [Docs -> Document]
        BY <1>r, <4>1 DEF UpdatedBy, TypeOK, BackendTypeOK
      <4>3. CASE WillShow(d, l)
        BY <1>2, <4>3
      <4>4. CASE BuildsFrame(old, t, required)
        <5>1. docs'[d] = UpdatedDocument(old, t, required)
          BY <4>2 DEF UpdatesFrom
        <5>2. CanRender(docs'[d])
          BY <4>2, <4>4, <5>1, UpdateMeans
        <5> QED BY <1>1, <5>2
      <4> QED BY <1>r, <1>t, <1>3, <4>2, <4>3, <4>4, ShownByUpdate
    <3>2. CASE \E old, t : UpdatesFrom(old, t) /\ t.doc # d
      <4>1. PICK old, t : UpdatesFrom(old, t) /\ t.doc # d
        BY <3>2
      <4>2. WillShow(d, l)
        BY <1>r, <1>t, <1>3, <4>1, ShownByUpdate
      <4> QED BY <1>2, <4>2
    <3> QED BY <1>r, <2>2, <3>1, <3>2, UpdatedBySome DEF Updating
  <2> QED BY <2>1, <2>2
<1> QED BY <1>1, <1>3

(* A document has pixels until its view is made empty.                     *)
Excused(d) == \E e \in sent : e.doc = d /\ e.view = "empty"

PixelsKnown == \A d \in Docs : docs[d].pixels \/ Excused(d)

LEMMA ViewedPixels ==
  ASSUME TypeOK, BatchesWhole, ReceiveForSceneBuilder \/ ReceiveForBackend,
         NEW CONSTANT d \in Docs, docs[d].pixels
  PROVE  docs'[d].pixels \/ Excused(d)
<1>1. PICK txns : txns = Head(api).txns
  OBVIOUS
<1>2. /\ txns \in Seq(Transaction) /\ docs' = Viewed(txns) /\ docs[d] \in Document
      /\ \E n \in 1..sends : IsBatchOf(txns, n)
  <2>1. api \in Seq(ApiMsg) /\ api # <<>> /\ Head(api).type = "UpdateDocuments"
    BY DEF TypeOK, ChannelTypeOK, ReceiveForSceneBuilder, ReceiveForBackend, Receives
  <2>2. docs' = Viewed(txns)
    BY <1>1 DEF ReceiveForSceneBuilder, ReceiveForBackend
  <2>3. Head(api) \in TxnsOf(api)
    BY <2>1, MembersTail
  <2> QED BY <1>1, <2>1, <2>2, <2>3, MessageOf DEF BatchesWhole, TypeOK, BackendTypeOK
<1>3. CASE \E t \in TxnsOf(txns) : t.doc = d
  <2>1. PICK t : t = CHOOSE x \in TxnsOf(txns) : x.doc = d
    OBVIOUS
  <2>2. t \in TxnsOf(txns) /\ t.doc = d
    BY <1>3, <2>1
  <2>3. docs'[d] = EditView(docs[d], t)
    BY <1>2, <1>3, <2>1 DEF Viewed
  <2>4. t \in sent /\ t \in Transaction
    BY <1>2, <2>2, BatchType DEF IsBatchOf, Batch
  <2>5. t.view = "empty" \/ docs'[d].pixels
    BY <1>2, <2>3, <2>4 DEF EditView, Document, Transaction
  <2> QED BY <2>2, <2>4, <2>5 DEF Excused
<1>4. CASE ~ \E t \in TxnsOf(txns) : t.doc = d
  BY <1>2, <1>4 DEF Viewed
<1> QED BY <1>3, <1>4

LEMMA PixelsBy ==
  ASSUME TypeOK, HandshakeInv, ScenesRender, BatchesWhole, [Next]_vars,
         NEW CONSTANT d \in Docs, docs[d].pixels
  PROVE  docs'[d].pixels \/ Excused(d)
<1>d. docs \in [Docs -> Document] /\ required \in BOOLEAN
  BY DEF TypeOK, BackendTypeOK
<1>1. CASE SwapAndWait
  <2>1. work # <<>> /\ docs' = [docs EXCEPT ![Head(work).txn.doc] = Swapped]
    BY <1>1 DEF SwapAndWait, Swapped
  <2> QED BY <1>d, <2>1, SwappedScene
<1>2. CASE UpdateTransaction \/ ResumeAndUpdate
  <2>1. PICK old, t : /\ work # <<>> /\ UpdatesFrom(old, t) /\ t = Head(work).txn
                      /\ old = IF UpdateTransaction THEN Swapped ELSE docs[Head(work).txn.doc]
    BY <1>2, UpdatingSteps
  <2>2. t \in Transaction /\ t.doc \in Docs /\ docs[t.doc] \in Document
    BY <1>d, <2>1, HeadRenders
  <2>3. old \in Document /\ old.pixels = docs[t.doc].pixels
    BY <2>1, <2>2, SwappedScene
  <2>4. docs' = [docs EXCEPT ![t.doc] = UpdatedDocument(old, t, required)]
    BY <2>1 DEF UpdatesFrom
  <2> QED BY <1>d, <2>2, <2>3, <2>4, UpdatedScene
<1>3. CASE \E e \in Docs : NopDocument(e)
  <2>1. PICK e \in Docs : NopDocument(e)
    BY <1>3
  <2>2. PICK old, t : /\ UpdatesFrom(old, t) /\ t \in Transaction /\ t.doc = e
                      /\ old \in Document /\ old = docs[e]
    BY <2>1, UpdatingSteps
  <2>3. docs' = [docs EXCEPT ![e] = UpdatedDocument(old, t, required)]
    BY <2>2 DEF UpdatesFrom
  <2> QED BY <1>d, <2>2, <2>3, UpdatedScene
<1>4. CASE PollClearNamespace \/ Stopped
  <2>1. docs'[d] = IF d \in alive' THEN docs[d] ELSE NewDocument
    BY <1>4 DEF PollClearNamespace, Stopped
  <2> QED BY <2>1 DEF NewDocument
<1>5. CASE ReceiveForSceneBuilder \/ ReceiveForBackend
  BY <1>5, ViewedPixels
<1>6. CASE ReceiveDeleteDocument
  <2>1. docs' = [docs EXCEPT ![Head(api).doc] = NewDocument]
    BY <1>6 DEF ReceiveDeleteDocument
  <2> QED BY <1>d, <2>1 DEF NewDocument
<1>7. CASE \/ Idle \/ Publish \/ Draws \/ Builder \/ PollTransactions
           \/ SkipTransaction \/ Settle \/ NewFrameReady
           \/ ReceiveAddDocument \/ ReceiveMemoryPressure
  <2>1. docs' = docs
    BY <1>7 DEF Idle, Publish, Draws, UpdatePipelineInfo, UpdateDocumentFrame,
       UpdateNotifications, UpdateResources, Builder, BuildTransactions, BuilderFlush,
       BuilderClearNamespace, BuilderStop, PollFlushComplete, Discard, PollTransactions,
       SkipTransaction, Settle, NewFrameReady, ReceiveAddDocument, ReceiveMemoryPressure,
       backendVars
  <2> QED BY <2>1
<1> QED BY <1>1, <1>2, <1>3, <1>4, <1>5, <1>6, <1>7, FrameSteps

LEMMA PixelsKnownStep ==
  ASSUME Ready, FrameInv, PixelsKnown, [Next]_vars
  PROVE  PixelsKnown' /\ \A d \in Docs : Excused(d) => Excused(d)'
<1>1. sent \subseteq sent'
  BY BatchesKept DEF Ready, LineInv
<1>2. \A d \in Docs : Excused(d) => Excused(d)'
  BY <1>1 DEF Excused
<1>3. ASSUME NEW CONSTANT d \in Docs PROVE docs'[d].pixels \/ Excused(d)'
  <2>1. docs[d].pixels => docs'[d].pixels \/ Excused(d)
    BY PixelsBy DEF Ready, LineInv, FrameInv
  <2> QED BY <1>2, <2>1 DEF PixelsKnown
<1> QED BY <1>2, <1>3 DEF PixelsKnown

(* What the renderer shows of a document with pixels has every display     *)
(* list up to every epoch it was told of, unless the pipeline's removal is *)
(* at the renderer's end.                                                  *)
ReportSent(d, p) ==
  <<d, p>> \in removed \/ InfoWith(outbox, d, p) \/ InfoWith(output, d, p)

ShownHas(d, l) ==
  \A p \in Pipelines : ReportSent(d, p) \/ \A e \in Nat : Epoch(d, p, e) => HasAll(d, p, l[p], e)

EpochsShow ==
  \A d \in Docs : ~Excused(d) => \A l \in Lists : WillShow(d, l) => ShownHas(d, l)

(* Everything the proof of a step needs to know of the state before it.    *)
Told == /\ Ready /\ OneWay /\ FrameInv /\ ScenesOK /\ DocsOK /\ EpochsKnown /\ WorkAlive
        /\ BegunAdded /\ ShownKnown /\ PixelsKnown

LEMMA ShownHasPrimed ==
  ASSUME NEW CONSTANT d, NEW CONSTANT l
  PROVE  ShownHas(d, l)' <=>
           \A p \in Pipelines :
             \/ <<d, p>> \in removed' \/ InfoWith(outbox', d, p) \/ InfoWith(output', d, p)
             \/ \A e \in Nat : Epoch(d, p, e)' => HasAll(d, p, l[p], e)'
BY DEF ShownHas, ReportSent, InfoWith

(* A frame that is asked for and not built is the one there is.            *)
LEMMA KeepsFrame ==
  ASSUME NEW old \in Document, NEW t \in Transaction, NEW r \in BOOLEAN, CanRender(old),
         old.pixels, t.generate, ~BuildsFrame(old, t, r)
  PROVE  old.frameValid /\ ~r
<1>1. ~r
  BY UpdateMeans
<1>2. PICK d : d = ApplyFrameOps(old, t)
  OBVIOUS
<1>3. d \in Document /\ d.pixels = old.pixels /\ (d.frameValid => old.frameValid)
  <2>1. ApplyFrameOps(old, t).pixels = old.pixels
    BY DEF ApplyFrameOps, Document
  <2>2. ApplyFrameOps(old, t).frameValid => old.frameValid
    BY DEF ApplyFrameOps, Document, Scene
  <2> QED BY <1>2, <2>1, <2>2, FrameOpsType
<1>4. CanRender(d)
  <2>1. PICK s \in Scene : old.scene = s
    BY DEF Document
  <2>2. d.scene.lists = s.lists /\ d.scene.root = s.root
    BY <1>2, <2>1 DEF ApplyFrameOps, Document, Scene
  <2> QED BY <2>1, <2>2 DEF CanRender, HasRootPipeline
<1> QED BY <1>1, <1>2, <1>3, <1>4 DEF BuildsFrame

LEMMA ShownAtUpdate ==
  ASSUME Told, [Next]_vars, PixelsKnown', NEW CONSTANT d \in Docs, ~Excused(d)',
         \E old, t : Publishes(d, old, t), NEW CONSTANT l \in Lists, WillShow(d, l)'
  PROVE  /\ Runs' /\ d \in alive' /\ CanRender(docs'[d])
         /\ docs'[d].removed = {} /\ docs'[d].scene.lists = l
<1>r. /\ TypeOK /\ HandshakeInv /\ ScenesRender /\ docs \in [Docs -> Document]
      /\ required \in BOOLEAN
  BY DEF Told, Ready, FrameInv, TypeOK, BackendTypeOK
<1>t. TypeOK'
  BY <1>r, TypeStep
<1>1. PICK old, t : Publishes(d, old, t)
  OBVIOUS
<1>2. /\ t.doc = d /\ t \in Transaction /\ old \in Document /\ UpdatesFrom(old, t)
      /\ old.frameValid => docs[d].frameValid /\ old.scene = docs[d].scene
      /\ CanRender(old) => d \in alive
      /\ t.generate => (UpdateTransaction \/ ResumeAndUpdate) /\ Head(work).txn.doc = d
      /\ PublishesInfo(old, t, required)
  BY <1>1 DEF Publishes, UpdatedBy
<1>3. Runs'
  BY <1>1 DEF Publishes, UpdatesIt, NopDocument, UpdateTransaction, ResumeAndUpdate,
       UpdateHead, At, Runs
<1>4. docs'[d] = UpdatedDocument(old, t, required) /\ alive' = alive
  BY <1>r, <1>2 DEF UpdatesFrom
<1>5. /\ docs'[d].removed = {} /\ docs'[d].scene.lists = old.scene.lists
      /\ CanRender(docs'[d]) <=> CanRender(old)
      /\ docs'[d].pixels = old.pixels
      /\ ApplyFrameOps(old, t).scene.lists = old.scene.lists
      /\ BuildsFrame(old, t, required) => CanRender(old)
  BY <1>r, <1>2, <1>4, UpdateMeans, UpdatedScene
<1>6. CASE BuildsFrame(old, t, required)
  <2>1. l = ApplyFrameOps(old, t).scene.lists
    BY <1>r, <1>t, <1>2, <1>6, ShownByUpdate
  <2> QED BY <1>2, <1>3, <1>4, <1>5, <1>6, <2>1
<1>7. CASE ~BuildsFrame(old, t, required)
  <2>1. WillShow(d, l)
    BY <1>r, <1>t, <1>2, <1>7, ShownByUpdate
  <2>2. t.generate
    BY <1>2, <1>7 DEF PublishesInfo
  <2>3. d \in alive
    BY <1>2, <2>2 DEF UpdateTransaction, ResumeAndUpdate, At, Told, WorkAlive
  <2>4. CanRender(docs[d])
    BY <2>1, <2>3 DEF Told, ShownKnown
  <2>5. CanRender(docs'[d])
    BY <1>r, <1>4, <2>3, <2>4, SceneBy DEF SceneStep
  <2>6. old.pixels
    BY <1>5 DEF PixelsKnown
  <2>7. old.frameValid /\ ~required
    BY <1>r, <1>2, <1>5, <1>7, <2>2, <2>5, <2>6, KeepsFrame
  <2>8. PICK k : k = docs[d].scene.lists
    OBVIOUS
  <2>9. WillShow(d, k)
    BY <1>2, <2>3, <2>7, <2>8 DEF Told, FrameInv, Owed
  <2>10. k = l
    BY <1>r, <2>1, <2>9, ShownAlone
  <2> QED BY <1>2, <1>3, <1>4, <1>5, <2>3, <2>5, <2>7, <2>8, <2>10
<1> QED BY <1>6, <1>7

LEMMA ShownBefore ==
  ASSUME Told, [Next]_vars, NEW CONSTANT d \in Docs, ~ \E old, t : Publishes(d, old, t),
         NEW CONSTANT l \in Lists, WillShow(d, l)'
  PROVE  WillShow(d, l)
<1>r. /\ TypeOK /\ HandshakeInv /\ ScenesRender /\ \A x \in Docs : FrameOwner(x)
  BY DEF Told, Ready, FrameInv
<1>t. TypeOK'
  BY <1>r, TypeStep
<1>1. CASE ~Updating
  BY <1>r, <1>1, ShownByOthers
<1>2. CASE Updating
  <2>1. CASE UpdatesIt(d) /\ \E old, t : UpdatedBy(d, old, t)
    <3>1. PICK old, t : UpdatedBy(d, old, t)
      BY <2>1
    <3>2. ~BuildsFrame(old, t, required)
      BY <2>1, <3>1 DEF Publishes, PublishesInfo
    <3>3. UpdatesFrom(old, t)
      BY <3>1 DEF UpdatedBy
    <3> QED BY <1>r, <1>t, <3>2, <3>3, ShownByUpdate
  <2>2. CASE \E old, t : UpdatesFrom(old, t) /\ t.doc # d
    <3>1. PICK old, t : UpdatesFrom(old, t) /\ t.doc # d
      BY <2>2
    <3> QED BY <1>r, <1>t, <3>1, ShownByUpdate
  <2> QED BY <1>r, <1>2, <2>1, <2>2, UpdatedBySome DEF Updating
<1> QED BY <1>1, <1>2

LEMMA EpochsShowStep ==
  ASSUME Told, EpochsShow, [Next]_vars, DocsOK', PixelsKnown'
  PROVE  EpochsShow'
<1> SUFFICES ASSUME NEW CONSTANT d \in Docs, ~Excused(d)', NEW CONSTANT l \in Lists, WillShow(d, l)'
             PROVE  ShownHas(d, l)'
  BY DEF EpochsShow, Lists
<1>r. /\ Ready /\ TypeOK /\ HandshakeInv /\ ScenesRender /\ \A x \in Docs : FrameOwner(x)
  BY DEF Told, Ready, FrameInv
<1>1. CASE \E old, t : Publishes(d, old, t)
  <2>1. /\ Runs' /\ d \in alive' /\ CanRender(docs'[d])
        /\ docs'[d].removed = {} /\ docs'[d].scene.lists = l
    BY <1>1, ShownAtUpdate
  <2>2. /\ DocHas(d)'
        /\ \A p \in Pipelines : \A e \in Nat : Epoch(d, p, e)' => AllApplied(d, p, e)'
    BY <2>1 DEF DocsOK
  <2>3. ASSUME NEW CONSTANT p \in Pipelines,
               ~(<<d, p>> \in removed' \/ InfoWith(outbox', d, p) \/ InfoWith(output', d, p)),
               NEW CONSTANT e \in Nat, Epoch(d, p, e)'
        PROVE  HasAll(d, p, l[p], e)'
    <3>1. ~Reported(d, p)'
      BY <2>1, <2>3, InfoPrimed
    <3>2. ASSUME NEW CONSTANT t, t \in sent', t.doc = d, p \in t.display, t.id <= e
          PROVE  t.id <= l[p]
      <4>1. Applied(t.id, d)'
        BY <2>2, <2>3, <3>2, EpochPrimed
      <4>2. Held(d, p, t)'
        BY <2>1, <2>2, <3>2, <4>1, DocHasPrimed
      <4> QED BY <2>1, <3>1, <4>2, DocHasPrimed
    <3> QED BY <3>2 DEF HasAll
  <2> QED BY <2>3, ShownHasPrimed
<1>2. CASE ~ \E old, t : Publishes(d, old, t)
  <2>1. WillShow(d, l)
    BY <1>2, ShownBefore
  <2>2. ~Excused(d)
    <3>1. sent \subseteq sent'
      BY <1>r, BatchesKept DEF Ready, LineInv
    <3> QED BY <3>1 DEF Excused
  <2>3. ShownHas(d, l)
    BY <2>1, <2>2 DEF EpochsShow
  <2>4. ASSUME NEW CONSTANT p \in Pipelines, ReportSent(d, p)
        PROVE  <<d, p>> \in removed' \/ InfoWith(outbox', d, p) \/ InfoWith(output', d, p)
    BY <1>r, <2>4, SentReports DEF ReportSent
  <2>5. ASSUME NEW CONSTANT p \in Pipelines, ~ReportSent(d, p),
               NEW CONSTANT e \in Nat, Epoch(d, p, e)'
        PROVE  HasAll(d, p, l[p], e)'
    <3>1. Epoch(d, p, e)
      BY <1>r, <1>2, <2>5, EpochBy
    <3>2. HasAll(d, p, l[p], e) /\ e <= sends
      BY <2>3, <2>5, <3>1 DEF ShownHas, Told, EpochsKnown
    <3>3. PICK k : k = l[p]
      OBVIOUS
    <3> QED BY <1>r, <3>2, KnownKept
  <2> QED BY <2>4, <2>5, ShownHasPrimed
<1> QED BY <1>1, <1>2

-----------------------------------------------------------------------------
(* The invariant that carries PublishedEpochsShown.                        *)
EpochInv ==
  /\ FrameInv /\ NotifyInv /\ BegunAdded /\ RemovalsKept   \* what other theorems rest on
  /\ FromMenu                        \* what is sent
  /\ BuilderInv /\ ScenesOK /\ DocsOK   \* the lists on their way
  /\ WorkAlive /\ ShownKnown /\ PixelsKnown
  /\ EpochsKnown /\ EpochsShow       \* and at the renderer's end

LEMMA EpochStart == Init => EpochInv
<1> SUFFICES ASSUME Init PROVE EpochInv
  OBVIOUS
<1>1. FrameInv /\ NotifyInv
  BY FrameStart, NotifyStart
<1>2. BegunAdded /\ RemovalsKept /\ FromMenu /\ WorkAlive /\ PixelsKnown
  BY DEF Init, BegunAdded, Begun, InTxns, RemovalsKept, TxnsOf, FromMenu, WorkAlive,
       PixelsKnown, NewDocument
<1>3. Scenes = {}
  BY DEF Init, Scenes, TxnsOf
<1>4. /\ \A d \in Docs : docs[d] = NewDocument /\ sbScene[d] = EmptyScene
      /\ sent = {} /\ sends = 0 /\ work = <<>> /\ output = <<>> /\ outbox = <<>> /\ active = {}
      /\ \A d \in Docs, p \in Pipelines : info[d][p] = 0
  BY DEF Init
<1>5. ASSUME NEW d \in Docs PROVE ~Rendered(d) /\ ~CanRender(docs[d])
  <2>1. ~CanRender(docs[d])
    BY <1>4, NewIsBlank
  <2>2. \A b : b \notin Scenes
    BY <1>3
  <2> QED BY <2>1, <2>2 DEF Rendered
<1>6. BuilderInv
  <2> SUFFICES ASSUME NEW d \in Docs PROVE BuilderOf(d) /\ BuilderKeeps(d)
    BY Zenon DEF BuilderInv
  <2>1. BuilderOf(d)
    BY <1>4 DEF BuilderOf, EmptyScene
  <2>2. BuilderRoots(d)
    BY <1>5 DEF BuilderRoots
  <2>3. \A p \in Pipelines : BuilderHas(d, p) /\ BuilderEpoch(d, p)
    BY <1>4 DEF BuilderHas, BuilderEpoch, EmptyScene
  <2> QED BY <2>1, <2>2, <2>3 DEF BuilderKeeps
<1>7. \A d \in Docs, p \in Pipelines : \A e : Epoch(d, p, e) => e = 0
  BY <1>4 DEF Epoch, Tells, TxnsOf
<1>8. DocsOK
  <2> SUFFICES ASSUME NEW d \in Docs
               PROVE  /\ DocHas(d)
                      /\ \A p \in Pipelines :
                           /\ AllApplied(d, p, docs[d].scene.epochs[p])
                           /\ \A e \in Nat : Epoch(d, p, e) => AllApplied(d, p, e)
    BY Zenon DEF DocsOK
  <2>1. DocHas(d)
    BY <1>5 DEF DocHas
  <2>2. \A p \in Pipelines : AllApplied(d, p, 0) /\ docs[d].scene.epochs[p] = 0
    BY <1>4 DEF AllApplied, NewDocument, EmptyScene
  <2> QED BY <1>7, <2>1, <2>2
<1>9. ScenesOK
  BY <1>3 DEF ScenesOK
<1>10. EpochsKnown
  BY <1>4, <1>7 DEF EpochsKnown
<1>11. \A d, l : ~WillShow(d, l)
  BY <1>4, NothingShown DEF WillShow, Showing
<1>12. ShownKnown /\ EpochsShow
  BY <1>5, <1>11 DEF ShownKnown, EpochsShow
<1> QED BY <1>1, <1>2, <1>6, <1>8, <1>9, <1>10, <1>12 DEF EpochInv

LEMMA EpochStep ==
  ASSUME OneWayMenu, RootsKeptMenu, TypeOK, HandshakeInv, LineInv, EpochInv, [Next]_vars
  PROVE  EpochInv'
<1>1. /\ Ready /\ ScenesRender /\ NumbersOK /\ BuiltOK
      /\ FrameInv /\ BegunAdded /\ RemovalsKept /\ FromMenu
      /\ BuilderInv /\ ScenesOK /\ DocsOK /\ WorkAlive /\ ShownKnown /\ PixelsKnown
      /\ EpochsKnown /\ EpochsShow
  BY DEF EpochInv, Ready, FrameInv, LineInv, NotifyInv
<1>2. OneWay /\ RootsStay
  BY <1>1, SentAll
<1>3. FrameInv' /\ NotifyInv' /\ BegunAdded' /\ RemovalsKept' /\ FromMenu'
  BY <1>1, FrameStep, NotifyStep, BegunAddedStep, RemovalsKeptStep, FromMenuStep DEF EpochInv
<1>4. BuilderInv' /\ ScenesOK'
  BY <1>1, <1>2, BuilderStep, ScenesStep
<1>5. DocsOK' /\ EpochsKnown'
  BY <1>1, <1>2, <1>3, DocsStep, EpochsKnownStep
<1>6. WorkAlive' /\ ShownKnown' /\ PixelsKnown'
  BY <1>1, WorkAliveStep, ShownKnownStep, PixelsKnownStep
<1>7. EpochsShow'
  BY <1>1, <1>2, <1>5, <1>6, EpochsShowStep DEF Told
<1> QED BY <1>3, <1>4, <1>5, <1>6, <1>7 DEF EpochInv

LEMMA EpochsAreShown ==
  ASSUME TypeOK, EpochsShow
  PROVE  PublishedEpochsShown
<1> SUFFICES ASSUME output = <<>>, outbox = <<>>, NEW d \in active, NEW p \in Pipelines,
                    NEW t \in sent, t.doc = d, p \in t.display,
                    frame[d][p] < t.id, t.id <= info[d][p], <<d, p>> \notin removed, ~Excused(d)
             PROVE  FALSE
  BY DEF PublishedEpochsShown, EpochsShown, Excused
<1>1. d \in Docs /\ frame[d] \in Lists /\ info[d][p] \in Nat /\ t.id \in Nat
  BY DEF TypeOK, RendererTypeOK, ClientTypeOK, Transaction, Lists
<1>2. WillShow(d, frame[d])
  BY NothingShown DEF WillShow, Showing
<1>3. PICK l \in Lists : l = frame[d]
  BY <1>1
<1>4. ShownHas(d, l)
  BY <1>1, <1>2, <1>3 DEF EpochsShow
<1>5. ~ReportSent(d, p) /\ Epoch(d, p, info[d][p])
  BY DEF ReportSent, InfoWith, TxnsOf, Epoch
<1>6. HasAll(d, p, l[p], info[d][p])
  BY <1>1, <1>4, <1>5 DEF ShownHas
<1>7. t.id <= l[p] /\ l[p] \in Nat
  BY <1>3, <1>6 DEF HasAll, Lists
<1> QED BY <1>1, <1>3, <1>7

(* The epoch that Renderer::current_epoch reports is not ahead of what is  *)
(* drawn: for any documents, pipelines and interleavings of the threads,   *)
(* once the renderer has taken every message, no display list up to the    *)
(* epoch of a pipeline is missing from the active frame, unless the        *)
(* pipeline was removed or the document's view made empty.  It holds for   *)
(* clients whose transactions for a document take one way to the scene     *)
(* builder and whose root pipelines come with their display lists.         *)
THEOREM EpochsArrive ==
  ASSUME OneWayMenu, RootsKeptMenu
  PROVE  Spec => []PublishedEpochsShown
<1>1. Init => EpochInv
  BY EpochStart
<1>2. TypeOK /\ HandshakeInv /\ LineInv /\ EpochInv /\ [Next]_vars => EpochInv'
  BY EpochStep
<1>3. TypeOK /\ EpochInv => PublishedEpochsShown
  BY EpochsAreShown DEF EpochInv
<1> QED BY <1>1, <1>2, <1>3, InLineAlways, PTL DEF Spec
=============================================================================
