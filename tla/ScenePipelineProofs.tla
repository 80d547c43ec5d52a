------------------------ MODULE ScenePipelineProofs ------------------------
(***************************************************************************)
(* Proofs about ScenePipeline, for any clients, documents, pipelines and   *)
(* messages.  First the types, the handshake of the scene swap, and that   *)
(* it does not panic when every message is for one document; then what     *)
(* the pipeline keeps in order.                                            *)
(***************************************************************************)
EXTENDS ScenePipeline, SequenceTheorems, FiniteSetTheorems, TLAPS

(* What is taken from a queue, and what stays, is of its type ...          *)
LEMMA HeadTailType ==
  ASSUME NEW S, NEW q \in Seq(S), q # <<>>
  PROVE  Head(q) \in S /\ Tail(q) \in Seq(S)
  OBVIOUS

(* ... and so is a queue that grows by one.                                *)
LEMMA AppendType ==
  ASSUME NEW S, NEW q \in Seq(S), NEW e \in S
  PROVE  Append(q, e) \in Seq(S)
  OBVIOUS

(* What the render backend finds at the head of api.                       *)
LEMMA MessageOf ==
  ASSUME NEW q \in Seq(ApiMsg), q # <<>>
  PROVE  /\ Head(q) \in ApiMsg /\ Tail(q) \in Seq(ApiMsg)
         /\ Head(q).type = "UpdateDocuments" => Head(q).txns \in Seq(Transaction)
         /\ Head(q).type \in {"AddDocument", "DeleteDocument"} => Head(q).doc \in Docs
         /\ Head(q).type = "ClearNamespace" => Head(q).ns \in Namespaces
         /\ Head(q).type = "FlushSceneBuilder" => Head(q).client \in Clients
  <1>1. Head(q) \in ApiMsg /\ Tail(q) \in Seq(ApiMsg)
    BY HeadTailType
  <1> QED
    BY <1>1 DEF ApiMsg

(* The operators of SceneDocument keep the types of scenes and documents.  *)
LEMMA EditedType ==
  ASSUME NEW doc \in Document, NEW t \in Transaction
  PROVE  EditView(doc, t) \in Document
  BY DEF EditView, Document, Transaction

LEMMA ApplyToSceneType ==
  ASSUME NEW s \in Scene, NEW t \in Transaction
  PROVE  ApplyToScene(s, t) \in Scene
  BY DEF ApplyToScene, Scene, Transaction

LEMMA BuiltSceneType ==
  ASSUME NEW s \in Scene, NEW t \in Transaction
  PROVE  BuiltScene(s, t) \in Scene
  BY DEF BuiltScene, EmptyScene, Scene, Transaction

LEMMA SwapSceneType ==
  ASSUME NEW doc \in Document, NEW t \in Transaction, NEW b \in Scene
  PROVE  SwapScene(doc, t, b) \in Document
  BY DEF SwapScene, Document, Transaction

LEMMA FrameOpsType ==
  ASSUME NEW doc \in Document, NEW t \in Transaction
  PROVE  ApplyFrameOps(doc, t) \in Document
  <1>1. PICK s \in Scene : doc.scene = s
    BY DEF Document
  <1> DEFINE epochs == [p \in Pipelines |-> IF p \in t.epochs THEN t.id ELSE doc.scene.epochs[p]]
  <1>2. epochs \in [Pipelines -> Nat]
    BY <1>1 DEF Scene, Transaction
  <1>3. [doc.scene EXCEPT !.epochs = epochs] \in Scene
    BY <1>1, <1>2 DEF Scene
  <1>4. (doc.frameValid /\ ~t.moves) \in BOOLEAN
    BY DEF Document, Transaction
  <1> QED
    BY <1>3, <1>4 DEF ApplyFrameOps, Document

LEMMA UpdatedType ==
  ASSUME NEW doc \in Document, NEW t \in Transaction, NEW r \in BOOLEAN
  PROVE  UpdatedDocument(doc, t, r) \in Document
  BY FrameOpsType DEF UpdatedDocument, Document

-----------------------------------------------------------------------------
(* Messages of the clients.                                                *)
LEMMA ClientTypes ==
  ASSUME TypeOK, \/ \E m \in Menu : Send(m)
                 \/ \E c \in Clients : Flush(c)
  PROVE  TypeOK'
  <1> USE DEF TypeOK
  <1>1. ASSUME NEW m \in Menu, Send(m) PROVE TypeOK'
    <2>1. m \in ApiMsg /\ sends + 1 \in Nat
      BY MenuAssumption DEF ClientTypeOK
    <2>2. /\ Numbered(m, sends + 1) \in ApiMsg
          /\ m.type = "UpdateDocuments" => Numbered(m, sends + 1).txns \in Seq(Transaction)
      <3>1. CASE m.type = "UpdateDocuments"
        <4>1. m = [type |-> "UpdateDocuments", txns |-> m.txns] /\ m.txns \in Seq(Transaction)
          BY <2>1, <3>1 DEF ApiMsg
        <4>2. \A t \in Transaction : [t EXCEPT !.id = sends + 1] \in Transaction
          BY <2>1 DEF Transaction
        <4>3. [i \in DOMAIN m.txns |-> [m.txns[i] EXCEPT !.id = sends + 1]] \in Seq(Transaction)
          BY <4>1, <4>2
        <4> QED
          BY <4>1, <4>3, <3>1 DEF Numbered, ApiMsg
      <3> QED
        BY <2>1, <3>1 DEF Numbered
    <2>3. ChannelTypeOK'
      BY <1>1, <2>2, AppendType DEF Send, ChannelTypeOK
    <2>4. sent' \subseteq Transaction
      BY <1>1, <2>2 DEF Send, ClientTypeOK, TxnsOf
    <2>5. ClientTypeOK'
      BY <1>1, <2>1, <2>4 DEF Send, ClientTypeOK, LifeAfter
    <2> QED
      BY <1>1, <2>3, <2>5 DEF Send, backendVars, sbVars, swapVars, rendererVars,
         BackendTypeOK, BuilderTypeOK, RendererTypeOK, HistoryTypeOK
  <1>2. ASSUME NEW c \in Clients, Flush(c) PROVE TypeOK'
    <2>1. [type |-> "FlushSceneBuilder", client |-> c] \in ApiMsg
      BY DEF ApiMsg
    <2>2. ChannelTypeOK'
      BY <1>2, <2>1, AppendType DEF Flush, ChannelTypeOK
    <2>3. ClientTypeOK'
      BY <1>2 DEF Flush, ClientTypeOK
    <2> QED
      BY <1>2, <2>2, <2>3 DEF Flush, backendVars, sbVars, swapVars, rendererVars,
         BackendTypeOK, BuilderTypeOK, RendererTypeOK, HistoryTypeOK
  <1> QED
    BY <1>1, <1>2

(* What the render backend finds at the head of sceneResults ...           *)
LEMMA ResultOf ==
  ASSUME NEW q \in Seq(SceneResult), q # <<>>
  PROVE  /\ Head(q) \in SceneResult /\ Tail(q) \in Seq(SceneResult)
         /\ Head(q).type = "Transactions" =>
              Head(q).txns \in Seq(BuiltTransaction) /\ Head(q).swap \in BOOLEAN
         /\ Head(q).type = "ClearNamespace" => Head(q).ns \in Namespaces
         /\ Head(q).type = "FlushComplete" => Head(q).client \in Clients
  <1>1. Head(q) \in SceneResult /\ Tail(q) \in Seq(SceneResult)
    BY HeadTailType
  <1> QED
    BY <1>1 DEF SceneResult

(* ... the scene builder threads at the head of theirs ...                 *)
LEMMA RequestOfQueue ==
  ASSUME NEW q \in Seq(SceneRequest), q # <<>>
  PROVE  /\ Head(q) \in SceneRequest /\ Tail(q) \in Seq(SceneRequest)
         /\ Head(q).type = "Transactions" => Head(q).txns \in Seq(Transaction)
         /\ Head(q).type = "DeleteDocument" => Head(q).doc \in Docs
         /\ Head(q).type = "ClearNamespace" => Head(q).ns \in Namespaces
         /\ Head(q).type = "Flush" => Head(q).client \in Clients
  <1>1. Head(q) \in SceneRequest /\ Tail(q) \in Seq(SceneRequest)
    BY HeadTailType
  <1> QED
    BY <1>1 DEF SceneRequest

(* ... and the renderer at the head of output.                             *)
LEMMA OutputOf ==
  ASSUME NEW q \in Seq(ResultMsg), q # <<>>
  PROVE  /\ Head(q) \in ResultMsg /\ Tail(q) \in Seq(ResultMsg)
         /\ Head(q).type = "PublishPipelineInfo" =>
              /\ Head(q).doc \in Docs /\ Head(q).removed \subseteq Pipelines
              /\ Head(q).epochs \in [Pipelines -> Nat]
         /\ Head(q).type = "PublishDocument" =>
              Head(q).doc \in Docs /\ Head(q).lists \in [Pipelines -> Nat]
         /\ Head(q).type = "AppendNotificationRequests" => Head(q).requests \subseteq Request
  <1>1. Head(q) \in ResultMsg /\ Tail(q) \in Seq(ResultMsg)
    BY HeadTailType
  <1> QED
    BY <1>1 DEF ResultMsg

(* The notification requests of a transaction are requests.                *)
LEMMA RequestsType ==
  ASSUME NEW t \in Transaction
  PROVE  RequestsOf(t) \subseteq Request
  BY DEF RequestsOf, Request, Transaction

(* Every step of the renderer keeps the types.                             *)
LEMMA RendererTypes ==
  ASSUME TypeOK, Renderer
  PROVE  TypeOK'
  <1>1. UNCHANGED <<clientVars, backendVars, sbVars, swapVars>>
    BY DEF Renderer, RendererWake, UpdatePipelineInfo, UpdateDocumentFrame,
       UpdateNotifications, UpdateResources, UpdateDone, Render
  <1>2. ClientTypeOK' /\ BackendTypeOK' /\ BuilderTypeOK'
    BY <1>1 DEF TypeOK, clientVars, backendVars, sbVars, swapVars, ClientTypeOK,
       BackendTypeOK, BuilderTypeOK
  <1>3. ChannelTypeOK' /\ RendererTypeOK' /\ HistoryTypeOK'
    <2> USE DEF TypeOK, ChannelTypeOK, RendererTypeOK, HistoryTypeOK
    <2>1. CASE RendererWake
      BY <2>1 DEF RendererWake
    <2>2. CASE UpdatePipelineInfo
      BY <2>2, OutputOf DEF UpdatePipelineInfo, Updates
    <2>3. CASE UpdateDocumentFrame
      <3>1. HistoryTypeOK'
        BY <2>3 DEF UpdateDocumentFrame, Uploaded, Fire, Request
      <3>2. requests' \subseteq Request
        BY <2>3 DEF UpdateDocumentFrame, Uploaded
      <3> QED
        BY <2>3, <3>1, <3>2, OutputOf DEF UpdateDocumentFrame, Updates
    <2>4. CASE UpdateNotifications
      <3>1. HistoryTypeOK'
        BY <2>4, OutputOf DEF UpdateNotifications, Updates, Uploaded, Fire, Request
      <3> QED
        BY <2>4, <3>1, OutputOf DEF UpdateNotifications, Updates
    <2>5. CASE UpdateResources
      <3>1. HistoryTypeOK'
        BY <2>5 DEF UpdateResources, Uploaded, Fire, Request
      <3> QED
        BY <2>5, <3>1, OutputOf DEF UpdateResources, Updates
    <2>6. CASE UpdateDone
      BY <2>6 DEF UpdateDone
    <2>7. CASE Render
      <3>1. HistoryTypeOK'
        BY <2>7 DEF Render, Uploaded, Fire, Dropped, Request
      <3> QED
        BY <2>7, <3>1 DEF Render
    <2> QED
      BY <2>1, <2>2, <2>3, <2>4, <2>5, <2>6, <2>7 DEF Renderer
  <1> QED
    BY <1>2, <1>3 DEF TypeOK

(* The scene builder turns transactions into built transactions ...        *)
LEMMA ProcessedType ==
  ASSUME TypeOK, NEW t \in Transaction
  PROVE  Processed(t) \in BuiltTransaction
  <1>1. [t EXCEPT !.notifs = @ \ {"SceneBuilt"}] \in Transaction
    BY DEF Transaction
  <1>2. t.doc \in Docs
    BY DEF Transaction
  <1>3. BuiltScene(ApplyToScene(sbScene[t.doc], t), t) \in Scene
    BY <1>2, ApplyToSceneType, BuiltSceneType DEF TypeOK, BuilderTypeOK
  <1> QED
    BY <1>1, <1>3 DEF Processed, BuiltTransaction

(* ... of documents ...                                                    *)
LEMMA BatchType ==
  ASSUME NEW txns \in Seq(Transaction)
  PROVE  TxnsOf(txns) \subseteq Transaction /\ DocsOf(txns) \subseteq Docs
  <1>1. \A i \in DOMAIN txns : txns[i] \in Transaction
    OBVIOUS
  <1>2. \A t \in Transaction : t.doc \in Docs
    BY DEF Transaction
  <1> QED
    BY <1>1, <1>2 DEF TxnsOf, DocsOf

(* ... and leaves scenes behind.                                           *)
LEMMA SceneAfterType ==
  ASSUME TypeOK, NEW txns \in Seq(Transaction)
  PROVE  SceneAfter(txns) \in [Docs -> Scene]
  <1> SUFFICES ASSUME NEW d \in Docs,
                      NEW s, s = IF \E t \in TxnsOf(txns) : t.doc = d
                                 THEN ApplyToScene(sbScene[d],
                                        CHOOSE t \in TxnsOf(txns) : t.doc = d)
                                 ELSE sbScene[d]
               PROVE  s \in Scene
    BY DEF SceneAfter
  <1>1. TxnsOf(txns) \subseteq Transaction
    BY DEF TxnsOf
  <1>2. CASE \E t \in TxnsOf(txns) : t.doc = d
    <2>1. (CHOOSE t \in TxnsOf(txns) : t.doc = d) \in Transaction
      BY <1>1, <1>2
    <2> QED
      BY <1>2, <2>1, ApplyToSceneType DEF TypeOK, BuilderTypeOK
  <1> QED
    BY <1>2 DEF TypeOK, BuilderTypeOK

LEMMA EmptySceneType == EmptyScene \in Scene
  BY DEF EmptyScene, Scene

(* Every step of the scene builder and of the low priority thread keeps the *)
(* types.                                                                  *)
LEMMA BuilderTypes ==
  ASSUME TypeOK, SceneBuilder
  PROVE  TypeOK'
  <1>1. UNCHANGED <<clientVars, rendererVars>>
    BY DEF SceneBuilder, BuildTransactions, BuilderDeleteDocument, BuilderFlush,
       BuilderClearNamespace, BuilderStop, WakeBackend, ReceiveSwap, PostSceneSwap
  <1>2. ClientTypeOK' /\ RendererTypeOK'
    BY <1>1 DEF TypeOK, clientVars, rendererVars, ClientTypeOK, RendererTypeOK
  <1>3. ChannelTypeOK' /\ BackendTypeOK' /\ BuilderTypeOK' /\ HistoryTypeOK'
    <2> USE DEF TypeOK
    <2>1. CASE BuildTransactions
      <3> DEFINE txns  == Head(highScene).txns
                 built == [i \in DOMAIN txns |-> Processed(txns[i])]
                 result == [type |-> "Transactions", txns |-> built, swap |-> OpensSwap(built)]
      <3>1. txns \in Seq(Transaction) /\ highScene' \in Seq(SceneRequest)
        BY <2>1, RequestOfQueue DEF BuildTransactions, ChannelTypeOK
      <3>2. built \in Seq(BuiltTransaction)
        BY <3>1, ProcessedType
      <3>3. OpensSwap(built) \in BOOLEAN
        BY PipelineAssumption DEF OpensSwap
      <3>4. result \in SceneResult
        BY <3>2, <3>3 DEF SceneResult
      <3>5. ChannelTypeOK'
        BY <2>1, <3>1, <3>4, AppendType DEF BuildTransactions, ChannelTypeOK
      <3>6. TxnsOf(txns) \subseteq Transaction /\ DocsOf(txns) \subseteq Docs
        BY <3>1, BatchType
      <3>7. HistoryTypeOK'
        BY <2>1, <3>6, RequestsType DEF BuildTransactions, HistoryTypeOK, Fire, Request
      <3>8. BuilderTypeOK'
        BY <2>1, <3>1, <3>6, SceneAfterType DEF BuildTransactions, BuilderTypeOK, swapVars
      <3> QED
        BY <2>1, <3>5, <3>7, <3>8 DEF BuildTransactions, backendVars, BackendTypeOK
    <2>2. CASE BuilderDeleteDocument
      BY <2>2, RequestOfQueue, EmptySceneType DEF BuilderDeleteDocument, ChannelTypeOK,
         backendVars, BackendTypeOK, BuilderTypeOK, swapVars, HistoryTypeOK
    <2>3. CASE BuilderFlush
      <3>1. [type |-> "FlushComplete", client |-> Head(highScene).client] \in SceneResult
        BY <2>3, RequestOfQueue DEF BuilderFlush, ChannelTypeOK, SceneResult
      <3> QED
        BY <2>3, <3>1, RequestOfQueue, AppendType DEF BuilderFlush, ChannelTypeOK,
           backendVars, BackendTypeOK, BuilderTypeOK, swapVars, HistoryTypeOK
    <2>4. CASE BuilderClearNamespace
      <3>1. Head(highScene) \in SceneResult
        <4>1. Head(highScene) \in SceneRequest /\ Head(highScene).type = "ClearNamespace"
          BY <2>4, RequestOfQueue DEF BuilderClearNamespace, ChannelTypeOK
        <4> QED
          BY <4>1 DEF SceneRequest, SceneResult
      <3>2. ChannelTypeOK'
        BY <2>4, <3>1, RequestOfQueue, AppendType DEF BuilderClearNamespace, ChannelTypeOK
      <3>3. sbAlive' \subseteq Docs /\ sbScene' \in [Docs -> Scene]
        BY <2>4, EmptySceneType DEF BuilderClearNamespace, BuilderTypeOK
      <3> QED
        BY <2>4, <3>2, <3>3 DEF BuilderClearNamespace, backendVars, BackendTypeOK,
           BuilderTypeOK, swapVars, HistoryTypeOK
    <2>5. CASE BuilderStop
      <3>1. [type |-> "Stopped"] \in SceneResult
        BY DEF SceneResult
      <3> QED
        BY <2>5, <3>1, RequestOfQueue, AppendType DEF BuilderStop, ChannelTypeOK,
           backendVars, BackendTypeOK, BuilderTypeOK, swapVars, HistoryTypeOK
    <2>6. CASE WakeBackend
      <3>1. [type |-> "WakeUp"] \in ApiMsg
        BY DEF ApiMsg
      <3> QED
        BY <2>6, <3>1, AppendType DEF WakeBackend, ChannelTypeOK, backendVars,
           BackendTypeOK, BuilderTypeOK, swapVars, HistoryTypeOK
    <2>7. CASE ReceiveSwap
      BY <2>7 DEF ReceiveSwap, ChannelTypeOK, BackendTypeOK, BuilderTypeOK, HistoryTypeOK
    <2>8. CASE PostSceneSwap
      BY <2>8 DEF PostSceneSwap, ChannelTypeOK, backendVars, BackendTypeOK,
         BuilderTypeOK, HistoryTypeOK
    <2> QED
      BY <2>1, <2>2, <2>3, <2>4, <2>5, <2>6, <2>7, <2>8 DEF SceneBuilder
  <1> QED
    BY <1>2, <1>3 DEF TypeOK

LEMMA LowTypes ==
  ASSUME TypeOK, LowForward
  PROVE  TypeOK'
  <1>1. ChannelTypeOK'
    BY RequestOfQueue, AppendType DEF LowForward, TypeOK, ChannelTypeOK
  <1> QED
    BY <1>1 DEF LowForward, TypeOK, clientVars, ClientTypeOK, backendVars, BackendTypeOK,
       sbVars, swapVars, BuilderTypeOK, rendererVars, RendererTypeOK, HistoryTypeOK

-----------------------------------------------------------------------------
LEMMA NewDocumentType == NewDocument \in Document
  BY EmptySceneType DEF NewDocument, Document

LEMMA NopType ==
  ASSUME NEW d \in Docs
  PROVE  NopTransaction(d) \in Transaction
  BY DEF NopTransaction, Transaction

(* update_document: what it publishes is for the renderer, the document it *)
(* leaves behind a document.                                               *)
LEMMA PublishedType ==
  ASSUME TypeOK, NEW doc \in Document, NEW t \in Transaction
  PROVE  Published(doc, t) \in Seq(ResultMsg)
  <1> DEFINE d == ApplyFrameOps(doc, t)
             m == [type |-> "PublishPipelineInfo", doc |-> t.doc,
                   epochs |-> d.scene.epochs, removed |-> d.removed]
             n == [type |-> "PublishDocument", doc |-> t.doc, lists |-> d.scene.lists]
  <1>1. d \in Document
    BY FrameOpsType
  <1>2. m \in ResultMsg /\ n \in ResultMsg
    BY <1>1 DEF ResultMsg, Document, Scene, Transaction
  <1>3. <<m>> \in Seq(ResultMsg) /\ <<n>> \in Seq(ResultMsg) /\ <<>> \in Seq(ResultMsg)
    BY <1>2
  <1> QED
    BY <1>3 DEF Published

(* What is left of the transactions being applied.                         *)
LEMMA WorkOf ==
  ASSUME NEW q \in Seq(BuiltTransaction), q # <<>>
  PROVE  /\ Head(q).txn \in Transaction /\ Head(q).txn.doc \in Docs
         /\ Head(q).txn.id \in Nat
         /\ Head(q).built \in Scene /\ Tail(q) \in Seq(BuiltTransaction)
  <1>1. Head(q) \in BuiltTransaction /\ Tail(q) \in Seq(BuiltTransaction)
    BY HeadTailType
  <1> QED
    BY <1>1 DEF BuiltTransaction, Transaction

LEMMA NextTransactionType ==
  ASSUME BackendTypeOK, work # <<>>, NextTransaction
  PROVE  /\ work' \in Seq(BuiltTransaction)
         /\ rbPc' \in {"poll", "apply"}
         /\ swapTx' \in {"none", "open", "closed"}
         /\ required' \in BOOLEAN
  BY WorkOf DEF BackendTypeOK, NextTransaction

LEMMA UpdateHeadType ==
  ASSUME TypeOK, work # <<>>, NEW doc \in Document, UpdateHead(doc)
  PROVE  /\ outbox' \in Seq(ResultMsg)
         /\ docs' \in [Docs -> Document]
         /\ rbPc' = "settle"
  <1>1. Head(work).txn \in Transaction
    BY WorkOf DEF TypeOK, BackendTypeOK
  <1>2. UpdatedDocument(doc, Head(work).txn, required) \in Document
    BY <1>1, UpdatedType DEF TypeOK, BackendTypeOK
  <1> QED
    BY <1>1, <1>2, PublishedType DEF UpdateHead, TypeOK, BackendTypeOK

LEMMA PrepareType ==
  ASSUME BackendTypeOK, NEW present, NEW reclaim \in BOOLEAN,
         PrepareForFrames(present, reclaim)
  PROVE  required' \in BOOLEAN /\ nops' \subseteq Docs
  BY DEF PrepareForFrames, BackendTypeOK

(* Every step of the render backend keeps the types: polling the scene     *)
(* builder, ...                                                            *)
LEMMA PollTypes ==
  ASSUME TypeOK, PollTransactions \/ PollFlushComplete \/ PollClearNamespace \/ PollNothing
  PROVE  TypeOK'
  <1> USE DEF TypeOK
  <1>1. UNCHANGED <<sbVars, swapVars, rendererVars, settled, answered, fired>>
    BY DEF PollTransactions, PollFlushComplete, PollClearNamespace, PollNothing, backendVars
  <1>2. BuilderTypeOK' /\ RendererTypeOK' /\ HistoryTypeOK'
    BY <1>1 DEF sbVars, swapVars, rendererVars, BuilderTypeOK, RendererTypeOK, HistoryTypeOK
  <1>3. CASE PollTransactions
    <2>1. required' \in BOOLEAN /\ nops' \subseteq Docs
      BY <1>3, PrepareType DEF PollTransactions
    <2> QED
      BY <1>2, <1>3, <2>1, ResultOf DEF PollTransactions, ChannelTypeOK, BackendTypeOK,
         clientVars, ClientTypeOK
  <1>4. CASE PollFlushComplete
    BY <1>2, <1>4, ResultOf DEF PollFlushComplete, ChannelTypeOK, backendVars,
       BackendTypeOK, ClientTypeOK
  <1>5. CASE PollClearNamespace
    <2>1. docs' \in [Docs -> Document] /\ alive' \subseteq Docs
      BY <1>5, NewDocumentType DEF PollClearNamespace, BackendTypeOK
    <2> QED
      BY <1>2, <1>5, <2>1, ResultOf DEF PollClearNamespace, ChannelTypeOK, BackendTypeOK,
         clientVars, ClientTypeOK
  <1>6. CASE PollNothing
    BY <1>2, <1>6 DEF PollNothing, ChannelTypeOK, BackendTypeOK, clientVars, ClientTypeOK
  <1> QED
    BY <1>3, <1>4, <1>5, <1>6

(* ... applying transactions, for which there must be one to apply, ...    *)
LEMMA ApplyTypes ==
  ASSUME TypeOK, Working,
         \/ Publish \/ \E d \in Docs : NopDocument(d)
         \/ SkipTransaction \/ SwapAndWait \/ UpdateTransaction
         \/ ResumeAndUpdate \/ Settle \/ NewFrameReady
  PROVE  TypeOK'
  <1> USE DEF TypeOK
  <1>1. UNCHANGED <<clientVars, sbVars, rendererVars>>
    BY DEF Publish, NopDocument, SkipTransaction, SwapAndWait, UpdateTransaction,
       ResumeAndUpdate, Settle, NewFrameReady
  <1>2. ClientTypeOK' /\ RendererTypeOK'
    BY <1>1 DEF clientVars, rendererVars, ClientTypeOK, RendererTypeOK
  <1>3. CASE Publish
    <2>1. Head(outbox) \in ResultMsg /\ Tail(outbox) \in Seq(ResultMsg)
      BY <1>3, HeadTailType DEF Publish, BackendTypeOK
    <2> QED
      BY <1>2, <1>3, <2>1, AppendType DEF Publish, ChannelTypeOK, BackendTypeOK,
         BuilderTypeOK, sbVars, swapVars, HistoryTypeOK
  <1>4. ASSUME NEW d \in Docs, NopDocument(d) PROVE TypeOK'
    <2>1. NopTransaction(d) \in Transaction /\ docs[d] \in Document
      BY NopType DEF BackendTypeOK
    <2>2. UpdatedDocument(docs[d], NopTransaction(d), required) \in Document
      BY <2>1, UpdatedType DEF BackendTypeOK
    <2>3. outbox' \in Seq(ResultMsg) /\ docs' \in [Docs -> Document]
      BY <1>4, <2>1, <2>2, PublishedType DEF NopDocument, BackendTypeOK
    <2> QED
      BY <1>2, <1>4, <2>3 DEF NopDocument, ChannelTypeOK, BackendTypeOK,
         BuilderTypeOK, sbVars, swapVars, HistoryTypeOK
  <1>5. CASE SkipTransaction
    <2>1. /\ Head(work).txn \in Transaction /\ Head(work).txn.doc \in Docs
          /\ Head(work).txn.id \in Nat
      BY <1>5, WorkOf DEF SkipTransaction, BackendTypeOK
    <2>2. CASE swapTx = "closed"
      BY <1>2, <1>5, <2>2 DEF SkipTransaction, ChannelTypeOK, BackendTypeOK,
         BuilderTypeOK, sbVars, HistoryTypeOK
    <2>3. CASE swapTx # "closed"
      <3>1. BackendTypeOK'
        BY <1>5, <2>3, NextTransactionType DEF SkipTransaction, BackendTypeOK
      <3>2. fired' \subseteq Request \X (Checkpoints \cup {"TransactionDropped"})
        BY <1>5, <2>3, <2>1, RequestsType DEF SkipTransaction, HistoryTypeOK, Dropped
      <3>3. HistoryTypeOK'
        <4>1. <<Head(work).txn.id, Head(work).txn.doc>> \in Nat \X Docs
          BY <2>1
        <4>2. settled' = Append(settled, <<Head(work).txn.id, Head(work).txn.doc>>)
          BY <1>5, <2>3 DEF SkipTransaction
        <4>3. settled' \in Seq(Nat \X Docs)
          BY <4>1, <4>2, AppendType DEF HistoryTypeOK
        <4> QED
          BY <1>5, <3>2, <4>3 DEF SkipTransaction, HistoryTypeOK
      <3>4. BuilderTypeOK'
        BY <1>5, <2>3 DEF SkipTransaction, BuilderTypeOK, sbVars
      <3> QED
        BY <1>2, <1>5, <3>1, <3>3, <3>4 DEF SkipTransaction, ChannelTypeOK
    <2> QED
      BY <2>2, <2>3
  <1>6. CASE SwapAndWait
    <2>1. docs' \in [Docs -> Document]
      BY <1>6, WorkOf, SwapSceneType DEF SwapAndWait, BackendTypeOK
    <2>2. Append(swapQueue, "Complete") \in Seq({"Complete", "Aborted"})
      BY AppendType DEF BuilderTypeOK
    <2>3. BuilderTypeOK' /\ rbPc' \in {"resume", "panicked"}
      BY <1>6, <2>2 DEF SwapAndWait, BuilderTypeOK, sbVars
    <2> QED
      BY <1>2, <1>6, <2>1, <2>3 DEF SwapAndWait, ChannelTypeOK, BackendTypeOK, HistoryTypeOK
  <1>7. CASE UpdateTransaction
    <2> DEFINE doc == SwapScene(docs[Head(work).txn.doc], Head(work).txn, Head(work).built)
    <2>1. doc \in Document
      BY <1>7, WorkOf, SwapSceneType DEF UpdateTransaction, BackendTypeOK
    <2>2. outbox' \in Seq(ResultMsg) /\ docs' \in [Docs -> Document] /\ rbPc' = "settle"
      BY <1>7, <2>1, UpdateHeadType DEF UpdateTransaction
    <2> QED
      BY <1>2, <1>7, <2>2 DEF UpdateTransaction, ChannelTypeOK, BackendTypeOK,
         BuilderTypeOK, sbVars, swapVars, HistoryTypeOK
  <1>8. CASE ResumeAndUpdate
    <2>1. work # <<>>
      BY <1>8 DEF ResumeAndUpdate, At, Working
    <2>2. docs[Head(work).txn.doc] \in Document
      BY <2>1, WorkOf DEF BackendTypeOK
    <2>3. outbox' \in Seq(ResultMsg) /\ docs' \in [Docs -> Document] /\ rbPc' = "settle"
      BY <1>8, <2>1, <2>2, UpdateHeadType DEF ResumeAndUpdate
    <2> QED
      BY <1>2, <1>8, <2>3 DEF ResumeAndUpdate, ChannelTypeOK, BackendTypeOK,
         BuilderTypeOK, sbVars, HistoryTypeOK
  <1>9. CASE Settle
    <2>1. /\ work # <<>> /\ Head(work).txn \in Transaction
          /\ Head(work).txn.doc \in Docs /\ Head(work).txn.id \in Nat
      BY <1>9, WorkOf DEF Settle, At, Working, BackendTypeOK
    <2> DEFINE late == {r \in RequestsOf(Head(work).txn) : r[3] # "FrameBuilt"}
               msg  == [type |-> "AppendNotificationRequests", requests |-> late]
    <2>2. RequestsOf(Head(work).txn) \subseteq Request
      BY <2>1, RequestsType
    <2>3. msg \in ResultMsg
      BY <2>2 DEF ResultMsg
    <2>4. output' = output \/ output' = Append(output, msg)
      BY <1>9 DEF Settle
    <2>5. ChannelTypeOK'
      BY <1>9, <2>3, <2>4, AppendType DEF Settle, ChannelTypeOK
    <2>6. fired' \subseteq Request \X (Checkpoints \cup {"TransactionDropped"})
      BY <1>9, <2>2 DEF Settle, HistoryTypeOK, Fire, Request
    <2>7. settled' \in Seq(Nat \X Docs) /\ answered' = answered
      BY <1>9, <2>1, AppendType DEF Settle, HistoryTypeOK
    <2>8. BackendTypeOK'
      BY <1>9, <2>1, NextTransactionType DEF Settle, BackendTypeOK
    <2> QED
      BY <1>2, <1>9, <2>5, <2>6, <2>7, <2>8 DEF Settle, BuilderTypeOK, sbVars, swapVars,
         HistoryTypeOK
  <1>10. CASE NewFrameReady
    <2>1. work # <<>> /\ Head(work).txn.doc \in Docs /\ Head(work).txn.id \in Nat
      BY <1>10, WorkOf DEF NewFrameReady, At, Working, BackendTypeOK
    <2>2. BackendTypeOK'
      BY <1>10, <2>1, NextTransactionType DEF NewFrameReady, BackendTypeOK
    <2> QED
      BY <1>2, <1>10, <2>1, <2>2 DEF NewFrameReady, ChannelTypeOK, BuilderTypeOK, sbVars,
         swapVars, HistoryTypeOK
  <1> QED
    BY <1>3, <1>4, <1>5, <1>6, <1>7, <1>8, <1>9, <1>10

(* ... and receiving a message.                                            *)
LEMMA ViewedType ==
  ASSUME TypeOK, NEW txns \in Seq(Transaction)
  PROVE  Viewed(txns) \in [Docs -> Document]
  <1> SUFFICES ASSUME NEW d \in Docs,
                      NEW s, s = IF \E t \in TxnsOf(txns) : t.doc = d
                                 THEN EditView(docs[d], CHOOSE t \in TxnsOf(txns) : t.doc = d)
                                 ELSE docs[d]
               PROVE  s \in Document
    BY DEF Viewed
  <1>1. CASE \E t \in TxnsOf(txns) : t.doc = d
    <2>1. (CHOOSE t \in TxnsOf(txns) : t.doc = d) \in Transaction
      BY <1>1, BatchType
    <2> QED
      BY <1>1, <2>1, EditedType DEF TypeOK, BackendTypeOK
  <1> QED
    BY <1>1 DEF TypeOK, BackendTypeOK

LEMMA ReceiveTypes ==
  ASSUME TypeOK,
         \/ ReceiveForSceneBuilder \/ ReceiveForBackend
         \/ ReceiveAddDocument \/ ReceiveDeleteDocument \/ ReceiveForwarded
         \/ ReceiveMemoryPressure \/ ReceiveWakeUp \/ ReceiveShutDown
         \/ Discard \/ Stopped
  PROVE  TypeOK'
  <1> USE DEF TypeOK
  <1>1. UNCHANGED <<clientVars, sbVars, swapVars, rendererVars, settled, answered>>
    BY DEF ReceiveForSceneBuilder, ReceiveForBackend, ReceiveAddDocument,
       ReceiveDeleteDocument, ReceiveForwarded, ReceiveMemoryPressure, ReceiveWakeUp,
       ReceiveShutDown, Discard, Stopped
  <1>2. ClientTypeOK' /\ BuilderTypeOK' /\ RendererTypeOK'
    BY <1>1 DEF clientVars, sbVars, swapVars, rendererVars, ClientTypeOK, BuilderTypeOK,
       RendererTypeOK
  <1>3. settled' \in Seq(Nat \X Docs) /\ answered' \subseteq Nat \X Docs
    BY <1>1 DEF HistoryTypeOK
  <1>4. CASE ReceiveForSceneBuilder
    <2> DEFINE txns    == Head(api).txns
               request == [type |-> "Transactions", txns |-> txns]
    <2>1. txns \in Seq(Transaction) /\ Tail(api) \in Seq(ApiMsg)
      BY <1>4, MessageOf DEF ReceiveForSceneBuilder, Receives, ChannelTypeOK
    <2>2. request \in SceneRequest
      BY <2>1 DEF SceneRequest
    <2>3. lowScene' \in Seq(SceneRequest) /\ highScene' \in Seq(SceneRequest)
      BY <1>4, <2>2, AppendType DEF ReceiveForSceneBuilder, ForwardTransactions, ChannelTypeOK
    <2>4. docs' \in [Docs -> Document]
      BY <1>4, <2>1, ViewedType DEF ReceiveForSceneBuilder
    <2> QED
      BY <1>2, <1>3, <1>4, <2>1, <2>3, <2>4 DEF ReceiveForSceneBuilder, ChannelTypeOK,
         BackendTypeOK, HistoryTypeOK
  <1>5. CASE ReceiveForBackend
    <2> DEFINE txns == Head(api).txns
    <2>1. txns \in Seq(Transaction) /\ Tail(api) \in Seq(ApiMsg)
      BY <1>5, MessageOf DEF ReceiveForBackend, Receives, ChannelTypeOK
    <2>2. docs' \in [Docs -> Document]
      BY <1>5, <2>1, ViewedType DEF ReceiveForBackend
    <2>3. required' \in BOOLEAN /\ nops' \subseteq Docs
      BY <1>5, PrepareType DEF ReceiveForBackend
    <2>4. \A t \in Transaction : [txn |-> t, built |-> EmptyScene] \in BuiltTransaction
      BY EmptySceneType DEF BuiltTransaction
    <2>5. work' \in Seq(BuiltTransaction)
      BY <1>5, <2>1, <2>4 DEF ReceiveForBackend
    <2> QED
      BY <1>2, <1>3, <1>5, <2>1, <2>2, <2>3, <2>5 DEF ReceiveForBackend, ChannelTypeOK,
         BackendTypeOK, HistoryTypeOK
  <1>6. CASE ReceiveAddDocument
    BY <1>2, <1>3, <1>6, MessageOf DEF ReceiveAddDocument, Receives, ChannelTypeOK,
       BackendTypeOK, HistoryTypeOK
  <1>7. CASE ReceiveDeleteDocument
    <2>1. /\ Head(api) \in ApiMsg /\ Head(api).type = "DeleteDocument"
          /\ Head(api).doc \in Docs /\ Tail(api) \in Seq(ApiMsg)
      BY <1>7, MessageOf DEF ReceiveDeleteDocument, Receives, ChannelTypeOK
    <2>2. Head(api) \in SceneRequest
      BY <2>1 DEF ApiMsg, SceneRequest
    <2> QED
      BY <1>2, <1>3, <1>7, <2>1, <2>2, AppendType, NewDocumentType DEF ReceiveDeleteDocument,
         SendLow, ChannelTypeOK, BackendTypeOK, HistoryTypeOK
  <1>8. CASE ReceiveForwarded
    <2>1. /\ Head(api) \in ApiMsg /\ Tail(api) \in Seq(ApiMsg)
          /\ Head(api).type \in {"ClearNamespace", "FlushSceneBuilder"}
      BY <1>8, MessageOf DEF ReceiveForwarded, Receives, ChannelTypeOK
    <2>2. RequestFor(Head(api)) \in SceneRequest
      BY <2>1 DEF ApiMsg, SceneRequest, RequestFor
    <2> QED
      BY <1>2, <1>3, <1>8, <2>1, <2>2, AppendType DEF ReceiveForwarded, SendLow,
         ChannelTypeOK, BackendTypeOK, HistoryTypeOK
  <1>9. CASE ReceiveMemoryPressure
    <2>1. [type |-> "UpdateResources"] \in ResultMsg
      BY DEF ResultMsg
    <2> QED
      BY <1>2, <1>3, <1>9, <2>1, MessageOf, AppendType DEF ReceiveMemoryPressure, Receives,
         ChannelTypeOK, BackendTypeOK, HistoryTypeOK
  <1>10. CASE ReceiveWakeUp
    BY <1>2, <1>3, <1>10, MessageOf DEF ReceiveWakeUp, Receives, ChannelTypeOK,
       BackendTypeOK, HistoryTypeOK
  <1>11. CASE ReceiveShutDown
    <2>1. [type |-> "Stop"] \in SceneRequest
      BY DEF SceneRequest
    <2> QED
      BY <1>2, <1>3, <1>11, <2>1, MessageOf, AppendType DEF ReceiveShutDown, Receives,
         ChannelTypeOK, BackendTypeOK, HistoryTypeOK
  <1>12. CASE Discard
    <2>1. \A b \in BuiltTransaction : RequestsOf(b.txn) \subseteq Request
      BY RequestsType DEF BuiltTransaction
    <2>2. Head(sceneResults).type = "Transactions" =>
            TxnsOf(Head(sceneResults).txns) \subseteq BuiltTransaction
      BY <1>12, ResultOf DEF Discard, ChannelTypeOK, TxnsOf
    <2>3. fired' \subseteq Request \X (Checkpoints \cup {"TransactionDropped"})
      BY <1>12, <2>1, <2>2 DEF Discard, HistoryTypeOK, Dropped
    <2> QED
      BY <1>2, <1>3, <1>12, <2>3, ResultOf DEF Discard, ChannelTypeOK, backendVars,
         BackendTypeOK, HistoryTypeOK
  <1>13. CASE Stopped
    <2>1. \A m \in TxnsOf(api) : m.type = "UpdateDocuments" =>
            TxnsOf(m.txns) \subseteq Transaction
      <3>1. \A m \in TxnsOf(api) : m \in ApiMsg
        BY DEF TxnsOf, ChannelTypeOK
      <3>2. \A m \in TxnsOf(api) : m.type = "UpdateDocuments" => m.txns \in Seq(Transaction)
        BY <3>1 DEF ApiMsg
      <3> QED
        BY <3>2, BatchType
    <2>2. fired' \subseteq Request \X (Checkpoints \cup {"TransactionDropped"})
      BY <1>13, <2>1, RequestsType DEF Stopped, HistoryTypeOK, Dropped
    <2>3. ChannelTypeOK'
      BY <1>13, ResultOf DEF Stopped, ChannelTypeOK
    <2>4. BackendTypeOK'
      BY <1>13, NewDocumentType DEF Stopped, BackendTypeOK
    <2> QED
      BY <1>2, <1>3, <2>2, <2>3, <2>4 DEF HistoryTypeOK
  <1> QED
    BY <1>4, <1>5, <1>6, <1>7, <1>8, <1>9, <1>10, <1>11, <1>12, <1>13

-----------------------------------------------------------------------------
(* HandshakeInv: it holds initially, and the steps of the threads outside  *)
(* the handshake leave it alone.                                           *)
LEMMA HandshakeStart == Init => HandshakeInv
  BY DEF Init, HandshakeInv, Working, SwapInOnePlace, Awaited, ResumeOutstanding

LEMMA HandshakeStutter ==
  ASSUME HandshakeInv, UNCHANGED <<rbPc, work, swapTx, sbPc, sceneResults, swapVars>>
  PROVE  HandshakeInv'
  BY DEF HandshakeInv, Working, SwapInOnePlace, Awaited, ResumeOutstanding, CarriesSwap, swapVars

(* The scene builder only opens a swap channel when the last one is closed, *)
(* and only leaves it when it has been told, or never will be.             *)
LEMMA HandshakeBuilder ==
  ASSUME TypeOK, HandshakeInv, SceneBuilder
  PROVE  HandshakeInv'
  <1> USE DEF HandshakeInv, TypeOK, BuilderTypeOK, ChannelTypeOK
  <1>1. Working'
    BY DEF Working, SceneBuilder, BuildTransactions, BuilderDeleteDocument, BuilderFlush,
       BuilderClearNamespace, BuilderStop, WakeBackend, ReceiveSwap, PostSceneSwap, backendVars
  <1>2. ASSUME sbPc = "recv", sbPc' \in {"recv", "wake", "done"},
               UNCHANGED <<rbPc, swapTx, swapVars>>,
               \/ sceneResults' = sceneResults
               \/ \E r : sceneResults' = Append(sceneResults, r) /\ ~CarriesSwap(r)
        PROVE  SwapInOnePlace' /\ ResumeOutstanding'
    <2>1. /\ swapTx # "open" /\ swapQueue = <<>>
          /\ \A i \in DOMAIN sceneResults : ~CarriesSwap(sceneResults[i])
      BY <1>2 DEF SwapInOnePlace, Awaited
    <2>2. \A i \in DOMAIN sceneResults' : ~CarriesSwap(sceneResults'[i])
      <3>1. CASE sceneResults' = sceneResults
        BY <2>1, <3>1
      <3>2. ASSUME NEW r, sceneResults' = Append(sceneResults, r), ~CarriesSwap(r)
            PROVE  \A i \in DOMAIN sceneResults' : ~CarriesSwap(sceneResults'[i])
        <4>1. DOMAIN sceneResults' = 1..(Len(sceneResults) + 1)
          BY <3>2
        <4>2. \A i \in 1..(Len(sceneResults) + 1) :
                sceneResults'[i] = IF i = Len(sceneResults) + 1 THEN r ELSE sceneResults[i]
          BY <3>2
        <4> QED
          BY <2>1, <3>2, <4>1, <4>2
      <3> QED
        BY <1>2, <3>1, <3>2
    <2>3. \A i \in DOMAIN sceneResults' : ~CarriesSwap(sceneResults[i])'
      BY <2>2 DEF CarriesSwap
    <2>4. SwapInOnePlace'
      BY <1>2, <2>1, <2>3 DEF SwapInOnePlace, swapVars
    <2>5. ResumeOutstanding'
      BY <1>2, <2>1 DEF ResumeOutstanding, swapVars
    <2> QED
      BY <2>4, <2>5
  <1>3. CASE BuildTransactions
    <2> DEFINE built == [i \in DOMAIN Head(highScene).txns |-> Processed(Head(highScene).txns[i])]
               r     == [type |-> "Transactions", txns |-> built, swap |-> OpensSwap(built)]
    <2>1. /\ sbPc = "recv" /\ sceneResults' = Append(sceneResults, r)
          /\ sbPc' = IF OpensSwap(built) THEN "wakeSwap" ELSE "wake"
          /\ UNCHANGED <<rbPc, swapTx, swapVars>>
      BY <1>3 DEF BuildTransactions, backendVars
    <2>2. CASE OpensSwap(built)
      <3>1. swapTx # "open" /\ swapQueue = <<>>
            /\ \A i \in DOMAIN sceneResults : ~CarriesSwap(sceneResults[i])
        BY <2>1 DEF SwapInOnePlace, Awaited
      <3>2. \A i \in DOMAIN sceneResults' :
              CarriesSwap(sceneResults'[i]) => i = Len(sceneResults) + 1
        BY <2>1, <3>1
      <3>3. \A i \in DOMAIN sceneResults' :
              CarriesSwap(sceneResults[i])' => i = Len(sceneResults) + 1
        BY <3>2 DEF CarriesSwap
      <3>4. SwapInOnePlace'
        BY <2>1, <2>2, <3>1, <3>3 DEF SwapInOnePlace, Awaited, swapVars
      <3>5. ResumeOutstanding'
        BY <2>1, <2>2, <3>1 DEF ResumeOutstanding, swapVars
      <3> QED
        BY <1>1, <3>4, <3>5
    <2>3. CASE ~OpensSwap(built)
      <3>1. ~CarriesSwap(r)
        BY <2>3 DEF CarriesSwap
      <3>2. \E x : sceneResults' = Append(sceneResults, x) /\ ~CarriesSwap(x)
        BY <2>1, <3>1
      <3> QED
        BY <1>1, <1>2, <2>1, <2>3, <3>2
    <2> QED
      BY <1>1, <2>2, <2>3
  <1>4. CASE BuilderDeleteDocument
    BY <1>1, <1>2, <1>4 DEF BuilderDeleteDocument, backendVars
  <1>5. CASE BuilderFlush
    BY <1>1, <1>2, <1>5 DEF BuilderFlush, backendVars, CarriesSwap
  <1>6. CASE BuilderClearNamespace
    BY <1>1, <1>2, <1>6 DEF BuilderClearNamespace, backendVars, CarriesSwap
  <1>7. CASE BuilderStop
    <2>1. ~CarriesSwap([type |-> "Stopped"])
      BY DEF CarriesSwap
    <2>2. /\ sbPc = "recv" /\ sbPc' = "done" /\ UNCHANGED <<rbPc, swapTx, swapVars>>
          /\ sceneResults' = Append(sceneResults, [type |-> "Stopped"])
      BY <1>7 DEF BuilderStop, backendVars
    <2> QED
      BY <1>1, <1>2, <2>1, <2>2, Zenon
  <1>8. CASE WakeBackend
    BY <1>1, <1>8 DEF WakeBackend, backendVars, SwapInOnePlace, Awaited, ResumeOutstanding,
       swapVars
  <1>9. CASE ReceiveSwap
    <2>1. \A i \in DOMAIN sceneResults : ~CarriesSwap(sceneResults[i])
      BY <1>9 DEF ReceiveSwap, SwapInOnePlace, SwapDisconnected, TxnsOf, CarriesSwap
    <2>2. SwapInOnePlace'
      BY <1>9, <2>1 DEF ReceiveSwap, SwapInOnePlace, CarriesSwap
    <2>3. ResumeOutstanding'
      BY <1>9 DEF ReceiveSwap, ResumeOutstanding
    <2> QED
      BY <1>1, <2>2, <2>3
  <1>10. CASE PostSceneSwap
    BY <1>1, <1>10 DEF PostSceneSwap, backendVars, SwapInOnePlace, Awaited, ResumeOutstanding
  <1> QED
    BY <1>3, <1>4, <1>5, <1>6, <1>7, <1>8, <1>9, <1>10 DEF SceneBuilder

(* The render backend takes the channel with the result that carries it and *)
(* waits for each Complete to be answered.                                 *)
LEMMA HandshakeBackend ==
  ASSUME TypeOK, HandshakeInv, Backend
  PROVE  HandshakeInv'
  <1> USE DEF HandshakeInv, TypeOK, BuilderTypeOK, ChannelTypeOK, BackendTypeOK
  <1>1. ASSUME UNCHANGED <<sbPc, swapVars>>, sceneResults # <<>>,
               sceneResults' = Tail(sceneResults),
               swapTx' = "open" => swapTx = "open" \/ CarriesSwap(Head(sceneResults))
        PROVE  SwapInOnePlace'
    <2>1. /\ DOMAIN Tail(sceneResults) = 1..(Len(sceneResults) - 1)
          /\ \A i \in 1..(Len(sceneResults) - 1) :
               i + 1 \in DOMAIN sceneResults /\ Tail(sceneResults)[i] = sceneResults[i + 1]
          /\ 1 \in DOMAIN sceneResults /\ Head(sceneResults) = sceneResults[1]
      BY <1>1
    <2>2. \A i \in DOMAIN sceneResults' : CarriesSwap(sceneResults[i])' <=> CarriesSwap(sceneResults[i + 1])
      BY <1>1, <2>1 DEF CarriesSwap
    <2>3. \A i, j \in 1..(Len(sceneResults) - 1) : i + 1 = j + 1 => i = j
      BY <2>1
    <2>4. \A i \in 1..(Len(sceneResults) - 1) : i + 1 # 1
      BY <2>1
    <2>5. DOMAIN sceneResults' = 1..(Len(sceneResults) - 1)
      BY <1>1, <2>1
    <2>6. Awaited' <=> Awaited
      BY <1>1 DEF Awaited
    <2>7. CASE ~CarriesSwap(Head(sceneResults))
      <3>1. swapTx' = "open" => Awaited'
        BY <1>1, <2>6, <2>7 DEF SwapInOnePlace
      <3>2. swapQueue' # <<>> => Awaited'
        BY <1>1, <2>6 DEF SwapInOnePlace, swapVars
      <3>3. ASSUME NEW i \in DOMAIN sceneResults', CarriesSwap(sceneResults[i])'
            PROVE  /\ Awaited' /\ swapTx' # "open" /\ swapQueue' = <<>>
                   /\ \A j \in DOMAIN sceneResults' : CarriesSwap(sceneResults[j])' => j = i
        <4>1. i \in 1..(Len(sceneResults) - 1) /\ CarriesSwap(sceneResults[i + 1])
          BY <2>2, <2>5, <3>3
        <4>2. /\ Awaited /\ swapTx # "open" /\ swapQueue = <<>>
              /\ \A k \in DOMAIN sceneResults : CarriesSwap(sceneResults[k]) => k = i + 1
          BY <2>1, <4>1 DEF SwapInOnePlace
        <4>3. ASSUME NEW j \in DOMAIN sceneResults', CarriesSwap(sceneResults[j])'
              PROVE  j = i
          <5>1. j \in 1..(Len(sceneResults) - 1) /\ CarriesSwap(sceneResults[j + 1])
            BY <2>2, <2>5, <4>3
          <5>2. j + 1 = i + 1
            BY <2>1, <4>2, <5>1
          <5> QED
            BY <2>3, <4>1, <5>1, <5>2
        <4> QED
          BY <1>1, <2>6, <2>7, <4>2, <4>3 DEF swapVars
      <3> QED
        BY <3>1, <3>2, <3>3 DEF SwapInOnePlace
    <2>8. CASE CarriesSwap(Head(sceneResults))
      <3>1. Awaited /\ swapQueue = <<>>
        BY <2>1, <2>8 DEF SwapInOnePlace
      <3>2. \A i \in DOMAIN sceneResults' : ~CarriesSwap(sceneResults[i])'
        <4>1. \A k \in DOMAIN sceneResults : CarriesSwap(sceneResults[k]) => k = 1
          BY <2>1, <2>8 DEF SwapInOnePlace
        <4> QED
          BY <2>1, <2>2, <2>4, <2>5, <4>1
      <3> QED
        BY <1>1, <2>6, <3>1, <3>2 DEF SwapInOnePlace, swapVars
    <2> QED
      BY <1>1, <2>7, <2>8
  <1>2. ASSUME UNCHANGED <<sbPc, swapVars, sceneResults>>,
               swapTx' = "open" => swapTx = "open"
        PROVE  SwapInOnePlace'
    <2>1. \A i \in DOMAIN sceneResults : CarriesSwap(sceneResults[i])' <=> CarriesSwap(sceneResults[i])
      BY <1>2 DEF CarriesSwap
    <2>2. Awaited' <=> Awaited
      BY <1>2 DEF Awaited
    <2> QED
      BY <1>2, <2>1, <2>2 DEF SwapInOnePlace, swapVars
  <1>3. ASSUME UNCHANGED <<sbPc, swapVars>>, rbPc' = "resume" <=> rbPc = "resume"
        PROVE  ResumeOutstanding'
    BY <1>3 DEF ResumeOutstanding, swapVars
  <1>4. ASSUME NextTransaction PROVE /\ rbPc' \in {"poll", "apply"}
                                     /\ swapTx' = "open" => swapTx = "open"
    BY <1>4 DEF NextTransaction
  <1>5. CASE PollTransactions
    <2>1. /\ rbPc = "poll" /\ rbPc' = "apply" /\ UNCHANGED <<sbPc, swapVars>>
          /\ sceneResults # <<>> /\ sceneResults' = Tail(sceneResults)
      BY <1>5 DEF PollTransactions, At, sbVars
    <2>2. swapTx' = "open" => CarriesSwap(Head(sceneResults))
      BY <1>5, ResultOf DEF PollTransactions, CarriesSwap
    <2>3. SwapInOnePlace'
      BY <1>1, <2>1, <2>2
    <2> QED
      BY <1>3, <2>1, <2>3 DEF Working
  <1>6. CASE PollFlushComplete
    <2>1. /\ UNCHANGED <<rbPc, work, swapTx, sbPc, swapVars>>
          /\ sceneResults # <<>> /\ sceneResults' = Tail(sceneResults)
          /\ ~CarriesSwap(Head(sceneResults))
      BY <1>6 DEF PollFlushComplete, At, sbVars, backendVars, CarriesSwap
    <2> QED
      BY <1>1, <1>3, <2>1 DEF Working
  <1>7. CASE PollClearNamespace
    <2>1. /\ UNCHANGED <<rbPc, work, swapTx, sbPc, swapVars>>
          /\ sceneResults # <<>> /\ sceneResults' = Tail(sceneResults)
          /\ ~CarriesSwap(Head(sceneResults))
      BY <1>7 DEF PollClearNamespace, At, sbVars, CarriesSwap
    <2> QED
      BY <1>1, <1>3, <2>1 DEF Working
  <1>8. CASE PollNothing
    <2>1. /\ UNCHANGED <<work, swapTx, sbPc, swapVars, sceneResults>>
          /\ rbPc = "poll" /\ rbPc' = "api"
      BY <1>8 DEF PollNothing, At, sbVars
    <2> QED
      BY <1>2, <1>3, <2>1 DEF Working
  <1>9. CASE Publish \/ \E d \in Docs : NopDocument(d)
    <2>1. UNCHANGED <<rbPc, work, swapTx, sbPc, swapVars, sceneResults>>
      BY <1>9 DEF Publish, NopDocument, sbVars
    <2> QED
      BY <1>2, <1>3, <2>1 DEF Working
  <1>10. CASE SkipTransaction
    <2>1. CASE swapTx = "closed"
      <3>1. /\ UNCHANGED <<work, swapTx, sbPc, swapVars, sceneResults>>
            /\ rbPc = "apply" /\ rbPc' = "panicked"
        BY <1>10, <2>1 DEF SkipTransaction, At, sbVars, swapVars
      <3> QED
        BY <1>2, <1>3, <3>1 DEF Working
    <2>2. CASE swapTx # "closed"
      <3>1. /\ NextTransaction /\ rbPc = "apply"
            /\ swapQueue' = IF swapTx = "open" THEN Append(swapQueue, "Aborted") ELSE swapQueue
            /\ UNCHANGED <<sbPc, resume, sceneResults>>
        BY <1>10, <2>2 DEF SkipTransaction, At, sbVars
      <3>2. CASE swapTx = "open"
        <4>1. \A i \in DOMAIN sceneResults : ~CarriesSwap(sceneResults[i])
          BY <3>2 DEF SwapInOnePlace
        <4>2. \A i \in DOMAIN sceneResults : ~CarriesSwap(sceneResults[i])'
          BY <3>1, <4>1 DEF CarriesSwap
        <4>3. Awaited'
          BY <3>1, <3>2 DEF SwapInOnePlace, Awaited
        <4>4. SwapInOnePlace'
          BY <3>1, <4>2, <4>3 DEF SwapInOnePlace
        <4>5. \A i \in DOMAIN swapQueue' : swapQueue'[i] = "Complete" => i \in DOMAIN swapQueue /\ swapQueue[i] = "Complete"
          BY <3>1, <3>2
        <4> QED
          BY <1>4, <3>1, <4>4, <4>5 DEF ResumeOutstanding, Working
      <3>3. CASE swapTx # "open"
        <4>1. UNCHANGED <<sbPc, swapVars, sceneResults>>
          BY <3>1, <3>3 DEF swapVars
        <4> QED
          BY <1>2, <1>3, <1>4, <3>1, <4>1 DEF Working
      <3> QED
        BY <3>2, <3>3
    <2> QED
      BY <2>1, <2>2
  <1>11. CASE SwapAndWait
    <2>1. CASE swapTx = "open"
      <3>1. /\ rbPc = "apply" /\ rbPc' = "resume" /\ resume' = "waiting" /\ work # <<>>
            /\ swapQueue' = Append(swapQueue, "Complete")
            /\ UNCHANGED <<sbPc, sceneResults, swapTx, work>>
        BY <1>11, <2>1 DEF SwapAndWait, At, sbVars
      <3>2. \A i \in DOMAIN sceneResults : ~CarriesSwap(sceneResults[i])
        BY <2>1 DEF SwapInOnePlace
      <3>3. \A i \in DOMAIN sceneResults : ~CarriesSwap(sceneResults[i])'
        BY <3>1, <3>2 DEF CarriesSwap
      <3>4. SwapInOnePlace'
        BY <2>1, <3>1, <3>3 DEF SwapInOnePlace, Awaited
      <3> QED
        BY <3>1, <3>4 DEF ResumeOutstanding, Working
    <2>2. CASE swapTx # "open"
      <3>1. /\ UNCHANGED <<work, swapTx, sbPc, swapVars, sceneResults>>
            /\ rbPc = "apply" /\ rbPc' = "panicked"
        BY <1>11, <2>2 DEF SwapAndWait, At, sbVars, swapVars
      <3> QED
        BY <1>2, <1>3, <3>1 DEF Working
    <2> QED
      BY <2>1, <2>2
  <1>12. CASE UpdateTransaction
    <2>1. /\ UNCHANGED <<work, swapTx, sbPc, swapVars, sceneResults>>
          /\ rbPc = "apply" /\ rbPc' = "settle" /\ work # <<>>
      BY <1>12 DEF UpdateTransaction, UpdateHead, At, sbVars
    <2> QED
      BY <1>2, <1>3, <2>1 DEF Working
  <1>13. CASE ResumeAndUpdate
    <2>1. /\ UNCHANGED <<work, swapTx, sbPc, swapQueue, sceneResults>>
          /\ rbPc = "resume" /\ rbPc' = "settle" /\ resume' = "none"
          /\ resume \in {"sent", "dropped"}
      BY <1>13 DEF ResumeAndUpdate, UpdateHead, HookDone, At, sbVars
    <2>2. \A i \in DOMAIN sceneResults : CarriesSwap(sceneResults[i])' <=> CarriesSwap(sceneResults[i])
      BY <2>1 DEF CarriesSwap
    <2>3. SwapInOnePlace'
      BY <2>1, <2>2 DEF SwapInOnePlace, Awaited
    <2>4. ResumeOutstanding'
      BY <2>1 DEF ResumeOutstanding
    <2> QED
      BY <2>1, <2>3, <2>4 DEF Working
  <1>14. CASE Settle
    <2>1. /\ rbPc = "settle" /\ rbPc' \in {"notify", "poll", "apply"}
          /\ rbPc' = "notify" => work' = work
          /\ swapTx' = "open" => swapTx = "open"
          /\ UNCHANGED <<sbPc, swapVars, sceneResults>>
      BY <1>4, <1>14 DEF Settle, At, sbVars
    <2> QED
      BY <1>2, <1>3, <2>1 DEF Working
  <1>15. CASE NewFrameReady
    <2>1. /\ rbPc = "notify" /\ rbPc' \in {"poll", "apply"}
          /\ swapTx' = "open" => swapTx = "open"
          /\ UNCHANGED <<sbPc, swapVars, sceneResults>>
      BY <1>4, <1>15 DEF NewFrameReady, At, sbVars
    <2> QED
      BY <1>2, <1>3, <2>1 DEF Working
  <1>16. CASE \/ ReceiveForSceneBuilder \/ ReceiveForBackend
              \/ ReceiveAddDocument \/ ReceiveDeleteDocument \/ ReceiveForwarded
              \/ ReceiveMemoryPressure \/ ReceiveWakeUp \/ ReceiveShutDown
    <2>1. /\ rbPc = "api" /\ rbPc' \in {"poll", "apply", "stopping"}
          /\ UNCHANGED <<swapTx, sbPc, swapVars, sceneResults>>
      BY <1>16 DEF ReceiveForSceneBuilder, ReceiveForBackend, ReceiveAddDocument,
         ReceiveDeleteDocument, ReceiveForwarded, ReceiveMemoryPressure, ReceiveWakeUp,
         ReceiveShutDown, Receives, At, sbVars
    <2> QED
      BY <1>2, <1>3, <2>1 DEF Working
  <1>17. CASE Discard
    <2>1. /\ rbPc = "stopping" /\ UNCHANGED <<rbPc, work, swapTx, sbPc, swapVars>>
          /\ sceneResults # <<>> /\ sceneResults' = Tail(sceneResults)
      BY <1>17 DEF Discard, At, backendVars, sbVars
    <2> QED
      BY <1>1, <1>3, <2>1 DEF Working
  <1>18. CASE Stopped
    <2>1. /\ rbPc = "stopping" /\ rbPc' = "done" /\ UNCHANGED <<work, swapTx, sbPc, swapVars>>
          /\ sceneResults # <<>> /\ sceneResults' = Tail(sceneResults)
          /\ ~CarriesSwap(Head(sceneResults))
      BY <1>18 DEF Stopped, At, sbVars, CarriesSwap
    <2> QED
      BY <1>1, <1>3, <2>1 DEF Working
  <1> QED
    BY <1>5, <1>6, <1>7, <1>8, <1>9, <1>10, <1>11, <1>12, <1>13, <1>14, <1>15, <1>16,
       <1>17, <1>18 DEF Backend

(* Together with the types, it is inductive.                               *)
LEMMA HandshakeStep ==
  ASSUME TypeOK, HandshakeInv, [Next]_vars
  PROVE  HandshakeInv'
  <1>1. CASE \/ \E m \in Menu : Send(m)
             \/ \E c \in Clients : Flush(c)
             \/ LowForward \/ Renderer \/ Rest \/ UNCHANGED vars
    <2>1. UNCHANGED <<rbPc, work, swapTx, sbPc, sceneResults, swapVars>>
      BY <1>1 DEF Send, Flush, LowForward, Renderer, RendererWake, UpdatePipelineInfo,
         UpdateDocumentFrame, UpdateNotifications, UpdateResources, UpdateDone, Render,
         Rest, vars, backendVars, sbVars
    <2> QED
      BY <2>1, HandshakeStutter
  <1> QED
    BY <1>1, HandshakeBackend, HandshakeBuilder DEF Next

(* So are the types.                                                       *)
LEMMA TypeStep ==
  ASSUME TypeOK, HandshakeInv, [Next]_vars
  PROVE  TypeOK'
  <1>1. CASE Rest \/ UNCHANGED vars
    <2>1. UNCHANGED vars
      BY <1>1 DEF Rest
    <2> QED
      BY <2>1 DEF vars, TypeOK, clientVars, ClientTypeOK, ChannelTypeOK, backendVars,
         BackendTypeOK, sbVars, swapVars, BuilderTypeOK, rendererVars, RendererTypeOK,
         HistoryTypeOK
  <1>2. CASE Backend
    BY <1>2, PollTypes, ApplyTypes, ReceiveTypes DEF Backend, HandshakeInv
  <1> QED
    BY <1>1, <1>2, ClientTypes, LowTypes, BuilderTypes, RendererTypes DEF Next

LEMMA TypeStart == Init => TypeOK
  <1> SUFFICES ASSUME Init PROVE TypeOK
    OBVIOUS
  <1>1. ClientTypeOK
    BY DEF Init, ClientTypeOK
  <1>2. ChannelTypeOK
    <2>1. /\ api = <<>> /\ lowScene = <<>> /\ highScene = <<>> /\ sceneResults = <<>>
          /\ output = <<>> /\ woken = FALSE
      BY DEF Init
    <2> QED
      BY <2>1, EmptySeq DEF ChannelTypeOK
  <1>3. HistoryTypeOK
    BY DEF Init, HistoryTypeOK
  <1>4. docs \in [Docs -> Document] /\ sbScene \in [Docs -> Scene]
    BY NewDocumentType, EmptySceneType DEF Init
  <1>5. BackendTypeOK
    <2>1. /\ rbPc = "poll" /\ alive = InitialDocs /\ nops = {}
          /\ required = FALSE /\ swapTx = "none"
      BY DEF Init
    <2>2. work = <<>> /\ outbox = <<>>
      BY DEF Init
    <2> QED
      BY <1>4, <2>1, <2>2, EmptySeq, PipelineAssumption DEF BackendTypeOK
  <1>6. BuilderTypeOK
    BY <1>4 DEF Init, BuilderTypeOK
  <1>7. RendererTypeOK
    BY DEF Init, RendererTypeOK
  <1> QED
    BY <1>1, <1>2, <1>3, <1>5, <1>6, <1>7 DEF TypeOK

(* Every variable keeps its type, whatever the messages, documents and     *)
(* pipelines: in particular every transaction, request and result that     *)
(* crosses a channel is one its receiver knows.                            *)
THEOREM TypeCorrect == Spec => [](TypeOK /\ HandshakeInv)
  <1>1. Init => TypeOK /\ HandshakeInv
    BY TypeStart, HandshakeStart
  <1>2. TypeOK /\ HandshakeInv /\ [Next]_vars => (TypeOK /\ HandshakeInv)'
    BY TypeStep, HandshakeStep
  <1> QED
    BY <1>1, <1>2, PTL DEF Spec

(* The render backend is stopped while the post_scene_swap hook of a       *)
(* completed swap runs.                                                    *)
THEOREM Exclusion == Spec => []HookExclusion
  <1>1. TypeOK /\ HandshakeInv => HookExclusion
    BY DEF HandshakeInv, ResumeOutstanding, HookExclusion
  <1> QED
    BY <1>1, TypeCorrect, PTL

-----------------------------------------------------------------------------
(* Queues of messages for one document each.                               *)
LEMMA SingleHead ==
  ASSUME NEW S, NEW q \in Seq(S), q # <<>>, AllSingle(q)
  PROVE  IsSingle(Head(q)) /\ AllSingle(Tail(q))
  <1>1. /\ 1 \in DOMAIN q /\ Head(q) = q[1]
        /\ \A i \in DOMAIN Tail(q) : i + 1 \in DOMAIN q /\ Tail(q)[i] = q[i + 1]
    OBVIOUS
  <1> QED
    BY <1>1 DEF AllSingle

LEMMA SingleAppend ==
  ASSUME NEW S, NEW q \in Seq(S), NEW m, AllSingle(q), IsSingle(m)
  PROVE  AllSingle(Append(q, m))
  <1>1. /\ DOMAIN Append(q, m) = 1..(Len(q) + 1) /\ DOMAIN q = 1..Len(q)
        /\ \A i \in 1..(Len(q) + 1) : Append(q, m)[i] = IF i = Len(q) + 1 THEN m ELSE q[i]
    OBVIOUS
  <1>2. \A i \in 1..(Len(q) + 1) : i # Len(q) + 1 => i \in 1..Len(q)
    OBVIOUS
  <1> QED
    BY <1>1, <1>2 DEF AllSingle

LEMMA SinglePrimed ==
  ASSUME NEW q, NEW r, q' = r, AllSingle(r)
  PROVE  AllSingle(q)'
  BY DEF AllSingle, IsSingle

(* A client that sends nothing else fills every queue with nothing else.   *)
LEMMA OneDocumentQueues ==
  ASSUME OneDocumentMenu, TypeOK, OneDocumentQueued, [Next]_vars
  PROVE  OneDocumentQueued'
  <1> USE DEF TypeOK, ChannelTypeOK, OneDocumentQueued
  <1>1. CASE \E m \in Menu : Send(m)
    <2>1. PICK m \in Menu : Send(m)
      BY <1>1
    <2>2. IsSingle(m) /\ m \in ApiMsg
      BY MenuAssumption DEF OneDocumentMenu
    <2>3. IsSingle(Numbered(m, sends + 1))
      <3>1. CASE m.type = "UpdateDocuments"
        <4>1. m = [type |-> "UpdateDocuments", txns |-> m.txns] /\ m.txns \in Seq(Transaction)
          BY <2>2, <3>1 DEF ApiMsg
        <4>2. Len([i \in DOMAIN m.txns |-> [m.txns[i] EXCEPT !.id = sends + 1]]) = Len(m.txns)
          BY <4>1
        <4> QED
          BY <2>2, <3>1, <4>1, <4>2 DEF Numbered, IsSingle
      <3> QED
        BY <2>2, <3>1 DEF Numbered
    <2>4. AllSingle(api')
      BY <2>1, <2>3, SingleAppend DEF Send
    <2> QED
      BY <2>1, <2>4 DEF Send, AllSingle, IsSingle
  <1>2. CASE \E c \in Clients : Flush(c)
    <2>1. PICK c \in Clients : Flush(c)
      BY <1>2
    <2>2. IsSingle([type |-> "FlushSceneBuilder", client |-> c])
      BY DEF IsSingle
    <2>3. AllSingle(api')
      BY <2>1, <2>2, SingleAppend DEF Flush
    <2> QED
      BY <2>1, <2>3 DEF Flush, AllSingle, IsSingle
  <1>3. CASE \/ PollTransactions \/ PollFlushComplete \/ PollClearNamespace \/ Discard
    <2>1. sceneResults # <<>> /\ sceneResults' = Tail(sceneResults)
          /\ UNCHANGED <<api, lowScene, highScene>>
      BY <1>3 DEF PollTransactions, PollFlushComplete, PollClearNamespace, Discard
    <2>2. AllSingle(sceneResults')
      BY <2>1, SingleHead
    <2> QED
      BY <2>1, <2>2 DEF AllSingle, IsSingle
  <1>4. CASE Stopped
    <2>1. AllSingle(sceneResults') /\ AllSingle(api')
      BY <1>4, SingleHead DEF Stopped, AllSingle
    <2> QED
      BY <1>4, <2>1 DEF Stopped, AllSingle, IsSingle
  <1>5. CASE \/ PollNothing \/ Publish \/ \E d \in Docs : NopDocument(d)
             \/ SkipTransaction \/ SwapAndWait \/ UpdateTransaction \/ ResumeAndUpdate
             \/ Settle \/ NewFrameReady \/ ReceiveSwap \/ PostSceneSwap
             \/ Renderer \/ Rest \/ UNCHANGED vars
    <2>1. UNCHANGED <<api, lowScene, highScene, sceneResults>>
      BY <1>5 DEF PollNothing, Publish, NopDocument, SkipTransaction, SwapAndWait,
         UpdateTransaction, ResumeAndUpdate, Settle, NewFrameReady, ReceiveSwap,
         PostSceneSwap, Renderer, RendererWake, UpdatePipelineInfo, UpdateDocumentFrame,
         UpdateNotifications, UpdateResources, UpdateDone, Render, Rest, vars
    <2> QED
      BY <2>1 DEF AllSingle, IsSingle
  <1>6. CASE \/ ReceiveForSceneBuilder \/ ReceiveForBackend
             \/ ReceiveAddDocument \/ ReceiveDeleteDocument \/ ReceiveForwarded
             \/ ReceiveMemoryPressure \/ ReceiveWakeUp \/ ReceiveShutDown
    <2>1. api # <<>> /\ api' = Tail(api) /\ UNCHANGED sceneResults
      BY <1>6 DEF ReceiveForSceneBuilder, ReceiveForBackend, ReceiveAddDocument,
         ReceiveDeleteDocument, ReceiveForwarded, ReceiveMemoryPressure, ReceiveWakeUp,
         ReceiveShutDown, Receives
    <2>2. IsSingle(Head(api)) /\ AllSingle(api')
      BY <2>1, SingleHead
    <2>3. \/ UNCHANGED <<lowScene, highScene>>
          \/ \E r : /\ IsSingle(r)
                     /\ \/ lowScene' = Append(lowScene, r) /\ UNCHANGED highScene
                        \/ highScene' = Append(highScene, r) /\ UNCHANGED lowScene
      <3>1. CASE ReceiveForSceneBuilder
        <4> DEFINE r == [type |-> "Transactions", txns |-> Head(api).txns]
        <4>1. IsSingle(r)
          BY <2>2, <3>1 DEF ReceiveForSceneBuilder, Receives, IsSingle
        <4> QED
          BY <3>1, <4>1 DEF ReceiveForSceneBuilder, ForwardTransactions
      <3>2. CASE ReceiveDeleteDocument
        BY <2>2, <3>2 DEF ReceiveDeleteDocument, SendLow
      <3>3. CASE ReceiveForwarded
        <4>1. IsSingle(RequestFor(Head(api)))
          BY <2>2 DEF RequestFor, IsSingle
        <4> QED
          BY <3>3, <4>1 DEF ReceiveForwarded, SendLow
      <3>4. CASE ReceiveShutDown
        <4>1. IsSingle([type |-> "Stop"])
          BY DEF IsSingle
        <4> QED
          BY <3>4, <4>1 DEF ReceiveShutDown
      <3> QED
        BY <1>6, <3>1, <3>2, <3>3, <3>4 DEF ReceiveForBackend, ReceiveAddDocument,
           ReceiveMemoryPressure, ReceiveWakeUp
    <2>4. AllSingle(lowScene') /\ AllSingle(highScene')
      BY <2>3, SingleAppend
    <2> QED
      BY <2>1, <2>2, <2>4 DEF AllSingle, IsSingle
  <1>7. CASE LowForward
    <2>1. AllSingle(highScene') /\ AllSingle(lowScene')
      BY <1>7, SingleHead, SingleAppend DEF LowForward
    <2> QED
      BY <1>7, <2>1 DEF LowForward, AllSingle, IsSingle
  <1>8. CASE \/ BuildTransactions \/ BuilderDeleteDocument \/ BuilderFlush
             \/ BuilderClearNamespace \/ BuilderStop
    <2>1. highScene # <<>> /\ highScene' = Tail(highScene) /\ UNCHANGED <<api, lowScene>>
      BY <1>8 DEF BuildTransactions, BuilderDeleteDocument, BuilderFlush,
         BuilderClearNamespace, BuilderStop
    <2>2. IsSingle(Head(highScene)) /\ AllSingle(highScene')
      BY <2>1, SingleHead
    <2>3. \/ UNCHANGED sceneResults
          \/ \E r : IsSingle(r) /\ sceneResults' = Append(sceneResults, r)
      <3>1. CASE BuildTransactions
        <4> DEFINE txns  == Head(highScene).txns
                   built == [i \in DOMAIN txns |-> Processed(txns[i])]
                   r     == [type |-> "Transactions", txns |-> built, swap |-> OpensSwap(built)]
        <4>1. txns \in Seq(Transaction) /\ Len(txns) = 1
          BY <2>1, <2>2, <3>1, RequestOfQueue DEF BuildTransactions, IsSingle
        <4>2. Len(built) = 1
          BY <4>1
        <4>3. IsSingle(r)
          BY <4>2 DEF IsSingle
        <4> QED
          BY <3>1, <4>3 DEF BuildTransactions
      <3>2. CASE BuilderFlush
        <4>1. IsSingle([type |-> "FlushComplete", client |-> Head(highScene).client])
          BY DEF IsSingle
        <4> QED
          BY <3>2, <4>1 DEF BuilderFlush
      <3>3. CASE BuilderClearNamespace
        BY <2>2, <3>3 DEF BuilderClearNamespace
      <3>4. CASE BuilderStop
        <4>1. IsSingle([type |-> "Stopped"])
          BY DEF IsSingle
        <4> QED
          BY <3>4, <4>1 DEF BuilderStop
      <3> QED
        BY <1>8, <3>1, <3>2, <3>3, <3>4 DEF BuilderDeleteDocument
    <2>4. AllSingle(sceneResults')
      BY <2>3, SingleAppend
    <2> QED
      BY <2>1, <2>2, <2>4 DEF AllSingle, IsSingle
  <1>9. CASE WakeBackend
    <2>1. IsSingle([type |-> "WakeUp"])
      BY DEF IsSingle
    <2>2. AllSingle(api')
      BY <1>9, <2>1, SingleAppend DEF WakeBackend
    <2> QED
      BY <1>9, <2>2 DEF WakeBackend, AllSingle, IsSingle
  <1> QED
    BY <1>1, <1>2, <1>3, <1>4, <1>5, <1>6, <1>7, <1>8, <1>9 DEF Next, Backend, SceneBuilder

(* The end of a batch of one.                                              *)
LEMMA TailOfOne ==
  ASSUME NEW S, NEW q \in Seq(S), q # <<>>, Len(q) \in {0, 1}
  PROVE  Tail(q) = <<>>
  <1>1. Len(q) = 1
    OBVIOUS
  <1>2. Tail(q) \in Seq(S) /\ Len(Tail(q)) = 0
    BY <1>1
  <1> QED
    BY <1>2, EmptySeq

(* The one report is made while its receiver is there.                     *)
LEMMA ReportedOnceStep ==
  ASSUME TypeOK, HandshakeInv, OneDocumentQueued, ReportedOnce, [Next]_vars
  PROVE  ReportedOnce'
  <1> USE DEF TypeOK, BackendTypeOK, ChannelTypeOK, BuilderTypeOK
  <1>1. ASSUME UNCHANGED <<rbPc, work, swapTx, swapVars>> PROVE ReportedOnce'
    BY <1>1 DEF ReportedOnce, NoPanic, swapVars
  <1>2. CASE \/ \E m \in Menu : Send(m)
             \/ \E c \in Clients : Flush(c)
             \/ LowForward \/ Renderer \/ Rest \/ UNCHANGED vars
             \/ PollFlushComplete \/ PollClearNamespace \/ Publish
             \/ \E d \in Docs : NopDocument(d)
             \/ Discard
             \/ BuildTransactions \/ BuilderDeleteDocument \/ BuilderFlush
             \/ BuilderClearNamespace \/ BuilderStop \/ WakeBackend
    <2>1. UNCHANGED <<rbPc, work, swapTx, swapVars>>
      BY <1>2 DEF Send, Flush, LowForward, Renderer, RendererWake, UpdatePipelineInfo,
         UpdateDocumentFrame, UpdateNotifications, UpdateResources, UpdateDone, Render,
         Rest, vars, PollFlushComplete, PollClearNamespace, Publish, NopDocument, Discard,
         BuildTransactions, BuilderDeleteDocument, BuilderFlush, BuilderClearNamespace,
         BuilderStop, WakeBackend, backendVars
    <2> QED
      BY <1>1, <2>1
  <1>3. ASSUME work # <<>>, NextTransaction
        PROVE  work' = <<>> /\ rbPc' = "poll" /\ swapTx' = "none"
    <2>1. Tail(work) = <<>>
      BY <1>3, TailOfOne DEF ReportedOnce
    <2> QED
      BY <1>3, <2>1 DEF NextTransaction
  <1>4. CASE PollTransactions
    <2>1. work' = Head(sceneResults).txns /\ Len(Head(sceneResults).txns) = 1
      BY <1>4, SingleHead DEF PollTransactions, OneDocumentQueued, IsSingle
    <2>2. swapTx' = "open" => CarriesSwap(Head(sceneResults)) /\ Head(sceneResults) = sceneResults[1]
      BY <1>4, ResultOf DEF PollTransactions, CarriesSwap
    <2>3. swapTx' = "open" => swapQueue' = <<>>
      BY <1>4, <2>2 DEF PollTransactions, HandshakeInv, SwapInOnePlace, swapVars
    <2>4. rbPc = "poll" /\ rbPc' = "apply" /\ swapTx' \in {"none", "open"} /\ resume' = resume
      BY <1>4 DEF PollTransactions, At, swapVars
    <2>5. resume = "none"
      BY <2>4 DEF HandshakeInv, ResumeOutstanding
    <2> QED
      BY <2>1, <2>3, <2>4, <2>5 DEF ReportedOnce, NoPanic
  <1>5. CASE PollNothing
    <2>1. rbPc = "poll" /\ rbPc' = "api" /\ UNCHANGED <<work, swapTx, swapVars>>
      BY <1>5 DEF PollNothing, At
    <2> QED
      BY <2>1 DEF ReportedOnce, NoPanic, swapVars
  <1>6. CASE SkipTransaction
    <2>1. swapTx # "closed" /\ rbPc = "apply" /\ work # <<>>
      BY <1>6 DEF SkipTransaction, ReportedOnce, At
    <2>2. work' = <<>> /\ rbPc' = "poll" /\ swapTx' = "none"
      BY <1>3, <1>6, <2>1 DEF SkipTransaction
    <2> QED
      BY <2>2 DEF ReportedOnce, NoPanic
  <1>7. CASE SwapAndWait
    <2>1. swapTx = "open"
      BY <1>7 DEF SwapAndWait, ReportedOnce, At
    <2> QED
      BY <1>7, <2>1 DEF SwapAndWait, ReportedOnce, NoPanic
  <1>8. CASE UpdateTransaction
    BY <1>8 DEF UpdateTransaction, UpdateHead, ReportedOnce, NoPanic, At
  <1>9. CASE ResumeAndUpdate
    <2>1. swapTx # "open"
      BY <1>9 DEF ResumeAndUpdate, HookDone, ReportedOnce
    <2> QED
      BY <1>9, <2>1 DEF ResumeAndUpdate, UpdateHead, ReportedOnce, NoPanic
  <1>10. CASE Settle
    <2>1. rbPc = "settle" /\ work # <<>>
      BY <1>10 DEF Settle, At, HandshakeInv, Working
    <2>2. \/ work' = <<>> /\ rbPc' = "poll" /\ swapTx' = "none"
          \/ rbPc' = "notify" /\ UNCHANGED <<work, swapTx>>
      BY <1>3, <1>10, <2>1 DEF Settle
    <2>3. UNCHANGED swapVars
      BY <1>10 DEF Settle
    <2> QED
      BY <2>1, <2>2, <2>3 DEF ReportedOnce, NoPanic, swapVars
  <1>11. CASE NewFrameReady
    <2>1. rbPc = "notify" /\ work # <<>>
      BY <1>11 DEF NewFrameReady, At, HandshakeInv, Working
    <2>2. work' = <<>> /\ rbPc' = "poll" /\ swapTx' = "none"
      BY <1>3, <1>11, <2>1 DEF NewFrameReady
    <2> QED
      BY <2>2 DEF ReportedOnce, NoPanic
  <1>12. CASE \/ ReceiveForSceneBuilder
              \/ ReceiveAddDocument \/ ReceiveDeleteDocument \/ ReceiveForwarded
              \/ ReceiveMemoryPressure \/ ReceiveWakeUp \/ ReceiveShutDown
    <2>1. /\ rbPc = "api" /\ rbPc' \in {"poll", "stopping"}
          /\ UNCHANGED <<work, swapTx, swapVars>>
      BY <1>12 DEF ReceiveForSceneBuilder, ReceiveAddDocument, ReceiveDeleteDocument,
         ReceiveForwarded, ReceiveMemoryPressure, ReceiveWakeUp, ReceiveShutDown,
         Receives, At
    <2> QED
      BY <2>1 DEF ReportedOnce, NoPanic, swapVars
  <1>13. CASE ReceiveForBackend
    <2>1. Head(api).txns \in Seq(Transaction) /\ Len(Head(api).txns) = 1
      BY <1>13, SingleHead, MessageOf DEF ReceiveForBackend, Receives, OneDocumentQueued, IsSingle
    <2>2. Len(work') = 1
      BY <1>13, <2>1 DEF ReceiveForBackend
    <2>3. rbPc = "api" /\ rbPc' = "apply" /\ UNCHANGED <<swapTx, swapVars>>
      BY <1>13 DEF ReceiveForBackend, Receives, At
    <2> QED
      BY <2>2, <2>3 DEF ReportedOnce, NoPanic, swapVars
  <1>14. CASE Stopped
    <2>1. rbPc = "stopping" /\ rbPc' = "done" /\ UNCHANGED <<work, swapTx, swapVars>>
      BY <1>14 DEF Stopped, At
    <2> QED
      BY <2>1 DEF ReportedOnce, NoPanic, swapVars
  <1>15. CASE ReceiveSwap
    <2>1. /\ UNCHANGED <<rbPc, work>> /\ swapQueue' = <<>>
          /\ swapTx' = IF swapTx = "open" THEN "closed" ELSE swapTx
          /\ swapTx = "open" => swapQueue # <<>>
      BY <1>15 DEF ReceiveSwap, SwapDisconnected
    <2> QED
      BY <2>1 DEF ReportedOnce, NoPanic
  <1>16. CASE PostSceneSwap
    <2>1. UNCHANGED <<rbPc, work, swapTx, swapQueue>> /\ swapTx # "open"
      BY <1>16 DEF PostSceneSwap, backendVars, HandshakeInv, SwapInOnePlace, Awaited
    <2> QED
      BY <2>1 DEF ReportedOnce, NoPanic
  <1> QED
    BY <1>2, <1>4, <1>5, <1>6, <1>7, <1>8, <1>9, <1>10, <1>11, <1>12, <1>13, <1>14,
       <1>15, <1>16 DEF Next, Backend, SceneBuilder

(* With one document in every message, no unwrap() of the swap handshake   *)
(* fails: the scene builder listens until it has been told of the one      *)
(* scene it handed over (render_backend.rs, SceneSwapResult sends).        *)
THEOREM OneDocumentNoPanic ==
  ASSUME OneDocumentMenu
  PROVE  Spec => []NoPanic
  <1>1. Init => OneDocumentInv
    BY DEF Init, OneDocumentInv, OneDocumentQueued, AllSingle, ReportedOnce, NoPanic
  <1>2. TypeOK /\ HandshakeInv /\ OneDocumentInv /\ [Next]_vars => OneDocumentInv'
    BY OneDocumentQueues, ReportedOnceStep DEF OneDocumentInv
  <1>3. OneDocumentInv => NoPanic
    BY DEF OneDocumentInv, ReportedOnce
  <1> QED
    BY <1>1, <1>2, <1>3, TypeCorrect, PTL DEF Spec

-----------------------------------------------------------------------------
(***************************************************************************)
(* What ScenePipeline keeps in order: nothing overtakes a flush,           *)
(* transactions of one priority arrive as they were sent, a deleted        *)
(* document does not come back, what is asked to be notified is notified   *)
(* once, a valid frame is the one on screen and a removed pipeline is      *)
(* reported.                                                               *)
(*                                                                         *)
(* The argument is about one line, from the api channel through the queues *)
(* of the scene builder threads to its results, and about what can be      *)
(* behind what in it (NeverBehind).  Only a transaction of high priority   *)
(* ever leaves its place, past those in the low priority queue.            *)
(***************************************************************************)


(* What a message means to the order of things: the transactions it        *)
(* carries, the flush, deletion or addition it asks for.                   *)
TxnMark(t) == <<"txn", t.id, t.doc>>

MarksOf(m) ==
  CASE m.type \in {"UpdateDocuments", "Transactions"} -> {TxnMark(t) : t \in TxnsOf(m.txns)}
    [] m.type \in {"FlushSceneBuilder", "Flush"} -> {<<"flush", 0, m.client>>}
    [] m.type = "DeleteDocument" -> {<<"delete", 0, m.doc>>}
    [] m.type = "AddDocument"    -> {<<"add", 0, m.doc>>}
    [] m.type = "ClearNamespace" -> {<<"clear", 0, m.ns>>}
    [] OTHER -> {}

ResultMarks(r) ==
  CASE r.type = "Transactions"   -> {TxnMark(b.txn) : b \in TxnsOf(r.txns)}
    [] r.type = "FlushComplete"  -> {<<"flush", 0, r.client>>}
    [] r.type = "ClearNamespace" -> {<<"clear", 0, r.ns>>}
    [] OTHER -> {}

Marked(queue)  == [i \in DOMAIN queue |-> MarksOf(queue[i])]
Results(queue) == [i \in DOMAIN queue |-> ResultMarks(queue[i])]

(* The way through the threads, the end first, as marks.                   *)
ResultLine == Results(sceneResults)
HighLine   == Marked(highScene)
LowLine    == Marked(lowScene)
ApiLine    == Marked(api)
WorkMarks  == {TxnMark(b.txn) : b \in TxnsOf(work)}

Has(s, x) == \E i \in DOMAIN s : x \in s[i]

NoneBehind(s, x, y) == \A i, j \in DOMAIN s : i < j /\ x \in s[i] => y \notin s[j]

(* In the line r, h, l, a no y is behind an x.                             *)
InLine(r, h, l, a, x, y) ==
  /\ NoneBehind(r, x, y) /\ NoneBehind(h, x, y) /\ NoneBehind(l, x, y) /\ NoneBehind(a, x, y)
  /\ Has(r, x) => ~Has(h, y) /\ ~Has(l, y) /\ ~Has(a, y)
  /\ Has(h, x) => ~Has(l, y) /\ ~Has(a, y)
  /\ Has(l, x) => ~Has(a, y)

NeverBehind(y, x) == InLine(ResultLine, HighLine, LowLine, ApiLine, x, y)

Waiting(x) == Has(ResultLine, x) \/ Has(HighLine, x) \/ Has(LowLine, x) \/ Has(ApiLine, x)

SettledMark(n, d) == \E i \in DOMAIN settled : settled[i] = <<n, d>>

(* The numbers of what is on its way are those of messages sent, and a     *)
(* message that carries transactions carries the whole batch.              *)
IsBatchOf(txns, n) ==
  /\ n \in 1..sends /\ TxnsOf(txns) = Batch(n) /\ IsBatch(txns)

NumbersOK ==
  /\ \A t \in sent : t.id \in 1..sends
  /\ \A t, u \in sent : t.id = u.id /\ t.doc = u.doc => t = u
  /\ \A s \in TxnsOf(settled) : s[1] \in 1..sends

BatchesWhole ==
  /\ \A m \in TxnsOf(api) : m.type = "UpdateDocuments" =>
       \E n \in 1..sends : IsBatchOf(m.txns, n)
  /\ \A m \in TxnsOf(lowScene) : m.type = "Transactions" =>
       \E n \in 1..sends : IsBatchOf(m.txns, n) /\ ~UsesHighPriority(Batch(n))
  /\ \A m \in TxnsOf(highScene) : m.type = "Transactions" =>
       \E n \in 1..sends : IsBatchOf(m.txns, n)
  /\ \A m \in TxnsOf(sceneResults) : m.type = "Transactions" =>
       \A b, c \in TxnsOf(m.txns) : b.txn.id \in 1..sends /\ b.txn.id = c.txn.id

WorkOK ==
  /\ rbPc \in {"poll", "api", "stopping", "done"} => work = <<>>
  /\ \A b, c \in TxnsOf(work) : b.txn.id \in 1..sends /\ b.txn.id = c.txn.id
  /\ rbPc = "notify" => SettledMark(Head(work).txn.id, Head(work).txn.doc)

(* Nothing is lost until the system shuts down.                            *)
NothingLost ==
  rbPc \notin {"stopping", "done"} =>
    \A t \in sent : Settled(t) \/ Waiting(TxnMark(t)) \/ TxnMark(t) \in WorkMarks

(* No transaction sent before a flush is behind it.                        *)
FlushesInLine ==
  \A c \in Clients :
    /\ flushing[c] <= sends
    /\ flushing[c] = 0 => ~Waiting(<<"flush", 0, c>>)
    /\ NeverBehind(<<"flush", 0, c>>, <<"flush", 0, c>>)
    /\ \A n \in 1..sends, d \in Docs : n < flushing[c] =>
         NeverBehind(<<"txn", n, d>>, <<"flush", 0, c>>)

(* No transaction is behind a later one of its priority, and none settles  *)
(* after it.                                                               *)
SameWay(a, b) ==
  /\ UsesSceneBuilder(Batch(a)) /\ UsesSceneBuilder(Batch(b))
  /\ UsesHighPriority(Batch(a)) <=> UsesHighPriority(Batch(b))

Before(b, e, a, d) ==
  LET x == <<"txn", a, d>>
      y == <<"txn", b, e>>
  IN /\ NeverBehind(y, x)
     /\ x \in WorkMarks => ~Waiting(y)
     /\ SettledMark(a, d) => ~Waiting(y) /\ y \notin WorkMarks
     /\ \A i, j \in DOMAIN settled :
          settled[i] = <<a, d>> /\ settled[j] = <<b, e>> => j < i

TxnsInLine ==
  \A a, b \in 1..sends : b < a /\ SameWay(a, b) => \A d, e \in Docs : Before(b, e, a, d)

(* Once a document is closed, no transaction of it is behind that, and     *)
(* none is on the way before the document is added.                        *)
Addition(d) == <<"add", 0, d>>
Deletion(d) == <<"delete", 0, d>>
Clearing(d) == <<"clear", 0, NamespaceOf[d]>>
Closers(d)  == {Deletion(d), Clearing(d)}
TxnsFor(d)  == {<<"txn", n, d>> : n \in 1..sends}

InScene(x)   == Has(HighLine, x) \/ Has(LowLine, x)
InBuilder(d) == d \in sbAlive \/ \E x \in TxnsFor(d) : InScene(x)

ClosedLast(d) ==
  \A x \in Closers(d) :
    /\ life[d] # "closed" => ~Waiting(x)
    /\ \A y \in TxnsFor(d) \cup {Addition(d)} : NeverBehind(y, x)

AddedFirst(d) ==
  /\ \A x \in TxnsFor(d) : NeverBehind(Addition(d), x)
  /\ life[d] = "new" => ~InBuilder(d) /\ \A x \in TxnsFor(d) : ~Waiting(x)

GoneTogether(d) ==
  /\ Has(ResultLine, Clearing(d)) => d \notin sbAlive
  /\ rbPc # "done" /\ d \notin alive =>
       /\ life[d] = "open" => Has(ApiLine, Addition(d))
       /\ \A x \in TxnsFor(d) : Has(ApiLine, x) => Has(ApiLine, Addition(d))
       /\ InBuilder(d) => InScene(Deletion(d))

DocumentsInLine == \A d \in Docs : ClosedLast(d) /\ AddedFirst(d) /\ GoneTogether(d)

LineInv == /\ NumbersOK /\ BatchesWhole /\ WorkOK /\ NothingLost
           /\ FlushesInLine /\ TxnsInLine /\ DocumentsInLine

-----------------------------------------------------------------------------
(* Sequences of sets of marks.                                             *)
LEMMA HasTail ==
  ASSUME NEW S, NEW s \in Seq(S), s # <<>>, NEW x
  PROVE  Has(s, x) <=> x \in Head(s) \/ Has(Tail(s), x)
  <1>1. /\ 1 \in DOMAIN s /\ Head(s) = s[1]
        /\ \A i \in DOMAIN Tail(s) : i + 1 \in DOMAIN s /\ Tail(s)[i] = s[i + 1]
        /\ \A i \in DOMAIN s : i # 1 => i - 1 \in DOMAIN Tail(s) /\ Tail(s)[i - 1] = s[i]
    OBVIOUS
  <1> QED
    BY <1>1 DEF Has

LEMMA HasAppend ==
  ASSUME NEW S, NEW s \in Seq(S), NEW e, NEW x
  PROVE  Has(Append(s, e), x) <=> Has(s, x) \/ x \in e
  <1>1. /\ DOMAIN Append(s, e) = 1..(Len(s) + 1) /\ DOMAIN s = 1..Len(s) /\ Len(s) \in Nat
        /\ \A i \in 1..(Len(s) + 1) : Append(s, e)[i] = IF i = Len(s) + 1 THEN e ELSE s[i]
    OBVIOUS
  <1>2. \A i \in 1..(Len(s) + 1) : i # Len(s) + 1 => i \in 1..Len(s)
    BY <1>1
  <1>3. \A i \in 1..Len(s) : i \in 1..(Len(s) + 1) /\ i # Len(s) + 1
    BY <1>1
  <1>4. Len(s) + 1 \in 1..(Len(s) + 1)
    BY <1>1
  <1> QED
    BY <1>1, <1>2, <1>3, <1>4 DEF Has

LEMMA BehindTail ==
  ASSUME NEW S, NEW s \in Seq(S), s # <<>>, NEW x, NEW y
  PROVE  NoneBehind(s, x, y) =>
           NoneBehind(Tail(s), x, y) /\ (x \in Head(s) => ~Has(Tail(s), y))
  <1>1. /\ 1 \in DOMAIN s /\ Head(s) = s[1]
        /\ \A i \in DOMAIN Tail(s) : i + 1 \in DOMAIN s /\ Tail(s)[i] = s[i + 1]
        /\ \A i, j \in DOMAIN Tail(s) : 1 < i + 1 /\ (i < j => i + 1 < j + 1)
    OBVIOUS
  <1>2. ASSUME NoneBehind(s, x, y) PROVE NoneBehind(Tail(s), x, y)
    BY <1>1, <1>2 DEF NoneBehind
  <1>3. ASSUME NoneBehind(s, x, y), x \in Head(s) PROVE ~Has(Tail(s), y)
    BY <1>1, <1>3 DEF NoneBehind, Has
  <1> QED
    BY <1>2, <1>3

LEMMA BehindAppend ==
  ASSUME NEW S, NEW s \in Seq(S), NEW e, NEW x, NEW y,
         NoneBehind(s, x, y), Has(s, x) => y \notin e
  PROVE  NoneBehind(Append(s, e), x, y)
  <1>1. /\ DOMAIN Append(s, e) = 1..(Len(s) + 1) /\ DOMAIN s = 1..Len(s) /\ Len(s) \in Nat
        /\ \A i \in 1..(Len(s) + 1) : Append(s, e)[i] = IF i = Len(s) + 1 THEN e ELSE s[i]
    OBVIOUS
  <1> SUFFICES ASSUME NEW i \in 1..(Len(s) + 1), NEW j \in 1..(Len(s) + 1), i < j,
                      x \in Append(s, e)[i]
               PROVE  y \notin Append(s, e)[j]
    BY <1>1 DEF NoneBehind
  <1>2. i \in DOMAIN s /\ x \in s[i]
    BY <1>1
  <1>3. CASE j = Len(s) + 1
    BY <1>1, <1>2, <1>3 DEF Has
  <1>4. CASE j # Len(s) + 1
    <2>1. j \in DOMAIN s /\ Append(s, e)[j] = s[j]
      BY <1>1, <1>4
    <2> QED
      BY <1>2, <2>1 DEF NoneBehind
  <1> QED
    BY <1>3, <1>4

(* Where nothing is, nothing is behind anything.                           *)
LEMMA EmptyLine ==
  ASSUME NEW x
  PROVE  ~Has(<<>>, x) /\ \A y : NoneBehind(<<>>, x, y)
  BY DEF Has, NoneBehind

(* Sequences as the functions they are.                                    *)
LEMMA TailAsFunction ==
  ASSUME NEW S, NEW s \in Seq(S), s # <<>>
  PROVE  Tail(s) = [i \in 1..(Len(s) - 1) |-> s[i + 1]]
  <1> DEFINE t == [i \in 1..(Len(s) - 1) |-> s[i + 1]]
  <1>1. Len(s) - 1 \in Nat /\ \A i \in 1..(Len(s) - 1) : s[i + 1] \in S
    OBVIOUS
  <1>2. t \in Seq(S) /\ Len(t) = Len(s) - 1
    BY <1>1
  <1>3. /\ Tail(s) \in Seq(S) /\ Len(Tail(s)) = Len(s) - 1
        /\ \A i \in 1..Len(Tail(s)) : Tail(s)[i] = s[i + 1]
    OBVIOUS
  <1>4. \A i \in 1..Len(Tail(s)) : Tail(s)[i] = t[i]
    BY <1>3
  <1> HIDE DEF t
  <1>5. Tail(s) = t
    BY <1>2, <1>3, <1>4, SeqEqual
  <1> QED
    BY <1>5 DEF t

LEMMA AppendAsFunction ==
  ASSUME NEW S, NEW s \in Seq(S), NEW e \in S
  PROVE  Append(s, e) = [i \in 1..(Len(s) + 1) |-> IF i = Len(s) + 1 THEN e ELSE s[i]]
  <1> DEFINE t == [i \in 1..(Len(s) + 1) |-> IF i = Len(s) + 1 THEN e ELSE s[i]]
  <1>1. /\ Len(s) + 1 \in Nat
        /\ \A i \in 1..(Len(s) + 1) : (IF i = Len(s) + 1 THEN e ELSE s[i]) \in S
    OBVIOUS
  <1>2. t \in Seq(S) /\ Len(t) = Len(s) + 1
    BY <1>1
  <1>3. /\ Append(s, e) \in Seq(S) /\ Len(Append(s, e)) = Len(s) + 1
        /\ \A i \in 1..(Len(s) + 1) : Append(s, e)[i] = IF i = Len(s) + 1 THEN e ELSE s[i]
    OBVIOUS
  <1>4. \A i \in 1..Len(Append(s, e)) : Append(s, e)[i] = t[i]
    BY <1>3
  <1> HIDE DEF t
  <1>5. Append(s, e) = t
    BY <1>2, <1>3, <1>4, SeqEqual
  <1> QED
    BY <1>5 DEF t

(* The marks of a queue that shrinks or grows.                             *)
LEMMA MarkedTail ==
  ASSUME NEW S, NEW q \in Seq(S), q # <<>>
  PROVE  /\ Marked(q) # <<>> /\ Head(Marked(q)) = MarksOf(Head(q))
         /\ Marked(Tail(q)) = Tail(Marked(q))
         /\ Results(q) # <<>> /\ Head(Results(q)) = ResultMarks(Head(q))
         /\ Results(Tail(q)) = Tail(Results(q))
  <1>1. 1 \in DOMAIN q /\ Head(q) = q[1] /\ DOMAIN q = 1..Len(q) /\ Len(q) \in Nat
    OBVIOUS
  <1>2. Marked(q) \in Seq({MarksOf(m) : m \in S}) /\ Results(q) \in Seq({ResultMarks(m) : m \in S})
    BY DEF Marked, Results
  <1>3. /\ Marked(q)[1] = MarksOf(q[1]) /\ Len(Marked(q)) = Len(q)
        /\ Results(q)[1] = ResultMarks(q[1]) /\ Len(Results(q)) = Len(q)
    BY <1>1 DEF Marked, Results
  <1>4. /\ Marked(q) # <<>> /\ Head(Marked(q)) = MarksOf(Head(q))
        /\ Results(q) # <<>> /\ Head(Results(q)) = ResultMarks(Head(q))
    BY <1>1, <1>2, <1>3
  <1>5. \A i \in 1..(Len(q) - 1) : i + 1 \in DOMAIN q /\ Tail(q)[i] = q[i + 1]
    OBVIOUS
  <1>6. Marked(Tail(q)) = [i \in 1..(Len(q) - 1) |-> MarksOf(q[i + 1])]
    <2>1. DOMAIN Tail(q) = 1..(Len(q) - 1)
      OBVIOUS
    <2> QED
      BY <1>5, <2>1 DEF Marked
  <1>7. Tail(Marked(q)) = [i \in 1..(Len(q) - 1) |-> Marked(q)[i + 1]]
    BY <1>2, <1>3, <1>4, TailAsFunction
  <1>8. \A i \in 1..(Len(q) - 1) : Marked(q)[i + 1] = MarksOf(q[i + 1])
    BY <1>5 DEF Marked
  <1>9. Results(Tail(q)) = [i \in 1..(Len(q) - 1) |-> ResultMarks(q[i + 1])]
    <2>1. DOMAIN Tail(q) = 1..(Len(q) - 1)
      OBVIOUS
    <2> QED
      BY <1>5, <2>1 DEF Results
  <1>10. Tail(Results(q)) = [i \in 1..(Len(q) - 1) |-> Results(q)[i + 1]]
    BY <1>2, <1>3, <1>4, TailAsFunction
  <1>11. \A i \in 1..(Len(q) - 1) : Results(q)[i + 1] = ResultMarks(q[i + 1])
    BY <1>5 DEF Results
  <1>12. Marked(Tail(q)) = Tail(Marked(q))
    BY <1>6, <1>7, <1>8
  <1>13. Results(Tail(q)) = Tail(Results(q))
    BY <1>9, <1>10, <1>11
  <1> QED
    BY <1>4, <1>12, <1>13

LEMMA MarkedAppend ==
  ASSUME NEW S, NEW q \in Seq(S), NEW m \in S
  PROVE  /\ Marked(Append(q, m)) = Append(Marked(q), MarksOf(m))
         /\ Results(Append(q, m)) = Append(Results(q), ResultMarks(m))
  <1>1. /\ DOMAIN Append(q, m) = 1..(Len(q) + 1) /\ Len(q) \in Nat /\ DOMAIN q = 1..Len(q)
        /\ \A i \in 1..(Len(q) + 1) : Append(q, m)[i] = IF i = Len(q) + 1 THEN m ELSE q[i]
        /\ \A i \in 1..(Len(q) + 1) : i # Len(q) + 1 => i \in 1..Len(q)
    OBVIOUS
  <1>2. Marked(q) \in Seq({MarksOf(n) : n \in S}) /\ Results(q) \in Seq({ResultMarks(n) : n \in S})
        /\ MarksOf(m) \in {MarksOf(n) : n \in S} /\ ResultMarks(m) \in {ResultMarks(n) : n \in S}
    BY DEF Marked, Results
  <1>3. Len(Marked(q)) = Len(q) /\ Len(Results(q)) = Len(q)
    BY <1>1 DEF Marked, Results
  <1>4. Append(Marked(q), MarksOf(m)) =
          [i \in 1..(Len(q) + 1) |-> IF i = Len(q) + 1 THEN MarksOf(m) ELSE Marked(q)[i]]
    BY <1>2, <1>3, AppendAsFunction
  <1>5. Append(Results(q), ResultMarks(m)) =
          [i \in 1..(Len(q) + 1) |-> IF i = Len(q) + 1 THEN ResultMarks(m) ELSE Results(q)[i]]
    BY <1>2, <1>3, AppendAsFunction
  <1>6. \A i \in 1..Len(q) : Marked(q)[i] = MarksOf(q[i]) /\ Results(q)[i] = ResultMarks(q[i])
    BY <1>1 DEF Marked, Results
  <1>7. Marked(Append(q, m)) = [i \in 1..(Len(q) + 1) |-> MarksOf(Append(q, m)[i])]
    BY <1>1 DEF Marked
  <1>8. Results(Append(q, m)) = [i \in 1..(Len(q) + 1) |-> ResultMarks(Append(q, m)[i])]
    BY <1>1 DEF Results
  <1>9. \A i \in 1..(Len(q) + 1) : MarksOf(Append(q, m)[i]) =
          IF i = Len(q) + 1 THEN MarksOf(m) ELSE Marked(q)[i]
    BY <1>1, <1>6
  <1>10. \A i \in 1..(Len(q) + 1) : ResultMarks(Append(q, m)[i]) =
          IF i = Len(q) + 1 THEN ResultMarks(m) ELSE Results(q)[i]
    BY <1>1, <1>6
  <1>11. Marked(Append(q, m)) = Append(Marked(q), MarksOf(m))
    BY <1>4, <1>7, <1>9
  <1>12. Results(Append(q, m)) = Append(Results(q), ResultMarks(m))
    BY <1>5, <1>8, <1>10
  <1> QED
    BY <1>11, <1>12

-----------------------------------------------------------------------------
(* The moves in the line, and that none of them puts a y behind an x: what *)
(* leaves its queue was at its head, ...                                   *)
LEMMA LeavesResults ==
  ASSUME NEW R, NEW r \in Seq(R), r # <<>>, NEW h, NEW l, NEW a, NEW x, NEW y,
         InLine(r, h, l, a, x, y)
  PROVE  InLine(Tail(r), h, l, a, x, y)
  BY HasTail, BehindTail DEF InLine

LEMMA LeavesHigh ==
  ASSUME NEW H, NEW h \in Seq(H), h # <<>>, NEW r, NEW l, NEW a, NEW x, NEW y,
         InLine(r, h, l, a, x, y)
  PROVE  InLine(r, Tail(h), l, a, x, y)
  BY HasTail, BehindTail DEF InLine

LEMMA LeavesApi ==
  ASSUME NEW A, NEW a \in Seq(A), a # <<>>, NEW r, NEW h, NEW l, NEW x, NEW y,
         InLine(r, h, l, a, x, y)
  PROVE  InLine(r, h, l, Tail(a), x, y)
  BY HasTail, BehindTail DEF InLine

LEMMA EmptiesApi ==
  ASSUME NEW a, NEW r, NEW h, NEW l, NEW x, NEW y, InLine(r, h, l, a, x, y)
  PROVE  InLine(r, h, l, <<>>, x, y)
  BY EmptyLine DEF InLine

(* ... goes to the end of the queue before it, ...                         *)
LEMMA MovesToResults ==
  ASSUME NEW R, NEW r \in Seq(R), NEW H, NEW h \in Seq(H), h # <<>>,
         NEW l, NEW a, NEW x, NEW y, InLine(r, h, l, a, x, y)
  PROVE  InLine(Append(r, Head(h)), Tail(h), l, a, x, y)
  <1>1. NoneBehind(Append(r, Head(h)), x, y)
    BY HasTail, BehindAppend DEF InLine
  <1> QED
    BY <1>1, HasTail, HasAppend, BehindTail DEF InLine

LEMMA MovesToHigh ==
  ASSUME NEW H, NEW h \in Seq(H), NEW L, NEW l \in Seq(L), l # <<>>,
         NEW r, NEW a, NEW x, NEW y, InLine(r, h, l, a, x, y)
  PROVE  InLine(r, Append(h, Head(l)), Tail(l), a, x, y)
  <1>1. NoneBehind(Append(h, Head(l)), x, y)
    BY HasTail, BehindAppend DEF InLine
  <1> QED
    BY <1>1, HasTail, HasAppend, BehindTail DEF InLine

LEMMA MovesToLow ==
  ASSUME NEW L, NEW l \in Seq(L), NEW A, NEW a \in Seq(A), a # <<>>,
         NEW r, NEW h, NEW x, NEW y, InLine(r, h, l, a, x, y)
  PROVE  InLine(r, h, Append(l, Head(a)), Tail(a), x, y)
  <1>1. NoneBehind(Append(l, Head(a)), x, y)
    BY HasTail, BehindAppend DEF InLine
  <1> QED
    BY <1>1, HasTail, HasAppend, BehindTail DEF InLine

(* ... or overtakes the low priority queue, where there must be no y if it *)
(* is an x, ...                                                            *)
LEMMA Overtakes ==
  ASSUME NEW H, NEW h \in Seq(H), NEW A, NEW a \in Seq(A), a # <<>>,
         NEW r, NEW l, NEW x, NEW y, InLine(r, h, l, a, x, y),
         x \in Head(a) => ~Has(l, y)
  PROVE  InLine(r, Append(h, Head(a)), l, Tail(a), x, y)
  <1>1. NoneBehind(Append(h, Head(a)), x, y)
    BY HasTail, BehindAppend DEF InLine
  <1> QED
    BY <1>1, HasTail, HasAppend, BehindTail DEF InLine

(* ... and what arrives is no y if there is an x.                          *)
LEMMA Arrives ==
  ASSUME NEW A, NEW a \in Seq(A), NEW e, NEW r, NEW h, NEW l, NEW x, NEW y,
         InLine(r, h, l, a, x, y),
         y \in e => ~Has(r, x) /\ ~Has(h, x) /\ ~Has(l, x) /\ ~Has(a, x)
  PROVE  InLine(r, h, l, Append(a, e), x, y)
  <1>1. NoneBehind(Append(a, e), x, y)
    BY BehindAppend DEF InLine
  <1> QED
    BY <1>1, HasAppend DEF InLine

(* The moves as steps.                                                     *)
Stayed == UNCHANGED <<ResultLine, HighLine, LowLine, ApiLine>>

Polled == /\ ResultLine # <<>> /\ ResultLine' = Tail(ResultLine)
          /\ UNCHANGED <<HighLine, LowLine, ApiLine>>

Taken == /\ ApiLine # <<>> /\ ApiLine' = Tail(ApiLine)
         /\ UNCHANGED <<ResultLine, HighLine, LowLine>>

Removed == /\ HighLine # <<>> /\ HighLine' = Tail(HighLine)
           /\ UNCHANGED <<ResultLine, LowLine, ApiLine>>

Ended == /\ ResultLine # <<>> /\ ResultLine' = Tail(ResultLine) /\ ApiLine' = <<>>
         /\ UNCHANGED <<HighLine, LowLine>>

Built == /\ HighLine # <<>> /\ HighLine' = Tail(HighLine)
         /\ ResultLine' = Append(ResultLine, Head(HighLine))
         /\ UNCHANGED <<LowLine, ApiLine>>

Forwarded == /\ LowLine # <<>> /\ LowLine' = Tail(LowLine)
             /\ HighLine' = Append(HighLine, Head(LowLine))
             /\ UNCHANGED <<ResultLine, ApiLine>>

SentLow == /\ ApiLine # <<>> /\ ApiLine' = Tail(ApiLine)
           /\ LowLine' = Append(LowLine, Head(ApiLine))
           /\ UNCHANGED <<ResultLine, HighLine>>

SentHigh == /\ ApiLine # <<>> /\ ApiLine' = Tail(ApiLine)
            /\ HighLine' = Append(HighLine, Head(ApiLine))
            /\ UNCHANGED <<ResultLine, LowLine>>

Arrived(e) == ApiLine' = Append(ApiLine, e) /\ UNCHANGED <<ResultLine, HighLine, LowLine>>

(* The moves that keep the order of any two marks.                         *)
InOrderMove == \/ Stayed \/ Polled \/ Taken \/ Removed \/ Ended \/ Built \/ Forwarded
               \/ SentLow \/ Arrived({})

LineTypeOK ==
  /\ ResultLine \in Seq({ResultMarks(r) : r \in SceneResult})
  /\ HighLine \in Seq({MarksOf(m) : m \in SceneRequest})
  /\ LowLine \in Seq({MarksOf(m) : m \in SceneRequest})
  /\ ApiLine \in Seq({MarksOf(m) : m \in ApiMsg})

LEMMA LineTypes ==
  ASSUME ChannelTypeOK
  PROVE  LineTypeOK
  <1>1. ASSUME NEW S, NEW q \in Seq(S)
        PROVE  /\ [i \in DOMAIN q |-> MarksOf(q[i])] \in Seq({MarksOf(m) : m \in S})
               /\ [i \in DOMAIN q |-> ResultMarks(q[i])] \in Seq({ResultMarks(m) : m \in S})
    OBVIOUS
  <1> QED
    BY <1>1 DEF ChannelTypeOK, LineTypeOK, ResultLine, HighLine, LowLine, ApiLine, Results, Marked

LEMMA OrderKept ==
  ASSUME LineTypeOK, InOrderMove, NEW CONSTANT x, NEW CONSTANT y, NeverBehind(y, x)
  PROVE  NeverBehind(y, x)'
  <1>1. NeverBehind(y, x)' <=> InLine(ResultLine', HighLine', LowLine', ApiLine', x, y)
    BY DEF NeverBehind, InLine, NoneBehind, Has
  <1>2. InLine(ResultLine, HighLine, LowLine, ApiLine, x, y)
    BY DEF NeverBehind
  <1> HIDE DEF NeverBehind
  <1> USE DEF LineTypeOK
  <1>3. CASE Stayed
    BY <1>1, <1>2, <1>3 DEF Stayed
  <1>4. CASE Polled
    BY <1>1, <1>2, <1>4, LeavesResults DEF Polled
  <1>5. CASE Taken
    BY <1>1, <1>2, <1>5, LeavesApi DEF Taken
  <1>6. CASE Removed
    BY <1>1, <1>2, <1>6, LeavesHigh DEF Removed
  <1>7. CASE Ended
    <2>1. InLine(ResultLine', HighLine, LowLine, ApiLine, x, y)
      BY <1>2, <1>7, LeavesResults DEF Ended
    <2> QED
      BY <1>1, <1>7, <2>1, EmptiesApi DEF Ended
  <1>8. CASE Built
    BY <1>1, <1>2, <1>8, MovesToResults DEF Built
  <1>9. CASE Forwarded
    BY <1>1, <1>2, <1>9, MovesToHigh DEF Forwarded
  <1>10. CASE SentLow
    BY <1>1, <1>2, <1>10, MovesToLow DEF SentLow
  <1>11. CASE Arrived({})
    BY <1>1, <1>2, <1>11, Arrives DEF Arrived
  <1> QED
    BY <1>3, <1>4, <1>5, <1>6, <1>7, <1>8, <1>9, <1>10, <1>11 DEF InOrderMove

LEMMA OrderKeptHigh ==
  ASSUME LineTypeOK, SentHigh, NEW CONSTANT x, NEW CONSTANT y, NeverBehind(y, x),
         x \in Head(ApiLine) => ~Has(LowLine, y)
  PROVE  NeverBehind(y, x)'
  <1>1. NeverBehind(y, x)' <=> InLine(ResultLine', HighLine', LowLine', ApiLine', x, y)
    BY DEF NeverBehind, InLine, NoneBehind, Has
  <1> QED
    BY <1>1, Overtakes DEF NeverBehind, LineTypeOK, SentHigh

LEMMA OrderKeptArrived ==
  ASSUME LineTypeOK, NEW CONSTANT x, NEW CONSTANT y, NeverBehind(y, x), NEW e, Arrived(e),
         y \in e => ~Waiting(x)
  PROVE  NeverBehind(y, x)'
  <1>1. NeverBehind(y, x)' <=> InLine(ResultLine', HighLine', LowLine', ApiLine', x, y)
    BY DEF NeverBehind, InLine, NoneBehind, Has
  <1> QED
    BY <1>1, Arrives DEF NeverBehind, LineTypeOK, Arrived, Waiting

(* What nothing waits for is behind nothing.                               *)
LEMMA NotWaiting ==
  ASSUME NEW x, NEW y, ~Waiting(x) \/ ~Waiting(y)
  PROVE  NeverBehind(y, x)
  BY DEF NeverBehind, InLine, NoneBehind, Waiting, Has

(* Who waits after a move.                                                 *)
LEMMA WaitingAfter ==
  ASSUME LineTypeOK, NEW CONSTANT x
  PROVE  /\ Stayed \/ Built \/ Forwarded \/ SentLow \/ SentHigh \/ Arrived({})
              => (Waiting(x)' <=> Waiting(x))
         /\ Polled  => (Waiting(x) <=> Waiting(x)' \/ x \in Head(ResultLine))
         /\ Taken   => (Waiting(x) <=> Waiting(x)' \/ x \in Head(ApiLine))
         /\ Removed => (Waiting(x) <=> Waiting(x)' \/ x \in Head(HighLine))
         /\ Ended   => (Waiting(x)' => Waiting(x))
         /\ \A e : Arrived(e) => (Waiting(x)' <=> Waiting(x) \/ x \in e)
  <1>1. Waiting(x)' <=> \/ Has(ResultLine', x) \/ Has(HighLine', x)
                        \/ Has(LowLine', x) \/ Has(ApiLine', x)
    BY DEF Waiting, Has
  <1> USE <1>1 DEF LineTypeOK
  <1>2. ASSUME Stayed PROVE Waiting(x)' <=> Waiting(x)
    BY <1>2 DEF Stayed, Waiting
  <1>3. ASSUME Built PROVE Waiting(x)' <=> Waiting(x)
    BY <1>3, HasTail, HasAppend DEF Built, Waiting
  <1>4. ASSUME Forwarded PROVE Waiting(x)' <=> Waiting(x)
    BY <1>4, HasTail, HasAppend DEF Forwarded, Waiting
  <1>5. ASSUME SentLow PROVE Waiting(x)' <=> Waiting(x)
    BY <1>5, HasTail, HasAppend DEF SentLow, Waiting
  <1>6. ASSUME SentHigh PROVE Waiting(x)' <=> Waiting(x)
    BY <1>6, HasTail, HasAppend DEF SentHigh, Waiting
  <1>7. ASSUME Polled PROVE Waiting(x) <=> Waiting(x)' \/ x \in Head(ResultLine)
    BY <1>7, HasTail DEF Polled, Waiting
  <1>8. ASSUME Taken PROVE Waiting(x) <=> Waiting(x)' \/ x \in Head(ApiLine)
    BY <1>8, HasTail DEF Taken, Waiting
  <1>9. ASSUME Removed PROVE Waiting(x) <=> Waiting(x)' \/ x \in Head(HighLine)
    BY <1>9, HasTail DEF Removed, Waiting
  <1>10. ASSUME Ended PROVE Waiting(x)' => Waiting(x)
    BY <1>10, HasTail, EmptyLine DEF Ended, Waiting
  <1>11. ASSUME NEW e, Arrived(e) PROVE Waiting(x)' <=> Waiting(x) \/ x \in e
    BY <1>11, HasAppend DEF Arrived, Waiting
  <1> QED
    BY <1>2, <1>3, <1>4, <1>5, <1>6, <1>7, <1>8, <1>9, <1>10, <1>11

-----------------------------------------------------------------------------
(* Which actions make which move.                                          *)
LEMMA LineOf ==
  /\ sceneResults' = sceneResults => ResultLine' = ResultLine
  /\ highScene' = highScene => HighLine' = HighLine
  /\ lowScene' = lowScene => LowLine' = LowLine
  /\ api' = api => ApiLine' = ApiLine
  /\ ResultLine' = Results(sceneResults') /\ HighLine' = Marked(highScene')
  /\ LowLine' = Marked(lowScene') /\ ApiLine' = Marked(api')
  BY DEF ResultLine, HighLine, LowLine, ApiLine, Results, Marked, ResultMarks, MarksOf,
     TxnsOf, TxnMark

(* The renderer, the clients and what the render backend does with the     *)
(* transactions it has.                                                    *)
Elsewhere ==
  \/ PollNothing \/ Publish \/ \E d \in Docs : NopDocument(d)
  \/ SkipTransaction \/ SwapAndWait \/ UpdateTransaction \/ ResumeAndUpdate
  \/ Settle \/ NewFrameReady \/ ReceiveSwap \/ PostSceneSwap \/ Renderer \/ Rest \/ UNCHANGED vars

LEMMA StayedMove ==
  ASSUME Elsewhere
  PROVE  Stayed /\ UNCHANGED <<api, lowScene, highScene, sceneResults, clientVars, alive, sbAlive>>
  <1>1. UNCHANGED <<api, lowScene, highScene, sceneResults, clientVars, alive, sbAlive>>
    BY DEF Elsewhere, PollNothing, Publish, NopDocument, SkipTransaction, SwapAndWait,
       UpdateTransaction, ResumeAndUpdate, Settle, NewFrameReady, ReceiveSwap, PostSceneSwap,
       Renderer, RendererWake, UpdatePipelineInfo, UpdateDocumentFrame, UpdateNotifications,
       UpdateResources, UpdateDone, Render, Rest, vars, backendVars, sbVars
  <1> QED
    BY <1>1, LineOf DEF Stayed

LEMMA ClientMove ==
  ASSUME TypeOK
  PROVE  /\ \A m \in Menu : Send(m) => Arrived(MarksOf(Numbered(m, sends + 1)))
         /\ \A c \in Clients : Flush(c) => Arrived({<<"flush", 0, c>>})
  <1>1. ASSUME NEW m, api' = Append(api, m), UNCHANGED <<lowScene, highScene, sceneResults>>,
               m \in ApiMsg
        PROVE  Arrived(MarksOf(m))
    BY <1>1, LineOf, MarkedAppend DEF Arrived, ApiLine, TypeOK, ChannelTypeOK
  <1>2. ASSUME NEW m \in Menu, Send(m) PROVE Arrived(MarksOf(Numbered(m, sends + 1)))
    <2>1. m \in ApiMsg /\ sends + 1 \in Nat
      BY MenuAssumption DEF TypeOK, ClientTypeOK
    <2>2. Numbered(m, sends + 1) \in ApiMsg
      <3>1. CASE m.type = "UpdateDocuments"
        <4>1. m = [type |-> "UpdateDocuments", txns |-> m.txns] /\ m.txns \in Seq(Transaction)
          BY <2>1, <3>1 DEF ApiMsg
        <4>2. \A t \in Transaction : [t EXCEPT !.id = sends + 1] \in Transaction
          BY <2>1 DEF Transaction
        <4>3. [i \in DOMAIN m.txns |-> [m.txns[i] EXCEPT !.id = sends + 1]] \in Seq(Transaction)
          BY <4>1, <4>2
        <4> QED
          BY <4>1, <4>3, <3>1 DEF Numbered, ApiMsg
      <3> QED
        BY <2>1, <3>1 DEF Numbered
    <2> QED
      BY <1>1, <1>2, <2>2 DEF Send
  <1>3. ASSUME NEW c \in Clients, Flush(c) PROVE Arrived({<<"flush", 0, c>>})
    <2>1. [type |-> "FlushSceneBuilder", client |-> c] \in ApiMsg
      BY DEF ApiMsg
    <2>2. MarksOf([type |-> "FlushSceneBuilder", client |-> c]) = {<<"flush", 0, c>>}
      BY DEF MarksOf
    <2> QED
      BY <1>1, <1>3, <2>1, <2>2 DEF Flush
  <1> QED
    BY <1>2, <1>3

LEMMA QueueTypes ==
  ASSUME TypeOK
  PROVE  /\ api \in Seq(ApiMsg) /\ sceneResults \in Seq(SceneResult)
         /\ lowScene \in Seq(SceneRequest) /\ highScene \in Seq(SceneRequest)
  BY DEF TypeOK, ChannelTypeOK

LEMMA ApiTaken ==
  ASSUME TypeOK, api # <<>>, api' = Tail(api)
  PROVE  ApiLine # <<>> /\ ApiLine' = Tail(ApiLine) /\ Head(ApiLine) = MarksOf(Head(api))
  BY LineOf, QueueTypes, MarkedTail, Zenon DEF ApiLine

LEMMA PolledMove ==
  ASSUME TypeOK, PollTransactions \/ PollFlushComplete \/ PollClearNamespace \/ Discard
  PROVE  Polled /\ Head(ResultLine) = ResultMarks(Head(sceneResults))
  <1>1. /\ sceneResults # <<>> /\ sceneResults' = Tail(sceneResults)
        /\ UNCHANGED <<api, lowScene, highScene>>
    BY DEF PollTransactions, PollFlushComplete, PollClearNamespace, Discard
  <1> QED
    BY <1>1, LineOf, MarkedTail DEF Polled, ResultLine, TypeOK, ChannelTypeOK

LEMMA TakenMove ==
  ASSUME TypeOK,
         ReceiveForBackend \/ ReceiveAddDocument \/ ReceiveMemoryPressure \/ ReceiveWakeUp
  PROVE  Taken /\ Head(ApiLine) = MarksOf(Head(api))
  <1>1. /\ api # <<>> /\ api' = Tail(api)
        /\ UNCHANGED <<sceneResults, lowScene, highScene>>
    BY DEF ReceiveForBackend, ReceiveAddDocument, ReceiveMemoryPressure, ReceiveWakeUp, Receives
  <1> QED
    BY <1>1, LineOf, ApiTaken, Zenon DEF Taken

(* What the render backend sends on keeps its marks.                       *)
LEMMA SentLowMove ==
  ASSUME TypeOK, NEW m, m \in SceneRequest, api # <<>>, api' = Tail(api), SendLow(m),
         sceneResults' = sceneResults, MarksOf(m) = MarksOf(Head(api))
  PROVE  SentLow /\ Head(ApiLine) = MarksOf(Head(api))
  <1>1. lowScene' = Append(lowScene, m) /\ highScene' = highScene
    BY DEF SendLow
  <1>2. LowLine' = Append(LowLine, MarksOf(m))
    BY <1>1, LineOf, QueueTypes, MarkedAppend, Zenon DEF LowLine
  <1> QED
    BY <1>1, <1>2, LineOf, ApiTaken, Zenon DEF SentLow

LEMMA SentHighMove ==
  ASSUME TypeOK, NEW m, m \in SceneRequest, api # <<>>, api' = Tail(api),
         highScene' = Append(highScene, m), UNCHANGED <<lowScene, sceneResults>>,
         MarksOf(m) = MarksOf(Head(api))
  PROVE  SentHigh /\ Head(ApiLine) = MarksOf(Head(api))
  <1>1. HighLine' = Append(HighLine, MarksOf(m))
    BY LineOf, QueueTypes, MarkedAppend, Zenon DEF HighLine
  <1> QED
    BY <1>1, LineOf, ApiTaken, Zenon DEF SentHigh

LEMMA ForwardMove ==
  ASSUME TypeOK
  PROVE  /\ ReceiveForSceneBuilder => /\ Head(ApiLine) = MarksOf(Head(api))
                                      /\ IF UsesHighPriority(TxnsOf(Head(api).txns))
                                         THEN SentHigh ELSE SentLow
         /\ ReceiveDeleteDocument \/ ReceiveForwarded \/ ReceiveShutDown
              => SentLow /\ Head(ApiLine) = MarksOf(Head(api))
  <1>1. ASSUME ReceiveForSceneBuilder
        PROVE  /\ Head(ApiLine) = MarksOf(Head(api))
               /\ IF UsesHighPriority(TxnsOf(Head(api).txns)) THEN SentHigh ELSE SentLow
    <2> DEFINE m == [type |-> "Transactions", txns |-> Head(api).txns]
    <2>1. /\ api # <<>> /\ api' = Tail(api) /\ sceneResults' = sceneResults
          /\ Head(api).type = "UpdateDocuments"
          /\ IF UsesHighPriority(TxnsOf(Head(api).txns))
             THEN highScene' = Append(highScene, m) /\ UNCHANGED lowScene
             ELSE lowScene' = Append(lowScene, m) /\ UNCHANGED highScene
      BY <1>1 DEF ReceiveForSceneBuilder, Receives, ForwardTransactions
    <2>2. Head(api).txns \in Seq(Transaction)
      BY <2>1, MessageOf DEF TypeOK, ChannelTypeOK
    <2>3. m \in SceneRequest /\ MarksOf(m) = MarksOf(Head(api))
      BY <2>1, <2>2 DEF SceneRequest, MarksOf
    <2> HIDE DEF m
    <2>4. CASE UsesHighPriority(TxnsOf(Head(api).txns))
      BY <2>1, <2>3, <2>4, SentHighMove
    <2>5. CASE ~UsesHighPriority(TxnsOf(Head(api).txns))
      BY <2>1, <2>3, <2>5, SentLowMove DEF SendLow
    <2> QED
      BY <2>4, <2>5
  <1>2. ASSUME ReceiveDeleteDocument PROVE SentLow /\ Head(ApiLine) = MarksOf(Head(api))
    <2>1. /\ api # <<>> /\ api' = Tail(api) /\ sceneResults' = sceneResults
          /\ Head(api).type = "DeleteDocument" /\ SendLow(Head(api))
      BY <1>2 DEF ReceiveDeleteDocument, Receives
    <2>2. Head(api) \in ApiMsg
      BY <2>1, MessageOf DEF TypeOK, ChannelTypeOK
    <2>3. Head(api) \in SceneRequest
      BY <2>1, <2>2 DEF ApiMsg, SceneRequest
    <2> QED
      BY <2>1, <2>3, SentLowMove
  <1>3. ASSUME ReceiveForwarded PROVE SentLow /\ Head(ApiLine) = MarksOf(Head(api))
    <2>1. /\ api # <<>> /\ api' = Tail(api) /\ sceneResults' = sceneResults
          /\ Head(api).type \in {"ClearNamespace", "FlushSceneBuilder"}
          /\ SendLow(RequestFor(Head(api)))
      BY <1>3 DEF ReceiveForwarded, Receives
    <2>2. Head(api) \in ApiMsg /\ (Head(api).type = "FlushSceneBuilder" => Head(api).client \in Clients)
      BY <2>1, MessageOf DEF TypeOK, ChannelTypeOK
    <2>3. RequestFor(Head(api)) \in SceneRequest /\ MarksOf(RequestFor(Head(api))) = MarksOf(Head(api))
      <3>1. CASE Head(api).type = "ClearNamespace"
        BY <2>2, <3>1 DEF ApiMsg, SceneRequest, RequestFor
      <3>2. CASE Head(api).type = "FlushSceneBuilder"
        BY <2>2, <3>2 DEF SceneRequest, RequestFor, MarksOf
      <3> QED
        BY <2>1, <3>1, <3>2
    <2> QED
      BY <2>1, <2>3, SentLowMove
  <1>4. ASSUME ReceiveShutDown PROVE SentLow /\ Head(ApiLine) = MarksOf(Head(api))
    <2>1. /\ api # <<>> /\ api' = Tail(api) /\ sceneResults' = sceneResults
          /\ Head(api).type = "ShutDown" /\ SendLow([type |-> "Stop"])
      BY <1>4 DEF ReceiveShutDown, Receives, SendLow
    <2>2. [type |-> "Stop"] \in SceneRequest /\ MarksOf([type |-> "Stop"]) = MarksOf(Head(api))
      BY <2>1 DEF SceneRequest, MarksOf
    <2> QED
      BY <2>1, <2>2, SentLowMove
  <1> QED
    BY <1>1, <1>2, <1>3, <1>4

(* So does what the scene builder has built.                               *)
LEMMA BuiltMarks ==
  ASSUME TypeOK, NEW txns \in Seq(Transaction), NEW built,
         built = [i \in DOMAIN txns |-> Processed(txns[i])], NEW swap
  PROVE  ResultMarks([type |-> "Transactions", txns |-> built, swap |-> swap])
           = {TxnMark(t) : t \in TxnsOf(txns)}
  <1>1. \A i \in DOMAIN txns : txns[i] \in Transaction
    OBVIOUS
  <1>2. \A t \in Transaction : TxnMark(Processed(t).txn) = TxnMark(t)
    BY DEF Processed, TxnMark, Transaction
  <1>3. {TxnMark(b.txn) : b \in TxnsOf(built)} = {TxnMark(t) : t \in TxnsOf(txns)}
    BY <1>1, <1>2 DEF TxnsOf
  <1> QED
    BY <1>3 DEF ResultMarks

LEMMA BuiltType ==
  ASSUME TypeOK, NEW txns \in Seq(Transaction)
  PROVE  [i \in DOMAIN txns |-> Processed(txns[i])] \in Seq(BuiltTransaction)
  <1>1. \A t \in Transaction : Processed(t) \in BuiltTransaction
    BY ProcessedType
  <1>2. \A i \in DOMAIN txns : txns[i] \in Transaction /\ Processed(txns[i]) \in BuiltTransaction
    BY <1>1
  <1>3. DOMAIN txns = 1..Len(txns) /\ Len(txns) \in Nat
    OBVIOUS
  <1> QED
    BY <1>2, <1>3

LEMMA BuiltMove ==
  ASSUME TypeOK, BuildTransactions \/ BuilderFlush \/ BuilderClearNamespace \/ BuilderStop
  PROVE  Built /\ Head(HighLine) = MarksOf(Head(highScene))
  <1> USE DEF TypeOK, ChannelTypeOK
  <1>0. ASSUME NEW r, r \in SceneResult, sceneResults' = Append(sceneResults, r), highScene # <<>>,
               highScene' = Tail(highScene), UNCHANGED <<lowScene, api>>,
               ResultMarks(r) = MarksOf(Head(highScene))
        PROVE  Built /\ Head(HighLine) = MarksOf(Head(highScene))
    <2>1. /\ HighLine # <<>> /\ HighLine' = Tail(HighLine)
          /\ Head(HighLine) = MarksOf(Head(highScene))
      BY <1>0, LineOf, QueueTypes, MarkedTail, Zenon DEF HighLine
    <2>2. ResultLine' = Append(ResultLine, ResultMarks(r))
      BY <1>0, LineOf, QueueTypes, MarkedAppend, Zenon DEF ResultLine
    <2> QED
      BY <1>0, <2>1, <2>2, LineOf, Zenon DEF Built
  <1>1. CASE BuildTransactions
    <2> DEFINE txns  == Head(highScene).txns
               built == [i \in DOMAIN txns |-> Processed(txns[i])]
               r     == [type |-> "Transactions", txns |-> built, swap |-> OpensSwap(built)]
    <2>1. /\ highScene # <<>> /\ highScene' = Tail(highScene)
          /\ Head(highScene).type = "Transactions" /\ UNCHANGED <<lowScene, api>>
          /\ sceneResults' = Append(sceneResults, r)
      BY <1>1 DEF BuildTransactions
    <2>2. txns \in Seq(Transaction)
      BY <2>1, RequestOfQueue
    <2>3. built \in Seq(BuiltTransaction)
      BY <2>2, BuiltType DEF TypeOK, ChannelTypeOK
    <2>6. OpensSwap(built) \in BOOLEAN
      BY PipelineAssumption DEF OpensSwap
    <2>4. r \in SceneResult
      BY <2>3, <2>6 DEF SceneResult
    <2>5. ResultMarks(r) = MarksOf(Head(highScene))
      <3>1. MarksOf(Head(highScene)) = {TxnMark(t) : t \in TxnsOf(txns)}
        <4>1. \A m : m.type = "Transactions" => MarksOf(m) = {TxnMark(t) : t \in TxnsOf(m.txns)}
          BY DEF MarksOf
        <4> QED
          BY <2>1, <4>1, Zenon
      <3> QED
        BY <2>2, <3>1, BuiltMarks, Zenon
    <2> HIDE DEF r
    <2> QED
      BY <1>0, <2>1, <2>4, <2>5
  <1>2. CASE BuilderFlush
    <2>1. /\ highScene # <<>> /\ highScene' = Tail(highScene)
          /\ Head(highScene).type = "Flush" /\ UNCHANGED <<lowScene, api>>
          /\ sceneResults' = Append(sceneResults,
                               [type |-> "FlushComplete", client |-> Head(highScene).client])
      BY <1>2 DEF BuilderFlush
    <2>2. [type |-> "FlushComplete", client |-> Head(highScene).client] \in SceneResult
      BY <2>1, RequestOfQueue DEF SceneResult
    <2>3. ResultMarks([type |-> "FlushComplete", client |-> Head(highScene).client])
            = MarksOf(Head(highScene))
      BY <2>1 DEF ResultMarks, MarksOf
    <2> QED
      BY <1>0, <2>1, <2>2, <2>3
  <1>3. CASE BuilderClearNamespace
    <2>1. /\ highScene # <<>> /\ highScene' = Tail(highScene)
          /\ Head(highScene).type = "ClearNamespace" /\ UNCHANGED <<lowScene, api>>
          /\ sceneResults' = Append(sceneResults, Head(highScene))
      BY <1>3 DEF BuilderClearNamespace
    <2>2. Head(highScene) \in SceneRequest
      BY <2>1, RequestOfQueue
    <2>3. Head(highScene) \in SceneResult /\ ResultMarks(Head(highScene)) = MarksOf(Head(highScene))
      BY <2>1, <2>2 DEF SceneRequest, SceneResult, ResultMarks, MarksOf
    <2> QED
      BY <1>0, <2>1, <2>3
  <1>4. CASE BuilderStop
    <2>1. /\ highScene # <<>> /\ highScene' = Tail(highScene)
          /\ Head(highScene).type = "Stop" /\ UNCHANGED <<lowScene, api>>
          /\ sceneResults' = Append(sceneResults, [type |-> "Stopped"])
      BY <1>4 DEF BuilderStop
    <2>2. [type |-> "Stopped"] \in SceneResult
          /\ ResultMarks([type |-> "Stopped"]) = MarksOf(Head(highScene))
      BY <2>1 DEF SceneResult, ResultMarks, MarksOf
    <2> QED
      BY <1>0, <2>1, <2>2
  <1> QED
    BY <1>1, <1>2, <1>3, <1>4

LEMMA OtherMoves ==
  ASSUME TypeOK
  PROVE  /\ LowForward => Forwarded
         /\ BuilderDeleteDocument => Removed /\ Head(HighLine) = MarksOf(Head(highScene))
         /\ WakeBackend => Stayed \/ Arrived({})
         /\ Stopped => Ended
  <1> USE DEF TypeOK, ChannelTypeOK
  <1>1. ASSUME LowForward PROVE Forwarded
    <2>1. Head(lowScene) \in SceneRequest
      BY <1>1, RequestOfQueue DEF LowForward
    <2> QED
      BY <1>1, <2>1, LineOf, MarkedTail, MarkedAppend DEF LowForward, Forwarded, LowLine, HighLine
  <1>2. ASSUME BuilderDeleteDocument
        PROVE  Removed /\ Head(HighLine) = MarksOf(Head(highScene))
    BY <1>2, LineOf, MarkedTail DEF BuilderDeleteDocument, Removed, HighLine
  <1>3. ASSUME WakeBackend PROVE Stayed \/ Arrived({})
    <2>1. [type |-> "WakeUp"] \in ApiMsg /\ MarksOf([type |-> "WakeUp"]) = {}
      BY DEF ApiMsg, MarksOf
    <2> QED
      BY <1>3, <2>1, LineOf, MarkedAppend DEF WakeBackend, Stayed, Arrived, ApiLine
  <1>4. ASSUME Stopped PROVE Ended
    <2>1. Marked(<<>>) = <<>>
      BY DEF Marked
    <2> QED
      BY <1>4, <2>1, LineOf, MarkedTail DEF Stopped, Ended, ResultLine
  <1> QED
    BY <1>1, <1>2, <1>3, <1>4

(* Every step of the system is one of these.                               *)
Forwards == ReceiveDeleteDocument \/ ReceiveForwarded \/ ReceiveShutDown
Takes    == ReceiveAddDocument \/ ReceiveMemoryPressure \/ ReceiveWakeUp
Builds   == BuilderFlush \/ BuilderClearNamespace \/ BuilderStop

LEMMA Steps ==
  ASSUME [Next]_vars
  PROVE  \/ \E m \in Menu : Send(m)
         \/ \E c \in Clients : Flush(c)
         \/ PollTransactions \/ PollFlushComplete \/ PollClearNamespace \/ Discard
         \/ ReceiveForBackend \/ ReceiveForSceneBuilder \/ Forwards \/ Takes \/ Stopped
         \/ LowForward \/ BuildTransactions \/ Builds \/ BuilderDeleteDocument
         \/ WakeBackend \/ Elsewhere
  BY DEF Next, Backend, SceneBuilder, Forwards, Takes, Builds, Elsewhere

-----------------------------------------------------------------------------
(* What a mark says of its message.                                        *)
LEMMA MarkMeans ==
  ASSUME NEW m, NEW n, NEW v
  PROVE  /\ <<"txn", n, v>> \in MarksOf(m) <=>
              /\ m.type \in {"UpdateDocuments", "Transactions"}
              /\ \E t \in TxnsOf(m.txns) : t.id = n /\ t.doc = v
         /\ <<"flush", n, v>> \in MarksOf(m) <=>
              m.type \in {"FlushSceneBuilder", "Flush"} /\ n = 0 /\ v = m.client
         /\ <<"delete", n, v>> \in MarksOf(m) <=> m.type = "DeleteDocument" /\ n = 0 /\ v = m.doc
         /\ <<"add", n, v>> \in MarksOf(m) <=> m.type = "AddDocument" /\ n = 0 /\ v = m.doc
         /\ <<"clear", n, v>> \in MarksOf(m) <=> m.type = "ClearNamespace" /\ n = 0 /\ v = m.ns
  BY DEF MarksOf, TxnMark

LEMMA ResultMarkMeans ==
  ASSUME NEW m, NEW n, NEW v
  PROVE  /\ <<"txn", n, v>> \in ResultMarks(m) <=>
              /\ m.type = "Transactions"
              /\ \E b \in TxnsOf(m.txns) : b.txn.id = n /\ b.txn.doc = v
         /\ <<"flush", n, v>> \in ResultMarks(m) <=>
              m.type = "FlushComplete" /\ n = 0 /\ v = m.client
         /\ <<"clear", n, v>> \in ResultMarks(m) <=> m.type = "ClearNamespace" /\ n = 0 /\ v = m.ns
         /\ <<"add", n, v>> \notin ResultMarks(m) /\ <<"delete", n, v>> \notin ResultMarks(m)
  BY DEF ResultMarks, TxnMark

LEMMA WorkMarkMeans ==
  ASSUME NEW n, NEW v
  PROVE  <<"txn", n, v>> \in WorkMarks <=> \E b \in TxnsOf(work) : b.txn.id = n /\ b.txn.doc = v
  BY DEF WorkMarks, TxnMark

(* The members of a queue that shrinks or grows.                           *)
LEMMA MembersTail ==
  ASSUME NEW S, NEW q \in Seq(S), q # <<>>
  PROVE  TxnsOf(q) = {Head(q)} \cup TxnsOf(Tail(q))
  <1>1. /\ 1 \in DOMAIN q /\ Head(q) = q[1]
        /\ \A i \in DOMAIN Tail(q) : i + 1 \in DOMAIN q /\ Tail(q)[i] = q[i + 1]
        /\ \A i \in DOMAIN q : i # 1 => i - 1 \in DOMAIN Tail(q) /\ Tail(q)[i - 1] = q[i]
    OBVIOUS
  <1>2. ASSUME NEW e \in TxnsOf(q) PROVE e \in {Head(q)} \cup TxnsOf(Tail(q))
    <2>1. PICK i \in DOMAIN q : e = q[i]
      BY DEF TxnsOf
    <2>2. CASE i = 1
      BY <1>1, <2>1, <2>2
    <2>3. CASE i # 1
      BY <1>1, <2>1, <2>3 DEF TxnsOf
    <2> QED
      BY <2>2, <2>3
  <1>3. ASSUME NEW e \in {Head(q)} \cup TxnsOf(Tail(q)) PROVE e \in TxnsOf(q)
    BY <1>1 DEF TxnsOf
  <1> QED
    BY <1>2, <1>3

LEMMA MembersAppend ==
  ASSUME NEW S, NEW q \in Seq(S), NEW e
  PROVE  TxnsOf(Append(q, e)) = TxnsOf(q) \cup {e}
  <1>1. /\ DOMAIN Append(q, e) = 1..(Len(q) + 1) /\ DOMAIN q = 1..Len(q) /\ Len(q) \in Nat
        /\ \A i \in 1..(Len(q) + 1) : Append(q, e)[i] = IF i = Len(q) + 1 THEN e ELSE q[i]
    OBVIOUS
  <1>2. \A i \in 1..(Len(q) + 1) : i # Len(q) + 1 => i \in 1..Len(q)
    BY <1>1
  <1>3. \A i \in 1..Len(q) : i \in 1..(Len(q) + 1) /\ i # Len(q) + 1
    BY <1>1
  <1>4. Len(q) + 1 \in 1..(Len(q) + 1)
    BY <1>1
  <1> QED
    BY <1>1, <1>2, <1>3, <1>4 DEF TxnsOf

LEMMA MembersType ==
  ASSUME NEW S, NEW q \in Seq(S)
  PROVE  TxnsOf(q) \subseteq S
  BY DEF TxnsOf

(* Only a client that sends changes what was sent, and not what was sent   *)
(* before.                                                                 *)
LEMMA NumberedBatch ==
  ASSUME NEW m \in Menu, m.type = "UpdateDocuments", NEW n \in Nat, NEW txns,
         txns = Numbered(m, n).txns
  PROVE  /\ txns \in Seq(Transaction) /\ IsBatch(txns)
         /\ \A t \in TxnsOf(txns) : t.id = n
         /\ \A t, u \in TxnsOf(txns) : t.doc = u.doc => t = u
         /\ DocsOf(txns) = DocsOf(m.txns)
  <1>1. m \in ApiMsg /\ IsBatch(m.txns)
    BY MenuAssumption
  <1>2. m = [type |-> "UpdateDocuments", txns |-> m.txns] /\ m.txns \in Seq(Transaction)
    BY <1>1 DEF ApiMsg
  <1>3. txns = [i \in DOMAIN m.txns |-> [m.txns[i] EXCEPT !.id = n]]
    BY <1>2 DEF Numbered
  <1>4. \A t \in Transaction : /\ [t EXCEPT !.id = n] \in Transaction
                                /\ [t EXCEPT !.id = n].id = n /\ [t EXCEPT !.id = n].doc = t.doc
    BY DEF Transaction
  <1>5. /\ DOMAIN txns = DOMAIN m.txns
        /\ \A i \in DOMAIN txns : txns[i].id = n /\ txns[i].doc = m.txns[i].doc
        /\ txns \in Seq(Transaction)
    BY <1>2, <1>3, <1>4
  <1>6. IsBatch(txns)
    <2>1. txns # <<>>
      BY <1>1, <1>2, <1>5 DEF IsBatch
    <2> QED
      BY <1>1, <1>5, <2>1 DEF IsBatch
  <1>7. \A t, u \in TxnsOf(txns) : t.doc = u.doc => t = u
    BY <1>6 DEF IsBatch, TxnsOf
  <1> QED
    BY <1>5, <1>6, <1>7 DEF TxnsOf, DocsOf

LEMMA NotSent ==
  ASSUME [Next]_vars, ~ \E m \in Menu : Send(m), ~ \E c \in Clients : Flush(c)
  PROVE  UNCHANGED <<life, sends, closing, sent>>
  <1>1. CASE Elsewhere
    BY <1>1, StayedMove DEF clientVars
  <1>2. CASE \/ PollTransactions \/ PollFlushComplete \/ PollClearNamespace \/ Discard
             \/ ReceiveForBackend \/ ReceiveForSceneBuilder \/ Forwards \/ Takes \/ Stopped
             \/ LowForward \/ BuildTransactions \/ Builds \/ BuilderDeleteDocument
             \/ WakeBackend
    BY <1>2 DEF PollTransactions, PollFlushComplete, PollClearNamespace, Discard, ReceiveForBackend,
       ReceiveForSceneBuilder, Forwards, ReceiveDeleteDocument, ReceiveForwarded, ReceiveShutDown,
       Takes, ReceiveAddDocument, ReceiveMemoryPressure, ReceiveWakeUp, Stopped, LowForward,
       BuildTransactions, Builds, BuilderFlush, BuilderClearNamespace, BuilderStop,
       BuilderDeleteDocument, WakeBackend, clientVars
  <1> QED
    BY <1>1, <1>2, Steps

LEMMA BatchesKept ==
  ASSUME TypeOK, NumbersOK, [Next]_vars
  PROVE  /\ sends \in Nat /\ sends' \in Nat /\ sends <= sends' /\ sent \subseteq sent'
         /\ \A n \in 1..sends : Batch(n)' = Batch(n)
  <1>1. sends \in Nat
    BY DEF TypeOK, ClientTypeOK
  <1>2. CASE \E m \in Menu : Send(m)
    <2>1. PICK m \in Menu : Send(m)
      BY <1>2
    <2>2. sends' = sends + 1
      BY <2>1 DEF Send
    <2>3. CASE m.type = "UpdateDocuments"
      <3>1. PICK txns : txns = Numbered(m, sends + 1).txns
        OBVIOUS
      <3>2. sent' = sent \cup TxnsOf(txns)
        BY <2>1, <2>3, <3>1 DEF Send
      <3>3. \A t \in TxnsOf(txns) : t.id = sends + 1
        BY <1>1, <2>3, <3>1, NumberedBatch
      <3> QED
        BY <1>1, <2>2, <3>2, <3>3 DEF Batch
    <2>4. CASE m.type # "UpdateDocuments"
      BY <1>1, <2>1, <2>2, <2>4 DEF Send, Batch
    <2> QED
      BY <2>3, <2>4
  <1>3. CASE \E c \in Clients : Flush(c)
    BY <1>1, <1>3 DEF Flush, Batch
  <1> QED
    BY <1>1, <1>2, <1>3, NotSent DEF Batch

(* The render backend settles the transaction it is at.                    *)
LEMMA SettledBy ==
  ASSUME [Next]_vars
  PROVE  \/ settled' = settled
         \/ /\ SkipTransaction \/ Settle
            /\ settled' = Append(settled, <<Head(work).txn.id, Head(work).txn.doc>>)
  <1>1. CASE SkipTransaction
    BY <1>1 DEF SkipTransaction
  <1>2. CASE Settle
    BY <1>2 DEF Settle
  <1>3. ASSUME ~SkipTransaction, ~Settle PROVE settled' = settled
    BY <1>3 DEF Next, Backend, SceneBuilder, Renderer, vars, Rest, Send, Flush, PollTransactions,
       PollFlushComplete, PollClearNamespace, PollNothing, Publish, NopDocument, SwapAndWait,
       UpdateTransaction, ResumeAndUpdate, NewFrameReady, ReceiveForSceneBuilder,
       ReceiveForBackend, ReceiveAddDocument, ReceiveDeleteDocument, ReceiveForwarded,
       ReceiveMemoryPressure, ReceiveWakeUp, ReceiveShutDown, Discard, Stopped, LowForward,
       BuildTransactions, BuilderDeleteDocument, BuilderFlush, BuilderClearNamespace, BuilderStop,
       WakeBackend, ReceiveSwap, PostSceneSwap, RendererWake, UpdatePipelineInfo,
       UpdateDocumentFrame, UpdateNotifications, UpdateResources, UpdateDone, Render
  <1> QED
    BY <1>1, <1>2, <1>3

LEMMA WorkHead ==
  ASSUME TypeOK, HandshakeInv, SkipTransaction \/ Settle \/ NewFrameReady
  PROVE  work # <<>> /\ work \in Seq(BuiltTransaction) /\ Head(work) \in TxnsOf(work)
         /\ TxnsOf(work) = {Head(work)} \cup TxnsOf(Tail(work))
  <1>1. work # <<>> /\ work \in Seq(BuiltTransaction)
    BY DEF SkipTransaction, Settle, NewFrameReady, At, HandshakeInv, Working, TypeOK, BackendTypeOK
  <1> QED
    BY <1>1, MembersTail

LEMMA NumbersStep ==
  ASSUME TypeOK, HandshakeInv, NumbersOK, WorkOK, [Next]_vars
  PROVE  NumbersOK'
  <1>1. sends \in Nat /\ sends' \in Nat /\ sends <= sends'
    BY BatchesKept
  <1>2. \A s \in TxnsOf(settled)' : s[1] \in 1..sends'
    <2>1. CASE settled' = settled
      BY <1>1, <2>1 DEF NumbersOK, TxnsOf
    <2>2. CASE /\ SkipTransaction \/ Settle
               /\ settled' = Append(settled, <<Head(work).txn.id, Head(work).txn.doc>>)
      <3>1. Head(work).txn.id \in 1..sends
        BY <2>2, WorkHead DEF WorkOK
      <3>2. TxnsOf(settled') = TxnsOf(settled) \cup {<<Head(work).txn.id, Head(work).txn.doc>>}
        BY <2>2, MembersAppend DEF TypeOK, HistoryTypeOK
      <3>3. TxnsOf(settled)' = TxnsOf(settled')
        BY DEF TxnsOf
      <3> QED
        BY <1>1, <3>1, <3>2, <3>3 DEF NumbersOK
    <2> QED
      BY <2>1, <2>2, SettledBy
  <1>3. /\ \A t \in sent' : t.id \in 1..sends'
        /\ \A t, u \in sent' : t.id = u.id /\ t.doc = u.doc => t = u
    <2>1. CASE \E m \in Menu : Send(m)
      <3>1. PICK m \in Menu : Send(m)
        BY <2>1
      <3>2. CASE m.type = "UpdateDocuments"
        <4>1. PICK txns : txns = Numbered(m, sends + 1).txns
          OBVIOUS
        <4>2. sent' = sent \cup TxnsOf(txns) /\ sends' = sends + 1
          BY <3>1, <3>2, <4>1 DEF Send
        <4>3. /\ \A t \in TxnsOf(txns) : t.id = sends + 1
              /\ \A t, u \in TxnsOf(txns) : t.doc = u.doc => t = u
          BY <1>1, <3>2, <4>1, NumberedBatch
        <4>4. \A t \in sent : t.id # sends + 1
          BY <1>1 DEF NumbersOK
        <4> QED
          BY <1>1, <4>2, <4>3, <4>4 DEF NumbersOK
      <3>3. CASE m.type # "UpdateDocuments"
        BY <1>1, <3>1, <3>3 DEF Send, NumbersOK
      <3> QED
        BY <3>2, <3>3
    <2>2. CASE \E c \in Clients : Flush(c)
      BY <1>1, <2>2 DEF Flush, NumbersOK
    <2> QED
      BY <1>1, <2>1, <2>2, NotSent DEF NumbersOK
  <1> QED
    BY <1>2, <1>3 DEF NumbersOK

(* What the render backend works on.                                       *)
LEMMA WorkStep ==
  ASSUME TypeOK, HandshakeInv, NumbersOK, BatchesWhole, WorkOK, [Next]_vars
  PROVE  WorkOK'
  <1>1. sends \in Nat /\ sends' \in Nat /\ sends <= sends'
    BY BatchesKept
  <1> USE DEF WorkOK
  <1>2. \A n, d : SettledMark(n, d) => SettledMark(n, d)'
    <2>1. CASE settled' = settled
      BY <2>1 DEF SettledMark
    <2>2. CASE \E e : settled' = Append(settled, e)
      <3>1. \A i \in DOMAIN settled : i \in DOMAIN settled' /\ settled'[i] = settled[i]
        BY <2>2 DEF TypeOK, HistoryTypeOK
      <3> QED
        BY <3>1 DEF SettledMark
    <2> QED
      BY <2>1, <2>2, SettledBy
  <1>3. ASSUME UNCHANGED <<rbPc, work>> PROVE WorkOK'
    BY <1>1, <1>2, <1>3 DEF TxnsOf
  <1>4. CASE \/ \E m \in Menu : Send(m)
             \/ \E c \in Clients : Flush(c)
             \/ LowForward \/ SceneBuilder \/ Renderer \/ Rest \/ UNCHANGED vars
             \/ Publish \/ (\E d \in Docs : NopDocument(d))
             \/ PollFlushComplete \/ PollClearNamespace \/ Discard
    <2>1. UNCHANGED <<rbPc, work>>
      BY <1>4 DEF Send, Flush, LowForward, SceneBuilder, BuildTransactions, BuilderDeleteDocument,
         BuilderFlush, BuilderClearNamespace, BuilderStop, WakeBackend, ReceiveSwap, PostSceneSwap,
         Renderer, RendererWake, UpdatePipelineInfo, UpdateDocumentFrame, UpdateNotifications,
         UpdateResources, UpdateDone, Render, Rest, vars, backendVars, Publish, NopDocument,
         PollFlushComplete, PollClearNamespace, Discard
    <2> QED
      BY <1>3, <2>1
  <1>5. CASE PollTransactions
    <2>1. /\ sceneResults # <<>> /\ Head(sceneResults).type = "Transactions"
          /\ work' = Head(sceneResults).txns /\ rbPc' = "apply"
      BY <1>5 DEF PollTransactions
    <2>2. Head(sceneResults) \in TxnsOf(sceneResults)
      BY <2>1, MembersTail DEF TypeOK, ChannelTypeOK
    <2>3. TxnsOf(work)' = TxnsOf(Head(sceneResults).txns)
      BY <2>1 DEF TxnsOf
    <2> QED
      BY <1>1, <2>1, <2>2, <2>3 DEF BatchesWhole
  <1>6. CASE ReceiveForBackend
    <2>1. /\ api # <<>> /\ Head(api).type = "UpdateDocuments" /\ rbPc' = "apply"
          /\ work' = [i \in DOMAIN Head(api).txns |->
                       [txn |-> Head(api).txns[i], built |-> EmptyScene]]
      BY <1>6 DEF ReceiveForBackend, Receives
    <2>2. Head(api) \in TxnsOf(api)
      BY <2>1, MembersTail DEF TypeOK, ChannelTypeOK
    <2>3. PICK n \in 1..sends : TxnsOf(Head(api).txns) = Batch(n)
      BY <2>1, <2>2 DEF BatchesWhole, IsBatchOf
    <2>4. \A b \in TxnsOf(work)' : b.txn \in Batch(n)
      BY <2>1, <2>3 DEF TxnsOf
    <2> QED
      BY <1>1, <2>1, <2>4 DEF Batch
  <1>7. CASE PollNothing \/ Takes \/ Forwards \/ ReceiveForSceneBuilder \/ Stopped
    <2>1. /\ rbPc \in {"poll", "api", "stopping"} /\ rbPc' \in {"poll", "api", "stopping", "done"}
          /\ work' = work
      BY <1>7 DEF PollNothing, Takes, ReceiveAddDocument, ReceiveMemoryPressure, ReceiveWakeUp,
         Forwards, ReceiveDeleteDocument, ReceiveForwarded, ReceiveShutDown,
         ReceiveForSceneBuilder, Stopped, Receives, At, backendVars
    <2>2. work' = <<>> /\ TxnsOf(work)' = {}
      BY <2>1 DEF TxnsOf
    <2> QED
      BY <2>1, <2>2
  <1>8. CASE SwapAndWait \/ UpdateTransaction \/ ResumeAndUpdate
    <2>1. rbPc' \in {"resume", "panicked", "settle"} /\ work' = work
      BY <1>8 DEF SwapAndWait, UpdateTransaction, ResumeAndUpdate, UpdateHead
    <2>2. TxnsOf(work)' = TxnsOf(work)
      BY <2>1 DEF TxnsOf
    <2> QED
      BY <1>1, <2>1, <2>2
  <1>9. CASE SkipTransaction \/ Settle \/ NewFrameReady
    <2>1. work \in Seq(BuiltTransaction) /\ work # <<>>
          /\ TxnsOf(work) = {Head(work)} \cup TxnsOf(Tail(work))
      BY <1>9, WorkHead
    <2>2. CASE NextTransaction
      <3>1. work' = Tail(work) /\ rbPc' = IF Tail(work) = <<>> THEN "poll" ELSE "apply"
        BY <2>2 DEF NextTransaction
      <3>2. TxnsOf(work)' = TxnsOf(Tail(work))
        BY <3>1 DEF TxnsOf
      <3> QED
        BY <1>1, <2>1, <3>1, <3>2
    <2>3. CASE SkipTransaction /\ rbPc' = "panicked" /\ work' = work
      <3>1. TxnsOf(work)' = TxnsOf(work)
        BY <2>3 DEF TxnsOf
      <3> QED
        BY <1>1, <2>3, <3>1
    <2>4. CASE Settle /\ rbPc' = "notify" /\ work' = work
      <3>1. TxnsOf(work)' = TxnsOf(work)
        BY <2>4 DEF TxnsOf
      <3>2. settled' = Append(settled, <<Head(work).txn.id, Head(work).txn.doc>>)
        BY <2>4 DEF Settle
      <3>3. /\ Len(settled) + 1 \in DOMAIN settled'
            /\ settled'[Len(settled) + 1] = <<Head(work).txn.id, Head(work).txn.doc>>
        BY <3>2 DEF TypeOK, HistoryTypeOK
      <3>4. SettledMark(Head(work).txn.id, Head(work).txn.doc)'
        BY <2>4, <3>3 DEF SettledMark
      <3> QED
        BY <1>1, <2>4, <3>1, <3>4
    <2> QED
      BY <1>9, <2>2, <2>3, <2>4 DEF SkipTransaction, Settle, NewFrameReady
  <1> QED
    BY <1>4, <1>5, <1>6, <1>7, <1>8, <1>9 DEF Next, Backend, Takes, Forwards

(* Each message keeps its whole batch.                                     *)
LEMMA BatchKept ==
  ASSUME TypeOK, NumbersOK, [Next]_vars, NEW n \in 1..sends
  PROVE  /\ n \in 1..sends' /\ Batch(n)' = Batch(n)
         /\ \A txns : IsBatchOf(txns, n) => IsBatchOf(txns, n)'
         /\ UsesHighPriority(Batch(n))' <=> UsesHighPriority(Batch(n))
         /\ UsesSceneBuilder(Batch(n))' <=> UsesSceneBuilder(Batch(n))
  <1>1. n \in 1..sends' /\ Batch(n)' = Batch(n)
    BY BatchesKept
  <1>2. ASSUME NEW txns, IsBatchOf(txns, n) PROVE IsBatchOf(txns, n)'
    BY <1>1, <1>2 DEF IsBatchOf
  <1>3. UsesHighPriority(Batch(n))' <=> UsesHighPriority(Batch(n))
    BY <1>1 DEF UsesHighPriority
  <1>4. UsesSceneBuilder(Batch(n))' <=> UsesSceneBuilder(Batch(n))
    BY <1>1 DEF UsesSceneBuilder
  <1> QED
    BY <1>1, <1>2, <1>3, <1>4

LEMMA QueuesUnchanged ==
  ASSUME [Next]_vars
  PROVE  /\ \/ api' = api \/ (api # <<>> /\ api' = Tail(api)) \/ api' = <<>>
            \/ (\E m \in Menu : Send(m)) \/ (\E c \in Clients : Flush(c)) \/ WakeBackend
         /\ \/ lowScene' = lowScene \/ LowForward \/ ReceiveForSceneBuilder \/ Forwards
         /\ \/ highScene' = highScene \/ (highScene # <<>> /\ highScene' = Tail(highScene))
            \/ LowForward \/ ReceiveForSceneBuilder
         /\ \/ sceneResults' = sceneResults
            \/ (sceneResults # <<>> /\ sceneResults' = Tail(sceneResults))
            \/ BuildTransactions \/ Builds
  <1>1. CASE Elsewhere
    BY <1>1, StayedMove
  <1>2. CASE (\E m \in Menu : Send(m)) \/ (\E c \in Clients : Flush(c)) \/ WakeBackend
    BY <1>2 DEF Send, Flush, WakeBackend
  <1>3. CASE \/ PollTransactions \/ PollFlushComplete \/ PollClearNamespace \/ Discard \/ Stopped
    BY <1>3 DEF PollTransactions, PollFlushComplete, PollClearNamespace, Discard, Stopped
  <1>4. CASE ReceiveForBackend \/ Takes
    BY <1>4 DEF ReceiveForBackend, Takes, ReceiveAddDocument, ReceiveMemoryPressure,
       ReceiveWakeUp, Receives
  <1>5. CASE ReceiveForSceneBuilder
    BY <1>5 DEF ReceiveForSceneBuilder, Receives
  <1>6. CASE Forwards
    BY <1>6 DEF Forwards, ReceiveDeleteDocument, ReceiveForwarded, ReceiveShutDown, SendLow, Receives
  <1>7. CASE LowForward
    BY <1>7 DEF LowForward
  <1>8. CASE BuildTransactions \/ Builds \/ BuilderDeleteDocument
    BY <1>8 DEF BuildTransactions, Builds, BuilderFlush, BuilderClearNamespace, BuilderStop,
       BuilderDeleteDocument
  <1> QED
    BY <1>1, <1>2, <1>3, <1>4, <1>5, <1>6, <1>7, <1>8, Steps

LEMMA BatchesStep ==
  ASSUME TypeOK, NumbersOK, BatchesWhole, [Next]_vars
  PROVE  BatchesWhole'
  <1> USE DEF TypeOK, ChannelTypeOK
  <1>1. sends \in Nat /\ sends' \in Nat /\ sends <= sends'
    BY BatchesKept
  <1>2. ASSUME NEW m \in TxnsOf(api'), m.type = "UpdateDocuments"
        PROVE  \E n \in 1..sends' : IsBatchOf(m.txns, n)'
    <2>1. CASE m \in TxnsOf(api)
      <3>1. PICK n \in 1..sends : IsBatchOf(m.txns, n)
        BY <1>2, <2>1 DEF BatchesWhole
      <3> QED
        BY <3>1, BatchKept
    <2>2. CASE \E k \in Menu : Send(k)
      <3>1. PICK k \in Menu : Send(k)
        BY <2>2
      <3>2. api' = Append(api, Numbered(k, sends + 1)) /\ sends' = sends + 1
        BY <3>1 DEF Send
      <3>3. CASE m = Numbered(k, sends + 1)
        <4>1. k \in ApiMsg
          BY MenuAssumption
        <4>2. k.type = "UpdateDocuments"
          BY <1>2, <3>3, <4>1 DEF Numbered
        <4>3. /\ IsBatch(m.txns)
              /\ \A t \in TxnsOf(m.txns) : t.id = sends + 1
          BY <1>1, <3>3, <4>2, NumberedBatch
        <4>4. sent' = sent \cup TxnsOf(m.txns)
          BY <3>1, <3>3, <4>2 DEF Send
        <4>5. \A t \in sent : t.id # sends + 1
          BY <1>1 DEF NumbersOK
        <4>6. PICK n : n = sends + 1
          OBVIOUS
        <4>7. n \in 1..sends' /\ Batch(n)' = {t \in sent' : t.id = n}
          BY <1>1, <3>2, <4>6 DEF Batch
        <4>8. {t \in sent' : t.id = n} = TxnsOf(m.txns)
          BY <4>3, <4>4, <4>5, <4>6
        <4>9. IsBatchOf(m.txns, n)'
          BY <4>3, <4>7, <4>8 DEF IsBatchOf
        <4> QED
          BY <4>7, <4>9
      <3> QED
        BY <2>1, <3>2, <3>3, MembersAppend
    <2>3. CASE \E c \in Clients : Flush(c)
      BY <1>2, <2>1, <2>3, MembersAppend DEF Flush
    <2>4. CASE WakeBackend
      BY <1>2, <2>1, <2>4, MembersAppend DEF WakeBackend
    <2>5. CASE api' = api \/ (api # <<>> /\ api' = Tail(api)) \/ api' = <<>>
      <3>1. api' # <<>>
        BY <1>2 DEF TxnsOf
      <3> QED
        BY <1>2, <2>1, <2>5, <3>1, MembersTail
    <2> QED
      BY <2>2, <2>3, <2>4, <2>5, QueuesUnchanged
  <1>3. ASSUME ReceiveForSceneBuilder, NEW m, m = [type |-> "Transactions", txns |-> Head(api).txns]
        PROVE  \E n \in 1..sends : IsBatchOf(m.txns, n) /\ TxnsOf(Head(api).txns) = Batch(n)
    <2>1. Head(api) \in TxnsOf(api) /\ Head(api).type = "UpdateDocuments"
      BY <1>3, MembersTail DEF ReceiveForSceneBuilder, Receives
    <2> QED
      BY <1>3, <2>1 DEF BatchesWhole, IsBatchOf
  <1>4. ASSUME NEW m \in TxnsOf(lowScene'), m.type = "Transactions"
        PROVE  \E n \in 1..sends' : IsBatchOf(m.txns, n)' /\ ~UsesHighPriority(Batch(n))'
    <2>1. CASE m \in TxnsOf(lowScene)
      <3>1. PICK n \in 1..sends : IsBatchOf(m.txns, n) /\ ~UsesHighPriority(Batch(n))
        BY <1>4, <2>1 DEF BatchesWhole
      <3> QED
        BY <3>1, BatchKept
    <2>2. CASE LowForward
      BY <1>4, <2>1, <2>2, MembersTail DEF LowForward
    <2>3. CASE ReceiveForSceneBuilder
      <3> DEFINE r == [type |-> "Transactions", txns |-> Head(api).txns]
      <3>1. CASE UsesHighPriority(TxnsOf(Head(api).txns))
        BY <1>4, <2>1, <2>3, <3>1 DEF ReceiveForSceneBuilder, ForwardTransactions
      <3>2. CASE ~UsesHighPriority(TxnsOf(Head(api).txns))
        <4>1. lowScene' = Append(lowScene, r)
          BY <2>3, <3>2 DEF ReceiveForSceneBuilder, ForwardTransactions
        <4>2. CASE m = r
          <5>1. PICK n \in 1..sends : IsBatchOf(m.txns, n) /\ TxnsOf(Head(api).txns) = Batch(n)
            BY <1>3, <2>3, <4>2
          <5>2. ~UsesHighPriority(Batch(n))
            BY <3>2, <5>1
          <5> QED
            BY <5>1, <5>2, BatchKept
        <4> HIDE DEF r
        <4> QED
          BY <2>1, <4>1, <4>2, MembersAppend
      <3> QED
        BY <3>1, <3>2
    <2>4. CASE Forwards
      <3>1. PICK r : lowScene' = Append(lowScene, r) /\ r.type # "Transactions"
        <4>1. Head(api).type \in {"FlushSceneBuilder", "ClearNamespace"}
                => RequestFor(Head(api)).type # "Transactions"
          BY DEF RequestFor
        <4> QED
          BY <2>4, <4>1 DEF Forwards, ReceiveDeleteDocument, ReceiveForwarded, ReceiveShutDown,
             SendLow, Receives
      <3> QED
        BY <1>4, <2>1, <3>1, MembersAppend
    <2>5. CASE lowScene' = lowScene
      BY <1>4, <2>1, <2>5
    <2> QED
      BY <2>2, <2>3, <2>4, <2>5, QueuesUnchanged
  <1>5. ASSUME NEW m \in TxnsOf(highScene'), m.type = "Transactions"
        PROVE  \E n \in 1..sends' : IsBatchOf(m.txns, n)'
    <2>1. CASE m \in TxnsOf(highScene) \cup TxnsOf(lowScene)
      <3>1. PICK n \in 1..sends : IsBatchOf(m.txns, n)
        BY <1>5, <2>1 DEF BatchesWhole
      <3> QED
        BY <3>1, BatchKept
    <2>2. CASE LowForward
      <3>1. highScene' = Append(highScene, Head(lowScene)) /\ Head(lowScene) \in TxnsOf(lowScene)
        BY <2>2, MembersTail DEF LowForward
      <3>2. TxnsOf(highScene') = TxnsOf(highScene) \cup {Head(lowScene)}
        BY <3>1, MembersAppend
      <3> QED
        BY <1>5, <2>1, <3>1, <3>2
    <2>3. CASE ReceiveForSceneBuilder
      <3> DEFINE r == [type |-> "Transactions", txns |-> Head(api).txns]
      <3>1. CASE ~UsesHighPriority(TxnsOf(Head(api).txns))
        BY <1>5, <2>1, <2>3, <3>1 DEF ReceiveForSceneBuilder, ForwardTransactions
      <3>2. CASE UsesHighPriority(TxnsOf(Head(api).txns))
        <4>1. highScene' = Append(highScene, r)
          BY <2>3, <3>2 DEF ReceiveForSceneBuilder, ForwardTransactions
        <4>2. CASE m = r
          <5>1. PICK n \in 1..sends : IsBatchOf(m.txns, n)
            BY <1>3, <2>3, <4>2
          <5> QED
            BY <5>1, BatchKept
        <4> HIDE DEF r
        <4>3. TxnsOf(highScene') = TxnsOf(highScene) \cup {r}
          BY <4>1, MembersAppend
        <4> QED
          BY <1>5, <2>1, <4>2, <4>3
      <3> QED
        BY <3>1, <3>2
    <2>4. CASE highScene # <<>> /\ highScene' = Tail(highScene)
      BY <1>5, <2>1, <2>4, MembersTail
    <2>5. CASE highScene' = highScene
      BY <1>5, <2>1, <2>5
    <2> QED
      BY <2>2, <2>3, <2>4, <2>5, QueuesUnchanged
  <1>6. ASSUME NEW m \in TxnsOf(sceneResults'), m.type = "Transactions",
               NEW b \in TxnsOf(m.txns), NEW c \in TxnsOf(m.txns)
        PROVE  b.txn.id \in 1..sends' /\ b.txn.id = c.txn.id
    <2>1. CASE m \in TxnsOf(sceneResults)
      BY <1>1, <1>6, <2>1 DEF BatchesWhole
    <2>2. CASE BuildTransactions
      <3>1. PICK txns, built, swap :
               /\ txns = Head(highScene).txns
               /\ built = [i \in DOMAIN txns |-> Processed(txns[i])]
               /\ sceneResults' = Append(sceneResults,
                    [type |-> "Transactions", txns |-> built, swap |-> swap])
        BY <2>2 DEF BuildTransactions
      <3>2. CASE m = [type |-> "Transactions", txns |-> built, swap |-> swap]
        <4>1. Head(highScene) \in TxnsOf(highScene) /\ Head(highScene).type = "Transactions"
              /\ Head(highScene).txns \in Seq(Transaction)
          BY <2>2, MembersTail, RequestOfQueue DEF BuildTransactions
        <4>2. PICK n \in 1..sends : TxnsOf(txns) = Batch(n)
          BY <3>1, <4>1 DEF BatchesWhole, IsBatchOf
        <4>3. \A i \in DOMAIN txns : txns[i] \in Batch(n) /\ txns[i] \in Transaction
          BY <3>1, <4>1, <4>2 DEF TxnsOf
        <4>4. \A t \in Transaction : Processed(t).txn.id = t.id
          BY DEF Processed, Transaction
        <4>5. \A i \in DOMAIN built : built[i].txn.id = n
          <5>1. \A t \in Batch(n) : t.id = n
            BY DEF Batch
          <5>2. \A i \in DOMAIN built : i \in DOMAIN txns /\ built[i] = Processed(txns[i])
            BY <3>1, Zenon
          <5> TAKE i \in DOMAIN built
          <5>3. built[i] = Processed(txns[i]) /\ txns[i] \in Batch(n) /\ txns[i] \in Transaction
            BY <4>3, <5>2, Zenon
          <5>4. Processed(txns[i]).txn.id = txns[i].id /\ txns[i].id = n
            BY <4>4, <5>1, <5>3, Zenon
          <5> QED
            BY <5>3, <5>4
        <4>6. \A e \in TxnsOf(built) : e.txn.id = n
          BY <4>5 DEF TxnsOf
        <4>7. m.txns = built
          BY <3>2
        <4> QED
          BY <1>1, <1>6, <4>6, <4>7
      <3>3. TxnsOf(sceneResults') = TxnsOf(sceneResults)
              \cup {[type |-> "Transactions", txns |-> built, swap |-> swap]}
        BY <3>1, MembersAppend
      <3> QED
        BY <1>6, <2>1, <3>2, <3>3
    <2>3. CASE Builds
      <3>1. PICK r : sceneResults' = Append(sceneResults, r) /\ r.type # "Transactions"
        BY <2>3 DEF Builds, BuilderFlush, BuilderClearNamespace, BuilderStop
      <3> QED
        BY <1>6, <2>1, <3>1, MembersAppend
    <2>4. CASE sceneResults' = sceneResults \/ (sceneResults # <<>> /\ sceneResults' = Tail(sceneResults))
      BY <1>6, <2>1, <2>4, MembersTail
    <2> QED
      BY <2>2, <2>3, <2>4, QueuesUnchanged
  <1>7. /\ TxnsOf(api)' = TxnsOf(api') /\ TxnsOf(lowScene)' = TxnsOf(lowScene')
        /\ TxnsOf(highScene)' = TxnsOf(highScene') /\ TxnsOf(sceneResults)' = TxnsOf(sceneResults')
    BY DEF TxnsOf
  <1>8. \A m \in TxnsOf(sceneResults)' : m.type = "Transactions" =>
          (\A b, c \in TxnsOf(m.txns) : b.txn.id \in 1..sends /\ b.txn.id = c.txn.id)'
    BY <1>6, <1>7 DEF TxnsOf
  <1> QED
    BY <1>2, <1>4, <1>5, <1>7, <1>8 DEF BatchesWhole, TxnsOf

(* The marks of the work.                                                  *)
LEMMA WorkMarksOf ==
  /\ WorkMarks' = {TxnMark(b.txn) : b \in TxnsOf(work')}
  /\ work' = work => WorkMarks' = WorkMarks
  /\ work = <<>> => WorkMarks = {}
  /\ work' = <<>> => WorkMarks' = {}
  BY DEF WorkMarks, TxnsOf, TxnMark

LEMMA PolledWork ==
  ASSUME TypeOK, WorkOK, PollTransactions
  PROVE  WorkMarks = {} /\ WorkMarks' = Head(ResultLine)
  <1>1. /\ sceneResults # <<>> /\ Head(sceneResults).type = "Transactions"
        /\ work' = Head(sceneResults).txns /\ rbPc = "poll"
    BY DEF PollTransactions, At
  <1>2. Head(ResultLine) = ResultMarks(Head(sceneResults))
    BY PolledMove
  <1> QED
    BY <1>1, <1>2, WorkMarksOf DEF ResultMarks, WorkOK

LEMMA TakenWork ==
  ASSUME TypeOK, WorkOK, ReceiveForBackend
  PROVE  WorkMarks = {} /\ WorkMarks' = Head(ApiLine)
  <1>1. /\ api # <<>> /\ Head(api).type = "UpdateDocuments" /\ rbPc = "api"
        /\ work' = [i \in DOMAIN Head(api).txns |->
                      [txn |-> Head(api).txns[i], built |-> EmptyScene]]
    BY DEF ReceiveForBackend, Receives, At
  <1>2. Head(ApiLine) = {TxnMark(t) : t \in TxnsOf(Head(api).txns)}
    BY <1>1, TakenMove DEF MarksOf
  <1>3. {TxnMark(b.txn) : b \in TxnsOf(work')} = {TxnMark(t) : t \in TxnsOf(Head(api).txns)}
    <2>1. PICK txns : txns = Head(api).txns
      OBVIOUS
    <2>2. DOMAIN work' = DOMAIN txns /\ \A i \in DOMAIN txns : work'[i].txn = txns[i]
      BY <1>1, <2>1
    <2>3. {TxnMark(b.txn) : b \in TxnsOf(work')} = {TxnMark(t) : t \in TxnsOf(txns)}
      BY <2>2 DEF TxnsOf
    <2> QED
      BY <2>1, <2>3
  <1> QED
    BY <1>1, <1>2, <1>3, WorkMarksOf DEF WorkOK

(* The render backend settles what it is at, and drops it from its work,   *)
(* or does neither.                                                        *)
LEMMA SettledWork ==
  ASSUME TypeOK, HandshakeInv, WorkOK, SkipTransaction \/ Settle \/ NewFrameReady,
         NEW n, NEW d
  PROVE  /\ <<"txn", n, d>> \in WorkMarks' => <<"txn", n, d>> \in WorkMarks
         /\ <<"txn", n, d>> \in WorkMarks =>
              <<"txn", n, d>> \in WorkMarks' \/ SettledMark(n, d)'
         /\ SettledMark(n, d) => SettledMark(n, d)'
         /\ SettledMark(n, d)' => SettledMark(n, d) \/ <<"txn", n, d>> \in WorkMarks
         /\ SettledMark(n, d)' /\ ~SettledMark(n, d) => n = Head(work).txn.id /\ d = Head(work).txn.doc
  <1>1. /\ work \in Seq(BuiltTransaction) /\ work # <<>> /\ Head(work) \in TxnsOf(work)
        /\ TxnsOf(work) = {Head(work)} \cup TxnsOf(Tail(work))
    BY WorkHead
  <1> DEFINE x == <<"txn", n, d>>
             e == <<Head(work).txn.id, Head(work).txn.doc>>
  <1>2. settled \in Seq(Nat \X Docs)
    BY DEF TypeOK, HistoryTypeOK
  <1>3. ASSUME settled' = Append(settled, e)
        PROVE  SettledMark(n, d)' <=> SettledMark(n, d) \/ <<n, d>> = e
    <2> HIDE DEF e
    <2>1. /\ DOMAIN settled' = 1..(Len(settled) + 1) /\ DOMAIN settled = 1..Len(settled)
          /\ Len(settled) \in Nat
          /\ \A i \in 1..(Len(settled) + 1) :
               settled'[i] = IF i = Len(settled) + 1 THEN e ELSE settled[i]
      BY <1>2, <1>3
    <2>2. \A i \in 1..(Len(settled) + 1) : i # Len(settled) + 1 => i \in 1..Len(settled)
      BY <2>1
    <2>3. \A i \in 1..Len(settled) : i \in 1..(Len(settled) + 1) /\ i # Len(settled) + 1
      BY <2>1
    <2>4. Len(settled) + 1 \in 1..(Len(settled) + 1)
      BY <2>1
    <2> QED
      BY <2>1, <2>2, <2>3, <2>4 DEF SettledMark
  <1>4. settled' = settled => (SettledMark(n, d)' <=> SettledMark(n, d))
    BY DEF SettledMark
  <1>5. x \in WorkMarks <=> x = TxnMark(Head(work).txn) \/ \E b \in TxnsOf(Tail(work)) : x = TxnMark(b.txn)
    BY <1>1 DEF WorkMarks
  <1>6. x = TxnMark(Head(work).txn) <=> <<n, d>> = e
    BY DEF TxnMark
  <1>7. work' = Tail(work) => (x \in WorkMarks' <=> \E b \in TxnsOf(Tail(work)) : x = TxnMark(b.txn))
    BY WorkMarksOf
  <1>8. CASE Settle \/ SkipTransaction
    <2>1. \/ settled' = Append(settled, e) /\ (work' = work \/ work' = Tail(work))
          \/ settled' = settled /\ work' = work
      BY <1>8 DEF Settle, SkipTransaction, NextTransaction
    <2> HIDE DEF e, x
    <2>2. CASE settled' = Append(settled, e) /\ work' = work
      BY <1>3, <1>5, <1>6, <2>2, WorkMarksOf DEF e, x
    <2>3. CASE settled' = Append(settled, e) /\ work' = Tail(work)
      BY <1>3, <1>5, <1>6, <1>7, <2>3 DEF e, x
    <2>4. CASE settled' = settled /\ work' = work
      BY <1>4, <2>4, WorkMarksOf DEF x
    <2> QED
      BY <2>1, <2>2, <2>3, <2>4
  <1>9. CASE NewFrameReady
    <2>1. settled' = settled /\ work' = Tail(work) /\ rbPc = "notify"
      BY <1>9 DEF NewFrameReady, NextTransaction, At
    <2>2. SettledMark(Head(work).txn.id, Head(work).txn.doc)
      BY <2>1 DEF WorkOK
    <2>3. <<n, d>> = e => SettledMark(n, d)
      BY <2>2
    <2> QED
      BY <1>4, <1>5, <1>6, <1>7, <2>1, <2>3
  <1> QED
    BY <1>8, <1>9

(* All other steps leave the work and what has settled alone.              *)
LEMMA WorkUnchanged ==
  ASSUME [Next]_vars
  PROVE  \/ PollTransactions \/ ReceiveForBackend
         \/ SkipTransaction \/ Settle \/ NewFrameReady
         \/ /\ work' = work /\ settled' = settled /\ WorkMarks' = WorkMarks
            /\ \A n, d : SettledMark(n, d)' <=> SettledMark(n, d)
  <1>1. ASSUME ~PollTransactions, ~ReceiveForBackend, ~SkipTransaction, ~Settle, ~NewFrameReady
        PROVE  UNCHANGED <<work, settled>>
    BY <1>1 DEF Next, Backend, SceneBuilder, Renderer, vars, Rest, Send, Flush,
       PollFlushComplete, PollClearNamespace, PollNothing, Publish, NopDocument, SwapAndWait,
       UpdateTransaction, ResumeAndUpdate, ReceiveForSceneBuilder, backendVars,
       ReceiveAddDocument, ReceiveDeleteDocument, ReceiveForwarded,
       ReceiveMemoryPressure, ReceiveWakeUp, ReceiveShutDown, Discard, Stopped, LowForward,
       BuildTransactions, BuilderDeleteDocument, BuilderFlush, BuilderClearNamespace, BuilderStop,
       WakeBackend, ReceiveSwap, PostSceneSwap, RendererWake, UpdatePipelineInfo,
       UpdateDocumentFrame, UpdateNotifications, UpdateResources, UpdateDone, Render
  <1>2. UNCHANGED settled => \A n, d : SettledMark(n, d)' <=> SettledMark(n, d)
    BY DEF SettledMark
  <1> QED
    BY <1>1, <1>2, WorkMarksOf

(* The render backend does not come back from a shutdown.                  *)
LEMMA StaysStopped ==
  ASSUME [Next]_vars, rbPc \in {"stopping", "done"}
  PROVE  rbPc' \in {"stopping", "done"}
  BY DEF Next, Backend, SceneBuilder, Renderer, vars, Rest, Send, Flush, PollTransactions,
     PollFlushComplete, PollClearNamespace, PollNothing, Publish, NopDocument, SwapAndWait,
     SkipTransaction, Settle, NewFrameReady, At, Receives, ReceiveForBackend,
     UpdateTransaction, ResumeAndUpdate, ReceiveForSceneBuilder, backendVars,
     ReceiveAddDocument, ReceiveDeleteDocument, ReceiveForwarded,
     ReceiveMemoryPressure, ReceiveWakeUp, ReceiveShutDown, Discard, Stopped, LowForward,
     BuildTransactions, BuilderDeleteDocument, BuilderFlush, BuilderClearNamespace, BuilderStop,
     WakeBackend, ReceiveSwap, PostSceneSwap, RendererWake, UpdatePipelineInfo,
     UpdateDocumentFrame, UpdateNotifications, UpdateResources, UpdateDone, Render

LEMMA StaysDone ==
  ASSUME [Next]_vars, rbPc = "done"
  PROVE  rbPc' = "done"
  BY DEF Next, Backend, SceneBuilder, Renderer, vars, Rest, Send, Flush, PollTransactions,
     PollFlushComplete, PollClearNamespace, PollNothing, Publish, NopDocument, SwapAndWait,
     SkipTransaction, Settle, NewFrameReady, At, Receives, ReceiveForBackend,
     UpdateTransaction, ResumeAndUpdate, ReceiveForSceneBuilder, backendVars,
     ReceiveAddDocument, ReceiveDeleteDocument, ReceiveForwarded,
     ReceiveMemoryPressure, ReceiveWakeUp, ReceiveShutDown, Discard, Stopped, LowForward,
     BuildTransactions, BuilderDeleteDocument, BuilderFlush, BuilderClearNamespace, BuilderStop,
     WakeBackend, ReceiveSwap, PostSceneSwap, RendererWake, UpdatePipelineInfo,
     UpdateDocumentFrame, UpdateNotifications, UpdateResources, UpdateDone, Render

(* What moves in the line, in terms of transactions: those that leave it   *)
(* become work.                                                            *)
LEMMA TxnsMove ==
  ASSUME TypeOK, HandshakeInv, WorkOK, [Next]_vars, rbPc' \notin {"stopping", "done"},
         NEW n, NEW d, Waiting(<<"txn", n, d>>)
  PROVE  Waiting(<<"txn", n, d>>)' \/ <<"txn", n, d>> \in WorkMarks'
  <1> DEFINE x == <<"txn", n, d>>
  <1>0. LineTypeOK
    BY LineTypes DEF TypeOK
  <1>1. CASE \/ \E m \in Menu : Send(m)
             \/ \E c \in Clients : Flush(c)
    BY <1>0, <1>1, ClientMove, WaitingAfter
  <1>2. CASE Elsewhere \/ Builds \/ BuildTransactions \/ LowForward \/ Forwards
             \/ ReceiveForSceneBuilder \/ WakeBackend
    <2>1. Stayed \/ Built \/ Forwarded \/ SentLow \/ SentHigh \/ Arrived({})
      BY <1>2, StayedMove, BuiltMove, ForwardMove, OtherMoves DEF Builds, Forwards
    <2> QED
      BY <1>0, <2>1, WaitingAfter
  <1>3. CASE PollTransactions
    BY <1>0, <1>3, PolledMove, PolledWork, WaitingAfter
  <1>4. CASE PollFlushComplete \/ PollClearNamespace
    <2>1. Head(sceneResults).type # "Transactions"
      BY <1>4 DEF PollFlushComplete, PollClearNamespace
    <2>3. x \notin ResultMarks(Head(sceneResults))
      BY <2>1, ResultMarkMeans
    <2>2. x \notin Head(ResultLine) /\ Polled
      BY <1>4, <2>3, PolledMove
    <2> QED
      BY <1>0, <2>2, WaitingAfter
  <1>5. CASE ReceiveForBackend
    BY <1>0, <1>5, TakenMove, TakenWork, WaitingAfter
  <1>6. CASE Takes
    <2>1. Head(api).type \notin {"UpdateDocuments", "Transactions"}
      BY <1>6 DEF Takes, ReceiveAddDocument, ReceiveMemoryPressure, ReceiveWakeUp, Receives
    <2>3. x \notin MarksOf(Head(api))
      BY <2>1, MarkMeans
    <2>2. x \notin Head(ApiLine) /\ Taken
      BY <1>6, <2>3, TakenMove DEF Takes
    <2> QED
      BY <1>0, <2>2, WaitingAfter
  <1>7. CASE BuilderDeleteDocument
    <2>1. Head(highScene).type = "DeleteDocument"
      BY <1>7 DEF BuilderDeleteDocument
    <2>3. x \notin MarksOf(Head(highScene))
      BY <2>1, MarkMeans
    <2>2. x \notin Head(HighLine) /\ Removed
      BY <1>7, <2>3, OtherMoves
    <2> QED
      BY <1>0, <2>2, WaitingAfter
  <1>8. CASE Discard \/ Stopped
    BY <1>8 DEF Discard, Stopped, At, backendVars
  <1> QED
    BY <1>1, <1>2, <1>3, <1>4, <1>5, <1>6, <1>7, <1>8, Steps

(* What has settled stays so.                                              *)
LEMMA StaysSettled ==
  ASSUME TypeOK, HandshakeInv, WorkOK, [Next]_vars, NEW n, NEW d, SettledMark(n, d)
  PROVE  SettledMark(n, d)'
  <1>1. CASE PollTransactions \/ ReceiveForBackend
    <2>1. settled' = settled
      BY <1>1 DEF PollTransactions, ReceiveForBackend
    <2> QED
      BY <2>1 DEF SettledMark
  <1> QED
    BY <1>1, SettledWork, WorkUnchanged

LEMMA NothingLostStep ==
  ASSUME TypeOK, HandshakeInv, NumbersOK, WorkOK, NothingLost, [Next]_vars
  PROVE  NothingLost'
  <1> SUFFICES ASSUME rbPc' \notin {"stopping", "done"}, NEW t \in sent', NEW n, n = t.id, NEW d, d = t.doc
               PROVE  \/ SettledMark(n, d)' \/ Waiting(<<"txn", n, d>>)'
                      \/ <<"txn", n, d>> \in WorkMarks'
    <2>1. \A t : Settled(t)' <=> SettledMark(t.id, t.doc)'
      BY DEF Settled, SettledMark
    <2>2. \A t : TxnMark(t) = <<"txn", t.id, t.doc>>
      BY DEF TxnMark
    <2>3. ASSUME NEW t \in sent', rbPc' \notin {"stopping", "done"}
          PROVE  Settled(t)' \/ Waiting(TxnMark(t))' \/ TxnMark(t) \in WorkMarks'
      <3>1. PICK n, d : n = t.id /\ d = t.doc
        OBVIOUS
      <3> QED
        BY <2>1, <2>2, <2>3, <3>1
    <2> QED
      BY <2>3 DEF NothingLost
  <1> DEFINE x == <<"txn", n, d>>
  <1>1. CASE t \in sent
    <2>1. SettledMark(n, d) \/ Waiting(x) \/ x \in WorkMarks
      BY <1>1, StaysStopped DEF NothingLost, Settled, SettledMark, TxnMark
    <2>2. CASE SettledMark(n, d)
      BY <2>2, StaysSettled
    <2>3. CASE Waiting(x)
      BY <2>3, TxnsMove
    <2>4. CASE x \in WorkMarks
      BY <2>4, SettledWork, WorkUnchanged, PolledWork, TakenWork
    <2> QED
      BY <2>1, <2>2, <2>3, <2>4
  <1>2. CASE t \notin sent
    <2>1. PICK m \in Menu : Send(m)
      BY <1>2, NotSent DEF Flush
    <2>2. m.type = "UpdateDocuments" /\ t \in TxnsOf(Numbered(m, sends + 1).txns)
      BY <1>2, <2>1 DEF Send
    <2>3. Numbered(m, sends + 1).type = "UpdateDocuments"
      <3>1. m \in ApiMsg
        BY MenuAssumption
      <3> QED
        BY <2>2, <3>1 DEF Numbered, ApiMsg
    <2>4. x \in MarksOf(Numbered(m, sends + 1))
      <3>1. x = TxnMark(t)
        BY DEF TxnMark
      <3> QED
        BY <2>2, <2>3, <3>1 DEF MarksOf
    <2> QED
      BY <2>1, <2>4, ClientMove, WaitingAfter, LineTypes DEF TypeOK
  <1> QED
    BY <1>1, <1>2

LEMMA TxnIn ==
  ASSUME NEW m, NEW n, NEW v, <<"txn", n, v>> \in MarksOf(m)
  PROVE  /\ m.type \in {"UpdateDocuments", "Transactions"}
         /\ \E t \in TxnsOf(m.txns) : t.id = n /\ t.doc = v
  BY DEF MarksOf, TxnMark

LEMMA TxnInResult ==
  ASSUME NEW m, NEW n, NEW v, <<"txn", n, v>> \in ResultMarks(m)
  PROVE  /\ m.type = "Transactions"
         /\ \E b \in TxnsOf(m.txns) : b.txn.id = n /\ b.txn.doc = v
  BY DEF ResultMarks, TxnMark

(* What waits was sent.                                                    *)
LEMMA WaitingSent ==
  ASSUME TypeOK, BatchesWhole, NEW n, NEW d, Waiting(<<"txn", n, d>>)
  PROVE  n \in 1..sends
  <1> USE DEF BatchesWhole, IsBatchOf
  <1>1. CASE Has(ResultLine, <<"txn", n, d>>)
    <2>1. PICK m \in TxnsOf(sceneResults) : <<"txn", n, d>> \in ResultMarks(m)
      BY <1>1 DEF Has, ResultLine, Results, TxnsOf
    <2> QED
      BY <2>1, TxnInResult
  <1>2. ASSUME NEW q, q \in {api, lowScene, highScene}, Has(Marked(q), <<"txn", n, d>>) PROVE n \in 1..sends
    <2>1. PICK m \in TxnsOf(q) : <<"txn", n, d>> \in MarksOf(m)
      BY <1>2 DEF Has, Marked, TxnsOf
    <2>2. m.type \in {"UpdateDocuments", "Transactions"} /\ \E t \in TxnsOf(m.txns) : t.id = n
      BY <2>1, TxnIn
    <2>3. \E k \in 1..sends : TxnsOf(m.txns) = Batch(k)
      <3>1. CASE q = api
        <4>1. m \in ApiMsg
          BY <2>1, <3>1, MembersType DEF TypeOK, ChannelTypeOK
        <4>2. m.type = "UpdateDocuments"
          BY <2>2, <4>1 DEF ApiMsg
        <4> QED
          BY <2>1, <3>1, <4>2
      <3>2. CASE q \in {lowScene, highScene}
        <4>1. m \in SceneRequest
          BY <2>1, <3>2, MembersType DEF TypeOK, ChannelTypeOK
        <4>2. m.type = "Transactions"
          BY <2>2, <4>1 DEF SceneRequest
        <4> QED
          BY <2>1, <3>2, <4>2
      <3> QED
        BY <1>2, <3>1, <3>2
    <2> QED
      BY <2>2, <2>3 DEF Batch
  <1> QED
    BY <1>1, <1>2 DEF Waiting, ApiLine, LowLine, HighLine

(* What the low priority queue holds is of low priority, and what is at    *)
(* the head of api is a batch.                                             *)
LEMMA LowIsLow ==
  ASSUME TypeOK, BatchesWhole, NEW n, NEW d, Has(LowLine, <<"txn", n, d>>)
  PROVE  ~UsesHighPriority(Batch(n))
  <1>1. PICK m \in TxnsOf(lowScene) : <<"txn", n, d>> \in MarksOf(m)
    BY DEF Has, LowLine, Marked, TxnsOf
  <1>2. m.type \in {"UpdateDocuments", "Transactions"} /\ \E t \in TxnsOf(m.txns) : t.id = n
    BY <1>1, TxnIn
  <1>3. m \in SceneRequest
    BY <1>1, MembersType DEF TypeOK, ChannelTypeOK
  <1>4. m.type = "Transactions"
    BY <1>2, <1>3 DEF SceneRequest
  <1>5. PICK k \in 1..sends : TxnsOf(m.txns) = Batch(k) /\ ~UsesHighPriority(Batch(k))
    BY <1>1, <1>4 DEF BatchesWhole, IsBatchOf
  <1>6. k = n
    BY <1>2, <1>5 DEF Batch
  <1> QED
    BY <1>5, <1>6

LEMMA HeadIsBatch ==
  ASSUME TypeOK, BatchesWhole, Receives("UpdateDocuments"), NEW n, NEW d,
         <<"txn", n, d>> \in MarksOf(Head(api))
  PROVE  TxnsOf(Head(api).txns) = Batch(n)
  <1>1. Head(api) \in TxnsOf(api) /\ Head(api).type = "UpdateDocuments"
    BY MembersTail DEF Receives, TypeOK, ChannelTypeOK
  <1>2. PICK k \in 1..sends : TxnsOf(Head(api).txns) = Batch(k)
    BY <1>1 DEF BatchesWhole, IsBatchOf
  <1>3. \E t \in TxnsOf(Head(api).txns) : t.id = n
    BY TxnIn
  <1>4. k = n
    BY <1>2, <1>3 DEF Batch
  <1> QED
    BY <1>2, <1>4

(* The steps of the threads, in terms of the line: all but one keep the    *)
(* order of any two marks, and none lets anything wait that did not.       *)
LEMMA ThreadMove ==
  ASSUME TypeOK, [Next]_vars, ~ \E m \in Menu : Send(m), ~ \E c \in Clients : Flush(c)
  PROVE  /\ \/ InOrderMove
            \/ /\ SentHigh /\ Receives("UpdateDocuments") /\ Head(ApiLine) = MarksOf(Head(api))
               /\ UsesHighPriority(TxnsOf(Head(api).txns))
         /\ \A x : Waiting(x)' => Waiting(x)
  <1>1. \/ InOrderMove
        \/ /\ SentHigh /\ Receives("UpdateDocuments") /\ Head(ApiLine) = MarksOf(Head(api))
           /\ UsesHighPriority(TxnsOf(Head(api).txns))
    <2>1. CASE Elsewhere
      BY <2>1, StayedMove DEF InOrderMove
    <2>2. CASE PollTransactions \/ PollFlushComplete \/ PollClearNamespace \/ Discard
      BY <2>2, PolledMove DEF InOrderMove
    <2>3. CASE ReceiveForBackend \/ Takes
      BY <2>3, TakenMove DEF InOrderMove, Takes
    <2>4. CASE Forwards
      BY <2>4, ForwardMove DEF InOrderMove, Forwards
    <2>5. CASE ReceiveForSceneBuilder
      <3>1. Receives("UpdateDocuments")
        BY <2>5 DEF ReceiveForSceneBuilder
      <3>2. CASE UsesHighPriority(TxnsOf(Head(api).txns))
        BY <2>5, <3>1, <3>2, ForwardMove
      <3>3. CASE ~UsesHighPriority(TxnsOf(Head(api).txns))
        BY <2>5, <3>3, ForwardMove DEF InOrderMove
      <3> QED
        BY <3>2, <3>3
    <2>6. CASE BuildTransactions \/ Builds
      BY <2>6, BuiltMove DEF InOrderMove, Builds
    <2>7. CASE LowForward \/ BuilderDeleteDocument \/ WakeBackend \/ Stopped
      BY <2>7, OtherMoves DEF InOrderMove
    <2> QED
      BY <2>1, <2>2, <2>3, <2>4, <2>5, <2>6, <2>7, Steps
  <1>2. ASSUME NEW x, Waiting(x)' PROVE Waiting(x)
    BY <1>1, <1>2, WaitingAfter, LineTypes DEF InOrderMove, TypeOK
  <1> QED
    BY <1>1, <1>2

(* Once an x is polled, a y that was never behind it is gone.              *)
LEMMA HeadAlone ==
  ASSUME LineTypeOK, Polled, NEW CONSTANT x, NEW CONSTANT y, NeverBehind(y, x), x \in Head(ResultLine)
  PROVE  ~Waiting(y)'
  <1>1. Waiting(y)' <=> \/ Has(ResultLine', y) \/ Has(HighLine', y)
                        \/ Has(LowLine', y) \/ Has(ApiLine', y)
    BY DEF Waiting, Has
  <1>2. Has(ResultLine, x)
    BY HasTail DEF LineTypeOK, Polled
  <1>3. ~Has(Tail(ResultLine), y)
    BY BehindTail DEF LineTypeOK, Polled, NeverBehind, InLine
  <1> QED
    BY <1>1, <1>2, <1>3 DEF Polled, NeverBehind, InLine

LEMMA MenuMarks ==
  ASSUME TypeOK, NEW m \in Menu, NEW n, NEW v
  PROVE  /\ <<"txn", n, v>> \in MarksOf(Numbered(m, sends + 1)) =>
              n = sends + 1 /\ m.type = "UpdateDocuments" /\ v \in DocsOf(m.txns)
         /\ <<"flush", n, v>> \notin MarksOf(Numbered(m, sends + 1))
         /\ <<"add", n, v>> \in MarksOf(Numbered(m, sends + 1)) <=>
              n = 0 /\ m.type = "AddDocument" /\ v = m.doc
         /\ <<"delete", n, v>> \in MarksOf(Numbered(m, sends + 1)) <=>
              n = 0 /\ m.type = "DeleteDocument" /\ v = m.doc
         /\ <<"clear", n, v>> \in MarksOf(Numbered(m, sends + 1)) <=>
              n = 0 /\ m.type = "ClearNamespace" /\ v = m.ns
  <1>0. m \in ApiMsg /\ m.type \notin {"FlushSceneBuilder", "WakeUp"}
    BY MenuAssumption
  <1>1. m \in ApiMsg /\ m.type # "FlushSceneBuilder" /\ m.type # "WakeUp" /\ sends + 1 \in Nat
    BY <1>0 DEF TypeOK, ClientTypeOK
  <1>2. CASE m.type = "UpdateDocuments"
    <2>1. PICK k : k = Numbered(m, sends + 1)
      OBVIOUS
    <2>2. k.type = "UpdateDocuments"
      BY <1>1, <1>2, <2>1 DEF Numbered, ApiMsg
    <2>3. /\ \A t \in TxnsOf(k.txns) : t.id = sends + 1
          /\ DocsOf(k.txns) = DocsOf(m.txns)
      BY <1>1, <1>2, <2>1, NumberedBatch
    <2>4. MarksOf(k) = {TxnMark(t) : t \in TxnsOf(k.txns)}
      BY <2>2 DEF MarksOf
    <2> QED
      BY <1>2, <2>1, <2>3, <2>4 DEF TxnMark, DocsOf, TxnsOf
  <1>3. CASE m.type # "UpdateDocuments"
    <2>1. Numbered(m, sends + 1) = m /\ m.type # "Transactions" /\ m.type # "Flush"
      BY <1>1, <1>3 DEF Numbered, ApiMsg
    <2>2. m.type \notin {"UpdateDocuments", "Transactions", "FlushSceneBuilder", "Flush"}
      BY <1>1, <1>3, <2>1
    <2> QED
      BY <2>1, <2>2 DEF MarksOf
  <1> QED
    BY <1>2, <1>3

LEMMA MenuTxn ==
  ASSUME TypeOK, NEW m \in Menu, NEW n, NEW v, <<"txn", n, v>> \in MarksOf(Numbered(m, sends + 1))
  PROVE  n = sends + 1 /\ m.type = "UpdateDocuments" /\ v \in DocsOf(m.txns)
  BY MenuMarks


-----------------------------------------------------------------------------
(* Flushes.                                                                *)
LEMMA FlushesOf ==
  ASSUME TypeOK, [Next]_vars, NEW c \in Clients, flushing'[c] # flushing[c]
  PROVE  \/ /\ Flush(c) /\ flushing[c] = 0 /\ flushing'[c] = sends + 1
            /\ sends' = sends + 1
         \/ /\ PollFlushComplete /\ <<"flush", 0, c>> \in Head(ResultLine) /\ flushing'[c] = 0
  <1>0. flushing \in [Clients -> Nat]
    BY DEF TypeOK, ClientTypeOK
  <1>1. CASE \E k \in Clients : Flush(k)
    BY <1>0, <1>1 DEF Flush
  <1>2. CASE PollFlushComplete
    <2>1. /\ Head(sceneResults).type = "FlushComplete"
          /\ flushing' = [flushing EXCEPT ![Head(sceneResults).client] = 0]
      BY <1>2 DEF PollFlushComplete
    <2>2. c = Head(sceneResults).client /\ flushing'[c] = 0
      BY <1>0, <2>1
    <2>3. <<"flush", 0, c>> \in ResultMarks(Head(sceneResults))
      BY <2>1, <2>2 DEF ResultMarks
    <2> QED
      BY <1>2, <2>2, <2>3, PolledMove
  <1>3. CASE \E m \in Menu : Send(m)
    BY <1>3 DEF Send
  <1>4. CASE Elsewhere
    BY <1>4, StayedMove DEF clientVars
  <1>5. CASE \/ PollTransactions \/ PollClearNamespace \/ Discard
             \/ ReceiveForBackend \/ ReceiveForSceneBuilder \/ Forwards \/ Takes \/ Stopped
             \/ LowForward \/ BuildTransactions \/ Builds \/ BuilderDeleteDocument
             \/ WakeBackend
    BY <1>5 DEF PollTransactions, PollClearNamespace, Discard, ReceiveForBackend,
       ReceiveForSceneBuilder, Forwards, ReceiveDeleteDocument, ReceiveForwarded, ReceiveShutDown,
       Takes, ReceiveAddDocument, ReceiveMemoryPressure, ReceiveWakeUp, Stopped, LowForward,
       BuildTransactions, Builds, BuilderFlush, BuilderClearNamespace, BuilderStop,
       BuilderDeleteDocument, WakeBackend, clientVars
  <1> QED
    BY <1>1, <1>2, <1>3, <1>4, <1>5, Steps

LEMMA FlushesStep ==
  ASSUME TypeOK, NumbersOK, BatchesWhole, FlushesInLine, [Next]_vars
  PROVE  FlushesInLine'
  <1>0. sends \in Nat /\ sends' \in Nat /\ sends <= sends' /\ flushing \in [Clients -> Nat]
    BY BatchesKept DEF TypeOK, ClientTypeOK
  <1>l. LineTypeOK
    BY LineTypes DEF TypeOK
  <1> SUFFICES ASSUME NEW c \in Clients, NEW f, f = <<"flush", 0, c>>
               PROVE  /\ flushing'[c] <= sends'
                      /\ flushing'[c] = 0 => ~Waiting(f)'
                      /\ NeverBehind(f, f)'
                      /\ \A n \in 1..sends', d \in Docs : n < flushing'[c] =>
                           NeverBehind(<<"txn", n, d>>, f)'
    BY DEF FlushesInLine
  <1>1. /\ flushing[c] <= sends
        /\ flushing[c] = 0 => ~Waiting(f)
        /\ NeverBehind(f, f)
        /\ \A n \in 1..sends, d \in Docs : n < flushing[c] => NeverBehind(<<"txn", n, d>>, f)
    BY DEF FlushesInLine
  <1>2. flushing[c] \in Nat
    BY <1>0
  <1>3. CASE \E m \in Menu : Send(m)
    <2>1. PICK m \in Menu : Send(m)
      BY <1>3
    <2>2. PICK e : e = MarksOf(Numbered(m, sends + 1))
      OBVIOUS
    <2>3. Arrived(e) /\ flushing' = flushing
      BY <2>1, <2>2, ClientMove DEF Send
    <2>4. f \notin e /\ \A n, d : <<"txn", n, d>> \in e => n = sends + 1
      <3>1. f \notin e
        BY <2>2, MenuMarks
      <3>2. ASSUME NEW n, NEW d, <<"txn", n, d>> \in e PROVE n = sends + 1
        BY <2>2, <3>2, MenuTxn
      <3> QED
        BY <3>1, <3>2
    <2>5. Waiting(f)' <=> Waiting(f)
      BY <1>l, <2>3, <2>4, WaitingAfter
    <2>6. NeverBehind(f, f)'
      BY <1>l, <1>1, <2>3, <2>4, OrderKeptArrived
    <2>7. ASSUME NEW n \in 1..sends', NEW d \in Docs, n < flushing'[c]
          PROVE  NeverBehind(<<"txn", n, d>>, f)'
      <3>1. n \in 1..sends /\ n # sends + 1 /\ n < flushing[c]
        BY <1>0, <1>1, <1>2, <2>3, <2>7
      <3>2. NeverBehind(<<"txn", n, d>>, f) /\ <<"txn", n, d>> \notin e
        BY <1>1, <2>4, <3>1
      <3> QED
        BY <1>l, <2>3, <3>2, OrderKeptArrived
    <2> QED
      BY <1>0, <1>1, <1>2, <2>3, <2>5, <2>6, <2>7
  <1>4. CASE \E k \in Clients : Flush(k)
    <2>1. PICK k \in Clients : Flush(k)
      BY <1>4
    <2>2. PICK e : e = {<<"flush", 0, k>>}
      OBVIOUS
    <2>3. Arrived(e) /\ \A n, d : <<"txn", n, d>> \notin e
      BY <2>1, <2>2, ClientMove
    <2>4. CASE c = k
      <3>1. flushing[c] = 0 /\ flushing'[c] = sends + 1 /\ sends' = sends + 1
        BY <1>0, <2>1, <2>4 DEF Flush
      <3>2. ~Waiting(f)
        BY <1>1, <3>1
      <3>3. NeverBehind(f, f)'
        BY <1>l, <1>1, <2>3, <3>2, OrderKeptArrived
      <3>4. ASSUME NEW n, NEW d PROVE NeverBehind(<<"txn", n, d>>, f)'
        <4>1. NeverBehind(<<"txn", n, d>>, f)
          BY <3>2, NotWaiting
        <4> QED
          BY <1>l, <2>3, <4>1, OrderKeptArrived
      <3> QED
        BY <1>0, <3>1, <3>3, <3>4
    <2>5. CASE c # k
      <3>1. flushing'[c] = flushing[c] /\ f \notin e
        BY <1>0, <2>1, <2>2, <2>5 DEF Flush
      <3>2. Waiting(f)' <=> Waiting(f)
        BY <1>l, <2>3, <3>1, WaitingAfter
      <3>3. NeverBehind(f, f)'
        BY <1>l, <1>1, <2>3, <3>1, OrderKeptArrived
      <3>4. ASSUME NEW n \in 1..sends', NEW d \in Docs, n < flushing'[c]
            PROVE  NeverBehind(<<"txn", n, d>>, f)'
        <4>1. n \in 1..sends /\ n < flushing[c]
          BY <1>0, <1>1, <1>2, <3>1, <3>4
        <4>2. NeverBehind(<<"txn", n, d>>, f)
          BY <1>1, <4>1
        <4> QED
          BY <1>l, <2>3, <4>2, OrderKeptArrived
      <3> QED
        BY <1>0, <1>1, <1>2, <3>1, <3>2, <3>3, <3>4
    <2> QED
      BY <2>4, <2>5
  <1>5. CASE ~(\E m \in Menu : Send(m)) /\ ~(\E k \in Clients : Flush(k))
    <2>1. sends' = sends /\ ~Flush(c)
      BY <1>5, NotSent
    <2>2. ASSUME NEW y, NeverBehind(y, f) PROVE NeverBehind(y, f)'
      <3>1. CASE InOrderMove
        BY <1>l, <2>2, <3>1, OrderKept
      <3>2. CASE SentHigh /\ Receives("UpdateDocuments") /\ Head(ApiLine) = MarksOf(Head(api))
        <4>1. Head(api).type = "UpdateDocuments"
          BY <3>2 DEF Receives
        <4>2. f \notin MarksOf(Head(api))
          BY <4>1 DEF MarksOf, TxnMark
        <4> QED
          BY <1>l, <2>2, <3>2, <4>2, OrderKeptHigh
      <3> QED
        BY <1>5, <3>1, <3>2, ThreadMove
    <2>3. Waiting(f)' => Waiting(f)
      BY <1>5, ThreadMove
    <2>4. flushing'[c] = flushing[c] \/ (flushing'[c] = 0 /\ ~Waiting(f)')
      <3>1. CASE flushing'[c] # flushing[c]
        <4>1. PollFlushComplete /\ f \in Head(ResultLine) /\ flushing'[c] = 0
          BY <2>1, <3>1, FlushesOf
        <4>2. ~Waiting(f)'
          BY <1>l, <1>1, <4>1, PolledMove, HeadAlone
        <4> QED
          BY <4>1, <4>2
      <3> QED
        BY <3>1
    <2>5. ASSUME NEW n \in 1..sends', NEW d \in Docs, n < flushing'[c]
          PROVE  NeverBehind(<<"txn", n, d>>, f)'
      <3>1. n \in 1..sends /\ n < flushing[c]
        BY <1>0, <2>1, <2>4, <2>5
      <3> QED
        BY <1>1, <2>2, <3>1
    <2>6. flushing'[c] = 0 => ~Waiting(f)'
      BY <1>1, <2>3, <2>4
    <2>7. flushing'[c] <= sends'
      BY <1>0, <1>1, <1>2, <2>1, <2>4
    <2> QED
      BY <1>1, <2>2, <2>5, <2>6, <2>7
  <1> QED
    BY <1>3, <1>4, <1>5

(* When a flush is answered, all that was sent before it has settled.      *)
LEMMA BarrierStep ==
  ASSUME TypeOK, HandshakeInv, NumbersOK, WorkOK, NothingLost, FlushesInLine, [Next]_vars,
         NEW c \in Clients, flushing[c] # 0, flushing'[c] = 0, rbPc # "stopping",
         NEW t \in sent, t.id < flushing[c]
  PROVE  Settled(t)
  <1>1. sends \in Nat /\ flushing[c] \in Nat
    BY DEF TypeOK, ClientTypeOK
  <1>2. PollFlushComplete /\ <<"flush", 0, c>> \in Head(ResultLine)
    BY <1>1, FlushesOf
  <1>3. rbPc = "poll" /\ work = <<>>
    BY <1>2 DEF PollFlushComplete, At, WorkOK
  <1>4. Settled(t) \/ Waiting(TxnMark(t))
    BY <1>3, WorkMarksOf DEF NothingLost
  <1>5. PICK x : x = TxnMark(t)
    OBVIOUS
  <1>6. NeverBehind(x, <<"flush", 0, c>>)
    <2>1. t.id \in 1..sends /\ t.doc \in Docs
      BY DEF NumbersOK, TypeOK, ClientTypeOK, Transaction
    <2> QED
      BY <1>5, <2>1 DEF FlushesInLine, TxnMark
  <1>7. ~Waiting(x)'
    BY <1>2, <1>6, LineTypes, PolledMove, HeadAlone DEF TypeOK
  <1>8. Waiting(x) => x \in Head(ResultLine)
    BY <1>2, <1>7, LineTypes, PolledMove, WaitingAfter DEF TypeOK
  <1>9. x \notin Head(ResultLine)
    <2>1. Head(ResultLine) = ResultMarks(Head(sceneResults))
          /\ Head(sceneResults).type = "FlushComplete"
      BY <1>2, PolledMove DEF PollFlushComplete
    <2> QED
      BY <1>5, <2>1 DEF ResultMarks, TxnMark
  <1> QED
    BY <1>4, <1>5, <1>8, <1>9

-----------------------------------------------------------------------------
(* The order of the transactions.                                          *)
LEMMA SettlingInWork ==
  ASSUME TypeOK, HandshakeInv, SkipTransaction \/ Settle, NEW n, NEW d,
         <<n, d>> = <<Head(work).txn.id, Head(work).txn.doc>>
  PROVE  <<"txn", n, d>> \in WorkMarks
  BY WorkHead DEF WorkMarks, TxnMark

LEMMA BeforeThreads ==
  ASSUME TypeOK, HandshakeInv, NumbersOK, BatchesWhole, WorkOK, [Next]_vars,
         ~ \E m \in Menu : Send(m), ~ \E c \in Clients : Flush(c),
         NEW CONSTANT a \in Nat, NEW CONSTANT b \in Nat, b < a, SameWay(a, b),
         NEW CONSTANT d \in Docs, NEW CONSTANT e \in Docs, Before(b, e, a, d)
  PROVE  Before(b, e, a, d)'
  <1>l. LineTypeOK
    BY LineTypes DEF TypeOK
  <1>1. PICK x, y : x = <<"txn", a, d>> /\ y = <<"txn", b, e>>
    OBVIOUS
  <1>2. /\ NeverBehind(y, x)
        /\ x \in WorkMarks => ~Waiting(y)
        /\ SettledMark(a, d) => ~Waiting(y) /\ y \notin WorkMarks
        /\ \A i, j \in DOMAIN settled :
             settled[i] = <<a, d>> /\ settled[j] = <<b, e>> => j < i
    BY <1>1 DEF Before
  <1>3. NeverBehind(y, x)'
    <2>1. CASE InOrderMove
      BY <1>l, <1>2, <2>1, OrderKept
    <2>2. CASE /\ SentHigh /\ Receives("UpdateDocuments") /\ Head(ApiLine) = MarksOf(Head(api))
               /\ UsesHighPriority(TxnsOf(Head(api).txns))
      <3>1. x \in Head(ApiLine) => UsesHighPriority(Batch(a))
        BY <1>1, <2>2, HeadIsBatch
      <3>2. Has(LowLine, y) => ~UsesHighPriority(Batch(b))
        BY <1>1, LowIsLow
      <3>3. x \in Head(ApiLine) => ~Has(LowLine, y)
        BY <3>1, <3>2 DEF SameWay
      <3> QED
        BY <1>l, <1>2, <2>2, <3>3, OrderKeptHigh
    <2> QED
      BY <2>1, <2>2, ThreadMove
  <1>4. Waiting(y)' => Waiting(y)
    BY ThreadMove
  <1>5. /\ x \in WorkMarks' => ~Waiting(y)'
        /\ SettledMark(a, d)' => ~Waiting(y)' /\ y \notin WorkMarks'
    <2>1. CASE PollTransactions
      <3>1. WorkMarks' = Head(ResultLine) /\ Polled /\ settled' = settled
        BY <2>1, PolledWork, PolledMove DEF PollTransactions
      <3>2. x \in WorkMarks' => ~Waiting(y)'
        BY <1>l, <1>2, <3>1, HeadAlone
      <3>3. SettledMark(a, d)' <=> SettledMark(a, d)
        BY <3>1 DEF SettledMark
      <3>4. y \in Head(ResultLine) => Waiting(y)
        BY <1>l, <3>1, WaitingAfter
      <3> QED
        BY <1>2, <1>4, <3>1, <3>2, <3>3, <3>4
    <2>2. CASE ReceiveForBackend
      <3>1. /\ WorkMarks' = Head(ApiLine) /\ Taken /\ settled' = settled
            /\ Head(ApiLine) = MarksOf(Head(api)) /\ Receives("UpdateDocuments")
            /\ ~UsesSceneBuilder(TxnsOf(Head(api).txns))
        BY <2>2, TakenWork, TakenMove DEF ReceiveForBackend
      <3>2. x \notin WorkMarks'
        BY <1>1, <3>1, HeadIsBatch DEF SameWay
      <3>3. SettledMark(a, d)' <=> SettledMark(a, d)
        BY <3>1 DEF SettledMark
      <3>4. y \in Head(ApiLine) => Waiting(y)
        BY <1>l, <3>1, WaitingAfter
      <3> QED
        BY <1>2, <1>4, <3>1, <3>2, <3>3, <3>4
    <2>3. CASE SkipTransaction \/ Settle \/ NewFrameReady
      <3>1. /\ x \in WorkMarks' => x \in WorkMarks
            /\ y \in WorkMarks' => y \in WorkMarks
            /\ SettledMark(a, d)' => SettledMark(a, d) \/ x \in WorkMarks
        BY <1>1, <2>3, SettledWork
      <3>2. x \in WorkMarks => y \notin WorkMarks
        BY <1>1, WorkMarkMeans DEF WorkOK
      <3> QED
        BY <1>2, <1>4, <3>1, <3>2
    <2>4. CASE /\ work' = work /\ settled' = settled /\ WorkMarks' = WorkMarks
               /\ \A n, v : SettledMark(n, v)' <=> SettledMark(n, v)
      BY <1>2, <1>4, <2>4
    <2> QED
      BY <2>1, <2>2, <2>3, <2>4, WorkUnchanged
  <1>6. ASSUME NEW i \in DOMAIN settled', NEW j \in DOMAIN settled',
               settled'[i] = <<a, d>>, settled'[j] = <<b, e>>
        PROVE  j < i
    <2>1. CASE settled' = settled
      BY <1>2, <1>6, <2>1
    <2>2. CASE /\ SkipTransaction \/ Settle
               /\ settled' = Append(settled, <<Head(work).txn.id, Head(work).txn.doc>>)
      <3>1. /\ settled \in Seq(Nat \X Docs) /\ DOMAIN settled' = 1..(Len(settled) + 1)
            /\ Len(settled) \in Nat /\ DOMAIN settled = 1..Len(settled)
            /\ \A k \in 1..Len(settled) : settled'[k] = settled[k]
            /\ settled'[Len(settled) + 1] = <<Head(work).txn.id, Head(work).txn.doc>>
        BY <2>2 DEF TypeOK, HistoryTypeOK
      <3>2. CASE j = Len(settled) + 1
        <4>1. y \in WorkMarks
          BY <1>1, <1>6, <2>2, <3>1, <3>2, SettlingInWork
        <4>2. i # j
          BY <1>6
        <4>3. i \in DOMAIN settled /\ settled[i] = <<a, d>>
          BY <1>6, <3>1, <3>2, <4>2
        <4>4. SettledMark(a, d)
          BY <4>3 DEF SettledMark
        <4> QED
          BY <1>2, <4>1, <4>4
      <3>3. CASE j # Len(settled) + 1 /\ i = Len(settled) + 1
        BY <1>6, <3>1, <3>3
      <3>4. CASE j # Len(settled) + 1 /\ i # Len(settled) + 1
        <4>1. i \in DOMAIN settled /\ j \in DOMAIN settled
          BY <1>6, <3>1, <3>4
        <4> QED
          BY <1>2, <1>6, <3>1, <4>1
      <3> QED
        BY <3>2, <3>3, <3>4
    <2> QED
      BY <2>1, <2>2, SettledBy
  <1> QED
    BY <1>1, <1>3, <1>5, <1>6 DEF Before

LEMMA BeforeClients ==
  ASSUME TypeOK, NEW w, Arrived(w), UNCHANGED <<work, settled>>,
         NEW CONSTANT a, NEW CONSTANT b, NEW CONSTANT d, NEW CONSTANT e,
         <<"txn", b, e>> \notin w, Before(b, e, a, d)
  PROVE  Before(b, e, a, d)'
  <1>l. LineTypeOK
    BY LineTypes DEF TypeOK
  <1>1. PICK x, y : x = <<"txn", a, d>> /\ y = <<"txn", b, e>>
    OBVIOUS
  <1>2. NeverBehind(y, x)'
    BY <1>l, <1>1, OrderKeptArrived DEF Before
  <1>3. Waiting(y)' <=> Waiting(y)
    BY <1>l, <1>1, WaitingAfter
  <1>4. WorkMarks' = WorkMarks /\ (SettledMark(a, d)' <=> SettledMark(a, d))
    BY WorkMarksOf DEF SettledMark
  <1> QED
    BY <1>1, <1>2, <1>3, <1>4 DEF Before

LEMMA TxnsStep ==
  ASSUME TypeOK, HandshakeInv, NumbersOK, BatchesWhole, WorkOK, TxnsInLine, [Next]_vars
  PROVE  TxnsInLine'
  <1>0. sends \in Nat /\ sends' \in Nat /\ sends <= sends'
    BY BatchesKept
  <1> SUFFICES ASSUME NEW CONSTANT a \in Nat, NEW CONSTANT b \in Nat,
                      a \in 1..sends', b \in 1..sends', b < a, SameWay(a, b)',
                      NEW CONSTANT d \in Docs, NEW CONSTANT e \in Docs
               PROVE  Before(b, e, a, d)'
    BY <1>0 DEF TxnsInLine
  <1>1. a \in 1..sends => Before(b, e, a, d) /\ SameWay(a, b)
    <2>1. SUFFICES ASSUME a \in 1..sends PROVE Before(b, e, a, d) /\ SameWay(a, b)
      OBVIOUS
    <2>2. b \in 1..sends
      BY <1>0, <2>1
    <2>3. SameWay(a, b)
      <3>1. /\ UsesSceneBuilder(Batch(a))' <=> UsesSceneBuilder(Batch(a))
            /\ UsesHighPriority(Batch(a))' <=> UsesHighPriority(Batch(a))
        BY <2>1, BatchKept
      <3>2. /\ UsesSceneBuilder(Batch(b))' <=> UsesSceneBuilder(Batch(b))
            /\ UsesHighPriority(Batch(b))' <=> UsesHighPriority(Batch(b))
        BY <2>2, BatchKept
      <3> QED
        BY <3>1, <3>2 DEF SameWay
    <2> QED
      BY <2>1, <2>2, <2>3 DEF TxnsInLine
  <1>2. CASE ~(\E m \in Menu : Send(m)) /\ ~(\E c \in Clients : Flush(c))
    <2>1. sends' = sends
      BY <1>2, NotSent
    <2> QED
      BY <1>1, <1>2, <2>1, BeforeThreads
  <1>3. CASE (\E m \in Menu : Send(m)) \/ (\E c \in Clients : Flush(c))
    <2>1. PICK w : Arrived(w) /\ \A n, v : <<"txn", n, v>> \in w => n = sends + 1
      <3>1. CASE \E m \in Menu : Send(m)
        <4>1. PICK m \in Menu : Send(m)
          BY <3>1
        <4>2. Arrived(MarksOf(Numbered(m, sends + 1)))
          BY <4>1, ClientMove
        <4>3. ASSUME NEW n, NEW v, <<"txn", n, v>> \in MarksOf(Numbered(m, sends + 1))
              PROVE  n = sends + 1
          BY <4>3, MenuTxn
        <4> QED
          BY <4>2, <4>3
      <3>2. CASE \E c \in Clients : Flush(c)
        <4>1. PICK c \in Clients : Arrived({<<"flush", 0, c>>})
          BY <3>2, ClientMove
        <4> QED
          BY <4>1
      <3> QED
        BY <1>3, <3>1, <3>2
    <2>2. UNCHANGED <<work, settled>> /\ sends' = sends + 1
      BY <1>3 DEF Send, Flush, backendVars
    <2>3. <<"txn", b, e>> \notin w
      BY <1>0, <2>1, <2>2
    <2>4. Before(b, e, a, d)
      <3>1. CASE a \in 1..sends
        BY <1>1, <3>1
      <3>2. CASE a \notin 1..sends
        <4>1. ~Waiting(<<"txn", a, d>>)
          BY <3>2, WaitingSent
        <4>2. <<"txn", a, d>> \notin WorkMarks
          BY <3>2, WorkMarkMeans DEF WorkOK
        <4>3. ~SettledMark(a, d)
          BY <3>2 DEF SettledMark, NumbersOK, TxnsOf
        <4>4. NeverBehind(<<"txn", b, e>>, <<"txn", a, d>>)
          BY <4>1, NotWaiting
        <4> QED
          BY <4>2, <4>3, <4>4 DEF Before, SettledMark
      <3> QED
        BY <3>1, <3>2
    <2> QED
      BY <2>1, <2>2, <2>3, <2>4, BeforeClients
  <1> QED
    BY <1>2, <1>3


-----------------------------------------------------------------------------
(* The moves that concern a document.                                      *)
Received == ReceiveForBackend \/ ReceiveForSceneBuilder \/ Forwards \/ Takes

LEMMA AddOnlyInApi ==
  ASSUME TypeOK, NEW d
  PROVE  ~InScene(Addition(d)) /\ ~Has(ResultLine, Addition(d))
  <1>1. ASSUME NEW q \in Seq(SceneRequest), Has(Marked(q), Addition(d)) PROVE FALSE
    <2>1. PICK m \in TxnsOf(q) : <<"add", 0, d>> \in MarksOf(m)
      BY <1>1 DEF Has, Marked, TxnsOf, Addition
    <2>2. m \in SceneRequest
      BY <2>1, MembersType
    <2>3. m.type = "AddDocument"
      BY <2>1 DEF MarksOf, TxnMark
    <2> QED
      BY <2>2, <2>3 DEF SceneRequest
  <1>2. ASSUME Has(ResultLine, Addition(d)) PROVE FALSE
    BY <1>2 DEF Has, ResultLine, Results, ResultMarks, TxnMark, Addition
  <1> QED
    BY <1>1, <1>2 DEF InScene, HighLine, LowLine, TypeOK, ChannelTypeOK

LEMMA ApiMove ==
  ASSUME TypeOK, [Next]_vars
  PROVE  \/ ApiLine' = ApiLine \/ Arrived({}) \/ Stopped
         \/ \E m \in Menu : Send(m)
         \/ \E c \in Clients : Flush(c)
         \/ /\ Received /\ ApiLine # <<>> /\ ApiLine' = Tail(ApiLine)
            /\ Head(ApiLine) = MarksOf(Head(api))
  <1>1. CASE Elsewhere
    BY <1>1, StayedMove DEF Stayed
  <1>2. CASE PollTransactions \/ PollFlushComplete \/ PollClearNamespace \/ Discard
    BY <1>2, PolledMove DEF Polled
  <1>3. CASE ReceiveForBackend \/ Takes
    BY <1>3, TakenMove DEF Taken, Takes, Received
  <1>4. CASE ReceiveForSceneBuilder
    BY <1>4, ForwardMove DEF SentHigh, SentLow, Received
  <1>5. CASE Forwards
    BY <1>5, ForwardMove DEF SentLow, Forwards, Received
  <1>6. CASE BuildTransactions \/ Builds
    BY <1>6, BuiltMove DEF Builds, Built
  <1>7. CASE LowForward \/ BuilderDeleteDocument \/ WakeBackend
    BY <1>7, OtherMoves DEF Forwarded, Removed, Stayed
  <1> QED
    BY <1>1, <1>2, <1>3, <1>4, <1>5, <1>6, <1>7, Steps

LEMMA LongerLines ==
  ASSUME LineTypeOK, NEW e, NEW x
  PROVE  /\ Has(Append(ApiLine, e), x) <=> Has(ApiLine, x) \/ x \in e
         /\ Has(Append(HighLine, e), x) <=> Has(HighLine, x) \/ x \in e
         /\ Has(Append(LowLine, e), x) <=> Has(LowLine, x) \/ x \in e
  BY HasAppend DEF LineTypeOK

LEMMA ApiKeeps ==
  ASSUME TypeOK, [Next]_vars, NEW CONSTANT x, Has(ApiLine, x)
  PROVE  \/ Has(ApiLine', x) \/ Stopped
         \/ Received /\ x \in MarksOf(Head(api))
  <1>l. LineTypeOK
    BY LineTypes DEF TypeOK
  <1>1. CASE \/ ApiLine' = ApiLine \/ Arrived({})
             \/ \E m \in Menu : Send(m)
             \/ \E c \in Clients : Flush(c)
    <2>1. ApiLine' = ApiLine \/ \E e : ApiLine' = Append(ApiLine, e)
      BY <1>1, ClientMove DEF Arrived
    <2>2. CASE \E e : ApiLine' = Append(ApiLine, e)
      <3>1. PICK e : ApiLine' = Append(ApiLine, e)
        BY <2>2
      <3>2. Has(Append(ApiLine, e), x)
        BY <1>l, LongerLines
      <3> QED
        BY <3>1, <3>2
    <2> QED
      BY <2>1, <2>2
  <1>2. CASE /\ Received /\ ApiLine # <<>> /\ ApiLine' = Tail(ApiLine)
             /\ Head(ApiLine) = MarksOf(Head(api))
    BY <1>l, <1>2, HasTail DEF LineTypeOK
  <1> QED
    BY <1>1, <1>2, ApiMove

LEMMA ApiGains ==
  ASSUME TypeOK, [Next]_vars, ~ \E m \in Menu : Send(m), ~ \E c \in Clients : Flush(c),
         NEW CONSTANT x, Has(ApiLine', x)
  PROVE  Has(ApiLine, x)
  <1>l. LineTypeOK
    BY LineTypes DEF TypeOK
  <1>1. CASE ApiLine' = ApiLine \/ Arrived({})
    BY <1>l, <1>1, LongerLines DEF Arrived
  <1>2. CASE ApiLine # <<>> /\ ApiLine' = Tail(ApiLine)
    BY <1>l, <1>2, HasTail DEF LineTypeOK
  <1>3. CASE Stopped
    BY <1>3, OtherMoves, EmptyLine DEF Ended
  <1> QED
    BY <1>1, <1>2, <1>3, ApiMove

LEMMA SceneMove ==
  ASSUME TypeOK, [Next]_vars, NEW CONSTANT x
  PROVE  /\ InScene(x)' =>
              InScene(x) \/ ((ReceiveForSceneBuilder \/ Forwards) /\ Has(ApiLine, x)
                             /\ x \in MarksOf(Head(api)))
         /\ InScene(x) => \/ InScene(x)'
                          \/ /\ BuildTransactions \/ Builds \/ BuilderDeleteDocument
                             /\ x \in MarksOf(Head(highScene))
  <1>l. LineTypeOK
    BY LineTypes DEF TypeOK
  <1>p. InScene(x)' <=> Has(HighLine', x) \/ Has(LowLine', x)
    BY DEF InScene, Has
  <1>0. CASE HighLine' = HighLine /\ LowLine' = LowLine
    BY <1>p, <1>0 DEF InScene
  <1>1. CASE \/ \E m \in Menu : Send(m)
             \/ \E c \in Clients : Flush(c)
    BY <1>0, <1>1, ClientMove DEF Arrived
  <1>2. CASE Elsewhere
    BY <1>0, <1>2, StayedMove DEF Stayed
  <1>3. CASE PollTransactions \/ PollFlushComplete \/ PollClearNamespace \/ Discard
    BY <1>0, <1>3, PolledMove DEF Polled
  <1>4. CASE ReceiveForBackend \/ Takes
    BY <1>0, <1>4, TakenMove DEF Taken, Takes
  <1>5. CASE WakeBackend \/ Stopped
    BY <1>0, <1>5, OtherMoves DEF Stayed, Arrived, Ended
  <1>6. CASE ReceiveForSceneBuilder \/ Forwards
    <2>1. (SentHigh \/ SentLow) /\ Head(ApiLine) = MarksOf(Head(api))
      BY <1>6, ForwardMove DEF Forwards
    <2>2. InScene(x)' <=> InScene(x) \/ x \in Head(ApiLine)
      <3>1. PICK h : h = Head(ApiLine)
        OBVIOUS
      <3>2. /\ Has(Append(HighLine, h), x) <=> Has(HighLine, x) \/ x \in h
            /\ Has(Append(LowLine, h), x) <=> Has(LowLine, x) \/ x \in h
        BY <1>l, LongerLines
      <3> QED
        BY <1>p, <2>1, <3>1, <3>2 DEF SentHigh, SentLow, InScene
    <2>3. x \in Head(ApiLine) => Has(ApiLine, x)
      BY <1>l, <2>1, HasTail DEF SentHigh, SentLow, LineTypeOK
    <2> QED
      BY <1>6, <2>1, <2>2, <2>3
  <1>7. CASE LowForward
    <2>1. Forwarded
      BY <1>7, OtherMoves
    <2> QED
      BY <1>l, <1>p, <2>1, HasTail, HasAppend DEF Forwarded, LineTypeOK, InScene
  <1>8. CASE BuildTransactions \/ Builds \/ BuilderDeleteDocument
    <2>1. (Built \/ Removed) /\ Head(HighLine) = MarksOf(Head(highScene))
      BY <1>8, BuiltMove, OtherMoves DEF Builds
    <2>2. HighLine # <<>> /\ HighLine' = Tail(HighLine) /\ LowLine' = LowLine
      BY <2>1 DEF Built, Removed
    <2>3. Has(HighLine, x) <=> x \in Head(HighLine) \/ Has(HighLine', x)
      BY <1>l, <2>2, HasTail DEF LineTypeOK
    <2> QED
      BY <1>8, <1>p, <2>1, <2>2, <2>3 DEF InScene
  <1> QED
    BY <1>1, <1>2, <1>3, <1>4, <1>5, <1>6, <1>7, <1>8, Steps

LEMMA ResultsGain ==
  ASSUME TypeOK, [Next]_vars, NEW CONSTANT x, Has(ResultLine', x), ~Has(ResultLine, x)
  PROVE  /\ BuildTransactions \/ Builds
         /\ Has(HighLine, x) /\ x \in MarksOf(Head(highScene))
  <1>l. LineTypeOK
    BY LineTypes DEF TypeOK
  <1>1. CASE \/ \E m \in Menu : Send(m)
             \/ \E c \in Clients : Flush(c)
    BY <1>1, ClientMove DEF Arrived
  <1>2. CASE Elsewhere
    BY <1>2, StayedMove DEF Stayed
  <1>3. CASE PollTransactions \/ PollFlushComplete \/ PollClearNamespace \/ Discard
    BY <1>l, <1>3, PolledMove, HasTail DEF Polled, LineTypeOK
  <1>4. CASE ReceiveForBackend \/ Takes
    BY <1>4, TakenMove DEF Taken, Takes
  <1>5. CASE WakeBackend \/ Stopped \/ LowForward \/ BuilderDeleteDocument
    BY <1>l, <1>5, OtherMoves, HasTail DEF Stayed, Arrived, Ended, Forwarded, Removed, LineTypeOK
  <1>6. CASE ReceiveForSceneBuilder \/ Forwards
    BY <1>6, ForwardMove DEF Forwards, SentHigh, SentLow
  <1>7. CASE BuildTransactions \/ Builds
    <2>1. Built /\ Head(HighLine) = MarksOf(Head(highScene))
      BY <1>7, BuiltMove DEF Builds
    <2>2. x \in Head(HighLine)
      BY <1>l, <2>1, HasAppend DEF Built, LineTypeOK
    <2>3. Has(HighLine, x)
      BY <1>l, <2>1, <2>2, HasTail DEF Built, LineTypeOK
    <2> QED
      BY <1>7, <2>1, <2>2, <2>3
  <1> QED
    BY <1>1, <1>2, <1>3, <1>4, <1>5, <1>6, <1>7, Steps


(* Who adds and removes documents.                                         *)
LEMMA AliveMove ==
  ASSUME TypeOK, [Next]_vars, NEW CONSTANT d \in Docs
  PROVE  /\ d \in alive /\ d \notin alive' =>
              \/ ReceiveDeleteDocument /\ Deletion(d) \in MarksOf(Head(api))
              \/ PollClearNamespace /\ Clearing(d) \in Head(ResultLine)
              \/ Stopped
         /\ ReceiveAddDocument /\ Addition(d) \in MarksOf(Head(api)) => d \in alive'
  <1>1. ASSUME d \in alive, d \notin alive'
        PROVE  \/ ReceiveDeleteDocument /\ Deletion(d) \in MarksOf(Head(api))
               \/ PollClearNamespace /\ Clearing(d) \in Head(ResultLine)
               \/ Stopped
    <2>1. CASE Elsewhere
      BY <1>1, <2>1, StayedMove
    <2>2. CASE \/ \E m \in Menu : Send(m)
               \/ \E c \in Clients : Flush(c)
               \/ PollTransactions \/ PollFlushComplete \/ Discard
               \/ ReceiveForBackend \/ ReceiveForSceneBuilder
               \/ ReceiveForwarded \/ ReceiveShutDown \/ Takes
               \/ LowForward \/ BuildTransactions \/ Builds \/ BuilderDeleteDocument
               \/ WakeBackend
      BY <1>1, <2>2 DEF Send, Flush, PollTransactions, PollFlushComplete, Discard,
         ReceiveForBackend, ReceiveForSceneBuilder, ReceiveForwarded, ReceiveShutDown,
         Takes, ReceiveAddDocument, ReceiveMemoryPressure, ReceiveWakeUp, LowForward,
         BuildTransactions, Builds, BuilderFlush, BuilderClearNamespace, BuilderStop,
         BuilderDeleteDocument, WakeBackend, backendVars
    <2>3. CASE ReceiveDeleteDocument
      <3>1. Head(api).type = "DeleteDocument" /\ Head(api).doc = d
        BY <1>1, <2>3 DEF ReceiveDeleteDocument, Receives
      <3> QED
        BY <2>3, <3>1 DEF MarksOf, Deletion
    <2>4. CASE PollClearNamespace
      <3>1. /\ Head(sceneResults).type = "ClearNamespace"
            /\ NamespaceOf[d] = Head(sceneResults).ns
        BY <1>1, <2>4 DEF PollClearNamespace
      <3>2. Head(ResultLine) = ResultMarks(Head(sceneResults))
        BY <2>4, PolledMove
      <3> QED
        BY <2>4, <3>1, <3>2 DEF ResultMarks, Clearing
    <2> QED
      BY <2>1, <2>2, <2>3, <2>4, Steps DEF Forwards
  <1>2. ASSUME ReceiveAddDocument, Addition(d) \in MarksOf(Head(api)) PROVE d \in alive'
    <2>1. Head(api).type = "AddDocument" /\ alive' = alive \cup {Head(api).doc}
      BY <1>2 DEF ReceiveAddDocument, Receives
    <2>2. Head(api).doc = d
      BY <1>2, <2>1 DEF MarksOf, Addition
    <2> QED
      BY <2>1, <2>2
  <1> QED
    BY <1>1, <1>2

LEMMA BuilderMove ==
  ASSUME TypeOK, BatchesWhole, [Next]_vars, NEW CONSTANT d \in Docs
  PROVE  /\ d \in sbAlive' /\ d \notin sbAlive => \E x \in TxnsFor(d) : Has(HighLine, x)
         /\ BuilderDeleteDocument /\ Deletion(d) \in MarksOf(Head(highScene)) => d \notin sbAlive'
         /\ BuilderClearNamespace /\ Clearing(d) \in MarksOf(Head(highScene)) => d \notin sbAlive'
  <1>1. ASSUME d \in sbAlive', d \notin sbAlive PROVE \E x \in TxnsFor(d) : Has(HighLine, x)
    <2>1. BuildTransactions
      <3>1. CASE Elsewhere
        BY <1>1, <3>1, StayedMove
      <3>2. CASE \/ \E m \in Menu : Send(m)
                 \/ \E c \in Clients : Flush(c)
                 \/ PollTransactions \/ PollFlushComplete \/ PollClearNamespace \/ Discard
                 \/ ReceiveForBackend \/ ReceiveForSceneBuilder \/ Forwards \/ Takes \/ Stopped
                 \/ LowForward \/ Builds \/ BuilderDeleteDocument \/ WakeBackend
        BY <1>1, <3>2 DEF Send, Flush, PollTransactions, PollFlushComplete, PollClearNamespace,
           Discard, ReceiveForBackend, ReceiveForSceneBuilder, Forwards, ReceiveDeleteDocument,
           ReceiveForwarded, ReceiveShutDown, Takes, ReceiveAddDocument, ReceiveMemoryPressure,
           ReceiveWakeUp, Stopped, LowForward, Builds, BuilderFlush, BuilderClearNamespace,
           BuilderStop, BuilderDeleteDocument, WakeBackend, sbVars
      <3> QED
        BY <3>1, <3>2, Steps
    <2>2. /\ Head(highScene).type = "Transactions" /\ d \in DocsOf(Head(highScene).txns)
      BY <1>1, <2>1 DEF BuildTransactions
    <2>3. PICK t \in TxnsOf(Head(highScene).txns) : t.doc = d
      BY <2>2 DEF DocsOf, TxnsOf
    <2>4. PICK x : x = <<"txn", t.id, d>>
      OBVIOUS
    <2>5. x \in MarksOf(Head(highScene))
      BY <2>2, <2>3, <2>4 DEF MarksOf, TxnMark
    <2>6. Has(HighLine, x)
      <3>1. Built /\ Head(HighLine) = MarksOf(Head(highScene))
        BY <2>1, BuiltMove
      <3> QED
        BY <2>5, <3>1, LineTypes, HasTail DEF Built, LineTypeOK, TypeOK
    <2>7. t.id \in 1..sends
      BY <2>4, <2>6, WaitingSent DEF Waiting
    <2> QED
      BY <2>4, <2>6, <2>7 DEF TxnsFor
  <1>2. ASSUME BuilderDeleteDocument, Deletion(d) \in MarksOf(Head(highScene))
        PROVE  d \notin sbAlive'
    <2>1. /\ Head(highScene).type = "DeleteDocument"
          /\ sbAlive' = sbAlive \ {Head(highScene).doc}
      BY <1>2 DEF BuilderDeleteDocument
    <2>2. Head(highScene).doc = d
      BY <1>2, <2>1 DEF MarksOf, Deletion
    <2> QED
      BY <2>1, <2>2
  <1>3. ASSUME BuilderClearNamespace, Clearing(d) \in MarksOf(Head(highScene))
        PROVE  d \notin sbAlive'
    <2>1. /\ Head(highScene).type = "ClearNamespace"
          /\ sbAlive' = {e \in sbAlive : NamespaceOf[e] # Head(highScene).ns}
      BY <1>3 DEF BuilderClearNamespace
    <2>2. Head(highScene).ns = NamespaceOf[d]
      BY <1>3, <2>1 DEF MarksOf, Clearing
    <2> QED
      BY <2>1, <2>2
  <1> QED
    BY <1>1, <1>2, <1>3

LEMMA MenuClosers ==
  ASSUME TypeOK, NEW m \in Menu, NEW d, NEW w, w = MarksOf(Numbered(m, sends + 1))
  PROVE  /\ Addition(d) \in w <=> m.type = "AddDocument" /\ d = m.doc
         /\ Deletion(d) \in w <=> m.type = "DeleteDocument" /\ d = m.doc
         /\ Clearing(d) \in w <=> m.type = "ClearNamespace" /\ NamespaceOf[d] = m.ns
  <1>1. ASSUME NEW v
        PROVE  /\ <<"add", 0, v>> \in w <=> m.type = "AddDocument" /\ v = m.doc
               /\ <<"delete", 0, v>> \in w <=> m.type = "DeleteDocument" /\ v = m.doc
               /\ <<"clear", 0, v>> \in w <=> m.type = "ClearNamespace" /\ v = m.ns
    <2>1. PICK n : n = 0
      OBVIOUS
    <2>2. /\ <<"add", n, v>> \in w <=> n = 0 /\ m.type = "AddDocument" /\ v = m.doc
          /\ <<"delete", n, v>> \in w <=> n = 0 /\ m.type = "DeleteDocument" /\ v = m.doc
          /\ <<"clear", n, v>> \in w <=> n = 0 /\ m.type = "ClearNamespace" /\ v = m.ns
      BY MenuMarks
    <2> QED
      BY <2>1, <2>2
  <1> QED
    BY <1>1 DEF Addition, Deletion, Clearing

(* What the clients may send of a document.                                *)
LEMMA SendLife ==
  ASSUME TypeOK, NEW m \in Menu, Send(m), NEW CONSTANT d \in Docs, NEW w,
         w = MarksOf(Numbered(m, sends + 1))
  PROVE  /\ life'[d] = "new" => life[d] = "new"
         /\ life[d] = "closed" => life'[d] = "closed"
         /\ \A n : <<"txn", n, d>> \in w => life[d] = "open" /\ life'[d] = "open"
         /\ Addition(d) \in w => life[d] = "new"
         /\ Deletion(d) \in w \/ Clearing(d) \in w => life'[d] = "closed"
         /\ life[d] # "open" /\ life'[d] = "open" => Addition(d) \in w
  <1>1. /\ life \in [Docs -> {"new", "open", "closed"}] /\ life' = LifeAfter(m) /\ MaySend(m)
        /\ m \in ApiMsg
    BY MenuAssumption DEF Send, TypeOK, ClientTypeOK
  <1>2. \A n : <<"txn", n, d>> \in w => m.type = "UpdateDocuments" /\ d \in DocsOf(m.txns)
    <2>1. ASSUME NEW n, <<"txn", n, d>> \in w
          PROVE  m.type = "UpdateDocuments" /\ d \in DocsOf(m.txns)
      BY <2>1, MenuTxn
    <2> QED
      BY <2>1
  <1>3. /\ Addition(d) \in w <=> m.type = "AddDocument" /\ d = m.doc
        /\ Deletion(d) \in w <=> m.type = "DeleteDocument" /\ d = m.doc
        /\ Clearing(d) \in w <=> m.type = "ClearNamespace" /\ NamespaceOf[d] = m.ns
    BY MenuClosers
  <1>4. CASE m.type = "UpdateDocuments"
    BY <1>1, <1>2, <1>3, <1>4 DEF LifeAfter, MaySend
  <1>5. CASE m.type = "AddDocument"
    BY <1>1, <1>2, <1>3, <1>5 DEF LifeAfter, MaySend
  <1>6. CASE m.type = "DeleteDocument"
    BY <1>1, <1>2, <1>3, <1>6 DEF LifeAfter, MaySend
  <1>7. CASE m.type = "ClearNamespace"
    BY <1>1, <1>2, <1>3, <1>7 DEF LifeAfter
  <1>8. CASE m.type \notin {"UpdateDocuments", "AddDocument", "DeleteDocument", "ClearNamespace"}
    BY <1>1, <1>2, <1>3, <1>8 DEF LifeAfter
  <1> QED
    BY <1>4, <1>5, <1>6, <1>7, <1>8

(* What is added to the line in a step, and that nothing else is.          *)
LEMMA SentLine ==
  ASSUME TypeOK, NumbersOK, [Next]_vars, NEW CONSTANT d \in Docs
  PROVE  \/ /\ ~(\E m \in Menu : Send(m)) /\ ~(\E c \in Clients : Flush(c))
            /\ life' = life /\ sends' = sends
         \/ \E w : /\ Arrived(w) /\ UNCHANGED <<rbPc, alive, sbAlive>>
                   /\ life'[d] = "new" => life[d] = "new"
                   /\ life[d] = "closed" => life'[d] = "closed"
                   /\ \A n : <<"txn", n, d>> \in w => life[d] = "open" /\ life'[d] = "open"
                   /\ Addition(d) \in w => life[d] = "new"
                   /\ Deletion(d) \in w \/ Clearing(d) \in w => life'[d] = "closed"
                   /\ life[d] # "open" /\ life'[d] = "open" => Addition(d) \in w
  <1>1. CASE ~(\E m \in Menu : Send(m)) /\ ~(\E c \in Clients : Flush(c))
    BY <1>1, NotSent
  <1>2. CASE \E m \in Menu : Send(m)
    <2>1. PICK m \in Menu : Send(m)
      BY <1>2
    <2>2. PICK w : w = MarksOf(Numbered(m, sends + 1))
      OBVIOUS
    <2>3. Arrived(w) /\ UNCHANGED <<rbPc, alive, sbAlive>>
      BY <2>1, <2>2, ClientMove DEF Send, backendVars, sbVars
    <2> QED
      BY <2>1, <2>2, <2>3, SendLife
  <1>3. CASE \E c \in Clients : Flush(c)
    <2>1. PICK c \in Clients : Flush(c)
      BY <1>3
    <2>2. /\ Arrived({<<"flush", 0, c>>}) /\ life' = life
          /\ UNCHANGED <<rbPc, alive, sbAlive>>
      BY <2>1, ClientMove DEF Flush, backendVars, sbVars
    <2> QED
      BY <2>2 DEF Addition, Deletion, Clearing
  <1> QED
    BY <1>1, <1>2, <1>3


(* The three parts of DocumentsInLine.                                     *)
LEMMA ThreadOrder ==
  ASSUME TypeOK, [Next]_vars, ~ \E m \in Menu : Send(m), ~ \E c \in Clients : Flush(c),
         NEW CONSTANT x, NEW CONSTANT y, NeverBehind(y, x),
         Receives("UpdateDocuments") /\ x \in MarksOf(Head(api)) => ~Has(LowLine, y)
  PROVE  NeverBehind(y, x)'
  BY ThreadMove, OrderKept, OrderKeptHigh, LineTypes DEF TypeOK

LEMMA CloserMarks ==
  ASSUME NEW m, NEW d
  PROVE  /\ Addition(d) \in MarksOf(m) => m.type = "AddDocument"
         /\ Deletion(d) \in MarksOf(m) => m.type = "DeleteDocument"
         /\ Clearing(d) \in MarksOf(m) => m.type = "ClearNamespace"
  BY DEF MarksOf, TxnMark, Addition, Deletion, Clearing

LEMMA WaitingTxn ==
  ASSUME TypeOK, BatchesWhole, NEW n, NEW d, Waiting(<<"txn", n, d>>)
  PROVE  <<"txn", n, d>> \in TxnsFor(d)
  BY WaitingSent DEF TxnsFor

LEMMA ClosedLastStep ==
  ASSUME TypeOK, NumbersOK, BatchesWhole, [Next]_vars, NEW CONSTANT d \in Docs, ClosedLast(d)
  PROVE  ClosedLast(d)'
  <1>l. LineTypeOK
    BY LineTypes DEF TypeOK
  <1>0. ASSUME NEW x \in Closers(d)
        PROVE  /\ life[d] # "closed" => ~Waiting(x)
               /\ NeverBehind(Addition(d), x)
               /\ \A n : NeverBehind(<<"txn", n, d>>, x)
    <2>1. ASSUME NEW n PROVE NeverBehind(<<"txn", n, d>>, x)
      <3>1. CASE Waiting(<<"txn", n, d>>)
        BY <3>1, WaitingTxn DEF ClosedLast
      <3>2. CASE ~Waiting(<<"txn", n, d>>)
        BY <3>2, NotWaiting
      <3> QED
        BY <3>1, <3>2
    <2> QED
      BY <2>1 DEF ClosedLast
  <1> SUFFICES ASSUME NEW CONSTANT x \in Closers(d)
               PROVE  /\ life'[d] # "closed" => ~Waiting(x)'
                      /\ NeverBehind(Addition(d), x)'
                      /\ \A n : NeverBehind(<<"txn", n, d>>, x)'
    BY DEF ClosedLast, TxnsFor
  <1>1. CASE ~(\E m \in Menu : Send(m)) /\ ~(\E c \in Clients : Flush(c))
    <2>1. life' = life /\ (Waiting(x)' => Waiting(x))
      BY <1>1, NotSent, ThreadMove
    <2>2. ~(Receives("UpdateDocuments") /\ x \in MarksOf(Head(api)))
      BY CloserMarks DEF Receives, Closers
    <2>3. ASSUME NEW CONSTANT y, NeverBehind(y, x) PROVE NeverBehind(y, x)'
      BY <1>1, <2>2, <2>3, ThreadOrder
    <2>4. NeverBehind(Addition(d), x)'
      BY <1>0, <2>3 DEF Addition
    <2> QED
      BY <1>0, <2>1, <2>3, <2>4
  <1>2. CASE \E w : /\ Arrived(w)
                    /\ life[d] = "closed" => life'[d] = "closed"
                    /\ \A n : <<"txn", n, d>> \in w => life[d] = "open" /\ life'[d] = "open"
                    /\ Addition(d) \in w => life[d] = "new"
                    /\ Deletion(d) \in w \/ Clearing(d) \in w => life'[d] = "closed"
    <2>1. PICK w : /\ Arrived(w)
                   /\ life[d] = "closed" => life'[d] = "closed"
                   /\ \A n : <<"txn", n, d>> \in w => life[d] = "open" /\ life'[d] = "open"
                   /\ Addition(d) \in w => life[d] = "new"
                   /\ Deletion(d) \in w \/ Clearing(d) \in w => life'[d] = "closed"
      BY <1>2
    <2>2. life'[d] # "closed" => ~Waiting(x)'
      <3>1. Waiting(x)' <=> Waiting(x) \/ x \in w
        BY <1>l, <2>1, WaitingAfter
      <3>2. x \in w => life'[d] = "closed"
        BY <2>1 DEF Closers
      <3> QED
        BY <1>0, <2>1, <3>1, <3>2
    <2>3. ASSUME NEW CONSTANT y, NeverBehind(y, x), y \in w => life[d] # "closed"
          PROVE  NeverBehind(y, x)'
      BY <1>l, <1>0, <2>1, <2>3, OrderKeptArrived
    <2>4. NeverBehind(Addition(d), x)'
      BY <1>0, <2>1, <2>3 DEF Addition
    <2>5. ASSUME NEW CONSTANT n PROVE NeverBehind(<<"txn", n, d>>, x)'
      BY <1>0, <2>1, <2>3
    <2> QED
      BY <2>2, <2>4, <2>5
  <1> QED
    BY <1>1, <1>2, SentLine

LEMMA AddedFirstStep ==
  ASSUME TypeOK, NumbersOK, BatchesWhole, [Next]_vars, NEW CONSTANT d \in Docs, AddedFirst(d)
  PROVE  AddedFirst(d)'
  <1>l. LineTypeOK
    BY LineTypes DEF TypeOK
  <1>0. ASSUME NEW n
        PROVE  /\ NeverBehind(Addition(d), <<"txn", n, d>>)
               /\ life[d] = "new" => ~Waiting(<<"txn", n, d>>)
    <2>1. CASE Waiting(<<"txn", n, d>>)
      BY <2>1, WaitingTxn DEF AddedFirst
    <2>2. CASE ~Waiting(<<"txn", n, d>>)
      BY <2>2, NotWaiting
    <2> QED
      BY <2>1, <2>2
  <1>1. ASSUME NEW CONSTANT n
        PROVE  /\ NeverBehind(Addition(d), <<"txn", n, d>>)'
               /\ life'[d] = "new" => ~Waiting(<<"txn", n, d>>)'
    <2>0. PICK x : x = <<"txn", n, d>>
      OBVIOUS
    <2>1. CASE ~(\E m \in Menu : Send(m)) /\ ~(\E c \in Clients : Flush(c))
      <3>1. life' = life /\ (Waiting(x)' => Waiting(x))
        BY <2>1, NotSent, ThreadMove
      <3>2. ~Has(LowLine, Addition(d))
        BY AddOnlyInApi DEF InScene
      <3>3. NeverBehind(Addition(d), x)'
        BY <1>0, <2>0, <2>1, <3>2, ThreadOrder DEF Addition
      <3> QED
        BY <1>0, <2>0, <3>1, <3>3
    <2>2. CASE \E w : /\ Arrived(w) /\ (life'[d] = "new" => life[d] = "new")
                      /\ \A k : <<"txn", k, d>> \in w => life[d] = "open" /\ life'[d] = "open"
                      /\ Addition(d) \in w => life[d] = "new"
      <3>1. PICK w : /\ Arrived(w) /\ (life'[d] = "new" => life[d] = "new")
                     /\ \A k : <<"txn", k, d>> \in w => life[d] = "open" /\ life'[d] = "open"
                     /\ Addition(d) \in w => life[d] = "new"
        BY <2>2
      <3>2. NeverBehind(Addition(d), x)'
        <4>1. NeverBehind(Addition(d), x) /\ (Addition(d) \in w => ~Waiting(x))
          BY <1>0, <2>0, <3>1
        <4> QED
          BY <1>l, <3>1, <4>1, OrderKeptArrived DEF Addition
      <3>3. Waiting(x)' <=> Waiting(x) \/ x \in w
        BY <1>l, <3>1, WaitingAfter
      <3>4. x \in w => life'[d] # "new"
        BY <2>0, <3>1
      <3> QED
        BY <1>0, <2>0, <3>1, <3>2, <3>3, <3>4
    <2> QED
      BY <2>1, <2>2, SentLine
  <1>2. ASSUME life'[d] = "new", InBuilder(d)' PROVE FALSE
    <2>0. life[d] = "new"
      BY <1>2, SentLine
    <2>1. d \notin sbAlive /\ \A n : ~Waiting(<<"txn", n, d>>)
      BY <1>0, <2>0 DEF AddedFirst, InBuilder
    <2>2. d \notin sbAlive'
      <3>1. SUFFICES ASSUME d \in sbAlive' PROVE FALSE
        OBVIOUS
      <3>2. PICK x \in TxnsFor(d) : Has(HighLine, x)
        BY <2>1, <3>1, BuilderMove
      <3> QED
        BY <2>1, <3>2 DEF TxnsFor, Waiting
    <2>3. PICK n : InScene(<<"txn", n, d>>)'
      BY <1>2, <2>2 DEF InBuilder, TxnsFor
    <2>4. Waiting(<<"txn", n, d>>)'
      BY <2>3 DEF InScene, Waiting
    <2> QED
      BY <1>1, <1>2, <2>4
  <1> QED
    BY <1>1, <1>2 DEF AddedFirst, TxnsFor


(* A document that is waited for is not taken from api by anyone else.     *)
LEMMA AdditionStays ==
  ASSUME TypeOK, [Next]_vars, NEW CONSTANT d \in Docs, Has(ApiLine, Addition(d)),
         rbPc' # "done", d \notin alive'
  PROVE  Has(ApiLine', Addition(d))
  <1>1. ~Stopped
    BY DEF Stopped
  <1>2. ASSUME Received, Addition(d) \in MarksOf(Head(api)) PROVE FALSE
    <2>1. Head(api).type = "AddDocument"
      BY <1>2, CloserMarks
    <2>2. ReceiveAddDocument
      BY <1>2, <2>1 DEF Received, ReceiveForBackend, ReceiveForSceneBuilder, Forwards,
         ReceiveDeleteDocument, ReceiveForwarded, ReceiveShutDown, Takes,
         ReceiveMemoryPressure, ReceiveWakeUp, Receives
    <2> QED
      BY <1>2, <2>2, AliveMove
  <1>3. PICK x : x = Addition(d)
    OBVIOUS
  <1> QED
    BY <1>1, <1>2, <1>3, ApiKeeps DEF Addition

LEMMA GoneTogetherStep ==
  ASSUME TypeOK, NumbersOK, BatchesWhole, [Next]_vars, NEW CONSTANT d \in Docs,
         ClosedLast(d), AddedFirst(d), GoneTogether(d)
  PROVE  GoneTogether(d)'
  <1>l. LineTypeOK
    BY LineTypes DEF TypeOK
  <1>c. PICK k, c : k = Deletion(d) /\ c = Clearing(d)
    OBVIOUS
  <1>0. /\ NeverBehind(Addition(d), k) /\ NeverBehind(Addition(d), c)
        /\ \A n : Waiting(<<"txn", n, d>>) =>
             /\ NeverBehind(<<"txn", n, d>>, k) /\ NeverBehind(<<"txn", n, d>>, c)
             /\ NeverBehind(Addition(d), <<"txn", n, d>>)
        /\ life[d] # "closed" => ~Waiting(k) /\ ~Waiting(c)
    <2>1. \A n : Waiting(<<"txn", n, d>>) => <<"txn", n, d>> \in TxnsFor(d)
      BY WaitingTxn
    <2> QED
      BY <1>c, <2>1 DEF ClosedLast, AddedFirst, Closers
  <1>1. ASSUME Has(ResultLine', c) PROVE d \notin sbAlive'
    <2>1. CASE ~Has(ResultLine, c)
      <3>1. (BuildTransactions \/ Builds) /\ c \in MarksOf(Head(highScene))
        BY <1>1, <2>1, ResultsGain
      <3>2. Head(highScene).type = "ClearNamespace"
        BY <1>c, <3>1, CloserMarks
      <3>3. BuilderClearNamespace
        BY <3>1, <3>2 DEF BuildTransactions, Builds, BuilderFlush, BuilderStop
      <3> QED
        BY <1>c, <3>1, <3>3, BuilderMove
    <2>2. CASE Has(ResultLine, c)
      <3>1. d \notin sbAlive
        BY <1>c, <2>2 DEF GoneTogether
      <3>2. ASSUME d \in sbAlive' PROVE FALSE
        <4>1. PICK x \in TxnsFor(d) : Has(HighLine, x)
          BY <3>1, <3>2, BuilderMove
        <4>2. NeverBehind(x, c)
          BY <1>0, <4>1 DEF Waiting, TxnsFor
        <4> QED
          BY <2>2, <4>1, <4>2 DEF NeverBehind, InLine
      <3> QED
        BY <3>2
    <2> QED
      BY <2>1, <2>2
  <1>2. ASSUME rbPc' # "done", d \notin alive', d \in alive
        PROVE  /\ life'[d] # "open"
               /\ \A n : ~Has(ApiLine', <<"txn", n, d>>)
               /\ InBuilder(d)' => InScene(k)'
    <2>1. ~Stopped
      BY <1>2 DEF Stopped
    <2>2. CASE ReceiveDeleteDocument /\ Deletion(d) \in MarksOf(Head(api))
      <3>1. /\ ApiLine # <<>> /\ ApiLine' = Tail(ApiLine) /\ k \in Head(ApiLine)
            /\ LowLine' = Append(LowLine, Head(ApiLine))
        BY <1>c, <2>2, ForwardMove DEF SentLow
      <3>2. Has(ApiLine, k)
        BY <1>l, <3>1, HasTail DEF LineTypeOK
      <3>3. life' = life /\ life[d] = "closed"
        BY <1>0, <2>2, <3>2 DEF Waiting, ReceiveDeleteDocument, clientVars
      <3>4. ASSUME NEW n, Has(ApiLine', <<"txn", n, d>>) PROVE FALSE
        <4>1. PICK x : x = <<"txn", n, d>>
          OBVIOUS
        <4>2. Has(ApiLine, x)
          BY <1>l, <3>1, <3>4, <4>1, HasTail DEF LineTypeOK
        <4>3. NoneBehind(ApiLine, k, x)
          BY <1>0, <4>1, <4>2 DEF Waiting, NeverBehind, InLine
        <4> QED
          BY <1>l, <3>1, <3>4, <4>1, <4>3, BehindTail DEF LineTypeOK
      <3>5. InScene(k)'
        <4>1. PICK h : h = Head(ApiLine)
          OBVIOUS
        <4>2. Has(Append(LowLine, h), k)
          BY <1>l, <3>1, <4>1, LongerLines
        <4>3. Has(LowLine', k)
          BY <3>1, <4>1, <4>2
        <4> QED
          BY <4>3 DEF InScene, Has
      <3> QED
        BY <3>3, <3>4, <3>5
    <2>3. CASE PollClearNamespace /\ Clearing(d) \in Head(ResultLine)
      <3>1. Polled /\ UNCHANGED <<life, sbAlive>>
        BY <2>3, PolledMove DEF PollClearNamespace, clientVars, sbVars
      <3>2. Has(ResultLine, c)
        BY <1>c, <1>l, <2>3, <3>1, HasTail DEF Polled, LineTypeOK
      <3>3. life[d] = "closed"
        BY <1>0, <3>2 DEF Waiting
      <3>4. ASSUME NEW n PROVE ~Has(ApiLine, <<"txn", n, d>>) /\ ~InScene(<<"txn", n, d>>)
        BY <1>0, <3>2 DEF Waiting, NeverBehind, InLine, InScene
      <3>5. ~InBuilder(d)'
        <4>1. d \notin sbAlive
          BY <1>c, <3>2 DEF GoneTogether
        <4>2. \A n : ~Has(HighLine', <<"txn", n, d>>) /\ ~Has(LowLine', <<"txn", n, d>>)
          BY <3>1, <3>4 DEF Polled, InScene
        <4> QED
          BY <3>1, <4>1, <4>2 DEF InBuilder, InScene, TxnsFor, Has
      <3> QED
        BY <3>1, <3>3, <3>4, <3>5 DEF Polled
    <2> QED
      BY <1>2, <2>1, <2>2, <2>3, AliveMove
  <1>3. ASSUME rbPc' # "done", d \notin alive', d \notin alive
        PROVE  /\ life'[d] = "open" => Has(ApiLine', Addition(d))
               /\ \A n : Has(ApiLine', <<"txn", n, d>>) => Has(ApiLine', Addition(d))
               /\ InBuilder(d)' => InScene(k)'
    <2>0. rbPc # "done"
      BY <1>3, StaysDone
    <2>1. Has(ApiLine, Addition(d)) => Has(ApiLine', Addition(d))
      BY <1>3, AdditionStays
    <2>2. /\ life[d] = "open" => Has(ApiLine, Addition(d))
          /\ \A n : Has(ApiLine, <<"txn", n, d>>) => Has(ApiLine, Addition(d))
          /\ InBuilder(d) => InScene(k)
      <3>1. \A n : Has(ApiLine, <<"txn", n, d>>) => <<"txn", n, d>> \in TxnsFor(d)
        BY WaitingTxn DEF Waiting
      <3> QED
        BY <1>3, <1>c, <2>0, <3>1 DEF GoneTogether
    <2>3. /\ life'[d] = "open" => Has(ApiLine', Addition(d))
          /\ \A n : Has(ApiLine', <<"txn", n, d>>) => Has(ApiLine', Addition(d))
      <3>1. CASE ~(\E m \in Menu : Send(m)) /\ ~(\E f \in Clients : Flush(f))
        <4>1. life' = life
          BY <3>1, NotSent
        <4>2. ASSUME NEW CONSTANT n, Has(ApiLine', <<"txn", n, d>>) PROVE Has(ApiLine, <<"txn", n, d>>)
          BY <3>1, <4>2, ApiGains
        <4> QED
          BY <2>1, <2>2, <4>1, <4>2
      <3>2. CASE \E w : /\ Arrived(w)
                        /\ \A n : <<"txn", n, d>> \in w => life[d] = "open" /\ life'[d] = "open"
                        /\ life[d] # "open" /\ life'[d] = "open" => Addition(d) \in w
        <4>1. PICK w : /\ Arrived(w)
                       /\ \A n : <<"txn", n, d>> \in w => life[d] = "open" /\ life'[d] = "open"
                       /\ life[d] # "open" /\ life'[d] = "open" => Addition(d) \in w
          BY <3>2
        <4>2. \A x : Has(ApiLine', x) <=> Has(ApiLine, x) \/ x \in w
          BY <1>l, <4>1, LongerLines DEF Arrived
        <4> QED
          BY <2>1, <2>2, <4>1, <4>2
      <3> QED
        BY <3>1, <3>2, SentLine
    <2>4. ASSUME InBuilder(d)' PROVE InBuilder(d)
      <3>1. CASE d \in sbAlive'
        <4>1. d \in sbAlive \/ \E x \in TxnsFor(d) : InScene(x)
          BY <3>1, BuilderMove DEF InScene
        <4> QED
          BY <4>1 DEF InBuilder
      <3>2. CASE \E n : InScene(<<"txn", n, d>>)'
        <4>1. PICK n : InScene(<<"txn", n, d>>)'
          BY <3>2
        <4>2. PICK x : x = <<"txn", n, d>>
          OBVIOUS
        <4>3. CASE InScene(x)
          <5>1. x \in TxnsFor(d)
            BY <4>2, <4>3, WaitingTxn DEF InScene, Waiting
          <5> QED
            BY <4>3, <5>1 DEF InBuilder
        <4>4. CASE (ReceiveForSceneBuilder \/ Forwards) /\ Has(ApiLine, x) /\ x \in MarksOf(Head(api))
          <5>1. Has(ApiLine, Addition(d))
            BY <2>2, <4>2, <4>4
          <5>2. ReceiveForSceneBuilder
            BY <4>2, <4>4, TxnIn DEF Forwards, ReceiveDeleteDocument, ReceiveForwarded,
               ReceiveShutDown, Receives
          <5>3. /\ ApiLine # <<>> /\ Head(ApiLine) = MarksOf(Head(api))
                /\ Head(api).type = "UpdateDocuments"
            BY <5>2, ForwardMove DEF SentHigh, SentLow, ReceiveForSceneBuilder, Receives
          <5>4. Addition(d) \notin Head(ApiLine)
            BY <5>3, CloserMarks
          <5>5. Has(Tail(ApiLine), Addition(d))
            BY <1>l, <5>1, <5>3, <5>4, HasTail DEF LineTypeOK
          <5>6. NoneBehind(ApiLine, x, Addition(d))
            BY <1>0, <4>2, <4>4 DEF Waiting, NeverBehind, InLine
          <5> QED
            BY <1>l, <4>4, <5>3, <5>5, <5>6, BehindTail DEF LineTypeOK
        <4> QED
          BY <4>1, <4>2, <4>3, <4>4, SceneMove
      <3> QED
        BY <2>4, <3>1, <3>2 DEF InBuilder, TxnsFor
    <2>5. ASSUME InBuilder(d)' PROVE InScene(k)'
      <3>1. InScene(k)
        BY <2>2, <2>4, <2>5
      <3>2. ASSUME BuildTransactions \/ Builds \/ BuilderDeleteDocument, k \in MarksOf(Head(highScene))
            PROVE  FALSE
        <4>1. Head(highScene).type = "DeleteDocument"
          BY <1>c, <3>2, CloserMarks
        <4>2. BuilderDeleteDocument
          BY <3>2, <4>1 DEF BuildTransactions, Builds, BuilderFlush, BuilderStop, BuilderClearNamespace
        <4>3. d \notin sbAlive'
          BY <1>c, <3>2, <4>2, BuilderMove
        <4>4. Removed /\ k \in Head(HighLine)
          BY <3>2, <4>2, OtherMoves
        <4>5. Has(HighLine, k)
          BY <1>l, <4>4, HasTail DEF LineTypeOK, Removed
        <4>6. PICK n : InScene(<<"txn", n, d>>)'
          BY <2>5, <4>3 DEF InBuilder, TxnsFor
        <4>7. PICK x : x = <<"txn", n, d>>
          OBVIOUS
        <4>8. Has(Tail(HighLine), x) \/ Has(LowLine, x)
          BY <4>4, <4>6, <4>7 DEF InScene, Removed, Has
        <4>9. Waiting(x)
          BY <1>l, <4>4, <4>8, HasTail DEF LineTypeOK, Removed, Waiting
        <4>10. NoneBehind(HighLine, k, x) /\ ~Has(LowLine, x)
          BY <1>0, <4>5, <4>7, <4>9 DEF NeverBehind, InLine
        <4> QED
          BY <1>l, <4>4, <4>8, <4>10, BehindTail DEF LineTypeOK, Removed
      <3> QED
        BY <1>c, <3>1, <3>2, SceneMove
    <2> QED
      BY <2>3, <2>5
  <1>4. /\ Has(ResultLine, Clearing(d))' <=> Has(ResultLine', c)
        /\ Has(ApiLine, Addition(d))' <=> Has(ApiLine', Addition(d))
        /\ InScene(Deletion(d))' <=> InScene(k)'
        /\ \A n : Has(ApiLine, <<"txn", n, d>>)' <=> Has(ApiLine', <<"txn", n, d>>)
    BY <1>c DEF Has, InScene, Clearing, Deletion, Addition
  <1> QED
    BY <1>1, <1>2, <1>3, <1>4 DEF GoneTogether, TxnsFor

LEMMA DocumentsStep ==
  ASSUME TypeOK, NumbersOK, BatchesWhole, DocumentsInLine, [Next]_vars
  PROVE  DocumentsInLine'
  BY ClosedLastStep, AddedFirstStep, GoneTogetherStep DEF DocumentsInLine


-----------------------------------------------------------------------------
LEMMA MembersJoined ==
  ASSUME NEW S, NEW q \in Seq(S), NEW r \in Seq(S)
  PROVE  TxnsOf(q) \cup TxnsOf(r) \subseteq TxnsOf(q \o r)
  <1>1. /\ DOMAIN (q \o r) = 1..(Len(q) + Len(r)) /\ DOMAIN q = 1..Len(q) /\ DOMAIN r = 1..Len(r)
        /\ Len(q) \in Nat /\ Len(r) \in Nat
        /\ \A i \in 1..(Len(q) + Len(r)) :
             (q \o r)[i] = IF i <= Len(q) THEN q[i] ELSE r[i - Len(q)]
    OBVIOUS
  <1>2. ASSUME NEW i \in DOMAIN q PROVE i \in DOMAIN (q \o r) /\ (q \o r)[i] = q[i]
    BY <1>1
  <1>3. ASSUME NEW i \in DOMAIN r
        PROVE  Len(q) + i \in DOMAIN (q \o r) /\ (q \o r)[Len(q) + i] = r[i]
    BY <1>1
  <1> QED
    BY <1>2, <1>3 DEF TxnsOf


-----------------------------------------------------------------------------
LEMMA LineStart == Init => LineInv
  <1> SUFFICES ASSUME Init PROVE LineInv
    OBVIOUS
  <1>1. /\ sends = 0 /\ sent = {} /\ settled = <<>> /\ work = <<>> /\ rbPc = "poll"
        /\ \A n : n \notin 1..sends
        /\ \A c \in Clients : flushing[c] = 0
        /\ sbAlive = {} /\ alive = InitialDocs
        /\ \A d \in Docs : life[d] = IF d \in InitialDocs THEN "open" ELSE "new"
    BY DEF Init
  <1>2. TxnsOf(api) = {} /\ TxnsOf(lowScene) = {} /\ TxnsOf(highScene) = {}
        /\ TxnsOf(sceneResults) = {} /\ TxnsOf(work) = {} /\ TxnsOf(settled) = {}
    BY DEF Init, TxnsOf
  <1>3. \A x : ~Has(ResultLine, x) /\ ~Has(HighLine, x) /\ ~Has(LowLine, x) /\ ~Has(ApiLine, x)
    BY DEF Init, Has, ResultLine, HighLine, LowLine, ApiLine, Results, Marked
  <1>4. \A x, y : ~Waiting(x) /\ NeverBehind(y, x)
    BY <1>3, NotWaiting DEF Waiting
  <1>5. NumbersOK /\ BatchesWhole /\ WorkOK /\ NothingLost /\ FlushesInLine
    BY <1>1, <1>2, <1>4 DEF NumbersOK, BatchesWhole, WorkOK, NothingLost, FlushesInLine
  <1>6. TxnsInLine
    BY <1>1 DEF TxnsInLine
  <1>7. DocumentsInLine
    <2>1. \A d : ~InBuilder(d)
      BY <1>1, <1>3 DEF InBuilder, InScene
    <2> QED
      BY <1>1, <1>3, <1>4, <2>1 DEF DocumentsInLine, ClosedLast, AddedFirst, GoneTogether
  <1> QED
    BY <1>5, <1>6, <1>7 DEF LineInv

LEMMA LineStep ==
  ASSUME TypeOK, HandshakeInv, LineInv, [Next]_vars
  PROVE  LineInv'
  BY NumbersStep, BatchesStep, WorkStep, NothingLostStep, FlushesStep, TxnsStep, DocumentsStep
     DEF LineInv

(* The line keeps its order (ScenePipeline's threads and channels): the    *)
(* invariant that the theorems below draw on.                              *)
THEOREM InLineAlways == Spec => [](TypeOK /\ HandshakeInv /\ LineInv)
  <1>1. Init => LineInv
    BY LineStart
  <1>2. TypeOK /\ HandshakeInv /\ LineInv /\ [Next]_vars => LineInv'
    BY LineStep
  <1> QED
    BY <1>1, <1>2, TypeCorrect, PTL DEF Spec

(* Transactions of one priority settle in the order they were sent, when   *)
(* the scene builder takes them (Transaction::set_low_priority).           *)
THEOREM SentOrder == Spec => []BuilderInOrder
  <1>1. ASSUME TypeOK, LineInv PROVE BuilderInOrder
    <2>1. SUFFICES ASSUME NEW i \in DOMAIN settled, NEW j \in DOMAIN settled,
                          NEW a, NEW b, a = settled[i][1], b = settled[j][1],
                          i < j, UsesSceneBuilder(Batch(a)), UsesSceneBuilder(Batch(b)), a > b,
                          (\A t \in Batch(a) : t.low) = (\A t \in Batch(b) : t.low)
                   PROVE  FALSE
      BY DEF BuilderInOrder, InOrder
    <2>2. /\ settled[i] \in Nat \X Docs /\ settled[j] \in Nat \X Docs
          /\ i \in Nat /\ j \in Nat
      BY <1>1 DEF TypeOK, HistoryTypeOK
    <2>3. PICK d \in Docs, e \in Docs : settled[i] = <<a, d>> /\ settled[j] = <<b, e>>
      BY <2>1, <2>2
    <2>4. a \in 1..sends /\ b \in 1..sends
      BY <1>1, <2>1 DEF LineInv, NumbersOK, TxnsOf
    <2>5. SameWay(a, b)
      BY <2>1 DEF SameWay, UsesHighPriority
    <2>6. Before(b, e, a, d)
      BY <1>1, <2>1, <2>4, <2>5 DEF LineInv, TxnsInLine
    <2>7. j < i
      BY <2>3, <2>6 DEF Before
    <2> QED
      BY <2>1, <2>2, <2>7
  <1> QED
    BY <1>1, InLineAlways, PTL

(* When a flush is answered, every transaction sent before it has been     *)
(* applied or skipped, whatever queue it went through                      *)
(* (RenderApi::flush_scene_builder).                                       *)
THEOREM Barrier == Spec => FlushBarrier
  <1>1. ASSUME TypeOK, HandshakeInv, LineInv, [Next]_vars, NEW c \in Clients,
               flushing[c] # 0 /\ flushing'[c] = 0 /\ rbPc # "stopping",
               NEW t \in sent, t.id < flushing[c]
        PROVE  Settled(t)
    BY <1>1, BarrierStep DEF LineInv
  <1>2. TypeOK /\ HandshakeInv /\ LineInv /\ [Next]_vars =>
          [\A c \in Clients :
             flushing[c] # 0 /\ flushing'[c] = 0 /\ rbPc # "stopping"
               => \A t \in sent : t.id < flushing[c] => Settled(t)]_vars
    BY <1>1
  <1> QED
    BY <1>2, InLineAlways, PTL DEF Spec, FlushBarrier

(* A document that the render backend has deleted is gone from the scene   *)
(* builder too, or its deletion is on the way there and nothing brings the *)
(* document back (RenderBackend::process_api_msg, DeleteDocument).         *)
THEOREM DeletionArrives == Spec => []DeletionReachesBuilder
  <1>1. ASSUME TypeOK, LineInv PROVE DeletionReachesBuilder
    <2> SUFFICES ASSUME rbPc # "done", NEW d \in sbAlive \ alive
                 PROVE  \E m \in TxnsOf(lowScene \o highScene) :
                          m.type = "DeleteDocument" /\ m.doc = d
      BY DEF DeletionReachesBuilder
    <2>1. d \in Docs
      BY <1>1 DEF TypeOK, BuilderTypeOK
    <2>2. InScene(Deletion(d))
      BY <1>1, <2>1 DEF LineInv, DocumentsInLine, GoneTogether, InBuilder
    <2>3. PICK m \in TxnsOf(highScene) \cup TxnsOf(lowScene) : Deletion(d) \in MarksOf(m)
      BY <2>2 DEF InScene, Has, HighLine, LowLine, Marked, TxnsOf
    <2>4. m.type = "DeleteDocument" /\ m.doc = d
      BY <2>3 DEF MarksOf, TxnMark, Deletion
    <2>5. m \in TxnsOf(lowScene \o highScene)
      BY <1>1, <2>3, MembersJoined DEF TypeOK, ChannelTypeOK
    <2> QED
      BY <2>4, <2>5
  <1> QED
    BY <1>1, InLineAlways, PTL


-----------------------------------------------------------------------------
(* Notification requests.  Each is in one place at a time: with its        *)
(* transaction in the line, with what is built or being applied, or with   *)
(* the renderer.                                                           *)
Early(x) == InScene(x) \/ Has(ApiLine, x)

Carries(txns, r) == \E b \in TxnsOf(txns) : r \in RequestsOf(b.txn)

InResults(r) ==
  \E m \in TxnsOf(sceneResults) : m.type = "Transactions" /\ Carries(m.txns, r)

Unsettled == IF rbPc = "notify" THEN Tail(work) ELSE work

InWork(r) == Carries(Unsettled, r)

Appends(m) == m.type = "AppendNotificationRequests"

InOutput(r) == \E m \in TxnsOf(output) : Appends(m) /\ r \in m.requests

Pending(r) ==
  \/ Early(<<"txn", r[1], r[2]>>) \/ InResults(r) \/ InWork(r)
  \/ InOutput(r) \/ r \in requests

NotYet(r)   == \A f \in fired : f[1] # r
Notified(r) == \E o : <<r, o>> \in fired /\ \A f \in fired : f[1] = r => f = <<r, o>>

Once ==
  \A t \in sent : \A r \in RequestsOf(t) : IF Pending(r) THEN NotYet(r) ELSE Notified(r)

(* A transaction is in one place.                                          *)
InOnePlace(n, d) ==
  LET x == <<"txn", n, d>>
  IN /\ NeverBehind(x, x)
     /\ x \in WorkMarks => ~Waiting(x)
     /\ SettledMark(n, d) =>
          ~Waiting(x) /\ (x \in WorkMarks => rbPc = "notify" /\ x = TxnMark(Head(work).txn))

MarksOnce == \A n \in 1..sends, d \in Docs : InOnePlace(n, d)

(* What is built is what was sent, without what the scene builder has      *)
(* notified, and one transaction for a document.                           *)
Stripped(t) == [t EXCEPT !.notifs = @ \ {"SceneBuilt"}]

OnePerDocument(txns) == \A i, j \in DOMAIN txns : txns[i].txn.doc = txns[j].txn.doc => i = j

BuiltOK ==
  /\ OnePerDocument(work)
  /\ \A b \in TxnsOf(work) : \E t \in sent : b.txn \in {t, Stripped(t)}
  /\ \A m \in TxnsOf(sceneResults) : m.type = "Transactions" =>
       OnePerDocument(m.txns) /\ \A b \in TxnsOf(m.txns) : \E t \in sent : b.txn = Stripped(t)

(* What the renderer has or will be told of is of settled transactions,    *)
(* once.                                                                   *)
HandedOnce(queue, reqs) ==
  \A i \in DOMAIN queue : Appends(queue[i]) => \A r \in queue[i].requests :
    /\ r \notin reqs
    /\ \A j \in DOMAIN queue : Appends(queue[j]) /\ r \in queue[j].requests => j = i

HandedOK ==
  /\ \A m \in TxnsOf(outbox) : ~Appends(m)
  /\ \A r \in requests : SettledMark(r[1], r[2])
  /\ \A m \in TxnsOf(output) : Appends(m) => \A r \in m.requests : SettledMark(r[1], r[2])
  /\ HandedOnce(output, requests)

FiredOK == \A f \in fired : f[1][1] \in 1..sends

NotifyInv == MarksOnce /\ BuiltOK /\ HandedOK /\ FiredOK /\ Once

LEMMA RequestMeans ==
  ASSUME NEW t, NEW n, NEW d, NEW w
  PROVE  <<n, d, w>> \in RequestsOf(t) <=> t.id = n /\ t.doc = d /\ w \in t.notifs
  BY DEF RequestsOf

(* The places after a step.                                                *)
LEMMA SamePlaces ==
  ASSUME NEW CONSTANT r
  PROVE  /\ sceneResults' = sceneResults => (InResults(r)' <=> InResults(r))
         /\ UNCHANGED <<rbPc, work>> => (InWork(r)' <=> InWork(r))
         /\ output' = output => (InOutput(r)' <=> InOutput(r))
         /\ UNCHANGED <<api, highScene, lowScene>> => \A x : Early(x)' <=> Early(x)
  <1>1. UNCHANGED <<api, highScene, lowScene>> => \A x : Early(x)' <=> Early(x)
    BY LineOf DEF Early, InScene, Has
  <1> QED
    BY <1>1 DEF InResults, InWork, Unsettled, InOutput, Carries, RequestsOf, Appends, TxnsOf

LEMMA PlacesPrimed ==
  ASSUME NEW CONSTANT r
  PROVE  /\ InResults(r)' <=>
              \E m \in TxnsOf(sceneResults') : m.type = "Transactions" /\ Carries(m.txns, r)
         /\ InWork(r)' <=> Carries(IF rbPc' = "notify" THEN Tail(work') ELSE work', r)
         /\ InOutput(r)' <=> \E m \in TxnsOf(output') : Appends(m) /\ r \in m.requests
  BY DEF InResults, InWork, Unsettled, InOutput, Carries, RequestsOf, Appends, TxnsOf

LEMMA CarriesMeans ==
  ASSUME NEW txns, NEW n, NEW d, NEW w
  PROVE  Carries(txns, <<n, d, w>>) <=>
           \E b \in TxnsOf(txns) : b.txn.id = n /\ b.txn.doc = d /\ w \in b.txn.notifs
  BY RequestMeans DEF Carries

LEMMA CarriesTail ==
  ASSUME NEW S, NEW q \in Seq(S), q # <<>>, NEW r
  PROVE  Carries(q, r) <=> r \in RequestsOf(Head(q).txn) \/ Carries(Tail(q), r)
  BY MembersTail DEF Carries

LEMMA CarriesNothing ==
  ASSUME NEW r
  PROVE  ~Carries(<<>>, r)
  BY DEF Carries, TxnsOf

(* A transaction in the line is the one that was sent.                     *)
LEMMA SentOnce ==
  ASSUME NumbersOK, NEW t \in sent, NEW u \in sent, u.id = t.id, u.doc = t.doc
  PROVE  u = t
  BY DEF NumbersOK

LEMMA ResultWaits ==
  ASSUME NEW n, NEW d, NEW w, InResults(<<n, d, w>>)
  PROVE  Has(ResultLine, <<"txn", n, d>>) /\ Waiting(<<"txn", n, d>>)
  <1>1. PICK m \in TxnsOf(sceneResults) : m.type = "Transactions" /\ Carries(m.txns, <<n, d, w>>)
    BY DEF InResults
  <1>2. PICK b \in TxnsOf(m.txns) : b.txn.id = n /\ b.txn.doc = d
    BY <1>1, CarriesMeans
  <1>3. <<"txn", n, d>> \in ResultMarks(m)
    BY <1>1, <1>2 DEF ResultMarks, TxnMark
  <1> QED
    BY <1>3 DEF Has, ResultLine, Results, Waiting, TxnsOf

LEMMA EarlyWaits ==
  ASSUME NEW x, Early(x)
  PROVE  Waiting(x)
  BY DEF Early, InScene, Waiting

(* Nothing has settled of what is still to be settled.                     *)
LEMMA UnsettledIsNot ==
  ASSUME TypeOK, HandshakeInv, BuiltOK, NEW n, NEW d, NEW w, InOnePlace(n, d), InWork(<<n, d, w>>)
  PROVE  <<"txn", n, d>> \in WorkMarks /\ ~SettledMark(n, d)
  <1>0. work \in Seq(BuiltTransaction)
    BY DEF TypeOK, BackendTypeOK
  <1>1. CASE rbPc = "notify"
    <2>1. work # <<>>
      BY <1>1 DEF HandshakeInv, Working
    <2>2. PICK b \in TxnsOf(Tail(work)) : b.txn.id = n /\ b.txn.doc = d
      BY <1>1, CarriesMeans DEF InWork, Unsettled
    <2>3. b \in TxnsOf(work)
      BY <1>0, <2>1, <2>2, MembersTail
    <2>4. <<"txn", n, d>> \in WorkMarks
      BY <2>2, <2>3 DEF WorkMarks, TxnMark
    <2>5. PICK i \in DOMAIN Tail(work) : b = Tail(work)[i]
      BY <2>2 DEF TxnsOf
    <2>6. i + 1 \in DOMAIN work /\ b = work[i + 1] /\ 1 \in DOMAIN work /\ i + 1 # 1 /\ Head(work) = work[1]
      BY <1>0, <2>1, <2>5
    <2>7. Head(work).txn.doc # d
      BY <2>2, <2>6 DEF BuiltOK, OnePerDocument
    <2>8. <<"txn", n, d>> # TxnMark(Head(work).txn)
      BY <2>7 DEF TxnMark
    <2> QED
      BY <2>4, <2>8 DEF InOnePlace
  <1>2. CASE rbPc # "notify"
    <2>1. PICK b \in TxnsOf(work) : b.txn.id = n /\ b.txn.doc = d
      BY <1>2, CarriesMeans DEF InWork, Unsettled
    <2>2. <<"txn", n, d>> \in WorkMarks
      BY <2>1 DEF WorkMarks, TxnMark
    <2> QED
      BY <1>2, <2>2 DEF InOnePlace
  <1> QED
    BY <1>1, <1>2

LEMMA HandedSettled ==
  ASSUME HandedOK, NEW n, NEW d, NEW w, InOutput(<<n, d, w>>) \/ <<n, d, w>> \in requests
  PROVE  SettledMark(n, d)
  <1>1. CASE InOutput(<<n, d, w>>)
    <2>1. PICK m \in TxnsOf(output) : Appends(m) /\ <<n, d, w>> \in m.requests
      BY <1>1 DEF InOutput
    <2>2. PICK r : r = <<n, d, w>>
      OBVIOUS
    <2>3. SettledMark(r[1], r[2])
      BY <2>1, <2>2 DEF HandedOK
    <2> QED
      BY <2>2, <2>3
  <1>2. CASE <<n, d, w>> \in requests
    <2>2. PICK r : r = <<n, d, w>>
      OBVIOUS
    <2>3. SettledMark(r[1], r[2])
      BY <1>2, <2>2 DEF HandedOK
    <2> QED
      BY <2>2, <2>3
  <1> QED
    BY <1>1, <1>2

(* A request is in one place.                                              *)
LEMMA Apart ==
  ASSUME TypeOK, HandshakeInv, BuiltOK, HandedOK, NEW n, NEW d, NEW w, InOnePlace(n, d)
  PROVE  /\ Early(<<"txn", n, d>>) => ~InResults(<<n, d, w>>)
         /\ Early(<<"txn", n, d>>) \/ InResults(<<n, d, w>>) =>
              ~InWork(<<n, d, w>>) /\ ~InOutput(<<n, d, w>>) /\ <<n, d, w>> \notin requests
         /\ InWork(<<n, d, w>>) => ~InOutput(<<n, d, w>>) /\ <<n, d, w>> \notin requests
         /\ InOutput(<<n, d, w>>) => <<n, d, w>> \notin requests
  <1>1. PICK x, r : x = <<"txn", n, d>> /\ r = <<n, d, w>>
    OBVIOUS
  <1>2. InResults(r) => Has(ResultLine, x) /\ Waiting(x)
    BY <1>1, ResultWaits
  <1>3. Early(x) => Waiting(x) /\ ~Has(ResultLine, x)
    BY <1>1, EarlyWaits DEF InOnePlace, NeverBehind, InLine, Early, InScene
  <1>4. InWork(r) => x \in WorkMarks /\ ~SettledMark(n, d)
    BY <1>1, UnsettledIsNot
  <1>5. InOutput(r) \/ r \in requests => SettledMark(n, d)
    BY <1>1, HandedSettled
  <1>6. x \in WorkMarks \/ SettledMark(n, d) => ~Waiting(x)
    BY <1>1 DEF InOnePlace
  <1>7. InOutput(r) => r \notin requests
    BY DEF InOutput, HandedOK, HandedOnce, TxnsOf
  <1> QED
    BY <1>1, <1>2, <1>3, <1>4, <1>5, <1>6, <1>7


(* Nobody but the render backend changes what is its own.                  *)
LEMMA OnlyBackend ==
  ASSUME [Next]_vars, ~Backend
  PROVE  UNCHANGED <<rbPc, alive, outbox>>
  <1> DEFINE Same == UNCHANGED <<rbPc, alive, outbox>>
  <1>1. SceneBuilder => Same
    BY DEF SceneBuilder, BuildTransactions, BuilderDeleteDocument, BuilderFlush,
       BuilderClearNamespace, BuilderStop, WakeBackend, ReceiveSwap, PostSceneSwap, backendVars
  <1>2. Renderer => Same
    BY DEF Renderer, RendererWake, UpdatePipelineInfo, UpdateDocumentFrame,
       UpdateNotifications, UpdateResources, UpdateDone, Render, backendVars
  <1>3. (\E m \in Menu : Send(m)) \/ (\E c \in Clients : Flush(c)) \/ LowForward => Same
    BY DEF Send, Flush, LowForward, backendVars
  <1>4. Rest \/ UNCHANGED vars => Same
    BY DEF Rest, vars, backendVars
  <1> QED
    BY <1>1, <1>2, <1>3, <1>4, Zenon DEF Next

(* Who starts and ends new_frame_ready.                                    *)
LEMMA Notifying ==
  ASSUME [Next]_vars
  PROVE  (rbPc' = "notify" <=> rbPc = "notify") \/ Settle \/ NewFrameReady
  <1>1. CASE Backend
    BY <1>1 DEF Backend, PollTransactions, PollFlushComplete, PollClearNamespace, PollNothing,
       Publish, NopDocument, SwapAndWait, SkipTransaction, NextTransaction, At, Receives,
       ReceiveForBackend, UpdateHead, UpdateTransaction, ResumeAndUpdate,
       ReceiveForSceneBuilder, backendVars, ReceiveAddDocument, ReceiveDeleteDocument,
       ReceiveForwarded, ReceiveMemoryPressure, ReceiveWakeUp, ReceiveShutDown, Discard, Stopped
  <1>2. CASE ~Backend
    BY <1>2, OnlyBackend
  <1> QED
    BY <1>1, <1>2

(* What is taken from its only place is nowhere in the line.               *)
LEMMA TakenAlone ==
  ASSUME LineTypeOK, Taken, NEW CONSTANT x, NeverBehind(x, x), x \in Head(ApiLine)
  PROVE  ~Waiting(x)'
  <1>1. Waiting(x)' <=> \/ Has(ResultLine, x) \/ Has(HighLine, x)
                        \/ Has(LowLine, x) \/ Has(ApiLine', x)
    BY DEF Waiting, Has, Taken
  <1>2. Has(ApiLine, x)
    BY HasTail DEF LineTypeOK, Taken
  <1>3. ~Has(Tail(ApiLine), x)
    BY BehindTail DEF LineTypeOK, Taken, NeverBehind, InLine
  <1> QED
    BY <1>1, <1>2, <1>3 DEF Taken, NeverBehind, InLine

LEMMA OnePlaceThreads ==
  ASSUME TypeOK, HandshakeInv, NumbersOK, WorkOK, BuiltOK, [Next]_vars,
         ~ \E m \in Menu : Send(m), ~ \E c \in Clients : Flush(c),
         NEW CONSTANT n, NEW CONSTANT d, InOnePlace(n, d)
  PROVE  InOnePlace(n, d)'
  <1>l. LineTypeOK
    BY LineTypes DEF TypeOK
  <1>1. PICK x : x = <<"txn", n, d>>
    OBVIOUS
  <1>2. /\ NeverBehind(x, x)
        /\ x \in WorkMarks => ~Waiting(x)
        /\ SettledMark(n, d) =>
             ~Waiting(x) /\ (x \in WorkMarks => rbPc = "notify" /\ x = TxnMark(Head(work).txn))
    BY <1>1 DEF InOnePlace
  <1>3. NeverBehind(x, x)'
    <2>1. CASE InOrderMove
      BY <1>l, <1>2, <2>1, OrderKept
    <2>2. CASE SentHigh
      <3>1. x \in Head(ApiLine) => Has(ApiLine, x)
        BY <1>l, <2>2, HasTail DEF SentHigh, LineTypeOK
      <3>2. x \in Head(ApiLine) => ~Has(LowLine, x)
        BY <1>2, <3>1 DEF NeverBehind, InLine
      <3> QED
        BY <1>l, <1>2, <2>2, <3>2, OrderKeptHigh
    <2> QED
      BY <2>1, <2>2, ThreadMove
  <1>4. Waiting(x)' => Waiting(x)
    BY ThreadMove
  <1>5. /\ x \in WorkMarks' => ~Waiting(x)'
        /\ SettledMark(n, d)' =>
             ~Waiting(x)' /\ (x \in WorkMarks' => rbPc' = "notify" /\ x = TxnMark(Head(work').txn))
    <2>1. CASE PollTransactions
      <3>1. WorkMarks' = Head(ResultLine) /\ Polled /\ settled' = settled
        BY <2>1, PolledWork, PolledMove DEF PollTransactions
      <3>2. x \in WorkMarks' => ~Waiting(x)'
        BY <1>l, <1>2, <3>1, HeadAlone
      <3>3. SettledMark(n, d)' <=> SettledMark(n, d)
        BY <3>1 DEF SettledMark
      <3>4. x \in Head(ResultLine) => Waiting(x)
        BY <1>l, <3>1, WaitingAfter
      <3> QED
        BY <1>2, <1>4, <3>1, <3>2, <3>3, <3>4
    <2>2. CASE ReceiveForBackend
      <3>1. WorkMarks' = Head(ApiLine) /\ Taken /\ settled' = settled
        BY <2>2, TakenWork, TakenMove DEF ReceiveForBackend
      <3>2. x \in WorkMarks' => ~Waiting(x)'
        BY <1>l, <1>2, <3>1, TakenAlone
      <3>3. SettledMark(n, d)' <=> SettledMark(n, d)
        BY <3>1 DEF SettledMark
      <3>4. x \in Head(ApiLine) => Waiting(x)
        BY <1>l, <3>1, WaitingAfter
      <3> QED
        BY <1>2, <1>4, <3>1, <3>2, <3>3, <3>4
    <2>3. CASE SkipTransaction \/ Settle \/ NewFrameReady
      <3>0. /\ work \in Seq(BuiltTransaction) /\ work # <<>>
            /\ TxnsOf(work) = {Head(work)} \cup TxnsOf(Tail(work))
        BY <2>3, WorkHead
      <3>1. /\ x \in WorkMarks' => x \in WorkMarks
            /\ SettledMark(n, d)' => SettledMark(n, d) \/ x \in WorkMarks
            /\ SettledMark(n, d)' /\ ~SettledMark(n, d) => n = Head(work).txn.id /\ d = Head(work).txn.doc
        BY <1>1, <2>3, SettledWork
      <3>2. x = TxnMark(Head(work).txn) => \A b \in TxnsOf(Tail(work)) : TxnMark(b.txn) # x
        <4>1. SUFFICES ASSUME x = TxnMark(Head(work).txn), NEW i \in DOMAIN Tail(work)
                       PROVE  TxnMark(Tail(work)[i].txn) # x
          BY DEF TxnsOf
        <4>2. i + 1 \in DOMAIN work /\ Tail(work)[i] = work[i + 1] /\ 1 \in DOMAIN work /\ i + 1 # 1 /\ Head(work) = work[1]
          BY <3>0
        <4>3. Tail(work)[i].txn.doc # Head(work).txn.doc
          BY <4>2 DEF BuiltOK, OnePerDocument
        <4> QED
          BY <4>1, <4>3 DEF TxnMark
      <3>3. CASE work' = Tail(work)
        <4>1. WorkMarks' = {TxnMark(b.txn) : b \in TxnsOf(Tail(work))}
          BY <3>3, WorkMarksOf
        <4>2. SettledMark(n, d)' => x \notin WorkMarks'
          <5>1. SettledMark(n, d)' /\ x \in WorkMarks' => x = TxnMark(Head(work).txn)
            BY <1>1, <1>2, <3>1 DEF TxnMark
          <5> QED
            BY <3>2, <4>1, <5>1
        <4> QED
          BY <1>2, <1>4, <3>1, <4>2
      <3>4. CASE work' = work /\ settled' = settled /\ SkipTransaction /\ rbPc' = "panicked"
        <4>1. WorkMarks' = WorkMarks /\ (SettledMark(n, d)' <=> SettledMark(n, d)) /\ rbPc # "notify"
          BY <3>4, WorkMarksOf DEF SettledMark, SkipTransaction, At
        <4> QED
          BY <1>2, <1>4, <4>1
      <3>5. CASE work' = work /\ rbPc' = "notify" /\ Settle
        <4>1. WorkMarks' = WorkMarks /\ rbPc # "notify"
          BY <3>5, WorkMarksOf DEF Settle, At
        <4>2. SettledMark(n, d)' /\ x \in WorkMarks' => x = TxnMark(Head(work').txn)
          BY <1>1, <1>2, <3>1, <3>5, <4>1 DEF TxnMark
        <4> QED
          BY <1>2, <1>4, <3>1, <3>5, <4>1, <4>2
      <3> QED
        BY <2>3, <3>3, <3>4, <3>5 DEF SkipTransaction, Settle, NewFrameReady, NextTransaction
    <2>4. CASE /\ ~(SkipTransaction \/ Settle \/ NewFrameReady)
               /\ work' = work /\ settled' = settled /\ WorkMarks' = WorkMarks
               /\ \A k, v : SettledMark(k, v)' <=> SettledMark(k, v)
      <3>1. rbPc' = "notify" <=> rbPc = "notify"
        BY <2>4, Notifying
      <3> QED
        BY <1>2, <1>4, <2>4, <3>1
    <2> QED
      BY <2>1, <2>2, <2>3, <2>4, WorkUnchanged
  <1>6. TxnMark(Head(work).txn)' = TxnMark(Head(work').txn)
    BY DEF TxnMark
  <1> QED
    BY <1>1, <1>3, <1>5, <1>6 DEF InOnePlace

LEMMA MarksOnceStep ==
  ASSUME TypeOK, HandshakeInv, NumbersOK, BatchesWhole, WorkOK, BuiltOK, MarksOnce, [Next]_vars
  PROVE  MarksOnce'
  <1>l. LineTypeOK
    BY LineTypes DEF TypeOK
  <1>0. sends \in Nat /\ sends' \in Nat /\ sends <= sends'
    BY BatchesKept
  <1> SUFFICES ASSUME NEW CONSTANT n, n \in 1..sends', NEW CONSTANT d \in Docs
               PROVE  InOnePlace(n, d)'
    BY DEF MarksOnce
  <1>1. CASE ~(\E m \in Menu : Send(m)) /\ ~(\E c \in Clients : Flush(c))
    <2>1. InOnePlace(n, d)
      BY <1>1, NotSent DEF MarksOnce
    <2> QED
      BY <1>1, <2>1, OnePlaceThreads
  <1>2. CASE (\E m \in Menu : Send(m)) \/ (\E c \in Clients : Flush(c))
    <2>1. PICK v : Arrived(v) /\ \A k, e : <<"txn", k, e>> \in v => k = sends + 1
      <3>1. CASE \E m \in Menu : Send(m)
        <4>1. PICK m \in Menu : Send(m)
          BY <3>1
        <4>2. Arrived(MarksOf(Numbered(m, sends + 1)))
          BY <4>1, ClientMove
        <4>3. ASSUME NEW k, NEW e, <<"txn", k, e>> \in MarksOf(Numbered(m, sends + 1))
              PROVE  k = sends + 1
          BY <4>3, MenuTxn
        <4> QED
          BY <4>2, <4>3
      <3>2. CASE \E c \in Clients : Flush(c)
        <4>1. PICK c \in Clients : Arrived({<<"flush", 0, c>>})
          BY <3>2, ClientMove
        <4> QED
          BY <4>1
      <3> QED
        BY <1>2, <3>1, <3>2
    <2>2. UNCHANGED <<work, settled, rbPc>> /\ sends' = sends + 1
      BY <1>2 DEF Send, Flush, backendVars
    <2>3. PICK x : x = <<"txn", n, d>>
      OBVIOUS
    <2>4. WorkMarks' = WorkMarks /\ (SettledMark(n, d)' <=> SettledMark(n, d))
      BY <2>2, WorkMarksOf DEF SettledMark
    <2>5. CASE n \in 1..sends
      <3>1. InOnePlace(n, d) /\ x \notin v
        BY <1>0, <2>1, <2>3, <2>5 DEF MarksOnce
      <3>2. Waiting(x)' <=> Waiting(x)
        BY <1>l, <2>1, <3>1, WaitingAfter
      <3>3. NeverBehind(x, x)'
        BY <1>l, <2>1, <2>3, <3>1, OrderKeptArrived DEF InOnePlace
      <3>4. TxnMark(Head(work).txn)' = TxnMark(Head(work).txn)
        BY <2>2 DEF TxnMark
      <3> QED
        BY <2>2, <2>3, <2>4, <3>1, <3>2, <3>3, <3>4 DEF InOnePlace
    <2>6. CASE n \notin 1..sends
      <3>1. ~Waiting(x)
        BY <2>3, <2>6, WaitingSent
      <3>2. x \notin WorkMarks
        BY <2>3, <2>6, WorkMarkMeans DEF WorkOK
      <3>3. ~SettledMark(n, d)
        BY <2>6 DEF SettledMark, NumbersOK, TxnsOf
      <3>4. NeverBehind(x, x)
        BY <3>1, NotWaiting
      <3>5. NeverBehind(x, x)'
        BY <1>l, <2>1, <3>1, <3>4, OrderKeptArrived
      <3> QED
        BY <2>3, <2>4, <3>2, <3>3, <3>5 DEF InOnePlace
    <2> QED
      BY <2>5, <2>6
  <1> QED
    BY <1>1, <1>2


(* What is built.                                                          *)
LEMMA OnePerTail ==
  ASSUME NEW S, NEW q \in Seq(S), q # <<>>, OnePerDocument(q)
  PROVE  OnePerDocument(Tail(q))
  <1>1. \A i \in DOMAIN Tail(q) : i + 1 \in DOMAIN q /\ Tail(q)[i] = q[i + 1] /\ i \in Nat
    OBVIOUS
  <1> SUFFICES ASSUME NEW i \in DOMAIN Tail(q), NEW j \in DOMAIN Tail(q),
                      Tail(q)[i].txn.doc = Tail(q)[j].txn.doc
               PROVE  i = j
    BY DEF OnePerDocument
  <1>2. i + 1 = j + 1
    BY <1>1 DEF OnePerDocument
  <1> QED
    BY <1>1, <1>2

LEMMA ProcessedTxn ==
  ASSUME NEW t
  PROVE  Processed(t).txn = Stripped(t)
  BY DEF Processed, Stripped

LEMMA BatchOnePer ==
  ASSUME NEW txns, NEW n, IsBatchOf(txns, n), NEW built, DOMAIN built = DOMAIN txns,
         \A i \in DOMAIN txns : built[i].txn = txns[i] \/ built[i].txn = Stripped(txns[i]),
         TypeOK
  PROVE  OnePerDocument(built) /\ TxnsOf(txns) \subseteq sent
  <1>1. TxnsOf(txns) \subseteq sent /\ IsBatch(txns)
    BY DEF IsBatchOf, Batch
  <1>2. \A i \in DOMAIN txns : txns[i] \in Transaction
    BY <1>1 DEF TxnsOf, TypeOK, ClientTypeOK
  <1>3. \A i \in DOMAIN txns : built[i].txn.doc = txns[i].doc
    BY <1>2 DEF Stripped, Transaction
  <1> QED
    BY <1>1, <1>3 DEF OnePerDocument, IsBatch

LEMMA BuiltStep ==
  ASSUME TypeOK, HandshakeInv, NumbersOK, BatchesWhole, WorkOK, BuiltOK, [Next]_vars
  PROVE  BuiltOK'
  <1>0. sent \subseteq sent'
    BY BatchesKept
  <1>t. /\ work \in Seq(BuiltTransaction) /\ sceneResults \in Seq(SceneResult)
        /\ api \in Seq(ApiMsg) /\ highScene \in Seq(SceneRequest)
    BY DEF TypeOK, ChannelTypeOK, BackendTypeOK
  <1>1. OnePerDocument(work') /\ \A b \in TxnsOf(work') : \E t \in sent : b.txn \in {t, Stripped(t)}
    <2>1. CASE work' = work
      BY <2>1 DEF BuiltOK
    <2>2. CASE work # <<>> /\ work' = Tail(work)
      BY <1>t, <2>2, OnePerTail, MembersTail DEF BuiltOK
    <2>3. CASE PollTransactions
      <3>1. /\ sceneResults # <<>> /\ Head(sceneResults).type = "Transactions"
            /\ work' = Head(sceneResults).txns
        BY <2>3 DEF PollTransactions
      <3>2. Head(sceneResults) \in TxnsOf(sceneResults)
        BY <1>t, <3>1, MembersTail
      <3> QED
        BY <3>1, <3>2 DEF BuiltOK
    <2>4. CASE ReceiveForBackend
      <3>1. /\ api # <<>> /\ Head(api).type = "UpdateDocuments"
            /\ work' = [i \in DOMAIN Head(api).txns |->
                         [txn |-> Head(api).txns[i], built |-> EmptyScene]]
        BY <2>4 DEF ReceiveForBackend, Receives
      <3>2. Head(api) \in TxnsOf(api)
        BY <1>t, <3>1, MembersTail
      <3>3. PICK n \in 1..sends : IsBatchOf(Head(api).txns, n)
        BY <3>1, <3>2 DEF BatchesWhole
      <3>4. OnePerDocument(work') /\ TxnsOf(Head(api).txns) \subseteq sent
        BY <3>1, <3>3, BatchOnePer
      <3> QED
        BY <3>1, <3>4 DEF TxnsOf
    <2>5. CASE SkipTransaction \/ Settle \/ NewFrameReady
      <3>1. work # <<>>
        BY <2>5, WorkHead
      <3>2. work' = work \/ work' = Tail(work)
        BY <2>5 DEF SkipTransaction, Settle, NewFrameReady, NextTransaction
      <3> QED
        BY <2>1, <2>2, <3>1, <3>2
    <2> QED
      BY <2>1, <2>3, <2>4, <2>5, WorkUnchanged
  <1>2. \A m \in TxnsOf(sceneResults') : m.type = "Transactions" =>
          OnePerDocument(m.txns) /\ \A b \in TxnsOf(m.txns) : \E t \in sent : b.txn = Stripped(t)
    <2>1. CASE sceneResults' = sceneResults
      BY <2>1 DEF BuiltOK
    <2>2. CASE sceneResults # <<>> /\ sceneResults' = Tail(sceneResults)
      BY <1>t, <2>2, MembersTail DEF BuiltOK
    <2>3. CASE BuildTransactions
      <3> DEFINE txns  == Head(highScene).txns
                 built == [i \in DOMAIN txns |-> Processed(txns[i])]
                 r     == [type |-> "Transactions", txns |-> built, swap |-> OpensSwap(built)]
      <3>1. /\ highScene # <<>> /\ Head(highScene).type = "Transactions"
            /\ sceneResults' = Append(sceneResults, r)
        BY <2>3 DEF BuildTransactions
      <3>2. Head(highScene) \in TxnsOf(highScene)
        BY <1>t, <3>1, MembersTail
      <3>3. PICK n \in 1..sends : IsBatchOf(txns, n)
        BY <3>1, <3>2 DEF BatchesWhole
      <3>4. DOMAIN built = DOMAIN txns /\ \A i \in DOMAIN txns : built[i].txn = Stripped(txns[i])
        BY ProcessedTxn
      <3>5. OnePerDocument(built) /\ TxnsOf(txns) \subseteq sent
        BY <3>3, <3>4, BatchOnePer
      <3>6. \A b \in TxnsOf(built) : \E t \in sent : b.txn = Stripped(t)
        BY <3>4, <3>5 DEF TxnsOf
      <3> HIDE DEF built
      <3>7. TxnsOf(sceneResults') = TxnsOf(sceneResults) \cup {r}
        BY <1>t, <3>1, MembersAppend
      <3>8. r.txns = built
        OBVIOUS
      <3> QED
        BY <3>5, <3>6, <3>7, <3>8 DEF BuiltOK
    <2>4. CASE Builds
      <3>1. PICK r : sceneResults' = Append(sceneResults, r) /\ r.type # "Transactions"
        BY <2>4 DEF Builds, BuilderFlush, BuilderClearNamespace, BuilderStop
      <3>2. TxnsOf(sceneResults') = TxnsOf(sceneResults) \cup {r}
        BY <1>t, <3>1, MembersAppend
      <3> QED
        BY <3>1, <3>2 DEF BuiltOK
    <2> QED
      BY <2>1, <2>2, <2>3, <2>4, QueuesUnchanged
  <1>3. /\ OnePerDocument(work)' <=> OnePerDocument(work')
        /\ TxnsOf(work)' = TxnsOf(work') /\ TxnsOf(sceneResults)' = TxnsOf(sceneResults')
    BY DEF OnePerDocument, TxnsOf
  <1>4. /\ \A b \in TxnsOf(work') : \E t \in sent' : b.txn \in {t, Stripped(t)}
        /\ \A m \in TxnsOf(sceneResults') : m.type = "Transactions" =>
             OnePerDocument(m.txns) /\ \A b \in TxnsOf(m.txns) : \E t \in sent' : b.txn = Stripped(t)
    BY <1>0, <1>1, <1>2
  <1> QED
    BY <1>1, <1>3, <1>4 DEF BuiltOK, OnePerDocument, Stripped, TxnsOf


(* What the renderer has been given.                                       *)
LEMMA HandedTail ==
  ASSUME NEW S, NEW q \in Seq(S), q # <<>>, NEW reqs, HandedOnce(q, reqs), NEW new,
         \A r \in new : r \in reqs \/ (Appends(Head(q)) /\ r \in Head(q).requests)
  PROVE  HandedOnce(Tail(q), new)
  <1>1. /\ 1 \in DOMAIN q /\ Head(q) = q[1]
        /\ \A i \in DOMAIN Tail(q) : i \in Nat /\ i + 1 \in DOMAIN q /\ Tail(q)[i] = q[i + 1] /\ i + 1 # 1
    OBVIOUS
  <1> SUFFICES ASSUME NEW i \in DOMAIN Tail(q), Appends(Tail(q)[i]),
                      NEW r \in Tail(q)[i].requests
               PROVE  /\ r \notin new
                      /\ \A j \in DOMAIN Tail(q) :
                           Appends(Tail(q)[j]) /\ r \in Tail(q)[j].requests => j = i
    BY DEF HandedOnce
  <1>2. /\ i + 1 \in DOMAIN q /\ Appends(q[i + 1]) /\ r \in q[i + 1].requests
        /\ i + 1 # 1
    BY <1>1
  <1>3. /\ r \notin reqs
        /\ \A j \in DOMAIN q : Appends(q[j]) /\ r \in q[j].requests => j = i + 1
    BY <1>2 DEF HandedOnce
  <1>4. r \notin new
    BY <1>1, <1>2, <1>3
  <1>5. ASSUME NEW j \in DOMAIN Tail(q), Appends(Tail(q)[j]) /\ r \in Tail(q)[j].requests
        PROVE  j = i
    <2>1. j + 1 = i + 1
      BY <1>1, <1>3, <1>5
    <2> QED
      BY <1>1, <2>1
  <1> QED
    BY <1>4, <1>5

LEMMA HandedAppend ==
  ASSUME NEW S, NEW q \in Seq(S), NEW e, NEW reqs, HandedOnce(q, reqs),
         Appends(e) => \A r \in e.requests :
           r \notin reqs /\ \A m \in TxnsOf(q) : Appends(m) => r \notin m.requests
  PROVE  HandedOnce(Append(q, e), reqs)
  <1>1. /\ DOMAIN Append(q, e) = 1..(Len(q) + 1) /\ DOMAIN q = 1..Len(q) /\ Len(q) \in Nat
        /\ \A i \in 1..(Len(q) + 1) : Append(q, e)[i] = IF i = Len(q) + 1 THEN e ELSE q[i]
    OBVIOUS
  <1>2. \A i \in 1..(Len(q) + 1) :
          \/ i = Len(q) + 1 /\ Append(q, e)[i] = e
          \/ i \in DOMAIN q /\ Append(q, e)[i] = q[i] /\ q[i] \in TxnsOf(q)
    BY <1>1 DEF TxnsOf
  <1> SUFFICES ASSUME NEW i \in 1..(Len(q) + 1), Appends(Append(q, e)[i]),
                      NEW r \in Append(q, e)[i].requests
               PROVE  /\ r \notin reqs
                      /\ \A j \in 1..(Len(q) + 1) :
                           Appends(Append(q, e)[j]) /\ r \in Append(q, e)[j].requests => j = i
    BY <1>1 DEF HandedOnce
  <1>3. CASE i = Len(q) + 1 /\ Append(q, e)[i] = e
    BY <1>2, <1>3
  <1>4. CASE i \in DOMAIN q /\ Append(q, e)[i] = q[i] /\ q[i] \in TxnsOf(q)
    <2>1. /\ r \notin reqs
          /\ \A j \in DOMAIN q : Appends(q[j]) /\ r \in q[j].requests => j = i
      BY <1>4 DEF HandedOnce
    <2>2. ~(Appends(e) /\ r \in e.requests)
      BY <1>4
    <2> QED
      BY <1>2, <2>1, <2>2
  <1> QED
    BY <1>2, <1>3, <1>4

LEMMA MembersOfBoth ==
  ASSUME NEW S, NEW q \in Seq(S), NEW r \in Seq(S)
  PROVE  TxnsOf(q \o r) \subseteq TxnsOf(q) \cup TxnsOf(r)
  <1>1. /\ DOMAIN (q \o r) = 1..(Len(q) + Len(r)) /\ DOMAIN q = 1..Len(q) /\ DOMAIN r = 1..Len(r)
        /\ Len(q) \in Nat /\ Len(r) \in Nat
        /\ \A i \in 1..(Len(q) + Len(r)) :
             (q \o r)[i] = IF i <= Len(q) THEN q[i] ELSE r[i - Len(q)]
    OBVIOUS
  <1>2. ASSUME NEW i \in DOMAIN (q \o r)
        PROVE  \/ i \in DOMAIN q /\ (q \o r)[i] = q[i]
               \/ i - Len(q) \in DOMAIN r /\ (q \o r)[i] = r[i - Len(q)]
    BY <1>1
  <1> QED
    BY <1>2 DEF TxnsOf

LEMMA PublishedKinds ==
  ASSUME NEW old, NEW t
  PROVE  \A m \in TxnsOf(Published(old, t)) : ~Appends(m)
  <1> DEFINE doc == ApplyFrameOps(old, t)
             i   == [type |-> "PublishPipelineInfo", doc |-> t.doc,
                     epochs |-> doc.scene.epochs, removed |-> doc.removed]
             p   == [type |-> "PublishDocument", doc |-> t.doc, lists |-> doc.scene.lists]
  <1>1. \E q \in {<<>>, <<i>>}, r \in {<<>>, <<p>>} : Published(old, t) = q \o r
    BY DEF Published
  <1>2. ~Appends(i) /\ ~Appends(p)
    BY DEF Appends
  <1> HIDE DEF i, p
  <1>3. PICK q \in {<<>>, <<i>>}, r \in {<<>>, <<p>>} : Published(old, t) = q \o r
    BY <1>1
  <1>4. q \in Seq({i, p}) /\ TxnsOf(q) \subseteq {i}
    <2>1. CASE q = <<>>
      BY <2>1 DEF TxnsOf
    <2>2. CASE q = <<i>>
      BY <2>2 DEF TxnsOf
    <2> QED
      BY <2>1, <2>2
  <1>5. r \in Seq({i, p}) /\ TxnsOf(r) \subseteq {p}
    <2>1. CASE r = <<>>
      BY <2>1 DEF TxnsOf
    <2>2. CASE r = <<p>>
      BY <2>2 DEF TxnsOf
    <2> QED
      BY <2>1, <2>2
  <1> QED
    BY <1>2, <1>3, <1>4, <1>5, MembersOfBoth

(* Who changes what the renderer has been given.                           *)
LEMMA HandedBy ==
  ASSUME [Next]_vars
  PROVE  \/ UNCHANGED <<output, requests>>
         \/ Publish \/ Settle \/ ReceiveMemoryPressure \/ UpdatePipelineInfo
         \/ UpdateDocumentFrame \/ UpdateNotifications \/ UpdateResources \/ Render
  <1>1. CASE Backend
    BY <1>1 DEF Backend, PollTransactions, PollFlushComplete, PollClearNamespace, PollNothing,
       NopDocument, SwapAndWait, SkipTransaction, ReceiveForBackend, UpdateHead, NewFrameReady,
       UpdateTransaction, ResumeAndUpdate, ReceiveForSceneBuilder, rendererVars,
       ReceiveAddDocument, ReceiveDeleteDocument, ReceiveForwarded, ReceiveWakeUp,
       ReceiveShutDown, Discard, Stopped
  <1>2. CASE ~Backend
    BY <1>2 DEF Next, SceneBuilder, Renderer, vars, Rest, Send, Flush, LowForward, rendererVars,
       BuildTransactions, BuilderDeleteDocument, BuilderFlush, BuilderClearNamespace,
       BuilderStop, WakeBackend, ReceiveSwap, PostSceneSwap, RendererWake, UpdateDone
  <1> QED
    BY <1>1, <1>2

LEMMA OutboxBy ==
  ASSUME [Next]_vars
  PROVE  \/ outbox' = outbox
         \/ outbox # <<>> /\ outbox' = Tail(outbox)
         \/ \E old, t : outbox' = Published(old, t)
  <1>1. CASE Publish \/ (\E d \in Docs : NopDocument(d)) \/ UpdateTransaction \/ ResumeAndUpdate
    BY <1>1 DEF Publish, NopDocument, UpdateTransaction, ResumeAndUpdate, UpdateHead
  <1>2. CASE Backend /\ ~Publish /\ ~(\E d \in Docs : NopDocument(d)) /\ ~UpdateTransaction
             /\ ~ResumeAndUpdate
    <2>1. outbox' = outbox
      BY <1>2 DEF Backend, PollTransactions, PollFlushComplete, PollClearNamespace, PollNothing,
         SwapAndWait, SkipTransaction, ReceiveForBackend, NewFrameReady, Settle,
         ReceiveForSceneBuilder, ReceiveAddDocument, ReceiveDeleteDocument, ReceiveForwarded,
         ReceiveMemoryPressure, ReceiveWakeUp, ReceiveShutDown, Discard, Stopped,
         backendVars
    <2> QED
      BY <2>1
  <1>3. CASE ~Backend
    BY <1>3, OnlyBackend
  <1> QED
    BY <1>1, <1>2, <1>3

(* What Settle leaves to the renderer.                                     *)
LEMMA SettleHands ==
  ASSUME TypeOK, HandshakeInv, Settle
  PROVE  /\ work # <<>> /\ Head(work) \in TxnsOf(work) /\ rbPc = "settle"
         /\ \E late \in SUBSET RequestsOf(Head(work).txn) :
              /\ late = {r \in RequestsOf(Head(work).txn) : r[3] # "FrameBuilt"}
              /\ fired' = fired \cup Fire(RequestsOf(Head(work).txn) \ late)
              /\ \/ late = {} /\ output' = output
                 \/ output' = Append(output, [type |-> "AppendNotificationRequests",
                                               requests |-> late])
         /\ settled' = Append(settled, <<Head(work).txn.id, Head(work).txn.doc>>)
         /\ requests' = requests /\ outbox = <<>>
  <1>1. work # <<>> /\ Head(work) \in TxnsOf(work)
    BY WorkHead
  <1> QED
    BY <1>1 DEF Settle, At, rendererVars

LEMMA HandedStep ==
  ASSUME TypeOK, HandshakeInv, NumbersOK, WorkOK, MarksOnce, BuiltOK, HandedOK, [Next]_vars
  PROVE  HandedOK'
  <1>t. output \in Seq(ResultMsg) /\ outbox \in Seq(ResultMsg)
    BY DEF TypeOK, ChannelTypeOK, BackendTypeOK
  <1>s. \A n, d : SettledMark(n, d) => SettledMark(n, d)'
    BY StaysSettled
  <1>o. \A m \in TxnsOf(outbox') : ~Appends(m)
    <2>1. CASE outbox' = outbox
      BY <2>1 DEF HandedOK
    <2>2. CASE outbox # <<>> /\ outbox' = Tail(outbox)
      BY <1>t, <2>2, MembersTail DEF HandedOK
    <2>3. CASE \E old, t : outbox' = Published(old, t)
      BY <2>3, PublishedKinds
    <2> QED
      BY <2>1, <2>2, <2>3, OutboxBy
  <1>q. /\ \A r \in requests' : SettledMark(r[1], r[2])'
        /\ \A m \in TxnsOf(output') : Appends(m) => \A r \in m.requests : SettledMark(r[1], r[2])'
        /\ HandedOnce(output', requests')
    <2>1. CASE UNCHANGED <<output, requests>>
      BY <1>s, <2>1 DEF HandedOK
    <2>2. CASE Publish
      <3>1. /\ output' = Append(output, Head(outbox)) /\ requests' = requests /\ outbox # <<>>
        BY <2>2 DEF Publish, rendererVars
      <3>2. ~Appends(Head(outbox))
        BY <1>t, <3>1, MembersTail DEF HandedOK
      <3>3. HandedOnce(output', requests')
        BY <1>t, <3>1, <3>2, HandedAppend DEF HandedOK
      <3>4. TxnsOf(output') = TxnsOf(output) \cup {Head(outbox)}
        BY <1>t, <3>1, MembersAppend
      <3> QED
        BY <1>s, <3>1, <3>2, <3>3, <3>4 DEF HandedOK
    <2>3. CASE ReceiveMemoryPressure
      <3>1. PICK e : e = [type |-> "UpdateResources"]
        OBVIOUS
      <3>2. output' = Append(output, e) /\ requests' = requests /\ ~Appends(e)
        BY <2>3, <3>1 DEF ReceiveMemoryPressure, rendererVars, Appends
      <3>3. HandedOnce(output', requests')
        BY <1>t, <3>2, HandedAppend DEF HandedOK
      <3>4. TxnsOf(output') = TxnsOf(output) \cup {e}
        BY <1>t, <3>2, MembersAppend
      <3> QED
        BY <1>s, <3>2, <3>3, <3>4 DEF HandedOK
    <2>4. CASE Settle
      <3>1. PICK late \in SUBSET RequestsOf(Head(work).txn) :
              \/ late = {} /\ output' = output
              \/ output' = Append(output, [type |-> "AppendNotificationRequests",
                                            requests |-> late])
        BY <2>4, SettleHands
      <3>2. /\ settled' = Append(settled, <<Head(work).txn.id, Head(work).txn.doc>>)
            /\ requests' = requests /\ rbPc = "settle" /\ Head(work) \in TxnsOf(work)
        BY <2>4, SettleHands
      <3>3. PICK n, d : n = Head(work).txn.id /\ d = Head(work).txn.doc
        OBVIOUS
      <3>4. SettledMark(n, d)'
        <4>1. settled \in Seq(Nat \X Docs)
          BY DEF TypeOK, HistoryTypeOK
        <4>2. TxnsOf(settled') = TxnsOf(settled) \cup {<<n, d>>}
          BY <3>2, <3>3, <4>1, MembersAppend
        <4> QED
          BY <4>2 DEF SettledMark, TxnsOf
      <3>5. ~SettledMark(n, d)
        <4>1. n \in 1..sends /\ d \in Docs
          <5>1. Head(work) \in BuiltTransaction
            BY <2>4, WorkHead
          <5>2. d \in Docs
            BY <3>3, <5>1 DEF BuiltTransaction, Transaction
          <5>3. n \in 1..sends
            BY <3>2, <3>3 DEF WorkOK
          <5> QED
            BY <5>2, <5>3
        <4>2. <<"txn", n, d>> \in WorkMarks
          BY <3>2, <3>3, WorkMarkMeans
        <4> QED
          BY <3>2, <4>1, <4>2 DEF MarksOnce, InOnePlace
      <3>6. CASE late = {} /\ output' = output
        BY <1>s, <3>2, <3>6 DEF HandedOK
      <3>7. CASE output' = Append(output, [type |-> "AppendNotificationRequests",
                                            requests |-> late])
        <4>1. PICK e : e = [type |-> "AppendNotificationRequests", requests |-> late]
          OBVIOUS
        <4>2. output' = Append(output, e) /\ e.requests = late
          BY <3>7, <4>1
        <4>3. \A r \in late : r[1] = n /\ r[2] = d
          BY <3>1, <3>3 DEF RequestsOf
        <4>4. \A r \in late : r \notin requests /\ \A m \in TxnsOf(output) : Appends(m) => r \notin m.requests
          BY <3>5, <4>3 DEF HandedOK
        <4>5. HandedOnce(output', requests')
          BY <1>t, <3>2, <4>2, <4>4, HandedAppend DEF HandedOK
        <4>6. TxnsOf(output') = TxnsOf(output) \cup {e}
          BY <1>t, <4>2, MembersAppend
        <4>7. \A r \in late : SettledMark(r[1], r[2])'
          BY <3>4, <4>3
        <4> QED
          BY <1>s, <3>2, <4>2, <4>5, <4>6, <4>7 DEF HandedOK
      <3> QED
        BY <3>1, <3>6, <3>7
    <2>5. CASE UpdatePipelineInfo \/ UpdateDocumentFrame \/ UpdateNotifications \/ UpdateResources
      <3>1. /\ output # <<>> /\ output' = Tail(output)
            /\ \A r \in requests' : r \in requests \/ (Appends(Head(output)) /\ r \in Head(output).requests)
        <4>1. CASE UpdatePipelineInfo
          BY <4>1 DEF UpdatePipelineInfo, Updates
        <4>2. CASE UpdateDocumentFrame
          BY <4>2 DEF UpdateDocumentFrame, Updates
        <4>3. CASE UpdateNotifications
          BY <4>3 DEF UpdateNotifications, Updates, Appends
        <4>4. CASE UpdateResources
          BY <4>4 DEF UpdateResources, Updates
        <4> QED
          BY <2>5, <4>1, <4>2, <4>3, <4>4
      <3>2. TxnsOf(output) = {Head(output)} \cup TxnsOf(output')
        BY <1>t, <3>1, MembersTail
      <3>3. HandedOnce(output', requests')
        BY <1>t, <3>1, HandedTail DEF HandedOK
      <3> QED
        BY <1>s, <3>1, <3>2, <3>3 DEF HandedOK
    <2>6. CASE Render
      BY <1>s, <2>6 DEF HandedOK, HandedOnce, Render
    <2> QED
      BY <2>1, <2>2, <2>3, <2>4, <2>5, <2>6, HandedBy
  <1>1. /\ TxnsOf(outbox)' = TxnsOf(outbox') /\ TxnsOf(output)' = TxnsOf(output')
        /\ HandedOnce(output, requests)' <=> HandedOnce(output', requests')
    BY DEF TxnsOf, HandedOnce, Appends
  <1> QED
    BY <1>o, <1>q, <1>1 DEF HandedOK, Appends

(* What has been notified is of transactions that were sent.               *)
LEMMA FireMeans ==
  ASSUME NEW reqs, NEW r, NEW f, f[1] = r
  PROVE  /\ f \in Fire(reqs) <=> r \in reqs /\ f = <<r, r[3]>>
         /\ f \in Dropped(reqs) <=> r \in reqs /\ f = <<r, "TransactionDropped">>
  BY DEF Fire, Dropped

LEMMA FiredOnly ==
  ASSUME NEW reqs, NEW n, \A r \in reqs : r[1] \in 1..n
  PROVE  /\ \A f \in Fire(reqs) : f[1][1] \in 1..n
         /\ \A f \in Dropped(reqs) : f[1][1] \in 1..n
  BY DEF Fire, Dropped

LEMMA FiredBy ==
  ASSUME [Next]_vars
  PROVE  \/ fired' = fired
         \/ SkipTransaction \/ Settle \/ Discard \/ Stopped \/ BuildTransactions
         \/ UpdateDocumentFrame \/ UpdateNotifications \/ UpdateResources \/ Render
  <1>1. CASE Backend
    BY <1>1 DEF Backend, PollTransactions, PollFlushComplete, PollClearNamespace, PollNothing,
       NopDocument, SwapAndWait, Publish, ReceiveForBackend, NewFrameReady,
       UpdateTransaction, ResumeAndUpdate, ReceiveForSceneBuilder,
       ReceiveAddDocument, ReceiveDeleteDocument, ReceiveForwarded, ReceiveMemoryPressure,
       ReceiveWakeUp, ReceiveShutDown
  <1>2. CASE ~Backend
    BY <1>2 DEF Next, SceneBuilder, Renderer, vars, Rest, Send, Flush, LowForward,
       BuilderDeleteDocument, BuilderFlush, BuilderClearNamespace, BuilderStop, WakeBackend,
       ReceiveSwap, PostSceneSwap, RendererWake, UpdateDone, UpdatePipelineInfo
  <1> QED
    BY <1>1, <1>2

LEMMA RequestsSent ==
  ASSUME NEW n \in 1..sends, NEW txns, IsBatchOf(txns, n)
  PROVE  \A r \in UNION {RequestsOf(t) : t \in TxnsOf(txns)} : r[1] \in 1..sends
  <1>1. \A t \in TxnsOf(txns) : t.id = n
    BY DEF IsBatchOf, Batch
  <1> QED
    BY <1>1 DEF RequestsOf

LEMMA FiredStep ==
  ASSUME TypeOK, HandshakeInv, NumbersOK, BatchesWhole, WorkOK, HandedOK, FiredOK, [Next]_vars
  PROVE  FiredOK'
  <1>0. \A n \in 1..sends : n \in 1..sends'
    BY BatchesKept
  <1>t. /\ sceneResults \in Seq(SceneResult) /\ api \in Seq(ApiMsg)
        /\ highScene \in Seq(SceneRequest) /\ output \in Seq(ResultMsg)
    BY DEF TypeOK, ChannelTypeOK
  <1>s. /\ \A r \in requests : r[1] \in 1..sends
        /\ \A m \in TxnsOf(output) : Appends(m) => \A r \in m.requests : r[1] \in 1..sends
    <2>1. ASSUME NEW n, NEW d, SettledMark(n, d) PROVE n \in 1..sends
      BY <2>1 DEF SettledMark, NumbersOK, TxnsOf
    <2> QED
      BY <2>1 DEF HandedOK
  <1>1. \A f \in fired' : f[1][1] \in 1..sends
    <2>1. CASE fired' = fired
      BY <2>1 DEF FiredOK
    <2>2. CASE SkipTransaction \/ Settle
      <3>1. Head(work) \in TxnsOf(work)
        BY <2>2, WorkHead
      <3>2. \A r \in RequestsOf(Head(work).txn) : r[1] \in 1..sends
        BY <3>1 DEF WorkOK, RequestsOf
      <3>3. CASE SkipTransaction
        <4>1. fired' = fired \/ fired' = fired \cup Dropped(RequestsOf(Head(work).txn))
          BY <3>3 DEF SkipTransaction
        <4> QED
          BY <3>2, <4>1, FiredOnly DEF FiredOK
      <3>4. CASE Settle
        <4>1. PICK late : fired' = fired \cup Fire(RequestsOf(Head(work).txn) \ late)
          BY <3>4, SettleHands
        <4>2. \A r \in RequestsOf(Head(work).txn) \ late : r[1] \in 1..sends
          BY <3>2
        <4> QED
          BY <4>1, <4>2, FiredOnly DEF FiredOK
      <3> QED
        BY <2>2, <3>3, <3>4
    <2>3. CASE Discard
      <3>1. Head(sceneResults) \in TxnsOf(sceneResults)
        BY <1>t, <2>3, MembersTail DEF Discard
      <3>2. CASE Head(sceneResults).type # "Transactions"
        BY <2>3, <3>2 DEF Discard, FiredOK
      <3>3. CASE Head(sceneResults).type = "Transactions"
        <4> DEFINE reqs == UNION {RequestsOf(b.txn) : b \in TxnsOf(Head(sceneResults).txns)}
        <4>1. fired' = fired \cup Dropped(reqs)
          BY <2>3, <3>3 DEF Discard
        <4>2. \A b \in TxnsOf(Head(sceneResults).txns) : b.txn.id \in 1..sends
          BY <3>1, <3>3 DEF BatchesWhole
        <4>3. \A r \in reqs : r[1] \in 1..sends
          BY <4>2 DEF RequestsOf
        <4> HIDE DEF reqs
        <4> QED
          BY <4>1, <4>3, FiredOnly DEF FiredOK
      <3> QED
        BY <3>2, <3>3
    <2>4. CASE Stopped
      <3> DEFINE reqs == UNION {RequestsOf(t) :
                   t \in UNION {TxnsOf(m.txns) : m \in {m \in TxnsOf(api) :
                                                       m.type = "UpdateDocuments"}}}
      <3>1. fired' = fired \cup Dropped(reqs)
        BY <2>4 DEF Stopped
      <3>2. \A m \in TxnsOf(api) : m.type = "UpdateDocuments" =>
              \A t \in TxnsOf(m.txns) : t.id \in 1..sends
        BY DEF BatchesWhole, IsBatchOf, Batch
      <3>3. \A r \in reqs : r[1] \in 1..sends
        BY <3>2 DEF RequestsOf
      <3> HIDE DEF reqs
      <3> QED
        BY <3>1, <3>3, FiredOnly DEF FiredOK
    <2>5. CASE BuildTransactions
      <3> DEFINE all  == UNION {RequestsOf(t) : t \in TxnsOf(Head(highScene).txns)}
                 reqs == {r \in all : r[3] = "SceneBuilt"}
      <3>1. fired' = fired \cup Fire(reqs)
        BY <2>5 DEF BuildTransactions
      <3>2. Head(highScene) \in TxnsOf(highScene) /\ Head(highScene).type = "Transactions"
        BY <1>t, <2>5, MembersTail DEF BuildTransactions
      <3>3. PICK n \in 1..sends : IsBatchOf(Head(highScene).txns, n)
        BY <3>2 DEF BatchesWhole
      <3>4. \A r \in all : r[1] \in 1..sends
        BY <3>3, RequestsSent
      <3> HIDE DEF all
      <3>5. \A r \in reqs : r[1] \in 1..sends
        BY <3>4
      <3> HIDE DEF reqs
      <3> QED
        BY <3>1, <3>5, FiredOnly DEF FiredOK
    <2>6. CASE UpdateDocumentFrame \/ UpdateNotifications \/ UpdateResources \/ Render
      <3>1. PICK reqs : /\ fired' \subseteq fired \cup Fire(reqs) \cup Dropped(reqs)
                        /\ \A r \in reqs : \/ r \in requests
                                           \/ /\ output # <<>> /\ Appends(Head(output))
                                              /\ r \in Head(output).requests
        <4>1. CASE UpdateDocumentFrame
          BY <4>1 DEF UpdateDocumentFrame, Uploaded, Fire
        <4>2. CASE UpdateNotifications
          BY <4>2 DEF UpdateNotifications, Updates, Uploaded, Appends, Fire
        <4>3. CASE UpdateResources
          BY <4>3 DEF UpdateResources, Uploaded, Fire
        <4>4. CASE Render
          BY <4>4 DEF Render, Uploaded, Fire, Dropped
        <4> QED
          BY <2>6, <4>1, <4>2, <4>3, <4>4
      <3>2. \A r \in reqs : r[1] \in 1..sends
        <4>1. output # <<>> => Head(output) \in TxnsOf(output)
          BY <1>t, MembersTail
        <4> QED
          BY <1>s, <3>1, <4>1
      <3> QED
        BY <3>1, <3>2, FiredOnly DEF FiredOK
    <2> QED
      BY <2>1, <2>2, <2>3, <2>4, <2>5, <2>6, FiredBy
  <1> QED
    BY <1>0, <1>1 DEF FiredOK

(* One request through one step: it stays pending or not, or it is fired.  *)
Mark(r)  == <<"txn", r[1], r[2]>>
Asked(r) == \E t \in sent : r \in RequestsOf(t)
Ready    == TypeOK /\ HandshakeInv /\ LineInv /\ NotifyInv

Quiet(r) == /\ Pending(r)' <=> Pending(r)
            /\ \A f : f[1] = r => (f \in fired' <=> f \in fired)

Fires(r) == /\ Pending(r) /\ ~Pending(r)'
            /\ \E o : \A f : f[1] = r => (f \in fired' <=> f \in fired \/ f = <<r, o>>)

LEMMA FiresByFire ==
  ASSUME NEW r, NEW reqs, r \in reqs, fired' = fired \cup Fire(reqs), Pending(r), ~Pending(r)'
  PROVE  Fires(r)
  <1>1. \A f : f[1] = r => (f \in fired' <=> f \in fired \/ f = <<r, r[3]>>)
    BY FireMeans
  <1> QED
    BY <1>1 DEF Fires

LEMMA FiresByDrop ==
  ASSUME NEW r, NEW reqs, r \in reqs, fired' = fired \cup Dropped(reqs), Pending(r), ~Pending(r)'
  PROVE  Fires(r)
  <1>1. \A f : f[1] = r => (f \in fired' <=> f \in fired \/ f = <<r, "TransactionDropped">>)
    BY FireMeans
  <1> QED
    BY <1>1 DEF Fires

LEMMA QuietOtherwise ==
  ASSUME NEW r, NEW reqs, r \notin reqs,
         fired' \in {fired, fired \cup Fire(reqs), fired \cup Dropped(reqs)},
         Pending(r)' <=> Pending(r)
  PROVE  Quiet(r)
  BY FireMeans DEF Quiet

LEMMA EarlyAfter ==
  ASSUME LineTypeOK, NEW CONSTANT x
  PROVE  /\ Stayed \/ Polled \/ Forwarded \/ SentLow \/ SentHigh \/ Arrived({})
              => (Early(x)' <=> Early(x))
         /\ Taken => (Early(x) <=> Early(x)' \/ x \in Head(ApiLine))
         /\ Removed \/ Built => (Early(x) <=> Early(x)' \/ x \in Head(HighLine))
         /\ \A e : Arrived(e) => (Early(x)' <=> Early(x) \/ x \in e)
  <1>1. Early(x)' <=> Has(HighLine', x) \/ Has(LowLine', x) \/ Has(ApiLine', x)
    BY DEF Early, InScene, Has
  <1> USE <1>1 DEF LineTypeOK
  <1>2. ASSUME Stayed \/ Polled PROVE Early(x)' <=> Early(x)
    BY <1>2 DEF Stayed, Polled, Early, InScene
  <1>4. ASSUME Forwarded PROVE Early(x)' <=> Early(x)
    BY <1>4, HasTail, HasAppend DEF Forwarded, Early, InScene
  <1>5. ASSUME SentLow PROVE Early(x)' <=> Early(x)
    BY <1>5, HasTail, HasAppend DEF SentLow, Early, InScene
  <1>6. ASSUME SentHigh PROVE Early(x)' <=> Early(x)
    BY <1>6, HasTail, HasAppend DEF SentHigh, Early, InScene
  <1>8. ASSUME Taken PROVE Early(x) <=> Early(x)' \/ x \in Head(ApiLine)
    BY <1>8, HasTail DEF Taken, Early, InScene
  <1>9. ASSUME Removed PROVE Early(x) <=> Early(x)' \/ x \in Head(HighLine)
    BY <1>9, HasTail DEF Removed, Early, InScene
  <1>10. ASSUME Built PROVE Early(x) <=> Early(x)' \/ x \in Head(HighLine)
    BY <1>10, HasTail DEF Built, Early, InScene
  <1>11. ASSUME NEW e, Arrived(e) PROVE Early(x)' <=> Early(x) \/ x \in e
    BY <1>11, HasAppend DEF Arrived, Early, InScene
  <1> QED
    BY <1>2, <1>4, <1>5, <1>6, <1>8, <1>9, <1>10, <1>11

LEMMA AskedMeans ==
  ASSUME NEW r, Asked(r)
  PROVE  /\ r = <<r[1], r[2], r[3]>>
         /\ \E t \in sent : t.id = r[1] /\ t.doc = r[2] /\ r[3] \in t.notifs /\ r \in RequestsOf(t)
  BY DEF Asked, RequestsOf

LEMMA TxnIsSent ==
  ASSUME NumbersOK, NEW r, Asked(r), NEW u \in sent, u.id = r[1], u.doc = r[2]
  PROVE  r \in RequestsOf(u)
  <1>1. PICK t \in sent : t.id = r[1] /\ t.doc = r[2] /\ r \in RequestsOf(t)
    BY AskedMeans
  <1> QED
    BY <1>1, SentOnce

LEMMA Where ==
  ASSUME Ready, NEW CONSTANT r, Asked(r)
  PROVE  /\ LineTypeOK
         /\ r[1] \in 1..sends /\ r[2] \in Docs /\ InOnePlace(r[1], r[2])
         /\ Early(Mark(r)) => ~InResults(r)
         /\ Early(Mark(r)) \/ InResults(r) => ~InWork(r) /\ ~InOutput(r) /\ r \notin requests
         /\ InWork(r) => ~InOutput(r) /\ r \notin requests
         /\ InOutput(r) => r \notin requests
         /\ Pending(r) <=> \/ Early(Mark(r)) \/ InResults(r) \/ InWork(r)
                           \/ InOutput(r) \/ r \in requests
         /\ Pending(r)' <=> \/ Early(Mark(r))' \/ InResults(r)' \/ InWork(r)'
                            \/ InOutput(r)' \/ r \in requests'
  <1>1. r[1] \in 1..sends /\ r[2] \in Docs
    <2>1. PICK t \in sent : t.id = r[1] /\ t.doc = r[2]
      BY AskedMeans
    <2>2. t \in Transaction
      BY DEF Ready, TypeOK, ClientTypeOK
    <2> QED
      BY <2>1, <2>2 DEF Transaction, Ready, LineInv, NumbersOK
  <1>2. InOnePlace(r[1], r[2])
    BY <1>1 DEF Ready, NotifyInv, MarksOnce
  <1>3. PICK n, d, w : n = r[1] /\ d = r[2] /\ w = r[3]
    OBVIOUS
  <1>4. r = <<n, d, w>> /\ Mark(r) = <<"txn", n, d>> /\ InOnePlace(n, d)
    BY <1>2, <1>3, AskedMeans DEF Mark
  <1>5. /\ Early(Mark(r)) => ~InResults(r)
        /\ Early(Mark(r)) \/ InResults(r) => ~InWork(r) /\ ~InOutput(r) /\ r \notin requests
        /\ InWork(r) => ~InOutput(r) /\ r \notin requests
        /\ InOutput(r) => r \notin requests
    BY <1>4, Apart DEF Ready, NotifyInv
  <1>6. LineTypeOK
    BY LineTypes DEF Ready, TypeOK
  <1> QED
    BY <1>1, <1>2, <1>5, <1>6 DEF Pending, Mark

LEMMA BatchHas ==
  ASSUME NumbersOK, NEW r, Asked(r), NEW m, m.type \in {"UpdateDocuments", "Transactions"},
         NEW k, IsBatchOf(m.txns, k)
  PROVE  Mark(r) \in MarksOf(m) <=> \E u \in TxnsOf(m.txns) : r \in RequestsOf(u)
  <1>1. TxnsOf(m.txns) \subseteq sent
    BY DEF IsBatchOf, Batch
  <1>2. PICK n, d : n = r[1] /\ d = r[2]
    OBVIOUS
  <1>3. Mark(r) \in MarksOf(m) <=> \E u \in TxnsOf(m.txns) : u.id = n /\ u.doc = d
    <2>1. MarksOf(m) = {TxnMark(u) : u \in TxnsOf(m.txns)}
      BY DEF MarksOf
    <2> QED
      BY <1>2, <2>1 DEF Mark, TxnMark
  <1>4. ASSUME NEW u \in TxnsOf(m.txns) PROVE u.id = n /\ u.doc = d <=> r \in RequestsOf(u)
    <2>1. u \in sent
      BY <1>1
    <2>2. u.id = n /\ u.doc = d => r \in RequestsOf(u)
      BY <1>2, <2>1, TxnIsSent
    <2>3. r \in RequestsOf(u) => u.id = n /\ u.doc = d
      BY <1>2 DEF RequestsOf
    <2> QED
      BY <2>2, <2>3
  <1> QED
    BY <1>3, <1>4

(* The steps that take a transaction out of its queue.                     *)
LEMMA PollKeeps ==
  ASSUME Ready, NEW CONSTANT r, Asked(r), PollTransactions
  PROVE  Quiet(r)
  <1>1. /\ sceneResults \in Seq(SceneResult) /\ sceneResults # <<>> /\ sceneResults' = Tail(sceneResults)
        /\ Head(sceneResults).type = "Transactions" /\ work' = Head(sceneResults).txns
        /\ rbPc = "poll" /\ rbPc' = "apply" /\ fired' = fired
        /\ UNCHANGED <<api, highScene, lowScene, output, requests>>
    BY DEF PollTransactions, At, Ready, TypeOK, ChannelTypeOK, rendererVars
  <1>2. InResults(r) <=> Carries(Head(sceneResults).txns, r) \/ InResults(r)'
    BY <1>1, MembersTail, PlacesPrimed DEF InResults
  <1>3. ~InWork(r)
    BY <1>1, CarriesNothing DEF InWork, Unsettled, Ready, LineInv, WorkOK
  <1>4. InWork(r)' <=> Carries(Head(sceneResults).txns, r)
    BY <1>1, PlacesPrimed
  <1>5. /\ InOutput(r)' <=> InOutput(r)
        /\ Early(Mark(r))' <=> Early(Mark(r))
    BY <1>1, SamePlaces
  <1> QED
    BY <1>1, <1>2, <1>3, <1>4, <1>5, Where DEF Quiet

LEMMA TakeKeeps ==
  ASSUME Ready, NEW CONSTANT r, Asked(r), ReceiveForBackend
  PROVE  Quiet(r)
  <1>1. /\ api \in Seq(ApiMsg) /\ api # <<>> /\ Head(api).type = "UpdateDocuments"
        /\ work' = [i \in DOMAIN Head(api).txns |-> [txn |-> Head(api).txns[i], built |-> EmptyScene]]
        /\ rbPc = "api" /\ rbPc' = "apply" /\ fired' = fired
        /\ UNCHANGED <<sceneResults, output, requests>>
    BY DEF ReceiveForBackend, Receives, At, Ready, TypeOK, ChannelTypeOK, rendererVars
  <1>2. Head(api) \in TxnsOf(api)
    BY <1>1, MembersTail
  <1>3. PICK k \in 1..sends : IsBatchOf(Head(api).txns, k)
    BY <1>1, <1>2 DEF Ready, LineInv, BatchesWhole
  <1>4. Mark(r) \in MarksOf(Head(api)) <=> \E u \in TxnsOf(Head(api).txns) : r \in RequestsOf(u)
    <2>1. PICK m : m = Head(api)
      OBVIOUS
    <2>2. m.type = "UpdateDocuments" /\ IsBatchOf(m.txns, k) /\ NumbersOK
      BY <1>1, <1>3, <2>1 DEF Ready, LineInv
    <2>3. Mark(r) \in MarksOf(m) <=> \E u \in TxnsOf(m.txns) : r \in RequestsOf(u)
      BY <2>2, BatchHas
    <2> QED
      BY <2>1, <2>3
  <1>5. Carries(work', r) <=> \E u \in TxnsOf(Head(api).txns) : r \in RequestsOf(u)
    <2>1. PICK txns : txns = Head(api).txns
      OBVIOUS
    <2>2. PICK built : built = [i \in DOMAIN txns |-> [txn |-> txns[i], built |-> EmptyScene]]
      OBVIOUS
    <2>3. DOMAIN built = DOMAIN txns /\ \A i \in DOMAIN txns : built[i].txn = txns[i]
      BY <2>2
    <2>4. Carries(built, r) <=> \E u \in TxnsOf(txns) : r \in RequestsOf(u)
      BY <2>3 DEF Carries, TxnsOf
    <2> QED
      BY <1>1, <2>1, <2>2, <2>4
  <1>6. InWork(r)' <=> Mark(r) \in MarksOf(Head(api))
    BY <1>1, <1>4, <1>5, PlacesPrimed
  <1>7. Taken /\ Head(ApiLine) = MarksOf(Head(api))
    BY TakenMove DEF Ready
  <1>8. Early(Mark(r)) <=> Early(Mark(r))' \/ Mark(r) \in MarksOf(Head(api))
    <2>1. PICK x : x = Mark(r)
      OBVIOUS
    <2>2. Early(x) <=> Early(x)' \/ x \in Head(ApiLine)
      BY <1>7, Where, EarlyAfter
    <2> QED
      BY <1>7, <2>1, <2>2
  <1>9. ~InWork(r)
    BY <1>1, CarriesNothing DEF InWork, Unsettled, Ready, LineInv, WorkOK
  <1>10. /\ InOutput(r)' <=> InOutput(r)
         /\ InResults(r)' <=> InResults(r)
    BY <1>1, SamePlaces
  <1> QED
    BY <1>1, <1>6, <1>8, <1>9, <1>10, Where DEF Quiet

(* What is at the front is not behind it.                                  *)
LEMMA HeadOnly ==
  ASSUME NEW S, NEW q \in Seq(S), q # <<>>, OnePerDocument(q), NEW r,
         r \in RequestsOf(Head(q).txn)
  PROVE  ~Carries(Tail(q), r)
  <1>1. /\ 1 \in DOMAIN q /\ Head(q) = q[1]
        /\ \A i \in DOMAIN Tail(q) : i + 1 \in DOMAIN q /\ Tail(q)[i] = q[i + 1] /\ i + 1 # 1
    OBVIOUS
  <1> SUFFICES ASSUME NEW i \in DOMAIN Tail(q), r \in RequestsOf(Tail(q)[i].txn)
               PROVE  FALSE
    BY DEF Carries, TxnsOf
  <1>2. r[2] = Head(q).txn.doc /\ r[2] = Tail(q)[i].txn.doc
    BY DEF RequestsOf
  <1> QED
    BY <1>1, <1>2 DEF OnePerDocument

LEMMA FirstResultOnly ==
  ASSUME TypeOK, NEW CONSTANT r, r = <<r[1], r[2], r[3]>>, InOnePlace(r[1], r[2]),
         sceneResults # <<>>, sceneResults' = Tail(sceneResults),
         Head(sceneResults).type = "Transactions", Carries(Head(sceneResults).txns, r)
  PROVE  ~InResults(r)'
  <1>1. PICK n, d, w : n = r[1] /\ d = r[2] /\ w = r[3]
    OBVIOUS
  <1>2. PICK x : x = <<"txn", n, d>>
    OBVIOUS
  <1>3. NoneBehind(ResultLine, x, x)
    BY <1>1, <1>2 DEF InOnePlace, NeverBehind, InLine
  <1>4. \A m : m.type = "Transactions" /\ Carries(m.txns, r) => x \in ResultMarks(m)
    BY <1>1, <1>2 DEF Carries, RequestsOf, ResultMarks, TxnMark
  <1>5. /\ sceneResults \in Seq(SceneResult)
        /\ 1 \in DOMAIN sceneResults /\ Head(sceneResults) = sceneResults[1]
        /\ \A i \in DOMAIN Tail(sceneResults) :
             i + 1 \in DOMAIN sceneResults /\ Tail(sceneResults)[i] = sceneResults[i + 1] /\ 1 < i + 1
    BY DEF TypeOK, ChannelTypeOK
  <1>6. DOMAIN ResultLine = DOMAIN sceneResults
        /\ \A i \in DOMAIN sceneResults : ResultLine[i] = ResultMarks(sceneResults[i])
    BY DEF ResultLine, Results
  <1>7. ASSUME NEW i \in DOMAIN Tail(sceneResults), Tail(sceneResults)[i].type = "Transactions",
               Carries(Tail(sceneResults)[i].txns, r)
        PROVE  FALSE
    <2>1. x \in ResultLine[1] /\ x \in ResultLine[i + 1]
      BY <1>4, <1>5, <1>6, <1>7
    <2>2. 1 \in DOMAIN ResultLine /\ i + 1 \in DOMAIN ResultLine /\ 1 < i + 1
      BY <1>5, <1>6
    <2> QED
      BY <1>3, <2>1, <2>2 DEF NoneBehind
  <1> QED
    BY <1>7, PlacesPrimed DEF TxnsOf

LEMMA SkipMoves ==
  ASSUME Ready, NEW CONSTANT r, Asked(r), SkipTransaction
  PROVE  Quiet(r) \/ Fires(r)
  <1>1. /\ work \in Seq(BuiltTransaction) /\ work # <<>> /\ rbPc = "apply"
        /\ UNCHANGED <<api, highScene, lowScene, sceneResults, output, requests>>
    BY DEF SkipTransaction, At, Ready, TypeOK, BackendTypeOK, rendererVars
  <1>2. /\ Early(Mark(r))' <=> Early(Mark(r))
        /\ InResults(r)' <=> InResults(r)
        /\ InOutput(r)' <=> InOutput(r)
    BY <1>1, SamePlaces
  <1>3. CASE rbPc' = "panicked"
    <2>1. work' = work /\ fired' = fired
      BY <1>3 DEF SkipTransaction, NextTransaction
    <2>2. InWork(r)' <=> InWork(r)
      BY <1>1, <1>3, <2>1, PlacesPrimed DEF InWork, Unsettled
    <2> QED
      BY <1>1, <1>2, <2>1, <2>2, Where DEF Quiet
  <1>4. CASE rbPc' # "panicked"
    <2>1. /\ work' = Tail(work) /\ rbPc' # "notify"
          /\ fired' = fired \cup Dropped(RequestsOf(Head(work).txn))
      BY <1>4 DEF SkipTransaction, NextTransaction
    <2>2. InWork(r) <=> r \in RequestsOf(Head(work).txn) \/ Carries(Tail(work), r)
      BY <1>1, CarriesTail DEF InWork, Unsettled
    <2>3. InWork(r)' <=> Carries(Tail(work), r)
      BY <2>1, PlacesPrimed
    <2>4. CASE r \in RequestsOf(Head(work).txn)
      <3>1. ~Carries(Tail(work), r)
        BY <1>1, <2>4, HeadOnly DEF Ready, NotifyInv, BuiltOK
      <3>2. Pending(r) /\ ~Pending(r)'
        BY <1>1, <1>2, <2>2, <2>3, <2>4, <3>1, Where
      <3> QED
        BY <2>1, <2>4, <3>2, FiresByDrop
    <2>5. CASE r \notin RequestsOf(Head(work).txn)
      <3>1. Pending(r)' <=> Pending(r)
        BY <1>1, <1>2, <2>2, <2>3, <2>5, Where
      <3> QED
        BY <2>1, <2>5, <3>1, QuietOtherwise
    <2> QED
      BY <2>4, <2>5
  <1> QED
    BY <1>3, <1>4

LEMMA SettleMoves ==
  ASSUME Ready, NEW CONSTANT r, Asked(r), Settle
  PROVE  Quiet(r) \/ Fires(r)
  <1>1. /\ work \in Seq(BuiltTransaction) /\ output \in Seq(ResultMsg) /\ rbPc = "settle"
        /\ UNCHANGED <<api, highScene, lowScene, sceneResults, requests>>
        /\ \/ rbPc' = "notify" /\ work' = work
           \/ rbPc' # "notify" /\ work' = Tail(work)
    BY DEF Settle, At, NextTransaction, Ready, TypeOK, BackendTypeOK, ChannelTypeOK, rendererVars
  <1>2. /\ Early(Mark(r))' <=> Early(Mark(r))
        /\ InResults(r)' <=> InResults(r)
    BY <1>1, SamePlaces
  <1>3. PICK all : all = RequestsOf(Head(work).txn)
    OBVIOUS
  <1>4. work # <<>>
    BY SettleHands DEF Ready
  <1>5. PICK late : /\ late = {q \in all : q[3] # "FrameBuilt"}
                    /\ fired' = fired \cup Fire(all \ late)
                    /\ \/ late = {} /\ output' = output
                       \/ output' = Append(output, [type |-> "AppendNotificationRequests",
                                                     requests |-> late])
    BY <1>3, SettleHands DEF Ready
  <1>6. InWork(r) <=> r \in all \/ Carries(Tail(work), r)
    BY <1>1, <1>3, <1>4, CarriesTail DEF InWork, Unsettled
  <1>7. InWork(r)' <=> Carries(Tail(work), r)
    BY <1>1, PlacesPrimed
  <1>8. InOutput(r)' <=> InOutput(r) \/ r \in late
    <2>1. CASE late = {} /\ output' = output
      BY <2>1, SamePlaces
    <2>2. CASE output' = Append(output, [type |-> "AppendNotificationRequests", requests |-> late])
      <3>1. PICK e : e = [type |-> "AppendNotificationRequests", requests |-> late]
        OBVIOUS
      <3>2. Appends(e) /\ e.requests = late
        BY <3>1 DEF Appends
      <3>3. TxnsOf(output') = TxnsOf(output) \cup {e}
        BY <1>1, <2>2, <3>1, MembersAppend
      <3> QED
        BY <3>2, <3>3, PlacesPrimed DEF InOutput
    <2> QED
      BY <1>5, <2>1, <2>2
  <1>9. CASE r \in all \ late
    <2>1. ~Carries(Tail(work), r)
      BY <1>1, <1>3, <1>4, <1>9, HeadOnly DEF Ready, NotifyInv, BuiltOK
    <2>2. Pending(r) /\ ~Pending(r)'
      BY <1>1, <1>2, <1>6, <1>7, <1>8, <1>9, <2>1, Where
    <2> QED
      BY <1>5, <1>9, <2>2, FiresByFire
  <1>10. CASE r \notin all \ late
    <2>1. r \in late => r \in all
      BY <1>5
    <2>2. Pending(r)' <=> Pending(r)
      BY <1>1, <1>2, <1>6, <1>7, <1>8, <1>10, <2>1, Where
    <2> QED
      BY <1>5, <1>10, <2>2, QuietOtherwise
  <1> QED
    BY <1>9, <1>10

LEMMA DiscardMoves ==
  ASSUME Ready, NEW CONSTANT r, Asked(r), Discard
  PROVE  Quiet(r) \/ Fires(r)
  <1>1. /\ sceneResults \in Seq(SceneResult) /\ sceneResults # <<>> /\ sceneResults' = Tail(sceneResults)
        /\ UNCHANGED <<api, highScene, lowScene, output, requests, rbPc, work>>
    BY DEF Discard, Ready, TypeOK, ChannelTypeOK, rendererVars, backendVars
  <1>2. /\ Early(Mark(r))' <=> Early(Mark(r))
        /\ InWork(r)' <=> InWork(r)
        /\ InOutput(r)' <=> InOutput(r)
    BY <1>1, SamePlaces
  <1>3. PICK h : h = Head(sceneResults)
    OBVIOUS
  <1>4. TxnsOf(sceneResults) = {h} \cup TxnsOf(sceneResults')
    BY <1>1, <1>3, MembersTail
  <1>5. InResults(r) <=> (h.type = "Transactions" /\ Carries(h.txns, r)) \/ InResults(r)'
    BY <1>4, PlacesPrimed DEF InResults
  <1>6. CASE h.type # "Transactions"
    <2>1. fired' = fired
      BY <1>3, <1>6 DEF Discard
    <2> QED
      BY <1>1, <1>2, <1>5, <1>6, <2>1, Where DEF Quiet
  <1>7. CASE h.type = "Transactions"
    <2>1. PICK reqs : reqs = UNION {RequestsOf(b.txn) : b \in TxnsOf(h.txns)}
      OBVIOUS
    <2>2. fired' = fired \cup Dropped(reqs)
      BY <1>3, <1>7, <2>1 DEF Discard
    <2>3. Carries(h.txns, r) <=> r \in reqs
      BY <2>1 DEF Carries
    <2>4. CASE r \in reqs
      <3>1. ~InResults(r)'
        BY <1>1, <1>3, <1>7, <2>3, <2>4, FirstResultOnly, Where, AskedMeans DEF Ready
      <3>2. Pending(r) /\ ~Pending(r)'
        BY <1>1, <1>2, <1>5, <1>7, <2>3, <2>4, <3>1, Where
      <3> QED
        BY <2>2, <2>4, <3>2, FiresByDrop
    <2>5. CASE r \notin reqs
      <3>1. Pending(r)' <=> Pending(r)
        BY <1>1, <1>2, <1>5, <2>3, <2>5, Where
      <3> QED
        BY <2>2, <2>5, <3>1, QuietOtherwise
    <2> QED
      BY <2>4, <2>5
  <1> QED
    BY <1>6, <1>7

LEMMA StoppedMoves ==
  ASSUME Ready, NEW CONSTANT r, Asked(r), Stopped
  PROVE  Quiet(r) \/ Fires(r)
  <1>1. /\ sceneResults \in Seq(SceneResult) /\ sceneResults # <<>> /\ sceneResults' = Tail(sceneResults)
        /\ Head(sceneResults).type = "Stopped" /\ api' = <<>>
        /\ rbPc = "stopping" /\ rbPc' = "done"
        /\ UNCHANGED <<highScene, lowScene, output, requests, work>>
    BY DEF Stopped, At, Ready, TypeOK, ChannelTypeOK, rendererVars
  <1>2. InOutput(r)' <=> InOutput(r)
    BY <1>1, SamePlaces
  <1>3. InWork(r)' <=> InWork(r)
    BY <1>1, PlacesPrimed DEF InWork, Unsettled
  <1>4. InResults(r) <=> InResults(r)'
    BY <1>1, MembersTail, PlacesPrimed DEF InResults
  <1>5. PICK x : x = Mark(r)
    OBVIOUS
  <1>6. Early(x) <=> InScene(x) \/ Has(ApiLine, x)
    BY DEF Early
  <1>7. Early(x)' <=> InScene(x)
    <2>1. ApiLine' = <<>> /\ HighLine' = HighLine /\ LowLine' = LowLine
      BY <1>1, LineOf DEF Marked
    <2>2. Early(x)' <=> Has(HighLine', x) \/ Has(LowLine', x) \/ Has(ApiLine', x)
      BY DEF Early, InScene, Has
    <2> QED
      BY <2>1, <2>2, EmptyLine DEF InScene
  <1>8. Has(ApiLine, x) => ~InScene(x)
    BY <1>5, Where DEF InOnePlace, NeverBehind, InLine, InScene, Mark
  <1>9. PICK reqs : reqs = UNION {RequestsOf(t) :
                 t \in UNION {TxnsOf(m.txns) : m \in {m \in TxnsOf(api) :
                                                     m.type = "UpdateDocuments"}}}
    OBVIOUS
  <1>10. fired' = fired \cup Dropped(reqs)
    BY <1>9 DEF Stopped
  <1>11. Has(ApiLine, x) <=> r \in reqs
    <2>1. r \in reqs <=> \E m \in TxnsOf(api) : m.type = "UpdateDocuments" /\
                              \E u \in TxnsOf(m.txns) : r \in RequestsOf(u)
      BY <1>9
    <2>2. Has(ApiLine, x) <=> \E m \in TxnsOf(api) : x \in MarksOf(m)
      BY DEF Has, ApiLine, Marked, TxnsOf
    <2>3. ASSUME NEW m \in TxnsOf(api)
          PROVE  x \in MarksOf(m) <=> m.type = "UpdateDocuments" /\
                                        \E u \in TxnsOf(m.txns) : r \in RequestsOf(u)
      <3>1. CASE m.type = "UpdateDocuments"
        <4>1. PICK k \in 1..sends : IsBatchOf(m.txns, k)
          BY <3>1 DEF Ready, LineInv, BatchesWhole
        <4>2. Mark(r) \in MarksOf(m) <=> \E u \in TxnsOf(m.txns) : r \in RequestsOf(u)
          BY <3>1, <4>1, BatchHas DEF Ready, LineInv
        <4> QED
          BY <1>5, <3>1, <4>2
      <3>2. CASE m.type # "UpdateDocuments"
        <4>1. m.type # "Transactions"
          <5>1. m \in ApiMsg
            BY MembersType DEF Ready, TypeOK, ChannelTypeOK
          <5> QED
            BY <5>1 DEF ApiMsg
        <4>2. x \in MarksOf(m) => m.type \in {"UpdateDocuments", "Transactions"}
          BY <1>5, TxnIn DEF Mark
        <4> QED
          BY <3>2, <4>1, <4>2
      <3> QED
        BY <3>1, <3>2
    <2> QED
      BY <2>1, <2>2, <2>3
  <1>12. /\ Early(Mark(r)) <=> Early(x)
         /\ Early(Mark(r))' <=> Early(x)'
    BY <1>5
  <1>13. CASE r \in reqs
    <2>1. Pending(r) /\ ~Pending(r)'
      BY <1>1, <1>2, <1>3, <1>4, <1>6, <1>7, <1>8, <1>11, <1>12, <1>13, Where
    <2> QED
      BY <1>10, <1>13, <2>1, FiresByDrop
  <1>14. CASE r \notin reqs
    <2>1. Pending(r)' <=> Pending(r)
      BY <1>1, <1>2, <1>3, <1>4, <1>6, <1>7, <1>8, <1>11, <1>12, <1>14, Where
    <2> QED
      BY <1>10, <1>14, <2>1, QuietOtherwise
  <1> QED
    BY <1>13, <1>14

LEMMA BuiltAlone ==
  ASSUME LineTypeOK, Built, NEW CONSTANT x, NeverBehind(x, x), x \in Head(HighLine)
  PROVE  ~Early(x)'
  <1>1. Early(x)' <=> Has(HighLine', x) \/ Has(LowLine', x) \/ Has(ApiLine', x)
    BY DEF Early, InScene, Has
  <1>2. Has(HighLine, x)
    BY HasTail DEF LineTypeOK, Built
  <1>3. ~Has(Tail(HighLine), x)
    BY BehindTail DEF LineTypeOK, Built, NeverBehind, InLine
  <1> QED
    BY <1>1, <1>2, <1>3 DEF Built, NeverBehind, InLine

LEMMA ProcessedCarries ==
  ASSUME NEW txns, \A u \in TxnsOf(txns) : u \in Transaction,
         NEW built, built = [i \in DOMAIN txns |-> Processed(txns[i])],
         NEW r, r = <<r[1], r[2], r[3]>>
  PROVE  Carries(built, r) <=>
           r \in UNION {RequestsOf(u) : u \in TxnsOf(txns)} /\ r[3] # "SceneBuilt"
  <1>1. DOMAIN built = DOMAIN txns /\ \A i \in DOMAIN txns : built[i].txn = Stripped(txns[i])
    BY ProcessedTxn
  <1>2. ASSUME NEW u \in Transaction
        PROVE  r \in RequestsOf(Stripped(u)) <=> r \in RequestsOf(u) /\ r[3] # "SceneBuilt"
    <2>1. /\ Stripped(u).id = u.id /\ Stripped(u).doc = u.doc
          /\ Stripped(u).notifs = u.notifs \ {"SceneBuilt"}
      BY DEF Stripped, Transaction
    <2>2. PICK n, d, w : r = <<n, d, w>>
      OBVIOUS
    <2>3. \A v : r \in RequestsOf(v) <=> v.id = n /\ v.doc = d /\ w \in v.notifs
      BY <2>2 DEF RequestsOf
    <2> QED
      BY <2>1, <2>2, <2>3
  <1>3. Carries(built, r) <=> \E i \in DOMAIN txns : r \in RequestsOf(Stripped(txns[i]))
    BY <1>1 DEF Carries, TxnsOf
  <1>4. \A i \in DOMAIN txns : txns[i] \in TxnsOf(txns) /\ txns[i] \in Transaction
    BY DEF TxnsOf
  <1>5. Carries(built, r) <=> \E i \in DOMAIN txns : r \in RequestsOf(txns[i]) /\ r[3] # "SceneBuilt"
    BY <1>2, <1>3, <1>4
  <1>6. r \in UNION {RequestsOf(u) : u \in TxnsOf(txns)} <=>
          \E i \in DOMAIN txns : r \in RequestsOf(txns[i])
    BY DEF TxnsOf
  <1> QED
    BY <1>5, <1>6

LEMMA BuildMoves ==
  ASSUME Ready, NEW CONSTANT r, Asked(r), BuildTransactions
  PROVE  Quiet(r) \/ Fires(r)
  <1>1. PICK h, txns : h = Head(highScene) /\ txns = h.txns
    OBVIOUS
  <1>2. PICK built : built = [i \in DOMAIN txns |-> Processed(txns[i])]
    OBVIOUS
  <1>3. PICK all : all = UNION {RequestsOf(u) : u \in TxnsOf(txns)}
    OBVIOUS
  <1>4. PICK reqs : reqs = {q \in all : q[3] = "SceneBuilt"}
    OBVIOUS
  <1>5. /\ sceneResults \in Seq(SceneResult) /\ highScene \in Seq(SceneRequest)
        /\ highScene # <<>> /\ h.type = "Transactions"
        /\ UNCHANGED <<output, requests, rbPc, work>>
    BY <1>1 DEF BuildTransactions, Ready, TypeOK, ChannelTypeOK, rendererVars, backendVars
  <1>6. fired' = fired \cup Fire(reqs)
    BY <1>1, <1>3, <1>4 DEF BuildTransactions
  <1>7. PICK e : /\ e = [type |-> "Transactions", txns |-> built, swap |-> OpensSwap(built)]
                 /\ sceneResults' = Append(sceneResults, e)
    BY <1>1, <1>2 DEF BuildTransactions
  <1>8. /\ InWork(r)' <=> InWork(r)
        /\ InOutput(r)' <=> InOutput(r)
    BY <1>5, SamePlaces
  <1>9. h \in TxnsOf(highScene)
    BY <1>1, <1>5, MembersTail
  <1>10. PICK k \in 1..sends : IsBatchOf(h.txns, k)
    BY <1>5, <1>9 DEF Ready, LineInv, BatchesWhole
  <1>11. InResults(r)' <=> InResults(r) \/ (r \in all /\ r[3] # "SceneBuilt")
    <2>1. TxnsOf(sceneResults') = TxnsOf(sceneResults) \cup {e}
      BY <1>5, <1>7, MembersAppend
    <2>2. e.type = "Transactions" /\ e.txns = built
      BY <1>7
    <2>3. InResults(r)' <=> InResults(r) \/ Carries(built, r)
      BY <2>1, <2>2, PlacesPrimed DEF InResults
    <2>4. \A u \in TxnsOf(txns) : u \in Transaction
      BY <1>1, <1>10 DEF IsBatchOf, Batch, Ready, TypeOK, ClientTypeOK
    <2> QED
      BY <1>2, <1>3, <2>3, <2>4, ProcessedCarries, AskedMeans
  <1>12. Mark(r) \in MarksOf(h) <=> r \in all
    <2>1. NumbersOK
      BY DEF Ready, LineInv
    <2>2. Mark(r) \in MarksOf(h) <=> \E u \in TxnsOf(h.txns) : r \in RequestsOf(u)
      BY <1>5, <1>10, <2>1, BatchHas
    <2> QED
      BY <1>1, <1>3, <2>2
  <1>13. Built /\ Head(HighLine) = MarksOf(h)
    BY <1>1, BuiltMove DEF Ready
  <1>14. PICK x : x = Mark(r)
    OBVIOUS
  <1>15. /\ Early(x) <=> Early(x)' \/ r \in all
         /\ r \in all => ~Early(x)'
    <2>1. NeverBehind(x, x)
      BY <1>14, Where DEF InOnePlace, Mark
    <2> QED
      BY <1>12, <1>13, <1>14, <2>1, Where, EarlyAfter, BuiltAlone
  <1>16. /\ Early(Mark(r)) <=> Early(x)
         /\ Early(Mark(r))' <=> Early(x)'
    BY <1>14
  <1>17. CASE r \in reqs
    <2>1. r \in all /\ r[3] = "SceneBuilt"
      BY <1>4, <1>17
    <2>2. Pending(r) /\ ~Pending(r)'
      BY <1>5, <1>8, <1>11, <1>15, <1>16, <2>1, Where
    <2> QED
      BY <1>6, <1>17, <2>2, FiresByFire
  <1>18. CASE r \notin reqs
    <2>1. r \in all => r[3] # "SceneBuilt"
      BY <1>4, <1>18
    <2>2. Pending(r)' <=> Pending(r)
      BY <1>5, <1>8, <1>11, <1>15, <1>16, <2>1, Where
    <2> QED
      BY <1>6, <1>18, <2>2, QuietOtherwise
  <1> QED
    BY <1>17, <1>18

(* The renderer.                                                           *)
LEMMA HeadOutput ==
  ASSUME Ready, NEW CONSTANT r, output # <<>>, output' = Tail(output)
  PROVE  /\ InOutput(r) <=> InOutput(r)' \/ (Appends(Head(output)) /\ r \in Head(output).requests)
         /\ Appends(Head(output)) /\ r \in Head(output).requests => ~InOutput(r)' /\ r \notin requests
  <1>1. output \in Seq(ResultMsg)
    BY DEF Ready, TypeOK, ChannelTypeOK
  <1>2. TxnsOf(output) = {Head(output)} \cup TxnsOf(output')
    BY <1>1, MembersTail
  <1>3. InOutput(r) <=> InOutput(r)' \/ (Appends(Head(output)) /\ r \in Head(output).requests)
    BY <1>2, PlacesPrimed DEF InOutput
  <1>4. ASSUME Appends(Head(output)), r \in Head(output).requests
        PROVE  ~InOutput(r)' /\ r \notin requests
    <2>1. /\ 1 \in DOMAIN output /\ Head(output) = output[1]
          /\ \A i \in DOMAIN Tail(output) :
               i + 1 \in DOMAIN output /\ Tail(output)[i] = output[i + 1] /\ i + 1 # 1
      BY <1>1
    <2>2. HandedOnce(output, requests)
      BY DEF Ready, NotifyInv, HandedOK
    <2>3. /\ r \notin requests
          /\ \A j \in DOMAIN output : Appends(output[j]) /\ r \in output[j].requests => j = 1
      BY <1>4, <2>1, <2>2 DEF HandedOnce
    <2>4. \A i \in DOMAIN Tail(output) : ~(Appends(Tail(output)[i]) /\ r \in Tail(output)[i].requests)
      BY <2>1, <2>3
    <2> QED
      BY <2>3, <2>4, PlacesPrimed DEF TxnsOf
  <1> QED
    BY <1>3, <1>4

LEMMA RendererMoves ==
  ASSUME Ready, NEW CONSTANT r, Asked(r), Renderer
  PROVE  Quiet(r) \/ Fires(r)
  <1>1. UNCHANGED <<api, highScene, lowScene, sceneResults, rbPc, work>>
    BY DEF Renderer, RendererWake, UpdatePipelineInfo, UpdateDocumentFrame, UpdateNotifications,
       UpdateResources, UpdateDone, Render, backendVars
  <1>2. /\ Early(Mark(r))' <=> Early(Mark(r))
        /\ InResults(r)' <=> InResults(r)
        /\ InWork(r)' <=> InWork(r)
    BY <1>1, SamePlaces
  <1>3. CASE RendererWake \/ UpdateDone
    <2>1. UNCHANGED <<output, requests, fired>>
      BY <1>3 DEF RendererWake, UpdateDone
    <2>2. InOutput(r)' <=> InOutput(r)
      BY <2>1, SamePlaces
    <2> QED
      BY <1>2, <2>1, <2>2, Where DEF Quiet
  <1>4. CASE UpdatePipelineInfo
    <2>1. /\ output # <<>> /\ output' = Tail(output) /\ ~Appends(Head(output))
          /\ UNCHANGED <<requests, fired>>
      BY <1>4 DEF UpdatePipelineInfo, Updates, Appends
    <2> QED
      BY <1>2, <2>1, HeadOutput, Where DEF Quiet
  <1>5. CASE UpdateDocumentFrame \/ UpdateResources
    <2>1. /\ output # <<>> /\ output' = Tail(output) /\ ~Appends(Head(output))
          /\ \E reqs \in SUBSET requests : fired' = fired \cup Fire(reqs) /\ requests' = requests \ reqs
      <3>1. CASE UpdateDocumentFrame
        <4>1. PICK drawn \in BOOLEAN :
                /\ fired' = fired \cup (IF drawn THEN Fire(Uploaded(requests)) ELSE {})
                /\ requests' = IF drawn THEN requests \ Uploaded(requests) ELSE requests
          BY <3>1 DEF UpdateDocumentFrame
        <4>2. PICK reqs : reqs = IF drawn THEN Uploaded(requests) ELSE {}
          OBVIOUS
        <4>3. fired' = fired \cup Fire(reqs) /\ requests' = requests \ reqs /\ reqs \subseteq requests
          BY <4>1, <4>2 DEF Fire, Uploaded
        <4> QED
          BY <3>1, <4>3 DEF UpdateDocumentFrame, Updates, Appends
      <3>2. CASE UpdateResources
        <4>1. Uploaded(requests) \subseteq requests
          BY DEF Uploaded
        <4> QED
          BY <3>2, <4>1 DEF UpdateResources, Updates, Appends
      <3> QED
        BY <1>5, <3>1, <3>2
    <2>2. PICK reqs \in SUBSET requests : fired' = fired \cup Fire(reqs) /\ requests' = requests \ reqs
      BY <2>1
    <2>3. InOutput(r)' <=> InOutput(r)
      BY <2>1, HeadOutput
    <2>4. CASE r \in reqs
      <3>1. Pending(r) /\ ~Pending(r)'
        BY <1>2, <2>2, <2>3, <2>4, Where
      <3> QED
        BY <2>2, <2>4, <3>1, FiresByFire
    <2>5. CASE r \notin reqs
      <3>1. Pending(r)' <=> Pending(r)
        BY <1>2, <2>2, <2>3, <2>5, Where
      <3> QED
        BY <2>2, <2>5, <3>1, QuietOtherwise
    <2> QED
      BY <2>4, <2>5
  <1>6. CASE UpdateNotifications
    <2>1. PICK new : new = Head(output).requests
      OBVIOUS
    <2>2. PICK done : done = IF uploads THEN {} ELSE Uploaded(new)
      OBVIOUS
    <2>3. /\ output # <<>> /\ output' = Tail(output) /\ Appends(Head(output))
          /\ fired' = fired \cup Fire(done) /\ requests' = requests \cup (new \ done)
      BY <1>6, <2>1, <2>2 DEF UpdateNotifications, Updates, Appends
    <2>4. done \subseteq new
      BY <2>2 DEF Uploaded
    <2>5. /\ InOutput(r) <=> InOutput(r)' \/ r \in new
          /\ r \in new => ~InOutput(r)' /\ r \notin requests
      BY <2>1, <2>3, HeadOutput
    <2>6. CASE r \in done
      <3>1. Pending(r) /\ ~Pending(r)'
        BY <1>2, <2>3, <2>4, <2>5, <2>6, Where
      <3> QED
        BY <2>3, <2>6, <3>1, FiresByFire
    <2>7. CASE r \notin done
      <3>1. Pending(r)' <=> Pending(r)
        BY <1>2, <2>3, <2>5, <2>7, Where
      <3> QED
        BY <2>3, <2>7, <3>1, QuietOtherwise
    <2> QED
      BY <2>6, <2>7
  <1>7. CASE Render
    <2>1. PICK done : done = (IF active # {} THEN Uploaded(requests) ELSE {})
                               \cup {q \in requests : q[3] = "FrameRendered"}
      OBVIOUS
    <2>2. /\ fired' = fired \cup Fire(done) \cup Dropped(requests \ done)
          /\ requests' = {} /\ output' = output
      BY <1>7, <2>1 DEF Render
    <2>3. done \subseteq requests
      BY <2>1 DEF Uploaded
    <2>4. InOutput(r)' <=> InOutput(r)
      BY <2>2, SamePlaces
    <2>5. CASE r \in requests
      <3>1. Pending(r) /\ ~Pending(r)'
        BY <1>2, <2>2, <2>4, <2>5, Where
      <3>2. \A f : f[1] = r =>
              (f \in fired' <=> f \in fired \/ f = <<r, IF r \in done THEN r[3] ELSE "TransactionDropped">>)
        <4>1. CASE r \in done
          BY <2>2, <4>1, FireMeans
        <4>2. CASE r \notin done
          BY <2>2, <2>5, <4>2, FireMeans
        <4> QED
          BY <4>1, <4>2
      <3> QED
        BY <3>1, <3>2 DEF Fires
    <2>6. CASE r \notin requests
      <3>1. Pending(r)' <=> Pending(r)
        BY <1>2, <2>2, <2>4, <2>6, Where
      <3>2. \A f : f[1] = r => (f \in fired' <=> f \in fired)
        BY <2>2, <2>3, <2>6, FireMeans
      <3> QED
        BY <3>1, <3>2 DEF Quiet
    <2> QED
      BY <2>5, <2>6
  <1> QED
    BY <1>3, <1>4, <1>5, <1>6, <1>7 DEF Renderer

(* All other steps leave a request where it is, or move it ahead in line.  *)
LEMMA StaysPut ==
  ASSUME Ready, NEW CONSTANT r, Asked(r), UNCHANGED <<work, fired, requests>>,
         rbPc' = "notify" <=> rbPc = "notify",
         Early(Mark(r))' <=> Early(Mark(r)), InResults(r)' <=> InResults(r),
         InOutput(r)' <=> InOutput(r)
  PROVE  Quiet(r)
  <1>1. InWork(r)' <=> InWork(r)
    BY PlacesPrimed DEF InWork, Unsettled
  <1> QED
    BY <1>1, Where DEF Quiet

LEMMA ResultsStay ==
  ASSUME Ready, NEW CONSTANT r,
         \/ sceneResults' = sceneResults
         \/ sceneResults # <<>> /\ sceneResults' = Tail(sceneResults) /\ Head(sceneResults).type # "Transactions"
         \/ \E m : sceneResults' = Append(sceneResults, m) /\ m.type # "Transactions"
  PROVE  InResults(r)' <=> InResults(r)
  <1>t. sceneResults \in Seq(SceneResult)
    BY DEF Ready, TypeOK, ChannelTypeOK
  <1>1. CASE sceneResults' = sceneResults
    BY <1>1, SamePlaces
  <1>2. CASE /\ sceneResults # <<>> /\ sceneResults' = Tail(sceneResults)
             /\ Head(sceneResults).type # "Transactions"
    BY <1>t, <1>2, MembersTail, PlacesPrimed DEF InResults
  <1>3. ASSUME NEW m, sceneResults' = Append(sceneResults, m), m.type # "Transactions"
        PROVE  InResults(r)' <=> InResults(r)
    <2>1. TxnsOf(sceneResults') = TxnsOf(sceneResults) \cup {m}
      BY <1>t, <1>3, MembersAppend
    <2> QED
      BY <1>3, <2>1, PlacesPrimed DEF InResults
  <1> QED
    BY <1>1, <1>2, <1>3

LEMMA EarlyStays ==
  ASSUME Ready, NEW CONSTANT r, Asked(r),
         \/ Stayed \/ Polled \/ Forwarded \/ SentLow \/ SentHigh
         \/ Taken /\ Mark(r) \notin Head(ApiLine)
         \/ Removed /\ Mark(r) \notin Head(HighLine)
         \/ Built /\ Mark(r) \notin Head(HighLine)
         \/ \E e : Arrived(e) /\ Mark(r) \notin e
  PROVE  Early(Mark(r))' <=> Early(Mark(r))
  <1>1. PICK x : x = Mark(r)
    OBVIOUS
  <1>2. LineTypeOK
    BY Where
  <1>3. CASE Stayed \/ Polled \/ Forwarded \/ SentLow \/ SentHigh
    BY <1>1, <1>2, <1>3, EarlyAfter
  <1>4. CASE Taken /\ Mark(r) \notin Head(ApiLine)
    BY <1>1, <1>2, <1>4, EarlyAfter
  <1>5. CASE (Removed \/ Built) /\ Mark(r) \notin Head(HighLine)
    BY <1>1, <1>2, <1>5, EarlyAfter
  <1>6. ASSUME NEW e, Arrived(e), Mark(r) \notin e
        PROVE  Early(Mark(r))' <=> Early(Mark(r))
    BY <1>1, <1>2, <1>6, EarlyAfter
  <1> QED
    BY <1>3, <1>4, <1>5, <1>6

LEMMA NoTxnIn ==
  ASSUME NEW r, NEW m, m.type \notin {"UpdateDocuments", "Transactions"}
  PROVE  Mark(r) \notin MarksOf(m)
  BY TxnIn DEF Mark

LEMMA OutputStays ==
  ASSUME Ready, NEW CONSTANT r, NEW e, ~Appends(e), output' = Append(output, e)
  PROVE  InOutput(r)' <=> InOutput(r)
  <1>1. output \in Seq(ResultMsg)
    BY DEF Ready, TypeOK, ChannelTypeOK
  <1>2. TxnsOf(output') = TxnsOf(output) \cup {e}
    BY <1>1, MembersAppend
  <1> QED
    BY <1>2, PlacesPrimed DEF InOutput

LEMMA ElsewhereMoves ==
  ASSUME Ready, NEW CONSTANT r, Asked(r), Elsewhere, [Next]_vars
  PROVE  Quiet(r) \/ Fires(r)
  <1>1. Stayed /\ UNCHANGED <<api, lowScene, highScene, sceneResults>>
    BY StayedMove
  <1>2. /\ Early(Mark(r))' <=> Early(Mark(r))
        /\ InResults(r)' <=> InResults(r)
    BY <1>1, SamePlaces
  <1>3. CASE SkipTransaction \/ Settle \/ Renderer
    BY <1>3, SkipMoves, SettleMoves, RendererMoves
  <1>4. CASE Publish
    <2>1. /\ output' = Append(output, Head(outbox)) /\ outbox # <<>>
          /\ UNCHANGED <<work, fired, requests, rbPc>>
      BY <1>4 DEF Publish, rendererVars
    <2>2. ~Appends(Head(outbox))
      <3>1. outbox \in Seq(ResultMsg)
        BY DEF Ready, TypeOK, BackendTypeOK
      <3> QED
        BY <2>1, <3>1, MembersTail DEF Ready, NotifyInv, HandedOK
    <2>3. InOutput(r)' <=> InOutput(r)
      BY <2>1, <2>2, OutputStays
    <2> QED
      BY <1>2, <2>1, <2>3, StaysPut
  <1>5. CASE NewFrameReady
    <2>1. /\ rbPc = "notify" /\ rbPc' # "notify" /\ work' = Tail(work)
          /\ UNCHANGED <<output, requests, fired>>
      BY <1>5 DEF NewFrameReady, At, NextTransaction, rendererVars
    <2>2. InWork(r)' <=> InWork(r)
      BY <2>1, PlacesPrimed DEF InWork, Unsettled
    <2>3. InOutput(r)' <=> InOutput(r)
      BY <2>1, SamePlaces
    <2> QED
      BY <1>2, <2>1, <2>2, <2>3, Where DEF Quiet
  <1>6. CASE ~(SkipTransaction \/ Settle \/ Renderer \/ Publish \/ NewFrameReady)
    <2>1. UNCHANGED <<work, fired, requests, output>>
      BY <1>6 DEF Elsewhere, PollNothing, NopDocument, SwapAndWait, UpdateTransaction,
         ResumeAndUpdate, ReceiveSwap, PostSceneSwap, Rest, vars, backendVars, rendererVars
    <2>2. rbPc' = "notify" <=> rbPc = "notify"
      BY <1>6, Notifying
    <2>3. InOutput(r)' <=> InOutput(r)
      BY <2>1, SamePlaces
    <2> QED
      BY <1>2, <2>1, <2>2, <2>3, StaysPut
  <1> QED
    BY <1>3, <1>4, <1>5, <1>6

LEMMA RequestMoves ==
  ASSUME Ready, NEW CONSTANT r, Asked(r), [Next]_vars
  PROVE  Quiet(r) \/ Fires(r)
  <1>q. TypeOK /\ r[1] \in 1..sends /\ sends \in Nat
    BY Where DEF Ready, TypeOK, ClientTypeOK
  <1>t. /\ sceneResults \in Seq(SceneResult) /\ highScene \in Seq(SceneRequest)
        /\ api \in Seq(ApiMsg)
    BY DEF Ready, TypeOK, ChannelTypeOK
  <1> DEFINE Rests == UNCHANGED <<work, fired, requests, output>>
  <1>n. ASSUME Rests, Early(Mark(r))' <=> Early(Mark(r)), InResults(r)' <=> InResults(r),
               ~Settle, ~NewFrameReady
        PROVE  Quiet(r)
    <2>1. rbPc' = "notify" <=> rbPc = "notify"
      BY <1>n, Notifying
    <2>2. InOutput(r)' <=> InOutput(r)
      BY <1>n, SamePlaces
    <2> QED
      BY <1>n, <2>1, <2>2, StaysPut
  <1>1. CASE (\E m \in Menu : Send(m)) \/ (\E c \in Clients : Flush(c))
    <2>1. \E e : Arrived(e) /\ Mark(r) \notin e
      <3>1. CASE \E m \in Menu : Send(m)
        <4>1. PICK m \in Menu : Send(m)
          BY <3>1
        <4>2. Arrived(MarksOf(Numbered(m, sends + 1)))
          BY <1>q, <4>1, ClientMove
        <4>3. Mark(r) \in MarksOf(Numbered(m, sends + 1)) => r[1] = sends + 1
          BY <1>q, MenuTxn DEF Mark
        <4> QED
          BY <1>q, <4>2, <4>3
      <3>2. CASE \E c \in Clients : Flush(c)
        <4>1. PICK c \in Clients : Arrived({<<"flush", 0, c>>})
          BY <1>q, <3>2, ClientMove
        <4> QED
          BY <4>1 DEF Mark
      <3> QED
        BY <1>1, <3>1, <3>2
    <2>2. Rests /\ sceneResults' = sceneResults /\ rbPc' = rbPc
      BY <1>1 DEF Send, Flush, backendVars, rendererVars
    <2>3. Early(Mark(r))' <=> Early(Mark(r))
      BY <2>1, EarlyStays
    <2>4. InOutput(r)' <=> InOutput(r)
      BY <2>2, SamePlaces
    <2> QED
      BY <2>2, <2>3, <2>4, ResultsStay, StaysPut
  <1>2. CASE PollTransactions
    BY <1>2, PollKeeps
  <1>3. CASE PollFlushComplete \/ PollClearNamespace
    <2>1. /\ sceneResults # <<>> /\ sceneResults' = Tail(sceneResults)
          /\ Head(sceneResults).type # "Transactions" /\ Rests
      BY <1>3 DEF PollFlushComplete, PollClearNamespace, backendVars, rendererVars
    <2>2. Polled
      BY <1>3, <1>q, PolledMove
    <2>3. ~Settle /\ ~NewFrameReady
      BY <1>3 DEF PollFlushComplete, PollClearNamespace, At, Settle, NewFrameReady
    <2> QED
      BY <1>n, <2>1, <2>2, <2>3, EarlyStays, ResultsStay
  <1>4. CASE Discard
    BY <1>4, DiscardMoves
  <1>5. CASE ReceiveForBackend
    BY <1>5, TakeKeeps
  <1>6. CASE ReceiveForSceneBuilder \/ Forwards
    <2>1. Rests /\ sceneResults' = sceneResults
      BY <1>6 DEF ReceiveForSceneBuilder, Forwards, ReceiveDeleteDocument, ReceiveForwarded,
         ReceiveShutDown, rendererVars
    <2>2. SentHigh \/ SentLow
      BY <1>6, <1>q, ForwardMove DEF Forwards
    <2>3. ~Settle /\ ~NewFrameReady
      BY <1>6 DEF ReceiveForSceneBuilder, Forwards, ReceiveDeleteDocument, ReceiveForwarded,
         ReceiveShutDown, Receives, At, Settle, NewFrameReady
    <2> QED
      BY <1>n, <2>1, <2>2, <2>3, EarlyStays, ResultsStay
  <1>7. CASE Takes
    <2>1. /\ UNCHANGED <<work, fired, requests, sceneResults>> /\ rbPc = "api" /\ rbPc' = "poll"
          /\ Head(api).type \notin {"UpdateDocuments", "Transactions"}
      BY <1>7 DEF Takes, ReceiveAddDocument, ReceiveMemoryPressure, ReceiveWakeUp, rendererVars,
         Receives, At
    <2>2. Taken /\ Head(ApiLine) = MarksOf(Head(api))
      BY <1>7, <1>q, TakenMove DEF Takes
    <2>3. Mark(r) \notin Head(ApiLine)
      BY <2>1, <2>2, NoTxnIn
    <2>4. InOutput(r)' <=> InOutput(r)
      <3>1. CASE output' = output
        BY <3>1, SamePlaces
      <3>2. CASE ReceiveMemoryPressure
        <4>1. PICK e : e = [type |-> "UpdateResources"]
          OBVIOUS
        <4>2. output' = Append(output, e) /\ ~Appends(e)
          BY <3>2, <4>1 DEF ReceiveMemoryPressure, Appends
        <4> QED
          BY <4>2, OutputStays
      <3> QED
        BY <1>7, <3>1, <3>2 DEF Takes, ReceiveAddDocument, ReceiveWakeUp
    <2> QED
      BY <2>1, <2>2, <2>3, <2>4, EarlyStays, ResultsStay, StaysPut
  <1>8. CASE Stopped
    BY <1>8, StoppedMoves
  <1>9. CASE LowForward \/ WakeBackend
    <2>1. Rests /\ sceneResults' = sceneResults /\ rbPc' = rbPc
      BY <1>9 DEF LowForward, WakeBackend, backendVars, rendererVars
    <2>2. Forwarded \/ Stayed \/ Arrived({})
      BY <1>9, <1>q, OtherMoves
    <2>3. Early(Mark(r))' <=> Early(Mark(r))
      BY <2>2, EarlyStays
    <2>4. InOutput(r)' <=> InOutput(r)
      BY <2>1, SamePlaces
    <2> QED
      BY <2>1, <2>3, <2>4, ResultsStay, StaysPut
  <1>10. CASE BuildTransactions
    BY <1>10, BuildMoves
  <1>11. CASE Builds
    <2>1. /\ Rests /\ rbPc' = rbPc
          /\ Head(highScene).type \notin {"UpdateDocuments", "Transactions"}
          /\ \E m : sceneResults' = Append(sceneResults, m) /\ m.type # "Transactions"
      BY <1>11 DEF Builds, BuilderFlush, BuilderClearNamespace, BuilderStop, backendVars,
         rendererVars
    <2>2. Built /\ Head(HighLine) = MarksOf(Head(highScene))
      BY <1>11, <1>q, BuiltMove DEF Builds
    <2>3. Mark(r) \notin Head(HighLine)
      BY <2>1, <2>2, NoTxnIn
    <2>4. Early(Mark(r))' <=> Early(Mark(r))
      BY <2>2, <2>3, EarlyStays
    <2>5. InOutput(r)' <=> InOutput(r)
      BY <2>1, SamePlaces
    <2> QED
      BY <2>1, <2>4, <2>5, ResultsStay, StaysPut
  <1>12. CASE BuilderDeleteDocument
    <2>1. /\ Rests /\ rbPc' = rbPc /\ sceneResults' = sceneResults
          /\ Head(highScene).type \notin {"UpdateDocuments", "Transactions"}
      BY <1>12 DEF BuilderDeleteDocument, backendVars, rendererVars
    <2>2. Removed /\ Head(HighLine) = MarksOf(Head(highScene))
      BY <1>12, <1>q, OtherMoves
    <2>3. Mark(r) \notin Head(HighLine)
      BY <2>1, <2>2, NoTxnIn
    <2>4. Early(Mark(r))' <=> Early(Mark(r))
      BY <2>2, <2>3, EarlyStays
    <2>5. InOutput(r)' <=> InOutput(r)
      BY <2>1, SamePlaces
    <2> QED
      BY <2>1, <2>4, <2>5, ResultsStay, StaysPut
  <1>13. CASE Elsewhere
    BY <1>13, ElsewhereMoves
  <1> QED
    BY <1>1, <1>2, <1>3, <1>4, <1>5, <1>6, <1>7, <1>8, <1>9, <1>10, <1>11, <1>12, <1>13, Steps

(* A request is notified once, whatever happens to it.                     *)
LEMMA OnceStep ==
  ASSUME Ready, [Next]_vars
  PROVE  Once'
  <1>q. TypeOK /\ NumbersOK /\ FiredOK /\ Once /\ sends \in Nat
    BY DEF Ready, LineInv, NotifyInv, TypeOK, ClientTypeOK
  <1> SUFFICES ASSUME NEW CONSTANT t, t \in sent', NEW CONSTANT r \in RequestsOf(t)
               PROVE  IF Pending(r)' THEN NotYet(r)' ELSE Notified(r)'
    BY DEF Once, RequestsOf
  <1>1. CASE t \in sent
    <2>1. Asked(r)
      BY <1>1 DEF Asked
    <2>2. IF Pending(r) THEN NotYet(r) ELSE Notified(r)
      BY <1>1, <1>q DEF Once
    <2>3. CASE Quiet(r)
      <3>1. \A f : f[1] = r => (f \in fired' <=> f \in fired)
        BY <2>3 DEF Quiet
      <3>2. NotYet(r)' <=> NotYet(r)
        BY <3>1 DEF NotYet
      <3>3. Notified(r)' <=> Notified(r)
        BY <3>1 DEF Notified
      <3> QED
        BY <2>2, <2>3, <3>2, <3>3 DEF Quiet
    <2>4. CASE Fires(r)
      <3>1. PICK o : \A f : f[1] = r => (f \in fired' <=> f \in fired \/ f = <<r, o>>)
        BY <2>4 DEF Fires
      <3>2. NotYet(r) /\ ~Pending(r)'
        BY <2>2, <2>4 DEF Fires
      <3>3. \A f : f[1] = r => (f \in fired' <=> f = <<r, o>>)
        BY <3>1, <3>2 DEF NotYet
      <3>4. Notified(r)'
        BY <3>3 DEF Notified
      <3> QED
        BY <3>2, <3>4
    <2> QED
      BY <2>1, <2>3, <2>4, RequestMoves
  <1>2. CASE t \notin sent
    <2>1. PICK m \in Menu : Send(m)
      BY <1>2, NotSent DEF Flush
    <2>2. m.type = "UpdateDocuments" /\ t \in TxnsOf(Numbered(m, sends + 1).txns)
      BY <1>2, <2>1 DEF Send
    <2>3. PICK txns : txns = Numbered(m, sends + 1).txns
      OBVIOUS
    <2>4. t.id = sends + 1
      BY <1>q, <2>2, <2>3, NumberedBatch
    <2>5. r[1] = sends + 1 /\ r[2] = t.doc
      BY <2>4 DEF RequestsOf
    <2>6. NotYet(r)'
      <3>1. fired' = fired
        BY <2>1 DEF Send
      <3> QED
        BY <1>q, <2>5, <3>1 DEF NotYet, FiredOK
    <2>7. Early(Mark(r))'
      <3>1. PICK x : x = Mark(r)
        OBVIOUS
      <3>2. PICK e : e = MarksOf(Numbered(m, sends + 1))
        OBVIOUS
      <3>3. x \in e
        <4>1. Numbered(m, sends + 1).type = "UpdateDocuments"
          BY <2>2 DEF Numbered
        <4>2. MarksOf(Numbered(m, sends + 1)) = {TxnMark(u) : u \in TxnsOf(Numbered(m, sends + 1).txns)}
          BY <4>1 DEF MarksOf
        <4>3. TxnMark(t) = Mark(r)
          BY <2>4, <2>5 DEF TxnMark, Mark
        <4> QED
          BY <2>2, <3>1, <3>2, <4>2, <4>3
      <3>4. Arrived(e)
        BY <1>q, <2>1, <3>2, ClientMove
      <3>5. Early(x)'
        BY <1>q, <3>3, <3>4, EarlyAfter, LineTypes DEF TypeOK
      <3> QED
        BY <3>1, <3>5
    <2>8. Pending(r)'
      BY <2>7 DEF Pending, Mark
    <2> QED
      BY <2>6, <2>8
  <1> QED
    BY <1>1, <1>2

LEMMA NotifyStart == Init => NotifyInv
  <1> SUFFICES ASSUME Init PROVE NotifyInv
    OBVIOUS
  <1>1. MarksOnce /\ BuiltOK /\ HandedOK /\ FiredOK /\ Once
    <2>1. sends = 0 /\ work = <<>> /\ sceneResults = <<>> /\ output = <<>> /\ outbox = <<>>
          /\ requests = {} /\ fired = {} /\ sent = {}
      BY DEF Init
    <2>2. MarksOnce
      BY <2>1 DEF MarksOnce
    <2>3. BuiltOK
      BY <2>1 DEF BuiltOK, OnePerDocument, TxnsOf
    <2>4. HandedOK
      BY <2>1 DEF HandedOK, HandedOnce, TxnsOf
    <2>5. FiredOK /\ Once
      BY <2>1 DEF FiredOK, Once
    <2> QED
      BY <2>2, <2>3, <2>4, <2>5
  <1> QED
    BY <1>1 DEF NotifyInv

LEMMA NotifyStep ==
  ASSUME TypeOK, HandshakeInv, LineInv, NotifyInv, [Next]_vars
  PROVE  NotifyInv'
  <1>1. MarksOnce'
    BY MarksOnceStep DEF LineInv, NotifyInv
  <1>2. BuiltOK'
    BY BuiltStep DEF LineInv, NotifyInv
  <1>3. HandedOK'
    BY HandedStep DEF LineInv, NotifyInv
  <1>4. FiredOK'
    BY FiredStep DEF LineInv, NotifyInv
  <1>5. Once'
    BY OnceStep DEF Ready
  <1> QED
    BY <1>1, <1>2, <1>3, <1>4, <1>5 DEF NotifyInv

(* What is on its way is what is pending.                                  *)
LEMMA OnTheWayIsPending ==
  ASSUME TypeOK, LineInv, NEW CONSTANT r, Asked(r)
  PROVE  r \in OnTheWay <=> Pending(r)
  <1> DEFINE Batched(queue) ==
        \E m \in TxnsOf(queue) : m.type \in {"UpdateDocuments", "Transactions"} /\
                                  \E u \in TxnsOf(m.txns) : r \in RequestsOf(u)
  <1>1. r \in OnTheWay <=> \/ Batched(api) \/ Batched(lowScene) \/ Batched(highScene)
                           \/ \E m \in TxnsOf(sceneResults) :
                                m.type \in {"UpdateDocuments", "Transactions"} /\ Carries(m.txns, r)
                           \/ InWork(r) \/ InOutput(r) \/ r \in requests
    <2> DEFINE batches(queue) == UNION {TxnsOf(m.txns) : m \in
                             {m \in TxnsOf(queue) : m.type \in {"UpdateDocuments", "Transactions"}}}
               first   == UNION {RequestsOf(u) : u \in batches(api) \cup batches(lowScene) \cup batches(highScene)}
               second  == UNION {RequestsOf(u) : u \in {b.txn : b \in batches(sceneResults) \cup TxnsOf(Unsettled)}}
               third   == UNION {m.requests : m \in {m \in TxnsOf(output) :
                                      m.type = "AppendNotificationRequests"}}
    <2>1. OnTheWay = first \cup second \cup requests \cup third
      BY DEF OnTheWay, Unsettled
    <2>2. r \in first <=> Batched(api) \/ Batched(lowScene) \/ Batched(highScene)
      <3>1. ASSUME NEW queue
            PROVE  Batched(queue) <=> \E u \in batches(queue) : r \in RequestsOf(u)
        OBVIOUS
      <3> HIDE DEF batches, Batched
      <3> QED
        BY <3>1
    <2>3. r \in second <=> \/ \E m \in TxnsOf(sceneResults) :
                                m.type \in {"UpdateDocuments", "Transactions"} /\ Carries(m.txns, r)
                           \/ InWork(r)
      <3>1. (\E b \in batches(sceneResults) : r \in RequestsOf(b.txn)) <=>
              \E m \in TxnsOf(sceneResults) :
                m.type \in {"UpdateDocuments", "Transactions"} /\ Carries(m.txns, r)
        BY DEF Carries
      <3> HIDE DEF batches
      <3> QED
        BY <3>1 DEF InWork, Carries
    <2>4. r \in third <=> InOutput(r)
      BY DEF InOutput, Appends
    <2> HIDE DEF Batched, first, second, third
    <2> QED
      BY <2>1, <2>2, <2>3, <2>4
  <1>2. \A m \in TxnsOf(sceneResults) : m.type # "UpdateDocuments"
    <2>1. \A m \in TxnsOf(sceneResults) : m \in SceneResult
      BY MembersType DEF TypeOK, ChannelTypeOK
    <2> QED
      BY <2>1 DEF SceneResult
  <1>3. ASSUME NEW queue,
               \A m \in TxnsOf(queue) : m.type \in {"UpdateDocuments", "Transactions"} =>
                 \E k \in 1..sends : IsBatchOf(m.txns, k)
        PROVE  Batched(queue) <=> Has(Marked(queue), Mark(r))
    <2>1. Has(Marked(queue), Mark(r)) <=> \E m \in TxnsOf(queue) : Mark(r) \in MarksOf(m)
      BY DEF Has, Marked, TxnsOf
    <2>2. ASSUME NEW m \in TxnsOf(queue)
          PROVE  Mark(r) \in MarksOf(m) <=>
                   m.type \in {"UpdateDocuments", "Transactions"} /\
                   \E u \in TxnsOf(m.txns) : r \in RequestsOf(u)
      <3>1. CASE m.type \in {"UpdateDocuments", "Transactions"}
        <4>1. PICK k \in 1..sends : IsBatchOf(m.txns, k)
          BY <1>3, <3>1
        <4> QED
          BY <3>1, <4>1, BatchHas DEF LineInv
      <3>2. CASE m.type \notin {"UpdateDocuments", "Transactions"}
        BY <3>2, NoTxnIn
      <3> QED
        BY <3>1, <3>2
    <2> QED
      BY <2>1, <2>2
  <1>4. Batched(api) <=> Has(ApiLine, Mark(r))
    <2>1. \A m \in TxnsOf(api) : m.type # "Transactions"
      <3>1. \A m \in TxnsOf(api) : m \in ApiMsg
        BY MembersType DEF TypeOK, ChannelTypeOK
      <3> QED
        BY <3>1 DEF ApiMsg
    <2>2. \A m \in TxnsOf(api) : m.type \in {"UpdateDocuments", "Transactions"} =>
                 \E k \in 1..sends : IsBatchOf(m.txns, k)
      BY <2>1 DEF LineInv, BatchesWhole
    <2> QED
      BY <1>3, <2>2 DEF ApiLine
  <1>5. ASSUME NEW queue \in {lowScene, highScene}
        PROVE  \A m \in TxnsOf(queue) : m.type \in {"UpdateDocuments", "Transactions"} =>
                 \E k \in 1..sends : IsBatchOf(m.txns, k)
    <2>1. \A m \in TxnsOf(queue) : m \in SceneRequest
      BY MembersType DEF TypeOK, ChannelTypeOK
    <2>2. \A m \in TxnsOf(queue) : m.type # "UpdateDocuments"
      BY <2>1 DEF SceneRequest
    <2> QED
      BY <2>2 DEF LineInv, BatchesWhole
  <1>6. Batched(lowScene) <=> Has(LowLine, Mark(r))
    BY <1>3, <1>5 DEF LowLine
  <1>7. Batched(highScene) <=> Has(HighLine, Mark(r))
    BY <1>3, <1>5 DEF HighLine
  <1> HIDE DEF Batched
  <1>8. Pending(r) <=> \/ Early(Mark(r)) \/ InResults(r) \/ InWork(r)
                       \/ InOutput(r) \/ r \in requests
    BY DEF Pending, Mark
  <1> QED
    BY <1>1, <1>2, <1>4, <1>6, <1>7, <1>8 DEF Early, InScene, InResults

(* A notification request is notified exactly once: it is on its way, or   *)
(* one checkpoint has notified it, never both nor neither, for any clients *)
(* and batches, through skipped transactions, frames that replace others,  *)
(* memory pressure and shutdown (Checkpoint::TransactionDropped).          *)
THEOREM NotifiedExactlyOnce == Spec => []NotifiedOnce
  <1>1. Init => NotifyInv
    BY NotifyStart
  <1>2. TypeOK /\ HandshakeInv /\ LineInv /\ NotifyInv /\ [Next]_vars => NotifyInv'
    BY NotifyStep
  <1>3. ASSUME TypeOK, LineInv, NotifyInv PROVE NotifiedOnce
    <2> SUFFICES ASSUME NEW CONSTANT t, t \in sent, NEW CONSTANT r \in RequestsOf(t)
                 PROVE  IF r \in OnTheWay THEN {f \in fired : f[1] = r} = {}
                        ELSE Cardinality({f \in fired : f[1] = r}) = 1
      BY DEF NotifiedOnce
    <2>1. r \in OnTheWay <=> Pending(r)
      BY <1>3, OnTheWayIsPending DEF Asked
    <2>2. IF Pending(r) THEN NotYet(r) ELSE Notified(r)
      BY <1>3 DEF NotifyInv, Once
    <2>3. NotYet(r) => {f \in fired : f[1] = r} = {}
      BY DEF NotYet
    <2>4. ASSUME Notified(r) PROVE Cardinality({f \in fired : f[1] = r}) = 1
      <3>1. PICK o : <<r, o>> \in fired /\ \A f \in fired : f[1] = r => f = <<r, o>>
        BY <2>4 DEF Notified
      <3>2. {f \in fired : f[1] = r} = {<<r, o>>}
        BY <3>1
      <3>3. Cardinality({<<r, o>>}) = 1
        BY FS_Singleton
      <3> QED
        BY <3>2, <3>3
    <2> QED
      BY <2>1, <2>2, <2>3, <2>4
  <1> QED
    BY <1>1, <1>2, <1>3, InLineAlways, PTL DEF Spec

-----------------------------------------------------------------------------
(* What the renderer will have, once it has taken the messages on their    *)
(* way: the last one that is about the frame of a document counts.         *)
OfFrame(m, d) == \/ m.type = "UpdateResources"
                 \/ m.type = "PublishDocument" /\ m.doc = d

Silent(queue, d) == \A m \in TxnsOf(queue) : ~OfFrame(m, d)

Shows(queue, d, lists) ==
  \E i \in DOMAIN queue :
    /\ queue[i].type = "PublishDocument" /\ queue[i].doc = d /\ queue[i].lists = lists
    /\ \A j \in DOMAIN queue : i < j => ~OfFrame(queue[j], d)

Showing(d, lists) ==
  \/ Shows(output, d, lists)
  \/ Silent(output, d) /\ d \in active /\ frame[d] = lists

WillShow(d, lists) == Shows(outbox, d, lists) \/ (Silent(outbox, d) /\ Showing(d, lists))

(* A document that the frame builder must still build a frame for.         *)
InTxns(txns, d) == \E b \in TxnsOf(txns) : b.txn.doc = d

Owed(d) ==
  /\ required
  /\ rbPc = "apply" => d \in nops \/ InTxns(work, d)
  /\ rbPc = "resume" => InTxns(work, d)
  /\ rbPc \in {"settle", "notify"} => InTxns(Tail(work), d)

Renderable(txns) ==
  \A b \in TxnsOf(txns) : b.built # EmptyScene => HasRootPipeline(b.built)

ScenesRender ==
  /\ Renderable(work)
  /\ \A r \in TxnsOf(sceneResults) : r.type = "Transactions" => Renderable(r.txns)

FrameOwner(d) ==
  /\ docs[d].frameValid => CanRender(docs[d])
  /\ d \notin alive => ~CanRender(docs[d])

FrameInv ==
  /\ ScenesRender
  /\ \A d \in Docs : FrameOwner(d)
  /\ \A d \in alive : docs[d].frameValid => WillShow(d, docs[d].scene.lists) \/ Owed(d)

LEMMA SilentTail ==
  ASSUME NEW S, NEW q \in Seq(S), q # <<>>, NEW d, NEW lists
  PROVE  /\ Silent(q, d) <=> ~OfFrame(Head(q), d) /\ Silent(Tail(q), d)
         /\ Shows(q, d, lists) =>
              \/ Shows(Tail(q), d, lists)
              \/ /\ Head(q).type = "PublishDocument" /\ Head(q).doc = d
                 /\ Head(q).lists = lists /\ Silent(Tail(q), d)
  <1>1. TxnsOf(q) = {Head(q)} \cup TxnsOf(Tail(q))
    BY MembersTail
  <1>2. /\ 1 \in DOMAIN q /\ Head(q) = q[1]
        /\ \A i \in DOMAIN Tail(q) : /\ i + 1 \in DOMAIN q /\ Tail(q)[i] = q[i + 1] /\ 1 < i + 1
                                     /\ \A j \in DOMAIN Tail(q) : i < j => i + 1 < j + 1
        /\ \A i \in DOMAIN q : i # 1 => i - 1 \in DOMAIN Tail(q) /\ Tail(q)[i - 1] = q[i]
        /\ \A i \in DOMAIN q, j \in DOMAIN Tail(q) : i # 1 /\ i - 1 < j => i < j + 1
    OBVIOUS
  <1>3. ASSUME Shows(q, d, lists)
        PROVE  \/ Shows(Tail(q), d, lists)
               \/ /\ Head(q).type = "PublishDocument" /\ Head(q).doc = d
                  /\ Head(q).lists = lists /\ Silent(Tail(q), d)
    <2>1. PICK i \in DOMAIN q :
            /\ q[i].type = "PublishDocument" /\ q[i].doc = d /\ q[i].lists = lists
            /\ \A j \in DOMAIN q : i < j => ~OfFrame(q[j], d)
      BY <1>3 DEF Shows
    <2>2. CASE i = 1
      <3>1. \A j \in DOMAIN Tail(q) : ~OfFrame(Tail(q)[j], d)
        BY <1>2, <2>1, <2>2
      <3> QED
        BY <1>2, <2>1, <2>2, <3>1 DEF Silent, TxnsOf
    <2>3. CASE i # 1
      <3>1. i - 1 \in DOMAIN Tail(q) /\ Tail(q)[i - 1] = q[i]
        BY <1>2, <2>3
      <3>2. \A j \in DOMAIN Tail(q) : i - 1 < j => ~OfFrame(Tail(q)[j], d)
        BY <1>2, <2>1, <2>3
      <3> QED
        BY <2>1, <3>1, <3>2 DEF Shows
    <2> QED
      BY <2>2, <2>3
  <1> QED
    BY <1>1, <1>3 DEF Silent

LEMMA SilentAppend ==
  ASSUME NEW S, NEW q \in Seq(S), NEW e, NEW d, NEW lists
  PROVE  /\ Silent(Append(q, e), d) <=> Silent(q, d) /\ ~OfFrame(e, d)
         /\ Shows(q, d, lists) /\ ~OfFrame(e, d) => Shows(Append(q, e), d, lists)
         /\ e.type = "PublishDocument" /\ e.doc = d /\ e.lists = lists =>
              Shows(Append(q, e), d, lists)
  <1>1. TxnsOf(Append(q, e)) = TxnsOf(q) \cup {e}
    BY MembersAppend
  <1>2. /\ DOMAIN Append(q, e) = 1..(Len(q) + 1) /\ DOMAIN q = 1..Len(q) /\ Len(q) \in Nat
        /\ \A i \in 1..(Len(q) + 1) : Append(q, e)[i] = IF i = Len(q) + 1 THEN e ELSE q[i]
        /\ \A i \in 1..(Len(q) + 1) : i # Len(q) + 1 => i \in 1..Len(q)
        /\ \A i \in 1..Len(q) : i \in 1..(Len(q) + 1) /\ i # Len(q) + 1
        /\ Len(q) + 1 \in 1..(Len(q) + 1)
        /\ \A i \in 1..(Len(q) + 1) : ~(Len(q) + 1 < i)
    OBVIOUS
  <1>3. ASSUME Shows(q, d, lists), ~OfFrame(e, d) PROVE Shows(Append(q, e), d, lists)
    <2>1. PICK i \in DOMAIN q :
            /\ q[i].type = "PublishDocument" /\ q[i].doc = d /\ q[i].lists = lists
            /\ \A j \in DOMAIN q : i < j => ~OfFrame(q[j], d)
      BY <1>3 DEF Shows
    <2>2. i \in DOMAIN Append(q, e) /\ Append(q, e)[i] = q[i]
      BY <1>2
    <2>3. \A j \in DOMAIN Append(q, e) : i < j => ~OfFrame(Append(q, e)[j], d)
      BY <1>2, <1>3, <2>1
    <2> QED
      BY <2>1, <2>2, <2>3 DEF Shows
  <1>4. ASSUME e.type = "PublishDocument", e.doc = d, e.lists = lists
        PROVE  Shows(Append(q, e), d, lists)
    <2>1. Append(q, e)[Len(q) + 1] = e /\ Len(q) + 1 \in DOMAIN Append(q, e)
      BY <1>2
    <2>2. \A j \in DOMAIN Append(q, e) : ~(Len(q) + 1 < j)
      BY <1>2
    <2> QED
      BY <1>4, <2>1, <2>2 DEF Shows
  <1> QED
    BY <1>1, <1>3, <1>4 DEF Silent

LEMMA NothingShown ==
  ASSUME NEW d
  PROVE  Silent(<<>>, d) /\ \A lists : ~Shows(<<>>, d, lists)
  BY DEF Silent, Shows, TxnsOf

(* What update_document sends about the frame: it if it builds one.        *)
LEMMA PublishedFrame ==
  ASSUME NEW old, NEW t, NEW d
  PROVE  /\ BuildsFrame(old, t, required) =>
              Shows(Published(old, t), t.doc, ApplyFrameOps(old, t).scene.lists)
         /\ ~BuildsFrame(old, t, required) \/ d # t.doc => Silent(Published(old, t), d)
  <1> DEFINE doc == ApplyFrameOps(old, t)
             i   == [type |-> "PublishPipelineInfo", doc |-> t.doc,
                     epochs |-> doc.scene.epochs, removed |-> doc.removed]
             p   == [type |-> "PublishDocument", doc |-> t.doc, lists |-> doc.scene.lists]
             q   == IF PublishesInfo(old, t, required) THEN <<i>> ELSE <<>>
  <1>1. Published(old, t) = q \o (IF BuildsFrame(old, t, required) THEN <<p>> ELSE <<>>)
    BY DEF Published
  <1>2. /\ ~OfFrame(i, d) /\ (d # t.doc => ~OfFrame(p, d))
        /\ p.type = "PublishDocument" /\ p.doc = t.doc /\ p.lists = doc.scene.lists
    BY DEF OfFrame
  <1>q. q = <<>> \/ q = <<i>>
    OBVIOUS
  <1> HIDE DEF i, p, q
  <1>3. q \in Seq({i, p}) /\ Silent(q, d)
    <2>1. CASE q = <<>>
      BY <2>1, NothingShown
    <2>2. CASE q = <<i>>
      <3>1. TxnsOf(q) = {i}
        BY <2>2 DEF TxnsOf
      <3>2. Silent(q, d)
        BY <1>2, <3>1 DEF Silent
      <3>3. q \in Seq({i, p})
        BY <2>2
      <3> QED
        BY <3>2, <3>3
    <2> QED
      BY <1>q, <2>1, <2>2
  <1>4. CASE BuildsFrame(old, t, required)
    <2>1. Published(old, t) = Append(q, p)
      BY <1>1, <1>3, <1>4
    <2>2. Shows(Append(q, p), t.doc, doc.scene.lists)
      BY <1>2, <1>3, SilentAppend
    <2>3. Silent(Append(q, p), d) <=> Silent(q, d) /\ ~OfFrame(p, d)
      BY <1>3, SilentAppend
    <2> QED
      BY <1>2, <1>3, <1>4, <2>1, <2>2, <2>3
  <1>5. CASE ~BuildsFrame(old, t, required)
    <2>1. Published(old, t) = q
      BY <1>1, <1>3, <1>5
    <2> QED
      BY <1>3, <1>5, <2>1
  <1> QED
    BY <1>4, <1>5

(* What update_document does to a document.                                *)
LEMMA UpdateMeans ==
  ASSUME NEW old \in Document, NEW t \in Transaction, NEW r \in BOOLEAN
  PROVE  /\ ApplyFrameOps(old, t).scene.lists = old.scene.lists
         /\ UpdatedDocument(old, t, r).scene.lists = old.scene.lists
         /\ CanRender(UpdatedDocument(old, t, r)) <=> CanRender(old)
         /\ BuildsFrame(old, t, r) => CanRender(old)
         /\ r /\ CanRender(old) => BuildsFrame(old, t, r)
         /\ UpdatedDocument(old, t, r).frameValid => old.frameValid \/ BuildsFrame(old, t, r)
         /\ UpdatedDocument(old, t, r).removed =
              IF PublishesInfo(old, t, r) THEN {} ELSE old.removed
         /\ ApplyFrameOps(old, t).removed = old.removed
  <1> DEFINE a == ApplyFrameOps(old, t)
             u == UpdatedDocument(old, t, r)
  <1>1. /\ a.scene.lists = old.scene.lists /\ a.scene.root = old.scene.root
        /\ a.removed = old.removed /\ (a.frameValid => old.frameValid)
        /\ a \in Document
    <2>1. PICK s \in Scene : old.scene = s
      BY DEF Document
    <2>2. a.scene.lists = s.lists /\ a.scene.root = s.root
      BY <2>1 DEF ApplyFrameOps, Document, Scene
    <2>3. a.removed = old.removed
      BY DEF ApplyFrameOps, Document
    <2>4. a.frameValid => old.frameValid
      BY DEF ApplyFrameOps, Document
    <2> QED
      BY <2>1, <2>2, <2>3, <2>4, FrameOpsType, Zenon
  <1>2. /\ u.scene = a.scene /\ u.frameValid = (a.frameValid \/ BuildsFrame(old, t, r))
        /\ u.removed = IF PublishesInfo(old, t, r) THEN {} ELSE a.removed
    BY <1>1 DEF UpdatedDocument, Document
  <1>3. CanRender(a) <=> CanRender(old)
    BY <1>1 DEF CanRender, HasRootPipeline
  <1>4. CanRender(u) <=> CanRender(a)
    BY <1>2 DEF CanRender
  <1>5. BuildsFrame(old, t, r) => CanRender(a)
    BY DEF BuildsFrame
  <1>6. r /\ CanRender(a) => BuildsFrame(old, t, r)
    BY DEF BuildsFrame
  <1> QED
    BY <1>1, <1>2, <1>3, <1>4, <1>5, <1>6

(* What swapping the scene does to a document.                             *)
LEMMA SwapMeans ==
  ASSUME NEW old \in Document, NEW t \in Transaction, NEW b \in Scene
  PROVE  /\ SwapScene(old, t, b).removed = old.removed \cup t.removes
         /\ b = EmptyScene => /\ SwapScene(old, t, b).scene = old.scene
                              /\ SwapScene(old, t, b).frameValid = old.frameValid
         /\ b # EmptyScene => /\ SwapScene(old, t, b).scene = b
                              /\ SwapScene(old, t, b).frameValid = FALSE
  BY DEF SwapScene, Document

-----------------------------------------------------------------------------
(* The steps, by what they change of this.                                 *)
Idle ==
  /\ UNCHANGED <<docs, alive, work, nops, required, outbox, output, active, frame, sceneResults>>
  /\ rbPc' = rbPc \/ rbPc' \notin {"apply", "resume", "settle", "notify"}

Draws == \/ UpdatePipelineInfo \/ UpdateDocumentFrame
         \/ UpdateNotifications \/ UpdateResources

Builder == \/ BuildTransactions \/ BuilderFlush \/ BuilderClearNamespace \/ BuilderStop
           \/ PollFlushComplete \/ Discard

LEMMA FrameSteps ==
  ASSUME [Next]_vars
  PROVE  \/ Idle \/ Publish \/ Draws \/ Builder
         \/ PollTransactions \/ PollClearNamespace \/ Stopped
         \/ \E d \in Docs : NopDocument(d)
         \/ SkipTransaction \/ SwapAndWait \/ UpdateTransaction \/ ResumeAndUpdate
         \/ Settle \/ NewFrameReady
         \/ ReceiveForSceneBuilder \/ ReceiveForBackend
         \/ ReceiveAddDocument \/ ReceiveDeleteDocument \/ ReceiveMemoryPressure
  BY DEF Idle, Draws, Builder, Next, Backend, SceneBuilder, Renderer, vars, Rest, Send, Flush,
     PollNothing, ReceiveForwarded, ReceiveWakeUp, ReceiveShutDown, LowForward,
     BuilderDeleteDocument, WakeBackend, ReceiveSwap, PostSceneSwap, RendererWake, UpdateDone,
     Render, backendVars, rendererVars

LEMMA WillShowPrimed ==
  ASSUME NEW CONSTANT d, NEW CONSTANT lists
  PROVE  /\ WillShow(d, lists)' <=>
              \/ Shows(outbox', d, lists)
              \/ /\ Silent(outbox', d)
                 /\ \/ Shows(output', d, lists)
                    \/ Silent(output', d) /\ d \in active' /\ frame'[d] = lists
         /\ Showing(d, lists)' <=>
              \/ Shows(output', d, lists)
              \/ Silent(output', d) /\ d \in active' /\ frame'[d] = lists
  BY DEF WillShow, Showing, Shows, Silent, OfFrame, TxnsOf

LEMMA ShowingKept ==
  ASSUME TypeOK, NEW CONSTANT d \in Docs, NEW CONSTANT lists, Draws, Showing(d, lists)
  PROVE  Showing(d, lists)'
  <1>1. output # <<>> /\ output' = Tail(output)
    BY DEF Draws, UpdatePipelineInfo, UpdateDocumentFrame, UpdateNotifications, UpdateResources,
       Updates
  <1>2. output \in Seq(ResultMsg) /\ active \subseteq Docs
    BY DEF TypeOK, ChannelTypeOK, RendererTypeOK
  <1>3. PICK m : m = Head(output)
    OBVIOUS
  <1>4. /\ Silent(output, d) <=> ~OfFrame(m, d) /\ Silent(output', d)
        /\ Shows(output, d, lists) =>
             \/ Shows(output', d, lists)
             \/ /\ m.type = "PublishDocument" /\ m.doc = d
                /\ m.lists = lists /\ Silent(output', d)
    BY <1>1, <1>2, <1>3, SilentTail
  <1>5. CASE Shows(output', d, lists)
    BY <1>5, WillShowPrimed
  <1>6. CASE m.type = "PublishDocument" /\ m.doc = d /\ m.lists = lists /\ Silent(output', d)
    <2>1. UpdateDocumentFrame
      BY <1>3, <1>6 DEF Draws, UpdatePipelineInfo, UpdateNotifications, UpdateResources, Updates
    <2>2. d \in active' /\ frame'[d] = lists
      <3>1. frame \in [Docs -> [Pipelines -> Nat]]
        BY DEF TypeOK, RendererTypeOK
      <3> QED
        BY <1>3, <1>6, <2>1, <3>1 DEF UpdateDocumentFrame
    <2> QED
      BY <1>6, <2>2, WillShowPrimed
  <1>7. CASE ~OfFrame(m, d) /\ Silent(output', d) /\ d \in active /\ frame[d] = lists
    <2>1. ~UpdateResources
      BY <1>3, <1>7 DEF UpdateResources, Updates, OfFrame
    <2>2. d \in active' /\ frame'[d] = lists
      <3>1. CASE UpdateDocumentFrame
        <4>1. m.doc # d
          BY <1>3, <1>7, <3>1 DEF UpdateDocumentFrame, Updates, OfFrame
        <4>2. frame \in [Docs -> [Pipelines -> Nat]]
          BY DEF TypeOK, RendererTypeOK
        <4> QED
          BY <1>3, <1>7, <3>1, <4>1, <4>2 DEF UpdateDocumentFrame
      <3>2. CASE UpdatePipelineInfo \/ UpdateNotifications
        BY <1>7, <3>2 DEF UpdatePipelineInfo, UpdateNotifications
      <3> QED
        BY <2>1, <3>1, <3>2 DEF Draws
    <2> QED
      BY <1>7, <2>2, WillShowPrimed
  <1> QED
    BY <1>4, <1>5, <1>6, <1>7 DEF Showing

(* The renderer and what is sent to it keep what it will show ...          *)
LEMMA WillShowKept ==
  ASSUME TypeOK, NEW CONSTANT d \in Docs, NEW CONSTANT lists, WillShow(d, lists),
         \/ UNCHANGED <<outbox, output, active, frame>>
         \/ Publish \/ Draws
         \/ \E e : /\ output' = Append(output, e) /\ ~OfFrame(e, d)
                   /\ UNCHANGED <<outbox, active, frame>>
  PROVE  WillShow(d, lists)'
  <1>t. output \in Seq(ResultMsg) /\ outbox \in Seq(ResultMsg)
    BY DEF TypeOK, ChannelTypeOK, BackendTypeOK
  <1>1. CASE UNCHANGED <<outbox, output, active, frame>>
    BY <1>1, WillShowPrimed DEF WillShow, Showing
  <1>2. CASE Draws
    <2>1. outbox' = outbox
      BY <1>2 DEF Draws, UpdatePipelineInfo, UpdateDocumentFrame, UpdateNotifications,
         UpdateResources, backendVars
    <2>2. Showing(d, lists) => Showing(d, lists)'
      BY <1>2, ShowingKept
    <2> QED
      BY <2>1, <2>2, WillShowPrimed DEF WillShow
  <1>3. CASE Publish
    <2>0. PICK e : e = Head(outbox)
      OBVIOUS
    <2>1. /\ outbox # <<>> /\ output' = Append(output, e) /\ outbox' = Tail(outbox)
          /\ UNCHANGED <<active, frame>>
      BY <1>3, <2>0 DEF Publish, rendererVars
    <2>2. /\ Silent(outbox, d) <=> ~OfFrame(e, d) /\ Silent(outbox', d)
          /\ Shows(outbox, d, lists) =>
               \/ Shows(outbox', d, lists)
               \/ /\ e.type = "PublishDocument" /\ e.doc = d
                  /\ e.lists = lists /\ Silent(outbox', d)
      BY <1>t, <2>0, <2>1, SilentTail
    <2>3. /\ Silent(output', d) <=> Silent(output, d) /\ ~OfFrame(e, d)
          /\ Shows(output, d, lists) /\ ~OfFrame(e, d) => Shows(output', d, lists)
          /\ e.type = "PublishDocument" /\ e.doc = d /\ e.lists = lists =>
               Shows(output', d, lists)
      BY <1>t, <2>1, SilentAppend
    <2>4. CASE Shows(outbox, d, lists)
      BY <2>2, <2>3, <2>4, WillShowPrimed
    <2>5. CASE Silent(outbox, d) /\ Showing(d, lists)
      BY <2>1, <2>2, <2>3, <2>5, WillShowPrimed DEF Showing
    <2> QED
      BY <2>4, <2>5 DEF WillShow
  <1>4. ASSUME NEW e, output' = Append(output, e), ~OfFrame(e, d),
               UNCHANGED <<outbox, active, frame>>
        PROVE  WillShow(d, lists)'
    <2>1. /\ Silent(output', d) <=> Silent(output, d) /\ ~OfFrame(e, d)
          /\ Shows(output, d, lists) /\ ~OfFrame(e, d) => Shows(output', d, lists)
      BY <1>t, <1>4, SilentAppend
    <2> QED
      BY <1>4, <2>1, WillShowPrimed DEF WillShow, Showing
  <1> QED
    BY <1>1, <1>2, <1>3, <1>4

(* ... and what update_document sends replaces it, if it is about the same *)
(* document.                                                               *)
LEMMA UpdateShows ==
  ASSUME TypeOK, NEW CONSTANT d \in Docs, NEW CONSTANT lists, NEW CONSTANT old, NEW CONSTANT t,
         outbox = <<>>, outbox' = Published(old, t), UNCHANGED <<output, active, frame>>
  PROVE  /\ (~BuildsFrame(old, t, required) \/ d # t.doc) /\ WillShow(d, lists) =>
              WillShow(d, lists)'
         /\ BuildsFrame(old, t, required) =>
              WillShow(t.doc, ApplyFrameOps(old, t).scene.lists)'
  <1>1. WillShow(d, lists) => Showing(d, lists)
    BY NothingShown DEF WillShow
  <1>2. Showing(d, lists) => \/ Shows(output', d, lists)
                             \/ Silent(output', d) /\ d \in active' /\ frame'[d] = lists
    <2>1. output' = output /\ active' = active /\ frame' = frame
      OBVIOUS
    <2> QED
      BY <2>1 DEF Showing
  <1>3. ~BuildsFrame(old, t, required) \/ d # t.doc => Silent(outbox', d)
    BY PublishedFrame
  <1>4. PICK e, l : e = t.doc /\ l = ApplyFrameOps(old, t).scene.lists
    OBVIOUS
  <1>5. BuildsFrame(old, t, required) => Shows(outbox', e, l)
    BY <1>4, PublishedFrame
  <1>6. Shows(outbox', e, l) => WillShow(e, l)'
    BY WillShowPrimed
  <1> QED
    BY <1>1, <1>2, <1>3, <1>4, <1>5, <1>6, WillShowPrimed

-----------------------------------------------------------------------------
(* A scene that is built can be rendered.                                  *)
LEMMA RendersPrimed ==
  /\ ScenesRender' <=> /\ Renderable(work')
                       /\ \A r \in TxnsOf(sceneResults') : r.type = "Transactions" =>
                            Renderable(r.txns)
  BY DEF ScenesRender, Renderable, TxnsOf

LEMMA RendersTail ==
  ASSUME NEW S, NEW q \in Seq(S), q # <<>>, Renderable(q)
  PROVE  Renderable(Tail(q))
  BY MembersTail DEF Renderable

LEMMA ScenesRenderStep ==
  ASSUME TypeOK, HandshakeInv, ScenesRender, [Next]_vars
  PROVE  ScenesRender'
  <1>t. /\ sceneResults \in Seq(SceneResult) /\ work \in Seq(BuiltTransaction)
        /\ api \in Seq(ApiMsg) /\ highScene \in Seq(SceneRequest)
    BY DEF TypeOK, ChannelTypeOK, BackendTypeOK
  <1>w. Renderable(work')
    <2>1. CASE PollTransactions
      <3>1. /\ sceneResults # <<>> /\ Head(sceneResults).type = "Transactions"
            /\ work' = Head(sceneResults).txns
        BY <2>1 DEF PollTransactions
      <3>2. Head(sceneResults) \in TxnsOf(sceneResults)
        BY <1>t, <3>1, MembersTail
      <3> QED
        BY <3>1, <3>2 DEF ScenesRender
    <2>2. CASE ReceiveForBackend
      BY <2>2 DEF ReceiveForBackend, Renderable, TxnsOf
    <2>3. CASE SkipTransaction \/ Settle \/ NewFrameReady
      <3>1. work # <<>> /\ (work' = work \/ work' = Tail(work))
        BY <2>3, WorkHead DEF SkipTransaction, Settle, NewFrameReady, NextTransaction
      <3> QED
        BY <1>t, <3>1, RendersTail DEF ScenesRender
    <2>4. CASE work' = work
      BY <2>4 DEF ScenesRender
    <2> QED
      BY <2>1, <2>2, <2>3, <2>4, WorkUnchanged
  <1>r. ASSUME NEW r \in TxnsOf(sceneResults'), r.type = "Transactions"
        PROVE  Renderable(r.txns)
    <2>1. CASE r \in TxnsOf(sceneResults)
      BY <1>r, <2>1 DEF ScenesRender
    <2>2. CASE sceneResults # <<>> /\ sceneResults' = Tail(sceneResults)
      BY <1>r, <1>t, <2>1, <2>2, MembersTail
    <2>3. CASE BuildTransactions
      <3>1. PICK e : /\ sceneResults' = Append(sceneResults, e)
                     /\ e.txns = [i \in DOMAIN Head(highScene).txns |->
                                    Processed(Head(highScene).txns[i])]
        BY <2>3 DEF BuildTransactions
      <3>2. TxnsOf(sceneResults') = TxnsOf(sceneResults) \cup {e}
        BY <1>t, <3>1, MembersAppend
      <3>3. \A t : Processed(t).built # EmptyScene => HasRootPipeline(Processed(t).built)
        BY DEF Processed, BuiltScene
      <3>4. Renderable(e.txns)
        BY <3>1, <3>3 DEF Renderable, TxnsOf
      <3> QED
        BY <1>r, <2>1, <3>2, <3>4
    <2>4. CASE \E e : e.type # "Transactions" /\ sceneResults' = Append(sceneResults, e)
      <3>1. PICK e : e.type # "Transactions" /\ sceneResults' = Append(sceneResults, e)
        BY <2>4
      <3>2. TxnsOf(sceneResults') = TxnsOf(sceneResults) \cup {e}
        BY <1>t, <3>1, MembersAppend
      <3> QED
        BY <1>r, <2>1, <3>1, <3>2
    <2>5. CASE sceneResults' = sceneResults
      BY <1>r, <2>1, <2>5
    <2>6. CASE Builder
      <3>1. CASE BuilderFlush
        <4>1. PICK e : e = [type |-> "FlushComplete", client |-> Head(highScene).client]
          OBVIOUS
        <4>2. e.type # "Transactions" /\ sceneResults' = Append(sceneResults, e)
          BY <3>1, <4>1 DEF BuilderFlush
        <4> QED
          BY <2>4, <4>2
      <3>2. CASE BuilderClearNamespace
        <4>1. Head(highScene).type # "Transactions" /\ sceneResults' = Append(sceneResults, Head(highScene))
          BY <3>2 DEF BuilderClearNamespace
        <4> QED
          BY <2>4, <4>1
      <3>3. CASE BuilderStop
        <4>1. PICK e : e = [type |-> "Stopped"]
          OBVIOUS
        <4>2. e.type # "Transactions" /\ sceneResults' = Append(sceneResults, e)
          BY <3>3, <4>1 DEF BuilderStop
        <4> QED
          BY <2>4, <4>2
      <3>4. CASE PollFlushComplete \/ Discard
        <4>1. sceneResults # <<>> /\ sceneResults' = Tail(sceneResults)
          BY <3>4 DEF PollFlushComplete, Discard
        <4> QED
          BY <2>2, <4>1
      <3> QED
        BY <2>3, <2>6, <3>1, <3>2, <3>3, <3>4 DEF Builder
    <2>7. CASE PollTransactions \/ PollClearNamespace \/ Stopped
      <3>1. sceneResults # <<>> /\ sceneResults' = Tail(sceneResults)
        BY <2>7 DEF PollTransactions, PollClearNamespace, Stopped
      <3> QED
        BY <2>2, <3>1
    <2>8. CASE \/ Idle \/ Publish \/ Draws
               \/ \E d \in Docs : NopDocument(d)
               \/ SkipTransaction \/ SwapAndWait \/ UpdateTransaction \/ ResumeAndUpdate
               \/ Settle \/ NewFrameReady
               \/ ReceiveForSceneBuilder \/ ReceiveForBackend
               \/ ReceiveAddDocument \/ ReceiveDeleteDocument \/ ReceiveMemoryPressure
      <3>1. sceneResults' = sceneResults
        BY <2>8 DEF Idle, Publish, Draws, UpdatePipelineInfo, UpdateDocumentFrame,
           UpdateNotifications, UpdateResources, NopDocument, SkipTransaction, SwapAndWait,
           UpdateTransaction, ResumeAndUpdate, Settle, NewFrameReady, ReceiveForSceneBuilder,
           ReceiveForBackend, ReceiveAddDocument, ReceiveDeleteDocument, ReceiveMemoryPressure
      <3> QED
        BY <2>5, <3>1
    <2> QED
      BY <2>6, <2>7, <2>8, FrameSteps
  <1> QED
    BY <1>w, <1>r, RendersPrimed

(* What the first transaction of the work brings.                          *)
LEMMA HeadRenders ==
  ASSUME TypeOK, ScenesRender, work # <<>>
  PROVE  /\ Head(work) \in TxnsOf(work) /\ Head(work).txn \in Transaction
         /\ Head(work).txn.doc \in Docs /\ Head(work).built \in Scene
         /\ Head(work).built # EmptyScene => HasRootPipeline(Head(work).built)
  <1>1. work \in Seq(BuiltTransaction)
    BY DEF TypeOK, BackendTypeOK
  <1>2. Head(work) \in TxnsOf(work)
    BY <1>1, MembersTail
  <1> QED
    BY <1>1, <1>2, WorkOf DEF ScenesRender, Renderable

-----------------------------------------------------------------------------
(* The steps that bring a document up to date, and what they bring.        *)
Swapped == SwapScene(docs[Head(work).txn.doc], Head(work).txn, Head(work).built)

UpdatesFrom(old, t) ==
  /\ outbox = <<>> /\ outbox' = Published(old, t)
  /\ docs' = [docs EXCEPT ![t.doc] = UpdatedDocument(old, t, required)]
  /\ UNCHANGED <<output, active, frame, alive, required>>

LEMMA UpdatingSteps ==
  ASSUME TypeOK, HandshakeInv
  PROVE  /\ \A d \in Docs : NopDocument(d) =>
              /\ UpdatesFrom(docs[d], NopTransaction(d)) /\ NopTransaction(d) \in Transaction
              /\ NopTransaction(d).doc = d /\ docs[d] \in Document
         /\ UpdateTransaction =>
              /\ work # <<>> /\ UpdatesFrom(Swapped, Head(work).txn)
         /\ ResumeAndUpdate =>
              /\ work # <<>> /\ UpdatesFrom(docs[Head(work).txn.doc], Head(work).txn)
  <1>1. docs \in [Docs -> Document]
    BY DEF TypeOK, BackendTypeOK
  <1>2. ASSUME NEW d \in Docs, NopDocument(d)
        PROVE  /\ UpdatesFrom(docs[d], NopTransaction(d)) /\ NopTransaction(d) \in Transaction
               /\ NopTransaction(d).doc = d /\ docs[d] \in Document
    <2>1. NopTransaction(d).doc = d /\ NopTransaction(d) \in Transaction
      BY NopType DEF NopTransaction
    <2>2. UpdatesFrom(docs[d], NopTransaction(d))
      BY <1>2, <2>1 DEF NopDocument, At, UpdatesFrom, rendererVars
    <2> QED
      BY <1>1, <2>1, <2>2
  <1>3. ASSUME UpdateTransaction PROVE work # <<>> /\ UpdatesFrom(Swapped, Head(work).txn)
    BY <1>3 DEF UpdateTransaction, UpdateHead, At, UpdatesFrom, rendererVars, Swapped
  <1>4. ASSUME ResumeAndUpdate
        PROVE  work # <<>> /\ UpdatesFrom(docs[Head(work).txn.doc], Head(work).txn)
    BY <1>4 DEF ResumeAndUpdate, UpdateHead, At, UpdatesFrom, rendererVars, HandshakeInv, Working
  <1> QED
    BY <1>2, <1>3, <1>4

LEMMA SwappedMeans ==
  ASSUME TypeOK, ScenesRender, work # <<>>
  PROVE  /\ Swapped \in Document
         /\ Swapped.frameValid => /\ docs[Head(work).txn.doc].frameValid
                                  /\ Swapped.scene = docs[Head(work).txn.doc].scene
         /\ CanRender(docs[Head(work).txn.doc]) => CanRender(Swapped)
         /\ Swapped.removed = docs[Head(work).txn.doc].removed \cup Head(work).txn.removes
  <1>1. /\ Head(work).txn \in Transaction /\ Head(work).txn.doc \in Docs
        /\ Head(work).built \in Scene
        /\ Head(work).built # EmptyScene => HasRootPipeline(Head(work).built)
    BY HeadRenders
  <1>2. docs[Head(work).txn.doc] \in Document
    BY <1>1 DEF TypeOK, BackendTypeOK
  <1>3. Swapped \in Document
    BY <1>1, <1>2, SwapSceneType DEF Swapped
  <1>4. /\ Swapped.removed = docs[Head(work).txn.doc].removed \cup Head(work).txn.removes
        /\ Head(work).built = EmptyScene =>
             /\ Swapped.scene = docs[Head(work).txn.doc].scene
             /\ Swapped.frameValid = docs[Head(work).txn.doc].frameValid
        /\ Head(work).built # EmptyScene =>
             /\ Swapped.scene = Head(work).built /\ Swapped.frameValid = FALSE
    <2>1. PICK old \in Document, t \in Transaction, b \in Scene :
            old = docs[Head(work).txn.doc] /\ t = Head(work).txn /\ b = Head(work).built
      BY <1>1, <1>2, Zenon
    <2>2. Swapped = SwapScene(old, t, b)
      BY <2>1, Zenon DEF Swapped
    <2>3. /\ Swapped.removed = old.removed \cup t.removes
          /\ b = EmptyScene => Swapped.scene = old.scene /\ Swapped.frameValid = old.frameValid
          /\ b # EmptyScene => Swapped.scene = b /\ Swapped.frameValid = FALSE
      BY <2>2 DEF SwapScene, Document
    <2> QED
      BY <2>1, <2>3, Zenon
  <1> QED
    BY <1>1, <1>3, <1>4 DEF CanRender

(* A document that is updated: its frame is the one sent, or is still      *)
(* valid, as nothing required another.                                     *)
LEMMA UpdatedFrame ==
  ASSUME TypeOK, NEW CONSTANT old \in Document, NEW CONSTANT t \in Transaction, t.doc \in Docs,
         UpdatesFrom(old, t), old.frameValid => CanRender(old)
  PROVE  /\ docs'[t.doc].frameValid => CanRender(docs'[t.doc])
         /\ CanRender(docs'[t.doc]) <=> CanRender(old)
         /\ docs'[t.doc].removed = IF PublishesInfo(old, t, required) THEN {} ELSE old.removed
         /\ docs'[t.doc].scene.lists = old.scene.lists
         /\ docs'[t.doc].frameValid /\ (required \/ ~old.frameValid \/ BuildsFrame(old, t, required))
              => WillShow(t.doc, old.scene.lists)'
         /\ \A d \in Docs : d # t.doc => docs'[d] = docs[d]
  <1>1. docs \in [Docs -> Document] /\ required \in BOOLEAN
    BY DEF TypeOK, BackendTypeOK
  <1>2. /\ docs'[t.doc] = UpdatedDocument(old, t, required)
        /\ \A d \in Docs : d # t.doc => docs'[d] = docs[d]
    BY <1>1 DEF UpdatesFrom
  <1>3. PICK u : u = UpdatedDocument(old, t, required)
    OBVIOUS
  <1>4. /\ ApplyFrameOps(old, t).scene.lists = old.scene.lists
        /\ u.scene.lists = old.scene.lists
        /\ CanRender(u) <=> CanRender(old)
        /\ BuildsFrame(old, t, required) => CanRender(old)
        /\ required /\ CanRender(old) => BuildsFrame(old, t, required)
        /\ u.frameValid => old.frameValid \/ BuildsFrame(old, t, required)
        /\ u.removed = IF PublishesInfo(old, t, required) THEN {} ELSE old.removed
    BY <1>1, <1>3, UpdateMeans
  <1>5. PICK e, l : e = t.doc /\ l = old.scene.lists
    OBVIOUS
  <1>6. BuildsFrame(old, t, required) => WillShow(e, l)'
    BY <1>4, <1>5, UpdateShows DEF UpdatesFrom
  <1>7. ASSUME docs'[t.doc].frameValid,
               required \/ ~old.frameValid \/ BuildsFrame(old, t, required)
        PROVE  BuildsFrame(old, t, required)
    BY <1>2, <1>3, <1>4, <1>7
  <1> QED
    BY <1>2, <1>3, <1>4, <1>5, <1>6, <1>7

LEMMA OwnerPrimed ==
  ASSUME NEW CONSTANT d
  PROVE  FrameOwner(d)' <=>
           /\ docs'[d].frameValid => CanRender(docs'[d])
           /\ d \notin alive' => ~CanRender(docs'[d])
  BY DEF FrameOwner, CanRender, HasRootPipeline

LEMMA NewIsBlank ==
  ~NewDocument.frameValid /\ ~CanRender(NewDocument)
  BY DEF NewDocument, CanRender, HasRootPipeline, EmptyScene

LEMMA ViewedMeans ==
  ASSUME TypeOK, NEW txns \in Seq(Transaction), NEW d \in Docs
  PROVE  /\ Viewed(txns)[d].frameValid = docs[d].frameValid
         /\ Viewed(txns)[d].scene = docs[d].scene
         /\ Viewed(txns)[d].removed = docs[d].removed
  <1>1. docs[d] \in Document
    BY DEF TypeOK, BackendTypeOK
  <1>2. \A t \in Transaction :
               \/ EditView(docs[d], t) = docs[d]
               \/ EditView(docs[d], t) = [docs[d] EXCEPT !.pixels = FALSE]
               \/ EditView(docs[d], t) = [docs[d] EXCEPT !.pixels = TRUE]
    BY DEF EditView, Transaction
  <1>3. TxnsOf(txns) \subseteq Transaction
    BY BatchType
  <1> QED
    BY <1>1, <1>2, <1>3 DEF Viewed, Document

(* Who is brought up to date, from what.                                   *)
UpdatedBy(d, old, t) ==
  /\ t.doc = d /\ t \in Transaction /\ old \in Document /\ UpdatesFrom(old, t)
  /\ old.frameValid => CanRender(old) /\ docs[d].frameValid /\ old.scene = docs[d].scene
  /\ CanRender(old) => d \in alive
  /\ docs[d].removed \subseteq old.removed
  /\ t.generate => (UpdateTransaction \/ ResumeAndUpdate) /\ Head(work).txn.doc = d

UpdatesIt(d) ==
  \/ NopDocument(d)
  \/ (UpdateTransaction \/ ResumeAndUpdate) /\ Head(work).txn.doc = d

LEMMA UpdatedBySome ==
  ASSUME TypeOK, HandshakeInv, ScenesRender, NEW CONSTANT d \in Docs, \A e \in Docs : FrameOwner(e),
         \/ \E e \in Docs : NopDocument(e)
         \/ UpdateTransaction \/ ResumeAndUpdate
  PROVE  \/ UpdatesIt(d) /\ \E old, t : UpdatedBy(d, old, t)
         \/ ~UpdatesIt(d) /\ \E old, t : UpdatesFrom(old, t) /\ t.doc # d /\ t.doc \in Docs
  <1>d. docs \in [Docs -> Document]
    BY DEF TypeOK, BackendTypeOK
  <1>1. ASSUME UpdatesIt(d) PROVE \E old, t : UpdatedBy(d, old, t)
    <2>1. CASE NopDocument(d)
      <3>1. PICK old, t : old = docs[d] /\ t = NopTransaction(d)
        OBVIOUS
      <3>2. UpdatesFrom(old, t) /\ t \in Transaction /\ t.doc = d /\ old \in Document
        BY <2>1, <3>1, UpdatingSteps
      <3>3. UpdatedBy(d, old, t)
        <4>1. ~t.generate
          BY <3>1 DEF NopTransaction
        <4> QED
          BY <3>1, <3>2, <4>1 DEF UpdatedBy, FrameOwner
      <3> QED
        BY <3>3
    <2>2. CASE UpdateTransaction /\ Head(work).txn.doc = d
      <3>1. PICK old, t : old = Swapped /\ t = Head(work).txn
        OBVIOUS
      <3>2. work # <<>> /\ UpdatesFrom(old, t) /\ t.doc = d /\ d \in alive
        BY <2>2, <3>1, UpdatingSteps DEF UpdateTransaction
      <3>3. t \in Transaction
        BY <3>1, <3>2, HeadRenders
      <3>4. /\ old \in Document
            /\ old.frameValid => docs[d].frameValid /\ old.scene = docs[d].scene
            /\ CanRender(docs[d]) => CanRender(old)
            /\ docs[d].removed \subseteq old.removed
        BY <2>2, <3>1, <3>2, SwappedMeans
      <3>5. UpdatedBy(d, old, t)
        BY <2>2, <3>2, <3>3, <3>4 DEF UpdatedBy, FrameOwner
      <3> QED
        BY <3>5
    <2>3. CASE ResumeAndUpdate /\ Head(work).txn.doc = d
      <3>1. PICK old, t : old = docs[d] /\ t = Head(work).txn
        OBVIOUS
      <3>2. work # <<>> /\ UpdatesFrom(old, t) /\ t.doc = d
        BY <2>3, <3>1, UpdatingSteps
      <3>3. t \in Transaction /\ old \in Document
        BY <1>d, <3>1, <3>2, HeadRenders
      <3>4. UpdatedBy(d, old, t)
        BY <2>3, <3>1, <3>2, <3>3 DEF UpdatedBy, FrameOwner
      <3> QED
        BY <3>4
    <2> QED
      BY <1>1, <2>1, <2>2, <2>3 DEF UpdatesIt
  <1>2. ASSUME ~UpdatesIt(d)
        PROVE  \E old, t : UpdatesFrom(old, t) /\ t.doc # d /\ t.doc \in Docs
    <2>1. ASSUME NEW CONSTANT e \in Docs, NopDocument(e)
          PROVE  \E old, t : UpdatesFrom(old, t) /\ t.doc # d /\ t.doc \in Docs
      <3>1. e # d
        BY <1>2, <2>1 DEF UpdatesIt
      <3>2. UpdatesFrom(docs[e], NopTransaction(e)) /\ NopTransaction(e).doc = e
        BY <2>1, UpdatingSteps
      <3> QED
        BY <3>1, <3>2
    <2>2. CASE UpdateTransaction
      <3>1. work # <<>> /\ UpdatesFrom(Swapped, Head(work).txn)
        BY <2>2, UpdatingSteps
      <3>2. Head(work).txn.doc \in Docs /\ Head(work).txn.doc # d
        BY <1>2, <2>2, <3>1, HeadRenders DEF UpdatesIt
      <3> QED
        BY <3>1, <3>2
    <2>3. CASE ResumeAndUpdate
      <3>1. work # <<>> /\ UpdatesFrom(docs[Head(work).txn.doc], Head(work).txn)
        BY <2>3, UpdatingSteps
      <3>2. Head(work).txn.doc \in Docs /\ Head(work).txn.doc # d
        BY <1>2, <2>3, <3>1, HeadRenders DEF UpdatesIt
      <3> QED
        BY <3>1, <3>2
    <2> QED
      BY <2>1, <2>2, <2>3
  <1> QED
    BY <1>1, <1>2

(* A step that leaves a document, or marks its frame as not valid.         *)
LEMMA OtherDocs ==
  ASSUME TypeOK, HandshakeInv, ScenesRender, [Next]_vars, NEW CONSTANT d \in Docs,
         ~(\E e \in Docs : NopDocument(e)), ~UpdateTransaction, ~ResumeAndUpdate
  PROVE  \/ /\ docs'[d].frameValid => /\ docs[d].frameValid
                                      /\ docs'[d].scene = docs[d].scene
            /\ CanRender(docs[d]) => CanRender(docs'[d])
            /\ CanRender(docs'[d]) => CanRender(docs[d]) \/ d \in alive
            /\ d \in alive => d \in alive'
            /\ docs[d].removed \subseteq docs'[d].removed
         \/ docs'[d] = NewDocument /\ d \notin alive'
  <1>d. docs \in [Docs -> Document]
    BY DEF TypeOK, BackendTypeOK
  <1>1. CASE docs' = docs /\ (d \in alive => d \in alive')
    BY <1>1
  <1>2. CASE PollClearNamespace \/ Stopped
    <2>1. docs'[d] = IF d \in alive' THEN docs[d] ELSE NewDocument
      BY <1>2 DEF PollClearNamespace, Stopped
    <2> QED
      BY <2>1
  <1>3. CASE SwapAndWait
    <2>1. /\ work # <<>> /\ alive' = alive /\ Head(work).txn.doc \in alive
          /\ docs' = [docs EXCEPT ![Head(work).txn.doc] = Swapped]
      BY <1>3 DEF SwapAndWait, Swapped
    <2>2. CASE d = Head(work).txn.doc
      BY <1>d, <2>1, <2>2, SwappedMeans
    <2>3. CASE d # Head(work).txn.doc
      BY <1>d, <2>1, <2>3
    <2> QED
      BY <2>2, <2>3
  <1>4. CASE ReceiveForSceneBuilder \/ ReceiveForBackend
    <2>1. PICK txns : txns = Head(api).txns
      OBVIOUS
    <2>2. txns \in Seq(Transaction)
      <3>1. api \in Seq(ApiMsg) /\ api # <<>> /\ Head(api).type = "UpdateDocuments"
        BY <1>4 DEF TypeOK, ChannelTypeOK, ReceiveForSceneBuilder, ReceiveForBackend, Receives
      <3> QED
        BY <2>1, <3>1, MessageOf
    <2>3. docs' = Viewed(txns) /\ alive' = alive
      BY <1>4, <2>1 DEF ReceiveForSceneBuilder, ReceiveForBackend
    <2>4. /\ docs'[d].frameValid = docs[d].frameValid /\ docs'[d].scene = docs[d].scene
          /\ docs'[d].removed = docs[d].removed
      BY <2>2, <2>3, ViewedMeans
    <2> QED
      BY <2>3, <2>4 DEF CanRender
  <1>5. CASE ReceiveDeleteDocument
    <2>1. /\ alive' = alive \ {Head(api).doc}
          /\ docs' = [docs EXCEPT ![Head(api).doc] = NewDocument]
      BY <1>5 DEF ReceiveDeleteDocument
    <2> QED
      BY <1>d, <2>1
  <1>6. CASE \/ Idle \/ Publish \/ Draws \/ Builder \/ PollTransactions
             \/ SkipTransaction \/ Settle \/ NewFrameReady
             \/ ReceiveAddDocument \/ ReceiveMemoryPressure
    <2>1. docs' = docs /\ (d \in alive => d \in alive')
      BY <1>6 DEF Idle, Publish, Draws, UpdatePipelineInfo, UpdateDocumentFrame,
         UpdateNotifications, UpdateResources, Builder, BuildTransactions, BuilderFlush,
         BuilderClearNamespace, BuilderStop, PollFlushComplete, Discard, PollTransactions,
         SkipTransaction, Settle, NewFrameReady, ReceiveAddDocument, ReceiveMemoryPressure,
         backendVars
    <2> QED
      BY <1>1, <2>1
  <1> QED
    BY <1>2, <1>3, <1>4, <1>5, <1>6, FrameSteps

LEMMA FrameOwnerStep ==
  ASSUME TypeOK, HandshakeInv, ScenesRender, \A e \in Docs : FrameOwner(e), [Next]_vars,
         NEW CONSTANT d \in Docs
  PROVE  FrameOwner(d)'
  <1>o. /\ docs[d].frameValid => CanRender(docs[d])
        /\ d \notin alive => ~CanRender(docs[d])
    BY DEF FrameOwner
  <1>1. CASE (\E e \in Docs : NopDocument(e)) \/ UpdateTransaction \/ ResumeAndUpdate
    <2>1. CASE \E old, t : UpdatedBy(d, old, t)
      <3>1. PICK old, t : UpdatedBy(d, old, t)
        BY <2>1
      <3>2. /\ docs'[t.doc].frameValid => CanRender(docs'[t.doc])
            /\ CanRender(docs'[t.doc]) <=> CanRender(old)
        BY <3>1, UpdatedFrame DEF UpdatedBy
      <3>3. t.doc = d /\ (CanRender(old) => d \in alive) /\ alive' = alive
        BY <3>1 DEF UpdatedBy, UpdatesFrom
      <3> QED
        BY <3>2, <3>3, OwnerPrimed
    <2>2. CASE \E old, t : UpdatesFrom(old, t) /\ t.doc # d /\ t.doc \in Docs
      <3>1. docs'[d] = docs[d] /\ alive' = alive
        BY <2>2 DEF UpdatesFrom, TypeOK, BackendTypeOK
      <3> QED
        BY <1>o, <3>1, OwnerPrimed
    <2> QED
      BY <1>1, <2>1, <2>2, UpdatedBySome
  <1>2. CASE ~(\E e \in Docs : NopDocument(e)) /\ ~UpdateTransaction /\ ~ResumeAndUpdate
    <2>1. CASE docs'[d] = NewDocument
      BY <2>1, NewIsBlank, OwnerPrimed
    <2>2. CASE /\ docs'[d].frameValid => /\ docs[d].frameValid
                                         /\ docs'[d].scene = docs[d].scene
               /\ CanRender(docs[d]) => CanRender(docs'[d])
               /\ CanRender(docs'[d]) => CanRender(docs[d]) \/ d \in alive
               /\ d \in alive => d \in alive'
      BY <1>o, <2>2, OwnerPrimed
    <2> QED
      BY <1>2, <2>1, <2>2, OtherDocs
  <1> QED
    BY <1>1, <1>2

-----------------------------------------------------------------------------
(* A frame that is owed stays so until the document is brought up to date. *)
LEMMA OwedPrimed ==
  ASSUME NEW CONSTANT d
  PROVE  Owed(d)' <=> /\ required'
                      /\ rbPc' = "apply" => d \in nops' \/ InTxns(work', d)
                      /\ rbPc' = "resume" => InTxns(work', d)
                      /\ rbPc' \in {"settle", "notify"} => InTxns(Tail(work'), d)
  BY DEF Owed, InTxns, TxnsOf

LEMMA InHead ==
  ASSUME TypeOK, HandshakeInv, work # <<>>, NEW d
  PROVE  InTxns(work, d) <=> Head(work).txn.doc = d \/ InTxns(Tail(work), d)
  <1>1. TxnsOf(work) = {Head(work)} \cup TxnsOf(Tail(work))
    BY MembersTail DEF TypeOK, BackendTypeOK
  <1> QED
    BY <1>1 DEF InTxns

LEMMA InSome ==
  ASSUME NEW txns, NEW d, InTxns(txns, d)
  PROVE  txns # <<>>
  BY DEF InTxns, TxnsOf

LEMMA OwedKept ==
  ASSUME TypeOK, HandshakeInv, [Next]_vars, NEW CONSTANT d \in Docs, d \in alive, Owed(d)
  PROVE  \/ Owed(d)' \/ d \notin alive'
         \/ NopDocument(d)
         \/ (UpdateTransaction \/ ResumeAndUpdate) /\ Head(work).txn.doc = d
  <1>w. work \in Seq(BuiltTransaction)
    BY DEF TypeOK, BackendTypeOK
  <1>1. CASE Idle \/ Publish \/ Draws \/ Builder
    <2>1. /\ UNCHANGED <<required, nops, work>>
          /\ rbPc' = rbPc \/ rbPc' \notin {"apply", "resume", "settle", "notify"}
      BY <1>1 DEF Idle, Publish, Draws, UpdatePipelineInfo, UpdateDocumentFrame,
         UpdateNotifications, UpdateResources, Builder, BuildTransactions, BuilderFlush,
         BuilderClearNamespace, BuilderStop, PollFlushComplete, Discard, backendVars
    <2> QED
      BY <2>1, OwedPrimed DEF Owed
  <1>2. CASE \/ PollClearNamespace \/ Stopped \/ ReceiveForSceneBuilder
             \/ ReceiveAddDocument \/ ReceiveDeleteDocument \/ ReceiveMemoryPressure
    <2>1. required' /\ rbPc' \in {"poll", "done"}
      BY <1>2 DEF PollClearNamespace, Stopped, ReceiveForSceneBuilder, ReceiveAddDocument,
         ReceiveDeleteDocument, ReceiveMemoryPressure, Owed, At
    <2> QED
      BY <2>1, OwedPrimed
  <1>3. CASE PollTransactions
    <2>1. PICK txns : txns = Head(sceneResults).txns
      OBVIOUS
    <2>2. /\ rbPc' = "apply" /\ work' = txns
          /\ \E reclaim \in BOOLEAN : PrepareForFrames({b.txn.doc : b \in TxnsOf(txns)}, reclaim)
      BY <1>3, <2>1 DEF PollTransactions
    <2>3. required' /\ nops' = alive \ {b.txn.doc : b \in TxnsOf(txns)}
      BY <2>2 DEF PrepareForFrames, Owed
    <2>4. d \in {b.txn.doc : b \in TxnsOf(txns)} => InTxns(work', d)
      BY <2>2 DEF InTxns
    <2> QED
      BY <2>2, <2>3, <2>4, OwedPrimed
  <1>4. CASE ReceiveForBackend
    <2>1. PICK txns : txns = Head(api).txns
      OBVIOUS
    <2>2. /\ rbPc' = "apply"
          /\ work' = [i \in DOMAIN txns |-> [txn |-> txns[i], built |-> EmptyScene]]
          /\ \E reclaim \in BOOLEAN : PrepareForFrames(DocsOf(txns), reclaim)
      BY <1>4, <2>1 DEF ReceiveForBackend
    <2>3. required' /\ nops' = alive \ DocsOf(txns)
      BY <2>2 DEF PrepareForFrames, Owed
    <2>4. d \in DocsOf(txns) => InTxns(work', d)
      <3>1. SUFFICES ASSUME NEW i \in DOMAIN txns, txns[i].doc = d PROVE InTxns(work', d)
        BY DEF DocsOf
      <3>2. work'[i] \in TxnsOf(work') /\ work'[i].txn.doc = d
        BY <2>2, <3>1 DEF TxnsOf
      <3> QED
        BY <3>2 DEF InTxns
    <2> QED
      BY <2>2, <2>3, <2>4, OwedPrimed
  <1>5. CASE NewFrameReady \/ Settle \/ (SkipTransaction /\ Head(work).txn.doc # d)
    <2>1. work # <<>>
      BY <1>5 DEF NewFrameReady, Settle, SkipTransaction, At, HandshakeInv, Working
    <2>2. required /\ InTxns(Tail(work), d)
      BY <1>5, <2>1, InHead DEF NewFrameReady, Settle, SkipTransaction, At, Owed
    <2>3. Tail(work) # <<>>
      BY <2>2, InSome
    <2>4. CASE NextTransaction
      BY <2>2, <2>3, <2>4, OwedPrimed DEF NextTransaction
    <2>5. CASE work' = work /\ required' = required /\ rbPc' = "notify"
      BY <2>2, <2>5, OwedPrimed
    <2>6. CASE work' = work /\ required' = required /\ rbPc' = "panicked"
      BY <2>2, <2>6, OwedPrimed
    <2> QED
      BY <1>5, <2>4, <2>5, <2>6 DEF NewFrameReady, Settle, SkipTransaction
  <1>6. CASE SkipTransaction /\ Head(work).txn.doc = d
    BY <1>6 DEF SkipTransaction
  <1>7. CASE SwapAndWait
    <2>1. /\ rbPc = "apply" /\ nops = {} /\ work' = work /\ required' = required
          /\ rbPc' \in {"resume", "panicked"}
      BY <1>7 DEF SwapAndWait, At
    <2>2. required /\ InTxns(work, d)
      BY <2>1 DEF Owed
    <2> QED
      BY <2>1, <2>2, OwedPrimed
  <1>8. CASE (UpdateTransaction \/ ResumeAndUpdate) /\ Head(work).txn.doc # d
    <2>1. /\ work # <<>> /\ work' = work /\ required' = required /\ rbPc' = "settle"
          /\ rbPc = "resume" \/ (rbPc = "apply" /\ nops = {})
      BY <1>8 DEF UpdateTransaction, ResumeAndUpdate, UpdateHead, At, HandshakeInv, Working
    <2>2. required /\ InTxns(work, d)
      BY <2>1 DEF Owed
    <2>3. InTxns(Tail(work), d)
      BY <1>8, <2>1, <2>2, InHead
    <2> QED
      BY <2>1, <2>2, <2>3, OwedPrimed
  <1>9. ASSUME NEW e \in Docs, NopDocument(e), e # d PROVE Owed(d)'
    <2>1. /\ rbPc = "apply" /\ rbPc' = rbPc /\ work' = work /\ required' = required
          /\ nops' = nops \ {e}
      BY <1>9 DEF NopDocument, At
    <2> QED
      BY <1>9, <2>1, OwedPrimed DEF Owed
  <1> QED
    BY <1>1, <1>2, <1>3, <1>4, <1>5, <1>6, <1>7, <1>8, <1>9, FrameSteps

(* What will be shown stays, but for the resources cleared at a memory     *)
(* pressure event, when everything is owed a frame.                        *)
LEMMA ShownKept ==
  ASSUME TypeOK, HandshakeInv, [Next]_vars, NEW CONSTANT d \in Docs, NEW CONSTANT lists,
         WillShow(d, lists),
         ~(\E e \in Docs : NopDocument(e)), ~UpdateTransaction, ~ResumeAndUpdate
  PROVE  WillShow(d, lists)' \/ Owed(d)'
  <1>1. CASE ReceiveMemoryPressure
    <2>1. required' /\ rbPc' = "poll"
      BY <1>1 DEF ReceiveMemoryPressure
    <2> QED
      BY <2>1, OwedPrimed
  <1>2. CASE Settle
    <2>1. PICK late \in SUBSET RequestsOf(Head(work).txn) :
            \/ output' = output
            \/ output' = Append(output, [type |-> "AppendNotificationRequests",
                                          requests |-> late])
      BY <1>2, SettleHands
    <2>2. UNCHANGED <<outbox, active, frame>>
      BY <1>2 DEF Settle, rendererVars
    <2>3. PICK e : e = [type |-> "AppendNotificationRequests", requests |-> late]
      OBVIOUS
    <2>4. ~OfFrame(e, d)
      BY <2>3 DEF OfFrame
    <2> QED
      BY <2>1, <2>2, <2>3, <2>4, WillShowKept
  <1>3. CASE Publish \/ Draws
    BY <1>3, WillShowKept
  <1>4. CASE \/ Idle \/ Builder \/ PollTransactions \/ PollClearNamespace \/ Stopped
             \/ SkipTransaction \/ SwapAndWait \/ NewFrameReady
             \/ ReceiveForSceneBuilder \/ ReceiveForBackend
             \/ ReceiveAddDocument \/ ReceiveDeleteDocument
    <2>1. UNCHANGED <<outbox, output, active, frame>>
      BY <1>4 DEF Idle, Builder, BuildTransactions, BuilderFlush, BuilderClearNamespace,
         BuilderStop, PollFlushComplete, Discard, PollTransactions, PollClearNamespace, Stopped,
         SkipTransaction, SwapAndWait, NewFrameReady, ReceiveForSceneBuilder,
         ReceiveForBackend, ReceiveAddDocument, ReceiveDeleteDocument, backendVars, rendererVars
    <2> QED
      BY <2>1, WillShowKept
  <1> QED
    BY <1>1, <1>2, <1>3, <1>4, FrameSteps

-----------------------------------------------------------------------------
LEMMA DueStep ==
  ASSUME TypeOK, HandshakeInv, FrameInv, [Next]_vars, NEW CONSTANT d \in Docs,
         d \in alive', docs'[d].frameValid, NEW CONSTANT lists, lists = docs'[d].scene.lists
  PROVE  WillShow(d, lists)' \/ Owed(d)'
  <1>d. docs \in [Docs -> Document]
    BY DEF TypeOK, BackendTypeOK
  <1>i. /\ ScenesRender /\ \A e \in Docs : FrameOwner(e)
        /\ d \in alive /\ docs[d].frameValid => WillShow(d, docs[d].scene.lists) \/ Owed(d)
    BY DEF FrameInv
  <1>1. CASE \E old, t : UpdatedBy(d, old, t)
    <2>1. PICK old, t : UpdatedBy(d, old, t)
      BY <1>1
    <2>2. /\ docs'[t.doc].scene.lists = old.scene.lists
          /\ docs'[t.doc].frameValid /\ (required \/ ~old.frameValid \/ BuildsFrame(old, t, required))
               => WillShow(t.doc, old.scene.lists)'
      BY <2>1, UpdatedFrame DEF UpdatedBy
    <2>3. /\ t.doc = d /\ alive' = alive /\ outbox = <<>> /\ outbox' = Published(old, t)
          /\ UNCHANGED <<output, active, frame>>
          /\ old.frameValid => docs[d].frameValid /\ old.scene = docs[d].scene
      BY <2>1 DEF UpdatedBy, UpdatesFrom
    <2>4. lists = old.scene.lists
      BY <2>2, <2>3
    <2>5. CASE required \/ ~old.frameValid \/ BuildsFrame(old, t, required)
      BY <2>2, <2>3, <2>4, <2>5
    <2>6. CASE ~required /\ old.frameValid /\ ~BuildsFrame(old, t, required)
      <3>1. WillShow(d, lists)
        BY <1>i, <2>3, <2>4, <2>6 DEF Owed
      <3> QED
        BY <2>3, <2>6, <3>1, UpdateShows
    <2> QED
      BY <2>5, <2>6
  <1>2. CASE ~UpdatesIt(d) /\ \E old, t : UpdatesFrom(old, t) /\ t.doc # d /\ t.doc \in Docs
    <2>1. PICK old, t : UpdatesFrom(old, t) /\ t.doc # d /\ t.doc \in Docs
      BY <1>2
    <2>2. /\ docs'[d] = docs[d] /\ alive' = alive /\ outbox = <<>> /\ outbox' = Published(old, t)
          /\ UNCHANGED <<output, active, frame>>
      BY <1>d, <2>1 DEF UpdatesFrom
    <2>3. WillShow(d, lists) \/ Owed(d)
      BY <1>i, <2>2
    <2>4. WillShow(d, lists) => WillShow(d, lists)'
      BY <2>1, <2>2, UpdateShows
    <2>5. Owed(d) => Owed(d)'
      BY <1>2, <2>2, OwedKept DEF UpdatesIt
    <2> QED
      BY <2>3, <2>4, <2>5
  <1>3. CASE ~(\E e \in Docs : NopDocument(e)) /\ ~UpdateTransaction /\ ~ResumeAndUpdate
    <2>1. docs'[d] # NewDocument
      BY NewIsBlank
    <2>2. docs[d].frameValid /\ docs'[d].scene = docs[d].scene
      BY <1>i, <1>3, <2>1, OtherDocs
    <2>3. d \in alive
      BY <1>i, <2>2 DEF FrameOwner
    <2>4. WillShow(d, lists) \/ Owed(d)
      BY <1>i, <2>2, <2>3
    <2>5. WillShow(d, lists) => WillShow(d, lists)' \/ Owed(d)'
      BY <1>3, ShownKept
    <2>6. Owed(d) => Owed(d)'
      BY <1>3, <2>3, OwedKept
    <2> QED
      BY <2>4, <2>5, <2>6
  <1> QED
    BY <1>i, <1>1, <1>2, <1>3, UpdatedBySome

LEMMA FrameStep ==
  ASSUME TypeOK, HandshakeInv, FrameInv, [Next]_vars
  PROVE  FrameInv'
  <1>1. ScenesRender'
    BY ScenesRenderStep DEF FrameInv
  <1>2. ASSUME NEW CONSTANT d \in Docs PROVE FrameOwner(d)'
    BY FrameOwnerStep DEF FrameInv
  <1>3. ASSUME NEW CONSTANT d \in Docs, d \in alive', docs'[d].frameValid
        PROVE  (WillShow(d, docs[d].scene.lists) \/ Owed(d))'
    <2>1. PICK lists : lists = docs'[d].scene.lists
      OBVIOUS
    <2>2. WillShow(d, lists)' \/ Owed(d)'
      BY <1>3, <2>1, DueStep
    <2>3. WillShow(d, lists)' <=> WillShow(d, docs[d].scene.lists)'
      BY <2>1 DEF WillShow, Showing, Shows
    <2> QED
      BY <2>2, <2>3
  <1>4. alive' \subseteq Docs
    BY TypeStep DEF TypeOK, BackendTypeOK
  <1> QED
    BY <1>1, <1>2, <1>3, <1>4 DEF FrameInv

LEMMA FrameStart == Init => FrameInv
  <1> SUFFICES ASSUME Init PROVE FrameInv
    OBVIOUS
  <1>1. \A d \in Docs : docs[d] = NewDocument
    BY DEF Init
  <1>2. ScenesRender
    BY DEF Init, ScenesRender, Renderable, TxnsOf
  <1>3. alive \subseteq Docs
    BY PipelineAssumption DEF Init
  <1> QED
    BY <1>1, <1>2, <1>3, NewIsBlank DEF FrameInv, FrameOwner

(* A frame that the render backend believes in is the one the renderer     *)
(* has, once it has taken what was sent: for any documents, batches, lost  *)
(* caches and memory pressure, a document with frame_is_valid is drawn     *)
(* from its current scene (update_document, maybe_force_nop_documents).    *)
THEOREM FrameOnScreen == Spec => []ValidFrameIsActive
  <1>1. Init => FrameInv
    BY FrameStart
  <1>2. TypeOK /\ HandshakeInv /\ FrameInv /\ [Next]_vars => FrameInv'
    BY FrameStep
  <1>3. ASSUME TypeOK, FrameInv PROVE ValidFrameIsActive
    <2> SUFFICES ASSUME At("api"), output = <<>>, ~required, NEW d \in alive, docs[d].frameValid
                 PROVE  d \in active /\ frame[d] = docs[d].scene.lists
      BY DEF ValidFrameIsActive
    <2>1. WillShow(d, docs[d].scene.lists)
      BY <1>3 DEF FrameInv, Owed
    <2> QED
      BY <2>1, NothingShown DEF WillShow, Showing, At
  <1> QED
    BY <1>1, <1>2, <1>3, TypeCorrect, PTL DEF Spec

-----------------------------------------------------------------------------
(* Where a removed pipeline is reported.                                   *)
InfoWith(queue, d, p) ==
  \E m \in TxnsOf(queue) : m.type = "PublishPipelineInfo" /\ m.doc = d /\ p \in m.removed

Reported(d, p) ==
  \/ p \in docs[d].removed \/ <<d, p>> \in removed
  \/ InfoWith(outbox, d, p) \/ InfoWith(output, d, p)

(* A transaction whose scene the render backend has taken, and a document  *)
(* it has begun to work for.                                               *)
IsHead(n, d) == work # <<>> /\ Head(work).txn.id = n /\ Head(work).txn.doc = d

Applied(n, d) == SettledMark(n, d) \/ (rbPc \in {"resume", "settle"} /\ IsHead(n, d))

Begun(d) == (\E s \in TxnsOf(settled) : s[2] = d) \/ InTxns(work, d)

RemovalsKept ==
  \A t \in sent : Applied(t.id, t.doc) /\ t.doc \in alive =>
    \A p \in t.removes : Reported(t.doc, p)

BegunAdded == \A d \in Docs : Begun(d) => life[d] # "new" /\ ~Has(ApiLine, Addition(d))

LEMMA BegunPrimed ==
  ASSUME NEW CONSTANT d
  PROVE  Begun(d)' <=> (\E s \in TxnsOf(settled') : s[2] = d) \/ InTxns(work', d)
  BY DEF Begun, InTxns, TxnsOf

LEMMA BegunBy ==
  ASSUME TypeOK, HandshakeInv, WorkOK, [Next]_vars, NEW CONSTANT d \in Docs, Begun(d)'
  PROVE  \/ Begun(d)
         \/ PollTransactions /\ \E n : <<"txn", n, d>> \in Head(ResultLine)
         \/ ReceiveForBackend /\ \E n : <<"txn", n, d>> \in Head(ApiLine)
  <1>p. (\E s \in TxnsOf(settled') : s[2] = d) \/ InTxns(work', d)
    BY BegunPrimed
  <1>m. ASSUME InTxns(work', d) PROVE \E n : <<"txn", n, d>> \in WorkMarks'
    BY <1>m, WorkMarksOf DEF InTxns, TxnMark
  <1>1. CASE work' = work /\ settled' = settled
    BY <1>p, <1>1 DEF Begun
  <1>2. CASE SkipTransaction \/ Settle \/ NewFrameReady
    <2>1. /\ work # <<>> /\ Head(work) \in TxnsOf(work)
          /\ TxnsOf(work) = {Head(work)} \cup TxnsOf(Tail(work))
      BY <1>2, WorkHead
    <2>2. work' = work \/ work' = Tail(work)
      BY <1>2 DEF SkipTransaction, Settle, NewFrameReady, NextTransaction
    <2>3. \/ settled' = settled
          \/ settled' = Append(settled, <<Head(work).txn.id, Head(work).txn.doc>>)
      BY SettledBy
    <2>4. settled \in Seq(Nat \X Docs)
      BY DEF TypeOK, HistoryTypeOK
    <2>5. TxnsOf(settled') \subseteq TxnsOf(settled)
                                \cup {<<Head(work).txn.id, Head(work).txn.doc>>}
      BY <2>3, <2>4, MembersAppend
    <2>6. ASSUME NEW s \in TxnsOf(settled'), s[2] = d PROVE Begun(d)
      <3>1. CASE s \in TxnsOf(settled)
        BY <2>6, <3>1 DEF Begun
      <3>2. CASE s = <<Head(work).txn.id, Head(work).txn.doc>>
        <4>1. Head(work).txn.doc = d
          BY <2>6, <3>2
        <4> QED
          BY <2>1, <4>1 DEF Begun, InTxns
      <3> QED
        BY <2>5, <3>1, <3>2
    <2>7. InTxns(work', d) => Begun(d)
      BY <2>1, <2>2 DEF Begun, InTxns
    <2> QED
      BY <1>p, <2>6, <2>7
  <1>3. CASE PollTransactions
    <2>1. settled' = settled
      BY <1>3 DEF PollTransactions
    <2>2. WorkMarks' = Head(ResultLine)
      BY <1>3, PolledWork
    <2> QED
      BY <1>3, <1>m, <1>p, <2>1, <2>2 DEF Begun
  <1>4. CASE ReceiveForBackend
    <2>1. settled' = settled
      BY <1>4 DEF ReceiveForBackend
    <2>2. WorkMarks' = Head(ApiLine)
      BY <1>4, TakenWork
    <2> QED
      BY <1>4, <1>m, <1>p, <2>1, <2>2 DEF Begun
  <1> QED
    BY <1>1, <1>2, <1>3, <1>4, WorkUnchanged

LEMMA BegunAddedStep ==
  ASSUME TypeOK, HandshakeInv, LineInv, BegunAdded, [Next]_vars
  PROVE  BegunAdded'
  <1>l. LineTypeOK
    BY LineTypes DEF TypeOK
  <1>i. NumbersOK /\ WorkOK /\ BatchesWhole /\ \A d \in Docs : AddedFirst(d)
    BY DEF LineInv, DocumentsInLine
  <1> SUFFICES ASSUME NEW CONSTANT d \in Docs, Begun(d)'
               PROVE  life'[d] # "new" /\ ~Has(ApiLine', Addition(d))
    BY DEF BegunAdded
  <1>x. PICK y : y = Addition(d)
    OBVIOUS
  <1>w. ASSUME NEW n, Waiting(<<"txn", n, d>>)
        PROVE  life[d] # "new" /\ NeverBehind(y, <<"txn", n, d>>)
    <2>1. <<"txn", n, d>> \in TxnsFor(d)
      BY <1>i, <1>w, WaitingTxn
    <2> QED
      BY <1>i, <1>w, <1>x, <2>1 DEF AddedFirst
  <1>1. life[d] # "new" /\ (~Has(ApiLine, y) \/ ~Has(ApiLine', y))
    <2>1. CASE Begun(d)
      BY <1>x, <2>1 DEF BegunAdded
    <2>2. CASE PollTransactions /\ \E n : <<"txn", n, d>> \in Head(ResultLine)
      <3>1. PICK n : <<"txn", n, d>> \in Head(ResultLine)
        BY <2>2
      <3>2. ResultLine # <<>>
        BY <2>2, PolledMove DEF Polled
      <3>3. Has(ResultLine, <<"txn", n, d>>)
        BY <1>l, <3>1, <3>2, HasTail DEF LineTypeOK
      <3> QED
        BY <1>w, <3>3 DEF Waiting, NeverBehind, InLine
    <2>3. CASE ReceiveForBackend /\ \E n : <<"txn", n, d>> \in Head(ApiLine)
      <3>1. PICK n : <<"txn", n, d>> \in Head(ApiLine)
        BY <2>3
      <3>2. ApiLine # <<>> /\ ApiLine' = Tail(ApiLine)
        BY <2>3, TakenMove DEF Taken
      <3>3. Has(ApiLine, <<"txn", n, d>>)
        BY <1>l, <3>1, <3>2, HasTail DEF LineTypeOK
      <3>4. life[d] # "new" /\ NoneBehind(ApiLine, <<"txn", n, d>>, y)
        BY <1>w, <3>3 DEF Waiting, NeverBehind, InLine
      <3>5. ~Has(Tail(ApiLine), y)
        BY <1>l, <3>1, <3>2, <3>4, BehindTail DEF LineTypeOK
      <3> QED
        BY <3>2, <3>4, <3>5
    <2> QED
      BY <1>i, <2>1, <2>2, <2>3, BegunBy
  <1>2. CASE ~(\E m \in Menu : Send(m)) /\ ~(\E c \in Clients : Flush(c))
    <2>1. life' = life
      BY <1>2, NotSent
    <2>2. Has(ApiLine', y) => Has(ApiLine, y)
      BY <1>2, ApiGains
    <2> QED
      BY <1>x, <1>1, <2>1, <2>2
  <1>3. CASE \E w : /\ Arrived(w) /\ (life'[d] = "new" => life[d] = "new")
                    /\ Addition(d) \in w => life[d] = "new"
    <2>1. PICK w : /\ Arrived(w) /\ (life'[d] = "new" => life[d] = "new")
                   /\ y \in w => life[d] = "new"
      BY <1>x, <1>3
    <2>2. Has(ApiLine', y) => Has(ApiLine, y) \/ y \in w
      BY <1>l, <2>1, HasAppend DEF LineTypeOK, Arrived
    <2> QED
      BY <1>x, <1>1, <2>1, <2>2
  <1>4. \/ ~(\E m \in Menu : Send(m)) /\ ~(\E c \in Clients : Flush(c))
        \/ \E w : /\ Arrived(w) /\ (life'[d] = "new" => life[d] = "new")
                  /\ Addition(d) \in w => life[d] = "new"
    BY <1>i, SentLine
  <1> QED
    BY <1>2, <1>3, <1>4

LEMMA InfoPrimed ==
  ASSUME NEW CONSTANT d, NEW CONSTANT p
  PROVE  Reported(d, p)' <=> \/ p \in docs'[d].removed \/ <<d, p>> \in removed'
                             \/ InfoWith(outbox', d, p) \/ InfoWith(output', d, p)
  BY DEF Reported, InfoWith, TxnsOf

LEMMA InfoMoves ==
  ASSUME NEW S, NEW q \in Seq(S), NEW e, NEW d, NEW p
  PROVE  /\ InfoWith(Append(q, e), d, p) <=>
              \/ InfoWith(q, d, p)
              \/ e.type = "PublishPipelineInfo" /\ e.doc = d /\ p \in e.removed
         /\ q # <<>> => (InfoWith(q, d, p) <=>
              \/ InfoWith(Tail(q), d, p)
              \/ /\ Head(q).type = "PublishPipelineInfo" /\ Head(q).doc = d
                 /\ p \in Head(q).removed)
  <1>1. TxnsOf(Append(q, e)) = TxnsOf(q) \cup {e}
    BY MembersAppend
  <1>2. ASSUME q # <<>> PROVE TxnsOf(q) = {Head(q)} \cup TxnsOf(Tail(q))
    BY <1>2, MembersTail
  <1> QED
    BY <1>1, <1>2 DEF InfoWith

LEMMA PublishedInfo ==
  ASSUME NEW old, NEW t, PublishesInfo(old, t, required),
         NEW p, p \in ApplyFrameOps(old, t).removed
  PROVE  InfoWith(Published(old, t), t.doc, p)
  <1> DEFINE doc == ApplyFrameOps(old, t)
             i   == [type |-> "PublishPipelineInfo", doc |-> t.doc,
                     epochs |-> doc.scene.epochs, removed |-> doc.removed]
             f   == [type |-> "PublishDocument", doc |-> t.doc, lists |-> doc.scene.lists]
             r   == IF BuildsFrame(old, t, required) THEN <<f>> ELSE <<>>
  <1>1. Published(old, t) = <<i>> \o r
    BY DEF Published
  <1>2. i.type = "PublishPipelineInfo" /\ i.doc = t.doc /\ p \in i.removed
    OBVIOUS
  <1>r. r = <<>> \/ r = <<f>>
    OBVIOUS
  <1> HIDE DEF i, f, r
  <1>3. 1 \in DOMAIN (<<i>> \o r) /\ (<<i>> \o r)[1] = i
    <2>1. CASE r = <<>>
      BY <2>1
    <2>2. CASE r = <<f>>
      BY <2>2
    <2> QED
      BY <1>r, <2>1, <2>2
  <1> QED
    BY <1>1, <1>2, <1>3 DEF InfoWith, TxnsOf

(* A removed pipeline of a document that is brought up to date is sent, or *)
(* stays in the document.                                                  *)
LEMMA UpdateReports ==
  ASSUME TypeOK, NEW CONSTANT old \in Document, NEW CONSTANT t \in Transaction, t.doc \in Docs,
         UpdatesFrom(old, t), old.frameValid => CanRender(old),
         NEW CONSTANT p, p \in old.removed
  PROVE  p \in docs'[t.doc].removed \/ InfoWith(outbox', t.doc, p)
  <1>1. docs'[t.doc].removed = IF PublishesInfo(old, t, required) THEN {} ELSE old.removed
    BY UpdatedFrame
  <1>2. ApplyFrameOps(old, t).removed = old.removed
    BY UpdateMeans DEF TypeOK, BackendTypeOK
  <1>3. outbox' = Published(old, t)
    BY DEF UpdatesFrom
  <1> QED
    BY <1>1, <1>2, <1>3, PublishedInfo

LEMMA RemovedBy ==
  ASSUME [Next]_vars
  PROVE  removed' = removed \/ UpdatePipelineInfo
  <1>1. ASSUME Backend PROVE removed' = removed
    BY <1>1 DEF Backend, PollTransactions, PollFlushComplete, PollClearNamespace, PollNothing,
       NopDocument, SwapAndWait, Publish, SkipTransaction, ReceiveForBackend, NewFrameReady,
       Settle, UpdateTransaction, ResumeAndUpdate, ReceiveForSceneBuilder, rendererVars,
       ReceiveAddDocument, ReceiveDeleteDocument, ReceiveForwarded, ReceiveMemoryPressure,
       ReceiveWakeUp, ReceiveShutDown, Discard, Stopped
  <1>2. ASSUME SceneBuilder PROVE removed' = removed
    BY <1>2 DEF SceneBuilder, BuildTransactions, BuilderDeleteDocument, BuilderFlush,
       BuilderClearNamespace, BuilderStop, WakeBackend, ReceiveSwap, PostSceneSwap, rendererVars
  <1>3. ASSUME Renderer PROVE removed' = removed \/ UpdatePipelineInfo
    BY <1>3 DEF Renderer, RendererWake, UpdateDone, UpdateDocumentFrame, UpdateNotifications,
       UpdateResources, Render
  <1>4. ASSUME ~Backend, ~SceneBuilder, ~Renderer PROVE removed' = removed
    BY <1>4 DEF Next, vars, Rest, Send, Flush, LowForward, rendererVars
  <1> QED
    BY <1>1, <1>2, <1>3, <1>4, Zenon

(* A report on its way gets through ...                                    *)
LEMMA SentReports ==
  ASSUME TypeOK, [Next]_vars, NEW CONSTANT d \in Docs, NEW CONSTANT p,
         \/ <<d, p>> \in removed
         \/ InfoWith(outbox, d, p) \/ InfoWith(output, d, p)
  PROVE  <<d, p>> \in removed' \/ InfoWith(outbox', d, p) \/ InfoWith(output', d, p)
  <1>t. output \in Seq(ResultMsg) /\ outbox \in Seq(ResultMsg)
    BY DEF TypeOK, ChannelTypeOK, BackendTypeOK
  <1>e. InfoWith(outbox, d, p) => outbox # <<>>
    BY DEF InfoWith, TxnsOf
  <1>1. CASE <<d, p>> \in removed
    <2>1. <<d, p>> \in removed'
      BY <1>1, RemovedBy DEF UpdatePipelineInfo
    <2> QED
      BY <2>1
  <1>2. CASE InfoWith(output, d, p)
    <2>1. CASE UpdatePipelineInfo
      <3>1. PICK m : m = Head(output)
        OBVIOUS
      <3>2. /\ output # <<>> /\ output' = Tail(output)
            /\ removed' = removed \cup ({m.doc} \X m.removed)
        BY <2>1, <3>1 DEF UpdatePipelineInfo, Updates
      <3>3. InfoWith(output', d, p) \/ (m.doc = d /\ p \in m.removed)
        BY <1>2, <1>t, <3>1, <3>2, InfoMoves
      <3> QED
        BY <3>2, <3>3
    <2>2. CASE UpdateDocumentFrame \/ UpdateNotifications \/ UpdateResources
      <3>1. /\ output # <<>> /\ output' = Tail(output)
            /\ Head(output).type # "PublishPipelineInfo"
        BY <2>2 DEF UpdateDocumentFrame, UpdateNotifications, UpdateResources, Updates
      <3>2. InfoWith(output', d, p)
        BY <1>2, <1>t, <3>1, InfoMoves
      <3> QED
        BY <3>2
    <2>3. CASE output' = output
      BY <1>2, <2>3
    <2>4. CASE \E e : output' = Append(output, e)
      <3>1. PICK e : output' = Append(output, e)
        BY <2>4
      <3>2. InfoWith(output', d, p)
        BY <1>2, <1>t, <3>1, InfoMoves
      <3> QED
        BY <3>2
    <2>5. Publish \/ Settle \/ ReceiveMemoryPressure =>
            output' = output \/ \E e : output' = Append(output, e)
      BY DEF Publish, Settle, ReceiveMemoryPressure
    <2>6. Render => output' = output
      BY DEF Render
    <2> QED
      BY <2>1, <2>2, <2>3, <2>4, <2>5, <2>6, HandedBy
  <1>3. CASE InfoWith(outbox, d, p)
    <2>1. CASE Publish
      <3>1. PICK e : e = Head(outbox)
        OBVIOUS
      <3>2. output' = Append(output, e) /\ outbox' = Tail(outbox) /\ outbox # <<>>
        BY <2>1, <3>1 DEF Publish
      <3>3. \/ InfoWith(outbox', d, p)
            \/ e.type = "PublishPipelineInfo" /\ e.doc = d /\ p \in e.removed
        BY <1>3, <1>t, <3>1, <3>2, InfoMoves
      <3>4. /\ e.type = "PublishPipelineInfo" /\ e.doc = d /\ p \in e.removed
            => InfoWith(output', d, p)
        BY <1>t, <3>2, InfoMoves
      <3> QED
        BY <3>3, <3>4
    <2>2. CASE ~Publish
      <3>1. outbox' = outbox
        <4>1. CASE Backend
          BY <1>3, <1>e, <2>2, <4>1 DEF At, Backend, PollTransactions, Receives,
             PollFlushComplete, PollClearNamespace, PollNothing, NopDocument, SwapAndWait,
             SkipTransaction, ReceiveForBackend, NewFrameReady, Settle,
             UpdateTransaction, ResumeAndUpdate, ReceiveForSceneBuilder, backendVars,
             ReceiveAddDocument, ReceiveDeleteDocument, ReceiveForwarded, ReceiveMemoryPressure,
             ReceiveWakeUp, ReceiveShutDown, Discard, Stopped
        <4>2. CASE SceneBuilder \/ Renderer
          BY <4>2 DEF SceneBuilder, Renderer, backendVars,
             BuildTransactions, BuilderDeleteDocument, BuilderFlush, BuilderClearNamespace,
             BuilderStop, WakeBackend, ReceiveSwap, PostSceneSwap, RendererWake, UpdateDone,
             UpdatePipelineInfo, UpdateDocumentFrame, UpdateNotifications, UpdateResources, Render
        <4> QED
          BY <4>1, <4>2 DEF Next, vars, backendVars, Rest, Send, Flush, LowForward
      <3> QED
        BY <1>3, <3>1
    <2> QED
      BY <2>1, <2>2
  <1> QED
    BY <1>1, <1>2, <1>3

(* ... and one that waits in the document is sent, while it is there.      *)
LEMMA ReportedKept ==
  ASSUME TypeOK, HandshakeInv, FrameInv, [Next]_vars, NEW CONSTANT d \in Docs, NEW CONSTANT p,
         d \in alive', Reported(d, p)
  PROVE  Reported(d, p)'
  <1>d. docs \in [Docs -> Document]
    BY DEF TypeOK, BackendTypeOK
  <1>i. ScenesRender /\ \A e \in Docs : FrameOwner(e)
    BY DEF FrameInv
  <1> SUFFICES ASSUME p \in docs[d].removed PROVE Reported(d, p)'
    BY SentReports, InfoPrimed DEF Reported
  <1>1. CASE \E old, t : UpdatedBy(d, old, t)
    <2>1. PICK old, t : UpdatedBy(d, old, t)
      BY <1>1
    <2>2. p \in docs'[t.doc].removed \/ InfoWith(outbox', t.doc, p)
      BY <2>1, UpdateReports DEF UpdatedBy
    <2> QED
      BY <2>1, <2>2, InfoPrimed DEF UpdatedBy
  <1>2. CASE \E old, t : UpdatesFrom(old, t) /\ t.doc # d /\ t.doc \in Docs
    <2>1. docs'[d] = docs[d]
      BY <1>2, <1>d DEF UpdatesFrom
    <2> QED
      BY <2>1, InfoPrimed
  <1>3. CASE ~(\E e \in Docs : NopDocument(e)) /\ ~UpdateTransaction /\ ~ResumeAndUpdate
    <2>1. docs[d].removed \subseteq docs'[d].removed
      BY <1>i, <1>3, OtherDocs
    <2> QED
      BY <2>1, InfoPrimed
  <1> QED
    BY <1>i, <1>1, <1>2, <1>3, UpdatedBySome

LEMMA AliveGains ==
  ASSUME [Next]_vars, NEW d, d \in alive', d \notin alive
  PROVE  ReceiveAddDocument /\ Head(api).doc = d
  <1>1. ASSUME \/ PollTransactions \/ PollFlushComplete \/ PollClearNamespace \/ PollNothing
               \/ Publish \/ (\E e \in Docs : NopDocument(e)) \/ SkipTransaction \/ SwapAndWait
               \/ UpdateTransaction \/ ResumeAndUpdate \/ Settle \/ NewFrameReady
        PROVE  alive' \subseteq alive
    BY <1>1 DEF PollTransactions, PollFlushComplete, PollClearNamespace, PollNothing,
       Publish, NopDocument, SwapAndWait, SkipTransaction, Settle, NewFrameReady,
       UpdateTransaction, ResumeAndUpdate, backendVars
  <1>2. ASSUME \/ ReceiveForSceneBuilder \/ ReceiveForBackend \/ ReceiveDeleteDocument
               \/ ReceiveForwarded \/ ReceiveMemoryPressure \/ ReceiveWakeUp \/ ReceiveShutDown
               \/ Discard \/ Stopped
        PROVE  alive' \subseteq alive
    BY <1>2 DEF ReceiveForSceneBuilder, ReceiveForBackend, ReceiveDeleteDocument,
       ReceiveForwarded, ReceiveMemoryPressure, ReceiveWakeUp, ReceiveShutDown, Discard, Stopped, backendVars
  <1>3. ~Backend => alive' = alive
    BY OnlyBackend
  <1>4. alive' \subseteq alive \/ ReceiveAddDocument
    BY <1>1, <1>2, <1>3, Zenon DEF Backend
  <1> QED
    BY <1>4 DEF ReceiveAddDocument

LEMMA StillHead ==
  ASSUME [Next]_vars, rbPc' \in {"resume", "settle"}
  PROVE  /\ work' = work
         /\ \/ rbPc' = rbPc \/ SwapAndWait \/ UpdateTransaction \/ rbPc = "resume"
  <1>1. CASE Idle \/ Publish \/ Draws \/ Builder \/ \E d \in Docs : NopDocument(d)
    BY <1>1 DEF Idle, Publish, Draws, UpdatePipelineInfo, UpdateDocumentFrame, NopDocument,
       UpdateNotifications, UpdateResources, Builder, BuildTransactions, BuilderFlush,
       BuilderClearNamespace, BuilderStop, PollFlushComplete, Discard, backendVars
  <1>2. CASE SwapAndWait \/ UpdateTransaction
    BY <1>2 DEF SwapAndWait, UpdateTransaction
  <1>3. CASE ResumeAndUpdate
    BY <1>3 DEF ResumeAndUpdate, At
  <1>4. CASE PollClearNamespace
    BY <1>4 DEF PollClearNamespace
  <1>5. CASE \/ PollTransactions \/ Stopped \/ SkipTransaction \/ Settle \/ NewFrameReady
             \/ ReceiveForSceneBuilder \/ ReceiveForBackend
             \/ ReceiveAddDocument \/ ReceiveDeleteDocument \/ ReceiveMemoryPressure
    BY <1>5 DEF PollTransactions, Stopped, SkipTransaction, Settle, NewFrameReady,
       NextTransaction, ReceiveForSceneBuilder, ReceiveForBackend, ReceiveAddDocument,
       ReceiveDeleteDocument, ReceiveMemoryPressure
  <1> QED
    BY <1>1, <1>2, <1>3, <1>4, <1>5, FrameSteps

LEMMA AppliedBy ==
  ASSUME TypeOK, HandshakeInv, WorkOK, [Next]_vars, NEW CONSTANT n, NEW CONSTANT d, Applied(n, d)'
  PROVE  \/ Applied(n, d)
         \/ (SkipTransaction \/ SwapAndWait \/ UpdateTransaction) /\ IsHead(n, d)
  <1>1. CASE SettledMark(n, d)' /\ ~SettledMark(n, d)
    <2>1. SkipTransaction \/ Settle \/ NewFrameReady
      <3>1. PollTransactions \/ ReceiveForBackend => settled' = settled
        BY DEF PollTransactions, ReceiveForBackend
      <3>2. settled' # settled
        BY <1>1 DEF SettledMark
      <3> QED
        BY <3>1, <3>2, WorkUnchanged
    <2>2. n = Head(work).txn.id /\ d = Head(work).txn.doc
      BY <1>1, <2>1, SettledWork
    <2>3. work # <<>>
      BY <2>1, WorkHead
    <2>4. ~NewFrameReady
      BY <1>1 DEF NewFrameReady, SettledMark
    <2>5. Settle => rbPc = "settle"
      BY DEF Settle, At
    <2> QED
      BY <2>1, <2>2, <2>3, <2>4, <2>5 DEF Applied, IsHead
  <1>2. CASE SettledMark(n, d)
    BY <1>2 DEF Applied
  <1>3. CASE rbPc' \in {"resume", "settle"} /\ IsHead(n, d)'
    <2>1. work' = work /\ (rbPc' = rbPc \/ SwapAndWait \/ UpdateTransaction \/ rbPc = "resume")
      BY <1>3, StillHead
    <2>2. IsHead(n, d)
      BY <1>3, <2>1 DEF IsHead
    <2> QED
      BY <1>3, <2>1, <2>2 DEF Applied
  <1>4. SettledMark(n, d)' \/ (rbPc' \in {"resume", "settle"} /\ IsHead(n, d)')
    BY DEF Applied
  <1> QED
    BY <1>1, <1>2, <1>3, <1>4

LEMMA AppliedMeans ==
  ASSUME TypeOK, NumbersOK, WorkOK, NEW n, NEW d, Applied(n, d) \/ IsHead(n, d)
  PROVE  n \in 1..sends /\ Begun(d)
  <1>1. CASE SettledMark(n, d)
    <2>1. <<n, d>> \in TxnsOf(settled)
      BY <1>1 DEF SettledMark, TxnsOf
    <2> QED
      BY <2>1 DEF NumbersOK, Begun
  <1>2. CASE IsHead(n, d)
    <2>1. Head(work) \in TxnsOf(work)
      BY <1>2, MembersTail DEF IsHead, TypeOK, BackendTypeOK
    <2> QED
      BY <1>2, <2>1 DEF IsHead, WorkOK, Begun, InTxns
  <1> QED
    BY <1>1, <1>2 DEF Applied

(* The removals of the first transaction are those that were asked for.    *)
LEMMA HeadRemoves ==
  ASSUME TypeOK, NumbersOK, BuiltOK, NEW t \in sent, IsHead(t.id, t.doc)
  PROVE  Head(work).txn.removes = t.removes
  <1>1. Head(work) \in TxnsOf(work)
    BY MembersTail DEF IsHead, TypeOK, BackendTypeOK
  <1>2. PICK u \in sent : Head(work).txn \in {u, Stripped(u)}
    BY <1>1 DEF BuiltOK
  <1>3. u \in Transaction
    BY DEF TypeOK, ClientTypeOK
  <1>4. /\ Head(work).txn.id = u.id /\ Head(work).txn.doc = u.doc
        /\ Head(work).txn.removes = u.removes
    BY <1>2, <1>3 DEF Stripped, Transaction
  <1>5. u = t
    BY <1>4, SentOnce DEF IsHead
  <1> QED
    BY <1>4, <1>5

LEMMA RemovalsKeptStep ==
  ASSUME TypeOK, HandshakeInv, LineInv, BuiltOK, FrameInv, BegunAdded, RemovalsKept, [Next]_vars
  PROVE  RemovalsKept'
  <1>i. NumbersOK /\ WorkOK /\ ScenesRender
    BY DEF LineInv, FrameInv
  <1> SUFFICES ASSUME NEW CONSTANT t, t \in sent', Applied(t.id, t.doc)', t.doc \in alive',
                      NEW CONSTANT p \in t.removes
               PROVE  Reported(t.doc, p)'
    BY DEF RemovalsKept
  <1>n. PICK n, d : n = t.id /\ d = t.doc
    OBVIOUS
  <1>a. \/ Applied(n, d)
        \/ (SkipTransaction \/ SwapAndWait \/ UpdateTransaction) /\ IsHead(n, d)
    BY <1>i, <1>n, AppliedBy
  <1>b. n \in 1..sends /\ Begun(d)
    BY <1>a, <1>i, AppliedMeans
  <1>t. t \in sent /\ t \in Transaction /\ d \in Docs
    <2>1. Batch(n)' = Batch(n)
      BY <1>b, <1>i, BatchKept
    <2>2. t \in Batch(n)'
      BY <1>n DEF Batch
    <2>3. t \in sent
      BY <2>1, <2>2 DEF Batch
    <2> QED
      BY <1>n, <2>3 DEF TypeOK, ClientTypeOK, Transaction
  <1>d. d \in alive
    <2>1. SUFFICES ASSUME d \notin alive PROVE FALSE
      OBVIOUS
    <2>2. ReceiveAddDocument /\ Head(api).doc = d
      BY <1>n, <2>1, AliveGains
    <2>3. ApiLine # <<>> /\ Head(ApiLine) = MarksOf(Head(api))
      BY <2>2, TakenMove DEF Taken
    <2>4. Addition(d) \in Head(ApiLine)
      BY <2>2, <2>3 DEF ReceiveAddDocument, Receives, MarksOf, Addition
    <2>5. LineTypeOK
      BY LineTypes DEF TypeOK
    <2>6. Has(ApiLine, Addition(d))
      BY <2>3, <2>4, <2>5, HasTail DEF LineTypeOK
    <2> QED
      BY <1>b, <1>t, <2>6 DEF BegunAdded
  <1>r. ASSUME Reported(d, p) PROVE Reported(d, p)'
    BY <1>n, <1>r, <1>t, ReportedKept
  <1>1. CASE Applied(n, d)
    BY <1>1, <1>d, <1>n, <1>r, <1>t DEF RemovalsKept
  <1>2. CASE SkipTransaction /\ IsHead(n, d)
    BY <1>2, <1>d DEF SkipTransaction, IsHead
  <1>3. CASE (SwapAndWait \/ UpdateTransaction) /\ IsHead(n, d)
    <2>1. p \in Swapped.removed
      <3>1. Head(work).txn.removes = t.removes
        BY <1>3, <1>i, <1>n, <1>t, HeadRemoves
      <3> QED
        BY <1>3, <1>i, <3>1, SwappedMeans DEF IsHead
    <2>2. CASE SwapAndWait
      <3>1. docs' = [docs EXCEPT ![d] = Swapped]
        BY <1>3, <2>2 DEF SwapAndWait, Swapped, IsHead
      <3>2. p \in docs'[d].removed
        BY <1>t, <2>1, <3>1 DEF TypeOK, BackendTypeOK
      <3> QED
        BY <1>n, <3>2, InfoPrimed
    <2>3. CASE UpdateTransaction
      <3>1. PICK old, u : old = Swapped /\ u = Head(work).txn
        OBVIOUS
      <3>2. work # <<>> /\ UpdatesFrom(old, u) /\ u.doc = d
        BY <1>3, <2>3, <3>1, UpdatingSteps DEF IsHead
      <3>3. u \in Transaction /\ old \in Document
        BY <1>i, <3>1, <3>2, HeadRenders, SwappedMeans
      <3>4. old.frameValid => CanRender(old)
        BY <1>i, <1>t, <3>1, <3>2, SwappedMeans DEF FrameInv, FrameOwner
      <3>5. p \in docs'[u.doc].removed \/ InfoWith(outbox', u.doc, p)
        BY <1>t, <2>1, <3>1, <3>2, <3>3, <3>4, UpdateReports
      <3> QED
        BY <1>n, <3>2, <3>5, InfoPrimed
    <2> QED
      BY <1>3, <2>2, <2>3
  <1> QED
    BY <1>1, <1>2, <1>3, <1>a

(* A removed pipeline is reported to the embedder, for any documents,      *)
(* batches, hooks and priorities: once its transaction has settled, and    *)
(* while its document lives, it is in the document, on its way to the      *)
(* renderer, or there (Document::removed_pipelines, PipelineInfo).         *)
THEOREM RemovalArrives == Spec => []RemovalReported
  <1>1. Init => BegunAdded /\ RemovalsKept
    BY DEF Init, BegunAdded, Begun, InTxns, RemovalsKept, TxnsOf
  <1>2. Init => FrameInv /\ NotifyInv
    BY FrameStart, NotifyStart
  <1>3. /\ TypeOK /\ HandshakeInv /\ LineInv /\ NotifyInv /\ FrameInv /\ BegunAdded
        /\ RemovalsKept /\ [Next]_vars
        => BegunAdded' /\ RemovalsKept' /\ FrameInv' /\ NotifyInv'
    BY BegunAddedStep, RemovalsKeptStep, FrameStep, NotifyStep DEF NotifyInv
  <1>4. ASSUME TypeOK, RemovalsKept PROVE RemovalReported
    <2> SUFFICES ASSUME NEW t \in sent, Settled(t), t.doc \in alive, NEW p \in t.removes
                 PROVE  \/ p \in docs[t.doc].removed
                        \/ <<t.doc, p>> \in removed
                        \/ \E m \in TxnsOf(outbox \o output) :
                             /\ m.type = "PublishPipelineInfo"
                             /\ m.doc = t.doc /\ p \in m.removed
      BY DEF RemovalReported
    <2>1. Reported(t.doc, p)
      BY <1>4 DEF RemovalsKept, Applied, SettledMark, Settled
    <2>2. TxnsOf(outbox) \cup TxnsOf(output) \subseteq TxnsOf(outbox \o output)
      BY <1>4, MembersJoined DEF TypeOK, ChannelTypeOK, BackendTypeOK
    <2> QED
      BY <2>1, <2>2 DEF Reported, InfoWith
  <1> QED
    BY <1>1, <1>2, <1>3, <1>4, InLineAlways, PTL DEF Spec
=============================================================================
