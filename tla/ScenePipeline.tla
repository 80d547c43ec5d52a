--------------------------- MODULE ScenePipeline ---------------------------
(***************************************************************************)
(* The threads between RenderApi and the screen, and the channels that     *)
(* join them:                                                              *)
(*                                                                         *)
(*   clients --api--> render backend --highScene--> scene builder          *)
(*                       |    \--lowScene--> low priority --highScene--^   *)
(*                       |    <--sceneResults-- scene builder              *)
(*                       `--output--> renderer                             *)
(*                                                                         *)
(* The scene builder follows each result by a WakeUp on `api', and with    *)
(* hooks installed it then waits for the render backend to take the scene  *)
(* (the swap channel) while the render backend waits for post_scene_swap   *)
(* to return (the resume channel).                                         *)
(***************************************************************************)
EXTENDS SceneDocument, FiniteSets

CONSTANTS
  Clients,     \* RenderApi instances that may block on flush_scene_builder
  Menu,        \* the messages the clients may send
  InitialDocs, \* documents added before the behaviour starts
  Namespaces,  \* client namespaces (IdNamespace)
  NamespaceOf, \* [Docs -> Namespaces], DocumentId::namespace_id
  Hooks,       \* whether SceneBuilderHooks are installed
  MayReclaim,  \* whether prepare_for_frames may decide to clear a cache
  MaxSends     \* BOUND on the messages the clients send

(* ApiMsg, without the messages that only query.                           *)
ApiMsg ==
  [type : {"UpdateDocuments"}, txns : Seq(Transaction)]
    \cup [type : {"AddDocument", "DeleteDocument"}, doc : Docs]
    \cup [type : {"ClearNamespace"}, ns : Namespaces]
    \cup [type : {"FlushSceneBuilder"}, client : Clients]
    \cup [type : {"MemoryPressure", "ShutDown", "WakeUp"}]

(* A batch of send_transactions holds one transaction for each of its      *)
(* documents.                                                              *)
IsBatch(txns) ==
  /\ txns # <<>>
  /\ \A i, j \in DOMAIN txns : txns[i].doc = txns[j].doc => i = j

ASSUME PipelineAssumption ==
  /\ InitialDocs \subseteq Docs
  /\ NamespaceOf \in [Docs -> Namespaces]
  /\ Hooks \in BOOLEAN /\ MayReclaim \in BOOLEAN
  /\ MaxSends \in Nat

ASSUME MenuAssumption ==
  /\ Menu \subseteq ApiMsg
  /\ \A m \in Menu : /\ m.type \notin {"FlushSceneBuilder", "WakeUp"}
                     /\ m.type = "UpdateDocuments" => IsBatch(m.txns)

(* SceneBuilderRequest and SceneBuilderResult.                             *)
SceneRequest ==
  [type : {"Transactions"}, txns : Seq(Transaction)]
    \cup [type : {"DeleteDocument"}, doc : Docs]
    \cup [type : {"ClearNamespace"}, ns : Namespaces]
    \cup [type : {"Flush"}, client : Clients]
    \cup [type : {"Stop"}]

BuiltTransaction == [txn : Transaction, built : Scene]

SceneResult ==
  [type : {"Transactions"}, txns : Seq(BuiltTransaction), swap : BOOLEAN]
    \cup [type : {"ClearNamespace"}, ns : Namespaces]
    \cup [type : {"FlushComplete"}, client : Clients]
    \cup [type : {"Stopped"}]

(* A NotificationRequest, named by where it comes from.                    *)
Request == Nat \X Docs \X Checkpoints

RequestsOf(t) == {<<t.id, t.doc, when>> : when \in t.notifs}

(* ResultMsg: what the render backend sends to the renderer.               *)
ResultMsg ==
  [type : {"PublishPipelineInfo"}, doc : Docs, epochs : [Pipelines -> Nat],
   removed : SUBSET Pipelines]
    \cup [type : {"PublishDocument"}, doc : Docs, lists : [Pipelines -> Nat]]
    \cup [type : {"AppendNotificationRequests"}, requests : SUBSET Request]
    \cup [type : {"UpdateResources"}]

VARIABLES
  life,         \* [Docs -> {"new", "open", "closed"}], what the clients know of them
  sends,        \* number of messages sent
  flushing,     \* [Clients -> Nat]: the flush each client is blocked on, or 0
  closing,      \* a client has sent ShutDown
  api, lowScene, highScene, sceneResults, output,   \* the channels
  rbPc,         \* where the render backend is
  alive, docs,  \* RenderBackend::documents
  work,         \* what is left of the transactions being applied
  outbox,       \* frame messages of update_document not yet sent
  nops,         \* documents still owed a nop transaction
  required,     \* requires_frame_build()
  swapTx,       \* the render backend's end of the swap channel: "closed" when
                \* it holds the sender and the receiver is gone
  sbPc,         \* where the scene builder is
  sbAlive, sbScene, \* SceneBuilderThread::documents
  swapQueue,    \* the swap channel
  resume,       \* the resume channel
  rPc,          \* where the renderer is
  woken,        \* the embedder was told to update and render
  info, removed, active, frame, uploads, requests,  \* Renderer
  sent, settled, answered, fired   \* history

clientVars   == <<life, sends, flushing, closing, sent>>
sbVars       == <<sbPc, sbAlive, sbScene>>
swapVars     == <<swapQueue, resume>>
backendVars  == <<rbPc, alive, docs, work, outbox, nops, required, swapTx>>
rendererVars == <<rPc, info, removed, active, frame, uploads, requests>>
vars == <<clientVars, api, lowScene, highScene, sceneResults, output, backendVars,
          sbVars, swapVars, rendererVars, woken, settled, answered, fired>>

ClientTypeOK ==
  /\ life \in [Docs -> {"new", "open", "closed"}]
  /\ sends \in Nat /\ flushing \in [Clients -> Nat]
  /\ closing \in BOOLEAN /\ sent \subseteq Transaction

ChannelTypeOK ==
  /\ api \in Seq(ApiMsg)
  /\ lowScene \in Seq(SceneRequest) /\ highScene \in Seq(SceneRequest)
  /\ sceneResults \in Seq(SceneResult)
  /\ output \in Seq(ResultMsg)
  /\ woken \in BOOLEAN

BackendTypeOK ==
  /\ rbPc \in {"poll", "api", "apply", "resume", "settle", "notify", "stopping",
                "done", "panicked"}
  /\ alive \subseteq Docs /\ docs \in [Docs -> Document]
  /\ work \in Seq(BuiltTransaction) /\ outbox \in Seq(ResultMsg)
  /\ nops \subseteq Docs /\ required \in BOOLEAN
  /\ swapTx \in {"none", "open", "closed"}

BuilderTypeOK ==
  /\ sbPc \in {"recv", "wake", "wakeSwap", "swap", "hook", "hookResume", "done"}
  /\ sbAlive \subseteq Docs /\ sbScene \in [Docs -> Scene]
  /\ swapQueue \in Seq({"Complete", "Aborted"})
  /\ resume \in {"none", "waiting", "sent", "dropped"}

RendererTypeOK ==
  /\ rPc \in {"idle", "update", "render"}
  /\ info \in [Docs -> [Pipelines -> Nat]] /\ removed \subseteq Docs \X Pipelines
  /\ active \subseteq Docs /\ frame \in [Docs -> [Pipelines -> Nat]]
  /\ uploads \in BOOLEAN /\ requests \subseteq Request

HistoryTypeOK ==
  /\ settled \in Seq(Nat \X Docs) /\ answered \subseteq Nat \X Docs
  /\ fired \subseteq Request \X (Checkpoints \cup {"TransactionDropped"})

TypeOK == /\ ClientTypeOK /\ ChannelTypeOK /\ BackendTypeOK
          /\ BuilderTypeOK /\ RendererTypeOK /\ HistoryTypeOK

Init ==
  /\ life = [d \in Docs |-> IF d \in InitialDocs THEN "open" ELSE "new"] /\ sends = 0 /\ closing = FALSE /\ sent = {}
  /\ flushing = [c \in Clients |-> 0]
  /\ api = <<>> /\ lowScene = <<>> /\ highScene = <<>>
  /\ sceneResults = <<>> /\ output = <<>>
  /\ rbPc = "poll" /\ alive = InitialDocs
  /\ docs = [d \in Docs |-> NewDocument]
  /\ work = <<>> /\ outbox = <<>> /\ nops = {} /\ required = FALSE /\ swapTx = "none"
  /\ sbPc = "recv" /\ sbAlive = {} /\ sbScene = [d \in Docs |-> EmptyScene]
  /\ swapQueue = <<>> /\ resume = "none"
  /\ rPc = "idle" /\ woken = FALSE
  /\ info = [d \in Docs |-> [p \in Pipelines |-> 0]] /\ removed = {}
  /\ active = {} /\ frame = [d \in Docs |-> [p \in Pipelines |-> 0]]
  /\ uploads = FALSE /\ requests = {}
  /\ settled = <<>> /\ answered = {} /\ fired = {}

-----------------------------------------------------------------------------
(* The clients.                                                            *)

Fire(reqs)  == {<<r, r[3]>> : r \in reqs}
Dropped(reqs) == {<<r, "TransactionDropped">> : r \in reqs}

TxnsOf(txns) == {txns[i] : i \in DOMAIN txns}
DocsOf(txns) == {txns[i].doc : i \in DOMAIN txns}

(* The message as sent: its transactions carry its number.                 *)
Numbered(m, n) ==
  IF m.type = "UpdateDocuments"
  THEN [m EXCEPT !.txns = [i \in DOMAIN @ |-> [@[i] EXCEPT !.id = n]]]
  ELSE m

(* A client uses a document between adding and deleting it; ids are fresh. *)
MaySend(m) ==
  CASE m.type = "UpdateDocuments" -> \A d \in DocsOf(m.txns) : life[d] = "open"
    [] m.type = "DeleteDocument"  -> life[m.doc] = "open"
    [] m.type = "AddDocument"     -> life[m.doc] = "new"
    [] OTHER -> TRUE

LifeAfter(m) ==
  CASE m.type = "AddDocument"    -> [life EXCEPT ![m.doc] = "open"]
    [] m.type = "DeleteDocument" -> [life EXCEPT ![m.doc] = "closed"]
    [] m.type = "ClearNamespace" ->
         [d \in Docs |-> IF NamespaceOf[d] = m.ns THEN "closed" ELSE life[d]]
    [] OTHER -> life

(* RenderApi::send_transaction(s), add_document, delete_document,          *)
(* notify_memory_pressure, shut_down, and Drop (ClearNamespace).           *)
Send(m) ==
  /\ sends < MaxSends /\ ~closing
  /\ MaySend(m)
  /\ sends' = sends + 1
  /\ life' = LifeAfter(m)
  /\ closing' = (m.type = "ShutDown")
  /\ api' = Append(api, Numbered(m, sends + 1))
  /\ sent' = IF m.type = "UpdateDocuments"
             THEN sent \cup TxnsOf(Numbered(m, sends + 1).txns)
             ELSE sent
  /\ UNCHANGED <<flushing, lowScene, highScene, sceneResults, output, backendVars,
                 sbVars, swapVars, rendererVars, woken, settled, answered, fired>>

(* RenderApi::flush_scene_builder, which blocks the client.                *)
Flush(c) ==
  /\ sends < MaxSends /\ ~closing
  /\ flushing[c] = 0
  /\ sends' = sends + 1
  /\ flushing' = [flushing EXCEPT ![c] = sends + 1]
  /\ api' = Append(api, [type |-> "FlushSceneBuilder", client |-> c])
  /\ UNCHANGED <<life, closing, sent, lowScene, highScene, sceneResults, output,
                 backendVars, sbVars, swapVars, rendererVars, woken, settled,
                 answered, fired>>
-----------------------------------------------------------------------------
(* RenderBackend::run.  Each turn of the loop first drains sceneResults    *)
(* ("poll"), then blocks on api for one message ("api").                   *)

At(pc) == rbPc = pc /\ outbox = <<>>

(* prepare_for_frames, and the nop transactions maybe_force_nop_documents  *)
(* owes to the documents that are not among `present'.                     *)
PrepareForFrames(present, reclaim) ==
  /\ reclaim => MayReclaim
  /\ required' = (required \/ reclaim)
  /\ nops' = IF required' THEN alive \ present ELSE {}

(* SceneBuilderResult::Transactions.                                       *)
PollTransactions ==
  /\ At("poll") /\ sceneResults # <<>>
  /\ Head(sceneResults).type = "Transactions"
  /\ \E reclaim \in BOOLEAN :
       PrepareForFrames({b.txn.doc : b \in TxnsOf(Head(sceneResults).txns)}, reclaim)
  /\ work' = Head(sceneResults).txns
  /\ swapTx' = IF Head(sceneResults).swap THEN "open" ELSE "none"
  /\ rbPc' = "apply"
  /\ sceneResults' = Tail(sceneResults)
  /\ UNCHANGED <<clientVars, api, lowScene, highScene, output, alive, docs, outbox, sbVars,
                 swapVars, rendererVars, woken, settled, answered, fired>>

(* SceneBuilderResult::FlushComplete.                                      *)
PollFlushComplete ==
  /\ At("poll") \/ At("stopping")
  /\ sceneResults # <<>>
  /\ Head(sceneResults).type = "FlushComplete"
  /\ flushing' = [flushing EXCEPT ![Head(sceneResults).client] = 0]
  /\ sceneResults' = Tail(sceneResults)
  /\ UNCHANGED <<life, sends, closing, sent, api, lowScene, highScene, output,
                 backendVars, sbVars, swapVars, rendererVars, woken, settled,
                 answered, fired>>

(* SceneBuilderResult::ClearNamespace.                                     *)
PollClearNamespace ==
  /\ At("poll") /\ sceneResults # <<>>
  /\ Head(sceneResults).type = "ClearNamespace"
  /\ alive' = {d \in alive : NamespaceOf[d] # Head(sceneResults).ns}
  /\ docs' = [d \in Docs |-> IF d \in alive' THEN docs[d] ELSE NewDocument]
  /\ sceneResults' = Tail(sceneResults)
  /\ UNCHANGED <<clientVars, api, lowScene, highScene, output, rbPc, work, outbox, nops,
                 required, swapTx, sbVars, swapVars, rendererVars, woken, settled,
                 answered, fired>>

(* scene_rx.try_recv() has nothing left.                                   *)
PollNothing ==
  /\ At("poll") /\ sceneResults = <<>>
  /\ rbPc' = "api"
  /\ UNCHANGED <<clientVars, api, lowScene, highScene, sceneResults, output, alive,
                 docs, work, outbox, nops, required, swapTx, sbVars, swapVars, rendererVars,
                 woken, settled, answered, fired>>

-----------------------------------------------------------------------------
(* Applying transactions: update_document, for the nop documents first.    *)

(* The frame that update_document publishes, in the order it is sent.      *)
Published(old, t) ==
  LET doc == ApplyFrameOps(old, t)
  IN (IF PublishesInfo(old, t, required)
      THEN <<[type |-> "PublishPipelineInfo", doc |-> t.doc,
              epochs |-> doc.scene.epochs, removed |-> doc.removed]>>
      ELSE <<>>)
     \o (IF BuildsFrame(old, t, required)
         THEN <<[type |-> "PublishDocument", doc |-> t.doc, lists |-> doc.scene.lists]>>
         ELSE <<>>)

Publish ==
  /\ outbox # <<>>
  /\ output' = Append(output, Head(outbox))
  /\ outbox' = Tail(outbox)
  /\ UNCHANGED <<clientVars, api, lowScene, highScene, sceneResults, rbPc, alive, docs,
                 work, nops, required, swapTx, sbVars, swapVars, rendererVars, woken,
                 settled, answered, fired>>

NopDocument(d) ==
  /\ At("apply") /\ d \in nops
  /\ outbox' = Published(docs[d], NopTransaction(d))
  /\ docs' = [docs EXCEPT ![d] = UpdatedDocument(@, NopTransaction(d), required)]
  /\ nops' = nops \ {d}
  /\ UNCHANGED <<clientVars, api, lowScene, highScene, sceneResults, output, rbPc, alive,
                 work, required, swapTx, sbVars, swapVars, rendererVars, woken, settled,
                 answered, fired>>

(* The end of one transaction; after the last one result_tx goes out of    *)
(* scope and bookkeep_after_frames runs.                                   *)
NextTransaction ==
  /\ work' = Tail(work)
  /\ rbPc' = IF Tail(work) = <<>> THEN "poll" ELSE "apply"
  /\ swapTx' = IF Tail(work) = <<>> THEN "none" ELSE swapTx
  /\ required' = (required /\ Tail(work) # <<>>)

(* The document was removed while its scene was built.                     *)
SkipTransaction ==
  /\ At("apply") /\ nops = {} /\ work # <<>>
  /\ Head(work).txn.doc \notin alive
  /\ IF swapTx = "closed"
     THEN /\ rbPc' = "panicked"
          /\ UNCHANGED <<work, required, swapTx, swapQueue, settled, fired>>
     ELSE /\ NextTransaction
          /\ swapQueue' = IF swapTx = "open" THEN Append(swapQueue, "Aborted") ELSE swapQueue
          /\ settled' = Append(settled, <<Head(work).txn.id, Head(work).txn.doc>>)
          /\ fired' = fired \cup Dropped(RequestsOf(Head(work).txn))
  /\ UNCHANGED <<clientVars, api, lowScene, highScene, sceneResults, output, alive,
                 docs, outbox, nops, sbVars, resume, rendererVars, woken, answered>>

(* The scene swap, when the scene builder waits to be told of it.          *)
SwapAndWait ==
  /\ At("apply") /\ nops = {} /\ work # <<>> /\ swapTx # "none"
  /\ Head(work).txn.doc \in alive
  /\ docs' = [docs EXCEPT ![Head(work).txn.doc] =
                SwapScene(@, Head(work).txn, Head(work).built)]
  /\ IF swapTx = "open"
     THEN /\ swapQueue' = Append(swapQueue, "Complete")
          /\ resume' = "waiting" /\ rbPc' = "resume"
     ELSE rbPc' = "panicked" /\ UNCHANGED <<swapQueue, resume>>
  /\ UNCHANGED <<clientVars, api, lowScene, highScene, sceneResults, output, alive,
                 work, outbox, nops, required, swapTx, sbVars, rendererVars, woken,
                 settled, answered, fired>>

(* update_document for the document state `doc', up to the publication.    *)
UpdateHead(doc) ==
  LET t == Head(work).txn IN
  /\ outbox' = Published(doc, t)
  /\ docs' = [docs EXCEPT ![t.doc] = UpdatedDocument(doc, t, required)]
  /\ rbPc' = "settle"

(* No scene builder is waiting: swap the scene and update at once.         *)
UpdateTransaction ==
  /\ At("apply") /\ nops = {} /\ work # <<>> /\ swapTx = "none"
  /\ Head(work).txn.doc \in alive
  /\ UpdateHead(SwapScene(docs[Head(work).txn.doc], Head(work).txn, Head(work).built))
  /\ UNCHANGED <<clientVars, api, lowScene, highScene, sceneResults, output, alive, work,
                 nops, required, swapTx, sbVars, swapVars, rendererVars, woken, settled,
                 answered, fired>>

HookDoneTooSoon == resume # "none"

(* resume_rx.recv() returned: the hook is done, or the channel is gone.    *)
HookDone == resume \in {"sent", "dropped"}

ResumeAndUpdate ==
  /\ At("resume") /\ HookDone
  /\ resume' = "none"
  /\ UpdateHead(docs[Head(work).txn.doc])
  /\ UNCHANGED <<clientVars, api, lowScene, highScene, sceneResults, output, alive, work,
                 nops, required, swapTx, sbVars, swapQueue, rendererVars, woken,
                 settled, answered, fired>>

(* The rest of update_document: notify FrameBuilt, leave the other         *)
(* requests to the renderer, and then, if a frame was requested, call      *)
(* new_frame_ready.                                                        *)
Settle ==
  /\ At("settle")
  /\ LET t    == Head(work).txn
         late == {r \in RequestsOf(t) : r[3] # "FrameBuilt"}
     IN /\ fired' = fired \cup Fire(RequestsOf(t) \ late)
        /\ output' = IF late = {} THEN output
                     ELSE Append(output, [type |-> "AppendNotificationRequests",
                                          requests |-> late])
        /\ settled' = Append(settled, <<t.id, t.doc>>)
        /\ IF t.generate
           THEN rbPc' = "notify" /\ UNCHANGED <<work, swapTx, required>>
           ELSE NextTransaction
  /\ UNCHANGED <<clientVars, api, lowScene, highScene, sceneResults, alive, docs, outbox,
                 nops, sbVars, swapVars, rendererVars, woken, answered>>

(* notifier.new_frame_ready: the embedder will update and render.          *)
NewFrameReady ==
  /\ At("notify")
  /\ woken' = TRUE
  /\ answered' = answered \cup {<<Head(work).txn.id, Head(work).txn.doc>>}
  /\ NextTransaction
  /\ UNCHANGED <<clientVars, api, lowScene, highScene, sceneResults, output, alive,
                 docs, outbox, nops, sbVars, swapVars, rendererVars, settled, fired>>

-----------------------------------------------------------------------------
(* process_api_msg.                                                        *)

(* prepare_transactions: which thread gets the batch.                      *)
UsesSceneBuilder(txns) ==
  \E t \in txns : t.useBuilder \/ ~CanSkipSceneBuilder(t)

UsesHighPriority(txns) == \E t \in txns : ~t.low

ForwardTransactions(txns) ==
  LET request == [type |-> "Transactions", txns |-> txns] IN
  IF UsesHighPriority(TxnsOf(txns))
  THEN highScene' = Append(highScene, request) /\ UNCHANGED lowScene
  ELSE lowScene' = Append(lowScene, request) /\ UNCHANGED highScene

SendLowViaHigh(request) ==
  highScene' = Append(highScene, request) /\ UNCHANGED lowScene

(* Deletions, namespaces and flushes take the low priority queue, so that  *)
(* nothing sent before them is behind them.                                *)
SendLow(request) ==
  lowScene' = Append(lowScene, request) /\ UNCHANGED highScene

Receives(type) == At("api") /\ api # <<>> /\ Head(api).type = type

Viewed(txns) ==
  [d \in Docs |-> IF \E t \in TxnsOf(txns) : t.doc = d
                  THEN EditView(docs[d], CHOOSE t \in TxnsOf(txns) : t.doc = d)
                  ELSE docs[d]]

ReceiveForSceneBuilder ==
  /\ Receives("UpdateDocuments")
  /\ UsesSceneBuilder(TxnsOf(Head(api).txns))
  /\ ForwardTransactions(Head(api).txns)
  /\ docs' = Viewed(Head(api).txns)
  /\ rbPc' = "poll" /\ api' = Tail(api)
  /\ UNCHANGED <<clientVars, sceneResults, output, alive, work, outbox, nops, required, swapTx,
                 sbVars, swapVars, rendererVars, woken, settled, answered, fired>>

ReceiveForBackend ==
  /\ Receives("UpdateDocuments")
  /\ ~UsesSceneBuilder(TxnsOf(Head(api).txns))
  /\ docs' = Viewed(Head(api).txns)
  /\ \E reclaim \in BOOLEAN : PrepareForFrames(DocsOf(Head(api).txns), reclaim)
  /\ work' = [i \in DOMAIN Head(api).txns |->
               [txn |-> Head(api).txns[i], built |-> EmptyScene]]
  /\ rbPc' = "apply" /\ api' = Tail(api)
  /\ UNCHANGED <<clientVars, lowScene, highScene, sceneResults, output, alive, outbox, swapTx,
                 sbVars, swapVars, rendererVars, woken, settled, answered, fired>>

(* AddDocument and DeleteDocument.                                         *)
ReceiveAddDocument ==
  /\ Receives("AddDocument")
  /\ alive' = alive \cup {Head(api).doc}
  /\ rbPc' = "poll" /\ api' = Tail(api)
  /\ UNCHANGED <<clientVars, lowScene, highScene, sceneResults, output, docs, work, outbox,
                 nops, required, swapTx, sbVars, swapVars, rendererVars, woken,
                 settled, answered, fired>>

ReceiveDeleteDocument ==
  /\ Receives("DeleteDocument")
  /\ alive' = alive \ {Head(api).doc}
  /\ docs' = [docs EXCEPT ![Head(api).doc] = NewDocument]
  /\ SendLow(Head(api))
  /\ rbPc' = "poll" /\ api' = Tail(api)
  /\ UNCHANGED <<clientVars, sceneResults, output, work, outbox, nops, required,
                 swapTx, sbVars, swapVars, rendererVars, woken, settled, answered,
                 fired>>

(* ClearNamespace and FlushSceneBuilder go round through the scene builder. *)
RequestFor(m) ==
  IF m.type = "ClearNamespace" THEN m ELSE [type |-> "Flush", client |-> m.client]

ReceiveForwarded ==
  /\ Receives("ClearNamespace") \/ Receives("FlushSceneBuilder")
  /\ SendLow(RequestFor(Head(api)))
  /\ rbPc' = "poll" /\ api' = Tail(api)
  /\ UNCHANGED <<clientVars, sceneResults, output, alive, docs, work, outbox, nops,
                 required, swapTx, sbVars, swapVars, rendererVars, woken, settled,
                 answered, fired>>

(* MemoryPressure: clears both caches, tells the renderer at once.         *)
ReceiveMemoryPressure ==
  /\ Receives("MemoryPressure")
  /\ required' = TRUE
  /\ output' = Append(output, [type |-> "UpdateResources"])
  /\ woken' = TRUE
  /\ rbPc' = "poll" /\ api' = Tail(api)
  /\ UNCHANGED <<clientVars, lowScene, highScene, sceneResults, alive, docs, work, outbox, nops,
                 swapTx, sbVars, swapVars, rendererVars, settled, answered, fired>>

ReceiveWakeUp ==
  /\ Receives("WakeUp")
  /\ rbPc' = "poll" /\ api' = Tail(api)
  /\ UNCHANGED <<clientVars, lowScene, highScene, sceneResults, output, alive, docs,
                 work, outbox, nops, required, swapTx, sbVars, swapVars, rendererVars, woken,
                 settled, answered, fired>>

(* ShutDown: the loop ends, the scene builder is told to stop ...          *)
ReceiveShutDown ==
  /\ Receives("ShutDown")
  /\ lowScene' = Append(lowScene, [type |-> "Stop"])
  /\ rbPc' = "stopping" /\ api' = Tail(api)
  /\ UNCHANGED <<clientVars, highScene, sceneResults, output, alive, docs, work, outbox, nops,
                 required, swapTx, sbVars, swapVars, rendererVars, woken, settled,
                 answered, fired>>

(* ... what it still sends is dropped, and with it the swap channel ...    *)
Discard ==
  /\ At("stopping") /\ sceneResults # <<>>
  /\ Head(sceneResults).type \in {"Transactions", "ClearNamespace"}
  /\ fired' = IF Head(sceneResults).type = "Transactions"
              THEN fired \cup Dropped(UNION {RequestsOf(b.txn) :
                                            b \in TxnsOf(Head(sceneResults).txns)})
              ELSE fired
  /\ sceneResults' = Tail(sceneResults)
  /\ UNCHANGED <<clientVars, api, lowScene, highScene, output, backendVars, sbVars,
                 swapVars, rendererVars, woken, settled, answered>>

(* ... until Stopped comes back; what is left in api is dropped.           *)
Stopped ==
  /\ At("stopping") /\ sceneResults # <<>>
  /\ Head(sceneResults).type = "Stopped"
  /\ sceneResults' = Tail(sceneResults)
  /\ alive' = {} /\ docs' = [d \in Docs |-> NewDocument]
  /\ rbPc' = "done" /\ api' = <<>>
  /\ fired' = fired \cup Dropped(UNION {RequestsOf(t) :
                 t \in UNION {TxnsOf(m.txns) : m \in {m \in TxnsOf(api) :
                                                     m.type = "UpdateDocuments"}}})
  /\ UNCHANGED <<clientVars, lowScene, highScene, output, work, outbox, nops, required, swapTx,
                 sbVars, swapVars, rendererVars, woken, settled, answered>>
-----------------------------------------------------------------------------
(* LowPrioritySceneBuilderThread::run: rasterize blobs and forward.        *)

LowForwardNewest ==
  /\ lowScene # <<>>
  /\ highScene' = Append(highScene, lowScene[Len(lowScene)])
  /\ lowScene' = SubSeq(lowScene, 1, Len(lowScene) - 1)
  /\ UNCHANGED <<clientVars, api, sceneResults, output, backendVars, sbVars, swapVars,
                 rendererVars, woken, settled, answered, fired>>

LowForward ==
  /\ lowScene # <<>>
  /\ highScene' = Append(highScene, Head(lowScene))
  /\ lowScene' = Tail(lowScene)
  /\ UNCHANGED <<clientVars, api, sceneResults, output, backendVars, sbVars, swapVars,
                 rendererVars, woken, settled, answered, fired>>

-----------------------------------------------------------------------------
(* SceneBuilderThread::run.                                                *)

SceneAfter(txns) ==
  [d \in Docs |-> IF \E t \in TxnsOf(txns) : t.doc = d
                  THEN ApplyToScene(sbScene[d], CHOOSE t \in TxnsOf(txns) : t.doc = d)
                  ELSE sbScene[d]]

ProcessedKeepsAll(t) ==
  [txn |-> t, built |-> BuiltScene(ApplyToScene(sbScene[t.doc], t), t)]

(* process_transaction, without the notifications it has fired.            *)
Processed(t) ==
  [txn   |-> [t EXCEPT !.notifs = @ \ {"SceneBuilt"}],
   built |-> BuiltScene(ApplyToScene(sbScene[t.doc], t), t)]

(* forward_built_transactions opens a swap channel for the hooks.          *)
OpensSwap(txns) == Hooks /\ \E b \in TxnsOf(txns) : b.built # EmptyScene

BuildTransactions ==
  /\ sbPc = "recv" /\ highScene # <<>>
  /\ Head(highScene).type = "Transactions"
  /\ LET txns  == Head(highScene).txns
         built == [i \in DOMAIN txns |-> Processed(txns[i])]
     IN /\ sbScene' = SceneAfter(txns)
        /\ sbAlive' = sbAlive \cup DocsOf(txns)
        /\ fired' = fired \cup Fire({r \in UNION {RequestsOf(t) : t \in TxnsOf(txns)} :
                                     r[3] = "SceneBuilt"})
        /\ sceneResults' = Append(sceneResults,
             [type |-> "Transactions", txns |-> built, swap |-> OpensSwap(built)])
        /\ sbPc' = IF OpensSwap(built) THEN "wakeSwap" ELSE "wake"
  /\ highScene' = Tail(highScene)
  /\ UNCHANGED <<clientVars, api, lowScene, output, backendVars, swapVars,
                 rendererVars, woken, settled, answered>>

(* DeleteDocument.                                                         *)
BuilderDeleteDocument ==
  /\ sbPc = "recv" /\ highScene # <<>>
  /\ Head(highScene).type = "DeleteDocument"
  /\ sbAlive' = sbAlive \ {Head(highScene).doc}
  /\ sbScene' = [sbScene EXCEPT ![Head(highScene).doc] = EmptyScene]
  /\ highScene' = Tail(highScene)
  /\ UNCHANGED <<clientVars, api, lowScene, sceneResults, output, backendVars, sbPc,
                 swapVars, rendererVars, woken, settled, answered, fired>>

(* Flush and ClearNamespace answer the render backend through `send'.      *)
BuilderFlush ==
  /\ sbPc = "recv" /\ highScene # <<>>
  /\ Head(highScene).type = "Flush"
  /\ sceneResults' = Append(sceneResults,
       [type |-> "FlushComplete", client |-> Head(highScene).client])
  /\ sbPc' = "wake"
  /\ highScene' = Tail(highScene)
  /\ UNCHANGED <<clientVars, api, lowScene, output, backendVars, sbAlive, sbScene,
                 swapVars, rendererVars, woken, settled, answered, fired>>

BuilderClearNamespace ==
  /\ sbPc = "recv" /\ highScene # <<>>
  /\ Head(highScene).type = "ClearNamespace"
  /\ sbAlive' = {d \in sbAlive : NamespaceOf[d] # Head(highScene).ns}
  /\ sbScene' = [d \in Docs |-> IF d \in sbAlive' THEN sbScene[d] ELSE EmptyScene]
  /\ sceneResults' = Append(sceneResults, Head(highScene))
  /\ sbPc' = "wake"
  /\ highScene' = Tail(highScene)
  /\ UNCHANGED <<clientVars, api, lowScene, output, backendVars, swapVars,
                 rendererVars, woken, settled, answered, fired>>

(* Stop: the last message; nobody needs waking.                            *)
BuilderStop ==
  /\ sbPc = "recv" /\ highScene # <<>>
  /\ Head(highScene).type = "Stop"
  /\ sceneResults' = Append(sceneResults, [type |-> "Stopped"])
  /\ sbPc' = "done"
  /\ highScene' = Tail(highScene)
  /\ UNCHANGED <<clientVars, api, lowScene, output, backendVars, sbAlive, sbScene,
                 swapVars, rendererVars, woken, settled, answered, fired>>

WakeBackendForScenes ==
  /\ sbPc \in {"wake", "wakeSwap"}
  /\ api' = IF sbPc = "wake" THEN api ELSE Append(api, [type |-> "WakeUp"])
  /\ sbPc' = IF sbPc = "wakeSwap" THEN "swap" ELSE "recv"
  /\ UNCHANGED <<clientVars, lowScene, highScene, sceneResults, output, backendVars,
                 sbAlive, sbScene, swapVars, rendererVars, woken, settled, answered,
                 fired>>

WakeBackendForMessages ==
  /\ sbPc \in {"wake", "wakeSwap"}
  /\ api' = IF sbPc = "wakeSwap" THEN api ELSE Append(api, [type |-> "WakeUp"])
  /\ sbPc' = IF sbPc = "wakeSwap" THEN "swap" ELSE "recv"
  /\ UNCHANGED <<clientVars, lowScene, highScene, sceneResults, output, backendVars,
                 sbAlive, sbScene, swapVars, rendererVars, woken, settled, answered,
                 fired>>

(* The WakeUp that follows every result, so that the render backend leaves *)
(* api_rx.recv() and looks at sceneResults.                                *)
WakeBackend ==
  /\ sbPc \in {"wake", "wakeSwap"}
  /\ api' = IF rbPc = "done" THEN api ELSE Append(api, [type |-> "WakeUp"])
  /\ sbPc' = IF sbPc = "wakeSwap" THEN "swap" ELSE "recv"
  /\ UNCHANGED <<clientVars, lowScene, highScene, sceneResults, output, backendVars,
                 sbAlive, sbScene, swapVars, rendererVars, woken, settled, answered,
                 fired>>

SwapTimeout == swapQueue = <<>>
SwapNeverDisconnected == FALSE

(* The sender of the swap channel is gone: the result that carried it was  *)
(* dropped, or the render backend is through with it.                      *)
SwapDisconnected ==
  /\ swapQueue = <<>> /\ swapTx # "open"
  /\ \A r \in TxnsOf(sceneResults) : r.type = "Transactions" => ~r.swap

(* result_rx.unwrap().recv(); the receiver does not outlive the statement, *)
(* and a Complete left unread in it takes its resume_tx along.             *)
ReceiveSwap ==
  /\ sbPc = "swap" /\ (swapQueue # <<>> \/ SwapDisconnected)
  /\ sbPc' = IF swapQueue # <<>> /\ Head(swapQueue) = "Complete"
             THEN "hookResume" ELSE "hook"
  /\ resume' = IF resume = "waiting" /\ sbPc' = "hook" THEN "dropped" ELSE resume
  /\ swapTx' = IF swapTx = "open" THEN "closed" ELSE swapTx
  /\ swapQueue' = <<>>
  /\ UNCHANGED <<clientVars, api, lowScene, highScene, sceneResults, output, rbPc,
                 alive, docs, work, outbox, nops, required, sbAlive, sbScene,
                 rendererVars, woken, settled, answered, fired>>

(* hooks.post_scene_swap returned; let the render backend go on.           *)
PostSceneSwap ==
  /\ sbPc \in {"hook", "hookResume"}
  /\ resume' = IF sbPc = "hookResume" THEN "sent" ELSE resume
  /\ sbPc' = "recv"
  /\ UNCHANGED <<clientVars, api, lowScene, highScene, sceneResults, output,
                 backendVars, sbAlive, sbScene, swapQueue, rendererVars, woken,
                 settled, answered, fired>>

-----------------------------------------------------------------------------
(* The embedder's thread: when woken it calls Renderer::update, then       *)
(* Renderer::render (examples/common/boilerplate.rs, wrench).              *)

RendererWake ==
  /\ rPc = "idle" /\ woken
  /\ woken' = FALSE /\ rPc' = "update"
  /\ UNCHANGED <<clientVars, api, lowScene, highScene, sceneResults, output,
                 backendVars, sbVars, swapVars, info, removed, active, frame, uploads,
                 requests, settled, answered, fired>>

Updates(type) == rPc = "update" /\ output # <<>> /\ Head(output).type = type

UpdatePipelineInfo ==
  /\ Updates("PublishPipelineInfo")
  /\ info' = [info EXCEPT ![Head(output).doc] =
               [p \in Pipelines |-> IF Head(output).epochs[p] # 0
                                    THEN Head(output).epochs[p] ELSE @[p]]]
  /\ removed' = removed \cup ({Head(output).doc} \X Head(output).removed)
  /\ output' = Tail(output)
  /\ UNCHANGED <<clientVars, api, lowScene, highScene, sceneResults, backendVars,
                 sbVars, swapVars, rPc, active, frame, uploads, requests, woken,
                 settled, answered, fired>>

(* The requests to be notified once the textures are updated.              *)
Uploaded(reqs) == {r \in reqs : r[3] = "FrameTexturesUpdated"}

(* A frame that must be drawn, because it has tasks for the texture cache, *)
(* is rendered before it is replaced, and the texture cache updated.       *)
UpdateDocumentFrame ==
  /\ Updates("PublishDocument")
  /\ \E drawn \in BOOLEAN :
       /\ drawn => Head(output).doc \in active
       /\ fired' = fired \cup (IF drawn THEN Fire(Uploaded(requests)) ELSE {})
       /\ requests' = IF drawn THEN requests \ Uploaded(requests) ELSE requests
  /\ active' = active \cup {Head(output).doc}
  /\ frame' = [frame EXCEPT ![Head(output).doc] = Head(output).lists]
  /\ uploads' = TRUE
  /\ output' = Tail(output)
  /\ UNCHANGED <<clientVars, api, lowScene, highScene, sceneResults, backendVars,
                 sbVars, swapVars, rPc, info, removed, woken, settled, answered>>

UpdateNotificationsForgets ==
  /\ Updates("AppendNotificationRequests")
  /\ LET done == IF uploads THEN {} ELSE Uploaded(Head(output).requests)
     IN /\ fired' = fired \cup Fire(done)
        /\ requests' = requests \cup (IF uploads THEN Head(output).requests ELSE {})
  /\ output' = Tail(output)
  /\ UNCHANGED <<clientVars, api, lowScene, highScene, sceneResults, backendVars,
                 sbVars, swapVars, rPc, info, removed, active, frame, uploads, woken,
                 settled, answered>>

(* FrameTexturesUpdated fires when no texture update is pending ...        *)
UpdateNotifications ==
  /\ Updates("AppendNotificationRequests")
  /\ LET new  == Head(output).requests
         done == IF uploads THEN {} ELSE Uploaded(new)
     IN /\ fired' = fired \cup Fire(done)
        /\ requests' = requests \cup (new \ done)
  /\ output' = Tail(output)
  /\ UNCHANGED <<clientVars, api, lowScene, highScene, sceneResults, backendVars,
                 sbVars, swapVars, rPc, info, removed, active, frame, uploads, woken,
                 settled, answered>>

(* ... or in update_texture_cache, here for a memory pressure event.       *)
UpdateResources ==
  /\ Updates("UpdateResources")
  /\ active' = {}
  /\ frame' = [d \in Docs |-> [p \in Pipelines |-> 0]]
  /\ uploads' = FALSE
  /\ fired' = fired \cup Fire(Uploaded(requests))
  /\ requests' = requests \ Uploaded(requests)
  /\ output' = Tail(output)
  /\ UNCHANGED <<clientVars, api, lowScene, highScene, sceneResults, backendVars,
                 sbVars, swapVars, rPc, info, removed, woken, settled, answered>>

UpdateDone ==
  /\ rPc = "update" /\ output = <<>>
  /\ rPc' = "render"
  /\ UNCHANGED <<clientVars, api, lowScene, highScene, sceneResults, output,
                 backendVars, sbVars, swapVars, info, removed, active, frame, uploads,
                 requests, woken, settled, answered, fired>>

(* render: without active documents render_impl returns before it touches  *)
(* the texture cache; what is not notified by the end is dropped.          *)
Render ==
  /\ rPc = "render"
  /\ LET done == (IF active # {} THEN Uploaded(requests) ELSE {})
                  \cup {r \in requests : r[3] = "FrameRendered"}
     IN fired' = fired \cup Fire(done) \cup Dropped(requests \ done)
  /\ requests' = {}
  /\ uploads' = (uploads /\ active = {})
  /\ rPc' = "idle"
  /\ UNCHANGED <<clientVars, api, lowScene, highScene, sceneResults, output,
                 backendVars, sbVars, swapVars, info, removed, active, frame, woken,
                 settled, answered>>

-----------------------------------------------------------------------------
Backend ==
  \/ PollTransactions \/ PollFlushComplete \/ PollClearNamespace \/ PollNothing
  \/ Publish
  \/ \E d \in Docs : NopDocument(d)
  \/ SkipTransaction \/ SwapAndWait \/ UpdateTransaction \/ ResumeAndUpdate
  \/ Settle \/ NewFrameReady
  \/ ReceiveForSceneBuilder \/ ReceiveForBackend
  \/ ReceiveAddDocument \/ ReceiveDeleteDocument \/ ReceiveForwarded
  \/ ReceiveMemoryPressure \/ ReceiveWakeUp \/ ReceiveShutDown
  \/ Discard \/ Stopped

SceneBuilder ==
  \/ BuildTransactions \/ BuilderDeleteDocument \/ BuilderFlush
  \/ BuilderClearNamespace \/ BuilderStop
  \/ WakeBackend \/ ReceiveSwap \/ PostSceneSwap

Renderer ==
  \/ RendererWake
  \/ UpdatePipelineInfo \/ UpdateDocumentFrame \/ UpdateNotifications
  \/ UpdateResources \/ UpdateDone \/ Render

(* Every thread is parked with nothing to do; anything else that stops is  *)
(* a deadlock.                                                             *)
AtRest ==
  /\ api = <<>> /\ lowScene = <<>> /\ highScene = <<>>
  /\ sceneResults = <<>>
  /\ rbPc \in {"api", "done"} /\ sbPc \in {"recv", "done"}
  /\ rPc = "idle" /\ ~woken
  /\ \A c \in Clients : flushing[c] = 0

Rest == AtRest /\ UNCHANGED vars

Next ==
  \/ \E m \in Menu : Send(m)
  \/ \E c \in Clients : Flush(c)
  \/ Backend \/ LowForward \/ SceneBuilder \/ Renderer
  \/ Rest

Spec == Init /\ [][Next]_vars

(* Every thread is scheduled; the clients need not send anything.          *)
FairSpec == /\ Spec
            /\ WF_vars(Backend) /\ WF_vars(LowForward)
            /\ WF_vars(SceneBuilder) /\ WF_vars(Renderer)
-----------------------------------------------------------------------------
(* Properties.                                                             *)

(* Every unwrap() of the swap handshake succeeds: the render backend never *)
(* reports a swap to a scene builder that has stopped listening for it     *)
(* (render_backend.rs, SceneSwapResult sends).                             *)
NoPanic == rbPc # "panicked"

(* Why it holds when every message is for one document: the receiver goes  *)
(* away only after the one report was sent.                                *)
IsSingle(m) == m.type \in {"UpdateDocuments", "Transactions"} => Len(m.txns) = 1

AllSingle(queue) == \A i \in DOMAIN queue : IsSingle(queue[i])

OneDocumentMenu == \A m \in Menu : IsSingle(m)

OneDocumentQueued ==
  AllSingle(api) /\ AllSingle(lowScene) /\ AllSingle(highScene) /\ AllSingle(sceneResults)

ReportedOnce ==
  /\ Len(work) \in {0, 1}
  /\ swapTx = "open"   => rbPc \in {"apply", "resume"} /\ resume \in {"none", "waiting"}
  /\ swapTx = "closed" => rbPc \in {"resume", "settle", "notify"}
  /\ swapTx = "open" /\ swapQueue # <<>> => rbPc = "resume"
  /\ NoPanic

OneDocumentInv == OneDocumentQueued /\ ReportedOnce

(* The render backend stands still while the scene builder runs the        *)
(* post_scene_swap hook of a completed swap ("Block until the post-swap    *)
(* hook has completed": the sampler must not run before it).               *)
HookExclusion == sbPc = "hookResume" => rbPc = "resume" /\ resume = "waiting"

(* Why it holds, as an inductive invariant.  A result that carries the     *)
(* swap channel, an open sender and a message in the channel each belong   *)
(* to the batch the scene builder is waiting for; a Complete that is not   *)
(* answered keeps the render backend in resume_rx.recv().                  *)
Working == rbPc \in {"resume", "settle", "notify"} => work # <<>>

Awaited == sbPc \in {"wakeSwap", "swap"}

CarriesSwap(r) == r.type = "Transactions" /\ r.swap

SwapInOnePlace ==
  /\ swapTx = "open" => Awaited
  /\ swapQueue # <<>> => Awaited
  /\ \A i \in DOMAIN sceneResults : CarriesSwap(sceneResults[i]) =>
       /\ Awaited /\ swapTx # "open" /\ swapQueue = <<>>
       /\ \A j \in DOMAIN sceneResults : CarriesSwap(sceneResults[j]) => j = i

ResumeOutstanding ==
  /\ rbPc = "resume" <=> resume # "none"
  /\ \A i \in DOMAIN swapQueue : swapQueue[i] = "Complete" => resume = "waiting"
  /\ sbPc = "hookResume" => resume = "waiting"

HandshakeInv == Working /\ SwapInOnePlace /\ ResumeOutstanding

(* The notification requests of transactions that are still on their way.  *)
OnTheWay ==
  LET requestsIn(txns) == UNION {RequestsOf(t) : t \in txns}
      batches(queue)   == UNION {TxnsOf(m.txns) : m \in
                            {m \in TxnsOf(queue) : m.type \in {"UpdateDocuments", "Transactions"}}}
      unsettled        == IF rbPc = "notify" THEN Tail(work) ELSE work
  IN requestsIn(batches(api) \cup batches(lowScene) \cup batches(highScene))
     \cup requestsIn({b.txn : b \in batches(sceneResults) \cup TxnsOf(unsettled)})
     \cup requests
     \cup UNION {m.requests : m \in {m \in TxnsOf(output) :
                                      m.type = "AppendNotificationRequests"}}

(* A notification request is notified exactly once: it is either on its    *)
(* way or has been notified, by one checkpoint, and never both nor neither *)
(* (Checkpoint::TransactionDropped: "if a request is created it will get   *)
(* notified").                                                             *)
NotifiedOnce ==
  \A t \in sent : \A r \in RequestsOf(t) :
    LET outcomes == {f \in fired : f[1] = r}
    IN IF r \in OnTheWay THEN outcomes = {} ELSE Cardinality(outcomes) = 1

(* When a flush is answered, every transaction sent before it has been     *)
(* applied or skipped by the render backend, whatever queue it went        *)
(* through (RenderApi::flush_scene_builder: "ensures that any transactions *)
(* ... have been processed").  A shutdown drops them instead.              *)
Settled(t) == \E i \in DOMAIN settled : settled[i] = <<t.id, t.doc>>

FlushBarrier ==
  [][\A c \in Clients :
       flushing[c] # 0 /\ flushing'[c] = 0 /\ rbPc # "stopping"
         => \A t \in sent : t.id < flushing[c] => Settled(t)]_vars

Batch(n) == {t \in sent : t.id = n}

InOrder(numbers) ==
  \A i, j \in DOMAIN settled :
    LET a == settled[i][1]
        b == settled[j][1]
    IN i < j /\ {a, b} \subseteq numbers /\ a > b
         => (\A t \in Batch(a) : t.low) # (\A t \in Batch(b) : t.low)

(* Transactions of one priority settle in the order they were sent         *)
(* (Transaction::set_low_priority) when the scene builder takes them; one  *)
(* that skips it overtakes those it has not built yet.                     *)
BuilderInOrder == InOrder({n \in {t.id : t \in sent} : UsesSceneBuilder(Batch(n))})

(* The epoch reported for a pipeline is not ahead of the active frame: no  *)
(* display list up to that epoch is missing from it                        *)
(* (Renderer::current_epoch: "the Epoch of the current frame in a          *)
(* pipeline").  A document without pixels only pretends to render, and a   *)
(* removed pipeline keeps its last epoch.                                  *)
EpochsShown ==
  \A d \in active, p \in Pipelines :
    ~ \E t \in sent : /\ t.doc = d /\ p \in t.display
                      /\ frame[d][p] < t.id /\ t.id <= info[d][p]
                      /\ <<d, p>> \notin removed
                      /\ ~ \E e \in sent : e.doc = d /\ e.view = "empty"

(* Between the two messages that a transaction publishes the renderer may  *)
(* draw with the new epoch and the old frame; when it has taken both, they *)
(* agree, for clients whose transactions for a document go one way and     *)
(* whose root pipelines come with their lists.                             *)
PublishedEpochsShown == output = <<>> /\ outbox = <<>> => EpochsShown

(* When they do: of two transactions of a document that change its scene,  *)
(* both or neither use the low priority thread; a root comes with its      *)
(* list, or there is only one, and is removed only with all the others.    *)
MenuBatches == {TxnsOf(m.txns) : m \in {m \in Menu : m.type = "UpdateDocuments"}}

Changes(t) == ~CanSkipSceneBuilder(t)

OneWayMenu ==
  \A a, b \in MenuBatches : \A t \in a, u \in b :
    t.doc = u.doc /\ Changes(t) /\ Changes(u) => (UsesHighPriority(a) <=> UsesHighPriority(b))

RootsKept(t, u) ==
  /\ t.root \in t.display \cup {NoPipeline} \/ u.root \in {NoPipeline, t.root}
  /\ u.root \in t.removes => t.removes = Pipelines

RootsKeptMenu ==
  \A a, b \in MenuBatches : \A t \in a, u \in b : t.doc = u.doc => RootsKept(t, u)

(* What the render backend calls a valid frame is what the renderer has:   *)
(* with every message taken, a document with frame_is_valid has an active  *)
(* frame of its current scene, unless a rebuild is already due.            *)
ValidFrameIsActive ==
  At("api") /\ output = <<>> /\ ~required =>
    \A d \in alive : docs[d].frameValid =>
      d \in active /\ frame[d] = docs[d].scene.lists

(* A document that the render backend has deleted is gone from the scene   *)
(* builder too, or its deletion is on the way and nothing that follows it  *)
(* brings the document back.                                               *)
DeletionReachesBuilder ==
  rbPc # "done" => \A d \in sbAlive \ alive :
    \E m \in TxnsOf(lowScene \o highScene) : m.type = "DeleteDocument" /\ m.doc = d

(* A removed pipeline is reported: after its transaction settles it waits  *)
(* in the document, in the output or in the renderer until it is flushed.  *)
RemovalReported ==
  \A t \in sent : Settled(t) /\ t.doc \in alive =>
    \A p \in t.removes :
      \/ p \in docs[t.doc].removed
      \/ <<t.doc, p>> \in removed
      \/ \E m \in TxnsOf(outbox \o output) : /\ m.type = "PublishPipelineInfo"
                                   /\ m.doc = t.doc /\ p \in m.removed

(* A flush is always answered: no WakeUp is lost and the threads never     *)
(* wait on each other.                                                     *)
FlushAnswered == \A c \in Clients : (flushing[c] # 0) ~> (flushing[c] = 0)

(* A requested frame is always answered by new_frame_ready, unless the     *)
(* document is deleted or the system shut down ("otherwise gecko can get   *)
(* into a state where it waits (forever)"), and the notification requests  *)
(* that came with it are all notified in the end.                          *)
FrameRequestsAnswered ==
  \A n \in 1..MaxSends, d \in Docs :
    (\E t \in sent : t.id = n /\ t.doc = d /\ t.generate)
      ~> /\ <<n, d>> \in answered \/ life[d] = "closed" \/ closing
         /\ \A t \in sent : t.id = n /\ t.doc = d =>
              \A r \in RequestsOf(t) : \E f \in fired : f[1] = r

(* A shutdown completes: both threads get through their handshakes.        *)
ShutDownCompletes == closing ~> (rbPc = "done" /\ sbPc = "done")

(* Whoever waits for the system is answered, one way or the other.         *)
ClientsAnswered == FlushAnswered /\ FrameRequestsAnswered /\ ShutDownCompletes
=============================================================================
