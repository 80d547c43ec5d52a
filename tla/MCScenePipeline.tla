-------------------------- MODULE MCScenePipeline --------------------------
(* Instances of ScenePipeline for TLC: the messages the clients choose     *)
(* from in each run.                                                       *)
EXTENDS ScenePipeline, TLC

CONSTANTS d1, d2, p1, c1, n1, n2

MCNamespaceOf == (d1 :> n1) @@ (d2 :> n2)
OneNamespaceOf == d1 :> n1

Batched(txns) == [type |-> "UpdateDocuments", txns |-> txns]

(* A display list for the root pipeline, with a frame and every kind of    *)
(* notification; at low priority without either; a frame request that      *)
(* skips the scene builder.                                                *)
Plain(d)  == [NopTransaction(d) EXCEPT !.useBuilder = TRUE]
Build(d)  == [Plain(d) EXCEPT !.display = {p1}, !.root = p1, !.generate = TRUE,
                              !.notifs = Checkpoints]
Later(d)  == [Plain(d) EXCEPT !.display = {p1}, !.root = p1, !.low = TRUE,
                              !.notifs = {"SceneBuilt", "FrameRendered"}]
Scroll(d) == [NopTransaction(d) EXCEPT !.moves = TRUE, !.generate = TRUE,
                                       !.notifs = {"FrameBuilt", "FrameTexturesUpdated"}]

Delete(d) == [type |-> "DeleteDocument", doc |-> d]
Event(e)  == [type |-> e]

(* Hooks, both priorities, deletion and shutdown, with one document.       *)
HandshakeMenu ==
  {Batched(<<Build(d1)>>), Batched(<<Later(d1)>>), Batched(<<Scroll(d1)>>),
   Delete(d1), Event("ShutDown")}

(* Batches over both documents, removed pipelines, epochs without display  *)
(* lists, empty views, a cleared namespace and memory pressure, at one     *)
(* priority.                                                               *)
Compose(d) == [NopTransaction(d) EXCEPT !.generate = TRUE, !.invalidate = TRUE,
                                        !.notifs = {"FrameRendered"}]
FramesMenu ==
  {Batched(<<[Build(d1) EXCEPT !.notifs = {}], [Plain(d2) EXCEPT !.generate = TRUE]>>),
   Batched(<<[Plain(d1) EXCEPT !.display = {p1}, !.root = p1]>>),
   Batched(<<[Build(d2) EXCEPT !.notifs = {}, !.view = "pixels"]>>),
   Batched(<<[Plain(d1) EXCEPT !.epochs = {p1}, !.generate = TRUE]>>),
   Batched(<<[Plain(d1) EXCEPT !.removes = {p1}]>>),
   Batched(<<[Plain(d2) EXCEPT !.view = "empty"]>>),
   Batched(<<Compose(d1), Scroll(d2)>>),
   [type |-> "AddDocument", doc |-> d2], [type |-> "ClearNamespace", ns |-> n1],
   Event("MemoryPressure")}

(* What PublishedEpochsShown asks of its clients, these are.               *)
ASSUME FramesMenuIsOneWay == Menu = FramesMenu => OneWayMenu /\ RootsKeptMenu

(* Two documents in one batch, with hooks.                                 *)
BatchMenu == {Batched(<<Build(d1), Build(d2)>>)}
=============================================================================
