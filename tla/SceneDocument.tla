--------------------------- MODULE SceneDocument ---------------------------
(***************************************************************************)
(* The data of one WebRender document as the scene builder thread and the  *)
(* render backend see it, and what one transaction does to it:             *)
(* scene.rs (Scene), scene_builder_thread.rs (Transaction) and             *)
(* render_backend.rs (Document, update_document).                          *)
(*                                                                         *)
(* A display list is known by its epoch.  The client numbers its messages  *)
(* and uses the number as the epoch of all it submits in that message, so  *)
(* an epoch is unique and increases; 0 is "no epoch, no display list".     *)
(***************************************************************************)
EXTENDS Integers, Sequences

CONSTANTS
  Docs,        \* document ids (DocumentId); never reused, as in RenderApi
  Pipelines,   \* pipeline ids of a document (PipelineId)
  NoPipeline   \* root_pipeline_id == None

ASSUME NoPipelineAssumption == NoPipeline \notin Pipelines

Checkpoints == {"SceneBuilt", "FrameBuilt", "FrameTexturesUpdated", "FrameRendered"}

(* A transaction, with its scene_ops, frame_ops and resource_updates       *)
(* reduced to their effect on the control of the pipeline.                 *)
Transaction ==
  [id         : Nat,                 \* the number of its message
   doc        : Docs,
   display    : SUBSET Pipelines,    \* pipelines given a display list
   epochs     : SUBSET Pipelines,    \* update_epoch
   root       : Pipelines \cup {NoPipeline},
   removes    : SUBSET Pipelines,    \* remove_pipeline
   view       : {"keep", "empty", "pixels"},  \* set_document_view
   moves      : BOOLEAN,   \* a frame_op or an UpdateImage that dirties the frame
   useBuilder : BOOLEAN,   \* use_scene_builder_thread, or blobs to rasterize
   low        : BOOLEAN,   \* low_priority
   generate   : BOOLEAN,   \* generate_frame
   invalidate : BOOLEAN,   \* invalidate_rendered_frame
   notifs     : SUBSET Checkpoints]

CanSkipSceneBuilder(t) ==
  /\ t.display = {}
  /\ t.epochs = {}
  /\ t.removes = {}
  /\ t.root = NoPipeline

ShouldBuildScene(t) == t.display # {} \/ t.root # NoPipeline

-----------------------------------------------------------------------------
(* Scene: the display lists of the document's pipelines.                   *)

Scene == [root   : Pipelines \cup {NoPipeline},
          lists  : [Pipelines -> Nat],    \* pipelines, by display list epoch
          epochs : [Pipelines -> Nat]]    \* pipeline_epochs

EmptyScene == [root   |-> NoPipeline,
               lists  |-> [p \in Pipelines |-> 0],
               epochs |-> [p \in Pipelines |-> 0]]

HasRootPipeline(s) == s.root # NoPipeline /\ s.lists[s.root] # 0

(* The scene mutations of SceneBuilderThread::process_transaction, in its  *)
(* order: display lists, epoch updates, root pipeline, removed pipelines.  *)
ApplyToScene(s, t) ==
  LET root == IF t.root # NoPipeline THEN t.root ELSE s.root
  IN [root   |-> IF root \in t.removes THEN NoPipeline ELSE root,
      lists  |-> [p \in Pipelines |->
                   CASE p \in t.removes -> 0
                     [] p \in t.display \ t.removes -> t.id
                     [] OTHER -> s.lists[p]],
      epochs |-> [p \in Pipelines |->
                   CASE p \in t.removes -> 0
                     [] p \in (t.display \cup t.epochs) \ t.removes -> t.id
                     [] OTHER -> s.epochs[p]]]

(* The scene handed to the render backend; EmptyScene is "not built".      *)
BuiltScene(s, t) ==
  IF HasRootPipeline(s) /\ ShouldBuildScene(t) THEN s ELSE EmptyScene

-----------------------------------------------------------------------------
(* Document: the render backend's half.                                    *)

Document == [scene         : Scene,
             frameValid    : BOOLEAN,            \* frame_is_valid
             renderedValid : BOOLEAN,            \* rendered_frame_is_valid
             pixels        : BOOLEAN,            \* has_pixels()
             removed       : SUBSET Pipelines]   \* removed_pipelines

NewDocument == [scene         |-> EmptyScene,
                frameValid    |-> FALSE,
                renderedValid |-> FALSE,
                pixels        |-> TRUE,
                removed       |-> {}]

CanRender(doc) == HasRootPipeline(doc.scene)

(* process_scene_msg edits the view as soon as the message is received,    *)
(* before the scene of the same transaction is built.                      *)
EditView(doc, t) ==
  CASE t.view = "keep"   -> doc
    [] t.view = "empty"  -> [doc EXCEPT !.pixels = FALSE]
    [] t.view = "pixels" -> [doc EXCEPT !.pixels = TRUE]

SwapSceneKeepsFrame(doc, t, built) ==
  LET d == [doc EXCEPT !.removed = @ \cup t.removes]
  IN IF built = EmptyScene THEN d ELSE [d EXCEPT !.scene = built]

(* new_async_scene_ready, after the removed pipelines are appended.        *)
SwapScene(doc, t, built) ==
  LET d == [doc EXCEPT !.removed = @ \cup t.removes]
  IN IF built = EmptyScene THEN d
     ELSE [d EXCEPT !.scene = built, !.frameValid = FALSE]

(* update_document: the frame operations, which bring FrameMsg::UpdateEpoch *)
(* to the scene currently built.                                           *)
ApplyFrameOps(doc, t) ==
  [doc EXCEPT !.scene.epochs = [p \in Pipelines |->
                                 IF p \in t.epochs THEN t.id ELSE @[p]],
              !.frameValid = @ /\ ~t.moves]

(* update_document: whether the frame is built ...                         *)
BuildsFrame(doc, t, required) ==
  LET d == ApplyFrameOps(doc, t)
  IN /\ CanRender(d)
     /\ \/ t.generate /\ ~d.frameValid /\ d.pixels
        \/ required

PublishesAlways(doc, t, required) == TRUE

(* ... what the renderer is sent ...                                       *)
PublishesInfo(doc, t, required) == BuildsFrame(doc, t, required) \/ t.generate

(* ... whether new_frame_ready asks for a composite ...                    *)
CompositeNeeded(doc, t, required) ==
  /\ t.generate
  /\ CanRender(doc)
  /\ ~(/\ doc.renderedValid
       /\ ~t.invalidate
       /\ ~BuildsFrame(doc, t, required))

UpdatedDocumentForgets(doc, t, required) ==
  LET d      == ApplyFrameOps(doc, t)
      builds == BuildsFrame(doc, t, required)
  IN [d EXCEPT !.frameValid    = @ \/ builds,
               !.removed       = {},
               !.renderedValid = \/ CompositeNeeded(doc, t, required)
                                 \/ @ /\ ~t.invalidate /\ ~builds]

(* ... and the document it leaves behind.                                  *)
UpdatedDocument(doc, t, required) ==
  LET d      == ApplyFrameOps(doc, t)
      builds == BuildsFrame(doc, t, required)
  IN [d EXCEPT !.frameValid    = @ \/ builds,
               !.removed       = IF PublishesInfo(doc, t, required) THEN {} ELSE @,
               !.renderedValid = \/ CompositeNeeded(doc, t, required)
                                 \/ @ /\ ~t.invalidate /\ ~builds]

(* maybe_force_nop_documents builds a frame with this transaction.         *)
NopTransaction(d) ==
  [id |-> 0, doc |-> d, display |-> {}, epochs |-> {}, root |-> NoPipeline,
   removes |-> {}, view |-> "keep", moves |-> FALSE, useBuilder |-> FALSE,
   low |-> FALSE, generate |-> FALSE, invalidate |-> FALSE, notifs |-> {}]
=============================================================================
