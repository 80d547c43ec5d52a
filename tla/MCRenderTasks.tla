---------------------------- MODULE MCRenderTasks ----------------------------
(* Instances of RenderTasks for TLC.                                       *)
EXTENDS RenderTasks

MCShadows == {<<0, 0>>, <<1>>}
MCMaxSizes == {
  [tasks |-> <<6, 1>>, surfaces |-> 1],
  [tasks |-> <<5, 1>>, surfaces |-> 3],
  [tasks |-> <<4, 3>>, surfaces |-> 3]}
=============================================================================
