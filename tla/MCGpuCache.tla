----------------------------- MODULE MCGpuCache -----------------------------
(* Instances of GpuCache for TLC.                                          *)
EXTENDS GpuCache

CONSTANTS d1, d2, h1, h2, small

MCUsers == [h \in Handles |-> IF h = h1 THEN {d1} ELSE {d2}]
MCItemsPerRow == [c \in Classes |-> 2]
MCMaxFrames == [d \in Docs |-> IF d = d1 THEN 3 ELSE 1]
=============================================================================
