-------------------------- MODULE MCImageResources --------------------------
(* Instances of ImageResources for TLC.                                    *)
EXTENDS ImageResources

CONSTANTS auto, pixelated
=============================================================================
