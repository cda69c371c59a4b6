---------------------------- MODULE MCVegetation ----------------------------
(***************************************************************************)
(* Two executions of the vegetation cycle that overlap.                    *)
(***************************************************************************)
EXTENDS Vegetation

MCIndexAt == <<80, 70>>
=============================================================================
