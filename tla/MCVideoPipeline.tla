-------------------------- MODULE MCVideoPipeline --------------------------
(* The pipeline once the software has set it up: continuous display.       *)
EXTENDS VideoPipeline

MCInit == Init /\ op = "Continuous" /\ Buffer_Saved = 0

MCSpec == MCInit /\ [][Next]_vars
=============================================================================
