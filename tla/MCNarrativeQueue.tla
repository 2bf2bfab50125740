-------------------------- MODULE MCNarrativeQueue --------------------------
(* Instances of NarrativeQueue for TLC.                                    *)
EXTENDS NarrativeQueue, TLC
=============================================================================
