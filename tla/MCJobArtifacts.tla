---------------------------- MODULE MCJobArtifacts ----------------------------
(***************************************************************************)
(* Small instances of JobArtifacts.                                        *)
(***************************************************************************)
EXTENDS JobArtifacts

CONSTANTS w1, w2, w3, p1, p2

OneDiffers == [w \in Worker |-> IF w = w3 THEN p2 ELSE p1]
=============================================================================
