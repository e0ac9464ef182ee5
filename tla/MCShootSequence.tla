-------------------------- MODULE MCShootSequence --------------------------
(* Values for the model-checking runs of ShootSequence.                    *)
EXTENDS ShootSequence

\* The rail stands behind, at or in front of the start of the stack.
MCStartPositions == {-1, 0, 2}
=============================================================================
