---------------------------- MODULE MCFileServer ----------------------------
(***************************************************************************)
(* Small instances of FileServer for TLC.                                  *)
(***************************************************************************)
EXTENDS ServerRefinement, TLC

\* Workers and connections are interchangeable in the safety runs; the
\* liveness runs use no symmetry.
ServerSymmetry == Permutations(Workers) \cup Permutations(Conns)
=============================================================================
