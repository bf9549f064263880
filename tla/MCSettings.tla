----------------------------- MODULE MCSettings -----------------------------
(***************************************************************************)
(* Settings for TLC: the windows are interchangeable.                      *)
(***************************************************************************)
EXTENDS Settings, TLC

WindowSymmetry == Permutations(Windows)
=============================================================================
