-------------------------- MODULE MCApiConfigStore --------------------------
(***************************************************************************)
(* Small instances of ApiConfigStore for TLC.                              *)
(***************************************************************************)
EXTENDS ApiConfigStore, TLC

\* Keys are interchangeable.
KeySymmetry == Permutations(Key)
=============================================================================
