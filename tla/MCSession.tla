----------------------------- MODULE MCSession -----------------------------
(***************************************************************************)
(* Session for TLC.  Nonces are only ever compared, so any two can be      *)
(* exchanged.                                                              *)
(***************************************************************************)
EXTENDS Session, TLC

NonceSymmetry == Permutations(Nonce)
=============================================================================
