----------------------------- MODULE MCEvidence -----------------------------
(* Evidence on a small instance; calls are interchangeable.                *)
EXTENDS Evidence, TLC

Interchangeable == Permutations(Calls)
=============================================================================
