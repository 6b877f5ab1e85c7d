--------------------------- MODULE MCPinLockout ---------------------------
(* PinLockout on small instances; the calls of one user and the two PINs   *)
(* are interchangeable.                                                    *)
EXTENDS PinLockout, TLC

Interchangeable == Permutations(Calls) \union Permutations(PINs)
=============================================================================
