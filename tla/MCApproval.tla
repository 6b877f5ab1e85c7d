----------------------------- MODULE MCApproval -----------------------------
(* Approval on a small instance; calls, PINs and requests are              *)
(* interchangeable.                                                        *)
EXTENDS Approval, TLC

Interchangeable ==
    Permutations(Calls) \union Permutations(PINs) \union Permutations(Requests)
=============================================================================
