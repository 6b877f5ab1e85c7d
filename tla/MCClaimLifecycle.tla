-------------------------- MODULE MCClaimLifecycle --------------------------
(* ClaimLifecycle on small instances; calls, requests and expiry runs are  *)
(* interchangeable.                                                        *)
EXTENDS ClaimLifecycle, TLC

Interchangeable ==
    Permutations(Calls) \union Permutations(Requests) \union Permutations(Sweepers)
=============================================================================
