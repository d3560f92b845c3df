-------------------------- MODULE MCPriceIngestion --------------------------
(***************************************************************************)
(* Two timestamps and two versions are enough for every branch of the      *)
(* upsert: a frame with a new and a known key, a restated value, an update *)
(* without a change, a future bar and a missing value.                     *)
(***************************************************************************)
EXTENDS PriceIngestion, TLC

CONSTANTS j1, j2, r1, t1, t2

MCTimes == {1, 2}
MCVersions == {"v1", "v2"}

Full == [ver |-> "v1", rows |-> <<"good", "good">>]
Restated == [ver |-> "v2", rows |-> <<"absent", "good">>]
WithFuture == [ver |-> "v1", rows |-> <<"good", "future">>]
WithMissing == [ver |-> "v1", rows |-> <<"good", "missing">>]
OnlyFuture == [ver |-> "v2", rows |-> <<"absent", "future">>]

MCFrames == {Full, Restated, WithFuture, WithMissing}
MCFramesLiveness == {Full, Restated, WithMissing, OnlyFuture}

MCSymmetry == Permutations({j1, j2}) \cup Permutations({t1, t2})
=============================================================================
