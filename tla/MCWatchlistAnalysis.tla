------------------------ MODULE MCWatchlistAnalysis ------------------------
(***************************************************************************)
(* Two runs over two assets that one article names: side by side they race *)
(* for its item, one after the other they meet what the first one left,    *)
(* and each fails on an asset or loses an item of its watchlist and goes   *)
(* on, or does not.                                                        *)
(***************************************************************************)
EXTENDS WatchlistAnalysis, TLC

CONSTANTS j1, j2, a1, a2, u1

MCFeed == [a \in Assets |-> {"x"}]

MCSymmetry == Permutations(Jobs) \cup Permutations(Assets)
=============================================================================
