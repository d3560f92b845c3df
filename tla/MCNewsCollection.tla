-------------------------- MODULE MCNewsCollection --------------------------
(***************************************************************************)
(* Two targets, one of which names no asset in the runs that say so, and   *)
(* three urls two of which are spellings of the same one: one job meets    *)
(* both spellings, two jobs meet each other on either.                     *)
(***************************************************************************)
EXTENDS NewsCollection, TLC

CONSTANTS j1, j2, t1, t2

MCUrls == {"a", "a/", "b"}
MCCanon == [u \in MCUrls |-> IF u = "a/" THEN "a" ELSE u]

E(url, kind) == [url |-> url, kind |-> kind]

MCFeeds == {{E("a", "good"), E("a/", "good")}, {E("a/", "good"), E("b", "invalid")},
            {E("b", "good"), E("b", "oversized")}}

MCSymmetry == Permutations(Jobs)
=============================================================================
