---------------------------- MODULE MCPortfolios ----------------------------
(***************************************************************************)
(* Two portfolios of one owner, which share assets, and three requests; a  *)
(* user owns a portfolio or it does not exist.  An asset has no sector,    *)
(* one market has no quote for it, and a short position makes a total      *)
(* negative or zero.                                                       *)
(***************************************************************************)
EXTENDS Portfolios, TLC

CONSTANTS u1, a1, a2, p1, p2, r1, r2, r3, tech

MCSectorOf == (a1 :> tech) @@ (a2 :> Unknown)

Quote(price, change) == [price |-> price, change |-> change]

MCQuantities == {-1, 2}

MCQuotes == {(a1 :> Quote(3, 50)) @@ (a2 :> Quote(2, -50)),
             (a1 :> Quote(1, -100)) @@ (a2 :> Quote(0, 0))}

MCTerms == {[cash |-> 1, threshold |-> <<2, 5>>]}

Row(p, a, n) == [portfolio |-> p, asset |-> a, by |-> Before, quantity |-> n, price |-> 1]

MCBooks == {{Row(p1, a1, 2), Row(p1, a2, 2)},
            {Row(p1, a1, 2), Row(p2, a1, 2)}}

Symmetry == Permutations(Requests)
=============================================================================
