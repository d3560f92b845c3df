-------------------------- MODULE MCLLMAnalysisJob --------------------------
(***************************************************************************)
(* Two analyses on a gateway with all its guards, with a budget alone or   *)
(* with none (MCLLMGateway tries them all), one cloud call a day to share  *)
(* and one midnight: either may find the budget empty, and either may die  *)
(* in any step of its completion.                                          *)
(***************************************************************************)
EXTENDS LLMAnalysisJob, TLC

CONSTANTS j1, j2

Guarded(b, c, p) == [clients |-> {"cloud", "local"}, budget |-> b, cache |-> c, policy |-> p]

MCGateways == {Guarded(TRUE, TRUE, TRUE), Guarded(TRUE, FALSE, FALSE),
               Guarded(FALSE, FALSE, FALSE)}

MCAsked == {[route |-> "cloud", risky |-> FALSE], [route |-> "local", risky |-> TRUE],
            [route |-> "local", risky |-> FALSE]}
=============================================================================
