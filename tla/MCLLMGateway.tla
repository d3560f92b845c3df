---------------------------- MODULE MCLLMGateway ----------------------------
(***************************************************************************)
(* Two concurrent completions on every gateway the constructor accepts, a  *)
(* limit of one call a day and one midnight: either caller may lose the    *)
(* last call of the day to the other, and be overtaken by midnight between *)
(* its key, its charge and its store.                                      *)
(***************************************************************************)
EXTENDS LLMGateway, TLC

CONSTANTS c1, c2, p1, p2

Ask(p, route, sensitivity, risky) ==
    [prompt |-> p, route |-> route, sensitivity |-> sensitivity, risky |-> risky]

\* Every route, with payloads that may leave and others that may not, risky
\* ones that are escalated beforehand and plain ones that are verified.
MCRequests ==
    {Ask(p1, "cloud", "PUBLIC", FALSE), Ask(p2, "cloud", "AGGREGATED", FALSE),
     Ask(p1, "cloud", "SEMI", FALSE), Ask(p1, "local", "AGGREGATED", TRUE),
     Ask(p2, "local", "RAW", TRUE), Ask(p2, "local", "PUBLIC", FALSE),
     Ask(p2, "undefined", "PUBLIC", FALSE)}

MCConfigs == ConfigType
=============================================================================
