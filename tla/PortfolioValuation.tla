-------------------------- MODULE PortfolioValuation --------------------------
(***************************************************************************)
(* What PortfolioService computes from the positions of a portfolio and    *)
(* the quotes of the moment: values, weights, the change of the day and    *)
(* the risk exposures.  A position is a row [asset, quantity, price], the  *)
(* price being what was paid; a quote is a function from assets to         *)
(* [price, change], the change in percent.  An asset without a quote is    *)
(* worth nothing, which is what a quote of 0 says.                         *)
(*                                                                         *)
(* A quantity may be negative: neither PositionCreate nor PositionUpdate   *)
(* bounds it.  A total may therefore be zero or less.                      *)
(***************************************************************************)
EXTENDS Fractions, FiniteSets, FiniteSetsExt

CONSTANTS
    Assets,
    Sectors,
    SectorOf,   \* assets.sector of each asset
    Unknown     \* what an asset without a sector is filed under

ASSUME SectorsKnown == SectorOf \in [Assets -> Sectors \cup {Unknown}]

MarketValue(row, quote) == row.quantity * quote[row.asset].price

CostValue(row) == row.quantity * row.price

TotalCost(rows) == MapThenSumSet(CostValue, rows)

Held(rows, quote) == MapThenSumSet(LAMBDA r : MarketValue(r, quote), rows)

TotalValue(rows, quote, cash) == Held(rows, quote) + cash

Weight(value, total) == IF total = 0 THEN Zero ELSE Fraction(value, total)

PositionWeight(row, quote, total) == Weight(MarketValue(row, quote), total)

InSector(rows, sector) == {r \in rows : SectorOf[r.asset] = sector}

Fault_SectorWeightByCost(sector, rows, quote, total) ==
    Weight(TotalCost(InSector(rows, sector)), total)

SectorWeight(sector, rows, quote, total) == Weight(Held(InSector(rows, sector), quote), total)

Exceeding(rows, quote, total, threshold) ==
    {r \in rows : Below(threshold, PositionWeight(r, quote, total))}

ExceedingSectors(rows, quote, total, threshold) ==
    {s \in {SectorOf[r.asset] : r \in rows} :
        Below(threshold, SectorWeight(s, rows, quote, total))}

-----------------------------------------------------------------------------
(* The change of the day: of a position against its value of yesterday, of *)
(* the portfolio against its total of yesterday; cash does not change.     *)

DayChange(row, quote) ==
    LET q == quote[row.asset]
    IN  IF q.price = 0 \/ q.change = -100 THEN Zero
        ELSE Fraction(MarketValue(row, quote) * q.change, 100 + q.change)

DayChangeValue(rows, quote) ==
    FoldSet(LAMBDA r, sum : Plus(DayChange(r, quote), sum), Zero, rows)

DayChangePercent(rows, quote, total) ==
    LET change == DayChangeValue(rows, quote)
        before == Minus(Whole(total), change)
    IN  IF before[1] = 0 THEN Zero
        ELSE Fraction(100 * change[1], before[1])   \* they have one denominator

-----------------------------------------------------------------------------
(* The risk exposures, without their wording and their order. *)

Levels == {"MEDIUM", "HIGH"}

RiskLevel(weight, threshold) ==
    IF AtMost(Times(threshold, 3, 2), weight) THEN "HIGH" ELSE "MEDIUM"

SectorExposures(rows, quote, total, threshold) ==
    {[code |-> "sector", of |-> s,
      level |-> RiskLevel(SectorWeight(s, rows, quote, total), threshold)] :
        s \in ExceedingSectors(rows, quote, total, threshold) \ {Unknown}}

NameExposures(rows, quote, total, threshold) ==
    {[code |-> "name", of |-> r.asset,
      level |-> RiskLevel(PositionWeight(r, quote, total), threshold)] :
        r \in Exceeding(rows, quote, total, threshold)}

CashShortage(total, cash) ==
    LET weight == Weight(cash, total)
    IN  IF total = 0 \/ AtMost(Percent(15), weight) THEN {}
        ELSE {[code |-> "cash", of |-> "cash",
               level |-> IF Below(weight, Percent(5)) THEN "HIGH" ELSE "MEDIUM"]}

RiskExposures(rows, quote, total, cash, threshold) ==
    SectorExposures(rows, quote, total, threshold)
      \cup NameExposures(rows, quote, total, threshold)
      \cup CashShortage(total, cash)

Summary(rows, quote, cash, threshold) ==
    LET total == TotalValue(rows, quote, cash)
    IN  [weights |-> {PositionWeight(r, quote, total) : r \in rows},
         exceeding |-> {r.asset : r \in Exceeding(rows, quote, total, threshold)},
         concentrated |-> ExceedingSectors(rows, quote, total, threshold) # {},
         exposures |-> RiskExposures(rows, quote, total, cash, threshold),
         change |-> DayChangePercent(rows, quote, total)]

-----------------------------------------------------------------------------
(* What its readers make of a summary: the briefing looks at the largest    *)
(* weight, the context of an LLM at the flags; neither sees the exposures.  *)

LargestWeight(summary) ==
    IF summary.weights = {} THEN Zero
    ELSE CHOOSE w \in summary.weights : \A v \in summary.weights : AtMost(v, w)

IsConcentrated(summary, threshold) == Below(threshold, LargestWeight(summary))

ConcentrationRisk(summary) ==
    CASE summary.exceeding # {} -> "high"
      [] summary.exceeding = {} /\ summary.concentrated -> "medium"
      [] OTHER -> "low"

-----------------------------------------------------------------------------
Fault_ScoreUnclipped(weight) == Truncated(Times(weight, 100, 1))

\* The score of a signal: the weight in percent, cut to 0 .. 100.
ScoreOf(weight) ==
    LET percent == Truncated(Times(weight, 100, 1))
    IN  IF percent < 0 THEN 0 ELSE IF percent > 100 THEN 100 ELSE percent
=============================================================================
