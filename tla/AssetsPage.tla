------------------------------ MODULE AssetsPage -------------------------------
(***************************************************************************)
(* The Assets page (app/portfolio/page.tsx): a table of markets with a filter  *)
(* and a selected row, the price chart of the selected market                   *)
(* (components/price-chart.tsx), the chips of halted markets, and the box that   *)
(* compares SPCX with Backpack (lib/partners/backpack-public.ts).  The chart    *)
(* keeps its state while the market changes under it: the page renders one     *)
(* PriceChart without a key.                                                   *)
(***************************************************************************)
EXTENDS Integers, FiniteSets, Sequences, SequencesExt

CONSTANTS
  MARKETS,     \* the markets in the order of config.ts
  Class,       \* by market, its assetClass
  Ranges,      \* RANGE_DAYS
  DefaultDays, \* defaultDays
  MaxPoints,   \* bound: the points of a series
  Opening,     \* the points of each series when the page opens
  Shrinks,     \* whether a series may lose points (those that leave the window)
  Halts,       \* the markets that may be halted
  PartnerDown, \* whether Backpack may be unreachable
  MaxWorld,    \* bound: how often series, halts and Backpack change
  Faults,      \* whether a request may fail
  None

Symbols == ToSet(MARKETS)
FILTERS == {"All", "Equity", "ArtNote", "Collectible"}
Keys == Symbols \X Ranges

AssetsAssumption ==
  /\ IsInjective(MARKETS) /\ Class \in [Symbols -> FILTERS] /\ Halts \subseteq Symbols
  /\ Ranges \subseteq Nat /\ DefaultDays \in Ranges
  /\ MaxPoints \in Nat \ {0} /\ MaxWorld \in Nat /\ Opening \in 0 .. MaxPoints

VARIABLES
  feed,       \* by key, the points /api/prices/history has now
  halted,     \* the markets /api/admin/guards has halted
  partner,    \* whether Backpack answers
  changes,    \* how often those three changed
  loaded,     \* whether usePortfolio has answered
  filter,     \* the state variables of the page ...
  selSymbol,
  days,       \* ... and of its chart
  activeIdx,  \* counted from 0
  series,     \* by key, the points in the query cache
  chips,      \* useHaltedMarkets
  snapshot    \* whether useSpcxSnapshot holds prices

world_vars == <<feed, halted, partner, changes>>
table_vars == <<loaded, filter, selSymbol>>
chart_vars == <<days, activeIdx, series>>
poll_vars  == <<chips, snapshot>>
vars == <<world_vars, table_vars, chart_vars, poll_vars>>

-----------------------------------------------------------------------------
(* The table.                                                                 *)

list == IF loaded THEN SelectSeq(MARKETS, LAMBDA s: filter \in {"All", Class[s]})
                  ELSE <<>>
position(s) == CHOOSE i \in DOMAIN list: list[i] = s
Selected == IF selSymbol \in ToSet(list) THEN selSymbol
            ELSE IF list = <<>> THEN None ELSE list[1]

Between(low, high, n) == IF n < low THEN low ELSE IF n > high THEN high ELSE n

PortfolioArrives ==
  /\ ~loaded /\ loaded' = TRUE
  /\ UNCHANGED <<world_vars, filter, selSymbol, chart_vars, poll_vars>>

SetFilter ==
  /\ filter' \in FILTERS
  /\ UNCHANGED <<world_vars, loaded, selSymbol, chart_vars, poll_vars>>

SelectRow ==       \* onClick and onFocus
  /\ selSymbol' \in ToSet(list)
  /\ UNCHANGED <<world_vars, loaded, filter, chart_vars, poll_vars>>

NextPosition(delta)  == Between(1, Len(list), position(Selected) + delta)

ArrowRow(delta) == \* moveSelection
  /\ list # <<>> /\ selSymbol' = list[NextPosition(delta)]
  /\ UNCHANGED <<world_vars, loaded, filter, chart_vars, poll_vars>>

-----------------------------------------------------------------------------
(* The chart.  It has the range and the index of the crosshair as its state; the *)
(* market is a parameter.  It draws a curve of two points or more.             *)

merged    == IF Selected = None THEN None ELSE series[<<Selected, days>>]
Drawn     == merged # None /\ merged >= 2
Crosshair == Drawn /\ activeIdx # None

KeepIndex(d)  == days' = d /\ activeIdx' = activeIdx
SetDays(d)    == days' = d /\ activeIdx' = None

ChooseRange ==
  /\ Selected # None /\ \E d \in Ranges: SetDays(d)
  /\ UNCHANGED <<world_vars, table_vars, series, poll_vars>>

MoveBy(delta)     == IF activeIdx = None THEN merged - 1
                     ELSE Between(0, merged - 1, activeIdx + delta)

ArrowChart ==      \* ArrowLeft, ArrowRight
  /\ Drawn /\ \E delta \in {1, -1}: activeIdx' = MoveBy(delta)
  /\ UNCHANGED <<world_vars, table_vars, days, series, poll_vars>>

PointerMove ==     \* the point nearest to the pointer
  /\ Drawn /\ activeIdx' \in 0 .. merged - 1
  /\ UNCHANGED <<world_vars, table_vars, days, series, poll_vars>>

PointerLeave ==    \* and Escape
  /\ Drawn /\ activeIdx' = None
  /\ UNCHANGED <<world_vars, table_vars, days, series, poll_vars>>

HistoryArrives ==  \* of the market shown, when it is shown and again when stale
  /\ Selected # None
  /\ series' = [series EXCEPT ![<<Selected, days>>] = feed[<<Selected, days>>]]
  /\ UNCHANGED <<world_vars, table_vars, days, activeIdx, poll_vars>>

-----------------------------------------------------------------------------
(* The polls.  A guard answer that fails counts as no market halted; a read of    *)
(* Backpack that fails counts as no price (getSpcxSnapshot never throws).       *)

HaltedAnswer(known, answer) == answer

ChipsArrive ==
  /\ chips' = HaltedAnswer(chips, halted)
  /\ UNCHANGED <<world_vars, table_vars, chart_vars, snapshot>>

ChipsFail ==
  /\ Faults /\ chips' = {}
  /\ UNCHANGED <<world_vars, table_vars, chart_vars, snapshot>>

getSpcxSnapshot   == partner

SnapshotArrives ==
  /\ snapshot' = getSpcxSnapshot
  /\ UNCHANGED <<world_vars, table_vars, chart_vars, chips>>

SpcxCrossCheck == snapshot /\ "SPCX" \in ToSet(list)

-----------------------------------------------------------------------------
(* What changes behind the page.                                               *)

SeriesChanges ==
  /\ \E k \in Keys, n \in 0 .. MaxPoints:
       /\ n # feed[k] /\ (Shrinks \/ n > feed[k]) /\ feed' = [feed EXCEPT ![k] = n]
  /\ UNCHANGED <<halted, partner>>

HaltChanges ==
  /\ \E s \in Halts: halted' = IF s \in halted THEN halted \ {s} ELSE halted \cup {s}
  /\ UNCHANGED <<feed, partner>>

PartnerChanges == PartnerDown /\ partner' = ~partner /\ UNCHANGED <<feed, halted>>

World ==
  /\ changes < MaxWorld /\ changes' = changes + 1
  /\ SeriesChanges \/ HaltChanges \/ PartnerChanges
  /\ UNCHANGED <<table_vars, chart_vars, poll_vars>>

-----------------------------------------------------------------------------
Init ==
  /\ feed = [k \in Keys |-> Opening] /\ halted = {} /\ partner = TRUE /\ changes = 0
  /\ loaded = FALSE /\ filter = "All" /\ selSymbol = None
  /\ days = DefaultDays /\ activeIdx = None /\ series = [k \in Keys |-> None]
  /\ chips = {} /\ snapshot = FALSE

Next == \/ World
        \/ PortfolioArrives \/ SetFilter \/ SelectRow
        \/ ArrowRow(1) \/ ArrowRow(-1)
        \/ ChooseRange \/ ArrowChart \/ PointerMove \/ PointerLeave \/ HistoryArrives
        \/ ChipsArrive \/ ChipsFail \/ SnapshotArrives

Spec == Init /\ [][Next]_vars

-----------------------------------------------------------------------------
TypeOK ==
  /\ feed \in [Keys -> 0 .. MaxPoints] /\ halted \subseteq Halts /\ partner \in BOOLEAN
  /\ changes \in 0 .. MaxWorld /\ loaded \in BOOLEAN
  /\ filter \in FILTERS
  /\ selSymbol \in Symbols \cup {None} /\ days \in Ranges
  /\ activeIdx \in 0 .. MaxPoints \cup {None}
  /\ series \in [Keys -> 0 .. MaxPoints \cup {None}]
  /\ chips \subseteq Halts /\ snapshot \in BOOLEAN

(* "hover crosshair + tooltip (date, price)" (parameters.md:197): they are at a     *)
(* point of the curve that is drawn.  The render reads geo.pts[activeIdx][0] and   *)
(* fails when there is no such point (price-chart.tsx:253 to 278).  It does not    *)
(* hold: the index outlives the series it was set on when another row is selected,  *)
(* or when an answer has fewer points.                                          *)
CrosshairOnThePath == Crosshair => activeIdx < merged

(* What the owner does on the chart itself, the range included, never takes the    *)
(* index off the series: only another market and another answer do.               *)
OnPath == activeIdx # None /\ merged # None => activeIdx < merged
ChartKeepsToThePath ==
  [][UNCHANGED <<selSymbol, filter, loaded, series>> /\ OnPath => OnPath']_vars
================================================================================
