----------------------------- MODULE Baselines -----------------------------
(***************************************************************************)
(* run_baselines of src/arena_kernel/baselines.py: cash, SPY buy-and-hold, *)
(* equal weight and seeded random, one after the other on one recorded     *)
(* tape, each with a fresh book.  They trade on the paper exchange like    *)
(* the replicas and are valued by ledger.py at the official closes.        *)
(*                                                                         *)
(* A closing price is counted in hundredths of a cent, the finest tick of  *)
(* an exchange; the code takes any decimal.  What the seeded generator     *)
(* draws is any hold or buy it can draw.                                   *)
(***************************************************************************)
EXTENDS PaperExchange, Sequences, FiniteSets, FiniteSetsExt

CONSTANTS
  Spy,       \* SPY
  Sorted,    \* the universe, sorted
  Tapes,     \* Tapes: sequences of the fill bars of the rounds of a season
  Closes,    \* official closes: NoReference for a symbol without one
  Drawn      \* notionals the generator may draw, of those up to the cash

Strategies == <<"cash", "spy_buy_and_hold", "equal_weight", "seeded_random">>

ASSUME BaselineAssumption ==
  /\ Sorted \in Seq(Symbol) /\ {Sorted[i] : i \in DOMAIN Sorted} = Symbol
  /\ \A i, j \in DOMAIN Sorted : Sorted[i] = Sorted[j] => i = j
  /\ Sorted # << >>
  /\ \A t \in Tapes : t \in Seq([Symbol -> References \cup {NoReference}])
  /\ \A c \in Closes : c \in [Symbol -> Nat \cup {NoReference}]
  /\ Drawn \subseteq Nat \ {0}

VARIABLES
  tape,      \* the recorded season
  official,  \* its official closes
  running,   \* the index of the strategy that runs, past the last when all ran
  window,    \* the last round of the tape it has looked at
  results,   \* equity and NLV of the strategies that ran
  failed     \* whether an exception ended the run

baseline == <<tape, official, running, window, results, failed>>
exchange == vars
allVars == <<exchange, baseline>>

Strategy == Strategies[running]

BaselineInit ==
  /\ Init
  /\ tape \in Tapes
  /\ official \in Closes
  /\ running = 1
  /\ window = 0
  /\ results = << >>
  /\ failed = FALSE

-----------------------------------------------------------------------------
(* Decisions *)

\* A bar that is eligible has a price here: NoReference is a bar that is not
\* eligible, or none at all.
Eligible(w, symbols) == \A s \in symbols : tape[w][s] # NoReference

\* first_scored_round_id: the first round, in the order of the tape, with an
\* eligible bar for every symbol needed.
FirstWindow(symbols) ==
  {w \in DOMAIN tape :
     /\ Eligible(w, symbols)
     /\ \A v \in 1..(w - 1) : ~Eligible(v, symbols)}

BuyOrder(priority, symbol, notional) ==
  [priority |-> priority, symbol |-> symbol, side |-> "buy", amount |-> notional]

SpyDecision == <<BuyOrder(1, Spy, cash)>>

Share == RoundHalfEven(cash, Len(Sorted))

\* Defective variant, to see that a property notices: the last symbol gets a share like the others.
Notional_NoRemainder(i) == Share

\* equal_weight_notionals: the last symbol gets what the others leave.
Notional(i) == IF i = Len(Sorted) THEN cash - (Len(Sorted) - 1) * Share ELSE Share

EqualWeightDecision == [i \in DOMAIN Sorted |-> BuyOrder(i, Sorted[i], Notional(i))]

\* random_decision: a hold, or one buy of any symbol for up to all the cash.
RandomDecisions ==
  {<< >>} \cup {<<BuyOrder(1, s, n)>> : s \in Symbol, n \in {m \in Drawn : m <= cash}}

-----------------------------------------------------------------------------

AtRest == phase \notin {"trading", "raised"} /\ ~failed /\ running <= Len(Strategies)

Fail ==
  /\ failed' = TRUE
  /\ UNCHANGED <<exchange, tape, official, running, window, results>>

Trade(w, os) ==
  /\ Submit(os, TRUE, tape[w])
  /\ window' = w
  /\ UNCHANGED <<tape, official, running, results, failed>>

\* SPY with all the cash in the first round that has a bar for it, and never
\* again.
SpyInvests ==
  /\ AtRest /\ Strategy = "spy_buy_and_hold" /\ window = 0
  /\ IF FirstWindow({Spy}) = {} THEN Fail
     ELSE \E w \in FirstWindow({Spy}) : Trade(w, SpyDecision)

\* The same for the whole universe; a notional that is not positive raises.
EqualWeightInvests ==
  /\ AtRest /\ Strategy = "equal_weight" /\ window = 0
  /\ IF FirstWindow(Symbol) = {} \/ \E i \in DOMAIN Sorted : Notional(i) <= 0 THEN Fail
     ELSE \E w \in FirstWindow(Symbol) : Trade(w, EqualWeightDecision)

RandomInvests ==
  /\ AtRest /\ Strategy = "seeded_random" /\ window < Len(tape)
  /\ \E os \in RandomDecisions : Trade(window + 1, os)

\* A strategy that has made its decisions is valued.
Finished ==
  CASE Strategy = "cash" -> TRUE
    [] Strategy = "seeded_random" -> window = Len(tape)
    [] OTHER -> window # 0

\* What the positions are worth at given prices.
Worth(price) ==
  LET value(s) == positions[s].quantity * price[s]
  IN MapThenSumSet(value, DOMAIN positions)

\* mark_to_close: one rounding, of the sum.
Equity == RoundHalfEven(cash * PerCent + Worth(official), PerCent)

\* Defective variant: the liquidation is not charged.
SellFill_NoCost(s) == official[s]

SellFill(s) == FillPrice(10 * official[s], "sell")

\* final_nlv: a hypothetical sell of every position, slipped and rounded like a
\* fill; the sum is rounded once.
NetLiquidation ==
  LET slipped == [s \in DOMAIN positions |-> SellFill(s)]
  IN RoundHalfEven(cash * PerCent + Worth(slipped), PerCent)

\* Every position has an official close.
Closed == \A s \in DOMAIN positions : official[s] # NoReference

Valued ==
  /\ results' = Append(results, [equity |-> Equity, nlv |-> NetLiquidation])
  /\ running' = running + 1
  /\ window' = 0

\* A position without a close raises; otherwise the next strategy starts from
\* the starting portfolio.
CloseBaseline ==
  /\ AtRest /\ Finished
  /\ IF ~Closed THEN Fail
     ELSE /\ Valued
          /\ phase' = "idle" /\ orders' = << >> /\ pending' = {} /\ fills' = {}
          /\ decisions' = 0
          /\ cash' = StartingCash
          /\ positions' = [s \in {} |-> s]
          /\ paid' = [s \in Symbol |-> {}]
          /\ before' = [cash |-> cash', positions |-> positions', paid |-> paid']
          /\ UNCHANGED <<bars, tape, official, failed>>

\* The exchange raised in the middle of a decision.
Raised ==
  /\ phase = "raised" /\ ~failed
  /\ Fail

\* A baseline never sells.
Exchange ==
  /\ (\E i \in Index : Buy(i) \/ Reject(i) \/ Raise(i)) \/ Settle
  /\ UNCHANGED baseline

BaselineNext ==
  \/ SpyInvests
  \/ EqualWeightInvests
  \/ RandomInvests
  \/ CloseBaseline
  \/ Raised
  \/ Exchange

BaselineSpec == BaselineInit /\ [][BaselineNext]_allVars

-----------------------------------------------------------------------------
(* Properties *)

\* No baseline asks for more than it has: whatever was bought before it, a buy
\* of a baseline is never rejected for lack of cash.  (equal_weight_notionals,
\* random_decision.)
BuysAffordable ==
  running <= Len(Strategies) =>
    \A i \in pending : IsNext(i) /\ ~CannotFill(i) /\ Price(i) # 0 => Amount(i) <= cash

\* The hypothetical liquidation never flatters: NLV is at most the equity, and
\* it is what selling every position on the exchange at the same prices would
\* leave, but for the roundings, half a cent for each sale and one for the sum.
\* (final_nlv against mark_to_close and _apply_sell.)
NlvIsLiquidation ==
  AtRest /\ Closed =>
    LET sale(s) == Value(positions[s].quantity, FillPrice(10 * official[s], "sell"))
        sold == cash + MapThenSumSet(sale, DOMAIN positions)
        sales == Cardinality(DOMAIN positions)
    IN /\ NetLiquidation <= Equity
       /\ 2 * NetLiquidation <= 2 * sold + sales + 1
       /\ 2 * sold <= 2 * NetLiquidation + sales + 1
=============================================================================
