--------------------------- MODULE PaperExchange ---------------------------
(***************************************************************************)
(* The paper exchange: apply_decision of src/arena_kernel/matching.py with *)
(* validate.py, pricing.py and the decimal primitives of types.py, trading *)
(* the decisions of one replica for one round after the other.             *)
(*                                                                         *)
(* Money is exact: cash is counted in cents, shares in thousandths, fill   *)
(* prices in hundredths of a cent and reference prices in thousandths of a *)
(* cent, so that every rounding of the code is a rounding here.            *)
(***************************************************************************)
EXTENDS Integers

CONSTANTS
  Symbol,        \* the frozen universe of the snapshot
  OrderSet,      \* the orders an agent may write
  MaxLength,     \* bound on the orders of one decision
  MaxOrders,     \* MAX_ORDERS: the orders of a decision that are looked at
  References,    \* reference prices of the fill bars
  NoReference,   \* an ineligible bar, or one without usable price
  StartingCash,  \* STARTING_CASH
  MaxDecisions   \* bound on the rounds of the season

Side  == {"buy", "sell"}
Index == 1..MaxLength

\* amount is notional_usd of a buy and quantity of a sell.
ASSUME ExchangeAssumption ==
  /\ \A o \in OrderSet :
       /\ o.side \in Side
       /\ o.priority \in Nat \ {0}
       /\ o.amount \in Int
  /\ MaxLength \in Nat
  /\ MaxOrders \in Nat
  /\ References \subseteq Nat \ {0}
  /\ NoReference \notin References
  /\ StartingCash \in Nat
  /\ MaxDecisions \in Nat

-----------------------------------------------------------------------------
(* types.py and pricing.py *)

\* quantize with ROUND_HALF_EVEN of a / b to a whole number.
RoundHalfEven(a, b) ==
  LET q == a \div b
      r == a % b
  IN IF 2 * r > b \/ (2 * r = b /\ q % 2 = 1) THEN q + 1 ELSE q

\* Thousandths of a share times hundredths of a cent, in one cent.
PerCent == 100000

\* The reference slipped by five basis points against the replica.
FillPrice(reference, side) ==
  RoundHalfEven(reference * (IF side = "buy" THEN 10005 ELSE 9995), 100000)

\* floor_to_0_001(notional_usd / fill)
BuyQuantity(notional, fill) == (notional * PerCent) \div fill

\* round_cash(quantity * fill)
Value(quantity, fill) == RoundHalfEven(quantity * fill, PerCent)

\* The new shares are weighed against the old ones alone.
AddedBasis_OldQuantity(position, quantity, fill) ==
  RoundHalfEven(position.quantity * position.basis + quantity * fill, position.quantity)

\* The cost basis after quantity shares more at price fill.
AddedBasis(position, quantity, fill) ==
  RoundHalfEven(position.quantity * position.basis + quantity * fill,
                position.quantity + quantity)

-----------------------------------------------------------------------------

VARIABLES
  phase,      \* what has become of the last decision
  decisions,  \* decisions handed to the exchange so far
  orders,     \* orders[i]: the orders of the decision, in file order
  bars,       \* bars[s]: the reference of the fill bar of symbol s
  pending,    \* the accepted orders not applied yet
  cash,       \* the book: its cash
  positions,  \* positions[s]: the position in s, for the symbols held
  before,     \* the book apply_decision was given
  fills,      \* the fills of the decision
  paid        \* paid[s]: fill prices paid for the shares now held

book == <<cash, positions, paid>>
Book == [cash |-> cash, positions |-> positions, paid |-> paid]
vars == <<phase, decisions, orders, bars, pending, cash, positions, before, fills, paid>>

Position == [quantity : Nat \ {0}, basis : Nat \ {0}]

TypeOK ==
  /\ phase \in {"idle", "trading", "settled", "missing", "unparsed", "raised"}
  /\ decisions \in 0..MaxDecisions
  /\ DOMAIN orders \subseteq Index /\ orders \in [DOMAIN orders -> OrderSet]
  /\ bars \in [Symbol -> References \cup {NoReference}]
  /\ pending \subseteq DOMAIN orders
  /\ cash \in Nat
  /\ DOMAIN positions \subseteq Symbol /\ positions \in [DOMAIN positions -> Position]
  /\ \A f \in fills : f.order \in DOMAIN orders /\ f.quantity \in Nat \ {0} /\ f.cash \in Nat

Init ==
  /\ phase = "idle"
  /\ decisions = 0
  /\ orders = <<>>
  /\ bars = [s \in Symbol |-> NoReference]
  /\ pending = {}
  /\ cash = StartingCash
  /\ positions = [s \in {} |-> s]
  /\ paid = [s \in Symbol |-> {}]
  /\ before = Book
  /\ fills = {}

Held(s) == IF s \in DOMAIN positions THEN positions[s].quantity ELSE 0

-----------------------------------------------------------------------------
(* parse_decision and validate_decision *)

\* One order with a negative amount makes parse_decision reject the file.
Parses(os) == \A i \in DOMAIN os : os[i].amount >= 0

Valid(os, i) ==
  /\ i <= MaxOrders
  /\ os[i].symbol \in Symbol
  /\ os[i].amount > 0

\* sorted by priority: orders of the same priority keep their file order.
Ranks(os, i, j) ==
  \/ os[i].priority < os[j].priority
  \/ os[i].priority = os[j].priority /\ i < j

\* Of the valid orders for one symbol, the first by rank.
Accepted(os) ==
  {i \in DOMAIN os :
     /\ Valid(os, i)
     /\ \A j \in DOMAIN os \ {i} :
          Valid(os, j) /\ os[j].symbol = os[i].symbol => Ranks(os, i, j)}

\* acceptable: the decision is for this round, with a known action, a
\* confidence between 0 and 1, and no orders if it is a hold.
Submit(os, acceptable, bs) ==
  /\ phase # "trading"
  /\ decisions < MaxDecisions
  /\ decisions' = decisions + 1
  /\ orders' = os
  /\ bars' = bs
  /\ before' = Book
  /\ fills' = {}
  /\ phase' = IF ~Parses(os) THEN "unparsed"
               ELSE IF acceptable THEN "trading" ELSE "missing"
  /\ pending' = IF Parses(os) /\ acceptable THEN Accepted(os) ELSE {}
  /\ UNCHANGED book

-----------------------------------------------------------------------------
(* apply_decision and apply_order *)

\* One sort by priority for both sides.
Precedes_PriorityOnly(i, j) == Ranks(orders, i, j)

\* All sells, then all buys, each by rank.
Precedes(i, j) ==
  \/ orders[i].side = "sell" /\ orders[j].side = "buy"
  \/ orders[i].side = orders[j].side /\ Ranks(orders, i, j)

IsNext(i) ==
  /\ phase = "trading"
  /\ i \in pending
  /\ \A j \in pending \ {i} : Precedes(i, j)

Price(i) == FillPrice(bars[orders[i].symbol], orders[i].side)

\* The budget is divided by the reference price: the slippage comes on top.
Quantity_AtReference(i) ==
  IF orders[i].side = "buy"
  THEN (orders[i].amount * PerCent * 10) \div bars[orders[i].symbol]
  ELSE orders[i].amount

Quantity(i) ==
  IF orders[i].side = "buy" THEN BuyQuantity(orders[i].amount, Price(i)) ELSE orders[i].amount

Amount(i) == Value(Quantity(i), Price(i))

CannotFill(i) == bars[orders[i].symbol] = NoReference

\* The price has rounded to zero: the quantity of a buy is a division by zero,
\* and a fill event at such a price is refused.  The sell is looked at first.
Raises(i) ==
  /\ ~CannotFill(i)
  /\ Price(i) = 0
  /\ orders[i].side = "sell" => Quantity(i) <= Held(orders[i].symbol)

\* Every buy is compared with the cash the batch started from.
Fillable_StaleCash(i) ==
  /\ ~CannotFill(i)
  /\ Price(i) # 0
  /\ IF orders[i].side = "buy"
     THEN Quantity(i) # 0 /\ Amount(i) <= before.cash
     ELSE Quantity(i) <= Held(orders[i].symbol)

Fillable(i) ==
  /\ ~CannotFill(i)
  /\ Price(i) # 0
  /\ IF orders[i].side = "buy"
     THEN Quantity(i) # 0 /\ Amount(i) <= cash
     ELSE Quantity(i) <= Held(orders[i].symbol)

Done(i) == pending' = pending \ {i}

Fill(i) == fills' = fills \cup {[order |-> i, quantity |-> Quantity(i), cash |-> Amount(i)]}

Buy(i) ==
  LET s == orders[i].symbol
      p == IF s \in DOMAIN positions
           THEN [quantity |-> positions[s].quantity + Quantity(i),
                 basis    |-> AddedBasis(positions[s], Quantity(i), Price(i))]
           ELSE [quantity |-> Quantity(i), basis |-> Price(i)]
  IN
  /\ IsNext(i) /\ orders[i].side = "buy" /\ Fillable(i)
  /\ cash' = cash - Amount(i)
  /\ positions' = [t \in DOMAIN positions \cup {s} |-> IF t = s THEN p ELSE positions[t]]
  /\ paid' = [paid EXCEPT ![s] = @ \cup {Price(i)}]
  /\ Fill(i) /\ Done(i)
  /\ UNCHANGED <<phase, decisions, orders, bars, before>>

Sell(i) ==
  LET s == orders[i].symbol
      rest == positions[s].quantity - Quantity(i)
  IN
  /\ IsNext(i) /\ orders[i].side = "sell" /\ Fillable(i)
  /\ cash' = cash + Amount(i)
  /\ IF rest = 0
     THEN /\ positions' = [t \in DOMAIN positions \ {s} |-> positions[t]]
          /\ paid' = [paid EXCEPT ![s] = {}]
     ELSE /\ positions' = [positions EXCEPT ![s].quantity = rest]
          /\ UNCHANGED paid
  /\ Fill(i) /\ Done(i)
  /\ UNCHANGED <<phase, decisions, orders, bars, before>>

\* An order that cannot be filled is rejected; the others go on.
Reject(i) ==
  /\ IsNext(i) /\ ~Fillable(i) /\ ~Raises(i)
  /\ Done(i)
  /\ UNCHANGED <<phase, decisions, orders, bars, book, before, fills>>

\* The exception leaves apply_decision, and the book it was given in force.
Raise(i) ==
  /\ IsNext(i) /\ Raises(i)
  /\ phase' = "raised"
  /\ pending' = {}
  /\ cash' = before.cash
  /\ positions' = before.positions
  /\ paid' = before.paid
  /\ fills' = {}
  /\ UNCHANGED <<decisions, orders, bars, before>>

Settle ==
  /\ phase = "trading"
  /\ pending = {}
  /\ phase' = "settled"
  /\ UNCHANGED <<decisions, orders, bars, pending, book, before, fills>>

Next ==
  \/ \E n \in 0..MaxLength :
       \E os \in [1..n -> OrderSet], acceptable \in BOOLEAN,
          bs \in [Symbol -> References \cup {NoReference}] : Submit(os, acceptable, bs)
  \/ \E i \in Index : Buy(i) \/ Sell(i) \/ Reject(i) \/ Raise(i)
  \/ Settle

Spec == Init /\ [][Next]_vars

-----------------------------------------------------------------------------

\* The notional of a buy is a budget: after the quantity is floored and the
\* cost rounded half-even, the cost never exceeds it, and shares are never
\* had for nothing.  (_apply_buy, floor_to_0_001, round_cash.)
BuysWithinNotional ==
  \A f \in fills :
    orders[f.order].side = "buy" => 1 <= f.cash /\ f.cash <= orders[f.order].amount

\* The cost basis of a position is an average: however often it is added to,
\* rounded each time, and partly sold, it stays between the lowest and the
\* highest price paid since it was opened.  (_add_shares, _remove_shares.)
BasisWithinPrices ==
  \A s \in DOMAIN positions :
    \E low, high \in paid[s] :
      low <= positions[s].basis /\ positions[s].basis <= high
=============================================================================
