-------------------------- MODULE BaselinesProofs --------------------------
(***************************************************************************)
(* Proofs about Baselines, for every universe, tape, closes and cash.      *)
(***************************************************************************)
EXTENDS Baselines, PaperExchangeProofs

-----------------------------------------------------------------------------
(* Rounding to a cent *)

LEMMA RoundedNear ==
  ASSUME NEW a \in Nat
  PROVE  /\ RoundHalfEven(a, PerCent) \in Nat
         /\ 2 * (PerCent * RoundHalfEven(a, PerCent)) <= 2 * a + PerCent
         /\ 2 * a <= 2 * (PerCent * RoundHalfEven(a, PerCent)) + PerCent
BY DEF RoundHalfEven, PerCent

LEMMA RoundedMonotonic ==
  ASSUME NEW a \in Nat, NEW b \in Nat, a <= b
  PROVE  RoundHalfEven(a, PerCent) <= RoundHalfEven(b, PerCent)
BY DEF RoundHalfEven, PerCent

\* A buy of a baseline costs what it asks for at most.
LEMMA CostOfBuy ==
  ASSUME NEW i, orders[i].side = "buy", orders[i].amount \in Nat \ {0},
         bars[orders[i].symbol] \in Nat, Price(i) # 0
  PROVE  /\ Quantity(i) \in Nat /\ Amount(i) \in Nat
         /\ Amount(i) <= orders[i].amount
<1>1. Price(i) \in Nat
  <2> DEFINE raw == bars[orders[i].symbol] * 10005
  <2>1. raw \in Nat /\ Price(i) = RoundHalfEven(raw, 100000)
    BY DEF Price, FillPrice
  <2> HIDE DEF raw
  <2> QED  BY <2>1, HalfEvenSteps
<1>2. Quantity(i) = BuyQuantity(orders[i].amount, Price(i))
  BY DEF Quantity
<1>3. CASE Quantity(i) = 0
  <2>1. Amount(i) = RoundHalfEven(0, PerCent)
    BY <1>1, <1>3 DEF Amount, Value
  <2>2. RoundHalfEven(0, PerCent) = 0
    BY DEF RoundHalfEven, PerCent
  <2> QED  BY <1>3, <2>1, <2>2
<1>4. CASE Quantity(i) # 0
  <2>1. Quantity(i) \in Nat /\ Amount(i) <= orders[i].amount
    BY <1>1, <1>2, <1>4, CostWithinNotional DEF Amount
  <2>2. Quantity(i) * Price(i) \in Nat
    BY <1>1, <2>1
  <2> QED  BY <2>1, <2>2, RoundedNear DEF Amount, Value
<1> QED  BY <1>3, <1>4

-----------------------------------------------------------------------------
(* The inductive invariant *)

Holds(ps) ==
  /\ DOMAIN ps \subseteq Symbol
  /\ \A s \in DOMAIN ps : ps[s].quantity \in Nat

\* The book of the strategy that runs, and the recording.
BaselineTyped ==
  /\ cash \in Nat /\ Holds(positions)
  /\ before.cash \in Nat /\ Holds(before.positions)
  /\ bars \in [Symbol -> References \cup {NoReference}]
  /\ tape \in Seq([Symbol -> References \cup {NoReference}])
  /\ official \in [Symbol -> Nat \cup {NoReference}]
  /\ running \in Nat \ {0}
  /\ window \in 0..Len(tape)

\* The cash is split in shares: the order at position i asks for no more than
\* what i - 1 shares leave, of which no more than those i - 1 shares is spent.
Reserved ==
  \E share \in Nat : \A i \in pending :
    /\ i \in Nat \ {0} /\ orders[i].priority = i
    /\ orders[i].side = "buy" /\ orders[i].symbol \in Symbol /\ orders[i].amount \in Nat \ {0}
    /\ orders[i].amount + (i - 1) * share <= before.cash
    /\ before.cash <= cash + (i - 1) * share
    /\ \A j \in pending : i < j => orders[i].amount <= share

BaseInv == BaselineTyped /\ Reserved

LEMMA ReferenceFacts ==
  /\ References \subseteq Nat \ {0} /\ NoReference \notin References
  /\ \A s \in Symbol, b \in [Symbol -> References \cup {NoReference}] :
       b[s] # NoReference => b[s] \in Nat
BY ExchangeAssumption

LEMMA PendingCosts ==
  ASSUME BaseInv, NEW i \in pending, ~CannotFill(i), Price(i) # 0
  PROVE  /\ Quantity(i) \in Nat /\ Amount(i) \in Nat
         /\ Amount(i) <= orders[i].amount /\ Amount(i) <= cash
<1>1. PICK share \in Nat :
        /\ i \in Nat \ {0}
        /\ orders[i].side = "buy" /\ orders[i].symbol \in Symbol /\ orders[i].amount \in Nat \ {0}
        /\ orders[i].amount + (i - 1) * share <= before.cash
        /\ before.cash <= cash + (i - 1) * share
  BY DEF BaseInv, Reserved
<1>2. bars[orders[i].symbol] \in Nat
  BY <1>1, ReferenceFacts DEF BaseInv, BaselineTyped, CannotFill
<1>3. Quantity(i) \in Nat /\ Amount(i) \in Nat /\ Amount(i) <= orders[i].amount
  BY <1>1, <1>2, CostOfBuy
<1>4. cash \in Nat /\ before.cash \in Nat /\ (i - 1) * share \in Nat
  <2>1. i - 1 \in Nat  BY <1>1
  <2> QED  BY <2>1 DEF BaseInv, BaselineTyped
<1> HIDE DEF BaseInv
<1>5. orders[i].amount <= cash
  <2> DEFINE m == (i - 1) * share
  <2>1. m \in Nat /\ orders[i].amount + m <= before.cash /\ before.cash <= cash + m
    BY <1>1, <1>4
  <2> HIDE DEF m
  <2> QED  BY <1>1, <1>4, <2>1
<1> QED  BY <1>1, <1>3, <1>4, <1>5

-----------------------------------------------------------------------------
(* Decisions *)

\* A decision whose orders share out the cash is reserved for.
LEMMA TradeStep ==
  ASSUME BaselineTyped, NEW w \in DOMAIN tape, NEW os, Trade(w, os),
         NEW share \in Nat,
         \A i \in DOMAIN os :
           /\ i \in Nat \ {0} /\ os[i].priority = i /\ os[i].side = "buy" /\ os[i].amount \in Int
           /\ os[i].amount + (i - 1) * share <= cash
           /\ \A j \in DOMAIN os : i < j => os[i].amount <= share
  PROVE  BaseInv'
<1>1. /\ before' = Book /\ orders' = os /\ bars' = tape[w] /\ window' = w
      /\ cash' = cash /\ positions' = positions
      /\ UNCHANGED <<tape, official, running>>
      /\ pending' = Accepted(os) \/ pending' = {}
  BY DEF Trade, Submit, book
<1>2. before'.cash = cash /\ before'.positions = positions
  BY <1>1 DEF Book
<1>3. bars' \in [Symbol -> References \cup {NoReference}] /\ window' \in 0..Len(tape)
  BY <1>1 DEF BaselineTyped
<1>4. BaselineTyped'
  BY <1>1, <1>2, <1>3 DEF BaselineTyped
<1>5. \A i \in pending' : /\ i \in DOMAIN os /\ os[i].symbol \in Symbol /\ os[i].amount > 0
  BY <1>1 DEF Accepted, Valid
<1>6. \A i \in DOMAIN os : (i - 1) * share \in Nat
  OBVIOUS
<1>7. \A i \in DOMAIN os : cash <= cash + (i - 1) * share
  <2> TAKE i \in DOMAIN os
  <2> DEFINE m == (i - 1) * share
  <2>1. m \in Nat /\ cash \in Nat  BY <1>6 DEF BaselineTyped
  <2> HIDE DEF m
  <2>2. cash <= cash + m  BY <2>1
  <2> QED  BY <2>2 DEF m
<1>8. Reserved'
  <2> SUFFICES \A i \in pending' :
         /\ i \in Nat \ {0} /\ orders'[i].priority = i
         /\ orders'[i].side = "buy" /\ orders'[i].symbol \in Symbol
         /\ orders'[i].amount \in Nat \ {0}
         /\ orders'[i].amount + (i - 1) * share <= before'.cash
         /\ before'.cash <= cash' + (i - 1) * share
         /\ \A j \in pending' : i < j => orders'[i].amount <= share
    BY Zenon DEF Reserved
  <2> TAKE i \in pending'
  <2>1. i \in DOMAIN os /\ os[i].symbol \in Symbol /\ os[i].amount \in Nat \ {0}
    BY <1>5
  <2>2. os[i].amount + (i - 1) * share <= cash /\ cash <= cash + (i - 1) * share
    BY <1>7, <2>1
  <2>3. \A j \in pending' : i < j => os[i].amount <= share
    BY <1>5, <2>1
  <2> QED  BY <1>1, <1>2, <2>1, <2>2, <2>3
<1> QED  BY <1>4, <1>8 DEF BaseInv

\* One order for up to all the cash.
LEMMA OneOrder ==
  ASSUME BaselineTyped, NEW w \in DOMAIN tape, NEW s, NEW n \in Int, n <= cash,
         Trade(w, <<BuyOrder(1, s, n)>>)
  PROVE  BaseInv'
<1> DEFINE os == <<BuyOrder(1, s, n)>>
<1>1. DOMAIN os = {1} /\ os[1].priority = 1 /\ os[1].side = "buy" /\ os[1].amount = n
  BY DEF BuyOrder
<1>2. n + (1 - 1) * 0 <= cash
  BY DEF BaselineTyped
<1>3. \A i \in DOMAIN os :
        /\ i \in Nat \ {0} /\ os[i].priority = i /\ os[i].side = "buy" /\ os[i].amount \in Int
        /\ os[i].amount + (i - 1) * 0 <= cash
        /\ \A j \in DOMAIN os : i < j => os[i].amount <= 0
  BY <1>1, <1>2
<1>4. Trade(w, os)
  OBVIOUS
<1> HIDE DEF os
<1> QED  BY <1>3, <1>4, TradeStep

LEMMA NoOrder ==
  ASSUME BaselineTyped, NEW w \in DOMAIN tape, Trade(w, << >>)
  PROVE  BaseInv'
<1> DEFINE os == << >>
<1>1. \A i \in DOMAIN os :
        /\ i \in Nat \ {0} /\ os[i].priority = i /\ os[i].side = "buy" /\ os[i].amount \in Int
        /\ os[i].amount + (i - 1) * 0 <= cash
        /\ \A j \in DOMAIN os : i < j => os[i].amount <= 0
  OBVIOUS
<1>2. Trade(w, os)
  OBVIOUS
<1> HIDE DEF os
<1> QED  BY <1>1, <1>2, TradeStep

\* The shares of the universe: the last symbol pays for the rounding.
LEMMA SharesOut ==
  ASSUME BaselineTyped, \A i \in DOMAIN Sorted : ~(Notional(i) <= 0),
         NEW w \in DOMAIN tape, Trade(w, EqualWeightDecision)
  PROVE  BaseInv'
<1> DEFINE n == Len(Sorted)
           os == EqualWeightDecision
<1>1. DOMAIN Sorted = 1..n /\ n \in Nat \ {0}
  BY BaselineAssumption
<1>2. cash \in Nat
  BY DEF BaselineTyped
<1> HIDE DEF n
<1>3. Share \in Nat
  BY <1>1, <1>2, HalfEvenSteps DEF Share, n
<1>4. Notional(n) = cash - (n - 1) * Share /\ n \in DOMAIN Sorted
  BY <1>1 DEF Notional, n
<1>5. (n - 1) * Share \in Nat /\ (n - 1) * Share < cash
  <2>1. (n - 1) * Share \in Nat
    BY <1>1, <1>3
  <2> DEFINE m == (n - 1) * Share
  <2>2. ~(cash - m <= 0)
    BY <1>4
  <2> HIDE DEF m
  <2> QED  BY <1>2, <2>1, <2>2 DEF m
<1>6. \A i \in 1..n : /\ os[i].priority = i /\ os[i].side = "buy" /\ os[i].amount = Notional(i)
  BY <1>1 DEF EqualWeightDecision, BuyOrder
<1>7. \A i \in 1..n : i # n => Notional(i) = Share
  BY DEF Notional, n
<1>8. \A i \in 1..n : i # n => Share + (i - 1) * Share <= cash
  <2> TAKE i \in 1..n
  <2> HAVE i # n
  <2>1. i \in Nat /\ n - 1 \in Nat /\ i <= n - 1
    BY <1>1
  <2>2. i * Share <= (n - 1) * Share
    BY <1>3, <2>1, TimesMonotonic
  <2>3. Share + (i - 1) * Share = i * Share
    BY <1>3, <2>1
  <2>4. i * Share \in Nat
    BY <1>3, <2>1
  <2> DEFINE a == i * Share
             b == (n - 1) * Share
  <2>5. a \in Nat /\ b \in Nat /\ a <= b /\ b < cash
    BY <1>5, <2>2, <2>4
  <2> HIDE DEF a, b
  <2>6. a <= cash
    BY <1>2, <2>5
  <2> QED  BY <2>3, <2>6 DEF a
<1>9. \A i \in 1..n : /\ os[i].amount \in Int /\ os[i].amount + (i - 1) * Share <= cash
  <2> TAKE i \in 1..n
  <2>1. CASE i = n
    <3> DEFINE m == (n - 1) * Share
    <3>1. os[i].amount = cash - m /\ m \in Nat
      BY <1>4, <1>5, <1>6, <2>1
    <3> HIDE DEF m
    <3>2. os[i].amount \in Int /\ os[i].amount + m <= cash
      BY <1>2, <3>1
    <3> QED  BY <2>1, <3>2 DEF m
  <2>2. CASE i # n
    BY <1>3, <1>6, <1>7, <1>8, <2>2
  <2> QED  BY <2>1, <2>2
<1>10. \A i, j \in 1..n : i < j => os[i].amount <= Share
  BY <1>1, <1>3, <1>6, <1>7
<1>11. DOMAIN os = 1..n
  BY <1>1 DEF EqualWeightDecision
<1> HIDE DEF os
<1>12. \A i \in DOMAIN os :
         /\ i \in Nat \ {0} /\ os[i].priority = i /\ os[i].side = "buy" /\ os[i].amount \in Int
         /\ os[i].amount + (i - 1) * Share <= cash
         /\ \A j \in DOMAIN os : i < j => os[i].amount <= Share
  BY <1>6, <1>9, <1>10, <1>11
<1>13. Trade(w, os)
  BY DEF os
<1> QED  BY <1>3, <1>12, <1>13, TradeStep

-----------------------------------------------------------------------------
(* Steps of the exchange *)

LEMMA BaselineBuys ==
  ASSUME BaseInv, NEW i \in Index, Buy(i), UNCHANGED baseline
  PROVE  BaseInv'
<1> DEFINE s == orders[i].symbol
           p == IF s \in DOMAIN positions
                THEN [quantity |-> positions[s].quantity + Quantity(i),
                      basis    |-> AddedBasis(positions[s], Quantity(i), Price(i))]
                ELSE [quantity |-> Quantity(i), basis |-> Price(i)]
<1>1. /\ i \in pending /\ ~CannotFill(i) /\ Price(i) # 0
      /\ \A j \in pending \ {i} : Precedes(i, j)
      /\ cash' = cash - Amount(i) /\ pending' = pending \ {i}
      /\ positions' = [t \in DOMAIN positions \cup {s} |-> IF t = s THEN p ELSE positions[t]]
      /\ UNCHANGED <<orders, bars, before, tape, official, running, window>>
  BY DEF Buy, IsNext, Fillable, Done, baseline
<1>2. /\ Quantity(i) \in Nat /\ Amount(i) \in Nat
      /\ Amount(i) <= orders[i].amount /\ Amount(i) <= cash
  BY <1>1, PendingCosts
<1>3. s \in Symbol
  BY <1>1 DEF BaseInv, Reserved
<1>4. Holds(positions')
  <2>1. p.quantity \in Nat
    BY <1>2 DEF BaseInv, BaselineTyped, Holds
  <2> HIDE DEF p, s
  <2> QED  BY <1>1, <1>3, <2>1 DEF BaseInv, BaselineTyped, Holds
<1>5. cash \in Nat /\ cash' \in Nat /\ before.cash \in Nat
  BY <1>1, <1>2 DEF BaseInv, BaselineTyped
<1>6. BaselineTyped'
  BY <1>1, <1>4, <1>5 DEF BaseInv, BaselineTyped
<1>7. Reserved'
  <2>1. PICK share \in Nat : \A k \in pending :
          /\ k \in Nat \ {0} /\ orders[k].priority = k
          /\ orders[k].side = "buy" /\ orders[k].symbol \in Symbol
          /\ orders[k].amount \in Nat \ {0}
          /\ orders[k].amount + (k - 1) * share <= before.cash
          /\ before.cash <= cash + (k - 1) * share
          /\ \A j \in pending : k < j => orders[k].amount <= share
    BY DEF BaseInv, Reserved
  <2>2. \A j \in pending' : before.cash <= cash' + (j - 1) * share
    <3> TAKE j \in pending'
    <3>1. i \in Nat \ {0} /\ j \in Nat \ {0} /\ i < j /\ orders[i].amount <= share
      <4>1. j \in pending /\ j # i /\ Precedes(i, j)
        BY <1>1
      <4>2. i \in Nat \ {0} /\ j \in Nat \ {0} /\ orders[i].priority = i /\ orders[j].priority = j
            /\ orders[i].side = "buy" /\ orders[j].side = "buy"
        BY <1>1, <2>1, <4>1
      <4>3. i < j
        BY <4>1, <4>2 DEF Precedes, Ranks
      <4> QED  BY <1>1, <2>1, <4>1, <4>2, <4>3
    <3>2. i * share <= (j - 1) * share
      <4>1. i \in Nat /\ j - 1 \in Nat /\ i <= j - 1  BY <3>1
      <4> QED  BY <4>1, TimesMonotonic
    <3>3. (i - 1) * share + share = i * share
      BY <3>1
    <3>4. (i - 1) * share \in Nat /\ (j - 1) * share \in Nat
      <4>1. i - 1 \in Nat /\ j - 1 \in Nat  BY <3>1
      <4> QED  BY <4>1
    <3>5. before.cash <= cash + (i - 1) * share
      BY <1>1, <2>1
    <3>6. orders[i].amount \in Nat
      BY <1>1, <2>1
    <3> DEFINE a == (i - 1) * share
               b == (j - 1) * share
    <3>7. /\ a \in Nat /\ b \in Nat /\ a + share <= b /\ before.cash <= cash + a
      BY <3>2, <3>3, <3>4, <3>5
    <3> HIDE DEF a, b
    <3>8. before.cash <= cash' + b
      BY <1>1, <1>2, <1>5, <3>1, <3>6, <3>7
    <3> QED  BY <3>8 DEF b
  <2>3. \A k \in pending' :
          /\ k \in Nat \ {0} /\ orders'[k].priority = k
          /\ orders'[k].side = "buy" /\ orders'[k].symbol \in Symbol
          /\ orders'[k].amount \in Nat \ {0}
          /\ orders'[k].amount + (k - 1) * share <= before'.cash
          /\ before'.cash <= cash' + (k - 1) * share
          /\ \A j \in pending' : k < j => orders'[k].amount <= share
    <3> TAKE k \in pending'
    <3>1. k \in pending /\ \A j \in pending' : j \in pending
      BY <1>1
    <3>2. before.cash <= cash' + (k - 1) * share
      BY <2>2
    <3>3. orders' = orders /\ before' = before
      BY <1>1
    <3> HIDE DEF s, p
    <3> QED  BY <2>1, <3>1, <3>2, <3>3, Zenon
  <2> QED  BY <2>3, Zenon DEF Reserved
<1> QED  BY <1>6, <1>7 DEF BaseInv

LEMMA BaselineOthers ==
  ASSUME BaseInv, NEW i \in Index, Reject(i) \/ Raise(i), UNCHANGED baseline
  PROVE  BaseInv'
<1>1. CASE Reject(i)
  <2>1. /\ UNCHANGED <<cash, positions, before, bars, orders, tape, official, running, window>>
        /\ pending' \subseteq pending
    BY <1>1 DEF Reject, Done, book, baseline
  <2>2. BaselineTyped'
    BY <2>1 DEF BaseInv, BaselineTyped
  <2>3. Reserved'
    BY <2>1 DEF BaseInv, Reserved
  <2> QED  BY <2>2, <2>3 DEF BaseInv
<1>2. CASE Raise(i)
  <2>1. /\ UNCHANGED <<before, bars, orders, tape, official, running, window>>
        /\ pending' = {} /\ cash' = before.cash /\ positions' = before.positions
    BY <1>2 DEF Raise, baseline
  <2>2. BaselineTyped'
    BY <2>1 DEF BaseInv, BaselineTyped
  <2>3. Reserved'
    BY <2>1 DEF Reserved
  <2> QED  BY <2>2, <2>3 DEF BaseInv
<1> QED  BY <1>1, <1>2

LEMMA BaselineInitial == BaselineInit => BaseInv
<1> SUFFICES ASSUME BaselineInit PROVE BaseInv  OBVIOUS
<1>1. /\ cash = StartingCash /\ positions = [s \in {} |-> s] /\ before = Book
      /\ bars = [s \in Symbol |-> NoReference] /\ pending = {}
      /\ tape \in Tapes /\ official \in Closes /\ running = 1 /\ window = 0
  BY DEF BaselineInit, Init
<1>2. Holds(positions) /\ before.cash = cash /\ before.positions = positions
  BY <1>1 DEF Holds, Book
<1>3. /\ tape \in Seq([Symbol -> References \cup {NoReference}])
      /\ official \in [Symbol -> Nat \cup {NoReference}] /\ Len(tape) \in Nat
  BY <1>1, BaselineAssumption
<1>4. BaselineTyped
  BY <1>1, <1>2, <1>3, ExchangeAssumption DEF BaselineTyped
<1> QED  BY <1>1, <1>4 DEF BaseInv, Reserved

\* A decision, or an exception in its place.
LEMMA BaselineDecides ==
  ASSUME BaseInv, SpyInvests \/ EqualWeightInvests \/ RandomInvests
  PROVE  BaseInv' \/ Fail
<1>1. BaselineTyped /\ cash \in Int
  BY DEF BaseInv, BaselineTyped
<1>2. CASE SpyInvests
  <2> SUFFICES ASSUME ~Fail PROVE BaseInv'  OBVIOUS
  <2>1. PICK w \in FirstWindow({Spy}) : Trade(w, SpyDecision)
    BY <1>2 DEF SpyInvests
  <2>2. w \in DOMAIN tape /\ Trade(w, <<BuyOrder(1, Spy, cash)>>)
    BY <2>1 DEF FirstWindow, SpyDecision
  <2> QED  BY <1>1, <2>2, OneOrder
<1>3. CASE EqualWeightInvests
  <2> SUFFICES ASSUME ~Fail PROVE BaseInv'  OBVIOUS
  <2>1. /\ \A i \in DOMAIN Sorted : ~(Notional(i) <= 0)
        /\ \E w \in FirstWindow(Symbol) : Trade(w, EqualWeightDecision)
    BY <1>3 DEF EqualWeightInvests
  <2>2. PICK w \in FirstWindow(Symbol) : Trade(w, EqualWeightDecision)
    BY <2>1
  <2>3. w \in DOMAIN tape
    BY <2>2 DEF FirstWindow
  <2> QED  BY <1>1, <2>1, <2>2, <2>3, SharesOut
<1>4. CASE RandomInvests
  <2>1. PICK os \in RandomDecisions : window < Len(tape) /\ Trade(window + 1, os)
    BY <1>4 DEF RandomInvests
  <2>2. window + 1 \in DOMAIN tape
    BY <1>1, <2>1 DEF BaselineTyped
  <2>3. CASE os = << >>
    BY <1>1, <2>1, <2>2, <2>3, NoOrder
  <2>4. CASE os # << >>
    <3>1. PICK s \in Symbol, n \in {m \in Drawn : m <= cash} : os = <<BuyOrder(1, s, n)>>
      BY <2>1, <2>4 DEF RandomDecisions
    <3>2. n \in Int /\ n <= cash
      BY <3>1, BaselineAssumption
    <3> QED  BY <1>1, <2>1, <2>2, <3>1, <3>2, OneOrder
  <2> QED  BY <2>3, <2>4
<1> QED  BY <1>2, <1>3, <1>4

\* The inductive invariant holds in every reachable state.
THEOREM BaselineInvariance == BaselineSpec => []BaseInv
<1>1. BaseInv /\ [BaselineNext]_allVars => BaseInv'
  <2> SUFFICES ASSUME BaseInv, [BaselineNext]_allVars PROVE BaseInv'
    OBVIOUS
  <2>1. CASE UNCHANGED allVars \/ Fail \/ (Settle /\ UNCHANGED baseline)
    <3>1. UNCHANGED <<cash, positions, before, bars, orders, pending, tape, official, running, window>>
      BY <2>1 DEF allVars, exchange, baseline, vars, Fail, Settle, book
    <3>2. BaselineTyped'
      BY <3>1 DEF BaseInv, BaselineTyped
    <3>3. Reserved'
      BY <3>1 DEF BaseInv, Reserved
    <3> QED  BY <3>2, <3>3 DEF BaseInv
  <2>2. CASE SpyInvests \/ EqualWeightInvests \/ RandomInvests
    BY <2>1, <2>2, BaselineDecides
  <2>3. CASE CloseBaseline
    <3>1. CASE ~Closed
      BY <2>1, <2>3, <3>1 DEF CloseBaseline
    <3>2. CASE Closed
      <4>1. /\ cash' = StartingCash /\ positions' = [s \in {} |-> s] /\ pending' = {}
            /\ before' = [cash |-> cash', positions |-> positions', paid |-> paid']
            /\ UNCHANGED <<bars, tape, official>> /\ running' = running + 1 /\ window' = 0
        BY <2>3, <3>2 DEF CloseBaseline, Valued
      <4>2. /\ Holds(positions') /\ before'.cash = cash' /\ before'.positions = positions'
            /\ Len(tape) \in Nat
        BY <4>1 DEF Holds, BaseInv, BaselineTyped
      <4>3. BaselineTyped'
        BY <4>1, <4>2, ExchangeAssumption DEF BaseInv, BaselineTyped
      <4> QED  BY <4>1, <4>3 DEF BaseInv, Reserved
    <3> QED  BY <3>1, <3>2
  <2>4. CASE Raised
    BY <2>1, <2>4 DEF Raised
  <2>5. CASE Exchange
    <3>1. ASSUME NEW i \in Index, Buy(i) \/ Reject(i) \/ Raise(i)
          PROVE  BaseInv'
      BY <2>5, <3>1, BaselineBuys, BaselineOthers DEF Exchange
    <3> QED  BY <2>1, <2>5, <3>1 DEF Exchange
  <2> QED  BY <2>1, <2>2, <2>3, <2>4, <2>5 DEF BaselineNext
<1> QED  BY BaselineInitial, <1>1, PTL DEF BaselineSpec

\* No buy of a baseline is ever rejected for lack of cash, for any universe,
\* prices and cash: the rounded shares never add up to more than the cash
\* (equal_weight_notionals, random_decision).
THEOREM BuysAreAffordable == BaselineSpec => []BuysAffordable
<1>1. BaseInv => BuysAffordable
  BY PendingCosts DEF BuysAffordable
<1> QED  BY BaselineInvariance, <1>1, PTL

-----------------------------------------------------------------------------
(* Valuation *)

LEMMA SymbolsFinite == IsFiniteSet(Symbol)
<1>1. /\ Sorted \in Seq(Symbol) /\ Symbol = {Sorted[i] : i \in DOMAIN Sorted}
  BY BaselineAssumption
<1>2. DOMAIN Sorted = 1..Len(Sorted) /\ Len(Sorted) \in Nat /\ Sorted \in [DOMAIN Sorted -> Symbol]
  BY <1>1
<1>3. IsFiniteSet(DOMAIN Sorted)
  <2>1. \A m \in Nat : IsFiniteSet(1..m)
    BY FS_Interval
  <2> QED  BY <1>2, <2>1
<1>4. Sorted \in Surjection(DOMAIN Sorted, Symbol)
  BY <1>1, <1>2 DEF Surjection
<1> QED  BY <1>3, <1>4, FS_Surjection

Values(price) == [s \in DOMAIN positions |-> positions[s].quantity * price[s]]

LEMMA WorthIs ==
  ASSUME NEW price, IsFiniteSet(DOMAIN positions),
         \A s \in DOMAIN positions : positions[s].quantity * price[s] \in Int
  PROVE  Worth(price) = SumOf(Values(price))
<1> DEFINE U == DOMAIN positions
           Sums(g) == g = [t \in SUBSET U |->
                              IF t = {} THEN 0
                              ELSE positions[CHOOSE x \in t : TRUE].quantity * price[CHOOSE x \in t : TRUE]
                                     + g[t \ {CHOOSE x \in t : TRUE}]]
           it == CHOOSE g : Sums(g)
<1>1. Worth(price) = it[U]
  BY Zenon DEF Worth, MapThenSumSet, MapThenFoldSet
<1>2. \A t \in SUBSET U : t # {} =>
        Values(price)[AnyOf(t)]
          = positions[CHOOSE x \in t : TRUE].quantity * price[CHOOSE x \in t : TRUE]
  BY AnyOfIn DEF Values, AnyOf
<1>3. \A g : Sums(g) <=> Adds(g, Values(price), U)
  BY <1>2 DEF Adds, AnyOf
<1>4. Values(price) \in [U -> Int]
  BY DEF Values
<1> HIDE DEF Sums
<1>5. \E g : Sums(g)
  BY <1>3, <1>4, SumExists
<1>6. Sums(it)
  BY <1>5, Zenon
<1>7. SumOf(Values(price)) = it[U]
  BY <1>3, <1>4, <1>6, AddsIsSum, SumIs
<1> QED  BY <1>1, <1>7

\* What selling the position in s at its close would bring.
Sale(s) == Value(positions[s].quantity, FillPrice(10 * official[s], "sell"))
Sales   == [s \in DOMAIN positions |-> Sale(s)]

LEMMA SalesIs ==
  ASSUME IsFiniteSet(DOMAIN positions), \A s \in DOMAIN positions : Sale(s) \in Int
  PROVE  MapThenSumSet(Sale, DOMAIN positions) = SumOf(Sales)
<1> DEFINE U == DOMAIN positions
           Sums(g) == g = [t \in SUBSET U |->
                              IF t = {} THEN 0
                              ELSE Sale(CHOOSE x \in t : TRUE) + g[t \ {CHOOSE x \in t : TRUE}]]
           it == CHOOSE g : Sums(g)
<1>1. MapThenSumSet(Sale, DOMAIN positions) = it[U]
  BY Zenon DEF MapThenSumSet, MapThenFoldSet
<1>2. \A t \in SUBSET U : t # {} => Sales[AnyOf(t)] = Sale(CHOOSE x \in t : TRUE)
  BY AnyOfIn DEF Sales, AnyOf
<1>3. \A g : Sums(g) <=> Adds(g, Sales, U)
  BY <1>2 DEF Adds, AnyOf
<1>4. Sales \in [U -> Int]
  BY DEF Sales
<1> HIDE DEF Sums
<1>5. \E g : Sums(g)
  BY <1>3, <1>4, SumExists
<1>6. Sums(it)
  BY <1>5, Zenon
<1>7. SumOf(Sales) = it[U]
  BY <1>3, <1>4, <1>6, AddsIsSum, SumIs
<1> QED  BY <1>1, <1>7

\* The sum of nothing but zeros.
LEMMA SumOfZeros ==
  ASSUME NEW U, IsFiniteSet(U), NEW f \in [U -> Int], \A x \in U : f[x] = 0
  PROVE  SumOf(f) = 0
<1> DEFINE h == [s \in SUBSET U |-> 0]
<1>1. IsSum(h, f, U)
  BY DEF IsSum
<1>2. h[U] = 0
  OBVIOUS
<1> HIDE DEF h
<1> QED  BY <1>1, <1>2, SumIs

\* A liquidation price is never above the close.
LEMMA SlippedDown ==
  ASSUME NEW close \in Nat
  PROVE  /\ FillPrice(10 * close, "sell") \in Nat
         /\ FillPrice(10 * close, "sell") <= close
<1>1. FillPrice(10 * close, "sell") = RoundHalfEven(99950 * close, 100000)
  BY DEF FillPrice
<1>2. 99950 * close \in Nat /\ 0 * 100000 <= 99950 * close /\ 99950 * close <= close * 100000
  OBVIOUS
<1> QED  BY <1>1, <1>2, HalfEvenSteps, HalfEvenBetween

LEMMA Valuation == BaseInv => NlvIsLiquidation
<1> SUFFICES ASSUME BaseInv, Closed
             PROVE  LET sold == cash + MapThenSumSet(Sale, DOMAIN positions)
                        sales == Cardinality(DOMAIN positions)
                    IN /\ NetLiquidation <= Equity
                       /\ 2 * NetLiquidation <= 2 * sold + sales + 1
                       /\ 2 * sold <= 2 * NetLiquidation + sales + 1
  BY Zenon DEF NlvIsLiquidation, Sale
<1> DEFINE D == DOMAIN positions
           slipped == [s \in D |-> SellFill(s)]
           n == Cardinality(D)
<1>1. IsFiniteSet(D) /\ n \in Nat
  BY SymbolsFinite, FS_Subset, FS_CardinalityType DEF BaseInv, BaselineTyped, Holds
<1>2. \A s \in D : positions[s].quantity \in Nat /\ official[s] \in Nat
  BY DEF BaseInv, BaselineTyped, Holds, Closed
<1>3. \A s \in D : slipped[s] \in Nat /\ slipped[s] <= official[s]
                  /\ slipped[s] = FillPrice(10 * official[s], "sell")
  BY <1>2, SlippedDown DEF SellFill
<1>4. \A s \in D : /\ positions[s].quantity * official[s] \in Nat
                  /\ positions[s].quantity * slipped[s] \in Nat
                  /\ positions[s].quantity * slipped[s] <= positions[s].quantity * official[s]
  <2> TAKE s \in D
  <2> DEFINE q == positions[s].quantity
             a == slipped[s]
             b == official[s]
  <2>1. q \in Nat /\ a \in Nat /\ b \in Nat /\ a <= b
    BY <1>2, <1>3
  <2> HIDE DEF q, a, b
  <2>2. a * q <= b * q /\ a * q = q * a /\ b * q = q * b /\ q * a \in Nat /\ q * b \in Nat
    BY <2>1, TimesMonotonic
  <2> QED  BY <2>2 DEF q, a, b
<1>5. /\ Values(official) \in [D -> Int] /\ Values(slipped) \in [D -> Int]
      /\ \A s \in D : /\ Values(slipped)[s] = positions[s].quantity * slipped[s]
                      /\ Values(slipped)[s] <= Values(official)[s]
                      /\ 0 <= Values(slipped)[s]
  <2> HIDE DEF slipped
  <2> QED  BY <1>4 DEF Values
<1> HIDE DEF D, slipped
<1>6. /\ Worth(official) = SumOf(Values(official)) /\ Worth(slipped) = SumOf(Values(slipped))
  BY <1>1, <1>4, WorthIs DEF D
<1>7. /\ Worth(slipped) <= Worth(official) /\ Worth(slipped) \in Int /\ Worth(official) \in Int
  BY <1>1, <1>5, <1>6, SumFacts, SumMonotonic
<1>8. Worth(slipped) >= 0
  <2> DEFINE zero == [s \in D |-> 0]
  <2>1. zero \in [D -> Int] /\ \A s \in D : zero[s] = 0 /\ zero[s] <= Values(slipped)[s]
    BY <1>5
  <2> HIDE DEF zero
  <2>3. SumOf(zero) \in Int /\ SumOf(zero) <= SumOf(Values(slipped))
    BY <1>1, <1>5, <2>1, SumFacts, SumMonotonic
  <2>4. SumOf(zero) = 0
    BY <1>1, <2>1, SumOfZeros
  <2> QED  BY <1>6, <1>7, <2>3, <2>4
<1>9. cash \in Nat
  BY DEF BaseInv, BaselineTyped
<1>10. /\ Equity = RoundHalfEven(cash * PerCent + Worth(official), PerCent)
       /\ NetLiquidation = RoundHalfEven(cash * PerCent + Worth(slipped), PerCent)
  BY DEF Equity, NetLiquidation, slipped, D
<1>11. /\ cash * PerCent + Worth(slipped) \in Nat /\ cash * PerCent + Worth(official) \in Nat
       /\ cash * PerCent + Worth(slipped) <= cash * PerCent + Worth(official)
  BY <1>7, <1>8, <1>9 DEF PerCent
<1>12. NetLiquidation <= Equity
  BY <1>10, <1>11, RoundedMonotonic
<1>13. /\ NetLiquidation \in Nat
       /\ 2 * (PerCent * NetLiquidation) <= 2 * (cash * PerCent + Worth(slipped)) + PerCent
       /\ 2 * (cash * PerCent + Worth(slipped)) <= 2 * (PerCent * NetLiquidation) + PerCent
  BY <1>10, <1>11, RoundedNear
<1>14. \A s \in D : /\ Sale(s) \in Nat
                   /\ 2 * (PerCent * Sale(s)) <= 2 * Values(slipped)[s] + PerCent
                   /\ 2 * Values(slipped)[s] <= 2 * (PerCent * Sale(s)) + PerCent
  <2> TAKE s \in D
  <2> DEFINE a == positions[s].quantity * slipped[s]
  <2>1. Sale(s) = RoundHalfEven(a, PerCent) /\ a \in Nat /\ Values(slipped)[s] = a
    BY <1>3, <1>4, <1>5 DEF Sale, Value
  <2> HIDE DEF a
  <2> QED  BY <2>1, RoundedNear
<1>15. /\ Sales \in [D -> Int] /\ \A s \in D : Sales[s] = Sale(s)
       /\ MapThenSumSet(Sale, DOMAIN positions) = SumOf(Sales)
  <2>1. Sales \in [D -> Int] /\ \A s \in D : Sales[s] = Sale(s)
    BY <1>14 DEF Sales, D
  <2>2. IsFiniteSet(DOMAIN positions) /\ \A s \in DOMAIN positions : Sale(s) \in Int
    BY <1>1, <1>14 DEF D
  <2>3. MapThenSumSet(Sale, DOMAIN positions) = SumOf(Sales)
    BY <2>2, SalesIs, Zenon
  <2> QED  BY <2>1, <2>3
<1>16. /\ SumOf(Sales) \in Int
       /\ 2 * (PerCent * SumOf(Sales)) <= 2 * SumOf(Values(slipped)) + PerCent * n
       /\ 2 * SumOf(Values(slipped)) <= 2 * (PerCent * SumOf(Sales)) + PerCent * n
  <2>1. \A s \in D : /\ 2 * (PerCent * Sales[s]) <= 2 * Values(slipped)[s] + PerCent
                    /\ 2 * Values(slipped)[s] <= 2 * (PerCent * Sales[s]) + PerCent
    BY <1>14, <1>15
  <2> QED  BY <1>1, <1>5, <1>15, <2>1, SumFacts, SumRounded
<1> HIDE DEF n
<1>17. LET sold == cash + SumOf(Sales)
       IN /\ 2 * NetLiquidation <= 2 * sold + n + 1
          /\ 2 * sold <= 2 * NetLiquidation + n + 1
  BY <1>1, <1>6, <1>7, <1>9, <1>13, <1>16 DEF PerCent
<1> QED  BY <1>12, <1>15, <1>17 DEF n, D

\* NLV never exceeds the equity and differs from what selling everything on the
\* exchange would leave by the roundings alone, for any positions and closes
\* (final_nlv, mark_to_close).
THEOREM NlvIsALiquidation == BaselineSpec => []NlvIsLiquidation
BY BaselineInvariance, Valuation, PTL
=============================================================================
