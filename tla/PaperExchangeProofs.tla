------------------------ MODULE PaperExchangeProofs ------------------------
(***************************************************************************)
(* Proofs about PaperExchange, for every universe, order, price and number *)
(* of rounds: the book while a decision is traded, and the outcome of the  *)
(* whole decision (BatchOutcome), which speaks of sums over its fills.     *)
(***************************************************************************)
EXTENDS BatchOutcome, FiniteSetTheorems, TLAPS

-----------------------------------------------------------------------------
(* Arithmetic *)

LEMMA TimesMonotonic ==
  ASSUME NEW x \in Nat, NEW y \in Nat, NEW b \in Nat, x <= y
  PROVE  x * b <= y * b
OBVIOUS

LEMMA TimesCancels ==
  ASSUME NEW x \in Nat, NEW y \in Nat, NEW b \in Nat, x * b < y * b
  PROVE  x < y
<1>1. CASE y <= x
  BY <1>1, TimesMonotonic
<1> QED  BY <1>1

LEMMA Division ==
  ASSUME NEW a \in Nat, NEW b \in Nat, b > 0
  PROVE  /\ a \div b \in Nat
         /\ a % b \in Nat /\ a % b < b
         /\ a = (a \div b) * b + (a % b)
<1>1. a \div b \in Int /\ a \div b >= 0
  OBVIOUS
<1>2. a % b \in Int /\ a % b >= 0 /\ a % b < b
  OBVIOUS
<1>3. a = b * (a \div b) + (a % b)
  OBVIOUS
<1>4. b * (a \div b) = (a \div b) * b
  BY <1>1
<1> QED  BY <1>1, <1>2, <1>3, <1>4

\* Half-even rounding goes up only when something is cut off.
LEMMA HalfEvenSteps ==
  ASSUME NEW a \in Nat, NEW b \in Nat, b > 0
  PROVE  /\ RoundHalfEven(a, b) \in Nat
         /\ \/ RoundHalfEven(a, b) = a \div b
            \/ RoundHalfEven(a, b) = a \div b + 1 /\ a % b > 0
         /\ 2 * (a % b) > b => RoundHalfEven(a, b) = a \div b + 1
<1> DEFINE q == a \div b
           r == a % b
<1>1. q \in Nat /\ r \in Nat
  BY Division
<1>2. RoundHalfEven(a, b) = IF 2 * r > b \/ (2 * r = b /\ q % 2 = 1) THEN q + 1 ELSE q
  BY DEF RoundHalfEven
<1> HIDE DEF q, r
<1>3. /\ RoundHalfEven(a, b) = q \/ (RoundHalfEven(a, b) = q + 1 /\ r > 0)
      /\ 2 * r > b => RoundHalfEven(a, b) = q + 1
  BY <1>1, <1>2
<1> QED  BY <1>1, <1>3 DEF q, r

\* A quotient between two whole numbers rounds to a number between them.
LEMMA HalfEvenBetween ==
  ASSUME NEW a \in Nat, NEW b \in Nat, b > 0,
         NEW low \in Nat, NEW high \in Nat,
         low * b <= a, a <= high * b
  PROVE  /\ low <= RoundHalfEven(a, b)
         /\ RoundHalfEven(a, b) <= high
<1> DEFINE q == a \div b
           r == a % b
<1>1. q \in Nat /\ r \in Nat /\ r < b /\ a = q * b + r
  BY Division
<1>2. /\ RoundHalfEven(a, b) = q \/ (RoundHalfEven(a, b) = q + 1 /\ r > 0)
  BY HalfEvenSteps
<1> HIDE DEF q, r
<1>3. low <= q
  <2>1. (q + 1) * b = q * b + b
    BY <1>1
  <2>2. low * b < (q + 1) * b
    BY <1>1, <2>1
  <2>3. low < q + 1
    BY <1>1, <2>2, TimesCancels
  <2> QED  BY <1>1, <2>3
<1>4. q <= high
  <2>1. CASE high < q
    <3>1. (high + 1) * b <= q * b
      BY <1>1, <2>1, TimesMonotonic
    <3>2. (high + 1) * b = high * b + b
      OBVIOUS
    <3> QED  BY <1>1, <3>1, <3>2
  <2> QED  BY <1>1, <2>1
<1>5. r > 0 => q < high
  <2>1. q = high /\ r > 0 => FALSE
    BY <1>1
  <2> QED  BY <1>1, <1>4, <2>1
<1>6. RoundHalfEven(a, b) \in Nat
  BY HalfEvenSteps
<1> QED  BY <1>1, <1>2, <1>3, <1>4, <1>5, <1>6

\* The cost of the quantity that a notional buys is at least a cent and never
\* more than the notional.
LEMMA CostWithinNotional ==
  ASSUME NEW notional \in Nat, notional > 0, NEW fill \in Nat, fill > 0,
         BuyQuantity(notional, fill) # 0
  PROVE  /\ BuyQuantity(notional, fill) \in Nat
         /\ 1 <= Value(BuyQuantity(notional, fill), fill)
         /\ Value(BuyQuantity(notional, fill), fill) <= notional
<1> DEFINE q == BuyQuantity(notional, fill)
           c == q * fill
           budget == notional * PerCent
<1>1. budget \in Nat /\ budget >= PerCent /\ PerCent \in Nat /\ PerCent > 0
  BY DEF PerCent
<1>2. q \in Nat /\ c <= budget /\ budget < c + fill
  <2>1. q = budget \div fill
    BY DEF BuyQuantity
  <2> HIDE DEF budget
  <2>2. /\ budget \div fill \in Nat
        /\ budget % fill \in Nat /\ budget % fill < fill
        /\ budget = (budget \div fill) * fill + (budget % fill)
    BY <1>1, Division
  <2>3. (budget \div fill) * fill \in Nat
    BY <2>2
  <2> QED  BY <2>1, <2>2, <2>3, <1>1
<1>3. q >= 1
  BY <1>2
<1> HIDE DEF q
<1>4. c \in Nat /\ fill <= c
  BY <1>2, <1>3, TimesMonotonic
<1>5. Value(q, fill) <= notional
  BY <1>1, <1>2, <1>4, HalfEvenBetween DEF Value
<1>6. 1 <= Value(q, fill)
  <2> DEFINE u == c \div PerCent
             r == c % PerCent
  <2> HIDE DEF c
  <2>1. u \in Nat /\ r \in Nat /\ c = u * PerCent + r
    BY <1>1, <1>4, Division
  <2>2. CASE u = 0
    <3>1. 2 * r > PerCent
      BY <1>1, <1>2, <1>4, <2>1, <2>2
    <3>2. RoundHalfEven(c, PerCent) = u + 1
      BY <1>1, <1>4, <3>1, HalfEvenSteps
    <3> QED  BY <2>1, <3>2 DEF Value, c
  <2>3. CASE u # 0
    <3>1. RoundHalfEven(c, PerCent) = u \/ RoundHalfEven(c, PerCent) = u + 1
      BY <1>1, <1>4, HalfEvenSteps
    <3> QED  BY <2>1, <2>3, <3>1 DEF Value, c
  <2> QED  BY <2>2, <2>3
<1> QED  BY <1>2, <1>5, <1>6 DEF q

Average(n, basis, m, fill) == RoundHalfEven(n * basis + m * fill, n + m)

\* The rounded average of two prices, each of at least one share, lies between
\* bounds of both.
LEMMA AverageBetween ==
  ASSUME NEW n \in Nat, n > 0, NEW m \in Nat, m > 0,
         NEW basis \in Nat, NEW fill \in Nat, NEW low \in Nat, NEW high \in Nat,
         low <= basis, basis <= high, low <= fill, fill <= high
  PROVE  /\ low <= Average(n, basis, m, fill)
         /\ Average(n, basis, m, fill) <= high
         /\ Average(n, basis, m, fill) \in Nat
<1> DEFINE a == n * basis + m * fill
<1>1. /\ low * n <= basis * n /\ basis * n <= high * n
      /\ low * m <= fill * m /\ fill * m <= high * m
  BY TimesMonotonic
<1>2. /\ low * (n + m) = low * n + low * m
      /\ high * (n + m) = high * n + high * m
      /\ n * basis = basis * n /\ m * fill = fill * m
  OBVIOUS
<1>3. basis * n \in Nat /\ fill * m \in Nat
  OBVIOUS
<1>4. a \in Nat /\ low * (n + m) <= a /\ a <= high * (n + m)
  BY <1>1, <1>2, <1>3
<1> HIDE DEF a
<1>5. low <= RoundHalfEven(a, n + m) /\ RoundHalfEven(a, n + m) <= high
  BY <1>4, HalfEvenBetween
<1>6. RoundHalfEven(a, n + m) \in Nat
  BY <1>4, HalfEvenSteps
<1> QED  BY <1>5, <1>6 DEF a, Average

-----------------------------------------------------------------------------
(* The inductive invariant *)

Price0 == Nat \ {0}

\* A book: nonempty positions in known symbols, each with a basis between two
\* of the prices paid for it.
IsBook(b) ==
  /\ b.cash \in Nat
  /\ DOMAIN b.positions \subseteq Symbol
  /\ b.positions \in [DOMAIN b.positions -> Position]
  /\ b.paid \in [Symbol -> SUBSET Price0]
  /\ \A s \in DOMAIN b.positions :
       \E low, high \in b.paid[s] :
         low <= b.positions[s].basis /\ b.positions[s].basis <= high

\* What is still to be applied has passed validation.
PendingValid ==
  \A i \in pending : orders[i].symbol \in Symbol /\ orders[i].amount > 0

IInv ==
  /\ TypeOK
  /\ IsBook(Book)
  /\ IsBook(before)
  /\ PendingValid
  /\ BuysWithinNotional

\* What Fillable guarantees of a pending order.
LEMMA FillableFacts ==
  ASSUME IInv, NEW i \in pending, Fillable(i)
  PROVE  /\ orders[i].symbol \in Symbol
         /\ Price(i) \in Price0
         /\ Quantity(i) \in Nat \ {0}
         /\ Amount(i) \in Nat
         /\ orders[i].side = "buy" =>
              /\ Amount(i) <= cash
              /\ 1 <= Amount(i) /\ Amount(i) <= orders[i].amount
         /\ orders[i].side = "sell" =>
              /\ orders[i].symbol \in DOMAIN positions
              /\ Quantity(i) <= positions[orders[i].symbol].quantity
<1> DEFINE s == orders[i].symbol
<1>1. /\ orders[i] \in OrderSet /\ s \in Symbol
      /\ orders[i].amount \in Nat /\ orders[i].amount > 0
      /\ orders[i].side \in {"buy", "sell"}
  BY ExchangeAssumption DEF IInv, TypeOK, PendingValid, Side
<1>2. bars[s] \in Nat
  BY <1>1, ExchangeAssumption DEF IInv, TypeOK, Fillable, CannotFill
<1>3. Price(i) \in Nat
  <2> DEFINE raw == bars[s] * (IF orders[i].side = "buy" THEN 10005 ELSE 9995)
  <2>1. raw \in Nat
    BY <1>2
  <2>2. Price(i) = RoundHalfEven(raw, 100000)
    BY DEF Price, FillPrice
  <2> HIDE DEF raw
  <2> QED  BY <2>1, <2>2, HalfEvenSteps
<1>4. Price(i) \in Price0
  BY <1>3 DEF Fillable, Price0
<1>5. CASE orders[i].side = "buy"
  <2>1. Quantity(i) = BuyQuantity(orders[i].amount, Price(i)) /\ Quantity(i) # 0
    BY <1>5 DEF Quantity, Fillable
  <2>2. /\ Quantity(i) \in Nat
        /\ 1 <= Amount(i) /\ Amount(i) <= orders[i].amount
    BY <1>1, <1>4, <2>1, CostWithinNotional DEF Amount, Price0
  <2>3. Quantity(i) * Price(i) \in Nat
    BY <1>3, <2>2
  <2>4. Amount(i) \in Nat
    BY <2>3, HalfEvenSteps DEF Amount, Value, PerCent
  <2> QED  BY <1>1, <1>4, <1>5, <2>1, <2>2, <2>4 DEF Fillable
<1>6. CASE orders[i].side = "sell"
  <2>1. Quantity(i) = orders[i].amount
    BY <1>6 DEF Quantity
  <2>2. Quantity(i) * Price(i) \in Nat
    BY <1>1, <1>3, <2>1
  <2>3. Amount(i) \in Nat
    BY <2>2, HalfEvenSteps DEF Amount, Value, PerCent
  <2>4. s \in DOMAIN positions /\ Quantity(i) <= positions[s].quantity
    BY <1>1, <1>6, <2>1 DEF Fillable, Held
  <2> QED  BY <1>1, <1>4, <1>6, <2>1, <2>3, <2>4
<1> QED  BY <1>1, <1>5, <1>6

-----------------------------------------------------------------------------
(* Steps *)

LEMMA InitOK == Init => IInv
<1> SUFFICES ASSUME Init PROVE IInv  OBVIOUS
<1>1. /\ DOMAIN orders = {} /\ DOMAIN positions = {}
      /\ orders \in [DOMAIN orders -> OrderSet]
      /\ positions \in [DOMAIN positions -> Position]
  BY DEF Init
<1>2. TypeOK
  BY <1>1, ExchangeAssumption DEF Init, TypeOK
<1>3. IsBook(Book) /\ before = Book
  BY <1>1, ExchangeAssumption DEF Init, IsBook, Book
<1>4. PendingValid /\ BuysWithinNotional
  BY DEF Init, PendingValid, BuysWithinNotional
<1> QED  BY <1>2, <1>3, <1>4 DEF IInv

LEMMA SubmitStep ==
  ASSUME IInv, NEW n \in 0..MaxLength, NEW os \in [1..n -> OrderSet],
         NEW acceptable \in BOOLEAN, NEW bs \in [Symbol -> References \cup {NoReference}],
         Submit(os, acceptable, bs)
  PROVE  IInv'
<1> USE DEF IInv
<1>1. /\ orders' = os /\ DOMAIN os = 1..n /\ bars' = bs
      /\ before' = Book /\ fills' = {}
      /\ pending' = Accepted(os) \/ pending' = {}
      /\ phase' \in {"trading", "missing", "unparsed"}
      /\ decisions' = decisions + 1 /\ decisions < MaxDecisions
      /\ cash' = cash /\ positions' = positions /\ paid' = paid
  BY DEF Submit, book
<1>2. DOMAIN os \subseteq Index
  BY <1>1, ExchangeAssumption DEF Index
<1>3. \A i \in pending' : i \in DOMAIN os /\ Valid(os, i)
  BY <1>1 DEF Accepted
<1>4. TypeOK'
  BY <1>1, <1>2, <1>3, ExchangeAssumption DEF TypeOK
<1>5. IsBook(Book)' /\ IsBook(before)'
  BY <1>1 DEF Book, IsBook
<1>6. PendingValid'
  BY <1>1, <1>3 DEF PendingValid, Valid
<1>7. BuysWithinNotional'
  BY <1>1 DEF BuysWithinNotional
<1> QED  BY <1>4, <1>5, <1>6, <1>7

\* A fill adds one record, which respects the budget, and takes its order out
\* of those pending.
LEMMA FillStep ==
  ASSUME IInv, NEW i \in pending, Fillable(i), Fill(i), Done(i),
         UNCHANGED <<phase, decisions, orders, bars, before>>,
         IsBook(Book)'
  PROVE  IInv'
<1> USE DEF IInv
<1>1. /\ fills' = fills \cup {[order |-> i, quantity |-> Quantity(i), cash |-> Amount(i)]}
      /\ pending' = pending \ {i}
  BY DEF Fill, Done
<1>2. TypeOK'
  <2>1. /\ DOMAIN positions' \subseteq Symbol
        /\ positions' \in [DOMAIN positions' -> Position]
        /\ cash' \in Nat
    BY DEF IsBook, Book
  <2>2. \A f \in fills' :
          f.order \in DOMAIN orders /\ f.quantity \in Nat \ {0} /\ f.cash \in Nat
    BY <1>1, FillableFacts DEF TypeOK
  <2> QED  BY <1>1, <2>1, <2>2 DEF TypeOK
<1>3. PendingValid'
  BY <1>1 DEF PendingValid
<1>4. BuysWithinNotional'
  BY <1>1, FillableFacts DEF BuysWithinNotional
<1>5. IsBook(before)'
  OBVIOUS
<1> QED  BY <1>2, <1>3, <1>4, <1>5

LEMMA BuyStep ==
  ASSUME IInv, NEW i \in Index, Buy(i)
  PROVE  IInv'
<1> USE DEF IInv
<1> DEFINE s == orders[i].symbol
           p == IF s \in DOMAIN positions
                THEN [quantity |-> positions[s].quantity + Quantity(i),
                      basis    |-> AddedBasis(positions[s], Quantity(i), Price(i))]
                ELSE [quantity |-> Quantity(i), basis |-> Price(i)]
<1>1. /\ i \in pending /\ Fillable(i) /\ orders[i].side = "buy"
      /\ Fill(i) /\ Done(i)
      /\ UNCHANGED <<phase, decisions, orders, bars, before>>
      /\ cash' = cash - Amount(i)
      /\ positions' = [t \in DOMAIN positions \cup {s} |-> IF t = s THEN p ELSE positions[t]]
      /\ paid' = [paid EXCEPT ![s] = @ \cup {Price(i)}]
  BY DEF Buy, IsNext
<1>2. /\ s \in Symbol /\ Price(i) \in Price0 /\ Quantity(i) \in Nat \ {0}
      /\ Amount(i) \in Nat /\ Amount(i) <= cash
  BY <1>1, FillableFacts
<1>3. p \in Position /\ \E low, high \in paid'[s] : low <= p.basis /\ p.basis <= high
  <2>1. paid'[s] = paid[s] \cup {Price(i)}
    BY <1>1, <1>2 DEF IsBook, Book
  <2>2. CASE s \notin DOMAIN positions
    BY <1>2, <2>1, <2>2 DEF Position, Price0
  <2>3. CASE s \in DOMAIN positions
    <3>1. PICK low0 \in paid[s], high0 \in paid[s] :
            low0 <= positions[s].basis /\ positions[s].basis <= high0
      BY <2>3 DEF IsBook, Book
    <3>2. /\ low0 \in Price0 /\ high0 \in Price0
          /\ positions[s].quantity \in Nat \ {0} /\ positions[s].basis \in Nat \ {0}
      BY <1>2, <2>3 DEF IsBook, Book, Position
    <3> DEFINE low  == IF Price(i) < low0 THEN Price(i) ELSE low0
               high == IF Price(i) > high0 THEN Price(i) ELSE high0
    <3>3. /\ low \in paid'[s] /\ high \in paid'[s]
          /\ low \in Nat /\ low > 0 /\ high \in Nat
          /\ low <= positions[s].basis /\ positions[s].basis <= high
          /\ low <= Price(i) /\ Price(i) <= high
      BY <1>2, <2>1, <3>1, <3>2 DEF Price0
    <3> HIDE DEF low, high
    <3>4. /\ low <= AddedBasis(positions[s], Quantity(i), Price(i))
          /\ AddedBasis(positions[s], Quantity(i), Price(i)) <= high
          /\ AddedBasis(positions[s], Quantity(i), Price(i)) \in Nat
      <4> DEFINE n == positions[s].quantity
                 b == positions[s].basis
                 m == Quantity(i)
                 f == Price(i)
      <4>1. /\ n \in Nat /\ n > 0 /\ m \in Nat /\ m > 0 /\ b \in Nat /\ f \in Nat
            /\ low \in Nat /\ high \in Nat
            /\ low <= b /\ b <= high /\ low <= f /\ f <= high
        BY <1>2, <3>2, <3>3 DEF Price0
      <4>2. AddedBasis(positions[s], Quantity(i), Price(i)) = Average(n, b, m, f)
        BY DEF AddedBasis, Average
      <4> HIDE DEF n, b, m, f
      <4>3. /\ low <= Average(n, b, m, f)
            /\ Average(n, b, m, f) <= high
            /\ Average(n, b, m, f) \in Nat
        BY <4>1, AverageBetween
      <4> QED  BY <4>2, <4>3
    <3>5. /\ p.quantity = positions[s].quantity + Quantity(i)
          /\ p.basis = AddedBasis(positions[s], Quantity(i), Price(i))
          /\ p = [quantity |-> p.quantity, basis |-> p.basis]
      BY <2>3
    <3> HIDE DEF p
    <3>6. p \in Position
      BY <1>2, <3>2, <3>3, <3>4, <3>5 DEF Position
    <3> QED  BY <3>3, <3>4, <3>5, <3>6
  <2> QED  BY <2>2, <2>3
<1> HIDE DEF p
<1>4. IsBook(Book)'
  <2>1. cash' \in Nat
    BY <1>1, <1>2 DEF TypeOK
  <2>2. /\ DOMAIN positions' = DOMAIN positions \cup {s}
        /\ positions' \in [DOMAIN positions' -> Position]
        /\ DOMAIN positions' \subseteq Symbol
    BY <1>1, <1>2, <1>3 DEF TypeOK
  <2>3. paid' \in [Symbol -> SUBSET Price0]
    BY <1>1, <1>2 DEF IsBook, Book
  <2>4. ASSUME NEW t \in DOMAIN positions'
        PROVE  \E low, high \in paid'[t] :
                 low <= positions'[t].basis /\ positions'[t].basis <= high
    <3>1. CASE t = s
      BY <1>1, <1>3, <2>2, <3>1
    <3>2. CASE t # s
      <4>1. positions'[t] = positions[t] /\ t \in DOMAIN positions
        BY <1>1, <2>2, <3>2
      <4>2. paid'[t] = paid[t]
        BY <1>1, <3>2, <2>2 DEF IsBook, Book
      <4> QED  BY <4>1, <4>2 DEF IsBook, Book
    <3> QED  BY <3>1, <3>2
  <2> QED  BY <2>1, <2>2, <2>3, <2>4 DEF IsBook, Book
<1> QED  BY <1>1, <1>4, FillStep

LEMMA SellStep ==
  ASSUME IInv, NEW i \in Index, Sell(i)
  PROVE  IInv'
<1> USE DEF IInv
<1> DEFINE s == orders[i].symbol
           rest == positions[s].quantity - Quantity(i)
<1>1. /\ i \in pending /\ Fillable(i) /\ orders[i].side = "sell"
      /\ Fill(i) /\ Done(i)
      /\ UNCHANGED <<phase, decisions, orders, bars, before>>
      /\ cash' = cash + Amount(i)
      /\ \/ /\ rest = 0
            /\ positions' = [t \in DOMAIN positions \ {s} |-> positions[t]]
            /\ paid' = [paid EXCEPT ![s] = {}]
         \/ /\ rest # 0
            /\ positions' = [positions EXCEPT ![s].quantity = rest]
            /\ paid' = paid
  BY DEF Sell, IsNext
<1>2. /\ s \in Symbol /\ s \in DOMAIN positions /\ Quantity(i) \in Nat \ {0}
      /\ Quantity(i) <= positions[s].quantity /\ Amount(i) \in Nat
  BY <1>1, FillableFacts
<1>3. positions[s] \in Position
  BY <1>2 DEF TypeOK
<1>4. cash' \in Nat
  BY <1>1, <1>2 DEF TypeOK
<1>5. IsBook(Book)'
  <2>1. CASE rest = 0
    <3>1. /\ positions' = [t \in DOMAIN positions \ {s} |-> positions[t]]
          /\ paid' = [paid EXCEPT ![s] = {}]
      BY <1>1, <2>1
    <3>2. /\ DOMAIN positions' = DOMAIN positions \ {s}
          /\ positions' \in [DOMAIN positions' -> Position]
          /\ paid' \in [Symbol -> SUBSET Price0]
      BY <3>1 DEF IsBook, Book
    <3>3. \A t \in DOMAIN positions' :
            t \in DOMAIN positions /\ positions'[t] = positions[t] /\ paid'[t] = paid[t]
      BY <3>1, <3>2 DEF IsBook, Book
    <3> QED  BY <1>4, <3>2, <3>3 DEF IsBook, Book
  <2>2. CASE rest # 0
    <3>1. positions' = [positions EXCEPT ![s].quantity = rest] /\ paid' = paid
      BY <1>1, <2>2
    <3>2. rest \in Nat \ {0}
      BY <1>2, <1>3, <2>2 DEF Position
    <3> HIDE DEF rest
    <3>3. /\ DOMAIN positions' = DOMAIN positions
          /\ positions' \in [DOMAIN positions' -> Position]
          /\ \A t \in DOMAIN positions : positions'[t].basis = positions[t].basis
      BY <1>2, <3>1, <3>2 DEF IsBook, Book, Position
    <3> QED  BY <1>4, <3>1, <3>3 DEF IsBook, Book
  <2> QED  BY <2>1, <2>2
<1> QED  BY <1>1, <1>5, FillStep

LEMMA OtherSteps ==
  ASSUME IInv, NEW i \in Index, Reject(i) \/ Raise(i)
  PROVE  IInv'
<1> USE DEF IInv
<1>1. CASE Reject(i)
  <2>1. /\ UNCHANGED <<decisions, orders, bars, cash, positions, paid, before, fills>>
        /\ pending' \subseteq pending /\ phase' = phase
    BY <1>1 DEF Reject, Done, book
  <2>2. TypeOK'
    BY <2>1 DEF TypeOK
  <2>3. PendingValid' /\ BuysWithinNotional'
    BY <2>1 DEF PendingValid, BuysWithinNotional
  <2>4. IsBook(Book)' /\ IsBook(before)'
    BY <2>1 DEF IsBook, Book
  <2> QED  BY <2>2, <2>3, <2>4
<1>2. CASE Raise(i)
  <2>1. /\ UNCHANGED <<decisions, orders, bars, before>>
        /\ cash' = before.cash /\ positions' = before.positions /\ paid' = before.paid
        /\ pending' = {} /\ fills' = {} /\ phase' = "raised"
    BY <1>2 DEF Raise
  <2>2. IsBook(Book)' /\ IsBook(before)'
    BY <2>1 DEF IsBook, Book
  <2>3. TypeOK'
    BY <2>1 DEF TypeOK, IsBook
  <2>4. PendingValid' /\ BuysWithinNotional'
    BY <2>1 DEF PendingValid, BuysWithinNotional
  <2> QED  BY <2>2, <2>3, <2>4
<1> QED  BY <1>1, <1>2

-----------------------------------------------------------------------------
(* Theorems *)

\* The inductive invariant holds in every reachable state.
THEOREM Invariance == Spec => []IInv
<1>1. IInv /\ [Next]_vars => IInv'
  <2> SUFFICES ASSUME IInv, [Next]_vars PROVE IInv'  OBVIOUS
  <2>1. CASE Settle \/ UNCHANGED vars
    <3>1. /\ UNCHANGED <<decisions, orders, bars, cash, positions, paid, before, fills>>
          /\ pending' = pending
          /\ phase' = phase \/ phase' = "settled"
      BY <2>1 DEF Settle, vars, book
    <3>2. TypeOK'
      BY <3>1 DEF TypeOK, IInv
    <3>3. PendingValid' /\ BuysWithinNotional'
      BY <3>1 DEF PendingValid, BuysWithinNotional, IInv
    <3>4. IsBook(Book)' /\ IsBook(before)'
      BY <3>1 DEF IsBook, Book, IInv
    <3> QED  BY <3>2, <3>3, <3>4 DEF IInv
  <2>2. ASSUME NEW i \in Index, Buy(i) \/ Sell(i) \/ Reject(i) \/ Raise(i)
        PROVE  IInv'
    BY <2>2, BuyStep, SellStep, OtherSteps
  <2>3. ASSUME NEW n \in 0..MaxLength, NEW os \in [1..n -> OrderSet],
               NEW acceptable \in BOOLEAN,
               NEW bs \in [Symbol -> References \cup {NoReference}],
               Submit(os, acceptable, bs)
        PROVE  IInv'
    BY <2>3, SubmitStep
  <2> QED  BY <2>1, <2>2, <2>3 DEF Next
<1> QED  BY InitOK, <1>1, PTL DEF Spec

\* Every state is well-formed: in particular cash never becomes negative and
\* no position is ever empty or short, whatever is ordered at whatever price.
THEOREM TypeCorrect == Spec => []TypeOK
<1>1. IInv => TypeOK  BY DEF IInv
<1> QED  BY Invariance, <1>1, PTL

\* A buy never costs more than its notional nor nothing at all, at any price.
THEOREM BudgetsHold == Spec => []BuysWithinNotional
<1>1. IInv => BuysWithinNotional  BY DEF IInv
<1> QED  BY Invariance, <1>1, PTL

\* The cost basis stays between the prices paid, for any sequence of trades.
THEOREM BasisIsAnAverage == Spec => []BasisWithinPrices
<1>1. IInv => BasisWithinPrices  BY DEF IInv, IsBook, Book, BasisWithinPrices
<1> QED  BY Invariance, <1>1, PTL

-----------------------------------------------------------------------------
(* Sums: MapThenSumSet takes the elements of a finite set one after the     *)
(* other by a recursive function.  Induction over its subsets is the        *)
(* choice of a smallest one for which the claim fails.                      *)

AnyOf(s) == CHOOSE x \in s : TRUE

\* The recursion equation of MapThenFoldSet for a sum.
Adds(h, f, U) ==
  h = [s \in SUBSET U |-> IF s = {} THEN 0 ELSE f[AnyOf(s)] + h[s \ {AnyOf(s)}]]

\* h[s] is the sum of f over s, whatever element is taken first.
IsSum(h, f, U) ==
  /\ h \in [SUBSET U -> Int]
  /\ h[{}] = 0
  /\ \A s \in SUBSET U : \A x \in s : h[s] = f[x] + h[s \ {x}]

\* Of the subsets of a finite set with some property, one has no smaller one.
LEMMA SmallestSubset ==
  ASSUME NEW U, IsFiniteSet(U), NEW B \in SUBSET (SUBSET U), B # {}
  PROVE  \E s \in B : \A t \in B : ~(t \subseteq s /\ t # s)
<1>1. IsWellFoundedOn(StrictSubsetOrdering(U), FiniteSubsetsOf(U))
  BY FS_StrictSubsetOrderingWellFounded
<1>2. B \subseteq FiniteSubsetsOf(U)
  BY FS_Subset DEF FiniteSubsetsOf
<1>3. \E s \in B : \A t \in B : <<t, s>> \notin StrictSubsetOrdering(U)
  BY <1>1, <1>2, WFMin, Zenon
<1> QED  BY <1>3 DEF StrictSubsetOrdering

LEMMA AnyOfIn == ASSUME NEW s, s # {} PROVE AnyOf(s) \in s
BY DEF AnyOf

\* The equation has a solution: the sums of the subsets with n elements give
\* those of the subsets with one more.
LEMMA SumExists ==
  ASSUME NEW U, IsFiniteSet(U), NEW f \in [U -> Int]
  PROVE  \E h : h \in [SUBSET U -> Int] /\ Adds(h, f, U)
<1> DEFINE Small(n) == {s \in SUBSET U : Cardinality(s) <= n}
           Next0(h, s) == IF s = {} THEN 0 ELSE f[AnyOf(s)] + h[s \ {AnyOf(s)}]
           Good == {n \in Nat : \E h \in [Small(n) -> Int] :
                                   \A s \in Small(n) : h[s] = Next0(h, s)}
           Bad == Nat \ Good
<1>1. \A s \in SUBSET U : /\ IsFiniteSet(s) /\ Cardinality(s) \in Nat
                          /\ Cardinality(s) <= Cardinality(U)
                          /\ Cardinality(s) = 0 <=> s = {}
                          /\ \A x \in s : Cardinality(s \ {x}) = Cardinality(s) - 1
  BY FS_Subset, FS_CardinalityType, FS_EmptySet, FS_RemoveElement
<1>2. \A s \in SUBSET U : s # {} => AnyOf(s) \in s /\ f[AnyOf(s)] \in Int
  BY AnyOfIn
<1>3. Bad = {}
  <2> SUFFICES ASSUME Bad # {} PROVE FALSE  OBVIOUS
  <2>1. PICK n \in Bad : \A m \in Bad : ~(m < n)
    <3>1. Bad \subseteq Nat  OBVIOUS
    <3> HIDE DEF Bad
    <3>2. PICK n \in Bad : \A m \in Bad : <<m, n>> \notin OpToRel(<, Nat)
      BY <3>1, NatLessThanWellFounded, WFMin, Zenon
    <3>3. \A m \in Bad : m < n => <<m, n>> \in OpToRel(<, Nat)
      BY <3>1, <3>2 DEF OpToRel
    <3> QED  BY <3>2, <3>3
  <2>2. n # 0
    <3> SUFFICES ASSUME n = 0 PROVE FALSE  OBVIOUS
    <3> DEFINE h == [s \in Small(0) |-> 0]
    <3>1. \A s \in Small(0) : s = {}
      BY <1>1
    <3>2. h \in [Small(0) -> Int] /\ \A s \in Small(0) : h[s] = Next0(h, s)
      BY <3>1
    <3> QED  BY <3>2
  <2>3. n \in Nat /\ n - 1 \in Nat /\ n - 1 \in Good
    <3> HIDE DEF Good
    <3> QED  BY <2>1, <2>2
  <2>4. PICK h \in [Small(n - 1) -> Int] : \A s \in Small(n - 1) : h[s] = Next0(h, s)
    BY <2>3
  <2> DEFINE g == [s \in Small(n) |-> Next0(h, s)]
  <2>5. \A s \in Small(n) : s # {} => s \ {AnyOf(s)} \in Small(n - 1)
    BY <1>1, <1>2, <2>3
  <2>6. g \in [Small(n) -> Int]
    BY <1>2, <2>4, <2>5
  <2>7. \A s \in Small(n - 1) : s \in Small(n) /\ g[s] = h[s]
    BY <1>1, <2>3, <2>4
  <2>8. \A s \in Small(n) : g[s] = Next0(g, s)
    BY <2>5, <2>7
  <2>9. n \in Good
    BY <2>3, <2>6, <2>8
  <2> QED  BY <2>1, <2>9
<1>4. Cardinality(U) \in Good /\ Small(Cardinality(U)) = SUBSET U
  BY <1>1, <1>3
<1>5. PICK h \in [SUBSET U -> Int] : \A s \in SUBSET U : h[s] = Next0(h, s)
  BY <1>4
<1>6. Adds(h, f, U)
  BY <1>5 DEF Adds
<1> QED  BY <1>5, <1>6

\* A solution adds every element once, in any order.
LEMMA AddsIsSum ==
  ASSUME NEW U, IsFiniteSet(U), NEW f \in [U -> Int],
         NEW h, Adds(h, f, U)
  PROVE  IsSum(h, f, U)
<1>0. /\ DOMAIN h = SUBSET U /\ h = [s \in SUBSET U |-> h[s]]
      /\ h[{}] = 0
      /\ \A s \in SUBSET U : s # {} => h[s] = f[AnyOf(s)] + h[s \ {AnyOf(s)}]
  BY DEF Adds
<1>1. \A s \in SUBSET U : h[s] \in Int
  <2> DEFINE B == {s \in SUBSET U : h[s] \notin Int}
  <2> SUFFICES ASSUME B # {} PROVE FALSE  OBVIOUS
  <2>1. PICK s \in B : \A t \in B : ~(t \subseteq s /\ t # s)
    <3> HIDE DEF B
    <3>1. B \in SUBSET (SUBSET U)  BY DEF B
    <3> QED  BY <3>1, SmallestSubset
  <2>2. s \in SUBSET U /\ h[s] \notin Int /\ s # {}
    <3>1. s \in SUBSET U /\ h[s] \notin Int  BY <2>1
    <3>2. h[{}] \in Int  BY <1>0
    <3> QED  BY <3>1, <3>2, Zenon
  <2> DEFINE c == AnyOf(s)
  <2>3. c \in s /\ h[s] = f[c] + h[s \ {c}] /\ s \ {c} \in SUBSET U
    BY <1>0, <2>2, AnyOfIn
  <2> HIDE DEF c
  <2>4. h[s \ {c}] \in Int
    BY <2>1, <2>3
  <2>5. f[c] \in Int
    BY <2>2, <2>3
  <2> QED  BY <2>2, <2>3, <2>4, <2>5
<1>2. \A s \in SUBSET U : \A x \in s : h[s] = f[x] + h[s \ {x}]
  <2> DEFINE B == {s \in SUBSET U : \E x \in s : h[s] # f[x] + h[s \ {x}]}
  <2> SUFFICES ASSUME B # {} PROVE FALSE  OBVIOUS
  <2>1. PICK s \in B : \A t \in B : ~(t \subseteq s /\ t # s)
    <3> HIDE DEF B
    <3>1. B \in SUBSET (SUBSET U)  BY DEF B
    <3> QED  BY <3>1, SmallestSubset
  <2>2. PICK x \in s : h[s] # f[x] + h[s \ {x}]
    BY <2>1
  <2> DEFINE c == AnyOf(s)
  <2>3. c \in s /\ h[s] = f[c] + h[s \ {c}] /\ c # x
    BY <1>0, <2>1, <2>2, AnyOfIn
  <2> HIDE DEF c
  <2>4. /\ s \ {c} \in SUBSET U /\ s \ {x} \in SUBSET U
        /\ s \ {c} \notin B /\ s \ {x} \notin B
        /\ x \in s \ {c} /\ c \in s \ {x}
    BY <2>1, <2>2, <2>3
  <2>5. h[s \ {c}] = f[x] + h[(s \ {c}) \ {x}] /\ h[s \ {x}] = f[c] + h[(s \ {x}) \ {c}]
    BY <2>4
  <2>6. (s \ {c}) \ {x} = (s \ {x}) \ {c}
    OBVIOUS
  <2>7. f[x] \in Int /\ f[c] \in Int /\ h[(s \ {x}) \ {c}] \in Int
    BY <1>1, <2>1, <2>2, <2>3
  <2>8. \A a, b, r \in Int : a + (b + r) = b + (a + r)
    OBVIOUS
  <2> HIDE DEF B
  <2>9. f[c] + (f[x] + h[(s \ {x}) \ {c}]) = f[x] + (f[c] + h[(s \ {x}) \ {c}])
    BY <2>7, <2>8, Zenon
  <2>10. h[s] = f[x] + h[s \ {x}]
    BY <2>3, <2>5, <2>6, <2>9, Zenon
  <2> QED  BY <2>2, <2>10
<1>3. h \in [SUBSET U -> Int]
  BY <1>0, <1>1
<1> QED  BY <1>0, <1>2, <1>3 DEF IsSum

\* The sum of the values of a function.
SumOf(f) == CHOOSE n : \E h : IsSum(h, f, DOMAIN f) /\ n = h[DOMAIN f]

\* A sum depends on the values that are summed alone.
LEMMA SumUnique ==
  ASSUME NEW U, IsFiniteSet(U), NEW V, NEW f, NEW e, NEW h, NEW g,
         IsSum(h, f, U), IsSum(g, e, V),
         NEW S, S \subseteq U, S \subseteq V,
         \A x \in S : f[x] = e[x]
  PROVE  h[S] = g[S]
<1> DEFINE B == {s \in SUBSET S : h[s] # g[s]}
<1> SUFFICES ASSUME B # {} PROVE FALSE  OBVIOUS
<1>1. PICK s \in B : \A t \in B : ~(t \subseteq s /\ t # s)
  <2> HIDE DEF B
  <2>1. B \in SUBSET (SUBSET S) /\ IsFiniteSet(S)  BY FS_Subset DEF B
  <2> QED  BY <2>1, SmallestSubset
<1>2. s \in SUBSET S /\ h[s] # g[s] /\ s # {}
  <2>1. s \in SUBSET S /\ h[s] # g[s]  BY <1>1
  <2>2. h[{}] = g[{}]  BY DEF IsSum
  <2> QED  BY <2>1, <2>2, Zenon
<1>3. PICK x \in s : TRUE
  BY <1>2
<1>4. s \ {x} \in SUBSET S /\ h[s \ {x}] = g[s \ {x}]
  BY <1>1, <1>2, <1>3
<1>5. h[s] = f[x] + h[s \ {x}] /\ g[s] = e[x] + g[s \ {x}] /\ f[x] = e[x]
  BY <1>2, <1>3 DEF IsSum
<1> QED  BY <1>2, <1>4, <1>5

LEMMA SumIs ==
  ASSUME NEW U, IsFiniteSet(U), NEW f \in [U -> Int], NEW h, IsSum(h, f, U)
  PROVE  SumOf(f) = h[U]
<1>1. DOMAIN f = U
  OBVIOUS
<1>2. \E h0 : IsSum(h0, f, DOMAIN f) /\ SumOf(f) = h0[DOMAIN f]
  <2>1. \E n : \E h0 : IsSum(h0, f, DOMAIN f) /\ n = h0[DOMAIN f]
    BY <1>1
  <2> QED  BY <2>1, Zenon DEF SumOf
<1>3. PICK h0 : IsSum(h0, f, U) /\ SumOf(f) = h0[U]
  BY <1>1, <1>2
<1>4. h0[U] = h[U]
  BY <1>3, SumUnique
<1> QED  BY <1>3, <1>4

\* Sums over the part of the domain S.
LEMMA SumOver ==
  ASSUME NEW U, IsFiniteSet(U), NEW f \in [U -> Int], NEW h, IsSum(h, f, U), NEW S \in SUBSET U
  PROVE  SumOf([x \in S |-> f[x]]) = h[S]
<1>1. IsFiniteSet(S) /\ [x \in S |-> f[x]] \in [S -> Int]
  BY FS_Subset
<1>2. PICK g : IsSum(g, [x \in S |-> f[x]], S)
  BY <1>1, SumExists, AddsIsSum
<1>3. SumOf([x \in S |-> f[x]]) = g[S]
  BY <1>1, <1>2, SumIs
<1>4. h[S] = g[S]
  <2> DEFINE e == [x \in S |-> f[x]]
  <2>1. \A x \in S : f[x] = e[x]  OBVIOUS
  <2>2. IsSum(g, e, S)  BY <1>2
  <2> HIDE DEF e
  <2> QED  BY <2>1, <2>2, SumUnique
<1> QED  BY <1>3, <1>4

LEMMA SumFacts ==
  ASSUME NEW U, IsFiniteSet(U), NEW f \in [U -> Int]
  PROVE  /\ SumOf(f) \in Int
         /\ U = {} => SumOf(f) = 0
         /\ \A x \in U : SumOf(f) = f[x] + SumOf([y \in U \ {x} |-> f[y]])
<1>1. PICK h : IsSum(h, f, U)
  BY SumExists, AddsIsSum
<1>2. SumOf(f) = h[U]
  BY <1>1, SumIs
<1>3. h[U] \in Int /\ (U = {} => h[U] = 0) /\ \A x \in U : h[U] = f[x] + h[U \ {x}]
  BY <1>1 DEF IsSum
<1>4. \A x \in U : SumOf([y \in U \ {x} |-> f[y]]) = h[U \ {x}]
  <2> TAKE x \in U
  <2>1. U \ {x} \in SUBSET U  OBVIOUS
  <2> QED  BY <1>1, <2>1, SumOver
<1> QED  BY <1>2, <1>3, <1>4

\* A larger value makes a larger sum.
LEMMA SumMonotonic ==
  ASSUME NEW U, IsFiniteSet(U), NEW f \in [U -> Int], NEW e \in [U -> Int],
         \A x \in U : f[x] <= e[x]
  PROVE  SumOf(f) <= SumOf(e)
<1>1. PICK h : IsSum(h, f, U)
  BY SumExists, AddsIsSum
<1>2. PICK g : IsSum(g, e, U)
  BY SumExists, AddsIsSum
<1>3. SumOf(f) = h[U] /\ SumOf(e) = g[U]
  BY <1>1, <1>2, SumIs
<1> DEFINE B == {s \in SUBSET U : ~(h[s] <= g[s])}
<1> SUFFICES ASSUME B # {} PROVE FALSE  BY <1>3
<1>4. PICK s \in B : \A t \in B : ~(t \subseteq s /\ t # s)
  <2> HIDE DEF B
  <2>1. B \in SUBSET (SUBSET U)  BY DEF B
  <2> QED  BY <2>1, SmallestSubset
<1>5. s \in SUBSET U /\ ~(h[s] <= g[s]) /\ s # {}
  <2>1. s \in SUBSET U /\ ~(h[s] <= g[s])  BY <1>4
  <2>2. h[{}] <= g[{}]  BY <1>1, <1>2 DEF IsSum
  <2> QED  BY <2>1, <2>2, Zenon
<1>6. PICK x \in s : TRUE
  BY <1>5
<1>7. s \ {x} \in SUBSET U /\ h[s \ {x}] <= g[s \ {x}]
  BY <1>4, <1>5, <1>6
<1>8. h[s] = f[x] + h[s \ {x}] /\ g[s] = e[x] + g[s \ {x}]
  BY <1>1, <1>2, <1>5, <1>6 DEF IsSum
<1>9. f[x] \in Int /\ e[x] \in Int /\ f[x] <= e[x] /\ h[s \ {x}] \in Int /\ g[s \ {x}] \in Int
  BY <1>1, <1>2, <1>5, <1>6, <1>7 DEF IsSum
<1> QED  BY <1>5, <1>7, <1>8, <1>9

\* Rounding each of n values, up or down by half a unit at most, moves the sum
\* by n halves at most.
LEMMA SumRounded ==
  ASSUME NEW U, IsFiniteSet(U), NEW f \in [U -> Int], NEW e \in [U -> Int],
         \A x \in U : /\ 2 * (PerCent * f[x]) <= 2 * e[x] + PerCent
                      /\ 2 * e[x] <= 2 * (PerCent * f[x]) + PerCent
  PROVE  /\ 2 * (PerCent * SumOf(f)) <= 2 * SumOf(e) + PerCent * Cardinality(U)
         /\ 2 * SumOf(e) <= 2 * (PerCent * SumOf(f)) + PerCent * Cardinality(U)
<1> DEFINE Near(a, b, n) == /\ 2 * (PerCent * a) <= 2 * b + PerCent * n
                            /\ 2 * b <= 2 * (PerCent * a) + PerCent * n
<1>1. PICK h : IsSum(h, f, U)
  BY SumExists, AddsIsSum
<1>2. PICK g : IsSum(g, e, U)
  BY SumExists, AddsIsSum
<1>3. SumOf(f) = h[U] /\ SumOf(e) = g[U]
  BY <1>1, <1>2, SumIs
<1> DEFINE B == {s \in SUBSET U : ~Near(h[s], g[s], Cardinality(s))}
<1> SUFFICES ASSUME B # {} PROVE FALSE  BY <1>3
<1>4. PICK s \in B : \A t \in B : ~(t \subseteq s /\ t # s)
  <2> HIDE DEF B
  <2>1. B \in SUBSET (SUBSET U)  BY DEF B
  <2> QED  BY <2>1, SmallestSubset
<1>5. s \in SUBSET U /\ ~Near(h[s], g[s], Cardinality(s)) /\ s # {}
  <2>1. s \in SUBSET U /\ ~Near(h[s], g[s], Cardinality(s))  BY <1>4
  <2>2. Near(0, 0, 0)  BY DEF PerCent
  <2>3. h[{}] = 0 /\ g[{}] = 0 /\ Cardinality({}) = 0  BY <1>1, <1>2, FS_EmptySet DEF IsSum
  <2> HIDE DEF Near
  <2> QED  BY <2>1, <2>2, <2>3, Zenon
<1>6. PICK x \in s : TRUE
  BY <1>5
<1>7. s \ {x} \in SUBSET U /\ Near(h[s \ {x}], g[s \ {x}], Cardinality(s \ {x}))
  <2> HIDE DEF Near
  <2> QED  BY <1>4, <1>5, <1>6
<1>8. h[s] = f[x] + h[s \ {x}] /\ g[s] = e[x] + g[s \ {x}]
  BY <1>1, <1>2, <1>5, <1>6 DEF IsSum
<1>9. Cardinality(s) \in Nat /\ Cardinality(s \ {x}) = Cardinality(s) - 1
  BY <1>5, <1>6, FS_Subset, FS_CardinalityType, FS_RemoveElement
<1>10. f[x] \in Int /\ e[x] \in Int /\ h[s \ {x}] \in Int /\ g[s \ {x}] \in Int /\ Near(f[x], e[x], 1)
  BY <1>1, <1>2, <1>5, <1>6, <1>7 DEF IsSum, PerCent
<1>11. \A a, b, c, d \in Int : \A n \in Nat :
          Near(a, b, 1) /\ Near(c, d, n - 1) => Near(a + c, b + d, n)
  BY DEF PerCent
<1> HIDE DEF Near
<1> QED  BY <1>5, <1>7, <1>8, <1>9, <1>10, <1>11

-----------------------------------------------------------------------------
(* The batch: what has been looked at, at any moment of apply_decision. *)

Amounts(S)   == [i \in S |-> Amount(i)]
OfSymbol(S, s) == {i \in S : orders[i].symbol = s}
Shares(S, s) == [i \in OfSymbol(S, s) |-> Quantity(i)]

Filled == {f.order : f \in fills}
Seen   == Accepted(orders) \ pending

\* The cash that sells and the buys before i have left.
Left(i) ==
  before.cash + SumOf(Amounts(SellsOf(Filled)))
              - SumOf(Amounts({j \in BuysOf(Filled) : Ranks(orders, j, i)}))

\* The orders looked at come before all that are pending, a fill of one had the
\* funds, and the book is the old one with the fills.
BatchInv ==
  /\ pending \subseteq Accepted(orders)
  /\ \A i \in pending, j \in Seen : Precedes(j, i)
  /\ Filled \subseteq Seen
  /\ \A i \in Filled : Amount(i) \in Nat /\ Quantity(i) \in Nat
  /\ \A i \in SellsOf(Seen) :
       i \in Filled <=> ~CannotFill(i) /\ orders[i].amount <= HeldBefore(orders[i].symbol)
  /\ \A i \in BuysOf(Seen) :
       i \in Filled <=> ~CannotFill(i) /\ Quantity(i) > 0 /\ Amount(i) <= Left(i)
  /\ cash = before.cash + SumOf(Amounts(SellsOf(Filled))) - SumOf(Amounts(BuysOf(Filled)))
  /\ \A s \in Symbol :
       Held(s) = HeldBefore(s) + SumOf(Shares(BuysOf(Filled), s))
                               - SumOf(Shares(SellsOf(Filled), s))

OutcomeInv ==
  /\ phase \in {"trading", "settled"} => BatchInv
  /\ phase = "settled" => pending = {}

\* Total and Quantities are these sums.
LEMMA TotalIs ==
  ASSUME NEW U, IsFiniteSet(U), \A i \in U : Amount(i) \in Int
  PROVE  Total(U) = SumOf(Amounts(U))
<1> DEFINE Sums(g) == g = [s \in SUBSET U |->
                              IF s = {} THEN 0
                              ELSE Amount(CHOOSE x \in s : TRUE) + g[s \ {CHOOSE x \in s : TRUE}]]
           it == CHOOSE g : Sums(g)
<1>1. Total(U) = it[U]
  BY Zenon DEF Total, MapThenSumSet, MapThenFoldSet
<1>2. \A s \in SUBSET U : s # {} => Amounts(U)[AnyOf(s)] = Amount(CHOOSE x \in s : TRUE)
  BY AnyOfIn DEF Amounts, AnyOf
<1>3. \A g : Sums(g) <=> Adds(g, Amounts(U), U)
  BY <1>2 DEF Adds, AnyOf
<1>4. Amounts(U) \in [U -> Int]
  BY DEF Amounts
<1> HIDE DEF Sums
<1>5. \E g : Sums(g)
  BY <1>3, <1>4, SumExists
<1>6. Sums(it)
  BY <1>5, Zenon
<1>7. SumOf(Amounts(U)) = it[U]
  BY <1>3, <1>4, <1>6, AddsIsSum, SumIs
<1> QED  BY <1>1, <1>7

LEMMA QuantitiesIs ==
  ASSUME NEW S, NEW s, IsFiniteSet(S), \A i \in S : Quantity(i) \in Int
  PROVE  Quantities(S, s) = SumOf(Shares(S, s))
<1> DEFINE U == OfSymbol(S, s)
           Sums(g) == g = [t \in SUBSET U |->
                              IF t = {} THEN 0
                              ELSE Quantity(CHOOSE x \in t : TRUE) + g[t \ {CHOOSE x \in t : TRUE}]]
           it == CHOOSE g : Sums(g)
<1>1. Quantities(S, s) = it[U]
  BY Zenon DEF Quantities, MapThenSumSet, MapThenFoldSet, OfSymbol
<1>2. \A t \in SUBSET U : t # {} => Shares(S, s)[AnyOf(t)] = Quantity(CHOOSE x \in t : TRUE)
  BY AnyOfIn DEF Shares, AnyOf
<1>3. \A g : Sums(g) <=> Adds(g, Shares(S, s), U)
  BY <1>2 DEF Adds, AnyOf
<1>4. IsFiniteSet(U) /\ Shares(S, s) \in [U -> Int]
  BY FS_Subset DEF Shares, OfSymbol
<1> HIDE DEF Sums
<1>5. \E g : Sums(g)
  BY <1>3, <1>4, SumExists
<1>6. Sums(it)
  BY <1>5, Zenon
<1>7. SumOf(Shares(S, s)) = it[U]
  BY <1>3, <1>4, <1>6, AddsIsSum, SumIs
<1> QED  BY <1>1, <1>7

LEMMA OrderFacts ==
  ASSUME IInv
  PROVE  /\ IsFiniteSet(DOMAIN orders)
         /\ \A i \in DOMAIN orders : /\ i \in Nat /\ orders[i] \in OrderSet
                                     /\ orders[i].side \in Side
                                     /\ orders[i].priority \in Nat
                                     /\ orders[i].amount \in Int
         /\ \A i, j \in DOMAIN orders : Ranks(orders, i, j) => ~Ranks(orders, j, i)
         /\ \A i, j \in DOMAIN orders : Precedes(i, j) => ~Precedes(j, i)
         /\ Accepted(orders) \subseteq DOMAIN orders
         /\ \A i, j \in Accepted(orders) : orders[i].symbol = orders[j].symbol => i = j
<1>1. DOMAIN orders \subseteq 1..MaxLength /\ MaxLength \in Nat
  BY ExchangeAssumption DEF IInv, TypeOK, Index
<1>2. IsFiniteSet(DOMAIN orders)
  <2>1. IsFiniteSet(1..MaxLength)
    BY <1>1, FS_Interval
  <2> QED  BY <1>1, <2>1, FS_Subset
<1>3. \A i \in DOMAIN orders : /\ i \in Nat /\ orders[i] \in OrderSet
                                /\ orders[i].side \in Side
                                /\ orders[i].priority \in Nat
                                /\ orders[i].amount \in Int
  BY <1>1, ExchangeAssumption DEF IInv, TypeOK
<1>4. \A i, j \in DOMAIN orders : Ranks(orders, i, j) => ~Ranks(orders, j, i)
  BY <1>3 DEF Ranks
<1>5. \A i, j \in DOMAIN orders : Precedes(i, j) => ~Precedes(j, i)
  BY <1>3, <1>4 DEF Precedes
<1>6. Accepted(orders) \subseteq DOMAIN orders
  BY DEF Accepted
<1>7. \A i, j \in Accepted(orders) : orders[i].symbol = orders[j].symbol => i = j
  BY <1>4, <1>6 DEF Accepted
<1> QED  BY <1>2, <1>3, <1>4, <1>5, <1>6, <1>7

LEMMA AmountsAdd ==
  ASSUME NEW S, IsFiniteSet(S), NEW i, i \notin S, \A j \in S \cup {i} : Amount(j) \in Int
  PROVE  /\ SumOf(Amounts(S)) \in Int
         /\ SumOf(Amounts(S \cup {i})) = Amount(i) + SumOf(Amounts(S))
<1> DEFINE T == S \cup {i}
<1>1. IsFiniteSet(T) /\ T \ {i} = S /\ i \in T
  BY FS_AddElement
<1>2. Amounts(T) \in [T -> Int] /\ Amounts(S) \in [S -> Int] /\ Amounts(T)[i] = Amount(i)
  BY DEF Amounts
<1>3. [y \in T \ {i} |-> Amounts(T)[y]] = Amounts(S)
  BY <1>1 DEF Amounts
<1> HIDE DEF T
<1>4. SumOf(Amounts(T)) = Amounts(T)[i] + SumOf([y \in T \ {i} |-> Amounts(T)[y]])
  BY <1>1, <1>2, SumFacts
<1>5. SumOf(Amounts(S)) \in Int
  BY <1>2, SumFacts
<1> QED  BY <1>2, <1>3, <1>4, <1>5 DEF T

LEMMA SharesAdd ==
  ASSUME NEW S, IsFiniteSet(S), NEW i, i \notin S, \A j \in S \cup {i} : Quantity(j) \in Int,
         NEW s
  PROVE  /\ SumOf(Shares(S, s)) \in Int
         /\ SumOf(Shares(S \cup {i}, s)) = (IF orders[i].symbol = s THEN Quantity(i) ELSE 0)
                                             + SumOf(Shares(S, s))
<1> DEFINE T == OfSymbol(S \cup {i}, s)
           R == OfSymbol(S, s)
<1>1. IsFiniteSet(T) /\ IsFiniteSet(R)
  BY FS_AddElement, FS_Subset DEF OfSymbol
<1>2. Shares(S \cup {i}, s) \in [T -> Int] /\ Shares(S, s) \in [R -> Int]
  BY DEF Shares, OfSymbol
<1>3. SumOf(Shares(S, s)) \in Int
  BY <1>1, <1>2, SumFacts
<1>4. CASE orders[i].symbol = s
  <2>1. T \ {i} = R /\ i \in T /\ Shares(S \cup {i}, s)[i] = Quantity(i)
    BY <1>4 DEF OfSymbol, Shares
  <2>2. [y \in T \ {i} |-> Shares(S \cup {i}, s)[y]] = Shares(S, s)
    BY <2>1 DEF Shares, OfSymbol
  <2> HIDE DEF T, R
  <2>3. SumOf(Shares(S \cup {i}, s))
          = Shares(S \cup {i}, s)[i] + SumOf([y \in T \ {i} |-> Shares(S \cup {i}, s)[y]])
    BY <1>1, <1>2, <2>1, SumFacts
  <2> QED  BY <1>3, <1>4, <2>1, <2>2, <2>3
<1>5. CASE orders[i].symbol # s
  <2>1. T = R
    BY <1>5 DEF OfSymbol
  <2>2. Shares(S \cup {i}, s) = Shares(S, s)
    BY <2>1 DEF Shares
  <2> QED  BY <1>3, <1>5, <2>2
<1> QED  BY <1>4, <1>5

\* What every order looked at leaves as it was.
LEMMA LookStep ==
  ASSUME IInv, BatchInv, NEW i, IsNext(i), Done(i),
         UNCHANGED <<phase, orders, bars, before>>
  PROVE  /\ i \in Accepted(orders) /\ i \notin Seen /\ i \notin Filled
         /\ Accepted(orders)' = Accepted(orders)
         /\ pending' \subseteq Accepted(orders)
         /\ Seen' = Seen \cup {i}
         /\ \A k \in pending', j \in Seen' : Precedes(j, k)'
         /\ \A k : /\ Amount(k)' = Amount(k) /\ Quantity(k)' = Quantity(k)
                   /\ CannotFill(k)' = CannotFill(k)
         /\ \A s : HeldBefore(s)' = HeldBefore(s)
<1>1. /\ i \in pending /\ \A j \in pending \ {i} : Precedes(i, j)
      /\ pending' = pending \ {i}
  BY DEF IsNext, Done
<1>2. /\ i \in Accepted(orders) /\ i \notin Seen /\ i \notin Filled
      /\ pending' \subseteq Accepted(orders)
  BY <1>1 DEF BatchInv, Seen
<1>3. Accepted(orders)' = Accepted(orders)
  BY DEF Accepted, Valid, Ranks
<1>4. Seen' = Seen \cup {i}
  BY <1>1, <1>2, <1>3 DEF Seen
<1>5. \A k \in pending', j \in Seen' : Precedes(j, k)'
  <2>1. \A k \in pending', j \in Seen' : Precedes(j, k)
    BY <1>1, <1>4 DEF BatchInv
  <2>2. \A k, j : Precedes(j, k)' = Precedes(j, k)
    BY DEF Precedes, Ranks
  <2> QED  BY <2>1, <2>2
<1>6. \A k : /\ Amount(k)' = Amount(k) /\ Quantity(k)' = Quantity(k)
            /\ CannotFill(k)' = CannotFill(k)
  BY DEF Amount, Quantity, Price, CannotFill
<1>7. \A s : HeldBefore(s)' = HeldBefore(s)
  BY DEF HeldBefore
<1> QED  BY <1>2, <1>3, <1>4, <1>5, <1>6, <1>7

\* What a fill does to the holdings.
LEMMA BuyHolds ==
  ASSUME IInv, NEW i \in Index, Buy(i), NEW s \in Symbol
  PROVE  Held(s)' = (IF orders[i].symbol = s THEN Quantity(i) ELSE 0) + Held(s)
<1> DEFINE o == orders[i].symbol
           p == IF o \in DOMAIN positions
                THEN [quantity |-> positions[o].quantity + Quantity(i),
                      basis    |-> AddedBasis(positions[o], Quantity(i), Price(i))]
                ELSE [quantity |-> Quantity(i), basis |-> Price(i)]
<1>1. /\ i \in pending /\ Fillable(i)
      /\ positions' = [t \in DOMAIN positions \cup {o} |-> IF t = o THEN p ELSE positions[t]]
  BY DEF Buy, IsNext
<1>2. Quantity(i) \in Nat
  BY <1>1, FillableFacts
<1>3. p.quantity = Quantity(i) + Held(o)
  BY <1>2 DEF Held, IInv, TypeOK, Position
<1>4. \A t \in DOMAIN positions : positions[t].quantity \in Nat
  BY DEF IInv, TypeOK, Position
<1> HIDE DEF p, o
<1>5. Held(s)' = IF s = o THEN p.quantity ELSE Held(s)
  BY <1>1 DEF Held
<1>6. Held(s) \in Nat
  BY <1>4 DEF Held
<1> QED  BY <1>2, <1>3, <1>5, <1>6 DEF o

LEMMA SellHolds ==
  ASSUME IInv, NEW i \in Index, Sell(i), NEW s \in Symbol
  PROVE  Held(s)' = Held(s) - (IF orders[i].symbol = s THEN Quantity(i) ELSE 0)
<1> DEFINE o == orders[i].symbol
           rest == positions[o].quantity - Quantity(i)
<1>1. /\ i \in pending /\ Fillable(i) /\ orders[i].side = "sell"
      /\ \/ /\ rest = 0
            /\ positions' = [t \in DOMAIN positions \ {o} |-> positions[t]]
         \/ /\ rest # 0
            /\ positions' = [positions EXCEPT ![o].quantity = rest]
  BY DEF Sell, IsNext
<1>2. Quantity(i) \in Nat /\ o \in DOMAIN positions
  BY <1>1, FillableFacts
<1>3. \A t \in DOMAIN positions : positions[t].quantity \in Nat /\ positions[t] \in Position
  BY DEF IInv, TypeOK, Position
<1>4. Held(s) \in Nat /\ Held(o) = positions[o].quantity
  BY <1>2, <1>3 DEF Held
<1> HIDE DEF o
<1>5. Held(s)' = IF s = o THEN rest ELSE Held(s)
  <2>1. CASE rest = 0
    BY <1>1, <1>2, <2>1 DEF Held
  <2>2. CASE rest # 0
    <3>1. /\ DOMAIN positions' = DOMAIN positions
          /\ \A t \in DOMAIN positions :
               positions'[t].quantity = IF t = o THEN rest ELSE positions[t].quantity
      BY <1>1, <1>2, <1>3, <2>2 DEF Position
    <3> QED  BY <1>2, <3>1 DEF Held
  <2> QED  BY <2>1, <2>2
<1> QED  BY <1>2, <1>4, <1>5 DEF o

LEMMA BuyOutcome ==
  ASSUME IInv, BatchInv, NEW i \in Index, Buy(i)
  PROVE  BatchInv'
<1> DEFINE sold == SellsOf(Filled)
           bought == BuysOf(Filled)
<1>1. /\ i \in pending /\ i \in DOMAIN orders /\ Fillable(i) /\ orders[i].side = "buy"
      /\ IsNext(i) /\ Fill(i) /\ Done(i) /\ cash' = cash - Amount(i)
      /\ UNCHANGED <<phase, orders, bars, before>>
  BY DEF Buy, IsNext, IInv, TypeOK
<1>2. /\ i \in Accepted(orders) /\ i \notin Seen /\ i \notin Filled
      /\ Accepted(orders)' = Accepted(orders)
      /\ pending' \subseteq Accepted(orders)
      /\ Seen' = Seen \cup {i}
      /\ \A k \in pending', j \in Seen' : Precedes(j, k)'
      /\ \A k : /\ Amount(k)' = Amount(k) /\ Quantity(k)' = Quantity(k)
                /\ CannotFill(k)' = CannotFill(k)
      /\ \A s : HeldBefore(s)' = HeldBefore(s)
  BY <1>1, LookStep
<1>3. /\ orders[i].symbol \in Symbol /\ Quantity(i) \in Nat \ {0} /\ Amount(i) \in Nat
      /\ Amount(i) <= cash /\ ~CannotFill(i)
  BY <1>1, FillableFacts DEF Fillable
<1>4. Filled' = Filled \cup {i}
  <2> DEFINE r == [order |-> i, quantity |-> Quantity(i), cash |-> Amount(i)]
  <2>1. fills' = fills \cup {r} /\ r.order = i
    BY <1>1 DEF Fill
  <2> HIDE DEF r
  <2> QED  BY <2>1 DEF Filled
<1>5. SellsOf(Filled)' = sold /\ BuysOf(Filled)' = bought \cup {i} /\ i \notin bought
  BY <1>1, <1>2, <1>4 DEF SellsOf, BuysOf
<1>6. /\ Filled \subseteq DOMAIN orders /\ IsFiniteSet(Filled)
      /\ IsFiniteSet(sold) /\ IsFiniteSet(bought)
  <2>1. Filled \subseteq DOMAIN orders  BY OrderFacts DEF BatchInv, Seen
  <2> QED  BY <2>1, OrderFacts, FS_Subset DEF SellsOf, BuysOf
<1>7. \A k \in Filled \cup {i} : Amount(k) \in Nat /\ Quantity(k) \in Nat
  BY <1>3 DEF BatchInv
<1>10. Amounts(SellsOf(Filled))' = Amounts(sold) /\ Amounts(BuysOf(Filled))' = Amounts(bought \cup {i})
  BY <1>2, <1>5 DEF Amounts
<1>11. \A s : /\ Shares(SellsOf(Filled), s)' = Shares(sold, s)
              /\ Shares(BuysOf(Filled), s)' = Shares(bought \cup {i}, s)
  BY <1>1, <1>2, <1>5 DEF Shares, OfSymbol
<1>12. /\ SumOf(Amounts(bought)) \in Int /\ SumOf(Amounts(sold)) \in Int
       /\ SumOf(Amounts(bought \cup {i})) = Amount(i) + SumOf(Amounts(bought))
  <2>1. /\ i \notin sold
        /\ \A j \in bought \cup {i} : Amount(j) \in Int
        /\ \A j \in sold \cup {i} : Amount(j) \in Int
    BY <1>2, <1>7 DEF SellsOf, BuysOf
  <2> HIDE DEF sold, bought
  <2>2. SumOf(Amounts(sold)) \in Int
    BY <1>6, <2>1, AmountsAdd
  <2> QED  BY <1>5, <1>6, <2>1, <2>2, AmountsAdd
<1>13. before.cash \in Int /\ cash \in Int
  BY DEF IInv, IsBook, TypeOK
<1>14. cash' = before.cash' + SumOf(Amounts(SellsOf(Filled)))' - SumOf(Amounts(BuysOf(Filled)))'
  BY <1>1, <1>3, <1>10, <1>12, <1>13 DEF BatchInv
<1>15. \A j \in BuysOf(Seen) : Ranks(orders, j, i) /\ ~Ranks(orders, i, j)
  <2> TAKE j \in BuysOf(Seen)
  <2>1. j \in Seen /\ j \in DOMAIN orders /\ orders[j].side = "buy" /\ Precedes(j, i)
    BY <1>1, OrderFacts DEF BuysOf, Seen, BatchInv
  <2>2. Ranks(orders, j, i)
    BY <1>1, <2>1 DEF Precedes
  <2> QED  BY <1>1, <2>1, <2>2, OrderFacts
<1>16. ~Ranks(orders, i, i)
  BY <1>1, OrderFacts
<1>17. bought \subseteq BuysOf(Seen)
  BY DEF BuysOf, BatchInv
<1>18. \A k \in BuysOf(Seen) : Left(k)' = Left(k)
  <2> TAKE k \in BuysOf(Seen)
  <2>1. {j \in BuysOf(Filled) : Ranks(orders, j, k)}' = {j \in bought : Ranks(orders, j, k)}
    BY <1>1, <1>5, <1>15
  <2>2. Amounts({j \in BuysOf(Filled) : Ranks(orders, j, k)})'
          = Amounts({j \in bought : Ranks(orders, j, k)})
    BY <1>2, <2>1 DEF Amounts
  <2> QED  BY <1>1, <1>10, <2>2 DEF Left
<1>19. Left(i)' = cash
  <2>1. {j \in BuysOf(Filled) : Ranks(orders, j, i)}' = bought
    BY <1>1, <1>5, <1>15, <1>16, <1>17
  <2>2. Amounts({j \in BuysOf(Filled) : Ranks(orders, j, i)})' = Amounts(bought)
    BY <1>2, <2>1 DEF Amounts
  <2>3. Left(i)' = before.cash + SumOf(Amounts(sold)) - SumOf(Amounts(bought))
    BY <1>1, <1>10, <2>2 DEF Left
  <2> QED  BY <2>3 DEF BatchInv
<1>20. \A k \in BuysOf(Seen)' :
         k \in Filled' <=> ~CannotFill(k)' /\ Quantity(k)' > 0 /\ Amount(k)' <= Left(k)'
  <2> TAKE k \in BuysOf(Seen)'
  <2>1. k \in BuysOf(Seen) \/ k = i
    BY <1>1, <1>2 DEF BuysOf
  <2>2. CASE k = i
    BY <1>2, <1>3, <1>4, <1>19, <2>2
  <2>3. CASE k \in BuysOf(Seen)
    <3>1. k # i
      BY <1>2, <2>3 DEF BuysOf
    <3> QED  BY <1>2, <1>4, <1>18, <2>3, <3>1 DEF BatchInv
  <2> QED  BY <2>1, <2>2, <2>3
<1>21. \A k \in SellsOf(Seen)' :
         k \in Filled' <=> ~CannotFill(k)' /\ orders'[k].amount <= HeldBefore(orders[k].symbol)'
  <2> TAKE k \in SellsOf(Seen)'
  <2>1. k \in SellsOf(Seen) /\ k # i
    BY <1>1, <1>2 DEF SellsOf
  <2> QED  BY <1>1, <1>2, <1>4, <2>1 DEF BatchInv
<1>22. \A s \in Symbol :
         Held(s)' = HeldBefore(s)' + SumOf(Shares(BuysOf(Filled), s))'
                                   - SumOf(Shares(SellsOf(Filled), s))'
  <2> TAKE s \in Symbol
  <2>1. Held(s)' = (IF orders[i].symbol = s THEN Quantity(i) ELSE 0) + Held(s)
    BY <1>3, BuyHolds
  <2>2. /\ SumOf(Shares(sold, s)) \in Int /\ SumOf(Shares(bought, s)) \in Int
        /\ SumOf(Shares(bought \cup {i}, s))
              = (IF orders[i].symbol = s THEN Quantity(i) ELSE 0) + SumOf(Shares(bought, s))
    <3>1. /\ i \notin sold
          /\ \A j \in bought \cup {i} : Quantity(j) \in Int
          /\ \A j \in sold \cup {i} : Quantity(j) \in Int
      BY <1>2, <1>7 DEF SellsOf, BuysOf
    <3> HIDE DEF sold, bought
    <3>2. SumOf(Shares(sold, s)) \in Int
      BY <1>6, <3>1, SharesAdd
    <3> QED  BY <1>5, <1>6, <3>1, <3>2, SharesAdd
  <2>4. HeldBefore(s) \in Int
    BY DEF HeldBefore, IInv, IsBook, Position
  <2>5. Held(s) = HeldBefore(s) + SumOf(Shares(bought, s)) - SumOf(Shares(sold, s))
    BY DEF BatchInv
  <2> QED  BY <1>2, <1>3, <1>11, <2>1, <2>2, <2>4, <2>5
<1>23. /\ (pending \subseteq Accepted(orders))'
       /\ (Filled \subseteq Seen)'
       /\ \A k \in Filled' : Amount(k)' \in Nat /\ Quantity(k)' \in Nat
  BY <1>2, <1>4, <1>7 DEF BatchInv
<1> QED  BY <1>2, <1>14, <1>20, <1>21, <1>22, <1>23 DEF BatchInv

\* When a sell is looked at, nothing else has touched its symbol.
LEMMA SellAlone ==
  ASSUME IInv, BatchInv, NEW i \in DOMAIN orders, IsNext(i), orders[i].side = "sell"
  PROVE  /\ BuysOf(Seen) = {} /\ BuysOf(Filled) = {}
         /\ orders[i].symbol \in Symbol
         /\ Held(orders[i].symbol) = HeldBefore(orders[i].symbol)
         /\ Quantity(i) = orders[i].amount
<1> DEFINE s == orders[i].symbol
<1>1. i \in pending /\ i \in Accepted(orders) /\ i \notin Seen /\ s \in Symbol
  BY DEF IsNext, BatchInv, Seen, IInv, PendingValid
<1>2. BuysOf(Seen) = {}
  <2> SUFFICES ASSUME NEW j \in Seen, orders[j].side = "buy" PROVE FALSE
    BY DEF BuysOf
  <2>1. Precedes(j, i)
    BY <1>1 DEF BatchInv
  <2> QED  BY <2>1 DEF Precedes
<1>3. BuysOf(Filled) = {}
  BY <1>2 DEF BuysOf, BatchInv
<1>4. OfSymbol(BuysOf(Filled), s) = {} /\ OfSymbol(SellsOf(Filled), s) = {}
  <2>1. \A j \in Filled : orders[j].symbol # s
    BY <1>1, OrderFacts DEF BatchInv, Seen
  <2> QED  BY <2>1 DEF OfSymbol, BuysOf, SellsOf
<1>5. SumOf(Shares(BuysOf(Filled), s)) = 0 /\ SumOf(Shares(SellsOf(Filled), s)) = 0
  <2>1. /\ Shares(BuysOf(Filled), s) \in [{} -> Int]
        /\ Shares(SellsOf(Filled), s) \in [{} -> Int]
    BY <1>4 DEF Shares
  <2> QED  BY <2>1, SumFacts, FS_EmptySet
<1>6. HeldBefore(s) \in Int
  BY DEF HeldBefore, IInv, IsBook, Position
<1>7. Held(s) = HeldBefore(s) + 0 - 0
  BY <1>1, <1>5 DEF BatchInv
<1>8. Quantity(i) = orders[i].amount
  BY DEF Quantity
<1> QED  BY <1>1, <1>2, <1>3, <1>6, <1>7, <1>8

LEMMA SellOutcome ==
  ASSUME IInv, BatchInv, NEW i \in Index, Sell(i)
  PROVE  BatchInv'
<1> DEFINE sold == SellsOf(Filled)
           bought == BuysOf(Filled)
<1>1. /\ i \in pending /\ i \in DOMAIN orders /\ Fillable(i) /\ orders[i].side = "sell"
      /\ IsNext(i) /\ Fill(i) /\ Done(i) /\ cash' = cash + Amount(i)
      /\ UNCHANGED <<phase, orders, bars, before>>
  BY DEF Sell, IsNext, IInv, TypeOK
<1>2. /\ i \in Accepted(orders) /\ i \notin Seen /\ i \notin Filled
      /\ Accepted(orders)' = Accepted(orders)
      /\ pending' \subseteq Accepted(orders)
      /\ Seen' = Seen \cup {i}
      /\ \A k \in pending', j \in Seen' : Precedes(j, k)'
      /\ \A k : /\ Amount(k)' = Amount(k) /\ Quantity(k)' = Quantity(k)
                /\ CannotFill(k)' = CannotFill(k)
      /\ \A s : HeldBefore(s)' = HeldBefore(s)
  BY <1>1, LookStep
<1>3. /\ orders[i].symbol \in Symbol /\ Quantity(i) \in Nat \ {0} /\ Amount(i) \in Nat
      /\ ~CannotFill(i) /\ Quantity(i) <= Held(orders[i].symbol)
  BY <1>1, FillableFacts DEF Fillable
<1>4. Filled' = Filled \cup {i}
  <2> DEFINE r == [order |-> i, quantity |-> Quantity(i), cash |-> Amount(i)]
  <2>1. fills' = fills \cup {r} /\ r.order = i
    BY <1>1 DEF Fill
  <2> HIDE DEF r
  <2> QED  BY <2>1 DEF Filled
<1>5. /\ BuysOf(Seen) = {} /\ bought = {} /\ Quantity(i) = orders[i].amount
      /\ Held(orders[i].symbol) = HeldBefore(orders[i].symbol)
  BY <1>1, SellAlone
<1>6. /\ SellsOf(Filled)' = sold \cup {i} /\ i \notin sold
      /\ BuysOf(Filled)' = bought /\ BuysOf(Seen)' = {}
  BY <1>1, <1>2, <1>4, <1>5 DEF SellsOf, BuysOf
<1>7. /\ Filled \subseteq DOMAIN orders /\ IsFiniteSet(sold) /\ IsFiniteSet(bought)
  <2>1. Filled \subseteq DOMAIN orders  BY OrderFacts DEF BatchInv, Seen
  <2>2. sold \subseteq DOMAIN orders /\ bought \subseteq DOMAIN orders
    BY <2>1 DEF SellsOf, BuysOf
  <2> HIDE DEF sold, bought
  <2> QED  BY <2>1, <2>2, OrderFacts, FS_Subset
<1>8. \A k \in Filled \cup {i} : Amount(k) \in Nat /\ Quantity(k) \in Nat
  BY <1>3 DEF BatchInv
<1>9. /\ i \notin sold /\ i \notin bought
      /\ \A j \in sold \cup {i} : Amount(j) \in Int /\ Quantity(j) \in Int
      /\ \A j \in bought \cup {i} : Amount(j) \in Int /\ Quantity(j) \in Int
  BY <1>2, <1>8 DEF SellsOf, BuysOf
<1>10. Amounts(SellsOf(Filled))' = Amounts(sold \cup {i}) /\ Amounts(BuysOf(Filled))' = Amounts(bought)
  BY <1>2, <1>6 DEF Amounts
<1>11. \A s : /\ Shares(SellsOf(Filled), s)' = Shares(sold \cup {i}, s)
              /\ Shares(BuysOf(Filled), s)' = Shares(bought, s)
  BY <1>1, <1>2, <1>6 DEF Shares, OfSymbol
<1>12. /\ SumOf(Amounts(bought)) \in Int /\ SumOf(Amounts(sold)) \in Int
       /\ SumOf(Amounts(sold \cup {i})) = Amount(i) + SumOf(Amounts(sold))
  <2> HIDE DEF sold, bought
  <2>1. SumOf(Amounts(bought)) \in Int
    BY <1>7, <1>9, AmountsAdd
  <2> QED  BY <1>7, <1>9, <2>1, AmountsAdd
<1>13. before.cash \in Int /\ cash \in Int
  BY DEF IInv, IsBook, TypeOK
<1>14. cash' = before.cash' + SumOf(Amounts(SellsOf(Filled)))' - SumOf(Amounts(BuysOf(Filled)))'
  BY <1>1, <1>3, <1>10, <1>12, <1>13 DEF BatchInv
<1>15. \A k \in SellsOf(Seen)' :
         k \in Filled' <=> ~CannotFill(k)' /\ orders'[k].amount <= HeldBefore(orders[k].symbol)'
  <2> TAKE k \in SellsOf(Seen)'
  <2>1. k \in SellsOf(Seen) \/ k = i
    BY <1>1, <1>2 DEF SellsOf
  <2>2. CASE k = i
    BY <1>1, <1>2, <1>3, <1>4, <1>5, <2>2
  <2>3. CASE k \in SellsOf(Seen)
    <3>1. k # i
      BY <1>2, <2>3 DEF SellsOf
    <3> QED  BY <1>1, <1>2, <1>4, <2>3, <3>1 DEF BatchInv
  <2> QED  BY <2>1, <2>2, <2>3
<1>16. \A s \in Symbol :
         Held(s)' = HeldBefore(s)' + SumOf(Shares(BuysOf(Filled), s))'
                                   - SumOf(Shares(SellsOf(Filled), s))'
  <2> TAKE s \in Symbol
  <2>1. Held(s)' = Held(s) - (IF orders[i].symbol = s THEN Quantity(i) ELSE 0)
    BY <1>3, SellHolds
  <2>2. /\ SumOf(Shares(sold, s)) \in Int /\ SumOf(Shares(bought, s)) \in Int
        /\ SumOf(Shares(sold \cup {i}, s))
              = (IF orders[i].symbol = s THEN Quantity(i) ELSE 0) + SumOf(Shares(sold, s))
    <3> HIDE DEF sold, bought
    <3>1. SumOf(Shares(bought, s)) \in Int
      BY <1>7, <1>9, SharesAdd
    <3> QED  BY <1>7, <1>9, <3>1, SharesAdd
  <2>4. HeldBefore(s) \in Int
    BY DEF HeldBefore, IInv, IsBook, Position
  <2>5. Held(s) = HeldBefore(s) + SumOf(Shares(bought, s)) - SumOf(Shares(sold, s))
    BY DEF BatchInv
  <2> QED  BY <1>2, <1>3, <1>11, <2>1, <2>2, <2>4, <2>5
<1>17. /\ (pending \subseteq Accepted(orders))'
       /\ (Filled \subseteq Seen)'
       /\ \A k \in Filled' : Amount(k)' \in Nat /\ Quantity(k)' \in Nat
  BY <1>2, <1>4, <1>8 DEF BatchInv
<1> QED  BY <1>2, <1>6, <1>14, <1>15, <1>16, <1>17 DEF BatchInv

LEMMA RejectOutcome ==
  ASSUME IInv, BatchInv, NEW i \in Index, Reject(i)
  PROVE  BatchInv'
<1>1. /\ i \in pending /\ i \in DOMAIN orders /\ ~Fillable(i) /\ ~Raises(i)
      /\ IsNext(i) /\ Done(i)
      /\ UNCHANGED <<phase, orders, bars, before, cash, positions, fills>>
  BY DEF Reject, IsNext, IInv, TypeOK, book
<1>2. /\ i \in Accepted(orders) /\ i \notin Seen /\ i \notin Filled
      /\ Accepted(orders)' = Accepted(orders)
      /\ pending' \subseteq Accepted(orders)
      /\ Seen' = Seen \cup {i}
      /\ \A k \in pending', j \in Seen' : Precedes(j, k)'
      /\ \A k : /\ Amount(k)' = Amount(k) /\ Quantity(k)' = Quantity(k)
                /\ CannotFill(k)' = CannotFill(k)
      /\ \A s : HeldBefore(s)' = HeldBefore(s)
  BY <1>1, LookStep
<1>3. Filled' = Filled
  BY <1>1 DEF Filled
<1>4. /\ Amounts(SellsOf(Filled))' = Amounts(SellsOf(Filled))
      /\ Amounts(BuysOf(Filled))' = Amounts(BuysOf(Filled))
  BY <1>1, <1>2, <1>3 DEF Amounts, SellsOf, BuysOf
<1>5. \A s : /\ Shares(SellsOf(Filled), s)' = Shares(SellsOf(Filled), s)
             /\ Shares(BuysOf(Filled), s)' = Shares(BuysOf(Filled), s)
  BY <1>1, <1>2, <1>3 DEF Shares, OfSymbol, SellsOf, BuysOf
<1>6. \A k : Left(k)' = Left(k)
  <2> TAKE k
  <2>1. Amounts({j \in BuysOf(Filled) : Ranks(orders, j, k)})'
          = Amounts({j \in BuysOf(Filled) : Ranks(orders, j, k)})
    BY <1>1, <1>2, <1>3 DEF Amounts, BuysOf
  <2> QED  BY <1>1, <1>4, <2>1 DEF Left
<1>7. \A k \in SellsOf(Seen)' :
        k \in Filled' <=> ~CannotFill(k)' /\ orders'[k].amount <= HeldBefore(orders[k].symbol)'
  <2> TAKE k \in SellsOf(Seen)'
  <2>1. k \in SellsOf(Seen) \/ (k = i /\ orders[i].side = "sell")
    BY <1>1, <1>2 DEF SellsOf
  <2>2. CASE k = i /\ orders[i].side = "sell"
    <3>1. /\ Quantity(i) = orders[i].amount
          /\ Held(orders[i].symbol) = HeldBefore(orders[i].symbol)
      BY <1>1, <2>2, SellAlone
    <3>2. ~(~CannotFill(i) /\ orders[i].amount <= HeldBefore(orders[i].symbol))
      BY <1>1, <2>2, <3>1 DEF Fillable, Raises
    <3> QED  BY <1>1, <1>2, <1>3, <2>2, <3>2
  <2>3. CASE k \in SellsOf(Seen)
    BY <1>1, <1>2, <1>3, <2>3 DEF BatchInv
  <2> QED  BY <2>1, <2>2, <2>3
<1>8. \A k \in BuysOf(Seen)' :
        k \in Filled' <=> ~CannotFill(k)' /\ Quantity(k)' > 0 /\ Amount(k)' <= Left(k)'
  <2> TAKE k \in BuysOf(Seen)'
  <2>1. k \in BuysOf(Seen) \/ (k = i /\ orders[i].side = "buy")
    BY <1>1, <1>2 DEF BuysOf
  <2>2. CASE k = i /\ orders[i].side = "buy"
    <3>1. \A j \in BuysOf(Filled) : Ranks(orders, j, i)
      <4> TAKE j \in BuysOf(Filled)
      <4>1. orders[j].side = "buy" /\ Precedes(j, i)
        BY <1>1 DEF BuysOf, BatchInv
      <4> QED  BY <2>2, <4>1 DEF Precedes
    <3>2. {j \in BuysOf(Filled) : Ranks(orders, j, i)} = BuysOf(Filled)
      BY <3>1
    <3>3. Left(i) = cash
      BY <3>2 DEF Left, BatchInv
    <3>4. ~(~CannotFill(i) /\ Quantity(i) > 0 /\ Amount(i) <= cash)
      <4> SUFFICES ASSUME ~CannotFill(i), Quantity(i) > 0, Amount(i) <= cash PROVE FALSE
        OBVIOUS
      <4>1. Price(i) # 0
        BY <1>1, <2>2 DEF Raises
      <4>2. Quantity(i) # 0
        OBVIOUS
      <4> QED  BY <1>1, <2>2, <4>1, <4>2 DEF Fillable
    <3> QED  BY <1>2, <1>3, <1>6, <2>2, <3>3, <3>4
  <2>3. CASE k \in BuysOf(Seen)
    BY <1>1, <1>2, <1>3, <1>6, <2>3 DEF BatchInv
  <2> QED  BY <2>1, <2>2, <2>3
<1>9. cash' = before.cash' + SumOf(Amounts(SellsOf(Filled)))' - SumOf(Amounts(BuysOf(Filled)))'
  BY <1>1, <1>4 DEF BatchInv
<1>10. \A s \in Symbol :
         Held(s)' = HeldBefore(s)' + SumOf(Shares(BuysOf(Filled), s))'
                                   - SumOf(Shares(SellsOf(Filled), s))'
  BY <1>1, <1>2, <1>5 DEF BatchInv, Held
<1>11. /\ (pending \subseteq Accepted(orders))'
       /\ (Filled \subseteq Seen)'
       /\ \A k \in Filled' : Amount(k)' \in Nat /\ Quantity(k)' \in Nat
  BY <1>2, <1>3 DEF BatchInv
<1> QED  BY <1>2, <1>7, <1>8, <1>9, <1>10, <1>11 DEF BatchInv

LEMMA SubmitOutcome ==
  ASSUME IInv, NEW os, NEW acceptable, NEW bs, Submit(os, acceptable, bs), phase' = "trading"
  PROVE  BatchInv'
<1>1. /\ before' = Book /\ fills' = {} /\ cash' = cash /\ positions' = positions
      /\ orders' = os /\ pending' = Accepted(os)
  BY DEF Submit, book
<1>2. Seen' = {} /\ Filled' = {} /\ (pending \subseteq Accepted(orders))'
  BY <1>1 DEF Seen, Filled
<1>3. (BuysOf(Seen) = {} /\ SellsOf(Seen) = {} /\ BuysOf(Filled) = {} /\ SellsOf(Filled) = {})'
  BY <1>2 DEF BuysOf, SellsOf
<1>4. SumOf(Amounts(BuysOf(Filled)))' = 0 /\ SumOf(Amounts(SellsOf(Filled)))' = 0
  <2>1. /\ Amounts(BuysOf(Filled))' \in [{} -> Int]
        /\ Amounts(SellsOf(Filled))' \in [{} -> Int]
    BY <1>3 DEF Amounts
  <2> QED  BY <2>1, SumFacts, FS_EmptySet
<1>5. \A s : SumOf(Shares(BuysOf(Filled), s))' = 0 /\ SumOf(Shares(SellsOf(Filled), s))' = 0
  <2> TAKE s
  <2>1. /\ Shares(BuysOf(Filled), s)' \in [{} -> Int]
        /\ Shares(SellsOf(Filled), s)' \in [{} -> Int]
    BY <1>3 DEF Shares, OfSymbol
  <2> QED  BY <2>1, SumFacts, FS_EmptySet
<1>6. cash \in Int /\ before'.cash = cash
  BY <1>1 DEF IInv, TypeOK, Book
<1>7. cash' = before'.cash + SumOf(Amounts(SellsOf(Filled)))' - SumOf(Amounts(BuysOf(Filled)))'
  BY <1>1, <1>4, <1>6
<1>8. \A s \in Symbol :
         Held(s)' = HeldBefore(s)' + SumOf(Shares(BuysOf(Filled), s))'
                                   - SumOf(Shares(SellsOf(Filled), s))'
  <2> TAKE s \in Symbol
  <2>1. Held(s)' = HeldBefore(s)' /\ HeldBefore(s)' \in Int
    BY <1>1 DEF Held, HeldBefore, Book, IInv, TypeOK, Position
  <2> QED  BY <1>5, <2>1
<1> QED  BY <1>2, <1>3, <1>7, <1>8 DEF BatchInv

\* Once nothing is pending the invariant is the outcome.
LEMMA BatchOver == IInv /\ BatchInv /\ pending = {} => (phase = "settled" => OutcomeExplained)
<1> SUFFICES ASSUME IInv, BatchInv, pending = {} PROVE OutcomeExplained
  OBVIOUS
<1> DEFINE filled == {f.order : f \in fills}
           sold   == SellsOf(filled)
           bought == BuysOf(filled)
           Prior(i) == {j \in bought : Ranks(orders, j, i)}
<1>1. filled = Filled /\ Seen = Accepted(orders) /\ Filled \subseteq Accepted(orders)
  BY DEF Filled, Seen, BatchInv
<1>2. /\ IsFiniteSet(sold) /\ IsFiniteSet(bought) /\ \A i : IsFiniteSet(Prior(i))
  <2>1. filled \subseteq DOMAIN orders  BY <1>1, OrderFacts
  <2> HIDE DEF filled
  <2>2. sold \subseteq DOMAIN orders /\ bought \subseteq DOMAIN orders
        /\ \A i : Prior(i) \subseteq DOMAIN orders
    BY <2>1 DEF SellsOf, BuysOf
  <2> HIDE DEF sold, bought, Prior
  <2> QED  BY <2>2, OrderFacts, FS_Subset
<1>3. \A i \in filled : Amount(i) \in Nat /\ Quantity(i) \in Nat
  BY <1>1 DEF BatchInv
<1>4. /\ \A i \in sold \cup bought : Amount(i) \in Int /\ Quantity(i) \in Int
      /\ \A k : \A i \in Prior(k) : Amount(i) \in Int
  BY <1>3 DEF SellsOf, BuysOf
<1>5. /\ sold = SellsOf(Filled) /\ bought = BuysOf(Filled)
      /\ \A i : Prior(i) = {j \in BuysOf(Filled) : Ranks(orders, j, i)}
  BY <1>1
<1>6. /\ Total(sold) = SumOf(Amounts(sold)) /\ Total(bought) = SumOf(Amounts(bought))
      /\ \A i : Total(Prior(i)) = SumOf(Amounts(Prior(i)))
      /\ \A s : /\ Quantities(sold, s) = SumOf(Shares(sold, s))
               /\ Quantities(bought, s) = SumOf(Shares(bought, s))
  <2> HIDE DEF sold, bought, Prior
  <2> QED  BY <1>2, <1>4, TotalIs, QuantitiesIs
<1> DEFINE Funds(i) == before.cash + Total(sold) - Total(Prior(i))
           sellable == {i \in SellsOf(Accepted(orders)) :
                          ~CannotFill(i) /\ orders[i].amount <= HeldBefore(orders[i].symbol)}
<1>7. sold = sellable
  <2>1. \A i \in SellsOf(Accepted(orders)) :
          i \in Filled <=> ~CannotFill(i) /\ orders[i].amount <= HeldBefore(orders[i].symbol)
    BY <1>1 DEF BatchInv
  <2>2. \A i : i \in SellsOf(Filled) <=> i \in SellsOf(Accepted(orders)) /\ i \in Filled
    BY <1>1 DEF SellsOf
  <2> HIDE DEF sold
  <2> QED  BY <1>5, <2>1, <2>2
<1>8. \A i : Funds(i) = Left(i)
  <2> HIDE DEF sold, bought, Prior
  <2> QED  BY <1>5, <1>6 DEF Left
<1>9. bought = {i \in BuysOf(Accepted(orders)) :
                  ~CannotFill(i) /\ Quantity(i) > 0 /\ Amount(i) <= Funds(i)}
  <2>1. \A i \in BuysOf(Accepted(orders)) :
          i \in Filled <=> ~CannotFill(i) /\ Quantity(i) > 0 /\ Amount(i) <= Left(i)
    BY <1>1 DEF BatchInv
  <2>2. \A i : i \in BuysOf(Filled) <=> i \in BuysOf(Accepted(orders)) /\ i \in Filled
    BY <1>1 DEF BuysOf
  <2> HIDE DEF bought, Funds
  <2> QED  BY <1>5, <1>8, <2>1, <2>2
<1>10. cash = before.cash + Total(sold) - Total(bought)
  <2> HIDE DEF sold, bought
  <2> QED  BY <1>5, <1>6 DEF BatchInv
<1>11. \A s \in Symbol : Held(s) = HeldBefore(s) + Quantities(bought, s) - Quantities(sold, s)
  <2> HIDE DEF sold, bought
  <2> QED  BY <1>5, <1>6 DEF BatchInv
<1> QED  BY <1>7, <1>9, <1>10, <1>11, Zenon DEF OutcomeExplained

\* Every settled decision has filled what the priorities, the holdings and the
\* cash it began with call for, and nothing else (apply_decision).
THEOREM OutcomesExplained == Spec => []OutcomeExplained
<1>1. Init => OutcomeInv
  BY DEF Init, OutcomeInv
<1>2. IInv /\ OutcomeInv /\ [Next]_vars => OutcomeInv'
  <2> SUFFICES ASSUME IInv, OutcomeInv, [Next]_vars PROVE OutcomeInv'
    OBVIOUS
  <2>1. CASE UNCHANGED vars
    <3>1. BatchInv' = BatchInv
      BY <2>1 DEF vars, BatchInv, Accepted, Valid, Seen, Filled, Precedes, Ranks, Amount, Quantity,
                  Price, CannotFill, SellsOf, BuysOf, Left, Amounts, Shares, OfSymbol, Held, HeldBefore
    <3> QED  BY <2>1, <3>1 DEF OutcomeInv, vars
  <2>2. CASE Settle
    <3>1. BatchInv' = BatchInv
      BY <2>2 DEF Settle, book, BatchInv, Accepted, Valid, Seen, Filled, Precedes, Ranks, Amount,
                  Quantity, Price, CannotFill, SellsOf, BuysOf, Left, Amounts, Shares, OfSymbol,
                  Held, HeldBefore
    <3> QED  BY <2>2, <3>1 DEF OutcomeInv, Settle
  <2>3. ASSUME NEW i \in Index, Buy(i) \/ Sell(i) \/ Reject(i)
        PROVE  OutcomeInv'
    <3>1. phase = "trading" /\ phase' = "trading"
      BY <2>3 DEF Buy, Sell, Reject, IsNext
    <3>2. BatchInv'
      BY <2>3, <3>1, BuyOutcome, SellOutcome, RejectOutcome DEF OutcomeInv
    <3> QED  BY <3>1, <3>2 DEF OutcomeInv
  <2>4. ASSUME NEW i \in Index, Raise(i)
        PROVE  OutcomeInv'
    BY <2>4 DEF Raise, OutcomeInv
  <2>5. ASSUME NEW os, NEW acceptable, NEW bs, Submit(os, acceptable, bs)
        PROVE  OutcomeInv'
    <3>1. phase' \in {"trading", "missing", "unparsed"}
      BY <2>5 DEF Submit
    <3> QED  BY <2>5, <3>1, SubmitOutcome DEF OutcomeInv
  <2> QED  BY <2>1, <2>2, <2>3, <2>4, <2>5 DEF Next
<1>3. IInv /\ OutcomeInv => OutcomeExplained
  <2>1. phase # "settled" => OutcomeExplained
    BY DEF OutcomeExplained
  <2> QED  BY <2>1, BatchOver DEF OutcomeInv
<1> QED  BY Invariance, <1>1, <1>2, <1>3, PTL DEF Spec
=============================================================================
