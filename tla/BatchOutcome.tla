---------------------------- MODULE BatchOutcome ----------------------------
(***************************************************************************)
(* What apply_decision promises for a whole batch, stated on the decision  *)
(* and the book it was given, without the loop that computes it.           *)
(***************************************************************************)
EXTENDS PaperExchange, FiniteSetsExt

SellsOf(S) == {i \in S : orders[i].side = "sell"}
BuysOf(S)  == {i \in S : orders[i].side = "buy"}

HeldBefore(s) ==
  IF s \in DOMAIN before.positions THEN before.positions[s].quantity ELSE 0

Total(S)    == MapThenSumSet(Amount, S)
Quantities(S, s) == MapThenSumSet(Quantity, {i \in S : orders[i].symbol = s})

\* A settled batch has filled exactly the sells that the old holdings cover
\* and, in the order of their priority, the buys that the cash of the old book
\* and all the sells, less the buys filled before, covers; the new book is the
\* old one with those fills.  Neither the position of an order in the file nor
\* a rejected order has any influence.  (apply_decision: the two sorts, the
\* loop over both sides; _drop_later_same_symbol.)
OutcomeExplained ==
  phase = "settled" =>
    LET filled == {f.order : f \in fills}
        sold   == SellsOf(filled)
        bought == BuysOf(filled)
        Funds(i) == before.cash + Total(sold)
                      - Total({j \in bought : Ranks(orders, j, i)})
        sellable == {i \in SellsOf(Accepted(orders)) :
                       ~CannotFill(i) /\ orders[i].amount <= HeldBefore(orders[i].symbol)}
    IN
    /\ sold = sellable
    /\ bought = {i \in BuysOf(Accepted(orders)) :
                   ~CannotFill(i) /\ Quantity(i) > 0 /\ Amount(i) <= Funds(i)}
    /\ cash = before.cash + Total(sold) - Total(bought)
    /\ \A s \in Symbol :
         Held(s) = HeldBefore(s) + Quantities(bought, s) - Quantities(sold, s)

=============================================================================
