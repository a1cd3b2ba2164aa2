---------------------------- MODULE MCBaselines ----------------------------
EXTENDS Baselines

CONSTANTS SPY, X, Y

MCSorted == <<SPY, X, Y>>

\* Every buy a baseline can ask for.
MCOrders ==
  {[priority |-> p, symbol |-> s, side |-> "buy", amount |-> n] :
     p \in 1..3, s \in Symbol, n \in {1, 1666, 1667, 2499, 5000}}

\* Two rounds in which any symbol may be halted or have any of the prices.
MCTapes == [1..2 -> [Symbol -> References \cup {NoReference}]]

\* All closes at a price with a small or a large slip, and one that is missing.
MCCloses ==
  {[s \in Symbol |-> 15003], [s \in Symbol |-> 4007],
   [s \in Symbol |-> IF s = Y THEN NoReference ELSE 15001]}
=============================================================================
