-------------------------- MODULE MCPaperExchange --------------------------
EXTENDS BatchOutcome

CONSTANTS A, B, Foreign

Order(p, s, side, n) == [priority |-> p, symbol |-> s, side |-> side, amount |-> n]

\* Sells and buys of two symbols whose priorities agree or disagree with their
\* sides and whose costs compete for the cash, an order outside the universe, and
\* one with an amount no decision may contain.
TradingOrders ==
  {Order(p, A, "buy", 2) : p \in {1, 2}}
    \cup {Order(1, B, "buy", 3), Order(2, A, "sell", 13), Order(1, B, "sell", 19)}
    \cup {Order(1, Foreign, "buy", 1), Order(2, B, "buy", -1)}
=============================================================================
