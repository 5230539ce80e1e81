--------------------------- MODULE MCOrderLedger ---------------------------
(***************************************************************************)
(* Instances of OrderLedger for TLC.                                       *)
(***************************************************************************)
EXTENDS OrderLedger, TLC

CONSTANTS b, s, t, w1, w2

\* A buy order that can be partly filled, and two sell orders that can both be
\* sent for the one share held, while the broker already has shares of the buy
\* order that are not booked yet.
BuyAndSellsQty == (b :> 2) @@ (s :> 1) @@ (t :> 1)
BuyAndSellsSide == (b :> "buy") @@ (s :> "sell") @@ (t :> "sell")

\* One order of two shares.
BuyQty == b :> 2
BuySide == b :> "buy"

WorkerAndSellSymmetry == Permutations({w1, w2}) \union Permutations({s, t})
=============================================================================
