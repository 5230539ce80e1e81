-------------------------- MODULE MCPositionLedger --------------------------
(***************************************************************************)
(* Instances of PositionLedger for TLC.                                    *)
(***************************************************************************)
EXTENDS PositionLedger, TLC

CONSTANTS A, Z, buy, lotSell, sell

\* The orders of symbol A; Z is only traded outside.
TheSymbols == [o \in Orders |-> A]
TheKinds == (buy :> "timing2_buy") @@ (lotSell :> "lot_sell") @@ (sell :> "sell")
TheQuantities == [o \in Orders |-> 2]
=============================================================================
