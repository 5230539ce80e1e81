---------------------------- MODULE OrderPromise ----------------------------
(***************************************************************************)
(* What the order ledger promises to everything built on it, without the   *)
(* processes, the broker or the statuses: an order is opened once; shares  *)
(* are booked to it one fill at a time and never taken back; it completes  *)
(* the moment its last share is booked, or it is closed early; neither is  *)
(* ever undone; and a fill that turns up after an order was closed early   *)
(* is still booked but can never complete it.                              *)
(***************************************************************************)
EXTENDS Naturals

CONSTANTS
  Orders,   \* client order ids
  Qty       \* Qty[o] is the number of shares order o asks for

VARIABLES
  phase,    \* phase[o] is "absent", "open", "complete" or "closed"
  booked    \* booked[o] is the number of shares booked to o

promiseVars == <<phase, booked>>

Init ==
  /\ phase = [o \in Orders |-> "absent"]
  /\ booked = [o \in Orders |-> 0]

Open(o) ==
  /\ phase[o] = "absent"
  /\ phase' = [phase EXCEPT ![o] = "open"]
  /\ UNCHANGED booked

Close(o) ==
  /\ phase[o] = "open"
  /\ phase' = [phase EXCEPT ![o] = "closed"]
  /\ UNCHANGED booked

Book(o) ==
  /\ phase[o] = "open"
  /\ booked[o] < Qty[o]
  /\ booked' = [booked EXCEPT ![o] = @ + 1]
  /\ phase' = [phase EXCEPT ![o] =
                 IF booked[o] + 1 = Qty[o] THEN "complete" ELSE "open"]

BookLate(o) ==
  /\ phase[o] = "closed"
  /\ booked[o] + 1 < Qty[o]
  /\ booked' = [booked EXCEPT ![o] = @ + 1]
  /\ UNCHANGED phase

Next == \E o \in Orders : Open(o) \/ Close(o) \/ Book(o) \/ BookLate(o)

Spec == Init /\ [][Next]_promiseVars
=============================================================================
