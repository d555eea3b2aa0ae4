------------------------------ MODULE MintEscrow ------------------------------
(***************************************************************************)
(* What the commit-reveal mint promises a minter, with the oracle, the     *)
(* commitments, the clock and the machine left out: a deal takes a price   *)
(* for a number of units and holds it; every unit is delivered or the      *)
(* money still held goes back, never both; and the money held always       *)
(* covers the undelivered units at the price paid for them.                *)
(***************************************************************************)
EXTENDS Integers

CONSTANT Deals

VARIABLE deal

NoDeal == [phase |-> "none", size |-> 0, owed |-> 0, price |-> 0, held |-> 0]

EscrowInit == deal = [d \in Deals |-> NoDeal]

\* A price is paid for size units, once per deal.
Pay(d) ==
    /\ deal[d].phase = "none"
    /\ deal' = [deal EXCEPT ![d] = deal'[d]]
    /\ deal'[d].phase = "open"
    /\ deal'[d].size \in Nat \ {0} /\ deal'[d].owed = deal'[d].size
    /\ deal'[d].price \in Nat      /\ deal'[d].held = deal'[d].price

\* A unit is delivered and at most its share of the price leaves the deal;
\* with the last unit nothing is left.
Deliver(d) ==
    LET left == deal[d].owed - 1
    IN  /\ deal[d].phase = "open"
        /\ left >= 0
        /\ \E held \in 0..deal[d].held :
             /\ held * deal[d].size >= deal[d].price * left
             /\ left = 0 => held = 0
             /\ deal' = [deal EXCEPT ![d] =
                           [@ EXCEPT !.owed = left, !.held = held,
                                     !.phase = IF left = 0 THEN "done" ELSE "open"]]

\* The deal ends undelivered: everything held goes back.
Return(d) ==
    /\ deal[d].phase = "open"
    /\ deal' = [deal EXCEPT ![d] = [@ EXCEPT !.phase = "returned", !.held = 0]]

EscrowNext == \E d \in Deals : Pay(d) \/ Deliver(d) \/ Return(d)

EscrowSpec == EscrowInit /\ [][EscrowNext]_deal

=============================================================================
