--------------------------- MODULE PayoutContract ---------------------------
(***************************************************************************)
(* What the payouts module promises a miner, whatever fails in between:    *)
(* money earned is available until it is reserved for one payment, and a   *)
(* reservation ends settled, only after its transfer, or available again.  *)
(* One reservation exists at a time in the whole pool.  A transfer is not  *)
(* repeated unless the one before was disowned: it came back without a     *)
(* receipt, or its reservation was refunded.                               *)
(***************************************************************************)
EXTENDS Integers

CONSTANTS Logins, Rewards, Threshold

VARIABLES
  available,    \* available[l]: earned and not reserved
  reserved,     \* reserved[l]: set aside for the payment in progress
  settled,      \* settled[l]: total of finished payments
  transferred,  \* transferred[l]: total sent to l on the chain
  disowned      \* disowned[l]: of it, what nothing stands for any more

vars == <<available, reserved, settled, transferred, disowned>>

\* What was transferred to l for its reservation.
InFlight(l) == transferred[l] - settled[l] - disowned[l]

Nobody == [l \in Logins |-> 0]

Init == available = Nobody /\ reserved = Nobody
        /\ settled = Nobody /\ transferred = Nobody /\ disowned = Nobody

Earn(reward) ==
  /\ available' = [l \in Logins |-> available[l] + reward[l]]
  /\ UNCHANGED <<reserved, settled, transferred, disowned>>

Reserve(l) ==
  /\ reserved = Nobody
  /\ \E n \in Threshold + 1 .. available[l] :
       /\ available' = [available EXCEPT ![l] = @ - n]
       /\ reserved' = [reserved EXCEPT ![l] = n]
  /\ UNCHANGED <<settled, transferred, disowned>>

Transfer(l) ==
  /\ reserved[l] > 0 /\ InFlight(l) = 0
  /\ transferred' = [transferred EXCEPT ![l] = @ + reserved[l]]
  /\ UNCHANGED <<available, reserved, settled, disowned>>

\* A transfer without a receipt: it will be repeated.
Stray(l) ==
  /\ reserved[l] > 0 /\ InFlight(l) = 0
  /\ transferred' = [transferred EXCEPT ![l] = @ + reserved[l]]
  /\ disowned' = [disowned EXCEPT ![l] = @ + reserved[l]]
  /\ UNCHANGED <<available, reserved, settled>>

Settle(l) ==
  /\ reserved[l] > 0 /\ InFlight(l) = reserved[l]
  /\ settled' = [settled EXCEPT ![l] = @ + reserved[l]]
  /\ reserved' = [reserved EXCEPT ![l] = 0]
  /\ UNCHANGED <<available, transferred, disowned>>

\* Nobody asks whether the transfer happened.
Refund(l) ==
  /\ reserved[l] > 0 /\ InFlight(l) \in {0, reserved[l]}
  /\ available' = [available EXCEPT ![l] = @ + reserved[l]]
  /\ reserved' = [reserved EXCEPT ![l] = 0]
  /\ disowned' = [disowned EXCEPT ![l] = @ + InFlight(l)]
  /\ UNCHANGED <<settled, transferred>>

Next ==
  \/ \E reward \in Rewards : Earn(reward)
  \/ \E l \in Logins :
       Reserve(l) \/ Transfer(l) \/ Stray(l) \/ Settle(l) \/ Refund(l)

Spec == Init /\ [][Next]_vars
=============================================================================
