--------------------------- MODULE RewardContract ---------------------------
(***************************************************************************)
(* What the unlocker promises the miners of a round, whatever fails in     *)
(* between: a block the pool found is settled at most once, after it was   *)
(* immature; it is paid, which gives every miner exactly its share and     *)
(* happens only when the chain will not give the block up any more, or it  *)
(* is lost, which gives nothing.  Meanwhile the share may be promised, and *)
(* settling the block ends the promise.                                    *)
(***************************************************************************)
EXTENDS Integers

CONSTANTS Blocks, Logins, Share

VARIABLES
  stage,      \* stage[b]: "none", "found", "immature", "paid" or "lost"
  promised,   \* promised[b]: what is promised to the miners of b
  earned,     \* earned[l]: total paid to l
  kept        \* blocks the chain will not give up any more

books == <<stage, promised, earned>>
vars  == <<books, kept>>

Nothing == [l \in Logins |-> 0]

Init ==
  /\ stage = [b \in Blocks |-> "none"]
  /\ promised = [b \in Blocks |-> Nothing]
  /\ earned = Nothing
  /\ kept = {}

Find(b) ==
  /\ stage[b] = "none"
  /\ stage' = [stage EXCEPT ![b] = "found"]
  /\ UNCHANGED <<promised, earned>>

\* Blocks that the chain seems to have lost become immature without a promise.
Doubt(S) ==
  /\ \A b \in S : stage[b] = "found"
  /\ stage' = [b \in Blocks |-> IF b \in S THEN "immature" ELSE stage[b]]
  /\ UNCHANGED <<promised, earned>>

Promise(b) ==
  /\ stage[b] = "found"
  /\ stage' = [stage EXCEPT ![b] = "immature"]
  /\ promised' = [promised EXCEPT ![b] = Share[b]]
  /\ UNCHANGED earned

Pay(b) ==
  /\ stage[b] = "immature" /\ b \in kept
  /\ stage' = [stage EXCEPT ![b] = "paid"]
  /\ promised' = [promised EXCEPT ![b] = Nothing]
  /\ earned' = [l \in Logins |-> earned[l] + Share[b][l]]

Lose(b) ==
  /\ stage[b] = "immature"
  /\ stage' = [stage EXCEPT ![b] = "lost"]
  /\ promised' = [promised EXCEPT ![b] = Nothing]
  /\ UNCHANGED earned

\* The chain goes on, whatever the unlocker does.
ChainGrows == kept' \in SUBSET Blocks /\ kept \subseteq kept'

\* All but the payments.
Unpaid ==
  \/ \E b \in Blocks : Find(b) \/ Promise(b) \/ Lose(b)
  \/ \E S \in SUBSET Blocks : Doubt(S)
  \/ UNCHANGED books

Next == ChainGrows /\ (Unpaid \/ \E b \in Blocks : Pay(b))

Spec == Init /\ [][Next]_vars
=============================================================================
