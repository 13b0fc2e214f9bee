-------------------------- MODULE SettlementCases --------------------------
(***************************************************************************)
(* One settlement, for every input: the participants' accounts and balance *)
(* data are arbitrary (any account whose available deposit the contract    *)
(* can compute), and settle computes the amounts from them once.           *)
(***************************************************************************)
EXTENDS Settlement

VARIABLES
  p1, p2,           \* the accounts: [deposit, withdrawn_amount]
  t1, l1, t2, l2,   \* transferred and locked amounts settled with
  amounts           \* what getSettleTransferAmounts returned, or NotSettled

vars == <<p1, p2, t1, l1, t2, l2, amounts>>

Accounts   == [deposit : Uint, withdrawn_amount : Uint]
NotSettled == [settled |-> FALSE]

Init ==
  /\ p1 \in Accounts /\ p2 \in Accounts
  /\ t1 \in Uint /\ l1 \in Uint /\ t2 \in Uint /\ l2 \in Uint
  /\ availableDepositComputable(p1, p2)
  /\ amounts = NotSettled

settle ==
  /\ amounts = NotSettled
  /\ transfersOrdered(t1, l1, t2, l2)
  /\ amounts' = getSettleTransferAmounts(p1, t1, l1, p2, t2, l2)
  /\ UNCHANGED <<p1, p2, t1, l1, t2, l2>>

Next == settle

Spec == Init /\ [][Next]_vars

Settled == amounts # NotSettled

TAD == getChannelAvailableDeposit(p1, p2)

-----------------------------------------------------------------------------
(***************************************************************************)
(* unlock pays out a locked amount SL: the part of it whose secrets were   *)
(* revealed (at most SL) to the receiver, the rest back to the sender.     *)
(* So this is what participant 1 owns once both locked amounts are         *)
(* unlocked, when c1 of l1 and c2 of l2 are claimable.                     *)
(***************************************************************************)
finalAmount1(c1, c2) ==
  amounts.S1 + min(c2, amounts.SL2) + (amounts.SL1 - min(c1, amounts.SL1))

finalAmount2(c1, c2) ==
  amounts.S2 + min(c1, amounts.SL1) + (amounts.SL2 - min(c2, amounts.SL2))

\* The asserts that end getSettleTransferAmounts, for any input at all: the
\* four amounts are amounts, share out exactly the available deposit, and no
\* more is locked than the balance data asked for.
AmountsConserved ==
  Settled =>
    /\ amounts.S1 \in 0 .. TAD /\ amounts.S2 \in 0 .. TAD
    /\ amounts.SL1 \in 0 .. l1 /\ amounts.SL2 \in 0 .. l2
    /\ amounts.S1 + amounts.S2 + amounts.SL1 + amounts.SL2 = TAD

\* Saturating uint256 arithmetic computes the same amounts as the algorithm
\* the tests state over unbounded integers.
MatchesReference ==
  Settled => amounts = get_settlement_amounts(p1, t1, l1, p2, t2, l2)

\* "We can calculate either RmaxP1 and RmaxP2 first, order does not affect
\* result": when both argument orders pass the ordering check, the two calls
\* give every participant the same amounts.
OrderDoesNotAffectResult ==
  (Settled /\ transfersOrdered(t2, l2, t1, l1)) =>
    LET swapped == getSettleTransferAmounts(p2, t2, l2, p1, t1, l1)
    IN  amounts = [S1 |-> swapped.S2, S2 |-> swapped.S1,
                   SL1 |-> swapped.SL2, SL2 |-> swapped.SL1]

\* With the latest valid balance proofs of both, and whichever of the pending
\* locks turn out to be claimable, both end with exactly
\* B1 = D1 - W1 + T2 - T1 + Lc2 - Lc1 and B2 = TAD - B1.
ValidProofsSettleExactly ==
  (Settled /\ are_balance_proofs_valid(p1, t1, l1, p2, t2, l2)) =>
    \A c1 \in 0 .. l1, c2 \in 0 .. l2 :
      /\ finalAmount1(c1, c2)
           = get_expected_after_settlement_unlock_amounts(p1, t1, c1, p2, t2, c2)
      /\ finalAmount2(c1, c2)
           = get_expected_after_settlement_unlock_amounts(p2, t2, c2, p1, t1, c1)

(***************************************************************************)
(* Participant 1's data (t1, l1, of which c1 claimable) is older than its  *)
(* latest (new_t1, with new_c1 of its locks claimable): a lock that was    *)
(* claimable is still pending, or has been added to the transferred        *)
(* amount.  Participant 2's data is its latest.                            *)
(***************************************************************************)
olderData(c1, new_t1, new_c1) ==
  /\ t1 + l1 \in Uint /\ t2 + l2 \in Uint
  /\ new_t1 >= t1
  /\ new_t1 + new_c1 >= t1 + c1
  /\ get_participant_available_balance(p1, new_t1, new_c1, t2) >= 0
  /\ get_participant_available_balance(p2, t2, l2, new_t1) >= 0

\* The old lock still fits what participant 2 could have owned with it.
oldLockCovered(c1) ==
  /\ l1 <= TAD
  /\ c1 = l1 \/ p2.deposit + t1 >= p2.withdrawn_amount + t2 + l2

\* "The partner MUST receive at least the amount of tokens that he would
\* have received if the latest valid balance proofs are used": participant 1
\* is paid at least that when participant 2 settles with 1's older data,
\* provided the older lock is covered (oldLockCovered), which the contract
\* cannot see.
OldProofNeverCostsItsSender ==
  Settled =>
    \A c1 \in 0 .. l1, c2 \in 0 .. l2, new_t1 \in Uint, new_c1 \in Uint :
      (olderData(c1, new_t1, new_c1) /\ oldLockCovered(c1)) =>
        finalAmount1(c1, c2) >=
          get_expected_after_settlement_unlock_amounts(p1, new_t1, new_c1, p2, t2, c2)
=============================================================================
