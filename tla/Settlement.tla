----------------------------- MODULE Settlement -----------------------------
(***************************************************************************)
(* The settlement algorithm of TokenNetwork: what each participant of a    *)
(* closed channel is paid by settleChannel and how much stays locked for   *)
(* unlock.  Pure functions of the two participants' on-chain accounts      *)
(* (deposit, withdrawn_amount) and of the balance data they settle with    *)
(* (transferred, locked).                                                  *)
(***************************************************************************)
EXTENDS Utils

(***************************************************************************)
(* TAD, the total available deposit.  The code adds and subtracts with     *)
(* checked arithmetic, so it reverts unless availableDepositComputable.    *)
(***************************************************************************)
getChannelAvailableDeposit(p1, p2) ==
  p1.deposit + p2.deposit - p1.withdrawn_amount - p2.withdrawn_amount

availableDepositComputable(p1, p2) ==
  /\ p1.deposit + p2.deposit \in Uint
  /\ p1.deposit + p2.deposit - p1.withdrawn_amount \in Uint
  /\ getChannelAvailableDeposit(p1, p2) \in Uint

\* settleChannel must be called with participant 1 the one that sent less.
transfersOrdered(t1, l1, t2, l2) ==
  failsafe_addition(t2, l2) >= failsafe_addition(t1, l1)

getMaxReceivableIgnoringWithdrawsMutant(d1, w1, t1, l1, t2, l2) ==
  failsafe_addition(failsafe_addition(t2, l2) - failsafe_addition(t1, l1), d1)

getMaxPossibleReceivableAmount(d1, w1, t1, l1, t2, l2) ==
  LET net_max_received == failsafe_addition(t2, l2) - failsafe_addition(t1, l1)
      max_amount       == failsafe_addition(net_max_received, d1)
  IN  failsafe_subtract(max_amount, w1)[1]

boundedByDepositMutant(amount, tad) == amount

\* "In order to not send tokens from other channels."
boundedBy(amount, tad) == min(amount, tad)

(***************************************************************************)
(* The four amounts of settleChannel: S1 and S2 are paid at once, SL1 (out *)
(* of what 1 locked for 2) and SL2 stay in the contract for unlock.        *)
(***************************************************************************)
getSettleTransferAmounts(p1, t1, l1, p2, t2, l2) ==
  LET tad   == getChannelAvailableDeposit(p1, p2)
      rmax1 == boundedBy(getMaxPossibleReceivableAmount(
                 p1.deposit, p1.withdrawn_amount, t1, l1, t2, l2), tad)
      rmax2 == tad - rmax1
      out1  == failsafe_subtract(rmax1, l2)
      out2  == failsafe_subtract(rmax2, l1)
  IN  [S1 |-> out1[1], S2 |-> out2[1], SL1 |-> out2[2], SL2 |-> out1[2]]

-----------------------------------------------------------------------------
(***************************************************************************)
(* The project's own model of the algorithm (tests/utils/channel.py), over *)
(* unbounded integers and for participants in either order.                *)
(***************************************************************************)
atLeast(x, low) == IF x < low THEN low ELSE x

get_settlement_amounts(p1, t1, l1, p2, t2, l2) ==
  LET tad     == p1.deposit + p2.deposit - p1.withdrawn_amount - p2.withdrawn_amount
      maxt1   == min(t1 + l1, MAX_SAFE_UINT256)
      maxt2   == min(t2 + l2, MAX_SAFE_UINT256)
      rmax1   == min(atLeast(p1.deposit + maxt2 - maxt1 - p1.withdrawn_amount, 0), tad)
      rmax2   == tad - rmax1
      locked2 == min(l2, rmax1)
      locked1 == min(l1, rmax2)
  IN  [S1 |-> rmax1 - locked2, S2 |-> rmax2 - locked1, SL1 |-> locked1, SL2 |-> locked2]

(***************************************************************************)
(* What a participant must own once the channel is settled and every lock  *)
(* is unlocked: B1 = D1 - W1 + T2 - T1 + Lc2 - Lc1, where c1 and c2 are    *)
(* the locked amounts whose secrets were revealed in time.                 *)
(***************************************************************************)
get_expected_after_settlement_unlock_amounts(p1, t1, c1, p2, t2, c2) ==
  p1.deposit - p1.withdrawn_amount + t2 - t1 + c2 - c1

\* What participant 1 can still spend after what it transferred and locked.
get_participant_available_balance(p1, t1, l1, t2) ==
  p1.deposit + t2 - p1.withdrawn_amount - t1 - l1

(***************************************************************************)
(* Two latest balance proofs the Raiden client would have signed.  (The    *)
(* tests also ask that locked <= available, which nothing below needs.)    *)
(***************************************************************************)
are_balance_proofs_valid(p1, t1, l1, p2, t2, l2) ==
  LET tad == getChannelAvailableDeposit(p1, p2)
  IN  /\ t1 + l1 \in Uint /\ t2 + l2 \in Uint
      /\ get_participant_available_balance(p1, t1, l1, t2) \in 0 .. tad
      /\ get_participant_available_balance(p2, t2, l2, t1) \in 0 .. tad
      /\ tad \in Uint
=============================================================================
