-------------------------- MODULE Settlement_proofs --------------------------
(***************************************************************************)
(* What the settlement algorithm guarantees for every uint256 width.       *)
(***************************************************************************)
EXTENDS Settlement, TLAPS

LEMMA WrapInRange == ASSUME NEW x \in Uint PROVE Wrap(x) = x
BY MaxIsNat, SMT DEF Wrap, Uint

LEMMA WrapOver ==
  ASSUME NEW a \in Uint, NEW b \in Uint, a + b > MAX_SAFE_UINT256
  PROVE  Wrap(a + b) = a + b - (MAX_SAFE_UINT256 + 1)
BY MaxIsNat, SMT DEF Wrap, Uint

LEMMA WrapUnder ==
  ASSUME NEW a \in Uint, NEW b \in Uint, a < b
  PROVE  Wrap(a - b) = a - b + (MAX_SAFE_UINT256 + 1)
BY MaxIsNat, SMT DEF Wrap, Uint

LEMMA FailsafeAdditionSaturates ==
  ASSUME NEW a \in Uint, NEW b \in Uint
  PROVE  failsafe_addition(a, b) = min(a + b, MAX_SAFE_UINT256)
<1>1. CASE a + b <= MAX_SAFE_UINT256
  BY <1>1, MaxIsNat, WrapInRange DEF failsafe_addition, min, Uint
<1>2. CASE a + b > MAX_SAFE_UINT256
  BY <1>2, MaxIsNat, WrapOver DEF failsafe_addition, min, Uint
<1>. QED BY <1>1, <1>2, MaxIsNat DEF Uint

LEMMA FailsafeSubtractParts ==
  ASSUME NEW a \in Uint, NEW b \in Uint
  PROVE  /\ failsafe_subtract(a, b)[1] = a - min(a, b)
         /\ failsafe_subtract(a, b)[2] = min(a, b)
BY MaxIsNat DEF failsafe_subtract, min, Uint

(* Accounts of the two participants, and the amounts they settle with. *)
Settling(p1, t1, l1, p2, t2, l2) ==
  /\ p1.deposit \in Uint /\ p1.withdrawn_amount \in Uint
  /\ p2.deposit \in Uint /\ p2.withdrawn_amount \in Uint
  /\ t1 \in Uint /\ l1 \in Uint /\ t2 \in Uint /\ l2 \in Uint
  /\ availableDepositComputable(p1, p2)

THEOREM SettlementMatchesReference ==
  ASSUME NEW p1, NEW t1, NEW l1, NEW p2, NEW t2, NEW l2,
         Settling(p1, t1, l1, p2, t2, l2), transfersOrdered(t1, l1, t2, l2)
  PROVE  getSettleTransferAmounts(p1, t1, l1, p2, t2, l2)
         = get_settlement_amounts(p1, t1, l1, p2, t2, l2)
<1> DEFINE d1 == p1.deposit  w1 == p1.withdrawn_amount
           d2 == p2.deposit  w2 == p2.withdrawn_amount
           tad == d1 + d2 - w1 - w2
           m1 == min(t1 + l1, MAX_SAFE_UINT256)
           m2 == min(t2 + l2, MAX_SAFE_UINT256)
           r1 == min(atLeast(d1 + m2 - m1 - w1, 0), tad)
<1> USE MaxIsNat DEF Uint
<1>1. /\ d1 \in Uint /\ w1 \in Uint /\ d2 \in Uint /\ w2 \in Uint
      /\ t1 \in Uint /\ l1 \in Uint /\ t2 \in Uint /\ l2 \in Uint
      /\ d1 + d2 \in Uint /\ tad \in Uint
  BY DEF Settling, availableDepositComputable, getChannelAvailableDeposit
<1>2. /\ failsafe_addition(t1, l1) = m1 /\ failsafe_addition(t2, l2) = m2
      /\ m1 \in Uint /\ m2 \in Uint /\ m2 - m1 \in Uint
  BY <1>1, FailsafeAdditionSaturates DEF min, transfersOrdered
<1>3. min(getMaxPossibleReceivableAmount(d1, w1, t1, l1, t2, l2), tad) = r1
  <2>1. failsafe_addition(m2 - m1, d1) = min(m2 - m1 + d1, MAX_SAFE_UINT256)
    BY <1>1, <1>2, FailsafeAdditionSaturates
  <2>. HIDE DEF m1, m2
  <2>2. QED
    BY <1>1, <1>2, <2>1
    DEF getMaxPossibleReceivableAmount, failsafe_subtract, min, atLeast
<1>4. r1 \in Uint /\ tad - r1 \in Uint
  BY <1>1, <1>2 DEF min, atLeast
<1>. HIDE DEF r1
<1>5. getChannelAvailableDeposit(p1, p2) = tad
  BY DEF getChannelAvailableDeposit
<1>6. /\ failsafe_subtract(r1, l2)[1] = r1 - min(r1, l2)
      /\ failsafe_subtract(r1, l2)[2] = min(r1, l2)
      /\ failsafe_subtract(tad - r1, l1)[1] = tad - r1 - min(tad - r1, l1)
      /\ failsafe_subtract(tad - r1, l1)[2] = min(tad - r1, l1)
  BY <1>1, <1>4, FailsafeSubtractParts
<1>7. min(r1, l2) = min(l2, r1) /\ min(tad - r1, l1) = min(l1, tad - r1)
  BY <1>1, <1>4 DEF min
<1>. DEFINE mirrored ==
       [S1 |-> r1 - min(l2, r1), S2 |-> tad - r1 - min(l1, tad - r1),
        SL1 |-> min(l1, tad - r1), SL2 |-> min(l2, r1)]
<1>8. getSettleTransferAmounts(p1, t1, l1, p2, t2, l2) = mirrored
  <2>. HIDE DEF tad
  <2>. QED BY <1>3, <1>5, <1>6, <1>7 DEF getSettleTransferAmounts, boundedBy
<1>9. get_settlement_amounts(p1, t1, l1, p2, t2, l2) = mirrored
  BY DEF get_settlement_amounts, r1
<1>. QED BY <1>8, <1>9

-----------------------------------------------------------------------------
(***************************************************************************)
(* From here on the reference is enough: it has no saturating arithmetic.  *)
(***************************************************************************)
LEMMA ReferenceAmounts ==
  ASSUME NEW p1, NEW t1, NEW l1, NEW p2, NEW t2, NEW l2,
         Settling(p1, t1, l1, p2, t2, l2),
         NEW a, a = get_settlement_amounts(p1, t1, l1, p2, t2, l2)
  PROVE  LET tad == getChannelAvailableDeposit(p1, p2)
         IN  /\ a.S1 \in 0 .. tad /\ a.S2 \in 0 .. tad
             /\ a.SL1 \in 0 .. l1 /\ a.SL2 \in 0 .. l2
             /\ a.S1 + a.S2 + a.SL1 + a.SL2 = tad
<1> DEFINE d1 == p1.deposit  w1 == p1.withdrawn_amount
           d2 == p2.deposit  w2 == p2.withdrawn_amount
           tad == d1 + d2 - w1 - w2
           m1 == min(t1 + l1, MAX_SAFE_UINT256)
           m2 == min(t2 + l2, MAX_SAFE_UINT256)
           r1 == min(atLeast(d1 + m2 - m1 - w1, 0), tad)
<1> USE MaxIsNat DEF Uint
<1>1. /\ d1 \in Uint /\ w1 \in Uint /\ d2 \in Uint /\ w2 \in Uint
      /\ t1 \in Uint /\ l1 \in Uint /\ t2 \in Uint /\ l2 \in Uint
      /\ tad \in Uint
  BY DEF Settling, availableDepositComputable, getChannelAvailableDeposit
<1>2. r1 \in 0 .. tad
  BY <1>1 DEF min, atLeast
<1>3. /\ a.S1 = r1 - min(l2, r1) /\ a.S2 = tad - r1 - min(l1, tad - r1)
      /\ a.SL1 = min(l1, tad - r1) /\ a.SL2 = min(l2, r1)
  BY DEF get_settlement_amounts
<1>. HIDE DEF r1
<1>4. getChannelAvailableDeposit(p1, p2) = tad
  BY DEF getChannelAvailableDeposit
<1>. QED BY <1>1, <1>2, <1>3, <1>4 DEF min
=============================================================================
