---------------------------- MODULE Cases_proofs ----------------------------
(***************************************************************************)
(* The algorithms that keep no state of their own, for every input:        *)
(* SettlementCases for every uint256 width, Messages for every value of    *)
(* the fields, MonitoringWindowCases for every window.                     *)
(***************************************************************************)
EXTENDS SettlementCases, Messages, MonitoringWindowCases, Settlement_proofs,
        SequenceTheorems

(***************************************************************************)
(* Settlement.                                                             *)
(***************************************************************************)
\* The inductive invariant: amounts, once there, are what the contract's
\* function gives for the accounts and data of this case.
Inv ==
  /\ Settling(p1, t1, l1, p2, t2, l2)
  /\ Settled => /\ transfersOrdered(t1, l1, t2, l2)
                /\ amounts = getSettleTransferAmounts(p1, t1, l1, p2, t2, l2)

\* Every settled case was computed by the contract's function from inputs
\* that passed the ordering check.
THEOREM Invariance == Spec => []Inv
<1>1. Init => Inv
  BY DEF Init, Inv, Settled, Settling, Accounts
<1>2. Inv /\ [Next]_vars => Inv'
  <2> SUFFICES ASSUME Inv, [Next]_vars PROVE Inv'
    OBVIOUS
  <2>1. CASE settle
    BY <2>1 DEF settle, Inv, Settled, Settling
  <2>2. CASE UNCHANGED vars
    BY <2>2 DEF vars, Inv, Settled, Settling
  <2>. QED BY <2>1, <2>2 DEF Next
<1>. QED BY <1>1, <1>2, PTL DEF Spec

LEMMA InvMatchesReference == Inv => MatchesReference
BY SettlementMatchesReference DEF Inv, MatchesReference, Settled

LEMMA InvConserved == Inv => AmountsConserved
<1> SUFFICES ASSUME Inv, Settled PROVE AmountsConserved
  BY DEF AmountsConserved
<1>1. amounts = get_settlement_amounts(p1, t1, l1, p2, t2, l2)
  BY InvMatchesReference DEF MatchesReference
<1>. QED BY <1>1, ReferenceAmounts DEF AmountsConserved, Inv, TAD

\* The saturating settlement of the contract computes what the algorithm the
\* tests state over unbounded integers computes, for every uint256 width.
THEOREM ReferenceSafety == Spec => []MatchesReference
BY Invariance, InvMatchesReference, PTL

\* The asserts that end getSettleTransferAmounts hold for every input.
THEOREM ConservedSafety == Spec => []AmountsConserved
BY Invariance, InvConserved, PTL

LEMMA InvOrder == Inv => OrderDoesNotAffectResult
<1> SUFFICES ASSUME Inv, Settled, transfersOrdered(t2, l2, t1, l1)
    PROVE  OrderDoesNotAffectResult
  BY DEF OrderDoesNotAffectResult
<1> DEFINE d1 == p1.deposit  w1 == p1.withdrawn_amount
           d2 == p2.deposit  w2 == p2.withdrawn_amount
           tad == d1 + d2 - w1 - w2
           m1 == min(t1 + l1, MAX_SAFE_UINT256)
           m2 == min(t2 + l2, MAX_SAFE_UINT256)
           r1 == min(atLeast(d1 + m2 - m1 - w1, 0), tad)
           r2 == min(atLeast(d2 + m1 - m2 - w2, 0), tad)
<1> USE MaxIsNat DEF Uint
<1>1. /\ d1 \in Uint /\ w1 \in Uint /\ d2 \in Uint /\ w2 \in Uint
      /\ t1 \in Uint /\ l1 \in Uint /\ t2 \in Uint /\ l2 \in Uint
      /\ tad \in Uint /\ d1 + d2 \in Uint
  BY DEF Inv, Settling, availableDepositComputable, getChannelAvailableDeposit
<1>2. m1 \in Uint /\ m2 \in Uint /\ m1 = m2
  <2>1. failsafe_addition(t1, l1) = m1 /\ failsafe_addition(t2, l2) = m2
    BY <1>1, FailsafeAdditionSaturates
  <2>. QED BY <1>1, <2>1 DEF min, transfersOrdered, Inv
<1>3. tad - r1 = r2 /\ tad - r2 = r1
  <2>. HIDE DEF m1, m2
  <2>. QED BY <1>1, <1>2 DEF min, atLeast
<1>4. amounts = get_settlement_amounts(p1, t1, l1, p2, t2, l2)
  BY InvMatchesReference DEF MatchesReference
<1>5. getSettleTransferAmounts(p2, t2, l2, p1, t1, l1)
        = get_settlement_amounts(p2, t2, l2, p1, t1, l1)
  BY <1>1, SettlementMatchesReference
  DEF Inv, Settling, availableDepositComputable, getChannelAvailableDeposit
<1>6. amounts = [S1 |-> r1 - min(l2, r1), S2 |-> tad - r1 - min(l1, tad - r1),
                 SL1 |-> min(l1, tad - r1), SL2 |-> min(l2, r1)]
  BY <1>4 DEF get_settlement_amounts
<1>7. p2.deposit + p1.deposit - p2.withdrawn_amount - p1.withdrawn_amount = tad
  BY <1>1
<1>8. get_settlement_amounts(p2, t2, l2, p1, t1, l1)
        = [S1 |-> r2 - min(l1, r2), S2 |-> tad - r2 - min(l2, tad - r2),
           SL1 |-> min(l2, tad - r2), SL2 |-> min(l1, r2)]
  BY <1>7 DEF get_settlement_amounts
<1>. HIDE DEF r1, r2, tad
<1>. QED BY <1>3, <1>5, <1>6, <1>8 DEF OrderDoesNotAffectResult

\* The two argument orders of settleChannel agree whenever both are allowed.
THEOREM OrderSafety == Spec => []OrderDoesNotAffectResult
BY Invariance, InvOrder, PTL

-----------------------------------------------------------------------------
(***************************************************************************)
(* What the amounts are, once the record fields are named.                 *)
(***************************************************************************)
LEMMA SettledAmounts ==
  ASSUME Inv, Settled, t1 + l1 \in Uint, t2 + l2 \in Uint
  PROVE  LET d1 == p1.deposit  w1 == p1.withdrawn_amount
             d2 == p2.deposit  w2 == p2.withdrawn_amount
             r1 == min(atLeast(d1 + (t2 + l2) - (t1 + l1) - w1, 0), TAD)
         IN  /\ d1 \in Uint /\ w1 \in Uint /\ d2 \in Uint /\ w2 \in Uint
             /\ t1 \in Uint /\ l1 \in Uint /\ t2 \in Uint /\ l2 \in Uint
             /\ TAD = d1 + d2 - w1 - w2 /\ TAD \in Uint /\ r1 \in 0 .. TAD
             /\ amounts.SL2 = min(l2, r1) /\ amounts.SL1 = min(l1, TAD - r1)
             /\ amounts.S1 = r1 - min(l2, r1)
             /\ amounts.S2 = TAD - r1 - min(l1, TAD - r1)
<1> USE MaxIsNat DEF Uint
<1>1. /\ p1.deposit \in Uint /\ p1.withdrawn_amount \in Uint
      /\ p2.deposit \in Uint /\ p2.withdrawn_amount \in Uint
      /\ t1 \in Uint /\ l1 \in Uint /\ t2 \in Uint /\ l2 \in Uint
      /\ TAD \in Uint
  BY DEF Inv, Settling, availableDepositComputable, TAD
<1>2. TAD = p1.deposit + p2.deposit - p1.withdrawn_amount - p2.withdrawn_amount
  BY DEF TAD, getChannelAvailableDeposit
<1>3. min(t1 + l1, MAX_SAFE_UINT256) = t1 + l1
      /\ min(t2 + l2, MAX_SAFE_UINT256) = t2 + l2
  BY DEF min
<1>4. amounts = get_settlement_amounts(p1, t1, l1, p2, t2, l2)
  BY InvMatchesReference DEF MatchesReference
<1>. DEFINE r1 == min(atLeast(p1.deposit + (t2 + l2) - (t1 + l1)
                               - p1.withdrawn_amount, 0), TAD)
<1>5. r1 \in 0 .. TAD
  BY <1>1 DEF min, atLeast
<1>6. amounts = [S1 |-> r1 - min(l2, r1), S2 |-> TAD - r1 - min(l1, TAD - r1),
                 SL1 |-> min(l1, TAD - r1), SL2 |-> min(l2, r1)]
  BY <1>2, <1>3, <1>4 DEF get_settlement_amounts
<1>. HIDE DEF r1
<1>7. /\ amounts.SL2 = min(l2, r1) /\ amounts.SL1 = min(l1, TAD - r1)
      /\ amounts.S1 = r1 - min(l2, r1)
      /\ amounts.S2 = TAD - r1 - min(l1, TAD - r1)
  BY <1>6
<1>. QED BY <1>1, <1>2, <1>5, <1>7 DEF r1

LEMMA InvExact == Inv => ValidProofsSettleExactly
<1> SUFFICES ASSUME Inv, Settled,
                    are_balance_proofs_valid(p1, t1, l1, p2, t2, l2),
                    NEW c1 \in 0 .. l1, NEW c2 \in 0 .. l2
    PROVE  /\ finalAmount1(c1, c2)
               = get_expected_after_settlement_unlock_amounts(p1, t1, c1, p2, t2, c2)
           /\ finalAmount2(c1, c2)
               = get_expected_after_settlement_unlock_amounts(p2, t2, c2, p1, t1, c1)
  BY DEF ValidProofsSettleExactly
<1> DEFINE d1 == p1.deposit  w1 == p1.withdrawn_amount
           d2 == p2.deposit  w2 == p2.withdrawn_amount
           r1 == min(atLeast(d1 + (t2 + l2) - (t1 + l1) - w1, 0), TAD)
<1>1. /\ t1 + l1 \in Uint /\ t2 + l2 \in Uint
      /\ d1 + t2 - w1 - t1 - l1 >= 0 /\ d2 + t1 - w2 - t2 - l2 >= 0
  BY DEF are_balance_proofs_valid, get_participant_available_balance, Uint
<1>2. /\ d1 \in Uint /\ w1 \in Uint /\ d2 \in Uint /\ w2 \in Uint
      /\ t1 \in Uint /\ l1 \in Uint /\ t2 \in Uint /\ l2 \in Uint
      /\ TAD = d1 + d2 - w1 - w2 /\ TAD \in Uint /\ r1 \in 0 .. TAD
      /\ amounts.SL2 = min(l2, r1) /\ amounts.SL1 = min(l1, TAD - r1)
      /\ amounts.S1 = r1 - min(l2, r1)
      /\ amounts.S2 = TAD - r1 - min(l1, TAD - r1)
  BY <1>1, SettledAmounts
<1> USE MaxIsNat DEF Uint
<1>3. r1 = d1 + (t2 + l2) - (t1 + l1) - w1
  BY <1>1, <1>2 DEF min, atLeast
<1>. HIDE DEF r1
<1>4. /\ amounts.SL2 = l2 /\ amounts.SL1 = l1
      /\ amounts.S1 = r1 - l2 /\ amounts.S2 = TAD - r1 - l1
  BY <1>1, <1>2, <1>3 DEF min
<1>5. min(c1, l1) = c1 /\ min(c2, l2) = c2
  BY <1>2 DEF min
<1>. QED
  BY <1>2, <1>3, <1>4, <1>5
  DEF finalAmount1, finalAmount2, get_expected_after_settlement_unlock_amounts

\* Latest valid balance proofs always settle and unlock to exactly the
\* balances B1 and B2 that getSettleTransferAmounts is documented to reach.
THEOREM ExactSafety == Spec => []ValidProofsSettleExactly
BY Invariance, InvExact, PTL

LEMMA InvOldProof == Inv => OldProofNeverCostsItsSender
<1> SUFFICES ASSUME Inv, Settled, NEW c1 \in 0 .. l1, NEW c2 \in 0 .. l2,
                    NEW new_t1 \in Uint, NEW new_c1 \in Uint,
                    olderData(c1, new_t1, new_c1), oldLockCovered(c1)
    PROVE  finalAmount1(c1, c2) >=
             get_expected_after_settlement_unlock_amounts(p1, new_t1, new_c1, p2, t2, c2)
  BY DEF OldProofNeverCostsItsSender
<1> DEFINE d1 == p1.deposit  w1 == p1.withdrawn_amount
           d2 == p2.deposit  w2 == p2.withdrawn_amount
           x  == d1 + (t2 + l2) - (t1 + l1) - w1
           r1 == min(atLeast(x, 0), TAD)
<1>1. /\ t1 + l1 \in Uint /\ t2 + l2 \in Uint
      /\ new_t1 >= t1 /\ new_t1 + new_c1 >= t1 + c1
      /\ d1 + t2 - w1 - new_t1 - new_c1 >= 0
      /\ d2 + new_t1 - w2 - t2 - l2 >= 0
  BY DEF olderData, get_participant_available_balance, Uint
<1>2. l1 <= TAD /\ (c1 = l1 \/ d2 + t1 >= w2 + t2 + l2)
  BY DEF oldLockCovered
<1>3. /\ d1 \in Uint /\ w1 \in Uint /\ d2 \in Uint /\ w2 \in Uint
      /\ t1 \in Uint /\ l1 \in Uint /\ t2 \in Uint /\ l2 \in Uint
      /\ TAD = d1 + d2 - w1 - w2 /\ TAD \in Uint /\ r1 \in 0 .. TAD
      /\ amounts.SL2 = min(l2, r1) /\ amounts.SL1 = min(l1, TAD - r1)
      /\ amounts.S1 = r1 - min(l2, r1)
      /\ amounts.S2 = TAD - r1 - min(l1, TAD - r1)
  BY <1>1, SettledAmounts
<1> USE MaxIsNat DEF Uint
<1>4. finalAmount1(c1, c2) = r1 - min(l2, r1) + min(c2, min(l2, r1))
                               + (min(l1, TAD - r1) - min(c1, min(l1, TAD - r1)))
  BY <1>3 DEF finalAmount1
<1>5. get_expected_after_settlement_unlock_amounts(p1, new_t1, new_c1, p2, t2, c2)
        = d1 - w1 + t2 - new_t1 + c2 - new_c1
  BY DEF get_expected_after_settlement_unlock_amounts
<1>6. r1 = IF x < 0 THEN 0 ELSE IF x > TAD THEN TAD ELSE x
  BY <1>3 DEF min, atLeast
<1>. HIDE DEF r1, TAD
<1>7. r1 - min(l2, r1) + min(c2, min(l2, r1))
        + (min(l1, TAD - r1) - min(c1, min(l1, TAD - r1)))
      >= d1 - w1 + t2 - new_t1 + c2 - new_c1
  <2>1. CASE x < 0
    <3>1. r1 = 0 /\ min(l2, r1) = 0 /\ min(l1, TAD - r1) = l1
          /\ min(c2, 0) = 0 /\ min(c1, l1) = c1
      BY <1>2, <1>3, <1>6, <2>1 DEF min
    <3>. QED BY <1>1, <1>3, <2>1, <3>1
  <2>2. CASE x > TAD
    <3>1. r1 = TAD /\ l2 <= TAD
      BY <1>1, <1>3, <1>6, <2>2
    <3>2. min(l2, r1) = l2 /\ min(c2, l2) = c2 /\ min(l1, TAD - r1) = 0
          /\ min(c1, 0) = 0
      BY <1>3, <3>1 DEF min
    <3>3. TAD - l2 + c2 >= d1 - w1 + t2 - new_t1 + c2 - new_c1
      BY <1>1, <1>3
    <3>. QED BY <1>3, <3>1, <3>2, <3>3
  <2>3. CASE x \in 0 .. TAD
    <3> DEFINE from2 == r1 - min(l2, r1) + min(c2, min(l2, r1))
    <3>1. r1 = x
      BY <1>3, <1>6, <2>3
    <3>2. from2 \in Int /\ from2 >= r1 - l2 + c2
      <4>1. CASE l2 <= r1
        BY <1>3, <4>1 DEF min
      <4>2. CASE l2 > r1
        BY <1>3, <4>2 DEF min
      <4>. QED BY <1>3, <4>1, <4>2
    <3>. HIDE DEF from2
    <3>3. CASE l1 <= TAD - r1
      <4>1. min(l1, TAD - r1) = l1 /\ min(c1, l1) = c1
        BY <1>3, <3>1, <3>3 DEF min
      <4>2. from2 + (l1 - c1) >= d1 - w1 + t2 - new_t1 + c2 - new_c1
        BY <1>1, <1>3, <3>1, <3>2
      <4>. QED BY <4>1, <4>2 DEF from2
    <3>4. CASE l1 > TAD - r1
      <4>1. c1 = l1
        BY <1>2, <1>3, <3>1, <3>4
      <4>2. min(l1, TAD - r1) = TAD - r1 /\ min(c1, TAD - r1) = TAD - r1
        BY <1>3, <2>3, <3>1, <3>4, <4>1 DEF min
      <4>3. x - l2 + c2 >= d1 - w1 + t2 - new_t1 + c2 - new_c1
        BY <1>1, <1>3, <4>1
      <4>4. from2 >= d1 - w1 + t2 - new_t1 + c2 - new_c1
        BY <1>1, <1>3, <3>1, <3>2, <4>3
      <4>. QED BY <1>3, <3>1, <3>2, <4>2, <4>4 DEF from2
    <3>. QED BY <1>3, <3>1, <3>3, <3>4
  <2>. QED BY <1>3, <2>1, <2>2, <2>3
<1>. QED BY <1>4, <1>5, <1>7

\* Settling with older data of a participant never pays that participant
\* less than its latest data would, as long as the older lock is covered.
THEOREM OldProofSafety == Spec => []OldProofNeverCostsItsSender
BY Invariance, InvOldProof, PTL

-----------------------------------------------------------------------------
(***************************************************************************)
(* The signed messages.  What is packed is read from its end: a part has   *)
(* as many cells as every other of its type, so equal messages of one kind *)
(* are equal part by part (SameBalanceProof ... SameIOU); and no two kinds  *)
(* have the same length, which is hashed too (KindTold).                   *)
(***************************************************************************)
LEMMA ConcatSame ==
  ASSUME NEW S, NEW s \in Seq(S), NEW t \in Seq(S), NEW u \in Seq(S), NEW v \in Seq(S),
         Len(u) = Len(v), s \o u = t \o v
  PROVE  s = t /\ u = v
<1>1. /\ Len(s) \in Nat /\ Len(t) \in Nat /\ Len(u) \in Nat
      /\ Len(s) + Len(u) = Len(t) + Len(v)
  BY ConcatProperties, LenProperties
<1>2. Len(s) = Len(t)
  BY <1>1
<1>3. \A i \in 1 .. Len(s) + Len(u) :
        /\ (s \o u)[i] = IF i <= Len(s) THEN s[i] ELSE u[i - Len(s)]
        /\ (t \o v)[i] = IF i <= Len(s) THEN t[i] ELSE v[i - Len(s)]
  BY <1>2, ConcatProperties
<1>4. ASSUME NEW i \in 1 .. Len(s) PROVE s[i] = t[i]
  BY <1>1, <1>3
<1>5. ASSUME NEW i \in 1 .. Len(u) PROVE u[i] = v[i]
  <2>1. /\ Len(s) + i \in 1 .. Len(s) + Len(u) /\ ~(Len(s) + i <= Len(s))
        /\ (Len(s) + i) - Len(s) = i
    BY <1>1
  <2>. QED BY <1>3, <2>1
<1>. QED BY <1>2, <1>4, <1>5, SeqEqual

Packed == [length : Nat, cells : Seq(Nat)]

LEMMA PartsPacked ==
  ASSUME NEW x \in Nat PROVE address(x) \in Packed /\ word(x) \in Packed /\ signature(x) \in Packed
BY DEF address, word, signature, Packed

LEMMA ConcatPacked ==
  ASSUME NEW p \in Packed, NEW q \in Packed PROVE p ++ q \in Packed
BY DEF Packed, ++

\* Parts of the same length can be told apart, whatever precedes them.
LEMMA SameEnd ==
  ASSUME NEW p \in Packed, NEW q \in Packed, NEW e \in Packed, NEW f \in Packed,
         Len(e.cells) = Len(f.cells), (p ++ e).cells = (q ++ f).cells
  PROVE  p.cells = q.cells /\ e.cells = f.cells
<1> DEFINE a == p.cells
           b == q.cells
           c == e.cells
           d == f.cells
<1>1. /\ a \in Seq(Nat) /\ b \in Seq(Nat) /\ c \in Seq(Nat) /\ d \in Seq(Nat)
      /\ Len(c) = Len(d) /\ a \o c = b \o d
  BY DEF Packed, ++
<1>. HIDE DEF a, b, c, d
<1>2. a = b /\ c = d
  BY <1>1, ConcatSame
<1>. QED BY <1>2 DEF a, b, c, d

LEMMA SamePart ==
  ASSUME NEW p \in Packed, NEW q \in Packed, NEW x \in Nat, NEW y \in Nat
  PROVE  /\ (p ++ address(x)).cells = (q ++ address(y)).cells => p.cells = q.cells /\ x = y
         /\ (p ++ word(x)).cells = (q ++ word(y)).cells => p.cells = q.cells /\ x = y
         /\ (p ++ signature(x)).cells = (q ++ signature(y)).cells => p.cells = q.cells /\ x = y
<1>1. /\ Len(address(x).cells) = Len(address(y).cells)
      /\ Len(word(x).cells) = Len(word(y).cells)
      /\ Len(signature(x).cells) = Len(signature(y).cells)
  BY DEF address, word, signature
<1>2. /\ address(x).cells = address(y).cells => x = y
      /\ word(x).cells = word(y).cells => x = y
      /\ signature(x).cells = signature(y).cells => x = y
  BY DEF address, word, signature
<1>3. /\ address(x) \in Packed /\ word(x) \in Packed /\ signature(x) \in Packed
      /\ address(y) \in Packed /\ word(y) \in Packed /\ signature(y) \in Packed
  BY PartsPacked
<1>. QED BY <1>1, <1>2, <1>3, SameEnd

LEMMA AddressAfter ==
  ASSUME NEW p \in Packed, NEW q \in Packed, NEW x \in Nat, NEW y \in Nat
  PROVE  /\ p ++ address(x) \in Packed /\ q ++ address(y) \in Packed
         /\ (p ++ address(x)).cells = (q ++ address(y)).cells => p.cells = q.cells /\ x = y
<1>1. p ++ address(x) \in Packed /\ q ++ address(y) \in Packed
  BY PartsPacked, ConcatPacked
<1>. QED BY <1>1, SamePart

LEMMA WordAfter ==
  ASSUME NEW p \in Packed, NEW q \in Packed, NEW x \in Nat, NEW y \in Nat
  PROVE  /\ p ++ word(x) \in Packed /\ q ++ word(y) \in Packed
         /\ (p ++ word(x)).cells = (q ++ word(y)).cells => p.cells = q.cells /\ x = y
<1>1. p ++ word(x) \in Packed /\ q ++ word(y) \in Packed
  BY PartsPacked, ConcatPacked
<1>. QED BY <1>1, SamePart

LEMMA SignatureAfter ==
  ASSUME NEW p \in Packed, NEW q \in Packed, NEW x \in Nat, NEW y \in Nat
  PROVE  /\ p ++ signature(x) \in Packed /\ q ++ signature(y) \in Packed
         /\ (p ++ signature(x)).cells = (q ++ signature(y)).cells => p.cells = q.cells /\ x = y
<1>1. p ++ signature(x) \in Packed /\ q ++ signature(y) \in Packed
  BY PartsPacked, ConcatPacked
<1>. QED BY <1>1, SamePart

LEMMA SameHashed ==
  ASSUME NEW p \in Packed, NEW q \in Packed, NEW m \in Nat, NEW n \in Nat
  PROVE  /\ hashed(m, p) = hashed(n, q) => m = n
         /\ hashed(m, p) = hashed(m, q) => p.cells = q.cells
<1>1. /\ p.cells \in Seq(Nat) /\ q.cells \in Seq(Nat)
      /\ <<m>> \in Seq(Nat) /\ <<n>> \in Seq(Nat)
  BY DEF Packed
<1>2. /\ Len(<<m>>) = 1 /\ <<m>>[1] = m /\ Len(<<n>>) = 1 /\ <<n>>[1] = n
  OBVIOUS
<1>3. /\ (<<m>> \o p.cells)[1] = m /\ (<<n>> \o q.cells)[1] = n
  BY <1>1, <1>2, ConcatProperties, LenProperties
<1>4. <<m>> \o p.cells = <<m>> \o q.cells => p.cells = q.cells
  BY <1>1, ConcatSimplifications
<1>. QED BY <1>3, <1>4 DEF hashed

header(r, type) == address(r.contract) ++ word(r.chain) ++ word(type)

LEMMA SameHeader ==
  ASSUME NEW m, NEW n, NEW s \in Nat, NEW t \in Nat,
         m.contract \in Nat, m.chain \in Nat, n.contract \in Nat, n.chain \in Nat
  PROVE  /\ header(m, s) \in Packed
         /\ header(m, s).cells = header(n, t).cells
              => m.contract = n.contract /\ m.chain = n.chain /\ s = t
<1> DEFINE am == address(m.contract)
           an == address(n.contract)
           bm == am ++ word(m.chain)
           bn == an ++ word(n.chain)
<1>1. am \in Packed /\ an \in Packed
  BY PartsPacked
<1>2. /\ am.cells = an.cells => m.contract = n.contract
      /\ header(m, s) = bm ++ word(s) /\ header(n, t) = bn ++ word(t)
  BY DEF address, header
<1>. HIDE DEF am, an
<1>3. /\ bm \in Packed /\ bn \in Packed
      /\ (bm.cells = bn.cells => am.cells = an.cells /\ m.chain = n.chain)
  BY <1>1, WordAfter
<1>. HIDE DEF bm, bn
<1>4. /\ bm ++ word(s) \in Packed
      /\ ((bm ++ word(s)).cells = (bn ++ word(t)).cells
           => bm.cells = bn.cells /\ s = t)
  BY <1>3, WordAfter
<1>. QED BY <1>2, <1>3, <1>4

LEMMA SameBalanceProof ==
  ASSUME NEW m \in BalanceProofs, NEW n \in BalanceProofs
  PROVE  /\ pack_balance_proof(m, BALANCE_PROOF) \in Packed
         /\ pack_balance_proof(m, BALANCE_PROOF).length = 212
         /\ pack_balance_proof(m, BALANCE_PROOF).cells = pack_balance_proof(n, BALANCE_PROOF).cells => m = n
<1>1. /\ m.contract \in Nat /\ m.chain \in Nat /\ m.id \in Nat
      /\ m.balance_hash \in Nat /\ m.nonce \in Nat /\ m.additional_hash \in Nat
      /\ BALANCE_PROOF \in Nat
      /\ n.contract \in Nat /\ n.chain \in Nat /\ n.id \in Nat
      /\ n.balance_hash \in Nat /\ n.nonce \in Nat /\ n.additional_hash \in Nat
      /\ BALANCE_PROOF \in Nat
  BY ValuesAssumption DEF BalanceProofs, BALANCE_PROOF
<1> DEFINE am == header(m, BALANCE_PROOF)
           an == header(n, BALANCE_PROOF)
           bm == am ++ word(m.id)
           bn == an ++ word(n.id)
           cm == bm ++ word(m.balance_hash)
           cn == bn ++ word(n.balance_hash)
           dm == cm ++ word(m.nonce)
           dn == cn ++ word(n.nonce)
<1>2. /\ pack_balance_proof(m, BALANCE_PROOF) = dm ++ word(m.additional_hash)
      /\ pack_balance_proof(n, BALANCE_PROOF) = dn ++ word(n.additional_hash)
  BY DEF header, pack_balance_proof
<1>3. pack_balance_proof(m, BALANCE_PROOF).length = 212
  BY DEF pack_balance_proof, address, word, signature, ++
<1>4. /\ am \in Packed /\ an \in Packed
      /\ (am.cells = an.cells => m.contract = n.contract /\ m.chain = n.chain)
  BY <1>1, SameHeader
<1>. HIDE DEF am, an
<1>5. /\ bm \in Packed /\ bn \in Packed
      /\ (bm.cells = bn.cells => am.cells = an.cells /\ m.id = n.id)
  <2>1. m.id \in Nat /\ n.id \in Nat
    BY <1>1
  <2>. QED BY <2>1, <1>4, WordAfter
<1>. HIDE DEF bm, bn
<1>6. /\ cm \in Packed /\ cn \in Packed
      /\ (cm.cells = cn.cells => bm.cells = bn.cells /\ m.balance_hash = n.balance_hash)
  <2>1. m.balance_hash \in Nat /\ n.balance_hash \in Nat
    BY <1>1
  <2>. QED BY <2>1, <1>5, WordAfter
<1>. HIDE DEF cm, cn
<1>7. /\ dm \in Packed /\ dn \in Packed
      /\ (dm.cells = dn.cells => cm.cells = cn.cells /\ m.nonce = n.nonce)
  <2>1. m.nonce \in Nat /\ n.nonce \in Nat
    BY <1>1
  <2>. QED BY <2>1, <1>6, WordAfter
<1>. HIDE DEF dm, dn
<1>8. /\ dm ++ word(m.additional_hash) \in Packed
      /\ ((dm ++ word(m.additional_hash)).cells = (dn ++ word(n.additional_hash)).cells
           => dm.cells = dn.cells /\ m.additional_hash = n.additional_hash)
  <2>1. m.additional_hash \in Nat /\ n.additional_hash \in Nat
    BY <1>1
  <2>. QED BY <2>1, <1>7, WordAfter
<1>9. ASSUME pack_balance_proof(m, BALANCE_PROOF).cells = pack_balance_proof(n, BALANCE_PROOF).cells PROVE m = n
  <2>1. /\ m.contract = n.contract /\ m.chain = n.chain /\ m.id = n.id
        /\ m.balance_hash = n.balance_hash /\ m.nonce = n.nonce /\ m.additional_hash = n.additional_hash
    BY <1>2, <1>4, <1>5, <1>6, <1>7, <1>8, <1>9
  <2>. QED BY <2>1 DEF BalanceProofs
<1>. QED BY <1>2, <1>3, <1>8, <1>9

LEMMA SameCounterSignature ==
  ASSUME NEW m \in CounterSignatures, NEW n \in CounterSignatures
  PROVE  /\ pack_balance_proof_message(m, m.msg_type) \in Packed
         /\ pack_balance_proof_message(m, m.msg_type).length = 277
         /\ pack_balance_proof_message(m, m.msg_type).cells = pack_balance_proof_message(n, n.msg_type).cells => m = n
<1>1. /\ m.contract \in Nat /\ m.chain \in Nat /\ m.id \in Nat
      /\ m.balance_hash \in Nat /\ m.nonce \in Nat /\ m.additional_hash \in Nat
      /\ m.closing_signature \in Nat
      /\ n.contract \in Nat /\ n.chain \in Nat /\ n.id \in Nat
      /\ n.balance_hash \in Nat /\ n.nonce \in Nat /\ n.additional_hash \in Nat
      /\ n.closing_signature \in Nat
  BY ValuesAssumption DEF CounterSignatures
<1>0. m.msg_type \in Nat /\ n.msg_type \in Nat
  <2>1. m.msg_type \in {1, 2} /\ n.msg_type \in {1, 2}
    BY DEF CounterSignatures, BALANCE_PROOF, BALANCE_PROOF_UPDATE
  <2>. QED BY <2>1
<1> DEFINE am == header(m, m.msg_type)
           an == header(n, n.msg_type)
           bm == am ++ word(m.id)
           bn == an ++ word(n.id)
           cm == bm ++ word(m.balance_hash)
           cn == bn ++ word(n.balance_hash)
           dm == cm ++ word(m.nonce)
           dn == cn ++ word(n.nonce)
           em == dm ++ word(m.additional_hash)
           en == dn ++ word(n.additional_hash)
<1>2. /\ pack_balance_proof_message(m, m.msg_type) = em ++ signature(m.closing_signature)
      /\ pack_balance_proof_message(n, n.msg_type) = en ++ signature(n.closing_signature)
  BY DEF header, pack_balance_proof_message, pack_balance_proof
<1>3. pack_balance_proof_message(m, m.msg_type).length = 277
  BY DEF pack_balance_proof_message, pack_balance_proof, address, word, signature, ++
<1>4. /\ am \in Packed /\ an \in Packed
      /\ (am.cells = an.cells => m.contract = n.contract /\ m.chain = n.chain /\ m.msg_type = n.msg_type)
  BY <1>0, <1>1, SameHeader
<1>. HIDE DEF am, an
<1>5. /\ bm \in Packed /\ bn \in Packed
      /\ (bm.cells = bn.cells => am.cells = an.cells /\ m.id = n.id)
  <2>1. m.id \in Nat /\ n.id \in Nat
    BY <1>1
  <2>. QED BY <2>1, <1>4, WordAfter
<1>. HIDE DEF bm, bn
<1>6. /\ cm \in Packed /\ cn \in Packed
      /\ (cm.cells = cn.cells => bm.cells = bn.cells /\ m.balance_hash = n.balance_hash)
  <2>1. m.balance_hash \in Nat /\ n.balance_hash \in Nat
    BY <1>1
  <2>. QED BY <2>1, <1>5, WordAfter
<1>. HIDE DEF cm, cn
<1>7. /\ dm \in Packed /\ dn \in Packed
      /\ (dm.cells = dn.cells => cm.cells = cn.cells /\ m.nonce = n.nonce)
  <2>1. m.nonce \in Nat /\ n.nonce \in Nat
    BY <1>1
  <2>. QED BY <2>1, <1>6, WordAfter
<1>. HIDE DEF dm, dn
<1>8. /\ em \in Packed /\ en \in Packed
      /\ (em.cells = en.cells => dm.cells = dn.cells /\ m.additional_hash = n.additional_hash)
  <2>1. m.additional_hash \in Nat /\ n.additional_hash \in Nat
    BY <1>1
  <2>. QED BY <2>1, <1>7, WordAfter
<1>. HIDE DEF em, en
<1>9. /\ em ++ signature(m.closing_signature) \in Packed
      /\ ((em ++ signature(m.closing_signature)).cells = (en ++ signature(n.closing_signature)).cells
           => em.cells = en.cells /\ m.closing_signature = n.closing_signature)
  <2>1. m.closing_signature \in Nat /\ n.closing_signature \in Nat
    BY <1>1
  <2>. QED BY <2>1, <1>8, SignatureAfter
<1>10. ASSUME pack_balance_proof_message(m, m.msg_type).cells = pack_balance_proof_message(n, n.msg_type).cells PROVE m = n
  <2>1. /\ m.contract = n.contract /\ m.chain = n.chain /\ m.id = n.id
        /\ m.balance_hash = n.balance_hash /\ m.nonce = n.nonce /\ m.additional_hash = n.additional_hash
        /\ m.closing_signature = n.closing_signature /\ m.msg_type = n.msg_type
    BY <1>2, <1>4, <1>5, <1>6, <1>7, <1>8, <1>9, <1>10
  <2>. QED BY <2>1 DEF CounterSignatures
<1>. QED BY <1>2, <1>3, <1>9, <1>10

LEMMA SameWithdraw ==
  ASSUME NEW m \in Withdraws, NEW n \in Withdraws
  PROVE  /\ pack_withdraw_message(m) \in Packed
         /\ pack_withdraw_message(m).length = 200
         /\ pack_withdraw_message(m).cells = pack_withdraw_message(n).cells => m = n
<1>1. /\ m.contract \in Nat /\ m.chain \in Nat /\ m.id \in Nat
      /\ m.participant \in Nat /\ m.total_withdraw \in Nat /\ m.withdrawable_until \in Nat
      /\ WITHDRAW \in Nat
      /\ n.contract \in Nat /\ n.chain \in Nat /\ n.id \in Nat
      /\ n.participant \in Nat /\ n.total_withdraw \in Nat /\ n.withdrawable_until \in Nat
      /\ WITHDRAW \in Nat
  BY ValuesAssumption DEF Withdraws, WITHDRAW
<1> DEFINE am == header(m, WITHDRAW)
           an == header(n, WITHDRAW)
           bm == am ++ word(m.id)
           bn == an ++ word(n.id)
           cm == bm ++ address(m.participant)
           cn == bn ++ address(n.participant)
           dm == cm ++ word(m.total_withdraw)
           dn == cn ++ word(n.total_withdraw)
<1>2. /\ pack_withdraw_message(m) = dm ++ word(m.withdrawable_until)
      /\ pack_withdraw_message(n) = dn ++ word(n.withdrawable_until)
  BY DEF header, pack_withdraw_message
<1>3. pack_withdraw_message(m).length = 200
  BY DEF pack_withdraw_message, address, word, signature, ++
<1>4. /\ am \in Packed /\ an \in Packed
      /\ (am.cells = an.cells => m.contract = n.contract /\ m.chain = n.chain)
  BY <1>1, SameHeader
<1>. HIDE DEF am, an
<1>5. /\ bm \in Packed /\ bn \in Packed
      /\ (bm.cells = bn.cells => am.cells = an.cells /\ m.id = n.id)
  <2>1. m.id \in Nat /\ n.id \in Nat
    BY <1>1
  <2>. QED BY <2>1, <1>4, WordAfter
<1>. HIDE DEF bm, bn
<1>6. /\ cm \in Packed /\ cn \in Packed
      /\ (cm.cells = cn.cells => bm.cells = bn.cells /\ m.participant = n.participant)
  <2>1. m.participant \in Nat /\ n.participant \in Nat
    BY <1>1
  <2>. QED BY <2>1, <1>5, AddressAfter
<1>. HIDE DEF cm, cn
<1>7. /\ dm \in Packed /\ dn \in Packed
      /\ (dm.cells = dn.cells => cm.cells = cn.cells /\ m.total_withdraw = n.total_withdraw)
  <2>1. m.total_withdraw \in Nat /\ n.total_withdraw \in Nat
    BY <1>1
  <2>. QED BY <2>1, <1>6, WordAfter
<1>. HIDE DEF dm, dn
<1>8. /\ dm ++ word(m.withdrawable_until) \in Packed
      /\ ((dm ++ word(m.withdrawable_until)).cells = (dn ++ word(n.withdrawable_until)).cells
           => dm.cells = dn.cells /\ m.withdrawable_until = n.withdrawable_until)
  <2>1. m.withdrawable_until \in Nat /\ n.withdrawable_until \in Nat
    BY <1>1
  <2>. QED BY <2>1, <1>7, WordAfter
<1>9. ASSUME pack_withdraw_message(m).cells = pack_withdraw_message(n).cells PROVE m = n
  <2>1. /\ m.contract = n.contract /\ m.chain = n.chain /\ m.id = n.id
        /\ m.participant = n.participant /\ m.total_withdraw = n.total_withdraw /\ m.withdrawable_until = n.withdrawable_until
    BY <1>2, <1>4, <1>5, <1>6, <1>7, <1>8, <1>9
  <2>. QED BY <2>1 DEF Withdraws
<1>. QED BY <1>2, <1>3, <1>8, <1>9

LEMMA SameRewardProof ==
  ASSUME NEW m \in RewardProofs, NEW n \in RewardProofs
  PROVE  /\ pack_reward_proof(m) \in Packed
         /\ pack_reward_proof(m).length = 221
         /\ pack_reward_proof(m).cells = pack_reward_proof(n).cells => m = n
<1>1. /\ m.contract \in Nat /\ m.chain \in Nat /\ m.token_network \in Nat
      /\ m.non_closing \in Nat /\ m.non_closing_signature \in Nat /\ m.reward_amount \in Nat
      /\ MSReward \in Nat
      /\ n.contract \in Nat /\ n.chain \in Nat /\ n.token_network \in Nat
      /\ n.non_closing \in Nat /\ n.non_closing_signature \in Nat /\ n.reward_amount \in Nat
      /\ MSReward \in Nat
  BY ValuesAssumption DEF RewardProofs, MSReward
<1> DEFINE am == header(m, MSReward)
           an == header(n, MSReward)
           bm == am ++ address(m.token_network)
           bn == an ++ address(n.token_network)
           cm == bm ++ address(m.non_closing)
           cn == bn ++ address(n.non_closing)
           dm == cm ++ signature(m.non_closing_signature)
           dn == cn ++ signature(n.non_closing_signature)
<1>2. /\ pack_reward_proof(m) = dm ++ word(m.reward_amount)
      /\ pack_reward_proof(n) = dn ++ word(n.reward_amount)
  BY DEF header, pack_reward_proof
<1>3. pack_reward_proof(m).length = 221
  BY DEF pack_reward_proof, address, word, signature, ++
<1>4. /\ am \in Packed /\ an \in Packed
      /\ (am.cells = an.cells => m.contract = n.contract /\ m.chain = n.chain)
  BY <1>1, SameHeader
<1>. HIDE DEF am, an
<1>5. /\ bm \in Packed /\ bn \in Packed
      /\ (bm.cells = bn.cells => am.cells = an.cells /\ m.token_network = n.token_network)
  <2>1. m.token_network \in Nat /\ n.token_network \in Nat
    BY <1>1
  <2>. QED BY <2>1, <1>4, AddressAfter
<1>. HIDE DEF bm, bn
<1>6. /\ cm \in Packed /\ cn \in Packed
      /\ (cm.cells = cn.cells => bm.cells = bn.cells /\ m.non_closing = n.non_closing)
  <2>1. m.non_closing \in Nat /\ n.non_closing \in Nat
    BY <1>1
  <2>. QED BY <2>1, <1>5, AddressAfter
<1>. HIDE DEF cm, cn
<1>7. /\ dm \in Packed /\ dn \in Packed
      /\ (dm.cells = dn.cells => cm.cells = cn.cells /\ m.non_closing_signature = n.non_closing_signature)
  <2>1. m.non_closing_signature \in Nat /\ n.non_closing_signature \in Nat
    BY <1>1
  <2>. QED BY <2>1, <1>6, SignatureAfter
<1>. HIDE DEF dm, dn
<1>8. /\ dm ++ word(m.reward_amount) \in Packed
      /\ ((dm ++ word(m.reward_amount)).cells = (dn ++ word(n.reward_amount)).cells
           => dm.cells = dn.cells /\ m.reward_amount = n.reward_amount)
  <2>1. m.reward_amount \in Nat /\ n.reward_amount \in Nat
    BY <1>1
  <2>. QED BY <2>1, <1>7, WordAfter
<1>9. ASSUME pack_reward_proof(m).cells = pack_reward_proof(n).cells PROVE m = n
  <2>1. /\ m.contract = n.contract /\ m.chain = n.chain /\ m.token_network = n.token_network
        /\ m.non_closing = n.non_closing /\ m.non_closing_signature = n.non_closing_signature /\ m.reward_amount = n.reward_amount
    BY <1>2, <1>4, <1>5, <1>6, <1>7, <1>8, <1>9
  <2>. QED BY <2>1 DEF RewardProofs
<1>. QED BY <1>2, <1>3, <1>8, <1>9

LEMMA SameIOU ==
  ASSUME NEW m \in IOUs, NEW n \in IOUs
  PROVE  /\ pack_one_to_n_iou(m) \in Packed
         /\ pack_one_to_n_iou(m).length = 188
         /\ pack_one_to_n_iou(m).cells = pack_one_to_n_iou(n).cells => m = n
<1>1. /\ m.contract \in Nat /\ m.chain \in Nat /\ m.sender \in Nat
      /\ m.receiver \in Nat /\ m.amount \in Nat /\ m.claimable_until \in Nat
      /\ IOU \in Nat
      /\ n.contract \in Nat /\ n.chain \in Nat /\ n.sender \in Nat
      /\ n.receiver \in Nat /\ n.amount \in Nat /\ n.claimable_until \in Nat
      /\ IOU \in Nat
  BY ValuesAssumption DEF IOUs, IOU
<1> DEFINE am == header(m, IOU)
           an == header(n, IOU)
           bm == am ++ address(m.sender)
           bn == an ++ address(n.sender)
           cm == bm ++ address(m.receiver)
           cn == bn ++ address(n.receiver)
           dm == cm ++ word(m.amount)
           dn == cn ++ word(n.amount)
<1>2. /\ pack_one_to_n_iou(m) = dm ++ word(m.claimable_until)
      /\ pack_one_to_n_iou(n) = dn ++ word(n.claimable_until)
  BY DEF header, pack_one_to_n_iou
<1>3. pack_one_to_n_iou(m).length = 188
  BY DEF pack_one_to_n_iou, address, word, signature, ++
<1>4. /\ am \in Packed /\ an \in Packed
      /\ (am.cells = an.cells => m.contract = n.contract /\ m.chain = n.chain)
  BY <1>1, SameHeader
<1>. HIDE DEF am, an
<1>5. /\ bm \in Packed /\ bn \in Packed
      /\ (bm.cells = bn.cells => am.cells = an.cells /\ m.sender = n.sender)
  <2>1. m.sender \in Nat /\ n.sender \in Nat
    BY <1>1
  <2>. QED BY <2>1, <1>4, AddressAfter
<1>. HIDE DEF bm, bn
<1>6. /\ cm \in Packed /\ cn \in Packed
      /\ (cm.cells = cn.cells => bm.cells = bn.cells /\ m.receiver = n.receiver)
  <2>1. m.receiver \in Nat /\ n.receiver \in Nat
    BY <1>1
  <2>. QED BY <2>1, <1>5, AddressAfter
<1>. HIDE DEF cm, cn
<1>7. /\ dm \in Packed /\ dn \in Packed
      /\ (dm.cells = dn.cells => cm.cells = cn.cells /\ m.amount = n.amount)
  <2>1. m.amount \in Nat /\ n.amount \in Nat
    BY <1>1
  <2>. QED BY <2>1, <1>6, WordAfter
<1>. HIDE DEF dm, dn
<1>8. /\ dm ++ word(m.claimable_until) \in Packed
      /\ ((dm ++ word(m.claimable_until)).cells = (dn ++ word(n.claimable_until)).cells
           => dm.cells = dn.cells /\ m.claimable_until = n.claimable_until)
  <2>1. m.claimable_until \in Nat /\ n.claimable_until \in Nat
    BY <1>1
  <2>. QED BY <2>1, <1>7, WordAfter
<1>9. ASSUME pack_one_to_n_iou(m).cells = pack_one_to_n_iou(n).cells PROVE m = n
  <2>1. /\ m.contract = n.contract /\ m.chain = n.chain /\ m.sender = n.sender
        /\ m.receiver = n.receiver /\ m.amount = n.amount /\ m.claimable_until = n.claimable_until
    BY <1>2, <1>4, <1>5, <1>6, <1>7, <1>8, <1>9
  <2>. QED BY <2>1 DEF IOUs
<1>. QED BY <1>2, <1>3, <1>8, <1>9

LEMMA CooperativeSettlePacked ==
  ASSUME NEW m \in CooperativeSettles
  PROVE  /\ pack_cooperative_settle_message(m) \in Packed
         /\ pack_cooperative_settle_message(m).length = 220
<1>1. /\ m.contract \in Nat /\ m.chain \in Nat /\ m.id \in Nat /\ m.participant1 \in Nat
      /\ m.balance1 \in Nat /\ m.participant2 \in Nat /\ m.balance2 \in Nat
      /\ COOPERATIVE_SETTLE \in Nat
  BY ValuesAssumption DEF CooperativeSettles, COOPERATIVE_SETTLE
<1> DEFINE a == header(m, COOPERATIVE_SETTLE)
           b == a ++ word(m.id)
           c == b ++ address(m.participant1)
           d == c ++ word(m.balance1)
           e == d ++ address(m.participant2)
<1>2. pack_cooperative_settle_message(m) = e ++ word(m.balance2)
  BY DEF header, pack_cooperative_settle_message
<1>3. pack_cooperative_settle_message(m).length = 220
  BY DEF pack_cooperative_settle_message, address, word, ++
<1>4. a \in Packed
  BY <1>1, SameHeader
<1>. HIDE DEF a
<1>5. b \in Packed
  BY <1>1, <1>4, PartsPacked, ConcatPacked
<1>. HIDE DEF b
<1>6. c \in Packed
  BY <1>1, <1>5, PartsPacked, ConcatPacked
<1>. HIDE DEF c
<1>7. d \in Packed
  BY <1>1, <1>6, PartsPacked, ConcatPacked
<1>. HIDE DEF d
<1>8. e \in Packed
  BY <1>1, <1>7, PartsPacked, ConcatPacked
<1>. HIDE DEF e
<1>9. e ++ word(m.balance2) \in Packed
  BY <1>1, <1>8, PartsPacked, ConcatPacked
<1>. QED BY <1>2, <1>3, <1>9

\* What a message of every kind is hashed as.
LEMMA SignedBalanceProof ==
  ASSUME NEW m \in BalanceProofs
  PROVE  /\ m.kind = "balance_proof"
         /\ signedBytes(m) = hashed(212, pack_balance_proof(m, BALANCE_PROOF))
<1>1. m.kind = "balance_proof"
  BY DEF BalanceProofs
<1>. QED BY <1>1, SameBalanceProof DEF signedBytes, eth_sign_hash_message

LEMMA SignedCounterSignature ==
  ASSUME NEW m \in CounterSignatures
  PROVE  /\ m.kind = "counter_signature"
         /\ signedBytes(m) = hashed(277, pack_balance_proof_message(m, m.msg_type))
<1>1. m.kind = "counter_signature"
  BY DEF CounterSignatures
<1>. QED BY <1>1, SameCounterSignature DEF signedBytes, eth_sign_hash_message

LEMMA SignedWithdraw ==
  ASSUME NEW m \in Withdraws
  PROVE  /\ m.kind = "withdraw"
         /\ signedBytes(m) = hashed(200, pack_withdraw_message(m))
<1>1. m.kind = "withdraw"
  BY DEF Withdraws
<1>. QED BY <1>1, SameWithdraw DEF signedBytes, eth_sign_hash_message

LEMMA SignedCooperativeSettle ==
  ASSUME NEW m \in CooperativeSettles
  PROVE  /\ m.kind = "cooperative_settle"
         /\ signedBytes(m) = hashed(220, pack_cooperative_settle_message(m))
<1>1. m.kind = "cooperative_settle"
  BY DEF CooperativeSettles
<1>. QED BY <1>1, CooperativeSettlePacked DEF signedBytes, eth_sign_hash_message

LEMMA SignedRewardProof ==
  ASSUME NEW m \in RewardProofs
  PROVE  /\ m.kind = "reward_proof"
         /\ signedBytes(m) = hashed(221, pack_reward_proof(m))
<1>1. m.kind = "reward_proof"
  BY DEF RewardProofs
<1>. QED BY <1>1, SameRewardProof DEF signedBytes, eth_sign_hash_message

LEMMA SignedIOU ==
  ASSUME NEW m \in IOUs
  PROVE  /\ m.kind = "iou"
         /\ signedBytes(m) = hashed(188, pack_one_to_n_iou(m))
<1>1. m.kind = "iou"
  BY DEF IOUs
<1>. QED BY <1>1, SameIOU DEF signedBytes, eth_sign_hash_message

\* Messages of two kinds never have one length: the prefix tells them apart.
lengthOf(kind) ==
  CASE kind = "balance_proof"      -> 212
    [] kind = "counter_signature"  -> 277
    [] kind = "withdraw"           -> 200
    [] kind = "cooperative_settle" -> 220
    [] kind = "reward_proof"       -> 221
    [] kind = "iou"                -> 188

Signable == Verified \cup CooperativeSettles

LEMMA LengthStated ==
  ASSUME NEW m \in Signable
  PROVE  /\ lengthOf(m.kind) \in Nat
         /\ \E p \in Packed : signedBytes(m) = hashed(lengthOf(m.kind), p)
<1>1. CASE m \in BalanceProofs
  BY <1>1, SignedBalanceProof, SameBalanceProof DEF lengthOf
<1>2. CASE m \in CounterSignatures
  BY <1>2, SignedCounterSignature, SameCounterSignature DEF lengthOf
<1>3. CASE m \in Withdraws
  BY <1>3, SignedWithdraw, SameWithdraw DEF lengthOf
<1>4. CASE m \in CooperativeSettles
  BY <1>4, SignedCooperativeSettle, CooperativeSettlePacked DEF lengthOf
<1>5. CASE m \in RewardProofs
  BY <1>5, SignedRewardProof, SameRewardProof DEF lengthOf
<1>6. CASE m \in IOUs
  BY <1>6, SignedIOU, SameIOU DEF lengthOf
<1>. QED BY <1>1, <1>2, <1>3, <1>4, <1>5, <1>6 DEF Signable, Verified

Kinds == {"balance_proof", "counter_signature", "withdraw", "cooperative_settle",
          "reward_proof", "iou"}

LEMMA KindTold ==
  ASSUME NEW m \in Signable, NEW n \in Signable, signedBytes(m) = signedBytes(n)
  PROVE  m.kind = n.kind
<1>1. m.kind \in Kinds /\ n.kind \in Kinds
  BY DEF Signable, Verified, Kinds, BalanceProofs, CounterSignatures, Withdraws,
         CooperativeSettles, RewardProofs, IOUs
<1>2. lengthOf(m.kind) = lengthOf(n.kind)
  BY LengthStated, SameHashed
<1>. QED BY <1>1, <1>2 DEF Kinds, lengthOf

\* Two messages are never signed alike.
LEMMA SignedApart ==
  ASSUME NEW m \in Verified, NEW n \in Signable, signedBytes(m) = signedBytes(n)
  PROVE  m = n
<1>1. m.kind = n.kind
  BY KindTold DEF Signable
<1>2. \/ m \in BalanceProofs /\ n \in BalanceProofs
      \/ m \in CounterSignatures /\ n \in CounterSignatures
      \/ m \in Withdraws /\ n \in Withdraws
      \/ m \in RewardProofs /\ n \in RewardProofs
      \/ m \in IOUs /\ n \in IOUs
  BY <1>1, SignedBalanceProof, SignedCounterSignature, SignedWithdraw,
     SignedCooperativeSettle, SignedRewardProof, SignedIOU DEF Signable, Verified
<1>3. CASE m \in BalanceProofs /\ n \in BalanceProofs
  BY <1>3, SignedBalanceProof, SameBalanceProof, SameHashed
<1>4. CASE m \in CounterSignatures /\ n \in CounterSignatures
  BY <1>4, SignedCounterSignature, SameCounterSignature, SameHashed
<1>5. CASE m \in Withdraws /\ n \in Withdraws
  BY <1>5, SignedWithdraw, SameWithdraw, SameHashed
<1>6. CASE m \in RewardProofs /\ n \in RewardProofs
  BY <1>6, SignedRewardProof, SameRewardProof, SameHashed
<1>7. CASE m \in IOUs /\ n \in IOUs
  BY <1>7, SignedIOU, SameIOU, SameHashed
<1>. QED BY <1>2, <1>3, <1>4, <1>5, <1>6, <1>7

\* A contract packs what it verifies as the one who signs it does.
LEMMA RecoveredAsSigned ==
  ASSUME NEW m \in Verified
  PROVE  recoveredBytes(m) = signedBytes(m)
<1>1. CASE m \in BalanceProofs
  BY <1>1, SignedBalanceProof
  DEF recoveredBytes, recoverAddressFromBalanceProof, pack_balance_proof
<1>2. CASE m \in CounterSignatures
  BY <1>2, SignedCounterSignature
  DEF recoveredBytes, recoverAddressFromBalanceProofCounterSignature,
      pack_balance_proof_message, pack_balance_proof
<1>3. CASE m \in Withdraws
  BY <1>3, SignedWithdraw
  DEF recoveredBytes, recoverAddressFromWithdrawMessage, pack_withdraw_message
<1>4. CASE m \in RewardProofs
  BY <1>4, SignedRewardProof
  DEF recoveredBytes, recoverAddressFromRewardProof, pack_reward_proof
<1>5. CASE m \in IOUs
  BY <1>5, SignedIOU DEF recoveredBytes, recoverAddressFromIOU, pack_one_to_n_iou
<1>. QED BY <1>1, <1>2, <1>3, <1>4, <1>5 DEF Verified

MessagesInv == message = NoMessage \/ message \in Signable

\* Whatever was signed, a contract accepts it for the call it was signed for and
\* for no other: the contracts and utils/proofs.py pack the same, and two
\* messages that differ in a field, the type or the kind are packed differently.
THEOREM AcceptanceSafety == MessagesSpec => []AcceptedForItselfOnly
<1>1. MessagesInit => MessagesInv
  BY DEF MessagesInit, MessagesInv
<1>2. MessagesInv /\ [MessagesNext]_message => MessagesInv'
  BY DEF MessagesInv, MessagesNext, Sign, Signable
<1>3. MessagesInv => AcceptedForItselfOnly
  <2>. SUFFICES ASSUME message \in Signable, NEW call \in Verified
                PROVE  recoveredBytes(call) = signedBytes(message) <=> call = message
    BY DEF MessagesInv, AcceptedForItselfOnly
  <2>. QED BY SignedApart, RecoveredAsSigned
<1>. QED BY <1>1, <1>2, <1>3, PTL DEF MessagesSpec

-----------------------------------------------------------------------------
(***************************************************************************)
(* The window in which a service may monitor, for every closing time, every *)
(* settlement window and every sum of addresses.                           *)
(***************************************************************************)
LEMMA RemainderBelow ==
  ASSUME NEW a \in Nat, NEW r \in Nat, r > 0
  PROVE  a % r \in 0 .. (r - 1)
OBVIOUS

LEMMA WindowIsOpen ==
  ASSUME NEW t \in Nat, t >= 1
  PROVE  /\ range_length(t) \in Nat /\ (30 * t) \div 100 \in Nat
         /\ range_length(t) > 0 <=> t >= 2
         /\ (30 * t) \div 100 + range_length(t) <= t
BY DEF range_length, BEST_CASE, WORST_CASE

WindowInv ==
  closed_at \in Nat /\ settle_timeout \in Nat /\ settle_timeout >= 1 /\ addresses \in Nat

LEMMA WindowInTime == WindowInv => EveryServiceHasTime
<1> SUFFICES ASSUME WindowInv PROVE EveryServiceHasTime
  OBVIOUS
<1> DEFINE t == settle_timeout
           r == range_length(t)
           best == (30 * t) \div 100
           turn == addresses % r
<1>1. /\ closed_at \in Nat /\ t \in Nat /\ addresses \in Nat /\ t >= 1
      /\ r \in Nat /\ best \in Nat /\ (r > 0 <=> t >= 2) /\ best + r <= t
  BY WindowIsOpen DEF WindowInv
<1>2. r > 0 => turn \in 0 .. (r - 1)
  BY <1>1, RemainderBelow
<1>3. /\ first = closed_at + best + turn
      /\ monitorable(settle_timeout) <=> r > 0
      /\ (BEST_CASE * settle_timeout) \div 100 = best
  BY DEF first, firstTimestampAllowedToMonitor, monitorable, range_length, BEST_CASE, WORST_CASE
<1>. HIDE DEF t, r, best, turn
<1>4. r > 0 => /\ closed_at + best + turn >= closed_at + best
               /\ closed_at + best + turn < closed_at + t
  BY <1>1, <1>2
<1>5. /\ monitorable(settle_timeout) <=> t >= 2
      /\ monitorable(settle_timeout) <=> r > 0
  BY <1>1, <1>3
<1>. QED BY <1>3, <1>4, <1>5 DEF EveryServiceHasTime, t

\* Every service gets its turn after the participant's own and before anybody
\* may settle, unless the window is a single second, when none may monitor.
THEOREM WindowSafety == WindowSpec => []EveryServiceHasTime
<1>1. WindowInit => WindowInv
  BY WindowAssumption DEF WindowInit, WindowInv
<1>2. WindowInv /\ [UNCHANGED windowVars]_windowVars => WindowInv'
  BY DEF windowVars, WindowInv
<1>. QED BY <1>1, <1>2, WindowInTime, PTL DEF WindowSpec
=============================================================================
