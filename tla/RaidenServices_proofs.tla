----------------------- MODULE RaidenServices_proofs -----------------------
(***************************************************************************)
(* What the service contracts promise together, for any users, services,   *)
(* IOUs, reward proofs, amounts and windows: the deposits are covered, an  *)
(* effective balance lasts, a session is paid once, and so is a balance    *)
(* proof's reward.                                                         *)
(***************************************************************************)
EXTENDS RaidenServices, Sums_proofs

(* The parts of the inductive invariant that the properties do not say.  A *)
(* reading outlasts its time because no plan made since can be withdrawn   *)
(* before, and the ones made earlier are not counted in it.                *)
ReadingsLast ==
  \A u \in Watched :
    LET r    == reading[u]
        plan == withdraw_plans[u]
        held == balances[u] + (transferred[u] - r.transferred)
    IN  /\ r.transferred <= transferred[u]
        /\ r.until <= timestamp + withdraw_timeout
        /\ timestamp < r.until =>
             /\ held >= r.amount
             /\ r.amount > 0 /\ plan.withdrawable_after < r.until =>
                  held >= r.amount + plan.amount

(* The sessions are sound in whichever store a transaction works on.       *)
SessionsSound(settled, claimed) ==
  /\ settled \subseteq Sessions
  /\ claimed \in [Sessions -> [times : Nat, amount : Nat]]
  /\ \A s \in Sessions :
       /\ s \notin settled => claimed[s].times = 0 /\ claimed[s].amount = 0
       /\ s \in settled =>
            /\ claimed[s].times = 1
            /\ \E iou \in IOUs : sessionOf(iou) = s /\ claimed[s].amount \in 1 .. iou.amount

(* What was rewarded had been presented, and what waits for its reward has *)
(* not been rewarded yet.                                                  *)
RewardsPending ==
  \A id \in ChannelIds :
    /\ channel_state[id] \in {"NonExistent", "Opened"} =>
         \A n \in Nonces : RewardClaimed[<<id, n>>] = 0
    /\ channel_state[id] = "Closed" =>
         \A n \in Nonces : RewardClaimed[<<id, n>>] > 0 => n <= closer_nonce[id]
    /\ rewards[id] # NoReward =>
         /\ rewards[id].nonce \in Nonces
         /\ rewards[id].monitoring_service_address \in Services
         /\ RewardClaimed[<<id, rewards[id].nonce>>] = 0

DepositsInv == ClockTypeOK /\ DepositsCovered /\ ReadingsLast
SessionsInv == SessionsSound(settled_sessions, Claimed)
RewardsInv  == RewardsAreEarned /\ RewardsPending

ServicesInv == DepositsInv /\ SessionsInv /\ RewardsInv

-----------------------------------------------------------------------------
(* The deposits.                                                           *)

(* Payments between users: the sum stays, and nobody's balance shrinks by  *)
(* more than has been taken.                                               *)
PaidBetween(heldBefore, takenBefore, held, taken) ==
  /\ held \in [Users -> Nat] /\ taken \in [Users -> Nat]
  /\ Total(held) = Total(heldBefore)
  /\ \A u \in Users :
       /\ takenBefore[u] <= taken[u]
       /\ heldBefore[u] + takenBefore[u] <= held[u] + taken[u]

LEMMA TransferPays ==
  ASSUME NEW held \in [Users -> Nat], NEW taken \in [Users -> Nat],
         NEW sender \in Users, NEW receiver \in Users,
         NEW amount \in Nat, amount <= held[sender]
  PROVE  PaidBetween(held, taken, afterTransfer(held, sender, receiver, amount),
                     [taken EXCEPT ![sender] = @ + amount])
<1> DEFINE after == afterTransfer(held, sender, receiver, amount)
<1>1. after \in [Users -> Nat]
  BY DEF afterTransfer
<1>2. \A u \in Users : after[u] + (IF u = sender THEN amount ELSE 0) >= held[u]
  BY DEF afterTransfer
<1>3. Total(after) = Total(held)
  <2>1. CASE sender = receiver
    <3>1. \A u \in Users : after[u] = held[u]
      <4> DEFINE drawn == [held EXCEPT ![sender] = @ - amount]
      <4>0. drawn \in [Users -> Nat] /\ drawn[sender] = held[sender] - amount
        OBVIOUS
      <4>1. after[sender] = held[sender] - amount + amount
        <5>1. after = [drawn EXCEPT ![sender] = @ + amount]
          BY <2>1 DEF afterTransfer
        <5>. HIDE DEF drawn, after
        <5>. QED BY <4>0, <5>1
      <4>2. \A u \in Users \ {sender} : after[u] = held[u]
        BY <2>1 DEF afterTransfer
      <4>3. held[sender] \in Nat
        OBVIOUS
      <4>. QED BY <4>1, <4>2, <4>3
    <3>2. after = held
      BY <1>1, <3>1
    <3>. QED BY <3>2
  <2>2. CASE sender # receiver
    <3>1. /\ after[sender] = held[sender] - amount
          /\ after[receiver] = held[receiver] + amount
          /\ \A u \in Users \ {sender, receiver} : after[u] = held[u]
      BY <2>2 DEF afterTransfer
    <3>. HIDE DEF after
    <3>2. Total(after) = Total(held) - held[sender] - held[receiver]
                         + after[sender] + after[receiver]
      BY <1>1, <2>2, <3>1, TotalUpdate2, UserDepositAssumption
    <3>3. Total(held) \in Nat /\ held[sender] \in Nat /\ held[receiver] \in Nat
      BY TotalIsNat, UserDepositAssumption
    <3>. QED BY <3>1, <3>2, <3>3
  <2>. QED BY <2>1, <2>2
<1> DEFINE takenAfter == [taken EXCEPT ![sender] = @ + amount]
<1>4. /\ takenAfter \in [Users -> Nat]
      /\ \A u \in Users : takenAfter[u] = taken[u] + (IF u = sender THEN amount ELSE 0)
  OBVIOUS
<1>5. PaidBetween(held, taken, after, takenAfter)
  <2>. HIDE DEF after, takenAfter
  <2>1. ASSUME NEW u \in Users
        PROVE  /\ taken[u] <= takenAfter[u]
               /\ held[u] + taken[u] <= after[u] + takenAfter[u]
    <3>1. /\ held[u] \in Nat /\ taken[u] \in Nat
          /\ after[u] \in Nat /\ takenAfter[u] \in Nat
      BY <1>1, <1>4
    <3>. QED BY <1>2, <1>4, <3>1
  <2>. QED BY <1>1, <1>3, <1>4, <2>1 DEF PaidBetween
<1>. QED BY <1>5

LEMMA PaidTwice ==
  ASSUME NEW h0 \in [Users -> Nat], NEW t0 \in [Users -> Nat], NEW h1, NEW t1, NEW h2, NEW t2,
         PaidBetween(h0, t0, h1, t1), PaidBetween(h1, t1, h2, t2)
  PROVE  PaidBetween(h0, t0, h2, t2)
BY DEF PaidBetween

depositOnlyVars == <<timestamp, token, total_deposit, withdraw_plans, whole_balance, reading>>

LEMMA PaymentsKeepDeposits ==
  ASSUME DepositsInv, PaidBetween(balances, transferred, balances', transferred'),
         UNCHANGED depositOnlyVars
  PROVE  DepositsInv'
<1> USE DEF depositOnlyVars
<1>1. ClockTypeOK'
  BY DEF DepositsInv, ClockTypeOK
<1>2. DepositsCovered'
  BY DEF DepositsInv, DepositsCovered, UserDepositTypeOK, PaidBetween
<1>3. ReadingsLast'
  <2>1. SUFFICES ASSUME NEW u \in Watched
        PROVE  LET r    == reading[u]
                   plan == withdraw_plans[u]
                   held == balances'[u] + (transferred'[u] - r.transferred)
               IN  /\ r.transferred <= transferred'[u]
                   /\ r.until <= timestamp + withdraw_timeout
                   /\ timestamp < r.until =>
                        /\ held >= r.amount
                        /\ r.amount > 0 /\ plan.withdrawable_after < r.until =>
                             held >= r.amount + plan.amount
    BY DEF ReadingsLast
  <2>2. /\ u \in Users
        /\ balances[u] \in Nat /\ transferred[u] \in Nat
        /\ balances'[u] \in Nat /\ transferred'[u] \in Nat
        /\ transferred[u] <= transferred'[u]
        /\ balances[u] + transferred[u] <= balances'[u] + transferred'[u]
    BY UserDepositAssumption DEF DepositsInv, DepositsCovered, UserDepositTypeOK, PaidBetween
  <2>3. /\ reading[u].amount \in Nat /\ reading[u].until \in Nat
        /\ reading[u].transferred \in Nat
        /\ withdraw_plans[u].amount \in Nat /\ withdraw_plans[u].withdrawable_after \in Nat
    BY <2>2 DEF DepositsInv, DepositsCovered, UserDepositTypeOK
  <2>. QED BY <2>2, <2>3 DEF DepositsInv, ReadingsLast
<1>. QED BY <1>1, <1>2, <1>3 DEF DepositsInv

(* What the deposits' invariant says of one watched user.                  *)
readingLasts(u, r, plan, held, taken, now) ==
  /\ r.transferred <= taken
  /\ r.until <= now + withdraw_timeout
  /\ now < r.until =>
       /\ held + (taken - r.transferred) >= r.amount
       /\ r.amount > 0 /\ plan.withdrawable_after < r.until =>
            held + (taken - r.transferred) >= r.amount + plan.amount

LEMMA ReadingsOneByOne ==
  ReadingsLast <=>
    \A u \in Watched : readingLasts(u, reading[u], withdraw_plans[u], balances[u],
                                    transferred[u], timestamp)
BY DEF ReadingsLast, readingLasts

LEMMA ReadingTypes ==
  ASSUME DepositsInv, NEW u \in Watched
  PROVE  /\ u \in Users /\ balances[u] \in Nat /\ transferred[u] \in Nat
         /\ reading[u].amount \in Nat /\ reading[u].until \in Nat
         /\ reading[u].transferred \in Nat
         /\ withdraw_plans[u].amount \in Nat /\ withdraw_plans[u].withdrawable_after \in Nat
         /\ timestamp \in Nat /\ withdraw_timeout \in Nat
         /\ readingLasts(u, reading[u], withdraw_plans[u], balances[u], transferred[u], timestamp)
<1>1. u \in Users
  BY UserDepositAssumption
<1>2. readingLasts(u, reading[u], withdraw_plans[u], balances[u], transferred[u], timestamp)
  BY ReadingsOneByOne DEF DepositsInv
<1>. QED BY <1>1, <1>2, UserDepositAssumption
     DEF DepositsInv, DepositsCovered, UserDepositTypeOK, ClockTypeOK

(* Tokens move into or out of the contract by what its books say.          *)
LEMMA DepositKeeps ==
  ASSUME DepositsInv, NEW owner \in Users, NEW beneficiary \in Users,
         NEW new_total_deposit \in Nat, deposit(owner, beneficiary, new_total_deposit),
         UNCHANGED timestamp
  PROVE  DepositsInv'
<1> DEFINE added == new_total_deposit - total_deposit[beneficiary]
<1>1. UserDepositTypeOK /\ total_deposit[beneficiary] \in Nat /\ added \in Nat /\ added > 0
  BY DEF deposit, DepositsInv, DepositsCovered, UserDepositTypeOK
<1>2. /\ balances' = [balances EXCEPT ![beneficiary] = @ + added]
      /\ total_deposit' = [total_deposit EXCEPT ![beneficiary] = @ + added]
      /\ whole_balance' = whole_balance + added
      /\ whole_balance' <= whole_balance_limit
      /\ tokensMove(owner, udc, added)
      /\ UNCHANGED <<withdraw_plans, transferred, reading>>
  BY DEF deposit
<1>. HIDE DEF added
<1>3. /\ token' \in [Users \cup {udc} -> Nat] /\ token'[udc] = token[udc] + added
  <2>1. owner # udc /\ owner \in DOMAIN token /\ udc \in DOMAIN token
    BY <1>1, UserDepositAssumption DEF UserDepositTypeOK
  <2>2. token \in [Users \cup {udc} -> Nat]
    BY <1>1 DEF UserDepositTypeOK
  <2>3. token[owner] >= added /\ token' = [a \in DOMAIN token |->
          token[a] - (IF a = owner THEN added ELSE 0) + (IF a = udc THEN added ELSE 0)]
    BY <1>2 DEF tokensMove
  <2>. QED BY <1>1, <2>1, <2>2, <2>3
<1>4. /\ balances' \in [Users -> Nat] /\ balances'[beneficiary] = balances[beneficiary] + added
      /\ \A u \in Users \ {beneficiary} : balances'[u] = balances[u]
      /\ \A u \in Users : balances[u] <= balances'[u]
      /\ total_deposit' \in [Users -> Nat]
  BY <1>1, <1>2 DEF UserDepositTypeOK
<1>5. Total(balances') = Total(balances) + added
  <2>1. Total(balances') = Total(balances) - balances[beneficiary] + balances'[beneficiary]
    BY <1>1, <1>4, TotalUpdate, UserDepositAssumption DEF UserDepositTypeOK
  <2>2. Total(balances) \in Nat /\ balances[beneficiary] \in Nat
    BY <1>1, TotalIsNat, UserDepositAssumption DEF UserDepositTypeOK
  <2>. QED BY <1>1, <1>4, <2>1, <2>2
<1>6. DepositsCovered'
  <2>1. UserDepositTypeOK'
    <3>1. whole_balance' \in Nat
      BY <1>1, <1>2 DEF UserDepositTypeOK
    <3>. QED BY <1>1, <1>2, <1>3, <1>4, <3>1 DEF UserDepositTypeOK
  <2>2. token[udc] \in Nat /\ whole_balance \in Nat
    BY <1>1 DEF UserDepositTypeOK
  <2>. QED BY <1>1, <1>2, <1>3, <1>5, <2>1, <2>2 DEF DepositsInv, DepositsCovered
<1>7. ASSUME NEW u \in Watched
      PROVE  readingLasts(u, reading'[u], withdraw_plans'[u], balances'[u], transferred'[u],
                          timestamp')
  BY <1>2, <1>4, ReadingTypes DEF readingLasts
<1>8. ReadingsLast'
  BY <1>7 DEF ReadingsLast, readingLasts
<1>. QED BY <1>6, <1>8 DEF DepositsInv, ClockTypeOK

(* A plan can be withdrawn withdraw_timeout from now at the earliest: after *)
(* every reading that was made before it.                                  *)
LEMMA PlanKeeps ==
  ASSUME DepositsInv, NEW owner \in Users, NEW amount \in Nat, planWithdraw(owner, amount),
         UNCHANGED timestamp
  PROVE  DepositsInv'
<1>1. UserDepositTypeOK /\ timestamp \in Nat /\ withdraw_timeout \in Nat
  BY UserDepositAssumption DEF DepositsInv, DepositsCovered, ClockTypeOK
<1>2. /\ withdraw_plans' = [withdraw_plans EXCEPT ![owner] =
           [amount |-> amount, withdrawable_after |-> timestamp + withdraw_timeout]]
      /\ UNCHANGED <<token, total_deposit, balances, whole_balance, transferred, reading>>
  BY DEF planWithdraw, plannedDate
<1>3. withdraw_plans' \in [Users -> [amount : Nat, withdrawable_after : Nat]]
  BY <1>1, <1>2 DEF UserDepositTypeOK
<1>4. DepositsCovered'
  BY <1>2, <1>3 DEF DepositsInv, DepositsCovered, UserDepositTypeOK
<1>5. ASSUME NEW u \in Watched
      PROVE  readingLasts(u, reading'[u], withdraw_plans'[u], balances'[u], transferred'[u],
                          timestamp')
  <2>1. CASE u = owner
    <3>1. withdraw_plans'[u].withdrawable_after = timestamp + withdraw_timeout
      BY <1>1, <1>2, <2>1, ReadingTypes DEF UserDepositTypeOK
    <3>. QED BY <1>2, <3>1, ReadingTypes DEF readingLasts
  <2>2. CASE u # owner
    <3>1. withdraw_plans'[u] = withdraw_plans[u]
      BY <1>1, <1>2, <2>2, ReadingTypes DEF UserDepositTypeOK
    <3>. QED BY <1>2, <3>1, ReadingTypes DEF readingLasts
  <2>. QED BY <2>1, <2>2
<1>6. ReadingsLast'
  BY <1>5 DEF ReadingsLast, readingLasts
<1>. QED BY <1>4, <1>6 DEF DepositsInv, ClockTypeOK

(* Whoever withdraws has planned to, so what a reading counts is left.     *)
LEMMA WithdrawKeeps ==
  ASSUME DepositsInv, NEW owner \in Users, NEW beneficiary \in Users \cup {udc},
         NEW amount \in Nat, withdraw(owner, amount, beneficiary), UNCHANGED timestamp
  PROVE  DepositsInv'
<1> DEFINE taken == withdrawable(owner, amount)
<1>1. /\ UserDepositTypeOK /\ timestamp \in Nat
      /\ balances[owner] \in Nat /\ taken \in Nat
      /\ taken <= amount /\ taken <= balances[owner]
  BY DEF DepositsInv, DepositsCovered, UserDepositTypeOK, ClockTypeOK, withdrawable
<1>2. /\ amount <= withdraw_plans[owner].amount
      /\ withdraw_plans[owner].withdrawable_after <= timestamp
      /\ balances' = [balances EXCEPT ![owner] = @ - taken]
      /\ whole_balance' = whole_balance - taken
      /\ withdraw_plans' = [withdraw_plans EXCEPT ![owner] = NoPlan]
      /\ tokensMove(udc, beneficiary, taken)
      /\ UNCHANGED <<total_deposit, transferred, reading>>
  BY DEF withdraw, wholeBalanceAfter
<1>. HIDE DEF taken
<1>3. /\ balances' \in [Users -> Nat] /\ balances'[owner] = balances[owner] - taken
      /\ \A u \in Users \ {owner} : balances'[u] = balances[u]
      /\ withdraw_plans' \in [Users -> [amount : Nat, withdrawable_after : Nat]]
  BY <1>1, <1>2 DEF UserDepositTypeOK, NoPlan
<1>4. /\ token' \in [Users \cup {udc} -> Nat] /\ token'[udc] >= token[udc] - taken
  <2>1. token \in [Users \cup {udc} -> Nat]
    BY <1>1 DEF UserDepositTypeOK
  <2>2. token[udc] >= taken /\ token' = [a \in DOMAIN token |->
          token[a] - (IF a = udc THEN taken ELSE 0) + (IF a = beneficiary THEN taken ELSE 0)]
    BY <1>2 DEF tokensMove
  <2>. QED BY <1>1, <2>1, <2>2
<1>5. Total(balances') = Total(balances) - taken /\ Total(balances') \in Nat
  <2>0. /\ balances \in [Users -> Nat] /\ balances' \in [Users -> Nat]
        /\ \A u \in Users \ {owner} : balances'[u] = balances[u]
        /\ IsFiniteSet(Users)
    BY <1>1, <1>3, UserDepositAssumption DEF UserDepositTypeOK
  <2>1. Total(balances') = Total(balances) - balances[owner] + balances'[owner]
    BY <2>0, TotalUpdate
  <2>2. Total(balances) \in Nat /\ Total(balances') \in Nat
    BY <1>1, <1>3, TotalIsNat, UserDepositAssumption DEF UserDepositTypeOK
  <2>. QED BY <1>1, <1>3, <2>1, <2>2
<1>6. DepositsCovered'
  <2>1. /\ token[udc] \in Nat /\ token'[udc] \in Nat /\ whole_balance \in Nat
        /\ whole_balance_limit \in Nat
    BY <1>1, <1>4, UserDepositAssumption DEF UserDepositTypeOK
  <2>2. whole_balance' = Total(balances')
    BY <1>2, <1>5 DEF DepositsInv, DepositsCovered
  <2>3. UserDepositTypeOK'
    BY <1>1, <1>2, <1>3, <1>4, <1>5, <2>2 DEF UserDepositTypeOK
  <2>. QED BY <1>1, <1>2, <1>4, <2>1, <2>2, <2>3 DEF DepositsInv, DepositsCovered
<1>7. ASSUME NEW u \in Watched
      PROVE  readingLasts(u, reading'[u], withdraw_plans'[u], balances'[u], transferred'[u],
                          timestamp')
  <2>1. CASE u = owner
    <3>1. withdraw_plans'[u].amount = 0
      BY <1>1, <1>2, <2>1, ReadingTypes DEF UserDepositTypeOK, NoPlan
    <3>2. balances'[u] = balances[u] - taken
      BY <1>3, <2>1
    <3>3. balances'[u] \in Nat
      BY <1>3, ReadingTypes
    <3>4. taken <= withdraw_plans[u].amount /\ withdraw_plans[u].withdrawable_after <= timestamp
      BY <1>1, <1>2, <2>1, ReadingTypes
    <3>. QED BY <1>1, <1>2, <3>1, <3>2, <3>3, <3>4, ReadingTypes DEF readingLasts
  <2>2. CASE u # owner
    <3>1. withdraw_plans'[u] = withdraw_plans[u] /\ balances'[u] = balances[u]
      BY <1>1, <1>2, <1>3, <2>2, ReadingTypes DEF UserDepositTypeOK
    <3>. QED BY <1>2, <3>1, ReadingTypes DEF readingLasts
  <2>. QED BY <2>1, <2>2
<1>8. ReadingsLast'
  BY <1>7 DEF ReadingsLast, readingLasts
<1>. QED BY <1>6, <1>8 DEF DepositsInv, ClockTypeOK

LEMMA ReadKeeps ==
  ASSUME DepositsInv, NEW owner \in Watched, readEffectiveBalance(owner), UNCHANGED timestamp
  PROVE  DepositsInv'
<1>1. /\ owner \in Users /\ balances[owner] \in Nat /\ transferred[owner] \in Nat
      /\ withdraw_plans[owner].amount \in Nat
      /\ timestamp \in Nat /\ withdraw_timeout \in Nat
  BY ReadingTypes
<1>2. /\ effectiveBalance(owner) \in Nat
      /\ effectiveBalance(owner) <= balances[owner]
      /\ effectiveBalance(owner) > 0 =>
           effectiveBalance(owner) + withdraw_plans[owner].amount <= balances[owner]
  BY <1>1 DEF effectiveBalance
<1> DEFINE seen == [amount |-> effectiveBalance(owner), until |-> timestamp + withdraw_timeout,
                    transferred |-> transferred[owner]]
<1>3. seen \in [amount : Nat, until : Nat, transferred : Nat]
  BY <1>1, <1>2
<1>4. /\ seen.amount = effectiveBalance(owner) /\ seen.until = timestamp + withdraw_timeout
      /\ seen.transferred = transferred[owner]
      /\ reading' = [reading EXCEPT ![owner] = seen]
      /\ UNCHANGED <<token, accountVars, transferred>>
  BY DEF readEffectiveBalance
<1>. HIDE DEF seen
<1>5. DepositsCovered'
  BY <1>3, <1>4 DEF DepositsInv, DepositsCovered, UserDepositTypeOK, accountVars
<1>6. ASSUME NEW u \in Watched
      PROVE  readingLasts(u, reading'[u], withdraw_plans'[u], balances'[u], transferred'[u],
                          timestamp')
  <2>0. reading \in [Watched -> [amount : Nat, until : Nat, transferred : Nat]]
    BY DEF DepositsInv, DepositsCovered, UserDepositTypeOK
  <2>1. CASE u = owner
    <3>1. reading'[u] = seen
      BY <1>4, <2>0, <2>1
    <3>. QED BY <1>1, <1>2, <1>4, <2>1, <3>1 DEF readingLasts, accountVars
  <2>2. CASE u # owner
    <3>1. reading'[u] = reading[u]
      BY <1>4, <2>0, <2>2
    <3>. QED BY <1>4, <3>1, ReadingTypes DEF readingLasts, accountVars
  <2>. QED BY <2>1, <2>2
<1>7. ReadingsLast'
  BY <1>6 DEF ReadingsLast, readingLasts
<1>. QED BY <1>5, <1>7 DEF DepositsInv, ClockTypeOK

LEMMA BlockKeepsDeposits ==
  ASSUME DepositsInv, NextBlock, UNCHANGED userDepositVars
  PROVE  DepositsInv'
<1>1. timestamp \in Nat /\ timestamp' = timestamp + 1 /\ ClockTypeOK'
  BY DEF DepositsInv, ClockTypeOK, NextBlock
<1>2. DepositsCovered'
  BY DEF DepositsInv, DepositsCovered, UserDepositTypeOK, userDepositVars, accountVars
<1>3. ASSUME NEW u \in Watched
      PROVE  readingLasts(u, reading'[u], withdraw_plans'[u], balances'[u], transferred'[u],
                          timestamp')
  BY <1>1, ReadingTypes DEF readingLasts, userDepositVars, accountVars
<1>4. ReadingsLast'
  BY <1>3 DEF ReadingsLast, readingLasts
<1>. QED BY <1>1, <1>2, <1>4 DEF DepositsInv

LEMMA UserDepositKeeps ==
  ASSUME DepositsInv, UserDepositStep, UNCHANGED timestamp
  PROVE  DepositsInv'
<1>1. ASSUME NEW u \in Users, NEW v \in Users, NEW total \in TotalDeposits, deposit(u, v, total)
      PROVE  DepositsInv'
  BY <1>1, DepositKeeps, UserDepositAssumption
<1>2. ASSUME NEW u \in Users, NEW amount \in WithdrawAmounts, planWithdraw(u, amount)
      PROVE  DepositsInv'
  BY <1>2, PlanKeeps, UserDepositAssumption
<1>3. ASSUME NEW u \in Users, NEW b \in Users \cup {udc}, NEW amount \in WithdrawAmounts,
             withdraw(u, amount, b)
      PROVE  DepositsInv'
  BY <1>3, WithdrawKeeps, UserDepositAssumption
<1>4. ASSUME NEW u \in Watched, readEffectiveBalance(u) PROVE DepositsInv'
  BY <1>4, ReadKeeps
<1>. QED BY <1>1, <1>2, <1>3, <1>4 DEF UserDepositStep

-----------------------------------------------------------------------------
(* OneToN.                                                                 *)

(* The recursion over a bulk has a solution, which is what it computes.    *)
claimsUpTo(ious, n, f) ==
  f = [i \in 0 .. n |-> IF i = 0 THEN Storage ELSE claimIn(f[i - 1], ious[i])]

LEMMA ClaimsExist ==
  ASSUME NEW ious
  PROVE  \A n \in Nat : \E f : claimsUpTo(ious, n, f)
<1> DEFINE S == {n \in Nat : \E f : claimsUpTo(ious, n, f)}
<1>1. 0 \in S
  <2> DEFINE f == [i \in 0 .. 0 |-> Storage]
  <2>1. claimsUpTo(ious, 0, f)
    BY DEF claimsUpTo
  <2>. QED BY <2>1
<1>2. ASSUME NEW n \in S PROVE n + 1 \in S
  <2>1. PICK f : claimsUpTo(ious, n, f)
    OBVIOUS
  <2> DEFINE g == [i \in 0 .. n + 1 |-> IF i <= n THEN f[i] ELSE claimIn(f[n], ious[n + 1])]
             h == [i \in 0 .. n + 1 |-> IF i = 0 THEN Storage ELSE claimIn(g[i - 1], ious[i])]
  <2>2. \A i \in 0 .. n + 1 : g[i] = h[i]
    <3>1. TAKE i \in 0 .. n + 1
    <3>2. CASE i <= n
      <4>1. g[i] = f[i] /\ (i # 0 => g[i - 1] = f[i - 1])
        BY <3>2
      <4>2. f[i] = IF i = 0 THEN Storage ELSE claimIn(f[i - 1], ious[i])
        BY <2>1, <3>2 DEF claimsUpTo
      <4>3. h[i] = IF i = 0 THEN Storage ELSE claimIn(g[i - 1], ious[i])
        OBVIOUS
      <4>. QED BY <4>1, <4>2, <4>3
    <3>3. CASE i = n + 1
      <4>1. g[i] = claimIn(f[n], ious[n + 1]) /\ g[i - 1] = f[n] /\ i # 0
        BY <3>3
      <4>2. h[i] = claimIn(g[i - 1], ious[i])
        BY <4>1
      <4>. QED BY <3>3, <4>1, <4>2
    <3>. QED BY <3>2, <3>3
  <2>3. g = h
    BY <2>2
  <2>4. claimsUpTo(ious, n + 1, g)
    BY <2>3 DEF claimsUpTo
  <2>. QED BY <2>4
<1>. HIDE DEF S
<1>3. Nat \subseteq S
  BY <1>1, <1>2, NatSetInduction
<1>. QED BY <1>3 DEF S

LEMMA ClaimsOneByOne ==
  ASSUME NEW ious, Len(ious) \in Nat
  PROVE  /\ storageAfter(ious)[0] = Storage
         /\ \A n \in 1 .. Len(ious) :
              storageAfter(ious)[n] = claimIn(storageAfter(ious)[n - 1], ious[n])
<1> DEFINE after == storageAfter(ious)
<1>1. claimsUpTo(ious, Len(ious), after)
  <2>1. \E f : claimsUpTo(ious, Len(ious), f)
    BY ClaimsExist
  <2>2. after = CHOOSE f : claimsUpTo(ious, Len(ious), f)
    BY DEF storageAfter, claimsUpTo
  <2>. QED BY <2>1, <2>2
<1>. HIDE DEF after
<1>2. \A n \in 0 .. Len(ious) :
        after[n] = IF n = 0 THEN Storage ELSE claimIn(after[n - 1], ious[n])
  BY <1>1 DEF claimsUpTo
<1>. QED BY <1>2 DEF after

(* The store that a bulk works on stays sound from claim to claim, as long *)
(* as none of them has reverted.                                           *)
StoreSound(store) ==
  /\ PaidBetween(balances, transferred, store.balances, store.transferred)
  /\ ~store.reverted => SessionsSound(store.settled, store.Claimed)

LEMMA PaidNothing ==
  ASSUME NEW held \in [Users -> Nat], NEW taken \in [Users -> Nat]
  PROVE  PaidBetween(held, taken, held, taken)
BY DEF PaidBetween

LEMMA SessionsKept ==
  ASSUME NEW settled, NEW claimed, SessionsSound(settled, claimed),
         NEW iou \in IOUs, sessionOf(iou) \notin settled, NEW amount \in Nat,
         amount <= iou.amount,
         NEW settledNext, settledNext = IF amount > 0 THEN settled \cup {sessionOf(iou)} ELSE settled,
         NEW claimedNext, claimedNext = [claimed EXCEPT ![sessionOf(iou)] =
           [times |-> @.times + (IF amount > 0 THEN 1 ELSE 0), amount |-> @.amount + amount]]
  PROVE  SessionsSound(settledNext, claimedNext)
<1> DEFINE here == sessionOf(iou)
<1>1. here \in Sessions
  BY DEF Sessions
<1>. HIDE DEF here
<1>2. /\ claimed \in [Sessions -> [times : Nat, amount : Nat]]
      /\ claimed[here].times = 0 /\ claimed[here].amount = 0
  BY <1>1 DEF SessionsSound, here
<1>3. /\ claimedNext \in [Sessions -> [times : Nat, amount : Nat]]
      /\ claimedNext[here] = [times |-> IF amount > 0 THEN 1 ELSE 0, amount |-> amount]
      /\ \A s \in Sessions \ {here} : claimedNext[s] = claimed[s]
  BY <1>1, <1>2 DEF here
<1>4. settledNext \subseteq Sessions
  BY <1>1 DEF SessionsSound, here
<1>5. ASSUME NEW s \in Sessions
      PROVE  /\ s \notin settledNext => claimedNext[s].times = 0 /\ claimedNext[s].amount = 0
             /\ s \in settledNext =>
                  /\ claimedNext[s].times = 1
                  /\ \E other \in IOUs :
                       sessionOf(other) = s /\ claimedNext[s].amount \in 1 .. other.amount
  <2>1. CASE s = here /\ amount > 0
    <3>1. claimedNext[s].times = 1 /\ claimedNext[s].amount = amount /\ s \in settledNext
      BY <1>3, <2>1 DEF here
    <3>2. iou.amount \in Nat
      BY OneToNAssumption
    <3>3. sessionOf(iou) = s /\ claimedNext[s].amount \in 1 .. iou.amount
      BY <2>1, <3>1, <3>2 DEF here
    <3>. QED BY <3>1, <3>3
  <2>2. CASE s = here /\ amount = 0
    <3>1. claimedNext[s].times = 0 /\ claimedNext[s].amount = 0 /\ s \notin settledNext
      BY <1>3, <2>2 DEF here
    <3>. QED BY <3>1
  <2>3. CASE s # here
    <3>1. claimedNext[s] = claimed[s] /\ (s \in settledNext <=> s \in settled)
      BY <1>3, <2>3 DEF here
    <3>. QED BY <3>1 DEF SessionsSound
  <2>. QED BY <2>1, <2>2, <2>3
<1>. QED BY <1>3, <1>4, <1>5 DEF SessionsSound

LEMMA ClaimKeepsStore ==
  ASSUME DepositsInv, NEW store, StoreSound(store), NEW iou \in IOUs
  PROVE  StoreSound(claimIn(store, iou))
<1> DEFINE amount == IF iou.amount < store.balances[iou.sender]
                     THEN iou.amount ELSE store.balances[iou.sender]
           next   == claimIn(store, iou)
<1>1. /\ iou.sender \in Users /\ iou.receiver \in Users /\ iou.amount \in Nat
      /\ store.balances \in [Users -> Nat] /\ store.transferred \in [Users -> Nat]
      /\ balances \in [Users -> Nat] /\ transferred \in [Users -> Nat]
  BY OneToNAssumption
     DEF StoreSound, PaidBetween, DepositsInv, DepositsCovered, UserDepositTypeOK
<1>2. amount \in Nat /\ amount <= iou.amount /\ amount <= store.balances[iou.sender]
  BY <1>1
<1>3. /\ next.balances = afterTransfer(store.balances, iou.sender, iou.receiver, amount)
      /\ next.transferred = [store.transferred EXCEPT ![iou.sender] = @ + amount]
      /\ next.settled = IF amount > 0 THEN store.settled \cup {sessionOf(iou)} ELSE store.settled
      /\ next.Claimed = [store.Claimed EXCEPT ![sessionOf(iou)] =
           [times |-> @.times + (IF amount > 0 THEN 1 ELSE 0), amount |-> @.amount + amount]]
      /\ ~next.reverted => ~store.reverted /\ sessionOf(iou) \notin store.settled
  BY DEF claimIn, settledAfter, claimable, key
<1>. HIDE DEF amount, next
<1>4. PaidBetween(store.balances, store.transferred, next.balances, next.transferred)
  BY <1>1, <1>2, <1>3, TransferPays
<1>5. PaidBetween(balances, transferred, next.balances, next.transferred)
  BY <1>1, <1>4, PaidTwice DEF StoreSound
<1>6. ~next.reverted => SessionsSound(next.settled, next.Claimed)
  <2>1. SUFFICES ASSUME ~next.reverted PROVE SessionsSound(next.settled, next.Claimed)
    OBVIOUS
  <2>2. SessionsSound(store.settled, store.Claimed) /\ sessionOf(iou) \notin store.settled
    BY <1>3, <2>1 DEF StoreSound
  <2>. QED BY <1>2, <1>3, <2>2, SessionsKept
<1>. QED BY <1>5, <1>6 DEF StoreSound, next

LEMMA BulkKeeps ==
  ASSUME DepositsInv, SessionsInv, NEW ious \in Seq(IOUs), bulkClaim(ious), UNCHANGED timestamp
  PROVE  DepositsInv' /\ SessionsInv'
<1> DEFINE L == Len(ious)
           after == storageAfter(ious)
           S == {n \in Nat : n <= L => StoreSound(after[n])}
<1>1. /\ L \in Nat /\ \A n \in 1 .. L : ious[n] \in IOUs
  OBVIOUS
<1>2. /\ after[0] = Storage
      /\ \A n \in 1 .. L : after[n] = claimIn(after[n - 1], ious[n])
  BY <1>1, ClaimsOneByOne
<1>3. /\ ~after[L].reverted
      /\ balances' = after[L].balances /\ transferred' = after[L].transferred
      /\ settled_sessions' = after[L].settled /\ Claimed' = after[L].Claimed
      /\ UNCHANGED <<token, total_deposit, withdraw_plans, whole_balance, reading>>
  BY DEF bulkClaim
<1>. HIDE DEF L, after
<1>4. 0 \in S
  <2>1. balances \in [Users -> Nat] /\ transferred \in [Users -> Nat]
    BY DEF DepositsInv, DepositsCovered, UserDepositTypeOK
  <2>2. StoreSound(Storage)
    BY <2>1, PaidNothing DEF StoreSound, Storage, SessionsInv
  <2>. QED BY <1>2, <2>2
<1>5. ASSUME NEW n \in S PROVE n + 1 \in S
  <2>1. CASE n + 1 <= L
    <3>1. n + 1 \in 1 .. L /\ StoreSound(after[n])
      BY <1>1, <2>1
    <3>2. after[n + 1] = claimIn(after[n], ious[n + 1]) /\ ious[n + 1] \in IOUs
      BY <1>1, <1>2, <3>1
    <3>3. StoreSound(after[n + 1])
      BY <3>1, <3>2, ClaimKeepsStore
    <3>. QED BY <3>3
  <2>2. CASE ~(n + 1 <= L)
    BY <2>2
  <2>. QED BY <2>1, <2>2
<1>6. L \in S
  <2>. HIDE DEF S
  <2>. QED BY <1>1, <1>4, <1>5, NatSetInduction
<1>7. StoreSound(after[L])
  BY <1>1, <1>6
<1>8. SessionsInv'
  BY <1>3, <1>7 DEF StoreSound, SessionsInv
<1>9. PaidBetween(balances, transferred, balances', transferred')
  BY <1>3, <1>7 DEF StoreSound
<1>10. DepositsInv'
  BY <1>3, <1>9, PaymentsKeepDeposits DEF depositOnlyVars
<1>. QED BY <1>8, <1>10

LEMMA OneToNKeeps ==
  ASSUME DepositsInv, SessionsInv, OneToNStep, UNCHANGED timestamp
  PROVE  DepositsInv' /\ SessionsInv'
<1>1. ASSUME NEW iou \in IOUs, claim(iou) PROVE DepositsInv' /\ SessionsInv'
  <2>1. <<iou>> \in Seq(IOUs)
    OBVIOUS
  <2>. QED BY <1>1, <2>1, BulkKeeps DEF claim
<1>2. ASSUME NEW ious \in Bulks, bulkClaim(ious) PROVE DepositsInv' /\ SessionsInv'
  BY <1>2, BulkKeeps, OneToNAssumption
<1>. QED BY <1>1, <1>2 DEF OneToNStep

-----------------------------------------------------------------------------
(* The rewards.                                                            *)

rewardTypes == MonitoringTypeOK /\ RegistrationsTypeOK /\ ChannelsTypeOK

(* The invariant of one channel's rewards; with it, RewardsInv is typing   *)
(* and one such fact for each channel.                                     *)
rewardsEarned(id, state, nonce, reward, claimedFor) ==
  /\ \A n \in Nonces : claimedFor[<<id, n>>] <= 1
  /\ state \in {"NonExistent", "Opened"} => \A n \in Nonces : claimedFor[<<id, n>>] = 0
  /\ state = "Closed" => \A n \in Nonces : claimedFor[<<id, n>>] > 0 => n <= nonce
  /\ reward # NoReward =>
       /\ state \in {"Closed", "Settled", "Removed"}
       /\ state = "Closed" => reward.nonce <= nonce
       /\ reward.nonce \in Nonces
       /\ reward.monitoring_service_address \in Services
       /\ claimedFor[<<id, reward.nonce>>] = 0

eachEarned ==
  \A id \in ChannelIds :
    rewardsEarned(id, channel_state[id], closer_nonce[id], rewards[id], RewardClaimed)

LEMMA RewardsOneByOne == rewardTypes /\ eachEarned => RewardsInv
<1> SUFFICES ASSUME rewardTypes, eachEarned PROVE RewardsInv
  OBVIOUS
<1> USE DEF eachEarned
<1>1. \A k \in DOMAIN RewardClaimed : RewardClaimed[k] <= 1
  <2>1. SUFFICES ASSUME NEW k \in ChannelIds \X Nonces PROVE RewardClaimed[k] <= 1
    BY DEF rewardTypes, MonitoringTypeOK
  <2>2. k[1] \in ChannelIds /\ k[2] \in Nonces /\ k = <<k[1], k[2]>>
    OBVIOUS
  <2>3. rewardsEarned(k[1], channel_state[k[1]], closer_nonce[k[1]], rewards[k[1]], RewardClaimed)
    BY <2>2
  <2>. QED BY <2>2, <2>3 DEF rewardsEarned
<1>2. RewardsAreEarned
  BY <1>1 DEF RewardsAreEarned, rewardTypes, rewardsEarned
<1>3. RewardsPending
  BY DEF RewardsPending, rewardsEarned
<1>. QED BY <1>2, <1>3 DEF RewardsInv

LEMMA RewardsOfOne ==
  ASSUME RewardsInv, NEW id \in ChannelIds
  PROVE  /\ rewardTypes
         /\ rewardsEarned(id, channel_state[id], closer_nonce[id], rewards[id], RewardClaimed)
<1>1. rewardTypes
  BY DEF RewardsInv, RewardsAreEarned, rewardTypes
<1>2. \A n \in Nonces : RewardClaimed[<<id, n>>] <= 1
  <2>1. \A n \in Nonces : <<id, n>> \in DOMAIN RewardClaimed
    BY <1>1 DEF rewardTypes, MonitoringTypeOK
  <2>. QED BY <2>1 DEF RewardsInv, RewardsAreEarned
<1>3. rewardsEarned(id, channel_state[id], closer_nonce[id], rewards[id], RewardClaimed)
  BY <1>2 DEF RewardsInv, RewardsAreEarned, RewardsPending, rewardsEarned
<1>. QED BY <1>1, <1>3

(* What the channels do: one changes its state, the other ones do not.     *)
channelMoves(id, state, at, nonce) ==
  /\ channel_state' = [channel_state EXCEPT ![id] = state]
  /\ settleable_after' = [settleable_after EXCEPT ![id] = at]
  /\ closer_nonce' = [closer_nonce EXCEPT ![id] = nonce]

LEMMA ChannelMoveKeeps ==
  ASSUME RewardsInv, NEW id \in ChannelIds, NEW state \in ChannelStates, NEW at \in Nat,
         NEW nonce \in Nonces \cup {0}, channelMoves(id, state, at, nonce),
         rewardsEarned(id, state, nonce, rewards[id], RewardClaimed),
         UNCHANGED <<service_valid_till, monitoringVars>>
  PROVE  RewardsInv'
<1>1. rewardTypes
  BY RewardsOfOne
<1>2. /\ channel_state \in [ChannelIds -> ChannelStates]
      /\ settleable_after \in [ChannelIds -> Nat]
      /\ closer_nonce \in [ChannelIds -> Nonces \cup {0}]
  BY <1>1 DEF rewardTypes, ChannelsTypeOK
<1>3. rewardTypes'
  BY <1>1, <1>2 DEF rewardTypes, ChannelsTypeOK, MonitoringTypeOK, RegistrationsTypeOK,
                    channelMoves, monitoringVars
<1>4. ASSUME NEW other \in ChannelIds
      PROVE  rewardsEarned(other, channel_state'[other], closer_nonce'[other], rewards'[other],
                           RewardClaimed')
  <2>1. rewards' = rewards /\ RewardClaimed' = RewardClaimed
    BY DEF monitoringVars
  <2>2. CASE other = id
    <3>1. channel_state'[other] = state /\ closer_nonce'[other] = nonce
      BY <1>2, <2>2 DEF channelMoves
    <3>. QED BY <2>1, <2>2, <3>1
  <2>3. CASE other # id
    <3>1. channel_state'[other] = channel_state[other] /\ closer_nonce'[other] = closer_nonce[other]
      BY <1>2, <2>3 DEF channelMoves
    <3>. QED BY <2>1, <3>1, RewardsOfOne
  <2>. QED BY <2>2, <2>3
<1>5. eachEarned'
  BY <1>4 DEF eachEarned, rewardsEarned, NoReward
<1>. QED BY <1>3, <1>5, RewardsOneByOne, PTL

LEMMA ChannelsKeep ==
  ASSUME RewardsInv, ChannelsStep, timestamp \in Nat,
         UNCHANGED <<timestamp, service_valid_till, monitoringVars>>
  PROVE  RewardsInv'
<1>1. PICK id \in ChannelIds :
        \/ OpenChannel(id) \/ CooperativeSettle(id) \/ CloseChannel(id)
        \/ \E nonce \in Nonces : UpdateBalanceProof(id, nonce)
        \/ Settle(id) \/ UnlockLast(id)
  BY DEF ChannelsStep
<1>2. /\ rewardTypes
      /\ rewardsEarned(id, channel_state[id], closer_nonce[id], rewards[id], RewardClaimed)
  BY RewardsOfOne
<1>3. /\ channel_state \in [ChannelIds -> ChannelStates]
      /\ settleable_after \in [ChannelIds -> Nat] /\ settleable_after[id] \in Nat
      /\ closer_nonce \in [ChannelIds -> Nonces \cup {0}] /\ closer_nonce[id] \in Nonces \cup {0}
  BY <1>2 DEF rewardTypes, ChannelsTypeOK
<1>4. /\ [channel_state EXCEPT ![id] = channel_state[id]] = channel_state
      /\ [settleable_after EXCEPT ![id] = settleable_after[id]] = settleable_after
      /\ [closer_nonce EXCEPT ![id] = closer_nonce[id]] = closer_nonce
  BY <1>3
<1>5. CASE OpenChannel(id)
  <2>1. channelMoves(id, "Opened", settleable_after[id], closer_nonce[id])
    BY <1>4, <1>5 DEF OpenChannel, channelMoves
  <2>2. rewardsEarned(id, "Opened", closer_nonce[id], rewards[id], RewardClaimed)
    BY <1>2, <1>5 DEF OpenChannel, rewardsEarned
  <2>. QED BY <1>3, <2>1, <2>2, ChannelMoveKeeps DEF ChannelStates
<1>6. CASE CooperativeSettle(id)
  <2>1. channelMoves(id, "Removed", settleable_after[id], closer_nonce[id])
    BY <1>4, <1>6 DEF CooperativeSettle, channelMoves
  <2>2. rewardsEarned(id, "Removed", closer_nonce[id], rewards[id], RewardClaimed)
    BY <1>2, <1>6 DEF CooperativeSettle, rewardsEarned
  <2>. QED BY <1>3, <2>1, <2>2, ChannelMoveKeeps DEF ChannelStates
<1>7. CASE CloseChannel(id)
  <2>1. channelMoves(id, "Closed", timestamp + SettleTimeout, closer_nonce[id])
    BY <1>4, <1>7 DEF CloseChannel, channelMoves
  <2>2. rewardsEarned(id, "Closed", closer_nonce[id], rewards[id], RewardClaimed)
    BY <1>2, <1>7 DEF CloseChannel, rewardsEarned
  <2>3. timestamp + SettleTimeout \in Nat
    BY ChannelsAssumption
  <2>. QED BY <1>3, <2>1, <2>2, <2>3, ChannelMoveKeeps DEF ChannelStates
<1>8. CASE \E nonce \in Nonces : UpdateBalanceProof(id, nonce)
  <2>1. PICK nonce \in Nonces : UpdateBalanceProof(id, nonce)
    BY <1>8
  <2>2. channelMoves(id, "Closed", settleable_after[id], nonce)
    BY <1>3, <1>4, <2>1 DEF UpdateBalanceProof, channelMoves
  <2>3. rewardsEarned(id, "Closed", nonce, rewards[id], RewardClaimed)
    <3>0. \A n \in Nonces \cup {0} : n \in Nat
      BY ChannelsAssumption
    <3>1. nonce > closer_nonce[id] /\ channel_state[id] = "Closed" /\ nonce \in Nat
          /\ closer_nonce[id] \in Nat
      BY <1>3, <2>1, <3>0 DEF UpdateBalanceProof, newerProof
    <3>2. \A n \in Nonces : n <= closer_nonce[id] => n <= nonce
      BY <3>1, ChannelsAssumption
    <3>. QED BY <1>2, <3>1, <3>2 DEF rewardsEarned
  <2>. QED BY <1>3, <2>1, <2>2, <2>3, ChannelMoveKeeps DEF ChannelStates
<1>9. CASE Settle(id)
  <2>1. PICK outcome \in {"Settled", "Removed"} :
          channelMoves(id, outcome, 0, 0)
    BY <1>9 DEF Settle, channelMoves
  <2>2. rewardsEarned(id, outcome, 0, rewards[id], RewardClaimed)
    BY <1>2 DEF rewardsEarned
  <2>. QED BY <2>1, <2>2, ChannelMoveKeeps DEF ChannelStates
<1>10. CASE UnlockLast(id)
  <2>1. channelMoves(id, "Removed", settleable_after[id], closer_nonce[id])
    BY <1>4, <1>10 DEF UnlockLast, channelMoves
  <2>2. rewardsEarned(id, "Removed", closer_nonce[id], rewards[id], RewardClaimed)
    BY <1>2 DEF rewardsEarned
  <2>. QED BY <1>3, <2>1, <2>2, ChannelMoveKeeps DEF ChannelStates
<1>. QED BY <1>1, <1>5, <1>6, <1>7, <1>8, <1>9, <1>10

(* Only a proof that is newer than all that were presented is rewarded, and *)
(* so one that has not been rewarded before.                               *)
LEMMA MonitorKeeps ==
  ASSUME RewardsInv, NEW service \in Services, NEW proof \in RewardProofs,
         monitor(service, proof)
  PROVE  RewardsInv'
<1> DEFINE id == proof.channel_identifier
           nonce == proof.nonce
           reward == [reward_amount |-> proof.reward_amount, nonce |-> proof.nonce,
                      monitoring_service_address |-> service]
<1>1. id \in ChannelIds /\ nonce \in Nonces /\ nonce \in Nat \ {0} /\ proof.reward_amount \in Nat
  BY MonitoringAssumption, ChannelsAssumption
<1>2. /\ reward \in [reward_amount : Nat, nonce : Nat,
                     monitoring_service_address : Services \cup {udc}]
      /\ reward.nonce = nonce /\ reward.monitoring_service_address = service
  BY <1>1
<1>3. /\ rewards' = [rewards EXCEPT ![id] = reward]
      /\ channel_state[id] = "Closed" /\ nonce > closer_nonce[id]
      /\ closer_nonce' = [closer_nonce EXCEPT ![id] = nonce]
      /\ UNCHANGED <<channel_state, settleable_after, service_valid_till, RewardClaimed>>
  BY DEF monitor, updateReward, UpdateBalanceProof, newerProof
<1>. HIDE DEF id, nonce, reward
<1>4. rewardTypes
  BY <1>1, RewardsOfOne
<1>5. rewardTypes'
  BY <1>1, <1>2, <1>3, <1>4
     DEF rewardTypes, MonitoringTypeOK, RegistrationsTypeOK, ChannelsTypeOK
<1>6. ASSUME NEW other \in ChannelIds
      PROVE  rewardsEarned(other, channel_state'[other], closer_nonce'[other], rewards'[other],
                           RewardClaimed')
  <2>1. rewardsEarned(other, channel_state[other], closer_nonce[other], rewards[other],
                      RewardClaimed)
    BY RewardsOfOne
  <2>2. CASE other = id
    <3>1. /\ rewards'[other] = reward /\ closer_nonce'[other] = nonce
          /\ channel_state'[other] = "Closed" /\ RewardClaimed' = RewardClaimed
      BY <1>1, <1>3, <1>4, <2>2 DEF rewardTypes, MonitoringTypeOK, ChannelsTypeOK
    <3>0. \A n \in Nonces \cup {0} : n \in Nat
      BY ChannelsAssumption
    <3>2. /\ closer_nonce[other] \in Nat /\ closer_nonce[other] < nonce
          /\ \A n \in Nonces : n \in Nat
          /\ \A n \in Nonces : RewardClaimed[<<other, n>>] \in Nat
      <4>1. closer_nonce[other] \in Nonces \cup {0}
        BY <1>4 DEF rewardTypes, ChannelsTypeOK
      <4>2. \A n \in Nonces : RewardClaimed[<<other, n>>] \in Nat
        BY <1>4 DEF rewardTypes, MonitoringTypeOK
      <4>. QED BY <1>3, <2>2, <3>0, <4>1, <4>2
    <3>3. channel_state[other] = "Closed"
      BY <1>3, <2>2
    <3>4. \A n \in Nonces : RewardClaimed[<<other, n>>] > 0 => n <= closer_nonce[other]
      BY <2>1, <3>3 DEF rewardsEarned
    <3>5. RewardClaimed[<<other, nonce>>] = 0
      BY <1>1, <3>2, <3>4
    <3>6. \A n \in Nonces : RewardClaimed[<<other, n>>] > 0 => n <= nonce
      BY <1>1, <3>2, <3>4
    <3>7. \A n \in Nonces : RewardClaimed[<<other, n>>] <= 1
      BY <2>1 DEF rewardsEarned
    <3>8. reward.nonce <= nonce /\ reward.nonce \in Nonces
          /\ reward.monitoring_service_address \in Services
      BY <1>1, <1>2
    <3>. QED BY <1>2, <3>1, <3>5, <3>6, <3>7, <3>8 DEF rewardsEarned
  <2>3. CASE other # id
    <3>1. /\ rewards'[other] = rewards[other] /\ closer_nonce'[other] = closer_nonce[other]
          /\ channel_state'[other] = channel_state[other] /\ RewardClaimed' = RewardClaimed
      BY <1>1, <1>3, <1>4, <2>3 DEF rewardTypes, MonitoringTypeOK, ChannelsTypeOK
    <3>. QED BY <2>1, <3>1
  <2>. QED BY <2>2, <2>3
<1>7. eachEarned'
  BY <1>6 DEF eachEarned, rewardsEarned, NoReward
<1>. QED BY <1>5, <1>7, RewardsOneByOne, PTL

(* A claim pays what waits for it, once.                                   *)
LEMMA ClaimRewardKeeps ==
  ASSUME DepositsInv, RewardsInv, NEW id \in ChannelIds, claimReward(id), UNCHANGED timestamp
  PROVE  DepositsInv' /\ RewardsInv'
<1> DEFINE reward == rewards[id]
           sender == NonClosing[id]
           nonce  == reward.nonce
           service == reward.monitoring_service_address
           amount == reward.reward_amount
<1>1. /\ reward # NoReward
      /\ balances[sender] >= amount
      /\ balances' = afterTransfer(balances, sender, service, amount)
      /\ transferred' = [transferred EXCEPT ![sender] = @ + amount]
      /\ RewardClaimed' = [RewardClaimed EXCEPT ![<<id, nonce>>] = @ + 1]
      /\ rewards' = [rewards EXCEPT ![id] = NoReward]
      /\ UNCHANGED <<token, total_deposit, withdraw_plans, whole_balance, reading,
                     service_valid_till, channelsVars>>
  BY DEF claimReward, canTransfer
<1>2. /\ rewardTypes
      /\ rewardsEarned(id, channel_state[id], closer_nonce[id], reward, RewardClaimed)
  BY RewardsOfOne
<1>3. /\ nonce \in Nonces /\ service \in Services
      /\ channel_state[id] \in {"Closed", "Settled", "Removed"}
      /\ channel_state[id] = "Closed" => nonce <= closer_nonce[id]
      /\ RewardClaimed[<<id, nonce>>] = 0
  BY <1>1, <1>2 DEF rewardsEarned
<1>4. amount \in Nat
  BY <1>2 DEF rewardTypes, MonitoringTypeOK
<1>. HIDE DEF reward, nonce, service, amount
<1>5. DepositsInv'
  <2>1. /\ sender \in Users /\ service \in Users
        /\ balances \in [Users -> Nat] /\ transferred \in [Users -> Nat]
    BY <1>3, MonitoringAssumption DEF DepositsInv, DepositsCovered, UserDepositTypeOK
  <2>2. amount <= balances[sender]
    BY <1>1, <1>4, <2>1
  <2>. HIDE DEF sender
  <2>3. PaidBetween(balances, transferred, balances', transferred')
    BY <1>1, <1>4, <2>1, <2>2, TransferPays
  <2>. QED BY <1>1, <2>3, PaymentsKeepDeposits DEF depositOnlyVars
<1>6. /\ NoReward \in [reward_amount : Nat, nonce : Nat,
                       monitoring_service_address : Services \cup {udc}]
  BY DEF NoReward
<1>7. rewardTypes'
  <2>1. MonitoringTypeOK'
    BY <1>1, <1>2, <1>3, <1>6 DEF rewardTypes, MonitoringTypeOK
  <2>. QED BY <1>1, <1>2, <2>1 DEF rewardTypes, RegistrationsTypeOK, ChannelsTypeOK, channelsVars
<1>8. /\ RewardClaimed'[<<id, nonce>>] = 1
      /\ \A other \in ChannelIds, n \in Nonces :
           <<other, n>> # <<id, nonce>> => RewardClaimed'[<<other, n>>] = RewardClaimed[<<other, n>>]
  BY <1>1, <1>2, <1>3 DEF rewardTypes, MonitoringTypeOK
<1>9. ASSUME NEW other \in ChannelIds
      PROVE  rewardsEarned(other, channel_state'[other], closer_nonce'[other], rewards'[other],
                           RewardClaimed')
  <2>1. rewardsEarned(other, channel_state[other], closer_nonce[other], rewards[other],
                      RewardClaimed)
    BY RewardsOfOne
  <2>2. channel_state' = channel_state /\ closer_nonce' = closer_nonce
    BY <1>1 DEF channelsVars
  <2>3. CASE other = id
    <3>1. rewards'[other] = NoReward
      BY <1>1, <1>2, <2>3 DEF rewardTypes, MonitoringTypeOK
    <3>2. ASSUME NEW n \in Nonces
          PROVE  /\ RewardClaimed'[<<other, n>>] <= 1
                 /\ channel_state[other] = "Closed" /\ RewardClaimed'[<<other, n>>] > 0
                      => n <= closer_nonce[other]
      <4>1. CASE n = nonce
        BY <1>3, <1>8, <2>3, <4>1
      <4>2. CASE n # nonce
        <5>1. RewardClaimed'[<<other, n>>] = RewardClaimed[<<other, n>>]
          BY <1>8, <4>2
        <5>. QED BY <2>1, <5>1 DEF rewardsEarned
      <4>. QED BY <4>1, <4>2
    <3>. QED BY <1>3, <2>2, <2>3, <3>1, <3>2 DEF rewardsEarned
  <2>4. CASE other # id
    <3>1. /\ rewards'[other] = rewards[other]
          /\ \A n \in Nonces : RewardClaimed'[<<other, n>>] = RewardClaimed[<<other, n>>]
      BY <1>1, <1>2, <1>8, <2>4 DEF rewardTypes, MonitoringTypeOK
    <3>. QED BY <2>1, <2>2, <3>1 DEF rewardsEarned
  <2>. QED BY <2>3, <2>4
<1>10. eachEarned'
  BY <1>9 DEF eachEarned, rewardsEarned, NoReward
<1>11. RewardsInv'
  BY <1>7, <1>10, RewardsOneByOne, PTL
<1>. QED BY <1>5, <1>11

LEMMA RegisterKeeps ==
  ASSUME RewardsInv, NEW s \in Services, Register(s), timestamp \in Nat,
         UNCHANGED <<channelsVars, monitoringVars>>
  PROVE  RewardsInv'
<1>1. rewardTypes
  BY DEF RewardsInv, RewardsAreEarned, rewardTypes
<1>2. service_valid_till' \in [Services -> Nat]
  <2>1. PICK d \in Durations :
          service_valid_till' = [service_valid_till EXCEPT ![s] = extendedFrom(@) + d]
    BY DEF Register
  <2>2. d \in Nat /\ service_valid_till \in [Services -> Nat]
    BY <1>1, DurationsAssumption DEF rewardTypes, RegistrationsTypeOK
  <2>3. extendedFrom(service_valid_till[s]) \in Nat
    BY <2>2 DEF extendedFrom
  <2>. QED BY <2>1, <2>2, <2>3
<1>. QED BY <1>2 DEF RewardsInv, RewardsAreEarned, RewardsPending, RegistrationsTypeOK,
                     MonitoringTypeOK, ChannelsTypeOK, channelsVars, monitoringVars, NoReward

LEMMA RewardsUntouched ==
  ASSUME RewardsInv, UNCHANGED <<service_valid_till, channelsVars, monitoringVars>>
  PROVE  RewardsInv'
BY DEF RewardsInv, RewardsAreEarned, RewardsPending, RegistrationsTypeOK,
       MonitoringTypeOK, ChannelsTypeOK, channelsVars, monitoringVars, NoReward

LEMMA DepositsUntouched ==
  ASSUME DepositsInv, UNCHANGED <<timestamp, userDepositVars>>
  PROVE  DepositsInv'
BY DEF DepositsInv, ClockTypeOK, DepositsCovered, UserDepositTypeOK, ReadingsLast,
       userDepositVars, accountVars

LEMMA SessionsUntouched ==
  ASSUME SessionsInv, UNCHANGED oneToNVars
  PROVE  SessionsInv'
BY DEF SessionsInv, oneToNVars

-----------------------------------------------------------------------------
LEMMA ServicesInitially == Init => ServicesInv
<1> SUFFICES ASSUME Init PROVE ServicesInv
  OBVIOUS
<1>1. DepositsInv
  <2>1. ClockTypeOK
    BY DEF Init, ClockInit, ClockTypeOK
  <2>2. /\ balances = [u \in Users |-> 0] /\ whole_balance = 0
        /\ total_deposit = [u \in Users |-> 0] /\ transferred = [u \in Users |-> 0]
        /\ withdraw_plans = [u \in Users |-> NoPlan]
        /\ reading = [u \in Watched |-> NoReading]
        /\ token = [a \in Users \cup {udc} |-> IF a = udc THEN 0 ELSE InitialTokens[a]]
    BY DEF Init, UserDepositInit
  <2>3. Total(balances) = 0
    BY <2>2, TotalOfZeros
  <2>4. UserDepositTypeOK
    BY <2>2, UserDepositAssumption DEF UserDepositTypeOK, NoPlan, NoReading
  <2>5. DepositsCovered
    BY <2>2, <2>3, <2>4, UserDepositAssumption DEF DepositsCovered
  <2>6. ASSUME NEW u \in Watched
        PROVE  readingLasts(u, reading[u], withdraw_plans[u], balances[u], transferred[u], timestamp)
    <3>1. /\ u \in Users /\ reading[u] = NoReading /\ balances[u] = 0 /\ transferred[u] = 0
          /\ timestamp \in Nat /\ withdraw_timeout \in Nat
      BY <2>1, <2>2, UserDepositAssumption DEF ClockTypeOK
    <3>. QED BY <3>1 DEF readingLasts, NoReading
  <2>. QED BY <2>1, <2>5, <2>6, ReadingsOneByOne DEF DepositsInv
<1>2. SessionsInv
  BY DEF Init, OneToNInit, SessionsInv, SessionsSound
<1>3. RewardsInv
  <2>1. rewardTypes
    <3>1. 0 \in Nonces \cup {0}
      OBVIOUS
    <3>. QED BY <3>1 DEF Init, RegistrationsInit, ChannelsInit, MonitoringInit, rewardTypes,
                RegistrationsTypeOK, ChannelsTypeOK, ChannelStates, MonitoringTypeOK, NoReward
  <2>2. eachEarned
    BY DEF Init, ChannelsInit, MonitoringInit, eachEarned, rewardsEarned
  <2>. QED BY <2>1, <2>2, RewardsOneByOne
<1>. QED BY <1>1, <1>2, <1>3 DEF ServicesInv

LEMMA ServicesStep == ServicesInv /\ [Next]_vars => ServicesInv'
<1> SUFFICES ASSUME ServicesInv, [Next]_vars PROVE ServicesInv'
  OBVIOUS
<1>0. DepositsInv /\ SessionsInv /\ RewardsInv /\ timestamp \in Nat
  BY DEF ServicesInv, DepositsInv, ClockTypeOK
<1>1. CASE /\ NextBlock
           /\ UNCHANGED <<userDepositVars, service_valid_till, oneToNVars, channelsVars,
                          monitoringVars>>
  BY <1>0, <1>1, BlockKeepsDeposits, SessionsUntouched, RewardsUntouched DEF ServicesInv
<1>2. CASE /\ UserDepositStep
           /\ UNCHANGED <<timestamp, service_valid_till, oneToNVars, channelsVars, monitoringVars>>
  BY <1>0, <1>2, UserDepositKeeps, SessionsUntouched, RewardsUntouched DEF ServicesInv
<1>3. CASE /\ \E s \in Services : Register(s)
           /\ UNCHANGED <<timestamp, userDepositVars, oneToNVars, channelsVars, monitoringVars>>
  BY <1>0, <1>3, DepositsUntouched, SessionsUntouched, RegisterKeeps DEF ServicesInv
<1>4. CASE /\ OneToNStep
           /\ UNCHANGED <<timestamp, service_valid_till, channelsVars, monitoringVars>>
  BY <1>0, <1>4, OneToNKeeps, RewardsUntouched DEF ServicesInv
<1>5. CASE /\ ChannelsStep
           /\ UNCHANGED <<timestamp, userDepositVars, service_valid_till, oneToNVars, monitoringVars>>
  BY <1>0, <1>5, DepositsUntouched, SessionsUntouched, ChannelsKeep DEF ServicesInv
<1>6. CASE MonitoringStep /\ UNCHANGED <<timestamp, oneToNVars>>
  <2>1. ASSUME NEW s \in Services, NEW proof \in RewardProofs, monitor(s, proof)
        PROVE  ServicesInv'
    <3>1. UNCHANGED userDepositVars
      BY <2>1 DEF monitor
    <3>. QED BY <1>0, <1>6, <2>1, <3>1, DepositsUntouched, SessionsUntouched, MonitorKeeps
             DEF ServicesInv
  <2>2. ASSUME NEW id \in ChannelIds, claimReward(id)
        PROVE  ServicesInv'
    BY <1>0, <1>6, <2>2, SessionsUntouched, ClaimRewardKeeps DEF ServicesInv
  <2>. QED BY <1>6, <2>1, <2>2 DEF MonitoringStep
<1>7. CASE UNCHANGED vars
  BY <1>0, <1>7, DepositsUntouched, SessionsUntouched, RewardsUntouched DEF ServicesInv, vars
<1>. QED BY <1>1, <1>2, <1>3, <1>4, <1>5, <1>6, <1>7 DEF Next

(* The invariant of the service contracts holds in every state.            *)
THEOREM ServicesInvariance == Spec => []ServicesInv
BY ServicesInitially, ServicesStep, PTL DEF Spec

(* The UserDeposit contract holds what its books say, within the limit,    *)
(* whatever the clients deposit, plan and withdraw and the services claim. *)
THEOREM DepositsSafety == Spec => []DepositsCovered
<1>1. ServicesInv => DepositsCovered
  BY DEF ServicesInv, DepositsInv
<1>. QED BY <1>1, ServicesInvariance, PTL

(* What a service reads as the effective balance of a client can only be   *)
(* paid out to services for as long as a withdrawal takes to plan.         *)
THEOREM EffectiveBalanceSafety == Spec => []EffectiveBalanceLasts
<1>1. ServicesInv => EffectiveBalanceLasts
  BY ReadingTypes DEF ServicesInv, DepositsInv, ReadingsLast, EffectiveBalanceLasts
<1>. QED BY <1>1, ServicesInvariance, PTL

(* A session is paid at most once, with no more than one of its IOUs       *)
(* promises, in bulks of any length and any order.                         *)
THEOREM SessionsSafety == Spec => []SessionPaidOnce
<1>1. ServicesInv => SessionPaidOnce
  <2> SUFFICES ASSUME SessionsInv PROVE SessionPaidOnce
    BY DEF ServicesInv
  <2>. QED BY DEF SessionsInv, SessionsSound, SessionPaidOnce, OneToNTypeOK
<1>. QED BY <1>1, ServicesInvariance, PTL

(* Nobody is rewarded twice for one balance proof, nor for an open channel. *)
THEOREM RewardsSafety == Spec => []RewardsAreEarned
<1>1. ServicesInv => RewardsAreEarned
  BY DEF ServicesInv, RewardsInv
<1>. QED BY <1>1, ServicesInvariance, PTL
=============================================================================
