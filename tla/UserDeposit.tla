---------------------------- MODULE UserDeposit ----------------------------
(***************************************************************************)
(* The UserDeposit contract and the ERC20 token it holds: users deposit,   *)
(* the trusted contracts OneToN and MonitoringService transfer balances    *)
(* between users, and users withdraw, after having planned to.  A call     *)
(* that reverts is no step.                                                *)
(***************************************************************************)
EXTENDS Clock, Sums

CONSTANTS
  Users,               \* accounts: clients and services
  udc,                 \* the address of the contract
  InitialTokens,       \* what each user owns at the start
  whole_balance_limit,
  withdraw_timeout,
  TotalDeposits,       \* values of new_total_deposit that are asked for
  WithdrawAmounts,     \* amounts that are planned and withdrawn
  Watched              \* users whose effective balance services rely on

ASSUME UserDepositAssumption ==
  /\ IsFiniteSet(Users) /\ udc \notin Users /\ Watched \subseteq Users
  /\ InitialTokens \in [Users -> Nat]
  /\ whole_balance_limit \in Nat \ {0} /\ withdraw_timeout \in Nat
  /\ TotalDeposits \subseteq Nat /\ WithdrawAmounts \subseteq Nat

VARIABLES
  token,                                                     \* ERC20 balances
  total_deposit, balances, withdraw_plans, whole_balance,
  transferred,    \* what the trusted contracts have taken from each user so far
  reading         \* what a service once read of a watched user's balance

accountVars     == <<total_deposit, balances, withdraw_plans, whole_balance>>
userDepositVars == <<token, accountVars, transferred, reading>>

NoPlan    == [amount |-> 0, withdrawable_after |-> 0]
NoReading == [amount |-> 0, until |-> 0, transferred |-> 0]

UserDepositTypeOK ==
  /\ token \in [Users \cup {udc} -> Nat]
  /\ total_deposit \in [Users -> Nat]
  /\ balances \in [Users -> Nat]
  /\ withdraw_plans \in [Users -> [amount : Nat, withdrawable_after : Nat]]
  /\ whole_balance \in Nat
  /\ transferred \in [Users -> Nat]
  /\ reading \in [Watched -> [amount : Nat, until : Nat, transferred : Nat]]

UserDepositInit ==
  /\ token = [a \in Users \cup {udc} |-> IF a = udc THEN 0 ELSE InitialTokens[a]]
  /\ total_deposit = [u \in Users |-> 0] /\ balances = [u \in Users |-> 0]
  /\ withdraw_plans = [u \in Users |-> NoPlan]
  /\ whole_balance = 0
  /\ transferred = [u \in Users |-> 0]
  /\ reading = [u \in Watched |-> NoReading]

\* A transfer of the token contract, which refuses to move nothing.
tokensMove(from, to, amount) ==
  /\ amount > 0 /\ token[from] >= amount
  /\ token' = [a \in DOMAIN token |->
       token[a] - (IF a = from THEN amount ELSE 0) + (IF a = to THEN amount ELSE 0)]

deposit(owner, beneficiary, new_total_deposit) ==
  LET added_deposit == new_total_deposit - total_deposit[beneficiary]
  IN  /\ new_total_deposit > total_deposit[beneficiary]
      /\ balances' = [balances EXCEPT ![beneficiary] = @ + added_deposit]
      /\ total_deposit' = [total_deposit EXCEPT ![beneficiary] = @ + added_deposit]
      /\ whole_balance' = whole_balance + added_deposit
      /\ whole_balance' <= whole_balance_limit
      /\ tokensMove(owner, udc, added_deposit)
      /\ UNCHANGED <<withdraw_plans, transferred, reading>>

\* transfer: what a trusted contract may move, and the balances afterwards.
canTransfer(held, sender, receiver, amount) ==
  sender # receiver /\ held[sender] >= amount /\ amount > 0

afterTransfer(held, sender, receiver, amount) ==
  [[held EXCEPT ![sender] = @ - amount] EXCEPT ![receiver] = @ + amount]

\* The mutant keeps the date of the plan it replaces, if it was later than now.
plannedDateKeptMutant(owner) ==
  IF withdraw_plans[owner].amount > 0 THEN withdraw_plans[owner].withdrawable_after
  ELSE timestamp + withdraw_timeout

plannedDate(owner) == timestamp + withdraw_timeout

planWithdraw(owner, amount) ==
  /\ amount > 0
  /\ balances[owner] >= amount
  /\ withdraw_plans' = [withdraw_plans EXCEPT ![owner] =
       [amount |-> amount, withdrawable_after |-> plannedDate(owner)]]
  /\ UNCHANGED <<token, total_deposit, balances, whole_balance, transferred, reading>>

withdrawable(owner, amount) ==
  IF amount < balances[owner] THEN amount ELSE balances[owner]

\* The mutant takes the planned amount, of which less may be left, off the sum.
wholeBalancePlannedMutant(owner, amount) == whole_balance - amount

wholeBalanceAfter(owner, amount) == whole_balance - withdrawable(owner, amount)

\* withdraw and withdrawToBeneficiary.  The plan is gone even if less is taken.
withdraw(owner, amount, beneficiary) ==
  LET plan  == withdraw_plans[owner]
      taken == withdrawable(owner, amount)
  IN  /\ amount <= plan.amount
      /\ plan.withdrawable_after <= timestamp
      /\ balances' = [balances EXCEPT ![owner] = @ - taken]
      /\ whole_balance' = wholeBalanceAfter(owner, amount)
      /\ withdraw_plans' = [withdraw_plans EXCEPT ![owner] = NoPlan]
      /\ tokensMove(udc, beneficiary, taken)
      /\ UNCHANGED <<total_deposit, transferred, reading>>

effectiveBalance(owner) ==
  LET planned == withdraw_plans[owner].amount
  IN  IF planned > balances[owner] THEN 0 ELSE balances[owner] - planned

\* A service reads the effective balance of a client before it serves it.
readEffectiveBalance(owner) ==
  /\ reading[owner] = NoReading
  /\ reading' = [reading EXCEPT ![owner] =
       [amount |-> effectiveBalance(owner), until |-> timestamp + withdraw_timeout,
        transferred |-> transferred[owner]]]
  /\ UNCHANGED <<token, accountVars, transferred>>

UserDepositStep ==
  \/ \E u, v \in Users, total \in TotalDeposits : deposit(u, v, total)
  \/ \E u \in Users, amount \in WithdrawAmounts : planWithdraw(u, amount)
  \/ \E u \in Users, b \in Users \cup {udc}, amount \in WithdrawAmounts : withdraw(u, amount, b)
  \/ \E u \in Watched : readEffectiveBalance(u)

-----------------------------------------------------------------------------
(* Properties.                                                             *)

\* The contract holds at least what its users' balances add up to (more if
\* somebody withdrew to the contract itself), whole_balance is that sum, and
\* it stays within the limit: neither a transfer between two users nor a
\* withdrawal of a balance that has shrunk since it was planned is forgotten.
DepositsCovered ==
  /\ UserDepositTypeOK
  /\ whole_balance = Total(balances)
  /\ token[udc] >= whole_balance
  /\ whole_balance <= whole_balance_limit

\* What a service has read as a client's effective balance is still there until
\* withdraw_timeout has passed, but for what the trusted contracts have paid to
\* services from it, whatever the client has planned, replanned, withdrawn and
\* deposited, before and since.
EffectiveBalanceLasts ==
  \A u \in Watched : timestamp < reading[u].until =>
    balances[u] + (transferred[u] - reading[u].transferred) >= reading[u].amount
=============================================================================
