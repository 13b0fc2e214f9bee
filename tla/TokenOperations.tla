--------------------------- MODULE TokenOperations ---------------------------
(***************************************************************************)
(* The commands of utils/token_ops.py (mint, weth, transfer), run by an    *)
(* operator against a node, and what their transactions do to a            *)
(* CustomToken and to WETH.  Several commands run at the same time, for    *)
(* one account too; their transactions are mined later, if ever, and an    *)
(* operator starts a failed command again.                                 *)
(***************************************************************************)
EXTENDS Naturals, Sequences, Sums

CONSTANTS
  Accounts,
  Commands,
  Plan,         \* what each command does
  Held,         \* the tokens, WETH and ether of each account at first
  UINT256_MAX,  \* reduced
  MaxRuns       \* bound: runs of a command

CommandsAssumption ==
  /\ UINT256_MAX \in Nat /\ MaxRuns \in Nat
  /\ Plan \in [Commands -> [operation : {"mint", "weth", "transfer"}, owner : Accounts,
                            dest : Accounts, amount : 0 .. UINT256_MAX]]
  /\ Held \in [{"token", "weth", "ether"} -> [Accounts -> 0 .. UINT256_MAX]]
  /\ IsFiniteSet(Accounts) /\ Total(Held["token"]) =< UINT256_MAX
  /\ \A a \in Accounts : Held["weth"][a] + Held["ether"][a] =< UINT256_MAX

VARIABLES
  balances,       \* of each asset and account
  _total_supply,  \* of the CustomToken
  pending,        \* per account, its transactions in the order of their nonces
  at,             \* where the current run of a command is
  receipt,        \* of the transaction of the current run, NoReceipt until it is mined
  overtaken,      \* another transaction has spent the owner's tokens since the check
  runs

vars == <<balances, _total_supply, pending, at, receipt, overtaken, runs>>

NoReceipt == [status |-> "none", moved |-> FALSE]

TypeOK ==
  /\ balances \in [{"token", "weth", "ether"} -> [Accounts -> 0 .. UINT256_MAX]]
  /\ _total_supply \in 0 .. UINT256_MAX
  /\ pending \in [Accounts -> Seq(Commands \X (1 .. MaxRuns))]
  /\ at \in [Commands -> {"idle", "checked", "sent", "ok", "failed"}]
  /\ receipt \in [Commands -> [status : {"none", "ok", "reverted"}, moved : BOOLEAN]]
  /\ overtaken \in [Commands -> BOOLEAN]
  /\ runs \in [Commands -> 0 .. MaxRuns]

tokensHeld(token) == Total(token)

Init ==
  /\ balances = Held
  /\ _total_supply = tokensHeld(Held["token"])
  /\ pending = [a \in Accounts |-> <<>>]
  /\ at = [c \in Commands |-> "idle"]
  /\ receipt = [c \in Commands |-> NoReceipt]
  /\ overtaken = [c \in Commands |-> FALSE]
  /\ runs = [c \in Commands |-> 0]

chainVars == <<balances, _total_supply, pending>>

-----------------------------------------------------------------------------
(* A command.                                                              *)

\* The mutant forgets the assertion.
assertsNothingMutant(c) == TRUE

\* The balance a command asserts before it sends anything.
assertsBalance(c) ==
  LET plan == Plan[c]
  IN  CASE plan.operation = "mint"     -> TRUE
        [] plan.operation = "weth"     -> balances["ether"][plan.owner] > plan.amount
        [] plan.operation = "transfer" -> balances["token"][plan.owner] >= plan.amount

Start(c) ==
  /\ at[c] \in {"idle", "failed"} /\ runs[c] < MaxRuns
  /\ runs' = [runs EXCEPT ![c] = @ + 1]
  /\ receipt' = [receipt EXCEPT ![c] = NoReceipt]
  /\ overtaken' = [overtaken EXCEPT ![c] = FALSE]
  /\ at' = [at EXCEPT ![c] = IF assertsBalance(c) THEN "checked" ELSE "failed"]
  /\ UNCHANGED chainVars

transferred(token, from, to, amount) ==
  LET debited == [token EXCEPT ![from] = @ - amount]
  IN  [debited EXCEPT ![to] = @ + amount]

\* What a mined transaction does to the balances and the supply, and how it ends.
nothingDone ==
  [balances |-> balances, supply |-> _total_supply, moved |-> FALSE, status |-> "ok"]

mintFor(owner, amount) ==
  IF _total_supply + amount > UINT256_MAX
  THEN [nothingDone EXCEPT !.status = "reverted"]
  ELSE [nothingDone EXCEPT !.balances["token"][owner] = @ + amount,
                           !.supply = @ + amount, !.moved = TRUE]

deposit(owner, amount) ==
  IF balances["ether"][owner] < amount
  THEN [nothingDone EXCEPT !.status = "unfunded"]
  ELSE [nothingDone EXCEPT !.balances["ether"][owner] = @ - amount,
                           !.balances["weth"][owner] = @ + amount, !.moved = TRUE]

\* StandardToken returns false where it cannot transfer, and does not revert.
transfer(owner, dest, amount) ==
  IF balances["token"][owner] >= amount /\ amount > 0
  THEN [nothingDone EXCEPT !.balances["token"] = transferred(@, owner, dest, amount),
                           !.moved = TRUE]
  ELSE nothingDone

executed(c) ==
  LET plan == Plan[c]
  IN  CASE plan.operation = "mint"     -> mintFor(plan.owner, plan.amount)
        [] plan.operation = "weth"     -> deposit(plan.owner, plan.amount)
        [] plan.operation = "transfer" -> transfer(plan.owner, plan.dest, plan.amount)

\* transact: estimates the gas, where a transaction that would revert fails,
\* and sends.  The node may keep a transaction whose sender never hears of it.
Send(c) ==
  /\ at[c] = "checked"
  /\ LET send == [pending EXCEPT ![Plan[c].owner] = Append(@, <<c, runs[c]>>)]
     IN  \/ /\ executed(c).status = "ok"
            /\ pending' = send
            /\ at' = [at EXCEPT ![c] = "sent"]
         \/ /\ pending' \in {pending, send}
            /\ executed(c).status # "ok" => pending' = pending
            /\ at' = [at EXCEPT ![c] = "failed"]
  /\ UNCHANGED <<balances, _total_supply, receipt, overtaken, runs>>

\* With a receipt, only its status and the gas count: a transaction that used
\* all its gas is taken for a failure even if it went through.
check_successful_tx(c) ==
  /\ at[c] = "sent" /\ receipt[c].status # "none"
  /\ \/ receipt[c].status = "ok" /\ at' = [at EXCEPT ![c] = "ok"]
     \/ at' = [at EXCEPT ![c] = "failed"]
  /\ UNCHANGED <<chainVars, receipt, overtaken, runs>>

\* The mutant waits without a timeout.
waitsForeverMutant(c) ==
  /\ at[c] = "sent" /\ receipt[c].status = "none"
  /\ UNCHANGED vars

TimesOut(c) ==
  /\ at[c] = "sent" /\ receipt[c].status = "none"
  /\ at' = [at EXCEPT ![c] = "failed"]
  /\ UNCHANGED <<chainVars, receipt, overtaken, runs>>

-----------------------------------------------------------------------------
(* The chain: the next transaction of an account is mined.                 *)
Mine(a) ==
  /\ pending[a] # <<>>
  /\ LET c      == Head(pending[a])[1]
         run    == Head(pending[a])[2]
         result == executed(c)
     IN  /\ result.status # "unfunded"
         /\ balances' = result.balances
         /\ _total_supply' = result.supply
         /\ receipt' = IF run = runs[c] /\ at[c] = "sent"
                       THEN [receipt EXCEPT ![c] = [status |-> result.status,
                                                    moved |-> result.moved]]
                       ELSE receipt
         /\ overtaken' = [d \in Commands |->
              \/ overtaken[d]
              \/ /\ at[d] \in {"checked", "sent"} /\ receipt[d].status = "none"
                 /\ <<d, runs[d]>> # <<c, run>>
                 /\ Plan[d].owner = a /\ Plan[c].operation = "transfer"]
  /\ pending' = [pending EXCEPT ![a] = Tail(@)]
  /\ UNCHANGED <<at, runs>>

Proceed(c) == Send(c) \/ check_successful_tx(c) \/ TimesOut(c)

Next ==
  \/ \E c \in Commands : Start(c) \/ Proceed(c)
  \/ \E a \in Accounts : Mine(a)

Spec == Init /\ [][Next]_vars

\* A command that has been started runs on; nothing need ever be mined.
FairSpec == Spec /\ \A c \in Commands : WF_vars(Proceed(c))

-----------------------------------------------------------------------------
\* What a command reports as done has been done: the receipt it waited for does
\* not tell if a transfer moved anything, so it takes the balance check before
\* it, and no other transfer of the owner's, from another command or an earlier
\* run that was given up, mined in between.
SuccessMeansMoved ==
  \A c \in Commands :
    at[c] = "ok" => receipt[c].moved \/ overtaken[c] \/ Plan[c].amount = 0

\* Retries, late receipts and overlapping commands never make tokens or ether
\* out of nothing: the supply is what the accounts hold, and ether leaves an
\* account only as WETH.
NothingFromNothing ==
  /\ _total_supply = tokensHeld(balances["token"])
  /\ \A a \in Accounts :
       balances["weth"][a] + balances["ether"][a] = Held["weth"][a] + Held["ether"][a]

\* Again and again a command is not under way: it comes to an end, even if its
\* transaction is never mined.
CommandsEnd == \A c \in Commands : []<>(at[c] \notin {"checked", "sent"})
=============================================================================
