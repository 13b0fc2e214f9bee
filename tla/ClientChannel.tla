--------------------------- MODULE ClientChannel ---------------------------
(***************************************************************************)
(* One channel between two Raiden clients, A and B: what they sign         *)
(* off-chain under the constraints of tests/utils/channel.py, and what a   *)
(* settlement with any of the balance data they have signed, old or        *)
(* latest, then pays them once every lock is decided and unlocked.         *)
(*                                                                         *)
(* The clients are not part of the repository.  A message counts as        *)
(* received when it is signed; a receiver that is late only knows less and *)
(* does less.                                                              *)
(***************************************************************************)
EXTENDS Settlement, Sums

CONSTANTS
  A, B,
  Payments,                  \* locked transfers, each sent at most once
  amount,                    \* amount[x]: what payment x transfers
  TotalDeposits, TotalWithdraws    \* totals that are asked for on-chain

ASSUME ClientAssumption ==
  /\ A # B
  /\ IsFiniteSet(Payments)
  /\ amount \in [Payments -> Nat \ {0}]
  /\ TotalDeposits \subseteq Uint /\ TotalWithdraws \subseteq Uint

VARIABLES
  account,    \* on-chain: deposit and withdrawn_amount of each client
  latest,     \* the last balance data each client has signed
  signed,     \* all the balance data each client has ever signed
  secret,     \* what became of each payment's secret
  closed,     \* whether the channel is closed
  settled     \* and then the balance data it is settled with

vars == <<account, latest, signed, secret, closed, settled>>

Clients    == {A, B}
partner(p) == IF p = A THEN B ELSE A

\* Unsent; pending until the secret is known; then revealed off-chain, or
\* registered on-chain in time; expired if it was not when the lock expired.
SecretStates == {"unsent", "pending", "revealed", "registered", "expired"}

Data   == [transferred : Nat, locks : SUBSET Payments]
noData == [transferred |-> 0, locks |-> {}]   \* no balance proof

\* Amounts on-chain stay in uint256; everything else has its type.
TypeOK ==
  /\ account \in [Clients -> [deposit : Uint, withdrawn_amount : Uint]]
  /\ latest \in [Clients -> Data]
  /\ signed \in [Clients -> SUBSET Data]
  /\ secret \in [Payments -> SecretStates]
  /\ closed \in BOOLEAN /\ settled \in [Clients -> Data]

Init ==
  /\ account = [p \in Clients |-> [deposit |-> 0, withdrawn_amount |-> 0]]
  /\ latest = [p \in Clients |-> noData]
  /\ signed = [p \in Clients |-> {noData}]
  /\ secret = [x \in Payments |-> "unsent"]
  /\ closed = FALSE /\ settled = [p \in Clients |-> noData]

-----------------------------------------------------------------------------
amountOf(payments) == Total([x \in payments |-> amount[x]])

locked(data) == amountOf(data.locks)

claimableAfterExpiryMutant(x) == secret[x] \in {"registered", "expired"}

\* A lock counts only if its secret was registered before it expired.
claimable(x) == secret[x] = "registered"

claimableLocked(data) == amountOf({x \in data.locks : claimable(x)})

\* The constraints of are_balance_proofs_valid for accounts acc and data.
valid(acc, data) ==
  /\ are_balance_proofs_valid(acc[A], data[A].transferred, locked(data[A]),
                              acc[B], data[B].transferred, locked(data[B]))
  /\ \A p \in Clients :
       locked(data[p]) <= get_participant_available_balance(
         acc[p], data[p].transferred, locked(data[p]), data[partner(p)].transferred)

\* p signs data, which both then know.
signs(p, data) ==
  /\ latest' = [latest EXCEPT ![p] = data]
  /\ signed' = [signed EXCEPT ![p] = @ \cup {data}]

-----------------------------------------------------------------------------

setTotalDeposit(p, total_deposit) ==
  /\ ~closed
  /\ total_deposit > account[p].deposit
  /\ account' = [account EXCEPT ![p].deposit = total_deposit]
  /\ total_deposit + account[partner(p)].deposit \in Uint
  /\ UNCHANGED <<latest, signed, secret, closed, settled>>

\* Both sign a withdraw that leaves the latest balance data valid.
setTotalWithdraw(p, total_withdraw) ==
  /\ ~closed
  /\ total_withdraw > account[p].withdrawn_amount
  /\ account' = [account EXCEPT ![p].withdrawn_amount = total_withdraw]
  /\ valid(account', latest)
  /\ UNCHANGED <<latest, signed, secret, closed, settled>>

\* p sends a locked transfer.
lockedTransfer(p, x) ==
  LET data == [latest[p] EXCEPT !.locks = @ \cup {x}]
  IN  /\ ~closed
      /\ secret[x] = "unsent"
      /\ valid(account, [latest EXCEPT ![p] = data])
      /\ signs(p, data)
      /\ secret' = [secret EXCEPT ![x] = "pending"]
      /\ UNCHANGED <<account, closed, settled>>

reveal(x) ==
  /\ secret[x] = "pending"
  /\ secret' = [secret EXCEPT ![x] = "revealed"]
  /\ UNCHANGED <<account, latest, signed, closed, settled>>

registerSecret(x) ==
  /\ secret[x] \in {"pending", "revealed"}
  /\ secret' = [secret EXCEPT ![x] = "registered"]
  /\ UNCHANGED <<account, latest, signed, closed, settled>>

expire(x) ==
  /\ secret[x] \in {"pending", "revealed"}
  /\ secret' = [secret EXCEPT ![x] = "expired"]
  /\ UNCHANGED <<account, latest, signed, closed, settled>>

\* Knowing the secret, p finishes the transfer off-chain.
unlockOffChain(p, x) ==
  /\ ~closed
  /\ x \in latest[p].locks
  /\ secret[x] \in {"revealed", "registered"}
  /\ signs(p, [transferred |-> latest[p].transferred + amount[x],
               locks |-> latest[p].locks \ {x}])
  /\ UNCHANGED <<account, secret, closed, settled>>

\* p removes an expired lock.
removeExpiredLock(p, x) ==
  /\ ~closed
  /\ x \in latest[p].locks
  /\ secret[x] = "expired"
  /\ signs(p, [latest[p] EXCEPT !.locks = @ \ {x}])
  /\ UNCHANGED <<account, secret, closed, settled>>

\* closeChannel, updateNonClosingBalanceProof and settleChannel: the closer
\* brings some balance data of its partner, the partner some of the closer.
settle(data) ==
  /\ ~closed
  /\ \A p \in Clients : data[p] \in signed[p]
  /\ closed' = TRUE /\ settled' = data
  /\ UNCHANGED <<account, latest, signed, secret>>

Next ==
  \/ \E p \in Clients, total \in TotalDeposits : setTotalDeposit(p, total)
  \/ \E p \in Clients, total \in TotalWithdraws : setTotalWithdraw(p, total)
  \/ \E p \in Clients, x \in Payments :
       lockedTransfer(p, x) \/ unlockOffChain(p, x) \/ removeExpiredLock(p, x)
  \/ \E x \in Payments : reveal(x) \/ registerSecret(x) \/ expire(x)
  \/ \E dataA \in signed[A], dataB \in signed[B] :
       settle([p \in Clients |-> IF p = A THEN dataA ELSE dataB])

Spec == Init /\ [][Next]_vars

-----------------------------------------------------------------------------
(***************************************************************************)
(* What the settlement and both unlocks pay p: settleChannel takes the     *)
(* participants in the order it accepts.                                   *)
(***************************************************************************)
amounts(p, q) ==
  getSettleTransferAmounts(account[p], settled[p].transferred, locked(settled[p]),
                           account[q], settled[q].transferred, locked(settled[q]))

ordered(p, q) ==
  transfersOrdered(settled[p].transferred, locked(settled[p]),
                   settled[q].transferred, locked(settled[q]))

\* Paid at once, and left locked by p for its partner and by its partner for p.
settlementOf(p) ==
  LET q == partner(p)
  IN  IF ordered(p, q)
      THEN [paid |-> amounts(p, q).S1, by |-> amounts(p, q).SL1, for |-> amounts(p, q).SL2]
      ELSE [paid |-> amounts(q, p).S2, by |-> amounts(q, p).SL2, for |-> amounts(q, p).SL1]

finalAmount(p) ==
  LET s == settlementOf(p)
  IN  s.paid + min(claimableLocked(settled[partner(p)]), s.for)
             + s.by - min(claimableLocked(settled[p]), s.by)

\* What p would have received with the latest balance data of both.
entitled(p) ==
  LET q == partner(p)
  IN  get_expected_after_settlement_unlock_amounts(
        account[p], latest[p].transferred, claimableLocked(latest[p]),
        account[q], latest[q].transferred, claimableLocked(latest[q]))

\* The channel is settled and no lock can become claimable or expire any more.
Decided == closed /\ \A x \in Payments : secret[x] \notin {"pending", "revealed"}

\* Settled with the latest balance data of both, each client ends with what
\* it is entitled to, whatever locks were pending and whatever became of them.
LatestProofsPayExactly ==
  (Decided /\ settled = latest) => \A p \in Clients : finalAmount(p) = entitled(p)

\* Of all the balance data a client has ever signed, none promises its partner
\* more, counting what has become claimable, than its latest does: an older
\* lock is still there, or was added to the transferred amount, or expired.
NoOlderDataPromisesMore ==
  \A p \in Clients : \A data \in signed[p] :
    /\ data.transferred <= latest[p].transferred
    /\ data.transferred + claimableLocked(data)
         <= latest[p].transferred + claimableLocked(latest[p])

\* A client p that settles with the latest data of its partner loses, whatever
\* data of its own the partner brings, at most what of that data's locks never
\* became claimable.
LossIsBounded ==
  Decided => \A p \in Clients :
    settled[partner(p)] = latest[partner(p)] =>
      finalAmount(p) >= entitled(p) - (locked(settled[p]) - claimableLocked(settled[p]))

\* Old balance data hardly pays, and never for what the newer data settles.
OldDataHardlyPays == TypeOK /\ NoOlderDataPromisesMore /\ LossIsBounded

\* "Their partner MUST receive at least the amount of tokens that he would
\* have received if the latest valid balance proofs are used" (the comment
\* that opens settleChannel2).
OldProofNeverPaysLess ==
  Decided => \A p \in Clients :
    settled[partner(p)] = latest[partner(p)] => finalAmount(p) >= entitled(p)
=============================================================================
