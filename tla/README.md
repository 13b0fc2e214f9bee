# A TLA+ model of the Raiden contracts

This directory models the smart contracts of `raiden-network/raiden-contracts`
(`src/raiden_contracts/data/source`) and the Python package around them that compiles,
deploys, verifies and serves them (`src/raiden_contracts`), checks both with TLC on small
instances and proves their safety properties with TLAPS for all instances.

Paths below are relative to `src/raiden_contracts/data/source` unless they start
with `src/`.

## 1. Inventory

A *transaction* calls one function of one contract. It is atomic: it either takes
effect as a whole (calls to other contracts included) or reverts. What is hard is
therefore not what happens inside a call but the order in which mutually
distrusting parties send them, what they have signed off-chain before, and what
time it is when a call is mined.

A *command* is a run of a Python script. It is not atomic at all: it sends
transactions that are mined later or never, waits with a timeout, reads and rewrites
files, and can be killed between any two of these steps and started again, while
another command works on the same files.

| Component | State | Operations | Interacts with |
|---|---|---|---|
| `raiden/SecretRegistry.sol` | reveal time of each secret hash | `registerSecret`, `registerSecretBatch` | read by `TokenNetwork.unlock` |
| `raiden/TokenNetwork.sol` | channels and their two accounts, pair -> channel identifier, settlement times, unlock data, limits, deprecation switch | `openChannel`, `openChannelWithDeposit`, `setTotalDeposit`, `setTotalWithdraw`, `cooperativeSettle`, `closeChannel`, `updateNonClosingBalanceProof`, `settleChannel`, `unlock`, `deprecate`, `removeLimits` | token, SecretRegistry; called by MonitoringService |
| `raiden/Utils.sol` | - | `min`, `failsafe_addition`, `failsafe_subtract` | inherited |
| `raiden/Controllable.sol` | the controller | `changeController` | inherited |
| ERC20 token | balances | `transfer`, `transferFrom` | held by TokenNetwork, UserDeposit, Deposit |
| `raiden/TokenNetworkRegistry.sol` | token -> network, count and maximum | `createERC20TokenNetwork`, `removeLimits` | creates TokenNetworks; asked by MonitoringService |
| `services/UserDeposit.sol` | balances, total deposits, withdraw plans, whole balance | `init`, `deposit`, `transfer`, `planWithdraw`, `withdraw`, `withdrawToBeneficiary` | called by OneToN and MonitoringService |
| `services/OneToN.sol` | settled sessions | `claim`, `bulkClaim` | ServiceRegistry, UserDeposit |
| `services/ServiceRegistry.sol` | price, parameters, registrations, `Deposit` contracts | `deposit`, `setURL`, `changeParameters`, `setDeprecationSwitch`, `Deposit.withdraw` | asked by OneToN and MonitoringService |
| `services/MonitoringService.sol` | reward per channel | `monitor`, `claimReward` | all of the above |
| `lib/` | - | signature recovery, message types | used by TokenNetwork, OneToN, MonitoringService |
| off-chain clients | balance proofs, locks, withdraw agreements they signed | outside the repository; the tests state the constraints (`src/raiden_contracts/tests/utils/channel.py`) | sign what TokenNetwork is given |
| `deploy/__main__.py`, `contract_deployer.py`, `contract_verifier.py`, `contract_manager.py` | the deployment files; the transactions on the chain | `raiden`, `services`, `token`, `register`, `verify` | contracts, node, files shared between commands |
| `contract_source_manager.py`, `setup.py`, `data/precompiled/contracts.json` | sources, `contracts.json` with its checksums | `compile_contracts`, `verify_contracts`, `verify_precompiled_checksums` | read by the deployer |
| `deploy/etherscan_verify.py`, `utils/join_contracts.py` | `joined.sol`, the explorer's verdicts | submit, poll, join | Etherscan |
| `utils/proofs.py` | - | the packing of every signed message | must agree with the contracts |
| `utils/pending_transfers.py` | - | locks and their packing | read by `TokenNetwork.unlock` |
| `utils/token_ops.py`, `utils/transaction.py` | the pending transactions of an account | `mint`, `weth`, `transfer` | CustomToken, WETH |
| `utils/logs.py` | expected, counted and unknown events | `add`, `check`, `assert_event` | used by the tests |

What makes each correct:

* **SecretRegistry**: the first registration counts and is never changed.
* **TokenNetwork**: it owes exactly what it holds; a channel's tokens go to its
  participants only; settlement and unlock can always be carried out; what is
  stored was signed by both; newer data replaces older, never the reverse; nothing
  of a removed channel interferes with a later one; a closed channel is eventually
  paid out; valid balance proofs give both what they are entitled to.
* **UserDeposit**: the balances add up to the whole balance and to the tokens held;
  a withdrawal was planned, and waited for; only the two trusted contracts move
  balances.
* **OneToN**: a session is paid at most once and never above what was signed.
* **ServiceRegistry**: a registration is paid for and lasts at least as long as its
  deposit is locked; the price stays between its floor and its cap.
* **MonitoringService**: a balance proof is rewarded at most once, to the service that
  presented it; every service has its turn inside the settlement window.
* **TokenNetworkRegistry**: one network per token; the maximum and the limits hold
  until they are lifted.
* **Deployment**: what a file lists exists, with the arguments listed; a command that
  ends successfully leaves contracts that refer to each other; a command ends, unless the
  node makes it send a deployment again for ever.
* **Compilation**: bytecode that verifies was compiled from sources with the same checksums.
* **Etherscan**: success means verified; the joined source is complete and in order.
* **Messages, locks**: what one side packs is what the other reads, and nothing else.
* **Token commands, event handler**: what is reported as done, or as seen, was.

The behaviours that are hard to test are listed in `PROJECT.json` under `hazards`,
each at its line, with the properties that cover it.

## 2. Modules

| Module | Models |
|---|---|
| `Utils` | `raiden/Utils.sol`; `uint256` as `0 .. MAX_SAFE_UINT256`, `Wrap` for `unchecked` blocks |
| `Settlement` | the settlement algorithm of `TokenNetwork.sol` (`getSettleTransferAmounts`, `getMaxPossibleReceivableAmount`, `getChannelAvailableDeposit`) and, beside it, the reference algorithm and the balance-proof constraints of the tests |
| `SettlementCases` | one settlement with arbitrary inputs, and what the amounts must satisfy |
| `SecretRegistry` | `raiden/SecretRegistry.sol` and `block.timestamp` |
| `Sums` | the sum of a function, defined so that it can be reasoned about without induction |
| `TokenNetwork` | `raiden/TokenNetwork.sol`, `raiden/Controllable.sol` and the token; composes `Settlement`, `SecretRegistry` and `Sums` |
| `ClientChannel` | one channel between two Raiden clients: what they sign off-chain and what a settlement with any of it pays; composes `Settlement` and `Sums` |
| `Channels` | abstract: what a TokenNetwork promises to those who follow a channel from outside |
| `TokenNetworkChannels` | that `TokenNetwork` refines `Channels` |
| `Clock` | `block.timestamp` for the service contracts |
| `Registrations` | abstract: what the ServiceRegistry promises to those who ask for a registration |
| `ServiceRegistry` | `services/ServiceRegistry.sol` with its `Deposit` contracts; refines `Registrations` |
| `UserDeposit` | `services/UserDeposit.sol` and its token |
| `OneToN` | `services/OneToN.sol`, on `UserDeposit` and `Registrations` |
| `MonitoringWindow`, `MonitoringWindowCases` | the arithmetic of `firstTimestampAllowedToMonitorChannel`, and its cases |
| `MonitoringService` | `services/MonitoringService.sol`, on `UserDeposit`, `Registrations` and `Channels` |
| `RaidenServices` | the service contracts together |
| `TokenNetworkRegistry` | `raiden/TokenNetworkRegistry.sol` and the part of TokenNetwork's constructor it depends on |
| `Messages` | `utils/proofs.py` against the recovering functions of the contracts |
| `PendingTransfers` | `utils/pending_transfers.py` against `getHashAndUnlockedAmount`, on `SecretRegistry` |
| `DeploymentFiles`, `Deployment` | `contract_manager.py`'s files; the deployment commands, chains and operators |
| `Precompiled` | `contract_source_manager.py` and those who rely on `contracts.json` |
| `Etherscan`, `JoinSources` | `etherscan_verify.py`; `join_contracts.py` |
| `TokenOperations` | `utils/token_ops.py`, `utils/transaction.py`, `test/CustomToken.sol`, `test/StandardToken.sol` |
| `LogHandler` | `utils/logs.py` |
| `MC*` | the instances TLC checks; the other `.cfg` files instantiate the module of their name |
| `Sums_proofs`, `Settlement_proofs` | lemmas: sums, induction over the naturals; the settlement's arithmetic |
| `Cases_proofs`, `TokenNetwork_proofs`, `ClientChannel_proofs`, `RaidenServices_proofs`, `Registries_proofs`, `Package_proofs` | the theorems of section 4 |

How they are composed:

    Settlement, SecretRegistry, Sums --> TokenNetwork ==refines==> Channels --------+
                                                                                    v
    ServiceRegistry ==refines==> Registrations --> OneToN, MonitoringService --> RaidenServices
                                                        ^
                                        UserDeposit ----+
    DeploymentFiles --> Deployment      SecretRegistry --> PendingTransfers

The services are checked against the two abstract specifications instead of the two
contracts, which keeps their state small, and the refinements show that nothing is
lost by it: `Channels` lets through every order of states and nonces the token network
lets through, and more.

### State and actions

Variables and operators have the names of the source. The mappings `channels` and
`channels[id].participants` are `state` and `participants[<<id, p>>]`;
`participants_hash_to_channel_identifier` maps a *set* of two participants to an
identifier (the hash orders them first); `unlock_identifier_to_unlock_data` is
`unlock_data[<<id, sender, receiver>>]`. A `delete` writes the default value back.

There is one action per external function. Its guard is the conjunction of every
`require`, modifier and checked arithmetic operation on the way, those of the
functions it calls and of the token included: a call that would revert is no step.
Caller and arguments are quantified over `Participants`, `Amounts`, the signed
messages and `BalanceData`; arguments that no signed message matches would revert
and are not enumerated.

* `setTotalDepositFor` keeps the wrapping arithmetic of its `unchecked` block.
* `cooperativeSettle` runs its two withdraws one after the other; the second sees
  the first one's effect on the accounts.
* `closeChannel` and `updateNonClosingBalanceProof` share `withBalanceProof`
  (`updateBalanceProofData`).
* `settleChannel` computes the four amounts with `Settlement`, removes the channel,
  stores the unlock data of both directions and pays.
* `monitor` calls `updateNonClosingBalanceProof` of `Channels` in the same step, as the
  contract does; `claimReward` and `claim` move balances of `UserDeposit` in theirs.
  `bulkClaim` computes the contract's storage after each of its claims (`storageAfter`): one
  that reverts takes all back.
* `ServiceRegistry.deposit` computes the decayed price with the code's two polynomials,
  guarded by the overflow of each product, raises it, caps it and creates a `Deposit`;
  `changeParameters` first refreshes the price, as `changeParametersInternal` does.
* `DirectTransfer` is a plain ERC20 transfer to the contract's address; nothing in
  the contract prevents it, and the deposit limit reads the balance it changes.

The commands are processes. `at` says where one is and each action is one step between
two points where it can be overtaken or killed: reading a file, sending a transaction,
receiving or giving up on a receipt, emptying a file, writing it.

* `Deployment`: a contract's address is its sender's account and nonce, so it may exist on
  another chain too. A transaction is `pending`, mined or failed; a command that timed out
  has left it behind. A node may refuse to take one; a deployment refused with -32015 is sent
  again, any number of times (`refused`, `Retry`). `step` counts the transactions confirmed.
  Storing a file takes two steps (`open` empties it), and where two operators write, a shorter
  document may leave the tail of a longer one (`Corrupted`). `Crash` ends a command anywhere; commands can be started again
  and again. The checks at the end (`verify_*`) look at the chain as it then is.
* `Precompiled`: a source is a directory and a name; its checksum is kept under the name
  alone, so that a later directory overwrites what an earlier one has under the same name.
  Checksums are taken directory by directory, then the directories are compiled one by one;
  `contracts.json` is emptied and then written; a checker loads it, and reads it a second time
  to compare. Sources are edited, added, removed and moved between any two of these steps; the
  history variable `steady` tells whether that happened during a compilation.
* `Etherscan`: `joined.sol` is written and read in separate steps; `verdict` outlives runs.
* `TokenOperations`: a command checks, sends, and waits; the chain mines an account's
  transactions in the order of their nonces; a failed command may be started again with its
  old transaction still pending.
* `LogHandler`: `check` is one step, as its caller is the only thread; the chain grows
  between the calls. A callback that raises ends the reading and leaves the name of its event
  among those that are read, as the code does.

### Abstractions

* **Signatures.** Who has signed what is a constant: `BalanceProofs`,
  `CounterSignatures` (a balance proof countersigned by its receiver, with the
  message type) and `WithdrawMessages`. Recovering a signer is membership. No
  honesty is assumed: the instances contain messages only one party has signed, and
  old ones.
* **Hashes** are injective: `balance_hash` is the balance data it commits to, a
  locksroot the list of locks, a secret hash the secret. `additional_hash` and
  `chain_id` only occur inside signed messages and are left out.
* **uint256** is `0 .. MAX_SAFE_UINT256` with a small maximum under TLC (3 or 4) so
  that wrapping and saturation happen, and an arbitrary one in the proofs. Time is
  not wrapped.
* **Token.** A standard ERC20 token (`test/StandardToken.sol`) whose transfers
  succeed when the balance suffices and which calls nobody back; allowances are
  taken as granted by the owner that calls.
* **Clients** (`ClientChannel` only). The client is not part of the repository. The
  constraints on what it signs are those of `src/raiden_contracts/tests/utils/channel.py`
  (`valid`, the tests' `locked <= available` included); how a pending transfer ends
  (completed with the secret, or removed once expired) is the Raiden client's and marked
  external. A message counts as received when it is signed: a receiver that lacks one
  only has fewer old proofs to choose from. A lock's expiration is an event of its own,
  so that locks expire in any order, and closing and settling are one step.
* Events, gas, and the view `getChannelParticipantInfo` are left out.
* **Prices.** `ServiceRegistry` scales the constants of the code but keeps what the code
  relies on: a price at the cap times the largest value of the decay's denominator, which
  has the fourth power of a parameter at its cap in it, still fits in the word.
* **Messages** are a length and the cells of the hashed text; a type has fewer cells than
  its bytes, in proportion, so that fields of different types can share positions.
* **Files and sources** are contents of a small set; hashes of them are injective. Merging
  the files of a chain fails where one of them is broken, or where two chains that share a
  name, as private ones do, have left one module each.
* **Chains** do not reorganise. A contract's version is the current one throughout, except
  for the earlier release that contracts may be reused from.

## 3. What is checked

| Run | Instance | States |
|---|---|---|
| `algorithm_cases` | settlement over `0 .. 4`; messages with two values a field; import graphs of three files; settlement windows | 189,821 |
| `two_channels_in_a_row` | 2 participants, 2 successive channels, 5 time units | 77,722 |
| `concurrent_channels` | 3 participants, 2 concurrent channels, controller, direct transfers | 91,580 |
| `closed_channels_drain` | 2 participants, 2 successive channels, deprecation, fairness | 14,048 |
| `client_channel` | 2 clients, 3 payments of 1, 1 and 2 either way, deposits of 4, withdraws of 1 | 296,374 |
| `old_proof` | the same; a counterexample is expected | - |
| `raiden_services` | a client, two services, three IOUs, two balance proofs of a channel | 1.15 million |
| `reward_twice` | the same; a counterexample is expected | - |
| `registries` | two services and their deposits; four tokens and two controllers | 0.93 million |
| `deployment` | two operators, two chains, five commands, fairness | 0.29 million |
| `commands` | a compilation, a verification, two runners, five token commands, fairness | 0.21 million |
| `test_support` | two events in two transactions; four locks | 1.59 million |

Parts of the system that never meet share a run. A variable chosen at the start says
which of them a behaviour is about, and the others then stand still: `algorithm` in
`MCCases`, `ofServices` in `MCRegistries`, `about` in `MCCommands`, `ofEvents` in
`MCTestSupport`. `scenario` in `MCRaidenServices` and `MCDeployment` is of the same kind:
it bounds what happens besides the interplay a behaviour is about.

**`algorithm_cases`** asks of the settlement algorithm: does saturating arithmetic
compute what the tests' algorithm computes over unbounded integers (`MatchesReference`);
is the ordering requirement harmless (`OrderDoesNotAffectResult`); do the latest valid
balance proofs give both exactly the balances the comments derive, after all unlocks
(`ValidProofsSettleExactly`); and is a participant safe from its partner settling with
an older proof of it (`OldProofNeverCostsItsSender`). Width 4 is enough for sums of two,
three and four amounts to saturate, for withdraws beyond a participant's own deposit,
and for locked amounts partly claimable; the proofs remove the bound.

The comment above `settleChannel2` states the last property without a condition
(`raiden/TokenNetwork.sol:776`). It holds when the older lock is *covered*
(`oldLockCovered`): it fits in the channel, and either all of it is claimable or
the partner could have owned it besides what it transferred and withdrew itself.

Of the messages: a signature is accepted by the contract function it was made for, with
the values it was made for, and by no other (`AcceptedForItselfOnly`). The fields of the
six messages have different widths, so that this is about layout and not only about the
message type. Of `join_contracts.py`: a joined file contains every file the root needs,
once, after everything it imports (`JoinedOnce`); three files make chains, diamonds and
cycles. Of the MonitoringService: whatever the closing time, the settle timeout and the
addresses, each service's turn comes after three tenths of the window and before its end
(`EveryServiceHasTime`); only a window of a single second, which the registry accepts, is
too short.

**`two_channels_in_a_row`** uses one pair of participants. Alice has sent two balance
proofs (one lock claimed in between), Bob one; both withdraw; the second channel
shows that nothing of the first interferes: unlock data, identifiers, settlement
times. The whole supply equals `MAX_SAFE_UINT256`, so after a withdraw the two total
deposits can exceed it and the overflow check matters. `PaymentsNeverStuck` says, state by
state, that a closed channel can be settled once its window is over and what it locked can be
unlocked. `ImplementsChannels` is the refinement of `Channels`, which has what somebody who
follows a channel from outside may rely on: its states come in one order, once, and each is
told truthfully; a nonce only grows; the closer does not change. `ClaimsAreFinalAfterExpiry`
is an action property: once a lock has expired, whether it will be paid is decided.

**`concurrent_channels`** has two channels that share a participant, the same secret
and the contract's balance, plus the controller and direct transfers: what a payout
of one channel could do to another (`PayoutsStayInChannel`, `NothingLeftBehind`,
`ChannelPairsConsistent`), and whether what is owed respects the network's limit although
anyone may send tokens to the contract (`OwedWithinLimit`).

**`closed_channels_drain`** is the liveness property: whoever closes a channel, it is
eventually settled and everything locked in it is unlocked.

**`client_channel`** lets two clients deposit, send locked transfers in both directions,
complete or expire them, withdraw, and at any point settle with *any* balance data
either has ever signed. With the latest data of both, each ends with exactly what it is
entitled to, whatever becomes of the pending locks (`LatestProofsPayExactly`).
`OldDataHardlyPays`: no older data promises its receiver more than the latest
(`NoOlderDataPromisesMore`), and a client that settles honestly loses to a partner that
does not at most those locks of its older data that nobody could claim (`LossIsBounded`).
Three payments are the fewest with which one is completed, one expires and one runs the
other way; different amounts tell apart which lock was paid, and deposits exceed one
payment so that a withdraw is possible.

**`old_proof`** states the requirement at `raiden/TokenNetwork.sol:776` as it is written,
for balance data such clients sign, and finds it violated: A deposits 4 and locks 1
twice. The first lock's secret is registered and the transfer completed; B withdraws that
token. The second lock expires. B now settles with A's data from before (nothing
transferred, both locks). The algorithm lets B receive 0 + 2 - 1 = 1, reserves it for the
locks, and the first secret claims it: A ends with 2, where its latest data gives it 3.
The contract cannot tell which part of the locked amount was already withdrawn. The
difference is the expired lock, as `LossIsBounded` says; without locks that expired
unclaimed the requirement holds. The comparison in
`src/raiden_contracts/tests/test_channel_settle_unlock_state.py:211` is made for a list of
examples.

**`raiden_services`** has one deposit that everything is paid from. In one scenario a
service claims IOUs of two sessions, alone and in bulks, with a smaller and a larger amount
for the same session; in the second, two services monitor one channel with two balance
proofs; in the third, one service does both while the client withdraws. A session is paid
at most once, never above the IOU, and it is closed if and only if it was paid
(`SessionPaidOnce`). A balance proof is rewarded at most once, and whoever stands to be
rewarded has presented it for a channel that is closed (`RewardsAreEarned`). The balances add up to `whole_balance`, which
the contract holds (`DepositsCovered`). What a service has read as the effective balance is
still there after `withdraw_timeout` seconds unless trusted contracts took it
(`EffectiveBalanceLasts`): a plan made before the reading is subtracted from it, one made
after it has to wait.

**`reward_twice`** states the comment at `services/MonitoringService.sol:298`: a reward is
claimed "once per settled channel". `claimReward` also accepts a channel that is still
closed after its window, and deletes the reward; TokenNetwork accepts newer balance proofs
until somebody settles, so a second reward follows for a newer one. Each needs a reward
proof of its own that the participant signed.

**`registries`**, of the ServiceRegistry: a registration is backed by deposits that cannot
be withdrawn before it ends (`RegistrationIsBacked`); the price can always be computed
within `uint256` (`PriceAlwaysComputable`); time never raises it, a parameter change only
lifts it to the minimum, a deposit never lowers it (`PriceMovesAsPromised`); and it refines
`Registrations` (`ImplementsRegistrations`): a registration only ever gets longer. A third deposit
in a row reaches the cap. Of the TokenNetworkRegistry: the registry can name every
network it counts, at most as many as allowed, and networks made after the removal of the
limits have none (`NetworksFollowRegistry`).

**`deployment`** has five scenarios: an operator that registers two tokens; one that
deploys the services, with and without saving, over its own or another release's contracts; two
operators on one chain; one operator on two chains whose files have the same name; and every
command in any order. Whatever is killed, a non-empty file lists contracts that exist, at the
addresses and with the arguments it gives them, and the files of a chain can be merged
(`FilesAreSound`); a token network in a file is the one the registry has for the token
(`NetworksAreRecorded`); a command that ended successfully left contracts that refer to
each other (`SuccessMeansWired`); every command ends, except one whose deployment the node
refuses with -32015 for ever, which is sent again without a limit (`Terminates`).

**`commands`**: whoever has verified `contracts.json` has seen contracts that were compiled
from sources with just the checksums it has taken itself, whenever else sources were edited,
moved or removed and compilations were killed, provided that nobody edited them *during* that
compilation (`VerifiedMeansCompiled`); two directories that can have a file of the same name
show what a checksum does and does not tell apart; a runner that succeeded has every contract verified with its own
source, although two runners share `joined.sol` (`SuccessMeansVerified`); a transfer reported
as done has moved its amount unless another transaction of the account came between, and no
overlap or retry makes tokens out of nothing (`SuccessMeansMoved`); all of them end
(`CommandsEnd`). `CustomToken.mint` is checked arithmetic: of two mints that together exceed
the bound of 5 the second one reverts, and its command fails.

**`test_support`**: a check that returns before its timeout has found each event asked for,
from the transaction and with the arguments given, and as many of them as asked for if those
counted by earlier checks are added; the first check for events that are there returns at
once (`AssertionsAreTrue`). That the counts of earlier checks have to be added is how the code
counts (section 3, other disagreements). The
pending transfers made for a test lock what was asked for, and the contract unlocks those
that were made unlockable and none that was made expired (`UnlockedAsPlanned`). Events,
transactions and arguments are only compared, so permuting them is a symmetry.

Bounds: `MaxChannels` (channels ever opened; two are needed for a successor and for
a concurrent one, and a third adds no new relation between two channels),
`MaxTime`/`SettleTimeout` (long enough to be before, at and after every lock's
expiration, withdraw's expiration and settlement window), `MaxStuck` (tokens sent
directly), `ControllerCalls` (which controller functions a run exercises), `Amounts`;
`MaxDeposits`, `MaxValidTill`, `MaxChanges` (deposits, the latest end of a registration and
parameter changes), `MaxTokenNetworks`; `MaxTxs` and `txsEach` (transactions of a sender: the longest
command needs four or five, so that a command fits after one that failed), `MaxEdits`
(edits of sources: two, so that a file can be moved, or edited and edited back), `Retries` (polls of an explorer),
`MaxRuns` (each token command is run twice, so that a retry meets its first attempt),
`MaxLogs`, `MaxWaiting`, `MaxChecks`, and in `MCTestSupport` `SecretsOfLocks` (only secrets
that some lock has are registered; `UnlockedAsPlanned` reads no others).
`HorizonAllows` in `closeChannel` lets a channel close only when the time bound
leaves room to settle it. Behaviours stop when time, channels, runs or edits are used
up, so deadlock checking is off, except in `deployment`: a `verify` can always be run.

### Fairness

`FairSpec` of `TokenNetwork` assumes weak fairness of `NewBlock` (the chain goes on), of
settling each channel and of unlocking each channel's locks. Settle and unlock may be called
by anyone with public data and the preimages of two hashes, which both participants
(and a monitoring service) have and have an interest in using. Nothing is assumed
about opening, depositing, withdrawing, closing, updating, registering secrets or
the controller. That the two fair actions are never disabled for good is what
`PaymentsNeverStuck` says state by state.

`FairSpec` of `Deployment`, `Etherscan` and `TokenOperations` assumes weak fairness of
`Proceed`: a process is scheduled and the node or the explorer it asks answers, if only
with an error. Nothing is assumed about mining, nor about the explorer ever deciding: a wait for a
receipt has a timeout and a look at the explorer a number of retries. Two loops of the
deployment have neither. The one that asks for a token network's address
(`src/raiden_contracts/deploy/contract_deployer.py:288`) is entered only after the network's
transaction has succeeded, so it ends where `register` is given the right registry; the
one that sends a deployment again while the node answers -32015 (line 141 there) may indeed
never end, and `Terminates` says that it is the only place where a command can stay. Being
ended *again and again* (`[]<>`) is what an operator that runs command after command needs of
each of them. The counterexamples of the two
violated properties are finite and assume no fairness.

### Other disagreements met

These were met while reading; no run is devoted to them.

* `raiden --no-save-info` ends in a `TypeError`: it passes its document as
  `deployed_contracts_info` (`src/raiden_contracts/deploy/__main__.py:230`) to a function
  whose parameter is `deployment_data`
  (`src/raiden_contracts/deploy/contract_verifier.py:123`). In
  `test_deploy_raiden_save_info_false` that function is a mock.
* `register` records what it was given without comparing it with the file: with another
  registry than the file's, or by another account than the registry's controller, the file
  gets a network that `verify` rejects. `AnyRegistry` in `Deployment` admits these calls; the
  run leaves them out. Two `register` commands at the same time lose one update of the file.
* A deployer loads its bytecode before it compares the checksums, with the file as it is
  then, so what it checked and what it deploys are two versions if a compilation ends in
  between. `VerifiedMeansCompiled` is therefore about the file that was compared.
* Checksums are kept under a file's bare name
  (`src/raiden_contracts/contract_source_manager.py:131`) although four directories are read:
  of files with one name only the last directory's counts, so an edit of the others, or a move
  of a file to another directory, is not noticed. No two sources have the same name at present.
* The checksums that are stored are taken before anything is compiled (line 34 there), and
  stored after. A source edited during the compilation and edited back leaves a
  `contracts.json` that verifies, with bytecode of sources nobody has any more.
* `send_deployment_transaction` sends again while the node answers -32015
  (`src/raiden_contracts/deploy/contract_deployer.py:141`), with no limit and no pause.
* The event handler keeps its counts from one `check` to the next and reads all logs again
  (`src/raiden_contracts/utils/logs.py:70`, `:182`): `check` for two events of a transaction
  that emitted one times out, and a second `check` passes, since the same event is
  counted twice.
* The comment at `raiden/TokenNetwork.sol:1468` gives the amount of a lock first; the code
  below it reads the expiration first, as `pending_transfers.py` packs it.
* Nothing bounds `min_price` (`services/ServiceRegistry.sol:87`). Far above the cap of
  2**90 it becomes the price at the next change of parameters, whose decay then overflows:
  neither a deposit nor a further change, which would repair it, is possible any more. The
  instance keeps `MinPrices` below the cap, where `PriceAlwaysComputable` holds. An initial
  price below 1000, the initial `min_price`, is lifted to 1000 by the constructor.
* A `check` of the event handler that times out fails, except if it met as many unexpected
  transactions' events as it still waits for (`src/raiden_contracts/utils/logs.py:108`, marked FIXME
  there). `AssertionsAreTrue` is therefore about checks that return before their timeout.

## 4. What is proved

Every invariant, action property and refinement that a run checks is also a theorem, but for
those named at the end of this section. The theorems hold
for every set of participants, users, services, tokens, controllers and operators, every number
of channels, every width of the arithmetic, every timeout, limit, supply and any signed
messages. They assume what the modules that declare the constants assume, and TLC evaluates
on every run: types of the constants and messages, the `require`s of the constructors
(`ConstructorAssumption`, `ServiceRegistryAssumption`, `UserDepositAssumption`,
`RegistryAssumption`), and `CapsAssumption`, that the polynomials of the price's decay do
not overflow up to the cap, the bounds the comments in
`services/ServiceRegistry.sol` state for `2**90`. A theorem that assumes more says so in its
statement. All safety theorems have the same form: an invariant that is inductive, one lemma
per function of the contract or step of a command, and the property as a consequence.

### Settlement and the clients' channel

* `SettlementMatchesReference`, `ReferenceSafety`, `OrderSafety`, `ExactSafety`,
  `OldProofSafety`: the four properties of `algorithm_cases` about settlement;
  `ConservedSafety`: the four amounts share out exactly the available deposit
  (`AmountsConserved`, the asserts that end the function), which no run repeats. The
  argument: saturating addition is `min(a + b, MAX)` (`FailsafeAdditionSaturates`),
  the failsafe subtraction returns `max(a - b, 0)` and `min(a, b)`
  (`FailsafeSubtractParts`); with these the contract's amounts are those of the
  reference (a case split on which sum saturates), and the rest is linear arithmetic
  on the reference.
* `PaysExactlySafety` and `OldDataSafety` of `ClientChannel`, for any number of payments.
  `ClientInv` adds three things to the types. The constraints the clients sign under stay
  true of their *latest* data (`valid`): every step is brought to eight numbers (`Solvent`)
  and is linear arithmetic there. All data ever signed can be added without saturating
  (`DataFits`). And `NothingForgotten`: what the latest data of a client has transferred
  beyond some older data covers every lock of the older data that is neither still locked
  nor expired. That the *claimable* locks are covered, which `NoOlderDataPromisesMore` says,
  is not inductive: a lock completed off-chain may be registered only afterwards. With the
  latest data no amount is cut off by the deposit, so each client gets its share exactly
  (`ExactShare`); with older data either what is paid is at least what the constraint
  promised or it is the whole deposit (`OlderShare`).

### TokenNetwork

* `TypeCorrectness`: the token balances stay in `Nat` because each payout checks the
  balance; unlocked amounts stay in `uint256` because they are capped by the reserved amount.
* `SolvencySafety`, `ChannelPairsSafety`, `NothingLeftBehindSafety`,
  `AvailableDepositSafety`. `Solvency` is not inductive alone; it needs the other
  three: a settlement pays out the available deposit of *two* accounts, which
  accounts for the channel's whole deposit only if no third account exists
  (`NothingLeftBehind`) and no other pair shares the identifier
  (`ChannelPairsConsistent`), if the deposit is computable at all
  (`AvailableDepositComputable`), and if the unlock data it overwrites is empty
  (`NothingLeftBehind`). Their conjunction with `TypeOK`, `SafetyInv`, is inductive
  (`SafetyStep`) and holds initially (`InitSafety`).
* `StoredDataSafety` needs `ClaimsInv`, which adds that an account of a channel that is not
  closed is blank and that a closed channel has exactly one closer (`ClosersKnown`): a
  balance proof is stored in a role, and only that makes the role unambiguous.
* `AccountsGrowAlways` and `ClaimsFinality`, two action properties. Finality is about time:
  a secret registered after a lock's expiration is *later* than it, so it never counts.
* `PayoutsAccounted`: what a channel is owed is the sum of its two accounts and of its
  unlock data; a step changes one summand of that sum (`OwedChange`), of one channel, by what the
  contract's balance changed, up to tokens sent to it directly (`ChannelAccounted`).
* `OwedLimitSafety`: the limit is checked in wrapping arithmetic. What keeps the sum from
  wrapping is that both summands are part of the token's supply, which never changes
  (`SupplyConserved`) and is a `uint256` by `ConstructorAssumption`.
* `SettleSafetyNet`: the state never refuses to settle. Of `PaymentsNeverStuck`
  it is the first half; `PaymentsSafetyNet` proves both under `LocksAddUp`: the amounts of
  a lock list add up to a `uint256`. This is no convenience: the contract adds them in
  checked arithmetic, and for a list that overflows, which a client would never accept,
  `unlock` does revert for good.
* `ChannelsRefinement`: the token network implements `Channels`. `lifeOf` and `SeenTruly` say
  what the refinement mapping gives without its choice of a channel's pair; each call is
  then either the step of `Channels` of its name or changes no channel's state and nonce.

### Services and registries

* `DepositsSafety`, `EffectiveBalanceSafety`, `SessionsSafety`, `RewardsSafety`, of all service
  contracts together (`ServicesInv`). `ReadingsLast` strengthens `EffectiveBalanceLasts` by what a
  plan made before the reading may still take, and by when; `SessionsSound` is about any
  storage, not only the contract's, because a bulk of claims works on intermediate ones;
  `RewardsPending` ties a reward to the nonce its channel has seen. That a bulk of any length
  preserves `SessionsSound` is an induction over its claims (`ClaimsOneByOne`).
* `WindowSafety` (in `Cases_proofs`), of the monitoring window for every closing time and every
  timeout.
* `RegistrationSafety` and `RegistrationsRefinement` of the ServiceRegistry (`RegistryInv`), and
  `PriceSafety`. `PriceComputableSafety` assumes `MinPricesBelowCap`: the controller sets no
  minimum above the cap, without which the property is false (section 3, other disagreements).
* `NetworksSafety` of the TokenNetworkRegistry: `NetworksInv` adds to the property that the count
  of networks is the number of tokens that have one, and that limits, once removed, are the
  same for all later networks (`LimitsInv`).

### Signed messages

* `AcceptanceSafety`: a signature is accepted by the function it was made for, with the values
  it was made for, and by no other (`AcceptedForItselfOnly`), for any values of the fields. Two
  hashed texts that are equal have the same length and, counted from the end, the same parts. No
  two kinds of message have the same length, and the parts of one kind give its fields.

### The Python package

* `DeploymentInvariance`, of which `DeploymentSuccess`, `FilesSafety` and `NamedChains` are
  consequences, for any operators, chains, names, tokens and bounds. `SuccessMeansWired` says
  something of the chain as it is *after* the check; it stays true because what a
  transaction has done is never undone (`Grown`: ledgers grow, entries keep their contents, an
  executed transaction stays executed) and because `UserDeposit.init` happens once
  (`InitOnce`), so that no later one replaces the addresses that were compared.
  `CommandSound` is what a command knows at each place: while it deploys, its document lists
  exactly the contracts whose transactions are confirmed (`Confirmed`), and while it waits, its last
  transaction is the next of its plan; what it is about to write is what `FileSound` says of a
  file. One would expect a chain's file to be about that chain, but private chains share a file
  name: `NamedChains` therefore assumes that names are distinct.
* `CompilationSafety`: while a compilation is `steady`, the checksums it has read so far are
  those of the first directories as they are now, and so are the contracts it has compiled; with
  the last directory both are those of all sources. A file that is not empty
  was therefore written by one compilation whose contracts, if it was steady, come from sources
  with the checksums beside them (`ContentSound`). What remains is to show that checksums that
  compare equal, one by one and as a whole, are the same function: the overall checksum does
  not cover names, but it fixes how many there are. A file that is there for a name in the last
  directory that has it exists because the directories are finitely many (`LastExists`, by the
  well-founded order of the naturals).
* `ExplorerSafety`: a verdict of "pass" was given to a contract's own source (`VerdictsSound`),
  verdicts that have passed stay, and a runner goes on only past a contract with such a
  verdict; the contracts still to be verified are a set of positions that loses its least.
* `OperationsSafety`, for any plan of commands whose initial holdings fit in a word. A
  pending transaction belongs to the account's commands, no two are the same run, and that of
  the current run has no receipt yet (`PendingSound`). A transfer that is not overtaken still
  has the balance it was checked with (`OperationSound`), because only transfers of the owner
  lower it.
* `VerifiedSafety`, `RunnersSafety`, `MovedSafety` say the same of `MCCommands`, whose steps are
  steps of one of the three.

### Sums and induction

The sum of a function is the cardinality of a set of units, so that how it changes when one
value changes, how it compares and how it splits (`TotalUpdate`, `TotalMonotone`,
`TotalByParts`, `AmountOfParts`) needs no induction. Where one is needed,
`NatSetInduction` provides it for a *set* of naturals: if a number were missing, adding one
would inject the smaller members of the set into fewer. So no theorem of the library with an
operator as parameter is needed.

### Only model-checked

* Liveness (`ClosedChannelsDrain`, `Terminates`, `CommandsEnd`), and with it `ENABLED`, which the
  prover does not handle.
* `JoinedOnce`: `join` is a `RECURSIVE` operator, which no theorem may reach. Settlement,
  messages and the window are therefore proved about the modules `MCCases` extends, not about
  `MCCases`.
* `NetworksAreRecorded` of `Deployment`. It is a property of the instance, not of the code in
  general: two operators that register at the same time, another registry or two chains that share
  a file break it (section 3, other disagreements).
* `AssertionsAreTrue` and `UnlockedAsPlanned`, about the tests' own tools: what they say is
  computed by folds over logs and locks, so their proofs are inductions over data.

## 5. Plan

In this order; the most important behaviour first.

1. *(done)* `Utils`, `Settlement`, `SettlementCases` and their proofs.
2. *(done)* `SecretRegistry`, `TokenNetwork`, three instances, type correctness and solvency.
3. *(done)* `Channels`: the abstract promise of a token network, which `TokenNetwork` refines.
4. *(done)* `ClientChannel`: two clients that sign balance proofs under the constraints
   the tests state, and what a settlement then pays them.
5. *(done)* `UserDeposit`, `OneToN`, `ServiceRegistry` with `Registrations`,
   `MonitoringService` on `Channels`; `TokenNetworkRegistry`.
6. *(done)* The Python package: deployment, compilation, verification, token commands,
   messages, locks, and the tests' event handler.
7. *(done)* Theorems about the contracts and the clients' channel: the invariants, action
   properties and refinements listed in section 4.
8. *(done)* Theorems about the Python package and the signed messages: deployment,
   compilation, verification, token commands.
9. Open: the tests' tools (`LogHandler`, `PendingTransfers`), and `NetworksAreRecorded` for a
   single operator.

## 6. Not modelled

* **Chains** that reorganise, gas and gas prices, block numbers.
* **Tokens**: allowances (an owner that calls is taken to have approved the amount), tokens
  that call back or take fees. A transfer to the TokenNetwork succeeds if it is covered.
* **Cryptography**: `ecrecover` is taken to give the signer of exactly what was signed, and
  signing to succeed; the encodings of a signature are left out.
* **`getChannelParticipantInfo`** and other views that no modelled code calls.
* **Deployment**: other versions than the current one except as the origin of
  reused contracts, what a document that is neither old nor new could contain where two
  operators write the same file (it is `Corrupted`), concurrent `register` commands, files of two chains without names that are
  merged by hand, reading of keys and passwords.
* **Etherscan**: `--guid`, which only prints a submission's state; HTTP errors are failures
  of the step.
* **Token commands**: the printed balances; `mint_tokens.py` is `mint` without the wait.
* **Event handler**: `uninstall`, and filters for events the contract does not have.
* **Earlier versions** (`data_0.*`), which are copies of releases, and the contracts in
  `test/` that only expose internals to the tests.
