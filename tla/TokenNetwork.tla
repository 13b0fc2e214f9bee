---------------------------- MODULE TokenNetwork ----------------------------
(***************************************************************************)
(* One TokenNetwork contract, the ERC20 token it holds and the             *)
(* SecretRegistry it reads: opening, funding, withdrawing from, closing,   *)
(* updating, settling and unlocking payment channels.  Every transaction   *)
(* is atomic and anyone may send any of them at any time; one whose        *)
(* require or checked arithmetic fails reverts, so it is no step at all.   *)
(*                                                                         *)
(* Who has signed what is given by the constants BalanceProofs,            *)
(* CounterSignatures and WithdrawMessages.  Nothing says the signers are   *)
(* honest: recovering a signer is membership in these sets.  A hash is its *)
(* preimage: a balance_hash is the BalanceData it commits to, a locksroot  *)
(* the list of locks.                                                      *)
(***************************************************************************)
EXTENDS Settlement, Sums, SecretRegistry, Sequences

CONSTANTS
  Participants,        \* addresses that open, fund and use channels
  this,                \* the address of the contract itself
  Controllers,         \* addresses that may become the controller
  ControllerCalls,     \* bound: which of its functions the controller calls
  MaxChannels,         \* bound: how many channels are ever opened
  MaxStuck,            \* bound: tokens sent to the contract directly
  SettleTimeout,
  ParticipantDepositLimit, NetworkDepositLimit,   \* as constructed
  InitialTokens,       \* what each participant owns at the start
  Amounts,             \* total deposits and withdraws that are asked for
  LockLists,           \* sequences of pending locks
  BalanceData,         \* [transferred_amount, locked_amount, locksroot]
  ZeroHash,            \* bytes32(0): no balance data
  BalanceProofs, CounterSignatures, WithdrawMessages

ChannelIds == 1 .. MaxChannels
Pairs      == {pair \in SUBSET Participants :
                 \E p, q \in Participants : p # q /\ pair = {p, q}}
Addresses  == Participants \cup {this}

Locks == [locked_amount : Uint, unlockable_until : Nat, secrethash : Secrethashes]

\* The constructor's requires, and what a uint256 can hold: the token's total
\* supply among others.
ASSUME ConstructorAssumption ==
  /\ IsFiniteSet(Participants) /\ this \notin Participants
  /\ MaxChannels \in Nat \ {0} /\ MaxStuck \in Nat
  /\ SettleTimeout \in Nat \ {0}
  /\ ParticipantDepositLimit \in Uint \ {0}
  /\ NetworkDepositLimit \in Uint \ {0}
  /\ NetworkDepositLimit >= ParticipantDepositLimit
  /\ InitialTokens \in [Participants -> Nat] /\ Total(InitialTokens) \in Uint
  /\ Amounts \subseteq Uint \ {0}

\* Whoever settles may pass zeros; nothing is assumed about what is signed.
ASSUME MessagesAssumption ==
  /\ LockLists \subseteq Seq(Locks)
  /\ BalanceData \subseteq
       [transferred_amount : Uint, locked_amount : Uint, locksroot : LockLists]
  /\ ZeroHash \notin BalanceData
  /\ \E data \in BalanceData : data.transferred_amount = 0 /\ data.locked_amount = 0
  /\ \A m \in BalanceProofs \cup CounterSignatures :
       m.nonce \in Nat /\ m.balance_hash \in BalanceData \cup {ZeroHash}
  /\ \A m \in WithdrawMessages : m.total_withdraw \in Uint /\ m.participant \in Participants

VARIABLES
  token,                        \* ERC20 balances
  stuck,                        \* tokens sent to the contract directly
  controller,
  safety_deprecation_switch,
  channel_participant_deposit_limit,
  token_network_deposit_limit,
  channel_counter,
  participants_hash_to_channel_identifier,   \* 0: no channel
  state,                        \* channels[id].state
  participants,                 \* channels[id].participants[p]
  settleable_after,
  unlock_data                   \* unlock_identifier_to_unlock_data

configVars  == <<controller, safety_deprecation_switch,
                 channel_participant_deposit_limit, token_network_deposit_limit>>
channelVars == <<channel_counter, participants_hash_to_channel_identifier, state,
                 participants, settleable_after>>
vars == <<token, stuck, configVars, channelVars, unlock_data, registryVars>>

ChannelState == {"NonExistent", "Opened", "Closed"}   \* as stored

Participant ==
  [deposit : Uint, withdrawn_amount : Uint, is_the_closer : BOOLEAN,
   balance_hash : BalanceData \cup {ZeroHash}, nonce : Nat]

NoParticipant ==
  [deposit |-> 0, withdrawn_amount |-> 0, is_the_closer |-> FALSE,
   balance_hash |-> ZeroHash, nonce |-> 0]

UnlockData == [locksroot : LockLists \cup {<<>>}, locked_amount : Uint]

NoUnlockData == [locksroot |-> <<>>, locked_amount |-> 0]

ParticipantKeys   == ChannelIds \X Participants
UnlockIdentifiers == ChannelIds \X Participants \X Participants   \* id, sender, receiver

TypeOK ==
  /\ RegistryTypeOK
  /\ token \in [Addresses -> Nat] /\ stuck \in Nat
  /\ controller \in Controllers /\ safety_deprecation_switch \in BOOLEAN
  /\ channel_participant_deposit_limit \in Uint
  /\ token_network_deposit_limit \in Uint
  /\ channel_counter \in 0 .. MaxChannels
  /\ participants_hash_to_channel_identifier \in [Pairs -> 0 .. MaxChannels]
  /\ state \in [ChannelIds -> ChannelState]
  /\ participants \in [ParticipantKeys -> Participant]
  /\ settleable_after \in [ChannelIds -> Nat]
  /\ unlock_data \in [UnlockIdentifiers -> UnlockData]

Init ==
  /\ RegistryInit
  /\ token = [a \in Addresses |-> IF a = this THEN 0 ELSE InitialTokens[a]]
  /\ stuck = 0
  /\ controller \in Controllers
  /\ safety_deprecation_switch = FALSE
  /\ channel_participant_deposit_limit = ParticipantDepositLimit
  /\ token_network_deposit_limit = NetworkDepositLimit
  /\ channel_counter = 0
  /\ participants_hash_to_channel_identifier = [pair \in Pairs |-> 0]
  /\ state = [id \in ChannelIds |-> "NonExistent"]
  /\ participants = [k \in ParticipantKeys |-> NoParticipant]
  /\ settleable_after = [id \in ChannelIds |-> 0]
  /\ unlock_data = [k \in UnlockIdentifiers |-> NoUnlockData]

-----------------------------------------------------------------------------
(***************************************************************************)
(* The token.                                                              *)
(***************************************************************************)

\* The contract pays a to p and b to q (who may be the same participant).
paid(p, a, q, b) ==
  [x \in Addresses |->
     token[x] + (IF x = p THEN a ELSE 0) + (IF x = q THEN b ELSE 0)
              - (IF x = this THEN a + b ELSE 0)]

transferFrom(owner, amount) ==
  /\ token[owner] >= amount
  /\ token' = [token EXCEPT ![owner] = @ - amount, ![this] = @ + amount]

\* Tokens may be sent to the contract without calling it; no function of the
\* contract ever pays them out again.
DirectTransfer(owner) ==
  /\ stuck < MaxStuck
  /\ transferFrom(owner, 1)
  /\ stuck' = stuck + 1
  /\ UNCHANGED <<configVars, channelVars, unlock_data, registryVars>>

-----------------------------------------------------------------------------
(***************************************************************************)
(* The controller.                                                         *)
(***************************************************************************)
deprecate ==
  /\ "deprecate" \in ControllerCalls
  /\ ~safety_deprecation_switch
  /\ safety_deprecation_switch' = TRUE
  /\ UNCHANGED <<controller, channel_participant_deposit_limit,
                 token_network_deposit_limit, token, stuck, channelVars,
                 unlock_data, registryVars>>

removeLimits ==
  /\ "removeLimits" \in ControllerCalls
  /\ channel_participant_deposit_limit' = MAX_SAFE_UINT256
  /\ token_network_deposit_limit' = MAX_SAFE_UINT256
  /\ UNCHANGED <<controller, safety_deprecation_switch, token, stuck, channelVars,
                 unlock_data, registryVars>>

changeController(new_controller) ==
  /\ "changeController" \in ControllerCalls
  /\ controller' = new_controller
  /\ UNCHANGED <<safety_deprecation_switch, channel_participant_deposit_limit,
                 token_network_deposit_limit, token, stuck, channelVars,
                 unlock_data, registryVars>>

-----------------------------------------------------------------------------
(***************************************************************************)
(* Opening and funding.                                                    *)
(***************************************************************************)
getParticipantsHash(p, q) == {p, q}

getChannelIdentifier(p, q) ==
  participants_hash_to_channel_identifier[getParticipantsHash(p, q)]

openedChannel(p1, p2) ==
  /\ ~safety_deprecation_switch
  /\ token[this] < token_network_deposit_limit
  /\ channel_counter < MaxChannels
  /\ channel_counter' = channel_counter + 1
  /\ p1 # p2
  /\ getChannelIdentifier(p1, p2) = 0
  /\ participants_hash_to_channel_identifier' =
       [participants_hash_to_channel_identifier EXCEPT
          ![getParticipantsHash(p1, p2)] = channel_counter + 1]
  /\ state' = [state EXCEPT ![channel_counter + 1] = "Opened"]

openChannel(p1, p2) ==
  /\ openedChannel(p1, p2)
  /\ UNCHANGED <<token, stuck, configVars, participants, settleable_after,
                 unlock_data, registryVars>>

\* Overflow check of setTotalDepositFor, in wrapping arithmetic.
depositFitsUncheckedMutant(total_deposit, partner_deposit) == TRUE

depositFits(total_deposit, partner_deposit) ==
  Wrap(total_deposit + partner_deposit) >= total_deposit

withinNetworkLimitUncheckedMutant(added) == TRUE

withinNetworkLimit(added) == Wrap(token[this] + added) <= token_network_deposit_limit

\* The caller owner pays what is missing to participant's total_deposit.  The
\* unchecked arithmetic wraps, so depositFits is what keeps the channel's deposit
\* within uint256.
setTotalDepositFor(id, participant, total_deposit, partner, owner) ==
  LET mine    == participants[<<id, participant>>]
      added   == Wrap(total_deposit - mine.deposit)
  IN  /\ total_deposit <= channel_participant_deposit_limit
      /\ added > 0
      /\ added <= total_deposit
      /\ withinNetworkLimit(added)
      /\ depositFits(total_deposit, participants[<<id, partner>>].deposit)
      /\ participants' = [participants EXCEPT ![<<id, participant>>].deposit = total_deposit]
      /\ transferFrom(owner, added)

openChannelWithDeposit(p1, p2, total_deposit, owner) ==
  /\ openedChannel(p1, p2)
  /\ setTotalDepositFor(channel_counter + 1, p1, total_deposit, p2, owner)
  /\ UNCHANGED <<stuck, configVars, settleable_after, unlock_data, registryVars>>

setTotalDeposit(id, participant, total_deposit, partner, owner) ==
  /\ ~safety_deprecation_switch
  /\ state[id] = "Opened"
  /\ participant # partner
  /\ id = getChannelIdentifier(participant, partner)
  /\ setTotalDepositFor(id, participant, total_deposit, partner, owner)
  /\ UNCHANGED <<stuck, configVars, channel_counter, settleable_after, state,
                 participants_hash_to_channel_identifier, unlock_data, registryVars>>

-----------------------------------------------------------------------------
(***************************************************************************)
(* Withdrawing and settling cooperatively.                                 *)
(***************************************************************************)
withdrawSigned(id, signer, participant, total_withdraw, withdrawable_until) ==
  [channel_identifier |-> id, signer |-> signer, participant |-> participant,
   total_withdraw |-> total_withdraw, withdrawable_until |-> withdrawable_until]
    \in WithdrawMessages

\* The requires of setTotalWithdraw2, for the accounts of participant (mine)
\* and of the partner that signed with it (theirs).
withdrawAllowed(id, participant, partner, mine, theirs, total_withdraw, withdrawable_until) ==
  /\ state[id] = "Opened"
  /\ total_withdraw > 0
  /\ timestamp < withdrawable_until
  /\ withdrawSigned(id, participant, participant, total_withdraw, withdrawable_until)
  /\ withdrawSigned(id, partner, participant, total_withdraw, withdrawable_until)
  /\ participant # partner
  /\ id = getChannelIdentifier(participant, partner)
  /\ mine.deposit + theirs.deposit \in Uint
  /\ total_withdraw + theirs.withdrawn_amount <= mine.deposit + theirs.deposit
  /\ total_withdraw > mine.withdrawn_amount

setTotalWithdraw(id, participant, partner, total_withdraw, withdrawable_until) ==
  LET mine    == participants[<<id, participant>>]
      current == total_withdraw - mine.withdrawn_amount
  IN  /\ withdrawAllowed(id, participant, partner, mine, participants[<<id, partner>>],
                         total_withdraw, withdrawable_until)
      /\ participants' =
           [participants EXCEPT ![<<id, participant>>].withdrawn_amount = total_withdraw]
      /\ token[this] >= current
      /\ token' = paid(participant, current, participant, 0)
      /\ UNCHANGED <<stuck, configVars, channel_counter, settleable_after, state,
                     participants_hash_to_channel_identifier, unlock_data, registryVars>>

removedAccountsOnlyFirstMutant(id, p1, p2) ==
  [participants EXCEPT ![<<id, p1>>] = NoParticipant]

removedAccounts(id, p1, p2) ==
  [participants EXCEPT ![<<id, p1>>] = NoParticipant, ![<<id, p2>>] = NoParticipant]

removedPairKeptMutant(p1, p2) == participants_hash_to_channel_identifier

removedPair(p1, p2) ==
  [participants_hash_to_channel_identifier EXCEPT ![getParticipantsHash(p1, p2)] = 0]

removeChannelData(id, p1, p2) ==
  /\ participants' = removedAccounts(id, p1, p2)
  /\ state' = [state EXCEPT ![id] = "NonExistent"]
  /\ settleable_after' = [settleable_after EXCEPT ![id] = 0]
  /\ participants_hash_to_channel_identifier' = removedPair(p1, p2)
  /\ UNCHANGED channel_counter

\* data1 and data2 are WithdrawInputs; a participant that gets nothing needs
\* no signatures.  The second withdraw sees what the first one changed.
cooperativeSettle(id, data1, data2) ==
  LET p1 == data1.participant
      p2 == data2.participant
      a1 == participants[<<id, p1>>]
      a2 == participants[<<id, p2>>]
      b1 == IF data1.total_withdraw > 0
            THEN [a1 EXCEPT !.withdrawn_amount = data1.total_withdraw] ELSE a1
      b2 == IF data2.total_withdraw > 0
            THEN [a2 EXCEPT !.withdrawn_amount = data2.total_withdraw] ELSE a2
      paid1 == b1.withdrawn_amount - a1.withdrawn_amount
      paid2 == b2.withdrawn_amount - a2.withdrawn_amount
  IN  /\ state[id] = "Opened"
      /\ p1 # p2
      /\ id = getChannelIdentifier(p1, p2)
      /\ a1.deposit + a2.deposit \in Uint
      /\ data1.total_withdraw + data2.total_withdraw = a1.deposit + a2.deposit
      /\ data1.total_withdraw > 0 =>
           withdrawAllowed(id, p1, p2, a1, a2, data1.total_withdraw,
                           data1.withdrawable_until)
      /\ data2.total_withdraw > 0 =>
           withdrawAllowed(id, p2, p1, a2, b1, data2.total_withdraw,
                           data2.withdrawable_until)
      /\ token[this] >= paid1 + paid2
      /\ token' = paid(p1, paid1, p2, paid2)
      /\ removeChannelData(id, p1, p2)
      /\ UNCHANGED <<stuck, configVars, unlock_data, registryVars>>

-----------------------------------------------------------------------------
(***************************************************************************)
(* Closing, and updating the closer's data.                                *)
(***************************************************************************)
balanceProofSigned(id, signer, nonce, balance_hash) ==
  [channel_identifier |-> id, signer |-> signer, nonce |-> nonce,
   balance_hash |-> balance_hash] \in BalanceProofs

counterSigned(message_type, id, signer, nonce, balance_hash) ==
  [message_type |-> message_type, channel_identifier |-> id, signer |-> signer,
   nonce |-> nonce, balance_hash |-> balance_hash] \in CounterSignatures

\* Stored balance data is only ever replaced by data with a higher nonce (the
\* require of updateBalanceProofData).
newerNonceUnorderedMutant(id, p, nonce) == nonce # participants[<<id, p>>].nonce

newerNonce(id, p, nonce) == nonce > participants[<<id, p>>].nonce

withBalanceProof(ps, id, p, nonce, balance_hash) ==
  [ps EXCEPT ![<<id, p>>].nonce = nonce, ![<<id, p>>].balance_hash = balance_hash]

withCloser(id, closing, nonce) ==
  [participants EXCEPT ![<<id, closing>>].is_the_closer = TRUE]

\* HorizonAllows is a bound: a channel is closed only while a behaviour is
\* long enough to see it settled.
HorizonAllows == timestamp + SettleTimeout < MaxTime

closeChannel(id, non_closing, closing, balance_hash, nonce) ==
  LET closed == withCloser(id, closing, nonce)
  IN  /\ HorizonAllows
      /\ state[id] = "Opened"
      /\ closing # non_closing
      /\ id = getChannelIdentifier(closing, non_closing)
      /\ counterSigned("BalanceProof", id, closing, nonce, balance_hash)
      /\ nonce > 0 => /\ balanceProofSigned(id, non_closing, nonce, balance_hash)
                      /\ newerNonce(id, non_closing, nonce)
      /\ state' = [state EXCEPT ![id] = "Closed"]
      /\ settleable_after' = [settleable_after EXCEPT ![id] = timestamp + SettleTimeout]
      /\ participants' = IF nonce > 0
                         THEN withBalanceProof(closed, id, non_closing, nonce, balance_hash)
                         ELSE closed
      /\ UNCHANGED <<token, stuck, configVars, channel_counter, unlock_data,
                     participants_hash_to_channel_identifier, registryVars>>

\* The mutant does not tell the two kinds of countersignature apart.
updateSignedAnyTypeMutant(id, non_closing, nonce, balance_hash) ==
  \E type \in {"BalanceProof", "BalanceProofUpdate"} :
    counterSigned(type, id, non_closing, nonce, balance_hash)

updateSigned(id, non_closing, nonce, balance_hash) ==
  counterSigned("BalanceProofUpdate", id, non_closing, nonce, balance_hash)

updateAllowed(id, closing, non_closing, balance_hash, nonce) ==
  /\ closing # non_closing
  /\ id = getChannelIdentifier(closing, non_closing)
  /\ balance_hash # ZeroHash
  /\ nonce > 0
  /\ state[id] = "Closed"
  /\ updateSigned(id, non_closing, nonce, balance_hash)
  /\ balanceProofSigned(id, closing, nonce, balance_hash)
  /\ participants[<<id, closing>>].is_the_closer
  /\ newerNonce(id, closing, nonce)

updateNonClosingBalanceProof(id, closing, non_closing, balance_hash, nonce) ==
  /\ updateAllowed(id, closing, non_closing, balance_hash, nonce)
  /\ participants' = withBalanceProof(participants, id, closing, nonce, balance_hash)
  /\ UNCHANGED <<token, stuck, configVars, channel_counter, settleable_after, state,
                 participants_hash_to_channel_identifier, unlock_data, registryVars>>

-----------------------------------------------------------------------------
(***************************************************************************)
(* Settling and unlocking.                                                 *)
(***************************************************************************)

\* Without a balance proof only zero amounts are accepted, and the locksroot
\* is ignored.
verifyBalanceHashData(participant, data) ==
  \/ /\ participant.balance_hash = ZeroHash
     /\ data.transferred_amount = 0 /\ data.locked_amount = 0
  \/ participant.balance_hash = data

windowOver(id) == settleable_after[id] < timestamp

settleAllowed(id, p1, data1, p2, data2) ==
  /\ p1 # p2
  /\ id = getChannelIdentifier(p1, p2)
  /\ state[id] = "Closed"
  /\ windowOver(id)
  /\ verifyBalanceHashData(participants[<<id, p1>>], data1)
  /\ verifyBalanceHashData(participants[<<id, p2>>], data2)
  /\ availableDepositComputable(participants[<<id, p1>>], participants[<<id, p2>>])
  /\ transfersOrdered(data1.transferred_amount, data1.locked_amount,
                      data2.transferred_amount, data2.locked_amount)
  /\ LET amounts == getSettleTransferAmounts(
                      participants[<<id, p1>>], data1.transferred_amount, data1.locked_amount,
                      participants[<<id, p2>>], data2.transferred_amount, data2.locked_amount)
     IN  token[this] >= amounts.S1 + amounts.S2

getUnlockIdentifier(id, sender, receiver) == <<id, sender, receiver>>

storeUnlockData(ud, id, sender, receiver, locksroot, locked_amount) ==
  IF locked_amount = 0 THEN ud
  ELSE [ud EXCEPT ![getUnlockIdentifier(id, sender, receiver)] =
          [locksroot |-> locksroot, locked_amount |-> locked_amount]]

settleChannel(id, p1, data1, p2, data2) ==
  LET amounts == getSettleTransferAmounts(
                   participants[<<id, p1>>], data1.transferred_amount, data1.locked_amount,
                   participants[<<id, p2>>], data2.transferred_amount, data2.locked_amount)
  IN  /\ settleAllowed(id, p1, data1, p2, data2)
      /\ removeChannelData(id, p1, p2)
      /\ unlock_data' =
           storeUnlockData(
             storeUnlockData(unlock_data, id, p1, p2, data1.locksroot, amounts.SL1),
             id, p2, p1, data2.locksroot, amounts.SL2)
      /\ token' = paid(p1, amounts.S1, p2, amounts.S2)
      /\ UNCHANGED <<stuck, configVars, registryVars>>

revealedTooLateOffByOneMutant(lock) ==
  lock.unlockable_until < getSecretRevealBlockTime(lock.secrethash)

revealedTooLate(lock) ==
  lock.unlockable_until <= getSecretRevealBlockTime(lock.secrethash)

\* A lock pays out only if its secret was revealed before it expired.
getLockedAmountFromLock(lock) ==
  IF getSecretRevealBlockTime(lock.secrethash) = 0 \/ revealedTooLate(lock)
  THEN 0 ELSE lock.locked_amount

getUnlockedAmount(locks) ==
  Total([i \in DOMAIN locks |-> getLockedAmountFromLock(locks[i])])

channelStillExistsAnyMutant(id, p, q) == getChannelIdentifier(p, q) # 0

channelStillExists(id, p, q) == id = getChannelIdentifier(p, q)

unlockAllowed(id, receiver, sender, locks) ==
  LET data == unlock_data[getUnlockIdentifier(id, sender, receiver)]
  IN  /\ receiver # sender
      /\ ~channelStillExists(id, receiver, sender)
      /\ state[id] = "NonExistent"
      /\ getUnlockedAmount(locks) \in Uint
      /\ data.locksroot = locks
      /\ data.locked_amount > 0
      /\ token[this] >= data.locked_amount

claimedUncappedMutant(locks, locked_amount) == getUnlockedAmount(locks)

\* Never more than the settlement reserved, whatever the locks add up to.
claimed(locks, locked_amount) == min(getUnlockedAmount(locks), locked_amount)

deletedUnlockDataKeptMutant(id, sender, receiver) == unlock_data

deletedUnlockData(id, sender, receiver) ==
  [unlock_data EXCEPT ![getUnlockIdentifier(id, sender, receiver)] = NoUnlockData]

unlock(id, receiver, sender, locks) ==
  LET locked_amount   == unlock_data[getUnlockIdentifier(id, sender, receiver)].locked_amount
      unlocked_amount == claimed(locks, locked_amount)
      returned_tokens == locked_amount - unlocked_amount
  IN  /\ unlockAllowed(id, receiver, sender, locks)
      /\ unlock_data' = deletedUnlockData(id, sender, receiver)
      /\ token' = paid(receiver, unlocked_amount, sender, returned_tokens)
      /\ UNCHANGED <<stuck, configVars, channelVars, registryVars>>

-----------------------------------------------------------------------------
RegistryNext ==
  /\ \/ NewBlock
     \/ \E s \in Secrethashes : registerSecret(s)
     \/ \E secrets \in SUBSET Secrethashes : registerSecretBatch(secrets)
  /\ UNCHANGED <<token, stuck, configVars, channelVars, unlock_data>>

ControllerNext ==
  \/ deprecate
  \/ removeLimits
  \/ \E c \in Controllers : changeController(c)

FundingNext ==
  \/ \E owner \in Participants : DirectTransfer(owner)
  \/ \E p, q \in Participants : openChannel(p, q)
  \/ \E p, q, owner \in Participants, total_deposit \in Amounts :
       openChannelWithDeposit(p, q, total_deposit, owner)
  \/ \E id \in ChannelIds, p, q, owner \in Participants, total_deposit \in Amounts :
       setTotalDeposit(id, p, total_deposit, q, owner)

\* Inputs with an amount and no such signed message would revert.
WithdrawInputs ==
  {[participant |-> m.participant, total_withdraw |-> m.total_withdraw,
    withdrawable_until |-> m.withdrawable_until] : m \in WithdrawMessages}
  \cup [participant : Participants, total_withdraw : {0}, withdrawable_until : {0}]

WithdrawNext ==
  \/ \E id \in ChannelIds, q \in Participants, m \in WithdrawMessages :
       setTotalWithdraw(id, m.participant, q, m.total_withdraw, m.withdrawable_until)
  \/ \E id \in ChannelIds, data1, data2 \in WithdrawInputs :
       cooperativeSettle(id, data1, data2)

CloseNext ==
  \E id \in ChannelIds, p, q \in Participants :
    \/ \E m \in CounterSignatures : closeChannel(id, p, q, m.balance_hash, m.nonce)
    \/ \E m \in BalanceProofs :
         updateNonClosingBalanceProof(id, p, q, m.balance_hash, m.nonce)

settleById(id) ==
  \E p, q \in Participants, data1, data2 \in BalanceData :
    settleChannel(id, p, data1, q, data2)

unlockById(id) ==
  \E receiver, sender \in Participants, locks \in LockLists :
    unlock(id, receiver, sender, locks)

Next ==
  \/ RegistryNext
  \/ ControllerNext
  \/ FundingNext
  \/ WithdrawNext
  \/ CloseNext
  \/ \E id \in ChannelIds : settleById(id) \/ unlockById(id)

Spec == Init /\ [][Next]_vars

-----------------------------------------------------------------------------
(***************************************************************************)
(* What the contract owes.                                                 *)
(***************************************************************************)
deposits(keys)  == Total([k \in keys |-> participants[k].deposit])
withdrawn(keys) == Total([k \in keys |-> participants[k].withdrawn_amount])
locked(keys)    == Total([k \in keys |-> unlock_data[k].locked_amount])

owedIn(id) ==
  deposits({id} \X Participants) - withdrawn({id} \X Participants)
    + locked({id} \X Participants \X Participants)

\* p is one of the two the channel is, or was, between.
isPartyOf(id, p) ==
  \E q \in Participants \ {p} :
    \/ getChannelIdentifier(p, q) = id
    \/ unlock_data[<<id, p, q>>] # NoUnlockData
    \/ unlock_data[<<id, q, p>>] # NoUnlockData

ChannelOf(pair) == participants_hash_to_channel_identifier[pair]

\* The contract holds exactly what it owes: every live channel's deposits
\* less what was withdrawn, what settled channels left locked, and the tokens
\* it was sent directly.  No call of any function, in any order, pays out
\* tokens that belong to another channel, or keeps any.
Solvency ==
  token[this] + withdrawn(ParticipantKeys)
    = deposits(ParticipantKeys) + locked(UnlockIdentifiers) + stuck

\* A pair has an identifier exactly while its channel exists, and no two
\* pairs ever share one ("there must only be one channel opened between two
\* participants at any moment").
ChannelPairsConsistent ==
  /\ \A pair \in Pairs :
       ChannelOf(pair) # 0 => /\ ChannelOf(pair) <= channel_counter
                              /\ state[ChannelOf(pair)] # "NonExistent"
  /\ \A pair1, pair2 \in Pairs :
       (ChannelOf(pair1) = ChannelOf(pair2) /\ ChannelOf(pair1) # 0) => pair1 = pair2
  /\ \A id \in ChannelIds :
       state[id] # "NonExistent" => \E pair \in Pairs : ChannelOf(pair) = id

\* removeChannelData leaves nothing of a channel behind: there is account
\* data only for the two participants of a live channel, a settlement time
\* only for a closed one, and locked tokens only for a channel that is gone.
NothingLeftBehind ==
  /\ \A id \in ChannelIds, p \in Participants :
       participants[<<id, p>>] # NoParticipant =>
         \E pair \in Pairs : p \in pair /\ ChannelOf(pair) = id
  /\ \A id \in ChannelIds : settleable_after[id] # 0 <=> state[id] = "Closed"
  /\ \A k \in UnlockIdentifiers :
       unlock_data[k] # NoUnlockData => state[k[1]] = "NonExistent" /\ k[1] <= channel_counter

\* Whatever was deposited and withdrawn before, the available deposit of a
\* live channel is computed without overflow or underflow, so neither a
\* settlement nor another withdraw can revert there.
AvailableDepositComputable ==
  \A pair \in Pairs : ChannelOf(pair) # 0 =>
    \A p, q \in pair : p # q =>
      availableDepositComputable(participants[<<ChannelOf(pair), p>>],
                                 participants[<<ChannelOf(pair), q>>])

\* "It MUST never fail": once the settlement window is over there is always
\* some order of the participants and some data for which settleChannel passes
\* every check it makes.
SettleNeverStuck ==
  \A id \in ChannelIds :
    (state[id] = "Closed" /\ settleable_after[id] < timestamp) =>
      \E p, q \in Participants, data1, data2 \in BalanceData :
        settleAllowed(id, p, data1, q, data2)

\* Tokens that a settlement left locked can always be unlocked, even after the
\* same two participants have opened a new channel.
UnlockNeverStuck ==
  \A id \in ChannelIds, sender, receiver \in Participants :
    unlock_data[<<id, sender, receiver>>].locked_amount > 0 =>
      unlockAllowed(id, receiver, sender, unlock_data[<<id, sender, receiver>>].locksroot)

\* Nothing that is due can be kept from its owners by a call that always fails:
\* not by data signed with amounts that overflow, not by deposits that wrap,
\* not by a successor channel.
PaymentsNeverStuck == SettleNeverStuck /\ UnlockNeverStuck

\* What is stored about a participant, both participants of the channel have
\* signed: its balance data (itself, and its partner by countersigning), and
\* the total it has withdrawn.
StoredDataIsSigned ==
  \A pair \in Pairs : ChannelOf(pair) # 0 =>
    \A p, q \in pair : p # q =>
      LET id   == ChannelOf(pair)
          mine == participants[<<id, p>>]
      IN  /\ mine.nonce > 0 =>
               /\ balanceProofSigned(id, p, mine.nonce, mine.balance_hash)
               /\ counterSigned(IF mine.is_the_closer THEN "BalanceProofUpdate"
                                                      ELSE "BalanceProof",
                                id, q, mine.nonce, mine.balance_hash)
          /\ mine.withdrawn_amount > 0 =>
               \E until \in {m.withdrawable_until : m \in WithdrawMessages} :
                 \A signer \in pair :
                   withdrawSigned(id, signer, p, mine.withdrawn_amount, until)

\* What the contract owes never exceeds the network limit, whatever is sent to
\* it directly and however deposits and withdraws interleave.
OwedWithinLimit == token[this] - stuck <= token_network_deposit_limit

-----------------------------------------------------------------------------
(***************************************************************************)
(* What a step may never do.                                               *)
(***************************************************************************)

\* A step is a matter of channel id alone.
accountedTo(id) ==
  /\ owedIn(id)' - owedIn(id) = (token'[this] - token[this]) - (stuck' - stuck)
  /\ \A other \in ChannelIds \ {id} : owedIn(other)' = owedIn(other)
  /\ \A p \in Participants : token'[p] > token[p] => isPartyOf(id, p)

\* Every token the contract receives or pays is accounted to one channel, by
\* exactly that amount; the other channels are owed what they were owed, and
\* only the two participants of that channel are paid.
PayoutsStayInChannel == [][\E id \in ChannelIds : accountedTo(id)]_vars

\* What a step may do to p's account in channel id while the channel stays.
grown(id, p) ==
  LET before == participants[<<id, p>>]
      after  == participants'[<<id, p>>]
  IN  (before # NoParticipant /\ state'[id] # "NonExistent") =>
        /\ after.deposit >= before.deposit
        /\ after.withdrawn_amount >= before.withdrawn_amount
        /\ after.nonce >= before.nonce
        /\ after.nonce = before.nonce => after.balance_hash = before.balance_hash
        /\ state[id] = "Closed" =>
             /\ after.deposit = before.deposit
             /\ after.withdrawn_amount = before.withdrawn_amount
             /\ before.is_the_closer \/ after = before
             /\ settleable_after'[id] = settleable_after[id]

\* Until a channel is removed, deposits, withdrawn amounts and nonces only
\* grow; after it is closed the accounts are frozen, and so are the balance
\* data of the participant that did not close and the settlement time.
AccountsOnlyGrow ==
  [][\A id \in ChannelIds, p \in Participants : grown(id, p)]_vars

\* Once every lock of a list has expired, how much of it is claimable is
\* settled for good: registering a secret late changes nothing, and the
\* outcome of unlock no longer depends on when it is called.
ClaimsAreFinalAfterExpiry ==
  [][\A locks \in LockLists :
       (\A i \in DOMAIN locks : locks[i].unlockable_until <= timestamp) =>
         getUnlockedAmount(locks)' = getUnlockedAmount(locks)]_vars

-----------------------------------------------------------------------------
(***************************************************************************)
(* The state as getChannelState reports it.                                *)
(***************************************************************************)
getChannelStateOneSideMutant(id, p, q) ==
  IF state[id] = "NonExistent" /\ id <= channel_counter
  THEN IF unlock_data[<<id, p, q>>].locked_amount = 0 THEN "Removed" ELSE "Settled"
  ELSE state[id]

getChannelState(id, p, q) ==
  IF state[id] = "NonExistent" /\ id <= channel_counter
  THEN IF unlock_data[<<id, p, q>>].locked_amount = 0 /\ unlock_data[<<id, q, p>>].locked_amount = 0
       THEN "Removed" ELSE "Settled"
  ELSE state[id]

-----------------------------------------------------------------------------
(***************************************************************************)
(* Liveness.  Blocks keep coming, and somebody eventually settles a channel*)
(* that can be settled and unlocks what can be unlocked: anyone may, and   *)
(* the participants (or a monitoring service) have the data.               *)
(***************************************************************************)
Fairness ==
  /\ WF_vars(RegistryNext /\ NewBlock)
  /\ \A id \in ChannelIds : WF_vars(settleById(id)) /\ WF_vars(unlockById(id))

FairSpec == Spec /\ Fairness

\* A closed channel is eventually paid out entirely, the locked part included,
\* whatever else is called meanwhile and even if the network is deprecated.
ClosedChannelsDrain ==
  \A id \in ChannelIds :
    state[id] = "Closed" ~> (state[id] = "NonExistent" /\ owedIn(id) = 0)
=============================================================================
