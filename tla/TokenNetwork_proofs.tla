------------------------ MODULE TokenNetwork_proofs ------------------------
(***************************************************************************)
(* What TokenNetwork promises, for any number of participants, channels    *)
(* and messages, whatever is signed and by whom.                           *)
(*                                                                         *)
(* Type correctness and solvency: these need the invariants that keep      *)
(* channels apart, namely which pair a channel belongs to, where account   *)
(* data and locked tokens can be, and that a channel's withdraws are       *)
(* covered by its deposits.                                                *)
(*                                                                         *)
(* The participants' claims: the data stored about them is data they have  *)
(* signed, only ever gets newer and is final once the settlement window    *)
(* has passed, and every channel goes through the life that Channels       *)
(* promises.                                                               *)
(*                                                                         *)
(* The payments: what the contract owes stays within its limit, what is    *)
(* due can always be paid, and every payment is accounted to the one       *)
(* channel it is made for.                                                 *)
(***************************************************************************)
EXTENDS TokenNetworkChannels, Settlement_proofs, Sums_proofs

(***************************************************************************)
(* Facts about one transaction's parts.                                    *)
(***************************************************************************)
LEMMA PaidIsBalances ==
  ASSUME TypeOK, NEW p \in Participants, NEW q \in Participants,
         NEW a \in Nat, NEW b \in Nat, token[this] >= a + b
  PROVE  /\ paid(p, a, q, b) \in [Addresses -> Nat]
         /\ paid(p, a, q, b)[this] = token[this] - (a + b)
BY ConstructorAssumption DEF TypeOK, Addresses, paid

LEMMA TransferFromIsBalances ==
  ASSUME TypeOK, NEW owner \in Participants, NEW amount \in Nat,
         transferFrom(owner, amount)
  PROVE  token' \in [Addresses -> Nat] /\ token'[this] = token[this] + amount
BY ConstructorAssumption DEF TypeOK, Addresses, transferFrom

LEMMA PairOf ==
  ASSUME NEW p \in Participants, NEW q \in Participants, p # q
  PROVE  {p, q} \in Pairs
BY DEF Pairs

LEMMA KeyOf ==
  ASSUME NEW id \in ChannelIds, NEW p \in Participants
  PROVE  <<id, p>> \in ParticipantKeys
BY DEF ParticipantKeys

\* The amounts of a settlement add up to what is in the channel.
LEMMA AmountsAddUp ==
  ASSUME TypeOK, NEW id \in ChannelIds, NEW p1 \in Participants, NEW p2 \in Participants,
         NEW data1 \in BalanceData, NEW data2 \in BalanceData,
         availableDepositComputable(participants[<<id, p1>>], participants[<<id, p2>>]),
         transfersOrdered(data1.transferred_amount, data1.locked_amount,
                          data2.transferred_amount, data2.locked_amount)
  PROVE  LET a1 == participants[<<id, p1>>]
             a2 == participants[<<id, p2>>]
             x  == getSettleTransferAmounts(a1, data1.transferred_amount, data1.locked_amount,
                                            a2, data2.transferred_amount, data2.locked_amount)
         IN  /\ x.S1 \in Nat /\ x.S2 \in Nat /\ x.SL1 \in Uint /\ x.SL2 \in Uint
             /\ x.S1 + x.S2 + x.SL1 + x.SL2 = getChannelAvailableDeposit(a1, a2)
<1> DEFINE a1 == participants[<<id, p1>>]
           a2 == participants[<<id, p2>>]
           t1 == data1.transferred_amount  l1 == data1.locked_amount
           t2 == data2.transferred_amount  l2 == data2.locked_amount
           x  == getSettleTransferAmounts(a1, t1, l1, a2, t2, l2)
           tad == getChannelAvailableDeposit(a1, a2)
<1>1. a1 \in Participant /\ a2 \in Participant
  BY KeyOf DEF TypeOK
<1>2. t1 \in Uint /\ l1 \in Uint /\ t2 \in Uint /\ l2 \in Uint
  BY MessagesAssumption
<1>3. Settling(a1, t1, l1, a2, t2, l2) /\ transfersOrdered(t1, l1, t2, l2)
  BY <1>1, <1>2 DEF Settling, Participant
<1>. HIDE DEF a1, a2, t1, l1, t2, l2
<1>4. x = get_settlement_amounts(a1, t1, l1, a2, t2, l2)
  BY <1>3, SettlementMatchesReference
<1>. HIDE DEF x
<1>5. /\ x.S1 \in 0 .. tad /\ x.S2 \in 0 .. tad
      /\ x.SL1 \in 0 .. l1 /\ x.SL2 \in 0 .. l2
      /\ x.S1 + x.S2 + x.SL1 + x.SL2 = tad
  BY <1>3, <1>4, ReferenceAmounts
<1>6. tad \in Uint
  BY <1>3 DEF Settling, availableDepositComputable
<1>7. /\ x.S1 \in Nat /\ x.S2 \in Nat /\ x.SL1 \in Uint /\ x.SL2 \in Uint
      /\ x.S1 + x.S2 + x.SL1 + x.SL2 = tad
  BY <1>2, <1>5, <1>6, MaxIsNat DEF Uint
<1>. QED BY <1>7 DEF x, a1, a2, t1, l1, t2, l2

\* The amounts of a settlement that passed every check.
LEMMA SettleAmounts ==
  ASSUME TypeOK, NEW id \in ChannelIds, NEW p1 \in Participants, NEW p2 \in Participants,
         NEW data1 \in BalanceData, NEW data2 \in BalanceData,
         settleAllowed(id, p1, data1, p2, data2)
  PROVE  LET a1 == participants[<<id, p1>>]
             a2 == participants[<<id, p2>>]
             x  == getSettleTransferAmounts(a1, data1.transferred_amount, data1.locked_amount,
                                            a2, data2.transferred_amount, data2.locked_amount)
         IN  /\ x.S1 \in Nat /\ x.S2 \in Nat /\ x.SL1 \in Uint /\ x.SL2 \in Uint
             /\ x.S1 + x.S2 + x.SL1 + x.SL2 = getChannelAvailableDeposit(a1, a2)
             /\ token[this] >= x.S1 + x.S2
BY AmountsAddUp DEF settleAllowed

-----------------------------------------------------------------------------
(***************************************************************************)
(* Type correctness.                                                       *)
(***************************************************************************)
LEMMA WrapIsUint == ASSUME NEW x \in Int PROVE Wrap(x) \in Uint
BY MaxIsNat, SMT DEF Wrap, Uint

LEMMA UnlockKeyOf ==
  ASSUME NEW id \in ChannelIds, NEW p \in Participants, NEW q \in Participants
  PROVE  getUnlockIdentifier(id, p, q) \in UnlockIdentifiers
BY DEF UnlockIdentifiers, getUnlockIdentifier

\* What a signed withdraw message can say.
LEMMA WithdrawInputsType ==
  ASSUME NEW m \in WithdrawInputs
  PROVE  m.participant \in Participants /\ m.total_withdraw \in Uint
BY MessagesAssumption, MaxIsNat DEF WithdrawInputs, Uint

LEMMA InitType == Init => TypeOK
<1> SUFFICES ASSUME Init PROVE TypeOK
  OBVIOUS
<1>1. RegistryTypeOK
  BY DEF Init, RegistryInit, RegistryTypeOK
<1>2. NoParticipant \in Participant /\ NoUnlockData \in UnlockData
  BY MaxIsNat DEF NoParticipant, Participant, NoUnlockData, UnlockData, Uint
<1>3. token \in [Addresses -> Nat]
  BY ConstructorAssumption DEF Init, Addresses
<1>4. /\ participants \in [ParticipantKeys -> Participant]
      /\ unlock_data \in [UnlockIdentifiers -> UnlockData]
  BY <1>2 DEF Init
<1>5. /\ channel_counter \in 0 .. MaxChannels
      /\ participants_hash_to_channel_identifier \in [Pairs -> 0 .. MaxChannels]
      /\ state \in [ChannelIds -> ChannelState]
      /\ settleable_after \in [ChannelIds -> Nat]
  BY ConstructorAssumption DEF Init, ChannelState
<1>6. /\ channel_participant_deposit_limit \in Uint
      /\ token_network_deposit_limit \in Uint
      /\ stuck \in Nat /\ controller \in Controllers
      /\ safety_deprecation_switch \in BOOLEAN
  BY ConstructorAssumption DEF Init
<1>. QED BY <1>1, <1>3, <1>4, <1>5, <1>6 DEF TypeOK

LEMMA RegistryStepType ==
  ASSUME TypeOK, RegistryNext PROVE TypeOK'
<1>1. RegistryTypeOK'
  BY DEF TypeOK, RegistryTypeOK, RegistryNext, NewBlock, registerSecret,
         registerSecretBatch, registered
<1>. QED BY <1>1 DEF TypeOK, RegistryNext, configVars, channelVars

LEMMA ControllerStepType ==
  ASSUME TypeOK, ControllerNext PROVE TypeOK'
<1> USE MaxIsNat DEF TypeOK, channelVars, registryVars, RegistryTypeOK
<1>1. CASE deprecate
  BY <1>1 DEF deprecate
<1>2. CASE removeLimits
  BY <1>2 DEF removeLimits, Uint
<1>3. ASSUME NEW c \in Controllers, changeController(c) PROVE TypeOK'
  BY <1>3 DEF changeController
<1>. QED BY <1>1, <1>2, <1>3 DEF ControllerNext

\* The part of an opening transaction that openChannel and
\* openChannelWithDeposit share.
LEMMA OpenedChannelType ==
  ASSUME TypeOK, NEW p \in Participants, NEW q \in Participants, openedChannel(p, q)
  PROVE  /\ channel_counter' \in ChannelIds
         /\ channel_counter' = channel_counter + 1
         /\ participants_hash_to_channel_identifier' \in [Pairs -> 0 .. MaxChannels]
         /\ state' \in [ChannelIds -> ChannelState]
<1>1. getParticipantsHash(p, q) \in Pairs
  BY PairOf DEF openedChannel, getParticipantsHash
<1>2. channel_counter' \in ChannelIds /\ channel_counter' = channel_counter + 1
  BY ConstructorAssumption DEF openedChannel, TypeOK, ChannelIds
<1>3. participants_hash_to_channel_identifier' \in [Pairs -> 0 .. MaxChannels]
  BY <1>1, <1>2, ConstructorAssumption DEF openedChannel, TypeOK, ChannelIds
<1>4. state' \in [ChannelIds -> ChannelState]
  BY <1>2 DEF openedChannel, TypeOK, ChannelState
<1>. QED BY <1>2, <1>3, <1>4

LEMMA DepositType ==
  ASSUME TypeOK, NEW id \in ChannelIds, NEW p \in Participants, NEW q \in Participants,
         NEW owner \in Participants, NEW total_deposit \in Amounts,
         setTotalDepositFor(id, p, total_deposit, q, owner)
  PROVE  /\ participants' \in [ParticipantKeys -> Participant]
         /\ token' \in [Addresses -> Nat]
<1> DEFINE added == Wrap(total_deposit - participants[<<id, p>>].deposit)
<1>1. <<id, p>> \in ParticipantKeys
  BY KeyOf
<1>2. total_deposit \in Uint
  BY ConstructorAssumption
<1>3. participants' \in [ParticipantKeys -> Participant]
  BY <1>1, <1>2 DEF setTotalDepositFor, TypeOK, Participant
<1>4. added \in Nat
  BY <1>1, <1>2, MaxIsNat, WrapIsUint DEF TypeOK, Participant, Uint
<1>5. transferFrom(owner, added)
  BY DEF setTotalDepositFor
<1>. HIDE DEF added
<1>6. token' \in [Addresses -> Nat]
  BY <1>4, <1>5, TransferFromIsBalances
<1>. QED BY <1>3, <1>6

LEMMA FundingStepType ==
  ASSUME TypeOK, FundingNext PROVE TypeOK'
<1> USE DEF RegistryTypeOK, registryVars, configVars
<1>1. ASSUME NEW owner \in Participants, DirectTransfer(owner) PROVE TypeOK'
  <2>1. token' \in [Addresses -> Nat]
    BY <1>1, TransferFromIsBalances DEF DirectTransfer
  <2>. QED BY <1>1, <2>1 DEF DirectTransfer, TypeOK, channelVars
<1>2. ASSUME NEW p \in Participants, NEW q \in Participants, openChannel(p, q)
      PROVE  TypeOK'
  <2>1. openedChannel(p, q)
    BY <1>2 DEF openChannel
  <2>. QED BY <1>2, <2>1, OpenedChannelType DEF openChannel, TypeOK, ChannelIds
<1>3. ASSUME NEW p \in Participants, NEW q \in Participants, NEW owner \in Participants,
             NEW total_deposit \in Amounts,
             openChannelWithDeposit(p, q, total_deposit, owner)
      PROVE  TypeOK'
  <2>1. openedChannel(p, q)
    BY <1>3 DEF openChannelWithDeposit
  <2>2. channel_counter + 1 \in ChannelIds
    BY <2>1, OpenedChannelType
  <2>3. /\ participants' \in [ParticipantKeys -> Participant]
        /\ token' \in [Addresses -> Nat]
    BY <1>3, <2>2, DepositType DEF openChannelWithDeposit
  <2>. QED
    BY <1>3, <2>1, <2>3, OpenedChannelType DEF openChannelWithDeposit, TypeOK, ChannelIds
<1>4. ASSUME NEW id \in ChannelIds, NEW p \in Participants, NEW q \in Participants,
             NEW owner \in Participants, NEW total_deposit \in Amounts,
             setTotalDeposit(id, p, total_deposit, q, owner)
      PROVE  TypeOK'
  <2>1. /\ participants' \in [ParticipantKeys -> Participant]
        /\ token' \in [Addresses -> Nat]
    BY <1>4, DepositType DEF setTotalDeposit
  <2>. QED BY <1>4, <2>1 DEF setTotalDeposit, TypeOK
<1>. QED BY <1>1, <1>2, <1>3, <1>4 DEF FundingNext

LEMMA WithdrawType ==
  ASSUME TypeOK, NEW id \in ChannelIds, NEW p \in Participants, NEW q \in Participants,
         NEW total_withdraw \in Uint, NEW withdrawable_until,
         setTotalWithdraw(id, p, q, total_withdraw, withdrawable_until)
  PROVE  TypeOK'
<1> DEFINE current == total_withdraw - participants[<<id, p>>].withdrawn_amount
<1>1. participants[<<id, p>>] \in Participant /\ <<id, p>> \in ParticipantKeys
  BY KeyOf DEF TypeOK
<1>2. current \in Nat /\ token[this] >= current + 0
  BY <1>1, MaxIsNat, ConstructorAssumption
  DEF setTotalWithdraw, withdrawAllowed, Participant, Uint, TypeOK, Addresses
<1>3. participants' \in [ParticipantKeys -> Participant]
  BY <1>1 DEF setTotalWithdraw, TypeOK, Participant
<1>4. token' = paid(p, current, p, 0)
  BY DEF setTotalWithdraw
<1>. HIDE DEF current
<1>5. token' \in [Addresses -> Nat]
  BY <1>2, <1>4, PaidIsBalances
<1>. QED BY <1>3, <1>5 DEF setTotalWithdraw, TypeOK, configVars, registryVars, RegistryTypeOK

\* removeChannelData leaves the maps maps of the same types.
LEMMA RemoveType ==
  ASSUME TypeOK, NEW id \in ChannelIds, NEW p \in Participants, NEW q \in Participants,
         p # q, removeChannelData(id, p, q)
  PROVE  /\ participants' \in [ParticipantKeys -> Participant]
         /\ state' \in [ChannelIds -> ChannelState]
         /\ settleable_after' \in [ChannelIds -> Nat]
         /\ participants_hash_to_channel_identifier' \in [Pairs -> 0 .. MaxChannels]
         /\ channel_counter' \in 0 .. MaxChannels
<1>1. NoParticipant \in Participant
  BY MaxIsNat DEF NoParticipant, Participant, Uint
<1>2. participants' \in [ParticipantKeys -> Participant]
  BY <1>1, KeyOf DEF removeChannelData, removedAccounts, TypeOK
<1>3. participants_hash_to_channel_identifier' \in [Pairs -> 0 .. MaxChannels]
  BY ConstructorAssumption, PairOf DEF removeChannelData, removedPair, TypeOK, getParticipantsHash
<1>. QED BY <1>2, <1>3 DEF removeChannelData, TypeOK, ChannelState

\* The two amounts a cooperative settlement pays.
LEMMA CooperativeAmounts ==
  ASSUME TypeOK, NEW id \in ChannelIds, NEW data1 \in WithdrawInputs,
         NEW data2 \in WithdrawInputs, cooperativeSettle(id, data1, data2)
  PROVE  LET p1 == data1.participant
             p2 == data2.participant
             w1 == participants[<<id, p1>>].withdrawn_amount
             w2 == participants[<<id, p2>>].withdrawn_amount
         IN  \E paid1, paid2 \in Nat :
               /\ token[this] >= paid1 + paid2
               /\ token' = paid(p1, paid1, p2, paid2)
               /\ paid1 = IF data1.total_withdraw > 0 THEN data1.total_withdraw - w1 ELSE 0
               /\ paid2 = IF data2.total_withdraw > 0 THEN data2.total_withdraw - w2 ELSE 0
<1> DEFINE p1 == data1.participant
           p2 == data2.participant
           a1 == participants[<<id, p1>>]
           a2 == participants[<<id, p2>>]
           paid1 == IF data1.total_withdraw > 0
                    THEN data1.total_withdraw - a1.withdrawn_amount ELSE 0
           paid2 == IF data2.total_withdraw > 0
                    THEN data2.total_withdraw - a2.withdrawn_amount ELSE 0
<1>1. /\ p1 \in Participants /\ data1.total_withdraw \in Uint
      /\ p2 \in Participants /\ data2.total_withdraw \in Uint
  BY WithdrawInputsType
<1>2. a1 \in Participant /\ a2 \in Participant
  BY <1>1, KeyOf DEF TypeOK
<1>3. paid1 \in Nat
  BY <1>1, <1>2, MaxIsNat DEF cooperativeSettle, withdrawAllowed, Participant, Uint
<1>4. paid2 \in Nat
  BY <1>1, <1>2, MaxIsNat DEF cooperativeSettle, withdrawAllowed, Participant, Uint
<1>5. token[this] >= paid1 + paid2 /\ token' = paid(p1, paid1, p2, paid2)
  <2>1. (IF data1.total_withdraw > 0
         THEN [a1 EXCEPT !.withdrawn_amount = data1.total_withdraw] ELSE a1).withdrawn_amount
        - a1.withdrawn_amount = paid1
    BY <1>1, <1>2, MaxIsNat DEF Participant, Uint
  <2>2. (IF data2.total_withdraw > 0
         THEN [a2 EXCEPT !.withdrawn_amount = data2.total_withdraw] ELSE a2).withdrawn_amount
        - a2.withdrawn_amount = paid2
    BY <1>1, <1>2, MaxIsNat DEF Participant, Uint
  <2>. QED BY <2>1, <2>2, Zenon DEF cooperativeSettle
<1>. QED BY <1>3, <1>4, <1>5

LEMMA WithdrawStepType ==
  ASSUME TypeOK, WithdrawNext PROVE TypeOK'
<1>1. ASSUME NEW id \in ChannelIds, NEW q \in Participants, NEW m \in WithdrawMessages,
             setTotalWithdraw(id, m.participant, q, m.total_withdraw, m.withdrawable_until)
      PROVE  TypeOK'
  BY <1>1, MessagesAssumption, WithdrawType
<1>2. ASSUME NEW id \in ChannelIds, NEW data1 \in WithdrawInputs, NEW data2 \in WithdrawInputs,
             cooperativeSettle(id, data1, data2)
      PROVE  TypeOK'
  <2> DEFINE p1 == data1.participant
             p2 == data2.participant
  <2>1. p1 \in Participants /\ p2 \in Participants
    BY WithdrawInputsType
  <2>2. PICK a \in Nat, b \in Nat : token[this] >= a + b /\ token' = paid(p1, a, p2, b)
    BY <1>2, CooperativeAmounts
  <2>3. p1 # p2 /\ removeChannelData(id, p1, p2)
    BY <1>2 DEF cooperativeSettle
  <2>4. UNCHANGED <<stuck, configVars, unlock_data, registryVars>>
    BY <1>2 DEF cooperativeSettle
  <2>. HIDE DEF p1, p2
  <2>5. token' \in [Addresses -> Nat]
    BY <2>1, <2>2, PaidIsBalances
  <2>. QED BY <2>1, <2>3, <2>4, <2>5, RemoveType DEF TypeOK, configVars, registryVars, RegistryTypeOK
<1>. QED BY <1>1, <1>2 DEF WithdrawNext

LEMMA CloseStepType ==
  ASSUME TypeOK, CloseNext PROVE TypeOK'
<1> USE DEF configVars, registryVars, RegistryTypeOK
<1>1. ASSUME NEW id \in ChannelIds, NEW p \in Participants, NEW q \in Participants,
             NEW m \in CounterSignatures,
             closeChannel(id, p, q, m.balance_hash, m.nonce)
      PROVE  TypeOK'
  <2>1. m.nonce \in Nat /\ m.balance_hash \in BalanceData \cup {ZeroHash}
    BY MessagesAssumption
  <2> DEFINE closed == [participants EXCEPT ![<<id, q>>].is_the_closer = TRUE]
  <2>2. closed \in [ParticipantKeys -> Participant]
    BY KeyOf DEF TypeOK, Participant
  <2>3. withBalanceProof(closed, id, p, m.nonce, m.balance_hash)
          \in [ParticipantKeys -> Participant]
    <3>. HIDE DEF closed
    <3>. QED BY <2>1, <2>2, KeyOf DEF withBalanceProof, Participant
  <2>4. participants' \in [ParticipantKeys -> Participant]
    BY <1>1, <2>2, <2>3 DEF closeChannel, withCloser
  <2>5. timestamp + SettleTimeout \in Nat
    BY ConstructorAssumption DEF TypeOK
  <2>6. /\ state' \in [ChannelIds -> ChannelState]
        /\ settleable_after' \in [ChannelIds -> Nat]
    BY <1>1, <2>5 DEF closeChannel, TypeOK, ChannelState
  <2>. QED BY <1>1, <2>4, <2>6 DEF closeChannel, TypeOK
<1>2. ASSUME NEW id \in ChannelIds, NEW p \in Participants, NEW q \in Participants,
             NEW m \in BalanceProofs,
             updateNonClosingBalanceProof(id, p, q, m.balance_hash, m.nonce)
      PROVE  TypeOK'
  <2>1. m.nonce \in Nat /\ m.balance_hash \in BalanceData \cup {ZeroHash}
    BY MessagesAssumption
  <2>2. participants' \in [ParticipantKeys -> Participant]
    BY <1>2, <2>1, KeyOf
    DEF updateNonClosingBalanceProof, withBalanceProof, TypeOK, Participant
  <2>. QED BY <1>2, <2>2 DEF updateNonClosingBalanceProof, TypeOK
<1>. QED BY <1>1, <1>2 DEF CloseNext

LEMMA StoredType ==
  ASSUME NEW ud \in [UnlockIdentifiers -> UnlockData], NEW id \in ChannelIds,
         NEW p \in Participants, NEW q \in Participants,
         NEW locksroot \in LockLists, NEW locked_amount \in Uint
  PROVE  storeUnlockData(ud, id, p, q, locksroot, locked_amount)
           \in [UnlockIdentifiers -> UnlockData]
BY UnlockKeyOf DEF storeUnlockData, UnlockData

LEMMA SettleType ==
  ASSUME TypeOK, NEW id \in ChannelIds, NEW p1 \in Participants, NEW p2 \in Participants,
         NEW data1 \in BalanceData, NEW data2 \in BalanceData,
         settleChannel(id, p1, data1, p2, data2)
  PROVE  TypeOK'
<1> DEFINE x == getSettleTransferAmounts(
                  participants[<<id, p1>>], data1.transferred_amount, data1.locked_amount,
                  participants[<<id, p2>>], data2.transferred_amount, data2.locked_amount)
           stored1 == storeUnlockData(unlock_data, id, p1, p2, data1.locksroot, x.SL1)
<1>1. /\ settleAllowed(id, p1, data1, p2, data2) /\ p1 # p2
      /\ removeChannelData(id, p1, p2)
      /\ unlock_data' = storeUnlockData(stored1, id, p2, p1, data2.locksroot, x.SL2)
      /\ token' = paid(p1, x.S1, p2, x.S2)
      /\ UNCHANGED <<stuck, configVars, registryVars>>
  BY DEF settleChannel, settleAllowed
<1>2. /\ x.S1 \in Nat /\ x.S2 \in Nat /\ x.SL1 \in Uint /\ x.SL2 \in Uint
      /\ token[this] >= x.S1 + x.S2
  BY <1>1, SettleAmounts
<1>3. data1.locksroot \in LockLists /\ data2.locksroot \in LockLists
  BY MessagesAssumption
<1>. HIDE DEF x
<1>4. token' \in [Addresses -> Nat]
  BY <1>1, <1>2, PaidIsBalances
<1>5. stored1 \in [UnlockIdentifiers -> UnlockData]
  BY <1>2, <1>3, StoredType DEF TypeOK
<1>. HIDE DEF stored1
<1>6. unlock_data' \in [UnlockIdentifiers -> UnlockData]
  BY <1>1, <1>2, <1>3, <1>5, StoredType
<1>. QED BY <1>1, <1>4, <1>6, RemoveType DEF TypeOK, configVars, registryVars, RegistryTypeOK

\* What unlock pays and to whom it returns the rest.
LEMMA UnlockAmounts ==
  ASSUME TypeOK, NEW id \in ChannelIds, NEW p \in Participants, NEW q \in Participants,
         NEW locks, unlock(id, p, q, locks)
  PROVE  LET reserved == unlock_data[getUnlockIdentifier(id, q, p)].locked_amount
         IN  \E a, b \in Nat : /\ a + b = reserved
                               /\ token[this] >= reserved
                               /\ token' = paid(p, a, q, b)
<1> DEFINE reserved == unlock_data[getUnlockIdentifier(id, q, p)].locked_amount
           a == claimed(locks, reserved)
           b == reserved - a
<1>1. reserved \in Uint
  BY UnlockKeyOf DEF TypeOK, UnlockData
<1>2. /\ getUnlockedAmount(locks) \in Uint /\ token[this] >= reserved
      /\ token' = paid(p, a, q, b)
  BY DEF unlock, unlockAllowed
<1>. HIDE DEF reserved
<1>3. a \in Nat /\ b \in Nat /\ a + b = reserved
  BY <1>1, <1>2, MaxIsNat DEF claimed, min, Uint
<1>. HIDE DEF a, b
<1>. QED BY <1>2, <1>3 DEF reserved

LEMMA UnlockType ==
  ASSUME TypeOK, NEW id \in ChannelIds, NEW p \in Participants, NEW q \in Participants,
         NEW locks, unlock(id, p, q, locks)
  PROVE  TypeOK'
<1>1. PICK a \in Nat, b \in Nat : token[this] >= a + b /\ token' = paid(p, a, q, b)
  BY UnlockAmounts
<1>2. token' \in [Addresses -> Nat]
  BY <1>1, PaidIsBalances
<1>3. NoUnlockData \in UnlockData
  BY MaxIsNat DEF NoUnlockData, UnlockData, Uint
<1>4. unlock_data' \in [UnlockIdentifiers -> UnlockData]
  BY <1>3, UnlockKeyOf DEF unlock, deletedUnlockData, TypeOK
<1>. QED
  BY <1>2, <1>4 DEF unlock, TypeOK, configVars, channelVars, registryVars, RegistryTypeOK

LEMMA StepType == TypeOK /\ [Next]_vars => TypeOK'
<1> SUFFICES ASSUME TypeOK, [Next]_vars PROVE TypeOK'
  OBVIOUS
<1>1. CASE RegistryNext
  BY <1>1, RegistryStepType
<1>2. CASE ControllerNext
  BY <1>2, ControllerStepType
<1>3. CASE FundingNext
  BY <1>3, FundingStepType
<1>4. CASE WithdrawNext
  BY <1>4, WithdrawStepType
<1>5. CASE CloseNext
  BY <1>5, CloseStepType
<1>6. ASSUME NEW id \in ChannelIds, settleById(id) PROVE TypeOK'
  BY <1>6, SettleType DEF settleById
<1>7. ASSUME NEW id \in ChannelIds, unlockById(id) PROVE TypeOK'
  BY <1>7, UnlockType DEF unlockById
<1>8. CASE UNCHANGED vars
  BY <1>8 DEF vars, TypeOK, configVars, channelVars, registryVars, RegistryTypeOK
<1>. QED BY <1>1, <1>2, <1>3, <1>4, <1>5, <1>6, <1>7, <1>8 DEF Next

\* Every variable keeps its type: no deposit, withdrawn or locked amount ever
\* leaves uint256 and no token balance goes below 0, in whatever order the
\* functions are called.
THEOREM TypeCorrectness == Spec => []TypeOK
BY InitType, StepType, PTL DEF Spec

-----------------------------------------------------------------------------
(* Solvency.                                                               *)

SafetyInv ==
  /\ TypeOK
  /\ ChannelPairsConsistent
  /\ NothingLeftBehind
  /\ AvailableDepositComputable
  /\ Solvency

(* What the channels are known by. *)
Structure == ChannelPairsConsistent /\ NothingLeftBehind /\ AvailableDepositComputable

-----------------------------------------------------------------------------
(***************************************************************************)
(* The sums of Solvency.                                                   *)
(***************************************************************************)
LEMMA KeysFinite == IsFiniteSet(ParticipantKeys) /\ IsFiniteSet(UnlockIdentifiers)
<1>1. IsFiniteSet(ChannelIds)
  BY ConstructorAssumption, FS_Interval DEF ChannelIds
<1>2. IsFiniteSet(ParticipantKeys)
  BY <1>1, ConstructorAssumption, FS_Product DEF ParticipantKeys
<1>3. IsFiniteSet(Participants \X Participants)
  BY ConstructorAssumption, FS_Product
<1>4. IsFiniteSet(ChannelIds \X (Participants \X Participants))
  BY <1>1, <1>3, FS_Product
<1> DEFINE pairs == ChannelIds \X (Participants \X Participants)
           g == [k \in pairs |-> <<k[1], k[2][1], k[2][2]>>]
<1>5. g \in [pairs -> UnlockIdentifiers]
  BY DEF UnlockIdentifiers
<1>6. ASSUME NEW u \in UnlockIdentifiers PROVE \E k \in pairs : g[k] = u
  <2>1. <<u[1], <<u[2], u[3]>>>> \in pairs
    BY DEF UnlockIdentifiers
  <2>2. g[<<u[1], <<u[2], u[3]>>>>] = <<u[1], u[2], u[3]>>
    BY <2>1
  <2>3. u = <<u[1], u[2], u[3]>>
    BY DEF UnlockIdentifiers
  <2>. QED BY <2>1, <2>2, <2>3
<1>7. g \in Surjection(pairs, UnlockIdentifiers)
  BY <1>5, <1>6 DEF Surjection
<1>8. IsFiniteSet(UnlockIdentifiers)
  BY <1>4, <1>7, FS_Surjection DEF ExistsSurjection
<1>. QED BY <1>2, <1>8

\* A step that changes at most two accounts.
LEMMA BooksUpdate ==
  ASSUME TypeOK, participants' \in [ParticipantKeys -> Participant],
         NEW k1 \in ParticipantKeys, NEW k2 \in ParticipantKeys, k1 # k2,
         \A k \in ParticipantKeys \ {k1, k2} : participants'[k] = participants[k]
  PROVE  /\ deposits(ParticipantKeys)' = deposits(ParticipantKeys)
              - participants[k1].deposit - participants[k2].deposit
              + participants'[k1].deposit + participants'[k2].deposit
         /\ withdrawn(ParticipantKeys)' = withdrawn(ParticipantKeys)
              - participants[k1].withdrawn_amount - participants[k2].withdrawn_amount
              + participants'[k1].withdrawn_amount + participants'[k2].withdrawn_amount
<1> DEFINE d  == [k \in ParticipantKeys |-> participants[k].deposit]
           dd == [k \in ParticipantKeys |-> participants'[k].deposit]
           w  == [k \in ParticipantKeys |-> participants[k].withdrawn_amount]
           ww == [k \in ParticipantKeys |-> participants'[k].withdrawn_amount]
<1>1. /\ d \in [ParticipantKeys -> Nat] /\ dd \in [ParticipantKeys -> Nat]
      /\ w \in [ParticipantKeys -> Nat] /\ ww \in [ParticipantKeys -> Nat]
  BY MaxIsNat DEF TypeOK, Participant, Uint
<1>2. \A k \in ParticipantKeys \ {k1, k2} : dd[k] = d[k] /\ ww[k] = w[k]
  OBVIOUS
<1>3. /\ d[k1] = participants[k1].deposit /\ d[k2] = participants[k2].deposit
      /\ dd[k1] = participants'[k1].deposit /\ dd[k2] = participants'[k2].deposit
      /\ w[k1] = participants[k1].withdrawn_amount
      /\ w[k2] = participants[k2].withdrawn_amount
      /\ ww[k1] = participants'[k1].withdrawn_amount
      /\ ww[k2] = participants'[k2].withdrawn_amount
  OBVIOUS
<1>4. /\ deposits(ParticipantKeys) = Total(d) /\ deposits(ParticipantKeys)' = Total(dd)
      /\ withdrawn(ParticipantKeys) = Total(w) /\ withdrawn(ParticipantKeys)' = Total(ww)
  BY DEF deposits, withdrawn
<1>. HIDE DEF d, dd, w, ww
<1>5. Total(dd) = Total(d) - d[k1] - d[k2] + dd[k1] + dd[k2]
  BY <1>1, <1>2, KeysFinite, TotalUpdate2
<1>6. Total(ww) = Total(w) - w[k1] - w[k2] + ww[k1] + ww[k2]
  BY <1>1, <1>2, KeysFinite, TotalUpdate2
<1>. QED BY <1>3, <1>4, <1>5, <1>6

\* A step that changes at most two entries of the locked tokens.
LEMMA LockedUpdate ==
  ASSUME TypeOK, unlock_data' \in [UnlockIdentifiers -> UnlockData],
         NEW k1 \in UnlockIdentifiers, NEW k2 \in UnlockIdentifiers, k1 # k2,
         \A k \in UnlockIdentifiers \ {k1, k2} : unlock_data'[k] = unlock_data[k]
  PROVE  locked(UnlockIdentifiers)' = locked(UnlockIdentifiers)
           - unlock_data[k1].locked_amount - unlock_data[k2].locked_amount
           + unlock_data'[k1].locked_amount + unlock_data'[k2].locked_amount
<1> DEFINE f == [k \in UnlockIdentifiers |-> unlock_data[k].locked_amount]
           g == [k \in UnlockIdentifiers |-> unlock_data'[k].locked_amount]
<1>1. f \in [UnlockIdentifiers -> Nat] /\ g \in [UnlockIdentifiers -> Nat]
  BY MaxIsNat DEF TypeOK, UnlockData, Uint
<1>2. \A k \in UnlockIdentifiers \ {k1, k2} : g[k] = f[k]
  OBVIOUS
<1>3. /\ f[k1] = unlock_data[k1].locked_amount /\ f[k2] = unlock_data[k2].locked_amount
      /\ g[k1] = unlock_data'[k1].locked_amount /\ g[k2] = unlock_data'[k2].locked_amount
  OBVIOUS
<1>4. locked(UnlockIdentifiers) = Total(f) /\ locked(UnlockIdentifiers)' = Total(g)
  BY DEF locked
<1>. HIDE DEF f, g
<1>5. Total(g) = Total(f) - f[k1] - f[k2] + g[k1] + g[k2]
  BY <1>1, <1>2, KeysFinite, TotalUpdate2
<1>. QED BY <1>3, <1>4, <1>5

LEMMA SumsAreNat ==
  ASSUME TypeOK
  PROVE  /\ deposits(ParticipantKeys) \in Nat /\ withdrawn(ParticipantKeys) \in Nat
         /\ locked(UnlockIdentifiers) \in Nat
         /\ token[this] \in Nat /\ stuck \in Nat
<1>1. /\ [k \in ParticipantKeys |-> participants[k].deposit] \in [ParticipantKeys -> Nat]
      /\ [k \in ParticipantKeys |-> participants[k].withdrawn_amount]
           \in [ParticipantKeys -> Nat]
      /\ [k \in UnlockIdentifiers |-> unlock_data[k].locked_amount]
           \in [UnlockIdentifiers -> Nat]
  BY MaxIsNat DEF TypeOK, Participant, UnlockData, Uint
<1>2. /\ deposits(ParticipantKeys) \in Nat /\ withdrawn(ParticipantKeys) \in Nat
      /\ locked(UnlockIdentifiers) \in Nat
  BY <1>1, KeysFinite, TotalIsNat DEF deposits, withdrawn, locked
<1>3. token[this] \in Nat /\ stuck \in Nat
  BY DEF TypeOK, Addresses
<1>. QED BY <1>2, <1>3

-----------------------------------------------------------------------------
(***************************************************************************)
(* Channels stay apart.  The steps are of four kinds: one opens a channel, *)
(* changes the accounts of one channel, removes a channel, or touches the  *)
(* locked tokens only.                                                     *)
(***************************************************************************)
LEMMA AvailableSymmetric ==
  ASSUME NEW a \in Participant, NEW b \in Participant, availableDepositComputable(a, b)
  PROVE  availableDepositComputable(b, a)
BY MaxIsNat, SMT
DEF Participant, Uint, availableDepositComputable, getChannelAvailableDeposit

LEMMA LiveChannel ==
  ASSUME TypeOK, ChannelPairsConsistent, NEW pair \in Pairs, ChannelOf(pair) # 0
  PROVE  /\ ChannelOf(pair) \in ChannelIds /\ ChannelOf(pair) <= channel_counter
         /\ state[ChannelOf(pair)] # "NonExistent"
         /\ \A other \in Pairs \ {pair} : ChannelOf(other) # ChannelOf(pair)
<1>1. ChannelOf(pair) \in ChannelIds
  BY ConstructorAssumption DEF TypeOK, ChannelOf, ChannelIds
<1>. QED BY <1>1 DEF ChannelPairsConsistent

LEMMA NewChannelIsUnused ==
  ASSUME SafetyInv, NEW id \in ChannelIds, id = channel_counter + 1
  PROVE  /\ state[id] = "NonExistent" /\ settleable_after[id] = 0
         /\ \A r \in Participants : participants[<<id, r>>] = NoParticipant
         /\ \A pair \in Pairs : ChannelOf(pair) # id
         /\ id # 0
<1>1. \A pair \in Pairs : ChannelOf(pair) # id
  <2>1. channel_counter \in Nat /\ id # 0
    BY ConstructorAssumption DEF SafetyInv, TypeOK, ChannelIds
  <2>. QED BY <2>1, LiveChannel DEF SafetyInv
<1>2. state[id] = "NonExistent"
  BY <1>1 DEF SafetyInv, ChannelPairsConsistent
<1>3. settleable_after[id] = 0
  BY <1>2 DEF SafetyInv, NothingLeftBehind
<1>4. \A r \in Participants : participants[<<id, r>>] = NoParticipant
  BY <1>1 DEF SafetyInv, NothingLeftBehind
<1>5. id # 0
  BY ConstructorAssumption DEF ChannelIds
<1>. QED BY <1>1, <1>2, <1>3, <1>4, <1>5

\* The accounts of a channel the step is not about.
LEMMA AvailableElsewhere ==
  ASSUME TypeOK, AvailableDepositComputable,
         NEW id \in ChannelIds, NEW pair \in Pairs,
         ChannelOf(pair)' = ChannelOf(pair), ChannelOf(pair) # 0, ChannelOf(pair) # id,
         \A k \in ParticipantKeys : k[1] # id => participants'[k] = participants[k],
         NEW p \in pair, NEW q \in pair, p # q
  PROVE  availableDepositComputable(participants[<<ChannelOf(pair), p>>],
                                    participants[<<ChannelOf(pair), q>>])'
<1> DEFINE other == ChannelOf(pair)
<1>1. other \in ChannelIds /\ other # id
  BY ConstructorAssumption DEF TypeOK, ChannelOf, ChannelIds
<1>2. p \in Participants /\ q \in Participants
  BY DEF Pairs
<1>3. availableDepositComputable(participants[<<other, p>>], participants[<<other, q>>])
  BY DEF AvailableDepositComputable
<1>4. /\ participants'[<<other, p>>] = participants[<<other, p>>]
      /\ participants'[<<other, q>>] = participants[<<other, q>>]
  <2>1. <<other, p>> \in ParticipantKeys /\ <<other, q>> \in ParticipantKeys
    BY <1>1, <1>2, KeyOf
  <2>2. <<other, p>>[1] # id /\ <<other, q>>[1] # id
    BY <1>1
  <2>. QED BY <2>1, <2>2
<1>5. other' = other
  OBVIOUS
<1>. HIDE DEF other
<1>. QED
  BY <1>3, <1>4, <1>5 DEF other, availableDepositComputable, getChannelAvailableDeposit

\* The two participants' own accounts after the step.
LEMMA AvailableHere ==
  ASSUME TypeOK', NEW id \in ChannelIds, NEW p1 \in Participants, NEW p2 \in Participants,
         availableDepositComputable(participants'[<<id, p1>>], participants'[<<id, p2>>]),
         NEW p \in {p1, p2}, NEW q \in {p1, p2}, p # q
  PROVE  availableDepositComputable(participants'[<<id, p>>], participants'[<<id, q>>])
<1>1. participants'[<<id, p1>>] \in Participant /\ participants'[<<id, p2>>] \in Participant
  BY KeyOf DEF TypeOK
<1>. QED BY <1>1, AvailableSymmetric

LEMMA AccountStructure ==
  ASSUME SafetyInv, TypeOK', NEW id \in ChannelIds,
         NEW p1 \in Participants, NEW p2 \in Participants,
         p1 # p2, id = getChannelIdentifier(p1, p2),
         UNCHANGED <<participants_hash_to_channel_identifier, channel_counter, unlock_data>>,
         \A i \in ChannelIds : /\ state'[i] = "NonExistent" <=> state[i] = "NonExistent"
                               /\ settleable_after'[i] # 0 <=> state'[i] = "Closed",
         \A k \in ParticipantKeys \ {<<id, p1>>, <<id, p2>>} :
           participants'[k] = participants[k],
         availableDepositComputable(participants'[<<id, p1>>], participants'[<<id, p2>>])
  PROVE  Structure'
<1> DEFINE here == {p1, p2}
<1>1. here \in Pairs /\ ChannelOf(here) = id /\ id # 0
  BY PairOf, ConstructorAssumption DEF getChannelIdentifier, getParticipantsHash, ChannelOf, ChannelIds
<1>2. \A pair \in Pairs : ChannelOf(pair)' = ChannelOf(pair)
  BY DEF ChannelOf
<1>3. ChannelPairsConsistent'
  <2>1. \A pair \in Pairs : ChannelOf(pair) # 0 => ChannelOf(pair) \in ChannelIds
    BY LiveChannel DEF SafetyInv
  <2>. QED BY <1>2, <2>1 DEF SafetyInv, ChannelPairsConsistent
<1>4. NothingLeftBehind'
  <2>1. ASSUME NEW i \in ChannelIds, NEW p \in Participants,
               participants'[<<i, p>>] # NoParticipant
        PROVE  \E pair \in Pairs : p \in pair /\ ChannelOf(pair)' = i
    <3>1. CASE <<i, p>> \in {<<id, p1>>, <<id, p2>>}
      BY <1>1, <1>2, <3>1
    <3>2. CASE <<i, p>> \notin {<<id, p1>>, <<id, p2>>}
      <4>1. participants[<<i, p>>] # NoParticipant
        BY <2>1, <3>2, KeyOf
      <4>. QED BY <1>2, <4>1 DEF SafetyInv, NothingLeftBehind
    <3>. QED BY <3>1, <3>2
  <2>2. ASSUME NEW k \in UnlockIdentifiers, unlock_data'[k] # NoUnlockData
        PROVE  state'[k[1]] = "NonExistent" /\ k[1] <= channel_counter'
    BY <2>2 DEF SafetyInv, NothingLeftBehind, UnlockIdentifiers
  <2>. QED BY <2>1, <2>2 DEF NothingLeftBehind
<1>5. AvailableDepositComputable'
  <2> SUFFICES ASSUME NEW pair \in Pairs, ChannelOf(pair)' # 0,
                      NEW p \in pair, NEW q \in pair, p # q
               PROVE  availableDepositComputable(participants[<<ChannelOf(pair), p>>],
                                                 participants[<<ChannelOf(pair), q>>])'
    BY DEF AvailableDepositComputable
  <2>1. CASE pair = here
    <3>1. ChannelOf(pair)' = id
      BY <1>1, <1>2, <2>1
    <3>2. p \in {p1, p2} /\ q \in {p1, p2}
      BY <2>1
    <3>3. availableDepositComputable(participants'[<<id, p>>], participants'[<<id, q>>])
      BY <3>2, AvailableHere
    <3>. QED BY <3>1, <3>3 DEF availableDepositComputable, getChannelAvailableDeposit
  <2>2. CASE pair # here
    <3>1. ChannelOf(pair) # id /\ ChannelOf(pair) # 0
      BY <1>1, <1>2, <2>2, LiveChannel DEF SafetyInv
    <3>2. \A k \in ParticipantKeys : k[1] # id => participants'[k] = participants[k]
      OBVIOUS
    <3>. QED BY <1>2, <3>1, <3>2, AvailableElsewhere DEF SafetyInv
  <2>. QED BY <2>1, <2>2
<1>. QED BY <1>3, <1>4, <1>5 DEF Structure

LEMMA OpenStructure ==
  ASSUME SafetyInv, TypeOK', NEW p1 \in Participants, NEW p2 \in Participants,
         openedChannel(p1, p2),
         UNCHANGED <<settleable_after, unlock_data>>,
         \A k \in ParticipantKeys \ {<<channel_counter + 1, p1>>, <<channel_counter + 1, p2>>} :
           participants'[k] = participants[k],
         availableDepositComputable(participants'[<<channel_counter + 1, p1>>],
                                    participants'[<<channel_counter + 1, p2>>])
  PROVE  Structure'
<1> DEFINE here == {p1, p2}
           id   == channel_counter + 1
<1>1. /\ here \in Pairs /\ ChannelOf(here) = 0 /\ p1 # p2
      /\ id \in ChannelIds /\ channel_counter' = id
  <2>1. TypeOK
    BY DEF SafetyInv
  <2>. QED
    BY <2>1, PairOf, OpenedChannelType
    DEF openedChannel, getChannelIdentifier, getParticipantsHash, ChannelOf
<1>2. /\ state[id] = "NonExistent" /\ settleable_after[id] = 0 /\ id # 0
      /\ \A r \in Participants : participants[<<id, r>>] = NoParticipant
      /\ \A pair \in Pairs : ChannelOf(pair) # id
  BY <1>1, NewChannelIsUnused
<1>3. /\ \A pair \in Pairs \ {here} : ChannelOf(pair)' = ChannelOf(pair)
      /\ ChannelOf(here)' = id
  BY <1>1 DEF SafetyInv, TypeOK, openedChannel, ChannelOf, getParticipantsHash
<1>4. /\ state'[id] = "Opened"
      /\ \A i \in ChannelIds \ {id} : state'[i] = state[i]
  BY <1>1 DEF SafetyInv, TypeOK, openedChannel
<1>5. channel_counter \in Nat
  BY ConstructorAssumption DEF SafetyInv, TypeOK
<1>6. ASSUME NEW pair \in Pairs, ChannelOf(pair) # 0
      PROVE  /\ ChannelOf(pair) \in ChannelIds /\ ChannelOf(pair) <= channel_counter
             /\ state[ChannelOf(pair)] # "NonExistent"
             /\ \A other \in Pairs \ {pair} : ChannelOf(other) # ChannelOf(pair)
  BY <1>6, LiveChannel DEF SafetyInv
<1>. HIDE DEF here
<1>7. ChannelPairsConsistent'
  <2>1. ASSUME NEW pair \in Pairs, ChannelOf(pair)' # 0
        PROVE  ChannelOf(pair)' <= channel_counter' /\ state'[ChannelOf(pair)'] # "NonExistent"
    <3>1. CASE pair = here
      BY <1>1, <1>3, <1>4, <1>5, <3>1
    <3>2. CASE pair # here
      <4>1. ChannelOf(pair)' = ChannelOf(pair) /\ ChannelOf(pair) # 0
        BY <1>3, <2>1, <3>2
      <4>2. /\ ChannelOf(pair) \in ChannelIds /\ ChannelOf(pair) <= channel_counter
            /\ state[ChannelOf(pair)] # "NonExistent" /\ ChannelOf(pair) # id
        BY <1>2, <1>6, <4>1
      <4>. QED
        BY <1>1, <1>4, <1>5, <4>1, <4>2, ConstructorAssumption DEF ChannelIds
    <3>. QED BY <3>1, <3>2
  <2>2. ASSUME NEW pair1 \in Pairs, NEW pair2 \in Pairs,
               ChannelOf(pair1)' = ChannelOf(pair2)', ChannelOf(pair1)' # 0
        PROVE  pair1 = pair2
    BY <1>2, <1>3, <1>6, <2>2
  <2>3. ASSUME NEW i \in ChannelIds, state'[i] # "NonExistent"
        PROVE  \E pair \in Pairs : ChannelOf(pair)' = i
    <3>1. CASE i = id
      BY <1>1, <1>3, <3>1
    <3>2. CASE i # id
      <4>1. PICK pair \in Pairs : ChannelOf(pair) = i
        BY <1>4, <2>3, <3>2 DEF SafetyInv, ChannelPairsConsistent
      <4>2. pair # here
        BY <1>1, <4>1, ConstructorAssumption DEF ChannelIds
      <4>. QED BY <1>3, <4>1, <4>2
    <3>. QED BY <3>1, <3>2
  <2>. QED BY <2>1, <2>2, <2>3 DEF ChannelPairsConsistent, ChannelOf
<1>8. NothingLeftBehind'
  <2>1. ASSUME NEW i \in ChannelIds, NEW p \in Participants,
               participants'[<<i, p>>] # NoParticipant
        PROVE  \E pair \in Pairs : p \in pair /\ ChannelOf(pair)' = i
    <3>1. CASE <<i, p>> \in {<<id, p1>>, <<id, p2>>}
      BY <1>1, <1>3, <3>1 DEF here
    <3>2. CASE <<i, p>> \notin {<<id, p1>>, <<id, p2>>}
      <4>1. participants[<<i, p>>] # NoParticipant
        BY <2>1, <3>2, KeyOf
      <4>2. PICK pair \in Pairs : p \in pair /\ ChannelOf(pair) = i
        BY <4>1 DEF SafetyInv, NothingLeftBehind
      <4>3. pair # here
        BY <1>1, <4>2, ConstructorAssumption DEF ChannelIds
      <4>. QED BY <1>3, <4>2, <4>3
    <3>. QED BY <3>1, <3>2
  <2>2. \A i \in ChannelIds : settleable_after'[i] # 0 <=> state'[i] = "Closed"
    BY <1>2, <1>4 DEF SafetyInv, NothingLeftBehind
  <2>3. ASSUME NEW k \in UnlockIdentifiers, unlock_data'[k] # NoUnlockData
        PROVE  state'[k[1]] = "NonExistent" /\ k[1] <= channel_counter'
    <3>1. k[1] \in ChannelIds /\ state[k[1]] = "NonExistent" /\ k[1] <= channel_counter
      BY <2>3 DEF SafetyInv, NothingLeftBehind, UnlockIdentifiers
    <3>. QED BY <1>1, <1>4, <1>5, <3>1, ConstructorAssumption DEF ChannelIds
  <2>. QED BY <2>1, <2>2, <2>3 DEF NothingLeftBehind, ChannelOf
<1>9. AvailableDepositComputable'
  <2> SUFFICES ASSUME NEW pair \in Pairs, ChannelOf(pair)' # 0,
                      NEW p \in pair, NEW q \in pair, p # q
               PROVE  availableDepositComputable(participants[<<ChannelOf(pair), p>>],
                                                 participants[<<ChannelOf(pair), q>>])'
    BY DEF AvailableDepositComputable
  <2>1. CASE pair = here
    <3>1. p \in {p1, p2} /\ q \in {p1, p2} /\ ChannelOf(pair)' = id
      BY <1>3, <2>1 DEF here
    <3>2. availableDepositComputable(participants'[<<id, p>>], participants'[<<id, q>>])
      BY <1>1, <3>1, AvailableHere
    <3>. QED BY <3>1, <3>2 DEF availableDepositComputable, getChannelAvailableDeposit
  <2>2. CASE pair # here
    <3>1. ChannelOf(pair)' = ChannelOf(pair) /\ ChannelOf(pair) # 0 /\ ChannelOf(pair) # id
      BY <1>2, <1>3, <2>2
    <3>2. \A k \in ParticipantKeys : k[1] # id => participants'[k] = participants[k]
      OBVIOUS
    <3>. QED BY <1>1, <3>1, <3>2, AvailableElsewhere DEF SafetyInv
  <2>. QED BY <2>1, <2>2
<1>. QED BY <1>7, <1>8, <1>9 DEF Structure

LEMMA RemoveStructure ==
  ASSUME SafetyInv, TypeOK', NEW id \in ChannelIds,
         NEW p1 \in Participants, NEW p2 \in Participants,
         p1 # p2, id = getChannelIdentifier(p1, p2), removeChannelData(id, p1, p2),
         \A k \in UnlockIdentifiers :
           unlock_data'[k] # NoUnlockData => unlock_data[k] # NoUnlockData \/ k[1] = id
  PROVE  Structure'
<1> DEFINE here == {p1, p2}
<1>1. here \in Pairs /\ ChannelOf(here) = id /\ id # 0
  BY PairOf, ConstructorAssumption
  DEF getChannelIdentifier, getParticipantsHash, ChannelOf, ChannelIds
<1>2. /\ \A pair \in Pairs \ {here} : ChannelOf(pair)' = ChannelOf(pair)
      /\ ChannelOf(here)' = 0
  BY <1>1 DEF SafetyInv, TypeOK, removeChannelData, removedPair, ChannelOf, getParticipantsHash
<1>3. /\ state'[id] = "NonExistent" /\ settleable_after'[id] = 0
      /\ \A i \in ChannelIds \ {id} :
           state'[i] = state[i] /\ settleable_after'[i] = settleable_after[i]
      /\ channel_counter' = channel_counter
  BY DEF SafetyInv, TypeOK, removeChannelData
<1>4. /\ participants'[<<id, p1>>] = NoParticipant
      /\ participants'[<<id, p2>>] = NoParticipant
      /\ \A k \in ParticipantKeys \ {<<id, p1>>, <<id, p2>>} :
           participants'[k] = participants[k]
  BY KeyOf DEF SafetyInv, TypeOK, removeChannelData, removedAccounts
<1>5. ASSUME NEW pair \in Pairs, ChannelOf(pair) # 0
      PROVE  /\ ChannelOf(pair) \in ChannelIds /\ ChannelOf(pair) <= channel_counter
             /\ state[ChannelOf(pair)] # "NonExistent"
             /\ \A other \in Pairs \ {pair} : ChannelOf(other) # ChannelOf(pair)
  BY <1>5, LiveChannel DEF SafetyInv
<1>. HIDE DEF here
\* A pair that still has a channel has the one it had, and it is not this one.
<1>6. ASSUME NEW pair \in Pairs, ChannelOf(pair)' # 0
      PROVE  /\ pair # here /\ ChannelOf(pair)' = ChannelOf(pair)
             /\ ChannelOf(pair) # 0 /\ ChannelOf(pair) \in ChannelIds \ {id}
  <2>1. pair # here
    BY <1>2, <1>6
  <2>2. ChannelOf(pair)' = ChannelOf(pair) /\ ChannelOf(pair) # 0
    BY <1>2, <1>6, <2>1
  <2>. QED BY <1>1, <1>5, <2>1, <2>2
<1>7. ChannelPairsConsistent'
  <2>1. ASSUME NEW pair \in Pairs, ChannelOf(pair)' # 0
        PROVE  ChannelOf(pair)' <= channel_counter' /\ state'[ChannelOf(pair)'] # "NonExistent"
    BY <1>3, <1>5, <1>6, <2>1
  <2>2. ASSUME NEW pair1 \in Pairs, NEW pair2 \in Pairs,
               ChannelOf(pair1)' = ChannelOf(pair2)', ChannelOf(pair1)' # 0
        PROVE  pair1 = pair2
    BY <1>5, <1>6, <2>2
  <2>3. ASSUME NEW i \in ChannelIds, state'[i] # "NonExistent"
        PROVE  \E pair \in Pairs : ChannelOf(pair)' = i
    <3>1. i # id /\ state[i] # "NonExistent"
      BY <1>3, <2>3
    <3>2. PICK pair \in Pairs : ChannelOf(pair) = i
      BY <3>1 DEF SafetyInv, ChannelPairsConsistent
    <3>. QED BY <1>1, <1>2, <3>1, <3>2
  <2>. QED BY <2>1, <2>2, <2>3 DEF ChannelPairsConsistent, ChannelOf
<1>8. NothingLeftBehind'
  <2>1. ASSUME NEW i \in ChannelIds, NEW p \in Participants,
               participants'[<<i, p>>] # NoParticipant
        PROVE  \E pair \in Pairs : p \in pair /\ ChannelOf(pair)' = i
    <3>1. <<i, p>> \notin {<<id, p1>>, <<id, p2>>} /\ participants[<<i, p>>] # NoParticipant
      BY <1>4, <2>1, KeyOf
    <3>2. PICK pair \in Pairs : p \in pair /\ ChannelOf(pair) = i
      BY <3>1 DEF SafetyInv, NothingLeftBehind
    <3>3. pair # here
      BY <1>1, <3>1, <3>2 DEF here
    <3>. QED BY <1>2, <3>2, <3>3
  <2>2. \A i \in ChannelIds : settleable_after'[i] # 0 <=> state'[i] = "Closed"
    BY <1>3 DEF SafetyInv, NothingLeftBehind
  <2>3. ASSUME NEW k \in UnlockIdentifiers, unlock_data'[k] # NoUnlockData
        PROVE  state'[k[1]] = "NonExistent" /\ k[1] <= channel_counter'
    <3>1. k[1] \in ChannelIds
      BY DEF UnlockIdentifiers
    <3>2. CASE k[1] = id
      BY <1>1, <1>3, <1>5, <3>2
    <3>3. CASE k[1] # id
      BY <1>3, <2>3, <3>1, <3>3 DEF SafetyInv, NothingLeftBehind
    <3>. QED BY <3>2, <3>3
  <2>. QED BY <2>1, <2>2, <2>3 DEF NothingLeftBehind, ChannelOf
<1>9. AvailableDepositComputable'
  <2> SUFFICES ASSUME NEW pair \in Pairs, ChannelOf(pair)' # 0,
                      NEW p \in pair, NEW q \in pair, p # q
               PROVE  availableDepositComputable(participants[<<ChannelOf(pair), p>>],
                                                 participants[<<ChannelOf(pair), q>>])'
    BY DEF AvailableDepositComputable
  <2>1. ChannelOf(pair)' = ChannelOf(pair) /\ ChannelOf(pair) # 0 /\ ChannelOf(pair) # id
    BY <1>6
  <2>2. \A k \in ParticipantKeys : k[1] # id => participants'[k] = participants[k]
    BY <1>4
  <2>. QED BY <2>1, <2>2, AvailableElsewhere DEF SafetyInv
<1>. QED BY <1>7, <1>8, <1>9 DEF Structure

LEMMA SameChannelsStructure ==
  ASSUME SafetyInv, UNCHANGED channelVars,
         \A k \in UnlockIdentifiers : unlock_data'[k] \in {unlock_data[k], NoUnlockData}
  PROVE  Structure'
<1>1. ChannelPairsConsistent'
  BY DEF SafetyInv, ChannelPairsConsistent, ChannelOf, channelVars
<1>2. NothingLeftBehind'
  BY DEF SafetyInv, NothingLeftBehind, ChannelOf, channelVars
<1>3. AvailableDepositComputable'
  BY DEF SafetyInv, AvailableDepositComputable, ChannelOf, channelVars,
         availableDepositComputable, getChannelAvailableDeposit
<1>. QED BY <1>1, <1>2, <1>3 DEF Structure

-----------------------------------------------------------------------------
(***************************************************************************)
(* Every step keeps the books balanced.                                    *)
(***************************************************************************)
LEMMA InitSafety == Init => SafetyInv
<1> SUFFICES ASSUME Init PROVE SafetyInv
  OBVIOUS
<1>1. TypeOK
  BY InitType
<1>2. ChannelPairsConsistent
  BY DEF Init, ChannelPairsConsistent, ChannelOf
<1>3. NothingLeftBehind
  BY DEF Init, NothingLeftBehind, ParticipantKeys
<1>4. AvailableDepositComputable
  BY DEF Init, AvailableDepositComputable, ChannelOf
<1>5. /\ deposits(ParticipantKeys) = 0 /\ withdrawn(ParticipantKeys) = 0
      /\ locked(UnlockIdentifiers) = 0
  <2>1. /\ [k \in ParticipantKeys |-> participants[k].deposit] = [k \in ParticipantKeys |-> 0]
        /\ [k \in ParticipantKeys |-> participants[k].withdrawn_amount]
             = [k \in ParticipantKeys |-> 0]
        /\ [k \in UnlockIdentifiers |-> unlock_data[k].locked_amount]
             = [k \in UnlockIdentifiers |-> 0]
    BY DEF Init, NoParticipant, NoUnlockData
  <2>. QED BY <2>1, TotalOfZeros DEF deposits, withdrawn, locked
<1>6. token[this] = 0 /\ stuck = 0
  BY DEF Init, Addresses
<1>7. Solvency
  BY <1>5, <1>6 DEF Solvency
<1>. QED BY <1>1, <1>2, <1>3, <1>4, <1>7 DEF SafetyInv

\* A step of the registry, the controller or the token alone.
LEMMA OutsideSafety ==
  ASSUME SafetyInv, TypeOK', UNCHANGED <<channelVars, unlock_data>>,
         token'[this] - token[this] = stuck' - stuck
  PROVE  SafetyInv'
<1>1. Structure'
  BY SameChannelsStructure DEF channelVars
<1>2. /\ deposits(ParticipantKeys)' = deposits(ParticipantKeys)
      /\ withdrawn(ParticipantKeys)' = withdrawn(ParticipantKeys)
      /\ locked(UnlockIdentifiers)' = locked(UnlockIdentifiers)
  BY DEF channelVars, deposits, withdrawn, locked
<1>3. /\ deposits(ParticipantKeys) \in Nat /\ withdrawn(ParticipantKeys) \in Nat
      /\ locked(UnlockIdentifiers) \in Nat /\ token[this] \in Nat /\ stuck \in Nat
      /\ token'[this] \in Nat /\ stuck' \in Nat
  BY SumsAreNat DEF SafetyInv, TypeOK, Addresses
<1>4. Solvency'
  <2>1. token'[this] + withdrawn(ParticipantKeys)'
          = deposits(ParticipantKeys)' + locked(UnlockIdentifiers)' + stuck'
    <3>1. token[this] + withdrawn(ParticipantKeys)
            = deposits(ParticipantKeys) + locked(UnlockIdentifiers) + stuck
      BY DEF SafetyInv, Solvency
    <3>. QED BY <1>2, <1>3, <3>1
  <2>. QED BY <2>1 DEF Solvency
<1>. QED BY <1>1, <1>4 DEF Structure, SafetyInv

LEMMA LockedIsNat ==
  ASSUME TypeOK' PROVE locked(UnlockIdentifiers)' \in Nat
<1>1. [k \in UnlockIdentifiers |-> unlock_data'[k].locked_amount]
        \in [UnlockIdentifiers -> Nat]
  BY MaxIsNat DEF TypeOK, UnlockData, Uint
<1>2. Total([k \in UnlockIdentifiers |-> unlock_data'[k].locked_amount]) \in Nat
  BY <1>1, KeysFinite, TotalIsNat
<1>. QED BY <1>2 DEF locked

\* A step that changes two accounts, and the contract's tokens and what is
\* locked in it by what those accounts lost or gained.
LEMMA BooksSolvency ==
  ASSUME SafetyInv, TypeOK', NEW k1 \in ParticipantKeys, NEW k2 \in ParticipantKeys, k1 # k2,
         \A k \in ParticipantKeys \ {k1, k2} : participants'[k] = participants[k],
         UNCHANGED stuck,
         (token'[this] - token[this])
           - (locked(UnlockIdentifiers)' - locked(UnlockIdentifiers))
           = (participants'[k1].deposit - participants'[k1].withdrawn_amount)
             - (participants[k1].deposit - participants[k1].withdrawn_amount)
             + (participants'[k2].deposit - participants'[k2].withdrawn_amount)
             - (participants[k2].deposit - participants[k2].withdrawn_amount)
  PROVE  Solvency'
<1> DEFINE D == deposits(ParticipantKeys)   DD == deposits(ParticipantKeys)'
           W == withdrawn(ParticipantKeys)  WW == withdrawn(ParticipantKeys)'
           L == locked(UnlockIdentifiers)   LL == locked(UnlockIdentifiers)'
           t == token[this]                 tt == token'[this]
           d1 == participants[k1].deposit   dd1 == participants'[k1].deposit
           d2 == participants[k2].deposit   dd2 == participants'[k2].deposit
           w1 == participants[k1].withdrawn_amount
           w2 == participants[k2].withdrawn_amount
           ww1 == participants'[k1].withdrawn_amount
           ww2 == participants'[k2].withdrawn_amount
<1>1. participants' \in [ParticipantKeys -> Participant]
  BY DEF TypeOK
<1>2. DD = D - d1 - d2 + dd1 + dd2 /\ WW = W - w1 - w2 + ww1 + ww2
  BY <1>1, BooksUpdate DEF SafetyInv
<1>3. /\ D \in Nat /\ W \in Nat /\ L \in Nat /\ t \in Nat /\ stuck \in Nat
      /\ tt \in Nat /\ LL \in Nat
  BY SumsAreNat, LockedIsNat DEF SafetyInv, TypeOK, Addresses
<1>4. /\ d1 \in Nat /\ w1 \in Nat /\ d2 \in Nat /\ w2 \in Nat
      /\ dd1 \in Nat /\ ww1 \in Nat /\ dd2 \in Nat /\ ww2 \in Nat
  BY <1>1, MaxIsNat DEF SafetyInv, TypeOK, Participant, Uint
<1>5. stuck' = stuck
  OBVIOUS
<1>6. t + W = D + L + stuck
  BY DEF SafetyInv, Solvency
<1>7. (tt - t) - (LL - L) = (dd1 - ww1) - (d1 - w1) + (dd2 - ww2) - (d2 - w2)
  OBVIOUS
<1>. HIDE DEF D, DD, W, WW, L, LL, t, tt, d1, d2, dd1, dd2, w1, w2, ww1, ww2
<1>8. tt + WW = DD + LL + stuck
  <2>1. DD - WW = (D - W) + ((dd1 - ww1) - (d1 - w1) + (dd2 - ww2) - (d2 - w2))
    BY <1>2, <1>3, <1>4
  <2>2. DD \in Int /\ WW \in Int
    BY <1>2, <1>3, <1>4
  <2>3. DD - WW = (D - W) + ((tt - t) - (LL - L))
    BY <1>7, <2>1
  <2>. QED BY <1>3, <1>6, <2>2, <2>3
<1>9. Solvency' <=> tt + WW = DD + LL + stuck'
  BY DEF Solvency, DD, WW, LL, tt
<1>. QED BY <1>5, <1>8, <1>9

\* A step that changes accounts of one channel and the contract's tokens alike.
LEMMA AccountSolvency ==
  ASSUME SafetyInv, TypeOK', NEW k1 \in ParticipantKeys, NEW k2 \in ParticipantKeys, k1 # k2,
         \A k \in ParticipantKeys \ {k1, k2} : participants'[k] = participants[k],
         UNCHANGED <<unlock_data, stuck>>,
         token'[this] - token[this]
           = (participants'[k1].deposit - participants'[k1].withdrawn_amount)
             - (participants[k1].deposit - participants[k1].withdrawn_amount)
             + (participants'[k2].deposit - participants'[k2].withdrawn_amount)
             - (participants[k2].deposit - participants[k2].withdrawn_amount)
  PROVE  Solvency'
<1>1. locked(UnlockIdentifiers)' = locked(UnlockIdentifiers)
  BY DEF locked
<1>2. locked(UnlockIdentifiers) \in Nat /\ token[this] \in Nat /\ token'[this] \in Nat
  BY SumsAreNat DEF SafetyInv, TypeOK, Addresses
<1>3. (token'[this] - token[this])
        - (locked(UnlockIdentifiers)' - locked(UnlockIdentifiers))
        = token'[this] - token[this]
  BY <1>1, <1>2
<1>. QED BY <1>3, BooksSolvency

\* Wrapping arithmetic and the checks of setTotalDepositFor make a deposit exact.
LEMMA DepositArithmetic ==
  ASSUME NEW d \in Uint, NEW partner \in Uint, NEW total_deposit \in Uint,
         Wrap(total_deposit - d) <= total_deposit, Wrap(total_deposit - d) > 0,
         depositFits(total_deposit, partner)
  PROVE  /\ Wrap(total_deposit - d) = total_deposit - d /\ total_deposit > d
         /\ total_deposit + partner \in Uint
<1> USE MaxIsNat DEF Uint
<1>1. CASE total_deposit < d
  <2>1. Wrap(total_deposit - d) = total_deposit - d + (MAX_SAFE_UINT256 + 1)
    BY <1>1, WrapUnder
  <2>. QED BY <1>1, <2>1
<1>2. CASE total_deposit >= d
  <2>1. Wrap(total_deposit - d) = total_deposit - d
    BY <1>2, WrapInRange
  <2>2. total_deposit + partner <= MAX_SAFE_UINT256
    <3>1. SUFFICES ASSUME total_deposit + partner > MAX_SAFE_UINT256 PROVE FALSE
      OBVIOUS
    <3>2. Wrap(total_deposit + partner) = total_deposit + partner - (MAX_SAFE_UINT256 + 1)
      BY <3>1, WrapOver
    <3>. QED BY <3>2 DEF depositFits
  <2>. QED BY <2>1, <2>2
<1>. QED BY <1>1, <1>2

LEMMA DepositFacts ==
  ASSUME TypeOK, NEW id \in ChannelIds, NEW p \in Participants, NEW q \in Participants,
         p # q, NEW owner \in Participants, NEW total_deposit \in Amounts,
         setTotalDepositFor(id, p, total_deposit, q, owner),
         availableDepositComputable(participants[<<id, p>>], participants[<<id, q>>])
  PROVE  /\ \A k \in ParticipantKeys \ {<<id, p>>} : participants'[k] = participants[k]
         /\ participants'[<<id, p>>].withdrawn_amount
              = participants[<<id, p>>].withdrawn_amount
         /\ token'[this] - token[this]
              = participants'[<<id, p>>].deposit - participants[<<id, p>>].deposit
         /\ availableDepositComputable(participants'[<<id, p>>], participants'[<<id, q>>])
<1> DEFINE mine == participants[<<id, p>>]
           theirs == participants[<<id, q>>]
           mine1 == participants'[<<id, p>>]
           added == Wrap(total_deposit - mine.deposit)
<1>1. /\ <<id, p>> \in ParticipantKeys /\ <<id, q>> \in ParticipantKeys
      /\ <<id, p>> # <<id, q>>
      /\ mine \in Participant /\ theirs \in Participant
  BY KeyOf DEF TypeOK
<1>2. /\ \A k \in ParticipantKeys \ {<<id, p>>} : participants'[k] = participants[k]
      /\ mine1.deposit = total_deposit
      /\ mine1.withdrawn_amount = mine.withdrawn_amount
  BY <1>1 DEF setTotalDepositFor, TypeOK, Participant
<1>3. participants'[<<id, q>>] = theirs
  BY <1>1, <1>2
<1>4. /\ mine.deposit \in Uint /\ mine.withdrawn_amount \in Uint
      /\ theirs.deposit \in Uint /\ theirs.withdrawn_amount \in Uint
      /\ total_deposit \in Uint
  BY <1>1, ConstructorAssumption DEF Participant
<1>5. /\ added > 0 /\ added <= total_deposit /\ depositFits(total_deposit, theirs.deposit)
      /\ transferFrom(owner, added)
  BY DEF setTotalDepositFor
<1>6. /\ added = total_deposit - mine.deposit /\ total_deposit > mine.deposit
      /\ total_deposit + theirs.deposit \in Uint
  BY <1>4, <1>5, DepositArithmetic
<1>. HIDE DEF mine, theirs, mine1, added
<1>7. added \in Nat
  BY <1>4, <1>6, MaxIsNat DEF Uint
<1>8. token'[this] = token[this] + added /\ token[this] \in Nat
  BY <1>5, <1>7, TransferFromIsBalances DEF TypeOK, Addresses
<1>9. token'[this] - token[this] = mine1.deposit - mine.deposit
  BY <1>2, <1>4, <1>6, <1>7, <1>8, MaxIsNat DEF Uint
<1>10. availableDepositComputable(mine1, theirs)
  <2>1. availableDepositComputable(mine, theirs)
    BY DEF mine, theirs
  <2>. QED
    BY <1>2, <1>4, <1>6, <2>1, MaxIsNat
    DEF Uint, availableDepositComputable, getChannelAvailableDeposit
<1>. QED BY <1>2, <1>3, <1>9, <1>10 DEF mine, theirs, mine1

LEMMA DepositSolvency ==
  ASSUME SafetyInv, TypeOK', NEW id \in ChannelIds,
         NEW p \in Participants, NEW q \in Participants, p # q,
         \A k \in ParticipantKeys \ {<<id, p>>} : participants'[k] = participants[k],
         participants'[<<id, p>>].withdrawn_amount = participants[<<id, p>>].withdrawn_amount,
         token'[this] - token[this]
           = participants'[<<id, p>>].deposit - participants[<<id, p>>].deposit,
         UNCHANGED <<unlock_data, stuck>>
  PROVE  Solvency'
<1> DEFINE k1 == <<id, p>>
           k2 == <<id, q>>
<1>1. k1 \in ParticipantKeys /\ k2 \in ParticipantKeys /\ k1 # k2
  BY KeyOf
<1>2. /\ participants[k1] \in Participant /\ participants'[k1] \in Participant
      /\ participants[k2] \in Participant /\ participants'[k2] = participants[k2]
  BY <1>1 DEF SafetyInv, TypeOK
<1>3. /\ \A k \in ParticipantKeys \ {k1, k2} : participants'[k] = participants[k]
      /\ participants'[k1].withdrawn_amount = participants[k1].withdrawn_amount
      /\ token'[this] - token[this] = participants'[k1].deposit - participants[k1].deposit
  OBVIOUS
<1>. HIDE DEF k1, k2
<1>4. token'[this] - token[this]
        = (participants'[k1].deposit - participants'[k1].withdrawn_amount)
          - (participants[k1].deposit - participants[k1].withdrawn_amount)
          + (participants'[k2].deposit - participants'[k2].withdrawn_amount)
          - (participants[k2].deposit - participants[k2].withdrawn_amount)
  BY <1>2, <1>3, MaxIsNat DEF Participant, Uint
<1>. QED BY <1>1, <1>3, <1>4, AccountSolvency

LEMMA DepositSafety ==
  ASSUME SafetyInv, TypeOK', NEW id \in ChannelIds, NEW p \in Participants,
         NEW q \in Participants, NEW owner \in Participants, NEW total_deposit \in Amounts,
         setTotalDeposit(id, p, total_deposit, q, owner)
  PROVE  SafetyInv'
<1>1. /\ p # q /\ id = getChannelIdentifier(p, q) /\ {p, q} \in Pairs
      /\ ChannelOf({p, q}) = id /\ id # 0
  BY PairOf, ConstructorAssumption
  DEF setTotalDeposit, getChannelIdentifier, getParticipantsHash, ChannelOf, ChannelIds
<1>2. availableDepositComputable(participants[<<id, p>>], participants[<<id, q>>])
  BY <1>1 DEF SafetyInv, AvailableDepositComputable
<1>3. setTotalDepositFor(id, p, total_deposit, q, owner)
  BY DEF setTotalDeposit
<1>4. /\ \A k \in ParticipantKeys \ {<<id, p>>} : participants'[k] = participants[k]
      /\ participants'[<<id, p>>].withdrawn_amount
           = participants[<<id, p>>].withdrawn_amount
      /\ token'[this] - token[this]
           = participants'[<<id, p>>].deposit - participants[<<id, p>>].deposit
      /\ availableDepositComputable(participants'[<<id, p>>], participants'[<<id, q>>])
  BY <1>1, <1>2, <1>3, DepositFacts DEF SafetyInv
<1>5. /\ UNCHANGED <<participants_hash_to_channel_identifier, channel_counter, unlock_data,
                     state, settleable_after, stuck>>
  BY DEF setTotalDeposit
<1>6. \A i \in ChannelIds : /\ state'[i] = "NonExistent" <=> state[i] = "NonExistent"
                            /\ settleable_after'[i] # 0 <=> state'[i] = "Closed"
  BY <1>5 DEF SafetyInv, NothingLeftBehind
<1>7. Structure'
  BY <1>1, <1>4, <1>5, <1>6, AccountStructure
<1>8. Solvency'
  BY <1>1, <1>4, <1>5, DepositSolvency
<1>. QED BY <1>7, <1>8 DEF Structure, SafetyInv

LEMMA FundingSafety ==
  ASSUME SafetyInv, FundingNext PROVE SafetyInv'
<1>1. TypeOK /\ TypeOK'
  BY FundingStepType DEF SafetyInv
<1>2. ASSUME NEW owner \in Participants, DirectTransfer(owner) PROVE SafetyInv'
  <2>1. token'[this] = token[this] + 1 /\ stuck' = stuck + 1
    BY <1>1, <1>2, TransferFromIsBalances DEF DirectTransfer
  <2>2. token[this] \in Nat /\ stuck \in Nat
    BY <1>1 DEF TypeOK, Addresses
  <2>3. token'[this] - token[this] = stuck' - stuck
    BY <2>1, <2>2
  <2>. QED BY <1>1, <1>2, <2>3, OutsideSafety DEF DirectTransfer
<1>3. ASSUME NEW p \in Participants, NEW q \in Participants, openedChannel(p, q)
      PROVE  /\ p # q /\ channel_counter + 1 \in ChannelIds
             /\ participants[<<channel_counter + 1, p>>] = NoParticipant
             /\ participants[<<channel_counter + 1, q>>] = NoParticipant
             /\ availableDepositComputable(NoParticipant, NoParticipant)
  <2>1. channel_counter + 1 \in ChannelIds /\ p # q
    BY <1>1, <1>3, OpenedChannelType DEF openedChannel
  <2>2. availableDepositComputable(NoParticipant, NoParticipant)
    BY MaxIsNat DEF NoParticipant, availableDepositComputable, getChannelAvailableDeposit, Uint
  <2>. QED BY <2>1, <2>2, NewChannelIsUnused
<1>4. ASSUME NEW p \in Participants, NEW q \in Participants, openChannel(p, q)
      PROVE  SafetyInv'
  <2>1. /\ openedChannel(p, q)
        /\ UNCHANGED <<token, stuck, participants, settleable_after, unlock_data>>
    BY <1>4 DEF openChannel
  <2>2. Structure'
    BY <1>1, <1>3, <2>1, OpenStructure
  <2>3. /\ deposits(ParticipantKeys)' = deposits(ParticipantKeys)
        /\ withdrawn(ParticipantKeys)' = withdrawn(ParticipantKeys)
        /\ locked(UnlockIdentifiers)' = locked(UnlockIdentifiers)
    BY <2>1 DEF deposits, withdrawn, locked
  <2>4. Solvency'
    BY <2>1, <2>3 DEF SafetyInv, Solvency
  <2>. QED BY <1>1, <2>2, <2>4 DEF SafetyInv, Structure
<1>5. ASSUME NEW p \in Participants, NEW q \in Participants, NEW owner \in Participants,
             NEW total_deposit \in Amounts,
             openChannelWithDeposit(p, q, total_deposit, owner)
      PROVE  SafetyInv'
  <2> DEFINE id == channel_counter + 1
  <2>1. /\ openedChannel(p, q)
        /\ setTotalDepositFor(id, p, total_deposit, q, owner)
        /\ UNCHANGED <<stuck, settleable_after, unlock_data>>
    BY <1>5 DEF openChannelWithDeposit
  <2>2. /\ p # q /\ id \in ChannelIds
        /\ availableDepositComputable(participants[<<id, p>>], participants[<<id, q>>])
    BY <1>3, <2>1
  <2>. HIDE DEF id
  <2>3. /\ \A k \in ParticipantKeys \ {<<id, p>>} : participants'[k] = participants[k]
        /\ participants'[<<id, p>>].withdrawn_amount
             = participants[<<id, p>>].withdrawn_amount
        /\ token'[this] - token[this]
             = participants'[<<id, p>>].deposit - participants[<<id, p>>].deposit
        /\ availableDepositComputable(participants'[<<id, p>>], participants'[<<id, q>>])
    BY <1>1, <2>1, <2>2, DepositFacts
  <2>4. Structure'
    BY <1>1, <2>1, <2>3, OpenStructure DEF id
  <2>5. Solvency'
    BY <1>1, <2>1, <2>2, <2>3, DepositSolvency
  <2>. QED BY <1>1, <2>4, <2>5 DEF SafetyInv, Structure
<1>6. ASSUME NEW id \in ChannelIds, NEW p \in Participants, NEW q \in Participants,
             NEW owner \in Participants, NEW total_deposit \in Amounts,
             setTotalDeposit(id, p, total_deposit, q, owner)
      PROVE  SafetyInv'
  BY <1>1, <1>6, DepositSafety
<1>. QED BY <1>2, <1>4, <1>5, <1>6 DEF FundingNext

LEMMA WithdrawSafety ==
  ASSUME SafetyInv, TypeOK', NEW id \in ChannelIds, NEW p \in Participants,
         NEW q \in Participants, NEW total_withdraw \in Uint, NEW withdrawable_until,
         setTotalWithdraw(id, p, q, total_withdraw, withdrawable_until)
  PROVE  SafetyInv'
<1> DEFINE k1 == <<id, p>>
           k2 == <<id, q>>
           current == total_withdraw - participants[k1].withdrawn_amount
<1>1. /\ withdrawAllowed(id, p, q, participants[k1], participants[k2], total_withdraw,
                         withdrawable_until)
      /\ participants' = [participants EXCEPT ![k1].withdrawn_amount = total_withdraw]
      /\ token[this] >= current /\ token' = paid(p, current, p, 0)
      /\ UNCHANGED <<stuck, channel_counter, settleable_after, state,
                     participants_hash_to_channel_identifier, unlock_data>>
  BY DEF setTotalWithdraw
<1>2. p # q /\ id = getChannelIdentifier(p, q)
  BY <1>1 DEF withdrawAllowed
<1>3. /\ k1 \in ParticipantKeys /\ k2 \in ParticipantKeys /\ k1 # k2
      /\ participants[k1] \in Participant /\ participants[k2] \in Participant
  BY <1>2, KeyOf DEF SafetyInv, TypeOK
<1>. HIDE DEF k1, k2
<1>4. /\ \A k \in ParticipantKeys \ {k1} : participants'[k] = participants[k]
      /\ participants'[k1].deposit = participants[k1].deposit
      /\ participants'[k1].withdrawn_amount = total_withdraw
      /\ participants'[k2] = participants[k2]
  BY <1>1, <1>3 DEF SafetyInv, TypeOK, Participant
<1>5. current \in Nat
  BY <1>1, <1>3, MaxIsNat DEF withdrawAllowed, Participant, Uint
<1>6. token'[this] - token[this] = - current
  <2>1. token[this] \in Nat /\ token[this] >= current + 0
    BY <1>1, <1>5 DEF SafetyInv, TypeOK, Addresses
  <2>. HIDE DEF current
  <2>2. token'[this] = token[this] - (current + 0)
    BY <1>1, <1>5, <2>1, PaidIsBalances DEF SafetyInv
  <2>. QED BY <1>5, <2>1, <2>2
<1>7. availableDepositComputable(participants'[k1], participants'[k2])
  BY <1>1, <1>3, <1>4, MaxIsNat
  DEF withdrawAllowed, Participant, Uint, availableDepositComputable, getChannelAvailableDeposit
<1>8. \A i \in ChannelIds : /\ state'[i] = "NonExistent" <=> state[i] = "NonExistent"
                            /\ settleable_after'[i] # 0 <=> state'[i] = "Closed"
  BY <1>1 DEF SafetyInv, NothingLeftBehind
<1>9. Structure'
  BY <1>1, <1>2, <1>4, <1>7, <1>8, AccountStructure DEF k1, k2
<1>10. token'[this] - token[this]
         = (participants'[k1].deposit - participants'[k1].withdrawn_amount)
           - (participants[k1].deposit - participants[k1].withdrawn_amount)
           + (participants'[k2].deposit - participants'[k2].withdrawn_amount)
           - (participants[k2].deposit - participants[k2].withdrawn_amount)
  BY <1>3, <1>4, <1>6, MaxIsNat DEF Participant, Uint
<1>11. Solvency'
  BY <1>1, <1>3, <1>4, <1>10, AccountSolvency
<1>. QED BY <1>9, <1>11 DEF SafetyInv, Structure

\* A cooperative settlement pays out all that is in the channel.
LEMMA CooperativePaysAll ==
  ASSUME SafetyInv, NEW id \in ChannelIds, NEW data1 \in WithdrawInputs,
         NEW data2 \in WithdrawInputs, cooperativeSettle(id, data1, data2)
  PROVE  LET a1 == participants[<<id, data1.participant>>]
             a2 == participants[<<id, data2.participant>>]
         IN  token'[this] - token[this]
               = - ((a1.deposit - a1.withdrawn_amount) + (a2.deposit - a2.withdrawn_amount))
<1> DEFINE p1 == data1.participant       p2 == data2.participant
           a1 == participants[<<id, p1>>]
           a2 == participants[<<id, p2>>]
           b1 == IF data1.total_withdraw > 0
                 THEN [a1 EXCEPT !.withdrawn_amount = data1.total_withdraw] ELSE a1
           total1 == data1.total_withdraw  total2 == data2.total_withdraw
<1>1. /\ p1 \in Participants /\ p2 \in Participants
      /\ total1 \in Uint /\ total2 \in Uint
  BY WithdrawInputsType
<1>2. /\ p1 # p2 /\ id = getChannelIdentifier(p1, p2)
      /\ total1 + total2 = a1.deposit + a2.deposit
      /\ total1 > 0 => withdrawAllowed(id, p1, p2, a1, a2, total1, data1.withdrawable_until)
      /\ total2 > 0 => withdrawAllowed(id, p2, p1, a2, b1, total2, data2.withdrawable_until)
  BY DEF cooperativeSettle
<1>3. a1 \in Participant /\ a2 \in Participant
  BY <1>1, KeyOf DEF SafetyInv, TypeOK
<1>4. availableDepositComputable(a1, a2)
  <2>1. {p1, p2} \in Pairs /\ ChannelOf({p1, p2}) = id /\ id # 0
    BY <1>1, <1>2, PairOf, ConstructorAssumption
    DEF getChannelIdentifier, getParticipantsHash, ChannelOf, ChannelIds
  <2>. QED BY <1>2, <2>1 DEF SafetyInv, AvailableDepositComputable
<1>5. PICK paid1 \in Nat, paid2 \in Nat :
        /\ token[this] >= paid1 + paid2
        /\ token' = paid(p1, paid1, p2, paid2)
        /\ paid1 = IF total1 > 0 THEN total1 - a1.withdrawn_amount ELSE 0
        /\ paid2 = IF total2 > 0 THEN total2 - a2.withdrawn_amount ELSE 0
  BY CooperativeAmounts DEF SafetyInv
<1>6. token'[this] = token[this] - (paid1 + paid2) /\ token[this] \in Nat
  <2>. HIDE DEF p1, p2
  <2>1. TypeOK /\ token[this] \in Nat
    BY DEF SafetyInv, TypeOK, Addresses
  <2>2. paid(p1, paid1, p2, paid2)[this] = token[this] - (paid1 + paid2)
    BY <1>1, <1>5, <2>1, PaidIsBalances
  <2>. QED BY <1>5, <2>1, <2>2
<1>7. /\ total1 = 0 => a1.withdrawn_amount = 0
      /\ total2 = 0 => a2.withdrawn_amount = 0
  <2>1. CASE total1 = 0 /\ total2 = 0
    BY <1>2, <1>3, <1>4, <2>1, MaxIsNat
    DEF availableDepositComputable, getChannelAvailableDeposit, Participant, Uint
  <2>2. CASE total1 = 0 /\ total2 > 0
    BY <1>1, <1>2, <1>3, <2>2, MaxIsNat DEF withdrawAllowed, Participant, Uint
  <2>3. CASE total1 > 0 /\ total2 = 0
    BY <1>1, <1>2, <1>3, <2>3, MaxIsNat DEF withdrawAllowed, Participant, Uint
  <2>4. CASE total1 > 0 /\ total2 > 0
    BY <2>4
  <2>. QED BY <1>1, <2>1, <2>2, <2>3, <2>4, MaxIsNat DEF Uint
<1>8. paid1 = total1 - a1.withdrawn_amount /\ paid2 = total2 - a2.withdrawn_amount
  BY <1>1, <1>5, <1>7, MaxIsNat DEF Uint
<1>9. /\ a1.deposit \in Nat /\ a1.withdrawn_amount \in Nat
      /\ a2.deposit \in Nat /\ a2.withdrawn_amount \in Nat
      /\ total1 \in Nat /\ total2 \in Nat
  BY <1>1, <1>3, MaxIsNat DEF Participant, Uint
<1>10. total1 + total2 = a1.deposit + a2.deposit
  BY <1>2
<1>. HIDE DEF a1, a2, b1, total1, total2
<1>11. token'[this] - token[this]
         = - ((a1.deposit - a1.withdrawn_amount) + (a2.deposit - a2.withdrawn_amount))
  <2>1. paid1 + paid2
          = (a1.deposit - a1.withdrawn_amount) + (a2.deposit - a2.withdrawn_amount)
    BY <1>8, <1>9, <1>10
  <2>. QED BY <1>6, <2>1
<1>. QED BY <1>11 DEF a1, a2, p1, p2

LEMMA CooperativeSafety ==
  ASSUME SafetyInv, TypeOK', NEW id \in ChannelIds, NEW data1 \in WithdrawInputs,
         NEW data2 \in WithdrawInputs, cooperativeSettle(id, data1, data2)
  PROVE  SafetyInv'
<1> DEFINE p1 == data1.participant  k1 == <<id, p1>>
           p2 == data2.participant  k2 == <<id, p2>>
<1>1. /\ p1 # p2 /\ id = getChannelIdentifier(p1, p2) /\ removeChannelData(id, p1, p2)
      /\ UNCHANGED <<stuck, unlock_data>>
  BY DEF cooperativeSettle
<1>2. p1 \in Participants /\ p2 \in Participants
  BY WithdrawInputsType
<1>3. token'[this] - token[this]
        = - ((participants[k1].deposit - participants[k1].withdrawn_amount)
             + (participants[k2].deposit - participants[k2].withdrawn_amount))
  BY CooperativePaysAll
<1>. HIDE DEF p1, p2
<1>4. Structure'
  BY <1>1, <1>2, RemoveStructure
<1>5. k1 \in ParticipantKeys /\ k2 \in ParticipantKeys /\ k1 # k2
  BY <1>1, <1>2, KeyOf
<1>. HIDE DEF k1, k2
<1>6. /\ \A k \in ParticipantKeys \ {k1, k2} : participants'[k] = participants[k]
      /\ participants'[k1] = NoParticipant /\ participants'[k2] = NoParticipant
  BY <1>1, <1>5 DEF removeChannelData, removedAccounts, SafetyInv, TypeOK, k1, k2
<1>7. participants[k1] \in Participant /\ participants[k2] \in Participant
  BY <1>5 DEF SafetyInv, TypeOK
<1>8. token'[this] - token[this]
        = (participants'[k1].deposit - participants'[k1].withdrawn_amount)
          - (participants[k1].deposit - participants[k1].withdrawn_amount)
          + (participants'[k2].deposit - participants'[k2].withdrawn_amount)
          - (participants[k2].deposit - participants[k2].withdrawn_amount)
  BY <1>3, <1>6, <1>7, MaxIsNat DEF NoParticipant, Participant, Uint
<1>9. Solvency'
  BY <1>1, <1>5, <1>6, <1>8, AccountSolvency
<1>. QED BY <1>4, <1>9 DEF SafetyInv, Structure

LEMMA WithdrawNextSafety ==
  ASSUME SafetyInv, WithdrawNext PROVE SafetyInv'
<1>1. TypeOK'
  BY WithdrawStepType DEF SafetyInv
<1>2. ASSUME NEW id \in ChannelIds, NEW q \in Participants, NEW m \in WithdrawMessages,
             setTotalWithdraw(id, m.participant, q, m.total_withdraw, m.withdrawable_until)
      PROVE  SafetyInv'
  BY <1>1, <1>2, MessagesAssumption, WithdrawSafety
<1>3. ASSUME NEW id \in ChannelIds, NEW data1 \in WithdrawInputs, NEW data2 \in WithdrawInputs,
             cooperativeSettle(id, data1, data2)
      PROVE  SafetyInv'
  BY <1>1, <1>3, CooperativeSafety
<1>. QED BY <1>2, <1>3 DEF WithdrawNext

\* Closing and updating change who closed, nonces and balance data: no money.
LEMMA CloseSafety ==
  ASSUME SafetyInv, TypeOK', NEW id \in ChannelIds,
         NEW p \in Participants, NEW q \in Participants,
         p # q, id = getChannelIdentifier(p, q),
         UNCHANGED <<token, stuck, participants_hash_to_channel_identifier,
                     channel_counter, unlock_data>>,
         \A i \in ChannelIds : /\ state'[i] = "NonExistent" <=> state[i] = "NonExistent"
                               /\ settleable_after'[i] # 0 <=> state'[i] = "Closed",
         \A k \in ParticipantKeys \ {<<id, p>>, <<id, q>>} :
           participants'[k] = participants[k],
         \A k \in {<<id, p>>, <<id, q>>} :
           /\ participants'[k].deposit = participants[k].deposit
           /\ participants'[k].withdrawn_amount = participants[k].withdrawn_amount
  PROVE  SafetyInv'
<1> DEFINE k1 == <<id, p>>
           k2 == <<id, q>>
<1>1. k1 \in ParticipantKeys /\ k2 \in ParticipantKeys /\ k1 # k2
  BY KeyOf
<1>2. /\ participants[k1] \in Participant /\ participants[k2] \in Participant
      /\ token[this] \in Nat
  BY <1>1 DEF SafetyInv, TypeOK, Addresses
<1>3. availableDepositComputable(participants[k1], participants[k2])
  <2>1. {p, q} \in Pairs /\ ChannelOf({p, q}) = id /\ id # 0
    BY PairOf, ConstructorAssumption
    DEF getChannelIdentifier, getParticipantsHash, ChannelOf, ChannelIds
  <2>. QED BY <2>1 DEF SafetyInv, AvailableDepositComputable
<1>4. /\ participants'[k1].deposit = participants[k1].deposit
      /\ participants'[k1].withdrawn_amount = participants[k1].withdrawn_amount
      /\ participants'[k2].deposit = participants[k2].deposit
      /\ participants'[k2].withdrawn_amount = participants[k2].withdrawn_amount
  OBVIOUS
<1>5. availableDepositComputable(participants'[k1], participants'[k2])
  BY <1>3, <1>4 DEF availableDepositComputable, getChannelAvailableDeposit
<1>6. Structure'
  BY <1>5, AccountStructure
<1>7. \A k \in ParticipantKeys \ {k1, k2} : participants'[k] = participants[k]
  OBVIOUS
<1>. HIDE DEF k1, k2
<1>8. token'[this] - token[this]
        = (participants'[k1].deposit - participants'[k1].withdrawn_amount)
          - (participants[k1].deposit - participants[k1].withdrawn_amount)
          + (participants'[k2].deposit - participants'[k2].withdrawn_amount)
          - (participants[k2].deposit - participants[k2].withdrawn_amount)
  BY <1>2, <1>4, MaxIsNat DEF Participant, Uint
<1>9. Solvency'
  BY <1>1, <1>7, <1>8, AccountSolvency
<1>. QED BY <1>6, <1>9 DEF SafetyInv, Structure

LEMMA CloseNextSafety ==
  ASSUME SafetyInv, CloseNext PROVE SafetyInv'
<1>1. TypeOK /\ TypeOK'
  BY CloseStepType DEF SafetyInv
<1>2. ASSUME NEW id \in ChannelIds, NEW p \in Participants, NEW q \in Participants,
             NEW m \in CounterSignatures,
             closeChannel(id, p, q, m.balance_hash, m.nonce)
      PROVE  SafetyInv'
  <2>1. /\ p # q /\ id = getChannelIdentifier(q, p) /\ state[id] = "Opened"
        /\ state' = [state EXCEPT ![id] = "Closed"]
        /\ settleable_after' = [settleable_after EXCEPT ![id] = timestamp + SettleTimeout]
        /\ UNCHANGED <<token, stuck, participants_hash_to_channel_identifier,
                       channel_counter, unlock_data>>
    BY <1>2 DEF closeChannel
  <2>2. timestamp + SettleTimeout # 0
    BY <1>1, ConstructorAssumption DEF TypeOK, RegistryTypeOK
  <2>3. \A i \in ChannelIds : /\ state'[i] = "NonExistent" <=> state[i] = "NonExistent"
                              /\ settleable_after'[i] # 0 <=> state'[i] = "Closed"
    BY <1>1, <2>1, <2>2 DEF SafetyInv, NothingLeftBehind, TypeOK
  <2> DEFINE closed == [participants EXCEPT ![<<id, q>>].is_the_closer = TRUE]
  <2>4. /\ closed \in [ParticipantKeys -> Participant]
        /\ \A k \in ParticipantKeys :
             /\ k # <<id, q>> => closed[k] = participants[k]
             /\ closed[k].deposit = participants[k].deposit
             /\ closed[k].withdrawn_amount = participants[k].withdrawn_amount
    BY <1>1, KeyOf DEF TypeOK, Participant
  <2>5. participants' \in {closed, withBalanceProof(closed, id, p, m.nonce, m.balance_hash)}
    BY <1>2 DEF closeChannel, withCloser
  <2>. HIDE DEF closed
  <2>6. \A k \in ParticipantKeys :
          /\ k \notin {<<id, p>>, <<id, q>>} => participants'[k] = participants[k]
          /\ participants'[k].deposit = participants[k].deposit
          /\ participants'[k].withdrawn_amount = participants[k].withdrawn_amount
    <3>1. CASE participants' = closed
      BY <2>4, <3>1
    <3>2. CASE participants' = withBalanceProof(closed, id, p, m.nonce, m.balance_hash)
      BY <2>4, <3>2, KeyOf DEF withBalanceProof, Participant
    <3>. QED BY <2>5, <3>1, <3>2
  <2>7. id = getChannelIdentifier(p, q)
    BY <2>1 DEF getChannelIdentifier, getParticipantsHash
  <2>8. /\ \A k \in ParticipantKeys \ {<<id, p>>, <<id, q>>} :
             participants'[k] = participants[k]
        /\ \A k \in {<<id, p>>, <<id, q>>} :
             /\ participants'[k].deposit = participants[k].deposit
             /\ participants'[k].withdrawn_amount = participants[k].withdrawn_amount
    BY <2>6, KeyOf
  <2>. QED BY <1>1, <2>1, <2>3, <2>7, <2>8, CloseSafety
<1>3. ASSUME NEW id \in ChannelIds, NEW p \in Participants, NEW q \in Participants,
             NEW m \in BalanceProofs,
             updateNonClosingBalanceProof(id, p, q, m.balance_hash, m.nonce)
      PROVE  SafetyInv'
  <2>1. /\ p # q /\ id = getChannelIdentifier(p, q)
        /\ participants' = withBalanceProof(participants, id, p, m.nonce, m.balance_hash)
        /\ UNCHANGED <<token, stuck, participants_hash_to_channel_identifier, state,
                       settleable_after, channel_counter, unlock_data>>
    BY <1>3 DEF updateNonClosingBalanceProof, updateAllowed
  <2>2. \A i \in ChannelIds : /\ state'[i] = "NonExistent" <=> state[i] = "NonExistent"
                              /\ settleable_after'[i] # 0 <=> state'[i] = "Closed"
    BY <2>1 DEF SafetyInv, NothingLeftBehind
  <2>3. \A k \in ParticipantKeys :
          /\ k \notin {<<id, p>>, <<id, q>>} => participants'[k] = participants[k]
          /\ participants'[k].deposit = participants[k].deposit
          /\ participants'[k].withdrawn_amount = participants[k].withdrawn_amount
    BY <1>1, <2>1, KeyOf DEF withBalanceProof, TypeOK, Participant
  <2>4. /\ \A k \in ParticipantKeys \ {<<id, p>>, <<id, q>>} :
             participants'[k] = participants[k]
        /\ \A k \in {<<id, p>>, <<id, q>>} :
             /\ participants'[k].deposit = participants[k].deposit
             /\ participants'[k].withdrawn_amount = participants[k].withdrawn_amount
    BY <2>3, KeyOf
  <2>. QED BY <1>1, <2>1, <2>2, <2>4, CloseSafety
<1>. QED BY <1>2, <1>3 DEF CloseNext

\* What storeUnlockData adds to an entry that was empty.
LEMMA StoredAmount ==
  ASSUME NEW ud \in [UnlockIdentifiers -> UnlockData], NEW u \in UnlockIdentifiers,
         NEW id, NEW p, NEW q, u = getUnlockIdentifier(id, p, q),
         ud[u] = NoUnlockData, NEW locksroot, NEW locked_amount \in Uint
  PROVE  LET ud1 == storeUnlockData(ud, id, p, q, locksroot, locked_amount)
         IN  /\ ud1[u].locked_amount = locked_amount
             /\ \A k \in UnlockIdentifiers \ {u} : ud1[k] = ud[k]
BY DEF storeUnlockData, NoUnlockData

\* What a settlement does: both accounts are removed, and what was available is
\* paid or recorded as locked, each part under an identifier that was empty.
LEMMA SettleEffect ==
  ASSUME SafetyInv, NEW id \in ChannelIds,
         NEW p1 \in Participants, NEW p2 \in Participants,
         NEW data1 \in BalanceData, NEW data2 \in BalanceData,
         settleChannel(id, p1, data1, p2, data2)
  PROVE  LET k1 == <<id, p1>>  u1 == <<id, p1, p2>>
             k2 == <<id, p2>>  u2 == <<id, p2, p1>>
             a1 == participants[k1]
             a2 == participants[k2]
         IN  \E S1, S2, SL1, SL2 \in Nat :
               /\ S1 + S2 + SL1 + SL2
                    = a1.deposit + a2.deposit - a1.withdrawn_amount - a2.withdrawn_amount
               /\ token[this] >= S1 + S2 /\ token' = paid(p1, S1, p2, S2)
               /\ unlock_data[u1] = NoUnlockData /\ unlock_data[u2] = NoUnlockData
               /\ unlock_data'[u1].locked_amount = SL1 /\ unlock_data'[u2].locked_amount = SL2
               /\ \A k \in UnlockIdentifiers \ {u1, u2} : unlock_data'[k] = unlock_data[k]
               /\ participants'[k1] = NoParticipant /\ participants'[k2] = NoParticipant
               /\ \A k \in ParticipantKeys \ {k1, k2} : participants'[k] = participants[k]
<1> DEFINE k1 == <<id, p1>>  u1 == getUnlockIdentifier(id, p1, p2)
           k2 == <<id, p2>>  u2 == getUnlockIdentifier(id, p2, p1)
           a1 == participants[k1]
           a2 == participants[k2]
           x == getSettleTransferAmounts(a1, data1.transferred_amount, data1.locked_amount,
                                         a2, data2.transferred_amount, data2.locked_amount)
           stored1 == storeUnlockData(unlock_data, id, p1, p2, data1.locksroot, x.SL1)
           stored2 == storeUnlockData(stored1, id, p2, p1, data2.locksroot, x.SL2)
<1>1. /\ settleAllowed(id, p1, data1, p2, data2) /\ removeChannelData(id, p1, p2)
      /\ unlock_data' = stored2 /\ token' = paid(p1, x.S1, p2, x.S2) /\ stuck' = stuck
  BY DEF settleChannel
<1>2. p1 # p2 /\ id = getChannelIdentifier(p1, p2) /\ state[id] = "Closed"
  BY <1>1 DEF settleAllowed
<1>3. /\ x.S1 \in Nat /\ x.S2 \in Nat /\ x.SL1 \in Uint /\ x.SL2 \in Uint
      /\ x.S1 + x.S2 + x.SL1 + x.SL2 = getChannelAvailableDeposit(a1, a2)
      /\ token[this] >= x.S1 + x.S2
  BY <1>1, SettleAmounts DEF SafetyInv
<1>4. /\ k1 \in ParticipantKeys /\ k2 \in ParticipantKeys /\ k1 # k2
      /\ u1 \in UnlockIdentifiers /\ u2 \in UnlockIdentifiers /\ u1 # u2
      /\ u1[1] = id /\ u2[1] = id
  BY <1>2, KeyOf, UnlockKeyOf DEF getUnlockIdentifier
<1>5. unlock_data[u1] = NoUnlockData /\ unlock_data[u2] = NoUnlockData
  BY <1>2, <1>4 DEF SafetyInv, NothingLeftBehind
<1>. HIDE DEF x
\* Both reserved amounts are recorded, each under its own identifier.
<1>6. /\ unlock_data'[u1].locked_amount = x.SL1 /\ unlock_data'[u2].locked_amount = x.SL2
      /\ \A k \in UnlockIdentifiers \ {u1, u2} : unlock_data'[k] = unlock_data[k]
  <2>1. unlock_data \in [UnlockIdentifiers -> UnlockData]
    BY DEF SafetyInv, TypeOK
  <2>2. /\ stored1[u1].locked_amount = x.SL1
        /\ \A k \in UnlockIdentifiers \ {u1} : stored1[k] = unlock_data[k]
    BY <1>3, <1>4, <1>5, <2>1, StoredAmount
  <2>3. stored1 \in [UnlockIdentifiers -> UnlockData]
    BY <1>3, <2>1, MessagesAssumption, StoredType
  <2>4. stored1[u2] = NoUnlockData
    BY <1>4, <1>5, <2>2
  <2>. HIDE DEF stored1, u1, u2
  <2>5. /\ stored2[u2].locked_amount = x.SL2
        /\ \A k \in UnlockIdentifiers \ {u2} : stored2[k] = stored1[k]
    BY <1>3, <1>4, <2>3, <2>4, StoredAmount DEF u2
  <2>. HIDE DEF stored2
  <2>. QED BY <1>1, <1>4, <2>2, <2>5
<1>7. /\ \A k \in ParticipantKeys \ {k1, k2} : participants'[k] = participants[k]
      /\ participants'[k1] = NoParticipant /\ participants'[k2] = NoParticipant
  BY <1>1, <1>4 DEF removeChannelData, removedAccounts, SafetyInv, TypeOK
<1>8. x.S1 + x.S2 + x.SL1 + x.SL2
        = a1.deposit + a2.deposit - a1.withdrawn_amount - a2.withdrawn_amount
  BY <1>3 DEF getChannelAvailableDeposit
<1>9. x.SL1 \in Nat /\ x.SL2 \in Nat /\ u1 = <<id, p1, p2>> /\ u2 = <<id, p2, p1>>
  BY <1>3, MaxIsNat DEF Uint, getUnlockIdentifier
<1>. HIDE DEF stored1, stored2, u1, u2
<1>10. /\ x.S1 \in Nat /\ x.S2 \in Nat /\ token[this] >= x.S1 + x.S2
       /\ token' = paid(p1, x.S1, p2, x.S2)
  BY <1>1, <1>3
<1>. HIDE DEF k1, k2, a1, a2
<1>11. \E S1, S2, SL1, SL2 \in Nat :
         /\ S1 + S2 + SL1 + SL2
              = a1.deposit + a2.deposit - a1.withdrawn_amount - a2.withdrawn_amount
         /\ token[this] >= S1 + S2 /\ token' = paid(p1, S1, p2, S2)
         /\ unlock_data'[u1].locked_amount = SL1 /\ unlock_data'[u2].locked_amount = SL2
  BY <1>6, <1>8, <1>9, <1>10, Zenon
<1>. QED BY <1>5, <1>6, <1>7, <1>9, <1>11, Zenon DEF k1, k2, a1, a2

LEMMA SettleSafety ==
  ASSUME SafetyInv, TypeOK', NEW id \in ChannelIds,
         NEW p1 \in Participants, NEW p2 \in Participants,
         NEW data1 \in BalanceData, NEW data2 \in BalanceData,
         settleChannel(id, p1, data1, p2, data2)
  PROVE  SafetyInv'
<1> DEFINE k1 == <<id, p1>>  u1 == <<id, p1, p2>>
           k2 == <<id, p2>>  u2 == <<id, p2, p1>>
           a1 == participants[k1]
           a2 == participants[k2]
<1>1. removeChannelData(id, p1, p2) /\ stuck' = stuck
  BY DEF settleChannel
<1>2. p1 # p2 /\ id = getChannelIdentifier(p1, p2)
  BY DEF settleChannel, settleAllowed
<1>3. PICK S1 \in Nat, S2 \in Nat, SL1 \in Nat, SL2 \in Nat :
        /\ S1 + S2 + SL1 + SL2
             = a1.deposit + a2.deposit - a1.withdrawn_amount - a2.withdrawn_amount
        /\ token[this] >= S1 + S2 /\ token' = paid(p1, S1, p2, S2)
        /\ unlock_data[u1] = NoUnlockData /\ unlock_data[u2] = NoUnlockData
        /\ unlock_data'[u1].locked_amount = SL1 /\ unlock_data'[u2].locked_amount = SL2
        /\ \A k \in UnlockIdentifiers \ {u1, u2} : unlock_data'[k] = unlock_data[k]
        /\ participants'[k1] = NoParticipant /\ participants'[k2] = NoParticipant
        /\ \A k \in ParticipantKeys \ {k1, k2} : participants'[k] = participants[k]
  BY SettleEffect
<1>4. /\ k1 \in ParticipantKeys /\ k2 \in ParticipantKeys /\ k1 # k2
      /\ u1 \in UnlockIdentifiers /\ u2 \in UnlockIdentifiers /\ u1 # u2
      /\ u1[1] = id /\ u2[1] = id
  BY <1>2, KeyOf, UnlockKeyOf DEF getUnlockIdentifier
<1>5. locked(UnlockIdentifiers)' = locked(UnlockIdentifiers) + SL1 + SL2
  <2>. HIDE DEF u1, u2
  <2>1. unlock_data' \in [UnlockIdentifiers -> UnlockData] /\ TypeOK
    BY DEF SafetyInv, TypeOK
  <2>2. locked(UnlockIdentifiers)' = locked(UnlockIdentifiers)
           - unlock_data[u1].locked_amount - unlock_data[u2].locked_amount
           + unlock_data'[u1].locked_amount + unlock_data'[u2].locked_amount
    BY <1>3, <1>4, <2>1, LockedUpdate
  <2>3. unlock_data[u1].locked_amount = 0 /\ unlock_data[u2].locked_amount = 0
    BY <1>3 DEF NoUnlockData
  <2>4. locked(UnlockIdentifiers) \in Nat
    BY SumsAreNat DEF SafetyInv
  <2>. QED BY <1>3, <2>2, <2>3, <2>4
<1>6. token'[this] = token[this] - (S1 + S2) /\ token[this] \in Nat
  <2>1. TypeOK /\ token[this] \in Nat
    BY DEF SafetyInv, TypeOK, Addresses
  <2>2. paid(p1, S1, p2, S2)[this] = token[this] - (S1 + S2)
    BY <1>3, <2>1, PaidIsBalances
  <2>. QED BY <1>3, <2>1, <2>2
<1>7. Structure'
  <2>1. \A k \in UnlockIdentifiers :
          unlock_data'[k] # NoUnlockData => unlock_data[k] # NoUnlockData \/ k[1] = id
    BY <1>3, <1>4
  <2>. QED BY <1>1, <1>2, <2>1, RemoveStructure
<1>8. /\ a1.deposit \in Nat /\ a1.withdrawn_amount \in Nat
       /\ a2.deposit \in Nat /\ a2.withdrawn_amount \in Nat
  BY <1>4, MaxIsNat DEF SafetyInv, TypeOK, Participant, Uint
<1>9. locked(UnlockIdentifiers) \in Nat
  BY SumsAreNat DEF SafetyInv
<1>10. /\ participants'[k1].deposit = 0 /\ participants'[k1].withdrawn_amount = 0
       /\ participants'[k2].deposit = 0 /\ participants'[k2].withdrawn_amount = 0
  BY <1>3 DEF NoParticipant
<1>11. \A k \in ParticipantKeys \ {k1, k2} : participants'[k] = participants[k]
  BY <1>3
<1>12. S1 + S2 + SL1 + SL2
         = a1.deposit + a2.deposit - a1.withdrawn_amount - a2.withdrawn_amount
  BY <1>3
<1>. HIDE DEF k1, k2, a1, a2, u1, u2
<1>13. (token'[this] - token[this])
          - (locked(UnlockIdentifiers)' - locked(UnlockIdentifiers))
         = (0 - 0) - (a1.deposit - a1.withdrawn_amount)
           + (0 - 0) - (a2.deposit - a2.withdrawn_amount)
  BY <1>5, <1>6, <1>8, <1>12, <1>9
<1>14. Solvency'
  BY <1>1, <1>4, <1>11, <1>10, <1>13, BooksSolvency DEF a1, a2
<1>. QED BY <1>7, <1>14 DEF SafetyInv, Structure

LEMMA UnlockSafety ==
  ASSUME SafetyInv, TypeOK', NEW id \in ChannelIds,
         NEW p \in Participants, NEW q \in Participants, NEW locks,
         unlock(id, p, q, locks)
  PROVE  SafetyInv'
<1> DEFINE u == getUnlockIdentifier(id, q, p)
           f == [k \in UnlockIdentifiers |-> unlock_data[k].locked_amount]
           g == [k \in UnlockIdentifiers |-> unlock_data'[k].locked_amount]
<1>1. u \in UnlockIdentifiers
  BY UnlockKeyOf
<1>2. PICK a \in Nat, b \in Nat : /\ a + b = unlock_data[u].locked_amount
                                  /\ token[this] >= unlock_data[u].locked_amount
                                  /\ token' = paid(p, a, q, b)
  BY UnlockAmounts DEF SafetyInv
<1>3. unlock_data' = [unlock_data EXCEPT ![u] = NoUnlockData] /\ stuck' = stuck
      /\ UNCHANGED channelVars
  BY DEF unlock, deletedUnlockData
<1>. HIDE DEF u
<1>4. /\ unlock_data \in [UnlockIdentifiers -> UnlockData]
      /\ unlock_data' \in [UnlockIdentifiers -> UnlockData]
      /\ unlock_data'[u].locked_amount = 0
      /\ \A k \in UnlockIdentifiers \ {u} : unlock_data'[k] = unlock_data[k]
      /\ \A k \in UnlockIdentifiers : unlock_data'[k] \in {unlock_data[k], NoUnlockData}
  BY <1>1, <1>3 DEF SafetyInv, TypeOK, NoUnlockData
<1>5. Structure'
  BY <1>3, <1>4, SameChannelsStructure
<1>6. Total(g) = Total(f) - f[u] + g[u]
  <2>1. f \in [UnlockIdentifiers -> Nat] /\ g \in [UnlockIdentifiers -> Nat]
    BY <1>4, MaxIsNat DEF UnlockData, Uint
  <2>2. \A k \in UnlockIdentifiers \ {u} : g[k] = f[k]
    BY <1>4
  <2>. HIDE DEF f, g
  <2>. QED BY <1>1, <2>1, <2>2, KeysFinite, TotalUpdate
<1>7. /\ locked(UnlockIdentifiers) = Total(f) /\ locked(UnlockIdentifiers)' = Total(g)
      /\ f[u] = unlock_data[u].locked_amount /\ g[u] = 0
  BY <1>1, <1>4 DEF locked
<1>8. /\ deposits(ParticipantKeys)' = deposits(ParticipantKeys)
      /\ withdrawn(ParticipantKeys)' = withdrawn(ParticipantKeys)
  BY <1>3 DEF channelVars, deposits, withdrawn
<1>9. /\ deposits(ParticipantKeys) \in Nat /\ withdrawn(ParticipantKeys) \in Nat
      /\ locked(UnlockIdentifiers) \in Nat /\ token[this] \in Nat /\ stuck \in Nat
  BY SumsAreNat DEF SafetyInv
<1>10. token'[this] = token[this] - (a + b)
  <2>1. TypeOK /\ token[this] >= a + b
    BY <1>2 DEF SafetyInv
  <2>2. paid(p, a, q, b)[this] = token[this] - (a + b)
    BY <2>1, PaidIsBalances
  <2>. QED BY <1>2, <2>2
<1>. HIDE DEF f, g
<1>11. locked(UnlockIdentifiers)' = locked(UnlockIdentifiers) - (a + b)
  BY <1>2, <1>6, <1>7, <1>9
<1>12. Solvency'
  <2>1. token[this] + withdrawn(ParticipantKeys)
          = deposits(ParticipantKeys) + locked(UnlockIdentifiers) + stuck
    BY DEF SafetyInv, Solvency
  <2>2. token'[this] + withdrawn(ParticipantKeys)'
          = deposits(ParticipantKeys)' + locked(UnlockIdentifiers)' + stuck'
    BY <1>3, <1>8, <1>9, <1>10, <1>11, <2>1
  <2>. QED BY <2>2 DEF Solvency
<1>. QED BY <1>5, <1>12 DEF SafetyInv, Structure

-----------------------------------------------------------------------------
LEMMA SafetyStep == SafetyInv /\ [Next]_vars => SafetyInv'
<1> SUFFICES ASSUME SafetyInv, [Next]_vars PROVE SafetyInv'
  OBVIOUS
<1>1. TypeOK'
  BY StepType DEF SafetyInv
<1>2. token[this] \in Nat /\ stuck \in Nat
  BY DEF SafetyInv, TypeOK, Addresses
<1>3. CASE RegistryNext
  <2>1. UNCHANGED <<channelVars, unlock_data, token, stuck>>
    BY <1>3 DEF RegistryNext
  <2>. QED BY <1>1, <1>2, <2>1, OutsideSafety
<1>4. CASE ControllerNext
  <2>1. UNCHANGED <<channelVars, unlock_data, token, stuck>>
    BY <1>4 DEF ControllerNext, deprecate, removeLimits, changeController
  <2>. QED BY <1>1, <1>2, <2>1, OutsideSafety
<1>5. CASE FundingNext
  BY <1>5, FundingSafety
<1>6. CASE WithdrawNext
  BY <1>6, WithdrawNextSafety
<1>7. CASE CloseNext
  BY <1>7, CloseNextSafety
<1>8. ASSUME NEW id \in ChannelIds, settleById(id) PROVE SafetyInv'
  BY <1>1, <1>8, SettleSafety DEF settleById
<1>9. ASSUME NEW id \in ChannelIds, unlockById(id) PROVE SafetyInv'
  BY <1>1, <1>9, UnlockSafety DEF unlockById
<1>10. CASE UNCHANGED vars
  <2>1. UNCHANGED <<channelVars, unlock_data, token, stuck>>
    BY <1>10 DEF vars
  <2>. QED BY <1>1, <1>2, <2>1, OutsideSafety
<1>. QED BY <1>3, <1>4, <1>5, <1>6, <1>7, <1>8, <1>9, <1>10 DEF Next

THEOREM SafetyInvariance == Spec => []SafetyInv
BY InitSafety, SafetyStep, PTL DEF Spec

\* The contract always holds exactly what it owes: the deposits of all live
\* channels less what was withdrawn from them, the tokens settled channels left
\* locked, and those it was sent directly.  Proved for any number of
\* participants and channels, any width of the arithmetic and any signatures.
THEOREM SolvencySafety == Spec => []Solvency
<1>1. SafetyInv => Solvency
  BY DEF SafetyInv
<1>. QED BY <1>1, SafetyInvariance, PTL

\* A pair of participants has at most one channel, and a channel one pair.
THEOREM ChannelPairsSafety == Spec => []ChannelPairsConsistent
<1>1. SafetyInv => ChannelPairsConsistent
  BY DEF SafetyInv
<1>. QED BY <1>1, SafetyInvariance, PTL

\* Account data, settlement times and locked tokens are only ever where a
\* channel's state says they are, so a channel starts from empty accounts and
\* a settlement from empty unlock data.
THEOREM NothingLeftBehindSafety == Spec => []NothingLeftBehind
<1>1. SafetyInv => NothingLeftBehind
  BY DEF SafetyInv
<1>. QED BY <1>1, SafetyInvariance, PTL

\* The available deposit of a live channel never under- or overflows, although
\* setTotalDepositFor adds in wrapping arithmetic.
THEOREM AvailableDepositSafety == Spec => []AvailableDepositComputable
<1>1. SafetyInv => AvailableDepositComputable
  BY DEF SafetyInv
<1>. QED BY <1>1, SafetyInvariance, PTL
-----------------------------------------------------------------------------
(***************************************************************************)
(* What is stored about the participants.                                  *)
(***************************************************************************)
(* What is known of an account before its channel is closed. *)
Blank(account) ==
  ~account.is_the_closer /\ account.nonce = 0 /\ account.balance_hash = ZeroHash

(* Only a closed channel has balance data, and one participant closed it. *)
ClosersKnown ==
  /\ \A id \in ChannelIds, p \in Participants :
       state[id] # "Closed" => Blank(participants[<<id, p>>])
  /\ \A id \in ChannelIds :
       state[id] = "Closed" => \E p \in Participants : closers(id) = {p}

ClaimsInv == SafetyInv /\ ClosersKnown /\ StoredDataIsSigned

-----------------------------------------------------------------------------
(***************************************************************************)
(* What one step can do to one account: fund it, withdraw from it, mark    *)
(* its owner as the closer, store newer balance data, or remove it.        *)
(***************************************************************************)
SameFunds(k) ==
  /\ participants'[k].deposit = participants[k].deposit
  /\ participants'[k].withdrawn_amount = participants[k].withdrawn_amount

SameClaims(k) ==
  /\ participants'[k].is_the_closer = participants[k].is_the_closer
  /\ participants'[k].nonce = participants[k].nonce
  /\ participants'[k].balance_hash = participants[k].balance_hash

Funded(k) ==
  /\ SameClaims(k)
  /\ participants'[k].deposit > participants[k].deposit
  /\ participants'[k].withdrawn_amount = participants[k].withdrawn_amount

Withdrawn(id, p, q) ==
  LET k == <<id, p>>
  IN  /\ SameClaims(k)
      /\ participants'[k].deposit = participants[k].deposit
      /\ participants'[k].withdrawn_amount > participants[k].withdrawn_amount
      /\ \E until \in {m.withdrawable_until : m \in WithdrawMessages} :
           \A signer \in {p, q} :
             withdrawSigned(id, signer, p, participants'[k].withdrawn_amount, until)

Presented(id, p, q, type) ==
  LET k == <<id, p>>
  IN  /\ SameFunds(k)
      /\ participants'[k].is_the_closer = participants[k].is_the_closer
      /\ participants'[k].nonce > participants[k].nonce
      /\ balanceProofSigned(id, p, participants'[k].nonce, participants'[k].balance_hash)
      /\ counterSigned(type, id, q, participants'[k].nonce, participants'[k].balance_hash)

LEMMA DepositEffect ==
  ASSUME TypeOK, NEW id \in ChannelIds, NEW p \in Participants, NEW q \in Participants,
         NEW owner \in Participants, NEW total_deposit \in Amounts,
         setTotalDepositFor(id, p, total_deposit, q, owner)
  PROVE  /\ Funded(<<id, p>>)
         /\ \A k \in ParticipantKeys \ {<<id, p>>} : participants'[k] = participants[k]
<1> DEFINE k == <<id, p>>
           mine == participants[k]
           added == Wrap(total_deposit - mine.deposit)
<1>1. k \in ParticipantKeys /\ mine \in Participant /\ total_deposit \in Uint
  BY KeyOf, ConstructorAssumption DEF TypeOK
<1>2. participants[<<id, q>>].deposit \in Uint
  BY KeyOf DEF TypeOK, Participant
<1>3. /\ participants' = [participants EXCEPT ![k].deposit = total_deposit]
      /\ added > 0 /\ added <= total_deposit
      /\ depositFits(total_deposit, participants[<<id, q>>].deposit)
  BY DEF setTotalDepositFor
<1>4. total_deposit > mine.deposit
  BY <1>1, <1>2, <1>3, DepositArithmetic DEF Participant
<1>. HIDE DEF k
<1>5. SameClaims(k) /\ participants'[k].withdrawn_amount = mine.withdrawn_amount
      /\ participants'[k].deposit = total_deposit
      /\ \A other \in ParticipantKeys \ {k} : participants'[other] = participants[other]
  BY <1>1, <1>3 DEF SameClaims, TypeOK, Participant
<1>. QED BY <1>4, <1>5 DEF Funded, k

LEMMA WithdrawEffect ==
  ASSUME TypeOK, NEW id \in ChannelIds, NEW q \in Participants, NEW m \in WithdrawMessages,
         setTotalWithdraw(id, m.participant, q, m.total_withdraw, m.withdrawable_until)
  PROVE  /\ Withdrawn(id, m.participant, q)
         /\ \A k \in ParticipantKeys \ {<<id, m.participant>>} :
              participants'[k] = participants[k]
<1> DEFINE p == m.participant
           k == <<id, p>>
<1>1. /\ p \in Participants /\ k \in ParticipantKeys
      /\ participants[k] \in Participant /\ m.total_withdraw \in Uint
  BY KeyOf, MessagesAssumption DEF TypeOK
<1>2. /\ participants' = [participants EXCEPT ![k].withdrawn_amount = m.total_withdraw]
      /\ withdrawAllowed(id, p, q, participants[k], participants[<<id, q>>],
                         m.total_withdraw, m.withdrawable_until)
  BY DEF setTotalWithdraw
<1>3. /\ m.total_withdraw > participants[k].withdrawn_amount
      /\ withdrawSigned(id, p, p, m.total_withdraw, m.withdrawable_until)
      /\ withdrawSigned(id, q, p, m.total_withdraw, m.withdrawable_until)
  BY <1>2 DEF withdrawAllowed
<1>. HIDE DEF k
<1>4. SameClaims(k) /\ participants'[k].deposit = participants[k].deposit
      /\ participants'[k].withdrawn_amount = m.total_withdraw
      /\ \A other \in ParticipantKeys \ {k} : participants'[other] = participants[other]
  BY <1>1, <1>2 DEF SameClaims, TypeOK, Participant
<1>5. Withdrawn(id, p, q)
  <2>1. m.withdrawable_until \in {mm.withdrawable_until : mm \in WithdrawMessages}
    OBVIOUS
  <2>2. \A signer \in {p, q} :
          withdrawSigned(id, signer, p, participants'[<<id, p>>].withdrawn_amount,
                         m.withdrawable_until)
    BY <1>3, <1>4 DEF k
  <2>. HIDE DEF p
  <2>. QED BY <1>3, <1>4, <2>1, <2>2 DEF Withdrawn, k
<1>. QED BY <1>4, <1>5 DEF k

(* Closing: the other participant's data may be stored, if both signed it. *)
LEMMA CloseEffect ==
  ASSUME TypeOK, NEW id \in ChannelIds, NEW p \in Participants, NEW q \in Participants,
         NEW m \in CounterSignatures, closeChannel(id, p, q, m.balance_hash, m.nonce)
  PROVE  /\ SameFunds(<<id, q>>) /\ participants'[<<id, q>>].is_the_closer
         /\ participants'[<<id, q>>].nonce = participants[<<id, q>>].nonce
         /\ participants'[<<id, q>>].balance_hash = participants[<<id, q>>].balance_hash
         /\ \/ participants'[<<id, p>>] = participants[<<id, p>>]
            \/ Presented(id, p, q, "BalanceProof")
         /\ \A k \in ParticipantKeys \ {<<id, p>>, <<id, q>>} :
              participants'[k] = participants[k]
<1> DEFINE kp == <<id, p>>
           kq == <<id, q>>
           closed == [participants EXCEPT ![kq].is_the_closer = TRUE]
<1>1. /\ p # q
      /\ participants' = IF m.nonce > 0
                         THEN withBalanceProof(closed, id, p, m.nonce, m.balance_hash)
                         ELSE closed
      /\ counterSigned("BalanceProof", id, q, m.nonce, m.balance_hash)
      /\ m.nonce > 0 => /\ balanceProofSigned(id, p, m.nonce, m.balance_hash)
                        /\ m.nonce > participants[kp].nonce
  BY DEF closeChannel, withCloser, newerNonce
<1>2. /\ kp \in ParticipantKeys /\ kq \in ParticipantKeys /\ kp # kq
      /\ participants \in [ParticipantKeys -> Participant]
  BY <1>1, KeyOf DEF TypeOK
<1>3. m.nonce \in Nat
  BY MessagesAssumption
<1>4. /\ closed \in [ParticipantKeys -> Participant]
      /\ closed[kq].deposit = participants[kq].deposit
      /\ closed[kq].withdrawn_amount = participants[kq].withdrawn_amount
      /\ closed[kq].nonce = participants[kq].nonce
      /\ closed[kq].balance_hash = participants[kq].balance_hash
      /\ closed[kq].is_the_closer
      /\ \A k \in ParticipantKeys \ {kq} : closed[k] = participants[k]
  BY <1>2 DEF Participant
<1>. HIDE DEF closed
<1>5. CASE m.nonce > 0
  <2>1. participants' = [closed EXCEPT ![kp].nonce = m.nonce, ![kp].balance_hash = m.balance_hash]
    BY <1>1, <1>5 DEF withBalanceProof
  <2>. HIDE DEF kp, kq
  <2>2. /\ participants'[kp].deposit = participants[kp].deposit
        /\ participants'[kp].withdrawn_amount = participants[kp].withdrawn_amount
        /\ participants'[kp].is_the_closer = participants[kp].is_the_closer
        /\ participants'[kp].nonce = m.nonce
        /\ participants'[kp].balance_hash = m.balance_hash
        /\ \A k \in ParticipantKeys \ {kp} : participants'[k] = closed[k]
    BY <1>2, <1>4, <2>1 DEF Participant
  <2>3. Presented(id, p, q, "BalanceProof")
    BY <1>1, <1>5, <2>2 DEF Presented, SameFunds, kp
  <2>4. participants'[kq] = closed[kq]
    BY <1>2, <2>2
  <2>5. SameFunds(kq)
    BY <1>4, <2>4 DEF SameFunds
  <2>6. \A k \in ParticipantKeys \ {kp, kq} : participants'[k] = participants[k]
    BY <1>4, <2>2
  <2>. QED BY <1>4, <2>3, <2>4, <2>5, <2>6 DEF kp, kq
<1>6. CASE ~(m.nonce > 0)
  <2>1. participants' = closed
    BY <1>1, <1>6
  <2>2. SameFunds(kq)
    BY <1>4, <2>1 DEF SameFunds
  <2>. QED BY <1>2, <1>4, <2>1, <2>2
<1>. QED BY <1>5, <1>6

LEMMA UpdateEffect ==
  ASSUME TypeOK, NEW id \in ChannelIds, NEW p \in Participants, NEW q \in Participants,
         NEW m \in BalanceProofs,
         updateNonClosingBalanceProof(id, p, q, m.balance_hash, m.nonce)
  PROVE  /\ Presented(id, p, q, "BalanceProofUpdate")
         /\ participants'[<<id, p>>].nonce = m.nonce
         /\ \A k \in ParticipantKeys \ {<<id, p>>} : participants'[k] = participants[k]
<1> DEFINE k == <<id, p>>
<1>1. /\ participants' = [participants EXCEPT ![k].nonce = m.nonce,
                                              ![k].balance_hash = m.balance_hash]
      /\ counterSigned("BalanceProofUpdate", id, q, m.nonce, m.balance_hash)
      /\ balanceProofSigned(id, p, m.nonce, m.balance_hash)
      /\ m.nonce > participants[k].nonce
  BY DEF updateNonClosingBalanceProof, updateAllowed, updateSigned, newerNonce,
         withBalanceProof
<1>2. k \in ParticipantKeys /\ participants \in [ParticipantKeys -> Participant]
  BY KeyOf DEF TypeOK
<1>. HIDE DEF k
<1>3. /\ SameFunds(k)
      /\ participants'[k].is_the_closer = participants[k].is_the_closer
      /\ participants'[k].nonce = m.nonce
      /\ participants'[k].balance_hash = m.balance_hash
      /\ \A other \in ParticipantKeys \ {k} : participants'[other] = participants[other]
  BY <1>1, <1>2 DEF SameFunds, Participant
<1>. QED BY <1>1, <1>3 DEF Presented, k

LEMMA RemoveEffect ==
  ASSUME TypeOK, NEW id \in ChannelIds, NEW p \in Participants, NEW q \in Participants,
         removeChannelData(id, p, q)
  PROVE  /\ participants'[<<id, p>>] = NoParticipant
         /\ participants'[<<id, q>>] = NoParticipant
         /\ \A k \in ParticipantKeys \ {<<id, p>>, <<id, q>>} :
              participants'[k] = participants[k]
         /\ state'[id] = "NonExistent"
         /\ \A i \in ChannelIds \ {id} :
              state'[i] = state[i] /\ settleable_after'[i] = settleable_after[i]
BY KeyOf DEF removeChannelData, removedAccounts, TypeOK

-----------------------------------------------------------------------------
(***************************************************************************)
(* Which channel has a closer.                                             *)
(***************************************************************************)
LEMMA StrangersAreBlank ==
  ASSUME SafetyInv, NEW id \in ChannelIds, NEW p \in Participants, NEW q \in Participants,
         p # q, id = getChannelIdentifier(p, q), NEW r \in Participants \ {p, q}
  PROVE  participants[<<id, r>>] = NoParticipant
<1>1. {p, q} \in Pairs /\ ChannelOf({p, q}) = id /\ id # 0
  BY PairOf, ConstructorAssumption
  DEF getChannelIdentifier, getParticipantsHash, ChannelOf, ChannelIds
<1>2. SUFFICES ASSUME participants[<<id, r>>] # NoParticipant PROVE FALSE
  OBVIOUS
<1>3. PICK pair \in Pairs : r \in pair /\ ChannelOf(pair) = id
  BY <1>2 DEF SafetyInv, NothingLeftBehind
<1>4. pair = {p, q}
  BY <1>1, <1>3 DEF SafetyInv, ChannelPairsConsistent
<1>. QED BY <1>3, <1>4

LEMMA ClosersOutside ==
  ASSUME ClosersKnown,
         \A k \in ParticipantKeys : SameClaims(k),
         \A i \in ChannelIds : state'[i] = "Closed" <=> state[i] = "Closed"
  PROVE  ClosersKnown'
<1>1. ASSUME NEW i \in ChannelIds, NEW r \in Participants
      PROVE  /\ participants'[<<i, r>>].is_the_closer = participants[<<i, r>>].is_the_closer
             /\ Blank(participants[<<i, r>>]) => Blank(participants'[<<i, r>>])
  BY KeyOf DEF SameClaims, Blank
<1>2. \A i \in ChannelIds : closers(i)' = closers(i)
  BY <1>1 DEF closers
<1>. QED BY <1>1, <1>2 DEF ClosersKnown, Blank

LEMMA ClosersAfterClose ==
  ASSUME SafetyInv, ClosersKnown, NEW id \in ChannelIds,
         NEW p \in Participants, NEW q \in Participants, NEW m \in CounterSignatures,
         closeChannel(id, p, q, m.balance_hash, m.nonce)
  PROVE  ClosersKnown' /\ closers(id)' = {q} /\ closers(id) = {}
<1>1. /\ p # q /\ state[id] = "Opened"
      /\ state'[id] = "Closed" /\ \A i \in ChannelIds \ {id} : state'[i] = state[i]
  BY DEF closeChannel, SafetyInv, TypeOK
<1>2. /\ participants'[<<id, q>>].is_the_closer
      /\ participants'[<<id, p>>].is_the_closer = participants[<<id, p>>].is_the_closer
      /\ \A k \in ParticipantKeys \ {<<id, p>>, <<id, q>>} :
           participants'[k] = participants[k]
  BY CloseEffect DEF SafetyInv, Presented
<1>3. \A r \in Participants : ~participants[<<id, r>>].is_the_closer
  BY <1>1 DEF ClosersKnown, Blank
<1>4. closers(id)' = {q} /\ closers(id) = {}
  BY <1>2, <1>3, KeyOf DEF closers
<1>5. ASSUME NEW i \in ChannelIds \ {id}
      PROVE  /\ \A r \in Participants : participants'[<<i, r>>] = participants[<<i, r>>]
             /\ closers(i)' = closers(i)
  <2>1. \A r \in Participants : participants'[<<i, r>>] = participants[<<i, r>>]
    BY <1>2, KeyOf
  <2>. QED BY <2>1 DEF closers
<1>. QED BY <1>1, <1>4, <1>5 DEF ClosersKnown

LEMMA ClosersAfterUpdate ==
  ASSUME SafetyInv, ClosersKnown, NEW id \in ChannelIds,
         NEW p \in Participants, NEW q \in Participants, NEW m \in BalanceProofs,
         updateNonClosingBalanceProof(id, p, q, m.balance_hash, m.nonce)
  PROVE  ClosersKnown' /\ \A i \in ChannelIds : closers(i)' = closers(i)
<1>1. state[id] = "Closed" /\ state' = state
  BY DEF updateNonClosingBalanceProof, updateAllowed
<1>2. /\ participants'[<<id, p>>].is_the_closer = participants[<<id, p>>].is_the_closer
      /\ \A k \in ParticipantKeys \ {<<id, p>>} : participants'[k] = participants[k]
  BY UpdateEffect DEF SafetyInv, Presented
<1>3. \A i \in ChannelIds : closers(i)' = closers(i)
  BY <1>2, KeyOf DEF closers
<1>4. \A i \in ChannelIds \ {id}, r \in Participants :
        participants'[<<i, r>>] = participants[<<i, r>>]
  BY <1>2, KeyOf
<1>. QED BY <1>1, <1>3, <1>4 DEF ClosersKnown

LEMMA ClosersAfterRemove ==
  ASSUME SafetyInv, ClosersKnown, NEW id \in ChannelIds,
         NEW p \in Participants, NEW q \in Participants, p # q,
         id = getChannelIdentifier(p, q), removeChannelData(id, p, q)
  PROVE  /\ ClosersKnown' /\ closers(id)' = {}
         /\ \A i \in ChannelIds \ {id} : closers(i)' = closers(i)
<1>1. /\ participants'[<<id, p>>] = NoParticipant
      /\ participants'[<<id, q>>] = NoParticipant
      /\ \A k \in ParticipantKeys \ {<<id, p>>, <<id, q>>} :
           participants'[k] = participants[k]
      /\ state'[id] = "NonExistent"
      /\ \A i \in ChannelIds \ {id} : state'[i] = state[i]
  BY RemoveEffect DEF SafetyInv
<1>2. ASSUME NEW r \in Participants PROVE participants'[<<id, r>>] = NoParticipant
  <2>1. CASE r \in {p, q}
    BY <1>1, <2>1
  <2>2. CASE r \notin {p, q}
    BY <1>1, <2>2, StrangersAreBlank, KeyOf
  <2>. QED BY <2>1, <2>2
<1>3. Blank(NoParticipant)
  BY DEF Blank, NoParticipant
<1>4. ASSUME NEW i \in ChannelIds \ {id}
      PROVE  /\ \A r \in Participants : participants'[<<i, r>>] = participants[<<i, r>>]
             /\ closers(i)' = closers(i)
  <2>1. \A r \in Participants : participants'[<<i, r>>] = participants[<<i, r>>]
    BY <1>1, KeyOf
  <2>. QED BY <2>1 DEF closers
<1>5. closers(id)' = {}
  BY <1>2 DEF closers, NoParticipant
<1>. QED BY <1>1, <1>2, <1>3, <1>4, <1>5 DEF ClosersKnown, Blank

-----------------------------------------------------------------------------
(***************************************************************************)
(* What is stored about p was signed by both p and its partner q.          *)
(***************************************************************************)
SignedBy(account, id, p, q) ==
  /\ account.nonce > 0 =>
       /\ balanceProofSigned(id, p, account.nonce, account.balance_hash)
       /\ counterSigned(IF account.is_the_closer THEN "BalanceProofUpdate"
                                                 ELSE "BalanceProof",
                        id, q, account.nonce, account.balance_hash)
  /\ account.withdrawn_amount > 0 =>
       \E until \in {m.withdrawable_until : m \in WithdrawMessages} :
         \A signer \in {p, q} :
           withdrawSigned(id, signer, p, account.withdrawn_amount, until)

LEMMA PairOfTwo ==
  ASSUME NEW pair \in Pairs, NEW p \in pair, NEW q \in pair, p # q
  PROVE  pair = {p, q} /\ p \in Participants /\ q \in Participants
BY DEF Pairs

SignedForPartners ==
  \A p, q \in Participants :
    (p # q /\ getChannelIdentifier(p, q) # 0) =>
      SignedBy(participants[<<getChannelIdentifier(p, q), p>>],
               getChannelIdentifier(p, q), p, q)

LEMMA SignedPairs == StoredDataIsSigned <=> SignedForPartners
<1> USE DEF SignedForPartners
<1>1. ASSUME StoredDataIsSigned, NEW p \in Participants, NEW q \in Participants,
             p # q, getChannelIdentifier(p, q) # 0
      PROVE  SignedBy(participants[<<getChannelIdentifier(p, q), p>>],
                      getChannelIdentifier(p, q), p, q)
  <2>1. {p, q} \in Pairs /\ ChannelOf({p, q}) = getChannelIdentifier(p, q)
    BY <1>1, PairOf DEF ChannelOf, getChannelIdentifier, getParticipantsHash
  <2>. QED BY <1>1, <2>1 DEF StoredDataIsSigned, SignedBy
<1>2. ASSUME SignedForPartners
      PROVE  StoredDataIsSigned
  <2>1. ASSUME NEW pair \in Pairs, ChannelOf(pair) # 0, NEW p \in pair, NEW q \in pair, p # q
        PROVE  SignedBy(participants[<<ChannelOf(pair), p>>], ChannelOf(pair), p, q)
               /\ pair = {p, q}
    <3>1. pair = {p, q} /\ p \in Participants /\ q \in Participants
      BY <2>1, PairOfTwo
    <3>2. getChannelIdentifier(p, q) = ChannelOf(pair)
      BY <3>1 DEF ChannelOf, getChannelIdentifier, getParticipantsHash
    <3>. QED BY <1>2, <2>1, <3>1, <3>2
  <2>. QED BY <2>1 DEF StoredDataIsSigned, SignedBy
<1>. QED BY <1>1, <1>2

LEMMA SignedPairsNext == StoredDataIsSigned' <=> SignedForPartners'
BY SignedPairs, PTL

LEMMA SignedAccount ==
  ASSUME NEW id, NEW p, NEW q, SignedBy(participants[<<id, p>>], id, p, q),
         participants[<<id, p>>] \in Participant, participants'[<<id, p>>] \in Participant,
         \/ participants'[<<id, p>>] = participants[<<id, p>>]
         \/ Funded(<<id, p>>)
         \/ Withdrawn(id, p, q)
         \/ /\ SameFunds(<<id, p>>)
            /\ participants'[<<id, p>>].nonce = 0
         \/ /\ Presented(id, p, q, "BalanceProof")
            /\ ~participants[<<id, p>>].is_the_closer
         \/ /\ Presented(id, p, q, "BalanceProofUpdate")
            /\ participants[<<id, p>>].is_the_closer
  PROVE  SignedBy(participants'[<<id, p>>], id, p, q)
<1> DEFINE a == participants[<<id, p>>]
           b == participants'[<<id, p>>]
<1>1. CASE b = a
  BY <1>1
<1>2. CASE Funded(<<id, p>>)
  BY <1>2 DEF Funded, SameClaims, SignedBy
<1>3. CASE Withdrawn(id, p, q)
  BY <1>3 DEF Withdrawn, SameClaims, SignedBy
<1>4. CASE SameFunds(<<id, p>>) /\ b.nonce = 0
  BY <1>4 DEF SameFunds, SignedBy
<1>5. CASE Presented(id, p, q, "BalanceProof") /\ ~a.is_the_closer
  BY <1>5 DEF Presented, SameFunds, SignedBy
<1>6. CASE Presented(id, p, q, "BalanceProofUpdate") /\ a.is_the_closer
  BY <1>6 DEF Presented, SameFunds, SignedBy
<1>. QED BY <1>1, <1>2, <1>3, <1>4, <1>5, <1>6

(* A step that changes the accounts of one channel, which stays. *)
LEMMA SignedAfterAccounts ==
  ASSUME SafetyInv, StoredDataIsSigned, NEW id \in ChannelIds,
         NEW p \in Participants, NEW q \in Participants,
         p # q, id = getChannelIdentifier(p, q),
         UNCHANGED participants_hash_to_channel_identifier,
         \A k \in ParticipantKeys \ {<<id, p>>, <<id, q>>} :
           participants'[k] = participants[k],
         SignedBy(participants[<<id, p>>], id, p, q) =>
           SignedBy(participants'[<<id, p>>], id, p, q),
         SignedBy(participants[<<id, q>>], id, q, p) =>
           SignedBy(participants'[<<id, q>>], id, q, p)
  PROVE  StoredDataIsSigned'
<1>1. \A r, s \in Participants : getChannelIdentifier(r, s)' = getChannelIdentifier(r, s)
  BY DEF getChannelIdentifier
<1>2. {p, q} \in Pairs /\ ChannelOf({p, q}) = id /\ id # 0
  BY PairOf, ConstructorAssumption
  DEF getChannelIdentifier, getParticipantsHash, ChannelOf, ChannelIds
<1> SUFFICES ASSUME NEW r \in Participants, NEW s \in Participants, r # s,
                    getChannelIdentifier(r, s) # 0
             PROVE  SignedBy(participants'[<<getChannelIdentifier(r, s), r>>],
                             getChannelIdentifier(r, s), r, s)
  BY <1>1, SignedPairsNext DEF SignedForPartners
<1>3. SignedBy(participants[<<getChannelIdentifier(r, s), r>>],
               getChannelIdentifier(r, s), r, s)
  BY SignedPairs DEF SignedForPartners
<1>4. CASE {r, s} = {p, q}
  <2>1. /\ (r = p /\ s = q) \/ (r = q /\ s = p)
        /\ getChannelIdentifier(r, s) = id
    BY <1>4 DEF getChannelIdentifier, getParticipantsHash
  <2>. QED BY <1>3, <2>1
<1>5. CASE {r, s} # {p, q}
  <2>1. {r, s} \in Pairs /\ ChannelOf({r, s}) = getChannelIdentifier(r, s)
    BY PairOf DEF ChannelOf, getChannelIdentifier, getParticipantsHash
  <2>2. getChannelIdentifier(r, s) \in ChannelIds /\ getChannelIdentifier(r, s) # id
    BY <1>2, <1>5, <2>1, LiveChannel DEF SafetyInv
  <2>3. participants'[<<getChannelIdentifier(r, s), r>>]
          = participants[<<getChannelIdentifier(r, s), r>>]
    BY <2>2, KeyOf
  <2>. QED BY <1>3, <2>3
<1>. QED BY <1>4, <1>5

LEMMA SignedAfterOpen ==
  ASSUME SafetyInv, StoredDataIsSigned, NEW p \in Participants, NEW q \in Participants,
         openedChannel(p, q),
         \A k \in ParticipantKeys : \/ participants'[k] = participants[k]
                                    \/ k[1] = channel_counter + 1 /\ Funded(k)
  PROVE  StoredDataIsSigned'
<1> DEFINE id == channel_counter + 1
<1>1. /\ p # q /\ {p, q} \in Pairs /\ id \in ChannelIds
      /\ \A pair \in Pairs \ {{p, q}} : ChannelOf(pair)' = ChannelOf(pair)
      /\ ChannelOf({p, q})' = id
  <2>1. p # q /\ {p, q} \in Pairs /\ id \in ChannelIds
    BY PairOf, OpenedChannelType DEF openedChannel, SafetyInv
  <2>. QED BY <2>1 DEF openedChannel, ChannelOf, getParticipantsHash, SafetyInv, TypeOK
<1>2. /\ \A r \in Participants : participants[<<id, r>>] = NoParticipant
      /\ \A pair \in Pairs : ChannelOf(pair) # id
  BY <1>1, NewChannelIsUnused
<1>. HIDE DEF id
<1> SUFFICES ASSUME NEW r \in Participants, NEW s \in Participants, r # s,
                    getChannelIdentifier(r, s)' # 0
             PROVE  SignedBy(participants'[<<getChannelIdentifier(r, s)', r>>],
                             getChannelIdentifier(r, s)', r, s)
  BY SignedPairsNext DEF SignedForPartners
<1>3. /\ {r, s} \in Pairs /\ ChannelOf({r, s}) = getChannelIdentifier(r, s)
      /\ ChannelOf({r, s})' = getChannelIdentifier(r, s)'
  BY PairOf DEF ChannelOf, getChannelIdentifier, getParticipantsHash
<1>4. CASE {r, s} = {p, q}
  <2>1. getChannelIdentifier(r, s)' = id /\ <<id, r>> \in ParticipantKeys
    BY <1>1, <1>3, <1>4, KeyOf
  <2>2. participants'[<<id, r>>] = participants[<<id, r>>] \/ Funded(<<id, r>>)
    BY <2>1
  <2>3. /\ participants'[<<id, r>>].nonce = 0
        /\ participants'[<<id, r>>].withdrawn_amount = 0
    BY <1>2, <2>2 DEF Funded, SameClaims, NoParticipant
  <2>. QED BY <2>1, <2>3 DEF SignedBy
<1>5. CASE {r, s} # {p, q}
  <2> DEFINE other == getChannelIdentifier(r, s)
  <2>1. getChannelIdentifier(r, s)' = other /\ other # 0
    BY <1>1, <1>3, <1>5
  <2>2. other \in ChannelIds /\ other # id
    BY <1>2, <1>3, <2>1, LiveChannel DEF SafetyInv
  <2>3. participants'[<<other, r>>] = participants[<<other, r>>]
    BY <2>2, KeyOf DEF id
  <2>4. SignedBy(participants[<<other, r>>], other, r, s)
    BY <2>1, SignedPairs DEF SignedForPartners
  <2>. QED BY <2>1, <2>3, <2>4
<1>. QED BY <1>4, <1>5

LEMMA SignedAfterRemove ==
  ASSUME SafetyInv, StoredDataIsSigned, NEW id \in ChannelIds,
         NEW p \in Participants, NEW q \in Participants, p # q,
         id = getChannelIdentifier(p, q), removeChannelData(id, p, q)
  PROVE  StoredDataIsSigned'
<1>1. /\ {p, q} \in Pairs /\ ChannelOf({p, q}) = id /\ id # 0
      /\ \A pair \in Pairs \ {{p, q}} : ChannelOf(pair)' = ChannelOf(pair)
      /\ ChannelOf({p, q})' = 0
  <2>1. {p, q} \in Pairs
    BY PairOf
  <2>. QED
    BY <2>1, ConstructorAssumption
    DEF removeChannelData, removedPair, ChannelOf, getParticipantsHash,
        getChannelIdentifier, ChannelIds, SafetyInv, TypeOK
<1>2. /\ participants'[<<id, p>>] = NoParticipant
      /\ participants'[<<id, q>>] = NoParticipant
      /\ \A k \in ParticipantKeys \ {<<id, p>>, <<id, q>>} :
           participants'[k] = participants[k]
  BY RemoveEffect, Zenon DEF SafetyInv
<1> SUFFICES ASSUME NEW r \in Participants, NEW s \in Participants, r # s,
                    getChannelIdentifier(r, s)' # 0
             PROVE  SignedBy(participants'[<<getChannelIdentifier(r, s)', r>>],
                             getChannelIdentifier(r, s)', r, s)
  BY SignedPairsNext DEF SignedForPartners
<1>3. /\ {r, s} \in Pairs /\ ChannelOf({r, s}) = getChannelIdentifier(r, s)
      /\ ChannelOf({r, s})' = getChannelIdentifier(r, s)'
  BY PairOf DEF ChannelOf, getChannelIdentifier, getParticipantsHash
<1> DEFINE other == getChannelIdentifier(r, s)
<1>4. getChannelIdentifier(r, s)' = other /\ other # 0 /\ {r, s} # {p, q}
  BY <1>1, <1>3
<1>5. other \in ChannelIds /\ other # id
  BY <1>1, <1>3, <1>4, LiveChannel DEF SafetyInv
<1>6. participants'[<<other, r>>] = participants[<<other, r>>]
  BY <1>2, <1>5, KeyOf
<1>7. SignedBy(participants[<<other, r>>], other, r, s)
  BY <1>4, SignedPairs DEF SignedForPartners
<1>. QED BY <1>4, <1>6, <1>7

-----------------------------------------------------------------------------
(***************************************************************************)
(* Every step keeps what is known of the closers and of the signatures.    *)
(***************************************************************************)
Known == ClosersKnown /\ StoredDataIsSigned

LEMMA KnownOutside ==
  ASSUME ClaimsInv, UNCHANGED channelVars PROVE Known'
BY DEF ClaimsInv, Known, channelVars, ClosersKnown, closers, StoredDataIsSigned, ChannelOf

LEMMA KnownAfterFunding ==
  ASSUME ClaimsInv, FundingNext PROVE Known'
<1>1. TypeOK /\ SafetyInv
  BY DEF ClaimsInv, SafetyInv
<1>2. ASSUME NEW owner \in Participants, DirectTransfer(owner) PROVE Known'
  BY <1>2, KnownOutside DEF DirectTransfer
\* Opening makes no channel closed.
<1>3. ASSUME NEW p \in Participants, NEW q \in Participants, openedChannel(p, q),
             \A k \in ParticipantKeys : \/ participants'[k] = participants[k]
                                        \/ k[1] = channel_counter + 1 /\ Funded(k)
      PROVE  Known'
  <2>1. channel_counter + 1 \in ChannelIds
    BY <1>1, <1>3, OpenedChannelType
  <2>2. state[channel_counter + 1] = "NonExistent"
    BY <1>1, <2>1, NewChannelIsUnused
  <2>3. \A i \in ChannelIds : state'[i] = "Closed" <=> state[i] = "Closed"
    BY <1>1, <1>3, <2>1, <2>2 DEF openedChannel, TypeOK
  <2>4. \A k \in ParticipantKeys : SameClaims(k)
    BY <1>3 DEF Funded, SameClaims
  <2>5. ClosersKnown'
    BY <2>3, <2>4, ClosersOutside DEF ClaimsInv
  <2>6. StoredDataIsSigned'
    BY <1>1, <1>3, SignedAfterOpen DEF ClaimsInv
  <2>. QED BY <2>5, <2>6 DEF Known
<1>4. ASSUME NEW p \in Participants, NEW q \in Participants, openChannel(p, q) PROVE Known'
  BY <1>3, <1>4 DEF openChannel
<1>5. ASSUME NEW p \in Participants, NEW q \in Participants, NEW owner \in Participants,
             NEW total_deposit \in Amounts, openChannelWithDeposit(p, q, total_deposit, owner)
      PROVE  Known'
  <2> DEFINE id == channel_counter + 1
  <2>1. openedChannel(p, q) /\ setTotalDepositFor(id, p, total_deposit, q, owner)
    BY <1>5 DEF openChannelWithDeposit
  <2>2. id \in ChannelIds
    BY <1>1, <2>1, OpenedChannelType
  <2>3. /\ Funded(<<id, p>>)
        /\ \A k \in ParticipantKeys \ {<<id, p>>} : participants'[k] = participants[k]
    BY <1>1, <2>1, <2>2, DepositEffect
  <2>4. \A k \in ParticipantKeys : \/ participants'[k] = participants[k]
                                   \/ k[1] = id /\ Funded(k)
    BY <2>3
  <2>. QED BY <1>3, <2>1, <2>4
<1>6. ASSUME NEW id \in ChannelIds, NEW p \in Participants, NEW q \in Participants,
             NEW owner \in Participants, NEW total_deposit \in Amounts,
             setTotalDeposit(id, p, total_deposit, q, owner)
      PROVE  Known'
  <2>1. /\ p # q /\ id = getChannelIdentifier(p, q)
        /\ setTotalDepositFor(id, p, total_deposit, q, owner)
        /\ UNCHANGED <<state, participants_hash_to_channel_identifier>>
    BY <1>6 DEF setTotalDeposit
  <2>2. /\ Funded(<<id, p>>)
        /\ \A k \in ParticipantKeys \ {<<id, p>>} : participants'[k] = participants[k]
    BY <1>1, <2>1, DepositEffect
  <2>3. \A k \in ParticipantKeys : SameClaims(k)
    BY <2>2 DEF Funded, SameClaims
  <2>4. ClosersKnown'
    BY <2>1, <2>3, ClosersOutside DEF ClaimsInv
  <2>5. /\ <<id, p>> \in ParticipantKeys /\ <<id, q>> \in ParticipantKeys
        /\ participants'[<<id, q>>] = participants[<<id, q>>]
    BY <2>1, <2>2, KeyOf
  <2>6. SignedBy(participants[<<id, p>>], id, p, q)
          => SignedBy(participants'[<<id, p>>], id, p, q)
    BY <2>2 DEF Funded, SameClaims, SignedBy
  <2>7. StoredDataIsSigned'
    BY <1>1, <2>1, <2>2, <2>5, <2>6, SignedAfterAccounts DEF ClaimsInv
  <2>. QED BY <2>4, <2>7 DEF Known
<1>. QED BY <1>2, <1>4, <1>5, <1>6 DEF FundingNext

LEMMA KnownAfterWithdraw ==
  ASSUME ClaimsInv, WithdrawNext PROVE Known'
<1>1. TypeOK /\ SafetyInv
  BY DEF ClaimsInv, SafetyInv
<1>2. ASSUME NEW id \in ChannelIds, NEW q \in Participants, NEW m \in WithdrawMessages,
             setTotalWithdraw(id, m.participant, q, m.total_withdraw, m.withdrawable_until)
      PROVE  Known'
  <2> DEFINE p == m.participant
  <2>1. p \in Participants
    BY MessagesAssumption
  <2>2. /\ p # q /\ id = getChannelIdentifier(p, q)
        /\ UNCHANGED <<state, participants_hash_to_channel_identifier>>
    BY <1>2 DEF setTotalWithdraw, withdrawAllowed
  <2>3. /\ Withdrawn(id, p, q)
        /\ \A k \in ParticipantKeys \ {<<id, p>>} : participants'[k] = participants[k]
    BY <1>1, <1>2, WithdrawEffect
  <2>. HIDE DEF p
  <2>4. \A k \in ParticipantKeys : SameClaims(k)
    BY <2>3 DEF Withdrawn, SameClaims
  <2>5. ClosersKnown'
    BY <2>2, <2>4, ClosersOutside DEF ClaimsInv
  <2>6. /\ <<id, p>> \in ParticipantKeys /\ <<id, q>> \in ParticipantKeys
        /\ participants'[<<id, q>>] = participants[<<id, q>>]
    BY <2>1, <2>2, <2>3, KeyOf
  <2>7. SignedBy(participants[<<id, p>>], id, p, q)
          => SignedBy(participants'[<<id, p>>], id, p, q)
    BY <2>3 DEF Withdrawn, SameClaims, SignedBy
  <2>8. StoredDataIsSigned'
    BY <1>1, <2>1, <2>2, <2>3, <2>6, <2>7, SignedAfterAccounts DEF ClaimsInv
  <2>. QED BY <2>5, <2>8 DEF Known
<1>3. ASSUME NEW id \in ChannelIds, NEW data1 \in WithdrawInputs, NEW data2 \in WithdrawInputs,
             cooperativeSettle(id, data1, data2)
      PROVE  Known'
  <2> DEFINE p == data1.participant  q == data2.participant
  <2>1. /\ p \in Participants /\ q \in Participants /\ p # q
        /\ id = getChannelIdentifier(p, q) /\ removeChannelData(id, p, q)
    BY <1>3, WithdrawInputsType DEF cooperativeSettle
  <2>. QED BY <1>1, <2>1, ClosersAfterRemove, SignedAfterRemove DEF ClaimsInv, Known
<1>. QED BY <1>2, <1>3 DEF WithdrawNext

LEMMA KnownAfterClose ==
  ASSUME ClaimsInv, CloseNext PROVE Known'
<1>1. TypeOK /\ SafetyInv /\ ClosersKnown /\ TypeOK'
  BY CloseStepType DEF ClaimsInv, SafetyInv
<1>2. ASSUME NEW id \in ChannelIds, NEW p \in Participants, NEW q \in Participants,
             NEW m \in CounterSignatures, closeChannel(id, p, q, m.balance_hash, m.nonce)
      PROVE  Known'
  <2>1. /\ p # q /\ id = getChannelIdentifier(p, q) /\ state[id] = "Opened"
        /\ UNCHANGED participants_hash_to_channel_identifier
    BY <1>2 DEF closeChannel, getChannelIdentifier, getParticipantsHash
  <2>2. /\ SameFunds(<<id, q>>) /\ participants'[<<id, q>>].nonce = participants[<<id, q>>].nonce
        /\ \/ participants'[<<id, p>>] = participants[<<id, p>>]
           \/ Presented(id, p, q, "BalanceProof")
        /\ \A k \in ParticipantKeys \ {<<id, p>>, <<id, q>>} :
             participants'[k] = participants[k]
    BY <1>1, <1>2, CloseEffect
  <2>3. Blank(participants[<<id, p>>]) /\ Blank(participants[<<id, q>>])
    BY <1>1, <2>1 DEF ClosersKnown
  <2>4. /\ participants[<<id, p>>] \in Participant /\ participants'[<<id, p>>] \in Participant
        /\ participants[<<id, q>>] \in Participant /\ participants'[<<id, q>>] \in Participant
    BY <1>1, KeyOf DEF TypeOK
  <2>5. SignedBy(participants[<<id, p>>], id, p, q)
          => SignedBy(participants'[<<id, p>>], id, p, q)
    BY <2>2, <2>3, <2>4, SignedAccount DEF Blank
  <2>6. SignedBy(participants[<<id, q>>], id, q, p)
          => SignedBy(participants'[<<id, q>>], id, q, p)
    BY <2>2, <2>3, <2>4, SignedAccount DEF Blank
  <2>7. StoredDataIsSigned'
    BY <1>1, <2>1, <2>2, <2>5, <2>6, SignedAfterAccounts DEF ClaimsInv
  <2>. QED BY <1>1, <1>2, <2>7, ClosersAfterClose DEF Known
<1>3. ASSUME NEW id \in ChannelIds, NEW p \in Participants, NEW q \in Participants,
             NEW m \in BalanceProofs,
             updateNonClosingBalanceProof(id, p, q, m.balance_hash, m.nonce)
      PROVE  Known'
  <2>1. /\ p # q /\ id = getChannelIdentifier(p, q) /\ participants[<<id, p>>].is_the_closer
        /\ UNCHANGED participants_hash_to_channel_identifier
    BY <1>3 DEF updateNonClosingBalanceProof, updateAllowed
  <2>2. /\ Presented(id, p, q, "BalanceProofUpdate")
        /\ \A k \in ParticipantKeys \ {<<id, p>>} : participants'[k] = participants[k]
    BY <1>1, <1>3, UpdateEffect
  <2>3. /\ <<id, p>> \in ParticipantKeys /\ <<id, q>> \in ParticipantKeys
        /\ participants'[<<id, q>>] = participants[<<id, q>>]
        /\ participants[<<id, p>>] \in Participant /\ participants'[<<id, p>>] \in Participant
    BY <1>1, <2>1, <2>2, KeyOf DEF TypeOK
  <2>4. SignedBy(participants[<<id, p>>], id, p, q)
          => SignedBy(participants'[<<id, p>>], id, p, q)
    BY <2>1, <2>2, <2>3, SignedAccount
  <2>5. StoredDataIsSigned'
    BY <1>1, <2>1, <2>2, <2>3, <2>4, SignedAfterAccounts DEF ClaimsInv
  <2>. QED BY <1>1, <1>3, <2>5, ClosersAfterUpdate DEF Known
<1>. QED BY <1>2, <1>3 DEF CloseNext

LEMMA ClaimsStep == ClaimsInv /\ [Next]_vars => ClaimsInv'
<1> SUFFICES ASSUME ClaimsInv, [Next]_vars PROVE ClaimsInv'
  OBVIOUS
<1>1. SafetyInv /\ SafetyInv'
  BY SafetyStep DEF ClaimsInv
<1> SUFFICES Known'
  BY <1>1 DEF ClaimsInv, Known
<1>2. CASE UNCHANGED channelVars
  BY <1>2, KnownOutside
<1>3. CASE RegistryNext
  BY <1>2, <1>3 DEF RegistryNext
<1>4. CASE ControllerNext
  BY <1>2, <1>4 DEF ControllerNext, deprecate, removeLimits, changeController
<1>5. CASE FundingNext
  BY <1>5, KnownAfterFunding
<1>6. CASE WithdrawNext
  BY <1>6, KnownAfterWithdraw
<1>7. CASE CloseNext
  BY <1>7, KnownAfterClose
<1>8. ASSUME NEW id \in ChannelIds, settleById(id) PROVE Known'
  <2>1. PICK p, q \in Participants, data1, data2 \in BalanceData :
          settleChannel(id, p, data1, q, data2)
    BY <1>8 DEF settleById
  <2>2. p # q /\ id = getChannelIdentifier(p, q) /\ removeChannelData(id, p, q)
    BY <2>1 DEF settleChannel, settleAllowed
  <2>. QED BY <1>1, <2>2, ClosersAfterRemove, SignedAfterRemove DEF ClaimsInv, Known
<1>9. ASSUME NEW id \in ChannelIds, unlockById(id) PROVE Known'
  BY <1>2, <1>9 DEF unlockById, unlock
<1>10. CASE UNCHANGED vars
  BY <1>2, <1>10 DEF vars
<1>. QED BY <1>3, <1>4, <1>5, <1>6, <1>7, <1>8, <1>9, <1>10 DEF Next

LEMMA InitClaims == Init => ClaimsInv
<1> SUFFICES ASSUME Init PROVE ClaimsInv
  OBVIOUS
<1>1. SafetyInv
  BY InitSafety
<1>2. ClosersKnown
  BY KeyOf DEF Init, ClosersKnown, Blank, NoParticipant
<1>3. StoredDataIsSigned
  BY DEF Init, StoredDataIsSigned, ChannelOf
<1>. QED BY <1>1, <1>2, <1>3 DEF ClaimsInv

THEOREM ClaimsInvariance == Spec => []ClaimsInv
BY InitClaims, ClaimsStep, PTL DEF Spec

\* Nothing is ever stored about a participant that it and its partner have not
\* both signed, for exactly this channel and in the role each of them has in it.
THEOREM StoredDataSafety == Spec => []StoredDataIsSigned
<1>1. ClaimsInv => StoredDataIsSigned
  BY DEF ClaimsInv
<1>. QED BY <1>1, ClaimsInvariance, PTL

-----------------------------------------------------------------------------
(***************************************************************************)
(* What a step never takes back.                                           *)
(***************************************************************************)
AllGrown == \A id \in ChannelIds, p \in Participants : grown(id, p)

LEMMA GrownAccount ==
  ASSUME NEW id \in ChannelIds, NEW p \in Participants,
         participants[<<id, p>>] \in Participant, participants'[<<id, p>>] \in Participant,
         state[id] = "Closed" /\ state'[id] # "NonExistent"
           => settleable_after'[id] = settleable_after[id],
         \/ state'[id] = "NonExistent"
         \/ participants[<<id, p>>] = NoParticipant /\ state[id] # "Closed"
         \/ participants'[<<id, p>>] = participants[<<id, p>>]
         \/ Funded(<<id, p>>) /\ state[id] # "Closed"
         \/ \E q \in Participants : Withdrawn(id, p, q) /\ state[id] # "Closed"
         \/ /\ SameFunds(<<id, p>>) /\ state[id] # "Closed"
            /\ participants'[<<id, p>>].nonce = participants[<<id, p>>].nonce
            /\ participants'[<<id, p>>].balance_hash = participants[<<id, p>>].balance_hash
         \/ /\ \E q \in Participants, type \in {"BalanceProof", "BalanceProofUpdate"} :
                 Presented(id, p, q, type)
            /\ state[id] # "Closed" \/ participants[<<id, p>>].is_the_closer
  PROVE  grown(id, p)
<1> DEFINE k == <<id, p>>
           before == participants[k]
           after  == participants'[k]
<1>1. /\ before.deposit \in Nat /\ before.withdrawn_amount \in Nat /\ before.nonce \in Nat
      /\ after.deposit \in Nat /\ after.withdrawn_amount \in Nat /\ after.nonce \in Nat
  BY MaxIsNat DEF Participant, Uint
<1>2. CASE state'[id] = "NonExistent" \/ before = NoParticipant
  BY <1>2 DEF grown
<1>3. CASE after = before
  BY <1>1, <1>3 DEF grown
<1>4. CASE Funded(k) /\ state[id] # "Closed"
  BY <1>1, <1>4 DEF grown, Funded, SameClaims
<1>5. CASE (\E q \in Participants : Withdrawn(id, p, q)) /\ state[id] # "Closed"
  BY <1>1, <1>5 DEF grown, Withdrawn, SameClaims
<1>6. CASE /\ SameFunds(k) /\ state[id] # "Closed"
           /\ after.nonce = before.nonce /\ after.balance_hash = before.balance_hash
  BY <1>1, <1>6 DEF grown, SameFunds
<1>7. CASE /\ \E q \in Participants, type \in {"BalanceProof", "BalanceProofUpdate"} :
                Presented(id, p, q, type)
           /\ state[id] # "Closed" \/ before.is_the_closer
  BY <1>1, <1>7 DEF grown, Presented, SameFunds
<1>. QED BY <1>2, <1>3, <1>4, <1>5, <1>6, <1>7

LEMMA GrownStep == SafetyInv /\ [Next]_vars => AllGrown
<1> SUFFICES ASSUME SafetyInv, [Next]_vars PROVE AllGrown
  OBVIOUS
<1>1. TypeOK /\ TypeOK'
  BY StepType DEF SafetyInv
<1>2. \A id \in ChannelIds, p \in Participants :
        participants[<<id, p>>] \in Participant /\ participants'[<<id, p>>] \in Participant
  BY <1>1, KeyOf DEF TypeOK
<1>3. CASE UNCHANGED <<participants, state, settleable_after>>
  BY <1>2, <1>3, GrownAccount DEF AllGrown
<1>4. CASE RegistryNext \/ ControllerNext \/ UNCHANGED vars
  BY <1>3, <1>4 DEF RegistryNext, ControllerNext, deprecate, removeLimits,
                    changeController, vars, channelVars
<1>5. CASE FundingNext
  <2>1. ASSUME NEW owner \in Participants, DirectTransfer(owner) PROVE AllGrown
    BY <1>3, <2>1 DEF DirectTransfer, channelVars
  <2>2. ASSUME NEW p \in Participants, NEW q \in Participants, openedChannel(p, q),
               UNCHANGED settleable_after,
               \A k \in ParticipantKeys : \/ k[1] = channel_counter + 1
                                          \/ participants'[k] = participants[k]
        PROVE  AllGrown
    <3>1. channel_counter + 1 \in ChannelIds
      BY <1>1, <2>2, OpenedChannelType
    <3>2. /\ state[channel_counter + 1] = "NonExistent"
          /\ \A r \in Participants :
               participants[<<channel_counter + 1, r>>] = NoParticipant
      BY <3>1, NewChannelIsUnused
    <3>3. \A id \in ChannelIds, r \in Participants :
            \/ participants[<<id, r>>] = NoParticipant /\ state[id] # "Closed"
            \/ participants'[<<id, r>>] = participants[<<id, r>>]
      BY <2>2, <3>2, KeyOf
    <3>. QED BY <1>2, <2>2, <3>3, GrownAccount DEF AllGrown
  <2>3. ASSUME NEW p \in Participants, NEW q \in Participants, openChannel(p, q)
        PROVE  AllGrown
    BY <2>2, <2>3 DEF openChannel
  <2>4. ASSUME NEW p \in Participants, NEW q \in Participants, NEW owner \in Participants,
               NEW total_deposit \in Amounts, openChannelWithDeposit(p, q, total_deposit, owner)
        PROVE  AllGrown
    <3>1. /\ openedChannel(p, q) /\ UNCHANGED settleable_after
          /\ setTotalDepositFor(channel_counter + 1, p, total_deposit, q, owner)
      BY <2>4 DEF openChannelWithDeposit
    <3>2. channel_counter + 1 \in ChannelIds
      BY <1>1, <3>1, OpenedChannelType
    <3>3. \A k \in ParticipantKeys \ {<<channel_counter + 1, p>>} :
            participants'[k] = participants[k]
      BY <1>1, <3>1, <3>2, DepositEffect
    <3>4. \A k \in ParticipantKeys : \/ k[1] = channel_counter + 1
                                     \/ participants'[k] = participants[k]
      BY <3>3
    <3>. QED BY <2>2, <3>1, <3>4
  <2>5. ASSUME NEW id \in ChannelIds, NEW p \in Participants, NEW q \in Participants,
               NEW owner \in Participants, NEW total_deposit \in Amounts,
               setTotalDeposit(id, p, total_deposit, q, owner)
        PROVE  AllGrown
    <3>1. /\ state[id] = "Opened" /\ UNCHANGED <<state, settleable_after>>
          /\ setTotalDepositFor(id, p, total_deposit, q, owner)
      BY <2>5 DEF setTotalDeposit
    <3>2. /\ Funded(<<id, p>>)
          /\ \A k \in ParticipantKeys \ {<<id, p>>} : participants'[k] = participants[k]
      BY <1>1, <3>1, DepositEffect
    <3>3. \A i \in ChannelIds, r \in Participants :
            \/ participants'[<<i, r>>] = participants[<<i, r>>]
            \/ Funded(<<i, r>>) /\ state[i] # "Closed"
      BY <3>1, <3>2, KeyOf
    <3>. QED BY <1>2, <3>1, <3>3, GrownAccount DEF AllGrown
  <2>. QED BY <1>5, <2>1, <2>3, <2>4, <2>5 DEF FundingNext
\* Removing a channel says nothing of it, and leaves the others alone.
<1>6. ASSUME NEW id \in ChannelIds, NEW p \in Participants, NEW q \in Participants,
             removeChannelData(id, p, q)
      PROVE  AllGrown
  <2>1. /\ state'[id] = "NonExistent"
        /\ \A i \in ChannelIds \ {id} :
             state'[i] = state[i] /\ settleable_after'[i] = settleable_after[i]
        /\ \A k \in ParticipantKeys \ {<<id, p>>, <<id, q>>} :
             participants'[k] = participants[k]
    BY <1>1, <1>6, RemoveEffect
  <2>2. \A i \in ChannelIds, r \in Participants :
          \/ state'[i] = "NonExistent"
          \/ participants'[<<i, r>>] = participants[<<i, r>>]
    BY <2>1, KeyOf
  <2>3. \A i \in ChannelIds : state'[i] # "NonExistent"
                                => settleable_after'[i] = settleable_after[i]
    BY <2>1
  <2>. QED BY <1>2, <2>2, <2>3, GrownAccount DEF AllGrown
<1>7. CASE WithdrawNext
  <2>1. ASSUME NEW id \in ChannelIds, NEW q \in Participants, NEW m \in WithdrawMessages,
               setTotalWithdraw(id, m.participant, q, m.total_withdraw, m.withdrawable_until)
        PROVE  AllGrown
    <3> DEFINE p == m.participant
    <3>1. /\ p \in Participants
          /\ state[id] = "Opened" /\ UNCHANGED <<state, settleable_after>>
      BY <2>1, MessagesAssumption DEF setTotalWithdraw, withdrawAllowed
    <3>2. /\ Withdrawn(id, p, q)
          /\ \A k \in ParticipantKeys \ {<<id, p>>} : participants'[k] = participants[k]
      BY <1>1, <2>1, WithdrawEffect
    <3>. HIDE DEF p
    <3>3. \A i \in ChannelIds, r \in Participants :
            \/ participants'[<<i, r>>] = participants[<<i, r>>]
            \/ Withdrawn(i, r, q) /\ state[i] # "Closed"
      BY <3>1, <3>2, KeyOf
    <3>. QED BY <1>2, <3>1, <3>3, GrownAccount DEF AllGrown
  <2>2. ASSUME NEW id \in ChannelIds, NEW data1 \in WithdrawInputs,
               NEW data2 \in WithdrawInputs, cooperativeSettle(id, data1, data2)
        PROVE  AllGrown
    BY <1>6, <2>2, WithdrawInputsType DEF cooperativeSettle
  <2>. QED BY <1>7, <2>1, <2>2 DEF WithdrawNext
<1>8. CASE CloseNext
  <2>1. ASSUME NEW id \in ChannelIds, NEW p \in Participants, NEW q \in Participants,
               NEW m \in CounterSignatures, closeChannel(id, p, q, m.balance_hash, m.nonce)
        PROVE  AllGrown
    <3>1. /\ state[id] = "Opened"
          /\ \A i \in ChannelIds \ {id} : settleable_after'[i] = settleable_after[i]
      BY <1>1, <2>1 DEF closeChannel, TypeOK
    <3>2. /\ SameFunds(<<id, q>>)
          /\ participants'[<<id, q>>].nonce = participants[<<id, q>>].nonce
          /\ participants'[<<id, q>>].balance_hash = participants[<<id, q>>].balance_hash
          /\ \/ participants'[<<id, p>>] = participants[<<id, p>>]
             \/ Presented(id, p, q, "BalanceProof")
          /\ \A k \in ParticipantKeys \ {<<id, p>>, <<id, q>>} :
               participants'[k] = participants[k]
      BY <1>1, <2>1, CloseEffect
    <3>3. \A r \in Participants : grown(id, r)
      <4>1. grown(id, p)
        BY <1>2, <3>1, <3>2, GrownAccount
      <4>2. grown(id, q)
        BY <1>2, <3>1, <3>2, GrownAccount
      <4>3. ASSUME NEW r \in Participants \ {p, q} PROVE grown(id, r)
        <5>1. participants'[<<id, r>>] = participants[<<id, r>>]
          BY <3>2, KeyOf
        <5>. QED BY <1>2, <3>1, <5>1, GrownAccount
      <4>. QED BY <4>1, <4>2, <4>3
    <3>4. \A i \in ChannelIds \ {id}, r \in Participants :
            participants'[<<i, r>>] = participants[<<i, r>>]
      BY <3>2, KeyOf
    <3>5. \A i \in ChannelIds \ {id}, r \in Participants : grown(i, r)
      BY <1>2, <3>1, <3>4, GrownAccount
    <3>. QED BY <3>3, <3>5 DEF AllGrown
  <2>2. ASSUME NEW id \in ChannelIds, NEW p \in Participants, NEW q \in Participants,
               NEW m \in BalanceProofs,
               updateNonClosingBalanceProof(id, p, q, m.balance_hash, m.nonce)
        PROVE  AllGrown
    <3>1. participants[<<id, p>>].is_the_closer /\ UNCHANGED <<state, settleable_after>>
      BY <2>2 DEF updateNonClosingBalanceProof, updateAllowed
    <3>2. /\ Presented(id, p, q, "BalanceProofUpdate")
          /\ \A k \in ParticipantKeys \ {<<id, p>>} : participants'[k] = participants[k]
      BY <1>1, <2>2, UpdateEffect
    <3>3. grown(id, p)
      BY <1>2, <3>1, <3>2, GrownAccount
    <3>4. \A i \in ChannelIds, r \in Participants :
            <<i, r>> = <<id, p>> \/ participants'[<<i, r>>] = participants[<<i, r>>]
      BY <3>2, KeyOf
    <3>5. \A i \in ChannelIds, r \in Participants : <<i, r>> # <<id, p>> => grown(i, r)
      BY <1>2, <3>1, <3>4, GrownAccount
    <3>. QED BY <3>3, <3>5 DEF AllGrown
  <2>. QED BY <1>8, <2>1, <2>2 DEF CloseNext
<1>9. ASSUME NEW id \in ChannelIds, settleById(id) PROVE AllGrown
  BY <1>6, <1>9 DEF settleById, settleChannel
<1>10. ASSUME NEW id \in ChannelIds, unlockById(id) PROVE AllGrown
  BY <1>3, <1>10 DEF unlockById, unlock, channelVars
<1>. QED BY <1>4, <1>5, <1>7, <1>8, <1>9, <1>10 DEF Next

\* No call takes back a deposit, a withdraw or a newer balance proof; once a
\* channel is closed only the closer's balance data can still be replaced.
THEOREM AccountsGrowAlways == Spec => AccountsOnlyGrow
<1>1. SafetyInv /\ [Next]_vars => [AllGrown]_vars
  BY GrownStep
<1>2. AllGrown => \A id \in ChannelIds, p \in Participants : grown(id, p)
  BY DEF AllGrown
<1>. QED BY <1>1, <1>2, SafetyInvariance, PTL DEF Spec, AccountsOnlyGrow

-----------------------------------------------------------------------------
(***************************************************************************)
(* What a list of expired locks pays is settled.                           *)
(***************************************************************************)
LEMMA ExpiredLockIsFinal ==
  ASSUME TypeOK, [Next]_vars, NEW lock \in Locks, lock.unlockable_until <= timestamp
  PROVE  getLockedAmountFromLock(lock)' = getLockedAmountFromLock(lock)
<1> DEFINE s == lock.secrethash
<1>1. s \in Secrethashes /\ lock.unlockable_until \in Nat /\ timestamp \in Nat \ {0}
  BY DEF Locks, TypeOK, RegistryTypeOK
<1>2. \/ secrethash_to_timestamp'[s] = secrethash_to_timestamp[s]
      \/ secrethash_to_timestamp[s] = 0 /\ secrethash_to_timestamp'[s] = timestamp
  <2>1. CASE UNCHANGED registryVars
    BY <2>1 DEF registryVars
  <2>2. CASE RegistryNext
    BY <1>1, <2>2
    DEF RegistryNext, NewBlock, registerSecret, registerSecretBatch, registered,
        TypeOK, RegistryTypeOK
  <2>3. CASE ControllerNext \/ UNCHANGED vars
    BY <2>1, <2>3 DEF ControllerNext, deprecate, removeLimits, changeController, vars
  <2>4. CASE FundingNext
    BY <2>1, <2>4
    DEF FundingNext, DirectTransfer, openChannel, openChannelWithDeposit, setTotalDeposit
  <2>5. CASE WithdrawNext
    <3>1. ASSUME NEW id, NEW p, NEW q, NEW total_withdraw, NEW withdrawable_until,
                 setTotalWithdraw(id, p, q, total_withdraw, withdrawable_until)
          PROVE  UNCHANGED registryVars
      BY <3>1 DEF setTotalWithdraw
    <3>2. ASSUME NEW id, NEW data1, NEW data2, cooperativeSettle(id, data1, data2)
          PROVE  UNCHANGED registryVars
      BY <3>2 DEF cooperativeSettle
    <3>. QED BY <2>1, <2>5, <3>1, <3>2 DEF WithdrawNext
  <2>6. CASE CloseNext
    BY <2>1, <2>6 DEF CloseNext, closeChannel, updateNonClosingBalanceProof
  <2>7. ASSUME NEW id \in ChannelIds, settleById(id) PROVE UNCHANGED registryVars
    BY <2>7 DEF settleById, settleChannel
  <2>8. ASSUME NEW id \in ChannelIds, unlockById(id) PROVE UNCHANGED registryVars
    BY <2>8 DEF unlockById, unlock
  <2>. QED BY <2>1, <2>2, <2>3, <2>4, <2>5, <2>6, <2>7, <2>8 DEF Next
<1>. QED
  BY <1>1, <1>2 DEF getLockedAmountFromLock, revealedTooLate, getSecretRevealBlockTime

\* When the last lock of a list has expired, what unlock pays out for it does
\* not change any more: a secret that is registered late is worth nothing.
THEOREM ClaimsFinality == Spec => ClaimsAreFinalAfterExpiry
<1>1. ASSUME TypeOK, [Next]_vars
      PROVE  \A locks \in LockLists :
               (\A i \in DOMAIN locks : locks[i].unlockable_until <= timestamp) =>
                 getUnlockedAmount(locks)' = getUnlockedAmount(locks)
  <2> SUFFICES ASSUME NEW locks \in LockLists,
                      \A i \in DOMAIN locks : locks[i].unlockable_until <= timestamp
               PROVE  getUnlockedAmount(locks)' = getUnlockedAmount(locks)
    OBVIOUS
  <2>1. \A i \in DOMAIN locks : locks[i] \in Locks
    BY MessagesAssumption
  <2>2. \A i \in DOMAIN locks :
          getLockedAmountFromLock(locks[i])' = getLockedAmountFromLock(locks[i])
    BY <1>1, <2>1, ExpiredLockIsFinal
  <2>3. [i \in DOMAIN locks |-> getLockedAmountFromLock(locks[i])]'
          = [i \in DOMAIN locks |-> getLockedAmountFromLock(locks[i])]
    BY <2>2
  <2>. QED BY <2>3 DEF getUnlockedAmount
<1>2. TypeOK /\ [Next]_vars =>
        [\A locks \in LockLists :
           (\A i \in DOMAIN locks : locks[i].unlockable_until <= timestamp) =>
             getUnlockedAmount(locks)' = getUnlockedAmount(locks)]_vars
  BY <1>1
<1>3. Spec => []TypeOK
  BY TypeCorrectness
<1>. QED BY <1>2, <1>3, PTL DEF Spec, ClaimsAreFinalAfterExpiry

-----------------------------------------------------------------------------
(***************************************************************************)
(* The channels as they are seen from outside.                             *)
(***************************************************************************)
lockedFor(id) ==
  \E p, q \in Participants : p # q /\ unlock_data[<<id, p, q>>].locked_amount # 0

lifeOf(id) ==
  IF state[id] = "NonExistent" /\ id <= channel_counter
  THEN IF lockedFor(id) THEN "Settled" ELSE "Removed"
  ELSE state[id]

nonceOf(id, p) == participants[<<id, p>>].nonce

(* Everyone is told the same, and the closer's nonce is what is seen. *)
SeenTruly ==
  \A id \in ChannelIds :
    /\ stateSeen(id) = lifeOf(id)
    /\ closers(id) = {} => nonceSeen(id) = 0
    /\ \A p \in Participants : closers(id) = {p} => nonceSeen(id) = nonceOf(id, p)

LEMMA ChannelsSeen == TypeOK => SeenTruly
<1> SUFFICES ASSUME TypeOK, NEW id \in ChannelIds
             PROVE  /\ stateSeen(id) = lifeOf(id)
                    /\ closers(id) = {} => nonceSeen(id) = 0
                    /\ \A p \in Participants :
                         closers(id) = {p} => nonceSeen(id) = nonceOf(id, p)
  BY DEF SeenTruly
<1>1. \A p, q \in Participants : getChannelState(id, p, q) = getChannelState(id, q, p)
  BY DEF getChannelState
<1>2. ~contradictory(id)
  BY <1>1 DEF contradictory
<1>3. state[id] \in {"NonExistent", "Opened", "Closed"}
  BY DEF TypeOK, ChannelState
<1>4. settledFor(id) <=> (state[id] = "NonExistent" /\ id <= channel_counter /\ lockedFor(id))
  BY <1>3 DEF settledFor, lockedFor, getChannelState
<1>5. stateSeen(id) = lifeOf(id)
  BY <1>2, <1>4 DEF stateSeen, lifeOf
<1>6. closers(id) = {} => nonceSeen(id) = 0
  BY DEF nonceSeen
<1>7. ASSUME NEW p \in Participants, closers(id) = {p} PROVE nonceSeen(id) = nonceOf(id, p)
  <2>1. (CHOOSE r \in closers(id) : TRUE) = p /\ closers(id) # {}
    BY <1>7
  <2>. QED BY <2>1 DEF nonceSeen, nonceOf
<1>. QED BY <1>5, <1>6, <1>7

LEMMA ChannelsSeenNext == TypeOK' => SeenTruly'
BY ChannelsSeen, PTL

(* A step nobody sees anything of in channel id. *)
sameSeen(id) ==
  /\ stateSeen(id)' = stateSeen(id)
  /\ nonceSeen(id)' = nonceSeen(id)
  /\ settleable_after'[id] = settleable_after[id]

LEMMA UnseenStep ==
  ASSUME TypeOK, TypeOK', \A id \in ChannelIds : sameSeen(id)
  PROVE  UNCHANGED Seen!channelsVars
<1>1. \A id \in ChannelIds : /\ stateSeen(id)' = stateSeen(id)
                             /\ nonceSeen(id)' = nonceSeen(id)
  BY DEF sameSeen
<1>2. settleable_after' = settleable_after
  BY DEF sameSeen, TypeOK
<1>3. [id \in ChannelIds |-> stateSeen(id)]' = [id \in ChannelIds |-> stateSeen(id)]
  BY <1>1
<1>4. [id \in ChannelIds |-> nonceSeen(id)]' = [id \in ChannelIds |-> nonceSeen(id)]
  BY <1>1
<1>. QED BY <1>2, <1>3, <1>4 DEF Seen!channelsVars

\* What a channel is seen as depends on its own data only.
LEMMA SameDataSameSeen ==
  ASSUME ClaimsInv, ClaimsInv', NEW id \in ChannelIds,
         state'[id] = state[id], settleable_after'[id] = settleable_after[id],
         state[id] = "NonExistent" =>
           /\ (id <= channel_counter' <=> id <= channel_counter)
           /\ (lockedFor(id)' <=> lockedFor(id)),
         \A p \in Participants : SameClaims(<<id, p>>)
  PROVE  sameSeen(id)
<1>1. /\ closers(id)' = closers(id)
      /\ \A p \in Participants : nonceOf(id, p)' = nonceOf(id, p)
  BY DEF SameClaims, closers, nonceOf
<1>2. SeenTruly /\ SeenTruly'
  BY ChannelsSeen, ChannelsSeenNext DEF ClaimsInv, SafetyInv
<1>3. stateSeen(id)' = stateSeen(id)
  <2>1. lifeOf(id)' = lifeOf(id)
    BY DEF lifeOf
  <2>. QED BY <1>2, <2>1 DEF SeenTruly
<1>4. nonceSeen(id)' = nonceSeen(id)
  <2>1. CASE state[id] = "Closed"
    <3>1. PICK p \in Participants : closers(id) = {p}
      BY <2>1 DEF ClaimsInv, ClosersKnown
    <3>2. nonceSeen(id) = nonceOf(id, p) /\ nonceSeen(id)' = nonceOf(id, p)'
      BY <1>1, <1>2, <3>1 DEF SeenTruly
    <3>. QED BY <1>1, <3>2
  <2>2. CASE state[id] # "Closed"
    <3>1. closers(id) = {}
      BY <2>2 DEF ClaimsInv, ClosersKnown, Blank, closers
    <3>. QED BY <1>1, <1>2, <3>1 DEF SeenTruly
  <2>. QED BY <2>1, <2>2
<1>. QED BY <1>3, <1>4 DEF sameSeen

LEMMA NonceBeforeClosing ==
  ASSUME ClaimsInv, NEW id \in ChannelIds, state[id] # "Closed"
  PROVE  closers(id) = {} /\ nonceSeen(id) = 0
<1>1. closers(id) = {}
  BY DEF ClaimsInv, ClosersKnown, Blank, closers
<1>. QED BY <1>1, ChannelsSeen DEF ClaimsInv, SafetyInv, SeenTruly

\* Steps that change amounts only are not seen.
LEMMA QuietSeen ==
  ASSUME ClaimsInv, ClaimsInv',
         UNCHANGED <<state, settleable_after, channel_counter, unlock_data, timestamp>>,
         \A k \in ParticipantKeys : SameClaims(k)
  PROVE  UNCHANGED <<timestamp, Seen!channelsVars>>
<1>1. ASSUME NEW id \in ChannelIds PROVE sameSeen(id)
  <2>1. lockedFor(id)' <=> lockedFor(id)
    BY DEF lockedFor
  <2>2. \A p \in Participants : SameClaims(<<id, p>>)
    BY KeyOf
  <2>. QED BY <2>1, <2>2, SameDataSameSeen
<1>2. TypeOK /\ TypeOK'
  BY DEF ClaimsInv, SafetyInv
<1>. QED BY <1>1, <1>2, UnseenStep

\* Identifiers are given out in order.
LEMMA OpenSeen ==
  ASSUME ClaimsInv, ClaimsInv', NEW p \in Participants, NEW q \in Participants,
         openedChannel(p, q), NEW id \in ChannelIds, id = channel_counter + 1,
         UNCHANGED <<settleable_after, unlock_data, timestamp>>,
         \A k \in ParticipantKeys : SameClaims(k)
  PROVE  Seen!ChannelsStep
<1>1. SafetyInv /\ TypeOK /\ TypeOK'
  BY DEF ClaimsInv, SafetyInv
<1>2. /\ state[id] = "NonExistent" /\ settleable_after[id] = 0
  BY <1>1, NewChannelIsUnused
<1>3. /\ state'[id] = "Opened" /\ channel_counter' = id
      /\ \A i \in ChannelIds \ {id} : state'[i] = state[i]
      /\ channel_counter \in Nat
  BY <1>1, ConstructorAssumption DEF openedChannel, TypeOK
<1>4. SeenTruly /\ SeenTruly'
  BY <1>1, ChannelsSeen, ChannelsSeenNext
<1>5. stateSeen(id) = "NonExistent"
  BY <1>1, <1>2, <1>3, <1>4 DEF SeenTruly, lifeOf
<1>6. stateSeen(id)' = "Opened"
  <2>1. lifeOf(id)' = "Opened"
    BY <1>3 DEF lifeOf
  <2>. QED BY <1>1, <1>4, <2>1 DEF SeenTruly
<1>7. ASSUME NEW other \in ChannelIds, other < id PROVE stateSeen(other) # "NonExistent"
  <2>1. other <= channel_counter
    BY <1>3, <1>7, ConstructorAssumption DEF ChannelIds
  <2>. QED BY <1>4, <2>1 DEF SeenTruly, lifeOf
<1>8. \A i \in ChannelIds : nonceSeen(i)' = nonceSeen(i)
                            /\ (i # id => stateSeen(i)' = stateSeen(i))
  <2>1. ASSUME NEW i \in ChannelIds \ {id} PROVE sameSeen(i)
    <3>1. /\ i <= channel_counter' <=> i <= channel_counter
          /\ lockedFor(i)' <=> lockedFor(i)
      BY <1>3, ConstructorAssumption DEF ChannelIds, lockedFor
    <3>2. \A r \in Participants : SameClaims(<<i, r>>)
      BY KeyOf
    <3>. QED BY <1>3, <3>1, <3>2, SameDataSameSeen
  <2>2. nonceSeen(id)' = nonceSeen(id)
    <3>1. closers(id) = {} /\ nonceSeen(id) = 0
      BY <1>1, <1>2, NonceBeforeClosing
    <3>2. closers(id)' = {}
      <4>1. closers(id)' = closers(id)
        BY <1>1, KeyOf DEF SameClaims, closers
      <4>. QED BY <3>1, <4>1
    <3>. QED BY <1>1, <1>4, <3>1, <3>2 DEF SeenTruly
  <2>. QED BY <2>1, <2>2 DEF sameSeen
<1>9. Seen!OpenChannel(id)
  BY <1>1, <1>5, <1>6, <1>7, <1>8 DEF Seen!OpenChannel
<1>. QED BY <1>1, <1>9 DEF Seen!ChannelsStep

LEMMA CloseSeen ==
  ASSUME ClaimsInv, ClaimsInv', NEW id \in ChannelIds,
         NEW p \in Participants, NEW q \in Participants, NEW m \in CounterSignatures,
         closeChannel(id, p, q, m.balance_hash, m.nonce)
  PROVE  Seen!CloseChannel(id)
<1>1. /\ SafetyInv /\ TypeOK /\ TypeOK' /\ ClosersKnown /\ p # q
      /\ state[id] = "Opened"
      /\ settleable_after' = [settleable_after EXCEPT ![id] = timestamp + SettleTimeout]
      /\ UNCHANGED <<channel_counter, unlock_data>>
  BY DEF closeChannel, ClaimsInv, SafetyInv
<1>2. /\ state'[id] = "Closed" /\ \A i \in ChannelIds \ {id} : state'[i] = state[i]
  BY <1>1 DEF closeChannel, TypeOK
<1>3. /\ participants'[<<id, q>>].nonce = participants[<<id, q>>].nonce
      /\ \A k \in ParticipantKeys \ {<<id, p>>, <<id, q>>} :
           participants'[k] = participants[k]
  BY <1>1, CloseEffect
<1>4. closers(id)' = {q} /\ closers(id) = {}
  BY <1>1, ClosersAfterClose
<1>5. SeenTruly /\ SeenTruly'
  BY <1>1, ChannelsSeen, ChannelsSeenNext
<1>6. stateSeen(id) = "Opened" /\ stateSeen(id)' = "Closed"
  <2>1. lifeOf(id) = "Opened" /\ lifeOf(id)' = "Closed"
    BY <1>1, <1>2 DEF lifeOf
  <2>. QED BY <1>5, <2>1 DEF SeenTruly
<1>7. nonceSeen(id)' = nonceSeen(id)
  <2>1. nonceSeen(id) = 0 /\ nonceSeen(id)' = nonceOf(id, q)'
    BY <1>4, <1>5 DEF SeenTruly
  <2>2. participants[<<id, q>>].nonce = 0
    BY <1>1 DEF ClosersKnown, Blank
  <2>. QED BY <1>3, <2>1, <2>2 DEF nonceOf
<1>8. ASSUME NEW i \in ChannelIds \ {id} PROVE sameSeen(i)
  <2>1. lockedFor(i)' <=> lockedFor(i)
    BY <1>1 DEF lockedFor
  <2>2. \A r \in Participants : SameClaims(<<i, r>>)
    <3>1. \A r \in Participants : participants'[<<i, r>>] = participants[<<i, r>>]
      BY <1>3, KeyOf
    <3>. QED BY <3>1 DEF SameClaims
  <2>3. settleable_after'[i] = settleable_after[i]
    BY <1>1 DEF TypeOK
  <2>. QED BY <1>1, <1>2, <2>1, <2>2, <2>3, SameDataSameSeen
<1>9. /\ \A i \in ChannelIds : nonceSeen(i)' = nonceSeen(i)
      /\ \A i \in ChannelIds \ {id} : stateSeen(i)' = stateSeen(i)
  BY <1>7, <1>8 DEF sameSeen
<1>. QED BY <1>1, <1>6, <1>9 DEF Seen!CloseChannel

LEMMA UpdateSeen ==
  ASSUME ClaimsInv, ClaimsInv', NEW id \in ChannelIds,
         NEW p \in Participants, NEW q \in Participants, NEW m \in BalanceProofs,
         updateNonClosingBalanceProof(id, p, q, m.balance_hash, m.nonce)
  PROVE  m.nonce \in SignedNonces /\ Seen!UpdateBalanceProof(id, m.nonce)
<1>1. /\ SafetyInv /\ TypeOK /\ TypeOK' /\ ClosersKnown
      /\ state[id] = "Closed" /\ m.nonce > 0 /\ participants[<<id, p>>].is_the_closer
      /\ m.nonce > participants[<<id, p>>].nonce
      /\ UNCHANGED <<state, settleable_after, channel_counter, unlock_data>>
  BY DEF updateNonClosingBalanceProof, updateAllowed, newerNonce, ClaimsInv, SafetyInv
<1>2. /\ participants'[<<id, p>>].nonce = m.nonce
      /\ \A k \in ParticipantKeys \ {<<id, p>>} : participants'[k] = participants[k]
  BY <1>1, UpdateEffect
<1>3. closers(id) = {p} /\ closers(id)' = {p}
  <2>1. closers(id)' = closers(id)
    BY <1>1, ClosersAfterUpdate
  <2>2. p \in closers(id) /\ \E r \in Participants : closers(id) = {r}
    BY <1>1 DEF closers, ClosersKnown
  <2>. QED BY <2>1, <2>2
<1>4. SeenTruly /\ SeenTruly'
  BY <1>1, ChannelsSeen, ChannelsSeenNext
<1>5. nonceSeen(id) = participants[<<id, p>>].nonce /\ nonceSeen(id)' = m.nonce
  BY <1>2, <1>3, <1>4 DEF SeenTruly, nonceOf
<1>6. stateSeen(id) = "Closed" /\ stateSeen(id)' = "Closed"
  <2>1. lifeOf(id) = "Closed" /\ lifeOf(id)' = "Closed"
    BY <1>1 DEF lifeOf
  <2>. QED BY <1>4, <2>1 DEF SeenTruly
<1>7. ASSUME NEW i \in ChannelIds \ {id} PROVE sameSeen(i)
  <2>1. lockedFor(i)' <=> lockedFor(i)
    BY <1>1 DEF lockedFor
  <2>2. \A r \in Participants : SameClaims(<<i, r>>)
    <3>1. \A r \in Participants : participants'[<<i, r>>] = participants[<<i, r>>]
      BY <1>2, KeyOf
    <3>. QED BY <3>1 DEF SameClaims
  <2>. QED BY <1>1, <2>1, <2>2, SameDataSameSeen
<1>8. /\ \A i \in ChannelIds : stateSeen(i)' = stateSeen(i)
      /\ \A i \in ChannelIds \ {id} : nonceSeen(i)' = nonceSeen(i)
  BY <1>6, <1>7 DEF sameSeen
<1>9. m.nonce \in SignedNonces
  BY <1>1, MessagesAssumption DEF SignedNonces
<1>. QED BY <1>1, <1>5, <1>6, <1>8, <1>9 DEF Seen!UpdateBalanceProof, Seen!newerProof

LEMMA LockedElsewhere ==
  ASSUME NEW id \in ChannelIds, NEW i \in ChannelIds \ {id},
         \A u \in UnlockIdentifiers : u[1] # id => unlock_data'[u] = unlock_data[u]
  PROVE  lockedFor(i)' <=> lockedFor(i)
<1>1. \A r, s \in Participants : unlock_data'[<<i, r, s>>] = unlock_data[<<i, r, s>>]
  BY DEF UnlockIdentifiers
<1>. QED BY <1>1 DEF lockedFor

LEMMA RemoveSeen ==
  ASSUME ClaimsInv, ClaimsInv', NEW id \in ChannelIds,
         NEW p \in Participants, NEW q \in Participants, p # q,
         id = getChannelIdentifier(p, q), removeChannelData(id, p, q),
         \A u \in UnlockIdentifiers : u[1] # id => unlock_data'[u] = unlock_data[u]
  PROVE  /\ \A i \in ChannelIds \ {id} : sameSeen(i)
         /\ nonceSeen(id)' = 0
         /\ stateSeen(id)' = IF lockedFor(id)' THEN "Settled" ELSE "Removed"
         /\ stateSeen(id) = state[id]
<1>1. SafetyInv /\ TypeOK /\ TypeOK' /\ ClosersKnown
  BY DEF ClaimsInv, SafetyInv
<1>2. SeenTruly /\ SeenTruly'
  BY <1>1, ChannelsSeen, ChannelsSeenNext
<1>3. /\ \A k \in ParticipantKeys \ {<<id, p>>, <<id, q>>} :
           participants'[k] = participants[k]
      /\ state'[id] = "NonExistent"
      /\ \A i \in ChannelIds \ {id} :
           state'[i] = state[i] /\ settleable_after'[i] = settleable_after[i]
      /\ channel_counter' = channel_counter
  <2>1. channel_counter' = channel_counter
    BY DEF removeChannelData
  <2>. QED BY <1>1, <2>1, RemoveEffect, Zenon
<1>4. closers(id)' = {}
  BY <1>1, ClosersAfterRemove
<1>5. id <= channel_counter /\ state[id] # "NonExistent"
  <2>1. {p, q} \in Pairs /\ ChannelOf({p, q}) = id /\ id # 0
    BY PairOf, ConstructorAssumption
    DEF getChannelIdentifier, getParticipantsHash, ChannelOf, ChannelIds
  <2>. QED BY <1>1, <2>1, LiveChannel DEF SafetyInv
<1>6. /\ lifeOf(id) = state[id]
      /\ lifeOf(id)' = IF lockedFor(id)' THEN "Settled" ELSE "Removed"
  BY <1>3, <1>5 DEF lifeOf
<1>7. ASSUME NEW i \in ChannelIds \ {id} PROVE sameSeen(i)
  <2>1. lockedFor(i)' <=> lockedFor(i)
    BY LockedElsewhere
  <2>2. \A r \in Participants : SameClaims(<<i, r>>)
    <3>1. \A r \in Participants : participants'[<<i, r>>] = participants[<<i, r>>]
      BY <1>3, KeyOf
    <3>. QED BY <3>1 DEF SameClaims
  <2>. QED BY <1>3, <2>1, <2>2, SameDataSameSeen
<1>8. stateSeen(id) = lifeOf(id) /\ stateSeen(id)' = lifeOf(id)'
  BY <1>2 DEF SeenTruly
<1>9. nonceSeen(id)' = 0
  BY <1>2, <1>4 DEF SeenTruly
<1>. QED BY <1>6, <1>7, <1>8, <1>9

LEMMA CooperativeSeen ==
  ASSUME ClaimsInv, ClaimsInv', NEW id \in ChannelIds, NEW data1 \in WithdrawInputs,
         NEW data2 \in WithdrawInputs, cooperativeSettle(id, data1, data2)
  PROVE  Seen!CooperativeSettle(id)
<1> DEFINE p == data1.participant
           q == data2.participant
<1>1. /\ p \in Participants /\ q \in Participants /\ p # q
      /\ id = getChannelIdentifier(p, q) /\ removeChannelData(id, p, q)
      /\ unlock_data' = unlock_data /\ state[id] = "Opened"
      /\ settleable_after' = [settleable_after EXCEPT ![id] = 0]
  BY WithdrawInputsType DEF cooperativeSettle, removeChannelData
<1>. HIDE DEF p, q
<1>2. SafetyInv /\ TypeOK
  BY DEF ClaimsInv, SafetyInv
<1>3. /\ \A i \in ChannelIds \ {id} : sameSeen(i)
      /\ nonceSeen(id)' = 0
      /\ stateSeen(id)' = IF lockedFor(id)' THEN "Settled" ELSE "Removed"
      /\ stateSeen(id) = state[id]
  BY <1>1, RemoveSeen
<1>4. nonceSeen(id) = 0
  BY <1>1, NonceBeforeClosing
<1>5. ~lockedFor(id)'
  <2>1. \A u \in UnlockIdentifiers : u[1] = id => unlock_data[u] = NoUnlockData
    BY <1>1, <1>2 DEF SafetyInv, NothingLeftBehind
  <2>2. \A r, s \in Participants : unlock_data'[<<id, r, s>>].locked_amount = 0
    BY <1>1, <2>1 DEF UnlockIdentifiers, NoUnlockData
  <2>. QED BY <2>2 DEF lockedFor
<1>6. settleable_after' = settleable_after
  <2>1. settleable_after[id] = 0
    BY <1>1, <1>2 DEF SafetyInv, NothingLeftBehind
  <2>. QED BY <1>1, <1>2, <2>1 DEF TypeOK
<1>7. /\ \A i \in ChannelIds : nonceSeen(i)' = nonceSeen(i)
      /\ \A i \in ChannelIds \ {id} : stateSeen(i)' = stateSeen(i)
      /\ stateSeen(id) = "Opened" /\ stateSeen(id)' = "Removed"
  BY <1>1, <1>3, <1>4, <1>5 DEF sameSeen
<1>. QED BY <1>6, <1>7 DEF Seen!CooperativeSettle

LEMMA SettleSeen ==
  ASSUME ClaimsInv, ClaimsInv', NEW id \in ChannelIds,
         NEW p \in Participants, NEW q \in Participants,
         NEW data1 \in BalanceData, NEW data2 \in BalanceData,
         settleChannel(id, p, data1, q, data2)
  PROVE  Seen!Settle(id)
<1>1. /\ p # q /\ id = getChannelIdentifier(p, q) /\ removeChannelData(id, p, q)
      /\ state[id] = "Closed" /\ settleable_after[id] < timestamp
      /\ settleable_after' = [settleable_after EXCEPT ![id] = 0]
  BY DEF settleChannel, settleAllowed, windowOver, removeChannelData
<1>2. \A k \in UnlockIdentifiers \ {<<id, p, q>>, <<id, q, p>>} :
        unlock_data'[k] = unlock_data[k]
  BY SettleEffect DEF ClaimsInv
<1>3. \A u \in UnlockIdentifiers : u[1] # id => unlock_data'[u] = unlock_data[u]
  BY <1>2
<1>4. /\ \A i \in ChannelIds \ {id} : sameSeen(i)
      /\ nonceSeen(id)' = 0
      /\ stateSeen(id)' \in {"Settled", "Removed"}
      /\ stateSeen(id) = "Closed"
  BY <1>1, <1>3, RemoveSeen
<1>5. /\ \A i \in ChannelIds \ {id} : nonceSeen(i)' = nonceSeen(i)
      /\ \A i \in ChannelIds \ {id} : stateSeen(i)' = stateSeen(i)
  BY <1>4 DEF sameSeen
<1>. QED BY <1>1, <1>4, <1>5 DEF Seen!Settle

\* The last of a settlement's locked amounts, or one of two.
LEMMA UnlockSeen ==
  ASSUME ClaimsInv, ClaimsInv', NEW id \in ChannelIds,
         NEW p \in Participants, NEW q \in Participants, NEW locks,
         unlock(id, p, q, locks)
  PROVE  Seen!UnlockLast(id) \/ UNCHANGED Seen!channelsVars
<1> DEFINE u == <<id, q, p>>
<1>1. /\ p # q /\ state[id] = "NonExistent" /\ unlock_data[u].locked_amount > 0
      /\ UNCHANGED channelVars /\ SafetyInv /\ TypeOK /\ TypeOK'
  BY DEF unlock, unlockAllowed, getUnlockIdentifier, ClaimsInv, SafetyInv
<1>2. /\ u \in UnlockIdentifiers
      /\ \A k \in UnlockIdentifiers \ {u} : unlock_data'[k] = unlock_data[k]
  BY <1>1, UnlockKeyOf DEF unlock, deletedUnlockData, getUnlockIdentifier, TypeOK
<1>3. id <= channel_counter
  BY <1>1, <1>2 DEF SafetyInv, NothingLeftBehind, NoUnlockData
<1>4. SeenTruly /\ SeenTruly'
  BY <1>1, ChannelsSeen, ChannelsSeenNext
<1>5. lockedFor(id)
  BY <1>1 DEF lockedFor
<1>6. /\ stateSeen(id) = "Settled"
      /\ stateSeen(id)' = IF lockedFor(id)' THEN "Settled" ELSE "Removed"
  <2>1. /\ lifeOf(id) = "Settled"
        /\ lifeOf(id)' = IF lockedFor(id)' THEN "Settled" ELSE "Removed"
    BY <1>1, <1>3, <1>5 DEF lifeOf, channelVars
  <2>. QED BY <1>4, <2>1 DEF SeenTruly
<1>7. /\ \A r \in Participants, i \in ChannelIds : SameClaims(<<i, r>>)
      /\ state' = state /\ settleable_after' = settleable_after
      /\ channel_counter' = channel_counter
  BY <1>1 DEF SameClaims, channelVars
<1>8. ASSUME NEW i \in ChannelIds \ {id} PROVE sameSeen(i)
  <2>1. \A k \in UnlockIdentifiers : k[1] # id => unlock_data'[k] = unlock_data[k]
    <3>1. u[1] = id
      OBVIOUS
    <3>. HIDE DEF u
    <3>. QED BY <1>2, <3>1
  <2>2. lockedFor(i)' <=> lockedFor(i)
    BY <2>1, LockedElsewhere
  <2>3. /\ state'[i] = state[i] /\ settleable_after'[i] = settleable_after[i]
        /\ i <= channel_counter' <=> i <= channel_counter
        /\ \A r \in Participants : SameClaims(<<i, r>>)
    BY <1>7
  <2>4. ClaimsInv /\ ClaimsInv' /\ i \in ChannelIds
    OBVIOUS
  <2>. QED BY <2>2, <2>3, <2>4, SameDataSameSeen, Zenon
<1>9. nonceSeen(id)' = nonceSeen(id)
  <2>1. closers(id) = {} /\ nonceSeen(id) = 0
    BY <1>1, NonceBeforeClosing
  <2>2. closers(id)' = {} /\ nonceSeen(id)' = 0
    BY <1>1, <1>4, <2>1 DEF closers, SeenTruly, channelVars
  <2>. QED BY <2>1, <2>2
<1>10. CASE lockedFor(id)'
  <2>1. \A i \in ChannelIds : sameSeen(i)
    BY <1>6, <1>7, <1>8, <1>9, <1>10 DEF sameSeen
  <2>. QED BY <1>1, <2>1, UnseenStep
<1>11. CASE ~lockedFor(id)'
  <2>1. /\ \A i \in ChannelIds : nonceSeen(i)' = nonceSeen(i)
        /\ \A i \in ChannelIds \ {id} : stateSeen(i)' = stateSeen(i)
        /\ stateSeen(id)' = "Removed"
    BY <1>6, <1>8, <1>9, <1>11 DEF sameSeen
  <2>. QED BY <1>6, <1>7, <2>1 DEF Seen!UnlockLast
<1>. QED BY <1>10, <1>11

LEMMA InitSeen == Init => Seen!ClockInit /\ Seen!ChannelsInit
<1> SUFFICES ASSUME Init PROVE Seen!ClockInit /\ Seen!ChannelsInit
  OBVIOUS
<1>1. TypeOK /\ ClaimsInv /\ SeenTruly
  BY InitType, InitClaims, ChannelsSeen
<1>2. \A id \in ChannelIds : stateSeen(id) = "NonExistent" /\ nonceSeen(id) = 0
  <2>1. ASSUME NEW id \in ChannelIds PROVE lifeOf(id) = "NonExistent" /\ state[id] # "Closed"
    BY ConstructorAssumption DEF Init, lifeOf, ChannelIds
  <2>. QED BY <1>1, <2>1, NonceBeforeClosing DEF SeenTruly
<1>3. timestamp = 1 /\ settleable_after = [id \in ChannelIds |-> 0]
  BY DEF Init, RegistryInit
<1>. QED BY <1>2, <1>3 DEF Seen!ClockInit, Seen!ChannelsInit

LEMMA StepSeen ==
  ASSUME ClaimsInv, ClaimsInv', [Next]_vars
  PROVE  [Seen!ChannelsNext]_<<timestamp, Seen!channelsVars>>
<1>1. SafetyInv /\ TypeOK /\ TypeOK'
  BY DEF ClaimsInv, SafetyInv
<1>2. ASSUME UNCHANGED <<state, settleable_after, channel_counter, unlock_data, participants>>
      PROVE  UNCHANGED Seen!channelsVars
  <2>1. ASSUME NEW id \in ChannelIds PROVE sameSeen(id)
    <3>1. lockedFor(id)' <=> lockedFor(id)
      BY <1>2 DEF lockedFor
    <3>2. \A r \in Participants : SameClaims(<<id, r>>)
      BY <1>2 DEF SameClaims
    <3>. QED BY <1>2, <3>1, <3>2, SameDataSameSeen
  <2>. QED BY <1>1, <2>1, UnseenStep
<1>3. CASE RegistryNext
  <2>1. UNCHANGED Seen!channelsVars
    BY <1>2, <1>3 DEF RegistryNext, channelVars
  <2>2. Seen!NextBlock \/ UNCHANGED timestamp
    BY <1>3 DEF RegistryNext, NewBlock, registerSecret, registerSecretBatch, Seen!NextBlock
  <2>. QED BY <2>1, <2>2 DEF Seen!ChannelsNext
<1>4. CASE ControllerNext \/ UNCHANGED vars
  <2>1. UNCHANGED Seen!channelsVars /\ UNCHANGED timestamp
    BY <1>2, <1>4 DEF ControllerNext, deprecate, removeLimits, changeController,
                      channelVars, registryVars, vars
  <2>. QED BY <2>1
<1>5. CASE FundingNext
  <2>1. UNCHANGED timestamp
    BY <1>5 DEF FundingNext, DirectTransfer, openChannel, openChannelWithDeposit,
                setTotalDeposit, registryVars
  <2>2. ASSUME NEW owner \in Participants, DirectTransfer(owner)
        PROVE  UNCHANGED Seen!channelsVars
    BY <1>2, <2>2 DEF DirectTransfer, channelVars
  <2>3. ASSUME NEW p \in Participants, NEW q \in Participants, openChannel(p, q)
        PROVE  Seen!ChannelsStep
    <3>1. /\ openedChannel(p, q) /\ UNCHANGED <<participants, settleable_after, unlock_data>>
      BY <2>3 DEF openChannel
    <3>2. \A k \in ParticipantKeys : SameClaims(k)
      BY <3>1 DEF SameClaims
    <3>3. channel_counter + 1 \in ChannelIds
      BY <1>1, <3>1, OpenedChannelType
    <3>. QED BY <2>1, <3>1, <3>2, <3>3, OpenSeen
  <2>4. ASSUME NEW p \in Participants, NEW q \in Participants, NEW owner \in Participants,
               NEW total_deposit \in Amounts, openChannelWithDeposit(p, q, total_deposit, owner)
        PROVE  Seen!ChannelsStep
    <3>1. /\ openedChannel(p, q) /\ UNCHANGED <<settleable_after, unlock_data>>
          /\ setTotalDepositFor(channel_counter + 1, p, total_deposit, q, owner)
      BY <2>4 DEF openChannelWithDeposit
    <3>2. channel_counter + 1 \in ChannelIds
      BY <1>1, <3>1, OpenedChannelType
    <3>3. \A k \in ParticipantKeys : SameClaims(k)
      BY <1>1, <3>1, <3>2, DepositEffect DEF Funded, SameClaims
    <3>. QED BY <2>1, <3>1, <3>2, <3>3, OpenSeen
  <2>5. ASSUME NEW id \in ChannelIds, NEW p \in Participants, NEW q \in Participants,
               NEW owner \in Participants, NEW total_deposit \in Amounts,
               setTotalDeposit(id, p, total_deposit, q, owner)
        PROVE  UNCHANGED <<timestamp, Seen!channelsVars>>
    <3>1. /\ setTotalDepositFor(id, p, total_deposit, q, owner)
          /\ UNCHANGED <<state, settleable_after, channel_counter, unlock_data>>
      BY <2>5 DEF setTotalDeposit
    <3>2. \A k \in ParticipantKeys : SameClaims(k)
      BY <1>1, <3>1, DepositEffect DEF Funded, SameClaims
    <3>. QED BY <2>1, <3>1, <3>2, QuietSeen
  <2>. QED BY <1>5, <2>1, <2>2, <2>3, <2>4, <2>5 DEF FundingNext, Seen!ChannelsNext
<1>6. CASE WithdrawNext
  <2>1. UNCHANGED timestamp
    <3>1. ASSUME NEW id \in ChannelIds, NEW q \in Participants, NEW m \in WithdrawMessages,
                 setTotalWithdraw(id, m.participant, q, m.total_withdraw, m.withdrawable_until)
          PROVE  UNCHANGED timestamp
      BY <3>1 DEF setTotalWithdraw, registryVars
    <3>2. ASSUME NEW id \in ChannelIds, NEW data1 \in WithdrawInputs,
                 NEW data2 \in WithdrawInputs, cooperativeSettle(id, data1, data2)
          PROVE  UNCHANGED timestamp
      BY <3>2 DEF cooperativeSettle, registryVars
    <3>. QED BY <1>6, <3>1, <3>2 DEF WithdrawNext
  <2>2. ASSUME NEW id \in ChannelIds, NEW q \in Participants, NEW m \in WithdrawMessages,
               setTotalWithdraw(id, m.participant, q, m.total_withdraw, m.withdrawable_until)
        PROVE  UNCHANGED <<timestamp, Seen!channelsVars>>
    <3>1. UNCHANGED <<state, settleable_after, channel_counter, unlock_data>>
      BY <2>2 DEF setTotalWithdraw
    <3>2. \A k \in ParticipantKeys : SameClaims(k)
      BY <1>1, <2>2, WithdrawEffect DEF Withdrawn, SameClaims
    <3>. QED BY <2>1, <3>1, <3>2, QuietSeen
  <2>3. ASSUME NEW id \in ChannelIds, NEW data1 \in WithdrawInputs,
               NEW data2 \in WithdrawInputs, cooperativeSettle(id, data1, data2)
        PROVE  Seen!ChannelsStep
    BY <2>3, CooperativeSeen DEF Seen!ChannelsStep
  <2>. QED BY <1>6, <2>1, <2>2, <2>3 DEF WithdrawNext, Seen!ChannelsNext
<1>7. CASE CloseNext
  <2>1. UNCHANGED timestamp
    BY <1>7 DEF CloseNext, closeChannel, updateNonClosingBalanceProof, registryVars
  <2>2. Seen!ChannelsStep
    BY <1>7, CloseSeen, UpdateSeen DEF CloseNext, Seen!ChannelsStep
  <2>. QED BY <2>1, <2>2 DEF Seen!ChannelsNext
<1>8. ASSUME NEW id \in ChannelIds, settleById(id) PROVE Seen!ChannelsNext
  <2>1. UNCHANGED timestamp
    BY <1>8 DEF settleById, settleChannel, registryVars
  <2>2. Seen!Settle(id)
    BY <1>8, SettleSeen DEF settleById
  <2>. QED BY <2>1, <2>2 DEF Seen!ChannelsNext, Seen!ChannelsStep
<1>9. ASSUME NEW id \in ChannelIds, unlockById(id)
      PROVE  Seen!ChannelsNext \/ UNCHANGED <<timestamp, Seen!channelsVars>>
  <2>1. UNCHANGED timestamp
    BY <1>9 DEF unlockById, unlock, registryVars
  <2>2. Seen!UnlockLast(id) \/ UNCHANGED Seen!channelsVars
    BY <1>9, UnlockSeen DEF unlockById
  <2>. QED BY <2>1, <2>2 DEF Seen!ChannelsNext, Seen!ChannelsStep
<1>. QED BY <1>3, <1>4, <1>5, <1>6, <1>7, <1>8, <1>9 DEF Next

\* The contract implements Channels: seen from outside, a channel's state moves
\* one way, the closer's nonce only grows until the settlement, and the
\* settlement comes once, after the whole window.
THEOREM ChannelsRefinement == Spec => ImplementsChannels
<1>1. ClaimsInv /\ ClaimsInv' /\ [Next]_vars
        => [Seen!ChannelsNext]_<<timestamp, Seen!channelsVars>>
  BY StepSeen
<1>. QED BY <1>1, InitSeen, ClaimsInvariance, PTL DEF Spec, ImplementsChannels, Seen!ChannelsSpec

-----------------------------------------------------------------------------
(***************************************************************************)
(* Tokens are only ever moved, and the contract never owes more than its   *)
(* limit.  withinNetworkLimit adds in wrapping arithmetic: it is the       *)
(* token's supply, a uint256, that keeps the sum from wrapping.            *)
(***************************************************************************)
SupplyConserved == Total(token) = Total(InitialTokens)

FundsInv == TypeOK /\ SupplyConserved /\ OwedWithinLimit

LEMMA AddressesFinite == IsFiniteSet(Addresses)
BY ConstructorAssumption, FS_Singleton, FS_Union DEF Addresses

LEMMA MoveConserves ==
  ASSUME NEW S, IsFiniteSet(S), NEW f \in [S -> Nat], NEW g \in [S -> Nat],
         NEW x \in S, NEW z \in S, x # z,
         g[x] + g[z] = f[x] + f[z], \A y \in S \ {x, z} : g[y] = f[y]
  PROVE  Total(g) = Total(f)
<1>1. Total(g) = Total(f) - f[x] - f[z] + g[x] + g[z]
  BY TotalUpdate2
<1>2. /\ Total(f) \in Nat /\ f[x] \in Nat /\ f[z] \in Nat
      /\ g[x] \in Nat /\ g[z] \in Nat
  BY TotalIsNat
<1>. QED BY <1>1, <1>2

LEMMA TransferConserves ==
  ASSUME TypeOK, NEW owner \in Participants, NEW amount \in Nat,
         transferFrom(owner, amount)
  PROVE  Total(token') = Total(token)
<1>1. /\ owner \in Addresses /\ this \in Addresses /\ owner # this
      /\ token \in [Addresses -> Nat] /\ token' \in [Addresses -> Nat]
  BY ConstructorAssumption, TransferFromIsBalances DEF TypeOK, Addresses
<1>2. /\ token'[this] + token'[owner] = token[this] + token[owner]
      /\ \A a \in Addresses \ {this, owner} : token'[a] = token[a]
  BY <1>1 DEF transferFrom
<1>3. \A a \in Addresses \ {this, owner} : token'[a] = token[a]
  BY <1>2
<1>. QED BY <1>1, <1>2, <1>3, AddressesFinite, MoveConserves

LEMMA PaymentConserves ==
  ASSUME TypeOK, NEW p \in Participants, NEW q \in Participants,
         NEW a \in Nat, NEW b \in Nat, token[this] >= a + b, token' = paid(p, a, q, b)
  PROVE  Total(token') = Total(token)
<1> DEFINE half == [x \in Addresses |-> token[x] + (IF x = p THEN a ELSE 0)
                                                 - (IF x = this THEN a ELSE 0)]
<1>1. /\ p \in Addresses /\ q \in Addresses /\ this \in Addresses
      /\ p # this /\ q # this /\ token \in [Addresses -> Nat]
  BY ConstructorAssumption DEF TypeOK, Addresses
<1>2. /\ half \in [Addresses -> Nat]
      /\ half[p] + half[this] = token[p] + token[this] /\ half[this] = token[this] - a
      /\ \A x \in Addresses \ {p, this} : half[x] = token[x]
  BY <1>1
<1>3. token' \in [Addresses -> Nat]
  BY PaidIsBalances
<1>4. /\ token'[q] + token'[this] = half[q] + half[this]
      /\ \A x \in Addresses \ {q, this} : token'[x] = half[x]
  BY <1>1 DEF paid
<1>. HIDE DEF half
<1>5. Total(half) = Total(token)
  <2>1. \A x \in Addresses \ {p, this} : half[x] = token[x]
    BY <1>2
  <2>. QED BY <1>1, <1>2, <2>1, AddressesFinite, MoveConserves
<1>6. Total(token') = Total(half)
  <2>1. \A x \in Addresses \ {q, this} : token'[x] = half[x]
    BY <1>4
  <2>. QED BY <1>1, <1>2, <1>3, <1>4, <2>1, AddressesFinite, MoveConserves
<1>. QED BY <1>5, <1>6

LEMMA TwoTermsWithinTotal ==
  ASSUME NEW S, IsFiniteSet(S), NEW f \in [S -> Nat], NEW x \in S, NEW z \in S, x # z
  PROVE  f[x] + f[z] <= Total(f)
<1> DEFINE g == [f EXCEPT ![x] = 0]
<1>1. /\ g \in [S -> Nat] /\ g[x] = 0 /\ g[z] = f[z]
      /\ \A y \in S \ {x} : g[y] = f[y]
  OBVIOUS
<1>. HIDE DEF g
<1>2. Total(g) = Total(f) - f[x] + g[x]
  BY <1>1, TotalUpdate
<1>3. g[z] <= Total(g)
  BY <1>1, TermWithinTotal
<1>4. Total(f) \in Nat /\ f[x] \in Nat /\ f[z] \in Nat
  BY TotalIsNat
<1>. QED BY <1>1, <1>2, <1>3, <1>4

(* The four things a step does to the contract's tokens. *)
Deposited ==
  \E owner \in Participants, added \in Nat :
    /\ transferFrom(owner, added) /\ withinNetworkLimit(added)
    /\ UNCHANGED <<stuck, configVars>>

PaidOut ==
  \E p, q \in Participants, a, b \in Nat :
    /\ token[this] >= a + b /\ token' = paid(p, a, q, b)
    /\ UNCHANGED <<stuck, configVars>>

Reconfigured ==
  /\ UNCHANGED <<token, stuck>>
  /\ token_network_deposit_limit' \in {token_network_deposit_limit, MAX_SAFE_UINT256}

Donated == \E owner \in Participants : DirectTransfer(owner)

LEMMA DepositStep ==
  ASSUME TypeOK, NEW id \in ChannelIds, NEW p \in Participants, NEW q \in Participants,
         NEW owner \in Participants, NEW total_deposit \in Amounts,
         setTotalDepositFor(id, p, total_deposit, q, owner),
         UNCHANGED <<stuck, configVars>>
  PROVE  Deposited
<1> DEFINE added == Wrap(total_deposit - participants[<<id, p>>].deposit)
<1>1. total_deposit \in Int /\ participants[<<id, p>>].deposit \in Int
  BY KeyOf, ConstructorAssumption, MaxIsNat DEF TypeOK, Participant, Uint
<1>2. added \in Nat
  BY <1>1, WrapIsUint, MaxIsNat DEF Uint
<1>. QED BY <1>2 DEF setTotalDepositFor, Deposited

LEMMA FundsStepKinds ==
  ASSUME TypeOK, [Next]_vars
  PROVE  Deposited \/ PaidOut \/ Reconfigured \/ Donated
<1>1. CASE RegistryNext \/ ControllerNext \/ CloseNext \/ UNCHANGED vars
  BY <1>1 DEF RegistryNext, ControllerNext, deprecate, removeLimits, changeController,
              CloseNext, closeChannel, updateNonClosingBalanceProof, vars, configVars,
              Reconfigured
<1>2. CASE FundingNext
  <2>1. ASSUME NEW owner \in Participants, DirectTransfer(owner) PROVE Donated
    BY <2>1 DEF Donated
  <2>2. ASSUME NEW p \in Participants, NEW q \in Participants, openChannel(p, q)
        PROVE  Reconfigured
    BY <2>2 DEF openChannel, configVars, Reconfigured
  <2>3. ASSUME NEW p \in Participants, NEW q \in Participants, NEW owner \in Participants,
               NEW total_deposit \in Amounts, openChannelWithDeposit(p, q, total_deposit, owner)
        PROVE  Deposited
    <3>1. channel_counter + 1 \in ChannelIds
      BY <2>3, OpenedChannelType DEF openChannelWithDeposit
    <3>. QED BY <2>3, <3>1, DepositStep DEF openChannelWithDeposit
  <2>4. ASSUME NEW id \in ChannelIds, NEW p \in Participants, NEW q \in Participants,
               NEW owner \in Participants, NEW total_deposit \in Amounts,
               setTotalDeposit(id, p, total_deposit, q, owner)
        PROVE  Deposited
    BY <2>4, DepositStep DEF setTotalDeposit
  <2>. QED BY <1>2, <2>1, <2>2, <2>3, <2>4 DEF FundingNext
<1>3. CASE WithdrawNext
  <2>1. ASSUME NEW id \in ChannelIds, NEW q \in Participants, NEW m \in WithdrawMessages,
               setTotalWithdraw(id, m.participant, q, m.total_withdraw, m.withdrawable_until)
        PROVE  PaidOut
    <3> DEFINE p == m.participant
               current == m.total_withdraw - participants[<<id, p>>].withdrawn_amount
    <3>1. /\ p \in Participants /\ m.total_withdraw \in Uint
          /\ participants[<<id, p>>] \in Participant
      BY KeyOf, MessagesAssumption DEF TypeOK
    <3>2. /\ token[this] >= current /\ token' = paid(p, current, p, 0)
          /\ UNCHANGED <<stuck, configVars>>
          /\ m.total_withdraw > participants[<<id, p>>].withdrawn_amount
      BY <2>1 DEF setTotalWithdraw, withdrawAllowed
    <3>3. current \in Nat /\ current + 0 = current
      BY <3>1, <3>2, MaxIsNat DEF Participant, Uint
    <3>. HIDE DEF p, current
    <3>. QED BY <3>1, <3>2, <3>3 DEF PaidOut
  <2>2. ASSUME NEW id \in ChannelIds, NEW data1 \in WithdrawInputs,
               NEW data2 \in WithdrawInputs, cooperativeSettle(id, data1, data2)
        PROVE  PaidOut
    <3>1. /\ data1.participant \in Participants /\ data2.participant \in Participants
          /\ UNCHANGED <<stuck, configVars>>
      BY <2>2, WithdrawInputsType DEF cooperativeSettle
    <3>2. \E a, b \in Nat : /\ token[this] >= a + b
                            /\ token' = paid(data1.participant, a, data2.participant, b)
      BY <2>2, CooperativeAmounts
    <3>. QED BY <3>1, <3>2 DEF PaidOut
  <2>. QED BY <1>3, <2>1, <2>2 DEF WithdrawNext
<1>4. ASSUME NEW id \in ChannelIds, settleById(id) PROVE PaidOut
  <2>1. PICK p, q \in Participants, data1, data2 \in BalanceData :
          settleChannel(id, p, data1, q, data2)
    BY <1>4 DEF settleById
  <2> DEFINE x == getSettleTransferAmounts(
                    participants[<<id, p>>], data1.transferred_amount, data1.locked_amount,
                    participants[<<id, q>>], data2.transferred_amount, data2.locked_amount)
  <2>2. /\ settleAllowed(id, p, data1, q, data2) /\ token' = paid(p, x.S1, q, x.S2)
        /\ UNCHANGED <<stuck, configVars>>
    BY <2>1 DEF settleChannel
  <2>3. x.S1 \in Nat /\ x.S2 \in Nat /\ token[this] >= x.S1 + x.S2
    BY <2>2, SettleAmounts
  <2>. HIDE DEF x
  <2>. QED BY <2>2, <2>3 DEF PaidOut
<1>5. ASSUME NEW id \in ChannelIds, unlockById(id) PROVE PaidOut
  <2>1. PICK p, q \in Participants, locks \in LockLists : unlock(id, p, q, locks)
    BY <1>5 DEF unlockById
  <2>2. \E a, b \in Nat : token[this] >= a + b /\ token' = paid(p, a, q, b)
    BY <2>1, UnlockAmounts
  <2>3. UNCHANGED <<stuck, configVars>>
    BY <2>1 DEF unlock
  <2>. QED BY <2>2, <2>3 DEF PaidOut
<1>. QED BY <1>1, <1>2, <1>3, <1>4, <1>5 DEF Next

LEMMA FundsStep == FundsInv /\ [Next]_vars => FundsInv'
<1> SUFFICES ASSUME FundsInv, [Next]_vars PROVE FundsInv'
  OBVIOUS
<1>1. TypeOK /\ TypeOK' /\ Total(token) = Total(InitialTokens)
      /\ token[this] - stuck <= token_network_deposit_limit
  BY StepType DEF FundsInv, SupplyConserved, OwedWithinLimit
<1>2. /\ token[this] \in Nat /\ stuck \in Nat /\ token_network_deposit_limit \in Nat
      /\ token_network_deposit_limit <= MAX_SAFE_UINT256
      /\ token'[this] \in Nat /\ stuck' \in Nat /\ token_network_deposit_limit' \in Nat
  BY <1>1, MaxIsNat DEF TypeOK, Addresses, Uint
<1>3. SUFFICES /\ Total(token') = Total(token)
               /\ token'[this] - stuck' <= token_network_deposit_limit'
  BY <1>1 DEF FundsInv, SupplyConserved, OwedWithinLimit
<1>4. CASE Reconfigured
  BY <1>1, <1>2, <1>4, MaxIsNat DEF Reconfigured
<1>5. CASE Donated
  <2>1. PICK owner \in Participants : /\ transferFrom(owner, 1) /\ stuck' = stuck + 1
                                      /\ UNCHANGED configVars
    BY <1>5 DEF Donated, DirectTransfer
  <2>2. Total(token') = Total(token) /\ token'[this] = token[this] + 1
    BY <1>1, <2>1, TransferConserves, TransferFromIsBalances
  <2>3. token_network_deposit_limit' = token_network_deposit_limit
    BY <2>1 DEF configVars
  <2>. QED BY <1>1, <1>2, <2>1, <2>2, <2>3
<1>6. CASE PaidOut
  <2>1. PICK p \in Participants, q \in Participants, a \in Nat, b \in Nat :
          /\ token[this] >= a + b /\ token' = paid(p, a, q, b)
          /\ UNCHANGED <<stuck, configVars>>
    BY <1>6 DEF PaidOut
  <2>2. Total(token') = Total(token) /\ token'[this] = token[this] - (a + b)
    BY <1>1, <2>1, PaymentConserves, PaidIsBalances
  <2>3. token_network_deposit_limit' = token_network_deposit_limit
    BY <2>1 DEF configVars
  <2>. QED BY <1>1, <1>2, <2>1, <2>2, <2>3
<1>7. CASE Deposited
  <2>1. PICK owner \in Participants, added \in Nat :
          /\ transferFrom(owner, added) /\ withinNetworkLimit(added)
          /\ UNCHANGED <<stuck, configVars>>
    BY <1>7 DEF Deposited
  <2>2. Total(token') = Total(token) /\ token'[this] = token[this] + added
    BY <1>1, <2>1, TransferConserves, TransferFromIsBalances
  <2>3. token_network_deposit_limit' = token_network_deposit_limit
    BY <2>1 DEF configVars
\* What the contract holds and what the owner pays are part of the supply.
  <2>4. token[this] + added \in Uint
    <3>1. /\ owner \in Addresses /\ this \in Addresses /\ owner # this
          /\ token \in [Addresses -> Nat] /\ added <= token[owner]
      BY <1>1, <2>1, ConstructorAssumption DEF TypeOK, Addresses, transferFrom
    <3>2. token[this] + token[owner] <= Total(token)
      BY <3>1, AddressesFinite, TwoTermsWithinTotal
    <3>3. Total(token) \in Nat /\ Total(token) <= MAX_SAFE_UINT256 /\ token[owner] \in Nat
      BY <1>1, <3>1, ConstructorAssumption, MaxIsNat DEF Uint
    <3>. QED BY <1>2, <3>1, <3>2, <3>3, MaxIsNat DEF Uint
  <2>5. token[this] + added <= token_network_deposit_limit
    BY <2>1, <2>4, WrapInRange DEF withinNetworkLimit
  <2>. QED BY <1>1, <1>2, <2>1, <2>2, <2>3, <2>5
<1>. QED BY <1>1, <1>4, <1>5, <1>6, <1>7, FundsStepKinds

LEMMA InitFunds == Init => FundsInv
<1> SUFFICES ASSUME Init PROVE FundsInv
  OBVIOUS
<1>1. TypeOK
  BY InitType
<1>2. Units(token) = Units(InitialTokens)
  <2>1. /\ token = [a \in Addresses |-> IF a = this THEN 0 ELSE InitialTokens[a]]
        /\ DOMAIN InitialTokens = Participants /\ this \notin Participants
    BY ConstructorAssumption DEF Init
  <2>2. UnitsAt(token, this) = {}
    BY <2>1 DEF UnitsAt, Addresses
  <2>3. \A a \in Participants : UnitsAt(token, a) = UnitsAt(InitialTokens, a)
    BY <2>1 DEF UnitsAt, Addresses
  <2>4. DOMAIN token = Participants \cup {this}
    BY <2>1 DEF Addresses
  <2>. QED BY <2>1, <2>2, <2>3, <2>4 DEF Units
<1>3. token[this] = 0 /\ stuck = 0 /\ token_network_deposit_limit = NetworkDepositLimit
  BY DEF Init, Addresses
<1>4. NetworkDepositLimit >= 0
  BY ConstructorAssumption, MaxIsNat DEF Uint
<1>. QED BY <1>1, <1>2, <1>3, <1>4 DEF FundsInv, SupplyConserved, OwedWithinLimit, Total

THEOREM FundsInvariance == Spec => []FundsInv
BY InitFunds, FundsStep, PTL DEF Spec

\* What the contract owes never exceeds its network-wide limit, for any token
\* whose total supply is a uint256.
THEOREM OwedLimitSafety == Spec => []OwedWithinLimit
<1>1. FundsInv => OwedWithinLimit
  BY DEF FundsInv
<1>. QED BY <1>1, FundsInvariance, PTL

-----------------------------------------------------------------------------
(***************************************************************************)
(* What the contract holds covers every single claim on it.  Withdraws are *)
(* covered by deposits in each channel, so they are in any set of channels.*)
(***************************************************************************)
depositedOutside(ids) ==
  [k \in ParticipantKeys |-> IF k[1] \in ids THEN 0 ELSE participants[k].deposit]

withdrawnOutside(ids) ==
  [k \in ParticipantKeys |-> IF k[1] \in ids THEN 0 ELSE participants[k].withdrawn_amount]

KeysOf(id) == {k \in ParticipantKeys : k[1] = id}

LEMMA ChannelCovered ==
  ASSUME SafetyInv, NEW id \in ChannelIds
  PROVE  Total([k \in KeysOf(id) |-> participants[k].withdrawn_amount])
           <= Total([k \in KeysOf(id) |-> participants[k].deposit])
<1> DEFINE w == [k \in KeysOf(id) |-> participants[k].withdrawn_amount]
           d == [k \in KeysOf(id) |-> participants[k].deposit]
<1>1. /\ w \in [KeysOf(id) -> Nat] /\ d \in [KeysOf(id) -> Nat]
      /\ IsFiniteSet(KeysOf(id))
  BY MaxIsNat, KeysFinite, FS_Subset DEF KeysOf, SafetyInv, TypeOK, Participant, Uint
<1>2. CASE \E pair \in Pairs : ChannelOf(pair) = id
  <2>1. PICK p, q \in Participants :
          p # q /\ {p, q} \in Pairs /\ ChannelOf({p, q}) = id
    BY <1>2 DEF Pairs
  <2>2. id = getChannelIdentifier(p, q) /\ id # 0
    BY <2>1, ConstructorAssumption
    DEF ChannelOf, getChannelIdentifier, getParticipantsHash, ChannelIds
  <2>3. availableDepositComputable(participants[<<id, p>>], participants[<<id, q>>])
    BY <2>1, <2>2 DEF SafetyInv, AvailableDepositComputable
  <2>4. /\ <<id, p>> \in KeysOf(id) /\ <<id, q>> \in KeysOf(id) /\ <<id, p>> # <<id, q>>
        /\ participants[<<id, p>>] \in Participant /\ participants[<<id, q>>] \in Participant
    BY <2>1, KeyOf DEF KeysOf, SafetyInv, TypeOK
  <2>5. \A k \in KeysOf(id) \ {<<id, p>>, <<id, q>>} : w[k] = 0 /\ d[k] = 0
    <3>1. ASSUME NEW k \in KeysOf(id) \ {<<id, p>>, <<id, q>>}
          PROVE  participants[k] = NoParticipant
      <4>1. k = <<id, k[2]>> /\ k[2] \in Participants \ {p, q}
        BY DEF KeysOf, ParticipantKeys
      <4>. QED BY <2>1, <2>2, <4>1, StrangersAreBlank
    <3>. QED BY <3>1 DEF NoParticipant
  <2>6. /\ w[<<id, p>>] + w[<<id, q>>] <= d[<<id, p>>] + d[<<id, q>>]
    BY <2>3, <2>4, MaxIsNat
    DEF availableDepositComputable, getChannelAvailableDeposit, Participant, Uint
  <2>. HIDE DEF w, d
  <2>7. Total(w) = w[<<id, p>>] + w[<<id, q>>]
    <3>1. \A k \in KeysOf(id) \ {<<id, p>>, <<id, q>>} : w[k] = 0
      BY <2>5
    <3>. QED BY <1>1, <2>4, <3>1, TotalOfTwo
  <2>8. Total(d) = d[<<id, p>>] + d[<<id, q>>]
    <3>1. \A k \in KeysOf(id) \ {<<id, p>>, <<id, q>>} : d[k] = 0
      BY <2>5
    <3>. QED BY <1>1, <2>4, <3>1, TotalOfTwo
  <2>9. Total(w) <= Total(d)
    BY <2>6, <2>7, <2>8
  <2>. QED BY <2>9 DEF w, d
<1>3. CASE ~ \E pair \in Pairs : ChannelOf(pair) = id
  <2>1. \A k \in KeysOf(id) : participants[k] = NoParticipant
    <3>1. ASSUME NEW k \in KeysOf(id) PROVE participants[k] = NoParticipant
      <4>1. k = <<id, k[2]>> /\ k[2] \in Participants
        BY DEF KeysOf, ParticipantKeys
      <4>. QED BY <1>3, <4>1 DEF SafetyInv, NothingLeftBehind
    <3>. QED BY <3>1
  <2>2. w = [k \in KeysOf(id) |-> 0] /\ d = [k \in KeysOf(id) |-> 0]
    BY <2>1 DEF NoParticipant
  <2>. HIDE DEF w, d
  <2>3. Total(w) = 0 /\ Total(d) = 0
    BY <2>2, TotalOfZeros
  <2>4. Total(w) <= Total(d)
    BY <2>3
  <2>. QED BY <2>4 DEF w, d
<1>. QED BY <1>2, <1>3

LEMMA OutsideCovered ==
  ASSUME SafetyInv, NEW ids
  PROVE  Total(withdrawnOutside(ids)) <= Total(depositedOutside(ids))
<1> DEFINE f == withdrawnOutside(ids)
           g == depositedOutside(ids)
           part == [id \in ChannelIds |-> KeysOf(id)]
           fs == [id \in ChannelIds |-> [k \in KeysOf(id) |-> f[k]]]
           gs == [id \in ChannelIds |-> [k \in KeysOf(id) |-> g[k]]]
<1>1. f \in [ParticipantKeys -> Nat] /\ g \in [ParticipantKeys -> Nat]
  BY MaxIsNat
  DEF withdrawnOutside, depositedOutside, SafetyInv, TypeOK, Participant, Uint
<1>2. ASSUME NEW id \in ChannelIds
      PROVE  Total(fs[id]) <= Total(gs[id])
  <2>1. CASE id \in ids
    <3>1. /\ fs[id] = [k \in KeysOf(id) |-> 0]
          /\ gs[id] = [k \in KeysOf(id) |-> 0]
      BY <2>1 DEF KeysOf, withdrawnOutside, depositedOutside
    <3>2. Total(fs[id]) = 0 /\ Total(gs[id]) = 0
      BY <3>1, TotalOfZeros
    <3>. HIDE DEF fs, gs
    <3>. QED BY <3>2
  <2>2. CASE id \notin ids
    <3>1. /\ fs[id] = [k \in KeysOf(id) |-> participants[k].withdrawn_amount]
          /\ gs[id] = [k \in KeysOf(id) |-> participants[k].deposit]
      BY <2>2 DEF KeysOf, withdrawnOutside, depositedOutside
    <3>. HIDE DEF fs, gs
    <3>. QED BY <3>1, ChannelCovered
  <2>. QED BY <2>1, <2>2
<1>3. /\ part \in [ChannelIds -> SUBSET ParticipantKeys]
      /\ \A k \in ParticipantKeys : \E id \in ChannelIds : k \in part[id]
      /\ \A id, i \in ChannelIds : id # i => part[id] \cap part[i] = {}
  BY DEF KeysOf, ParticipantKeys
<1>4. \A id \in ChannelIds :
        /\ fs[id] \in [part[id] -> Nat] /\ gs[id] \in [part[id] -> Nat]
        /\ \A k \in part[id] : fs[id][k] = f[k] /\ gs[id][k] = g[k]
  BY <1>1 DEF KeysOf
<1>. HIDE DEF f, g, part, fs, gs
<1>5. AtMostInEveryPart(ParticipantKeys, ChannelIds, part, f, fs, g, gs)
  BY <1>2, <1>3, <1>4 DEF AtMostInEveryPart
<1>6. Total(f) <= Total(g)
  BY <1>1, <1>5, KeysFinite, TotalByParts
<1>. QED BY <1>6 DEF f, g

LEMMA LockedCovered ==
  ASSUME SafetyInv, NEW k \in UnlockIdentifiers
  PROVE  token[this] >= unlock_data[k].locked_amount
<1> DEFINE l == [u \in UnlockIdentifiers |-> unlock_data[u].locked_amount]
<1>1. l \in [UnlockIdentifiers -> Nat]
  BY MaxIsNat DEF SafetyInv, TypeOK, UnlockData, Uint
<1>2. l[k] = unlock_data[k].locked_amount /\ locked(UnlockIdentifiers) = Total(l)
  BY DEF locked
<1>. HIDE DEF l
<1>3. l[k] <= Total(l) /\ l[k] \in Nat
  BY <1>1, KeysFinite, TermWithinTotal
<1>4. withdrawn(ParticipantKeys) <= deposits(ParticipantKeys)
  <2>1. /\ withdrawnOutside({}) = [u \in ParticipantKeys |-> participants[u].withdrawn_amount]
        /\ depositedOutside({}) = [u \in ParticipantKeys |-> participants[u].deposit]
    BY DEF withdrawnOutside, depositedOutside
  <2>2. Total(withdrawnOutside({})) <= Total(depositedOutside({}))
    BY OutsideCovered
  <2>. QED BY <2>1, <2>2 DEF withdrawn, deposits
<1>5. /\ deposits(ParticipantKeys) \in Nat /\ withdrawn(ParticipantKeys) \in Nat
      /\ locked(UnlockIdentifiers) \in Nat /\ token[this] \in Nat /\ stuck \in Nat
  BY SumsAreNat DEF SafetyInv
<1>6. token[this] + withdrawn(ParticipantKeys)
        = deposits(ParticipantKeys) + locked(UnlockIdentifiers) + stuck
  BY DEF SafetyInv, Solvency
<1>. QED BY <1>2, <1>3, <1>4, <1>5, <1>6

LEMMA AvailableCovered ==
  ASSUME SafetyInv, NEW id \in ChannelIds, NEW p \in Participants, NEW q \in Participants,
         p # q, id = getChannelIdentifier(p, q)
  PROVE  token[this] >= getChannelAvailableDeposit(participants[<<id, p>>],
                                                   participants[<<id, q>>])
<1> DEFINE k1 == <<id, p>>  k2 == <<id, q>>
           w  == [k \in ParticipantKeys |-> participants[k].withdrawn_amount]
           d  == [k \in ParticipantKeys |-> participants[k].deposit]
           ww == withdrawnOutside({id})
           dd == depositedOutside({id})
<1>1. /\ k1 \in ParticipantKeys /\ k2 \in ParticipantKeys /\ k1 # k2
  BY KeyOf
<1>2. /\ w \in [ParticipantKeys -> Nat] /\ d \in [ParticipantKeys -> Nat]
      /\ ww \in [ParticipantKeys -> Nat] /\ dd \in [ParticipantKeys -> Nat]
  BY MaxIsNat DEF withdrawnOutside, depositedOutside, SafetyInv, TypeOK, Participant, Uint
<1>3. \A k \in ParticipantKeys \ {k1, k2} : ww[k] = w[k] /\ dd[k] = d[k]
  <2>1. ASSUME NEW k \in ParticipantKeys \ {k1, k2}, k[1] = id
        PROVE  participants[k] = NoParticipant
    <3>1. k = <<id, k[2]>> /\ k[2] \in Participants \ {p, q}
      BY <2>1 DEF ParticipantKeys
    <3>. QED BY <3>1, StrangersAreBlank
  <2>. QED BY <2>1 DEF withdrawnOutside, depositedOutside, NoParticipant
<1>4. ww[k1] = 0 /\ ww[k2] = 0 /\ dd[k1] = 0 /\ dd[k2] = 0
  BY <1>1 DEF withdrawnOutside, depositedOutside
<1>5. /\ deposits(ParticipantKeys) = Total(d) /\ withdrawn(ParticipantKeys) = Total(w)
      /\ getChannelAvailableDeposit(participants[k1], participants[k2])
           = d[k1] + d[k2] - w[k1] - w[k2]
  BY <1>1 DEF deposits, withdrawn, getChannelAvailableDeposit
<1>6. Total(ww) <= Total(dd)
  BY OutsideCovered
<1>7. /\ deposits(ParticipantKeys) \in Nat /\ withdrawn(ParticipantKeys) \in Nat
      /\ locked(UnlockIdentifiers) \in Nat /\ token[this] \in Nat /\ stuck \in Nat
  BY SumsAreNat DEF SafetyInv
<1>8. token[this] + withdrawn(ParticipantKeys)
        = deposits(ParticipantKeys) + locked(UnlockIdentifiers) + stuck
  BY DEF SafetyInv, Solvency
<1>. HIDE DEF k1, k2, w, d, ww, dd
<1>9. Total(ww) = Total(w) - w[k1] - w[k2] + ww[k1] + ww[k2]
  <2>1. \A k \in ParticipantKeys \ {k1, k2} : ww[k] = w[k]
    BY <1>3
  <2>. QED BY <1>1, <1>2, <2>1, KeysFinite, TotalUpdate2
<1>10. Total(dd) = Total(d) - d[k1] - d[k2] + dd[k1] + dd[k2]
  <2>1. \A k \in ParticipantKeys \ {k1, k2} : dd[k] = d[k]
    BY <1>3
  <2>. QED BY <1>1, <1>2, <2>1, KeysFinite, TotalUpdate2
<1>11. w[k1] \in Nat /\ w[k2] \in Nat /\ d[k1] \in Nat /\ d[k2] \in Nat
  BY <1>1, <1>2
<1>12. token[this] >= d[k1] + d[k2] - w[k1] - w[k2]
  BY <1>4, <1>5, <1>6, <1>7, <1>8, <1>9, <1>10, <1>11
<1>. QED BY <1>5, <1>12 DEF k1, k2

-----------------------------------------------------------------------------
(***************************************************************************)
(* Every closed channel can be settled once its window is over.  Balance   *)
(* data that was never given is replaced by zeros, and whoever sent less   *)
(* is named first.                                                         *)
(***************************************************************************)
LEMMA DataToSettleWith ==
  ASSUME SafetyInv, NEW id \in ChannelIds, NEW p \in Participants
  PROVE  \E data \in BalanceData : verifyBalanceHashData(participants[<<id, p>>], data)
<1>1. participants[<<id, p>>].balance_hash \in BalanceData \cup {ZeroHash}
  BY KeyOf DEF SafetyInv, TypeOK, Participant
<1>. QED BY <1>1, MessagesAssumption DEF verifyBalanceHashData

LEMMA SettleAllowedInOrder ==
  ASSUME SafetyInv, NEW id \in ChannelIds, state[id] = "Closed", windowOver(id),
         NEW p1 \in Participants, NEW p2 \in Participants, p1 # p2,
         id = getChannelIdentifier(p1, p2),
         NEW data1 \in BalanceData, verifyBalanceHashData(participants[<<id, p1>>], data1),
         NEW data2 \in BalanceData, verifyBalanceHashData(participants[<<id, p2>>], data2),
         transfersOrdered(data1.transferred_amount, data1.locked_amount,
                          data2.transferred_amount, data2.locked_amount)
  PROVE  settleAllowed(id, p1, data1, p2, data2)
<1> DEFINE a1 == participants[<<id, p1>>]
           a2 == participants[<<id, p2>>]
           x  == getSettleTransferAmounts(a1, data1.transferred_amount, data1.locked_amount,
                                          a2, data2.transferred_amount, data2.locked_amount)
<1>1. availableDepositComputable(a1, a2)
  <2>1. {p1, p2} \in Pairs /\ ChannelOf({p1, p2}) = id /\ id # 0
    BY PairOf, ConstructorAssumption
    DEF getChannelIdentifier, getParticipantsHash, ChannelOf, ChannelIds
  <2>. QED BY <2>1 DEF SafetyInv, AvailableDepositComputable
<1>2. /\ x.S1 \in Nat /\ x.S2 \in Nat /\ x.SL1 \in Uint /\ x.SL2 \in Uint
      /\ x.S1 + x.S2 + x.SL1 + x.SL2 = getChannelAvailableDeposit(a1, a2)
  BY <1>1, AmountsAddUp DEF SafetyInv
<1>3. token[this] >= getChannelAvailableDeposit(a1, a2) /\ token[this] \in Nat
  BY AvailableCovered, SumsAreNat DEF SafetyInv
<1>4. token[this] >= x.S1 + x.S2
  <2>. HIDE DEF x
  <2>. QED BY <1>2, <1>3, MaxIsNat DEF Uint
<1>. QED BY <1>1, <1>4 DEF settleAllowed

LEMMA SettlePossible == SafetyInv => SettleNeverStuck
<1> SUFFICES ASSUME SafetyInv, NEW id \in ChannelIds, state[id] = "Closed",
                    settleable_after[id] < timestamp
             PROVE  \E p, q \in Participants, data1, data2 \in BalanceData :
                      settleAllowed(id, p, data1, q, data2)
  BY DEF SettleNeverStuck
<1>1. PICK p \in Participants, q \in Participants :
        p # q /\ id = getChannelIdentifier(p, q) /\ id = getChannelIdentifier(q, p)
  <2>1. PICK pair \in Pairs : ChannelOf(pair) = id
    BY DEF SafetyInv, ChannelPairsConsistent
  <2>2. PICK p \in Participants, q \in Participants : p # q /\ pair = {p, q}
    BY DEF Pairs
  <2>. QED BY <2>1, <2>2 DEF ChannelOf, getChannelIdentifier, getParticipantsHash
<1>2. PICK data1 \in BalanceData : verifyBalanceHashData(participants[<<id, p>>], data1)
  BY DataToSettleWith
<1>3. PICK data2 \in BalanceData : verifyBalanceHashData(participants[<<id, q>>], data2)
  BY DataToSettleWith
<1>4. windowOver(id)
  BY DEF windowOver
<1> DEFINE sum1 == failsafe_addition(data1.transferred_amount, data1.locked_amount)
           sum2 == failsafe_addition(data2.transferred_amount, data2.locked_amount)
<1>5. sum1 \in Int /\ sum2 \in Int
  <2>1. /\ data1.transferred_amount \in Int /\ data1.locked_amount \in Int
        /\ data2.transferred_amount \in Int /\ data2.locked_amount \in Int
    BY MessagesAssumption, MaxIsNat DEF Uint
  <2>2. \A a, b \in Int : failsafe_addition(a, b) \in Int
    BY WrapIsUint, MaxIsNat DEF failsafe_addition, Uint
  <2>. QED BY <2>1, <2>2
<1>6. CASE sum2 >= sum1
  <2>1. transfersOrdered(data1.transferred_amount, data1.locked_amount,
                         data2.transferred_amount, data2.locked_amount)
    BY <1>6 DEF transfersOrdered
  <2>. QED BY <1>1, <1>2, <1>3, <1>4, <2>1, SettleAllowedInOrder
<1>7. CASE sum1 >= sum2
  <2>1. transfersOrdered(data2.transferred_amount, data2.locked_amount,
                         data1.transferred_amount, data1.locked_amount)
    BY <1>7 DEF transfersOrdered
  <2>. QED BY <1>1, <1>2, <1>3, <1>4, <2>1, SettleAllowedInOrder
<1>. QED BY <1>5, <1>6, <1>7

\* "It MUST never fail": whatever data was signed, with amounts of any size, and
\* whatever else was called, a closed channel can be settled when its window is
\* over, without anybody's cooperation.
THEOREM SettleSafetyNet == Spec => []SettleNeverStuck
BY SafetyInvariance, SettlePossible, PTL

-----------------------------------------------------------------------------
(***************************************************************************)
(* What a settlement left locked can be unlocked.  The contract adds up a  *)
(* list's unlocked amounts in checked arithmetic, so a list whose amounts  *)
(* exceed a uint256 could not be unlocked: such a list is excluded.        *)
(***************************************************************************)
LocksAddUp ==
  \A locks \in LockLists :
    Total([i \in DOMAIN locks |-> locks[i].locked_amount]) \in Uint

(* Nobody has locked tokens for itself. *)
UnlockKeysApart ==
  \A k \in UnlockIdentifiers : unlock_data[k] # NoUnlockData => k[2] # k[3]

PaymentsInv == SafetyInv /\ UnlockKeysApart

LEMMA UnlockedWithin ==
  ASSUME SafetyInv, LocksAddUp, NEW locks \in LockLists \cup {<<>>}
  PROVE  getUnlockedAmount(locks) \in Uint
<1>1. CASE locks = <<>>
  <2> DEFINE f == [i \in DOMAIN locks |-> getLockedAmountFromLock(locks[i])]
  <2>1. f = [i \in {} |-> 0] /\ getUnlockedAmount(locks) = Total(f)
    BY <1>1 DEF getUnlockedAmount
  <2>. HIDE DEF f
  <2>2. Total(f) = 0
    BY <2>1, TotalOfZeros
  <2>. QED BY <2>1, <2>2, MaxIsNat DEF Uint
<1>2. CASE locks \in LockLists
  <2> DEFINE f == [i \in DOMAIN locks |-> getLockedAmountFromLock(locks[i])]
             g == [i \in DOMAIN locks |-> locks[i].locked_amount]
  <2>1. locks \in Seq(Locks)
    BY <1>2, MessagesAssumption
  <2>2. IsFiniteSet(DOMAIN locks)
    <3>1. DOMAIN locks = 1 .. Len(locks) /\ Len(locks) \in Nat
      BY <2>1
    <3>. QED BY <3>1, FS_Interval
  <2>3. \A i \in DOMAIN locks : locks[i].locked_amount \in Nat
    <3>1. \A i \in DOMAIN locks : locks[i] \in Locks
      BY <2>1
    <3>2. \A lock \in Locks : lock.locked_amount \in Nat
      BY MaxIsNat DEF Locks, Uint
    <3>. QED BY <3>1, <3>2
  <2>4. /\ f \in [DOMAIN locks -> Nat] /\ g \in [DOMAIN locks -> Nat]
        /\ \A i \in DOMAIN locks : f[i] <= g[i]
    BY <2>3 DEF getLockedAmountFromLock
  <2>5. Total(g) \in Uint
    BY <1>2 DEF LocksAddUp
  <2>6. getUnlockedAmount(locks) = Total(f)
    BY DEF getUnlockedAmount
  <2>. HIDE DEF f, g
  <2>7. Total(f) <= Total(g) /\ Total(f) \in Nat
    BY <2>2, <2>4, TotalMonotone, TotalIsNat
  <2>. QED BY <2>5, <2>6, <2>7, MaxIsNat DEF Uint
<1>. QED BY <1>1, <1>2

LEMMA UnlockPossible ==
  ASSUME LocksAddUp PROVE PaymentsInv => UnlockNeverStuck
<1> SUFFICES ASSUME PaymentsInv, NEW id \in ChannelIds,
                    NEW sender \in Participants, NEW receiver \in Participants,
                    unlock_data[<<id, sender, receiver>>].locked_amount > 0
             PROVE  unlockAllowed(id, receiver, sender,
                                  unlock_data[<<id, sender, receiver>>].locksroot)
  BY DEF UnlockNeverStuck
<1> DEFINE k == <<id, sender, receiver>>
<1>1. SafetyInv /\ TypeOK /\ k \in UnlockIdentifiers /\ unlock_data[k] # NoUnlockData
  BY DEF PaymentsInv, SafetyInv, UnlockIdentifiers, NoUnlockData
<1>2. receiver # sender
  BY <1>1 DEF PaymentsInv, UnlockKeysApart
<1>3. state[id] = "NonExistent"
  BY <1>1 DEF SafetyInv, NothingLeftBehind
<1>4. ~channelStillExists(id, receiver, sender)
  <2>1. SUFFICES ASSUME id = getChannelIdentifier(receiver, sender) PROVE FALSE
    BY DEF channelStillExists
  <2>2. {receiver, sender} \in Pairs /\ ChannelOf({receiver, sender}) = id /\ id # 0
    BY <1>2, <2>1, PairOf, ConstructorAssumption
    DEF getChannelIdentifier, getParticipantsHash, ChannelOf, ChannelIds
  <2>. QED BY <1>1, <1>3, <2>2, LiveChannel DEF SafetyInv
<1>5. unlock_data[k].locksroot \in LockLists \cup {<<>>}
  BY <1>1 DEF TypeOK, UnlockData
<1>6. getUnlockedAmount(unlock_data[k].locksroot) \in Uint
  BY <1>1, <1>5, UnlockedWithin
<1>7. token[this] >= unlock_data[k].locked_amount
  BY <1>1, LockedCovered
<1>. QED BY <1>2, <1>3, <1>4, <1>6, <1>7 DEF unlockAllowed, getUnlockIdentifier

LEMMA PaymentsStep == PaymentsInv /\ [Next]_vars => PaymentsInv'
<1> SUFFICES ASSUME PaymentsInv, [Next]_vars PROVE PaymentsInv'
  OBVIOUS
<1>1. SafetyInv /\ SafetyInv' /\ UnlockKeysApart
  BY SafetyStep DEF PaymentsInv
<1>2. unlock_data \in [UnlockIdentifiers -> UnlockData]
  BY <1>1 DEF SafetyInv, TypeOK
<1> SUFFICES UnlockKeysApart'
  BY <1>1 DEF PaymentsInv
<1>3. CASE UNCHANGED unlock_data
  BY <1>1, <1>3 DEF UnlockKeysApart
<1>4. ASSUME NEW id \in ChannelIds, settleById(id) PROVE UnlockKeysApart'
  <2>1. PICK p \in Participants, q \in Participants, data1 \in BalanceData, data2 \in BalanceData :
          settleChannel(id, p, data1, q, data2)
    BY <1>4 DEF settleById
  <2>2. p # q
    BY <2>1 DEF settleChannel, settleAllowed
  <2>3. \A k \in UnlockIdentifiers \ {<<id, p, q>>, <<id, q, p>>} :
          unlock_data'[k] = unlock_data[k]
    BY <1>2, <2>1 DEF settleChannel, storeUnlockData, getUnlockIdentifier
  <2>. QED BY <1>1, <2>2, <2>3 DEF UnlockKeysApart
<1>5. ASSUME NEW id \in ChannelIds, unlockById(id) PROVE UnlockKeysApart'
  <2>1. \A k \in UnlockIdentifiers : unlock_data'[k] \in {unlock_data[k], NoUnlockData}
    BY <1>2, <1>5 DEF unlockById, unlock, deletedUnlockData
  <2>. QED BY <1>1, <2>1 DEF UnlockKeysApart
<1>6. CASE RegistryNext \/ ControllerNext \/ UNCHANGED vars
  BY <1>3, <1>6 DEF RegistryNext, ControllerNext, deprecate, removeLimits,
                    changeController, vars
<1>7. CASE FundingNext
  BY <1>3, <1>7
  DEF FundingNext, DirectTransfer, openChannel, openChannelWithDeposit, setTotalDeposit
<1>8. CASE WithdrawNext
  <2>1. ASSUME NEW id, NEW p, NEW q, NEW total_withdraw, NEW withdrawable_until,
               setTotalWithdraw(id, p, q, total_withdraw, withdrawable_until)
        PROVE  UNCHANGED unlock_data
    BY <2>1 DEF setTotalWithdraw
  <2>2. ASSUME NEW id, NEW data1, NEW data2, cooperativeSettle(id, data1, data2)
        PROVE  UNCHANGED unlock_data
    BY <2>2 DEF cooperativeSettle
  <2>. QED BY <1>3, <1>8, <2>1, <2>2 DEF WithdrawNext
<1>9. CASE CloseNext
  BY <1>3, <1>9 DEF CloseNext, closeChannel, updateNonClosingBalanceProof
<1>. QED BY <1>4, <1>5, <1>6, <1>7, <1>8, <1>9 DEF Next

LEMMA InitPayments == Init => PaymentsInv
BY InitSafety DEF Init, PaymentsInv, UnlockKeysApart

\* Nothing that is due can be kept from its owners by a call that always fails,
\* for any signed data whose lock lists add up to a uint256.
THEOREM PaymentsSafetyNet ==
  ASSUME LocksAddUp PROVE Spec => []PaymentsNeverStuck
<1>1. Spec => []PaymentsInv
  BY InitPayments, PaymentsStep, PTL DEF Spec
<1>2. PaymentsInv => PaymentsNeverStuck
  BY SettlePossible, UnlockPossible DEF PaymentsInv, PaymentsNeverStuck
<1>. QED BY <1>1, <1>2, PTL

-----------------------------------------------------------------------------
(***************************************************************************)
(* Every payment is accounted to one channel.  A step changes at most two  *)
(* accounts and two locked amounts, all of one channel.                    *)
(***************************************************************************)
AccountKeysOf(id) == {id} \X Participants

LockedKeysOf(id) == {id} \X Participants \X Participants

LEMMA ChannelKeysFinite ==
  ASSUME NEW id \in ChannelIds
  PROVE  /\ IsFiniteSet(AccountKeysOf(id)) /\ AccountKeysOf(id) \subseteq ParticipantKeys
         /\ IsFiniteSet(LockedKeysOf(id)) /\ LockedKeysOf(id) \subseteq UnlockIdentifiers
<1>1. AccountKeysOf(id) \subseteq ParticipantKeys /\ LockedKeysOf(id) \subseteq UnlockIdentifiers
  BY DEF AccountKeysOf, LockedKeysOf, ParticipantKeys, UnlockIdentifiers
<1>. QED BY <1>1, KeysFinite, FS_Subset

\* What is in an account, and what an identifier has locked.
accountOf(ps, k) == ps[k].deposit - ps[k].withdrawn_amount

LEMMA OwedChange ==
  ASSUME TypeOK, TypeOK', NEW id \in ChannelIds,
         NEW p \in Participants, NEW q \in Participants, p # q,
         \A k \in ParticipantKeys \ {<<id, p>>, <<id, q>>} : participants'[k] = participants[k],
         \A u \in UnlockIdentifiers \ {<<id, p, q>>, <<id, q, p>>} :
           unlock_data'[u] = unlock_data[u]
  PROVE  owedIn(id)' - owedIn(id)
           = (accountOf(participants', <<id, p>>) - accountOf(participants, <<id, p>>))
             + (accountOf(participants', <<id, q>>) - accountOf(participants, <<id, q>>))
             + (unlock_data'[<<id, p, q>>].locked_amount
                - unlock_data[<<id, p, q>>].locked_amount)
             + (unlock_data'[<<id, q, p>>].locked_amount
                - unlock_data[<<id, q, p>>].locked_amount)
<1> DEFINE K == AccountKeysOf(id)  k1 == <<id, p>>     k2 == <<id, q>>
           U == LockedKeysOf(id)   u1 == <<id, p, q>>  u2 == <<id, q, p>>
           d  == [k \in K |-> participants[k].deposit]
           dd == [k \in K |-> participants'[k].deposit]
           w  == [k \in K |-> participants[k].withdrawn_amount]
           ww == [k \in K |-> participants'[k].withdrawn_amount]
           l  == [u \in U |-> unlock_data[u].locked_amount]
           ll == [u \in U |-> unlock_data'[u].locked_amount]
<1>1. /\ k1 \in K /\ k2 \in K /\ k1 # k2 /\ u1 \in U /\ u2 \in U /\ u1 # u2
  BY DEF AccountKeysOf, LockedKeysOf
<1>2. /\ IsFiniteSet(K) /\ K \subseteq ParticipantKeys
      /\ IsFiniteSet(U) /\ U \subseteq UnlockIdentifiers
  BY ChannelKeysFinite
<1>3. owedIn(id) = Total(d) - Total(w) + Total(l)
  BY DEF owedIn, deposits, withdrawn, locked, AccountKeysOf, LockedKeysOf
<1>4. owedIn(id)' = Total(dd) - Total(ww) + Total(ll)
  BY DEF owedIn, deposits, withdrawn, locked, AccountKeysOf, LockedKeysOf
<1>. HIDE DEF K, U, k1, k2, u1, u2
<1>5. /\ d \in [K -> Nat] /\ dd \in [K -> Nat] /\ w \in [K -> Nat] /\ ww \in [K -> Nat]
  BY <1>2, MaxIsNat DEF TypeOK, Participant, Uint
<1>6. l \in [U -> Nat] /\ ll \in [U -> Nat]
  BY <1>2, MaxIsNat DEF TypeOK, UnlockData, Uint
<1>7. (\A k \in K \ {k1, k2} : dd[k] = d[k]) /\ (\A k \in K \ {k1, k2} : ww[k] = w[k])
  BY <1>2 DEF k1, k2
<1>8. \A u \in U \ {u1, u2} : ll[u] = l[u]
  BY <1>2 DEF u1, u2
<1>9. /\ d[k1] - w[k1] = accountOf(participants, k1)
      /\ d[k2] - w[k2] = accountOf(participants, k2)
      /\ dd[k1] - ww[k1] = accountOf(participants', k1)
      /\ dd[k2] - ww[k2] = accountOf(participants', k2)
      /\ l[u1] = unlock_data[u1].locked_amount /\ ll[u1] = unlock_data'[u1].locked_amount
      /\ l[u2] = unlock_data[u2].locked_amount /\ ll[u2] = unlock_data'[u2].locked_amount
  BY <1>1 DEF accountOf
<1>. HIDE DEF d, dd, w, ww, l, ll
<1>10. Total(dd) = Total(d) - d[k1] - d[k2] + dd[k1] + dd[k2]
  <2>1. \A k \in K \ {k1, k2} : dd[k] = d[k]
    BY <1>7
  <2>. QED BY <1>1, <1>2, <1>5, <2>1, TotalUpdate2
<1>11. Total(ww) = Total(w) - w[k1] - w[k2] + ww[k1] + ww[k2]
  <2>1. \A k \in K \ {k1, k2} : ww[k] = w[k]
    BY <1>7
  <2>. QED BY <1>1, <1>2, <1>5, <2>1, TotalUpdate2
<1>12. Total(ll) = Total(l) - l[u1] - l[u2] + ll[u1] + ll[u2]
  BY <1>1, <1>2, <1>6, <1>8, TotalUpdate2
<1>13. /\ Total(d) \in Nat /\ Total(w) \in Nat /\ Total(l) \in Nat
       /\ d[k1] \in Nat /\ d[k2] \in Nat /\ dd[k1] \in Nat /\ dd[k2] \in Nat
       /\ w[k1] \in Nat /\ w[k2] \in Nat /\ ww[k1] \in Nat /\ ww[k2] \in Nat
       /\ l[u1] \in Nat /\ l[u2] \in Nat /\ ll[u1] \in Nat /\ ll[u2] \in Nat
  BY <1>1, <1>2, <1>5, <1>6, TotalIsNat
<1>14. owedIn(id)' - owedIn(id)
         = ((dd[k1] - ww[k1]) - (d[k1] - w[k1])) + ((dd[k2] - ww[k2]) - (d[k2] - w[k2]))
           + (ll[u1] - l[u1]) + (ll[u2] - l[u2])
  BY <1>3, <1>4, <1>10, <1>11, <1>12, <1>13
<1>15. owedIn(id)' - owedIn(id)
         = (accountOf(participants', k1) - accountOf(participants, k1))
           + (accountOf(participants', k2) - accountOf(participants, k2))
           + (unlock_data'[u1].locked_amount - unlock_data[u1].locked_amount)
           + (unlock_data'[u2].locked_amount - unlock_data[u2].locked_amount)
  BY <1>9, <1>14
<1>. QED BY <1>15 DEF k1, k2, u1, u2

LEMMA OwedElsewhere ==
  ASSUME NEW id \in ChannelIds,
         \A k \in ParticipantKeys : k[1] # id => participants'[k] = participants[k],
         \A u \in UnlockIdentifiers : u[1] # id => unlock_data'[u] = unlock_data[u],
         NEW other \in ChannelIds \ {id}
  PROVE  owedIn(other)' = owedIn(other)
<1> DEFINE K == {other} \X Participants
           U == {other} \X Participants \X Participants
<1>1. \A k \in K : participants'[k] = participants[k]
  BY DEF ParticipantKeys
<1>2. \A u \in U : unlock_data'[u] = unlock_data[u]
  BY DEF UnlockIdentifiers
<1>. HIDE DEF K, U
<1>3. [k \in K |-> participants'[k].deposit] = [k \in K |-> participants[k].deposit]
  BY <1>1
<1>4. [k \in K |-> participants'[k].withdrawn_amount]
        = [k \in K |-> participants[k].withdrawn_amount]
  BY <1>1
<1>5. [u \in U |-> unlock_data'[u].locked_amount] = [u \in U |-> unlock_data[u].locked_amount]
  BY <1>2
<1>. QED BY <1>3, <1>4, <1>5 DEF owedIn, deposits, withdrawn, locked, K, U

LEMMA OwedIsInt ==
  ASSUME TypeOK, NEW id \in ChannelIds PROVE owedIn(id) \in Int
<1> DEFINE K == AccountKeysOf(id)
           U == LockedKeysOf(id)
<1>1. /\ IsFiniteSet(K) /\ K \subseteq ParticipantKeys
      /\ IsFiniteSet(U) /\ U \subseteq UnlockIdentifiers
  BY ChannelKeysFinite
<1>. HIDE DEF K, U
<1>2. /\ [k \in K |-> participants[k].deposit] \in [K -> Nat]
      /\ [k \in K |-> participants[k].withdrawn_amount] \in [K -> Nat]
      /\ [u \in U |-> unlock_data[u].locked_amount] \in [U -> Nat]
  BY <1>1, MaxIsNat DEF TypeOK, Participant, UnlockData, Uint
<1>3. /\ Total([k \in K |-> participants[k].deposit]) \in Nat
      /\ Total([k \in K |-> participants[k].withdrawn_amount]) \in Nat
      /\ Total([u \in U |-> unlock_data[u].locked_amount]) \in Nat
  BY <1>1, <1>2, TotalIsNat
<1>. QED BY <1>3 DEF owedIn, deposits, withdrawn, locked, K, U, AccountKeysOf, LockedKeysOf

\* A step that changes no amount.
sameAmounts ==
  /\ \A k \in ParticipantKeys : /\ participants'[k].deposit = participants[k].deposit
                                /\ participants'[k].withdrawn_amount
                                     = participants[k].withdrawn_amount
  /\ unlock_data' = unlock_data

LEMMA QuietAccounted ==
  ASSUME TypeOK, NEW id \in ChannelIds, sameAmounts,
         token'[this] - token[this] = stuck' - stuck,
         stuck \in Nat, stuck' \in Nat,
         \A r \in Participants : ~(token'[r] > token[r])
  PROVE  accountedTo(id)
<1>1. ASSUME NEW i \in ChannelIds PROVE owedIn(i)' = owedIn(i)
  <2> DEFINE K == {i} \X Participants
  <2>1. \A k \in K : /\ participants'[k].deposit = participants[k].deposit
                     /\ participants'[k].withdrawn_amount = participants[k].withdrawn_amount
    BY DEF sameAmounts, ParticipantKeys
  <2>. HIDE DEF K
  <2>2. [k \in K |-> participants'[k].deposit] = [k \in K |-> participants[k].deposit]
    BY <2>1
  <2>3. [k \in K |-> participants'[k].withdrawn_amount]
          = [k \in K |-> participants[k].withdrawn_amount]
    BY <2>1
  <2>. QED BY <2>2, <2>3 DEF sameAmounts, owedIn, deposits, withdrawn, locked, K
<1>2. owedIn(id) \in Int
  BY OwedIsInt
<1>3. owedIn(id)' - owedIn(id) = (token'[this] - token[this]) - (stuck' - stuck)
  BY <1>1, <1>2
<1>. QED BY <1>1, <1>3 DEF accountedTo

LEMMA ChannelAccounted ==
  ASSUME TypeOK, TypeOK', NEW id \in ChannelIds,
         NEW p \in Participants, NEW q \in Participants, p # q,
         \A k \in ParticipantKeys \ {<<id, p>>, <<id, q>>} : participants'[k] = participants[k],
         \A u \in UnlockIdentifiers \ {<<id, p, q>>, <<id, q, p>>} :
           unlock_data'[u] = unlock_data[u],
         stuck' = stuck,
         token'[this] - token[this]
           = (accountOf(participants', <<id, p>>) - accountOf(participants, <<id, p>>))
             + (accountOf(participants', <<id, q>>) - accountOf(participants, <<id, q>>))
             + (unlock_data'[<<id, p, q>>].locked_amount
                - unlock_data[<<id, p, q>>].locked_amount)
             + (unlock_data'[<<id, q, p>>].locked_amount
                - unlock_data[<<id, q, p>>].locked_amount),
         \A r \in Participants : token'[r] > token[r] => isPartyOf(id, r)
  PROVE  accountedTo(id)
<1>1. owedIn(id)' - owedIn(id) = token'[this] - token[this]
  BY OwedChange
<1>2. /\ token[this] \in Nat /\ token'[this] \in Nat /\ stuck \in Nat
  BY DEF TypeOK, Addresses
<1>3. owedIn(id)' - owedIn(id) = (token'[this] - token[this]) - (stuck' - stuck)
  BY <1>1, <1>2
<1>4. \A k \in ParticipantKeys : k[1] # id => participants'[k] = participants[k]
  OBVIOUS
<1>5. \A u \in UnlockIdentifiers : u[1] # id => unlock_data'[u] = unlock_data[u]
  OBVIOUS
<1>6. \A other \in ChannelIds \ {id} : owedIn(other)' = owedIn(other)
  BY <1>4, <1>5, OwedElsewhere
<1>. QED BY <1>3, <1>6 DEF accountedTo

\* Who gets more tokens in a step.
LEMMA PayersOnly ==
  ASSUME TypeOK, NEW owner \in Participants, NEW amount \in Nat,
         transferFrom(owner, amount), NEW r \in Participants
  PROVE  ~(token'[r] > token[r])
<1>1. r \in Addresses /\ r # this /\ token[r] \in Nat
  BY ConstructorAssumption DEF TypeOK, Addresses
<1>2. token'[r] = IF r = owner THEN token[r] - amount ELSE token[r]
  BY <1>1 DEF transferFrom, TypeOK
<1>. QED BY <1>1, <1>2

LEMMA PayeesOnly ==
  ASSUME TypeOK, NEW p \in Participants, NEW q \in Participants,
         NEW a \in Nat, NEW b \in Nat, token' = paid(p, a, q, b),
         NEW r \in Participants, token'[r] > token[r]
  PROVE  r \in {p, q}
<1>1. r \in Addresses /\ r # this /\ token[r] \in Nat
  BY ConstructorAssumption DEF TypeOK, Addresses
<1>. QED BY <1>1 DEF paid

LEMMA PartiesOfChannel ==
  ASSUME NEW id \in ChannelIds, NEW p \in Participants, NEW q \in Participants, p # q,
         id = getChannelIdentifier(p, q), NEW r \in {p, q}
  PROVE  isPartyOf(id, r)
<1>1. getChannelIdentifier(q, p) = getChannelIdentifier(p, q)
  <2>1. {p, q} = {q, p}
    OBVIOUS
  <2>. QED BY <2>1 DEF getChannelIdentifier, getParticipantsHash
<1>. QED BY <1>1 DEF isPartyOf

\* A deposit is the channel's, whoever pays it.
LEMMA DepositAccounted ==
  ASSUME TypeOK, TypeOK', NEW id \in ChannelIds,
         NEW p \in Participants, NEW q \in Participants, p # q,
         NEW owner \in Participants, NEW total_deposit \in Amounts,
         setTotalDepositFor(id, p, total_deposit, q, owner),
         availableDepositComputable(participants[<<id, p>>], participants[<<id, q>>]),
         UNCHANGED <<stuck, unlock_data>>
  PROVE  accountedTo(id)
<1> DEFINE k1 == <<id, p>>     k2 == <<id, q>>
           u1 == <<id, p, q>>  u2 == <<id, q, p>>
<1>1. /\ \A k \in ParticipantKeys \ {k1} : participants'[k] = participants[k]
      /\ participants'[k1].withdrawn_amount = participants[k1].withdrawn_amount
      /\ token'[this] - token[this] = participants'[k1].deposit - participants[k1].deposit
  BY DepositFacts
<1>2. /\ k1 \in ParticipantKeys /\ k2 \in ParticipantKeys /\ k1 # k2
      /\ u1 \in UnlockIdentifiers /\ u2 \in UnlockIdentifiers
  BY KeyOf, UnlockKeyOf DEF getUnlockIdentifier
<1>3. /\ participants[k1] \in Participant /\ participants'[k1] \in Participant
      /\ participants[k2] \in Participant /\ participants'[k2] = participants[k2]
      /\ unlock_data[u1] \in UnlockData /\ unlock_data[u2] \in UnlockData
  BY <1>1, <1>2 DEF TypeOK
<1>4. \A r \in Participants : ~(token'[r] > token[r])
  <2> DEFINE added == Wrap(total_deposit - participants[k1].deposit)
  <2>1. added \in Nat
    <3>1. total_deposit \in Int /\ participants[k1].deposit \in Int
      BY <1>3, ConstructorAssumption, MaxIsNat DEF Participant, Uint
    <3>. QED BY <3>1, WrapIsUint, MaxIsNat DEF Uint
  <2>2. transferFrom(owner, added)
    BY DEF setTotalDepositFor
  <2>. HIDE DEF added
  <2>. QED BY <2>1, <2>2, PayersOnly
<1>5. \A k \in ParticipantKeys \ {k1, k2} : participants'[k] = participants[k]
  BY <1>1
<1>7. /\ participants[k1].deposit \in Int /\ participants'[k1].deposit \in Int
      /\ participants[k2].deposit \in Int
      /\ participants[k1].withdrawn_amount \in Int
      /\ participants[k2].withdrawn_amount \in Int
      /\ unlock_data[u1].locked_amount \in Int /\ unlock_data[u2].locked_amount \in Int
  <2>1. ASSUME NEW account \in Participant
        PROVE  account.deposit \in Int /\ account.withdrawn_amount \in Int
    BY MaxIsNat DEF Participant, Uint
  <2>2. ASSUME NEW data \in UnlockData PROVE data.locked_amount \in Int
    BY MaxIsNat DEF UnlockData, Uint
  <2>. QED BY <1>3, <2>1, <2>2
<1>8. unlock_data' = unlock_data
  OBVIOUS
<1>. HIDE DEF k1, k2, u1, u2
<1>6. token'[this] - token[this]
        = (accountOf(participants', k1) - accountOf(participants, k1))
          + (accountOf(participants', k2) - accountOf(participants, k2))
          + (unlock_data'[u1].locked_amount - unlock_data[u1].locked_amount)
          + (unlock_data'[u2].locked_amount - unlock_data[u2].locked_amount)
  BY <1>1, <1>3, <1>7, <1>8 DEF accountOf
<1>. QED BY <1>4, <1>5, <1>6, ChannelAccounted DEF k1, k2, u1, u2

LEMMA FundingAccounted ==
  ASSUME SafetyInv, TypeOK', FundingNext
  PROVE  \E id \in ChannelIds : accountedTo(id)
<1>1. TypeOK /\ 1 \in ChannelIds
  BY ConstructorAssumption DEF SafetyInv, ChannelIds
<1>2. token[this] \in Nat /\ token'[this] \in Nat /\ stuck \in Nat /\ stuck' \in Nat
  BY <1>1 DEF TypeOK, Addresses
<1>3. ASSUME NEW owner \in Participants, DirectTransfer(owner) PROVE accountedTo(1)
  <2>1. /\ transferFrom(owner, 1) /\ stuck' = stuck + 1 /\ sameAmounts
    BY <1>3 DEF DirectTransfer, channelVars, sameAmounts
  <2>2. token'[this] = token[this] + 1
    BY <1>1, <2>1, TransferFromIsBalances
  <2>3. \A r \in Participants : ~(token'[r] > token[r])
    BY <1>1, <2>1, PayersOnly
  <2>4. token'[this] - token[this] = stuck' - stuck
    BY <1>2, <2>1, <2>2
  <2>. QED BY <1>1, <1>2, <2>1, <2>3, <2>4, QuietAccounted
<1>4. ASSUME NEW p \in Participants, NEW q \in Participants, openChannel(p, q)
      PROVE  accountedTo(1)
  <2>1. UNCHANGED <<token, stuck>> /\ sameAmounts
    BY <1>4 DEF openChannel, sameAmounts
  <2>2. \A r \in Participants : ~(token'[r] > token[r])
    <3>1. \A r \in Participants : token[r] \in Nat
      BY <1>1 DEF TypeOK, Addresses
    <3>. QED BY <2>1, <3>1
  <2>3. token'[this] - token[this] = stuck' - stuck
    BY <1>2, <2>1
  <2>. QED BY <1>1, <1>2, <2>1, <2>2, <2>3, QuietAccounted
<1>5. ASSUME NEW p \in Participants, NEW q \in Participants, NEW owner \in Participants,
             NEW total_deposit \in Amounts,
             openChannelWithDeposit(p, q, total_deposit, owner)
      PROVE  \E id \in ChannelIds : accountedTo(id)
  <2> DEFINE id == channel_counter + 1
  <2>1. /\ openedChannel(p, q) /\ setTotalDepositFor(id, p, total_deposit, q, owner)
        /\ UNCHANGED <<stuck, unlock_data>>
    BY <1>5 DEF openChannelWithDeposit
  <2>2. id \in ChannelIds /\ p # q
    BY <1>1, <2>1, OpenedChannelType DEF openedChannel
  <2>. HIDE DEF id
  <2>3. participants[<<id, p>>] = NoParticipant /\ participants[<<id, q>>] = NoParticipant
    BY <2>2, NewChannelIsUnused DEF id
  <2>4. availableDepositComputable(participants[<<id, p>>], participants[<<id, q>>])
    BY <2>3, MaxIsNat
    DEF NoParticipant, availableDepositComputable, getChannelAvailableDeposit, Uint
  <2>5. accountedTo(id)
    BY <1>1, <2>1, <2>2, <2>4, DepositAccounted
  <2>. QED BY <2>2, <2>5
<1>6. ASSUME NEW id \in ChannelIds, NEW p \in Participants, NEW q \in Participants,
             NEW owner \in Participants, NEW total_deposit \in Amounts,
             setTotalDeposit(id, p, total_deposit, q, owner)
      PROVE  accountedTo(id)
  <2>1. /\ p # q /\ id = getChannelIdentifier(p, q)
        /\ setTotalDepositFor(id, p, total_deposit, q, owner)
        /\ UNCHANGED <<stuck, unlock_data>>
    BY <1>6 DEF setTotalDeposit
  <2>2. {p, q} \in Pairs /\ ChannelOf({p, q}) = id /\ id # 0
    BY <2>1, PairOf, ConstructorAssumption
    DEF getChannelIdentifier, getParticipantsHash, ChannelOf, ChannelIds
  <2>3. availableDepositComputable(participants[<<id, p>>], participants[<<id, q>>])
    BY <2>1, <2>2 DEF SafetyInv, AvailableDepositComputable
  <2>. QED BY <1>1, <2>1, <2>3, DepositAccounted
<1>. QED BY <1>1, <1>3, <1>4, <1>5, <1>6 DEF FundingNext

\* A payment out of channel id, to its parties.
LEMMA PaymentAccounted ==
  ASSUME TypeOK, TypeOK', NEW id \in ChannelIds,
         NEW p \in Participants, NEW q \in Participants, p # q,
         \A r \in {p, q} : isPartyOf(id, r),
         \A k \in ParticipantKeys \ {<<id, p>>, <<id, q>>} : participants'[k] = participants[k],
         \A u \in UnlockIdentifiers \ {<<id, p, q>>, <<id, q, p>>} :
           unlock_data'[u] = unlock_data[u],
         stuck' = stuck, NEW a \in Nat, NEW b \in Nat,
         token[this] >= a + b, token' = paid(p, a, q, b),
         - (a + b)
           = (accountOf(participants', <<id, p>>) - accountOf(participants, <<id, p>>))
             + (accountOf(participants', <<id, q>>) - accountOf(participants, <<id, q>>))
             + (unlock_data'[<<id, p, q>>].locked_amount
                - unlock_data[<<id, p, q>>].locked_amount)
             + (unlock_data'[<<id, q, p>>].locked_amount
                - unlock_data[<<id, q, p>>].locked_amount)
  PROVE  accountedTo(id)
<1>1. token'[this] = token[this] - (a + b)
  BY PaidIsBalances
<1>2. token[this] \in Nat
  BY DEF TypeOK, Addresses
<1>3. token'[this] - token[this] = - (a + b)
  BY <1>1, <1>2
<1>4. \A r \in Participants : token'[r] > token[r] => r \in {p, q}
  BY PayeesOnly
<1>5. \A r \in Participants : token'[r] > token[r] => isPartyOf(id, r)
  BY <1>4
<1>. QED BY <1>3, <1>5, ChannelAccounted

\* The amounts of a state, for arithmetic.
LEMMA AmountsAreNat ==
  ASSUME TypeOK, NEW id \in ChannelIds, NEW p \in Participants, NEW q \in Participants
  PROVE  /\ participants[<<id, p>>].deposit \in Nat
         /\ participants[<<id, p>>].withdrawn_amount \in Nat
         /\ unlock_data[<<id, p, q>>].locked_amount \in Nat
<1>1. <<id, p>> \in ParticipantKeys /\ <<id, p, q>> \in UnlockIdentifiers
  BY KeyOf, UnlockKeyOf DEF getUnlockIdentifier
<1>. QED BY <1>1, MaxIsNat DEF TypeOK, Participant, UnlockData, Uint

LEMMA WithdrawAccounted ==
  ASSUME SafetyInv, TypeOK', NEW id \in ChannelIds, NEW p \in Participants,
         NEW q \in Participants, NEW total_withdraw \in Uint, NEW withdrawable_until,
         setTotalWithdraw(id, p, q, total_withdraw, withdrawable_until)
  PROVE  accountedTo(id)
<1> DEFINE k1 == <<id, p>>     k2 == <<id, q>>
           u1 == <<id, p, q>>  u2 == <<id, q, p>>
           current == total_withdraw - participants[k1].withdrawn_amount
<1>1. /\ p # q /\ id = getChannelIdentifier(p, q)
      /\ total_withdraw > participants[k1].withdrawn_amount
      /\ token[this] >= current /\ token' = paid(p, current, p, 0)
      /\ stuck' = stuck /\ unlock_data' = unlock_data /\ TypeOK
  BY DEF setTotalWithdraw, withdrawAllowed, SafetyInv
<1>2. /\ k1 \in ParticipantKeys /\ k2 \in ParticipantKeys /\ k1 # k2
  BY <1>1, KeyOf
<1>3. /\ \A k \in ParticipantKeys \ {k1} : participants'[k] = participants[k]
      /\ participants'[k1].deposit = participants[k1].deposit
      /\ participants'[k1].withdrawn_amount = total_withdraw
      /\ participants'[k2] = participants[k2]
  BY <1>2 DEF setTotalWithdraw, SafetyInv, TypeOK, Participant
<1>4. /\ participants[k1].deposit \in Nat /\ participants[k1].withdrawn_amount \in Nat
      /\ participants[k2].deposit \in Nat /\ participants[k2].withdrawn_amount \in Nat
      /\ unlock_data[u1].locked_amount \in Nat /\ unlock_data[u2].locked_amount \in Nat
      /\ total_withdraw \in Nat
  BY <1>1, AmountsAreNat, MaxIsNat DEF Uint
<1>5. current \in Nat /\ current + 0 = current
  BY <1>1, <1>4
\* Paying p alone is paying p and nothing to q.
<1>6. token' = paid(p, current, q, 0)
  <2>1. TypeOK
    BY <1>1
  <2>. HIDE DEF current
  <2>2. \A x \in Addresses : token[x] + (IF x = p THEN current ELSE 0) + 0
          = token[x] + (IF x = p THEN current ELSE 0)
    BY <1>5, <2>1 DEF TypeOK
  <2>3. \A x \in Addresses :
          /\ token[x] + (IF x = p THEN current ELSE 0) + (IF x = p THEN 0 ELSE 0)
             = token[x] + (IF x = p THEN current ELSE 0)
          /\ token[x] + (IF x = p THEN current ELSE 0) + (IF x = q THEN 0 ELSE 0)
             = token[x] + (IF x = p THEN current ELSE 0)
    BY <2>2
  <2>. QED BY <1>1, <2>3 DEF paid
<1>7. \A k \in ParticipantKeys \ {k1, k2} : participants'[k] = participants[k]
  BY <1>3
<1>8. \A r \in {p, q} : isPartyOf(id, r)
  BY <1>1, PartiesOfChannel
<1>. HIDE DEF k1, k2, u1, u2
<1>9. - (current + 0)
        = (accountOf(participants', k1) - accountOf(participants, k1))
          + (accountOf(participants', k2) - accountOf(participants, k2))
          + (unlock_data'[u1].locked_amount - unlock_data[u1].locked_amount)
          + (unlock_data'[u2].locked_amount - unlock_data[u2].locked_amount)
  BY <1>1, <1>3, <1>4 DEF accountOf
<1>10. \A u \in UnlockIdentifiers \ {u1, u2} : unlock_data'[u] = unlock_data[u]
  BY <1>1
<1>. HIDE DEF current
<1>11. token[this] >= current + 0
  BY <1>1, <1>5
<1>. QED
  BY <1>1, <1>5, <1>6, <1>7, <1>8, <1>9, <1>10, <1>11, PaymentAccounted DEF k1, k2, u1, u2

LEMMA CooperativeAccounted ==
  ASSUME SafetyInv, TypeOK', NEW id \in ChannelIds, NEW data1 \in WithdrawInputs,
         NEW data2 \in WithdrawInputs, cooperativeSettle(id, data1, data2)
  PROVE  accountedTo(id)
<1> DEFINE p == data1.participant
           q == data2.participant
           w1 == participants[<<id, p>>].withdrawn_amount
           w2 == participants[<<id, q>>].withdrawn_amount
<1>1. /\ p # q /\ id = getChannelIdentifier(p, q) /\ removeChannelData(id, p, q)
      /\ stuck' = stuck /\ unlock_data' = unlock_data /\ TypeOK
  BY DEF cooperativeSettle, SafetyInv
<1>2. p \in Participants /\ q \in Participants
  BY WithdrawInputsType
<1>3. token'[this] - token[this]
        = - (accountOf(participants, <<id, p>>) + accountOf(participants, <<id, q>>))
  BY CooperativePaysAll DEF accountOf
<1>4. \E a, b \in Nat : token[this] >= a + b /\ token' = paid(p, a, q, b)
  BY <1>1, CooperativeAmounts
<1>. HIDE DEF p, q
<1>5. PICK a \in Nat, b \in Nat : token[this] >= a + b /\ token' = paid(p, a, q, b)
  BY <1>4
<1> DEFINE k1 == <<id, p>>     k2 == <<id, q>>
           u1 == <<id, p, q>>  u2 == <<id, q, p>>
<1>6. token'[this] = token[this] - (a + b) /\ token[this] \in Nat
  BY <1>1, <1>2, <1>5, PaidIsBalances DEF TypeOK, Addresses
<1>7. /\ \A k \in ParticipantKeys \ {k1, k2} : participants'[k] = participants[k]
      /\ participants'[k1] = NoParticipant /\ participants'[k2] = NoParticipant
  <2>1. k1 \in ParticipantKeys /\ k2 \in ParticipantKeys
    BY <1>2, KeyOf
  <2>. QED BY <1>1, <2>1 DEF removeChannelData, removedAccounts, TypeOK
<1>8. /\ participants[k1].deposit \in Nat /\ participants[k1].withdrawn_amount \in Nat
      /\ participants[k2].deposit \in Nat /\ participants[k2].withdrawn_amount \in Nat
      /\ unlock_data[u1].locked_amount \in Nat /\ unlock_data[u2].locked_amount \in Nat
  BY <1>1, <1>2, AmountsAreNat
<1>9. /\ accountOf(participants', k1) = 0 /\ accountOf(participants', k2) = 0
      /\ accountOf(participants, k1) \in Int /\ accountOf(participants, k2) \in Int
  BY <1>7, <1>8 DEF accountOf, NoParticipant
<1>10. \A r \in {p, q} : isPartyOf(id, r)
  BY <1>1, <1>2, PartiesOfChannel
<1>11. \A k \in ParticipantKeys \ {k1, k2} : participants'[k] = participants[k]
  BY <1>7
<1>12. \A u \in UnlockIdentifiers \ {u1, u2} : unlock_data'[u] = unlock_data[u]
  BY <1>1
<1>13. token'[this] - token[this] = - (accountOf(participants, k1) + accountOf(participants, k2))
  BY <1>3
<1>. HIDE DEF k1, k2, u1, u2
<1>14. - (a + b)
         = (accountOf(participants', k1) - accountOf(participants, k1))
           + (accountOf(participants', k2) - accountOf(participants, k2))
           + (unlock_data'[u1].locked_amount - unlock_data[u1].locked_amount)
           + (unlock_data'[u2].locked_amount - unlock_data[u2].locked_amount)
  BY <1>1, <1>6, <1>8, <1>9, <1>13
<1>. QED
  BY <1>1, <1>2, <1>5, <1>10, <1>11, <1>12, <1>14, PaymentAccounted DEF k1, k2, u1, u2

LEMMA SettleAccounted ==
  ASSUME SafetyInv, TypeOK', NEW id \in ChannelIds,
         NEW p \in Participants, NEW q \in Participants,
         NEW data1 \in BalanceData, NEW data2 \in BalanceData,
         settleChannel(id, p, data1, q, data2)
  PROVE  accountedTo(id)
<1> DEFINE k1 == <<id, p>>  u1 == <<id, p, q>>
           k2 == <<id, q>>  u2 == <<id, q, p>>
           a1 == participants[k1]
           a2 == participants[k2]
<1>1. /\ p # q /\ id = getChannelIdentifier(p, q) /\ stuck' = stuck /\ TypeOK
  BY DEF settleChannel, settleAllowed, SafetyInv
<1>2. PICK S1 \in Nat, S2 \in Nat, SL1 \in Nat, SL2 \in Nat :
        /\ S1 + S2 + SL1 + SL2
             = a1.deposit + a2.deposit - a1.withdrawn_amount - a2.withdrawn_amount
        /\ token[this] >= S1 + S2 /\ token' = paid(p, S1, q, S2)
        /\ unlock_data[u1] = NoUnlockData /\ unlock_data[u2] = NoUnlockData
        /\ unlock_data'[u1].locked_amount = SL1 /\ unlock_data'[u2].locked_amount = SL2
        /\ \A k \in UnlockIdentifiers \ {u1, u2} : unlock_data'[k] = unlock_data[k]
        /\ participants'[k1] = NoParticipant /\ participants'[k2] = NoParticipant
        /\ \A k \in ParticipantKeys \ {k1, k2} : participants'[k] = participants[k]
  BY SettleEffect
<1>3. /\ a1.deposit \in Nat /\ a1.withdrawn_amount \in Nat
      /\ a2.deposit \in Nat /\ a2.withdrawn_amount \in Nat
  BY <1>1, AmountsAreNat
<1>4. /\ unlock_data[u1].locked_amount = 0 /\ unlock_data[u2].locked_amount = 0
      /\ accountOf(participants', k1) = 0 /\ accountOf(participants', k2) = 0
      /\ accountOf(participants, k1) = a1.deposit - a1.withdrawn_amount
      /\ accountOf(participants, k2) = a2.deposit - a2.withdrawn_amount
  BY <1>2 DEF NoUnlockData, NoParticipant, accountOf
<1>5. \A r \in {p, q} : isPartyOf(id, r)
  BY <1>1, PartiesOfChannel
<1>6. \A k \in ParticipantKeys \ {k1, k2} : participants'[k] = participants[k]
  BY <1>2
<1>7. \A u \in UnlockIdentifiers \ {u1, u2} : unlock_data'[u] = unlock_data[u]
  BY <1>2
<1>8. /\ token[this] >= S1 + S2 /\ token' = paid(p, S1, q, S2)
      /\ unlock_data'[u1].locked_amount = SL1 /\ unlock_data'[u2].locked_amount = SL2
      /\ S1 + S2 + SL1 + SL2
           = a1.deposit + a2.deposit - a1.withdrawn_amount - a2.withdrawn_amount
  BY <1>2
<1>. HIDE DEF k1, k2, u1, u2, a1, a2
<1>9. - (S1 + S2)
        = (accountOf(participants', k1) - accountOf(participants, k1))
          + (accountOf(participants', k2) - accountOf(participants, k2))
          + (unlock_data'[u1].locked_amount - unlock_data[u1].locked_amount)
          + (unlock_data'[u2].locked_amount - unlock_data[u2].locked_amount)
  BY <1>3, <1>4, <1>8
<1>. QED BY <1>1, <1>5, <1>6, <1>7, <1>8, <1>9, PaymentAccounted DEF k1, k2, u1, u2

\* The channel is gone when its locks are unlocked: the parties are those its
\* settlement recorded.
LEMMA UnlockAccounted ==
  ASSUME SafetyInv, TypeOK', NEW id \in ChannelIds,
         NEW p \in Participants, NEW q \in Participants, NEW locks,
         unlock(id, p, q, locks)
  PROVE  accountedTo(id)
<1> DEFINE k1 == <<id, p>>  u1 == <<id, p, q>>
           k2 == <<id, q>>  u2 == <<id, q, p>>
<1>1. /\ p # q /\ stuck' = stuck /\ participants' = participants /\ TypeOK
      /\ unlock_data[u2].locked_amount > 0
  BY DEF unlock, unlockAllowed, channelVars, getUnlockIdentifier, SafetyInv
<1>2. u1 \in UnlockIdentifiers /\ u2 \in UnlockIdentifiers /\ u1 # u2
  BY <1>1, UnlockKeyOf DEF getUnlockIdentifier
<1>3. /\ unlock_data'[u2] = NoUnlockData
      /\ \A u \in UnlockIdentifiers \ {u2} : unlock_data'[u] = unlock_data[u]
  BY <1>1, <1>2 DEF unlock, deletedUnlockData, getUnlockIdentifier, TypeOK
<1>4. PICK a \in Nat, b \in Nat : /\ a + b = unlock_data[u2].locked_amount
                                  /\ token[this] >= unlock_data[u2].locked_amount
                                  /\ token' = paid(p, a, q, b)
  BY <1>1, UnlockAmounts DEF getUnlockIdentifier
<1>5. /\ participants[k1].deposit \in Nat /\ participants[k1].withdrawn_amount \in Nat
      /\ participants[k2].deposit \in Nat /\ participants[k2].withdrawn_amount \in Nat
      /\ unlock_data[u1].locked_amount \in Nat /\ unlock_data[u2].locked_amount \in Nat
  BY <1>1, AmountsAreNat
<1>6. \A r \in {p, q} : isPartyOf(id, r)
  <2>1. unlock_data[u2] # NoUnlockData
    BY <1>1 DEF NoUnlockData
  <2>. QED BY <1>1, <2>1 DEF isPartyOf
<1>7. \A k \in ParticipantKeys \ {k1, k2} : participants'[k] = participants[k]
  BY <1>1
<1>8. \A u \in UnlockIdentifiers \ {u1, u2} : unlock_data'[u] = unlock_data[u]
  BY <1>3
<1>9. unlock_data'[u2].locked_amount = 0 /\ unlock_data'[u1] = unlock_data[u1]
  BY <1>2, <1>3 DEF NoUnlockData
<1>. HIDE DEF k1, k2, u1, u2
<1>10. - (a + b)
         = (accountOf(participants', k1) - accountOf(participants, k1))
           + (accountOf(participants', k2) - accountOf(participants, k2))
           + (unlock_data'[u1].locked_amount - unlock_data[u1].locked_amount)
           + (unlock_data'[u2].locked_amount - unlock_data[u2].locked_amount)
  BY <1>1, <1>4, <1>5, <1>9 DEF accountOf
<1>11. token[this] >= a + b /\ token' = paid(p, a, q, b)
  BY <1>4
<1>. QED BY <1>1, <1>6, <1>7, <1>8, <1>10, <1>11, PaymentAccounted DEF k1, k2, u1, u2

LEMMA ProofKeepsAmounts ==
  ASSUME NEW ps, ps \in [ParticipantKeys -> Participant],
         NEW id \in ChannelIds, NEW p \in Participants, NEW nonce, NEW balance_hash,
         NEW k \in ParticipantKeys
  PROVE  /\ withBalanceProof(ps, id, p, nonce, balance_hash)[k].deposit = ps[k].deposit
         /\ withBalanceProof(ps, id, p, nonce, balance_hash)[k].withdrawn_amount
              = ps[k].withdrawn_amount
<1>1. CASE k = <<id, p>>
  BY <1>1 DEF withBalanceProof, Participant
<1>2. CASE k # <<id, p>>
  BY <1>2 DEF withBalanceProof
<1>. QED BY <1>1, <1>2

LEMMA CloseAccounted ==
  ASSUME TypeOK, CloseNext PROVE sameAmounts
<1>1. ASSUME NEW id \in ChannelIds, NEW p \in Participants, NEW q \in Participants,
             NEW m \in CounterSignatures, closeChannel(id, p, q, m.balance_hash, m.nonce)
      PROVE  sameAmounts
  <2> DEFINE closed == [participants EXCEPT ![<<id, q>>].is_the_closer = TRUE]
  <2>1. /\ closed \in [ParticipantKeys -> Participant]
        /\ \A k \in ParticipantKeys :
             /\ closed[k].deposit = participants[k].deposit
             /\ closed[k].withdrawn_amount = participants[k].withdrawn_amount
    BY KeyOf DEF TypeOK, Participant
  <2>2. /\ participants' \in {closed, withBalanceProof(closed, id, p, m.nonce, m.balance_hash)}
        /\ unlock_data' = unlock_data
    BY <1>1 DEF closeChannel, withCloser
  <2>. HIDE DEF closed
  <2>3. CASE participants' = closed
    BY <2>1, <2>2, <2>3 DEF sameAmounts
  <2>4. CASE participants' = withBalanceProof(closed, id, p, m.nonce, m.balance_hash)
    <3>1. \A k \in ParticipantKeys :
            /\ participants'[k].deposit = closed[k].deposit
            /\ participants'[k].withdrawn_amount = closed[k].withdrawn_amount
      BY <2>1, <2>4, ProofKeepsAmounts
    <3>. QED BY <2>1, <2>2, <3>1 DEF sameAmounts
  <2>. QED BY <2>2, <2>3, <2>4
<1>2. ASSUME NEW id \in ChannelIds, NEW p \in Participants, NEW q \in Participants,
             NEW m \in BalanceProofs,
             updateNonClosingBalanceProof(id, p, q, m.balance_hash, m.nonce)
      PROVE  sameAmounts
  <2>1. /\ participants' = withBalanceProof(participants, id, p, m.nonce, m.balance_hash)
        /\ unlock_data' = unlock_data
        /\ participants \in [ParticipantKeys -> Participant]
    BY <1>2 DEF updateNonClosingBalanceProof, TypeOK
  <2>2. \A k \in ParticipantKeys :
          /\ participants'[k].deposit = participants[k].deposit
          /\ participants'[k].withdrawn_amount = participants[k].withdrawn_amount
    BY <2>1, ProofKeepsAmounts
  <2>. QED BY <2>1, <2>2 DEF sameAmounts
<1>. QED BY <1>1, <1>2 DEF CloseNext

LEMMA StepAccounted ==
  SafetyInv /\ [Next]_vars => [\E id \in ChannelIds : accountedTo(id)]_vars
<1> SUFFICES ASSUME SafetyInv, Next PROVE \E id \in ChannelIds : accountedTo(id)
  OBVIOUS
<1>1. TypeOK /\ TypeOK' /\ 1 \in ChannelIds
  BY StepType, ConstructorAssumption DEF SafetyInv, ChannelIds
<1>2. CASE FundingNext
  BY <1>1, <1>2, FundingAccounted
<1>3. CASE WithdrawNext
  BY <1>1, <1>3, WithdrawAccounted, CooperativeAccounted, MessagesAssumption DEF WithdrawNext
<1>4. ASSUME NEW id \in ChannelIds, settleById(id) PROVE accountedTo(id)
  BY <1>1, <1>4, SettleAccounted DEF settleById
<1>5. ASSUME NEW id \in ChannelIds, unlockById(id) PROVE accountedTo(id)
  BY <1>1, <1>5, UnlockAccounted DEF unlockById
<1>6. ASSUME UNCHANGED <<token, stuck>>, sameAmounts PROVE accountedTo(1)
  <2>1. /\ token[this] \in Nat /\ stuck \in Nat /\ \A r \in Participants : token[r] \in Nat
    BY <1>1 DEF TypeOK, Addresses
  <2>2. \A r \in Participants : ~(token'[r] > token[r])
    BY <1>6, <2>1
  <2>3. token'[this] - token[this] = stuck' - stuck /\ stuck' \in Nat
    BY <1>6, <2>1
  <2>. QED BY <1>1, <1>6, <2>1, <2>2, <2>3, QuietAccounted
<1>7. CASE RegistryNext \/ ControllerNext
  <2>1. UNCHANGED <<token, stuck>> /\ sameAmounts
    BY <1>7 DEF RegistryNext, ControllerNext, deprecate, removeLimits, changeController,
                channelVars, sameAmounts
  <2>. QED BY <1>1, <1>6, <2>1
<1>8. CASE CloseNext
  <2>1. UNCHANGED <<token, stuck>>
    BY <1>8 DEF CloseNext, closeChannel, updateNonClosingBalanceProof
  <2>. QED BY <1>1, <1>6, <1>8, <2>1, CloseAccounted
<1>. QED BY <1>1, <1>2, <1>3, <1>4, <1>5, <1>7, <1>8 DEF Next

\* Every token the contract receives or pays is accounted to one channel, by
\* exactly that amount; every other channel is owed what it was owed, and only
\* the parties of that channel are paid.
THEOREM PayoutsAccounted == Spec => PayoutsStayInChannel
<1>1. SafetyInv /\ [Next]_vars => [\E id \in ChannelIds : accountedTo(id)]_vars
  BY StepAccounted
<1>. QED BY <1>1, SafetyInvariance, PTL DEF Spec, PayoutsStayInChannel
=============================================================================
