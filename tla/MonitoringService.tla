-------------------------- MODULE MonitoringService --------------------------
(***************************************************************************)
(* MonitoringService: a registered service presents the newest balance     *)
(* proof of a closed channel in the name of the participant that did not   *)
(* close it, and may claim, out of that participant's deposit, the reward  *)
(* it has signed.  The TokenNetwork is Channels.                           *)
(***************************************************************************)
EXTENDS UserDeposit, Registrations, Channels, MonitoringWindow

CONSTANTS
  Addresses,       \* the integer value of each address
  NonClosing,      \* NonClosing[id]: the participant that is monitored for
  Closing,         \* Closing[id]: its partner's address as an integer
  RewardProofs     \* signed: [channel_identifier, nonce, reward_amount]

ASSUME MonitoringAssumption ==
  /\ Services \subseteq Users
  /\ Addresses \in [Users -> Nat] /\ Closing \in [ChannelIds -> Nat]
  /\ NonClosing \in [ChannelIds -> Users]
  /\ RewardProofs \subseteq [channel_identifier : ChannelIds, nonce : Nonces, reward_amount : Nat]

VARIABLES
  rewards,          \* by channel
  RewardClaimed     \* events: how often the reward of each proof was claimed

monitoringVars == <<rewards, RewardClaimed>>

NoReward == [reward_amount |-> 0, nonce |-> 0, monitoring_service_address |-> udc]

MonitoringTypeOK ==
  /\ rewards \in [ChannelIds -> [reward_amount : Nat, nonce : Nat,
                                 monitoring_service_address : Services \cup {udc}]]
  /\ RewardClaimed \in [ChannelIds \X Nonces -> Nat]

MonitoringInit ==
  /\ rewards = [id \in ChannelIds |-> NoReward]
  /\ RewardClaimed = [k \in ChannelIds \X Nonces |-> 0]

firstTimestampAllowedToMonitorChannel(id, service) ==
  firstTimestampAllowedToMonitor(settleable_after[id] - SettleTimeout, SettleTimeout,
                                 Closing[id] + Addresses[NonClosing[id]] + Addresses[service])

updateReward(id, proof, service) ==
  /\ rewards[id].nonce < proof.nonce
  /\ rewards' = [rewards EXCEPT ![id] =
       [reward_amount |-> proof.reward_amount, nonce |-> proof.nonce,
        monitoring_service_address |-> service]]

monitor(service, proof) ==
  LET id == proof.channel_identifier
  IN  /\ updateReward(id, proof, service)
      /\ hasValidRegistration(service)
      /\ channel_state[id] = "Closed"
      /\ monitorable(SettleTimeout)
      /\ timestamp >= firstTimestampAllowedToMonitorChannel(id, service)
      /\ UpdateBalanceProof(id, proof.nonce)
      /\ UNCHANGED <<userDepositVars, service_valid_till, RewardClaimed>>

\* A reward is claimed by anybody for the service.  While the window has not
\* ended nothing is paid.
claimableState(id) ==
  channel_state[id] \in {"Closed", "Settled", "Removed"} /\ settleable_after[id] < timestamp

claimReward(id) ==
  LET reward == rewards[id]
      sender == NonClosing[id]
  IN  /\ claimableState(id)
      /\ reward # NoReward
      /\ canTransfer(balances, sender, reward.monitoring_service_address, reward.reward_amount)
      /\ balances' = afterTransfer(balances, sender, reward.monitoring_service_address,
                                   reward.reward_amount)
      /\ transferred' = [transferred EXCEPT ![sender] = @ + reward.reward_amount]
      /\ RewardClaimed' = [RewardClaimed EXCEPT ![<<id, reward.nonce>>] = @ + 1]
      /\ rewards' = [rewards EXCEPT ![id] = NoReward]
      /\ UNCHANGED <<token, total_deposit, withdraw_plans, whole_balance, reading,
                     service_valid_till, channelsVars>>

MonitoringStep ==
  \/ \E s \in Services, proof \in RewardProofs : monitor(s, proof)
  \/ \E id \in ChannelIds : claimReward(id)

-----------------------------------------------------------------------------
(* Properties.                                                             *)

\* Nobody is rewarded twice for one balance proof, although claimReward forgets
\* the nonce it has paid for and monitor may be called again with the same
\* proof, for as long as the channel is not settled: then only TokenNetwork's
\* own nonce check stands against it.  The service that stands to be rewarded
\* has presented its proof, and nobody is rewarded for an open channel.
RewardsAreEarned ==
  /\ MonitoringTypeOK /\ RegistrationsTypeOK /\ ChannelsTypeOK
  /\ \A k \in DOMAIN RewardClaimed : RewardClaimed[k] <= 1
  /\ \A id \in ChannelIds : rewards[id] # NoReward =>
       /\ channel_state[id] \in {"Closed", "Settled", "Removed"}
       /\ channel_state[id] = "Closed" => rewards[id].nonce <= closer_nonce[id]

\* The comment of claimReward: "Called after a monitored channel is settled in
\* order for MS to claim the reward.  Can be called once per settled channel".
ClaimedOncePerChannel ==
  \A id \in ChannelIds : Total([n \in Nonces |-> RewardClaimed[<<id, n>>]]) <= 1
=============================================================================
