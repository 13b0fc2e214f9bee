------------------------------ MODULE Channels ------------------------------
(***************************************************************************)
(* What a TokenNetwork promises to those who follow a channel's life from  *)
(* outside, the MonitoringService above all: a channel goes through its    *)
(* states in one direction; while it is Closed the nonce of the closer's   *)
(* balance proof only grows, and it is settled, once, after the window     *)
(* that started when it was closed.  TokenNetworkChannels shows that       *)
(* TokenNetwork implements this specification.                             *)
(***************************************************************************)
EXTENDS Clock

CONSTANTS
  ChannelIds,      \* 1 .. n, in the order they are opened
  Nonces,          \* nonces of balance proofs of the closing participant
  SettleTimeout

ASSUME ChannelsAssumption ==
  ChannelIds \subseteq Nat \ {0} /\ Nonces \subseteq Nat \ {0} /\ SettleTimeout \in Nat \ {0}

VARIABLES
  channel_state,       \* as getChannelState reports it to its participants
  settleable_after,
  closer_nonce         \* nonce of the closing participant's data; 0: none

channelsVars == <<channel_state, settleable_after, closer_nonce>>

ChannelStates == {"NonExistent", "Opened", "Closed", "Settled", "Removed"}

ChannelsTypeOK ==
  /\ channel_state \in [ChannelIds -> ChannelStates]
  /\ settleable_after \in [ChannelIds -> Nat]
  /\ closer_nonce \in [ChannelIds -> Nonces \cup {0}]

ChannelsInit ==
  /\ channel_state = [id \in ChannelIds |-> "NonExistent"]
  /\ settleable_after = [id \in ChannelIds |-> 0]
  /\ closer_nonce = [id \in ChannelIds |-> 0]

OpenChannel(id) ==
  /\ channel_state[id] = "NonExistent"
  /\ \A other \in ChannelIds : other < id => channel_state[other] # "NonExistent"
  /\ channel_state' = [channel_state EXCEPT ![id] = "Opened"]
  /\ UNCHANGED <<settleable_after, closer_nonce>>

CooperativeSettle(id) ==
  /\ channel_state[id] = "Opened"
  /\ channel_state' = [channel_state EXCEPT ![id] = "Removed"]
  /\ UNCHANGED <<settleable_after, closer_nonce>>

CloseChannel(id) ==
  /\ channel_state[id] = "Opened"
  /\ channel_state' = [channel_state EXCEPT ![id] = "Closed"]
  /\ settleable_after' = [settleable_after EXCEPT ![id] = timestamp + SettleTimeout]
  /\ UNCHANGED closer_nonce

\* The mutant takes a balance proof again that was presented before.
newerProofOrSameMutant(id, nonce) == nonce >= closer_nonce[id]

newerProof(id, nonce) == nonce > closer_nonce[id]

\* Allowed as long as the channel is not settled, its window over or not.
UpdateBalanceProof(id, nonce) ==
  /\ channel_state[id] = "Closed"
  /\ newerProof(id, nonce)
  /\ closer_nonce' = [closer_nonce EXCEPT ![id] = nonce]
  /\ UNCHANGED <<channel_state, settleable_after>>

Settle(id) ==
  /\ channel_state[id] = "Closed"
  /\ settleable_after[id] < timestamp
  /\ \E outcome \in {"Settled", "Removed"} :
       channel_state' = [channel_state EXCEPT ![id] = outcome]
  /\ settleable_after' = [settleable_after EXCEPT ![id] = 0]
  /\ closer_nonce' = [closer_nonce EXCEPT ![id] = 0]

UnlockLast(id) ==
  /\ channel_state[id] = "Settled"
  /\ channel_state' = [channel_state EXCEPT ![id] = "Removed"]
  /\ UNCHANGED <<settleable_after, closer_nonce>>

\* The calls of the participants, and of anyone on their behalf.
ChannelsStep ==
  \E id \in ChannelIds :
    \/ OpenChannel(id)
    \/ CooperativeSettle(id)
    \/ CloseChannel(id)
    \/ \E nonce \in Nonces : UpdateBalanceProof(id, nonce)
    \/ Settle(id)
    \/ UnlockLast(id)

ChannelsNext ==
  \/ NextBlock /\ UNCHANGED channelsVars
  \/ ChannelsStep /\ UNCHANGED timestamp

ChannelsSpec ==
  ClockInit /\ ChannelsInit /\ [][ChannelsNext]_<<timestamp, channelsVars>>
=============================================================================
