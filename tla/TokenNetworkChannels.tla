------------------------ MODULE TokenNetworkChannels ------------------------
(***************************************************************************)
(* TokenNetwork implements Channels: seen from outside, through            *)
(* getChannelState, settleable_after and the nonce of the closing          *)
(* participant's data, its channels behave as Channels allows.             *)
(***************************************************************************)
EXTENDS TokenNetwork

\* A channel's state as any two participants are told it, whoever of them is
\* named first.
contradictory(id) ==
  \E p, q \in Participants :
    p # q /\ getChannelState(id, p, q) # getChannelState(id, q, p)

settledFor(id) ==
  \E p, q \in Participants : p # q /\ getChannelState(id, p, q) = "Settled"

stateSeen(id) ==
  CASE contradictory(id) -> "contradictory"
    [] ~contradictory(id) /\ settledFor(id) -> "Settled"
    [] OTHER -> IF state[id] = "NonExistent" /\ id <= channel_counter
                THEN "Removed" ELSE state[id]

closers(id) == {p \in Participants : participants[<<id, p>>].is_the_closer}

nonceSeen(id) ==
  IF closers(id) = {} THEN 0
  ELSE participants[<<id, CHOOSE p \in closers(id) : TRUE>>].nonce

SignedNonces == {m.nonce : m \in BalanceProofs \cup CounterSignatures} \ {0}

Seen == INSTANCE Channels WITH
  Nonces           <- SignedNonces,
  channel_state    <- [id \in ChannelIds |-> stateSeen(id)],
  closer_nonce     <- [id \in ChannelIds |-> nonceSeen(id)]

\* Whatever anybody calls and in whatever order, a channel's state moves one
\* way only, the closer's nonce grows until the channel is settled, and the
\* settlement comes after the whole window.
ImplementsChannels == Seen!ChannelsSpec
=============================================================================
