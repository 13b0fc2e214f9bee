-------------------------- MODULE MCRaidenServices --------------------------
(***************************************************************************)
(* One client and one or two services.  The client has signed two IOUs of  *)
(* one session and one of another, and reward proofs for two balance       *)
(* proofs of a channel.  Every behaviour follows one scenario, chosen at   *)
(* the start, which bounds what happens besides what it is about.          *)
(***************************************************************************)
EXTENDS RaidenServices

CONSTANTS client, s1, s2

MCInitialTokens == [u \in Users |-> IF u = client THEN 3 ELSE 0]
MCAddresses     == [u \in Users |-> IF u = s2 THEN 1 ELSE 0]
MCNonClosing    == [id \in ChannelIds |-> client]
MCClosing       == [id \in ChannelIds |-> 2 * id]

iou(receiver, amount, claimable_until) ==
  [sender |-> client, receiver |-> receiver, amount |-> amount,
   claimable_until |-> claimable_until]

MCIOUs == {iou(s1, 1, 2), iou(s1, 2, 2), iou(s1, 1, 3)}

MCBulks == {<<iou(s1, 1, 3), iou(s1, 2, 2)>>, <<iou(s1, 1, 2), iou(s1, 2, 2)>>}

MCRewardProofs ==
  {[channel_identifier |-> id, nonce |-> n, reward_amount |-> 1] : id \in ChannelIds, n \in Nonces}

VARIABLE scenario

\* One service claims IOUs; two services monitor a channel; one service does
\* both while the client withdraws.
Scenarios ==
  {[users |-> {client, s1}, deposits |-> {2, 3}, reads |-> TRUE,
    sessions |-> Sessions, nonces |-> {}, validTill |-> {0, 4, 5, 6}, time |-> 5],
   [users |-> Users, deposits |-> {3}, reads |-> FALSE,
    sessions |-> {}, nonces |-> Nonces, validTill |-> {0, 6, 7}, time |-> 6],
   [users |-> {client, s1}, deposits |-> {3}, reads |-> TRUE,
    sessions |-> {sessionOf(iou(s1, 1, 3))}, nonces |-> {1}, validTill |-> {0, 6}, time |-> 6]}

Within ==
  /\ timestamp <= scenario.time
  /\ \A u \in Users : total_deposit[u] \in scenario.deposits \cup {0}
  /\ \A u \in Users \ scenario.users : token[u] = 0 /\ total_deposit[u] = 0
  /\ \A s \in Services : service_valid_till[s] \in
       IF s \in scenario.users THEN scenario.validTill ELSE {0}
  /\ scenario.reads \/ \A u \in Watched : reading[u] = NoReading
  /\ \A s \in Sessions \ scenario.sessions : Claimed[s].times = 0
  /\ \A id \in ChannelIds :
       /\ closer_nonce[id] \in scenario.nonces \cup {0}
       /\ scenario.nonces = {} => channel_state[id] = "NonExistent"

MCInit == Init /\ scenario \in Scenarios
MCNext == UNCHANGED scenario /\ Next /\ Within'
MCSpec == MCInit /\ [][MCNext]_<<vars, scenario>>
=============================================================================
