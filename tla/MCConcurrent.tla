---------------------------- MODULE MCConcurrent ----------------------------
(***************************************************************************)
(* Three participants and two channels that exist at the same time, with   *)
(* one pending transfer in each, locked by the same secret (a transfer     *)
(* mediated over both).  The controller acts, and tokens are sent to the   *)
(* contract directly.                                                      *)
(***************************************************************************)
EXTENDS TokenNetwork, TLC

CONSTANTS alice, bob, carol, secret

MCParticipants  == {alice, bob, carol}
MCInitialTokens == (alice :> 2) @@ (bob :> 1) @@ (carol :> 0)

lock(unlockable_until) ==
  [locked_amount |-> 1, unlockable_until |-> unlockable_until, secrethash |-> secret]

data(transferred_amount, locked_amount, locksroot) ==
  [transferred_amount |-> transferred_amount, locked_amount |-> locked_amount,
   locksroot |-> locksroot]

noData    == data(0, 0, <<>>)
aliceData == data(0, 1, <<lock(3)>>)
bobData   == data(1, 1, <<lock(2)>>)

MCLockLists   == {<<>>, <<lock(2)>>, <<lock(3)>>}
MCBalanceData == {noData, aliceData, bobData}

proof(id, signer, nonce, balance_hash) ==
  [channel_identifier |-> id, signer |-> signer, nonce |-> nonce,
   balance_hash |-> balance_hash]

MCBalanceProofs == {proof(1, alice, 1, aliceData), proof(2, bob, 1, bobData)}

counter(message_type, id, signer, nonce, balance_hash) ==
  [message_type |-> message_type, channel_identifier |-> id, signer |-> signer,
   nonce |-> nonce, balance_hash |-> balance_hash]

MCCounterSignatures ==
  {counter("BalanceProof", 1, bob, 1, aliceData),
   counter("BalanceProof", 1, alice, 0, ZeroHash),
   counter("BalanceProofUpdate", 1, bob, 1, aliceData),
   counter("BalanceProof", 2, carol, 1, bobData)}

withdraw(id, signer, participant, total_withdraw, withdrawable_until) ==
  [channel_identifier |-> id, signer |-> signer, participant |-> participant,
   total_withdraw |-> total_withdraw, withdrawable_until |-> withdrawable_until]

MCWithdrawMessages ==
  {withdraw(id, signer, bob, 1, 2) : id \in {1, 2}, signer \in MCParticipants}
=============================================================================
