--------------------------- MODULE MCTokenNetwork ---------------------------
(***************************************************************************)
(* Two participants that open a channel and, once it is gone, a second     *)
(* one.  Alice has sent Bob two balance proofs, the second after one lock  *)
(* was unlocked; Bob has sent Alice one.  Some messages only one of them   *)
(* has signed.  The token's whole supply is MAX_SAFE_UINT256, so total     *)
(* deposits can exceed it once something was withdrawn.                    *)
(***************************************************************************)
EXTENDS TokenNetworkChannels, TLC

CONSTANTS alice, bob, secret

MCParticipants  == {alice, bob}
MCInitialTokens == (alice :> 2) @@ (bob :> 1)

lock1 == [locked_amount |-> 1, unlockable_until |-> 3, secrethash |-> secret]
lock2 == [locked_amount |-> 1, unlockable_until |-> 4, secrethash |-> secret]

MCLockLists == {<<>>, <<lock1, lock2>>, <<lock2>>}

data(transferred_amount, locked_amount, locksroot) ==
  [transferred_amount |-> transferred_amount, locked_amount |-> locked_amount,
   locksroot |-> locksroot]

noData   == data(0, 0, <<>>)
aliceOld == data(0, 2, <<lock1, lock2>>)
aliceNew == data(1, 1, <<lock2>>)
bobData  == data(1, 0, <<>>)

MCBalanceData == {noData, aliceOld, aliceNew, bobData}

proof(id, signer, nonce, balance_hash) ==
  [channel_identifier |-> id, signer |-> signer, nonce |-> nonce,
   balance_hash |-> balance_hash]

MCBalanceProofs ==
  UNION {{proof(id, alice, 1, aliceOld), proof(id, alice, 2, aliceNew),
          proof(id, bob, 1, bobData)} : id \in {1, 2}}

counter(message_type, id, signer, nonce, balance_hash) ==
  [message_type |-> message_type, channel_identifier |-> id, signer |-> signer,
   nonce |-> nonce, balance_hash |-> balance_hash]

\* Bob closes with either proof of Alice or with none; Alice has not signed
\* the update with Bob's data for the second channel.
MCCounterSignatures ==
  UNION {{counter("BalanceProof", id, bob, 1, aliceOld),
          counter("BalanceProof", id, bob, 2, aliceNew),
          counter("BalanceProof", id, bob, 0, ZeroHash),
          counter("BalanceProof", id, alice, 1, bobData),
          counter("BalanceProofUpdate", id, bob, 1, aliceOld),
          counter("BalanceProofUpdate", id, bob, 2, aliceNew)} : id \in {1, 2}}
  \cup {counter("BalanceProofUpdate", 1, alice, 1, bobData)}

withdraw(id, signer, participant, total_withdraw, withdrawable_until) ==
  [channel_identifier |-> id, signer |-> signer, participant |-> participant,
   total_withdraw |-> total_withdraw, withdrawable_until |-> withdrawable_until]

\* Both have signed that Bob may withdraw 1 (and, later, 2) and Alice 1; only
\* Alice that she may withdraw 2.
MCWithdrawMessages ==
  UNION {{withdraw(id, signer, bob, 1, 2), withdraw(id, signer, bob, 2, 4),
          withdraw(id, signer, alice, 1, 3)} :
         id \in {1, 2}, signer \in {alice, bob}}
  \cup {withdraw(1, alice, alice, 2, 4)}
=============================================================================
