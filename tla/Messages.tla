------------------------------ MODULE Messages ------------------------------
(***************************************************************************)
(* The signed messages: how utils/proofs.py packs them and how the         *)
(* contracts pack what they are given before they recover the signer.  A   *)
(* packed message is laid out in cells, big-endian, of which a part has    *)
(* fewer than it has bytes, so that parts of different widths may share    *)
(* cells; its length counts the bytes.  A signature counts for a call      *)
(* exactly if what is hashed is the same.                                  *)
(***************************************************************************)
EXTENDS Naturals, Sequences

CONSTANT Values     \* of every field

ASSUME ValuesAssumption == Values \subseteq Nat

address(x)   == [length |-> 20, cells |-> <<x>>]
word(x)      == [length |-> 32, cells |-> <<0, x>>]
signature(x) == [length |-> 65, cells |-> <<0, 0, 0, x>>]

\* abi.encodePacked puts one part after the other.
p ++ q == [length |-> p.length + q.length, cells |-> p.cells \o q.cells]

\* enum MessageTypeId
BALANCE_PROOF        == 1
BALANCE_PROOF_UPDATE == 2
WITHDRAW             == 3
COOPERATIVE_SETTLE   == 4
IOU                  == 5
MSReward             == 6

-----------------------------------------------------------------------------
(* What can be signed.                                                     *)
BalanceProofs ==
  [kind : {"balance_proof"}, contract : Values, chain : Values, id : Values,
   balance_hash : Values, nonce : Values, additional_hash : Values]

CounterSignatures ==
  [kind : {"counter_signature"}, msg_type : {BALANCE_PROOF, BALANCE_PROOF_UPDATE},
   contract : Values, chain : Values, id : Values, balance_hash : Values, nonce : Values,
   additional_hash : Values, closing_signature : Values]

Withdraws ==
  [kind : {"withdraw"}, contract : Values, chain : Values, id : Values,
   participant : Values, total_withdraw : Values, withdrawable_until : Values]

CooperativeSettles ==
  [kind : {"cooperative_settle"}, contract : Values, chain : Values, id : Values,
   participant1 : Values, balance1 : Values, participant2 : Values, balance2 : Values]

RewardProofs ==
  [kind : {"reward_proof"}, contract : Values, chain : Values, token_network : Values,
   non_closing : Values, non_closing_signature : Values, reward_amount : Values]

IOUs ==
  [kind : {"iou"}, contract : Values, chain : Values, sender : Values, receiver : Values,
   amount : Values, claimable_until : Values]

Verified == BalanceProofs \cup CounterSignatures \cup Withdraws \cup RewardProofs \cup IOUs

-----------------------------------------------------------------------------
(* utils/proofs.py.                                                        *)
pack_balance_proof(m, msg_type) ==
  address(m.contract) ++ word(m.chain) ++ word(msg_type) ++ word(m.id)
    ++ word(m.balance_hash) ++ word(m.nonce) ++ word(m.additional_hash)

pack_balance_proof_message(m, msg_type) ==
  pack_balance_proof(m, msg_type) ++ signature(m.closing_signature)

pack_cooperative_settle_message(m) ==
  address(m.contract) ++ word(m.chain) ++ word(COOPERATIVE_SETTLE) ++ word(m.id)
    ++ address(m.participant1) ++ word(m.balance1) ++ address(m.participant2)
    ++ word(m.balance2)

pack_withdraw_message(m) ==
  address(m.contract) ++ word(m.chain) ++ word(WITHDRAW) ++ word(m.id)
    ++ address(m.participant) ++ word(m.total_withdraw) ++ word(m.withdrawable_until)

pack_reward_proof(m) ==
  address(m.contract) ++ word(m.chain) ++ word(MSReward) ++ address(m.token_network)
    ++ address(m.non_closing) ++ signature(m.non_closing_signature)
    ++ word(m.reward_amount)

pack_one_to_n_iou(m) ==
  address(m.contract) ++ word(m.chain) ++ word(IOU) ++ address(m.sender)
    ++ address(m.receiver) ++ word(m.amount) ++ word(m.claimable_until)

\* What is hashed: the message behind a prefix that states its length.
hashed(length, packed) == <<length>> \o packed.cells

\* utils/proofs.py counts the bytes, the contracts have the length written out.
eth_sign_hash_message(encoded_message) == hashed(encoded_message.length, encoded_message)

signedBytes(m) ==
  eth_sign_hash_message(
    CASE m.kind = "balance_proof"      -> pack_balance_proof(m, BALANCE_PROOF)
      [] m.kind = "counter_signature"  -> pack_balance_proof_message(m, m.msg_type)
      [] m.kind = "withdraw"           -> pack_withdraw_message(m)
      [] m.kind = "cooperative_settle" -> pack_cooperative_settle_message(m)
      [] m.kind = "reward_proof"       -> pack_reward_proof(m)
      [] m.kind = "iou"                -> pack_one_to_n_iou(m))

-----------------------------------------------------------------------------
(* The contracts.                                                          *)
recoverAddressFromBalanceProof(m) ==
  hashed(212, address(m.contract) ++ word(m.chain) ++ word(BALANCE_PROOF) ++ word(m.id)
    ++ word(m.balance_hash) ++ word(m.nonce) ++ word(m.additional_hash))

\* The mutant takes every countersignature for one of a closing.
counterSignatureAnyTypeMutant(m) ==
  hashed(277, address(m.contract) ++ word(m.chain) ++ word(BALANCE_PROOF) ++ word(m.id)
    ++ word(m.balance_hash) ++ word(m.nonce) ++ word(m.additional_hash)
    ++ signature(m.closing_signature))

recoverAddressFromBalanceProofCounterSignature(m) ==
  hashed(277, address(m.contract) ++ word(m.chain) ++ word(m.msg_type) ++ word(m.id)
    ++ word(m.balance_hash) ++ word(m.nonce) ++ word(m.additional_hash)
    ++ signature(m.closing_signature))

recoverAddressFromWithdrawMessage(m) ==
  hashed(200, address(m.contract) ++ word(m.chain) ++ word(WITHDRAW) ++ word(m.id)
    ++ address(m.participant) ++ word(m.total_withdraw) ++ word(m.withdrawable_until))

recoverAddressFromRewardProof(m) ==
  hashed(221, address(m.contract) ++ word(m.chain) ++ word(MSReward)
    ++ address(m.token_network) ++ address(m.non_closing)
    ++ signature(m.non_closing_signature) ++ word(m.reward_amount))

recoverAddressFromIOU(m) ==
  hashed(188, address(m.contract) ++ word(m.chain) ++ word(IOU) ++ address(m.sender)
    ++ address(m.receiver) ++ word(m.amount) ++ word(m.claimable_until))

recoveredBytes(m) ==
  CASE m.kind = "balance_proof"     -> recoverAddressFromBalanceProof(m)
    [] m.kind = "counter_signature" -> recoverAddressFromBalanceProofCounterSignature(m)
    [] m.kind = "withdraw"          -> recoverAddressFromWithdrawMessage(m)
    [] m.kind = "reward_proof"      -> recoverAddressFromRewardProof(m)
    [] m.kind = "iou"               -> recoverAddressFromIOU(m)

-----------------------------------------------------------------------------
NoMessage == [kind |-> "none"]

VARIABLE message     \* the one that was signed

MessagesInit == message = NoMessage

Sign(m) == message = NoMessage /\ message' = m

MessagesNext == \E m \in Verified \cup CooperativeSettles : Sign(m)

MessagesSpec == MessagesInit /\ [][MessagesNext]_message

\* A contract recovers the signer of everything that was signed for it: the same
\* parts in the same order, and the length that its prefix states.  And of
\* nothing else: not for another contract or chain, not for other values, not
\* for a message of another kind or type, even where the widths add up to the
\* same length; what is signed for a cooperative settlement is accepted for
\* nothing at all.
AcceptedForItselfOnly ==
  message # NoMessage =>
    \A call \in Verified : recoveredBytes(call) = signedBytes(message) <=> call = message
=============================================================================
