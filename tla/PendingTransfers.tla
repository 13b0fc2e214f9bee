--------------------------- MODULE PendingTransfers ---------------------------
(***************************************************************************)
(* Pending transfers: utils/pending_transfers.py draws amounts, makes a    *)
(* lock of each, sorts the locks by their hashes and packs them; and       *)
(* TokenNetwork.getHashAndUnlockedAmount reads the packed locks again once *)
(* secrets have been registered.  Packed data is the sequence of its words *)
(* of 32 bytes.                                                            *)
(***************************************************************************)
EXTENDS SecretRegistry, SequencesExt, FiniteSetsExt

CONSTANTS
  UnlockableSums,         \* amounts the caller may ask for: to be unlocked
  ExpiredSums,            \* and to expire
  Deltas,                 \* expiration deltas, where 0 is none given
  TEST_SETTLE_TIMEOUT     \* reduced

PendingAssumption ==
  UnlockableSums \cup ExpiredSums \cup Deltas \subseteq Nat /\ TEST_SETTLE_TIMEOUT \in Nat

VARIABLES
  asked,        \* what the caller asks for
  unlockable_amounts, expired_amounts,     \* as far as they are drawn
  tree          \* the PendingTransfersTree, <<>> until it is there

treeVars == <<asked, unlockable_amounts, expired_amounts, tree>>
vars == <<registryVars, treeVars>>

Sum(amounts) == FoldLeft(LAMBDA sum, amount : sum + amount, 0, amounts)

Init ==
  /\ RegistryInit
  /\ asked \in [unlockable : UnlockableSums, expired : ExpiredSums,
               min_expiration_delta : Deltas, max_expiration_delta : Deltas]
  /\ unlockable_amounts = <<>>
  /\ expired_amounts = <<>>
  /\ tree = <<>>

\* The next of the random values.
get_random_values_for_sum(values_sum, values, drawn) ==
  /\ Sum(values) < values_sum
  /\ \E value \in 1 .. values_sum - Sum(values) : drawn = Append(values, value)

Draw ==
  /\ \/ /\ get_random_values_for_sum(asked.unlockable, unlockable_amounts,
                                     unlockable_amounts')
        /\ UNCHANGED expired_amounts
     \/ /\ Sum(unlockable_amounts) >= asked.unlockable
        /\ get_random_values_for_sum(asked.expired, expired_amounts, expired_amounts')
        /\ UNCHANGED unlockable_amounts
  /\ UNCHANGED <<registryVars, asked, tree>>

-----------------------------------------------------------------------------
Lock(expiration, amount, secrethash) ==
  [expiration |-> expiration, amount |-> amount, secrethash |-> secrethash]

\* The mutant leaves one second too few.
minExpirationMutant ==
  IF asked.min_expiration_delta # 0
  THEN asked.min_expiration_delta
  ELSE Len(unlockable_amounts)

minExpiration ==
  IF asked.min_expiration_delta # 0
  THEN asked.min_expiration_delta
  ELSE Len(unlockable_amounts) + 1

maxExpiration ==
  IF asked.max_expiration_delta # 0
  THEN asked.max_expiration_delta
  ELSE minExpiration + TEST_SETTLE_TIMEOUT

\* Every lock has a secret of its own.
Secret(i) == i
SecretOfExpired(i) == Len(unlockable_amounts) + i

unlockableLocks(deltas) ==
  {Lock(timestamp + deltas[i], unlockable_amounts[i], Secret(i)) :
     i \in DOMAIN unlockable_amounts}

expiredLocks ==
  {Lock(timestamp, expired_amounts[i], SecretOfExpired(i)) : i \in DOMAIN expired_amounts}

get_packed_transfers(locks) ==
  FoldLeft(LAMBDA words, lock : words \o <<lock.expiration, lock.amount, lock.secrethash>>,
           <<>>, locks)

get_locked_amount(locks) == FoldLeft(LAMBDA sum, lock : sum + lock.amount, 0, locks)

\* The order of the hashes is any order.  No delta can be drawn, and an exception
\* is raised, if the maximum is below the minimum.
get_pending_transfers_tree ==
  /\ tree = <<>>
  /\ Sum(unlockable_amounts) >= asked.unlockable
  /\ Sum(expired_amounts) >= asked.expired
  /\ \E deltas \in [DOMAIN unlockable_amounts -> minExpiration .. maxExpiration] :
     \E locks \in SetToSeqs(unlockableLocks(deltas) \cup expiredLocks) :
       tree' = [packed_transfers |-> get_packed_transfers(locks),
                locked_amount    |-> get_locked_amount(locks),
                made             |-> timestamp]
  /\ UNCHANGED <<registryVars, asked, unlockable_amounts, expired_amounts>>

-----------------------------------------------------------------------------
(* The contract: offset counts bytes from the length word of locks.        *)
Word(locks, offset) == locks[offset \div 32]

getLockedAmountFromLock(locks, offset) ==
  LET unlockable_until == Word(locks, offset)
      locked_amount    == Word(locks, offset + 32)
      revealed_at      == getSecretRevealBlockTime(Word(locks, offset + 64))
  IN  IF revealed_at = 0 \/ unlockable_until <= revealed_at THEN 0 ELSE locked_amount

\* i runs from 32 to the length in steps of 96 bytes.
getUnlockedAmount(locks) ==
  MapThenSumSet(LAMBDA i : getLockedAmountFromLock(locks, i),
                {32 + 96 * k : k \in 0 .. (Len(locks) \div 3) - 1})

Environment ==
  /\ tree # <<>>
  /\ \/ NewBlock
     \/ \E secret \in Secrethashes : registerSecret(secret)
  /\ UNCHANGED treeVars

Next == Draw \/ get_pending_transfers_tree \/ Environment

Spec == Init /\ [][Next]_vars

-----------------------------------------------------------------------------
unlocked == getUnlockedAmount(tree.packed_transfers)

\* The amounts drawn at random are neither more nor less than what the caller
\* asked for, and locked_amount, which is signed and locked on chain, is all of
\* them.
LocksWhatWasAsked ==
  tree # <<>> => tree.locked_amount = asked.unlockable + asked.expired

\* When it is revealed early enough: one secret a second from the creation of
\* the locks on, or before the time the caller asked for.
revealedEarly(i) ==
  LET revealed_at == getSecretRevealBlockTime(Secret(i))
  IN  /\ revealed_at # 0
      /\ IF asked.min_expiration_delta = 0
         THEN revealed_at <= tree.made + Len(unlockable_amounts)
         ELSE revealed_at < tree.made + asked.min_expiration_delta

\* Locks made to be unlocked are unlocked, whatever the amounts, the order of
\* the hashes and the order of the registrations, if their secrets are revealed
\* one a second or before the expiration asked for.
UnlockableIsUnlocked ==
  /\ tree # <<>>
  /\ \A i \in DOMAIN unlockable_amounts : revealedEarly(i)
  => unlocked = asked.unlockable

\* Nothing of the locks made to expire is ever unlocked, even if their secrets
\* are revealed in the second in which the locks were made.
ExpiredIsNeverUnlocked == tree # <<>> => unlocked <= asked.unlockable
=============================================================================
