------------------------------- MODULE OneToN -------------------------------
(***************************************************************************)
(* OneToN: a service claims the IOUs its clients have signed, one by one   *)
(* or in bulk, out of their deposits.  An IOU that the model has was       *)
(* signed by its sender; a signature of anybody else reverts the call.     *)
(***************************************************************************)
EXTENDS UserDeposit, Registrations, Sequences

CONSTANTS
  IOUs,        \* signed: [sender, receiver, amount, claimable_until]
  Bulks        \* sequences of IOUs claimed together

ASSUME OneToNAssumption ==
  /\ Services \subseteq Users
  /\ IOUs \subseteq [sender : Users, receiver : Services, amount : Nat, claimable_until : Nat]
  /\ \A bulk \in Bulks : bulk \in Seq(IOUs)

VARIABLES
  settled_sessions,   \* keys of the sessions that are settled
  Claimed             \* events: how often and how much each session was paid

oneToNVars == <<settled_sessions, Claimed>>

\* A session is named by the two parties and the time until which it can be
\* claimed; its IOUs differ in their amount.
sessionOf(iou) ==
  [receiver |-> iou.receiver, sender |-> iou.sender, claimable_until |-> iou.claimable_until]

key(iou) == sessionOf(iou)

Sessions == {sessionOf(iou) : iou \in IOUs}

OneToNTypeOK ==
  /\ settled_sessions \subseteq Sessions
  /\ Claimed \in [Sessions -> [times : Nat, amount : Nat]]

OneToNInit ==
  /\ settled_sessions = {}
  /\ Claimed = [s \in Sessions |-> [times |-> 0, amount |-> 0]]

\* What one transaction works on: the contract's state as it stands after the
\* claims it has made, and whether one of them has reverted.
Storage ==
  [balances |-> balances, transferred |-> transferred, settled |-> settled_sessions,
   Claimed |-> Claimed, reverted |-> FALSE]

\* The mutant settles a session although nothing could be claimed.
settlesEmptyMutant(store, iou, transferable) == store.settled \cup {key(iou)}

settledAfter(store, iou, transferable) ==
  IF transferable > 0 THEN store.settled \cup {key(iou)} ELSE store.settled

claimable(store, iou) ==
  /\ hasValidRegistration(iou.receiver)
  /\ timestamp <= iou.claimable_until
  /\ key(iou) \notin store.settled

\* claim: as much as the sender's balance allows; what the first claims of a
\* bulk have taken is gone for the next.
claimIn(store, iou) ==
  LET transferable == IF iou.amount < store.balances[iou.sender]
                      THEN iou.amount ELSE store.balances[iou.sender]
      paid == IF transferable > 0 THEN 1 ELSE 0
  IN  [balances    |-> afterTransfer(store.balances, iou.sender, iou.receiver, transferable),
       transferred |-> [store.transferred EXCEPT ![iou.sender] = @ + transferable],
       settled     |-> settledAfter(store, iou, transferable),
       Claimed     |-> [store.Claimed EXCEPT ![sessionOf(iou)] =
                          [times |-> @.times + paid, amount |-> @.amount + transferable]],
       reverted    |-> \/ store.reverted
                       \/ ~claimable(store, iou)
                       \/ transferable > 0 /\ ~canTransfer(store.balances, iou.sender,
                                                           iou.receiver, transferable)]

\* The storage before the first claim of a bulk, and after each of them.
storageAfter(ious) ==
  LET after[n \in 0 .. Len(ious)] ==
        IF n = 0 THEN Storage ELSE claimIn(after[n - 1], ious[n])
  IN  after

\* bulkClaim: one claim that reverts reverts them all.
bulkClaim(ious) ==
  LET after == storageAfter(ious)[Len(ious)]
  IN  /\ ~after.reverted
      /\ balances' = after.balances /\ transferred' = after.transferred
      /\ settled_sessions' = after.settled /\ Claimed' = after.Claimed
      /\ UNCHANGED <<token, total_deposit, withdraw_plans, whole_balance, reading>>

claim(iou) == bulkClaim(<<iou>>)

OneToNStep == (\E iou \in IOUs : claim(iou)) \/ (\E ious \in Bulks : bulkClaim(ious))

-----------------------------------------------------------------------------
(* Properties.                                                             *)

\* However many IOUs of one session a client has signed, and in whatever order
\* and in whichever bulks they are claimed, the session is paid at most once,
\* with no more than one of them promises, and only the payment closes it: "If
\* no tokens are claimed, claim may be retried, later".
SessionPaidOnce ==
  /\ OneToNTypeOK
  /\ \A s \in Sessions :
       /\ Claimed[s].times = IF s \in settled_sessions THEN 1 ELSE 0
       /\ Claimed[s].times > 0 =>
            \E iou \in IOUs : sessionOf(iou) = s /\ Claimed[s].amount \in 1 .. iou.amount
=============================================================================
