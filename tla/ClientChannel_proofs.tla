------------------------ MODULE ClientChannel_proofs ------------------------
(***************************************************************************)
(* What two clients are paid by the balance data they have signed, for any *)
(* payments, amounts and uint256 width.                                    *)
(***************************************************************************)
EXTENDS ClientChannel, Settlement_proofs, Sums_proofs

-----------------------------------------------------------------------------
(* Amounts of sets of payments. *)

LEMMA AmountFinite ==
  ASSUME NEW S \in SUBSET Payments
  PROVE  LET f == [x \in S |-> amount[x]]
         IN  /\ IsFiniteSet(S) /\ f \in [S -> Nat]
             /\ IsFiniteSet(Units(f)) /\ amountOf(S) = Cardinality(Units(f))
             /\ amountOf(S) \in Nat
<1> DEFINE f == [x \in S |-> amount[x]]
<1>1. IsFiniteSet(S) /\ f \in [S -> Nat]
  BY ClientAssumption, FS_Subset
<1>2. amountOf(S) = Total(f)
  BY DEF amountOf
<1>. HIDE DEF f
<1>3. IsFiniteSet(Units(f)) /\ Total(f) \in Nat
  BY <1>1, UnitsFinite, TotalIsNat
<1>. QED BY <1>1, <1>2, <1>3 DEF Total, f

(* Disjoint sets of payments add up. *)
LEMMA AmountOfParts ==
  ASSUME NEW S \in SUBSET Payments, NEW T \in SUBSET Payments, S \cap T = {}
  PROVE  amountOf(S \cup T) = amountOf(S) + amountOf(T)
<1> DEFINE f == [x \in S |-> amount[x]]
           g == [x \in T |-> amount[x]]
           h == [x \in S \cup T |-> amount[x]]
<1>1. Units(h) = Units(f) \cup Units(g)
  BY DEF Units, UnitsAt
<1>2. Units(f) \cap Units(g) = {}
  BY DEF Units, UnitsAt
<1>3. /\ IsFiniteSet(Units(f)) /\ amountOf(S) = Cardinality(Units(f)) /\ amountOf(S) \in Nat
      /\ IsFiniteSet(Units(g)) /\ amountOf(T) = Cardinality(Units(g)) /\ amountOf(T) \in Nat
      /\ amountOf(S \cup T) = Cardinality(Units(h))
  BY AmountFinite
<1>. HIDE DEF f, g, h
<1>4. Cardinality(Units(f) \cap Units(g)) = 0
  BY <1>2, FS_EmptySet
<1>5. Cardinality(Units(f) \cup Units(g))
        = Cardinality(Units(f)) + Cardinality(Units(g)) - Cardinality(Units(f) \cap Units(g))
  BY <1>3, FS_Union
<1>. QED BY <1>1, <1>3, <1>4, <1>5

LEMMA AmountOfOne ==
  ASSUME NEW x \in Payments PROVE amountOf({x}) = amount[x]
<1> DEFINE f == [y \in {x} |-> amount[y]]
<1>1. Units(f) = UnitsAt(f, x)
  BY DEF Units
<1>2. f[x] = amount[x] /\ f[x] \in Nat
  BY ClientAssumption
<1>3. amountOf({x}) = Cardinality(Units(f))
  BY DEF amountOf, Total
<1>. HIDE DEF f
<1>. QED BY <1>1, <1>2, <1>3, UnitsAtFinite

LEMMA AmountWithout ==
  ASSUME NEW S \in SUBSET Payments, NEW x \in S
  PROVE  /\ amountOf(S \ {x}) = amountOf(S) - amount[x]
         /\ amount[x] \in Nat /\ amountOf(S) \in Nat /\ amountOf(S \ {x}) \in Nat
         /\ amount[x] <= amountOf(S)
<1>1. amountOf((S \ {x}) \cup {x}) = amountOf(S \ {x}) + amountOf({x})
  BY AmountOfParts
<1>2. (S \ {x}) \cup {x} = S
  OBVIOUS
<1>3. amountOf({x}) = amount[x] /\ amount[x] \in Nat
  BY AmountOfOne, ClientAssumption
<1>4. amountOf(S) \in Nat /\ amountOf(S \ {x}) \in Nat
  BY AmountFinite
<1>5. amountOf(S) = amountOf(S \ {x}) + amountOf({x})
  BY <1>1, <1>2, Zenon
<1>. QED BY <1>3, <1>4, <1>5

LEMMA AmountWithin ==
  ASSUME NEW T \in SUBSET Payments, NEW S \in SUBSET T
  PROVE  amountOf(S) <= amountOf(T) /\ amountOf(S) \in Nat /\ amountOf(T) \in Nat
<1>1. amountOf(S \cup (T \ S)) = amountOf(S) + amountOf(T \ S)
  BY AmountOfParts
<1>2. S \cup (T \ S) = T
  OBVIOUS
<1>3. amountOf(S) \in Nat /\ amountOf(T \ S) \in Nat /\ amountOf(T) \in Nat
  BY AmountFinite
<1>4. amountOf(T) = amountOf(S) + amountOf(T \ S)
  BY <1>1, <1>2, Zenon
<1>. QED BY <1>3, <1>4

-----------------------------------------------------------------------------
(* The clients' constraints as numbers, for participants in either order. *)

Solvent(d1, w1, t1, l1, d2, w2, t2, l2) ==
  /\ t1 + l1 \in Uint /\ t2 + l2 \in Uint
  /\ d1 + d2 - w1 - w2 \in Uint
  /\ 0 <= d1 + t2 - w1 - t1 - l1 /\ l1 <= d1 + t2 - w1 - t1 - l1
  /\ 0 <= d2 + t1 - w2 - t2 - l2 /\ l2 <= d2 + t1 - w2 - t2 - l2

SolventFor(acc, data, p) ==
  Solvent(acc[p].deposit, acc[p].withdrawn_amount, data[p].transferred, locked(data[p]),
          acc[partner(p)].deposit, acc[partner(p)].withdrawn_amount,
          data[partner(p)].transferred, locked(data[partner(p)]))

Accounts == [deposit : Uint, withdrawn_amount : Uint]

LEMMA PartnerOfPartner ==
  ASSUME NEW p \in Clients
  PROVE  /\ partner(p) \in Clients /\ partner(p) # p /\ partner(partner(p)) = p
         /\ Clients = {p, partner(p)}
BY ClientAssumption DEF Clients, partner

LEMMA LockedIsNat ==
  ASSUME NEW data \in Data
  PROVE  /\ data.transferred \in Nat /\ data.locks \in SUBSET Payments
         /\ locked(data) \in Nat
BY AmountFinite DEF Data, locked

LEMMA SolventSwap ==
  ASSUME NEW d1 \in Nat, NEW w1 \in Nat, NEW t1 \in Nat, NEW l1 \in Nat,
         NEW d2 \in Nat, NEW w2 \in Nat, NEW t2 \in Nat, NEW l2 \in Nat
  PROVE  Solvent(d1, w1, t1, l1, d2, w2, t2, l2) <=> Solvent(d2, w2, t2, l2, d1, w1, t1, l1)
BY MaxIsNat DEF Solvent, Uint

(* One side's upper bound, the available deposit, follows from the other's lower. *)
LEMMA ValidAsSolvent ==
  ASSUME NEW acc \in [Clients -> Accounts], NEW data \in [Clients -> Data], NEW p \in Clients
  PROVE  valid(acc, data) <=> SolventFor(acc, data, p)
<1>1. A \in Clients /\ B \in Clients /\ partner(A) = B /\ partner(B) = A /\ A # B
  BY ClientAssumption DEF Clients, partner
<1>2. \A c \in Clients :
        /\ acc[c].deposit \in Nat /\ acc[c].withdrawn_amount \in Nat
        /\ data[c].transferred \in Nat /\ locked(data[c]) \in Nat
  BY LockedIsNat DEF Accounts, Uint
<1> DEFINE d(c) == acc[c].deposit  w(c) == acc[c].withdrawn_amount
           t(c) == data[c].transferred  l(c) == locked(data[c])
<1>3. valid(acc, data) <=>
        /\ t(A) + l(A) \in Uint /\ t(B) + l(B) \in Uint
        /\ d(A) + t(B) - w(A) - t(A) - l(A) \in 0 .. (d(A) + d(B) - w(A) - w(B))
        /\ d(B) + t(A) - w(B) - t(B) - l(B) \in 0 .. (d(A) + d(B) - w(A) - w(B))
        /\ d(A) + d(B) - w(A) - w(B) \in Uint
        /\ l(A) <= d(A) + t(B) - w(A) - t(A) - l(A)
        /\ l(B) <= d(B) + t(A) - w(B) - t(B) - l(B)
  <2>1. \A c \in Clients : c = A \/ c = B
    BY DEF Clients
  <2>. QED BY <1>1, <2>1
     DEF valid, are_balance_proofs_valid, get_participant_available_balance,
         getChannelAvailableDeposit
<1>4. SolventFor(acc, data, A) <=> Solvent(d(A), w(A), t(A), l(A), d(B), w(B), t(B), l(B))
  BY <1>1 DEF SolventFor
<1>5. SolventFor(acc, data, B) <=> Solvent(d(B), w(B), t(B), l(B), d(A), w(A), t(A), l(A))
  BY <1>1 DEF SolventFor
<1>6. /\ d(A) \in Nat /\ w(A) \in Nat /\ t(A) \in Nat /\ l(A) \in Nat
      /\ d(B) \in Nat /\ w(B) \in Nat /\ t(B) \in Nat /\ l(B) \in Nat
  BY <1>1, <1>2
<1>. HIDE DEF d, w, t, l
<1>7. SolventFor(acc, data, A) <=> SolventFor(acc, data, B)
  BY <1>4, <1>5, <1>6, SolventSwap
<1>8. valid(acc, data) <=> SolventFor(acc, data, A)
  BY <1>3, <1>4, <1>6, MaxIsNat DEF Solvent, Uint
<1>. QED BY <1>7, <1>8 DEF Clients

LEMMA SolventAfterDeposit ==
  ASSUME NEW d1 \in Nat, NEW w1 \in Nat, NEW t1 \in Nat, NEW l1 \in Nat,
         NEW d2 \in Nat, NEW w2 \in Nat, NEW t2 \in Nat, NEW l2 \in Nat,
         Solvent(d1, w1, t1, l1, d2, w2, t2, l2),
         NEW d \in Nat, d >= d1, d + d2 \in Uint
  PROVE  Solvent(d, w1, t1, l1, d2, w2, t2, l2)
BY MaxIsNat DEF Solvent, Uint

(* A locked amount becomes a transferred one, or the lock is removed. *)
LEMMA SolventAfterLock ==
  ASSUME NEW d1 \in Nat, NEW w1 \in Nat, NEW t1 \in Nat, NEW l1 \in Nat,
         NEW d2 \in Nat, NEW w2 \in Nat, NEW t2 \in Nat, NEW l2 \in Nat,
         Solvent(d1, w1, t1, l1, d2, w2, t2, l2),
         NEW x \in Nat, x <= l1
  PROVE  /\ Solvent(d1, w1, t1 + x, l1 - x, d2, w2, t2, l2)
         /\ Solvent(d1, w1, t1, l1 - x, d2, w2, t2, l2)
BY MaxIsNat DEF Solvent, Uint

-----------------------------------------------------------------------------
(* The inductive invariant. *)

\* The contract refuses deposits whose sum leaves uint256.
DepositsFit == account[A].deposit + account[B].deposit \in Uint

\* All data ever signed can be settled without saturating.
DataFits ==
  \A p \in Clients : \A data \in signed[p] : data.transferred + locked(data) \in Uint

\* What an older lock that has not expired promised and the latest data no
\* longer locks, the latest data has transferred.
NothingForgotten ==
  \A p \in Clients : \A data \in signed[p] :
    data.transferred
      + amountOf({x \in data.locks : x \notin latest[p].locks /\ secret[x] # "expired"})
      <= latest[p].transferred

ClientInv ==
  /\ TypeOK /\ DepositsFit /\ valid(account, latest) /\ DataFits /\ NothingForgotten
  /\ \A p \in Clients : latest[p] \in signed[p]
  /\ closed => \A p \in Clients : settled[p] \in signed[p]

forgotten(p, data) ==
  {x \in data.locks : x \notin latest[p].locks /\ secret[x] # "expired"}

LEMMA ForgottenIsSet ==
  ASSUME ClientInv, NEW p \in Clients, NEW data \in signed[p]
  PROVE  /\ data \in Data /\ data.transferred \in Nat /\ data.locks \in SUBSET Payments
         /\ locked(data) \in Nat /\ forgotten(p, data) \in SUBSET Payments
         /\ amountOf(forgotten(p, data)) \in Nat
         /\ data.transferred + amountOf(forgotten(p, data)) <= latest[p].transferred
<1>1. data \in Data
  BY DEF ClientInv, TypeOK
<1>2. data.transferred \in Nat /\ data.locks \in SUBSET Payments /\ locked(data) \in Nat
  BY <1>1, LockedIsNat
<1>3. forgotten(p, data) \in SUBSET Payments
  BY <1>2 DEF forgotten
<1>. QED BY <1>1, <1>2, <1>3, AmountFinite DEF ClientInv, NothingForgotten, forgotten

LEMMA ClientInit == Init => ClientInv
<1> SUFFICES ASSUME Init PROVE ClientInv
  OBVIOUS
<1> USE DEF Init
<1>1. A \in Clients /\ B \in Clients
  BY DEF Clients
<1>2. 0 \in Uint /\ MAX_SAFE_UINT256 \in Nat
  BY MaxIsNat DEF Uint
<1>3. noData \in Data /\ noData.transferred = 0 /\ noData.locks = {}
  BY DEF noData, Data
<1>4. locked(noData) = 0
  <2>1. amountOf({}) = 0
    <3>1. [x \in {} |-> amount[x]] = [x \in {} |-> 0]
      OBVIOUS
    <3>. QED BY <3>1, TotalOfZeros DEF amountOf
  <2>. QED BY <1>3, <2>1 DEF locked
<1>5. TypeOK
  BY <1>2, <1>3 DEF TypeOK, SecretStates
<1>6. DepositsFit
  BY <1>1, <1>2 DEF DepositsFit
<1>7. valid(account, latest)
  <2>1. /\ account \in [Clients -> Accounts] /\ latest \in [Clients -> Data]
    BY <1>5 DEF TypeOK, Accounts
  <2>2. SolventFor(account, latest, A)
    <3>1. \A c \in Clients :
            /\ account[c].deposit = 0 /\ account[c].withdrawn_amount = 0
            /\ latest[c].transferred = 0 /\ locked(latest[c]) = 0
      BY <1>3, <1>4
    <3>2. Solvent(0, 0, 0, 0, 0, 0, 0, 0)
      BY <1>2 DEF Solvent
    <3>. QED BY <1>1, <3>1, <3>2, PartnerOfPartner DEF SolventFor
  <2>. QED BY <1>1, <2>1, <2>2, ValidAsSolvent
<1>8. DataFits
  BY <1>2, <1>3, <1>4 DEF DataFits
<1>9. NothingForgotten
  <2> SUFFICES ASSUME NEW p \in Clients
      PROVE  noData.transferred + amountOf({x \in noData.locks :
                 x \notin latest[p].locks /\ secret[x] # "expired"}) <= latest[p].transferred
    BY DEF NothingForgotten
  <2>1. {x \in noData.locks : x \notin latest[p].locks /\ secret[x] # "expired"} = noData.locks
    BY <1>3
  <2>2. amountOf(noData.locks) = 0
    BY <1>4 DEF locked
  <2>. QED BY <1>3, <2>1, <2>2
<1>. QED BY <1>5, <1>6, <1>7, <1>8, <1>9 DEF ClientInv

-----------------------------------------------------------------------------
(* The steps. *)

LEMMA AccountsTyped ==
  ASSUME TypeOK
  PROVE  /\ account \in [Clients -> Accounts] /\ latest \in [Clients -> Data]
         /\ \A p \in Clients :
              /\ account[p].deposit \in Nat /\ account[p].withdrawn_amount \in Nat
              /\ account[p].deposit \in Uint /\ account[p].withdrawn_amount \in Uint
              /\ latest[p].transferred \in Nat /\ locked(latest[p]) \in Nat
              /\ latest[p].locks \in SUBSET Payments
<1>1. account \in [Clients -> Accounts] /\ latest \in [Clients -> Data]
  BY DEF TypeOK, Accounts
<1>. QED BY <1>1, LockedIsNat, MaxIsNat DEF Accounts, Uint

LEMMA DepositKeeps ==
  ASSUME ClientInv, NEW p \in Clients, NEW total \in TotalDeposits, setTotalDeposit(p, total)
  PROVE  ClientInv'
<1> DEFINE q == partner(p)
<1>1. /\ TypeOK /\ total \in Uint /\ q \in Clients /\ p # q /\ Clients = {p, q}
      /\ total > account[p].deposit /\ total + account[q].deposit \in Uint
      /\ UNCHANGED <<latest, signed, secret, closed, settled>>
      /\ account' = [account EXCEPT ![p].deposit = total]
  BY PartnerOfPartner, ClientAssumption DEF ClientInv, setTotalDeposit
<1>2. /\ account' \in [Clients -> Accounts] /\ account'[q] = account[q]
      /\ account'[p].deposit = total
      /\ account'[p].withdrawn_amount = account[p].withdrawn_amount
  BY <1>1, AccountsTyped DEF Accounts
<1>3. TypeOK'
  BY <1>1, <1>2 DEF TypeOK, Accounts
<1>4. DepositsFit'
  <2>1. A \in {p, q} /\ B \in {p, q} /\ A # B
    BY <1>1, ClientAssumption DEF Clients
  <2>2. account[q].deposit \in Nat /\ total \in Nat
    BY <1>1, AccountsTyped, MaxIsNat DEF Uint
  <2>3. CASE A = p /\ B = q
    BY <1>1, <1>2, <2>3 DEF DepositsFit
  <2>4. CASE A = q /\ B = p
    BY <1>1, <1>2, <2>2, <2>4 DEF DepositsFit
  <2>. QED BY <2>1, <2>3, <2>4
<1>5. valid(account', latest')
  <2>1. SolventFor(account, latest, p)
    BY <1>1, AccountsTyped, ValidAsSolvent DEF ClientInv
  <2>2. total \in Nat /\ total >= account[p].deposit
    BY <1>1, AccountsTyped, MaxIsNat DEF Uint
  <2>3. SolventFor(account', latest, p)
    <3>1. Solvent(account[p].deposit, account[p].withdrawn_amount, latest[p].transferred,
                  locked(latest[p]), account[q].deposit, account[q].withdrawn_amount,
                  latest[q].transferred, locked(latest[q]))
      BY <2>1 DEF SolventFor
    <3>2. \A c \in {p, q} :
            /\ account[c].deposit \in Nat /\ account[c].withdrawn_amount \in Nat
            /\ latest[c].transferred \in Nat /\ locked(latest[c]) \in Nat
      BY <1>1, AccountsTyped
    <3>. HIDE DEF q
    <3>3. Solvent(total, account[p].withdrawn_amount, latest[p].transferred,
                  locked(latest[p]), account[q].deposit, account[q].withdrawn_amount,
                  latest[q].transferred, locked(latest[q]))
      BY <1>1, <2>2, <3>1, <3>2, SolventAfterDeposit
    <3>. QED BY <1>2, <3>3 DEF SolventFor, q
  <2>4. valid(account', latest)
    BY <1>1, <1>2, <2>3, AccountsTyped, ValidAsSolvent
  <2>. QED BY <1>1, <2>4
<1>6. DataFits' /\ NothingForgotten'
  BY <1>1 DEF ClientInv, DataFits, NothingForgotten
<1>. QED BY <1>1, <1>3, <1>4, <1>5, <1>6 DEF ClientInv

LEMMA WithdrawKeeps ==
  ASSUME ClientInv, NEW p \in Clients, NEW total \in TotalWithdraws, setTotalWithdraw(p, total)
  PROVE  ClientInv'
<1>1. /\ TypeOK /\ total \in Uint /\ A \in Clients /\ B \in Clients
      /\ UNCHANGED <<latest, signed, secret, closed, settled>>
      /\ account' = [account EXCEPT ![p].withdrawn_amount = total]
      /\ valid(account', latest)
  BY ClientAssumption DEF ClientInv, setTotalWithdraw, Clients
<1>2. /\ account' \in [Clients -> Accounts]
      /\ \A c \in Clients : account'[c].deposit = account[c].deposit
  BY <1>1, AccountsTyped DEF Accounts
<1>3. TypeOK'
  BY <1>1, <1>2 DEF TypeOK, Accounts
<1>4. DepositsFit'
  BY <1>1, <1>2 DEF ClientInv, DepositsFit
<1>5. DataFits' /\ NothingForgotten'
  BY <1>1 DEF ClientInv, DataFits, NothingForgotten
<1>. QED BY <1>1, <1>3, <1>4, <1>5 DEF ClientInv

\* Nothing expired comes back.
StaysExpired ==
  /\ secret' \in [Payments -> SecretStates]
  /\ \A x \in Payments : secret[x] = "expired" => secret'[x] = "expired"

(* p signs data that promises what all its older data did. *)
RemembersAll(p, data) ==
  \A d \in signed[p] :
    d.transferred + amountOf({x \in d.locks : x \notin data.locks /\ secret'[x] # "expired"})
      <= data.transferred

LEMMA ForgottenShrinks ==
  ASSUME ClientInv, StaysExpired, NEW q \in Clients, latest'[q] = latest[q],
         NEW d \in signed[q]
  PROVE  d.transferred + amountOf({x \in d.locks : x \notin latest'[q].locks
                                                   /\ secret'[x] # "expired"})
           <= latest'[q].transferred
<1> DEFINE F == {x \in d.locks : x \notin latest'[q].locks /\ secret'[x] # "expired"}
<1>1. /\ d.transferred \in Nat /\ d.locks \in SUBSET Payments
      /\ forgotten(q, d) \in SUBSET Payments
      /\ amountOf(forgotten(q, d)) \in Nat
      /\ d.transferred + amountOf(forgotten(q, d)) <= latest[q].transferred
  BY ForgottenIsSet
<1>2. F \in SUBSET forgotten(q, d)
  BY <1>1 DEF forgotten, StaysExpired
<1>. HIDE DEF F
<1>3. amountOf(F) <= amountOf(forgotten(q, d)) /\ amountOf(F) \in Nat
  BY <1>1, <1>2, AmountWithin
<1>4. latest[q].transferred \in Nat
  BY AccountsTyped DEF ClientInv
<1>5. d.transferred + amountOf(F) <= latest[q].transferred
  BY <1>1, <1>3, <1>4
<1>. QED BY <1>5 DEF F

LEMMA SignedKeeps ==
  ASSUME ClientInv, NEW p \in Clients, NEW data \in Data, signs(p, data),
         ~closed, UNCHANGED <<account, closed, settled>>, StaysExpired,
         SolventFor(account, latest', p), RemembersAll(p, data)
  PROVE  ClientInv'
<1>1. /\ TypeOK /\ latest' = [latest EXCEPT ![p] = data]
      /\ latest' \in [Clients -> Data] /\ latest'[p] = data
      /\ \A q \in Clients \ {p} : latest'[q] = latest[q]
      /\ signed' = [signed EXCEPT ![p] = signed[p] \cup {data}]
      /\ signed'[p] = signed[p] \cup {data}
      /\ \A q \in Clients \ {p} : signed'[q] = signed[q]
      /\ account' = account /\ ~closed'
  BY DEF ClientInv, TypeOK, signs
<1>2. TypeOK'
  BY <1>1 DEF TypeOK, StaysExpired
<1>3. DepositsFit'
  BY DEF ClientInv, DepositsFit
<1>4. valid(account', latest')
  BY <1>1, AccountsTyped, ValidAsSolvent
<1>5. DataFits'
  <2>1. data.transferred + locked(data) \in Uint
    BY <1>1 DEF SolventFor, Solvent
  <2> SUFFICES ASSUME NEW q \in Clients, NEW d \in signed'[q]
      PROVE  d.transferred + locked(d) \in Uint
    BY DEF DataFits
  <2>. QED BY <1>1, <2>1 DEF ClientInv, DataFits
<1>6. NothingForgotten'
  <2> SUFFICES ASSUME NEW q \in Clients, NEW d \in signed'[q]
      PROVE  d.transferred + amountOf({x \in d.locks : x \notin latest'[q].locks
                                                       /\ secret'[x] # "expired"})
               <= latest'[q].transferred
    BY DEF NothingForgotten
  <2>1. CASE q = p /\ d \in signed[p]
    BY <1>1, <2>1 DEF RemembersAll
  <2>2. CASE q = p /\ d = data
    <3>1. {x \in d.locks : x \notin latest'[q].locks /\ secret'[x] # "expired"} = {}
      BY <1>1, <2>2
    <3>2. amountOf({}) = 0
      <4>1. [x \in {} |-> amount[x]] = [x \in {} |-> 0]
        OBVIOUS
      <4>. QED BY <4>1, TotalOfZeros DEF amountOf
    <3>3. amountOf({x \in d.locks : x \notin latest'[q].locks
                                    /\ secret'[x] # "expired"}) = 0
      BY <3>1, <3>2, Zenon
    <3>4. data.transferred \in Nat /\ d.transferred = latest'[q].transferred
      BY <1>1, <2>2, LockedIsNat
    <3>. QED BY <2>2, <3>3, <3>4
  <2>3. CASE q # p
    BY <1>1, <2>3, ForgottenShrinks
  <2>. QED BY <1>1, <2>1, <2>2, <2>3
<1>7. \A q \in Clients : latest'[q] \in signed'[q]
  BY <1>1 DEF ClientInv
<1>. QED BY <1>1, <1>2, <1>3, <1>4, <1>5, <1>6, <1>7 DEF ClientInv

LEMMA SecretKeeps ==
  ASSUME ClientInv, StaysExpired, UNCHANGED <<account, latest, signed, closed, settled>>
  PROVE  ClientInv'
<1>1. TypeOK' /\ DepositsFit' /\ DataFits' /\ valid(account', latest')
  BY DEF ClientInv, TypeOK, StaysExpired, DepositsFit, DataFits
<1>2. NothingForgotten'
  BY ForgottenShrinks DEF NothingForgotten
<1>. QED BY <1>1, <1>2 DEF ClientInv

LEMMA TransferKeeps ==
  ASSUME ClientInv, NEW p \in Clients, NEW x \in Payments, lockedTransfer(p, x)
  PROVE  ClientInv'
<1> DEFINE data == [latest[p] EXCEPT !.locks = @ \cup {x}]
<1>1. /\ TypeOK /\ ~closed /\ secret[x] = "unsent" /\ signs(p, data)
      /\ valid(account, [latest EXCEPT ![p] = data])
      /\ secret' = [secret EXCEPT ![x] = "pending"]
      /\ UNCHANGED <<account, closed, settled>>
  BY DEF ClientInv, lockedTransfer
<1>2. latest[p] \in Data /\ data \in Data
      /\ data.transferred = latest[p].transferred /\ data.locks = latest[p].locks \cup {x}
  BY <1>1 DEF TypeOK, Data
<1>. HIDE DEF data
<1>3. StaysExpired
  BY <1>1 DEF TypeOK, SecretStates, StaysExpired
<1>4. SolventFor(account, latest', p)
  <2>1. latest' = [latest EXCEPT ![p] = data]
    BY <1>1 DEF signs
  <2>2. latest' \in [Clients -> Data]
    BY <1>1, <1>2, <2>1 DEF TypeOK
  <2>. QED BY <1>1, <2>1, <2>2, AccountsTyped, ValidAsSolvent
<1>5. RemembersAll(p, data)
  <2> SUFFICES ASSUME NEW d \in signed[p]
      PROVE  d.transferred + amountOf({y \in d.locks : y \notin data.locks
                                                       /\ secret'[y] # "expired"})
               <= data.transferred
    BY DEF RemembersAll
  <2> DEFINE F == {y \in d.locks : y \notin data.locks /\ secret'[y] # "expired"}
  <2>1. /\ d.transferred \in Nat /\ d.locks \in SUBSET Payments
        /\ forgotten(p, d) \in SUBSET Payments
        /\ amountOf(forgotten(p, d)) \in Nat
        /\ d.transferred + amountOf(forgotten(p, d)) <= latest[p].transferred
    BY ForgottenIsSet
  <2>2. F \in SUBSET forgotten(p, d)
    BY <1>2, <1>3, <2>1 DEF forgotten, StaysExpired
  <2>. HIDE DEF F
  <2>3. amountOf(F) <= amountOf(forgotten(p, d)) /\ amountOf(F) \in Nat
    BY <2>1, <2>2, AmountWithin
  <2>4. data.transferred \in Nat
    BY <1>2, LockedIsNat
  <2>5. d.transferred + amountOf(F) <= data.transferred
    BY <1>2, <2>1, <2>3, <2>4
  <2>. QED BY <2>5 DEF F
<1>. QED BY <1>1, <1>2, <1>3, <1>4, <1>5, SignedKeeps

LEMMA UnlockKeeps ==
  ASSUME ClientInv, NEW p \in Clients, NEW x \in Payments, unlockOffChain(p, x)
  PROVE  ClientInv'
<1> DEFINE data == [transferred |-> latest[p].transferred + amount[x],
                    locks |-> latest[p].locks \ {x}]
<1>1. /\ TypeOK /\ ~closed /\ x \in latest[p].locks /\ signs(p, data)
      /\ UNCHANGED <<account, secret, closed, settled>>
  BY DEF ClientInv, unlockOffChain
<1>2. /\ latest[p].transferred \in Nat /\ latest[p].locks \in SUBSET Payments
      /\ amount[x] \in Nat /\ locked(latest[p]) \in Nat
      /\ amount[x] <= locked(latest[p])
      /\ amountOf(latest[p].locks \ {x}) = locked(latest[p]) - amount[x]
  BY <1>1, AccountsTyped, AmountWithout DEF locked
<1>3. /\ data \in Data /\ data.locks = latest[p].locks \ {x}
      /\ data.transferred = latest[p].transferred + amount[x]
  BY <1>2 DEF Data
<1>. HIDE DEF data
<1>4. StaysExpired
  BY <1>1 DEF TypeOK, StaysExpired
<1>5. SolventFor(account, latest', p)
  <2> DEFINE q == partner(p)
  <2>1. /\ latest'[p] = data /\ latest'[q] = latest[q]
        /\ q \in Clients
    BY <1>1, PartnerOfPartner DEF signs, TypeOK
  <2>2. Solvent(account[p].deposit, account[p].withdrawn_amount, latest[p].transferred,
                locked(latest[p]), account[q].deposit, account[q].withdrawn_amount,
                latest[q].transferred, locked(latest[q]))
    BY AccountsTyped, ValidAsSolvent DEF ClientInv, SolventFor
  <2>3. \A c \in {p, q} :
          /\ account[c].deposit \in Nat /\ account[c].withdrawn_amount \in Nat
          /\ latest[c].transferred \in Nat /\ locked(latest[c]) \in Nat
    BY <1>1, <2>1, AccountsTyped
  <2>. HIDE DEF q
  <2>4. Solvent(account[p].deposit, account[p].withdrawn_amount,
                latest[p].transferred + amount[x], locked(latest[p]) - amount[x],
                account[q].deposit, account[q].withdrawn_amount,
                latest[q].transferred, locked(latest[q]))
    BY <1>2, <2>2, <2>3, SolventAfterLock
  <2>5. locked(data) = locked(latest[p]) - amount[x]
    BY <1>2, <1>3 DEF locked
  <2>. QED BY <1>3, <2>1, <2>4, <2>5 DEF SolventFor, q
<1>6. RemembersAll(p, data)
  <2> SUFFICES ASSUME NEW d \in signed[p]
      PROVE  d.transferred + amountOf({y \in d.locks : y \notin data.locks
                                                       /\ secret'[y] # "expired"})
               <= data.transferred
    BY DEF RemembersAll
  <2> DEFINE F == {y \in d.locks : y \notin data.locks /\ secret'[y] # "expired"}
  <2>1. /\ d.transferred \in Nat /\ d.locks \in SUBSET Payments
        /\ forgotten(p, d) \in SUBSET Payments
        /\ amountOf(forgotten(p, d)) \in Nat
        /\ d.transferred + amountOf(forgotten(p, d)) <= latest[p].transferred
    BY ForgottenIsSet
  <2>2. F \in SUBSET Payments /\ F \ {x} \in SUBSET forgotten(p, d)
    BY <1>1, <1>3, <2>1 DEF forgotten
  <2>. HIDE DEF F
  <2>3. amountOf(F \ {x}) <= amountOf(forgotten(p, d)) /\ amountOf(F \ {x}) \in Nat
    BY <2>1, <2>2, AmountWithin
  <2>4. amountOf(F) <= amountOf(F \ {x}) + amount[x] /\ amountOf(F) \in Nat
    <3>1. CASE x \in F
      BY <1>2, <2>2, <3>1, AmountWithout
    <3>2. CASE x \notin F
      <4>1. F \ {x} = F
        BY <3>2
      <4>2. amountOf(F \ {x}) = amountOf(F)
        BY <4>1, Zenon
      <4>. QED BY <1>2, <2>3, <4>2
    <3>. QED BY <3>1, <3>2
  <2>5. d.transferred + amountOf(F) <= data.transferred
    BY <1>2, <1>3, <2>1, <2>3, <2>4
  <2>. QED BY <2>5 DEF F
<1>. QED BY <1>1, <1>3, <1>4, <1>5, <1>6, SignedKeeps

LEMMA RemoveKeeps ==
  ASSUME ClientInv, NEW p \in Clients, NEW x \in Payments, removeExpiredLock(p, x)
  PROVE  ClientInv'
<1> DEFINE data == [latest[p] EXCEPT !.locks = @ \ {x}]
<1>1. /\ TypeOK /\ ~closed /\ x \in latest[p].locks /\ secret[x] = "expired"
      /\ signs(p, data) /\ UNCHANGED <<account, secret, closed, settled>>
  BY DEF ClientInv, removeExpiredLock
<1>2. /\ latest[p].transferred \in Nat /\ latest[p].locks \in SUBSET Payments
      /\ amount[x] \in Nat /\ locked(latest[p]) \in Nat
      /\ amount[x] <= locked(latest[p])
      /\ amountOf(latest[p].locks \ {x}) = locked(latest[p]) - amount[x]
  BY <1>1, AccountsTyped, AmountWithout DEF locked
<1>3. /\ data \in Data /\ data.locks = latest[p].locks \ {x}
      /\ data.transferred = latest[p].transferred
  BY <1>1, <1>2 DEF Data, TypeOK
<1>. HIDE DEF data
<1>4. StaysExpired
  BY <1>1 DEF TypeOK, StaysExpired
<1>5. SolventFor(account, latest', p)
  <2> DEFINE q == partner(p)
  <2>1. /\ latest'[p] = data /\ latest'[q] = latest[q]
        /\ q \in Clients
    BY <1>1, PartnerOfPartner DEF signs, TypeOK
  <2>2. Solvent(account[p].deposit, account[p].withdrawn_amount, latest[p].transferred,
                locked(latest[p]), account[q].deposit, account[q].withdrawn_amount,
                latest[q].transferred, locked(latest[q]))
    BY AccountsTyped, ValidAsSolvent DEF ClientInv, SolventFor
  <2>3. \A c \in {p, q} :
          /\ account[c].deposit \in Nat /\ account[c].withdrawn_amount \in Nat
          /\ latest[c].transferred \in Nat /\ locked(latest[c]) \in Nat
    BY <1>1, <2>1, AccountsTyped
  <2>. HIDE DEF q
  <2>4. Solvent(account[p].deposit, account[p].withdrawn_amount,
                latest[p].transferred, locked(latest[p]) - amount[x],
                account[q].deposit, account[q].withdrawn_amount,
                latest[q].transferred, locked(latest[q]))
    BY <1>2, <2>2, <2>3, SolventAfterLock
  <2>5. locked(data) = locked(latest[p]) - amount[x]
    BY <1>2, <1>3 DEF locked
  <2>. QED BY <1>1, <1>3, <2>1, <2>4, <2>5 DEF SolventFor, q
<1>6. RemembersAll(p, data)
  <2> SUFFICES ASSUME NEW d \in signed[p]
      PROVE  d.transferred + amountOf({y \in d.locks : y \notin data.locks
                                                       /\ secret'[y] # "expired"})
               <= data.transferred
    BY DEF RemembersAll
  <2>1. /\ d.locks \in SUBSET Payments
        /\ d.transferred + amountOf(forgotten(p, d)) <= latest[p].transferred
    BY ForgottenIsSet
  <2>2. {y \in d.locks : y \notin data.locks /\ secret'[y] # "expired"} = forgotten(p, d)
    BY <1>1, <1>3 DEF forgotten
  <2>. QED BY <1>3, <2>1, <2>2
<1>. QED BY <1>1, <1>3, <1>4, <1>5, <1>6, SignedKeeps

LEMMA ClientStep == ClientInv /\ [Next]_vars => ClientInv'
<1> SUFFICES ASSUME ClientInv, [Next]_vars PROVE ClientInv'
  OBVIOUS
<1>0. TypeOK
  BY DEF ClientInv
<1>1. CASE \E p \in Clients, total \in TotalDeposits : setTotalDeposit(p, total)
  BY <1>1, DepositKeeps
<1>2. CASE \E p \in Clients, total \in TotalWithdraws : setTotalWithdraw(p, total)
  BY <1>2, WithdrawKeeps
<1>3. CASE \E p \in Clients, x \in Payments :
             lockedTransfer(p, x) \/ unlockOffChain(p, x) \/ removeExpiredLock(p, x)
  BY <1>3, TransferKeeps, UnlockKeeps, RemoveKeeps
<1>4. CASE \E x \in Payments : reveal(x) \/ registerSecret(x) \/ expire(x)
  <2>1. UNCHANGED <<account, latest, signed, closed, settled>>
    BY <1>4 DEF reveal, registerSecret, expire
  <2>2. PICK x \in Payments : reveal(x) \/ registerSecret(x) \/ expire(x)
    BY <1>4
  <2>3. /\ secret[x] # "expired"
        /\ \E s \in SecretStates : secret' = [secret EXCEPT ![x] = s]
    BY <2>2 DEF reveal, registerSecret, expire, SecretStates
  <2>4. StaysExpired
    BY <1>0, <2>3 DEF TypeOK, StaysExpired
  <2>. QED BY <2>1, <2>4, SecretKeeps
<1>5. CASE \E dataA \in signed[A], dataB \in signed[B] :
             settle([p \in Clients |-> IF p = A THEN dataA ELSE dataB])
  <2>1. PICK data : settle(data) /\ data \in [Clients -> UNION {signed[p] : p \in Clients}]
    <3>1. A \in Clients /\ B \in Clients
      BY DEF Clients
    <3>2. PICK dataA \in signed[A], dataB \in signed[B] :
               settle([p \in Clients |-> IF p = A THEN dataA ELSE dataB])
      BY <1>5
    <3>. QED BY <3>1, <3>2
  <2>2. /\ settled' = data /\ \A p \in Clients : data[p] \in signed[p]
        /\ closed' = TRUE /\ UNCHANGED <<account, latest, signed, secret>>
    BY <2>1 DEF settle
  <2>3. data \in [Clients -> Data]
    BY <1>0, <2>1, <2>2 DEF TypeOK
  <2>4. TypeOK' /\ DepositsFit' /\ DataFits' /\ NothingForgotten' /\ valid(account', latest')
    BY <2>2, <2>3 DEF ClientInv, TypeOK, DepositsFit, DataFits, NothingForgotten
  <2>. QED BY <2>2, <2>4 DEF ClientInv
<1>6. CASE UNCHANGED vars
  BY <1>6 DEF vars, ClientInv, TypeOK, DepositsFit, DataFits, NothingForgotten
<1>. QED BY <1>1, <1>2, <1>3, <1>4, <1>5, <1>6 DEF Next

\* What the clients sign stays covered and forgets nothing, whatever the
\* payments, their amounts and the order of the messages.
THEOREM ClientInvariance == Spec => []ClientInv
BY ClientInit, ClientStep, PTL DEF Spec

-----------------------------------------------------------------------------
(* Older data never promises more. *)

LEMMA ClaimableWithin ==
  ASSUME NEW data \in Data
  PROVE  claimableLocked(data) \in 0 .. locked(data)
<1>1. data.locks \in SUBSET Payments
  BY DEF Data
<1>2. {x \in data.locks : claimable(x)} \in SUBSET data.locks
  OBVIOUS
<1>3. /\ amountOf({x \in data.locks : claimable(x)}) <= amountOf(data.locks)
      /\ amountOf({x \in data.locks : claimable(x)}) \in Nat /\ amountOf(data.locks) \in Nat
  BY <1>1, <1>2, AmountWithin
<1>. QED BY <1>3 DEF claimableLocked, locked

LEMMA NoOlderPromise == ClientInv => NoOlderDataPromisesMore
<1> SUFFICES ASSUME ClientInv, NEW p \in Clients, NEW data \in signed[p]
    PROVE  /\ data.transferred <= latest[p].transferred
           /\ data.transferred + claimableLocked(data)
                <= latest[p].transferred + claimableLocked(latest[p])
  BY DEF NoOlderDataPromisesMore
<1> DEFINE C == {x \in data.locks : claimable(x)}
           L == {x \in latest[p].locks : claimable(x)}
           F == forgotten(p, data)
<1>1. /\ data.transferred \in Nat /\ data.locks \in SUBSET Payments
      /\ F \in SUBSET Payments /\ amountOf(F) \in Nat
      /\ data.transferred + amountOf(F) <= latest[p].transferred
  BY ForgottenIsSet
<1>2. latest[p].transferred \in Nat /\ latest[p].locks \in SUBSET Payments
  BY AccountsTyped DEF ClientInv
<1>3. /\ C \in SUBSET Payments /\ L \in SUBSET Payments
      /\ C \cap L \in SUBSET L /\ C \ L \in SUBSET F
      /\ (C \cap L) \cap (C \ L) = {} /\ (C \cap L) \cup (C \ L) = C
      /\ C \cap L \in SUBSET Payments /\ C \ L \in SUBSET Payments
  BY <1>1, <1>2 DEF claimable, forgotten
<1>4. claimableLocked(data) = amountOf(C) /\ claimableLocked(latest[p]) = amountOf(L)
  BY DEF claimableLocked
<1>. HIDE DEF C, L, F
<1>5. amountOf((C \cap L) \cup (C \ L)) = amountOf(C \cap L) + amountOf(C \ L)
  BY <1>3, AmountOfParts
<1>6. amountOf(C) = amountOf(C \cap L) + amountOf(C \ L)
  BY <1>3, <1>5, Zenon
<1>7. amountOf(C \cap L) <= amountOf(L) /\ amountOf(C \cap L) \in Nat /\ amountOf(L) \in Nat
  BY <1>3, AmountWithin
<1>8. amountOf(C \ L) <= amountOf(F) /\ amountOf(C \ L) \in Nat
  BY <1>1, <1>3, AmountWithin
<1>. QED BY <1>1, <1>2, <1>4, <1>6, <1>7, <1>8

-----------------------------------------------------------------------------
(* What a settlement pays. *)

(* Both amounts, and what stays locked, come from what p may receive at most. *)
receivable(d1, w1, t1, l1, d2, w2, t2, l2) ==
  min(atLeast(d1 + t2 + l2 - t1 - l1 - w1, 0), d1 + d2 - w1 - w2)

SettlingNumbers(d1, w1, t1, l1, d2, w2, t2, l2) ==
  /\ d1 \in Nat /\ w1 \in Nat /\ t1 \in Nat /\ l1 \in Nat
  /\ d2 \in Nat /\ w2 \in Nat /\ t2 \in Nat /\ l2 \in Nat
  /\ t1 + l1 \in Uint /\ t2 + l2 \in Uint
  /\ d1 + d2 \in Uint /\ d1 + d2 - w1 - w2 \in Uint

LEMMA ReceivableShared ==
  ASSUME NEW d1, NEW w1, NEW t1, NEW l1, NEW d2, NEW w2, NEW t2, NEW l2,
         SettlingNumbers(d1, w1, t1, l1, d2, w2, t2, l2)
  PROVE  /\ receivable(d1, w1, t1, l1, d2, w2, t2, l2) \in 0 .. (d1 + d2 - w1 - w2)
         /\ receivable(d2, w2, t2, l2, d1, w1, t1, l1)
              = d1 + d2 - w1 - w2 - receivable(d1, w1, t1, l1, d2, w2, t2, l2)
BY MaxIsNat DEF SettlingNumbers, receivable, min, atLeast, Uint

SettlingAs(p1, t1, l1, p2, t2, l2) ==
  /\ p1 \in Accounts /\ p2 \in Accounts
  /\ SettlingNumbers(p1.deposit, p1.withdrawn_amount, t1, l1,
                     p2.deposit, p2.withdrawn_amount, t2, l2)
  /\ transfersOrdered(t1, l1, t2, l2)

SharedAs(a, l1, l2, r, rest) ==
  /\ a.S1 = r - min(l2, r) /\ a.SL2 = min(l2, r)
  /\ a.S2 = rest - min(l1, rest) /\ a.SL1 = min(l1, rest)

LEMMA SettlesTo ==
  ASSUME NEW p1, NEW t1, NEW l1, NEW p2, NEW t2, NEW l2,
         SettlingAs(p1, t1, l1, p2, t2, l2)
  PROVE  SharedAs(getSettleTransferAmounts(p1, t1, l1, p2, t2, l2), l1, l2,
                  receivable(p1.deposit, p1.withdrawn_amount, t1, l1,
                             p2.deposit, p2.withdrawn_amount, t2, l2),
                  getChannelAvailableDeposit(p1, p2)
                    - receivable(p1.deposit, p1.withdrawn_amount, t1, l1,
                                 p2.deposit, p2.withdrawn_amount, t2, l2))
<1> DEFINE d1 == p1.deposit  w1 == p1.withdrawn_amount
           d2 == p2.deposit  w2 == p2.withdrawn_amount
           tad == d1 + d2 - w1 - w2
           r == receivable(d1, w1, t1, l1, d2, w2, t2, l2)
<1> USE MaxIsNat DEF Uint
<1>0. SettlingNumbers(d1, w1, t1, l1, d2, w2, t2, l2)
  BY DEF SettlingAs
<1>1. /\ d1 \in Uint /\ w1 \in Uint /\ d2 \in Uint /\ w2 \in Uint
      /\ t1 \in Uint /\ l1 \in Uint /\ t2 \in Uint /\ l2 \in Uint
      /\ t1 + l1 \in Uint /\ t2 + l2 \in Uint
      /\ tad \in Uint /\ d1 + d2 \in Uint
  <2>1. d1 \in Uint /\ w1 \in Uint /\ d2 \in Uint /\ w2 \in Uint
    BY DEF SettlingAs, Accounts
  <2>. QED BY <1>0, <2>1 DEF SettlingNumbers
<1>2. d1 + d2 - w1 \in Uint
  <2>. HIDE DEF d1, w1, d2, w2
  <2>. QED BY <1>1
<1>3. getChannelAvailableDeposit(p1, p2) = tad
  BY DEF getChannelAvailableDeposit
<1>4. Settling(p1, t1, l1, p2, t2, l2) /\ transfersOrdered(t1, l1, t2, l2)
  BY <1>1, <1>2, <1>3 DEF Settling, availableDepositComputable, SettlingAs
<1>5. getSettleTransferAmounts(p1, t1, l1, p2, t2, l2)
        = get_settlement_amounts(p1, t1, l1, p2, t2, l2)
  BY <1>4, SettlementMatchesReference
<1>6. min(t1 + l1, MAX_SAFE_UINT256) = t1 + l1 /\ min(t2 + l2, MAX_SAFE_UINT256) = t2 + l2
  BY <1>1 DEF min
<1>7. d1 + (t2 + l2) - (t1 + l1) - w1 = d1 + t2 + l2 - t1 - l1 - w1
  <2>. HIDE DEF d1, w1
  <2>. QED BY <1>1
<1>8. min(atLeast(d1 + min(t2 + l2, MAX_SAFE_UINT256) - min(t1 + l1, MAX_SAFE_UINT256) - w1, 0),
          tad) = r
  BY <1>6, <1>7 DEF receivable
<1>9. get_settlement_amounts(p1, t1, l1, p2, t2, l2)
        = [S1 |-> r - min(l2, r), S2 |-> (tad - r) - min(l1, tad - r),
           SL1 |-> min(l1, tad - r), SL2 |-> min(l2, r)]
  BY <1>8 DEF get_settlement_amounts
<1>. QED BY <1>3, <1>5, <1>9 DEF SharedAs

\* Whichever order settleChannel accepts.
LEMMA SettlementShares ==
  ASSUME ClientInv, closed, NEW p \in Clients, NEW q, q = partner(p),
         NEW r, r = receivable(account[p].deposit, account[p].withdrawn_amount,
                               settled[p].transferred, locked(settled[p]),
                               account[q].deposit, account[q].withdrawn_amount,
                               settled[q].transferred, locked(settled[q]))
  PROVE  LET tad == getChannelAvailableDeposit(account[p], account[q])
         IN  /\ settlementOf(p).paid = r - min(locked(settled[q]), r)
             /\ settlementOf(p).for = min(locked(settled[q]), r)
             /\ settlementOf(p).by = min(locked(settled[p]), tad - r)
             /\ r \in 0 .. tad /\ tad \in Uint
<1> DEFINE t1 == settled[p].transferred  l1 == locked(settled[p])
           t2 == settled[q].transferred  l2 == locked(settled[q])
           d1 == account[p].deposit  w1 == account[p].withdrawn_amount
           d2 == account[q].deposit  w2 == account[q].withdrawn_amount
           tad == d1 + d2 - w1 - w2
           r2 == receivable(d2, w2, t2, l2, d1, w1, t1, l1)
<1>1. /\ q \in Clients /\ Clients = {p, q} /\ p # q
      /\ account[p] \in Accounts /\ account[q] \in Accounts
  BY PartnerOfPartner, AccountsTyped DEF ClientInv
<1>2. /\ d1 \in Nat /\ w1 \in Nat /\ d2 \in Nat /\ w2 \in Nat
      /\ t1 \in Nat /\ l1 \in Nat /\ t2 \in Nat /\ l2 \in Nat
      /\ t1 + l1 \in Uint /\ t2 + l2 \in Uint
  <2>1. \A c \in Clients : settled[c] \in signed[c]
    BY DEF ClientInv
  <2>2. \A c \in Clients : settled[c].transferred + locked(settled[c]) \in Uint
    BY <2>1 DEF ClientInv, DataFits
  <2>. QED BY <1>1, <2>1, <2>2, ForgottenIsSet, AccountsTyped DEF ClientInv
<1>3. d1 + d2 \in Uint /\ d2 + d1 \in Uint
  <2>1. (A = p /\ B = q) \/ (A = q /\ B = p)
    BY <1>1, ClientAssumption DEF Clients
  <2>2. account[A].deposit + account[B].deposit \in Uint
    BY DEF ClientInv, DepositsFit
  <2>3. d1 + d2 = d2 + d1
    BY <1>2
  <2>. QED BY <2>1, <2>2, <2>3
<1>4. /\ getChannelAvailableDeposit(account[p], account[q]) = tad
      /\ getChannelAvailableDeposit(account[q], account[p]) = tad
      /\ tad \in Uint /\ tad >= 0
  <2>1. SolventFor(account, latest, p)
    BY AccountsTyped, ValidAsSolvent DEF ClientInv
  <2>2. tad \in Uint
    BY <2>1 DEF SolventFor, Solvent
  <2>3. d2 + d1 - w2 - w1 = tad
    BY <1>2
  <2>. QED BY <2>2, <2>3, MaxIsNat DEF getChannelAvailableDeposit, Uint
<1>5. /\ r \in 0 .. tad /\ r2 = tad - r
      /\ SettlingNumbers(d1, w1, t1, l1, d2, w2, t2, l2)
      /\ SettlingNumbers(d2, w2, t2, l2, d1, w1, t1, l1)
  <2>1. SettlingNumbers(d1, w1, t1, l1, d2, w2, t2, l2)
    BY <1>2, <1>3, <1>4 DEF SettlingNumbers
  <2>2. d2 + d1 - w2 - w1 = tad
    BY <1>2
  <2>3. SettlingNumbers(d2, w2, t2, l2, d1, w1, t1, l1)
    BY <1>2, <1>3, <1>4, <2>2 DEF SettlingNumbers
  <2>4. /\ r = receivable(d1, w1, t1, l1, d2, w2, t2, l2)
        /\ r2 = receivable(d2, w2, t2, l2, d1, w1, t1, l1)
        /\ tad = d1 + d2 - w1 - w2
    OBVIOUS
  <2>. HIDE DEF t1, l1, t2, l2, d1, w1, d2, w2, tad, r2
  <2>5. /\ receivable(d1, w1, t1, l1, d2, w2, t2, l2) \in 0 .. (d1 + d2 - w1 - w2)
        /\ receivable(d2, w2, t2, l2, d1, w1, t1, l1)
             = d1 + d2 - w1 - w2 - receivable(d1, w1, t1, l1, d2, w2, t2, l2)
    BY <2>1, ReceivableShared
  <2>6. r \in 0 .. tad /\ r2 = tad - r
    BY <2>1, <2>4, <2>5 DEF SettlingNumbers
  <2>. QED BY <2>1, <2>3, <2>6
<1>6. /\ ordered(p, q) <=> transfersOrdered(t1, l1, t2, l2)
      /\ transfersOrdered(t1, l1, t2, l2) \/ transfersOrdered(t2, l2, t1, l1)
  <2>1. ordered(p, q) <=> transfersOrdered(t1, l1, t2, l2)
    BY DEF ordered
  <2>2. /\ t1 \in Uint /\ l1 \in Uint /\ t2 \in Uint /\ l2 \in Uint
    BY <1>2, MaxIsNat DEF Uint
  <2>. HIDE DEF t1, l1, t2, l2
  <2>3. failsafe_addition(t1, l1) \in Nat /\ failsafe_addition(t2, l2) \in Nat
    BY <2>2, FailsafeAdditionSaturates, MaxIsNat DEF min, Uint
  <2>. QED BY <2>1, <2>3 DEF transfersOrdered
<1>7. CASE ordered(p, q)
  <2>1. SettlingAs(account[p], t1, l1, account[q], t2, l2)
    BY <1>1, <1>5, <1>6, <1>7 DEF SettlingAs
  <2>2. SharedAs(amounts(p, q), l1, l2, r, tad - r)
    BY <1>4, <2>1, SettlesTo DEF amounts
  <2>. QED BY <1>4, <1>5, <1>7, <2>2 DEF settlementOf, SharedAs
<1>8. CASE ~ordered(p, q)
  <2>1. SettlingAs(account[q], t2, l2, account[p], t1, l1)
    BY <1>1, <1>5, <1>6, <1>8 DEF SettlingAs
  <2>2. SharedAs(amounts(q, p), l2, l1, r2, tad - r2)
    BY <1>4, <2>1, SettlesTo DEF amounts
  <2>3. tad - r2 = r
    <3>. HIDE DEF r2, tad
    <3>. QED BY <1>4, <1>5, MaxIsNat DEF Uint
  <2>. QED BY <1>4, <1>5, <1>8, <2>2, <2>3 DEF settlementOf, SharedAs
<1>. QED BY <1>7, <1>8

\* What p ends with when c1 of its l1 and c2 of its partner's l2 are claimable.
shareOf(r, tad, l1, l2, c1, c2) ==
  (r - min(l2, r)) + min(c2, min(l2, r)) + min(l1, tad - r) - min(c1, min(l1, tad - r))

LEMMA FinalAmountOf ==
  ASSUME ClientInv, closed, NEW p \in Clients, NEW q, q = partner(p),
         NEW r, r = receivable(account[p].deposit, account[p].withdrawn_amount,
                               settled[p].transferred, locked(settled[p]),
                               account[q].deposit, account[q].withdrawn_amount,
                               settled[q].transferred, locked(settled[q]))
  PROVE  finalAmount(p) = shareOf(r, getChannelAvailableDeposit(account[p], account[q]),
                                  locked(settled[p]), locked(settled[q]),
                                  claimableLocked(settled[p]), claimableLocked(settled[q]))
BY SettlementShares DEF finalAmount, shareOf

(* With the latest data nothing is bounded away. *)
LatestNumbers(d1, w1, t1, l1, c1, d2, w2, t2, l2, c2) ==
  /\ d1 \in Nat /\ w1 \in Nat /\ t1 \in Nat /\ l1 \in Nat /\ c1 \in 0 .. l1
  /\ d2 \in Nat /\ w2 \in Nat /\ t2 \in Nat /\ l2 \in Nat /\ c2 \in 0 .. l2
  /\ Solvent(d1, w1, t1, l1, d2, w2, t2, l2)

LEMMA ExactShare ==
  ASSUME NEW d1, NEW w1, NEW t1, NEW l1, NEW c1, NEW d2, NEW w2, NEW t2, NEW l2, NEW c2,
         LatestNumbers(d1, w1, t1, l1, c1, d2, w2, t2, l2, c2)
  PROVE  shareOf(receivable(d1, w1, t1, l1, d2, w2, t2, l2), d1 + d2 - w1 - w2, l1, l2, c1, c2)
           = d1 - w1 + t2 - t1 + c2 - c1
<1> DEFINE tad == d1 + d2 - w1 - w2
           avail1 == d1 + t2 - w1 - t1 - l1
           avail2 == d2 + t1 - w2 - t2 - l2
<1>0. /\ d1 \in Nat /\ w1 \in Nat /\ t1 \in Nat /\ l1 \in Nat /\ c1 \in 0 .. l1
      /\ d2 \in Nat /\ w2 \in Nat /\ t2 \in Nat /\ l2 \in Nat /\ c2 \in 0 .. l2
      /\ Solvent(d1, w1, t1, l1, d2, w2, t2, l2)
  BY DEF LatestNumbers
<1>1. avail1 >= 0 /\ avail2 >= 0 /\ tad = avail1 + avail2 + l1 + l2
  BY <1>0 DEF Solvent
<1>2. receivable(d1, w1, t1, l1, d2, w2, t2, l2) = avail1 + l2
  <2>1. d1 + t2 + l2 - t1 - l1 - w1 = avail1 + l2 /\ avail1 \in Int /\ avail2 \in Int
    BY <1>0
  <2>. HIDE DEF avail1, avail2
  <2>2. atLeast(avail1 + l2, 0) = avail1 + l2
    BY <1>0, <1>1, <2>1 DEF atLeast
  <2>3. min(avail1 + l2, tad) = avail1 + l2
    BY <1>0, <1>1, <2>1 DEF min
  <2>. QED BY <2>1, <2>2, <2>3 DEF receivable
<1>3. shareOf(avail1 + l2, tad, l1, l2, c1, c2) = avail1 + l1 + c2 - c1
  <2>1. avail1 \in Int /\ avail2 \in Int
    BY <1>0
  <2>. HIDE DEF avail1, avail2, tad
  <2>2. tad - (avail1 + l2) = avail2 + l1
    BY <1>0, <1>1, <2>1
  <2>3. /\ min(l2, avail1 + l2) = l2 /\ min(c2, l2) = c2
        /\ min(l1, avail2 + l1) = l1 /\ min(c1, l1) = c1
    BY <1>0, <1>1, <2>1 DEF min
  <2>. QED BY <1>0, <2>1, <2>2, <2>3 DEF shareOf
<1>4. avail1 + l1 + c2 - c1 = d1 - w1 + t2 - t1 + c2 - c1
  BY <1>0
<1>. HIDE DEF avail1
<1>. QED BY <1>2, <1>3, <1>4

LEMMA InvPaysExactly == ClientInv => LatestProofsPayExactly
<1> SUFFICES ASSUME ClientInv, Decided, settled = latest, NEW p \in Clients
    PROVE  finalAmount(p) = entitled(p)
  BY DEF LatestProofsPayExactly
<1> DEFINE q == partner(p)
           d1 == account[p].deposit  w1 == account[p].withdrawn_amount
           d2 == account[q].deposit  w2 == account[q].withdrawn_amount
           t1 == latest[p].transferred  l1 == locked(latest[p])
           t2 == latest[q].transferred  l2 == locked(latest[q])
           c1 == claimableLocked(latest[p])  c2 == claimableLocked(latest[q])
<1>1. q \in Clients
  BY PartnerOfPartner
<1>2. /\ d1 \in Nat /\ w1 \in Nat /\ t1 \in Nat /\ l1 \in Nat
      /\ d2 \in Nat /\ w2 \in Nat /\ t2 \in Nat /\ l2 \in Nat
  BY <1>1, AccountsTyped DEF ClientInv
<1>3. c1 \in 0 .. l1 /\ c2 \in 0 .. l2
  BY <1>1, AccountsTyped, ClaimableWithin DEF ClientInv
<1>4. Solvent(d1, w1, t1, l1, d2, w2, t2, l2)
  BY AccountsTyped, ValidAsSolvent DEF ClientInv, SolventFor
<1>5. finalAmount(p) = shareOf(receivable(d1, w1, t1, l1, d2, w2, t2, l2),
                               d1 + d2 - w1 - w2, l1, l2, c1, c2)
  BY FinalAmountOf DEF Decided, getChannelAvailableDeposit
<1>6. entitled(p) = d1 - w1 + t2 - t1 + c2 - c1
  BY DEF entitled, get_expected_after_settlement_unlock_amounts
<1>. HIDE DEF d1, w1, d2, w2, t1, l1, t2, l2, c1, c2
<1>7. shareOf(receivable(d1, w1, t1, l1, d2, w2, t2, l2), d1 + d2 - w1 - w2, l1, l2, c1, c2)
        = d1 - w1 + t2 - t1 + c2 - c1
  <2>1. LatestNumbers(d1, w1, t1, l1, c1, d2, w2, t2, l2, c2)
    BY <1>2, <1>3, <1>4 DEF LatestNumbers
  <2>. QED BY <2>1, ExactShare
<1>. QED BY <1>5, <1>6, <1>7

\* Settled with the latest balance data of both, each client ends with what
\* it is entitled to, whatever locks were pending and became of them.
THEOREM PaysExactlySafety == Spec => []LatestProofsPayExactly
BY ClientInvariance, InvPaysExactly, PTL

-----------------------------------------------------------------------------
(* With older data of p: nt, nl and nc are those of its latest. *)
OlderNumbers(d1, w1, t1, l1, c1, nt, nl, nc, d2, w2, t2, l2, c2) ==
  /\ LatestNumbers(d1, w1, nt, nl, nc, d2, w2, t2, l2, c2)
  /\ t1 \in Nat /\ l1 \in Nat /\ c1 \in 0 .. l1
  /\ t1 + c1 <= nt + nc

LEMMA OlderShare ==
  ASSUME NEW d1, NEW w1, NEW t1, NEW l1, NEW c1, NEW nt, NEW nl, NEW nc,
         NEW d2, NEW w2, NEW t2, NEW l2, NEW c2,
         OlderNumbers(d1, w1, t1, l1, c1, nt, nl, nc, d2, w2, t2, l2, c2)
  PROVE  shareOf(receivable(d1, w1, t1, l1, d2, w2, t2, l2), d1 + d2 - w1 - w2, l1, l2, c1, c2)
           >= (d1 - w1 + t2 - nt + c2 - nc) - (l1 - c1)
<1> DEFINE tad == d1 + d2 - w1 - w2
           R == d1 + t2 + l2 - t1 - l1 - w1
           r == receivable(d1, w1, t1, l1, d2, w2, t2, l2)
           due == (d1 - w1 + t2 - nt + c2 - nc) - (l1 - c1)
<1>0. /\ d1 \in Nat /\ w1 \in Nat /\ t1 \in Nat /\ l1 \in Nat /\ c1 \in 0 .. l1
      /\ nt \in Nat /\ nl \in Nat /\ nc \in 0 .. nl
      /\ d2 \in Nat /\ w2 \in Nat /\ t2 \in Nat /\ l2 \in Nat /\ c2 \in 0 .. l2
      /\ t1 + c1 <= nt + nc
      /\ 0 <= d1 + t2 - w1 - nt - nl /\ 0 <= d2 + nt - w2 - t2 - l2
  BY DEF OlderNumbers, LatestNumbers, Solvent
\* What is due is within both of what r is the least.
<1>1. /\ R \in Int /\ tad \in Int /\ tad >= 0 /\ due \in Int
      /\ due <= R - l2 + c2 /\ due <= tad - l2 + c2
  BY <1>0
<1>. HIDE DEF R, tad, due
<1>2. r = min(atLeast(R, 0), tad)
  BY DEF receivable, R, tad
<1>. HIDE DEF r
<1>3. r \in 0 .. tad /\ (r >= R \/ r = tad)
  BY <1>1, <1>2 DEF min, atLeast
<1>4. (r - min(l2, r)) + min(c2, min(l2, r)) >= r - l2 + c2
  BY <1>0, <1>1, <1>3 DEF min
<1>5. /\ (r - min(l2, r)) + min(c2, min(l2, r)) \in Nat
      /\ min(l1, tad - r) - min(c1, min(l1, tad - r)) \in Nat
      /\ min(l1, tad - r) \in Nat /\ min(c1, min(l1, tad - r)) \in Nat
  BY <1>0, <1>1, <1>3 DEF min
<1>6. r - l2 + c2 >= due
  BY <1>0, <1>1, <1>3
<1>7. shareOf(r, tad, l1, l2, c1, c2) >= due
  BY <1>0, <1>1, <1>3, <1>4, <1>5, <1>6 DEF shareOf
<1>. QED BY <1>7 DEF r, tad, due

LEMMA InvLossIsBounded == ClientInv => LossIsBounded
<1> SUFFICES ASSUME ClientInv, Decided, NEW p \in Clients,
                    settled[partner(p)] = latest[partner(p)]
    PROVE  finalAmount(p) >= entitled(p) - (locked(settled[p]) - claimableLocked(settled[p]))
  BY DEF LossIsBounded
<1> DEFINE q == partner(p)
           d1 == account[p].deposit  w1 == account[p].withdrawn_amount
           d2 == account[q].deposit  w2 == account[q].withdrawn_amount
           t1 == settled[p].transferred  l1 == locked(settled[p])
           t2 == latest[q].transferred  l2 == locked(latest[q])
           nt == latest[p].transferred  nl == locked(latest[p])
           c1 == claimableLocked(settled[p])  c2 == claimableLocked(latest[q])
           nc == claimableLocked(latest[p])
<1>1. q \in Clients /\ settled[q] = latest[q] /\ settled[p] \in signed[p]
  BY PartnerOfPartner DEF ClientInv, Decided
<1>2. /\ d1 \in Nat /\ w1 \in Nat /\ nt \in Nat /\ nl \in Nat
      /\ d2 \in Nat /\ w2 \in Nat /\ t2 \in Nat /\ l2 \in Nat
  BY <1>1, AccountsTyped DEF ClientInv
<1>3. t1 \in Nat /\ l1 \in Nat /\ c1 \in 0 .. l1
  BY <1>1, ForgottenIsSet, ClaimableWithin
<1>4. nc \in 0 .. nl /\ c2 \in 0 .. l2
  BY <1>1, AccountsTyped, ClaimableWithin DEF ClientInv
<1>5. Solvent(d1, w1, nt, nl, d2, w2, t2, l2)
  BY AccountsTyped, ValidAsSolvent DEF ClientInv, SolventFor
<1>6. t1 + c1 <= nt + nc
  BY <1>1, NoOlderPromise DEF NoOlderDataPromisesMore
<1>7. finalAmount(p) = shareOf(receivable(d1, w1, t1, l1, d2, w2, t2, l2),
                               d1 + d2 - w1 - w2, l1, l2, c1, c2)
  BY <1>1, FinalAmountOf DEF Decided, getChannelAvailableDeposit
<1>8. entitled(p) = d1 - w1 + t2 - nt + c2 - nc
  BY DEF entitled, get_expected_after_settlement_unlock_amounts
<1>9. OlderNumbers(d1, w1, t1, l1, c1, nt, nl, nc, d2, w2, t2, l2, c2)
  BY <1>2, <1>3, <1>4, <1>5, <1>6 DEF OlderNumbers, LatestNumbers
<1>10. locked(settled[p]) = l1 /\ claimableLocked(settled[p]) = c1
  OBVIOUS
<1>. HIDE DEF d1, w1, d2, w2, t1, l1, t2, l2, c1, c2, nt, nl, nc
<1>11. shareOf(receivable(d1, w1, t1, l1, d2, w2, t2, l2), d1 + d2 - w1 - w2, l1, l2, c1, c2)
         >= (d1 - w1 + t2 - nt + c2 - nc) - (l1 - c1)
  BY <1>9, OlderShare
<1>. QED BY <1>7, <1>8, <1>10, <1>11

LEMMA InvOldDataHardlyPays == ClientInv => OldDataHardlyPays
BY NoOlderPromise, InvLossIsBounded DEF ClientInv, OldDataHardlyPays

\* Nothing a client has signed promises its partner more than its latest data,
\* and a client that settles with its partner's latest loses at most what of
\* the other data's locks never became claimable.
THEOREM OldDataSafety == Spec => []OldDataHardlyPays
BY ClientInvariance, InvOldDataHardlyPays, PTL
=============================================================================
