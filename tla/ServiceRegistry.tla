--------------------------- MODULE ServiceRegistry ---------------------------
(***************************************************************************)
(* The ServiceRegistry: services deposit tokens at a price that decays     *)
(* with time and rises with every deposit, and are registered for it; the  *)
(* tokens stay in a Deposit contract of their own until the registration   *)
(* that they paid for ends, or the registry is deprecated.                 *)
(***************************************************************************)
EXTENDS Clock, Sequences

CONSTANTS
  Services,
  InitialTokens,       \* what each service owns at the start
  UintMax,             \* 2 ** 256 - 1
  PriceCap,            \* 2 ** 90
  ParameterCap,        \* 2 ** 40, of seconds, decay constants and numerators
  DefaultMinPrice,     \* the value min_price has when the constructor starts
  InitialPrice,        \* constructor argument
  Bumps,               \* <<numerator, denominator>> that are asked for
  DecayConstants,
  MinPrices,
  Durations,
  MaxDeposits,         \* bound of the number of deposits
  MaxValidTill,        \* bound of the time up to which a service registers
  MaxChanges           \* bound of the number of parameter changes

ASSUME ServiceRegistryAssumption ==
  /\ InitialTokens \in [Services -> Nat]
  /\ UintMax \in Nat /\ PriceCap \in 0 .. UintMax /\ ParameterCap \in Nat \ {0}
  /\ DefaultMinPrice \in 0 .. UintMax /\ InitialPrice \in 0 .. PriceCap
  /\ Bumps \subseteq Nat \X Nat /\ DecayConstants \subseteq Nat
  /\ MinPrices \subseteq 0 .. UintMax /\ Durations \subseteq Nat
  /\ MaxDeposits \in Nat /\ MaxValidTill \in Nat /\ MaxChanges \in Nat

VARIABLES
  token,                                    \* ERC20 balances of the services
  set_price, set_price_at, decay_constant, min_price,
  price_bump,                               \* <<numerator, denominator>>
  registration_duration,
  deprecated,
  service_valid_till,
  urls,                                     \* the services that have set one
  deposits,                                 \* the Deposit contracts, in order
  changes                                   \* number of parameter changes so far

priceVars     == <<set_price, set_price_at>>
parameterVars == <<decay_constant, min_price, price_bump, registration_duration>>
vars == <<timestamp, token, priceVars, parameterVars, deprecated, service_valid_till, urls,
          deposits, changes>>

Gone == [withdrawer |-> "none", withdrawable_after |-> 0, amount |-> 0]

TypeOK ==
  /\ ClockTypeOK
  /\ token \in [Services -> Nat]
  /\ set_price \in 0 .. UintMax /\ set_price_at \in Nat
  /\ decay_constant \in 1 .. ParameterCap - 1 /\ min_price \in 0 .. UintMax
  /\ price_bump \in Nat \X (Nat \ {0}) /\ price_bump[1] \in price_bump[2] .. ParameterCap - 1
  /\ registration_duration \in Nat /\ deprecated \in BOOLEAN
  /\ service_valid_till \in [Services -> Nat]
  /\ urls \subseteq Services
  /\ deposits \in Seq([withdrawer : Services, withdrawable_after : Nat, amount : Nat] \cup {Gone})
  /\ Len(deposits) <= MaxDeposits /\ changes \in 0 .. MaxChanges

-----------------------------------------------------------------------------
(* The price.                                                              *)

atLeast(price, floor) == IF price < floor THEN floor ELSE price

P(A) == 24 * (A * A * A * A)

Q(A, X) ==
  P(A) + 24 * (A * A * A * X) + 12 * (A * A * X * X) + 4 * (A * X * X * X) + X * X * X * X

\* The caps are so much smaller than 2 ** 256 that the price can be computed at
\* the largest of the constants, times and prices that are within them.
ASSUME CapsAssumption ==
  LET last == ParameterCap - 1
  IN  Q(last, last) <= UintMax /\ PriceCap * P(last) <= UintMax

\* Whether decayedPrice does without overflowing, after X seconds.
priceComputable(price, X) ==
  X < ParameterCap => Q(decay_constant, X) <= UintMax /\ price * P(decay_constant) <= UintMax

decayedPrice(price, X) ==
  IF X >= ParameterCap THEN min_price
  ELSE atLeast((price * P(decay_constant)) \div Q(decay_constant, X), min_price)

currentPrice == decayedPrice(set_price, timestamp - set_price_at)

currentPriceComputable == priceComputable(set_price, timestamp - set_price_at)

bumpAllowed(bump) ==
  bump[2] > 0 /\ bump[1] >= bump[2] /\ bump[1] < ParameterCap

decayAllowed(constant) == constant > 0 /\ constant < ParameterCap

setParameters(bump, decay, floor, duration) ==
  /\ bumpAllowed(bump) /\ price_bump' = bump
  /\ min_price' = floor
  /\ decayAllowed(decay) /\ decay_constant' = decay
  /\ registration_duration' = duration

\* The constructor refreshes the price too, when min_price still has the value
\* it was declared with.
Init ==
  /\ ClockInit
  /\ token = InitialTokens
  /\ \E bump \in Bumps, decay \in DecayConstants, floor \in MinPrices, duration \in Durations :
       /\ InitialPrice >= floor
       /\ bumpAllowed(bump) /\ price_bump = bump
       /\ min_price = floor
       /\ decayAllowed(decay) /\ decay_constant = decay
       /\ registration_duration = duration
  /\ set_price = atLeast(InitialPrice, DefaultMinPrice) /\ set_price_at = timestamp
  /\ deprecated = FALSE
  /\ service_valid_till = [s \in Services |-> 0]
  /\ urls = {} /\ deposits = <<>> /\ changes = 0

-----------------------------------------------------------------------------
(* Operations.                                                             *)

NewBlock ==
  /\ NextBlock
  /\ UNCHANGED <<token, priceVars, parameterVars, deprecated, service_valid_till, urls,
                 deposits, changes>>

\* The mutant starts every registration now, also one that still runs.
extendedFromNowMutant(valid_till) == timestamp

extendedFrom(valid_till) == IF valid_till < timestamp THEN timestamp ELSE valid_till

\* The mutant has the tokens released as if the registration started now.
releasedFromNowMutant(service) == timestamp + registration_duration

releasedAt(service) == extendedFrom(service_valid_till[service]) + registration_duration

\* The mutant lets the product of amount and bump stand.
bumpedUncappedMutant(amount) == (amount * price_bump[1]) \div price_bump[2]

bumped(amount) ==
  LET price == (amount * price_bump[1]) \div price_bump[2]
  IN  IF price > PriceCap THEN PriceCap ELSE price

\* deposit, with a limit that allows for the current price.
deposit(service) ==
  LET amount     == currentPrice
      valid_till == extendedFrom(service_valid_till[service]) + registration_duration
  IN  /\ Len(deposits) < MaxDeposits /\ valid_till <= MaxValidTill
      /\ ~deprecated
      /\ currentPriceComputable
      /\ registration_duration > 0
      /\ amount * price_bump[1] <= UintMax
      /\ amount > 0 /\ token[service] >= amount
      /\ service_valid_till' = [service_valid_till EXCEPT ![service] = valid_till]
      /\ set_price' = bumped(amount) /\ set_price_at' = timestamp
      /\ token' = [token EXCEPT ![service] = @ - amount]
      /\ deposits' = Append(deposits, [withdrawer |-> service, amount |-> amount,
                                       withdrawable_after |-> releasedAt(service)])
      /\ UNCHANGED <<timestamp, parameterVars, deprecated, urls, changes>>

\* Deposit.withdraw, to any account, and the end of the Deposit contract.
withdraw(i, to) ==
  LET depo == deposits[i]
  IN  /\ depo # Gone
      /\ timestamp >= depo.withdrawable_after \/ deprecated
      /\ token' = [token EXCEPT ![to] = @ + depo.amount]
      /\ deposits' = [deposits EXCEPT ![i] = Gone]
      /\ UNCHANGED <<timestamp, priceVars, parameterVars, deprecated, service_valid_till,
                     urls, changes>>

setURL(service) ==
  /\ timestamp < service_valid_till[service]
  /\ urls' = urls \cup {service}
  /\ UNCHANGED <<timestamp, token, priceVars, parameterVars, deprecated, service_valid_till,
                 deposits, changes>>

\* The mutant leaves the date of the old price.
priceKeptMutant == UNCHANGED priceVars

refreshPrice ==
  /\ currentPriceComputable
  /\ set_price' = currentPrice /\ set_price_at' = timestamp

\* By the controller.
changeParameters(bump, decay, floor, duration) ==
  /\ changes < MaxChanges /\ changes' = changes + 1
  /\ refreshPrice
  /\ setParameters(bump, decay, floor, duration)
  /\ UNCHANGED <<timestamp, token, deprecated, service_valid_till, urls, deposits>>

setDeprecationSwitch ==
  /\ deprecated' = TRUE
  /\ UNCHANGED <<timestamp, token, priceVars, parameterVars, service_valid_till, urls,
                 deposits, changes>>

Next ==
  \/ NewBlock
  \/ \E s \in Services : deposit(s) \/ setURL(s)
  \/ \E i \in DOMAIN deposits, to \in Services : withdraw(i, to)
  \/ \E bump \in Bumps, decay \in DecayConstants, floor \in MinPrices, duration \in Durations :
       changeParameters(bump, decay, floor, duration)
  \/ setDeprecationSwitch

Spec == Init /\ [][Next]_vars

-----------------------------------------------------------------------------
(* Properties.                                                             *)

\* Whoever is registered has tokens at stake until the registration ends,
\* however it was extended and whatever the parameters were each time; only
\* deprecation releases them earlier.
RegistrationIsBacked ==
  TypeOK /\ \A s \in Services : timestamp < service_valid_till[s] /\ ~deprecated =>
    \E i \in DOMAIN deposits :
      /\ deposits[i].withdrawer = s /\ deposits[i].amount > 0
      /\ deposits[i].withdrawable_after = service_valid_till[s]

\* "The multiplication below is not supposed to overflow because _set_price
\* should be at most 2 ** 90": whatever was deposited and changed, the price
\* can be computed now and later, so that neither a deposit nor a change of the
\* parameters, which would repair it, can be stopped by it.
PriceAlwaysComputable ==
  \A X \in 0 .. ParameterCap : priceComputable(set_price, X)

\* While nobody deposits and nothing is changed the price never rises, nor at
\* the point where the approximation is given up for min_price.
TimeNeverRaisesPrice ==
  [][timestamp' > timestamp => currentPrice' <= currentPrice]_vars

\* A change of the parameters changes neither the price of the moment nor, with
\* the new decay constant, lets it fall for seconds that have passed before: it
\* can only lift it to the new minimum.
ChangeOnlyLiftsToMinimum ==
  [][changes' > changes => currentPrice' = atLeast(currentPrice, min_price')]_vars

\* A deposit never makes the next one cheaper, unless the price exceeds 2 ** 90.
DepositNeverLowersPrice ==
  [][Len(deposits') > Len(deposits) =>
       currentPrice' >= currentPrice \/ currentPrice' >= PriceCap]_vars

\* What registering costs moves as its users may expect.
PriceMovesAsPromised ==
  TimeNeverRaisesPrice /\ ChangeOnlyLiftsToMinimum /\ DepositNeverLowersPrice

Promised == INSTANCE Registrations WITH Durations <- Durations \ {0}

\* The registry keeps the promise that the other contracts rely on: whoever it
\* lets register is registered for the duration from the end of what it has, or
\* from now on, and nothing takes a registration away.
ImplementsRegistrations == Promised!RegistrationsSpec
=============================================================================
