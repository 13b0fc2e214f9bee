------------------------- MODULE Registries_proofs -------------------------
(***************************************************************************)
(* The two registries, for any services, tokens, prices and durations: the *)
(* ServiceRegistry keeps its promise and moves its price as its users may  *)
(* expect, and the TokenNetworkRegistry can name every network it made.    *)
(***************************************************************************)
EXTENDS MCRegistries, Sums_proofs

-----------------------------------------------------------------------------
(* The arithmetic of the price.                                            *)

LEMMA ProductsGrow ==
  ASSUME NEW a \in Nat, NEW b \in Nat, NEW c \in Nat, NEW d \in Nat, a <= b, c <= d
  PROVE  a * c \in Nat /\ b * d \in Nat /\ a * c <= b * d
<1>1. PICK e \in Nat : b = a + e
  <2>1. b - a \in Nat /\ b = a + (b - a)
    OBVIOUS
  <2>. QED BY <2>1
<1>2. PICK f \in Nat : d = c + f
  <2>1. d - c \in Nat /\ d = c + (d - c)
    OBVIOUS
  <2>. QED BY <2>1
<1>3. b * d = a * c + a * f + e * c + e * f
  BY <1>1, <1>2
<1>4. a * c \in Nat /\ a * f \in Nat /\ e * c \in Nat /\ e * f \in Nat
  OBVIOUS
<1>. QED BY <1>3, <1>4

LEMMA PositiveProduct ==
  ASSUME NEW a \in Nat \ {0}, NEW b \in Nat \ {0}
  PROVE  a * b \in Nat \ {0}
<1>1. a * b >= 1 * 1
  BY ProductsGrow
<1>. QED BY <1>1

(* A quotient is the largest number that fits.                             *)
LEMMA Quotient ==
  ASSUME NEW n \in Nat, NEW q \in Nat \ {0}
  PROVE  /\ n \div q \in Nat
         /\ (n \div q) * q <= n
         /\ \A k \in Nat : k * q <= n <=> k <= n \div q
OBVIOUS

LEMMA FourFactorsGrow ==
  ASSUME NEW a \in Nat, NEW b \in Nat, NEW c \in Nat, NEW d \in Nat,
         NEW e \in Nat, NEW f \in Nat, NEW g \in Nat, NEW h \in Nat,
         a <= e, b <= f, c <= g, d <= h
  PROVE  a * b * c * d \in Nat /\ e * f * g * h \in Nat /\ a * b * c * d <= e * f * g * h
<1> DEFINE ab == a * b  ef == e * f
<1>1. ab \in Nat /\ ef \in Nat /\ ab <= ef
  BY ProductsGrow
<1>. HIDE DEF ab, ef
<1> DEFINE abc == ab * c  efg == ef * g
<1>2. abc \in Nat /\ efg \in Nat /\ abc <= efg
  BY <1>1, ProductsGrow
<1>. HIDE DEF abc, efg
<1>3. abc * d \in Nat /\ efg * h \in Nat /\ abc * d <= efg * h
  BY <1>2, ProductsGrow
<1>. QED BY <1>3 DEF abc, efg, ab, ef

LEMMA DecayGrows ==
  ASSUME NEW A \in Nat, NEW B \in Nat, NEW X \in Nat, NEW Y \in Nat, A <= B, X <= Y
  PROVE  /\ P(A) \in Nat /\ P(B) \in Nat /\ P(A) <= P(B)
         /\ Q(A, X) \in Nat /\ Q(B, Y) \in Nat /\ Q(A, X) <= Q(B, Y)
         /\ P(A) <= Q(A, X)
<1> DEFINE a0 == A * A * A * A  b0 == B * B * B * B
           a1 == A * A * A * X  b1 == B * B * B * Y
           a2 == A * A * X * X  b2 == B * B * Y * Y
           a3 == A * X * X * X  b3 == B * Y * Y * Y
           a4 == X * X * X * X  b4 == Y * Y * Y * Y
<1>1. /\ a0 \in Nat /\ b0 \in Nat /\ a0 <= b0
      /\ a1 \in Nat /\ b1 \in Nat /\ a1 <= b1
      /\ a2 \in Nat /\ b2 \in Nat /\ a2 <= b2
      /\ a3 \in Nat /\ b3 \in Nat /\ a3 <= b3
      /\ a4 \in Nat /\ b4 \in Nat /\ a4 <= b4
  BY FourFactorsGrow
<1>2. /\ P(A) = 24 * a0 /\ P(B) = 24 * b0
      /\ Q(A, X) = 24 * a0 + 24 * a1 + 12 * a2 + 4 * a3 + a4
      /\ Q(B, Y) = 24 * b0 + 24 * b1 + 12 * b2 + 4 * b3 + b4
  BY DEF P, Q
<1>. HIDE DEF a0, b0, a1, b1, a2, b2, a3, b3, a4, b4
<1>. QED BY <1>1, <1>2

LEMMA DecayStarts ==
  ASSUME NEW A \in Nat \ {0}
  PROVE  P(A) \in Nat \ {0} /\ Q(A, 0) = P(A)
<1> DEFINE square == A * A
<1>1. square \in Nat \ {0}
  BY PositiveProduct
<1>2. A * A * A * A = square * square
  OBVIOUS
<1>. HIDE DEF square
<1>3. square * square \in Nat \ {0}
  BY <1>1, PositiveProduct
<1>4. P(A) \in Nat \ {0}
  BY <1>2, <1>3 DEF P
<1>5. Q(A, 0) = P(A)
  <2>1. /\ A * A * A * 0 = 0 /\ A * A * 0 * 0 = 0 /\ A * 0 * 0 * 0 = 0 /\ 0 * 0 * 0 * 0 = 0
    OBVIOUS
  <2>. QED BY <1>4, <2>1 DEF Q
<1>. QED BY <1>4, <1>5

(* Whatever decays from the cap can be computed.                           *)
LEMMA CapComputable ==
  ASSUME NEW A \in 1 .. ParameterCap - 1, NEW X \in 0 .. ParameterCap - 1,
         NEW price \in 0 .. PriceCap
  PROVE  Q(A, X) <= UintMax /\ price * P(A) <= UintMax
<1> DEFINE last == ParameterCap - 1
<1>1. /\ last \in Nat /\ A \in Nat /\ X \in Nat /\ A <= last /\ X <= last
      /\ price \in Nat /\ PriceCap \in Nat /\ price <= PriceCap /\ UintMax \in Nat
  BY ServiceRegistryAssumption
<1>2. Q(last, last) <= UintMax /\ PriceCap * P(last) <= UintMax
  BY CapsAssumption
<1>. HIDE DEF last
<1>3. /\ Q(A, X) \in Nat /\ Q(last, last) \in Nat /\ Q(A, X) <= Q(last, last)
      /\ P(A) \in Nat /\ P(last) \in Nat /\ P(A) <= P(last)
  BY <1>1, DecayGrows
<1>4. price * P(A) \in Nat /\ PriceCap * P(last) \in Nat /\ price * P(A) <= PriceCap * P(last)
  BY <1>1, <1>3, ProductsGrow
<1>. QED BY <1>1, <1>2, <1>3, <1>4

(* The price never exceeds the one it decays from, nor falls below the     *)
(* minimum, and only falls.                                                *)
LEMMA PriceDecays ==
  ASSUME TypeOK, NEW price \in Nat, NEW X \in Nat, NEW Y \in Nat, X <= Y
  PROVE  /\ decayedPrice(price, X) \in Nat
         /\ decayedPrice(price, X) <= atLeast(price, min_price)
         /\ min_price <= decayedPrice(price, X)
         /\ decayedPrice(price, Y) <= decayedPrice(price, X)
         /\ X = 0 => decayedPrice(price, X) = atLeast(price, min_price)
<1> DEFINE A == decay_constant
           p == price * P(A)
           x == p \div Q(A, X)
           y == p \div Q(A, Y)
<1>1. A \in Nat \ {0} /\ min_price \in Nat /\ ParameterCap \in Nat \ {0}
  BY ServiceRegistryAssumption DEF TypeOK
<1>2. /\ P(A) \in Nat \ {0} /\ Q(A, 0) = P(A)
      /\ Q(A, X) \in Nat /\ Q(A, Y) \in Nat
      /\ P(A) <= Q(A, X) /\ Q(A, X) <= Q(A, Y)
  BY <1>1, DecayStarts, DecayGrows
<1>3. /\ decayedPrice(price, X) = IF X >= ParameterCap THEN min_price ELSE atLeast(x, min_price)
      /\ decayedPrice(price, Y) = IF Y >= ParameterCap THEN min_price ELSE atLeast(y, min_price)
  BY DEF decayedPrice
<1>. HIDE DEF A
<1> DEFINE qx == Q(A, X)  qy == Q(A, Y)  pa == P(A)
<1>4. /\ qx \in Nat \ {0} /\ qy \in Nat \ {0} /\ pa \in Nat \ {0} /\ pa <= qx /\ qx <= qy
      /\ Q(A, 0) = pa
  BY <1>2
<1>5. p = price * pa /\ x = p \div qx /\ y = p \div qy
  OBVIOUS
<1>. HIDE DEF qx, qy, pa, p, x, y
<1>6. p \in Nat
  BY <1>4, <1>5
<1>7. x \in Nat /\ y \in Nat /\ x * qx <= p /\ y * qy <= p
  BY <1>4, <1>5, <1>6, Quotient
<1>8. y <= x
  <2>1. y * qx <= y * qy /\ y * qx \in Nat /\ y * qy \in Nat
    BY <1>4, <1>7, ProductsGrow
  <2>2. y * qx <= p
    BY <1>6, <1>7, <2>1
  <2>. QED BY <1>4, <1>5, <1>6, <1>7, <2>2, Quotient
<1>9. x <= price
  <2>1. SUFFICES ASSUME x > price PROVE FALSE
    BY <1>7
  <2>2. (price + 1) * pa <= x * qx /\ x * qx \in Nat
    BY <1>4, <1>7, <2>1, ProductsGrow
  <2>3. (price + 1) * pa = p + pa
    BY <1>4, <1>5
  <2>. QED BY <1>4, <1>6, <1>7, <2>2, <2>3
<1>10. X = 0 => x = price
  <2>1. SUFFICES ASSUME X = 0 PROVE x = price
    OBVIOUS
  <2>2. qx = pa
    BY <1>4, <2>1 DEF qx
  <2>3. price * qx <= p
    BY <1>4, <1>5, <1>6, <2>2
  <2>4. price <= x
    BY <1>4, <1>5, <1>6, <2>3, Quotient
  <2>. QED BY <1>7, <1>9, <2>4
<1>. QED BY <1>1, <1>3, <1>7, <1>8, <1>9, <1>10 DEF atLeast

-----------------------------------------------------------------------------
(* The ServiceRegistry.                                                    *)

RegistryInv ==
  /\ RegistrationIsBacked
  /\ registration_duration \in Durations
  /\ set_price_at <= timestamp

LEMMA PriceNow ==
  ASSUME RegistryInv
  PROVE  /\ TypeOK /\ timestamp \in Nat /\ set_price_at \in Nat
         /\ timestamp - set_price_at \in Nat
         /\ set_price \in Nat /\ min_price \in Nat
         /\ currentPrice \in Nat /\ min_price <= currentPrice
         /\ currentPrice <= atLeast(set_price, min_price)
<1>1. TypeOK
  BY DEF RegistryInv, RegistrationIsBacked
<1>2. /\ timestamp \in Nat /\ set_price_at \in Nat /\ set_price \in Nat /\ min_price \in Nat
      /\ timestamp - set_price_at \in Nat
  BY <1>1, ServiceRegistryAssumption DEF TypeOK, ClockTypeOK, RegistryInv
<1>3. /\ currentPrice \in Nat /\ min_price <= currentPrice
      /\ currentPrice <= atLeast(set_price, min_price)
  BY <1>1, <1>2, PriceDecays DEF currentPrice
<1>. QED BY <1>1, <1>2, <1>3

LEMMA PriceInUint ==
  ASSUME RegistryInv PROVE currentPrice \in 0 .. UintMax
<1>1. /\ TypeOK /\ set_price \in 0 .. UintMax /\ min_price \in 0 .. UintMax
      /\ UintMax \in Nat
  BY PriceNow, ServiceRegistryAssumption DEF TypeOK
<1>. QED BY <1>1, PriceNow DEF atLeast

LEMMA RegistryInitially == Init => RegistryInv
<1> SUFFICES ASSUME Init PROVE RegistryInv
  OBVIOUS
<1>1. PICK bump \in Bumps, decay \in DecayConstants, floor \in MinPrices, duration \in Durations :
        /\ bumpAllowed(bump) /\ price_bump = bump
        /\ min_price = floor
        /\ decayAllowed(decay) /\ decay_constant = decay
        /\ registration_duration = duration
  BY DEF Init
<1>2. /\ bump \in Nat \X Nat /\ decay \in Nat /\ floor \in 0 .. UintMax /\ duration \in Nat
      /\ ParameterCap \in Nat /\ UintMax \in Nat
  BY ServiceRegistryAssumption
<1>3. /\ price_bump \in Nat \X (Nat \ {0}) /\ price_bump[1] \in price_bump[2] .. ParameterCap - 1
  BY <1>1, <1>2 DEF bumpAllowed
<1>4. decay_constant \in 1 .. ParameterCap - 1
  BY <1>1, <1>2 DEF decayAllowed
<1>5. timestamp \in Nat \ {0} /\ set_price_at \in Nat /\ set_price_at <= timestamp
  BY DEF Init, ClockInit
<1>6. set_price \in 0 .. UintMax
  BY ServiceRegistryAssumption DEF Init, atLeast
<1>7. /\ deposits = <<>> /\ Len(deposits) <= MaxDeposits
      /\ deposits \in Seq([withdrawer : Services, withdrawable_after : Nat, amount : Nat] \cup {Gone})
      /\ changes \in 0 .. MaxChanges
  BY ServiceRegistryAssumption DEF Init
<1>8. TypeOK
  BY <1>1, <1>2, <1>3, <1>4, <1>5, <1>6, <1>7, ServiceRegistryAssumption
     DEF Init, TypeOK, ClockTypeOK
<1>9. RegistrationIsBacked
  <2>1. \A s \in Services : ~(timestamp < service_valid_till[s])
    BY DEF Init, ClockInit
  <2>. QED BY <1>8, <2>1 DEF RegistrationIsBacked
<1>. QED BY <1>1, <1>5, <1>9 DEF RegistryInv

LEMMA DepositBacks ==
  ASSUME RegistryInv, NEW service \in Services, deposit(service)
  PROVE  RegistryInv'
<1> DEFINE amount == currentPrice
           old == service_valid_till[service]
           valid_till == extendedFrom(old) + registration_duration
           depo == [withdrawer |-> service, amount |-> amount, withdrawable_after |-> valid_till]
<1>1. /\ TypeOK /\ timestamp \in Nat \ {0} /\ registration_duration \in Nat
      /\ registration_duration \in Durations
      /\ old \in Nat
  BY PriceNow DEF TypeOK, ClockTypeOK, RegistryInv
<1>2. /\ Len(deposits) < MaxDeposits
      /\ amount > 0 /\ token[service] >= amount
      /\ service_valid_till' = [service_valid_till EXCEPT ![service] = valid_till]
      /\ set_price' = bumped(amount) /\ set_price_at' = timestamp
      /\ token' = [token EXCEPT ![service] = @ - amount]
      /\ deposits' = Append(deposits, depo)
      /\ UNCHANGED <<timestamp, parameterVars, deprecated, urls, changes>>
  BY DEF deposit, releasedAt
<1>3. valid_till \in Nat /\ amount \in Nat
  BY <1>1, PriceNow DEF extendedFrom
<1>. HIDE DEF amount, valid_till, old
<1> DEFINE Depos == [withdrawer : Services, withdrawable_after : Nat, amount : Nat]
<1>4. depo \in Depos
  BY <1>3
<1>5. /\ depo.withdrawer = service /\ depo.amount = amount /\ depo.withdrawable_after = valid_till
  OBVIOUS
<1>6. deposits \in Seq(Depos \cup {Gone}) /\ Len(deposits) \in Nat /\ Len(deposits) <= MaxDeposits
      /\ MaxDeposits \in Nat
  BY <1>1, ServiceRegistryAssumption DEF TypeOK
<1>. HIDE DEF depo
<1>7. /\ deposits' \in Seq(Depos \cup {Gone}) /\ Len(deposits') = Len(deposits) + 1
      /\ deposits'[Len(deposits) + 1] = depo
      /\ \A i \in 1 .. Len(deposits) : deposits'[i] = deposits[i]
  <2>. HIDE DEF Depos
  <2>. QED BY <1>2, <1>4, <1>6
<1>8. bumped(amount) \in 0 .. UintMax
  <2>1. /\ price_bump[1] \in Nat /\ price_bump[2] \in Nat \ {0}
    BY <1>1, ServiceRegistryAssumption DEF TypeOK
  <2>2. amount * price_bump[1] \in Nat
    BY <1>3, <2>1
  <2>3. (amount * price_bump[1]) \div price_bump[2] \in Nat
    BY <2>1, <2>2, Quotient
  <2>. QED BY <2>3, ServiceRegistryAssumption DEF bumped
<1>9. token' \in [Services -> Nat] /\ service_valid_till' \in [Services -> Nat]
      /\ service_valid_till'[service] = valid_till
      /\ \A s \in Services \ {service} : service_valid_till'[s] = service_valid_till[s]
  BY <1>1, <1>2, <1>3 DEF TypeOK
<1>10. TypeOK'
  <2>1. Len(deposits') <= MaxDeposits
    BY <1>2, <1>6, <1>7
  <2>. QED BY <1>1, <1>2, <1>7, <1>8, <1>9, <2>1 DEF TypeOK, ClockTypeOK, parameterVars
<1>11. ASSUME NEW s \in Services, timestamp < service_valid_till'[s], ~deprecated
       PROVE  \E i \in DOMAIN deposits' :
                /\ deposits'[i].withdrawer = s /\ deposits'[i].amount > 0
                /\ deposits'[i].withdrawable_after = service_valid_till'[s]
  <2>1. CASE s = service
    <3>1. Len(deposits) + 1 \in DOMAIN deposits'
      BY <1>6, <1>7
    <3>. QED BY <1>2, <1>5, <1>7, <1>9, <2>1, <3>1
  <2>2. CASE s # service
    <3>1. PICK i \in DOMAIN deposits :
            /\ deposits[i].withdrawer = s /\ deposits[i].amount > 0
            /\ deposits[i].withdrawable_after = service_valid_till[s]
      BY <1>9, <1>11, <2>2 DEF RegistryInv, RegistrationIsBacked
    <3>2. i \in 1 .. Len(deposits) /\ i \in DOMAIN deposits'
      BY <1>6, <1>7
    <3>. QED BY <1>7, <1>9, <2>2, <3>1, <3>2
  <2>. QED BY <2>1, <2>2
<1>12. RegistrationIsBacked'
  BY <1>2, <1>10, <1>11 DEF RegistrationIsBacked
<1>13. registration_duration' \in Durations /\ set_price_at' <= timestamp'
  BY <1>1, <1>2 DEF parameterVars
<1>. QED BY <1>12, <1>13 DEF RegistryInv

(* Nothing that backs a registration can be withdrawn while it runs.       *)
LEMMA WithdrawBacks ==
  ASSUME RegistryInv, NEW i \in DOMAIN deposits, NEW to \in Services, withdraw(i, to)
  PROVE  RegistryInv'
<1> DEFINE Depos == [withdrawer : Services, withdrawable_after : Nat, amount : Nat]
<1>1. /\ TypeOK /\ timestamp \in Nat
      /\ deposits \in Seq(Depos \cup {Gone})
  BY PriceNow DEF TypeOK
<1>2. /\ deposits[i] # Gone
      /\ timestamp >= deposits[i].withdrawable_after \/ deprecated
      /\ token' = [token EXCEPT ![to] = @ + deposits[i].amount]
      /\ deposits' = [deposits EXCEPT ![i] = Gone]
      /\ UNCHANGED <<timestamp, priceVars, parameterVars, deprecated, service_valid_till,
                     urls, changes>>
  BY DEF withdraw
<1>3. i \in 1 .. Len(deposits) /\ deposits[i] \in Depos
  BY <1>1, <1>2
<1>4. deposits[i].amount \in Nat /\ deposits[i].withdrawable_after \in Nat
  BY <1>3
<1>5. deposits' \in Seq(Depos \cup {Gone}) /\ Len(deposits') = Len(deposits)
      /\ \A j \in 1 .. Len(deposits) : j # i => deposits'[j] = deposits[j]
  <2>. HIDE DEF Depos
  <2>. QED BY <1>1, <1>2, <1>3
<1>6. token' \in [Services -> Nat]
  <2>1. token \in [Services -> Nat] /\ token[to] \in Nat
    BY <1>1 DEF TypeOK
  <2>2. token[to] + deposits[i].amount \in Nat
    BY <1>4, <2>1
  <2>. QED BY <1>2, <2>1, <2>2
<1>7. TypeOK'
  BY <1>1, <1>2, <1>5, <1>6 DEF TypeOK, ClockTypeOK, parameterVars, priceVars
<1>8. ASSUME NEW s \in Services, timestamp < service_valid_till[s], ~deprecated
      PROVE  \E j \in DOMAIN deposits' :
               /\ deposits'[j].withdrawer = s /\ deposits'[j].amount > 0
               /\ deposits'[j].withdrawable_after = service_valid_till[s]
  <2>1. PICK j \in DOMAIN deposits :
          /\ deposits[j].withdrawer = s /\ deposits[j].amount > 0
          /\ deposits[j].withdrawable_after = service_valid_till[s]
    BY <1>8 DEF RegistryInv, RegistrationIsBacked
  <2>2. j # i
    <3>1. service_valid_till[s] \in Nat
      BY <1>1 DEF TypeOK
    <3>. QED BY <1>1, <1>2, <1>4, <1>8, <2>1, <3>1
  <2>3. j \in 1 .. Len(deposits) /\ j \in DOMAIN deposits'
    BY <1>1, <1>5
  <2>. QED BY <1>5, <2>1, <2>2, <2>3
<1>9. RegistrationIsBacked'
  BY <1>2, <1>7, <1>8 DEF RegistrationIsBacked
<1>. QED BY <1>2, <1>9 DEF RegistryInv, parameterVars, priceVars

LEMMA ChangeBacks ==
  ASSUME RegistryInv, NEW bump \in Bumps, NEW decay \in DecayConstants,
         NEW floor \in MinPrices, NEW duration \in Durations,
         changeParameters(bump, decay, floor, duration)
  PROVE  RegistryInv'
<1>1. /\ TypeOK /\ bump \in Nat \X Nat /\ decay \in Nat /\ floor \in 0 .. UintMax
      /\ duration \in Nat /\ ParameterCap \in Nat
  BY PriceNow, ServiceRegistryAssumption
<1>2. /\ changes < MaxChanges /\ changes' = changes + 1
      /\ set_price' = currentPrice /\ set_price_at' = timestamp
      /\ bumpAllowed(bump) /\ price_bump' = bump
      /\ min_price' = floor
      /\ decayAllowed(decay) /\ decay_constant' = decay
      /\ registration_duration' = duration
      /\ UNCHANGED <<timestamp, token, deprecated, service_valid_till, urls, deposits>>
  BY DEF changeParameters, refreshPrice, setParameters
<1>3. price_bump' \in Nat \X (Nat \ {0}) /\ price_bump'[1] \in price_bump'[2] .. ParameterCap - 1
  BY <1>1, <1>2 DEF bumpAllowed
<1>4. decay_constant' \in 1 .. ParameterCap - 1
  BY <1>1, <1>2 DEF decayAllowed
<1>5. changes' \in 0 .. MaxChanges
  BY <1>1, <1>2, ServiceRegistryAssumption DEF TypeOK
<1>6. set_price' \in 0 .. UintMax /\ set_price_at' \in Nat /\ set_price_at' <= timestamp'
  BY <1>2, PriceInUint, PriceNow
<1>7. TypeOK'
  BY <1>1, <1>2, <1>3, <1>4, <1>5, <1>6 DEF TypeOK, ClockTypeOK
<1>8. RegistrationIsBacked'
  BY <1>2, <1>7 DEF RegistryInv, RegistrationIsBacked
<1>. QED BY <1>2, <1>6, <1>8 DEF RegistryInv

LEMMA BlockBacks ==
  ASSUME RegistryInv, NewBlock PROVE RegistryInv'
<1>1. /\ timestamp \in Nat \ {0} /\ timestamp' = timestamp + 1
      /\ UNCHANGED <<token, priceVars, parameterVars, deprecated, service_valid_till, urls,
                     deposits, changes>>
  BY PriceNow DEF NewBlock, NextBlock, TypeOK, ClockTypeOK
<1>2. TypeOK'
  BY <1>1, PriceNow DEF TypeOK, ClockTypeOK, priceVars, parameterVars
<1>3. \A s \in Services :
        timestamp' < service_valid_till'[s] => timestamp < service_valid_till[s]
  BY <1>1, PriceNow DEF TypeOK
<1>4. RegistrationIsBacked'
  BY <1>1, <1>2, <1>3 DEF RegistryInv, RegistrationIsBacked
<1>. QED BY <1>1, <1>4, PriceNow DEF RegistryInv, priceVars, parameterVars

LEMMA RegistryUntouched ==
  ASSUME RegistryInv, urls' \subseteq Services, deprecated' \in BOOLEAN, deprecated => deprecated',
         UNCHANGED <<timestamp, token, priceVars, parameterVars, service_valid_till, deposits,
                     changes>>
  PROVE  RegistryInv'
<1>1. TypeOK'
  BY PriceNow DEF TypeOK, ClockTypeOK, priceVars, parameterVars
<1>2. RegistrationIsBacked'
  BY <1>1 DEF RegistryInv, RegistrationIsBacked
<1>. QED BY <1>2 DEF RegistryInv, priceVars, parameterVars

LEMMA RegistryStep == RegistryInv /\ [Next]_vars => RegistryInv'
<1> SUFFICES ASSUME RegistryInv, [Next]_vars PROVE RegistryInv'
  OBVIOUS
<1>0. urls \subseteq Services /\ deprecated \in BOOLEAN
  BY PriceNow DEF TypeOK
<1>1. CASE NewBlock
  BY <1>1, BlockBacks
<1>2. ASSUME NEW s \in Services, deposit(s) PROVE RegistryInv'
  BY <1>2, DepositBacks
<1>3. ASSUME NEW s \in Services, setURL(s) PROVE RegistryInv'
  BY <1>0, <1>3, RegistryUntouched DEF setURL
<1>4. ASSUME NEW i \in DOMAIN deposits, NEW to \in Services, withdraw(i, to) PROVE RegistryInv'
  BY <1>4, WithdrawBacks
<1>5. ASSUME NEW bump \in Bumps, NEW decay \in DecayConstants, NEW floor \in MinPrices,
             NEW duration \in Durations, changeParameters(bump, decay, floor, duration)
      PROVE  RegistryInv'
  BY <1>5, ChangeBacks
<1>6. CASE setDeprecationSwitch
  BY <1>0, <1>6, RegistryUntouched DEF setDeprecationSwitch
<1>7. CASE UNCHANGED vars
  BY <1>0, <1>7, RegistryUntouched DEF vars
<1>. QED BY <1>1, <1>2, <1>3, <1>4, <1>5, <1>6, <1>7 DEF Next

(* Every registration is backed in every state.                            *)
THEOREM RegistryInvariance == Spec => []RegistryInv
BY RegistryInitially, RegistryStep, PTL DEF Spec

(* A registration that runs has tokens at stake until it ends.             *)
THEOREM RegistrationSafety == Spec => []RegistrationIsBacked
<1>1. RegistryInv => RegistrationIsBacked
  BY DEF RegistryInv
<1>. QED BY <1>1, RegistryInvariance, PTL

-----------------------------------------------------------------------------
(* What others see of it is Registrations.                                 *)

LEMMA PromisedInitially == Init => Promised!ClockInit /\ Promised!RegistrationsInit
BY DEF Init, ClockInit, Promised!ClockInit, Promised!RegistrationsInit

LEMMA PromisedStep ==
  RegistryInv /\ [Next]_vars => [Promised!RegistrationsNext]_<<timestamp, service_valid_till>>
<1> SUFFICES ASSUME RegistryInv, [Next]_vars
             PROVE  [Promised!RegistrationsNext]_<<timestamp, service_valid_till>>
  OBVIOUS
<1>1. CASE NewBlock
  BY <1>1 DEF NewBlock, NextBlock, Promised!RegistrationsNext, Promised!NextBlock
<1>2. ASSUME NEW s \in Services, deposit(s)
      PROVE  Promised!RegistrationsNext
  <2>1. registration_duration \in Durations \ {0}
    BY <1>2 DEF deposit, RegistryInv
  <2>2. /\ extendedFrom(service_valid_till[s]) + registration_duration <= MaxValidTill
        /\ service_valid_till' = [service_valid_till EXCEPT ![s] =
             extendedFrom(service_valid_till[s]) + registration_duration]
        /\ timestamp' = timestamp
    BY <1>2 DEF deposit
  <2>3. Promised!Register(s)
    BY <2>1, <2>2 DEF Promised!Register, Promised!extendedFrom, extendedFrom
  <2>. QED BY <2>2, <2>3 DEF Promised!RegistrationsNext
<1>3. ASSUME NEW s \in Services, setURL(s) PROVE UNCHANGED <<timestamp, service_valid_till>>
  BY <1>3 DEF setURL
<1>4. ASSUME NEW i \in DOMAIN deposits, NEW to \in Services, withdraw(i, to)
      PROVE  UNCHANGED <<timestamp, service_valid_till>>
  BY <1>4 DEF withdraw
<1>5. ASSUME NEW bump \in Bumps, NEW decay \in DecayConstants, NEW floor \in MinPrices,
             NEW duration \in Durations, changeParameters(bump, decay, floor, duration)
      PROVE  UNCHANGED <<timestamp, service_valid_till>>
  BY <1>5 DEF changeParameters
<1>6. CASE setDeprecationSwitch
  BY <1>6 DEF setDeprecationSwitch
<1>7. CASE UNCHANGED vars
  BY <1>7 DEF vars
<1>. QED BY <1>1, <1>2, <1>3, <1>4, <1>5, <1>6, <1>7 DEF Next

(* The ServiceRegistry implements what OneToN and MonitoringService rely on. *)
THEOREM RegistrationsRefinement == Spec => ImplementsRegistrations
BY RegistryInvariance, PromisedInitially, PromisedStep, PTL
   DEF Spec, ImplementsRegistrations, Promised!RegistrationsSpec

-----------------------------------------------------------------------------
(* How the price moves.                                                    *)

LEMMA BlockLowersPrice ==
  ASSUME RegistryInv, NewBlock PROVE currentPrice' <= currentPrice
<1>1. /\ TypeOK /\ timestamp - set_price_at \in Nat
      /\ timestamp \in Nat /\ set_price_at \in Nat /\ set_price \in Nat
  BY PriceNow
<1>2. /\ timestamp' = timestamp + 1
      /\ UNCHANGED <<set_price, set_price_at, decay_constant, min_price>>
  BY DEF NewBlock, NextBlock, priceVars, parameterVars
<1> DEFINE X == timestamp - set_price_at
           Y == timestamp + 1 - set_price_at
<1>3. X \in Nat /\ Y \in Nat /\ X <= Y
  BY <1>1
<1>4. currentPrice = decayedPrice(set_price, X)
  BY DEF currentPrice
<1>5. currentPrice' = decayedPrice(set_price, Y)
  <2>1. timestamp' - set_price_at' = Y
    BY <1>1, <1>2
  <2>2. (P(decay_constant))' = P(decay_constant)
    BY <1>2 DEF P
  <2>3. (Q(decay_constant, timestamp - set_price_at))' = Q(decay_constant, Y)
    BY <1>2, <2>1, <2>2 DEF Q
  <2>. HIDE DEF X, Y
  <2>4. currentPrice' =
          IF Y >= ParameterCap THEN min_price
          ELSE atLeast((set_price * P(decay_constant)) \div Q(decay_constant, Y), min_price)
    BY <1>2, <2>1, <2>2, <2>3 DEF currentPrice, decayedPrice, atLeast
  <2>. QED BY <2>4 DEF decayedPrice
<1>. HIDE DEF X, Y
<1>. QED BY <1>1, <1>3, <1>4, <1>5, PriceDecays

(* Right after it has been set, the price is what it was set to, or the    *)
(* minimum.                                                                *)
LEMMA PriceJustSet ==
  RegistryInv /\ set_price_at = timestamp => currentPrice = atLeast(set_price, min_price)
<1> SUFFICES ASSUME RegistryInv, set_price_at = timestamp
             PROVE  currentPrice = atLeast(set_price, min_price)
  OBVIOUS
<1>1. TypeOK /\ timestamp - set_price_at = 0 /\ set_price \in Nat
  BY PriceNow
<1>. QED BY <1>1, PriceDecays DEF currentPrice

LEMMA PriceJustSetNext ==
  RegistryInv' /\ set_price_at' = timestamp' => currentPrice' = atLeast(set_price', min_price')
<1>1. (RegistryInv /\ set_price_at = timestamp => currentPrice = atLeast(set_price, min_price))'
  BY PriceJustSet, PTL
<1>. QED BY <1>1 DEF atLeast

(* Which step moves which counter.                                         *)
LEMMA WhoMovesThePrice ==
  ASSUME RegistryInv, [Next]_vars
  PROVE  /\ timestamp' > timestamp => NewBlock
         /\ changes' > changes =>
              \E bump \in Bumps, decay \in DecayConstants, floor \in MinPrices,
                 duration \in Durations : changeParameters(bump, decay, floor, duration)
         /\ Len(deposits') > Len(deposits) => \E s \in Services : deposit(s)
<1>0. timestamp \in Nat /\ changes \in Nat /\ Len(deposits) \in Nat
      /\ \A i \in DOMAIN deposits : Len([deposits EXCEPT ![i] = Gone]) = Len(deposits)
  <2>1. /\ TypeOK
        /\ deposits \in Seq([withdrawer : Services, withdrawable_after : Nat, amount : Nat]
                            \cup {Gone})
    BY PriceNow DEF TypeOK
  <2>2. \A i \in DOMAIN deposits : Len([deposits EXCEPT ![i] = Gone]) = Len(deposits)
    BY <2>1
  <2>. QED BY <2>1, <2>2, PriceNow, ServiceRegistryAssumption DEF TypeOK
<1>1. CASE NewBlock
  BY <1>0, <1>1 DEF NewBlock, NextBlock
<1>2. ASSUME NEW s \in Services, deposit(s)
      PROVE  timestamp' = timestamp /\ changes' = changes
  BY <1>2 DEF deposit
<1>3. ASSUME NEW s \in Services, setURL(s)
      PROVE  timestamp' = timestamp /\ changes' = changes /\ deposits' = deposits
  BY <1>3 DEF setURL
<1>4. ASSUME NEW i \in DOMAIN deposits, NEW to \in Services, withdraw(i, to)
      PROVE  timestamp' = timestamp /\ changes' = changes /\ Len(deposits') = Len(deposits)
  BY <1>0, <1>4 DEF withdraw
<1>5. ASSUME NEW bump \in Bumps, NEW decay \in DecayConstants, NEW floor \in MinPrices,
             NEW duration \in Durations, changeParameters(bump, decay, floor, duration)
      PROVE  timestamp' = timestamp /\ deposits' = deposits
  BY <1>5 DEF changeParameters
<1>6. CASE setDeprecationSwitch
  BY <1>0, <1>6 DEF setDeprecationSwitch
<1>7. CASE UNCHANGED vars
  BY <1>0, <1>7 DEF vars
<1>. QED BY <1>0, <1>1, <1>2, <1>3, <1>4, <1>5, <1>6, <1>7 DEF Next

LEMMA ChangeLiftsPrice ==
  ASSUME RegistryInv, NEW bump \in Bumps, NEW decay \in DecayConstants,
         NEW floor \in MinPrices, NEW duration \in Durations,
         changeParameters(bump, decay, floor, duration)
  PROVE  currentPrice' = atLeast(currentPrice, min_price')
<1>1. set_price' = currentPrice /\ set_price_at' = timestamp /\ timestamp' = timestamp
  BY DEF changeParameters, refreshPrice
<1>2. RegistryInv'
  BY ChangeBacks
<1>. QED BY <1>1, <1>2, PriceJustSetNext

LEMMA DepositLiftsPrice ==
  ASSUME RegistryInv, NEW service \in Services, deposit(service)
  PROVE  currentPrice' >= currentPrice \/ currentPrice' >= PriceCap
<1> DEFINE amount == currentPrice
           next   == (amount * price_bump[1]) \div price_bump[2]
<1>1. /\ amount \in Nat /\ PriceCap \in Nat
      /\ price_bump[1] \in Nat /\ price_bump[2] \in Nat \ {0} /\ price_bump[2] <= price_bump[1]
      /\ min_price \in Nat
  BY PriceNow, ServiceRegistryAssumption DEF TypeOK
<1>2. /\ set_price' = bumped(amount) /\ set_price_at' = timestamp
      /\ timestamp' = timestamp /\ min_price' = min_price
  BY DEF deposit, parameterVars
<1>3. RegistryInv'
  BY DepositBacks
<1>4. currentPrice' = atLeast(bumped(amount), min_price)
  BY <1>2, <1>3, PriceJustSetNext
<1>. HIDE DEF amount
<1>5. next \in Nat /\ next >= amount
  <2>1. /\ amount * price_bump[2] \in Nat /\ amount * price_bump[1] \in Nat
        /\ amount * price_bump[2] <= amount * price_bump[1]
    BY <1>1, ProductsGrow
  <2>. QED BY <1>1, <2>1, Quotient
<1>6. bumped(amount) >= amount \/ bumped(amount) = PriceCap
  BY <1>1, <1>5 DEF bumped
<1>7. bumped(amount) \in Nat
  BY <1>1, <1>5 DEF bumped
<1>. QED BY <1>1, <1>4, <1>6, <1>7 DEF amount, atLeast

(* Time only lowers the price, a change of the parameters only lifts it to *)
(* the minimum, and a deposit does not lower it.                           *)
THEOREM PriceSafety == Spec => PriceMovesAsPromised
<1>1. RegistryInv /\ [Next]_vars =>
        [timestamp' > timestamp => currentPrice' <= currentPrice]_vars
  BY WhoMovesThePrice, BlockLowersPrice
<1>2. RegistryInv /\ [Next]_vars =>
        [changes' > changes => currentPrice' = atLeast(currentPrice, min_price')]_vars
  BY WhoMovesThePrice, ChangeLiftsPrice
<1>3. RegistryInv /\ [Next]_vars =>
        [Len(deposits') > Len(deposits) =>
           currentPrice' >= currentPrice \/ currentPrice' >= PriceCap]_vars
  BY WhoMovesThePrice, DepositLiftsPrice
<1>. QED BY <1>1, <1>2, <1>3, RegistryInvariance, PTL
     DEF Spec, PriceMovesAsPromised, TimeNeverRaisesPrice, ChangeOnlyLiftsToMinimum,
         DepositNeverLowersPrice

-----------------------------------------------------------------------------
(* The controller is free to choose a minimum above the cap of the price,  *)
(* and then the price overflows; the code's comment takes for granted that *)
(* it does not.                                                            *)
MinPricesBelowCap == MinPrices \subseteq 0 .. PriceCap /\ DefaultMinPrice <= PriceCap

PriceBelowCap == set_price <= PriceCap /\ min_price <= PriceCap

LEMMA PriceBelowCapStep ==
  ASSUME MinPricesBelowCap, RegistryInv, PriceBelowCap, [Next]_vars
  PROVE  PriceBelowCap'
<1>0. PriceCap \in Nat /\ set_price \in Nat /\ min_price \in Nat
  BY PriceNow, ServiceRegistryAssumption
<1>1. CASE NewBlock
  BY <1>1 DEF NewBlock, PriceBelowCap, priceVars, parameterVars
<1>2. ASSUME NEW s \in Services, deposit(s) PROVE PriceBelowCap'
  <2>1. set_price' = bumped(currentPrice) /\ min_price' = min_price
    BY <1>2 DEF deposit, parameterVars
  <2>2. bumped(currentPrice) <= PriceCap
    <3>1. /\ currentPrice \in Nat /\ price_bump[1] \in Nat /\ price_bump[2] \in Nat \ {0}
      BY PriceNow, ServiceRegistryAssumption DEF TypeOK
    <3>2. currentPrice * price_bump[1] \in Nat
      BY <3>1
    <3>3. (currentPrice * price_bump[1]) \div price_bump[2] \in Nat
      BY <3>1, <3>2, Quotient
    <3>. QED BY <1>0, <3>3 DEF bumped
  <2>. QED BY <2>1, <2>2 DEF PriceBelowCap
<1>3. ASSUME NEW s \in Services, setURL(s) PROVE PriceBelowCap'
  BY <1>3 DEF setURL, PriceBelowCap, priceVars, parameterVars
<1>4. ASSUME NEW i \in DOMAIN deposits, NEW to \in Services, withdraw(i, to) PROVE PriceBelowCap'
  BY <1>4 DEF withdraw, PriceBelowCap, priceVars, parameterVars
<1>5. ASSUME NEW bump \in Bumps, NEW decay \in DecayConstants, NEW floor \in MinPrices,
             NEW duration \in Durations, changeParameters(bump, decay, floor, duration)
      PROVE  PriceBelowCap'
  <2>1. set_price' = currentPrice /\ min_price' = floor
    BY <1>5 DEF changeParameters, refreshPrice, setParameters
  <2>2. currentPrice <= PriceCap
    BY <1>0, PriceNow DEF atLeast, PriceBelowCap
  <2>3. floor <= PriceCap
    BY <1>0 DEF MinPricesBelowCap
  <2>. QED BY <2>1, <2>2, <2>3 DEF PriceBelowCap
<1>6. CASE setDeprecationSwitch
  BY <1>6 DEF setDeprecationSwitch, PriceBelowCap, priceVars, parameterVars
<1>7. CASE UNCHANGED vars
  BY <1>7 DEF vars, PriceBelowCap, priceVars, parameterVars
<1>. QED BY <1>1, <1>2, <1>3, <1>4, <1>5, <1>6, <1>7 DEF Next

(* While no minimum above the cap is set, the price can be computed at any *)
(* time, within uint256.                                                   *)
THEOREM PriceComputableSafety ==
  ASSUME MinPricesBelowCap PROVE Spec => []PriceAlwaysComputable
<1>1. Init => PriceBelowCap
  BY ServiceRegistryAssumption DEF Init, PriceBelowCap, MinPricesBelowCap, atLeast
<1>2. RegistryInv /\ PriceBelowCap /\ [Next]_vars => PriceBelowCap'
  BY PriceBelowCapStep
<1>3. RegistryInv /\ PriceBelowCap => PriceAlwaysComputable
  <2>1. SUFFICES ASSUME RegistryInv, PriceBelowCap, NEW X \in 0 .. ParameterCap, X < ParameterCap
        PROVE  Q(decay_constant, X) <= UintMax /\ set_price * P(decay_constant) <= UintMax
    BY DEF PriceAlwaysComputable, priceComputable
  <2>2. /\ X \in 0 .. ParameterCap - 1 /\ decay_constant \in 1 .. ParameterCap - 1
        /\ set_price \in 0 .. PriceCap
    BY <2>1, PriceNow, ServiceRegistryAssumption DEF TypeOK, PriceBelowCap
  <2>. QED BY <2>2, CapComputable
<1>. QED BY <1>1, <1>2, <1>3, RegistryInvariance, PTL DEF Spec

-----------------------------------------------------------------------------
(* The TokenNetworkRegistry.                                               *)

LimitsInv ==
  /\ max_token_networks \in 0 .. MAX_SAFE_UINT256
  /\ before_removal < MAX_SAFE_UINT256 => max_token_networks = MAX_SAFE_UINT256

NetworksInv == NetworksFollowRegistry /\ LimitsInv

(* The finite sets of the instance are those of this module.               *)
LEMMA SameFinite == ASSUME NEW S PROVE Networks!IsFiniteSet(S) <=> IsFiniteSet(S)
BY DEF Networks!IsFiniteSet, IsFiniteSet

LEMMA SameCardinality == ASSUME NEW S PROVE Networks!Cardinality(S) = Cardinality(S)
BY DEF Networks!Cardinality, Cardinality

namedTokens == {t \in Tokens : token_to_token_networks[t] # 0}

everyNetworkNamed ==
  /\ token_network_created = Cardinality(namedTokens)
  /\ \A n \in 1 .. token_network_created :
       networks[n] # Networks!NoNetwork /\ token_to_token_networks[networks[n].token] = n

LEMMA NetworksNamed == Networks!EveryNetworkIsNamed <=> everyNetworkNamed
BY SameCardinality DEF Networks!EveryNetworkIsNamed, everyNetworkNamed, namedTokens

LEMMA NetworkConstants ==
  /\ IsFiniteSet(Tokens) /\ Cardinality(Tokens) \in Nat
  /\ MAX_SAFE_UINT256 \in Nat \ {0} /\ MaxTokenNetworks \in 1 .. MAX_SAFE_UINT256
  /\ Limits \subseteq 0 .. MAX_SAFE_UINT256
  /\ Networks!Numbers = 1 .. Cardinality(Tokens)
<1>1. /\ IsFiniteSet(Tokens)
      /\ MAX_SAFE_UINT256 \in Nat \ {0} /\ MaxTokenNetworks \in 1 .. MAX_SAFE_UINT256
      /\ Limits \subseteq 0 .. MAX_SAFE_UINT256
  BY NetworksAssumption, SameFinite DEF Networks!RegistryAssumption
<1>2. Cardinality(Tokens) \in Nat
  BY <1>1, FS_CardinalityType
<1>3. Networks!Numbers = 1 .. Cardinality(Tokens)
  BY SameCardinality DEF Networks!Numbers
<1>. QED BY <1>1, <1>2, <1>3

LEMMA NetworkTypes ==
  ASSUME NetworksInv
  PROVE  /\ Networks!TypeOK /\ Networks!EveryNetworkIsNamed /\ Networks!NoLimitsAfterRemoval
         /\ LimitsInv
         /\ token_network_created \in Nat /\ max_token_networks \in Nat
         /\ before_removal \in Nat /\ MAX_SAFE_UINT256 \in Nat \ {0}
         /\ token_to_token_networks \in [Tokens -> Networks!Numbers \cup {0}]
         /\ networks \in [Networks!Numbers -> Networks!Network \cup {Networks!NoNetwork}]
<1>1. Networks!TypeOK /\ Networks!EveryNetworkIsNamed /\ Networks!NoLimitsAfterRemoval /\ LimitsInv
  BY DEF NetworksInv, NetworksFollowRegistry, Networks!NetworksFollowRegistry
<1>2. token_network_created \in 0 .. Cardinality(Tokens)
  BY <1>1, SameCardinality DEF Networks!TypeOK
<1>. QED BY <1>1, <1>2, NetworkConstants DEF Networks!TypeOK

LEMMA NetworksInitially == Networks!Init => NetworksInv
<1> SUFFICES ASSUME Networks!Init PROVE NetworksInv
  OBVIOUS
<1>1. /\ MAX_SAFE_UINT256 \in Nat \ {0} /\ MaxTokenNetworks \in 1 .. MAX_SAFE_UINT256
      /\ Cardinality(Tokens) \in Nat
  BY NetworkConstants
<1>2. Networks!TypeOK
  BY <1>1, SameCardinality DEF Networks!Init, Networks!TypeOK
<1>3. Networks!EveryNetworkIsNamed
  <2>1. namedTokens = {}
    BY DEF Networks!Init, namedTokens
  <2>2. Cardinality(namedTokens) = 0
    BY <2>1, FS_EmptySet
  <2>. QED BY <2>2, NetworksNamed DEF Networks!Init, everyNetworkNamed
<1>4. Networks!NoLimitsAfterRemoval
  BY DEF Networks!Init, Networks!NoLimitsAfterRemoval
<1>5. LimitsInv
  BY <1>1 DEF Networks!Init, LimitsInv
<1>. QED BY <1>2, <1>3, <1>4, <1>5
     DEF NetworksInv, NetworksFollowRegistry, Networks!NetworksFollowRegistry

(* A new network gets the next number, and a token that had none gets it.  *)
LEMMA CreateFollows ==
  ASSUME NetworksInv, NEW t \in Tokens, NEW p \in Nat, NEW n \in Nat,
         Networks!createERC20TokenNetwork(t, p, n)
  PROVE  NetworksInv'
<1> DEFINE number == token_network_created + 1
           network == [token |-> t, participant_limit |-> p, network_limit |-> n,
                       controller |-> controller, limited |-> p < MAX_SAFE_UINT256]
           named == namedTokens
<1>1. /\ token_network_created < max_token_networks
      /\ max_token_networks = MAX_SAFE_UINT256 => p = MAX_SAFE_UINT256 /\ n = MAX_SAFE_UINT256
      /\ token_to_token_networks[t] = 0
      /\ controller # Zero /\ p > 0 /\ n >= p /\ t \notin NoTokens
      /\ token_network_created' = number
      /\ token_to_token_networks' = [token_to_token_networks EXCEPT ![t] = number]
      /\ networks' = [networks EXCEPT ![number] = network]
      /\ UNCHANGED <<controller, max_token_networks, before_removal>>
  BY DEF Networks!createERC20TokenNetwork, Networks!limitsAllowed, Networks!unregistered,
         Networks!networkAllowed
<1>2. network \in Networks!Network
  BY <1>1, NetworkTypes DEF Networks!Network, Networks!TypeOK
<1>3. network.token = t /\ network.participant_limit = p /\ network.network_limit = n
      /\ (network.limited <=> p < MAX_SAFE_UINT256)
  OBVIOUS
<1>. HIDE DEF network
<1>4. number \in Networks!Numbers /\ Cardinality(named \cup {t}) = number
  <2>1. IsFiniteSet(named) /\ Cardinality(named) = token_network_created /\ t \notin named
    <3>1. named \subseteq Tokens /\ t \notin named
      BY <1>1 DEF namedTokens
    <3>. QED BY <3>1, NetworkTypes, NetworkConstants, NetworksNamed, FS_Subset
         DEF everyNetworkNamed, namedTokens
  <2>. HIDE DEF named
  <2>2. IsFiniteSet(named \cup {t}) /\ Cardinality(named \cup {t}) = number
    BY <2>1, FS_AddElement
  <2>3. named \cup {t} \subseteq Tokens
    BY DEF named, namedTokens
  <2>4. number <= Cardinality(Tokens)
    BY <2>2, <2>3, NetworkConstants, FS_Subset
  <2>. QED BY <2>2, <2>4, NetworkTypes, NetworkConstants
<1>5. /\ token_to_token_networks' \in [Tokens -> Networks!Numbers \cup {0}]
      /\ token_to_token_networks'[t] = number
      /\ \A u \in Tokens \ {t} : token_to_token_networks'[u] = token_to_token_networks[u]
      /\ networks' \in [Networks!Numbers -> Networks!Network \cup {Networks!NoNetwork}]
      /\ networks'[number] = network
      /\ \A m \in Networks!Numbers \ {number} : networks'[m] = networks[m]
  BY <1>1, <1>2, <1>4, NetworkTypes
<1>6. number \in Nat \ {0} /\ token_network_created \in Nat
  BY NetworkTypes
<1>. HIDE DEF number
<1>7. Networks!TypeOK'
  <2>1. number \in 0 .. Cardinality(Tokens)
    BY <1>4, <1>6, NetworkConstants
  <2>. QED BY <1>1, <1>5, <2>1, NetworkTypes, SameCardinality DEF Networks!TypeOK
<1>8. \A m \in 1 .. number :
        m \in Networks!Numbers /\ (m = number \/ m \in 1 .. token_network_created)
  <2>1. number \in Nat /\ number <= Cardinality(Tokens)
    BY <1>4, <1>6, NetworkConstants
  <2>. QED BY <2>1, NetworkTypes, NetworkConstants DEF number
<1>9. Networks!EveryNetworkIsNamed'
  <2>1. namedTokens' = named \cup {t}
    BY <1>5, <1>6 DEF namedTokens
  <2>2. ASSUME NEW m \in 1 .. number
        PROVE  networks'[m] # Networks!NoNetwork /\ token_to_token_networks'[networks'[m].token] = m
    <3>1. CASE m = number
      <4>1. network # Networks!NoNetwork
        BY <1>2 DEF Networks!Network, Networks!NoNetwork
      <4>. QED BY <1>3, <1>5, <3>1, <4>1
    <3>2. CASE m # number
      <4>1. /\ m \in 1 .. token_network_created /\ m \in Networks!Numbers
            /\ networks'[m] = networks[m]
        BY <1>5, <1>8, <3>2
      <4>2. networks[m] # Networks!NoNetwork /\ token_to_token_networks[networks[m].token] = m
        BY <4>1, NetworkTypes, NetworksNamed DEF everyNetworkNamed
      <4>3. networks[m] \in Networks!Network
        BY <4>1, <4>2, NetworkTypes
      <4>4. networks[m].token \in Tokens /\ networks[m].token # t
        BY <1>1, <4>1, <4>2, <4>3 DEF Networks!Network
      <4>. QED BY <1>5, <4>1, <4>2, <4>4
    <3>. QED BY <3>1, <3>2
  <2>3. everyNetworkNamed'
    BY <1>1, <1>4, <2>1, <2>2 DEF everyNetworkNamed, Networks!NoNetwork
  <2>. QED BY <2>3, NetworksNamed, PTL
<1>10. Networks!NoLimitsAfterRemoval'
  <2>1. ASSUME NEW m \in 1 .. number, m > before_removal
        PROVE  /\ ~networks'[m].limited
               /\ networks'[m].participant_limit = MAX_SAFE_UINT256
               /\ networks'[m].network_limit = MAX_SAFE_UINT256
    <3>1. CASE m = number
      <4>1. before_removal < MAX_SAFE_UINT256
        BY <1>1, <2>1, <3>1, NetworkTypes DEF LimitsInv, number
      <4>2. p = MAX_SAFE_UINT256 /\ n = MAX_SAFE_UINT256
        BY <1>1, <4>1, NetworkTypes DEF LimitsInv
      <4>3. ~network.limited
        BY <1>3, <4>2, NetworkConstants
      <4>. QED BY <1>3, <1>5, <3>1, <4>2, <4>3
    <3>2. CASE m # number
      <4>1. m \in 1 .. token_network_created /\ networks'[m] = networks[m]
        BY <1>5, <1>8, <3>2
      <4>. QED BY <2>1, <4>1, NetworkTypes DEF Networks!NoLimitsAfterRemoval
    <3>. QED BY <3>1, <3>2
  <2>. QED BY <1>1, <2>1 DEF Networks!NoLimitsAfterRemoval
<1>11. LimitsInv'
  BY <1>1, NetworkTypes DEF LimitsInv
<1>. QED BY <1>7, <1>9, <1>10, <1>11
     DEF NetworksInv, NetworksFollowRegistry, Networks!NetworksFollowRegistry

(* The networks' own limits can be lifted, and by nobody else than their   *)
(* controllers; what they are named by stays.                              *)
LEMMA RemoveNetworkLimitsFollows ==
  ASSUME NetworksInv, NEW caller \in Accounts, NEW n \in Networks!Numbers,
         Networks!removeNetworkLimits(caller, n)
  PROVE  NetworksInv'
<1> DEFINE lifted == [networks[n] EXCEPT !.participant_limit = MAX_SAFE_UINT256,
                                         !.network_limit = MAX_SAFE_UINT256]
<1>1. /\ networks[n] # Networks!NoNetwork
      /\ networks' = [networks EXCEPT ![n].participant_limit = MAX_SAFE_UINT256,
                                      ![n].network_limit = MAX_SAFE_UINT256]
      /\ UNCHANGED <<controller, max_token_networks, token_network_created,
                     token_to_token_networks, before_removal>>
  BY DEF Networks!removeNetworkLimits
<1>2. networks[n] \in Networks!Network /\ MAX_SAFE_UINT256 \in Nat \ {0}
  BY <1>1, NetworkTypes
<1>3. networks' = [networks EXCEPT ![n] = lifted]
  BY <1>1, <1>2, NetworkTypes
<1>4. /\ lifted \in Networks!Network
      /\ lifted.token = networks[n].token
      /\ lifted.participant_limit = MAX_SAFE_UINT256 /\ lifted.network_limit = MAX_SAFE_UINT256
      /\ (lifted.limited <=> networks[n].limited)
  BY <1>2 DEF Networks!Network
<1>. HIDE DEF lifted
<1>5. /\ networks' \in [Networks!Numbers -> Networks!Network \cup {Networks!NoNetwork}]
      /\ networks'[n] = lifted
      /\ \A m \in Networks!Numbers \ {n} : networks'[m] = networks[m]
  BY <1>3, <1>4, NetworkTypes
<1>6. Networks!TypeOK'
  BY <1>1, <1>5, NetworkTypes, SameCardinality DEF Networks!TypeOK
<1>7. \A m \in 1 .. token_network_created : m \in Networks!Numbers
  <2>1. token_network_created \in 0 .. Cardinality(Tokens)
    BY NetworkTypes, SameCardinality DEF Networks!TypeOK
  <2>. QED BY <2>1, NetworkConstants
<1>8. Networks!EveryNetworkIsNamed'
  <2>1. ASSUME NEW m \in 1 .. token_network_created
        PROVE  networks'[m] # Networks!NoNetwork /\ networks'[m].token = networks[m].token
    <3>1. networks[m] # Networks!NoNetwork
      BY NetworkTypes, NetworksNamed DEF everyNetworkNamed
    <3>2. lifted # Networks!NoNetwork
      BY <1>4 DEF Networks!Network, Networks!NoNetwork
    <3>. QED BY <1>4, <1>5, <1>7, <3>1, <3>2
  <2>2. namedTokens' = namedTokens
    BY <1>1 DEF namedTokens
  <2>3. everyNetworkNamed'
    BY <1>1, <2>1, <2>2, NetworkTypes, NetworksNamed DEF everyNetworkNamed, Networks!NoNetwork
  <2>. QED BY <2>3, NetworksNamed, PTL
<1>9. Networks!NoLimitsAfterRemoval'
  <2>1. ASSUME NEW m \in 1 .. token_network_created, m > before_removal
        PROVE  /\ ~networks'[m].limited
               /\ networks'[m].participant_limit = MAX_SAFE_UINT256
               /\ networks'[m].network_limit = MAX_SAFE_UINT256
    <3>1. /\ ~networks[m].limited
          /\ networks[m].participant_limit = MAX_SAFE_UINT256
          /\ networks[m].network_limit = MAX_SAFE_UINT256
      BY <2>1, NetworkTypes DEF Networks!NoLimitsAfterRemoval
    <3>2. CASE m = n
      BY <1>4, <1>5, <3>1, <3>2
    <3>3. CASE m # n
      BY <1>5, <1>7, <3>1, <3>3
    <3>. QED BY <3>2, <3>3
  <2>. QED BY <1>1, <2>1 DEF Networks!NoLimitsAfterRemoval
<1>10. LimitsInv'
  BY <1>1, NetworkTypes DEF LimitsInv
<1>. QED BY <1>6, <1>8, <1>9, <1>10
     DEF NetworksInv, NetworksFollowRegistry, Networks!NetworksFollowRegistry

LEMMA RemoveLimitsFollows ==
  ASSUME NetworksInv, NEW caller \in Accounts, Networks!removeLimits(caller)
  PROVE  NetworksInv'
<1>1. /\ max_token_networks' = MAX_SAFE_UINT256
      /\ before_removal' =
           IF before_removal < MAX_SAFE_UINT256 THEN before_removal ELSE token_network_created
      /\ UNCHANGED <<controller, token_network_created, token_to_token_networks, networks>>
  BY DEF Networks!removeLimits
<1>2. Networks!TypeOK'
  BY <1>1, NetworkTypes, SameCardinality DEF Networks!TypeOK
<1>3. Networks!EveryNetworkIsNamed'
  BY <1>1, NetworkTypes, SameCardinality DEF Networks!EveryNetworkIsNamed
<1>4. Networks!NoLimitsAfterRemoval'
  BY <1>1, NetworkTypes DEF Networks!NoLimitsAfterRemoval
<1>5. LimitsInv'
  BY <1>1, NetworkTypes DEF LimitsInv
<1>. QED BY <1>2, <1>3, <1>4, <1>5
     DEF NetworksInv, NetworksFollowRegistry, Networks!NetworksFollowRegistry

LEMMA NetworksUntouched ==
  ASSUME NetworksInv, controller' \in Accounts \cup {Zero},
         UNCHANGED <<max_token_networks, token_network_created, token_to_token_networks,
                     networks, before_removal>>
  PROVE  NetworksInv'
<1>1. Networks!TypeOK'
  BY NetworkTypes, SameCardinality DEF Networks!TypeOK
<1>2. Networks!EveryNetworkIsNamed' /\ Networks!NoLimitsAfterRemoval' /\ LimitsInv'
  BY NetworkTypes, SameCardinality
     DEF Networks!EveryNetworkIsNamed, Networks!NoLimitsAfterRemoval, LimitsInv
<1>. QED BY <1>1, <1>2
     DEF NetworksInv, NetworksFollowRegistry, Networks!NetworksFollowRegistry

LEMMA NetworksStep == NetworksInv /\ [Networks!Next]_(Networks!vars) => NetworksInv'
<1> SUFFICES ASSUME NetworksInv, [Networks!Next]_(Networks!vars) PROVE NetworksInv'
  OBVIOUS
<1>0. controller \in Accounts \cup {Zero}
  BY NetworkTypes DEF Networks!TypeOK
<1>1. ASSUME NEW t \in Tokens, NEW p \in Limits, NEW n \in Limits,
             Networks!createERC20TokenNetwork(t, p, n)
      PROVE  NetworksInv'
  BY <1>1, CreateFollows, NetworkConstants
<1>2. ASSUME NEW t \in Tokens, Networks!createERC20TokenNetworkWithoutLimits(t)
      PROVE  NetworksInv'
  BY <1>2, CreateFollows, NetworkConstants DEF Networks!createERC20TokenNetworkWithoutLimits
<1>3. ASSUME NEW a \in Accounts, Networks!removeLimits(a) PROVE NetworksInv'
  BY <1>3, RemoveLimitsFollows
<1>4. ASSUME NEW a \in Accounts, NEW c \in Accounts \cup {Zero}, Networks!changeController(a, c)
      PROVE  NetworksInv'
  BY <1>4, NetworksUntouched DEF Networks!changeController
<1>5. ASSUME NEW a \in Accounts, NEW n \in Networks!Numbers, Networks!removeNetworkLimits(a, n)
      PROVE  NetworksInv'
  BY <1>5, RemoveNetworkLimitsFollows
<1>6. CASE UNCHANGED Networks!vars
  BY <1>0, <1>6, NetworksUntouched DEF Networks!vars
<1>. QED BY <1>1, <1>2, <1>3, <1>4, <1>5, <1>6 DEF Networks!Next

(* Every network can be named by its token, each number by one token, and  *)
(* none that was made after the registry's limit was lifted has a limit.   *)
THEOREM NetworksSafety == Networks!Spec => []NetworksFollowRegistry
<1>1. NetworksInv => NetworksFollowRegistry
  BY DEF NetworksInv
<1>. QED BY <1>1, NetworksInitially, NetworksStep, PTL DEF Networks!Spec
=============================================================================
