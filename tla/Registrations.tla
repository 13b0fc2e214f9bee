--------------------------- MODULE Registrations ---------------------------
(***************************************************************************)
(* What the ServiceRegistry promises to the contracts that ask it whether  *)
(* a service is registered: a registration is valid until a time that only *)
(* ever moves on, and to a later time than the present one.                *)
(***************************************************************************)
EXTENDS Clock

CONSTANTS
  Services,
  Durations,      \* values of registration_duration
  MaxValidTill    \* bound of the time up to which a service registers

ASSUME DurationsAssumption == Durations \subseteq Nat \ {0} /\ MaxValidTill \in Nat

VARIABLE service_valid_till

RegistrationsTypeOK == service_valid_till \in [Services -> Nat]

RegistrationsInit == service_valid_till = [s \in Services |-> 0]

hasValidRegistration(address) == timestamp < service_valid_till[address]

\* A deposit extends a registration that runs, or starts one now.
extendedFrom(valid_till) == IF valid_till < timestamp THEN timestamp ELSE valid_till

Register(service) ==
  \E duration \in Durations :
    /\ extendedFrom(service_valid_till[service]) + duration <= MaxValidTill
    /\ service_valid_till' =
         [service_valid_till EXCEPT ![service] = extendedFrom(@) + duration]

RegistrationsNext ==
  \/ NextBlock /\ UNCHANGED service_valid_till
  \/ \E s \in Services : Register(s) /\ UNCHANGED timestamp

RegistrationsSpec ==
  ClockInit /\ RegistrationsInit
  /\ [][RegistrationsNext]_<<timestamp, service_valid_till>>
=============================================================================
