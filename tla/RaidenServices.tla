--------------------------- MODULE RaidenServices ---------------------------
(***************************************************************************)
(* The service contracts together: OneToN and MonitoringService pay        *)
(* registered services out of one UserDeposit, while a channel that is     *)
(* monitored goes through its life and users deposit and withdraw.  The    *)
(* ServiceRegistry is Registrations, the TokenNetwork Channels.            *)
(***************************************************************************)
EXTENDS OneToN, MonitoringService

vars == <<timestamp, userDepositVars, service_valid_till, oneToNVars, channelsVars,
          monitoringVars>>

Init ==
  /\ ClockInit /\ UserDepositInit /\ RegistrationsInit
  /\ OneToNInit /\ ChannelsInit /\ MonitoringInit

Next ==
  \/ /\ NextBlock
     /\ UNCHANGED <<userDepositVars, service_valid_till, oneToNVars, channelsVars, monitoringVars>>
  \/ /\ UserDepositStep
     /\ UNCHANGED <<timestamp, service_valid_till, oneToNVars, channelsVars, monitoringVars>>
  \/ /\ \E s \in Services : Register(s)
     /\ UNCHANGED <<timestamp, userDepositVars, oneToNVars, channelsVars, monitoringVars>>
  \/ /\ OneToNStep
     /\ UNCHANGED <<timestamp, service_valid_till, channelsVars, monitoringVars>>
  \/ /\ ChannelsStep
     /\ UNCHANGED <<timestamp, userDepositVars, service_valid_till, oneToNVars, monitoringVars>>
  \/ /\ MonitoringStep
     /\ UNCHANGED <<timestamp, oneToNVars>>

Spec == Init /\ [][Next]_vars
=============================================================================
