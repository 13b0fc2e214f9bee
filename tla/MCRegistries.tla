---------------------------- MODULE MCRegistries ----------------------------
(***************************************************************************)
(* The two registries.  Neither calls the other, so a behaviour is about   *)
(* one of them: the ServiceRegistry with two services, one way to bump the *)
(* price and one that is refused, or the TokenNetworkRegistry.             *)
(***************************************************************************)
EXTENDS ServiceRegistry

CONSTANTS                                          \* of the TokenNetworkRegistry
  Tokens, NoTokens, Accounts, Zero, MAX_SAFE_UINT256, Limits, MaxTokenNetworks

MCInitialTokens == [s \in Services |-> 5]

MCBumps == {<<2, 1>>, <<1, 2>>}

VARIABLES
  ofServices,            \* whether this is about the ServiceRegistry
  controller, max_token_networks, token_network_created, token_to_token_networks,
  networks, before_removal

networkVars == <<controller, max_token_networks, token_network_created,
                 token_to_token_networks, networks, before_removal>>

Networks == INSTANCE TokenNetworkRegistry

ASSUME NetworksAssumption == Networks!RegistryAssumption

MCInit ==
  /\ ofServices \in BOOLEAN
  /\ Init /\ Networks!Init
  /\ ofServices => controller = CHOOSE a \in Accounts : TRUE
  /\ ~ofServices =>
       /\ decay_constant = CHOOSE d \in DecayConstants : decayAllowed(d)
       /\ min_price = CHOOSE p \in MinPrices : InitialPrice >= p
       /\ registration_duration = CHOOSE d \in Durations : TRUE

MCNext ==
  \/ ofServices /\ Next /\ UNCHANGED <<ofServices, networkVars>>
  \/ ~ofServices /\ Networks!Next /\ UNCHANGED <<ofServices, vars>>

MCSpec == MCInit /\ [][MCNext]_<<ofServices, vars, networkVars>>

\* The registry can name every network it made, and makes none with limits once
\* its own are removed.
NetworksFollowRegistry == Networks!NetworksFollowRegistry
=============================================================================
