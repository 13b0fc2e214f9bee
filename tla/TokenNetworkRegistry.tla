------------------------ MODULE TokenNetworkRegistry ------------------------
(***************************************************************************)
(* The TokenNetworkRegistry deploys one TokenNetwork per token, up to a    *)
(* limit that its controller may lift.  Of a token network this module has *)
(* what the registry determines: its number (its address), its limits and  *)
(* its controller.  What a network does with them is in TokenNetwork.      *)
(***************************************************************************)
EXTENDS Naturals, FiniteSets

CONSTANTS
  Tokens,              \* token contracts
  NoTokens,            \* those of Tokens without any supply
  Accounts,            \* who may be a controller
  Zero,                \* the address 0x0, as a controller
  MAX_SAFE_UINT256,
  Limits,              \* limits that are asked for
  MaxTokenNetworks     \* constructor argument

RegistryAssumption ==
  /\ IsFiniteSet(Tokens) /\ NoTokens \subseteq Tokens /\ Zero \notin Accounts
  /\ MAX_SAFE_UINT256 \in Nat \ {0} /\ Limits \subseteq 0 .. MAX_SAFE_UINT256
  /\ MaxTokenNetworks \in 1 .. MAX_SAFE_UINT256

VARIABLES
  controller,
  max_token_networks,
  token_network_created,
  token_to_token_networks,     \* 0: none
  networks,                    \* by number: the networks that were deployed
  before_removal               \* how many there were when the limit was lifted

vars == <<controller, max_token_networks, token_network_created, token_to_token_networks,
          networks, before_removal>>

Numbers == 1 .. Cardinality(Tokens)

NoNetwork == [token |-> "none"]

Network == [token : Tokens \ NoTokens, participant_limit : Nat \ {0},
            network_limit : Nat \ {0}, controller : Accounts, limited : BOOLEAN]

TypeOK ==
  /\ controller \in Accounts \cup {Zero}
  /\ max_token_networks \in Nat /\ token_network_created \in 0 .. Cardinality(Tokens)
  /\ token_to_token_networks \in [Tokens -> Numbers \cup {0}]
  /\ networks \in [Numbers -> Network \cup {NoNetwork}]
  /\ before_removal \in Nat

Init ==
  /\ controller \in Accounts
  /\ max_token_networks = MaxTokenNetworks
  /\ token_network_created = 0
  /\ token_to_token_networks = [t \in Tokens |-> 0]
  /\ networks = [n \in Numbers |-> NoNetwork]
  /\ before_removal = IF MaxTokenNetworks = MAX_SAFE_UINT256 THEN 0 ELSE MAX_SAFE_UINT256

-----------------------------------------------------------------------------
\* The mutant goes by the network's limit alone.
limitsAllowedMutant(participant_limit, network_limit) ==
  max_token_networks = MAX_SAFE_UINT256 => network_limit = MAX_SAFE_UINT256

limitsAllowed(participant_limit, network_limit) ==
  max_token_networks = MAX_SAFE_UINT256 =>
    participant_limit = MAX_SAFE_UINT256 /\ network_limit = MAX_SAFE_UINT256

\* What the constructor of TokenNetwork insists on: if it reverts, so does the
\* registry, with its count.
networkAllowed(token, participant_limit, network_limit) ==
  /\ controller # Zero
  /\ participant_limit > 0 /\ network_limit >= participant_limit
  /\ token \notin NoTokens

unregistered(token) == token_to_token_networks[token] = 0

createERC20TokenNetwork(token, participant_limit, network_limit) ==
  LET number == token_network_created + 1
  IN  /\ token_network_created < max_token_networks
      /\ limitsAllowed(participant_limit, network_limit)
      /\ unregistered(token)
      /\ networkAllowed(token, participant_limit, network_limit)
      /\ token_network_created' = number
      /\ token_to_token_networks' = [token_to_token_networks EXCEPT ![token] = number]
      /\ networks' = [networks EXCEPT ![number] =
           [token |-> token, participant_limit |-> participant_limit,
            network_limit |-> network_limit, controller |-> controller,
            limited |-> participant_limit < MAX_SAFE_UINT256]]
      /\ UNCHANGED <<controller, max_token_networks, before_removal>>

createERC20TokenNetworkWithoutLimits(token) ==
  createERC20TokenNetwork(token, MAX_SAFE_UINT256, MAX_SAFE_UINT256)

removeLimits(caller) ==
  /\ caller = controller
  /\ max_token_networks' = MAX_SAFE_UINT256
  /\ before_removal' =
       IF before_removal < MAX_SAFE_UINT256 THEN before_removal ELSE token_network_created
  /\ UNCHANGED <<controller, token_network_created, token_to_token_networks, networks>>

changeController(caller, new_controller) ==
  /\ caller = controller
  /\ controller' = new_controller
  /\ UNCHANGED <<max_token_networks, token_network_created, token_to_token_networks,
                 networks, before_removal>>

\* TokenNetwork.removeLimits, by the controller of that network.
removeNetworkLimits(caller, n) ==
  /\ networks[n] # NoNetwork /\ networks[n].controller = caller
  /\ networks' = [networks EXCEPT ![n].participant_limit = MAX_SAFE_UINT256,
                                  ![n].network_limit = MAX_SAFE_UINT256]
  /\ UNCHANGED <<controller, max_token_networks, token_network_created,
                 token_to_token_networks, before_removal>>

Next ==
  \/ \E t \in Tokens : \/ \E p, n \in Limits : createERC20TokenNetwork(t, p, n)
                       \/ createERC20TokenNetworkWithoutLimits(t)
  \/ \E a \in Accounts : removeLimits(a)
  \/ \E a \in Accounts, c \in Accounts \cup {Zero} : changeController(a, c)
  \/ \E a \in Accounts, n \in Numbers : removeNetworkLimits(a, n)

Spec == Init /\ [][Next]_vars

-----------------------------------------------------------------------------
(* Properties.                                                             *)

\* Whatever fails on the way and whoever is in control, the count is that of
\* the networks which the registry can name, one for every token that has one,
\* and none of them is ever replaced or forgotten: MonitoringService takes a
\* network for genuine by asking the registry for its token's network.
EveryNetworkIsNamed ==
  /\ token_network_created = Cardinality({t \in Tokens : token_to_token_networks[t] # 0})
  /\ \A n \in 1 .. token_network_created :
       networks[n] # NoNetwork /\ token_to_token_networks[networks[n].token] = n

\* "After the limits have been removed, new token networks must be created
\* without limits": no later network was born with any, however the networks'
\* own limits were changed, nor had one when the registry never had a limit.
NoLimitsAfterRemoval ==
  \A n \in 1 .. token_network_created : n > before_removal =>
    ~networks[n].limited /\ networks[n].participant_limit = MAX_SAFE_UINT256
    /\ networks[n].network_limit = MAX_SAFE_UINT256

\* The networks are those the registry made, each with the limits of its time.
NetworksFollowRegistry == TypeOK /\ EveryNetworkIsNamed /\ NoLimitsAfterRemoval
=============================================================================
