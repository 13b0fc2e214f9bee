---------------------------- MODULE MCDeployment ----------------------------
(***************************************************************************)
(* Instances of the deployment scripts.  Every behaviour follows one       *)
(* scenario, chosen at the start: who runs which commands where.  The      *)
(* chains have no name of their own, so they share their deployment files. *)
(***************************************************************************)
EXTENDS Deployment

CONSTANTS a, b, releaser, t1, t2

PrivateNets == [c \in Chains |-> "private_net"]

VARIABLE scenario

Scenario(operators, chains, tokens, commands, reuse, save, txsEach) ==
  [operators |-> operators, chains |-> chains, tokens |-> tokens,
   commands |-> commands, reuse |-> reuse, save |-> save, txsEach |-> txsEach]

FirstRelease == {<<"released", "raiden">>, <<"released", "services">>}

TwoTokens == Scenario({a}, {1}, {t1, t2}, {"raiden", "register", "verify"},
                      FirstRelease \cup {NoPath}, {TRUE}, 4)
Services  == Scenario({a}, {1}, {t1, t2}, {"services", "verify"},
                      FirstRelease \cup {NoPath}, BOOLEAN, 5)
TwoOperators == Scenario({a, b}, {1}, {t1}, {"raiden", "verify"},
                         {NoPath}, {TRUE}, 2)
TwoChains == Scenario({a}, {1, 2}, {t1}, {"raiden", "verify"},
                      FirstRelease \cup {NoPath, <<"private_net", "raiden">>}, {TRUE}, 2)
AllCommands == Scenario({a}, {1}, {t1}, Commands, FirstRelease, {TRUE}, 7)

Scenarios == {TwoTokens, Services, TwoOperators, TwoChains, AllCommands}

\* Sufficient in every scenario: the release is one for token t1.
MCInit == Init /\ scenario \in Scenarios /\ Args(1, ReleaseAddress(3))[1] = t1

\* With all commands there is no second attempt once a transaction was sent.
NotSentYet(p, command) ==
  \A i \in DOMAIN txs[command.chain][p], j \in DOMAIN Plan(command) :
    txs[command.chain][p][i].name # Plan(command)[j]

Allowed(p, command) ==
  /\ command.chain \in scenario.chains /\ command.name \in scenario.commands
  /\ "token" \in DOMAIN command => command.token \in scenario.tokens
  /\ "reuse" \in DOMAIN command => command.reuse \in scenario.reuse
  /\ "save" \in DOMAIN command => command.save \in scenario.save
  /\ Len(txs[command.chain][p]) + Len(Plan(command)) =< scenario.txsEach
  /\ scenario = AllCommands => NotSentYet(p, command)

MCNext ==
  /\ \/ \E p \in scenario.operators :
          \/ at[p] = "idle" /\ \E command \in CommandLines : Allowed(p, command) /\ Begin(p, command)
          \/ Proceed(p) \/ Crash(p) \/ Finish(p)
     \/ \E c \in scenario.chains, p \in scenario.operators : Mine(c, p)
  /\ UNCHANGED scenario

MCFairSpec ==
  /\ MCInit /\ [][MCNext]_<<vars, scenario>>
  /\ \A p \in Operators : WF_<<vars, scenario>>(Proceed(p) /\ UNCHANGED scenario)
=============================================================================
