------------------------------- MODULE MCCases -------------------------------
(***************************************************************************)
(* The algorithms that keep no state of their own, each for every input up *)
(* to its bounds: settlement, the signed messages, the joining of sources  *)
(* and the window of the MonitoringService.  algorithm tells which one a   *)
(* behaviour is about; the variables of the others keep one value.         *)
(***************************************************************************)
EXTENDS SettlementCases, Messages, MonitoringWindowCases

CONSTANTS
  Files, MaxImports                         \* JoinSources

VARIABLES
  algorithm,
  imports, root, output

Joining == INSTANCE JoinSources

ASSUME Joining!JoinAssumption

joinVars == <<imports, root, output>>

NoAccount == [deposit |-> 0, withdrawn_amount |-> 0]

Settles == algorithm = "settlement"
Signs   == algorithm = "messages"
Joins   == algorithm = "join"
Waits   == algorithm = "window"

MCInit ==
  /\ algorithm \in {"settlement", "messages", "join", "window"}
  /\ IF Settles THEN Init
     ELSE /\ p1 = NoAccount /\ p2 = NoAccount /\ amounts = NotSettled
          /\ t1 = 0 /\ l1 = 0 /\ t2 = 0 /\ l2 = 0
  /\ MessagesInit
  /\ IF Joins THEN Joining!Init
     ELSE imports = "none" /\ root = "none" /\ output = Joining!NotWritten
  /\ IF Waits THEN WindowInit ELSE closed_at = 0 /\ settle_timeout = 1 /\ addresses = 0

MCNext ==
  \/ /\ Settles /\ settle
     /\ UNCHANGED <<algorithm, message, joinVars, windowVars>>
  \/ /\ Signs /\ MessagesNext
     /\ UNCHANGED <<algorithm, vars, joinVars, windowVars>>
  \/ /\ Joins /\ Joining!Write
     /\ UNCHANGED <<algorithm, vars, message, windowVars>>

MCSpec == MCInit /\ [][MCNext]_<<algorithm, vars, message, joinVars, windowVars>>

-----------------------------------------------------------------------------
\* What the extended modules state holds whichever algorithm is looked at.  A
\* joined file has every source the root needs, once, after those it imports.
JoinedOnce == Joins => Joining!JoinedOnce
=============================================================================
