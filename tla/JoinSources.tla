---------------------------- MODULE JoinSources ----------------------------
(***************************************************************************)
(* join_contracts.py: a Solidity source and everything it imports are      *)
(* joined into one file, an import being replaced by the source it names   *)
(* unless that has been read before.                                       *)
(*                                                                         *)
(* A source is its list of imports, followed by its contracts, which the   *)
(* file's name stands for; pragmas are taken up once and left out here.    *)
(***************************************************************************)
EXTENDS Naturals, Sequences, FiniteSets, SequencesExt

CONSTANTS Files, MaxImports

JoinAssumption == MaxImports \in Nat

VARIABLES
  imports,   \* imports[f]: the files f imports, in order
  root,      \* the file to be joined
  output     \* what is written

vars == <<imports, root, output>>

NotWritten == <<"nothing">>

\* The state of a ContractJoiner, and its output so far.
Joiner == [seen_contracts |-> {}, out |-> <<>>]

Added(joiner, file) == [joiner EXCEPT !.seen_contracts = @ \cup {file}]

LineOut(joiner, file) == [joiner EXCEPT !.out = Append(@, file)]

RECURSIVE join(_, _), joinImports(_, _)

\* join
join(joiner, file) ==
  IF file \in joiner.seen_contracts THEN joiner
  ELSE LineOut(joinImports(Added(joiner, file), imports[file]), file)

\* mutant: what an import has read is forgotten
joinImportsForgetfulMutant(joiner, files) ==
  IF files = <<>> THEN joiner
  ELSE joinImports([join(joiner, Head(files)) EXCEPT
                      !.seen_contracts = joiner.seen_contracts], Tail(files))

\* _on_import_line, for each of the imports
joinImports(joiner, files) ==
  IF files = <<>> THEN joiner
  ELSE joinImports(join(joiner, Head(files)), Tail(files))

-----------------------------------------------------------------------------
ImportLists == {files \in SeqOf(Files, MaxImports) : IsInjective(files)}

Init ==
  /\ imports \in [Files -> ImportLists]
  /\ root \in Files
  /\ output = NotWritten

\* main
Write ==
  /\ output = NotWritten
  /\ output' = join(Joiner, root).out
  /\ UNCHANGED <<imports, root>>

Next == Write
Spec == Init /\ [][Next]_vars

-----------------------------------------------------------------------------
(* Properties.                                                             *)

Written == output # NotWritten

\* The files within n steps of the root, and all that it needs.
Within[n \in Nat] ==
  IF n = 0 THEN {root}
  ELSE Within[n - 1] \cup UNION {ToSet(imports[f]) : f \in Within[n - 1]}

Needed == Within[Cardinality(Files)]

ReachesFrom(f) ==
  LET reach[n \in Nat] ==
        IF n = 0 THEN ToSet(imports[f])
        ELSE reach[n - 1] \cup UNION {ToSet(imports[g]) : g \in reach[n - 1]}
  IN  reach[Cardinality(Files)]

\* The joined file has every source the root needs, directly or not, exactly
\* once, and no other; import cycles end, and without one a source comes after
\* all that it imports.
JoinedOnce ==
  Written =>
    /\ ToSet(output) = Needed
    /\ IsInjective(output)
    /\ (\A f \in Needed : f \notin ReachesFrom(f)) =>
         \A i, j \in DOMAIN output : output[j] \in ToSet(imports[output[i]]) => j < i
=============================================================================
