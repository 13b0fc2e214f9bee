---------------------------- MODULE Precompiled ----------------------------
(***************************************************************************)
(* contracts.json: ContractSourceManager compiles the Solidity sources     *)
(* into it and later compares its checksums with the sources; setup.py and *)
(* the deployment scripts rely on that comparison.  Somebody edits the     *)
(* sources at any time, and commands are killed halfway.                   *)
(*                                                                         *)
(* A file's checksum is its content (sha256 collides with none) and is     *)
(* filed under the file's bare name, whatever its directory.  A file holds *)
(* one contract, of its name, whose bytecode is all sources as they were   *)
(* when its directory was compiled, since it may import any of them.       *)
(***************************************************************************)
EXTENDS Naturals, Sequences, FiniteSets

CONSTANTS
  Compiler,   \* the process that runs compile_contracts; one at a time
  Checkers,   \* the processes that verify, build or deploy
  DirOrder,   \* the source directories, in the order they are read
  FileOrder,  \* the names of the source files, sorted
  Contents,   \* what can be in a source file
  Oversized,  \* contents whose bytecode exceeds the EIP-170 limit
  MaxEdits    \* bound: edits of the sources

PrecompiledAssumption ==
  /\ Compiler \notin Checkers /\ Oversized \subseteq Contents
  /\ DirOrder \in Seq(STRING) /\ DirOrder # <<>> /\ FileOrder \in Seq(STRING)
  /\ MaxEdits \in Nat

VARIABLES
  source,      \* the source files that exist, with their contents
  precompiled, \* contracts.json
  at,          \* where a process is
  manager,     \* its ContractSourceManager: the checksums of the directories read so far
  compiled,    \* compile_contracts: the contracts of the directories compiled so far
  checked,     \* the ContractManager verify_precompiled_checksums loads
  steady,      \* history: nothing was edited while the compiler read the sources
  edits

vars == <<source, precompiled, at, manager, compiled, checked, steady, edits>>

Dirs      == {DirOrder[i] : i \in DOMAIN DirOrder}
FileNames == {FileOrder[i] : i \in DOMAIN FileOrder}
Processes == {Compiler} \cup Checkers

Corrupted == [unreadable |-> "corrupted"]
Readable(content) == content # Corrupted

\* dict.update
update(dict, new) ==
  [f \in DOMAIN dict \cup DOMAIN new |-> IF f \in DOMAIN new THEN new[f] ELSE dict[f]]

\* The names of the sources in a directory: its glob("*.sol").
Glob(files, dir) == {f \in FileNames : <<dir, f>> \in DOMAIN files}

\* The names in a dictionary, by their positions in the order of the names, ...
Present(sums) == {i \in DOMAIN FileOrder : FileOrder[i] \in DOMAIN sums}
\* ... and the n-th of them.
NthPresent(sums, n) ==
  CHOOSE i \in Present(sums) : Cardinality({j \in Present(sums) : j =< i}) = n

\* The overall checksum does not cover the files' names.
overall_checksum(sums) ==
  [n \in 1 .. Cardinality(Present(sums)) |-> sums[FileOrder[NthPresent(sums, n)]]]

Checksums(sums, directories) ==
  [directories |-> directories, contracts_checksums |-> sums,
   overall_checksum |-> overall_checksum(sums)]

NoManager == Checksums(<<>>, 0)

\* One directory in the loop of _checksum_contracts: a file of a name that an
\* earlier directory has, too, replaces the checksum of the earlier one.
_checksum_contracts(m, files) ==
  LET dir == DirOrder[m.directories + 1]
  IN  Checksums(update(m.contracts_checksums, [f \in Glob(files, dir) |-> files[<<dir, f>>]]),
                m.directories + 1)

verifyContractsOnlyMutant(sums, content) ==     \* mutant: no overall checksum
  \A f \in DOMAIN sums.contracts_checksums :
    /\ f \in DOMAIN content.contracts_checksums
    /\ content.contracts_checksums[f] = sums.contracts_checksums[f]

\* Every source has its checksum in the file, and the overall checksums agree.
verify_precompiled_checksums(sums, content) ==
  /\ \A f \in DOMAIN sums.contracts_checksums :
       /\ f \in DOMAIN content.contracts_checksums
       /\ content.contracts_checksums[f] = sums.contracts_checksums[f]
  /\ sums.overall_checksum = content.overall_checksum

check_runtime_codesize(contracts) ==
  \A f \in DOMAIN contracts :
    contracts[f].sources[<<contracts[f].directory, f>>] \notin Oversized

-----------------------------------------------------------------------------
GoTo(p, place) == at' = [at EXCEPT ![p] = place]

\* While the compiler reads the sources, first for their checksums.
Compiling == at[Compiler] \in {"checksums", "compile"}

\* A source is edited or added, or removed; a file is moved by removing it and
\* adding it elsewhere.
Edit(file) ==
  /\ edits < MaxEdits
  /\ \/ \E text \in Contents :
          source' = [f \in DOMAIN source \cup {file} |-> IF f = file THEN text ELSE source[f]]
     \/ source' = [f \in DOMAIN source \ {file} |-> source[f]]
  /\ source' # source
  /\ edits' = edits + 1 /\ steady' = (steady /\ ~Compiling)
  /\ UNCHANGED <<precompiled, at, manager, compiled, checked>>

StartCompile ==
  /\ at[Compiler] = "idle" /\ GoTo(Compiler, "checksums")
  /\ steady' = TRUE
  /\ UNCHANGED <<source, precompiled, manager, compiled, checked, edits>>

\* Constructing a ContractSourceManager takes checksums, directory by directory.
TakeChecksums(p, next) ==
  LET m == _checksum_contracts(manager[p], source)
  IN  /\ at[p] = "checksums"
      /\ manager' = [manager EXCEPT ![p] = m]
      /\ GoTo(p, IF m.directories < Len(DirOrder) THEN "checksums" ELSE next)
      /\ UNCHANGED <<source, precompiled, compiled, checked, steady, edits>>

\* One directory goes through solc, which refuses to compile nothing, in the
\* loop of _compile_all_contracts.
CompileDirectory ==
  LET dir == DirOrder[compiled.directories + 1]
  IN  /\ at[Compiler] = "compile"
      /\ IF Glob(source, dir) = {}
         THEN GoTo(Compiler, "failed") /\ UNCHANGED compiled
         ELSE /\ compiled' =
                   [directories |-> compiled.directories + 1,
                    contracts |-> update(compiled.contracts,
                      [f \in Glob(source, dir) |-> [directory |-> dir, sources |-> source]])]
              /\ GoTo(Compiler, IF compiled'.directories < Len(DirOrder)
                                THEN "compile" ELSE "open")
      /\ UNCHANGED <<source, precompiled, manager, checked, steady, edits>>

\* Opening the target file empties it.
OpenTarget ==
  /\ at[Compiler] = "open"
  /\ IF check_runtime_codesize(compiled.contracts)
     THEN GoTo(Compiler, "write") /\ precompiled' = Corrupted
     ELSE GoTo(Compiler, "failed") /\ UNCHANGED precompiled
  /\ UNCHANGED <<source, manager, compiled, checked, steady, edits>>

WriteTarget ==
  /\ at[Compiler] = "write" /\ GoTo(Compiler, "load")
  /\ precompiled' = [contracts |-> compiled.contracts, steady |-> steady,
       contracts_checksums |-> manager[Compiler].contracts_checksums,
       overall_checksum |-> manager[Compiler].overall_checksum]
  /\ UNCHANGED <<source, manager, compiled, checked, steady, edits>>

\* ContractManager(path).  What is loaded is not looked at again here.
Load(p, next) ==
  /\ IF Readable(precompiled)
     THEN GoTo(p, next) ELSE GoTo(p, "failed")
  /\ UNCHANGED <<source, precompiled, manager, compiled, checked, steady, edits>>

LoadCompiled == at[Compiler] = "load" /\ Load(Compiler, "done")

\* A deployer loads its bytecode before the sources are compared.
StartDeployer(p) == at[p] = "idle" /\ Load(p, "checksums")

StartVerify(p) ==
  /\ at[p] = "idle" /\ GoTo(p, "checksums")
  /\ UNCHANGED <<source, precompiled, manager, compiled, checked, steady, edits>>

\* The file is read (again) and its checksums are compared.  build_py fails with
\* the comparison: it ignores SystemExit only.
Verify(p) ==
  /\ at[p] = "verify"
  /\ IF Readable(precompiled) /\ verify_precompiled_checksums(manager[p], precompiled)
     THEN GoTo(p, "verified") /\ checked' = [checked EXCEPT ![p] = precompiled]
     ELSE GoTo(p, "failed") /\ UNCHANGED checked
  /\ UNCHANGED <<source, precompiled, manager, compiled, steady, edits>>

NothingCompiled == [directories |-> 0, contracts |-> <<>>]

\* Any process may be killed, or end; only the files remain.
Exit(p) ==
  /\ at[p] # "idle" /\ GoTo(p, "idle")
  /\ manager' = [manager EXCEPT ![p] = NoManager]
  /\ checked' = [checked EXCEPT ![p] = NoManager]
  /\ compiled' = IF p = Compiler THEN NothingCompiled ELSE compiled
  /\ UNCHANGED <<source, precompiled, steady, edits>>

-----------------------------------------------------------------------------
Sources == UNION {[present -> Contents] : present \in SUBSET (Dirs \X FileNames)}

\* The directories before the n-th and it that have a file of name f, ...
Having(files, f, n) == {i \in 1 .. n : f \in Glob(files, DirOrder[i])}
LastOf(S) == CHOOSE i \in S : \A j \in S : j =< i
\* ... the names in these directories, and what they have last read under them.
NamesUpTo(files, n) == {f \in FileNames : Having(files, f, n) # {}}
contracts_checksums(files, n) ==
  [f \in NamesUpTo(files, n) |-> files[<<DirOrder[LastOf(Having(files, f, n))], f>>]]

\* The checksums of all directories, and their contracts compiled.
ChecksumsOf(files) == contracts_checksums(files, Len(DirOrder))
ContractsOf(files) ==
  [f \in DOMAIN ChecksumsOf(files) |->
     [directory |-> DirOrder[LastOf(Having(files, f, Len(DirOrder)))], sources |-> files]]

Init ==
  /\ source \in Sources
  /\ \A dir \in Dirs : Glob(source, dir) # {}
  /\ precompiled = [contracts |-> ContractsOf(source), steady |-> TRUE,
                    contracts_checksums |-> ChecksumsOf(source),
                    overall_checksum |-> overall_checksum(ChecksumsOf(source))]
  /\ check_runtime_codesize(precompiled.contracts)
  /\ at = [p \in Processes |-> "idle"]
  /\ manager = [p \in Processes |-> NoManager]
  /\ checked = [p \in Processes |-> NoManager]
  /\ compiled = NothingCompiled /\ steady = TRUE /\ edits = 0

Next ==
  \/ \E file \in Dirs \X FileNames : Edit(file)
  \/ StartCompile \/ TakeChecksums(Compiler, "compile") \/ CompileDirectory
  \/ OpenTarget \/ WriteTarget \/ LoadCompiled
  \/ \E p \in Checkers :
       StartVerify(p) \/ StartDeployer(p) \/ TakeChecksums(p, "verify") \/ Verify(p)
  \/ \E p \in Processes : Exit(p)

Spec == Init /\ [][Next]_vars

-----------------------------------------------------------------------------
(* Properties.                                                             *)

Sums == UNION {[names -> Contents] : names \in SUBSET FileNames}

Manager(content) ==
  /\ content.contracts_checksums \in Sums
  /\ content.overall_checksum = overall_checksum(content.contracts_checksums)

TypeOK ==
  /\ source \in Sources
  /\ precompiled # Corrupted => Manager(precompiled)
  /\ at \in [Processes -> {"idle", "compile", "open", "write", "load", "done",
                           "checksums", "verify", "verified", "failed"}]
  /\ \A p \in Processes : Manager(manager[p]) /\ manager[p].directories \in 0 .. Len(DirOrder)
  /\ compiled.directories \in 0 .. Len(DirOrder)

\* Whoever succeeds in verifying has seen a contracts.json whose contracts fit the
\* limit of the chain.  If nobody edited the sources while they were compiled, it
\* has a contract for each name the verifier has a checksum of, and no other, and
\* each was compiled from sources with just these checksums: whatever was edited,
\* removed or moved before and afterwards, be it while the checksums are taken and
\* compared, and whichever compilations were killed halfway.  (Sources have the
\* same checksums if, of each name, the last directory that has it has the same
\* text.)
VerifiedMeansCompiled ==
  \A p \in Checkers : at[p] = "verified" =>
    LET contracts == checked[p].contracts
        sums      == manager[p].contracts_checksums
    IN  /\ check_runtime_codesize(contracts)
        /\ checked[p].steady =>
             /\ DOMAIN contracts = DOMAIN sums
             /\ \A f \in DOMAIN contracts : ChecksumsOf(contracts[f].sources) = sums
=============================================================================
