--------------------------- MODULE ValidatorRegistry ---------------------------
(***************************************************************************)
(* The validators provider (src/src/web3py/extensions/lido_validators.py,  *)
(* the provider the service reaches as w3.catalist_validators) composed    *)
(* with the exited-count path of the classifier                            *)
(* (get_exited_catalist_validators, get_catalist_newly_exited_validators). *)
(*                                                                         *)
(* A frame fixes a reference block: the staking router's modules and       *)
(* operators and the consensus-layer validators are read at that block.    *)
(* The keys API is an off-chain indexer: it answers with what it has       *)
(* indexed when asked, which may hold keys uploaded after the reference    *)
(* block (the provider's own warning at line 124 expects operators the     *)
(* router does not have yet) and, when a lagging host answers, may miss    *)
(* keys an earlier frame saw.  Any public key may hold a consensus-layer   *)
(* validator (anyone can deposit to a key), so a key may have a validator  *)
(* before it is uploaded.  Keys are unique: the key registry maps each     *)
(* public key to one (module, operator).                                   *)
(*                                                                         *)
(* Key order is left out: no count depends on the order of a group.        *)
(***************************************************************************)
EXTENDS Naturals, FiniteSets

CONSTANTS
    Modules,        \* staking modules (a module and its address are one value)
    OperatorIds,    \* operator ids within a module
    Pubkeys,        \* validator public keys
    KacMayLag       \* whether the keys API may answer from a lagging host

ASSUME RegistryAssumption ==
    /\ IsFiniteSet(Pubkeys)
    /\ KacMayLag \in BOOLEAN

\* NodeOperatorGlobalIndex: (staking module id, node operator id).
GlobalIndexes == Modules \X OperatorIds
ClStatus == {"none", "active", "exited"}
NoRef == [taken |-> FALSE]

VARIABLES
    modules,        \* modules registered in the staking router
    operators,      \* (module, operator) pairs registered in the router
    keyOwner,       \* uploaded key -> its (module, operator)
    cl,             \* key -> consensus-layer state of its validator
    kac,            \* keys the keys API serves now
    ref,            \* the reference block read by the frame in progress
    recordedExited  \* total_exited_validators per operator on chain

vars == <<modules, operators, keyOwner, cl, kac, ref, recordedExited>>

-----------------------------------------------------------------------------
(* The provider and the exited count, on the reference block r and the    *)
(* keys the keys API returned.                                            *)

\* merge_validators_with_keys: the keys that have a consensus-layer validator.
MergeValidatorsWithKeys(keys, r) == {k \in keys : r.cl[k] # "none"}

\* The module-address lookup of line 117 succeeds: the router at r lists
\* an operator of the key's module (staking_module_address is built from
\* the operators, so a module without operators has no entry).
ModuleKnown(k, r) == \E o \in r.operators : o[1] = keyOwner[k][1]

\* get_lido_validators_by_node_operators: every operator of the router gets
\* a list, each merged validator goes to its operator's list, and one whose
\* operator the router does not know is skipped with a warning.
GroupByNodeOperators(keys, r) ==
    [o \in r.operators |->
        {k \in MergeValidatorsWithKeys(keys, r) : keyOwner[k] = o}]

\* Mutant: every merged validator counted, exited or not.
ExitedByOperatorMutantAll(groups, r) ==
    [o \in DOMAIN groups |-> Cardinality(groups[o])]

\* Mutant: the active validators counted instead of the exited ones.
ExitedByOperatorMutantActive(groups, r) ==
    [o \in DOMAIN groups |-> Cardinality({k \in groups[o] : r.cl[k] = "active"})]

\* get_exited_catalist_validators: exited validators per operator.
ExitedByOperator(groups, r) ==
    [o \in DOMAIN groups |-> Cardinality({k \in groups[o] : r.cl[k] = "exited"})]

\* Mutant: the skip test keeps only the counts below the recorded ones.
NewlyExitedMutantBelow(counts, r) ==
    [o \in {x \in DOMAIN counts : counts[x] < r.recorded[x]} |-> counts[o]]

\* get_catalist_newly_exited_validators: the counts that differ from the
\* total_exited_validators read from the router at the reference block.
NewlyExited(counts, r) ==
    [o \in {x \in DOMAIN counts : counts[x] # r.recorded[x]} |-> counts[o]]

-----------------------------------------------------------------------------
(* The chain and the keys API.                                             *)

Init ==
    /\ modules = {}
    /\ operators = {}
    /\ keyOwner = [k \in {} |-> <<>>]
    /\ cl = [k \in Pubkeys |-> "none"]
    /\ kac = {}
    /\ ref = NoRef
    /\ recordedExited = [o \in GlobalIndexes |-> 0]

AddStakingModule(m) ==
    /\ m \notin modules
    /\ modules' = modules \cup {m}
    /\ UNCHANGED <<operators, keyOwner, cl, kac, ref, recordedExited>>

AddNodeOperator(o) ==
    /\ o[1] \in modules
    /\ o \notin operators
    /\ operators' = operators \cup {o}
    /\ UNCHANGED <<modules, keyOwner, cl, kac, ref, recordedExited>>

\* A registered operator uploads a key no one has uploaded.
UploadKey(k, o) ==
    /\ o \in operators
    /\ k \notin DOMAIN keyOwner
    /\ keyOwner' = [x \in DOMAIN keyOwner \cup {k} |->
                       IF x = k THEN o ELSE keyOwner[x]]
    /\ UNCHANGED <<modules, operators, cl, kac, ref, recordedExited>>

\* A deposit creates the key's validator; anyone may deposit to any key.
Deposit(k) ==
    /\ cl[k] = "none"
    /\ cl' = [cl EXCEPT ![k] = "active"]
    /\ UNCHANGED <<modules, operators, keyOwner, kac, ref, recordedExited>>

ValidatorExits(k) ==
    /\ cl[k] = "active"
    /\ cl' = [cl EXCEPT ![k] = "exited"]
    /\ UNCHANGED <<modules, operators, keyOwner, kac, ref, recordedExited>>

\* The keys API indexes an uploaded key.
IndexKey(k) ==
    /\ k \in DOMAIN keyOwner \ kac
    /\ kac' = kac \cup {k}
    /\ UNCHANGED <<modules, operators, keyOwner, cl, ref, recordedExited>>

\* The next request goes to a keys API host that has indexed less.
KacFailover(keys) ==
    /\ KacMayLag
    /\ kac' = keys
    /\ UNCHANGED <<modules, operators, keyOwner, cl, ref, recordedExited>>

-----------------------------------------------------------------------------
(* The oracle's frame.                                                     *)

\* The consensus-layer validators get_lido_validators reads at the reference
\* block (cc.get_validators(blockstamp)).
ClAtRefBlock == cl

\* A frame starts: its reference block is the current one.
TakeRefBlock ==
    /\ ref = NoRef
    /\ ref' = [taken |-> TRUE, operators |-> operators, cl |-> ClAtRefBlock,
               recorded |-> recordedExited]
    /\ UNCHANGED <<modules, operators, keyOwner, cl, kac, recordedExited>>

\* Mutant: the report replaces the recorded counts instead of updating them.
ReportExitedMutantReplace ==
    /\ ref # NoRef
    /\ \A k \in MergeValidatorsWithKeys(kac, ref) : ModuleKnown(k, ref)
    /\ recordedExited' =
           NewlyExited(ExitedByOperator(GroupByNodeOperators(kac, ref), ref), ref)
    /\ ref' = NoRef
    /\ UNCHANGED <<modules, operators, keyOwner, cl, kac>>

\* The exited counts are computed and the changed ones reported and applied.
ReportExited ==
    /\ ref # NoRef
    /\ \A k \in MergeValidatorsWithKeys(kac, ref) : ModuleKnown(k, ref)
    /\ LET newly == NewlyExited(ExitedByOperator(GroupByNodeOperators(kac, ref), ref), ref)
       IN recordedExited' = [o \in GlobalIndexes |->
                                IF o \in DOMAIN newly THEN newly[o] ELSE recordedExited[o]]
    /\ ref' = NoRef
    /\ UNCHANGED <<modules, operators, keyOwner, cl, kac>>

\* The module lookup at line 117 raises KeyError: the frame ends with
\* nothing reported, and the next cycle starts over.
ReportExitedFails ==
    /\ ref # NoRef
    /\ \E k \in MergeValidatorsWithKeys(kac, ref) : ~ModuleKnown(k, ref)
    /\ ref' = NoRef
    /\ UNCHANGED <<modules, operators, keyOwner, cl, kac, recordedExited>>

Next ==
    \/ \E m \in Modules : AddStakingModule(m)
    \/ \E o \in GlobalIndexes : AddNodeOperator(o)
    \/ \E k \in Pubkeys, o \in GlobalIndexes : UploadKey(k, o)
    \/ \E k \in Pubkeys : Deposit(k) \/ ValidatorExits(k) \/ IndexKey(k)
    \/ \E keys \in SUBSET kac : KacFailover(keys)
    \/ TakeRefBlock
    \/ ReportExited
    \/ ReportExitedFails

Spec == Init /\ [][Next]_vars

(* The daemon runs a frame every cycle, and a keys API host indexes every  *)
(* uploaded key in time.  The chain's own steps and host failovers get no  *)
(* fairness.                                                               *)
FairSpec ==
    /\ Spec
    /\ WF_vars(TakeRefBlock)
    /\ WF_vars(ReportExited)
    /\ WF_vars(ReportExitedFails)
    /\ \A k \in Pubkeys : WF_vars(IndexKey(k))

-----------------------------------------------------------------------------
(* Properties.                                                             *)

TypeOK ==
    /\ modules \subseteq Modules
    /\ operators \subseteq modules \X OperatorIds
    /\ DOMAIN keyOwner \subseteq Pubkeys
    /\ \A k \in DOMAIN keyOwner : keyOwner[k] \in operators
    /\ cl \in [Pubkeys -> ClStatus]
    /\ kac \subseteq DOMAIN keyOwner
    /\ recordedExited \in [GlobalIndexes -> Nat]

\* The validators of operator o that have exited on the consensus layer.
ChainExited(o) == Cardinality({k \in DOMAIN keyOwner : keyOwner[k] = o /\ cl[k] = "exited"})

(* The router never records more exited validators for an operator than    *)
(* have exited among the keys it uploaded: the provider's grouping         *)
(* (lines 115-122) attributes a validator only to its key's operator, and   *)
(* get_exited_catalist_validators counts only exited ones.                 *)
ExitedNeverExceedsChain ==
    \A o \in GlobalIndexes : recordedExited[o] <= ChainExited(o)

(* A report never lowers an operator's exited count on chain.  The         *)
(* classifier suppresses only equal counts (validator_state.py line 153),   *)
(* so a count computed from fewer keys than an earlier frame saw is         *)
(* reported as it is (the open question of spec section 9).                 *)
ExitedNeverDecreases ==
    [][\A o \in GlobalIndexes : recordedExited'[o] >= recordedExited[o]]_vars

(* The grouping of a frame never fails: every merged validator's module has *)
(* an entry in staking_module_address (line 117), as it must for the warning *)
(* of lines 123-127 to be the way unknown operators are handled.             *)
GroupingNeverFails ==
    ref # NoRef =>
        \A k \in MergeValidatorsWithKeys(kac, ref) : ModuleKnown(k, ref)

(* Every exit is reported in the end: once n validators of an operator      *)
(* have exited, the router eventually records at least n, whatever keys     *)
(* are uploaded and modules added meanwhile.                                *)
ExitedEventuallyRecorded ==
    \A o \in GlobalIndexes, n \in 1 .. Cardinality(Pubkeys) :
        ChainExited(o) >= n ~> recordedExited[o] >= n

=============================================================================
