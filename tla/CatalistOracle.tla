--------------------------- MODULE CatalistOracle ---------------------------
(***************************************************************************)
(* The validator-state core of the Catalist oracle                          *)
(* (src/src/services/validator_state.py, CatalistValidatorStateService)     *)
(* running against a chain that moves under it.                            *)
(*                                                                         *)
(* The chain (environment) advances slots, lets validators exit            *)
(* voluntarily, receives exit requests from the ejector (the validators    *)
(* exit bus oracle) and applies accounting reports to the node operators'  *)
(* recorded stuck / exited counts.  The oracle (the code under test)       *)
(* reads one reference block, the current slot, and                        *)
(*   - GetExtraData: computes newly stuck and newly exited counts per      *)
(*     operator, sets the stuck / exited gauges and keeps the report;      *)
(*   - GetRecentlyRequestedButNotExited: computes the validators that were *)
(*     asked to exit and are still within their grace period, and sets    *)
(*     the delayed-validators gauge.                                       *)
(*                                                                         *)
(* A validator is its index; its public key is abstracted to the index     *)
(* (one key per validator), so the pubkey set of the stuck check and the   *)
(* index set of the delayed check range over the same values.              *)
(***************************************************************************)
EXTENDS Integers, FiniteSets

CONSTANTS
    Operators,                 \* global node operator indexes (module id, operator id)
    NumValidators,             \* validators are the indexes 0 .. NumValidators - 1
    SlotsPerEpoch,             \* chain_config.slots_per_epoch
    ShardCommitteePeriod,      \* SHARD_COMMITTEE_PERIOD, in epochs
    DelinquentTimeoutInSlots,  \* daemon config VALIDATOR_DELINQUENT_TIMEOUT_IN_SLOTS
    DelayedTimeoutInSlots,     \* daemon config VALIDATOR_DELAYED_TIMEOUT_IN_SLOTS
    ExitDelay,                 \* epochs from a voluntary exit to its exit epoch
    MaxActivationEpoch,        \* latest activation epoch of a validator in the model
    MaxSlot,                   \* bound on the chain's slot
    Owner,                     \* validator -> operator, from the keys registry
    ActivationEpoch,           \* validator -> activation epoch
    FarFutureEpoch             \* FAR_FUTURE_EPOCH: "no exit scheduled"

Validators == 0 .. NumValidators - 1
Slots == 0 .. MaxSlot
MaxEpoch == MaxSlot \div SlotsPerEpoch
ExitEpochs == 0 .. (MaxEpoch + ExitDelay)

\* The last requested index of an operator that has had no exit request.
NoIndex == -1

ASSUME ConstantsAssumption ==
    /\ Operators # {}
    /\ NumValidators \in Nat \ {0}
    /\ SlotsPerEpoch \in Nat \ {0}
    /\ ShardCommitteePeriod \in Nat
    /\ DelinquentTimeoutInSlots \in Nat
    /\ DelayedTimeoutInSlots \in Nat
    /\ ExitDelay \in Nat \ {0}
    /\ MaxActivationEpoch \in Nat
    /\ MaxSlot \in Nat
    /\ FarFutureEpoch \in Nat
    /\ FarFutureEpoch > MaxEpoch + ExitDelay
    /\ Owner \in [Validators -> Operators]
    /\ ActivationEpoch \in [Validators -> 0 .. MaxActivationEpoch]

VARIABLES
    slot,               \* the chain's head slot; the oracle's reference slot
    exitEpoch,          \* validator -> exit epoch, FarFutureEpoch if none
    lastRequested,      \* operator -> getLastRequestedValidatorIndices
    exitRequests,       \* ValidatorExitRequest events emitted so far
    recordedStuck,      \* operator -> stuck_validators_count on chain
    recordedExited,     \* operator -> total_exited_validators on chain
    lastAppliedRefSlot, \* ref slot of the last report the chain applied
    report              \* the last extra data the oracle computed

chainVars == <<slot, exitEpoch, lastRequested,
               exitRequests, recordedStuck, recordedExited, lastAppliedRefSlot>>
vars == <<chainVars, report>>

ExitRequest == [index : Validators, op : Operators, slot : Slots]
\* The extra data of a report: per-operator dicts in which only some
\* operators are keys.
NoReport == [refSlot |-> NoIndex]
IsReport(r) ==
    \/ r = NoReport
    \/ \E S1, S2 \in SUBSET Operators :
          r \in [refSlot : Slots, stuck : [S1 -> Nat], exited : [S2 -> Nat]]

-----------------------------------------------------------------------------
(* Epoch arithmetic and the validator predicates (src/utils/validator_state). *)

Epoch(s) == s \div SlotsPerEpoch
refEpoch == Epoch(slot)

IsActiveValidator(v, e) == ActivationEpoch[v] <= e /\ e < exitEpoch[v]

IsExitedValidator(v, e) == exitEpoch[v] <= e /\ exitEpoch[v] # FarFutureEpoch

IsOnExit(v) == exitEpoch[v] # FarFutureEpoch

IsValidatorEligibleToExit(v, e) ==
    /\ IsActiveValidator(v, e)
    /\ ~IsOnExit(v)
    /\ ActivationEpoch[v] + ShardCommitteePeriod <= e

-----------------------------------------------------------------------------
(* Reads of the reference block.                                            *)

\* get_catalist_validators_by_node_operators: the validators of an operator.
ValidatorsOf(op) == {v \in Validators : Owner[v] = op}

\* get_operators_with_last_exited_validator_indexes
GetOperatorsWithLastExitedValidatorIndexes == lastRequested

\* get_events_in_past: exit requests emitted in the last forSlots slots.
EventsInPast(forSlots) == {e \in exitRequests : e.slot > slot - forSlots}

\* get_validator_delinquent_timeout_in_slot / get_validator_delayed_timeout_in_slot
GetValidatorDelinquentTimeoutInSlot == DelinquentTimeoutInSlots
GetValidatorDelayedTimeoutInSlot == DelayedTimeoutInSlots

\* get_last_requested_to_exit_pubkeys
GetLastRequestedToExitPubkeys ==
    {e.index : e \in EventsInPast(GetValidatorDelinquentTimeoutInSlot)}

-----------------------------------------------------------------------------
(* get_catalist_newly_stuck_validators and get_catalist_newly_exited_validators *)

\* Mutant: the already-requested check of sum_stuck_validators off by one.
IsStuckMutantStrictIndex(op, v) ==
    /\ v < GetOperatorsWithLastExitedValidatorIndexes[op]
    /\ exitEpoch[v] = FarFutureEpoch
    /\ v \notin GetLastRequestedToExitPubkeys
    /\ slot > (ActivationEpoch[v] + ShardCommitteePeriod) * SlotsPerEpoch
                + GetValidatorDelinquentTimeoutInSlot

\* sum_stuck_validators: each early return of the reducer is a conjunct.
IsStuck(op, v) ==
    /\ v <= GetOperatorsWithLastExitedValidatorIndexes[op]
    /\ exitEpoch[v] = FarFutureEpoch
    /\ v \notin GetLastRequestedToExitPubkeys
    /\ slot > (ActivationEpoch[v] + ShardCommitteePeriod) * SlotsPerEpoch
                + GetValidatorDelinquentTimeoutInSlot

StuckCount(op) == Cardinality({v \in ValidatorsOf(op) : IsStuck(op, v)})

\* get_exited_catalist_validators
ExitedCount(op) ==
    Cardinality({v \in ValidatorsOf(op) : IsExitedValidator(v, refEpoch)})

\* Mutant: "newly" read as a difference, reporting count minus recorded.
DeltaOnlyMutantDifference(counts, recorded) ==
    [op \in {o \in Operators : counts[o] # recorded[o]} |-> counts[op] - recorded[op]]

\* The operators whose fresh count differs from the one recorded on chain.
DeltaOnly(counts, recorded) ==
    [op \in {o \in Operators : counts[o] # recorded[o]} |-> counts[op]]

\* Mutant: the stuck counts compared with the recorded exited counts
\* (operator.total_exited_validators for operator.stuck_validators_count).
GetCatalistNewlyStuckValidatorsMutantExitedRecord ==
    DeltaOnly([op \in Operators |-> StuckCount(op)], recordedExited)

GetCatalistNewlyStuckValidators ==
    DeltaOnly([op \in Operators |-> StuckCount(op)], recordedStuck)

GetCatalistNewlyExitedValidators ==
    DeltaOnly([op \in Operators |-> ExitedCount(op)], recordedExited)

-----------------------------------------------------------------------------
(* get_recently_requested_but_not_exited_validators                         *)

\* get_recently_requests_to_exit_indexes_by_operators
RecentIndexes(op) ==
    {e.index : e \in {x \in EventsInPast(GetValidatorDelayedTimeoutInSlot) : x.op = op}}

ValidatorRequestedToExit(op, v) ==
    v <= GetOperatorsWithLastExitedValidatorIndexes[op]

ValidatorRecentlyRequestedToExit(op, v) == v \in RecentIndexes(op)

\* Mutant: eligibility tested at the reference epoch, the delayed timeout
\* not subtracted.
ValidatorEligibleToExitMutantNoTimeout(v) ==
    IsValidatorEligibleToExit(v, refEpoch)

ValidatorEligibleToExit(v) ==
    IsValidatorEligibleToExit(v,
        refEpoch - GetValidatorDelayedTimeoutInSlot \div SlotsPerEpoch)

IsValidatorRecentlyRequestedButNotExited(op, v) ==
    /\ ValidatorRequestedToExit(op, v)
    /\ ~IsOnExit(v)
    /\ ValidatorRecentlyRequestedToExit(op, v) \/ ~ValidatorEligibleToExit(v)

\* Mutant: is_validator_delayed without the is_on_exit test.
IsValidatorDelayedMutantNoExitCheck(op, v) ==
    /\ ValidatorRequestedToExit(op, v)
    /\ ~ValidatorRecentlyRequestedToExit(op, v)

IsValidatorDelayed(op, v) ==
    /\ ValidatorRequestedToExit(op, v)
    /\ ~IsOnExit(v)
    /\ ~ValidatorRecentlyRequestedToExit(op, v)

RecentlyRequestedButNotExited ==
    {v \in Validators : IsValidatorRecentlyRequestedButNotExited(Owner[v], v)}

DelayedCount(op) ==
    Cardinality({v \in ValidatorsOf(op) : IsValidatorDelayed(op, v)})

-----------------------------------------------------------------------------
(* Initial state: a fresh registry, nothing requested or exited yet.        *)

Init ==
    /\ slot = 0
    /\ exitEpoch = [v \in Validators |-> FarFutureEpoch]
    /\ lastRequested = [op \in Operators |-> NoIndex]
    /\ exitRequests = {}
    /\ recordedStuck = [op \in Operators |-> 0]
    /\ recordedExited = [op \in Operators |-> 0]
    /\ lastAppliedRefSlot = NoIndex
    /\ report = NoReport

-----------------------------------------------------------------------------
(* The chain.                                                               *)

Tick ==
    /\ slot < MaxSlot
    /\ slot' = slot + 1
    /\ UNCHANGED <<exitEpoch, lastRequested,
                   exitRequests, recordedStuck, recordedExited,
                   lastAppliedRefSlot, report>>

\* get_exitable_catalist_validators: the validators of op not yet requested
\* and not already exiting.
Exitable(op) ==
    {v \in ValidatorsOf(op) : v > lastRequested[op] /\ ~IsOnExit(v)}

\* The ejector requests the exitable validator of op with the lowest index;
\* the exit bus emits ValidatorExitRequest and raises the last requested index.
RequestExit(op) ==
    \E v \in Exitable(op) :
        /\ \A w \in Exitable(op) : v <= w
        /\ lastRequested' = [lastRequested EXCEPT ![op] = v]
        /\ exitRequests' = exitRequests \cup {[index |-> v, op |-> op, slot |-> slot]}
        /\ UNCHANGED <<slot, exitEpoch, recordedStuck,
                       recordedExited, lastAppliedRefSlot, report>>

\* A voluntary exit, requested or not, of a validator the chain lets exit.
InitiateExit(v) ==
    /\ IsValidatorEligibleToExit(v, refEpoch)
    /\ exitEpoch' = [exitEpoch EXCEPT ![v] = refEpoch + ExitDelay]
    /\ UNCHANGED <<slot, lastRequested, exitRequests,
                   recordedStuck, recordedExited, lastAppliedRefSlot, report>>

\* The accounting contract applies the extra data of a report newer than the
\* last one it applied.
ApplyReport ==
    /\ report.refSlot > lastAppliedRefSlot
    /\ recordedStuck' = [op \in Operators |->
                           IF op \in DOMAIN report.stuck THEN report.stuck[op]
                           ELSE recordedStuck[op]]
    /\ recordedExited' = [op \in Operators |->
                            IF op \in DOMAIN report.exited THEN report.exited[op]
                            ELSE recordedExited[op]]
    /\ lastAppliedRefSlot' = report.refSlot
    /\ UNCHANGED <<slot, exitEpoch, lastRequested,
                   exitRequests, report>>

-----------------------------------------------------------------------------
(* The oracle, at reference slot = slot.                                    *)

\* get_extra_data: stuck then exited, keeping only the operators whose count
\* changed (the gauges the code sets on the way are observability only).
GetExtraData ==
    /\ report' = [refSlot |-> slot,
                  stuck |-> GetCatalistNewlyStuckValidators,
                  exited |-> GetCatalistNewlyExitedValidators]
    /\ UNCHANGED chainVars

Next ==
    \/ Tick
    \/ \E op \in Operators : RequestExit(op)
    \/ \E v \in Validators : InitiateExit(v)
    \/ ApplyReport
    \/ GetExtraData

Spec == Init /\ [][Next]_vars

(* The daemon runs one oracle cycle per frame: it always comes back to build  *)
(* the extra data, and a submitted report is always processed by the          *)
(* accounting contract; slots keep coming.  Exit requests and exits are       *)
(* choices of the ejector and the operators and get no fairness.              *)
FairSpec ==
    /\ Spec
    /\ WF_vars(Tick)
    /\ WF_vars(GetExtraData)
    /\ WF_vars(ApplyReport)

-----------------------------------------------------------------------------
(* Properties.                                                              *)

TypeOK ==
    /\ slot \in Slots
    /\ exitEpoch \in [Validators -> ExitEpochs \cup {FarFutureEpoch}]
    /\ lastRequested \in [Operators -> Validators \cup {NoIndex}]
    /\ exitRequests \subseteq ExitRequest
    /\ recordedStuck \in [Operators -> Nat]
    /\ recordedExited \in [Operators -> Nat]
    /\ lastAppliedRefSlot \in Slots \cup {NoIndex}
    /\ IsReport(report)

\* Validators for which an exit request was emitted at least t slots ago.
RequestedAtLeast(t) == {e.index : e \in {x \in exitRequests : x.slot + t <= slot}}

(* The stuck count the accounting report sets for an operator is exactly    *)
(* the number of its validators that the ejector asked to exit at least the *)
(* delinquent timeout ago, that have not started exiting, and whose         *)
(* exit-availability deadline (activation + shard committee period, plus    *)
(* the timeout) has passed.  The code finds "asked to exit" through the     *)
(* last requested index and "long enough ago" through the absence of the    *)
(* key from recent events (sum_stuck_validators); this says both proxies    *)
(* agree with the request history.                                          *)
StuckCountMatchesRequests ==
    \A op \in Operators :
        StuckCount(op) =
            Cardinality({v \in ValidatorsOf(op) :
                /\ ~IsOnExit(v)
                /\ v \in RequestedAtLeast(DelinquentTimeoutInSlots)
                /\ (ActivationEpoch[v] + ShardCommitteePeriod) * SlotsPerEpoch
                     + DelinquentTimeoutInSlots < slot})

(* The delayed-validators gauge of an operator counts exactly its validators *)
(* asked to exit at least the delayed timeout ago that have not started      *)
(* exiting (is_validator_delayed, counted by index against the last         *)
(* requested index and the recent ValidatorExitRequest events).              *)
DelayedCountMatchesRequests ==
    \A op \in Operators :
        DelayedCount(op) =
            Cardinality({v \in ValidatorsOf(op) :
                /\ ~IsOnExit(v)
                /\ v \in RequestedAtLeast(DelayedTimeoutInSlots)})

\* The deadline of the docstring of get_recently_requested_but_not_exited_validators
\* (lines 196-200) for validator v requested by event e:
\* max(activation_epoch + SHARD_COMMITTEE_PERIOD, epoch of the request)
\* * slots_per_epoch + VALIDATOR_DELAYED_TIMEOUT_IN_SLOTS.
DelayedDeadlineSlot(v, e) ==
    LET availableEpoch == ActivationEpoch[v] + ShardCommitteePeriod
        requestEpoch == Epoch(e.slot)
    IN  (IF availableEpoch >= requestEpoch THEN availableEpoch ELSE requestEpoch)
            * SlotsPerEpoch + DelayedTimeoutInSlots

(* The docstring of get_recently_requested_but_not_exited_validators: a      *)
(* validator is returned exactly when it was asked to exit, has not started  *)
(* exiting, and the reference slot is before its delayed deadline            *)
(* max(activation + shard committee period, epoch of the request) *          *)
(* slots_per_epoch + the delayed timeout.  The code tests the request part  *)
(* with an event window in slots (line 216) and the availability part with  *)
(* eligibility at an earlier epoch (line 219).                              *)
RecentlyRequestedMeansBeforeDeadline ==
    \A v \in Validators :
        v \in RecentlyRequestedButNotExited <=>
            \E e \in exitRequests :
                /\ e.index = v
                /\ ~IsOnExit(v)
                /\ slot < DelayedDeadlineSlot(v, e)

(* The availability half of that docstring: since the deadline is a maximum, *)
(* a validator asked to exit and not exiting is still returned (not counted  *)
(* delayed) while the reference slot is before                              *)
(* (activation + shard committee period) * slots_per_epoch + the delayed     *)
(* timeout, whenever it was requested.  This is what the eligibility test at *)
(* ref_epoch - delayed_timeout // slots_per_epoch (line 219) is for.         *)
ReturnedBeforeAvailabilityDeadline ==
    \A v \in Validators :
        /\ \E e \in exitRequests : e.index = v
        /\ ~IsOnExit(v)
        /\ slot < (ActivationEpoch[v] + ShardCommitteePeriod) * SlotsPerEpoch
                    + DelayedTimeoutInSlots
        => v \in RecentlyRequestedButNotExited

(* Every rise of an operator's stuck count reaches the chain: once n of its *)
(* validators are stuck (sum_stuck_validators), the recorded                 *)
(* stuck_validators_count eventually reaches n, unless fewer than n are      *)
(* stuck by then (some started exiting).  The delta rule of                  *)
(* get_catalist_newly_stuck_validators (lines 97-102) must not hide a count  *)
(* the chain has not recorded, under the daemon's one cycle per frame.       *)
StuckEventuallyReported ==
    \A op \in Operators, n \in 1 .. NumValidators :
        StuckCount(op) >= n ~> (recordedStuck[op] >= n \/ StuckCount(op) < n)

(* Spec 4.5: every requested, not yet exiting validator is classified as     *)
(* exactly one of "recently requested, not yet exited" (returned) and        *)
(* "delayed" (counted in the gauge); no validator is both.                   *)
RecentAndDelayedDisjoint ==
    \A v \in Validators :
        ~(IsValidatorRecentlyRequestedButNotExited(Owner[v], v)
          /\ IsValidatorDelayed(Owner[v], v))

=============================================================================
