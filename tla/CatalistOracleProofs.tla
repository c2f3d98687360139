------------------------ MODULE CatalistOracleProofs ------------------------
(***************************************************************************)
(* Proofs about CatalistOracle for every value of its constants: the type  *)
(* invariant, the ordering of exit requests the classifier relies on, and  *)
(* that the stuck count of sum_stuck_validators equals the count taken     *)
(* from the request history.                                               *)
(***************************************************************************)
EXTENDS CatalistOracle, FiniteSetTheorems, TLAPS

USE ConstantsAssumption

-----------------------------------------------------------------------------
(* Lemmas about the operators the model is built from.                      *)

\* Every set of validators is finite, so its size is a natural number.
LEMMA ValidatorSetCardinality ==
    ASSUME NEW S \in SUBSET Validators
    PROVE  Cardinality(S) \in Nat
<1>1. IsFiniteSet(Validators)
    BY FS_Interval DEF Validators
<1>2. IsFiniteSet(S)
    BY <1>1, FS_Subset
<1>. QED
    BY <1>2, FS_CardinalityType

\* The epoch of a slot within the bound is within the epoch bound.
LEMMA EpochBound ==
    ASSUME NEW s \in Slots
    PROVE  Epoch(s) \in 0 .. MaxEpoch
    BY DEF Epoch, Slots, MaxEpoch

\* A delta dict keeps exactly the operators whose count changed.
LEMMA DeltaOnlyType ==
    ASSUME NEW counts \in [Operators -> Nat], NEW recorded \in [Operators -> Nat]
    PROVE  DeltaOnly(counts, recorded)
               \in [{o \in Operators : counts[o] # recorded[o]} -> Nat]
    BY DEF DeltaOnly

\* The counts behind a report are natural numbers.
LEMMA CountsType ==
    /\ [op \in Operators |-> StuckCount(op)] \in [Operators -> Nat]
    /\ [op \in Operators |-> ExitedCount(op)] \in [Operators -> Nat]
<1>1. \A op \in Operators : StuckCount(op) \in Nat
    BY ValidatorSetCardinality DEF StuckCount, ValidatorsOf
<1>2. \A op \in Operators : ExitedCount(op) \in Nat
    BY ValidatorSetCardinality DEF ExitedCount, ValidatorsOf
<1>. QED
    BY <1>1, <1>2

-----------------------------------------------------------------------------
(* Type correctness.                                                        *)

LEMMA InitTypeOK == Init => TypeOK
    BY DEF Init, TypeOK, IsReport, ExitEpochs, Slots, Validators, NoIndex

LEMMA NextTypeOK == TypeOK /\ [Next]_vars => TypeOK'
<1> SUFFICES ASSUME TypeOK, [Next]_vars PROVE TypeOK'
    OBVIOUS
<1>1. CASE Tick
    BY <1>1 DEF Tick, TypeOK, Slots, IsReport
<1>2. ASSUME NEW op \in Operators, RequestExit(op)
      PROVE  TypeOK'
    <2>1. PICK v \in Exitable(op) :
              /\ lastRequested' = [lastRequested EXCEPT ![op] = v]
              /\ exitRequests' = exitRequests \cup {[index |-> v, op |-> op, slot |-> slot]}
              /\ UNCHANGED <<slot, exitEpoch, recordedStuck,
                             recordedExited, lastAppliedRefSlot, report>>
        BY <1>2 DEF RequestExit
    <2>2. v \in Validators
        BY <2>1 DEF Exitable, ValidatorsOf
    <2>3. lastRequested' \in [Operators -> Validators \cup {NoIndex}]
        BY <2>1, <2>2 DEF TypeOK
    <2>4. exitRequests' \subseteq ExitRequest
        BY <2>1, <2>2 DEF TypeOK, ExitRequest
    <2>5. IsReport(report)'
        BY <2>1 DEF TypeOK
    <2>. QED
        BY <2>1, <2>3, <2>4, <2>5 DEF TypeOK
<1>3. ASSUME NEW v \in Validators, InitiateExit(v)
      PROVE  TypeOK'
    <2>1. Epoch(slot) \in 0 .. MaxEpoch
        BY EpochBound DEF TypeOK
    <2>2. refEpoch + ExitDelay \in ExitEpochs
        BY <2>1 DEF refEpoch, ExitEpochs, MaxEpoch
    <2>3. IsReport(report)'
        BY <1>3 DEF InitiateExit, TypeOK
    <2>. QED
        BY <1>3, <2>2, <2>3 DEF InitiateExit, TypeOK
<1>4. CASE ApplyReport
    <2>1. report # NoReport
        <3>1. report.refSlot > lastAppliedRefSlot
            BY <1>4 DEF ApplyReport
        <3>2. lastAppliedRefSlot \in Int /\ lastAppliedRefSlot >= NoIndex
            BY DEF TypeOK, Slots, NoIndex
        <3>. QED
            BY <3>1, <3>2 DEF NoReport, NoIndex
    <2>2. PICK S1, S2 \in SUBSET Operators :
              report \in [refSlot : Slots, stuck : [S1 -> Nat], exited : [S2 -> Nat]]
        BY <2>1 DEF TypeOK, IsReport
    <2>3. recordedStuck' \in [Operators -> Nat]
        BY <1>4, <2>2 DEF ApplyReport, TypeOK
    <2>4. recordedExited' \in [Operators -> Nat]
        BY <1>4, <2>2 DEF ApplyReport, TypeOK
    <2>5. lastAppliedRefSlot' \in Slots
        BY <1>4, <2>2 DEF ApplyReport
    <2>6. IsReport(report)'
        BY <1>4 DEF ApplyReport, TypeOK
    <2>. QED
        BY <1>4, <2>3, <2>4, <2>5, <2>6 DEF ApplyReport, TypeOK
<1>5. CASE GetExtraData
    <2> DEFINE stuck == [op \in Operators |-> StuckCount(op)]
               exited == [op \in Operators |-> ExitedCount(op)]
               S1 == {o \in Operators : stuck[o] # recordedStuck[o]}
               S2 == {o \in Operators : exited[o] # recordedExited[o]}
    <2>1. GetCatalistNewlyStuckValidators \in [S1 -> Nat]
        BY CountsType, DeltaOnlyType DEF TypeOK, GetCatalistNewlyStuckValidators
    <2>2. GetCatalistNewlyExitedValidators \in [S2 -> Nat]
        BY CountsType, DeltaOnlyType DEF TypeOK, GetCatalistNewlyExitedValidators
    <2>3. report' \in [refSlot : Slots, stuck : [S1 -> Nat], exited : [S2 -> Nat]]
        BY <1>5, <2>1, <2>2 DEF GetExtraData, TypeOK
    <2>4. S1 \in SUBSET Operators /\ S2 \in SUBSET Operators
        OBVIOUS
    <2>5. IsReport(report)'
        BY <2>3, <2>4 DEF IsReport
    <2>. QED
        BY <1>5, <2>5 DEF GetExtraData, TypeOK, chainVars
<1>6. CASE UNCHANGED vars
    BY <1>6 DEF vars, chainVars, TypeOK, IsReport
<1>. QED
    BY <1>1, <1>2, <1>3, <1>4, <1>5, <1>6 DEF Next

(* The variables of the oracle and the chain always have their types: in   *)
(* particular every report the oracle keeps carries only node operators as *)
(* keys and natural counts as values.                                      *)
THEOREM TypeCorrect == Spec => []TypeOK
    BY InitTypeOK, NextTypeOK, PTL DEF Spec

-----------------------------------------------------------------------------
(* The ordering of exit requests.                                           *)

(* The last requested index of every operator means what the classifier    *)
(* takes it to mean: each exit request names a validator of its operator at *)
(* or below that operator's last requested index, no validator is requested *)
(* twice, and every validator at or below the last requested index that has *)
(* not started exiting was in fact requested.  The exit bus only guarantees *)
(* increasing indexes; the last part rests on the ejector taking each        *)
(* operator's exitable validators in ascending index order.                 *)
RequestsOrdered ==
    /\ \A e \in exitRequests :
          /\ e.op = Owner[e.index]
          /\ e.index <= lastRequested[e.op]
          /\ e.slot <= slot
    /\ \A e1, e2 \in exitRequests : e1.index = e2.index => e1 = e2
    /\ \A v \in Validators :
          v <= lastRequested[Owner[v]] /\ ~IsOnExit(v) =>
              \E e \in exitRequests : e.index = v

LEMMA InitRequestsOrdered == Init => RequestsOrdered
    BY DEF Init, RequestsOrdered, Validators, NoIndex

\* A voluntary exit gives the validator an exit epoch short of the sentinel.
LEMMA InitiateExitSetsExit ==
    ASSUME TypeOK, NEW x \in Validators, InitiateExit(x)
    PROVE  /\ exitEpoch'[x] # FarFutureEpoch
           /\ \A w \in Validators \ {x} : exitEpoch'[w] = exitEpoch[w]
<1>1. Epoch(slot) \in 0 .. MaxEpoch
    BY EpochBound DEF TypeOK
<1>2. exitEpoch'[x] = refEpoch + ExitDelay
    BY DEF InitiateExit, TypeOK
<1>. QED
    BY <1>1, <1>2 DEF InitiateExit, TypeOK, refEpoch, MaxEpoch

LEMMA NextRequestsOrdered ==
    TypeOK /\ RequestsOrdered /\ [Next]_vars => RequestsOrdered'
<1> SUFFICES ASSUME TypeOK, RequestsOrdered, [Next]_vars
             PROVE  RequestsOrdered'
    OBVIOUS
<1>0. /\ slot \in Int
      /\ lastRequested \in [Operators -> Int]
      /\ \A e \in exitRequests : /\ e.index \in Validators
                                 /\ e.op \in Operators
                                 /\ e.slot \in Int
      /\ Validators \subseteq Int
    <2>1. slot \in Int
        BY DEF TypeOK, Slots
    <2>2. lastRequested \in [Operators -> Int]
        BY DEF TypeOK, Validators, NoIndex
    <2>3. \A e \in exitRequests : /\ e.index \in Validators
                                 /\ e.op \in Operators
                                 /\ e.slot \in Int
        BY DEF TypeOK, ExitRequest, Slots
    <2>4. Validators \subseteq Int
        BY DEF Validators
    <2>. QED
        BY <2>1, <2>2, <2>3, <2>4
<1>1. CASE Tick
    BY <1>0, <1>1 DEF Tick, RequestsOrdered, IsOnExit
<1>2. ASSUME NEW op \in Operators, RequestExit(op)
      PROVE  RequestsOrdered'
    <2>1. PICK v \in Exitable(op) :
              /\ \A w \in Exitable(op) : v <= w
              /\ lastRequested' = [lastRequested EXCEPT ![op] = v]
              /\ exitRequests' = exitRequests \cup {[index |-> v, op |-> op, slot |-> slot]}
              /\ UNCHANGED <<slot, exitEpoch, recordedStuck,
                             recordedExited, lastAppliedRefSlot, report>>
        BY <1>2 DEF RequestExit
    <2> DEFINE new == [index |-> v, op |-> op, slot |-> slot]
    <2>2. /\ v \in Validators
          /\ Owner[v] = op
          /\ v > lastRequested[op]
          /\ exitEpoch[v] = FarFutureEpoch
        BY <2>1 DEF Exitable, ValidatorsOf, IsOnExit
    <2>3. \A o \in Operators : lastRequested[o] <= lastRequested'[o]
        BY <1>0, <2>1, <2>2
    <2>4. ASSUME NEW e \in exitRequests' PROVE /\ e.op = Owner[e.index]
                                                /\ e.index <= lastRequested'[e.op]
                                                /\ e.slot <= slot'
        <3>1. CASE e = new
            <4>1. lastRequested'[op] = v
                BY <1>0, <2>1
            <4>. QED
                BY <1>0, <2>1, <2>2, <3>1, <4>1
        <3>2. CASE e \in exitRequests
            <4>1. /\ e.op = Owner[e.index]
                  /\ e.index <= lastRequested[e.op]
                  /\ e.slot <= slot
                BY <3>2 DEF RequestsOrdered
            <4>2. lastRequested[e.op] <= lastRequested'[e.op]
                BY <1>0, <2>3, <3>2
            <4>3. /\ lastRequested'[e.op] \in Int
                  /\ slot' = slot
                BY <1>0, <2>1, <2>2, <3>2
            <4>4. /\ e.index \in Int /\ e.slot \in Int
                  /\ lastRequested[e.op] \in Int /\ slot \in Int
                BY <1>0, <3>2
            <4>. QED
                BY <4>1, <4>2, <4>3, <4>4
        <3>. QED
            BY <2>1, <3>1, <3>2
    <2>5. ASSUME NEW e1 \in exitRequests', NEW e2 \in exitRequests',
                 e1.index = e2.index
          PROVE  e1 = e2
        <3>1. \A e \in exitRequests : e.index # v
            <4> SUFFICES ASSUME NEW e \in exitRequests, e.index = v PROVE FALSE
                OBVIOUS
            <4>1. e.op = op /\ v <= lastRequested[op]
                BY <2>2 DEF RequestsOrdered
            <4>. QED
                BY <1>0, <2>2, <4>1
        <3>. QED
            BY <2>1, <2>5, <3>1 DEF RequestsOrdered
    <2>6. ASSUME NEW w \in Validators,
                 w <= lastRequested'[Owner[w]], ~IsOnExit(w)'
          PROVE  \E e \in exitRequests' : e.index = w
        <3>1. ~IsOnExit(w)
            BY <2>1, <2>6 DEF IsOnExit
        <3>0. Owner[w] \in Operators
            BY DEF Validators
        <3>2. CASE Owner[w] # op
            <4>1. w <= lastRequested[Owner[w]]
                BY <1>0, <2>1, <2>6, <3>0, <3>2
            <4>. QED
                BY <2>1, <3>1, <4>1 DEF RequestsOrdered
        <3>3. CASE Owner[w] = op /\ w <= lastRequested[op]
            BY <2>1, <3>1, <3>3 DEF RequestsOrdered
        <3>4. CASE Owner[w] = op /\ w = v
            <4>1. new \in exitRequests'
                BY <2>1
            <4>. QED
                BY <3>4, <4>1
        <3>5. CASE Owner[w] = op /\ lastRequested[op] < w /\ w # v
            <4>1. w \in Exitable(op)
                BY <3>1, <3>5 DEF Exitable, ValidatorsOf
            <4>2. w <= v
                BY <1>0, <2>1, <2>6, <3>5
            <4>3. v <= w
                BY <2>1, <4>1
            <4>. QED
                BY <1>0, <2>2, <3>5, <4>2, <4>3
        <3>. QED
            BY <1>0, <3>0, <3>2, <3>3, <3>4, <3>5
    <2>. QED
        BY <2>4, <2>5, <2>6 DEF RequestsOrdered
<1>3. ASSUME NEW x \in Validators, InitiateExit(x)
      PROVE  RequestsOrdered'
    <2>1. ASSUME NEW w \in Validators, ~IsOnExit(w)' PROVE ~IsOnExit(w)
        BY <1>3, <2>1, InitiateExitSetsExit DEF IsOnExit
    <2>. QED
        BY <1>3, <2>1 DEF InitiateExit, RequestsOrdered
<1>4. CASE ApplyReport
    BY <1>4 DEF ApplyReport, RequestsOrdered, IsOnExit
<1>5. CASE GetExtraData
    BY <1>5 DEF GetExtraData, chainVars, RequestsOrdered, IsOnExit
<1>6. CASE UNCHANGED vars
    BY <1>6 DEF vars, chainVars, RequestsOrdered, IsOnExit
<1>. QED
    BY <1>1, <1>2, <1>3, <1>4, <1>5, <1>6 DEF Next

\* RequestsOrdered holds in every reachable state.
LEMMA RequestsOrderedInvariant == Spec => []RequestsOrdered
<1>1. TypeOK /\ RequestsOrdered /\ [Next]_vars => RequestsOrdered'
    BY NextRequestsOrdered
<1>. QED
    BY <1>1, TypeCorrect, InitRequestsOrdered, PTL DEF Spec

-----------------------------------------------------------------------------
(* The stuck and delayed counts agree with the request history.            *)

\* A validator not exiting is at or below its operator's last requested
\* index exactly when it has a request, and then that request is its only one.
LEMMA RequestedByIndex ==
    ASSUME TypeOK, RequestsOrdered, NEW v \in Validators, ~IsOnExit(v)
    PROVE  /\ v <= lastRequested[Owner[v]] <=> \E e \in exitRequests : e.index = v
           /\ \A e1, e2 \in exitRequests : e1.index = v /\ e2.index = v => e1 = e2
           /\ \A e \in exitRequests : e.index = v => e.op = Owner[v]
<1>1. ASSUME NEW e \in exitRequests, e.index = v
      PROVE  v <= lastRequested[Owner[v]] /\ e.op = Owner[v]
    BY <1>1 DEF RequestsOrdered
<1>. QED
    BY <1>1 DEF RequestsOrdered

\* The stuck test of sum_stuck_validators, for a validator of op, in terms
\* of the request history.
LEMMA IsStuckByHistory ==
    ASSUME TypeOK, RequestsOrdered, NEW op \in Operators,
           NEW v \in ValidatorsOf(op)
    PROVE  IsStuck(op, v) <=>
               /\ ~IsOnExit(v)
               /\ v \in RequestedAtLeast(DelinquentTimeoutInSlots)
               /\ (ActivationEpoch[v] + ShardCommitteePeriod) * SlotsPerEpoch
                    + DelinquentTimeoutInSlots < slot
<1> DEFINE T == DelinquentTimeoutInSlots
<1>0. /\ Owner[v] = op
      /\ slot \in Int
      /\ \A e \in exitRequests : e.slot \in Int
    BY DEF ValidatorsOf, TypeOK, Slots, ExitRequest
<1>1. ASSUME IsStuck(op, v)
      PROVE  ~IsOnExit(v) /\ v \in RequestedAtLeast(T)
    <2>1. ~IsOnExit(v)
        BY <1>1 DEF IsStuck, IsOnExit
    <2>2. PICK e \in exitRequests : e.index = v
        BY <1>0, <1>1, <2>1, RequestedByIndex
            DEF IsStuck, GetOperatorsWithLastExitedValidatorIndexes, ValidatorsOf, Validators
    <2>3. ~(e.slot > slot - T)
        BY <1>1, <2>2 DEF IsStuck, GetLastRequestedToExitPubkeys, EventsInPast,
                          GetValidatorDelinquentTimeoutInSlot
    <2>4. e.slot + T <= slot
        BY <1>0, <2>3
    <2>. QED
        BY <2>1, <2>2, <2>4 DEF RequestedAtLeast
<1>2. ASSUME ~IsOnExit(v), v \in RequestedAtLeast(T)
      PROVE  /\ v <= GetOperatorsWithLastExitedValidatorIndexes[op]
             /\ v \notin GetLastRequestedToExitPubkeys
    <2>1. PICK e \in exitRequests : e.index = v /\ e.slot + T <= slot
        BY <1>2 DEF RequestedAtLeast
    <2>2. v <= lastRequested[op]
        BY <1>0, <1>2, <2>1, RequestedByIndex DEF ValidatorsOf, Validators
    <2>3. ASSUME NEW e2 \in exitRequests, e2.index = v PROVE ~(e2.slot > slot - T)
        <3>1. e2 = e
            BY <1>2, <2>1, <2>3, RequestedByIndex DEF ValidatorsOf, Validators
        <3>. QED
            BY <1>0, <2>1, <3>1
    <2>. QED
        BY <2>2, <2>3 DEF GetOperatorsWithLastExitedValidatorIndexes,
                          GetLastRequestedToExitPubkeys, EventsInPast,
                          GetValidatorDelinquentTimeoutInSlot
<1>. QED
    BY <1>1, <1>2 DEF IsStuck, IsOnExit, GetValidatorDelinquentTimeoutInSlot

(* The stuck count of every operator, as sum_stuck_validators computes it  *)
(* from the last requested index and the recent exit events, is the number *)
(* of its validators asked to exit at least the delinquent timeout ago     *)
(* that have not started exiting and are past their availability deadline. *)
THEOREM StuckCountCorrect == Spec => []StuckCountMatchesRequests
<1>1. TypeOK /\ RequestsOrdered => StuckCountMatchesRequests
    <2> SUFFICES ASSUME TypeOK, RequestsOrdered, NEW op \in Operators
                 PROVE  {v \in ValidatorsOf(op) : IsStuck(op, v)} =
                        {v \in ValidatorsOf(op) :
                            /\ ~IsOnExit(v)
                            /\ v \in RequestedAtLeast(DelinquentTimeoutInSlots)
                            /\ (ActivationEpoch[v] + ShardCommitteePeriod) * SlotsPerEpoch
                                 + DelinquentTimeoutInSlots < slot}
        BY DEF StuckCountMatchesRequests, StuckCount
    <2>. QED
        BY IsStuckByHistory
<1>. QED
    BY <1>1, TypeCorrect, RequestsOrderedInvariant, PTL

\* The delayed test of is_validator_delayed, for a validator of op, in terms
\* of the request history.
LEMMA IsDelayedByHistory ==
    ASSUME TypeOK, RequestsOrdered, NEW op \in Operators,
           NEW v \in ValidatorsOf(op)
    PROVE  IsValidatorDelayed(op, v) <=>
               ~IsOnExit(v) /\ v \in RequestedAtLeast(DelayedTimeoutInSlots)
<1> DEFINE D == DelayedTimeoutInSlots
<1>0. /\ Owner[v] = op
      /\ v \in Validators
      /\ slot \in Int
      /\ \A e \in exitRequests : e.slot \in Int
    BY DEF ValidatorsOf, TypeOK, Slots, ExitRequest
<1>1. ASSUME IsValidatorDelayed(op, v)
      PROVE  v \in RequestedAtLeast(D)
    <2>1. ~IsOnExit(v)
        BY <1>1 DEF IsValidatorDelayed
    <2>2. PICK e \in exitRequests : e.index = v
        BY <1>0, <1>1, <2>1, RequestedByIndex
            DEF IsValidatorDelayed, ValidatorRequestedToExit,
                GetOperatorsWithLastExitedValidatorIndexes
    <2>3. e.op = op
        BY <1>0, <2>1, <2>2, RequestedByIndex
    <2>4. ~(e.slot > slot - D)
        BY <1>1, <2>2, <2>3 DEF IsValidatorDelayed, ValidatorRecentlyRequestedToExit,
                                RecentIndexes, EventsInPast, GetValidatorDelayedTimeoutInSlot
    <2>5. e.slot + D <= slot
        BY <1>0, <2>4
    <2>. QED
        BY <2>2, <2>5 DEF RequestedAtLeast
<1>2. ASSUME ~IsOnExit(v), v \in RequestedAtLeast(D)
      PROVE  /\ ValidatorRequestedToExit(op, v)
             /\ ~ValidatorRecentlyRequestedToExit(op, v)
    <2>1. PICK e \in exitRequests : e.index = v /\ e.slot + D <= slot
        BY <1>2 DEF RequestedAtLeast
    <2>2. v <= lastRequested[op]
        BY <1>0, <1>2, <2>1, RequestedByIndex
    <2>3. ASSUME NEW e2 \in exitRequests, e2.index = v PROVE ~(e2.slot > slot - D)
        <3>1. e2 = e
            BY <1>0, <1>2, <2>1, <2>3, RequestedByIndex
        <3>. QED
            BY <1>0, <2>1, <3>1
    <2>. QED
        BY <2>2, <2>3 DEF ValidatorRequestedToExit, ValidatorRecentlyRequestedToExit,
                          GetOperatorsWithLastExitedValidatorIndexes, RecentIndexes,
                          EventsInPast, GetValidatorDelayedTimeoutInSlot
<1>. QED
    BY <1>1, <1>2 DEF IsValidatorDelayed

(* The delayed-validators count of every operator, as is_validator_delayed *)
(* computes it from the last requested index and the recent exit events,   *)
(* is the number of its validators asked to exit at least the delayed      *)
(* timeout ago that have not started exiting.                              *)
THEOREM DelayedCountCorrect == Spec => []DelayedCountMatchesRequests
<1>1. TypeOK /\ RequestsOrdered => DelayedCountMatchesRequests
    <2> SUFFICES ASSUME TypeOK, RequestsOrdered, NEW op \in Operators
                 PROVE  {v \in ValidatorsOf(op) : IsValidatorDelayed(op, v)} =
                        {v \in ValidatorsOf(op) :
                            /\ ~IsOnExit(v)
                            /\ v \in RequestedAtLeast(DelayedTimeoutInSlots)}
        BY DEF DelayedCountMatchesRequests, DelayedCount
    <2>. QED
        BY IsDelayedByHistory
<1>. QED
    BY <1>1, TypeCorrect, RequestsOrderedInvariant, PTL

-----------------------------------------------------------------------------
(* The recently-requested set against the delayed deadline.                 *)

\* A multiple of p is at most s exactly when its factor is at most s \div p.
LEMMA MultipleBelowIffQuotient ==
    ASSUME NEW n \in Int, NEW s \in Nat, NEW p \in Nat \ {0}
    PROVE  n * p <= s <=> n <= s \div p
<1> DEFINE q == s \div p
<1>1. q \in Nat /\ q * p <= s /\ s < (q + 1) * p
    BY SMT
<1>2. ASSUME n <= q PROVE n * p <= s
    <2>1. n * p <= q * p
        BY <1>1, <1>2, SMT
    <2>. QED
        BY <1>1, <2>1
<1>3. ASSUME q < n PROVE s < n * p
    <2>1. (q + 1) * p <= n * p
        BY <1>1, <1>3, SMT
    <2>. QED
        BY <1>1, <2>1
<1>. QED
    BY <1>2, <1>3

\* Multiplication distributes over addition.
LEMMA ProductDistributes ==
    ASSUME NEW x \in Int, NEW y \in Int, NEW z \in Int
    PROVE  (x + y) * z = x * z + y * z
    BY SMT

\* A timeout in whole epochs: the slot count is the epoch count times the
\* slots of an epoch.
LEMMA WholeEpochs ==
    ASSUME DelayedTimeoutInSlots % SlotsPerEpoch = 0
    PROVE  /\ DelayedTimeoutInSlots \div SlotsPerEpoch \in Nat
           /\ DelayedTimeoutInSlots = (DelayedTimeoutInSlots \div SlotsPerEpoch) * SlotsPerEpoch
    BY SMT

\* get_recently_requested_but_not_exited_validators, for one validator, in
\* terms of the request history and the delayed deadline, when the timeout
\* is a whole number of epochs.
LEMMA RecentlyRequestedByHistory ==
    ASSUME TypeOK, RequestsOrdered, DelayedTimeoutInSlots % SlotsPerEpoch = 0,
           NEW v \in Validators
    PROVE  IsValidatorRecentlyRequestedButNotExited(Owner[v], v) <=>
               \E e \in exitRequests :
                   /\ e.index = v
                   /\ ~IsOnExit(v)
                   /\ \/ slot < (ActivationEpoch[v] + ShardCommitteePeriod) * SlotsPerEpoch
                                 + DelayedTimeoutInSlots
                      \/ slot < e.slot + DelayedTimeoutInSlots
<1> DEFINE op == Owner[v]
           A == ActivationEpoch[v] + ShardCommitteePeriod
           D == DelayedTimeoutInSlots
           P == SlotsPerEpoch
           k == D \div P
<1>0. /\ op \in Operators /\ slot \in Nat /\ A \in Nat
      /\ ActivationEpoch[v] <= A
      /\ k \in Nat /\ D = k * P
      /\ \A e \in exitRequests : e.slot \in Int
    BY WholeEpochs DEF TypeOK, Slots, ExitRequest
<1>1. CASE IsOnExit(v)
    BY <1>1 DEF IsValidatorRecentlyRequestedButNotExited
<1>2. CASE ~IsOnExit(v)
  <2>1. /\ refEpoch \in 0 .. MaxEpoch
        /\ refEpoch - k < FarFutureEpoch
        /\ exitEpoch[v] = FarFutureEpoch
    <3>1. slot \in Slots
        BY DEF TypeOK
    <3>2. refEpoch \in 0 .. MaxEpoch
        BY <3>1, EpochBound DEF refEpoch
    <3>3. MaxEpoch \in Nat /\ MaxEpoch < FarFutureEpoch
        BY DEF MaxEpoch
    <3>4. refEpoch - k < FarFutureEpoch
        BY <1>0, <3>2, <3>3
    <3>. QED
        BY <1>2, <3>2, <3>4 DEF IsOnExit
  <2>2. ValidatorEligibleToExit(v) <=> A <= refEpoch - k
    <3>1. ValidatorEligibleToExit(v) <=>
            /\ ActivationEpoch[v] <= refEpoch - k
            /\ refEpoch - k < exitEpoch[v]
            /\ A <= refEpoch - k
        BY <1>2 DEF ValidatorEligibleToExit, IsValidatorEligibleToExit,
                    IsActiveValidator, GetValidatorDelayedTimeoutInSlot
    <3>. QED
        BY <1>0, <2>1, <3>1
  <2>3. A <= refEpoch - k <=> ~(slot < A * P + D)
    <3>1. A <= refEpoch - k <=> A + k <= slot \div P
        BY <1>0 DEF refEpoch, Epoch
    <3>2. A + k <= slot \div P <=> (A + k) * P <= slot
        BY <1>0, MultipleBelowIffQuotient
    <3>3. (A + k) * P = A * P + D
      <4>1. A \in Int /\ k \in Int /\ P \in Int
          BY <1>0
      <4>2. (A + k) * P = A * P + k * P
          BY <4>1, ProductDistributes, Zenon
      <4>. QED
          BY <1>0, <4>2
    <3>. QED
        BY <1>0, <3>1, <3>2, <3>3
  <2>4. ASSUME NEW e \in exitRequests, e.index = v
        PROVE  v \in RecentIndexes(op) <=> slot < e.slot + D
    <3>1. e.op = op /\ \A x \in exitRequests : x.index = v => x = e
        BY <1>2, <2>4, RequestedByIndex
    <3>2. v \in RecentIndexes(op) <=> e.slot > slot - D
        BY <2>4, <3>1 DEF RecentIndexes, EventsInPast, GetValidatorDelayedTimeoutInSlot
    <3>. QED
        BY <1>0, <3>2
  <2>5. v <= lastRequested[op] <=> \E e \in exitRequests : e.index = v
      BY <1>2, RequestedByIndex
  <2>. QED
      BY <1>2, <2>2, <2>3, <2>4, <2>5
         DEF IsValidatorRecentlyRequestedButNotExited, ValidatorRequestedToExit,
             GetOperatorsWithLastExitedValidatorIndexes, ValidatorRecentlyRequestedToExit
<1>. QED
    BY <1>1, <1>2

(* Before its availability deadline                                       *)
(* (activation + SHARD_COMMITTEE_PERIOD) * slots_per_epoch + the delayed     *)
(* timeout, a validator asked to exit and not exiting is still returned by  *)
(* get_recently_requested_but_not_exited_validators, whatever its request   *)
(* slot: the eligibility test at ref_epoch - timeout // slots_per_epoch      *)
(* (line 219) is exact when the timeout is a whole number of epochs.  The    *)
(* hypothesis is needed: with a timeout of 3 slots and 2 slots per epoch the *)
(* floor division drops the validator a slot early (run delayed_rounding).  *)
THEOREM ReturnedBeforeAvailabilityDeadlineHolds ==
    ASSUME DelayedTimeoutInSlots % SlotsPerEpoch = 0
    PROVE  Spec => []ReturnedBeforeAvailabilityDeadline
<1>1. TypeOK /\ RequestsOrdered => ReturnedBeforeAvailabilityDeadline
  <2> SUFFICES ASSUME TypeOK, RequestsOrdered, NEW v \in Validators,
                      \E e \in exitRequests : e.index = v,
                      ~IsOnExit(v),
                      slot < (ActivationEpoch[v] + ShardCommitteePeriod) * SlotsPerEpoch
                               + DelayedTimeoutInSlots
               PROVE  v \in RecentlyRequestedButNotExited
      BY DEF ReturnedBeforeAvailabilityDeadline
  <2>1. IsValidatorRecentlyRequestedButNotExited(Owner[v], v)
      BY RecentlyRequestedByHistory
  <2>. QED
      BY <2>1 DEF RecentlyRequestedButNotExited
<1>. QED
    BY <1>1, TypeCorrect, RequestsOrderedInvariant, PTL

=============================================================================
