----------------------- MODULE ValidatorRegistryProofs -----------------------
(***************************************************************************)
(* Proofs about ValidatorRegistry for every set of modules, operators and  *)
(* keys: the router never records more exited validators for an operator   *)
(* than have exited among its keys, whether or not the keys API lags; and  *)
(* when no host lags, a report never lowers a recorded count.              *)
(***************************************************************************)
EXTENDS ValidatorRegistry, FiniteSetTheorems, TLAPS

USE RegistryAssumption

\* The reference block a frame has read.
RefRec == [taken : {TRUE}, operators : SUBSET GlobalIndexes,
           cl : [Pubkeys -> ClStatus], recorded : [GlobalIndexes -> Nat]]

\* The keys of K owned by o whose validator has exited in c.
ExitedKeys(K, ko, c, o) == {k \in K : ko[k] = o /\ c[k] = "exited"}

\* No validator exited in c1 is un-exited in c2.
ExitedSince(c1, c2) == \A k \in Pubkeys : c1[k] = "exited" => c2[k] = "exited"

-----------------------------------------------------------------------------
(* Lemmas about the counts.                                                 *)

\* More keys, the same owners and no exit undone: no fewer exited keys.
LEMMA ExitedKeysMonotone ==
    ASSUME NEW K1, NEW K2, NEW ko1, NEW ko2, NEW c1, NEW c2, NEW o,
           IsFiniteSet(K2), K1 \subseteq K2,
           \A x \in K1 : ko2[x] = ko1[x],
           \A x \in K1 : c1[x] = "exited" => c2[x] = "exited"
    PROVE  /\ IsFiniteSet(ExitedKeys(K1, ko1, c1, o))
           /\ Cardinality(ExitedKeys(K1, ko1, c1, o))
                <= Cardinality(ExitedKeys(K2, ko2, c2, o))
<1>1. ExitedKeys(K1, ko1, c1, o) \subseteq ExitedKeys(K2, ko2, c2, o)
    BY DEF ExitedKeys
<1>2. IsFiniteSet(ExitedKeys(K2, ko2, c2, o))
    BY FS_Subset DEF ExitedKeys
<1>. QED
    BY <1>1, <1>2, FS_Subset

\* Every set of keys is finite and its size a natural number.
LEMMA KeySetCardinality ==
    ASSUME NEW S \in SUBSET Pubkeys
    PROVE  IsFiniteSet(S) /\ Cardinality(S) \in Nat
    BY FS_Subset, FS_CardinalityType

\* The count a frame computes for a router operator, as a set of keys.
LEMMA ExitedByOperatorIs ==
    ASSUME NEW r \in RefRec, NEW keys, NEW o \in r.operators
    PROVE  ExitedByOperator(GroupByNodeOperators(keys, r), r)[o]
             = Cardinality(ExitedKeys(keys, keyOwner, r.cl, o))
<1>1. {k \in GroupByNodeOperators(keys, r)[o] : r.cl[k] = "exited"}
        = ExitedKeys(keys, keyOwner, r.cl, o)
    BY DEF GroupByNodeOperators, MergeValidatorsWithKeys, ExitedKeys
<1>. QED
    BY <1>1 DEF ExitedByOperator, GroupByNodeOperators

-----------------------------------------------------------------------------
(* The inductive invariant.                                                 *)

(* A frame's reference block is the one the router's counts were read at   *)
(* (only a report changes them), and no exit it saw is undone since.  The   *)
(* counts recorded are bounded by the exited keys: of the chain, and, when  *)
(* no keys API host lags, of the keys the keys API serves.                  *)
IInv ==
    /\ TypeOK
    /\ ref \in {NoRef} \cup RefRec
    /\ ref # NoRef => ref.recorded = recordedExited /\ ExitedSince(ref.cl, cl)
    /\ ExitedNeverExceedsChain
    /\ ~KacMayLag =>
         \A o \in GlobalIndexes :
            /\ recordedExited[o] <= Cardinality(ExitedKeys(kac, keyOwner, cl, o))
            /\ ref # NoRef =>
                 recordedExited[o] <= Cardinality(ExitedKeys(kac, keyOwner, ref.cl, o))

LEMMA ChainExitedIs ==
    ASSUME NEW o
    PROVE  ChainExited(o) = Cardinality(ExitedKeys(DOMAIN keyOwner, keyOwner, cl, o))
    BY DEF ChainExited, ExitedKeys

LEMMA InitIInv == Init => IInv
<1> SUFFICES ASSUME Init PROVE IInv
    OBVIOUS
<1>1. \A o : ExitedKeys({}, keyOwner, cl, o) = {}
    BY DEF ExitedKeys
<1>2. \A o : ChainExited(o) = 0 /\ Cardinality(ExitedKeys(kac, keyOwner, cl, o)) = 0
    BY <1>1, FS_EmptySet, ChainExitedIs DEF Init
<1>3. TypeOK
  <2>1. DOMAIN keyOwner = {}
    BY DEF Init
  <2>2. cl \in [Pubkeys -> ClStatus]
    BY DEF Init, ClStatus
  <2>3. recordedExited \in [GlobalIndexes -> Nat]
    BY DEF Init
  <2>. QED
    BY <2>1, <2>2, <2>3 DEF Init, TypeOK
<1>4. ExitedNeverExceedsChain
    BY <1>2 DEF Init, ExitedNeverExceedsChain
<1>5. ~KacMayLag =>
         \A o \in GlobalIndexes :
            recordedExited[o] <= Cardinality(ExitedKeys(kac, keyOwner, cl, o))
    BY <1>2 DEF Init
<1>. QED
    BY <1>3, <1>4, <1>5 DEF Init, IInv

\* A step that only adds keys, keeps owners and undoes no exit keeps every
\* exited-key count from going down.
LEMMA StepExitedKeys ==
    ASSUME TypeOK, TypeOK', NEW o, NEW c,
           DOMAIN keyOwner \subseteq DOMAIN keyOwner',
           \A x \in DOMAIN keyOwner : keyOwner'[x] = keyOwner[x],
           ExitedSince(cl, cl'),
           kac \subseteq kac'
    PROVE  /\ ChainExited(o) <= ChainExited(o)'
           /\ Cardinality(ExitedKeys(kac, keyOwner, cl, o))
                <= Cardinality(ExitedKeys(kac', keyOwner', cl', o))
           /\ Cardinality(ExitedKeys(kac, keyOwner, c, o))
                <= Cardinality(ExitedKeys(kac', keyOwner', c, o))
<1>1. IsFiniteSet(DOMAIN keyOwner') /\ IsFiniteSet(kac')
    BY KeySetCardinality DEF TypeOK
<1>2. \A x \in DOMAIN keyOwner : cl[x] = "exited" => cl'[x] = "exited"
    BY DEF ExitedSince, TypeOK
<1>3. ChainExited(o) <= ChainExited(o)'
  <2>1. ChainExited(o)' = Cardinality(ExitedKeys(DOMAIN keyOwner', keyOwner', cl', o))
    BY DEF ChainExited, ExitedKeys
  <2>2. Cardinality(ExitedKeys(DOMAIN keyOwner, keyOwner, cl, o))
          <= Cardinality(ExitedKeys(DOMAIN keyOwner', keyOwner', cl', o))
    BY <1>1, <1>2, ExitedKeysMonotone
  <2>. QED
    BY <2>1, <2>2, ChainExitedIs
<1>4. kac \subseteq DOMAIN keyOwner
    BY DEF TypeOK
<1>5. /\ \A x \in kac : keyOwner'[x] = keyOwner[x]
      /\ \A x \in kac : cl[x] = "exited" => cl'[x] = "exited"
    BY <1>2, <1>4
<1>6. Cardinality(ExitedKeys(kac, keyOwner, cl, o))
        <= Cardinality(ExitedKeys(kac', keyOwner', cl', o))
    BY <1>1, <1>5, ExitedKeysMonotone
<1>7. Cardinality(ExitedKeys(kac, keyOwner, c, o))
        <= Cardinality(ExitedKeys(kac', keyOwner', c, o))
    BY <1>1, <1>5, ExitedKeysMonotone
<1>. QED
    BY <1>3, <1>6, <1>7

\* What every step of the chain or the keys API (not of the oracle) keeps.
Environment ==
    \/ \E m \in Modules : AddStakingModule(m)
    \/ \E o \in GlobalIndexes : AddNodeOperator(o)
    \/ \E k \in Pubkeys, o \in GlobalIndexes : UploadKey(k, o)
    \/ \E k \in Pubkeys : Deposit(k) \/ ValidatorExits(k) \/ IndexKey(k)

LEMMA EnvironmentStep ==
    ASSUME IInv, Environment
    PROVE  /\ TypeOK'
           /\ DOMAIN keyOwner \subseteq DOMAIN keyOwner'
           /\ \A x \in DOMAIN keyOwner : keyOwner'[x] = keyOwner[x]
           /\ ExitedSince(cl, cl')
           /\ kac \subseteq kac'
           /\ UNCHANGED <<ref, recordedExited>>
<1> USE DEF IInv, TypeOK, ExitedSince
<1>1. CASE \E m \in Modules : AddStakingModule(m)
    BY <1>1 DEF AddStakingModule
<1>2. CASE \E o \in GlobalIndexes : AddNodeOperator(o)
    BY <1>2 DEF AddNodeOperator, GlobalIndexes
<1>3. CASE \E k \in Pubkeys, o \in GlobalIndexes : UploadKey(k, o)
    BY <1>3 DEF UploadKey
<1>4. CASE \E k \in Pubkeys : Deposit(k)
    BY <1>4 DEF Deposit, ClStatus
<1>5. CASE \E k \in Pubkeys : ValidatorExits(k)
    BY <1>5 DEF ValidatorExits, ClStatus
<1>6. CASE \E k \in Pubkeys : IndexKey(k)
    BY <1>6 DEF IndexKey
<1>. QED
    BY <1>1, <1>2, <1>3, <1>4, <1>5, <1>6 DEF Environment

LEMMA NextIInv == IInv /\ [Next]_vars => IInv'
<1> SUFFICES ASSUME IInv, [Next]_vars PROVE IInv'
    OBVIOUS
<1>1. CASE Environment
  <2>1. /\ TypeOK'
        /\ DOMAIN keyOwner \subseteq DOMAIN keyOwner'
        /\ \A x \in DOMAIN keyOwner : keyOwner'[x] = keyOwner[x]
        /\ ExitedSince(cl, cl')
        /\ kac \subseteq kac'
        /\ UNCHANGED <<ref, recordedExited>>
    BY <1>1, EnvironmentStep
  <2>2. ref' # NoRef => ExitedSince(ref'.cl, cl')
    BY <2>1 DEF IInv, ExitedSince
  <2>3. ExitedNeverExceedsChain'
    <3> SUFFICES ASSUME NEW o \in GlobalIndexes
                 PROVE  recordedExited'[o] <= ChainExited(o)'
      BY DEF ExitedNeverExceedsChain
    <3>1. ChainExited(o) <= ChainExited(o)'
      BY <2>1, StepExitedKeys DEF IInv
    <3>2. ChainExited(o) \in Nat /\ ChainExited(o)' \in Nat
      BY <2>1, KeySetCardinality DEF IInv, TypeOK, ChainExited
    <3>3. recordedExited[o] <= ChainExited(o) /\ recordedExited[o] \in Nat
      BY DEF IInv, ExitedNeverExceedsChain, TypeOK
    <3>. QED
      BY <2>1, <3>1, <3>2, <3>3
  <2>4. ASSUME ~KacMayLag, NEW o \in GlobalIndexes
        PROVE  /\ recordedExited'[o] <= Cardinality(ExitedKeys(kac', keyOwner', cl', o))
               /\ ref' # NoRef =>
                    recordedExited'[o] <= Cardinality(ExitedKeys(kac', keyOwner', ref'.cl, o))
    <3>1. /\ Cardinality(ExitedKeys(kac, keyOwner, cl, o))
               <= Cardinality(ExitedKeys(kac', keyOwner', cl', o))
          /\ Cardinality(ExitedKeys(kac, keyOwner, ref.cl, o))
               <= Cardinality(ExitedKeys(kac', keyOwner', ref.cl, o))
      BY <2>1, StepExitedKeys DEF IInv
    <3>2. recordedExited[o] \in Nat
      BY DEF IInv, TypeOK
    <3>3. /\ Cardinality(ExitedKeys(kac, keyOwner, cl, o)) \in Nat
          /\ Cardinality(ExitedKeys(kac, keyOwner, ref.cl, o)) \in Nat
          /\ Cardinality(ExitedKeys(kac', keyOwner', cl', o)) \in Nat
          /\ Cardinality(ExitedKeys(kac', keyOwner', ref.cl, o)) \in Nat
      BY <2>1, KeySetCardinality DEF IInv, TypeOK, ExitedKeys
    <3>. QED
      BY <2>4, <2>1, <3>1, <3>2, <3>3 DEF IInv
  <2>. QED
    BY <2>1, <2>2, <2>3, <2>4 DEF IInv
<1>2. CASE TakeRefBlock
  <2>1. ref' \in RefRec
    BY <1>2 DEF TakeRefBlock, ClAtRefBlock, IInv, TypeOK, RefRec, GlobalIndexes
  <2>2. ref' # NoRef /\ ref'.recorded = recordedExited' /\ ref'.cl = cl'
    BY <1>2 DEF TakeRefBlock, ClAtRefBlock, NoRef
  <2>3. ExitedSince(cl', cl')
    BY DEF ExitedSince
  <2>. QED
    BY <1>2, <2>1, <2>2, <2>3
       DEF TakeRefBlock, ClAtRefBlock, IInv, TypeOK, ExitedNeverExceedsChain, ChainExited
<1>3. CASE ReportExited
  <2> DEFINE counts == ExitedByOperator(GroupByNodeOperators(kac, ref), ref)
             newly == NewlyExited(counts, ref)
  <2>1. ref \in RefRec /\ ref # NoRef
    BY <1>3 DEF ReportExited, IInv
  <2>2. recordedExited' = [o \in GlobalIndexes |->
                             IF o \in DOMAIN newly THEN newly[o] ELSE recordedExited[o]]
    BY <1>3 DEF ReportExited
  <2>3. DOMAIN newly \subseteq ref.operators
    BY DEF NewlyExited, ExitedByOperator, GroupByNodeOperators
  <2>4. \A o \in DOMAIN newly :
          newly[o] = Cardinality(ExitedKeys(kac, keyOwner, ref.cl, o))
    <3> TAKE o \in DOMAIN newly
    <3>1. newly[o] = counts[o]
      BY DEF NewlyExited
    <3>. QED
      BY <2>1, <2>3, <3>1, ExitedByOperatorIs
  <2>5. \A o \in GlobalIndexes :
          /\ Cardinality(ExitedKeys(kac, keyOwner, ref.cl, o)) \in Nat
          /\ Cardinality(ExitedKeys(kac, keyOwner, ref.cl, o)) <= ChainExited(o)
          /\ Cardinality(ExitedKeys(kac, keyOwner, ref.cl, o))
               <= Cardinality(ExitedKeys(kac, keyOwner, cl, o))
    <3> TAKE o \in GlobalIndexes
    <3>1. IsFiniteSet(DOMAIN keyOwner) /\ IsFiniteSet(kac)
      BY KeySetCardinality DEF IInv, TypeOK
    <3>2. \A x \in kac : ref.cl[x] = "exited" => cl[x] = "exited"
      BY <2>1 DEF IInv, TypeOK, ExitedSince
    <3>3. kac \subseteq DOMAIN keyOwner
      BY DEF IInv, TypeOK
    <3>4. Cardinality(ExitedKeys(kac, keyOwner, ref.cl, o))
            <= Cardinality(ExitedKeys(DOMAIN keyOwner, keyOwner, cl, o))
      BY <3>1, <3>2, <3>3, ExitedKeysMonotone
    <3>5. Cardinality(ExitedKeys(kac, keyOwner, ref.cl, o))
            <= Cardinality(ExitedKeys(kac, keyOwner, cl, o))
      BY <3>1, <3>2, ExitedKeysMonotone
    <3>6. Cardinality(ExitedKeys(kac, keyOwner, ref.cl, o)) \in Nat
      BY <3>1, <3>3, KeySetCardinality DEF IInv, TypeOK, ExitedKeys
    <3>. QED
      BY <3>4, <3>5, <3>6, ChainExitedIs
  <2>6. TypeOK'
    BY <1>3, <2>2, <2>4, <2>5 DEF ReportExited, IInv, TypeOK
  <2>7. ExitedNeverExceedsChain'
    BY <1>3, <2>2, <2>4, <2>5 DEF ReportExited, IInv, ExitedNeverExceedsChain, ChainExited
  <2>8. ~KacMayLag =>
          \A o \in GlobalIndexes :
             recordedExited'[o] <= Cardinality(ExitedKeys(kac', keyOwner', cl', o))
    BY <1>3, <2>2, <2>4, <2>5 DEF ReportExited, IInv
  <2>. QED
    BY <1>3, <2>6, <2>7, <2>8 DEF ReportExited, IInv
<1>4. CASE ReportExitedFails
    BY <1>4 DEF ReportExitedFails, IInv, TypeOK, ExitedNeverExceedsChain, ChainExited
<1>5. CASE \E keys \in SUBSET kac : KacFailover(keys)
    BY <1>5 DEF KacFailover, IInv, TypeOK, ExitedNeverExceedsChain, ChainExited
<1>6. CASE UNCHANGED vars
    BY <1>6 DEF vars, IInv, TypeOK, ExitedNeverExceedsChain, ChainExited, ExitedSince
<1>. QED
    BY <1>1, <1>2, <1>3, <1>4, <1>5, <1>6 DEF Next, Environment

\* A report leaves an operator's count as it is or sets it to the number of
\* exited validators among the keys served, as of the reference block.
LEMMA ReportedCount ==
    ASSUME IInv, ReportExited, NEW o \in GlobalIndexes
    PROVE  \/ recordedExited'[o] = recordedExited[o]
           \/ recordedExited'[o] = Cardinality(ExitedKeys(kac, keyOwner, ref.cl, o))
<1> DEFINE counts == ExitedByOperator(GroupByNodeOperators(kac, ref), ref)
           newly == NewlyExited(counts, ref)
<1>1. ref \in RefRec
    BY DEF ReportExited, IInv
<1>2. recordedExited'[o] = IF o \in DOMAIN newly THEN newly[o] ELSE recordedExited[o]
    BY DEF ReportExited
<1>3. CASE o \in DOMAIN newly
  <2>1. o \in ref.operators /\ newly[o] = counts[o]
    BY <1>3 DEF NewlyExited, ExitedByOperator, GroupByNodeOperators
  <2>. QED
    BY <1>1, <1>2, <1>3, <2>1, ExitedByOperatorIs
<1>. QED
    BY <1>2, <1>3

\* With no lagging host, no step lowers a recorded count.
LEMMA NextNeverDecreases ==
    ASSUME IInv, ~KacMayLag, [Next]_vars
    PROVE  \A o \in GlobalIndexes : recordedExited'[o] >= recordedExited[o]
<1> SUFFICES ASSUME NEW o \in GlobalIndexes
             PROVE  recordedExited'[o] >= recordedExited[o]
    OBVIOUS
<1>1. recordedExited[o] \in Nat
    BY DEF IInv, TypeOK
<1>2. CASE ReportExited
  <2>1. ref # NoRef /\ ref \in RefRec
    BY <1>2 DEF ReportExited, IInv
  <2>2. recordedExited[o] <= Cardinality(ExitedKeys(kac, keyOwner, ref.cl, o))
    BY <2>1 DEF IInv
  <2>3. Cardinality(ExitedKeys(kac, keyOwner, ref.cl, o)) \in Nat
    BY KeySetCardinality DEF IInv, TypeOK, ExitedKeys
  <2>. QED
    BY <1>1, <1>2, <2>2, <2>3, ReportedCount
<1>3. CASE \E keys \in SUBSET kac : KacFailover(keys)
    BY <1>3 DEF KacFailover
<1>4. CASE Environment
    BY <1>1, <1>4, EnvironmentStep
<1>5. CASE TakeRefBlock \/ ReportExitedFails \/ UNCHANGED vars
    BY <1>1, <1>5 DEF TakeRefBlock, ClAtRefBlock, ReportExitedFails, vars
<1>. QED
    BY <1>2, <1>3, <1>4, <1>5 DEF Next, Environment

-----------------------------------------------------------------------------
(* The theorems.                                                            *)

(* The router never records more exited validators for an operator than    *)
(* have exited among its keys (ExitedNeverExceedsChain, the grouping of    *)
(* get_lido_validators_by_node_operators and the count of                   *)
(* get_exited_catalist_validators), for any modules, operators and keys,    *)
(* with or without a lagging keys API host.                                 *)
THEOREM ExitedNeverExceedsChainHolds == Spec => []ExitedNeverExceedsChain
<1>1. Init => IInv
    BY InitIInv
<1>2. IInv /\ [Next]_vars => IInv'
    BY NextIInv
<1>3. IInv => ExitedNeverExceedsChain
    BY DEF IInv
<1>. QED
    BY <1>1, <1>2, <1>3, PTL DEF Spec

(* Every reachable state is well typed (TypeOK): the router's operators     *)
(* belong to registered modules, every uploaded key is owned by a           *)
(* registered operator, the keys API serves only uploaded keys, and the     *)
(* recorded counts are natural numbers.                                     *)
THEOREM RegistryTypeCorrect == Spec => []TypeOK
<1>1. IInv => TypeOK
    BY DEF IInv
<1>. QED
    BY <1>1, InitIInv, NextIInv, PTL DEF Spec

(* When the keys API never answers from a lagging host, no report lowers    *)
(* an operator's exited count on chain (ExitedNeverDecreases): the only     *)
(* skip in get_catalist_newly_exited_validators is for equal counts, and    *)
(* the keys served and the exits seen only grow.                            *)
THEOREM ExitedNeverDecreasesHolds ==
    ASSUME ~KacMayLag
    PROVE  Spec => ExitedNeverDecreases
<1>1. IInv /\ [Next]_vars
        => [\A o \in GlobalIndexes : recordedExited'[o] >= recordedExited[o]]_vars
    BY NextNeverDecreases
<1>. QED
    BY <1>1, InitIInv, NextIInv, PTL DEF Spec, ExitedNeverDecreases

====
