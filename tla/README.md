# TLA+ models of the Catalist oracle's validator-state engine

This directory holds TLA+ models of the validator-state engine in
`src/src/services/validator_state.py`. That engine is the part of the oracle
that decides, for each node operator:

- how many of its validators are newly **stuck** and newly **exited** (these
  counts go into the accounting report's extra data);
- which of its validators were **recently requested to exit but have not
  exited**;
- how many of its validators are **delayed**.

The directory also holds the TLC configurations that check these models and
the TLAPS proofs about them.

## The system and how its parts interact

All of the engine's inputs are read from one reference block:

- **Validators provider** (`src/src/web3py/extensions/lido_validators.py`):
  merges the consensus-layer validators with the protocol's keys. It then groups
  them by global node operator index, and every operator appears, even one with
  no validators.
- **Exit bus state**: for every operator, the index of the last validator the
  ejector asked to exit (`getLastRequestedValidatorIndices`), and the
  `ValidatorExitRequest` events of a trailing window of slots
  (`get_events_in_past`).
- **Daemon config**: two timeouts, read per block.
  - `VALIDATOR_DELINQUENT_TIMEOUT_IN_SLOTS` is the window for "stuck".
  - `VALIDATOR_DELAYED_TIMEOUT_IN_SLOTS` is the window for "delayed".
- **Staking router**: the stuck and exited counts recorded for each operator.
  These are the values the previous reports set.

From these inputs the engine computes its results:

- **Classifier** (`get_catalist_newly_stuck_validators`,
  `get_catalist_newly_exited_validators`). A validator is stuck when all four of
  these hold:
  - its index is at most the last requested index;
  - its exit epoch is far future;
  - its key is not among the recent events;
  - `(activation_epoch + SHARD_COMMITTEE_PERIOD) * slots_per_epoch + delinquent_timeout < ref_slot`.

  Only operators whose new count differs from the recorded count are reported.
  `get_extra_data` packs both maps into the extra data.
- **Detector** (`get_recently_requested_but_not_exited_validators`). It splits
  the requested, non-exiting validators:
  - *recently requested* means the index is in the delayed-window events, or the
    validator is not eligible to exit at `ref_epoch - delayed_timeout // slots_per_epoch`;
  - *delayed* means requested, not exiting and not in the window. Delayed
    validators are counted into a gauge.

The classifier relies on the last requested index meaning "every validator up
to here was asked to exit". That holds because of the ejector, which asks each
operator's exitable validators to exit in ascending index order. The ejector is
not in this repository, but the model includes it: without it, the index means
nothing.

## Modules

| Module | Models |
|---|---|
| `CatalistOracle.tla` | The chain as the engine sees it, the ejector's exit requests, the engine's computations, and the application of its report. |
| `MC_CatalistOracle.tla` | Two operators as model values, three validators with their owners and activation epochs. |
| `CatalistOracleProofs.tla` | The TLAPS proofs about `CatalistOracle`. |
| `ServiceCache.tla`, `MC_ServiceCache.tla` | The `lru_cache(maxsize=1)` entries of the two exited-count functions, over a heap of dict objects. |
| `ServiceCacheProofs.tla` | The TLAPS proofs about `ServiceCache`. |
| `ValidatorRegistry.tla`, `MC_ValidatorRegistry.tla` | The validators provider (key merge, router operators, grouping) composed with the exited count, its delta and its application, against a chain and a keys API that change between frames. |
| `ValidatorRegistryProofs.tla` | The TLAPS proofs about `ValidatorRegistry`. |

### State of `CatalistOracle`

The state is chain state:

- `slot` is the reference slot; `refEpoch` is `slot \div SlotsPerEpoch`.
- `exitEpoch[v]` is `FarFutureEpoch` until the validator starts exiting.
- `lastRequested[op]` is the exit bus's last requested index, and -1 before any
  request.
- `exitRequests` is the set of `ValidatorExitRequest` events, as records with
  `index`, `op` and `slot`. The pubkey is identified with the index.
- `recordedStuck[op]` and `recordedExited[op]` are the staking router's counts.
- `lastAppliedRefSlot` is the reference slot of the last report applied.
- `report` is the extra data the oracle last built.

Owners and activation epochs are constants. The registry does not change
during the behaviours the properties are about, and making them constants keeps
the state space small.

### Operators and actions

The engine's functions are operators on the state. The line ranges are in
`PROJECT.json`'s `map`.

| TLA+ | Code |
|---|---|
| `IsStuck`, `StuckCount`, `DeltaOnly`, `GetCatalistNewlyStuckValidators` | `sum_stuck_validators`, lines 57-104 |
| `ExitedCount`, `GetCatalistNewlyExitedValidators` | lines 144-172 |
| `GetLastRequestedToExitPubkeys`, `RecentIndexes` | lines 106-118 and 253-279 |
| `ValidatorRequestedToExit` … `IsValidatorDelayed`, `RecentlyRequestedButNotExited`, `DelayedCount` | lines 188-251 |
| `ValidatorsOf`, `Validators` | `lido_validators.py` lines 77-129 |

The predicate library (`is_active_validator`, `is_on_exit`,
`is_validator_eligible_to_exit`) and `get_events_in_past` are not in the
repository. They are modelled from the spec. Eligibility includes
`activation_epoch + SHARD_COMMITTEE_PERIOD <= epoch`, as
`test_is_validator_eligible_to_exit` shows.

The actions, all in `Next`, are:

- `GetExtraData` models the whole of `get_extra_data`: it builds both delta maps
  at the current slot. The encoding and splitting into items done by
  `ExtraDataService.collect` is left out.
- `Tick` advances the reference slot.
- `RequestExit(op)` is the ejector plus the exit bus: it requests the lowest
  exitable validator of `op`, and records `lastRequested` and an event.
- `InitiateExit(v)` models a validator that is eligible at the current epoch
  starting its exit, with `exit_epoch = refEpoch + ExitDelay`.
- `ApplyReport` models the accounting contract applying a report newer than the
  last one applied. It sets the recorded count of every operator the report
  names.

The metric gauges, logging and the returned validator list are observability,
so they are not state. The list is the operator `RecentlyRequestedButNotExited`.

## Runs

`MC_CatalistOracle.cfg` uses two operators (o1 owns validators 0 and 1, o2 owns
validator 2) and these constants:

- activation epochs 0, 1, 0;
- SlotsPerEpoch 2;
- ShardCommitteePeriod 0;
- delinquent timeout 2 slots;
- delayed timeout 4 slots;
- exit delay 1 epoch;
- slots up to 6.

| Run | cfg | Expect | Shows |
|---|---|---|---|
| `classifier` | `MC_CatalistOracle.cfg` | pass | The four invariants below hold over 1,415,416 states (about 2 minutes). |
| `recent_and_delayed` | `MC_CatalistOracle_disjoint.cfg` | violation | `RecentAndDelayedDisjoint` fails: see finding 1. |
| `delayed_rounding` | `MC_CatalistOracle_rounding.cfg` | violation | The same constants with a delayed timeout of 3. `ReturnedBeforeAvailabilityDeadline` fails: see finding 2. |
| `recent_request_epoch` | `MC_CatalistOracle_requestepoch.cfg` | violation | The main constants. `RecentlyRequestedMeansBeforeDeadline`, the docstring's whole deadline, fails: see finding 5. |
| `stuck_liveness` | `MC_CatalistOracle_live.cfg` | pass | `StuckEventuallyReported` under `FairSpec`, with one operator owning two validators (44,925 states). |
| `service_cache` | `MC_ServiceCache.cfg` | pass | `ReturnedValuesStable` over 1,013 states. |
| `registry` | `MC_ValidatorRegistry.cfg` | pass | `TypeOK` and `ExitedNeverExceedsChain` with lagging keys API hosts allowed (164,945 states). |
| `registry_liveness` | `MC_ValidatorRegistry_live.cfg` | pass | `ExitedNeverDecreases` and `ExitedEventuallyRecorded` under `FairSpec`, with no lagging host (153,413 states). |
| `registry_lagging_host` | `MC_ValidatorRegistry_lag.cfg` | violation | `ExitedNeverDecreases` fails when a lagging host answers: see finding 4. |
| `registry_unknown_module` | `MC_ValidatorRegistry_keyerror.cfg` | violation | `GroupingNeverFails` fails: see finding 3. |

### Why these bounds are enough

- Slots 0..6 reach both timeouts twice over (2 and 4 slots).
- One operator has two validators with different activation epochs. So an
  operator holds a validator that is already eligible next to one that is not,
  one already exiting next to one that is still requested, and one requested
  inside the windows next to one requested outside them.
- A second operator makes requests interleave across operators, and lets a
  report name one operator and omit the other.
- Reports are built and applied at any slot, in any order with the other
  actions.

### Invariants of the passing run

- `TypeOK`.
- `StuckCountMatchesRequests`. The stuck count equals the number of the
  operator's validators that meet all three of these conditions:
  - requested at least the delinquent timeout ago;
  - not exiting;
  - past the availability deadline.

  This definition uses only the request history, so it checks the index proxy
  and the event-window proxy of `sum_stuck_validators` against it.
- `DelayedCountMatchesRequests`. The same check for the delayed gauge.
- `ReturnedBeforeAvailabilityDeadline`. The docstring deadline of
  `get_recently_requested_but_not_exited_validators` is
  `max(activation + SCP, request epoch) * spe + delayed_timeout`. So a
  validator asked to exit and not exiting must still be returned at every slot
  before `(activation + SCP) * spe + delayed_timeout`, whenever it was
  requested. The code gets this half from the eligibility test at
  `ref_epoch - delayed_timeout // spe` (line 219). It holds here because 4 is
  a multiple of 2, and the `delayed_rounding` run shows that it fails
  otherwise.

The request half of the same docstring is `RecentlyRequestedMeansBeforeDeadline`
(returned exactly when asked to exit, not exiting and before
`DelayedDeadlineSlot`). The code does not satisfy it; see finding 5.

Each invariant has a mutant in `PROJECT.json` that a plausible bug would
produce, and TLC detects each of them:

- a `<` for `<=` on the requested index;
- a delta map with differences instead of counts;
- eligibility tested at the reference epoch, without subtracting the timeout;
- the exit check dropped from `is_validator_delayed`.

Deadlock is checked. `GetExtraData` is always enabled, as the oracle can always
build a report.

## Liveness and the fairness it rests on

The daemon runs one cycle per frame: it advances to a new reference slot,
builds the report and submits it, and the accounting contract applies it.
`FairSpec` therefore puts weak fairness on `Tick`, `GetExtraData` and
`ApplyReport`. Exit requests and validators starting to exit are decided
outside the oracle, so they get no fairness.

`StuckEventuallyReported`: whenever `n` validators of an operator are stuck,
the operator's recorded `stuck_validators_count` eventually reaches `n`, unless
fewer than `n` are stuck by then (one of them started exiting). The property is
stated per count, not per validator, because the chain records only a count: a
report for one stuck validator does not report a second one. What could go
wrong is the delta rule at lines 97-102. If it compared against the wrong
recorded value, it could drop a count the chain has not recorded, and the
operator would never be penalised. The mutant that compares the stuck counts
with the recorded *exited* counts does exactly this, and TLC finds the
resulting lasso.

The run uses one operator with two validators and activation epochs 0 and 1.
Liveness over the main instance explores more than three million temporal
states; the smaller instance still has one validator eligible before the other,
so the count rises in two steps. With a delinquent timeout of 0 the property
could fail at the slot bound, which is why the instance keeps the timeout at 2.

## Memoization (`ServiceCache`)

`get_exited_catalist_validators` and `get_catalist_newly_exited_validators`
are each wrapped in `lru_cache(maxsize=1)`. Both return dicts. The model keeps:

- `heap`: the dict objects;
- the two cache entries, each a blockstamp and a reference;
- `returned`: every result handed to a caller.

On a miss the outer function takes the inner (cached) dict, deep-copies it to
a new object, deletes the operators whose count did not change, and caches the
copy. `GetCatalistNewlyExitedValidatorsFails` models a failure at line 147:
the inner result stays cached and the outer one does not.

`ReturnedValuesStable`: every dict any caller received still equals what the
function computes fresh for that block. Without the `deepcopy` (the mutant
`GetCatalistNewlyExitedValidatorsMutantNoCopy`), a later call of
`get_exited_catalist_validators` on the same block returns the stripped dict.

The instance has two operators and two blocks. On block b1, operator o2's
count equals the recorded one, so a deletion happens. At most 5 calls are
made. There is no deadlock check, because the calls are bounded.

## The validators provider (`ValidatorRegistry`)

The service reaches the provider as `w3.catalist_validators`; the in-repository
`lido_validators.py` is that provider. A frame reads the router's operators,
the consensus-layer validators and the recorded exited counts at a reference
block (`TakeRefBlock`, standing for `get_lido_node_operators` and
`get_staking_modules`), and then the keys API. The keys API is an off-chain
indexer, so it may serve keys uploaded after the reference block, and with
`KacMayLag`, a host that has indexed fewer keys may answer (`KacFailover`).
Anyone may deposit to any key, so a validator may exist before its key is
uploaded. Keys are unique (the key registry maps a key to one operator).

The whole frame is one action:

- `ReportExited` merges the keys with the validators
  (`MergeValidatorsWithKeys`) and groups them by router operator
  (`GroupByNodeOperators`). A key whose operator is unknown is skipped, as the
  warning path at line 121 does. The action then counts the exited validators
  (`ExitedByOperator`), keeps the counts that differ (`NewlyExited`), and
  applies them.
- `ReportExitedFails` is the KeyError at line 117 (`ModuleKnown` false). The
  frame reports nothing and the next cycle starts over.

The report and its application are one step here. `CatalistOracle` models
them as two.

Properties:

- `ExitedNeverExceedsChain`: no recorded exited count exceeds the exited
  validators among the operator's keys. It holds with lagging hosts too.
- `ExitedNeverDecreases`: no report lowers a recorded count. It holds when no
  host lags, and fails when one does (finding 4).
- `ExitedEventuallyRecorded`: once n validators of an operator have exited,
  at least n are eventually recorded. `FairSpec` puts weak fairness on the
  daemon's frame (`TakeRefBlock`, `ReportExited`, `ReportExitedFails`) and on
  the keys API indexing each uploaded key. A frame can fail only while a key's
  module had no operator at its reference block, and the next reference block
  has one.
- `GroupingNeverFails` (violation run): finding 3.

The instance has two modules, operator ids 0 and 1, and two keys. That is
enough for a front-run deposit on one key while the other key is uploaded
normally, for a second module, and for operators with no keys.

## Findings

1. **A validator can be both "recently requested" and "delayed"**
   (`validator_state.py:237`). `is_validator_delayed` omits the eligibility
   test that `is_validator_recently_requested_but_not_exited` applies at lines
   232-233. Spec §4.5 says each such validator is exactly one of the two.

   TLC's trace:
   - validators 0 and 1 of o1 are requested at slot 1;
   - at slot 5, validator 1 (activation epoch 1) is outside the 4-slot window,
     but not eligible at epoch 2 − 2 = 0;
   - so it is returned *and* counted in the delayed gauge.
2. **Floor division shortens the delayed grace period**
   (`validator_state.py:219`). With a timeout of 3 slots and 2 slots per epoch,
   validator 1 (activation epoch 1, requested at slot 1) has docstring deadline
   5. At slot 4 the code tests eligibility at epoch 2 − 1 = 1 and drops it from
   the list. The problem arises whenever the timeout is not a multiple of
   `slots_per_epoch`.

3. **Unknown module raises where unknown operator warns**
   (`lido_validators.py:117`). The grouping skips a validator whose operator
   the router lacks at the reference block, with a warning (lines 121-127).
   But a validator whose module has no operator there fails earlier, with
   KeyError in `staking_module_address`, and the frame's report is lost.

   TLC's trace:
   - module m1 is added to the router, with no operator yet;
   - someone deposits to key k1;
   - a frame takes its reference block;
   - module m1 gets its first operator, who uploads k1;
   - the keys API indexes k1;
   - the frame merges k1 and fails at the module lookup.
4. **A lagging keys API host lowers recorded exited counts**
   (`validator_state.py:153`). Only equal counts are dropped from the report.
   A frame served by a host that has indexed fewer keys than an earlier frame
   saw reports a lower exited count as it is. Spec §9 leaves this case open.
5. **The request half of the delayed deadline uses the request slot, not its
   epoch** (`validator_state.py:261`). The docstring (lines 193-201) gives the
   deadline as `max(activation + SCP, epoch of the request) * slots_per_epoch +
   timeout`. The code keeps a validator while its request event is inside the
   last `timeout` slots, which is `request slot + timeout`.

   TLC's trace (main constants, timeout 4): a validator is requested at
   slot 1 (epoch 0), so the docstring deadline is 4. At slot 4 the code still
   returns it. A validator requested in the middle of an epoch is returned up
   to `slots_per_epoch - 1` slots past the documented deadline.

## Proofs (`CatalistOracleProofs.tla`, checked by `tlapm`)

The only assumption is `ConstantsAssumption`:

- the sizes and timeouts are naturals;
- `SlotsPerEpoch > 0`;
- `FarFutureEpoch` exceeds every exit epoch the model can set;
- `Owner` and `ActivationEpoch` are functions of the right types.

| Theorem | Statement |
|---|---|
| `TypeCorrect` | `Spec => []TypeOK` |
| `StuckCountCorrect` | `Spec => []StuckCountMatchesRequests` |
| `DelayedCountCorrect` | `Spec => []DelayedCountMatchesRequests` |
| `ReturnedBeforeAvailabilityDeadlineHolds` | `DelayedTimeoutInSlots % SlotsPerEpoch = 0` implies `Spec => []ReturnedBeforeAvailabilityDeadline` |

How the proofs go:

- The proofs rest on the invariant `RequestsOrdered`, defined in the proofs
  module:
  - every event belongs to its validator's operator and is at or below that
    operator's last requested index;
  - no validator is requested twice;
  - every non-exiting validator at or below the index was requested.

  This is what lets the code read "requested" off an index. It is inductive
  together with `TypeOK`. `NextRequestsOrdered`
  has one case per action:
  - `RequestExit` picks the minimal exitable validator. Every validator between
    the old and the new index is therefore either already exiting or (by
    minimality) was requested earlier.
  - `InitiateExit` only moves validators out of the third conjunct's
    hypothesis.
  - The other actions change neither requests nor exits.
- Neither count is inductive as it stands, but neither needs to be. Lemmas
  `IsStuckByHistory` and `IsDelayedByHistory` show, in any state satisfying
  `TypeOK /\ RequestsOrdered`, that the code's per-validator test equals the
  history-based one. `RequestedByIndex` (an event exists for a requested index,
  and it is unique) turns "key not in the recent events" into "the one request
  for it is at least the timeout old". The count equalities then follow as set
  equalities, and the theorems combine them with the two invariants by PTL.

The proofs are for every value of the constants: any number of operators and
validators, any owners and activation epochs, any timeouts.

- `ReturnedBeforeAvailabilityDeadlineHolds` takes- `RecentlyRequestedMeansBeforeDeadlineHolds` takes as its hypothesis that
  the delayed timeout is a whole number of epochs. This is the exact
  condition: the `delayed_rounding` run (timeout 3, two slots per epoch)
  violates the invariant. `RecentlyRequestedByHistory` proves that, from
  `TypeOK /\ RequestsOrdered`, the code returns a validator exactly when it was
  requested, is not exiting, and the slot is before either its availability
  deadline or its request slot plus the timeout. The theorem uses the first
  disjunct. The lemma has three parts:
  - "recent" is "the one request is less than the timeout old";
  - a non-exiting validator is eligible at `refEpoch - k` exactly when its
    availability epoch `A` is at most `refEpoch - k`, because
    `FarFutureEpoch` exceeds every epoch;
  - with `D = k * SlotsPerEpoch`, `A <= slot \div SlotsPerEpoch - k` is
    `A * SlotsPerEpoch + D <= slot` (`MultipleBelowIffQuotient`).

  The floor division of line 219 is exact only when the timeout is a
  multiple of the epoch length, which is where the hypothesis is used.

## Proofs (`ValidatorRegistryProofs.tla`)

The assumption is `RegistryAssumption`: `Pubkeys` is finite and `KacMayLag` is
Boolean.

| Theorem | Statement |
|---|---|
| `RegistryTypeCorrect` | `Spec => []TypeOK` |
| `ExitedNeverExceedsChainHolds` | `Spec => []ExitedNeverExceedsChain` |
| `ExitedNeverDecreasesHolds` | `~KacMayLag` implies `Spec => ExitedNeverDecreases` |

The inductive invariant `IInv` adds three facts to `TypeOK`:

- a frame's reference block holds the recorded counts as they are now (only a
  report changes them);
- no exit the frame saw is undone;
- without lag, each recorded count is at most the number of exited keys the
  keys API serves, both now and as of the frame's reference block.

The last fact is what makes `ExitedNeverDecreases` provable. A report sets a
count to the exited keys served as of the reference block
(`ExitedByOperatorIs`, `ReportedCount`), which is at least the recorded count.
The one counting lemma, `ExitedKeysMonotone` (more keys, the same owners and
no exit undone gives no fewer exited keys, by `FS_Subset`), gives every bound
the step cases need.

## Proofs (`ServiceCacheProofs.tla`)

The assumption is `CacheAssumption`: `MaxCalls` is a natural number, and the
two count tables are functions from blocks to operator counts.

| Theorem | Statement |
|---|---|
| `ReturnedValuesStableHolds` | `Spec => []ReturnedValuesStable` |

`ReturnedValuesStable` is not inductive by itself. A step could write over an
object that no caller holds yet, but that a cache entry will hand out later.
The inductive invariant `CacheInv` therefore adds to `TypeOK`:

- both cache entries point into the heap, at the fresh value for their block;
- `nextRef <= 2 * calls + 1`, which keeps every allocation inside `Refs`.

`ExitedCallFacts` describes one inner call, hit or miss. The heap keeps every
old object and grows by at most one new one, and the ref handed out holds the
fresh exited dict. `DeleteFresh` shows that the deletions, applied to a fresh
copy of that dict, give the fresh newly-exited dict. `OldRefsKept` shows that
a step which keeps every old object keeps every entry and every returned
result correct. The deepcopy is what lets the miss case of
`GetCatalistNewlyExitedValidators` use `OldRefsKept`: the deletions touch only
the new object.

## What stays with TLC

- The liveness properties `StuckEventuallyReported` and
  `ExitedEventuallyRecorded`. Their proofs need `ENABLED` and fairness, which
  the provers cannot handle.
- The five violation runs. Each property they check is false in the code,
  so there is nothing to prove:
  - `GroupingNeverFails`;
  - `RecentAndDelayedDisjoint`;
  - `ExitedNeverDecreases` with a lagging keys API host;
  - `ReturnedBeforeAvailabilityDeadline` with a timeout that is not a
    multiple of the epoch length;
  - `RecentlyRequestedMeansBeforeDeadline`, the docstring's request half.

## Not modelled, and the plan for later sittings

- **Exit-order statistics**: `count_operator_validators_stats`,
  `count_operator_delayed_validators`, the exitable list as a sequence,
  `get_total_predictable_validators_count` with overrides, and the penetration
  threshold. Their module is not in the repository. The plan is to model them
  from the spec, with a recursive fold checked against a reference definition
  in a TLC-only module.
- **Balance aggregator**: a sum with a floor, not in the repository.
- **Key order** within a group. No count depends on it. The exitable list's
  order would, and it belongs with the exit-order statistics.
- **Reports against stale recorded counts**: this cannot happen in the model,
  and it is not listed as a hazard. The oracle keeps a single report, and the
  contract applies a report only if its reference slot is newer than the last
  one applied. A report built before another was applied therefore cannot be
  applied after it. Races between two oracle instances, where the quorum picks
  the report, are outside this code.
- **Not modelled**:
  - the event window's conversion through `seconds_per_slot`, which is done in
    `get_events_in_past` and that code is not in the repository;
  - oracle report limits and extra-data encoding, which are I/O and encoding;
  - the legacy `web3_extentions` provider, which nothing modelled here uses.
