---------------------------- MODULE ServiceCache ----------------------------
(***************************************************************************)
(* The single-entry memoization of CatalistValidatorStateService           *)
(* (src/src/services/validator_state.py) around the exited-validator       *)
(* counts: get_exited_catalist_validators and                              *)
(* get_catalist_newly_exited_validators, each wrapped in                   *)
(* lru_cache(maxsize=1).  Results are Python dicts, so the model keeps a    *)
(* heap of dict objects and a cache entry holds a reference: a cached       *)
(* result is the very object an earlier caller received.  The chain state   *)
(* of every block is fixed (a reference block is immutable), so a correct   *)
(* cache is invisible: whatever a call returns equals a fresh computation.  *)
(***************************************************************************)
EXTENDS Naturals, FiniteSets

CONSTANTS
    Operators,     \* global node operator indexes
    Blocks,        \* reference blockstamps a caller may pass
    ExitedAt,      \* block -> operator -> exited validators (is_exited_validator)
    RecordedAt,    \* block -> operator -> total_exited_validators on chain
    MaxCalls       \* bound on the number of calls, hence on allocated dicts

ASSUME CacheAssumption ==
    /\ MaxCalls \in Nat
    /\ ExitedAt \in [Blocks -> [Operators -> Nat]]
    /\ RecordedAt \in [Blocks -> [Operators -> Nat]]

\* Every call allocates at most two dicts: the reduce result and its copy.
Refs == 1 .. 2 * MaxCalls
NoEntry == [key |-> "none"]

VARIABLES
    heap,          \* ref -> contents of the dict object (operator -> count)
    nextRef,       \* next free object reference
    cacheExited,   \* lru entry of get_exited_catalist_validators
    cacheNewly,    \* lru entry of get_catalist_newly_exited_validators
    returned,      \* the results handed to callers: [fn, block, ref]
    calls          \* calls made so far

vars == <<heap, nextRef, cacheExited, cacheNewly, returned, calls>>

\* A dict keyed by operator indexes, with counts as values.
IsDict(d) == DOMAIN d \subseteq Operators /\ \A o \in DOMAIN d : d[o] \in Nat
Entry == [key : Blocks, ref : Refs]
Functions == {"exited", "newly"}

-----------------------------------------------------------------------------
(* What the functions compute, without a cache.                            *)

\* get_exited_catalist_validators on block b: exited count per operator.
FreshExited(b) == ExitedAt[b]

\* get_catalist_newly_exited_validators on block b: drop the operators
\* whose count equals the one recorded on chain.
FreshNewly(b) ==
    [op \in {o \in Operators : ExitedAt[b][o] # RecordedAt[b][o]} |->
        ExitedAt[b][op]]

Fresh(fn, b) == IF fn = "exited" THEN FreshExited(b) ELSE FreshNewly(b)

-----------------------------------------------------------------------------

Init ==
    /\ heap = [r \in {} |-> NoEntry]
    /\ nextRef = 1
    /\ cacheExited = NoEntry
    /\ cacheNewly = NoEntry
    /\ returned = {}
    /\ calls = 0

\* Extend the heap with a new object at ref r.
Alloc(h, r, d) == [x \in DOMAIN h \cup {r} |-> IF x = r THEN d ELSE h[x]]

\* The result of get_exited_catalist_validators(b) and the state after the
\* call: the cached ref on a hit, a fresh reduce result cached on a miss.
ExitedCall(b) ==
    IF cacheExited # NoEntry /\ cacheExited.key = b
    THEN [ref |-> cacheExited.ref, heap |-> heap, next |-> nextRef,
          entry |-> cacheExited]
    ELSE [ref |-> nextRef, heap |-> Alloc(heap, nextRef, FreshExited(b)),
          next |-> nextRef + 1, entry |-> [key |-> b, ref |-> nextRef]]

\* A caller calls get_exited_catalist_validators(b).
GetExitedCatalistValidators(b) ==
    /\ calls < MaxCalls
    /\ LET c == ExitedCall(b) IN
        /\ heap' = c.heap
        /\ nextRef' = c.next
        /\ cacheExited' = c.entry
        /\ returned' = returned \cup {[fn |-> "exited", block |-> b, ref |-> c.ref]}
    /\ calls' = calls + 1
    /\ UNCHANGED cacheNewly

\* Remove from the dict at ref r the operators whose count is the recorded one.
DeleteUnchanged(h, r, b) ==
    [h EXCEPT ![r] = [op \in {o \in DOMAIN h[r] : h[r][o] # RecordedAt[b][o]} |->
                         h[r][op]]]

\* Mutant: the reduce result is used as is, without deepcopy.
GetCatalistNewlyExitedValidatorsMutantNoCopy(b) ==
    /\ calls < MaxCalls
    /\ IF cacheNewly # NoEntry /\ cacheNewly.key = b
       THEN /\ returned' = returned \cup {[fn |-> "newly", block |-> b, ref |-> cacheNewly.ref]}
            /\ UNCHANGED <<heap, nextRef, cacheExited, cacheNewly>>
       ELSE LET c == ExitedCall(b) IN
            /\ heap' = DeleteUnchanged(c.heap, c.ref, b)
            /\ nextRef' = c.next
            /\ cacheExited' = c.entry
            /\ cacheNewly' = [key |-> b, ref |-> c.ref]
            /\ returned' = returned \cup {[fn |-> "newly", block |-> b, ref |-> c.ref]}
    /\ calls' = calls + 1

\* A caller calls get_catalist_newly_exited_validators(b): on a miss it takes
\* get_exited_catalist_validators(b) (itself cached), deep-copies it, deletes
\* the operators whose count did not change and caches the copy.
GetCatalistNewlyExitedValidators(b) ==
    /\ calls < MaxCalls
    /\ IF cacheNewly # NoEntry /\ cacheNewly.key = b
       THEN /\ returned' = returned \cup {[fn |-> "newly", block |-> b, ref |-> cacheNewly.ref]}
            /\ UNCHANGED <<heap, nextRef, cacheExited, cacheNewly>>
       ELSE LET c == ExitedCall(b)
                copy == c.next
            IN
            /\ heap' = DeleteUnchanged(Alloc(c.heap, copy, c.heap[c.ref]), copy, b)
            /\ nextRef' = copy + 1
            /\ cacheExited' = c.entry
            /\ cacheNewly' = [key |-> b, ref |-> copy]
            /\ returned' = returned \cup {[fn |-> "newly", block |-> b, ref |-> copy]}
    /\ calls' = calls + 1

\* The same call failing at get_catalist_node_operators (line 147), after
\* the inner cached call succeeded: the exception propagates, lru_cache
\* stores nothing for the outer call, the inner entry stays.
GetCatalistNewlyExitedValidatorsFails(b) ==
    /\ calls < MaxCalls
    /\ ~(cacheNewly # NoEntry /\ cacheNewly.key = b)
    /\ LET c == ExitedCall(b) IN
        /\ heap' = c.heap
        /\ nextRef' = c.next
        /\ cacheExited' = c.entry
    /\ calls' = calls + 1
    /\ UNCHANGED <<cacheNewly, returned>>

Next ==
    \E b \in Blocks :
        \/ GetExitedCatalistValidators(b)
        \/ GetCatalistNewlyExitedValidators(b)
        \/ GetCatalistNewlyExitedValidatorsFails(b)

Spec == Init /\ [][Next]_vars

-----------------------------------------------------------------------------
(* Properties.                                                              *)

\* The shape of the heap, the cache entries and the results callers hold.
TypeOK ==
    /\ nextRef \in 1 .. 2 * MaxCalls + 1
    /\ DOMAIN heap = 1 .. nextRef - 1
    /\ \A r \in DOMAIN heap : IsDict(heap[r])
    /\ cacheExited \in Entry \cup {NoEntry}
    /\ cacheNewly \in Entry \cup {NoEntry}
    /\ returned \subseteq [fn : Functions, block : Blocks, ref : Refs]
    /\ calls \in 0 .. MaxCalls

(* The cache is invisible to callers: every dict a call of either cached    *)
(* function ever returned still holds, now, what the function computes      *)
(* fresh for that block.  A later call must not change an object an earlier *)
(* caller holds or that a cache entry will hand out again; the deepcopy in  *)
(* get_catalist_newly_exited_validators (line 146) is what keeps its         *)
(* deletions off the dict cached by get_exited_catalist_validators.          *)
ReturnedValuesStable ==
    \A r \in returned : heap[r.ref] = Fresh(r.fn, r.block)

=============================================================================
