-------------------------- MODULE ServiceCacheProofs --------------------------
(***************************************************************************)
(* Proofs about ServiceCache for every set of operators and blocks, every  *)
(* count table and every bound on the calls: the state is well typed, and  *)
(* the single-entry caches of get_exited_catalist_validators and           *)
(* get_catalist_newly_exited_validators are invisible to their callers.    *)
(***************************************************************************)
EXTENDS ServiceCache, FiniteSetTheorems, TLAPS

USE CacheAssumption

(* The heap only grows, and every object a cache entry or a caller holds    *)
(* lies in it and holds what the function computes fresh for its block.     *)
(* The bound on nextRef keeps every allocation inside Refs.                  *)
CacheInv ==
    /\ TypeOK
    /\ nextRef <= 2 * calls + 1
    /\ cacheExited # NoEntry =>
         /\ cacheExited.ref \in DOMAIN heap
         /\ heap[cacheExited.ref] = FreshExited(cacheExited.key)
    /\ cacheNewly # NoEntry =>
         /\ cacheNewly.ref \in DOMAIN heap
         /\ heap[cacheNewly.ref] = FreshNewly(cacheNewly.key)
    /\ \A r \in returned : r.ref \in DOMAIN heap /\ heap[r.ref] = Fresh(r.fn, r.block)

-----------------------------------------------------------------------------
(* Lemmas about the operators.                                              *)

\* What each function computes fresh is a dict.
LEMMA FreshIsDict ==
    ASSUME NEW b \in Blocks
    PROVE  IsDict(FreshExited(b)) /\ IsDict(FreshNewly(b))
    BY DEF IsDict, FreshExited, FreshNewly

\* Deleting the unchanged operators from a fresh exited dict gives the fresh
\* newly-exited dict.
LEMMA DeleteFresh ==
    ASSUME NEW h, NEW r \in DOMAIN h, NEW b \in Blocks, h[r] = FreshExited(b)
    PROVE  DeleteUnchanged(h, r, b) = [h EXCEPT ![r] = FreshNewly(b)]
<1>1. {o \in DOMAIN h[r] : h[r][o] # RecordedAt[b][o]}
        = {o \in Operators : ExitedAt[b][o] # RecordedAt[b][o]}
    BY DEF FreshExited
<1>. QED
    BY <1>1 DEF DeleteUnchanged, FreshNewly, FreshExited

\* One call of get_exited_catalist_validators, hit or miss: the heap keeps
\* every old object and grows by at most one, and the ref handed out holds
\* the fresh exited dict.
LEMMA ExitedCallFacts ==
    ASSUME CacheInv, NEW b \in Blocks
    PROVE  LET c == ExitedCall(b) IN
             /\ c.next \in {nextRef, nextRef + 1}
             /\ DOMAIN c.heap = 1 .. c.next - 1
             /\ \A r \in 1 .. nextRef - 1 : c.heap[r] = heap[r]
             /\ \A r \in DOMAIN c.heap : IsDict(c.heap[r])
             /\ c.ref \in 1 .. c.next - 1
             /\ c.heap[c.ref] = FreshExited(b)
             /\ c.entry = [key |-> b, ref |-> c.ref]
<1> DEFINE c == ExitedCall(b)
<1>0. /\ nextRef \in Nat /\ nextRef >= 1
      /\ DOMAIN heap = 1 .. nextRef - 1
      /\ \A r \in DOMAIN heap : IsDict(heap[r])
    BY DEF CacheInv, TypeOK
<1>1. CASE cacheExited # NoEntry /\ cacheExited.key = b
  <2>1. c = [ref |-> cacheExited.ref, heap |-> heap, next |-> nextRef,
             entry |-> cacheExited]
    BY <1>1 DEF ExitedCall
  <2>2. cacheExited \in Entry
    BY <1>1 DEF CacheInv, TypeOK
  <2>3. cacheExited = [key |-> b, ref |-> cacheExited.ref]
    BY <1>1, <2>2 DEF Entry
  <2>4. cacheExited.ref \in DOMAIN heap /\ heap[cacheExited.ref] = FreshExited(b)
    BY <1>1 DEF CacheInv
  <2>. QED
    BY <1>0, <2>1, <2>3, <2>4
<1>2. CASE ~(cacheExited # NoEntry /\ cacheExited.key = b)
  <2>1. c = [ref |-> nextRef, heap |-> Alloc(heap, nextRef, FreshExited(b)),
             next |-> nextRef + 1, entry |-> [key |-> b, ref |-> nextRef]]
    BY <1>2 DEF ExitedCall
  <2>2. Alloc(heap, nextRef, FreshExited(b))
          = [x \in 1 .. nextRef |-> IF x = nextRef THEN FreshExited(b) ELSE heap[x]]
    BY <1>0 DEF Alloc
  <2>3. IsDict(FreshExited(b))
    BY FreshIsDict
  <2>. QED
    BY <1>0, <2>1, <2>2, <2>3
<1>. QED
    BY <1>1, <1>2

\* A step that keeps every object of the heap keeps every entry and every
\* returned ref pointing at its fresh value.
LEMMA OldRefsKept ==
    ASSUME CacheInv,
           DOMAIN heap \subseteq DOMAIN heap',
           \A r \in DOMAIN heap : heap'[r] = heap[r]
    PROVE  /\ cacheExited # NoEntry =>
                /\ cacheExited.ref \in DOMAIN heap'
                /\ heap'[cacheExited.ref] = FreshExited(cacheExited.key)
           /\ cacheNewly # NoEntry =>
                /\ cacheNewly.ref \in DOMAIN heap'
                /\ heap'[cacheNewly.ref] = FreshNewly(cacheNewly.key)
           /\ \A r \in returned :
                r.ref \in DOMAIN heap' /\ heap'[r.ref] = Fresh(r.fn, r.block)
    BY DEF CacheInv

-----------------------------------------------------------------------------
(* The inductive invariant.                                                 *)

LEMMA InitCacheInv == Init => CacheInv
<1> SUFFICES ASSUME Init PROVE CacheInv
    OBVIOUS
<1>1. DOMAIN heap = {} /\ nextRef = 1
    BY DEF Init
<1>2. 1 .. nextRef - 1 = {}
    BY <1>1
<1>. QED
    BY <1>1, <1>2 DEF Init, CacheInv, TypeOK, NoEntry

LEMMA GetExitedStep ==
    ASSUME CacheInv, NEW b \in Blocks, GetExitedCatalistValidators(b)
    PROVE  CacheInv'
<1> DEFINE c == ExitedCall(b)
           new == [fn |-> "exited", block |-> b, ref |-> c.ref]
<1>1. /\ c.next \in {nextRef, nextRef + 1}
      /\ DOMAIN c.heap = 1 .. c.next - 1
      /\ \A r \in 1 .. nextRef - 1 : c.heap[r] = heap[r]
      /\ \A r \in DOMAIN c.heap : IsDict(c.heap[r])
      /\ c.ref \in 1 .. c.next - 1
      /\ c.heap[c.ref] = FreshExited(b)
      /\ c.entry = [key |-> b, ref |-> c.ref]
    BY ExitedCallFacts
<1>2. /\ heap' = c.heap /\ nextRef' = c.next /\ cacheExited' = c.entry
      /\ returned' = returned \cup {new}
      /\ calls' = calls + 1 /\ calls < MaxCalls /\ UNCHANGED cacheNewly
    BY DEF GetExitedCatalistValidators
<1>3. /\ nextRef \in Nat /\ calls \in Nat /\ MaxCalls \in Nat
      /\ DOMAIN heap = 1 .. nextRef - 1 /\ nextRef <= 2 * calls + 1
    BY DEF CacheInv, TypeOK
<1>4. /\ cacheNewly # NoEntry =>
           cacheNewly.ref \in DOMAIN heap' /\ heap'[cacheNewly.ref] = FreshNewly(cacheNewly.key)
      /\ \A r \in returned :
           r.ref \in DOMAIN heap' /\ heap'[r.ref] = Fresh(r.fn, r.block)
    BY <1>1, <1>2, <1>3, OldRefsKept
<1>5. TypeOK'
  <2>1. nextRef' \in 1 .. 2 * MaxCalls + 1 /\ c.ref \in Refs
    BY <1>1, <1>2, <1>3 DEF Refs
  <2>2. cacheExited' \in Entry
    BY <1>1, <1>2, <2>1 DEF Entry
  <2>3. returned' \subseteq [fn : Functions, block : Blocks, ref : Refs]
    BY <1>2, <2>1 DEF CacheInv, TypeOK, Functions
  <2>4. \A r \in DOMAIN heap' : IsDict(heap'[r])
    BY <1>1, <1>2
  <2>5. calls' \in 0 .. MaxCalls /\ DOMAIN heap' = 1 .. nextRef' - 1
    BY <1>1, <1>2, <1>3
  <2>6. cacheNewly' \in Entry \cup {NoEntry}
    BY <1>2 DEF CacheInv, TypeOK
  <2>. QED
    BY <2>1, <2>2, <2>3, <2>4, <2>5, <2>6 DEF TypeOK
<1>6. nextRef' <= 2 * calls' + 1
    BY <1>1, <1>2, <1>3
<1>7. heap'[new.ref] = Fresh(new.fn, new.block) /\ new.ref \in DOMAIN heap'
    BY <1>1, <1>2 DEF Fresh
<1>. QED
    BY <1>1, <1>2, <1>4, <1>5, <1>6, <1>7 DEF CacheInv

LEMMA GetNewlyStep ==
    ASSUME CacheInv, NEW b \in Blocks, GetCatalistNewlyExitedValidators(b)
    PROVE  CacheInv'
<1>0. /\ nextRef \in Nat /\ nextRef >= 1 /\ calls \in Nat /\ MaxCalls \in Nat
      /\ DOMAIN heap = 1 .. nextRef - 1 /\ nextRef <= 2 * calls + 1
      /\ calls < MaxCalls /\ calls' = calls + 1
    BY DEF CacheInv, TypeOK, GetCatalistNewlyExitedValidators
<1>1. CASE cacheNewly # NoEntry /\ cacheNewly.key = b
  <2> DEFINE new == [fn |-> "newly", block |-> b, ref |-> cacheNewly.ref]
  <2>1. returned' = returned \cup {new}
        /\ UNCHANGED <<heap, nextRef, cacheExited, cacheNewly>>
    BY <1>1 DEF GetCatalistNewlyExitedValidators
  <2>2. cacheNewly.ref \in DOMAIN heap /\ heap[cacheNewly.ref] = FreshNewly(b)
        /\ cacheNewly \in Entry
    BY <1>1 DEF CacheInv, TypeOK
  <2>3. new \in [fn : Functions, block : Blocks, ref : Refs]
    BY <2>2 DEF Entry, Functions
  <2>. QED
    BY <1>0, <2>1, <2>2, <2>3 DEF CacheInv, TypeOK, Fresh
<1>2. CASE ~(cacheNewly # NoEntry /\ cacheNewly.key = b)
  <2> DEFINE c == ExitedCall(b)
             copy == c.next
             new == [fn |-> "newly", block |-> b, ref |-> copy]
  <2>1. /\ c.next \in {nextRef, nextRef + 1}
        /\ DOMAIN c.heap = 1 .. c.next - 1
        /\ \A r \in 1 .. nextRef - 1 : c.heap[r] = heap[r]
        /\ \A r \in DOMAIN c.heap : IsDict(c.heap[r])
        /\ c.ref \in 1 .. c.next - 1
        /\ c.heap[c.ref] = FreshExited(b)
        /\ c.entry = [key |-> b, ref |-> c.ref]
    BY ExitedCallFacts
  <2>2. /\ heap' = DeleteUnchanged(Alloc(c.heap, copy, c.heap[c.ref]), copy, b)
        /\ nextRef' = copy + 1 /\ cacheExited' = c.entry
        /\ cacheNewly' = [key |-> b, ref |-> copy]
        /\ returned' = returned \cup {new}
    BY <1>2 DEF GetCatalistNewlyExitedValidators
  <2>3. Alloc(c.heap, copy, c.heap[c.ref])
          = [x \in 1 .. copy |-> IF x = copy THEN FreshExited(b) ELSE c.heap[x]]
    BY <2>1, <1>0 DEF Alloc
  <2>4. heap' = [x \in 1 .. copy |-> IF x = copy THEN FreshNewly(b) ELSE c.heap[x]]
    <3> DEFINE A == Alloc(c.heap, copy, c.heap[c.ref])
    <3>1. copy \in DOMAIN A /\ A[copy] = FreshExited(b)
      BY <2>3, <2>1, <1>0
    <3>2. heap' = [A EXCEPT ![copy] = FreshNewly(b)]
      BY <2>2, <3>1, DeleteFresh
    <3>. QED
      BY <3>2, <2>3
  <2>5. /\ copy = c.next /\ copy >= nextRef /\ copy \in Nat
        /\ c.ref \in 1 .. copy - 1 /\ nextRef' = copy + 1
    BY <1>0, <2>1, <2>2
  <2>6. DOMAIN heap' = 1 .. nextRef' - 1
    BY <2>4, <2>5
  <2>7. \A r \in DOMAIN heap : r \in DOMAIN heap' /\ heap'[r] = heap[r]
    BY <1>0, <2>1, <2>4, <2>5
  <2>8. heap'[copy] = FreshNewly(b) /\ c.ref \in DOMAIN heap'
        /\ heap'[c.ref] = FreshExited(b)
    BY <2>1, <2>4, <2>5
  <2>9. \A r \in DOMAIN heap' : IsDict(heap'[r])
    BY <2>1, <2>4, <2>5, FreshIsDict
  <2>10. /\ cacheExited # NoEntry =>
             cacheExited.ref \in DOMAIN heap' /\ heap'[cacheExited.ref] = FreshExited(cacheExited.key)
         /\ cacheNewly # NoEntry =>
             cacheNewly.ref \in DOMAIN heap' /\ heap'[cacheNewly.ref] = FreshNewly(cacheNewly.key)
         /\ \A r \in returned :
             r.ref \in DOMAIN heap' /\ heap'[r.ref] = Fresh(r.fn, r.block)
    BY <1>0, <2>7, OldRefsKept
  <2>11. nextRef' \in 1 .. 2 * MaxCalls + 1 /\ copy \in Refs /\ c.ref \in Refs
         /\ nextRef' <= 2 * calls' + 1 /\ calls' \in 0 .. MaxCalls
    BY <1>0, <2>1, <2>5 DEF Refs
  <2>12. TypeOK'
    <3>1. cacheExited' \in Entry /\ cacheNewly' \in Entry
      BY <2>1, <2>2, <2>11 DEF Entry
    <3>2. returned' \subseteq [fn : Functions, block : Blocks, ref : Refs]
      BY <2>2, <2>11 DEF CacheInv, TypeOK, Functions
    <3>. QED
      BY <2>6, <2>9, <2>11, <3>1, <3>2 DEF TypeOK
  <2>13. copy \in DOMAIN heap'
    BY <2>5, <2>6
  <2>14. cacheExited' # NoEntry =>
           cacheExited'.ref \in DOMAIN heap' /\ heap'[cacheExited'.ref] = FreshExited(cacheExited'.key)
    BY <2>1, <2>2, <2>8
  <2>15. cacheNewly' # NoEntry =>
           cacheNewly'.ref \in DOMAIN heap' /\ heap'[cacheNewly'.ref] = FreshNewly(cacheNewly'.key)
    BY <2>2, <2>8, <2>13
  <2>16. \A r \in returned' : r.ref \in DOMAIN heap' /\ heap'[r.ref] = Fresh(r.fn, r.block)
    BY <2>2, <2>8, <2>10, <2>13 DEF Fresh
  <2>. QED
    BY <2>11, <2>12, <2>14, <2>15, <2>16 DEF CacheInv
<1>. QED
    BY <1>1, <1>2

LEMMA GetNewlyFailsStep ==
    ASSUME CacheInv, NEW b \in Blocks, GetCatalistNewlyExitedValidatorsFails(b)
    PROVE  CacheInv'
<1> DEFINE c == ExitedCall(b)
<1>1. /\ c.next \in {nextRef, nextRef + 1}
      /\ DOMAIN c.heap = 1 .. c.next - 1
      /\ \A r \in 1 .. nextRef - 1 : c.heap[r] = heap[r]
      /\ \A r \in DOMAIN c.heap : IsDict(c.heap[r])
      /\ c.ref \in 1 .. c.next - 1
      /\ c.heap[c.ref] = FreshExited(b)
      /\ c.entry = [key |-> b, ref |-> c.ref]
    BY ExitedCallFacts
<1>2. /\ heap' = c.heap /\ nextRef' = c.next /\ cacheExited' = c.entry
      /\ calls' = calls + 1 /\ calls < MaxCalls /\ UNCHANGED <<cacheNewly, returned>>
    BY DEF GetCatalistNewlyExitedValidatorsFails
<1>3. /\ nextRef \in Nat /\ calls \in Nat /\ MaxCalls \in Nat
      /\ DOMAIN heap = 1 .. nextRef - 1 /\ nextRef <= 2 * calls + 1
    BY DEF CacheInv, TypeOK
<1>4. /\ cacheNewly # NoEntry =>
           cacheNewly.ref \in DOMAIN heap' /\ heap'[cacheNewly.ref] = FreshNewly(cacheNewly.key)
      /\ \A r \in returned :
           r.ref \in DOMAIN heap' /\ heap'[r.ref] = Fresh(r.fn, r.block)
    BY <1>1, <1>2, <1>3, OldRefsKept
<1>5. nextRef' \in 1 .. 2 * MaxCalls + 1 /\ c.ref \in Refs /\ nextRef' <= 2 * calls' + 1
    BY <1>1, <1>2, <1>3 DEF Refs
<1>6. TypeOK'
  <2>1. cacheExited' \in Entry
    BY <1>1, <1>2, <1>5 DEF Entry
  <2>2. \A r \in DOMAIN heap' : IsDict(heap'[r])
    BY <1>1, <1>2
  <2>3. calls' \in 0 .. MaxCalls /\ DOMAIN heap' = 1 .. nextRef' - 1
    BY <1>1, <1>2, <1>3
  <2>. QED
    BY <1>2, <1>5, <2>1, <2>2, <2>3 DEF CacheInv, TypeOK
<1>. QED
    BY <1>1, <1>2, <1>4, <1>5, <1>6 DEF CacheInv

LEMMA NextCacheInv == CacheInv /\ [Next]_vars => CacheInv'
<1> SUFFICES ASSUME CacheInv, [Next]_vars PROVE CacheInv'
    OBVIOUS
<1>1. CASE \E b \in Blocks : GetExitedCatalistValidators(b)
    BY <1>1, GetExitedStep
<1>2. CASE \E b \in Blocks : GetCatalistNewlyExitedValidators(b)
    BY <1>2, GetNewlyStep
<1>3. CASE \E b \in Blocks : GetCatalistNewlyExitedValidatorsFails(b)
    BY <1>3, GetNewlyFailsStep
<1>4. CASE UNCHANGED vars
    BY <1>4 DEF vars, CacheInv, TypeOK, Fresh, FreshExited, FreshNewly
<1>. QED
    BY <1>1, <1>2, <1>3, <1>4 DEF Next

-----------------------------------------------------------------------------
(* The theorems.                                                            *)

\* Every reachable state is well typed.
LEMMA CacheTypeCorrect == Spec => []TypeOK
<1>1. CacheInv => TypeOK
    BY DEF CacheInv
<1>. QED
    BY <1>1, InitCacheInv, NextCacheInv, PTL DEF Spec

(* The caches are invisible (ReturnedValuesStable): every dict a call of     *)
(* get_exited_catalist_validators or get_catalist_newly_exited_validators     *)
(* returned still holds what the function computes fresh for its block, for *)
(* any number of calls, blocks and operators; the deepcopy at line 146 keeps *)
(* the deletions of lines 149-154 on a new object.                            *)
THEOREM ReturnedValuesStableHolds == Spec => []ReturnedValuesStable
<1>1. CacheInv => ReturnedValuesStable
    BY DEF CacheInv, ReturnedValuesStable
<1>. QED
    BY <1>1, InitCacheInv, NextCacheInv, PTL DEF Spec

=============================================================================
