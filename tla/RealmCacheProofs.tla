-------------------------- MODULE RealmCacheProofs --------------------------
(***************************************************************************)
(* Proofs about RealmCache, for any number of callers and any interval.    *)
(***************************************************************************)
EXTENDS RealmCache, TLAPS

\* One lock's queue after a caller joins or leaves it.
LEMMA QueueTypes ==
    ASSUME NEW q \in Seq(Callers), NEW c \in Callers
    PROVE  Append(q, c) \in Seq(Callers) /\ (q # <<>> => Tail(q) \in Seq(Callers))
OBVIOUS

\* The inductive invariant holds when the service is made.
LEMMA CacheInit == Init => CacheInv
BY CacheAssumption
DEF Init, CacheInv, TypeOK, PCs, Empty, StoringIsTimely, ExpiryMatchesList

\* Every step of realms() keeps it.
LEMMA CacheStep ==
    ASSUME CacheInv, [Next]_vars
    PROVE  CacheInv'
<1> USE CacheAssumption, QueueTypes
        DEF CacheInv, TypeOK, PCs, StoringIsTimely, ExpiryMatchesList, Goto, Holds
<1>1. ASSUME NEW c \in Callers, Call(c) PROVE CacheInv'
  BY <1>1 DEF Call
<1>2. ASSUME NEW c \in Callers, Check(c) PROVE CacheInv'
  BY <1>2 DEF Check
<1>3. ASSUME NEW c \in Callers, Query(c) PROVE CacheInv'
  BY <1>3 DEF Query
<1>4. ASSUME NEW c \in Callers, LockRealms(c) PROVE CacheInv'
  BY <1>4 DEF LockRealms
<1>5. ASSUME NEW c \in Callers, LockNext(c) PROVE CacheInv'
  BY <1>5 DEF LockNext
<1>6. ASSUME NEW c \in Callers, Write(c) PROVE CacheInv'
  <2>1. realmsLock' \in Seq(Callers) /\ nextLock' \in Seq(Callers)
    BY <1>6 DEF Write
  <2>2. /\ pc[c] = "write" /\ pc' = [pc EXCEPT ![c] = "return"]
        /\ realms' = fetched[c] /\ next_update' = started[c] + Interval
        /\ UNCHANGED <<clock, started, fetched>>
    BY <1>6 DEF Write
  <2>3. started[c] \in Nat /\ fetched[c] \in Nat /\ started[c] <= fetched[c]
    BY <2>2
  <2>4. TypeOK'
    BY <2>1, <2>2, <2>3
  <2>5. ExpiryMatchesList'
    BY <2>2, <2>3
  <2>6. StoringIsTimely'
    BY <2>2
  <2>7. QED BY <2>4, <2>5, <2>6
<1>7. ASSUME NEW c \in Callers, Return(c) PROVE CacheInv'
  BY <1>7 DEF Return
<1>8. ASSUME NEW c \in Callers, Read(c) PROVE CacheInv'
  BY <1>8 DEF Read
<1>9. CASE Tick
  BY <1>9 DEF Tick, locks
<1>10. CASE UNCHANGED vars
  BY <1>10 DEF vars
<1>11. QED
  BY <1>1, <1>2, <1>3, <1>4, <1>5, <1>6, <1>7, <1>8, <1>9, <1>10 DEF Next, Step

\* Every step of every caller keeps the inductive invariant.
THEOREM CacheInvariance == Spec => []CacheInv
<1>1. CacheInv /\ [Next]_vars => CacheInv'
  BY CacheStep
<1>2. QED BY CacheInit, <1>1, PTL DEF Spec

\* Every variable keeps its type: both locks are always held by, and waited for
\* by, callers of realms(), whatever order the refreshes take and drop them in.
THEOREM CacheTypeCorrect == Spec => []TypeOK
<1>1. CacheInv => TypeOK
  BY DEF CacheInv
<1>2. QED BY CacheInvariance, <1>1, PTL

\* next_update is at most update_interval after the query of the list it stands
\* beside, however many refreshes overlap, fail, and in whatever order they finish.
THEOREM ExpiryIsSafe == Spec => []ExpiryMatchesList
<1>1. CacheInv => ExpiryMatchesList
  BY DEF CacheInv
<1>2. QED BY CacheInvariance, <1>1, PTL
=============================================================================
