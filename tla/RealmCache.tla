----------------------------- MODULE RealmCache -----------------------------
(***************************************************************************)
(* MySQLRealmList::realms (crates/mysql-auth/src/realms.rs): a list read   *)
(* through from the database at most once per update_interval, kept beside *)
(* the time at which it expires, each behind a tokio RwLock of its own.    *)
(* The clones of the service share both, so the connection being served    *)
(* and the GraphQL handlers call realms() at the same time, on different   *)
(* threads of the runtime.                                                 *)
(*                                                                         *)
(* A tokio RwLock is fair: a lock is the queue of its waiters, its head    *)
(* the one that holds it. Readers hold it for one step, so their sharing   *)
(* is not modelled. A list is represented by the time it was read at.      *)
(***************************************************************************)
EXTENDS Naturals, Sequences, FiniteSets

CONSTANTS Callers,
          Interval,  \* update_interval
          MaxTime    \* bound: the clock stops here

ASSUME CacheAssumption == Interval \in Nat /\ MaxTime \in Nat

VARIABLES clock,
          pc,          \* per caller
          started,     \* per caller: the `now` of its call
          fetched,     \* per caller: the list its query returned, or its result
          realms,      \* the cached list: the time of its query
          next_update,
          realmsLock,
          nextLock

vars == <<clock, pc, started, fetched, realms, next_update, realmsLock, nextLock>>
locks == <<realmsLock, nextLock>>

Empty == 0        \* vec![], older than any list read

PCs == {"idle", "check", "query", "lockRealms", "lockNext", "write", "return", "read"}

TypeOK ==
    /\ clock \in Nat
    /\ pc \in [Callers -> PCs]
    /\ started \in [Callers -> Nat]
    /\ fetched \in [Callers -> Nat]
    /\ realms \in Nat
    /\ next_update \in Nat
    /\ realmsLock \in Seq(Callers)
    /\ nextLock \in Seq(Callers)

\* The clock starts at Interval so that the expiry time is never negative.
Init ==
    /\ clock = Interval
    /\ pc = [c \in Callers |-> "idle"]
    /\ started = [c \in Callers |-> 0]
    /\ fetched = [c \in Callers |-> Empty]
    /\ realms = Empty
    /\ next_update = Interval
    /\ realmsLock = <<>>
    /\ nextLock = <<>>

Holds(lock, c) == lock # <<>> /\ Head(lock) = c

Goto(c, l) == pc' = [pc EXCEPT ![c] = l]

\* let now = SystemTime::now(), and next_update.read() joins that lock's queue.
Call(c) ==
    /\ pc[c] = "idle"
    /\ Goto(c, "check")
    /\ started' = [started EXCEPT ![c] = clock]
    /\ nextLock' = Append(nextLock, c)
    /\ UNCHANGED <<clock, fetched, realms, next_update, realmsLock>>

\* The guard is dropped with the condition; a fresh list goes to the final read.
\* Mutant: the guard lives as long as the block.
CheckM(c) ==
    /\ pc[c] = "check"
    /\ Holds(nextLock, c)
    /\ IF started[c] > next_update
       THEN Goto(c, "query") /\ UNCHANGED locks
       ELSE Goto(c, "read") /\ realmsLock' = Append(realmsLock, c) /\ nextLock' = Tail(nextLock)
    /\ UNCHANGED <<clock, started, fetched, realms, next_update>>

Check(c) ==
    /\ pc[c] = "check"
    /\ Holds(nextLock, c)
    /\ nextLock' = Tail(nextLock)
    /\ IF started[c] > next_update
       THEN Goto(c, "query") /\ UNCHANGED realmsLock
       ELSE Goto(c, "read") /\ realmsLock' = Append(realmsLock, c)
    /\ UNCHANGED <<clock, started, fetched, realms, next_update>>

\* SELECT ... FROM realmlist, or its failure, which leaves the old list.
Query(c) ==
    /\ pc[c] = "query"
    /\ \/ /\ Goto(c, "lockRealms")
          /\ fetched' = [fetched EXCEPT ![c] = clock]
          /\ UNCHANGED realmsLock
       \/ /\ Goto(c, "read")
          /\ realmsLock' = Append(realmsLock, c)
          /\ UNCHANGED fetched
    /\ UNCHANGED <<clock, started, realms, next_update, nextLock>>

\* tokio::join! polls realms.write() first, then next_update.write(). Each poll
\* joins the lock's queue; between the two, other threads run.
LockRealms(c) ==
    /\ pc[c] = "lockRealms"
    /\ realmsLock' = Append(realmsLock, c)
    /\ Goto(c, "lockNext")
    /\ UNCHANGED <<clock, started, fetched, realms, next_update, nextLock>>

LockNext(c) ==
    /\ pc[c] = "lockNext"
    /\ nextLock' = Append(nextLock, c)
    /\ Goto(c, "write")
    /\ UNCHANGED <<clock, started, fetched, realms, next_update, realmsLock>>

\* Both guards are held; they are dropped together after the two assignments.
\* Mutants: the expiry counts from the end of the refresh; its sign is wrong.
WriteM(c) ==
    /\ pc[c] = "write"
    /\ Holds(realmsLock, c) /\ Holds(nextLock, c)
    /\ realms' = fetched[c]
    /\ next_update' = clock + Interval
    /\ realmsLock' = Tail(realmsLock)
    /\ nextLock' = Tail(nextLock)
    /\ Goto(c, "return")
    /\ UNCHANGED <<clock, started, fetched>>

WriteM2(c) ==
    /\ pc[c] = "write"
    /\ Holds(realmsLock, c) /\ Holds(nextLock, c)
    /\ realms' = fetched[c]
    /\ next_update' = Interval - started[c]
    /\ realmsLock' = Tail(realmsLock)
    /\ nextLock' = Tail(nextLock)
    /\ Goto(c, "return")
    /\ UNCHANGED <<clock, started, fetched>>

Write(c) ==
    /\ pc[c] = "write"
    /\ Holds(realmsLock, c) /\ Holds(nextLock, c)
    /\ realms' = fetched[c]
    /\ next_update' = started[c] + Interval
    /\ realmsLock' = Tail(realmsLock)
    /\ nextLock' = Tail(nextLock)
    /\ Goto(c, "return")
    /\ UNCHANGED <<clock, started, fetched>>

\* self.realms.read() joins the queue.
Return(c) ==
    /\ pc[c] = "return"
    /\ realmsLock' = Append(realmsLock, c)
    /\ Goto(c, "read")
    /\ UNCHANGED <<clock, started, fetched, realms, next_update, nextLock>>

Read(c) ==
    /\ pc[c] = "read"
    /\ Holds(realmsLock, c)
    /\ realmsLock' = Tail(realmsLock)
    /\ fetched' = [fetched EXCEPT ![c] = realms]
    /\ Goto(c, "idle")
    /\ UNCHANGED <<clock, started, realms, next_update, nextLock>>

Tick ==
    /\ clock < MaxTime
    /\ clock' = clock + 1
    /\ UNCHANGED <<pc, started, fetched, realms, next_update, locks>>

Step(c) == Check(c) \/ Query(c) \/ LockRealms(c) \/ LockNext(c) \/ Write(c)
           \/ Return(c) \/ Read(c)

Next == (\E c \in Callers : Call(c) \/ Step(c)) \/ Tick

\* The runtime polls a caller that can go on, and the database answers or fails.
Fairness == \A c \in Callers : WF_vars(Step(c))

Spec == Init /\ [][Next]_vars
FairSpec == Spec /\ Fairness

-----------------------------------------------------------------------------
(* Properties.                                                             *)

\* The two locks stay in step: whatever the order in which overlapping refreshes
\* take them and finish, next_update is at most update_interval after the query of
\* the list it stands beside, so the first call after that time asks the database
\* again. It does not bound the age of what is served: a refresh whose query fails
\* (`if let Ok`) leaves both as they are and the call returns the old list.
ExpiryMatchesList == next_update <= realms + Interval

\* What makes it so: a refresh took its `now` before it queried.
StoringIsTimely ==
    \A c \in Callers : /\ started[c] <= clock
                       /\ pc[c] \in {"lockRealms", "lockNext", "write"} => started[c] <= fetched[c]
CacheInv == TypeOK /\ StoringIsTimely /\ ExpiryMatchesList

\* A call to realms() returns.
RealmsReturns == \A c \in Callers : pc[c] # "idle" ~> pc[c] = "idle"

Refreshing == {c \in Callers : pc[c] \in {"lockRealms", "lockNext", "write"}}

\* A call to realms() returns, with readers waiting on both locks and failing
\* queries, as long as no two callers are storing a list at the same time.
ReturnsIfRefreshesApart == [](Cardinality(Refreshing) <= 1) => RealmsReturns
=============================================================================
