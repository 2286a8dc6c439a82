----------------------------- MODULE RealmStatus -----------------------------
(***************************************************************************)
(* How a realm gets its status: world servers send heartbeat datagrams     *)
(* (services/world/src/worldserver.rs), the login server keeps the time of *)
(* the last one per realm (world_server_heartbeat), and realmlist_updater  *)
(* turns those into flags of the realmlist table (services/auth/src/       *)
(* authserver.rs, update_status of crates/mysql-auth/src/realms.rs).       *)
(*                                                                         *)
(* Time is discrete and a due timer fires before time goes on: a datagram  *)
(* arrives at once or not at all, and a batch of updates is written within *)
(* one period. Ages and timers are relative, so no clock grows.            *)
(***************************************************************************)
EXTENDS Naturals, FiniteSets

CONSTANTS Realms,     \* realm ids (u32)
          Period,     \* 5 s: heartbeats and updater rounds
          Timeout,    \* 15 s: an older heartbeat counts as silence
          MaxLost,    \* bound: datagrams lost
          MaxStops,   \* bound: stops of a world server
          MaxErrors,  \* bound: failed updates
          MaxRestarts \* bound: restarts of the login server

ASSUME RealmsAssumption == Realms \subseteq Nat
ASSUME TimersAssumption == /\ Period \in Nat \ {0}
                           /\ Timeout \in Nat
                           /\ Timeout >= 3 * Period
ASSUME FaultsAssumption == MaxLost \in Nat /\ MaxStops \in Nat
                           /\ MaxErrors \in Nat /\ MaxRestarts \in Nat

VARIABLES up,         \* realms whose world server runs
          sendIn,     \* per realm: time to its next heartbeat
          heartbeat,  \* per u8 id: age of the entry of the map, Absent if none
          roundIn,    \* time to the next tick of realmlist_updater
          now,        \* age of the Instant that the next round compares with
          pending,    \* writes of the round that update_status has not done yet
          flag,       \* column of realmlist, per u8 id
          missed,     \* history, per realm: heartbeats since the last that arrived
          lost, stops, errors, restarts

vars == <<up, sendIn, heartbeat, roundIn, now, pending, flag, missed, lost, stops, errors, restarts>>

\* `self.id.0 as u8`, and the key of the map and of the upsert.
Key(r) == r % 256
Keys == {Key(r) : r \in Realms}

Old == Timeout + Period + 1          \* silent at whatever round: older is not told apart
Absent == Old + 1
Tracked(k) == heartbeat[k] # Absent

Flags == {"Offline", "Recommended"}

TypeOK ==
    /\ up \in SUBSET Realms
    /\ sendIn \in [Realms -> 0..Period]
    /\ heartbeat \in [Keys -> 0..Absent]
    /\ roundIn \in 0..Period
    /\ now \in 0..Period
    /\ pending \in SUBSET (Keys \X Flags)
    /\ flag \in [Keys -> Flags]
    /\ missed \in [Realms -> 0..4]
    /\ lost \in Nat /\ stops \in Nat /\ errors \in Nat /\ restarts \in Nat

Init ==
    /\ up = {}
    /\ sendIn = [r \in Realms |-> 0]
    /\ heartbeat = [k \in Keys |-> Absent]
    /\ roundIn = 0
    /\ now = 0
    /\ pending = {}
    /\ flag = [k \in Keys |-> "Offline"]
    /\ missed = [r \in Realms |-> 4]
    /\ lost = 0 /\ stops = 0 /\ errors = 0 /\ restarts = 0

-----------------------------------------------------------------------------
(* World servers. The first tick of their interval is immediate.           *)

WorldStart(r) ==
    /\ r \notin up
    /\ up' = up \cup {r}
    /\ sendIn' = [sendIn EXCEPT ![r] = 0]
    /\ UNCHANGED <<heartbeat, roundIn, now, pending, flag, missed, lost, stops, errors, restarts>>

\* A server that is not running misses every heartbeat.
WorldStop(r) ==
    /\ r \in up /\ stops < MaxStops
    /\ stops' = stops + 1
    /\ up' = up \ {r}
    /\ missed' = [missed EXCEPT ![r] = 4]
    /\ UNCHANGED <<sendIn, heartbeat, roundIn, now, pending, flag, lost, errors, restarts>>

\* The datagram arrives and world_server_heartbeat enters it into the map.
\* Mutants: or_insert keeps an old entry; the interval starts a tick late.
SendM(r) ==
    /\ r \in up /\ sendIn[r] = 0
    /\ sendIn' = [sendIn EXCEPT ![r] = Period]
    /\ heartbeat' = [heartbeat EXCEPT ![Key(r)] = IF Tracked(Key(r)) THEN @ ELSE 0]
    /\ missed' = [missed EXCEPT ![r] = 0]
    /\ UNCHANGED <<up, roundIn, now, pending, flag, lost, stops, errors, restarts>>

SendM2(r) ==
    /\ r \in up /\ sendIn[r] = 0
    /\ sendIn' = [sendIn EXCEPT ![r] = Period + 1]
    /\ heartbeat' = [heartbeat EXCEPT ![Key(r)] = 0]
    /\ missed' = [missed EXCEPT ![r] = 0]
    /\ UNCHANGED <<up, roundIn, now, pending, flag, lost, stops, errors, restarts>>

Send(r) ==
    /\ r \in up /\ sendIn[r] = 0
    /\ sendIn' = [sendIn EXCEPT ![r] = Period]
    /\ heartbeat' = [heartbeat EXCEPT ![Key(r)] = 0]
    /\ missed' = [missed EXCEPT ![r] = 0]
    /\ UNCHANGED <<up, roundIn, now, pending, flag, lost, stops, errors, restarts>>

\* It is lost, or send() fails and is only logged.
SendLost(r) ==
    /\ r \in up /\ sendIn[r] = 0 /\ lost < MaxLost
    /\ lost' = lost + 1
    /\ sendIn' = [sendIn EXCEPT ![r] = Period]
    /\ missed' = [missed EXCEPT ![r] = IF @ < 4 THEN @ + 1 ELSE 4]
    /\ UNCHANGED <<up, heartbeat, roundIn, now, pending, flag, stops, errors, restarts>>

-----------------------------------------------------------------------------
(* The login server.                                                       *)

\* now.saturating_duration_since(v).as_secs() > 15, where `now` is not the time
\* of the round: zip takes the Instant when the wait for the tick begins. An
\* entry newer than `now` has age 0. Mutant: an Instant of the round.
SilentM(k) == Tracked(k) /\ heartbeat[k] > Timeout
Silent(k) == Tracked(k) /\ heartbeat[k] > Timeout + now

\* A round of realmlist_updater: under the map's lock, silent entries are
\* drained as Offline and the others listed as Recommended. With nothing to
\* write the wait for the next tick begins at once.
\* Mutant: the drained entries are not written.
RoundM ==
    /\ roundIn = 0 /\ pending = {}
    /\ roundIn' = Period /\ now' = 0
    /\ pending' = {<<k, "Recommended">> : k \in {j \in Keys : Tracked(j) /\ ~Silent(j)}}
    /\ heartbeat' = [k \in Keys |-> IF Silent(k) THEN Absent ELSE heartbeat[k]]
    /\ UNCHANGED <<up, sendIn, flag, missed, lost, stops, errors, restarts>>

Round ==
    /\ roundIn = 0 /\ pending = {}
    /\ roundIn' = Period /\ now' = 0
    /\ pending' = {<<k, "Offline">> : k \in {j \in Keys : Silent(j)}}
             \cup {<<k, "Recommended">> : k \in {j \in Keys : Tracked(j) /\ ~Silent(j)}}
    /\ heartbeat' = [k \in Keys |-> IF Silent(k) THEN Absent ELSE heartbeat[k]]
    /\ UNCHANGED <<up, sendIn, flag, missed, lost, stops, errors, restarts>>

\* One upsert of update_status; the drained entries come first.
Upsert(w) ==
    /\ w \in pending
    /\ w[2] = "Recommended" => \A v \in pending : v[2] # "Offline"
    /\ flag' = [flag EXCEPT ![w[1]] = w[2]]
    /\ pending' = pending \ {w}
    /\ UNCHANGED <<up, sendIn, heartbeat, roundIn, now, missed, lost, stops, errors, restarts>>

\* An upsert fails: update_status returns, the rest of the batch is dropped
\* and the error is logged.
UpsertFails ==
    /\ pending # {} /\ errors < MaxErrors
    /\ errors' = errors + 1
    /\ pending' = {}
    /\ UNCHANGED <<up, sendIn, heartbeat, roundIn, now, flag, missed, lost, stops, restarts>>

\* The login server's process ends and is started again with an empty map.
Restart ==
    /\ restarts < MaxRestarts
    /\ restarts' = restarts + 1
    /\ heartbeat' = [k \in Keys |-> Absent]
    /\ pending' = {}
    /\ roundIn' = 0 /\ now' = 0
    /\ UNCHANGED <<up, sendIn, flag, missed, lost, stops, errors>>

-----------------------------------------------------------------------------
\* Time goes on. The next `now` is taken once the batch is written.
Tick ==
    /\ \A r \in up : sendIn[r] > 0
    /\ roundIn > 0
    /\ roundIn' = roundIn - 1
    /\ now' = IF pending = {} THEN now + 1 ELSE 0
    /\ sendIn' = [r \in Realms |-> IF sendIn[r] > 0 THEN sendIn[r] - 1 ELSE 0]
    /\ heartbeat' = [k \in Keys |-> IF heartbeat[k] < Old THEN heartbeat[k] + 1
                                    ELSE heartbeat[k]]
    /\ UNCHANGED <<up, pending, flag, missed, lost, stops, errors, restarts>>

Next ==
    \/ \E r \in Realms : WorldStart(r)
    \/ \E r \in Realms : WorldStop(r)
    \/ \E r \in Realms : Send(r)
    \/ \E r \in Realms : SendLost(r)
    \/ Round
    \/ \E w \in Keys \X Flags : Upsert(w)
    \/ UpsertFails
    \/ Restart
    \/ Tick

\* Timers fire, the runtime polls the updater and the database answers. Stops,
\* losses and faults are never forced; the bounds make them cease.
Fairness ==
    /\ WF_vars(Tick) /\ WF_vars(Round)
    /\ \A w \in Keys \X Flags : WF_vars(Upsert(w))
    /\ \A r \in Realms : WF_vars(Send(r))

Spec == Init /\ [][Next]_vars
FairSpec == Spec /\ Fairness

-----------------------------------------------------------------------------
(* Properties.                                                             *)

\* The entry of a running world server is drained only after at least three
\* heartbeats in a row failed to arrive, however its timer and the updater's
\* are aligned; and only after four where the updater waited a whole period for
\* its tick, because that long ago `now` was taken.
LossesTolerated ==
    [][\A r \in Realms :
        r \in up /\ Tracked(Key(r)) /\ ~Tracked(Key(r))' /\ restarts' = restarts
            => missed[r] >= (IF now = Period THEN 4 ELSE 3)]_vars

\* What makes it so: the age of a running server's entry is accounted for by
\* the heartbeats missed and the time since the last one was due.
AgeAccounted ==
    \A r \in up : Tracked(Key(r)) =>
        \/ missed[r] = 4
        \/ missed[r] = 0 /\ heartbeat[Key(r)] + sendIn[r] <= Period
        \/ missed[r] = 1 /\ heartbeat[Key(r)] + sendIn[r] <= 2 * Period
        \/ missed[r] = 2 /\ heartbeat[Key(r)] + sendIn[r] <= 3 * Period
        \/ missed[r] = 3 /\ heartbeat[Key(r)] + sendIn[r] <= 4 * Period
StoppedMisses == \A r \in Realms : r \notin up => missed[r] = 4
\* The wait for the tick did not begin before the last round.
NowInRound == now + roundIn <= Period

NoFault == errors = 0 /\ restarts = 0

\* As long as no update failed and the login server was not restarted, a realm
\* shown as Recommended is one whose silence will be noticed: it is in the
\* map, or the write that shows it Offline is under way.
RecommendedIsTracked ==
    NoFault => \A k \in Keys : flag[k] = "Recommended" =>
                     Tracked(k) \/ <<k, "Offline">> \in pending

\* A Recommended write under way is about a realm that is in the map.
PendingIsTracked == \A k \in Keys : <<k, "Recommended">> \in pending => Tracked(k)

\* The inductive invariant behind both.
StatusInv == TypeOK /\ AgeAccounted /\ StoppedMisses /\ NowInRound /\ PendingIsTracked
             /\ RecommendedIsTracked

\* A realm whose world server keeps running is in the end shown as Recommended
\* for good, with losses, failed updates and restarts on the way.
RunningRecommended ==
    \A r \in Realms : <>[](r \in up) => <>[](flag[Key(r)] = "Recommended")

\* A realm whose world server has ended is in the end shown as Offline for good.
StoppedOffline ==
    \A r \in Realms : <>[](r \notin up) => <>[](flag[Key(r)] = "Offline")

\* StoppedOffline where no update failed and nothing was restarted.
StoppedOfflineIfNoFault == []NoFault => StoppedOffline
=============================================================================
