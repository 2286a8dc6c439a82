------------------------- MODULE RealmStatusProofs -------------------------
(***************************************************************************)
(* Proofs about RealmStatus, for every set of realms, every period and     *)
(* every timeout of at least three periods.                                *)
(***************************************************************************)
EXTENDS RealmStatus, TLAPS

\* The u8 of a realm id is a key of the map.
LEMMA KeyType == \A r \in Realms : Key(r) \in Keys
BY DEF Keys

\* Every step keeps the types.
LEMMA TypeStep ==
    ASSUME TypeOK, NowInRound, [Next]_vars
    PROVE  TypeOK' /\ NowInRound'
<1> USE RealmsAssumption, TimersAssumption, FaultsAssumption, KeyType
        DEF TypeOK, NowInRound, Absent, Old, Tracked
<1>1. ASSUME NEW r \in Realms, WorldStart(r) PROVE TypeOK' /\ NowInRound'
  BY <1>1 DEF WorldStart
<1>2. ASSUME NEW r \in Realms, WorldStop(r) PROVE TypeOK' /\ NowInRound'
  BY <1>2 DEF WorldStop
<1>3. ASSUME NEW r \in Realms, Send(r) PROVE TypeOK' /\ NowInRound'
  BY <1>3 DEF Send
<1>4. ASSUME NEW r \in Realms, SendLost(r) PROVE TypeOK' /\ NowInRound'
  BY <1>4 DEF SendLost
<1>5. CASE Round
  <2>1. pending' \in SUBSET (Keys \X Flags)
    BY <1>5 DEF Round, Flags
  <2>2. heartbeat' \in [Keys -> 0..Absent]
    BY <1>5 DEF Round
  <2>3. QED BY <1>5, <2>1, <2>2 DEF Round
<1>6. ASSUME NEW w \in Keys \X Flags, Upsert(w) PROVE TypeOK' /\ NowInRound'
  BY <1>6 DEF Upsert
<1>7. CASE UpsertFails
  BY <1>7 DEF UpsertFails
<1>8. CASE Restart
  BY <1>8 DEF Restart
<1>9. CASE Tick
  <2>1. heartbeat' \in [Keys -> 0..Absent]
    BY <1>9 DEF Tick
  <2>2. sendIn' \in [Realms -> 0..Period] /\ roundIn' \in 0..Period /\ now' \in 0..Period
          /\ NowInRound'
    BY <1>9 DEF Tick
  <2>3. QED BY <1>9, <2>1, <2>2 DEF Tick
<1>10. CASE UNCHANGED vars
  BY <1>10 DEF vars
<1>11. QED
  BY <1>1, <1>2, <1>3, <1>4, <1>5, <1>6, <1>7, <1>8, <1>9, <1>10 DEF Next

\* The inductive invariant holds when everything is started.
LEMMA StatusInit == Init => StatusInv
<1> USE RealmsAssumption, TimersAssumption DEF Init, Absent, Old, Tracked
<1>1. Init => TypeOK
  BY DEF TypeOK, Flags
<1>2. Init => /\ AgeAccounted /\ StoppedMisses /\ NowInRound
                 /\ PendingIsTracked /\ RecommendedIsTracked
  BY DEF AgeAccounted, NowInRound, StoppedMisses, PendingIsTracked, RecommendedIsTracked
<1>3. QED BY <1>1, <1>2 DEF StatusInv

\* Every step keeps the account of the ages.
LEMMA AgeStep ==
    ASSUME TypeOK, AgeAccounted, StoppedMisses, [Next]_vars
    PROVE  AgeAccounted' /\ StoppedMisses'
<1> USE RealmsAssumption, TimersAssumption, KeyType
        DEF TypeOK, Absent, Old, Tracked, AgeAccounted, StoppedMisses
<1>1. ASSUME NEW r \in Realms, WorldStart(r) PROVE AgeAccounted' /\ StoppedMisses'
  BY <1>1 DEF WorldStart
<1>2. ASSUME NEW r \in Realms, WorldStop(r) PROVE AgeAccounted' /\ StoppedMisses'
  BY <1>2 DEF WorldStop
<1>3. ASSUME NEW r \in Realms, Send(r) PROVE AgeAccounted' /\ StoppedMisses'
  BY <1>3 DEF Send
<1>4. ASSUME NEW r \in Realms, SendLost(r) PROVE AgeAccounted' /\ StoppedMisses'
  BY <1>4 DEF SendLost
<1>5. CASE Round
  BY <1>5 DEF Round
<1>6. CASE (\E w \in Keys \X Flags : Upsert(w)) \/ UpsertFails \/ UNCHANGED vars
  BY <1>6 DEF Upsert, UpsertFails, vars
<1>7. CASE Restart
  BY <1>7 DEF Restart
<1>8. CASE Tick
  BY <1>8 DEF Tick
<1>9. QED
  BY <1>1, <1>2, <1>3, <1>4, <1>5, <1>6, <1>7, <1>8 DEF Next

\* Every step keeps listed realms tracked.
LEMMA TrackedStep ==
    ASSUME TypeOK, PendingIsTracked, RecommendedIsTracked, [Next]_vars
    PROVE  PendingIsTracked' /\ RecommendedIsTracked'
<1> USE RealmsAssumption, TimersAssumption, KeyType
        DEF TypeOK, Absent, Old, Tracked, PendingIsTracked, RecommendedIsTracked, NoFault
<1>1. ASSUME NEW r \in Realms, WorldStart(r) \/ WorldStop(r) \/ SendLost(r)
      PROVE  PendingIsTracked' /\ RecommendedIsTracked'
  BY <1>1 DEF WorldStart, WorldStop, SendLost
<1>2. ASSUME NEW r \in Realms, Send(r) PROVE PendingIsTracked' /\ RecommendedIsTracked'
  BY <1>2 DEF Send
<1>3. CASE Round
  BY <1>3 DEF Round, Silent
<1>4. ASSUME NEW w \in Keys \X Flags, Upsert(w)
      PROVE  PendingIsTracked' /\ RecommendedIsTracked'
  BY <1>4 DEF Upsert, Flags
<1>5. CASE UpsertFails
  BY <1>5, FaultsAssumption DEF UpsertFails
<1>6. CASE Restart
  BY <1>6, FaultsAssumption DEF Restart
<1>7. CASE Tick
  BY <1>7 DEF Tick
<1>8. CASE UNCHANGED vars
  BY <1>8 DEF vars
<1>9. QED
  BY <1>1, <1>2, <1>3, <1>4, <1>5, <1>6, <1>7, <1>8 DEF Next

\* The inductive invariant holds throughout: types, the account of the ages and
\* the tracking of listed realms.
THEOREM StatusInvariance == Spec => []StatusInv
<1>1. StatusInv /\ [Next]_vars => StatusInv'
  BY TypeStep, AgeStep, TrackedStep DEF StatusInv
<1>2. QED BY StatusInit, <1>1, PTL DEF Spec

\* Every variable keeps its type: in particular the ages and the counters that
\* stand for Instants never leave the range the comparisons are made in.
THEOREM StatusTypeCorrect == Spec => []TypeOK
<1>1. StatusInv => TypeOK
  BY DEF StatusInv
<1>2. QED BY StatusInvariance, <1>1, PTL

\* Until an update fails or the login server restarts, no listed realm has
\* slipped out of realmlist_updater's sight.
THEOREM RecommendedAreTracked == Spec => []RecommendedIsTracked
<1>1. StatusInv => RecommendedIsTracked
  BY DEF StatusInv
<1>2. QED BY StatusInvariance, <1>1, PTL

\* realmlist_updater takes a running realm for silent only after three missed
\* heartbeats, and after four where it waited a whole period for its tick: with
\* the code's 5 s and 15 s, and with any timeout of at least three periods.
THEOREM ToleratesLosses == Spec => LossesTolerated
<1>1. ASSUME StatusInv, [Next]_vars,
             NEW r \in Realms, r \in up, Tracked(Key(r)), ~Tracked(Key(r))', restarts' = restarts
      PROVE  missed[r] >= (IF now = Period THEN 4 ELSE 3)
  <2> USE RealmsAssumption, TimersAssumption, KeyType
          DEF StatusInv, TypeOK, Absent, Old, Tracked
  <2>1. CASE Round
    <3>1. heartbeat[Key(r)] > Timeout + now
      BY <1>1, <2>1 DEF Round, Silent
    <3>2. QED BY <1>1, <3>1 DEF AgeAccounted
  <2>2. CASE ~Round
    BY <1>1, <2>2 DEF Next, WorldStart, WorldStop, Send, SendLost, Upsert, UpsertFails,
                      Restart, Tick, vars
  <2>3. QED BY <2>1, <2>2
<1>2. StatusInv /\ [Next]_vars =>
        [\A r \in Realms : r \in up /\ Tracked(Key(r)) /\ ~Tracked(Key(r))' /\ restarts' = restarts
            => missed[r] >= (IF now = Period THEN 4 ELSE 3)]_vars
  BY <1>1
<1>3. QED BY StatusInvariance, <1>2, PTL DEF Spec, LossesTolerated
=============================================================================
