------------------------ MODULE ClusterConnectionProofs ------------------------
(***************************************************************************)
(* Theorems about ClusterConnection.  The age of the record's heartbeat is *)
(* never below the time since an agent was served, unless the cluster is    *)
(* simulated; this is what a "connected" on the screen rests on.  That a   *)
(* healthy agent connects is a liveness property and left to TLC.          *)
(***************************************************************************)
EXTENDS ClusterConnection, TLAPS

\* What is written to the record stays a cluster, and a merge does, too.
LEMMA ClusterTypes ==
  /\ NoCluster \in Cluster
  /\ \A c \in Cluster, a \in Ages : Reconciled(c, a) \in Cluster
  /\ \A c \in Cluster : Contacted(c) \in Cluster /\ Severed(c) \in Cluster
  /\ \A c, d \in Cluster : Merged(d, c) \in Cluster
<1> USE ConnectionAssumption
<1>1. NoCluster \in Cluster
  BY DEF NoCluster, Cluster
<1>2. ASSUME NEW c \in Cluster, NEW a \in Ages PROVE Reconciled(c, a) \in Cluster
  <2>1. StateAt(a) \in {"offline", "stale", "reconnecting", "connected"}
    BY DEF StateAt, Ages, Never
  <2> QED BY <2>1 DEF Reconciled, Cluster
<1>3. ASSUME NEW c \in Cluster PROVE Contacted(c) \in Cluster /\ Severed(c) \in Cluster
  BY DEF Contacted, Severed, Cluster
<1>4. ASSUME NEW c \in Cluster, NEW d \in Cluster PROVE Merged(d, c) \in Cluster
  BY DEF Merged, Cluster
<1> QED BY <1>1, <1>2, <1>3, <1>4

\* The writes that the handlers ask for.
LEMMA WriteTypes ==
  /\ \A t \in Tokens : Save(t) \in Write /\ Forget(t) \in Write
  /\ \A c \in Cluster : Upsert(c) \in Write
  /\ Drop \in Write
BY DEF Write

\* Time only raises an age, and leaves it in its range.
LEMMA OlderGrows ==
  ASSUME NEW a \in Ages
  PROVE  Older(a) \in Ages /\ a <= Older(a)
BY ConnectionAssumption DEF Older, Ages, Never

LEMMA OlderMonotone ==
  ASSUME NEW a \in Ages, NEW b \in Ages, a <= b
  PROVE  Older(a) <= Older(b)
BY ConnectionAssumption DEF Older, Ages, Never

-----------------------------------------------------------------------------
\* Serving an agent keeps the types of what it touches.
LEMMA ServedType ==
  ASSUME TypeOK, NEW c \in Cluster, Served(c)
  PROVE  mem' \in Cluster /\ age' \in Ages /\ heard' \in Ages /\ writes' \subseteq Write
<1> USE ConnectionAssumption, ClusterTypes DEF TypeOK
<1>1. 0 \in Ages
  BY DEF Ages, Never
<1>2. Contacted(c) \in Cluster /\ Upsert(Contacted(c)) \in Write
  BY WriteTypes
<1> QED BY <1>1, <1>2 DEF Served

\* TypeOK is inductive: every variable keeps its type in every handler.
LEMMA TypeStep == TypeOK /\ [Next]_vars => TypeOK'
<1> SUFFICES ASSUME TypeOK, [Next]_vars PROVE TypeOK'
  OBVIOUS
<1> USE ConnectionAssumption
<1>a. Reconciled(mem, age) \in Cluster /\ AgeShown \in Ages /\ 0 \in Ages /\ Never \in Ages
  BY ClusterTypes DEF TypeOK, AgeShown, Shown, Ages, Never
<1>b. NoCluster \in Cluster /\ Tokens \subseteq Nat
  BY ClusterTypes DEF Tokens
<1>c. ASSUME Event PROVE budget' \in 0 .. MaxEvents
  BY <1>c DEF TypeOK, Event
<1>d. Idle \in Hydration
  BY <1>b DEF Idle, Hydration
<1>1. CASE CreateCluster
  <2> DEFINE c == [NoCluster EXCEPT !.conn = "pending", !.code = 1, !.cipher = 1]
  <2>1. 1 \in Tokens /\ 1 \in 0 .. MaxTokens
    BY <1>1 DEF CreateCluster, Tokens
  <2>2. c \in Cluster
    BY <2>1, <1>b DEF Cluster, NoCluster
  <2>3. Upsert(c) \in Write /\ Save(1) \in Write
    BY <2>1, <2>2, WriteTypes
  <2> HIDE DEF c
  <2>4. /\ mem' = c /\ writes' = writes \cup {Upsert(c), Save(1)}
        /\ issued' = 1 /\ cache' = cache \cup {1} /\ active' = 1
    BY <1>1 DEF CreateCluster, c
  <2> QED BY <1>1, <1>a, <2>1, <2>2, <2>3, <2>4 DEF CreateCluster, TypeOK, environment
<1>2. CASE VerifyClusterConnection
  <2> DEFINE c == [Contacted(mem) EXCEPT !.sim = TRUE, !.code = NoToken]
  <2>1. c \in Cluster
    BY ClusterTypes DEF TypeOK, Cluster
  <2>2. Upsert(c) \in Write
    BY <2>1, WriteTypes
  <2> HIDE DEF c
  <2>3. mem' = c /\ writes' = writes \cup {Upsert(c)}
    BY <1>2 DEF VerifyClusterConnection, c
  <2>4. mem.code \in Tokens
    BY <1>2 DEF VerifyClusterConnection, TypeOK, Cluster
  <2> QED BY <1>2, <1>a, <1>c, <2>1, <2>2, <2>3, <2>4 DEF VerifyClusterConnection, TypeOK
<1>3. CASE RegenerateClusterCredentials
  <2> DEFINE t == issued + 1
             c == [mem EXCEPT !.conn = "pending", !.code = t, !.cipher = t]
  <2>1. t \in Tokens /\ t \in 0 .. MaxTokens
    BY <1>3 DEF RegenerateClusterCredentials, Tokens, TypeOK
  <2>2. c \in Cluster
    BY <2>1 DEF Cluster, TypeOK
  <2>3. Upsert(c) \in Write /\ Save(t) \in Write /\ \A o \in cache : Forget(o) \in Write
    BY <2>1, <2>2, WriteTypes DEF TypeOK
  <2> HIDE DEF c, t
  <2>4. /\ mem' = c /\ issued' = t /\ cache' = {t} /\ active' = t
        /\ writes' = writes \cup {Forget(o) : o \in cache} \cup {Upsert(c), Save(t)}
    BY <1>3 DEF RegenerateClusterCredentials, c, t
  <2> QED BY <1>3, <1>c, <2>1, <2>2, <2>3, <2>4 DEF RegenerateClusterCredentials, TypeOK
<1>4. CASE RevokeAgentToken
  <2> DEFINE c == [Severed(mem) EXCEPT !.cipher = NoToken]
  <2>1. c \in Cluster
    BY ClusterTypes DEF TypeOK, Cluster
  <2>2. Upsert(c) \in Write /\ \A o \in cache : Forget(o) \in Write
    BY <2>1, WriteTypes DEF TypeOK
  <2> HIDE DEF c
  <2>3. /\ mem' = c /\ cache' = {} /\ active' = NoToken
        /\ writes' = writes \cup {Forget(o) : o \in cache} \cup {Upsert(c)}
    BY <1>4 DEF RevokeAgentToken, c
  <2> QED BY <1>4, <1>c, <2>1, <2>2, <2>3 DEF RevokeAgentToken, TypeOK
<1>5. CASE DisconnectCluster
  <2>1. Severed(mem) \in Cluster /\ Upsert(Severed(mem)) \in Write
    BY ClusterTypes, WriteTypes DEF TypeOK
  <2> QED BY <1>5, <1>c, <2>1 DEF DisconnectCluster, TypeOK
<1>6. CASE DeleteCluster
  BY <1>6, <1>a, <1>b, <1>c, WriteTypes DEF DeleteCluster, TypeOK
<1>7. CASE Install
  <2>1. ASSUME mem.cipher # NoToken PROVE mem.cipher \in Tokens
    BY <2>1 DEF TypeOK, Cluster
  <2> QED BY <1>7, <1>a, <2>1 DEF Install, Shown, TypeOK, firestore
<1>8. CASE Reconcile
  BY <1>8, <1>a DEF Reconcile, Shown, TypeOK, firestore, environment
<1>9. ASSUME NEW t \in Tokens, RequestCached(t) PROVE TypeOK'
  <2>1. mem' \in Cluster /\ age' \in Ages /\ heard' \in Ages /\ writes' \subseteq Write
    BY <1>9, ServedType DEF RequestCached, TypeOK
  <2> QED BY <1>9, <2>1 DEF RequestCached, TypeOK
<1>10. ASSUME NEW t \in Tokens, RequestLookedUp(t) PROVE TypeOK'
  <2>1. [tok |-> t, read |-> FALSE, rec |-> NoCluster] \in Lookup
    BY <1>b DEF Lookup
  <2> QED BY <1>10, <2>1 DEF RequestLookedUp, TypeOK, firestore
<1>11. ASSUME NEW t \in Tokens, AgentStops(t) PROVE TypeOK'
  BY <1>11, <1>c DEF AgentStops, TypeOK, backend, firestore
<1>12. ASSUME NEW l \in lookups, LookupReadsCluster(l) PROVE TypeOK'
  <2>1. [l EXCEPT !.read = TRUE, !.rec = doc] \in Lookup
    BY DEF TypeOK, Lookup
  <2> QED BY <1>12, <2>1 DEF LookupReadsCluster, TypeOK, firestore, environment
<1>13. ASSUME NEW l \in lookups, LookupEnds(l) PROVE TypeOK'
  <2>1. l.tok \in Tokens /\ l.rec \in Cluster
    BY DEF TypeOK, Lookup
  <2> DEFINE c == IF l.read /\ Exists(l.rec) THEN l.rec ELSE mem
  <2>2. c \in Cluster
    BY <2>1 DEF TypeOK
  <2>3. Served(c)
    BY <1>13 DEF LookupEnds
  <2> HIDE DEF c
  <2>4. mem' \in Cluster /\ age' \in Ages /\ heard' \in Ages /\ writes' \subseteq Write
    BY <2>2, <2>3, ServedType
  <2> QED BY <1>13, <2>1, <2>4 DEF LookupEnds, TypeOK, environment
<1>14. ASSUME NEW w \in writes, Lands(w) PROVE TypeOK'
  <2>1. \/ \E t \in Tokens : w = Save(t) \/ w = Forget(t)
        \/ \E c \in Cluster : w = Upsert(c)
        \/ w = Drop
    BY DEF TypeOK, Write
  <2>2. (w.op = "saveToken" => w.tok \in Tokens) /\ w.rec \in Cluster
    BY <2>1, <1>b DEF Save, Forget, Upsert, Drop
  <2>3. Merged(doc, w.rec) \in Cluster
    BY <2>2, ClusterTypes DEF TypeOK
  <2>4. rows' \subseteq Tokens
    BY <1>14, <2>2 DEF Lands, TypeOK
  <2>5. doc' \in Cluster
    BY <1>14, <2>3, <1>b DEF Lands, TypeOK
  <2> QED BY <1>14, <2>4, <2>5 DEF Lands, TypeOK, backend, environment
<1>15. ASSUME NEW w \in writes, WriteFails(w) PROVE TypeOK'
  BY <1>15, <1>c DEF WriteFails, TypeOK, backend
<1>16. CASE Tick
  BY <1>16, OlderGrows DEF Tick, TypeOK, firestore
<1>17. CASE Restart
  <2>1. [Idle EXCEPT !.at = "reads"] \in Hydration
    BY <1>d DEF Hydration
  <2> QED BY <1>17, <1>a, <1>b, <1>c, <2>1 DEF Restart, TypeOK
<1>18. CASE HydrateTokens
  <2>1. hyd' \in Hydration
    BY <1>18 DEF HydrateTokens, TypeOK, Hydration
  <2> QED BY <1>18, <2>1 DEF HydrateTokens, TypeOK, firestore, environment
<1>19. CASE HydrateCluster
  <2>1. hyd' \in Hydration
    BY <1>19 DEF HydrateCluster, TypeOK, Hydration
  <2> QED BY <1>19, <2>1 DEF HydrateCluster, TypeOK, firestore, environment
<1>23. CASE HydrateSetsTokens
  <2>1. hyd' \in Hydration /\ hyd.toks \subseteq Tokens
    BY <1>23 DEF HydrateSetsTokens, TypeOK, Hydration
  <2> QED BY <1>23, <2>1 DEF HydrateSetsTokens, TypeOK, firestore, environment
<1>20. CASE HydrateEnds
  <2>1. hyd.rec \in Cluster
    BY DEF TypeOK, Hydration
  <2>2. heard .. Never \subseteq Ages
    BY DEF TypeOK, Ages, Never
  <2> QED BY <1>20, <1>d, <2>1, <2>2 DEF HydrateEnds, TypeOK, firestore, environment
<1>21. CASE HydrateFails
  BY <1>21, <1>c, <1>d DEF HydrateFails, TypeOK, firestore
<1>22. CASE UNCHANGED vars
  BY <1>22 DEF vars, backend, firestore, environment, TypeOK
<1> QED
  BY <1>1, <1>2, <1>3, <1>4, <1>5, <1>6, <1>7, <1>8, <1>9, <1>10, <1>11, <1>12, <1>13,
     <1>14, <1>15, <1>16, <1>17, <1>18, <1>19, <1>20, <1>21, <1>22, <1>23
  DEF Next, Request, LookupRead, LookupEnd, HydrateStep

\* The state of the backend, of Firestore and of what is under way between them
\* keeps its type in every behaviour, for every threshold and every bound.
THEOREM TypeCorrect == Spec => []TypeOK
<1>1. Init => TypeOK
  BY ConnectionAssumption, ClusterTypes
  DEF Init, TypeOK, Ages, Never, Idle, Hydration, NoToken
<1> QED BY <1>1, TypeStep, PTL DEF Spec

-----------------------------------------------------------------------------
\* What the operators' screens rest on: the record of a cluster that is not
\* simulated has no younger heartbeat than the last one that was served.
AgeIsHonest == ~mem.sim => heard <= age

\* Only a deep-enough silence and no other state is reconciled to "connected".
LEMMA ShownConnected ==
  ASSUME TypeOK, Exists(mem), ~mem.sim, Shown.conn = "connected"
  PROVE  age <= ReconnectingAfter
<1>1. mem.conn \notin {"absent", "pending", "offline"}
  BY DEF Shown, Reconciled, Exists
<1>2. Shown = [mem EXCEPT !.conn = StateAt(age)]
  BY <1>1 DEF Shown, Reconciled
<1>3. StateAt(age) = "connected"
  BY <1>2 DEF TypeOK, Cluster
<1> QED BY <1>3, ConnectionAssumption DEF StateAt, TypeOK, Ages, Never

LEMMA ReconcileKeepsSim ==
  ASSUME TypeOK
  PROVE  Shown.sim = mem.sim /\ (~mem.sim => AgeShown = age)
BY DEF Shown, Reconciled, AgeShown, TypeOK, Cluster

LEMMA HonestStep == TypeOK /\ AgeIsHonest /\ [Next]_vars => AgeIsHonest'
<1> SUFFICES ASSUME TypeOK, AgeIsHonest, [Next]_vars PROVE AgeIsHonest'
  OBVIOUS
<1>a. heard <= Never /\ age <= Never /\ heard \in Nat /\ age \in Nat
  BY ConnectionAssumption DEF TypeOK, Ages, Never
<1>1. CASE CreateCluster
  BY <1>1, <1>a DEF CreateCluster, AgeIsHonest
<1>2. CASE VerifyClusterConnection
  <2>1. mem'.sim
    BY <1>2 DEF VerifyClusterConnection, Contacted, TypeOK, Cluster
  <2> QED BY <2>1 DEF AgeIsHonest
<1>3. CASE RegenerateClusterCredentials
  BY <1>3 DEF RegenerateClusterCredentials, AgeIsHonest, TypeOK, Cluster
<1>4. CASE RevokeAgentToken
  BY <1>4 DEF RevokeAgentToken, AgeIsHonest, Severed, TypeOK, Cluster
<1>5. CASE DisconnectCluster
  BY <1>5 DEF DisconnectCluster, AgeIsHonest, Severed, TypeOK, Cluster
<1>6. CASE DeleteCluster
  BY <1>6, <1>a DEF DeleteCluster, AgeIsHonest
<1>7. CASE Install
  BY <1>7, ReconcileKeepsSim DEF Install, AgeIsHonest
<1>8. CASE Reconcile
  BY <1>8, ReconcileKeepsSim DEF Reconcile, AgeIsHonest
<1>9. ASSUME NEW t \in Tokens, RequestCached(t) PROVE AgeIsHonest'
  BY <1>9 DEF RequestCached, Served, AgeIsHonest
<1>10. ASSUME NEW t \in Tokens, RequestLookedUp(t) PROVE AgeIsHonest'
  BY <1>10 DEF RequestLookedUp, AgeIsHonest
<1>11. ASSUME NEW t \in Tokens, AgentStops(t) PROVE AgeIsHonest'
  BY <1>11 DEF AgentStops, AgeIsHonest, backend
<1>12. ASSUME NEW l \in lookups, LookupReadsCluster(l) PROVE AgeIsHonest'
  BY <1>12 DEF LookupReadsCluster, AgeIsHonest
<1>13. ASSUME NEW l \in lookups, LookupEnds(l) PROVE AgeIsHonest'
  <2> DEFINE c == IF l.read /\ Exists(l.rec) THEN l.rec ELSE mem
  <2>1. Served(c)
    BY <1>13 DEF LookupEnds
  <2>2. Exists(c) \/ c = mem
    OBVIOUS
  <2> HIDE DEF c
  <2> QED BY <2>1, <2>2 DEF Served, AgeIsHonest
<1>14. ASSUME NEW w \in writes, Lands(w) \/ WriteFails(w) PROVE AgeIsHonest'
  BY <1>14 DEF Lands, WriteFails, AgeIsHonest, backend
<1>16. CASE Tick
  <2>1. age \in Ages /\ heard \in Ages
    BY DEF TypeOK
  <2> QED BY <1>16, <2>1, OlderMonotone DEF Tick, AgeIsHonest
<1>17. CASE Restart
  BY <1>17, <1>a DEF Restart, AgeIsHonest
<1>18. CASE HydrateTokens \/ HydrateCluster \/ HydrateFails \/ HydrateSetsTokens
  BY <1>18 DEF HydrateTokens, HydrateCluster, HydrateFails, HydrateSetsTokens, AgeIsHonest
<1>20. CASE HydrateEnds
  BY <1>20, <1>a, ConnectionAssumption DEF HydrateEnds, AgeIsHonest, Never
<1>22. CASE UNCHANGED vars
  BY <1>22 DEF vars, backend, AgeIsHonest
<1> QED
  BY <1>1, <1>2, <1>3, <1>4, <1>5, <1>6, <1>7, <1>8, <1>9, <1>10, <1>11, <1>12, <1>13,
     <1>14, <1>16, <1>17, <1>18, <1>20, <1>22
  DEF Next, Request, LookupRead, LookupEnd, HydrateStep

\* A cluster that is not simulated is shown as connected only within 45 s of a
\* call of its agent that was served.
THEOREM ConnectedIsHeardTheorem == Spec => []ConnectedIsHeard
<1>1. Init => TypeOK /\ AgeIsHonest
  BY ConnectionAssumption, ClusterTypes
  DEF Init, TypeOK, AgeIsHonest, Ages, Never, Idle, Hydration, NoToken
<1>2. TypeOK /\ AgeIsHonest => ConnectedIsHeard
  <2> SUFFICES ASSUME TypeOK, AgeIsHonest, Exists(mem), Shown.conn = "connected", ~mem.sim
               PROVE  heard <= ReconnectingAfter
    BY DEF ConnectedIsHeard
  <2>1. age <= ReconnectingAfter /\ heard <= age
    BY ShownConnected DEF AgeIsHonest
  <2> QED BY <2>1, ConnectionAssumption DEF TypeOK, Ages, Never
<1> QED BY <1>1, <1>2, TypeStep, HonestStep, PTL DEF Spec

-----------------------------------------------------------------------------
\* No step but an agent's call, pairing and a read of Firestore brings a
\* disconnected cluster back.
LEMMA DisconnectStep ==
  ASSUME TypeOK, [Next]_vars, Exists(mem), mem.conn = "offline"
  PROVE  \/ ~Exists(mem)' \/ mem'.conn \in {"offline", "pending"}
         \/ \E t \in Tokens : RequestCached(t)
         \/ LookupEnd \/ VerifyClusterConnection \/ HydrateEnds
<1>1. Shown = mem
  BY DEF Shown, Reconciled
<1>2. CASE mem' = mem
  BY <1>2
<1>3. CASE RegenerateClusterCredentials
  <2>1. mem'.conn = "pending"
    BY <1>3 DEF RegenerateClusterCredentials, TypeOK, Cluster
  <2> QED BY <2>1
<1>4. CASE RevokeAgentToken \/ DisconnectCluster
  <2>1. mem'.conn = "offline"
    BY <1>4 DEF RevokeAgentToken, DisconnectCluster, Severed, TypeOK, Cluster
  <2> QED BY <2>1
<1>5. CASE DeleteCluster \/ Restart
  <2>1. mem' = NoCluster
    BY <1>5 DEF DeleteCluster, Restart
  <2> QED BY <2>1 DEF Exists, NoCluster
<1>6. CASE Install \/ Reconcile
  BY <1>6, <1>1, <1>2 DEF Install, Reconcile
<1>7. CASE CreateCluster
  <2>1. mem'.conn = "pending"
    BY <1>7 DEF CreateCluster, NoCluster
  <2> QED BY <2>1
<1>8. CASE UNCHANGED vars
  BY <1>8, <1>2 DEF vars, backend
<1>9. ASSUME NEW t \in Tokens, RequestLookedUp(t) \/ AgentStops(t) PROVE mem' = mem
  BY <1>9 DEF RequestLookedUp, AgentStops, backend
<1>10. ASSUME NEW l \in lookups, LookupReadsCluster(l) PROVE mem' = mem
  BY <1>10 DEF LookupReadsCluster
<1>11. ASSUME NEW w \in writes, Lands(w) \/ WriteFails(w) PROVE mem' = mem
  BY <1>11 DEF Lands, WriteFails, backend
<1>12. CASE Tick \/ HydrateTokens \/ HydrateCluster \/ HydrateFails \/ HydrateSetsTokens
  BY <1>12, <1>2 DEF Tick, HydrateTokens, HydrateCluster, HydrateFails, HydrateSetsTokens
<1> QED
  BY <1>2, <1>3, <1>4, <1>5, <1>6, <1>7, <1>8, <1>9, <1>10, <1>11, <1>12
  DEF Next, Request, LookupRead, HydrateStep

\* A disconnect is ended by an agent's call, by pairing or by a record read from
\* Firestore, never by the monitor, by a look at the cluster or by time.
THEOREM DisconnectHoldsTheorem == Spec => DisconnectHolds
<1>1. TypeOK /\ [Next]_vars =>
        [Exists(mem) /\ mem.conn = "offline" /\ Exists(mem)' /\ mem'.conn \notin {"offline", "pending"}
         => \/ \E t \in Tokens : RequestCached(t)
            \/ LookupEnd
            \/ VerifyClusterConnection \/ HydrateEnds]_vars
  BY DisconnectStep
<1> QED BY <1>1, TypeCorrect, PTL DEF Spec, DisconnectHolds

-----------------------------------------------------------------------------
\* A token that nothing accepts, has read or is about to store is not brought
\* back by any handler: only a new token is saved.
LEMMA GoneStep ==
  ASSUME TypeOK, [Next]_vars, NEW t \in Tokens, Gone(t)
  PROVE  Gone(t)'
<1> USE DEF Gone
<1>a. t \in Nat /\ issued \in Nat /\ t <= issued
  BY DEF TypeOK, Tokens
<1>b. \A c, o : Save(t) # Upsert(c) /\ Save(t) # Forget(o) /\ Save(t) # Drop
  BY DEF Save, Upsert, Forget, Drop
<1>c. \A o : Save(t) = Save(o) => t = o
  BY DEF Save
<1>d. ASSUME NEW c, Served(c) PROVE Save(t) \notin writes'
  BY <1>d, <1>b DEF Served
<1>1. CASE CreateCluster
  BY <1>1, <1>a DEF CreateCluster
<1>2. CASE VerifyClusterConnection
  BY <1>2, <1>b DEF VerifyClusterConnection
<1>3. CASE RegenerateClusterCredentials
  <2> DEFINE n == issued + 1
             c == [mem EXCEPT !.conn = "pending", !.code = n, !.cipher = n]
  <2>1. t # n /\ t \in 1 .. n
    BY <1>a
  <2> HIDE DEF n, c
  <2>2. /\ issued' = n /\ cache' = {n}
        /\ writes' = writes \cup {Forget(o) : o \in cache} \cup {Upsert(c), Save(n)}
        /\ UNCHANGED <<lookups, hyd, rows>>
    BY <1>3 DEF RegenerateClusterCredentials, c, n
  <2>3. Save(t) \notin writes'
    BY <1>b, <1>c, <2>1, <2>2
  <2> QED BY <2>1, <2>2, <2>3
<1>4. CASE RevokeAgentToken
  BY <1>4, <1>b DEF RevokeAgentToken
<1>5. CASE DisconnectCluster
  BY <1>5, <1>b DEF DisconnectCluster
<1>6. CASE DeleteCluster
  BY <1>6, <1>b DEF DeleteCluster
<1>7. CASE Install \/ Reconcile
  BY <1>7 DEF Install, Reconcile, firestore
<1>8. ASSUME NEW o \in Tokens, RequestCached(o) PROVE Gone(t)'
  BY <1>8, <1>d DEF RequestCached
<1>9. ASSUME NEW o \in Tokens, RequestLookedUp(o) PROVE Gone(t)'
  <2>1. lookups' \subseteq lookups \cup {[tok |-> o, read |-> FALSE, rec |-> NoCluster]}
    BY <1>9 DEF RequestLookedUp
  <2>2. o = t => lookups' = lookups
    BY <1>9 DEF RequestLookedUp
  <2>3. \A l \in lookups' : l.tok # t
    BY <2>1, <2>2
  <2> QED BY <1>9, <2>3 DEF RequestLookedUp, firestore
<1>10. ASSUME NEW o \in Tokens, AgentStops(o) PROVE Gone(t)'
  BY <1>10 DEF AgentStops, backend, firestore
<1>11. ASSUME NEW l \in lookups, LookupReadsCluster(l) PROVE Gone(t)'
  <2>1. [l EXCEPT !.read = TRUE, !.rec = doc].tok = l.tok
    BY DEF TypeOK, Lookup
  <2>2. \A k \in lookups' : k.tok # t
    BY <1>11, <2>1 DEF LookupReadsCluster
  <2> QED BY <1>11, <2>2 DEF LookupReadsCluster, firestore
<1>12. ASSUME NEW l \in lookups, LookupEnds(l) PROVE Gone(t)'
  <2> DEFINE c == IF l.read /\ Exists(l.rec) THEN l.rec ELSE mem
  <2>1. Served(c)
    BY <1>12 DEF LookupEnds
  <2> HIDE DEF c
  <2>2. Save(t) \notin writes'
    BY <2>1, <1>d
  <2> QED BY <1>12, <2>2 DEF LookupEnds
<1>13. ASSUME NEW w \in writes, Lands(w) PROVE Gone(t)'
  <2>1. w.op = "saveToken" => w.tok # t
    <3>1. \/ \E o \in Tokens : w = Save(o) \/ w = Forget(o)
          \/ \E c \in Cluster : w = Upsert(c)
          \/ w = Drop
      BY DEF TypeOK, Write
    <3> QED BY <3>1 DEF Save, Forget, Upsert, Drop
  <2>2. t \notin rows'
    BY <1>13, <2>1 DEF Lands
  <2> QED BY <1>13, <2>2 DEF Lands, backend
<1>14. ASSUME NEW w \in writes, WriteFails(w) PROVE Gone(t)'
  BY <1>14 DEF WriteFails, backend
<1>15. CASE Tick
  BY <1>15 DEF Tick, firestore
<1>16. CASE Restart
  BY <1>16 DEF Restart, Idle
<1>17. CASE HydrateTokens \/ HydrateCluster
  BY <1>17 DEF HydrateTokens, HydrateCluster, firestore, TypeOK, Hydration
<1>20. CASE HydrateSetsTokens
  <2>1. hyd'.toks = {}
    BY <1>20 DEF HydrateSetsTokens, TypeOK, Hydration
  <2> QED BY <1>20, <2>1 DEF HydrateSetsTokens, firestore
<1>18. CASE HydrateEnds \/ HydrateFails
  BY <1>18 DEF HydrateEnds, HydrateFails, firestore, Idle
<1>19. CASE UNCHANGED vars
  BY <1>19 DEF vars, backend, firestore
<1> QED
  BY <1>1, <1>2, <1>3, <1>4, <1>5, <1>6, <1>7, <1>8, <1>9, <1>10, <1>11, <1>12, <1>13,
     <1>14, <1>15, <1>16, <1>17, <1>18, <1>19, <1>20
  DEF Next, Request, LookupRead, LookupEnd, HydrateStep

\* Once the deletion of a token has taken effect in the cache, in Firestore and in
\* every lookup, no later restart, rotation or manifest makes it work again.
THEOREM GoneStaysGoneTheorem == Spec => GoneStaysGone
<1>1. TypeOK /\ [Next]_vars => [\A t \in Tokens : Gone(t) => Gone(t)']_vars
  BY GoneStep
<1> QED BY <1>1, TypeCorrect, PTL DEF Spec, GoneStaysGone
=============================================================================
