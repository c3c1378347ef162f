--------------------------- MODULE ClusterConnection ---------------------------
(***************************************************************************)
(* The life of one cluster in the backend (server/store.ts): creation,     *)
(* pairing, rotation, revocation and deletion of its credentials, the      *)
(* authentication of its agents, and the connection state that heartbeats, *)
(* the monitor and the operators write.                                    *)
(*                                                                         *)
(* One backend process (Cloud Run, no volume) holds the cluster and its    *)
(* tokens in maps and mirrors them to Firestore without waiting for the    *)
(* writes, which land in any order, fail, or are lost with the process; a   *)
(* new process listens while it still reads Firestore.                      *)
(*                                                                         *)
(* Tokens are numbered as they are issued; the pairing code and the        *)
(* install key that come with a token bear its number.  Time is counted in *)
(* units of 45 s, in which an agent sends at least one heartbeat (every    *)
(* 30 s, sooner while it reconnects).  agentStatus, connectionStatus and    *)
(* isLastKnownState follow connectionState and are left out: a cluster is   *)
(* "disconnected" when it is offline.  So is the expiry of a code: a code   *)
(* that has expired is one that nobody pairs with.                         *)
(***************************************************************************)
EXTENDS Naturals, FiniteSets

CONSTANTS
  ReconnectingAfter, StaleAfter, OfflineAfter,  \* 45, 90 and 180 s, in units
  MaxTokens,  \* bound: credentials issued for the cluster
  MaxEvents,  \* bound: commands of operators and faults in one behaviour
  MaxWrites   \* bound: writes to Firestore after which nothing is asked for

ASSUME ConnectionAssumption ==
  /\ ReconnectingAfter \in Nat /\ StaleAfter \in Nat /\ OfflineAfter \in Nat
  /\ ReconnectingAfter <= StaleAfter /\ StaleAfter <= OfflineAfter
  /\ MaxTokens \in Nat /\ MaxEvents \in Nat /\ MaxWrites \in Nat

VARIABLES
  issued,   \* tokens issued so far
  mem,      \* clusters: the record in the memory of the process
  age,      \* its lastHeartbeat: time passed since
  cache,    \* clusterTokens
  active,   \* activeAgentTokens
  lookups,  \* authenticateAgentTokenAsync that found a row and is suspended
  hyd,      \* initPersistence: how far it is, and what it has read of Firestore
  writes,   \* writes to Firestore under way
  doc,      \* the cluster's document
  rows,     \* clusterTokens documents
  agents,   \* tokens of the agents that run and reach the backend
  sent,     \* those that have sent a heartbeat in this unit
  budget,   \* commands and faults that are still to come
  heard     \* history: time since a handler served an authenticated agent

backend == <<mem, age, cache, active, lookups, hyd>>
firestore == <<writes, doc, rows>>
environment == <<agents, sent, budget>>
vars == <<issued, backend, firestore, environment, heard>>

Tokens == 1 .. MaxTokens
NoToken == 0
Never == OfflineAfter + 1       \* ages are not counted further
Ages == 0 .. Never

Cluster ==
  [conn   : {"absent", "pending", "connected", "reconnecting", "stale", "offline"},
   sim    : BOOLEAN,                   \* isSimulated
   code   : Tokens \cup {NoToken},     \* connectionCode and installKey
   cipher : Tokens \cup {NoToken}]     \* tokenCiphertext

NoCluster ==
  [conn |-> "absent", sim |-> FALSE, code |-> NoToken, cipher |-> NoToken]

Exists(c) == c.conn # "absent"

Save(t) == [op |-> "saveToken", tok |-> t, rec |-> NoCluster]
Forget(t) == [op |-> "deleteToken", tok |-> t, rec |-> NoCluster]
Upsert(c) == [op |-> "upsertCluster", tok |-> NoToken, rec |-> c]
Drop == [op |-> "deleteCluster", tok |-> NoToken, rec |-> NoCluster]

Write ==
  {Save(t) : t \in Tokens} \cup {Forget(t) : t \in Tokens} \cup {Upsert(c) : c \in Cluster} \cup {Drop}

Lookup == [tok : Tokens, read : BOOLEAN, rec : Cluster]

Hydration ==
  [at : {"off", "reads", "sets"}, read : SUBSET {"tokens", "cluster"}, toks : SUBSET Tokens, rec : Cluster]

Idle == [at |-> "off", read |-> {}, toks |-> {}, rec |-> NoCluster]

TypeOK ==
  /\ issued \in 0 .. MaxTokens
  /\ mem \in Cluster /\ doc \in Cluster
  /\ age \in Ages
  /\ cache \subseteq Tokens /\ rows \subseteq Tokens /\ agents \subseteq Tokens
  /\ sent \subseteq Tokens
  /\ active \in Tokens \cup {NoToken}
  /\ lookups \subseteq Lookup
  /\ hyd \in Hydration
  /\ writes \subseteq Write
  /\ budget \in 0 .. MaxEvents
  /\ heard \in Ages

Init ==
  /\ issued = 0
  /\ mem = NoCluster /\ age = Never /\ cache = {} /\ active = NoToken /\ lookups = {} /\ hyd = Idle
  /\ writes = {} /\ doc = NoCluster /\ rows = {}
  /\ agents = {} /\ sent = {} /\ budget = MaxEvents
  /\ heard = Never

-----------------------------------------------------------------------------
(* The connection state.                                                   *)

\* The state that so long a silence means.
StateAt(a) ==
  CASE a > OfflineAfter -> "offline"
    [] a > StaleAfter /\ a <= OfflineAfter -> "stale"
    [] a > ReconnectingAfter /\ a <= StaleAfter -> "reconnecting"
    [] a <= ReconnectingAfter -> "connected"

\* reconcileClusterConnectionState of a cluster that was heard that long ago.
Reconciled(c, a) ==
  CASE c.conn \in {"absent", "pending", "offline"} -> c
    [] c.conn \notin {"absent", "pending", "offline"} /\ c.sim -> [c EXCEPT !.conn = "connected"]
    [] OTHER -> [c EXCEPT !.conn = StateAt(a)]

\* Mutant: a cluster that was disconnected stays so.
ContactedUnlessOffline(c) == [c EXCEPT !.conn = IF @ = "offline" THEN @ ELSE "connected"]

\* registerAgent, recordAgentHeartbeat, syncClusterResources: whatever the state was.
Contacted(c) == [c EXCEPT !.conn = "connected"]

\* disconnectCluster, revokeAgentToken
Severed(c) == [c EXCEPT !.conn = "offline"]

\* upsertCluster sanitizes undefined fields away and merges the rest.
Merged(d, c) ==
  [c EXCEPT !.sim = c.sim \/ d.sim,
            !.code = IF c.code = NoToken THEN d.code ELSE c.code,
            !.cipher = IF c.cipher = NoToken THEN d.cipher ELSE c.cipher]

\* The handlers of server.ts first reconcile the cluster they show.
Shown == Reconciled(mem, age)

\* The heartbeat of a simulated cluster is renewed when it is looked at.
AgeShown == IF mem.sim /\ Shown.conn = "connected" THEN 0 ELSE age

Room == Cardinality(writes) < MaxWrites

\* One of the commands or faults that the bound leaves.
Event == budget > 0 /\ budget' = budget - 1

-----------------------------------------------------------------------------
(* The operators: server.ts, POST and DELETE /api/v1/clusters.             *)

CreateCluster ==
  /\ issued = 0 /\ MaxTokens > 0
  /\ LET c == [NoCluster EXCEPT !.conn = "pending", !.code = 1, !.cipher = 1] IN
       /\ mem' = c
       /\ writes' = writes \cup {Upsert(c), Save(1)}
  /\ issued' = 1 /\ age' = Never /\ cache' = cache \cup {1} /\ active' = 1
  /\ UNCHANGED <<lookups, hyd, doc, rows, environment, heard>>

VerifyClusterConnection ==
  /\ Event /\ Room /\ Exists(mem)
  /\ mem.conn # "connected" /\ mem.code # NoToken
  /\ LET c == [Contacted(mem) EXCEPT !.sim = TRUE, !.code = NoToken] IN
       /\ mem' = c
       /\ writes' = writes \cup {Upsert(c)}
  /\ age' = 0
  /\ UNCHANGED <<issued, cache, active, lookups, hyd, doc, rows, agents, sent, heard>>

RegenerateClusterCredentials ==
  /\ Event /\ Room /\ Exists(mem) /\ issued < MaxTokens
  /\ LET t == issued + 1
         c == [mem EXCEPT !.conn = "pending", !.code = t, !.cipher = t] IN
       /\ mem' = c
       /\ issued' = t /\ cache' = {t} /\ active' = t
       /\ writes' = writes \cup {Forget(o) : o \in cache} \cup {Upsert(c), Save(t)}
  /\ UNCHANGED <<age, lookups, hyd, doc, rows, agents, sent, heard>>

RevokeAgentToken ==
  /\ Event /\ Room /\ Exists(mem)
  /\ LET c == [Severed(mem) EXCEPT !.cipher = NoToken] IN
       /\ mem' = c
       /\ writes' = writes \cup {Forget(t) : t \in cache} \cup {Upsert(c)}
  /\ cache' = {} /\ active' = NoToken
  /\ UNCHANGED <<age, issued, lookups, hyd, doc, rows, agents, sent, heard>>

DisconnectCluster ==
  /\ Event /\ Room /\ Exists(mem)
  /\ mem' = Severed(mem)
  /\ writes' = writes \cup {Upsert(Severed(mem))}
  /\ UNCHANGED <<age, issued, cache, active, lookups, hyd, doc, rows, agents, sent, heard>>

DeleteCluster ==
  /\ Event /\ Room /\ Exists(mem)
  /\ mem' = NoCluster /\ age' = Never /\ cache' = {} /\ active' = NoToken
  /\ writes' = writes \cup {Drop}
  /\ UNCHANGED <<issued, lookups, hyd, doc, rows, agents, sent, heard>>

\* A manifest or install script is fetched and applied: getActiveAgentToken.
Install ==
  /\ Exists(mem)
  /\ mem' = Shown /\ age' = AgeShown
  /\ LET t == IF active # NoToken THEN active ELSE mem.cipher IN
       /\ t # NoToken
       /\ active' = t
       /\ agents' = agents \cup {t}
  /\ UNCHANGED <<issued, cache, lookups, hyd, firestore, sent, budget, heard>>

\* The monitor (every 15 s), getCluster, getClusters.
Reconcile ==
  /\ Exists(mem)
  /\ mem' = Shown /\ age' = AgeShown
  /\ UNCHANGED <<issued, cache, active, lookups, hyd, firestore, environment, heard>>

-----------------------------------------------------------------------------
(* The agents.                                                             *)

\* The handler behind requireAgentAuth; a heartbeat is not persisted, a
\* registration and telemetry are.  Without the cluster it answers 404.
Served(c) ==
  IF Exists(c)
  THEN /\ mem' = Contacted(c)
       /\ age' = 0 /\ heard' = 0
       /\ \/ writes' = writes
          \/ Room /\ writes' = writes \cup {Upsert(Contacted(c))}
  ELSE mem' = c /\ UNCHANGED <<age, heard, writes>>

\* The token is in the cache: the handler runs at once.
RequestCached(t) ==
  /\ t \in agents \ sent /\ t \in cache
  /\ sent' = sent \cup {t}
  /\ Served(mem)
  /\ UNCHANGED <<issued, cache, active, lookups, hyd, doc, rows, agents, budget>>

\* The token is not in the cache: Firestore is asked, and has it or has not.
RequestLookedUp(t) ==
  /\ t \in agents \ sent /\ t \notin cache
  /\ sent' = sent \cup {t}
  /\ lookups' = IF t \in rows THEN lookups \cup {[tok |-> t, read |-> FALSE, rec |-> NoCluster]}
                ELSE lookups
  /\ UNCHANGED <<age, issued, mem, cache, active, hyd, firestore, agents, budget, heard>>

\* The first await ends: a process that lacks the cluster reads it, too.
LookupReadsCluster(l) ==
  /\ ~l.read /\ ~Exists(mem)
  /\ lookups' = (lookups \ {l}) \cup {[l EXCEPT !.read = TRUE, !.rec = doc]}
  /\ UNCHANGED <<age, issued, mem, cache, active, hyd, firestore, environment, heard>>

\* The lookup ends: the token is cached, and the handler runs.
LookupEnds(l) ==
  /\ l.read \/ Exists(mem)
  /\ lookups' = lookups \ {l}
  /\ cache' = cache \cup {l.tok}
  /\ active' = l.tok
  /\ Served(IF l.read /\ Exists(l.rec) THEN l.rec ELSE mem)
  /\ UNCHANGED <<issued, hyd, doc, rows, environment>>

\* An agent stops, or loses the connection until it is installed again.
AgentStops(t) ==
  /\ Event /\ t \in agents
  /\ agents' = agents \ {t} /\ sent' = sent \ {t}
  /\ UNCHANGED <<issued, backend, firestore, heard>>

-----------------------------------------------------------------------------
(* Firestore, time, and the end of a process.                              *)

Lands(w) ==
  /\ writes' = writes \ {w}
  /\ rows' = CASE w.op = "saveToken" -> rows \cup {w.tok}
               [] w.op = "deleteToken" -> rows \ {w.tok}
               [] w.op = "deleteCluster" /\ Exists(doc) -> {}
               [] OTHER -> rows
  /\ doc' = CASE w.op = "upsertCluster" -> Merged(doc, w.rec)
              [] w.op = "deleteCluster" -> NoCluster
              [] OTHER -> doc
  /\ UNCHANGED <<issued, backend, environment, heard>>

\* The write is refused: the code logs it and goes on.
WriteFails(w) ==
  /\ Event
  /\ writes' = writes \ {w}
  /\ UNCHANGED <<issued, backend, doc, rows, agents, sent, heard>>

\* Mutant: the counter has no end.
OlderUnbounded(a) == a + 1

Older(a) == IF a < Never THEN a + 1 ELSE Never

\* A unit passes, in which every agent has sent its heartbeat.
Tick ==
  /\ agents \subseteq sent
  /\ sent' = {}
  /\ age' = Older(age) /\ heard' = Older(heard)
  /\ UNCHANGED <<issued, mem, cache, active, lookups, hyd, firestore, agents, budget>>

\* The container ends and another one starts; writes that have not landed are lost.
Restart ==
  /\ Event
  /\ mem' = NoCluster /\ age' = Never /\ cache' = {} /\ active' = NoToken
  /\ lookups' = {} /\ writes' = {}
  /\ hyd' = [Idle EXCEPT !.at = "reads"]
  /\ UNCHANGED <<issued, doc, rows, agents, sent, heard>>

\* initPersistence: the collections are read concurrently ...
HydrateTokens ==
  /\ hyd.at = "reads" /\ "tokens" \notin hyd.read
  /\ hyd' = [hyd EXCEPT !.read = @ \cup {"tokens"}, !.toks = rows]
  /\ UNCHANGED <<age, issued, mem, cache, active, lookups, firestore, environment, heard>>

HydrateCluster ==
  /\ hyd.at = "reads" /\ "cluster" \notin hyd.read
  /\ hyd' = [hyd EXCEPT !.read = @ \cup {"cluster"}, !.rec = doc]
  /\ UNCHANGED <<age, issued, mem, cache, active, lookups, firestore, environment, heard>>

\* A read fails: the process serves with what it has.
HydrateFails ==
  /\ Event /\ hyd.at = "reads"
  /\ hyd' = Idle
  /\ UNCHANGED <<age, issued, mem, cache, active, lookups, firestore, agents, sent, heard>>

\* ... and put into the maps over what is there: the tokens at once, ...
HydrateSetsTokens ==
  /\ hyd.at = "reads" /\ hyd.read = {"tokens", "cluster"}
  /\ cache' = cache \cup hyd.toks
  /\ hyd' = [hyd EXCEPT !.at = "sets", !.toks = {}]
  /\ UNCHANGED <<age, issued, mem, active, lookups, firestore, environment, heard>>

\* Mutant: a cluster that was read counts as heard now.
HydrateEndsAsHeard ==
  /\ hyd.at = "sets"
  /\ IF Exists(hyd.rec)
     THEN mem' = hyd.rec /\ age' = 0
     ELSE UNCHANGED <<mem, age>>
  /\ hyd' = Idle
  /\ UNCHANGED <<issued, cache, active, lookups, firestore, environment, heard>>

\* Mutant: the token is restored from the cluster's document as well.
HydrateEndsWithCipher ==
  /\ hyd.at = "sets"
  /\ cache' = cache \cup ({hyd.rec.cipher} \ {NoToken})
  /\ IF Exists(hyd.rec)
     THEN mem' = hyd.rec /\ age' \in heard .. Never
     ELSE UNCHANGED <<mem, age>>
  /\ hyd' = Idle
  /\ UNCHANGED <<issued, active, lookups, firestore, environment, heard>>

\* ... the cluster after further reads, whose failures are caught one by one.  The
\* lastHeartbeat of a document was written with some contact, the last one or an
\* earlier one (or by pairing, but then the cluster is simulated and nobody looks
\* at its age).
HydrateEnds ==
  /\ hyd.at = "sets"
  /\ IF Exists(hyd.rec)
     THEN mem' = hyd.rec /\ age' \in heard .. Never
     ELSE UNCHANGED <<mem, age>>
  /\ hyd' = Idle
  /\ UNCHANGED <<issued, cache, active, lookups, firestore, environment, heard>>

-----------------------------------------------------------------------------
Request(t) == RequestCached(t) \/ RequestLookedUp(t)

LookupRead == \E l \in lookups : LookupReadsCluster(l)

LookupEnd == \E l \in lookups : LookupEnds(l)

HydrateStep == HydrateTokens \/ HydrateCluster \/ HydrateSetsTokens \/ HydrateEnds

Next ==
  \/ CreateCluster \/ VerifyClusterConnection \/ RegenerateClusterCredentials
  \/ RevokeAgentToken \/ DisconnectCluster \/ DeleteCluster
  \/ Install \/ Reconcile
  \/ \E t \in Tokens : Request(t) \/ AgentStops(t)
  \/ LookupRead \/ LookupEnd
  \/ \E w \in writes : Lands(w) \/ WriteFails(w)
  \/ Tick \/ Restart \/ HydrateStep \/ HydrateFails

\* Agents keep sending, Node.js resumes what it suspended, Firestore
\* answers.  Nothing is assumed of the writes.
Fairness ==
  /\ \A t \in Tokens : WF_vars(Request(t))
  /\ WF_vars(LookupRead) /\ WF_vars(LookupEnd)
  /\ WF_vars(HydrateStep)
  /\ WF_vars(Tick)

Spec == Init /\ [][Next]_vars /\ Fairness

-----------------------------------------------------------------------------
(* Properties.                                                             *)

\* A cluster that is not simulated is shown as connected only if an
\* authenticated agent was served within 45 s, also when the record was
\* overwritten from Firestore meanwhile: no other handler refreshes it.
ConnectedIsHeard ==
  Exists(mem) /\ Shown.conn = "connected" /\ ~mem.sim => heard <= ReconnectingAfter

\* A disconnect, by an operator or by silence, is ended by an agent's call, by
\* pairing or by a record read from Firestore, never by the monitor or by time,
\* however young the last heartbeat is.
DisconnectHolds ==
  [][Exists(mem) /\ mem.conn = "offline" /\ Exists(mem)' /\ mem'.conn \notin {"offline", "pending"}
     => \/ \E t \in Tokens : RequestCached(t)
        \/ LookupEnd
        \/ VerifyClusterConnection \/ HydrateEnds]_vars

\* Nothing accepts the token, has read it or is about to store it.
Gone(t) ==
  /\ t \in 1 .. issued
  /\ t \notin cache \cup rows \cup hyd.toks
  /\ Save(t) \notin writes
  /\ \A l \in lookups : l.tok # t

\* Once the deletion of a token has taken effect everywhere, it never works
\* again, whatever restarts, rotations and manifests still do with the cluster.
GoneStaysGone == [][\A t \in Tokens : Gone(t) => Gone(t)']_vars

\* The agent's credential is in Firestore and is to stay there, and the process
\* holds the cluster or is yet to read it (it has not read that there is none).
Enrolled(t) ==
  /\ budget = 0 /\ t \in agents /\ t \in rows
  /\ Forget(t) \notin writes /\ Drop \notin writes
  /\ Exists(doc)
  /\ \/ Exists(mem)
     \/ /\ t \notin cache
        /\ "cluster" \in hyd.read => Exists(hyd.rec)
        /\ \A l \in lookups : l.read => Exists(l.rec)

\* Once no command and no fault follows, a running agent whose token is stored makes
\* the cluster connected for good, from every state: stale, disconnected,
\* pending, or in a process that has not read Firestore yet.
HealthyAgentConnects ==
  (\E t \in Tokens : Enrolled(t)) ~> [](Exists(mem) /\ Shown.conn = "connected")
=============================================================================
