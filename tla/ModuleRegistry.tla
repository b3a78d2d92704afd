--------------------------- MODULE ModuleRegistry ---------------------------
(***************************************************************************)
(* Availability leases of the module registry: registry/service.py         *)
(* (update_module, issue_module_credential, heartbeat_module,              *)
(* reconcile_expired_modules) and registry/reconciler.py.                  *)
(*                                                                         *)
(* Heartbeats and the reconciler take a module's row FOR UPDATE.  The two  *)
(* administrative requests read it without a lock; when they flush, the    *)
(* ORM writes only the columns whose new value differs from the one it     *)
(* has read, over whatever was committed in between.                       *)
(*                                                                         *)
(* A lease is the time left of it, so the clock needs no bound.            *)
(* last_seen_at is set and cleared with the lease and is left out.         *)
(***************************************************************************)
EXTENDS Integers, FiniteSets

CONSTANTS
    Modules,        \* registered platform modules
    Workloads,      \* those that authenticate by SPIFFE name, not by token
    Admins,         \* administrative requests
    Reconcilers,    \* API replicas, one reconciler loop each
    LeaseDuration,  \* lease_duration_seconds
    MaxHeartbeats,  \* bound on the heartbeats of each module
    MaxRequests,    \* bound on administrative requests
    None            \* NULL, and the absence of a request

VARIABLES
    modules,        \* table platform_modules
    request,        \* administrative transactions in flight
    held,           \* rows each reconciler holds FOR UPDATE
    beats,          \* heartbeats accepted from each module
    requests        \* administrative requests begun so far

registryVars == <<modules, request, held, beats, requests>>

ModuleStatus == {"registered", "active", "degraded", "inactive"}
Operational == {"active", "degraded"}
ModuleRow == [status : ModuleStatus, lease : 0 .. LeaseDuration \cup {None},
              credential : BOOLEAN]
Request == [module : Modules, loaded : ModuleRow, status : ModuleStatus,
            rotates : BOOLEAN]

ASSUME RegistryAssumption ==
    /\ IsFiniteSet(Modules)
    /\ Workloads \subseteq Modules
    /\ LeaseDuration \in Nat \ {0}
    /\ MaxHeartbeats \in Nat
    /\ MaxRequests \in Nat
    /\ None \notin Nat \cup Request

Held == UNION {held[r] : r \in Reconcilers}
IsOperational(m) == modules[m].status \in Operational

\* The sender knows the newest token, or its certificate names the module.
ValidModuleAuthentication(m) == m \in Workloads \/ modules[m].credential

\* Every module is a new registration: no credential, no lease.
RegistryInit ==
    /\ modules = [m \in Modules |->
                    [status |-> "registered", lease |-> None, credential |-> FALSE]]
    /\ request = [a \in Admins |-> None]
    /\ held = [r \in Reconcilers |-> {}]
    /\ beats = [m \in Modules |-> 0]
    /\ requests = 0

-----------------------------------------------------------------------------
(* PATCH /modules/{id} and POST /modules/{id}/credentials *)

\* session.get, and the attributes the handler then sets.
Load(a, m, status, rotates) ==
    /\ request[a] = None
    /\ requests < MaxRequests
    /\ requests' = requests + 1
    /\ request' = [request EXCEPT ![a] =
                     [module |-> m, loaded |-> modules[m],
                      status |-> status, rotates |-> rotates]]
    /\ UNCHANGED <<modules, held, beats>>

\* ModuleUpdate.require_change keeps operational states for heartbeats.
\* Faulty variant: it does not.
LoadForAnyUpdate(a, m) ==
    \E status \in ModuleStatus : Load(a, m, status, FALSE)

LoadForUpdate(a, m) ==
    \E status \in ModuleStatus \ Operational : Load(a, m, status, FALSE)

LoadForRotation(a, m) ==
    Load(a, m, IF IsOperational(m) THEN "registered" ELSE modules[m].status, TRUE)

\* What a flush leaves in a column.
WriteIfChanged(current, loaded, new) == IF new = loaded THEN current ELSE new

\* The UPDATE waits for a reconciler that holds the row.
Flush(a) ==
    /\ request[a] # None
    /\ LET q == request[a]
           row == modules[q.module]
       IN  /\ q.module \notin Held
           /\ modules' = [modules EXCEPT ![q.module] =
                [status |-> WriteIfChanged(row.status, q.loaded.status, q.status),
                 lease |-> IF q.rotates
                           THEN WriteIfChanged(row.lease, q.loaded.lease, None)
                           ELSE row.lease,
                 credential |-> q.rotates \/ row.credential]]
    /\ request' = [request EXCEPT ![a] = None]
    /\ UNCHANGED <<held, beats, requests>>

-----------------------------------------------------------------------------
(* POST /modules/{id}/heartbeat *)

\* Faulty variant: the row is not locked.
HeartbeatUnlocked(m) ==
    /\ ValidModuleAuthentication(m)
    /\ beats[m] < MaxHeartbeats
    /\ beats' = [beats EXCEPT ![m] = @ + 1]
    /\ \E s \in Operational :
         modules' = [modules EXCEPT ![m].status = s, ![m].lease = LeaseDuration]
    /\ UNCHANGED <<request, held, requests>>

\* The sender is authenticated against the locked row.
Heartbeat(m) ==
    /\ ValidModuleAuthentication(m)
    /\ m \notin Held
    /\ beats[m] < MaxHeartbeats
    /\ beats' = [beats EXCEPT ![m] = @ + 1]
    /\ \E s \in Operational :
         modules' = [modules EXCEPT ![m].status = s, ![m].lease = LeaseDuration]
    /\ UNCHANGED <<request, held, requests>>

-----------------------------------------------------------------------------
(* run_registry_reconciler *)

Expired(m) == IsOperational(m) /\ modules[m].lease = 0

\* FOR UPDATE SKIP LOCKED.
Select(r, S) ==
    /\ held[r] = {}
    /\ S # {}
    /\ held' = [held EXCEPT ![r] = S]
    /\ UNCHANGED <<modules, request, beats, requests>>

\* Faulty variant: degraded modules are forgotten.
SelectExpiredActive(r) ==
    Select(r, {m \in Modules : Expired(m) /\ modules[m].status = "active"} \ Held)

SelectExpired(r) == Select(r, {m \in Modules : Expired(m)} \ Held)

CommitExpired(r) ==
    /\ held[r] # {}
    /\ modules' = [m \in Modules |->
                     IF m \in held[r] THEN [modules[m] EXCEPT !.status = "inactive"]
                     ELSE modules[m]]
    /\ held' = [held EXCEPT ![r] = {}]
    /\ UNCHANGED <<request, beats, requests>>

\* The cycle raises or the replica dies: rolled back, retried after a pause.
AbortReconciliation(r) ==
    /\ held[r] # {}
    /\ held' = [held EXCEPT ![r] = {}]
    /\ UNCHANGED <<modules, request, beats, requests>>

Tick ==
    /\ \E m \in Modules : modules[m].lease \notin {None, 0}
    /\ modules' = [m \in Modules |->
                     IF modules[m].lease \in {None, 0} THEN modules[m]
                     ELSE [modules[m] EXCEPT !.lease = @ - 1]]
    /\ UNCHANGED <<request, held, beats, requests>>

-----------------------------------------------------------------------------

AdminRequest(a) ==
    \/ \E m \in Modules : LoadForUpdate(a, m) \/ LoadForRotation(a, m)
    \/ Flush(a)

Reconcile(r) == SelectExpired(r) \/ CommitExpired(r)

RegistryNext ==
    \/ \E a \in Admins : AdminRequest(a)
    \/ \E m \in Modules : Heartbeat(m)
    \/ \E r \in Reconcilers : Reconcile(r) \/ AbortReconciliation(r)
    \/ Tick

RegistrySpec == RegistryInit /\ [][RegistryNext]_registryVars

\* Time passes, the reconciler loop keeps running and not every cycle of it
\* fails.  Administrators and modules owe nothing.
RegistryFairness ==
    /\ WF_registryVars(Tick)
    /\ \A r \in Reconcilers : WF_registryVars(SelectExpired(r)) /\ SF_registryVars(CommitExpired(r))

RegistryFairSpec == RegistrySpec /\ RegistryFairness

-----------------------------------------------------------------------------
(* Properties *)

\* Type correctness of the module rows, requests and locks.
RegistryTypeOK ==
    /\ modules \in [Modules -> ModuleRow]
    /\ request \in [Admins -> Request \cup {None}]
    /\ held \in [Reconcilers -> SUBSET Modules]
    /\ beats \in [Modules -> 0 .. MaxHeartbeats]
    /\ requests \in 0 .. MaxRequests

\* Replicas divide the expired rows among them, and what one is about to mark
\* inactive is still expired: no heartbeat, update or rotation got in between.
ReconciledAreExpired ==
    /\ RegistryTypeOK
    /\ \A r, s \in Reconcilers : r # s => held[r] \cap held[s] = {}
    /\ \A m \in Held : Expired(m)

\* Operational and without the lease by which a reconciler could notice silence.
Stranded(m) == IsOperational(m) /\ modules[m].lease = None

\* "active and degraded status must be reported by module heartbeat"
\* (registry/schemas.py): no administrative flush, however stale what it read,
\* and no reconciler makes a module operational.  An operational module loses
\* its lease in one way only: issue_module_credential read it while it was not
\* operational and flushes over the heartbeat that came in between.
OnlyHeartbeatsActivate ==
    [][\A m \in Modules :
         /\ modules'[m].status \in Operational /\ ~IsOperational(m) => beats'[m] > beats[m]
         /\ Stranded(m)' /\ ~Stranded(m) =>
              \E a \in Admins :
                 /\ request[a] # None /\ request'[a] = None
                 /\ request[a].module = m /\ request[a].rotates
                 /\ request[a].loaded.status \notin Operational]_registryVars

\* A module that falls silent while it holds a lease is marked inactive, or
\* an administrator resets it: a cycle that fails is made up for by a later one.
LeasesRunOut ==
    \A m \in Modules :
        IsOperational(m) /\ modules[m].lease # None
            ~> ~IsOperational(m) \/ modules[m].lease = None
=============================================================================
