--------------------------- MODULE TestCatalog ---------------------------
(* Governed test resources: test definitions and suites, environment         *)
(* profiles, fault and mutation campaigns share one lifecycle, draft ->      *)
(* active -> archived, one version per change; and the test jobs that        *)
(* schedule a suite in a profile.  A status change locks its row.  A         *)
(* resource composed from others reads them WITHOUT a lock and is inserted   *)
(* by a later statement: another request may commit in between, which is why *)
(* a composition is a read step and an insert step of one request.           *)
EXTENDS Integers, FiniteSets

CONSTANTS
    Definitions, Suites, Profiles, FaultCampaigns, MutationCampaigns,
    Jobs,          \* test jobs; the run a job creates has the job's name
    Requests,      \* requests that compose a resource
    Idle, NotStored

VARIABLES
    catalog,       \* governed resource -> NotStored or its row
    jobs,          \* job -> NotStored or its row
    runs,          \* job -> NotStored or the test run dispatched for it
    reading        \* request -> Idle or what it has read before its insert

catalogVars == <<catalog, jobs, runs, reading>>

Governed == Definitions \cup Suites \cup Profiles \cup FaultCampaigns \cup MutationCampaigns

Statuses == {"draft", "active", "archived"}
Transitions == [draft |-> {"active"}, active |-> {"archived"}, archived |-> {}]

(* Who a snapshot points at, and at which version.                           *)
Refs == [of : Governed, version : 1..3]
RefTo(r) == [of |-> r, version |-> catalog[r].version]

GovernedRow == [status : Statuses, version : 1..3, refs : SUBSET Refs]
JobRow == [status : {"scheduled", "dispatched", "cancelled"}, version : 1..2,
           refs : SUBSET Refs, cases : SUBSET Refs]
RunRow == [refs : SUBSET Refs, cases : SUBSET Refs]

ReadingRow(names) == [name : names, refs : SUBSET Refs, cases : SUBSET Refs]

(* An identifier belongs to one table, and no row is mistaken for none.      *)
ASSUME CatalogAssumption ==
    /\ Suites \cap Profiles = {} /\ (Suites \cup MutationCampaigns) \cap Jobs = {}
    /\ NotStored \notin GovernedRow /\ NotStored \notin JobRow /\ NotStored \notin RunRow

Stored(r) == catalog[r] # NotStored
IsActive(r) == Stored(r) /\ catalog[r].status = "active"
NewRow(refs) == [status |-> "draft", version |-> 1, refs |-> refs]

-----------------------------------------------------------------------------
(* Creation of what is composed of nothing.  An identifier in use answers    *)
(* with the stored row or a conflict, and changes nothing.                   *)
Create(r) ==
    /\ ~Stored(r)
    /\ catalog' = [catalog EXCEPT ![r] = NewRow({})]
    /\ UNCHANGED <<jobs, runs, reading>>

CreateDefinition(d) == Create(d)
CreateEnvironmentProfile(p) == Create(p)
CreateFaultCampaign(c) == Create(c)

(* A status change under the row lock: the status the resource has already   *)
(* is a replay, a stale version or a status out of order is refused.         *)
ChangeStatus(r, status, expected) ==
    /\ Stored(r)
    /\ catalog[r].status # status
    /\ catalog[r].version = expected
    /\ status \in Transitions[catalog[r].status]
    /\ catalog' = [catalog EXCEPT ![r].status = status, ![r].version = @ + 1]
    /\ UNCHANGED <<jobs, runs, reading>>

UpdateCatalogStatus(r, status, expected) ==
    r \in Definitions \cup Suites /\ ChangeStatus(r, status, expected)
UpdateProfileStatus(p, status, expected) ==
    p \in Profiles /\ ChangeStatus(p, status, expected)
UpdateFaultCampaignStatus(c, status, expected) ==
    c \in FaultCampaigns /\ ChangeStatus(c, status, expected)
UpdateMutationCampaignStatus(c, status, expected) ==
    c \in MutationCampaigns /\ ChangeStatus(c, status, expected)

-----------------------------------------------------------------------------
(* Composition: the request reads, then inserts.                             *)
Reading(name, refs, cases) == [name |-> name, refs |-> refs, cases |-> cases]

Reads(q, name, refs, cases) ==
    /\ reading' = [reading EXCEPT ![q] = Reading(name, refs, cases)]
    /\ UNCHANGED <<catalog, jobs, runs>>

(* A suite needs every definition it names to be active and keeps the        *)
(* version of each.                                                          *)
ReadDefinitions(q, s, ds) ==
    /\ reading[q] = Idle /\ ~Stored(s)
    /\ ds # {} /\ \A d \in ds : IsActive(d)
    /\ Reads(q, s, {RefTo(d) : d \in ds}, {})

(* A mutation campaign is composed from an active suite.                     *)
ReadSuiteForCampaign(q, c, s) ==
    /\ reading[q] = Idle /\ ~Stored(c)
    /\ IsActive(s)
    /\ Reads(q, c, {RefTo(s)}, {})

(* A job reads its profile, if it names one, which must be active, ...       *)
ReadProfile(q, j, ps) ==
    /\ reading[q] = Idle /\ jobs[j] = NotStored
    /\ \A p \in ps : IsActive(p)
    /\ Reads(q, j, {RefTo(p) : p \in ps}, {})

(* ... and by a later statement its suite, if it names one, whose            *)
(* composition it copies.  A suite of another type than the job selects is   *)
(* refused: the request is abandoned.                                        *)
ReadSuiteForJob(q, s) ==
    /\ reading[q] # Idle /\ reading[q].name \in Jobs
    /\ \A ref \in reading[q].refs : ref.of \notin Suites
    /\ jobs[reading[q].name] = NotStored
    /\ IsActive(s)
    /\ Reads(q, reading[q].name, reading[q].refs \cup {RefTo(s)}, catalog[s].refs)

\* Faulty variant: the snapshot takes the version at the time of the insert.
PersistRereading(q) ==
    LET r == reading[q] IN
    /\ r # Idle /\ r.name \in Suites \cup MutationCampaigns
    /\ catalog' = IF Stored(r.name) THEN catalog
                  ELSE [catalog EXCEPT ![r.name] = NewRow({RefTo(ref.of) : ref \in r.refs})]
    /\ reading' = [reading EXCEPT ![q] = Idle]
    /\ UNCHANGED <<jobs, runs>>

(* The insert: an identifier taken meanwhile is a conflict.                  *)
Persist(q) ==
    LET r == reading[q] IN
    /\ r # Idle /\ r.name \in Suites \cup MutationCampaigns
    /\ catalog' = IF Stored(r.name) THEN catalog
                  ELSE [catalog EXCEPT ![r.name] = NewRow(r.refs)]
    /\ reading' = [reading EXCEPT ![q] = Idle]
    /\ UNCHANGED <<jobs, runs>>

CreateTestJob(q) ==
    LET r == reading[q] IN
    /\ r # Idle /\ r.name \in Jobs
    /\ jobs' = IF jobs[r.name] # NotStored THEN jobs
               ELSE [jobs EXCEPT ![r.name] = [status |-> "scheduled", version |-> 1,
                                              refs |-> r.refs, cases |-> r.cases]]
    /\ reading' = [reading EXCEPT ![q] = Idle]
    /\ UNCHANGED <<catalog, runs>>

(* A refused or failed request forgets what it read.                         *)
Abandon(q) ==
    /\ reading[q] # Idle
    /\ reading' = [reading EXCEPT ![q] = Idle]
    /\ UNCHANGED <<catalog, jobs, runs>>

-----------------------------------------------------------------------------
(* The scheduler turns a due job into a run from what the job stored.        *)
DispatchJob(j) ==
    /\ jobs[j] # NotStored /\ jobs[j].status = "scheduled"
    /\ runs' = [runs EXCEPT ![j] = [refs |-> jobs[j].refs, cases |-> jobs[j].cases]]
    /\ jobs' = [jobs EXCEPT ![j].status = "dispatched", ![j].version = @ + 1]
    /\ UNCHANGED <<catalog, reading>>

CancelTestJob(j) ==
    /\ jobs[j] # NotStored /\ jobs[j].status = "scheduled"
    /\ jobs' = [jobs EXCEPT ![j].status = "cancelled", ![j].version = @ + 1]
    /\ UNCHANGED <<catalog, runs, reading>>

-----------------------------------------------------------------------------
CatalogInit ==
    /\ catalog = [r \in Governed |-> NotStored]
    /\ jobs = [j \in Jobs |-> NotStored]
    /\ runs = [j \in Jobs |-> NotStored]
    /\ reading = [q \in Requests |-> Idle]

(* What may happen to the resources R.                                       *)
Govern(R) ==
    \/ \E r \in R :
          \/ r \in Definitions /\ CreateDefinition(r)
          \/ r \in Profiles /\ CreateEnvironmentProfile(r)
          \/ r \in FaultCampaigns /\ CreateFaultCampaign(r)
    \/ \E r \in R, status \in Statuses, expected \in 1..2 :
          \/ UpdateCatalogStatus(r, status, expected)
          \/ UpdateProfileStatus(r, status, expected)
          \/ UpdateFaultCampaignStatus(r, status, expected)
          \/ UpdateMutationCampaignStatus(r, status, expected)

Compose(q) ==
    \/ \E s \in Suites, ds \in SUBSET Definitions : ReadDefinitions(q, s, ds)
    \/ \E c \in MutationCampaigns, s \in Suites : ReadSuiteForCampaign(q, c, s)
    \/ Persist(q)
    \/ Abandon(q)

Schedule(q) ==
    \/ \E j \in Jobs, ps \in SUBSET Profiles : Cardinality(ps) <= 1 /\ ReadProfile(q, j, ps)
    \/ \E s \in Suites : ReadSuiteForJob(q, s)
    \/ CreateTestJob(q)
    \/ \E j \in Jobs : DispatchJob(j) \/ CancelTestJob(j)

-----------------------------------------------------------------------------
CatalogTypeOK ==
    /\ \A r \in Governed : catalog[r] = NotStored \/ catalog[r] \in GovernedRow
    /\ \A j \in Jobs : jobs[j] = NotStored \/ jobs[j] \in JobRow
    /\ \A j \in Jobs : runs[j] = NotStored \/ runs[j] \in RunRow

(* A version at which the resource was active: it was activated once, from   *)
(* its first version.                                                        *)
WasActive(ref) == Stored(ref.of) /\ ref.version = 2 /\ catalog[ref.of].version >= 2

(* Every composition and every schedule names versions that were active,     *)
(* however resources were archived between the unlocked read and the insert, *)
(* and while the job waited for its time.                                    *)
CompositionsAreOfActiveVersions ==
    /\ \A r \in Governed : Stored(r) => \A ref \in catalog[r].refs : WasActive(ref)
    /\ \A j \in Jobs : jobs[j] # NotStored => \A ref \in jobs[j].refs \cup jobs[j].cases : WasActive(ref)

(* A run executes what its job was scheduled with: same profile and suite    *)
(* versions, and exactly the cases the suite was composed of.                *)
RunsAreWhatWasScheduled ==
    \A j \in Jobs : runs[j] # NotStored =>
        /\ jobs[j].status = "dispatched"
        /\ runs[j].refs = jobs[j].refs
        /\ runs[j].cases = UNION {catalog[ref.of].refs : ref \in {x \in runs[j].refs : x.of \in Suites}}
=============================================================================
