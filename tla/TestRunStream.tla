--------------------------- MODULE TestRunStream ---------------------------
(***************************************************************************)
(* Live delivery of a test run's states: test_runs/router.py publishes the *)
(* committed row on the run's Redis channel after the commit,              *)
(* test_runs/realtime.py serves each WebSocket viewer a snapshot and then  *)
(* the channel.  Two requests may publish in the opposite order of their   *)
(* commits; a publication may fail, and its request has committed already. *)
(* Redis keeps the order of one channel and forgets who is not subscribed. *)
(***************************************************************************)
EXTENDS TestRunLifecycle, Sequences, SequencesExt

CONSTANTS
    Viewers,       \* WebSocket clients of the run
    MaxOpen,       \* bound on requests between their commit and their publish
    Nothing        \* what a viewer shows before its first message

ASSUME StreamAssumption == Nothing \notin RunRow

VARIABLES
    unpublished,   \* committed rows whose request has not published yet
    conn,          \* state of each viewer's connection
    snapshot,      \* the row read for a connection's snapshot
    queue,         \* messages Redis holds for each subscriber
    shown,         \* what each viewer shows
    faults         \* whether anything may fail in this behaviour

streamVars == <<suite, required, run, results, events,
          unpublished, conn, snapshot, queue, shown, faults>>

\* A run POSTed to /test-runs is published, one the scheduler inserted is not.
StreamInit ==
    /\ LifecycleInit
    /\ unpublished \in {{}, {run}}
    /\ conn = [v \in Viewers |-> "closed"]
    /\ snapshot = [v \in Viewers |-> Nothing]
    /\ queue = [v \in Viewers |-> <<>>]
    /\ shown = [v \in Viewers |-> Nothing]
    /\ faults \in BOOLEAN

\* The external viewer (CarSystemUI) drops what is not newer than what it
\* shows.  Faulty variants: it shows whatever arrives; it waits for the next
\* version exactly.
ShowAnything(v, row) == shown' = [shown EXCEPT ![v] = row]

ShowConsecutive(v, row) ==
    shown' = [shown EXCEPT ![v] =
        IF @ = Nothing \/ row.version = @.version + 1 THEN row ELSE @]

Show(v, row) ==
    shown' = [shown EXCEPT ![v] =
        IF @ = Nothing \/ row.version > @.version THEN row ELSE @]

\* An effective request of TestRunLifecycle commits and has yet to publish.
Commit ==
    /\ Cardinality(unpublished) < MaxOpen
    /\ LifecycleNext
    /\ unpublished' = unpublished \cup {run'}
    /\ UNCHANGED <<conn, snapshot, queue, shown, faults>>

\* publish_test_run_message.  Faulty variant: only viewers that have their
\* snapshot are subscribed.
PublishToLive(row) ==
    /\ row \in unpublished
    /\ unpublished' = unpublished \ {row}
    /\ queue' = [v \in Viewers |->
                   IF conn[v] = "live" THEN Append(queue[v], row) ELSE queue[v]]
    /\ UNCHANGED <<lifecycleVars, conn, snapshot, shown, faults>>

Publish(row) ==
    /\ row \in unpublished
    /\ unpublished' = unpublished \ {row}
    /\ queue' = [v \in Viewers |->
                   IF conn[v] # "closed" THEN Append(queue[v], row) ELSE queue[v]]
    /\ UNCHANGED <<lifecycleVars, conn, snapshot, shown, faults>>

\* Redis is unavailable, or the process dies between commit and publish.
LosePublication(row) ==
    /\ faults
    /\ row \in unpublished
    /\ unpublished' = unpublished \ {row}
    /\ UNCHANGED <<lifecycleVars, conn, snapshot, queue, shown, faults>>

\* stream_test_run: subscribe first, read the row, accept, send the snapshot.
Subscribe(v) ==
    /\ conn[v] = "closed"
    /\ conn' = [conn EXCEPT ![v] = "subscribed"]
    /\ UNCHANGED <<lifecycleVars, unpublished, snapshot, queue, shown, faults>>

ReadSnapshot(v) ==
    /\ conn[v] = "subscribed"
    /\ conn' = [conn EXCEPT ![v] = "accepted"]
    /\ snapshot' = [snapshot EXCEPT ![v] = run]
    /\ UNCHANGED <<lifecycleVars, unpublished, queue, shown, faults>>

SendSnapshot(v) ==
    /\ conn[v] = "accepted"
    /\ conn' = [conn EXCEPT ![v] = "live"]
    /\ snapshot' = [snapshot EXCEPT ![v] = Nothing]
    /\ Show(v, snapshot[v])
    /\ UNCHANGED <<lifecycleVars, unpublished, queue, faults>>

Forward(v) ==
    /\ conn[v] = "live"
    /\ queue[v] # <<>>
    /\ queue' = [queue EXCEPT ![v] = Tail(@)]
    /\ Show(v, Head(queue[v]))
    /\ UNCHANGED <<lifecycleVars, unpublished, conn, snapshot, faults>>

\* The viewer leaves, Redis fails (close 1013) or the process dies; the
\* viewer keeps what it shows and may connect again.
Close(v) ==
    /\ faults
    /\ conn[v] # "closed"
    /\ conn' = [conn EXCEPT ![v] = "closed"]
    /\ snapshot' = [snapshot EXCEPT ![v] = Nothing]
    /\ queue' = [queue EXCEPT ![v] = <<>>]
    /\ UNCHANGED <<lifecycleVars, unpublished, shown, faults>>

Deliver(v) == Subscribe(v) \/ ReadSnapshot(v) \/ SendSnapshot(v) \/ Forward(v)

StreamNext ==
    \/ Commit
    \/ \E row \in unpublished : Publish(row) \/ LosePublication(row)
    \/ \E v \in Viewers : Deliver(v) \/ Close(v)

\* A request that has committed goes on to publish, and an open connection
\* forwards what it holds, unless Redis, a process or the network fails.
\* Nobody has to connect, and no client has to finish the run.
StreamFairness ==
    /\ WF_streamVars(\E row \in unpublished : Publish(row))
    /\ \A v \in Viewers : WF_streamVars(ReadSnapshot(v) \/ SendSnapshot(v) \/ Forward(v))

StreamSpec == StreamInit /\ [][StreamNext]_streamVars /\ StreamFairness

-----------------------------------------------------------------------------
(* Properties *)

\* Type correctness of the run, the connections and what travels on them.
StreamTypeOK ==
    /\ LifecycleTypeOK
    /\ unpublished \subseteq RunRow
    /\ conn \in [Viewers -> {"closed", "subscribed", "accepted", "live"}]
    /\ snapshot \in [Viewers -> RunRow \cup {Nothing}]
    /\ queue \in [Viewers -> Seq(RunRow)]
    /\ shown \in [Viewers -> RunRow \cup {Nothing}]

\* architecture decision 20: publications overtake one another and a viewer
\* may reconnect at any moment, yet what it shows never goes back a version.
ViewNeverRegresses ==
    [][\A v \in Viewers :
         shown[v] # Nothing => shown'[v] # Nothing /\ shown'[v].version >= shown[v].version]_streamVars

\* Nothing goes back: a finished run takes no late result or command, and what
\* a viewer shows stays at its version or moves to a later one.
OnlyForward == FinishedIsFinal /\ ViewNeverRegresses

\* Subscribing before reading the row closes the gap between snapshot and
\* updates: while nothing fails, a live viewer that is behind has the newest
\* state queued, or the request that committed it is about to publish it.
NewestIsOnItsWay ==
    /\ StreamTypeOK
    /\ \A v \in Viewers : conn[v] = "live" =>
         /\ shown[v] # Nothing
         /\ ~faults => \/ shown[v].version = run.version
                      \/ run \in ToSet(queue[v]) \cup unpublished

\* While nothing fails a live viewer shows the newest state again and again,
\* and so ends up showing the one the run ends in.
LiveViewersCatchUp ==
    \A v \in Viewers :
        []<>(~faults /\ conn[v] = "live" => shown[v].version = run.version)
=============================================================================
