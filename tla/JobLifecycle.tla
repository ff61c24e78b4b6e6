---------------------------- MODULE JobLifecycle ----------------------------
(***************************************************************************)
(* The life of the durable jobs of one terminal block over one connection: *)
(* the job records in the database, the job controller's calls to the      *)
(* remote host, the events that tell it of lost and restored connections,  *)
(* and the job managers, which outlive both the connection and the main    *)
(* server.  A call is three steps: it is sent, carried out on the remote   *)
(* host, answered; when the connection is lost in between, nobody knows    *)
(* whether it was carried out.                                             *)
(***************************************************************************)
EXTENDS Integers, TLC

CONSTANTS
    Jobs, NoJob,
    MaxLosses,    \* bound: how often the connection is lost
    MaxCrashes,   \* bound: how often the main server is killed
    MaxFailures,  \* bound: how many calls fail although their connection is up
    MaxDeaths,    \* bound: how many job managers die unasked
    MaxEnds,      \* bound: how many commands exit and outputs end
    MaxRestarts,  \* bound: how often the user restarts the block's job
    MaxPasses,    \* bound: how often the pruning worker runs
    MaxCooldowns, \* bound: how often a job is reconnected automatically once more
    Prompt        \* TRUE: a change of the connection is dealt with before the next one

ASSUME LifecycleAssumption ==
    /\ NoJob \notin Jobs
    /\ MaxLosses \in Nat /\ MaxCrashes \in Nat /\ MaxFailures \in Nat /\ MaxDeaths \in Nat
    /\ MaxEnds \in Nat /\ MaxRestarts \in Nat /\ MaxPasses \in Nat /\ MaxCooldowns \in Nat
    /\ Prompt \in BOOLEAN

VARIABLES
    job,          \* the database: waveobj.Job
    block,        \* and waveobj.Block
    starting,     \* DurableShellController.Start and StartJob, per job
    reconnecting, \* the doReconnectJob of reconnectGroup
    terminating,  \* the doTerminateJobManager of terminateJobManagerGroup
    closing,      \* TerminateAndDetachJob
    checks,       \* goroutines about to run tryTerminateJobManager
    connected,    \* jobConnStates
    autos,        \* attemptAutoReconnect, sleeping
    attempted,    \* the jobs that lastAutoReconnectAttempt knows
    controlled,   \* the block has a controller that knows its job
    candidates,   \* previousCandidates of the pruning worker
    doomed,       \* jobsToDelete of its pass, not yet deleted
    conn,         \* connStates[connection] and the worker's list
    signal,       \* reconcileCh holds a token
    routeEvents,  \* route events of each job, not yet handled
    connEvents,   \* connection events, not yet handled
    exitNotices,  \* JobCmdExitedCommand on its way
    up,           \* the connection
    route,        \* the jobs whose route is registered
    streaming,    \* the jobs whose output loop reads a live stream
    manager,      \* the job manager processes
    asked,        \* history: the jobs the user has ended
    bounds        \* what the bounds have been used up of

dbVars     == <<job, block, candidates, doomed>>
callVars   == <<starting, reconnecting, terminating, closing, checks>>
memoryVars == <<connected, autos, attempted, controlled>>
reconcileVars == <<conn, signal, connEvents>>
remoteVars == <<up, route, streaming, manager>>
eventVars  == <<routeEvents, exitNotices>>
vars == <<dbVars, callVars, memoryVars, reconcileVars, remoteVars, eventVars, asked, bounds>>

\* Every event is handled in a goroutine of its own: the order in which they were published says
\* nothing, and of those not yet handled only the number counts.
RouteChanges == {"up", "down"}
NoEvents(kinds) == [k \in kinds |-> 0]
Counted(events, kinds) == [k \in DOMAIN events |-> IF k \in kinds THEN events[k] + 1 ELSE events[k]]
Uncounted(events, kind) == [events EXCEPT ![kind] = @ - 1]

NoRecord == [status |-> "absent", reason |-> "none", pid |-> FALSE, marked |-> FALSE,
             exited |-> FALSE, streamDone |-> FALSE, attached |-> FALSE]
NoManager == [proc |-> "none", cmdDone |-> FALSE, outDone |-> FALSE]
IdleConn == [actual |-> FALSE, processed |-> FALSE, target |-> "none", todo |-> {}, on |-> NoJob]

\* The connection is up, and the job controller knows it.
NothingUnderWay ==
    /\ starting = [j \in Jobs |-> "none"] /\ reconnecting = [j \in Jobs |-> "none"]
    /\ terminating = [j \in Jobs |-> "none"] /\ closing = [j \in Jobs |-> "none"]
    /\ checks = [j \in Jobs |-> {}]
    /\ autos = {} /\ attempted = {} /\ candidates = {} /\ doomed = {}
    /\ up = TRUE /\ conn = [IdleConn EXCEPT !.actual = TRUE, !.processed = TRUE]
    /\ signal = FALSE /\ connEvents = NoEvents(BOOLEAN)
    /\ routeEvents = [j \in Jobs |-> NoEvents(RouteChanges)] /\ exitNotices = {}
    /\ asked = {}
    /\ bounds = [losses |-> 0, crashes |-> 0, failures |-> 0, deaths |-> 0, ends |-> 0, restarts |-> 0,
                  passes |-> 0, cooldowns |-> 0]

Init ==
    /\ job = [j \in Jobs |-> NoRecord] /\ block = [open |-> TRUE, jobId |-> NoJob]
    /\ controlled = FALSE /\ connected = {}
    /\ route = {} /\ streaming = {} /\ manager = [j \in Jobs |-> NoManager]
    /\ NothingUnderWay

-----------------------------------------------------------------------------
(* The database.  Every update is one transaction; of a record that has    *)
(* been deleted it fails, and every caller only logs that.                 *)

Stored(j) == job[j].status \notin {"absent", "deleted"}
Running(j) == job[j].status = "running"
Alive(j) == manager[j].proc = "alive"

Update(j, record) == job' = IF Stored(j) THEN [job EXCEPT ![j] = record] ELSE job

\* remoteTerminateJobManager, after its call has succeeded.
Terminated(record) ==
    [record EXCEPT !.status = "done", !.reason = "terminated", !.marked = FALSE, !.streamDone = TRUE]

\* Mutant: the reason is stored as the status.
GoneAsStatus(record) == [record EXCEPT !.status = "gone", !.reason = "none"]

Gone(record) == [record EXCEPT !.status = "done", !.reason = "gone"]

\* Mutant: one of the two is enough.
EitherEnded(record) == record.status = "running" /\ (record.exited \/ record.streamDone)

\* tryTerminateJobManager goes on only when the command has exited and its output has ended.
BothEnded(record) == record.status = "running" /\ record.exited /\ record.streamDone

\* Mutant: a job may be deleted as soon as it is done.
DoneIsUnused(record) == record.status = "done"

\* What a pass of the pruning worker takes for a candidate.
Unused(record) == record.status = "done" /\ ~record.attached

Publish(j, kinds) == routeEvents' = [routeEvents EXCEPT ![j] = Counted(@, kinds)]

-----------------------------------------------------------------------------
(* Calls that are flights of a singleflight group: who comes while one is  *)
(* under way waits for it and takes its result.                            *)

\* Mutant: the job is not marked before the call.
TerminateUnmarked(j) ==
    /\ terminating' = IF terminating[j] # "none" \/ ~Stored(j) \/ job[j].status = "done" THEN terminating
                      ELSE [terminating EXCEPT ![j] = IF ~up THEN "lost"
                                                      ELSE IF job[j].pid THEN "call" ELSE "callNoPid"]
    /\ UNCHANGED job

\* doTerminateJobManager up to its call: a job that is done is left alone, any other is
\* marked first, so that a call that fails is made up for by the next reconnect.
TerminateJobManager(j) ==
    IF terminating[j] # "none" \/ ~Stored(j) \/ job[j].status = "done"
    THEN UNCHANGED <<job, terminating>>
    ELSE /\ job' = [job EXCEPT ![j].marked = TRUE]
         /\ terminating' = [terminating EXCEPT ![j] = IF ~up THEN "lost"
                                                      ELSE IF job[j].pid THEN "call" ELSE "callNoPid"]

\* Mutant: the mark is not looked at.
ReconnectAnyJob(j) ==
    reconnecting' = IF reconnecting[j] # "none" \/ ~Stored(j) \/ ~up \/ j \in connected
                    THEN reconnecting ELSE [reconnecting EXCEPT ![j] = "call"]

\* A call fails although its connection is up: an error on the remote host, or no answer in time.
Fault == bounds.failures < MaxFailures /\ bounds' = [bounds EXCEPT !.failures = @ + 1]

\* doReconnectJob up to its first call.
ReconnectJob(j) ==
    reconnecting' = IF \/ reconnecting[j] # "none" \/ ~Stored(j) \/ ~up \/ j \in connected
                       \/ job[j].marked /\ job[j].status = "done"
                    THEN reconnecting
                    ELSE [reconnecting EXCEPT ![j] = IF job[j].marked THEN "kill" ELSE "call"]

\* SIGTERM ends the process; whoever is connected to it sees its route go down.
Kill(j) ==
    IF Alive(j)
    THEN /\ manager' = [manager EXCEPT ![j].proc = "killed"]
         /\ route' = route \ {j} /\ streaming' = streaming \ {j}
         /\ IF j \in route THEN Publish(j, {"down"}) ELSE UNCHANGED routeEvents
    ELSE UNCHANGED <<manager, route, streaming, routeEvents>>

TerminateCarriedOut(j) ==
    /\ terminating[j] \in {"call", "callNoPid"}
    /\ IF terminating[j] = "call" THEN Kill(j) ELSE UNCHANGED <<manager, route, streaming, routeEvents>>
    /\ terminating' = [terminating EXCEPT ![j] = "answered"]
    /\ UNCHANGED <<dbVars, starting, reconnecting, closing, checks, memoryVars, reconcileVars, up,
                   exitNotices, asked, bounds>>

TerminateAnswered(j) ==
    /\ terminating[j] = "answered"
    /\ Update(j, Terminated(job[j]))
    /\ terminating' = [terminating EXCEPT ![j] = "none"]
    /\ UNCHANGED <<block, candidates, doomed, starting, reconnecting, closing, checks, memoryVars, reconcileVars,
                   remoteVars, eventVars, asked, bounds>>

\* The call fails, or what it did is not recorded.  It may have used up the time of
\* TerminateAndDetachJob, whose detach then fails too.
TerminateFails(j) ==
    /\ \/ terminating[j] = "lost" /\ UNCHANGED bounds
       \/ terminating[j] \in {"call", "callNoPid", "answered"} /\ Fault
    /\ terminating' = [terminating EXCEPT ![j] = "none"]
    /\ \E next \in {closing[j], "none"} : closing' = [closing EXCEPT ![j] = next]
    /\ UNCHANGED <<dbVars, starting, reconnecting, checks, memoryVars, reconcileVars, remoteVars,
                   eventVars, asked>>

-----------------------------------------------------------------------------
(* Starting a job: DurableShellController.Start for a block without a job, *)
(* or (force) whose job is not running, and StartJob.  The record, the     *)
(* link to the block and the call are three steps.                         *)

StartController(j) ==
    /\ block.open /\ job[j].status = "absent"
    /\ \A i \in Jobs : starting[i] = "none" /\ closing[i] = "none"      \* getBlockResyncMutex
    /\ IF block.jobId = NoJob THEN TRUE ELSE ~Running(block.jobId)
    /\ starting' = [starting EXCEPT ![j] = "begin"]
    /\ UNCHANGED <<dbVars, reconnecting, terminating, closing, checks, memoryVars, reconcileVars,
                   remoteVars, eventVars, asked, bounds>>

\* The record names the block from the start, whatever has become of the block.
InsertJob(j) ==
    /\ starting[j] = "begin" /\ up
    /\ job' = [job EXCEPT ![j].status = "init", ![j].attached = TRUE]
    /\ starting' = [starting EXCEPT ![j] = "attach"]
    /\ UNCHANGED <<block, candidates, doomed, reconnecting, terminating, closing, checks, memoryVars,
                   reconcileVars, remoteVars, eventVars, asked, bounds>>

\* Mutant: the job the block had is not told.
AttachedBoth(db, j) == [db EXCEPT ![j].attached = TRUE]

\* AttachJobToBlock, which also takes the block from the job it had.
Attached(db, j) ==
    [i \in Jobs |-> IF i = j THEN [db[i] EXCEPT !.attached = TRUE]
                    ELSE IF i = block.jobId THEN [db[i] EXCEPT !.attached = FALSE] ELSE db[i]]

AttachJob(j) ==
    /\ starting[j] = "attach" /\ block.open
    /\ job' = Attached(job, j)
    /\ block' = [block EXCEPT !.jobId = j]
    /\ starting' = [starting EXCEPT ![j] = IF up THEN "call" ELSE "lost"]
    /\ UNCHANGED <<candidates, doomed, reconnecting, terminating, closing, checks, memoryVars,
                   reconcileVars, remoteVars, eventVars, asked, bounds>>

\* An error before the call: no connection, no block to attach to, no file for the output.  The
\* record stays as it is.
StartGivesUp(j) ==
    /\ starting[j] \in {"begin", "attach", "call"}
    /\ starting' = [starting EXCEPT ![j] = "none"]
    /\ UNCHANGED <<dbVars, reconnecting, terminating, closing, checks, memoryVars, reconcileVars,
                   remoteVars, eventVars, asked, bounds>>

\* RemoteStartJobCommand: the job manager and its command run, connected.
StartCarriedOut(j) ==
    /\ starting[j] = "call"
    /\ manager' = [manager EXCEPT ![j].proc = "alive"]
    /\ route' = route \cup {j} /\ streaming' = streaming \cup {j} /\ Publish(j, {"up"})
    /\ starting' = [starting EXCEPT ![j] = "answered"]
    /\ UNCHANGED <<dbVars, reconnecting, terminating, closing, checks, memoryVars, reconcileVars, up,
                   exitNotices, asked, bounds>>

\* Whatever the record says by now, it becomes a running job's; Start ends in ReconnectJob.
StartAnswered(j) ==
    /\ starting[j] = "answered"
    /\ Update(j, [job[j] EXCEPT !.status = "running", !.pid = TRUE])
    /\ starting' = [starting EXCEPT ![j] = "none"]
    /\ controlled' = TRUE
    /\ ReconnectJob(j)
    /\ UNCHANGED <<block, candidates, doomed, terminating, closing, checks, connected, autos, attempted,
                   reconcileVars, remoteVars, eventVars, asked, bounds>>

\* The process runs, but connecting to it or starting its command fails: nobody has its pid.
StartGoesAstray(j) ==
    /\ starting[j] = "call"
    /\ manager' = [manager EXCEPT ![j].proc = "stray"]
    /\ \E kinds \in {{}, {"up", "down"}} : Publish(j, kinds)
    /\ starting' = [starting EXCEPT ![j] = "failed"]
    /\ UNCHANGED <<dbVars, reconnecting, terminating, closing, checks, memoryVars, reconcileVars, up,
                   route, streaming, exitNotices, asked, bounds>>

\* The remote host cannot start it, or no answer comes in thirty seconds, although it may have
\* been started: no output loop reads its stream then.
StartFails(j) ==
    /\ starting[j] \in {"call", "answered", "failed", "lost"}
    /\ Update(j, [job[j] EXCEPT !.status = "done", !.reason = "startuperror"])
    /\ starting' = [starting EXCEPT ![j] = "none"]
    /\ streaming' = streaming \ {j}
    /\ UNCHANGED <<block, candidates, doomed, reconnecting, terminating, closing, checks, memoryVars,
                   reconcileVars, up, route, manager, eventVars, asked, bounds>>

\* After a restart of the main server the block is shown again: a new controller.
ResyncController(j) ==
    /\ block.open /\ block.jobId = j /\ ~controlled /\ Running(j) /\ up
    /\ \A i \in Jobs : starting[i] = "none"
    /\ controlled' = TRUE
    /\ ReconnectJob(j)
    /\ UNCHANGED <<dbVars, starting, terminating, closing, checks, connected, autos, attempted,
                   reconcileVars, remoteVars, eventVars, asked, bounds>>

-----------------------------------------------------------------------------
(* Ending it: the user closes or restarts the block; the command exits and *)
(* its output ends.                                                        *)

\* DeleteBlock and handleBlockCloseEvent: every job whose record names the block.
CloseBlock ==
    /\ block.open
    /\ block' = [open |-> FALSE, jobId |-> NoJob]
    /\ controlled' = FALSE
    /\ closing' = [j \in Jobs |-> IF Stored(j) /\ job[j].attached THEN "begin" ELSE closing[j]]
    /\ asked' = asked \cup {j \in Jobs : Stored(j) /\ job[j].attached}
    /\ UNCHANGED <<job, candidates, doomed, starting, reconnecting, terminating, checks, connected, autos,
                   attempted, reconcileVars, remoteVars, eventVars, bounds>>

\* ResyncController with force: DestroyBlockController stops the job before a new one starts.
RestartBlock(j) ==
    /\ block.open /\ controlled /\ block.jobId = j /\ closing[j] = "none"
    /\ \A i \in Jobs : starting[i] = "none"
    /\ bounds.restarts < MaxRestarts /\ bounds' = [bounds EXCEPT !.restarts = @ + 1]
    /\ closing' = [closing EXCEPT ![j] = "begin"]
    /\ asked' = asked \cup {j}
    /\ controlled' = FALSE
    /\ UNCHANGED <<dbVars, starting, reconnecting, terminating, checks, connected, autos, attempted,
                   reconcileVars, remoteVars, eventVars>>

CloseTerminates(j) ==
    /\ closing[j] = "begin"
    /\ TerminateJobManager(j)
    /\ closing' = [closing EXCEPT ![j] = "wait"]
    /\ UNCHANGED <<block, candidates, doomed, starting, reconnecting, checks, memoryVars, reconcileVars,
                   remoteVars, eventVars, asked, bounds>>

\* DetachJobFromBlock
CloseDetaches(j) ==
    /\ closing[j] = "wait" /\ terminating[j] = "none"
    /\ closing' = [closing EXCEPT ![j] = "none"]
    /\ Update(j, [job[j] EXCEPT !.attached = FALSE])
    /\ block' = IF Stored(j) /\ job[j].attached THEN [block EXCEPT !.jobId = NoJob] ELSE block
    /\ UNCHANGED <<candidates, doomed, starting, reconnecting, terminating, checks, memoryVars, reconcileVars,
                   remoteVars, eventVars, asked, bounds>>

\* The shell exits: sendJobExited tells the attached client, if there is one.
CommandExits(j) ==
    /\ Alive(j) /\ ~manager[j].cmdDone /\ bounds.ends < MaxEnds
    /\ bounds' = [bounds EXCEPT !.ends = @ + 1]
    /\ manager' = [manager EXCEPT ![j].cmdDone = TRUE]
    /\ exitNotices' = IF j \in route THEN exitNotices \cup {j} ELSE exitNotices
    /\ UNCHANGED <<dbVars, callVars, memoryVars, reconcileVars, up, route, streaming, routeEvents,
                   asked>>

OutputEnds(j) ==
    /\ Alive(j) /\ ~manager[j].outDone /\ bounds.ends < MaxEnds
    /\ bounds' = [bounds EXCEPT !.ends = @ + 1]
    /\ manager' = [manager EXCEPT ![j].outDone = TRUE]
    /\ UNCHANGED <<dbVars, callVars, memoryVars, reconcileVars, up, route, streaming, eventVars,
                   asked>>

HandleCmdJobExited(j) ==
    /\ j \in exitNotices
    /\ exitNotices' = exitNotices \ {j}
    /\ Update(j, [job[j] EXCEPT !.exited = TRUE])
    /\ checks' = [checks EXCEPT ![j] = @ \cup {"exit"}]
    /\ UNCHANGED <<block, candidates, doomed, starting, reconnecting, terminating, closing, memoryVars,
                   reconcileVars, remoteVars, routeEvents, asked, bounds>>

\* runOutputLoop has read the end of the stream.
OutputLoopEnds(j) ==
    /\ j \in streaming /\ manager[j].outDone /\ starting[j] = "none"
    /\ streaming' = streaming \ {j}
    /\ Update(j, [job[j] EXCEPT !.streamDone = TRUE])
    /\ checks' = [checks EXCEPT ![j] = @ \cup {"stream"}]
    /\ UNCHANGED <<block, candidates, doomed, starting, reconnecting, terminating, closing, memoryVars,
                   reconcileVars, up, route, manager, eventVars, asked, bounds>>

TryTerminateJobManager(j) ==
    \E who \in checks[j] :
        /\ checks' = [checks EXCEPT ![j] = @ \ {who}]
        /\ IF BothEnded(job[j]) THEN TerminateJobManager(j) ELSE UNCHANGED <<job, terminating>>
        /\ UNCHANGED <<block, candidates, doomed, starting, reconnecting, closing, memoryVars, reconcileVars,
                       remoteVars, eventVars, asked, bounds>>

-----------------------------------------------------------------------------
(* doReconnectJob.                                                         *)

\* RemoteTerminateJobManagerCommand for a job that was marked.
ReconnectKills(j) ==
    /\ reconnecting[j] = "kill"
    /\ Kill(j)
    /\ reconnecting' = [reconnecting EXCEPT ![j] = "killed"]
    /\ UNCHANGED <<dbVars, starting, terminating, closing, checks, memoryVars, reconcileVars, up,
                   exitNotices, asked, bounds>>

ReconnectKilled(j) ==
    /\ reconnecting[j] = "killed"
    /\ Update(j, Terminated(job[j]))
    /\ reconnecting' = [reconnecting EXCEPT ![j] = "none"]
    /\ UNCHANGED <<block, candidates, doomed, starting, terminating, closing, checks, memoryVars,
                   reconcileVars, remoteVars, eventVars, asked, bounds>>

\* RemoteReconnectToJobManagerCommand: a connection the remote host still has is closed first,
\* and an exit notice may be lost with it.
ReconnectCarriedOut(j) ==
    /\ reconnecting[j] = "call"
    /\ IF Alive(j)
       THEN /\ reconnecting' = [reconnecting EXCEPT ![j] = "connected"]
            /\ route' = route \cup {j} /\ streaming' = streaming \ {j}
            /\ Publish(j, IF j \in route THEN {"down", "up"} ELSE {"up"})
            /\ exitNotices' \in {exitNotices, exitNotices \ {j}}
       ELSE /\ reconnecting' = [reconnecting EXCEPT ![j] = "gone"]
            /\ UNCHANGED <<route, streaming, eventVars>>
    /\ UNCHANGED <<dbVars, starting, terminating, closing, checks, memoryVars, reconcileVars, up,
                   manager, asked, bounds>>

ReconnectGone(j) ==
    /\ reconnecting[j] = "gone"
    /\ Update(j, Gone(job[j]))
    /\ reconnecting' = [reconnecting EXCEPT ![j] = "none"]
    /\ UNCHANGED <<block, candidates, doomed, starting, terminating, closing, checks, memoryVars,
                   reconcileVars, remoteVars, eventVars, asked, bounds>>

\* WaitForRegister has seen the route ...
ReconnectRegistered(j) ==
    /\ reconnecting[j] = "connected" /\ j \in route
    /\ reconnecting' = [reconnecting EXCEPT ![j] = "registered"]
    /\ UNCHANGED <<dbVars, starting, terminating, closing, checks, memoryVars, reconcileVars,
                   remoteVars, eventVars, asked, bounds>>

\* ... and SetJobConnStatus records it.
ReconnectConnected(j) ==
    /\ reconnecting[j] = "registered"
    /\ connected' = connected \cup {j}
    /\ reconnecting' = [reconnecting EXCEPT ![j] = "stream"]
    /\ UNCHANGED <<dbVars, starting, terminating, closing, checks, autos, attempted, controlled,
                   reconcileVars, remoteVars, eventVars, asked, bounds>>


\* restartStreaming: the answer of JobPrepareConnectCommand tells what was missed meanwhile.
RestartStreaming(j) ==
    /\ reconnecting[j] = "stream" /\ j \in route
    /\ reconnecting' = [reconnecting EXCEPT ![j] = "none"]
    /\ Update(j, [job[j] EXCEPT !.exited = @ \/ manager[j].cmdDone,
                                !.streamDone = @ \/ manager[j].outDone])
    /\ checks' = [checks EXCEPT ![j] = IF manager[j].cmdDone THEN @ \cup {"exit"} ELSE @]
    /\ \/ streaming' = (IF manager[j].outDone THEN streaming ELSE streaming \cup {j}) /\ UNCHANGED bounds
       \/ ~manager[j].outDone /\ Fault /\ UNCHANGED streaming      \* JobStartStreamCommand fails
    /\ UNCHANGED <<block, candidates, doomed, starting, terminating, closing, memoryVars, reconcileVars, up,
                   route, manager, eventVars, asked>>

\* The remote host closes the connection it still has and cannot make the new one.
ReconnectBreaks(j) ==
    /\ reconnecting[j] = "call" /\ Alive(j) /\ j \in route /\ Fault
    /\ reconnecting' = [reconnecting EXCEPT ![j] = "lost"]
    /\ route' = route \ {j} /\ streaming' = streaming \ {j} /\ Publish(j, {"down"})
    /\ exitNotices' \in {exitNotices, exitNotices \ {j}}
    /\ UNCHANGED <<dbVars, starting, terminating, closing, checks, memoryVars, reconcileVars, up,
                   manager, asked>>

\* The call is lost with the connection, the route is gone by now, or a call fails.
ReconnectFails(j) ==
    /\ \/ /\ reconnecting[j] = "lost" \/ (reconnecting[j] \in {"connected", "stream"} /\ j \notin route)
          /\ UNCHANGED bounds
       \/ reconnecting[j] \in {"call", "kill", "killed", "gone", "connected", "stream"} /\ Fault
    /\ reconnecting' = [reconnecting EXCEPT ![j] = "none"]
    /\ UNCHANGED <<dbVars, starting, terminating, closing, checks, memoryVars, reconcileVars,
                   remoteVars, eventVars, asked>>

-----------------------------------------------------------------------------
(* Events and the workers they wake.                                       *)

\* shouldAttemptAutoReconnect: not within AutoReconnectCooldown of the attempt before, which is
\* longer than an attempt takes to begin.
AutoReconnectDue(j) ==
    /\ Running(j)
    /\ \/ j \notin attempted /\ UNCHANGED bounds
       \/ /\ j \in attempted \ autos /\ bounds.cooldowns < MaxCooldowns
          /\ bounds' = [bounds EXCEPT !.cooldowns = @ + 1]
    /\ autos' = autos \cup {j} /\ attempted' = attempted \cup {j}

AutoReconnectNotDue(j) == ~Running(j) \/ j \in attempted

\* handleRouteEvent
HandleRouteEvent(j) ==
    \E kind \in RouteChanges :
        /\ routeEvents[j][kind] > 0
        /\ routeEvents' = [routeEvents EXCEPT ![j] = Uncounted(@, kind)]
        /\ connected' = IF kind = "up" THEN connected \cup {j} ELSE connected \ {j}
        /\ \/ kind = "down" /\ AutoReconnectDue(j)
           \/ (kind = "up" \/ AutoReconnectNotDue(j)) /\ UNCHANGED <<autos, attempted, bounds>>
        /\ UNCHANGED <<dbVars, callVars, controlled, reconcileVars, remoteVars, exitNotices, asked>>

\* A second later.
AttemptAutoReconnect(j) ==
    /\ j \in autos
    /\ Prompt => /\ routeEvents[j] = NoEvents(RouteChanges)
                 /\ connEvents = NoEvents(BOOLEAN) /\ ~signal
    /\ autos' = autos \ {j}
    /\ ReconnectJob(j)
    /\ UNCHANGED <<dbVars, starting, terminating, closing, checks, connected, attempted, controlled,
                   reconcileVars, remoteVars, eventVars, asked, bounds>>

HandleConnChangeEvent ==
    \E isUp \in BOOLEAN :
        /\ connEvents[isUp] > 0
        /\ connEvents' = Uncounted(connEvents, isUp)
        /\ conn' = [conn EXCEPT !.actual = isUp]
        /\ signal' = TRUE
        /\ UNCHANGED <<dbVars, callVars, memoryVars, remoteVars, eventVars, asked, bounds>>

\* Mutant: a connection that is down needs no reconciling.
ReconcileUpOnly ==
    /\ signal
    /\ signal' = FALSE
    /\ conn' = IF conn.target # "none" \/ ~conn.actual \/ conn.processed THEN conn
               ELSE [conn EXCEPT !.target = "up", !.todo = {j \in Jobs : Running(j)}]
    /\ UNCHANGED <<dbVars, callVars, memoryVars, connEvents, remoteVars, eventVars, asked, bounds>>

\* reconcileAllConns, and the list of running jobs that onConnectionUp makes.
ReconcileAllConns ==
    /\ signal
    /\ signal' = FALSE
    /\ conn' = IF conn.target # "none" \/ conn.actual = conn.processed THEN conn
               ELSE [conn EXCEPT !.target = IF conn.actual THEN "up" ELSE "down",
                                 !.todo = IF conn.actual THEN {j \in Jobs : Running(j)} ELSE {}]
    /\ UNCHANGED <<dbVars, callVars, memoryVars, connEvents, remoteVars, eventVars, asked, bounds>>

\* onConnectionUp: one job after the other.
OnConnectionUp(j) ==
    /\ conn.on = NoJob /\ j \in conn.todo
    /\ conn' = [conn EXCEPT !.todo = @ \ {j}, !.on = j]
    /\ ReconnectJob(j)
    /\ UNCHANGED <<dbVars, starting, terminating, closing, checks, memoryVars, signal, connEvents,
                   remoteVars, eventVars, asked, bounds>>

JobReconnected ==
    /\ conn.on # NoJob /\ reconnecting[conn.on] = "none"
    /\ conn' = [conn EXCEPT !.on = NoJob]
    /\ UNCHANGED <<dbVars, callVars, memoryVars, signal, connEvents, remoteVars, eventVars, asked, bounds>>

\* The end of reconcileConn: what counts as processed is what it set out for.
ConnReconciled ==
    /\ conn.target # "none" /\ conn.todo = {} /\ conn.on = NoJob
    /\ conn' = [conn EXCEPT !.processed = (conn.target = "up"), !.target = "none"]
    /\ signal' = TRUE
    /\ UNCHANGED <<dbVars, callVars, memoryVars, connEvents, remoteVars, eventVars, asked, bounds>>

\* pruneUnusedJobs: what this pass and the one before it found done and detached is deleted, ...
PruneUnusedJobs ==
    LET unused == {j \in Jobs : Unused(job[j])} IN
        /\ doomed = {} /\ bounds.passes < MaxPasses
        /\ bounds' = [bounds EXCEPT !.passes = @ + 1]
        /\ candidates' = unused
        /\ doomed' = unused \cap candidates
        /\ UNCHANGED <<job, block, callVars, memoryVars, reconcileVars, remoteVars, eventVars, asked>>

\* ... one job after the other, whatever it has become since.
DeleteJob(j) ==
    /\ j \in doomed
    /\ doomed' = doomed \ {j}
    /\ job' = [job EXCEPT ![j].status = "deleted"]
    /\ connected' = connected \ {j}
    /\ UNCHANGED <<block, candidates, callVars, autos, attempted, controlled, reconcileVars, remoteVars,
                   eventVars, asked, bounds>>

-----------------------------------------------------------------------------
(* The connection, the remote host and the main server's own end.          *)

Lost(calls, underWay) == [j \in Jobs |-> IF calls[j] \in underWay THEN "lost" ELSE calls[j]]

\* Everything the loss of the connection left under way has ended.
Settled ==
    /\ ~signal /\ connEvents = NoEvents(BOOLEAN) /\ conn.target = "none" /\ autos = {}
    /\ \A j \in Jobs : /\ starting[j] = "none" /\ terminating[j] = "none"
                       /\ reconnecting[j] = "none" /\ routeEvents[j] = NoEvents(RouteChanges)

LinkDown ==
    /\ up /\ bounds.losses < MaxLosses
    /\ Prompt => connEvents = NoEvents(BOOLEAN)
    /\ up' = FALSE /\ route' = {} /\ streaming' = {}
    /\ bounds' = [bounds EXCEPT !.losses = @ + 1]
    /\ connEvents' = Counted(connEvents, {FALSE})
    /\ routeEvents' = [j \in Jobs |-> Counted(routeEvents[j], IF j \in route THEN {"down"} ELSE {})]
    /\ starting' = Lost(starting, {"call", "answered", "failed"})
    /\ terminating' = Lost(terminating, {"call", "callNoPid", "answered"})
    /\ reconnecting' = Lost(reconnecting, {"call", "kill", "killed", "connected", "gone"})
    /\ exitNotices' = {}
    /\ UNCHANGED <<dbVars, closing, checks, memoryVars, conn, signal, manager, asked>>

LinkUp ==
    /\ ~up
    /\ Prompt => Settled
    /\ up' = TRUE
    /\ connEvents' = Counted(connEvents, {TRUE})
    /\ UNCHANGED <<dbVars, callVars, memoryVars, conn, signal, route, streaming, manager, eventVars,
                   asked, bounds>>

ManagerDies(j) ==
    /\ Alive(j) /\ bounds.deaths < MaxDeaths
    /\ bounds' = [bounds EXCEPT !.deaths = @ + 1]
    /\ manager' = [manager EXCEPT ![j].proc = "died"]
    /\ route' = route \ {j} /\ streaming' = streaming \ {j}
    /\ IF j \in route THEN Publish(j, {"down"}) ELSE UNCHANGED routeEvents
    /\ UNCHANGED <<dbVars, callVars, memoryVars, reconcileVars, up, exitNotices, asked>>

\* The main server is killed and started again: the database and the job managers are left.
Crash ==
    /\ bounds.crashes < MaxCrashes
    /\ bounds' = [bounds EXCEPT !.crashes = @ + 1]
    /\ starting' = [j \in Jobs |-> "none"] /\ reconnecting' = [j \in Jobs |-> "none"]
    /\ terminating' = [j \in Jobs |-> "none"] /\ closing' = [j \in Jobs |-> "none"]
    /\ checks' = [j \in Jobs |-> {}]
    /\ connected' = {} /\ autos' = {} /\ attempted' = {} /\ controlled' = FALSE
    /\ candidates' = {} /\ doomed' = {}
    /\ conn' = IdleConn /\ signal' = FALSE /\ connEvents' = NoEvents(BOOLEAN)
    /\ routeEvents' = [j \in Jobs |-> NoEvents(RouteChanges)] /\ exitNotices' = {}
    /\ up' = FALSE /\ route' = {} /\ streaming' = {}
    /\ UNCHANGED <<job, block, manager, asked>>

-----------------------------------------------------------------------------
StartStep(j) ==
    \/ InsertJob(j) \/ AttachJob(j) \/ StartGivesUp(j)
    \/ StartCarriedOut(j) \/ StartGoesAstray(j) \/ StartAnswered(j) \/ StartFails(j)
TerminateStep(j) == TerminateCarriedOut(j) \/ TerminateAnswered(j) \/ TerminateFails(j)
ReconnectStep(j) ==
    \/ ReconnectKills(j) \/ ReconnectKilled(j) \/ ReconnectCarriedOut(j) \/ ReconnectGone(j)
    \/ ReconnectRegistered(j) \/ ReconnectConnected(j) \/ RestartStreaming(j)
    \/ ReconnectBreaks(j) \/ ReconnectFails(j)
CloseStep(j) == CloseTerminates(j) \/ CloseDetaches(j)
ConnStep ==
    \/ HandleConnChangeEvent \/ ReconcileAllConns \/ JobReconnected \/ ConnReconciled
    \/ \E j \in Jobs : OnConnectionUp(j)

\* What the main server and the remote host do of themselves.
SystemStep ==
    \/ ConnStep
    \/ \E j \in Jobs :
          \/ StartStep(j) \/ TerminateStep(j) \/ ReconnectStep(j) \/ CloseStep(j)
          \/ HandleCmdJobExited(j) \/ OutputLoopEnds(j) \/ TryTerminateJobManager(j)
          \/ HandleRouteEvent(j) \/ AttemptAutoReconnect(j)

Next ==
    \/ SystemStep \/ CloseBlock \/ PruneUnusedJobs \/ LinkDown \/ LinkUp \/ Crash
    \/ \E j \in Jobs :
          \/ StartController(j) \/ ResyncController(j) \/ RestartBlock(j) \/ DeleteJob(j)
          \/ CommandExits(j) \/ OutputEnds(j) \/ ManagerDies(j)

\* Fairness: as long as a goroutine of the main server can go on, a call over a connection that is
\* up can be carried out, or the connection can come back, some such step is taken.  Nothing is
\* assumed of the user, the command or the pruning worker.
Fairness == WF_vars(SystemStep \/ LinkUp)

Spec == Init /\ [][Next]_vars /\ Fairness

\* A job has been started, and is attached, connected and streaming.
RunningInit ==
    \E j \in Jobs :
        /\ job = [i \in Jobs |-> IF i = j THEN [NoRecord EXCEPT !.status = "running", !.pid = TRUE,
                                                               !.attached = TRUE]
                                 ELSE NoRecord]
        /\ block = [open |-> TRUE, jobId |-> j] /\ controlled = TRUE
        /\ route = {j} /\ streaming = {j} /\ connected = {j}
        /\ manager = [i \in Jobs |-> IF i = j THEN [NoManager EXCEPT !.proc = "alive"] ELSE NoManager]
        /\ NothingUnderWay

RunningSpec == RunningInit /\ [][Next]_vars /\ Fairness

\* No job is special to either initial condition.
JobSymmetry == Permutations(Jobs)

-----------------------------------------------------------------------------
Statuses == {"absent", "init", "running", "done", "deleted"}
JobRecord ==
    [status : Statuses, reason : {"none", "startuperror", "gone", "terminated"},
     pid : BOOLEAN, marked : BOOLEAN, exited : BOOLEAN, streamDone : BOOLEAN, attached : BOOLEAN]

\* Type invariant of the job controller (jobcontroller.go) and what it talks to.
LcTypeOK ==
    /\ job \in [Jobs -> JobRecord]
    /\ block \in [open : BOOLEAN, jobId : Jobs \cup {NoJob}]
    /\ candidates \subseteq Jobs /\ doomed \subseteq Jobs
    /\ starting \in [Jobs -> {"none", "begin", "attach", "call", "answered", "failed", "lost"}]
    /\ reconnecting \in [Jobs -> {"none", "call", "kill", "killed", "connected", "gone",
                                  "registered", "stream", "lost"}]
    /\ terminating \in [Jobs -> {"none", "call", "callNoPid", "answered", "lost"}]
    /\ closing \in [Jobs -> {"none", "begin", "wait"}]
    /\ checks \in [Jobs -> SUBSET {"exit", "stream"}]
    /\ connected \subseteq Jobs /\ autos \subseteq Jobs /\ attempted \subseteq Jobs
    /\ controlled \in BOOLEAN /\ signal \in BOOLEAN /\ up \in BOOLEAN
    /\ conn \in [actual : BOOLEAN, processed : BOOLEAN, target : {"none", "up", "down"},
                 todo : SUBSET Jobs, on : Jobs \cup {NoJob}]
    /\ connEvents \in [BOOLEAN -> Nat] /\ routeEvents \in [Jobs -> [RouteChanges -> Nat]]
    /\ exitNotices \subseteq Jobs /\ route \subseteq Jobs /\ streaming \subseteq Jobs
    /\ manager \in [Jobs -> [proc : {"none", "alive", "stray", "killed", "died"}, cmdDone : BOOLEAN,
                             outDone : BOOLEAN]]
    /\ asked \subseteq Jobs
    /\ bounds \in [losses : 0 .. MaxLosses, crashes : 0 .. MaxCrashes, failures : 0 .. MaxFailures,
                  deaths : 0 .. MaxDeaths, ends : 0 .. MaxEnds, restarts : 0 .. MaxRestarts,
                  passes : 0 .. MaxPasses, cooldowns : 0 .. MaxCooldowns]

\* A durable session is ended by the main server only when the user has ended it, or when its
\* command has exited and its output has ended: no loss of the connection, reconnect, crash or
\* pruning, in any order, terminates a job manager that is still in use.
OnlyEndedJobsKilled ==
    \A j \in Jobs : manager[j].proc = "killed" =>
        j \in asked \/ (manager[j].cmdDone /\ manager[j].outDone)

\* A block has one job: the one it shows names it, and any other that names it has never run (a
\* start that came to nothing between StartJob's insert and AttachJobToBlock leaves such a record).
OneJobPerBlock ==
    block.open =>
        /\ block.jobId # NoJob => job[block.jobId].attached
        /\ \A j \in Jobs : job[j].attached /\ block.jobId # j => job[j].status = "init"

\* The job a block shows is in the database: pruning never takes it away.
BlockKeepsItsJob == block.jobId # NoJob => Stored(block.jobId)

\* A job that runs without a block is marked, so that the next reconnect ends it
\* (TerminateAndDetachJob marks before it detaches, and clears the mark only when it is done).
\* The one exception bears its history in the record: a job that was terminated before it ran,
\* because its block was closed while it was being started.
DetachedIsMarked ==
    \A j \in Jobs : Running(j) /\ ~job[j].attached => job[j].marked \/ job[j].reason = "terminated"

\* The job controller believes for ever that a job is connected whose route is gone: a handler
\* or doReconnectJob has recorded "connected" after the handler of the route's end had run.
BelievedConnected(j) == <>[](j \in connected /\ j \notin route)

\* "When Wave reconnects to that server, it will automatically clean up any orphaned
\* sessions": a marked job ends, unless it is believed to be connected.
MarkedEnds == \A j \in Jobs :
    \/ (Running(j) /\ job[j].marked) ~> ~Running(j)
    \/ BelievedConnected(j)


\* "Durable sessions automatically reconnect when your connection is restored."
SessionsReattach == \A j \in Jobs :
    \/ Running(j) ~> (j \in streaming \/ ~Running(j) \/ manager[j].outDone)
    \/ BelievedConnected(j)
=============================================================================
