------------------------- MODULE JobLifecycleProofs -------------------------
(***************************************************************************)
(* The job controller, for any number of jobs, losses of the connection,   *)
(* crashes, failing calls, deaths and passes of the pruning worker: which  *)
(* job managers it ends, what a job's record and its block say of each     *)
(* other, and what becomes of a job that has lost its block.               *)
(***************************************************************************)
EXTENDS JobLifecycle, TLAPS

Calls == {"none", "call", "callNoPid", "answered", "lost", "kill", "killed", "connected", "gone",
          "registered", "stream", "begin", "attach", "failed"}

Managers == [proc : {"none", "alive", "stray", "killed", "died"}, cmdDone : BOOLEAN, outDone : BOOLEAN]

\* What the arguments below need of the type invariant.
Typed ==
    /\ job \in [Jobs -> JobRecord]
    /\ block \in [open : BOOLEAN, jobId : Jobs \cup {NoJob}]
    /\ starting \in [Jobs -> Calls] /\ reconnecting \in [Jobs -> Calls]
    /\ terminating \in [Jobs -> Calls] /\ closing \in [Jobs -> {"none", "begin", "wait"}]
    /\ manager \in [Jobs -> Managers]

-----------------------------------------------------------------------------
(* Records.                                                                *)

\* An update of job j touches no other record, and not its own when it has been deleted.
LEMMA UpdatedRecord ==
    ASSUME job \in [Jobs -> JobRecord], NEW j \in Jobs, NEW r \in JobRecord, Update(j, r)
    PROVE  /\ job' \in [Jobs -> JobRecord]
           /\ \A i \in Jobs : i # j => job'[i] = job[i]
           /\ job'[j] = IF Stored(j) THEN r ELSE job[j]
BY DEF Update

\* Every edit of a record leaves a record.
LEMMA EditedRecord ==
    ASSUME NEW r \in JobRecord
    PROVE  /\ r.status \in Statuses /\ r.marked \in BOOLEAN /\ r.exited \in BOOLEAN
           /\ r.streamDone \in BOOLEAN /\ r.attached \in BOOLEAN
           /\ Terminated(r) \in JobRecord /\ Gone(r) \in JobRecord
           /\ [r EXCEPT !.status = "running", !.pid = TRUE] \in JobRecord
           /\ [r EXCEPT !.status = "done", !.reason = "startuperror"] \in JobRecord
           /\ [r EXCEPT !.status = "init", !.attached = TRUE] \in JobRecord
           /\ [r EXCEPT !.status = "deleted"] \in JobRecord
           /\ [r EXCEPT !.attached = FALSE] \in JobRecord
           /\ [r EXCEPT !.attached = TRUE] \in JobRecord
           /\ [r EXCEPT !.marked = TRUE] \in JobRecord
           /\ [r EXCEPT !.exited = TRUE] \in JobRecord
           /\ [r EXCEPT !.streamDone = TRUE] \in JobRecord
           /\ \A m \in Managers :
                [r EXCEPT !.exited = @ \/ m.cmdDone, !.streamDone = @ \/ m.outDone] \in JobRecord
BY DEF JobRecord, Statuses, Managers, Terminated, Gone

\* An edit leaves the flags alone that it does not name.
LEMMA EditedFlags ==
    ASSUME NEW r \in JobRecord
    PROVE  /\ LET e == Terminated(r) IN
             /\ e.status = "done" /\ e.reason = "terminated" /\ ~e.marked
             /\ e.exited = r.exited /\ e.attached = r.attached
           /\ LET e == Gone(r) IN
             /\ e.status = "done" /\ e.marked = r.marked /\ e.exited = r.exited
             /\ e.streamDone = r.streamDone /\ e.attached = r.attached
           /\ LET e == [r EXCEPT !.marked = TRUE] IN
             /\ e.status = r.status /\ e.reason = r.reason /\ e.marked /\ e.exited = r.exited
             /\ e.streamDone = r.streamDone /\ e.attached = r.attached
           /\ LET e == [r EXCEPT !.status = "running", !.pid = TRUE] IN
             /\ e.status = "running" /\ e.reason = r.reason /\ e.marked = r.marked
             /\ e.attached = r.attached /\ e.exited = r.exited /\ e.streamDone = r.streamDone
           /\ LET e == [r EXCEPT !.status = "done", !.reason = "startuperror"] IN
             e.status = "done" /\ e.attached = r.attached
           /\ LET e == [r EXCEPT !.exited = TRUE] IN
             /\ e.status = r.status /\ e.reason = r.reason /\ e.marked = r.marked
             /\ e.attached = r.attached
           /\ LET e == [r EXCEPT !.streamDone = TRUE] IN
             /\ e.status = r.status /\ e.reason = r.reason /\ e.marked = r.marked
             /\ e.attached = r.attached
           /\ LET e == [r EXCEPT !.status = "init", !.attached = TRUE] IN
             /\ e.status = "init" /\ e.attached /\ e.marked = r.marked
             /\ e.exited = r.exited /\ e.streamDone = r.streamDone
           /\ LET e == [r EXCEPT !.status = "deleted"] IN
             /\ e.status = "deleted" /\ e.attached = r.attached /\ e.marked = r.marked
             /\ e.exited = r.exited /\ e.streamDone = r.streamDone
           /\ \A at \in BOOLEAN : LET e == [r EXCEPT !.attached = at] IN
             /\ e.status = r.status /\ e.reason = r.reason /\ e.marked = r.marked
             /\ e.exited = r.exited /\ e.streamDone = r.streamDone /\ e.attached = at
<1>1. PICK st \in Statuses, reason \in {"none", "startuperror", "gone", "terminated"},
           pid \in BOOLEAN, m \in BOOLEAN, ex \in BOOLEAN, sd \in BOOLEAN, at \in BOOLEAN :
        r = [status |-> st, reason |-> reason, pid |-> pid, marked |-> m, exited |-> ex,
             streamDone |-> sd, attached |-> at]
  BY DEF JobRecord
<1>2. LET e == Terminated(r) IN
        /\ e.status = "done" /\ e.reason = "terminated" /\ ~e.marked
        /\ e.exited = r.exited /\ e.attached = r.attached
  BY <1>1 DEF Terminated
<1>3. LET e == Gone(r) IN
        /\ e.status = "done" /\ e.marked = r.marked /\ e.exited = r.exited
        /\ e.streamDone = r.streamDone /\ e.attached = r.attached
  BY <1>1 DEF Gone
<1>4. LET e == [r EXCEPT !.marked = TRUE] IN
        /\ e.status = r.status /\ e.reason = r.reason /\ e.marked /\ e.exited = r.exited
        /\ e.streamDone = r.streamDone /\ e.attached = r.attached
  BY <1>1
<1>5. LET e == [r EXCEPT !.status = "running", !.pid = TRUE] IN
        /\ e.status = "running" /\ e.reason = r.reason /\ e.marked = r.marked
        /\ e.attached = r.attached /\ e.exited = r.exited /\ e.streamDone = r.streamDone
  BY <1>1
<1>6. LET e == [r EXCEPT !.status = "done", !.reason = "startuperror"] IN
        e.status = "done" /\ e.attached = r.attached
  BY <1>1
<1>7. LET e == [r EXCEPT !.exited = TRUE] IN
        /\ e.status = r.status /\ e.reason = r.reason /\ e.marked = r.marked
        /\ e.attached = r.attached
  BY <1>1
<1>8. LET e == [r EXCEPT !.streamDone = TRUE] IN
        /\ e.status = r.status /\ e.reason = r.reason /\ e.marked = r.marked
        /\ e.attached = r.attached
  BY <1>1
<1>9. LET e == [r EXCEPT !.status = "init", !.attached = TRUE] IN
        /\ e.status = "init" /\ e.attached /\ e.marked = r.marked
        /\ e.exited = r.exited /\ e.streamDone = r.streamDone
  BY <1>1
<1>10. LET e == [r EXCEPT !.status = "deleted"] IN
         /\ e.status = "deleted" /\ e.attached = r.attached /\ e.marked = r.marked
         /\ e.exited = r.exited /\ e.streamDone = r.streamDone
  BY <1>1
<1>11. ASSUME NEW a \in BOOLEAN
       PROVE  LET e == [r EXCEPT !.attached = a] IN
                /\ e.status = r.status /\ e.reason = r.reason /\ e.marked = r.marked
                /\ e.exited = r.exited /\ e.streamDone = r.streamDone /\ e.attached = a
  BY <1>1
<1> QED BY <1>2, <1>3, <1>4, <1>5, <1>6, <1>7, <1>8, <1>9, <1>10, <1>11

\* What the answer of a reconnect tells is added to the record.
LEMMA ToldFlags ==
    ASSUME NEW r \in JobRecord, NEW c \in BOOLEAN, NEW o \in BOOLEAN
    PROVE  LET e == [r EXCEPT !.exited = @ \/ c, !.streamDone = @ \/ o] IN
             /\ (e.exited => r.exited \/ c) /\ (e.streamDone => r.streamDone \/ o)
             /\ e.status = r.status /\ e.reason = r.reason /\ e.marked = r.marked
             /\ e.attached = r.attached
<1>1. PICK st \in Statuses, reason \in {"none", "startuperror", "gone", "terminated"},
           pid \in BOOLEAN, m \in BOOLEAN, ex \in BOOLEAN, sd \in BOOLEAN, at \in BOOLEAN :
        r = [status |-> st, reason |-> reason, pid |-> pid, marked |-> m, exited |-> ex,
             streamDone |-> sd, attached |-> at]
  BY DEF JobRecord
<1> QED BY <1>1

\* What becomes of a job manager is known without its other fields.
LEMMA EditedManager ==
    ASSUME NEW m \in Managers
    PROVE  /\ m.cmdDone \in BOOLEAN /\ m.outDone \in BOOLEAN
           /\ \A p \in {"none", "alive", "stray", "killed", "died"} :
                /\ [m EXCEPT !.proc = p] \in Managers /\ [m EXCEPT !.proc = p].proc = p
                /\ [m EXCEPT !.proc = p].cmdDone = m.cmdDone
                /\ [m EXCEPT !.proc = p].outDone = m.outDone
           /\ [m EXCEPT !.cmdDone = TRUE] \in Managers /\ [m EXCEPT !.cmdDone = TRUE].proc = m.proc
           /\ [m EXCEPT !.outDone = TRUE] \in Managers /\ [m EXCEPT !.outDone = TRUE].proc = m.proc
           /\ [m EXCEPT !.cmdDone = TRUE].cmdDone /\ [m EXCEPT !.outDone = TRUE].outDone
           /\ [m EXCEPT !.cmdDone = TRUE].outDone = m.outDone
           /\ [m EXCEPT !.outDone = TRUE].cmdDone = m.cmdDone
<1>1. PICK p \in {"none", "alive", "stray", "killed", "died"}, c \in BOOLEAN, o \in BOOLEAN :
        m = [proc |-> p, cmdDone |-> c, outDone |-> o]
  BY DEF Managers
<1> QED BY <1>1 DEF Managers

\* Kill ends the job manager of one job, and leaves what its command and output have done.
LEMMA KilledManager ==
    ASSUME manager \in [Jobs -> Managers], NEW j \in Jobs, Kill(j)
    PROVE  /\ manager' \in [Jobs -> Managers]
           /\ \A i \in Jobs : i # j => manager'[i] = manager[i]
           /\ manager'[j] = manager[j] \/ manager'[j] = [manager[j] EXCEPT !.proc = "killed"]
<1> DEFINE new == [manager[j] EXCEPT !.proc = "killed"]
<1>1. new \in Managers
  <2>1. manager[j] \in Managers
    OBVIOUS
  <2> QED BY <2>1, EditedManager, Zenon
<1>2. manager' = manager \/ manager' = [manager EXCEPT ![j] = new]
  <2>1. CASE Alive(j)
    BY <2>1, Zenon DEF Kill
  <2>2. CASE ~Alive(j)
    BY <2>2, Zenon DEF Kill
  <2> QED BY <2>1, <2>2
<1> HIDE DEF new
<1>3. /\ manager' \in [Jobs -> Managers]
      /\ \A i \in Jobs : i # j => manager'[i] = manager[i]
      /\ manager'[j] = manager[j] \/ manager'[j] = new
  BY <1>1, <1>2
<1> QED BY <1>3 DEF new

\* A job is marked when the call to end it is made; of a job that is done it is not made.
LEMMA CalledToEnd ==
    ASSUME Typed, NEW j \in Jobs, TerminateJobManager(j)
    PROVE  /\ job' \in [Jobs -> JobRecord] /\ terminating' \in [Jobs -> Calls]
           /\ \A i \in Jobs : i # j => job'[i] = job[i] /\ terminating'[i] = terminating[i]
           /\ \/ /\ job'[j] = job[j] /\ terminating'[j] = terminating[j]
                 /\ terminating[j] # "none" \/ ~Stored(j) \/ job[j].status = "done"
              \/ Stored(j) /\ job'[j] = [job[j] EXCEPT !.marked = TRUE]
<1> DEFINE r == [job[j] EXCEPT !.marked = TRUE]
           call == IF ~up THEN "lost" ELSE IF job[j].pid THEN "call" ELSE "callNoPid"
<1>1. r \in JobRecord
  BY EditedRecord DEF Typed
<1>2. call \in Calls
  BY DEF Calls
<1>3. \/ /\ job' = job /\ terminating' = terminating
         /\ terminating[j] # "none" \/ ~Stored(j) \/ job[j].status = "done"
      \/ /\ Stored(j) /\ job' = [job EXCEPT ![j] = r] /\ terminating' = [terminating EXCEPT ![j] = call]
  BY DEF TerminateJobManager
<1> HIDE DEF r, call
<1>4. /\ job' \in [Jobs -> JobRecord] /\ terminating' \in [Jobs -> Calls]
      /\ \A i \in Jobs : i # j => job'[i] = job[i] /\ terminating'[i] = terminating[i]
      /\ \/ /\ job'[j] = job[j] /\ terminating'[j] = terminating[j]
            /\ terminating[j] # "none" \/ ~Stored(j) \/ job[j].status = "done"
         \/ Stored(j) /\ job'[j] = r
  BY <1>1, <1>2, <1>3 DEF Typed
<1> QED BY <1>4 DEF r

-----------------------------------------------------------------------------
(* What a step does to one job leaves the others alone.                    *)

\* The steps about one job that leave its place in the block and in the database to others.
JobAction(j) ==
    \/ StartGivesUp(j) \/ StartCarriedOut(j) \/ StartGoesAstray(j) \/ StartAnswered(j)
    \/ StartFails(j) \/ ResyncController(j) \/ RestartBlock(j) \/ CloseTerminates(j)
    \/ CloseDetaches(j) \/ CommandExits(j) \/ OutputEnds(j) \/ HandleCmdJobExited(j)
    \/ OutputLoopEnds(j) \/ TryTerminateJobManager(j) \/ TerminateCarriedOut(j)
    \/ TerminateAnswered(j) \/ TerminateFails(j) \/ ReconnectKills(j) \/ ReconnectKilled(j)
    \/ ReconnectCarriedOut(j) \/ ReconnectGone(j) \/ ReconnectRegistered(j)
    \/ ReconnectConnected(j) \/ RestartStreaming(j) \/ ReconnectBreaks(j) \/ ReconnectFails(j)
    \/ HandleRouteEvent(j) \/ AttemptAutoReconnect(j) \/ OnConnectionUp(j) \/ ManagerDies(j)

\* Nothing of job i changes that the arguments below look at.
Same(i) ==
    /\ job'[i] = job[i] /\ starting'[i] = starting[i] /\ reconnecting'[i] = reconnecting[i]
    /\ terminating'[i] = terminating[i] /\ closing'[i] = closing[i] /\ manager'[i] = manager[i]
    /\ i \in exitNotices' => i \in exitNotices
    /\ i \in asked' <=> i \in asked

\* One job at a time.
LEMMA OthersSame ==
    ASSUME Typed, NEW j \in Jobs, JobAction(j), NEW i \in Jobs, i # j
    PROVE  Same(i)
<1> USE DEF dbVars, callVars, memoryVars, reconcileVars, remoteVars, eventVars, Same
<1>1. /\ job \in [Jobs -> JobRecord] /\ manager \in [Jobs -> Managers]
      /\ starting \in [Jobs -> Calls] /\ reconnecting \in [Jobs -> Calls]
      /\ terminating \in [Jobs -> Calls] /\ closing \in [Jobs -> {"none", "begin", "wait"}]
  BY DEF Typed
<1>2. CASE StartCarriedOut(j)
  BY <1>1, <1>2 DEF StartCarriedOut
<1>3. CASE StartAnswered(j)
  BY <1>1, <1>3 DEF StartAnswered, ReconnectJob, Update
<1>4. CASE StartFails(j)
  BY <1>1, <1>4 DEF StartFails, Update
<1>5. CASE ResyncController(j)
  BY <1>1, <1>5 DEF ResyncController, ReconnectJob
<1>6. CASE RestartBlock(j)
  BY <1>1, <1>6 DEF RestartBlock
<1>7. CASE CloseTerminates(j)
  BY <1>1, <1>7, CalledToEnd DEF CloseTerminates
<1>8. CASE CloseDetaches(j)
  BY <1>1, <1>8 DEF CloseDetaches, Update
<1>9. CASE CommandExits(j)
  BY <1>1, <1>9 DEF CommandExits
<1>10. CASE OutputEnds(j)
  BY <1>1, <1>10 DEF OutputEnds
<1>11. CASE HandleCmdJobExited(j)
  BY <1>1, <1>11 DEF HandleCmdJobExited, Update
<1>12. CASE OutputLoopEnds(j)
  BY <1>1, <1>12 DEF OutputLoopEnds, Update
<1>13. CASE TryTerminateJobManager(j)
  BY <1>1, <1>13, CalledToEnd DEF TryTerminateJobManager
<1>14. CASE TerminateCarriedOut(j)
  BY <1>1, <1>14, KilledManager DEF TerminateCarriedOut
<1>15. CASE TerminateAnswered(j)
  BY <1>1, <1>15 DEF TerminateAnswered, Update
<1>16. CASE TerminateFails(j)
  BY <1>1, <1>16 DEF TerminateFails
<1>17. CASE ReconnectKills(j)
  BY <1>1, <1>17, KilledManager DEF ReconnectKills
<1>18. CASE ReconnectKilled(j)
  BY <1>1, <1>18 DEF ReconnectKilled, Update
<1>19. CASE ReconnectCarriedOut(j)
  BY <1>1, <1>19 DEF ReconnectCarriedOut
<1>20. CASE ReconnectGone(j)
  BY <1>1, <1>20 DEF ReconnectGone, Update
<1>21. CASE ReconnectRegistered(j)
  BY <1>1, <1>21 DEF ReconnectRegistered
<1>22. CASE ReconnectConnected(j)
  BY <1>1, <1>22 DEF ReconnectConnected
<1>23. CASE RestartStreaming(j)
  BY <1>1, <1>23 DEF RestartStreaming, Update
<1>24. CASE ReconnectFails(j)
  BY <1>1, <1>24 DEF ReconnectFails
<1>25. CASE HandleRouteEvent(j)
  BY <1>1, <1>25 DEF HandleRouteEvent
<1>26. CASE ReconnectBreaks(j)
  BY <1>1, <1>26 DEF ReconnectBreaks
<1>27. CASE AttemptAutoReconnect(j)
  BY <1>1, <1>27 DEF AttemptAutoReconnect, ReconnectJob
<1>28. CASE OnConnectionUp(j)
  BY <1>1, <1>28 DEF OnConnectionUp, ReconnectJob
<1>29. CASE ManagerDies(j)
  BY <1>1, <1>29 DEF ManagerDies
<1>30. CASE StartGivesUp(j)
  BY <1>1, <1>30 DEF StartGivesUp
<1>31. CASE StartGoesAstray(j)
  BY <1>1, <1>31 DEF StartGoesAstray
<1> QED BY <1>2, <1>3, <1>4, <1>5, <1>6, <1>7, <1>8, <1>9, <1>10, <1>11, <1>12, <1>13, <1>14,
           <1>15, <1>16, <1>17, <1>18, <1>19, <1>20, <1>21, <1>22, <1>23, <1>24, <1>25, <1>26,
           <1>27, <1>28, <1>29, <1>30, <1>31 DEF JobAction

\* Types.
LEMMA OneTyped ==
    ASSUME Typed, NEW j \in Jobs, JobAction(j)
    PROVE  Typed'
<1> USE DEF dbVars, callVars, memoryVars, reconcileVars, remoteVars, eventVars, Typed, Calls
<1>1. job[j] \in JobRecord /\ manager[j] \in Managers
  OBVIOUS
<1>2. CASE StartCarriedOut(j)
  BY <1>1, <1>2, EditedManager DEF StartCarriedOut
<1>3. CASE StartAnswered(j)
  BY <1>1, <1>3, UpdatedRecord, EditedRecord DEF StartAnswered, ReconnectJob
<1>4. CASE StartFails(j)
  BY <1>1, <1>4, UpdatedRecord, EditedRecord DEF StartFails
<1>5. CASE ResyncController(j)
  BY <1>1, <1>5 DEF ResyncController, ReconnectJob
<1>6. CASE RestartBlock(j)
  BY <1>1, <1>6 DEF RestartBlock
<1>7. CASE CloseTerminates(j)
  BY <1>1, <1>7, CalledToEnd DEF CloseTerminates
<1>8. CASE CloseDetaches(j)
  BY <1>1, <1>8, UpdatedRecord, EditedRecord DEF CloseDetaches
<1>9. CASE CommandExits(j)
  BY <1>1, <1>9, EditedManager DEF CommandExits
<1>10. CASE OutputEnds(j)
  BY <1>1, <1>10, EditedManager DEF OutputEnds
<1>11. CASE HandleCmdJobExited(j)
  BY <1>1, <1>11, UpdatedRecord, EditedRecord DEF HandleCmdJobExited
<1>12. CASE OutputLoopEnds(j)
  BY <1>1, <1>12, UpdatedRecord, EditedRecord DEF OutputLoopEnds
<1>13. CASE TryTerminateJobManager(j)
  BY <1>1, <1>13, CalledToEnd, ZenonT(30) DEF TryTerminateJobManager
<1>14. CASE TerminateCarriedOut(j)
  <2>1. manager' \in [Jobs -> Managers]
    BY <1>14, KilledManager DEF TerminateCarriedOut
  <2>2. UNCHANGED <<job, block, starting, reconnecting, closing>>
    BY <1>14 DEF TerminateCarriedOut
  <2>3. terminating' = [terminating EXCEPT ![j] = "answered"]
    BY <1>14 DEF TerminateCarriedOut
  <2> QED BY <2>1, <2>2, <2>3
<1>15. CASE TerminateAnswered(j)
  BY <1>1, <1>15, UpdatedRecord, EditedRecord DEF TerminateAnswered
<1>16. CASE TerminateFails(j)
  <2>1. PICK next \in {"none", "begin", "wait"} : closing' = [closing EXCEPT ![j] = next]
    BY <1>16 DEF TerminateFails
  <2>2. UNCHANGED <<job, block, starting, reconnecting, manager>>
    BY <1>16 DEF TerminateFails
  <2>3. terminating' = [terminating EXCEPT ![j] = "none"]
    BY <1>16 DEF TerminateFails
  <2> QED BY <2>1, <2>2, <2>3
<1>17. CASE ReconnectKills(j)
  BY <1>1, <1>17, KilledManager DEF ReconnectKills
<1>18. CASE ReconnectKilled(j)
  BY <1>1, <1>18, UpdatedRecord, EditedRecord DEF ReconnectKilled
<1>19. CASE ReconnectCarriedOut(j)
  BY <1>1, <1>19 DEF ReconnectCarriedOut
<1>20. CASE ReconnectGone(j)
  BY <1>1, <1>20, UpdatedRecord, EditedRecord DEF ReconnectGone
<1>21. CASE ReconnectRegistered(j)
  BY <1>1, <1>21 DEF ReconnectRegistered
<1>22. CASE ReconnectConnected(j)
  BY <1>1, <1>22 DEF ReconnectConnected
<1>23. CASE RestartStreaming(j)
  BY <1>1, <1>23, UpdatedRecord, EditedRecord DEF RestartStreaming
<1>24. CASE ReconnectFails(j)
  BY <1>1, <1>24 DEF ReconnectFails
<1>25. CASE HandleRouteEvent(j)
  <2>1. UNCHANGED <<job, block, starting, reconnecting, terminating, closing, manager>>
    BY <1>25 DEF HandleRouteEvent
  <2> QED BY <2>1
<1>26. CASE ReconnectBreaks(j)
  BY <1>1, <1>26 DEF ReconnectBreaks
<1>27. CASE AttemptAutoReconnect(j)
  BY <1>1, <1>27 DEF AttemptAutoReconnect, ReconnectJob
<1>28. CASE OnConnectionUp(j)
  BY <1>1, <1>28 DEF OnConnectionUp, ReconnectJob
<1>29. CASE ManagerDies(j)
  BY <1>1, <1>29, EditedManager DEF ManagerDies
<1>30. CASE StartGivesUp(j)
  BY <1>1, <1>30 DEF StartGivesUp
<1>31. CASE StartGoesAstray(j)
  BY <1>1, <1>31, EditedManager DEF StartGoesAstray
<1> QED BY <1>2, <1>3, <1>4, <1>5, <1>6, <1>7, <1>8, <1>9, <1>10, <1>11, <1>12, <1>13, <1>14,
           <1>15, <1>16, <1>17, <1>18, <1>19, <1>20, <1>21, <1>22, <1>23, <1>24, <1>25, <1>26,
           <1>27, <1>28, <1>29, <1>30, <1>31 DEF JobAction

-----------------------------------------------------------------------------
(* Only what has ended is killed.                                          *)

Ended(j) == j \in asked \/ (manager[j].cmdDone /\ manager[j].outDone)

\* Whatever may lead to a kill is there only when the job has ended, or is true of one of
\* the two that have to end.
Ending(j) ==
    /\ job[j].exited => manager[j].cmdDone
    /\ j \in exitNotices => manager[j].cmdDone
    /\ job[j].streamDone => manager[j].outDone \/ Ended(j)
    /\ job[j].marked \/ terminating[j] # "none" => Ended(j)
    /\ reconnecting[j] \in {"kill", "killed"} => Ended(j)
    /\ manager[j].proc = "killed" => Ended(j)
    /\ closing[j] # "none" => j \in asked

\* The job a step is about.
LEMMA OneEnding ==
    ASSUME Typed, NEW j \in Jobs, JobAction(j), Ending(j)
    PROVE  Ending(j)'
<1> USE DEF dbVars, callVars, memoryVars, reconcileVars, remoteVars, eventVars, Ending, Ended
<1>1. /\ job \in [Jobs -> JobRecord] /\ manager \in [Jobs -> Managers]
      /\ starting \in [Jobs -> Calls] /\ reconnecting \in [Jobs -> Calls]
      /\ terminating \in [Jobs -> Calls] /\ closing \in [Jobs -> {"none", "begin", "wait"}]
  BY DEF Typed
<1>2. job[j] \in JobRecord /\ manager[j] \in Managers
  BY <1>1
<1>3. CASE StartCarriedOut(j)
  BY <1>1, <1>3 DEF StartCarriedOut
<1>4. CASE StartAnswered(j)
  BY <1>1, <1>4 DEF StartAnswered, ReconnectJob, Update
<1>5. CASE StartFails(j)
  BY <1>1, <1>5 DEF StartFails, Update
<1>6. CASE ResyncController(j)
  BY <1>1, <1>6 DEF ResyncController, ReconnectJob
<1>7. CASE RestartBlock(j)
  BY <1>1, <1>7 DEF RestartBlock
<1>8. CASE CloseTerminates(j)
  <2>1. Ended(j)
    BY <1>8 DEF CloseTerminates
  <2>2. job'[j] = job[j] \/ job'[j] = [job[j] EXCEPT !.marked = TRUE]
    BY <1>8, CalledToEnd DEF CloseTerminates
  <2>3. job'[j].exited = job[j].exited /\ job'[j].streamDone = job[j].streamDone
    <3>1. /\ [job[j] EXCEPT !.marked = TRUE].exited = job[j].exited
          /\ [job[j] EXCEPT !.marked = TRUE].streamDone = job[j].streamDone
      BY <1>2, EditedFlags, Zenon
    <3> QED BY <2>2, <3>1, Zenon
  <2>4. /\ manager' = manager /\ exitNotices' = exitNotices /\ asked' = asked
        /\ reconnecting' = reconnecting
    BY <1>8 DEF CloseTerminates
  <2>5. closing'[j] # "none" => closing[j] # "none"
    BY <1>1, <1>8 DEF CloseTerminates
  <2> QED BY <2>1, <2>3, <2>4, <2>5
<1>9. CASE CloseDetaches(j)
  BY <1>1, <1>9 DEF CloseDetaches, Update
<1>10. CASE CommandExits(j)
  BY <1>1, <1>10 DEF CommandExits
<1>11. CASE OutputEnds(j)
  BY <1>1, <1>11 DEF OutputEnds
<1>12. CASE HandleCmdJobExited(j)
  BY <1>1, <1>12 DEF HandleCmdJobExited, Update
<1>13. CASE OutputLoopEnds(j)
  BY <1>1, <1>13 DEF OutputLoopEnds, Update
<1>14. CASE TryTerminateJobManager(j)
  <2>1. CASE ~BothEnded(job[j])
    BY <1>14, <2>1 DEF TryTerminateJobManager
  <2>2. CASE BothEnded(job[j])
    <3>1. Ended(j) /\ TerminateJobManager(j)
      BY <1>14, <2>2 DEF TryTerminateJobManager, BothEnded
    <3>2. job'[j] = job[j] \/ job'[j] = [job[j] EXCEPT !.marked = TRUE]
      BY <3>1, CalledToEnd
    <3>3. job'[j].exited = job[j].exited /\ job'[j].streamDone = job[j].streamDone
      <4>1. /\ [job[j] EXCEPT !.marked = TRUE].exited = job[j].exited
            /\ [job[j] EXCEPT !.marked = TRUE].streamDone = job[j].streamDone
        BY <1>2, EditedFlags, Zenon
      <4> QED BY <3>2, <4>1, Zenon
    <3>4. /\ manager' = manager /\ exitNotices' = exitNotices /\ asked' = asked
          /\ reconnecting' = reconnecting /\ closing' = closing
      BY <1>14 DEF TryTerminateJobManager
    <3> QED BY <3>1, <3>3, <3>4
  <2> QED BY <2>1, <2>2
<1>15. CASE TerminateCarriedOut(j)
  <2>1. Ended(j) /\ manager'[j].cmdDone = manager[j].cmdDone /\ manager'[j].outDone = manager[j].outDone
    <3>1. manager'[j] = manager[j] \/ manager'[j] = [manager[j] EXCEPT !.proc = "killed"]
      BY <1>1, <1>15, KilledManager, Zenon DEF TerminateCarriedOut
    <3>2. /\ [manager[j] EXCEPT !.proc = "killed"].cmdDone = manager[j].cmdDone
          /\ [manager[j] EXCEPT !.proc = "killed"].outDone = manager[j].outDone
      BY <1>2, EditedManager, Zenon
    <3>3. manager'[j].cmdDone = manager[j].cmdDone /\ manager'[j].outDone = manager[j].outDone
      BY <3>1, <3>2, Zenon
    <3>4. Ended(j)
      BY <1>15 DEF TerminateCarriedOut
    <3> QED BY <3>3, <3>4
  <2>2. /\ job' = job /\ exitNotices' = exitNotices /\ asked' = asked /\ closing' = closing
        /\ reconnecting' = reconnecting
    BY <1>15 DEF TerminateCarriedOut
  <2> QED BY <2>1, <2>2
<1>16. CASE TerminateAnswered(j)
  <2>1. job'[j] = IF Stored(j) THEN Terminated(job[j]) ELSE job[j]
    BY <1>1, <1>16 DEF TerminateAnswered, Update
  <2>2. /\ manager' = manager /\ exitNotices' = exitNotices /\ asked' = asked /\ closing' = closing
        /\ terminating'[j] = "none" /\ reconnecting' = reconnecting
    BY <1>1, <1>16 DEF TerminateAnswered
  <2> QED BY <1>2, <1>16, <2>1, <2>2, EditedFlags DEF TerminateAnswered
<1>17. CASE TerminateFails(j)
  BY <1>1, <1>17 DEF TerminateFails
<1>18. CASE ReconnectKills(j)
  <2>1. Ended(j) /\ manager'[j].cmdDone = manager[j].cmdDone /\ manager'[j].outDone = manager[j].outDone
    <3>1. manager'[j] = manager[j] \/ manager'[j] = [manager[j] EXCEPT !.proc = "killed"]
      BY <1>1, <1>18, KilledManager, Zenon DEF ReconnectKills
    <3>2. /\ [manager[j] EXCEPT !.proc = "killed"].cmdDone = manager[j].cmdDone
          /\ [manager[j] EXCEPT !.proc = "killed"].outDone = manager[j].outDone
      BY <1>2, EditedManager, Zenon
    <3>3. manager'[j].cmdDone = manager[j].cmdDone /\ manager'[j].outDone = manager[j].outDone
      BY <3>1, <3>2, Zenon
    <3>4. Ended(j)
      BY <1>18 DEF ReconnectKills
    <3> QED BY <3>3, <3>4
  <2>2. /\ job' = job /\ exitNotices' = exitNotices /\ asked' = asked /\ closing' = closing
        /\ terminating' = terminating
    BY <1>18 DEF ReconnectKills
  <2> QED BY <2>1, <2>2
<1>19. CASE ReconnectKilled(j)
  <2>1. job'[j] = IF Stored(j) THEN Terminated(job[j]) ELSE job[j]
    BY <1>1, <1>19 DEF ReconnectKilled, Update
  <2>2. /\ manager' = manager /\ exitNotices' = exitNotices /\ asked' = asked /\ closing' = closing
        /\ terminating' = terminating /\ reconnecting'[j] = "none"
    BY <1>1, <1>19 DEF ReconnectKilled
  <2> QED BY <1>2, <1>19, <2>1, <2>2, EditedFlags DEF ReconnectKilled
<1>20. CASE ReconnectCarriedOut(j)
  BY <1>1, <1>20 DEF ReconnectCarriedOut
<1>21. CASE ReconnectGone(j)
  <2>1. job'[j] = IF Stored(j) THEN Gone(job[j]) ELSE job[j]
    BY <1>1, <1>21 DEF ReconnectGone, Update
  <2>2. /\ manager' = manager /\ exitNotices' = exitNotices /\ asked' = asked /\ closing' = closing
        /\ terminating' = terminating /\ reconnecting'[j] = "none"
    BY <1>1, <1>21 DEF ReconnectGone
  <2> QED BY <1>2, <1>21, <2>1, <2>2, EditedFlags DEF ReconnectGone
<1>22. CASE ReconnectRegistered(j)
  BY <1>1, <1>22 DEF ReconnectRegistered
<1>23. CASE ReconnectConnected(j)
  BY <1>1, <1>23 DEF ReconnectConnected
<1>24. CASE RestartStreaming(j)
  <2>1. LET c == manager[j].cmdDone  o == manager[j].outDone IN
          job'[j] = IF Stored(j) THEN [job[j] EXCEPT !.exited = @ \/ c, !.streamDone = @ \/ o] ELSE job[j]
    BY <1>1, <1>24 DEF RestartStreaming, Update
  <2>2. manager[j].cmdDone \in BOOLEAN /\ manager[j].outDone \in BOOLEAN
    BY <1>2, EditedManager
  <2>3. /\ manager' = manager /\ exitNotices' = exitNotices /\ asked' = asked /\ closing' = closing
        /\ terminating' = terminating /\ reconnecting'[j] = "none"
    BY <1>1, <1>24 DEF RestartStreaming
  <2>4. /\ job'[j].exited => job[j].exited \/ manager[j].cmdDone
        /\ job'[j].streamDone => job[j].streamDone \/ manager[j].outDone
        /\ job'[j].marked = job[j].marked
    <3> DEFINE c == manager[j].cmdDone  o == manager[j].outDone
               e == [job[j] EXCEPT !.exited = @ \/ c, !.streamDone = @ \/ o]
    <3>1. job'[j] = e \/ job'[j] = job[j]
      BY <2>1
    <3>3. c \in BOOLEAN /\ o \in BOOLEAN
      BY <2>2
    <3> HIDE DEF c, o
    <3>2. /\ (e.exited => job[j].exited \/ c) /\ (e.streamDone => job[j].streamDone \/ o)
          /\ e.marked = job[j].marked
      BY <1>2, <3>3, ToldFlags
    <3> HIDE DEF e
    <3> QED BY <3>1, <3>2, Zenon DEF c, o
  <2> QED BY <2>3, <2>4
<1>25. CASE ReconnectFails(j)
  BY <1>1, <1>25 DEF ReconnectFails
<1>26. CASE HandleRouteEvent(j)
  BY <1>1, <1>26 DEF HandleRouteEvent
<1>27. CASE ReconnectBreaks(j)
  BY <1>1, <1>27 DEF ReconnectBreaks
<1>28. CASE AttemptAutoReconnect(j)
  BY <1>1, <1>28 DEF AttemptAutoReconnect, ReconnectJob
<1>29. CASE OnConnectionUp(j)
  BY <1>1, <1>29 DEF OnConnectionUp, ReconnectJob
<1>30. CASE ManagerDies(j)
  BY <1>1, <1>30 DEF ManagerDies
<1>31. CASE StartGivesUp(j)
  BY <1>1, <1>31 DEF StartGivesUp
<1>32. CASE StartGoesAstray(j)
  BY <1>1, <1>32 DEF StartGoesAstray
<1> QED BY <1>3, <1>4, <1>5, <1>6, <1>7, <1>8, <1>9, <1>10, <1>11, <1>12, <1>13, <1>14, <1>15,
           <1>16, <1>17, <1>18, <1>19, <1>20, <1>21, <1>22, <1>23, <1>24, <1>25, <1>26, <1>27,
           <1>28, <1>29, <1>30, <1>31, <1>32 DEF JobAction

\* What is true of a job whose neighbour a step is about.
LEMMA OtherEnding ==
    ASSUME NEW i \in Jobs, Ending(i), Same(i)
    PROVE  Ending(i)'
BY DEF Ending, Ended, Same

EndingInv == Typed /\ \A j \in Jobs : Ending(j)

\* AttachJobToBlock: nothing but the link changes.
LEMMA AttachedRecord ==
    ASSUME Typed, NEW j \in Jobs, AttachJob(j)
    PROVE  /\ job' \in [Jobs -> JobRecord]
           /\ \A i \in Jobs :
                /\ job'[i].status = job[i].status /\ job'[i].reason = job[i].reason
                /\ job'[i].marked = job[i].marked /\ job'[i].exited = job[i].exited
                /\ job'[i].streamDone = job[i].streamDone
                /\ i = j => job'[i].attached
                /\ i # j /\ i = block.jobId => ~job'[i].attached
                /\ i # j /\ i # block.jobId => job'[i] = job[i]
<1> DEFINE edited(r, a) == [r EXCEPT !.attached = a]
<1>1. ASSUME NEW r \in JobRecord, NEW a \in BOOLEAN
      PROVE  /\ edited(r, a) \in JobRecord
             /\ edited(r, a).status = r.status /\ edited(r, a).reason = r.reason
             /\ edited(r, a).marked = r.marked /\ edited(r, a).exited = r.exited
             /\ edited(r, a).streamDone = r.streamDone /\ edited(r, a).attached = a
  <2>1. edited(r, a) \in JobRecord
    BY DEF JobRecord
  <2> QED BY <2>1, EditedFlags
<1>2. \A i \in Jobs : job[i] \in JobRecord
  BY DEF Typed
<1>3. job' = [i \in Jobs |-> IF i = j THEN edited(job[i], TRUE)
                             ELSE IF i = block.jobId THEN edited(job[i], FALSE) ELSE job[i]]
  BY DEF AttachJob, Attached
<1> HIDE DEF edited
<1>4. ASSUME NEW i \in Jobs
      PROVE  /\ job'[i] \in JobRecord
             /\ job'[i].status = job[i].status /\ job'[i].reason = job[i].reason
             /\ job'[i].marked = job[i].marked /\ job'[i].exited = job[i].exited
             /\ job'[i].streamDone = job[i].streamDone
             /\ i = j => job'[i].attached
             /\ i # j /\ i = block.jobId => ~job'[i].attached
             /\ i # j /\ i # block.jobId => job'[i] = job[i]
  <2> DEFINE e(a) == edited(job[i], a)
  <2>4. ASSUME NEW a \in BOOLEAN
        PROVE  /\ e(a) \in JobRecord
               /\ e(a).status = job[i].status /\ e(a).reason = job[i].reason
               /\ e(a).marked = job[i].marked /\ e(a).exited = job[i].exited
               /\ e(a).streamDone = job[i].streamDone /\ e(a).attached = a
    BY <1>1, <1>2
  <2> HIDE DEF e
  <2>1. CASE i = j
    <3>1. job'[i] = e(TRUE)
      BY <1>3, <2>1 DEF e
    <3> QED BY <2>1, <2>4, <3>1
  <2>2. CASE i # j /\ i = block.jobId
    <3>1. job'[i] = e(FALSE)
      BY <1>3, <2>2 DEF e
    <3> QED BY <2>2, <2>4, <3>1
  <2>3. CASE i # j /\ i # block.jobId
    <3>1. job'[i] = job[i]
      BY <1>3, <2>3
    <3> QED BY <1>2, <2>3, <3>1
  <2> QED BY <2>1, <2>2, <2>3
<1>5. job' \in [Jobs -> JobRecord]
  BY <1>3, <1>4
<1> QED BY <1>4, <1>5

\* StartJob's insert, and the pruning worker's delete: one record changes its status.
LEMMA StatusRecord ==
    ASSUME Typed, NEW j \in Jobs, InsertJob(j) \/ DeleteJob(j)
    PROVE  /\ job' \in [Jobs -> JobRecord]
           /\ \A i \in Jobs : i # j => job'[i] = job[i]
           /\ job'[j].marked = job[j].marked /\ job'[j].exited = job[j].exited
           /\ job'[j].streamDone = job[j].streamDone
           /\ InsertJob(j) => job'[j].status = "init" /\ job'[j].attached
           /\ DeleteJob(j) => job'[j].status = "deleted" /\ job'[j].attached = job[j].attached
<1> DEFINE new == [job[j] EXCEPT !.status = "init", !.attached = TRUE]
           old == [job[j] EXCEPT !.status = "deleted"]
<1>1. job \in [Jobs -> JobRecord] /\ job[j] \in JobRecord
  BY DEF Typed
<1>2. /\ new \in JobRecord /\ new.status = "init" /\ new.attached /\ new.marked = job[j].marked
      /\ new.exited = job[j].exited /\ new.streamDone = job[j].streamDone
  BY <1>1, EditedRecord, EditedFlags
<1>3. /\ old \in JobRecord /\ old.status = "deleted" /\ old.attached = job[j].attached
      /\ old.marked = job[j].marked /\ old.exited = job[j].exited /\ old.streamDone = job[j].streamDone
  BY <1>1, EditedRecord, EditedFlags
<1>4. InsertJob(j) => job' = [job EXCEPT ![j] = new]
  BY <1>1 DEF InsertJob
<1>5. DeleteJob(j) => job' = [job EXCEPT ![j] = old]
  BY <1>1 DEF DeleteJob
<1> HIDE DEF new, old
<1>6. CASE InsertJob(j)
  <2>1. ~DeleteJob(j)
    <3>1. starting' # starting
      BY <1>6 DEF InsertJob, Typed
    <3> QED BY <3>1 DEF DeleteJob, callVars
  <2> QED BY <1>1, <1>2, <1>4, <1>6, <2>1
<1>7. CASE DeleteJob(j) /\ ~InsertJob(j)
  BY <1>1, <1>3, <1>5, <1>7
<1> QED BY <1>6, <1>7

-----------------------------------------------------------------------------
(* The other steps, and the induction.                                     *)

\* Steps that leave the jobs alone.
ConnAction ==
    \/ HandleConnChangeEvent \/ ReconcileAllConns \/ JobReconnected \/ ConnReconciled \/ LinkUp

\* Every step is a step about one job, or one of a few others.
LEMMA NextCases ==
    ASSUME [Next]_vars
    PROVE  \/ \E j \in Jobs : JobAction(j)
           \/ \E j \in Jobs : StartController(j) \/ InsertJob(j) \/ AttachJob(j) \/ DeleteJob(j)
           \/ CloseBlock \/ PruneUnusedJobs \/ LinkDown \/ Crash
           \/ ConnAction \/ UNCHANGED vars
BY Zenon DEF Next, SystemStep, ConnStep, StartStep, TerminateStep, ReconnectStep, CloseStep, JobAction,
             ConnAction

\* Steps of the connection's own worker leave every job as it is.
LEMMA ConnSame ==
    ASSUME ConnAction \/ UNCHANGED vars
    PROVE  UNCHANGED <<job, block, doomed, starting, reconnecting, terminating, closing, manager, asked,
                       exitNotices>>
BY DEF ConnAction, HandleConnChangeEvent, ReconcileAllConns, JobReconnected, ConnReconciled, LinkUp,
       vars, dbVars, callVars, remoteVars, eventVars

\* What the loss of the connection does to calls: those under way are lost.
LEMMA LostCalls ==
    ASSUME NEW calls \in [Jobs -> Calls], NEW underWay, "none" \notin underWay
    PROVE  /\ Lost(calls, underWay) \in [Jobs -> Calls]
           /\ \A i \in Jobs : /\ calls[i] \in underWay => Lost(calls, underWay)[i] = "lost"
                              /\ calls[i] \notin underWay => Lost(calls, underWay)[i] = calls[i]
BY DEF Lost, Calls

\* The loss of the connection starts no call, and touches no record.
LEMMA LinkDownEffect ==
    ASSUME Typed, LinkDown
    PROVE  /\ starting' \in [Jobs -> Calls] /\ reconnecting' \in [Jobs -> Calls]
           /\ terminating' \in [Jobs -> Calls]
           /\ UNCHANGED <<job, block, doomed, closing, manager, asked>> /\ exitNotices' = {}
           /\ \A i \in Jobs :
                /\ \/ starting'[i] = starting[i]
                   \/ starting[i] \in {"call", "answered", "failed"} /\ starting'[i] = "lost"
                /\ reconnecting'[i] # "none" => reconnecting[i] # "none"
                /\ reconnecting'[i] \in {"kill", "killed"} => reconnecting'[i] = reconnecting[i]
                /\ terminating'[i] # "none" => terminating[i] # "none"
<1>1. /\ starting' = Lost(starting, {"call", "answered", "failed"})
      /\ terminating' = Lost(terminating, {"call", "callNoPid", "answered"})
      /\ reconnecting' = Lost(reconnecting, {"call", "kill", "killed", "connected", "gone"})
      /\ UNCHANGED <<job, block, doomed, closing, manager, asked>> /\ exitNotices' = {}
  BY DEF LinkDown, dbVars
<1>2. /\ starting \in [Jobs -> Calls] /\ reconnecting \in [Jobs -> Calls]
      /\ terminating \in [Jobs -> Calls]
  BY DEF Typed
<1>3. /\ starting' \in [Jobs -> Calls]
      /\ \A i \in Jobs : \/ starting'[i] = starting[i]
                         \/ starting[i] \in {"call", "answered", "failed"} /\ starting'[i] = "lost"
  BY <1>1, <1>2, LostCalls
<1>4. /\ reconnecting' \in [Jobs -> Calls]
      /\ \A i \in Jobs : /\ reconnecting'[i] # "none" => reconnecting[i] # "none"
                         /\ reconnecting'[i] \in {"kill", "killed"} => reconnecting'[i] = reconnecting[i]
  BY <1>1, <1>2, LostCalls
<1>5. /\ terminating' \in [Jobs -> Calls]
      /\ \A i \in Jobs : terminating'[i] # "none" => terminating[i] # "none"
  BY <1>1, <1>2, LostCalls
<1> QED BY <1>1, <1>3, <1>4, <1>5

\* Types, for the other steps.
LEMMA OthersTyped ==
    ASSUME Typed, [Next]_vars, \A j \in Jobs : ~JobAction(j)
    PROVE  Typed'
<1>1. /\ job \in [Jobs -> JobRecord] /\ manager \in [Jobs -> Managers]
      /\ starting \in [Jobs -> Calls] /\ reconnecting \in [Jobs -> Calls]
      /\ terminating \in [Jobs -> Calls] /\ closing \in [Jobs -> {"none", "begin", "wait"}]
      /\ block \in [open : BOOLEAN, jobId : Jobs \cup {NoJob}]
  BY DEF Typed
<1>2. {"none", "begin", "attach", "call", "lost"} \subseteq Calls
  BY DEF Calls
<1>3. ASSUME NEW j \in Jobs, StartController(j) \/ InsertJob(j) \/ AttachJob(j) \/ DeleteJob(j)
      PROVE  Typed'
  <2>1. job' \in [Jobs -> JobRecord]
    BY <1>1, <1>3, AttachedRecord, StatusRecord DEF StartController, dbVars
  <2>2. starting' \in [Jobs -> Calls]
    BY <1>1, <1>2, <1>3 DEF StartController, InsertJob, AttachJob, DeleteJob, callVars
  <2>3. block' \in [open : BOOLEAN, jobId : Jobs \cup {NoJob}]
    BY <1>1, <1>3 DEF StartController, InsertJob, AttachJob, DeleteJob, dbVars
  <2>4. UNCHANGED <<manager, reconnecting, terminating, closing>>
    BY <1>3 DEF StartController, InsertJob, AttachJob, DeleteJob, callVars, remoteVars
  <2> QED BY <1>1, <2>1, <2>2, <2>3, <2>4 DEF Typed
<1>4. CASE CloseBlock
  <2>1. UNCHANGED <<job, manager, starting, reconnecting, terminating>>
    BY <1>4 DEF CloseBlock, remoteVars
  <2>2. closing' \in [Jobs -> {"none", "begin", "wait"}]
    BY <1>1, <1>4 DEF CloseBlock
  <2>3. block' \in [open : BOOLEAN, jobId : Jobs \cup {NoJob}]
    BY <1>4 DEF CloseBlock
  <2> QED BY <1>1, <2>1, <2>2, <2>3 DEF Typed
<1>5. CASE PruneUnusedJobs
  <2>1. UNCHANGED <<job, block, manager, starting, reconnecting, terminating, closing>>
    BY <1>5 DEF PruneUnusedJobs, callVars, remoteVars
  <2> QED BY <1>1, <2>1 DEF Typed
<1>6. CASE LinkDown
  <2>1. /\ starting' \in [Jobs -> Calls] /\ reconnecting' \in [Jobs -> Calls]
        /\ terminating' \in [Jobs -> Calls] /\ UNCHANGED <<job, block, closing, manager>>
    BY <1>6, LinkDownEffect
  <2> QED BY <1>1, <2>1 DEF Typed
<1>7. CASE Crash
  <2>1. /\ starting' = [j \in Jobs |-> "none"] /\ reconnecting' = [j \in Jobs |-> "none"]
        /\ terminating' = [j \in Jobs |-> "none"] /\ closing' = [j \in Jobs |-> "none"]
        /\ UNCHANGED <<job, block, manager>>
    BY <1>7 DEF Crash
  <2> QED BY <1>1, <1>2, <2>1 DEF Typed
<1>8. CASE ConnAction \/ UNCHANGED vars
  BY <1>8, ConnSame DEF Typed
<1> QED BY <1>3, <1>4, <1>5, <1>6, <1>7, <1>8, NextCases

\* Types.
LEMMA TypedStep == Typed /\ [Next]_vars => Typed'
BY OneTyped, OthersTyped

\* The induction: only what has ended is killed.
LEMMA EndingStep == EndingInv /\ [Next]_vars => EndingInv'
<1> SUFFICES ASSUME EndingInv, [Next]_vars, NEW i \in Jobs PROVE Ending(i)'
  BY TypedStep DEF EndingInv
<1>1. Typed /\ Typed' /\ Ending(i)
  BY TypedStep DEF EndingInv
<1>2. /\ job \in [Jobs -> JobRecord] /\ closing \in [Jobs -> {"none", "begin", "wait"}]
  BY <1>1 DEF Typed
<1>3. ASSUME NEW j \in Jobs, JobAction(j) PROVE Ending(i)'
  <2>1. CASE i = j
    BY <1>1, <1>3, <2>1, OneEnding
  <2>2. CASE i # j
    BY <1>1, <1>3, <2>2, OthersSame, OtherEnding
  <2> QED BY <2>1, <2>2
<1>4. ASSUME NEW j \in Jobs, StartController(j) \/ InsertJob(j) \/ AttachJob(j) \/ DeleteJob(j)
      PROVE  Ending(i)'
  <2>1. /\ job'[i].marked = job[i].marked /\ job'[i].exited = job[i].exited
        /\ job'[i].streamDone = job[i].streamDone
    BY <1>1, <1>4, AttachedRecord, StatusRecord DEF StartController, dbVars
  <2>2. UNCHANGED <<manager, reconnecting, terminating, closing, asked, exitNotices>>
    BY <1>4 DEF StartController, InsertJob, AttachJob, DeleteJob, callVars, remoteVars, eventVars
  <2> QED BY <1>1, <2>1, <2>2 DEF Ending, Ended
<1>5. CASE CloseBlock
  <2>1. /\ closing'[i] # "none" => i \in asked'
        /\ i \in asked => i \in asked'
    BY <1>1, <1>2, <1>5 DEF CloseBlock, Ending
  <2>2. UNCHANGED <<job, manager, reconnecting, terminating, exitNotices>>
    BY <1>5 DEF CloseBlock, remoteVars, eventVars
  <2> QED BY <1>1, <2>1, <2>2 DEF Ending, Ended
<1>6. CASE PruneUnusedJobs
  <2>1. UNCHANGED <<job, manager, reconnecting, terminating, closing, asked, exitNotices>>
    BY <1>6 DEF PruneUnusedJobs, callVars, remoteVars, eventVars
  <2> QED BY <1>1, <2>1 DEF Ending, Ended
<1>7. CASE LinkDown
  BY <1>1, <1>7, LinkDownEffect DEF Ending, Ended
<1>8. CASE Crash
  BY <1>1, <1>8 DEF Crash, Ending, Ended
<1>9. CASE ConnAction \/ UNCHANGED vars
  BY <1>1, <1>9, ConnSame DEF Ending, Ended
<1> QED BY <1>3, <1>4, <1>5, <1>6, <1>7, <1>8, <1>9, NextCases

-----------------------------------------------------------------------------
(* The link of a job and its block, and the job that has lost its block.   *)

\* The call of StartJob has been sent.
Called(j) == starting[j] \in {"call", "answered", "failed", "lost"}

\* The job runs, or may still be made to by StartJob.
Live(j) == Running(j) \/ (starting[j] # "none" /\ Stored(j))

\* It is marked, or it was terminated before it ran.
Excused(j) == job[j].marked \/ job[j].reason = "terminated"

\* What the handlers of a job do to its record, but for DetachJobFromBlock: its link stays, its
\* status changes only in the answer to a call, and its mark is taken only from a job that is done.
Kept(j) ==
    /\ block' = block /\ doomed' = doomed
    /\ job'[j].attached = job[j].attached
    /\ \/ job'[j].status = job[j].status
       \/ /\ Stored(j) /\ job'[j].status \in {"running", "done"}
          /\ Called(j) \/ terminating[j] # "none" \/ reconnecting[j] # "none"
    /\ Running(j)' => Running(j) \/ StartAnswered(j)
    /\ Excused(j) /\ ~Excused(j)' =>
         job'[j].status = "done" /\ (starting'[j] = "none" \/ reconnecting[j] # "none")
    /\ job'[j].status = "done" =>
         \/ job[j].status = "done" \/ Excused(j)'
         \/ starting'[j] = "none" \/ reconnecting[j] # "none"

\* An update that leaves status, reason and link alone, and takes no mark.
LEMMA KeptFlags ==
    ASSUME NEW j \in Jobs, UNCHANGED <<block, doomed>>,
           job'[j].status = job[j].status, job'[j].reason = job[j].reason,
           job'[j].attached = job[j].attached, job[j].marked => job'[j].marked
    PROVE  Kept(j)
BY DEF Kept, Excused, Running

\* What each handler does to the record of its job.
LEMMA OneRecord ==
    ASSUME Typed, NEW j \in Jobs, JobAction(j), ~CloseDetaches(j)
    PROVE  Kept(j)
<1> USE DEF dbVars, callVars, memoryVars, reconcileVars, remoteVars, eventVars
<1>1. /\ job \in [Jobs -> JobRecord] /\ manager \in [Jobs -> Managers]
      /\ starting \in [Jobs -> Calls] /\ reconnecting \in [Jobs -> Calls]
      /\ terminating \in [Jobs -> Calls] /\ closing \in [Jobs -> {"none", "begin", "wait"}]
  BY DEF Typed
<1>2. job[j] \in JobRecord /\ manager[j] \in Managers
  BY <1>1
<1>3. ASSUME UNCHANGED <<job, block, doomed>> PROVE Kept(j)
  BY <1>3, KeptFlags
<1>4. CASE \/ StartGivesUp(j) \/ StartCarriedOut(j) \/ StartGoesAstray(j) \/ ResyncController(j)
           \/ RestartBlock(j) \/ CommandExits(j) \/ OutputEnds(j) \/ TerminateCarriedOut(j)
           \/ TerminateFails(j) \/ ReconnectKills(j)
  BY <1>3, <1>4 DEF StartGivesUp, StartCarriedOut, StartGoesAstray, ResyncController, RestartBlock,
        CommandExits, OutputEnds, TerminateCarriedOut, TerminateFails, ReconnectKills
<1>5. CASE \/ ReconnectCarriedOut(j) \/ ReconnectRegistered(j) \/ ReconnectConnected(j)
           \/ ReconnectBreaks(j) \/ ReconnectFails(j) \/ HandleRouteEvent(j)
           \/ AttemptAutoReconnect(j) \/ OnConnectionUp(j) \/ ManagerDies(j)
  BY <1>3, <1>5 DEF ReconnectCarriedOut, ReconnectRegistered, ReconnectConnected, ReconnectBreaks,
        ReconnectFails, HandleRouteEvent, AttemptAutoReconnect, OnConnectionUp, ManagerDies
<1>6. CASE StartAnswered(j)
  <2> DEFINE e == [job[j] EXCEPT !.status = "running", !.pid = TRUE]
  <2>1. (job'[j] = IF Stored(j) THEN e ELSE job[j]) /\ UNCHANGED <<block, doomed>>
    BY <1>1, <1>6 DEF StartAnswered, Update
  <2>2. /\ e.attached = job[j].attached /\ e.status = "running" /\ e.marked = job[j].marked
        /\ e.reason = job[j].reason
    BY <1>2, EditedFlags
  <2>3. Called(j)
    BY <1>6 DEF StartAnswered, Called
  <2> HIDE DEF e
  <2>4. CASE Stored(j)
    BY <1>6, <2>1, <2>2, <2>3, <2>4 DEF Kept, Excused, Running
  <2>5. CASE ~Stored(j)
    BY <2>1, <2>5, KeptFlags
  <2> QED BY <2>4, <2>5
<1>7. CASE StartFails(j)
  <2> DEFINE e == [job[j] EXCEPT !.status = "done", !.reason = "startuperror"]
  <2>1. /\ job'[j] = IF Stored(j) THEN e ELSE job[j]
        /\ UNCHANGED <<block, doomed>> /\ starting'[j] = "none"
    BY <1>1, <1>7 DEF StartFails, Update
  <2>2. e.attached = job[j].attached /\ e.status = "done"
    BY <1>2, EditedFlags
  <2>3. Called(j)
    BY <1>7 DEF StartFails, Called
  <2> HIDE DEF e
  <2>4. CASE Stored(j)
    BY <2>1, <2>2, <2>3, <2>4 DEF Kept, Excused, Running
  <2>5. CASE ~Stored(j)
    BY <2>1, <2>5, KeptFlags
  <2> QED BY <2>4, <2>5
<1>8. CASE CloseTerminates(j) \/ TryTerminateJobManager(j)
  <2> DEFINE e == [job[j] EXCEPT !.marked = TRUE]
  <2>1. UNCHANGED <<block, doomed>> /\ (job'[j] = job[j] \/ job'[j] = e)
    BY <1>8, CalledToEnd DEF CloseTerminates, TryTerminateJobManager
  <2>2. e.status = job[j].status /\ e.reason = job[j].reason /\ e.attached = job[j].attached /\ e.marked
    BY <1>2, EditedFlags
  <2> HIDE DEF e
  <2> QED BY <2>1, <2>2, KeptFlags
<1>9. CASE HandleCmdJobExited(j)
  <2> DEFINE e == [job[j] EXCEPT !.exited = TRUE]
  <2>1. (job'[j] = IF Stored(j) THEN e ELSE job[j]) /\ UNCHANGED <<block, doomed>>
    BY <1>1, <1>9 DEF HandleCmdJobExited, Update
  <2>2. /\ e.status = job[j].status /\ e.reason = job[j].reason /\ e.attached = job[j].attached
        /\ e.marked = job[j].marked
    BY <1>2, EditedFlags
  <2> HIDE DEF e
  <2> QED BY <2>1, <2>2, KeptFlags
<1>10. CASE OutputLoopEnds(j)
  <2> DEFINE e == [job[j] EXCEPT !.streamDone = TRUE]
  <2>1. (job'[j] = IF Stored(j) THEN e ELSE job[j]) /\ UNCHANGED <<block, doomed>>
    BY <1>1, <1>10 DEF OutputLoopEnds, Update
  <2>2. /\ e.status = job[j].status /\ e.reason = job[j].reason /\ e.attached = job[j].attached
        /\ e.marked = job[j].marked
    BY <1>2, EditedFlags
  <2> HIDE DEF e
  <2> QED BY <2>1, <2>2, KeptFlags
<1>11. CASE TerminateAnswered(j) \/ ReconnectKilled(j)
  <2> DEFINE e == Terminated(job[j])
  <2>1. (job'[j] = IF Stored(j) THEN e ELSE job[j]) /\ UNCHANGED <<block, doomed>>
    BY <1>1, <1>11 DEF TerminateAnswered, ReconnectKilled, Update
  <2>2. e.attached = job[j].attached /\ e.status = "done" /\ e.reason = "terminated"
    BY <1>2, EditedFlags
  <2>3. terminating[j] # "none" \/ reconnecting[j] # "none"
    BY <1>11 DEF TerminateAnswered, ReconnectKilled
  <2> HIDE DEF e
  <2>4. CASE Stored(j)
    BY <2>1, <2>2, <2>3, <2>4 DEF Kept, Excused, Running
  <2>5. CASE ~Stored(j)
    BY <2>1, <2>5, KeptFlags
  <2> QED BY <2>4, <2>5
<1>12. CASE ReconnectGone(j)
  <2> DEFINE e == Gone(job[j])
  <2>1. (job'[j] = IF Stored(j) THEN e ELSE job[j]) /\ UNCHANGED <<block, doomed>>
    BY <1>1, <1>12 DEF ReconnectGone, Update
  <2>2. e.attached = job[j].attached /\ e.status = "done"
    BY <1>2, EditedFlags
  <2>3. reconnecting[j] # "none"
    BY <1>12 DEF ReconnectGone
  <2> HIDE DEF e
  <2>4. CASE Stored(j)
    BY <2>1, <2>2, <2>3, <2>4 DEF Kept, Excused, Running
  <2>5. CASE ~Stored(j)
    BY <2>1, <2>5, KeptFlags
  <2> QED BY <2>4, <2>5
<1>13. CASE RestartStreaming(j)
  <2> DEFINE c == manager[j].cmdDone  o == manager[j].outDone
             e == [job[j] EXCEPT !.exited = @ \/ c, !.streamDone = @ \/ o]
  <2>1. (job'[j] = IF Stored(j) THEN e ELSE job[j]) /\ UNCHANGED <<block, doomed>>
    BY <1>1, <1>13 DEF RestartStreaming, Update
  <2>2. c \in BOOLEAN /\ o \in BOOLEAN
    BY <1>2, EditedManager
  <2> HIDE DEF c, o
  <2>3. /\ e.status = job[j].status /\ e.reason = job[j].reason /\ e.marked = job[j].marked
        /\ e.attached = job[j].attached
    BY <1>2, <2>2, ToldFlags
  <2> HIDE DEF e
  <2> QED BY <2>1, <2>3, KeptFlags
<1> QED BY <1>4, <1>5, <1>6, <1>7, <1>8, <1>9, <1>10, <1>11, <1>12, <1>13 DEF JobAction

\* DetachJobFromBlock.
LEMMA DetachedRecord ==
    ASSUME Typed, NEW j \in Jobs, CloseDetaches(j)
    PROVE  /\ job'[j].status = job[j].status /\ job'[j].marked = job[j].marked
           /\ job'[j].reason = job[j].reason
           /\ Stored(j) => ~job'[j].attached
           /\ ~Stored(j) => job'[j] = job[j]
           /\ block' = IF Stored(j) /\ job[j].attached THEN [block EXCEPT !.jobId = NoJob] ELSE block
           /\ doomed' = doomed
<1> DEFINE e == [job[j] EXCEPT !.attached = FALSE]
<1>1. /\ e.status = job[j].status /\ e.marked = job[j].marked /\ e.reason = job[j].reason
      /\ ~e.attached
  <2>1. job[j] \in JobRecord
    BY DEF Typed
  <2> QED BY <2>1, EditedFlags
<1>2. job' = IF Stored(j) THEN [job EXCEPT ![j] = e] ELSE job
  BY DEF CloseDetaches, Update
<1>3. /\ block' = IF Stored(j) /\ job[j].attached THEN [block EXCEPT !.jobId = NoJob] ELSE block
      /\ doomed' = doomed
  BY DEF CloseDetaches
<1>4. job \in [Jobs -> JobRecord]
  BY DEF Typed
<1> HIDE DEF e
<1> QED BY <1>1, <1>2, <1>3, <1>4


-----------------------------------------------------------------------------
(* Which calls a step may start.                                           *)

\* connStates[connection] has its fields.
ConnShape ==
    conn = [actual |-> conn.actual, processed |-> conn.processed, target |-> conn.target,
            todo |-> conn.todo, on |-> conn.on]

\* Only running jobs are put on the list of onConnectionUp, or tried again by themselves.
LEMMA ConnEffect ==
    ASSUME ConnShape, [Next]_vars
    PROVE  /\ ConnShape'
           /\ \A i \in Jobs : /\ i \in conn'.todo => i \in conn.todo \/ Running(i)
                              /\ i \in autos' => i \in autos \/ Running(i)
<1> USE DEF dbVars, callVars, memoryVars, reconcileVars, remoteVars, eventVars
<1>1. ASSUME UNCHANGED <<conn, autos>>
      PROVE  /\ ConnShape'
             /\ \A i \in Jobs : /\ i \in conn'.todo => i \in conn.todo \/ Running(i)
                                /\ i \in autos' => i \in autos \/ Running(i)
  BY <1>1 DEF ConnShape
<1>2. ASSUME NEW j \in Jobs, JobAction(j)
      PROVE  \/ UNCHANGED <<conn, autos>>
             \/ OnConnectionUp(j) \/ HandleRouteEvent(j) \/ AttemptAutoReconnect(j)
  <2>1. CASE \/ StartGivesUp(j) \/ StartCarriedOut(j) \/ StartGoesAstray(j) \/ StartAnswered(j)
             \/ StartFails(j) \/ ResyncController(j) \/ RestartBlock(j) \/ CloseTerminates(j)
    BY <2>1 DEF StartGivesUp, StartCarriedOut, StartGoesAstray, StartAnswered, StartFails,
                ResyncController, RestartBlock, CloseTerminates
  <2>2. CASE \/ CloseDetaches(j) \/ CommandExits(j) \/ OutputEnds(j) \/ HandleCmdJobExited(j)
             \/ OutputLoopEnds(j) \/ TryTerminateJobManager(j) \/ ManagerDies(j)
    BY <2>2 DEF CloseDetaches, CommandExits, OutputEnds, HandleCmdJobExited, OutputLoopEnds,
                TryTerminateJobManager, ManagerDies
  <2>3. CASE TerminateCarriedOut(j) \/ TerminateAnswered(j) \/ TerminateFails(j)
    BY <2>3 DEF TerminateCarriedOut, TerminateAnswered, TerminateFails
  <2>4. CASE \/ ReconnectKills(j) \/ ReconnectKilled(j) \/ ReconnectCarriedOut(j)
             \/ ReconnectGone(j) \/ ReconnectRegistered(j) \/ ReconnectConnected(j)
             \/ RestartStreaming(j) \/ ReconnectBreaks(j) \/ ReconnectFails(j)
    BY <2>4 DEF ReconnectKills, ReconnectKilled, ReconnectCarriedOut, ReconnectGone,
                ReconnectRegistered, ReconnectConnected, RestartStreaming, ReconnectBreaks,
                ReconnectFails
  <2> QED BY <1>2, <2>1, <2>2, <2>3, <2>4, Zenon DEF JobAction
<1>3. ASSUME NEW j \in Jobs, OnConnectionUp(j)
      PROVE  ConnShape' /\ (conn'.todo \subseteq conn.todo) /\ autos' = autos
  BY <1>3 DEF OnConnectionUp, ConnShape
<1>4. ASSUME NEW j \in Jobs, HandleRouteEvent(j)
      PROVE  conn' = conn /\ (autos' = autos \/ (Running(j) /\ autos' = autos \cup {j}))
  BY <1>4 DEF HandleRouteEvent, AutoReconnectDue
<1>5. ASSUME NEW j \in Jobs, AttemptAutoReconnect(j)
      PROVE  conn' = conn /\ (autos' \subseteq autos)
  BY <1>5 DEF AttemptAutoReconnect
<1>6. CASE HandleConnChangeEvent
  BY <1>6 DEF HandleConnChangeEvent, ConnShape
<1>7. CASE ReconcileAllConns
  BY <1>7 DEF ReconcileAllConns, ConnShape
<1>8. CASE JobReconnected \/ ConnReconciled
  BY <1>8 DEF JobReconnected, ConnReconciled, ConnShape
<1>9. CASE Crash
  BY <1>9 DEF Crash, IdleConn, ConnShape
<1>10. ASSUME NEW j \in Jobs, StartController(j) \/ InsertJob(j) \/ AttachJob(j) \/ DeleteJob(j)
       PROVE  UNCHANGED <<conn, autos>>
  BY <1>10 DEF StartController, InsertJob, AttachJob, DeleteJob
<1>11. CASE CloseBlock \/ PruneUnusedJobs \/ LinkDown \/ LinkUp \/ UNCHANGED vars
  BY <1>1, <1>11 DEF CloseBlock, PruneUnusedJobs, LinkDown, LinkUp, vars
<1>12. ASSUME NEW j \in Jobs, JobAction(j)
       PROVE  /\ ConnShape'
              /\ \A i \in Jobs : /\ i \in conn'.todo => i \in conn.todo \/ Running(i)
                                 /\ i \in autos' => i \in autos \/ Running(i)
  BY <1>1, <1>2, <1>3, <1>4, <1>5, <1>12 DEF ConnShape
<1> QED BY <1>1, <1>6, <1>7, <1>8, <1>9, <1>10, <1>11, <1>12, NextCases DEF ConnAction

\* What a step about job j does to the calls under way, and which calls it starts.
LEMMA OneCall ==
    ASSUME Typed, NEW j \in Jobs, JobAction(j)
    PROVE  /\ starting'[j] = starting[j] \/ starting'[j] = "none" \/ (Called(j) /\ Called(j)')
           /\ closing'[j] # "none" => closing[j] # "none" \/ RestartBlock(j)
           /\ closing'[j] = "wait" => closing[j] = "wait" \/ CloseTerminates(j)
           /\ terminating'[j] # "none" =>
                \/ terminating[j] # "none"
                \/ Stored(j) /\ (CloseTerminates(j) \/ (TryTerminateJobManager(j) /\ Running(j)))
           /\ reconnecting'[j] # "none" =>
                reconnecting[j] # "none" \/ Running(j) \/ StartAnswered(j) \/ j \in autos \/ j \in conn.todo
<1> USE DEF dbVars, callVars, memoryVars, reconcileVars, remoteVars, eventVars
<1>1. /\ starting \in [Jobs -> Calls] /\ reconnecting \in [Jobs -> Calls]
      /\ terminating \in [Jobs -> Calls] /\ closing \in [Jobs -> {"none", "begin", "wait"}]
  BY DEF Typed
<1>3. CASE StartCarriedOut(j)
  BY <1>1, <1>3 DEF StartCarriedOut, Called
<1>4. CASE StartAnswered(j)
  BY <1>1, <1>4 DEF StartAnswered, ReconnectJob
<1>5. CASE StartFails(j)
  BY <1>1, <1>5 DEF StartFails
<1>6. CASE ResyncController(j)
  BY <1>1, <1>6 DEF ResyncController, ReconnectJob
<1>7. CASE RestartBlock(j)
  BY <1>1, <1>7 DEF RestartBlock
<1>8. CASE CloseTerminates(j)
  BY <1>1, <1>8 DEF CloseTerminates, TerminateJobManager
<1>9. CASE CloseDetaches(j)
  BY <1>1, <1>9 DEF CloseDetaches
<1>10. CASE CommandExits(j)
  BY <1>1, <1>10 DEF CommandExits
<1>11. CASE OutputEnds(j)
  BY <1>1, <1>11 DEF OutputEnds
<1>12. CASE HandleCmdJobExited(j)
  BY <1>1, <1>12 DEF HandleCmdJobExited
<1>13. CASE OutputLoopEnds(j)
  BY <1>1, <1>13 DEF OutputLoopEnds
<1>14. CASE TryTerminateJobManager(j)
  BY <1>1, <1>14 DEF TryTerminateJobManager, TerminateJobManager, BothEnded, Running
<1>15. CASE TerminateCarriedOut(j)
  BY <1>1, <1>15 DEF TerminateCarriedOut
<1>16. CASE TerminateAnswered(j)
  BY <1>1, <1>16 DEF TerminateAnswered
<1>17. CASE TerminateFails(j)
  BY <1>1, <1>17 DEF TerminateFails
<1>18. CASE ReconnectKills(j)
  BY <1>1, <1>18 DEF ReconnectKills
<1>19. CASE ReconnectKilled(j)
  BY <1>1, <1>19 DEF ReconnectKilled
<1>20. CASE ReconnectCarriedOut(j)
  BY <1>1, <1>20 DEF ReconnectCarriedOut
<1>21. CASE ReconnectGone(j)
  BY <1>1, <1>21 DEF ReconnectGone
<1>22. CASE ReconnectRegistered(j)
  BY <1>1, <1>22 DEF ReconnectRegistered
<1>23. CASE ReconnectConnected(j)
  BY <1>1, <1>23 DEF ReconnectConnected
<1>24. CASE RestartStreaming(j)
  BY <1>1, <1>24 DEF RestartStreaming
<1>25. CASE ReconnectFails(j)
  BY <1>1, <1>25 DEF ReconnectFails
<1>26. CASE HandleRouteEvent(j)
  BY <1>1, <1>26 DEF HandleRouteEvent
<1>27. CASE ReconnectBreaks(j)
  BY <1>1, <1>27 DEF ReconnectBreaks
<1>28. CASE AttemptAutoReconnect(j)
  BY <1>1, <1>28 DEF AttemptAutoReconnect, ReconnectJob
<1>29. CASE OnConnectionUp(j)
  BY <1>1, <1>29 DEF OnConnectionUp, ReconnectJob
<1>30. CASE ManagerDies(j)
  BY <1>1, <1>30 DEF ManagerDies
<1>31. CASE StartGivesUp(j)
  BY <1>1, <1>31 DEF StartGivesUp
<1>32. CASE StartGoesAstray(j)
  BY <1>1, <1>32 DEF StartGoesAstray, Called
<1> QED BY <1>3, <1>4, <1>5, <1>6, <1>7, <1>8, <1>9, <1>10, <1>11, <1>12, <1>13, <1>14, <1>15,
           <1>16, <1>17, <1>18, <1>19, <1>20, <1>21, <1>22, <1>23, <1>24, <1>25, <1>26, <1>27,
           <1>28, <1>29, <1>30, <1>31, <1>32 DEF JobAction

\* When a few of the steps can be taken.
LEMMA WhenTaken ==
    ASSUME Typed, NEW j \in Jobs
    PROVE  /\ StartAnswered(j) => starting'[j] = "none" /\ Called(j)
           /\ RestartBlock(j) => /\ block.open /\ block.jobId = j
                                 /\ \A i \in Jobs : starting[i] = "none"
           /\ CloseTerminates(j) => closing[j] = "begin"
           /\ CloseDetaches(j) => closing[j] = "wait" /\ terminating[j] = "none"
BY DEF StartAnswered, RestartBlock, CloseTerminates, CloseDetaches, Called, Typed


-----------------------------------------------------------------------------
(* The induction: the records of the jobs, and their block.                *)

\* A job that does not run yet is not being reconnected, nor about to be.
Quiet(j) ==
    /\ ~Running(j)
    /\ reconnecting[j] = "none" /\ j \notin autos /\ j \notin conn.todo

\* A job that runs, or may still be made to run, can be without its block, or about to be ended,
\* only when it is marked or has been terminated before; what is being started is left alone by
\* everybody but the user.
Sound(j) ==
    /\ job[j].attached => Stored(j)
    /\ Live(j) /\ (~job[j].attached \/ closing[j] = "wait" \/ terminating[j] # "none") => Excused(j)
    /\ starting[j] # "none" /\ job[j].status = "done" => Excused(j)
    /\ job[j].status \in {"absent", "init"} \/ starting[j] # "none" => Quiet(j)
    /\ job[j].status = "absent" => /\ terminating[j] = "none" /\ closing[j] = "none"
                                   /\ j \notin doomed /\ starting[j] \in {"none", "begin"}
    /\ starting[j] = "begin" => job[j].status = "absent"
    /\ j \in doomed => ~job[j].attached

\* As long as there is a block, a job is either the one it shows or has not got further than
\* StartJob's insert.
Placed(j) ==
    /\ starting[j] = "attach" => job[j].attached /\ job[j].status = "init" /\ block.jobId # j
    /\ Called(j) => block.jobId = j
    /\ block.jobId = j => job[j].attached
    /\ job[j].attached /\ block.jobId # j =>
         job[j].status = "init" /\ closing[j] = "none" /\ terminating[j] = "none"

\* One start at a time, and while it lasts the job of the block is neither run nor ended, unless
\* the block itself is closed.
Alone ==
    /\ \A i, k \in Jobs : starting[i] # "none" /\ starting[k] # "none" => i = k
    /\ block.open => \A i, k \in Jobs : starting[i] # "none" =>
                         closing[k] = "none" /\ (block.jobId = k => ~Running(k))
    /\ ~block.open => block.jobId = NoJob

LifeInv ==
    /\ Typed /\ ConnShape /\ Alone
    /\ \A j \in Jobs : Sound(j) /\ (block.open => Placed(j))

\* The mark is set before the call that ends the job.
LEMMA MarkedFirst ==
    ASSUME Typed, NEW j \in Jobs,
           CloseTerminates(j) \/ (TryTerminateJobManager(j) /\ terminating'[j] # terminating[j])
    PROVE  \/ job'[j].marked
           \/ job'[j] = job[j] /\ (terminating[j] # "none" \/ ~Stored(j) \/ job[j].status = "done")
<1>1. TerminateJobManager(j)
  BY DEF CloseTerminates, TryTerminateJobManager
<1>2. job[j] \in JobRecord
  BY DEF Typed
<1> DEFINE e == [job[j] EXCEPT !.marked = TRUE]
<1>3. e.marked
  BY <1>2, EditedFlags
<1>4. \/ job'[j] = job[j] /\ (terminating[j] # "none" \/ ~Stored(j) \/ job[j].status = "done")
      \/ job'[j] = e
  BY <1>1, CalledToEnd
<1> HIDE DEF e
<1> QED BY <1>3, <1>4

\* The answer of StartJob makes a job run whose record is still there.
LEMMA AnsweredRuns ==
    ASSUME Typed, NEW j \in Jobs, StartAnswered(j), Stored(j)
    PROVE  Running(j)'
<1> DEFINE e == [job[j] EXCEPT !.status = "running", !.pid = TRUE]
<1>1. job' = [job EXCEPT ![j] = e]
  BY DEF StartAnswered, Update
<1>2. e.status = "running"
  <2>1. job[j] \in JobRecord
    BY DEF Typed
  <2> QED BY <2>1, EditedFlags
<1> HIDE DEF e
<1> QED BY <1>1, <1>2 DEF Typed, Running

\* The job a step is about, but for DetachJobFromBlock.
LEMMA OneSound ==
    ASSUME LifeInv, [Next]_vars, NEW j \in Jobs, JobAction(j), ~CloseDetaches(j)
    PROVE  Sound(j)' /\ (block'.open => Placed(j)')
<1>1. Typed /\ ConnShape /\ Sound(j) /\ (block.open => Placed(j))
  BY DEF LifeInv
<1>2. /\ block' = block /\ doomed' = doomed
      /\ job'[j].attached = job[j].attached
      /\ \/ job'[j].status = job[j].status
         \/ /\ Stored(j) /\ job'[j].status \in {"running", "done"}
            /\ Called(j) \/ terminating[j] # "none" \/ reconnecting[j] # "none"
      /\ Running(j)' => Running(j) \/ StartAnswered(j)
      /\ Excused(j) /\ ~Excused(j)' =>
           job'[j].status = "done" /\ (starting'[j] = "none" \/ reconnecting[j] # "none")
      /\ job'[j].status = "done" =>
           \/ job[j].status = "done" \/ Excused(j)'
           \/ starting'[j] = "none" \/ reconnecting[j] # "none"
  BY <1>1, OneRecord DEF Kept
<1>3. /\ starting'[j] = starting[j] \/ starting'[j] = "none" \/ (Called(j) /\ Called(j)')
      /\ closing'[j] # "none" => closing[j] # "none" \/ RestartBlock(j)
      /\ closing'[j] = "wait" => closing[j] = "wait" \/ CloseTerminates(j)
      /\ terminating'[j] # "none" =>
           \/ terminating[j] # "none"
           \/ Stored(j) /\ (CloseTerminates(j) \/ (TryTerminateJobManager(j) /\ Running(j)))
      /\ reconnecting'[j] # "none" =>
           reconnecting[j] # "none" \/ Running(j) \/ StartAnswered(j) \/ j \in autos \/ j \in conn.todo
  BY <1>1, OneCall
<1>4. /\ StartAnswered(j) => starting'[j] = "none" /\ Called(j)
      /\ StartAnswered(j) /\ Stored(j) => Running(j)'
      /\ RestartBlock(j) => block.open /\ block.jobId = j
      /\ CloseTerminates(j) => closing[j] = "begin"
  BY <1>1, WhenTaken, AnsweredRuns
<1>5. (j \in conn'.todo => j \in conn.todo \/ Running(j)) /\ (j \in autos' => j \in autos \/ Running(j))
  BY <1>1, ConnEffect
<1>6. starting'[j] # "none" => starting[j] # "none" /\ (Called(j)' => Called(j))
  BY <1>3 DEF Called
<1>7. job'[j].attached => Stored(j)'
  BY <1>1, <1>2 DEF Sound, Stored
<1>8. starting'[j] # "none" /\ job'[j].status = "done" => Excused(j)'
  BY <1>1, <1>2, <1>6 DEF Sound, Quiet
<1>9. job'[j].status \in {"absent", "init"} \/ starting'[j] # "none" => Quiet(j)'
  <2>1. ASSUME job'[j].status \in {"absent", "init"} \/ starting'[j] # "none"
        PROVE  Quiet(j) /\ ~StartAnswered(j)
    <3>1. CASE starting'[j] # "none"
      BY <1>1, <1>4, <1>6, <3>1 DEF Sound
    <3>2. CASE job'[j].status \in {"absent", "init"}
      <4>1. job[j].status = job'[j].status /\ ~Running(j)'
        BY <1>2, <3>2 DEF Running
      <4>2. StartAnswered(j) => ~Stored(j)
        BY <1>4, <4>1
      <4>3. StartAnswered(j) => job[j].status # "absent"
        BY <1>1, <1>4 DEF Sound, Called
      <4> QED BY <1>1, <3>2, <4>1, <4>2, <4>3 DEF Sound, Stored
    <3> QED BY <2>1, <3>1, <3>2
  <2> QED BY <1>2, <1>3, <1>5, <2>1 DEF Quiet
<1>10. Live(j)' /\ (~job'[j].attached \/ closing'[j] = "wait" \/ terminating'[j] # "none") => Excused(j)'
  <2> SUFFICES ASSUME Live(j)', ~job'[j].attached \/ closing'[j] = "wait" \/ terminating'[j] # "none"
               PROVE  Excused(j)'
    OBVIOUS
  <2>1. Live(j)
    <3>1. CASE Running(j)'
      BY <1>2, <1>4, <3>1 DEF Live, Called, Running
    <3>2. CASE starting'[j] # "none" /\ Stored(j)'
      BY <1>2, <1>6, <3>2 DEF Live, Stored
    <3> QED BY <3>1, <3>2 DEF Live
  <2>2. CASE ~job[j].attached \/ closing[j] = "wait" \/ terminating[j] # "none"
    <3>1. Excused(j)
      BY <1>1, <2>1, <2>2 DEF Sound
    <3>2. ~Excused(j)' => starting'[j] # "none" /\ reconnecting[j] # "none"
      BY <1>2, <3>1 DEF Live, Running
    <3> QED BY <1>1, <1>6, <3>2 DEF Sound, Quiet
  <2>3. CASE job[j].attached /\ closing[j] # "wait" /\ terminating[j] = "none"
    <3>1. CloseTerminates(j) \/ (TryTerminateJobManager(j) /\ terminating'[j] # terminating[j])
      BY <1>2, <1>3, <2>3
    <3>2. job'[j].marked \/ (job'[j] = job[j] /\ (~Stored(j) \/ job[j].status = "done"))
      BY <1>1, <2>3, <3>1, MarkedFirst
    <3>3. Stored(j) /\ (job[j].status = "done" => Excused(j))
      BY <1>1, <2>1 DEF Live, Stored, Running, Sound
    <3> QED BY <3>2, <3>3 DEF Excused
  <2> QED BY <2>2, <2>3
<1>11. job'[j].status = "absent" => /\ terminating'[j] = "none" /\ closing'[j] = "none"
                                    /\ j \notin doomed' /\ starting'[j] \in {"none", "begin"}
  <2> SUFFICES ASSUME job'[j].status = "absent"
               PROVE  /\ terminating'[j] = "none" /\ closing'[j] = "none"
                      /\ j \notin doomed' /\ starting'[j] \in {"none", "begin"}
    OBVIOUS
  <2>1. job[j].status = "absent" /\ ~Stored(j)
    BY <1>2 DEF Stored
  <2>2. ~RestartBlock(j)
    BY <1>1, <1>4, <2>1 DEF Placed, Sound
  <2>3. ~Called(j)
    BY <1>1, <2>1 DEF Sound, Called
  <2> QED BY <1>1, <1>2, <1>3, <2>1, <2>2, <2>3 DEF Sound
<1>12. starting'[j] = "begin" => job'[j].status = "absent"
  BY <1>1, <1>2, <1>3 DEF Sound, Called, Stored
<1>13. Sound(j)'
  BY <1>1, <1>2, <1>7, <1>8, <1>9, <1>10, <1>11, <1>12 DEF Sound
<1>14. ASSUME block'.open PROVE Placed(j)'
  <2>1. Placed(j)
    BY <1>1, <1>2, <1>14
  <2>2. starting'[j] = "attach" => job'[j].attached /\ job'[j].status = "init" /\ block'.jobId # j
    <3> SUFFICES ASSUME starting'[j] = "attach"
                 PROVE  job'[j].attached /\ job'[j].status = "init" /\ block'.jobId # j
      OBVIOUS
    <3>1. starting[j] = "attach" /\ ~Called(j)
      BY <1>3 DEF Called
    <3>2. /\ job[j].attached /\ job[j].status = "init" /\ block.jobId # j
          /\ terminating[j] = "none" /\ reconnecting[j] = "none"
      BY <1>1, <2>1, <3>1 DEF Placed, Sound, Quiet
    <3> QED BY <1>2, <3>1, <3>2
  <2>3. Called(j)' => block'.jobId = j
    BY <1>2, <1>6, <2>1 DEF Placed, Called
  <2>4. block'.jobId = j => job'[j].attached
    BY <1>2, <2>1 DEF Placed
  <2>5. job'[j].attached /\ block'.jobId # j =>
          job'[j].status = "init" /\ closing'[j] = "none" /\ terminating'[j] = "none"
    <3> SUFFICES ASSUME job'[j].attached, block'.jobId # j
                 PROVE  job'[j].status = "init" /\ closing'[j] = "none" /\ terminating'[j] = "none"
      OBVIOUS
    <3>1. /\ job[j].status = "init" /\ closing[j] = "none" /\ terminating[j] = "none"
          /\ ~Called(j) /\ reconnecting[j] = "none" /\ ~Running(j)
      BY <1>1, <1>2, <2>1 DEF Placed, Sound, Quiet
    <3>2. job'[j].status = "init"
      BY <1>2, <3>1
    <3> QED BY <1>2, <1>3, <1>4, <3>1, <3>2
  <2> QED BY <2>2, <2>3, <2>4, <2>5 DEF Placed
<1> QED BY <1>13, <1>14

\* DetachJobFromBlock.
LEMMA DetachedSound ==
    ASSUME LifeInv, [Next]_vars, NEW j \in Jobs, JobAction(j), CloseDetaches(j)
    PROVE  Sound(j)' /\ (block'.open => Placed(j)')
<1> USE DEF callVars, memoryVars, reconcileVars
<1>1. Typed /\ ConnShape /\ Sound(j) /\ (block.open => Placed(j)) /\ Alone
  BY DEF LifeInv
<1>2. /\ job'[j].status = job[j].status /\ job'[j].marked = job[j].marked
      /\ job'[j].reason = job[j].reason
      /\ Stored(j) => ~job'[j].attached
      /\ ~Stored(j) => job'[j] = job[j]
      /\ block' = IF Stored(j) /\ job[j].attached THEN [block EXCEPT !.jobId = NoJob] ELSE block
      /\ doomed' = doomed
  BY <1>1, DetachedRecord
<1>3. /\ closing[j] = "wait" /\ terminating[j] = "none" /\ closing'[j] = "none"
      /\ UNCHANGED <<starting, terminating, reconnecting, autos, conn>>
  BY <1>1 DEF CloseDetaches, Typed
<1>4. Sound(j)'
  <2>1. /\ Stored(j)' <=> Stored(j)
        /\ Running(j)' <=> Running(j)
        /\ Live(j)' <=> Live(j)
        /\ Excused(j)' <=> Excused(j)
    BY <1>2, <1>3 DEF Stored, Running, Live, Excused
  <2>2. Quiet(j)' <=> Quiet(j)
    BY <1>3, <2>1 DEF Quiet
  <2>3. ~job'[j].attached
    BY <1>1, <1>2 DEF Sound
  <2>4. Live(j) => Excused(j)
    BY <1>1, <1>3 DEF Sound
  <2> QED BY <1>1, <1>2, <1>3, <2>1, <2>2, <2>3, <2>4 DEF Sound
<1>5. ASSUME block'.open PROVE Placed(j)'
  <2>1. block.open
    BY <1>1, <1>2, <1>5 DEF Typed
  <2>2. starting'[j] = "none"
    BY <1>1, <1>3, <2>1 DEF Alone
  <2>3. ~job'[j].attached
    BY <1>1, <1>2 DEF Sound
  <2>4. block'.jobId # j
    <3>1. CASE Stored(j) /\ job[j].attached
      BY <1>1, <1>2, <3>1, LifecycleAssumption DEF Typed
    <3>2. CASE ~(Stored(j) /\ job[j].attached)
      BY <1>1, <1>2, <2>1, <3>2 DEF Sound, Placed
    <3> QED BY <3>1, <3>2
  <2> QED BY <2>2, <2>3, <2>4 DEF Placed, Called
<1> QED BY <1>4, <1>5

\* Any other job.
LEMMA OtherSound ==
    ASSUME LifeInv, [Next]_vars, NEW i \in Jobs, Same(i), i \in doomed' => i \in doomed,
           block'.open => block.open /\ (block'.jobId = i <=> block.jobId = i)
    PROVE  Sound(i)' /\ (block'.open => Placed(i)')
<1>1. (i \in conn'.todo => i \in conn.todo \/ Running(i)) /\ (i \in autos' => i \in autos \/ Running(i))
  BY ConnEffect DEF LifeInv
<1>2. Sound(i) /\ (block.open => Placed(i))
  BY DEF LifeInv
<1>3. /\ Stored(i)' <=> Stored(i)
      /\ Running(i)' <=> Running(i)
      /\ Live(i)' <=> Live(i)
      /\ Excused(i)' <=> Excused(i)
      /\ Called(i)' <=> Called(i)
  BY DEF Same, Stored, Running, Live, Excused, Called
<1>4. Quiet(i) => Quiet(i)'
  BY <1>1, <1>3 DEF Quiet, Same
<1>5. Sound(i)'
  BY <1>2, <1>3, <1>4 DEF Sound, Same
<1>6. block'.open => Placed(i)'
  BY <1>2, <1>3 DEF Placed, Same
<1> QED BY <1>5, <1>6


\* A handler of job j.
LEMMA JobStep ==
    ASSUME LifeInv, [Next]_vars, NEW j \in Jobs, JobAction(j)
    PROVE  Alone' /\ \A i \in Jobs : Sound(i)' /\ (block'.open => Placed(i)')
<1>1. Typed /\ Alone /\ Sound(j) /\ (block.open => Placed(j))
  BY DEF LifeInv
<1>2. /\ doomed' = doomed
      /\ block'.open = block.open
      /\ block' = block \/ (block'.jobId = NoJob /\ (block.open => block.jobId = j))
  <2>1. CASE CloseDetaches(j)
    <3>1. /\ block' = IF Stored(j) /\ job[j].attached THEN [block EXCEPT !.jobId = NoJob] ELSE block
          /\ doomed' = doomed
      BY <1>1, <2>1, DetachedRecord
    <3>2. block.open /\ job[j].attached => block.jobId = j
      BY <1>1, <2>1, WhenTaken DEF Placed
    <3> QED BY <1>1, <3>1, <3>2 DEF Typed
  <2>2. CASE ~CloseDetaches(j)
    BY <1>1, <2>2, OneRecord DEF Kept
  <2> QED BY <2>1, <2>2
<1>3. \A i \in Jobs : i # j => Same(i)
  BY <1>1, OthersSame
<1>4. ASSUME NEW i \in Jobs PROVE Sound(i)' /\ (block'.open => Placed(i)')
  <2>1. CASE i = j
    BY <2>1, OneSound, DetachedSound
  <2>2. CASE i # j
    <3>1. block'.open => block.open /\ (block'.jobId = i <=> block.jobId = i)
      BY <1>2, <2>2, LifecycleAssumption
    <3> QED BY <1>2, <1>3, <2>2, <3>1, OtherSound
  <2> QED BY <2>1, <2>2
<1>5. /\ starting'[j] = starting[j] \/ starting'[j] = "none" \/ (Called(j) /\ Called(j)')
      /\ closing'[j] # "none" => closing[j] # "none" \/ RestartBlock(j)
      /\ RestartBlock(j) => \A i \in Jobs : starting[i] = "none"
      /\ StartAnswered(j) => starting'[j] = "none" /\ Called(j)
  BY <1>1, OneCall, WhenTaken
<1>6. \A i \in Jobs : starting'[i] # "none" => starting[i] # "none"
  BY <1>3, <1>5 DEF Same, Called
<1>7. Running(j)' => Running(j) \/ StartAnswered(j)
  <2>1. CASE CloseDetaches(j)
    BY <1>1, <2>1, DetachedRecord DEF Running
  <2>2. CASE ~CloseDetaches(j)
    BY <1>1, <2>2, OneRecord DEF Kept
  <2> QED BY <2>1, <2>2
<1>8. ASSUME block'.open, NEW i \in Jobs, NEW k \in Jobs, starting'[i] # "none"
      PROVE  closing'[k] = "none" /\ (block'.jobId = k => ~Running(k)')
  <2>1. /\ starting[i] # "none" /\ closing[k] = "none" /\ (block.jobId = k => ~Running(k))
        /\ block'.jobId = k => block.jobId = k
    BY <1>1, <1>2, <1>6, <1>8, LifecycleAssumption DEF Alone
  <2>2. closing'[k] = "none"
    BY <1>3, <1>5, <2>1 DEF Same
  <2>3. ~StartAnswered(j)
    BY <1>1, <1>5, <1>8, <2>1 DEF Alone, Called
  <2>4. Running(k)' => Running(k)
    BY <1>3, <1>7, <2>3 DEF Same, Running
  <2> QED BY <2>1, <2>2, <2>4
<1>9. Alone'
  <2>1. \A i, k \in Jobs : starting'[i] # "none" /\ starting'[k] # "none" => i = k
    BY <1>1, <1>6 DEF Alone
  <2>2. ~block'.open => block'.jobId = NoJob
    BY <1>1, <1>2 DEF Alone
  <2> QED BY <1>8, <2>1, <2>2 DEF Alone
<1> QED BY <1>4, <1>9

\* A start that begins, and StartJob's insert.
LEMMA BeginStep ==
    ASSUME LifeInv, [Next]_vars, NEW j \in Jobs, StartController(j) \/ InsertJob(j)
    PROVE  Alone' /\ \A i \in Jobs : Sound(i)' /\ (block'.open => Placed(i)')
<1> USE DEF dbVars, callVars, memoryVars, reconcileVars, remoteVars, eventVars
<1>1. Typed /\ Alone /\ Sound(j) /\ (block.open => Placed(j)) /\ starting \in [Jobs -> Calls]
  BY DEF LifeInv, Typed
<1>2. /\ UNCHANGED <<block, doomed, reconnecting, terminating, closing, manager, exitNotices, asked,
                     conn, autos>>
  BY DEF StartController, InsertJob
<1>3. /\ job[j].status = "absent" /\ starting[j] \in {"none", "begin"}
      /\ starting'[j] \in {"begin", "attach"}
      /\ \A i \in Jobs : i # j => /\ starting'[i] = starting[i] /\ starting[i] = "none"
                                  /\ job'[i] = job[i]
      /\ StartController(j) => /\ starting'[j] = "begin" /\ job' = job
                               /\ \A i \in Jobs : starting[i] = "none" /\ closing[i] = "none"
                               /\ block.jobId # NoJob => ~Running(block.jobId)
      /\ ~StartController(j) => /\ starting'[j] = "attach" /\ starting[j] = "begin"
                                /\ job'[j].status = "init" /\ job'[j].attached
  <2>1. CASE StartController(j)
    BY <1>1, <2>1 DEF StartController
  <2>2. CASE InsertJob(j) /\ ~StartController(j)
    <3>1. /\ job'[j].status = "init" /\ job'[j].attached
          /\ \A i \in Jobs : i # j => job'[i] = job[i]
      BY <1>1, <2>2, StatusRecord
    <3>2. starting[j] = "begin" /\ starting' = [starting EXCEPT ![j] = "attach"]
      BY <2>2 DEF InsertJob
    <3> QED BY <1>1, <2>2, <3>1, <3>2 DEF Alone, Sound
  <2> QED BY <2>1, <2>2
<1>4. ~Stored(j) /\ ~job[j].attached /\ ~Running(j) /\ block.open => block.jobId # j
  BY <1>1, <1>3 DEF Sound, Stored, Placed
<1>5. Quiet(j) /\ terminating[j] = "none" /\ closing[j] = "none" /\ j \notin doomed /\ ~job[j].attached
  BY <1>1, <1>3 DEF Sound, Stored
<1>6. ~Running(j)' /\ (job'[j].attached => job'[j].status = "init" /\ starting'[j] = "attach")
  BY <1>1, <1>3, <1>5 DEF Running
<1>7. Sound(j)'
  <2>1. Quiet(j)'
    BY <1>2, <1>5, <1>6 DEF Quiet
  <2>2. Live(j)' => job'[j].attached
    BY <1>1, <1>3, <1>6 DEF Live, Stored
  <2>3. job'[j].attached => Stored(j)'
    BY <1>6 DEF Stored
  <2> QED BY <1>1, <1>2, <1>3, <1>5, <1>6, <2>1, <2>2, <2>3 DEF Sound
<1>8. block'.open => Placed(j)'
  BY <1>1, <1>2, <1>3, <1>5, <1>6 DEF Placed, Called
<1>9. ASSUME NEW i \in Jobs, i # j PROVE Sound(i)' /\ (block'.open => Placed(i)')
  <2>1. Same(i)
    BY <1>2, <1>3, <1>9 DEF Same
  <2> QED BY <1>2, <2>1, OtherSound
<1>10. Alone'
  <2>1. \A i, k \in Jobs : starting'[i] # "none" /\ starting'[k] # "none" => i = k
    BY <1>3
  <2>2. ASSUME block.open, NEW k \in Jobs PROVE closing[k] = "none" /\ (block.jobId = k => ~Running(k)')
    <3>1. closing[k] = "none" /\ (block.jobId = k => ~Running(k))
      BY <1>1, <1>3, <2>2, LifecycleAssumption DEF Alone
    <3>2. Running(k)' => Running(k)
      BY <1>3, <1>6 DEF Running
    <3> QED BY <3>1, <3>2
  <2> QED BY <1>1, <1>2, <2>1, <2>2 DEF Alone
<1> QED BY <1>7, <1>8, <1>9, <1>10

\* AttachJobToBlock takes the block from a job that does not run.
LEMMA AttachStep ==
    ASSUME LifeInv, [Next]_vars, NEW j \in Jobs, AttachJob(j)
    PROVE  Alone' /\ \A i \in Jobs : Sound(i)' /\ (block'.open => Placed(i)')
<1> USE DEF callVars, memoryVars, reconcileVars, remoteVars, eventVars
<1>1. /\ Typed /\ Alone /\ starting \in [Jobs -> Calls]
      /\ block \in [open : BOOLEAN, jobId : Jobs \cup {NoJob}]
      /\ \A i \in Jobs : Sound(i) /\ (block.open => Placed(i))
  BY DEF LifeInv, Typed
<1>2. /\ UNCHANGED <<doomed, reconnecting, terminating, closing, manager, exitNotices, asked, conn, autos>>
      /\ starting[j] = "attach" /\ block.open /\ block' = [block EXCEPT !.jobId = j]
      /\ starting' = [starting EXCEPT ![j] = IF up THEN "call" ELSE "lost"]
  BY DEF AttachJob
<1>3. block'.open /\ block'.jobId = j
  BY <1>1, <1>2
<1>4. \A i \in Jobs :
        /\ job'[i].status = job[i].status /\ job'[i].reason = job[i].reason
        /\ job'[i].marked = job[i].marked
        /\ i = j => job'[i].attached
        /\ i # j /\ i = block.jobId => ~job'[i].attached
        /\ i # j /\ i # block.jobId => job'[i] = job[i]
  BY <1>1, AttachedRecord
<1>5. /\ starting'[j] \in {"call", "lost"} /\ Called(j)'
      /\ \A i \in Jobs : i # j => starting'[i] = starting[i] /\ starting[i] = "none"
  BY <1>1, <1>2 DEF Alone, Called
<1>6. \A i \in Jobs : closing[i] = "none" /\ (block.jobId = i => ~Running(i))
  BY <1>1, <1>2 DEF Alone
<1>7. Sound(j)' /\ Placed(j)'
  <2>1. /\ job[j].attached /\ job[j].status = "init" /\ terminating[j] = "none" /\ j \notin doomed
        /\ Quiet(j)
    BY <1>1, <1>2 DEF Sound, Placed
  <2>2. Quiet(j)' /\ Stored(j)'
    BY <1>2, <1>4, <2>1 DEF Quiet, Running, Stored
  <2> QED BY <1>2, <1>3, <1>4, <1>5, <1>6, <2>1, <2>2 DEF Sound, Placed
<1>8. ASSUME NEW i \in Jobs, i # j PROVE Sound(i)' /\ Placed(i)'
  <2>1. Sound(i) /\ Placed(i)
    BY <1>1, <1>2
  <2>2. Running(i)' <=> Running(i)
    BY <1>4 DEF Running
  <2>3. Quiet(i) => Quiet(i)'
    BY <1>2, <2>2 DEF Quiet
  <2>4. starting'[i] = "none" /\ ~Called(i)' /\ block'.jobId # i
    BY <1>3, <1>5, <1>8 DEF Called
  <2>5. CASE i = block.jobId
    <3>1. ~job'[i].attached /\ ~Running(i)'
      BY <1>4, <1>6, <1>8, <2>2, <2>5
    <3>2. ~Live(i)'
      BY <2>4, <3>1 DEF Live
    <3> QED BY <1>2, <1>4, <2>1, <2>3, <2>4, <3>1, <3>2 DEF Sound, Placed
  <2>6. CASE i # block.jobId
    <3>1. job'[i] = job[i]
      BY <1>4, <1>8, <2>6
    <3>2. Live(i)' => Live(i)
      BY <2>2, <2>4 DEF Live
    <3>3. Sound(i)'
      BY <1>2, <2>1, <2>3, <2>4, <3>1, <3>2 DEF Sound, Stored, Excused
    <3>4. Placed(i)'
      BY <1>2, <2>1, <2>4, <2>6, <3>1 DEF Placed
    <3> QED BY <3>3, <3>4
  <2> QED BY <2>5, <2>6
<1>9. Alone'
  <2>1. \A i, k \in Jobs : starting'[i] # "none" /\ starting'[k] # "none" => i = k
    BY <1>5
  <2>2. ~Running(j)'
    BY <1>1, <1>2, <1>4 DEF Sound, Quiet, Running
  <2> QED BY <1>2, <1>3, <1>6, <2>1, <2>2 DEF Alone
<1> QED BY <1>7, <1>8, <1>9

\* The pruning worker deletes what was done and detached, and still is.
LEMMA DeleteStep ==
    ASSUME LifeInv, [Next]_vars, NEW j \in Jobs, DeleteJob(j)
    PROVE  Alone' /\ \A i \in Jobs : Sound(i)' /\ (block'.open => Placed(i)')
<1> USE DEF callVars, reconcileVars, remoteVars, eventVars
<1>1. Typed /\ Alone /\ Sound(j) /\ (block.open => Placed(j))
  BY DEF LifeInv
<1>2. /\ UNCHANGED <<block, starting, reconnecting, terminating, closing, manager, exitNotices, asked,
                     conn, autos>>
      /\ j \in doomed /\ doomed' = doomed \ {j}
  BY DEF DeleteJob
<1>3. /\ job'[j].status = "deleted" /\ job'[j].attached = job[j].attached
      /\ \A i \in Jobs : i # j => job'[i] = job[i]
  BY <1>1, StatusRecord
<1>4. ~job[j].attached /\ job[j].status # "absent" /\ starting[j] # "begin"
  BY <1>1, <1>2 DEF Sound
<1>5. ~Running(j)' /\ ~Stored(j)' /\ ~Live(j)'
  BY <1>3 DEF Running, Stored, Live
<1>6. Sound(j)'
  <2>1. starting[j] # "none" => Quiet(j)
    BY <1>1 DEF Sound
  <2>2. starting'[j] # "none" => Quiet(j)'
    BY <1>2, <1>5, <2>1 DEF Quiet
  <2> QED BY <1>2, <1>3, <1>4, <1>5, <2>2 DEF Sound
<1>7. block'.open => Placed(j)'
  BY <1>1, <1>2, <1>3, <1>4 DEF Placed, Called
<1>8. ASSUME NEW i \in Jobs, i # j PROVE Sound(i)' /\ (block'.open => Placed(i)')
  <2>1. Same(i) /\ (i \in doomed' => i \in doomed)
    BY <1>2, <1>3, <1>8 DEF Same
  <2> QED BY <1>2, <2>1, OtherSound
<1>9. Alone'
  <2>1. \A i \in Jobs : Running(i)' => Running(i)
    BY <1>3, <1>5 DEF Running
  <2> QED BY <1>1, <1>2, <2>1 DEF Alone
<1> QED BY <1>6, <1>7, <1>8, <1>9

\* The block is closed: every job it is the block of is about to be ended.
LEMMA CloseStepSound ==
    ASSUME LifeInv, [Next]_vars, CloseBlock
    PROVE  Alone' /\ \A i \in Jobs : Sound(i)' /\ (block'.open => Placed(i)')
<1> USE DEF reconcileVars
<1>1. Typed /\ Alone /\ \A i \in Jobs : Sound(i)
  BY DEF LifeInv
<1>2. /\ UNCHANGED <<job, doomed, starting, reconnecting, terminating, autos, conn>>
      /\ block' = [open |-> FALSE, jobId |-> NoJob]
      /\ closing' = [i \in Jobs |-> IF Stored(i) /\ job[i].attached THEN "begin" ELSE closing[i]]
  BY DEF CloseBlock
<1>3. ~block'.open /\ block'.jobId = NoJob
  BY <1>2
<1>4. Alone'
  BY <1>1, <1>2, <1>3 DEF Alone
<1>5. ASSUME NEW i \in Jobs PROVE Sound(i)'
  <2>1. /\ Stored(i)' <=> Stored(i)
        /\ Live(i)' <=> Live(i)
        /\ Excused(i)' <=> Excused(i)
        /\ Quiet(i)' <=> Quiet(i)
    BY <1>2 DEF Stored, Live, Excused, Quiet, Running
  <2>2. /\ closing'[i] = "wait" => closing[i] = "wait"
        /\ job[i].status = "absent" => closing'[i] = closing[i]
    BY <1>2 DEF Stored
  <2> QED BY <1>1, <1>2, <2>1, <2>2 DEF Sound
<1> QED BY <1>3, <1>4, <1>5

\* A pass of the pruning worker, the loss of the connection, and the main server's end.
LEMMA OtherSteps ==
    ASSUME LifeInv, [Next]_vars, PruneUnusedJobs \/ LinkDown \/ Crash
    PROVE  Alone' /\ \A i \in Jobs : Sound(i)' /\ (block'.open => Placed(i)')
<1>1. Typed /\ Alone /\ \A i \in Jobs : Sound(i) /\ (block.open => Placed(i))
  BY DEF LifeInv
<1>2. /\ UNCHANGED <<job, block>>
      /\ \A i \in Jobs : /\ i \in doomed' => i \in doomed \/ Unused(job[i])
                         /\ \/ starting'[i] = starting[i]
                            \/ starting'[i] = "none"
                            \/ Called(i) /\ starting'[i] = "lost"
                         /\ closing'[i] \in {closing[i], "none"}
                         /\ terminating'[i] # "none" => terminating[i] # "none"
                         /\ reconnecting'[i] # "none" => reconnecting[i] # "none"
                         /\ i \in autos' => i \in autos
                         /\ i \in conn'.todo => i \in conn.todo
  <2>1. CASE PruneUnusedJobs
    BY <2>1 DEF PruneUnusedJobs, callVars, memoryVars, reconcileVars
  <2>2. CASE LinkDown
    <3>1. UNCHANGED <<autos, conn>>
      BY <2>2 DEF LinkDown, memoryVars
    <3> QED BY <1>1, <2>2, <3>1, LinkDownEffect DEF Called
  <2>3. CASE Crash
    BY <2>3 DEF Crash, IdleConn
  <2> QED BY <2>1, <2>2, <2>3
<1>3. ASSUME NEW i \in Jobs
      PROVE  /\ Stored(i)' <=> Stored(i)
             /\ Running(i)' <=> Running(i)
             /\ Excused(i)' <=> Excused(i)
             /\ starting'[i] # "none" => starting[i] # "none"
             /\ starting'[i] \in {"begin", "attach"} => starting'[i] = starting[i]
             /\ Called(i)' => Called(i)
  BY <1>2 DEF Stored, Running, Excused, Called
<1>4. ASSUME NEW i \in Jobs PROVE Sound(i)'
  <2>1. Sound(i)
    BY <1>1
  <2>2. (Live(i)' => Live(i)) /\ (Quiet(i) => Quiet(i)')
    BY <1>2, <1>3 DEF Live, Quiet
  <2>3. i \in doomed' => i \in doomed \/ (~job[i].attached /\ job[i].status = "done")
    BY <1>2 DEF Unused
  <2>4. starting[i] \in {"none", "begin"} => starting'[i] \in {"none", "begin"}
    BY <1>2 DEF Called
  <2> QED BY <1>2, <1>3, <2>1, <2>2, <2>3, <2>4 DEF Sound
<1>5. ASSUME NEW i \in Jobs, block'.open PROVE Placed(i)'
  <2>1. Placed(i)
    BY <1>1, <1>2, <1>5
  <2> QED BY <1>2, <1>3, <2>1 DEF Placed
<1>6. Alone'
  BY <1>1, <1>2, <1>3 DEF Alone
<1> QED BY <1>4, <1>5, <1>6

\* Every step.
LEMMA LifeStep == LifeInv /\ [Next]_vars => LifeInv'
<1> SUFFICES ASSUME LifeInv, [Next]_vars PROVE LifeInv'
  OBVIOUS
<1>1. Typed' /\ ConnShape'
  BY TypedStep, ConnEffect DEF LifeInv
<1>2. SUFFICES Alone' /\ \A i \in Jobs : Sound(i)' /\ (block'.open => Placed(i)')
  BY <1>1 DEF LifeInv
<1>3. CASE ConnAction \/ UNCHANGED vars
  <2>1. UNCHANGED <<job, block, doomed, starting, reconnecting, terminating, closing, manager, asked,
                    exitNotices>>
    BY <1>3, ConnSame
  <2>2. \A i \in Jobs : Same(i)
    BY <2>1 DEF Same
  <2>3. Alone'
    BY <2>1 DEF LifeInv, Alone, Running
  <2> QED BY <2>1, <2>2, <2>3, OtherSound
<1> QED BY <1>3, JobStep, BeginStep, AttachStep, DeleteStep, CloseStepSound, OtherSteps, NextCases


-----------------------------------------------------------------------------
(* The initial conditions, and the theorems.                               *)

\* Nothing is under way in either initial condition; the one job there may be runs, in its block.
LEMMA InitLife ==
    ASSUME Init \/ RunningInit
    PROVE  LifeInv
<1>1. NoRecord \in JobRecord /\ NoManager \in Managers /\ "none" \in Calls
  BY DEF NoRecord, JobRecord, Statuses, NoManager, Managers, Calls
<1>2. /\ starting \in [Jobs -> Calls] /\ reconnecting \in [Jobs -> Calls]
      /\ terminating \in [Jobs -> Calls] /\ closing \in [Jobs -> {"none", "begin", "wait"}]
      /\ \A j \in Jobs : /\ starting[j] = "none" /\ closing[j] = "none" /\ terminating[j] = "none"
                         /\ reconnecting[j] = "none"
      /\ autos = {} /\ doomed = {} /\ conn = [IdleConn EXCEPT !.actual = TRUE, !.processed = TRUE]
  BY <1>1 DEF Init, RunningInit, NothingUnderWay
<1>3. ConnShape /\ conn.todo = {}
  BY <1>2 DEF ConnShape, IdleConn
<1>4. NoRecord.status = "absent" /\ ~NoRecord.attached
  BY DEF NoRecord
<1>5. CASE Init
  <2>1. /\ Typed /\ block.open /\ block.jobId = NoJob
    BY <1>1, <1>2, <1>5 DEF Init, Typed
  <2>2. \A j \in Jobs : ~job[j].attached /\ job[j].status = "absent"
    <3>1. job = [j \in Jobs |-> NoRecord]
      BY <1>5, Zenon DEF Init
    <3>2. ASSUME NEW j \in Jobs PROVE job[j] = NoRecord
      BY <3>1
    <3> QED BY <1>4, <3>2, Zenon
  <2>3. Alone /\ \A j \in Jobs : block.jobId # j
    BY <1>2, <2>1, LifecycleAssumption DEF Alone
  <2> QED BY <1>2, <1>3, <2>1, <2>2, <2>3 DEF LifeInv, Sound, Placed, Live, Quiet, Running, Stored, Called
<1>6. CASE RunningInit
  <2> DEFINE first == [NoRecord EXCEPT !.status = "running", !.pid = TRUE, !.attached = TRUE]
             started == [NoManager EXCEPT !.proc = "alive"]
  <2>1. PICK j \in Jobs :
          /\ job = [i \in Jobs |-> IF i = j THEN first ELSE NoRecord]
          /\ block = [open |-> TRUE, jobId |-> j]
          /\ manager = [i \in Jobs |-> IF i = j THEN started ELSE NoManager]
    BY <1>6 DEF RunningInit
  <2>2. /\ first \in JobRecord /\ first.status = "running" /\ first.attached
        /\ started \in Managers
    BY DEF NoRecord, JobRecord, Statuses, NoManager, Managers
  <2> HIDE DEF first, started
  <2>3. job \in [Jobs -> JobRecord] /\ manager \in [Jobs -> Managers]
    BY <1>1, <2>1, <2>2
  <2>4. block \in [open : BOOLEAN, jobId : Jobs \cup {NoJob}] /\ block.open /\ block.jobId = j
    BY <2>1
  <2>5. Typed
    BY <1>2, <2>3, <2>4 DEF Typed
  <2>6. \A i \in Jobs : \/ i = j /\ job[i].status = "running" /\ job[i].attached
                        \/ i # j /\ job[i].status = "absent" /\ ~job[i].attached
    <3>1. job = [i \in Jobs |-> IF i = j THEN first ELSE NoRecord]
      BY <2>1, Zenon
    <3>2. ASSUME NEW i \in Jobs
          PROVE  \/ i = j /\ job[i] = first
                 \/ i # j /\ job[i] = NoRecord
      BY <3>1
    <3> QED BY <1>4, <2>2, <3>2, Zenon
  <2>7. Alone
    BY <1>2, <2>4 DEF Alone
  <2> QED BY <1>2, <1>3, <2>4, <2>5, <2>6, <2>7 DEF LifeInv, Sound, Placed, Live, Quiet, Running, Stored,
                                                   Called
<1> QED BY <1>5, <1>6

\* No command has exited, and nothing has been marked.
LEMMA InitEnding ==
    ASSUME Init \/ RunningInit
    PROVE  EndingInv
<1>1. Typed
  BY InitLife DEF LifeInv
<1>2. \A j \in Jobs : /\ ~job[j].exited /\ ~job[j].streamDone /\ ~job[j].marked
                      /\ manager[j].proc # "killed"
  <2> DEFINE first == [NoRecord EXCEPT !.status = "running", !.pid = TRUE, !.attached = TRUE]
             started == [NoManager EXCEPT !.proc = "alive"]
  <2>1. /\ \A r \in {NoRecord, first} : ~r.exited /\ ~r.streamDone /\ ~r.marked
        /\ \A m \in {NoManager, started} : m.proc # "killed"
    BY DEF NoRecord, NoManager
  <2>2. \A i \in Jobs : job[i] \in {NoRecord, first} /\ manager[i] \in {NoManager, started}
    BY DEF Init, RunningInit
  <2> QED BY <2>1, <2>2
<1>3. \A j \in Jobs : /\ j \notin exitNotices /\ terminating[j] = "none"
                      /\ reconnecting[j] = "none" /\ closing[j] = "none"
  <2>1. /\ exitNotices = {} /\ terminating = [j \in Jobs |-> "none"]
        /\ reconnecting = [j \in Jobs |-> "none"] /\ closing = [j \in Jobs |-> "none"]
    BY Zenon DEF Init, RunningInit, NothingUnderWay
  <2>2. ASSUME NEW j \in Jobs
        PROVE  /\ j \notin exitNotices /\ terminating[j] = "none" /\ reconnecting[j] = "none"
               /\ closing[j] = "none"
    BY <2>1
  <2> QED BY <2>2, Zenon
<1> QED BY <1>1, <1>2, <1>3 DEF EndingInv, Ending

\* No job manager is terminated that the user has not ended and that is still in use,
\* whatever is lost, crashes, fails, dies or is pruned in between (remoteTerminateJobManager and
\* doReconnectJob).
THEOREM OnlyEndedKilled == Spec \/ RunningSpec => []OnlyEndedJobsKilled
<1>1. Init \/ RunningInit => EndingInv
  BY InitEnding
<1>2. EndingInv => OnlyEndedJobsKilled
  BY DEF EndingInv, Ending, Ended, OnlyEndedJobsKilled
<1> QED BY <1>1, <1>2, EndingStep, PTL DEF Spec, RunningSpec

\* StartJob's insert, AttachJobToBlock and DetachJobFromBlock, with an error, a crash or the end
\* of the block after any of them, leave an open block with one job that has ever run.
THEOREM OneJobEach == Spec \/ RunningSpec => []OneJobPerBlock
<1>1. Init \/ RunningInit => LifeInv
  BY InitLife
<1>2. LifeInv => OneJobPerBlock
  BY DEF LifeInv, Typed, Placed, OneJobPerBlock
<1> QED BY <1>1, <1>2, LifeStep, PTL DEF Spec, RunningSpec

\* pruneUnusedJobs never deletes the job its block shows: what it found done and detached
\* stays detached until it is deleted.
THEOREM BlockJobStays == Spec \/ RunningSpec => []BlockKeepsItsJob
<1>1. Init \/ RunningInit => LifeInv
  BY InitLife
<1>2. LifeInv => BlockKeepsItsJob
  BY DEF LifeInv, Typed, Alone, Placed, Sound, BlockKeepsItsJob
<1> QED BY <1>1, <1>2, LifeStep, PTL DEF Spec, RunningSpec

\* TerminateAndDetachJob leaves no job behind that runs without a block and that the next
\* reconnect does not end, but for the job that StartJob makes running after it was terminated.
THEOREM DetachedMarked == Spec \/ RunningSpec => []DetachedIsMarked
<1>1. Init \/ RunningInit => LifeInv
  BY InitLife
<1>2. LifeInv => DetachedIsMarked
  BY DEF LifeInv, Sound, Live, Excused, DetachedIsMarked
<1> QED BY <1>1, <1>2, LifeStep, PTL DEF Spec, RunningSpec

-----------------------------------------------------------------------------
(* Every variable has its type.                                            *)

StartCalls == {"none", "begin", "attach", "call", "answered", "failed", "lost"}
ReconnectCalls == {"none", "call", "kill", "killed", "connected", "gone", "registered",
                   "stream", "lost"}
TerminateCalls == {"none", "call", "callNoPid", "answered", "lost"}
Sides == {"exit", "stream"}

\* The calls of each job, and who is about to look at it.
CallsOK ==
    /\ starting \in [Jobs -> StartCalls] /\ reconnecting \in [Jobs -> ReconnectCalls]
    /\ terminating \in [Jobs -> TerminateCalls] /\ checks \in [Jobs -> SUBSET Sides]

\* What the controller remembers of its jobs and of the connection.
MemoryOK ==
    /\ candidates \subseteq Jobs /\ doomed \subseteq Jobs /\ connected \subseteq Jobs
    /\ autos \subseteq Jobs /\ attempted \subseteq Jobs /\ controlled \in BOOLEAN

ReconcileOK ==
    /\ conn \in [actual : BOOLEAN, processed : BOOLEAN, target : {"none", "up", "down"},
                 todo : SUBSET Jobs, on : Jobs \cup {NoJob}]
    /\ signal \in BOOLEAN /\ connEvents \in [BOOLEAN -> Nat]

\* The remote host, and what it has sent.
RemoteOK ==
    /\ up \in BOOLEAN /\ route \subseteq Jobs /\ streaming \subseteq Jobs
    /\ routeEvents \in [Jobs -> [RouteChanges -> Nat]] /\ exitNotices \subseteq Jobs
    /\ asked \subseteq Jobs

BoundsOK ==
    bounds \in [losses : 0 .. MaxLosses, crashes : 0 .. MaxCrashes, failures : 0 .. MaxFailures,
                deaths : 0 .. MaxDeaths, ends : 0 .. MaxEnds, restarts : 0 .. MaxRestarts,
                passes : 0 .. MaxPasses, cooldowns : 0 .. MaxCooldowns]

\* Events that are published are counted, one that is handled is taken off the count.
LEMMA CountedEvents ==
    ASSUME NEW kinds, NEW events \in [kinds -> Nat]
    PROVE  /\ NoEvents(kinds) \in [kinds -> Nat]
           /\ \A some : Counted(events, some) \in [kinds -> Nat]
           /\ \A kind \in kinds : events[kind] > 0 => Uncounted(events, kind) \in [kinds -> Nat]
BY DEF NoEvents, Counted, Uncounted

\* What is published is added to the events of one job.
LEMMA PublishedEvents ==
    ASSUME routeEvents \in [Jobs -> [RouteChanges -> Nat]], NEW j \in Jobs, NEW kinds,
           Publish(j, kinds)
    PROVE  routeEvents' \in [Jobs -> [RouteChanges -> Nat]]
<1> DEFINE new == Counted(routeEvents[j], kinds)
<1>1. new \in [RouteChanges -> Nat]
  BY CountedEvents
<1>2. routeEvents' = [routeEvents EXCEPT ![j] = new]
  BY DEF Publish
<1> HIDE DEF new
<1> QED BY <1>1, <1>2

\* A kill takes the job's route and stream away.
LEMMA KilledRoute ==
    ASSUME RemoteOK, NEW j \in Jobs, Kill(j)
    PROVE  /\ route' \subseteq Jobs /\ streaming' \subseteq Jobs
           /\ routeEvents' \in [Jobs -> [RouteChanges -> Nat]]
<1>1. CASE j \in route /\ Alive(j)
  <2>1. Publish(j, {"down"}) /\ route' = route \ {j} /\ streaming' = streaming \ {j}
    BY <1>1 DEF Kill
  <2> QED BY <2>1, PublishedEvents DEF RemoteOK
<1>2. CASE ~(j \in route /\ Alive(j))
  BY <1>2 DEF Kill, RemoteOK
<1> QED BY <1>1, <1>2

\* A reconnect that begins is a call, or a call to end the job.
LEMMA ReconnectBegins ==
    ASSUME reconnecting \in [Jobs -> ReconnectCalls], NEW j \in Jobs, ReconnectJob(j)
    PROVE  reconnecting' \in [Jobs -> ReconnectCalls]
BY DEF ReconnectJob, ReconnectCalls

\* A call to end the job is one of three.
LEMMA TerminateBegins ==
    ASSUME terminating \in [Jobs -> TerminateCalls], NEW j \in Jobs,
           TerminateJobManager(j) \/ UNCHANGED <<job, terminating>>
    PROVE  terminating' \in [Jobs -> TerminateCalls]
BY DEF TerminateJobManager, TerminateCalls

\* The calls a lost connection leaves are lost or as they were.
LEMMA CallsLost ==
    ASSUME NEW S, "lost" \in S, NEW calls \in [Jobs -> S], NEW underWay
    PROVE  Lost(calls, underWay) \in [Jobs -> S]
BY DEF Lost

\* Calls, and who is about to look at a job.
LEMMA CallsStep ==
    ASSUME CallsOK, [Next]_vars
    PROVE  CallsOK'
<1> USE DEF dbVars, callVars, memoryVars, reconcileVars, remoteVars, eventVars
<1>1. ASSUME UNCHANGED <<starting, reconnecting, terminating, checks>> PROVE CallsOK'
  BY <1>1 DEF CallsOK
<1>2. ASSUME NEW j \in Jobs, JobAction(j) PROVE CallsOK'
  <2>1. CASE \/ RestartBlock(j) \/ CloseDetaches(j) \/ CommandExits(j) \/ OutputEnds(j)
             \/ HandleRouteEvent(j) \/ ManagerDies(j)
    BY <1>1, <2>1 DEF RestartBlock, CloseDetaches, CommandExits, OutputEnds, HandleRouteEvent,
        ManagerDies
  <2>2. CASE StartCarriedOut(j)
    BY <2>2 DEF StartCarriedOut, CallsOK, StartCalls, ReconnectCalls, TerminateCalls
  <2>3. CASE StartAnswered(j)
    BY <2>3, ReconnectBegins DEF StartAnswered, CallsOK, StartCalls
  <2>4. CASE StartFails(j)
    BY <2>4 DEF StartFails, CallsOK, StartCalls, ReconnectCalls, TerminateCalls
  <2>5. CASE ResyncController(j)
    BY <2>5, ReconnectBegins DEF ResyncController, CallsOK
  <2>6. CASE CloseTerminates(j)
    BY <2>6, TerminateBegins DEF CloseTerminates, CallsOK
  <2>7. CASE HandleCmdJobExited(j)
    BY <2>7 DEF HandleCmdJobExited, CallsOK, Sides
  <2>8. CASE OutputLoopEnds(j)
    BY <2>8 DEF OutputLoopEnds, CallsOK, Sides
  <2>9. CASE TryTerminateJobManager(j)
    BY <2>9, TerminateBegins DEF TryTerminateJobManager, CallsOK
  <2>10. CASE TerminateCarriedOut(j)
    BY <2>10 DEF TerminateCarriedOut, CallsOK, StartCalls, ReconnectCalls, TerminateCalls
  <2>11. CASE TerminateAnswered(j)
    BY <2>11 DEF TerminateAnswered, CallsOK, StartCalls, ReconnectCalls, TerminateCalls
  <2>12. CASE TerminateFails(j)
    BY <2>12 DEF TerminateFails, CallsOK, StartCalls, ReconnectCalls, TerminateCalls
  <2>13. CASE ReconnectKills(j)
    BY <2>13 DEF ReconnectKills, CallsOK, StartCalls, ReconnectCalls, TerminateCalls
  <2>14. CASE ReconnectKilled(j)
    BY <2>14 DEF ReconnectKilled, CallsOK, StartCalls, ReconnectCalls, TerminateCalls
  <2>15. CASE ReconnectCarriedOut(j)
    BY <2>15 DEF ReconnectCarriedOut, CallsOK, StartCalls, ReconnectCalls, TerminateCalls
  <2>16. CASE ReconnectGone(j)
    BY <2>16 DEF ReconnectGone, CallsOK, StartCalls, ReconnectCalls, TerminateCalls
  <2>17. CASE ReconnectRegistered(j)
    BY <2>17 DEF ReconnectRegistered, CallsOK, StartCalls, ReconnectCalls, TerminateCalls
  <2>18. CASE ReconnectConnected(j)
    BY <2>18 DEF ReconnectConnected, CallsOK, StartCalls, ReconnectCalls, TerminateCalls
  <2>19. CASE RestartStreaming(j)
    BY <2>19 DEF RestartStreaming, CallsOK, Sides, ReconnectCalls
  <2>20. CASE ReconnectFails(j)
    BY <2>20 DEF ReconnectFails, CallsOK, StartCalls, ReconnectCalls, TerminateCalls
  <2>21. CASE AttemptAutoReconnect(j)
    BY <2>21, ReconnectBegins DEF AttemptAutoReconnect, CallsOK
  <2>22. CASE OnConnectionUp(j)
    BY <2>22, ReconnectBegins DEF OnConnectionUp, CallsOK
  <2>23. CASE StartGivesUp(j)
    BY <2>23 DEF StartGivesUp, CallsOK, StartCalls
  <2>24. CASE StartGoesAstray(j)
    BY <2>24 DEF StartGoesAstray, CallsOK, StartCalls
  <2>25. CASE ReconnectBreaks(j)
    BY <2>25 DEF ReconnectBreaks, CallsOK, ReconnectCalls
  <2> QED BY <2>1, <2>2, <2>3, <2>4, <2>5, <2>6, <2>7, <2>8, <2>9, <2>10, <2>11, <2>12, <2>13,
             <2>14, <2>15, <2>16, <2>17, <2>18, <2>19, <2>20, <2>21, <2>22, <2>23, <2>24, <2>25, <1>2
          DEF JobAction
<1>3. ASSUME NEW j \in Jobs, StartController(j) \/ InsertJob(j) \/ AttachJob(j) \/ DeleteJob(j)
      PROVE  CallsOK'
  BY <1>3 DEF StartController, InsertJob, AttachJob, DeleteJob, CallsOK, StartCalls
<1>4. CASE \/ CloseBlock \/ PruneUnusedJobs \/ HandleConnChangeEvent \/ ReconcileAllConns
           \/ JobReconnected \/ ConnReconciled \/ LinkUp
  BY <1>1, <1>4 DEF CloseBlock, PruneUnusedJobs, HandleConnChangeEvent, ReconcileAllConns,
      JobReconnected, ConnReconciled, LinkUp
<1>5. CASE LinkDown
  <2>1. /\ starting' = Lost(starting, {"call", "answered", "failed"})
        /\ terminating' = Lost(terminating, {"call", "callNoPid", "answered"})
        /\ reconnecting' = Lost(reconnecting, {"call", "kill", "killed", "connected", "gone"})
        /\ checks' = checks
    BY <1>5 DEF LinkDown
  <2>2. "lost" \in StartCalls /\ "lost" \in TerminateCalls /\ "lost" \in ReconnectCalls
    BY DEF StartCalls, TerminateCalls, ReconnectCalls
  <2> QED BY <2>1, <2>2, CallsLost DEF CallsOK
<1>6. CASE Crash
  BY <1>6 DEF Crash, CallsOK, StartCalls, ReconnectCalls, TerminateCalls, Sides
<1>7. CASE UNCHANGED vars
  BY <1>1, <1>7 DEF vars
<1> QED BY <1>2, <1>3, <1>4, <1>5, <1>6, <1>7, NextCases DEF ConnAction

\* What the controller remembers of its jobs.
LEMMA MemoryStep ==
    ASSUME MemoryOK, [Next]_vars
    PROVE  MemoryOK'
<1> USE DEF dbVars, callVars, memoryVars, reconcileVars, remoteVars, eventVars
<1>1. ASSUME UNCHANGED <<candidates, doomed, connected, autos, attempted, controlled>> PROVE MemoryOK'
  BY <1>1 DEF MemoryOK
<1>2. ASSUME NEW j \in Jobs, JobAction(j) PROVE MemoryOK'
  <2>1. CASE \/ StartGivesUp(j) \/ StartGoesAstray(j) \/ StartCarriedOut(j) \/ StartFails(j)
             \/ CloseTerminates(j) \/ CloseDetaches(j) \/ CommandExits(j) \/ OutputEnds(j)
             \/ HandleCmdJobExited(j)
    BY <1>1, <2>1 DEF StartGivesUp, StartGoesAstray, StartCarriedOut, StartFails, CloseTerminates, CloseDetaches, CommandExits,
        OutputEnds, HandleCmdJobExited
  <2>2. CASE \/ OutputLoopEnds(j) \/ TryTerminateJobManager(j) \/ TerminateCarriedOut(j)
             \/ TerminateAnswered(j) \/ TerminateFails(j) \/ ReconnectKills(j) \/ ReconnectKilled(j)
    BY <1>1, <2>2 DEF OutputLoopEnds, TryTerminateJobManager, TerminateCarriedOut,
        TerminateAnswered, TerminateFails, ReconnectKills, ReconnectKilled
  <2>3. CASE \/ ReconnectCarriedOut(j) \/ ReconnectGone(j) \/ ReconnectRegistered(j)
             \/ RestartStreaming(j) \/ ReconnectBreaks(j) \/ ReconnectFails(j)
             \/ OnConnectionUp(j) \/ ManagerDies(j)
    BY <1>1, <2>3 DEF ReconnectCarriedOut, ReconnectGone, ReconnectRegistered, RestartStreaming,
        ReconnectBreaks, ReconnectFails, OnConnectionUp, ManagerDies
  <2>4. CASE StartAnswered(j)
    BY <2>4 DEF StartAnswered, MemoryOK
  <2>5. CASE ResyncController(j)
    BY <2>5 DEF ResyncController, MemoryOK
  <2>6. CASE RestartBlock(j)
    BY <2>6 DEF RestartBlock, MemoryOK
  <2>7. CASE ReconnectConnected(j)
    BY <2>7 DEF ReconnectConnected, MemoryOK
  <2>8. CASE HandleRouteEvent(j)
    BY <2>8 DEF HandleRouteEvent, AutoReconnectDue, MemoryOK
  <2>9. CASE AttemptAutoReconnect(j)
    BY <2>9 DEF AttemptAutoReconnect, MemoryOK
  <2> QED BY <2>1, <2>2, <2>3, <2>4, <2>5, <2>6, <2>7, <2>8, <2>9, <1>2 DEF JobAction
<1>3. ASSUME NEW j \in Jobs, StartController(j) \/ InsertJob(j) \/ AttachJob(j) \/ DeleteJob(j)
      PROVE  MemoryOK'
  BY <1>1, <1>3 DEF StartController, InsertJob, AttachJob, DeleteJob, MemoryOK
<1>4. CASE \/ LinkDown \/ HandleConnChangeEvent \/ ReconcileAllConns \/ JobReconnected
           \/ ConnReconciled \/ LinkUp
  BY <1>1, <1>4 DEF LinkDown, HandleConnChangeEvent, ReconcileAllConns, JobReconnected,
      ConnReconciled, LinkUp
<1>5. CASE CloseBlock
  BY <1>5 DEF CloseBlock, MemoryOK
<1>6. CASE PruneUnusedJobs
  BY <1>6 DEF PruneUnusedJobs, MemoryOK
<1>7. CASE Crash
  BY <1>7 DEF Crash, MemoryOK
<1>8. CASE UNCHANGED vars
  BY <1>1, <1>8 DEF vars
<1> QED BY <1>2, <1>3, <1>4, <1>5, <1>6, <1>7, <1>8, NextCases DEF ConnAction

\* What it knows of the connection.
LEMMA ReconcileStep ==
    ASSUME ReconcileOK, [Next]_vars
    PROVE  ReconcileOK'
<1> USE DEF dbVars, callVars, memoryVars, reconcileVars, remoteVars, eventVars
<1>1. ASSUME UNCHANGED <<conn, signal, connEvents>> PROVE ReconcileOK'
  BY <1>1 DEF ReconcileOK
<1>2. ASSUME NEW j \in Jobs, JobAction(j) PROVE ReconcileOK'
  <2>1. CASE \/ StartGivesUp(j) \/ StartGoesAstray(j) \/ StartCarriedOut(j) \/ StartAnswered(j)
             \/ StartFails(j) \/ ResyncController(j) \/ RestartBlock(j) \/ CloseTerminates(j)
             \/ CloseDetaches(j)
    BY <1>1, <2>1 DEF StartGivesUp, StartGoesAstray, StartCarriedOut, StartAnswered, StartFails, ResyncController,
        RestartBlock, CloseTerminates, CloseDetaches
  <2>2. CASE \/ CommandExits(j) \/ OutputEnds(j) \/ HandleCmdJobExited(j) \/ OutputLoopEnds(j)
             \/ TryTerminateJobManager(j) \/ TerminateCarriedOut(j) \/ TerminateAnswered(j)
    BY <1>1, <2>2 DEF CommandExits, OutputEnds, HandleCmdJobExited, OutputLoopEnds,
        TryTerminateJobManager, TerminateCarriedOut, TerminateAnswered
  <2>3. CASE \/ TerminateFails(j) \/ ReconnectKills(j) \/ ReconnectKilled(j) \/ ReconnectCarriedOut(j)
             \/ ReconnectGone(j) \/ ReconnectRegistered(j) \/ ReconnectConnected(j)
    BY <1>1, <2>3 DEF TerminateFails, ReconnectKills, ReconnectKilled, ReconnectCarriedOut,
        ReconnectGone, ReconnectRegistered, ReconnectConnected
  <2>4. CASE \/ RestartStreaming(j) \/ ReconnectBreaks(j) \/ ReconnectFails(j)
             \/ HandleRouteEvent(j) \/ AttemptAutoReconnect(j) \/ ManagerDies(j)
    BY <1>1, <2>4 DEF RestartStreaming, ReconnectBreaks, ReconnectFails, HandleRouteEvent,
        AttemptAutoReconnect, ManagerDies
  <2>5. CASE OnConnectionUp(j)
    BY <2>5 DEF OnConnectionUp, ReconcileOK
  <2> QED BY <2>1, <2>2, <2>3, <2>4, <2>5, <1>2 DEF JobAction
<1>3. ASSUME NEW j \in Jobs, StartController(j) \/ InsertJob(j) \/ AttachJob(j) \/ DeleteJob(j)
      PROVE  ReconcileOK'
  BY <1>1, <1>3 DEF StartController, InsertJob, AttachJob, DeleteJob
<1>4. CASE \/ CloseBlock \/ PruneUnusedJobs
  BY <1>1, <1>4 DEF CloseBlock, PruneUnusedJobs
<1>5. CASE LinkDown
  <2>1. connEvents' = Counted(connEvents, {FALSE}) /\ UNCHANGED <<conn, signal>>
    BY <1>5 DEF LinkDown
  <2> QED BY <2>1, CountedEvents DEF ReconcileOK
<1>6. CASE Crash
  <2>1. conn' = IdleConn /\ signal' = FALSE /\ connEvents' = NoEvents(BOOLEAN)
    BY <1>6 DEF Crash
  <2> QED BY <2>1, CountedEvents DEF ReconcileOK, IdleConn
<1>7. CASE HandleConnChangeEvent
  <2>1. PICK isUp \in BOOLEAN :
           /\ connEvents[isUp] > 0 /\ connEvents' = Uncounted(connEvents, isUp)
           /\ conn' = [conn EXCEPT !.actual = isUp] /\ signal' = TRUE
    BY <1>7 DEF HandleConnChangeEvent
  <2>2. connEvents' \in [BOOLEAN -> Nat]
    BY <2>1, CountedEvents DEF ReconcileOK
  <2>3. conn' \in [actual : BOOLEAN, processed : BOOLEAN, target : {"none", "up", "down"},
                   todo : SUBSET Jobs, on : Jobs \cup {NoJob}]
    BY <2>1 DEF ReconcileOK
  <2> QED BY <2>1, <2>2, <2>3 DEF ReconcileOK
<1>8. CASE ReconcileAllConns
  <2> DEFINE t == IF conn.actual THEN "up" ELSE "down"
             d == IF conn.actual THEN {j \in Jobs : Running(j)} ELSE {}
  <2>1. t \in {"none", "up", "down"} /\ d \in SUBSET Jobs
    OBVIOUS
  <2>2. conn' = conn \/ conn' = [conn EXCEPT !.target = t, !.todo = d]
    BY <1>8, Zenon DEF ReconcileAllConns
  <2>3. signal' = FALSE /\ connEvents' = connEvents
    BY <1>8 DEF ReconcileAllConns
  <2> HIDE DEF t, d
  <2>4. conn' \in [actual : BOOLEAN, processed : BOOLEAN, target : {"none", "up", "down"},
                   todo : SUBSET Jobs, on : Jobs \cup {NoJob}]
    BY <2>1, <2>2 DEF ReconcileOK
  <2> QED BY <2>3, <2>4 DEF ReconcileOK
<1>9. CASE JobReconnected
  BY <1>9 DEF JobReconnected, ReconcileOK
<1>10. CASE ConnReconciled
  BY <1>10 DEF ConnReconciled, ReconcileOK
<1>11. CASE LinkUp
  <2>1. connEvents' = Counted(connEvents, {TRUE}) /\ UNCHANGED <<conn, signal>>
    BY <1>11 DEF LinkUp
  <2> QED BY <2>1, CountedEvents DEF ReconcileOK
<1>12. CASE UNCHANGED vars
  BY <1>1, <1>12 DEF vars
<1> QED BY <1>2, <1>3, <1>4, <1>5, <1>6, <1>7, <1>8, <1>9, <1>10, <1>11, <1>12, NextCases DEF
           ConnAction

\* The remote host, and what it has sent.
LEMMA RemoteStep ==
    ASSUME RemoteOK, [Next]_vars
    PROVE  RemoteOK'
<1> USE DEF dbVars, callVars, memoryVars, reconcileVars, remoteVars, eventVars
<1>1. ASSUME UNCHANGED <<up, route, streaming, routeEvents, exitNotices, asked>> PROVE RemoteOK'
  BY <1>1 DEF RemoteOK
<1>2. ASSUME NEW j \in Jobs, JobAction(j) PROVE RemoteOK'
  <2>1. CASE \/ StartGivesUp(j) \/ StartAnswered(j) \/ ResyncController(j)
             \/ CloseTerminates(j) \/ CloseDetaches(j) \/ OutputEnds(j) \/ TryTerminateJobManager(j)
    BY <1>1, <2>1 DEF StartGivesUp, StartAnswered, ResyncController, CloseTerminates,
        CloseDetaches, OutputEnds, TryTerminateJobManager
  <2>2. CASE \/ TerminateAnswered(j) \/ TerminateFails(j) \/ ReconnectKilled(j) \/ ReconnectGone(j)
             \/ ReconnectRegistered(j) \/ ReconnectConnected(j) \/ ReconnectFails(j)
    BY <1>1, <2>2 DEF TerminateAnswered, TerminateFails, ReconnectKilled, ReconnectGone,
        ReconnectRegistered, ReconnectConnected, ReconnectFails
  <2>3. CASE AttemptAutoReconnect(j) \/ OnConnectionUp(j)
    BY <1>1, <2>3 DEF AttemptAutoReconnect, OnConnectionUp
  <2>4. CASE StartCarriedOut(j)
    BY <2>4, PublishedEvents DEF StartCarriedOut, RemoteOK
  <2>5. CASE RestartBlock(j)
    BY <2>5 DEF RestartBlock, RemoteOK
  <2>6. CASE CommandExits(j)
    BY <2>6 DEF CommandExits, RemoteOK
  <2>7. CASE HandleCmdJobExited(j)
    BY <2>7 DEF HandleCmdJobExited, RemoteOK
  <2>8. CASE OutputLoopEnds(j)
    BY <2>8 DEF OutputLoopEnds, RemoteOK
  <2>9. CASE TerminateCarriedOut(j)
    BY <2>9, KilledRoute DEF TerminateCarriedOut, RemoteOK
  <2>10. CASE ReconnectKills(j)
    BY <2>10, KilledRoute DEF ReconnectKills, RemoteOK
  <2>11. CASE ReconnectCarriedOut(j)
    BY <2>11, PublishedEvents DEF ReconnectCarriedOut, RemoteOK
  <2>12. CASE RestartStreaming(j)
    BY <2>12 DEF RestartStreaming, RemoteOK
  <2>13. CASE HandleRouteEvent(j)
    <3>1. PICK kind \in RouteChanges :
             /\ routeEvents[j][kind] > 0
             /\ routeEvents' = [routeEvents EXCEPT ![j] = Uncounted(@, kind)]
      BY <2>13 DEF HandleRouteEvent
    <3> DEFINE new == Uncounted(routeEvents[j], kind)
    <3>2. new \in [RouteChanges -> Nat]
      BY <3>1, CountedEvents DEF RemoteOK
    <3>3. routeEvents' = [routeEvents EXCEPT ![j] = new]
      BY <3>1
    <3> HIDE DEF new
    <3>4. routeEvents' \in [Jobs -> [RouteChanges -> Nat]]
      BY <3>2, <3>3 DEF RemoteOK
    <3>5. UNCHANGED <<up, route, streaming, exitNotices, asked>>
      BY <2>13 DEF HandleRouteEvent
    <3> QED BY <3>4, <3>5 DEF RemoteOK
  <2>14. CASE ManagerDies(j)
    BY <2>14, PublishedEvents DEF ManagerDies, RemoteOK
  <2>15. CASE StartFails(j)
    BY <2>15 DEF StartFails, RemoteOK
  <2>16. CASE StartGoesAstray(j)
    <3>1. PICK kinds : Publish(j, kinds)
      BY <2>16 DEF StartGoesAstray
    <3>2. UNCHANGED <<up, route, streaming, exitNotices, asked>>
      BY <2>16 DEF StartGoesAstray
    <3> QED BY <3>1, <3>2, PublishedEvents DEF RemoteOK
  <2>17. CASE ReconnectBreaks(j)
    BY <2>17, PublishedEvents DEF ReconnectBreaks, RemoteOK
  <2> QED BY <2>1, <2>2, <2>3, <2>4, <2>5, <2>6, <2>7, <2>8, <2>9, <2>10, <2>11, <2>12, <2>13,
             <2>14, <2>15, <2>16, <2>17, <1>2 DEF JobAction
<1>3. ASSUME NEW j \in Jobs, StartController(j) \/ InsertJob(j) \/ AttachJob(j) \/ DeleteJob(j)
      PROVE  RemoteOK'
  BY <1>1, <1>3 DEF StartController, InsertJob, AttachJob, DeleteJob
<1>4. CASE \/ PruneUnusedJobs \/ HandleConnChangeEvent \/ ReconcileAllConns \/ JobReconnected
           \/ ConnReconciled
  BY <1>1, <1>4 DEF PruneUnusedJobs, HandleConnChangeEvent, ReconcileAllConns, JobReconnected,
      ConnReconciled
<1>5. CASE CloseBlock
  BY <1>5 DEF CloseBlock, RemoteOK
<1>6. CASE LinkDown
  <2>1. /\ up' = FALSE /\ route' = {} /\ streaming' = {} /\ exitNotices' = {} /\ asked' = asked
        /\ routeEvents' = [j \in Jobs |->
             Counted(routeEvents[j], IF j \in route THEN {"down"} ELSE {})]
    BY <1>6 DEF LinkDown
  <2>2. ASSUME NEW j \in Jobs, NEW kinds PROVE Counted(routeEvents[j], kinds) \in [RouteChanges -> Nat]
    BY CountedEvents DEF RemoteOK
  <2>3. routeEvents' \in [Jobs -> [RouteChanges -> Nat]]
    BY <2>1, <2>2
  <2> QED BY <2>1, <2>3 DEF RemoteOK
<1>7. CASE Crash
  <2>1. /\ up' = FALSE /\ route' = {} /\ streaming' = {} /\ exitNotices' = {} /\ asked' = asked
        /\ routeEvents' = [j \in Jobs |-> NoEvents(RouteChanges)]
    BY <1>7 DEF Crash
  <2>2. NoEvents(RouteChanges) \in [RouteChanges -> Nat]
    BY DEF NoEvents
  <2> QED BY <2>1, <2>2 DEF RemoteOK
<1>8. CASE LinkUp
  BY <1>8 DEF LinkUp, RemoteOK
<1>9. CASE UNCHANGED vars
  BY <1>1, <1>9 DEF vars
<1> QED BY <1>2, <1>3, <1>4, <1>5, <1>6, <1>7, <1>8, <1>9, NextCases DEF ConnAction

\* No bound is passed.
LEMMA BoundsStep ==
    ASSUME BoundsOK, [Next]_vars
    PROVE  BoundsOK'
<1> USE DEF dbVars, callVars, memoryVars, reconcileVars, remoteVars, eventVars
<1>1. ASSUME UNCHANGED <<bounds>> PROVE BoundsOK'
  BY <1>1 DEF BoundsOK
<1>2. ASSUME NEW j \in Jobs, JobAction(j) PROVE BoundsOK'
  <2>1. CASE \/ StartGivesUp(j) \/ StartGoesAstray(j) \/ StartCarriedOut(j) \/ StartAnswered(j)
             \/ StartFails(j) \/ ResyncController(j) \/ CloseTerminates(j) \/ CloseDetaches(j)
    BY <1>1, <2>1 DEF StartGivesUp, StartGoesAstray, StartCarriedOut, StartAnswered, StartFails,
        ResyncController, CloseTerminates, CloseDetaches
  <2>2. CASE \/ HandleCmdJobExited(j) \/ OutputLoopEnds(j) \/ TryTerminateJobManager(j)
             \/ TerminateCarriedOut(j) \/ TerminateAnswered(j)
             \/ ReconnectKills(j)
    BY <1>1, <2>2 DEF HandleCmdJobExited, OutputLoopEnds, TryTerminateJobManager,
        TerminateCarriedOut, TerminateAnswered, ReconnectKills
  <2>3. CASE \/ ReconnectKilled(j) \/ ReconnectCarriedOut(j) \/ ReconnectGone(j)
             \/ ReconnectRegistered(j) \/ ReconnectConnected(j)
    BY <1>1, <2>3 DEF ReconnectKilled, ReconnectCarriedOut, ReconnectGone, ReconnectRegistered,
        ReconnectConnected
  <2>4. CASE AttemptAutoReconnect(j) \/ OnConnectionUp(j)
    BY <1>1, <2>4 DEF AttemptAutoReconnect, OnConnectionUp
  <2>5. CASE CommandExits(j)
    BY LifecycleAssumption, <2>5 DEF CommandExits, BoundsOK
  <2>6. CASE OutputEnds(j)
    BY LifecycleAssumption, <2>6 DEF OutputEnds, BoundsOK
  <2>7. CASE HandleRouteEvent(j)
    <3>1. \/ UNCHANGED bounds
          \/ bounds.cooldowns < MaxCooldowns /\ bounds' = [bounds EXCEPT !.cooldowns = @ + 1]
      BY <2>7 DEF HandleRouteEvent, AutoReconnectDue
    <3> QED BY LifecycleAssumption, <3>1 DEF BoundsOK
  <2>8. CASE ManagerDies(j)
    BY LifecycleAssumption, <2>8 DEF ManagerDies, BoundsOK
  <2>9. CASE RestartBlock(j)
    BY LifecycleAssumption, <2>9 DEF RestartBlock, BoundsOK
  <2>10. CASE TerminateFails(j) \/ RestartStreaming(j) \/ ReconnectBreaks(j) \/ ReconnectFails(j)
    <3>1. UNCHANGED bounds \/ Fault
      BY <2>10 DEF TerminateFails, RestartStreaming, ReconnectBreaks, ReconnectFails
    <3> QED BY LifecycleAssumption, <3>1 DEF Fault, BoundsOK
  <2> QED BY <2>1, <2>2, <2>3, <2>4, <2>5, <2>6, <2>7, <2>8, <2>9, <2>10, <1>2 DEF JobAction
<1>3. ASSUME NEW j \in Jobs, StartController(j) \/ InsertJob(j) \/ AttachJob(j) \/ DeleteJob(j)
      PROVE  BoundsOK'
  BY <1>1, <1>3 DEF StartController, InsertJob, AttachJob, DeleteJob
<1>4. CASE \/ CloseBlock \/ HandleConnChangeEvent \/ ReconcileAllConns \/ JobReconnected
           \/ ConnReconciled \/ LinkUp
  BY <1>1, <1>4 DEF CloseBlock, HandleConnChangeEvent, ReconcileAllConns, JobReconnected,
      ConnReconciled, LinkUp
<1>5. CASE PruneUnusedJobs
  BY LifecycleAssumption, <1>5 DEF PruneUnusedJobs, BoundsOK
<1>6. CASE LinkDown
  <2>1. bounds.losses < MaxLosses /\ bounds' = [bounds EXCEPT !.losses = @ + 1]
    BY <1>6 DEF LinkDown
  <2> QED BY LifecycleAssumption, <2>1 DEF BoundsOK
<1>7. CASE Crash
  <2>1. bounds.crashes < MaxCrashes /\ bounds' = [bounds EXCEPT !.crashes = @ + 1]
    BY <1>7 DEF Crash
  <2> QED BY LifecycleAssumption, <2>1 DEF BoundsOK
<1>8. CASE UNCHANGED vars
  BY <1>1, <1>8 DEF vars
<1> QED BY <1>2, <1>3, <1>4, <1>5, <1>6, <1>7, <1>8, NextCases DEF ConnAction

\* Every variable has its type to begin with.
LEMMA TypesAtStart ==
    ASSUME Init \/ RunningInit
    PROVE  CallsOK /\ MemoryOK /\ ReconcileOK /\ RemoteOK /\ BoundsOK
<1>1. NothingUnderWay
  BY DEF Init, RunningInit
<1>2. CallsOK
  BY <1>1 DEF NothingUnderWay, CallsOK, StartCalls, ReconnectCalls, TerminateCalls
<1>3. MemoryOK
  BY <1>1 DEF NothingUnderWay, MemoryOK, Init, RunningInit
<1>4. ReconcileOK
  <2>1. /\ conn = [IdleConn EXCEPT !.actual = TRUE, !.processed = TRUE] /\ signal = FALSE
        /\ connEvents = NoEvents(BOOLEAN)
    BY <1>1 DEF NothingUnderWay
  <2> QED BY <2>1 DEF ReconcileOK, IdleConn, NoEvents
<1>5. RemoteOK
  <2>1. /\ up = TRUE /\ exitNotices = {} /\ asked = {}
        /\ routeEvents = [j \in Jobs |-> NoEvents(RouteChanges)]
    BY <1>1, Zenon DEF NothingUnderWay
  <2>2. NoEvents(RouteChanges) \in [RouteChanges -> Nat]
    BY DEF NoEvents
  <2>3. routeEvents \in [Jobs -> [RouteChanges -> Nat]]
    BY <2>1, <2>2
  <2>4. route \subseteq Jobs /\ streaming \subseteq Jobs
    <3>1. \/ route = {} /\ streaming = {}
          \/ \E j \in Jobs : route = {j} /\ streaming = {j}
      BY Zenon DEF Init, RunningInit
    <3> QED BY <3>1
  <2> QED BY <2>1, <2>3, <2>4 DEF RemoteOK
<1>6. BoundsOK
  BY <1>1, LifecycleAssumption DEF NothingUnderWay, BoundsOK
<1> QED BY <1>2, <1>3, <1>4, <1>5, <1>6

\* The records, calls, queues and bounds of the job controller keep their types.
THEOREM LifecycleTypes == Spec \/ RunningSpec => []LcTypeOK
<1> DEFINE Types == Typed /\ CallsOK /\ MemoryOK /\ ReconcileOK /\ RemoteOK /\ BoundsOK
<1>1. Init \/ RunningInit => Types
  BY InitLife, TypesAtStart DEF LifeInv
<1>2. Types /\ [Next]_vars => Types'
  BY TypedStep, CallsStep, MemoryStep, ReconcileStep, RemoteStep, BoundsStep
<1>3. Types => LcTypeOK
  BY Zenon DEF Typed, Managers, CallsOK, MemoryOK, ReconcileOK, RemoteOK, BoundsOK, LcTypeOK, StartCalls,
               ReconnectCalls, TerminateCalls, Sides
<1> QED BY <1>1, <1>2, <1>3, PTL DEF Spec, RunningSpec
=============================================================================
