---------------------------- MODULE SystemTaskLease ----------------------------
(***************************************************************************)
(* Background work on several master nodes (model/system_task.go,          *)
(* service/system_task.go, service/system_task_runner.go): rows of one     *)
(* task type, the type's lock row with its lease, the runner loop of each  *)
(* node (stale-lock cleanup, then claim), the handlers it dispatches and   *)
(* their heartbeats.  Types share nothing, so one stands for all.          *)
(*                                                                         *)
(* Abstractions.  A lease is live or has lapsed: lapsing is the passing of *)
(* 60 seconds without a renewal.  Every statement reads the clock before   *)
(* it runs, so that a delayed one may still treat a lapsed lease as live.  *)
(* Payloads, progress and results are left out, and so is the interval of  *)
(* the scheduler: a row may be created whenever the unique index allows.   *)
(***************************************************************************)
EXTENDS Naturals, FiniteSets

CONSTANTS Runners,    \* runner ids: one per process and never reused
          None,       \* no runner
          MaxTasks,   \* bound on rows
          Legacy,     \* rows from before active_key, still pending
          MaxFaults   \* bound on database errors, panics and crashes

ASSUME LeaseConstants ==
    /\ MaxTasks \in Nat /\ MaxFaults \in Nat
    /\ Legacy \subseteq 1 .. MaxTasks /\ None \notin Runners

VARIABLES
    task,      \* system_tasks
    lock,      \* the row of system_task_locks, or NoLock
    loop,      \* [Runners -> where the runner's loop is and what it has read]
    handlers,  \* handlers running on some node
    faults,    \* faults so far
    runs,      \* [Ids -> how often a handler was started] (history)
    calm       \* no claim outlasts a lease taken within it, no error hides a commit
               \* and no legacy row is pending

lvars == <<task, lock, loop, handlers, faults, runs, calm>>

Ids == 1 .. MaxTasks
Active == {"pending", "running"}
Ended  == {"succeeded", "failed"}

Row(st, r, k) == [st |-> st, by |-> r, key |-> k]
Rows == [st : {"none"} \cup Active \cup Ended, by : Runners \cup {None}, key : BOOLEAN]

\* late: cleanup passes whose clock is past this lease's end.
Lease(t, r) == [task |-> t, by |-> r, live |-> TRUE, late |-> {}]
NoLock == [task |-> 0, by |-> None, live |-> FALSE, late |-> {}]
Locks  == [task : Ids, by : Runners, live : BOOLEAN, late : SUBSET Runners] \cup {NoLock}

Places == {"idle", "mark", "drop", "lock", "fail", "run", "reread", "dead"}
At(p, t, x) == [at |-> p, t |-> t, seen |-> x]
Idle == At("idle", 0, None)
Loops == [at : Places, t : Ids \cup {0}, seen : Ids \cup {0, None} \cup Runners]

Handlers == [t : Ids, r : Runners, at : {"work", "release"}, beats : BOOLEAN]

LInit ==
    /\ calm \in BOOLEAN
    /\ task = [t \in Ids |-> Row(IF t \in Legacy /\ ~calm THEN "pending" ELSE "none", None, FALSE)]
    /\ lock = NoLock
    /\ loop = [r \in Runners |-> Idle]
    /\ handlers = {} /\ faults = 0
    /\ runs = [t \in Ids |-> 0]

Goto(r, l) == loop' = [loop EXCEPT ![r] = l]

\* ReleaseSystemTaskLock
Released(t, r) == IF lock.task = t /\ lock.by = r THEN NoLock ELSE lock

\* MarkSystemTaskLeaseExpired
Expired_AnyStatus(t) ==
    IF t \in Ids THEN [task EXCEPT ![t].st = "failed", ![t].key = FALSE] ELSE task

Expired_KeepsKey(t) ==
    IF t \in Ids /\ task[t].st = "running" THEN [task EXCEPT ![t].st = "failed"] ELSE task

Expired(t) ==
    IF t \in Ids /\ task[t].st = "running"
    THEN [task EXCEPT ![t].st = "failed", ![t].key = FALSE]
    ELSE task
--------------------------------------------------------------------------------
(* CreateSystemTask, from the scheduler or from EnqueueSystemTask. *)

\* The unique index on active_key lets one keyed row of the type be active.
CreateSystemTask(t) ==
    /\ task[t].st = "none" /\ \A u \in Ids : u < t => task[u].st # "none"
    /\ \A u \in Ids : ~task[u].key
    /\ task' = [task EXCEPT ![t] = Row("pending", None, TRUE)]
    /\ UNCHANGED <<lock, loop, handlers, faults, runs, calm>>
--------------------------------------------------------------------------------
(* ExpireStaleSystemTaskLocks, a statement at a time. *)

FindStale(r) ==
    /\ loop[r].at = "idle" /\ lock # NoLock /\ ~lock.live
    /\ lock' = [lock EXCEPT !.late = @ \cup {r}]
    /\ Goto(r, At("mark", lock.task, lock.by))
    /\ UNCHANGED <<task, handlers, faults, runs, calm>>

MarkStale_Skipped(r) ==
    /\ loop[r].at = "mark"
    /\ Goto(r, [loop[r] EXCEPT !.at = "drop"])
    /\ UNCHANGED <<task, lock, handlers, faults, runs, calm>>

MarkStale(r) ==
    /\ loop[r].at = "mark"
    /\ task' = Expired(loop[r].t)
    /\ Goto(r, [loop[r] EXCEPT !.at = "drop"])
    /\ UNCHANGED <<lock, handlers, faults, runs, calm>>

DropStale(r) ==
    /\ loop[r].at = "drop"
    /\ lock' = IF r \in lock.late THEN Released(loop[r].t, loop[r].seen) ELSE lock
    /\ Goto(r, Idle)
    /\ UNCHANGED <<task, handlers, faults, runs, calm>>
--------------------------------------------------------------------------------
(* runSystemTaskClaimPass and ClaimSystemTask, a statement at a time. *)

\* FindEarliestPendingSystemTasks
FindPending(r, t) ==
    /\ loop[r].at = "idle"
    /\ task[t].st = "pending" /\ \A u \in Ids : u < t => task[u].st # "pending"
    /\ Goto(r, At("lock", t, None))
    /\ UNCHANGED <<task, lock, handlers, faults, runs, calm>>

\* acquireSystemTaskLock: the row is inserted, or taken over when it has lapsed.
AcquireLock(r) ==
    LET t == loop[r].t
    IN  /\ loop[r].at = "lock" /\ ~lock.live
        /\ lock' = Lease(t, r)
        /\ Goto(r, IF lock.task \in {0, t} THEN At("run", t, None) ELSE At("fail", t, lock.task))
        /\ UNCHANGED <<task, handlers, faults, runs, calm>>

\* The lock is held, or the row is no longer pending.
ClaimRefused(r) ==
    /\ loop[r].at = "lock"
    /\ lock.live \/ task[loop[r].t].st # "pending"
    /\ Goto(r, Idle)
    /\ UNCHANGED <<task, lock, handlers, faults, runs, calm>>

\* The task of the lock that was taken over.
FailOld(r) ==
    /\ loop[r].at = "fail"
    /\ task' = Expired(loop[r].seen)
    /\ Goto(r, At("run", loop[r].t, None))
    /\ UNCHANGED <<lock, handlers, faults, runs, calm>>

\* The update is conditional on the status alone.
StartTask_Unconditional(r) ==
    /\ loop[r].at = "run"
    /\ task' = [task EXCEPT ![loop[r].t].st = "running", ![loop[r].t].by = r]
    /\ Goto(r, [loop[r] EXCEPT !.at = "reread"])
    /\ UNCHANGED <<lock, handlers, faults, runs, calm>>

StartTask(r) ==
    LET t == loop[r].t
    IN  /\ loop[r].at = "run"
        /\ IF task[t].st = "pending"
           THEN /\ task' = [task EXCEPT ![t].st = "running", ![t].by = r]
                /\ Goto(r, [loop[r] EXCEPT !.at = "reread"])
                /\ UNCHANGED lock
           ELSE /\ lock' = Released(t, r)
                /\ Goto(r, Idle)
                /\ UNCHANGED task
        /\ UNCHANGED <<handlers, faults, runs, calm>>

\* The row is read back and its handler is started with a heartbeat.
Dispatch(r) ==
    LET t == loop[r].t
    IN  /\ loop[r].at = "reread"
        /\ handlers' = handlers \cup {[t |-> t, r |-> r, at |-> "work", beats |-> TRUE]}
        /\ runs' = [runs EXCEPT ![t] = @ + 1]
        /\ Goto(r, Idle)
        /\ UNCHANGED <<task, lock, faults, calm>>
--------------------------------------------------------------------------------
(* Handlers and runWithLeaseHeartbeat. *)

Names(h)    == lock.task = h.t /\ lock.by = h.r
SeesHeld(h) == Names(h) /\ (lock.live \/ ~calm)
SeesLost(h) == ~(Names(h) /\ lock.live)

\* RenewSystemTaskLock
Renew(h) ==
    /\ h.beats /\ SeesHeld(h)
    /\ lock' = Lease(h.t, h.r)
    /\ UNCHANGED <<task, loop, handlers, faults, runs, calm>>

\* The heartbeat ends and the handler's context is cancelled.  A database error
\* does the same to a live lease; the handler then returns early, as it may anyway,
\* and its lease is not renewed, as it need not be.
RenewLost(h) ==
    /\ h.beats /\ SeesLost(h)
    /\ handlers' = (handlers \ {h}) \cup {[h EXCEPT !.beats = FALSE]}
    /\ UNCHANGED <<task, lock, loop, faults, runs, calm>>

\* FinishSystemTask: the row, then the lock.
Finish(h, st) ==
    /\ h.at = "work" /\ SeesHeld(h)
    /\ task[h.t].st = "running" /\ task[h.t].by = h.r
    /\ task' = [task EXCEPT ![h.t].st = st, ![h.t].key = FALSE]
    /\ handlers' = (handlers \ {h}) \cup {[h EXCEPT !.at = "release"]}
    /\ UNCHANGED <<lock, loop, faults, runs, calm>>

FinishReleases(h) ==
    /\ h.at = "release"
    /\ lock' = Released(h.t, h.r)
    /\ handlers' = handlers \ {h}
    /\ UNCHANGED <<task, loop, faults, runs, calm>>

\* FinishSystemTask or UpdateSystemTaskState reports ErrSystemTaskLockLost: the
\* handler returns.
HandlerLost(h) ==
    /\ h.at = "work"
    /\ SeesLost(h) \/ task[h.t].st # "running" \/ task[h.t].by # h.r
    /\ handlers' = handlers \ {h}
    /\ UNCHANGED <<task, lock, loop, faults, runs, calm>>
--------------------------------------------------------------------------------
(* Time and faults. *)

\* The lease in place was taken within a claim that runner r is still in: by r
\* itself, or by another after r has read its row as pending.
OlderClaim(r) ==
    \/ lock.by = r /\ loop[r].at \in {"fail", "run", "reread"}
    \/ loop[r].at = "lock" /\ task[loop[r].t].st # "pending"

Lapse ==
    /\ lock.live
    /\ calm => \A r \in Runners : ~OlderClaim(r)
    /\ lock' = [lock EXCEPT !.live = FALSE]
    /\ UNCHANGED <<task, loop, handlers, faults, runs, calm>>

\* A statement of the loop fails.  An error after the acquisition releases the
\* lock, if that succeeds; what failed may have been committed all the same.
LoopError(r) ==
    LET t == loop[r].t
    IN  /\ faults < MaxFaults /\ faults' = faults + 1
        /\ loop[r].at \notin {"idle", "dead"}
        /\ CASE loop[r].at \in {"fail", "run"} -> lock' \in {lock, Released(t, r)}
             [] loop[r].at = "lock" /\ ~calm /\ ~lock.live -> lock' \in {lock, Lease(t, r)}
             [] OTHER -> UNCHANGED lock
        /\ \/ UNCHANGED task
           \/ /\ loop[r].at = "run" /\ task[t].st = "pending" /\ ~calm
              /\ task' = [task EXCEPT ![t].st = "running", ![t].by = r]
        /\ Goto(r, Idle)
        /\ UNCHANGED <<handlers, runs, calm>>

\* A handler panics, or its last statement fails: no renewal follows.
HandlerDies(h) ==
    /\ faults < MaxFaults /\ faults' = faults + 1
    /\ handlers' = handlers \ {h}
    /\ UNCHANGED <<task, lock, loop, runs, calm>>

\* The process ends, but not the last one.
Crash(r) ==
    /\ faults < MaxFaults /\ faults' = faults + 1
    /\ loop[r].at # "dead" /\ \E s \in Runners \ {r} : loop[s].at # "dead"
    /\ Goto(r, At("dead", 0, None))
    /\ handlers' = {h \in handlers : h.r # r}
    /\ UNCHANGED <<task, lock, runs, calm>>
--------------------------------------------------------------------------------
ClaimPass(r) ==
    \/ \E t \in Ids : FindPending(r, t)
    \/ AcquireLock(r) \/ ClaimRefused(r) \/ FailOld(r) \/ StartTask(r) \/ Dispatch(r)

Cleanup(r) == FindStale(r) \/ MarkStale(r) \/ DropStale(r)

Handler(h) ==
    \/ Renew(h) \/ RenewLost(h) \/ HandlerLost(h) \/ FinishReleases(h)
    \/ \E st \in Ended : Finish(h, st)

LNext ==
    \/ \E t \in Ids : CreateSystemTask(t)
    \/ \E r \in Runners : Cleanup(r) \/ ClaimPass(r) \/ LoopError(r) \/ Crash(r)
    \/ \E h \in handlers : Handler(h) \/ HandlerDies(h)
    \/ Lapse

LSpec == LInit /\ [][LNext]_lvars

\* The loop of a live runner keeps turning and comes to both of its passes; a
\* handler returns in the end; a lease nobody renews lapses.
Unattended == \A h \in handlers : ~(Names(h) /\ h.beats)
Steps(r) == MarkStale(r) \/ DropStale(r) \/ AcquireLock(r) \/ ClaimRefused(r)
              \/ FailOld(r) \/ StartTask(r) \/ Dispatch(r)
Returns(h) == FinishReleases(h) \/ HandlerLost(h) \/ Finish(h, "succeeded")

LFairness ==
    /\ \A r \in Runners :
          /\ WF_lvars(Steps(r)) /\ SF_lvars(FindStale(r))
          /\ SF_lvars(\E t \in Ids : FindPending(r, t))
    /\ \A t \in Ids, r \in Runners :
          WF_lvars(\E h \in handlers : h.t = t /\ h.r = r /\ Returns(h))
    /\ WF_lvars(Lapse /\ Unattended)

LFairSpec == LSpec /\ LFairness
--------------------------------------------------------------------------------
(* Properties. *)

\* Types; a row keeps its active_key only while it is active.
LTypeOK ==
    /\ task \in [Ids -> Rows]
    /\ \A t \in Ids : task[t].key => task[t].st \in Active
    /\ lock \in Locks /\ loop \in [Runners -> Loops]
    /\ handlers \subseteq Handlers /\ faults \in 0 .. MaxFaults
    /\ runs \in [Ids -> Nat] /\ calm \in BOOLEAN

\* However nodes race, stall, fail and crash, a task is executed by one runner
\* and once: an expired task is failed, never run again (ClaimSystemTask).
ExecutedOnce == \A t \in Ids : runs[t] <= 1

\* A task that has ended keeps its outcome: a late cleanup does not fail a
\* finished task and a runner that lost its lease does not overwrite a failed one.
EndedIsFinal ==
    [][\A t \in Ids : task[t].st \in Ended => task'[t] = task[t]]_lvars

\* Every task ends, whatever node fails in the middle of it: a crashed runner's
\* lease lapses, its task is failed and the type is free again.
TasksEnd == \A t \in Ids : task[t].st \in Active ~> task[t].st \in Ended

\* The same, as long as no claim outlasts a lease taken within it, no error hides
\* a commit and no legacy row is left.
TasksEndWhenCalm == calm => TasksEnd
================================================================================
