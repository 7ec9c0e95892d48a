------------------------- MODULE SystemTaskLease_proofs -------------------------
(***************************************************************************)
(* For any set of runners, any number of rows and faults, and whether or   *)
(* not claims stall: a task is executed at most once and its outcome is    *)
(* final.                                                                  *)
(***************************************************************************)
EXTENDS SystemTaskLease, TLAPS

\* A runner past the claim's update and before the dispatch.
About(r, t) == loop[r].at = "reread" /\ loop[r].t = t

\* A row that has not started has no executor; one runner at most is about to
\* execute a row, and then nobody has executed it yet.
Started ==
    \A t \in Ids :
        /\ task[t].st \in {"none", "pending"} =>
              runs[t] = 0 /\ \A r \in Runners : ~About(r, t)
        /\ \A r \in Runners : About(r, t) =>
              runs[t] = 0 /\ \A s \in Runners : About(s, t) => s = r

\* A runner inside a claim holds the id of a row.
HasRow == \A r \in Runners : loop[r].at \in {"lock", "fail", "run", "reread"} => loop[r].t \in Ids

LInv == LTypeOK /\ HasRow /\ Started /\ ExecutedOnce

USE LeaseConstants

\* MarkSystemTaskLeaseExpired moves a running row to failed and touches nothing else.
LEMMA ExpiredRow ==
    ASSUME LTypeOK, NEW x, task' = Expired(x)
    PROVE  /\ task' \in [Ids -> Rows]
           /\ \A t \in Ids : task'[t].key => task'[t].st \in Active
           /\ \A t \in Ids : \/ task'[t] = task[t]
                             \/ task[t].st = "running" /\ task'[t].st = "failed"
  BY DEF LTypeOK, Expired, Rows, Active, Ended

\* ReleaseSystemTaskLock leaves a lock row or none.
LEMMA ReleasedLock ==
    ASSUME LTypeOK, NEW t, NEW r
    PROVE  Released(t, r) \in Locks
  BY DEF LTypeOK, Released, Locks

\* The absent lock row and the idle loop have their types.
LEMMA NoLockTyped == NoLock \in Locks /\ Idle \in Loops
  BY DEF Locks, Idle, At, Loops, Places

\* The invariant holds initially: nothing has been started.
LEMMA InitInv == LInit => LInv
  BY NoLockTyped DEF LInit, LInv, LTypeOK, HasRow, Started, ExecutedOnce, About, Row, Rows, Active,
     Ended, Idle, At, Ids
--------------------------------------------------------------------------------
(* Steps that start no task. *)

\* If nothing is dispatched, no row becomes startable again and nobody comes to
\* be about to execute one, then nothing is executed twice.
LEMMA StartedKept ==
    ASSUME LInv, UNCHANGED runs,
           \A t \in Ids : task'[t].st \in {"none", "pending"} => task[t].st \in {"none", "pending"},
           \A t \in Ids, r \in Runners : About(r, t)' => About(r, t)
    PROVE  Started' /\ ExecutedOnce'
  BY DEF LInv, Started, ExecutedOnce

\* A runner that moves to place l, which is not the dispatch.
LEMMA Moved ==
    ASSUME LInv, NEW r \in Runners, NEW l \in Loops, Goto(r, l),
           l.at \in {"lock", "fail", "run"} => l.t \in Ids, l.at # "reread"
    PROVE  /\ loop' \in [Runners -> Loops] /\ HasRow'
           /\ \A t \in Ids, s \in Runners : About(s, t)' => About(s, t)
<1>1. loop \in [Runners -> Loops] /\ HasRow BY DEF LInv, LTypeOK
<1>2. /\ loop'[r] = l /\ loop' \in [Runners -> Loops]
      /\ \A s \in Runners \ {r} : loop'[s] = loop[s]
  BY <1>1 DEF Goto
<1>3. HasRow'
  <2> SUFFICES ASSUME NEW s \in Runners, loop'[s].at \in {"lock", "fail", "run", "reread"}
               PROVE  loop'[s].t \in Ids
    BY DEF HasRow
  <2>1. CASE s = r BY <2>1, <1>2
  <2>2. CASE s # r BY <2>2, <1>1, <1>2 DEF HasRow
  <2> QED BY <2>1, <2>2
<1> QED BY <1>2, <1>3 DEF About

\* The places a runner moves to.
LEMMA PlacesTyped ==
    ASSUME NEW t \in Ids, NEW x \in Ids \cup {0, None} \cup Runners, NEW p \in Places
    PROVE  At(p, t, x) \in Loops /\ At(p, t, x).at = p /\ At(p, t, x).t = t
  BY DEF At, Loops

\* The idle loop is at no statement.
LEMMA IdlePlace == Idle \in Loops /\ Idle.at = "idle"
  BY NoLockTyped DEF Idle, At

\* The statements of the cleanup pass preserve the invariant.
LEMMA CleanupInv == ASSUME LInv, NEW r \in Runners, Cleanup(r) PROVE LInv'
<1> USE DEF LInv
<1>t. /\ task \in [Ids -> Rows] /\ lock \in Locks /\ loop \in [Runners -> Loops]
      /\ handlers \subseteq Handlers /\ faults \in 0 .. MaxFaults
      /\ runs \in [Ids -> Nat] /\ calm \in BOOLEAN
      /\ \A t \in Ids : task[t].key => task[t].st \in Active
  BY DEF LTypeOK
<1>1. CASE FindStale(r)
  <2>1. lock.task \in Ids /\ lock.by \in Runners /\ lock' \in Locks
    BY <1>1, <1>t DEF FindStale, Locks
  <2>2. PICK l : l = At("mark", lock.task, lock.by) OBVIOUS
  <2>3. l \in Loops /\ l.at = "mark"
    BY <2>1, <2>2, PlacesTyped DEF Places
  <2>4. Goto(r, l) BY <1>1, <2>2 DEF FindStale
  <2>5. /\ loop' \in [Runners -> Loops] /\ HasRow'
        /\ \A t \in Ids, s \in Runners : About(s, t)' => About(s, t)
    BY <2>3, <2>4, Moved
  <2>6. Started' /\ ExecutedOnce' BY <1>1, <2>5, StartedKept DEF FindStale
  <2> QED BY <1>1, <1>t, <2>1, <2>5, <2>6 DEF FindStale, LTypeOK
<1>2. CASE MarkStale(r)
  <2>1. PICK l : l = [loop[r] EXCEPT !.at = "drop"] OBVIOUS
  <2>2. l \in Loops /\ l.at = "drop" BY <1>t, <2>1 DEF Loops, Places
  <2>3. Goto(r, l) BY <1>2, <2>1 DEF MarkStale
  <2>4. /\ loop' \in [Runners -> Loops] /\ HasRow'
        /\ \A t \in Ids, s \in Runners : About(s, t)' => About(s, t)
    BY <2>2, <2>3, Moved
  <2>5. /\ task' \in [Ids -> Rows]
        /\ \A t \in Ids : task'[t].key => task'[t].st \in Active
        /\ \A t \in Ids : \/ task'[t] = task[t]
                          \/ task[t].st = "running" /\ task'[t].st = "failed"
    BY <1>2, ExpiredRow DEF MarkStale
  <2>6. Started' /\ ExecutedOnce' BY <1>2, <2>4, <2>5, StartedKept DEF MarkStale
  <2> QED BY <1>2, <1>t, <2>4, <2>5, <2>6 DEF MarkStale, LTypeOK
<1>3. CASE DropStale(r)
  <2>1. Goto(r, Idle) BY <1>3 DEF DropStale
  <2>2. /\ loop' \in [Runners -> Loops] /\ HasRow'
        /\ \A t \in Ids, s \in Runners : About(s, t)' => About(s, t)
    BY <2>1, IdlePlace, Moved
  <2>3. lock' \in Locks BY <1>3, <1>t, ReleasedLock DEF DropStale
  <2>4. Started' /\ ExecutedOnce' BY <1>3, <2>2, StartedKept DEF DropStale
  <2> QED BY <1>3, <1>t, <2>2, <2>3, <2>4 DEF DropStale, LTypeOK
<1> QED BY <1>1, <1>2, <1>3 DEF Cleanup
--------------------------------------------------------------------------------
(* The claim. *)

\* Of several claims of a pending row one finds it pending, and then no other is
\* about to execute it.
LEMMA StartTaskInv == ASSUME LInv, NEW r \in Runners, StartTask(r) PROVE LInv'
<1> USE DEF LInv
<1>t. /\ task \in [Ids -> Rows] /\ lock \in Locks /\ loop \in [Runners -> Loops]
      /\ handlers \subseteq Handlers /\ faults \in 0 .. MaxFaults
      /\ runs \in [Ids -> Nat] /\ calm \in BOOLEAN
      /\ \A t \in Ids : task[t].key => task[t].st \in Active
  BY DEF LTypeOK
<1>1. loop[r].at = "run" /\ loop[r].t \in Ids BY DEF StartTask, HasRow
<1>2. CASE task[loop[r].t].st = "pending"
  <2> DEFINE x == loop[r].t
             l == [loop[r] EXCEPT !.at = "reread"]
  <2>1. /\ task' = [task EXCEPT ![x].st = "running", ![x].by = r]
        /\ loop' = [loop EXCEPT ![r] = l]
        /\ UNCHANGED <<lock, handlers, faults, runs, calm>>
    BY <1>2 DEF StartTask, Goto
  <2>2. l \in Loops /\ l.at = "reread" /\ l.t = x BY <1>1, <1>t DEF Loops, Places
  <2> HIDE DEF l
  <2>3. /\ loop'[r] = l /\ loop' \in [Runners -> Loops]
        /\ \A s \in Runners \ {r} : loop'[s] = loop[s]
    BY <2>1, <2>2, <1>t
  <2>4. /\ task' \in [Ids -> Rows] /\ task'[x].st = "running"
        /\ \A t \in Ids \ {x} : task'[t] = task[t]
    BY <2>1, <1>1, <1>t DEF Rows, Active
  <2>5. \A t \in Ids : task'[t].key => task'[t].st \in Active
    BY <2>4, <1>t DEF Active
  <2>6. HasRow'
    <3> SUFFICES ASSUME NEW s \in Runners, loop'[s].at \in {"lock", "fail", "run", "reread"}
                 PROVE  loop'[s].t \in Ids
      BY DEF HasRow
    <3>1. CASE s = r BY <3>1, <2>2, <2>3, <1>1
    <3>2. CASE s # r BY <3>2, <2>3 DEF HasRow
    <3> QED BY <3>1, <3>2
  <2>7. runs[x] = 0 /\ \A s \in Runners : ~About(s, x)
    BY <1>1, <1>2 DEF Started
  <2>8. \A t \in Ids, s \in Runners : About(s, t)' => About(s, t) \/ (s = r /\ t = x)
    BY <2>2, <2>3 DEF About
  <2>9. Started'
    <3> SUFFICES ASSUME NEW t \in Ids
                 PROVE  /\ task'[t].st \in {"none", "pending"} =>
                              runs'[t] = 0 /\ \A s \in Runners : ~About(s, t)'
                        /\ \A s \in Runners : About(s, t)' =>
                              runs'[t] = 0 /\ \A q \in Runners : About(q, t)' => q = s
      BY DEF Started
    <3>1. CASE t = x BY <3>1, <2>1, <2>4, <2>7, <2>8
    <3>2. CASE t # x BY <3>2, <2>1, <2>4, <2>8 DEF Started
    <3> QED BY <3>1, <3>2
  <2>10. ExecutedOnce' BY <2>1 DEF ExecutedOnce
  <2> QED BY <1>t, <2>1, <2>3, <2>4, <2>5, <2>6, <2>9, <2>10 DEF LTypeOK
<1>3. CASE task[loop[r].t].st # "pending"
  <2>1. Goto(r, Idle) BY <1>3 DEF StartTask
  <2>2. /\ loop' \in [Runners -> Loops] /\ HasRow'
        /\ \A t \in Ids, s \in Runners : About(s, t)' => About(s, t)
    BY <2>1, IdlePlace, Moved
  <2>3. lock' \in Locks BY <1>3, ReleasedLock DEF StartTask
  <2>4. Started' /\ ExecutedOnce' BY <1>3, <2>2, StartedKept DEF StartTask
  <2> QED BY <1>3, <1>t, <2>2, <2>3, <2>4 DEF StartTask, LTypeOK
<1> QED BY <1>2, <1>3

\* The runner that was about to execute the row is the only one, and it moves on.
LEMMA DispatchInv == ASSUME LInv, NEW r \in Runners, Dispatch(r) PROVE LInv'
<1> USE DEF LInv
<1>t. /\ task \in [Ids -> Rows] /\ lock \in Locks /\ loop \in [Runners -> Loops]
      /\ handlers \subseteq Handlers /\ faults \in 0 .. MaxFaults
      /\ runs \in [Ids -> Nat] /\ calm \in BOOLEAN
      /\ \A t \in Ids : task[t].key => task[t].st \in Active
  BY DEF LTypeOK
<1>0. PICK x : x = loop[r].t OBVIOUS
<1>1. x \in Ids /\ About(r, x) BY <1>0 DEF Dispatch, HasRow, About
<1>2. runs[x] = 0 /\ (\A s \in Runners : About(s, x) => s = r)
      /\ task[x].st \notin {"none", "pending"}
  BY <1>1 DEF Started
<1>3. Goto(r, Idle) BY DEF Dispatch
<1>4. /\ loop' \in [Runners -> Loops] /\ HasRow'
      /\ \A t \in Ids, s \in Runners : About(s, t)' => About(s, t)
  BY <1>3, IdlePlace, Moved
<1>5. ~About(r, x)' BY <1>3, <1>t, IdlePlace DEF Goto, About
<1>6. /\ runs' \in [Ids -> Nat] /\ runs'[x] = 1
      /\ \A t \in Ids \ {x} : runs'[t] = runs[t]
  BY <1>0, <1>1, <1>2, <1>t DEF Dispatch
<1>7. handlers' \subseteq Handlers
  <2>1. [t |-> x, r |-> r, at |-> "work", beats |-> TRUE] \in Handlers BY <1>1 DEF Handlers
  <2>2. handlers' = handlers \cup {[t |-> x, r |-> r, at |-> "work", beats |-> TRUE]}
    BY <1>0 DEF Dispatch
  <2> QED BY <2>1, <2>2, <1>t
<1>8. Started'
  <2> SUFFICES ASSUME NEW t \in Ids
               PROVE  /\ task'[t].st \in {"none", "pending"} =>
                            runs'[t] = 0 /\ \A s \in Runners : ~About(s, t)'
                      /\ \A s \in Runners : About(s, t)' =>
                            runs'[t] = 0 /\ \A q \in Runners : About(q, t)' => q = s
    BY DEF Started
  <2>1. task' = task BY DEF Dispatch
  <2>2. CASE t = x BY <2>1, <2>2, <1>2, <1>4, <1>5
  <2>3. CASE t # x BY <2>1, <2>3, <1>4, <1>6 DEF Started
  <2> QED BY <2>2, <2>3
<1>9. ExecutedOnce'
  <2> SUFFICES ASSUME NEW t \in Ids PROVE runs'[t] <= 1 BY DEF ExecutedOnce
  <2>1. CASE t = x BY <2>1, <1>6
  <2>2. CASE t # x BY <2>2, <1>6 DEF ExecutedOnce
  <2> QED BY <2>1, <2>2
<1> QED BY <1>t, <1>4, <1>6, <1>7, <1>8, <1>9 DEF Dispatch, LTypeOK

\* The other statements of the claim pass.
LEMMA ClaimInv == ASSUME LInv, NEW r \in Runners, ClaimPass(r) PROVE LInv'
<1> USE DEF LInv
<1>t. /\ task \in [Ids -> Rows] /\ lock \in Locks /\ loop \in [Runners -> Loops]
      /\ handlers \subseteq Handlers /\ faults \in 0 .. MaxFaults
      /\ runs \in [Ids -> Nat] /\ calm \in BOOLEAN
      /\ \A t \in Ids : task[t].key => task[t].st \in Active
  BY DEF LTypeOK
<1>1. ASSUME NEW t \in Ids, FindPending(r, t) PROVE LInv'
  <2>1. PICK l : l = At("lock", t, None) OBVIOUS
  <2>2. l \in Loops /\ l.at = "lock" /\ l.t = t BY <2>1, PlacesTyped DEF Places
  <2>3. Goto(r, l) BY <1>1, <2>1 DEF FindPending
  <2>4. /\ loop' \in [Runners -> Loops] /\ HasRow'
        /\ \A u \in Ids, s \in Runners : About(s, u)' => About(s, u)
    BY <2>2, <2>3, Moved
  <2>5. Started' /\ ExecutedOnce' BY <1>1, <2>4, StartedKept DEF FindPending
  <2> QED BY <1>1, <1>t, <2>4, <2>5 DEF FindPending, LTypeOK
<1>2. CASE AcquireLock(r)
  <2>1. loop[r].t \in Ids BY <1>2 DEF AcquireLock, HasRow
  <2>2. lock.task \in Ids \cup {0} BY <1>t DEF Locks, NoLock
  <2>3. PICK l : l = IF lock.task \in {0, loop[r].t} THEN At("run", loop[r].t, None)
                     ELSE At("fail", loop[r].t, lock.task)
    OBVIOUS
  <2>4. l \in Loops /\ l.at \in {"run", "fail"} /\ l.t = loop[r].t
    BY <2>1, <2>2, <2>3, PlacesTyped DEF Places
  <2>5. Goto(r, l) BY <1>2, <2>3 DEF AcquireLock
  <2>6. /\ loop' \in [Runners -> Loops] /\ HasRow'
        /\ \A u \in Ids, s \in Runners : About(s, u)' => About(s, u)
    BY <2>1, <2>4, <2>5, Moved
  <2>7. lock' \in Locks BY <1>2, <2>1 DEF AcquireLock, Lease, Locks
  <2>8. Started' /\ ExecutedOnce' BY <1>2, <2>6, StartedKept DEF AcquireLock
  <2> QED BY <1>2, <1>t, <2>6, <2>7, <2>8 DEF AcquireLock, LTypeOK
<1>3. CASE ClaimRefused(r)
  <2>1. Goto(r, Idle) BY <1>3 DEF ClaimRefused
  <2>2. /\ loop' \in [Runners -> Loops] /\ HasRow'
        /\ \A t \in Ids, s \in Runners : About(s, t)' => About(s, t)
    BY <2>1, IdlePlace, Moved
  <2>3. Started' /\ ExecutedOnce' BY <1>3, <2>2, StartedKept DEF ClaimRefused
  <2> QED BY <1>3, <1>t, <2>2, <2>3 DEF ClaimRefused, LTypeOK
<1>4. CASE FailOld(r)
  <2>1. PICK l : l = At("run", loop[r].t, None) OBVIOUS
  <2>2. loop[r].t \in Ids BY <1>4 DEF FailOld, HasRow
  <2>3. l \in Loops /\ l.at = "run" /\ l.t \in Ids BY <2>1, <2>2, PlacesTyped DEF Places
  <2>4. Goto(r, l) BY <1>4, <2>1 DEF FailOld
  <2>5. /\ loop' \in [Runners -> Loops] /\ HasRow'
        /\ \A t \in Ids, s \in Runners : About(s, t)' => About(s, t)
    BY <2>3, <2>4, Moved
  <2>6. /\ task' \in [Ids -> Rows]
        /\ \A t \in Ids : task'[t].key => task'[t].st \in Active
        /\ \A t \in Ids : \/ task'[t] = task[t]
                          \/ task[t].st = "running" /\ task'[t].st = "failed"
    BY <1>4, ExpiredRow DEF FailOld
  <2>7. Started' /\ ExecutedOnce' BY <1>4, <2>5, <2>6, StartedKept DEF FailOld
  <2> QED BY <1>4, <1>t, <2>5, <2>6, <2>7 DEF FailOld, LTypeOK
<1> QED BY <1>1, <1>2, <1>3, <1>4, StartTaskInv, DispatchInv DEF ClaimPass
--------------------------------------------------------------------------------
(* Creation, handlers, time and faults. *)

\* A step that leaves the loops and the history alone and starts no row.
LEMMA OtherStep ==
    ASSUME LInv, UNCHANGED <<loop, runs, calm>>,
           task' \in [Ids -> Rows], lock' \in Locks,
           handlers' \subseteq Handlers, faults' \in 0 .. MaxFaults,
           \A t \in Ids : task'[t].key => task'[t].st \in Active,
           \A t \in Ids : task'[t].st \in {"none", "pending"} => task[t].st \in {"none", "pending"}
    PROVE  LInv'
<1>1. \A t \in Ids, r \in Runners : About(r, t)' => About(r, t) BY DEF About
<1>2. Started' /\ ExecutedOnce' BY <1>1, StartedKept
<1>3. HasRow' BY DEF LInv, HasRow
<1> QED BY <1>2, <1>3 DEF LInv, LTypeOK

\* CreateSystemTask makes a pending row, which nobody executes.
LEMMA CreateInv == ASSUME LInv, NEW t \in Ids, CreateSystemTask(t) PROVE LInv'
<1>t. LTypeOK BY DEF LInv
<1>1. Row("pending", None, TRUE) \in Rows /\ Row("pending", None, TRUE).st = "pending"
  BY DEF Row, Rows, Active
<1>2. /\ task' \in [Ids -> Rows] /\ task'[t] = Row("pending", None, TRUE)
      /\ \A u \in Ids \ {t} : task'[u] = task[u]
  BY <1>t, <1>1 DEF CreateSystemTask, LTypeOK
<1>3. \A u \in Ids : task'[u].key => task'[u].st \in Active
  BY <1>t, <1>1, <1>2 DEF LTypeOK, Active
<1>4. \A u \in Ids : task'[u].st \in {"none", "pending"} => task[u].st \in {"none", "pending"}
  BY <1>2 DEF CreateSystemTask
<1> QED BY <1>t, <1>2, <1>3, <1>4, OtherStep DEF CreateSystemTask, LTypeOK

\* The passing of a lease touches no row of system_tasks.
LEMMA LapseInv == ASSUME LInv, Lapse PROVE LInv'
<1>t. LTypeOK BY DEF LInv
<1>1. lock \in [task : Ids, by : Runners, live : BOOLEAN, late : SUBSET Runners]
  <2>1. NoLock.live = FALSE BY DEF NoLock
  <2> QED BY <1>t, <2>1 DEF Lapse, LTypeOK, Locks
<1>2. lock' \in [task : Ids, by : Runners, live : BOOLEAN, late : SUBSET Runners]
  BY <1>1 DEF Lapse
<1>3. lock' \in Locks BY <1>2 DEF Locks
<1> QED BY <1>t, <1>3, OtherStep DEF Lapse, LTypeOK

\* Heartbeats, finishing and losing the lease start nothing and end rows for good.
LEMMA HandlerInv ==
    ASSUME LInv, NEW h \in handlers, Handler(h) \/ HandlerDies(h)
    PROVE  LInv'
<1>t. LTypeOK BY DEF LInv
<1>h. h \in Handlers /\ h.t \in Ids /\ h.r \in Runners BY <1>t DEF LTypeOK, Handlers
<1>1. CASE Renew(h)
  <2>1. lock' \in Locks BY <1>1, <1>h DEF Renew, Lease, Locks
  <2> QED BY <1>1, <1>t, <2>1, OtherStep DEF Renew, LTypeOK
<1>2. CASE RenewLost(h)
  <2>1. [h EXCEPT !.beats = FALSE] \in Handlers BY <1>h DEF Handlers
  <2>2. handlers' \subseteq Handlers BY <1>2, <1>t, <2>1 DEF RenewLost, LTypeOK
  <2> QED BY <1>2, <1>t, <2>2, OtherStep DEF RenewLost, LTypeOK
<1>3. CASE HandlerLost(h)
  <2>1. handlers' \subseteq Handlers BY <1>3, <1>t DEF HandlerLost, LTypeOK
  <2> QED BY <1>3, <1>t, <2>1, OtherStep DEF HandlerLost, LTypeOK
<1>4. CASE FinishReleases(h)
  <2>1. handlers' \subseteq Handlers BY <1>4, <1>t DEF FinishReleases, LTypeOK
  <2>2. lock' \in Locks BY <1>4, <1>t, ReleasedLock DEF FinishReleases
  <2> QED BY <1>4, <1>t, <2>1, <2>2, OtherStep DEF FinishReleases, LTypeOK
<1>5. ASSUME NEW st \in Ended, Finish(h, st) PROVE LInv'
  <2>1. [h EXCEPT !.at = "release"] \in Handlers BY <1>h DEF Handlers
  <2>2. handlers' \subseteq Handlers BY <1>5, <1>t, <2>1 DEF Finish, LTypeOK
  <2>3. /\ task' \in [Ids -> Rows]
        /\ task'[h.t].st = st /\ task'[h.t].key = FALSE
        /\ \A t \in Ids \ {h.t} : task'[t] = task[t]
    BY <1>5, <1>h, <1>t DEF Finish, LTypeOK, Rows, Ended
  <2>4. \A t \in Ids : task'[t].key => task'[t].st \in Active
    BY <1>t, <2>3 DEF LTypeOK
  <2>5. \A t \in Ids : task'[t].st \in {"none", "pending"} => task[t].st \in {"none", "pending"}
    BY <2>3 DEF Ended
  <2> QED BY <1>5, <1>t, <2>2, <2>3, <2>4, <2>5, OtherStep DEF Finish, LTypeOK
<1>6. CASE HandlerDies(h)
  <2>1. handlers' \subseteq Handlers /\ faults' \in 0 .. MaxFaults
    BY <1>6, <1>t DEF HandlerDies, LTypeOK
  <2> QED BY <1>6, <1>t, <2>1, OtherStep DEF HandlerDies, LTypeOK
<1> QED BY <1>1, <1>2, <1>3, <1>4, <1>5, <1>6 DEF Handler

\* A crash leaves the rows as they are and forgets what the runner was about to do.
LEMMA CrashInv == ASSUME LInv, NEW r \in Runners, Crash(r) PROVE LInv'
<1> USE DEF LInv
<1>t. /\ task \in [Ids -> Rows] /\ lock \in Locks /\ loop \in [Runners -> Loops]
      /\ handlers \subseteq Handlers /\ faults \in 0 .. MaxFaults
      /\ runs \in [Ids -> Nat] /\ calm \in BOOLEAN
      /\ \A t \in Ids : task[t].key => task[t].st \in Active
  BY DEF LTypeOK
<1>1. PICK l : l = At("dead", 0, None) OBVIOUS
<1>2. l \in Loops /\ l.at = "dead" BY <1>1 DEF At, Loops, Places
<1>3. Goto(r, l) BY <1>1 DEF Crash
<1>4. /\ loop' \in [Runners -> Loops] /\ HasRow'
      /\ \A t \in Ids, s \in Runners : About(s, t)' => About(s, t)
  BY <1>2, <1>3, Moved
<1>5. handlers' \subseteq Handlers /\ faults' \in 0 .. MaxFaults BY <1>t DEF Crash
<1>6. Started' /\ ExecutedOnce' BY <1>4, StartedKept DEF Crash
<1> QED BY <1>t, <1>4, <1>5, <1>6 DEF Crash, LTypeOK

\* An error, with or without a hidden commit, ends the claim: the row it may have
\* started is executed by nobody.
LEMMA LoopErrorInv == ASSUME LInv, NEW r \in Runners, LoopError(r) PROVE LInv'
<1> USE DEF LInv
<1>t. /\ task \in [Ids -> Rows] /\ lock \in Locks /\ loop \in [Runners -> Loops]
      /\ handlers \subseteq Handlers /\ faults \in 0 .. MaxFaults
      /\ runs \in [Ids -> Nat] /\ calm \in BOOLEAN
      /\ \A t \in Ids : task[t].key => task[t].st \in Active
  BY DEF LTypeOK
<1>1. Goto(r, Idle) BY DEF LoopError
<1>2. /\ loop' \in [Runners -> Loops] /\ HasRow'
      /\ \A t \in Ids, s \in Runners : About(s, t)' => About(s, t)
  BY <1>1, IdlePlace, Moved
<1>3. faults' \in 0 .. MaxFaults BY <1>t DEF LoopError
<1>4. lock' \in Locks
  <2>1. CASE loop[r].at \in {"fail", "run"}
    BY <2>1, <1>t, ReleasedLock DEF LoopError
  <2>2. CASE loop[r].at = "lock"
    <3>1. Lease(loop[r].t, r) \in Locks BY <2>2 DEF HasRow, Lease, Locks
    <3> QED BY <2>2, <3>1, <1>t DEF LoopError
  <2>3. CASE loop[r].at \notin {"fail", "run", "lock"}
    BY <2>3, <1>t DEF LoopError
  <2> QED BY <2>1, <2>2, <2>3
<1>5. /\ task' \in [Ids -> Rows]
      /\ \A t \in Ids : task'[t].key => task'[t].st \in Active
      /\ \A t \in Ids : task'[t].st \in {"none", "pending"} => task[t].st \in {"none", "pending"}
  <2>1. CASE UNCHANGED task BY <2>1, <1>t
  <2>2. CASE /\ loop[r].at = "run"
             /\ task' = [task EXCEPT ![loop[r].t].st = "running", ![loop[r].t].by = r]
    <3>1. PICK x : x = loop[r].t OBVIOUS
    <3>2. x \in Ids BY <2>2, <3>1 DEF HasRow
    <3>3. /\ task' \in [Ids -> Rows] /\ task'[x].st = "running"
          /\ \A t \in Ids \ {x} : task'[t] = task[t]
      BY <2>2, <3>1, <3>2, <1>t DEF Rows, Active
    <3> QED BY <3>3, <1>t DEF Active
  <2> QED BY <2>1, <2>2 DEF LoopError
<1>6. Started' /\ ExecutedOnce' BY <1>2, <1>5, StartedKept DEF LoopError
<1> QED BY <1>t, <1>2, <1>3, <1>4, <1>5, <1>6 DEF LoopError, LTypeOK

\* Every step preserves the invariant.
LEMMA NextInv == LInv /\ [LNext]_lvars => LInv'
<1> SUFFICES ASSUME LInv, [LNext]_lvars PROVE LInv' OBVIOUS
<1>1. CASE UNCHANGED lvars
  <2>1. LTypeOK' BY <1>1 DEF lvars, LInv, LTypeOK
  <2>2. HasRow' /\ Started' /\ ExecutedOnce'
    BY <1>1 DEF lvars, LInv, HasRow, Started, ExecutedOnce, About
  <2> QED BY <2>1, <2>2 DEF LInv
<1>2. CASE LNext
  BY <1>2, CreateInv, CleanupInv, ClaimInv, LoopErrorInv, CrashInv, HandlerInv, LapseInv
     DEF LNext
<1> QED BY <1>1, <1>2
--------------------------------------------------------------------------------
(* Theorems. *)

\* The inductive invariant holds in every reachable state.
THEOREM LeaseInvariant == LSpec => []LInv
<1>1. LInit => LInv BY InitInv
<1>2. LInv /\ [LNext]_lvars => LInv' BY NextInv
<1> QED BY <1>1, <1>2, PTL DEF LSpec

\* ClaimSystemTask: rows and the lock row have their types, and an ended row has
\* given up its active_key, so that the type can be scheduled again.
THEOREM LeaseTypes == LSpec => []LTypeOK
<1>1. LInv => LTypeOK BY DEF LInv
<1> QED BY <1>1, LeaseInvariant, PTL

\* ClaimSystemTask: whatever stalls, fails or crashes, a task is executed at most
\* once.
THEOREM LeaseExecutedOnce == LSpec => []ExecutedOnce
<1>1. LInv => ExecutedOnce BY DEF LInv
<1> QED BY <1>1, LeaseInvariant, PTL

\* FinishSystemTask and MarkSystemTaskLeaseExpired: the outcome of a task is
\* final, for late cleanups and for runners that lost their lease as well.
THEOREM LeaseEndedIsFinal == LSpec => EndedIsFinal
<1>1. ASSUME LInv, [LNext]_lvars, NEW t \in Ids, task[t].st \in Ended
      PROVE  task'[t] = task[t]
  <2>t. LTypeOK /\ HasRow BY <1>1 DEF LInv
  <2>e. task[t].st \notin {"none", "pending", "running"} BY <1>1 DEF Ended
  <2>1. CASE UNCHANGED task BY <2>1
  <2>2. ASSUME NEW u \in Ids, CreateSystemTask(u) PROVE task'[t] = task[t]
    BY <2>2, <2>t, <2>e DEF CreateSystemTask, LTypeOK
  <2>3. ASSUME NEW x, task' = Expired(x) PROVE task'[t] = task[t]
    BY <2>3, <2>t, <2>e, ExpiredRow
  <2>4. ASSUME NEW r \in Runners, StartTask(r) PROVE task'[t] = task[t]
    BY <2>4, <2>t, <2>e DEF StartTask, LTypeOK
  <2>5. ASSUME NEW r \in Runners, LoopError(r) PROVE task'[t] = task[t]
    BY <2>5, <2>t, <2>e DEF LoopError, LTypeOK
  <2>6. ASSUME NEW h \in handlers, NEW st \in Ended, Finish(h, st) PROVE task'[t] = task[t]
    BY <2>6, <2>t, <2>e DEF Finish, LTypeOK
  <2>7. ASSUME NEW r \in Runners, Cleanup(r) \/ ClaimPass(r) \/ Crash(r)
        PROVE  task'[t] = task[t]
    BY <2>1, <2>3, <2>4, <2>7 DEF Cleanup, FindStale, MarkStale, DropStale, ClaimPass,
       FindPending, AcquireLock, ClaimRefused, FailOld, Dispatch, Crash
  <2>8. ASSUME NEW h \in handlers, Handler(h) \/ HandlerDies(h) PROVE task'[t] = task[t]
    BY <2>1, <2>6, <2>8 DEF Handler, Renew, RenewLost, HandlerLost, FinishReleases, HandlerDies
  <2>9. Lapse => task'[t] = task[t] BY DEF Lapse
  <2> QED BY <1>1, <2>1, <2>2, <2>5, <2>7, <2>8, <2>9 DEF LNext, lvars
<1>2. LInv /\ [LNext]_lvars =>
        [\A t \in Ids : task[t].st \in Ended => task'[t] = task[t]]_lvars
  BY <1>1
<1> QED BY <1>2, LeaseInvariant, PTL DEF LSpec, EndedIsFinal
=============================================================================
