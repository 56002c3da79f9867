------------------------------ MODULE Watches ------------------------------
(***************************************************************************)
(* screenshot_watch (internal/mcp/tools/screenshot.go), a tools/call that  *)
(* starts a job and returns; the job store with its timeout                 *)
(* (internal/jobs); and the two registries through which a watch can be     *)
(* cancelled: the session's, by the request ID of the call                  *)
(* (internal/session), and WatchCancels, by the timed-out job.              *)
(*                                                                         *)
(* All calls are retries of one request: they have the same request ID,     *)
(* and so one idempotency key and one entry in Session.cancelFuncs.         *)
(* Bridge.Dispatch is taken from its own model (AgentHub, Relay): it        *)
(* returns an outcome, and context.Canceled once its context is done.       *)
(***************************************************************************)
EXTENDS Subscriptions

CONSTANTS
  Calls,  \* tools/call requests for screenshot_watch
  Jobs,   \* job IDs
  None    \* no job, no entry

ASSUME WatchAssumption == None \notin Calls \cup Jobs /\ Calls \cap Jobs = {}

VARIABLES
  call,       \* where handleToolsCall and handleWatch of a call are
  mine,       \* the job a call created
  cancelFunc, \* Session.cancelFuncs of the request: a call, a detached watch
  latest,     \* byIdemKey: the last job created for the key
  job,        \* Job.Status
  timer,      \* the job's timer and its onTimeout
  watch,      \* where runWatch of a job is
  outcome,    \* the terminal status runWatch will store
  registered, \* WatchCancels: jobs whose CancelFunc it has
  stopped     \* watches whose CancelFunc was called

watchVars == <<call, mine, cancelFunc, latest, job, timer, watch, outcome,
               registered, stopped>>

Terminal == {"succeeded", "failed", "cancelled"}
WatchEnded == {"final", "done"}  \* runWatch after its last UpdateStatus
CtxDone(j) == j \in stopped \/ life = "ended"

WatchInit ==
  /\ call = [c \in Calls |-> "idle"] /\ mine = [c \in Calls |-> None]
  /\ cancelFunc = None /\ latest = None
  /\ job = [j \in Jobs |-> "none"]
  /\ timer = [j \in Jobs |-> "none"]
  /\ watch = [j \in Jobs |-> "none"]
  /\ outcome = [j \in Jobs |-> "none"]
  /\ registered = {} /\ stopped = {}

----------------------------------------------------------------------------
\* The call

\* Calls arrive in a fixed order.
NextCall == CHOOSE c \in Calls : call[c] = "idle"

\* tools/call: the session is found and touched, RegisterCancel replaces
\* what the request ID had.
CallWatch(c) ==
  /\ call[c] = "idle" /\ c = NextCall /\ Touch /\ Spend("watch")
  /\ call' = [call EXCEPT ![c] = "find"]
  /\ cancelFunc' = c
  /\ UNCHANGED <<mine, latest, job, timer, watch, outcome, registered, stopped,
                 queue, replayVars, subVars>>

\* handleWatch: a job of the key that has not failed is the answer; so is an
\* error when the device is offline.
FindJob(c) ==
  /\ call[c] = "find"
  /\ \/ call' = [call EXCEPT ![c] = "return"]
     \/ /\ latest # None => job[latest] = "failed"
        /\ call' = [call EXCEPT ![c] = "create"]
  /\ UNCHANGED <<mine, cancelFunc, latest, job, timer, watch, outcome,
                 registered, stopped, streamVars, subVars>>

\* A new job, under a new random ID, with its timer armed.
Insert(c) ==
  LET j == CHOOSE j \in Jobs : job[j] = "none"
  IN /\ \E i \in Jobs : job[i] = "none"
     /\ job' = [job EXCEPT ![j] = "pending"]
     /\ timer' = [timer EXCEPT ![j] = "armed"]
     /\ latest' = j
     /\ mine' = [mine EXCEPT ![c] = j]
     /\ call' = [call EXCEPT ![c] = "audit"]

\* With an error: Create trusts the earlier look-up.
CreateJobUnchecked(c) ==
  /\ call[c] = "create"
  /\ Insert(c)
  /\ UNCHANGED <<cancelFunc, watch, outcome, registered, stopped, streamVars, subVars>>

\* JobStore.Create looks again, under the lock, and arms the timer.
CreateJob(c) ==
  /\ call[c] = "create"
  /\ \/ /\ latest # None /\ job[latest] # "failed"
        /\ call' = [call EXCEPT ![c] = "return"]
        /\ UNCHANGED <<job, timer, latest, mine>>
     \/ /\ latest # None => job[latest] = "failed"
        /\ Insert(c)
  /\ UNCHANGED <<cancelFunc, watch, outcome, registered, stopped, streamVars, subVars>>

\* The audit entry "started" (its OnWrite may wait for full EventChs, so the
\* timer can fire here), then DetachCancel, WatchCancels.add and go runWatch.
StartWatch(c) ==
  /\ call[c] = "audit"
  /\ cancelFunc' = mine[c]
  /\ registered' = registered \cup {mine[c]}
  /\ watch' = [watch EXCEPT ![mine[c]] = "start"]
  /\ call' = [call EXCEPT ![c] = "return"]
  /\ mine' = [mine EXCEPT ![c] = None]
  /\ UNCHANGED <<latest, job, timer, outcome, stopped, streamVars, subVars>>

\* UnregisterCancel: any entry that is not detached goes.
ReturnCall(c) ==
  /\ call[c] = "return"
  /\ call' = [call EXCEPT ![c] = "done"]
  /\ cancelFunc' = IF cancelFunc \in Calls THEN None ELSE cancelFunc
  /\ UNCHANGED <<mine, latest, job, timer, watch, outcome, registered, stopped,
                 streamVars, subVars>>

\* notifications/cancelled for the request.  handleWatch does not look at the
\* context of its call.
HandleCancelled ==
  /\ Touch /\ Spend("cancel")
  /\ stopped' = stopped \cup ({cancelFunc} \cap Jobs)
  /\ UNCHANGED <<call, mine, cancelFunc, latest, job, timer, watch, outcome,
                 registered, queue, replayVars, subVars>>

----------------------------------------------------------------------------
\* The watch

\* NotifyJobUpdated: the session must still be in the store.
NotifyJob(j) == IF life = "live" THEN NotifyUpdated(j) ELSE UNCHANGED queue

\* emitProgress: only for a call that came with a progress token.
EmitProgress == IF budget["token"] > 0 THEN Emit ELSE UNCHANGED queue

\* UpdateStatus(Running), whatever the status is by now, and its OnUpdate.
WatchRuns(j) ==
  /\ watch[j] = "start"
  /\ job' = [job EXCEPT ![j] = "running"]
  /\ watch' = [watch EXCEPT ![j] = "dispatch"]
  /\ NotifyJob(j)
  /\ UNCHANGED <<call, mine, cancelFunc, latest, timer, outcome, registered, stopped,
                 storeVars, replayVars, budget, subVars>>

\* A frame of the dispatch becomes a progress event; Dispatch waits for it.
Frame(j) ==
  /\ watch[j] = "dispatch" /\ Spend("event")
  /\ watch' = [watch EXCEPT ![j] = "frame"]
  /\ UNCHANGED <<call, mine, cancelFunc, latest, job, timer, outcome, registered,
                 stopped, storeVars, queue, replayVars, subVars>>

EmitFrame(j) ==
  /\ watch[j] = "frame"
  /\ EmitProgress
  /\ watch' = [watch EXCEPT ![j] = "dispatch"]
  /\ UNCHANGED <<call, mine, cancelFunc, latest, job, timer, outcome, registered,
                 stopped, storeVars, replayVars, budget, subVars>>

\* Dispatch returns with outcome o.
Returns(j, o) ==
  /\ watch[j] = "dispatch"
  /\ outcome' = [outcome EXCEPT ![j] = o]
  /\ watch' = [watch EXCEPT ![j] = "settle"]
  /\ UNCHANGED <<call, mine, cancelFunc, latest, job, timer, registered, stopped,
                 streamVars, subVars>>

\* The agent answers (the watch ran its time, was cancelled, or failed), or
\* the device goes away.  Neither has to happen.
DispatchReturns(j) == \E o \in Terminal : Returns(j, o)

\* The watch's context is done: context.Canceled.
DispatchCancelled(j) == CtxDone(j) /\ Returns(j, "cancelled")

\* With an error: a failed dispatch leaves the job to its timer.
WatchSettlesSuccess(j) ==
  /\ watch[j] = "settle"
  /\ job' = IF outcome[j] = "failed" THEN job ELSE [job EXCEPT ![j] = outcome[j]]
  /\ timer' = timer
  /\ watch' = [watch EXCEPT ![j] = "final"]
  /\ outcome' = [outcome EXCEPT ![j] = "none"]
  /\ NotifyJob(j)
  /\ UNCHANGED <<call, mine, cancelFunc, latest, registered, stopped,
                 storeVars, replayVars, budget, subVars>>

\* UpdateStatus(terminal) stops the timer, unless onTimeout already waits for
\* the lock, and overwrites the status, also the timeout's.
WatchSettles(j) ==
  /\ watch[j] = "settle"
  /\ job' = [job EXCEPT ![j] = outcome[j]]
  /\ IF timer[j] = "armed"
     THEN \E t \in {"none", "late"} : timer' = [timer EXCEPT ![j] = t]
     ELSE UNCHANGED timer
  /\ watch' = [watch EXCEPT ![j] = "final"]
  /\ outcome' = [outcome EXCEPT ![j] = "none"]
  /\ NotifyJob(j)
  /\ UNCHANGED <<call, mine, cancelFunc, latest, registered, stopped,
                 storeVars, replayVars, budget, subVars>>

\* With an error: the detached entry is left behind.
WatchEndsRegistered(j) ==
  /\ watch[j] = "final"
  /\ watch' = [watch EXCEPT ![j] = "done"]
  /\ EmitProgress
  /\ stopped' = stopped \ {j}
  /\ registered' = registered \ {j}
  /\ UNCHANGED <<call, mine, cancelFunc, latest, job, timer, outcome,
                 storeVars, replayVars, budget, subVars>>

\* The terminal progress event, and the deferred clean-up: the context is
\* done with, RemoveDetachedCancel removes what the request ID has, and
\* WatchCancels forgets the job.
WatchEnds(j) ==
  /\ watch[j] = "final"
  /\ watch' = [watch EXCEPT ![j] = "done"]
  /\ EmitProgress
  /\ stopped' = stopped \ {j}
  /\ cancelFunc' = None
  /\ registered' = registered \ {j}
  /\ UNCHANGED <<call, mine, latest, job, timer, outcome,
                 storeVars, replayVars, budget, subVars>>

----------------------------------------------------------------------------
\* The job's timeout

\* With an error: onTimeout does not look at the status.
TimerFiresAnyway(j) ==
  /\ timer[j] \in {"armed", "late"}
  /\ job' = [job EXCEPT ![j] = "failed"]
  /\ timer' = [timer EXCEPT ![j] = "fired"]
  /\ UNCHANGED <<call, mine, cancelFunc, latest, watch, outcome, registered, stopped,
                 streamVars, subVars>>

\* onTimeout under the lock: a terminal job is left alone.
TimerFires(j) ==
  /\ timer[j] \in {"armed", "late"}
  /\ \/ /\ job[j] \in Terminal
        /\ timer' = [timer EXCEPT ![j] = "none"]
        /\ UNCHANGED job
     \/ /\ job[j] \notin Terminal
        /\ job' = [job EXCEPT ![j] = "failed"]
        /\ timer' = [timer EXCEPT ![j] = "fired"]
  /\ UNCHANGED <<call, mine, cancelFunc, latest, watch, outcome, registered, stopped,
                 streamVars, subVars>>

\* ... then, unlocked, WatchCancels.Cancel if the watch is registered yet ...
TimerCancels(j) ==
  /\ timer[j] = "fired"
  /\ timer' = [timer EXCEPT ![j] = "notify"]
  /\ stopped' = stopped \cup ({j} \cap registered)
  /\ UNCHANGED <<call, mine, cancelFunc, latest, job, watch, outcome, registered,
                 streamVars, subVars>>

\* ... and OnUpdate.
TimerNotifies(j) ==
  /\ timer[j] = "notify"
  /\ timer' = [timer EXCEPT ![j] = "none"]
  /\ NotifyJob(j)
  /\ UNCHANGED <<call, mine, cancelFunc, latest, job, watch, outcome, registered,
                 stopped, storeVars, replayVars, budget, subVars>>

----------------------------------------------------------------------------
WatchNext ==
  \/ \E c \in Calls :
       CallWatch(c) \/ FindJob(c) \/ CreateJob(c) \/ StartWatch(c) \/ ReturnCall(c)
  \/ HandleCancelled
  \/ \E j \in Jobs :
       \/ WatchRuns(j) \/ Frame(j) \/ EmitFrame(j)
       \/ DispatchReturns(j) \/ DispatchCancelled(j)
       \/ WatchSettles(j) \/ WatchEnds(j)
       \/ TimerFires(j) \/ TimerCancels(j) \/ TimerNotifies(j)

\* The handlers, the detached goroutines and the timers run on.  The agent
\* may never answer.
WatchFairness ==
  LET v == <<streamVars, subVars, watchVars>>
  IN /\ \A c \in Calls : /\ WF_v(FindJob(c)) /\ WF_v(CreateJob(c))
                         /\ WF_v(StartWatch(c)) /\ WF_v(ReturnCall(c))
     /\ \A j \in Jobs :
          /\ WF_v(WatchRuns(j)) /\ WF_v(EmitFrame(j)) /\ WF_v(DispatchCancelled(j))
          /\ WF_v(WatchSettles(j)) /\ WF_v(WatchEnds(j))
          /\ WF_v(TimerFires(j)) /\ WF_v(TimerCancels(j)) /\ WF_v(TimerNotifies(j))

WatchTypeOK ==
  /\ call \in [Calls -> {"idle", "find", "create", "audit", "return", "done"}]
  /\ mine \in [Calls -> Jobs \cup {None}]
  /\ cancelFunc \in Calls \cup Jobs \cup {None}
  /\ latest \in Jobs \cup {None}
  /\ job \in [Jobs -> {"none", "pending", "running"} \cup Terminal]
  /\ timer \in [Jobs -> {"none", "armed", "late", "fired", "notify"}]
  /\ watch \in [Jobs -> {"none", "start", "dispatch", "frame", "settle", "final", "done"}]
  /\ outcome \in [Jobs -> Terminal \cup {"none"}]
  /\ registered \subseteq Jobs /\ stopped \subseteq Jobs

\* However calls and retries interleave, and whatever times out, at most one
\* watch of a request is within its time limit: a retry never starts a
\* second watch beside one that is still entitled to run
\* (FindByIdempotencyKey and Create, screenshot.go; onTimeout).
OneWatchInTime ==
  \A i, j \in Jobs : timer[i] = "armed" /\ timer[j] = "armed" => i = j

\* Both cancel registries only hold what can still be cancelled: the request's
\* entry belongs to a call or a watch that has not returned, WatchCancels'
\* entries to watches that have not, although calls of one request overwrite
\* and remove each other's entries (RegisterCancel, DetachCancel,
\* UnregisterCancel, RemoveDetachedCancel, WatchCancels).
NoLeakedCancel ==
  /\ cancelFunc \in Calls => call[cancelFunc] # "done"
  /\ cancelFunc \in Jobs => watch[cancelFunc] # "done"
  /\ \A j \in registered : watch[j] # "done"

\* Once runWatch has stored how its watch ended, no late timeout and no other
\* call changes the job's status (UpdateStatus, onTimeout).
SettledStays ==
  [][\A j \in Jobs : watch[j] \in WatchEnded => job'[j] = job[j]]_<<job, watch>>

\* A job that can be cancelled when its timer is still armed reaches a terminal
\* status for good, even if the agent never answers: the timeout, or the
\* session's end, stops the dispatch (onTimeout, WatchCancels, runWatch).
JobsSettle ==
  \A j \in Jobs :
    j \in registered /\ timer[j] = "armed" ~> [](job[j] \in Terminal)
============================================================================
