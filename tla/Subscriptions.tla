--------------------------- MODULE Subscriptions ---------------------------
(***************************************************************************)
(* Resource subscriptions of the session (internal/mcp/resources): the     *)
(* URIs it subscribed to, the notifications they let through to EventCh,    *)
(* and the goroutines that refresh a subscribed sysinfo overview.           *)
(*                                                                         *)
(* The registry's refreshers map has the one key of this session and one    *)
(* sysinfo URI; each refresher goroutine is a member of Refreshers.         *)
(***************************************************************************)
EXTENDS EventStream

CONSTANTS
  Refreshers,  \* refresher goroutines, in the order they are started
  NoRefresher, \* no entry in Registry.refreshers
  URIs         \* what the client subscribes to: Sysinfo, Clients, job IDs

Sysinfo == "sysinfo"
Clients == "clients"

ASSUME NoRefresherAssumption == NoRefresher \notin Refreshers

VARIABLES
  subs,       \* Session.subscriptions
  pending,    \* requests between the session's map and the registry's
  entry,      \* Registry.refreshers: the goroutine whose CancelFunc it holds
  refresher,  \* where each goroutine is
  halted,     \* goroutines whose CancelFunc was called
  broadcast   \* NotifyDeviceChange has its second broadcast to make

subVars == <<subs, pending, entry, refresher, halted, broadcast>>

SubInit ==
  /\ subs = {} /\ pending = {} /\ entry = NoRefresher
  /\ refresher = [g \in Refreshers |-> "none"]
  /\ halted = {} /\ broadcast = FALSE

----------------------------------------------------------------------------
\* resources/subscribe and resources/unsubscribe

\* SubscribeResource marks the session ...
Subscribe(u) ==
  /\ Touch /\ Spend("subscribe")
  /\ subs' = subs \cup {u}
  /\ pending' = IF u = Sysinfo THEN pending \cup {"start"} ELSE pending
  /\ UNCHANGED <<entry, refresher, halted, broadcast, queue, replayVars>>

\* ... and starts a refresher unless the map has one for the URI.
StartRefresher ==
  /\ "start" \in pending
  /\ pending' = pending \ {"start"}
  /\ \/ entry # NoRefresher /\ UNCHANGED <<entry, refresher>>
     \/ /\ entry = NoRefresher
        /\ \E g \in Refreshers : refresher[g] = "none"
        /\ LET g == CHOOSE g \in Refreshers : refresher[g] = "none"
           IN entry' = g /\ refresher' = [refresher EXCEPT ![g] = "running"]
  /\ UNCHANGED <<subs, halted, broadcast, streamVars>>

\* UnsubscribeResource: off the session's map ...
Unsubscribe(u) ==
  /\ Touch /\ Spend("subscribe")
  /\ u \in subs
  /\ subs' = subs \ {u}
  /\ pending' = IF u = Sysinfo THEN pending \cup {"stop"} ELSE pending
  /\ UNCHANGED <<entry, refresher, halted, broadcast, queue, replayVars>>

\* stopSysinfoRefresher: whatever goroutine the map names is cancelled.
StopEntry ==
  /\ entry' = NoRefresher
  /\ halted' = IF entry = NoRefresher THEN halted ELSE halted \cup {entry}

\* ... and the refresher is stopped.
StopRefresher ==
  /\ "stop" \in pending
  /\ pending' = pending \ {"stop"}
  /\ StopEntry
  /\ UNCHANGED <<subs, refresher, broadcast, streamVars>>

----------------------------------------------------------------------------
\* Notifications and the refreshers

\* NotifySessionUpdated.
NotifyUpdated(u) == IF u \in subs THEN Emit ELSE UNCHANGED queue

\* A tick of a refresher finds the session still subscribed and the device
\* online.  (A tick that finds the device offline changes nothing.)
Tick(g) ==
  /\ refresher[g] = "running" /\ Sysinfo \in subs
  /\ Spend("event")
  /\ NotifyUpdated(Sysinfo)
  /\ UNCHANGED <<subVars, storeVars, replayVars>>

\* The goroutine returns: its context is done, or a tick finds the session
\* no longer subscribed.
RefresherReturns(g) ==
  /\ refresher[g] = "running"
  /\ g \in halted \/ life = "ended" \/ Sysinfo \notin subs
  /\ refresher' = [refresher EXCEPT ![g] = "returning"]
  /\ UNCHANGED <<subs, pending, entry, halted, broadcast, streamVars>>

\* With an error: the goroutine leaves its entry behind.
RefresherLeaves(g) ==
  /\ refresher[g] = "returning"
  /\ refresher' = [refresher EXCEPT ![g] = "done"]
  /\ UNCHANGED <<subs, pending, entry, halted, broadcast, streamVars>>

\* Its deferred stopSysinfoRefresher, by key: the entry may be its own, gone,
\* or a newer refresher's, which it cancels.
RefresherStops(g) ==
  /\ refresher[g] = "returning"
  /\ refresher' = [refresher EXCEPT ![g] = "done"]
  /\ StopEntry
  /\ UNCHANGED <<subs, pending, broadcast, streamVars>>

\* NotifyDeviceChange when an agent comes or goes: clients://list was updated,
\* for those who subscribed ...
BroadcastUpdated ==
  /\ life = "live" /\ ~broadcast /\ Spend("event")
  /\ NotifyUpdated(Clients)
  /\ broadcast' = TRUE
  /\ UNCHANGED <<subs, pending, entry, refresher, halted, storeVars, replayVars>>

\* ... and the tool list may have changed, for every session Range still finds.
BroadcastListChanged ==
  /\ broadcast /\ broadcast' = FALSE
  /\ IF life = "live" THEN Emit ELSE UNCHANGED queue
  /\ UNCHANGED <<subs, pending, entry, refresher, halted, storeVars, replayVars, budget>>

----------------------------------------------------------------------------
SubNext ==
  \/ \E u \in URIs : Subscribe(u) \/ Unsubscribe(u)
  \/ StartRefresher \/ StopRefresher
  \/ \E g \in Refreshers : Tick(g) \/ RefresherReturns(g) \/ RefresherStops(g)
  \/ BroadcastUpdated \/ BroadcastListChanged

\* Requests under way, callbacks and the refreshers' tickers run on.
SubFairness ==
  LET v == <<streamVars, subVars>>
  IN /\ WF_v(StartRefresher) /\ WF_v(StopRefresher) /\ WF_v(BroadcastListChanged)
     /\ \A g \in Refreshers : WF_v(RefresherReturns(g)) /\ WF_v(RefresherStops(g))

SubTypeOK ==
  /\ subs \subseteq URIs /\ pending \subseteq {"start", "stop"}
  /\ entry \in Refreshers \cup {NoRefresher}
  /\ refresher \in [Refreshers -> {"none", "running", "returning", "done"}]
  /\ halted \subseteq Refreshers /\ broadcast \in BOOLEAN

\* The map never names a refresher that has returned: if it did, every later
\* subscription would find the entry, start nothing and never be refreshed
\* (startSysinfoRefresher and the goroutine's deferred stop).
NoDeadRefresher ==
  entry # NoRefresher => refresher[entry] \in {"running", "returning"}
============================================================================
