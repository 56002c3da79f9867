------------------------------ MODULE Sessions ------------------------------
(***************************************************************************)
(* A session with everything that lives on it: its streams (EventStream),  *)
(* its subscriptions and their refreshers (Subscriptions), and its detached *)
(* watches (Watches).  They meet in EventCh, which all of them fill, and in *)
(* the session's context, which ends all of them.                           *)
(***************************************************************************)
EXTENDS Watches

vars == <<streamVars, subVars, watchVars>>

Init == StreamInit /\ SubInit /\ WatchInit

Next ==
  \/ StreamNext /\ UNCHANGED <<subVars, watchVars>>
  \/ SubNext /\ UNCHANGED watchVars
  \/ WatchNext

Spec == Init /\ [][Next]_vars /\ StreamFairness /\ SubFairness /\ WatchFairness

TypeOK == StreamTypeOK /\ SubTypeOK /\ WatchTypeOK

\* Nothing of the session is left: no stream, no refresher, no watch, no cancel
\* function, no record in Redis.
Drained ==
  /\ life # "live" /\ ~mirror
  /\ \A s \in Streams : stream[s] = "closed"
  /\ entry = NoRefresher
  /\ \A g \in Refreshers : refresher[g] \in {"none", "done"}
  /\ \A j \in Jobs : watch[j] \in {"none", "done"}
  /\ cancelFunc = None /\ registered = {}

\* A session whose client is gone for good is swept, and one that was deleted
\* or swept is left by all that ran on it, calls that had found it just
\* before its end included: streams, refreshers and watches end and their
\* registrations go, even when the agent never answers and no stream takes
\* events any more (RunIdleExpiry, Delete, serveSSE, startSysinfoRefresher,
\* runWatch, Emit).
AbandonedSessionDrains == <>[](life # "live" \/ idle) => <>[]Drained
=============================================================================
