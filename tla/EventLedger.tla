---------------------------- MODULE EventLedger ----------------------------
(***************************************************************************)
(* What the store promises its clients about events, without tables,       *)
(* leases or fencing: each scope has at most one holder, taking a scope    *)
(* over is always possible for an open event, and the outcome of an event  *)
(* is written once, by the run that holds the scope at that moment and for *)
(* the event that run was started for.                                     *)
(***************************************************************************)
CONSTANTS Scopes, Keys, Runs, NoRun, NoEvent

Outcomes == {"no_action", "awaiting_approval"}

VARIABLES
  holder,   \* the run that may decide an outcome in each scope
  task,     \* the event each run was started for
  outcome   \* what was decided for each event, "open" until then

vars == <<holder, task, outcome>>

Init ==
  /\ holder  = [s \in Scopes |-> NoRun]
  /\ task    = [r \in Runs |-> NoEvent]
  /\ outcome = [e \in Scopes \X Keys |-> "open"]

\* A fresh run takes the scope, from nobody or from a holder it displaces.
Acquire(r, e) ==
  /\ task[r] = NoEvent
  /\ outcome[e] = "open"
  /\ holder' = [holder EXCEPT ![e[1]] = r]
  /\ task'   = [task EXCEPT ![r] = e]
  /\ UNCHANGED outcome

\* The holder gives up; its event stays open.
Abandon(r, e) ==
  /\ task[r] = e
  /\ holder[e[1]] = r
  /\ holder' = [holder EXCEPT ![e[1]] = NoRun]
  /\ UNCHANGED <<task, outcome>>

\* The holder decides its own event, once, and gives the scope back.
Settle(r, e, o) ==
  /\ task[r] = e
  /\ holder[e[1]] = r
  /\ outcome[e] = "open"
  /\ outcome' = [outcome EXCEPT ![e] = o]
  /\ holder'  = [holder EXCEPT ![e[1]] = NoRun]
  /\ UNCHANGED task

Next ==
  \E r \in Runs, e \in Scopes \X Keys :
    \/ Acquire(r, e)
    \/ Abandon(r, e)
    \/ \E o \in Outcomes : Settle(r, e, o)

Spec == Init /\ [][Next]_vars
=============================================================================
