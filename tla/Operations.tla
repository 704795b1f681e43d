------------------------------- MODULE Operations -------------------------------
(***************************************************************************)
(* What people do about alerts: acknowledge and resolve them, give         *)
(* feedback on them, open and move work orders.  Every request is several  *)
(* statements of a session of its own: the user's row, what the request    *)
(* checks, and the INSERT or the UPDATE, which writes the columns that     *)
(* have changed from what was read.  Times are there or not.               *)
(***************************************************************************)
EXTENDS Integers, FiniteSets, Sequences, SequencesExt

CONSTANTS
    Users,
    Requests,    \* the requests that may be under way at a time
    Alerts,      \* the alerts there are; 0 stands for none
    MaxRequests, \* bound: the requests
    MaxChanges   \* bound: the changes of a user's row

ASSUME OpsAssumption == 0 \notin Alerts

VARIABLES
    users,     \* a user's row: role, is_active
    alerts,    \* status, acknowledged_at, resolved_at
    feedback,  \* rows: the alert, and how many rows there were when it was checked
    orders,    \* maintenance_events: status, its times, whether it was moved
    requests,  \* where a request is, what it asks for, what it has read
    asked, changes

opsVars == <<users, alerts, feedback, orders, requests, asked, changes>>

Unused == [at |-> "none"]
Statuses == {"SCHEDULED", "IN_PROGRESS", "COMPLETED", "CANCELLED"}

-----------------------------------------------------------------------------
(* roles.py and deps.py *)

Roles == {"ADMIN", "MAINTENANCE_ENGINEER", "OPERATOR"}
PRIVILEGED_MAINTENANCE_ROLES == {"ADMIN", "MAINTENANCE_ENGINEER"}

\* Feedback is any user's; the rest needs a role.
Allowed(user, kind) ==
    /\ users[user].is_active
    /\ kind = "feedback" \/ users[user].role \in PRIVILEGED_MAINTENANCE_ROLES

\* What may be asked for: its kind, its target and what it is to become. Feedback names an
\* alert, or none: a prediction, which the row does not keep.
Asks ==
    [kind : {"alert"}, id : Alerts, to : {"ACKNOWLEDGED", "RESOLVED"}]
    \cup [kind : {"feedback"}, id : Alerts \cup {0}]
    \cup [kind : {"create"}, id : {0}, to : Statuses]
    \cup [kind : {"update"}, id : DOMAIN orders, to : Statuses]

Asked(r, user, ask) ==
    /\ requests[r].at = "none" /\ asked < MaxRequests
    /\ asked' = asked + 1
    /\ requests' = [requests EXCEPT ![r] = IF Allowed(user, ask.kind)
                                             THEN [at |-> "check", ask |-> ask] ELSE @]
    /\ UNCHANGED <<users, alerts, feedback, orders, changes>>

\* The role or the account is changed; requests under way are not affected.
Change(user) ==
    /\ changes < MaxChanges /\ changes' = changes + 1
    /\ \E role \in Roles, active \in BOOLEAN :
         users' = [users EXCEPT ![user] = [role |-> role, is_active |-> active]]
    /\ UNCHANGED <<alerts, feedback, orders, requests, asked>>

-----------------------------------------------------------------------------
(* acknowledge_alert *)

Ask(r) == requests[r].ask
Does(r, kind, at) == requests[r].at = at /\ Ask(r).kind = kind
Read(r, row) ==
    requests' = [requests EXCEPT ![r] = [at |-> "write", ask |-> @.ask, row |-> row]]
Done(r) == requests' = [requests EXCEPT ![r] = Unused]

\* Mutant: the UPDATE writes every column as the request has it.
WrittenWhole(row, seen, changed) == changed

\* A row after the request's changes to what it has read: of those it writes what differs.
Written(row, seen, changed) ==
    [c \in DOMAIN row |-> IF changed[c] # seen[c] THEN changed[c] ELSE row[c]]

\* Mutant: a RESOLVED alert may be acknowledged.
OpenForAny(alert) == TRUE

OpenFor(alert) == alert.status # "RESOLVED"

ReadAlert(r) ==
    /\ Does(r, "alert", "check")
    /\ LET alert == alerts[Ask(r).id] IN IF OpenFor(alert) THEN Read(r, alert) ELSE Done(r)
    /\ UNCHANGED <<users, alerts, feedback, orders, asked, changes>>

acknowledge_alert(alert, to) ==
    [status |-> to, acknowledged_at |-> TRUE, resolved_at |-> alert.resolved_at \/ to = "RESOLVED"]

WriteAlert(r) ==
    /\ Does(r, "alert", "write")
    /\ LET seen == requests[r].row
       IN  alerts' = [alerts EXCEPT ![Ask(r).id] =
                        Written(@, seen, acknowledge_alert(seen, Ask(r).to))]
    /\ Done(r)
    /\ UNCHANGED <<users, feedback, orders, asked, changes>>

-----------------------------------------------------------------------------
(* create_feedback *)

\* Mutant: the check for feedback on the alert is missing.
AlreadyNever(alert) == {}

\* Only an alert is looked for: of a prediction there may be any number of rows.
Already(alert) == {i \in DOMAIN feedback : alert # 0 /\ feedback[i].alert = alert}

\* One row is a conflict; more are an error, whoever asks. Else the request goes on.
ReadFeedback(r) ==
    /\ Does(r, "feedback", "check")
    /\ IF Already(Ask(r).id) = {} THEN Read(r, [rows |-> Len(feedback)]) ELSE Done(r)
    /\ UNCHANGED <<users, alerts, feedback, orders, asked, changes>>

WriteFeedback(r) ==
    /\ Does(r, "feedback", "write")
    /\ feedback' = Append(feedback, [alert |-> Ask(r).id, seen |-> requests[r].row.rows])
    /\ Done(r)
    /\ UNCHANGED <<users, alerts, orders, asked, changes>>

-----------------------------------------------------------------------------
(* Work orders *)

\* create_maintenance_event: in the status asked for, without times.
CreateOrder(r) ==
    /\ Does(r, "create", "check")
    /\ orders' = Append(orders, [status |-> Ask(r).to, moved |-> FALSE,
                                 started_at |-> FALSE, completed_at |-> FALSE])
    /\ Done(r)
    /\ UNCHANGED <<users, alerts, feedback, asked, changes>>

ReadOrder(r) ==
    /\ Does(r, "update", "check")
    /\ Read(r, orders[Ask(r).id])
    /\ UNCHANGED <<users, alerts, feedback, orders, asked, changes>>

\* update_maintenance_event: any status may follow any; a time that is there stays.
update_maintenance_event(order, to) ==
    [order EXCEPT !.status = to, !.moved = order.moved \/ to # order.status,
                  !.started_at = @ \/ to = "IN_PROGRESS",
                  !.completed_at = @ \/ to = "COMPLETED"]

UpdateOrder(r) ==
    /\ Does(r, "update", "write")
    /\ LET seen == requests[r].row
       IN  orders' = [orders EXCEPT ![Ask(r).id] =
                        Written(@, seen, update_maintenance_event(seen, Ask(r).to))]
    /\ Done(r)
    /\ UNCHANGED <<users, alerts, feedback, asked, changes>>

-----------------------------------------------------------------------------
OpsInit ==
    /\ users = [u \in Users |-> [role |-> "ADMIN", is_active |-> TRUE]]
    /\ alerts = [a \in Alerts |-> [status |-> "OPEN", acknowledged_at |-> FALSE,
                                   resolved_at |-> FALSE]]
    /\ feedback = <<>> /\ orders = <<>>
    /\ requests = [r \in Requests |-> Unused] /\ asked = 0 /\ changes = 0

Handles(r) ==
    \/ \E user \in Users, ask \in Asks : Asked(r, user, ask)
    \/ ReadAlert(r) \/ WriteAlert(r) \/ ReadFeedback(r) \/ WriteFeedback(r)
    \/ CreateOrder(r) \/ ReadOrder(r) \/ UpdateOrder(r)

OpsNext == (\E r \in Requests : Handles(r)) \/ (\E u \in Users : Change(u))

OpsSpec == OpsInit /\ [][OpsNext]_opsVars

-----------------------------------------------------------------------------
(* Properties *)

\* However requests overtake one another: an alert that is RESOLVED stays so, but for a
\* request that writes it and had read it before it was; one that is RESOLVED or ACKNOWLEDGED
\* has its times, and so has an order that was moved to where it is; and no time that an
\* alert or an order has, acknowledged, resolved, started or completed, is taken back.
Overwrites(r, a) ==
    /\ Does(r, "alert", "write") /\ Ask(r).id = a /\ requests[r].row.status # "RESOLVED"
    /\ requests'[r] = Unused

LifecycleKept ==
    [][/\ \A a \in Alerts :
            /\ alerts[a].status = "RESOLVED" => \/ alerts'[a].status = "RESOLVED"
                                                \/ \E r \in Requests : Overwrites(r, a)
            /\ alerts'[a].status # "OPEN" => alerts'[a].acknowledged_at
            /\ alerts'[a].status = "RESOLVED" => alerts'[a].resolved_at
            /\ alerts[a].acknowledged_at => alerts'[a].acknowledged_at
            /\ alerts[a].resolved_at => alerts'[a].resolved_at
       /\ \A o \in DOMAIN orders' : orders'[o].moved =>
            /\ orders'[o].status = "IN_PROGRESS" => orders'[o].started_at
            /\ orders'[o].status = "COMPLETED" => orders'[o].completed_at
       /\ \A o \in DOMAIN orders :
            /\ orders[o].started_at => orders'[o].started_at
            /\ orders[o].completed_at => orders'[o].completed_at]_opsVars

\* Two rows of feedback on one alert are both there only if both requests had checked
\* before either wrote: create_feedback refuses, or fails, whoever checks later.
FeedbackOnce ==
    \A i, j \in DOMAIN feedback :
      i < j /\ feedback[j].alert # 0 /\ feedback[i].alert = feedback[j].alert
        => feedback[j].seen < i
=============================================================================
