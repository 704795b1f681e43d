---------------------------- MODULE ConsoleProofs ----------------------------
(***************************************************************************)
(* For any alerts, users and number of requests under way: no time of an   *)
(* alert or an order is taken back, however requests overtake one another, *)
(* and feedback on one alert is given twice only by requests that had both *)
(* checked before either wrote.  For any number of sessions, sockets,      *)
(* breaks and restarts: a live page never goes back.                       *)
(***************************************************************************)
EXTENDS Operations, LiveView, SequenceTheorems, FiniteSetTheorems, WellFoundedInduction, TLAPS

USE OpsAssumption DEF OpsAssumption

AlertRow == [status : {"OPEN", "ACKNOWLEDGED", "RESOLVED"},
             acknowledged_at : BOOLEAN, resolved_at : BOOLEAN]
OrderRow == [status : Statuses, moved : BOOLEAN, started_at : BOOLEAN, completed_at : BOOLEAN]
FeedbackRow == [alert : Alerts \cup {0}, seen : Nat]

\* A row whose status was set by a request has the time of it.
AlertDated(a) ==
    /\ a.status # "OPEN" => a.acknowledged_at
    /\ a.status = "RESOLVED" => a.resolved_at

OrderDated(o) ==
    o.moved => /\ o.status = "IN_PROGRESS" => o.started_at
               /\ o.status = "COMPLETED" => o.completed_at

\* The row that was read, seen, has no time that the row itself has not.
AlertSince(seen, row) ==
    /\ seen \in AlertRow /\ seen.status # "RESOLVED" /\ AlertDated(seen)
    /\ seen.acknowledged_at => row.acknowledged_at
    /\ seen.resolved_at => row.resolved_at

OrderSince(seen, row) ==
    /\ seen \in OrderRow /\ OrderDated(seen)
    /\ seen.moved => row.moved
    /\ seen.started_at => row.started_at
    /\ seen.completed_at => row.completed_at

\* The feedback there was when the request checked named other alerts.
FeedbackSince(seen, alert) ==
    /\ seen.rows \in 0 .. Len(feedback)
    /\ \A i \in 1 .. seen.rows : alert # 0 => feedback[i].alert # alert

Rows ==
    /\ alerts \in [Alerts -> AlertRow] /\ \A a \in Alerts : AlertDated(alerts[a])
    /\ orders \in Seq(OrderRow) /\ \A o \in 1 .. Len(orders) : OrderDated(orders[o])
    /\ feedback \in Seq(FeedbackRow)

\* What a request asks for, and what it has read of its target.
Target(r) ==
    /\ Ask(r).kind = "alert" => Ask(r).id \in Alerts /\ Ask(r).to \in {"ACKNOWLEDGED", "RESOLVED"}
    /\ Ask(r).kind = "feedback" => Ask(r).id \in Alerts \cup {0}
    /\ Ask(r).kind \in {"create", "update"} => Ask(r).to \in Statuses
    /\ Ask(r).kind = "update" => Ask(r).id \in 1 .. Len(orders)

Seen(r) ==
    /\ Ask(r).kind = "alert" => AlertSince(requests[r].row, alerts[Ask(r).id])
    /\ Ask(r).kind = "update" => OrderSince(requests[r].row, orders[Ask(r).id])
    /\ Ask(r).kind = "feedback" => FeedbackSince(requests[r].row, Ask(r).id)

UnderWay ==
    /\ DOMAIN requests = Requests
    /\ \A r \in Requests :
         /\ requests[r].at \in {"none", "check", "write"}
         /\ requests[r].at # "none" => Target(r)
         /\ requests[r].at = "write" => Seen(r)

\* Every row of feedback was checked against all but the rows that followed the check.
FeedbackChecked ==
    \A j \in 1 .. Len(feedback) :
        /\ feedback[j].seen < j
        /\ \A i \in 1 .. feedback[j].seen :
             feedback[j].alert # 0 => feedback[i].alert # feedback[j].alert

IInv == Rows /\ UnderWay /\ FeedbackChecked

-----------------------------------------------------------------------------
LEMMA InitInv == OpsInit => IInv
<1> SUFFICES ASSUME OpsInit PROVE IInv
  OBVIOUS
<1>1. /\ orders \in Seq(OrderRow) /\ Len(orders) = 0
      /\ feedback \in Seq(FeedbackRow) /\ Len(feedback) = 0
  BY EmptySeq DEF OpsInit
<1>2. Rows /\ FeedbackChecked
  BY <1>1 DEF OpsInit, Rows, FeedbackChecked, AlertRow, AlertDated
<1>3. UnderWay
  BY DEF OpsInit, UnderWay, Unused
<1> QED BY <1>2, <1>3 DEF IInv

\* A request's UPDATE of an alert it saw open: dated, and no time is taken back.
LEMMA AlertWritten ==
    ASSUME NEW row \in AlertRow, AlertDated(row), NEW seen, AlertSince(seen, row),
           NEW to \in {"ACKNOWLEDGED", "RESOLVED"},
           NEW new, new = Written(row, seen, acknowledge_alert(seen, to))
    PROVE  /\ new \in AlertRow /\ AlertDated(new)
           /\ row.acknowledged_at => new.acknowledged_at
           /\ row.resolved_at => new.resolved_at
<1> DEFINE changed == acknowledge_alert(seen, to)
<1>1. /\ DOMAIN row = {"status", "acknowledged_at", "resolved_at"}
      /\ changed.status = to /\ changed.acknowledged_at = TRUE
      /\ changed.resolved_at = (seen.resolved_at \/ to = "RESOLVED")
  BY DEF AlertRow, acknowledge_alert
<1>2. /\ DOMAIN new = {"status", "acknowledged_at", "resolved_at"}
      /\ new = [c \in DOMAIN row |-> new[c]]
      /\ \A c \in DOMAIN row : new[c] = IF changed[c] # seen[c] THEN changed[c] ELSE row[c]
  BY <1>1 DEF Written
<1> HIDE DEF changed
<1>3. /\ new.status = IF to # seen.status THEN to ELSE row.status
      /\ new.acknowledged_at = (row.acknowledged_at \/ ~seen.acknowledged_at)
      /\ new.resolved_at = (row.resolved_at \/ (to = "RESOLVED" /\ ~seen.resolved_at))
  BY <1>1, <1>2 DEF AlertRow, AlertSince
<1> QED BY <1>1, <1>2, <1>3 DEF AlertRow, AlertSince, AlertDated

\* The same of an order, in whatever status it is by then.
LEMMA OrderWritten ==
    ASSUME NEW row \in OrderRow, OrderDated(row), NEW seen, OrderSince(seen, row),
           NEW to \in Statuses,
           NEW new, new = Written(row, seen, update_maintenance_event(seen, to))
    PROVE  /\ new \in OrderRow /\ OrderDated(new)
           /\ row.moved => new.moved
           /\ row.started_at => new.started_at
           /\ row.completed_at => new.completed_at
<1> DEFINE changed == update_maintenance_event(seen, to)
<1>1. /\ DOMAIN row = {"status", "moved", "started_at", "completed_at"}
      /\ changed.status = to
      /\ changed.moved = (seen.moved \/ to # seen.status)
      /\ changed.started_at = (seen.started_at \/ to = "IN_PROGRESS")
      /\ changed.completed_at = (seen.completed_at \/ to = "COMPLETED")
  BY DEF OrderRow, OrderSince, update_maintenance_event
<1>2. /\ DOMAIN new = {"status", "moved", "started_at", "completed_at"}
      /\ new = [c \in DOMAIN row |-> new[c]]
      /\ \A c \in DOMAIN row : new[c] = IF changed[c] # seen[c] THEN changed[c] ELSE row[c]
  BY <1>1 DEF Written
<1> HIDE DEF changed
<1>3. /\ new.status = IF to # seen.status THEN to ELSE row.status
      /\ new.moved = (row.moved \/ to # seen.status)
      /\ new.started_at = (row.started_at \/ to = "IN_PROGRESS")
      /\ new.completed_at = (row.completed_at \/ to = "COMPLETED")
  BY <1>1, <1>2 DEF OrderRow, OrderSince
<1> QED BY <1>1, <1>2, <1>3 DEF OrderRow, OrderDated

-----------------------------------------------------------------------------
(* A request's step leaves the other requests as they were. *)

\* A request is done with, and the tables it does not write are as they were.
LEMMA Finished ==
    ASSUME UnderWay, NEW r \in Requests, Done(r),
           \A q \in Requests \ {r} : /\ requests[q].at # "none" => Target(q)'
                                     /\ requests[q].at = "write" => Seen(q)'
    PROVE  UnderWay'
<1>1. DOMAIN requests' = Requests /\ requests'[r].at = "none"
  BY DEF UnderWay, Done, Unused
<1>2. \A q \in Requests \ {r} : requests'[q] = requests[q]
  BY DEF UnderWay, Done
<1> QED BY <1>1, <1>2 DEF UnderWay

\* Targets and what was read stay as true where the tables they are about only grow.
LEMMA StaysUnderWay ==
    ASSUME UnderWay, NEW q \in Requests, requests'[q] = requests[q],
           UNCHANGED alerts, UNCHANGED feedback, UNCHANGED orders
    PROVE  /\ requests[q].at # "none" => Target(q)'
           /\ requests[q].at = "write" => Seen(q)'
BY DEF UnderWay, Target, Seen, Ask, FeedbackSince

LEMMA AskedStep ==
    ASSUME IInv, NEW r \in Requests, NEW user \in Users, NEW ask \in Asks, Asked(r, user, ask)
    PROVE  IInv'
<1>1. /\ UNCHANGED alerts /\ UNCHANGED feedback /\ UNCHANGED orders
      /\ DOMAIN requests' = Requests /\ requests[r].at = "none"
      /\ \A q \in Requests \ {r} : requests'[q] = requests[q]
      /\ requests'[r] = requests[r] \/ requests'[r] = [at |-> "check", ask |-> ask]
  <2>1. DOMAIN requests = Requests
    BY DEF IInv, UnderWay
  <2> QED BY <2>1 DEF Asked
<1>2. Rows' /\ FeedbackChecked'
  BY <1>1 DEF IInv, Rows, FeedbackChecked
<1>3. requests'[r].at # "none" => requests'[r].at = "check" /\ Target(r)'
  <2> SUFFICES ASSUME requests'[r] = [at |-> "check", ask |-> ask]
               PROVE  requests'[r].at = "check" /\ Target(r)'
    BY <1>1
  <2>1. DOMAIN orders = 1 .. Len(orders)
    BY LenProperties DEF IInv, Rows
  <2> QED BY <1>1, <2>1 DEF Asks, Target, Ask
<1>4. UnderWay'
  BY <1>1, <1>3, StaysUnderWay DEF IInv, UnderWay
<1> QED BY <1>2, <1>4 DEF IInv

LEMMA ReadStep ==
    ASSUME IInv, NEW r \in Requests, ReadAlert(r) \/ ReadFeedback(r) \/ ReadOrder(r)
    PROVE  IInv'
<1>1. /\ UNCHANGED alerts /\ UNCHANGED feedback /\ UNCHANGED orders
      /\ requests[r].at = "check"
  BY DEF ReadAlert, ReadFeedback, ReadOrder, Does
<1>2. Rows' /\ FeedbackChecked'
  BY <1>1 DEF IInv, Rows, FeedbackChecked
<1>3. CASE Done(r)
  <2>1. \A q \in Requests \ {r} : requests'[q] = requests[q]
    BY <1>3 DEF IInv, UnderWay, Done
  <2> QED BY <1>1, <1>2, <1>3, <2>1, Finished, StaysUnderWay DEF IInv
<1>4. ASSUME NEW row, Read(r, row),
             \/ ReadAlert(r) /\ OpenFor(alerts[Ask(r).id]) /\ row = alerts[Ask(r).id]
             \/ ReadFeedback(r) /\ Already(Ask(r).id) = {} /\ row = [rows |-> Len(feedback)]
             \/ ReadOrder(r) /\ row = orders[Ask(r).id]
      PROVE  UnderWay'
  <2>1. /\ DOMAIN requests' = Requests
        /\ requests'[r] = [at |-> "write", ask |-> Ask(r), row |-> row]
        /\ \A q \in Requests \ {r} : requests'[q] = requests[q]
    BY <1>4 DEF IInv, UnderWay, Read, Ask
  <2>2. Target(r) /\ Target(r)'
    BY <1>1, <2>1 DEF IInv, UnderWay, Target, Ask
  <2>3. Seen(r)'
    <3>1. CASE ReadAlert(r) /\ OpenFor(alerts[Ask(r).id]) /\ row = alerts[Ask(r).id]
      <4>1. row \in AlertRow /\ AlertDated(row) /\ row.status # "RESOLVED" /\ Ask(r).kind = "alert"
        BY <3>1, <2>2 DEF ReadAlert, Does, Target, IInv, Rows, OpenFor
      <4> QED BY <1>1, <2>1, <3>1, <4>1 DEF Seen, AlertSince, Ask
    <3>2. CASE ReadFeedback(r) /\ Already(Ask(r).id) = {} /\ row = [rows |-> Len(feedback)]
      <4>1. Ask(r).kind = "feedback" /\ Len(feedback) \in Nat /\ DOMAIN feedback = 1 .. Len(feedback)
        BY <3>2, LenProperties DEF ReadFeedback, Does, IInv, Rows
      <4>2. \A i \in 1 .. Len(feedback) : Ask(r).id # 0 => feedback[i].alert # Ask(r).id
        BY <3>2, <4>1 DEF Already
      <4> QED BY <1>1, <2>1, <3>2, <4>1, <4>2 DEF Seen, FeedbackSince, Ask
    <3>3. CASE ReadOrder(r) /\ row = orders[Ask(r).id]
      <4>1. row \in OrderRow /\ OrderDated(row) /\ Ask(r).kind = "update"
        BY <3>3, <2>2, ElementOfSeq DEF ReadOrder, Does, Target, IInv, Rows
      <4> QED BY <1>1, <2>1, <3>3, <4>1 DEF Seen, OrderSince, Ask
    <3> QED BY <1>4, <3>1, <3>2, <3>3
  <2>4. requests'[r].at = "write"
    BY <2>1
  <2> QED BY <1>1, <2>1, <2>2, <2>3, <2>4, StaysUnderWay DEF IInv, UnderWay
<1>5. \/ Done(r)
      \/ ReadAlert(r) /\ OpenFor(alerts[Ask(r).id]) /\ Read(r, alerts[Ask(r).id])
      \/ ReadFeedback(r) /\ Already(Ask(r).id) = {} /\ Read(r, [rows |-> Len(feedback)])
      \/ ReadOrder(r) /\ Read(r, orders[Ask(r).id])
  BY DEF ReadAlert, ReadFeedback, ReadOrder
<1> QED BY <1>2, <1>3, <1>4, <1>5 DEF IInv

LEMMA WriteAlertStep ==
    ASSUME IInv, NEW r \in Requests, WriteAlert(r)
    PROVE  /\ IInv' /\ requests[r].row.status # "RESOLVED"
           /\ requests'[r] = Unused /\ \A a \in Alerts \ {Ask(r).id} : alerts'[a] = alerts[a]
           /\ \A a \in Alerts : /\ alerts[a].acknowledged_at => alerts'[a].acknowledged_at
                                /\ alerts[a].resolved_at => alerts'[a].resolved_at
<1> DEFINE id == Ask(r).id  seen == requests[r].row  new == alerts'[id]
<1>1. /\ UNCHANGED feedback /\ UNCHANGED orders /\ Done(r) /\ Does(r, "alert", "write")
      /\ alerts' = [alerts EXCEPT ![id] = Written(alerts[id], seen, acknowledge_alert(seen, Ask(r).to))]
  BY DEF WriteAlert
<1>2. /\ id \in Alerts /\ Ask(r).to \in {"ACKNOWLEDGED", "RESOLVED"}
      /\ alerts[id] \in AlertRow /\ AlertDated(alerts[id]) /\ AlertSince(seen, alerts[id])
  BY <1>1 DEF IInv, UnderWay, Rows, Does, Target, Seen
<1>3. /\ new = Written(alerts[id], seen, acknowledge_alert(seen, Ask(r).to))
      /\ \A a \in Alerts \ {id} : alerts'[a] = alerts[a]
      /\ DOMAIN alerts' = Alerts /\ alerts' = [a \in Alerts |-> alerts'[a]]
  BY <1>1, <1>2 DEF IInv, Rows
<1> HIDE DEF new, seen, id
<1>4. /\ new \in AlertRow /\ AlertDated(new)
      /\ alerts[id].acknowledged_at => new.acknowledged_at
      /\ alerts[id].resolved_at => new.resolved_at
  BY <1>2, <1>3, AlertWritten
<1>5. Rows' /\ FeedbackChecked'
  <2>1. \A a \in Alerts : alerts'[a] \in AlertRow /\ AlertDated(alerts'[a])
    BY <1>3, <1>4 DEF IInv, Rows, new
  <2> QED BY <1>1, <1>3, <2>1 DEF IInv, Rows, FeedbackChecked
<1>6. \A q \in Requests \ {r} : /\ requests[q].at # "none" => Target(q)'
                                /\ requests[q].at = "write" => Seen(q)'
  <2> SUFFICES ASSUME NEW q \in Requests \ {r}
               PROVE  /\ requests[q].at # "none" => Target(q)'
                      /\ requests[q].at = "write" => Seen(q)'
    OBVIOUS
  <2>1. requests'[q] = requests[q]
    BY <1>1 DEF IInv, UnderWay, Done
  <2>2. requests[q].at # "none" => Target(q)'
    BY <1>1, <2>1 DEF IInv, UnderWay, Target, Ask
  <2>3. ASSUME requests[q].at = "write" PROVE Seen(q)'
    <3>1. Seen(q) /\ Target(q)
      BY <2>3 DEF IInv, UnderWay
    <3>2. Ask(q).kind = "alert" => AlertSince(requests[q].row, alerts'[Ask(q).id])
      BY <1>3, <1>4, <3>1 DEF Seen, Target, AlertSince, new
    <3> QED BY <1>1, <2>1, <3>1, <3>2 DEF Seen, FeedbackSince, Ask
  <2> QED BY <2>2, <2>3
<1>7. UnderWay'
  BY <1>1, <1>6, Finished DEF IInv
<1>8. \A a \in Alerts : /\ alerts[a].acknowledged_at => alerts'[a].acknowledged_at
                        /\ alerts[a].resolved_at => alerts'[a].resolved_at
  BY <1>3, <1>4 DEF new
<1>9. requests'[r] = Unused
  BY <1>1 DEF Done, IInv, UnderWay
<1> QED BY <1>2, <1>3, <1>5, <1>7, <1>8, <1>9 DEF IInv, AlertSince, seen, id

\* The new row was checked when there were as many rows as it says it has seen.
LEMMA WriteFeedbackStep ==
    ASSUME IInv, NEW r \in Requests, WriteFeedback(r)
    PROVE  IInv'
<1> DEFINE row == [alert |-> Ask(r).id, seen |-> requests[r].row.rows]
           n == Len(feedback)
<1>1. /\ UNCHANGED alerts /\ UNCHANGED orders /\ Done(r) /\ Does(r, "feedback", "write")
      /\ feedback' = Append(feedback, row) /\ n \in Nat
  BY LenProperties DEF WriteFeedback, IInv, Rows
<1>2. /\ row \in FeedbackRow /\ row.seen \in 0 .. n
      /\ \A i \in 1 .. row.seen : row.alert # 0 => feedback[i].alert # row.alert
  BY <1>1 DEF IInv, UnderWay, Does, Target, Seen, FeedbackSince, FeedbackRow
<1> HIDE DEF row
<1>3. /\ feedback' \in Seq(FeedbackRow) /\ Len(feedback') = n + 1 /\ feedback'[n + 1] = row
      /\ \A i \in 1 .. n : feedback'[i] = feedback[i]
      /\ \A i \in 1 .. n : feedback[i] \in FeedbackRow
  BY <1>1, <1>2, AppendProperties, ElementOfSeq DEF IInv, Rows
<1>4. Rows'
  BY <1>1, <1>3 DEF IInv, Rows
<1>5. FeedbackChecked'
  <2> SUFFICES ASSUME NEW j \in 1 .. n + 1
               PROVE  /\ feedback'[j].seen < j
                      /\ \A i \in 1 .. feedback'[j].seen :
                           feedback'[j].alert # 0 => feedback'[i].alert # feedback'[j].alert
    BY <1>3 DEF FeedbackChecked
  <2> HIDE DEF n
  <2>1. CASE j = n + 1
    <3>1. \A i \in 1 .. row.seen : i \in 1 .. n
      BY <1>1, <1>2
    <3> QED BY <1>1, <1>2, <1>3, <2>1, <3>1
  <2>2. CASE j # n + 1
    <3>1. j \in 1 .. n /\ feedback'[j] = feedback[j] /\ feedback[j].seen \in Nat
      BY <1>1, <1>3, <2>2 DEF FeedbackRow
    <3>2. /\ feedback[j].seen < j
          /\ \A i \in 1 .. feedback[j].seen :
               feedback[j].alert # 0 => feedback[i].alert # feedback[j].alert
      BY <3>1 DEF IInv, FeedbackChecked, n
    <3>3. \A i \in 1 .. feedback[j].seen : i \in 1 .. n
      BY <1>1, <3>1, <3>2
    <3> QED BY <1>3, <3>1, <3>2, <3>3
  <2> QED BY <2>1, <2>2
<1>6. \A q \in Requests \ {r} : /\ requests[q].at # "none" => Target(q)'
                                /\ requests[q].at = "write" => Seen(q)'
  <2> SUFFICES ASSUME NEW q \in Requests \ {r}
               PROVE  /\ requests[q].at # "none" => Target(q)'
                      /\ requests[q].at = "write" => Seen(q)'
    OBVIOUS
  <2>1. requests'[q] = requests[q]
    BY <1>1 DEF IInv, UnderWay, Done
  <2>2. requests[q].at # "none" => Target(q)'
    BY <1>1, <2>1 DEF IInv, UnderWay, Target, Ask
  <2>3. ASSUME requests[q].at = "write" PROVE Seen(q)'
    <3>1. Seen(q)
      BY <2>3 DEF IInv, UnderWay
    <3>2. Ask(q).kind = "feedback" => FeedbackSince(requests[q].row, Ask(q).id)'
      <4> SUFFICES ASSUME Ask(q).kind = "feedback"
                   PROVE  FeedbackSince(requests[q].row, Ask(q).id)'
        OBVIOUS
      <4>1. /\ requests[q].row.rows \in 0 .. n
            /\ \A i \in 1 .. requests[q].row.rows : Ask(q).id # 0 => feedback[i].alert # Ask(q).id
        BY <3>1 DEF Seen, FeedbackSince
      <4>2. \A i \in 1 .. requests[q].row.rows : i \in 1 .. n
        BY <1>1, <4>1
      <4> QED BY <1>1, <1>3, <2>1, <4>1, <4>2 DEF FeedbackSince, Ask
    <3> QED BY <1>1, <2>1, <3>1, <3>2 DEF Seen, Ask
  <2> QED BY <2>2, <2>3
<1>7. UnderWay'
  BY <1>1, <1>6, Finished DEF IInv
<1> QED BY <1>4, <1>5, <1>7 DEF IInv

LEMMA CreateOrderStep ==
    ASSUME IInv, NEW r \in Requests, CreateOrder(r)
    PROVE  IInv'
<1> DEFINE order == [status |-> Ask(r).to, moved |-> FALSE,
                     started_at |-> FALSE, completed_at |-> FALSE]
           n == Len(orders)
<1>1. /\ UNCHANGED alerts /\ UNCHANGED feedback /\ Done(r) /\ Does(r, "create", "check")
      /\ orders' = Append(orders, order) /\ n \in Nat
  BY LenProperties DEF CreateOrder, IInv, Rows
<1>2. order \in OrderRow /\ OrderDated(order)
  BY <1>1 DEF IInv, UnderWay, Does, Target, OrderRow, OrderDated
<1> HIDE DEF order
<1>3. /\ orders' \in Seq(OrderRow) /\ Len(orders') = n + 1 /\ orders'[n + 1] = order
      /\ \A i \in 1 .. n : orders'[i] = orders[i]
  BY <1>1, <1>2, AppendProperties DEF IInv, Rows
<1>4. \A o \in 1 .. n + 1 : o \in 1 .. n \/ o = n + 1
  BY <1>1
<1>5. Rows' /\ FeedbackChecked'
  <2>1. \A o \in 1 .. n + 1 : OrderDated(orders'[o])
    BY <1>2, <1>3, <1>4 DEF IInv, Rows
  <2> QED BY <1>1, <1>3, <2>1 DEF IInv, Rows, FeedbackChecked
<1>6. \A q \in Requests \ {r} : /\ requests[q].at # "none" => Target(q)'
                                /\ requests[q].at = "write" => Seen(q)'
  <2> SUFFICES ASSUME NEW q \in Requests \ {r}
               PROVE  /\ requests[q].at # "none" => Target(q)'
                      /\ requests[q].at = "write" => Seen(q)'
    OBVIOUS
  <2>1. requests'[q] = requests[q] /\ \A o \in 1 .. n : o \in 1 .. Len(orders')
    BY <1>1, <1>3 DEF IInv, UnderWay, Done
  <2>2. requests[q].at # "none" => Target(q)'
    BY <1>1, <2>1 DEF IInv, UnderWay, Target, Ask
  <2>3. ASSUME requests[q].at = "write" PROVE Seen(q)'
    <3>1. Seen(q) /\ Target(q)
      BY <2>3 DEF IInv, UnderWay
    <3>2. Ask(q).kind = "update" => OrderSince(requests[q].row, orders'[Ask(q).id])
      BY <1>3, <3>1 DEF Seen, Target
    <3> QED BY <1>1, <2>1, <3>1, <3>2 DEF Seen, FeedbackSince, Ask
  <2> QED BY <2>2, <2>3
<1>7. UnderWay'
  BY <1>1, <1>6, Finished DEF IInv
<1> QED BY <1>5, <1>7 DEF IInv

LEMMA UpdateOrderStep ==
    ASSUME IInv, NEW r \in Requests, UpdateOrder(r)
    PROVE  /\ IInv'
           /\ \A o \in 1 .. Len(orders) : /\ orders[o].started_at => orders'[o].started_at
                                          /\ orders[o].completed_at => orders'[o].completed_at
<1> DEFINE id == Ask(r).id  seen == requests[r].row  new == orders'[id]
<1>1. /\ UNCHANGED alerts /\ UNCHANGED feedback /\ Done(r) /\ Does(r, "update", "write")
      /\ orders' = [orders EXCEPT ![id] =
                      Written(orders[id], seen, update_maintenance_event(seen, Ask(r).to))]
  BY DEF UpdateOrder
<1>2. /\ id \in 1 .. Len(orders) /\ Ask(r).to \in Statuses /\ orders \in Seq(OrderRow)
      /\ orders[id] \in OrderRow /\ OrderDated(orders[id]) /\ OrderSince(seen, orders[id])
  BY <1>1, ElementOfSeq DEF IInv, UnderWay, Rows, Does, Target, Seen
<1>3. /\ new = Written(orders[id], seen, update_maintenance_event(seen, Ask(r).to))
      /\ \A o \in 1 .. Len(orders) : o # id => orders'[o] = orders[o]
  BY <1>1, <1>2, LenProperties
<1> HIDE DEF new, seen
<1>4. /\ new \in OrderRow /\ OrderDated(new)
      /\ orders[id].moved => new.moved
      /\ orders[id].started_at => new.started_at
      /\ orders[id].completed_at => new.completed_at
  BY <1>2, <1>3, OrderWritten
<1>5. orders' \in Seq(OrderRow) /\ Len(orders') = Len(orders)
  BY <1>1, <1>2, <1>3, <1>4, ExceptSeq
<1> HIDE DEF id
<1>6. Rows' /\ FeedbackChecked'
  <2>1. \A o \in 1 .. Len(orders) : OrderDated(orders'[o])
    BY <1>3, <1>4 DEF IInv, Rows, new
  <2> QED BY <1>1, <1>5, <2>1 DEF IInv, Rows, FeedbackChecked
<1>7. \A q \in Requests \ {r} : /\ requests[q].at # "none" => Target(q)'
                                /\ requests[q].at = "write" => Seen(q)'
  <2> SUFFICES ASSUME NEW q \in Requests \ {r}
               PROVE  /\ requests[q].at # "none" => Target(q)'
                      /\ requests[q].at = "write" => Seen(q)'
    OBVIOUS
  <2>1. requests'[q] = requests[q]
    BY <1>1 DEF IInv, UnderWay, Done
  <2>2. requests[q].at # "none" => Target(q)'
    BY <1>1, <1>5, <2>1 DEF IInv, UnderWay, Target, Ask
  <2>3. ASSUME requests[q].at = "write" PROVE Seen(q)'
    <3>1. Seen(q) /\ Target(q)
      BY <2>3 DEF IInv, UnderWay
    <3>2. Ask(q).kind = "update" => OrderSince(requests[q].row, orders'[Ask(q).id])
      BY <1>3, <1>4, <3>1 DEF Seen, Target, OrderSince, new
    <3> QED BY <1>1, <2>1, <3>1, <3>2 DEF Seen, FeedbackSince, Ask
  <2> QED BY <2>2, <2>3
<1>8. UnderWay'
  BY <1>1, <1>7, Finished DEF IInv
<1>9. \A o \in 1 .. Len(orders) : /\ orders[o].started_at => orders'[o].started_at
                                  /\ orders[o].completed_at => orders'[o].completed_at
  BY <1>3, <1>4 DEF new
<1> QED BY <1>6, <1>8, <1>9 DEF IInv

-----------------------------------------------------------------------------
LEMMA StepInv == ASSUME IInv, [OpsNext]_opsVars PROVE IInv'
<1>1. CASE UNCHANGED <<alerts, feedback, orders, requests>>
  BY <1>1 DEF IInv, Rows, UnderWay, FeedbackChecked, Target, Seen, FeedbackSince, Ask
<1>2. CASE \E r \in Requests : Handles(r)
  BY <1>2, AskedStep, ReadStep, WriteAlertStep, WriteFeedbackStep, CreateOrderStep, UpdateOrderStep
  DEF Handles
<1> QED BY <1>1, <1>2 DEF OpsNext, Change, opsVars

\* What is read, checked and written fits together for any number of requests.
THEOREM Invariant == OpsSpec => []IInv
<1>1. OpsInit => IInv
  BY InitInv
<1>2. IInv /\ [OpsNext]_opsVars => IInv'
  BY StepInv
<1> QED BY <1>1, <1>2, PTL DEF OpsSpec

\* No time of an alert or an order is taken back, what was moved has its time, and a
\* RESOLVED alert is overwritten only by a request that had read that alert before.
THEOREM TimesKept == OpsSpec => LifecycleKept
<1> DEFINE AlertKept(a) ==
            /\ alerts[a].status = "RESOLVED" => \/ alerts'[a].status = "RESOLVED"
                                                \/ \E r \in Requests : Overwrites(r, a)
            /\ alerts'[a].status # "OPEN" => alerts'[a].acknowledged_at
            /\ alerts'[a].status = "RESOLVED" => alerts'[a].resolved_at
            /\ alerts[a].acknowledged_at => alerts'[a].acknowledged_at
            /\ alerts[a].resolved_at => alerts'[a].resolved_at
           Kept ==
      /\ \A a \in Alerts : AlertKept(a)
      /\ \A o \in DOMAIN orders' : orders'[o].moved =>
            /\ orders'[o].status = "IN_PROGRESS" => orders'[o].started_at
            /\ orders'[o].status = "COMPLETED" => orders'[o].completed_at
      /\ \A o \in DOMAIN orders :
            /\ orders[o].started_at => orders'[o].started_at
            /\ orders[o].completed_at => orders'[o].completed_at
<1>1. IInv /\ IInv' /\ [OpsNext]_opsVars => [Kept]_opsVars
  <2> SUFFICES ASSUME IInv, IInv', OpsNext PROVE Kept
    OBVIOUS
  <2>1. \A o \in DOMAIN orders' : OrderDated(orders'[o])
    BY LenProperties DEF IInv, Rows
  <2>2. \A a \in Alerts : AlertDated(alerts'[a])
    BY DEF IInv, Rows
  <2>3. DOMAIN orders = 1 .. Len(orders) /\ Len(orders) \in Nat
    BY LenProperties DEF IInv, Rows
  <2>4. \A a \in Alerts : AlertKept(a)
    <3>1. ASSUME NEW r \in Requests, WriteAlert(r) PROVE \A a \in Alerts : AlertKept(a)
      <4>1. /\ Does(r, "alert", "write") /\ requests[r].row.status # "RESOLVED"
            /\ requests'[r] = Unused
            /\ \A a \in Alerts : /\ alerts[a].acknowledged_at => alerts'[a].acknowledged_at
                                 /\ alerts[a].resolved_at => alerts'[a].resolved_at
            /\ \A a \in Alerts : a = Ask(r).id \/ alerts'[a] = alerts[a]
        BY <3>1, WriteAlertStep DEF WriteAlert
      <4> QED BY <2>2, <4>1 DEF AlertDated, Overwrites
    <3>2. (\E r \in Requests : WriteAlert(r)) \/ UNCHANGED alerts
      BY DEF OpsNext, Handles, Asked, ReadAlert, ReadFeedback, WriteFeedback, CreateOrder,
             ReadOrder, UpdateOrder, Change
    <3>3. CASE UNCHANGED alerts
      BY <2>2, <3>3 DEF AlertDated
    <3> QED BY <3>1, <3>2, <3>3
  <2>5. \A o \in DOMAIN orders : /\ orders[o].started_at => orders'[o].started_at
                                 /\ orders[o].completed_at => orders'[o].completed_at
    <3>1. CASE \E r \in Requests : UpdateOrder(r)
      BY <2>3, <3>1, UpdateOrderStep
    <3>2. CASE \E r \in Requests : CreateOrder(r)
      <4>1. PICK row \in OrderRow : orders' = Append(orders, row)
        BY <3>2 DEF CreateOrder, IInv, UnderWay, Target, Does, OrderRow, Statuses
      <4>2. \A o \in 1 .. Len(orders) : orders'[o] = orders[o]
        BY <4>1, AppendProperties DEF IInv, Rows
      <4> QED BY <2>3, <4>2
    <3>3. CASE UNCHANGED orders
      BY <3>3
    <3>4. \/ \E r \in Requests : UpdateOrder(r) \/ CreateOrder(r)
          \/ UNCHANGED orders
      BY DEF OpsNext, Handles, Asked, ReadAlert, WriteAlert, ReadFeedback, WriteFeedback,
             ReadOrder, Change
    <3> QED BY <3>1, <3>2, <3>3, <3>4
  <2> HIDE DEF AlertKept
  <2> QED BY <2>1, <2>4, <2>5 DEF OrderDated
<1>2. IInv /\ [OpsNext]_opsVars => IInv'
  BY StepInv
<1> QED BY <1>1, <1>2, Invariant, PTL DEF OpsSpec, LifecycleKept

\* Feedback on one alert is there twice only after two checks that preceded both rows.
THEOREM FeedbackKeptOnce == OpsSpec => []FeedbackOnce
<1>1. IInv => FeedbackOnce
  <2> SUFFICES ASSUME IInv, NEW i \in DOMAIN feedback, NEW j \in DOMAIN feedback, i < j,
                      feedback[j].alert # 0, feedback[i].alert = feedback[j].alert,
                      ~(feedback[j].seen < i)
               PROVE  FALSE
    BY DEF FeedbackOnce
  <2>1. /\ i \in 1 .. Len(feedback) /\ j \in 1 .. Len(feedback) /\ Len(feedback) \in Nat
        /\ feedback[j] \in FeedbackRow
    BY LenProperties, ElementOfSeq DEF IInv, Rows
  <2>2. i \in 1 .. feedback[j].seen
    BY <2>1 DEF FeedbackRow
  <2> QED BY <2>1, <2>2 DEF IInv, FeedbackChecked
<1> QED BY <1>1, Invariant, PTL

-----------------------------------------------------------------------------
(* The live page *)

LiveSpec == LiveInit /\ [][LiveNext]_liveVars

USE LiveAssumption DEF LiveAssumption

Socket == [token : Nat, page : {"closed", "connecting", "open"},
           api : {"asked", "registered", "refused", "lost", "ended"},
           attached : BOOLEAN, inbox : Seq(Nat)]
Client == [token : Nat, status : {"DISCONNECTED", "CONNECTING", "CONNECTED"},
           timer : BOOLEAN, socket : 0 .. MaxSockets]

\* The twin is the last update, or forgotten; the page shows one of the updates.
PageTyped ==
    /\ token \in Nat /\ logins \in Nat
    /\ updates \in Nat /\ twin \in {0, updates} /\ view \in 0 .. updates
    /\ client \in Client /\ sockets \in [1 .. MaxSockets -> Socket]

\* Only the client's socket has handlers.
OneAttached == \A s \in 1 .. MaxSockets : sockets[s].attached => s = client.socket

\* The snapshot a socket carries, if any, tells nothing that has not happened; and one that
\* will be heard nothing older than what the page shows.
Carries(socket, shown, last) ==
    /\ Len(socket.inbox) \in {0, 1}
    /\ Len(socket.inbox) = 1 => /\ socket.inbox[1] <= last
                                /\ socket.attached => socket.inbox[1] \in {0} \cup shown .. last

Snapshots == \A s \in 1 .. MaxSockets : Carries(sockets[s], view, updates)

PageInv == PageTyped /\ OneAttached /\ Snapshots

\* A set of numbers that is not empty has its minimum.
LEMMA MinIsMember ==
    ASSUME NEW S, S \subseteq Nat, S # {}
    PROVE  Min(S) \in S
<1> DEFINE R == OpToRel(<, Nat)
<1>1. PICK x \in S : \A y \in S : ~ (<<y, x>> \in R)
  <2>1. IsWellFoundedOn(R, Nat)
    BY NatLessThanWellFounded
  <2> HIDE DEF R
  <2> QED BY <2>1, WFMin
<1>2. \A y \in S : ~ (y < x)
  <2> SUFFICES ASSUME NEW y \in S, y < x PROVE FALSE
    OBVIOUS
  <2>1. <<y, x>> \in Nat \X Nat
    OBVIOUS
  <2>2. <<y, x>> \in R
    BY <2>1 DEF OpToRel
  <2> QED BY <1>1, <2>2
<1>3. \A y \in S : x =< y
  BY <1>2
<1> QED BY <1>3 DEF Min

LEMMA PageInit == LiveInit => PageInv
<1> SUFFICES ASSUME LiveInit PROVE PageInv
  OBVIOUS
<1> DEFINE blank == [token |-> 0, page |-> "closed", api |-> "ended",
                     attached |-> FALSE, inbox |-> <<>>]
<1>1. blank.inbox \in Seq(Nat) /\ Len(blank.inbox) = 0
  BY EmptySeq
<1>2. blank \in Socket /\ blank.attached = FALSE
  BY <1>1 DEF Socket
<1> HIDE DEF blank
<1>3. sockets = [s \in 1 .. MaxSockets |-> blank]
  BY DEF LiveInit, blank
<1>4. PageTyped
  <2>1. client \in Client
    BY 0 \in 0 .. MaxSockets DEF LiveInit, Client
  <2>2. sockets \in [1 .. MaxSockets -> Socket]
    BY <1>2, <1>3
  <2>3. token = 0 /\ logins = 0 /\ updates = 0 /\ twin = 0 /\ view = 0
    BY DEF LiveInit
  <2> QED BY <2>1, <2>2, <2>3 DEF PageTyped
<1>5. OneAttached /\ Snapshots
  BY <1>1, <1>2, <1>3 DEF OneAttached, Snapshots, Carries
<1> QED BY <1>4, <1>5 DEF PageInv

\* The cleanup leaves no socket with handlers, and the others as they were.
LEMMA CleanedUp ==
    ASSUME PageInv
    PROVE  /\ cleanup \in [1 .. MaxSockets -> Socket]
           /\ \A s \in 1 .. MaxSockets : /\ ~ cleanup[s].attached
                                         /\ cleanup[s].inbox = sockets[s].inbox
<1>1. CASE client.socket = 0
  <2>1. \A s \in 1 .. MaxSockets : ~ sockets[s].attached
    BY <1>1 DEF PageInv, PageTyped, OneAttached, Socket
  <2> QED BY <1>1, <2>1 DEF PageInv, PageTyped, cleanup
<1>2. CASE client.socket # 0
  <2> DEFINE c == client.socket
             closed == [sockets[c] EXCEPT !.attached = FALSE, !.page = "closed"]
  <2>1. c \in 1 .. MaxSockets
    BY <1>2 DEF PageInv, PageTyped, Client
  <2>2. cleanup = [sockets EXCEPT ![c] = closed]
    BY <1>2 DEF cleanup
  <2>3. sockets[c] \in Socket
    BY <2>1 DEF PageInv, PageTyped
  <2>4. closed \in Socket /\ ~ closed.attached /\ closed.inbox = sockets[c].inbox
    BY <2>3 DEF Socket
  <2> HIDE DEF closed, c
  <2>5. \A s \in 1 .. MaxSockets : s # c => ~ sockets[s].attached
    BY DEF PageInv, OneAttached, c
  <2>6. sockets \in [1 .. MaxSockets -> Socket]
    BY DEF PageInv, PageTyped
  <2> QED BY <2>1, <2>2, <2>4, <2>5, <2>6
<1> QED BY <1>1, <1>2

\* Connecting, with a new token or again.
LEMMA ConnectStep ==
    ASSUME PageInv, NEW t \in Nat, connect(t), UNCHANGED <<session, twin, updates, view, breaks>>
    PROVE  PageInv'
<1>0. /\ cleanup \in [1 .. MaxSockets -> Socket]
      /\ \A s \in 1 .. MaxSockets : /\ ~ cleanup[s].attached
                                    /\ cleanup[s].inbox = sockets[s].inbox
  BY CleanedUp
<1>1. \A s \in 1 .. MaxSockets : Carries(cleanup[s], view, updates)
  BY <1>0 DEF PageInv, Snapshots, Carries
<1>2. CASE t = 0
  <2>1. PageTyped'
    <3>1. client' \in Client
      <4>1. client' = [token |-> 0, status |-> "DISCONNECTED", timer |-> FALSE, socket |-> 0]
        BY <1>2 DEF connect
      <4> QED BY <4>1 DEF Client
    <3> QED BY <1>0, <1>2, <3>1 DEF connect, PageInv, PageTyped, session
  <2>2. OneAttached' /\ Snapshots'
    BY <1>0, <1>1, <1>2 DEF connect, OneAttached, Snapshots
  <2> QED BY <2>1, <2>2 DEF PageInv
<1>3. CASE t # 0
  <2> DEFINE m == Min(Free)
             fresh == [token |-> t, page |-> "connecting", api |-> "asked",
                       attached |-> TRUE, inbox |-> <<>>]
  <2>1. m \in 1 .. MaxSockets
    <3>1. Free \subseteq 1 .. MaxSockets
      BY DEF Free, PageInv, PageTyped
    <3>2. Free # {}
      BY <1>3 DEF connect
    <3>3. Min(Free) \in Free
      <4>1. Free \subseteq Nat
        BY <3>1
      <4> QED BY <3>2, <4>1, MinIsMember, Zenon
    <3> QED BY <3>1, <3>3
  <2>2. fresh \in Socket /\ Len(fresh.inbox) = 0
    BY EmptySeq DEF Socket
  <2>3. /\ sockets' = [cleanup EXCEPT ![m] = fresh]
        /\ client' = [token |-> t, status |-> "CONNECTING", timer |-> FALSE, socket |-> m]
    BY <1>3 DEF connect
  <2> HIDE DEF m, fresh
  <2>4. PageTyped'
    BY <1>0, <2>1, <2>2, <2>3 DEF PageInv, PageTyped, Client, session
  <2>5. OneAttached'
    BY <1>0, <2>1, <2>3 DEF OneAttached
  <2>6. Snapshots'
    BY <1>0, <1>1, <2>1, <2>2, <2>3 DEF Snapshots, Carries
  <2> QED BY <2>4, <2>5, <2>6 DEF PageInv
<1> QED BY <1>2, <1>3

Becomes(s, new) == sockets' = [sockets EXCEPT ![s] = new]

\* One socket changes, in what neither attaches it nor makes it carry more.
LEMMA SocketStep ==
    ASSUME PageInv, NEW s \in 1 .. MaxSockets, NEW new \in Socket,
           Becomes(s, new),
           client' \in Client, client'.socket = client.socket,
           new.attached => sockets[s].attached,
           UNCHANGED <<session, twin, updates>>,
           view' \in 0 .. updates,
           Carries(new, view', updates),
           \A o \in 1 .. MaxSockets \ {s} : Carries(sockets[o], view', updates)
    PROVE  PageInv'
<1> USE DEF Becomes
<1>1. PageTyped'
  BY DEF PageInv, PageTyped, session
<1>2. OneAttached'
  BY DEF PageInv, PageTyped, OneAttached
<1>3. Snapshots'
  BY DEF PageInv, PageTyped, Snapshots
<1> QED BY <1>1, <1>2, <1>3 DEF PageInv

\* A socket carries what it did, nothing, or the snapshot of this moment.
Fewer(box, was) ==
    \/ box = was
    \/ Len(box) = 0
    \/ Len(box) = 1 /\ box[1] = twin

\* A page's or the API's end of a socket changes, the view does not.
LEMMA EndStep ==
    ASSUME PageInv, NEW s \in 1 .. MaxSockets, NEW new \in Socket,
           Becomes(s, new),
           client' \in Client, client'.socket = client.socket,
           new.attached => sockets[s].attached,
           Fewer(new.inbox, sockets[s].inbox),
           UNCHANGED <<session, twin, updates, view>>
    PROVE  PageInv'
<1>1. /\ \A o \in 1 .. MaxSockets : Carries(sockets[o], view, updates)
      /\ sockets[s] \in Socket /\ view \in 0 .. updates /\ updates \in Nat
      /\ twin \in {0, updates}
  BY DEF PageInv, PageTyped, Snapshots
<1>2. Carries(new, view, updates)
  <2>1. /\ Carries(sockets[s], view, updates)
        /\ new.attached => sockets[s].attached
        /\ Fewer(new.inbox, sockets[s].inbox)
    BY <1>1
  <2> DEFINE box == new.inbox
             was == sockets[s].inbox
  <2>2. Len(box) \in {0, 1}
    <3> HIDE DEF box, was
    <3>1. Len(was) \in {0, 1}
      BY <2>1 DEF Carries, was
    <3>2. Fewer(box, was)
      BY <2>1 DEF box, was
    <3> QED BY <3>1, <3>2 DEF Fewer
  <2>3. ASSUME Len(box) = 1 PROVE box[1] <= updates
    <3>1. Len(was) = 1 => was[1] <= updates
      BY <2>1 DEF Carries
    <3> HIDE DEF box, was
    <3>2. Fewer(box, was)
      BY <2>1 DEF box, was
    <3> QED BY <1>1, <2>3, <3>1, <3>2 DEF Fewer
  <2>4. ASSUME Len(box) = 1, new.attached PROVE box[1] \in {0} \cup view .. updates
    <3>1. Len(was) = 1 => was[1] \in {0} \cup view .. updates
      BY <2>1, <2>4, Zenon DEF Carries
    <3> HIDE DEF box, was
    <3>2. Fewer(box, was)
      BY <2>1 DEF box, was
    <3> QED BY <1>1, <2>4, <3>1, <3>2 DEF Fewer
  <2> QED BY <2>2, <2>3, <2>4, Zenon DEF Carries
<1> QED BY <1>1, <1>2, SocketStep

\* What a socket delivers: dropped, or shown.
LEMMA MessageStep ==
    ASSUME PageInv, NEW s \in 1 .. MaxSockets, OnMessage(s)
    PROVE  PageInv' /\ (view' >= view \/ view' = 0)
<1> DEFINE old == sockets[s]
           new == [old EXCEPT !.inbox = Tail(@)]
<1>0. /\ old \in Socket /\ Carries(old, view, updates) /\ view \in 0 .. updates
      /\ updates \in Nat /\ client \in Client
  BY DEF PageInv, PageTyped, Snapshots
<1>1. /\ old.inbox \in Seq(Nat) /\ old.inbox # <<>>
  BY <1>0 DEF OnMessage, Socket
<1>2. /\ Len(old.inbox) = 1 /\ Head(old.inbox) = old.inbox[1] /\ old.inbox[1] \in Nat
      /\ Tail(old.inbox) \in Seq(Nat) /\ Len(Tail(old.inbox)) = 0
  <2> DEFINE box == old.inbox
  <2>1. box \in Seq(Nat) /\ box # <<>> /\ Len(box) \in {0, 1}
    BY <1>0, <1>1 DEF Carries
  <2> HIDE DEF box
  <2>2. Len(box) = 1
    <3>1. Len(box) \in Nat \ {0}
      BY <2>1, EmptySeq, Zenon
    <3> QED BY <2>1, <3>1
  <2>3. Head(box) = box[1] /\ box[1] \in Nat
    BY <2>1, <2>2
  <2>4. Tail(box) \in Seq(Nat) /\ Len(Tail(box)) = 0
    BY <2>1, <2>2, HeadTailProperties
  <2> QED BY <2>2, <2>3, <2>4 DEF box
<1>3. /\ new \in Socket /\ new.attached = old.attached /\ Len(new.inbox) = 0
  BY <1>0, <1>2 DEF Socket
<1>4. /\ Becomes(s, new)
      /\ view' = IF old.attached THEN old.inbox[1] ELSE view
      /\ UNCHANGED <<session, client, twin, updates, breaks>>
  BY <1>2 DEF OnMessage, Ours, Becomes
<1> HIDE DEF new, old
<1>5. view' \in 0 .. updates /\ (view' >= view \/ view' = 0)
  BY <1>0, <1>2, <1>4 DEF Carries
<1>6. Carries(new, view', updates)
  BY <1>3 DEF Carries
<1>7. \A o \in 1 .. MaxSockets \ {s} : Carries(sockets[o], view', updates)
  <2> SUFFICES ASSUME NEW o \in 1 .. MaxSockets, o # s
               PROVE  Carries(sockets[o], view', updates)
    OBVIOUS
  <2>1. Carries(sockets[o], view, updates)
    BY DEF PageInv, Snapshots
  <2>2. CASE old.attached
    <3>1. ~ sockets[o].attached
      BY <2>2 DEF PageInv, OneAttached, old
    <3> QED BY <2>1, <3>1 DEF Carries
  <2>3. CASE ~ old.attached
    BY <1>4, <2>1, <2>3
  <2> QED BY <2>2, <2>3
<1>8. new.attached => sockets[s].attached
  BY <1>3 DEF old
<1> QED BY <1>0, <1>3, <1>4, <1>5, <1>6, <1>7, <1>8, SocketStep

LEMMA SocketsStep ==
    ASSUME PageInv, NEW s \in 1 .. MaxSockets, Sockets(s)
    PROVE  PageInv' /\ (view' >= view \/ view' = 0)
<1>0. /\ sockets[s] \in Socket /\ client \in Client /\ view \in Nat /\ twin \in Nat
      /\ sockets \in [1 .. MaxSockets -> Socket]
  BY DEF PageInv, PageTyped
<1>1. CASE OnOpen(s)
  <2> DEFINE new == [sockets[s] EXCEPT !.page = "open"]
  <2>1. new \in Socket /\ new.attached = sockets[s].attached /\ new.inbox = sockets[s].inbox
    BY <1>0 DEF Socket
  <2>2. Becomes(s, new)
    BY <1>1 DEF OnOpen, Becomes
  <2> HIDE DEF new
  <2>3. client' \in Client /\ client'.socket = client.socket
    BY <1>0, <1>1 DEF OnOpen, Client
  <2>4. UNCHANGED <<session, twin, updates, view>>
    BY <1>1 DEF OnOpen
  <2>5. Fewer(new.inbox, sockets[s].inbox)
    BY <2>1 DEF Fewer
  <2>6. PageInv'
    BY <2>1, <2>2, <2>3, <2>4, <2>5, EndStep
  <2> QED BY <1>0, <2>4, <2>6
<1>2. CASE OnMessage(s)
  BY <1>2, MessageStep
<1>3. CASE OnClose(s)
  <2> DEFINE new == [sockets[s] EXCEPT !.page = "closed", !.inbox = <<>>]
  <2>1. new \in Socket /\ new.attached = sockets[s].attached /\ Len(new.inbox) = 0
    BY <1>0, EmptySeq DEF Socket
  <2>2. Becomes(s, new)
    BY <1>3 DEF OnClose, Becomes
  <2> HIDE DEF new
  <2>3. client' \in Client /\ client'.socket = client.socket
    BY <1>0, <1>3 DEF OnClose, Close, Client
  <2> QED BY <1>0, <1>3, <2>1, <2>2, <2>3, EndStep DEF Fewer, OnClose
<1>4. CASE Accept(s)
  <2>1. CASE current_ws_user(sockets[s].token)
    <3> DEFINE new == [sockets[s] EXCEPT !.api = "registered", !.inbox = <<twin>>]
    <3>1. <<twin>> \in Seq(Nat) /\ Len(<<twin>>) = 1 /\ <<twin>>[1] = twin
      BY <1>0
    <3>2. /\ new \in Socket /\ new.attached = sockets[s].attached
          /\ Len(new.inbox) = 1 /\ new.inbox[1] = twin
      BY <1>0, <3>1 DEF Socket
    <3>3. Becomes(s, new)
      BY <1>4, <2>1 DEF Accept, Becomes
    <3> HIDE DEF new
    <3> QED BY <1>0, <1>4, <3>2, <3>3, EndStep DEF Fewer, Accept
  <2>2. CASE ~ current_ws_user(sockets[s].token)
    <3> DEFINE new == [sockets[s] EXCEPT !.api = "refused"]
    <3>2. new \in Socket /\ new.attached = sockets[s].attached /\ new.inbox = sockets[s].inbox
      BY <1>0 DEF Socket
    <3>3. Becomes(s, new)
      BY <1>4, <2>2 DEF Accept, Becomes
    <3> HIDE DEF new
    <3> QED BY <1>0, <1>4, <3>2, <3>3, EndStep DEF Fewer, Accept
  <2> QED BY <2>1, <2>2
<1>5. CASE Ends(s)
  <2> DEFINE new == [sockets[s] EXCEPT !.api = "ended"]
  <2>1. new \in Socket /\ new.attached = sockets[s].attached /\ new.inbox = sockets[s].inbox
    BY <1>0 DEF Socket
  <2>2. Becomes(s, new)
    BY <1>5 DEF Ends, Becomes
  <2> HIDE DEF new
  <2> QED BY <1>0, <1>5, <2>1, <2>2, EndStep DEF Fewer, Ends
<1> QED BY <1>1, <1>2, <1>3, <1>4, <1>5 DEF Sockets

\* Connections break.
LEMMA LoseStep ==
    ASSUME PageInv, NEW S, Lose(S), twin' \in {0, updates},
           UNCHANGED <<session, client, updates, view>>
    PROVE  PageInv'
<1>0. sockets \in [1 .. MaxSockets -> Socket]
  BY DEF PageInv, PageTyped
<1>1. \A s \in 1 .. MaxSockets : /\ sockets'[s] \in Socket
                                 /\ sockets'[s].attached = sockets[s].attached
                                 /\ sockets'[s].inbox = sockets[s].inbox
  <2> SUFFICES ASSUME NEW s \in 1 .. MaxSockets
               PROVE  /\ sockets'[s] \in Socket
                      /\ sockets'[s].attached = sockets[s].attached
                      /\ sockets'[s].inbox = sockets[s].inbox
    OBVIOUS
  <2> DEFINE lost == [sockets[s] EXCEPT !.api = "lost"]
  <2>1. sockets[s] \in Socket
    BY <1>0
  <2>2. /\ lost \in Socket /\ lost.attached = sockets[s].attached
        /\ lost.inbox = sockets[s].inbox
    BY <2>1 DEF Socket
  <2>3. sockets'[s] \in {sockets[s], lost}
    BY <1>0 DEF Lose
  <2> QED BY <2>1, <2>2, <2>3
<1>2. sockets' \in [1 .. MaxSockets -> Socket]
  BY <1>0, <1>1 DEF Lose
<1>3. PageTyped'
  BY <1>2 DEF PageInv, PageTyped, session
<1>4. OneAttached'
  BY <1>1 DEF PageInv, OneAttached
<1>5. Snapshots'
  BY <1>1 DEF PageInv, Snapshots, Carries
<1> QED BY <1>3, <1>4, <1>5 DEF PageInv

LEMMA PageStep ==
    ASSUME PageInv, [LiveNext]_liveVars
    PROVE  PageInv' /\ (UNCHANGED liveVars \/ view' >= view \/ view' = 0)
<1> USE DEF session
<1>0. view \in Nat /\ DOMAIN sockets = 1 .. MaxSockets
  BY DEF PageInv, PageTyped
<1>1. CASE UNCHANGED liveVars
  BY <1>1 DEF liveVars, PageInv, PageTyped, OneAttached, Snapshots
<1>2. CASE Login \/ Call \/ Logout
  <2>1. token' \in Nat /\ logins' \in Nat /\ UNCHANGED <<client, sockets, twin, updates, view>>
    BY <1>2 DEF Login, Call, Logout, logout, PageInv, PageTyped
  <2> QED BY <1>0, <2>1 DEF PageInv, PageTyped, OneAttached, Snapshots
<1>3. CASE Render
  BY <1>0, <1>3, ConnectStep DEF Render, PageInv, PageTyped
<1>4. CASE Reconnect
  <2>1. client.token \in Nat
    BY DEF PageInv, PageTyped, Client
  <2> QED BY <1>0, <1>4, <2>1, ConnectStep DEF Reconnect
<1>5. CASE Update
  <2>1. /\ updates' = updates + 1 /\ twin' = updates + 1 /\ updates \in Nat
        /\ UNCHANGED <<token, logins, client, sockets, view>>
    BY <1>5 DEF Update, PageInv, PageTyped
  <2>2. \A s \in 1 .. MaxSockets : Carries(sockets[s], view, updates')
    <3> SUFFICES ASSUME NEW s \in 1 .. MaxSockets PROVE Carries(sockets[s], view, updates')
      OBVIOUS
    <3>1. Carries(sockets[s], view, updates) /\ sockets[s].inbox \in Seq(Nat)
      BY DEF PageInv, PageTyped, Snapshots, Socket
    <3> QED BY <2>1, <3>1, <1>0 DEF Carries
  <2>3. PageTyped'
    BY <2>1 DEF PageInv, PageTyped
  <2> QED BY <1>0, <2>1, <2>2, <2>3 DEF PageInv, OneAttached, Snapshots
<1>6. CASE Breaks
  <2>1. PICK S : Lose(S) /\ twin' \in {0, twin}
    BY <1>6 DEF Breaks
  <2>2. twin' \in {0, updates} /\ UNCHANGED <<session, client, updates, view>>
    BY <1>6, <2>1 DEF Breaks, PageInv, PageTyped
  <2> QED BY <1>0, <2>1, <2>2, LoseStep
<1>7. CASE (\E t \in valid : Expires(t)) \/ (\E c \in calls : Answered(c))
  <2>1. token' \in Nat /\ logins' \in Nat /\ UNCHANGED <<client, sockets, twin, updates, view>>
    BY <1>7 DEF Expires, Answered, logout, PageInv, PageTyped
  <2> QED BY <1>0, <2>1 DEF PageInv, PageTyped, OneAttached, Snapshots
<1>8. CASE \E s \in DOMAIN sockets : Sockets(s)
  BY <1>0, <1>8, SocketsStep
<1> QED BY <1>1, <1>2, <1>3, <1>4, <1>5, <1>6, <1>7, <1>8 DEF LiveNext

\* A socket is heard only while it is the client's, and then tells nothing older than what
\* the page shows: one that a new session, a break or the timer replaced is not heard.
THEOREM OneSocketHeard == LiveSpec => [](OneAttached /\ Snapshots)
<1>1. LiveInit => PageInv
  BY PageInit
<1>2. PageInv /\ [LiveNext]_liveVars => PageInv'
  BY PageStep
<1>3. PageInv => OneAttached /\ Snapshots
  BY DEF PageInv
<1> QED BY <1>1, <1>2, <1>3, PTL DEF LiveSpec

\* ViewForward: what the page shows never goes back, over any sessions, sockets, breaks and
\* restarts of the API, unless the API has forgotten the machine.
THEOREM PageGoesForward == LiveSpec => ViewForward
<1>1. LiveInit => PageInv
  BY PageInit
<1>2. PageInv /\ [LiveNext]_liveVars => PageInv'
  BY PageStep
<1>3. PageInv /\ [LiveNext]_liveVars => [view' >= view \/ view' = 0]_liveVars
  BY PageStep
<1> QED BY <1>1, <1>2, <1>3, PTL DEF LiveSpec, ViewForward
=============================================================================
