-------------------------------- MODULE LiveView --------------------------------
(***************************************************************************)
(* A page of the dashboard that shows a machine live: the session in       *)
(* AuthContext, TwinWebSocketClient with its sockets and its timer, and    *)
(* the API's side of a socket.  A twin is the number of its last update.   *)
(* The API never broadcasts: its callbacks run on the MQTT thread, which   *)
(* has no event loop, so a socket carries the snapshot sent at its start.  *)
(***************************************************************************)
EXTENDS Integers, FiniteSetsExt, Sequences, SequencesExt

CONSTANTS
    MaxLogins,   \* bound: the tokens
    MaxSockets,  \* bound: the sockets at a time, as long as either end has one
    MaxCalls,    \* bound: the requests in flight
    MaxUpdates,  \* bound: the twin's updates
    MaxBreaks    \* bound: the breaks and restarts

ASSUME LiveAssumption == MaxSockets \in Nat

VARIABLES
    token,    \* the session's token, in the state and in localStorage; 0: logged out
    logins,
    valid,    \* the tokens the API accepts
    calls,    \* requests in flight: what they ask, with which token
    client,   \* TwinWebSocketClient: its token, its status, its timer, its socket; 0: none
    sockets,  \* the sockets: their token, both their ends, handlers, snapshots under way
    twin,     \* TwinService._states of the machine; 0: not tracked
    updates,
    view,     \* the twin the page shows
    breaks

session == <<token, logins, valid, calls>>
liveVars == <<session, client, sockets, twin, updates, view, breaks>>

-----------------------------------------------------------------------------
(* AuthContext, client.ts and the API's check of a token *)

\* get_current_user and get_current_ws_user: what is in the token is not trusted beyond the
\* name, whose row is read each time, but never again for a socket that is open.
current_user(t) == t \in valid
current_ws_user(t) == t \in valid

\* login stores the token, and asks for the profile.
Login ==
    /\ token = 0 /\ logins < MaxLogins
    /\ logins' = logins + 1 /\ token' = logins'
    /\ valid' = valid \cup {logins'}
    /\ calls' = calls \cup {[asks |-> "me", token |-> logins']}
    /\ UNCHANGED <<client, sockets, twin, updates, view, breaks>>

\* A token expires, or its account is deactivated.
Expires(t) ==
    /\ t \in valid
    /\ valid' = valid \ {t}
    /\ UNCHANGED <<token, logins, calls, client, sockets, twin, updates, view, breaks>>

Call ==
    /\ token # 0 /\ Cardinality(calls) < MaxCalls
    /\ calls' = calls \cup {[asks |-> "data", token |-> token]}
    /\ UNCHANGED <<token, logins, valid, client, sockets, twin, updates, view, breaks>>

logout == token' = 0

\* The answer: 401 for a token that is not valid, and then whoever is logged in is logged
\* out; so is he when the profile cannot be had, for whatever reason.
Answered(c) ==
    /\ calls' = calls \ {c}
    /\ \/ current_user(c.token) /\ UNCHANGED token
       \/ (current_user(c.token) => c.asks = "me") /\ logout
    /\ UNCHANGED <<logins, valid, client, sockets, twin, updates, view, breaks>>

\* "Log out".
Logout ==
    /\ token # 0 /\ logout
    /\ UNCHANGED <<logins, valid, calls, client, sockets, twin, updates, view, breaks>>

-----------------------------------------------------------------------------
(* TwinWebSocketClient and useTwinWebSocket *)

\* Mutant: the socket is only forgotten.
cleanupForgets == sockets

\* What is left of the sockets: the client's has no handlers any more and is closed.
cleanup ==
    IF client.socket = 0 THEN sockets
    ELSE [sockets EXCEPT ![client.socket].attached = FALSE, ![client.socket].page = "closed"]

Free == {s \in DOMAIN sockets : /\ sockets[s].page = "closed" /\ sockets[s].inbox = <<>>
                                /\ sockets[s].api \in {"refused", "lost", "ended"}}

\* The client, with that token, after the cleanup; without one it stays DISCONNECTED.
connect(t) ==
    IF t = 0
      THEN /\ client' = [token |-> t, status |-> "DISCONNECTED", timer |-> FALSE, socket |-> 0]
           /\ sockets' = cleanup
      ELSE /\ Free # {}
           /\ client' = [token |-> t, status |-> "CONNECTING", timer |-> FALSE,
                         socket |-> Min(Free)]
           /\ sockets' = [cleanup EXCEPT ![Min(Free)] =
                            [token |-> t, page |-> "connecting", api |-> "asked",
                             attached |-> TRUE, inbox |-> <<>>]]

\* The effect of a new token: the old client is disposed, a new one connects.
Render ==
    /\ client.token # token /\ connect(token)
    /\ UNCHANGED <<session, twin, updates, view, breaks>>

\* The timer of scheduleReconnect.
Reconnect ==
    /\ client.timer /\ connect(client.token)
    /\ UNCHANGED <<session, twin, updates, view, breaks>>

Ours(s) == sockets[s].attached

OnOpen(s) ==
    /\ Ours(s) /\ sockets[s].page = "connecting" /\ sockets[s].api = "registered"
    /\ sockets' = [sockets EXCEPT ![s].page = "open"]
    /\ client' = [client EXCEPT !.status = "CONNECTED"]
    /\ UNCHANGED <<session, twin, updates, view, breaks>>

\* handleMessage; a socket without handlers drops it.
OnMessage(s) ==
    /\ sockets[s].inbox # <<>> /\ (Ours(s) => sockets[s].page = "open")
    /\ sockets' = [sockets EXCEPT ![s].inbox = Tail(@)]
    /\ view' = IF Ours(s) THEN Head(sockets[s].inbox) ELSE view
    /\ UNCHANGED <<session, client, twin, updates, breaks>>

\* Mutant: a socket that never opened is not tried again.
CloseOpened(s) ==
    client' = [client EXCEPT !.status = "DISCONNECTED", !.timer = sockets[s].page = "open"]

\* onerror, if any, and onclose: whatever the reason, since a socket the API refuses before
\* it accepts it closes with 1006, never with 1008.
Close(s) == client' = [client EXCEPT !.status = "DISCONNECTED", !.timer = TRUE]

OnClose(s) ==
    /\ Ours(s) /\ sockets[s].page # "closed" /\ sockets[s].api \in {"refused", "lost"}
    /\ sockets' = [sockets EXCEPT ![s].page = "closed", ![s].inbox = <<>>]
    /\ Close(s)
    /\ UNCHANGED <<session, twin, updates, view, breaks>>

-----------------------------------------------------------------------------
(* ws/router.py, the connection manager, and the twin *)

\* get_current_ws_user; the client is registered, and the snapshot of that moment sent.
Accept(s) ==
    /\ sockets[s].api = "asked"
    /\ sockets' = IF current_ws_user(sockets[s].token)
                    THEN [sockets EXCEPT ![s].api = "registered", ![s].inbox = <<twin>>]
                    ELSE [sockets EXCEPT ![s].api = "refused"]
    /\ UNCHANGED <<session, client, twin, updates, view, breaks>>

\* The API learns that the page has closed the socket: disconnect.
Ends(s) ==
    /\ sockets[s].page = "closed" /\ sockets[s].api \in {"asked", "registered"}
    /\ sockets' = [sockets EXCEPT ![s].api = "ended"]
    /\ UNCHANGED <<session, client, twin, updates, view, breaks>>

Update ==
    /\ updates < MaxUpdates
    /\ updates' = updates + 1 /\ twin' = updates'
    /\ UNCHANGED <<session, client, sockets, view, breaks>>

\* Connections break, one, or all of them with the API, which then tracks no machine.
Lose(S) ==
    sockets' = [s \in DOMAIN sockets |->
                  IF s \in S /\ sockets[s].api \in {"asked", "registered"}
                    THEN [sockets[s] EXCEPT !.api = "lost"] ELSE sockets[s]]

Breaks ==
    /\ breaks < MaxBreaks /\ breaks' = breaks + 1
    /\ \/ \E s \in DOMAIN sockets : Lose({s}) /\ UNCHANGED twin
       \/ Lose(DOMAIN sockets) /\ twin' = 0
    /\ UNCHANGED <<session, client, updates, view>>

-----------------------------------------------------------------------------
LiveInit ==
    /\ token = 0 /\ logins = 0 /\ valid = {} /\ calls = {}
    /\ client = [token |-> 0, status |-> "DISCONNECTED", timer |-> FALSE, socket |-> 0]
    /\ sockets = [s \in 1 .. MaxSockets |-> [token |-> 0, page |-> "closed", api |-> "ended",
                                             attached |-> FALSE, inbox |-> <<>>]]
    /\ twin = 0 /\ updates = 0 /\ view = 0 /\ breaks = 0

Sockets(s) == OnOpen(s) \/ OnMessage(s) \/ OnClose(s) \/ Accept(s) \/ Ends(s)

LiveNext ==
    \/ Login \/ Call \/ Logout \/ Render \/ Reconnect \/ Update \/ Breaks
    \/ \E t \in valid : Expires(t)
    \/ \E c \in calls : Answered(c)
    \/ \E s \in DOMAIN sockets : Sockets(s)

\* The browser runs its effects, timers and events; the API answers a handshake and notices
\* an end.
LiveFairness ==
    /\ WF_liveVars(Render) /\ WF_liveVars(Reconnect)
    /\ \A s \in 1 .. MaxSockets : WF_liveVars(Sockets(s))

-----------------------------------------------------------------------------
(* Properties *)

\* What the page shows never goes back to an earlier state of the machine, whatever sockets
\* of earlier sessions still deliver: it is newer, or the API has forgotten the machine.
ViewForward == [][view' >= view \/ view' = 0]_liveVars

\* A page with a session that lasts is CONNECTED in the end, after whatever broke; and the
\* API does not keep a connection the page has left.
Reconnects ==
    /\ <>[](token # 0 /\ token \in valid) => <>[](client.status = "CONNECTED")
    /\ \A s \in 1 .. MaxSockets :
         sockets[s].page = "closed" ~> sockets[s].api \notin {"asked", "registered"}
=============================================================================
