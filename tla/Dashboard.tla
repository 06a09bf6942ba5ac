----------------------------- MODULE Dashboard -----------------------------
(***************************************************************************)
(* The session and the connection of the dashboard,                        *)
(* frontend/src/main.tsx: signing in and out, the requests that follow,    *)
(* the websocket with its callbacks, the reconnect timer, and the channel  *)
(* that is joined again after a reconnect.                                 *)
(*                                                                         *)
(* JavaScript runs one callback at a time: an action is one callback.      *)
(* The gateway answers the commands of a connection in order, so that a    *)
(* command takes effect when it is sent and its answer waits in inbox.     *)
(* Answers that change nothing here (chats, lists, errors) are left out,   *)
(* and so is a JOIN that the core refuses.  A page that is loaded again    *)
(* starts at Init.                                                         *)
(*                                                                         *)
(* An operator whose comment starts with DEFECT is a plausible mistake in  *)
(* the operator after it, which the specification does not use.            *)
(***************************************************************************)
EXTENDS Readiness, Sequences, FiniteSets

CONSTANTS
  Tokens,      \* the access tokens that the gateway hands out
  Stored,      \* the one that may be stored when the page is loaded
  Sockets,     \* WebSocket objects; one that is gone may be used again
  Channels,
  None,        \* no token, socket or channel
  MaxSignIns,  \* bound on the sign-in requests under way
  MaxInbox     \* bound on the answers under way

ASSUME DashboardAssumption ==
  /\ Stored \in Tokens
  /\ None \notin Tokens \cup Sockets \cup Channels
  /\ MaxSignIns \in Nat /\ MaxInbox \in Nat

VARIABLES
  tokenRef, allowReconnectRef, activeChannelRef, socketRef,
  connected,   \* what the dashboard shows
  sockets,     \* the WebSocket objects and the sessions behind them
  timer,       \* whether the timer in reconnectTimerRef is running
  strays,      \* timers that are running and have been overwritten there
  signIns,     \* sign-in requests under way
  checks,      \* calls of refreshStats that wait for their response
  restored,    \* restoredSessionStartedRef; true as well if nothing was stored
  issued,      \* tokens the gateway has handed out
  expired      \* tokens it refuses from now on

session == <<tokenRef, allowReconnectRef, activeChannelRef>>
connection == <<socketRef, connected, sockets>>
timers == <<timer, strays>>
requests == <<signIns, checks, restored>>
tokens == <<issued, expired>>
sessionVars == <<session, connection, timers, requests, tokens>>
vars == <<readinessVars, sessionVars>>

Messages ==
  ({"joined"} \X Channels) \cup {<<"ready">>, <<"left">>}

\* A WebSocket object that nobody will hear of again.  The rooms and the
\* active one are the core's, for the connection behind the socket.
Gone == [state |-> "gone", token |-> None, rooms |-> {}, room |-> None,
         inbox |-> <<>>]

\* One that has been closed: its events are over, but for onclose.
Closing(ws) == [Gone EXCEPT !.state = "closing", !.token = ws.token]

Live(ws) == ws.state \in {"connecting", "open"}

TypeOK ==
  /\ ReadinessTypeOK
  /\ tokenRef \in Tokens \cup {None}
  /\ allowReconnectRef \in BOOLEAN
  /\ activeChannelRef \in Channels \cup {None}
  /\ socketRef \in Sockets \cup {None}
  /\ connected \in BOOLEAN
  /\ sockets \in [Sockets ->
       [state : {"gone", "connecting", "open", "closing"},
        token : Tokens \cup {None}, rooms : SUBSET Channels,
        room : Channels \cup {None}, inbox : Seq(Messages)]]
  /\ timer \in BOOLEAN /\ strays \in Nat
  /\ signIns \in 0..MaxSignIns
  /\ checks \subseteq [token : Tokens, then : {"login", "restore", "show"}]
  /\ restored \in BOOLEAN
  /\ issued \subseteq Tokens /\ expired \subseteq issued

\* readStoredSession returns what the last page has stored, if anything.
Init ==
  /\ ReadinessInit
  /\ tokenRef \in {Stored, None}
  /\ allowReconnectRef = (tokenRef # None)
  /\ activeChannelRef = None
  /\ socketRef = None /\ connected = FALSE
  /\ sockets = [w \in Sockets |-> Gone]
  /\ timer = FALSE /\ strays = 0
  /\ signIns = 0 /\ checks = {} /\ restored = (tokenRef = None)
  /\ issued = {tokenRef} \ {None} /\ expired = {}

-----------------------------------------------------------------------------
(* connect, and the callbacks of a socket *)

\* Nothing to do without a session or with a socket that is not closed.
connect(t) ==
  IF \/ t = None \/ ~allowReconnectRef
     \/ socketRef # None /\ Live(sockets[socketRef])
  THEN UNCHANGED <<socketRef, sockets>>
  ELSE \E w \in Sockets :
         /\ sockets[w] = Gone
         /\ socketRef' = w
         /\ sockets' =
              [sockets EXCEPT ![w].state = "connecting", ![w].token = t]

\* The gateway accepts the websocket and greets it.
onopen(w) ==
  /\ sockets[w].state = "connecting" /\ sockets[w].token \notin expired
  /\ sockets' = [sockets EXCEPT ![w].state = "open",
                                ![w].inbox = <<<<"ready">>>>]
  /\ connected' = TRUE
  /\ UNCHANGED <<readinessVars, session, socketRef, timers, requests, tokens>>

\* The gateway or the network closes it; onclose is yet to run.
ClosedByPeer(w) ==
  /\ sockets[w].state = "open"
  /\ sockets' = [sockets EXCEPT ![w] = Closing(@)]
  /\ UNCHANGED <<readinessVars, session, socketRef, connected, timers,
                 requests, tokens>>

\* DEFECT: for whatever socket it is.
ForgetAny(w) ==
  socketRef' = None

Forget(w) ==
  socketRef' = IF socketRef = w THEN None ELSE socketRef

\* DEFECT: an old socket does not count.
ShowClosedOwn(w) ==
  connected' = (connected /\ socketRef # w)

ShowClosed(w) ==
  connected' = FALSE

\* A new timer; the one in reconnectTimerRef is neither stopped nor kept.
Schedule ==
  timer' = TRUE /\ strays' = strays + (IF timer THEN 1 ELSE 0)

\* The connection is over, or was never made (onerror closes it).
onclose(w) ==
  /\ sockets[w].state # "gone"
  /\ sockets' = [sockets EXCEPT ![w] = Gone]
  /\ Forget(w) /\ ShowClosed(w)
  /\ IF allowReconnectRef /\ tokenRef # None
     THEN Schedule
     ELSE UNCHANGED timers
  /\ UNCHANGED <<readinessVars, session, requests, tokens>>

\* A timer in reconnectTimerRef, or one that was overwritten there.
Reconnect ==
  /\ \/ timer /\ timer' = FALSE /\ UNCHANGED strays
     \/ strays > 0 /\ strays' = strays - 1 /\ UNCHANGED timer
  /\ connect(tokenRef)
  /\ UNCHANGED <<readinessVars, session, connected, requests, tokens>>

-----------------------------------------------------------------------------
(* The session *)

\* The sign-in page: authenticate, createToken.
SignIn ==
  /\ backendReadiness = "ready" /\ tokenRef = None
  /\ signIns < MaxSignIns /\ signIns' = signIns + 1
  /\ UNCHANGED <<readinessVars, session, connection, timers, checks, restored,
                 tokens>>

\* startSession, and the call of refreshStats after it.
SignedIn(t) ==
  /\ signIns > 0 /\ t \notin issued
  /\ signIns' = signIns - 1
  /\ tokenRef' = t /\ allowReconnectRef' = TRUE
  /\ issued' = issued \cup {t}
  /\ checks' = checks \cup {[token |-> t, then |-> "login"]}
  /\ UNCHANGED <<readinessVars, activeChannelRef, connection, timers,
                 restored, expired>>

SignInFails ==
  /\ signIns > 0 /\ signIns' = signIns - 1
  /\ UNCHANGED <<readinessVars, session, connection, timers, checks, restored,
                 tokens>>

\* The effect that runs once the backend is ready.
Restore ==
  /\ backendReadiness = "ready" /\ ~restored
  /\ restored' = TRUE
  /\ checks' = checks \cup {[token |-> Stored, then |-> "restore"]}
  /\ UNCHANGED <<readinessVars, session, connection, timers, signIns, tokens>>

\* Timers that have been overwritten go on.
logout ==
  /\ tokenRef' = None /\ allowReconnectRef' = FALSE /\ activeChannelRef' = None
  /\ timer' = FALSE /\ UNCHANGED strays
  /\ sockets' = [w \in Sockets |->
                  IF w = socketRef /\ Live(sockets[w])
                  THEN Closing(sockets[w]) ELSE sockets[w]]
  /\ socketRef' = None /\ connected' = FALSE

SignOut ==
  /\ backendReadiness = "ready" /\ tokenRef # None
  /\ logout
  /\ UNCHANGED <<readinessVars, requests, tokens>>

\* refreshStats after an event or /stats.  The callback that calls it may be
\* of an earlier render, with an earlier token.
Refresh(t) ==
  /\ backendReadiness = "ready" /\ t \in issued
  /\ checks' = checks \cup {[token |-> t, then |-> "show"]}
  /\ UNCHANGED <<readinessVars, session, connection, timers, signIns,
                 restored, tokens>>

\* DEFECT: without comparing the tokens.
ThenAny(c, valid) ==
  \/ c.then = "login"
  \/ c.then = "restore" /\ valid

\* DEFECT: a sign-in depends on the statistics, too.
ThenValid(c, valid) ==
  tokenRef = c.token /\ c.then \in {"login", "restore"} /\ valid

\* Whether the caller of refreshStats connects.
Then(c, valid) ==
  /\ tokenRef = c.token
  /\ \/ c.then = "login"
     \/ c.then = "restore" /\ valid

\* The response to GET /stats, and the caller's next step.
Refreshed(c) ==
  /\ checks' = checks \ {c}
  /\ \/ c.token \in expired /\ logout
     \/ \E valid \in BOOLEAN :
          /\ IF Then(c, valid)
             THEN connect(c.token)
             ELSE UNCHANGED <<socketRef, sockets>>
          /\ UNCHANGED <<session, timers, connected>>
  /\ UNCHANGED <<readinessVars, signIns, restored, tokens>>

\* The end of a token's life.
Expire(t) ==
  /\ t \in issued /\ expired' = expired \cup {t}
  /\ UNCHANGED <<readinessVars, session, connection, timers, requests, issued>>

-----------------------------------------------------------------------------
(* Channels *)

Answer(w, m) == Append(sockets[w].inbox, m)

\* JOIN or SWITCH on w: the gateway and the core change the channel.
Joined(w, c, rest) ==
  [sockets EXCEPT ![w].rooms = @ \cup {c}, ![w].room = c,
                  ![w].inbox = Append(rest, <<"joined", c>>)]

\* The user joins or switches to c.
Join(c) ==
  /\ socketRef # None /\ sockets[socketRef].state = "open"
  /\ Len(sockets[socketRef].inbox) < MaxInbox
  /\ sockets' = Joined(socketRef, c, sockets[socketRef].inbox)
  /\ UNCHANGED <<readinessVars, session, socketRef, connected, timers,
                 requests, tokens>>

\* The user leaves c, which may not be the active channel.
Leave(c) ==
  /\ socketRef # None /\ sockets[socketRef].state = "open"
  /\ c \in sockets[socketRef].rooms
  /\ Len(sockets[socketRef].inbox) < MaxInbox
  /\ sockets' = [sockets EXCEPT
                  ![socketRef].rooms = @ \ {c},
                  ![socketRef].room = IF @ = c THEN None ELSE @,
                  ![socketRef].inbox = Append(@, <<"left">>)]
  /\ UNCHANGED <<readinessVars, session, socketRef, connected, timers,
                 requests, tokens>>

\* DEFECT: the channel is not joined again.
RejoinNothing(w, rest) ==
  sockets' = [sockets EXCEPT ![w].inbox = rest]

\* The first message of a connection.
Rejoin(w, rest) ==
  sockets' = IF activeChannelRef # None
             THEN Joined(w, activeChannelRef, rest)
             ELSE [sockets EXCEPT ![w].inbox = rest]

handleGatewayEvent(w) ==
  /\ sockets[w].state = "open" /\ sockets[w].inbox # <<>>
  /\ LET event == Head(sockets[w].inbox)
         rest  == Tail(sockets[w].inbox)
     IN  \/ event[1] = "ready" /\ Rejoin(w, rest)
            /\ UNCHANGED activeChannelRef
         \/ /\ event[1] = "joined" /\ activeChannelRef' = event[2]
            /\ sockets' = [sockets EXCEPT ![w].inbox = rest]
         \/ /\ event[1] = "left" /\ activeChannelRef' = None
            /\ sockets' = [sockets EXCEPT ![w].inbox = rest]
  /\ UNCHANGED <<readinessVars, tokenRef, allowReconnectRef, socketRef,
                 connected, timers, requests, tokens>>

-----------------------------------------------------------------------------
Callback ==
  \/ Reconnect \/ SignInFails \/ Restore
  \/ \E w \in Sockets : onopen(w) \/ onclose(w) \/ handleGatewayEvent(w)
  \/ \E t \in Tokens : SignedIn(t)
  \/ \E c \in checks : Refreshed(c)

User ==
  \/ SignIn \/ SignOut
  \/ \E c \in Channels : Join(c) \/ Leave(c)

Environment ==
  \/ \E w \in Sockets : ClosedByPeer(w)
  \/ \E t \in Tokens : Refresh(t) \/ Expire(t)

Next ==
  \/ ReadinessNext /\ UNCHANGED sessionVars
  \/ Callback
  \/ User
  \/ Environment

\* The connection has ended, or the gateway refuses its token.
Over(ws) ==
  \/ ws.state = "closing"
  \/ ws.state = "connecting" /\ ws.token \in expired

\* Timers run down, effects run, requests are answered, and onclose follows
\* the end of a connection.  A gateway that is tried again and again accepts
\* some connection.  Nothing is assumed of the user.
Fairness ==
  /\ ReadinessFairness
  /\ WF_vars(Reconnect)
  /\ \A c \in [token : Tokens, then : {"login", "restore"}] :
       WF_vars(c \in checks /\ Refreshed(c))
  /\ \A w \in Sockets : WF_vars(Over(sockets[w]) /\ onclose(w))
  /\ SF_vars(\E w \in Sockets : onopen(w))

Spec == Init /\ [][Next]_vars /\ Fairness

-----------------------------------------------------------------------------
(* Properties *)

\* At most one socket is connecting or open: the one in socketRef, and only
\* while somebody is signed in.  The callbacks of older sockets and timers
\* (onclose, the reconnect timer) never lose it nor make a second one.
OneLiveSocket ==
  \A w \in Sockets :
    Live(sockets[w]) => w = socketRef /\ tokenRef # None /\ allowReconnectRef

\* A socket is opened with the token of the session that is current then,
\* although the requests and timers that lead to connect may be older.
OpenedForSession ==
  [][\A w \in Sockets :
       sockets'[w].state = "connecting" /\ sockets[w].state # "connecting"
         => sockets'[w].token = tokenRef]_vars

\* The dashboard does not show a connection when there is none: some socket
\* is open, or onclose is about to correct it.
NoFalseConnected ==
  connected => \E w \in Sockets : sockets[w].state \in {"open", "closing"}

\* When no answer is under way, the channel that the dashboard shows as
\* active is the one in which the core would post a chat, also after a
\* reconnect.
ActiveChannelHolds ==
  socketRef # None =>
    LET ws == sockets[socketRef]
    IN  ws.state = "open" /\ ws.inbox = <<>> /\ activeChannelRef # None
          => activeChannelRef = ws.room

\* A session gets its connection, and gets it back after every loss, until
\* the user signs out or the token expires.  A session restored from storage
\* connects for the first time only if GET /stats succeeds (restored session
\* effect), so that it is included from its first socket on.
Reconnects ==
  \A t \in Tokens :
    (tokenRef = t /\ (t # Stored \/ socketRef # None))
      ~> \/ socketRef # None /\ sockets[socketRef].state = "open"
         \/ tokenRef # t
         \/ t \in expired
=============================================================================
