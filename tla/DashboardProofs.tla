-------------------------- MODULE DashboardProofs --------------------------
(***************************************************************************)
(* Proofs about Dashboard, for any tokens, sockets, channels and number of *)
(* attempts: the state has its shape, there is one live socket at most, it *)
(* is opened for the session that is current, and no connection and no     *)
(* active channel is shown that is not there.                              *)
(*                                                                         *)
(* What is added to make them inductive: allowReconnectRef says the same   *)
(* as tokenRef, and a retry is planned only while attempts are left.       *)
(***************************************************************************)
EXTENDS Dashboard, SequenceTheorems, TLAPS

Objects ==
  [state : {"gone", "connecting", "open", "closing"},
   token : Tokens \cup {None}, rooms : SUBSET Channels,
   room : Channels \cup {None}, inbox : Seq(Messages)]

ThenCalls == [token : Tokens, then : {"login", "restore", "show"}]

RetriesLeft == retry => attempt < MaxAttempts

\* The session and the requests, as TypeOK has them.
SessionShape ==
  /\ tokenRef \in Tokens \cup {None} /\ allowReconnectRef \in BOOLEAN
  /\ activeChannelRef \in Channels \cup {None}
  /\ connected \in BOOLEAN /\ timer \in BOOLEAN /\ strays \in Nat
  /\ signIns \in 0..MaxSignIns /\ checks \subseteq ThenCalls
  /\ restored \in BOOLEAN /\ issued \subseteq Tokens /\ expired \subseteq issued
  /\ allowReconnectRef = (tokenRef # None)

\* The sockets, whose life is what the properties are about.
SocketShape ==
  /\ socketRef \in Sockets \cup {None}
  /\ sockets \in [Sockets -> Objects]
  /\ OneLiveSocket /\ NoFalseConnected

IInv == ReadinessTypeOK /\ RetriesLeft /\ SessionShape /\ SocketShape

LEMMA IInvImplies == IInv => TypeOK /\ OneLiveSocket /\ NoFalseConnected
BY DEF IInv, TypeOK, SessionShape, SocketShape, Objects, ThenCalls

-----------------------------------------------------------------------------
(* The check at the start *)

LEMMA AttemptFailsKept ==
  ASSUME ReadinessTypeOK, RetriesLeft, AttemptFails
  PROVE  ReadinessTypeOK' /\ RetriesLeft'
<1>1. CASE attempt >= MaxAttempts
  <2>1. ~retry
    BY <1>1, ReadinessAssumption DEF ReadinessTypeOK, RetriesLeft
  <2> QED
    BY <1>1, <2>1 DEF ReadinessTypeOK, RetriesLeft, AttemptFails
<1>2. CASE ~(attempt >= MaxAttempts)
  BY <1>2, ReadinessAssumption DEF ReadinessTypeOK, RetriesLeft, AttemptFails
<1> QED
  BY <1>1, <1>2

LEMMA ReadinessKept ==
  ASSUME ReadinessTypeOK, RetriesLeft, ReadinessNext
  PROVE  ReadinessTypeOK' /\ RetriesLeft'
<1>1. CASE AttemptFails
  BY <1>1, AttemptFailsKept
<1>2. CASE /\ request' \in {"none", "body"}
           /\ backendReadiness' \in {backendReadiness, "ready"}
           /\ UNCHANGED <<attempt, retry>>
  BY <1>2 DEF ReadinessTypeOK, RetriesLeft
<1>3. CASE Retry
  <2>1. attempt' \in 1..MaxAttempts
    BY <1>3, ReadinessAssumption DEF Retry, ReadinessTypeOK, RetriesLeft
  <2>2. request' = "response" /\ retry' = FALSE /\ UNCHANGED backendReadiness
    BY <1>3 DEF Retry
  <2> QED
    BY <2>1, <2>2 DEF ReadinessTypeOK, RetriesLeft
<1>4. CASE TryAgain
  <2>1. 1 \in 1..MaxAttempts
    BY ReadinessAssumption
  <2> QED
    BY <1>4, <2>1 DEF TryAgain, ReadinessTypeOK, RetriesLeft
<1> QED
  BY <1>1, <1>2, <1>3, <1>4 DEF ReadinessNext, Responds, BodyRead, TimesOut

LEMMA ReadinessSame ==
  ASSUME ReadinessTypeOK, RetriesLeft, UNCHANGED readinessVars
  PROVE  ReadinessTypeOK' /\ RetriesLeft'
BY DEF ReadinessTypeOK, RetriesLeft, readinessVars

-----------------------------------------------------------------------------
(* One socket object *)

LEMMA GoneIs == Gone \in Objects /\ Gone.state = "gone"
<1>1. <<>> \in Seq(Messages)
  BY EmptySeq
<1> QED
  BY <1>1 DEF Gone, Objects

LEMMA ClosingIs ==
  ASSUME NEW o \in Objects
  PROVE  Closing(o) \in Objects /\ Closing(o).state = "closing"
<1>1. <<>> \in Seq(Messages)
  BY EmptySeq
<1> QED
  BY <1>1 DEF Closing, Gone, Objects

LEMMA ConnectingIs ==
  ASSUME NEW o \in Objects, NEW t \in Tokens
  PROVE  LET r == [o EXCEPT !.state = "connecting", !.token = t]
         IN  r \in Objects /\ r.state = "connecting" /\ r.token = t
BY DEF Objects

LEMMA OpenIs ==
  ASSUME NEW o \in Objects
  PROVE  LET r == [o EXCEPT !.state = "open", !.inbox = <<<<"ready">>>>]
         IN  r \in Objects /\ r.state = "open"
<1>1. <<"ready">> \in Messages
  BY DEF Messages
<1>2. <<<<"ready">>>> \in Seq(Messages)
  BY <1>1
<1> QED
  BY <1>2 DEF Objects

\* Other messages, or another room: the life of the socket is the same.
LEMMA InboxIs ==
  ASSUME NEW o \in Objects, NEW box \in Seq(Messages)
  PROVE  LET r == [o EXCEPT !.inbox = box]
         IN  r \in Objects /\ r.state = o.state
BY DEF Objects

Moved(o, rooms, room, box) ==
  [o EXCEPT !.rooms = rooms, !.room = room, !.inbox = box]

LEMMA RoomIs ==
  ASSUME NEW o \in Objects, NEW rooms \in SUBSET Channels,
         NEW room \in Channels \cup {None}, NEW box \in Seq(Messages)
  PROVE  /\ Moved(o, rooms, room, box) \in Objects
         /\ Moved(o, rooms, room, box).state = o.state
BY DEF Objects, Moved

\* A step that changes one socket, and what it must not do to it.
LEMMA OneSocket ==
  ASSUME SocketShape, NEW w \in Sockets, NEW o \in Objects,
         sockets' = [sockets EXCEPT ![w] = o],
         Live(o) => Live(sockets[w]),
         o.state \in {"open", "closing"} \/ sockets[w].state \notin {"open", "closing"},
         UNCHANGED <<socketRef, connected, tokenRef, allowReconnectRef>>
  PROVE  SocketShape'
<1>1. /\ sockets' \in [Sockets -> Objects] /\ sockets'[w] = o
      /\ \A v \in Sockets : v # w => sockets'[v] = sockets[v]
  BY DEF SocketShape
<1>2. OneLiveSocket'
  BY <1>1 DEF SocketShape, OneLiveSocket
<1>3. NoFalseConnected'
  BY <1>1 DEF SocketShape, NoFalseConnected
<1> QED
  BY <1>1, <1>2, <1>3 DEF SocketShape

LEMMA SocketsSame ==
  ASSUME SocketShape, UNCHANGED <<sockets, socketRef, connected>>,
         tokenRef # None /\ allowReconnectRef => tokenRef' # None /\ allowReconnectRef'
  PROVE  SocketShape'
BY DEF SocketShape, OneLiveSocket, NoFalseConnected

\* connect opens a socket of the session, if there is none yet.
LEMMA connectKept ==
  ASSUME SessionShape, SocketShape, NEW t \in Tokens \cup {None}, connect(t),
         UNCHANGED <<connected, tokenRef, allowReconnectRef>>
  PROVE  /\ SocketShape'
         /\ \A w \in Sockets :
              sockets'[w].state = "connecting" /\ sockets[w].state # "connecting"
                => sockets'[w].token = t
<1>1. CASE UNCHANGED <<socketRef, sockets>>
  BY <1>1, SocketsSame
<1>2. CASE ~UNCHANGED <<socketRef, sockets>>
  <2>1. PICK w \in Sockets :
          /\ sockets[w] = Gone /\ socketRef' = w
          /\ sockets' =
               [sockets EXCEPT ![w].state = "connecting", ![w].token = t]
    BY <1>2 DEF connect
  <2>2. /\ t \in Tokens /\ allowReconnectRef
        /\ ~(socketRef # None /\ Live(sockets[socketRef]))
    BY <1>2 DEF connect
  <2> DEFINE o == [sockets[w] EXCEPT !.state = "connecting", !.token = t]
  <2>3. o \in Objects /\ o.state = "connecting" /\ o.token = t
    BY <2>2, ConnectingIs DEF SocketShape
  <2>4. sockets' = [sockets EXCEPT ![w] = o]
    BY <2>1 DEF SocketShape, Objects
  <2> HIDE DEF o
  <2>5. /\ sockets' \in [Sockets -> Objects] /\ sockets'[w] = o
        /\ \A v \in Sockets : v # w => sockets'[v] = sockets[v]
    BY <2>3, <2>4 DEF SocketShape
  <2>6. \A v \in Sockets : ~Live(sockets[v])
    BY <2>2, DashboardAssumption DEF SocketShape, OneLiveSocket
  <2>7. tokenRef # None
    BY <2>2 DEF SessionShape
  <2>8. OneLiveSocket'
    BY <2>1, <2>2, <2>5, <2>6, <2>7 DEF OneLiveSocket
  <2>9. NoFalseConnected'
    <3>1. sockets[w].state = "gone"
      BY <2>1, GoneIs
    <3> QED
      BY <2>5, <3>1 DEF SocketShape, NoFalseConnected
  <2> QED
    BY <2>1, <2>3, <2>5, <2>8, <2>9 DEF SocketShape
<1> QED
  BY <1>1, <1>2

LEMMA logoutKept ==
  ASSUME SocketShape, logout
  PROVE  /\ SocketShape'
         /\ \A w \in Sockets : ~Live(sockets'[w])
<1>1. ASSUME NEW w \in Sockets
      PROVE  sockets'[w] \in Objects /\ ~Live(sockets'[w])
  <2>1. CASE w = socketRef /\ Live(sockets[w])
    <3>1. sockets'[w] = Closing(sockets[w]) /\ sockets[w] \in Objects
      BY <2>1 DEF logout, SocketShape
    <3> QED
      BY <3>1, ClosingIs DEF Live
  <2>2. CASE ~(w = socketRef /\ Live(sockets[w]))
    <3>1. sockets'[w] = sockets[w] /\ sockets[w] \in Objects
      BY <2>2 DEF logout, SocketShape
    <3>2. ~Live(sockets[w])
      BY <2>2 DEF SocketShape, OneLiveSocket
    <3> QED
      BY <3>1, <3>2
  <2> QED
    BY <2>1, <2>2
<1>2. sockets' \in [Sockets -> Objects]
  BY <1>1 DEF logout
<1>3. OneLiveSocket' /\ NoFalseConnected'
  BY <1>1 DEF OneLiveSocket, NoFalseConnected, logout
<1> QED
  BY <1>1, <1>2, <1>3 DEF SocketShape, logout

-----------------------------------------------------------------------------
(* The callbacks of a socket *)

\* What each step has to see to; a step opens a socket only for the session.
ForSession ==
  \A w \in Sockets :
    sockets'[w].state = "connecting" /\ sockets[w].state # "connecting"
      => sockets'[w].token = tokenRef

LEMMA OneSocketForSession ==
  ASSUME SocketShape, NEW w \in Sockets, NEW o,
         sockets' = [sockets EXCEPT ![w] = o],
         o.state = "connecting" => sockets[w].state = "connecting"
  PROVE  ForSession
BY DEF SocketShape, ForSession

Step == IInv' /\ ForSession

LEMMA onopenStep ==
  ASSUME IInv, NEW w \in Sockets, onopen(w)
  PROVE  Step
<1> DEFINE o == [sockets[w] EXCEPT !.state = "open", !.inbox = <<<<"ready">>>>]
<1>1. o \in Objects /\ o.state = "open"
  BY OpenIs DEF IInv, SocketShape
<1>2. sockets' = [sockets EXCEPT ![w] = o]
  BY DEF onopen, IInv, SocketShape, Objects
<1> HIDE DEF o
<1>3. /\ sockets' \in [Sockets -> Objects] /\ sockets'[w] = o
      /\ \A v \in Sockets : v # w => sockets'[v] = sockets[v]
  BY <1>1, <1>2 DEF IInv, SocketShape
<1>4. Live(sockets[w])
  BY DEF onopen, Live
<1>5. OneLiveSocket' /\ NoFalseConnected'
  BY <1>1, <1>3, <1>4
     DEF onopen, session, IInv, SocketShape, OneLiveSocket, NoFalseConnected
<1>6. SocketShape'
  BY <1>3, <1>5 DEF onopen, IInv, SocketShape
<1>7. SessionShape'
  BY DEF onopen, session, timers, requests, tokens, IInv, SessionShape
<1>8. ForSession
  BY <1>1, <1>2, OneSocketForSession DEF IInv
<1> QED
  BY <1>6, <1>7, <1>8, ReadinessSame DEF Step, IInv, onopen

LEMMA ClosedByPeerStep ==
  ASSUME IInv, NEW w \in Sockets, ClosedByPeer(w)
  PROVE  Step
<1> DEFINE o == Closing(sockets[w])
<1>1. o \in Objects /\ o.state = "closing"
  BY ClosingIs DEF IInv, SocketShape
<1>2. sockets' = [sockets EXCEPT ![w] = o]
  BY DEF ClosedByPeer
<1> HIDE DEF o
<1>3. SocketShape'
  BY <1>1, <1>2, OneSocket DEF ClosedByPeer, session, IInv, Live
<1>4. SessionShape'
  BY DEF ClosedByPeer, session, timers, requests, tokens, IInv, SessionShape
<1>5. ForSession
  BY <1>1, <1>2, OneSocketForSession DEF IInv
<1> QED
  BY <1>3, <1>4, <1>5, ReadinessSame DEF Step, IInv, ClosedByPeer

LEMMA oncloseStep ==
  ASSUME IInv, NEW w \in Sockets, onclose(w)
  PROVE  Step
<1>1. /\ sockets' = [sockets EXCEPT ![w] = Gone]
      /\ socketRef' = IF socketRef = w THEN None ELSE socketRef
      /\ connected' = FALSE
      /\ UNCHANGED <<readinessVars, session, requests, tokens>>
  BY DEF onclose, Forget, ShowClosed
<1>2. /\ sockets' \in [Sockets -> Objects] /\ sockets'[w] = Gone
      /\ \A v \in Sockets : v # w => sockets'[v] = sockets[v]
  BY <1>1, GoneIs DEF IInv, SocketShape
<1>3. ~Live(Gone)
  BY GoneIs DEF Live
<1>4. OneLiveSocket' /\ NoFalseConnected'
  BY <1>1, <1>2, <1>3
     DEF session, IInv, SocketShape, OneLiveSocket, NoFalseConnected
<1>5. SocketShape'
  BY <1>1, <1>2, <1>4 DEF IInv, SocketShape
<1>6. timer' \in BOOLEAN /\ strays' \in Nat
  <2>1. timer \in BOOLEAN /\ strays \in Nat
    BY DEF IInv, SessionShape
  <2>2. CASE Schedule
    <3>1. strays + 1 \in Nat /\ strays + 0 \in Nat
      BY <2>1
    <3> QED
      BY <2>2, <3>1, Zenon DEF Schedule
  <2>3. CASE UNCHANGED timers
    BY <2>1, <2>3 DEF timers
  <2> QED
    BY <2>2, <2>3 DEF onclose
<1>7. SessionShape'
  BY <1>1, <1>6 DEF session, requests, tokens, IInv, SessionShape
<1>8. ForSession
  BY <1>1, GoneIs, OneSocketForSession DEF IInv
<1> QED
  BY <1>1, <1>5, <1>7, <1>8, ReadinessSame DEF Step, IInv

LEMMA ReconnectStep ==
  ASSUME IInv, Reconnect
  PROVE  Step
<1>1. timer' \in BOOLEAN /\ strays' \in Nat
  <2>1. timer \in BOOLEAN /\ strays \in Nat
    BY DEF IInv, SessionShape
  <2>2. strays > 0 => strays - 1 \in Nat
    BY <2>1
  <2> QED
    BY <2>1, <2>2, Zenon DEF Reconnect
<1>2. SessionShape'
  BY <1>1 DEF Reconnect, session, requests, tokens, IInv, SessionShape
<1>3. SocketShape' /\ ForSession
  BY connectKept DEF Reconnect, session, IInv, SessionShape, ForSession
<1> QED
  BY <1>2, <1>3, ReadinessSame DEF Step, IInv, Reconnect

-----------------------------------------------------------------------------
(* The session *)

\* A step that is not about sockets.
LEMMA OtherStep ==
  ASSUME IInv, UNCHANGED <<readinessVars, connection>>, SessionShape',
         tokenRef # None => tokenRef' # None
  PROVE  Step
<1>1. SocketShape'
  <2>1. tokenRef # None /\ allowReconnectRef => tokenRef' # None /\ allowReconnectRef'
    BY DEF SessionShape
  <2> QED
    BY <2>1, SocketsSame DEF IInv, connection
<1>2. ForSession
  BY DEF ForSession, connection
<1> QED
  BY <1>1, <1>2, ReadinessSame DEF Step, IInv

LEMMA SignInStep ==
  ASSUME IInv, SignIn \/ SignInFails
  PROVE  Step
<1>1. signIns' \in 0..MaxSignIns
  BY DashboardAssumption DEF SignIn, SignInFails, IInv, SessionShape
<1>2. SessionShape' /\ UNCHANGED <<readinessVars, connection, tokenRef>>
  BY <1>1 DEF SignIn, SignInFails, session, timers, tokens, connection, IInv,
              SessionShape
<1> QED
  BY <1>2, OtherStep

LEMMA SignedInStep ==
  ASSUME IInv, NEW t \in Tokens, SignedIn(t)
  PROVE  Step
<1>1. signIns' \in 0..MaxSignIns
  BY DashboardAssumption DEF SignedIn, IInv, SessionShape
<1>2. tokenRef' = t /\ t # None /\ allowReconnectRef' = TRUE
  BY DashboardAssumption DEF SignedIn
<1>3. checks' \subseteq ThenCalls
  BY DEF SignedIn, IInv, SessionShape, ThenCalls
<1>4. SessionShape' /\ UNCHANGED <<readinessVars, connection>>
  BY <1>1, <1>2, <1>3
     DEF SignedIn, timers, connection, IInv, SessionShape
<1> QED
  BY <1>2, <1>4, OtherStep

LEMMA RestoreStep ==
  ASSUME IInv, Restore
  PROVE  Step
<1>1. checks' \subseteq ThenCalls
  BY DashboardAssumption DEF Restore, IInv, SessionShape, ThenCalls
<1>2. SessionShape' /\ UNCHANGED <<readinessVars, connection, tokenRef>>
  BY <1>1 DEF Restore, session, timers, tokens, connection, IInv, SessionShape
<1> QED
  BY <1>2, OtherStep

LEMMA RefreshStep ==
  ASSUME IInv, NEW t \in Tokens, Refresh(t)
  PROVE  Step
<1>1. checks' \subseteq ThenCalls
  BY DEF Refresh, IInv, SessionShape, ThenCalls
<1>2. SessionShape' /\ UNCHANGED <<readinessVars, connection, tokenRef>>
  BY <1>1 DEF Refresh, session, timers, tokens, connection, IInv, SessionShape
<1> QED
  BY <1>2, OtherStep

LEMMA ExpireStep ==
  ASSUME IInv, NEW t \in Tokens, Expire(t)
  PROVE  Step
<1>1. SessionShape' /\ UNCHANGED <<readinessVars, connection, tokenRef>>
  BY DEF Expire, session, timers, requests, connection, IInv, SessionShape
<1> QED
  BY <1>1, OtherStep

LEMMA logoutStep ==
  ASSUME IInv, logout, checks' \subseteq ThenCalls,
         UNCHANGED <<readinessVars, signIns, restored, tokens>>
  PROVE  Step
<1>1. SocketShape' /\ \A w \in Sockets : ~Live(sockets'[w])
  BY logoutKept DEF IInv
<1>2. SessionShape'
  BY DEF logout, tokens, IInv, SessionShape
<1>3. ForSession
  BY <1>1 DEF ForSession, Live
<1> QED
  BY <1>1, <1>2, <1>3, ReadinessSame DEF Step, IInv

LEMMA SignOutStep ==
  ASSUME IInv, SignOut
  PROVE  Step
<1>1. checks' \subseteq ThenCalls
  BY DEF SignOut, requests, IInv, SessionShape
<1> QED
  BY <1>1, logoutStep DEF SignOut, requests

\* A response is acted upon only if it is of the session that goes on.
LEMMA RefreshedStep ==
  ASSUME IInv, NEW c \in checks, Refreshed(c)
  PROVE  Step
<1>1. checks' \subseteq ThenCalls
  BY DEF Refreshed, IInv, SessionShape
<1>2. CASE logout
  BY <1>1, <1>2, logoutStep DEF Refreshed
<1>3. CASE /\ UNCHANGED <<session, timers, connected>>
           /\ \E valid \in BOOLEAN :
                IF Then(c, valid) THEN connect(c.token)
                ELSE UNCHANGED <<socketRef, sockets>>
  <2>1. SessionShape'
    BY <1>1, <1>3
       DEF Refreshed, session, timers, tokens, IInv, SessionShape
  <2>2. c.token \in Tokens
    BY DEF IInv, SessionShape, ThenCalls
  <2>3. CASE connect(c.token) /\ tokenRef = c.token
    <3>1. SocketShape' /\ ForSession
      BY <1>3, <2>2, <2>3, connectKept DEF session, IInv, ForSession
    <3> QED
      BY <2>1, <3>1, ReadinessSame DEF Step, IInv, Refreshed
  <2>4. CASE UNCHANGED <<socketRef, sockets>>
    BY <1>3, <2>1, <2>4, OtherStep DEF Refreshed, connection, session
  <2> QED
    BY <1>3, <2>3, <2>4 DEF Then
<1> QED
  BY <1>2, <1>3 DEF Refreshed

-----------------------------------------------------------------------------
(* Channels *)

\* A step that changes the rooms and messages of one socket.
LEMMA TalkStep ==
  ASSUME IInv, NEW w \in Sockets, NEW o \in Objects, o.state = sockets[w].state,
         sockets' = [sockets EXCEPT ![w] = o],
         activeChannelRef' \in Channels \cup {None},
         UNCHANGED <<readinessVars, tokenRef, allowReconnectRef, socketRef,
                     connected, timers, requests, tokens>>
  PROVE  Step
<1>1. SocketShape'
  BY OneSocket DEF IInv, Live
<1>2. SessionShape'
  BY DEF timers, requests, tokens, IInv, SessionShape
<1>3. ForSession
  BY OneSocketForSession DEF IInv
<1> QED
  BY <1>1, <1>2, <1>3, ReadinessSame DEF Step, IInv

\* JOIN or SWITCH.
LEMMA JoinedIs ==
  ASSUME IInv, NEW w \in Sockets, NEW c \in Channels, NEW rest \in Seq(Messages)
  PROVE  \E o \in Objects :
           o.state = sockets[w].state /\ Joined(w, c, rest) = [sockets EXCEPT ![w] = o]
<1> DEFINE box   == Append(rest, <<"joined", c>>)
           rooms == sockets[w].rooms \cup {c}
           o     == Moved(sockets[w], rooms, c, box)
<1>1. <<"joined", c>> \in Messages
  BY DEF Messages
<1>2. box \in Seq(Messages)
  BY <1>1
<1>3. Joined(w, c, rest) =
        [sockets EXCEPT ![w].rooms = rooms, ![w].room = c, ![w].inbox = box]
  BY DEF Joined
<1> HIDE DEF box
<1>4. sockets[w] \in Objects /\ rooms \in SUBSET Channels
  BY DEF IInv, SocketShape, Objects
<1> HIDE DEF rooms
<1>5. o \in Objects /\ o.state = sockets[w].state
  BY <1>2, <1>4, RoomIs
<1>6. Joined(w, c, rest) = [sockets EXCEPT ![w] = o]
  BY <1>3, <1>4 DEF IInv, SocketShape, Objects, Moved
<1> QED
  BY <1>5, <1>6

LEMMA InboxOf ==
  ASSUME IInv, NEW w \in Sockets
  PROVE  sockets[w].inbox \in Seq(Messages)
BY DEF IInv, SocketShape, Objects

LEMMA JoinStep ==
  ASSUME IInv, NEW c \in Channels, Join(c)
  PROVE  Step
<1> DEFINE w    == socketRef
           rest == sockets[w].inbox
<1>1. w \in Sockets
  BY DEF Join, IInv, SocketShape
<1>2. rest \in Seq(Messages)
  BY <1>1, InboxOf
<1>3. sockets' = Joined(w, c, rest)
  BY DEF Join
<1>4. UNCHANGED <<readinessVars, tokenRef, allowReconnectRef, activeChannelRef,
                  socketRef, connected, timers, requests, tokens>>
  BY DEF Join, session
<1> HIDE DEF w, rest
<1>5. PICK o \in Objects :
        /\ o.state = sockets[w].state
        /\ Joined(w, c, rest) = [sockets EXCEPT ![w] = o]
  BY <1>1, <1>2, JoinedIs
<1>6. activeChannelRef' \in Channels \cup {None}
  BY <1>4 DEF IInv, SessionShape
<1> QED
  BY <1>1, <1>3, <1>4, <1>5, <1>6, TalkStep

LEMMA LeaveStep ==
  ASSUME IInv, NEW c \in Channels, Leave(c)
  PROVE  Step
<1> DEFINE w     == socketRef
           box   == Append(sockets[w].inbox, <<"left">>)
           next  == IF sockets[w].room = c THEN None ELSE sockets[w].room
           rooms == sockets[w].rooms \ {c}
           o     == Moved(sockets[w], rooms, next, box)
<1>1. w \in Sockets
  BY DEF Leave, IInv, SocketShape
<1>2. <<"left">> \in Messages
  BY DEF Messages
<1>3. box \in Seq(Messages)
  BY <1>1, <1>2, InboxOf
<1>4. /\ sockets' = [sockets EXCEPT ![w].rooms = rooms, ![w].room = next,
                                    ![w].inbox = box]
      /\ UNCHANGED <<readinessVars, tokenRef, allowReconnectRef,
                     activeChannelRef, socketRef, connected, timers, requests,
                     tokens>>
  BY DEF Leave, session
<1> HIDE DEF box
<1>5. /\ sockets[w] \in Objects /\ rooms \in SUBSET Channels
      /\ next \in Channels \cup {None}
  BY <1>1 DEF IInv, SocketShape, Objects
<1> HIDE DEF next, rooms, w
<1>6. o \in Objects /\ o.state = sockets[w].state
  BY <1>3, <1>5, RoomIs
<1>7. sockets' = [sockets EXCEPT ![w] = o]
  BY <1>1, <1>4, <1>5 DEF IInv, SocketShape, Objects, Moved
<1>8. activeChannelRef' \in Channels \cup {None}
  BY <1>4 DEF IInv, SessionShape
<1> HIDE DEF o
<1> QED
  BY <1>1, <1>4, <1>6, <1>7, <1>8, TalkStep

LEMMA handleGatewayEventStep ==
  ASSUME IInv, NEW w \in Sockets, handleGatewayEvent(w)
  PROVE  Step
<1> DEFINE event == Head(sockets[w].inbox)
           rest  == Tail(sockets[w].inbox)
           read  == [sockets[w] EXCEPT !.inbox = rest]
<1>1. event \in Messages /\ rest \in Seq(Messages)
  BY InboxOf, HeadTailProperties DEF handleGatewayEvent
<1>2. event[1] = "joined" => event[2] \in Channels
  BY <1>1 DEF Messages
<1>3. activeChannelRef \in Channels \cup {None}
  BY DEF IInv, SessionShape
<1>4. /\ \/ sockets' = [sockets EXCEPT ![w].inbox = rest]
         \/ /\ activeChannelRef # None
            /\ sockets' = Joined(w, activeChannelRef, rest)
      /\ activeChannelRef' \in Channels \cup {None}
  BY <1>2, <1>3 DEF handleGatewayEvent, Rejoin
<1> HIDE DEF event, rest
<1>5. CASE sockets' = [sockets EXCEPT ![w].inbox = rest]
  <2>1. read \in Objects /\ read.state = sockets[w].state
    BY <1>1, InboxIs DEF IInv, SocketShape
  <2>2. sockets' = [sockets EXCEPT ![w] = read]
    BY <1>5 DEF IInv, SocketShape, Objects
  <2> HIDE DEF read
  <2> QED
    BY <1>4, <2>1, <2>2, TalkStep DEF handleGatewayEvent
<1>6. CASE /\ activeChannelRef # None
           /\ sockets' = Joined(w, activeChannelRef, rest)
  <2>1. PICK o \in Objects :
          /\ o.state = sockets[w].state
          /\ Joined(w, activeChannelRef, rest) = [sockets EXCEPT ![w] = o]
    BY <1>1, <1>3, <1>6, JoinedIs
  <2> QED
    BY <1>4, <1>6, <2>1, TalkStep DEF handleGatewayEvent
<1> QED
  BY <1>4, <1>5, <1>6

-----------------------------------------------------------------------------
(* What it comes to *)

LEMMA InitIInv == Init => IInv
<1> SUFFICES ASSUME Init PROVE IInv
  OBVIOUS
<1>1. backendReadiness = "checking" /\ attempt = 1 /\ request = "response"
      /\ retry = FALSE
  BY DEF Init, ReadinessInit
<1>2. 1 \in 1..MaxAttempts
  BY ReadinessAssumption
<1>3. ReadinessTypeOK /\ RetriesLeft
  BY <1>1, <1>2 DEF ReadinessTypeOK, RetriesLeft
<1>4. /\ tokenRef \in Tokens \cup {None}
      /\ activeChannelRef \in Channels \cup {None}
      /\ strays \in Nat /\ signIns \in 0..MaxSignIns
      /\ checks \subseteq ThenCalls
      /\ issued \subseteq Tokens /\ expired \subseteq issued
  BY DashboardAssumption DEF Init
<1>5. /\ connected \in BOOLEAN /\ timer \in BOOLEAN
      /\ restored \in BOOLEAN /\ allowReconnectRef \in BOOLEAN
      /\ allowReconnectRef = (tokenRef # None)
  BY DEF Init
<1>6. SocketShape
  BY GoneIs DEF Init, SocketShape, OneLiveSocket, NoFalseConnected, Live
<1> QED
  BY <1>3, <1>4, <1>5, <1>6 DEF IInv, SessionShape

LEMMA NextStep ==
  ASSUME IInv, [Next]_vars
  PROVE  IInv' /\ (Step \/ UNCHANGED sockets)
<1>1. CASE UNCHANGED vars
  BY <1>1, ReadinessSame, SocketsSame
     DEF vars, sessionVars, session, connection, timers, requests, tokens,
         IInv, SessionShape
<1>2. CASE ReadinessNext /\ UNCHANGED sessionVars
  BY <1>2, ReadinessKept, SocketsSame
     DEF sessionVars, session, connection, timers, requests, tokens, IInv,
         SessionShape
<1>3. CASE Callback
  BY <1>3, ReconnectStep, SignInStep, RestoreStep, onopenStep, oncloseStep,
     handleGatewayEventStep, SignedInStep, RefreshedStep DEF Callback, Step
<1>4. CASE User
  BY <1>4, SignInStep, SignOutStep, JoinStep, LeaveStep DEF User, Step
<1>5. CASE Environment
  BY <1>5, ClosedByPeerStep, RefreshStep, ExpireStep DEF Environment, Step
<1> QED
  BY <1>1, <1>2, <1>3, <1>4, <1>5 DEF Next

LEMMA Invariant == Spec => []IInv
BY InitIInv, NextStep, PTL DEF Spec

\* The state has its shape; in particular no attempt goes beyond
\* READINESS_MAX_ATTEMPTS.
THEOREM TypeCorrect == Spec => []TypeOK
BY Invariant, IInvImplies, PTL

\* One socket is live at most, the one in socketRef, and only in a session:
\* whatever onclose of older sockets and overwritten timers do.
THEOREM OneSocketIsLive == Spec => []OneLiveSocket
BY Invariant, IInvImplies, PTL

\* A connection is shown only if there is one, or onclose is yet to run.
THEOREM ConnectedIsTrue == Spec => []NoFalseConnected
BY Invariant, IInvImplies, PTL

\* connect uses the token of the session that is current, however old the
\* request, or the timer, is that has led to it.
THEOREM OpensForSession == Spec => OpenedForSession
<1> DEFINE Opens ==
      \A w \in Sockets :
        sockets'[w].state = "connecting" /\ sockets[w].state # "connecting"
          => sockets'[w].token = tokenRef
<1>1. IInv /\ [Next]_vars => [Opens]_vars
  BY NextStep DEF Step, ForSession
<1> QED
  BY <1>1, Invariant, PTL DEF Spec, OpenedForSession

-----------------------------------------------------------------------------
(* The active channel.  ActiveChannelHolds is about a moment when no answer *)
(* is under way.  What makes it inductive is what those under way will do:  *)
(* the last one leaves the dashboard with the room of the core, or with     *)
(* none, and only the first can be the greeting.                            *)

ReadyFirst(box) == \A i \in 2..Len(box) : box[i][1] # "ready"

Told(box, room, active) ==
  /\ ReadyFirst(box)
  /\ box = <<>> => active \in {room, None}
  /\ box # <<>> /\ box[Len(box)][1] = "joined" => box[Len(box)][2] = room

AllTold ==
  \A w \in Sockets :
    sockets[w].state = "open"
      => Told(sockets[w].inbox, sockets[w].room, activeChannelRef)

\* One more answer decides where the dashboard ends up.
LEMMA AppendTold ==
  ASSUME NEW box \in Seq(Messages), ReadyFirst(box),
         NEW m \in Messages, m[1] # "ready", NEW room, NEW active,
         m[1] = "joined" => m[2] = room
  PROVE  Told(Append(box, m), room, active)
<1> DEFINE next == Append(box, m)
<1>1. /\ next \in Seq(Messages) /\ Len(next) = Len(box) + 1
      /\ next[Len(box) + 1] = m
      /\ \A i \in 1..Len(box) : next[i] = box[i]
  BY AppendProperties
<1>2. Len(box) \in Nat
  BY LenProperties
<1> HIDE DEF next
<1>3. next # <<>>
  BY <1>1, <1>2
<1>4. ASSUME NEW i \in 2..Len(next) PROVE next[i][1] # "ready"
  <2>1. i \in 2..Len(box) \/ i = Len(box) + 1
    BY <1>1, <1>2
  <2> QED
    BY <1>1, <1>2, <2>1 DEF ReadyFirst
<1>5. Told(next, room, active)
  BY <1>1, <1>3, <1>4 DEF Told, ReadyFirst
<1> QED
  BY <1>5 DEF next

\* One answer less: the last one is still to come, or was this one.
LEMMA TailTold ==
  ASSUME NEW box \in Seq(Messages), box # <<>>, NEW room, NEW active,
         Told(box, room, active)
  PROVE  /\ ReadyFirst(Tail(box))
         /\ Tail(box) # <<>> => \A other : Told(Tail(box), room, other)
         /\ Tail(box) = <<>> /\ Head(box)[1] = "joined" => Head(box)[2] = room
<1> DEFINE rest == Tail(box)
<1>1. /\ rest \in Seq(Messages) /\ Len(rest) = Len(box) - 1
      /\ \A i \in 1..Len(rest) : rest[i] = box[i + 1]
      /\ Head(box) = box[1]
  BY HeadTailProperties
<1>2. Len(box) \in Nat /\ Len(box) > 0
  BY LenProperties, EmptySeq
<1> HIDE DEF rest
<1>3. ASSUME NEW i \in 2..Len(rest) PROVE rest[i][1] # "ready"
  <2>1. i + 1 \in 2..Len(box) /\ i \in 1..Len(rest)
    BY <1>1, <1>2
  <2> QED
    BY <1>1, <2>1 DEF Told, ReadyFirst
<1>4. ReadyFirst(rest)
  BY <1>3 DEF ReadyFirst
<1>5. ASSUME rest # <<>>, NEW other PROVE Told(rest, room, other)
  <2>1. Len(rest) \in Nat /\ Len(rest) # 0
    BY <1>1, <1>5, LenProperties, EmptySeq
  <2>2. rest[Len(rest)] = box[Len(box)]
    BY <1>1, <1>2, <2>1
  <2> QED
    BY <1>4, <1>5, <2>2 DEF Told
<1>6. ASSUME rest = <<>> PROVE Head(box)[1] = "joined" => Head(box)[2] = room
  <2>1. Len(box) = 1
    BY <1>1, <1>2, <1>6
  <2> QED
    BY <1>1, <2>1 DEF Told
<1> QED
  BY <1>4, <1>5, <1>6 DEF rest

\* The step is not about an open socket.
LEMMA NotTold ==
  ASSUME AllTold,
         \A w \in Sockets :
           sockets'[w].state = "open"
             => sockets'[w] = sockets[w] /\ activeChannelRef' = activeChannelRef
  PROVE  AllTold'
BY DEF AllTold

\* The step changes the socket that is live, and no other one is open.
LEMMA LiveTold ==
  ASSUME IInv, NEW w \in Sockets, Live(sockets[w]), NEW o,
         sockets' = [sockets EXCEPT ![w] = o],
         Told(o.inbox, o.room, activeChannelRef')
  PROVE  AllTold'
<1>1. /\ sockets'[w] = o
      /\ \A v \in Sockets : v # w => sockets'[v] = sockets[v]
  BY DEF IInv, SocketShape
<1>2. \A v \in Sockets : v # w => ~Live(sockets[v])
  BY DEF IInv, SocketShape, OneLiveSocket
<1> QED
  BY <1>1, <1>2 DEF AllTold, Live

LEMMA onopenTold ==
  ASSUME IInv, AllTold, NEW w \in Sockets, onopen(w)
  PROVE  AllTold'
<1> DEFINE greeting == <<<<"ready">>>>
           o        == [sockets[w] EXCEPT !.state = "open", !.inbox = greeting]
<1>1. sockets[w] \in Objects
  BY DEF IInv, SocketShape
<1>2. sockets' = [sockets EXCEPT ![w] = o]
  BY <1>1 DEF onopen, IInv, SocketShape, Objects
<1>3. o.inbox = greeting /\ o.room = sockets[w].room
  BY <1>1 DEF Objects
<1>4. Len(greeting) = 1 /\ greeting # <<>> /\ greeting[1][1] = "ready"
  OBVIOUS
<1> HIDE DEF greeting
<1>5. Told(o.inbox, o.room, activeChannelRef')
  BY <1>3, <1>4 DEF Told, ReadyFirst
<1>6. Live(sockets[w])
  BY DEF onopen, Live
<1> HIDE DEF o
<1> QED
  BY <1>2, <1>5, <1>6, LiveTold

LEMMA connectTold ==
  ASSUME IInv, AllTold, NEW t, connect(t), UNCHANGED activeChannelRef
  PROVE  AllTold'
<1>1. CASE UNCHANGED sockets
  BY <1>1, NotTold
<1>2. CASE ~UNCHANGED sockets
  <2>1. PICK w \in Sockets :
          sockets' = [sockets EXCEPT ![w].state = "connecting", ![w].token = t]
    BY <1>2 DEF connect
  <2>2. /\ sockets'[w].state = "connecting"
        /\ \A v \in Sockets : v # w => sockets'[v] = sockets[v]
    BY <2>1 DEF IInv, SocketShape, Objects
  <2> QED
    BY <2>2, NotTold
<1> QED
  BY <1>1, <1>2

LEMMA logoutTold ==
  ASSUME IInv, AllTold, logout
  PROVE  AllTold'
<1>1. \A w \in Sockets : ~Live(sockets'[w])
  BY logoutKept DEF IInv
<1> QED
  BY <1>1, NotTold DEF Live

\* JOIN or SWITCH: the last answer is about the room.
LEMMA JoinedTold ==
  ASSUME IInv, NEW w \in Sockets, sockets[w].state = "open",
         NEW c \in Channels, NEW rest \in Seq(Messages), ReadyFirst(rest),
         sockets' = Joined(w, c, rest)
  PROVE  AllTold'
<1> DEFINE box   == Append(rest, <<"joined", c>>)
           rooms == sockets[w].rooms \cup {c}
           o     == Moved(sockets[w], rooms, c, box)
<1>1. <<"joined", c>> \in Messages
  BY DEF Messages
<1>2. Told(box, c, activeChannelRef')
  BY <1>1, AppendTold
<1>3. sockets' =
        [sockets EXCEPT ![w].rooms = rooms, ![w].room = c, ![w].inbox = box]
  BY DEF Joined
<1> HIDE DEF box, rooms
<1>4. sockets[w] \in Objects
  BY DEF IInv, SocketShape
<1>5. o.inbox = box /\ o.room = c
  BY <1>4 DEF Objects, Moved
<1>6. sockets' = [sockets EXCEPT ![w] = o]
  BY <1>3, <1>4 DEF IInv, SocketShape, Objects, Moved
<1> HIDE DEF o
<1> QED
  BY <1>2, <1>5, <1>6, LiveTold DEF Live

LEMMA JoinTold ==
  ASSUME IInv, AllTold, NEW c \in Channels, Join(c)
  PROVE  AllTold'
<1>1. socketRef \in Sockets
  BY DEF Join, IInv, SocketShape
<1>2. sockets[socketRef].inbox \in Seq(Messages)
  BY <1>1, InboxOf
<1>3. ReadyFirst(sockets[socketRef].inbox)
  BY <1>1 DEF Join, AllTold, Told
<1> QED
  BY <1>1, <1>2, <1>3, JoinedTold DEF Join

LEMMA LeaveTold ==
  ASSUME IInv, AllTold, NEW c \in Channels, Leave(c)
  PROVE  AllTold'
<1> DEFINE w     == socketRef
           box   == Append(sockets[w].inbox, <<"left">>)
           next  == IF sockets[w].room = c THEN None ELSE sockets[w].room
           rooms == sockets[w].rooms \ {c}
           o     == Moved(sockets[w], rooms, next, box)
<1>1. w \in Sockets /\ sockets[w].state = "open"
  BY DEF Leave, IInv, SocketShape
<1>2. <<"left">> \in Messages /\ <<"left">>[1] = "left"
  BY DEF Messages
<1>3. sockets[w].inbox \in Seq(Messages) /\ ReadyFirst(sockets[w].inbox)
  BY <1>1, InboxOf DEF AllTold, Told
<1>4. Told(box, next, activeChannelRef')
  BY <1>2, <1>3, AppendTold
<1>5. sockets' = [sockets EXCEPT ![w].rooms = rooms, ![w].room = next,
                                 ![w].inbox = box]
  BY DEF Leave
<1> HIDE DEF box, next, rooms, w
<1>6. sockets[w] \in Objects
  BY <1>1 DEF IInv, SocketShape
<1>7. o.inbox = box /\ o.room = next
  BY <1>6 DEF Objects, Moved
<1>8. sockets' = [sockets EXCEPT ![w] = o]
  BY <1>1, <1>5, <1>6 DEF IInv, SocketShape, Objects, Moved
<1> HIDE DEF o
<1> QED
  BY <1>1, <1>4, <1>7, <1>8, LiveTold DEF Live

LEMMA handleGatewayEventTold ==
  ASSUME IInv, AllTold, NEW w \in Sockets, handleGatewayEvent(w)
  PROVE  AllTold'
<1> DEFINE box   == sockets[w].inbox
           room  == sockets[w].room
           event == Head(box)
           rest  == Tail(box)
           read  == [sockets[w] EXCEPT !.inbox = rest]
<1>1. /\ sockets[w] \in Objects /\ sockets[w].state = "open" /\ box # <<>>
      /\ box \in Seq(Messages) /\ Told(box, room, activeChannelRef)
  BY InboxOf DEF handleGatewayEvent, IInv, SocketShape, AllTold
<1>2. rest \in Seq(Messages)
  BY <1>1, HeadTailProperties
<1>3. /\ ReadyFirst(rest)
      /\ rest # <<>> => \A other : Told(rest, room, other)
      /\ rest = <<>> /\ event[1] = "joined" => event[2] = room
  BY <1>1, TailTold
<1>4. \/ /\ sockets' = [sockets EXCEPT ![w].inbox = rest]
         /\ \/ activeChannelRef' = None
            \/ event[1] = "joined" /\ activeChannelRef' = event[2]
      \/ activeChannelRef # None /\ sockets' = Joined(w, activeChannelRef, rest)
  BY DEF handleGatewayEvent, Rejoin
<1> HIDE DEF event, rest
<1>5. CASE /\ sockets' = [sockets EXCEPT ![w].inbox = rest]
           /\ \/ activeChannelRef' = None
              \/ event[1] = "joined" /\ activeChannelRef' = event[2]
  <2>1. sockets' = [sockets EXCEPT ![w] = read]
    BY <1>1, <1>5 DEF IInv, SocketShape, Objects
  <2>2. read.inbox = rest /\ read.room = room
    BY <1>1 DEF Objects
  <2> HIDE DEF read, room
  <2>3. CASE rest # <<>>
    BY <1>1, <1>3, <2>1, <2>2, <2>3, LiveTold DEF Live
  <2>4. CASE rest = <<>>
    <3>1. Told(rest, room, activeChannelRef')
      BY <1>3, <1>5, <2>4 DEF Told
    <3> QED
      BY <1>1, <2>1, <2>2, <3>1, LiveTold DEF Live
  <2> QED
    BY <2>3, <2>4
<1>6. CASE activeChannelRef # None /\ sockets' = Joined(w, activeChannelRef, rest)
  <2>1. activeChannelRef \in Channels
    BY <1>6 DEF IInv, SessionShape
  <2> QED
    BY <1>1, <1>2, <1>3, <1>6, <2>1, JoinedTold
<1> QED
  BY <1>4, <1>5, <1>6

LEMMA ClosedTold ==
  ASSUME IInv, AllTold, NEW w \in Sockets, ClosedByPeer(w) \/ onclose(w)
  PROVE  AllTold'
<1>1. UNCHANGED activeChannelRef
  BY DEF ClosedByPeer, onclose, session
<1>2. /\ sockets'[w].state # "open"
      /\ \A v \in Sockets : v # w => sockets'[v] = sockets[v]
  BY GoneIs, ClosingIs DEF ClosedByPeer, onclose, IInv, SocketShape
<1> QED
  BY <1>1, <1>2, NotTold

LEMMA RefreshedTold ==
  ASSUME IInv, AllTold, NEW c \in checks, Refreshed(c)
  PROVE  AllTold'
<1>1. CASE logout
  BY <1>1, logoutTold
<1>2. CASE connect(c.token) /\ UNCHANGED activeChannelRef
  BY <1>2, connectTold
<1>3. CASE UNCHANGED <<sockets, activeChannelRef>>
  BY <1>3, NotTold
<1> QED
  BY <1>1, <1>2, <1>3 DEF Refreshed, session

LEMMA NextTold ==
  ASSUME IInv, AllTold, [Next]_vars
  PROVE  AllTold'
<1>1. CASE UNCHANGED <<sockets, activeChannelRef>>
  BY <1>1, NotTold
<1>2. CASE Callback
  <2>1. CASE Reconnect
    BY <2>1, connectTold DEF Reconnect, session
  <2>2. CASE \E w \in Sockets : onopen(w) \/ onclose(w) \/ handleGatewayEvent(w)
    BY <2>2, onopenTold, ClosedTold, handleGatewayEventTold
  <2>3. CASE \E c \in checks : Refreshed(c)
    BY <2>3, RefreshedTold
  <2>4. CASE SignInFails \/ Restore \/ \E t \in Tokens : SignedIn(t)
    BY <1>1, <2>4 DEF SignInFails, Restore, SignedIn, session, connection
  <2> QED
    BY <1>2, <2>1, <2>2, <2>3, <2>4 DEF Callback
<1>3. CASE User
  BY <1>1, <1>3, logoutTold, JoinTold, LeaveTold
     DEF User, SignIn, SignOut, session, connection
<1>4. CASE Environment
  BY <1>1, <1>4, ClosedTold DEF Environment, Refresh, Expire, session, connection
<1> QED
  BY <1>1, <1>2, <1>3, <1>4
     DEF Next, vars, sessionVars, session, connection

\* When no answer is under way, the dashboard shows the channel in which the
\* core would post, or none, after any number of reconnects.
THEOREM ActiveChannelIsHeld == Spec => []ActiveChannelHolds
<1>1. Init => AllTold
  BY GoneIs DEF Init, AllTold
<1>2. IInv /\ AllTold /\ [Next]_vars => AllTold'
  BY NextTold
<1>3. IInv /\ AllTold => ActiveChannelHolds
  BY DashboardAssumption
     DEF AllTold, Told, ActiveChannelHolds, IInv, SocketShape
<1> QED
  BY <1>1, <1>2, <1>3, Invariant, PTL DEF Spec
=============================================================================
