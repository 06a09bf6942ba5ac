----------------------------- MODULE Workspace -----------------------------
(***************************************************************************)
(* What the dashboard shows to somebody who is signed in,                  *)
(* frontend/src/main.tsx: the list of channels and that of participants,   *)
(* the statistics, and the messages.  All of them are filled by answers    *)
(* that arrive later, when the connection, the channel or the session may  *)
(* be another one.                                                         *)
(*                                                                         *)
(* The backend is ready.  A session is known by its token, a number, and   *)
(* what is shown by the token, or the channel, that it was obtained with.  *)
(* Dashboard has more of the connection: here there is one reconnect       *)
(* timer, and a sign-in ends while nobody is signed in.  As there, a       *)
(* command takes effect when it is sent and its answer waits in inbox.     *)
(* Texts, health and the error banner are left out, and so are answers     *)
(* that do not fit a frame and a JOIN that the core refuses.               *)
(*                                                                         *)
(* An operator whose comment starts with DEFECT is a plausible mistake in  *)
(* the operator after it, which the specification does not use.            *)
(***************************************************************************)
EXTENDS Naturals, Sequences

CONSTANTS
  Channels,
  None,          \* no channel, or an empty list of participants
  MessageLimit,  \* MESSAGE_LIMIT
  SampleLimit,   \* how many samples the trend has
  MaxSessions,   \* bound on the sessions
  MaxOperations  \* bound on what the user does, others say and the network
                 \* loses, by the session that the page was loaded with

ASSUME WorkspaceAssumption ==
  /\ None \notin Channels
  /\ {MessageLimit, SampleLimit} \subseteq Nat \ {0}
  /\ MaxSessions \in Nat \ {0}
  /\ MaxOperations \in [0..1 -> Nat]

VARIABLES
  initialSession,  \* the token that the page was loaded with
  token,           \* tokenRef and token, 0 if empty
  sessions,        \* how many sessions there have been
  socket,          \* the socket in socketRef, and the session behind it
  ghosts,          \* sockets that are in socketRef no more, up to onclose
  timer,           \* whether the reconnect timer is running
  connected, activeChannel,
  users, usersLoaded,        \* users is the channel whose list it is
  channels, channelsLoaded,
  listTimers,      \* timers that will request the channels again
  statistics,      \* platformStats, coreStats, persistedChannels, samples
  calls,           \* calls of refreshStats; those that are alike are one
  messages,
  histories,       \* requests for a history, by token
  exists,          \* the channels of the core
  operations       \* how many are left

session == <<initialSession, token, sessions>>
connection == <<socket, ghosts, timer, connected>>
lists == <<activeChannel, users, usersLoaded, channels, channelsLoaded>>
monitor == <<statistics, calls>>
feed == <<messages, histories>>
vars == <<session, connection, lists, listTimers, monitor, feed, exists,
          operations>>

Tokens == 1..MaxSessions

Answers ==
  ({"joined", "who"} \X Channels) \cup ({"channels"} \X SUBSET Channels)
    \cup {<<"ready">>, <<"left">>, <<"line">>, <<"error">>}

NoSocket ==
  [state |-> "none", token |-> 0, rooms |-> {}, room |-> None, inbox |-> <<>>]

NoStatistics == [platform |-> 0, core |-> 0, stored |-> 0, samples |-> <<>>]

Call(t, then) == [token |-> t, stage |-> "stats", then |-> then]

TypeOK ==
  /\ initialSession \in 0..1
  /\ sessions \in 0..MaxSessions /\ token \in 0..sessions
  /\ socket \in
       [state : {"none", "connecting", "open", "closed"},
        token : 0..sessions, rooms : SUBSET exists,
        room : exists \cup {None}, inbox : Seq(Answers)]
  /\ ghosts \in Nat /\ {timer, connected} \subseteq BOOLEAN
  /\ {activeChannel, users} \subseteq exists \cup {None}
  /\ channels \subseteq exists /\ exists \subseteq Channels
  /\ {usersLoaded, channelsLoaded} \subseteq BOOLEAN
  /\ statistics \in [platform : 0..sessions, core : 0..sessions,
                     stored : 0..sessions, samples : Seq(Tokens)]
  /\ Len(statistics.samples) <= SampleLimit
  /\ calls \subseteq [token : Tokens, stage : {"stats", "core", "stored"},
                      then : {"login", "restore", "command", "show"}]
  /\ messages \in Seq([kind : {"live", "page", "stored"}, token : 0..sessions])
  /\ Len(messages) <= MessageLimit
  /\ histories \subseteq Tokens
  /\ listTimers \in Nat /\ operations \in Nat

Init ==
  /\ initialSession \in 0..1
  /\ token = initialSession /\ sessions = initialSession
  /\ socket = NoSocket /\ ghosts = 0 /\ timer = FALSE /\ connected = FALSE
  /\ activeChannel = None /\ users = None /\ channels = {}
  /\ usersLoaded = FALSE /\ channelsLoaded = FALSE /\ listTimers = 0
  /\ statistics = NoStatistics
  /\ calls = {Call(t, "restore") : t \in {initialSession} \ {0}}
  /\ messages = <<>> /\ histories = {}
  /\ exists = {} /\ operations = MaxOperations[initialSession]

\* What is not a reaction to something: there are so many of them.
Operate == operations > 0 /\ operations' = operations - 1

-----------------------------------------------------------------------------
(* Messages and samples *)

\* slice(-n)
Latest(s, n) == SubSeq(s, IF Len(s) > n THEN Len(s) - n + 1 ELSE 1, Len(s))

\* Lines of the page itself are all alike.
Line(kind, t) == [kind |-> kind, token |-> IF kind = "page" THEN 0 ELSE t]

\* DEFECT: one too many is kept.
PushedLate(ms, kind, t) ==
  Append(Latest(ms, MessageLimit), Line(kind, t))

Pushed(ms, kind, t) ==
  Append(Latest(ms, MessageLimit - 1), Line(kind, t))

pushLine(kind, t) == messages' = Pushed(messages, kind, t)

-----------------------------------------------------------------------------
(* The gateway and the core, behind an open socket: what becomes of it when *)
(* it is sent a command, which is answered once.                            *)

Answered(s, answer) == [s EXCEPT !.inbox = Append(@, answer)]

Joined(s, c) ==
  Answered([s EXCEPT !.rooms = @ \cup {c}, !.room = c], <<"joined", c>>)

Switched(s, c) ==
  IF c \in s.rooms THEN Joined(s, c) ELSE Answered(s, <<"error">>)

Left(s, c) ==
  IF c \in s.rooms
  THEN Answered([s EXCEPT !.rooms = @ \ {c},
                          !.room = IF @ = c THEN None ELSE @], <<"left">>)
  ELSE Answered(s, <<"error">>)

Listed(s) == Answered(s, <<"channels", exists>>)

AskedWho(s) ==
  Answered(s, IF s.room # None THEN <<"who", s.room>> ELSE <<"error">>)

-----------------------------------------------------------------------------
(* The connection *)

connect(t) ==
  IF t # 0 /\ socket.state \in {"none", "closed"}
  THEN /\ socket' = [NoSocket EXCEPT !.state = "connecting", !.token = t]
       /\ ghosts' = ghosts + (IF socket.state = "closed" THEN 1 ELSE 0)
  ELSE UNCHANGED <<socket, ghosts>>

\* DEFECT: the channels are not requested.
OpenedSilent ==
  [socket EXCEPT !.state = "open", !.inbox = <<<<"ready">>>>]

\* The list is requested at once, and the gateway greets the browser.
Opened ==
  Listed([socket EXCEPT !.state = "open", !.inbox = <<<<"ready">>>>])

onopen ==
  /\ socket.state = "connecting"
  /\ socket' = Opened
  /\ connected' = TRUE /\ channelsLoaded' = FALSE
  /\ pushLine("page", token)
  /\ UNCHANGED <<session, ghosts, timer, activeChannel, users, usersLoaded,
                 channels, listTimers, monitor, histories, exists, operations>>

\* The gateway or the network ends the connection, or refuses it.
Lost ==
  /\ socket.state \in {"connecting", "open"} /\ Operate
  /\ socket' = [NoSocket EXCEPT !.state = "closed", !.token = socket.token]
  /\ UNCHANGED <<session, ghosts, timer, connected, lists, listTimers,
                 monitor, feed, exists>>

\* Of the socket in socketRef, or of an older one.
onclose ==
  /\ \/ socket.state = "closed" /\ socket' = NoSocket /\ UNCHANGED ghosts
     \/ ghosts > 0 /\ ghosts' = ghosts - 1 /\ UNCHANGED socket
  /\ connected' = FALSE /\ channelsLoaded' = FALSE /\ usersLoaded' = FALSE
  /\ IF token # 0
     THEN timer' = TRUE /\ pushLine("page", token)
     ELSE UNCHANGED <<timer, messages>>
  /\ UNCHANGED <<session, activeChannel, users, channels, listTimers, monitor,
                 histories, exists, operations>>

Reconnect ==
  /\ timer /\ timer' = FALSE
  /\ connect(token)
  /\ UNCHANGED <<session, connected, lists, listTimers, monitor, feed, exists,
                 operations>>

-----------------------------------------------------------------------------
(* The session *)

\* startSession, and the call of refreshStats after it.
SignedIn ==
  /\ token = 0 /\ sessions < MaxSessions
  /\ sessions' = sessions + 1 /\ token' = sessions'
  /\ calls' = calls \cup {Call(token', "login")}
  /\ UNCHANGED <<initialSession, connection, lists, listTimers, statistics,
                 feed, exists, operations>>

\* All but the messages.
logout ==
  /\ token' = 0 /\ timer' = FALSE /\ connected' = FALSE
  /\ socket' = NoSocket
  /\ ghosts' = ghosts + (IF socket.state = "none" THEN 0 ELSE 1)
  /\ activeChannel' = None /\ users' = None /\ usersLoaded' = FALSE
  /\ channels' = {} /\ channelsLoaded' = FALSE
  /\ statistics' = NoStatistics
  /\ UNCHANGED <<initialSession, sessions>>

SignOut ==
  /\ token # 0
  /\ logout /\ messages' = <<>>
  /\ UNCHANGED <<calls, listTimers, histories, exists, operations>>

-----------------------------------------------------------------------------
(* refreshStats *)

\* DEFECT: whoever is signed in now.
CurrentAny(c) == token # 0

Current(c) == token = c.token

\* The line that the caller adds; a development token adds none.
Announced(ms, c) ==
  IF c.then \in {"login", "command"} THEN Pushed(ms, "page", c.token) ELSE ms

\* The call returns, and its caller goes on.
Returns(c, valid) ==
  /\ calls' = calls \ {c}
  /\ IF Current(c) /\ (c.then = "login" \/ (c.then = "restore" /\ valid))
     THEN connect(token)
     ELSE UNCHANGED <<socket, ghosts>>
  /\ messages' = Announced(messages, c)
  /\ UNCHANGED <<session, timer, connected, lists>>

\* It asks for what comes next.
Proceeds(c) ==
  /\ calls' = (calls \ {c}) \cup
       {[c EXCEPT !.stage = IF @ = "stats" THEN "core" ELSE "stored"]}
  /\ UNCHANGED <<session, connection, lists, messages>>

StatsRefused(c) ==
  /\ c.stage = "stats" /\ calls' = calls \ {c}
  /\ logout /\ messages' = Announced(<<>>, c)
  /\ UNCHANGED <<listTimers, histories, exists, operations>>

\* Another status than success; core statistics are dispensable.
StatsFails(c) ==
  /\ IF c.stage = "core" THEN Proceeds(c) ELSE Returns(c, c.stage = "stored")
  /\ UNCHANGED <<statistics, listTimers, histories, exists, operations>>

\* No response, or one without a body: only a sign-in goes on.
StatsThrows(c) ==
  /\ IF c.then = "login"
     THEN Returns(c, FALSE)
     ELSE /\ calls' = calls \ {c}
          /\ UNCHANGED <<session, connection, lists, messages>>
  /\ UNCHANGED <<statistics, listTimers, histories, exists, operations>>

\* The body has come when the session is another one.
StatsLate(c) ==
  /\ ~Current(c)
  /\ Returns(c, FALSE)
  /\ UNCHANGED <<statistics, listTimers, histories, exists, operations>>

recordMonitorSample(samples, t) ==
  Append(Latest(samples, SampleLimit - 1), t)

StatsShown(c) ==
  /\ Current(c)
  /\ \/ /\ c.stage = "stats" /\ Proceeds(c)
        /\ statistics' = [statistics EXCEPT !.platform = c.token]
     \/ /\ c.stage = "core" /\ Proceeds(c)
        /\ statistics' =
             [statistics EXCEPT !.core = c.token,
                                !.samples = recordMonitorSample(@, c.token)]
     \/ /\ c.stage = "stored" /\ Returns(c, TRUE)
        /\ statistics' = [statistics EXCEPT !.stored = c.token]
  /\ UNCHANGED <<listTimers, histories, exists, operations>>

refreshStats(c) ==
  StatsRefused(c) \/ StatsFails(c) \/ StatsThrows(c) \/ StatsLate(c)
    \/ StatsShown(c)

-----------------------------------------------------------------------------
(* The user, and events *)

\* What may be used: the rest of the page waits for a connection.
Composer == token # 0 /\ connected

\* send: answered is what becomes of the socket if it is open.
send(answered) ==
  IF socket.state = "open" THEN socket' = answered ELSE UNCHANGED socket

\* DEFECT: the list is not requested again.
ListAgainNever == UNCHANGED listTimers

\* setTimeout(requestChannels, 100)
ListAgain == listTimers' = listTimers + 1

\* The form, or /join.
joinChannel(c) ==
  /\ Composer /\ Operate
  /\ send(Joined(socket, c))
  /\ exists' = IF socket.state = "open" THEN exists \cup {c} ELSE exists
  /\ ListAgain
  /\ UNCHANGED <<session, ghosts, timer, connected, lists, monitor, feed>>

\* /switch and /leave, a chat or a direct message: the core may refuse it.
Command ==
  /\ Composer /\ Operate
  /\ \/ \E c \in Channels : send(Switched(socket, c)) \/ send(Left(socket, c))
     \/ \E answer \in {"line", "error"} : send(Answered(socket, <<answer>>))
  /\ UNCHANGED <<session, ghosts, timer, connected, lists, listTimers, monitor,
                 feed, exists>>

requestChannels ==
  /\ send(Listed(socket))
  /\ channelsLoaded' = (channelsLoaded /\ socket.state # "open")
  /\ UNCHANGED <<session, ghosts, timer, connected, activeChannel, users,
                 usersLoaded, channels, monitor, feed, exists>>

\* The button, or /list.
RefreshChannels ==
  Composer /\ Operate /\ requestChannels /\ UNCHANGED listTimers

ListTimer ==
  /\ listTimers > 0 /\ listTimers' = listTimers - 1
  /\ requestChannels /\ UNCHANGED operations

\* The button, or /who.
RefreshUsers ==
  /\ Composer /\ Operate
  /\ send(AskedWho(socket))
  /\ usersLoaded' = (usersLoaded /\ socket.state # "open")
  /\ UNCHANGED <<session, ghosts, timer, connected, activeChannel, users,
                 channels, channelsLoaded, listTimers, monitor, feed, exists>>

\* The button, or /stats.
RefreshStatistics ==
  /\ token # 0 /\ Operate
  /\ \E then \in {"show"} \cup (IF connected THEN {"command"} ELSE {}) :
       calls' = calls \cup {Call(token, then)}
  /\ UNCHANGED <<session, connection, lists, listTimers, statistics, feed,
                 exists>>

\* loadHistory and loadDirectHistory
LoadHistory ==
  /\ token # 0 /\ Operate
  /\ histories' = histories \cup {token}
  /\ UNCHANGED <<session, connection, lists, listTimers, monitor, messages,
                 exists>>

replaceMessages(n, t) ==
  messages' =
    Latest([i \in 1..n |-> Line("stored", t)], MessageLimit)

\* The response, whoever is signed in by now.
HistoryLoaded(t) ==
  /\ histories' = histories \ {t}
  /\ \/ UNCHANGED messages
     \/ \E n \in 0..MessageLimit + 1 : replaceMessages(n, t)
  /\ UNCHANGED <<session, connection, lists, listTimers, monitor, exists,
                 operations>>

\* clearMessages and showHelp
View ==
  /\ token # 0 /\ Operate
  /\ messages' = <<>> \/ pushLine("page", token)
  /\ UNCHANGED <<session, connection, lists, listTimers, monitor, histories,
                 exists>>

\* What others write, and the notices of the core.
OthersWrite ==
  /\ socket.state = "open" /\ Operate
  /\ socket' = Answered(socket, <<"line">>)
  /\ UNCHANGED <<session, ghosts, timer, connected, lists, listTimers, monitor,
                 feed, exists>>

\* The first event of a connection: the active channel is joined again.
Ready(s) ==
  /\ socket' = IF activeChannel # None THEN Joined(s, activeChannel) ELSE s
  /\ UNCHANGED lists

\* DEFECT: the list of the channel before stays, and counts as loaded.
EntersUnlisted(s, c) ==
  /\ activeChannel' = c
  /\ socket' = AskedWho(s)
  /\ UNCHANGED <<users, usersLoaded, channels, channelsLoaded>>

Enters(s, c) ==
  /\ activeChannel' = c /\ users' = None
  /\ socket' = AskedWho(s) /\ usersLoaded' = FALSE
  /\ UNCHANGED <<channels, channelsLoaded>>

Leaves(s) ==
  /\ activeChannel' = None /\ users' = None /\ usersLoaded' = FALSE
  /\ socket' = s
  /\ UNCHANGED <<channels, channelsLoaded>>

Shows(s, answer) ==
  /\ socket' = s
  /\ \/ /\ answer[1] = "who" /\ users' = answer[2] /\ usersLoaded' = TRUE
        /\ UNCHANGED <<activeChannel, channels, channelsLoaded>>
     \/ /\ answer[1] = "channels" /\ channels' = answer[2]
        /\ channelsLoaded' = TRUE
        /\ UNCHANGED <<activeChannel, users, usersLoaded>>

\* refreshStats at the end has the token of the page when the function was
\* made: none, if that was the page to sign in.
handleGatewayEvent ==
  /\ socket.state = "open" /\ socket.inbox # <<>>
  /\ LET event == Head(socket.inbox)
         s     == [socket EXCEPT !.inbox = Tail(@)]
     IN  /\ \/ event[1] = "ready" /\ Ready(s)
            \/ event[1] = "joined" /\ Enters(s, event[2])
            \/ event[1] = "left" /\ Leaves(s)
            \/ event[1] \in {"line", "error"} /\ socket' = s /\ UNCHANGED lists
            \/ Shows(s, event)
         /\ IF event[1] \in {"who", "channels"}
            THEN UNCHANGED messages
            ELSE pushLine(IF event[1] = "ready" THEN "page" ELSE "live",
                          socket.token)
  /\ \E t \in {0, initialSession} :
       calls' = calls \cup {Call(u, "show") : u \in {t} \ {0}}
  /\ UNCHANGED <<session, ghosts, timer, connected, listTimers, statistics,
                 histories, exists, operations>>

-----------------------------------------------------------------------------
Next ==
  \/ onopen \/ Lost \/ onclose \/ Reconnect
  \/ SignedIn \/ SignOut
  \/ \E c \in calls : refreshStats(c)
  \/ \E c \in Channels : joinChannel(c)
  \/ Command \/ RefreshChannels \/ ListTimer \/ RefreshUsers
  \/ RefreshStatistics \/ LoadHistory \/ View \/ OthersWrite
  \/ \E t \in histories : HistoryLoaded(t)
  \/ handleGatewayEvent

\* Events are handled and timers run down.  Nothing is assumed of the user
\* and of the requests.
Fairness ==
  WF_vars(handleGatewayEvent) /\ WF_vars(onclose) /\ WF_vars(ListTimer)

Spec == Init /\ [][Next]_vars /\ Fairness

-----------------------------------------------------------------------------
(* What is to be seen *)

ParticipantsPanel ==
  CASE ~connected -> "connect"
    [] connected /\ activeChannel = None -> "join"
    [] connected /\ activeChannel # None /\ ~usersLoaded -> "loading"
    [] OTHER -> "list"

ChannelsPanel ==
  CASE ~connected -> "connect"
    [] connected /\ ~channelsLoaded -> "loading"
    [] OTHER -> "list"

(* Properties *)

\* The participants shown under the name of a channel are those of that
\* channel, although the list is answered without saying of which it is.
ParticipantsMatch ==
  ParticipantsPanel = "list" => users = activeChannel

\* What came from the gateway is of the session that is signed in: nothing of
\* it outlives the session, whatever was under way when it ended.  Histories
\* and the lines of the page are not among it: they are not compared with the
\* session when they come.
OnlyThisSession ==
  /\ socket.state # "none" => socket.token = token /\ token # 0
  /\ {statistics.platform, statistics.core, statistics.stored} \subseteq {0, token}
  /\ \A i \in DOMAIN statistics.samples : statistics.samples[i] = token
  /\ \A i \in DOMAIN messages : messages[i].kind = "live" => messages[i].token = token
  /\ token = 0 => channels = {} /\ users = None

\* No panel goes on loading: the list comes, or the connection ends.
ListsSettle ==
  /\ ParticipantsPanel = "loading" ~> ParticipantsPanel # "loading"
  /\ ChannelsPanel = "loading" ~> ChannelsPanel # "loading"

\* A channel that the user has joined comes up in the list of channels, which
\* is requested a while after the JOIN and not when it has been answered.
ChannelListed ==
  \A c \in Channels :
    connected /\ activeChannel = c
      ~> c \in channels \/ activeChannel # c \/ ~connected
=============================================================================
