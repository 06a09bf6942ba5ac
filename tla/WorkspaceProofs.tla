-------------------------- MODULE WorkspaceProofs --------------------------
(***************************************************************************)
(* Proofs about Workspace, for any channels, limits and number of          *)
(* sessions and operations: nothing of the gateway outlives its session,   *)
(* the participants shown are those of the channel shown, and everything   *)
(* has its type, within its limits.                                        *)
(***************************************************************************)
EXTENDS Workspace, SequenceTheorems, TLAPS

Sockets ==
  [state : {"none", "connecting", "open", "closed"}, token : Nat,
   rooms : SUBSET Channels, room : Channels \cup {None}, inbox : Seq(Answers)]

Calls ==
  [token : Nat \ {0}, stage : {"stats", "core", "stored"},
   then : {"login", "restore", "command", "show"}]

\* What may be shown to the session t: live lines, and figures, of its own.
Lines(t) ==
  [kind : {"page", "stored"}, token : Nat]
    \cup [kind : {"live"}, token : {t} \ {0}]

Figures(t) ==
  [platform : {0, t}, core : {0, t}, stored : {0, t}, samples : Seq({t} \ {0})]

Shape ==
  /\ initialSession \in 0..1 /\ token \in Nat /\ sessions \in Nat
  /\ socket \in Sockets
  /\ calls \subseteq Calls /\ histories \subseteq Nat
  /\ exists \subseteq Channels
  /\ activeChannel \in Channels \cup {None}

Own ==
  /\ socket.state # "none" => socket.token = token /\ token # 0
  /\ statistics \in Figures(token)
  /\ messages \in Seq(Lines(token))
  /\ token = 0 => channels = {} /\ users = None

-----------------------------------------------------------------------------
(* Lines and samples *)

\* A suffix of a sequence has the elements of the sequence.
LEMMA LatestInSeq ==
  ASSUME NEW T, NEW s \in Seq(T), NEW n \in Nat
  PROVE  Latest(s, n) \in Seq(T)
<1> DEFINE first == IF Len(s) > n THEN Len(s) - n + 1 ELSE 1
<1>1. Len(s) \in Nat /\ first \in Int /\ first >= 1
  BY LenProperties
<1>2. \A i \in first .. Len(s) : s[i] \in T
  BY <1>1, ElementOfSeq
<1> QED
  BY <1>1, <1>2, SubSeqProperties DEF Latest

LEMMA PushedInSeq ==
  ASSUME NEW t, NEW ms \in Seq(Lines(t)), NEW kind, NEW u,
         Line(kind, u) \in Lines(t)
  PROVE  Pushed(ms, kind, u) \in Seq(Lines(t))
<1>1. Latest(ms, MessageLimit - 1) \in Seq(Lines(t))
  BY LatestInSeq, WorkspaceAssumption
<1> QED
  BY <1>1 DEF Pushed

LEMMA PageLine ==
  ASSUME NEW t, NEW u
  PROVE  Line("page", u) \in Lines(t)
BY DEF Line, Lines

LEMMA LiveLine ==
  ASSUME NEW t, t # 0
  PROVE  Line("live", t) \in Lines(t)
BY DEF Line, Lines

LEMMA StoredLine ==
  ASSUME NEW t, NEW u \in Nat
  PROVE  Line("stored", u) \in Lines(t)
BY DEF Line, Lines

\* The lines of nobody may be shown to anybody.
LEMMA LinesOfNobody ==
  ASSUME NEW t
  PROVE  Lines(0) \subseteq Lines(t)
BY DEF Lines

LEMMA FiguresOfNobody ==
  ASSUME NEW t, NEW f \in Figures(0)
  PROVE  f \in Figures(t)
<1>1. f.samples \in Seq({t} \ {0})
  BY SeqMonotonic DEF Figures
<1> QED
  BY <1>1 DEF Figures

LEMMA NoFigures ==
  ASSUME NEW t
  PROVE  NoStatistics \in Figures(t)
<1>1. <<>> \in Seq({t} \ {0})
  BY EmptySeq
<1> QED
  BY <1>1 DEF NoStatistics, Figures

-----------------------------------------------------------------------------
(* What becomes of a socket *)

Alike(r, s) == r \in Sockets /\ r.state = s.state /\ r.token = s.token

LEMMA AnsweredAlike ==
  ASSUME NEW s \in Sockets, NEW answer \in Answers
  PROVE  /\ Alike(Answered(s, answer), s)
         /\ Answered(s, answer).room = s.room
         /\ Answered(s, answer).rooms = s.rooms
         /\ Answered(s, answer).inbox = Append(s.inbox, answer)
<1> DEFINE box == Append(s.inbox, answer)
<1>1. box \in Seq(Answers)
  BY DEF Sockets
<1>2. Answered(s, answer) = [s EXCEPT !.inbox = box]
  BY DEF Answered
<1> HIDE DEF box
<1>3. /\ Alike([s EXCEPT !.inbox = box], s)
      /\ [s EXCEPT !.inbox = box].room = s.room
      /\ [s EXCEPT !.inbox = box].rooms = s.rooms
      /\ [s EXCEPT !.inbox = box].inbox = box
  BY <1>1 DEF Alike, Sockets
<1> QED
  BY <1>2, <1>3 DEF box

LEMMA InRoomAlike ==
  ASSUME NEW s \in Sockets, NEW rooms \in SUBSET Channels,
         NEW room \in Channels \cup {None}
  PROVE  LET r == [s EXCEPT !.rooms = rooms, !.room = room]
         IN  Alike(r, s) /\ r.room = room /\ r.inbox = s.inbox
BY DEF Alike, Sockets

LEMMA JoinedAlike ==
  ASSUME NEW s \in Sockets, NEW c \in Channels
  PROVE  /\ Alike(Joined(s, c), s) /\ Joined(s, c).room = c
         /\ Joined(s, c).inbox = Append(s.inbox, <<"joined", c>>)
<1> DEFINE rooms == s.rooms \cup {c}
           r     == [s EXCEPT !.rooms = rooms, !.room = c]
<1>1. rooms \in SUBSET Channels /\ c \in Channels \cup {None}
  BY DEF Sockets
<1>2. Alike(r, s) /\ r.room = c /\ r.inbox = s.inbox
  <2> HIDE DEF rooms
  <2> QED
    BY <1>1, InRoomAlike
<1> DEFINE m == <<"joined", c>>
<1>3. m \in Answers /\ Joined(s, c) = Answered(r, m)
  BY DEF Answers, Joined
<1> HIDE DEF r, m
<1>4. r \in Sockets
  BY <1>2 DEF Alike
<1>5. /\ Alike(Answered(r, m), r) /\ Answered(r, m).room = r.room
      /\ Answered(r, m).inbox = Append(r.inbox, m)
  BY <1>3, <1>4, AnsweredAlike
<1>6. /\ Alike(Joined(s, c), s) /\ Joined(s, c).room = c
      /\ Joined(s, c).inbox = Append(s.inbox, m)
  BY <1>2, <1>3, <1>5 DEF Alike
<1> QED
  BY <1>6 DEF m

LEMMA LeftAlike ==
  ASSUME NEW s \in Sockets, NEW c \in Channels, c \in s.rooms
  PROVE  /\ Alike(Left(s, c), s)
         /\ Left(s, c).inbox = Append(s.inbox, <<"left">>)
<1> DEFINE room  == IF s.room = c THEN None ELSE s.room
           rooms == s.rooms \ {c}
           r     == [s EXCEPT !.rooms = rooms, !.room = room]
<1>1. rooms \in SUBSET Channels /\ room \in Channels \cup {None}
  BY DEF Sockets
<1>2. Alike(r, s) /\ r.inbox = s.inbox
  <2> HIDE DEF rooms, room
  <2> QED
    BY <1>1, InRoomAlike
<1> DEFINE m == <<"left">>
<1>3. m \in Answers /\ Left(s, c) = Answered(r, m)
  BY DEF Answers, Left
<1> HIDE DEF r, m
<1>4. r \in Sockets
  BY <1>2 DEF Alike
<1>5. Alike(Answered(r, m), r) /\ Answered(r, m).inbox = Append(r.inbox, m)
  BY <1>3, <1>4, AnsweredAlike
<1>6. Alike(Left(s, c), s) /\ Left(s, c).inbox = Append(s.inbox, m)
  BY <1>2, <1>3, <1>5 DEF Alike
<1> QED
  BY <1>6 DEF m

LEMMA SimpleAnswers ==
  /\ {<<"ready">>, <<"left">>, <<"line">>, <<"error">>} \subseteq Answers
  /\ \A c \in Channels : <<"who", c>> \in Answers /\ <<"joined", c>> \in Answers
  /\ \A cs \in SUBSET Channels : <<"channels", cs>> \in Answers
BY DEF Answers

\* A socket that is not in use.
LEMMA IdleSocket ==
  ASSUME NEW state \in {"none", "connecting", "closed"}, NEW t \in Nat
  PROVE  LET r == [NoSocket EXCEPT !.state = state, !.token = t]
         IN  /\ r \in Sockets /\ r.state = state /\ r.token = t
             /\ r.room = None /\ r.inbox = <<>>
<1>1. <<>> \in Seq(Answers)
  BY EmptySeq
<1> QED
  BY <1>1 DEF NoSocket, Sockets

-----------------------------------------------------------------------------
(* Steps of a session that goes on *)

Kept == Shape /\ Own

\* What a step that leaves the session alone has to see to.
LEMMA KeptIf ==
  ASSUME Kept, UNCHANGED session,
         socket' \in Sockets,
         socket'.state # "none" => socket'.token = token /\ token # 0,
         statistics' \in Figures(token), messages' \in Seq(Lines(token)),
         token = 0 => channels' = {} /\ users' = None,
         calls' \subseteq Calls, histories' \subseteq Nat,
         exists' \subseteq Channels,
         activeChannel' \in Channels \cup {None}
  PROVE  Kept'
BY DEF Kept, Shape, Own, session

\* All of it, but for what is named, stays.
LEMMA KeptParts ==
  ASSUME Kept
  PROVE  /\ socket \in Sockets
         /\ socket.state # "none" => socket.token = token /\ token # 0
         /\ statistics \in Figures(token) /\ messages \in Seq(Lines(token))
         /\ token = 0 => channels = {} /\ users = None
         /\ calls \subseteq Calls /\ histories \subseteq Nat
         /\ exists \subseteq Channels
         /\ activeChannel \in Channels \cup {None}
         /\ token \in Nat
BY DEF Kept, Shape, Own

LEMMA AlikeIsOwn ==
  ASSUME Kept, NEW r, Alike(r, socket)
  PROVE  r \in Sockets /\ (r.state # "none" => r.token = token /\ token # 0)
BY KeptParts DEF Alike

LEMMA SendAlike ==
  ASSUME Kept, NEW r, Alike(r, socket), send(r)
  PROVE  Alike(socket', socket)
BY KeptParts DEF send, Alike

\* Only the socket changes, and is still the same one.
LEMMA SendKept ==
  ASSUME Kept, NEW r, Alike(r, socket), send(r),
         UNCHANGED <<session, statistics, messages, channels, users, calls,
                     histories, activeChannel>>,
         exists' \subseteq Channels
  PROVE  Kept'
BY SendAlike, AlikeIsOwn, KeptIf, KeptParts

LEMMA ListedAlike ==
  ASSUME Kept, NEW s \in Sockets
  PROVE  /\ Alike(Listed(s), s) /\ Listed(s).room = s.room
         /\ Listed(s).inbox = Append(s.inbox, <<"channels", exists>>)
<1>1. <<"channels", exists>> \in Answers
  BY KeptParts, SimpleAnswers
<1> QED
  BY <1>1, AnsweredAlike DEF Listed

LEMMA AskedWhoAlike ==
  ASSUME NEW s \in Sockets
  PROVE  Alike(AskedWho(s), s) /\ AskedWho(s).room = s.room
<1>1. s.room # None => <<"who", s.room>> \in Answers
  BY SimpleAnswers DEF Sockets
<1>2. <<"error">> \in Answers
  BY SimpleAnswers
<1> QED
  BY <1>1, <1>2, AnsweredAlike DEF AskedWho

\* Taking the first event, or any other change of the inbox.
LEMMA InboxAlike ==
  ASSUME NEW s \in Sockets, NEW box \in Seq(Answers)
  PROVE  LET r == [s EXCEPT !.inbox = box]
         IN  /\ Alike(r, s) /\ r.inbox = box /\ r.room = s.room
             /\ r.rooms = s.rooms
BY DEF Alike, Sockets

LEMMA TailAlike ==
  ASSUME NEW s \in Sockets, s.inbox # <<>>
  PROVE  LET r == [s EXCEPT !.inbox = Tail(@)]
         IN  Alike(r, s) /\ r.inbox = Tail(s.inbox) /\ r.room = s.room
<1>1. Tail(s.inbox) \in Seq(Answers)
  BY HeadTailProperties DEF Sockets
<1> QED
  BY <1>1, InboxAlike

\* What onopen makes of a socket that is connecting.
Greeted(s) == [s EXCEPT !.state = "open", !.inbox = <<<<"ready">>>>]

LEMMA GreetedIs ==
  ASSUME NEW s \in Sockets
  PROVE  /\ Greeted(s) \in Sockets /\ Greeted(s).token = s.token
         /\ Greeted(s).state = "open" /\ Greeted(s).room = s.room
         /\ Greeted(s).inbox = <<<<"ready">>>>
<1>1. <<<<"ready">>>> \in Seq(Answers)
  BY SimpleAnswers
<1> QED
  BY <1>1 DEF Greeted, Sockets

LEMMA OpenedIs ==
  ASSUME Kept
  PROVE  /\ Opened \in Sockets /\ Opened.token = socket.token
         /\ Opened.state = "open" /\ Opened.room = socket.room
         /\ Opened.inbox = Append(<<<<"ready">>>>, <<"channels", exists>>)
<1>1. Opened = Listed(Greeted(socket))
  BY DEF Opened, Greeted
<1> QED
  BY <1>1, KeptParts, GreetedIs, ListedAlike DEF Alike

LEMMA PagePushed ==
  ASSUME Kept, NEW u, pushLine("page", u)
  PROVE  messages' \in Seq(Lines(token))
BY KeptParts, PageLine, PushedInSeq DEF pushLine

LEMMA onopenKept ==
  ASSUME Kept, onopen
  PROVE  Kept'
<1>1. socket' = Opened /\ socket.state = "connecting" /\ pushLine("page", token)
  BY DEF onopen
<1>2. /\ socket' \in Sockets
      /\ socket'.state # "none" => socket'.token = token /\ token # 0
  BY <1>1, OpenedIs, KeptParts
<1> QED
  BY <1>1, <1>2, PagePushed, KeptIf, KeptParts
     DEF onopen, monitor

LEMMA LostKept ==
  ASSUME Kept, Lost
  PROVE  Kept'
<1>1. /\ socket' = [NoSocket EXCEPT !.state = "closed", !.token = socket.token]
      /\ socket.state \in {"connecting", "open"} /\ socket.token \in Nat
  BY KeptParts DEF Lost, Sockets
<1>2. socket' \in Sockets /\ socket'.token = socket.token
  BY <1>1, IdleSocket
<1> QED
  BY <1>1, <1>2, KeptIf, KeptParts DEF Lost, lists, monitor, feed

LEMMA NoSocketIs ==
  /\ NoSocket \in Sockets /\ NoSocket.state = "none"
  /\ NoSocket.room = None /\ NoSocket.inbox = <<>>
<1>1. <<>> \in Seq(Answers)
  BY EmptySeq
<1> QED
  BY <1>1 DEF NoSocket, Sockets

LEMMA oncloseKept ==
  ASSUME Kept, onclose
  PROVE  Kept'
<1>1. /\ socket' \in Sockets
      /\ socket'.state # "none" => socket'.token = token /\ token # 0
  BY NoSocketIs, KeptParts DEF onclose
<1>2. messages' \in Seq(Lines(token))
  BY PagePushed, KeptParts DEF onclose
<1> QED
  BY <1>1, <1>2, KeptIf, KeptParts DEF onclose, monitor

\* A new socket is the session's.
LEMMA connectIs ==
  ASSUME Kept, connect(token)
  PROVE  /\ socket' \in Sockets
         /\ socket'.state # "none" => socket'.token = token /\ token # 0
         /\ socket' # socket =>
              socket'.room = None /\ socket'.inbox = <<>>
<1>1. CASE /\ token # 0
           /\ socket' = [NoSocket EXCEPT !.state = "connecting", !.token = token]
  <2>1. /\ socket' \in Sockets /\ socket'.token = token
        /\ socket'.room = None /\ socket'.inbox = <<>>
    BY <1>1, IdleSocket, KeptParts
  <2> QED
    BY <1>1, <2>1
<1>2. CASE UNCHANGED socket
  BY <1>2, KeptParts
<1> QED
  BY <1>1, <1>2 DEF connect

LEMMA ReconnectKept ==
  ASSUME Kept, Reconnect
  PROVE  Kept'
BY connectIs, KeptIf, KeptParts DEF Reconnect, lists, monitor, feed

-----------------------------------------------------------------------------
(* The session begins and ends *)

\* Nobody had anything to see, so there is nothing of somebody else's.
LEMMA SignedInKept ==
  ASSUME Kept, SignedIn
  PROVE  Kept'
<1>1. token = 0 /\ sessions' = sessions + 1 /\ token' = sessions + 1
  BY DEF SignedIn
<1>2. sessions' \in Nat /\ token' \in Nat \ {0}
  BY <1>1 DEF Kept, Shape
<1>3. socket.state = "none" /\ socket' = socket
  BY <1>1, KeptParts DEF SignedIn, connection
<1>4. calls' \subseteq Calls
  BY <1>2, KeptParts DEF SignedIn, Call, Calls
<1>5. statistics' \in Figures(token')
  BY <1>1, FiguresOfNobody, KeptParts DEF SignedIn
<1>6. messages' \in Seq(Lines(token'))
  <2>1. messages \in Seq(Lines(0)) /\ messages' = messages
    BY <1>1, KeptParts DEF SignedIn, feed
  <2> QED
    BY <2>1, LinesOfNobody, SeqMonotonic
<1>7. Shape'
  BY <1>2, <1>3, <1>4, KeptParts DEF SignedIn, Shape, Kept, lists, feed
<1>8. Own'
  BY <1>2, <1>3, <1>5, <1>6 DEF Own
<1> QED
  BY <1>7, <1>8 DEF Kept

\* Signing out takes away all that there is to see, and leaves lines only of
\* the page itself.
LEMMA LogoutKept ==
  ASSUME Kept, logout, messages' \in Seq(Lines(0)),
         calls' \subseteq Calls, UNCHANGED <<histories, exists>>
  PROVE  Kept'
<1>1. statistics' \in Figures(0)
  BY NoFigures DEF logout
<1>2. Shape'
  BY NoSocketIs, KeptParts DEF logout, Shape, Kept
<1>3. Own'
  BY <1>1, NoSocketIs DEF logout, Own
<1> QED
  BY <1>2, <1>3 DEF Kept

LEMMA SignOutKept ==
  ASSUME Kept, SignOut
  PROVE  Kept'
<1>1. <<>> \in Seq(Lines(0))
  BY EmptySeq
<1> QED
  BY <1>1, LogoutKept, KeptParts DEF SignOut

-----------------------------------------------------------------------------
(* refreshStats *)

LEMMA AnnouncedInSeq ==
  ASSUME NEW t, NEW ms \in Seq(Lines(t)), NEW c
  PROVE  Announced(ms, c) \in Seq(Lines(t))
BY PageLine, PushedInSeq DEF Announced

LEMMA ReturnsKept ==
  ASSUME Kept, NEW c \in calls, NEW valid \in BOOLEAN, Returns(c, valid),
         statistics' \in Figures(token), UNCHANGED <<histories, exists>>
  PROVE  Kept'
<1>1. /\ socket' \in Sockets
      /\ socket'.state # "none" => socket'.token = token /\ token # 0
  BY connectIs, KeptParts DEF Returns
<1>2. messages' \in Seq(Lines(token))
  BY AnnouncedInSeq, KeptParts DEF Returns
<1> QED
  BY <1>1, <1>2, KeptIf, KeptParts DEF Returns, lists

LEMMA ProceedsKept ==
  ASSUME Kept, NEW c \in calls, Proceeds(c),
         statistics' \in Figures(token), UNCHANGED <<histories, exists>>
  PROVE  Kept'
<1>1. calls' \subseteq Calls
  <2>1. c \in Calls
    BY KeptParts
  <2>2. [c EXCEPT !.stage = IF @ = "stats" THEN "core" ELSE "stored"] \in Calls
    BY <2>1 DEF Calls
  <2> QED
    BY <2>2, KeptParts DEF Proceeds
<1> QED
  BY <1>1, KeptIf, KeptParts DEF Proceeds, connection, lists

LEMMA StatsRefusedKept ==
  ASSUME Kept, NEW c \in calls, StatsRefused(c)
  PROVE  Kept'
<1>1. <<>> \in Seq(Lines(0))
  BY EmptySeq
<1>2. messages' \in Seq(Lines(0))
  BY <1>1, AnnouncedInSeq DEF StatsRefused
<1> QED
  BY <1>2, LogoutKept, KeptParts DEF StatsRefused

LEMMA StatsFailsKept ==
  ASSUME Kept, NEW c \in calls, StatsFails(c)
  PROVE  Kept'
<1>1. statistics' \in Figures(token)
  BY KeptParts DEF StatsFails
<1> QED
  BY <1>1, ProceedsKept, ReturnsKept DEF StatsFails

LEMMA StatsThrowsKept ==
  ASSUME Kept, NEW c \in calls, StatsThrows(c)
  PROVE  Kept'
<1>1. statistics' \in Figures(token)
  BY KeptParts DEF StatsThrows
<1>2. CASE c.then = "login"
  BY <1>1, <1>2, ReturnsKept DEF StatsThrows
<1>3. CASE c.then # "login"
  BY <1>1, <1>3, KeptIf, KeptParts DEF StatsThrows, connection, lists
<1> QED
  BY <1>2, <1>3

LEMMA StatsLateKept ==
  ASSUME Kept, NEW c \in calls, StatsLate(c)
  PROVE  Kept'
<1>1. statistics' \in Figures(token)
  BY KeptParts DEF StatsLate
<1> QED
  BY <1>1, ReturnsKept DEF StatsLate

\* The comparison of tokens is what makes the figures the session's.
LEMMA StatsShownKept ==
  ASSUME Kept, NEW c \in calls, StatsShown(c)
  PROVE  Kept'
<1>1. c.token = token /\ token # 0
  BY KeptParts DEF StatsShown, Current, Calls
<1>2. statistics.samples \in Seq({token} \ {0})
  BY KeptParts DEF Figures
<1>3. recordMonitorSample(statistics.samples, c.token) \in Seq({token} \ {0})
  <2>1. Latest(statistics.samples, SampleLimit - 1) \in Seq({token} \ {0})
    BY <1>2, LatestInSeq, WorkspaceAssumption
  <2> QED
    BY <1>1, <2>1 DEF recordMonitorSample
<1> DEFINE sampled == recordMonitorSample(statistics.samples, c.token)
<1>4. /\ [statistics EXCEPT !.platform = c.token] \in Figures(token)
      /\ [statistics EXCEPT !.stored = c.token] \in Figures(token)
      /\ [statistics EXCEPT !.core = c.token, !.samples = sampled]
           \in Figures(token)
  <2>1. sampled \in Seq({token} \ {0})
    BY <1>3
  <2> HIDE DEF sampled
  <2> QED
    BY <1>1, <2>1, KeptParts DEF Figures
<1>5. statistics' \in Figures(token)
  BY <1>4 DEF StatsShown
<1> QED
  BY <1>5, ProceedsKept, ReturnsKept DEF StatsShown

LEMMA refreshStatsKept ==
  ASSUME Kept, NEW c \in calls, refreshStats(c)
  PROVE  Kept'
BY StatsRefusedKept, StatsFailsKept, StatsThrowsKept, StatsLateKept,
   StatsShownKept DEF refreshStats

-----------------------------------------------------------------------------
(* The user and the others *)

LEMMA joinChannelKept ==
  ASSUME Kept, NEW c \in Channels, joinChannel(c)
  PROVE  Kept'
<1>1. Alike(Joined(socket, c), socket)
  BY JoinedAlike, KeptParts
<1>2. exists' \subseteq Channels
  BY KeptParts DEF joinChannel
<1> QED
  BY <1>1, <1>2, SendKept DEF joinChannel, lists, monitor, feed

LEMMA SwitchedAlike ==
  ASSUME NEW s \in Sockets, NEW c \in Channels
  PROVE  Alike(Switched(s, c), s)
BY JoinedAlike, AnsweredAlike, SimpleAnswers DEF Switched

LEMMA LeavingAlike ==
  ASSUME NEW s \in Sockets, NEW c \in Channels
  PROVE  Alike(Left(s, c), s)
<1>1. CASE c \in s.rooms
  BY <1>1, LeftAlike
<1>2. CASE c \notin s.rooms
  BY <1>2, AnsweredAlike, SimpleAnswers DEF Left
<1> QED
  BY <1>1, <1>2

LEMMA CommandKept ==
  ASSUME Kept, Command
  PROVE  Kept'
<1>1. \E r : Alike(r, socket) /\ send(r)
  <2>1. CASE \E c \in Channels : send(Switched(socket, c)) \/ send(Left(socket, c))
    BY <2>1, SwitchedAlike, LeavingAlike, KeptParts
  <2>2. CASE \E answer \in {"line", "error"} : send(Answered(socket, <<answer>>))
    <3>1. PICK answer \in {"line", "error"} : send(Answered(socket, <<answer>>))
      BY <2>2
    <3>2. <<answer>> \in Answers
      BY SimpleAnswers
    <3> QED
      BY <3>1, <3>2, AnsweredAlike, KeptParts
  <2> QED
    BY <2>1, <2>2 DEF Command
<1>2. PICK r : Alike(r, socket) /\ send(r)
  BY <1>1
<1> QED
  BY <1>2, SendKept, KeptParts DEF Command, lists, monitor, feed

LEMMA requestChannelsKept ==
  ASSUME Kept, requestChannels
  PROVE  Kept'
<1>1. Alike(Listed(socket), socket)
  BY ListedAlike, KeptParts
<1> QED
  BY <1>1, SendKept, KeptParts DEF requestChannels, monitor, feed

LEMMA RefreshUsersKept ==
  ASSUME Kept, RefreshUsers
  PROVE  Kept'
<1>1. Alike(AskedWho(socket), socket)
  BY AskedWhoAlike, KeptParts
<1> QED
  BY <1>1, SendKept, KeptParts DEF RefreshUsers, monitor, feed

LEMMA RefreshStatisticsKept ==
  ASSUME Kept, RefreshStatistics
  PROVE  Kept'
<1>1. calls' \subseteq Calls
  BY KeptParts DEF RefreshStatistics, Call, Calls
<1> QED
  BY <1>1, KeptIf, KeptParts DEF RefreshStatistics, connection, lists, feed

LEMMA LoadHistoryKept ==
  ASSUME Kept, LoadHistory
  PROVE  Kept'
<1>1. histories' \subseteq Nat
  BY KeptParts DEF LoadHistory
<1> QED
  BY <1>1, KeptIf, KeptParts DEF LoadHistory, connection, lists, monitor

LEMMA HistoryLoadedKept ==
  ASSUME Kept, NEW t \in histories, HistoryLoaded(t)
  PROVE  Kept'
<1>1. ASSUME NEW n \in 0..MessageLimit + 1, replaceMessages(n, t)
      PROVE  messages' \in Seq(Lines(token))
  <2>1. Line("stored", t) \in Lines(token)
    BY StoredLine, KeptParts
  <2>2. n \in Nat /\ MessageLimit \in Nat
    BY WorkspaceAssumption
  <2> DEFINE all == [i \in 1..n |-> Line("stored", t)]
  <2>3. all \in Seq(Lines(token))
    BY <2>1, <2>2
  <2> QED
    BY <1>1, <2>2, <2>3, LatestInSeq DEF replaceMessages
<1>2. messages' \in Seq(Lines(token))
  BY <1>1, KeptParts DEF HistoryLoaded
<1>3. histories' \subseteq Nat
  BY KeptParts DEF HistoryLoaded
<1> QED
  BY <1>2, <1>3, KeptIf, KeptParts DEF HistoryLoaded, connection, lists, monitor

LEMMA ViewKept ==
  ASSUME Kept, View
  PROVE  Kept'
<1>1. messages' \in Seq(Lines(token))
  BY PagePushed, EmptySeq DEF View
<1> QED
  BY <1>1, KeptIf, KeptParts DEF View, connection, lists, monitor

LEMMA OthersWriteKept ==
  ASSUME Kept, OthersWrite
  PROVE  Kept'
<1>1. Alike(Answered(socket, <<"line">>), socket)
  BY AnsweredAlike, SimpleAnswers, KeptParts
<1>2. send(Answered(socket, <<"line">>))
  BY DEF OthersWrite, send
<1> QED
  BY <1>1, <1>2, SendKept, KeptParts DEF OthersWrite, lists, monitor, feed

-----------------------------------------------------------------------------
(* Events *)

\* The events that carry a channel.
LEMMA EventShape ==
  ASSUME NEW event \in Answers
  PROVE  event[1] \in {"joined", "who"} => event[2] \in Channels
<1>1. CASE event \in {"joined", "who"} \X Channels
  BY <1>1
<1>2. CASE event \in {"channels"} \X SUBSET Channels
  BY <1>2
<1>3. CASE event \in {<<"ready">>, <<"left">>, <<"line">>, <<"error">>}
  BY <1>3
<1> QED
  BY <1>1, <1>2, <1>3 DEF Answers

\* What an event does to the socket and the lists.
Handled(event, s) ==
  \/ event[1] = "ready" /\ Ready(s)
  \/ event[1] = "joined" /\ Enters(s, event[2])
  \/ event[1] = "left" /\ Leaves(s)
  \/ event[1] \in {"line", "error"} /\ socket' = s /\ UNCHANGED lists
  \/ Shows(s, event)

LEMMA HandledIs ==
  ASSUME Kept, NEW event \in Answers, NEW s, Alike(s, socket),
         Handled(event, s)
  PROVE  Alike(socket', socket) /\ activeChannel' \in Channels \cup {None}
<1>0. s \in Sockets /\ activeChannel \in Channels \cup {None}
  BY KeptParts DEF Alike
<1>1. CASE event[1] = "ready" /\ Ready(s)
  BY <1>0, <1>1, JoinedAlike DEF Ready, Alike, lists
<1>2. CASE event[1] = "joined" /\ Enters(s, event[2])
  BY <1>0, <1>2, EventShape, AskedWhoAlike DEF Enters, Alike
<1>3. CASE event[1] = "left" /\ Leaves(s)
  BY <1>3 DEF Leaves
<1>4. CASE event[1] \in {"line", "error"} /\ socket' = s /\ UNCHANGED lists
  BY <1>0, <1>4 DEF lists
<1>5. CASE Shows(s, event)
  BY <1>0, <1>5 DEF Shows
<1> QED
  BY <1>1, <1>2, <1>3, <1>4, <1>5 DEF Handled

LEMMA FirstEvent ==
  ASSUME Kept, handleGatewayEvent
  PROVE  LET s == [socket EXCEPT !.inbox = Tail(@)]
         IN  /\ Head(socket.inbox) \in Answers
             /\ Alike(s, socket) /\ s.inbox = Tail(socket.inbox)
             /\ s.room = socket.room
             /\ Handled(Head(socket.inbox), s)
<1>1. socket.inbox \in Seq(Answers) /\ socket.inbox # <<>>
  BY KeptParts DEF handleGatewayEvent, Sockets
<1>2. Head(socket.inbox) \in Answers
  BY <1>1, HeadTailProperties
<1>3. Handled(Head(socket.inbox), [socket EXCEPT !.inbox = Tail(@)])
  BY DEF handleGatewayEvent, Handled
<1> QED
  BY <1>1, <1>2, <1>3, TailAlike, KeptParts

LEMMA handleGatewayEventKept ==
  ASSUME Kept, handleGatewayEvent
  PROVE  Kept'
<1>1. Alike(socket', socket) /\ activeChannel' \in Channels \cup {None}
  BY FirstEvent, HandledIs
<1>2. token # 0 /\ socket.token = token
  BY KeptParts DEF handleGatewayEvent
<1>3. messages' \in Seq(Lines(token))
  <2>1. \/ UNCHANGED messages
        \/ pushLine("page", socket.token) \/ pushLine("live", socket.token)
    BY DEF handleGatewayEvent
  <2> QED
    BY <1>2, <2>1, PagePushed, LiveLine, PushedInSeq, KeptParts DEF pushLine
<1>4. calls' \subseteq Calls
  <2>1. initialSession \in Nat
    BY DEF Kept, Shape
  <2> QED
    BY <2>1, KeptParts DEF handleGatewayEvent, Call, Calls
<1> QED
  BY <1>1, <1>2, <1>3, <1>4, AlikeIsOwn, KeptIf, KeptParts
     DEF handleGatewayEvent

-----------------------------------------------------------------------------
(* Nothing outlives its session *)

LEMMA InitKept == Init => Kept
<1> SUFFICES ASSUME Init PROVE Kept
  OBVIOUS
<1>1. <<>> \in Seq(Lines(token)) /\ NoStatistics \in Figures(token)
  BY EmptySeq, NoFigures
<1>2. calls \subseteq Calls
  BY DEF Init, Call, Calls
<1> QED
  BY <1>1, <1>2, NoSocketIs DEF Init, Kept, Shape, Own

LEMMA NextKept ==
  ASSUME Kept, [Next]_vars
  PROVE  Kept'
<1>1. CASE UNCHANGED vars
  BY <1>1 DEF Kept, Shape, Own, vars, session, connection, lists, monitor, feed
<1>2. CASE Next
  <2>1. CASE RefreshChannels
    BY <2>1, requestChannelsKept DEF RefreshChannels
  <2>2. CASE ListTimer
    BY <2>2, requestChannelsKept DEF ListTimer
  <2> QED
    BY <1>2, <2>1, <2>2, onopenKept, LostKept, oncloseKept, ReconnectKept,
       SignedInKept, SignOutKept, refreshStatsKept, joinChannelKept,
       CommandKept, RefreshUsersKept, RefreshStatisticsKept, LoadHistoryKept,
       ViewKept, OthersWriteKept, HistoryLoadedKept, handleGatewayEventKept
       DEF Next
<1> QED
  BY <1>1, <1>2

\* A socket, figures of the monitor, samples and live messages are of the
\* session that is signed in, whatever was under way when another one ended.
THEOREM NothingOutlives == Spec => []OnlyThisSession
<1>1. Kept => OnlyThisSession
  <2> SUFFICES ASSUME Kept PROVE OnlyThisSession
    OBVIOUS
  <2>1. {statistics.platform, statistics.core, statistics.stored} \subseteq {0, token}
    BY KeptParts DEF Figures
  <2>2. ASSUME NEW i \in DOMAIN statistics.samples
        PROVE  statistics.samples[i] = token
    <3>1. statistics.samples \in Seq({token} \ {0})
      BY KeptParts DEF Figures
    <3> QED
      BY <2>2, <3>1, LenProperties, ElementOfSeq
  <2>3. ASSUME NEW i \in DOMAIN messages, messages[i].kind = "live"
        PROVE  messages[i].token = token
    <3>1. messages[i] \in Lines(token)
      BY LenProperties, ElementOfSeq, KeptParts
    <3> QED
      BY <2>3, <3>1 DEF Lines
  <2> QED
    BY <2>1, <2>2, <2>3, KeptParts DEF OnlyThisSession
<1> QED
  BY <1>1, InitKept, NextKept, PTL DEF Spec

-----------------------------------------------------------------------------
(* The participants are those of the channel *)

Decides(event) == event[1] \in {"joined", "left"}

\* Once the events before the i-th have been handled, the page shows c or no
\* channel: the last of them that decides it says so, or there is none.
Believes(box, shown, i, c) ==
  \/ \E j \in 1..i - 1 :
       /\ box[j][1] = "left" \/ (box[j][1] = "joined" /\ box[j][2] = c)
       /\ \A k \in j + 1..i - 1 : ~Decides(box[k])
  \/ shown \in {None, c} /\ \A k \in 1..i - 1 : ~Decides(box[k])

\* Every list on its way is of the channel that will be shown when it comes,
\* and so is the one that the core would send now.
Agrees(box, room, shown) ==
  /\ \A i \in 1..Len(box) : box[i][1] = "who" => Believes(box, shown, i, box[i][2])
  /\ room # None => Believes(box, shown, Len(box) + 1, room)

Matching ==
  /\ Agrees(socket.inbox, socket.room, activeChannel)
  /\ socket.state # "open" => socket.room = None
  /\ activeChannel # None /\ usersLoaded => users = activeChannel

\* An event more changes nothing for the events before it.
LEMMA BelievesAppended ==
  ASSUME NEW box \in Seq(Answers), NEW event \in Answers, NEW shown, NEW c,
         NEW i \in 1..Len(box) + 1, Believes(box, shown, i, c)
  PROVE  Believes(Append(box, event), shown, i, c)
<1>1. \A j \in 1..i - 1 : Append(box, event)[j] = box[j]
  BY LenProperties
<1> DEFINE more == Append(box, event)
<1>2. \A j \in 1..i - 1 : more[j] = box[j]
  BY <1>1
<1> HIDE DEF more
<1>3. Len(box) \in Nat
  BY LenProperties
<1>4. Believes(more, shown, i, c)
  BY <1>2, <1>3 DEF Believes
<1> QED
  BY <1>4 DEF more

\* The core answers: a list of its room, an entry into it, or nothing of both.
LEMMA AgreesAppended ==
  ASSUME NEW box \in Seq(Answers), NEW room, NEW shown, Agrees(box, room, shown),
         NEW event \in Answers, NEW next,
         event[1] = "who" => event[2] = room /\ room # None,
         \/ event[1] = "joined" /\ next = event[2]
         \/ event[1] = "left"
         \/ ~Decides(event) /\ next \in {None, room}
  PROVE  Agrees(Append(box, event), next, shown)
<1> DEFINE more == Append(box, event)
<1>1. /\ Len(box) \in Nat /\ Len(more) = Len(box) + 1
      /\ more[Len(box) + 1] = event
      /\ \A j \in 1..Len(box) : more[j] = box[j]
  BY LenProperties
<1>2. \A i \in 1..Len(box) + 1 : \A c :
        Believes(box, shown, i, c) => Believes(more, shown, i, c)
  BY BelievesAppended
<1> HIDE DEF more
<1>3. ASSUME NEW i \in 1..Len(more), more[i][1] = "who"
      PROVE  Believes(more, shown, i, more[i][2])
  <2>1. CASE i <= Len(box)
    BY <1>1, <1>2, <1>3, <2>1 DEF Agrees
  <2>2. CASE i = Len(box) + 1
    BY <1>1, <1>2, <1>3, <2>2 DEF Agrees
  <2> QED
    BY <1>1, <2>1, <2>2
<1>4. ASSUME next # None
      PROVE  Believes(more, shown, Len(more) + 1, next)
  <2>1. CASE event[1] = "left" \/ (event[1] = "joined" /\ next = event[2])
    <3>1. Len(box) + 1 \in 1..(Len(more) + 1) - 1
      BY <1>1
    <3>2. \A k \in (Len(box) + 1) + 1..(Len(more) + 1) - 1 : FALSE
      BY <1>1
    <3> QED
      BY <1>1, <2>1, <3>1, <3>2 DEF Believes
  <2>2. CASE ~Decides(event) /\ next = room
    <3>1. Believes(box, shown, Len(box) + 1, room)
      BY <1>4, <2>2 DEF Agrees
    <3>2. \A k \in 1..(Len(more) + 1) - 1 :
            k \in 1..(Len(box) + 1) - 1 \/ more[k] = event
      BY <1>1
    <3>3. Believes(more, shown, Len(box) + 1, room)
      BY <1>1, <1>2, <3>1
    <3> QED
      BY <1>1, <2>2, <3>2, <3>3 DEF Believes
  <2> QED
    BY <1>4, <2>1, <2>2 DEF Decides
<1>5. Agrees(more, next, shown)
  BY <1>3, <1>4 DEF Agrees
<1> QED
  BY <1>5 DEF more

\* What the page shows once it has handled the first event.
Shown(event, shown, next) ==
  \/ event[1] = "joined" /\ next = event[2]
  \/ event[1] = "left" /\ next = None
  \/ ~Decides(event) /\ next = shown

LEMMA BelievesTail ==
  ASSUME NEW box \in Seq(Answers), box # <<>>, NEW shown, NEW next,
         Shown(box[1], shown, next), NEW c,
         NEW i \in 2..Len(box) + 1, Believes(box, shown, i, c)
  PROVE  Believes(Tail(box), next, i - 1, c)
<1> DEFINE rest == Tail(box)
<1>1. /\ Len(box) \in Nat /\ Len(rest) = Len(box) - 1
      /\ \A j \in 1..Len(box) - 1 : rest[j] = box[j + 1]
  BY LenProperties, HeadTailProperties
<1> HIDE DEF rest
<1>2. \A k \in 1..i - 2 : rest[k] = box[k + 1] /\ k + 1 \in 2..i - 1
  BY <1>1
<1>3. CASE shown \in {None, c} /\ \A k \in 1..i - 1 : ~Decides(box[k])
  <2>1. ~Decides(box[1]) /\ next = shown
    BY <1>1, <1>3 DEF Shown, Decides
  <2>2. \A k \in 1..(i - 1) - 1 : ~Decides(rest[k])
    BY <1>2, <1>3
  <2> QED
    BY <1>3, <2>1, <2>2 DEF Believes, rest
<1>4. ASSUME NEW j \in 1..i - 1,
             box[j][1] = "left" \/ (box[j][1] = "joined" /\ box[j][2] = c),
             \A k \in j + 1..i - 1 : ~Decides(box[k])
      PROVE  Believes(rest, next, i - 1, c)
  <2>1. CASE j = 1
    <3>1. next \in {None, c}
      BY <1>4, <2>1 DEF Shown, Decides
    <3>2. \A k \in 1..(i - 1) - 1 : ~Decides(rest[k])
      BY <1>2, <1>4, <2>1
    <3> QED
      BY <3>1, <3>2 DEF Believes
  <2>2. CASE j # 1
    <3>1. j - 1 \in 1..(i - 1) - 1 /\ rest[j - 1] = box[j]
      BY <1>1, <2>2
    <3>2. \A k \in (j - 1) + 1..(i - 1) - 1 : ~Decides(rest[k])
      <4>1. \A k \in j..i - 2 : k \in 1..i - 2 /\ k + 1 \in j + 1..i - 1
        OBVIOUS
      <4> QED
        BY <1>2, <1>4, <4>1
    <3> QED
      BY <1>4, <3>1, <3>2 DEF Believes
  <2> QED
    BY <2>1, <2>2
<1> QED
  BY <1>3, <1>4 DEF Believes, rest

LEMMA AgreesTail ==
  ASSUME NEW box \in Seq(Answers), box # <<>>, NEW shown, NEW next, NEW room,
         Shown(box[1], shown, next), Agrees(box, room, shown)
  PROVE  Agrees(Tail(box), room, next)
<1> DEFINE rest == Tail(box)
<1>1. /\ Len(box) \in Nat /\ Len(rest) = Len(box) - 1
      /\ \A j \in 1..Len(rest) : rest[j] = box[j + 1]
  BY LenProperties, HeadTailProperties
<1>2. \A i \in 2..Len(box) + 1 : \A c :
        Believes(box, shown, i, c) => Believes(rest, next, i - 1, c)
  BY BelievesTail
<1> HIDE DEF rest
<1>3. ASSUME NEW i \in 1..Len(rest), rest[i][1] = "who"
      PROVE  Believes(rest, next, i, rest[i][2])
  <2>1. i + 1 \in 1..Len(box) /\ i + 1 \in 2..Len(box) + 1 /\ (i + 1) - 1 = i
    BY <1>1
  <2>2. Believes(box, shown, i + 1, box[i + 1][2])
    BY <1>1, <1>3, <2>1 DEF Agrees
  <2> QED
    BY <1>1, <1>2, <2>1, <2>2
<1>4. ASSUME room # None
      PROVE  Believes(rest, next, Len(rest) + 1, room)
  <2>1. /\ Len(box) + 1 \in 2..Len(box) + 1
        /\ (Len(box) + 1) - 1 = Len(rest) + 1
    <3>1. Len(box) # 0
      BY EmptySeq
    <3> QED
      BY <1>1, <3>1
  <2> QED
    BY <1>2, <1>4, <2>1 DEF Agrees
<1> QED
  BY <1>3, <1>4 DEF Agrees, rest

\* A socket that is not in use has nothing to disagree with.
LEMMA AgreesIdle ==
  ASSUME NEW shown
  PROVE  Agrees(<<>>, None, shown)
BY DEF Agrees

AgreesWith(s, shown) == Agrees(s.inbox, s.room, shown)

LEMMA AnsweredAgrees ==
  ASSUME NEW s \in Sockets, NEW shown, AgreesWith(s, shown),
         NEW event \in Answers, event[1] \notin {"joined", "left"},
         event[1] = "who" => event[2] = s.room /\ s.room # None
  PROVE  AgreesWith(Answered(s, event), shown)
<1>1. s.inbox \in Seq(Answers) /\ ~Decides(event)
  BY DEF Sockets, Decides
<1>2. Agrees(Append(s.inbox, event), s.room, shown)
  BY <1>1, AgreesAppended DEF AgreesWith
<1> QED
  BY <1>2, AnsweredAlike DEF AgreesWith

LEMMA JoinedAgrees ==
  ASSUME NEW s \in Sockets, NEW shown, AgreesWith(s, shown), NEW c \in Channels
  PROVE  AgreesWith(Joined(s, c), shown)
<1> DEFINE event == <<"joined", c>>
<1>1. event \in Answers /\ event[1] = "joined" /\ event[2] = c
  BY SimpleAnswers
<1>2. s.inbox \in Seq(Answers)
  BY DEF Sockets
<1> HIDE DEF event
<1>3. Agrees(Append(s.inbox, event), c, shown)
  BY <1>1, <1>2, AgreesAppended DEF AgreesWith
<1> QED
  BY <1>3, JoinedAlike DEF AgreesWith, event

LEMMA ErrorAgrees ==
  ASSUME NEW s \in Sockets, NEW shown, AgreesWith(s, shown),
         NEW kind \in {"line", "error"}
  PROVE  AgreesWith(Answered(s, <<kind>>), shown)
<1>1. <<kind>> \in Answers /\ <<kind>>[1] = kind
  BY SimpleAnswers
<1> QED
  BY <1>1, AnsweredAgrees

LEMMA SwitchedAgrees ==
  ASSUME NEW s \in Sockets, NEW shown, AgreesWith(s, shown), NEW c \in Channels
  PROVE  AgreesWith(Switched(s, c), shown)
BY JoinedAgrees, ErrorAgrees DEF Switched

LEMMA LeavingAgrees ==
  ASSUME NEW s \in Sockets, NEW shown, AgreesWith(s, shown), NEW c \in Channels
  PROVE  AgreesWith(Left(s, c), shown)
<1>1. CASE c \in s.rooms
  <2> DEFINE event == <<"left">>
  <2>1. event \in Answers /\ event[1] = "left"
    BY SimpleAnswers
  <2>2. s.inbox \in Seq(Answers)
    BY DEF Sockets
  <2> HIDE DEF event
  <2>3. Agrees(Append(s.inbox, event), Left(s, c).room, shown)
    BY <2>1, <2>2, AgreesAppended DEF AgreesWith
  <2> QED
    BY <1>1, <2>3, LeftAlike DEF AgreesWith, event
<1>2. CASE c \notin s.rooms
  BY <1>2, ErrorAgrees DEF Left
<1> QED
  BY <1>1, <1>2

\* The list that the core sends is of the room that the page will show.
LEMMA AskedWhoAgrees ==
  ASSUME NEW s \in Sockets, NEW shown, AgreesWith(s, shown)
  PROVE  AgreesWith(AskedWho(s), shown)
<1>1. CASE s.room # None
  <2> DEFINE event == <<"who", s.room>>
  <2>1. event \in Answers /\ event[1] = "who" /\ event[2] = s.room
    BY <1>1, SimpleAnswers DEF Sockets
  <2>2. AskedWho(s) = Answered(s, event)
    BY <1>1 DEF AskedWho
  <2> HIDE DEF event
  <2> QED
    BY <1>1, <2>1, <2>2, AnsweredAgrees
<1>2. CASE s.room = None
  BY <1>2, ErrorAgrees DEF AskedWho
<1> QED
  BY <1>1, <1>2

LEMMA ListedAgrees ==
  ASSUME Kept, NEW s \in Sockets, NEW shown, AgreesWith(s, shown)
  PROVE  AgreesWith(Listed(s), shown)
<1> DEFINE event == <<"channels", exists>>
<1>1. event \in Answers /\ event[1] = "channels"
  BY KeptParts, SimpleAnswers
<1>2. Listed(s) = Answered(s, event)
  BY DEF Listed
<1> HIDE DEF event
<1> QED
  BY <1>1, <1>2, AnsweredAgrees

-----------------------------------------------------------------------------
(* The steps *)

IInv == Kept /\ Matching

LEMMA SendMatching ==
  ASSUME IInv, NEW r, Alike(r, socket), AgreesWith(r, activeChannel), send(r),
         UNCHANGED <<activeChannel, users>>, usersLoaded' => usersLoaded
  PROVE  Matching'
BY DEF IInv, Matching, Alike, AgreesWith, send

LEMMA OldSocketAgrees ==
  ASSUME IInv
  PROVE  socket \in Sockets /\ AgreesWith(socket, activeChannel)
BY KeptParts DEF IInv, Matching, AgreesWith

\* A step that changes neither the socket nor what is shown.
LEMMA SameMatching ==
  ASSUME IInv, UNCHANGED <<socket, lists>>
  PROVE  Matching'
BY DEF IInv, Matching, lists

LEMMA onopenMatching ==
  ASSUME IInv, onopen
  PROVE  Matching'
<1>1. socket \in Sockets /\ socket.room = None
  BY OldSocketAgrees DEF IInv, Matching, onopen
<1> DEFINE s == Greeted(socket)
<1>2. s \in Sockets /\ s.room = None /\ s.inbox = <<<<"ready">>>>
  BY <1>1, GreetedIs
<1>3. AgreesWith(s, activeChannel)
  BY <1>2 DEF AgreesWith, Agrees
<1>4. Opened = Listed(s)
  BY DEF Opened, Greeted
<1> HIDE DEF s
<1>5. AgreesWith(Opened, activeChannel)
  BY <1>2, <1>3, <1>4, ListedAgrees DEF IInv
<1>6. Opened.state = "open"
  BY OpenedIs DEF IInv
<1> QED
  BY <1>5, <1>6 DEF onopen, IInv, Matching, AgreesWith

LEMMA LostMatching ==
  ASSUME IInv, Lost
  PROVE  Matching'
<1>1. socket.token \in Nat
  BY OldSocketAgrees DEF Sockets
<1>2. socket'.room = None /\ socket'.inbox = <<>>
  BY <1>1, IdleSocket DEF Lost
<1> QED
  BY <1>2, AgreesIdle DEF Lost, lists, IInv, Matching

LEMMA oncloseMatching ==
  ASSUME IInv, onclose
  PROVE  Matching'
<1>1. CASE UNCHANGED socket
  BY <1>1 DEF onclose, IInv, Matching
<1>2. CASE socket' = NoSocket
  BY <1>2, NoSocketIs, AgreesIdle DEF onclose, IInv, Matching
<1> QED
  BY <1>1, <1>2 DEF onclose

LEMMA connectMatching ==
  ASSUME IInv, connect(token), UNCHANGED lists
  PROVE  Matching'
<1>1. CASE UNCHANGED socket
  BY <1>1, SameMatching
<1>2. CASE socket' # socket
  <2>1. socket'.room = None /\ socket'.inbox = <<>>
    BY <1>2, connectIs DEF IInv
  <2> QED
    BY <2>1, AgreesIdle DEF lists, IInv, Matching
<1> QED
  BY <1>1, <1>2

LEMMA logoutMatching ==
  ASSUME logout
  PROVE  Matching'
BY NoSocketIs, AgreesIdle DEF logout, Matching

LEMMA refreshStatsMatching ==
  ASSUME IInv, NEW c \in calls, refreshStats(c)
  PROVE  Matching'
<1>1. CASE \E valid \in BOOLEAN : Returns(c, valid)
  BY <1>1, connectMatching, SameMatching DEF Returns
<1>2. CASE Proceeds(c)
  BY <1>2, SameMatching DEF Proceeds, connection
<1>3. CASE StatsRefused(c)
  BY <1>3, logoutMatching DEF StatsRefused
<1>4. CASE UNCHANGED <<connection, lists>>
  BY <1>4, SameMatching DEF connection
<1> QED
  BY <1>1, <1>2, <1>3, <1>4
     DEF refreshStats, StatsFails, StatsThrows, StatsLate, StatsShown

LEMMA joinChannelMatching ==
  ASSUME IInv, NEW c \in Channels, joinChannel(c)
  PROVE  Matching'
BY OldSocketAgrees, JoinedAlike, JoinedAgrees, SendMatching
   DEF joinChannel, lists

LEMMA CommandMatching ==
  ASSUME IInv, Command
  PROVE  Matching'
<1>1. \A c \in Channels :
        /\ Alike(Switched(socket, c), socket)
        /\ AgreesWith(Switched(socket, c), activeChannel)
        /\ Alike(Left(socket, c), socket)
        /\ AgreesWith(Left(socket, c), activeChannel)
  BY OldSocketAgrees, SwitchedAlike, SwitchedAgrees, LeavingAlike, LeavingAgrees
<1>2. \A answer \in {"line", "error"} :
        /\ Alike(Answered(socket, <<answer>>), socket)
        /\ AgreesWith(Answered(socket, <<answer>>), activeChannel)
  BY OldSocketAgrees, AnsweredAlike, SimpleAnswers, ErrorAgrees
<1>3. \E r : Alike(r, socket) /\ AgreesWith(r, activeChannel) /\ send(r)
  BY <1>1, <1>2 DEF Command
<1> QED
  BY <1>3, SendMatching DEF Command, lists

LEMMA requestChannelsMatching ==
  ASSUME IInv, requestChannels
  PROVE  Matching'
<1>1. Alike(Listed(socket), socket) /\ AgreesWith(Listed(socket), activeChannel)
  BY OldSocketAgrees, ListedAlike, ListedAgrees DEF IInv
<1> QED
  BY <1>1, SendMatching DEF requestChannels

LEMMA RefreshUsersMatching ==
  ASSUME IInv, RefreshUsers
  PROVE  Matching'
<1>1. Alike(AskedWho(socket), socket) /\ AgreesWith(AskedWho(socket), activeChannel)
  BY OldSocketAgrees, AskedWhoAlike, AskedWhoAgrees
<1> QED
  BY <1>1, SendMatching DEF RefreshUsers

LEMMA OthersWriteMatching ==
  ASSUME IInv, OthersWrite
  PROVE  Matching'
<1>1. /\ Alike(Answered(socket, <<"line">>), socket)
      /\ AgreesWith(Answered(socket, <<"line">>), activeChannel)
  BY OldSocketAgrees, AnsweredAlike, SimpleAnswers, ErrorAgrees
<1>2. send(Answered(socket, <<"line">>))
  BY DEF OthersWrite, send
<1> QED
  BY <1>1, <1>2, SendMatching DEF OthersWrite, lists

\* A list that comes is of the channel that is shown, if one is; an event that
\* changes the channel empties the list.
LEMMA handleGatewayEventMatching ==
  ASSUME IInv, handleGatewayEvent
  PROVE  Matching'
<1> DEFINE event == Head(socket.inbox)
           s     == [socket EXCEPT !.inbox = Tail(@)]
<1>1. /\ event \in Answers /\ Alike(s, socket) /\ Handled(event, s)
      /\ s.inbox = Tail(socket.inbox) /\ s.room = socket.room
  BY FirstEvent DEF IInv
<1>2. /\ socket.state = "open" /\ socket.inbox # <<>>
      /\ socket.inbox \in Seq(Answers) /\ event = socket.inbox[1]
  BY OldSocketAgrees DEF handleGatewayEvent, Sockets
<1> HIDE DEF event, s
<1>3. \A next : Shown(event, activeChannel, next) => AgreesWith(s, next)
  BY <1>1, <1>2, AgreesTail DEF IInv, Matching, AgreesWith
<1>4. s \in Sockets /\ s.state = "open" /\ activeChannel \in Channels \cup {None}
  BY <1>1, <1>2, KeptParts DEF Alike, IInv
<1>5. SUFFICES /\ AgreesWith(socket', activeChannel')
               /\ activeChannel' # None /\ usersLoaded' => users' = activeChannel'
  <2>1. socket'.state = "open"
    BY <1>1, <1>2, HandledIs DEF IInv, Alike
  <2> QED
    BY <1>5, <2>1 DEF Matching, AgreesWith
<1>6. CASE event[1] = "ready" /\ Ready(s)
  <2>1. AgreesWith(s, activeChannel)
    BY <1>3, <1>6 DEF Shown, Decides
  <2>2. AgreesWith(socket', activeChannel)
    BY <1>4, <1>6, <2>1, JoinedAgrees DEF Ready
  <2> QED
    BY <1>6, <2>2 DEF Ready, lists, IInv, Matching
<1>7. CASE event[1] = "joined" /\ Enters(s, event[2])
  <2>1. AgreesWith(s, event[2])
    BY <1>3, <1>7 DEF Shown
  <2>2. AgreesWith(AskedWho(s), event[2])
    BY <1>4, <2>1, AskedWhoAgrees
  <2> QED
    BY <1>7, <2>2 DEF Enters
<1>8. CASE event[1] = "left" /\ Leaves(s)
  <2>1. AgreesWith(s, None)
    BY <1>3, <1>8 DEF Shown
  <2> QED
    BY <1>8, <2>1 DEF Leaves
<1>9. CASE event[1] \in {"line", "error"} /\ socket' = s /\ UNCHANGED lists
  <2>1. AgreesWith(s, activeChannel)
    BY <1>3, <1>9 DEF Shown, Decides
  <2> QED
    BY <1>9, <2>1 DEF lists, IInv, Matching
<1>10. CASE Shows(s, event)
  <2>1. AgreesWith(s, activeChannel)
    BY <1>3, <1>10 DEF Shown, Decides, Shows
  <2>2. CASE event[1] = "who" /\ users' = event[2] /\ UNCHANGED activeChannel
    <3>1. 1 \in 1..Len(socket.inbox)
      BY <1>2, EmptySeq
    <3>2. Believes(socket.inbox, activeChannel, 1, event[2])
      BY <1>2, <2>2, <3>1 DEF IInv, Matching, Agrees
    <3>3. activeChannel \in {None, event[2]}
      BY <3>2 DEF Believes
    <3> QED
      BY <1>10, <2>1, <2>2, <3>3 DEF Shows
  <2>3. CASE event[1] = "channels" /\ UNCHANGED <<activeChannel, users, usersLoaded>>
    BY <1>10, <2>1, <2>3 DEF Shows, IInv, Matching
  <2> QED
    BY <1>10, <2>2, <2>3 DEF Shows
<1> QED
  BY <1>1, <1>6, <1>7, <1>8, <1>9, <1>10 DEF Handled

LEMMA InitMatching == Init => Matching
BY NoSocketIs, AgreesIdle DEF Init, Matching

LEMMA NextMatching ==
  ASSUME IInv, [Next]_vars
  PROVE  Matching'
<1>1. CASE UNCHANGED vars
  BY <1>1, SameMatching DEF vars, connection, lists
<1>2. CASE Next
  <2>1. CASE Reconnect
    BY <2>1, connectMatching DEF Reconnect
  <2>2. CASE SignedIn \/ RefreshStatistics \/ LoadHistory \/ View
    BY <2>2, SameMatching
       DEF SignedIn, RefreshStatistics, LoadHistory, View, connection
  <2>3. CASE SignOut
    BY <2>3, logoutMatching DEF SignOut
  <2>4. CASE RefreshChannels \/ ListTimer
    BY <2>4, requestChannelsMatching DEF RefreshChannels, ListTimer
  <2>5. CASE \E t \in histories : HistoryLoaded(t)
    BY <2>5, SameMatching DEF HistoryLoaded, connection
  <2> QED
    BY <1>2, <2>1, <2>2, <2>3, <2>4, <2>5, onopenMatching, LostMatching,
       oncloseMatching, refreshStatsMatching, joinChannelMatching,
       CommandMatching, RefreshUsersMatching, OthersWriteMatching,
       handleGatewayEventMatching
       DEF Next
<1> QED
  BY <1>1, <1>2

\* The participants shown under the name of a channel are those of that
\* channel, although a list does not say of which channel it is, and joins,
\* switches, leaves and reconnects may be under way when it is asked for.
THEOREM ParticipantsAreOfChannel == Spec => []ParticipantsMatch
<1>1. Init => IInv
  BY InitKept, InitMatching DEF IInv
<1>2. IInv /\ [Next]_vars => IInv'
  BY NextKept, NextMatching DEF IInv
<1>3. IInv => ParticipantsMatch
  BY DEF IInv, Matching, ParticipantsMatch, ParticipantsPanel
<1> QED
  BY <1>1, <1>2, <1>3, PTL DEF Spec

-----------------------------------------------------------------------------
(* Types: a channel that the page, the socket or an answer on its way names  *)
(* is one of the core, and a token is that of a session that there has been  *)

AnswersOf(E) ==
  ({"joined", "who"} \X E) \cup ({"channels"} \X SUBSET E)
    \cup {<<"ready">>, <<"left">>, <<"line">>, <<"error">>}

SocketsOf(E, n) ==
  [state : {"none", "connecting", "open", "closed"}, token : 0..n,
   rooms : SUBSET E, room : E \cup {None}, inbox : Seq(AnswersOf(E))]

LinesOf(n) == [kind : {"live", "page", "stored"}, token : 0..n]

ListsOf(E) ==
  {activeChannel, users} \subseteq E \cup {None} /\ channels \subseteq E

Counted ==
  /\ sessions \in 0..MaxSessions /\ token \in 0..sessions
  /\ histories \subseteq 1..sessions
  /\ calls \subseteq [token : Tokens, stage : {"stats", "core", "stored"},
                      then : {"login", "restore", "command", "show"}]

Limited ==
  /\ Len(statistics.samples) <= SampleLimit
  /\ messages \in Seq(LinesOf(sessions)) /\ Len(messages) <= MessageLimit

Plain ==
  /\ {ghosts, listTimers, operations} \subseteq Nat
  /\ {timer, connected, usersLoaded, channelsLoaded} \subseteq BOOLEAN

Typed ==
  /\ socket \in SocketsOf(exists, sessions)
  /\ ListsOf(exists) /\ Counted /\ Limited /\ Plain

\* Tokens and channels are never taken back.
LEMMA SocketsGrow ==
  ASSUME NEW E, NEW F, E \subseteq F, NEW n \in Nat, NEW m \in Nat, n <= m,
         NEW s \in SocketsOf(E, n)
  PROVE  s \in SocketsOf(F, m)
<1>1. AnswersOf(E) \subseteq AnswersOf(F)
  BY DEF AnswersOf
<1>2. s.inbox \in Seq(AnswersOf(F))
  BY <1>1, SeqMonotonic DEF SocketsOf
<1>3. s.token \in 0..m
  BY DEF SocketsOf
<1> QED
  BY <1>2, <1>3 DEF SocketsOf

LEMMA AnsweredOf ==
  ASSUME NEW E, NEW n, NEW s \in SocketsOf(E, n), NEW answer \in AnswersOf(E)
  PROVE  Answered(s, answer) \in SocketsOf(E, n)
<1> DEFINE box == Append(s.inbox, answer)
<1>1. box \in Seq(AnswersOf(E))
  BY DEF SocketsOf
<1>2. Answered(s, answer) = [s EXCEPT !.inbox = box]
  BY DEF Answered
<1> HIDE DEF box
<1> QED
  BY <1>1, <1>2 DEF SocketsOf

LEMMA InRoomOf ==
  ASSUME NEW E, NEW n, NEW s \in SocketsOf(E, n), NEW rooms \in SUBSET E,
         NEW room \in E \cup {None}
  PROVE  [s EXCEPT !.rooms = rooms, !.room = room] \in SocketsOf(E, n)
BY DEF SocketsOf

LEMMA AnswersThere ==
  ASSUME NEW E
  PROVE  /\ {<<"ready">>, <<"left">>, <<"line">>, <<"error">>} \subseteq AnswersOf(E)
         /\ \A c \in E : {<<"who", c>>, <<"joined", c>>} \subseteq AnswersOf(E)
         /\ <<"channels", E>> \in AnswersOf(E)
BY DEF AnswersOf

LEMMA JoinedOf ==
  ASSUME NEW E, NEW n, NEW s \in SocketsOf(E, n), NEW c \in E
  PROVE  Joined(s, c) \in SocketsOf(E, n)
<1> DEFINE rooms == s.rooms \cup {c}
           r     == [s EXCEPT !.rooms = rooms, !.room = c]
<1>1. rooms \in SUBSET E /\ c \in E \cup {None}
  BY DEF SocketsOf
<1>2. Joined(s, c) = Answered(r, <<"joined", c>>)
  BY DEF Joined
<1> HIDE DEF rooms
<1>3. r \in SocketsOf(E, n)
  BY <1>1, InRoomOf
<1> HIDE DEF r
<1> QED
  BY <1>2, <1>3, AnswersThere, AnsweredOf

LEMMA LeftOf ==
  ASSUME NEW E, NEW n, NEW s \in SocketsOf(E, n), NEW c
  PROVE  Left(s, c) \in SocketsOf(E, n)
<1>1. CASE c \in s.rooms
  <2> DEFINE room  == IF s.room = c THEN None ELSE s.room
             rooms == s.rooms \ {c}
             r     == [s EXCEPT !.rooms = rooms, !.room = room]
  <2>1. rooms \in SUBSET E /\ room \in E \cup {None}
    BY DEF SocketsOf
  <2>2. Left(s, c) = Answered(r, <<"left">>)
    BY <1>1 DEF Left
  <2> HIDE DEF rooms, room
  <2>3. r \in SocketsOf(E, n)
    BY <2>1, InRoomOf
  <2> HIDE DEF r
  <2> QED
    BY <2>2, <2>3, AnswersThere, AnsweredOf
<1>2. CASE c \notin s.rooms
  BY <1>2, AnswersThere, AnsweredOf DEF Left
<1> QED
  BY <1>1, <1>2

LEMMA SwitchedOf ==
  ASSUME NEW E, NEW n, NEW s \in SocketsOf(E, n), NEW c
  PROVE  Switched(s, c) \in SocketsOf(E, n)
<1>1. c \in s.rooms => c \in E
  BY DEF SocketsOf
<1> QED
  BY <1>1, JoinedOf, AnswersThere, AnsweredOf DEF Switched

LEMMA AskedWhoOf ==
  ASSUME NEW E, NEW n, NEW s \in SocketsOf(E, n)
  PROVE  AskedWho(s) \in SocketsOf(E, n)
<1>1. s.room # None => s.room \in E
  BY DEF SocketsOf
<1> QED
  BY <1>1, AnswersThere, AnsweredOf DEF AskedWho

LEMMA ListedOf ==
  ASSUME NEW n, NEW s \in SocketsOf(exists, n)
  PROVE  Listed(s) \in SocketsOf(exists, n)
BY AnswersThere, AnsweredOf DEF Listed

LEMMA IdleOf ==
  ASSUME NEW E, NEW n \in Nat,
         NEW state \in {"none", "connecting", "closed"}, NEW t \in 0..n
  PROVE  /\ [NoSocket EXCEPT !.state = state, !.token = t] \in SocketsOf(E, n)
         /\ NoSocket \in SocketsOf(E, n)
<1>1. <<>> \in Seq(AnswersOf(E))
  BY EmptySeq
<1>2. NoSocket \in SocketsOf(E, n)
  BY <1>1 DEF NoSocket, SocketsOf
<1> QED
  BY <1>2 DEF SocketsOf

LEMMA OpenedOf ==
  ASSUME NEW n, socket \in SocketsOf(exists, n)
  PROVE  Opened \in SocketsOf(exists, n)
<1> DEFINE s == [socket EXCEPT !.state = "open", !.inbox = <<<<"ready">>>>]
<1>1. <<<<"ready">>>> \in Seq(AnswersOf(exists))
  <2> DEFINE first == <<"ready">>
  <2>1. first \in AnswersOf(exists)
    BY AnswersThere
  <2> HIDE DEF first
  <2>2. <<first>> \in Seq(AnswersOf(exists))
    BY <2>1
  <2> QED
    BY <2>2 DEF first
<1>2. s \in SocketsOf(exists, n)
  BY <1>1 DEF SocketsOf
<1>3. Opened = Listed(s)
  BY DEF Opened
<1> HIDE DEF s
<1> QED
  BY <1>2, <1>3, ListedOf

LEMMA FirstOf ==
  ASSUME NEW E, NEW n, NEW s \in SocketsOf(E, n), s.inbox # <<>>
  PROVE  /\ Head(s.inbox) \in AnswersOf(E)
         /\ [s EXCEPT !.inbox = Tail(@)] \in SocketsOf(E, n)
<1> DEFINE rest == Tail(s.inbox)
<1>1. Head(s.inbox) \in AnswersOf(E) /\ rest \in Seq(AnswersOf(E))
  BY HeadTailProperties DEF SocketsOf
<1>2. [s EXCEPT !.inbox = Tail(@)] = [s EXCEPT !.inbox = rest]
  OBVIOUS
<1> HIDE DEF rest
<1> QED
  BY <1>1, <1>2 DEF SocketsOf

\* What an answer names.
LEMMA AnswerNames ==
  ASSUME NEW E, NEW event \in AnswersOf(E)
  PROVE  /\ event[1] \in {"joined", "who"} => event[2] \in E
         /\ event[1] = "channels" => event[2] \subseteq E
<1>1. CASE event \in {"joined", "who"} \X E
  BY <1>1
<1>2. CASE event \in {"channels"} \X SUBSET E
  BY <1>2
<1>3. CASE event \in {<<"ready">>, <<"left">>, <<"line">>, <<"error">>}
  BY <1>3
<1> QED
  BY <1>1, <1>2, <1>3 DEF AnswersOf

-----------------------------------------------------------------------------
(* The socket and the lists *)

LEMMA TypedParts ==
  ASSUME Typed
  PROVE  /\ socket \in SocketsOf(exists, sessions) /\ sessions \in Nat
         /\ sessions <= MaxSessions /\ token \in 0..sessions
         /\ activeChannel \in exists \cup {None} /\ users \in exists \cup {None}
         /\ channels \subseteq exists
BY WorkspaceAssumption DEF Typed, Counted, ListsOf

LEMMA connectOf ==
  ASSUME Typed, connect(token)
  PROVE  socket' \in SocketsOf(exists, sessions)
<1>1. [NoSocket EXCEPT !.state = "connecting", !.token = token]
        \in SocketsOf(exists, sessions)
  BY TypedParts, IdleOf
<1> QED
  BY <1>1, TypedParts DEF connect

LEMMA logoutOf ==
  ASSUME Typed, logout
  PROVE  socket' \in SocketsOf(exists, sessions)
<1>1. "none" \in {"none", "connecting", "closed"} /\ 0 \in 0..sessions
  BY TypedParts
<1> QED
  BY <1>1, TypedParts, IdleOf DEF logout

LEMMA sendOf ==
  ASSUME Typed, NEW r \in SocketsOf(exists, sessions), send(r)
  PROVE  socket' \in SocketsOf(exists, sessions)
BY TypedParts DEF send

\* What a call of refreshStats may do to the session and the connection.
LEMMA StatsStep ==
  ASSUME NEW c \in calls, refreshStats(c)
  PROVE  /\ UNCHANGED <<initialSession, sessions, listTimers, histories,
                        exists, operations>>
         /\ \/ logout
            \/ connect(token) /\ UNCHANGED <<token, timer, connected, lists>>
            \/ UNCHANGED <<token, connection, lists>>
            \/ UNCHANGED <<token, socket, ghosts, timer, connected, lists>>
         /\ \/ calls' = calls \ {c}
            \/ calls' = (calls \ {c}) \cup
                 {[c EXCEPT !.stage = IF @ = "stats" THEN "core" ELSE "stored"]}
<1>1. CASE \E valid \in BOOLEAN : Returns(c, valid)
  BY <1>1 DEF Returns, session, refreshStats, StatsRefused, StatsFails,
     StatsThrows, StatsLate, StatsShown, logout, Proceeds
<1>2. CASE Proceeds(c)
  BY <1>2 DEF Returns, session, refreshStats, StatsRefused, StatsFails,
     StatsThrows, StatsLate, StatsShown, logout, Proceeds
<1>3. CASE StatsRefused(c)
  BY <1>3 DEF StatsRefused, logout
<1>4. CASE /\ calls' = calls \ {c} /\ UNCHANGED <<session, connection, lists>>
           /\ UNCHANGED <<listTimers, histories, exists, operations>>
  BY <1>4 DEF session
<1> QED
  BY <1>1, <1>2, <1>3, <1>4
     DEF refreshStats, StatsFails, StatsThrows, StatsLate, StatsShown

LEMMA EventOf ==
  ASSUME Typed, handleGatewayEvent
  PROVE  /\ socket' \in SocketsOf(exists, sessions)
         /\ activeChannel' \in exists \cup {None} /\ users' \in exists \cup {None}
         /\ channels' \subseteq exists
         /\ usersLoaded' \in {usersLoaded, TRUE, FALSE}
         /\ channelsLoaded' \in {channelsLoaded, TRUE}
<1> DEFINE event == Head(socket.inbox)
           s     == [socket EXCEPT !.inbox = Tail(@)]
<1>1. event \in AnswersOf(exists) /\ s \in SocketsOf(exists, sessions)
  BY TypedParts, FirstOf DEF handleGatewayEvent
<1>2. Handled(event, s)
  BY DEF handleGatewayEvent, Handled
<1> HIDE DEF event, s
<1>3. CASE event[1] = "ready" /\ Ready(s)
  BY <1>1, <1>3, TypedParts, JoinedOf DEF Ready, lists
<1>4. CASE event[1] = "joined" /\ Enters(s, event[2])
  BY <1>1, <1>4, TypedParts, AnswerNames, AskedWhoOf DEF Enters
<1>5. CASE event[1] = "left" /\ Leaves(s)
  BY <1>1, <1>5, TypedParts DEF Leaves
<1>6. CASE event[1] \in {"line", "error"} /\ socket' = s /\ UNCHANGED lists
  BY <1>1, <1>6, TypedParts DEF lists
<1>7. CASE Shows(s, event)
  <2>1. /\ event[1] \in {"joined", "who"} => event[2] \in exists
        /\ event[1] = "channels" => event[2] \subseteq exists
    BY <1>1, AnswerNames
  <2>2. CASE /\ event[1] = "who" /\ users' = event[2] /\ usersLoaded' = TRUE
             /\ UNCHANGED <<activeChannel, channels, channelsLoaded>>
    BY <1>1, <1>7, <2>1, <2>2, TypedParts DEF Shows
  <2>3. CASE /\ event[1] = "channels" /\ channels' = event[2]
             /\ channelsLoaded' = TRUE
             /\ UNCHANGED <<activeChannel, users, usersLoaded>>
    BY <1>1, <1>7, <2>1, <2>3, TypedParts DEF Shows
  <2> QED
    BY <1>7, <2>2, <2>3 DEF Shows
<1> QED
  BY <1>2, <1>3, <1>4, <1>5, <1>6, <1>7 DEF Handled

\* A channel that is joined is there from then on, and the socket is in it.
LEMMA joinChannelOf ==
  ASSUME Typed, NEW c \in Channels, joinChannel(c)
  PROVE  socket' \in SocketsOf(exists', sessions) /\ exists \subseteq exists'
<1>1. CASE socket.state = "open"
  <2>1. exists' = exists \cup {c} /\ socket' = Joined(socket, c)
    BY <1>1 DEF joinChannel, send
  <2>2. socket \in SocketsOf(exists', sessions)
    BY <2>1, TypedParts, SocketsGrow
  <2> QED
    BY <2>1, <2>2, JoinedOf
<1>2. CASE socket.state # "open"
  BY <1>2, TypedParts DEF joinChannel, send
<1> QED
  BY <1>1, <1>2

LEMMA CommandOf ==
  ASSUME Typed, Command
  PROVE  socket' \in SocketsOf(exists, sessions)
<1>1. \A c \in Channels : /\ Switched(socket, c) \in SocketsOf(exists, sessions)
                          /\ Left(socket, c) \in SocketsOf(exists, sessions)
  BY TypedParts, SwitchedOf, LeftOf
<1>2. \A answer \in {"line", "error"} :
        Answered(socket, <<answer>>) \in SocketsOf(exists, sessions)
  BY TypedParts, AnswersThere, AnsweredOf
<1>3. \E r \in SocketsOf(exists, sessions) : send(r)
  BY <1>1, <1>2 DEF Command
<1> QED
  BY <1>3, sendOf

LEMMA SocketTyped ==
  ASSUME Typed, [Next]_vars
  PROVE  socket' \in SocketsOf(exists', sessions')
<1> DEFINE Same == UNCHANGED <<exists, sessions>>
           There == Same /\ socket' \in SocketsOf(exists, sessions)
<1>0. There => socket' \in SocketsOf(exists', sessions')
  OBVIOUS
<1>1. CASE onopen
  BY <1>1, TypedParts, OpenedOf DEF onopen, session
<1>2. CASE Lost
  <2>1. socket.token \in 0..sessions
    BY TypedParts DEF SocketsOf
  <2> QED
    BY <1>2, <2>1, TypedParts, IdleOf DEF Lost, session
<1>3. CASE onclose
  <2>1. NoSocket \in SocketsOf(exists, sessions)
    <3>1. "none" \in {"none", "connecting", "closed"} /\ 0 \in 0..sessions
      BY TypedParts
    <3> QED
      BY <3>1, TypedParts, IdleOf
  <2> QED
    BY <1>3, <2>1, TypedParts DEF onclose, session
<1>4. CASE Reconnect
  BY <1>4, connectOf DEF Reconnect, session
<1>5. CASE SignedIn
  <2>1. sessions' = sessions + 1 /\ UNCHANGED <<socket, exists>>
    BY <1>5 DEF SignedIn, connection
  <2> QED
    BY <2>1, TypedParts, SocketsGrow
<1>6. CASE SignOut
  BY <1>6, logoutOf DEF SignOut, logout
<1>7. CASE \E c \in calls : refreshStats(c)
  <2>1. PICK c \in calls : refreshStats(c)
    BY <1>7
  <2> QED
    BY <2>1, StatsStep, TypedParts, logoutOf, connectOf DEF connection
<1>8. CASE \E c \in Channels : joinChannel(c)
  BY <1>8, joinChannelOf DEF joinChannel, session
<1>9. CASE Command
  BY <1>9, CommandOf DEF Command, session
<1>10. CASE RefreshChannels \/ ListTimer
  <2>1. send(Listed(socket)) /\ Same
    BY <1>10 DEF RefreshChannels, ListTimer, requestChannels, session
  <2> QED
    BY <2>1, TypedParts, ListedOf, sendOf
<1>11. CASE RefreshUsers
  BY <1>11, TypedParts, AskedWhoOf, sendOf DEF RefreshUsers, session
<1>12. CASE RefreshStatistics \/ LoadHistory \/ View \/ UNCHANGED vars
            \/ \E t \in histories : HistoryLoaded(t)
  BY <1>12, TypedParts
     DEF RefreshStatistics, LoadHistory, View, HistoryLoaded, vars, session,
         connection
<1>13. CASE OthersWrite
  BY <1>13, TypedParts, AnswersThere, AnsweredOf DEF OthersWrite, session
<1>14. CASE handleGatewayEvent
  BY <1>14, EventOf DEF handleGatewayEvent, session
<1> QED
  BY <1>1, <1>2, <1>3, <1>4, <1>5, <1>6, <1>7, <1>8, <1>9, <1>10, <1>11,
     <1>12, <1>13, <1>14 DEF Next

LEMMA ListsTyped ==
  ASSUME Typed, [Next]_vars
  PROVE  ListsOf(exists)'
<1>0. SUFFICES /\ exists \subseteq exists'
               /\ activeChannel' \in exists \cup {None}
               /\ users' \in exists \cup {None} /\ channels' \subseteq exists
  BY DEF ListsOf
<1> DEFINE Same == UNCHANGED <<activeChannel, users, channels, exists>>
<1>1. CASE logout /\ UNCHANGED exists
  BY <1>1 DEF logout
<1>2. CASE Same
  BY <1>2, TypedParts
<1>3. CASE onopen \/ onclose \/ RefreshChannels \/ ListTimer \/ RefreshUsers
  <2>1. Same
    BY <1>3 DEF onopen, onclose, RefreshChannels, ListTimer, requestChannels,
       RefreshUsers
  <2> QED
    BY <1>2, <2>1
<1>4. CASE SignOut
  BY <1>1, <1>4 DEF SignOut
<1>5. CASE \E c \in calls : refreshStats(c)
  BY <1>1, <1>2, <1>5, StatsStep DEF lists
<1>6. CASE \E c \in Channels : joinChannel(c)
  BY <1>6, TypedParts DEF joinChannel, lists
<1>7. CASE handleGatewayEvent
  BY <1>7, EventOf DEF handleGatewayEvent
<1>8. CASE \/ Lost \/ Reconnect \/ SignedIn \/ Command \/ RefreshStatistics
           \/ LoadHistory \/ View \/ OthersWrite \/ UNCHANGED vars
           \/ \E t \in histories : HistoryLoaded(t)
  <2>1. Same
    BY <1>8 DEF Lost, Reconnect, SignedIn, Command, RefreshStatistics,
       LoadHistory, View, OthersWrite, HistoryLoaded, vars, lists
  <2> QED
    BY <1>2, <2>1
<1> QED
  BY <1>3, <1>4, <1>5, <1>6, <1>7, <1>8 DEF Next

-----------------------------------------------------------------------------
(* Tokens *)

TypedCalls ==
  [token : Tokens, stage : {"stats", "core", "stored"},
   then : {"login", "restore", "command", "show"}]

\* Calls and requests carry the token that they were made with, of a session
\* that there has been, even if it ended long ago.
LEMMA CountedTyped ==
  ASSUME Kept, Typed, [Next]_vars
  PROVE  Counted'
<1>0. /\ sessions \in Nat /\ sessions <= MaxSessions /\ token \in 0..sessions
      /\ histories \subseteq 1..sessions /\ calls \subseteq TypedCalls
      /\ MaxSessions \in Nat \ {0} /\ initialSession \in 0..1
  BY TypedParts, WorkspaceAssumption DEF Typed, Counted, TypedCalls, Kept, Shape
<1>1. SUFFICES /\ sessions' \in 0..MaxSessions /\ token' \in 0..sessions'
               /\ histories' \subseteq 1..sessions' /\ calls' \subseteq TypedCalls
  BY DEF Counted, TypedCalls
<1> DEFINE Same == /\ sessions' = sessions /\ token' = token
                   /\ histories' = histories /\ calls' = calls
<1>2. CASE Same
  BY <1>0, <1>2
<1>3. ASSUME NEW t \in Tokens, NEW then \in {"login", "restore", "command", "show"}
      PROVE  Call(t, then) \in TypedCalls
  BY DEF Call, TypedCalls
<1>4. CASE SignedIn
  <2>1. /\ sessions' = sessions + 1 /\ token' = sessions + 1
        /\ sessions < MaxSessions /\ histories' = histories
        /\ calls' = calls \cup {Call(token', "login")}
    BY <1>4 DEF SignedIn, feed
  <2>2. token' \in Tokens
    BY <1>0, <2>1 DEF Tokens
  <2>3. Call(token', "login") \in TypedCalls
    BY <2>2 DEF Call, TypedCalls
  <2> QED
    BY <1>0, <2>1, <2>3
<1>5. CASE SignOut
  BY <1>0, <1>5 DEF SignOut, logout
<1>6. CASE \E c \in calls : refreshStats(c)
  <2>1. PICK c \in calls : refreshStats(c)
    BY <1>6
  <2>2. sessions' = sessions /\ histories' = histories /\ token' \in {0, token}
    BY <2>1, StatsStep DEF logout
  <2>3. c \in TypedCalls
    BY <1>0
  <2>4. [c EXCEPT !.stage = IF @ = "stats" THEN "core" ELSE "stored"]
          \in TypedCalls
    BY <2>3 DEF TypedCalls
  <2>5. calls' \subseteq TypedCalls
    BY <1>0, <2>1, <2>4, StatsStep
  <2> QED
    BY <1>0, <2>2, <2>5
<1>7. CASE RefreshStatistics
  <2>1. token \in Tokens
    BY <1>0, <1>7 DEF RefreshStatistics, Tokens
  <2>2. calls' \subseteq TypedCalls
    BY <1>0, <1>3, <1>7, <2>1 DEF RefreshStatistics
  <2> QED
    BY <1>0, <1>7, <2>2 DEF RefreshStatistics, session, feed
<1>8. CASE LoadHistory
  BY <1>0, <1>8 DEF LoadHistory, session, monitor
<1>9. CASE \E t \in histories : HistoryLoaded(t)
  BY <1>0, <1>9 DEF HistoryLoaded, session, monitor
<1>10. CASE handleGatewayEvent
  <2>1. \A u \in {0, initialSession} \ {0} : u \in Tokens
    BY <1>0 DEF Tokens
  <2>2. calls' \subseteq TypedCalls
    BY <1>0, <1>3, <1>10, <2>1 DEF handleGatewayEvent
  <2> QED
    BY <1>0, <1>10, <2>2 DEF handleGatewayEvent, session
<1>11. CASE \/ onopen \/ Lost \/ onclose \/ Reconnect
            \/ \E c \in Channels : joinChannel(c)
            \/ Command \/ RefreshChannels \/ ListTimer \/ RefreshUsers
            \/ View \/ OthersWrite \/ UNCHANGED vars
  <2>1. Same
    BY <1>11
       DEF onopen, Lost, onclose, Reconnect, joinChannel, Command,
           RefreshChannels, ListTimer, requestChannels, RefreshUsers, View,
           OthersWrite, vars, session, monitor, feed
  <2> QED
    BY <1>2, <2>1
<1> QED
  BY <1>4, <1>5, <1>6, <1>7, <1>8, <1>9, <1>10, <1>11 DEF Next

-----------------------------------------------------------------------------
(* Messages and samples stay within their limits *)

LEMMA LatestLength ==
  ASSUME NEW T, NEW s \in Seq(T), NEW n \in Nat
  PROVE  Len(Latest(s, n)) \in 0..n
<1> DEFINE first == IF Len(s) > n THEN Len(s) - n + 1 ELSE 1
           rest  == SubSeq(s, first, Len(s))
<1>1. Len(s) \in Nat /\ first \in Int /\ first >= 1
  BY LenProperties
<1>2. \A i \in first .. Len(s) : s[i] \in T
  BY <1>1, ElementOfSeq
<1>3. Len(rest) = IF first <= Len(s) THEN Len(s) - first + 1 ELSE 0
  <2> HIDE DEF first
  <2> QED
    BY <1>1, <1>2, SubSeqProperties
<1>4. Latest(s, n) = rest
  BY DEF Latest
<1> HIDE DEF rest
<1> QED
  BY <1>1, <1>3, <1>4

\* With room for one more made first, nothing is over the limit.
LEMMA OneMore ==
  ASSUME NEW T, NEW s \in Seq(T), NEW n \in Nat \ {0}, NEW e \in T
  PROVE  /\ Append(Latest(s, n - 1), e) \in Seq(T)
         /\ Len(Append(Latest(s, n - 1), e)) <= n
<1> DEFINE before == Latest(s, n - 1)
<1>1. n - 1 \in Nat
  OBVIOUS
<1>2. before \in Seq(T) /\ Len(before) \in 0..n - 1
  BY <1>1, LatestInSeq, LatestLength
<1> HIDE DEF before
<1>3. Append(before, e) \in Seq(T) /\ Len(Append(before, e)) = Len(before) + 1
  BY <1>2, AppendProperties
<1>4. Len(before) + 1 <= n
  BY <1>2
<1> QED
  BY <1>3, <1>4 DEF before

Fits(ms) == ms \in Seq(LinesOf(sessions)) /\ Len(ms) <= MessageLimit

LEMMA PushedFits ==
  ASSUME NEW ms, Fits(ms), NEW kind \in {"live", "page"}, NEW t,
         kind = "live" => t \in 0..sessions, sessions \in Nat
  PROVE  Fits(Pushed(ms, kind, t))
<1>1. Line(kind, t) \in LinesOf(sessions)
  BY DEF Line, LinesOf
<1>2. MessageLimit \in Nat \ {0}
  BY WorkspaceAssumption
<1> QED
  BY <1>1, <1>2, OneMore DEF Fits, Pushed

LEMMA NoneFits == Fits(<<>>)
BY EmptySeq, WorkspaceAssumption DEF Fits

\* A history longer than the limit is cut to it.
LEMMA HistoryFits ==
  ASSUME NEW t \in 0..sessions, NEW n \in Nat, replaceMessages(n, t)
  PROVE  Fits(messages')
<1> DEFINE all == [i \in 1..n |-> Line("stored", t)]
<1>1. Line("stored", t) \in LinesOf(sessions)
  BY DEF Line, LinesOf
<1>2. all \in Seq(LinesOf(sessions))
  BY <1>1
<1>3. MessageLimit \in Nat /\ messages' = Latest(all, MessageLimit)
  BY WorkspaceAssumption DEF replaceMessages
<1> HIDE DEF all
<1>4. /\ messages' \in Seq(LinesOf(sessions))
      /\ Len(messages') \in 0..MessageLimit
  BY <1>2, <1>3, LatestInSeq, LatestLength
<1> QED
  BY <1>4 DEF Fits

LEMMA MessagesTyped ==
  ASSUME Typed, [Next]_vars
  PROVE  messages' \in Seq(LinesOf(sessions')) /\ Len(messages') <= MessageLimit
<1>0. Fits(messages) /\ sessions \in Nat /\ histories \subseteq 1..sessions
  BY TypedParts DEF Typed, Limited, Counted, Fits
<1>1. CASE SignedIn
  <2>1. messages' = messages /\ sessions' = sessions + 1
    BY <1>1 DEF SignedIn, feed
  <2>2. LinesOf(sessions) \subseteq LinesOf(sessions')
    BY <1>0, <2>1 DEF LinesOf
  <2> QED
    BY <1>0, <2>1, <2>2, SeqMonotonic DEF Fits
<1>2. SUFFICES ASSUME ~SignedIn
               PROVE  sessions' = sessions /\ Fits(messages')
  BY <1>1, <1>2 DEF Fits
<1>3. CASE onopen
  BY <1>0, <1>3, PushedFits DEF onopen, session, pushLine
<1>4. CASE onclose
  BY <1>0, <1>4, PushedFits DEF onclose, session, pushLine
<1>5. CASE SignOut
  BY <1>5, NoneFits DEF SignOut, logout
<1>6. CASE \E c \in calls : refreshStats(c)
  <2>1. PICK c \in calls : refreshStats(c)
    BY <1>6
  <2>2. \A ms : Fits(ms) => Fits(Announced(ms, c))
    BY <1>0, PushedFits DEF Announced
  <2>3. messages' \in {messages, Announced(messages, c), Announced(<<>>, c)}
    BY <2>1 DEF refreshStats, StatsRefused, StatsFails, StatsThrows, StatsLate,
       StatsShown, Returns, Proceeds
  <2> QED
    BY <1>0, <2>1, <2>2, <2>3, NoneFits, StatsStep
<1>7. CASE View
  BY <1>0, <1>7, NoneFits, PushedFits DEF View, session, pushLine
<1>8. CASE \E t \in histories : HistoryLoaded(t)
  <2>1. PICK t \in histories : HistoryLoaded(t)
    BY <1>8
  <2>2. t \in 0..sessions /\ \A n \in 0..MessageLimit + 1 : n \in Nat
    BY <1>0, WorkspaceAssumption
  <2> QED
    BY <1>0, <2>1, <2>2, HistoryFits DEF HistoryLoaded, session
<1>9. CASE handleGatewayEvent
  <2>1. socket.token \in 0..sessions
    BY TypedParts DEF SocketsOf
  <2>2. \/ UNCHANGED messages
        \/ \E kind \in {"live", "page"} : pushLine(kind, socket.token)
    BY <1>9 DEF handleGatewayEvent
  <2>3. Fits(messages')
    BY <1>0, <2>1, <2>2, PushedFits DEF pushLine
  <2> QED
    BY <1>9, <2>3 DEF handleGatewayEvent, session
<1>10. CASE \/ Lost \/ Reconnect \/ \E c \in Channels : joinChannel(c)
            \/ Command \/ RefreshChannels \/ ListTimer \/ RefreshUsers
            \/ RefreshStatistics \/ LoadHistory \/ OthersWrite \/ UNCHANGED vars
  <2>1. messages' = messages /\ sessions' = sessions
    BY <1>10
       DEF Lost, Reconnect, joinChannel, Command, RefreshChannels, ListTimer,
           requestChannels, RefreshUsers, RefreshStatistics, LoadHistory,
           OthersWrite, vars, session, feed
  <2> QED
    BY <1>0, <2>1
<1> QED
  BY <1>2, <1>3, <1>4, <1>5, <1>6, <1>7, <1>8, <1>9, <1>10 DEF Next

LEMMA SamplesTyped ==
  ASSUME Kept, Typed, [Next]_vars
  PROVE  Len(statistics'.samples) <= SampleLimit
<1>0. /\ Len(statistics.samples) <= SampleLimit
      /\ statistics.samples \in Seq({token} \ {0})
      /\ SampleLimit \in Nat \ {0}
  BY KeptParts, WorkspaceAssumption DEF Typed, Limited, Figures
<1>1. CASE statistics' = statistics
  BY <1>0, <1>1
<1>2. CASE statistics' = NoStatistics
  <2>1. Len(<<>>) = 0
    BY EmptySeq
  <2> QED
    BY <1>0, <1>2, <2>1 DEF NoStatistics
<1>3. CASE \E c \in calls : refreshStats(c)
  <2>1. PICK c \in calls : refreshStats(c)
    BY <1>3
  <2>2. CASE StatsShown(c)
    <3>1. c.token \in {token} \ {0}
      BY <2>2, KeptParts DEF StatsShown, Current, Calls
    <3>2. Len(recordMonitorSample(statistics.samples, c.token)) <= SampleLimit
      BY <1>0, <3>1, OneMore DEF recordMonitorSample
    <3>3. \/ statistics'.samples = statistics.samples
          \/ statistics'.samples = recordMonitorSample(statistics.samples, c.token)
      BY <2>2, KeptParts DEF StatsShown, Figures
    <3> QED
      BY <1>0, <3>2, <3>3
  <2>3. CASE statistics' \in {statistics, NoStatistics}
    BY <1>1, <1>2, <2>3
  <2> QED
    BY <2>1, <2>2, <2>3
       DEF refreshStats, StatsRefused, StatsFails, StatsThrows, StatsLate, logout
<1>4. CASE SignOut
  BY <1>2, <1>4 DEF SignOut, logout
<1>5. CASE [Next]_vars /\ ~SignOut /\ ~\E c \in calls : refreshStats(c)
  <2>1. statistics' = statistics
    BY <1>5
       DEF Next, onopen, Lost, onclose, Reconnect, SignedIn, joinChannel,
           Command, RefreshChannels, ListTimer, requestChannels, RefreshUsers,
           RefreshStatistics, LoadHistory, View, OthersWrite, HistoryLoaded,
           handleGatewayEvent, vars, monitor
  <2> QED
    BY <1>1, <2>1
<1> QED
  BY <1>3, <1>4, <1>5

-----------------------------------------------------------------------------
(* Counters and marks *)

LEMMA PlainTyped ==
  ASSUME Typed, [Next]_vars
  PROVE  Plain'
<1>0. /\ ghosts \in Nat /\ listTimers \in Nat /\ operations \in Nat
      /\ timer \in BOOLEAN /\ connected \in BOOLEAN
      /\ usersLoaded \in BOOLEAN /\ channelsLoaded \in BOOLEAN
  BY DEF Typed, Plain
<1>1. ghosts' \in Nat
  <2>1. ghosts' \in {ghosts, ghosts + 1} \/ (ghosts > 0 /\ ghosts' = ghosts - 1)
    <3>1. CASE connect(token) \/ logout
      BY <1>0, <3>1 DEF connect, logout
    <3>2. CASE \E c \in calls : refreshStats(c)
      BY <3>1, <3>2, StatsStep DEF connection
    <3>3. CASE ~\E c \in calls : refreshStats(c)
      BY <3>1, <3>3
         DEF Next, onopen, Lost, onclose, Reconnect, SignedIn, SignOut,
             joinChannel, Command, RefreshChannels, ListTimer,
             requestChannels, RefreshUsers, RefreshStatistics, LoadHistory,
             View, OthersWrite, HistoryLoaded, handleGatewayEvent, vars,
             connection
    <3> QED
      BY <3>2, <3>3
  <2> QED
    BY <1>0, <2>1
<1>2. listTimers' \in Nat /\ operations' \in Nat
  <2>1. /\ \/ listTimers' \in {listTimers, listTimers + 1}
           \/ listTimers > 0 /\ listTimers' = listTimers - 1
        /\ operations' = operations \/ Operate
    <3>1. CASE \E c \in calls : refreshStats(c)
      BY <3>1, StatsStep
    <3>2. CASE ~\E c \in calls : refreshStats(c)
      BY <3>2
         DEF Next, onopen, Lost, onclose, Reconnect, SignedIn, SignOut,
             joinChannel, ListAgain, Command, RefreshChannels, ListTimer,
             requestChannels, RefreshUsers, RefreshStatistics, LoadHistory,
             View, OthersWrite, HistoryLoaded, handleGatewayEvent, vars
    <3> QED
      BY <3>1, <3>2
  <2> QED
    BY <1>0, <2>1 DEF Operate
<1>3. /\ timer' \in BOOLEAN /\ connected' \in BOOLEAN
      /\ usersLoaded' \in BOOLEAN /\ channelsLoaded' \in BOOLEAN
  <2>1. CASE logout
    BY <2>1 DEF logout
  <2>2. CASE \E c \in calls : refreshStats(c)
    BY <1>0, <2>1, <2>2, StatsStep DEF connection, lists
  <2>3. CASE handleGatewayEvent
    <3>1. UNCHANGED <<timer, connected>>
      BY <2>3 DEF handleGatewayEvent
    <3> QED
      BY <1>0, <2>3, <3>1, EventOf
  <2>4. CASE ~handleGatewayEvent /\ ~\E c \in calls : refreshStats(c)
    BY <1>0, <2>1, <2>4
       DEF Next, onopen, Lost, onclose, Reconnect, SignedIn, SignOut,
           joinChannel, Command, RefreshChannels, ListTimer, requestChannels,
           RefreshUsers, RefreshStatistics, LoadHistory, View, OthersWrite,
           HistoryLoaded, vars, connection, lists
  <2> QED
    BY <2>2, <2>3, <2>4
<1> QED
  BY <1>1, <1>2, <1>3 DEF Plain

LEMMA InitTyped == Init => Typed
<1> SUFFICES ASSUME Init PROVE Typed
  OBVIOUS
<1>1. /\ initialSession \in 0..1 /\ token = initialSession
      /\ sessions = initialSession /\ exists = {} /\ socket = NoSocket
  BY DEF Init
<1>2. sessions \in Nat /\ sessions <= MaxSessions /\ token \in 0..sessions
  BY <1>1, WorkspaceAssumption
<1>3. socket \in SocketsOf(exists, sessions)
  <2>1. "none" \in {"none", "connecting", "closed"} /\ 0 \in 0..sessions
    BY <1>2
  <2> QED
    BY <1>1, <1>2, <2>1, IdleOf
<1>4. Counted
  <2>1. \A t \in {initialSession} \ {0} : t \in Tokens
    BY <1>1, <1>2 DEF Tokens
  <2>2. calls \subseteq TypedCalls
    BY <2>1 DEF Init, Call, TypedCalls
  <2> QED
    BY <1>2, <2>2 DEF Init, Counted, TypedCalls
<1>5. Limited
  <2>1. Len(<<>>) = 0 /\ <<>> \in Seq(LinesOf(sessions))
    BY EmptySeq
  <2> QED
    BY <2>1, WorkspaceAssumption DEF Init, NoStatistics, Limited
<1>6. ListsOf(exists) /\ Plain
  <2>1. operations \in Nat
    BY WorkspaceAssumption DEF Init
  <2>2. Plain
    <3>1. {timer, connected, usersLoaded, channelsLoaded} \subseteq BOOLEAN
      BY Zenon DEF Init
    <3>2. {ghosts, listTimers, operations} \subseteq Nat
      BY <2>1 DEF Init
    <3> QED
      BY <3>1, <3>2 DEF Plain
  <2>3. ListsOf(exists)
    BY DEF Init, ListsOf
  <2> QED
    BY <2>2, <2>3
<1> QED
  BY <1>3, <1>4, <1>5, <1>6 DEF Typed

\* Everything has its type, whatever is under way: the page names no channel
\* that the core has not, and a socket and its answers neither; the messages
\* and the samples of the trend stay within their limits.
THEOREM TypeCorrect == Spec => []TypeOK
<1>1. Init => Kept /\ Typed
  BY InitKept, InitTyped
<1>2. Kept /\ Typed /\ [Next]_vars => (Kept /\ Typed)'
  <2> SUFFICES ASSUME Kept, Typed, [Next]_vars
               PROVE  (Kept /\ Typed)'
    OBVIOUS
  <2>1. Limited'
    BY MessagesTyped, SamplesTyped DEF Limited
  <2>2. Typed'
    BY <2>1, SocketTyped, ListsTyped, CountedTyped, PlainTyped DEF Typed
  <2> QED
    BY <2>2, NextKept
<1>3. Kept /\ Typed => TypeOK
  <2> SUFFICES ASSUME Kept, Typed PROVE TypeOK
    OBVIOUS
  <2>1. /\ initialSession \in 0..1 /\ exists \subseteq Channels
        /\ token \in 0..sessions /\ 1..sessions \subseteq Tokens
    BY TypedParts, WorkspaceAssumption DEF Kept, Shape, Tokens
  <2>2. socket \in [state : {"none", "connecting", "open", "closed"},
                    token : 0..sessions, rooms : SUBSET exists,
                    room : exists \cup {None}, inbox : Seq(Answers)]
    <3>1. socket.inbox \in Seq(Answers)
      BY KeptParts DEF Sockets
    <3> QED
      BY <3>1 DEF Typed, SocketsOf
  <2>3. statistics \in [platform : 0..sessions, core : 0..sessions,
                        stored : 0..sessions, samples : Seq(Tokens)]
    <3>0. sessions \in Nat
      BY TypedParts
    <3>1. /\ statistics \in Figures(token) /\ {0, token} \subseteq 0..sessions
          /\ {token} \ {0} \subseteq Tokens
      BY <2>1, <3>0, KeptParts
    <3>2. statistics.samples \in Seq(Tokens)
      BY <3>1, SeqMonotonic DEF Figures
    <3> QED
      BY <3>1, <3>2 DEF Figures
  <2>4. histories \subseteq Tokens
    BY <2>1 DEF Typed, Counted
  <2> QED
    BY <2>1, <2>2, <2>3, <2>4
       DEF Typed, ListsOf, Counted, Limited, LinesOf, Plain, TypeOK
<1> QED
  BY <1>1, <1>2, <1>3, PTL DEF Spec
=============================================================================
