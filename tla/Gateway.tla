------------------------------ MODULE Gateway ------------------------------
(***************************************************************************)
(* The gateway, gateway/app/main.py: websocket sessions with their two     *)
(* pump coroutines, the REST request that opens a core connection of its   *)
(* own, active_gateway_users, and what is written to the database.         *)
(*                                                                         *)
(* asyncio runs one coroutine at a time, and the database calls do not     *)
(* await: an action is what runs between two awaits.  The browser's        *)
(* commands are chosen when they are received.  Tokens are valid, frames   *)
(* well-formed, and the database does not fail.                            *)
(*                                                                         *)
(* An operator whose comment starts with DEFECT is a plausible mistake in  *)
(* the operator after it, which the specification does not use.            *)
(***************************************************************************)
EXTENDS ChatCore, FiniteSets

CONSTANTS
  Sockets,     \* websocket connections
  Requests,    \* GET /core-stats requests
  Peers,       \* command-line clients, which talk to the core directly
  UserOf,      \* whose connection it is
  Commands,    \* the commands that browsers and peers send
  MaxCommands  \* bound on the commands of one connection

ASSUME GatewayAssumption ==
  /\ Conns = Sockets \cup Requests \cup Peers
  /\ Users \cap Channels = {}
  /\ IsFiniteSet(Sockets) /\ Sockets \cap (Requests \cup Peers) = {}
  /\ UserOf \in [Conns -> Users]
  /\ MaxCommands \in Nat

VARIABLES
  phase,      \* how far each coroutine or peer has got
  pump,       \* the state of the tasks core_task and ws_task
  browser,    \* whether the browser is still there
  pending,    \* pending_dms
  active,     \* active_gateway_users; 0 for an absent key
  rows,       \* the table of messages, in the order of their ids
  members,    \* the table of memberships
  count,      \* commands that the connection has sent
  shown       \* history: the texts confirmed to the browser that sent them

gatewayVars == <<phase, pump, browser, pending, active, rows, members, count,
                 shown>>
vars == <<coreVars, gatewayVars>>

Init ==
  /\ CoreInit
  /\ phase = [c \in Conns |-> "new"]
  /\ pump = [s \in Sockets |-> [core |-> "off", ws |-> "off"]]
  /\ browser = [s \in Sockets |-> "here"]
  /\ pending = [s \in Sockets |-> <<>>]
  /\ active = [u \in Users |-> 0]
  /\ rows = <<>>
  /\ members = {}
  /\ count = [c \in Conns |-> 0]
  /\ shown = [s \in Sockets |-> {}]

-----------------------------------------------------------------------------
(* Connections to the core.                                                *)

Goto(c, p) == phase' = [phase EXCEPT ![c] = p]

\* open_registered_core connects and sends HELLO.
Dial(c) ==
  /\ phase[c] = "new"
  /\ Goto(c, "hello")
  /\ core' = [core EXCEPT ![c].up = TRUE]
  /\ toCore' = [toCore EXCEPT ![c] = <<Ask("hello", UserOf[c], None)>>]
  /\ UNCHANGED <<fromCore, accepted, pump, browser, pending, active, rows,
                 members, count, shown>>

\* writer.close(): what was written is still sent, then the stream ends; what
\* is under way is not read any more.
Hangup(c) ==
  /\ toCore' = [toCore EXCEPT ![c] = Append(@, Ask("quit", None, None))]
  /\ fromCore' = [fromCore EXCEPT ![c] = <<>>]
  /\ UNCHANGED <<core, accepted>>

Write(c, m) ==
  /\ toCore' = [toCore EXCEPT ![c] = Append(@, m)]
  /\ UNCHANGED <<core, accepted>>

Read(c) ==
  /\ fromCore[c] # <<>>
  /\ fromCore' = [fromCore EXCEPT ![c] = Tail(@)]

\* core_read of the answer to HELLO, which is not OK: the user name is in use.
Refused(c) ==
  /\ phase[c] = "hello"
  /\ \/ fromCore[c] # <<>> /\ Head(fromCore[c]).type # "ok"
     \/ Ended(c)
  /\ Goto(c, "refused")
  /\ Hangup(c)
  /\ UNCHANGED <<pump, browser, pending, active, rows, members, count, shown>>

Welcome(c) ==
  /\ phase[c] = "hello"
  /\ Read(c) /\ Head(fromCore[c]).type = "ok"

-----------------------------------------------------------------------------
(* websocket_endpoint.                                                     *)

Granted(s) ==
  /\ Welcome(s)
  /\ Goto(s, "granted")
  /\ UNCHANGED <<core, toCore, accepted, pump, browser, pending, active, rows,
                 members, count, shown>>

\* The session opens once the browser has its first event.  Up to then an
\* exception meets no handler: the key is not taken back, and the connection to
\* the core is closed only when the writer is collected.
Accept(s) ==
  /\ phase[s] = "granted"
  /\ \/ /\ browser[s] = "here"
        /\ Goto(s, "open")
        /\ pump' = [pump EXCEPT ![s] = [core |-> "run", ws |-> "run"]]
        /\ active' = [active EXCEPT ![UserOf[s]] = @ + 1]
        /\ UNCHANGED coreVars
     \/ /\ browser[s] = "gone"
        /\ \/ Goto(s, "lost") /\ UNCHANGED active
           \/ /\ Goto(s, "leaked")
              /\ active' = [active EXCEPT ![UserOf[s]] = @ + 1]
        /\ Hangup(s) \/ UNCHANGED coreVars
        /\ UNCHANGED pump
  /\ UNCHANGED <<browser, pending, rows, members, count, shown>>

Row(f, to) == [text |-> f.text, from |-> f.who, to |-> to]

\* DEFECT: the answer is taken for the one to the latest message.
SavesLatest(s, f) ==
  IF f.type = "chat" /\ f.who = UserOf[s] THEN <<Row(f, f.at)>>
  ELSE IF f.type = "dm" /\ active[f.who] = 0 THEN <<Row(f, UserOf[s])>>
  ELSE IF f.type = "sent" /\ pending[s] # <<>> THEN <<Last(pending[s])>>
  ELSE <<>>

\* DEFECT: the receiver saves every direct message, as well as the sender.
SavesBoth(s, f) ==
  IF f.type = "chat" /\ f.who = UserOf[s] THEN <<Row(f, f.at)>>
  ELSE IF f.type = "dm" THEN <<Row(f, UserOf[s])>>
  ELSE IF f.type = "sent" /\ pending[s] # <<>> THEN <<Head(pending[s])>>
  ELSE <<>>

\* DEFECT: a chat is saved by those who receive it.
SavesReceived(s, f) ==
  IF f.type = "chat" /\ f.who # UserOf[s] THEN <<Row(f, f.at)>>
  ELSE IF f.type = "dm" /\ active[f.who] = 0 THEN <<Row(f, UserOf[s])>>
  ELSE IF f.type = "sent" /\ pending[s] # <<>> THEN <<Head(pending[s])>>
  ELSE <<>>

\* DEFECT: a chat is saved by everyone who sees it.
SavesSeen(s, f) ==
  IF f.type = "chat" THEN <<Row(f, f.at)>>
  ELSE IF f.type = "dm" /\ active[f.who] = 0 THEN <<Row(f, UserOf[s])>>
  ELSE IF f.type = "sent" /\ pending[s] # <<>> THEN <<Head(pending[s])>>
  ELSE <<>>

\* The row that frame f makes the session write, if any.
Saves(s, f) ==
  IF f.type = "chat" /\ f.who = UserOf[s] THEN <<Row(f, f.at)>>
  ELSE IF f.type = "dm" /\ active[f.who] = 0 THEN <<Row(f, UserOf[s])>>
  ELSE IF f.type = "sent" /\ pending[s] # <<>> THEN <<Head(pending[s])>>
  ELSE <<>>

\* save_channel_message also makes its sender a member.
Joins(s, f) ==
  IF f.type = "chat" /\ f.who = UserOf[s] THEN {<<f.who, f.at>>} ELSE {}

\* DEFECT: only a message that was sent leaves pending_dms.
SettlesSent(f) == f.type = "sent"

\* The answers that take an entry from pending_dms, if it has one.
Settles(f) == f.type \in {"sent", "error"}

\* One turn of pump_core_to_ws.
CoreToWs(s) ==
  /\ pump[s].core = "run" /\ phase[s] = "open"
  /\ Read(s)
  /\ LET f == Head(fromCore[s])
         mine == f.type \in {"sent", "chat"} /\ f.text[1] = s
     IN  /\ rows' = rows \o Saves(s, f)
         /\ members' = members \cup Joins(s, f)
         /\ pending' = [pending EXCEPT ![s] =
              IF Settles(f) /\ @ # <<>> THEN Tail(@) ELSE @]
         /\ \/ /\ browser[s] = "here"
               /\ shown' = [shown EXCEPT ![s] =
                              IF mine THEN @ \cup {f.text} ELSE @]
               /\ UNCHANGED pump
            \/ /\ browser[s] = "gone"
               /\ pump' = [pump EXCEPT ![s].core = "failed"]
               /\ UNCHANGED shown
  /\ UNCHANGED <<core, toCore, accepted, phase, browser, active, count>>

\* The stream ended, or the endpoint has closed it.
CoreGone(s) ==
  /\ pump[s].core = "run"
  /\ Ended(s) \/ phase[s] = "over"
  /\ pump' = [pump EXCEPT ![s].core = "failed"]
  /\ UNCHANGED <<coreVars, phase, browser, pending, active, rows, members,
                 count, shown>>

Text(c) == <<c, count[c] + 1>>

\* What a browser or a peer may send next.
Sendable(c) ==
  {m \in {Ask(op, ch, None) : op \in {"join", "switch", "leave"},
                              ch \in Channels}
         \cup {Ask("dm", u, Text(c)) : u \in Users}
         \cup {Ask("nick", u, None) : u \in Users}
         \cup {Ask("say", None, Text(c)), Ask("quit", None, None)} :
     m.op \in Commands}

\* One turn of pump_ws_to_core: the database first, then the core.  A command
\* that the gateway rejects itself has no effect.
WsToCore(s) ==
  /\ pump[s].ws = "run" /\ browser[s] = "here"
  /\ count[s] < MaxCommands
  /\ count' = [count EXCEPT ![s] = @ + 1]
  /\ \E m \in Sendable(s) :
       /\ members' = IF m.op \in {"join", "switch"}
                     THEN members \cup {<<UserOf[s], m.arg>>} ELSE members
       /\ pending' = [pending EXCEPT ![s] =
            IF m.op # "dm" THEN @
            ELSE Append(@, [text |-> m.text, from |-> UserOf[s],
                            to |-> m.arg])]
       /\ \/ /\ phase[s] = "open"
             /\ Write(s, m)
             /\ pump' = IF m.op = "quit" THEN [pump EXCEPT ![s].ws = "done"]
                        ELSE pump
          \/ /\ ~core[s].up \/ phase[s] = "over"
             /\ pump' = [pump EXCEPT ![s].ws = "failed"]
             /\ UNCHANGED <<core, toCore, accepted>>
  /\ UNCHANGED <<fromCore, phase, browser, active, rows, shown>>

WsGone(s) ==
  /\ pump[s].ws = "run" /\ browser[s] = "gone"
  /\ pump' = [pump EXCEPT ![s].ws = "failed"]
  /\ UNCHANGED <<coreVars, phase, browser, pending, active, rows, members,
                 count, shown>>

Finished(s) == {t \in {"core", "ws"} : pump[s][t] # "run"}

\* DEFECT: active_gateway_users is taken back only after a QUIT.
FinishForgets(s) ==
  /\ phase[s] = "open" /\ Finished(s) # {}
  /\ Goto(s, "over")
  /\ pump' = [pump EXCEPT ![s] = [t \in {"core", "ws"} |->
                IF t \in Finished(s) THEN @[t] ELSE "cancelled"]]
  /\ active' = IF pump[s].ws = "done"
               THEN [active EXCEPT ![UserOf[s]] = @ - 1] ELSE active
  /\ Hangup(s)
  /\ UNCHANGED <<browser, pending, rows, members, count, shown>>

\* DEFECT: the connection to the core is not closed.
FinishKeepsWriter(s) ==
  /\ phase[s] = "open" /\ Finished(s) # {}
  /\ Goto(s, "over")
  /\ active' = [active EXCEPT ![UserOf[s]] = @ - 1]
  /\ UNCHANGED <<coreVars, pump, browser, pending, rows, members, count,
                 shown>>

\* asyncio.wait returns.  If a task failed, its exception is met before the
\* other task is cancelled, and that one goes on.  What core_task then finds in
\* its buffer it handles at once: here it does so just before this step.
Finish(s) ==
  /\ phase[s] = "open" /\ Finished(s) # {}
  /\ Goto(s, "over")
  /\ pump' = IF \E t \in Finished(s) : pump[s][t] = "failed" THEN pump
             ELSE [pump EXCEPT ![s] = [t \in {"core", "ws"} |->
                     IF t \in Finished(s) THEN @[t] ELSE "cancelled"]]
  /\ active' = [active EXCEPT ![UserOf[s]] = IF @ > 0 THEN @ - 1 ELSE 0]
  /\ Hangup(s)
  /\ UNCHANGED <<browser, pending, rows, members, count, shown>>

\* The browser goes away, or is told to once the endpoint has returned.
Leave(s) ==
  /\ phase[s] # "new" /\ browser[s] = "here"
  /\ browser' = [browser EXCEPT ![s] = "gone"]
  /\ UNCHANGED <<coreVars, phase, pump, pending, active, rows, members, count,
                 shown>>

-----------------------------------------------------------------------------
(* core_stats, and the command-line clients.                               *)

AskStats(r) ==
  /\ Welcome(r)
  /\ Goto(r, "asked")
  /\ Write(r, Ask("stats", None, None))
  /\ UNCHANGED <<pump, browser, pending, active, rows, members, count, shown>>

\* The answer, or the end of the stream; in either case the connection ends.
AnswerRequest(r) ==
  /\ phase[r] = "asked"
  /\ \/ fromCore[r] # <<>> /\ Goto(r, "served")
     \/ Ended(r) /\ Goto(r, "failed")
  /\ Hangup(r)
  /\ UNCHANGED <<pump, browser, pending, active, rows, members, count, shown>>

PeerOpen(p) ==
  /\ Welcome(p)
  /\ Goto(p, "open")
  /\ UNCHANGED <<core, toCore, accepted, pump, browser, pending, active, rows,
                 members, count, shown>>

PeerSends(p) ==
  /\ phase[p] = "open" /\ count[p] < MaxCommands
  /\ count' = [count EXCEPT ![p] = @ + 1]
  /\ \E m \in Sendable(p) : Write(p, m)
  /\ UNCHANGED <<fromCore, phase, pump, browser, pending, active, rows,
                 members, shown>>

PeerReads(p) ==
  /\ phase[p] = "open"
  /\ Read(p)
  /\ UNCHANGED <<core, toCore, accepted, gatewayVars>>

-----------------------------------------------------------------------------
Core(c) == CoreStep(c) /\ UNCHANGED gatewayVars

Session(s) ==
  \/ Granted(s) \/ Accept(s)
  \/ CoreToWs(s) \/ CoreGone(s) \/ WsGone(s) \/ Finish(s)

Request(r) == AskStats(r) \/ AnswerRequest(r)

Next ==
  \/ \E c \in Conns : Dial(c) \/ Refused(c) \/ Core(c)
  \/ \E s \in Sockets : Session(s) \/ WsToCore(s) \/ Leave(s)
  \/ \E r \in Requests : Request(r)
  \/ \E p \in Peers : PeerOpen(p) \/ PeerSends(p) \/ PeerReads(p)

\* The event loops of the gateway and of the core serve everyone.  Nothing is
\* assumed of browsers and peers, except that a browser notices when its
\* websocket is closed.
Fairness ==
  /\ \A c \in Conns : /\ WF_vars(Refused(c))
                      /\ WF_vars(Core(c))
  /\ \A s \in Sockets : /\ WF_vars(Session(s))
                        /\ WF_vars(phase[s] = "over" /\ Leave(s))
  /\ \A r \in Requests : WF_vars(Request(r))

Spec == Init /\ [][Next]_vars /\ Fairness

-----------------------------------------------------------------------------
(* Properties.                                                             *)

\* The shape of the state.
TypeOK ==
  /\ phase \in [Conns -> {"new", "hello", "refused", "granted", "open", "over",
                          "lost", "leaked", "asked", "served", "failed"}]
  /\ pump \in [Sockets -> [core : {"off", "run", "failed", "cancelled"},
                           ws : {"off", "run", "failed", "cancelled", "done"}]]
  /\ active \in [Users -> 0 .. Cardinality(Sockets)]
  /\ members \subseteq Users \X Channels
  /\ \A c \in Conns : core[c].name # None => core[c].up
  /\ \A i \in DOMAIN rows : rows[i].from \in Users

\* active_gateway_users counts the sessions that are open, whatever ends them,
\* and the ones that were lost while their browser was being greeted: so a
\* user is absent from it only if no session of that user saves anything.
ActiveExact ==
  \A u \in Users :
    active[u] = Cardinality({s \in Sockets :
                  UserOf[s] = u /\ phase[s] \in {"open", "leaked"}})

\* Of two texts of one connection, the one that was sent first.
Before(t, u) == t[1] = u[1] /\ t[2] < u[2]

\* The answers to direct messages meet pending_dms in the same order: its
\* entries are the messages whose answer is not read, then those that the core
\* has not answered, and all three are in the order in which they were sent.
\* It holds as long as nothing but a direct message is refused and no receiver
\* overflows.
PendingInStep ==
  \A s \in Sockets :
    phase[s] = "open" /\ core[s].up =>
      LET answer == {i \in DOMAIN fromCore[s] :
                       \/ fromCore[s][i].type = "sent"
                       \/ /\ fromCore[s][i].type = "error"
                          /\ fromCore[s][i].text # None}
          asked == {i \in DOMAIN toCore[s] : toCore[s][i].op = "dm"}
          Sorted(seq, I) ==
            \A i, j \in I : i < j => Before(seq[i].text, seq[j].text)
      IN  /\ {pending[s][i].text : i \in DOMAIN pending[s]}
               = {fromCore[s][i].text : i \in answer}
                   \cup {toCore[s][i].text : i \in asked}
          /\ Sorted(pending[s], DOMAIN pending[s])
          /\ Sorted(fromCore[s], answer) /\ Sorted(toCore[s], asked)
          /\ \A i \in answer, j \in asked :
               Before(fromCore[s][i].text, toCore[s][j].text)

Saved(t) == {i \in DOMAIN rows : rows[i].text = t}

\* Chats are saved once, and only if the core accepted them; those of one
\* session have ids in the order in which every member saw them.
ChatHistory ==
  LET chat == {i \in DOMAIN rows : rows[i].to \in Channels}
      Place(t) == {k \in DOMAIN accepted : accepted[k] = t}
  IN  /\ \A i \in chat : Place(rows[i].text) # {}
      /\ \A i, j \in chat :
           i < j /\ rows[i].text[1] = rows[j].text[1] =>
             \A k \in Place(rows[i].text), l \in Place(rows[j].text) : k < l

\* A direct message is saved at most once.
DmSavedOnce ==
  \A i, j \in DOMAIN rows :
    rows[i].to \in Users /\ rows[i].text = rows[j].text => i = j

\* When a browser sees its own chat, or is told "direct message sent", that
\* text is saved.  (The answer does not say which message it answers.)
ConfirmedIsSaved == \A s \in Sockets : \A t \in shown[s] : Saved(t) # {}

\* A session whose browser has gone comes to an end, and the core forgets its
\* name: the user can come back.  (Unless the browser left while it was being
\* greeted.)
LetsGo ==
  \A s \in Sockets :
    browser[s] = "gone" ~> ~core[s].up \/ phase[s] \in {"lost", "leaked"}
=============================================================================
