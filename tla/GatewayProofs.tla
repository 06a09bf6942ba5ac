--------------------------- MODULE GatewayProofs ----------------------------
(***************************************************************************)
(* Proofs about Gateway, for any sockets, requests, peers, users and       *)
(* commands, unless a theorem says otherwise: active_gateway_users counts  *)
(* the sessions; the state has its shape; and what the sessions save is    *)
(* the history, once, and all that they confirm.                           *)
(*                                                                         *)
(* A step of the core is described by Handles, and one of anyone else by   *)
(* Moves and Advances: what it does to the requests and frames under way,  *)
(* whatever the request.  Sound says what is then known of the texts: the  *)
(* core accepts those of a connection in their order (Ordered), they reach *)
(* each reader in that order (Carried), and the name that a reader sees is *)
(* the sender's, if no one changes a name (Whose).  The theorems about the *)
(* table of messages add what they need of the rows.                       *)
(***************************************************************************)
EXTENDS Gateway, SequenceTheorems, FiniteSetTheorems, TLAPS

Counted == {"open", "leaked"}

\* The sessions of u that active_gateway_users should count.
SessionsOf(u) == {s \in Sockets : UserOf[s] = u /\ phase[s] \in Counted}

Exact ==
  /\ active \in [Users -> Nat]
  /\ DOMAIN phase = Conns
  /\ \A u \in Users : active[u] = Cardinality(SessionsOf(u))

-----------------------------------------------------------------------------
LEMMA SessionsAreFinite ==
  \A u \in Users : IsFiniteSet(SessionsOf(u)) /\ Cardinality(SessionsOf(u)) \in Nat
<1> TAKE u \in Users
<1>1. SessionsOf(u) \subseteq Sockets
  BY DEF SessionsOf
<1>2. IsFiniteSet(SessionsOf(u))
  BY <1>1, GatewayAssumption, FS_Subset DEF GatewayAssumption
<1> QED
  BY <1>2, FS_CardinalityType

\* A connection that is not counted before and after its step.
LEMMA ElsewhereExact ==
  ASSUME Exact, NEW c \in Conns, NEW p, phase' = [phase EXCEPT ![c] = p],
         c \in Sockets => phase[c] \notin Counted /\ p \notin Counted,
         UNCHANGED active
  PROVE  Exact'
<1>1. \A s \in Sockets : phase'[s] \in Counted <=> phase[s] \in Counted
  BY GatewayAssumption DEF Exact, GatewayAssumption
<1>2. \A u \in Users : SessionsOf(u)' = SessionsOf(u)
  BY <1>1 DEF SessionsOf
<1> QED
  BY <1>2 DEF Exact

\* A session that is counted from now on.
LEMMA CountedExact ==
  ASSUME Exact, NEW s \in Sockets, NEW p \in Counted, phase[s] \notin Counted,
         phase' = [phase EXCEPT ![s] = p],
         active' = [active EXCEPT ![UserOf[s]] = @ + 1]
  PROVE  Exact'
<1>1. s \in Conns /\ UserOf[s] \in Users
  BY GatewayAssumption DEF GatewayAssumption
<1>2. \A t \in Sockets : phase'[t] = IF t = s THEN p ELSE phase[t]
  BY <1>1, GatewayAssumption DEF Exact, GatewayAssumption
<1>3. ASSUME NEW u \in Users
      PROVE  active'[u] = Cardinality(SessionsOf(u))'
  <2>1. CASE u = UserOf[s]
    <3> DEFINE S == SessionsOf(u)
               T == S \cup {s}
    <3>1. SessionsOf(u)' = T
      BY <1>2, <2>1 DEF SessionsOf
    <3>2. s \notin S
      BY DEF SessionsOf
    <3>3. IsFiniteSet(S)
      BY SessionsAreFinite
    <3> HIDE DEF S
    <3>4. Cardinality(T) = Cardinality(S) + 1
      BY <3>2, <3>3, FS_AddElement
    <3>5. active'[u] = active[u] + 1 /\ active[u] = Cardinality(S)
      BY <2>1 DEF Exact, S
    <3> QED
      BY <3>1, <3>4, <3>5
  <2>2. CASE u # UserOf[s]
    <3>1. SessionsOf(u)' = SessionsOf(u)
      BY <1>2, <2>2 DEF SessionsOf
    <3> QED
      BY <2>2, <3>1 DEF Exact
  <2> QED
    BY <2>1, <2>2
<1> QED
  BY <1>1, <1>3 DEF Exact

\* The session that ends is one of those counted: the count is not zero.
LEMMA FinishExact ==
  ASSUME Exact, NEW s \in Sockets, Finish(s)
  PROVE  Exact'
<1>1. /\ phase[s] = "open" /\ phase' = [phase EXCEPT ![s] = "over"]
      /\ active' = [active EXCEPT ![UserOf[s]] = IF @ > 0 THEN @ - 1 ELSE 0]
  BY DEF Finish, Goto
<1>2. s \in Conns /\ UserOf[s] \in Users
  BY GatewayAssumption DEF GatewayAssumption
<1>3. \A t \in Sockets : phase'[t] = IF t = s THEN "over" ELSE phase[t]
  BY <1>1, <1>2, GatewayAssumption DEF Exact, GatewayAssumption
<1>4. ASSUME NEW u \in Users
      PROVE  active'[u] = Cardinality(SessionsOf(u))' /\ active'[u] \in Nat
  <2>1. CASE u = UserOf[s]
    <3> DEFINE S == SessionsOf(u)
               T == S \ {s}
    <3>1. SessionsOf(u)' = T
      BY <1>3, <2>1 DEF SessionsOf, Counted
    <3>2. s \in S
      BY <1>1, <2>1 DEF SessionsOf, Counted
    <3>3. IsFiniteSet(S) /\ Cardinality(S) \in Nat
      BY SessionsAreFinite
    <3>4. active[u] = Cardinality(S)
      BY DEF Exact
    <3> HIDE DEF S
    <3>5. Cardinality(T) = Cardinality(S) - 1
      BY <3>2, <3>3, FS_RemoveElement
    <3>6. Cardinality(S) # 0
      <4>1. S # {}
        BY <3>2
      <4> QED
        BY <3>3, <4>1, FS_EmptySet
    <3>7. active'[u] = IF active[u] > 0 THEN active[u] - 1 ELSE 0
      BY <1>1, <2>1 DEF Exact
    <3> QED
      BY <3>1, <3>3, <3>4, <3>5, <3>6, <3>7
  <2>2. CASE u # UserOf[s]
    <3>1. SessionsOf(u)' = SessionsOf(u)
      BY <1>3, <2>2 DEF SessionsOf
    <3> QED
      BY <1>1, <2>2, <3>1 DEF Exact
  <2> QED
    BY <2>1, <2>2
<1>5. active' \in [Users -> Nat]
  BY <1>1, <1>4 DEF Exact
<1> QED
  BY <1>1, <1>4, <1>5 DEF Exact

\* A step that neither opens a session nor ends one.
LEMMA QuietExact ==
  ASSUME Exact, UNCHANGED <<phase, active>>
  PROVE  Exact'
<1>1. \A u \in Users : SessionsOf(u)' = SessionsOf(u)
  BY DEF SessionsOf
<1> QED
  BY <1>1 DEF Exact

LEMMA SessionExact ==
  ASSUME Exact, NEW s \in Sockets, Session(s)
  PROVE  Exact'
<1>1. s \in Conns
  BY GatewayAssumption DEF GatewayAssumption
<1>2. CASE Granted(s)
  BY <1>1, <1>2, ElsewhereExact DEF Granted, Welcome, Goto, Counted
<1>3. CASE Accept(s)
  <2>1. phase[s] = "granted"
    BY <1>3 DEF Accept
  <2>2. \/ /\ phase' = [phase EXCEPT ![s] = "lost"]
           /\ UNCHANGED active
        \/ /\ \E p \in Counted : phase' = [phase EXCEPT ![s] = p]
           /\ active' = [active EXCEPT ![UserOf[s]] = @ + 1]
    BY <1>3 DEF Accept, Goto, Counted
  <2> QED
    BY <1>1, <2>1, <2>2, ElsewhereExact, CountedExact DEF Counted
<1>4. CASE CoreToWs(s) \/ CoreGone(s) \/ WsGone(s)
  BY <1>4, QuietExact DEF CoreToWs, CoreGone, WsGone
<1> QED
  BY <1>2, <1>3, <1>4, FinishExact DEF Session

LEMMA NextExact == Exact /\ [Next]_vars => Exact'
<1> SUFFICES ASSUME Exact, [Next]_vars
             PROVE  Exact'
  OBVIOUS
<1>1. ASSUME NEW c \in Conns, Dial(c) \/ Refused(c) \/ Core(c)
      PROVE  Exact'
  BY <1>1, ElsewhereExact, QuietExact
     DEF Dial, Refused, Core, Goto, Counted, gatewayVars
<1>2. ASSUME NEW s \in Sockets, WsToCore(s) \/ Leave(s)
      PROVE  Exact'
  BY <1>2, QuietExact DEF WsToCore, Leave
<1>3. ASSUME NEW r \in Requests, Request(r)
      PROVE  Exact'
  <2>1. r \in Conns /\ r \notin Sockets
    BY GatewayAssumption DEF GatewayAssumption
  <2>2. /\ \E p \in {"asked", "served", "failed"} :
             phase' = [phase EXCEPT ![r] = p]
        /\ UNCHANGED active
    BY <1>3 DEF Request, AskStats, AnswerRequest, Goto
  <2> QED
    BY <2>1, <2>2, ElsewhereExact
<1>4. ASSUME NEW p \in Peers, PeerOpen(p)
      PROVE  Exact'
  <2>1. p \in Conns /\ p \notin Sockets
    BY GatewayAssumption DEF GatewayAssumption
  <2> QED
    BY <1>4, <2>1, ElsewhereExact DEF PeerOpen, Goto
<1>5. ASSUME NEW p \in Peers, PeerSends(p) \/ PeerReads(p)
      PROVE  Exact'
  BY <1>5, QuietExact DEF PeerSends, PeerReads, gatewayVars
<1>6. CASE UNCHANGED vars
  BY <1>6, QuietExact DEF vars, gatewayVars
<1> QED
  BY <1>1, <1>2, <1>3, <1>4, <1>5, <1>6, SessionExact DEF Next

LEMMA InitExact == Init => Exact
<1> SUFFICES ASSUME Init
             PROVE  Exact
  OBVIOUS
<1>1. \A u \in Users : SessionsOf(u) = {}
  BY GatewayAssumption DEF SessionsOf, Init, Counted, GatewayAssumption
<1>2. Cardinality({}) = 0
  BY FS_EmptySet
<1> QED
  BY <1>1, <1>2 DEF Exact, Init

\* active_gateway_users counts exactly the sessions that are open or lost, for
\* any number of sessions, requests and peers of any users.
THEOREM ActiveIsExact == Spec => []ActiveExact
<1>1. Exact => ActiveExact
  BY DEF Exact, ActiveExact, SessionsOf, Counted
<1> QED
  BY <1>1, InitExact, NextExact, PTL DEF Spec

-----------------------------------------------------------------------------
(* The shape of the state, and how far each connection has got: what has   *)
(* a name in the core, and what may be under way, in each phase.           *)

Texts == Conns \X Nat

Known == [up : BOOLEAN, name : Users \cup {None}, rooms : SUBSET Channels,
          active : Channels \cup {None}]

Asks == [op : {"hello", "nick", "join", "switch", "leave", "say", "dm",
               "stats", "quit"},
         arg : Users \cup Channels \cup {None}, text : Texts \cup {None}]

\* What connection c may send.
AsksOf(c) ==
  {m \in Asks :
     /\ m.op \in Commands \cup {"hello", "stats", "quit"}
     /\ m.op = "hello" => m.arg = UserOf[c]
     /\ m.op \in {"dm", "nick"} => m.arg \in Users
     /\ m.op \in {"join", "switch", "leave"} => m.arg \in Channels
     /\ m.op \in {"dm", "say"} => m.text \in Texts /\ m.text[1] = c}

Frames ==
  {f \in [type : {"ok", "error", "stats", "chat", "dm", "sent"},
          who : Users \cup {None}, at : Channels \cup {None},
          text : Texts \cup {None}] :
     /\ f.type \in {"chat", "dm"} => f.who \in Users
     /\ f.type = "chat" => f.at \in Channels
     /\ f.type \in {"chat", "dm", "sent"} => f.text \in Texts}

Rows == [text : Texts, from : Users, to : Users \cup Channels]

CoreShape ==
  /\ core \in [Conns -> Known]
  /\ \A c \in Conns : ~core[c].up => core[c] = Absent
  /\ toCore \in [Conns -> Seq(Asks)]
  /\ \A c \in Conns : \A i \in DOMAIN toCore[c] : toCore[c][i] \in AsksOf(c)
  /\ fromCore \in [Conns -> Seq(Frames)]
  /\ accepted \in Seq(Texts)

Phases == {"new", "hello", "refused", "granted", "open", "over", "lost",
           "leaked", "asked", "served", "failed"}

Pumps == [core : {"off", "run", "failed", "cancelled"},
          ws : {"off", "run", "failed", "cancelled", "done"}]

PendingShape ==
  /\ pending \in [Sockets -> Seq(Rows)]
  /\ \A s \in Sockets : \A i \in DOMAIN pending[s] :
       pending[s][i].text[1] = s /\ pending[s][i].to \in Users

SessionShape ==
  /\ phase \in [Conns -> Phases]
  /\ pump \in [Sockets -> Pumps]
  /\ browser \in [Sockets -> {"here", "gone"}]
  /\ PendingShape
  /\ rows \in Seq(Rows)
  /\ members \subseteq Users \X Channels
  /\ count \in [Conns -> Nat]
  /\ shown \in [Sockets -> SUBSET Texts]

Greeting == {"new", "hello", "refused"}

\* A connection that the core has given no name is in its greeting, and has
\* sent nothing that needs one.
NamedAt(c) ==
  /\ phase[c] = "new" =>
       core[c] = Absent /\ toCore[c] = <<>> /\ fromCore[c] = <<>>
  /\ phase[c] = "hello" =>
       \/ toCore[c] = <<>>
       \/ /\ toCore[c] = <<Ask("hello", UserOf[c], None)>>
          /\ fromCore[c] = <<>>
          /\ core[c].name = None
  /\ \A i \in DOMAIN toCore[c] :
       IF phase[c] \in Greeting THEN toCore[c][i].op \in {"hello", "quit"}
       ELSE toCore[c][i].op # "hello"
  /\ core[c].up /\ core[c].name = None =>
       /\ phase[c] \in {"hello", "refused"}
       /\ core[c].rooms = {} /\ core[c].active = None
       /\ fromCore[c] = <<>> \/ fromCore[c][1].type = "error"

Named == \A c \in Conns : NamedAt(c)

-----------------------------------------------------------------------------
(* What a step of the core does, whatever the request.                     *)

\* Frame f is one that request m of c may put in the queue of d.
Fresh(m, c, d, f) ==
  \/ /\ d = c /\ f = Plain("ok")
     /\ m.op \in {"hello", "nick", "join", "switch", "leave"}
     /\ m.op = "hello" /\ core'[c].up => core'[c].name = m.arg
  \/ d = c /\ f = Plain("stats") /\ m.op = "stats"
  \/ /\ d = c /\ f = Plain("error")
     /\ m.op \in {"hello", "nick", "switch", "leave", "say"}
  \/ d = c /\ m.op = "dm" /\ f = Tell("error", None, None, m.text)
  \/ d = c /\ m.op = "dm" /\ f = Tell("sent", None, None, m.text)
  \/ /\ f = Tell("dm", core[c].name, None, m.text)
     /\ m.op = "dm" /\ d \in Holder(m.arg)
     /\ accepted' = Append(accepted, m.text)
  \/ /\ f = Tell("chat", core[c].name, core[c].active, m.text)
     /\ m.op = "say" /\ core[c].active # None /\ d \in Inside(core[c].active)
     /\ accepted' = Append(accepted, m.text)

\* Request m makes new of the core's record of c.
Learns(m, c, new) ==
  /\ new.up
  /\ \/ /\ m.op \in {"hello", "nick"} /\ Holder(m.arg) \ {c} = {}
        /\ new = [core[c] EXCEPT !.name = m.arg]
     \/ m.op \in {"join", "switch", "leave"} /\ new.name = core[c].name

\* What was queued stays in front, unless the connection ends; of one that
\* ends some of it may be lost.
Handles(c) ==
  LET m == Head(toCore[c])
  IN  /\ core[c].up /\ toCore[c] # <<>>
      /\ toCore' = [toCore EXCEPT ![c] = Tail(@)]
      /\ core' \in [Conns -> Known]
      /\ \A d \in Conns :
           core'[d] \in {core[d], Absent} \/ (d = c /\ Learns(m, c, core'[c]))
      /\ \/ accepted' = accepted
         \/ m.op \in {"dm", "say"} /\ accepted' = Append(accepted, m.text)
      /\ fromCore' \in [Conns -> Seq(Frames)]
      /\ \A d \in Conns :
           /\ core'[d].up => Len(fromCore[d]) <= Len(fromCore'[d])
           /\ \A i \in DOMAIN fromCore'[d] :
                IF i <= Len(fromCore[d]) THEN fromCore'[d][i] = fromCore[d][i]
                ELSE Fresh(m, c, d, fromCore'[d][i])
           /\ \A i, j \in DOMAIN fromCore'[d] :
                Len(fromCore[d]) < i /\ i < j =>
                  fromCore'[d][i].type = "dm" /\ fromCore'[d][j].type = "sent"

LEMMA HeadIsAsk ==
  ASSUME CoreShape, NEW c \in Conns, toCore[c] # <<>>
  PROVE  Head(toCore[c]) \in AsksOf(c) /\ Head(toCore[c]) = toCore[c][1]
<1>1. toCore[c] \in Seq(Asks)
  BY DEF CoreShape
<1>2. 1 \in DOMAIN toCore[c] /\ Head(toCore[c]) = toCore[c][1]
  BY <1>1
<1> QED
  BY <1>2 DEF CoreShape

\* A frame that is queued for R, after the records have become cs.
Queued(cs, R, f) ==
  /\ core' \in [Conns -> Known]
  /\ \A d \in Conns : core'[d] \in {cs[d], Absent}
  /\ fromCore' \in [Conns -> Seq(Frames)]
  /\ \A d \in Conns :
       /\ core'[d].up => Len(fromCore[d]) <= Len(fromCore'[d])
       /\ \A i \in DOMAIN fromCore'[d] :
            IF i <= Len(fromCore[d])
            THEN fromCore'[d][i] = fromCore[d][i]
            ELSE i = Len(fromCore[d]) + 1 /\ d \in R
                   /\ fromCore'[d][i] = f
  /\ \A d \in R : Len(fromCore[d]) < Capacity =>
       fromCore'[d] = Append(fromCore[d], f)

LEMMA QueueDoes ==
  ASSUME CoreShape, NEW cs \in [Conns -> Known], NEW R \in SUBSET Conns,
         NEW f \in Frames, Queue(cs, R, f)
  PROVE  Queued(cs, R, f)
<1> DEFINE over == {c \in R : Len(fromCore[c]) >= Capacity}
<1>1. Absent \in Known /\ ~Absent.up
  BY CoreAssumption DEF Absent, Known
<1>2. core' = [c \in Conns |-> IF c \in over THEN Absent ELSE cs[c]]
  BY DEF Queue
<1>3. PICK kept \in [over -> 0 .. Capacity] :
        fromCore' = [c \in Conns |->
          IF c \in over THEN SubSeq(fromCore[c], 1, kept[c])
          ELSE IF c \in R THEN Append(fromCore[c], f)
          ELSE fromCore[c]]
  BY DEF Queue
<1>4. ASSUME NEW d \in Conns
      PROVE  /\ core'[d] \in {cs[d], Absent} /\ core'[d] \in Known
             /\ fromCore'[d] \in Seq(Frames)
             /\ core'[d].up => Len(fromCore[d]) <= Len(fromCore'[d])
             /\ \A i \in DOMAIN fromCore'[d] :
                  IF i <= Len(fromCore[d]) THEN fromCore'[d][i] = fromCore[d][i]
                  ELSE i = Len(fromCore[d]) + 1 /\ d \in R
                         /\ fromCore'[d][i] = f
             /\ d \in R /\ Len(fromCore[d]) < Capacity =>
                  fromCore'[d] = Append(fromCore[d], f)
  <2>1. fromCore[d] \in Seq(Frames)
    BY DEF CoreShape
  <2>2. CASE d \in over
    <3> DEFINE k == kept[d]
    <3>1. k \in Nat /\ k <= Len(fromCore[d]) /\ Len(fromCore[d]) >= Capacity
      BY <1>3, <2>1, <2>2, CoreAssumption DEF CoreAssumption
    <3>2. fromCore'[d] = SubSeq(fromCore[d], 1, k)
      BY <1>3, <2>2
    <3>3. core'[d] = Absent
      BY <1>2, <2>2
    <3> HIDE DEF k
    <3>4. /\ SubSeq(fromCore[d], 1, k) \in Seq(Frames)
          /\ Len(SubSeq(fromCore[d], 1, k)) = k
          /\ \A i \in 1 .. k : SubSeq(fromCore[d], 1, k)[i] = fromCore[d][i]
      BY <2>1, <3>1
    <3>5. DOMAIN fromCore'[d] = 1 .. k
      BY <3>2, <3>4
    <3> QED
      BY <1>1, <2>1, <2>2, <3>1, <3>2, <3>3, <3>4, <3>5, CoreAssumption
         DEF CoreAssumption
  <2>3. CASE d \in R \ over
    <3>1. fromCore'[d] = Append(fromCore[d], f) /\ core'[d] = cs[d]
      BY <1>2, <1>3, <2>3
    <3>2. /\ Append(fromCore[d], f) \in Seq(Frames)
          /\ Len(Append(fromCore[d], f)) = Len(fromCore[d]) + 1
          /\ DOMAIN Append(fromCore[d], f) = 1 .. Len(fromCore[d]) + 1
          /\ \A i \in 1 .. Len(fromCore[d]) + 1 :
               Append(fromCore[d], f)[i]
                 = IF i <= Len(fromCore[d]) THEN fromCore[d][i] ELSE f
      BY <2>1
    <3>3. Len(fromCore[d]) \in Nat
      BY <2>1
    <3> QED
      BY <2>3, <3>1, <3>2, <3>3
  <2>4. CASE d \notin R
    BY <1>2, <1>3, <2>1, <2>4
  <2> QED
    BY <2>2, <2>3, <2>4
<1> QED
  BY <1>2, <1>3, <1>4 DEF Queued

\* A request of c that is answered by frame f, the records having become cs.
LEMMA AnswerHandles ==
  ASSUME CoreShape, NEW c \in Conns, NEW op, Take(c, op),
         NEW cs \in [Conns -> Known],
         \A d \in Conns :
           cs[d] = core[d] \/ (d = c /\ Learns(Head(toCore[c]), c, cs[c])),
         NEW f \in Frames, Fresh(Head(toCore[c]), c, c, f),
         Answer(c, cs, f), accepted' = accepted
  PROVE  Handles(c)
<1> DEFINE m == Head(toCore[c])
<1>0. Queued(cs, {c}, f)
  <2>1. Queue(cs, {c}, f) /\ {c} \in SUBSET Conns
    BY DEF Answer
  <2> QED
    BY <2>1, QueueDoes
<1>1. /\ core' \in [Conns -> Known]
      /\ \A d \in Conns : core'[d] \in {cs[d], Absent}
      /\ fromCore' \in [Conns -> Seq(Frames)]
      /\ \A d \in Conns :
           /\ core'[d].up => Len(fromCore[d]) <= Len(fromCore'[d])
           /\ \A i \in DOMAIN fromCore'[d] :
                IF i <= Len(fromCore[d]) THEN fromCore'[d][i] = fromCore[d][i]
                ELSE i = Len(fromCore[d]) + 1 /\ d \in {c}
                       /\ fromCore'[d][i] = f
  BY <1>0 DEF Queued
<1>2. core[c].up /\ toCore[c] # <<>> /\ toCore' = [toCore EXCEPT ![c] = Tail(@)]
  BY DEF Take
<1>3. \A d \in Conns :
        core'[d] \in {core[d], Absent} \/ (d = c /\ Learns(m, c, core'[c]))
  BY <1>1
<1>4. ASSUME NEW d \in Conns
      PROVE  /\ \A i \in DOMAIN fromCore'[d] :
                  IF i <= Len(fromCore[d]) THEN fromCore'[d][i] = fromCore[d][i]
                  ELSE Fresh(m, c, d, fromCore'[d][i])
             /\ \A i, j \in DOMAIN fromCore'[d] :
                  ~(Len(fromCore[d]) < i /\ i < j)
  <2>1. /\ \A i \in DOMAIN fromCore'[d] : i \in Nat
        /\ Len(fromCore[d]) \in Nat
    BY <1>1 DEF CoreShape
  <2>2. \A i \in DOMAIN fromCore'[d] :
          i > Len(fromCore[d]) => i = Len(fromCore[d]) + 1
    BY <1>1, <2>1
  <2>3. \A i \in DOMAIN fromCore'[d] :
          IF i <= Len(fromCore[d]) THEN fromCore'[d][i] = fromCore[d][i]
          ELSE Fresh(m, c, d, fromCore'[d][i])
    <3> HIDE DEF m
    <3> QED
      BY <1>1 DEF m
  <2> QED
    BY <2>1, <2>2, <2>3
<1> QED
  BY <1>1, <1>2, <1>3, <1>4 DEF Handles

LEMMA PlainIsFrame ==
  ASSUME NEW type \in {"ok", "error", "stats"}, NEW text \in Texts \cup {None}
  PROVE  Tell(type, None, None, text) \in Frames
BY DEF Tell, Frames

LEMMA NameHandles ==
  ASSUME CoreShape, NEW c \in Conns, HandleName(c)
  PROVE  Handles(c)
<1> DEFINE m == Head(toCore[c])
           named == [core EXCEPT ![c].name = m.arg]
<1>1. PICK op \in {"hello", "nick"} : Take(c, op)
  BY DEF HandleName
<1>2. m \in AsksOf(c) /\ m.op = op
  BY <1>1, HeadIsAsk DEF Take
<1>3. m.arg \in Users
  BY <1>1, <1>2, GatewayAssumption DEF AsksOf, GatewayAssumption
<1>4. Plain("error") \in Frames /\ Plain("ok") \in Frames
  BY PlainIsFrame DEF Plain
<1>5. core \in [Conns -> Known] /\ core[c].up /\ accepted' = accepted
  BY <1>1 DEF CoreShape, Take, HandleName
<1>6. CASE Holder(m.arg) \ {c} # {}
  <2>1. Answer(c, core, Plain("error"))
    BY <1>6 DEF HandleName
  <2>2. Fresh(m, c, c, Plain("error"))
    BY <1>1, <1>2 DEF Fresh
  <2> QED
    BY <1>1, <1>4, <1>5, <2>1, <2>2, AnswerHandles
<1>7. CASE Holder(m.arg) \ {c} = {}
  <2>1. Answer(c, named, Plain("ok"))
    BY <1>7 DEF HandleName
  <2>3. named \in [Conns -> Known] /\ named[c] = [core[c] EXCEPT !.name = m.arg]
    BY <1>3, <1>5 DEF Known
  <2>7. Queued(named, {c}, Plain("ok"))
    <3> HIDE DEF named
    <3> QED
      BY <1>4, <2>1, <2>3, QueueDoes DEF Answer
  <2>8. core'[c].up => core'[c].name = m.arg
    BY <1>5, <2>3, <2>7 DEF Queued, Absent, Known
  <2>2. Fresh(m, c, c, Plain("ok"))
    BY <1>1, <1>2, <2>8 DEF Fresh
  <2>4. named[c].up
    BY <1>5, <2>3 DEF Known
  <2>5. Learns(m, c, named[c])
    BY <1>1, <1>2, <1>7, <2>3, <2>4 DEF Learns
  <2>6. \A d \in Conns : named[d] = core[d] \/ (d = c /\ Learns(m, c, named[c]))
    BY <1>5, <2>5
  <2> HIDE DEF named, m
  <2> QED
    BY <1>1, <1>4, <1>5, <2>1, <2>2, <2>3, <2>6, AnswerHandles DEF m
<1> QED
  BY <1>6, <1>7

LEMMA RoomHandles ==
  ASSUME CoreShape, NEW c \in Conns, HandleRoom(c)
  PROVE  Handles(c)
<1> DEFINE m == Head(toCore[c])
           ch == m.arg
           Enter(rooms) == [core EXCEPT ![c].rooms = rooms, ![c].active = ch]
           Exit == [core EXCEPT ![c].rooms = @ \ {ch},
                                ![c].active = IF @ = ch THEN None ELSE @]
<1>1. PICK op \in {"join", "switch", "leave"} : Take(c, op)
  BY DEF HandleRoom
<1>2. m \in AsksOf(c) /\ m.op = op
  BY <1>1, HeadIsAsk DEF Take
<1>3. ch \in Channels
  BY <1>1, <1>2 DEF AsksOf
<1>4. Plain("error") \in Frames /\ Plain("ok") \in Frames
  BY PlainIsFrame DEF Plain
<1>5. core \in [Conns -> Known] /\ core[c].up /\ accepted' = accepted
  BY <1>1 DEF CoreShape, Take, HandleRoom
<1>6. \/ \E rooms \in SUBSET Channels : Answer(c, Enter(rooms), Plain("ok"))
      \/ Answer(c, Exit, Plain("ok"))
      \/ op # "join" /\ Answer(c, core, Plain("error"))
  <2>1. core[c].rooms \subseteq Channels
    BY <1>5 DEF Known
  <2>2. core[c].rooms \cup {ch} \in SUBSET Channels
    BY <2>1, <1>3
  <2>3. CASE Take(c, "join") /\ Answer(c, Enter(core[c].rooms \cup {ch}), Plain("ok"))
    BY <2>2, <2>3
  <2>4. CASE Take(c, "switch") /\ Answer(c, Enter(core[c].rooms), Plain("ok"))
    BY <2>1, <2>4
  <2>5. CASE Take(c, "leave") /\ Answer(c, Exit, Plain("ok"))
    BY <2>5
  <2>6. CASE /\ Take(c, "switch") \/ Take(c, "leave")
             /\ Answer(c, core, Plain("error"))
    BY <1>1, <2>6 DEF Take
  <2> QED
    BY <2>3, <2>4, <2>5, <2>6 DEF HandleRoom
<1>7. ASSUME NEW new \in Known, new.up, new.name = core[c].name,
             NEW cs, cs = [core EXCEPT ![c] = new], Answer(c, cs, Plain("ok"))
      PROVE  Handles(c)
  <2>1. Fresh(m, c, c, Plain("ok"))
    BY <1>1, <1>2 DEF Fresh
  <2>2. cs \in [Conns -> Known] /\ cs[c] = new
    BY <1>5, <1>7
  <2>3. Learns(m, c, cs[c])
    BY <1>1, <1>2, <1>7, <2>2 DEF Learns
  <2>4. \A d \in Conns : cs[d] = core[d] \/ (d = c /\ Learns(m, c, cs[c]))
    BY <1>5, <1>7, <2>3
  <2> HIDE DEF m
  <2> QED
    BY <1>1, <1>4, <1>5, <1>7, <2>1, <2>2, <2>4, AnswerHandles DEF m
<1>8. CASE \E rooms \in SUBSET Channels : Answer(c, Enter(rooms), Plain("ok"))
  <2>1. PICK rooms \in SUBSET Channels : Answer(c, Enter(rooms), Plain("ok"))
    BY <1>8
  <2> DEFINE new == [core[c] EXCEPT !.rooms = rooms, !.active = ch]
  <2>2. Enter(rooms) = [core EXCEPT ![c] = new]
    BY <1>5 DEF Known
  <2>3. new \in Known /\ new.up /\ new.name = core[c].name
    BY <1>3, <1>5 DEF Known
  <2> HIDE DEF new, Enter
  <2> QED
    BY <1>7, <2>1, <2>2, <2>3
<1>9. CASE Answer(c, Exit, Plain("ok"))
  <2> DEFINE new == [core[c] EXCEPT !.rooms = @ \ {ch},
                                    !.active = IF @ = ch THEN None ELSE @]
  <2>2. Exit = [core EXCEPT ![c] = new]
    BY <1>5 DEF Known
  <2>3. new \in Known /\ new.up /\ new.name = core[c].name
    BY <1>3, <1>5 DEF Known
  <2> HIDE DEF new, Exit
  <2> QED
    BY <1>7, <1>9, <2>2, <2>3
<1>10. CASE op # "join" /\ Answer(c, core, Plain("error"))
  <2>1. Fresh(m, c, c, Plain("error"))
    BY <1>1, <1>2, <1>10 DEF Fresh
  <2> QED
    BY <1>1, <1>4, <1>5, <1>10, <2>1, AnswerHandles
<1> QED
  BY <1>6, <1>8, <1>9, <1>10

LEMMA StatsHandles ==
  ASSUME CoreShape, NEW c \in Conns, HandleStats(c)
  PROVE  Handles(c)
<1>1. Plain("stats") \in Frames
  BY PlainIsFrame DEF Plain
<1>2. Fresh(Head(toCore[c]), c, c, Plain("stats"))
  BY DEF Fresh, HandleStats, Take
<1> QED
  BY <1>1, <1>2, AnswerHandles DEF HandleStats, CoreShape

LEMMA SayHandles ==
  ASSUME CoreShape, Named, NEW c \in Conns, HandleSay(c)
  PROVE  Handles(c)
<1> DEFINE m == Head(toCore[c])
           me == core[c]
           chat == Tell("chat", me.name, me.active, m.text)
           R == Inside(me.active)
<1>1. /\ core[c].up /\ toCore[c] # <<>> /\ m.op = "say"
      /\ toCore' = [toCore EXCEPT ![c] = Tail(@)]
  BY DEF HandleSay, Take
<1>2. m \in AsksOf(c) /\ m = toCore[c][1] /\ 1 \in DOMAIN toCore[c]
  BY <1>1, HeadIsAsk DEF CoreShape
<1>3. core \in [Conns -> Known] /\ me \in Known
  BY DEF CoreShape
<1>4. CASE me.active = None
  <2>1. Answer(c, core, Plain("error")) /\ accepted' = accepted
    BY <1>4 DEF HandleSay
  <2>2. Fresh(m, c, c, Plain("error"))
    BY <1>1 DEF Fresh
  <2>3. Plain("error") \in Frames /\ Take(c, "say")
    BY PlainIsFrame DEF Plain, HandleSay
  <2> QED
    BY <1>3, <2>1, <2>2, <2>3, AnswerHandles
<1>5. CASE me.active # None
  <2>1. Queue(core, R, chat) /\ accepted' = Append(accepted, m.text)
    BY <1>5 DEF HandleSay
  <2>2. me.name \in Users /\ me.active \in Channels
    <3>1. phase[c] \notin Greeting
      BY <1>1, <1>2 DEF Named, NamedAt
    <3> QED
      BY <1>1, <1>3, <1>5, <3>1 DEF Named, NamedAt, Known, Greeting
  <2>3. chat \in Frames
    BY <1>1, <1>2, <2>2 DEF Tell, Frames, AsksOf
  <2>4. R \in SUBSET Conns
    BY DEF Inside
  <2> HIDE DEF m, R, chat
  <2>0. Queued(core, R, chat)
    BY <1>3, <2>1, <2>3, <2>4, QueueDoes
  <2>5. /\ core' \in [Conns -> Known]
        /\ \A d \in Conns : core'[d] \in {core[d], Absent}
        /\ fromCore' \in [Conns -> Seq(Frames)]
        /\ \A d \in Conns :
             /\ core'[d].up => Len(fromCore[d]) <= Len(fromCore'[d])
             /\ \A i \in DOMAIN fromCore'[d] :
                  IF i <= Len(fromCore[d]) THEN fromCore'[d][i] = fromCore[d][i]
                  ELSE i = Len(fromCore[d]) + 1 /\ d \in R
                         /\ fromCore'[d][i] = chat
    BY <2>0 DEF Queued
  <2>6. \A d \in R : Fresh(m, c, d, chat)
    BY <1>1, <1>5, <2>1 DEF Fresh, R, chat
  <2>7. ASSUME NEW d \in Conns
        PROVE  \A i, j \in DOMAIN fromCore'[d] :
                 ~(Len(fromCore[d]) < i /\ i < j)
    <3>1. /\ \A i \in DOMAIN fromCore'[d] : i \in Nat
          /\ Len(fromCore[d]) \in Nat
      BY <2>5 DEF CoreShape
    <3>2. \A i \in DOMAIN fromCore'[d] :
            i > Len(fromCore[d]) => i = Len(fromCore[d]) + 1
      BY <2>5, <3>1
    <3> QED
      BY <3>1, <3>2
  <2>8. \A d \in Conns : \A i \in DOMAIN fromCore'[d] :
          IF i <= Len(fromCore[d]) THEN fromCore'[d][i] = fromCore[d][i]
          ELSE Fresh(m, c, d, fromCore'[d][i])
    BY <2>5, <2>6
  <2> QED
    BY <1>1, <2>1, <2>5, <2>7, <2>8 DEF Handles, m
<1> QED
  BY <1>4, <1>5

LEMMA EndHandles ==
  ASSUME CoreShape, NEW c \in Conns, HandleEnd(c)
  PROVE  Handles(c)
<1>1. /\ core[c].up /\ toCore[c] # <<>> /\ accepted' = accepted
      /\ toCore' = [toCore EXCEPT ![c] = Tail(@)]
      /\ core' = [core EXCEPT ![c] = Absent]
  BY DEF HandleEnd, Take
<1>2. PICK k \in 0 .. Len(fromCore[c]) :
        fromCore' = [fromCore EXCEPT ![c] = SubSeq(@, 1, k)]
  BY DEF HandleEnd
<1>3. Absent \in Known /\ ~Absent.up
  BY CoreAssumption DEF Absent, Known
<1>4. fromCore[c] \in Seq(Frames) /\ Len(fromCore[c]) \in Nat
  BY DEF CoreShape
<1>5. /\ SubSeq(fromCore[c], 1, k) \in Seq(Frames)
      /\ Len(SubSeq(fromCore[c], 1, k)) = k
      /\ \A i \in 1 .. k : SubSeq(fromCore[c], 1, k)[i] = fromCore[c][i]
  BY <1>4
<1>6. ASSUME NEW d \in Conns
      PROVE  /\ core'[d] \in {core[d], Absent} /\ core'[d] \in Known
             /\ fromCore'[d] \in Seq(Frames)
             /\ core'[d].up => Len(fromCore[d]) <= Len(fromCore'[d])
             /\ \A i \in DOMAIN fromCore'[d] :
                  i <= Len(fromCore[d]) /\ fromCore'[d][i] = fromCore[d][i]
  <2>1. CASE d = c
    <3>1. fromCore'[c] = SubSeq(fromCore[c], 1, k) /\ core'[c] = Absent
      BY <1>1, <1>2 DEF CoreShape
    <3>2. DOMAIN fromCore'[c] = 1 .. k
      BY <1>5, <3>1
    <3> QED
      BY <1>3, <1>4, <1>5, <2>1, <3>1, <3>2
  <2>2. CASE d # c
    <3>1. fromCore'[d] = fromCore[d] /\ core'[d] = core[d]
      BY <1>1, <1>2, <2>2 DEF CoreShape
    <3>2. fromCore[d] \in Seq(Frames)
      BY DEF CoreShape
    <3> QED
      BY <3>1, <3>2 DEF CoreShape
  <2> QED
    BY <2>1, <2>2
<1>7. core' \in [Conns -> Known] /\ fromCore' \in [Conns -> Seq(Frames)]
  BY <1>1, <1>2, <1>6 DEF CoreShape
<1>8. \A d \in Conns : \A i \in DOMAIN fromCore'[d] : ~(Len(fromCore[d]) < i)
  <2> TAKE d \in Conns
  <2>1. Len(fromCore[d]) \in Nat
    BY DEF CoreShape
  <2>2. \A i \in DOMAIN fromCore'[d] : i \in Nat
    BY <1>7
  <2> QED
    BY <1>6, <2>1, <2>2
<1> QED
  BY <1>1, <1>6, <1>7, <1>8 DEF Handles

\* A direct message whose receiver d takes it: its frame is queued there,
\* and the answer after it unless the sender then overflows.
Taken(c, d, dm, sent, got) ==
  /\ core' \in [Conns -> Known]
  /\ fromCore' \in [Conns -> Seq(Frames)]
  /\ \A e \in Conns :
       /\ core'[e] \in {core[e], Absent}
       /\ core'[e].up => Len(fromCore[e]) <= Len(fromCore'[e])
       /\ core'[c].up => /\ Len(fromCore[c]) < Len(fromCore'[c])
                         /\ fromCore'[c][Len(fromCore'[c])] = sent
       /\ \A i \in DOMAIN fromCore'[e] :
            \/ i <= Len(fromCore[e]) /\ fromCore'[e][i] = fromCore[e][i]
            \/ /\ i = Len(fromCore[e]) + 1 /\ e = d
               /\ fromCore'[e][i] = dm
            \/ /\ i = Len(got[e]) + 1 /\ e = c
               /\ fromCore'[e][i] = sent

LEMMA DmTaken ==
  ASSUME CoreShape, NEW c \in Conns, NEW d \in Conns,
         NEW dm \in Frames, NEW sent \in Frames, NEW got,
         got = [fromCore EXCEPT ![d] = Append(@, dm)],
         \/ /\ fromCore' = [got EXCEPT ![c] = Append(@, sent)]
            /\ UNCHANGED core
         \/ /\ core' = [core EXCEPT ![c] = Absent]
            /\ \E k \in 0 .. Len(got[c]) :
                 fromCore' = [got EXCEPT ![c] = SubSeq(@, 1, k)]
  PROVE  Taken(c, d, dm, sent, got)
<1>1. /\ fromCore \in [Conns -> Seq(Frames)] /\ core \in [Conns -> Known]
      /\ \A e \in Conns : fromCore[e] \in Seq(Frames) /\ Len(fromCore[e]) \in Nat
  BY DEF CoreShape
<1>2. Absent \in Known /\ ~Absent.up
  BY CoreAssumption DEF Absent, Known
<1>3. ASSUME NEW e \in Conns
      PROVE  /\ got[e] \in Seq(Frames) /\ Len(got[e]) \in Nat
             /\ Len(fromCore[e]) <= Len(got[e])
             /\ DOMAIN got[e] = 1 .. Len(got[e])
             /\ \A i \in 1 .. Len(got[e]) :
                  \/ i <= Len(fromCore[e]) /\ got[e][i] = fromCore[e][i]
                  \/ i = Len(fromCore[e]) + 1 /\ e = d /\ got[e][i] = dm
  <2>1. fromCore[e] \in Seq(Frames)
    BY <1>1
  <2>2. CASE e = d
    <3>1. got[e] = Append(fromCore[e], dm)
      BY <1>1, <2>2
    <3> QED
      BY <2>1, <2>2, <3>1
  <2>3. CASE e # d
    <3>1. got[e] = fromCore[e]
      BY <1>1, <2>3
    <3> QED
      BY <2>1, <3>1
  <2> QED
    BY <2>2, <2>3
<1>4. got \in [Conns -> Seq(Frames)]
  BY <1>1
<1>5. CASE fromCore' = [got EXCEPT ![c] = Append(@, sent)] /\ UNCHANGED core
  <2>1. ASSUME NEW e \in Conns
        PROVE  /\ fromCore'[e] \in Seq(Frames)
               /\ Len(got[e]) <= Len(fromCore'[e])
               /\ \A i \in DOMAIN fromCore'[e] :
                    \/ i <= Len(got[e]) /\ fromCore'[e][i] = got[e][i]
                    \/ i = Len(got[e]) + 1 /\ e = c /\ fromCore'[e][i] = sent
    <3>1. got[e] \in Seq(Frames) /\ Len(got[e]) \in Nat
      BY <1>3
    <3>2. CASE e = c
      <4>1. fromCore'[e] = Append(got[e], sent)
        BY <1>4, <1>5, <3>2
      <4> QED
        BY <3>1, <3>2, <4>1
    <3>3. CASE e # c
      <4>1. fromCore'[e] = got[e]
        BY <1>4, <1>5, <3>3
      <4> QED
        BY <3>1, <4>1
    <3> QED
      BY <3>2, <3>3
  <2>2. /\ Len(fromCore'[c]) = Len(got[c]) + 1
        /\ fromCore'[c][Len(got[c]) + 1] = sent
    <3>1. fromCore'[c] = Append(got[c], sent) /\ got[c] \in Seq(Frames)
      BY <1>3, <1>4, <1>5
    <3> QED
      BY <3>1
  <2>3. fromCore' \in [Conns -> Seq(Frames)]
    BY <1>4, <1>5, <2>1
  <2>4. \A e \in Conns : \A i \in DOMAIN fromCore'[e] :
          i \in Nat /\ 1 <= i
    BY <2>3
  <2>5. ASSUME NEW e \in Conns
        PROVE  /\ Len(fromCore[e]) <= Len(fromCore'[e])
               /\ Len(fromCore'[e]) \in Nat
    BY <1>1, <1>3, <2>1
  <2>6. ASSUME NEW e \in Conns, NEW i \in DOMAIN fromCore'[e]
        PROVE  \/ i <= Len(fromCore[e]) /\ fromCore'[e][i] = fromCore[e][i]
               \/ i = Len(fromCore[e]) + 1 /\ e = d /\ fromCore'[e][i] = dm
               \/ i = Len(got[e]) + 1 /\ e = c /\ fromCore'[e][i] = sent
    <3>1. CASE i <= Len(got[e])
      <4>1. i \in 1 .. Len(got[e])
        BY <1>3, <2>4, <3>1
      <4>2. fromCore'[e][i] = got[e][i]
        BY <1>3, <2>1, <3>1
      <4> QED
        BY <1>3, <4>1, <4>2
    <3>2. CASE ~(i <= Len(got[e]))
      BY <2>1, <3>2
    <3> QED
      BY <3>1, <3>2
  <2>7. Len(fromCore[c]) < Len(fromCore'[c])
    BY <1>1, <1>3, <2>2
  <2> QED
    BY <1>1, <1>5, <2>2, <2>3, <2>5, <2>6, <2>7 DEF Taken
<1>6. CASE /\ core' = [core EXCEPT ![c] = Absent]
           /\ \E k \in 0 .. Len(got[c]) :
                fromCore' = [got EXCEPT ![c] = SubSeq(@, 1, k)]
  <2>1. PICK k \in 0 .. Len(got[c]) :
          fromCore' = [got EXCEPT ![c] = SubSeq(@, 1, k)]
    BY <1>6
  <2>2. /\ fromCore'[c] = SubSeq(got[c], 1, k)
        /\ \A e \in Conns \ {c} : fromCore'[e] = got[e]
    BY <1>4, <2>1
  <2>3. /\ SubSeq(got[c], 1, k) \in Seq(Frames)
        /\ DOMAIN SubSeq(got[c], 1, k) = 1 .. k
        /\ \A i \in 1 .. k : SubSeq(got[c], 1, k)[i] = got[c][i]
    <3>1. got[c] \in Seq(Frames) /\ k \in 0 .. Len(got[c])
      BY <1>3, <2>1
    <3> QED
      BY <3>1
  <2>4. fromCore' \in [Conns -> Seq(Frames)]
    BY <1>4, <2>1, <2>2, <2>3
  <2>5. /\ core' \in [Conns -> Known]
        /\ core'[c] = Absent /\ \A e \in Conns \ {c} : core'[e] = core[e]
    BY <1>1, <1>2, <1>6
  <2>6. \A e \in Conns : \A i \in DOMAIN fromCore'[e] :
          i \in 1 .. Len(got[e]) /\ fromCore'[e][i] = got[e][i]
    <3>0. k \in Nat /\ k <= Len(got[c]) /\ Len(got[c]) \in Nat
      BY <1>3, <2>1
    <3>1. \A i \in DOMAIN fromCore'[c] :
            i \in 1 .. Len(got[c]) /\ fromCore'[c][i] = got[c][i]
      BY <2>2, <2>3, <3>0
    <3> QED
      BY <1>3, <2>2, <3>1
  <2>7. \A e \in Conns : \A i \in DOMAIN fromCore'[e] :
          \/ i <= Len(fromCore[e]) /\ fromCore'[e][i] = fromCore[e][i]
          \/ i = Len(fromCore[e]) + 1 /\ e = d /\ fromCore'[e][i] = dm
    BY <1>3, <2>6
  <2>8. \A e \in Conns : core'[e].up => Len(fromCore[e]) <= Len(fromCore'[e])
    BY <1>2, <1>3, <2>2, <2>5
  <2> QED
    BY <1>2, <2>4, <2>5, <2>7, <2>8 DEF Taken
<1> QED
  BY <1>5, <1>6

LEMMA DmHandles ==
  ASSUME CoreShape, Named, NEW c \in Conns, HandleDm(c)
  PROVE  /\ Handles(c)
         /\ core'[c].up /\ (\A d \in Conns : Len(fromCore[d]) < Capacity) =>
              LET n == Len(fromCore'[c])
              IN  /\ Len(fromCore[c]) < n
                  /\ fromCore'[c][n].type \in {"sent", "error"}
                  /\ fromCore'[c][n].text = Head(toCore[c]).text
<1> DEFINE m == Head(toCore[c])
           dm == Tell("dm", core[c].name, None, m.text)
           sent == Tell("sent", None, None, m.text)
           no == Tell("error", None, None, m.text)
           n == Len(fromCore'[c])
           Told == /\ Len(fromCore[c]) < n
                   /\ fromCore'[c][n].type \in {"sent", "error"}
                   /\ fromCore'[c][n].text = m.text
<1>1. /\ core[c].up /\ toCore[c] # <<>> /\ m.op = "dm"
      /\ toCore' = [toCore EXCEPT ![c] = Tail(@)]
  BY DEF HandleDm, Take
<1>2. m \in AsksOf(c) /\ m = toCore[c][1] /\ 1 \in DOMAIN toCore[c]
  BY <1>1, HeadIsAsk DEF CoreShape
<1>3. m.text \in Texts /\ m.arg \in Users /\ core[c].name \in Users
  <2>1. phase[c] \notin Greeting
    BY <1>1, <1>2 DEF Named, NamedAt
  <2> QED
    BY <1>1, <1>2, <2>1 DEF Named, NamedAt, CoreShape, Known, AsksOf, Greeting
<1>4. dm \in Frames /\ sent \in Frames /\ no \in Frames
  BY <1>3 DEF Tell, Frames
<1>5. /\ core \in [Conns -> Known] /\ Holder(m.arg) \subseteq Conns
      /\ \A e \in Conns : Len(fromCore[e]) \in Nat
  BY DEF CoreShape, Holder
<1>6. /\ Fresh(m, c, c, sent) /\ Fresh(m, c, c, no)
      /\ accepted' = Append(accepted, m.text) =>
           \A e \in Holder(m.arg) : Fresh(m, c, e, dm)
  BY <1>1 DEF Fresh
<1>7. ASSUME NEW e \in Conns, NEW f \in Frames, Queue(core, {e}, f),
             \/ Len(fromCore[e]) >= Capacity
             \/ e = c /\ f = no,
             accepted' = accepted
      PROVE  Handles(c) /\ (Len(fromCore[c]) < Capacity /\ e = c => Told)
  <2> HIDE DEF no, m
  <2>1. Queued(core, {e}, f)
    BY <1>5, <1>7, QueueDoes
  <2>2. ASSUME NEW g \in Conns
        PROVE  \A i \in DOMAIN fromCore'[g] :
                 /\ i <= Len(fromCore[g]) => fromCore'[g][i] = fromCore[g][i]
                 /\ Len(fromCore[g]) < i =>
                      /\ i = Len(fromCore[g]) + 1
                      /\ g = c /\ fromCore'[g][i] = no
    <3>1. /\ Len(fromCore[g]) \in Nat
          /\ \A i \in DOMAIN fromCore'[g] : i \in Nat
      BY <1>5, <2>1 DEF Queued
    <3>2. \A i \in DOMAIN fromCore'[g] :
            IF i <= Len(fromCore[g]) THEN fromCore'[g][i] = fromCore[g][i]
            ELSE i = Len(fromCore[g]) + 1 /\ g = e /\ fromCore'[g][i] = f
      BY <2>1 DEF Queued
    <3>3. CASE Len(fromCore[e]) >= Capacity
      <4>1. \A i \in DOMAIN fromCore'[e] : i <= Len(fromCore[e])
        BY <1>7, <1>5, <3>3, CoreAssumption DEF Queue, CoreAssumption, CoreShape
      <4> QED
        BY <3>1, <3>2, <4>1
    <3> QED
      BY <1>7, <3>1, <3>2, <3>3
  <2>3. \A g \in Conns : \A i, j \in DOMAIN fromCore'[g] :
          ~(Len(fromCore[g]) < i /\ i < j)
    <3> TAKE g \in Conns
    <3>1. Len(fromCore[g]) \in Nat /\ \A i \in DOMAIN fromCore'[g] : i \in Nat
      BY <1>5, <2>1 DEF Queued
    <3> QED
      BY <2>2, <3>1
  <2>4. \A g \in Conns : \A i \in DOMAIN fromCore'[g] :
          IF i <= Len(fromCore[g]) THEN fromCore'[g][i] = fromCore[g][i]
          ELSE Fresh(m, c, g, fromCore'[g][i])
    <3> TAKE g \in Conns
    <3>1. Len(fromCore[g]) \in Nat /\ \A i \in DOMAIN fromCore'[g] : i \in Nat
      BY <1>5, <2>1 DEF Queued
    <3> QED
      BY <1>6, <2>2, <3>1
  <2>5. Handles(c)
    BY <1>1, <1>7, <2>1, <2>3, <2>4 DEF Handles, Queued, m
  <2>6. ASSUME Len(fromCore[c]) < Capacity, e = c
        PROVE  Told
    <3>1. fromCore'[c] = Append(fromCore[c], f) /\ f = no
      BY <1>5, <1>7, <2>1, <2>6, CoreAssumption DEF Queued, CoreAssumption
    <3>2. /\ Len(Append(fromCore[c], f)) = Len(fromCore[c]) + 1
          /\ Append(fromCore[c], f)[Len(fromCore[c]) + 1] = f
      BY DEF CoreShape
    <3> QED
      BY <1>5, <3>1, <3>2 DEF no, Tell
  <2> QED
    BY <2>5, <2>6
<1>8. ASSUME Holder(m.arg) = {}
      PROVE  Handles(c) /\ (Len(fromCore[c]) < Capacity => Told)
  <2>1. Answer(c, core, no) /\ accepted' = accepted
    BY <1>8 DEF HandleDm
  <2> HIDE DEF no, m, Told
  <2> QED
    BY <1>4, <1>7, <2>1 DEF Answer, Told, m
<1>9. ASSUME NEW d \in Holder(m.arg), Len(fromCore[d]) >= Capacity,
             Queue(core, {d}, dm), accepted' = accepted
      PROVE  Handles(c) /\ \E e \in Conns : ~(Len(fromCore[e]) < Capacity)
  <2> HIDE DEF dm, m
  <2>1. d \in Conns
    BY <1>5
  <2>2. ~(Len(fromCore[d]) < Capacity)
    BY <1>5, <1>9, <2>1, CoreAssumption DEF CoreAssumption
  <2> QED
    BY <1>4, <1>7, <1>9, <2>1, <2>2
<1>10. ASSUME NEW d \in Holder(m.arg),
              accepted' = Append(accepted, m.text),
              NEW got, got = [fromCore EXCEPT ![d] = Append(@, dm)],
              \/ /\ fromCore' = [got EXCEPT ![c] = Append(@, sent)]
                 /\ UNCHANGED core
              \/ /\ core' = [core EXCEPT ![c] = Absent]
                 /\ \E k \in 0 .. Len(got[c]) :
                      fromCore' = [got EXCEPT ![c] = SubSeq(@, 1, k)]
       PROVE  Handles(c) /\ (core'[c].up => Told)
  <2>0. d \in Conns
    BY <1>5
  <2>9. Taken(c, d, dm, sent, got)
    <3> HIDE DEF dm, sent
    <3> QED
      BY <1>4, <1>10, <2>0, DmTaken
  <2>1. /\ core' \in [Conns -> Known]
        /\ fromCore' \in [Conns -> Seq(Frames)]
        /\ \A e \in Conns :
             /\ core'[e] \in {core[e], Absent}
             /\ core'[e].up => Len(fromCore[e]) <= Len(fromCore'[e])
             /\ core'[c].up => /\ Len(fromCore[c]) < Len(fromCore'[c])
                               /\ fromCore'[c][Len(fromCore'[c])] = sent
             /\ \A i \in DOMAIN fromCore'[e] :
                  \/ i <= Len(fromCore[e]) /\ fromCore'[e][i] = fromCore[e][i]
                  \/ /\ i = Len(fromCore[e]) + 1 /\ e = d
                     /\ fromCore'[e][i] = dm
                  \/ /\ i = Len(got[e]) + 1 /\ e = c
                     /\ fromCore'[e][i] = sent
    <3> HIDE DEF dm, sent
    <3> QED
      BY <2>9 DEF Taken
  <2>2. \A e \in Conns :
          /\ Len(got[e]) \in Nat /\ Len(fromCore[e]) \in Nat
          /\ e = d => Len(got[e]) = Len(fromCore[e]) + 1
          /\ e # d => Len(got[e]) = Len(fromCore[e])
          /\ \A i \in DOMAIN fromCore'[e] : i \in Nat
    BY <1>4, <1>5, <1>10, <2>0, <2>1 DEF CoreShape
  <2>3. \A e \in Conns : \A i \in DOMAIN fromCore'[e] :
          IF i <= Len(fromCore[e]) THEN fromCore'[e][i] = fromCore[e][i]
          ELSE Fresh(m, c, e, fromCore'[e][i])
    <3> HIDE DEF dm, sent, m
    <3> QED
      BY <1>6, <1>10, <2>1, <2>2
  <2>4. ASSUME NEW e \in Conns, NEW i \in DOMAIN fromCore'[e],
               NEW j \in DOMAIN fromCore'[e], Len(fromCore[e]) < i, i < j
        PROVE  fromCore'[e][i].type = "dm" /\ fromCore'[e][j].type = "sent"
    <3> HIDE DEF dm, sent
    <3>1. /\ i \in Nat /\ j \in Nat
          /\ Len(fromCore[e]) \in Nat /\ Len(got[e]) \in Nat
          /\ e = d => Len(got[e]) = Len(fromCore[e]) + 1
          /\ e # d => Len(got[e]) = Len(fromCore[e])
      BY <2>2, <2>4
    <3>2. j = Len(got[e]) + 1 /\ fromCore'[e][j] = sent
      BY <2>1, <2>4, <3>1
    <3>3. e = d /\ i = Len(fromCore[e]) + 1 /\ i # Len(got[e]) + 1
      BY <2>4, <3>1, <3>2
    <3>4. fromCore'[e][i] = dm
      BY <2>1, <3>1, <3>3
    <3> QED
      BY <3>2, <3>4 DEF Tell, dm, sent
  <2>5. Handles(c)
    BY <1>1, <1>10, <2>1, <2>3, <2>4 DEF Handles
  <2>6. core'[c].up => Told
    BY <2>1 DEF Tell
  <2> QED
    BY <2>5, <2>6
<1> QED
  <2> HIDE DEF Told
  <2>1. \/ Holder(m.arg) = {}
        \/ \E d \in Holder(m.arg) :
             \/ /\ Len(fromCore[d]) >= Capacity
                /\ Queue(core, {d}, dm) /\ accepted' = accepted
             \/ /\ accepted' = Append(accepted, m.text)
                /\ \E got \in {[fromCore EXCEPT ![d] = Append(@, dm)]} :
                     \/ /\ fromCore' = [got EXCEPT ![c] = Append(@, sent)]
                        /\ UNCHANGED core
                     \/ /\ core' = [core EXCEPT ![c] = Absent]
                        /\ \E k \in 0 .. Len(got[c]) :
                             fromCore' = [got EXCEPT ![c] = SubSeq(@, 1, k)]
    BY DEF HandleDm
  <2>2. Handles(c) /\ (core'[c].up /\ (\A d \in Conns : Len(fromCore[d]) < Capacity)
                         => Told)
    <3> HIDE DEF m, dm, sent
    <3>1. CASE Holder(m.arg) = {}
      BY <1>8, <3>1
    <3>2. CASE \E d \in Holder(m.arg) :
                 /\ Len(fromCore[d]) >= Capacity
                 /\ Queue(core, {d}, dm) /\ accepted' = accepted
      BY <1>9, <3>2
    <3>3. CASE \E d \in Holder(m.arg) :
                 /\ accepted' = Append(accepted, m.text)
                 /\ \E got \in {[fromCore EXCEPT ![d] = Append(@, dm)]} :
                      \/ /\ fromCore' = [got EXCEPT ![c] = Append(@, sent)]
                         /\ UNCHANGED core
                      \/ /\ core' = [core EXCEPT ![c] = Absent]
                         /\ \E k \in 0 .. Len(got[c]) :
                              fromCore' = [got EXCEPT ![c] = SubSeq(@, 1, k)]
      <4>1. PICK d \in Holder(m.arg) :
              /\ accepted' = Append(accepted, m.text)
              /\ \E got \in {[fromCore EXCEPT ![d] = Append(@, dm)]} :
                   \/ /\ fromCore' = [got EXCEPT ![c] = Append(@, sent)]
                      /\ UNCHANGED core
                   \/ /\ core' = [core EXCEPT ![c] = Absent]
                      /\ \E k \in 0 .. Len(got[c]) :
                           fromCore' = [got EXCEPT ![c] = SubSeq(@, 1, k)]
        BY <3>3
      <4> DEFINE got == [fromCore EXCEPT ![d] = Append(@, dm)]
      <4>2. \/ /\ fromCore' = [got EXCEPT ![c] = Append(@, sent)]
               /\ UNCHANGED core
            \/ /\ core' = [core EXCEPT ![c] = Absent]
               /\ \E k \in 0 .. Len(got[c]) :
                    fromCore' = [got EXCEPT ![c] = SubSeq(@, 1, k)]
        BY <4>1
      <4> QED
        BY <1>10, <4>1, <4>2
    <3> QED
      BY <2>1, <3>1, <3>2, <3>3
  <2> QED
    BY <2>2 DEF Told

LEMMA CoreHandles ==
  ASSUME CoreShape, Named, NEW c \in Conns, CoreStep(c)
  PROVE  Handles(c)
BY NameHandles, RoomHandles, SayHandles, DmHandles, StatsHandles, EndHandles
   DEF CoreStep

-----------------------------------------------------------------------------
(* The shape is kept.                                                      *)

Shape == CoreShape /\ SessionShape /\ Named

\* What is left of a queue when its first element is taken.
LEMMA TailDoes ==
  ASSUME NEW S, NEW q \in Seq(S), q # <<>>
  PROVE  /\ Tail(q) \in Seq(S) /\ Len(Tail(q)) = Len(q) - 1
         /\ DOMAIN Tail(q) = 1 .. Len(q) - 1
         /\ \A i \in DOMAIN Tail(q) :
              i + 1 \in DOMAIN q /\ Tail(q)[i] = q[i + 1]
<1>1. /\ Tail(q) \in Seq(S) /\ Len(Tail(q)) = Len(q) - 1
      /\ Len(q) \in Nat /\ Len(q) # 0
  OBVIOUS
<1>2. DOMAIN Tail(q) = 1 .. Len(q) - 1
  BY <1>1
<1>3. \A i \in 1 .. Len(q) - 1 : Tail(q)[i] = q[i + 1]
  OBVIOUS
<1>4. DOMAIN q = 1 .. Len(q)
  OBVIOUS
<1> QED
  BY <1>1, <1>2, <1>3, <1>4

LEMMA AppendDoes ==
  ASSUME NEW S, NEW q \in Seq(S), NEW x \in S
  PROVE  /\ Append(q, x) \in Seq(S) /\ Len(Append(q, x)) = Len(q) + 1
         /\ Len(q) \in Nat
         /\ DOMAIN Append(q, x) = 1 .. Len(q) + 1
         /\ \A i \in DOMAIN Append(q, x) :
              \/ i \in DOMAIN q /\ Append(q, x)[i] = q[i]
              \/ i = Len(q) + 1 /\ Append(q, x)[i] = x
OBVIOUS

\* A connection without a name in the core is sent nothing.
LEMMA UnnamedUnsent ==
  ASSUME Shape, NEW c \in Conns, Handles(c), NEW d \in Conns, d # c,
         ~core[d].up \/ core[d].name = None
  PROVE  \A i \in DOMAIN fromCore'[d] :
           i \in DOMAIN fromCore[d] /\ fromCore'[d][i] = fromCore[d][i]
<1> DEFINE m == Head(toCore[c])
<1>1. m \in AsksOf(c) /\ fromCore[d] \in Seq(Frames) /\ core[c] \in Known
  BY HeadIsAsk DEF Handles, Shape, CoreShape
<1>2. ASSUME NEW f PROVE ~Fresh(m, c, d, f)
  <2>1. m.op = "dm" => d \notin Holder(m.arg)
    BY <1>1, CoreAssumption DEF Holder, AsksOf, CoreAssumption
  <2>2. core[c].active # None => d \notin Inside(core[c].active)
    BY DEF Inside, Shape, Named, NamedAt
  <2> QED
    BY <2>1, <2>2 DEF Fresh
<1>3. \A i \in DOMAIN fromCore'[d] :
        i <= Len(fromCore[d]) /\ fromCore'[d][i] = fromCore[d][i]
  <2> HIDE DEF m
  <2> QED
    BY <1>2 DEF Handles, m
<1>4. \A i \in DOMAIN fromCore'[d] : i \in Nat /\ 1 <= i
  BY DEF Handles
<1> QED
  BY <1>1, <1>3, <1>4

LEMMA CoreKeepsShape ==
  ASSUME Shape, NEW c \in Conns, Handles(c), UNCHANGED gatewayVars
  PROVE  Shape'
<1> DEFINE m == Head(toCore[c])
<1>1. m \in AsksOf(c) /\ m = toCore[c][1] /\ toCore[c] \in Seq(Asks)
      /\ toCore[c] # <<>> /\ 1 \in DOMAIN toCore[c] /\ core[c].up
  BY HeadIsAsk DEF Handles, Shape, CoreShape
<1>2. /\ DOMAIN toCore = Conns
      /\ toCore'[c] = Tail(toCore[c])
      /\ \A d \in Conns \ {c} : toCore'[d] = toCore[d]
  BY DEF Handles, Shape, CoreShape
<1>3. ASSUME NEW d \in Conns
      PROVE  /\ toCore'[d] \in Seq(Asks)
             /\ \A i \in DOMAIN toCore'[d] :
                  \E j \in DOMAIN toCore[d] : toCore'[d][i] = toCore[d][j]
  <2>1. toCore[d] \in Seq(Asks)
    BY DEF Shape, CoreShape
  <2>2. CASE d = c
    <3>1. \A i \in DOMAIN Tail(toCore[c]) :
            i + 1 \in DOMAIN toCore[c] /\ Tail(toCore[c])[i] = toCore[c][i + 1]
      BY <1>1, TailDoes
    <3> QED
      BY <1>1, <1>2, <2>2, <3>1
  <2>3. CASE d # c
    BY <1>2, <2>1, <2>3
  <2> QED
    BY <2>2, <2>3
<1>4. ~Absent.up /\ Absent.name = None
  BY DEF Absent
<1>5. CoreShape'
  <2>1. \A d \in Conns : ~core'[d].up => core'[d] = Absent
    BY <1>1 DEF Handles, Shape, CoreShape, Learns
  <2>2. toCore' \in [Conns -> Seq(Asks)]
    BY <1>2, <1>3 DEF Handles, Shape, CoreShape
  <2>3. \A d \in Conns : \A i \in DOMAIN toCore'[d] : toCore'[d][i] \in AsksOf(d)
    BY <1>3 DEF Shape, CoreShape
  <2>4. accepted' \in Seq(Texts)
    <3>1. m.op \in {"dm", "say"} => m.text \in Texts
      BY <1>1 DEF AsksOf
    <3>2. \/ accepted' = accepted
          \/ m.op \in {"dm", "say"} /\ accepted' = Append(accepted, m.text)
      BY DEF Handles
    <3>3. accepted \in Seq(Texts)
      BY DEF Shape, CoreShape
    <3> HIDE DEF m
    <3> QED
      BY <3>1, <3>2, <3>3
  <2> QED
    BY <2>1, <2>2, <2>3, <2>4 DEF CoreShape, Handles, AsksOf
<1>6. SessionShape'
  BY DEF Shape, SessionShape, PendingShape, gatewayVars
<1>7. Named'
  <2> SUFFICES ASSUME NEW d \in Conns
               PROVE  NamedAt(d)'
    BY DEF Named
  <2>1. NamedAt(d) /\ phase' = phase
    BY DEF Shape, Named, gatewayVars
  <2>2. /\ fromCore'[d] \in Seq(Frames) /\ fromCore[d] \in Seq(Frames)
        /\ core'[d].up => Len(fromCore[d]) <= Len(fromCore'[d])
        /\ \A i \in DOMAIN fromCore'[d] :
             IF i <= Len(fromCore[d]) THEN fromCore'[d][i] = fromCore[d][i]
             ELSE Fresh(m, c, d, fromCore'[d][i])
    BY DEF Handles, Shape, CoreShape
  <2>3. core'[d] \in {core[d], Absent} \/ (d = c /\ Learns(m, c, core'[c]))
    BY DEF Handles
  <2>4. core[d] \in Known /\ (~core[d].up => core[d] = Absent)
    BY DEF Shape, CoreShape
  <2>5. \A i \in DOMAIN toCore'[d] :
          IF phase'[d] \in Greeting THEN toCore'[d][i].op \in {"hello", "quit"}
          ELSE toCore'[d][i].op # "hello"
    BY <1>3, <2>1 DEF NamedAt
  <2> HIDE DEF m
  <2>6. CASE d # c
    <3>1. toCore'[d] = toCore[d] /\ core'[d] \in {core[d], Absent}
      BY <1>2, <2>3, <2>6
    <3>2. ASSUME ~core[d].up \/ core[d].name = None
          PROVE  /\ fromCore'[d] = <<>> \/ fromCore'[d][1] = fromCore[d][1]
                 /\ fromCore[d] = <<>> => fromCore'[d] = <<>>
      <4>1. \A i \in DOMAIN fromCore'[d] :
              i \in DOMAIN fromCore[d] /\ fromCore'[d][i] = fromCore[d][i]
        BY <2>6, <3>2, UnnamedUnsent
      <4>2. fromCore'[d] # <<>> => 1 \in DOMAIN fromCore'[d]
        BY <2>2
      <4>3. fromCore[d] = <<>> => DOMAIN fromCore[d] = {}
        OBVIOUS
      <4> QED
        BY <4>1, <4>2, <4>3
    <3> QED
      BY <1>4, <2>1, <2>4, <2>5, <3>1, <3>2 DEF NamedAt
  <2>7. CASE d = c
    <3>1. phase[c] # "new"
      BY <1>1, <1>4, <2>1, <2>7 DEF NamedAt
    <3>2. phase[c] = "hello" => toCore'[c] = <<>>
      <4>1. phase[c] = "hello" =>
              toCore[c] = <<Ask("hello", UserOf[c], None)>>
        BY <1>1, <2>1, <2>7 DEF NamedAt
      <4>2. \A x : Tail(<<x>>) = <<>>
        OBVIOUS
      <4> QED
        BY <1>2, <4>1, <4>2
    <3>3. ASSUME core'[c].up, core'[c].name = None
          PROVE  /\ phase[c] \in {"hello", "refused"}
                 /\ core'[c].rooms = {} /\ core'[c].active = None
                 /\ fromCore'[c] = <<>> \/ fromCore'[c][1].type = "error"
      <4>1. core'[c] = core[c] /\ core[c].name = None
        <5>1. m.op \in {"hello", "nick"} => m.arg # None
          BY <1>1, GatewayAssumption, CoreAssumption
             DEF AsksOf, GatewayAssumption, CoreAssumption
        <5>2. m.op \in {"join", "switch", "leave"} => core[c].name # None
          BY <1>1, <2>1, <2>7 DEF NamedAt, Greeting
        <5> QED
          BY <1>4, <2>3, <2>4, <2>7, <3>3, <5>1, <5>2 DEF Learns, Known
      <4>2. /\ phase[c] \in {"hello", "refused"}
            /\ core[c].rooms = {} /\ core[c].active = None
            /\ fromCore[c] = <<>> \/ fromCore[c][1].type = "error"
        BY <1>1, <2>1, <2>7, <4>1 DEF NamedAt
      <4>3. m.op \in {"hello", "quit"}
        BY <1>1, <2>1, <2>7, <4>2 DEF NamedAt, Greeting
      <4>4. m.op = "hello" => m.arg # None
        BY <1>1, GatewayAssumption, CoreAssumption
           DEF AsksOf, GatewayAssumption, CoreAssumption
      <4>5. \A f : Fresh(m, c, c, f) => f.type = "error"
        BY <3>3, <4>2, <4>3, <4>4 DEF Fresh, Plain, Tell
      <4>6. fromCore'[c] # <<>> => 1 \in DOMAIN fromCore'[c]
        BY <2>2, <2>7
      <4>7. fromCore[c] = <<>> => ~(1 <= Len(fromCore[c]))
        OBVIOUS
      <4> QED
        BY <2>2, <2>7, <4>1, <4>2, <4>5, <4>6, <4>7
    <3> QED
      BY <2>1, <2>5, <2>7, <3>1, <3>2, <3>3 DEF NamedAt
  <2> QED
    BY <2>6, <2>7
<1> QED
  BY <1>5, <1>6, <1>7 DEF Shape

\* What a step of the gateway or of a peer does to the connection c: it may
\* send m, and read a frame or give up reading.
Moves(c, m) ==
  /\ UNCHANGED <<core, accepted>>
  /\ m \in AsksOf(c) /\ m.op # "hello"
  /\ UNCHANGED count \/ count' = [count EXCEPT ![c] = @ + 1]
  /\ \/ UNCHANGED toCore
     \/ /\ toCore' = [toCore EXCEPT ![c] = Append(@, m)]
        /\ m.op \in {"dm", "say"} =>
             m.text = Text(c) /\ count' = [count EXCEPT ![c] = @ + 1]
  /\ \/ UNCHANGED fromCore
     \/ fromCore' = [fromCore EXCEPT ![c] = <<>>]
     \/ fromCore[c] # <<>> /\ fromCore' = [fromCore EXCEPT ![c] = Tail(@)]

\* How the phase of c goes with that.
Advances(c) ==
  \/ UNCHANGED phase /\ (phase[c] \in Greeting => UNCHANGED coreVars)
  \/ /\ phase[c] = "hello" /\ phase' = [phase EXCEPT ![c] = "refused"]
     /\ toCore' = [toCore EXCEPT ![c] = Append(@, Ask("quit", None, None))]
     /\ fromCore' = [fromCore EXCEPT ![c] = <<>>]
  \/ /\ phase[c] = "hello"
     /\ \E p \in {"granted", "open", "asked"} : phase' = [phase EXCEPT ![c] = p]
     /\ fromCore[c] # <<>> /\ Head(fromCore[c]).type = "ok"
  \/ /\ phase[c] \notin Greeting
     /\ \E p \in {"open", "over", "lost", "leaked", "served", "failed"} :
          phase' = [phase EXCEPT ![c] = p]

LEMMA MovesDo ==
  ASSUME CoreShape, NEW c \in Conns, NEW m, Moves(c, m)
  PROVE  /\ CoreShape'
         /\ \A d \in Conns \ {c} :
              toCore'[d] = toCore[d] /\ fromCore'[d] = fromCore[d]
         /\ \A i \in DOMAIN toCore'[c] :
              \/ i \in DOMAIN toCore[c] /\ toCore'[c][i] = toCore[c][i]
              \/ /\ i = Len(toCore[c]) + 1 /\ toCore'[c][i] = m
                 /\ toCore' = [toCore EXCEPT ![c] = Append(@, m)]
         /\ \E k \in {0, 1} : \A i \in DOMAIN fromCore'[c] :
              i + k \in DOMAIN fromCore[c] /\ fromCore'[c][i] = fromCore[c][i + k]
<1>1. /\ toCore \in [Conns -> Seq(Asks)] /\ fromCore \in [Conns -> Seq(Frames)]
      /\ toCore[c] \in Seq(Asks) /\ fromCore[c] \in Seq(Frames)
      /\ m \in Asks
  BY DEF CoreShape, Moves, AsksOf
<1>2. /\ toCore' \in [Conns -> Seq(Asks)]
      /\ \A d \in Conns \ {c} : toCore'[d] = toCore[d]
      /\ \A i \in DOMAIN toCore'[c] :
           \/ i \in DOMAIN toCore[c] /\ toCore'[c][i] = toCore[c][i]
           \/ /\ i = Len(toCore[c]) + 1 /\ toCore'[c][i] = m
              /\ toCore' = [toCore EXCEPT ![c] = Append(@, m)]
  <2>1. CASE UNCHANGED toCore
    BY <1>1, <2>1
  <2>2. CASE toCore' = [toCore EXCEPT ![c] = Append(@, m)]
    <3>1. toCore'[c] = Append(toCore[c], m)
      BY <1>1, <2>2
    <3>2. /\ Append(toCore[c], m) \in Seq(Asks)
          /\ \A i \in DOMAIN Append(toCore[c], m) :
               \/ /\ i \in DOMAIN toCore[c]
                  /\ Append(toCore[c], m)[i] = toCore[c][i]
               \/ /\ i = Len(toCore[c]) + 1
                  /\ Append(toCore[c], m)[i] = m
      BY <1>1, AppendDoes
    <3> QED
      BY <1>1, <2>2, <3>1, <3>2
  <2> QED
    BY <2>1, <2>2 DEF Moves
<1>3. /\ fromCore' \in [Conns -> Seq(Frames)]
      /\ \A d \in Conns \ {c} : fromCore'[d] = fromCore[d]
      /\ \E k \in {0, 1} : \A i \in DOMAIN fromCore'[c] :
           i + k \in DOMAIN fromCore[c] /\ fromCore'[c][i] = fromCore[c][i + k]
  <2>1. CASE UNCHANGED fromCore
    <3>1. \A i \in DOMAIN fromCore[c] : i + 0 = i
      BY <1>1
    <3> QED
      BY <1>1, <2>1, <3>1
  <2>2. CASE fromCore' = [fromCore EXCEPT ![c] = <<>>]
    <3>1. fromCore'[c] = <<>> /\ DOMAIN fromCore'[c] = {}
      BY <1>1, <2>2
    <3> QED
      BY <1>1, <2>2, <3>1
  <2>3. CASE /\ fromCore[c] # <<>>
             /\ fromCore' = [fromCore EXCEPT ![c] = Tail(@)]
    <3>1. /\ Tail(fromCore[c]) \in Seq(Frames)
          /\ \A i \in DOMAIN Tail(fromCore[c]) :
               /\ i + 1 \in DOMAIN fromCore[c]
               /\ Tail(fromCore[c])[i] = fromCore[c][i + 1]
      BY <1>1, <2>3, TailDoes
    <3>2. fromCore'[c] = Tail(fromCore[c])
      BY <1>1, <2>3
    <3> QED
      BY <1>1, <2>3, <3>1, <3>2
  <2> QED
    BY <2>1, <2>2, <2>3 DEF Moves
<1>4. \A d \in Conns : \A i \in DOMAIN toCore'[d] : toCore'[d][i] \in AsksOf(d)
  BY <1>2 DEF CoreShape, Moves
<1>5. CoreShape'
  BY <1>2, <1>3, <1>4 DEF CoreShape, Moves, AsksOf
<1> QED
  BY <1>2, <1>3, <1>5

LEMMA MovesKeepNamed ==
  ASSUME CoreShape, Named, DOMAIN phase = Conns,
         NEW c \in Conns, NEW m, Moves(c, m), Advances(c)
  PROVE  Named'
<1>1. /\ CoreShape'
      /\ \A d \in Conns \ {c} :
           toCore'[d] = toCore[d] /\ fromCore'[d] = fromCore[d]
      /\ \A i \in DOMAIN toCore'[c] :
           \/ i \in DOMAIN toCore[c] /\ toCore'[c][i] = toCore[c][i]
           \/ i = Len(toCore[c]) + 1 /\ toCore'[c][i] = m
  BY MovesDo
<1>2. core' = core /\ m.op # "hello"
  BY DEF Moves
<1>3. \A d \in Conns \ {c} : phase'[d] = phase[d]
  BY DEF Advances
<1>4. \A d \in Conns \ {c} : NamedAt(d)'
  BY <1>1, <1>2, <1>3 DEF Named, NamedAt
<1> SUFFICES NamedAt(c)'
  BY <1>4 DEF Named
<1>5. NamedAt(c)
  BY DEF Named
<1>6. CASE UNCHANGED phase /\ (phase[c] \in Greeting => UNCHANGED coreVars)
  <2>1. CASE phase[c] \in Greeting
    BY <1>5, <1>6, <2>1 DEF NamedAt, coreVars
  <2>2. CASE phase[c] \notin Greeting
    BY <1>1, <1>2, <1>5, <1>6, <2>2 DEF NamedAt, Greeting
  <2> QED
    BY <2>1, <2>2
<1>7. CASE /\ phase[c] = "hello" /\ phase' = [phase EXCEPT ![c] = "refused"]
           /\ toCore' = [toCore EXCEPT ![c] = Append(@, Ask("quit", None, None))]
           /\ fromCore' = [fromCore EXCEPT ![c] = <<>>]
  <2>1. phase'[c] = "refused" /\ fromCore'[c] = <<>>
    BY <1>7 DEF CoreShape
  <2>2. \A i \in DOMAIN toCore'[c] : toCore'[c][i].op \in {"hello", "quit"}
    <3> DEFINE quit == Ask("quit", None, None)
    <3>1. toCore[c] \in Seq(Asks) /\ toCore'[c] = Append(toCore[c], quit)
      BY <1>7 DEF CoreShape
    <3>2. quit \in Asks /\ quit.op = "quit"
      BY DEF Ask, Asks
    <3>3. \A i \in DOMAIN toCore[c] : toCore[c][i].op \in {"hello", "quit"}
      BY <1>5, <1>7 DEF NamedAt, Greeting
    <3> HIDE DEF quit
    <3>4. \A i \in DOMAIN Append(toCore[c], quit) :
            \/ /\ i \in DOMAIN toCore[c]
               /\ Append(toCore[c], quit)[i] = toCore[c][i]
            \/ Append(toCore[c], quit)[i] = quit
      BY <3>1, <3>2, AppendDoes
    <3> QED
      BY <3>1, <3>2, <3>3, <3>4
  <2> QED
    BY <1>2, <1>5, <1>7, <2>1, <2>2 DEF NamedAt, Greeting
<1>8. CASE /\ phase[c] = "hello"
           /\ \E p \in {"granted", "open", "asked"} :
                phase' = [phase EXCEPT ![c] = p]
           /\ fromCore[c] # <<>> /\ Head(fromCore[c]).type = "ok"
  <2>1. phase'[c] \in {"granted", "open", "asked"}
    BY <1>8
  <2>2. toCore[c] = <<>> /\ \A i \in DOMAIN toCore[c] : FALSE
    BY <1>5, <1>8 DEF NamedAt
  <2>3. Head(fromCore[c]) = fromCore[c][1]
    BY <1>8 DEF CoreShape
  <2>4. ~(core[c].up /\ core[c].name = None)
    BY <1>5, <1>8, <2>3 DEF NamedAt
  <2> QED
    BY <1>1, <1>2, <2>1, <2>2, <2>4 DEF NamedAt, Greeting
<1>9. CASE /\ phase[c] \notin Greeting
           /\ \E p \in {"open", "over", "lost", "leaked", "served", "failed"} :
                phase' = [phase EXCEPT ![c] = p]
  <2>1. phase'[c] \in {"open", "over", "lost", "leaked", "served", "failed"}
    BY <1>9
  <2> QED
    BY <1>1, <1>2, <1>5, <1>9, <2>1 DEF NamedAt, Greeting
<1> QED
  BY <1>6, <1>7, <1>8, <1>9 DEF Advances

LEMMA QuitIsAsk ==
  \A c \in Conns : Ask("quit", None, None) \in AsksOf(c)
                     /\ Ask("stats", None, None) \in AsksOf(c)
BY DEF Ask, AsksOf, Asks

LEMMA SendableAreAsks ==
  ASSUME NEW c \in Conns, count[c] \in Nat, NEW m \in Sendable(c)
  PROVE  /\ m \in AsksOf(c) /\ m.op \notin {"hello", "stats"}
         /\ m.op \in Commands
         /\ m.op \in {"dm", "say"} => m.text = Text(c)
<1>1. Text(c) \in Texts /\ Text(c)[1] = c
  BY DEF Text, Texts
<1>2. m.op \in Commands
  BY DEF Sendable
<1>3. CASE \E op \in {"join", "switch", "leave"}, ch \in Channels :
             m = Ask(op, ch, None)
  BY <1>2, <1>3 DEF Ask, AsksOf, Asks
<1>4. CASE \E u \in Users : m = Ask("dm", u, Text(c))
  BY <1>1, <1>2, <1>4 DEF Ask, AsksOf, Asks
<1>5. CASE \E u \in Users : m = Ask("nick", u, None)
  BY <1>2, <1>5 DEF Ask, AsksOf, Asks
<1>6. CASE m = Ask("say", None, Text(c)) \/ m = Ask("quit", None, None)
  BY <1>1, <1>2, <1>6 DEF Ask, AsksOf, Asks
<1> QED
  BY <1>3, <1>4, <1>5, <1>6 DEF Sendable

\* The steps of the gateway and of the peers on connection c.
Talks(c) ==
  \/ Refused(c)
  \/ c \in Sockets /\ (Session(c) \/ WsToCore(c) \/ Leave(c))
  \/ c \in Requests /\ Request(c)
  \/ c \in Peers /\ (PeerOpen(c) \/ PeerSends(c) \/ PeerReads(c))

LEMMA TalksMoves ==
  ASSUME Shape, NEW c \in Conns, Talks(c)
  PROVE  \E m : Moves(c, m) /\ Advances(c)
<1> DEFINE quit == Ask("quit", None, None)
           stats == Ask("stats", None, None)
<1>1. /\ quit \in AsksOf(c) /\ quit.op = "quit"
      /\ stats \in AsksOf(c) /\ stats.op = "stats"
  BY QuitIsAsk DEF Ask
<1>2. count[c] \in Nat /\ DOMAIN phase = Conns
  BY DEF Shape, SessionShape
<1>3. ASSUME UNCHANGED coreVars, UNCHANGED count,
             \/ UNCHANGED phase
             \/ /\ phase[c] \notin Greeting
                /\ \E p \in {"open", "over", "lost", "leaked"} :
                     phase' = [phase EXCEPT ![c] = p]
      PROVE  Moves(c, quit) /\ Advances(c)
  <2> HIDE DEF quit
  <2> QED
    BY <1>1, <1>3 DEF Moves, Advances, coreVars
<1>4. ASSUME Hangup(c), UNCHANGED count,
             \/ phase[c] = "hello" /\ phase' = [phase EXCEPT ![c] = "refused"]
             \/ /\ phase[c] \notin Greeting
                /\ \E p \in {"over", "lost", "leaked", "served", "failed"} :
                     phase' = [phase EXCEPT ![c] = p]
      PROVE  Moves(c, quit) /\ Advances(c)
  BY <1>1, <1>4 DEF Moves, Advances, Hangup
<1>5. ASSUME Welcome(c), UNCHANGED <<core, accepted, count>>,
             \/ UNCHANGED toCore
             \/ toCore' = [toCore EXCEPT ![c] = Append(@, stats)],
             \E p \in {"granted", "open", "asked"} :
               phase' = [phase EXCEPT ![c] = p]
      PROVE  Moves(c, stats) /\ Advances(c)
  BY <1>1, <1>5 DEF Moves, Advances, Welcome, Read
<1>6. ASSUME NEW m \in Sendable(c), Write(c, m), UNCHANGED <<phase, fromCore>>,
             count' = [count EXCEPT ![c] = @ + 1], phase[c] = "open"
      PROVE  Moves(c, m) /\ Advances(c)
  <2>1. m \in AsksOf(c) /\ m.op # "hello"
          /\ (m.op \in {"dm", "say"} => m.text = Text(c))
    BY <1>2, SendableAreAsks
  <2> QED
    BY <1>6, <2>1 DEF Moves, Advances, Write, Greeting
<1>7. ASSUME Read(c), UNCHANGED <<core, toCore, accepted, phase, count>>,
             phase[c] = "open"
      PROVE  Moves(c, quit) /\ Advances(c)
  BY <1>1, <1>7 DEF Moves, Advances, Read, Greeting
<1> HIDE DEF quit, stats
<1>8. CASE Refused(c)
  BY <1>4, <1>8 DEF Refused, Goto
<1>9. CASE Granted(c)
  BY <1>5, <1>9 DEF Granted, Goto
<1>10. CASE Accept(c)
  BY <1>3, <1>4, <1>10 DEF Accept, Goto, Greeting
<1>11. CASE CoreToWs(c)
  BY <1>7, <1>11 DEF CoreToWs
<1>12. CASE CoreGone(c) \/ WsGone(c) \/ Leave(c)
  BY <1>3, <1>12 DEF CoreGone, WsGone, Leave
<1>13. CASE Finish(c)
  BY <1>4, <1>13 DEF Finish, Goto, Greeting
<1>14. CASE WsToCore(c)
  <2>1. /\ count' = [count EXCEPT ![c] = @ + 1]
        /\ UNCHANGED <<fromCore, phase>>
        /\ \E m \in Sendable(c) :
             \/ phase[c] = "open" /\ Write(c, m)
             \/ UNCHANGED <<core, toCore, accepted>> /\ pump[c].ws = "run"
    BY <1>14 DEF WsToCore
  <2>2. CASE UNCHANGED <<core, toCore, accepted>>
    <3>1. Moves(c, quit)
      BY <1>1, <2>1, <2>2 DEF Moves
    <3>2. Advances(c)
      BY <2>1, <2>2 DEF Advances, coreVars
    <3> QED
      BY <3>1, <3>2
  <2> QED
    BY <1>6, <2>1, <2>2
<1>15. CASE Request(c)
  <2>1. CASE AskStats(c)
    BY <1>5, <2>1 DEF AskStats, Goto, Write, stats
  <2>2. CASE AnswerRequest(c)
    BY <1>4, <2>2 DEF AnswerRequest, Goto, Greeting
  <2> QED
    BY <1>15, <2>1, <2>2 DEF Request
<1>16. CASE PeerOpen(c)
  BY <1>5, <1>16 DEF PeerOpen, Goto
<1>17. CASE PeerSends(c)
  BY <1>6, <1>17 DEF PeerSends
<1>18. CASE PeerReads(c)
  BY <1>7, <1>18 DEF PeerReads, gatewayVars
<1> QED
  BY <1>8, <1>9, <1>10, <1>11, <1>12, <1>13, <1>14, <1>15, <1>16, <1>17, <1>18
     DEF Talks, Session

LEMMA ConnsAre ==
  /\ \A s \in Sockets : s \in Conns /\ UserOf[s] \in Users
  /\ \A c \in Requests \cup Peers : c \in Conns /\ c \notin Sockets
BY GatewayAssumption DEF GatewayAssumption

\* A frame makes a session save one row at most.
LEMMA PumpTurns ==
  ASSUME pump \in [Sockets -> Pumps], NEW s \in Sockets
  PROVE  /\ [pump EXCEPT ![s].core = "failed"] \in [Sockets -> Pumps]
         /\ \A p \in {"done", "failed"} :
              [pump EXCEPT ![s].ws = p] \in [Sockets -> Pumps]
<1>1. \A q \in Pumps : /\ [q EXCEPT !.core = "failed"] \in Pumps
                       /\ \A p \in {"done", "failed"} :
                            [q EXCEPT !.ws = p] \in Pumps
  BY DEF Pumps
<1> QED
  BY <1>1

LEMMA SavesOne ==
  ASSUME Shape, NEW s \in Sockets, NEW f \in Frames
  PROVE  \/ Saves(s, f) = <<>>
         \/ \E row \in Rows :
              /\ Saves(s, f) = <<row>>
              /\ \/ /\ f.type = "chat" /\ f.who = UserOf[s]
                    /\ row = Row(f, f.at)
                 \/ /\ f.type = "dm" /\ active[f.who] = 0
                    /\ row = Row(f, UserOf[s])
                 \/ /\ f.type = "sent" /\ pending[s] # <<>>
                    /\ row = Head(pending[s])
<1>1. UserOf[s] \in Users
  BY ConnsAre
<1>2. CASE f.type = "chat" /\ f.who = UserOf[s]
  <2>1. Row(f, f.at) \in Rows
    BY <1>1, <1>2 DEF Row, Rows, Frames
  <2> QED
    BY <1>2, <2>1 DEF Saves
<1>3. CASE f.type = "dm" /\ active[f.who] = 0
  <2>1. Row(f, UserOf[s]) \in Rows
    BY <1>1, <1>3 DEF Row, Rows, Frames
  <2> QED
    BY <1>3, <2>1 DEF Saves
<1>4. CASE f.type = "sent" /\ pending[s] # <<>>
  <2>1. Head(pending[s]) \in Rows
    BY <1>4 DEF Shape, SessionShape, PendingShape
  <2> QED
    BY <1>4, <2>1 DEF Saves
<1> QED
  BY <1>2, <1>3, <1>4 DEF Saves

LEMMA CoreToWsKeepsSession ==
  ASSUME Shape, NEW s \in Sockets, CoreToWs(s)
  PROVE  SessionShape'
<1> DEFINE f == Head(fromCore[s])
<1>1. s \in Conns
  BY ConnsAre
<1>2. f \in Frames
  BY <1>1 DEF CoreToWs, Read, Shape, CoreShape
<1>3. /\ rows' = rows \o Saves(s, f)
      /\ members' = members \cup Joins(s, f)
      /\ pending' = [pending EXCEPT ![s] =
           IF Settles(f) /\ @ # <<>> THEN Tail(@) ELSE @]
      /\ \/ UNCHANGED shown
         \/ /\ f.type \in {"sent", "chat"}
            /\ shown' = [shown EXCEPT ![s] = @ \cup {f.text}]
      /\ \/ UNCHANGED pump
         \/ pump' = [pump EXCEPT ![s].core = "failed"]
      /\ UNCHANGED <<phase, browser, count>>
  BY DEF CoreToWs, Shape, SessionShape, PendingShape
<1> HIDE DEF f
<1>4. rows' \in Seq(Rows)
  <2>1. Saves(s, f) \in Seq(Rows)
    <3>1. Saves(s, f) = <<>> \/ \E row \in Rows : Saves(s, f) = <<row>>
      BY <1>2, SavesOne
    <3>2. <<>> \in Seq(Rows) /\ \A row \in Rows : <<row>> \in Seq(Rows)
      OBVIOUS
    <3> QED
      BY <3>1, <3>2, Zenon
  <2> QED
    BY <1>3, <2>1 DEF Shape, SessionShape, PendingShape
<1>5. members' \subseteq Users \X Channels
  <2>1. Joins(s, f) \subseteq Users \X Channels
    BY <1>2 DEF Joins, Frames
  <2> QED
    BY <1>3, <2>1 DEF Shape, SessionShape, PendingShape
<1>6. /\ pending' \in [Sockets -> Seq(Rows)]
      /\ \A t \in Sockets : \A i \in DOMAIN pending'[t] :
           pending'[t][i].text[1] = t /\ pending'[t][i].to \in Users
  <2>1. pending \in [Sockets -> Seq(Rows)] /\ pending[s] \in Seq(Rows)
    BY DEF Shape, SessionShape, PendingShape
  <2>2. pending'[s] \in {pending[s], Tail(pending[s])}
    BY <1>3, <2>1
  <2>3. /\ pending'[s] \in Seq(Rows)
        /\ \A i \in DOMAIN pending'[s] :
             \E j \in DOMAIN pending[s] : pending'[s][i] = pending[s][j]
    <3>1. CASE pending'[s] = pending[s]
      BY <2>1, <3>1
    <3>2. CASE pending'[s] = Tail(pending[s]) /\ pending[s] # <<>>
      <4>1. /\ Tail(pending[s]) \in Seq(Rows)
            /\ \A i \in DOMAIN Tail(pending[s]) :
                 /\ i + 1 \in DOMAIN pending[s]
                 /\ Tail(pending[s])[i] = pending[s][i + 1]
        BY <2>1, <3>2, TailDoes
      <4> QED
        BY <3>2, <4>1
    <3> QED
      BY <1>3, <2>1, <3>1, <3>2
  <2>4. \A t \in Sockets \ {s} : pending'[t] = pending[t]
    BY <1>3, <2>1
  <2>5. pending' \in [Sockets -> Seq(Rows)]
    BY <1>3, <2>1, <2>3, <2>4
  <2>6. ASSUME NEW t \in Sockets, NEW i \in DOMAIN pending'[t]
        PROVE  pending'[t][i].text[1] = t /\ pending'[t][i].to \in Users
    <3>1. \E j \in DOMAIN pending[t] : pending'[t][i] = pending[t][j]
      BY <2>3, <2>4, <2>6
    <3> QED
      BY <3>1 DEF Shape, SessionShape, PendingShape
  <2> QED
    BY <2>5, <2>6
<1>7. shown' \in [Sockets -> SUBSET Texts]
  <2>1. shown \in [Sockets -> SUBSET Texts]
    BY DEF Shape, SessionShape
  <2>2. f.type \in {"sent", "chat"} => f.text \in Texts
    BY <1>2 DEF Frames
  <2>3. f.text \in Texts => shown[s] \cup {f.text} \in SUBSET Texts
    BY <2>1
  <2> QED
    BY <1>3, <2>1, <2>2, <2>3
<1>8. pump' \in [Sockets -> Pumps]
  <2>1. pump \in [Sockets -> Pumps]
    BY DEF Shape, SessionShape
  <2> QED
    BY <1>3, <2>1, PumpTurns
<1> QED
  BY <1>3, <1>4, <1>5, <1>6, <1>7, <1>8 DEF Shape, SessionShape, PendingShape

LEMMA WsToCoreKeepsSession ==
  ASSUME Shape, NEW s \in Sockets, WsToCore(s)
  PROVE  SessionShape'
<1>1. s \in Conns /\ UserOf[s] \in Users /\ count[s] \in Nat
  BY ConnsAre DEF Shape, SessionShape, PendingShape
<1>2. PICK m \in Sendable(s) :
        /\ members' = IF m.op \in {"join", "switch"}
                      THEN members \cup {<<UserOf[s], m.arg>>} ELSE members
        /\ pending' = [pending EXCEPT ![s] =
             IF m.op # "dm" THEN @
             ELSE Append(@, [text |-> m.text, from |-> UserOf[s],
                             to |-> m.arg])]
        /\ \/ UNCHANGED pump
           \/ \E p \in {"done", "failed"} : pump' = [pump EXCEPT ![s].ws = p]
  BY DEF WsToCore
<1>3. /\ m \in AsksOf(s)
      /\ m.op \in {"dm", "say"} => m.text = Text(s)
  BY <1>1, SendableAreAsks
<1>4. members' \subseteq Users \X Channels
  BY <1>1, <1>2, <1>3 DEF AsksOf, Shape, SessionShape, PendingShape
<1>5. /\ pending' \in [Sockets -> Seq(Rows)]
      /\ \A t \in Sockets : \A i \in DOMAIN pending'[t] :
           pending'[t][i].text[1] = t /\ pending'[t][i].to \in Users
  <2> DEFINE row == [text |-> m.text, from |-> UserOf[s], to |-> m.arg]
  <2>1. pending \in [Sockets -> Seq(Rows)] /\ pending[s] \in Seq(Rows)
    BY DEF Shape, SessionShape, PendingShape
  <2>2. CASE m.op # "dm"
    BY <1>2, <2>1, <2>2 DEF Shape, SessionShape, PendingShape
  <2>3. CASE m.op = "dm"
    <3>1. row \in Rows /\ row.text[1] = s /\ row.to \in Users
      BY <1>1, <1>3, <2>3 DEF Rows, AsksOf
    <3>2. pending'[s] = Append(pending[s], row)
      BY <1>2, <2>1, <2>3
    <3>3. \A t \in Sockets \ {s} : pending'[t] = pending[t]
      BY <1>2, <2>1
    <3> HIDE DEF row
    <3>4. /\ Append(pending[s], row) \in Seq(Rows)
          /\ \A i \in DOMAIN Append(pending[s], row) :
               \/ /\ i \in DOMAIN pending[s]
                  /\ Append(pending[s], row)[i] = pending[s][i]
               \/ Append(pending[s], row)[i] = row
      BY <2>1, <3>1, AppendDoes
    <3>5. pending' \in [Sockets -> Seq(Rows)]
      BY <1>2, <2>1, <3>2, <3>3, <3>4
    <3>6. ASSUME NEW t \in Sockets, NEW i \in DOMAIN pending'[t]
          PROVE  pending'[t][i].text[1] = t /\ pending'[t][i].to \in Users
      <4>1. CASE t = s
        <5>1. \A j \in DOMAIN pending[s] :
                pending[s][j].text[1] = s /\ pending[s][j].to \in Users
          BY DEF Shape, SessionShape, PendingShape
        <5>2. i \in DOMAIN Append(pending[s], row)
                /\ pending'[t][i] = Append(pending[s], row)[i]
          BY <3>2, <3>6, <4>1
        <5>3. \/ /\ i \in DOMAIN pending[s]
                 /\ Append(pending[s], row)[i] = pending[s][i]
              \/ Append(pending[s], row)[i] = row
          BY <3>4, <5>2
        <5> QED
          BY <3>1, <4>1, <5>1, <5>2, <5>3
      <4>2. CASE t # s
        BY <3>3, <3>6, <4>2 DEF Shape, SessionShape, PendingShape
      <4> QED
        BY <4>1, <4>2
    <3> QED
      BY <3>5, <3>6
  <2> QED
    BY <2>2, <2>3
<1>6. pump' \in [Sockets -> Pumps]
  <2>1. pump \in [Sockets -> Pumps]
    BY DEF Shape, SessionShape
  <2>2. CASE UNCHANGED pump
    BY <2>1, <2>2
  <2>3. CASE \E p \in {"done", "failed"} : pump' = [pump EXCEPT ![s].ws = p]
    <3>1. \A p \in {"done", "failed"} :
            [pump EXCEPT ![s].ws = p] \in [Sockets -> Pumps]
      BY <2>1, PumpTurns
    <3> QED
      BY <2>3, <3>1, Zenon
  <2> QED
    BY <1>2, <2>2, <2>3
<1>7. /\ count' = [count EXCEPT ![s] = @ + 1]
      /\ UNCHANGED <<phase, browser, rows, shown>>
  BY DEF WsToCore
<1>8. count' \in [Conns -> Nat]
  BY <1>1, <1>7 DEF Shape, SessionShape, PendingShape
<1> QED
  BY <1>4, <1>5, <1>6, <1>7, <1>8 DEF Shape, SessionShape, PendingShape

LEMMA FinishKeepsSession ==
  ASSUME Shape, NEW s \in Sockets, Finish(s)
  PROVE  SessionShape'
<1>1. /\ phase' = [phase EXCEPT ![s] = "over"]
      /\ \/ UNCHANGED pump
         \/ pump' = [pump EXCEPT ![s] = [t \in {"core", "ws"} |->
                       IF t \in Finished(s) THEN @[t] ELSE "cancelled"]]
      /\ UNCHANGED <<browser, pending, rows, members, count, shown>>
  BY DEF Finish, Goto
<1>2. pump' \in [Sockets -> Pumps]
  <2>1. pump[s] \in Pumps /\ pump \in [Sockets -> Pumps]
    BY DEF Shape, SessionShape
  <2>2. [t \in {"core", "ws"} |->
           IF t \in Finished(s) THEN pump[s][t] ELSE "cancelled"] \in Pumps
    BY <2>1 DEF Pumps
  <2> HIDE DEF Pumps
  <2> QED
    BY <1>1, <2>1, <2>2
<1>3. phase' \in [Conns -> Phases]
  BY <1>1 DEF Shape, SessionShape, Phases
<1> QED
  BY <1>1, <1>2, <1>3 DEF Shape, SessionShape, PendingShape

LEMMA TalksKeepsSession ==
  ASSUME Shape, NEW c \in Conns, Talks(c)
  PROVE  SessionShape'
<1>1. ASSUME NEW p \in {"refused", "granted", "open", "over", "lost", "leaked",
                        "asked", "served", "failed"},
             UNCHANGED phase \/ phase' = [phase EXCEPT ![c] = p],
             UNCHANGED <<pump, browser, pending, rows, members, count, shown>>
      PROVE  SessionShape'
  <2>1. phase' \in [Conns -> Phases]
    BY <1>1 DEF Shape, SessionShape, Phases
  <2> QED
    BY <1>1, <2>1 DEF Shape, SessionShape, PendingShape
<1>2. CASE Refused(c)
  BY <1>1, <1>2 DEF Refused, Goto
<1>3. CASE Granted(c)
  BY <1>1, <1>3 DEF Granted, Goto
<1>4. CASE c \in Sockets /\ Accept(c)
  <2>1. CASE UNCHANGED pump
    BY <1>1, <1>4, <2>1 DEF Accept, Goto
  <2>2. CASE /\ phase' = [phase EXCEPT ![c] = "open"]
             /\ pump' = [pump EXCEPT ![c] = [core |-> "run", ws |-> "run"]]
    <3>1. phase' \in [Conns -> Phases]
      BY <2>2 DEF Shape, SessionShape, Phases
    <3>2. pump' \in [Sockets -> Pumps]
      <4>1. [core |-> "run", ws |-> "run"] \in Pumps
        BY DEF Pumps
      <4> QED
        BY <2>2, <4>1 DEF Shape, SessionShape
    <3>3. UNCHANGED <<browser, pending, rows, members, count, shown>>
      BY <1>4 DEF Accept
    <3> QED
      BY <3>1, <3>2, <3>3 DEF Shape, SessionShape, PendingShape
  <2> QED
    BY <1>4, <2>1, <2>2 DEF Accept, Goto
<1>5. CASE c \in Sockets /\ (CoreGone(c) \/ WsGone(c))
  <2>1. /\ UNCHANGED <<phase, browser, pending, rows, members, count, shown>>
        /\ \/ pump' = [pump EXCEPT ![c].core = "failed"]
           \/ pump' = [pump EXCEPT ![c].ws = "failed"]
    BY <1>5 DEF CoreGone, WsGone
  <2>2. pump \in [Sockets -> Pumps]
    BY DEF Shape, SessionShape
  <2>3. pump' \in [Sockets -> Pumps]
    BY <1>5, <2>1, <2>2, PumpTurns
  <2> QED
    BY <2>1, <2>3 DEF Shape, SessionShape, PendingShape
<1>6. CASE c \in Sockets /\ Leave(c)
  BY <1>6 DEF Leave, Shape, SessionShape, PendingShape
<1>7. CASE Request(c)
  BY <1>1, <1>7 DEF Request, AskStats, AnswerRequest, Goto
<1>8. CASE PeerOpen(c)
  BY <1>1, <1>8 DEF PeerOpen, Goto
<1>9. CASE PeerSends(c)
  BY <1>9 DEF PeerSends, Shape, SessionShape, PendingShape
<1>10. CASE PeerReads(c)
  BY <1>10 DEF PeerReads, gatewayVars, Shape, SessionShape, PendingShape
<1> QED
  BY <1>2, <1>3, <1>4, <1>5, <1>6, <1>7, <1>8, <1>9, <1>10,
     CoreToWsKeepsSession, WsToCoreKeepsSession, FinishKeepsSession
     DEF Talks, Session

LEMMA DialKeepsShape ==
  ASSUME Shape, NEW c \in Conns, Dial(c)
  PROVE  Shape'
<1> DEFINE hello == Ask("hello", UserOf[c], None)
<1>1. /\ phase[c] = "new" /\ phase' = [phase EXCEPT ![c] = "hello"]
      /\ core' = [core EXCEPT ![c].up = TRUE]
      /\ toCore' = [toCore EXCEPT ![c] = <<hello>>]
      /\ UNCHANGED <<fromCore, accepted, pump, browser, pending, rows,
                     members, count, shown>>
  BY DEF Dial, Goto
<1>2. NamedAt(c) /\ core[c] = Absent /\ fromCore[c] = <<>>
  BY <1>1 DEF Shape, Named, NamedAt
<1>3. hello \in AsksOf(c) /\ hello \in Asks /\ hello.op = "hello"
  BY GatewayAssumption DEF GatewayAssumption, Ask, Asks, AsksOf
<1> HIDE DEF hello
<1>4. core' \in [Conns -> Known]
        /\ core'[c].up /\ core'[c].name = None
        /\ core'[c].rooms = {} /\ core'[c].active = None
        /\ \A d \in Conns \ {c} : core'[d] = core[d]
  <2>1. core \in [Conns -> Known]
    BY DEF Shape, CoreShape
  <2>2. [core[c] EXCEPT !.up = TRUE] \in Known
    BY <2>1 DEF Known
  <2>3. core' = [core EXCEPT ![c] = [core[c] EXCEPT !.up = TRUE]]
    BY <1>1, <2>1
  <2> QED
    BY <1>2, <2>1, <2>2, <2>3 DEF Absent
<1>5. /\ toCore' \in [Conns -> Seq(Asks)] /\ toCore'[c] = <<hello>>
      /\ \A d \in Conns \ {c} : toCore'[d] = toCore[d]
  <2>1. <<hello>> \in Seq(Asks)
    BY <1>3
  <2> QED
    BY <1>1, <2>1 DEF Shape, CoreShape
<1>6. \A i \in DOMAIN toCore'[c] : toCore'[c][i] = hello
  BY <1>5
<1>7. CoreShape'
  <2>1. \A d \in Conns : ~core'[d].up => core'[d] = Absent
    BY <1>4 DEF Shape, CoreShape
  <2>2. \A d \in Conns : \A i \in DOMAIN toCore'[d] : toCore'[d][i] \in AsksOf(d)
    BY <1>3, <1>5, <1>6 DEF Shape, CoreShape
  <2> QED
    BY <1>1, <1>4, <1>5, <2>1, <2>2 DEF Shape, CoreShape, AsksOf
<1>8. SessionShape'
  <2>1. phase' \in [Conns -> Phases]
    BY <1>1 DEF Shape, SessionShape, Phases
  <2> QED
    BY <1>1, <2>1 DEF Shape, SessionShape, PendingShape
<1>9. Named'
  <2>1. phase'[c] = "hello" /\ \A d \in Conns \ {c} : phase'[d] = phase[d]
    BY <1>1 DEF Shape, SessionShape
  <2>2. ASSUME NEW d \in Conns \ {c}
        PROVE  NamedAt(d)'
    BY <1>1, <1>4, <1>5, <2>1 DEF Shape, Named, NamedAt
  <2>3. NamedAt(c)'
    BY <1>1, <1>2, <1>3, <1>4, <1>5, <1>6, <2>1 DEF NamedAt, Greeting, hello
  <2> QED
    BY <2>2, <2>3 DEF Named
<1> QED
  BY <1>7, <1>8, <1>9 DEF Shape

LEMMA NextIs ==
  ASSUME [Next]_vars
  PROVE  \/ \E c \in Conns : Dial(c) \/ Core(c) \/ Talks(c)
         \/ UNCHANGED vars
BY ConnsAre DEF Next, Talks

LEMMA NextShape == Shape /\ [Next]_vars => Shape'
<1> SUFFICES ASSUME Shape, [Next]_vars
             PROVE  Shape'
  OBVIOUS
<1>1. ASSUME NEW c \in Conns, Core(c)
      PROVE  Shape'
  BY <1>1, CoreHandles, CoreKeepsShape DEF Core, Shape
<1>2. ASSUME NEW c \in Conns, Talks(c)
      PROVE  Shape'
  <2>1. PICK m : Moves(c, m) /\ Advances(c)
    BY <1>2, TalksMoves
  <2>2. CoreShape'
    BY <2>1, MovesDo DEF Shape
  <2>3. Named'
    BY <2>1, MovesKeepNamed DEF Shape, SessionShape
  <2> QED
    BY <1>2, <2>2, <2>3, TalksKeepsSession DEF Shape
<1>3. CASE UNCHANGED vars
  BY <1>3 DEF vars, coreVars, gatewayVars, Shape, CoreShape, SessionShape,
              PendingShape, Named, NamedAt, AsksOf
<1> QED
  BY <1>1, <1>2, <1>3, DialKeepsShape, NextIs

LEMMA InitShape == Init => Shape
<1> SUFFICES ASSUME Init
             PROVE  Shape
  OBVIOUS
<1>1. Absent \in Known
  BY DEF Absent, Known
<1>2. /\ core = [c \in Conns |-> Absent] /\ toCore = [c \in Conns |-> <<>>]
      /\ fromCore = [c \in Conns |-> <<>>] /\ accepted = <<>>
      /\ phase = [c \in Conns |-> "new"]
  BY DEF Init, CoreInit
<1>3. CoreShape
  <2>1. /\ \A c \in Conns : core[c] = Absent /\ toCore[c] = <<>>
        /\ \A c \in Conns : \A i \in DOMAIN toCore[c] : FALSE
    BY <1>2
  <2> QED
    BY <1>1, <1>2, <2>1 DEF CoreShape
<1>4. SessionShape
  <2>1. [core |-> "off", ws |-> "off"] \in Pumps
    BY DEF Pumps
  <2>2. \A s \in Sockets : \A i \in DOMAIN pending[s] : FALSE
    BY DEF Init
  <2> QED
    BY <2>1, <2>2 DEF Init, SessionShape, PendingShape, Phases
<1>5. Named
  <2>1. \A c \in Conns : \A i \in DOMAIN toCore[c] : FALSE
    BY <1>2
  <2> QED
    BY <1>2, <2>1 DEF Named, NamedAt, Absent
<1> QED
  BY <1>3, <1>4, <1>5 DEF Shape

LEMMA ShapeHolds == Spec => []Shape
BY InitShape, NextShape, PTL DEF Spec

LEMMA ExactHolds == Spec => []Exact
BY InitExact, NextExact, PTL DEF Spec

\* The state keeps its shape: what is saved has a sender, a name in the core
\* belongs to a connection that is up, and active_gateway_users never exceeds
\* the sessions there are.
THEOREM TypeCorrect == Spec => []TypeOK
<1>1. Shape /\ Exact => TypeOK
  <2> SUFFICES ASSUME Shape, Exact
               PROVE  TypeOK
    OBVIOUS
  <2>1. active \in [Users -> 0 .. Cardinality(Sockets)]
    <3>1. ASSUME NEW u \in Users
          PROVE  Cardinality(SessionsOf(u)) \in 0 .. Cardinality(Sockets)
      <4>1. SessionsOf(u) \subseteq Sockets
        BY DEF SessionsOf
      <4>2. /\ Cardinality(SessionsOf(u)) <= Cardinality(Sockets)
            /\ Cardinality(Sockets) \in Nat
        BY <4>1, GatewayAssumption, FS_Subset, FS_CardinalityType
           DEF GatewayAssumption
      <4> QED
        BY <4>2, SessionsAreFinite
    <3>2. \A u \in Users : active[u] = Cardinality(SessionsOf(u))
      BY DEF Exact
    <3> QED
      BY <3>1, <3>2 DEF Exact
  <2>2. \A c \in Conns : core[c].name # None => core[c].up
    BY DEF Shape, CoreShape, Absent
  <2>3. ASSUME NEW i \in DOMAIN rows
        PROVE  rows[i].from \in Users
    <3>1. rows \in Seq(Rows)
      BY DEF Shape, SessionShape
    <3>2. rows[i] \in Rows
      BY <2>3, <3>1
    <3> QED
      BY <3>2 DEF Rows
  <2> QED
    BY <2>1, <2>2, <2>3 DEF TypeOK, Shape, SessionShape, Phases, Pumps
<1> QED
  BY <1>1, ShapeHolds, ExactHolds, PTL

-----------------------------------------------------------------------------
(* Names, and the order of texts.                                          *)

\* A name belongs to one connection.
Unique ==
  \A c, d \in Conns :
    /\ core[c].up /\ core[d].up
    /\ core[c].name = core[d].name /\ core[c].name # None
    => c = d

HasText(m) == m.op \in {"dm", "say"}
IsText(f) == f.type \in {"chat", "dm"}

\* What c has sent and the core has not handled is in the order in which it
\* was sent, and later than what the core has accepted of c.
OrderedAt(c) ==
  /\ \A i \in DOMAIN toCore[c] : HasText(toCore[c][i]) =>
       /\ toCore[c][i].text[2] <= count[c]
       /\ \A j \in DOMAIN toCore[c] : HasText(toCore[c][j]) /\ i < j =>
            toCore[c][i].text[2] < toCore[c][j].text[2]
       /\ \A k \in DOMAIN accepted : accepted[k][1] = c =>
            accepted[k][2] < toCore[c][i].text[2]
  /\ \A k \in DOMAIN accepted : accepted[k][1] = c =>
       accepted[k][2] <= count[c]

\* The core accepts the texts of a connection in their order.
Ordered ==
  /\ \A c \in Conns : OrderedAt(c)
  /\ \A k, l \in DOMAIN accepted :
       k < l /\ accepted[k][1] = accepted[l][1] => accepted[k][2] < accepted[l][2]

\* What is on its way to d was accepted, and the texts of one sender are in
\* their order.
CarriedAt(d) ==
  \A i \in DOMAIN fromCore[d] : IsText(fromCore[d][i]) =>
    /\ \E k \in DOMAIN accepted : accepted[k] = fromCore[d][i].text
    /\ \A j \in DOMAIN fromCore[d] :
         /\ i < j /\ IsText(fromCore[d][j])
         /\ fromCore[d][i].text[1] = fromCore[d][j].text[1]
         => fromCore[d][i].text[2] < fromCore[d][j].text[2]

Carried == \A d \in Conns : CarriedAt(d)

\* After its greeting a connection has the name of its user, unless it may
\* change it; and only the connection itself says things under its name that
\* it will read.
WhoseAt(d) ==
  /\ core[d].name \in {None, UserOf[d]}
  /\ \A i \in DOMAIN fromCore[d] : IsText(fromCore[d][i]) =>
       /\ fromCore[d][i].who = UserOf[fromCore[d][i].text[1]]
       /\ fromCore[d][i].who = UserOf[d] => fromCore[d][i].text[1] = d

Whose == "nick" \notin Commands => \A d \in Conns : WhoseAt(d)

Sound == Shape /\ Unique /\ Ordered /\ Carried /\ Whose

\* The requests left when the core has handled the first one of c.
LEMMA RequestsStay ==
  ASSUME Shape, NEW c \in Conns, Handles(c)
  PROVE  /\ \A d \in Conns \ {c} : toCore'[d] = toCore[d]
         /\ \A i \in DOMAIN toCore'[c] :
              /\ i \in Nat /\ 1 <= i /\ i + 1 \in DOMAIN toCore[c]
              /\ toCore'[c][i] = toCore[c][i + 1]
         /\ Head(toCore[c]) = toCore[c][1] /\ 1 \in DOMAIN toCore[c]
         /\ Head(toCore[c]) \in AsksOf(c)
<1>1. /\ toCore[c] \in Seq(Asks) /\ toCore[c] # <<>>
      /\ toCore' = [toCore EXCEPT ![c] = Tail(@)] /\ DOMAIN toCore = Conns
  BY DEF Handles, Shape, CoreShape
<1>2. /\ DOMAIN Tail(toCore[c]) = 1 .. Len(toCore[c]) - 1
      /\ Len(toCore[c]) \in Nat /\ DOMAIN toCore[c] = 1 .. Len(toCore[c])
      /\ \A i \in DOMAIN Tail(toCore[c]) :
           i + 1 \in DOMAIN toCore[c] /\ Tail(toCore[c])[i] = toCore[c][i + 1]
  BY <1>1, TailDoes
<1>3. Head(toCore[c]) = toCore[c][1] /\ Head(toCore[c]) \in AsksOf(c)
  BY <1>1, HeadIsAsk DEF Shape
<1>4. 1 \in DOMAIN toCore[c]
  BY <1>1, HeadTailProperties
<1> QED
  BY <1>1, <1>2, <1>3, <1>4

\* The connection whose request is said to everyone has a name.
LEMMA SpeakerIsNamed ==
  ASSUME Shape, NEW c \in Conns, Handles(c), Head(toCore[c]).op # "hello"
  PROVE  core[c].up /\ (Head(toCore[c]).op # "quit" => core[c].name # None)
<1>1. Head(toCore[c]) = toCore[c][1] /\ 1 \in DOMAIN toCore[c]
  BY RequestsStay
<1>2. core[c].up
  BY DEF Handles
<1>3. NamedAt(c)
  BY DEF Shape, Named
<1> QED
  BY <1>1, <1>2, <1>3 DEF NamedAt, Greeting

LEMMA CoreKeepsUnique ==
  ASSUME Shape, Unique, NEW c \in Conns, Handles(c)
  PROVE  Unique'
<1> DEFINE m == Head(toCore[c])
<1>1. \A d \in Conns :
        core'[d] \in {core[d], Absent} \/ (d = c /\ Learns(m, c, core'[c]))
  BY DEF Handles
<1>2. core[c].up /\ ~Absent.up
  BY DEF Handles, Absent
<1>3. core[c] \in Known
  BY DEF Shape, CoreShape
<1> HIDE DEF m
<1> SUFFICES ASSUME NEW a \in Conns, NEW b \in Conns,
                    core'[a].up, core'[b].up, core'[a].name = core'[b].name,
                    core'[a].name # None, a # b
             PROVE  FALSE
  BY DEF Unique
<1>4. ASSUME NEW d \in Conns, core'[d].up
      PROVE  /\ core[d].up
             /\ \/ core'[d].name = core[d].name
                \/ /\ d = c
                   /\ \A e \in Conns \ {c} : ~(core[e].up /\ core[e].name = core'[d].name)
  BY <1>1, <1>2, <1>3, <1>4 DEF Learns, Holder, Known
<1>5. CASE core'[a].name = core[a].name /\ core'[b].name = core[b].name
  BY <1>4, <1>5 DEF Unique
<1>6. CASE a = c /\ b # c
  <2>1. core[b].up /\ core'[b].name = core[b].name
    BY <1>4, <1>6
  <2> QED
    BY <1>4, <1>5, <1>6, <2>1
<1>7. CASE b = c /\ a # c
  <2>1. core[a].up /\ core'[a].name = core[a].name
    BY <1>4, <1>7
  <2> QED
    BY <1>4, <1>5, <1>7, <2>1
<1> QED
  BY <1>4, <1>5, <1>6, <1>7

\* What is taken of the queue of c, whose front request is the oldest.
LEMMA CoreKeepsOrdered ==
  ASSUME Shape, Ordered, NEW c \in Conns, Handles(c), UNCHANGED gatewayVars
  PROVE  Ordered'
<1> DEFINE m == Head(toCore[c])
<1>1. /\ \A d \in Conns \ {c} : toCore'[d] = toCore[d]
      /\ \A i \in DOMAIN toCore'[c] :
           /\ i \in Nat /\ 1 <= i /\ i + 1 \in DOMAIN toCore[c]
           /\ toCore'[c][i] = toCore[c][i + 1]
      /\ m = toCore[c][1] /\ 1 \in DOMAIN toCore[c] /\ m \in AsksOf(c)
  BY RequestsStay
<1>2. \A d \in Conns : OrderedAt(d)
  BY DEF Ordered
<1>3. count' = count /\ count \in [Conns -> Nat]
  BY DEF gatewayVars, Shape, SessionShape
<1>4. \/ accepted' = accepted
      \/ HasText(m) /\ accepted' = Append(accepted, m.text)
  BY DEF Handles, HasText
<1>5. HasText(m) => m.text \in Texts /\ m.text[1] = c /\ m.text[2] \in Nat
  BY <1>1 DEF AsksOf, HasText, Texts
<1>6. accepted \in Seq(Texts) /\ Len(accepted) \in Nat
      /\ \A k \in DOMAIN accepted : k \in Nat /\ 1 <= k /\ k <= Len(accepted)
                                      /\ accepted[k] \in Texts
  BY DEF Shape, CoreShape
<1>7. \A k \in DOMAIN accepted' :
        \/ k \in DOMAIN accepted /\ accepted'[k] = accepted[k]
        \/ k = Len(accepted) + 1 /\ HasText(m) /\ accepted'[k] = m.text
  <2> HIDE DEF m
  <2>1. CASE accepted' = accepted
    BY <2>1
  <2>2. CASE HasText(m) /\ accepted' = Append(accepted, m.text)
    BY <1>5, <1>6, <2>2, AppendDoes
  <2> QED
    BY <1>4, <2>1, <2>2
<1>8. \A k \in DOMAIN accepted : accepted[k][2] \in Nat
  BY <1>6 DEF Texts
<1>9. ASSUME NEW d \in Conns
      PROVE  OrderedAt(d)'
  <2>1. CASE d # c
    <3>1. \A k \in DOMAIN accepted' : accepted'[k][1] = d =>
            k \in DOMAIN accepted /\ accepted'[k] = accepted[k]
      BY <1>5, <1>7, <2>1
    <3>2. toCore'[d] = toCore[d]
      BY <1>1, <2>1
    <3> QED
      BY <1>2, <1>3, <3>1, <3>2 DEF OrderedAt
  <2>2. CASE d = c
    <3>1. OrderedAt(c)
      BY <1>2
    <3>2. ASSUME NEW i \in DOMAIN toCore'[c], HasText(toCore'[c][i])
          PROVE  /\ toCore'[c][i].text[2] <= count[c]
                 /\ \A j \in DOMAIN toCore'[c] : HasText(toCore'[c][j]) /\ i < j =>
                      toCore'[c][i].text[2] < toCore'[c][j].text[2]
                 /\ \A k \in DOMAIN accepted' : accepted'[k][1] = c =>
                      accepted'[k][2] < toCore'[c][i].text[2]
      <4>1. /\ i + 1 \in DOMAIN toCore[c] /\ toCore'[c][i] = toCore[c][i + 1]
            /\ HasText(toCore[c][i + 1]) /\ i \in Nat /\ 1 < i + 1
        BY <1>1, <3>2
      <4>2. toCore'[c][i].text[2] <= count[c]
        BY <3>1, <4>1 DEF OrderedAt
      <4>3. ASSUME NEW j \in DOMAIN toCore'[c], HasText(toCore'[c][j]), i < j
            PROVE  toCore'[c][i].text[2] < toCore'[c][j].text[2]
        <5>1. /\ j + 1 \in DOMAIN toCore[c] /\ toCore'[c][j] = toCore[c][j + 1]
              /\ HasText(toCore[c][j + 1]) /\ i + 1 < j + 1
          BY <1>1, <4>1, <4>3
        <5> QED
          BY <3>1, <4>1, <5>1 DEF OrderedAt
      <4>4. ASSUME NEW k \in DOMAIN accepted', accepted'[k][1] = c
            PROVE  accepted'[k][2] < toCore'[c][i].text[2]
        <5>1. CASE k \in DOMAIN accepted /\ accepted'[k] = accepted[k]
          BY <3>1, <4>1, <4>4, <5>1 DEF OrderedAt
        <5>2. CASE HasText(m) /\ accepted'[k] = m.text
          BY <1>1, <3>1, <4>1, <5>2 DEF OrderedAt
        <5> QED
          BY <1>7, <5>1, <5>2
      <4> QED
        BY <4>2, <4>3, <4>4
    <3>3. ASSUME NEW k \in DOMAIN accepted', accepted'[k][1] = c
          PROVE  accepted'[k][2] <= count[c]
      <4>1. CASE k \in DOMAIN accepted /\ accepted'[k] = accepted[k]
        BY <3>1, <3>3, <4>1 DEF OrderedAt
      <4>2. CASE HasText(m) /\ accepted'[k] = m.text
        BY <1>1, <3>1, <4>2 DEF OrderedAt
      <4> QED
        BY <1>7, <4>1, <4>2
    <3> QED
      BY <1>3, <2>2, <3>2, <3>3 DEF OrderedAt
  <2> QED
    BY <2>1, <2>2
<1>10. ASSUME NEW k \in DOMAIN accepted', NEW l \in DOMAIN accepted', k < l,
              accepted'[k][1] = accepted'[l][1]
       PROVE  accepted'[k][2] < accepted'[l][2]
  <2>1. k \in DOMAIN accepted /\ accepted'[k] = accepted[k]
    <3>1. CASE l \in DOMAIN accepted
      BY <1>6, <1>7, <1>10, <3>1
    <3>2. CASE l = Len(accepted) + 1
      BY <1>6, <1>7, <1>10, <3>2
    <3> QED
      BY <1>7, <3>1, <3>2
  <2>2. CASE l \in DOMAIN accepted /\ accepted'[l] = accepted[l]
    BY <1>10, <2>1, <2>2 DEF Ordered
  <2>3. CASE HasText(m) /\ accepted'[l] = m.text
    <3>1. accepted[k][1] = c
      BY <1>5, <1>10, <2>1, <2>3
    <3> QED
      BY <1>1, <1>2, <2>1, <2>3, <3>1 DEF OrderedAt
  <2> QED
    BY <1>7, <2>2, <2>3
<1> QED
  BY <1>9, <1>10 DEF Ordered

\* What a request of c adds to the queues is accepted now, and is later than
\* everything that c has had accepted before.
LEMMA CoreKeepsCarried ==
  ASSUME Shape, Ordered, Carried, NEW c \in Conns, Handles(c)
  PROVE  Carried'
<1> DEFINE m == Head(toCore[c])
<1>1. m = toCore[c][1] /\ 1 \in DOMAIN toCore[c] /\ m \in AsksOf(c)
  BY RequestsStay
<1>2. HasText(m) => m.text \in Texts /\ m.text[1] = c /\ m.text[2] \in Nat
  BY <1>1 DEF AsksOf, HasText, Texts
<1>3. accepted \in Seq(Texts) /\ Len(accepted) \in Nat
      /\ \A k \in DOMAIN accepted : accepted[k] \in Texts
  BY DEF Shape, CoreShape
<1>4. HasText(m) => \A k \in DOMAIN accepted :
                      accepted[k][1] = c => accepted[k][2] < m.text[2]
  BY <1>1 DEF Ordered, OrderedAt
<1>5. /\ \A k \in DOMAIN accepted :
           k \in DOMAIN accepted' /\ accepted'[k] = accepted[k]
      /\ HasText(m) /\ accepted' = Append(accepted, m.text) =>
           \E k \in DOMAIN accepted' : accepted'[k] = m.text
  <2> HIDE DEF m
  <2>1. CASE accepted' = accepted /\ ~HasText(m)
    BY <2>1
  <2>2. CASE HasText(m) /\ accepted' = Append(accepted, m.text)
    <3>1. \A k \in DOMAIN accepted : k \in Nat /\ 1 <= k /\ k <= Len(accepted)
      BY <1>3
    <3>2. /\ Len(Append(accepted, m.text)) = Len(accepted) + 1
          /\ \A k \in 1 .. Len(accepted) : Append(accepted, m.text)[k] = accepted[k]
          /\ Append(accepted, m.text)[Len(accepted) + 1] = m.text
      BY <1>2, <1>3, <2>2, AppendProperties
    <3>3. DOMAIN accepted' = 1 .. Len(accepted) + 1
      BY <1>2, <1>3, <2>2, AppendDoes
    <3> QED
      BY <1>3, <2>2, <3>1, <3>2, <3>3
  <2>3. CASE HasText(m) /\ accepted' = accepted
    <3>1. Len(accepted') # Len(Append(accepted, m.text))
      BY <1>2, <1>3, <2>3, AppendDoes
    <3> QED
      BY <2>3, <3>1
  <2>4. \/ accepted' = accepted
        \/ HasText(m) /\ accepted' = Append(accepted, m.text)
    BY DEF Handles, HasText, m
  <2> QED
    BY <2>1, <2>2, <2>3, <2>4
<1> SUFFICES ASSUME NEW d \in Conns
             PROVE  CarriedAt(d)'
  BY DEF Carried
<1>6. fromCore[d] \in Seq(Frames) /\ fromCore'[d] \in Seq(Frames) /\ CarriedAt(d)
      /\ Len(fromCore[d]) \in Nat
      /\ \A i \in DOMAIN fromCore'[d] : i \in Nat /\ 1 <= i
      /\ DOMAIN fromCore[d] = 1 .. Len(fromCore[d])
  BY DEF Handles, Shape, CoreShape, Carried
<1>7. \A i \in DOMAIN fromCore'[d] :
        \/ i \in DOMAIN fromCore[d] /\ fromCore'[d][i] = fromCore[d][i]
        \/ Len(fromCore[d]) < i /\ Fresh(m, c, d, fromCore'[d][i])
  <2>1. \A i \in DOMAIN fromCore'[d] :
          IF i <= Len(fromCore[d]) THEN fromCore'[d][i] = fromCore[d][i]
          ELSE Fresh(m, c, d, fromCore'[d][i])
    BY DEF Handles
  <2> QED
    BY <1>6, <2>1
<1>8. ASSUME NEW f, Fresh(m, c, d, f), IsText(f)
      PROVE  /\ HasText(m) /\ f.text = m.text
             /\ accepted' = Append(accepted, m.text)
  BY <1>8 DEF Fresh, IsText, HasText, Tell, Plain
<1>9. \A i, j \in DOMAIN fromCore'[d] :
        Len(fromCore[d]) < i /\ i < j => ~IsText(fromCore'[d][j])
  BY DEF Handles, IsText
<1> HIDE DEF m
<1>10. ASSUME NEW i \in DOMAIN fromCore'[d], IsText(fromCore'[d][i])
       PROVE  \E k \in DOMAIN accepted' : accepted'[k] = fromCore'[d][i].text
  <2>1. CASE i \in DOMAIN fromCore[d] /\ fromCore'[d][i] = fromCore[d][i]
    BY <1>5, <1>6, <1>10, <2>1 DEF CarriedAt
  <2>2. CASE Fresh(m, c, d, fromCore'[d][i])
    BY <1>5, <1>8, <1>10, <2>2
  <2> QED
    BY <1>7, <2>1, <2>2
<1>11. ASSUME NEW i \in DOMAIN fromCore'[d], IsText(fromCore'[d][i]),
              NEW j \in DOMAIN fromCore'[d], i < j, IsText(fromCore'[d][j]),
              fromCore'[d][i].text[1] = fromCore'[d][j].text[1]
       PROVE  fromCore'[d][i].text[2] < fromCore'[d][j].text[2]
  <2>1. i \in DOMAIN fromCore[d] /\ fromCore'[d][i] = fromCore[d][i]
    BY <1>7, <1>9, <1>11
  <2>2. CASE j \in DOMAIN fromCore[d] /\ fromCore'[d][j] = fromCore[d][j]
    BY <1>6, <1>11, <2>1, <2>2 DEF CarriedAt
  <2>3. CASE Fresh(m, c, d, fromCore'[d][j])
    <3>1. HasText(m) /\ fromCore'[d][j].text = m.text
      BY <1>8, <1>11, <2>3
    <3>2. \E k \in DOMAIN accepted : accepted[k] = fromCore[d][i].text
      BY <1>6, <1>11, <2>1 DEF CarriedAt
    <3> QED
      BY <1>2, <1>4, <1>11, <2>1, <3>1, <3>2
  <2> QED
    BY <1>7, <2>2, <2>3
<1> QED
  BY <1>10, <1>11 DEF CarriedAt

LEMMA CoreKeepsWhose ==
  ASSUME Shape, Unique, Whose, NEW c \in Conns, Handles(c)
  PROVE  Whose'
<1> SUFFICES ASSUME "nick" \notin Commands, NEW d \in Conns
             PROVE  WhoseAt(d)'
  BY DEF Whose
<1> DEFINE m == Head(toCore[c])
<1>1. m \in AsksOf(c)
  BY RequestsStay
<1>2. WhoseAt(c) /\ WhoseAt(d)
  BY DEF Whose
<1>3. core'[d].name \in {None, UserOf[d]}
  <2>1. core'[d] \in {core[d], Absent} \/ (d = c /\ Learns(m, c, core'[c]))
    BY DEF Handles
  <2>2. m.op # "nick" /\ (m.op = "hello" => m.arg = UserOf[c])
    BY <1>1 DEF AsksOf
  <2>3. core[c] \in Known
    BY DEF Shape, CoreShape
  <2> HIDE DEF m
  <2> QED
    BY <1>2, <2>1, <2>2, <2>3 DEF WhoseAt, Learns, Absent, Known
<1>4. HasText(m) => core[c].up /\ core[c].name = UserOf[c] /\ core[c].name # None
  BY <1>2, SpeakerIsNamed DEF HasText, WhoseAt
<1>5. HasText(m) => m.text[1] = c
  BY <1>1 DEF AsksOf, HasText
<1>6. ASSUME NEW f, Fresh(m, c, d, f), IsText(f)
      PROVE  /\ HasText(m) /\ f.text = m.text /\ f.who = core[c].name
             /\ core[d].up /\ core[d].name # None
  <2>1. HasText(m) /\ f.text = m.text /\ f.who = core[c].name
        /\ \/ d \in Holder(m.arg) /\ m.op = "dm"
           \/ core[c].active # None /\ d \in Inside(core[c].active)
    BY <1>6 DEF Fresh, IsText, HasText, Tell, Plain
  <2>2. m.op = "dm" => m.arg # None
    BY <1>1, CoreAssumption DEF AsksOf, CoreAssumption
  <2> HIDE DEF m
  <2>3. core[d].up /\ core[d].name # None
    BY <2>1, <2>2 DEF Holder, Inside, Shape, Named, NamedAt
  <2> QED
    BY <2>1, <2>3
<1>7. ASSUME NEW i \in DOMAIN fromCore'[d], IsText(fromCore'[d][i])
      PROVE  /\ fromCore'[d][i].who = UserOf[fromCore'[d][i].text[1]]
             /\ fromCore'[d][i].who = UserOf[d] => fromCore'[d][i].text[1] = d
  <2>1. fromCore[d] \in Seq(Frames) /\ i \in Nat /\ 1 <= i
    BY DEF Handles, Shape, CoreShape
  <2>2. IF i <= Len(fromCore[d]) THEN fromCore'[d][i] = fromCore[d][i]
        ELSE Fresh(m, c, d, fromCore'[d][i])
    BY DEF Handles
  <2> HIDE DEF m
  <2>3. CASE i <= Len(fromCore[d])
    <3>1. i \in DOMAIN fromCore[d] /\ fromCore'[d][i] = fromCore[d][i]
      BY <2>1, <2>2, <2>3
    <3> QED
      BY <1>2, <1>7, <3>1 DEF WhoseAt
  <2>4. CASE Fresh(m, c, d, fromCore'[d][i])
    <3> DEFINE f == fromCore'[d][i]
    <3>1. /\ HasText(m) /\ f.text[1] = c /\ f.who = UserOf[c]
          /\ core[d].up /\ core[d].name = UserOf[d]
      BY <1>2, <1>4, <1>5, <1>6, <1>7, <2>4 DEF WhoseAt
    <3>2. f.who = UserOf[d] => d = c
      BY <1>4, <3>1 DEF Unique
    <3> QED
      BY <3>1, <3>2
  <2> QED
    BY <2>2, <2>3, <2>4
<1> QED
  BY <1>3, <1>7 DEF WhoseAt

\* What a connection sends is later than all it has sent, and what it reads
\* leaves the rest in order.
LEMMA MovesKeepSound ==
  ASSUME Shape, Unique, Ordered, Carried, Whose,
         NEW c \in Conns, NEW m, Moves(c, m)
  PROVE  Unique' /\ Ordered' /\ Carried' /\ Whose'
<1>1. /\ \A d \in Conns \ {c} :
           toCore'[d] = toCore[d] /\ fromCore'[d] = fromCore[d]
      /\ \A i \in DOMAIN toCore'[c] :
           \/ i \in DOMAIN toCore[c] /\ toCore'[c][i] = toCore[c][i]
           \/ /\ i = Len(toCore[c]) + 1 /\ toCore'[c][i] = m
              /\ toCore' = [toCore EXCEPT ![c] = Append(@, m)]
      /\ \E k \in {0, 1} : \A i \in DOMAIN fromCore'[c] :
           i + k \in DOMAIN fromCore[c] /\ fromCore'[c][i] = fromCore[c][i + k]
      /\ CoreShape'
  BY MovesDo DEF Shape
<1>2. core' = core /\ accepted' = accepted
  BY DEF Moves
<1>3. Unique'
  BY <1>2 DEF Unique
<1>4. \A d \in Conns : \A i \in DOMAIN fromCore'[d] :
        i \in Nat /\ fromCore'[d] \in Seq(Frames)
  BY <1>1 DEF CoreShape
<1>5. \A d \in Conns : \E k \in {0, 1} : \A i \in DOMAIN fromCore'[d] :
        i + k \in DOMAIN fromCore[d] /\ fromCore'[d][i] = fromCore[d][i + k]
  <2>1. ASSUME NEW d \in Conns \ {c}
        PROVE  \A i \in DOMAIN fromCore'[d] :
                 i + 0 \in DOMAIN fromCore[d] /\ fromCore'[d][i] = fromCore[d][i + 0]
    BY <1>1, <1>4
  <2> QED
    BY <1>1, <2>1
<1>6. ASSUME NEW d \in Conns
      PROVE  CarriedAt(d)' /\ (WhoseAt(d) => WhoseAt(d)')
  <2>1. PICK k \in {0, 1} : \A i \in DOMAIN fromCore'[d] :
          i + k \in DOMAIN fromCore[d] /\ fromCore'[d][i] = fromCore[d][i + k]
    BY <1>5
  <2>2. CarriedAt(d)
    BY DEF Carried
  <2>3. CarriedAt(d)'
    <3>1. \A i, j \in DOMAIN fromCore'[d] : i < j => i + k < j + k
      BY <1>4, <2>1
    <3>2. ASSUME NEW i \in DOMAIN fromCore'[d], IsText(fromCore'[d][i])
          PROVE  /\ \E l \in DOMAIN accepted : accepted[l] = fromCore'[d][i].text
                 /\ \A j \in DOMAIN fromCore'[d] :
                      /\ i < j /\ IsText(fromCore'[d][j])
                      /\ fromCore'[d][i].text[1] = fromCore'[d][j].text[1]
                      => fromCore'[d][i].text[2] < fromCore'[d][j].text[2]
      <4>1. i + k \in DOMAIN fromCore[d] /\ fromCore'[d][i] = fromCore[d][i + k]
        BY <2>1
      <4> QED
        BY <2>1, <2>2, <3>1, <3>2, <4>1 DEF CarriedAt
    <3> QED
      BY <1>2, <3>2 DEF CarriedAt
  <2>4. WhoseAt(d) => WhoseAt(d)'
    BY <1>2, <2>1 DEF WhoseAt
  <2> QED
    BY <2>3, <2>4
<1>7. \A d \in Conns : count[d] \in Nat /\ count'[d] \in Nat /\ count[d] <= count'[d]
  BY DEF Moves, Shape, SessionShape
<1>8. \A d \in Conns : \A k \in DOMAIN accepted : accepted[k][2] \in Nat
  BY DEF Shape, CoreShape, Texts
<1>9. \A d \in Conns : \A i \in DOMAIN toCore[d] :
        HasText(toCore[d][i]) => toCore[d][i].text[2] \in Nat
  BY DEF Shape, CoreShape, AsksOf, HasText, Texts
<1>10. ASSUME NEW d \in Conns
       PROVE  OrderedAt(d)'
  <2>1. OrderedAt(d)
    BY DEF Ordered
  <2>2. CASE d # c
    BY <1>1, <1>2, <1>7, <1>8, <1>9, <2>1, <2>2 DEF OrderedAt
  <2>3. CASE d = c
    <3>1. /\ \A i \in DOMAIN toCore[c] : i \in Nat /\ i <= Len(toCore[c])
          /\ Len(toCore[c]) \in Nat
      BY DEF Shape, CoreShape
    <3>2. ASSUME NEW i \in DOMAIN toCore'[c], HasText(toCore'[c][i]),
                 i = Len(toCore[c]) + 1, toCore'[c][i] = m,
                 toCore' = [toCore EXCEPT ![c] = Append(@, m)]
          PROVE  /\ toCore'[c][i].text[2] = count[c] + 1
                 /\ count'[c] = count[c] + 1
      <4>1. m.text = Text(c) /\ count' = [count EXCEPT ![c] = @ + 1]
        <5>1. toCore[c] # Append(toCore[c], m)
          <6>1. toCore[c] \in Seq(Asks) /\ m \in Asks
            BY DEF Shape, CoreShape, Moves, AsksOf
          <6>2. Len(Append(toCore[c], m)) = Len(toCore[c]) + 1
            BY <6>1, AppendDoes
          <6> QED
            BY <3>1, <6>2
        <5>2. toCore' # toCore
          BY <3>2, <5>1 DEF Shape, CoreShape
        <5> QED
          BY <3>2, <5>2 DEF Moves, HasText
      <4> QED
        BY <3>2, <4>1 DEF Text, Shape, SessionShape
    <3>3. ASSUME NEW i \in DOMAIN toCore'[c], HasText(toCore'[c][i])
          PROVE  /\ toCore'[c][i].text[2] <= count'[c]
                 /\ \A j \in DOMAIN toCore'[c] : HasText(toCore'[c][j]) /\ i < j =>
                      toCore'[c][i].text[2] < toCore'[c][j].text[2]
                 /\ \A k \in DOMAIN accepted : accepted[k][1] = c =>
                      accepted[k][2] < toCore'[c][i].text[2]
      <4>1. CASE i \in DOMAIN toCore[c] /\ toCore'[c][i] = toCore[c][i]
        <5>1. /\ toCore[c][i].text[2] <= count[c] /\ toCore[c][i].text[2] \in Nat
              /\ \A k \in DOMAIN accepted : accepted[k][1] = c =>
                   accepted[k][2] < toCore[c][i].text[2]
              /\ \A j \in DOMAIN toCore[c] : HasText(toCore[c][j]) /\ i < j =>
                   toCore[c][i].text[2] < toCore[c][j].text[2]
          BY <1>9, <2>1, <2>3, <3>3, <4>1 DEF OrderedAt
        <5>2. ASSUME NEW j \in DOMAIN toCore'[c], HasText(toCore'[c][j]), i < j
              PROVE  toCore'[c][i].text[2] < toCore'[c][j].text[2]
          <6>1. CASE j \in DOMAIN toCore[c] /\ toCore'[c][j] = toCore[c][j]
            BY <4>1, <5>1, <5>2, <6>1
          <6>2. CASE /\ j = Len(toCore[c]) + 1 /\ toCore'[c][j] = m
                     /\ toCore' = [toCore EXCEPT ![c] = Append(@, m)]
            <7>1. toCore'[c][j].text[2] = count[c] + 1
              BY <3>2, <5>2, <6>2
            <7> QED
              BY <1>7, <4>1, <5>1, <7>1
          <6> QED
            BY <1>1, <6>1, <6>2
        <5> QED
          BY <1>7, <4>1, <5>1, <5>2
      <4>2. CASE /\ i = Len(toCore[c]) + 1 /\ toCore'[c][i] = m
                 /\ toCore' = [toCore EXCEPT ![c] = Append(@, m)]
        <5>1. toCore'[c][i].text[2] = count[c] + 1 /\ count'[c] = count[c] + 1
          BY <3>2, <3>3, <4>2
        <5>2. \A k \in DOMAIN accepted : accepted[k][1] = c => accepted[k][2] <= count[c]
          BY <2>1, <2>3 DEF OrderedAt
        <5>3. \A j \in DOMAIN toCore'[c] : ~(i < j)
          BY <1>1, <3>1, <4>2
        <5> QED
          BY <1>7, <1>8, <5>1, <5>2, <5>3
      <4> QED
        BY <1>1, <4>1, <4>2
    <3>4. \A k \in DOMAIN accepted : accepted[k][1] = c => accepted[k][2] <= count'[c]
      BY <1>7, <1>8, <2>1, <2>3 DEF OrderedAt
    <3> QED
      BY <1>2, <2>3, <3>3, <3>4 DEF OrderedAt
  <2> QED
    BY <2>2, <2>3
<1>11. Ordered'
  BY <1>2, <1>10 DEF Ordered
<1>12. Carried' /\ Whose'
  BY <1>6 DEF Carried, Whose
<1> QED
  BY <1>3, <1>11, <1>12

LEMMA DialKeepsSound ==
  ASSUME Sound, NEW c \in Conns, Dial(c)
  PROVE  Unique' /\ Ordered' /\ Carried' /\ Whose'
<1>1. /\ phase[c] = "new" /\ core' = [core EXCEPT ![c].up = TRUE]
      /\ toCore' = [toCore EXCEPT ![c] = <<Ask("hello", UserOf[c], None)>>]
      /\ fromCore' = fromCore /\ accepted' = accepted /\ count' = count
  BY DEF Dial
<1>2. core[c] = Absent /\ core \in [Conns -> Known]
      /\ DOMAIN toCore = Conns /\ fromCore[c] = <<>>
  BY <1>1 DEF Sound, Shape, CoreShape, Named, NamedAt
<1>3. \A d \in Conns :
        /\ core'[d].name = core[d].name
        /\ d # c => core'[d] = core[d] /\ toCore'[d] = toCore[d]
  BY <1>1, <1>2 DEF Known
<1>4. core'[c].name = None
  BY <1>2, <1>3 DEF Absent
<1>5. Unique'
  BY <1>3, <1>4 DEF Unique, Sound
<1>6. \A i \in DOMAIN toCore'[c] : ~HasText(toCore'[c][i])
  BY <1>1, <1>2 DEF HasText, Ask
<1>7. Ordered'
  BY <1>1, <1>3, <1>6 DEF Sound, Ordered, OrderedAt
<1>8. Carried'
  BY <1>1 DEF Sound, Carried, CarriedAt
<1>9. Whose'
  BY <1>1, <1>3 DEF Sound, Whose, WhoseAt
<1> QED
  BY <1>5, <1>7, <1>8, <1>9

LEMMA NextSound == Sound /\ [Next]_vars => Sound'
<1> SUFFICES ASSUME Sound, [Next]_vars
             PROVE  Sound'
  OBVIOUS
<1>1. Shape' /\ Shape /\ Unique /\ Ordered /\ Carried /\ Whose
  BY NextShape DEF Sound
<1>2. ASSUME NEW c \in Conns, Core(c)
      PROVE  Sound'
  <2>1. Handles(c) /\ UNCHANGED gatewayVars
    BY <1>1, <1>2, CoreHandles DEF Core, Shape
  <2> QED
    BY <1>1, <2>1, CoreKeepsUnique, CoreKeepsOrdered, CoreKeepsCarried,
       CoreKeepsWhose DEF Sound
<1>3. ASSUME NEW c \in Conns, Talks(c)
      PROVE  Sound'
  <2>1. PICK m : Moves(c, m)
    BY <1>1, <1>3, TalksMoves
  <2> QED
    BY <1>1, <2>1, MovesKeepSound DEF Sound
<1>4. CASE UNCHANGED vars
  BY <1>1, <1>4 DEF vars, coreVars, gatewayVars, Sound, Unique, Ordered,
                    OrderedAt, Carried, CarriedAt, Whose, WhoseAt
<1> QED
  BY <1>1, <1>2, <1>3, <1>4, DialKeepsSound, NextIs DEF Sound

LEMMA InitSound == Init => Sound
<1> SUFFICES ASSUME Init
             PROVE  Sound
  OBVIOUS
<1>1. /\ \A c \in Conns : core[c].up = FALSE /\ core[c].name = None
      /\ \A c \in Conns : \A i \in DOMAIN toCore[c] : FALSE
      /\ \A c \in Conns : \A i \in DOMAIN fromCore[c] : FALSE
      /\ \A k \in DOMAIN accepted : FALSE
  BY DEF Init, CoreInit, Absent
<1> QED
  BY <1>1, InitShape DEF Sound, Unique, Ordered, OrderedAt, Carried, CarriedAt,
                         Whose, WhoseAt

LEMMA SoundHolds == Spec => []Sound
BY InitSound, NextSound, PTL DEF Spec

-----------------------------------------------------------------------------
(* The history of the channels, where no name changes.                     *)

\* The chats of a session are saved in the order in which the core sends them
\* to it, and before the ones that are still on their way.
SavedChat(i) ==
  LET t == rows[i].text
  IN  /\ t[1] \in Sockets
      /\ \E k \in DOMAIN accepted : accepted[k] = t
      /\ \A j \in DOMAIN fromCore[t[1]] :
           /\ fromCore[t[1]][j].type = "chat"
           /\ fromCore[t[1]][j].text[1] = t[1]
           => t[2] < fromCore[t[1]][j].text[2]
      /\ \A j \in DOMAIN rows :
           i < j /\ rows[j].to \in Channels /\ rows[j].text[1] = t[1] =>
             t[2] < rows[j].text[2]

Chats == \A i \in DOMAIN rows : rows[i].to \in Channels => SavedChat(i)

\* A step that saves nothing: what it queues for the sender of a saved chat is
\* later than that chat.
LEMMA QuietKeepsChats ==
  ASSUME Sound, Chats, rows' = rows,
         \A d \in Sockets : \A j \in DOMAIN fromCore'[d] :
           \/ \E l \in DOMAIN fromCore[d] : fromCore'[d][j] = fromCore[d][l]
           \/ fromCore'[d][j].type = "chat" =>
                \A k \in DOMAIN accepted : accepted[k][1] = fromCore'[d][j].text[1] =>
                  accepted[k][2] < fromCore'[d][j].text[2],
         \A k \in DOMAIN accepted : k \in DOMAIN accepted' /\ accepted'[k] = accepted[k]
  PROVE  Chats'
<1> SUFFICES ASSUME NEW i \in DOMAIN rows, rows[i].to \in Channels
             PROVE  SavedChat(i)'
  BY DEF Chats
<1> DEFINE t == rows[i].text
<1>1. SavedChat(i)
  BY DEF Chats
<1>2. t[1] \in Sockets /\ \E k \in DOMAIN accepted : accepted[k] = t
  BY <1>1 DEF SavedChat
<1>3. ASSUME NEW j \in DOMAIN fromCore'[t[1]],
             fromCore'[t[1]][j].type = "chat", fromCore'[t[1]][j].text[1] = t[1]
      PROVE  t[2] < fromCore'[t[1]][j].text[2]
  <2> DEFINE s == t[1]
  <2>1. CASE \E l \in DOMAIN fromCore[s] : fromCore'[s][j] = fromCore[s][l]
    BY <1>1, <1>3, <2>1 DEF SavedChat
  <2>2. CASE \A k \in DOMAIN accepted : accepted[k][1] = fromCore'[s][j].text[1] =>
               accepted[k][2] < fromCore'[s][j].text[2]
    BY <1>2, <1>3, <2>2
  <2> QED
    BY <1>2, <1>3, <2>1, <2>2
<1> QED
  BY <1>1, <1>2, <1>3 DEF SavedChat

LEMMA CoreKeepsChats ==
  ASSUME Sound, Chats, NEW c \in Conns, Handles(c), UNCHANGED gatewayVars
  PROVE  Chats'
<1> DEFINE m == Head(toCore[c])
<1>1. m = toCore[c][1] /\ 1 \in DOMAIN toCore[c] /\ m \in AsksOf(c)
  BY RequestsStay DEF Sound
<1>2. HasText(m) => m.text[1] = c /\ m.text \in Texts
  BY <1>1 DEF AsksOf, HasText
<1>3. HasText(m) => \A k \in DOMAIN accepted :
                      accepted[k][1] = c => accepted[k][2] < m.text[2]
  BY <1>1 DEF Sound, Ordered, OrderedAt
<1>4. accepted \in Seq(Texts)
  BY DEF Sound, Shape, CoreShape
<1>5. \A k \in DOMAIN accepted : k \in DOMAIN accepted' /\ accepted'[k] = accepted[k]
  <2>1. \/ accepted' = accepted
        \/ HasText(m) /\ accepted' = Append(accepted, m.text)
    BY DEF Handles, HasText
  <2> HIDE DEF m
  <2> QED
    BY <1>2, <1>4, <2>1
<1>6. ASSUME NEW d \in Sockets, NEW j \in DOMAIN fromCore'[d]
      PROVE  \/ \E l \in DOMAIN fromCore[d] : fromCore'[d][j] = fromCore[d][l]
             \/ fromCore'[d][j].type = "chat" =>
                  \A k \in DOMAIN accepted :
                    accepted[k][1] = fromCore'[d][j].text[1] =>
                      accepted[k][2] < fromCore'[d][j].text[2]
  <2>1. /\ d \in Conns /\ fromCore[d] \in Seq(Frames)
        /\ fromCore'[d] \in Seq(Frames)
    BY ConnsAre DEF Handles, Sound, Shape, CoreShape
  <2>2. IF j <= Len(fromCore[d]) THEN fromCore'[d][j] = fromCore[d][j]
        ELSE Fresh(m, c, d, fromCore'[d][j])
    BY <2>1 DEF Handles
  <2> HIDE DEF m
  <2>3. CASE j <= Len(fromCore[d])
    <3>1. j \in DOMAIN fromCore[d]
      BY <2>1, <2>3
    <3> QED
      BY <2>2, <2>3, <3>1
  <2>4. CASE Fresh(m, c, d, fromCore'[d][j])
    <3>1. fromCore'[d][j].type = "chat" => HasText(m) /\ fromCore'[d][j].text = m.text
      BY <2>4 DEF Fresh, HasText, Tell, Plain
    <3> QED
      BY <1>2, <1>3, <3>1
  <2> QED
    BY <2>2, <2>3, <2>4
<1> HIDE DEF m
<1> QED
  BY <1>5, <1>6, QuietKeepsChats DEF gatewayVars

\* A session saves its own chat when it reads it.
LEMMA CoreToWsKeepsChats ==
  ASSUME Sound, Chats, "nick" \notin Commands, NEW s \in Sockets, CoreToWs(s)
  PROVE  Chats'
<1> DEFINE f == Head(fromCore[s])
<1>1. /\ fromCore[s] # <<>> /\ fromCore' = [fromCore EXCEPT ![s] = Tail(@)]
      /\ rows' = rows \o Saves(s, f) /\ accepted' = accepted
  BY DEF CoreToWs, Read
<1>2. /\ s \in Conns /\ UserOf[s] \in Users
      /\ fromCore \in [Conns -> Seq(Frames)] /\ rows \in Seq(Rows)
      /\ Shape
  BY ConnsAre DEF Sound, Shape, CoreShape, SessionShape
<1>3. /\ f = fromCore[s][1] /\ 1 \in DOMAIN fromCore[s] /\ f \in Frames
      /\ fromCore'[s] = Tail(fromCore[s])
      /\ \A d \in Conns \ {s} : fromCore'[d] = fromCore[d]
  <2>1. fromCore[s] \in Seq(Frames)
    BY <1>2
  <2> QED
    BY <1>1, <1>2, <2>1, HeadTailProperties
<1>4. \A j \in DOMAIN fromCore'[s] :
        /\ j + 1 \in DOMAIN fromCore[s] /\ fromCore'[s][j] = fromCore[s][j + 1]
        /\ j \in Nat /\ 1 < j + 1
  <2>1. fromCore[s] \in Seq(Frames) /\ fromCore[s] # <<>>
    BY <1>1, <1>2
  <2>2. /\ DOMAIN Tail(fromCore[s]) = 1 .. Len(fromCore[s]) - 1
        /\ Len(fromCore[s]) \in Nat
        /\ \A i \in DOMAIN Tail(fromCore[s]) :
             /\ i + 1 \in DOMAIN fromCore[s]
             /\ Tail(fromCore[s])[i] = fromCore[s][i + 1]
    BY <2>1, TailDoes
  <2> QED
    BY <1>3, <2>2
<1>5. CASE Saves(s, f) = <<>>
  <2>1. rows' = rows
    BY <1>1, <1>2, <1>5
  <2>2. \A d \in Sockets : \A j \in DOMAIN fromCore'[d] :
          \E l \in DOMAIN fromCore[d] : fromCore'[d][j] = fromCore[d][l]
    BY <1>3, <1>4, ConnsAre
  <2> HIDE DEF f
  <2> QED
    BY <1>1, <2>1, <2>2, QuietKeepsChats
<1>6. CASE Saves(s, f) # <<>>
  <2>1. PICK row \in Rows :
          /\ Saves(s, f) = <<row>>
          /\ \/ /\ f.type = "chat" /\ f.who = UserOf[s]
                /\ row = Row(f, f.at)
             \/ /\ f.type = "dm" /\ active[f.who] = 0
                /\ row = Row(f, UserOf[s])
             \/ /\ f.type = "sent" /\ pending[s] # <<>>
                /\ row = Head(pending[s])
    BY <1>2, <1>3, <1>6, SavesOne
  <2>2. row.to \in Channels =>
          row.text = f.text /\ IsText(f) /\ f.type = "chat" /\ f.who = UserOf[s]
    <3>1. pending[s] # <<>> => Head(pending[s]).to \in Users
      <4>1. pending[s] \in Seq(Rows)
        BY <1>2 DEF Shape, SessionShape, PendingShape
      <4>2. pending[s] # <<>> =>
              Head(pending[s]) = pending[s][1] /\ 1 \in DOMAIN pending[s]
        BY <4>1, HeadTailProperties
      <4> QED
        BY <1>2, <4>2 DEF Shape, SessionShape, PendingShape
    <3>2. Users \cap Channels = {}
      BY GatewayAssumption DEF GatewayAssumption
    <3> HIDE DEF f
    <3> QED
      BY <1>2, <2>1, <3>1, <3>2 DEF Row, IsText
  <2>3. row.to \in Channels =>
          /\ f.text[1] = s
          /\ \E k \in DOMAIN accepted : accepted[k] = f.text
          /\ \A j \in DOMAIN fromCore'[s] :
               /\ fromCore'[s][j].type = "chat" /\ fromCore'[s][j].text[1] = s
               => f.text[2] < fromCore'[s][j].text[2]
    <3>1. WhoseAt(s) /\ CarriedAt(s)
      BY <1>2 DEF Sound, Whose, Carried
    <3>2. row.to \in Channels => f.text[1] = s
      BY <1>3, <2>2, <3>1 DEF WhoseAt
    <3>3. row.to \in Channels => \E k \in DOMAIN accepted : accepted[k] = f.text
      BY <1>3, <2>2, <3>1 DEF CarriedAt
    <3>4. ASSUME row.to \in Channels, NEW j \in DOMAIN fromCore'[s],
                 fromCore'[s][j].type = "chat", fromCore'[s][j].text[1] = s
          PROVE  f.text[2] < fromCore'[s][j].text[2]
      <4>1. IsText(fromCore[s][j + 1]) /\ fromCore'[s][j] = fromCore[s][j + 1]
            /\ j + 1 \in DOMAIN fromCore[s] /\ 1 < j + 1
        BY <1>4, <3>4 DEF IsText
      <4> QED
        BY <1>3, <2>2, <3>1, <3>2, <3>4, <4>1 DEF CarriedAt
    <3> QED
      BY <3>2, <3>3, <3>4
  <2>4. /\ rows' = Append(rows, row) /\ Len(rows) \in Nat
        /\ DOMAIN rows = 1 .. Len(rows)
        /\ DOMAIN rows' = 1 .. Len(rows) + 1
        /\ \A i \in DOMAIN rows : rows'[i] = rows[i]
        /\ rows'[Len(rows) + 1] = row
    <3>1. rows' = Append(rows, row)
      BY <1>1, <1>2, <2>1, AppendIsConcat
    <3>2. /\ DOMAIN Append(rows, row) = 1 .. Len(rows) + 1
          /\ Len(rows) \in Nat /\ DOMAIN rows = 1 .. Len(rows)
      BY <1>2, AppendDoes
    <3>3. /\ \A i \in 1 .. Len(rows) : Append(rows, row)[i] = rows[i]
          /\ Append(rows, row)[Len(rows) + 1] = row
      BY <1>2, AppendProperties
    <3> QED
      BY <3>1, <3>2, <3>3
  <2> HIDE DEF f
  <2>5. ASSUME NEW i \in DOMAIN rows, rows[i].to \in Channels
        PROVE  SavedChat(i)'
    <3> DEFINE t == rows[i].text
    <3>1. SavedChat(i)
      BY <2>5 DEF Chats
    <3>2. t[1] \in Sockets /\ (\E k \in DOMAIN accepted : accepted[k] = t)
      BY <3>1 DEF SavedChat
    <3>3. \A j \in DOMAIN fromCore'[t[1]] :
            /\ fromCore'[t[1]][j].type = "chat"
            /\ fromCore'[t[1]][j].text[1] = t[1]
            => t[2] < fromCore'[t[1]][j].text[2]
      <4>1. CASE t[1] = s
        BY <1>4, <3>1, <4>1 DEF SavedChat
      <4>2. CASE t[1] # s
        BY <1>3, <3>1, <3>2, <4>2, ConnsAre DEF SavedChat
      <4> QED
        BY <4>1, <4>2
    <3>4. ASSUME NEW j \in DOMAIN rows', i < j, rows'[j].to \in Channels,
                 rows'[j].text[1] = t[1]
          PROVE  t[2] < rows'[j].text[2]
      <4>1. CASE j \in DOMAIN rows
        BY <2>4, <3>1, <3>4, <4>1 DEF SavedChat
      <4>2. CASE j = Len(rows) + 1
        <5>1. /\ rows'[j] = row /\ row.to \in Channels /\ row.text = f.text
              /\ f.text[1] = s /\ t[1] = s /\ f.type = "chat"
          BY <2>2, <2>3, <2>4, <3>4, <4>2
        <5> QED
          BY <1>3, <3>1, <5>1 DEF SavedChat
      <4> QED
        BY <2>4, <3>4, <4>1, <4>2
    <3>5. rows'[i] = rows[i]
      BY <2>4
    <3> QED
      BY <1>1, <3>2, <3>3, <3>4, <3>5 DEF SavedChat
  <2>6. ASSUME NEW i \in Nat, i = Len(rows) + 1, row.to \in Channels
        PROVE  SavedChat(i)'
    <3>1. \A j \in DOMAIN rows' : ~(i < j)
      BY <2>4, <2>6
    <3>2. rows'[i] = row
      BY <2>4, <2>6
    <3> QED
      BY <1>1, <2>2, <2>3, <2>6, <3>1, <3>2 DEF SavedChat
  <2>7. ASSUME NEW i \in DOMAIN rows', rows'[i].to \in Channels
        PROVE  SavedChat(i)'
    <3>1. CASE i \in DOMAIN rows
      BY <2>4, <2>5, <2>7, <3>1
    <3>2. CASE i = Len(rows) + 1
      BY <2>4, <2>6, <2>7, <3>2
    <3> QED
      BY <2>4, <3>1, <3>2
  <2> QED
    BY <2>7 DEF Chats
<1> QED
  BY <1>5, <1>6

\* Only CoreToWs writes to the table of messages.
LEMMA RowsStay ==
  ASSUME NEW c \in Conns, Talks(c),
         ~(c \in Sockets /\ CoreToWs(c))
  PROVE  rows' = rows
BY DEF Talks, Session, Request, Refused, Granted, Accept, CoreGone, WsGone,
       Finish, WsToCore, Leave, AskStats, AnswerRequest, PeerOpen, PeerSends,
       PeerReads, gatewayVars

LEMMA NextChats ==
  ASSUME "nick" \notin Commands, Sound, Chats, [Next]_vars
  PROVE  Chats'
<1>1. ASSUME NEW c \in Conns, Core(c)
      PROVE  Chats'
  <2>1. Handles(c) /\ UNCHANGED gatewayVars
    BY <1>1, CoreHandles DEF Core, Sound, Shape
  <2> QED
    BY <2>1, CoreKeepsChats
<1>2. ASSUME NEW c \in Conns, Talks(c)
      PROVE  Chats'
  <2>1. CASE c \in Sockets /\ CoreToWs(c)
    BY <2>1, CoreToWsKeepsChats
  <2>2. CASE ~(c \in Sockets /\ CoreToWs(c))
    <3>1. PICK m : Moves(c, m)
      BY <1>2, TalksMoves DEF Sound
    <3>2. /\ \A d \in Conns \ {c} : fromCore'[d] = fromCore[d]
          /\ \E k \in {0, 1} : \A i \in DOMAIN fromCore'[c] :
               /\ i + k \in DOMAIN fromCore[c]
               /\ fromCore'[c][i] = fromCore[c][i + k]
      BY <3>1, MovesDo DEF Sound, Shape
    <3>3. \A d \in Sockets : \A j \in DOMAIN fromCore'[d] :
            \E l \in DOMAIN fromCore[d] : fromCore'[d][j] = fromCore[d][l]
      BY <3>2, ConnsAre
    <3>4. rows' = rows /\ accepted' = accepted
      BY <1>2, <2>2, <3>1, RowsStay DEF Moves
    <3> QED
      BY <3>3, <3>4, QuietKeepsChats
  <2> QED
    BY <2>1, <2>2
<1>3. ASSUME NEW c \in Conns, Dial(c)
      PROVE  Chats'
  <2>1. rows' = rows /\ fromCore' = fromCore /\ accepted' = accepted
    BY <1>3 DEF Dial
  <2> QED
    BY <2>1 DEF Chats, SavedChat
<1>4. CASE UNCHANGED vars
  BY <1>4 DEF vars, coreVars, gatewayVars, Chats, SavedChat
<1> QED
  BY <1>1, <1>2, <1>3, <1>4, NextIs

\* Chats are saved once and only if they were accepted, in the order in which
\* every member saw them, for any number of sessions and peers and whatever
\* overflows: where no one changes a name.
THEOREM ChatsAreHistory ==
  ASSUME "nick" \notin Commands
  PROVE  Spec => []ChatHistory
<1>1. Init => Chats
  BY DEF Init, Chats
<1>2. Sound /\ Chats /\ [Next]_vars => Chats'
  BY NextChats
<1>3. Sound /\ Chats => ChatHistory
  <2> SUFFICES ASSUME Sound, Chats
               PROVE  ChatHistory
    OBVIOUS
  <2>1. accepted \in Seq(Texts)
        /\ \A k \in DOMAIN accepted : k \in Nat /\ accepted[k][2] \in Nat
    BY DEF Sound, Shape, CoreShape, Texts
  <2>2. \A k, l \in DOMAIN accepted :
          k < l /\ accepted[k][1] = accepted[l][1] => accepted[k][2] < accepted[l][2]
    BY DEF Sound, Ordered
  <2>3. ASSUME NEW i \in DOMAIN rows, rows[i].to \in Channels
        PROVE  {k \in DOMAIN accepted : accepted[k] = rows[i].text} # {}
    BY <2>3 DEF Chats, SavedChat
  <2>4. ASSUME NEW i \in DOMAIN rows, NEW j \in DOMAIN rows,
               rows[i].to \in Channels, rows[j].to \in Channels, i < j,
               rows[i].text[1] = rows[j].text[1],
               NEW k \in DOMAIN accepted, accepted[k] = rows[i].text,
               NEW l \in DOMAIN accepted, accepted[l] = rows[j].text
        PROVE  k < l
    <3>1. rows[i].text[2] < rows[j].text[2]
      BY <2>4 DEF Chats, SavedChat
    <3> QED
      BY <2>1, <2>2, <2>4, <3>1
  <2> QED
    BY <2>3, <2>4 DEF ChatHistory
<1> QED
  BY <1>1, <1>2, <1>3, SoundHolds, PTL DEF Spec

-----------------------------------------------------------------------------
(* pending_dms and the answers.  P is what waits for an answer, F what is  *)
(* on its way from the core, T what is on its way to it, n the number of   *)
(* texts so far, and up tells whether the core still has the connection.   *)

IsAnswer(f) == f.type \in {"sent", "error"}

Aligned(P, F, T, n, up) ==
  /\ \A i \in DOMAIN P :
       /\ P[i].text[2] <= n
       /\ \A j \in DOMAIN P : i < j => P[i].text[2] < P[j].text[2]
  /\ \A i \in DOMAIN F : IsAnswer(F[i]) =>
       /\ \E k \in DOMAIN P : P[k].text = F[i].text
       /\ \A j \in DOMAIN F :
            IsAnswer(F[j]) /\ i < j => F[i].text[2] < F[j].text[2]
       /\ \A j \in DOMAIN T : T[j].op = "dm" => F[i].text[2] < T[j].text[2]
       /\ \A k \in DOMAIN P : P[k].text[2] < F[i].text[2] =>
            \E j \in DOMAIN F :
              j < i /\ IsAnswer(F[j]) /\ F[j].text = P[k].text
  /\ \A i \in DOMAIN T : T[i].op = "dm" =>
       \E k \in DOMAIN P : P[k].text = T[i].text
  /\ up => \A k \in DOMAIN P :
       \/ \E i \in DOMAIN F : IsAnswer(F[i]) /\ F[i].text = P[k].text
       \/ \E i \in DOMAIN T : T[i].op = "dm" /\ T[i].text = P[k].text

LEMMA RowsAreNumbered ==
  ASSUME NEW P \in Seq(Rows)
  PROVE  \A k \in DOMAIN P : P[k] \in Rows /\ P[k].text[2] \in Nat
<1>1. \A k \in DOMAIN P : P[k] \in Rows
  OBVIOUS
<1>2. \A row \in Rows : row.text[2] \in Nat
  BY DEF Rows, Texts
<1> QED
  BY <1>1, <1>2

\* Frames that answer nothing, or the loss of the latest frames.
LEMMA AlignedWhenQueued ==
  ASSUME NEW P \in Seq(Rows), NEW F \in Seq(Frames), NEW G \in Seq(Frames),
         NEW T, NEW n, NEW up, NEW still,
         Aligned(P, F, T, n, up), still => up /\ Len(F) <= Len(G),
         \A i \in DOMAIN G :
           IF i <= Len(F) THEN G[i] = F[i] ELSE ~IsAnswer(G[i])
  PROVE  Aligned(P, G, T, n, still)
<1>1. /\ DOMAIN F = 1 .. Len(F) /\ DOMAIN G = 1 .. Len(G)
      /\ Len(F) \in Nat /\ Len(G) \in Nat
  OBVIOUS
<1>2. \A i \in DOMAIN G : IsAnswer(G[i]) => i \in DOMAIN F /\ G[i] = F[i]
  BY <1>1
<1>3. ASSUME NEW i \in DOMAIN G, IsAnswer(G[i])
      PROVE  /\ \E k \in DOMAIN P : P[k].text = G[i].text
             /\ \A j \in DOMAIN G :
                  IsAnswer(G[j]) /\ i < j => G[i].text[2] < G[j].text[2]
             /\ \A j \in DOMAIN T : T[j].op = "dm" => G[i].text[2] < T[j].text[2]
             /\ \A k \in DOMAIN P : P[k].text[2] < G[i].text[2] =>
                  \E j \in DOMAIN G :
                    j < i /\ IsAnswer(G[j]) /\ G[j].text = P[k].text
  <2>1. i \in DOMAIN F /\ G[i] = F[i] /\ IsAnswer(F[i])
    BY <1>2, <1>3
  <2>2. \A j \in DOMAIN G :
          IsAnswer(G[j]) /\ i < j => G[i].text[2] < G[j].text[2]
    BY <1>2, <2>1 DEF Aligned
  <2>3. ASSUME NEW k \in DOMAIN P, P[k].text[2] < G[i].text[2]
        PROVE  \E j \in DOMAIN G :
                 j < i /\ IsAnswer(G[j]) /\ G[j].text = P[k].text
    <3>1. PICK j \in DOMAIN F : j < i /\ IsAnswer(F[j]) /\ F[j].text = P[k].text
      BY <2>1, <2>3 DEF Aligned
    <3>2. j \in DOMAIN G /\ G[j] = F[j]
      BY <1>1, <2>1, <3>1
    <3> QED
      BY <3>1, <3>2
  <2> QED
    BY <2>1, <2>2, <2>3 DEF Aligned
<1>4. ASSUME still, NEW k \in DOMAIN P
      PROVE  \/ \E i \in DOMAIN G : IsAnswer(G[i]) /\ G[i].text = P[k].text
             \/ \E i \in DOMAIN T : T[i].op = "dm" /\ T[i].text = P[k].text
  <2>1. CASE \E i \in DOMAIN F : IsAnswer(F[i]) /\ F[i].text = P[k].text
    <3>1. \A i \in DOMAIN F : i \in DOMAIN G /\ G[i] = F[i]
      BY <1>1, <1>4
    <3> QED
      BY <2>1, <3>1
  <2>2. CASE \E i \in DOMAIN T : T[i].op = "dm" /\ T[i].text = P[k].text
    BY <2>2
  <2> QED
    BY <1>4, <2>1, <2>2 DEF Aligned
<1> QED
  BY <1>3, <1>4 DEF Aligned

\* The core takes a request that is no direct message.
LEMMA AlignedWhenTaken ==
  ASSUME NEW P, NEW F, NEW T \in Seq(Asks), NEW n, NEW up,
         T # <<>>, T[1].op # "dm", Aligned(P, F, T, n, up)
  PROVE  Aligned(P, F, Tail(T), n, up)
<1>1. /\ DOMAIN T = 1 .. Len(T) /\ Len(T) \in Nat
      /\ DOMAIN Tail(T) = 1 .. Len(T) - 1
      /\ \A i \in DOMAIN Tail(T) : i + 1 \in DOMAIN T /\ Tail(T)[i] = T[i + 1]
  BY TailDoes
<1>2. ASSUME NEW i \in DOMAIN T, T[i].op = "dm"
      PROVE  i - 1 \in DOMAIN Tail(T) /\ Tail(T)[i - 1] = T[i]
  BY <1>1, <1>2
<1> QED
  BY <1>1, <1>2 DEF Aligned

\* The core answers a direct message.
LEMMA AlignedWhenAnswered ==
  ASSUME NEW P \in Seq(Rows), NEW F \in Seq(Frames), NEW G \in Seq(Frames),
         NEW T \in Seq(Asks), NEW n, NEW still,
         T # <<>>, T[1].op = "dm", Aligned(P, F, T, n, TRUE),
         \A i, j \in DOMAIN T : T[i].op = "dm" /\ T[j].op = "dm" /\ i < j =>
           T[i].text[2] < T[j].text[2],
         \A i \in DOMAIN G : IF i <= Len(F) THEN G[i] = F[i]
                             ELSE IsAnswer(G[i]) => G[i].text = T[1].text,
         \A i, j \in DOMAIN G : Len(F) < i /\ i < j => ~IsAnswer(G[i]),
         still => /\ Len(F) < Len(G)
                  /\ IsAnswer(G[Len(G)]) /\ G[Len(G)].text = T[1].text
  PROVE  Aligned(P, G, Tail(T), n, still)
<1>1. /\ DOMAIN T = 1 .. Len(T) /\ Len(T) \in Nat
      /\ DOMAIN Tail(T) = 1 .. Len(T) - 1
      /\ \A i \in DOMAIN Tail(T) : i + 1 \in DOMAIN T /\ Tail(T)[i] = T[i + 1]
  BY TailDoes
<1>2. /\ DOMAIN F = 1 .. Len(F) /\ DOMAIN G = 1 .. Len(G)
      /\ Len(F) \in Nat /\ Len(G) \in Nat
  OBVIOUS
<1>3. 1 \in DOMAIN T /\ \E k \in DOMAIN P : P[k].text = T[1].text
  BY <1>1 DEF Aligned
<1>4. \A k \in DOMAIN P : P[k].text[2] \in Nat
  BY RowsAreNumbered
<1>5. ASSUME NEW i \in DOMAIN G, IsAnswer(G[i]), i <= Len(F)
      PROVE  /\ i \in DOMAIN F /\ G[i] = F[i]
             /\ \A j \in DOMAIN F : j < i => j \in DOMAIN G /\ G[j] = F[j]
  BY <1>2, <1>5
<1>6. ASSUME NEW i \in DOMAIN G, IsAnswer(G[i]), i > Len(F)
      PROVE  /\ G[i].text = T[1].text
             /\ \A j \in DOMAIN F : j < i /\ j \in DOMAIN G /\ G[j] = F[j]
  BY <1>2, <1>6
<1>7. \A i \in DOMAIN Tail(T) : Tail(T)[i].op = "dm" =>
        /\ T[1].text[2] < Tail(T)[i].text[2]
        /\ i + 1 \in DOMAIN T /\ Tail(T)[i] = T[i + 1]
  <2>1. \A i \in DOMAIN Tail(T) : 1 < i + 1
    BY <1>1
  <2> QED
    BY <1>1, <1>3, <2>1
<1>8. ASSUME NEW i \in DOMAIN G, IsAnswer(G[i])
      PROVE  /\ \E k \in DOMAIN P : P[k].text = G[i].text
             /\ \A j \in DOMAIN G :
                  IsAnswer(G[j]) /\ i < j => G[i].text[2] < G[j].text[2]
             /\ \A j \in DOMAIN Tail(T) : Tail(T)[j].op = "dm" =>
                  G[i].text[2] < Tail(T)[j].text[2]
             /\ \A k \in DOMAIN P : P[k].text[2] < G[i].text[2] =>
                  \E j \in DOMAIN G :
                    j < i /\ IsAnswer(G[j]) /\ G[j].text = P[k].text
  <2>1. CASE i <= Len(F)
    <3>1. i \in DOMAIN F /\ G[i] = F[i] /\ IsAnswer(F[i])
      BY <1>5, <1>8, <2>1
    <3>2. ASSUME NEW j \in DOMAIN G, IsAnswer(G[j]), i < j
          PROVE  G[i].text[2] < G[j].text[2]
      <4>1. CASE j <= Len(F)
        BY <1>5, <3>1, <3>2, <4>1 DEF Aligned
      <4>2. CASE j > Len(F)
        BY <1>3, <1>6, <3>1, <3>2, <4>2 DEF Aligned
      <4> QED
        BY <1>2, <4>1, <4>2
    <3>3. \A j \in DOMAIN Tail(T) : Tail(T)[j].op = "dm" =>
            G[i].text[2] < Tail(T)[j].text[2]
      BY <1>7, <3>1 DEF Aligned
    <3>4. ASSUME NEW k \in DOMAIN P, P[k].text[2] < G[i].text[2]
          PROVE  \E j \in DOMAIN G :
                   j < i /\ IsAnswer(G[j]) /\ G[j].text = P[k].text
      <4>1. PICK j \in DOMAIN F :
              j < i /\ IsAnswer(F[j]) /\ F[j].text = P[k].text
        BY <3>1, <3>4 DEF Aligned
      <4> QED
        BY <1>5, <1>8, <2>1, <4>1
    <3> QED
      BY <3>1, <3>2, <3>3, <3>4 DEF Aligned
  <2>2. CASE i > Len(F)
    <3>1. G[i].text = T[1].text
      BY <1>6, <1>8, <2>2
    <3>2. ASSUME NEW j \in DOMAIN G, IsAnswer(G[j])
          PROVE  ~(i < j)
      BY <1>8, <2>2
    <3>3. ASSUME NEW k \in DOMAIN P, P[k].text[2] < G[i].text[2]
          PROVE  \E j \in DOMAIN G :
                   j < i /\ IsAnswer(G[j]) /\ G[j].text = P[k].text
      <4>1. CASE \E j \in DOMAIN F : IsAnswer(F[j]) /\ F[j].text = P[k].text
        BY <1>6, <1>8, <2>2, <4>1
      <4>2. CASE \E j \in DOMAIN T : T[j].op = "dm" /\ T[j].text = P[k].text
        <5>1. PICK j \in DOMAIN T : T[j].op = "dm" /\ T[j].text = P[k].text
          BY <4>2
        <5>2. T[j].text[2] < T[1].text[2]
          BY <3>1, <3>3, <5>1
        <5>3. j # 1
          BY <1>4, <5>1, <5>2
        <5>4. T[1].text[2] < T[j].text[2]
          BY <1>1, <1>3, <5>1, <5>3
        <5> QED
          BY <1>3, <1>4, <5>1, <5>2, <5>4
      <4> QED
        BY <4>1, <4>2 DEF Aligned
    <3> QED
      BY <1>3, <1>7, <3>1, <3>2, <3>3
  <2> QED
    BY <1>2, <2>1, <2>2
<1>9. ASSUME still, NEW k \in DOMAIN P
      PROVE  \/ \E i \in DOMAIN G : IsAnswer(G[i]) /\ G[i].text = P[k].text
             \/ \E i \in DOMAIN Tail(T) :
                  Tail(T)[i].op = "dm" /\ Tail(T)[i].text = P[k].text
  <2>1. CASE \E j \in DOMAIN F : IsAnswer(F[j]) /\ F[j].text = P[k].text
    <3>1. \A j \in DOMAIN F : j \in DOMAIN G /\ G[j] = F[j]
      BY <1>2, <1>9
    <3> QED
      BY <2>1, <3>1
  <2>2. CASE \E j \in DOMAIN T : T[j].op = "dm" /\ T[j].text = P[k].text
    <3>1. PICK j \in DOMAIN T : T[j].op = "dm" /\ T[j].text = P[k].text
      BY <2>2
    <3>2. CASE j = 1
      BY <1>2, <1>9, <3>1, <3>2
    <3>3. CASE j # 1
      <4>1. j - 1 \in DOMAIN Tail(T) /\ Tail(T)[j - 1] = T[j]
        BY <1>1, <3>3
      <4> QED
        BY <3>1, <4>1
    <3> QED
      BY <3>2, <3>3
  <2> QED
    BY <2>1, <2>2 DEF Aligned
<1>10. \A i \in DOMAIN Tail(T) : Tail(T)[i].op = "dm" =>
         \E k \in DOMAIN P : P[k].text = Tail(T)[i].text
  BY <1>7 DEF Aligned
<1> QED
  BY <1>8, <1>9, <1>10 DEF Aligned

\* The session reads a frame that answers nothing.
LEMMA AlignedWhenRead ==
  ASSUME NEW P \in Seq(Rows), NEW F \in Seq(Frames), NEW T, NEW n, NEW up,
         F # <<>>, ~IsAnswer(F[1]), Aligned(P, F, T, n, up)
  PROVE  Aligned(P, Tail(F), T, n, up)
<1> DEFINE G == Tail(F)
<1>1. /\ DOMAIN F = 1 .. Len(F) /\ Len(F) \in Nat /\ DOMAIN G = 1 .. Len(F) - 1
      /\ \A i \in DOMAIN G : i + 1 \in DOMAIN F /\ G[i] = F[i + 1] /\ i \in Nat
  BY TailDoes
<1> HIDE DEF G
<1>2. ASSUME NEW i \in DOMAIN F, IsAnswer(F[i])
      PROVE  i - 1 \in DOMAIN G /\ G[i - 1] = F[i]
  BY <1>1, <1>2
<1>3. ASSUME NEW i \in DOMAIN G, IsAnswer(G[i])
      PROVE  /\ \E k \in DOMAIN P : P[k].text = G[i].text
             /\ \A j \in DOMAIN G :
                  IsAnswer(G[j]) /\ i < j => G[i].text[2] < G[j].text[2]
             /\ \A j \in DOMAIN T : T[j].op = "dm" => G[i].text[2] < T[j].text[2]
             /\ \A k \in DOMAIN P : P[k].text[2] < G[i].text[2] =>
                  \E j \in DOMAIN G :
                    j < i /\ IsAnswer(G[j]) /\ G[j].text = P[k].text
  <2>1. i + 1 \in DOMAIN F /\ G[i] = F[i + 1] /\ IsAnswer(F[i + 1]) /\ i \in Nat
    BY <1>1, <1>3
  <2>2. ASSUME NEW j \in DOMAIN G, IsAnswer(G[j]), i < j
        PROVE  G[i].text[2] < G[j].text[2]
    <3>1. j + 1 \in DOMAIN F /\ G[j] = F[j + 1] /\ i + 1 < j + 1
      BY <1>1, <2>1, <2>2
    <3> QED
      BY <2>1, <2>2, <3>1 DEF Aligned
  <2>3. ASSUME NEW k \in DOMAIN P, P[k].text[2] < G[i].text[2]
        PROVE  \E j \in DOMAIN G :
                 j < i /\ IsAnswer(G[j]) /\ G[j].text = P[k].text
    <3>1. PICK j \in DOMAIN F :
            j < i + 1 /\ IsAnswer(F[j]) /\ F[j].text = P[k].text
      BY <2>1, <2>3 DEF Aligned
    <3>2. j - 1 \in DOMAIN G /\ G[j - 1] = F[j] /\ j - 1 < i
      BY <1>1, <1>2, <2>1, <3>1
    <3> QED
      BY <3>1, <3>2
  <2> QED
    BY <2>1, <2>2, <2>3 DEF Aligned
<1>4. ASSUME up, NEW k \in DOMAIN P
      PROVE  \/ \E i \in DOMAIN G : IsAnswer(G[i]) /\ G[i].text = P[k].text
             \/ \E i \in DOMAIN T : T[i].op = "dm" /\ T[i].text = P[k].text
  BY <1>2, <1>4 DEF Aligned
<1> QED
  BY <1>3, <1>4 DEF Aligned, G

\* The session reads an answer: it is the one to the first entry.
LEMMA AlignedWhenSettled ==
  ASSUME NEW P \in Seq(Rows), NEW F \in Seq(Frames), NEW T, NEW n, NEW up,
         F # <<>>, IsAnswer(F[1]), Aligned(P, F, T, n, up)
  PROVE  /\ P # <<>> /\ P[1].text = F[1].text
         /\ Aligned(Tail(P), Tail(F), T, n, up)
<1> DEFINE G == Tail(F)
           Q == Tail(P)
<1>1. /\ DOMAIN F = 1 .. Len(F) /\ Len(F) \in Nat /\ DOMAIN G = 1 .. Len(F) - 1
      /\ \A i \in DOMAIN G : i + 1 \in DOMAIN F /\ G[i] = F[i + 1] /\ i \in Nat
  BY TailDoes
<1>2. 1 \in DOMAIN F
  BY <1>1
<1>3. PICK k \in DOMAIN P : P[k].text = F[1].text
  BY <1>2 DEF Aligned
<1>4. DOMAIN P = 1 .. Len(P) /\ Len(P) \in Nat /\ P # <<>> /\ 1 \in DOMAIN P
      /\ \A i \in DOMAIN P : P[i].text[2] \in Nat
  BY <1>3, RowsAreNumbered
<1>5. k = 1
  <2>1. SUFFICES ASSUME 1 < k
                 PROVE  FALSE
    BY <1>4
  <2>2. P[1].text[2] < F[1].text[2]
    BY <1>3, <1>4, <2>1 DEF Aligned
  <2>3. \E j \in DOMAIN F : j < 1
    BY <1>2, <1>4, <2>2 DEF Aligned
  <2> QED
    BY <1>1, <2>3
<1>6. /\ DOMAIN Q = 1 .. Len(P) - 1
      /\ \A i \in DOMAIN Q : i + 1 \in DOMAIN P /\ Q[i] = P[i + 1] /\ i \in Nat
                               /\ 1 < i + 1
  BY <1>4, TailDoes
<1> HIDE DEF G, Q
<1>7. ASSUME NEW i \in DOMAIN F, i # 1
      PROVE  i - 1 \in DOMAIN G /\ G[i - 1] = F[i]
  BY <1>1, <1>7
<1>8. ASSUME NEW i \in DOMAIN P, P[i].text # F[1].text
      PROVE  i - 1 \in DOMAIN Q /\ Q[i - 1] = P[i]
  BY <1>3, <1>4, <1>5, <1>6, <1>8
<1>9. F[1].text[2] \in Nat
  BY <1>3, <1>4
<1>10. \A i \in DOMAIN Q :
         /\ Q[i].text[2] <= n
         /\ \A j \in DOMAIN Q : i < j => Q[i].text[2] < Q[j].text[2]
  <2>1. ASSUME NEW i \in DOMAIN Q, NEW j \in DOMAIN Q, i < j
        PROVE  Q[i].text[2] < Q[j].text[2]
    <3>1. i + 1 < j + 1
      BY <1>6, <2>1
    <3> QED
      BY <1>6, <3>1 DEF Aligned
  <2> QED
    BY <1>6, <2>1 DEF Aligned
<1>11. ASSUME NEW i \in DOMAIN G, IsAnswer(G[i])
       PROVE  /\ \E l \in DOMAIN Q : Q[l].text = G[i].text
              /\ \A j \in DOMAIN G :
                   IsAnswer(G[j]) /\ i < j => G[i].text[2] < G[j].text[2]
              /\ \A j \in DOMAIN T : T[j].op = "dm" => G[i].text[2] < T[j].text[2]
              /\ \A l \in DOMAIN Q : Q[l].text[2] < G[i].text[2] =>
                   \E j \in DOMAIN G :
                     j < i /\ IsAnswer(G[j]) /\ G[j].text = Q[l].text
  <2>1. i + 1 \in DOMAIN F /\ G[i] = F[i + 1] /\ IsAnswer(F[i + 1]) /\ i \in Nat
        /\ 1 < i + 1
    BY <1>1, <1>11
  <2>2. F[1].text[2] < F[i + 1].text[2]
    BY <1>2, <2>1 DEF Aligned
  <2>3. \E l \in DOMAIN Q : Q[l].text = G[i].text
    <3>1. PICK l \in DOMAIN P : P[l].text = F[i + 1].text
      BY <2>1 DEF Aligned
    <3>2. P[l].text # F[1].text
      BY <1>9, <2>2, <3>1
    <3> QED
      BY <1>8, <2>1, <3>1, <3>2
  <2>4. ASSUME NEW j \in DOMAIN G, IsAnswer(G[j]), i < j
        PROVE  G[i].text[2] < G[j].text[2]
    <3>1. j + 1 \in DOMAIN F /\ G[j] = F[j + 1] /\ i + 1 < j + 1
      BY <1>1, <2>1, <2>4
    <3> QED
      BY <2>1, <2>4, <3>1 DEF Aligned
  <2>5. ASSUME NEW l \in DOMAIN Q, Q[l].text[2] < G[i].text[2]
        PROVE  \E j \in DOMAIN G :
                 j < i /\ IsAnswer(G[j]) /\ G[j].text = Q[l].text
    <3>1. l + 1 \in DOMAIN P /\ Q[l] = P[l + 1] /\ 1 < l + 1
      BY <1>6
    <3>2. PICK j \in DOMAIN F :
            j < i + 1 /\ IsAnswer(F[j]) /\ F[j].text = P[l + 1].text
      BY <2>1, <2>5, <3>1 DEF Aligned
    <3>3. j # 1
      <4>1. P[1].text[2] < P[l + 1].text[2]
        BY <1>4, <3>1 DEF Aligned
      <4> QED
        BY <1>3, <1>4, <1>5, <3>1, <3>2, <4>1
    <3>4. j - 1 \in DOMAIN G /\ G[j - 1] = F[j] /\ j - 1 < i
      BY <1>1, <1>7, <2>1, <3>2, <3>3
    <3> QED
      BY <3>1, <3>2, <3>4
  <2> QED
    BY <2>1, <2>3, <2>4, <2>5 DEF Aligned
<1>12. ASSUME NEW i \in DOMAIN T, T[i].op = "dm"
       PROVE  \E l \in DOMAIN Q : Q[l].text = T[i].text
  <2>1. PICK l \in DOMAIN P : P[l].text = T[i].text
    BY <1>12 DEF Aligned
  <2>2. F[1].text[2] < T[i].text[2]
    BY <1>2, <1>12 DEF Aligned
  <2>3. P[l].text # F[1].text
    BY <1>9, <2>1, <2>2
  <2> QED
    BY <1>8, <2>1, <2>3
<1>13. ASSUME up, NEW l \in DOMAIN Q
       PROVE  \/ \E i \in DOMAIN G : IsAnswer(G[i]) /\ G[i].text = Q[l].text
              \/ \E i \in DOMAIN T : T[i].op = "dm" /\ T[i].text = Q[l].text
  <2>1. l + 1 \in DOMAIN P /\ Q[l] = P[l + 1] /\ 1 < l + 1
    BY <1>6
  <2>2. P[l + 1].text # F[1].text
    <3>1. P[1].text[2] < P[l + 1].text[2]
      BY <1>4, <2>1 DEF Aligned
    <3> QED
      BY <1>3, <1>4, <1>5, <2>1, <3>1
  <2>3. CASE \E i \in DOMAIN F : IsAnswer(F[i]) /\ F[i].text = P[l + 1].text
    <3>1. PICK i \in DOMAIN F : IsAnswer(F[i]) /\ F[i].text = P[l + 1].text
      BY <2>3
    <3>2. i - 1 \in DOMAIN G /\ G[i - 1] = F[i]
      BY <1>7, <2>2, <3>1
    <3> QED
      BY <2>1, <3>1, <3>2
  <2>4. CASE \E i \in DOMAIN T : T[i].op = "dm" /\ T[i].text = P[l + 1].text
    BY <2>1, <2>4
  <2> QED
    BY <1>13, <2>1, <2>3, <2>4 DEF Aligned
<1>14. Aligned(Q, G, T, n, up)
  BY <1>10, <1>11, <1>12, <1>13 DEF Aligned
<1> QED
  BY <1>3, <1>4, <1>5, <1>14 DEF G, Q

\* The session sends a direct message, the entry first.
LEMMA AlignedWhenSent ==
  ASSUME NEW P \in Seq(Rows), NEW F, NEW T \in Seq(Asks), NEW n \in Nat, NEW up,
         NEW p \in Rows, p.text[2] = n + 1, Aligned(P, F, T, n, up)
  PROVE  /\ ~up => Aligned(Append(P, p), F, T, n + 1, FALSE)
         /\ \A m \in Asks : m.op = "dm" /\ m.text = p.text =>
              Aligned(Append(P, p), F, Append(T, m), n + 1, up)
<1> DEFINE Q == Append(P, p)
<1>1. /\ DOMAIN P = 1 .. Len(P) /\ Len(P) \in Nat /\ DOMAIN Q = 1 .. Len(P) + 1
      /\ \A i \in DOMAIN P : i \in DOMAIN Q /\ Q[i] = P[i]
      /\ Q[Len(P) + 1] = p /\ Len(P) + 1 \in DOMAIN Q
  <2>1. DOMAIN Q = 1 .. Len(P) + 1 /\ Len(P) \in Nat
    BY AppendDoes
  <2>2. (\A i \in 1 .. Len(P) : Q[i] = P[i]) /\ Q[Len(P) + 1] = p
    BY AppendProperties
  <2> QED
    BY <2>1, <2>2
<1>2. \A i \in DOMAIN Q : i \in DOMAIN P \/ i = Len(P) + 1
  BY <1>1
<1> HIDE DEF Q
<1>3. \A i \in DOMAIN P : P[i].text[2] \in Nat /\ P[i].text[2] <= n
  BY RowsAreNumbered DEF Aligned
<1>4. \A i \in DOMAIN Q :
        /\ Q[i].text[2] <= n + 1
        /\ \A j \in DOMAIN Q : i < j => Q[i].text[2] < Q[j].text[2]
  <2>1. ASSUME NEW i \in DOMAIN Q, NEW j \in DOMAIN Q, i < j
        PROVE  Q[i].text[2] < Q[j].text[2]
    <3>1. i \in DOMAIN P
      BY <1>1, <1>2, <2>1
    <3>2. CASE j \in DOMAIN P
      BY <1>1, <2>1, <3>1, <3>2 DEF Aligned
    <3>3. CASE j = Len(P) + 1
      BY <1>1, <1>3, <3>1, <3>3
    <3> QED
      BY <1>2, <3>2, <3>3
  <2> QED
    BY <1>1, <1>2, <1>3, <2>1
<1>5. ASSUME NEW i \in DOMAIN F, IsAnswer(F[i])
      PROVE  /\ \E k \in DOMAIN Q : Q[k].text = F[i].text
             /\ F[i].text[2] \in Nat /\ F[i].text[2] <= n
             /\ \A k \in DOMAIN Q : Q[k].text[2] < F[i].text[2] =>
                  \E j \in DOMAIN F :
                    j < i /\ IsAnswer(F[j]) /\ F[j].text = Q[k].text
  <2>1. PICK k \in DOMAIN P : P[k].text = F[i].text
    BY <1>5 DEF Aligned
  <2>2. F[i].text[2] \in Nat /\ F[i].text[2] <= n
    BY <1>3, <2>1
  <2>3. ASSUME NEW l \in DOMAIN Q, Q[l].text[2] < F[i].text[2]
        PROVE  l \in DOMAIN P /\ Q[l] = P[l]
    <3>1. l # Len(P) + 1
      BY <1>1, <2>2, <2>3
    <3> QED
      BY <1>1, <1>2, <3>1
  <2>4. \A l \in DOMAIN P : P[l].text[2] < F[i].text[2] =>
          \E j \in DOMAIN F :
            j < i /\ IsAnswer(F[j]) /\ F[j].text = P[l].text
    BY <1>5 DEF Aligned
  <2>5. \E l \in DOMAIN Q : Q[l].text = F[i].text
    BY <1>1, <2>1
  <2> QED
    BY <2>2, <2>3, <2>4, <2>5
<1>6. \A i \in DOMAIN T : T[i].op = "dm" =>
        \E k \in DOMAIN Q : Q[k].text = T[i].text
  BY <1>1 DEF Aligned
<1>7. ~up => Aligned(Q, F, T, n + 1, FALSE)
  BY <1>4, <1>5, <1>6 DEF Aligned
<1>8. ASSUME NEW m \in Asks, m.op = "dm", m.text = p.text
      PROVE  Aligned(Q, F, Append(T, m), n + 1, up)
  <2> DEFINE U == Append(T, m)
  <2>1. /\ \A i \in DOMAIN T : i \in DOMAIN U /\ U[i] = T[i]
        /\ \A i \in DOMAIN U : (i \in DOMAIN T /\ U[i] = T[i]) \/ U[i] = m
        /\ \E i \in DOMAIN U : U[i] = m
    <3>1. /\ DOMAIN U = 1 .. Len(T) + 1 /\ Len(T) \in Nat
          /\ DOMAIN T = 1 .. Len(T)
      BY AppendDoes
    <3>2. (\A i \in 1 .. Len(T) : U[i] = T[i]) /\ U[Len(T) + 1] = m
      BY AppendProperties
    <3> QED
      BY <3>1, <3>2
  <2> HIDE DEF U
  <2>2. \A i \in DOMAIN U : U[i].op = "dm" =>
          \E k \in DOMAIN Q : Q[k].text = U[i].text
    BY <1>1, <1>6, <1>8, <2>1
  <2>3. \A i \in DOMAIN F : IsAnswer(F[i]) =>
          \A j \in DOMAIN U : U[j].op = "dm" => F[i].text[2] < U[j].text[2]
    BY <1>5, <1>8, <2>1 DEF Aligned
  <2>4. ASSUME up, NEW k \in DOMAIN Q
        PROVE  \/ \E i \in DOMAIN F : IsAnswer(F[i]) /\ F[i].text = Q[k].text
               \/ \E i \in DOMAIN U : U[i].op = "dm" /\ U[i].text = Q[k].text
    <3>1. CASE k \in DOMAIN P
      BY <1>1, <2>1, <2>4, <3>1 DEF Aligned
    <3>2. CASE k = Len(P) + 1
      BY <1>1, <1>8, <2>1, <3>2
    <3> QED
      BY <1>2, <3>1, <3>2
  <2>5. Aligned(Q, F, U, n + 1, up)
    BY <1>4, <1>5, <2>2, <2>3, <2>4 DEF Aligned
  <2> QED
    BY <2>5 DEF U
<1> QED
  BY <1>7, <1>8 DEF Q

\* The session sends something else, or fails to.
LEMMA AlignedWhenCounted ==
  ASSUME NEW P \in Seq(Rows), NEW F, NEW T \in Seq(Asks), NEW n \in Nat, NEW up,
         Aligned(P, F, T, n, up)
  PROVE  /\ Aligned(P, F, T, n + 1, up)
         /\ \A m \in Asks : m.op # "dm" => Aligned(P, F, Append(T, m), n + 1, up)
<1>1. \A i \in DOMAIN P : P[i].text[2] <= n + 1
  <2>1. \A i \in DOMAIN P : P[i].text[2] \in Nat /\ P[i].text[2] <= n
    BY RowsAreNumbered DEF Aligned
  <2> QED
    BY <2>1
<1>2. Aligned(P, F, T, n + 1, up)
  BY <1>1 DEF Aligned
<1>3. ASSUME NEW m \in Asks, m.op # "dm"
      PROVE  Aligned(P, F, Append(T, m), n + 1, up)
  <2> DEFINE U == Append(T, m)
  <2>1. /\ \A i \in DOMAIN T : i \in DOMAIN U /\ U[i] = T[i]
        /\ \A i \in DOMAIN U : (i \in DOMAIN T /\ U[i] = T[i]) \/ U[i] = m
    <3>1. /\ DOMAIN U = 1 .. Len(T) + 1 /\ Len(T) \in Nat
          /\ DOMAIN T = 1 .. Len(T)
      BY AppendDoes
    <3>2. (\A i \in 1 .. Len(T) : U[i] = T[i]) /\ U[Len(T) + 1] = m
      BY AppendProperties
    <3> QED
      BY <3>1, <3>2
  <2> HIDE DEF U
  <2>2. Aligned(P, F, U, n + 1, up)
    BY <1>2, <1>3, <2>1 DEF Aligned
  <2> QED
    BY <2>2 DEF U
<1> QED
  BY <1>2, <1>3

\* No reader is ever so slow that its queue in the core is full.
NoOverflow == \A c \in Conns : Len(fromCore[c]) < Capacity

\* What pending_dms is in step with, before and while the session is open.
InStepAt(s) ==
  /\ \A i \in DOMAIN toCore[s] : toCore[s][i].op # "stats"
  /\ phase[s] = "hello" =>
       \A i \in DOMAIN fromCore[s] : IsAnswer(fromCore[s][i]) =>
         i = 1 /\ fromCore[s][i].type = "error"
  /\ phase[s] = "granted" =>
       toCore[s] = <<>> /\ \A i \in DOMAIN fromCore[s] : ~IsAnswer(fromCore[s][i])
  /\ phase[s] \in Greeting \cup {"granted"} =>
       pending[s] = <<>> /\ pump[s].ws = "off"
  /\ phase[s] = "open" =>
       Aligned(pending[s], fromCore[s], toCore[s], count[s], core[s].up)

InStep == \A s \in Sockets : InStepAt(s)

\* What the session is made of.
LEMMA SessionParts ==
  ASSUME Sound, NEW s \in Sockets
  PROVE  /\ s \in Conns /\ DOMAIN phase = Conns /\ DOMAIN count = Conns
         /\ DOMAIN core = Conns /\ DOMAIN toCore = Conns /\ DOMAIN fromCore = Conns
         /\ DOMAIN pump = Sockets /\ DOMAIN pending = Sockets
         /\ pump[s] \in Pumps
         /\ toCore[s] \in Seq(Asks) /\ fromCore[s] \in Seq(Frames)
         /\ pending[s] \in Seq(Rows) /\ count[s] \in Nat
BY ConnsAre DEF Sound, Shape, CoreShape, SessionShape, PendingShape

\* A request of someone else puts no answer in the queue of s.
LEMMA OthersKeepInStep ==
  ASSUME Sound, NEW c \in Conns, Handles(c), UNCHANGED gatewayVars,
         NEW s \in Sockets, s # c, InStepAt(s)
  PROVE  InStepAt(s)'
<1> DEFINE F == fromCore[s]
           G == fromCore'[s]
<1>1. /\ s \in Conns /\ F \in Seq(Frames) /\ G \in Seq(Frames)
      /\ pending[s] \in Seq(Rows)
      /\ toCore'[s] = toCore[s]
      /\ UNCHANGED <<phase, pump, pending, count>>
  BY SessionParts, RequestsStay DEF Handles, Sound, gatewayVars
<1>2. \A f : Fresh(Head(toCore[c]), c, s, f) => ~IsAnswer(f)
  BY DEF Fresh, IsAnswer, Tell
<1>3. \A i \in DOMAIN G : IF i <= Len(F) THEN G[i] = F[i] ELSE ~IsAnswer(G[i])
  BY <1>1, <1>2 DEF Handles
<1>4. core'[s].up => core[s].up /\ Len(F) <= Len(G)
  BY <1>1 DEF Handles, Absent
<1>5. \A i \in DOMAIN G : IsAnswer(G[i]) => i \in DOMAIN F /\ G[i] = F[i]
  BY <1>1, <1>3
<1>6. phase[s] = "open" =>
        Aligned(pending[s], G, toCore[s], count[s], core'[s].up)
  <2> HIDE DEF F, G
  <2>1. phase[s] = "open" =>
          Aligned(pending[s], F, toCore[s], count[s], core[s].up)
    BY DEF InStepAt, F
  <2> QED
    BY <1>1, <1>3, <1>4, <2>1, AlignedWhenQueued
<1> QED
  BY <1>1, <1>5, <1>6 DEF InStepAt

\* The core handles a request of the session itself.
LEMMA OwnRequestKeepsInStep ==
  ASSUME Sound, Commands \subseteq {"dm", "join", "quit"}, NoOverflow,
         NEW s \in Sockets, CoreStep(s), Handles(s), UNCHANGED gatewayVars,
         InStepAt(s)
  PROVE  InStepAt(s)'
<1> DEFINE F == fromCore[s]
           G == fromCore'[s]
           T == toCore[s]
           m == Head(toCore[s])
<1>1. /\ s \in Conns /\ F \in Seq(Frames) /\ G \in Seq(Frames) /\ T \in Seq(Asks)
      /\ pending[s] \in Seq(Rows) /\ T # <<>> /\ core[s].up
      /\ toCore'[s] = Tail(T)
      /\ UNCHANGED <<phase, pump, pending, count>>
      /\ Len(F) \in Nat /\ Len(G) \in Nat /\ DOMAIN G = 1 .. Len(G)
  BY SessionParts DEF Handles, gatewayVars
<1>2. /\ m = T[1] /\ 1 \in DOMAIN T /\ m \in AsksOf(s)
      /\ \A i \in DOMAIN Tail(T) : i + 1 \in DOMAIN T /\ Tail(T)[i] = T[i + 1]
  BY <1>1, RequestsStay DEF Sound
<1>3. /\ \A i \in DOMAIN G : IF i <= Len(F) THEN G[i] = F[i]
                             ELSE Fresh(m, s, s, G[i])
      /\ \A i, j \in DOMAIN G : Len(F) < i /\ i < j => G[i].type = "dm"
      /\ core'[s].up => Len(F) <= Len(G)
  BY <1>1 DEF Handles
<1>4. NamedAt(s)
  BY <1>1 DEF Sound, Shape, Named
<1>5. phase[s] # "new" /\ phase[s] # "granted"
  BY <1>1, <1>4 DEF NamedAt, Absent, InStepAt
<1>6. CASE phase[s] = "hello"
  <2>1. F = <<>> /\ m.op = "hello"
    BY <1>1, <1>2, <1>4, <1>6 DEF NamedAt, Ask
  <2>2. ASSUME NEW i \in DOMAIN G
        PROVE  i = 1 /\ (G[i].type \in {"ok", "error"})
    <3>1. \A j \in DOMAIN G : Fresh(m, s, s, G[j])
      BY <1>1, <1>3, <2>1
    <3>2. \A j \in DOMAIN G : G[j].type \in {"ok", "error"}
      <4> HIDE DEF m, G
      <4> QED
        BY <2>1, <3>1 DEF Fresh, Tell, Plain
    <3>3. 1 \in DOMAIN G /\ ~(1 < i)
      BY <1>1, <1>3, <2>1, <3>2
    <3> QED
      BY <1>1, <3>2, <3>3
  <2> QED
    BY <1>1, <1>2, <1>6, <2>2 DEF InStepAt, IsAnswer, Greeting
<1>7. CASE phase[s] = "open"
  <2>1. m.op \in {"dm", "join", "quit"}
    BY <1>2, <1>4, <1>7 DEF NamedAt, Greeting, AsksOf, InStepAt
  <2>2. Aligned(pending[s], F, T, count[s], TRUE)
    BY <1>1, <1>7 DEF InStepAt
  <2>3. CASE m.op = "dm"
    <3>1. HandleDm(s)
      BY <2>3 DEF CoreStep, HandleName, HandleRoom, HandleSay, HandleStats,
                  HandleEnd, Take
    <3>2. core'[s].up => /\ Len(F) < Len(G)
                         /\ IsAnswer(G[Len(G)]) /\ G[Len(G)].text = T[1].text
      BY <1>1, <1>2, <3>1, DmHandles DEF Sound, Shape, NoOverflow, IsAnswer
    <3>3. \A i \in DOMAIN G : IF i <= Len(F) THEN G[i] = F[i]
                              ELSE IsAnswer(G[i]) => G[i].text = T[1].text
      <4>1. \A f : Fresh(m, s, s, f) /\ IsAnswer(f) => f.text = m.text
        BY <2>3 DEF Fresh, IsAnswer, Tell, Plain
      <4> QED
        BY <1>2, <1>3, <4>1
    <3>4. \A i, j \in DOMAIN T : T[i].op = "dm" /\ T[j].op = "dm" /\ i < j =>
            T[i].text[2] < T[j].text[2]
      BY <1>1 DEF Sound, Ordered, OrderedAt, HasText
    <3>5. \A i, j \in DOMAIN G : Len(F) < i /\ i < j => ~IsAnswer(G[i])
      BY <1>3 DEF IsAnswer
    <3>6. T[1].op = "dm"
      BY <1>2, <2>3
    <3> HIDE DEF F, G, T, m
    <3>7. Aligned(pending[s], G, Tail(T), count[s], core'[s].up)
      BY <1>1, <2>2, <3>2, <3>3, <3>4, <3>5, <3>6, AlignedWhenAnswered
    <3> QED
      BY <1>1, <1>2, <1>7, <3>7 DEF InStepAt, Greeting, F, G, T
  <2>4. CASE m.op \in {"join", "quit"}
    <3>1. \A i \in DOMAIN G : IF i <= Len(F) THEN G[i] = F[i]
                              ELSE ~IsAnswer(G[i])
      <4>1. \A f : Fresh(m, s, s, f) => ~IsAnswer(f)
        BY <2>4 DEF Fresh, IsAnswer, Tell, Plain
      <4> QED
        BY <1>3, <4>1
    <3>2. T[1].op # "dm"
      BY <1>2, <2>4
    <3> HIDE DEF F, G, T, m
    <3>3. Aligned(pending[s], F, Tail(T), count[s], TRUE)
      BY <1>1, <2>2, <3>2, AlignedWhenTaken
    <3>4. Aligned(pending[s], G, Tail(T), count[s], core'[s].up)
      BY <1>1, <1>3, <3>1, <3>3, AlignedWhenQueued
    <3> QED
      BY <1>1, <1>2, <1>7, <3>4 DEF InStepAt, Greeting, F, G, T
  <2> QED
    BY <2>1, <2>3, <2>4
<1>8. CASE phase[s] \notin {"new", "hello", "granted", "open"}
  BY <1>1, <1>2, <1>8 DEF InStepAt
<1> QED
  BY <1>5, <1>6, <1>7, <1>8

\* A step of one connection leaves the session of another alone.
LEMMA ElsewhereStays ==
  ASSUME Sound, NEW c \in Conns, Talks(c), NEW s \in Sockets, s # c
  PROVE  /\ phase'[s] = phase[s] /\ pending'[s] = pending[s]
         /\ pump'[s] = pump[s] /\ count'[s] = count[s]
         /\ core'[s] = core[s] /\ toCore'[s] = toCore[s]
         /\ fromCore'[s] = fromCore[s] /\ shown'[s] = shown[s]
<1>1. PICK m : Moves(c, m)
  BY TalksMoves DEF Sound
<1>2. core'[s] = core[s] /\ toCore'[s] = toCore[s] /\ fromCore'[s] = fromCore[s]
  BY <1>1, MovesDo, ConnsAre DEF Moves, Sound, Shape
<1>3. phase \in [Conns -> Phases] /\ pump \in [Sockets -> Pumps]
      /\ pending \in [Sockets -> Seq(Rows)] /\ count \in [Conns -> Nat]
      /\ shown \in [Sockets -> SUBSET Texts]
      /\ s \in Conns
  BY ConnsAre DEF Sound, Shape, SessionShape, PendingShape
<1>4. CASE Refused(c) \/ (c \in Requests /\ Request(c)) \/ c \in Peers
  BY <1>2, <1>3, <1>4, ConnsAre
     DEF Talks, Refused, Request, AskStats, AnswerRequest, PeerOpen, PeerSends,
         PeerReads, Goto, gatewayVars
<1>5. CASE c \in Sockets /\ (Granted(c) \/ Accept(c) \/ Finish(c))
  BY <1>2, <1>3, <1>5 DEF Granted, Accept, Finish, Goto
<1>6. CASE c \in Sockets /\ (CoreGone(c) \/ WsGone(c) \/ Leave(c))
  BY <1>2, <1>3, <1>6 DEF CoreGone, WsGone, Leave
<1>7. CASE c \in Sockets /\ CoreToWs(c)
  BY <1>2, <1>3, <1>7 DEF CoreToWs
<1>8. CASE c \in Sockets /\ WsToCore(c)
  BY <1>2, <1>3, <1>8 DEF WsToCore
<1> QED
  BY <1>4, <1>5, <1>6, <1>7, <1>8 DEF Talks, Session

LEMMA HangupDoes ==
  ASSUME Sound, NEW s \in Sockets, Hangup(s)
  PROVE  /\ UNCHANGED core /\ fromCore'[s] = <<>>
         /\ \A i \in DOMAIN toCore'[s] :
              \/ i \in DOMAIN toCore[s] /\ toCore'[s][i] = toCore[s][i]
              \/ toCore'[s][i].op = "quit"
<1>1. /\ toCore'[s] = Append(toCore[s], Ask("quit", None, None))
      /\ fromCore'[s] = <<>> /\ UNCHANGED core
  BY SessionParts DEF Hangup
<1>2. toCore[s] \in Seq(Asks) /\ Ask("quit", None, None) \in Asks
  BY SessionParts, QuitIsAsk DEF AsksOf
<1>3. \A i \in DOMAIN Append(toCore[s], Ask("quit", None, None)) :
        \/ /\ i \in DOMAIN toCore[s]
           /\ Append(toCore[s], Ask("quit", None, None))[i] = toCore[s][i]
        \/ Append(toCore[s], Ask("quit", None, None))[i] = Ask("quit", None, None)
  BY <1>2, AppendDoes
<1> QED
  BY <1>1, <1>3 DEF Ask

LEMMA GreetingKeepsInStep ==
  ASSUME Sound, NEW s \in Sockets, InStepAt(s),
         Refused(s) \/ Granted(s) \/ Accept(s)
  PROVE  InStepAt(s)'
<1> USE SessionParts
<1>1. CASE Refused(s)
  <2>1. /\ phase[s] = "hello" /\ phase'[s] = "refused" /\ Hangup(s)
        /\ UNCHANGED <<pump, pending>>
    BY <1>1 DEF Refused, Goto
  <2> QED
    BY <2>1, HangupDoes DEF InStepAt, Greeting
<1>2. CASE Granted(s)
  <2>1. /\ phase[s] = "hello" /\ phase'[s] = "granted"
        /\ fromCore[s] # <<>> /\ Head(fromCore[s]).type = "ok"
        /\ fromCore'[s] = Tail(fromCore[s])
        /\ UNCHANGED <<toCore, pump, pending>>
    BY <1>2 DEF Granted, Welcome, Read, Goto
  <2>2. /\ Head(fromCore[s]) = fromCore[s][1] /\ 1 \in DOMAIN fromCore[s]
        /\ \A i \in DOMAIN Tail(fromCore[s]) :
             /\ i + 1 \in DOMAIN fromCore[s] /\ i + 1 # 1
             /\ Tail(fromCore[s])[i] = fromCore[s][i + 1]
    <3>1. /\ DOMAIN Tail(fromCore[s]) = 1 .. Len(fromCore[s]) - 1
          /\ \A i \in DOMAIN Tail(fromCore[s]) :
               /\ i + 1 \in DOMAIN fromCore[s]
               /\ Tail(fromCore[s])[i] = fromCore[s][i + 1]
      BY <2>1, TailDoes
    <3>2. Head(fromCore[s]) = fromCore[s][1] /\ 1 \in DOMAIN fromCore[s]
      BY <2>1, HeadTailProperties
    <3>3. Len(fromCore[s]) \in Nat
      OBVIOUS
    <3> QED
      BY <3>1, <3>2, <3>3
  <2>3. toCore[s] = <<>>
    BY <2>1 DEF Sound, Shape, Named, NamedAt
  <2> QED
    BY <2>1, <2>2, <2>3 DEF InStepAt, Greeting, IsAnswer
<1>3. CASE Accept(s)
  <2>1. phase[s] = "granted" /\ pending' = pending /\ count' = count
    BY <1>3 DEF Accept
  <2>2. /\ toCore[s] = <<>> /\ pending[s] = <<>>
        /\ \A i \in DOMAIN fromCore[s] : ~IsAnswer(fromCore[s][i])
    BY <2>1 DEF InStepAt
  <2>3. CASE phase'[s] = "open" /\ UNCHANGED coreVars
    <3>1. Aligned(<<>>, fromCore[s], <<>>, count[s], core[s].up)
      BY <2>2 DEF Aligned
    <3> QED
      BY <2>1, <2>2, <2>3, <3>1 DEF InStepAt, Greeting, coreVars
  <2>4. CASE phase'[s] \in {"lost", "leaked"} /\ (Hangup(s) \/ UNCHANGED coreVars)
    <3>1. \A i \in DOMAIN toCore[s] : FALSE
      BY <2>2
    <3>2. \A i \in DOMAIN toCore'[s] : toCore'[s][i].op # "stats"
      <4>1. CASE Hangup(s)
        BY <3>1, <4>1, HangupDoes
      <4>2. CASE UNCHANGED coreVars
        BY <3>1, <4>2 DEF coreVars
      <4> QED
        BY <2>4, <4>1, <4>2
    <3> QED
      BY <2>4, <3>2 DEF InStepAt, Greeting
  <2> QED
    BY <1>3, <2>3, <2>4 DEF Accept, Goto
<1> QED
  BY <1>1, <1>2, <1>3

LEMMA QuietKeepsInStep ==
  ASSUME Sound, NEW s \in Sockets, InStepAt(s),
         CoreGone(s) \/ WsGone(s) \/ Finish(s) \/ Leave(s)
  PROVE  InStepAt(s)'
<1> USE SessionParts
<1>1. CASE Finish(s)
  <2>1. phase'[s] = "over" /\ Hangup(s)
    BY <1>1 DEF Finish, Goto
  <2> QED
    BY <2>1, HangupDoes DEF InStepAt, Greeting
<1>2. CASE CoreGone(s) \/ WsGone(s) \/ Leave(s)
  <2>1. UNCHANGED <<coreVars, phase, pending, count>>
    BY <1>2 DEF CoreGone, WsGone, Leave
  <2>2. pump[s].ws = "off" => pump'[s].ws = "off"
    BY <1>2 DEF CoreGone, WsGone, Leave, Pumps
  <2> QED
    BY <2>1, <2>2 DEF InStepAt, coreVars
<1> QED
  BY <1>1, <1>2

LEMMA CoreToWsKeepsInStep ==
  ASSUME Sound, NEW s \in Sockets, InStepAt(s), CoreToWs(s)
  PROVE  /\ InStepAt(s)'
         /\ IsAnswer(Head(fromCore[s])) =>
              /\ pending[s] # <<>>
              /\ Head(pending[s]).text = Head(fromCore[s]).text
<1> DEFINE F == fromCore[s]
           P == pending[s]
<1>1. /\ phase[s] = "open" /\ F # <<>>
      /\ F \in Seq(Frames) /\ P \in Seq(Rows)
      /\ fromCore'[s] = Tail(F) /\ Head(F) = F[1]
      /\ pending'[s] = IF IsAnswer(F[1]) /\ P # <<>> THEN Tail(P) ELSE P
      /\ UNCHANGED <<core, toCore, phase, count>>
  <2>1. /\ phase[s] = "open" /\ F # <<>>
        /\ fromCore'[s] = Tail(F)
        /\ pending'[s] = IF Settles(Head(F)) /\ P # <<>> THEN Tail(P) ELSE P
        /\ UNCHANGED <<core, toCore, phase, count>>
    BY SessionParts DEF CoreToWs, Read
  <2>2. Head(F) = F[1] /\ F \in Seq(Frames) /\ P \in Seq(Rows)
    BY <2>1, SessionParts, HeadTailProperties
  <2> QED
    BY <2>1, <2>2 DEF Settles, IsAnswer
<1>2. Aligned(P, F, toCore[s], count[s], core[s].up)
  BY <1>1 DEF InStepAt
<1> HIDE DEF F, P
<1>3. CASE IsAnswer(F[1])
  <2>1. /\ P # <<>> /\ P[1].text = F[1].text
        /\ Aligned(Tail(P), Tail(F), toCore[s], count[s], core[s].up)
    BY <1>1, <1>2, <1>3, AlignedWhenSettled
  <2>2. Head(P) = P[1]
    BY <1>1, <2>1, HeadTailProperties
  <2> QED
    BY <1>1, <1>3, <2>1, <2>2 DEF InStepAt, Greeting, F, P
<1>4. CASE ~IsAnswer(F[1])
  <2>1. Aligned(P, Tail(F), toCore[s], count[s], core[s].up)
    BY <1>1, <1>2, <1>4, AlignedWhenRead
  <2> QED
    BY <1>1, <1>4, <2>1 DEF InStepAt, Greeting, F, P
<1> QED
  BY <1>3, <1>4

LEMMA WsToCoreKeepsInStep ==
  ASSUME Sound, NEW s \in Sockets, InStepAt(s), WsToCore(s)
  PROVE  InStepAt(s)'
<1> DEFINE P == pending[s]
           T == toCore[s]
           n == count[s]
<1>1. PICK m \in Sendable(s) :
        /\ pending' = [pending EXCEPT ![s] =
             IF m.op # "dm" THEN @
             ELSE Append(@, [text |-> m.text, from |-> UserOf[s],
                             to |-> m.arg])]
        /\ \/ phase[s] = "open" /\ Write(s, m)
           \/ /\ ~core[s].up \/ phase[s] = "over"
              /\ UNCHANGED <<core, toCore, accepted>>
  BY DEF WsToCore
<1>2. /\ UNCHANGED <<fromCore, phase, core>> /\ count'[s] = n + 1
      /\ pump[s].ws = "run"
      /\ T \in Seq(Asks) /\ P \in Seq(Rows) /\ n \in Nat
  BY <1>1, SessionParts DEF WsToCore, Write
<1>3. /\ m \in AsksOf(s) /\ m \in Asks /\ m.op \notin {"hello", "stats"}
      /\ m.op = "dm" => m.text = Text(s)
  BY <1>2, ConnsAre, SendableAreAsks DEF AsksOf
<1>4. phase[s] \notin Greeting \cup {"granted"}
  BY <1>2 DEF InStepAt
<1>5. toCore'[s] \in {T, Append(T, m)}
  BY <1>1, SessionParts DEF Write
<1>6. \A i \in DOMAIN toCore'[s] : toCore'[s][i].op # "stats"
  <2>1. \A i \in DOMAIN Append(T, m) :
          (i \in DOMAIN T /\ Append(T, m)[i] = T[i]) \/ Append(T, m)[i] = m
    BY <1>2, <1>3, AppendDoes
  <2> QED
    BY <1>3, <1>5, <2>1 DEF InStepAt
<1>7. CASE phase[s] = "open"
  <2> DEFINE p == [text |-> m.text, from |-> UserOf[s], to |-> m.arg]
  <2>1. Aligned(P, fromCore[s], T, n, core[s].up)
    BY <1>7 DEF InStepAt
  <2>2. /\ pending'[s] = IF m.op # "dm" THEN P ELSE Append(P, p)
        /\ toCore'[s] = Append(T, m) \/ (~core[s].up /\ toCore'[s] = T)
    BY <1>1, <1>7, SessionParts DEF Write
  <2>3. m.op = "dm" => p \in Rows /\ p.text = m.text /\ p.text[2] = n + 1
    <3>1. m.op = "dm" => m.text \in Texts /\ m.arg \in Users
      BY <1>3 DEF AsksOf
    <3> QED
      BY <1>3, <3>1, ConnsAre DEF Rows, Text
  <2>4. core[s].up \in BOOLEAN
    BY ConnsAre DEF Sound, Shape, CoreShape, Known
  <2> HIDE DEF P, T, n, p
  <2>5. CASE m.op = "dm"
    <3>1. Aligned(Append(P, p), fromCore[s], Append(T, m), n + 1, core[s].up)
      BY <1>2, <1>3, <2>1, <2>3, <2>5, AlignedWhenSent
    <3>2. ~core[s].up => Aligned(Append(P, p), fromCore[s], T, n + 1, core[s].up)
      BY <1>2, <1>3, <2>1, <2>3, <2>4, <2>5, AlignedWhenSent
    <3> QED
      BY <1>2, <1>4, <1>6, <1>7, <2>2, <2>5, <3>1, <3>2 DEF InStepAt, Greeting
  <2>6. CASE m.op # "dm"
    <3>1. /\ Aligned(P, fromCore[s], Append(T, m), n + 1, core[s].up)
          /\ Aligned(P, fromCore[s], T, n + 1, core[s].up)
      BY <1>2, <1>3, <2>1, <2>6, AlignedWhenCounted
    <3> QED
      BY <1>2, <1>4, <1>6, <1>7, <2>2, <2>6, <3>1 DEF InStepAt, Greeting
  <2> QED
    BY <2>5, <2>6
<1>8. CASE phase[s] # "open"
  BY <1>2, <1>4, <1>6, <1>8 DEF InStepAt, Greeting
<1> QED
  BY <1>7, <1>8

LEMMA NextInStep ==
  ASSUME Commands \subseteq {"dm", "join", "quit"}, Sound, InStep, NoOverflow,
         [Next]_vars
  PROVE  InStep'
<1> SUFFICES ASSUME NEW s \in Sockets
             PROVE  InStepAt(s)'
  BY DEF InStep
<1>1. InStepAt(s)
  BY DEF InStep
<1>2. ASSUME NEW c \in Conns, Core(c)
      PROVE  InStepAt(s)'
  <2>1. CoreStep(c) /\ Handles(c) /\ UNCHANGED gatewayVars
    BY <1>2, CoreHandles DEF Core, Sound, Shape
  <2> QED
    BY <1>1, <2>1, OthersKeepInStep, OwnRequestKeepsInStep
<1>3. ASSUME NEW c \in Conns, Talks(c)
      PROVE  InStepAt(s)'
  <2>1. CASE c # s
    BY <1>1, <1>3, <2>1, ElsewhereStays DEF InStepAt
  <2>2. CASE c = s
    <3>1. \/ Refused(s) \/ Granted(s) \/ Accept(s)
          \/ CoreGone(s) \/ WsGone(s) \/ Finish(s) \/ Leave(s)
          \/ CoreToWs(s) \/ WsToCore(s)
      BY <1>3, <2>2, ConnsAre DEF Talks, Session
    <3> QED
      BY <1>1, <3>1, GreetingKeepsInStep, QuietKeepsInStep, CoreToWsKeepsInStep,
         WsToCoreKeepsInStep
  <2> QED
    BY <2>1, <2>2
<1>4. ASSUME NEW c \in Conns, Dial(c)
      PROVE  InStepAt(s)'
  <2>1. /\ phase[c] = "new" /\ phase' = [phase EXCEPT ![c] = "hello"]
        /\ toCore' = [toCore EXCEPT ![c] = <<Ask("hello", UserOf[c], None)>>]
        /\ core' = [core EXCEPT ![c].up = TRUE]
        /\ UNCHANGED <<fromCore, pump, pending, count>>
    BY <1>4 DEF Dial, Goto
  <2>2. CASE c # s
    <3>1. /\ phase'[s] = phase[s] /\ toCore'[s] = toCore[s] /\ core'[s] = core[s]
          /\ UNCHANGED <<fromCore, pump, pending, count>>
      BY <2>1, <2>2, SessionParts
    <3> QED
      BY <1>1, <3>1 DEF InStepAt
  <2>3. CASE c = s
    <3>1. /\ phase'[s] = "hello"
          /\ toCore'[s] = <<Ask("hello", UserOf[s], None)>>
          /\ fromCore[s] = <<>>
      BY <2>1, <2>3, SessionParts DEF Sound, Shape, Named, NamedAt
    <3>2. \A i \in DOMAIN toCore'[s] : toCore'[s][i].op # "stats"
      BY <3>1 DEF Ask
    <3>3. \A i \in DOMAIN fromCore'[s] : FALSE
      BY <2>1, <3>1
    <3>4. pending'[s] = <<>> /\ pump'[s].ws = "off"
      BY <1>1, <2>1, <2>3 DEF InStepAt, Greeting
    <3> QED
      BY <3>1, <3>2, <3>3, <3>4 DEF InStepAt
  <2> QED
    BY <2>2, <2>3
<1>5. CASE UNCHANGED vars
  BY <1>1, <1>5 DEF vars, coreVars, gatewayVars, InStepAt
<1> QED
  BY <1>2, <1>3, <1>4, <1>5, NextIs

LEMMA InitInStep == Init => InStep
BY ConnsAre DEF Init, CoreInit, InStep, InStepAt, Greeting

\* pending_dms stays in step with the answers, however many sessions, peers
\* and messages there are: where nothing but a direct message is ever refused,
\* and no reader is so slow that its queue is full.
THEOREM PendingStaysInStep ==
  ASSUME Commands \subseteq {"dm", "join", "quit"}
  PROVE  Spec /\ []NoOverflow => []PendingInStep
<1>1. Sound /\ InStep => PendingInStep
  <2> SUFFICES ASSUME Sound, InStep
               PROVE  PendingInStep
    OBVIOUS
  <2> SUFFICES ASSUME NEW s \in Sockets, phase[s] = "open", core[s].up
               PROVE  LET F == fromCore[s]
                          T == toCore[s]
                          P == pending[s]
                          answer == {i \in DOMAIN F :
                                       \/ F[i].type = "sent"
                                       \/ F[i].type = "error" /\ F[i].text # None}
                          asked == {i \in DOMAIN T : T[i].op = "dm"}
                      IN  /\ {P[i].text : i \in DOMAIN P}
                               = {F[i].text : i \in answer}
                                   \cup {T[i].text : i \in asked}
                          /\ \A i, j \in DOMAIN P :
                               i < j => Before(P[i].text, P[j].text)
                          /\ \A i, j \in answer :
                               i < j => Before(F[i].text, F[j].text)
                          /\ \A i, j \in asked :
                               i < j => Before(T[i].text, T[j].text)
                          /\ \A i \in answer, j \in asked :
                               Before(F[i].text, T[j].text)
    BY DEF PendingInStep
  <2> DEFINE F == fromCore[s]
             T == toCore[s]
             P == pending[s]
             answer == {i \in DOMAIN F : \/ F[i].type = "sent"
                                         \/ F[i].type = "error" /\ F[i].text # None}
             asked == {i \in DOMAIN T : T[i].op = "dm"}
  <2>1. Aligned(P, F, T, count[s], TRUE)
    BY DEF InStep, InStepAt
  <2>2. \A i \in DOMAIN P : P[i].text \in Texts /\ P[i].text[1] = s
    <3>1. P \in Seq(Rows) /\ \A i \in DOMAIN P : P[i].text[1] = s
      BY SessionParts DEF Sound, Shape, SessionShape, PendingShape
    <3>2. \A row \in Rows : row.text \in Texts
      BY DEF Rows
    <3> QED
      BY <3>1, <3>2, RowsAreNumbered
  <2>3. \A i \in asked : T[i].text[1] = s
    BY ConnsAre DEF Sound, Shape, CoreShape, AsksOf
  <2>4. \A i, j \in asked : i < j => T[i].text[2] < T[j].text[2]
    BY ConnsAre DEF Sound, Ordered, OrderedAt, HasText
  <2> HIDE DEF F, T, P
  <2>5. \A i \in DOMAIN F : IsAnswer(F[i]) =>
          F[i].text[1] = s /\ F[i].text # None
    <3>1. \A i \in DOMAIN F : IsAnswer(F[i]) => \E k \in DOMAIN P : P[k].text = F[i].text
      BY <2>1 DEF Aligned
    <3> QED
      BY <2>2, <3>1, CoreAssumption DEF CoreAssumption, Texts
  <2>6. answer = {i \in DOMAIN F : IsAnswer(F[i])}
    BY <2>5 DEF IsAnswer
  <2>7. {P[i].text : i \in DOMAIN P}
          = {F[i].text : i \in answer} \cup {T[i].text : i \in asked}
    BY <2>1, <2>6 DEF Aligned
  <2>8. \A i, j \in DOMAIN P : i < j => Before(P[i].text, P[j].text)
    BY <2>1, <2>2 DEF Aligned, Before
  <2>9. \A i, j \in answer : i < j => Before(F[i].text, F[j].text)
    BY <2>1, <2>5, <2>6 DEF Aligned, Before
  <2>10. \A i, j \in asked : i < j => Before(T[i].text, T[j].text)
    BY <2>3, <2>4 DEF Before
  <2>11. \A i \in answer, j \in asked : Before(F[i].text, T[j].text)
    BY <2>1, <2>3, <2>5, <2>6 DEF Aligned, Before
  <2> QED
    BY <2>7, <2>8, <2>9, <2>10, <2>11 DEF F, T, P
<1> QED
  BY <1>1, InitInStep, NextInStep, SoundHolds, PTL DEF Spec

-----------------------------------------------------------------------------
(* What the browser is told is saved.                                      *)

\* Frames are of the kinds that the commands can cause.
Spoken ==
  \A d \in Conns : \A i \in DOMAIN fromCore[d] :
    /\ fromCore[d][i].type = "sent" => "dm" \in Commands
    /\ fromCore[d][i].type = "chat" => "say" \in Commands

LEMMA NextSpoken ==
  ASSUME Sound, Spoken, [Next]_vars
  PROVE  Spoken'
<1>1. ASSUME NEW c \in Conns, Core(c)
      PROVE  Spoken'
  <2> DEFINE m == Head(toCore[c])
  <2>1. Handles(c)
    BY <1>1, CoreHandles DEF Core, Sound, Shape
  <2>2. m \in AsksOf(c)
    BY <2>1, RequestsStay DEF Sound
  <2>3. ASSUME NEW d \in Conns, NEW i \in DOMAIN fromCore'[d]
        PROVE  /\ fromCore'[d][i].type = "sent" => "dm" \in Commands
               /\ fromCore'[d][i].type = "chat" => "say" \in Commands
    <3>1. fromCore[d] \in Seq(Frames) /\ fromCore'[d] \in Seq(Frames)
      BY <2>1 DEF Handles, Sound, Shape, CoreShape
    <3>2. IF i <= Len(fromCore[d]) THEN fromCore'[d][i] = fromCore[d][i]
          ELSE Fresh(m, c, d, fromCore'[d][i])
      BY <2>1 DEF Handles
    <3>3. CASE i <= Len(fromCore[d])
      <4>1. i \in DOMAIN fromCore[d]
        BY <3>1, <3>3
      <4> QED
        BY <3>2, <3>3, <4>1 DEF Spoken
    <3>4. CASE Fresh(m, c, d, fromCore'[d][i])
      <4> DEFINE f == fromCore'[d][i]
      <4>1. /\ f.type = "sent" => m.op = "dm"
            /\ f.type = "chat" => m.op = "say"
        <5> HIDE DEF m
        <5> QED
          BY <3>4 DEF Fresh, Tell, Plain
      <4> QED
        BY <2>2, <4>1 DEF AsksOf
    <3> QED
      BY <3>2, <3>3, <3>4
  <2> QED
    BY <2>3 DEF Spoken
<1>2. ASSUME NEW c \in Conns, Talks(c)
      PROVE  Spoken'
  <2>1. PICK m : Moves(c, m)
    BY <1>2, TalksMoves DEF Sound
  <2>2. /\ \A d \in Conns \ {c} : fromCore'[d] = fromCore[d]
        /\ \E k \in {0, 1} : \A i \in DOMAIN fromCore'[c] :
             i + k \in DOMAIN fromCore[c] /\ fromCore'[c][i] = fromCore[c][i + k]
    BY <2>1, MovesDo DEF Sound, Shape
  <2>3. \A d \in Conns : \A i \in DOMAIN fromCore'[d] :
          \E l \in DOMAIN fromCore[d] : fromCore'[d][i] = fromCore[d][l]
    BY <2>2
  <2> QED
    BY <2>3 DEF Spoken
<1>3. ASSUME NEW c \in Conns, Dial(c)
      PROVE  Spoken'
  BY <1>3 DEF Dial, Spoken
<1>4. CASE UNCHANGED vars
  BY <1>4 DEF vars, coreVars, gatewayVars, Spoken
<1> QED
  BY <1>1, <1>2, <1>3, <1>4, NextIs

LEMMA InitSpoken == Init => Spoken
BY DEF Init, CoreInit, Spoken

LEMMA SpokenHolds == Spec => []Spoken
BY InitSpoken, NextSpoken, SoundHolds, PTL DEF Spec

Confirmed ==
  \A s \in Sockets : \A t \in shown[s] : \E i \in DOMAIN rows : rows[i].text = t

\* The row that a frame makes the session write.
Writes(s, f, row) ==
  \/ f.type = "chat" /\ f.who = UserOf[s] /\ row = Row(f, f.at)
  \/ f.type = "dm" /\ active[f.who] = 0 /\ row = Row(f, UserOf[s])
  \/ f.type = "sent" /\ pending[s] # <<>> /\ row = Head(pending[s])

\* The table of messages, with row at its end.
Grown(row) ==
  /\ rows' = Append(rows, row)
  /\ \A i \in DOMAIN rows' :
       \/ i \in DOMAIN rows /\ rows'[i] = rows[i]
       \/ i = Len(rows) + 1 /\ rows'[i] = row
  /\ Len(rows) + 1 \in DOMAIN rows' /\ rows'[Len(rows) + 1] = row
  /\ Len(rows) + 1 \notin DOMAIN rows

LEMMA AppendGrows ==
  ASSUME rows \in Seq(Rows), NEW row \in Rows, rows' = rows \o <<row>>
  PROVE  Grown(row) /\ \A i \in DOMAIN rows : i \in DOMAIN rows' /\ rows'[i] = rows[i]
<1>1. rows' = Append(rows, row)
  BY AppendIsConcat
<1>2. /\ DOMAIN rows' = 1 .. Len(rows) + 1
      /\ Len(rows) \in Nat /\ DOMAIN rows = 1 .. Len(rows)
      /\ \A i \in DOMAIN rows' :
           \/ i \in DOMAIN rows /\ rows'[i] = rows[i]
           \/ i = Len(rows) + 1 /\ rows'[i] = row
  BY <1>1, AppendDoes
<1>3. (\A i \in 1 .. Len(rows) : rows'[i] = rows[i]) /\ rows'[Len(rows) + 1] = row
  BY <1>1, AppendProperties
<1>4. \A i \in DOMAIN rows : i \in DOMAIN rows' /\ rows'[i] = rows[i]
  BY <1>2, <1>3
<1>5. Len(rows) + 1 \in DOMAIN rows' /\ Len(rows) + 1 \notin DOMAIN rows
  BY <1>2
<1> QED
  BY <1>1, <1>2, <1>3, <1>4, <1>5 DEF Grown

LEMMA CoreToWsSaves ==
  ASSUME Sound, NEW s \in Sockets, CoreToWs(s)
  PROVE  LET f == Head(fromCore[s])
         IN  /\ fromCore[s] # <<>> /\ f = fromCore[s][1] /\ f \in Frames
             /\ 1 \in DOMAIN fromCore[s]
             /\ \/ Saves(s, f) = <<>> /\ rows' = rows
                \/ \E row \in Rows :
                     /\ Saves(s, f) = <<row>>
                     /\ Grown(row) /\ Writes(s, f, row)
             /\ \A i \in DOMAIN rows : i \in DOMAIN rows' /\ rows'[i] = rows[i]
<1> DEFINE f == Head(fromCore[s])
<1>1. /\ fromCore[s] # <<>> /\ fromCore[s] \in Seq(Frames) /\ rows \in Seq(Rows)
      /\ rows' = rows \o Saves(s, f) /\ Shape
  BY SessionParts DEF CoreToWs, Read, Sound, Shape, SessionShape
<1>2. f = fromCore[s][1] /\ f \in Frames /\ 1 \in DOMAIN fromCore[s]
  BY <1>1, HeadTailProperties
<1>3. rows \o <<>> = rows
  BY <1>1, ConcatEmptySeq
<1> HIDE DEF f
<1>4. \/ Saves(s, f) = <<>>
      \/ \E row \in Rows : Saves(s, f) = <<row>> /\ Writes(s, f, row)
  BY <1>1, <1>2, SavesOne DEF Writes
<1>5. CASE Saves(s, f) = <<>>
  BY <1>1, <1>2, <1>3, <1>5 DEF f
<1>6. ASSUME NEW row \in Rows, Saves(s, f) = <<row>>, Writes(s, f, row)
      PROVE  /\ Grown(row)
             /\ \A i \in DOMAIN rows : i \in DOMAIN rows' /\ rows'[i] = rows[i]
  <2>1. rows' = rows \o <<row>>
    BY <1>1, <1>6
  <2> QED
    BY <1>1, <2>1, AppendGrows
<1> QED
  BY <1>1, <1>2, <1>4, <1>5, <1>6 DEF f

\* A session that is shown a text saves it, if it takes the answer for the one
\* to the text.
LEMMA CoreToWsConfirms ==
  ASSUME Sound, Confirmed, "nick" \notin Commands, NEW s \in Sockets,
         CoreToWs(s),
         Head(fromCore[s]).type = "sent" =>
           /\ pending[s] # <<>>
           /\ Head(pending[s]).text = Head(fromCore[s]).text
  PROVE  Confirmed'
<1> DEFINE f == Head(fromCore[s])
<1>1. /\ f = fromCore[s][1] /\ f \in Frames /\ 1 \in DOMAIN fromCore[s]
      /\ \/ Saves(s, f) = <<>> /\ rows' = rows
         \/ \E row \in Rows : Saves(s, f) = <<row>> /\ Grown(row)
      /\ \A i \in DOMAIN rows : i \in DOMAIN rows' /\ rows'[i] = rows[i]
  BY CoreToWsSaves
<1>2. ASSUME NEW d \in Sockets, NEW t \in shown'[d]
      PROVE  \/ t \in shown[d]
             \/ /\ d = s /\ t = f.text /\ f.text[1] = s
                /\ f.type \in {"sent", "chat"}
  <2>1. shown \in [Sockets -> SUBSET Texts]
    BY DEF Sound, Shape, SessionShape
  <2>2. \/ shown' = shown
        \/ shown' = [shown EXCEPT ![s] =
             IF f.type \in {"sent", "chat"} /\ f.text[1] = s
             THEN @ \cup {f.text} ELSE @]
    BY DEF CoreToWs
  <2> HIDE DEF f
  <2>3. CASE shown' = shown
    BY <1>2, <2>3
  <2>4. CASE shown' = [shown EXCEPT ![s] =
               IF f.type \in {"sent", "chat"} /\ f.text[1] = s
               THEN @ \cup {f.text} ELSE @]
    BY <1>2, <2>1, <2>4
  <2> QED
    BY <2>2, <2>3, <2>4
<1>3. f.type \in {"sent", "chat"} /\ f.text[1] = s =>
        \E x : Saves(s, f) = <<x>> /\ x.text = f.text
  <2>1. f.type = "chat" /\ f.text[1] = s => f.who = UserOf[s]
    <3>1. WhoseAt(s)
      BY ConnsAre DEF Sound, Whose
    <3> QED
      BY <1>1, <3>1 DEF WhoseAt, IsText
  <2>2. f.type = "sent" => pending[s] # <<>> /\ Head(pending[s]).text = f.text
    OBVIOUS
  <2> HIDE DEF f
  <2>3. CASE f.type = "chat" /\ f.text[1] = s
    <3>1. Saves(s, f) = <<Row(f, f.at)>> /\ Row(f, f.at).text = f.text
      BY <2>1, <2>3 DEF Saves, Row
    <3> QED
      BY <3>1
  <2>4. CASE f.type = "sent"
    <3>1. Saves(s, f) = <<Head(pending[s])>>
      BY <2>2, <2>4 DEF Saves
    <3> QED
      BY <2>2, <2>4, <3>1
  <2> QED
    BY <2>3, <2>4
<1> HIDE DEF f
<1>4. f.type \in {"sent", "chat"} /\ f.text[1] = s =>
        \E i \in DOMAIN rows' : rows'[i].text = f.text
  <2> SUFFICES ASSUME f.type \in {"sent", "chat"}, f.text[1] = s
               PROVE  \E i \in DOMAIN rows' : rows'[i].text = f.text
    OBVIOUS
  <2>1. PICK x : Saves(s, f) = <<x>> /\ x.text = f.text
    BY <1>3
  <2>2. PICK row \in Rows : Saves(s, f) = <<row>> /\ Grown(row)
    BY <1>1, <2>1
  <2>3. row = x
    BY <2>1, <2>2
  <2> QED
    BY <2>1, <2>2, <2>3 DEF Grown
<1>5. \A d \in Sockets : \A t \in shown[d] :
        \E i \in DOMAIN rows' : rows'[i].text = t
  BY <1>1 DEF Confirmed
<1> QED
  BY <1>2, <1>4, <1>5 DEF Confirmed

LEMMA NextConfirmed ==
  ASSUME Sound, Confirmed, "nick" \notin Commands, [Next]_vars,
         \A s \in Sockets : CoreToWs(s) /\ Head(fromCore[s]).type = "sent" =>
           /\ pending[s] # <<>>
           /\ Head(pending[s]).text = Head(fromCore[s]).text
  PROVE  Confirmed'
<1>1. ASSUME NEW c \in Conns, Core(c) \/ Dial(c)
      PROVE  Confirmed'
  BY <1>1 DEF Core, Dial, gatewayVars, Confirmed
<1>2. ASSUME NEW c \in Conns, Talks(c)
      PROVE  Confirmed'
  <2>1. CASE c \in Sockets /\ CoreToWs(c)
    BY <2>1, CoreToWsConfirms
  <2>2. CASE ~(c \in Sockets /\ CoreToWs(c))
    <3>1. rows' = rows
      BY <1>2, <2>2, RowsStay
    <3>2. shown' = shown
      BY <1>2, <2>2
         DEF Talks, Session, Request, Refused, Granted, Accept, CoreGone, WsGone,
             Finish, WsToCore, Leave, AskStats, AnswerRequest, PeerOpen,
             PeerSends, PeerReads, gatewayVars
    <3> QED
      BY <3>1, <3>2 DEF Confirmed
  <2> QED
    BY <2>1, <2>2
<1>3. CASE UNCHANGED vars
  BY <1>3 DEF vars, coreVars, gatewayVars, Confirmed
<1> QED
  BY <1>1, <1>2, <1>3, NextIs

LEMMA ConfirmedMeansSaved == Confirmed => ConfirmedIsSaved
<1> SUFFICES ASSUME Confirmed, NEW s \in Sockets, NEW t \in shown[s]
             PROVE  Saved(t) # {}
  BY DEF ConfirmedIsSaved
<1> QED
  BY DEF Confirmed, Saved

LEMMA InitConfirmed == Init => Confirmed
BY DEF Init, Confirmed

\* A chat that its sender sees is saved, whatever is refused and whoever
\* overflows: where there are no direct messages and no one changes a name.
THEOREM ConfirmedChatsAreSaved ==
  ASSUME Commands \cap {"dm", "nick"} = {}
  PROVE  Spec => []ConfirmedIsSaved
<1>1. Sound /\ Spoken /\ Confirmed /\ [Next]_vars => Confirmed'
  <2> SUFFICES ASSUME Sound, Spoken, Confirmed, [Next]_vars
               PROVE  Confirmed'
    OBVIOUS
  <2>1. ASSUME NEW s \in Sockets, CoreToWs(s)
        PROVE  Head(fromCore[s]).type # "sent"
    BY <2>1, CoreToWsSaves, ConnsAre DEF Spoken
  <2> QED
    BY <2>1, NextConfirmed
<1> QED
  BY <1>1, InitConfirmed, ConfirmedMeansSaved, SoundHolds, SpokenHolds, PTL
     DEF Spec

\* When the browser is told "direct message sent", the message is saved: where
\* nothing but a direct message is refused and no reader's queue is full.
THEOREM ConfirmedDmsAreSaved ==
  ASSUME Commands \subseteq {"dm", "join", "quit"}
  PROVE  Spec /\ []NoOverflow => []ConfirmedIsSaved
<1>1. Sound /\ InStep /\ Confirmed /\ [Next]_vars => Confirmed'
  <2> SUFFICES ASSUME Sound, InStep, Confirmed, [Next]_vars
               PROVE  Confirmed'
    OBVIOUS
  <2>1. ASSUME NEW s \in Sockets, CoreToWs(s), Head(fromCore[s]).type = "sent"
        PROVE  /\ pending[s] # <<>>
               /\ Head(pending[s]).text = Head(fromCore[s]).text
    BY <2>1, CoreToWsKeepsInStep DEF InStep, IsAnswer
  <2> QED
    BY <2>1, NextConfirmed
<1> QED
  BY <1>1, InitConfirmed, InitInStep, NextInStep, ConfirmedMeansSaved,
     SoundHolds, PTL DEF Spec

-----------------------------------------------------------------------------
(* Direct messages are saved once.                                         *)

\* A session does not end while a direct message of its is under way to
\* another session that is open.
AuthorsStay ==
  \A s \in Sockets : phase[s] = "open" =>
    \A i \in DOMAIN fromCore[s] :
      LET f == fromCore[s][i]
      IN  f.type = "dm" /\ f.text[1] \in Sockets => phase[f.text[1]] # "over"

\* Text t of session s was sent, and it is not one that s may still see as a
\* chat of its own.
Closed(s, t) ==
  /\ t[2] <= count[s]
  /\ \A j \in DOMAIN toCore[s] :
       toCore[s][j].op = "say" => toCore[s][j].text # t
  /\ \A j \in DOMAIN fromCore[s] :
       fromCore[s][j].type = "chat" => fromCore[s][j].text # t

\* The entries of pending_dms are in the order in which they were sent, and
\* none is saved.
WaitingAt(s) ==
  \A i \in DOMAIN pending[s] :
    /\ Closed(s, pending[s][i].text)
    /\ \A j \in DOMAIN rows : rows[j].text # pending[s][i].text
    /\ \A j \in DOMAIN pending[s] :
         i < j => pending[s][i].text[2] < pending[s][j].text[2]

OwnAt(s) ==
  \A i \in DOMAIN rows : rows[i].text[1] = s => Closed(s, rows[i].text)

\* What is saved of a peer has arrived, and is on its way to nobody.
HasArrived(t) ==
  /\ \E k \in DOMAIN accepted : accepted[k] = t
  /\ \A d \in Conns : \A j \in DOMAIN fromCore[d] :
       fromCore[d][j].type = "dm" => fromCore[d][j].text # t

Arrived ==
  \A i \in DOMAIN rows :
    rows[i].text[1] \notin Sockets => HasArrived(rows[i].text)

\* A direct message goes to one connection.
Addressed ==
  \A d, e \in Conns :
    \A i \in DOMAIN fromCore[d], j \in DOMAIN fromCore[e] :
      /\ fromCore[d][i].type = "dm" /\ fromCore[e][j].type = "dm"
      /\ fromCore[d][i].text = fromCore[e][j].text
      => d = e

\* A session has sent no text before it was open.
StartedAt(s) ==
  phase[s] \notin {"open", "over"} =>
    /\ pump[s].ws # "run"
    /\ \A k \in DOMAIN accepted : accepted[k][1] # s
    /\ \A i \in DOMAIN toCore[s] : ~HasText(toCore[s][i])

Distinct == \A i, j \in DOMAIN rows : rows[i].text = rows[j].text => i = j

Separate ==
  /\ \A s \in Sockets : WaitingAt(s) /\ OwnAt(s) /\ StartedAt(s)
  /\ Arrived /\ Addressed /\ Distinct

\* The frames of d that the core has not just queued are those it had.
LEMMA FramesStay ==
  ASSUME Shape, NEW c \in Conns, Handles(c), NEW d \in Conns,
         NEW i \in DOMAIN fromCore'[d]
  PROVE  \/ i \in DOMAIN fromCore[d] /\ fromCore'[d][i] = fromCore[d][i]
         \/ Fresh(Head(toCore[c]), c, d, fromCore'[d][i])
<1> DEFINE m == Head(toCore[c])
<1>1. fromCore[d] \in Seq(Frames) /\ fromCore'[d] \in Seq(Frames)
  BY DEF Handles, Shape, CoreShape
<1>2. IF i <= Len(fromCore[d]) THEN fromCore'[d][i] = fromCore[d][i]
      ELSE Fresh(m, c, d, fromCore'[d][i])
  BY DEF Handles
<1> HIDE DEF m
<1>3. CASE i <= Len(fromCore[d])
  <2>1. i \in DOMAIN fromCore[d]
    BY <1>1, <1>3
  <2> QED
    BY <1>2, <1>3, <2>1
<1>4. CASE ~(i <= Len(fromCore[d]))
  BY <1>2, <1>4 DEF m
<1> QED
  BY <1>3, <1>4

\* What was accepted stays, and a text that is now accepted is later than the
\* others of its sender.
LEMMA AcceptedGrows ==
  ASSUME Sound, NEW c \in Conns, Handles(c)
  PROVE  LET m == Head(toCore[c])
         IN  /\ \A k \in DOMAIN accepted :
                  /\ k \in DOMAIN accepted' /\ accepted'[k] = accepted[k]
                  /\ HasText(m) => accepted[k] # m.text
             /\ \A k \in DOMAIN accepted' :
                  \/ k \in DOMAIN accepted /\ accepted'[k] = accepted[k]
                  \/ HasText(m) /\ accepted'[k] = m.text
<1> DEFINE m == Head(toCore[c])
<1>1. m = toCore[c][1] /\ 1 \in DOMAIN toCore[c] /\ m \in AsksOf(c)
  BY RequestsStay DEF Sound
<1>2. HasText(m) => m.text[1] = c /\ m.text \in Texts
  BY <1>1 DEF AsksOf, HasText
<1>3. HasText(m) => \A k \in DOMAIN accepted :
                      accepted[k][1] = c => accepted[k][2] < m.text[2]
  BY <1>1 DEF Sound, Ordered, OrderedAt
<1>4. accepted \in Seq(Texts)
  BY DEF Sound, Shape, CoreShape
<1>5. \A k \in DOMAIN accepted : accepted[k][2] \in Nat
  BY <1>4 DEF Texts
<1>6. \/ accepted' = accepted
      \/ HasText(m) /\ accepted' = Append(accepted, m.text)
  BY DEF Handles, HasText
<1> HIDE DEF m
<1>7. HasText(m) => \A k \in DOMAIN accepted : accepted[k] # m.text
  BY <1>2, <1>3, <1>5
<1>8. CASE accepted' = accepted
  BY <1>7, <1>8 DEF m
<1>9. CASE HasText(m) /\ accepted' = Append(accepted, m.text)
  <2>1. \A k \in DOMAIN accepted' :
          \/ k \in DOMAIN accepted /\ accepted'[k] = accepted[k]
          \/ accepted'[k] = m.text
    BY <1>2, <1>4, <1>9, AppendDoes
  <2>2. \A k \in DOMAIN accepted :
          k \in DOMAIN accepted' /\ accepted'[k] = accepted[k]
    BY <1>2, <1>4, <1>9, AppendProperties
  <2> QED
    BY <1>7, <1>9, <2>1, <2>2 DEF m
<1> QED
  BY <1>6, <1>8, <1>9

LEMMA CoreKeepsClosed ==
  ASSUME Sound, NEW c \in Conns, Handles(c), UNCHANGED gatewayVars,
         NEW s \in Sockets, NEW t, t[1] = s, Closed(s, t)
  PROVE  Closed(s, t)'
<1> DEFINE m == Head(toCore[c])
<1>1. /\ \A d \in Conns \ {c} : toCore'[d] = toCore[d]
      /\ \A i \in DOMAIN toCore'[c] :
           i + 1 \in DOMAIN toCore[c] /\ toCore'[c][i] = toCore[c][i + 1]
      /\ m = toCore[c][1] /\ 1 \in DOMAIN toCore[c] /\ m \in AsksOf(c)
  BY RequestsStay DEF Sound
<1>2. s \in Conns
  BY ConnsAre
<1>3. count' = count
  BY DEF gatewayVars
<1>4. \A j \in DOMAIN toCore'[s] :
        \E i \in DOMAIN toCore[s] : toCore'[s][j] = toCore[s][i]
  BY <1>1, <1>2
<1>5. ASSUME NEW j \in DOMAIN fromCore'[s], fromCore'[s][j].type = "chat"
      PROVE  fromCore'[s][j].text # t
  <2>1. CASE j \in DOMAIN fromCore[s] /\ fromCore'[s][j] = fromCore[s][j]
    BY <1>5, <2>1 DEF Closed
  <2>2. CASE Fresh(m, c, s, fromCore'[s][j])
    <3>1. m.op = "say" /\ fromCore'[s][j].text = m.text
      <4> HIDE DEF m
      <4> QED
        BY <1>5, <2>2 DEF Fresh, Tell, Plain
    <3>2. m.text[1] = c
      BY <1>1, <3>1 DEF AsksOf
    <3>3. c = s => m.text # t
      BY <1>1, <3>1 DEF Closed
    <3> HIDE DEF m
    <3> QED
      BY <3>1, <3>2, <3>3
  <2> QED
    BY <1>2, <2>1, <2>2, FramesStay DEF Sound
<1> QED
  BY <1>3, <1>4, <1>5 DEF Closed

LEMMA CoreKeepsArrived ==
  ASSUME Sound, Arrived, NEW c \in Conns, Handles(c), UNCHANGED gatewayVars
  PROVE  Arrived'
<1> DEFINE m == Head(toCore[c])
<1>1. rows' = rows
  BY DEF gatewayVars
<1>2. \A k \in DOMAIN accepted :
        /\ k \in DOMAIN accepted' /\ accepted'[k] = accepted[k]
        /\ HasText(m) => accepted[k] # m.text
  BY AcceptedGrows
<1> SUFFICES ASSUME NEW i \in DOMAIN rows, rows[i].text[1] \notin Sockets
             PROVE  /\ \E k \in DOMAIN accepted' : accepted'[k] = rows[i].text
                    /\ \A d \in Conns : \A j \in DOMAIN fromCore'[d] :
                         fromCore'[d][j].type = "dm" =>
                           fromCore'[d][j].text # rows[i].text
  BY <1>1 DEF Arrived, HasArrived
<1>3. PICK k \in DOMAIN accepted : accepted[k] = rows[i].text
  BY DEF Arrived, HasArrived
<1>4. ASSUME NEW d \in Conns, NEW j \in DOMAIN fromCore'[d],
             fromCore'[d][j].type = "dm"
      PROVE  fromCore'[d][j].text # rows[i].text
  <2>1. CASE j \in DOMAIN fromCore[d] /\ fromCore'[d][j] = fromCore[d][j]
    BY <1>4, <2>1 DEF Arrived, HasArrived
  <2>2. CASE Fresh(m, c, d, fromCore'[d][j])
    <3> HIDE DEF m
    <3>1. HasText(m) /\ fromCore'[d][j].text = m.text
      BY <1>4, <2>2 DEF Fresh, Tell, Plain, HasText
    <3> QED
      BY <1>2, <1>3, <3>1
  <2> QED
    BY <2>1, <2>2, FramesStay DEF Sound
<1> QED
  BY <1>2, <1>3, <1>4

LEMMA CoreKeepsAddressed ==
  ASSUME Sound, Addressed, NEW c \in Conns, Handles(c)
  PROVE  Addressed'
<1> DEFINE m == Head(toCore[c])
           IsDm(d, i) == fromCore[d][i].type = "dm"
<1>1. \A k \in DOMAIN accepted : HasText(m) => accepted[k] # m.text
  BY AcceptedGrows
<1>2. m \in AsksOf(c)
  BY RequestsStay DEF Sound
<1>3. m.op = "dm" => m.arg # None
  BY <1>2, CoreAssumption DEF AsksOf, CoreAssumption
<1>4. ASSUME NEW d \in Conns, NEW j \in DOMAIN fromCore'[d],
             fromCore'[d][j].type = "dm"
      PROVE  \/ /\ j \in DOMAIN fromCore[d]
                /\ fromCore'[d][j] = fromCore[d][j]
                /\ HasText(m) => fromCore[d][j].text # m.text
             \/ /\ HasText(m) /\ fromCore'[d][j].text = m.text
                /\ core[d].up /\ core[d].name = m.arg /\ m.arg # None
  <2>1. CASE j \in DOMAIN fromCore[d] /\ fromCore'[d][j] = fromCore[d][j]
    <3>1. CarriedAt(d)
      BY DEF Sound, Carried
    <3>2. \E k \in DOMAIN accepted : accepted[k] = fromCore[d][j].text
      BY <1>4, <2>1, <3>1 DEF CarriedAt, IsText
    <3> HIDE DEF m
    <3> QED
      BY <1>1, <2>1, <3>2
  <2>2. CASE Fresh(m, c, d, fromCore'[d][j])
    <3> HIDE DEF m
    <3> QED
      BY <1>3, <1>4, <2>2 DEF Fresh, Tell, Plain, HasText, Holder
  <2> QED
    BY <2>1, <2>2, FramesStay DEF Sound
<1> HIDE DEF m
<1> SUFFICES ASSUME NEW d \in Conns, NEW e \in Conns,
                    NEW i \in DOMAIN fromCore'[d], NEW j \in DOMAIN fromCore'[e],
                    fromCore'[d][i].type = "dm", fromCore'[e][j].type = "dm",
                    fromCore'[d][i].text = fromCore'[e][j].text
             PROVE  d = e
  BY DEF Addressed
<1>5. CASE /\ i \in DOMAIN fromCore[d] /\ fromCore'[d][i] = fromCore[d][i]
           /\ j \in DOMAIN fromCore[e] /\ fromCore'[e][j] = fromCore[e][j]
  BY <1>5 DEF Addressed
<1>6. CASE /\ core[d].up /\ core[d].name = m.arg
           /\ core[e].up /\ core[e].name = m.arg /\ m.arg # None
  BY <1>6 DEF Sound, Unique
<1> QED
  BY <1>4, <1>5, <1>6

LEMMA CoreKeepsStarted ==
  ASSUME Sound, NEW c \in Conns, Handles(c), UNCHANGED gatewayVars,
         NEW s \in Sockets, StartedAt(s)
  PROVE  StartedAt(s)'
<1> DEFINE m == Head(toCore[c])
<1>1. /\ \A d \in Conns \ {c} : toCore'[d] = toCore[d]
      /\ \A i \in DOMAIN toCore'[c] :
           i + 1 \in DOMAIN toCore[c] /\ toCore'[c][i] = toCore[c][i + 1]
      /\ m = toCore[c][1] /\ 1 \in DOMAIN toCore[c] /\ m \in AsksOf(c)
  BY RequestsStay DEF Sound
<1>2. s \in Conns /\ phase' = phase /\ pump' = pump
  BY ConnsAre DEF gatewayVars
<1> SUFFICES ASSUME phase[s] \notin {"open", "over"}
             PROVE  /\ pump[s].ws # "run"
                    /\ \A k \in DOMAIN accepted' : accepted'[k][1] # s
                    /\ \A i \in DOMAIN toCore'[s] : ~HasText(toCore'[s][i])
  BY <1>2 DEF StartedAt
<1>3. \A j \in DOMAIN toCore'[s] :
        \E i \in DOMAIN toCore[s] : toCore'[s][j] = toCore[s][i]
  BY <1>1, <1>2
<1>4. HasText(m) => m.text[1] = c /\ c # s
  <2>1. HasText(m) => m.text[1] = c
    BY <1>1 DEF AsksOf, HasText
  <2>2. c = s => ~HasText(m)
    BY <1>1 DEF StartedAt
  <2> HIDE DEF m
  <2> QED
    BY <2>1, <2>2
<1>5. \A k \in DOMAIN accepted' :
        \/ k \in DOMAIN accepted /\ accepted'[k] = accepted[k]
        \/ HasText(m) /\ accepted'[k] = m.text
  BY AcceptedGrows
<1> HIDE DEF m
<1>6. \A k \in DOMAIN accepted' : accepted'[k][1] # s
  BY <1>4, <1>5 DEF StartedAt
<1> QED
  BY <1>3, <1>6 DEF StartedAt

LEMMA CoreKeepsSeparate ==
  ASSUME Sound, Separate, NEW c \in Conns, Handles(c), UNCHANGED gatewayVars
  PROVE  Separate'
<1>1. UNCHANGED <<rows, pending>>
  BY DEF gatewayVars
<1>2. ASSUME NEW s \in Sockets
      PROVE  WaitingAt(s)' /\ OwnAt(s)' /\ StartedAt(s)'
  <2>1. \A t : t[1] = s /\ Closed(s, t) => Closed(s, t)'
    BY CoreKeepsClosed
  <2>2. \A i \in DOMAIN pending[s] : pending[s][i].text[1] = s
    BY DEF Sound, Shape, SessionShape, PendingShape
  <2>3. \A i \in DOMAIN pending[s] : Closed(s, pending[s][i].text)'
    BY <1>1, <2>1, <2>2 DEF Separate, WaitingAt
  <2>4. WaitingAt(s)'
    BY <1>1, <2>3 DEF Separate, WaitingAt
  <2>5. OwnAt(s)'
    BY <1>1, <2>1 DEF Separate, OwnAt
  <2> QED
    BY <2>4, <2>5, CoreKeepsStarted DEF Separate
<1>3. Distinct'
  BY <1>1 DEF Separate, Distinct
<1> QED
  BY <1>2, <1>3, CoreKeepsArrived, CoreKeepsAddressed DEF Separate

\* A text that a connection sends is the next one that it counts.
LEMMA TextsAreCounted ==
  ASSUME Shape, NEW c \in Conns, NEW m, Moves(c, m),
         NEW i \in DOMAIN toCore'[c], HasText(toCore'[c][i])
  PROVE  \/ i \in DOMAIN toCore[c] /\ toCore'[c][i] = toCore[c][i]
         \/ toCore'[c][i].text[2] = count[c] + 1
<1>1. \/ i \in DOMAIN toCore[c] /\ toCore'[c][i] = toCore[c][i]
      \/ /\ toCore'[c][i] = m
         /\ toCore' = [toCore EXCEPT ![c] = Append(@, m)]
  BY MovesDo DEF Shape
<1>2. ASSUME toCore'[c][i] = m, toCore' = [toCore EXCEPT ![c] = Append(@, m)]
      PROVE  toCore'[c][i].text[2] = count[c] + 1
  <2>1. toCore[c] \in Seq(Asks) /\ m \in Asks /\ toCore \in [Conns -> Seq(Asks)]
    BY DEF Shape, CoreShape, Moves, AsksOf
  <2>2. Len(Append(toCore[c], m)) = Len(toCore[c]) + 1 /\ Len(toCore[c]) \in Nat
    BY <2>1, AppendDoes
  <2>3. toCore'[c] = Append(toCore[c], m)
    BY <1>2, <2>1
  <2>4. toCore' # toCore
    BY <2>2, <2>3
  <2>5. m.text = Text(c)
    BY <1>2, <2>4 DEF Moves, HasText
  <2> QED
    BY <1>2, <2>5 DEF Text
<1> QED
  BY <1>1, <1>2

LEMMA MovesKeepClosed ==
  ASSUME Sound, NEW c \in Conns, NEW m, Moves(c, m),
         NEW s \in Sockets, NEW t \in Texts, Closed(s, t)
  PROVE  Closed(s, t)'
<1>1. /\ \A d \in Conns \ {c} :
           toCore'[d] = toCore[d] /\ fromCore'[d] = fromCore[d]
      /\ \E k \in {0, 1} : \A i \in DOMAIN fromCore'[c] :
           i + k \in DOMAIN fromCore[c] /\ fromCore'[c][i] = fromCore[c][i + k]
  BY MovesDo DEF Sound, Shape
<1>2. s \in Conns /\ t[2] \in Nat /\ count \in [Conns -> Nat]
  BY ConnsAre DEF Texts, Sound, Shape, SessionShape
<1>3. t[2] <= count[s] /\ t[2] <= count'[s]
  BY <1>2 DEF Closed, Moves
<1>4. \A j \in DOMAIN fromCore'[s] :
        \E i \in DOMAIN fromCore[s] : fromCore'[s][j] = fromCore[s][i]
  BY <1>1, <1>2
<1>5. ASSUME NEW j \in DOMAIN toCore'[s], toCore'[s][j].op = "say"
      PROVE  toCore'[s][j].text # t
  <2>1. CASE j \in DOMAIN toCore[s] /\ toCore'[s][j] = toCore[s][j]
    BY <1>5, <2>1 DEF Closed
  <2>2. CASE toCore'[s][j].text[2] = count[s] + 1
    BY <1>2, <1>3, <2>2
  <2> QED
    BY <1>1, <1>2, <1>5, <2>1, <2>2, TextsAreCounted DEF HasText, Sound
<1> QED
  BY <1>3, <1>4, <1>5 DEF Closed

LEMMA MovesKeepArrivals ==
  ASSUME Sound, Addressed, NEW c \in Conns, NEW m, Moves(c, m)
  PROVE  Addressed' /\ \A t : HasArrived(t) => HasArrived(t)'
<1>1. /\ \A d \in Conns \ {c} : fromCore'[d] = fromCore[d]
      /\ \E k \in {0, 1} : \A i \in DOMAIN fromCore'[c] :
           i + k \in DOMAIN fromCore[c] /\ fromCore'[c][i] = fromCore[c][i + k]
  BY MovesDo DEF Sound, Shape
<1>2. \A d \in Conns : \A j \in DOMAIN fromCore'[d] :
        \E i \in DOMAIN fromCore[d] : fromCore'[d][j] = fromCore[d][i]
  BY <1>1
<1>3. accepted' = accepted
  BY DEF Moves
<1>4. Addressed'
  BY <1>2 DEF Addressed
<1>5. \A t : HasArrived(t) => HasArrived(t)'
  BY <1>2, <1>3 DEF HasArrived
<1> QED
  BY <1>4, <1>5

LEMMA TalksKeepStarted ==
  ASSUME Sound, NEW c \in Conns, Talks(c), NEW s \in Sockets, StartedAt(s)
  PROVE  StartedAt(s)'
<1>1. accepted' = accepted
  BY TalksMoves DEF Sound, Moves
<1>2. CASE c # s
  BY <1>1, <1>2, ElsewhereStays DEF StartedAt
<1>3. CASE c = s
  <2>1. \/ Refused(s) \/ Granted(s) \/ Accept(s)
        \/ CoreGone(s) \/ WsGone(s) \/ Finish(s) \/ Leave(s)
        \/ CoreToWs(s) \/ WsToCore(s)
    BY <1>3, ConnsAre DEF Talks, Session
  <2>2. Hangup(s) => \A i \in DOMAIN toCore'[s] :
          \/ i \in DOMAIN toCore[s] /\ toCore'[s][i] = toCore[s][i]
          \/ ~HasText(toCore'[s][i])
    BY HangupDoes DEF HasText
  <2>3. /\ DOMAIN phase = Conns /\ s \in Conns
        /\ DOMAIN pump = Sockets /\ pump[s] \in Pumps
    BY SessionParts
  <2>4. CASE Refused(s)
    BY <1>1, <2>2, <2>3, <2>4 DEF Refused, Goto, StartedAt
  <2>5. CASE Granted(s)
    BY <1>1, <2>3, <2>5 DEF Granted, Welcome, Goto, StartedAt
  <2>6. CASE Accept(s)
    <3>1. phase[s] = "granted"
      BY <2>6 DEF Accept
    <3>2. \/ phase'[s] = "open"
          \/ pump' = pump /\ (Hangup(s) \/ UNCHANGED coreVars)
      BY <2>3, <2>6 DEF Accept, Goto
    <3> QED
      BY <1>1, <2>2, <3>1, <3>2 DEF StartedAt, coreVars
  <2>7. CASE CoreGone(s) \/ WsGone(s) \/ Leave(s) \/ CoreToWs(s)
    <3>1. /\ phase' = phase /\ toCore' = toCore
          /\ \/ pump' = pump \/ pump' = [pump EXCEPT ![s].core = "failed"]
             \/ pump' = [pump EXCEPT ![s].ws = "failed"]
      BY <2>7 DEF CoreGone, WsGone, Leave, CoreToWs, coreVars
    <3>2. pump'[s].ws \in {pump[s].ws, "failed"}
      BY <2>3, <3>1 DEF Pumps
    <3> QED
      BY <1>1, <3>1, <3>2 DEF StartedAt
  <2>8. CASE Finish(s)
    BY <2>3, <2>8 DEF Finish, Goto, StartedAt
  <2>9. CASE WsToCore(s)
    <3>1. pump[s].ws = "run" /\ phase' = phase
      BY <2>9 DEF WsToCore
    <3> QED
      BY <3>1 DEF StartedAt
  <2> QED
    BY <2>1, <2>4, <2>5, <2>6, <2>7, <2>8, <2>9
<1> QED
  BY <1>2, <1>3

\* A session that saves what another connection wrote has a peer's message: the
\* sender's session, if there is one, is still counted.
LEMMA AbsentIsPeer ==
  ASSUME Sound, Exact, "nick" \notin Commands, AuthorsStay,
         NEW s \in Sockets, CoreToWs(s),
         NEW f, f = fromCore[s][1], 1 \in DOMAIN fromCore[s],
         f.type = "dm", active[f.who] = 0,
         \A a \in Sockets : StartedAt(a)
  PROVE  f.text[1] \notin Sockets
<1> SUFFICES ASSUME NEW a \in Sockets, f.text[1] = a
             PROVE  FALSE
  OBVIOUS
<1>1. s \in Conns /\ WhoseAt(s) /\ CarriedAt(s) /\ phase[s] = "open"
  BY ConnsAre DEF Sound, Whose, Carried, CoreToWs
<1>2. f.who = UserOf[a] /\ \E k \in DOMAIN accepted : accepted[k] = f.text
  BY <1>1 DEF WhoseAt, CarriedAt, IsText
<1>3. phase[a] \in {"open", "over"}
  BY <1>2 DEF StartedAt
<1>4. phase[a] = "open"
  BY <1>1, <1>3 DEF AuthorsStay
<1>5. UserOf[a] \in Users /\ a \in SessionsOf(UserOf[a])
  BY <1>4, ConnsAre DEF SessionsOf, Counted
<1>6. /\ active[UserOf[a]] = Cardinality(SessionsOf(UserOf[a]))
      /\ IsFiniteSet(SessionsOf(UserOf[a]))
  BY <1>5, SessionsAreFinite DEF Exact
<1>7. Cardinality(SessionsOf(UserOf[a])) # 0
  BY <1>5, <1>6, FS_EmptySet
<1> QED
  BY <1>2, <1>6, <1>7

\* The row that a session writes is none of those that there are, and what
\* it saves is not saved again.
Separates(s, row) ==
  /\ \A i \in DOMAIN rows : rows[i].text # row.text
  /\ row.text[1] \in Sockets =>
       /\ row.text[1] = s /\ Closed(s, row.text)'
       /\ \A i \in DOMAIN pending'[s] : pending'[s][i].text # row.text
  /\ row.text[1] \notin Sockets => HasArrived(row.text)'

LEMMA PendingShrinks ==
  ASSUME Sound, NEW s \in Sockets, CoreToWs(s)
  PROVE  /\ \E k \in {0, 1} : \A i \in DOMAIN pending'[s] :
              i + k \in DOMAIN pending[s] /\ pending'[s][i] = pending[s][i + k]
         /\ Head(fromCore[s]).type = "sent" /\ pending[s] # <<>> =>
              \A i \in DOMAIN pending'[s] :
                i + 1 \in DOMAIN pending[s] /\ pending'[s][i] = pending[s][i + 1]
         /\ \A d \in Sockets \ {s} : pending'[d] = pending[d]
         /\ \A i \in DOMAIN pending'[s] : i \in Nat /\ 1 <= i
<1> DEFINE f == Head(fromCore[s])
<1>1. /\ pending \in [Sockets -> Seq(Rows)] /\ pending[s] \in Seq(Rows)
      /\ pending' = [pending EXCEPT ![s] =
                       IF Settles(f) /\ @ # <<>> THEN Tail(@) ELSE @]
  BY SessionParts DEF CoreToWs, Sound, Shape, SessionShape, PendingShape
<1> HIDE DEF f
<1>2. pending'[s] = IF Settles(f) /\ pending[s] # <<>> THEN Tail(pending[s])
                    ELSE pending[s]
  BY <1>1
<1>3. pending[s] # <<>> =>
        /\ Tail(pending[s]) \in Seq(Rows)
        /\ \A i \in DOMAIN Tail(pending[s]) :
             i + 1 \in DOMAIN pending[s] /\ Tail(pending[s])[i] = pending[s][i + 1]
  BY <1>1, TailDoes
<1>4. \A i \in DOMAIN pending[s] : i + 0 = i
  BY <1>1
<1>5. pending'[s] \in Seq(Rows)
  BY <1>1, <1>2, <1>3
<1>6. \A i \in DOMAIN pending'[s] : i \in Nat /\ 1 <= i
  BY <1>5
<1>7. f.type = "sent" => Settles(f)
  BY DEF Settles
<1>8. \E k \in {0, 1} : \A i \in DOMAIN pending'[s] :
        i + k \in DOMAIN pending[s] /\ pending'[s][i] = pending[s][i + k]
  <2>1. CASE Settles(f) /\ pending[s] # <<>>
    BY <1>2, <1>3, <2>1
  <2>2. CASE ~(Settles(f) /\ pending[s] # <<>>)
    BY <1>2, <1>4, <2>2
  <2> QED
    BY <2>1, <2>2
<1> QED
  BY <1>1, <1>2, <1>3, <1>6, <1>7, <1>8 DEF f

LEMMA ChatSeparates ==
  ASSUME Sound, Separate, "nick" \notin Commands, NEW s \in Sockets, CoreToWs(s),
         NEW f, f = fromCore[s][1], 1 \in DOMAIN fromCore[s], fromCore[s] # <<>>,
         f.type = "chat", f.who = UserOf[s], NEW row, row.text = f.text
  PROVE  Separates(s, row)
<1>1. /\ s \in Conns /\ WhoseAt(s) /\ CarriedAt(s) /\ OrderedAt(s)
      /\ WaitingAt(s) /\ OwnAt(s)
  BY ConnsAre DEF Sound, Whose, Carried, Ordered, Separate
<1>2. f.text[1] = s /\ \E k \in DOMAIN accepted : accepted[k] = f.text
  BY <1>1 DEF WhoseAt, CarriedAt, IsText
<1>3. \A t : Closed(s, t) => t # f.text
  BY DEF Closed
<1>4. \A i \in DOMAIN rows : rows[i].text # f.text
  BY <1>1, <1>2, <1>3 DEF OwnAt
<1>5. \A i \in DOMAIN pending'[s] : pending'[s][i].text # f.text
  <2>1. \A i \in DOMAIN pending[s] : pending[s][i].text # f.text
    BY <1>1, <1>3 DEF WaitingAt
  <2> QED
    BY <2>1, PendingShrinks
<1>6. Closed(s, f.text)'
  <2>1. /\ count' = count /\ toCore' = toCore
        /\ fromCore'[s] = Tail(fromCore[s]) /\ fromCore[s] \in Seq(Frames)
    BY SessionParts DEF CoreToWs, Read
  <2>2. f.text[2] <= count[s]
    BY <1>1, <1>2 DEF OrderedAt
  <2>3. f.text[2] \in Nat
    BY <1>2 DEF Sound, Shape, CoreShape, Texts
  <2>4. \A j \in DOMAIN toCore[s] : toCore[s][j].op = "say" =>
          toCore[s][j].text # f.text
    <3>1. \A j \in DOMAIN toCore[s] : HasText(toCore[s][j]) =>
            f.text[2] < toCore[s][j].text[2]
      BY <1>1, <1>2 DEF OrderedAt
    <3> QED
      BY <2>3, <3>1 DEF HasText
  <2>5. ASSUME NEW j \in DOMAIN fromCore'[s], fromCore'[s][j].type = "chat",
               fromCore'[s][j].text = f.text
        PROVE  FALSE
    <3>1. /\ j + 1 \in DOMAIN fromCore[s] /\ fromCore'[s][j] = fromCore[s][j + 1]
          /\ j \in Nat /\ 1 <= j
      <4>1. /\ Tail(fromCore[s]) \in Seq(Frames)
            /\ \A i \in DOMAIN Tail(fromCore[s]) :
                 /\ i + 1 \in DOMAIN fromCore[s]
                 /\ Tail(fromCore[s])[i] = fromCore[s][i + 1]
        BY <2>1, TailDoes
      <4> QED
        BY <2>1, <4>1
    <3>2. 1 < j + 1
      BY <3>1
    <3>3. f.text[2] < f.text[2]
      BY <1>1, <2>5, <3>1, <3>2 DEF CarriedAt, IsText
    <3> QED
      BY <2>3, <3>3
  <2> QED
    BY <2>1, <2>2, <2>4, <2>5 DEF Closed
<1> QED
  BY <1>2, <1>4, <1>5, <1>6 DEF Separates

LEMMA DmSeparates ==
  ASSUME Sound, Exact, Separate, "nick" \notin Commands, AuthorsStay,
         NEW s \in Sockets, CoreToWs(s),
         NEW f, f = fromCore[s][1], 1 \in DOMAIN fromCore[s], fromCore[s] # <<>>,
         f.type = "dm", active[f.who] = 0, NEW row, row.text = f.text
  PROVE  Separates(s, row)
<1>1. s \in Conns /\ CarriedAt(s)
  BY ConnsAre DEF Sound, Carried
<1>2. f.text[1] \notin Sockets
  BY AbsentIsPeer DEF Separate
<1>3. \E k \in DOMAIN accepted : accepted[k] = f.text
  BY <1>1 DEF CarriedAt, IsText
<1>4. f.text[2] \in Nat
  BY <1>3 DEF Sound, Shape, CoreShape, Texts
<1>5. \A i \in DOMAIN rows : rows[i].text # f.text
  BY <1>1, <1>2 DEF Separate, Arrived, HasArrived
<1>6. ASSUME NEW d \in Conns, NEW j \in DOMAIN fromCore'[d],
             fromCore'[d][j].type = "dm", fromCore'[d][j].text = f.text
      PROVE  FALSE
  <2>1. /\ fromCore' = [fromCore EXCEPT ![s] = Tail(@)]
        /\ DOMAIN fromCore = Conns /\ fromCore[s] \in Seq(Frames)
    BY SessionParts DEF CoreToWs, Read
  <2>2. CASE d # s
    <3>1. fromCore'[d] = fromCore[d]
      BY <2>1, <2>2
    <3>2. d = s
      BY <1>1, <1>6, <3>1 DEF Separate, Addressed
    <3> QED
      BY <2>2, <3>2
  <2>3. CASE d = s
    <3>1. /\ Tail(fromCore[s]) \in Seq(Frames)
          /\ \A i \in DOMAIN Tail(fromCore[s]) :
               /\ i + 1 \in DOMAIN fromCore[s]
               /\ Tail(fromCore[s])[i] = fromCore[s][i + 1]
      BY <2>1, TailDoes
    <3>2. fromCore'[s] = Tail(fromCore[s])
      BY <1>1, <2>1
    <3>3. /\ j + 1 \in DOMAIN fromCore[s] /\ fromCore'[s][j] = fromCore[s][j + 1]
          /\ j \in Nat /\ 1 <= j
      BY <1>6, <2>3, <3>1, <3>2
    <3>4. 1 < j + 1
      BY <3>3
    <3>5. f.text[2] < f.text[2]
      BY <1>1, <1>6, <2>3, <3>3, <3>4 DEF CarriedAt, IsText
    <3> QED
      BY <1>4, <3>5
  <2> QED
    BY <2>2, <2>3
<1>7. accepted' = accepted
  BY DEF CoreToWs
<1> QED
  BY <1>2, <1>3, <1>5, <1>6, <1>7 DEF Separates, HasArrived

LEMMA SentSeparates ==
  ASSUME Sound, Separate, NEW s \in Sockets, CoreToWs(s),
         Head(fromCore[s]).type = "sent", pending[s] # <<>>,
         NEW row, row = Head(pending[s])
  PROVE  Separates(s, row)
<1>1. /\ pending[s] \in Seq(Rows) /\ row = pending[s][1]
      /\ 1 \in DOMAIN pending[s]
  BY SessionParts, HeadTailProperties
<1>2. row.text[1] = s /\ row.text \in Texts /\ row.text[2] \in Nat
  <2>1. row.text[1] = s
    BY <1>1 DEF Sound, Shape, SessionShape, PendingShape
  <2>2. row \in Rows
    BY <1>1
  <2> QED
    BY <2>1, <2>2 DEF Rows, Texts
<1>3. WaitingAt(s)
  BY DEF Separate
<1>4. Closed(s, row.text) /\ \A j \in DOMAIN rows : rows[j].text # row.text
  BY <1>1, <1>3 DEF WaitingAt
<1>5. \A j \in DOMAIN pending[s] : 1 < j => row.text[2] < pending[s][j].text[2]
  BY <1>1, <1>3 DEF WaitingAt
<1>6. Closed(s, row.text)'
  <2>1. s \in Conns /\ Talks(s)
    BY ConnsAre DEF Talks, Session
  <2>2. \E m : Moves(s, m)
    BY <2>1, TalksMoves DEF Sound
  <2> QED
    BY <1>2, <1>4, <2>1, <2>2, MovesKeepClosed
<1>7. ASSUME NEW i \in DOMAIN pending'[s]
      PROVE  pending'[s][i].text # row.text
  <2>1. /\ i + 1 \in DOMAIN pending[s] /\ pending'[s][i] = pending[s][i + 1]
        /\ i \in Nat /\ 1 <= i
    BY PendingShrinks
  <2>2. 1 < i + 1
    BY <2>1
  <2>3. row.text[2] < pending'[s][i].text[2]
    BY <1>5, <2>1, <2>2
  <2> QED
    BY <1>2, <2>3
<1> QED
  BY <1>2, <1>4, <1>6, <1>7 DEF Separates

LEMMA CoreToWsSeparates ==
  ASSUME Sound, Exact, Separate, "nick" \notin Commands, AuthorsStay,
         NEW s \in Sockets, CoreToWs(s)
  PROVE  \/ rows' = rows
         \/ \E row : Grown(row) /\ Separates(s, row)
<1> DEFINE f == Head(fromCore[s])
<1>1. /\ fromCore[s] # <<>> /\ f = fromCore[s][1]
      /\ 1 \in DOMAIN fromCore[s]
      /\ \/ rows' = rows
         \/ \E row \in Rows : Grown(row) /\ Writes(s, f, row)
  BY CoreToWsSaves
<1>2. ASSUME NEW row \in Rows, Grown(row), Writes(s, f, row)
      PROVE  Separates(s, row)
  <2>1. CASE f.type = "chat" /\ f.who = UserOf[s] /\ row = Row(f, f.at)
    <3>1. row.text = f.text
      BY <2>1 DEF Row
    <3> QED
      BY <1>1, <2>1, <3>1, ChatSeparates
  <2>2. CASE f.type = "dm" /\ active[f.who] = 0 /\ row = Row(f, UserOf[s])
    <3>1. row.text = f.text
      BY <2>2 DEF Row
    <3> QED
      BY <1>1, <2>2, <3>1, DmSeparates
  <2>3. CASE f.type = "sent" /\ pending[s] # <<>> /\ row = Head(pending[s])
    BY <2>3, SentSeparates
  <2> QED
    BY <1>2, <2>1, <2>2, <2>3 DEF Writes
<1> QED
  BY <1>1, <1>2

LEMMA CoreToWsKeepsSeparate ==
  ASSUME Sound, Exact, Separate, "nick" \notin Commands, AuthorsStay,
         NEW s \in Sockets, CoreToWs(s)
  PROVE  Separate'
<1>1. s \in Conns /\ Talks(s)
  BY ConnsAre DEF Talks, Session
<1>2. PICK m : Moves(s, m)
  BY <1>1, TalksMoves DEF Sound
<1>3. /\ \A d \in Sockets : \A t \in Texts : Closed(d, t) => Closed(d, t)'
      /\ Addressed' /\ \A t : HasArrived(t) => HasArrived(t)'
  BY <1>1, <1>2, MovesKeepClosed, MovesKeepArrivals DEF Separate
<1>4. \/ rows' = rows
      \/ \E row : Grown(row) /\ Separates(s, row)
  BY CoreToWsSeparates
<1>5. \A i \in DOMAIN rows : rows[i].text \in Texts
  <2>1. \A r \in Rows : r.text \in Texts
    BY DEF Rows
  <2>2. \A i \in DOMAIN rows : rows[i] \in Rows
    BY DEF Sound, Shape, SessionShape
  <2> QED
    BY <2>1, <2>2
<1>6. \A d \in Sockets : \A i \in DOMAIN pending[d] :
        pending[d][i].text \in Texts /\ pending[d][i].text[1] = d
  <2>1. \A r \in Rows : r.text \in Texts
    BY DEF Rows
  <2>2. \A d \in Sockets : \A i \in DOMAIN pending[d] :
          pending[d][i] \in Rows /\ pending[d][i].text[1] = d
    BY DEF Sound, Shape, SessionShape, PendingShape
  <2> QED
    BY <2>1, <2>2
<1>7. ASSUME NEW i \in DOMAIN rows'
      PROVE  \/ i \in DOMAIN rows /\ rows'[i] = rows[i]
             \/ /\ i = Len(rows) + 1
                /\ \E row : row = rows'[i] /\ Separates(s, row)
  BY <1>4 DEF Grown
<1>8. ASSUME NEW d \in Sockets
      PROVE  OwnAt(d)'
  <2>1. OwnAt(d)
    BY DEF Separate
  <2>2. ASSUME NEW i \in DOMAIN rows', rows'[i].text[1] = d
        PROVE  Closed(d, rows[i].text)'
    <3>1. CASE i \in DOMAIN rows /\ rows'[i] = rows[i]
      BY <1>3, <1>5, <2>1, <2>2, <3>1 DEF OwnAt
    <3>2. CASE \E row : row = rows'[i] /\ Separates(s, row)
      <4>1. \A row : Separates(s, row) /\ row.text[1] = d => Closed(d, row.text)'
        BY DEF Separates
      <4> QED
        BY <2>2, <3>2, <4>1
    <3> QED
      BY <1>7, <3>1, <3>2
  <2> QED
    BY <2>2 DEF OwnAt
<1>9. ASSUME NEW d \in Sockets
      PROVE  WaitingAt(d)'
  <2>1. WaitingAt(d)
    BY DEF Separate
  <2>2. PICK k \in {0, 1} : \A i \in DOMAIN pending'[d] :
          i + k \in DOMAIN pending[d] /\ pending'[d][i] = pending[d][i + k]
    <3>1. pending[d] \in Seq(Rows)
      BY SessionParts
    <3>2. \A i \in DOMAIN pending[d] : i + 0 = i
      BY <3>1
    <3> QED
      BY <3>2, PendingShrinks
  <2>3. \A i \in DOMAIN pending'[d] : i \in Nat
    <3>1. pending[d] \in Seq(Rows)
      BY SessionParts
    <3>2. \A i \in DOMAIN pending[d] : i \in Nat
      BY <3>1
    <3> QED
      BY <3>2, PendingShrinks
  <2>4. ASSUME NEW i \in DOMAIN pending'[d]
        PROVE  /\ Closed(d, pending[d][i].text)'
               /\ \A j \in DOMAIN rows' : rows'[j].text # pending'[d][i].text
               /\ \A j \in DOMAIN pending'[d] :
                    i < j => pending'[d][i].text[2] < pending'[d][j].text[2]
    <3>1. i + k \in DOMAIN pending[d] /\ pending'[d][i] = pending[d][i + k]
      BY <2>2
    <3>2. Closed(d, pending[d][i].text)'
      BY <1>3, <1>6, <2>1, <3>1 DEF WaitingAt
    <3>3. \A j \in DOMAIN pending'[d] :
            i < j => pending'[d][i].text[2] < pending'[d][j].text[2]
      <4>1. \A j \in DOMAIN pending'[d] : i < j => i + k < j + k
        BY <2>3
      <4> QED
        BY <2>1, <2>2, <3>1, <4>1 DEF WaitingAt
    <3>4. ASSUME NEW j \in DOMAIN rows'
          PROVE  rows'[j].text # pending'[d][i].text
      <4>1. CASE j \in DOMAIN rows /\ rows'[j] = rows[j]
        BY <2>1, <3>1, <4>1 DEF WaitingAt
      <4>2. CASE \E row : row = rows'[j] /\ Separates(s, row)
        <5>1. rows'[j].text[1] = d =>
                d = s /\ \A l \in DOMAIN pending'[s] :
                           pending'[s][l].text # rows'[j].text
          <6>1. \A row : Separates(s, row) /\ row.text[1] = d =>
                  d = s /\ \A l \in DOMAIN pending'[s] :
                             pending'[s][l].text # row.text
            BY DEF Separates
          <6> QED
            BY <4>2, <6>1
        <5>2. pending'[d][i].text[1] = d
          BY <1>6, <3>1
        <5> QED
          BY <5>1, <5>2
      <4> QED
        BY <1>7, <4>1, <4>2
    <3> QED
      BY <3>2, <3>3, <3>4
  <2> QED
    BY <2>4 DEF WaitingAt
<1>10. Arrived'
  <2>1. ASSUME NEW i \in DOMAIN rows', rows'[i].text[1] \notin Sockets
        PROVE  HasArrived(rows[i].text)'
    <3>1. CASE i \in DOMAIN rows /\ rows'[i] = rows[i]
      BY <1>3, <2>1, <3>1 DEF Separate, Arrived
    <3>2. CASE \E row : row = rows'[i] /\ Separates(s, row)
      <4>1. \A row : Separates(s, row) /\ row.text[1] \notin Sockets =>
                       HasArrived(row.text)'
        BY DEF Separates
      <4> QED
        BY <2>1, <3>2, <4>1
    <3> QED
      BY <1>7, <3>1, <3>2
  <2> QED
    BY <2>1 DEF Arrived
<1>11. Distinct'
  <2>1. \A i, j \in DOMAIN rows : rows[i].text = rows[j].text => i = j
    BY DEF Separate, Distinct
  <2>2. \A row : Separates(s, row) => \A i \in DOMAIN rows : rows[i].text # row.text
    BY DEF Separates
  <2>3. ASSUME NEW i \in DOMAIN rows', NEW j \in DOMAIN rows',
               rows'[i].text = rows'[j].text
        PROVE  i = j
    BY <1>7, <2>1, <2>2, <2>3
  <2> QED
    BY <2>3 DEF Distinct
<1>12. \A d \in Sockets : StartedAt(d)'
  BY <1>1, TalksKeepStarted DEF Separate
<1> QED
  BY <1>3, <1>8, <1>9, <1>10, <1>11, <1>12 DEF Separate

\* A text that is sent now is like no other.
LEMMA WsToCoreKeepsWaiting ==
  ASSUME Sound, NEW s \in Sockets, WaitingAt(s), OwnAt(s), WsToCore(s)
  PROVE  WaitingAt(s)'
<1> DEFINE P == pending[s]
           n == count[s]
<1>1. /\ s \in Conns /\ Talks(s) /\ P \in Seq(Rows) /\ n \in Nat
      /\ toCore[s] \in Seq(Asks)
  BY ConnsAre, SessionParts DEF Talks
<1>2. PICK m \in Sendable(s) :
        /\ pending' = [pending EXCEPT ![s] =
             IF m.op # "dm" THEN @
             ELSE Append(@, [text |-> m.text, from |-> UserOf[s],
                             to |-> m.arg])]
        /\ \/ phase[s] = "open" /\ Write(s, m)
           \/ UNCHANGED toCore
  BY DEF WsToCore
<1>3. /\ UNCHANGED <<fromCore, rows>> /\ count'[s] = n + 1
  BY SessionParts DEF WsToCore
<1>4. /\ m \in AsksOf(s) /\ m \in Asks
      /\ m.op = "dm" => m.text = Text(s)
  BY <1>1, SendableAreAsks DEF AsksOf
<1>5. \A t \in Texts : Closed(s, t) => Closed(s, t)'
  BY <1>1, TalksMoves, MovesKeepClosed DEF Sound
<1>6. \A i \in DOMAIN P : P[i].text \in Texts /\ P[i].text[2] \in Nat
  <2>1. \A r \in Rows : r.text \in Texts
    BY DEF Rows
  <2> QED
    BY <1>1, <2>1, RowsAreNumbered
<1>7. \A i \in DOMAIN P : P[i].text[2] <= n
  BY DEF WaitingAt, Closed
<1>8. CASE m.op # "dm"
  <2>1. pending'[s] = P
    BY <1>2, <1>8, SessionParts
  <2>2. \A i \in DOMAIN P : \A t : t = P[i].text => Closed(s, t)'
    BY <1>5, <1>6 DEF WaitingAt
  <2>3. \A i \in DOMAIN pending'[s] : Closed(s, pending[s][i].text)'
    BY <2>1, <2>2
  <2> QED
    BY <1>3, <2>1, <2>3 DEF WaitingAt
<1>9. CASE m.op = "dm"
  <2> DEFINE p == [text |-> m.text, from |-> UserOf[s], to |-> m.arg]
  <2>1. pending'[s] = Append(P, p)
    BY <1>2, <1>9, SessionParts
  <2>2. p \in Rows /\ p.text = m.text /\ m.text = Text(s) /\ m.text[2] = n + 1
    <3>1. m.text \in Texts /\ m.arg \in Users
      BY <1>4, <1>9 DEF AsksOf
    <3> QED
      BY <1>4, <1>9, <3>1, ConnsAre DEF Rows, Text
  <2> HIDE DEF p
  <2>3. /\ \A i \in DOMAIN pending'[s] :
             \/ i \in DOMAIN P /\ pending'[s][i] = P[i]
             \/ i = Len(P) + 1 /\ pending'[s][i] = p
        /\ Len(P) \in Nat /\ DOMAIN P = 1 .. Len(P)
        /\ DOMAIN pending'[s] = 1 .. Len(P) + 1
    BY <1>1, <2>1, <2>2, AppendDoes
  <2>4. ASSUME NEW t, t = m.text
        PROVE  Closed(s, t)'
    <3>1. t[2] = n + 1 /\ t[2] \in Nat /\ t[1] = s
      BY <1>1, <2>2, <2>4 DEF Text
    <3>2. OrderedAt(s) /\ CarriedAt(s)
      BY <1>1 DEF Sound, Ordered, Carried
    <3>3. ASSUME NEW j \in DOMAIN toCore'[s], toCore'[s][j].op = "say"
          PROVE  toCore'[s][j].text # t
      <4>1. toCore'[s] \in {toCore[s], Append(toCore[s], m)}
        BY <1>2, SessionParts DEF Write
      <4>2. \/ j \in DOMAIN toCore[s] /\ toCore'[s][j] = toCore[s][j]
            \/ toCore'[s][j] = m
        <5>1. \A i \in DOMAIN Append(toCore[s], m) :
                \/ i \in DOMAIN toCore[s] /\ Append(toCore[s], m)[i] = toCore[s][i]
                \/ Append(toCore[s], m)[i] = m
          BY <1>1, <1>4, AppendDoes
        <5> QED
          BY <4>1, <5>1
      <4>3. toCore[s][j].text[2] <= n /\ j \in DOMAIN toCore[s]
            /\ toCore'[s][j] = toCore[s][j]
        BY <1>9, <3>2, <3>3, <4>2 DEF OrderedAt, HasText
      <4> QED
        BY <1>1, <3>1, <4>3
    <3>4. ASSUME NEW j \in DOMAIN fromCore[s], fromCore[s][j].type = "chat",
                 fromCore[s][j].text = t
          PROVE  FALSE
      <4>1. \E k \in DOMAIN accepted : accepted[k] = t
        BY <3>2, <3>4 DEF CarriedAt, IsText
      <4>2. t[2] <= n
        BY <3>1, <3>2, <4>1 DEF OrderedAt
      <4> QED
        BY <1>1, <3>1, <4>2
    <3> QED
      BY <1>1, <1>3, <3>1, <3>3, <3>4 DEF Closed
  <2>5. \A j \in DOMAIN rows : rows[j].text # m.text
    <3>1. m.text[1] = s
      BY <2>2 DEF Text
    <3>2. \A j \in DOMAIN rows : rows[j].text[1] = s => rows[j].text[2] <= n
      BY DEF OwnAt, Closed
    <3> QED
      BY <1>1, <2>2, <3>1, <3>2
  <2>6. ASSUME NEW i \in DOMAIN pending'[s]
        PROVE  /\ Closed(s, pending[s][i].text)'
               /\ \A j \in DOMAIN rows : rows[j].text # pending'[s][i].text
               /\ \A j \in DOMAIN pending'[s] :
                    i < j => pending'[s][i].text[2] < pending'[s][j].text[2]
    <3>1. CASE i \in DOMAIN P /\ pending'[s][i] = P[i]
      <4>1. \A t : t = P[i].text => Closed(s, t)'
        BY <1>5, <1>6, <3>1 DEF WaitingAt
      <4>2. Closed(s, pending[s][i].text)'
        BY <3>1, <4>1
      <4>3. \A j \in DOMAIN rows : rows[j].text # pending'[s][i].text
        BY <3>1 DEF WaitingAt
      <4>4. ASSUME NEW j \in DOMAIN pending'[s], i < j
            PROVE  pending'[s][i].text[2] < pending'[s][j].text[2]
        <5>1. CASE j \in DOMAIN P /\ pending'[s][j] = P[j]
          BY <3>1, <4>4, <5>1 DEF WaitingAt
        <5>2. CASE pending'[s][j] = p
          <6>1. P[i].text[2] <= n /\ P[i].text[2] \in Nat
            BY <1>6, <1>7, <3>1
          <6> QED
            BY <1>1, <2>2, <3>1, <5>2, <6>1
        <5> QED
          BY <2>3, <5>1, <5>2
      <4> QED
        BY <4>2, <4>3, <4>4
    <3>2. CASE i = Len(P) + 1 /\ pending'[s][i] = p
      <4>1. \A j \in DOMAIN pending'[s] : ~(i < j)
        BY <2>3, <3>2
      <4>2. Closed(s, pending[s][i].text)'
        BY <2>2, <2>4, <3>2
      <4> QED
        BY <2>2, <2>5, <3>2, <4>1, <4>2
    <3> QED
      BY <2>3, <3>1, <3>2
  <2> QED
    BY <1>3, <2>6 DEF WaitingAt
<1> QED
  BY <1>8, <1>9

LEMMA TalksKeepSeparate ==
  ASSUME Sound, Separate, NEW c \in Conns, Talks(c),
         ~(c \in Sockets /\ CoreToWs(c))
  PROVE  Separate'
<1>1. PICK m : Moves(c, m)
  BY TalksMoves DEF Sound
<1>2. rows' = rows
  BY RowsStay
<1>3. /\ \A d \in Sockets : \A t \in Texts : Closed(d, t) => Closed(d, t)'
      /\ Addressed' /\ \A t : HasArrived(t) => HasArrived(t)'
  BY <1>1, MovesKeepClosed, MovesKeepArrivals DEF Separate
<1>4. \A r \in Rows : r.text \in Texts
  BY DEF Rows
<1>5. \A i \in DOMAIN rows : rows[i].text \in Texts
  <2>1. \A i \in DOMAIN rows : rows[i] \in Rows
    BY DEF Sound, Shape, SessionShape
  <2> QED
    BY <1>4, <2>1
<1>6. ASSUME NEW d \in Sockets
      PROVE  OwnAt(d)'
  <2>1. \A i \in DOMAIN rows : \A t : rows[i].text[1] = d /\ t = rows[i].text =>
          Closed(d, t)'
    BY <1>3, <1>5 DEF Separate, OwnAt
  <2>2. \A i \in DOMAIN rows' : rows'[i].text[1] = d => Closed(d, rows[i].text)'
    BY <1>2, <2>1
  <2> QED
    BY <2>2 DEF OwnAt
<1>7. ASSUME NEW d \in Sockets
      PROVE  WaitingAt(d)'
  <2>1. CASE c = d /\ WsToCore(d)
    BY <2>1, WsToCoreKeepsWaiting DEF Separate
  <2>2. CASE ~(c = d /\ WsToCore(d))
    <3>1. pending'[d] = pending[d]
      <4>1. CASE c = d
        BY <2>2, <4>1, ConnsAre
           DEF Talks, Session, Refused, Granted, Accept, CoreGone, WsGone, Finish,
               Leave
      <4>2. CASE c # d
        BY <4>2, ElsewhereStays
      <4> QED
        BY <4>1, <4>2
    <3>2. WaitingAt(d)
      BY DEF Separate
    <3>3. \A i \in DOMAIN pending[d] : pending[d][i].text \in Texts
      <4>1. \A i \in DOMAIN pending[d] : pending[d][i] \in Rows
        BY SessionParts
      <4> QED
        BY <1>4, <4>1
    <3>4. \A i \in DOMAIN pending[d] : \A t : t = pending[d][i].text =>
            Closed(d, t)'
      BY <1>3, <3>2, <3>3 DEF WaitingAt
    <3>5. \A i \in DOMAIN pending'[d] : Closed(d, pending[d][i].text)'
      BY <3>1, <3>4
    <3> QED
      BY <1>2, <3>1, <3>2, <3>5 DEF WaitingAt
  <2> QED
    BY <2>1, <2>2
<1>8. Arrived'
  <2>1. \A i \in DOMAIN rows : \A t :
          rows[i].text[1] \notin Sockets /\ t = rows[i].text => HasArrived(t)'
    BY <1>3 DEF Separate, Arrived
  <2>2. \A i \in DOMAIN rows' :
          rows'[i].text[1] \notin Sockets => HasArrived(rows[i].text)'
    BY <1>2, <2>1
  <2> QED
    BY <2>2 DEF Arrived
<1>9. Distinct' /\ \A d \in Sockets : StartedAt(d)'
  BY <1>2, TalksKeepStarted DEF Separate, Distinct
<1> QED
  BY <1>3, <1>6, <1>7, <1>8, <1>9 DEF Separate

LEMMA DialKeepsSeparate ==
  ASSUME Sound, Separate, NEW c \in Conns, Dial(c)
  PROVE  Separate'
<1>1. /\ phase[c] = "new" /\ phase' = [phase EXCEPT ![c] = "hello"]
      /\ toCore' = [toCore EXCEPT ![c] = <<Ask("hello", UserOf[c], None)>>]
      /\ UNCHANGED <<fromCore, accepted, pump, pending, rows, count>>
  BY DEF Dial, Goto
<1>2. DOMAIN phase = Conns /\ DOMAIN toCore = Conns
  BY DEF Sound, Shape, CoreShape, SessionShape
<1>3. \A d \in Conns :
        \/ phase'[d] = phase[d] /\ toCore'[d] = toCore[d]
        \/ /\ d = c
           /\ \A i \in DOMAIN toCore'[d] : toCore'[d][i].op = "hello"
  BY <1>1, <1>2 DEF Ask
<1>4. ASSUME NEW s \in Sockets
      PROVE  /\ \A t : Closed(s, t) => Closed(s, t)'
             /\ StartedAt(s) => StartedAt(s)'
  <2>1. s \in Conns
    BY ConnsAre
  <2>2. \A j \in DOMAIN toCore'[s] : HasText(toCore'[s][j]) =>
          j \in DOMAIN toCore[s] /\ toCore'[s][j] = toCore[s][j]
    BY <1>3, <2>1 DEF HasText
  <2>3. \A t : Closed(s, t) => Closed(s, t)'
    BY <1>1, <2>2 DEF Closed, HasText
  <2>4. StartedAt(s) => StartedAt(s)'
    <3>1. phase'[s] \notin {"open", "over"} => phase[s] \notin {"open", "over"}
      BY <1>1, <1>2, <2>1
    <3> QED
      BY <1>1, <2>2, <3>1 DEF StartedAt
  <2> QED
    BY <2>3, <2>4
<1>5. \A s \in Sockets : WaitingAt(s)' /\ OwnAt(s)' /\ StartedAt(s)'
  BY <1>1, <1>4 DEF Separate, WaitingAt, OwnAt, Closed
<1>6. Arrived' /\ Addressed' /\ Distinct'
  BY <1>1 DEF Separate, Arrived, HasArrived, Addressed, Distinct
<1> QED
  BY <1>5, <1>6 DEF Separate

LEMMA NextSeparate ==
  ASSUME "nick" \notin Commands, Sound, Exact, Separate, AuthorsStay, [Next]_vars
  PROVE  Separate'
<1>1. ASSUME NEW c \in Conns, Core(c)
      PROVE  Separate'
  <2>1. Handles(c) /\ UNCHANGED gatewayVars
    BY <1>1, CoreHandles DEF Core, Sound, Shape
  <2> QED
    BY <2>1, CoreKeepsSeparate
<1>2. ASSUME NEW c \in Conns, Talks(c)
      PROVE  Separate'
  BY <1>2, CoreToWsKeepsSeparate, TalksKeepSeparate
<1>3. CASE UNCHANGED vars
  BY <1>3 DEF vars, coreVars, gatewayVars, Separate, WaitingAt, OwnAt, StartedAt,
              Closed, Arrived, HasArrived, Addressed, Distinct
<1> QED
  BY <1>1, <1>2, <1>3, DialKeepsSeparate, NextIs

LEMMA InitSeparate == Init => Separate
<1> SUFFICES ASSUME Init
             PROVE  Separate
  OBVIOUS
<1>1. /\ \A s \in Sockets : pump[s].ws = "off"
      /\ \A s \in Sockets : \A i \in DOMAIN pending[s] : FALSE
      /\ \A c \in Conns : \A i \in DOMAIN toCore[c] : FALSE
      /\ \A c \in Conns : \A i \in DOMAIN fromCore[c] : FALSE
      /\ \A k \in DOMAIN accepted : FALSE
      /\ \A i \in DOMAIN rows : FALSE
  BY DEF Init, CoreInit
<1> QED
  BY <1>1, ConnsAre DEF Separate, WaitingAt, OwnAt, StartedAt, Arrived, Addressed,
                        Distinct

\* A direct message is saved at most once, whatever is refused and whoever
\* overflows: where no one changes a name, and as long as no session ends while
\* a direct message of its is on its way to another.
THEOREM DmsAreSavedOnce ==
  ASSUME "nick" \notin Commands
  PROVE  Spec /\ []AuthorsStay => []DmSavedOnce
<1>1. Sound /\ Exact /\ Separate /\ AuthorsStay /\ [Next]_vars => Separate'
  BY NextSeparate
<1>2. Separate => DmSavedOnce
  BY DEF Separate, Distinct, DmSavedOnce
<1> QED
  BY <1>1, <1>2, InitSeparate, SoundHolds, ExactHolds, PTL DEF Spec

\* With one session and any number of peers nothing more is needed.
THEOREM DmsOfOneSessionAreSavedOnce ==
  ASSUME "nick" \notin Commands, \A s, t \in Sockets : s = t
  PROVE  Spec => []DmSavedOnce
<1>1. AuthorsStay
  <2> SUFFICES ASSUME NEW s \in Sockets, phase[s] = "open",
                      NEW t \in Sockets
               PROVE  phase[t] # "over"
    BY DEF AuthorsStay
  <2> QED
    OBVIOUS
<1>2. []AuthorsStay
  BY <1>1, PTL
<1> QED
  BY <1>2, DmsAreSavedOnce, PTL
=============================================================================
