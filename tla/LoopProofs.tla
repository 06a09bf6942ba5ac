----------------------------- MODULE LoopProofs -----------------------------
(***************************************************************************)
(* Proofs about CoreLoop, for any number of slots, descriptors and         *)
(* connections and any lengths: the loop never acts upon the wrong         *)
(* connection, and its buffer is full only behind a frame that is too      *)
(* long.  FrameProofs goes on from here with what is in the buffers.       *)
(*                                                                         *)
(* The argument is about descriptors.  Those in use are open, no two slots *)
(* share one, and the ones that poll has reported on stay with their       *)
(* connections until they are closed (Wired, Watched).  And when the loop  *)
(* looks at a slot it finds no whole frame in it: drain_input has taken    *)
(* them all (Drained).                                                     *)
(***************************************************************************)
EXTENDS CoreLoop, SequenceTheorems, TLAPS

Unit == [conn : Conns, frame : Nat, at : Nat, len : Nat]

Slot == [fd : Fds \cup {0}, inbuf : Seq(Unit), out : 0 .. MaxQueue]

Report ==
  [fd : Fds, conn : Conns, err : BOOLEAN, in : BOOLEAN, out : BOOLEAN]

Table == {new \in [Slots -> Slot] :
            \A s \in Slots : Len(new[s].inbuf) <= InbufCap}

Shape ==
  /\ slots \in Table
  /\ sockets \in [Fds -> Conns \cup {NoConn}]
  /\ pc \in {"poll", "accept", "handle", "read", "drain", "write"}
  /\ snap \in Seq(Report)
  /\ backlog \in Seq(Conns)
  /\ link \in [Conns -> {"new", "backlog", "accepted", "closed"}]
  /\ peer \in [Conns -> {"open", "finished", "reset"}]
  /\ wire \in [Conns -> Seq(Unit)]
  /\ sock \in [Conns -> Seq(Unit)]
  /\ room \in [Conns -> 0 .. SendBuffer]
  /\ sent \in [Conns -> Seq(Seq(Unit))]
  /\ handled \in [Conns -> Seq(Seq(Unit))]

\* A slot that is in use has an open descriptor of its own, and no two
\* descriptors or places in the backlog are of the same connection.
Wired ==
  /\ \A s \in Slots : slots[s].fd # 0 => sockets[slots[s].fd] \in Conns
  /\ \A s, t \in Slots :
       slots[s].fd # 0 /\ slots[s].fd = slots[t].fd => s = t
  /\ \A fd \in Fds : sockets[fd] \in Conns => link[sockets[fd]] = "accepted"
  /\ \A a, b \in Fds :
       sockets[a] \in Conns /\ sockets[a] = sockets[b] => a = b
  /\ \A i \in 1 .. Len(backlog) : link[backlog[i]] = "backlog"
  /\ \A i, j \in 1 .. Len(backlog) : backlog[i] = backlog[j] => i = j

\* A descriptor in the poll result is that of the connection that poll looked
\* at, or closed; and none is closed before accept_clients has returned.
Watched ==
  pc # "poll" =>
    \A i \in 1 .. Len(snap) :
      \/ sockets[snap[i].fd] = snap[i].conn
      \/ pc # "accept" /\ sockets[snap[i].fd] = NoConn

\* A whole frame is found only where drain_input is at work.
Drained ==
  \A s \in Slots :
    Whole(slots[s].inbuf) => pc = "drain" /\ Current(s)

LoopInv == Shape /\ Wired /\ Watched /\ Drained

-----------------------------------------------------------------------------
(* Lemmas.                                                                 *)

LEMMA Constants ==
  /\ MaxClients \in Nat /\ HeaderSize \in Nat \ {0} /\ MaxPayload \in Nat
  /\ ReplyUnits \in Nat \ {0} /\ SendBuffer \in Nat /\ MaxQueue \in Nat
  /\ InbufCap \in Nat /\ HeaderSize <= InbufCap
  /\ MaxFds \in Nat /\ 0 \notin Fds
BY LoopAssumption DEF LoopAssumption, InbufCap, Fds

LEMMA BlankIsSlot ==
  /\ Blank \in Slot /\ Blank.fd = 0 /\ Blank.inbuf = <<>> /\ Blank.out = 0
  /\ Len(Blank.inbuf) <= InbufCap /\ ~Whole(Blank.inbuf)
<1>1. Blank.inbuf = <<>> /\ Len(<<>>) = 0
  BY DEF Blank
<1>2. <<>> \in Seq(Unit)
  OBVIOUS
<1> QED
  BY <1>1, <1>2, Constants DEF Blank, Slot, Whole

\* queued_bytes is never less than what is left to send.
LEMMA QueuedIsEnough ==
  ASSUME NEW cl \in Slot
  PROVE  /\ cl.out \in Nat /\ QueuedUnits(cl) \in Nat
         /\ QueuedUnits(cl) >= cl.out
<1> DEFINE out == cl.out
           q == (out + ReplyUnits - 1) \div ReplyUnits
           r == (out + ReplyUnits - 1) % ReplyUnits
<1>1. out \in Nat
  BY Constants DEF Slot
<1>2. QueuedUnits(cl) = q * ReplyUnits
  BY DEF QueuedUnits
<1> HIDE DEF out
<1>3. q \in Nat /\ r \in 0 .. ReplyUnits - 1
      /\ out + ReplyUnits - 1 = ReplyUnits * q + r
  BY <1>1, Constants
<1>4. q * ReplyUnits = ReplyUnits * q /\ q * ReplyUnits \in Nat
  BY <1>3, Constants
<1> HIDE DEF q, r
<1>5. q * ReplyUnits >= out
  BY <1>1, <1>3, <1>4, Constants
<1> QED
  BY <1>1, <1>2, <1>4, <1>5 DEF out

LEMMA PostIsTable ==
  ASSUME NEW table \in Table, NEW R \in SUBSET Slots
  PROVE  /\ Post(table, R) \in Table
         /\ \A s \in Slots : \/ Post(table, R)[s] = Blank
                             \/ /\ Post(table, R)[s].fd = table[s].fd
                                /\ Post(table, R)[s].inbuf = table[s].inbuf
<1> DEFINE new == Post(table, R)
<1>1. ASSUME NEW s \in Slots
      PROVE  /\ new[s] \in Slot
             /\ \/ new[s] = Blank
                \/ /\ new[s].fd = table[s].fd
                   /\ new[s].inbuf = table[s].inbuf
  <2> DEFINE cl == table[s]
             more == [cl EXCEPT !.out = @ + ReplyUnits]
  <2>1. cl \in Slot
    BY DEF Table
  <2>2. \/ new[s] = cl
        \/ new[s] = Blank
        \/ new[s] = more /\ QueuedUnits(cl) + ReplyUnits <= MaxQueue
    <3>1. QueuedUnits(cl) \in Nat
      BY <2>1, QueuedIsEnough
    <3> QED
      BY <3>1, Constants DEF Post
  <2>3. CASE new[s] = more /\ QueuedUnits(cl) + ReplyUnits <= MaxQueue
    <3>1. cl.out \in Nat /\ QueuedUnits(cl) \in Nat
          /\ QueuedUnits(cl) >= cl.out
      BY <2>1, QueuedIsEnough
    <3>2. cl.out + ReplyUnits \in 0 .. MaxQueue
      BY <2>3, <3>1, Constants
    <3> QED
      BY <2>1, <2>3, <3>2 DEF Slot
  <2> QED
    BY <2>1, <2>2, <2>3, BlankIsSlot
<1>2. new = [s \in Slots |-> new[s]]
  BY DEF Post
<1> HIDE DEF new
<1>3. new \in [Slots -> Slot]
  BY <1>1, <1>2
<1>4. \A s \in Slots : Len(new[s].inbuf) <= InbufCap
  BY <1>1, BlankIsSlot DEF Table
<1> QED
  BY <1>1, <1>3, <1>4 DEF new, Table

\* What closing descriptors does: whoever is not closed is as it was.
LEMMA Installed ==
  ASSUME Shape, Wired, NEW new \in Table,
         \A s \in Slots : new[s].fd \in {0, slots[s].fd},
         Install(new, sock), UNCHANGED backlog
  PROVE  /\ slots' = new
         /\ sockets' \in [Fds -> Conns \cup {NoConn}]
         /\ link' \in [Conns -> {"new", "backlog", "accepted", "closed"}]
         /\ wire' \in [Conns -> Seq(Unit)] /\ sock' \in [Conns -> Seq(Unit)]
         /\ Wired'
         /\ \A fd \in Fds : sockets'[fd] \in {sockets[fd], NoConn}
         /\ \A c \in Conns :
              \/ link'[c] = "closed"
              \/ /\ link'[c] = link[c]
                 /\ wire'[c] = wire[c] /\ sock'[c] = sock[c]
         /\ \A s \in Slots : slots'[s].fd # 0 => ConnOf(s)' = ConnOf(s)
<1> DEFINE open == {new[s].fd : s \in Slots}
           shut == {sockets[fd] : fd \in Fds \ open}
<1>1. /\ slots' = new
      /\ sockets' = [fd \in Fds |-> IF fd \in open THEN sockets[fd] ELSE NoConn]
      /\ link' = [c \in Conns |-> IF c \in shut THEN "closed" ELSE link[c]]
      /\ sock' = [c \in Conns |-> IF c \in shut THEN <<>> ELSE sock[c]]
      /\ wire' = [c \in Conns |-> IF c \in shut THEN <<>> ELSE wire[c]]
  BY DEF Install
<1>2. /\ slots \in [Slots -> Slot] /\ new \in [Slots -> Slot]
      /\ sockets \in [Fds -> Conns \cup {NoConn}]
      /\ link \in [Conns -> {"new", "backlog", "accepted", "closed"}]
      /\ wire \in [Conns -> Seq(Unit)] /\ sock \in [Conns -> Seq(Unit)]
  BY DEF Shape, Table
<1>3. \A s \in Slots : new[s].fd # 0 =>
        /\ new[s].fd = slots[s].fd /\ new[s].fd \in open
        /\ new[s].fd \in Fds
  BY <1>2 DEF Slot
<1>4. \A fd \in Fds : sockets[fd] \in Conns /\ fd \in open =>
        sockets[fd] \notin shut
  BY DEF Wired
<1>5. \A c \in Conns : link[c] # "accepted" => c \notin shut
  BY DEF Wired
<1> HIDE DEF open, shut
<1>6. NoConn \notin Conns
  BY LoopAssumption DEF LoopAssumption
<1>7. /\ sockets' \in [Fds -> Conns \cup {NoConn}]
      /\ link' \in [Conns -> {"new", "backlog", "accepted", "closed"}]
  BY <1>1, <1>2
<1>8. wire' \in [Conns -> Seq(Unit)] /\ sock' \in [Conns -> Seq(Unit)]
  <2>1. <<>> \in Seq(Unit)
    OBVIOUS
  <2> QED
    BY <1>1, <1>2, <2>1
<1>9. Wired'
  <2>1. \A s \in Slots : slots'[s].fd # 0 => sockets'[slots'[s].fd] \in Conns
    BY <1>1, <1>3 DEF Wired
  <2>2. \A s, t \in Slots :
          slots'[s].fd # 0 /\ slots'[s].fd = slots'[t].fd => s = t
    BY <1>1, <1>3 DEF Wired
  <2>3. \A fd \in Fds :
          sockets'[fd] \in Conns => link'[sockets'[fd]] = "accepted"
    BY <1>1, <1>2, <1>4, <1>6 DEF Wired
  <2>4. \A a, b \in Fds :
          sockets'[a] \in Conns /\ sockets'[a] = sockets'[b] => a = b
    BY <1>1, <1>6 DEF Wired
  <2>5. \A i \in 1 .. Len(backlog) : link'[backlog[i]] = "backlog"
    <3>1. \A i \in 1 .. Len(backlog) : backlog[i] \in Conns
      BY ElementOfSeq DEF Shape
    <3> QED
      BY <1>1, <1>5, <3>1 DEF Wired
  <2> QED
    BY <2>1, <2>2, <2>3, <2>4, <2>5 DEF Wired
<1>10. \A s \in Slots : slots'[s].fd # 0 => ConnOf(s)' = ConnOf(s)
  BY <1>1, <1>3 DEF ConnOf
<1> QED
  BY <1>1, <1>2, <1>7, <1>8, <1>9, <1>10

\* While the loop works through the poll result, descriptors are only closed.
LEMMA WatchedLater ==
  ASSUME LoopInv, pc \notin {"poll", "accept"}, pc' # "accept",
         \A fd \in Fds : sockets'[fd] \in {sockets[fd], NoConn},
         snap' = snap \/ (snap # <<>> /\ snap' = Tail(snap))
  PROVE  snap' \in Seq(Report) /\ Watched'
<1>1. /\ snap \in Seq(Report) /\ snap' \in Seq(Report)
      /\ \A i \in 1 .. Len(snap') : \E j \in 1 .. Len(snap) : snap'[i] = snap[j]
  <2>1. snap \in Seq(Report)
    BY DEF LoopInv, Shape
  <2>2. CASE snap' = snap
    BY <2>1, <2>2
  <2>3. CASE snap # <<>> /\ snap' = Tail(snap)
    <3> DEFINE rest == Tail(snap)
    <3>1. /\ rest \in Seq(Report) /\ Len(rest) = Len(snap) - 1
          /\ \A i \in 1 .. Len(rest) : rest[i] = snap[i + 1]
      BY <2>1, <2>3, HeadTailProperties
    <3>2. Len(snap) \in Nat
      BY <2>1, LenProperties
    <3> HIDE DEF rest
    <3>3. ASSUME NEW i \in 1 .. Len(rest)
          PROVE  i + 1 \in 1 .. Len(snap) /\ rest[i] = snap[i + 1]
      BY <3>1, <3>2
    <3>4. \A i \in 1 .. Len(rest) : \E j \in 1 .. Len(snap) : rest[i] = snap[j]
      BY <3>3
    <3>5. snap' = rest
      BY <2>3 DEF rest
    <3> QED
      BY <2>1, <3>1, <3>4, <3>5
  <2> QED
    BY <2>2, <2>3
<1>2. \A j \in 1 .. Len(snap) : snap[j].fd \in Fds
  <2>1. \A j \in 1 .. Len(snap) : snap[j] \in Report
    BY <1>1, ElementOfSeq
  <2> QED
    BY <2>1 DEF Report
<1>3. \A j \in 1 .. Len(snap) :
        sockets'[snap[j].fd] \in {snap[j].conn, NoConn}
  BY <1>2 DEF LoopInv, Watched
<1> QED
  BY <1>1, <1>3 DEF Watched

\* There is at most one current client, and its descriptor is an open one.
LEMMA CurrentIsOne ==
  ASSUME LoopInv, NEW s \in Slots, Current(s)
  PROVE  /\ slots[s].fd \in Fds /\ slots[s].fd # 0
         /\ ConnOf(s) \in Conns /\ link[ConnOf(s)] = "accepted"
         /\ \A t \in Slots : Current(t) => t = s
<1>1. Head(snap) \in Report
  BY HeadTailProperties DEF LoopInv, Shape, Current
<1>2. slots[s].fd \in Fds /\ slots[s].fd # 0
  BY <1>1, Constants DEF Current, Report
<1>3. ConnOf(s) \in Conns /\ link[ConnOf(s)] = "accepted"
  BY <1>2 DEF LoopInv, Wired, ConnOf
<1>4. \A t \in Slots : Current(t) => t = s
  BY <1>2 DEF LoopInv, Wired, Current
<1> QED
  BY <1>2, <1>3, <1>4

\* No whole frame comes from anywhere but a recv.
LEMMA DrainedLater ==
  ASSUME LoopInv, pc # "drain",
         \A s \in Slots : slots'[s] = Blank
                         \/ slots'[s].inbuf = slots[s].inbuf
  PROVE  Drained'
<1>1. \A s \in Slots : ~Whole(slots[s].inbuf)
  BY DEF LoopInv, Drained
<1> QED
  BY <1>1, BlankIsSlot DEF Drained, Whole, Announced

-----------------------------------------------------------------------------
(* The steps.                                                              *)

\* The entries that poll fills in.
LEMMA PollHolds == LoopInv /\ Poll => LoopInv'
<1> SUFFICES ASSUME LoopInv, Poll
             PROVE  LoopInv'
  OBVIOUS
<1>1. PICK order \in InSlotOrder({s \in Slots :
         slots[s].fd # 0 /\ (Entry(s).err \/ Entry(s).in \/ Entry(s).out)}) :
        /\ snap' = [i \in DOMAIN order |-> Entry(order[i])]
        /\ pc' = IF backlog # <<>> THEN "accept" ELSE "handle"
  BY DEF Poll
<1>2. PICK n \in Nat : DOMAIN order = 1 .. n
        /\ \A i \in 1 .. n : order[i] \in Slots /\ slots[order[i]].fd # 0
  BY Constants DEF InSlotOrder
<1>3. UNCHANGED <<slots, sockets, backlog, link, peer, wire, sock, room, sent,
                  handled>>
  BY DEF Poll
<1>4. \A s \in Slots : slots[s].fd # 0 =>
        /\ Entry(s) \in Report
        /\ sockets[Entry(s).fd] = Entry(s).conn
  <2> SUFFICES ASSUME NEW s \in Slots, slots[s].fd # 0
               PROVE  /\ Entry(s) \in Report
                      /\ sockets[Entry(s).fd] = Entry(s).conn
    OBVIOUS
  <2>1. slots[s].fd \in Fds /\ ConnOf(s) \in Conns
    BY DEF LoopInv, Shape, Table, Slot, Wired, ConnOf
  <2> QED
    BY <2>1 DEF Entry, Report, ConnOf
<1>5. /\ snap' \in Seq(Report) /\ Len(snap') = n
      /\ \A i \in 1 .. n : sockets[snap'[i].fd] = snap'[i].conn
  <2>1. snap' = [i \in 1 .. n |-> Entry(order[i])]
    BY <1>1, <1>2
  <2> QED
    BY <1>2, <1>4, <2>1
<1>6. pc = "poll" /\ pc' \in {"accept", "handle"}
  BY <1>1 DEF Poll
<1>7. Shape'
  BY <1>3, <1>5, <1>6 DEF LoopInv, Shape
<1>8. Wired'
  BY <1>3 DEF LoopInv, Wired
<1>9. Watched'
  BY <1>3, <1>5 DEF Watched
<1>10. Drained'
  BY <1>3, <1>6 DEF LoopInv, Drained, Whole, Announced
<1> QED
  BY <1>7, <1>8, <1>9, <1>10 DEF LoopInv

LEMMA CloseHolds ==
  ASSUME LoopInv, NEW s \in Slots, Current(s), Close(s),
         pc \in {"handle", "read", "write"}
  PROVE  LoopInv'
<1> DEFINE new == [slots EXCEPT ![s] = Blank]
<1>1. /\ Install(new, sock) /\ pc' = "handle" /\ snap' = Tail(snap)
      /\ snap # <<>>
      /\ UNCHANGED <<backlog, peer, room, sent, handled>>
  BY DEF Close, NextEntry, Current
<1>2. new \in Table /\ \A t \in Slots : new[t] \in {Blank, slots[t]}
  BY BlankIsSlot DEF LoopInv, Shape, Table
<1>3. \A t \in Slots : new[t].fd \in {0, slots[t].fd}
  BY <1>2, BlankIsSlot
<1> HIDE DEF new
<1>4. /\ slots' = new /\ Wired'
      /\ sockets' \in [Fds -> Conns \cup {NoConn}]
      /\ link' \in [Conns -> {"new", "backlog", "accepted", "closed"}]
      /\ wire' \in [Conns -> Seq(Unit)] /\ sock' \in [Conns -> Seq(Unit)]
      /\ \A fd \in Fds : sockets'[fd] \in {sockets[fd], NoConn}
  BY <1>1, <1>2, <1>3, Installed DEF LoopInv
<1>5. snap' \in Seq(Report) /\ Watched'
  BY <1>1, <1>4, WatchedLater
<1>6. Drained'
  BY <1>2, <1>4, DrainedLater
<1>7. Shape'
  BY <1>1, <1>2, <1>4, <1>5 DEF LoopInv, Shape
<1> QED
  BY <1>4, <1>5, <1>6, <1>7 DEF LoopInv

\* The loop only moves on.
LEMMA MovesHold ==
  ASSUME LoopInv, pc \notin {"poll", "accept"},
         pc' \in {"poll", "handle", "read", "write"},
         snap' = snap \/ (snap # <<>> /\ snap' = Tail(snap)),
         \A s \in Slots : ~Whole(slots[s].inbuf),
         UNCHANGED <<slots, sockets, backlog, link, peer, wire, sock, room,
                     sent, handled>>
  PROVE  LoopInv'
<1>1. snap' \in Seq(Report) /\ Watched'
  BY WatchedLater
<1>2. Drained'
  BY DEF Drained, Whole, Announced
<1>3. Shape'
  BY <1>1 DEF LoopInv, Shape
<1>4. Wired'
  BY DEF LoopInv, Wired
<1> QED
  BY <1>1, <1>2, <1>3, <1>4 DEF LoopInv

LEMMA SelectHolds == LoopInv /\ Select => LoopInv'
<1> SUFFICES ASSUME LoopInv, Select
             PROVE  LoopInv'
  OBVIOUS
<1>1. /\ pc = "handle" /\ pc' \in {"poll", "handle", "read", "write"}
      /\ snap' = snap \/ (snap # <<>> /\ snap' = Tail(snap))
  BY DEF Select, NextEntry
<1>2. \A s \in Slots : ~Whole(slots[s].inbuf)
  BY <1>1 DEF LoopInv, Drained
<1> QED
  BY <1>1, <1>2, MovesHold DEF Select

LEMMA AcceptDoneHolds == LoopInv /\ AcceptDone => LoopInv'
<1> SUFFICES ASSUME LoopInv, AcceptDone
             PROVE  LoopInv'
  OBVIOUS
<1> USE DEF AcceptDone
<1>1. Shape' /\ Wired'
  BY DEF LoopInv, Shape, Wired
<1>2. Watched'
  BY DEF LoopInv, Watched
<1>3. Drained'
  BY DEF LoopInv, Drained, Whole, Announced
<1> QED
  BY <1>1, <1>2, <1>3 DEF LoopInv

LEMMA WouldBlockHolds ==
  ASSUME LoopInv, NEW s \in Slots, RecvWouldBlock(s)
  PROVE  LoopInv'
<1>1. /\ pc = "read" /\ pc' \in {"poll", "handle", "read", "write"}
      /\ snap' = snap \/ (snap # <<>> /\ snap' = Tail(snap))
  BY DEF RecvWouldBlock, AfterRead, NextEntry, Current
<1>2. \A t \in Slots : ~Whole(slots[t].inbuf)
  BY <1>1 DEF LoopInv, Drained
<1> QED
  BY <1>1, <1>2, MovesHold DEF RecvWouldBlock

LEMMA WriteDoneHolds ==
  ASSUME LoopInv, NEW s \in Slots, WriteDone(s)
  PROVE  LoopInv'
<1>1. /\ pc = "write" /\ pc' \in {"poll", "handle", "read", "write"}
      /\ snap' = snap \/ (snap # <<>> /\ snap' = Tail(snap))
  BY DEF WriteDone, NextEntry, Current
<1>2. \A t \in Slots : ~Whole(slots[t].inbuf)
  BY <1>1 DEF LoopInv, Drained
<1> QED
  BY <1>1, <1>2, MovesHold DEF WriteDone

LEMMA DrainMoreHolds ==
  ASSUME LoopInv, NEW s \in Slots, DrainMore(s)
  PROVE  LoopInv'
<1>1. pc = "drain" /\ pc' = "read" /\ snap' = snap
  BY DEF DrainMore
<1>2. \A t \in Slots : ~Whole(slots[t].inbuf)
  BY CurrentIsOne DEF LoopInv, Drained, DrainMore
<1> QED
  BY <1>1, <1>2, MovesHold DEF DrainMore

\* The places of the backlog without the first of them.
LEMMA BacklogTail ==
  ASSUME LoopInv, backlog # <<>>
  PROVE  /\ Head(backlog) \in Conns /\ link[Head(backlog)] = "backlog"
         /\ Tail(backlog) \in Seq(Conns)
         /\ \A i \in 1 .. Len(Tail(backlog)) :
              /\ link[Tail(backlog)[i]] = "backlog"
              /\ Tail(backlog)[i] # Head(backlog)
         /\ \A i, j \in 1 .. Len(Tail(backlog)) :
              Tail(backlog)[i] = Tail(backlog)[j] => i = j
<1> DEFINE rest == Tail(backlog)
<1>1. backlog \in Seq(Conns)
  BY DEF LoopInv, Shape
<1>2. /\ rest \in Seq(Conns) /\ Len(rest) = Len(backlog) - 1
      /\ \A i \in 1 .. Len(rest) : rest[i] = backlog[i + 1]
      /\ Head(backlog) \in Conns
  BY <1>1, HeadTailProperties
<1>3. Len(backlog) \in Nat \ {0}
  BY <1>1, EmptySeq
<1>4. Head(backlog) = backlog[1]
  BY <1>1, <1>3
<1> HIDE DEF rest
<1>5. \A i \in 1 .. Len(rest) : i + 1 \in 1 .. Len(backlog)
  BY <1>2, <1>3
<1>6. 1 \in 1 .. Len(backlog)
  BY <1>3
<1>7. /\ \A i \in 1 .. Len(backlog) : link[backlog[i]] = "backlog"
      /\ \A i, j \in 1 .. Len(backlog) : backlog[i] = backlog[j] => i = j
  BY DEF LoopInv, Wired
<1>8. \A i \in 1 .. Len(rest) :
        link[rest[i]] = "backlog" /\ rest[i] # Head(backlog)
  <2> TAKE i \in 1 .. Len(rest)
  <2>1. rest[i] = backlog[i + 1] /\ i + 1 \in 1 .. Len(backlog)
    BY <1>2, <1>5
  <2>2. i + 1 # 1
    BY <1>2, <1>3
  <2> QED
    BY <1>4, <1>6, <1>7, <2>1, <2>2
<1>9. \A i, j \in 1 .. Len(rest) : rest[i] = rest[j] => i = j
  <2> SUFFICES ASSUME NEW i \in 1 .. Len(rest), NEW j \in 1 .. Len(rest),
                      rest[i] = rest[j]
               PROVE  i = j
    OBVIOUS
  <2>1. i + 1 = j + 1
    BY <1>2, <1>5, <1>7
  <2> QED
    BY <1>2, <1>3, <2>1
<1> QED
  BY <1>2, <1>4, <1>6, <1>7, <1>8, <1>9 DEF rest

\* A descriptor is handed out only before the loop looks at any.
LEMMA AcceptHolds == LoopInv /\ Accept => LoopInv'
<1> SUFFICES ASSUME LoopInv, Accept
             PROVE  LoopInv'
  OBVIOUS
<1> DEFINE c == Head(backlog)
<1>1. /\ pc = "accept" /\ backlog # <<>> /\ backlog' = Tail(backlog)
      /\ UNCHANGED <<pc, snap, peer, room, sent, handled>>
  BY DEF Accept, AcceptFirst
<1>2. /\ c \in Conns /\ link[c] = "backlog" /\ backlog' \in Seq(Conns)
      /\ \A i \in 1 .. Len(backlog') :
           link[backlog'[i]] = "backlog" /\ backlog'[i] # c
      /\ \A i, j \in 1 .. Len(backlog') : backlog'[i] = backlog'[j] => i = j
  BY <1>1, BacklogTail
<1>3. \A i \in 1 .. Len(backlog') : backlog'[i] \in Conns
  BY <1>2, ElementOfSeq
<1>4. \A fd \in Fds : sockets[fd] # c
  BY <1>2 DEF LoopInv, Wired
<1>5. \A i \in 1 .. Len(snap) :
        /\ snap[i] \in Report /\ sockets[snap[i].fd] = snap[i].conn
  BY <1>1, ElementOfSeq DEF LoopInv, Shape, Watched
<1>6. \A s \in Slots : ~Whole(slots[s].inbuf)
  BY <1>1 DEF LoopInv, Drained
<1>7. NoConn \notin Conns
  BY LoopAssumption DEF LoopAssumption
<1>8. CASE \E fd \in Fds, s \in Slots :
             /\ sockets[fd] = NoConn /\ slots[s].fd = 0
             /\ sockets' = [sockets EXCEPT ![fd] = c]
             /\ slots' = [slots EXCEPT ![s] = [Blank EXCEPT !.fd = fd]]
             /\ link' = [link EXCEPT ![c] = "accepted"]
             /\ UNCHANGED <<wire, sock>>
  <2>1. PICK fd \in Fds, s \in Slots :
             /\ sockets[fd] = NoConn /\ slots[s].fd = 0
             /\ sockets' = [sockets EXCEPT ![fd] = c]
             /\ slots' = [slots EXCEPT ![s] = [Blank EXCEPT !.fd = fd]]
             /\ link' = [link EXCEPT ![c] = "accepted"]
             /\ UNCHANGED <<wire, sock>>
    BY <1>8
  <2> DEFINE used == [Blank EXCEPT !.fd = fd]
  <2>2. used \in Slot /\ used.fd = fd /\ used.inbuf = <<>>
    BY BlankIsSlot DEF Slot, Blank
  <2> HIDE DEF c, used
  <2>3. slots \in Table /\ slots' = [slots EXCEPT ![s] = used]
    BY <2>1 DEF used, LoopInv, Shape
  <2>4. \A t \in Slots : slots'[t] = IF t = s THEN used ELSE slots[t]
    BY <2>3 DEF Table
  <2>5. slots' \in Table
    BY <2>2, <2>3, <2>4, BlankIsSlot DEF Table
  <2>6. Shape'
    BY <1>1, <1>2, <2>1, <2>5 DEF LoopInv, Shape
  <2>7. Wired'
    <3>1. /\ sockets \in [Fds -> Conns \cup {NoConn}]
          /\ link \in [Conns -> {"new", "backlog", "accepted", "closed"}]
      BY DEF LoopInv, Shape
    <3>2. \A e \in Fds : sockets'[e] = IF e = fd THEN c ELSE sockets[e]
      BY <2>1, <3>1
    <3>3. \A d \in Conns : link'[d] = IF d = c THEN "accepted" ELSE link[d]
      BY <2>1, <3>1
    <3>4. \A t \in Slots : slots[t].fd # 0 =>
            slots[t].fd \in Fds /\ slots[t].fd # fd
      BY <1>7, <2>1, <2>3 DEF LoopInv, Wired, Table, Slot
    <3>5. fd # 0
      BY Constants
    <3>6. /\ \A t \in Slots : slots'[t].fd # 0 => sockets'[slots'[t].fd] \in Conns
          /\ \A t, u \in Slots :
               slots'[t].fd # 0 /\ slots'[t].fd = slots'[u].fd => t = u
      BY <1>2, <2>2, <2>4, <3>2, <3>4, <3>5 DEF LoopInv, Wired
    <3>7. /\ \A e \in Fds : sockets'[e] \in Conns => link'[sockets'[e]] = "accepted"
          /\ \A a, b \in Fds :
               sockets'[a] \in Conns /\ sockets'[a] = sockets'[b] => a = b
      BY <1>4, <3>2, <3>3 DEF LoopInv, Wired, c
    <3> QED
      BY <1>2, <1>3, <3>3, <3>6, <3>7 DEF Wired
  <2>8. Watched'
    <3>1. \A i \in 1 .. Len(snap) : snap[i].fd \in Fds /\ snap[i].fd # fd
      BY <1>5, <1>7, <2>1 DEF Report
    <3> QED
      BY <1>1, <1>5, <2>1, <3>1 DEF Watched, LoopInv, Shape
  <2>9. Drained'
    BY <1>6, <2>2, <2>4, BlankIsSlot DEF Drained, Whole, Announced
  <2> QED
    BY <2>6, <2>7, <2>8, <2>9 DEF LoopInv
<1>9. CASE /\ link' = [link EXCEPT ![c] = "closed"]
           /\ wire' = [wire EXCEPT ![c] = <<>>]
           /\ sock' = [sock EXCEPT ![c] = <<>>]
           /\ UNCHANGED <<slots, sockets>>
  <2>1. <<>> \in Seq(Unit)
    OBVIOUS
  <2> HIDE DEF c
  <2>2. Shape'
    BY <1>1, <1>2, <1>9, <2>1 DEF LoopInv, Shape
  <2>3. Wired'
    <3>1. \A d \in Conns : link'[d] = IF d = c THEN "closed" ELSE link[d]
      BY <1>9 DEF LoopInv, Shape
    <3> QED
      BY <1>2, <1>3, <1>4, <1>9, <3>1 DEF LoopInv, Wired, c
  <2>4. Watched'
    BY <1>1, <1>9 DEF LoopInv, Watched
  <2>5. Drained'
    BY <1>6, <1>9 DEF Drained, Whole, Announced
  <2> QED
    BY <2>2, <2>3, <2>4, <2>5 DEF LoopInv
<1> QED
  BY <1>8, <1>9 DEF Accept, AcceptFirst

\* Both parts of a sequence that is cut after its first n elements.
LEMMA Parts ==
  ASSUME NEW S, NEW q \in Seq(S), NEW n \in 0 .. Len(q)
  PROVE  /\ SubSeq(q, 1, n) \in Seq(S) /\ SubSeq(q, n + 1, Len(q)) \in Seq(S)
         /\ Len(SubSeq(q, 1, n)) = n
         /\ Len(SubSeq(q, n + 1, Len(q))) = Len(q) - n
         /\ \A i \in 1 .. n : SubSeq(q, 1, n)[i] = q[i]
         /\ \A i \in 1 .. Len(q) - n : SubSeq(q, n + 1, Len(q))[i] = q[n + i]
<1>1. Len(q) \in Nat /\ \A i \in 1 .. Len(q) : q[i] \in S
  BY LenProperties, ElementOfSeq
<1>2. /\ SubSeq(q, 1, n) \in Seq(S) /\ Len(SubSeq(q, 1, n)) = n
      /\ \A i \in 1 .. n : SubSeq(q, 1, n)[i] = q[i]
  <2>1. \A i \in 1 .. n : q[i] \in S
    BY <1>1
  <2> QED
    BY <1>1, <2>1, SubSeqProperties
<1>3. /\ SubSeq(q, n + 1, Len(q)) \in Seq(S)
      /\ Len(SubSeq(q, n + 1, Len(q))) = Len(q) - n
      /\ \A i \in 1 .. Len(q) - n : SubSeq(q, n + 1, Len(q))[i] = q[n + i]
  <2>1. \A i \in n + 1 .. Len(q) : q[i] \in S
    BY <1>1
  <2>2. n + 1 \in Int /\ Len(q) \in Int
    BY <1>1
  <2>3. /\ SubSeq(q, n + 1, Len(q)) \in Seq(S)
        /\ Len(SubSeq(q, n + 1, Len(q))) =
             IF n + 1 <= Len(q) THEN Len(q) - (n + 1) + 1 ELSE 0
        /\ \A i \in 1 .. Len(q) - (n + 1) + 1 :
             SubSeq(q, n + 1, Len(q))[i] = q[(n + 1) + i - 1]
    BY <2>1, <2>2, SubSeqProperties
  <2>4. \A i \in 1 .. Len(q) - n : (n + 1) + i - 1 = n + i
    BY <1>1
  <2> QED
    BY <1>1, <2>3, <2>4
<1> QED
  BY <1>2, <1>3

LEMMA RecvHolds ==
  ASSUME LoopInv, NEW s \in Slots, Recv(s)
  PROVE  LoopInv'
<1> DEFINE c == ConnOf(s)
           buf == slots[s].inbuf
           space == InbufCap - Len(buf)
           n == IF Len(sock[c]) < space THEN Len(sock[c]) ELSE space
<1>1. /\ pc = "read" /\ Current(s) /\ Len(buf) < InbufCap
      /\ slots' = [slots EXCEPT ![s].inbuf = buf \o SubSeq(sock[c], 1, n)]
      /\ sock' = [sock EXCEPT ![c] = SubSeq(sock[c], n + 1, Len(sock[c]))]
      /\ pc' = "drain"
      /\ UNCHANGED <<sockets, snap, backlog, link, peer, wire, room, sent,
                     handled>>
  BY DEF Recv
<1>2. c \in Conns
  BY <1>1, CurrentIsOne
<1>3. /\ sock[c] \in Seq(Unit) /\ buf \in Seq(Unit) /\ slots[s] \in Slot
      /\ Len(buf) \in Nat /\ Len(sock[c]) \in Nat
  <2> HIDE DEF c
  <2>1. sock[c] \in Seq(Unit) /\ slots[s] \in Slot
    BY <1>2 DEF LoopInv, Shape, Table
  <2>2. buf \in Seq(Unit)
    BY <2>1 DEF Slot
  <2> QED
    BY <2>1, <2>2, LenProperties
<1> HIDE DEF c, buf
<1>4. n \in 0 .. Len(sock[c]) /\ n <= space
  <2>1. InbufCap - Len(buf) \in Nat
    BY <1>1, <1>3, Constants
  <2> QED
    BY <1>3, <2>1
<1> HIDE DEF n
<1>5. /\ SubSeq(sock[c], 1, n) \in Seq(Unit) /\ Len(SubSeq(sock[c], 1, n)) = n
      /\ SubSeq(sock[c], n + 1, Len(sock[c])) \in Seq(Unit)
  BY <1>3, <1>4, Parts
<1> DEFINE new == buf \o SubSeq(sock[c], 1, n)
<1>6. new \in Seq(Unit) /\ Len(new) <= InbufCap
  <2>1. new \in Seq(Unit) /\ Len(new) = Len(buf) + n
    BY <1>3, <1>5, ConcatProperties
  <2> QED
    BY <1>3, <1>4, <2>1, Constants
<1> HIDE DEF new
<1>7. slots' = [slots EXCEPT ![s].inbuf = new]
  BY <1>1 DEF new
<1>8. slots \in Table
  BY DEF LoopInv, Shape
<1>9. /\ slots' \in [Slots -> Slot]
      /\ slots'[s].inbuf = new /\ slots'[s].fd = slots[s].fd
      /\ \A t \in Slots : t # s => slots'[t] = slots[t]
  BY <1>3, <1>6, <1>7, <1>8 DEF Table, Slot
<1>10. slots' \in Table
  BY <1>6, <1>8, <1>9 DEF Table
<1>11. Shape'
  <2>1. sock' \in [Conns -> Seq(Unit)]
    BY <1>1, <1>5 DEF LoopInv, Shape
  <2> QED
    BY <1>1, <1>10, <2>1 DEF LoopInv, Shape
<1>12. \A t \in Slots : slots'[t].fd = slots[t].fd
  BY <1>9
<1>13. Wired'
  BY <1>1, <1>12 DEF LoopInv, Wired
<1>14. Watched'
  BY <1>1 DEF LoopInv, Watched
<1>15. Drained'
  <2>1. \A t \in Slots : ~Whole(slots[t].inbuf)
    BY <1>1 DEF LoopInv, Drained
  <2> QED
    BY <1>1, <1>9, <2>1 DEF Drained, Whole, Announced, Current
<1> QED
  BY <1>11, <1>13, <1>14, <1>15 DEF LoopInv

LEMMA SendSomeHolds ==
  ASSUME LoopInv, NEW s \in Slots, SendSome(s)
  PROVE  LoopInv'
<1>1. PICK k \in 1 .. room[ConnOf(s)] :
        /\ k <= slots[s].out
        /\ slots' = [slots EXCEPT ![s].out = @ - k]
        /\ room' = [room EXCEPT ![ConnOf(s)] = @ - k]
  BY DEF SendSome
<1>2. /\ pc = "write" /\ ConnOf(s) \in Conns
      /\ UNCHANGED <<sockets, pc, snap, backlog, link, peer, wire, sock, sent,
                     handled>>
  BY CurrentIsOne DEF SendSome
<1>3. room[ConnOf(s)] \in 0 .. SendBuffer /\ slots[s] \in Slot
      /\ slots \in Table
  BY <1>2 DEF LoopInv, Shape, Table
<1>4. slots[s].out - k \in 0 .. MaxQueue /\ room[ConnOf(s)] - k \in 0 .. SendBuffer
  <2>1. slots[s].out \in 0 .. MaxQueue
    BY <1>3 DEF Slot
  <2>2. \A out \in 0 .. MaxQueue, r \in 0 .. SendBuffer : \A n \in 1 .. r :
          n <= out => out - n \in 0 .. MaxQueue /\ r - n \in 0 .. SendBuffer
    BY Constants
  <2> QED
    BY <1>1, <1>3, <2>1, <2>2
<1>5. /\ slots' \in [Slots -> Slot]
      /\ \A t \in Slots : /\ slots'[t].fd = slots[t].fd
                          /\ slots'[t].inbuf = slots[t].inbuf
  BY <1>1, <1>3, <1>4 DEF Table, Slot
<1>6. Shape'
  <2>1. slots' \in Table
    BY <1>3, <1>5 DEF Table
  <2>2. room' \in [Conns -> 0 .. SendBuffer]
    BY <1>1, <1>4 DEF LoopInv, Shape
  <2> QED
    BY <1>2, <2>1, <2>2 DEF LoopInv, Shape
<1>7. Wired'
  BY <1>2, <1>5 DEF LoopInv, Wired
<1>8. Watched'
  BY <1>2 DEF LoopInv, Watched
<1>9. Drained'
  BY <1>2, <1>5, DrainedLater
<1> QED
  BY <1>6, <1>7, <1>8, <1>9 DEF LoopInv

LEMMA DrainBadHolds ==
  ASSUME LoopInv, NEW s \in Slots, DrainBad(s)
  PROVE  LoopInv'
<1> DEFINE new == Post(slots, {s})
<1>1. /\ pc = "drain" /\ Current(s) /\ Bad(slots[s].inbuf)
      /\ Install(new, sock)
      /\ IF new[s].fd = 0 THEN NextEntry ELSE AfterRead
      /\ UNCHANGED <<backlog, peer, room, sent, handled>>
  BY DEF DrainBad
<1>2. /\ new \in Table
      /\ \A t \in Slots : \/ new[t] = Blank
                          \/ /\ new[t].fd = slots[t].fd
                             /\ new[t].inbuf = slots[t].inbuf
  BY PostIsTable DEF LoopInv, Shape
<1> HIDE DEF new
<1>3. \A t \in Slots : new[t].fd \in {0, slots[t].fd}
  BY <1>2, BlankIsSlot
<1>4. /\ slots' = new /\ Wired'
      /\ sockets' \in [Fds -> Conns \cup {NoConn}]
      /\ link' \in [Conns -> {"new", "backlog", "accepted", "closed"}]
      /\ wire' \in [Conns -> Seq(Unit)] /\ sock' \in [Conns -> Seq(Unit)]
      /\ \A fd \in Fds : sockets'[fd] \in {sockets[fd], NoConn}
  BY <1>1, <1>2, <1>3, Installed DEF LoopInv
<1>5. /\ pc' \in {"handle", "write"}
      /\ snap' = snap \/ (snap # <<>> /\ snap' = Tail(snap))
  BY <1>1 DEF AfterRead, NextEntry, Current
<1>6. snap' \in Seq(Report) /\ Watched'
  BY <1>1, <1>4, <1>5, WatchedLater
<1>7. Drained'
  <2>1. \A t \in Slots : ~Whole(slots[t].inbuf)
    <3>1. ~Whole(slots[s].inbuf)
      <4>1. Announced(slots[s].inbuf) \in Int
        <5>1. /\ slots[s].inbuf \in Seq(Unit) /\ Len(slots[s].inbuf) >= HeaderSize
          BY <1>1 DEF LoopInv, Shape, Table, Slot, Bad
        <5>2. slots[s].inbuf # <<>>
          BY <5>1, Constants
        <5>3. Head(slots[s].inbuf) \in Unit
          BY <5>1, <5>2, HeadTailProperties
        <5> QED
          BY <5>3, Constants DEF Announced, Unit
      <4> QED
        BY <1>1, <4>1, Constants DEF Bad, Whole
    <3>2. \A t \in Slots : Current(t) => t = s
      BY <1>1, CurrentIsOne
    <3> QED
      BY <3>1, <3>2 DEF LoopInv, Drained
  <2> QED
    BY <1>2, <1>4, <2>1, BlankIsSlot DEF Drained, Whole, Announced
<1>8. Shape'
  BY <1>1, <1>2, <1>4, <1>5, <1>6 DEF LoopInv, Shape
<1> QED
  BY <1>4, <1>6, <1>7, <1>8 DEF LoopInv

\* The first frame of the buffer, and what is behind it.
LEMMA WholeFrame ==
  ASSUME LoopInv, NEW s \in Slots, Whole(slots[s].inbuf)
  PROVE  LET buf == slots[s].inbuf
             n == Announced(buf)
         IN  /\ slots[s] \in Slot /\ buf \in Seq(Unit) /\ buf[1] \in Unit
             /\ n = HeaderSize + buf[1].len
             /\ n \in 1 .. Len(buf) /\ n <= InbufCap
             /\ SubSeq(buf, 1, n) \in Seq(Unit)
             /\ [slots EXCEPT ![s].inbuf = SubSeq(buf, n + 1, Len(buf))] \in Table
<1> DEFINE buf == slots[s].inbuf
           n == Announced(buf)
           rest == SubSeq(buf, n + 1, Len(buf))
<1>1. slots \in Table /\ slots[s] \in Slot /\ buf \in Seq(Unit)
  BY DEF LoopInv, Shape, Table, Slot
<1>2. Len(buf) \in Nat /\ Len(buf) >= HeaderSize
  BY <1>1, LenProperties DEF Whole
<1>3. buf[1] \in Unit /\ Head(buf) = buf[1]
  <2>1. 1 \in 1 .. Len(buf)
    BY <1>2, Constants
  <2> HIDE DEF buf
  <2> QED
    BY <1>1, <2>1, ElementOfSeq
<1>4. n = HeaderSize + buf[1].len /\ n \in 1 .. Len(buf) /\ n <= InbufCap
  BY <1>2, <1>3, Constants DEF Whole, Announced, Unit
<1> HIDE DEF buf, n
<1>5. /\ SubSeq(buf, 1, n) \in Seq(Unit) /\ rest \in Seq(Unit)
      /\ Len(rest) = Len(buf) - n
  <2>1. n \in 0 .. Len(buf)
    BY <1>4
  <2> QED
    BY <1>1, <2>1, Parts
<1>6. Len(rest) <= InbufCap
  <2>1. Len(buf) <= InbufCap
    BY <1>1 DEF Table, buf
  <2> QED
    BY <1>2, <1>4, <1>5, <2>1, Constants
<1> HIDE DEF rest
<1>7. [slots EXCEPT ![s].inbuf = rest] \in Table
  <2>1. [slots[s] EXCEPT !.inbuf = rest] \in Slot
    BY <1>1, <1>5 DEF Slot
  <2> QED
    BY <1>1, <1>6, <2>1 DEF Table, Slot
<1> QED
  BY <1>1, <1>3, <1>4, <1>5, <1>7 DEF buf, n, rest

\* DrainFrame, with the table that it leaves: its descriptors are those of
\* before or none, and so are the buffers, apart from the frame.
LEMMA DrainFrameDoes ==
  ASSUME LoopInv, NEW s \in Slots, DrainFrame(s)
  PROVE  LET buf == slots[s].inbuf
             n == Announced(buf)
             rest == [slots EXCEPT ![s].inbuf = SubSeq(buf, n + 1, Len(buf))]
         IN  \E new \in Table :
               /\ \A t \in Slots : \/ new[t] = Blank
                                   \/ /\ new[t].fd = slots[t].fd
                                      /\ new[t].inbuf = rest[t].inbuf
               /\ \A t \in Slots : new[t].fd \in {0, slots[t].fd}
               /\ Install(new, sock)
               /\ handled' = [handled EXCEPT ![ConnOf(s)] =
                               Append(@, SubSeq(buf, 1, n))]
               /\ IF new[s].fd = 0 THEN NextEntry ELSE UNCHANGED <<pc, snap>>
<1> DEFINE buf == slots[s].inbuf
           n == Announced(buf)
           rest == [slots EXCEPT ![s].inbuf = SubSeq(buf, n + 1, Len(buf))]
           Fits(new) ==
             /\ new \in Table
             /\ \A t \in Slots : \/ new[t] = Blank
                                 \/ /\ new[t].fd = slots[t].fd
                                    /\ new[t].inbuf = rest[t].inbuf
<1>1. rest \in Table /\ \A t \in Slots : rest[t].fd = slots[t].fd
  <2>1. rest \in Table
    BY WholeFrame DEF DrainFrame
  <2> QED
    BY <2>1 DEF LoopInv, Shape, Table, Slot
<1>2. \E new :
        /\ new = [rest EXCEPT ![s] = Blank]
           \/ \E R \in SUBSET Slots : new = Post(rest, R)
        /\ Install(new, sock)
        /\ IF new[s].fd = 0 THEN NextEntry ELSE UNCHANGED <<pc, snap>>
  BY DEF DrainFrame
<1>3. handled' = [handled EXCEPT ![ConnOf(s)] = Append(@, SubSeq(buf, 1, n))]
  BY DEF DrainFrame
<1> HIDE DEF rest
<1>4. Fits([rest EXCEPT ![s] = Blank])
  BY <1>1, BlankIsSlot DEF Table
<1>5. \A R \in SUBSET Slots : Fits(Post(rest, R))
  BY <1>1, PostIsTable
<1>6. \A new : Fits(new) => \A t \in Slots : new[t].fd \in {0, slots[t].fd}
  BY BlankIsSlot
<1>7. PICK new :
        /\ new = [rest EXCEPT ![s] = Blank]
           \/ \E R \in SUBSET Slots : new = Post(rest, R)
        /\ Install(new, sock)
        /\ IF new[s].fd = 0 THEN NextEntry ELSE UNCHANGED <<pc, snap>>
  BY <1>2
<1> HIDE DEF Fits
<1>8. Fits(new)
  BY <1>4, <1>5, <1>7
<1>9. \A t \in Slots : new[t].fd \in {0, slots[t].fd}
  BY <1>6, <1>8
<1> QED
  BY <1>3, <1>7, <1>8, <1>9 DEF rest, Fits

LEMMA DrainFrameHolds ==
  ASSUME LoopInv, NEW s \in Slots, DrainFrame(s)
  PROVE  LoopInv'
<1> DEFINE buf == slots[s].inbuf
           n == Announced(buf)
           rest == [slots EXCEPT ![s].inbuf = SubSeq(buf, n + 1, Len(buf))]
<1>1. PICK new \in Table :
        /\ \A t \in Slots : \/ new[t] = Blank
                            \/ /\ new[t].fd = slots[t].fd
                               /\ new[t].inbuf = rest[t].inbuf
        /\ \A t \in Slots : new[t].fd \in {0, slots[t].fd}
        /\ Install(new, sock)
        /\ handled' = [handled EXCEPT ![ConnOf(s)] =
                        Append(@, SubSeq(buf, 1, n))]
        /\ IF new[s].fd = 0 THEN NextEntry ELSE UNCHANGED <<pc, snap>>
  BY DrainFrameDoes
<1>2. /\ pc = "drain" /\ Current(s) /\ Whole(buf)
      /\ UNCHANGED <<backlog, peer, room, sent>>
  BY DEF DrainFrame
<1>3. ConnOf(s) \in Conns /\ SubSeq(buf, 1, n) \in Seq(Unit)
  BY <1>2, CurrentIsOne, WholeFrame
<1>4. \A t \in Slots : t # s => rest[t] = slots[t]
  BY DEF LoopInv, Shape, Table
<1> HIDE DEF buf, n, rest
<1>5. /\ slots' = new /\ Wired'
      /\ sockets' \in [Fds -> Conns \cup {NoConn}]
      /\ link' \in [Conns -> {"new", "backlog", "accepted", "closed"}]
      /\ wire' \in [Conns -> Seq(Unit)] /\ sock' \in [Conns -> Seq(Unit)]
      /\ \A fd \in Fds : sockets'[fd] \in {sockets[fd], NoConn}
  BY <1>1, <1>2, Installed DEF LoopInv
<1>6. /\ pc' \in {"handle", "drain"}
      /\ snap' = snap \/ (snap # <<>> /\ snap' = Tail(snap))
  BY <1>1, <1>2 DEF NextEntry, Current
<1>7. snap' \in Seq(Report) /\ Watched'
  BY <1>2, <1>5, <1>6, WatchedLater
<1>8. Drained'
  <2>1. ASSUME NEW t \in Slots, t # s
        PROVE  ~Whole(slots'[t].inbuf)
    <3>1. ~Whole(slots[t].inbuf)
      BY <1>2, <2>1, CurrentIsOne DEF LoopInv, Drained
    <3> QED
      BY <1>1, <1>4, <1>5, <2>1, <3>1, BlankIsSlot
  <2>2. new[s] = Blank \/ new[s].fd = slots[s].fd
    BY <1>1
  <2>3. slots[s].fd # 0
    BY <1>2, CurrentIsOne
  <2>4. Whole(slots'[s].inbuf) => pc' = "drain" /\ Current(s)'
    BY <1>1, <1>2, <1>5, <2>2, <2>3, BlankIsSlot DEF Current
  <2> QED
    BY <2>1, <2>4 DEF Drained, Whole, Announced
<1>9. Shape'
  <2>1. handled' \in [Conns -> Seq(Seq(Unit))]
    BY <1>1, <1>3 DEF LoopInv, Shape
  <2> QED
    BY <1>1, <1>2, <1>5, <1>6, <1>7, <2>1 DEF LoopInv, Shape
<1> QED
  BY <1>5, <1>7, <1>8, <1>9 DEF LoopInv

-----------------------------------------------------------------------------
(* The peers.                                                              *)

LEMMA UnitsAre ==
  ASSUME NEW c \in Conns, NEW k \in Nat, NEW n \in PayloadSizes
  PROVE  /\ n \in Nat /\ HeaderSize + n \in Nat \ {0}
         /\ Units(c, k, n) \in Seq(Unit) /\ Len(Units(c, k, n)) = HeaderSize + n
         /\ \A i \in 1 .. HeaderSize + n :
              Units(c, k, n)[i] = [conn |-> c, frame |-> k, at |-> i, len |-> n]
<1>1. n \in Nat /\ HeaderSize + n \in Nat \ {0}
  BY LoopAssumption DEF LoopAssumption
<1>2. \A i \in 1 .. HeaderSize + n :
        [conn |-> c, frame |-> k, at |-> i, len |-> n] \in Unit
  BY <1>1 DEF Unit
<1> QED
  BY <1>1, <1>2 DEF Units

LEMMA ConnectHolds ==
  ASSUME LoopInv, NEW c \in Conns, Connect(c)
  PROVE  LoopInv'
<1>1. /\ link[c] = "new" /\ link' = [link EXCEPT ![c] = "backlog"]
      /\ backlog' = Append(backlog, c)
      /\ UNCHANGED <<server, peer, wire, sock, room, sent>>
  BY DEF Connect
<1>2. /\ backlog' \in Seq(Conns) /\ Len(backlog') = Len(backlog) + 1
      /\ \A i \in 1 .. Len(backlog) : backlog'[i] = backlog[i]
      /\ backlog'[Len(backlog) + 1] = c /\ Len(backlog) \in Nat
  BY <1>1, AppendProperties, LenProperties DEF LoopInv, Shape
<1>3. \A d \in Conns : link'[d] = IF d = c THEN "backlog" ELSE link[d]
  BY <1>1 DEF LoopInv, Shape
<1>4. Shape'
  BY <1>1, <1>2 DEF LoopInv, Shape, server
<1>5. Wired'
  <2>1. \A i \in 1 .. Len(backlog) : backlog[i] \in Conns /\ backlog[i] # c
    BY <1>1, ElementOfSeq DEF LoopInv, Shape, Wired
  <2>2. \A fd \in Fds : sockets[fd] # c
    BY <1>1 DEF LoopInv, Wired
  <2> QED
    BY <1>1, <1>2, <1>3, <2>1, <2>2 DEF LoopInv, Wired, server
<1>6. Watched'
  BY <1>1 DEF LoopInv, Watched, server
<1>7. Drained'
  BY <1>1 DEF LoopInv, Drained, Whole, Announced, Current, server
<1> QED
  BY <1>4, <1>5, <1>6, <1>7 DEF LoopInv

\* What peers and network do to the contents of a connection.
LEMMA NetworkHolds ==
  ASSUME LoopInv, UNCHANGED <<server, backlog, link>>,
         peer' \in [Conns -> {"open", "finished", "reset"}],
         wire' \in [Conns -> Seq(Unit)], sock' \in [Conns -> Seq(Unit)],
         room' \in [Conns -> 0 .. SendBuffer],
         sent' \in [Conns -> Seq(Seq(Unit))]
  PROVE  LoopInv'
<1>1. Shape'
  BY DEF LoopInv, Shape, server
<1>2. Wired'
  BY DEF LoopInv, Wired, server
<1>3. Watched'
  BY DEF LoopInv, Watched, server
<1>4. Drained'
  BY DEF LoopInv, Drained, Whole, Announced, Current, server
<1> QED
  BY <1>1, <1>2, <1>3, <1>4 DEF LoopInv

LEMMA SendHolds ==
  ASSUME LoopInv, NEW c \in Conns, NEW n \in PayloadSizes, Send(c, n)
  PROVE  LoopInv'
<1> DEFINE f == Units(c, Len(sent[c]) + 1, n)
<1>1. /\ wire' = [wire EXCEPT ![c] = @ \o f]
      /\ sent' = [sent EXCEPT ![c] = Append(@, f)]
      /\ UNCHANGED <<server, backlog, link, peer, sock, room>>
  BY DEF Send
<1>2. wire[c] \in Seq(Unit) /\ sent[c] \in Seq(Seq(Unit))
  BY DEF LoopInv, Shape
<1>3. f \in Seq(Unit)
  <2>1. Len(sent[c]) + 1 \in Nat
    BY <1>2, LenProperties
  <2> QED
    BY <2>1, UnitsAre
<1> HIDE DEF f
<1>4. wire[c] \o f \in Seq(Unit) /\ Append(sent[c], f) \in Seq(Seq(Unit))
  BY <1>2, <1>3, ConcatProperties, AppendProperties
<1>5. /\ wire' \in [Conns -> Seq(Unit)]
      /\ sent' \in [Conns -> Seq(Seq(Unit))]
  BY <1>1, <1>4 DEF LoopInv, Shape
<1> QED
  BY <1>1, <1>5, NetworkHolds DEF LoopInv, Shape

LEMMA ArriveHolds ==
  ASSUME LoopInv, NEW c \in Conns, Arrive(c)
  PROVE  LoopInv'
<1>1. PICK k \in 1 .. Len(wire[c]) :
        /\ sock' = [sock EXCEPT ![c] = @ \o SubSeq(wire[c], 1, k)]
        /\ wire' = [wire EXCEPT ![c] = SubSeq(@, k + 1, Len(@))]
  BY DEF Arrive
<1>2. UNCHANGED <<server, backlog, link, peer, room, sent>>
  BY DEF Arrive
<1>3. wire[c] \in Seq(Unit) /\ sock[c] \in Seq(Unit) /\ k \in 0 .. Len(wire[c])
  BY <1>1 DEF LoopInv, Shape
<1>4. /\ SubSeq(wire[c], 1, k) \in Seq(Unit)
      /\ SubSeq(wire[c], k + 1, Len(wire[c])) \in Seq(Unit)
  BY <1>3, Parts
<1>5. sock[c] \o SubSeq(wire[c], 1, k) \in Seq(Unit)
  BY <1>3, <1>4, ConcatProperties
<1>6. wire' \in [Conns -> Seq(Unit)] /\ sock' \in [Conns -> Seq(Unit)]
  BY <1>1, <1>4, <1>5 DEF LoopInv, Shape
<1> QED
  BY <1>2, <1>6, NetworkHolds DEF LoopInv, Shape

LEMMA FinishHolds ==
  ASSUME LoopInv, NEW c \in Conns, Finish(c)
  PROVE  LoopInv'
<1>1. /\ peer' = [peer EXCEPT ![c] = "finished"]
      /\ UNCHANGED <<server, backlog, link, sock, room, sent>>
  BY DEF Finish
<1>2. wire[c] \in Seq(Unit) /\ Len(sent[c]) + 1 \in Nat
  <2>1. sent[c] \in Seq(Seq(Unit))
    BY DEF LoopInv, Shape
  <2> QED
    BY <2>1, LenProperties DEF LoopInv, Shape
<1>3. wire' \in [Conns -> Seq(Unit)]
  <2>1. CASE UNCHANGED wire
    BY <2>1 DEF LoopInv, Shape
  <2>2. ASSUME NEW n \in PayloadSizes, NEW k \in 1 .. HeaderSize + n - 1,
               wire' = [wire EXCEPT ![c] =
                          @ \o SubSeq(Units(c, Len(sent[c]) + 1, n), 1, k)]
        PROVE  wire' \in [Conns -> Seq(Unit)]
    <3> DEFINE part == SubSeq(Units(c, Len(sent[c]) + 1, n), 1, k)
    <3>1. part \in Seq(Unit)
      <4> DEFINE u == Units(c, Len(sent[c]) + 1, n)
      <4>1. u \in Seq(Unit) /\ Len(u) = HeaderSize + n /\ n \in Nat
        BY <1>2, UnitsAre
      <4> HIDE DEF u
      <4>2. k \in 0 .. Len(u)
        BY <4>1, Constants
      <4>3. SubSeq(u, 1, k) \in Seq(Unit)
        BY <4>1, <4>2, Parts
      <4> QED
        BY <4>3 DEF u
    <3> HIDE DEF part
    <3>2. wire[c] \o part \in Seq(Unit)
      BY <1>2, <3>1, ConcatProperties
    <3>3. wire' = [wire EXCEPT ![c] = wire[c] \o part]
      BY <2>2 DEF part
    <3> QED
      BY <3>2, <3>3 DEF LoopInv, Shape
  <2> QED
    BY <2>1, <2>2 DEF Finish
<1>4. peer' \in [Conns -> {"open", "finished", "reset"}]
  BY <1>1 DEF LoopInv, Shape
<1> QED
  BY <1>1, <1>3, <1>4, NetworkHolds DEF LoopInv, Shape

LEMMA PeerHolds ==
  ASSUME LoopInv, NEW c \in Conns, Peer(c)
  PROVE  LoopInv'
<1>1. CASE Reset(c)
  <2>1. <<>> \in Seq(Unit)
    OBVIOUS
  <2>2. /\ peer' \in [Conns -> {"open", "finished", "reset"}]
        /\ wire' \in [Conns -> Seq(Unit)]
    BY <1>1, <2>1 DEF LoopInv, Shape, Reset
  <2> QED
    BY <1>1, <2>2, NetworkHolds DEF LoopInv, Shape, Reset
<1>2. CASE PeerReads(c)
  <2>1. room' \in [Conns -> 0 .. SendBuffer]
    BY <1>2, Constants DEF LoopInv, Shape, PeerReads
  <2> QED
    BY <1>2, <2>1, NetworkHolds DEF LoopInv, Shape, PeerReads
<1> QED
  BY <1>1, <1>2, ConnectHolds, SendHolds, ArriveHolds, FinishHolds DEF Peer

-----------------------------------------------------------------------------
(* The theorems.                                                           *)

LEMMA InitHolds == Init => LoopInv
<1> SUFFICES ASSUME Init
             PROVE  LoopInv
  OBVIOUS
<1> USE DEF Init
<1>1. Shape
  <2>1. slots \in Table
    BY BlankIsSlot DEF Table
  <2> QED
    BY <2>1, Constants DEF Shape
<1>2. Wired
  BY BlankIsSlot, LoopAssumption DEF Wired, LoopAssumption
<1>3. Watched /\ Drained
  BY BlankIsSlot DEF Watched, Drained
<1> QED
  BY <1>1, <1>2, <1>3 DEF LoopInv

LEMMA ServeHolds ==
  ASSUME LoopInv, NEW s \in Slots, Serve(s)
  PROVE  LoopInv'
<1>1. CASE PollError(s) \/ InputFull(s) \/ RecvEnds(s) \/ SendFails(s)
  BY <1>1, CloseHolds DEF PollError, InputFull, RecvEnds, SendFails
<1> QED
  BY <1>1, RecvHolds, WouldBlockHolds, DrainMoreHolds, DrainBadHolds,
     DrainFrameHolds, SendSomeHolds, WriteDoneHolds DEF Serve

LEMMA NextHolds == LoopInv /\ [Next]_vars => LoopInv'
<1> SUFFICES ASSUME LoopInv, [Next]_vars
             PROVE  LoopInv'
  OBVIOUS
<1>1. CASE UNCHANGED vars
  BY <1>1 DEF vars, LoopInv, Shape, Wired, Watched, Drained, Whole, Announced,
              Current
<1>2. CASE Loop
  BY <1>2, PollHolds, AcceptHolds, AcceptDoneHolds, SelectHolds, ServeHolds
     DEF Loop
<1> QED
  BY <1>1, <1>2, PeerHolds DEF Next

LEMMA AlwaysHolds == Spec => []LoopInv
<1> QED
  BY InitHolds, NextHolds, PTL DEF Spec

\* The buffers, the queues and the descriptors of the loop stay within their
\* bounds, in particular what is queued for a client.
THEOREM TypeCorrect == Spec => []TypeOK
<1>1. LoopInv => TypeOK
  <2> SUFFICES ASSUME LoopInv
               PROVE  TypeOK
    OBVIOUS
  <2>1. \A s \in Slots : slots[s] \in Slot /\ Len(slots[s].inbuf) <= InbufCap
    BY DEF LoopInv, Shape, Table
  <2> QED
    BY <2>1 DEF LoopInv, Shape, TypeOK, Slot
<1> QED
  BY <1>1, AlwaysHolds, PTL

\* What poll reported about a connection is not acted upon for another one,
\* although descriptors are closed and given out again.
THEOREM ConnectionIsRight == Spec => []RightConnection
<1>1. LoopInv => RightConnection
  <2> SUFFICES ASSUME LoopInv, pc # "poll", NEW i \in DOMAIN snap,
                      NEW s \in Slots, slots[s].fd = snap[i].fd
               PROVE  ConnOf(s) = snap[i].conn
    BY DEF RightConnection
  <2>1. i \in 1 .. Len(snap) /\ snap[i] \in Report
    BY LenProperties, ElementOfSeq DEF LoopInv, Shape
  <2>2. slots[s].fd # 0
    BY <2>1, Constants DEF Report
  <2>3. sockets[slots[s].fd] \in Conns
    BY <2>2 DEF LoopInv, Wired
  <2> QED
    BY <2>1, <2>3, LoopAssumption DEF LoopInv, Watched, ConnOf, LoopAssumption
<1> QED
  BY <1>1, AlwaysHolds, PTL

\* The branch "input buffer full" is reached only behind a header that
\* announces more than the buffer holds.
THEOREM FullIsBad == Spec => []FullOnlyBehindBadHeader
<1>1. LoopInv => FullOnlyBehindBadHeader
  <2> SUFFICES ASSUME LoopInv, NEW s \in Slots, pc = "read",
                      Len(slots[s].inbuf) = InbufCap
               PROVE  Bad(slots[s].inbuf)
    BY DEF FullOnlyBehindBadHeader
  <2>1. ~Whole(slots[s].inbuf)
    BY DEF LoopInv, Drained
  <2>2. slots[s].inbuf \in Seq(Unit)
    BY DEF LoopInv, Shape, Table, Slot
  <2>3. slots[s].inbuf # <<>>
    BY Constants
  <2>4. Head(slots[s].inbuf) \in Unit
    BY <2>2, <2>3, HeadTailProperties
  <2>5. Announced(slots[s].inbuf) \in Int
    BY <2>4, Constants DEF Announced, Unit
  <2> QED
    BY <2>1, <2>5, Constants DEF Whole, Bad
<1> QED
  BY <1>1, AlwaysHolds, PTL
=============================================================================
