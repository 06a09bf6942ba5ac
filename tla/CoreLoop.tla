------------------------------ MODULE CoreLoop ------------------------------
(***************************************************************************)
(* The event loop of the messaging core, core/src/server.c: poll, accept,  *)
(* recv, the reassembly of frames from the bytes that happen to arrive,    *)
(* send.  What the handlers do with a frame is the subject of CoreServer;  *)
(* here a handled frame queues answers for any clients, some of which may  *)
(* overflow, or ends its sender's connection.                              *)
(*                                                                         *)
(* The kernel and the peers are not the program: they are modelled as the  *)
(* loop meets them.  A byte is a unit that remembers the frame it is part  *)
(* of; the code looks only at the length its frame's header announces.     *)
(* One action is one system call of the loop, so that the peers act        *)
(* between any two of them.                                                *)
(*                                                                         *)
(* An operator whose comment starts with DEFECT is a plausible mistake in  *)
(* the operator after it, which the specification does not use.            *)
(***************************************************************************)
EXTENDS Naturals, Sequences, SequencesExt

CONSTANTS
  MaxClients,    \* CW_MAX_CLIENTS
  MaxFds,        \* file descriptors that the process may have open
  Conns,         \* the connections that peers make
  NoConn,        \* what a closed descriptor refers to
  HeaderSize,    \* CW_FRAME_HEADER_SIZE, in units
  MaxPayload,    \* CW_MAX_PAYLOAD_SIZE, in units
  PayloadSizes,  \* the payload lengths that peers announce
  MaxFrames,     \* bound on the frames of one connection
  ReplyUnits,    \* the length of an answer
  MaxQueue,      \* max_queue_bytes, in units
  SendBuffer,    \* room in the send buffer of a socket
  Breaks         \* which of "finish", "cut" and "reset" peers may do

Slots == 1 .. MaxClients
Fds == 1 .. MaxFds
InbufCap == HeaderSize + MaxPayload

ASSUME LoopAssumption ==
  /\ {MaxClients, HeaderSize, ReplyUnits, SendBuffer} \subseteq Nat \ {0}
  /\ {MaxPayload, MaxFrames, MaxQueue} \subseteq Nat
  /\ PayloadSizes \subseteq Nat
  /\ MaxFds \in Nat /\ MaxFds > MaxClients
  /\ NoConn \notin Conns

VARIABLES
  slots,    \* clients[]: fd (0 for -1), inbuf, and what is left to send
  sockets,  \* the connection behind each file descriptor
  pc,       \* where the loop is
  snap,     \* what is left of pfds[], with the revents that poll reported
  backlog,  \* connections that wait in the listener's queue
  link,     \* how far each connection has got
  peer,     \* what its peer has done to it
  wire,     \* units that have not arrived yet
  sock,     \* units in the receive buffer of the server's socket
  room,     \* free units in the send buffer of the server's socket
  sent,     \* history: the frames that its peer sent
  handled   \* history: the bytes that handle_frame was called with

server == <<slots, sockets, pc, snap, handled>>
vars == <<slots, sockets, pc, snap, backlog, link, peer, wire, sock, room,
          sent, handled>>

\* The k-th frame of connection c, with a payload of n units.
Units(c, k, n) ==
  [i \in 1 .. HeaderSize + n |->
     [conn |-> c, frame |-> k, at |-> i, len |-> n]]

Frames == {Units(c, k, n) :
             c \in Conns, k \in 1 .. MaxFrames, n \in PayloadSizes}

Blank == [fd |-> 0, inbuf |-> <<>>, out |-> 0]

Init ==
  /\ slots = [s \in Slots |-> Blank]
  /\ sockets = [fd \in Fds |-> NoConn]
  /\ pc = "poll" /\ snap = <<>>
  /\ backlog = <<>>
  /\ link = [c \in Conns |-> "new"]
  /\ peer = [c \in Conns |-> "open"]
  /\ wire = [c \in Conns |-> <<>>]
  /\ sock = [c \in Conns |-> <<>>]
  /\ room = [c \in Conns |-> SendBuffer]
  /\ sent = [c \in Conns |-> <<>>]
  /\ handled = [c \in Conns |-> <<>>]

-----------------------------------------------------------------------------
(* The peers and the network.                                              *)

Up(c) == link[c] \in {"backlog", "accepted"}

Connect(c) ==
  /\ link[c] = "new"
  /\ link' = [link EXCEPT ![c] = "backlog"]
  /\ backlog' = Append(backlog, c)
  /\ UNCHANGED <<server, peer, wire, sock, room, sent>>

Send(c, n) ==
  /\ Up(c) /\ peer[c] = "open" /\ Len(sent[c]) < MaxFrames
  /\ LET f == Units(c, Len(sent[c]) + 1, n)
     IN  /\ wire' = [wire EXCEPT ![c] = @ \o f]
         /\ sent' = [sent EXCEPT ![c] = Append(@, f)]
  /\ UNCHANGED <<server, backlog, link, peer, sock, room>>

\* The next units arrive, in any portions.
Arrive(c) ==
  /\ Up(c)
  /\ \E k \in 1 .. Len(wire[c]) :
       /\ sock' = [sock EXCEPT ![c] = @ \o SubSeq(wire[c], 1, k)]
       /\ wire' = [wire EXCEPT ![c] = SubSeq(@, k + 1, Len(@))]
  /\ UNCHANGED <<server, backlog, link, peer, room, sent>>

\* The peer ends its stream, after a frame or in the middle of one.
Finish(c) ==
  /\ Up(c) /\ peer[c] = "open"
  /\ peer' = [peer EXCEPT ![c] = "finished"]
  /\ \/ "finish" \in Breaks /\ UNCHANGED wire
     \/ /\ "cut" \in Breaks
        /\ \E n \in PayloadSizes : \E k \in 1 .. HeaderSize + n - 1 :
             wire' = [wire EXCEPT ![c] =
                        @ \o SubSeq(Units(c, Len(sent[c]) + 1, n), 1, k)]
  /\ UNCHANGED <<server, backlog, link, sock, room, sent>>

\* The connection is reset: what had not arrived never will.
Reset(c) ==
  /\ "reset" \in Breaks
  /\ Up(c) /\ peer[c] # "reset"
  /\ peer' = [peer EXCEPT ![c] = "reset"]
  /\ wire' = [wire EXCEPT ![c] = <<>>]
  /\ UNCHANGED <<server, backlog, link, sock, room, sent>>

PeerReads(c) ==
  /\ Up(c) /\ room[c] < SendBuffer
  /\ room' = [room EXCEPT ![c] = SendBuffer]
  /\ UNCHANGED <<server, backlog, link, peer, wire, sock, sent>>

-----------------------------------------------------------------------------
(* The loop.                                                               *)

ConnOf(s) == sockets[slots[s].fd]

\* slots becomes new; the descriptors that new no longer uses are closed, and
\* the kernel forgets what was on its way to or waiting on their connections.
Install(new, sk) ==
  LET open == {new[s].fd : s \in Slots}
      shut == {sockets[fd] : fd \in Fds \ open}
      Unless(f) == [c \in Conns |-> IF c \in shut THEN <<>> ELSE f[c]]
  IN  /\ slots' = new
      /\ sockets' = [fd \in Fds |->
                       IF fd \in open THEN sockets[fd] ELSE NoConn]
      /\ link' = [c \in Conns |-> IF c \in shut THEN "closed" ELSE link[c]]
      /\ sock' = Unless(sk)
      /\ wire' = Unless(wire)

\* The loop leaves the entry of pfds[] that it is working on.
NextEntry == pc' = "handle" /\ snap' = Tail(snap)

\* read_from_client has returned and the client is still there.
AfterRead ==
  \/ Head(snap).out /\ pc' = "write" /\ UNCHANGED snap
  \/ ~Head(snap).out /\ NextEntry

Close(s) ==
  /\ Install([slots EXCEPT ![s] = Blank], sock)
  /\ NextEntry
  /\ UNCHANGED <<backlog, peer, room, sent, handled>>

\* No more units will arrive.
AtEof(c) == peer[c] = "finished" /\ wire[c] = <<>>

\* DEFECT: POLLOUT is not requested while only part of an answer is left.
EntryForWhole(s) ==
  LET c == ConnOf(s)
  IN  [fd |-> slots[s].fd, conn |-> c,
       err |-> peer[c] = "reset",
       in |-> sock[c] # <<>> \/ AtEof(c),
       out |-> slots[s].out >= ReplyUnits /\ room[c] > 0]

\* One entry of pfds[] after poll.  conn is history: whom poll looked at.
Entry(s) ==
  LET c == ConnOf(s)
  IN  [fd |-> slots[s].fd, conn |-> c,
       err |-> peer[c] = "reset",
       in |-> sock[c] # <<>> \/ AtEof(c),
       out |-> slots[s].out > 0 /\ room[c] > 0]

\* pfds[] has its entries in the order of the slots.
InSlotOrder(S) ==
  {q \in UNION {[1 .. n -> S] : n \in 0 .. MaxClients} :
     /\ S \subseteq Range(q)
     /\ \A i, j \in DOMAIN q : i < j => q[i] < q[j]}

\* A pass begins when poll has something to report.  The entries that report
\* nothing are skipped later and are left out.  A poll that times out has no
\* effect.
Poll ==
  /\ pc = "poll"
  /\ \E order \in InSlotOrder({s \in Slots :
         slots[s].fd # 0 /\ (Entry(s).err \/ Entry(s).in \/ Entry(s).out)}) :
       /\ backlog # <<>> \/ order # <<>>
       /\ snap' = [i \in DOMAIN order |-> Entry(order[i])]
       /\ pc' = IF backlog # <<>> THEN "accept" ELSE "handle"
  /\ UNCHANGED <<slots, sockets, backlog, link, peer, wire, sock, room, sent,
                 handled>>

AcceptFirst ==
  /\ backlog # <<>>
  /\ backlog' = Tail(backlog)
  /\ LET c == Head(backlog)
     IN  \/ \E fd \in Fds, s \in Slots :
              /\ sockets[fd] = NoConn
              /\ \A e \in 1 .. fd - 1 : sockets[e] # NoConn
              /\ slots[s].fd = 0
              /\ \A d \in 1 .. s - 1 : slots[d].fd # 0
              /\ sockets' = [sockets EXCEPT ![fd] = c]
              /\ slots' = [slots EXCEPT ![s] = [Blank EXCEPT !.fd = fd]]
              /\ link' = [link EXCEPT ![c] = "accepted"]
              /\ UNCHANGED <<wire, sock>>
         \/ /\ \A s \in Slots : slots[s].fd # 0
            /\ link' = [link EXCEPT ![c] = "closed"]
            /\ wire' = [wire EXCEPT ![c] = <<>>]
            /\ sock' = [sock EXCEPT ![c] = <<>>]
            /\ UNCHANGED <<slots, sockets>>
  /\ UNCHANGED <<pc, snap, peer, room, sent, handled>>

\* DEFECT: a new connection is taken as soon as a slot is free for it.
AcceptAnywhere == pc \in {"accept", "handle"} /\ AcceptFirst

\* One turn of accept_clients.
Accept == pc = "accept" /\ AcceptFirst

\* accept would block: accept_clients returns.
AcceptDone ==
  /\ pc = "accept" /\ backlog = <<>>
  /\ pc' = "handle"
  /\ UNCHANGED <<slots, sockets, snap, backlog, link, peer, wire, sock, room,
                 sent, handled>>

\* The next entry: its client may be gone by now.
Select ==
  /\ pc = "handle"
  /\ \/ snap = <<>> /\ pc' = "poll" /\ UNCHANGED snap
     \/ /\ snap # <<>>
        /\ \/ /\ \A s \in Slots : slots[s].fd # Head(snap).fd
              /\ NextEntry
           \/ /\ \E s \in Slots : slots[s].fd = Head(snap).fd
              /\ ~Head(snap).err
              /\ pc' = IF Head(snap).in THEN "read" ELSE "write"
              /\ UNCHANGED snap
  /\ UNCHANGED <<slots, sockets, backlog, link, peer, wire, sock, room, sent,
                 handled>>

\* The client of the entry that the loop is working on.
Current(s) == snap # <<>> /\ slots[s].fd = Head(snap).fd

\* POLLERR or POLLHUP: what the peer had sent before is not read any more.
PollError(s) == pc = "handle" /\ Current(s) /\ Head(snap).err /\ Close(s)

InputFull(s) ==
  pc = "read" /\ Current(s) /\ Len(slots[s].inbuf) = InbufCap /\ Close(s)

\* recv returns what there is, as far as the buffer goes.
Recv(s) ==
  /\ pc = "read" /\ Current(s)
  /\ Len(slots[s].inbuf) < InbufCap
  /\ LET c == ConnOf(s)
         space == InbufCap - Len(slots[s].inbuf)
         n == IF Len(sock[c]) < space THEN Len(sock[c]) ELSE space
     IN  /\ n > 0
         /\ slots' = [slots EXCEPT ![s].inbuf = @ \o SubSeq(sock[c], 1, n)]
         /\ sock' = [sock EXCEPT ![c] = SubSeq(@, n + 1, Len(@))]
  /\ pc' = "drain"
  /\ UNCHANGED <<sockets, snap, backlog, link, peer, wire, room, sent,
                 handled>>

\* recv reports the end of the stream or an error.
RecvEnds(s) ==
  /\ pc = "read" /\ Current(s)
  /\ Len(slots[s].inbuf) < InbufCap
  /\ sock[ConnOf(s)] = <<>>
  /\ AtEof(ConnOf(s)) \/ peer[ConnOf(s)] = "reset"
  /\ Close(s)

RecvWouldBlock(s) ==
  /\ pc = "read" /\ Current(s)
  /\ Len(slots[s].inbuf) < InbufCap
  /\ sock[ConnOf(s)] = <<>>
  /\ ~AtEof(ConnOf(s)) /\ peer[ConnOf(s)] # "reset"
  /\ AfterRead
  /\ UNCHANGED <<slots, sockets, backlog, link, peer, wire, sock, room, sent,
                 handled>>

\* The bytes that the frame at the head of the buffer occupies, according to
\* its header.
Announced(buf) == HeaderSize + Head(buf).len

\* DEFECT: a frame counts as whole only when something follows it.
WholeLate(buf) ==
  /\ Len(buf) >= HeaderSize
  /\ Announced(buf) <= InbufCap
  /\ Len(buf) > Announced(buf)

Whole(buf) ==
  /\ Len(buf) >= HeaderSize
  /\ Announced(buf) <= InbufCap
  /\ Len(buf) >= Announced(buf)

Bad(buf) == Len(buf) >= HeaderSize /\ Announced(buf) > InbufCap

\* queued_bytes counts a frame in full until its last byte is sent.
QueuedUnits(cl) == ((cl.out + ReplyUnits - 1) \div ReplyUnits) * ReplyUnits

\* DEFECT: the limit is compared with what was queued before.
PostBeyond(table, R) ==
  [s \in Slots |->
     IF s \notin R THEN table[s]
     ELSE IF QueuedUnits(table[s]) > MaxQueue THEN Blank
     ELSE [table[s] EXCEPT !.out = @ + ReplyUnits]]

\* An answer is queued for every client of R.
Post(table, R) ==
  [s \in Slots |->
     IF s \notin R THEN table[s]
     ELSE IF QueuedUnits(table[s]) + ReplyUnits > MaxQueue THEN Blank
     ELSE [table[s] EXCEPT !.out = @ + ReplyUnits]]

\* drain_input finds no whole frame and asks for more input.
DrainMore(s) ==
  /\ pc = "drain" /\ Current(s)
  /\ ~Whole(slots[s].inbuf) /\ ~Bad(slots[s].inbuf)
  /\ pc' = "read"
  /\ UNCHANGED <<slots, sockets, snap, backlog, link, peer, wire, sock, room,
                 sent, handled>>

\* The header of an oversized frame is answered and stays where it is.
DrainBad(s) ==
  /\ pc = "drain" /\ Current(s)
  /\ Bad(slots[s].inbuf)
  /\ LET new == Post(slots, {s})
     IN  /\ Install(new, sock)
         /\ IF new[s].fd = 0 THEN NextEntry ELSE AfterRead
  /\ UNCHANGED <<backlog, peer, room, sent, handled>>

\* DEFECT: the rest of the input is thrown away with the frame.
DrainAll(s) ==
  /\ pc = "drain" /\ Current(s)
  /\ Whole(slots[s].inbuf)
  /\ LET buf == slots[s].inbuf
     IN  handled' = [handled EXCEPT ![ConnOf(s)] =
                       Append(@, SubSeq(buf, 1, Announced(buf)))]
  /\ slots' = [slots EXCEPT ![s].inbuf = <<>>]
  /\ UNCHANGED <<sockets, pc, snap, backlog, link, peer, wire, sock, room,
                 sent>>

\* DEFECT: only the payload is removed, not the header in front of it.
DrainPayload(s) ==
  /\ pc = "drain" /\ Current(s)
  /\ Whole(slots[s].inbuf)
  /\ LET buf == slots[s].inbuf
         n == Announced(buf)
     IN  /\ handled' = [handled EXCEPT ![ConnOf(s)] =
                          Append(@, SubSeq(buf, 1, n))]
         /\ slots' = [slots EXCEPT
                       ![s].inbuf = SubSeq(@, n - HeaderSize + 1, Len(@))]
  /\ UNCHANGED <<sockets, pc, snap, backlog, link, peer, wire, sock, room,
                 sent>>

\* handle_frame is called with a whole frame; then its bytes are removed.
DrainFrame(s) ==
  /\ pc = "drain" /\ Current(s)
  /\ Whole(slots[s].inbuf)
  /\ LET buf == slots[s].inbuf
         n == Announced(buf)
         rest == [slots EXCEPT ![s].inbuf = SubSeq(@, n + 1, Len(@))]
         Stay(new) == /\ Install(new, sock)
                      /\ IF new[s].fd = 0 THEN NextEntry
                                          ELSE UNCHANGED <<pc, snap>>
     IN  /\ handled' = [handled EXCEPT ![ConnOf(s)] =
                          Append(@, SubSeq(buf, 1, n))]
         /\ \/ Stay([rest EXCEPT ![s] = Blank])
            \/ \E R \in SUBSET {t \in Slots : slots[t].fd # 0} :
                 Stay(Post(rest, R))
  /\ UNCHANGED <<backlog, peer, room, sent>>

\* send takes what the socket has room for: some units of the next answer.
SendSome(s) ==
  /\ pc = "write" /\ Current(s)
  /\ slots[s].out > 0 /\ peer[ConnOf(s)] # "reset"
  /\ \E k \in 1 .. room[ConnOf(s)] :
       /\ k <= slots[s].out
       /\ slots' = [slots EXCEPT ![s].out = @ - k]
       /\ room' = [room EXCEPT ![ConnOf(s)] = @ - k]
  /\ UNCHANGED <<sockets, pc, snap, backlog, link, peer, wire, sock, sent,
                 handled>>

SendFails(s) ==
  /\ pc = "write" /\ Current(s)
  /\ slots[s].out > 0 /\ peer[ConnOf(s)] = "reset"
  /\ Close(s)

\* Nothing is left to send, or send would block.
WriteDone(s) ==
  /\ pc = "write" /\ Current(s)
  /\ \/ slots[s].out = 0
     \/ room[ConnOf(s)] = 0 /\ peer[ConnOf(s)] # "reset"
  /\ NextEntry
  /\ UNCHANGED <<slots, sockets, backlog, link, peer, wire, sock, room, sent,
                 handled>>

Serve(s) ==
  \/ PollError(s) \/ InputFull(s) \/ Recv(s) \/ RecvEnds(s)
  \/ RecvWouldBlock(s) \/ DrainMore(s) \/ DrainBad(s) \/ DrainFrame(s)
  \/ SendSome(s) \/ SendFails(s) \/ WriteDone(s)

Loop == Poll \/ Accept \/ AcceptDone \/ Select \/ \E s \in Slots : Serve(s)

Peer(c) ==
  \/ Connect(c) \/ Arrive(c) \/ Finish(c) \/ Reset(c) \/ PeerReads(c)
  \/ \E n \in PayloadSizes : Send(c, n)

Next == Loop \/ \E c \in Conns : Peer(c)

\* The loop never waits for anything but poll, and TCP delivers what it has
\* accepted.  Nothing is assumed of the peers, not even that they read.
Fairness == WF_vars(Loop) /\ \A c \in Conns : WF_vars(Arrive(c))

Spec == Init /\ [][Next]_vars /\ Fairness

-----------------------------------------------------------------------------
(* Properties.                                                             *)

\* The shape of the state.
TypeOK ==
  /\ pc \in {"poll", "accept", "handle", "read", "drain", "write"}
  /\ \A s \in Slots : /\ slots[s].fd \in Fds \cup {0}
                      /\ slots[s].out \in 0 .. MaxQueue
                      /\ Len(slots[s].inbuf) <= InbufCap
  /\ sockets \in [Fds -> Conns \cup {NoConn}]
  /\ link \in [Conns -> {"new", "backlog", "accepted", "closed"}]
  /\ peer \in [Conns -> {"open", "finished", "reset"}]
  /\ room \in [Conns -> 0 .. SendBuffer]

\* What poll said about a connection is never acted upon for another one:
\* descriptors are closed during a pass and the kernel hands out the lowest
\* free one, but none is handed out between poll and the end of the pass.
RightConnection ==
  pc # "poll" =>
    \A i \in DOMAIN snap : \A s \in Slots :
      slots[s].fd = snap[i].fd => ConnOf(s) = snap[i].conn

\* "input buffer full" never hits a client whose frames are well-formed,
\* however many of them arrive at once.
FullOnlyBehindBadHeader ==
  \A s \in Slots : pc = "read" /\ Current(s) =>
    (Len(slots[s].inbuf) = InbufCap => Bad(slots[s].inbuf))

\* Input is never mixed up when slots and descriptors are used again: a frame
\* that was cut short by the end of its connection is not completed, and not
\* put in front of, what the next client of the slot sends.
NothingLeftBehind == \A c \in Conns : IsPrefix(handled[c], sent[c])

\* The loop implements the service: nothing is lost, duplicated, reordered or
\* misattributed by partial reads or by several frames in one read, and every
\* frame is eventually handled unless its connection is closed.
Service == INSTANCE FrameService
  WITH MaxFrame <- InbufCap,
       dropped <- {c \in Conns : link[c] = "closed"}

ImplementsService == Service!Spec

\* An answer does not stay in the queue of a peer that keeps reading, even if
\* it is sent in pieces.
AnswersLeave ==
  (\A c \in Conns : WF_vars(PeerReads(c))) =>
    \A s \in Slots : slots[s].out > 0 ~> slots[s].out = 0
=============================================================================
