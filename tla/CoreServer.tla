----------------------------- MODULE CoreServer -----------------------------
(***************************************************************************)
(* The ChannelWire messaging core, core/src/server.c: a table of client    *)
(* slots, an append-only table of channels, one bounded outgoing queue per *)
(* client and the counters that STATS reports.  The server is one thread;  *)
(* every action below is one complete handler, replies and forced          *)
(* disconnects included.  How the bytes of a frame reach a handler (poll,  *)
(* recv, partial frames) is the subject of CoreLoop.                       *)
(*                                                                         *)
(* Abstractions.  A text is never looked at, only its frame's length class *)
(* (FrameBytes); all the failures of cw_read_string and cw_valid_name are  *)
(* the one argument Invalid; a WHO, LIST or STATS response is its type.    *)
(*                                                                         *)
(* An operator whose comment starts with DEFECT is a plausible mistake in  *)
(* the operator after it.  The specification does not use it: it shows     *)
(* that some property of the module would notice the mistake.              *)
(***************************************************************************)
EXTENDS Naturals, Sequences, FiniteSets

CONSTANTS
  MaxClients,     \* CW_MAX_CLIENTS, slots of the clients[] array
  MaxChannels,    \* CW_MAX_CHANNELS, slots of the channels[] array
  WhoLimit,       \* how many user names fit in one WHO response payload
  MaxQueueBytes,  \* max_queue_bytes, the bound on a client's outgoing queue
  FrameBytes,     \* length of a frame (header and payload), by type
  Names,          \* user names that cw_valid_name accepts
  ChannelNames,   \* channel names that cw_valid_name accepts
  Invalid,        \* a string argument that fails to decode or to validate
  None,           \* the empty string: no user name, no active channel
  Commands,       \* the client messages the peers send
  MaxAccepts, MaxChats, MaxDms, MaxMalformed  \* bounds on the counters

Slots == 1 .. MaxClients

\* JOINED and LEFT are the OK frames that answer JOIN and LEAVE.
FrameTypes == {"OK", "JOINED", "LEFT", "ERROR", "CHAT", "DM_RECV", "SYSTEM",
               "WHO_RESP", "LIST_RESP", "STATS_RESP"}

ASSUME CoreAssumption ==
  /\ MaxClients \in Nat \ {0}
  /\ MaxChannels \in Nat \ {0}
  /\ WhoLimit \in Nat
  /\ MaxQueueBytes \in Nat
  /\ FrameBytes \in [FrameTypes -> Nat \ {0}]
  /\ None \notin Names \cup ChannelNames
  /\ Invalid \notin Names \cup ChannelNames
  /\ {MaxAccepts, MaxChats, MaxDms, MaxMalformed} \subseteq Nat

VARIABLES
  clients,   \* clients[]
  channels,  \* channels[0 .. channel_count - 1]
  stats,     \* the server_stats counters
  running    \* cleared by SIGINT or SIGTERM

vars == <<clients, channels, stats, running>>

ChannelFrames == {"JOINED", "LEFT", "CHAT"}

Frame ==
  [type : ChannelFrames, channel : ChannelNames, seq : Nat]
    \cup [type : FrameTypes \ ChannelFrames, channel : {None}, seq : {0}]

\* heard and last are history: what the peer has made of the frames that were
\* written to it so far (the channels it was told it is in, and the number of
\* the last chat it was sent).  The server never reads them.
Client == [open : BOOLEAN, registered : BOOLEAN,
           username : Names \cup {None}, active : ChannelNames \cup {None},
           joined : SUBSET (1 .. MaxChannels), stuck : BOOLEAN,
           out : Seq(Frame), queued : Nat,
           heard : SUBSET ChannelNames, last : Nat]

\* reset_client: the memset and fd = -1.
Closed == [open |-> FALSE, registered |-> FALSE, username |-> None,
           active |-> None, joined |-> {}, stuck |-> FALSE, out |-> <<>>,
           queued |-> 0, heard |-> {}, last |-> 0]

\* The server_stats structure.
Statistics == [current_connections : Nat, total_connections : Nat,
               channel_messages : Nat, direct_messages : Nat,
               malformed_frames : Nat, queue_disconnects : Nat]

Plain(type) == [type |-> type, channel |-> None, seq |-> 0]
About(type, ch) == [type |-> type, channel |-> ch, seq |-> 0]

-----------------------------------------------------------------------------
(* Enqueueing.  Nothing here looks at whether the slot is still open: like *)
(* enqueue_payload, it is up to the caller not to write to a dead slot.    *)

\* DEFECT: the check leaves out the frame that is about to be queued.
OverflowsLate(cl, f) == cl.queued > MaxQueueBytes

Overflows(cl, f) == cl.queued + FrameBytes[f.type] > MaxQueueBytes

\* DEFECT: a frame is put in front of the ones that wait.
EnqueueFirst(cl, f) == [cl EXCEPT !.out = <<f>> \o @,
                                  !.queued = @ + FrameBytes[f.type]]

Enqueue(cl, f) == [cl EXCEPT !.out = Append(@, f),
                             !.queued = @ + FrameBytes[f.type]]

Overflowing(cls, S, f) == {c \in S : Overflows(cls[c], f)}

\* DEFECT: the loop over the receivers ends at the first one that overflows.
PostUntilFull(cls, S, f) ==
  [c \in Slots |->
     IF c \notin S \/ \E d \in Overflowing(cls, S, f) : d < c THEN cls[c]
     ELSE IF Overflows(cls[c], f) THEN Closed
     ELSE Enqueue(cls[c], f)]

\* f is queued for every slot of S; the slots whose queue is full are reset.
Post(cls, S, f) ==
  [c \in Slots |-> IF c \notin S THEN cls[c]
                   ELSE IF Overflows(cls[c], f) THEN Closed
                   ELSE Enqueue(cls[c], f)]

\* DEFECT: a client that overflows is reset twice, and counted out twice.
DroppedTwice(st, n) == [st EXCEPT !.current_connections = @ - 2 * n,
                                  !.queue_disconnects = @ + n]

\* DEFECT: a client that overflows is not counted out.
DroppedUncounted(st, n) == [st EXCEPT !.queue_disconnects = @ + n]

Dropped(st, n) == [st EXCEPT !.current_connections = @ - n,
                             !.queue_disconnects = @ + n]

\* safe_enqueue_text, and the loops that treat each receiver in that way.
Deliver(cls, st, S, f) ==
  /\ clients' = Post(cls, S, f)
  /\ stats' = Dropped(st, Cardinality(Overflowing(cls, S, f)))

Reply(c, f) == Deliver(clients, stats, {c}, f)

-----------------------------------------------------------------------------
(* Look-ups.                                                               *)

\* find_channel; 0 stands for -1.  No client has joined channel 0.
FindChannel(chs, name) ==
  IF \E i \in 1 .. Len(chs) : chs[i] = name
  THEN CHOOSE i \in 1 .. Len(chs) : chs[i] = name
  ELSE 0

Live(cls, c) == cls[c].open /\ cls[c].registered

\* DEFECT: a broadcast goes to every registered client.
MembersAll(cls, i) == {c \in Slots : Live(cls, c)}

Members(cls, i) == {c \in Slots : Live(cls, c) /\ i \in cls[c].joined}

\* DEFECT: the search ends at the first free slot.
InUseBeforeGap(name, c) ==
  \E d \in Slots \ {c} :
    /\ \A e \in 1 .. d : clients[e].open
    /\ Live(clients, d) /\ clients[d].username = name

UsernameInUse(name, c) ==
  \E d \in Slots \ {c} : Live(clients, d) /\ clients[d].username = name

Holders(name) == {c \in Slots : Live(clients, c) /\ clients[c].username = name}

-----------------------------------------------------------------------------
(* Connections.                                                            *)

Init ==
  /\ clients = [c \in Slots |-> Closed]
  /\ channels = <<>>
  /\ stats = [current_connections |-> 0, total_connections |-> 0,
              channel_messages |-> 0, direct_messages |-> 0,
              malformed_frames |-> 0, queue_disconnects |-> 0]
  /\ running = TRUE

\* accept_clients takes the first free slot.  With every slot in use the new
\* socket is closed at once and nothing changes.
Accept(c) ==
  /\ running
  /\ stats.total_connections < MaxAccepts
  /\ ~clients[c].open
  /\ \A d \in 1 .. c - 1 : clients[d].open
  /\ clients' = [clients EXCEPT ![c] = [Closed EXCEPT !.open = TRUE]]
  /\ stats' = [stats EXCEPT !.current_connections = @ + 1,
                            !.total_connections = @ + 1]
  /\ UNCHANGED <<channels, running>>

Disconnect(c) ==
  /\ clients' = [clients EXCEPT ![c] = Closed]
  /\ stats' = [stats EXCEPT !.current_connections = @ - 1]
  /\ UNCHANGED <<channels, running>>

\* The peer closed or reset the connection: end of file, a failed recv or
\* send, or a poll error.
PeerGone(c) == running /\ clients[c].open /\ Disconnect(c)

\* write_to_client: the frame at the head of the queue is completely sent.
FrameSent(c) ==
  /\ running
  /\ clients[c].open /\ clients[c].out # <<>>
  /\ LET f == Head(clients[c].out)
     IN  clients' = [clients EXCEPT
           ![c].out = Tail(@),
           ![c].queued = @ - FrameBytes[f.type],
           ![c].heard = CASE f.type = "JOINED" -> @ \cup {f.channel}
                          [] f.type = "LEFT" -> @ \ {f.channel}
                          [] OTHER -> @,
           ![c].last = IF f.type = "CHAT" THEN f.seq ELSE @]
  /\ UNCHANGED <<channels, stats, running>>

\* The signal ends the loop; main resets every client before it returns.
Shutdown ==
  /\ running
  /\ running' = FALSE
  /\ clients' = [c \in Slots |-> Closed]
  /\ stats' = [stats EXCEPT !.current_connections = 0]
  /\ UNCHANGED channels

-----------------------------------------------------------------------------
(* Requests.                                                               *)

\* handle_frame is reached with message m from c.  A header that announces
\* too long a payload stays at the head of the input buffer, so nothing that
\* the connection sends after it is ever dispatched.
Dispatch(c, m) ==
  /\ running
  /\ m \in Commands
  /\ clients[c].open /\ ~clients[c].stuck
  /\ UNCHANGED running

Rename(c, name) == [clients EXCEPT ![c].username = name,
                                   ![c].registered = TRUE]

Hello(c, name) ==
  /\ Dispatch(c, "HELLO")
  /\ UNCHANGED channels
  /\ \/ /\ name = Invalid \/ UsernameInUse(name, c)
        /\ Reply(c, Plain("ERROR"))
     \/ /\ name # Invalid /\ ~UsernameInUse(name, c)
        /\ Deliver(Rename(c, name), stats, {c}, Plain("OK"))

\* DEFECT: the receivers of the notice are chosen before the answer is queued.
NickStale(c, name) ==
  /\ Dispatch(c, "NICK")
  /\ UNCHANGED channels
  /\ \/ /\ name = Invalid \/ UsernameInUse(name, c)
        /\ Reply(c, Plain("ERROR"))
     \/ /\ name # Invalid /\ ~UsernameInUse(name, c)
        /\ LET renamed == Rename(c, name)
               told == Post(renamed, {c}, Plain("OK"))
               lost == Cardinality(Overflowing(renamed, {c}, Plain("OK")))
               here == FindChannel(channels, renamed[c].active)
           IN  Deliver(told, Dropped(stats, lost), Members(renamed, here),
                       Plain("SYSTEM"))

\* handle_nick needs no earlier HELLO.  It answers the sender and then tells
\* the others in the sender's active channel; if the answer overflowed the
\* sender's queue the slot is blank by then and nobody is told.
Nick(c, name) ==
  /\ Dispatch(c, "NICK")
  /\ UNCHANGED channels
  /\ \/ /\ name = Invalid \/ UsernameInUse(name, c)
        /\ Reply(c, Plain("ERROR"))
     \/ /\ name # Invalid /\ ~UsernameInUse(name, c)
        /\ LET renamed == Rename(c, name)
               told == Post(renamed, {c}, Plain("OK"))
               lost == Cardinality(Overflowing(renamed, {c}, Plain("OK")))
               here == FindChannel(channels, told[c].active)
           IN  Deliver(told, Dropped(stats, lost), Members(told, here) \ {c},
                       Plain("SYSTEM"))

\* join_channel: the channel is created on first use and never removed.
Join(c, name) ==
  /\ Dispatch(c, "JOIN")
  /\ \/ /\ \/ ~clients[c].registered
           \/ name = Invalid
           \/ FindChannel(channels, name) = 0 /\ Len(channels) >= MaxChannels
        /\ Reply(c, Plain("ERROR"))
        /\ UNCHANGED channels
     \/ /\ clients[c].registered /\ name # Invalid
        /\ \/ FindChannel(channels, name) # 0 /\ UNCHANGED channels
           \/ /\ FindChannel(channels, name) = 0 /\ Len(channels) < MaxChannels
              /\ channels' = Append(channels, name)
        /\ LET i == IF FindChannel(channels, name) = 0 THEN Len(channels) + 1
                                             ELSE FindChannel(channels, name)
           IN  Deliver([clients EXCEPT ![c].joined = @ \cup {i},
                                       ![c].active = name],
                       stats, {c}, About("JOINED", name))

Switch(c, name) ==
  /\ Dispatch(c, "SWITCH")
  /\ UNCHANGED channels
  /\ \/ /\ \/ ~clients[c].registered
           \/ name = Invalid
           \/ FindChannel(channels, name) \notin clients[c].joined
        /\ Reply(c, Plain("ERROR"))
     \/ /\ clients[c].registered
        /\ name # Invalid
        /\ FindChannel(channels, name) \in clients[c].joined
        /\ Deliver([clients EXCEPT ![c].active = name], stats,
                   {c}, Plain("OK"))

\* DEFECT: the channel that was left stays active.
LeaveStaysActive(c, name) ==
  /\ Dispatch(c, "LEAVE")
  /\ UNCHANGED channels
  /\ \/ /\ \/ name = Invalid
           \/ FindChannel(channels, name) \notin clients[c].joined
        /\ Reply(c, Plain("ERROR"))
     \/ /\ name # Invalid
        /\ FindChannel(channels, name) \in clients[c].joined
        /\ Deliver([clients EXCEPT
                      ![c].joined = @ \ {FindChannel(channels, name)}],
                   stats, {c}, About("LEFT", name))

\* leave_channel checks the membership but not the registration.
Leave(c, name) ==
  /\ Dispatch(c, "LEAVE")
  /\ UNCHANGED channels
  /\ \/ /\ \/ name = Invalid
           \/ FindChannel(channels, name) \notin clients[c].joined
        /\ Reply(c, Plain("ERROR"))
     \/ /\ name # Invalid
        /\ FindChannel(channels, name) \in clients[c].joined
        /\ Deliver([clients EXCEPT
                      ![c].joined = @ \ {FindChannel(channels, name)},
                      ![c].active = IF @ = name THEN None ELSE @],
                   stats, {c}, About("LEFT", name))

\* SAY and broadcast_chat.  The chat is numbered by the counter of chats.
Say(c, valid) ==
  /\ Dispatch(c, "SAY")
  /\ UNCHANGED channels
  /\ LET i == FindChannel(channels, clients[c].active)
     IN  \/ /\ ~clients[c].registered \/ i = 0 \/ ~valid
            /\ Reply(c, Plain("ERROR"))
         \/ /\ clients[c].registered /\ i # 0 /\ valid
            /\ stats.channel_messages < MaxChats
            /\ Deliver(clients, [stats EXCEPT !.channel_messages = @ + 1],
                       Members(clients, i),
                       [type |-> "CHAT", channel |-> clients[c].active,
                        seq |-> stats.channel_messages + 1])

\* handle_dm serves the first slot that holds the name.  A receiver whose
\* queue is full is disconnected and the sender then gets no answer at all.
Dm(c, name) ==
  /\ Dispatch(c, "DM")
  /\ UNCHANGED channels
  /\ \/ /\ ~clients[c].registered \/ name = Invalid \/ Holders(name) = {}
        /\ Reply(c, Plain("ERROR"))
     \/ /\ clients[c].registered /\ name # Invalid
        /\ stats.direct_messages < MaxDms
        /\ \E t \in Holders(name) :
             /\ \A d \in Holders(name) : t <= d
             /\ \/ /\ Overflows(clients[t], Plain("DM_RECV"))
                   /\ Deliver(clients, stats, {t}, Plain("DM_RECV"))
                \/ /\ ~Overflows(clients[t], Plain("DM_RECV"))
                   /\ Deliver(Post(clients, {t}, Plain("DM_RECV")),
                              [stats EXCEPT !.direct_messages = @ + 1],
                              {c}, Plain("OK"))

\* send_who refuses outside a channel, and when the names do not fit.
Who(c) ==
  /\ Dispatch(c, "WHO")
  /\ UNCHANGED channels
  /\ LET here == Members(clients, FindChannel(channels, clients[c].active))
         ok == /\ FindChannel(channels, clients[c].active) # 0
               /\ Cardinality(here) <= WhoLimit
     IN  Reply(c, Plain(IF ok THEN "WHO_RESP" ELSE "ERROR"))

\* send_list and send_stats answer anyone.  Their "too large" branches are
\* dead: 64 names of 32 bytes, or nine counters, fit in a 4096-byte payload.
List(c) ==
  /\ Dispatch(c, "LIST")
  /\ Reply(c, Plain("LIST_RESP"))
  /\ UNCHANGED channels

Stats(c) ==
  /\ Dispatch(c, "STATS")
  /\ Reply(c, Plain("STATS_RESP"))
  /\ UNCHANGED channels

Quit(c) == Dispatch(c, "QUIT") /\ Disconnect(c)

Unknown(c) ==
  /\ Dispatch(c, "UNKNOWN")
  /\ Reply(c, Plain("ERROR"))
  /\ UNCHANGED channels

\* drain_input meets a header whose payload is too long.  It answers but
\* neither consumes the header nor disconnects, so it meets the same header
\* again whenever more bytes arrive.
Malformed(c) ==
  /\ running
  /\ "MALFORMED" \in Commands
  /\ clients[c].open
  /\ stats.malformed_frames < MaxMalformed
  /\ Deliver([clients EXCEPT ![c].stuck = TRUE],
             [stats EXCEPT !.malformed_frames = @ + 1],
             {c}, Plain("ERROR"))
  /\ UNCHANGED <<channels, running>>

\* read_from_client: only behind such a header can the buffer fill up.
InputFull(c) == running /\ clients[c].stuck /\ Disconnect(c)

Request(c) ==
  \/ \E name \in Names \cup {Invalid} :
       Hello(c, name) \/ Nick(c, name) \/ Dm(c, name)
  \/ \E name \in ChannelNames \cup {Invalid} :
       Join(c, name) \/ Switch(c, name) \/ Leave(c, name)
  \/ \E valid \in BOOLEAN : Say(c, valid)
  \/ Who(c) \/ List(c) \/ Stats(c) \/ Quit(c) \/ Unknown(c) \/ Malformed(c)

Next ==
  \/ \E c \in Slots :
       Accept(c) \/ Request(c) \/ FrameSent(c) \/ PeerGone(c) \/ InputFull(c)
  \/ Shutdown

Spec == Init /\ [][Next]_vars

-----------------------------------------------------------------------------
(* Properties.                                                             *)

\* The shape of the state.
TypeOK ==
  /\ clients \in [Slots -> Client]
  /\ channels \in Seq(ChannelNames)
  /\ stats \in Statistics
  /\ running \in BOOLEAN

\* Whatever HELLO, NICK and disconnects interleave, no two connections hold
\* the same user name, so a direct message has at most one receiver and the
\* sender of a chat is never in doubt (username_in_use).
UniqueUsernames ==
  \A c, d \in Slots :
    Live(clients, c) /\ Live(clients, d)
      /\ clients[c].username = clients[d].username => c = d

\* joined[] is indexed by position in channels[], active_channel is a name:
\* the two never disagree.  A client is only in channels that exist and only
\* once it is registered, and its active channel is one it is in (SWITCH,
\* LEAVE and SAY rely on this; LEAVE does not even check the registration).
MembershipSound ==
  \A c \in Slots :
    /\ clients[c].joined \subseteq 1 .. Len(channels)
    /\ clients[c].joined # {} => Live(clients, c)
    /\ clients[c].active # None =>
         FindChannel(channels, clients[c].active) \in clients[c].joined

\* No handler writes to a slot after it was reset: a frame queued on a dead
\* slot, or a membership left behind in it, would go to the next client that
\* accept_clients puts there (handle_nick and handle_dm enqueue again after
\* an enqueue that may have disconnected the same client).
FreeSlotsBlank == \A c \in Slots : ~clients[c].open => clients[c] = Closed

OpenSlots(cls) == {c \in Slots : cls[c].open}

\* Every connection that was counted in is counted out once, on whichever of
\* the paths it leaves by, and a queue overflow costs exactly one connection:
\* the dashboard divides queue_disconnects by total_connections.
CountersAgree ==
  /\ stats.current_connections = Cardinality(OpenSlots(clients))
  /\ stats.queue_disconnects + stats.current_connections
       <= stats.total_connections

\* pre[i] is the length of the first i frames of cl's queue.
Ledger(cl, pre) ==
  /\ pre[0] = 0
  /\ pre[Len(cl.out)] = cl.queued
  /\ \A i \in 1 .. Len(cl.out) :
       pre[i] = pre[i - 1] + FrameBytes[cl.out[i].type]
  /\ \A i, j \in 0 .. Len(cl.out) : i <= j => pre[i] <= pre[j]

\* queued_bytes is the total length of the frames in the queue and never
\* exceeds the configured bound, whatever is sent, queued and reset in which
\* order: so the subtraction in write_to_client cannot wrap around.
QueueAccounting ==
  \A c \in Slots :
    \E pre \in [0 .. Len(clients[c].out) -> 0 .. MaxQueueBytes] :
      Ledger(clients[c], pre)

\* Just before position i of c's queue the peer has been told that it is in
\* channel ch, and has not been told since that it left.
Announced(c, i, ch) ==
  LET q == clients[c].out
  IN  \/ /\ ch \in clients[c].heard
         /\ \A k \in 1 .. i - 1 : q[k] # About("LEFT", ch)
      \/ \E j \in 1 .. i - 1 :
           /\ q[j] = About("JOINED", ch)
           /\ \A k \in j + 1 .. i - 1 : q[k] # About("LEFT", ch)

\* What a peer reads makes sense in the order it reads it: a chat of a channel
\* comes after the answer that let it in and before the answer that let it
\* out, whatever was pending in its queue at the time.
ChatsOnlyWhileJoined ==
  \A c \in Slots : \A i \in 1 .. Len(clients[c].out) :
    LET f == clients[c].out[i]
    IN  f.type = "CHAT" => Announced(c, i, f.channel)

\* All connections see chats in the one order in which the core accepted them:
\* the numbers in a queue increase, and are above what was already written.
ChatsInOrder ==
  \A c \in Slots :
    LET q == clients[c].out
        chats == {i \in 1 .. Len(q) : q[i].type = "CHAT"}
    IN  /\ \A i \in chats : /\ clients[c].last < q[i].seq
                             /\ q[i].seq <= stats.channel_messages
        /\ \A i, j \in chats : i < j => q[i].seq < q[j].seq

\* A reader that is too slow costs nobody else the chat: when a chat is
\* accepted, every member of its channel has it at the end of the queue or
\* has just been disconnected because its own queue was full, and nobody
\* outside the channel is touched.
SlowReadersCostOnlyThemselves ==
  [][stats'.channel_messages > stats.channel_messages =>
       \E i \in 1 .. Len(channels) : \A c \in Slots :
         LET before == clients[c]
             after == clients'[c]
             chat == [type |-> "CHAT", channel |-> channels[i],
                      seq |-> stats'.channel_messages]
         IN  IF c \notin Members(clients, i) THEN after = before
             ELSE \/ after.out = Append(before.out, chat)
                  \/ after = Closed /\ Overflows(before, chat)]_vars
=============================================================================
