-------------------------- MODULE CoreServerProofs --------------------------
(* The invariants of CoreServer, proved for every size of its tables.      *)
EXTENDS CoreServer, SequenceTheorems, FiniteSetTheorems, TLAPS

HasLedger(cl) ==
  \E pre \in [0 .. Len(cl.out) -> 0 .. MaxQueueBytes] : Ledger(cl, pre)

\* TypeOK, FreeSlotsBlank, QueueAccounting and CountersAgree of any table of
\* clients cls and any counters st: the handlers go through several of each.
Sane(cls, st) ==
  /\ cls \in [Slots -> Client]
  /\ st \in Statistics
  /\ \A c \in Slots : ~cls[c].open => cls[c] = Closed
  /\ \A c \in Slots : HasLedger(cls[c])
  /\ st.current_connections = Cardinality(OpenSlots(cls))
  /\ st.queue_disconnects + st.current_connections <= st.total_connections

-----------------------------------------------------------------------------
(* Frames and queues.                                                      *)

\* Any set of slots is finite.
LEMMA SlotSets ==
  ASSUME NEW S \in SUBSET Slots
  PROVE  IsFiniteSet(S) /\ Cardinality(S) \in Nat
<1>1. IsFiniteSet(Slots)
  BY CoreAssumption, FS_Interval DEF Slots
<1> QED
  BY <1>1, FS_Subset, FS_CardinalityType

\* Every frame has a positive length.
LEMMA FrameLength ==
  ASSUME NEW f \in Frame
  PROVE  FrameBytes[f.type] \in Nat /\ FrameBytes[f.type] > 0
BY CoreAssumption DEF Frame, ChannelFrames, FrameTypes

\* The frames of the handlers are frames.
LEMMA Frames ==
  /\ \A type \in FrameTypes \ ChannelFrames : Plain(type) \in Frame
  /\ \A type \in ChannelFrames, ch \in ChannelNames : About(type, ch) \in Frame
BY DEF Plain, About, Frame

\* A blank slot is well-formed and its empty queue has length 0.
LEMMA ClosedIsSane == Closed \in Client /\ HasLedger(Closed)
<1>1. Closed \in Client
  BY DEF Closed, Client
<1>2. HasLedger(Closed)
  <2> DEFINE pre == [i \in 0 .. 0 |-> 0]
  <2>1. Len(Closed.out) = 0 /\ Closed.queued = 0
    BY DEF Closed
  <2>2. pre \in [0 .. 0 -> 0 .. MaxQueueBytes]
    BY CoreAssumption
  <2>3. Ledger(Closed, pre)
    BY <2>1 DEF Ledger
  <2> QED
    BY <2>1, <2>2, <2>3 DEF HasLedger
<1> QED
  BY <1>1, <1>2

\* enqueue_payload keeps queued_bytes equal to the length of the queue.
LEMMA EnqueueIsSane ==
  ASSUME NEW cl \in Client, NEW f \in Frame,
         HasLedger(cl), ~Overflows(cl, f)
  PROVE  Enqueue(cl, f) \in Client /\ HasLedger(Enqueue(cl, f))
<1> DEFINE n == Len(cl.out)
           b == FrameBytes[f.type]
           new == Enqueue(cl, f)
<1>1. b \in Nat /\ b > 0
  BY FrameLength
<1>2. /\ cl.out \in Seq(Frame) /\ n \in Nat
      /\ cl.queued \in Nat /\ cl.queued + b <= MaxQueueBytes
      /\ MaxQueueBytes \in Nat
  BY <1>1, CoreAssumption DEF Client, Overflows
<1>3. /\ new \in Client
      /\ new.out = Append(cl.out, f)
      /\ new.queued = cl.queued + b
  <2>1. Append(cl.out, f) \in Seq(Frame)
    BY <1>2, AppendProperties
  <2>2. cl.queued + b \in Nat
    BY <1>1, <1>2
  <2>3. new = [cl EXCEPT !.out = Append(cl.out, f),
                         !.queued = cl.queued + b]
    BY DEF Enqueue
  <2> HIDE DEF new, b
  <2> QED
    BY <2>1, <2>2, <2>3 DEF Client
<1>4. /\ Len(new.out) = n + 1
      /\ \A i \in 1 .. n : new.out[i] = cl.out[i]
      /\ new.out[n + 1] = f
  BY <1>2, <1>3, AppendProperties
<1>5. PICK pre \in [0 .. n -> 0 .. MaxQueueBytes] : Ledger(cl, pre)
  BY DEF HasLedger
<1>6. /\ pre[0] = 0 /\ pre[n] = cl.queued
      /\ \A i \in 0 .. n : pre[i] \in 0 .. MaxQueueBytes
      /\ \A i \in 1 .. n : pre[i] = pre[i - 1] + FrameBytes[cl.out[i].type]
      /\ \A i, j \in 0 .. n : i <= j => pre[i] <= pre[j]
  BY <1>5 DEF Ledger
<1> DEFINE post == [i \in 0 .. n + 1 |-> IF i = n + 1 THEN cl.queued + b
                                                     ELSE pre[i]]
<1>7. /\ post \in [0 .. n + 1 -> 0 .. MaxQueueBytes]
      /\ post[n + 1] = cl.queued + b
      /\ \A i \in 0 .. n : post[i] = pre[i]
  BY <1>1, <1>2, <1>6
<1> HIDE DEF post, n, b, new
<1>8. Ledger(new, post)
  <2>1. post[0] = 0
    BY <1>2, <1>6, <1>7
  <2>2. post[Len(new.out)] = new.queued
    BY <1>3, <1>4, <1>7
  <2>3. ASSUME NEW i \in 1 .. n + 1
        PROVE  post[i] = post[i - 1] + FrameBytes[new.out[i].type]
    <3>1. CASE i = n + 1
      <4>1. i - 1 = n /\ i - 1 \in 0 .. n
        BY <1>2, <3>1
      <4> QED
        BY <1>4, <1>6, <1>7, <3>1, <4>1 DEF b
    <3>2. CASE i \in 1 .. n
      <4>1. i \in 0 .. n /\ i - 1 \in 0 .. n
        BY <1>2, <3>2
      <4> QED
        BY <1>4, <1>6, <1>7, <3>2, <4>1
    <3> QED
      BY <1>2, <3>1, <3>2
  <2>4. ASSUME NEW i \in 0 .. n + 1, NEW j \in 0 .. n + 1, i <= j
        PROVE  post[i] <= post[j]
    <3>1. CASE j = n + 1 /\ i = n + 1
      BY <1>1, <1>2, <1>7, <3>1
    <3>2. CASE j = n + 1 /\ i \in 0 .. n
      <4>1. pre[i] <= pre[n]
        BY <1>2, <1>6, <3>2
      <4> QED
        BY <1>1, <1>2, <1>6, <1>7, <3>2, <4>1
    <3>3. CASE i \in 0 .. n /\ j \in 0 .. n
      BY <1>6, <1>7, <2>4, <3>3
    <3> QED
      BY <1>2, <2>4, <3>1, <3>2, <3>3
  <2> QED
    BY <1>4, <2>1, <2>2, <2>3, <2>4 DEF Ledger
<1> QED
  BY <1>3, <1>4, <1>7, <1>8 DEF HasLedger, new

\* The client of a slot after write_to_client has sent its first frame.
Sent(cl) ==
  LET f == Head(cl.out)
  IN  [cl EXCEPT
         !.out = Tail(@),
         !.queued = @ - FrameBytes[f.type],
         !.heard = CASE f.type = "JOINED" -> @ \cup {f.channel}
                     [] f.type = "LEFT" -> @ \ {f.channel}
                     [] OTHER -> @,
         !.last = IF f.type = "CHAT" THEN f.seq ELSE @]

\* The subtraction in write_to_client does not wrap around.
LEMMA SentIsSane ==
  ASSUME NEW cl \in Client, HasLedger(cl), cl.out # <<>>
  PROVE  Sent(cl) \in Client /\ HasLedger(Sent(cl))
<1> DEFINE n == Len(cl.out)
           f == Head(cl.out)
           b == FrameBytes[f.type]
           new == Sent(cl)
<1>1. /\ cl.out \in Seq(Frame) /\ n \in Nat \ {0}
      /\ f \in Frame /\ f = cl.out[1]
      /\ Tail(cl.out) \in Seq(Frame)
      /\ Len(Tail(cl.out)) = n - 1
      /\ \A i \in 1 .. n - 1 : Tail(cl.out)[i] = cl.out[i + 1]
      /\ cl.queued \in Nat
  BY HeadTailProperties DEF Client
<1>2. b \in Nat /\ b > 0
  BY <1>1, FrameLength
<1>3. PICK pre \in [0 .. n -> 0 .. MaxQueueBytes] : Ledger(cl, pre)
  BY DEF HasLedger
<1>4. /\ pre[0] = 0 /\ pre[n] = cl.queued
      /\ \A i \in 0 .. n : pre[i] \in 0 .. MaxQueueBytes
      /\ \A i \in 1 .. n : pre[i] = pre[i - 1] + FrameBytes[cl.out[i].type]
      /\ \A i, j \in 0 .. n : i <= j => pre[i] <= pre[j]
  BY <1>3 DEF Ledger
<1>5. pre[1] = b /\ \A i \in 1 .. n : b <= pre[i]
  <2>1. 1 \in 1 .. n /\ 1 - 1 = 0
    BY <1>1
  <2>2. pre[1] = pre[0] + b
    BY <1>1, <1>4, <2>1
  <2>3. pre[1] = b
    BY <1>2, <1>4, <2>2
  <2> QED
    BY <1>1, <1>4, <2>3
<1>6. cl.queued - b \in Nat
  BY <1>1, <1>2, <1>4, <1>5
<1>7. /\ new \in Client
      /\ new.out = Tail(cl.out)
      /\ new.queued = cl.queued - b
  <2> DEFINE heard == CASE f.type = "JOINED" -> cl.heard \cup {f.channel}
                        [] f.type = "LEFT" -> cl.heard \ {f.channel}
                        [] OTHER -> cl.heard
             last == IF f.type = "CHAT" THEN f.seq ELSE cl.last
  <2>1. heard \in SUBSET ChannelNames
    <3>1. cl.heard \in SUBSET ChannelNames
      BY DEF Client
    <3>2. f.type = "JOINED" => f.channel \in ChannelNames
      BY <1>1 DEF Frame, ChannelFrames
    <3> QED
      BY <3>1, <3>2
  <2>2. last \in Nat
    BY <1>1 DEF Client, Frame, ChannelFrames
  <2>3. new = [cl EXCEPT !.out = Tail(cl.out), !.queued = cl.queued - b,
                         !.heard = heard, !.last = last]
    BY DEF Sent
  <2> HIDE DEF new, b, heard, last, f
  <2> QED
    BY <1>1, <1>6, <2>1, <2>2, <2>3 DEF Client
<1> DEFINE post == [i \in 0 .. n - 1 |-> pre[i + 1] - b]
<1>8. /\ post \in [0 .. n - 1 -> 0 .. MaxQueueBytes]
      /\ \A i \in 0 .. n - 1 : post[i] = pre[i + 1] - b
  <2>1. ASSUME NEW i \in 0 .. n - 1
        PROVE  pre[i + 1] - b \in 0 .. MaxQueueBytes
    <3>1. i + 1 \in 0 .. n /\ i + 1 \in 1 .. n
      BY <1>1
    <3>2. pre[i + 1] \in 0 .. MaxQueueBytes /\ b <= pre[i + 1]
      BY <1>4, <1>5, <3>1
    <3> QED
      BY <1>2, <3>2, CoreAssumption
  <2> QED
    BY <2>1
<1> HIDE DEF post, n, b, new
<1>9. Ledger(new, post)
  <2>1. post[0] = 0
    BY <1>1, <1>2, <1>4, <1>5, <1>8
  <2>2. post[Len(new.out)] = new.queued
    <3>1. Len(new.out) = n - 1 /\ n - 1 \in 0 .. n - 1 /\ (n - 1) + 1 = n
      BY <1>1, <1>7
    <3> QED
      BY <1>4, <1>7, <1>8, <3>1
  <2>3. ASSUME NEW i \in 1 .. n - 1
        PROVE  post[i] = post[i - 1] + FrameBytes[new.out[i].type]
    <3>1. /\ i \in 0 .. n - 1 /\ i - 1 \in 0 .. n - 1 /\ (i - 1) + 1 = i
          /\ i + 1 \in 1 .. n /\ (i + 1) - 1 = i /\ i \in 0 .. n
          /\ i + 1 \in 0 .. n
      BY <1>1
    <3>2. pre[i + 1] = pre[i] + FrameBytes[new.out[i].type]
      BY <1>1, <1>4, <1>7, <3>1
    <3>3. pre[i] \in Int /\ pre[i + 1] \in Int
      BY <1>4, <3>1
    <3>4. FrameBytes[new.out[i].type] \in Nat
      <4>1. new.out[i] \in Frame
        BY <1>1, <1>7, ElementOfSeq
      <4> QED
        BY <4>1, FrameLength
    <3> QED
      BY <1>2, <1>8, <3>1, <3>2, <3>3, <3>4
  <2>4. ASSUME NEW i \in 0 .. n - 1, NEW j \in 0 .. n - 1, i <= j
        PROVE  post[i] <= post[j]
    <3>1. i + 1 \in 0 .. n /\ j + 1 \in 0 .. n /\ i + 1 <= j + 1
      BY <1>1, <2>4
    <3>2. /\ pre[i + 1] \in Int /\ pre[j + 1] \in Int
          /\ pre[i + 1] <= pre[j + 1]
      BY <1>4, <3>1
    <3> QED
      BY <1>2, <1>8, <3>2
  <2>5. Len(new.out) = n - 1
    BY <1>1, <1>7
  <2> QED
    BY <2>1, <2>2, <2>3, <2>4, <2>5 DEF Ledger
<1> QED
  BY <1>1, <1>7, <1>8, <1>9 DEF HasLedger, new

-----------------------------------------------------------------------------
(* Tables of clients.                                                      *)

\* The counters after n overflows.
LEMMA DroppedFields ==
  ASSUME NEW st \in Statistics, NEW n \in Nat, n <= st.current_connections
  PROVE  LET new == Dropped(st, n)
         IN  /\ new \in Statistics
             /\ new.current_connections = st.current_connections - n
             /\ new.queue_disconnects = st.queue_disconnects + n
             /\ new.total_connections = st.total_connections
             /\ new.channel_messages = st.channel_messages
<1>1. /\ st.current_connections - n \in Nat
      /\ st.queue_disconnects + n \in Nat
  BY DEF Statistics
<1> QED
  BY <1>1 DEF Dropped, Statistics

\* No overflow, no change.
LEMMA NoneDropped ==
  ASSUME NEW st \in Statistics
  PROVE  Dropped(st, 0) = st
<1>1. /\ st.current_connections - 0 = st.current_connections
      /\ st.queue_disconnects + 0 = st.queue_disconnects
  BY DEF Statistics
<1> QED
  BY <1>1 DEF Dropped, Statistics

\* Posting a frame to open slots: the slots that overflow are reset, counted
\* out once and counted as queue disconnects.
LEMMA PostIsSane ==
  ASSUME NEW cls, NEW st, Sane(cls, st),
         NEW S \in SUBSET OpenSlots(cls), NEW f \in Frame
  PROVE  Sane(Post(cls, S, f),
              Dropped(st, Cardinality(Overflowing(cls, S, f))))
<1> DEFINE new == Post(cls, S, f)
           lost == Overflowing(cls, S, f)
           n == Cardinality(lost)
           after == Dropped(st, n)
<1>1. cls \in [Slots -> Client] /\ st \in Statistics
  BY DEF Sane
<1>2. ASSUME NEW c \in Slots
      PROVE  new[c] \in Client /\ HasLedger(new[c])
  <2>1. cls[c] \in Client /\ HasLedger(cls[c])
    BY DEF Sane
  <2>2. new[c] = IF c \notin S THEN cls[c]
                 ELSE IF Overflows(cls[c], f) THEN Closed
                 ELSE Enqueue(cls[c], f)
    BY DEF Post
  <2> QED
    BY <2>1, <2>2, ClosedIsSane, EnqueueIsSane
<1>3. new \in [Slots -> Client]
  BY <1>2 DEF Post
<1>4. \A c \in Slots : ~Overflows(cls[c], f) =>
                         Enqueue(cls[c], f).open = cls[c].open
  BY <1>1 DEF Enqueue, Client
<1>5. \A c \in Slots : ~new[c].open => new[c] = Closed
  BY <1>4 DEF Sane, Post, OpenSlots
<1>6. /\ lost \subseteq OpenSlots(cls)
      /\ OpenSlots(new) = OpenSlots(cls) \ lost
  <2>1. lost \subseteq OpenSlots(cls)
    BY DEF Overflowing
  <2>2. ASSUME NEW c \in Slots
        PROVE  new[c].open <=> cls[c].open /\ c \notin lost
    BY <1>4 DEF Post, Overflowing, OpenSlots, Closed
  <2> QED
    BY <2>1, <2>2 DEF OpenSlots
<1>7. /\ IsFiniteSet(OpenSlots(cls)) /\ IsFiniteSet(lost)
      /\ Cardinality(OpenSlots(cls)) \in Nat /\ n \in Nat
  <2>1. OpenSlots(cls) \in SUBSET Slots /\ lost \in SUBSET Slots
    BY <1>6 DEF OpenSlots
  <2> QED
    BY <2>1, SlotSets
<1>8. /\ n <= Cardinality(OpenSlots(cls))
      /\ Cardinality(OpenSlots(new)) = Cardinality(OpenSlots(cls)) - n
  <2> HIDE DEF new, lost
  <2>1. OpenSlots(cls) \cap lost = lost
    BY <1>6
  <2>2. n <= Cardinality(OpenSlots(cls))
    BY <1>6, <1>7, FS_Subset
  <2>3. Cardinality(OpenSlots(cls) \ lost) = Cardinality(OpenSlots(cls)) - n
    BY <1>7, <2>1, FS_Difference
  <2> QED
    BY <1>6, <2>2, <2>3
<1>9. st.current_connections = Cardinality(OpenSlots(cls))
  BY DEF Sane
<1>10. /\ after \in Statistics
       /\ after.current_connections = st.current_connections - n
       /\ after.queue_disconnects = st.queue_disconnects + n
       /\ after.total_connections = st.total_connections
  <2> HIDE DEF n
  <2> QED
    BY <1>1, <1>7, <1>8, <1>9, DroppedFields
<1>11. after.queue_disconnects + after.current_connections
         <= after.total_connections
  <2>1. st.queue_disconnects + st.current_connections <= st.total_connections
    BY DEF Sane
  <2> HIDE DEF after, n
  <2> QED
    BY <1>1, <1>7, <1>10, <2>1 DEF Statistics
<1> HIDE DEF new, after
<1> QED
  BY <1>2, <1>3, <1>5, <1>8, <1>9, <1>10, <1>11 DEF Sane, new, after

\* Rewriting an open slot without touching its queue.
LEMMA EditIsSane ==
  ASSUME NEW cls, NEW st, Sane(cls, st), NEW c \in OpenSlots(cls),
         NEW cl \in Client, cl.open, HasLedger(cl)
  PROVE  /\ Sane([cls EXCEPT ![c] = cl], st)
         /\ OpenSlots([cls EXCEPT ![c] = cl]) = OpenSlots(cls)
<1> DEFINE new == [cls EXCEPT ![c] = cl]
<1>1. c \in Slots /\ cls \in [Slots -> Client] /\ cls[c].open
  BY DEF Sane, OpenSlots
<1>2. /\ new \in [Slots -> Client]
      /\ \A d \in Slots : new[d] = IF d = c THEN cl ELSE cls[d]
  BY <1>1
<1> HIDE DEF new
<1>3. OpenSlots(new) = OpenSlots(cls)
  BY <1>1, <1>2 DEF OpenSlots
<1>4. Sane(new, st)
  BY <1>2, <1>3 DEF Sane
<1> QED
  BY <1>3, <1>4 DEF new

\* Resetting an open slot on any other path than an overflow.
LEMMA ResetIsSane ==
  ASSUME NEW cls, NEW st, Sane(cls, st), NEW c \in OpenSlots(cls)
  PROVE  Sane([cls EXCEPT ![c] = Closed],
              [st EXCEPT !.current_connections = @ - 1])
<1> DEFINE new == [cls EXCEPT ![c] = Closed]
           after == [st EXCEPT !.current_connections = @ - 1]
<1>1. /\ c \in Slots /\ cls \in [Slots -> Client] /\ cls[c].open
      /\ st \in Statistics
  BY DEF Sane, OpenSlots
<1>2. /\ new \in [Slots -> Client]
      /\ \A d \in Slots : new[d] = IF d = c THEN Closed ELSE cls[d]
  BY <1>1, ClosedIsSane
<1> HIDE DEF new
<1>3. OpenSlots(new) = OpenSlots(cls) \ {c}
  BY <1>1, <1>2 DEF OpenSlots, Closed
<1>4. /\ IsFiniteSet(OpenSlots(cls))
      /\ Cardinality(OpenSlots(cls)) \in Nat
      /\ Cardinality(OpenSlots(new)) \in Nat
      /\ Cardinality(OpenSlots(new)) = Cardinality(OpenSlots(cls)) - 1
  <2>1. OpenSlots(cls) \in SUBSET Slots /\ OpenSlots(new) \in SUBSET Slots
    BY DEF OpenSlots
  <2> QED
    BY <1>3, <2>1, SlotSets, FS_RemoveElement
<1>5. st.current_connections = Cardinality(OpenSlots(cls))
  BY DEF Sane
<1>6. /\ after \in Statistics
      /\ after.current_connections = st.current_connections - 1
      /\ after.queue_disconnects = st.queue_disconnects
      /\ after.total_connections = st.total_connections
  BY <1>1, <1>4, <1>5 DEF Statistics
<1>7. after.queue_disconnects + after.current_connections
        <= after.total_connections
  <2>1. st.queue_disconnects + st.current_connections <= st.total_connections
    BY DEF Sane
  <2> HIDE DEF after
  <2> QED
    BY <1>1, <1>6, <2>1 DEF Statistics
<1> HIDE DEF after
<1> QED
  BY <1>2, <1>4, <1>5, <1>6, <1>7, ClosedIsSane DEF Sane, new, after

-----------------------------------------------------------------------------
(* Channels and names.                                                     *)

\* A channel is in the table once.
Distinct(chs) ==
  \A i, j \in 1 .. Len(chs) : chs[i] = chs[j] => i = j

\* UniqueUsernames and MembershipSound of any table of clients.
Unique(cls) ==
  \A c, d \in Slots :
    Live(cls, c) /\ Live(cls, d) /\ cls[c].username = cls[d].username => c = d

Placed(cl, chs) ==
  /\ cl.joined \subseteq 1 .. Len(chs)
  /\ cl.joined # {} => cl.open /\ cl.registered
  /\ cl.active # None => FindChannel(chs, cl.active) \in cl.joined

Sound(cls, chs) == Unique(cls) /\ \A c \in Slots : Placed(cls[c], chs)

\* Every client of cls is in new as it was, its queue apart, or was reset.
Kept(cls, new) ==
  \A c \in Slots :
    \/ new[c] = Closed
    \/ /\ new[c].open = cls[c].open
       /\ new[c].registered = cls[c].registered
       /\ new[c].username = cls[c].username
       /\ new[c].active = cls[c].active
       /\ new[c].joined = cls[c].joined

\* find_channel finds the channel by its name, and only that channel.
LEMMA Find ==
  ASSUME NEW chs \in Seq(ChannelNames), NEW name
  PROVE  LET i == FindChannel(chs, name)
         IN  \/ i = 0 /\ \A j \in 1 .. Len(chs) : chs[j] # name
             \/ i \in 1 .. Len(chs) /\ chs[i] = name
BY DEF FindChannel

\* Posting a frame changes nobody's name or channels.
LEMMA PostKeeps ==
  ASSUME NEW cls \in [Slots -> Client], NEW S, NEW f
  PROVE  Kept(cls, Post(cls, S, f))
<1>1. ASSUME NEW cl \in Client
      PROVE  /\ Enqueue(cl, f).open = cl.open
             /\ Enqueue(cl, f).registered = cl.registered
             /\ Enqueue(cl, f).username = cl.username
             /\ Enqueue(cl, f).active = cl.active
             /\ Enqueue(cl, f).joined = cl.joined
  BY DEF Enqueue, Client
<1>2. ASSUME NEW c \in Slots
      PROVE  Post(cls, S, f)[c] \in {cls[c], Closed, Enqueue(cls[c], f)}
  BY DEF Post
<1> QED
  BY <1>1, <1>2 DEF Kept

\* A blank slot is in no channel.
LEMMA ClosedIsPlaced ==
  ASSUME NEW chs
  PROVE  Placed(Closed, chs)
BY DEF Placed, Closed

\* So such a step preserves the two invariants.
LEMMA KeptIsSound ==
  ASSUME NEW cls, NEW new, NEW chs, Kept(cls, new), Sound(cls, chs)
  PROVE  Sound(new, chs)
<1>1. ASSUME NEW c \in Slots
      PROVE  Placed(new[c], chs)
  BY ClosedIsPlaced DEF Kept, Sound, Placed
<1>2. Unique(new)
  <2>1. \A c \in Slots : Live(new, c) =>
          Live(cls, c) /\ new[c].username = cls[c].username
    BY DEF Kept, Live, Closed
  <2> QED
    BY <2>1 DEF Unique, Sound
<1> QED
  BY <1>1, <1>2 DEF Sound

\* Rewriting one slot: the new name must be free and the channels its own.
LEMMA EditIsSound ==
  ASSUME NEW cls \in [Slots -> Client], NEW chs, Sound(cls, chs),
         NEW c \in Slots, NEW cl \in Client, Placed(cl, chs),
         \A d \in Slots \ {c} : cl.open /\ cl.registered /\ Live(cls, d)
                               => cls[d].username # cl.username
  PROVE  Sound([cls EXCEPT ![c] = cl], chs)
<1> DEFINE new == [cls EXCEPT ![c] = cl]
<1>1. \A d \in Slots : new[d] = IF d = c THEN cl ELSE cls[d]
  OBVIOUS
<1> HIDE DEF new
<1>2. Unique(new)
  BY <1>1 DEF Unique, Sound, Live
<1>3. Sound(new, chs)
  BY <1>1, <1>2 DEF Sound
<1> QED
  BY <1>3 DEF new

\* A channel that is added at the end of the table moves none of the others.
LEMMA AddedIsSound ==
  ASSUME NEW cls \in [Slots -> Client], NEW chs \in Seq(ChannelNames),
         Sound(cls, chs), Distinct(chs),
         NEW name \in ChannelNames, FindChannel(chs, name) = 0
  PROVE  LET new == Append(chs, name)
         IN  /\ new \in Seq(ChannelNames)
             /\ Distinct(new)
             /\ Sound(cls, new)
             /\ FindChannel(new, name) = Len(chs) + 1
             /\ Len(new) = Len(chs) + 1
<1> DEFINE new == Append(chs, name)
           n == Len(chs)
<1>1. /\ new \in Seq(ChannelNames)
      /\ n \in Nat /\ Len(new) = n + 1
      /\ \A i \in 1 .. n : new[i] = chs[i]
      /\ new[n + 1] = name
  BY AppendProperties
<1>2. \A j \in 1 .. n : chs[j] # name
  BY Find
<1> HIDE DEF new
<1>3. Distinct(new)
  <2>1. ASSUME NEW i \in 1 .. n + 1, NEW j \in 1 .. n + 1, new[i] = new[j]
        PROVE  i = j
    <3>1. CASE i \in 1 .. n /\ j \in 1 .. n
      BY <1>1, <2>1, <3>1 DEF Distinct
    <3>2. CASE i = n + 1 \/ j = n + 1
      BY <1>1, <1>2, <2>1, <3>2
    <3> QED
      BY <1>1, <3>1, <3>2
  <2> QED
    BY <1>1, <2>1 DEF Distinct
<1>4. FindChannel(new, name) = n + 1
  BY <1>1, <1>2, Find
<1>5. ASSUME NEW other, FindChannel(chs, other) # 0
      PROVE  FindChannel(new, other) = FindChannel(chs, other)
  <2>1. /\ FindChannel(chs, other) \in 1 .. n
        /\ chs[FindChannel(chs, other)] = other
    BY <1>5, Find
  <2>2. /\ FindChannel(chs, other) \in 1 .. Len(new)
        /\ new[FindChannel(chs, other)] = other
    BY <1>1, <2>1
  <2>3. /\ FindChannel(new, other) \in 1 .. Len(new)
        /\ new[FindChannel(new, other)] = other
    BY <1>1, <2>2, Find
  <2> QED
    BY <1>3, <2>2, <2>3 DEF Distinct
<1>6. ASSUME NEW c \in Slots
      PROVE  Placed(cls[c], new)
  <2>1. Placed(cls[c], chs)
    BY DEF Sound
  <2>2. 0 \notin cls[c].joined
    BY <1>1, <2>1 DEF Placed
  <2>3. cls[c].active # None =>
          FindChannel(new, cls[c].active) \in cls[c].joined
    BY <1>5, <2>1, <2>2 DEF Placed
  <2> QED
    BY <1>1, <2>1, <2>3 DEF Placed
<1> QED
  BY <1>1, <1>3, <1>4, <1>6 DEF Sound, new

-----------------------------------------------------------------------------
(* The inductive invariant.                                                *)

Ready(cls, st, chs) ==
  /\ Sane(cls, st)
  /\ Sound(cls, chs)
  /\ chs \in Seq(ChannelNames) /\ Len(chs) <= MaxChannels
  /\ Distinct(chs)

IInv == Ready(clients, stats, channels) /\ running \in BOOLEAN

\* The invariant implies the properties that the runs check.
LEMMA IInvImplies ==
  ASSUME IInv
  PROVE  /\ TypeOK /\ UniqueUsernames /\ MembershipSound
         /\ FreeSlotsBlank /\ CountersAgree /\ QueueAccounting
<1>1. TypeOK
  BY DEF IInv, Ready, Sane, TypeOK
<1>2. UniqueUsernames
  BY DEF IInv, Ready, Sound, Unique, UniqueUsernames
<1>3. MembershipSound
  BY DEF IInv, Ready, Sound, Placed, MembershipSound, Live
<1>4. FreeSlotsBlank
  BY DEF IInv, Ready, Sane, FreeSlotsBlank
<1>5. CountersAgree
  BY DEF IInv, Ready, Sane, CountersAgree
<1>6. QueueAccounting
  BY DEF IInv, Ready, Sane, HasLedger, QueueAccounting
<1> QED
  BY <1>1, <1>2, <1>3, <1>4, <1>5, <1>6

\* The invariant holds when the server starts.
LEMMA InitIInv == Init => IInv
<1> SUFFICES ASSUME Init PROVE IInv
  OBVIOUS
<1>1. Sane(clients, stats)
  <2>1. OpenSlots(clients) = {}
    BY DEF Init, OpenSlots, Closed
  <2>2. Cardinality(OpenSlots(clients)) = 0
    BY <2>1, FS_EmptySet
  <2>3. \A c \in Slots : clients[c] = Closed
    BY DEF Init
  <2>4. clients \in [Slots -> Client]
    BY ClosedIsSane DEF Init
  <2> QED
    BY <2>2, <2>3, <2>4, ClosedIsSane DEF Init, Sane, Statistics
<1>2. Sound(clients, channels)
  <2>1. \A c \in Slots : clients[c] = Closed
    BY DEF Init
  <2>2. Unique(clients)
    BY <2>1 DEF Unique, Live, Closed
  <2> QED
    BY <2>1, <2>2, ClosedIsPlaced DEF Sound
<1>3. channels \in Seq(ChannelNames) /\ Len(channels) = 0
  BY DEF Init
<1> QED
  BY <1>1, <1>2, <1>3, CoreAssumption DEF Init, IInv, Ready, Distinct

\* Everything that a handler does is a change to the sender's record, a
\* frame posted to open slots, or both.
LEMMA PostIsReady ==
  ASSUME NEW cls, NEW st, NEW chs, Ready(cls, st, chs),
         NEW S \in SUBSET OpenSlots(cls), NEW f \in Frame
  PROVE  Ready(Post(cls, S, f),
               Dropped(st, Cardinality(Overflowing(cls, S, f))), chs)
<1>1. Sane(Post(cls, S, f), Dropped(st, Cardinality(Overflowing(cls, S, f))))
  BY PostIsSane DEF Ready
<1>2. Sound(Post(cls, S, f), chs)
  BY PostKeeps, KeptIsSound DEF Ready, Sane
<1> QED
  BY <1>1, <1>2 DEF Ready

\* cl can replace the record of slot c.
Fits(cls, chs, c, cl) ==
  /\ c \in OpenSlots(cls)
  /\ cl \in Client /\ cl.open
  /\ cl.out = cls[c].out /\ cl.queued = cls[c].queued
  /\ Placed(cl, chs)
  /\ \A d \in Slots \ {c} : cl.registered /\ Live(cls, d)
                            => cls[d].username # cl.username

LEMMA EditIsReady ==
  ASSUME NEW cls, NEW st, NEW chs, NEW c, NEW cl,
         Ready(cls, st, chs), Fits(cls, chs, c, cl)
  PROVE  /\ Ready([cls EXCEPT ![c] = cl], st, chs)
         /\ OpenSlots([cls EXCEPT ![c] = cl]) = OpenSlots(cls)
<1>1. c \in Slots /\ c \in OpenSlots(cls) /\ cl \in Client /\ cl.open
  BY DEF OpenSlots, Fits
<1>2. HasLedger(cl)
  <2>1. HasLedger(cls[c])
    BY <1>1 DEF Ready, Sane
  <2> QED
    BY <2>1 DEF HasLedger, Ledger, Fits
<1>3. /\ Sane([cls EXCEPT ![c] = cl], st)
      /\ OpenSlots([cls EXCEPT ![c] = cl]) = OpenSlots(cls)
  BY <1>1, <1>2, EditIsSane DEF Ready
<1>4. Sound([cls EXCEPT ![c] = cl], chs)
  BY <1>1, EditIsSound DEF Ready, Sane, Fits
<1> QED
  BY <1>3, <1>4 DEF Ready

\* The counters that no invariant is about.
LEMMA CountIsReady ==
  ASSUME NEW cls, NEW st, NEW chs, Ready(cls, st, chs)
  PROVE  /\ Ready(cls, [st EXCEPT !.channel_messages = @ + 1], chs)
         /\ Ready(cls, [st EXCEPT !.direct_messages = @ + 1], chs)
         /\ Ready(cls, [st EXCEPT !.malformed_frames = @ + 1], chs)
<1>1. st \in Statistics
  BY DEF Ready, Sane
<1>2. ASSUME NEW new \in Statistics,
             new.current_connections = st.current_connections,
             new.queue_disconnects = st.queue_disconnects,
             new.total_connections = st.total_connections
      PROVE  Ready(cls, new, chs)
  BY <1>2 DEF Ready, Sane
<1>3. Ready(cls, [st EXCEPT !.channel_messages = @ + 1], chs)
  BY <1>1, <1>2 DEF Statistics
<1>4. Ready(cls, [st EXCEPT !.direct_messages = @ + 1], chs)
  BY <1>1, <1>2 DEF Statistics
<1>5. Ready(cls, [st EXCEPT !.malformed_frames = @ + 1], chs)
  BY <1>1, <1>2 DEF Statistics
<1> QED
  BY <1>3, <1>4, <1>5

LEMMA DeliverStep ==
  ASSUME NEW cls, NEW st, NEW chs, Ready(cls, st, chs),
         NEW S \in SUBSET OpenSlots(cls), NEW f \in Frame,
         Deliver(cls, st, S, f)
  PROVE  Ready(clients', stats', chs)
BY PostIsReady DEF Deliver

LEMMA ReplyStep ==
  ASSUME IInv, NEW c \in OpenSlots(clients), NEW f \in Frame, Reply(c, f),
         UNCHANGED <<channels, running>>
  PROVE  IInv'
<1>1. Ready(clients', stats', channels)
  BY DeliverStep DEF IInv, Reply
<1> QED
  BY <1>1 DEF IInv

-----------------------------------------------------------------------------
(* The handlers, one lemma for each.                                       *)

\* What Dispatch and IInv say about the sender.
LEMMA Sender ==
  ASSUME IInv, NEW c \in Slots, clients[c].open
  PROVE  /\ c \in OpenSlots(clients)
         /\ clients[c] \in Client
         /\ Placed(clients[c], channels)
         /\ {c} \in SUBSET OpenSlots(clients)
BY DEF IInv, Ready, Sane, Sound, OpenSlots

\* A name that username_in_use does not find can be taken.
LEMMA RenameIsReady ==
  ASSUME IInv, NEW c \in Slots, clients[c].open,
         NEW name \in Names, ~UsernameInUse(name, c)
  PROVE  /\ Ready(Rename(c, name), stats, channels)
         /\ OpenSlots(Rename(c, name)) = OpenSlots(clients)
<1> DEFINE cl == [clients[c] EXCEPT !.username = name, !.registered = TRUE]
<1>1. /\ clients \in [Slots -> Client] /\ clients[c] \in Client
      /\ c \in OpenSlots(clients)
  BY Sender DEF IInv, Ready, Sane
<1>2. Rename(c, name) = [clients EXCEPT ![c] = cl]
  BY <1>1 DEF Rename
<1>3. /\ cl \in Client /\ cl.open = clients[c].open /\ cl.registered
      /\ cl.username = name
      /\ cl.out = clients[c].out /\ cl.queued = clients[c].queued
      /\ cl.joined = clients[c].joined /\ cl.active = clients[c].active
  BY <1>1 DEF Client
<1>4. Placed(cl, channels)
  BY <1>3, Sender DEF Placed
<1>5. \A d \in Slots \ {c} : cl.registered /\ Live(clients, d)
                            => clients[d].username # cl.username
  BY <1>3 DEF UsernameInUse
<1>6. Ready(clients, stats, channels)
  BY DEF IInv
<1> HIDE DEF cl
<1>7. Fits(clients, channels, c, cl)
  BY <1>1, <1>3, <1>4, <1>5 DEF Fits
<1>8. /\ Ready([clients EXCEPT ![c] = cl], stats, channels)
      /\ OpenSlots([clients EXCEPT ![c] = cl]) = OpenSlots(clients)
  BY <1>6, <1>7, EditIsReady
<1> QED
  BY <1>2, <1>8

LEMMA HelloStep ==
  ASSUME IInv, NEW c \in Slots, NEW name \in Names \cup {Invalid},
         Hello(c, name)
  PROVE  IInv'
<1>1. clients[c].open /\ UNCHANGED <<channels, running>>
  BY DEF Hello, Dispatch
<1>2. CASE Reply(c, Plain("ERROR"))
  <2>1. Plain("ERROR") \in Frame
    BY Frames DEF FrameTypes, ChannelFrames
  <2> QED
    BY <1>1, <1>2, <2>1, Sender, ReplyStep
<1>3. CASE /\ name # Invalid /\ ~UsernameInUse(name, c)
           /\ Deliver(Rename(c, name), stats, {c}, Plain("OK"))
  <2>1. Plain("OK") \in Frame
    BY Frames DEF FrameTypes, ChannelFrames
  <2>2. /\ Ready(Rename(c, name), stats, channels)
        /\ {c} \in SUBSET OpenSlots(Rename(c, name))
    BY <1>1, <1>3, RenameIsReady, Sender
  <2>3. Ready(clients', stats', channels)
    BY <1>3, <2>1, <2>2, DeliverStep
  <2> QED
    BY <1>1, <2>3 DEF IInv
<1> QED
  BY <1>2, <1>3 DEF Hello

\* The notice goes to live members, so never to the slot that the answer has
\* just blanked.
LEMMA NickStep ==
  ASSUME IInv, NEW c \in Slots, NEW name \in Names \cup {Invalid},
         Nick(c, name)
  PROVE  IInv'
<1>1. clients[c].open /\ UNCHANGED <<channels, running>>
  BY DEF Nick, Dispatch
<1>2. CASE Reply(c, Plain("ERROR"))
  <2>1. Plain("ERROR") \in Frame
    BY Frames DEF FrameTypes, ChannelFrames
  <2> QED
    BY <1>1, <1>2, <2>1, Sender, ReplyStep
<1>3. CASE name # Invalid /\ ~UsernameInUse(name, c) /\ ~Reply(c, Plain("ERROR"))
  <2> DEFINE renamed == Rename(c, name)
             told == Post(renamed, {c}, Plain("OK"))
             lost == Cardinality(Overflowing(renamed, {c}, Plain("OK")))
             others == Members(told, FindChannel(channels, told[c].active)) \ {c}
  <2>1. Deliver(told, Dropped(stats, lost), others, Plain("SYSTEM"))
    BY <1>3 DEF Nick
  <2>2. Plain("OK") \in Frame /\ Plain("SYSTEM") \in Frame
    BY Frames DEF FrameTypes, ChannelFrames
  <2>3. /\ Ready(renamed, stats, channels)
        /\ {c} \in SUBSET OpenSlots(renamed)
    BY <1>1, <1>3, RenameIsReady, Sender
  <2> HIDE DEF renamed
  <2>4. Ready(told, Dropped(stats, lost), channels)
    BY <2>2, <2>3, PostIsReady
  <2>5. others \in SUBSET OpenSlots(told)
    BY DEF Members, Live, OpenSlots
  <2> HIDE DEF told, lost, others
  <2>6. Ready(clients', stats', channels)
    BY <2>1, <2>2, <2>4, <2>5, DeliverStep
  <2> QED
    BY <1>1, <2>6 DEF IInv
<1> QED
  BY <1>2, <1>3 DEF Nick

LEMMA JoinStep ==
  ASSUME IInv, NEW c \in Slots, NEW name \in ChannelNames \cup {Invalid},
         Join(c, name)
  PROVE  IInv'
<1>1. clients[c].open /\ UNCHANGED running
  BY DEF Join, Dispatch
<1>2. CASE Reply(c, Plain("ERROR")) /\ UNCHANGED channels
  <2>1. Plain("ERROR") \in Frame
    BY Frames DEF FrameTypes, ChannelFrames
  <2> QED
    BY <1>1, <1>2, <2>1, Sender, ReplyStep
<1> DEFINE found == FindChannel(channels, name)
           i == IF found = 0 THEN Len(channels) + 1 ELSE found
           cl == [clients[c] EXCEPT !.joined = @ \cup {i}, !.active = name]
           new == [clients EXCEPT ![c] = cl]
<1>3. CASE /\ clients[c].registered /\ name # Invalid
           /\ \/ found # 0 /\ UNCHANGED channels
              \/ /\ found = 0 /\ Len(channels) < MaxChannels
                 /\ channels' = Append(channels, name)
           /\ Deliver([clients EXCEPT ![c].joined = @ \cup {i},
                                      ![c].active = name],
                      stats, {c}, About("JOINED", name))
  <2>1. /\ clients \in [Slots -> Client] /\ clients[c] \in Client
        /\ c \in OpenSlots(clients) /\ Placed(clients[c], channels)
        /\ channels \in Seq(ChannelNames) /\ Len(channels) \in Nat
        /\ Len(channels) <= MaxChannels /\ MaxChannels \in Nat
    BY <1>1, Sender, CoreAssumption DEF IInv, Ready, Sane
  <2>2. /\ Ready(clients, stats, channels')
        /\ FindChannel(channels', name) = i
        /\ i \in 1 .. Len(channels')
        /\ Len(channels') \in Nat /\ Len(channels') <= MaxChannels
    <3>1. CASE found # 0 /\ UNCHANGED channels
      BY <2>1, <3>1, Find DEF IInv, Ready
    <3>2. CASE /\ found = 0 /\ Len(channels) < MaxChannels
               /\ channels' = Append(channels, name)
      <4>1. /\ channels' \in Seq(ChannelNames) /\ Distinct(channels')
            /\ Sound(clients, channels')
            /\ FindChannel(channels', name) = Len(channels) + 1
            /\ Len(channels') = Len(channels) + 1
        BY <1>3, <2>1, <3>2, AddedIsSound DEF IInv, Ready
      <4> QED
        BY <2>1, <3>2, <4>1 DEF IInv, Ready
    <3> QED
      BY <1>3, <3>1, <3>2
  <2>3. /\ cl \in Client /\ cl.open = clients[c].open
        /\ cl.registered = clients[c].registered
        /\ cl.username = clients[c].username
        /\ cl.out = clients[c].out /\ cl.queued = clients[c].queued
        /\ cl.joined = clients[c].joined \cup {i} /\ cl.active = name
    <3> HIDE DEF i
    <3>1. i \in 1 .. MaxChannels
      BY <2>1, <2>2
    <3> QED
      BY <1>3, <2>1, <3>1 DEF Client
  <2>4. [clients EXCEPT ![c].joined = @ \cup {i}, ![c].active = name] = new
    BY <2>1
  <2> HIDE DEF cl, i, found
  <2>5. Placed(cl, channels')
    <3>1. Placed(clients[c], channels')
      BY <2>2 DEF Ready, Sound
    <3> QED
      BY <1>1, <1>3, <2>2, <2>3, <3>1 DEF Placed
  <2>6. \A d \in Slots \ {c} : cl.registered /\ Live(clients, d)
                              => clients[d].username # cl.username
    BY <1>1, <1>3, <2>3 DEF IInv, Ready, Sound, Unique, Live
  <2>7. /\ Ready(new, stats, channels')
        /\ OpenSlots(new) = OpenSlots(clients)
    <3>1. Ready(clients, stats, channels')
      BY <2>2
    <3>2. Fits(clients, channels', c, cl)
      BY <1>1, <2>1, <2>3, <2>5, <2>6 DEF Fits
    <3> QED
      BY <3>1, <3>2, EditIsReady
  <2>8. About("JOINED", name) \in Frame
    BY <1>3, Frames DEF FrameTypes, ChannelFrames
  <2> HIDE DEF new
  <2>9. Ready(clients', stats', channels')
    <3>1. Deliver(new, stats, {c}, About("JOINED", name))
      BY <1>3, <2>4 DEF i, found
    <3>2. {c} \in SUBSET OpenSlots(new)
      BY <2>1, <2>7
    <3> QED
      BY <2>7, <2>8, <3>1, <3>2, DeliverStep
  <2> QED
    BY <1>1, <2>9 DEF IInv
<1> QED
  BY <1>2, <1>3 DEF Join

LEMMA SwitchStep ==
  ASSUME IInv, NEW c \in Slots, NEW name \in ChannelNames \cup {Invalid},
         Switch(c, name)
  PROVE  IInv'
<1>1. clients[c].open /\ UNCHANGED <<channels, running>>
  BY DEF Switch, Dispatch
<1>2. CASE Reply(c, Plain("ERROR"))
  <2>1. Plain("ERROR") \in Frame
    BY Frames DEF FrameTypes, ChannelFrames
  <2> QED
    BY <1>1, <1>2, <2>1, Sender, ReplyStep
<1>3. CASE /\ clients[c].registered /\ name # Invalid
           /\ FindChannel(channels, name) \in clients[c].joined
           /\ Deliver([clients EXCEPT ![c].active = name], stats,
                      {c}, Plain("OK"))
  <2> DEFINE cl == [clients[c] EXCEPT !.active = name]
             new == [clients EXCEPT ![c] = cl]
  <2>1. /\ clients \in [Slots -> Client] /\ clients[c] \in Client
        /\ c \in OpenSlots(clients) /\ Placed(clients[c], channels)
        /\ Ready(clients, stats, channels)
    BY <1>1, Sender DEF IInv, Ready, Sane
  <2>2. /\ cl \in Client /\ cl.open = clients[c].open
        /\ cl.registered = clients[c].registered
        /\ cl.username = clients[c].username
        /\ cl.out = clients[c].out /\ cl.queued = clients[c].queued
        /\ cl.joined = clients[c].joined /\ cl.active = name
    BY <1>3, <2>1 DEF Client
  <2>3. [clients EXCEPT ![c].active = name] = new
    BY <2>1
  <2> HIDE DEF cl
  <2>4. Fits(clients, channels, c, cl)
    <3>1. Placed(cl, channels)
      BY <1>3, <2>1, <2>2 DEF Placed
    <3>2. \A d \in Slots \ {c} : cl.registered /\ Live(clients, d)
                                => clients[d].username # cl.username
      BY <1>1, <1>3, <2>2 DEF IInv, Ready, Sound, Unique, Live
    <3> QED
      BY <1>1, <2>1, <2>2, <3>1, <3>2 DEF Fits
  <2>5. Ready(new, stats, channels) /\ OpenSlots(new) = OpenSlots(clients)
    <3>1. Ready(clients, stats, channels)
      BY <2>1
    <3> QED
      BY <2>4, <3>1, EditIsReady
  <2>6. Plain("OK") \in Frame
    BY Frames DEF FrameTypes, ChannelFrames
  <2> HIDE DEF new
  <2>7. Ready(clients', stats', channels)
    <3>1. Deliver(new, stats, {c}, Plain("OK"))
      BY <1>3, <2>3
    <3>2. {c} \in SUBSET OpenSlots(new)
      BY <2>1, <2>5
    <3> QED
      BY <2>5, <2>6, <3>1, <3>2, DeliverStep
  <2> QED
    BY <1>1, <2>7 DEF IInv
<1> QED
  BY <1>2, <1>3 DEF Switch

\* LEAVE does not ask whether the sender is registered: being in a channel
\* implies it.  Another channel than the one left stays active.
LEMMA LeaveStep ==
  ASSUME IInv, NEW c \in Slots, NEW name \in ChannelNames \cup {Invalid},
         Leave(c, name)
  PROVE  IInv'
<1>1. clients[c].open /\ UNCHANGED <<channels, running>>
  BY DEF Leave, Dispatch
<1>2. CASE Reply(c, Plain("ERROR"))
  <2>1. Plain("ERROR") \in Frame
    BY Frames DEF FrameTypes, ChannelFrames
  <2> QED
    BY <1>1, <1>2, <2>1, Sender, ReplyStep
<1> DEFINE i == FindChannel(channels, name)
           cl == [clients[c] EXCEPT !.joined = @ \ {i},
                                    !.active = IF @ = name THEN None ELSE @]
           new == [clients EXCEPT ![c] = cl]
<1>3. CASE /\ name # Invalid /\ i \in clients[c].joined
           /\ Deliver([clients EXCEPT
                         ![c].joined = @ \ {i},
                         ![c].active = IF @ = name THEN None ELSE @],
                      stats, {c}, About("LEFT", name))
  <2>1. /\ clients \in [Slots -> Client] /\ clients[c] \in Client
        /\ c \in OpenSlots(clients) /\ Placed(clients[c], channels)
        /\ Ready(clients, stats, channels)
        /\ channels \in Seq(ChannelNames) /\ Distinct(channels)
    BY <1>1, Sender DEF IInv, Ready, Sane
  <2>2. /\ cl \in Client /\ cl.open = clients[c].open
        /\ cl.registered = clients[c].registered
        /\ cl.username = clients[c].username
        /\ cl.out = clients[c].out /\ cl.queued = clients[c].queued
        /\ cl.joined = clients[c].joined \ {i}
        /\ cl.active = IF clients[c].active = name THEN None
                       ELSE clients[c].active
    <3> HIDE DEF i
    <3> QED
      BY <1>3, <2>1 DEF Client
  <2>3. [clients EXCEPT ![c].joined = @ \ {i},
                        ![c].active = IF @ = name THEN None ELSE @] = new
    BY <2>1
  <2>4. Placed(cl, channels)
    <3>1. ASSUME cl.active # None
          PROVE  FindChannel(channels, cl.active) # i
      <4>1. clients[c].active # name /\ cl.active = clients[c].active
        BY <2>2, <3>1
      <4>2. FindChannel(channels, cl.active) # 0
        BY <2>1, <3>1, <4>1 DEF Placed
      <4>3. channels[FindChannel(channels, cl.active)] = cl.active
        BY <2>1, <4>2, Find
      <4>4. i = 0 \/ channels[i] = name
        BY <2>1, Find
      <4> QED
        BY <4>1, <4>2, <4>3, <4>4
    <3> HIDE DEF cl, i
    <3> QED
      BY <2>1, <2>2, <3>1 DEF Placed
  <2> HIDE DEF cl, i
  <2>5. Fits(clients, channels, c, cl)
    <3>1. clients[c].registered
      BY <1>3, <2>1 DEF Placed
    <3>2. \A d \in Slots \ {c} : cl.registered /\ Live(clients, d)
                                => clients[d].username # cl.username
      BY <1>1, <2>2, <3>1 DEF IInv, Ready, Sound, Unique, Live
    <3> QED
      BY <1>1, <2>1, <2>2, <2>4, <3>2 DEF Fits
  <2>6. Ready(new, stats, channels) /\ OpenSlots(new) = OpenSlots(clients)
    <3>1. Ready(clients, stats, channels)
      BY <2>1
    <3> QED
      BY <2>5, <3>1, EditIsReady
  <2>7. About("LEFT", name) \in Frame
    BY <1>3, Frames DEF FrameTypes, ChannelFrames
  <2> HIDE DEF new
  <2>8. Ready(clients', stats', channels)
    <3>1. Deliver(new, stats, {c}, About("LEFT", name))
      BY <1>3, <2>3 DEF i
    <3>2. {c} \in SUBSET OpenSlots(new)
      BY <2>1, <2>6
    <3> QED
      BY <2>6, <2>7, <3>1, <3>2, DeliverStep
  <2> QED
    BY <1>1, <2>8 DEF IInv
<1> QED
  BY <1>2, <1>3 DEF Leave

LEMMA SayStep ==
  ASSUME IInv, NEW c \in Slots, NEW valid \in BOOLEAN, Say(c, valid)
  PROVE  IInv'
<1>1. clients[c].open /\ UNCHANGED <<channels, running>>
  BY DEF Say, Dispatch
<1>2. CASE Reply(c, Plain("ERROR"))
  <2>1. Plain("ERROR") \in Frame
    BY Frames DEF FrameTypes, ChannelFrames
  <2> QED
    BY <1>1, <1>2, <2>1, Sender, ReplyStep
<1> DEFINE i == FindChannel(channels, clients[c].active)
           chat == [type |-> "CHAT", channel |-> clients[c].active,
                    seq |-> stats.channel_messages + 1]
           counted == [stats EXCEPT !.channel_messages = @ + 1]
<1>3. CASE /\ i # 0
           /\ Deliver(clients, counted, Members(clients, i), chat)
  <2>1. /\ channels \in Seq(ChannelNames) /\ stats \in Statistics
        /\ Ready(clients, stats, channels)
    BY DEF IInv, Ready, Sane
  <2>2. clients[c].active \in ChannelNames
    BY <1>3, <2>1, Find
  <2>3. chat \in Frame
    BY <2>1, <2>2 DEF Frame, ChannelFrames, Statistics
  <2>4. Ready(clients, counted, channels)
    BY <2>1, CountIsReady
  <2>5. Members(clients, i) \in SUBSET OpenSlots(clients)
    BY DEF Members, Live, OpenSlots
  <2> HIDE DEF chat, counted, i
  <2>6. Ready(clients', stats', channels)
    BY <1>3, <2>3, <2>4, <2>5, DeliverStep
  <2> QED
    BY <1>1, <2>6 DEF IInv
<1> QED
  BY <1>2, <1>3 DEF Say

\* The two frames of a DM go to two different slots, or to the same one when
\* the sender writes to itself; if the first frame overflows there is no second.
LEMMA DmStep ==
  ASSUME IInv, NEW c \in Slots, NEW name \in Names \cup {Invalid}, Dm(c, name)
  PROVE  IInv'
<1>1. clients[c].open /\ UNCHANGED <<channels, running>>
  BY DEF Dm, Dispatch
<1>2. /\ Plain("ERROR") \in Frame /\ Plain("OK") \in Frame
      /\ Plain("DM_RECV") \in Frame
  BY Frames DEF FrameTypes, ChannelFrames
<1>3. Ready(clients, stats, channels) /\ c \in OpenSlots(clients)
  BY <1>1, Sender DEF IInv
<1>4. CASE Reply(c, Plain("ERROR"))
  BY <1>1, <1>2, <1>3, <1>4, ReplyStep
<1>5. ASSUME NEW t \in Holders(name),
             Deliver(clients, stats, {t}, Plain("DM_RECV"))
      PROVE  IInv'
  <2>1. {t} \in SUBSET OpenSlots(clients)
    BY DEF Holders, Live, OpenSlots
  <2>2. Ready(clients', stats', channels)
    BY <1>2, <1>3, <1>5, <2>1, DeliverStep
  <2> QED
    BY <1>1, <2>2 DEF IInv
<1>6. ASSUME NEW t \in Holders(name),
             ~Overflows(clients[t], Plain("DM_RECV")),
             Deliver(Post(clients, {t}, Plain("DM_RECV")),
                     [stats EXCEPT !.direct_messages = @ + 1],
                     {c}, Plain("OK"))
      PROVE  IInv'
  <2> DEFINE new == Post(clients, {t}, Plain("DM_RECV"))
             counted == [stats EXCEPT !.direct_messages = @ + 1]
  <2>1. {t} \in SUBSET OpenSlots(clients)
    BY DEF Holders, Live, OpenSlots
  <2>2. Overflowing(clients, {t}, Plain("DM_RECV")) = {}
    BY <1>6 DEF Overflowing
  <2>3. Ready(clients, counted, channels)
    BY <1>3, CountIsReady
  <2> HIDE DEF counted
  <2>4. Dropped(counted, 0) = counted
    BY <2>3, NoneDropped DEF Ready, Sane
  <2>5. Ready(new, counted, channels)
    <3>1. Ready(new, Dropped(counted, Cardinality(
                       Overflowing(clients, {t}, Plain("DM_RECV")))), channels)
      BY <1>2, <2>1, <2>3, PostIsReady
    <3> QED
      BY <2>2, <2>4, <3>1, FS_EmptySet
  <2>6. {c} \in SUBSET OpenSlots(new)
    <3>1. new[c] = clients[c] \/ new[c] = Enqueue(clients[c], Plain("DM_RECV"))
      BY <1>6 DEF Post
    <3>2. clients[c] \in Client
      BY <1>1, Sender
    <3>3. new[c].open
      BY <1>1, <3>1, <3>2 DEF Enqueue, Client
    <3> QED
      BY <3>3 DEF OpenSlots
  <2>7. Deliver(new, counted, {c}, Plain("OK"))
    BY <1>6 DEF counted
  <2> HIDE DEF new
  <2>8. Ready(clients', stats', channels)
    BY <1>2, <2>5, <2>6, <2>7, DeliverStep
  <2> QED
    BY <1>1, <2>8 DEF IInv
<1> QED
  BY <1>4, <1>5, <1>6 DEF Dm

LEMMA MalformedStep ==
  ASSUME IInv, NEW c \in Slots, Malformed(c)
  PROVE  IInv'
<1> DEFINE cl == [clients[c] EXCEPT !.stuck = TRUE]
           new == [clients EXCEPT ![c] = cl]
           counted == [stats EXCEPT !.malformed_frames = @ + 1]
<1>1. /\ clients[c].open /\ UNCHANGED <<channels, running>>
      /\ Deliver([clients EXCEPT ![c].stuck = TRUE], counted,
                 {c}, Plain("ERROR"))
  BY DEF Malformed
<1>2. /\ clients \in [Slots -> Client] /\ clients[c] \in Client
      /\ c \in OpenSlots(clients) /\ Placed(clients[c], channels)
  BY <1>1, Sender DEF IInv, Ready, Sane
<1>3. /\ cl \in Client /\ cl.open = clients[c].open
      /\ cl.registered = clients[c].registered
      /\ cl.username = clients[c].username
      /\ cl.out = clients[c].out /\ cl.queued = clients[c].queued
      /\ cl.joined = clients[c].joined /\ cl.active = clients[c].active
  BY <1>2 DEF Client
<1>4. [clients EXCEPT ![c].stuck = TRUE] = new
  BY <1>2
<1> HIDE DEF cl
<1>5. Fits(clients, channels, c, cl)
  <2>1. Placed(cl, channels)
    BY <1>2, <1>3 DEF Placed
  <2>2. \A d \in Slots \ {c} : cl.registered /\ Live(clients, d)
                              => clients[d].username # cl.username
    BY <1>1, <1>3 DEF IInv, Ready, Sound, Unique, Live
  <2> QED
    BY <1>1, <1>2, <1>3, <2>1, <2>2 DEF Fits
<1>6. Ready(clients, counted, channels)
  BY CountIsReady DEF IInv
<1> HIDE DEF counted
<1>7. Ready(new, counted, channels) /\ OpenSlots(new) = OpenSlots(clients)
  BY <1>5, <1>6, EditIsReady
<1>8. Deliver(new, counted, {c}, Plain("ERROR"))
  BY <1>1, <1>4
<1> HIDE DEF new
<1>9. {c} \in SUBSET OpenSlots(new) /\ Plain("ERROR") \in Frame
  BY <1>2, <1>7, Frames DEF FrameTypes, ChannelFrames
<1>10. Ready(clients', stats', channels)
  BY <1>7, <1>8, <1>9, DeliverStep
<1> QED
  BY <1>1, <1>10 DEF IInv

\* QUIT, end of file, errors, and the full input buffer.
LEMMA DisconnectStep ==
  ASSUME IInv, NEW c \in Slots, clients[c].open, Disconnect(c)
  PROVE  IInv'
<1>1. /\ clients' = [clients EXCEPT ![c] = Closed]
      /\ stats' = [stats EXCEPT !.current_connections = @ - 1]
      /\ UNCHANGED <<channels, running>>
  BY DEF Disconnect
<1>2. Sane(clients', stats')
  BY <1>1, Sender, ResetIsSane DEF IInv, Ready
<1>3. Sound(clients', channels)
  <2>1. clients \in [Slots -> Client]
    BY DEF IInv, Ready, Sane
  <2>2. \A d \in Slots : clients'[d] \in {clients[d], Closed}
    BY <1>1, <2>1
  <2>3. Kept(clients, clients')
    BY <2>2 DEF Kept
  <2> QED
    BY <2>3, KeptIsSound DEF IInv, Ready
<1> QED
  BY <1>1, <1>2, <1>3 DEF IInv, Ready

LEMMA AcceptStep ==
  ASSUME IInv, NEW c \in Slots, Accept(c)
  PROVE  IInv'
<1> DEFINE cl == [Closed EXCEPT !.open = TRUE]
<1>1. /\ ~clients[c].open /\ UNCHANGED <<channels, running>>
      /\ clients' = [clients EXCEPT ![c] = cl]
      /\ stats' = [stats EXCEPT !.current_connections = @ + 1,
                                !.total_connections = @ + 1]
  BY DEF Accept
<1>2. /\ clients \in [Slots -> Client] /\ stats \in Statistics
      /\ stats.current_connections = Cardinality(OpenSlots(clients))
      /\ stats.queue_disconnects + stats.current_connections
           <= stats.total_connections
  BY DEF IInv, Ready, Sane
<1>3. cl \in Client /\ cl.open /\ HasLedger(cl) /\ Placed(cl, channels)
  <2>1. /\ cl \in Client /\ cl.open
        /\ cl.out = Closed.out /\ cl.queued = Closed.queued
        /\ cl.joined = Closed.joined /\ cl.active = Closed.active
    BY ClosedIsSane DEF Client
  <2>2. HasLedger(cl)
    BY <2>1, ClosedIsSane DEF HasLedger, Ledger
  <2>3. Placed(cl, channels)
    BY <2>1 DEF Placed, Closed
  <2> QED
    BY <2>1, <2>2, <2>3
<1>4. \A d \in Slots : clients'[d] = IF d = c THEN cl ELSE clients[d]
  BY <1>1, <1>2
<1>5. /\ OpenSlots(clients') = OpenSlots(clients) \cup {c}
      /\ c \notin OpenSlots(clients)
  BY <1>1, <1>3, <1>4 DEF OpenSlots
<1>6. Cardinality(OpenSlots(clients')) = Cardinality(OpenSlots(clients)) + 1
  <2>1. OpenSlots(clients) \in SUBSET Slots
    BY DEF OpenSlots
  <2> QED
    BY <1>5, <2>1, SlotSets, FS_AddElement
<1>7. /\ stats' \in Statistics
      /\ stats'.current_connections = stats.current_connections + 1
      /\ stats'.total_connections = stats.total_connections + 1
      /\ stats'.queue_disconnects = stats.queue_disconnects
  <2>1. /\ stats.current_connections + 1 \in Nat
        /\ stats.total_connections + 1 \in Nat
    BY <1>2 DEF Statistics
  <2>2. stats' = [stats EXCEPT
                   !.current_connections = stats.current_connections + 1,
                   !.total_connections = stats.total_connections + 1]
    BY <1>1
  <2> QED
    BY <1>2, <2>1, <2>2 DEF Statistics
<1>8. stats'.queue_disconnects + stats'.current_connections
        <= stats'.total_connections
  BY <1>2, <1>7 DEF Statistics
<1> HIDE DEF cl
<1>9. Sane(clients', stats')
  <2>1. clients' \in [Slots -> Client]
    BY <1>1, <1>2, <1>3
  <2>2. \A d \in Slots : /\ ~clients'[d].open => clients'[d] = Closed
                         /\ HasLedger(clients'[d])
    BY <1>3, <1>4 DEF IInv, Ready, Sane
  <2> QED
    BY <1>2, <1>6, <1>7, <1>8, <2>1, <2>2 DEF Sane
<1>10. Sound(clients', channels)
  <2>1. ~cl.registered
    BY DEF cl, Closed
  <2> QED
    BY <1>1, <1>2, <1>3, <2>1, EditIsSound DEF IInv, Ready
<1> QED
  BY <1>1, <1>9, <1>10 DEF IInv, Ready

LEMMA FrameSentStep ==
  ASSUME IInv, NEW c \in Slots, FrameSent(c)
  PROVE  IInv'
<1> DEFINE cl == Sent(clients[c])
<1>1. /\ clients[c].open /\ clients[c].out # <<>>
      /\ UNCHANGED <<channels, stats, running>>
  BY DEF FrameSent
<1>2. /\ clients \in [Slots -> Client] /\ clients[c] \in Client
      /\ HasLedger(clients[c]) /\ Placed(clients[c], channels)
      /\ c \in OpenSlots(clients)
  BY <1>1, Sender DEF IInv, Ready, Sane
<1>3. clients' = [clients EXCEPT ![c] = cl]
  BY <1>2 DEF FrameSent, Sent
<1>4. cl \in Client /\ HasLedger(cl)
  BY <1>1, <1>2, SentIsSane
<1>5. /\ cl.open = clients[c].open
      /\ cl.registered = clients[c].registered
      /\ cl.username = clients[c].username
      /\ cl.active = clients[c].active
      /\ cl.joined = clients[c].joined
  BY <1>2 DEF Sent, Client
<1> HIDE DEF cl
<1>6. Sane(clients', stats')
  <2>1. Sane([clients EXCEPT ![c] = cl], stats)
    BY <1>1, <1>2, <1>4, <1>5, EditIsSane DEF IInv, Ready
  <2> QED
    BY <1>1, <1>3, <2>1
<1>7. Sound(clients', channels)
  <2>1. \A d \in Slots : clients'[d] = IF d = c THEN cl ELSE clients[d]
    BY <1>2, <1>3
  <2>2. Kept(clients, clients')
    BY <1>5, <2>1 DEF Kept
  <2> QED
    BY <2>2, KeptIsSound DEF IInv, Ready
<1> QED
  BY <1>1, <1>6, <1>7 DEF IInv, Ready

LEMMA ShutdownStep ==
  ASSUME IInv, Shutdown
  PROVE  IInv'
<1>1. /\ clients' = [c \in Slots |-> Closed] /\ ~running'
      /\ stats' = [stats EXCEPT !.current_connections = 0]
      /\ UNCHANGED channels /\ running' \in BOOLEAN
  BY DEF Shutdown
<1>2. \A c \in Slots : clients'[c] = Closed
  BY <1>1
<1>3. OpenSlots(clients') = {}
  BY <1>2 DEF OpenSlots, Closed
<1>4. Sane(clients', stats')
  <2>1. Cardinality(OpenSlots(clients')) = 0
    BY <1>3, FS_EmptySet
  <2>2. clients' \in [Slots -> Client]
    BY <1>1, ClosedIsSane
  <2>3. /\ stats \in Statistics
        /\ stats.queue_disconnects + stats.current_connections
             <= stats.total_connections
    BY DEF IInv, Ready, Sane
  <2>4. /\ stats' \in Statistics
        /\ stats'.current_connections = 0
        /\ stats'.queue_disconnects + stats'.current_connections
             <= stats'.total_connections
    BY <1>1, <2>3 DEF Statistics
  <2> QED
    BY <1>2, <2>1, <2>2, <2>4, ClosedIsSane DEF Sane
<1>5. Sound(clients', channels)
  <2>1. Kept(clients, clients')
    BY <1>2 DEF Kept
  <2> QED
    BY <2>1, KeptIsSound DEF IInv, Ready
<1> QED
  BY <1>1, <1>4, <1>5 DEF IInv, Ready

\* WHO, LIST, STATS and unknown types only answer the sender.
LEMMA AnswerStep ==
  ASSUME IInv, NEW c \in Slots, Who(c) \/ List(c) \/ Stats(c) \/ Unknown(c)
  PROVE  IInv'
<1>1. /\ clients[c].open /\ UNCHANGED <<channels, running>>
      /\ \E type \in FrameTypes \ ChannelFrames : Reply(c, Plain(type))
  BY DEF Who, List, Stats, Unknown, Dispatch, FrameTypes, ChannelFrames
<1> QED
  BY <1>1, Sender, Frames, ReplyStep

LEMMA RequestStep ==
  ASSUME IInv, NEW c \in Slots, Request(c)
  PROVE  IInv'
<1>1. ASSUME Quit(c) PROVE IInv'
  BY <1>1, DisconnectStep DEF Quit, Dispatch
<1> QED
  BY <1>1, HelloStep, NickStep, DmStep, JoinStep, SwitchStep, LeaveStep,
     SayStep, AnswerStep, MalformedStep DEF Request

LEMMA NextIInv == IInv /\ [Next]_vars => IInv'
<1> SUFFICES ASSUME IInv, [Next]_vars PROVE IInv'
  OBVIOUS
<1>1. ASSUME NEW c \in Slots, PeerGone(c) \/ InputFull(c) PROVE IInv'
  <2>1. clients[c].open /\ Disconnect(c)
    BY <1>1 DEF PeerGone, InputFull, IInv, Ready, Sane, Closed
  <2> QED
    BY <2>1, DisconnectStep
<1>2. CASE UNCHANGED vars
  BY <1>2 DEF vars, IInv
<1> QED
  BY <1>1, <1>2, AcceptStep, RequestStep, FrameSentStep, ShutdownStep DEF Next

-----------------------------------------------------------------------------
(* The theorems.                                                           *)

THEOREM Invariance == Spec => []IInv
<1>1. Init => IInv
  BY InitIInv
<1>2. IInv /\ [Next]_vars => IInv'
  BY NextIInv
<1> QED
  BY <1>1, <1>2, PTL DEF Spec

\* The state always has its shape: no counter of server_stats and no
\* queued_bytes ever wraps below zero.
THEOREM TypeCorrect == Spec => []TypeOK
<1>1. IInv => TypeOK
  BY IInvImplies
<1> QED
  BY <1>1, Invariance, PTL

\* No two connections hold the same name.
THEOREM NamesAreUnique == Spec => []UniqueUsernames
<1>1. IInv => UniqueUsernames
  BY IInvImplies
<1> QED
  BY <1>1, Invariance, PTL

\* joined[], active_channel and registered agree.
THEOREM MembershipIsSound == Spec => []MembershipSound
<1>1. IInv => MembershipSound
  BY IInvImplies
<1> QED
  BY <1>1, Invariance, PTL

\* No handler writes to a slot after it was reset.
THEOREM FreeSlotsAreBlank == Spec => []FreeSlotsBlank
<1>1. IInv => FreeSlotsBlank
  BY IInvImplies
<1> QED
  BY <1>1, Invariance, PTL

\* Every connection is counted in and out once.
THEOREM CountersAreExact == Spec => []CountersAgree
<1>1. IInv => CountersAgree
  BY IInvImplies
<1> QED
  BY <1>1, Invariance, PTL

\* queued_bytes is the length of the queue, and bounded.
THEOREM QueuesAreBounded == Spec => []QueueAccounting
<1>1. IInv => QueueAccounting
  BY IInvImplies
<1> QED
  BY <1>1, Invariance, PTL

=============================================================================
