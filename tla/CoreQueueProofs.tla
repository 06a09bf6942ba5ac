--------------------------- MODULE CoreQueueProofs ---------------------------
(***************************************************************************)
(* Proofs about what CoreServer puts into the queues, for every size of    *)
(* its tables: a peer reads the chats in the order in which they were      *)
(* accepted, each between the answers that let it into the channel and out *)
(* of it, and a reader that is too slow costs nobody else a chat.          *)
(*                                                                         *)
(* What is added to make them inductive: whoever has joined a channel will *)
(* have been told so once it has read its whole queue, and the last chat   *)
(* that was written to it is one that has been counted.                    *)
(***************************************************************************)
EXTENDS CoreServerProofs

\* Announced, of any client cl.
Told(cl, i, ch) ==
  \/ /\ ch \in cl.heard
     /\ \A k \in 1 .. i - 1 : cl.out[k] # About("LEFT", ch)
  \/ \E j \in 1 .. i - 1 :
       /\ cl.out[j] = About("JOINED", ch)
       /\ \A k \in j + 1 .. i - 1 : cl.out[k] # About("LEFT", ch)

IsChat(f) == f.type = "CHAT"

\* An answer to LEAVE is nothing but that.
WellMade(f) == f.type = "LEFT" => f = About("LEFT", f.channel)

\* The queue of cl, when the channels are chs and n chats have been accepted.
Hears(cl, chs, n) ==
  /\ cl.last <= n
  /\ \A i \in 1 .. Len(cl.out) : WellMade(cl.out[i])
  /\ \A i \in 1 .. Len(cl.out) : IsChat(cl.out[i]) =>
       /\ Told(cl, i, cl.out[i].channel)
       /\ cl.last < cl.out[i].seq /\ cl.out[i].seq <= n
  /\ \A i, j \in 1 .. Len(cl.out) :
       IsChat(cl.out[i]) /\ IsChat(cl.out[j]) /\ i < j
         => cl.out[i].seq < cl.out[j].seq
  /\ \A p \in cl.joined : Told(cl, Len(cl.out) + 1, chs[p])

Hearing(cls, chs, n) == \A c \in Slots : Hears(cls[c], chs, n)

Heard == Hearing(clients, channels, stats.channel_messages)

-----------------------------------------------------------------------------
(* One queue *)

LEMMA ClosedHears ==
  ASSUME NEW chs, NEW n \in Nat
  PROVE  Hears(Closed, chs, n)
<1>1. Closed.last = 0 /\ Len(Closed.out) = 0 /\ Closed.joined = {}
  BY DEF Closed
<1> QED
  BY <1>1 DEF Hears

\* More chats have been accepted.
LEMMA HearsLater ==
  ASSUME NEW cl \in Client, NEW chs, NEW m \in Nat, NEW n \in Nat, m <= n,
         Hears(cl, chs, m)
  PROVE  Hears(cl, chs, n)
<1>1. cl.last \in Nat
  BY DEF Client
<1>2. \A i \in 1 .. Len(cl.out) : IsChat(cl.out[i]) => cl.out[i].seq \in Nat
  <2>1. cl.out \in Seq(Frame)
    BY DEF Client
  <2> QED
    BY <2>1, ElementOfSeq DEF Frame
<1> QED
  BY <1>1, <1>2 DEF Hears

\* Another name, or the mark of a malformed header.
LEMMA SameHears ==
  ASSUME NEW cl, NEW new, NEW chs, NEW n, Hears(cl, chs, n),
         new.out = cl.out, new.heard = cl.heard, new.last = cl.last,
         new.joined = cl.joined
  PROVE  Hears(new, chs, n)
<1>1. \A i, ch : Told(cl, i, ch) => Told(new, i, ch)
  BY DEF Told
<1> QED
  BY <1>1 DEF Hears

\* A frame f at the end.  The peer is told of the channels it has joined: of a
\* new one by f itself, and of none that f says it has left.
LEMMA AppendedHears ==
  ASSUME NEW cl \in Client, NEW new \in Client, NEW f \in Frame, WellMade(f),
         NEW chs, NEW later, NEW m \in Nat, NEW n \in Nat, m <= n,
         Hears(cl, chs, m),
         new.out = Append(cl.out, f), new.heard = cl.heard,
         new.last = cl.last,
         IsChat(f) => /\ m < f.seq /\ f.seq <= n
                      /\ Told(cl, Len(cl.out) + 1, f.channel),
         \A p \in new.joined :
           \/ f = About("JOINED", later[p])
           \/ p \in cl.joined /\ later[p] = chs[p] /\ f # About("LEFT", chs[p])
  PROVE  Hears(new, later, n)
<1> DEFINE len == Len(cl.out)
<1>1. /\ len \in Nat /\ Len(new.out) = len + 1
      /\ \A i \in 1 .. len : new.out[i] = cl.out[i] /\ cl.out[i] \in Frame
      /\ new.out[len + 1] = f
  <2>1. cl.out \in Seq(Frame)
    BY DEF Client
  <2> QED
    BY <2>1, AppendProperties, ElementOfSeq
<1>2. cl.last \in Nat /\ (IsChat(f) => f.seq \in Nat)
  BY DEF Client, Frame
<1>3. \A i \in 1 .. len : IsChat(cl.out[i]) => cl.out[i].seq \in Nat
  BY <1>1 DEF Frame
<1> HIDE DEF len
<1>4. ASSUME NEW i \in 1 .. len + 1, NEW ch, Told(cl, i, ch)
      PROVE  Told(new, i, ch)
  <2>1. \A k \in 1 .. i - 1 : new.out[k] = cl.out[k]
    BY <1>1
  <2>2. CASE /\ ch \in cl.heard
             /\ \A k \in 1 .. i - 1 : cl.out[k] # About("LEFT", ch)
    BY <2>1, <2>2 DEF Told
  <2>3. CASE \E j \in 1 .. i - 1 :
               /\ cl.out[j] = About("JOINED", ch)
               /\ \A k \in j + 1 .. i - 1 : cl.out[k] # About("LEFT", ch)
    <3>1. PICK j \in 1 .. i - 1 :
            /\ cl.out[j] = About("JOINED", ch)
            /\ \A k \in j + 1 .. i - 1 : cl.out[k] # About("LEFT", ch)
      BY <2>3
    <3>2. \A k \in j + 1 .. i - 1 : k \in 1 .. i - 1
      BY <1>1
    <3> QED
      BY <2>1, <3>1, <3>2 DEF Told
  <2> QED
    BY <1>4, <2>2, <2>3 DEF Told
<1>5. ASSUME NEW ch, Told(new, len + 1, ch), f # About("LEFT", ch)
      PROVE  Told(new, len + 2, ch)
  <2>1. (len + 1) - 1 = len /\ (len + 2) - 1 = len + 1
    BY <1>1
  <2>2. CASE /\ ch \in new.heard
             /\ \A k \in 1 .. len : new.out[k] # About("LEFT", ch)
    <3>1. \A k \in 1 .. len + 1 : k \in 1 .. len \/ k = len + 1
      BY <1>1
    <3> QED
      BY <1>1, <1>5, <2>1, <2>2, <3>1 DEF Told
  <2>3. CASE \E j \in 1 .. len :
               /\ new.out[j] = About("JOINED", ch)
               /\ \A k \in j + 1 .. len : new.out[k] # About("LEFT", ch)
    <3>1. PICK j \in 1 .. len :
            /\ new.out[j] = About("JOINED", ch)
            /\ \A k \in j + 1 .. len : new.out[k] # About("LEFT", ch)
      BY <2>3
    <3>2. j \in 1 .. len + 1
          /\ \A k \in j + 1 .. len + 1 : k \in j + 1 .. len \/ k = len + 1
      BY <1>1
    <3> QED
      BY <1>1, <1>5, <2>1, <3>1, <3>2 DEF Told
  <2> QED
    BY <1>5, <2>1, <2>2, <2>3 DEF Told
<1>6. ASSUME NEW ch, f = About("JOINED", ch)
      PROVE  Told(new, len + 2, ch)
  <2>1. /\ (len + 2) - 1 = len + 1 /\ len + 1 \in 1 .. len + 1
        /\ \A k \in (len + 1) + 1 .. len + 1 : FALSE
    BY <1>1
  <2> QED
    BY <1>1, <1>6, <2>1 DEF Told
<1>7. ASSUME NEW i \in 1 .. len + 1, IsChat(new.out[i])
      PROVE  /\ Told(new, i, new.out[i].channel)
             /\ new.last < new.out[i].seq /\ new.out[i].seq <= n
  <2>1. CASE i \in 1 .. len
    <3>1. /\ Told(cl, i, new.out[i].channel)
          /\ new.last < new.out[i].seq /\ new.out[i].seq <= m
      BY <1>1, <1>7, <2>1 DEF Hears, len
    <3>2. new.out[i].seq \in Nat
      BY <1>1, <1>3, <1>7, <2>1
    <3>3. Told(new, i, new.out[i].channel)
      BY <1>4, <3>1
    <3> DEFINE seq == new.out[i].seq
    <3>4. seq \in Nat /\ seq <= m /\ new.last < seq
      BY <3>1, <3>2
    <3> HIDE DEF seq
    <3>5. seq <= n
      BY <3>4
    <3> QED
      BY <3>3, <3>4, <3>5 DEF seq
  <2>2. CASE i = len + 1
    <3>1. new.out[i] = f /\ IsChat(f)
      BY <1>1, <1>7, <2>2
    <3>2. Told(cl, i, f.channel)
      BY <2>2, <3>1 DEF len
    <3>3. cl.last <= m
      BY DEF Hears
    <3> QED
      BY <1>2, <1>4, <3>1, <3>2, <3>3
  <2> QED
    BY <1>1, <2>1, <2>2
<1>8. ASSUME NEW i \in 1 .. len + 1, NEW j \in 1 .. len + 1, i < j,
             IsChat(new.out[i]), IsChat(new.out[j])
      PROVE  new.out[i].seq < new.out[j].seq
  <2>1. i \in 1 .. len
    BY <1>1, <1>8
  <2>2. CASE j \in 1 .. len
    BY <1>1, <1>8, <2>1, <2>2 DEF Hears, len
  <2>3. CASE j = len + 1
    <3>1. new.out[i].seq <= m /\ new.out[i].seq \in Nat
      BY <1>1, <1>3, <1>8, <2>1 DEF Hears, len
    <3>2. m < new.out[j].seq /\ new.out[j].seq \in Nat
      BY <1>1, <1>2, <1>8, <2>3
    <3> DEFINE a == new.out[i].seq
               b == new.out[j].seq
    <3>3. a \in Nat /\ b \in Nat /\ a <= m /\ m < b
      BY <3>1, <3>2
    <3> HIDE DEF a, b
    <3>4. a < b
      BY <3>3
    <3> QED
      BY <3>4 DEF a, b
  <2> QED
    BY <1>1, <2>2, <2>3
<1>9. ASSUME NEW p \in new.joined
      PROVE  Told(new, len + 2, later[p])
  <2>1. CASE f = About("JOINED", later[p])
    BY <1>6, <2>1
  <2>2. CASE p \in cl.joined /\ later[p] = chs[p] /\ f # About("LEFT", chs[p])
    <3>1. Told(cl, len + 1, later[p])
      BY <2>2 DEF Hears, len
    <3>2. len + 1 \in 1 .. len + 1
      BY <1>1
    <3> QED
      BY <1>4, <1>5, <2>2, <3>1, <3>2
  <2> QED
    BY <1>9, <2>1, <2>2
<1>10. new.last <= n
  BY <1>2 DEF Hears
<1>11. (len + 1) + 1 = len + 2
  BY <1>1
<1>12. \A i \in 1 .. len + 1 : WellMade(new.out[i])
  BY <1>1 DEF Hears, len
<1> QED
  BY <1>1, <1>7, <1>8, <1>9, <1>10, <1>11, <1>12 DEF Hears

\* The frame at the head has been written, and the peer has read it.
LEMMA SentHears ==
  ASSUME NEW cl \in Client, Sent(cl) \in Client, cl.out # <<>>,
         NEW chs, NEW n \in Nat, Hears(cl, chs, n)
  PROVE  Hears(Sent(cl), chs, n)
<1> DEFINE len == Len(cl.out)
           f   == Head(cl.out)
           new == Sent(cl)
<1>1. /\ len \in Nat \ {0} /\ f \in Frame /\ f = cl.out[1]
      /\ Len(Tail(cl.out)) = len - 1
      /\ \A i \in 1 .. len - 1 : Tail(cl.out)[i] = cl.out[i + 1]
      /\ \A i \in 1 .. len : cl.out[i] \in Frame
  <2>1. cl.out \in Seq(Frame)
    BY DEF Client
  <2> QED
    BY <2>1, HeadTailProperties, ElementOfSeq
<1>2. /\ new.out = Tail(cl.out) /\ new.joined = cl.joined
      /\ new.heard = CASE f.type = "JOINED" -> cl.heard \cup {f.channel}
                       [] f.type = "LEFT" -> cl.heard \ {f.channel}
                       [] OTHER -> cl.heard
      /\ new.last = IF IsChat(f) THEN f.seq ELSE cl.last
  BY DEF Sent, Client, IsChat
<1>3. /\ Len(new.out) = len - 1
      /\ \A i \in 1 .. len - 1 : new.out[i] = cl.out[i + 1]
  BY <1>1, <1>2
<1> HIDE DEF new, len
<1>6. cl.last \in Nat /\ 1 \in 1 .. len
  BY <1>1 DEF Client
<1>4. ASSUME NEW i \in 1 .. len, NEW ch, Told(cl, i + 1, ch)
      PROVE  Told(new, i, ch)
  <2>0. (i + 1) - 1 = i /\ 1 \in 1 .. i /\ i \in Nat
    BY <1>1
  <2>1. \A k \in 1 .. i - 1 : new.out[k] = cl.out[k + 1] /\ k + 1 \in 2 .. i
    BY <1>1, <1>3
  <2>2. CASE ch \in new.heard /\ \A k \in 2 .. i : cl.out[k] # About("LEFT", ch)
    BY <2>1, <2>2 DEF Told
  <2>3. CASE /\ ch \in cl.heard
             /\ \A k \in 1 .. i : cl.out[k] # About("LEFT", ch)
    <3>1. f # About("LEFT", ch)
      BY <1>1, <2>0, <2>3
    <3>2. ~(f.type = "LEFT" /\ f.channel = ch)
      BY <1>1, <1>6, <3>1 DEF Hears, WellMade, len
    <3>3. ch \in new.heard
      BY <1>2, <2>3, <3>2
    <3>4. \A k \in 2 .. i : k \in 1 .. i
      BY <2>0
    <3> QED
      BY <2>2, <2>3, <3>3, <3>4
  <2>4. ASSUME NEW j \in 1 .. i, cl.out[j] = About("JOINED", ch),
               \A k \in j + 1 .. i : cl.out[k] # About("LEFT", ch)
        PROVE  Told(new, i, ch)
    <3>1. CASE j = 1
      <4>1. f.type = "JOINED" /\ f.channel = ch
        BY <1>1, <2>4, <3>1 DEF About
      <4>2. ch \in new.heard
        BY <1>2, <4>1
      <4>3. 1 + 1 = 2
        OBVIOUS
      <4> QED
        BY <2>2, <2>4, <3>1, <4>2, <4>3
    <3>2. CASE j # 1
      <4>1. j - 1 \in 1 .. i - 1 /\ (j - 1) + 1 = j
        BY <2>0, <3>2
      <4>2. new.out[j - 1] = About("JOINED", ch)
        BY <2>1, <2>4, <4>1
      <4>3. \A k \in (j - 1) + 1 .. i - 1 :
              k \in 1 .. i - 1 /\ k + 1 \in j + 1 .. i
        BY <2>0
      <4> QED
        BY <2>1, <2>4, <4>1, <4>2, <4>3 DEF Told
    <3> QED
      BY <3>1, <3>2
  <2> QED
    BY <1>4, <2>0, <2>3, <2>4 DEF Told
<1>5. \A i \in 1 .. len - 1 :
        /\ i + 1 \in 1 .. len /\ i \in 1 .. len
        /\ cl.out[i + 1] \in Frame
        /\ IsChat(cl.out[i + 1]) => cl.out[i + 1].seq \in Nat
  BY <1>1 DEF Frame
<1>7. new.last <= n
  BY <1>1, <1>2, <1>6 DEF Hears, len
<1>8. ASSUME NEW i \in 1 .. len - 1, IsChat(new.out[i])
      PROVE  /\ Told(new, i, new.out[i].channel)
             /\ new.last < new.out[i].seq /\ new.out[i].seq <= n
  <2>1. new.out[i] = cl.out[i + 1] /\ i + 1 \in 1 .. len /\ i \in 1 .. len
    BY <1>3, <1>5
  <2>2. /\ Told(cl, i + 1, new.out[i].channel)
        /\ cl.last < new.out[i].seq /\ new.out[i].seq <= n
    BY <1>8, <2>1 DEF Hears, len
  <2>3. IsChat(f) => f.seq < new.out[i].seq
    <3>1. 1 < i + 1
      OBVIOUS
    <3> QED
      BY <1>1, <1>6, <1>8, <2>1, <3>1 DEF Hears, len
  <2>4. Told(new, i, new.out[i].channel)
    BY <1>4, <2>1, <2>2
  <2> QED
    BY <1>2, <2>2, <2>3, <2>4
<1>9. ASSUME NEW i \in 1 .. len - 1, NEW j \in 1 .. len - 1, i < j,
             IsChat(new.out[i]), IsChat(new.out[j])
      PROVE  new.out[i].seq < new.out[j].seq
  <2>1. i + 1 < j + 1
    BY <1>9
  <2> QED
    BY <1>3, <1>5, <1>9, <2>1 DEF Hears, len
<1>10. ASSUME NEW p \in new.joined
       PROVE  Told(new, len, chs[p])
  <2>1. Told(cl, len + 1, chs[p])
    BY <1>2 DEF Hears, len
  <2>2. len \in 1 .. len
    BY <1>1
  <2> QED
    BY <1>4, <2>1, <2>2
<1>11. (len - 1) + 1 = len
  BY <1>1
<1>12. \A i \in 1 .. len - 1 : WellMade(new.out[i])
  BY <1>3, <1>5 DEF Hears, len
<1> QED
  BY <1>3, <1>7, <1>8, <1>9, <1>10, <1>11, <1>12 DEF Hears, new

-----------------------------------------------------------------------------
(* Tables of clients *)

LEMMA EnqueueIsClient ==
  ASSUME NEW cl \in Client, NEW f \in Frame
  PROVE  /\ Enqueue(cl, f) \in Client
         /\ Enqueue(cl, f).out = Append(cl.out, f)
         /\ Enqueue(cl, f).heard = cl.heard /\ Enqueue(cl, f).last = cl.last
         /\ Enqueue(cl, f).joined = cl.joined
<1>1. Append(cl.out, f) \in Seq(Frame)
  BY AppendProperties DEF Client
<1>2. cl.queued + FrameBytes[f.type] \in Nat
  BY FrameLength DEF Client
<1> QED
  BY <1>1, <1>2 DEF Enqueue, Client

\* A frame for the slots of S that says nothing of who is in a channel; a chat
\* is for peers that are in its channel.
LEMMA PostHears ==
  ASSUME NEW cls \in [Slots -> Client], NEW chs, NEW m \in Nat, NEW n \in Nat,
         m <= n, Hearing(cls, chs, m), NEW S, NEW f \in Frame,
         f.type \notin {"JOINED", "LEFT"},
         IsChat(f) =>
           /\ m < f.seq /\ f.seq <= n
           /\ \A c \in Slots \cap S :
                Told(cls[c], Len(cls[c].out) + 1, f.channel)
  PROVE  Hearing(Post(cls, S, f), chs, n)
<1> SUFFICES ASSUME NEW c \in Slots
             PROVE  Hears(Post(cls, S, f)[c], chs, n)
  BY DEF Hearing
<1>1. cls[c] \in Client /\ Hears(cls[c], chs, m)
  BY DEF Hearing
<1>2. WellMade(f) /\ \A p \in cls[c].joined : f # About("LEFT", chs[p])
  BY DEF About, WellMade
<1>3. Post(cls, S, f)[c] = IF c \notin S THEN cls[c]
                           ELSE IF Overflows(cls[c], f) THEN Closed
                           ELSE Enqueue(cls[c], f)
  BY DEF Post
<1>4. CASE c \notin S
  BY <1>1, <1>3, <1>4, HearsLater
<1>5. CASE c \in S /\ Overflows(cls[c], f)
  BY <1>3, <1>5, ClosedHears
<1>6. CASE c \in S /\ ~Overflows(cls[c], f)
  <2> DEFINE new == Enqueue(cls[c], f)
  <2>1. /\ new \in Client /\ new.out = Append(cls[c].out, f)
        /\ new.heard = cls[c].heard /\ new.last = cls[c].last
        /\ new.joined = cls[c].joined
    BY <1>1, EnqueueIsClient
  <2> HIDE DEF new
  <2>2. IsChat(f) => /\ m < f.seq /\ f.seq <= n
                     /\ Told(cls[c], Len(cls[c].out) + 1, f.channel)
    BY <1>6
  <2>3. \A p \in new.joined :
          p \in cls[c].joined /\ f # About("LEFT", chs[p])
    BY <1>2, <2>1
  <2>4. Hears(new, chs, n)
    BY <1>1, <1>2, <2>1, <2>2, <2>3, AppendedHears
  <2> QED
    BY <1>3, <1>6, <2>4 DEF new
<1> QED
  BY <1>4, <1>5, <1>6

\* The record of the sender is replaced by cl, and the sender is answered.
LEMMA AnswerHears ==
  ASSUME NEW cls \in [Slots -> Client], NEW chs, NEW later, NEW n \in Nat,
         Hearing(cls, chs, n), NEW c \in Slots, NEW cl \in Client,
         cl.out = cls[c].out, cl.heard = cls[c].heard, cl.last = cls[c].last,
         NEW f \in Frame, ~IsChat(f), WellMade(f),
         \A p \in cl.joined :
           \/ f = About("JOINED", later[p])
           \/ /\ p \in cls[c].joined /\ later[p] = chs[p]
              /\ f # About("LEFT", chs[p]),
         \A d \in Slots \ {c} : \A p \in cls[d].joined : later[p] = chs[p]
  PROVE  Hearing(Post([cls EXCEPT ![c] = cl], {c}, f), later, n)
<1> DEFINE edit == [cls EXCEPT ![c] = cl]
<1> SUFFICES ASSUME NEW d \in Slots
             PROVE  Hears(Post(edit, {c}, f)[d], later, n)
  BY DEF Hearing
<1>1. edit[d] = IF d = c THEN cl ELSE cls[d]
  OBVIOUS
<1>2. Post(edit, {c}, f)[d] = IF d # c THEN cls[d]
                              ELSE IF Overflows(cl, f) THEN Closed
                              ELSE Enqueue(cl, f)
  BY <1>1 DEF Post
<1> HIDE DEF edit
<1>3. CASE d # c
  <2>1. \A p \in cls[d].joined : later[p] = chs[p]
    BY <1>3
  <2>2. Hears(cls[d], chs, n)
    BY DEF Hearing
  <2>3. Hears(cls[d], later, n)
    BY <2>1, <2>2 DEF Hears
  <2> QED
    BY <1>2, <1>3, <2>3
<1>4. CASE d = c /\ Overflows(cl, f)
  BY <1>2, <1>4, ClosedHears
<1>5. CASE d = c /\ ~Overflows(cl, f)
  <2> DEFINE new == Enqueue(cl, f)
  <2>1. /\ new \in Client /\ new.out = Append(cls[c].out, f)
        /\ new.heard = cls[c].heard /\ new.last = cls[c].last
        /\ new.joined = cl.joined
    BY EnqueueIsClient
  <2> HIDE DEF new
  <2>2. cls[c] \in Client /\ Hears(cls[c], chs, n)
    BY DEF Hearing
  <2>3. Hears(new, later, n)
    BY <2>1, <2>2, AppendedHears
  <2> QED
    BY <1>2, <1>5, <2>3 DEF new
<1> QED
  BY <1>3, <1>4, <1>5

-----------------------------------------------------------------------------
(* The handlers *)

\* SlowReadersCostOnlyThemselves, of one step.
Isolated ==
  stats'.channel_messages > stats.channel_messages =>
    \E i \in 1 .. Len(channels) : \A c \in Slots :
      LET before == clients[c]
          after == clients'[c]
          chat == [type |-> "CHAT", channel |-> channels[i],
                   seq |-> stats'.channel_messages]
      IN  IF c \notin Members(clients, i) THEN after = before
          ELSE \/ after.out = Append(before.out, chat)
               \/ after = Closed /\ Overflows(before, chat)

Step == Heard' /\ Isolated

LEMMA Tables ==
  ASSUME IInv
  PROVE  /\ clients \in [Slots -> Client] /\ stats \in Statistics
         /\ stats.channel_messages \in Nat
         /\ channels \in Seq(ChannelNames) /\ Distinct(channels)
         /\ \A c \in Slots : Placed(clients[c], channels)
BY DEF IInv, Ready, Sane, Sound, Statistics

\* A step that accepts no chat.
LEMMA Quiet ==
  ASSUME IInv, stats'.channel_messages = stats.channel_messages,
         Hearing(clients', channels', stats.channel_messages)
  PROVE  Step
<1>1. ~(stats'.channel_messages > stats.channel_messages)
  BY Tables
<1> QED
  BY <1>1 DEF Step, Heard, Isolated

LEMMA DroppedChats ==
  ASSUME NEW st \in Statistics, NEW n
  PROVE  Dropped(st, n).channel_messages = st.channel_messages
BY DEF Dropped, Statistics

\* Frames that are not about channels.
PlainTypes == FrameTypes \ ChannelFrames

LEMMA PlainFrames ==
  ASSUME NEW type \in PlainTypes
  PROVE  /\ Plain(type) \in Frame /\ ~IsChat(Plain(type))
         /\ Plain(type).type \notin {"JOINED", "LEFT"}
         /\ WellMade(Plain(type))
         /\ \A ch : Plain(type) # About("LEFT", ch)
<1>1. Plain(type) \in Frame
  BY Frames DEF PlainTypes
<1>2. Plain(type).type = type /\ type \notin {"JOINED", "LEFT", "CHAT"}
  BY DEF Plain, PlainTypes, ChannelFrames
<1> QED
  BY <1>1, <1>2 DEF IsChat, WellMade, About

LEMMA PlainAre ==
  {"OK", "ERROR", "SYSTEM", "DM_RECV", "WHO_RESP", "LIST_RESP", "STATS_RESP"}
    \subseteq PlainTypes
BY DEF PlainTypes, FrameTypes, ChannelFrames

LEMMA ReplyHeard ==
  ASSUME IInv, Heard, NEW S, NEW type \in PlainTypes,
         Deliver(clients, stats, S, Plain(type)), UNCHANGED channels
  PROVE  Step
<1> DEFINE n == stats.channel_messages
<1>1. /\ Plain(type) \in Frame /\ ~IsChat(Plain(type))
      /\ Plain(type).type \notin {"JOINED", "LEFT"}
  BY PlainFrames
<1>2. clients \in [Slots -> Client] /\ n \in Nat /\ stats \in Statistics
  BY Tables
<1>3. Hearing(clients, channels, n) /\ n <= n
  BY <1>2 DEF Heard
<1>4. clients' = Post(clients, S, Plain(type)) /\ stats'.channel_messages = n
  BY <1>2, DroppedChats DEF Deliver
<1> HIDE DEF n
<1>5. Hearing(clients', channels', n)
  BY <1>1, <1>2, <1>3, <1>4, PostHears
<1> QED
  BY <1>4, <1>5, Quiet DEF n

\* The record of the sender is replaced, and the sender is answered.
LEMMA EditHeard ==
  ASSUME IInv, Heard, NEW c \in Slots, NEW cl \in Client,
         cl.out = clients[c].out, cl.heard = clients[c].heard,
         cl.last = clients[c].last,
         NEW f \in Frame, ~IsChat(f), WellMade(f),
         \A p \in cl.joined :
           \/ f = About("JOINED", channels'[p])
           \/ /\ p \in clients[c].joined /\ channels'[p] = channels[p]
              /\ f # About("LEFT", channels[p]),
         \A p \in 1 .. Len(channels) : channels'[p] = channels[p],
         NEW st \in Statistics, st.channel_messages = stats.channel_messages,
         Deliver([clients EXCEPT ![c] = cl], st, {c}, f)
  PROVE  Step
<1> DEFINE n == stats.channel_messages
           later == channels'
           cls == clients'
<1>1. /\ clients \in [Slots -> Client] /\ n \in Nat
      /\ \A d \in Slots \ {c} : \A p \in clients[d].joined : later[p] = channels[p]
  BY Tables DEF Placed
<1>2. /\ cls = Post([clients EXCEPT ![c] = cl], {c}, f)
      /\ stats'.channel_messages = n
  BY DroppedChats DEF Deliver
<1>3. Hearing(clients, channels, n)
  BY DEF Heard
<1>4. \A p \in cl.joined :
        \/ f = About("JOINED", later[p])
        \/ /\ p \in clients[c].joined /\ later[p] = channels[p]
           /\ f # About("LEFT", channels[p])
  OBVIOUS
<1> HIDE DEF n, later, cls
<1>5. Hearing(cls, later, n)
  BY <1>1, <1>2, <1>3, <1>4, AnswerHears
<1> QED
  BY <1>2, <1>5, Quiet DEF n, later, cls

\* The sender has another name, and is told so.
LEMMA RenameHears ==
  ASSUME IInv, Heard, NEW c \in Slots, NEW name \in Names
  PROVE  /\ Rename(c, name) \in [Slots -> Client]
         /\ Hearing(Rename(c, name), channels, stats.channel_messages)
<1> DEFINE cl == [clients[c] EXCEPT !.username = name, !.registered = TRUE]
<1>1. clients \in [Slots -> Client] /\ clients[c] \in Client
  BY Tables
<1>2. Rename(c, name) = [clients EXCEPT ![c] = cl]
  BY <1>1 DEF Rename
<1>3. /\ cl \in Client /\ cl.out = clients[c].out /\ cl.last = clients[c].last
      /\ cl.heard = clients[c].heard /\ cl.joined = clients[c].joined
  BY <1>1 DEF Client
<1> HIDE DEF cl
<1>4. /\ Rename(c, name) \in [Slots -> Client]
      /\ \A d \in Slots : Rename(c, name)[d] = IF d = c THEN cl ELSE clients[d]
  BY <1>1, <1>2, <1>3
<1>5. \A d \in Slots :
        Hears(Rename(c, name)[d], channels, stats.channel_messages)
  <2>1. \A d \in Slots : Hears(clients[d], channels, stats.channel_messages)
    BY DEF Heard, Hearing
  <2> QED
    BY <1>3, <1>4, <2>1, SameHears
<1> QED
  BY <1>4, <1>5 DEF Hearing

LEMMA HelloHeard ==
  ASSUME IInv, Heard, NEW c \in Slots, NEW name \in Names \cup {Invalid},
         Hello(c, name)
  PROVE  Step
<1>1. CASE Reply(c, Plain("ERROR")) /\ UNCHANGED channels
  BY <1>1, PlainAre, ReplyHeard DEF Reply
<1>2. CASE /\ name # Invalid /\ UNCHANGED channels
           /\ Deliver(Rename(c, name), stats, {c}, Plain("OK"))
  <2> DEFINE cls == Rename(c, name)
             n   == stats.channel_messages
  <2>1. cls \in [Slots -> Client] /\ Hearing(cls, channels, n)
    BY <1>2, RenameHears
  <2>2. /\ Plain("OK") \in Frame /\ ~IsChat(Plain("OK"))
        /\ Plain("OK").type \notin {"JOINED", "LEFT"}
    BY PlainAre, PlainFrames
  <2>3. n \in Nat /\ n <= n
    BY Tables
  <2>4. clients' = Post(cls, {c}, Plain("OK")) /\ stats'.channel_messages = n
    BY <1>2, Tables, DroppedChats DEF Deliver
  <2> HIDE DEF cls, n
  <2>5. Hearing(clients', channels', n)
    BY <1>2, <2>1, <2>2, <2>3, <2>4, PostHears
  <2> QED
    BY <2>4, <2>5, Quiet DEF n
<1> QED
  BY <1>1, <1>2 DEF Hello

\* The answer, and then the notice to the others.
LEMMA NickHeard ==
  ASSUME IInv, Heard, NEW c \in Slots, NEW name \in Names \cup {Invalid},
         Nick(c, name)
  PROVE  Step
<1>1. CASE Reply(c, Plain("ERROR")) /\ UNCHANGED channels
  BY <1>1, PlainAre, ReplyHeard DEF Reply
<1>2. CASE name # Invalid /\ ~Reply(c, Plain("ERROR"))
  <2> DEFINE cls == Rename(c, name)
             n   == stats.channel_messages
             told == Post(cls, {c}, Plain("OK"))
             lost == Cardinality(Overflowing(cls, {c}, Plain("OK")))
             others == Members(told, FindChannel(channels, told[c].active)) \ {c}
  <2>1. cls \in [Slots -> Client] /\ Hearing(cls, channels, n)
    BY <1>2, RenameHears
  <2>2. \A type \in {"OK", "SYSTEM"} :
          /\ Plain(type) \in Frame /\ ~IsChat(Plain(type))
          /\ Plain(type).type \notin {"JOINED", "LEFT"}
    BY PlainAre, PlainFrames
  <2>3. n \in Nat /\ n <= n
    BY Tables
  <2>4. /\ clients' = Post(told, others, Plain("SYSTEM")) /\ UNCHANGED channels
        /\ stats'.channel_messages = Dropped(stats, lost).channel_messages
    <3>1. /\ Deliver(told, Dropped(stats, lost), others, Plain("SYSTEM"))
          /\ UNCHANGED channels
      BY <1>2 DEF Nick
    <3>2. \A k : Dropped(Dropped(stats, lost), k).channel_messages
                   = Dropped(stats, lost).channel_messages
      BY Tables DEF Dropped, Statistics
    <3> HIDE DEF told, lost, others
    <3> QED
      BY <3>1, <3>2 DEF Deliver
  <2>5. Dropped(stats, lost).channel_messages = n
    BY Tables, DroppedChats
  <2> HIDE DEF cls, n, lost
  <2>6. \A d \in Slots : told[d] \in Client
    BY <2>1, <2>2, EnqueueIsClient, ClosedIsSane DEF Post
  <2>7. told \in [Slots -> Client]
    BY <2>6 DEF Post
  <2>8. Hearing(told, channels, n)
    BY <2>1, <2>2, <2>3, PostHears
  <2> HIDE DEF told, others
  <2>9. Hearing(clients', channels', n)
    BY <2>2, <2>3, <2>4, <2>7, <2>8, PostHears
  <2> QED
    BY <2>4, <2>5, <2>9, Quiet DEF n
<1> QED
  BY <1>1, <1>2 DEF Nick

LEMMA SwitchHeard ==
  ASSUME IInv, Heard, NEW c \in Slots, NEW name \in ChannelNames \cup {Invalid},
         Switch(c, name)
  PROVE  Step
<1>1. CASE Reply(c, Plain("ERROR")) /\ UNCHANGED channels
  BY <1>1, PlainAre, ReplyHeard DEF Reply
<1>2. CASE /\ name # Invalid /\ UNCHANGED channels
           /\ Deliver([clients EXCEPT ![c].active = name], stats, {c}, Plain("OK"))
  <2> DEFINE cl == [clients[c] EXCEPT !.active = name]
  <2>1. clients \in [Slots -> Client] /\ clients[c] \in Client
    BY Tables
  <2>2. /\ cl \in Client /\ cl.out = clients[c].out /\ cl.last = clients[c].last
        /\ cl.heard = clients[c].heard /\ cl.joined = clients[c].joined
    BY <1>2, <2>1 DEF Client
  <2>3. [clients EXCEPT ![c].active = name] = [clients EXCEPT ![c] = cl]
    BY <2>1
  <2> HIDE DEF cl
  <2>4. /\ Plain("OK") \in Frame /\ ~IsChat(Plain("OK")) /\ WellMade(Plain("OK"))
        /\ \A ch : Plain("OK") # About("LEFT", ch)
    BY PlainAre, PlainFrames
  <2>5. \A p : channels'[p] = channels[p]
    BY <1>2
  <2>6. Deliver([clients EXCEPT ![c] = cl], stats, {c}, Plain("OK"))
    BY <1>2, <2>3
  <2> QED
    BY <2>2, <2>4, <2>5, <2>6, Tables, EditHeard
<1> QED
  BY <1>1, <1>2 DEF Switch

LEMMA MalformedHeard ==
  ASSUME IInv, Heard, NEW c \in Slots, Malformed(c)
  PROVE  Step
<1> DEFINE cl == [clients[c] EXCEPT !.stuck = TRUE]
           st == [stats EXCEPT !.malformed_frames = @ + 1]
<1>1. /\ Deliver([clients EXCEPT ![c].stuck = TRUE], st, {c}, Plain("ERROR"))
      /\ UNCHANGED channels
  BY DEF Malformed
<1>2. clients \in [Slots -> Client] /\ clients[c] \in Client
  BY Tables
<1>3. /\ cl \in Client /\ cl.out = clients[c].out /\ cl.last = clients[c].last
      /\ cl.heard = clients[c].heard /\ cl.joined = clients[c].joined
  BY <1>2 DEF Client
<1>4. [clients EXCEPT ![c].stuck = TRUE] = [clients EXCEPT ![c] = cl]
  BY <1>2
<1>5. st \in Statistics /\ st.channel_messages = stats.channel_messages
  BY Tables DEF Statistics
<1> HIDE DEF cl, st
<1>6. /\ Plain("ERROR") \in Frame /\ ~IsChat(Plain("ERROR"))
      /\ WellMade(Plain("ERROR")) /\ \A ch : Plain("ERROR") # About("LEFT", ch)
  BY PlainAre, PlainFrames
<1>7. \A p : channels'[p] = channels[p]
  BY <1>1
<1>8. Deliver([clients EXCEPT ![c] = cl], st, {c}, Plain("ERROR"))
  BY <1>1, <1>4
<1> QED
  BY <1>3, <1>5, <1>6, <1>7, <1>8, EditHeard

\* The channel joined is the one that the answer is about.
LEMMA JoinHeard ==
  ASSUME IInv, Heard, NEW c \in Slots, NEW name \in ChannelNames \cup {Invalid},
         Join(c, name)
  PROVE  Step
<1>1. CASE Reply(c, Plain("ERROR")) /\ UNCHANGED channels
  BY <1>1, PlainAre, ReplyHeard DEF Reply
<1> DEFINE found == FindChannel(channels, name)
           i == IF found = 0 THEN Len(channels) + 1 ELSE found
           cl == [clients[c] EXCEPT !.joined = @ \cup {i}, !.active = name]
           f == About("JOINED", name)
<1>2. CASE /\ name # Invalid
           /\ \/ found # 0 /\ UNCHANGED channels
              \/ /\ found = 0 /\ Len(channels) < MaxChannels
                 /\ channels' = Append(channels, name)
           /\ Deliver([clients EXCEPT ![c].joined = @ \cup {i},
                                      ![c].active = name], stats, {c}, f)
  <2>1. /\ clients \in [Slots -> Client] /\ clients[c] \in Client
        /\ clients[c].joined \subseteq 1 .. Len(channels)
        /\ channels \in Seq(ChannelNames) /\ Len(channels) \in Nat
        /\ Len(channels) <= MaxChannels /\ MaxChannels \in Nat
    BY Tables, CoreAssumption DEF Placed, IInv, Ready
  <2>2. /\ i \in 1 .. MaxChannels /\ channels'[i] = name
        /\ \A p \in 1 .. Len(channels) : channels'[p] = channels[p]
    <3>1. CASE found # 0 /\ UNCHANGED channels
      BY <2>1, <3>1, Find
    <3>2. CASE /\ found = 0 /\ Len(channels) < MaxChannels
               /\ channels' = Append(channels, name)
      <4>1. i = Len(channels) + 1
        BY <3>2
      <4>2. name \in ChannelNames
        BY <1>2
      <4> HIDE DEF i, found
      <4>3. /\ channels'[Len(channels) + 1] = name
            /\ \A p \in 1 .. Len(channels) : channels'[p] = channels[p]
        BY <2>1, <3>2, <4>2, AppendProperties
      <4> QED
        BY <2>1, <3>2, <4>1, <4>3
    <3> QED
      BY <1>2, <3>1, <3>2
  <2> HIDE DEF i, found
  <2>3. /\ cl \in Client /\ cl.out = clients[c].out /\ cl.last = clients[c].last
        /\ cl.heard = clients[c].heard
        /\ cl.joined = clients[c].joined \cup {i}
    BY <1>2, <2>1, <2>2 DEF Client
  <2>4. [clients EXCEPT ![c].joined = @ \cup {i}, ![c].active = name]
          = [clients EXCEPT ![c] = cl]
    BY <2>1
  <2> HIDE DEF cl
  <2>5. f \in Frame /\ ~IsChat(f) /\ WellMade(f) /\ \A ch : f # About("LEFT", ch)
    <3>1. f \in Frame
      BY <1>2, Frames DEF ChannelFrames
    <3> QED
      BY <3>1 DEF About, IsChat, WellMade
  <2>6. \A p \in cl.joined :
          \/ f = About("JOINED", channels'[p])
          \/ /\ p \in clients[c].joined /\ channels'[p] = channels[p]
             /\ f # About("LEFT", channels[p])
    BY <2>1, <2>2, <2>3, <2>5
  <2>7. Deliver([clients EXCEPT ![c] = cl], stats, {c}, f)
    BY <1>2, <2>4
  <2> HIDE DEF f
  <2> QED
    BY <2>2, <2>3, <2>5, <2>6, <2>7, Tables, EditHeard
<1> QED
  BY <1>1, <1>2 DEF Join

\* No other channel of the client has the name of the one it leaves.
LEMMA LeaveHeard ==
  ASSUME IInv, Heard, NEW c \in Slots, NEW name \in ChannelNames \cup {Invalid},
         Leave(c, name)
  PROVE  Step
<1>1. CASE Reply(c, Plain("ERROR")) /\ UNCHANGED channels
  BY <1>1, PlainAre, ReplyHeard DEF Reply
<1> DEFINE i == FindChannel(channels, name)
           cl == [clients[c] EXCEPT !.joined = @ \ {i},
                                    !.active = IF @ = name THEN None ELSE @]
           f == About("LEFT", name)
<1>2. CASE /\ name # Invalid /\ i \in clients[c].joined /\ UNCHANGED channels
           /\ Deliver([clients EXCEPT
                         ![c].joined = @ \ {i},
                         ![c].active = IF @ = name THEN None ELSE @],
                      stats, {c}, f)
  <2>1. /\ clients \in [Slots -> Client] /\ clients[c] \in Client
        /\ clients[c].joined \subseteq 1 .. Len(channels)
        /\ channels \in Seq(ChannelNames) /\ Distinct(channels)
    BY Tables DEF Placed
  <2>2. i \in 1 .. Len(channels) /\ channels[i] = name
    BY <1>2, <2>1, Find
  <2> HIDE DEF i
  <2>3. /\ cl \in Client /\ cl.out = clients[c].out /\ cl.last = clients[c].last
        /\ cl.heard = clients[c].heard
        /\ cl.joined = clients[c].joined \ {i}
    BY <1>2, <2>1 DEF Client
  <2>4. [clients EXCEPT ![c].joined = @ \ {i},
                        ![c].active = IF @ = name THEN None ELSE @]
          = [clients EXCEPT ![c] = cl]
    BY <2>1
  <2> HIDE DEF cl
  <2>5. f \in Frame /\ ~IsChat(f) /\ WellMade(f)
    <3>1. f \in Frame
      BY <1>2, Frames DEF ChannelFrames
    <3> QED
      BY <3>1 DEF About, IsChat, WellMade
  <2>6. ASSUME NEW p \in cl.joined
        PROVE  /\ p \in clients[c].joined /\ channels'[p] = channels[p]
               /\ f # About("LEFT", channels[p])
    <3>1. p \in clients[c].joined /\ p # i /\ p \in 1 .. Len(channels)
      BY <2>1, <2>3
    <3>2. channels[p] # name
      BY <2>1, <2>2, <3>1 DEF Distinct
    <3> QED
      BY <1>2, <3>1, <3>2 DEF About
  <2>7. Deliver([clients EXCEPT ![c] = cl], stats, {c}, f)
    BY <1>2, <2>4
  <2>8. \A p : channels'[p] = channels[p]
    BY <1>2
  <2> HIDE DEF f
  <2> QED
    BY <2>3, <2>5, <2>6, <2>7, <2>8, Tables, EditHeard
<1> QED
  BY <1>1, <1>2 DEF Leave

\* The chat goes to the members of the channel, who have been told that they
\* are, and has a number above all others.
LEMMA SayHeard ==
  ASSUME IInv, Heard, NEW c \in Slots, NEW valid \in BOOLEAN, Say(c, valid)
  PROVE  Step
<1>1. CASE Reply(c, Plain("ERROR")) /\ UNCHANGED channels
  BY <1>1, PlainAre, ReplyHeard DEF Reply
<1> DEFINE n == stats.channel_messages
           i == FindChannel(channels, clients[c].active)
           f == [type |-> "CHAT", channel |-> clients[c].active, seq |-> n + 1]
           counted == [stats EXCEPT !.channel_messages = @ + 1]
           S == Members(clients, i)
<1>2. CASE /\ i # 0 /\ UNCHANGED channels
           /\ Deliver(clients, counted, S, f)
  <2>1. /\ clients \in [Slots -> Client] /\ stats \in Statistics /\ n \in Nat
        /\ channels \in Seq(ChannelNames)
    BY Tables
  <2>2. i \in 1 .. Len(channels) /\ channels[i] = clients[c].active
    BY <1>2, <2>1, Find
  <2>3. clients[c].active \in ChannelNames
    BY <2>1, <2>2, ElementOfSeq
  <2>4. /\ f \in Frame /\ IsChat(f) /\ f.seq = n + 1
        /\ f.type \notin {"JOINED", "LEFT"} /\ f.channel = channels[i]
        /\ f = [type |-> "CHAT", channel |-> channels[i], seq |-> n + 1]
    BY <2>1, <2>2, <2>3 DEF Frame, ChannelFrames, IsChat
  <2>5. /\ clients' = Post(clients, S, f)
        /\ stats'.channel_messages = n + 1
    <3>1. counted \in Statistics /\ counted.channel_messages = n + 1
      BY <2>1 DEF Statistics
    <3> HIDE DEF counted, f, S
    <3> QED
      BY <1>2, <3>1, DroppedChats DEF Deliver
  <2>6. \A d \in Slots \cap S : Told(clients[d], Len(clients[d].out) + 1, channels[i])
    BY DEF Members, Heard, Hearing, Hears
  <2>7. n + 1 \in Nat /\ n <= n + 1 /\ n < n + 1
    BY <2>1
  <2>8. Hearing(clients, channels, n)
    BY DEF Heard
  <2> HIDE DEF f, S, i, n
  <2>9. Hearing(clients', channels, n + 1)
    BY <2>1, <2>4, <2>5, <2>6, <2>7, <2>8, PostHears
  <2>10. Heard'
    BY <1>2, <2>5, <2>9 DEF Heard
  <2>11. ASSUME NEW d \in Slots
         PROVE  IF d \notin S THEN clients'[d] = clients[d]
                ELSE \/ clients'[d].out = Append(clients[d].out, f)
                     \/ clients'[d] = Closed /\ Overflows(clients[d], f)
    <3>1. Enqueue(clients[d], f).out = Append(clients[d].out, f)
      BY <2>1, <2>4, EnqueueIsClient
    <3> QED
      BY <2>5, <3>1 DEF Post
  <2>12. Isolated
    BY <2>2, <2>4, <2>5, <2>11 DEF Isolated, S
  <2> QED
    BY <2>10, <2>12 DEF Step
<1> QED
  BY <1>1, <1>2 DEF Say

LEMMA DmHeard ==
  ASSUME IInv, Heard, NEW c \in Slots, NEW name \in Names \cup {Invalid},
         Dm(c, name)
  PROVE  Step
<1> DEFINE n == stats.channel_messages
           counted == [stats EXCEPT !.direct_messages = @ + 1]
<1>0. UNCHANGED channels
  BY DEF Dm
<1>1. ASSUME NEW S, NEW type \in {"ERROR", "DM_RECV"},
             Deliver(clients, stats, S, Plain(type))
      PROVE  Step
  BY <1>0, <1>1, PlainAre, ReplyHeard
<1>2. ASSUME NEW t,
             Deliver(Post(clients, {t}, Plain("DM_RECV")), counted, {c}, Plain("OK"))
      PROVE  Step
  <2> DEFINE mid == Post(clients, {t}, Plain("DM_RECV"))
  <2>1. clients \in [Slots -> Client] /\ n \in Nat /\ n <= n
    BY Tables
  <2>2. \A type \in {"OK", "DM_RECV"} :
          /\ Plain(type) \in Frame /\ ~IsChat(Plain(type))
          /\ Plain(type).type \notin {"JOINED", "LEFT"}
    BY PlainAre, PlainFrames
  <2>3. /\ clients' = Post(mid, {c}, Plain("OK"))
        /\ stats'.channel_messages = n
    <3>1. counted \in Statistics /\ counted.channel_messages = n
      BY Tables DEF Statistics
    <3> HIDE DEF counted
    <3> QED
      BY <1>2, <3>1, DroppedChats DEF Deliver
  <2>4. Hearing(clients, channels, n)
    BY DEF Heard
  <2> HIDE DEF n
  <2>5. \A d \in Slots : mid[d] \in Client
    BY <2>1, <2>2, EnqueueIsClient, ClosedIsSane DEF Post
  <2>6. mid \in [Slots -> Client]
    BY <2>5 DEF Post
  <2>7. Hearing(mid, channels, n)
    BY <2>1, <2>2, <2>4, PostHears
  <2> HIDE DEF mid
  <2>8. Hearing(clients', channels', n)
    BY <1>0, <2>1, <2>2, <2>3, <2>6, <2>7, PostHears
  <2> QED
    BY <2>3, <2>8, Quiet DEF n
<1>3. CASE Reply(c, Plain("ERROR"))
  BY <1>1, <1>3 DEF Reply
<1>4. CASE \E t : \/ Deliver(clients, stats, {t}, Plain("DM_RECV"))
                  \/ Deliver(Post(clients, {t}, Plain("DM_RECV")), counted,
                             {c}, Plain("OK"))
  BY <1>1, <1>2, <1>4
<1> QED
  BY <1>3, <1>4 DEF Dm

\* WHO, LIST, STATS and unknown types only answer the sender.
LEMMA AnswersHeard ==
  ASSUME IInv, Heard, NEW c \in Slots,
         Who(c) \/ List(c) \/ Stats(c) \/ Unknown(c)
  PROVE  Step
<1>1. /\ UNCHANGED channels
      /\ \E type \in PlainTypes : Reply(c, Plain(type))
  BY PlainAre DEF Who, List, Stats, Unknown
<1> QED
  BY <1>1, ReplyHeard DEF Reply

-----------------------------------------------------------------------------
(* Connections *)

LEMMA FrameSentHeard ==
  ASSUME IInv, Heard, NEW c \in Slots, FrameSent(c)
  PROVE  Step
<1> DEFINE cl == Sent(clients[c])
           n  == stats.channel_messages
<1>1. /\ clients[c].open /\ clients[c].out # <<>>
      /\ UNCHANGED <<channels, stats>>
  BY DEF FrameSent
<1>2. /\ clients \in [Slots -> Client] /\ clients[c] \in Client
      /\ HasLedger(clients[c]) /\ n \in Nat
  BY Tables DEF IInv, Ready, Sane
<1>3. clients' = [clients EXCEPT ![c] = cl]
  BY <1>2 DEF FrameSent, Sent
<1>4. \A d \in Slots : Hears(clients[d], channels, n)
  BY DEF Heard, Hearing
<1>5. cl \in Client
  BY <1>1, <1>2, SentIsSane
<1> HIDE DEF n
<1>6. Hears(cl, channels, n)
  BY <1>1, <1>2, <1>4, <1>5, SentHears
<1> HIDE DEF cl
<1>7. Hearing(clients', channels', n)
  BY <1>1, <1>2, <1>3, <1>4, <1>6 DEF Hearing
<1> QED
  BY <1>1, <1>7, Quiet DEF n

LEMMA ConnectionsHeard ==
  ASSUME IInv, Heard, NEW c \in Slots, Accept(c) \/ Disconnect(c)
  PROVE  Step
<1> DEFINE n == stats.channel_messages
           new == [Closed EXCEPT !.open = TRUE]
<1>1. /\ clients \in [Slots -> Client] /\ n \in Nat
      /\ UNCHANGED channels /\ stats'.channel_messages = n
  BY Tables DEF Accept, Disconnect, Statistics
<1>2. \E cl \in {new, Closed} : clients' = [clients EXCEPT ![c] = cl]
  BY DEF Accept, Disconnect
<1>3. \A d \in Slots : Hears(clients[d], channels, n)
  BY DEF Heard, Hearing
<1> HIDE DEF n
<1>4. Hears(Closed, channels, n)
  BY <1>1, ClosedHears
<1>5. /\ new.out = Closed.out /\ new.heard = Closed.heard
      /\ new.last = Closed.last /\ new.joined = Closed.joined
  BY DEF Closed
<1> HIDE DEF new
<1>6. Hears(new, channels, n)
  BY <1>4, <1>5, SameHears
<1>7. Hearing(clients', channels', n)
  BY <1>1, <1>2, <1>3, <1>4, <1>6 DEF Hearing
<1> QED
  BY <1>1, <1>7, Quiet DEF n

LEMMA ShutdownHeard ==
  ASSUME IInv, Heard, Shutdown
  PROVE  Step
<1> DEFINE n == stats.channel_messages
<1>1. n \in Nat /\ UNCHANGED channels /\ stats'.channel_messages = n
  BY Tables DEF Shutdown, Statistics
<1>2. \A d \in Slots : clients'[d] = Closed
  BY DEF Shutdown
<1> HIDE DEF n
<1>3. Hearing(clients', channels', n)
  BY <1>1, <1>2, ClosedHears DEF Hearing
<1> QED
  BY <1>1, <1>3, Quiet DEF n

LEMMA NextHeard ==
  ASSUME IInv, Heard, [Next]_vars
  PROVE  Heard' /\ (Isolated \/ UNCHANGED vars)
<1>1. CASE UNCHANGED vars
  BY <1>1 DEF vars, Heard
<1>2. ASSUME NEW c \in Slots, Request(c)
      PROVE  Step
  BY <1>2, HelloHeard, NickHeard, DmHeard, JoinHeard, SwitchHeard, LeaveHeard,
     SayHeard, AnswersHeard, ConnectionsHeard, MalformedHeard
     DEF Request, Quit
<1>3. ASSUME NEW c \in Slots, Accept(c) \/ PeerGone(c) \/ InputFull(c)
      PROVE  Step
  BY <1>3, ConnectionsHeard DEF PeerGone, InputFull
<1> QED
  BY <1>1, <1>2, <1>3, FrameSentHeard, ShutdownHeard DEF Next, Step

LEMMA InitHeard == Init => Heard
<1> SUFFICES ASSUME Init PROVE Heard
  OBVIOUS
<1>1. stats.channel_messages = 0 /\ \A c \in Slots : clients[c] = Closed
  BY DEF Init
<1> QED
  BY <1>1, ClosedHears DEF Heard, Hearing

-----------------------------------------------------------------------------
(* The theorems *)

LEMMA AlwaysHeard == Spec => []Heard
<1>1. IInv /\ Heard /\ [Next]_vars => Heard'
  BY NextHeard
<1> QED
  BY <1>1, InitHeard, Invariance, PTL DEF Spec

\* A peer reads a chat between the answer that lets it into the channel and
\* the one that lets it out.
THEOREM ChatsAreForMembers == Spec => []ChatsOnlyWhileJoined
<1>1. Heard => ChatsOnlyWhileJoined
  BY DEF Heard, Hearing, Hears, Told, IsChat, ChatsOnlyWhileJoined, Announced
<1> QED
  BY <1>1, AlwaysHeard, PTL

\* Every peer reads the chats in the order in which they were accepted.
THEOREM ChatsAreInOrder == Spec => []ChatsInOrder
<1>1. Heard => ChatsInOrder
  BY DEF Heard, Hearing, Hears, IsChat, ChatsInOrder
<1> QED
  BY <1>1, AlwaysHeard, PTL

\* A chat that is accepted reaches the end of every member's queue, or costs
\* that member its connection, and touches nobody else.
THEOREM SlowReadersAreAlone == Spec => SlowReadersCostOnlyThemselves
<1>1. IInv /\ Heard /\ [Next]_vars => [Isolated]_vars
  BY NextHeard
<1> QED
  BY <1>1, AlwaysHeard, Invariance, PTL
     DEF Spec, SlowReadersCostOnlyThemselves, Isolated
=============================================================================
