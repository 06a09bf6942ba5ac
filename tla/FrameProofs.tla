---------------------------- MODULE FrameProofs -----------------------------
(***************************************************************************)
(* Proofs about the contents of CoreLoop, for any lengths and any numbers  *)
(* of slots and connections: every frame that is handled is the next one   *)
(* that its connection sent, however its bytes arrived and whoever had the *)
(* slot before; and so the steps of the loop are steps of FrameService.    *)
(*                                                                         *)
(* What a connection has on its way - in the buffer of its slot, in the    *)
(* socket and on the wire, one after the other - is a flow: the frames     *)
(* that were sent and not handled, and perhaps a piece of one more.  The   *)
(* loop moves the borders within a flow and takes whole frames off its     *)
(* front; nothing else touches it.                                         *)
(***************************************************************************)
EXTENDS LoopProofs

\* The last unit of a frame.
Ends(u) == u.at = HeaderSize + u.len

\* The units st are what connection c still has to deliver: it has sent the
\* frames sq, of which d are handled, and its peer is in state p.
Flow(st, c, d, sq, p) ==
  /\ st # <<>> => st[1].at = 1 /\ st[1].frame = d + 1
  /\ \A i \in 1 .. Len(st) : st[i].at = 1 =>
       \A j \in 0 .. HeaderSize + st[i].len - 1 : i + j <= Len(st) =>
         st[i + j] = [conn |-> c, frame |-> st[i].frame, at |-> j + 1,
                      len |-> st[i].len]
  /\ \A i \in 1 .. Len(st) - 1 : Ends(st[i]) =>
       st[i + 1].at = 1 /\ st[i + 1].frame = st[i].frame + 1
  /\ \A i \in 1 .. Len(st) : Ends(st[i]) =>
       /\ st[i].frame \in 1 .. Len(sq)
       /\ sq[st[i].frame] = Units(c, st[i].frame, st[i].len)
  /\ p = "open" => IF st = <<>> THEN Len(sq) = d
                   ELSE Ends(st[Len(st)]) /\ st[Len(st)].frame = Len(sq)

\* Connection c, with buf in the buffer of its slot.
Flows(c, buf) ==
  Flow(buf \o (sock[c] \o wire[c]), c, Len(handled[c]), sent[c], peer[c])

\* The frames handled are the first of those sent.
Prefix(c) ==
  /\ Len(handled[c]) <= Len(sent[c])
  /\ \A k \in 1 .. Len(handled[c]) : handled[c][k] = sent[c][k]

FrameInv ==
  /\ \A s \in Slots : slots[s].fd # 0 => Flows(ConnOf(s), slots[s].inbuf)
  /\ \A c \in Conns :
       /\ Prefix(c)
       /\ link[c] = "backlog" => Flows(c, <<>>)
       /\ link[c] = "new" =>
            wire[c] = <<>> /\ sock[c] = <<>> /\ sent[c] = <<>> /\ handled[c] = <<>>

-----------------------------------------------------------------------------
(* Flows.                                                                  *)

\* What is lost at the end of a flow is not missed by what is before it.
LEMMA FlowCut ==
  ASSUME NEW st \in Seq(Unit), NEW tt \in Seq(Unit), NEW c, NEW d, NEW sq,
         NEW p, NEW q, q # "open", Flow(st, c, d, sq, p),
         Len(tt) <= Len(st), \A i \in 1 .. Len(tt) : tt[i] = st[i]
  PROVE  Flow(tt, c, d, sq, q)
<1>1. Len(st) \in Nat /\ Len(tt) \in Nat
  BY LenProperties
<1>2. tt # <<>> => st # <<>> /\ tt[1] = st[1]
  <2> SUFFICES ASSUME tt # <<>>
               PROVE  st # <<>> /\ tt[1] = st[1]
    OBVIOUS
  <2>1. Len(tt) # 0
    BY EmptySeq
  <2> QED
    BY <1>1, <2>1
<1>3. \A i \in 1 .. Len(tt) : tt[i].len \in Nat /\ i \in 1 .. Len(st)
  <2> TAKE i \in 1 .. Len(tt)
  <2>1. tt[i] \in Unit
    BY ElementOfSeq
  <2>2. tt[i].len \in Nat
    BY <2>1 DEF Unit
  <2> QED
    BY <1>1, <2>2
<1>4. ASSUME NEW i \in 1 .. Len(tt), tt[i].at = 1,
             NEW j \in 0 .. HeaderSize + tt[i].len - 1, i + j <= Len(tt)
      PROVE  tt[i + j] = [conn |-> c, frame |-> tt[i].frame, at |-> j + 1,
                          len |-> tt[i].len]
  <2>1. i + j \in 1 .. Len(tt)
    BY <1>1, <1>3, <1>4, Constants
  <2>2. tt[i] = st[i] /\ tt[i + j] = st[i + j] /\ i + j <= Len(st)
    BY <1>1, <1>3, <2>1
  <2> QED
    BY <1>3, <1>4, <2>2 DEF Flow
<1>5. \A i \in 1 .. Len(tt) - 1 : Ends(tt[i]) =>
        tt[i + 1].at = 1 /\ tt[i + 1].frame = tt[i].frame + 1
  BY <1>1 DEF Flow
<1> QED
  BY <1>1, <1>2, <1>3, <1>4, <1>5 DEF Flow

\* The first n units of st are the frame after the first d of sq.
FirstFrame(st, c, d, sq, n, len) ==
  /\ d + 1 \in 1 .. Len(sq) /\ sq[d + 1] = Units(c, d + 1, len)
  /\ Ends(st[n]) /\ st[n].frame = d + 1
  /\ \A i \in 1 .. n :
       st[i] = [conn |-> c, frame |-> d + 1, at |-> i, len |-> len]

\* The frame at the front of a flow is the next one that was sent.
LEMMA FlowFront ==
  ASSUME NEW st \in Seq(Unit), NEW c \in Conns, NEW d \in Nat,
         NEW sq \in Seq(Seq(Unit)), NEW p, Flow(st, c, d, sq, p),
         NEW len \in Nat, st[1].len = len, HeaderSize + len <= Len(st)
  PROVE  FirstFrame(st, c, d, sq, HeaderSize + len, len)
<1>1. Len(st) \in Nat /\ HeaderSize + len \in 1 .. Len(st) /\ 1 \in 1 .. Len(st)
  BY LenProperties, Constants
<1>2. st # <<>>
  BY <1>1
<1>3. st[1].at = 1 /\ st[1].frame = d + 1
  BY <1>2 DEF Flow
<1>4. ASSUME NEW i \in 1 .. HeaderSize + len
      PROVE  st[i] = [conn |-> c, frame |-> d + 1, at |-> i, len |-> len]
  <2>1. i - 1 \in 0 .. HeaderSize + len - 1 /\ 1 + (i - 1) = i
        /\ i <= Len(st) /\ (i - 1) + 1 = i
    BY <1>1, Constants
  <2>2. \A j \in 0 .. HeaderSize + len - 1 : 1 + j <= Len(st) =>
          st[1 + j] = [conn |-> c, frame |-> d + 1, at |-> j + 1, len |-> len]
    BY <1>1, <1>3 DEF Flow
  <2> QED
    BY <2>1, <2>2
<1>5. LET u == st[HeaderSize + len]
      IN  Ends(u) /\ u.frame = d + 1 /\ u.len = len
  <2>1. HeaderSize + len \in 1 .. HeaderSize + len
    BY <1>1
  <2>2. st[HeaderSize + len] = [conn |-> c, frame |-> d + 1,
                                at |-> HeaderSize + len, len |-> len]
    BY <1>4, <2>1
  <2> QED
    BY <2>2 DEF Ends
<1>6. d + 1 \in 1 .. Len(sq) /\ sq[d + 1] = Units(c, d + 1, len)
  BY <1>1, <1>5 DEF Flow
<1> QED
  BY <1>4, <1>5, <1>6 DEF FirstFrame

\* Once it is handled, the rest is a flow again.
LEMMA FlowMoves ==
  ASSUME NEW st \in Seq(Unit), NEW tt \in Seq(Unit), NEW c \in Conns,
         NEW d \in Nat, NEW sq \in Seq(Seq(Unit)), NEW p, Flow(st, c, d, sq, p),
         NEW n \in 1 .. Len(st), Ends(st[n]), st[n].frame = d + 1,
         Len(tt) = Len(st) - n, \A i \in 1 .. Len(tt) : tt[i] = st[n + i]
  PROVE  Flow(tt, c, d + 1, sq, p)
<1>1. Len(st) \in Nat /\ Len(tt) \in Nat /\ n \in Nat
  BY LenProperties
<1>2. ASSUME NEW i \in 1 .. Len(tt), NEW m, m = n + i
      PROVE  m \in 1 .. Len(st) /\ tt[i] = st[m]
  BY <1>1, <1>2
<1>3. tt # <<>> => Len(tt) # 0
  BY EmptySeq
<1>4. tt # <<>> => tt[1].at = 1 /\ tt[1].frame = (d + 1) + 1
  <2> SUFFICES ASSUME tt # <<>>
               PROVE  tt[1].at = 1 /\ tt[1].frame = (d + 1) + 1
    OBVIOUS
  <2>1. n \in 1 .. Len(st) - 1 /\ 1 \in 1 .. Len(tt)
    BY <1>1, <1>3
  <2>2. tt[1] = st[n + 1]
    BY <2>1
  <2> QED
    BY <2>1, <2>2 DEF Flow
<1>5. ASSUME NEW i \in 1 .. Len(tt), tt[i].at = 1,
             NEW j \in 0 .. HeaderSize + tt[i].len - 1, i + j <= Len(tt)
      PROVE  tt[i + j] = [conn |-> c, frame |-> tt[i].frame, at |-> j + 1,
                          len |-> tt[i].len]
  <2>1. i + j \in 1 .. Len(tt) /\ n + (i + j) = (n + i) + j
        /\ n + i \in 1 .. Len(st) /\ (n + i) + j <= Len(st)
    BY <1>1, <1>5
  <2>2. tt[i] = st[n + i] /\ tt[i + j] = st[(n + i) + j]
    BY <1>2, <2>1
  <2>3. \A m \in 1 .. Len(st) : st[m].at = 1 =>
          \A k \in 0 .. HeaderSize + st[m].len - 1 : m + k <= Len(st) =>
            st[m + k] = [conn |-> c, frame |-> st[m].frame, at |-> k + 1,
                         len |-> st[m].len]
    BY DEF Flow
  <2>4. st[n + i].at = 1 /\ j \in 0 .. HeaderSize + st[n + i].len - 1
    BY <1>5, <2>2
  <2>5. st[(n + i) + j] = [conn |-> c, frame |-> st[n + i].frame, at |-> j + 1,
                           len |-> st[n + i].len]
    BY <2>1, <2>3, <2>4
  <2> QED
    BY <2>2, <2>5
<1>6. ASSUME NEW i \in 1 .. Len(tt) - 1, Ends(tt[i])
      PROVE  tt[i + 1].at = 1 /\ tt[i + 1].frame = tt[i].frame + 1
  <2>1. n + (i + 1) = (n + i) + 1 /\ n + i \in 1 .. Len(st) - 1
        /\ i \in 1 .. Len(tt) /\ i + 1 \in 1 .. Len(tt)
    BY <1>1
  <2>2. tt[i] = st[n + i] /\ tt[i + 1] = st[(n + i) + 1]
    BY <1>2, <2>1
  <2> QED
    BY <1>6, <2>1, <2>2 DEF Flow
<1>7. ASSUME NEW i \in 1 .. Len(tt), Ends(tt[i])
      PROVE  /\ tt[i].frame \in 1 .. Len(sq)
             /\ sq[tt[i].frame] = Units(c, tt[i].frame, tt[i].len)
  <2>1. n + i \in 1 .. Len(st) /\ tt[i] = st[n + i]
    BY <1>2
  <2> QED
    BY <1>7, <2>1 DEF Flow
<1>8. p = "open" => IF tt = <<>> THEN Len(sq) = d + 1
                    ELSE Ends(tt[Len(tt)]) /\ tt[Len(tt)].frame = Len(sq)
  <2> SUFFICES ASSUME p = "open"
               PROVE  IF tt = <<>> THEN Len(sq) = d + 1
                      ELSE Ends(tt[Len(tt)]) /\ tt[Len(tt)].frame = Len(sq)
    OBVIOUS
  <2>1. st # <<>>
    BY <1>1
  <2>2. Ends(st[Len(st)]) /\ st[Len(st)].frame = Len(sq)
    BY <2>1 DEF Flow
  <2>3. CASE tt = <<>>
    <3>1. Len(tt) = 0
      BY <2>3
    <3>2. n = Len(st)
      BY <1>1, <3>1
    <3> QED
      BY <2>2, <2>3, <3>2
  <2>4. CASE tt # <<>>
    <3>1. Len(tt) \in 1 .. Len(tt) /\ Len(st) = n + Len(tt)
      BY <1>1, <1>3, <2>4
    <3>2. tt[Len(tt)] = st[Len(st)]
      BY <1>2, <3>1
    <3> QED
      BY <2>2, <2>4, <3>2
  <2> QED
    BY <2>3, <2>4
<1> QED
  BY <1>4, <1>5, <1>6, <1>7, <1>8 DEF Flow

\* tt is st with part at its end.
Extended(st, tt, part) ==
  /\ st \in Seq(Unit) /\ tt \in Seq(Unit)
  /\ Len(tt) = Len(st) + Len(part)
  /\ \A i \in 1 .. Len(st) : tt[i] = st[i]
  /\ \A i \in 1 .. Len(part) : tt[Len(st) + i] = part[i]

\* part, of k units, begins the next frame after sq; sq2 has it if it is whole.
Begins(part, c, n, k, sq, sq2, q) ==
  /\ Len(part) = k
  /\ \A i \in 1 .. k :
       part[i] = [conn |-> c, frame |-> Len(sq) + 1, at |-> i, len |-> n]
  /\ \/ sq2 = sq /\ k # HeaderSize + n /\ q # "open"
     \/ /\ k = HeaderSize + n /\ Len(sq2) = Len(sq) + 1
        /\ \A m \in 1 .. Len(sq) : sq2[m] = sq[m]
        /\ sq2[Len(sq) + 1] = Units(c, Len(sq) + 1, n)

\* Arithmetic on its own, for steps whose facts are about sequences.
LEMMA LastIsBefore ==
  ASSUME NEW L \in Nat, NEW i \in 1 .. L, NEW m \in Nat, i + m - 1 > L
  PROVE  /\ L - i \in 0 .. m - 1 /\ i + (L - i) = L /\ i + (L - i) <= L
         /\ (L - i) + 1 # m
OBVIOUS

LEMMA StaysBefore ==
  ASSUME NEW L \in Nat, NEW i \in 1 .. L, NEW m \in Nat, i + m - 1 <= L,
         NEW j \in 0 .. m - 1
  PROVE  i + j \in 1 .. L /\ i + j <= L
OBVIOUS

LEMMA NotTheLast ==
  ASSUME NEW L \in Nat, NEW i \in 1 .. L, i # L
  PROVE  i \in 1 .. L - 1 /\ i + 1 \in 1 .. L
OBVIOUS

\* A frame more, or the beginning of one by a peer that sends nothing after it.
LEMMA FlowGrows ==
  ASSUME NEW st, NEW tt, NEW part, Extended(st, tt, part),
         NEW c \in Conns, NEW d \in Nat, NEW sq \in Seq(Seq(Unit)),
         Flow(st, c, d, sq, "open"),
         NEW n \in Nat, NEW k \in 1 .. HeaderSize + n, NEW sq2, NEW q,
         Begins(part, c, n, k, sq, sq2, q)
  PROVE  Flow(tt, c, d, sq2, q)
<1>0. /\ st \in Seq(Unit) /\ tt \in Seq(Unit)
      /\ Len(tt) = Len(st) + k /\ \A i \in 1 .. Len(st) : tt[i] = st[i]
      /\ \A i \in 1 .. k : tt[Len(st) + i] =
           [conn |-> c, frame |-> Len(sq) + 1, at |-> i, len |-> n]
      /\ \/ sq2 = sq /\ k # HeaderSize + n /\ q # "open"
         \/ /\ k = HeaderSize + n /\ Len(sq2) = Len(sq) + 1
            /\ \A m \in 1 .. Len(sq) : sq2[m] = sq[m]
            /\ sq2[Len(sq) + 1] = Units(c, Len(sq) + 1, n)
  BY DEF Extended, Begins
<1> DEFINE L == Len(st)
           f == Len(sq) + 1
           U(i) == [conn |-> c, frame |-> f, at |-> i, len |-> n]
<1>1. /\ L \in Nat /\ Len(tt) = L + k /\ k \in Nat /\ Len(sq) \in Nat
      /\ HeaderSize \in Nat \ {0}
  BY <1>0, LenProperties, Constants
<1>2. /\ \A i \in 1 .. L : tt[i] = st[i]
      /\ \A i \in 1 .. k : tt[L + i] = U(i)
  BY <1>0
<1>3. L # 0 => Ends(st[L]) /\ st[L].frame = Len(sq)
  <2>1. L # 0 => st # <<>>
    BY <1>0, EmptySeq
  <2> QED
    BY <2>1 DEF Flow
<1>4. L = 0 => Len(sq) = d
  <2>1. L = 0 => st = <<>>
    BY <1>0, EmptySeq
  <2> QED
    BY <2>1 DEF Flow
<1>5. \A i \in 1 .. L : st[i] \in Unit
  BY <1>0, ElementOfSeq
<1>6. ASSUME NEW i \in 1 .. L, st[i].at = 1
      PROVE  i + (HeaderSize + st[i].len) - 1 <= L
  <2>1. st[i].len \in Nat
    BY <1>5 DEF Unit
  <2> DEFINE len == st[i].len
             m == HeaderSize + len
             j == L - i
  <2>2. \A o \in 0 .. m - 1 : i + o <= L =>
          st[i + o] = [conn |-> c, frame |-> st[i].frame, at |-> o + 1,
                       len |-> len]
    <3>1. \A o \in 0 .. HeaderSize + st[i].len - 1 : i + o <= L =>
            st[i + o] = [conn |-> c, frame |-> st[i].frame, at |-> o + 1,
                         len |-> st[i].len]
      BY <1>6 DEF Flow
    <3>2. m - 1 = HeaderSize + st[i].len - 1
      BY <1>1, <2>1
    <3> QED
      BY <3>1, <3>2, Zenon
  <2>3. m \in Nat /\ i \in Nat
    BY <1>1, <2>1
  <2> HIDE DEF m, L
  <2>4. SUFFICES ASSUME i + m - 1 > L
                 PROVE  FALSE
    BY <1>1, <2>3 DEF m
  <2>5. j \in 0 .. m - 1 /\ i + j = L /\ i + j <= L /\ j + 1 # m
    BY <1>1, <2>3, <2>4, LastIsBefore
  <2> HIDE DEF j
  <2>6. st[i + j] = [conn |-> c, frame |-> st[i].frame, at |-> j + 1,
                     len |-> len]
    BY <2>2, <2>5
  <2>7. st[L].at = j + 1 /\ st[L].len = len
    BY <2>5, <2>6
  <2>8. L # 0
    BY <1>1
  <2> QED
    BY <1>3, <2>5, <2>7, <2>8 DEF Ends, m
<1> HIDE DEF L, f, U
<1>6a. \A i \in 1 .. L : st[i].at = 1 => i + (HeaderSize + st[i].len) - 1 <= L
  BY <1>6
<1>7. tt[1].at = 1 /\ tt[1].frame = d + 1
  <2>1. CASE L = 0
    <3>1. L + 1 = 1 /\ 1 \in 1 .. k
      BY <1>1, <2>1
    <3>2. tt[1] = U(1)
      BY <1>2, <3>1
    <3> QED
      BY <1>4, <2>1, <3>2 DEF U, f
  <2>2. CASE L # 0
    <3>1. 1 \in 1 .. L /\ st # <<>>
      BY <1>0, <1>1, <2>2, EmptySeq DEF L
    <3> QED
      BY <1>2, <3>1 DEF Flow
  <2> QED
    BY <2>1, <2>2
<1>8. ASSUME NEW i \in 1 .. L + k
      PROVE  \/ i \in 1 .. L /\ tt[i] = st[i]
             \/ \E m \in 1 .. k : i = L + m /\ tt[i] = U(m)
  <2>1. CASE i <= L
    BY <1>1, <1>2, <2>1
  <2>2. CASE ~(i <= L)
    <3>1. i - L \in 1 .. k /\ i = L + (i - L)
      BY <1>1, <2>2
    <3> QED
      BY <1>2, <3>1
  <2> QED
    BY <2>1, <2>2
<1>9. ASSUME NEW i \in 1 .. Len(tt), tt[i].at = 1,
             NEW j \in 0 .. HeaderSize + tt[i].len - 1, i + j <= Len(tt)
      PROVE  tt[i + j] = [conn |-> c, frame |-> tt[i].frame, at |-> j + 1,
                          len |-> tt[i].len]
  <2>1. CASE i \in 1 .. L /\ tt[i] = st[i]
    <3>1. st[i].at = 1 /\ st[i].len \in Nat
      BY <1>5, <1>9, <2>1 DEF Unit
    <3> DEFINE m == HeaderSize + st[i].len
    <3>2. i + m - 1 <= L /\ j \in 0 .. m - 1
      <4>1. i + m - 1 <= L
        BY <1>6a, <2>1, <3>1
      <4>2. tt[i].len = st[i].len
        BY <2>1
      <4>3. j \in 0 .. m - 1
        BY <1>1, <3>1, <4>2
      <4> QED
        BY <4>1, <4>3
    <3>3. m \in Nat
      BY <1>1, <3>1
    <3> HIDE DEF m
    <3>4. i + j \in 1 .. L /\ i + j <= L
      BY <1>1, <2>1, <3>2, <3>3, StaysBefore
    <3>5. tt[i + j] = st[i + j]
      BY <1>2, <3>4
    <3>6. st[i + j] = [conn |-> c, frame |-> st[i].frame, at |-> j + 1,
                       len |-> st[i].len]
      BY <2>1, <3>1, <3>2, <3>4 DEF Flow, L, m
    <3> QED
      BY <2>1, <3>5, <3>6
  <2>2. ASSUME NEW m \in 1 .. k, i = L + m, tt[i] = U(m)
        PROVE  tt[i + j] = [conn |-> c, frame |-> tt[i].frame, at |-> j + 1,
                            len |-> tt[i].len]
    <3>1. m = 1 /\ tt[i].frame = f /\ tt[i].len = n
      BY <1>9, <2>2 DEF U
    <3>2. i + j = L + (j + 1) /\ j + 1 \in 1 .. k
      BY <1>1, <1>9, <2>2, <3>1
    <3>3. tt[i + j] = U(j + 1)
      BY <1>2, <3>2
    <3> QED
      BY <3>1, <3>3 DEF U
  <2> QED
    BY <1>1, <1>8, <2>1, <2>2
<1>10. ASSUME NEW i \in 1 .. Len(tt) - 1, Ends(tt[i])
       PROVE  tt[i + 1].at = 1 /\ tt[i + 1].frame = tt[i].frame + 1
  <2>1. CASE i \in 1 .. L /\ tt[i] = st[i] /\ i # L
    <3>1. i \in 1 .. L - 1 /\ i + 1 \in 1 .. L
      BY <1>1, <2>1, NotTheLast
    <3>2. tt[i + 1] = st[i + 1]
      BY <1>2, <3>1
    <3> QED
      BY <1>10, <2>1, <3>1, <3>2 DEF Flow, L
  <2>2. CASE i = L /\ tt[i] = st[i]
    <3>1. tt[L + 1] = U(1) /\ L # 0
      BY <1>1, <1>2, <2>2
    <3>2. tt[i + 1] = U(1) /\ tt[i].frame = Len(sq)
      BY <1>3, <2>2, <3>1
    <3>3. U(1).at = 1 /\ U(1).frame = Len(sq) + 1
      BY DEF U, f
    <3> QED
      BY <3>2, <3>3
  <2>3. ASSUME NEW m \in 1 .. k, i = L + m, tt[i] = U(m)
        PROVE  FALSE
    <3>1. m = HeaderSize + n
      BY <1>10, <2>3 DEF U, Ends
    <3> QED
      BY <1>1, <2>3, <3>1
  <2>4. i \in 1 .. L + k
    BY <1>1
  <2> QED
    BY <1>8, <2>1, <2>2, <2>3, <2>4
<1>11. ASSUME NEW i \in 1 .. Len(tt), Ends(tt[i])
       PROVE  /\ tt[i].frame \in 1 .. Len(sq2)
              /\ sq2[tt[i].frame] = Units(c, tt[i].frame, tt[i].len)
  <2>1. CASE i \in 1 .. L /\ tt[i] = st[i]
    <3>1. /\ st[i].frame \in 1 .. Len(sq)
          /\ sq[st[i].frame] = Units(c, st[i].frame, st[i].len)
      BY <1>11, <2>1 DEF Flow, L
    <3> QED
      BY <1>0, <1>1, <2>1, <3>1
  <2>2. ASSUME NEW m \in 1 .. k, i = L + m, tt[i] = U(m)
        PROVE  /\ tt[i].frame \in 1 .. Len(sq2)
               /\ sq2[tt[i].frame] = Units(c, tt[i].frame, tt[i].len)
    <3>1. m = HeaderSize + n /\ tt[i].frame = f /\ tt[i].len = n
      BY <1>11, <2>2 DEF U, Ends
    <3>2. k = HeaderSize + n
      BY <1>0, <1>1, <2>2, <3>1
    <3> QED
      BY <1>0, <1>1, <3>1, <3>2 DEF f
  <2> QED
    BY <1>1, <1>8, <2>1, <2>2
<1>12. q = "open" => Ends(tt[Len(tt)]) /\ tt[Len(tt)].frame = Len(sq2)
  <2> SUFFICES ASSUME q = "open"
               PROVE  Ends(tt[Len(tt)]) /\ tt[Len(tt)].frame = Len(sq2)
    OBVIOUS
  <2>1. tt[Len(tt)] = U(k)
    BY <1>1, <1>2
  <2> QED
    BY <1>0, <2>1 DEF U, f, Ends
<1>13. tt # <<>>
  BY <1>0, <1>1, EmptySeq
<1> QED
  BY <1>7, <1>9, <1>10, <1>11, <1>12, <1>13 DEF Flow

-----------------------------------------------------------------------------
(* The steps.                                                              *)

\* The sequences of which a flow is made.
LEMMA FlowParts ==
  ASSUME LoopInv
  PROVE  /\ \A s \in Slots : slots[s].inbuf \in Seq(Unit)
         /\ \A s \in Slots : slots[s].fd # 0 =>
              ConnOf(s) \in Conns /\ link[ConnOf(s)] = "accepted"
         /\ \A c \in Conns :
              /\ wire[c] \in Seq(Unit) /\ sock[c] \in Seq(Unit)
              /\ sent[c] \in Seq(Seq(Unit)) /\ handled[c] \in Seq(Seq(Unit))
              /\ Len(sent[c]) \in Nat /\ Len(handled[c]) \in Nat
              /\ peer[c] \in {"open", "finished", "reset"}
<1>1. \A s \in Slots : slots[s].inbuf \in Seq(Unit)
  BY DEF LoopInv, Shape, Table, Slot
<1>2. \A s \in Slots : slots[s].fd # 0 =>
        ConnOf(s) \in Conns /\ link[ConnOf(s)] = "accepted"
  <2>1. \A s \in Slots : slots[s].fd # 0 => slots[s].fd \in Fds
    BY DEF LoopInv, Shape, Table, Slot
  <2> QED
    BY <2>1 DEF LoopInv, Wired, ConnOf
<1>3. \A c \in Conns :
        /\ wire[c] \in Seq(Unit) /\ sock[c] \in Seq(Unit)
        /\ sent[c] \in Seq(Seq(Unit)) /\ handled[c] \in Seq(Seq(Unit))
        /\ peer[c] \in {"open", "finished", "reset"}
  BY DEF LoopInv, Shape
<1> QED
  BY <1>1, <1>2, <1>3, LenProperties

\* A step that closes connections, or none, keeps the flows of the others.
LEMMA OthersFlow ==
  ASSUME LoopInv, FrameInv, UNCHANGED <<sent, handled, peer>>,
         \A s \in Slots : slots'[s].fd # 0 =>
           /\ slots[s].fd # 0 /\ slots'[s].inbuf = slots[s].inbuf
           /\ ConnOf(s)' = ConnOf(s) /\ link'[ConnOf(s)] # "closed",
         \A c \in Conns :
           \/ link'[c] = "closed"
           \/ link'[c] = link[c] /\ wire'[c] = wire[c] /\ sock'[c] = sock[c]
  PROVE  FrameInv'
<1>1. ASSUME NEW s \in Slots, slots'[s].fd # 0
      PROVE  Flows(ConnOf(s), slots[s].inbuf)'
  <2>1. ConnOf(s) \in Conns /\ Flows(ConnOf(s), slots[s].inbuf)
    BY <1>1, FlowParts DEF FrameInv
  <2>2. /\ wire'[ConnOf(s)] = wire[ConnOf(s)]
        /\ sock'[ConnOf(s)] = sock[ConnOf(s)]
    BY <1>1, <2>1
  <2> QED
    BY <1>1, <2>1, <2>2 DEF Flows
<1>2. ASSUME NEW c \in Conns
      PROVE  Prefix(c)'
  BY DEF FrameInv, Prefix
<1>3. ASSUME NEW c \in Conns, link'[c] = "backlog"
      PROVE  Flows(c, <<>>)'
  BY <1>3 DEF FrameInv, Flows
<1>4. ASSUME NEW c \in Conns, link'[c] = "new"
      PROVE  (wire[c] = <<>> /\ sock[c] = <<>> /\ sent[c] = <<>> /\ handled[c] = <<>>)'
  BY <1>4 DEF FrameInv
<1> QED
  BY <1>1, <1>2, <1>3, <1>4 DEF FrameInv

\* A step that touches nothing but the flow of c.
LEMMA OneFlows ==
  ASSUME LoopInv, FrameInv, NEW c \in Conns, Up(c),
         UNCHANGED <<slots, sockets, link, handled>>,
         \A d \in Conns \ {c} : /\ wire'[d] = wire[d] /\ sock'[d] = sock[d]
                                /\ sent'[d] = sent[d] /\ peer'[d] = peer[d],
         \A buf \in Seq(Unit) : Flows(c, buf) => Flows(c, buf)',
         Prefix(c)'
  PROVE  FrameInv'
<1>1. \A d \in Conns, buf \in Seq(Unit) : Flows(d, buf) => Flows(d, buf)'
  BY DEF Flows
<1>2. ASSUME NEW s \in Slots, slots'[s].fd # 0
      PROVE  Flows(ConnOf(s), slots[s].inbuf)'
  <2>1. /\ ConnOf(s) \in Conns /\ slots[s].inbuf \in Seq(Unit)
        /\ Flows(ConnOf(s), slots[s].inbuf)
    BY <1>2, FlowParts DEF FrameInv
  <2>2. ASSUME NEW d \in Conns, NEW buf \in Seq(Unit), Flows(d, buf),
               d = ConnOf(s), buf = slots[s].inbuf
        PROVE  Flows(ConnOf(s), slots[s].inbuf)'
    <3>1. Flows(d, buf)'
      BY <1>1, <2>2
    <3> QED
      BY <2>2, <3>1 DEF Flows, ConnOf
  <2> QED
    BY <2>1, <2>2
<1>3. ASSUME NEW d \in Conns
      PROVE  Prefix(d)'
  BY DEF FrameInv, Prefix
<1>4. ASSUME NEW d \in Conns, link'[d] = "backlog"
      PROVE  Flows(d, <<>>)'
  <2>1. <<>> \in Seq(Unit)
    OBVIOUS
  <2> QED
    BY <1>1, <1>4, <2>1 DEF FrameInv
<1>5. ASSUME NEW d \in Conns, link'[d] = "new"
      PROVE  (wire[d] = <<>> /\ sock[d] = <<>> /\ sent[d] = <<>> /\ handled[d] = <<>>)'
  BY <1>5 DEF FrameInv, Up
<1> QED
  BY <1>2, <1>3, <1>4, <1>5 DEF FrameInv

\* The loop moves on, or it sends.
LEMMA QuietFlows ==
  ASSUME LoopInv, FrameInv, UNCHANGED <<sent, handled, peer, link, wire, sock,
                                        sockets>>,
         \A s \in Slots : /\ slots'[s].fd = slots[s].fd
                         /\ slots'[s].inbuf = slots[s].inbuf
  PROVE  FrameInv'
<1>1. \A s \in Slots : slots'[s].fd # 0 =>
        /\ slots[s].fd # 0 /\ slots'[s].inbuf = slots[s].inbuf
        /\ ConnOf(s)' = ConnOf(s) /\ link'[ConnOf(s)] # "closed"
  BY FlowParts DEF ConnOf
<1> QED
  BY <1>1, OthersFlow

\* The loop closes descriptors.
LEMMA InstallFlows ==
  ASSUME LoopInv, FrameInv, NEW new \in Table, Install(new, sock),
         UNCHANGED <<backlog, sent, handled, peer>>,
         \A s \in Slots : \/ new[s] = Blank
                         \/ /\ new[s].fd = slots[s].fd
                            /\ new[s].inbuf = slots[s].inbuf
  PROVE  FrameInv'
<1>1. \A s \in Slots : new[s].fd \in {0, slots[s].fd}
  BY BlankIsSlot
<1>2. /\ slots' = new /\ Wired'
      /\ \A c \in Conns :
           \/ link'[c] = "closed"
           \/ link'[c] = link[c] /\ wire'[c] = wire[c] /\ sock'[c] = sock[c]
      /\ \A s \in Slots : slots'[s].fd # 0 => ConnOf(s)' = ConnOf(s)
  BY <1>1, Installed DEF LoopInv
<1>3. ASSUME NEW s \in Slots, slots'[s].fd # 0
      PROVE  /\ slots[s].fd # 0 /\ slots'[s].inbuf = slots[s].inbuf
             /\ ConnOf(s)' = ConnOf(s) /\ link'[ConnOf(s)] # "closed"
  <2>1. slots'[s].fd = slots[s].fd /\ slots'[s].inbuf = slots[s].inbuf
    BY <1>2, <1>3, BlankIsSlot
  <2>2. slots'[s].fd \in Fds
    BY <1>2, <1>3 DEF Table, Slot
  <2>3. link'[ConnOf(s)'] = "accepted"
    BY <1>2, <1>3, <2>2 DEF Wired, ConnOf
  <2> QED
    BY <1>2, <1>3, <2>1, <2>3
<1> QED
  BY <1>2, <1>3, OthersFlow

\* A sequence is put together again from its parts.
LEMMA PartsJoin ==
  ASSUME NEW S, NEW q \in Seq(S), NEW n \in 0 .. Len(q)
  PROVE  SubSeq(q, 1, n) \o SubSeq(q, n + 1, Len(q)) = q
<1> DEFINE a == SubSeq(q, 1, n)
           b == SubSeq(q, n + 1, Len(q))
<1>1. /\ a \in Seq(S) /\ b \in Seq(S) /\ Len(a) = n /\ Len(b) = Len(q) - n
      /\ \A i \in 1 .. n : a[i] = q[i]
      /\ \A i \in 1 .. Len(q) - n : b[i] = q[n + i]
  BY Parts
<1>2. Len(q) \in Nat
  BY LenProperties
<1> HIDE DEF a, b
<1>3. /\ a \o b \in Seq(S) /\ Len(a \o b) = Len(q)
      /\ \A i \in 1 .. Len(q) : (a \o b)[i] = IF i <= n THEN a[i] ELSE b[i - n]
  BY <1>1, <1>2, ConcatProperties
<1>4. ASSUME NEW i \in 1 .. Len(q)
      PROVE  (a \o b)[i] = q[i]
  <2>1. CASE i <= n
    BY <1>1, <1>2, <1>3, <2>1
  <2>2. CASE ~(i <= n)
    <3>1. i - n \in 1 .. Len(q) - n /\ n + (i - n) = i
      BY <1>2, <2>2
    <3> QED
      BY <1>1, <1>3, <2>2, <3>1
  <2> QED
    BY <2>1, <2>2
<1> QED
  BY <1>3, <1>4, SeqEqual DEF a, b

LEMMA Regroup ==
  \A x, y, z \in Seq(Unit) : x \o y \in Seq(Unit) /\ (x \o y) \o z = x \o (y \o z)
<1> TAKE x, y, z \in Seq(Unit)
<1>1. x \o y \in Seq(Unit)
  BY ConcatProperties
<1>2. (x \o y) \o z = x \o (y \o z)
  BY ConcatAssociative
<1> QED
  BY <1>1, <1>2

\* recv moves the border between the buffer and the socket.
LEMMA RecvFlows ==
  ASSUME LoopInv, FrameInv, NEW s \in Slots, Recv(s)
  PROVE  FrameInv'
<1> DEFINE c == ConnOf(s)
           buf == slots[s].inbuf
           space == InbufCap - Len(buf)
           n == IF Len(sock[c]) < space THEN Len(sock[c]) ELSE space
           a == SubSeq(sock[c], 1, n)
           b == SubSeq(sock[c], n + 1, Len(sock[c]))
<1>1. /\ Current(s) /\ Len(buf) < InbufCap
      /\ slots' = [slots EXCEPT ![s].inbuf = buf \o a]
      /\ sock' = [sock EXCEPT ![c] = b]
      /\ UNCHANGED <<sockets, link, wire, sent, handled, peer>>
  BY DEF Recv
<1>2. c \in Conns /\ link[c] = "accepted" /\ slots[s].fd # 0
  BY <1>1, CurrentIsOne
<1> HIDE DEF c
<1>3. sock[c] \in Seq(Unit) /\ wire[c] \in Seq(Unit) /\ buf \in Seq(Unit)
  BY <1>2, FlowParts
<1> HIDE DEF buf
<1>4. n \in 0 .. Len(sock[c])
  <2>1. InbufCap - Len(buf) \in Nat /\ Len(sock[c]) \in Nat
    BY <1>1, <1>3, LenProperties, Constants
  <2> QED
    BY <2>1
<1> HIDE DEF n
<1>5. a \in Seq(Unit) /\ b \in Seq(Unit) /\ a \o b = sock[c]
  BY <1>3, <1>4, Parts, PartsJoin
<1> HIDE DEF a, b
<1>6. (buf \o a) \o (b \o wire[c]) = buf \o (sock[c] \o wire[c])
  <2>1. b \o wire[c] \in Seq(Unit)
    BY <1>3, <1>5, ConcatProperties
  <2>2. (buf \o a) \o (b \o wire[c]) = buf \o (a \o (b \o wire[c]))
    <3> DEFINE y == b \o wire[c]
    <3>1. \A z \in Seq(Unit) : (buf \o a) \o z = buf \o (a \o z)
      BY <1>3, <1>5, Regroup
    <3>2. y \in Seq(Unit)
      BY <2>1
    <3> HIDE DEF y
    <3>3. (buf \o a) \o y = buf \o (a \o y)
      BY <3>1, <3>2
    <3> QED
      BY <3>3 DEF y
  <2>3. \A z \in Seq(Unit) : (a \o b) \o z = a \o (b \o z)
    <3>1. a \in Seq(Unit) /\ b \in Seq(Unit)
      BY <1>5
    <3> QED
      BY <3>1, Regroup
  <2>4. (a \o b) \o wire[c] = a \o (b \o wire[c])
    BY <1>3, <2>3
  <2> QED
    BY <1>5, <2>2, <2>4
<1>7. /\ \A t \in Slots : slots'[t].fd = slots[t].fd
      /\ slots'[s].inbuf = buf \o a
      /\ \A t \in Slots \ {s} : slots'[t].inbuf = slots[t].inbuf
  BY <1>1 DEF LoopInv, Shape, Table, Slot
<1>8. sock'[c] = b /\ \A d \in Conns \ {c} : sock'[d] = sock[d]
  BY <1>1, <1>2 DEF LoopInv, Shape
<1>9. \A t \in Slots : ConnOf(t)' = ConnOf(t)
  BY <1>1, <1>7 DEF ConnOf
<1>10. ASSUME NEW t \in Slots, slots'[t].fd # 0
       PROVE  Flows(ConnOf(t), slots[t].inbuf)'
  <2>1. ConnOf(t) \in Conns /\ Flows(ConnOf(t), slots[t].inbuf)
    BY <1>7, <1>10, FlowParts DEF FrameInv
  <2>2. CASE t = s
    <3>1. Flow(buf \o (sock[c] \o wire[c]), c, Len(handled[c]), sent[c], peer[c])
      BY <2>1, <2>2 DEF Flows, c, buf
    <3>2. Flow((buf \o a) \o (b \o wire[c]), c, Len(handled[c]), sent[c], peer[c])
      BY <1>6, <3>1
    <3>3. ConnOf(t)' = c
      BY <1>9, <2>2 DEF c
    <3> QED
      BY <1>1, <1>7, <1>8, <2>2, <3>2, <3>3 DEF Flows
  <2>3. CASE t # s
    <3>1. ConnOf(t) # c
      <4>1. slots[t].fd \in Fds /\ slots[s].fd \in Fds /\ slots[t].fd # 0
        BY <1>2, <1>7, <1>10 DEF LoopInv, Shape, Table, Slot
      <4> QED
        BY <1>2, <2>1, <2>3, <4>1 DEF LoopInv, Wired, ConnOf, c
    <3> QED
      BY <1>1, <1>7, <1>8, <1>9, <2>1, <2>3, <3>1 DEF Flows
  <2> QED
    BY <2>2, <2>3
<1>11. ASSUME NEW d \in Conns
       PROVE  Prefix(d)'
  BY <1>1 DEF FrameInv, Prefix
<1>12. ASSUME NEW d \in Conns, link'[d] \in {"backlog", "new"}
       PROVE  d # c
  BY <1>1, <1>2, <1>12
<1>13. ASSUME NEW d \in Conns, link'[d] = "backlog"
       PROVE  Flows(d, <<>>)'
  <2>1. Flows(d, <<>>) /\ d # c
    BY <1>1, <1>12, <1>13 DEF FrameInv
  <2> QED
    BY <1>1, <1>8, <2>1 DEF Flows
<1>14. ASSUME NEW d \in Conns, link'[d] = "new"
       PROVE  (wire[d] = <<>> /\ sock[d] = <<>> /\ sent[d] = <<>> /\ handled[d] = <<>>)'
  BY <1>1, <1>8, <1>12, <1>14 DEF FrameInv
<1> QED
  BY <1>10, <1>11, <1>13, <1>14 DEF FrameInv

\* Units are added at the far end of the wire.
LEMMA WireGrows ==
  \A buf, sk, wr, part \in Seq(Unit) :
    Extended(buf \o (sk \o wr), buf \o (sk \o (wr \o part)), part)
<1> SUFFICES ASSUME NEW buf \in Seq(Unit), NEW sk \in Seq(Unit),
                    NEW wr \in Seq(Unit), NEW part \in Seq(Unit)
             PROVE  Extended(buf \o (sk \o wr), buf \o (sk \o (wr \o part)), part)
  OBVIOUS
<1> DEFINE st == buf \o (sk \o wr)
           tt == buf \o (sk \o (wr \o part))
<1>1. sk \o wr \in Seq(Unit) /\ st \in Seq(Unit)
  BY ConcatProperties
<1>2. tt = st \o part
  <2>1. sk \o (wr \o part) = (sk \o wr) \o part
    BY Regroup
  <2>2. buf \o ((sk \o wr) \o part) = (buf \o (sk \o wr)) \o part
    BY <1>1, Regroup
  <2> QED
    BY <2>1, <2>2
<1> HIDE DEF st, tt
<1>3. /\ tt \in Seq(Unit) /\ Len(tt) = Len(st) + Len(part)
      /\ \A i \in 1 .. Len(st) + Len(part) :
           tt[i] = IF i <= Len(st) THEN st[i] ELSE part[i - Len(st)]
  BY <1>1, <1>2, ConcatProperties
<1>4. Len(st) \in Nat /\ Len(part) \in Nat
  BY <1>1, LenProperties
<1>5. \A i \in 1 .. Len(st) : tt[i] = st[i]
  BY <1>3, <1>4
<1>6. ASSUME NEW i \in 1 .. Len(part)
      PROVE  tt[Len(st) + i] = part[i]
  <2>1. /\ Len(st) + i \in 1 .. Len(st) + Len(part) /\ ~(Len(st) + i <= Len(st))
        /\ (Len(st) + i) - Len(st) = i
    BY <1>4
  <2> QED
    BY <1>3, <2>1
<1>7. Extended(st, tt, part)
  BY <1>1, <1>3, <1>5, <1>6 DEF Extended
<1> QED
  BY <1>7 DEF st, tt

\* Without its wire a flow is cut.
LEMMA WireEnds ==
  ASSUME NEW buf \in Seq(Unit), NEW sk \in Seq(Unit), NEW wr \in Seq(Unit)
  PROVE  LET st == buf \o (sk \o wr)
             tt == buf \o (sk \o <<>>)
         IN  /\ st \in Seq(Unit) /\ tt \in Seq(Unit)
             /\ Len(tt) <= Len(st)
             /\ \A i \in 1 .. Len(tt) : tt[i] = st[i]
<1> DEFINE st == buf \o (sk \o wr)
           tt == buf \o (sk \o <<>>)
<1>1. sk \o <<>> = sk
  BY ConcatEmptySeq
<1>2. tt \in Seq(Unit) /\ st = tt \o wr
  <2>1. tt = buf \o sk
    BY <1>1
  <2>2. buf \o sk \in Seq(Unit)
    BY ConcatProperties
  <2>3. buf \o (sk \o wr) = (buf \o sk) \o wr
    BY Regroup
  <2> QED
    BY <2>1, <2>2, <2>3
<1> HIDE DEF st, tt
<1>3. /\ st \in Seq(Unit) /\ Len(st) = Len(tt) + Len(wr)
      /\ \A i \in 1 .. Len(tt) + Len(wr) :
           st[i] = IF i <= Len(tt) THEN tt[i] ELSE wr[i - Len(tt)]
  BY <1>2, ConcatProperties
<1>4. Len(tt) \in Nat /\ Len(wr) \in Nat
  BY <1>2, LenProperties
<1> QED
  BY <1>2, <1>3, <1>4 DEF st, tt

LEMMA SendFlows ==
  ASSUME LoopInv, FrameInv, NEW c \in Conns, NEW n \in PayloadSizes, Send(c, n)
  PROVE  FrameInv'
<1> DEFINE f == Units(c, Len(sent[c]) + 1, n)
<1>1. /\ Up(c) /\ peer[c] = "open"
      /\ wire' = [wire EXCEPT ![c] = @ \o f]
      /\ sent' = [sent EXCEPT ![c] = Append(@, f)]
      /\ UNCHANGED <<slots, sockets, pc, snap, handled, link, peer, sock>>
  BY DEF Send, server
<1>2. /\ wire[c] \in Seq(Unit) /\ sock[c] \in Seq(Unit)
      /\ sent[c] \in Seq(Seq(Unit)) /\ Len(sent[c]) \in Nat
      /\ Len(handled[c]) \in Nat
  BY FlowParts
<1>3. /\ f \in Seq(Unit) /\ Len(f) = HeaderSize + n /\ n \in Nat
      /\ \A i \in 1 .. HeaderSize + n :
           f[i] = [conn |-> c, frame |-> Len(sent[c]) + 1, at |-> i, len |-> n]
  <2>1. Len(sent[c]) + 1 \in Nat
    BY <1>2
  <2> QED
    BY <2>1, UnitsAre
<1>4. sent'[c] = Append(sent[c], f) /\ wire'[c] = wire[c] \o f
  BY <1>1 DEF LoopInv, Shape
<1>5. /\ Len(sent'[c]) = Len(sent[c]) + 1
      /\ \A m \in 1 .. Len(sent[c]) : sent'[c][m] = sent[c][m]
      /\ sent'[c][Len(sent[c]) + 1] = Units(c, Len(sent[c]) + 1, n)
  BY <1>2, <1>3, <1>4, AppendProperties
<1> HIDE DEF f
<1> DEFINE sk == sock[c]
           wr == wire[c]
           sq == sent[c]
           more == sent'[c]
           d == Len(handled[c])
           k == HeaderSize + n
<1>6. /\ sk \in Seq(Unit) /\ wr \in Seq(Unit) /\ sq \in Seq(Seq(Unit))
      /\ d \in Nat /\ k \in 1 .. HeaderSize + n
  BY <1>2, <1>3, Constants
<1>7. Begins(f, c, n, k, sq, more, "open")
  BY <1>3, <1>5 DEF Begins
<1>8. /\ sock[c] = sk /\ sock'[c] = sk /\ wire[c] = wr /\ wire'[c] = wr \o f
      /\ sent[c] = sq /\ sent'[c] = more /\ Len(handled[c]) = d
      /\ Len(handled'[c]) = d /\ peer[c] = "open" /\ peer'[c] = "open"
  BY <1>1, <1>4
<1> HIDE DEF sk, wr, sq, more, d, k
<1>9. ASSUME NEW buf \in Seq(Unit), Flows(c, buf)
      PROVE  Flows(c, buf)'
  <2> DEFINE st == buf \o (sk \o wr)
             tt == buf \o (sk \o (wr \o f))
  <2>1. Extended(st, tt, f)
    BY <1>3, <1>6, WireGrows
  <2>2. Flow(st, c, d, sq, "open")
    BY <1>8, <1>9 DEF Flows
  <2> HIDE DEF st, tt
  <2>3. Flow(tt, c, d, more, "open")
    BY <1>3, <1>6, <1>7, <2>1, <2>2, FlowGrows
  <2> QED
    BY <1>8, <2>3 DEF Flows, tt
<1>10. Prefix(c)'
  BY <1>1, <1>2, <1>5 DEF FrameInv, Prefix
<1>11. \A e \in Conns \ {c} : /\ wire'[e] = wire[e] /\ sock'[e] = sock[e]
                             /\ sent'[e] = sent[e] /\ peer'[e] = peer[e]
  BY <1>1 DEF LoopInv, Shape
<1> QED
  BY <1>1, <1>9, <1>10, <1>11, OneFlows

LEMMA ArriveFlows ==
  ASSUME LoopInv, FrameInv, NEW c \in Conns, Arrive(c)
  PROVE  FrameInv'
<1>1. PICK k \in 1 .. Len(wire[c]) :
        /\ sock' = [sock EXCEPT ![c] = @ \o SubSeq(wire[c], 1, k)]
        /\ wire' = [wire EXCEPT ![c] = SubSeq(@, k + 1, Len(@))]
  BY DEF Arrive
<1>2. Up(c) /\ UNCHANGED <<slots, sockets, pc, snap, handled, link, peer, sent>>
  BY DEF Arrive, server
<1> DEFINE a == SubSeq(wire[c], 1, k)
           b == SubSeq(wire[c], k + 1, Len(wire[c]))
<1>3. wire[c] \in Seq(Unit) /\ sock[c] \in Seq(Unit)
  BY FlowParts
<1>4. a \in Seq(Unit) /\ b \in Seq(Unit) /\ a \o b = wire[c]
  <2>1. k \in 0 .. Len(wire[c])
    BY <1>1
  <2> QED
    BY <1>3, <2>1, Parts, PartsJoin
<1>5. sock'[c] = sock[c] \o a /\ wire'[c] = b
  BY <1>1 DEF LoopInv, Shape
<1>6. \A d \in Conns \ {c} : /\ wire'[d] = wire[d] /\ sock'[d] = sock[d]
                            /\ sent'[d] = sent[d] /\ peer'[d] = peer[d]
  BY <1>1, <1>2 DEF LoopInv, Shape
<1> HIDE DEF a, b
<1>7. sock'[c] \o wire'[c] = sock[c] \o wire[c]
  <2>1. \A x \in Seq(Unit) : (x \o a) \o b = x \o (a \o b)
    <3>1. a \in Seq(Unit) /\ b \in Seq(Unit)
      BY <1>4
    <3> QED
      BY <3>1, Regroup
  <2>2. (sock[c] \o a) \o b = sock[c] \o (a \o b)
    BY <1>3, <2>1
  <2> QED
    BY <1>4, <1>5, <2>2
<1>8. ASSUME NEW buf \in Seq(Unit), Flows(c, buf)
      PROVE  Flows(c, buf)'
  BY <1>2, <1>7, <1>8 DEF Flows
<1>9. Prefix(c)'
  BY <1>2 DEF FrameInv, Prefix
<1> QED
  BY <1>2, <1>6, <1>8, <1>9, OneFlows

LEMMA FinishFlows ==
  ASSUME LoopInv, FrameInv, NEW c \in Conns, Finish(c)
  PROVE  FrameInv'
<1>1. /\ Up(c) /\ peer[c] = "open" /\ peer' = [peer EXCEPT ![c] = "finished"]
      /\ UNCHANGED <<slots, sockets, pc, snap, handled, link, sock, sent>>
  BY DEF Finish, server
<1>2. /\ wire[c] \in Seq(Unit) /\ sock[c] \in Seq(Unit)
      /\ sent[c] \in Seq(Seq(Unit)) /\ Len(sent[c]) \in Nat
      /\ Len(handled[c]) \in Nat
  BY FlowParts
<1>3. peer'[c] = "finished" /\ \A d \in Conns \ {c} : peer'[d] = peer[d]
  BY <1>1 DEF LoopInv, Shape
<1>4. Prefix(c)'
  BY <1>1 DEF FrameInv, Prefix
<1>5. CASE UNCHANGED wire
  <2>1. ASSUME NEW buf \in Seq(Unit), Flows(c, buf)
        PROVE  Flows(c, buf)'
    BY <1>1, <1>3, <1>5, <2>1 DEF Flows, Flow
  <2> QED
    BY <1>1, <1>3, <1>4, <1>5, <2>1, OneFlows
<1>6. ASSUME NEW n \in PayloadSizes, NEW k \in 1 .. HeaderSize + n - 1,
             wire' = [wire EXCEPT ![c] =
                        @ \o SubSeq(Units(c, Len(sent[c]) + 1, n), 1, k)]
      PROVE  FrameInv'
  <2> DEFINE f == Units(c, Len(sent[c]) + 1, n)
             part == SubSeq(f, 1, k)
  <2>1. /\ f \in Seq(Unit) /\ Len(f) = HeaderSize + n /\ n \in Nat
        /\ \A i \in 1 .. HeaderSize + n :
             f[i] = [conn |-> c, frame |-> Len(sent[c]) + 1, at |-> i, len |-> n]
    <3>1. Len(sent[c]) + 1 \in Nat
      BY <1>2
    <3> QED
      BY <3>1, UnitsAre
  <2>2. wire'[c] = wire[c] \o part /\ \A d \in Conns \ {c} : wire'[d] = wire[d]
    BY <1>6 DEF LoopInv, Shape
  <2> HIDE DEF f
  <2>3. /\ k \in 0 .. Len(f) /\ k \in 1 .. HeaderSize + n /\ k # HeaderSize + n
        /\ \A i \in 1 .. k : i \in 1 .. HeaderSize + n
    BY <2>1, Constants
  <2>4. /\ part \in Seq(Unit) /\ Len(part) = k
        /\ \A i \in 1 .. k : part[i] = f[i]
    BY <2>1, <2>3, Parts
  <2> HIDE DEF part
  <2> DEFINE sk == sock[c]
             wr == wire[c]
             sq == sent[c]
             d == Len(handled[c])
  <2>5. /\ sk \in Seq(Unit) /\ wr \in Seq(Unit) /\ sq \in Seq(Seq(Unit))
        /\ d \in Nat
    BY <1>2
  <2>6. Begins(part, c, n, k, sq, sq, "finished")
    BY <2>1, <2>3, <2>4 DEF Begins
  <2>7. /\ sock[c] = sk /\ sock'[c] = sk /\ wire[c] = wr
        /\ wire'[c] = wr \o part /\ sent[c] = sq /\ sent'[c] = sq
        /\ Len(handled[c]) = d /\ Len(handled'[c]) = d
        /\ peer[c] = "open" /\ peer'[c] = "finished"
    BY <1>1, <1>3, <2>2
  <2> HIDE DEF sk, wr, sq, d
  <2>8. ASSUME NEW buf \in Seq(Unit), Flows(c, buf)
        PROVE  Flows(c, buf)'
    <3> DEFINE st == buf \o (sk \o wr)
               tt == buf \o (sk \o (wr \o part))
    <3>1. Extended(st, tt, part)
      BY <2>4, <2>5, WireGrows
    <3>2. Flow(st, c, d, sq, "open")
      BY <2>7, <2>8 DEF Flows
    <3> HIDE DEF st, tt
    <3>3. Flow(tt, c, d, sq, "finished")
      BY <2>1, <2>3, <2>5, <2>6, <3>1, <3>2, FlowGrows
    <3> QED
      BY <2>7, <3>3 DEF Flows, tt
  <2> QED
    BY <1>1, <1>3, <1>4, <2>2, <2>8, OneFlows
<1> QED
  BY <1>5, <1>6 DEF Finish

LEMMA ResetFlows ==
  ASSUME LoopInv, FrameInv, NEW c \in Conns, Reset(c)
  PROVE  FrameInv'
<1>1. /\ Up(c) /\ peer' = [peer EXCEPT ![c] = "reset"]
      /\ wire' = [wire EXCEPT ![c] = <<>>]
      /\ UNCHANGED <<slots, sockets, pc, snap, handled, link, sock, sent>>
  BY DEF Reset, server
<1>2. wire[c] \in Seq(Unit) /\ sock[c] \in Seq(Unit)
  BY FlowParts
<1>3. /\ peer'[c] = "reset" /\ wire'[c] = <<>>
      /\ \A d \in Conns \ {c} : peer'[d] = peer[d] /\ wire'[d] = wire[d]
  BY <1>1 DEF LoopInv, Shape
<1>4. ASSUME NEW buf \in Seq(Unit), Flows(c, buf)
      PROVE  Flows(c, buf)'
  <2> DEFINE st == buf \o (sock[c] \o wire[c])
             tt == buf \o (sock[c] \o <<>>)
  <2>1. /\ st \in Seq(Unit) /\ tt \in Seq(Unit) /\ Len(tt) <= Len(st)
        /\ \A i \in 1 .. Len(tt) : tt[i] = st[i]
    BY <1>2, WireEnds
  <2>2. Flow(st, c, Len(handled[c]), sent[c], peer[c])
    BY <1>4 DEF Flows
  <2> HIDE DEF st, tt
  <2>3. Flow(tt, c, Len(handled[c]), sent[c], "reset")
    BY <2>1, <2>2, FlowCut
  <2> QED
    BY <1>1, <1>3, <2>3 DEF Flows, tt
<1>5. Prefix(c)'
  BY <1>1 DEF FrameInv, Prefix
<1> QED
  BY <1>1, <1>3, <1>4, <1>5, OneFlows

LEMMA ConnectFlows ==
  ASSUME LoopInv, FrameInv, NEW c \in Conns, Connect(c)
  PROVE  FrameInv'
<1>1. /\ link[c] = "new" /\ link' = [link EXCEPT ![c] = "backlog"]
      /\ UNCHANGED <<slots, sockets, wire, sock, sent, handled, peer>>
  BY DEF Connect, server
<1>2. \A d \in Conns : link'[d] = IF d = c THEN "backlog" ELSE link[d]
  BY <1>1 DEF LoopInv, Shape
<1>3. ASSUME NEW s \in Slots, slots'[s].fd # 0
      PROVE  Flows(ConnOf(s), slots[s].inbuf)'
  BY <1>1, <1>3 DEF FrameInv, Flows, ConnOf
<1>4. Flows(c, <<>>)'
  <2>1. <<>> \o (<<>> \o <<>>) = <<>>
    OBVIOUS
  <2>2. Flow(<<>>, c, 0, <<>>, peer[c])
    BY DEF Flow
  <2>3. /\ wire'[c] = <<>> /\ sock'[c] = <<>> /\ sent'[c] = <<>>
        /\ Len(handled'[c]) = 0 /\ peer'[c] = peer[c]
    BY <1>1 DEF FrameInv
  <2> QED
    BY <2>1, <2>2, <2>3 DEF Flows
<1>5. ASSUME NEW d \in Conns
      PROVE  /\ Prefix(d)'
             /\ link'[d] = "backlog" => Flows(d, <<>>)'
             /\ link'[d] = "new" => (wire[d] = <<>> /\ sock[d] = <<>> /\ sent[d] = <<>> /\ handled[d] = <<>>)'
  <2>1. Prefix(d)'
    BY <1>1 DEF FrameInv, Prefix
  <2>2. link'[d] = "backlog" => Flows(d, <<>>)'
    BY <1>1, <1>2, <1>4 DEF FrameInv, Flows
  <2> QED
    BY <1>1, <1>2, <2>1, <2>2 DEF FrameInv
<1> QED
  BY <1>3, <1>5 DEF FrameInv

\* A slot begins with an empty buffer, whoever had it before.
LEMMA AcceptFlows == LoopInv /\ FrameInv /\ Accept => FrameInv'
<1> SUFFICES ASSUME LoopInv, FrameInv, Accept
             PROVE  FrameInv'
  OBVIOUS
<1> DEFINE c == Head(backlog)
<1>1. /\ backlog # <<>>
      /\ UNCHANGED <<pc, snap, peer, room, sent, handled>>
  BY DEF Accept, AcceptFirst
<1>2. c \in Conns /\ link[c] = "backlog"
  BY <1>1, BacklogTail
<1>3. \A d \in Conns : Prefix(d)'
  BY <1>1 DEF FrameInv, Prefix
<1>4. CASE \E fd \in Fds, s \in Slots :
             /\ sockets[fd] = NoConn /\ slots[s].fd = 0
             /\ sockets' = [sockets EXCEPT ![fd] = c]
             /\ slots' = [slots EXCEPT ![s] = [Blank EXCEPT !.fd = fd]]
             /\ link' = [link EXCEPT ![c] = "accepted"]
             /\ UNCHANGED <<wire, sock>>
  <2>1. PICK fd \in Fds, s \in Slots :
             /\ sockets[fd] = NoConn /\ slots[s].fd = 0
             /\ sockets' = [sockets EXCEPT ![fd] = c]
             /\ slots' = [slots EXCEPT ![s] = [Blank EXCEPT !.fd = fd]]
             /\ link' = [link EXCEPT ![c] = "accepted"]
             /\ UNCHANGED <<wire, sock>>
    BY <1>4
  <2> HIDE DEF c
  <2>2. \A d \in Conns : link'[d] = IF d = c THEN "accepted" ELSE link[d]
    BY <2>1 DEF LoopInv, Shape
  <2>3. /\ slots'[s].fd = fd /\ slots'[s].inbuf = <<>>
        /\ \A t \in Slots \ {s} : slots'[t] = slots[t]
        /\ \A e \in Fds : sockets'[e] = IF e = fd THEN c ELSE sockets[e]
    BY <2>1 DEF LoopInv, Shape, Table, Blank
  <2>4. ASSUME NEW t \in Slots, slots'[t].fd # 0
        PROVE  Flows(ConnOf(t), slots[t].inbuf)'
    <3>1. CASE t = s
      <4>1. ConnOf(t)' = c /\ slots'[t].inbuf = <<>>
        BY <2>3, <3>1 DEF ConnOf
      <4>2. Flows(c, <<>>)
        BY <1>2 DEF FrameInv
      <4> QED
        BY <1>1, <2>1, <4>1, <4>2 DEF Flows
    <3>2. CASE t # s
      <4>1. slots'[t] = slots[t] /\ slots[t].fd # 0 /\ slots[t].fd \in Fds
        BY <2>3, <2>4, <3>2 DEF LoopInv, Shape, Table, Slot
      <4>2. sockets[slots[t].fd] \in Conns
        BY <4>1 DEF LoopInv, Wired
      <4>3. ConnOf(t)' = ConnOf(t)
        BY <2>1, <2>3, <4>1, <4>2, LoopAssumption DEF ConnOf, LoopAssumption
      <4> QED
        BY <1>1, <2>1, <4>1, <4>3 DEF FrameInv, Flows
    <3> QED
      BY <3>1, <3>2
  <2>5. ASSUME NEW d \in Conns
        PROVE  /\ link'[d] = "backlog" => Flows(d, <<>>)'
               /\ link'[d] = "new" => (wire[d] = <<>> /\ sock[d] = <<>> /\ sent[d] = <<>> /\ handled[d] = <<>>)'
    BY <1>1, <2>1, <2>2 DEF FrameInv, Flows
  <2> QED
    BY <1>3, <2>4, <2>5 DEF FrameInv
<1>5. CASE /\ link' = [link EXCEPT ![c] = "closed"]
           /\ wire' = [wire EXCEPT ![c] = <<>>]
           /\ sock' = [sock EXCEPT ![c] = <<>>]
           /\ UNCHANGED <<slots, sockets>>
  <2> HIDE DEF c
  <2>1. \A d \in Conns :
          IF d = c THEN link'[d] = "closed"
          ELSE link'[d] = link[d] /\ wire'[d] = wire[d] /\ sock'[d] = sock[d]
    BY <1>5 DEF LoopInv, Shape
  <2>2. \A s \in Slots : slots'[s].fd # 0 =>
          /\ slots[s].fd # 0 /\ slots'[s].inbuf = slots[s].inbuf
          /\ ConnOf(s)' = ConnOf(s) /\ link'[ConnOf(s)] # "closed"
    BY <1>2, <1>5, <2>1, FlowParts DEF ConnOf
  <2> QED
    BY <1>1, <2>1, <2>2, OthersFlow
<1> QED
  BY <1>4, <1>5 DEF Accept, AcceptFirst

\* A whole frame in the buffer is the next one that its connection sent, and
\* what is behind it is a flow.
LEMMA FrameIsNext ==
  ASSUME LoopInv, FrameInv, NEW s \in Slots, slots[s].fd # 0,
         Whole(slots[s].inbuf)
  PROVE  LET c == ConnOf(s)
             buf == slots[s].inbuf
             n == Announced(buf)
             d == Len(handled[c])
         IN  /\ d + 1 \in 1 .. Len(sent[c])
             /\ sent[c][d + 1] = SubSeq(buf, 1, n)
             /\ Flow(SubSeq(buf, n + 1, Len(buf)) \o (sock[c] \o wire[c]),
                     c, d + 1, sent[c], peer[c])
<1> DEFINE c == ConnOf(s)
           buf == slots[s].inbuf
           n == Announced(buf)
           d == Len(handled[c])
           sq == sent[c]
           z == sock[c] \o wire[c]
           a == SubSeq(buf, 1, n)
           b == SubSeq(buf, n + 1, Len(buf))
           st == buf \o z
           tt == b \o z
<1>1. c \in Conns /\ Flow(st, c, d, sq, peer[c])
  BY FlowParts DEF FrameInv, Flows
<1>2. sock[c] \in Seq(Unit) /\ wire[c] \in Seq(Unit) /\ sq \in Seq(Seq(Unit))
      /\ d \in Nat
  BY <1>1, FlowParts
<1>3. /\ buf \in Seq(Unit) /\ buf[1] \in Unit /\ n = HeaderSize + buf[1].len
      /\ n \in 1 .. Len(buf)
  BY WholeFrame
<1>4. z \in Seq(Unit)
  BY <1>2, ConcatProperties
<1> HIDE DEF c, buf, n, d, sq, z
<1>5. /\ a \in Seq(Unit) /\ b \in Seq(Unit) /\ a \o b = buf
      /\ Len(a) = n /\ \A i \in 1 .. n : a[i] = buf[i]
  <2>1. n \in 0 .. Len(buf)
    BY <1>3
  <2>2. a \o b = buf
    BY <1>3, <2>1, PartsJoin
  <2>3. a \in Seq(Unit) /\ b \in Seq(Unit) /\ Len(a) = n
        /\ \A i \in 1 .. n : a[i] = buf[i]
    BY <1>3, <2>1, Parts
  <2> QED
    BY <2>2, <2>3
<1> HIDE DEF a, b
<1>6. tt \in Seq(Unit) /\ st = a \o tt
  <2>1. tt \in Seq(Unit)
    BY <1>4, <1>5, ConcatProperties
  <2>2. (a \o b) \o z = a \o (b \o z)
    <3>1. \A y \in Seq(Unit) : (a \o b) \o y = a \o (b \o y)
      BY <1>5, Regroup
    <3> QED
      BY <1>4, <3>1
  <2> QED
    BY <1>5, <2>1, <2>2
<1> HIDE DEF st, tt
<1>7. /\ st \in Seq(Unit) /\ Len(st) = n + Len(tt)
      /\ \A i \in 1 .. n + Len(tt) : st[i] = IF i <= n THEN a[i] ELSE tt[i - n]
  BY <1>5, <1>6, ConcatProperties
<1>8. /\ Len(tt) \in Nat /\ n \in Nat /\ n \in 1 .. Len(st)
      /\ Len(tt) = Len(st) - n
  <2>1. Len(tt) \in Nat /\ Len(buf) \in Nat
    BY <1>3, <1>6, LenProperties
  <2> QED
    BY <1>3, <1>7, <2>1
<1>9. \A i \in 1 .. n : st[i] = a[i]
  BY <1>7, <1>8
<1>10. ASSUME NEW i \in 1 .. Len(tt)
       PROVE  tt[i] = st[n + i]
  <2>1. n + i \in 1 .. n + Len(tt) /\ ~(n + i <= n) /\ (n + i) - n = i
    BY <1>8
  <2> QED
    BY <1>7, <2>1
<1> DEFINE len == buf[1].len
<1>11. len \in Nat /\ st[1].len = len /\ n = HeaderSize + len
  <2>1. 1 \in 1 .. n
    BY <1>3
  <2> QED
    BY <1>3, <1>5, <1>9, <2>1 DEF Unit
<1> HIDE DEF len
<1>12. /\ d + 1 \in 1 .. Len(sq) /\ sq[d + 1] = Units(c, d + 1, len)
       /\ Ends(st[n]) /\ st[n].frame = d + 1
       /\ \A i \in 1 .. n :
            st[i] = [conn |-> c, frame |-> d + 1, at |-> i, len |-> len]
  <2>1. HeaderSize + len <= Len(st)
    BY <1>8, <1>11
  <2>2. FirstFrame(st, c, d, sq, HeaderSize + len, len)
    BY <1>1, <1>2, <1>7, <1>11, <2>1, FlowFront
  <2> QED
    BY <1>11, <2>2 DEF FirstFrame
<1>13. sq[d + 1] = a
  <2> DEFINE w == sq[d + 1]
  <2>1. w \in Seq(Unit)
    BY <1>2, <1>12, ElementOfSeq
  <2>2. Len(w) = n
        /\ \A i \in 1 .. n :
             w[i] = [conn |-> c, frame |-> d + 1, at |-> i, len |-> len]
    BY <1>8, <1>11, <1>12 DEF Units
  <2> HIDE DEF w
  <2>3. Len(w) = Len(a) /\ \A i \in 1 .. Len(w) : w[i] = a[i]
    BY <1>5, <1>9, <1>12, <2>2
  <2>4. w = a
    BY <1>5, <2>1, <2>3, SeqEqual
  <2> QED
    BY <2>4 DEF w
<1>14. Flow(tt, c, d + 1, sq, peer[c])
  BY <1>1, <1>2, <1>6, <1>7, <1>8, <1>10, <1>12, FlowMoves
<1> QED
  BY <1>12, <1>13, <1>14 DEF a, b, tt, sq, d, z, n, buf, c

LEMMA DrainFrameFlows ==
  ASSUME LoopInv, FrameInv, NEW s \in Slots, DrainFrame(s)
  PROVE  FrameInv'
<1> DEFINE c == ConnOf(s)
           buf == slots[s].inbuf
           n == Announced(buf)
           frame == SubSeq(buf, 1, n)
           more == SubSeq(buf, n + 1, Len(buf))
           rest == [slots EXCEPT ![s].inbuf = more]
           d == Len(handled[c])
<1>1. PICK new \in Table :
        /\ \A t \in Slots : \/ new[t] = Blank
                            \/ /\ new[t].fd = slots[t].fd
                               /\ new[t].inbuf = rest[t].inbuf
        /\ \A t \in Slots : new[t].fd \in {0, slots[t].fd}
        /\ Install(new, sock)
        /\ handled' = [handled EXCEPT ![c] = Append(@, frame)]
  BY DrainFrameDoes
<1>2. Current(s) /\ Whole(buf) /\ UNCHANGED <<backlog, peer, sent>>
  BY DEF DrainFrame
<1>3. c \in Conns /\ slots[s].fd # 0 /\ link[c] = "accepted"
  BY <1>2, CurrentIsOne
<1>4. /\ d + 1 \in 1 .. Len(sent[c]) /\ sent[c][d + 1] = frame
      /\ Flow(more \o (sock[c] \o wire[c]), c, d + 1, sent[c], peer[c])
  BY <1>2, <1>3, FrameIsNext
<1>5. handled[c] \in Seq(Seq(Unit)) /\ frame \in Seq(Unit) /\ d \in Nat
      /\ Len(sent[c]) \in Nat
  BY <1>2, <1>3, FlowParts, WholeFrame
<1>6. rest[s].inbuf = more /\ \A t \in Slots : t # s => rest[t] = slots[t]
  BY DEF LoopInv, Shape, Table, Slot
<1> HIDE DEF buf, n, frame, more, rest
<1>7. /\ Len(handled'[c]) = d + 1 /\ handled'[c][d + 1] = frame
      /\ \A k \in 1 .. d : handled'[c][k] = handled[c][k]
      /\ \A e \in Conns \ {c} : handled'[e] = handled[e]
  <2> HIDE DEF c
  <2>1. handled'[c] = Append(handled[c], frame)
        /\ \A e \in Conns \ {c} : handled'[e] = handled[e]
    BY <1>1, <1>3 DEF LoopInv, Shape
  <2> QED
    BY <1>5, <2>1, AppendProperties
<1> HIDE DEF c, d
<1>8. /\ slots' = new /\ Wired'
      /\ \A e \in Conns :
           \/ link'[e] = "closed"
           \/ link'[e] = link[e] /\ wire'[e] = wire[e] /\ sock'[e] = sock[e]
      /\ \A t \in Slots : slots'[t].fd # 0 => ConnOf(t)' = ConnOf(t)
  BY <1>1, <1>2, Installed DEF LoopInv
<1>9. ASSUME NEW t \in Slots, slots'[t].fd # 0
      PROVE  Flows(ConnOf(t), slots[t].inbuf)'
  <2> DEFINE e == ConnOf(t)
  <2>1. /\ slots'[t].fd = slots[t].fd /\ slots'[t].inbuf = rest[t].inbuf
        /\ slots'[t].fd \in Fds
    BY <1>1, <1>8, <1>9, BlankIsSlot DEF Table, Slot
  <2>2. link'[ConnOf(t)'] = "accepted"
    BY <1>8, <1>9, <2>1 DEF Wired, ConnOf
  <2>3. e \in Conns /\ ConnOf(t)' = e /\ Flows(e, slots[t].inbuf)
    BY <1>8, <1>9, <2>1, FlowParts DEF FrameInv
  <2>4. wire'[e] = wire[e] /\ sock'[e] = sock[e]
    BY <1>8, <2>2, <2>3
  <2>5. CASE t = s
    <3>1. e = c /\ slots'[t].inbuf = more
      BY <1>6, <2>1, <2>5 DEF c
    <3> HIDE DEF e
    <3> QED
      BY <1>2, <1>4, <1>7, <2>3, <2>4, <3>1 DEF Flows
  <2>6. CASE t # s
    <3>1. slots'[t].inbuf = slots[t].inbuf
      BY <1>6, <2>1, <2>6
    <3>2. e # c
      <4>1. slots[t].fd \in Fds /\ slots[s].fd \in Fds
        BY <1>3, <2>1 DEF LoopInv, Shape, Table, Slot
      <4> QED
        BY <1>3, <1>9, <2>1, <2>3, <2>6, <4>1 DEF LoopInv, Wired, ConnOf, c
    <3> HIDE DEF e
    <3> QED
      BY <1>2, <1>7, <2>3, <2>4, <3>1, <3>2 DEF Flows
  <2> QED
    BY <2>5, <2>6
<1>10. ASSUME NEW e \in Conns
       PROVE  Prefix(e)'
  <2>1. CASE e = c
    <3>1. Prefix(c) /\ Len(handled[c]) = d
      BY <1>3 DEF FrameInv, d
    <3>2. \A k \in 1 .. d + 1 : k \in 1 .. d \/ k = d + 1
      BY <1>5
    <3>3. \A k \in 1 .. d + 1 : handled'[c][k] = sent[c][k]
      BY <1>4, <1>7, <3>1, <3>2 DEF Prefix
    <3> QED
      BY <1>2, <1>4, <1>5, <1>7, <2>1, <3>3 DEF Prefix
  <2> QED
    BY <1>2, <1>7, <2>1 DEF FrameInv, Prefix
<1>11. ASSUME NEW e \in Conns, link'[e] \in {"backlog", "new"}
       PROVE  /\ e # c /\ link'[e] = link[e]
              /\ wire'[e] = wire[e] /\ sock'[e] = sock[e]
  BY <1>3, <1>8, <1>11
<1>12. ASSUME NEW e \in Conns, link'[e] = "backlog"
       PROVE  Flows(e, <<>>)'
  BY <1>2, <1>7, <1>11, <1>12 DEF FrameInv, Flows
<1>13. ASSUME NEW e \in Conns, link'[e] = "new"
       PROVE  (wire[e] = <<>> /\ sock[e] = <<>> /\ sent[e] = <<>> /\ handled[e] = <<>>)'
  BY <1>2, <1>7, <1>11, <1>13 DEF FrameInv
<1> QED
  BY <1>9, <1>10, <1>12, <1>13 DEF FrameInv

LEMMA ServeFlows ==
  ASSUME LoopInv, FrameInv, NEW s \in Slots, Serve(s)
  PROVE  FrameInv'
<1>1. CASE PollError(s) \/ InputFull(s) \/ RecvEnds(s) \/ SendFails(s)
  <2> DEFINE new == [slots EXCEPT ![s] = Blank]
  <2>1. Install(new, sock) /\ UNCHANGED <<backlog, sent, handled, peer>>
    BY <1>1 DEF PollError, InputFull, RecvEnds, SendFails, Close
  <2>2. new \in Table /\ \A t \in Slots : new[t] \in {Blank, slots[t]}
    BY BlankIsSlot DEF LoopInv, Shape, Table
  <2> HIDE DEF new
  <2>3. \A t \in Slots : \/ new[t] = Blank
                         \/ /\ new[t].fd = slots[t].fd
                            /\ new[t].inbuf = slots[t].inbuf
    BY <2>2
  <2> QED
    BY <2>1, <2>2, <2>3, InstallFlows
<1>2. CASE DrainBad(s)
  <2> DEFINE new == Post(slots, {s})
  <2>1. Install(new, sock) /\ UNCHANGED <<backlog, sent, handled, peer>>
    BY <1>2 DEF DrainBad
  <2>2. /\ new \in Table
        /\ \A t \in Slots : \/ new[t] = Blank
                            \/ /\ new[t].fd = slots[t].fd
                               /\ new[t].inbuf = slots[t].inbuf
    BY PostIsTable DEF LoopInv, Shape
  <2> HIDE DEF new
  <2> QED
    BY <2>1, <2>2, InstallFlows
<1>3. CASE RecvWouldBlock(s) \/ DrainMore(s) \/ WriteDone(s)
  BY <1>3, QuietFlows DEF RecvWouldBlock, DrainMore, WriteDone
<1>4. CASE SendSome(s)
  <2>1. PICK k \in 1 .. room[ConnOf(s)] :
          slots' = [slots EXCEPT ![s].out = @ - k]
    BY <1>4 DEF SendSome
  <2>2. \A t \in Slots : /\ slots'[t].fd = slots[t].fd
                         /\ slots'[t].inbuf = slots[t].inbuf
    BY <2>1 DEF LoopInv, Shape, Table, Slot
  <2> QED
    BY <1>4, <2>2, QuietFlows DEF SendSome
<1> QED
  BY <1>1, <1>2, <1>3, <1>4, RecvFlows, DrainFrameFlows DEF Serve

LEMMA FlowsNext == LoopInv /\ FrameInv /\ [Next]_vars => FrameInv'
<1> SUFFICES ASSUME LoopInv, FrameInv, [Next]_vars
             PROVE  FrameInv'
  OBVIOUS
<1>1. CASE UNCHANGED vars
  BY <1>1, QuietFlows DEF vars
<1>2. CASE Poll \/ AcceptDone \/ Select
  BY <1>2, QuietFlows DEF Poll, AcceptDone, Select
<1>3. ASSUME NEW c \in Conns, Peer(c)
      PROVE  FrameInv'
  <2>1. CASE PeerReads(c)
    BY <2>1, QuietFlows DEF PeerReads, server
  <2> QED
    BY <1>3, <2>1, ConnectFlows, ArriveFlows, FinishFlows, ResetFlows, SendFlows
       DEF Peer
<1> QED
  BY <1>1, <1>2, <1>3, AcceptFlows, ServeFlows DEF Next, Loop

LEMMA FlowsInit == Init => FrameInv
<1> SUFFICES ASSUME Init
             PROVE  FrameInv
  OBVIOUS
<1>1. \A s \in Slots : slots[s].fd = 0
  BY BlankIsSlot DEF Init
<1>2. \A c \in Conns :
        /\ link[c] = "new" /\ wire[c] = <<>> /\ sock[c] = <<>>
        /\ sent[c] = <<>> /\ handled[c] = <<>>
  BY DEF Init
<1> QED
  BY <1>1, <1>2 DEF FrameInv, Prefix

LEMMA FlowsAlways == Spec => [](LoopInv /\ FrameInv)
<1> QED
  BY InitHolds, NextHolds, FlowsInit, FlowsNext, PTL DEF Spec

-----------------------------------------------------------------------------
(* The theorems.                                                           *)

\* What handle_frame was called with are the first frames that the connection
\* sent: nothing of an earlier client of the slot, and nothing cut short.
THEOREM NothingIsLeftBehind == Spec => []NothingLeftBehind
<1>1. LoopInv /\ FrameInv => NothingLeftBehind
  <2> SUFFICES ASSUME LoopInv, FrameInv, NEW c \in Conns
               PROVE  IsPrefix(handled[c], sent[c])
    BY DEF NothingLeftBehind
  <2> DEFINE s == handled[c]
             t == sent[c]
             a == SubSeq(s, 1, Len(s))
             b == SubSeq(t, 1, Len(s))
  <2>1. /\ s \in Seq(Seq(Unit)) /\ t \in Seq(Seq(Unit))
        /\ Len(s) \in Nat /\ Len(t) \in Nat
    BY FlowParts
  <2>2. Len(s) <= Len(t) /\ \A k \in 1 .. Len(s) : s[k] = t[k]
    BY DEF FrameInv, Prefix
  <2> HIDE DEF s, t
  <2>3. /\ a \in Seq(Seq(Unit)) /\ Len(a) = Len(s)
        /\ \A k \in 1 .. Len(s) : a[k] = s[k]
    <3>1. Len(s) \in 0 .. Len(s)
      BY <2>1
    <3> QED
      BY <2>1, <3>1, Parts
  <2>4. /\ b \in Seq(Seq(Unit)) /\ Len(b) = Len(s)
        /\ \A k \in 1 .. Len(s) : b[k] = t[k]
    <3>1. Len(s) \in 0 .. Len(t)
      BY <2>1, <2>2
    <3> QED
      BY <2>1, <3>1, Parts
  <2> HIDE DEF a, b
  <2>5. a = b
    BY <2>2, <2>3, <2>4, SeqEqual
  <2> QED
    BY <2>2, <2>5 DEF IsPrefix, s, t, a, b
<1> QED
  BY <1>1, FlowsAlways, PTL

\* A connection that was closed stays closed, and is not among those in use.
LEMMA ClosedStays ==
  ASSUME LoopInv, [Next]_vars, NEW c \in Conns, link[c] = "closed"
  PROVE  link'[c] = "closed"
<1>1. CASE UNCHANGED link
  BY <1>1
<1>2. ASSUME NEW d \in Conns, Connect(d)
      PROVE  link'[c] = "closed"
  BY <1>2 DEF Connect, LoopInv, Shape
<1>3. CASE Accept
  <2>1. link[Head(backlog)] = "backlog" /\ Head(backlog) \in Conns
    BY <1>3, BacklogTail DEF Accept, AcceptFirst
  <2> QED
    BY <1>3, <2>1 DEF Accept, AcceptFirst, LoopInv, Shape
<1>4. ASSUME NEW new, NEW sk, Install(new, sk)
      PROVE  link'[c] = "closed"
  BY <1>4 DEF Install
<1>5. ASSUME NEW s \in Slots, Serve(s)
      PROVE  UNCHANGED link \/ \E new, sk : Install(new, sk)
  BY <1>5 DEF Serve, PollError, InputFull, Recv, RecvEnds, RecvWouldBlock,
              DrainMore, DrainBad, DrainFrame, SendSome, SendFails, WriteDone,
              Close
<1>6. CASE Poll \/ AcceptDone \/ Select \/ UNCHANGED vars
  BY <1>1, <1>6 DEF Poll, AcceptDone, Select, vars
<1>7. ASSUME NEW d \in Conns, Peer(d)
      PROVE  link'[c] = "closed"
  BY <1>1, <1>2, <1>7 DEF Peer, Send, Arrive, Finish, Reset, PeerReads
<1> QED
  BY <1>1, <1>3, <1>4, <1>5, <1>6, <1>7 DEF Next, Loop

\* A step of the loop is a step of the service, or none.
LEMMA StepIsServed ==
  LoopInv /\ FrameInv /\ [Next]_vars => [Service!Next]_(Service!vars)
<1> SUFFICES ASSUME LoopInv, FrameInv, [Next]_vars
             PROVE  [Service!Next]_(Service!vars)
  OBVIOUS
<1> DEFINE gone == {c \in Conns : link[c] = "closed"}
           going == {c \in Conns : link'[c] = "closed"}
<1>1. going = gone \cup going /\ going \in SUBSET Conns
  BY ClosedStays
<1>2. CASE UNCHANGED <<sent, handled>>
  <2>1. Service!Drop
    BY <1>1, <1>2 DEF Service!Drop
  <2> QED
    BY <2>1 DEF Service!Next
<1>3. ASSUME NEW c \in Conns, NEW n \in PayloadSizes, Send(c, n)
      PROVE  Service!Next
  <2> DEFINE f == Units(c, Len(sent[c]) + 1, n)
  <2>1. /\ sent' = [sent EXCEPT ![c] = Append(@, f)] /\ Len(sent[c]) < MaxFrames
        /\ UNCHANGED <<handled, link>>
    BY <1>3 DEF Send, server
  <2>2. Len(sent[c]) + 1 \in 1 .. MaxFrames
    BY <2>1, FlowParts, LoopAssumption DEF LoopAssumption
  <2>3. f \in Frames
    BY <2>2 DEF Frames
  <2>4. Service!Send(c)
    BY <2>1, <2>3 DEF Service!Send
  <2> QED
    BY <2>4 DEF Service!Next
<1>4. ASSUME NEW s \in Slots, DrainFrame(s)
      PROVE  Service!Next
  <2> DEFINE c == ConnOf(s)
             buf == slots[s].inbuf
             n == Announced(buf)
             frame == SubSeq(buf, 1, n)
  <2>1. /\ Current(s) /\ Whole(buf) /\ UNCHANGED sent
        /\ handled' = [handled EXCEPT ![c] = Append(@, frame)]
    BY <1>4 DEF DrainFrame
  <2>2. c \in Conns /\ slots[s].fd # 0 /\ link[c] = "accepted"
    BY <2>1, CurrentIsOne
  <2>3. /\ Len(handled[c]) + 1 \in 1 .. Len(sent[c])
        /\ sent[c][Len(handled[c]) + 1] = frame
    BY <2>1, <2>2, FrameIsNext
  <2>4. /\ buf \in Seq(Unit) /\ n \in 1 .. Len(buf) /\ n <= InbufCap
    BY <2>1, WholeFrame
  <2> HIDE DEF c, buf, n
  <2>5. Len(frame) = n
    <3>1. n \in 0 .. Len(buf)
      BY <2>4
    <3> QED
      BY <2>4, <3>1, Parts
  <2>6. Len(handled[c]) < Len(sent[c])
    BY <2>2, <2>3, FlowParts
  <2> HIDE DEF frame
  <2>7. ASSUME NEW e \in Conns, e = c
        PROVE  Service!Handle(e)
    BY <1>1, <2>1, <2>2, <2>3, <2>4, <2>5, <2>6, <2>7
       DEF Service!Handle
  <2> QED
    BY <2>2, <2>7 DEF Service!Next
<1>5. ASSUME NEW s \in Slots, Serve(s)
      PROVE  DrainFrame(s) \/ UNCHANGED <<sent, handled>>
  BY <1>5 DEF Serve, PollError, InputFull, Recv, RecvEnds, RecvWouldBlock,
              DrainMore, DrainBad, SendSome, SendFails, WriteDone, Close
<1>6. ASSUME NEW c \in Conns, Peer(c)
      PROVE  \/ \E n \in PayloadSizes : Send(c, n)
             \/ UNCHANGED <<sent, handled>>
  BY <1>6 DEF Peer, Connect, Arrive, Finish, Reset, PeerReads, server
<1>7. CASE Poll \/ Accept \/ AcceptDone \/ Select \/ UNCHANGED vars
  BY <1>2, <1>7 DEF Poll, Accept, AcceptFirst, AcceptDone, Select, vars
<1> QED
  BY <1>2, <1>3, <1>4, <1>5, <1>6, <1>7 DEF Next, Loop

\* The loop implements the service, as far as that is safety: every frame is
\* handled in its turn, whole and once, as long as its connection is kept.
THEOREM LoopImplementsService ==
  Spec => Service!Init /\ [][Service!Next]_(Service!vars)
<1>1. Init => Service!Init
  BY DEF Init, Service!Init
<1> QED
  BY <1>1, FlowsAlways, StepIsServed, PTL DEF Spec
=============================================================================
