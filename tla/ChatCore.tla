------------------------------ MODULE ChatCore ------------------------------
(***************************************************************************)
(* The messaging core as the gateway and the command-line clients meet it: *)
(* requests go in and frames come out in order, on a connection each.      *)
(* Slots, bytes and the event loop are the subject of CoreServer and       *)
(* CoreLoop; who gets which answer, and who gets none, is kept.            *)
(*                                                                         *)
(* A text is known by the connection that sent it and a number.  Answers   *)
(* carry the text that they answer for the properties' sake only.          *)
(*                                                                         *)
(* An operator whose comment starts with DEFECT is a plausible mistake in  *)
(* the operator after it, which the specification does not use.            *)
(***************************************************************************)
EXTENDS Naturals, Sequences, SequencesExt

CONSTANTS
  Conns,      \* core connections, each of them used once
  Users,      \* user names
  Channels,   \* channel names
  None,       \* no name, no channel, no text
  Capacity    \* frames under way to a reader before its queue overflows

ASSUME CoreAssumption ==
  /\ Capacity \in Nat
  /\ None \notin Users \cup Channels /\ None \notin Conns \X Nat

VARIABLES
  core,       \* what the core knows of each connection
  toCore,     \* requests that the core has not handled yet
  fromCore,   \* frames that the other side has not read yet
  accepted    \* history: the chats and direct messages it has accepted

coreVars == <<core, toCore, fromCore, accepted>>

Absent == [up |-> FALSE, name |-> None, rooms |-> {}, active |-> None]

CoreInit ==
  /\ core = [c \in Conns |-> Absent]
  /\ toCore = [c \in Conns |-> <<>>]
  /\ fromCore = [c \in Conns |-> <<>>]
  /\ accepted = <<>>

Ask(op, arg, text) == [op |-> op, arg |-> arg, text |-> text]
Tell(type, who, at, text) ==
  [type |-> type, who |-> who, at |-> at, text |-> text]
Plain(type) == Tell(type, None, None, None)

Holder(u) == {c \in Conns : core[c].up /\ core[c].name = u}
Inside(ch) == {c \in Conns : core[c].up /\ ch \in core[c].rooms}

\* Frame f is queued for each connection of R.  One that does not read
\* is disconnected; of what was under way to it some part still arrives.
Queue(cs, R, f) ==
  LET over == {c \in R : Len(fromCore[c]) >= Capacity}
  IN  /\ core' = [c \in Conns |-> IF c \in over THEN Absent ELSE cs[c]]
      /\ \E kept \in [over -> 0 .. Capacity] :
           fromCore' = [c \in Conns |->
             IF c \in over THEN SubSeq(fromCore[c], 1, kept[c])
             ELSE IF c \in R THEN Append(fromCore[c], f)
             ELSE fromCore[c]]

Answer(c, cs, f) == Queue(cs, {c}, f)

\* The core takes the next request of c.
Take(c, op) ==
  /\ core[c].up /\ toCore[c] # <<>>
  /\ Head(toCore[c]).op = op
  /\ toCore' = [toCore EXCEPT ![c] = Tail(@)]

HandleName(c) ==
  /\ Take(c, "hello") \/ Take(c, "nick")
  /\ UNCHANGED accepted
  /\ LET u == Head(toCore[c]).arg
     IN  IF Holder(u) \ {c} # {} THEN Answer(c, core, Plain("error"))
         ELSE Answer(c, [core EXCEPT ![c].name = u], Plain("ok"))

\* JOIN, SWITCH and LEAVE; only the first may enter a channel.
HandleRoom(c) ==
  /\ UNCHANGED accepted
  /\ LET ch == Head(toCore[c]).arg
         inside == ch \in core[c].rooms
         Enter(rooms) == [core EXCEPT ![c].rooms = rooms, ![c].active = ch]
         Exit == [core EXCEPT ![c].rooms = @ \ {ch},
                              ![c].active = IF @ = ch THEN None ELSE @]
     IN  \/ /\ Take(c, "join")
            /\ Answer(c, Enter(core[c].rooms \cup {ch}), Plain("ok"))
         \/ /\ Take(c, "switch") /\ inside
            /\ Answer(c, Enter(core[c].rooms), Plain("ok"))
         \/ /\ Take(c, "leave") /\ inside
            /\ Answer(c, Exit, Plain("ok"))
         \/ /\ Take(c, "switch") \/ Take(c, "leave")
            /\ ~inside
            /\ Answer(c, core, Plain("error"))

HandleSay(c) ==
  /\ Take(c, "say")
  /\ LET me == core[c]
         t == Head(toCore[c]).text
     IN  \/ /\ me.active = None
            /\ Answer(c, core, Plain("error"))
            /\ UNCHANGED accepted
         \/ /\ me.active # None
            /\ Queue(core, Inside(me.active),
                     Tell("chat", me.name, me.active, t))
            /\ accepted' = Append(accepted, t)

\* One frame can be queued for two connections in one step; a message to
\* oneself is followed by its answer in the same queue.
HandleDm(c) ==
  /\ Take(c, "dm")
  /\ LET m == Head(toCore[c])
         dm == Tell("dm", core[c].name, None, m.text)
         sent == Tell("sent", None, None, m.text)
         Full(d) == Len(fromCore[d]) >= Capacity
     IN  \/ /\ Holder(m.arg) = {}
            /\ Answer(c, core, Tell("error", None, None, m.text))
            /\ UNCHANGED accepted
         \/ \E d \in Holder(m.arg) :
              \/ Full(d) /\ Queue(core, {d}, dm) /\ UNCHANGED accepted
              \/ /\ ~Full(d)
                 /\ accepted' = Append(accepted, m.text)
                 /\ LET got == [fromCore EXCEPT ![d] = Append(@, dm)]
                    IN  IF Len(got[c]) < Capacity
                        THEN /\ fromCore' = [got EXCEPT ![c] = Append(@, sent)]
                             /\ UNCHANGED core
                        ELSE /\ core' = [core EXCEPT ![c] = Absent]
                             /\ \E k \in 0 .. Len(got[c]) : fromCore' =
                                  [got EXCEPT ![c] = SubSeq(@, 1, k)]

\* STATS; LIST and WHO are answered in the same way.
HandleStats(c) ==
  /\ Take(c, "stats")
  /\ Answer(c, core, Plain("stats"))
  /\ UNCHANGED accepted

\* DEFECT: the slot is given up with the name still in it.
EndKeepsName(c) ==
  /\ Take(c, "quit")
  /\ core' = [core EXCEPT ![c].up = FALSE]
  /\ UNCHANGED <<fromCore, accepted>>

\* QUIT, or the end of the stream.
HandleEnd(c) ==
  /\ Take(c, "quit")
  /\ core' = [core EXCEPT ![c] = Absent]
  /\ \E k \in 0 .. Len(fromCore[c]) :
       fromCore' = [fromCore EXCEPT ![c] = SubSeq(@, 1, k)]
  /\ UNCHANGED accepted

CoreStep(c) ==
  \/ HandleName(c) \/ HandleRoom(c) \/ HandleSay(c) \/ HandleDm(c)
  \/ HandleStats(c) \/ HandleEnd(c)

\* A connection that has ended in the core, all of whose frames are read.
Ended(c) == ~core[c].up /\ fromCore[c] = <<>>
=============================================================================
