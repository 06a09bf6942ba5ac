---------------------------- MODULE FrameService ----------------------------
(* What the core promises about the frames it is sent, whatever TCP does to *)
(* their bytes: it handles the frames of every connection in the order in   *)
(* which they were sent, each of them once, as long as it keeps the         *)
(* connection; and it does get round to each of them.  A frame that is too  *)
(* long is never handled, and neither is anything behind it.                *)
EXTENDS Naturals, Sequences

CONSTANTS
  Conns,     \* the connections
  Frames,    \* what can be sent: sequences of units
  MaxFrame   \* the length of the longest frame that is well-formed

VARIABLES
  sent,      \* the frames that each connection's peer has sent
  handled,   \* the frames that the core has handled
  dropped    \* the connections that the core has closed

vars == <<sent, handled, dropped>>

Init ==
  /\ sent = [c \in Conns |-> <<>>]
  /\ handled = [c \in Conns |-> <<>>]
  /\ dropped = {}

Send(c) ==
  /\ \E f \in Frames : sent' = [sent EXCEPT ![c] = Append(@, f)]
  /\ UNCHANGED <<handled, dropped>>

\* Handling a frame may cost any connection its life: a slow reader among the
\* receivers of the answer, or the sender itself.
Handle(c) ==
  /\ c \notin dropped
  /\ Len(handled[c]) < Len(sent[c])
  /\ LET f == sent[c][Len(handled[c]) + 1]
     IN  /\ Len(f) <= MaxFrame
         /\ handled' = [handled EXCEPT ![c] = Append(@, f)]
  /\ \E D \in SUBSET Conns : dropped' = dropped \cup D
  /\ UNCHANGED sent

Drop ==
  /\ \E D \in SUBSET Conns : dropped' = dropped \cup D
  /\ UNCHANGED <<sent, handled>>

Next == Drop \/ \E c \in Conns : Send(c) \/ Handle(c)

Spec == Init /\ [][Next]_vars /\ \A c \in Conns : WF_vars(Handle(c))
=============================================================================
