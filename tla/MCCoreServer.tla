---------------------------- MODULE MCCoreServer ----------------------------
(* Small instances of CoreServer: a direct message is two units long and   *)
(* every other frame one unit, so that a queue can be too full for the one *)
(* and not for the other, and a short queue still holds several chats.     *)
EXTENDS CoreServer, TLC

MCFrameBytes ==
  [t \in FrameTypes |-> IF t = "DM_RECV" THEN 2 ELSE 1]

\* The specification only compares names with each other, and looks channels
\* up by position, so any renaming of users or of channels is a symmetry.
MCSymmetry == Permutations(Names) \cup Permutations(ChannelNames)
=============================================================================
