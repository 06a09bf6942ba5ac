----------------------------- MODULE MCGateway -----------------------------
(* Small instances of Gateway. *)
EXTENDS Gateway

CONSTANTS ann, bob, s1, s2, s3, r1, p1

\* One session each; every conversation has two sides.
MCPair == [c \in Conns |-> IF c = s1 THEN ann ELSE bob]

\* Everything but s3 is ann's: sessions that follow or compete with each other.
MCSame == [c \in Conns |-> IF c = s3 THEN bob ELSE ann]

\* Each side has a session, and ann has a command-line client.
MCPeer == [c \in Conns |-> IF c = s2 THEN bob ELSE ann]
=============================================================================
