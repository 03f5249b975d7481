------------------------------ MODULE ByteStream ------------------------------
(***************************************************************************)
(* What the receive half of a stream promises, whatever its buffers, its   *)
(* read calls and the events of MsQuic: the bytes that arrived are given   *)
(* to the reader once and in order, the reader is told of the end only     *)
(* when it has everything, and memory goes back to the transport in order  *)
(* and only when nothing can reach it any more.  StreamRecv implements it; *)
(* H3Recv, the adapter over it, is built from it.                          *)
(***************************************************************************)
EXTENDS Integers

VARIABLES
  arrived,    \* how many bytes arrived
  complete,   \* the last of them is the end of the stream
  given,      \* how many of them the reader was given
  ended,      \* the reader was told of the end
  abandoned,  \* the reader gave up
  inUse,      \* the bytes that lie in memory the reader can still reach
  returned    \* how many bytes the transport has back

streamVars == <<arrived, complete, given, ended, abandoned, inUse, returned>>

StreamInit ==
  /\ arrived = 0 /\ given = 0 /\ returned = 0
  /\ complete = FALSE /\ ended = FALSE /\ abandoned = FALSE
  /\ inUse = {}

Arrive ==
  /\ ~ complete
  /\ arrived' \in Nat /\ arrived' >= arrived
  /\ complete' \in BOOLEAN
  /\ inUse' = inUse \cup arrived .. (arrived' - 1)
  /\ UNCHANGED <<given, ended, abandoned, returned>>

\* One answer to a read: some of what is next, or the end, or an error.
Read ==
  /\ given' \in given .. arrived
  /\ abandoned => given' = given
  /\ ended' \in {ended, TRUE}
  /\ ended' => ended \/ abandoned \/ (complete /\ given' = arrived)
  /\ UNCHANGED <<arrived, complete, abandoned, inUse, returned>>

\* The transport gets memory back, in order, that nobody can reach.
Release ==
  /\ inUse' \subseteq inUse
  /\ returned' \in returned .. arrived
  /\ \A n \in inUse' : returned' <= n
  /\ UNCHANGED <<arrived, complete, given, ended, abandoned>>

Abandon ==
  /\ abandoned' = TRUE
  /\ UNCHANGED <<arrived, complete, given, ended, inUse, returned>>

StreamNext == Arrive \/ Read \/ Release \/ Abandon

StreamSpec == StreamInit /\ [][StreamNext]_streamVars
================================================================================
