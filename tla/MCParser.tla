------------------------------- MODULE MCParser -------------------------------
(* Parser on small instances: three streams, of which one has a syntax error *)
(* in its middle, read in blocks that end inside and at the end of a stream. *)
EXTENDS Parser

Streams == [f |-> << >>, g |-> <<"bad", "def">>, h |-> <<"def", "def", "def">>]
TwoStreams == [g |-> <<"def", "bad", "def">>, h |-> <<"def">>]

\* Every call returns, also those that wait for another: each thread's steps
\* end, and the flag is cleared however a call ends.
EveryCallReturns == \A t \in Threads : pc[t] # "idle" ~> pc[t] = "idle"

-----------------------------------------------------------------------------
(* What the comments say, and the code does not do                          *)

\* mon_parser.h: a call blocks until an ongoing parse is finished.
ParsesExclude ==
  \A t, u \in Threads :
    t # u => ~(/\ pc[t] \in Inside /\ call[t].op = "parse"
               /\ pc[u] \in Inside /\ call[u].op = "parse")
=============================================================================
