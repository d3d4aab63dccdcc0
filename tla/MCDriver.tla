------------------------------- MODULE MCDriver -------------------------------
(* Driver on every command line of up to four arguments in which no file     *)
(* occurs twice: two good files, one with a syntax error before its end, one  *)
(* that cannot be opened and one whose name is too long for -o.               *)
EXTENDS Driver

Texts == [a |-> <<"def">>, b |-> <<"def", "def", "def">>, bad |-> <<"bad", "def">>, long |-> << >>]
Long == {"long"}
MaxArguments == 4

Words == Dashed \cup DOMAIN Texts \cup {"gone"}
EachFileOnce(args) ==
  \A i, j \in DOMAIN args : i # j /\ args[i] = args[j] => args[i] \in Dashed
SmallCommandLines ==
  {args \in UNION {[1 .. n -> Words] : n \in 0 .. MaxArguments} : EachFileOnce(args)}

\* The program ends, whatever its arguments and files: no call of the library
\* waits for a flag that an earlier one left set.
DriverEnds == <>(step = "done")
===============================================================================
