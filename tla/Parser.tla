-------------------------------- MODULE Parser --------------------------------
(***************************************************************************)
(* Mon_Parse (src/src/libmonga/parser.c) and Mon_DumpLex (lex.c), called   *)
(* by the threads of one process.  Both drive the one scanner that flex    *)
(* generates from lex.l, whose state is global: the stream yyin and a      *)
(* buffer of characters read from it and not yet scanned.  Assigning yyin  *)
(* leaves the buffer as it is.                                             *)
(*                                                                         *)
(* A stream is a sequence of "def", a definition, and "bad", a place where *)
(* the grammar has a syntax error.  A call of yylex is atomic here; calls  *)
(* that really overlap can do worse.                                       *)
(***************************************************************************)
EXTENDS Integers, Sequences

CONSTANTS
  Threads,
  Content,  \* the streams: a function from their names to what they hold
  BLOCK,    \* how much of a stream the scanner reads at a time
  NULL

Files == DOMAIN Content

ASSUME ContentIsText == \A f \in Files : Content[f] \in Seq({"def", "bad"})
ASSUME BlockPos == BLOCK \in Nat \ {0}

VARIABLES
  pc,      \* by thread: the step of its call, or "idle"
  call,    \* by thread: [op, file] of its call
  called,  \* the streams given to a call
  got,     \* by thread: the definitions its yyparse holds
  busy,    \* s_Busy of parser.c ("parse") and of lex.c ("dump")
  target,  \* mon_TargetAst
  yyin,
  buffer,  \* the scanner's buffer
  read,    \* by stream: how much of it was read into the buffer
  asts,    \* by stream: [state, defs] of the AST that it is parsed into
  \* history
  lost,    \* definitions that Mon_DefGroupReg had no memory for
  broken,  \* a call ended before the end of its stream
  overlap  \* two calls used the scanner at once

caller == <<pc, call, called, got>>
scanner == <<yyin, buffer, read>>
history == <<lost, broken, overlap>>
vars == <<caller, busy, target, scanner, asts, history>>

\* The steps between s_Busy = true and s_Busy = false
Inside == {"target", "input", "scan", "accept", "end", "clear"}

Init ==
  /\ pc = [t \in Threads |-> "idle"]
  /\ call = [t \in Threads |-> NULL]
  /\ called = {}
  /\ got = [t \in Threads |-> << >>]
  /\ busy = [op \in {"parse", "dump"} |-> FALSE]
  /\ target = NULL /\ yyin = NULL
  /\ buffer = << >> /\ read = [f \in Files |-> 0]
  /\ asts = [f \in Files |-> [state |-> "NONE", defs |-> << >>]]
  /\ lost = {} /\ broken = FALSE /\ overlap = FALSE

Goto(t, from, to) == pc[t] = from /\ pc' = [pc EXCEPT ![t] = to]

\* An operation is called on a newly opened stream and, to parse, a new AST.
Begin(t, op, f) ==
  /\ Goto(t, "idle", "wait")
  /\ f \notin called /\ called' = called \cup {f}
  /\ call' = [call EXCEPT ![t] = [op |-> op, file |-> f]]
  /\ UNCHANGED <<got, busy, target, scanner, asts, history>>

\* while (s_Busy);
Test(t) ==
  /\ Goto(t, "wait", "set")
  /\ ~busy[call[t].op]
  /\ UNCHANGED <<call, called, got, busy, target, scanner, asts, history>>

\* s_Busy = true;
SetBusy(t) ==
  /\ Goto(t, "set", IF call[t].op = "parse" THEN "target" ELSE "input")
  /\ busy' = [busy EXCEPT ![call[t].op] = TRUE]
  /\ overlap' = (overlap \/ \E u \in Threads : pc[u] \in Inside)
  /\ UNCHANGED <<call, called, got, target, scanner, asts, lost, broken>>

\* mon_TargetAst = outAst;
SetTarget(t) ==
  /\ Goto(t, "target", "input")
  /\ target' = call[t].file
  /\ UNCHANGED <<call, called, got, busy, scanner, asts, history>>

\* Mutant of SetInput: a scanner that still has text keeps its stream.
SetInputWhenEmpty(t) ==
  /\ Goto(t, "input", "scan")
  /\ yyin' = IF yyin = NULL THEN call[t].file ELSE yyin
  /\ UNCHANGED <<call, called, got, busy, target, buffer, read, asts, history>>

\* yyin = f;
SetInput(t) ==
  /\ Goto(t, "input", "scan")
  /\ yyin' = call[t].file
  /\ UNCHANGED <<call, called, got, busy, target, buffer, read, asts, history>>

-----------------------------------------------------------------------------
(* yyparse and the loop of Mon_DumpLex, both of which call yylex            *)

\* The buffer, refilled from yyin when it is empty; << >> is the end of input.
NextBlock(f) ==
  LET end == IF read[f] + BLOCK < Len(Content[f]) THEN read[f] + BLOCK ELSE Len(Content[f])
  IN  [i \in 1 .. end - read[f] |-> <<f, read[f] + i>>]
Available == IF buffer # << >> THEN buffer ELSE NextBlock(yyin)

\* yylex returns the next token.
Lex ==
  /\ Available # << >>
  /\ buffer' = Tail(Available)
  /\ read' = IF buffer # << >> THEN read ELSE [read EXCEPT ![yyin] = @ + Len(Available)]
  /\ UNCHANGED yyin

Token == Content[Head(Available)[1]][Head(Available)[2]]

\* Mutant of Definition: whatever comes is taken for a definition.
AnyDefinition(t) ==
  /\ pc[t] = "scan" /\ call[t].op = "parse"
  /\ Lex
  /\ got' = [got EXCEPT ![t] = Append(@, Head(Available))]
  /\ UNCHANGED <<pc, call, called, busy, target, asts, history>>

\* A definition is added to the group of definitions; that the group cannot
\* grow goes unnoticed.
Definition(t) ==
  /\ pc[t] = "scan" /\ call[t].op = "parse"
  /\ Lex /\ Token = "def"
  /\ \/ got' = [got EXCEPT ![t] = Append(@, Head(Available))] /\ UNCHANGED lost
     \/ lost' = lost \cup {Head(Available)} /\ UNCHANGED got
  /\ UNCHANGED <<pc, call, called, busy, target, asts, broken, overlap>>

\* yyparse gives up, at a syntax error or without memory for its stack.
GiveUp(t) ==
  /\ Goto(t, "scan", "clear") /\ call[t].op = "parse"
  /\ Lex
  /\ asts' = [asts EXCEPT ![call[t].file].state = "NONE"]
  /\ broken' = TRUE
  /\ UNCHANGED <<call, called, got, busy, target, lost, overlap>>

\* Mon_DumpLex prints a token, whatever it is.
PrintToken(t) ==
  /\ pc[t] = "scan" /\ call[t].op = "dump"
  /\ Lex
  /\ UNCHANGED <<caller, busy, target, asts, history>>

\* Mutant of EndOfInput: an empty buffer is taken for the end.
EndOfInputEarly(t) ==
  /\ Goto(t, "scan", IF call[t].op = "parse" THEN "accept" ELSE "clear")
  /\ buffer = << >> /\ read[yyin] > 0
  /\ UNCHANGED <<call, called, got, busy, target, scanner, asts, history>>

EndOfInput(t) ==
  /\ Goto(t, "scan", IF call[t].op = "parse" THEN "accept" ELSE "clear")
  /\ Available = << >>
  /\ UNCHANGED <<call, called, got, busy, target, scanner, asts, history>>

\* The rule "module": what was parsed goes to the AST mon_TargetAst is now.
Accept(t) ==
  /\ Goto(t, "accept", "end")
  /\ asts' = [asts EXCEPT ![target].defs = got[t]]
  /\ UNCHANGED <<call, called, got, busy, target, scanner, history>>

\* outAst->astState = MON_ASTSTATE_SYNTAX_OK;
Succeed(t) ==
  /\ Goto(t, "end", "clear")
  /\ asts' = [asts EXCEPT ![call[t].file].state = "SYNTAX_OK"]
  /\ UNCHANGED <<call, called, got, busy, target, scanner, history>>

Return(t) == call' = [call EXCEPT ![t] = NULL] /\ got' = [got EXCEPT ![t] = << >>]

\* Mutant of ClearBusy: a parse that failed returns before the flag is cleared.
ClearBusyOnSuccess(t) ==
  /\ Goto(t, "clear", "idle")
  /\ busy' = IF call[t].op = "parse" /\ asts[call[t].file].state = "NONE" THEN busy
              ELSE [busy EXCEPT ![call[t].op] = FALSE]
  /\ Return(t)
  /\ UNCHANGED <<called, target, scanner, asts, history>>

\* Mutant of ClearBusy: only a parse that failed clears the flag.
ClearBusyOnFailure(t) ==
  /\ Goto(t, "clear", "idle")
  /\ busy' = IF asts[call[t].file].state = "SYNTAX_OK" THEN busy
              ELSE [busy EXCEPT ![call[t].op] = FALSE]
  /\ Return(t)
  /\ UNCHANGED <<called, target, scanner, asts, history>>

\* s_Busy = false; the call returns.
ClearBusy(t) ==
  /\ Goto(t, "clear", "idle")
  /\ busy' = [busy EXCEPT ![call[t].op] = FALSE]
  /\ Return(t)
  /\ UNCHANGED <<called, target, scanner, asts, history>>

-----------------------------------------------------------------------------
Run(t) ==
  \/ Test(t) \/ SetBusy(t) \/ SetTarget(t) \/ SetInput(t)
  \/ Definition(t) \/ GiveUp(t) \/ PrintToken(t) \/ EndOfInput(t)
  \/ Accept(t) \/ Succeed(t) \/ ClearBusy(t)

\* Every stream was given to a call, and every call has returned.
Quiet == Files = called /\ (\A t \in Threads : pc[t] = "idle") /\ UNCHANGED vars

Next ==
  \/ \E t \in Threads, op \in {"parse", "dump"}, f \in Files : Begin(t, op, f)
  \/ \E t \in Threads : Run(t)
  \/ Quiet

\* A thread inside a call is scheduled again and again.
Spec == Init /\ [][Next]_vars /\ \A t \in Threads : WF_vars(Run(t))

-----------------------------------------------------------------------------
(* Properties                                                              *)

\* Every stream is read to its end at most, and what a thread holds is
\* definitions of the streams.
TypeOK ==
  /\ \A f \in Files : read[f] \in 0 .. Len(Content[f])
  /\ \A t \in Threads : \A i \in DOMAIN got[t] : Content[got[t][i][1]][got[t][i][2]] = "def"
  /\ \A f \in Files : asts[f].state \in {"NONE", "SYNTAX_OK"}
  /\ yyin \in Files \cup {NULL} /\ target \in Files \cup {NULL}

\* The definitions of a stream there was memory for.
Kept(f) == ({f} \X {i \in DOMAIN Content[f] : Content[f][i] = "def"}) \ lost
Elements(defs) == {defs[i] : i \in DOMAIN defs}
InOrder(defs) == \A i, j \in DOMAIN defs : i < j => defs[i][2] < defs[j][2]

\* An AST that was parsed with success has exactly the definitions of its own
\* stream, in their order, whichever calls came before it, as long as none of
\* them gave up and no two used the scanner at once: the end of a stream leaves
\* the scanner empty, for Mon_Parse and Mon_DumpLex alike.
OwnStream ==
  ~overlap /\ ~broken =>
    \A f \in Files : asts[f].state = "SYNTAX_OK" =>
      Elements(asts[f].defs) = Kept(f) /\ InOrder(asts[f].defs)

\* Also after calls that gave up, a successful parse misses nothing of its
\* stream: what it may have too much comes before.
NothingMissing ==
  ~overlap =>
    \A f \in Files : asts[f].state = "SYNTAX_OK" =>
      \E k \in 0 .. Len(asts[f].defs) :
        LET own == SubSeq(asts[f].defs, k + 1, Len(asts[f].defs))
        IN  Elements(own) = Kept(f) /\ InOrder(own)
=============================================================================
