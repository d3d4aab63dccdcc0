-------------------------------- MODULE Driver --------------------------------
(***************************************************************************)
(* The compiler's executable, src/src/exec/main.c: the scan of its         *)
(* arguments and, for each mode, the calls of the library it makes in      *)
(* order.  Every error ends the process; nothing is undone, so that it     *)
(* matters what was done before.                                           *)
(*                                                                         *)
(* The calls of Mon_Parse and Mon_DumpLex are those of Parser, by the one  *)
(* thread there is.  Analysis and code generation are their return codes.  *)
(***************************************************************************)
EXTENDS Integers, Sequences, FiniteSetsExt

CONSTANTS
  CommandLines,  \* what follows the program's name: sequences of arguments
  Content,       \* the files that can be opened, and what they hold
  LongNames,     \* names of 255 characters and more
  BLOCK, NULL    \* see Parser

Main == "main"
Modes == {"-l", "-p", "-r", "-s", "-o"}
Dashed == Modes \cup {"-x"}  \* arguments that start with a dash; -x is any other
ListModes == {"-s", "-o"}

ASSUME ArgumentsAreStrings == CommandLines \subseteq Seq(STRING)
ASSUME FilesAreText == \A f \in DOMAIN Content : Content[f] \in Seq({"def", "bad"})
ASSUME BlockIsPositive == BLOCK \in Nat \ {0}
ASSUME NullIsNoStatus == NULL \notin {"SUCCESS", "FAILURE"}
ASSUME NoModeIsAFile == Dashed \cap (DOMAIN Content \cup LongNames) = {}

VARIABLES
  argv,     \* the arguments
  at,       \* i of ParseArgs
  mode,     \* execMode: an element of Modes, or "NONE"
  inputs,   \* inputFilePath, or the inputFilePaths there are
  step,     \* what main does next; "exit" flushes the streams, "done" is over
  pos,      \* i of the loop over the inputs
  ret,      \* what Mon_SemAnalyseMultiple returned, or NULL
  outputs,  \* the files written, one for each input: what became of them
  status,   \* EXIT_SUCCESS or EXIT_FAILURE, or NULL
  \* the library: see Parser
  pc, call, called, got, busy, target, yyin, buffer, read, asts, lost, broken, overlap

P == INSTANCE Parser WITH Threads <- {Main}

arguments == <<argv, at, mode, inputs>>
progress == <<step, pos, ret>>
library == <<pc, call, called, got, busy, target, yyin, buffer, read, asts, lost, broken, overlap>>
vars == <<arguments, progress, outputs, status, library>>

Init ==
  /\ argv \in CommandLines
  /\ at = 1 /\ mode = "NONE" /\ inputs = << >>
  /\ step = "args" /\ pos = 1 /\ ret = NULL
  /\ outputs = << >> /\ status = NULL
  /\ P!Init

\* exit(code), or the return from main.
Exit(code) == step' = "exit" /\ status' = code
Goes(s) == step' = s /\ UNCHANGED status

-----------------------------------------------------------------------------
(* ParseArgs                                                                *)

IsFile(i) == i <= Len(argv) /\ argv[i] \notin Dashed

\* Mutant of ListEnds: the list goes on over what starts with a dash.
ListEndsAtLast(i, j) == j = Len(argv)

\* j is the last of the files that start at i.
ListEnds(i, j) == (\A k \in i .. j : IsFile(k)) /\ ~IsFile(j + 1)

Scans(args) == step = "args" /\ at <= Len(argv) /\ argv[at] \in args

NoArguments ==
  /\ step = "args" /\ argv = << >>
  /\ Exit("FAILURE")
  /\ UNCHANGED <<arguments, pos, ret, outputs, library>>

\* Mutant of SecondMode: the last mode counts.
SecondModeCounts ==
  /\ Scans(Modes) /\ mode # "NONE"
  /\ mode' = argv[at] /\ at' = at + 1
  /\ UNCHANGED <<argv, inputs, progress, outputs, status, library>>

\* ErrorOneExecMode
SecondMode ==
  /\ Scans(Modes) /\ mode # "NONE"
  /\ Exit("FAILURE")
  /\ UNCHANGED <<arguments, pos, ret, outputs, library>>

ModeWithoutFile ==
  /\ Scans(Modes) /\ mode = "NONE" /\ ~IsFile(at + 1)
  /\ Exit("FAILURE")
  /\ UNCHANGED <<argv, at, inputs, mode, pos, ret, outputs, library>>

ModeOfOneFile ==
  /\ Scans(Modes \ ListModes) /\ mode = "NONE" /\ IsFile(at + 1)
  /\ mode' = argv[at] /\ inputs' = <<argv[at + 1]>>
  /\ at' = at + 2
  /\ UNCHANGED <<argv, progress, outputs, status, library>>

\* The argument that ends the list is skipped by the ++i of the outer loop.
ModeOfFiles ==
  /\ Scans(ListModes) /\ mode = "NONE" /\ IsFile(at + 1)
  /\ mode' = argv[at]
  /\ \E j \in at + 1 .. Len(argv) :
       ListEnds(at + 1, j) /\ inputs' = SubSeq(argv, at + 1, j) /\ at' = j + 2
  /\ UNCHANGED <<argv, progress, outputs, status, library>>

\* What is neither a mode nor its file is ignored.
OtherArgument ==
  /\ step = "args" /\ at <= Len(argv) /\ argv[at] \notin Modes
  /\ at' = at + 1
  /\ UNCHANGED <<argv, mode, inputs, progress, outputs, status, library>>

\* Run: without a mode there is nothing to do.
RunMode ==
  /\ step = "args" /\ argv # << >> /\ at > Len(argv)
  /\ IF mode = "NONE" THEN Exit("SUCCESS") ELSE Goes("open")
  /\ UNCHANGED <<arguments, pos, ret, outputs, library>>

ParseArgs ==
  \/ NoArguments \/ SecondMode \/ ModeWithoutFile \/ ModeOfOneFile \/ ModeOfFiles
  \/ OtherArgument \/ RunMode

-----------------------------------------------------------------------------
(* RunLexDump, RunAstDump, RunReduceDump, RunSemTest and RunLLVMEmit: the    *)
(* inputs.  -o opens all of them first, -s one after the other.             *)

Input == inputs[pos]

\* Continue with the next input at step s, or go on to step last.
NextInput(s, last) ==
  IF pos < Len(inputs) THEN Goes(s) /\ pos' = pos + 1 ELSE Goes(last) /\ pos' = 1

CannotOpen ==
  /\ step = "open"
  /\ Input \notin DOMAIN Content \/ (mode = "-o" /\ Input \in LongNames)
  /\ Exit("FAILURE")
  /\ UNCHANGED <<arguments, pos, ret, outputs, library>>

Open ==
  /\ step = "open"
  /\ Input \in DOMAIN Content /\ ~(mode = "-o" /\ Input \in LongNames)
  /\ IF mode = "-o" THEN NextInput("open", "call") ELSE Goes("call") /\ UNCHANGED pos
  /\ UNCHANGED <<arguments, ret, outputs, library>>

\* The call of Mon_DumpLex or Mon_Parse
Call ==
  /\ step = "call"
  /\ P!Begin(Main, IF mode = "-l" THEN "dump" ELSE "parse", Input)
  /\ Goes("parse")
  /\ UNCHANGED <<arguments, pos, ret, outputs>>

\* A step of the call.  No definition is lost: Alloc exits when malloc fails.
Parse ==
  /\ step = "parse" /\ P!Run(Main) /\ UNCHANGED lost
  /\ UNCHANGED <<arguments, progress, outputs, status>>

Returned == step = "parse" /\ pc[Main] = "idle"
Parsed == asts[Input].state = "SYNTAX_OK"

\* RunLexDump and RunReduceDump: main returns, whatever came of the call.
DumpEnds ==
  /\ Returned /\ mode \in {"-l", "-r"}
  /\ Exit("SUCCESS")
  /\ UNCHANGED <<arguments, pos, ret, outputs, library>>

\* RunAstDump prints the tree or a message, and main returns.
AstDump ==
  /\ Returned /\ mode = "-p"
  /\ IF Parsed THEN Goes("dump") ELSE Exit("SUCCESS")
  /\ UNCHANGED <<arguments, pos, ret, outputs, library>>

DumpAst ==
  /\ step = "dump"
  /\ Exit("SUCCESS")
  /\ UNCHANGED <<arguments, pos, ret, outputs, library>>

\* Mutant of ParseEnds: the driver goes on with the files that parse.
ParseEndsAnyhow ==
  /\ Returned /\ mode \in ListModes
  /\ NextInput(IF mode = "-s" THEN "open" ELSE "call", "analyse")
  /\ UNCHANGED <<arguments, ret, outputs, library>>

\* A file that does not parse ends the program.
ParseEnds ==
  /\ Returned /\ mode \in ListModes
  /\ IF Parsed THEN NextInput(IF mode = "-s" THEN "open" ELSE "call", "analyse")
     ELSE Exit("FAILURE") /\ UNCHANGED pos
  /\ UNCHANGED <<arguments, ret, outputs, library>>

-----------------------------------------------------------------------------
(* Analysis and code generation                                             *)

Analyse ==
  /\ step = "analyse"
  /\ ret' \in {"SUCCESS", "SEMANTIC"}
  /\ IF ret' # "SUCCESS" THEN Exit("FAILURE")
     ELSE IF mode = "-s" THEN Exit("SUCCESS") ELSE Goes("emit")
  /\ UNCHANGED <<arguments, pos, outputs, library>>

\* fopen(buf, "w")
CannotWrite ==
  /\ step = "emit"
  /\ Exit("FAILURE")
  /\ UNCHANGED <<arguments, pos, ret, outputs, library>>

\* Mutant of Generate: the return code of Mon_GenerateLLVM is not looked at.
GenerateAnyhow ==
  /\ step = "emit"
  /\ \E became \in {"generated", "partial"} : outputs' = Append(outputs, became)
  /\ IF pos < Len(inputs) THEN Goes("emit") /\ pos' = pos + 1 ELSE Exit("SUCCESS") /\ UNCHANGED pos
  /\ UNCHANGED <<arguments, ret, library>>

\* The stream is left open: a part of the text may still be in its buffer.
Generate ==
  /\ step = "emit"
  /\ outputs' = Append(outputs, "generated")
  /\ IF pos < Len(inputs) THEN Goes("emit") /\ pos' = pos + 1
     ELSE Exit("SUCCESS") /\ UNCHANGED pos
  /\ UNCHANGED <<arguments, ret, library>>

\* Mon_GenerateLLVM fails, or runs out of memory, half way.
GenerateFails ==
  /\ step = "emit"
  /\ outputs' = Append(outputs, "partial")
  /\ Exit("FAILURE")
  /\ UNCHANGED <<arguments, pos, ret, library>>

-----------------------------------------------------------------------------
\* Alloc, AllocZero and ReAlloc exit when there is no memory.
OutOfMemory ==
  /\ step \notin {"args", "exit", "done"}
  /\ Exit("FAILURE")
  /\ UNCHANGED <<arguments, pos, ret, outputs, library>>

\* exit writes what the open streams still hold; nobody sees that it fails.
Flush ==
  /\ step = "exit" /\ Goes("done")
  /\ \E cut \in SUBSET DOMAIN outputs :
       outputs' = [i \in DOMAIN outputs |-> IF i \in cut THEN "partial" ELSE outputs[i]]
  /\ UNCHANGED <<arguments, pos, ret, library>>

Done == step = "done" /\ UNCHANGED vars

Work ==
  \/ ParseArgs
  \/ CannotOpen \/ Open \/ Call \/ Parse \/ DumpEnds \/ AstDump \/ DumpAst \/ ParseEnds
  \/ Analyse \/ CannotWrite \/ Generate \/ GenerateFails
  \/ Flush

Next == Work \/ OutOfMemory \/ Done

\* One thread, which keeps running; that memory runs out is not relied upon.
Spec == Init /\ [][Next]_vars /\ WF_vars(Work)

-----------------------------------------------------------------------------
(* Reference: what a command line asks for, whatever the order of the scan   *)

ModesAt == {i \in DOMAIN argv : argv[i] \in Modes}
First == Min(ModesAt)

\* The arguments that belong to the mode at i.
Own(i) ==
  IF argv[i] \in ListModes
  THEN {j \in DOMAIN argv : j > i /\ \A k \in i + 1 .. j : IsFile(k)}
  ELSE {j \in DOMAIN argv : j = i + 1 /\ IsFile(j)}

\* The one argument that nobody looks at: what ends a list of files.
Unseen == IF argv[First] \in ListModes THEN {Max(Own(First)) + 1} ELSE {}

Asked ==
  ModesAt # {} => /\ Own(First) # {}
                  /\ ModesAt \subseteq {First} \cup Unseen

-----------------------------------------------------------------------------
(* Properties                                                               *)

\* The files to work on are arguments that start with no dash, there is an
\* output for none but them, and a status once the program has come to its end.
TypeOK ==
  /\ mode \in Modes \cup {"NONE"}
  /\ \A i \in DOMAIN inputs : inputs[i] \notin Dashed
  /\ step \in {"args", "open", "call", "parse", "dump", "analyse", "emit", "exit", "done"}
  /\ inputs # << >> => pos \in DOMAIN inputs
  /\ Len(outputs) <= Len(inputs)
  /\ status \in {"SUCCESS", "FAILURE", NULL}
  /\ status # NULL <=> step \in {"exit", "done"}

\* main.c: "Error to be thrown when more than one execution mode has been
\* specified".  The program starts to work exactly on the command lines with
\* one mode and with a file for it, on all the files behind it in their order;
\* but a second mode directly behind a list of files is not seen.  This is what
\* the code does and scripts/bash/domonga:62 relies on, and against readme.md:39,
\* "monga -o <programOutputPath> <mongaSource1>": no argument names an output,
\* and the first path behind -o is a source that is read like the others.
ArgumentsHonoured ==
  step # "args" =>
    /\ inputs # << >> /\ status # "FAILURE" => Asked
    /\ step \notin {"exit", "done"} =>
         /\ ModesAt # {} /\ Asked
         /\ mode = argv[First]
         /\ inputs = [k \in 1 .. Cardinality(Own(First)) |-> argv[First + k]]
    /\ status = "FAILURE" /\ ModesAt # {} /\ Asked => inputs # << >>

\* A tree that is printed, analysed or translated has the definitions of its
\* own file, all and no others: that the scanner keeps text after a parse that
\* gave up does no harm, as no program parses anything after one.
OwnDefinitions ==
  step \in {"dump", "analyse", "emit"} =>
    \A i \in DOMAIN inputs :
      /\ asts[inputs[i]].state = "SYNTAX_OK"
      /\ asts[inputs[i]].defs = [k \in DOMAIN Content[inputs[i]] |-> <<inputs[i], k>>]

\* Nothing is written unless every file was parsed and the analysis succeeded;
\* only the last output can be a half one, until exit writes the buffers; and a
\* program that ends with success has one for every file.
OutputsAreWhole ==
  /\ outputs # << >> => ret = "SUCCESS" /\ \A i \in DOMAIN inputs : asts[inputs[i]].state = "SYNTAX_OK"
  /\ step # "done" => \A i \in DOMAIN outputs :
       outputs[i] = "partial" => i = Len(outputs) /\ status = "FAILURE"
  /\ mode = "-o" /\ status = "SUCCESS" => Len(outputs) = Len(inputs)
===============================================================================
