----------------------------- MODULE DriverProofs -----------------------------
(***************************************************************************)
(* Driver for every set of command lines, whatever files there are and     *)
(* whatever they hold, and for every size of the scanner's blocks: what it *)
(* analyses and translates is its files, and what it writes is whole.      *)
(***************************************************************************)
EXTENDS Driver, Lemmas, FiniteSetTheorems

Files == DOMAIN Content

\* All the definitions of f.
Whole(f) == [k \in DOMAIN Content[f] |-> <<f, k>>]

Good(f) == asts[f].state = "SYNTAX_OK" /\ asts[f].defs = Whole(f)

-----------------------------------------------------------------------------
(* The strengthening: the program's own state                               *)

Working == {"open", "call", "parse", "dump", "analyse", "emit"}

ControlType ==
  /\ argv \in Seq(STRING) /\ at \in Nat
  /\ mode \in Modes \cup {"NONE"}
  /\ inputs \in Seq(STRING)
  /\ step \in Working \cup {"args", "exit", "done"}
  /\ pos \in Nat /\ pos > 0
  /\ outputs \in Seq({"generated", "partial"})

ControlInv ==
  /\ ControlType
  /\ step = "args" => pos = 1
  /\ step \in Working => mode \in Modes /\ pos <= Len(inputs)
  /\ mode \in Modes => Len(inputs) > 0
  /\ mode \in Modes \ ListModes => Len(inputs) = 1
  /\ step = "dump" => mode = "-p"
  /\ step = "analyse" => mode \in ListModes /\ pos = 1
  /\ step = "emit" => mode = "-o" /\ ret = "SUCCESS" /\ Len(outputs) = pos - 1

OutputInv ==
  /\ outputs # << >> => /\ step \in {"emit", "exit", "done"}
                        /\ mode = "-o" /\ ret = "SUCCESS"
  /\ step \in Working \cup {"args"} =>
       status = NULL /\ \A i \in 1 .. Len(outputs) : outputs[i] = "generated"
  /\ step # "done" => \A i \in 1 .. Len(outputs) :
       outputs[i] = "partial" => i = Len(outputs) /\ status = "FAILURE"
  /\ mode = "-o" /\ status = "SUCCESS" => Len(outputs) = Len(inputs)

-----------------------------------------------------------------------------
(* The strengthening: the library                                           *)

LibraryType ==
  /\ pc = [t \in {Main} |-> pc[Main]]
  /\ call = [t \in {Main} |-> call[Main]]
  /\ got = [t \in {Main} |-> got[Main]]
  /\ read \in [Files -> Nat]
  /\ asts = [f \in Files |-> [state |-> asts[f].state, defs |-> asts[f].defs]]
  /\ called \subseteq Files
  /\ lost = {}
  /\ \A f \in Files \ called : read[f] = 0

\* Between two calls the scanner holds nothing.
Between ==
  /\ pc[Main] = "idle" /\ ~broken
  /\ buffer = << >> /\ got[Main] = << >>

\* During a call the scanner holds what comes behind the definitions that
\* yyparse has, and the text of no other file.
InCall(f) ==
  /\ pc[Main] \in {"wait", "set", "target", "input", "scan", "accept", "end", "clear"}
  /\ call[Main] = [op |-> "parse", file |-> f]
  /\ broken <=> pc[Main] = "clear" /\ asts[f].state = "NONE"
  /\ pc[Main] \in {"wait", "set", "target", "input"} =>
       buffer = << >> /\ got[Main] = << >> /\ read[f] = 0
  /\ pc[Main] \in {"input", "scan", "accept"} => target = f
  /\ pc[Main] = "scan" =>
       /\ yyin = f
       /\ read[f] <= Len(Content[f])
       /\ \E n, m \in Nat :
            n + m = read[f] /\ got[Main] = Piece(f, 0, n) /\ buffer = Piece(f, n, m)
  /\ pc[Main] = "accept" => buffer = << >> /\ got[Main] = Whole(f)
  /\ pc[Main] = "end" => buffer = << >> /\ asts[f].defs = Whole(f)
  /\ pc[Main] = "clear" /\ ~broken => buffer = << >> /\ Good(f)

\* A call has returned.
Back(f) ==
  /\ pc[Main] = "idle" /\ got[Main] = << >>
  /\ IF broken THEN asts[f].state = "NONE" ELSE buffer = << >> /\ Good(f)

\* The inputs before pos are parsed.
Behind == \A i \in 1 .. pos - 1 : inputs[i] \in called /\ Good(inputs[i])

\* -o opens all the inputs before it parses the first.
Opened ==
  /\ step = "open" /\ mode = "-o" => \A i \in 1 .. pos - 1 : inputs[i] \in Files
  /\ step \in {"call", "parse"} =>
       IF mode = "-o" THEN \A i \in 1 .. Len(inputs) : inputs[i] \in Files ELSE Input \in Files

LibraryInv ==
  /\ LibraryType
  /\ Opened
  /\ step \in {"args", "open", "call"} => Between
  /\ step = "open" => mode = "-o" \/ Behind
  /\ step = "call" => Behind
  /\ step = "parse" =>
       /\ InCall(Input) \/ Back(Input)
       /\ Input \in called
       /\ Behind /\ \A i \in 1 .. pos - 1 : inputs[i] # Input
  /\ step \in {"dump", "analyse", "emit"} \/ outputs # << >> =>
       \A i \in 1 .. Len(inputs) : Good(inputs[i])

DriverInv == ControlInv /\ OutputInv /\ (mode = "-l" \/ LibraryInv)

-----------------------------------------------------------------------------
(* The steps of a call on f                                                 *)

\* What a step of a call on f leaves behind it.
Stepped(f) ==
  /\ LibraryType'
  /\ InCall(f)' \/ Back(f)'
  /\ called' = called
  /\ \A g \in Files \ {f} : asts'[g] = asts[g]

(* A step that changes nothing but where the call is keeps the types.       *)
LEMMA MoveKeepsTypes ==
  ASSUME LibraryType, NEW to, pc' = [pc EXCEPT ![Main] = to],
         UNCHANGED <<call, called, got, read, asts, lost>>
  PROVE  LibraryType' /\ pc'[Main] = to
BY DEF LibraryType

(* Steps that move the call on and read nothing.                            *)
LEMMA QuietSteps ==
  ASSUME LibraryType, NEW f \in Files, f \in called, InCall(f), UNCHANGED lost,
         P!Test(Main) \/ P!SetBusy(Main) \/ P!SetTarget(Main) \/ P!SetInput(Main)
  PROVE  Stepped(f)
<1> USE DEF P!caller, P!scanner, P!history
<1>1. CASE P!Test(Main)
  <2>1. P!Goto(Main, "wait", "set") /\ UNCHANGED <<call, called, got, buffer, read, asts, broken, lost>>
    BY <1>1 DEF P!Test
  <2>2. LibraryType' /\ pc[Main] = "wait" /\ pc'[Main] = "set"
    BY <2>1, MoveKeepsTypes DEF P!Goto
  <2>3. InCall(f)'
    BY <2>1, <2>2 DEF InCall
  <2> QED  BY <2>1, <2>2, <2>3 DEF Stepped
<1>2. CASE P!SetBusy(Main)
  <2>1. P!Goto(Main, "set", "target") /\ UNCHANGED <<call, called, got, buffer, read, asts, broken, lost>>
    BY <1>2 DEF P!SetBusy, InCall
  <2>2. LibraryType' /\ pc[Main] = "set" /\ pc'[Main] = "target"
    BY <2>1, MoveKeepsTypes DEF P!Goto
  <2>3. InCall(f)'
    BY <2>1, <2>2 DEF InCall
  <2> QED  BY <2>1, <2>2, <2>3 DEF Stepped
<1>3. CASE P!SetTarget(Main)
  <2>1. P!Goto(Main, "target", "input") /\ UNCHANGED <<call, called, got, buffer, read, asts, broken, lost>>
    BY <1>3 DEF P!SetTarget
  <2>2. LibraryType' /\ pc[Main] = "target" /\ pc'[Main] = "input"
    BY <2>1, MoveKeepsTypes DEF P!Goto
  <2>3. target' = f
    BY <1>3 DEF P!SetTarget, InCall
  <2>4. InCall(f)'
    BY <2>1, <2>2, <2>3 DEF InCall
  <2> QED  BY <2>1, <2>2, <2>4 DEF Stepped
<1>4. CASE P!SetInput(Main)
  <2>1. /\ P!Goto(Main, "input", "scan")
        /\ UNCHANGED <<call, called, got, buffer, read, asts, broken, lost, target>>
    BY <1>4 DEF P!SetInput
  <2>2. LibraryType' /\ pc[Main] = "input" /\ pc'[Main] = "scan"
    BY <2>1, MoveKeepsTypes DEF P!Goto
  <2>3. yyin' = f /\ target' = f
    BY <1>4, <2>1, <2>2 DEF P!SetInput, InCall
  <2>4. read[f] = 0 /\ got[Main] = Piece(f, 0, 0) /\ buffer = Piece(f, 0, 0)
    BY <2>2, PieceLen DEF InCall
  <2>5. Len(Content[f]) >= 0
    BY FilesAreText, LenProperties DEF Files
  <2>6. InCall(f)'
    BY <2>1, <2>2, <2>3, <2>4, <2>5 DEF InCall
  <2> QED  BY <2>1, <2>2, <2>6 DEF Stepped
<1> QED  BY <1>1, <1>2, <1>3, <1>4

-----------------------------------------------------------------------------
(* The scanner                                                              *)

(* What yylex scans next is a piece of f, empty only at the end of f.       *)
LEMMA RefillIsPiece ==
  ASSUME NEW f \in Files, NEW n \in Nat, NEW m \in Nat,
         yyin = f, read[f] = n + m, n + m <= Len(Content[f]), buffer = Piece(f, n, m)
  PROVE  \E k \in Nat : /\ P!Available = Piece(f, n, k)
                        /\ n + k <= Len(Content[f])
                        /\ k = 0 => n = Len(Content[f])
                        /\ buffer # << >> => k = m
<1>1. CASE buffer # << >>
  <2>1. m # 0 /\ P!Available = Piece(f, n, m)
    BY <1>1, PieceLen DEF P!Available
  <2> QED  BY <2>1
<1>2. CASE buffer = << >>
  <2>1. m = 0
    BY <1>2, PieceLen, ZenonT(40)
  <2> DEFINE last == IF read[f] + BLOCK < Len(Content[f]) THEN read[f] + BLOCK ELSE Len(Content[f])
             k == last - n
  <2>2. Len(Content[f]) \in Nat /\ BLOCK \in Nat /\ BLOCK > 0
    BY FilesAreText, BlockIsPositive, LenProperties DEF Files
  <2>3. k \in Nat /\ n + k <= Len(Content[f]) /\ (k = 0 => n = Len(Content[f]))
    BY <2>1, <2>2
  <2>4. P!NextBlock(f) = Piece(f, n, k)
    BY <2>1 DEF P!NextBlock, Piece
  <2>5. P!Available = Piece(f, n, k)
    BY <1>2, <2>4 DEF P!Available
  <2> HIDE DEF k
  <2> QED  BY <1>2, <2>3, <2>5
<1> QED  BY <1>1, <1>2

(* yylex takes the first of it.                                             *)
LEMMA LexTakesNext ==
  ASSUME NEW f \in Files, NEW n \in Nat, NEW m \in Nat,
         yyin = f, read \in [Files -> Nat], read[f] = n + m, n + m <= Len(Content[f]),
         buffer = Piece(f, n, m), P!Lex
  PROVE  \E k \in Nat : /\ Head(P!Available) = <<f, n + 1>>
                        /\ buffer' = Piece(f, n + 1, k)
                        /\ n + 1 + k <= Len(Content[f])
                        /\ read' = [read EXCEPT ![f] = n + 1 + k]
<1>1. PICK j \in Nat : /\ P!Available = Piece(f, n, j)
                       /\ n + j <= Len(Content[f])
                       /\ buffer # << >> => j = m
  BY RefillIsPiece
<1>2. P!Available # << >> /\ buffer' = Tail(P!Available)
      /\ read' = IF buffer # << >> THEN read ELSE [read EXCEPT ![yyin] = @ + Len(P!Available)]
  BY DEF P!Lex
<1>3. j > 0 /\ Len(P!Available) = j
  <2>1. j # 0 /\ Len(P!Available) = j
    BY <1>1, <1>2, PieceLen
  <2> QED  BY <2>1
<1>4. Head(P!Available) = <<f, n + 1>> /\ buffer' = Piece(f, n + 1, j - 1)
  BY <1>1, <1>2, <1>3, PieceTail
<1>5. read' = [read EXCEPT ![f] = n + j]
  <2>1. CASE buffer # << >>
    <3>1. read' = read /\ j = m  BY <2>1, <1>1, <1>2
    <3>2. read = [read EXCEPT ![f] = read[f]]  OBVIOUS
    <3> QED  BY <3>1, <3>2
  <2>2. CASE buffer = << >>
    <3>1. m = 0  BY <2>2, PieceLen, ZenonT(40)
    <3>2. read' = [read EXCEPT ![f] = read[f] + j]  BY <2>2, <1>2, <1>3
    <3> QED  BY <3>1, <3>2
  <2> QED  BY <2>1, <2>2
<1>6. j - 1 \in Nat /\ n + 1 + (j - 1) = n + j
  BY <1>3
<1> QED  BY <1>1, <1>4, <1>5, <1>6

-----------------------------------------------------------------------------
(* The remaining steps of a call on f                                       *)

(* What both kinds of steps that scan a token do to the scanner.            *)
LEMMA ScanStep ==
  ASSUME LibraryType, NEW f \in Files, f \in called, InCall(f), pc[Main] = "scan",
         P!Lex, called' = called
  PROVE  \E n, k \in Nat :
           /\ got[Main] = Piece(f, 0, n)
           /\ Head(P!Available) = <<f, n + 1>>
           /\ buffer' = Piece(f, n + 1, k)
           /\ n + 1 + k <= Len(Content[f])
           /\ read'[f] = n + 1 + k
           /\ read' \in [Files -> Nat]
           /\ \A g \in Files \ called' : read'[g] = 0
<1>1. PICK n, m \in Nat : /\ n + m = read[f]
                          /\ got[Main] = Piece(f, 0, n)
                          /\ buffer = Piece(f, n, m)
  BY DEF InCall
<1>2. yyin = f /\ read[f] <= Len(Content[f]) /\ read \in [Files -> Nat]
  BY DEF InCall, LibraryType
<1>3. PICK k \in Nat : /\ Head(P!Available) = <<f, n + 1>>
                       /\ buffer' = Piece(f, n + 1, k)
                       /\ n + 1 + k <= Len(Content[f])
                       /\ read' = [read EXCEPT ![f] = n + 1 + k]
  BY <1>1, <1>2, LexTakesNext, ZenonT(40)
<1>4. read' \in [Files -> Nat] /\ read'[f] = n + 1 + k
  BY <1>2, <1>3
<1>5. \A g \in Files \ called' : read'[g] = 0
  BY <1>2, <1>3 DEF LibraryType
<1> QED  BY <1>1, <1>3, <1>4, <1>5

(* A definition is put behind those before it.                              *)
LEMMA DefinitionStep ==
  ASSUME LibraryType, NEW f \in Files, f \in called, InCall(f), UNCHANGED lost,
         P!Definition(Main)
  PROVE  Stepped(f)
<1> USE DEF P!caller, P!scanner, P!history
<1>1. /\ pc[Main] = "scan" /\ P!Lex
      /\ UNCHANGED <<pc, call, called, target, asts, broken, yyin>>
  BY DEF P!Definition, P!Lex
<1>2. PICK n, k \in Nat :
        /\ got[Main] = Piece(f, 0, n)
        /\ Head(P!Available) = <<f, n + 1>>
        /\ buffer' = Piece(f, n + 1, k)
        /\ n + 1 + k <= Len(Content[f])
        /\ read'[f] = n + 1 + k
        /\ read' \in [Files -> Nat]
        /\ \A g \in Files \ called' : read'[g] = 0
  BY <1>1, ScanStep
<1>3. got' = [got EXCEPT ![Main] = Append(@, <<f, n + 1>>)]
  BY <1>2 DEF P!Definition, LibraryType
<1>4. got'[Main] = Piece(f, 0, n + 1) /\ got' = [t \in {Main} |-> got'[Main]]
  <2>1. got = [t \in {Main} |-> got[Main]]
    BY DEF LibraryType
  <2>2. got'[Main] = Append(got[Main], <<f, n + 1>>) /\ got' = [t \in {Main} |-> got'[Main]]
    BY <1>3, <2>1
  <2> QED  BY <1>2, <2>2, PieceAppend
<1>5. LibraryType'
  BY <1>1, <1>2, <1>4 DEF LibraryType
<1>6. InCall(f)'
  <2>1. n + 1 \in Nat /\ (n + 1) + k = read'[f]
    BY <1>2
  <2>2. \E i, j \in Nat :
          i + j = read'[f] /\ got'[Main] = Piece(f, 0, i) /\ buffer' = Piece(f, i, j)
    BY <1>2, <1>4, <2>1
  <2>3. pc'[Main] = "scan" /\ read'[f] <= Len(Content[f])
    BY <1>1, <1>2
  <2> QED  BY <1>1, <2>2, <2>3 DEF InCall
<1> QED  BY <1>1, <1>5, <1>6 DEF Stepped

(* yyparse gives up: the call is marked as broken.                          *)
LEMMA GiveUpStep ==
  ASSUME LibraryType, NEW f \in Files, f \in called, InCall(f), UNCHANGED lost,
         P!GiveUp(Main)
  PROVE  Stepped(f)
<1> USE DEF P!caller, P!scanner, P!history
<1>1. /\ pc[Main] = "scan" /\ pc' = [pc EXCEPT ![Main] = "clear"] /\ P!Lex
      /\ UNCHANGED <<call, called, got, target>>
      /\ broken' = TRUE
  BY DEF P!GiveUp, P!Goto
<1>2. PICK n, k \in Nat :
        /\ read' \in [Files -> Nat]
        /\ \A g \in Files \ called' : read'[g] = 0
  BY <1>1, ScanStep
<1>3. asts' = [asts EXCEPT ![f].state = "NONE"]
  BY DEF P!GiveUp, InCall
<1>4. asts = [g \in Files |-> [state |-> asts[g].state, defs |-> asts[g].defs]]
  BY DEF LibraryType
<1>5. /\ asts'[f].state = "NONE"
      /\ \A g \in Files \ {f} : asts'[g] = asts[g]
      /\ asts' = [g \in Files |-> [state |-> asts'[g].state, defs |-> asts'[g].defs]]
  BY <1>3, <1>4
<1>6. pc'[Main] = "clear" /\ pc' = [t \in {Main} |-> pc'[Main]]
  BY <1>1 DEF LibraryType
<1>7. LibraryType'
  BY <1>1, <1>2, <1>5, <1>6 DEF LibraryType
<1>8. InCall(f)'
  BY <1>1, <1>5, <1>6 DEF InCall
<1> QED  BY <1>1, <1>5, <1>7, <1>8 DEF Stepped

(* At the end of its input, yyparse has all the definitions of the file.    *)
LEMMA EndOfInputStep ==
  ASSUME LibraryType, NEW f \in Files, f \in called, InCall(f), UNCHANGED lost,
         P!EndOfInput(Main)
  PROVE  Stepped(f)
<1> USE DEF P!caller, P!scanner, P!history
<1>1. /\ pc[Main] = "scan" /\ pc' = [pc EXCEPT ![Main] = "accept"]
      /\ P!Available = << >>
      /\ UNCHANGED <<call, called, got, target, buffer, read, yyin, asts, broken>>
  BY DEF P!EndOfInput, P!Goto, InCall
<1>2. PICK n, m \in Nat : /\ n + m = read[f]
                          /\ got[Main] = Piece(f, 0, n)
                          /\ buffer = Piece(f, n, m)
  BY <1>1 DEF InCall
<1>3. yyin = f /\ n + m <= Len(Content[f])
  BY <1>1, <1>2 DEF InCall
<1>4. PICK k \in Nat : P!Available = Piece(f, n, k) /\ (k = 0 => n = Len(Content[f]))
  BY <1>2, <1>3, RefillIsPiece, ZenonT(40)
<1>5. n = Len(Content[f])
  <2>1. Piece(f, n, k) = << >>
    BY <1>1, <1>4
  <2>2. k = 0
    BY <2>1, PieceLen
  <2> QED  BY <1>4, <2>2
<1>6. buffer = << >>
  BY <1>1 DEF P!Available
<1>7. got[Main] = Whole(f)
  <2>1. DOMAIN Content[f] = 1 .. n
    BY <1>5, FilesAreText, LenProperties DEF Files
  <2> QED  BY <1>2, <2>1 DEF Whole, Piece
<1>8. LibraryType' /\ pc'[Main] = "accept"
  BY <1>1, MoveKeepsTypes
<1>9. InCall(f)'
  BY <1>1, <1>6, <1>7, <1>8 DEF InCall, Whole
<1> QED  BY <1>1, <1>8, <1>9 DEF Stepped

(* The module's definitions go to the tree of f, which is then marked.      *)
LEMMA AcceptStep ==
  ASSUME LibraryType, NEW f \in Files, f \in called, InCall(f), UNCHANGED lost,
         P!Accept(Main) \/ P!Succeed(Main)
  PROVE  Stepped(f)
<1> USE DEF P!caller, P!scanner, P!history
<1>1. asts = [g \in Files |-> [state |-> asts[g].state, defs |-> asts[g].defs]]
  BY DEF LibraryType
<1>2. CASE P!Accept(Main)
  <2>1. /\ pc[Main] = "accept" /\ pc' = [pc EXCEPT ![Main] = "end"]
        /\ UNCHANGED <<call, called, got, target, buffer, read, broken>>
    BY <1>2 DEF P!Accept, P!Goto
  <2>2. asts' = [asts EXCEPT ![f].defs = Whole(f)]
    BY <1>2, <2>1 DEF P!Accept, InCall
  <2>3. /\ asts'[f].defs = Whole(f)
        /\ \A g \in Files \ {f} : asts'[g] = asts[g]
        /\ asts' = [g \in Files |-> [state |-> asts'[g].state, defs |-> asts'[g].defs]]
    BY <1>1, <2>2
  <2>4. pc'[Main] = "end" /\ pc' = [t \in {Main} |-> pc'[Main]]
    BY <2>1 DEF LibraryType
  <2>5. LibraryType'
    BY <2>1, <2>3, <2>4 DEF LibraryType
  <2>6. InCall(f)'
    BY <2>1, <2>3, <2>4 DEF InCall, Whole
  <2> QED  BY <2>1, <2>3, <2>5, <2>6 DEF Stepped
<1>3. CASE P!Succeed(Main)
  <2>1. /\ pc[Main] = "end" /\ pc' = [pc EXCEPT ![Main] = "clear"]
        /\ UNCHANGED <<call, called, got, target, buffer, read, broken>>
    BY <1>3 DEF P!Succeed, P!Goto
  <2>2. asts' = [asts EXCEPT ![f].state = "SYNTAX_OK"]
    BY <1>3 DEF P!Succeed, InCall
  <2>3. /\ asts'[f].state = "SYNTAX_OK" /\ asts'[f].defs = asts[f].defs
        /\ \A g \in Files \ {f} : asts'[g] = asts[g]
        /\ asts' = [g \in Files |-> [state |-> asts'[g].state, defs |-> asts'[g].defs]]
    BY <1>1, <2>2
  <2>4. pc'[Main] = "clear" /\ pc' = [t \in {Main} |-> pc'[Main]]
    BY <2>1 DEF LibraryType
  <2>5. LibraryType'
    BY <2>1, <2>3, <2>4 DEF LibraryType
  <2>6. Whole(f)' = Whole(f) /\ asts[f].defs = Whole(f) /\ buffer = << >> /\ ~broken
    BY <2>1 DEF InCall, Whole
  <2>7. InCall(f)'
    BY <2>1, <2>3, <2>4, <2>6 DEF InCall, Good
  <2> QED  BY <2>1, <2>3, <2>5, <2>7 DEF Stepped
<1> QED  BY <1>2, <1>3

(* The call returns.                                                        *)
LEMMA ClearBusyStep ==
  ASSUME LibraryType, NEW f \in Files, f \in called, InCall(f), UNCHANGED lost,
         P!ClearBusy(Main)
  PROVE  Stepped(f)
<1> USE DEF P!caller, P!scanner, P!history
<1>1. /\ pc[Main] = "clear" /\ pc' = [pc EXCEPT ![Main] = "idle"]
      /\ call' = [call EXCEPT ![Main] = NULL] /\ got' = [got EXCEPT ![Main] = << >>]
      /\ UNCHANGED <<called, buffer, read, asts, broken>>
  BY DEF P!ClearBusy, P!Return, P!Goto
<1>2. /\ pc'[Main] = "idle" /\ pc' = [t \in {Main} |-> pc'[Main]]
      /\ call' = [t \in {Main} |-> call'[Main]]
      /\ got'[Main] = << >> /\ got' = [t \in {Main} |-> got'[Main]]
  BY <1>1 DEF LibraryType
<1>3. LibraryType'
  BY <1>1, <1>2 DEF LibraryType
<1>4. Back(f)'
  BY <1>1, <1>2 DEF InCall, Back, Good, Whole
<1> QED  BY <1>1, <1>3, <1>4 DEF Stepped

(* Every step of a call on f.                                               *)
LEMMA CallSteps ==
  ASSUME LibraryType, NEW f \in Files, f \in called, InCall(f), UNCHANGED lost, P!Run(Main)
  PROVE  Stepped(f)
<1>1. ~P!PrintToken(Main)
  BY DEF InCall, P!PrintToken
<1> QED
  BY <1>1, QuietSteps, DefinitionStep, GiveUpStep, EndOfInputStep, AcceptStep, ClearBusyStep
  DEF P!Run

-----------------------------------------------------------------------------
(* The steps of the program                                                 *)

(* What only looks at the library leaves its part of the invariant, if it   *)
(* keeps the arguments too.                                                 *)
LEMMA LibraryKept ==
  ASSUME UNCHANGED library
  PROVE  /\ LibraryType => LibraryType'
         /\ Between => Between'
         /\ \A f : Good(f) => Good(f)'
         /\ called' = called
BY DEF library, LibraryType, Between, Good, Whole

(* The program starts with nothing parsed and nothing in the scanner.       *)
LEMMA InitHolds ==
  ASSUME Init
  PROVE  DriverInv
<1>1. argv \in Seq(STRING)
  BY ArgumentsAreStrings DEF Init
<1>2. ControlInv
  BY <1>1, NullIsNoStatus DEF Init, ControlInv, ControlType, Modes, ListModes, Working
<1>3. OutputInv
  BY NullIsNoStatus DEF Init, OutputInv
<1>4. LibraryInv
  BY DEF Init, P!Init, LibraryInv, LibraryType, Between, Opened, P!Files, Files
<1> QED  BY <1>2, <1>3, <1>4 DEF DriverInv

(* ParseArgs                                                                *)
LEMMA ParseArgsStep ==
  ASSUME DriverInv, ParseArgs
  PROVE  DriverInv'
<1> USE DEF DriverInv, arguments, progress, Exit, Goes
<1>1. /\ step = "args" /\ UNCHANGED <<argv, pos, ret, outputs, library>>
  BY DEF ParseArgs, NoArguments, SecondMode, ModeWithoutFile, ModeOfOneFile, ModeOfFiles,
         OtherArgument, RunMode, Scans
<1>2. /\ outputs = << >> /\ pos = 1
  BY <1>1 DEF ControlInv, OutputInv, Working
<1>3. argv \in Seq(STRING) /\ Len(argv) \in Nat /\ at \in Nat
  BY LenProperties DEF ControlInv, ControlType
<1>4. CASE step' = "args" /\ UNCHANGED <<mode, inputs, status>> /\ at' = at + 1
  <2>1. ControlInv'
    BY <1>1, <1>3, <1>4 DEF ControlInv, ControlType, Working
  <2>2. OutputInv'
    BY <1>1, <1>2, <1>4 DEF OutputInv, Working
  <2>3. LibraryInv => LibraryInv'
    BY <1>1, <1>2, <1>4, LibraryKept DEF LibraryInv, Opened
  <2> QED  BY <1>4, <2>1, <2>2, <2>3
<1>5. CASE step' = "exit" /\ UNCHANGED arguments /\ (status' = "SUCCESS" => mode = "NONE")
  <2>1. ControlInv'
    BY <1>1, <1>2, <1>5 DEF ControlInv, ControlType, Working
  <2>2. OutputInv'
    BY <1>1, <1>2, <1>5 DEF OutputInv, Working
  <2>3. LibraryInv => LibraryInv'
    BY <1>1, <1>2, <1>5, LibraryKept DEF LibraryInv, Opened
  <2> QED  BY <1>5, <2>1, <2>2, <2>3
<1>6. CASE step' = "open" /\ UNCHANGED <<arguments, status>> /\ mode # "NONE"
  <2>1. ControlInv'
    <3>1. mode \in Modes /\ inputs \in Seq(STRING) /\ Len(inputs) > 0 /\ Len(inputs) \in Nat
      BY <1>6, LenProperties DEF ControlInv, ControlType
    <3> QED  BY <1>1, <1>2, <1>6, <3>1 DEF ControlInv, ControlType, Working
  <2>2. OutputInv'
    BY <1>1, <1>2, <1>6 DEF OutputInv, Working
  <2>3. LibraryInv => LibraryInv'
    BY <1>1, <1>2, <1>6, LibraryKept DEF LibraryInv, Behind, Opened
  <2> QED  BY <1>6, <2>1, <2>2, <2>3
<1>7. CASE /\ step' = "args" /\ UNCHANGED status /\ mode = "NONE"
           /\ mode' \in Modes /\ inputs' \in Seq(STRING) /\ at' \in Nat
           /\ Len(inputs') > 0 /\ (mode' \notin ListModes => Len(inputs') = 1)
  <2>1. ControlInv'
    BY <1>1, <1>7 DEF ControlInv, ControlType, Working
  <2>2. OutputInv'
    <3>1. status' # "SUCCESS"
      BY <1>1, <1>7, NullIsNoStatus DEF OutputInv
    <3> QED  BY <1>1, <1>2, <1>7, <3>1 DEF OutputInv, Working
  <2>3. LibraryInv
    BY <1>7
  <2>4. LibraryInv'
    BY <1>1, <1>2, <1>7, <2>3, LibraryKept DEF LibraryInv, Opened
  <2> QED  BY <2>1, <2>2, <2>4
<1>8. CASE NoArguments \/ SecondMode
  BY <1>5, <1>8 DEF NoArguments, SecondMode
<1>9. CASE ModeWithoutFile
  BY <1>5, <1>9 DEF ModeWithoutFile
<1>10. CASE ModeOfOneFile
  <2>1. argv[at + 1] \in STRING
    BY <1>3, <1>10, LenProperties DEF ModeOfOneFile, IsFile
  <2>2. inputs' \in Seq(STRING) /\ Len(inputs') = 1
    BY <1>10, <2>1 DEF ModeOfOneFile
  <2> QED  BY <1>3, <1>7, <1>10, <2>2 DEF ModeOfOneFile, Scans
<1>11. CASE ModeOfFiles
  <2>1. PICK j \in at + 1 .. Len(argv) : inputs' = SubSeq(argv, at + 1, j) /\ at' = j + 2
    BY <1>11 DEF ModeOfFiles
  <2>2. inputs' \in Seq(STRING) /\ Len(inputs') > 0 /\ at' \in Nat
    BY <1>3, <2>1, SubSeqProperties
  <2> QED  BY <1>7, <1>11, <2>2 DEF ModeOfFiles, Scans, Modes, ListModes
<1>12. CASE OtherArgument
  BY <1>4, <1>12 DEF OtherArgument
<1>13. CASE RunMode
  BY <1>5, <1>6, <1>13 DEF RunMode
<1> QED
  BY <1>8, <1>9, <1>10, <1>11, <1>12, <1>13 DEF ParseArgs

(* Exits that write nothing: failures, and successes of the other modes.    *)
LEMMA ExitStep ==
  ASSUME DriverInv, step \in Working, NEW code \in {"SUCCESS", "FAILURE"},
         code = "SUCCESS" => mode # "-o",
         Exit(code), UNCHANGED <<arguments, pos, outputs, library>>,
         ret' = ret \/ step = "analyse"
  PROVE  DriverInv'
<1> USE DEF DriverInv, arguments, Exit
<1>1. outputs # << >> => ret' = ret
  BY DEF OutputInv
<1>2. ControlInv'
  BY DEF ControlInv, ControlType, Working
<1>3. OutputInv'
  BY <1>1 DEF OutputInv, Working
<1>4. LibraryInv => LibraryInv'
  BY LibraryKept DEF LibraryInv, Opened
<1> QED  BY <1>2, <1>3, <1>4

(* The next input, or the next stage.                                       *)
LEMMA NextInputPos ==
  ASSUME ControlInv, step \in Working, NEW s, NEW last, NextInput(s, last)
  PROVE  /\ pos \in Nat /\ Len(inputs) \in Nat /\ status' = status
         /\ \/ step' = s /\ pos' = pos + 1 /\ pos < Len(inputs)
            \/ step' = last /\ pos' = 1 /\ pos = Len(inputs)
BY LenProperties DEF ControlInv, ControlType, NextInput, Goes

(* An input is opened: the next one, or the calls, see only files that can  *)
(* be.                                                                      *)
LEMMA OpenStep ==
  ASSUME DriverInv, Open
  PROVE  DriverInv'
<1> USE DEF DriverInv, arguments
<1>1. step = "open" /\ step \in Working /\ UNCHANGED <<argv, at, mode, inputs, ret, outputs, library>>
  BY DEF Open, Working
<1>2. outputs = << >> /\ status = NULL /\ pos <= Len(inputs) /\ mode \in Modes /\ pos \in Nat
  BY <1>1 DEF OutputInv, ControlInv, ControlType
<1>3. CASE mode # "-o"
  <2>1. step' = "call" /\ UNCHANGED <<pos, status>>
    BY <1>3 DEF Open, Goes
  <2>2. ControlInv'
    BY <1>1, <2>1 DEF ControlInv, ControlType, Working
  <2>3. OutputInv'
    BY <1>1, <1>2, <2>1 DEF OutputInv, Working
  <2>4. Opened'
    BY <1>1, <1>3, <2>1 DEF Open, Opened, Input, Files
  <2>5. LibraryInv => LibraryInv'
    BY <1>1, <1>2, <1>3, <2>1, <2>4, LibraryKept DEF LibraryInv, Behind
  <2> QED  BY <1>1, <2>2, <2>3, <2>5
<1>4. CASE mode = "-o"
  <2>1. NextInput("open", "call")
    BY <1>4 DEF Open
  <2>2. /\ Len(inputs) \in Nat /\ status' = status
        /\ \/ step' = "open" /\ pos' = pos + 1 /\ pos < Len(inputs)
           \/ step' = "call" /\ pos' = 1 /\ pos = Len(inputs)
    BY <1>1, <2>1, NextInputPos
  <2>3. ControlInv'
    BY <1>1, <1>2, <2>2 DEF ControlInv, ControlType, Working
  <2>4. OutputInv'
    BY <1>1, <1>2, <2>2 DEF OutputInv, Working
  <2>5. Input \in Files
    BY DEF Open, Files
  <2>6. Opened => Opened'
    BY <1>1, <1>2, <1>4, <2>2, <2>5 DEF Opened, Input
  <2>7. LibraryInv => LibraryInv'
    BY <1>1, <1>2, <1>4, <2>2, <2>6, LibraryKept DEF LibraryInv, Behind
  <2> QED  BY <1>1, <2>3, <2>4, <2>7
<1> QED  BY <1>3, <1>4

(* A call begins: Input is none of the files before it.                     *)
LEMMA CallStep ==
  ASSUME DriverInv, Call
  PROVE  DriverInv'
<1> USE DEF DriverInv, arguments, Goes
<1>1. /\ step = "call" /\ step' = "parse"
      /\ UNCHANGED <<argv, at, mode, inputs, pos, ret, outputs, status>>
  BY DEF Call
<1>2. ControlInv'
  BY <1>1 DEF ControlInv, ControlType, Working
<1>3. OutputInv'
  BY <1>1 DEF OutputInv, Working
<1>4. ASSUME LibraryInv, mode # "-l" PROVE LibraryInv'
  <2> DEFINE f == Input
  <2>1. Between /\ Behind /\ LibraryType /\ outputs = << >> /\ Input' = Input
    BY <1>1, <1>4 DEF LibraryInv, OutputInv, Input
  <2>2. /\ pc' = [pc EXCEPT ![Main] = "wait"] /\ f \in Files \ called /\ called' = called \cup {f}
        /\ call' = [call EXCEPT ![Main] = [op |-> "parse", file |-> f]]
        /\ UNCHANGED <<got, buffer, read, asts, lost, broken>>
    <3>1. P!Begin(Main, "parse", f)
      BY <1>4 DEF Call
    <3>2. f \in Files
      <4>1. pos \in 1 .. Len(inputs)
        BY <1>1 DEF ControlInv, ControlType, Working
      <4> QED  BY <1>1, <1>4, <4>1 DEF LibraryInv, Opened, Input
    <3> QED  BY <3>1, <3>2 DEF P!Begin, P!Goto, P!scanner, P!history
  <2>3. /\ pc'[Main] = "wait" /\ pc' = [t \in {Main} |-> pc'[Main]]
        /\ call'[Main] = [op |-> "parse", file |-> f] /\ call' = [t \in {Main} |-> call'[Main]]
    BY <2>1, <2>2 DEF LibraryType
  <2>4. LibraryType'
    BY <2>1, <2>2, <2>3 DEF LibraryType
  <2>5. read[f] = 0
    BY <2>1, <2>2 DEF LibraryType
  <2>6. InCall(f)'
    BY <2>1, <2>2, <2>3, <2>5 DEF InCall, Between, Input
  <2>7. Behind' /\ \A i \in 1 .. pos - 1 : inputs[i] # f
    BY <1>1, <2>1, <2>2 DEF Behind, Good, Whole
  <2>8. InCall(Input)'
    BY <1>1, <2>1, <2>6 DEF InCall, Good, Whole
  <2> QED
    BY <1>1, <1>4, <2>1, <2>2, <2>4, <2>7, <2>8 DEF LibraryInv, Opened
<1> QED  BY <1>1, <1>2, <1>3, <1>4

(* A step of the call on Input leaves the trees behind alone.               *)
LEMMA ParseStep ==
  ASSUME DriverInv, Parse
  PROVE  DriverInv'
<1> USE DEF DriverInv, arguments, progress
<1>1. step = "parse" /\ P!Run(Main) /\ UNCHANGED <<argv, at, mode, inputs, step, pos, ret, outputs, status, lost>>
  BY DEF Parse
<1>2. ControlInv'
  BY <1>1 DEF ControlInv, ControlType
<1>3. OutputInv'
  BY <1>1 DEF OutputInv
<1>4. ASSUME LibraryInv, mode # "-l" PROVE LibraryInv'
  <2> DEFINE f == Input
  <2>1. /\ LibraryType /\ Opened /\ Behind /\ outputs = << >>
        /\ f \in called /\ f \in Files /\ Input' = f
        /\ InCall(f) \/ Back(f)
        /\ \A i \in 1 .. pos - 1 : inputs[i] # f
    BY <1>1, <1>4 DEF LibraryInv, LibraryType, OutputInv, Input
  <2>2. ~Back(f)
    BY <1>1 DEF Back, P!Run, P!Test, P!SetBusy, P!SetTarget, P!SetInput, P!Definition, P!GiveUp,
                P!PrintToken, P!EndOfInput, P!Accept, P!Succeed, P!ClearBusy, P!Goto
  <2>3. Stepped(f)
    BY <1>1, <2>1, <2>2, CallSteps
  <2>4. Behind'
    <3> SUFFICES ASSUME NEW i \in 1 .. pos - 1
                 PROVE  inputs[i] \in called' /\ Good(inputs[i])'
      BY <1>1 DEF Behind
    <3>1. inputs[i] \in called /\ Good(inputs[i]) /\ inputs[i] \in Files \ {f}
      BY <2>1 DEF Behind, LibraryType
    <3> QED  BY <1>1, <2>3, <3>1 DEF Stepped, Good, Whole
  <2>5. InCall(Input)' \/ Back(Input)'
    BY <2>1, <2>3 DEF Stepped, InCall, Back, Good, Whole
  <2>6. Opened'
    BY <1>1, <2>1 DEF Opened
  <2> QED
    BY <1>1, <2>1, <2>3, <2>4, <2>5, <2>6 DEF LibraryInv, Stepped
<1> QED  BY <1>1, <1>2, <1>3, <1>4

(* A call has returned; a file that did not parse ends the program.         *)
LEMMA ReturnedStep ==
  ASSUME DriverInv, AstDump \/ ParseEnds
  PROVE  DriverInv'
<1> USE DEF DriverInv, arguments, Returned
<1>1. /\ step = "parse" /\ pc[Main] = "idle" /\ mode \in {"-p", "-s", "-o"}
      /\ UNCHANGED <<argv, at, mode, inputs, ret, outputs, library>>
  BY DEF AstDump, ParseEnds, ListModes
<1>2. /\ outputs = << >> /\ status = NULL /\ pos \in Nat /\ pos > 0
      /\ Len(inputs) \in Nat /\ pos <= Len(inputs) /\ LibraryInv
  BY <1>1, LenProperties DEF OutputInv, ControlInv, ControlType, Working
<1>3. ~Parsed => UNCHANGED pos /\ (Exit("FAILURE") \/ (Exit("SUCCESS") /\ mode = "-p"))
  BY DEF AstDump, ParseEnds
<1>4. CASE ~Parsed
  BY <1>1, <1>3, <1>4, ExitStep DEF Working
<1>5. CASE Parsed
  <2>1. ~InCall(Input)
    BY <1>1 DEF InCall
  <2>2. /\ Good(Input) /\ Input \in called /\ Behind /\ LibraryType /\ Opened
        /\ ~broken /\ buffer = << >> /\ got[Main] = << >>
    BY <1>1, <1>2, <1>5, <2>1 DEF LibraryInv, Back, Parsed
  <2>3. Between /\ \A i \in 1 .. pos : inputs[i] \in called /\ Good(inputs[i])
    BY <1>1, <1>2, <2>2 DEF Between, Behind, Input
  <2>4. CASE AstDump
    <3>1. step' = "dump" /\ UNCHANGED <<pos, status>> /\ mode = "-p"
      BY <1>5, <2>4 DEF AstDump, Goes
    <3>2. ControlInv'
      BY <1>1, <3>1 DEF ControlInv, ControlType, Working
    <3>3. OutputInv'
      BY <1>1, <1>2, <3>1 DEF OutputInv, Working
    <3>4. Len(inputs) = 1 /\ pos = 1
      <4>1. Len(inputs) = 1
        BY <3>1 DEF ControlInv, Modes, ListModes
      <4> QED  BY <1>2, <4>1
    <3>5. LibraryInv'
      BY <1>1, <1>2, <2>2, <2>3, <3>1, <3>4, LibraryKept DEF LibraryInv, Opened
    <3> QED  BY <3>2, <3>3, <3>5
  <2>5. CASE ParseEnds
    <3>1. NextInput(IF mode = "-s" THEN "open" ELSE "call", "analyse") /\ mode \in ListModes
      BY <1>5, <2>5 DEF ParseEnds
    <3>2. /\ status' = status
          /\ \/ /\ step' = IF mode = "-s" THEN "open" ELSE "call"
                /\ pos' = pos + 1 /\ pos < Len(inputs)
             \/ step' = "analyse" /\ pos' = 1 /\ pos = Len(inputs)
      BY <1>1, <3>1, NextInputPos DEF Working
    <3>3. ControlInv'
      BY <1>1, <1>2, <3>1, <3>2 DEF ControlInv, ControlType, Working
    <3>4. OutputInv'
      BY <1>1, <1>2, <3>2 DEF OutputInv, Working
    <3>5. LibraryType' /\ Between' /\ called' = called
      BY <1>1, <2>2, <2>3, LibraryKept
    <3>6. \A i \in 1 .. pos : inputs'[i] \in called' /\ Good(inputs[i])'
      BY <1>1, <2>3, <3>5 DEF library, Good, Whole
    <3>8. CASE step' = "analyse"
      <4>1. \A i \in 1 .. Len(inputs') : Good(inputs[i])'
        BY <1>1, <3>2, <3>6, <3>8
      <4> QED  BY <3>3, <3>4, <3>5, <3>8, <4>1 DEF LibraryInv, Opened
    <3>7. CASE step' # "analyse"
      <4>1. pos' - 1 = pos
        BY <1>2, <3>2, <3>7
      <4>2. Behind'
        BY <1>1, <3>6, <4>1 DEF Behind
      <4>3. Opened'
        <5>1. (mode = "-s" /\ step' = "open") \/ (mode = "-o" /\ step' = "call")
          BY <3>1, <3>2, <3>7 DEF ListModes
        <5> QED  BY <1>1, <2>2, <5>1 DEF Opened
      <4> QED  BY <1>1, <1>2, <3>2, <3>3, <3>4, <3>5, <3>7, <4>2, <4>3 DEF LibraryInv
    <3> QED  BY <3>7, <3>8
  <2> QED  BY <2>4, <2>5
<1> QED  BY <1>4, <1>5

(* The analysis, of -s and of -o.                                           *)
LEMMA AnalyseStep ==
  ASSUME DriverInv, Analyse
  PROVE  DriverInv'
<1> USE DEF DriverInv, arguments
<1>1. /\ step = "analyse" /\ step \in Working
      /\ UNCHANGED <<argv, at, mode, inputs, pos, outputs, library>>
  BY DEF Analyse, Working
<1>2. CASE step' = "emit" /\ UNCHANGED status /\ mode # "-s" /\ ret' = "SUCCESS"
  <2>1. outputs = << >> /\ Len(outputs) = 0 /\ mode \in ListModes
    BY <1>1 DEF OutputInv, ControlInv
  <2>2. pos = 1
    BY <1>1 DEF ControlInv
  <2>3. ControlInv'
    <3>1. mode = "-o"
      BY <1>2, <2>1 DEF ListModes
    <3> QED  BY <1>1, <1>2, <2>1, <2>2, <3>1 DEF ControlInv, ControlType, Working
  <2>4. OutputInv'
    BY <1>1, <1>2, <2>1 DEF OutputInv, Working
  <2>5. LibraryInv => LibraryInv'
    BY <1>1, <1>2, LibraryKept DEF LibraryInv, Opened
  <2> QED  BY <1>1, <2>3, <2>4, <2>5
<1>3. CASE Exit("FAILURE")
  BY <1>1, <1>3, ExitStep
<1>4. CASE Exit("SUCCESS") /\ mode = "-s"
  BY <1>1, <1>4, ExitStep
<1> QED  BY <1>2, <1>3, <1>4 DEF Analyse, Goes

(* An output is whole, or it is the last one.                               *)
LEMMA GenerateStep ==
  ASSUME DriverInv, Generate \/ GenerateFails
  PROVE  DriverInv'
<1> USE DEF DriverInv, arguments, Exit, Goes
<1>1. /\ step = "emit" /\ UNCHANGED <<argv, at, mode, inputs, ret, library>>
      /\ mode = "-o" /\ ret = "SUCCESS"
  BY DEF Generate, GenerateFails, ControlInv
<1>2. /\ Len(outputs) = pos - 1 /\ pos \in Nat /\ pos > 0 /\ pos <= Len(inputs)
      /\ outputs \in Seq({"generated", "partial"}) /\ Len(inputs) \in Nat /\ Len(outputs) \in Nat
  BY <1>1, LenProperties DEF ControlInv, ControlType, Working
<1>3. \A i \in 1 .. Len(outputs) : outputs[i] = "generated"
  BY <1>1 DEF OutputInv, Working
<1>4. ASSUME NEW became \in {"generated", "partial"}, outputs' = Append(outputs, became)
      PROVE  /\ outputs' \in Seq({"generated", "partial"}) /\ outputs' # << >>
             /\ Len(outputs') = pos
             /\ \A i \in 1 .. pos - 1 : outputs'[i] = "generated"
             /\ outputs'[pos] = became
  BY <1>2, <1>3, <1>4, AppendProperties
<1>5. LibraryInv => LibraryInv'
  <2>1. step' \in {"emit", "exit"}
    BY DEF Generate, GenerateFails
  <2> QED  BY <1>1, <2>1, LibraryKept DEF LibraryInv, Opened
<1>6. CASE Generate
  <2>1. /\ outputs' \in Seq({"generated", "partial"}) /\ outputs' # << >>
        /\ Len(outputs') = pos
        /\ \A i \in 1 .. pos : outputs'[i] = "generated"
    BY <1>2, <1>4, <1>6 DEF Generate
  <2>2. \/ step' = "emit" /\ pos' = pos + 1 /\ pos < Len(inputs) /\ status' = status
        \/ step' = "exit" /\ pos' = pos /\ pos = Len(inputs) /\ status' = "SUCCESS"
    BY <1>2, <1>6 DEF Generate
  <2>3. ControlInv'
    BY <1>1, <1>2, <2>1, <2>2 DEF ControlInv, ControlType, Working
  <2>4. OutputInv'
    <3>1. \A i \in 1 .. Len(outputs') : outputs'[i] # "partial"
      BY <2>1
    <3>2. status = NULL
      BY <1>1 DEF OutputInv, Working
    <3> QED  BY <1>1, <2>1, <2>2, <3>1, <3>2, NullIsNoStatus DEF OutputInv, Working
  <2> QED  BY <1>1, <1>5, <2>3, <2>4
<1>7. CASE GenerateFails
  <2>1. /\ outputs' \in Seq({"generated", "partial"}) /\ outputs' # << >>
        /\ Len(outputs') = pos
        /\ \A i \in 1 .. pos - 1 : outputs'[i] = "generated"
    BY <1>2, <1>4, <1>7 DEF GenerateFails
  <2>2. step' = "exit" /\ pos' = pos /\ status' = "FAILURE"
    BY <1>7 DEF GenerateFails
  <2>3. ControlInv'
    BY <1>1, <1>2, <2>1, <2>2 DEF ControlInv, ControlType, Working
  <2>4. OutputInv'
    <3>1. \A i \in 1 .. Len(outputs') : outputs'[i] = "partial" => i = Len(outputs')
      BY <1>2, <2>1
    <3> QED  BY <1>1, <2>1, <2>2, <3>1 DEF OutputInv, Working
  <2> QED  BY <1>1, <1>5, <2>3, <2>4
<1> QED  BY <1>6, <1>7

(* exit may cut the outputs off, and loses none.                            *)
LEMMA FlushStep ==
  ASSUME DriverInv, Flush
  PROVE  DriverInv'
<1> USE DEF DriverInv, arguments, Goes
<1>1. /\ step = "exit" /\ step' = "done"
      /\ UNCHANGED <<argv, at, mode, inputs, pos, ret, status, library>>
  BY DEF Flush
<1>2. PICK cut \in SUBSET DOMAIN outputs :
        outputs' = [i \in DOMAIN outputs |-> IF i \in cut THEN "partial" ELSE outputs[i]]
  BY DEF Flush
<1>3. /\ outputs \in [1 .. Len(outputs) -> {"generated", "partial"}] /\ Len(outputs) \in Nat
      /\ outputs \in Seq({"generated", "partial"}) /\ DOMAIN outputs = 1 .. Len(outputs)
  BY LenProperties DEF ControlInv, ControlType
<1>4. outputs' \in [1 .. Len(outputs) -> {"generated", "partial"}]
  BY <1>2, <1>3
<1>5. outputs' \in Seq({"generated", "partial"}) /\ Len(outputs') = Len(outputs)
  BY <1>3, <1>4, IsASeq, LenProperties
<1>6. outputs' # << >> => outputs # << >>
  BY <1>3, <1>5, EmptySeq
<1>7. ControlInv'
  BY <1>1, <1>5 DEF ControlInv, ControlType, Working
<1>8. OutputInv'
  BY <1>1, <1>5, <1>6 DEF OutputInv, Working
<1>9. LibraryInv => LibraryInv'
  BY <1>1, <1>6, LibraryKept DEF LibraryInv, Opened
<1> QED  BY <1>1, <1>7, <1>8, <1>9

(* The end of the program, and steps of others, change nothing.             *)
LEMMA StutterKeeps ==
  ASSUME DriverInv, UNCHANGED vars
  PROVE  DriverInv'
<1> USE DEF vars, arguments, progress
<1>1. ControlInv' /\ OutputInv'
  BY DEF DriverInv, ControlInv, ControlType, OutputInv
<1>2. LibraryInv => LibraryInv'
  <2>1. ASSUME LibraryInv, step = "parse" PROVE InCall(Input)' \/ Back(Input)'
    BY <2>1 DEF LibraryInv, InCall, Back, Good, Whole, Input, library
  <2> QED  BY <2>1, LibraryKept DEF LibraryInv, Opened, Behind, Input
<1> QED  BY <1>1, <1>2 DEF DriverInv

-----------------------------------------------------------------------------
(* Theorems                                                                 *)

(* Every step keeps the invariant.                                          *)
LEMMA NextKeeps ==
  ASSUME DriverInv, [Next]_vars
  PROVE  DriverInv'
<1>1. CASE ParseArgs
  BY <1>1, ParseArgsStep
<1>2. CASE CannotOpen \/ CannotWrite \/ OutOfMemory
  <2>1. step \in Working
    BY <1>2 DEF CannotOpen, CannotWrite, OutOfMemory, DriverInv, ControlInv, ControlType, Working
  <2> QED  BY <1>2, <2>1, ExitStep DEF CannotOpen, CannotWrite, OutOfMemory, Working
<1>3. CASE DumpEnds \/ DumpAst
  <2>1. step \in Working /\ mode # "-o"
    BY <1>3 DEF DumpEnds, DumpAst, Returned, Working, DriverInv, ControlInv
  <2> QED  BY <1>3, <2>1, ExitStep DEF DumpEnds, DumpAst
<1>4. CASE Open
  BY <1>4, OpenStep
<1>5. CASE Call
  BY <1>5, CallStep
<1>6. CASE Parse
  BY <1>6, ParseStep
<1>7. CASE AstDump \/ ParseEnds
  BY <1>7, ReturnedStep
<1>8. CASE Analyse
  BY <1>8, AnalyseStep
<1>9. CASE Generate \/ GenerateFails
  BY <1>9, GenerateStep
<1>10. CASE Flush
  BY <1>10, FlushStep
<1>11. CASE Done \/ UNCHANGED vars
  BY <1>11, StutterKeeps DEF Done
<1> QED
  BY <1>1, <1>2, <1>3, <1>4, <1>5, <1>6, <1>7, <1>8, <1>9, <1>10, <1>11 DEF Next, Work

(* The inductive invariant: main.c from its arguments to its exit, with the *)
(* scanner's buffer tied to the call of Mon_Parse that runs.                *)
THEOREM DriverInvariant == Spec => []DriverInv
<1>1. Init => DriverInv
  BY InitHolds
<1>2. DriverInv /\ [Next]_vars => DriverInv'
  BY NextKeeps
<1> QED  BY <1>1, <1>2, PTL DEF Spec

(* main.c:259 and 317: a tree that is printed, analysed or translated has   *)
(* the definitions of its own file.                                         *)
THEOREM DriverOwnDefinitions == Spec => []OwnDefinitions
<1>1. DriverInv => OwnDefinitions
  <2> SUFFICES ASSUME DriverInv, step \in {"dump", "analyse", "emit"}, NEW i \in DOMAIN inputs
               PROVE  /\ asts[inputs[i]].state = "SYNTAX_OK"
                      /\ asts[inputs[i]].defs = [k \in DOMAIN Content[inputs[i]] |-> <<inputs[i], k>>]
    BY DEF OwnDefinitions
  <2>1. mode # "-l"
    BY DEF DriverInv, ControlInv, ListModes
  <2>2. i \in 1 .. Len(inputs)
    BY LenProperties DEF DriverInv, ControlInv, ControlType
  <2>3. Good(inputs[i])
    BY <2>1, <2>2 DEF DriverInv, LibraryInv
  <2> QED  BY <2>3 DEF Good, Whole
<1> QED  BY <1>1, DriverInvariant, PTL

(* main.c:345-361: what -o writes is whole but for the last, it is written  *)
(* after an analysis that succeeded, and success means one for every file.  *)
THEOREM DriverOutputsAreWhole == Spec => []OutputsAreWhole
<1>1. DriverInv => OutputsAreWhole
  <2> SUFFICES ASSUME DriverInv PROVE OutputsAreWhole
    OBVIOUS
  <2>1. DOMAIN inputs = 1 .. Len(inputs) /\ DOMAIN outputs = 1 .. Len(outputs)
    BY LenProperties DEF DriverInv, ControlInv, ControlType
  <2>2. ASSUME outputs # << >>
        PROVE  ret = "SUCCESS" /\ \A i \in DOMAIN inputs : asts[inputs[i]].state = "SYNTAX_OK"
    BY <2>1, <2>2 DEF DriverInv, OutputInv, LibraryInv, Good
  <2> QED  BY <2>1, <2>2 DEF OutputsAreWhole, DriverInv, OutputInv
<1> QED  BY <1>1, DriverInvariant, PTL

-----------------------------------------------------------------------------
(* The command line                                                         *)

\* The mode is the one argument at i, and the inputs are the n behind it.
Claims(i, n) ==
  /\ mode \in Modes /\ argv[i] = mode /\ \A k \in 1 .. i - 1 : argv[k] \notin Modes
  /\ n > 0 /\ i + n <= Len(argv) /\ inputs = [k \in 1 .. n |-> argv[i + k]]
  /\ \A k \in i + 1 .. i + n : argv[k] \notin Dashed
  /\ IF mode \in ListModes THEN ~IsFile(i + n + 1) ELSE n = 1

\* The argument behind a list of files is skipped.
Skipped(i, n) == IF mode \in ListModes THEN {i + n + 1} ELSE {}

ScannedSoFar ==
  \/ /\ mode = "NONE" /\ inputs = << >>
     /\ \A k \in 1 .. at - 1 : k <= Len(argv) => argv[k] \notin Modes
  \/ \E i \in 1 .. Len(argv), n \in 1 .. Len(argv) :
       /\ Claims(i, n) /\ i + n < at
       /\ \A k \in 1 .. at - 1 : k <= Len(argv) /\ argv[k] \in Modes => k \in {i} \cup Skipped(i, n)

\* The command line is one to work on, and understood.
Accepted ==
  /\ ModesAt # {} /\ Asked /\ mode = argv[First] /\ inputs # << >>
  /\ inputs = [k \in 1 .. Cardinality(Own(First)) |-> argv[First + k]]

\* It is not, and that is an error unless it asks for nothing.
Refused ==
  /\ step \in {"exit", "done"}
  /\ \/ status = "SUCCESS" /\ inputs = << >>
     \/ status = "FAILURE" /\ (ModesAt = {} \/ ~Asked \/ inputs # << >>)

ScanInv ==
  /\ argv \in Seq(STRING) /\ at \in Nat \ {0}
  /\ step = "args" => ScannedSoFar
  /\ step # "args" => Accepted \/ Refused

(* The first mode is the first of the arguments that are modes.             *)
LEMMA FirstMode ==
  ASSUME argv \in Seq(STRING), NEW i \in 1 .. Len(argv), argv[i] \in Modes,
         \A k \in 1 .. i - 1 : argv[k] \notin Modes
  PROVE  i \in ModesAt /\ First = i
<1>1. DOMAIN argv = 1 .. Len(argv) /\ Len(argv) \in Nat
  BY LenProperties
<1>2. i \in ModesAt /\ \A j \in ModesAt : i <= j /\ j \in Nat
  BY <1>1 DEF ModesAt
<1>3. \A x \in ModesAt : (\A y \in ModesAt : x <= y) => x = i
  BY <1>2
<1> QED  BY <1>2, <1>3 DEF First, Min

(* The arguments of a mode are the files behind it.                         *)
LEMMA OwnArguments ==
  ASSUME argv \in Seq(STRING), NEW i \in 1 .. Len(argv), NEW n \in 1 .. Len(argv), Claims(i, n)
  PROVE  /\ Own(i) = i + 1 .. i + n
         /\ Cardinality(Own(i)) = n /\ Max(Own(i)) = i + n
<1>1. DOMAIN argv = 1 .. Len(argv) /\ Len(argv) \in Nat
  BY LenProperties
<1>2. \A k \in i + 1 .. i + n : IsFile(k)
  BY <1>1 DEF Claims, IsFile
<1>3. Own(i) = i + 1 .. i + n
  <2>1. CASE mode \in ListModes
    <3>1. Own(i) = {j \in DOMAIN argv : j > i /\ \A k \in i + 1 .. j : IsFile(k)}
      BY <2>1 DEF Own, Claims
    <3>2. ~IsFile(i + n + 1) /\ i + n <= Len(argv)
      BY <2>1 DEF Claims
    <3>3. ASSUME NEW j \in DOMAIN argv, j > i, \A k \in i + 1 .. j : IsFile(k)
          PROVE  j \in i + 1 .. i + n
      BY <1>1, <3>2, <3>3
    <3>4. ASSUME NEW j \in i + 1 .. i + n
          PROVE  j \in DOMAIN argv /\ j > i /\ \A k \in i + 1 .. j : IsFile(k)
      BY <1>1, <1>2, <3>2
    <3> QED  BY <3>1, <3>3, <3>4
  <2>2. CASE mode \notin ListModes
    <3>1. Own(i) = {j \in DOMAIN argv : j = i + 1 /\ IsFile(j)} /\ n = 1 /\ i + 1 <= Len(argv)
      BY <2>2 DEF Own, Claims
    <3>2. i + 1 \in DOMAIN argv /\ IsFile(i + 1) /\ i + 1 .. i + n = {i + 1}
      BY <1>1, <1>2, <3>1
    <3> QED  BY <3>1, <3>2
  <2> QED  BY <2>1, <2>2
<1>4. Cardinality(i + 1 .. i + n) = n
  <2>1. i + 1 \in Int /\ i + n \in Int /\ i + 1 <= i + n /\ (i + n) - (i + 1) + 1 = n
    BY <1>1
  <2> QED  BY <2>1, FS_Interval
<1>5. Max(i + 1 .. i + n) = i + n
  <2>1. i + n \in i + 1 .. i + n /\ \A y \in i + 1 .. i + n : i + n >= y
    BY <1>1
  <2>2. \A x \in i + 1 .. i + n : (\A y \in i + 1 .. i + n : x >= y) => x = i + n
    BY <1>1, <2>1
  <2> QED  BY <2>1, <2>2 DEF Max
<1> QED  BY <1>3, <1>4, <1>5

(* A command line that was scanned to its end without an error is one to    *)
(* work on.                                                                 *)
LEMMA ScannedIsAccepted ==
  ASSUME argv \in Seq(STRING), at \in Nat, at > Len(argv), mode # "NONE", ScannedSoFar
  PROVE  Accepted
<1>1. DOMAIN argv = 1 .. Len(argv) /\ Len(argv) \in Nat
  BY LenProperties
<1>2. PICK i \in 1 .. Len(argv), n \in 1 .. Len(argv) :
        /\ Claims(i, n)
        /\ \A k \in 1 .. at - 1 : k <= Len(argv) /\ argv[k] \in Modes => k \in {i} \cup Skipped(i, n)
  BY DEF ScannedSoFar
<1>3. i \in ModesAt /\ First = i
  BY <1>2, FirstMode DEF Claims
<1>4. Own(i) = i + 1 .. i + n /\ Cardinality(Own(i)) = n /\ Max(Own(i)) = i + n
  BY <1>2, OwnArguments
<1>5. Skipped(i, n) = Unseen
  BY <1>2, <1>3, <1>4 DEF Skipped, Unseen, Claims
<1>6. ModesAt \subseteq {First} \cup Unseen
  <2>1. \A k \in 1 .. Len(argv) : k \in 1 .. at - 1
    BY <1>1
  <2> QED  BY <1>1, <1>2, <1>3, <1>5, <2>1 DEF ModesAt
<1>7. Own(First) # {}
  <2>1. i + n \in i + 1 .. i + n
    BY <1>1
  <2> QED  BY <1>3, <1>4, <2>1
<1>8. inputs = [k \in 1 .. n |-> argv[i + k]] /\ mode = argv[i] /\ inputs # << >>
  <2>1. inputs = [k \in 1 .. n |-> argv[i + k]] /\ mode = argv[i]
    BY <1>2 DEF Claims
  <2>2. DOMAIN inputs = 1 .. n /\ DOMAIN << >> = {} /\ 1 \in 1 .. n
    BY <2>1
  <2> QED  BY <2>1, <2>2
<1> QED  BY <1>3, <1>4, <1>6, <1>7, <1>8 DEF Accepted, Asked

(* A mode that is scanned with its files claims them.                       *)
LEMMA ModeClaims ==
  ASSUME argv \in Seq(STRING), at \in 1 .. Len(argv), mode = "NONE", ScannedSoFar,
         argv[at] \in Modes, mode' = argv[at], argv' = argv,
         NEW n \in 1 .. Len(argv), at + n <= Len(argv),
         inputs' = [k \in 1 .. n |-> argv[at + k]],
         \A k \in at + 1 .. at + n : IsFile(k),
         IF argv[at] \in ListModes THEN ~IsFile(at + n + 1) /\ at' = at + n + 2
         ELSE n = 1 /\ at' = at + 2
  PROVE  ScannedSoFar'
<1>1. Len(argv) \in Nat
  BY LenProperties
<1>2. \A k \in 1 .. at - 1 : argv[k] \notin Modes
  BY <1>1 DEF ScannedSoFar, Claims, Modes
<1>3. \A k \in at + 1 .. at + n : argv[k] \notin Dashed /\ argv[k] \notin Modes
  BY DEF IsFile, Dashed
<1> PICK i : i = at
  OBVIOUS
<1>4. Claims(i, n)'
  BY <1>1, <1>2, <1>3 DEF Claims, IsFile
<1>5. i + n < at'
  BY <1>1
<1>6. ASSUME NEW k \in 1 .. at' - 1, k <= Len(argv), argv[k] \in Modes
      PROVE  k \in {i} \cup Skipped(i, n)'
  <2>1. k < at' /\ k >= at
    BY <1>1, <1>2, <1>6
  <2>2. k = at \/ k > at + n
    BY <1>1, <1>3, <1>6, <2>1
  <2>3. CASE argv[at] \in ListModes
    <3>1. k = at \/ k = at + n + 1
      BY <1>1, <2>1, <2>2, <2>3
    <3> QED  BY <2>3, <3>1 DEF Skipped
  <2>4. CASE argv[at] \notin ListModes
    BY <1>1, <2>1, <2>2, <2>4
  <2> QED  BY <2>3, <2>4
<1> QED  BY <1>1, <1>4, <1>5, <1>6 DEF ScannedSoFar

(* A part of the arguments, counted from the one before it.                 *)
LEMMA Slice ==
  ASSUME NEW S, NEW s \in Seq(S), NEW m \in Nat, NEW n \in Nat, m + n <= Len(s)
  PROVE  /\ SubSeq(s, m + 1, m + n) = [k \in 1 .. n |-> s[m + k]]
         /\ SubSeq(s, m + 1, m + n) \in Seq(S)
<1>1. DOMAIN s = 1 .. Len(s) /\ Len(s) \in Nat
  BY LenProperties
<1>2. \A i \in 1 .. Len(s) : s[i] \in S
  BY ElementOfSeq
<1> DEFINE t == SubSeq(s, m + 1, m + n)
           u == [k \in 1 .. n |-> s[m + k]]
<1>3. \A i \in m + 1 .. m + n : s[i] \in S
  BY <1>1, <1>2
<1>4. /\ m + 1 \in Int /\ m + n \in Int
      /\ (m + n) - (m + 1) + 1 = n /\ (IF m + 1 <= m + n THEN n ELSE 0) = n
      /\ \A i \in 1 .. n : (m + 1) + i - 1 = m + i /\ m + i \in m + 1 .. m + n
  OBVIOUS
<1>5. t \in Seq(S) /\ Len(t) = n
  BY <1>3, <1>4, SubSeqProperties
<1>6. \A i \in 1 .. n : t[i] = s[m + i]
  BY <1>3, <1>4, SubSeqProperties
<1>7. u \in [1 .. n -> S]
  BY <1>3, <1>4
<1>8. u \in Seq(S) /\ Len(u) = n
  BY <1>7, LenProperties
<1>9. \A i \in 1 .. n : u[i] = s[m + i]
  OBVIOUS
<1> HIDE DEF t, u
<1>10. t = u
  BY <1>5, <1>6, <1>8, <1>9, SeqEqual
<1> QED  BY <1>5, <1>10 DEF t, u

(* What a command line asks for depends on nothing else.                    *)
LEMMA AskedStays ==
  ASSUME argv' = argv
  PROVE  Asked' = Asked /\ ModesAt' = ModesAt /\ First' = First /\ Own(First)' = Own(First)
<1>1. ModesAt' = ModesAt
  BY DEF ModesAt
<1>2. First' = First
  BY <1>1 DEF First
<1>3. Own(First)' = Own(First)
  <2>1. \A i : IsFile(i)' = IsFile(i)
    BY DEF IsFile
  <2> QED  BY <1>2 DEF Own, IsFile
<1>4. Unseen' = Unseen
  BY <1>2, <1>3 DEF Unseen
<1> QED  BY <1>1, <1>2, <1>3, <1>4 DEF Asked

(* Every step of the scan keeps what it knows of the arguments before i.    *)
LEMMA ScanStep1 ==
  ASSUME DriverInv, ScanInv, ParseArgs
  PROVE  ScanInv'
<1> USE DEF arguments, progress, Exit, Goes
<1>1. step = "args" /\ argv' = argv /\ ScannedSoFar /\ argv \in Seq(STRING) /\ at \in Nat \ {0}
  BY DEF ScanInv, ParseArgs, NoArguments, SecondMode, ModeWithoutFile, ModeOfOneFile, ModeOfFiles,
         OtherArgument, RunMode, Scans
<1>2. DOMAIN argv = 1 .. Len(argv) /\ Len(argv) \in Nat
  BY <1>1, LenProperties
<1>3. CASE NoArguments
  <2>1. ModesAt' = {}
    BY <1>1, <1>2, <1>3 DEF NoArguments, ModesAt
  <2> QED  BY <1>1, <1>3, <2>1 DEF NoArguments, ScanInv, Refused
<1>4. CASE SecondMode
  <2>1. inputs # << >>
    <3>1. PICK i \in 1 .. Len(argv), n \in 1 .. Len(argv) : Claims(i, n)
      BY <1>1, <1>4 DEF SecondMode, ScannedSoFar
    <3>2. DOMAIN inputs = 1 .. n /\ DOMAIN << >> = {} /\ 1 \in 1 .. n
      BY <3>1 DEF Claims
    <3> QED  BY <3>2
  <2> QED  BY <1>1, <1>4, <2>1 DEF SecondMode, ScanInv, Refused
<1>5. CASE ModeWithoutFile
  <2>1. at \in 1 .. Len(argv) /\ argv[at] \in Modes /\ ~IsFile(at + 1)
        /\ \A k \in 1 .. at - 1 : argv[k] \notin Modes
    BY <1>1, <1>2, <1>5 DEF ModeWithoutFile, Scans, ScannedSoFar, Claims, Modes
  <2> PICK i : i = at
    OBVIOUS
  <2>2. i \in ModesAt /\ First = i
    BY <1>1, <2>1, FirstMode
  <2>3. Own(i) = {}
    <3>1. ASSUME NEW j \in DOMAIN argv, j > i, \A k \in i + 1 .. j : IsFile(k) PROVE FALSE
      BY <1>1, <1>2, <2>1, <3>1
    <3>2. ASSUME NEW j \in DOMAIN argv, j = i + 1, IsFile(j) PROVE FALSE
      BY <2>1, <3>2
    <3> QED  BY <3>1, <3>2 DEF Own
  <2>4. ~Asked
    BY <2>2, <2>3 DEF Asked
  <2>5. ~Asked'
    BY <1>1, <2>4, AskedStays
  <2> QED  BY <1>1, <1>5, <2>5 DEF ModeWithoutFile, ScanInv, Refused
<1>6. CASE ModeOfOneFile
  <2>1. /\ at \in 1 .. Len(argv) /\ argv[at] \in Modes /\ argv[at] \notin ListModes
        /\ mode = "NONE" /\ mode' = argv[at] /\ IsFile(at + 1) /\ at + 1 <= Len(argv)
        /\ inputs' = <<argv[at + 1]>> /\ at' = at + 2
    BY <1>1, <1>2, <1>6 DEF ModeOfOneFile, Scans, IsFile
  <2>2. inputs' = [k \in 1 .. 1 |-> argv[at + k]] /\ \A k \in at + 1 .. at + 1 : IsFile(k)
    BY <1>1, <2>1
  <2>3. ScannedSoFar'
    <3>1. 1 \in 1 .. Len(argv)
      BY <1>2, <2>1
    <3> QED  BY <1>1, <2>1, <2>2, <3>1, ModeClaims
  <2> QED  BY <1>1, <1>6, <2>1, <2>3 DEF ModeOfOneFile, ScanInv
<1>7. CASE ModeOfFiles
  <2>1. /\ at \in 1 .. Len(argv) /\ argv[at] \in Modes /\ argv[at] \in ListModes
        /\ mode = "NONE" /\ mode' = argv[at]
    BY <1>1, <1>2, <1>7 DEF ModeOfFiles, Scans, Modes, ListModes
  <2>2. PICK j \in at + 1 .. Len(argv) :
          ListEnds(at + 1, j) /\ inputs' = SubSeq(argv, at + 1, j) /\ at' = j + 2
    BY <1>7 DEF ModeOfFiles
  <2> DEFINE n == j - at
  <2>3. n \in 1 .. Len(argv) /\ at + n = j /\ at + n <= Len(argv) /\ at + n + 1 = j + 1
        /\ at' = at + n + 2
    BY <1>1, <1>2, <2>2
  <2>4. inputs' = [k \in 1 .. n |-> argv[at + k]]
    <3>1. inputs' = SubSeq(argv, at + 1, at + n) /\ at \in Nat /\ n \in Nat
      BY <1>1, <2>2, <2>3
    <3> HIDE DEF n
    <3> QED  BY <1>1, <2>3, <3>1, Slice
  <2>5. (\A k \in at + 1 .. at + n : IsFile(k)) /\ ~IsFile(at + n + 1)
    BY <2>2, <2>3 DEF ListEnds
  <2>6. ScannedSoFar'
    <3> HIDE DEF n
    <3> QED  BY <1>1, <2>1, <2>3, <2>4, <2>5, ModeClaims
  <2>7. at' \in Nat \ {0}
    BY <1>1, <2>2
  <2> QED  BY <1>1, <1>7, <2>6, <2>7 DEF ModeOfFiles, ScanInv
<1>8. CASE OtherArgument
  <2>1. argv[at] \notin Modes /\ at' = at + 1 /\ UNCHANGED <<mode, inputs, step>>
    BY <1>8 DEF OtherArgument
  <2>2. \A k \in 1 .. at' - 1 : k = at \/ k \in 1 .. at - 1
    BY <1>1, <2>1
  <2>3. \A i, n : Claims(i, n)' = Claims(i, n) /\ Skipped(i, n)' = Skipped(i, n)
    BY <1>1, <2>1 DEF Claims, Skipped, IsFile
  <2>4. \A i \in 1 .. Len(argv), n \in 1 .. Len(argv) : i + n < at => i + n < at'
    BY <1>1, <1>2, <2>1
  <2>5. ScannedSoFar'
    BY <1>1, <2>1, <2>2, <2>3, <2>4 DEF ScannedSoFar
  <2> QED  BY <1>1, <2>1, <2>5 DEF ScanInv
<1>9. CASE RunMode
  <2>1. CASE mode = "NONE"
    <3>1. inputs = << >>
      BY <1>1, <2>1 DEF ScannedSoFar, Claims, Modes
    <3> QED  BY <1>1, <1>9, <2>1, <3>1 DEF RunMode, ScanInv, Refused
  <2>2. CASE mode # "NONE"
    <3>1. Accepted
      BY <1>1, <1>9, <2>2, ScannedIsAccepted DEF RunMode
    <3>2. Accepted'
      BY <1>1, <1>9, <3>1, AskedStays DEF RunMode, Accepted
    <3> QED  BY <1>1, <1>9, <2>2, <3>2 DEF RunMode, ScanInv
  <2> QED  BY <2>1, <2>2
<1> QED
  BY <1>3, <1>4, <1>5, <1>6, <1>7, <1>8, <1>9 DEF ParseArgs

(* After the scan the arguments stay, and what is over stays over.          *)
LEMMA ScanInvStays ==
  ASSUME ScanInv, step # "args", UNCHANGED arguments, step' # "args",
         step \in {"exit", "done"} => step' \in {"exit", "done"} /\ status' = status
  PROVE  ScanInv'
<1>1. UNCHANGED <<argv, at, mode, inputs>>
  BY DEF arguments
<1>2. Asked' = Asked /\ ModesAt' = ModesAt /\ First' = First /\ Own(First)' = Own(First)
  BY <1>1, AskedStays
<1>3. Accepted => Accepted'
  BY <1>1, <1>2 DEF Accepted
<1>4. Refused => Refused'
  BY <1>1, <1>2 DEF Refused
<1> QED  BY <1>1, <1>3, <1>4 DEF ScanInv

(* Every step keeps what the scan found.                                    *)
LEMMA ScanKept ==
  ASSUME DriverInv, ScanInv, [Next]_vars
  PROVE  ScanInv'
<1> USE DEF progress, arguments, Exit, Goes
<1>1. CASE ParseArgs
  BY <1>1, ScanStep1
<1>2. CASE CannotOpen \/ CannotWrite \/ OutOfMemory \/ DumpEnds \/ DumpAst \/ Call \/ Parse
  <2>1. step \notin {"args", "exit", "done"} /\ UNCHANGED arguments /\ step' # "args"
    BY <1>2 DEF CannotOpen, CannotWrite, OutOfMemory, DumpEnds, DumpAst, Call, Parse, Returned
  <2> QED  BY <2>1, ScanInvStays
<1>3. CASE Open \/ AstDump \/ ParseEnds \/ Analyse \/ Generate \/ GenerateFails
  <2>1. step \notin {"args", "exit", "done"} /\ UNCHANGED arguments /\ step' # "args"
    BY <1>3 DEF Open, AstDump, ParseEnds, Analyse, Generate, GenerateFails, Returned, NextInput
  <2> QED  BY <2>1, ScanInvStays
<1>4. CASE Flush
  <2>1. step = "exit" /\ step' = "done" /\ UNCHANGED <<arguments, status>>
    BY <1>4 DEF Flush
  <2> QED  BY <2>1, ScanInvStays
<1>5. CASE Done \/ UNCHANGED vars
  <2>1. UNCHANGED <<arguments, step, status>>
    BY <1>5 DEF Done, vars
  <2>2. CASE step # "args"
    BY <2>1, <2>2, ScanInvStays
  <2>3. CASE step = "args"
    <3>1. ScannedSoFar'
      BY <2>1, <2>3 DEF ScanInv, ScannedSoFar, Claims, Skipped, IsFile
    <3> QED  BY <2>1, <2>3, <3>1 DEF ScanInv
  <2> QED  BY <2>2, <2>3
<1> QED  BY <1>1, <1>2, <1>3, <1>4, <1>5 DEF Next, Work

(* main.c, ParseArgs: the program works exactly on the command lines with   *)
(* one mode and files for it, but for a mode directly behind a list.        *)
THEOREM DriverArgumentsHonoured == Spec => []ArgumentsHonoured
<1>1. Init => ScanInv
  <2> SUFFICES ASSUME Init PROVE ScanInv
    OBVIOUS
  <2>1. argv \in Seq(STRING) /\ at = 1 /\ mode = "NONE" /\ inputs = << >> /\ step = "args"
    BY ArgumentsAreStrings DEF Init
  <2> QED  BY <2>1 DEF ScanInv, ScannedSoFar
<1>2. DriverInv /\ ScanInv /\ [Next]_vars => ScanInv'
  BY ScanKept
<1>3. ScanInv => ArgumentsHonoured
  BY DEF ScanInv, Accepted, Refused, ArgumentsHonoured
<1> QED  BY <1>1, <1>2, <1>3, DriverInvariant, PTL DEF Spec

-----------------------------------------------------------------------------
(* The types                                                                *)

(* The scan takes no argument with a dash for a file.                       *)
LEMMA ScanKeepsTypes ==
  ASSUME DriverInv, TypeOK, ParseArgs
  PROVE  TypeOK'
<1> USE DEF arguments, progress, Exit, Goes
<1>1. step = "args" /\ argv \in Seq(STRING) /\ at \in Nat /\ pos = 1 /\ pos' = 1
  BY DEF ParseArgs, NoArguments, SecondMode, ModeWithoutFile, ModeOfOneFile, ModeOfFiles,
         OtherArgument, RunMode, Scans, DriverInv, ControlInv, ControlType
<1>2. /\ outputs = << >> /\ outputs' = << >> /\ status = NULL
      /\ \/ step' \in {"args", "open"} /\ status' = NULL
         \/ step' = "exit" /\ status' \in {"SUCCESS", "FAILURE"}
  <2>1. outputs = << >> /\ status = NULL
    BY <1>1 DEF TypeOK, DriverInv, OutputInv, Working
  <2> QED
    BY <1>1, <2>1 DEF ParseArgs, NoArguments, SecondMode, ModeWithoutFile, ModeOfOneFile,
       ModeOfFiles, OtherArgument, RunMode, Scans
<1>3. /\ mode' \in Modes \cup {"NONE"}
      /\ inputs' \in Seq(STRING) /\ \A i \in DOMAIN inputs' : inputs'[i] \notin Dashed
  <2>1. CASE UNCHANGED <<mode, inputs>>
    BY <2>1 DEF TypeOK, DriverInv, ControlInv, ControlType
  <2>2. CASE ModeOfOneFile
    BY <1>1, <2>2, LenProperties DEF ModeOfOneFile, Scans, IsFile
  <2>3. CASE ModeOfFiles
    <3>1. PICK j \in at + 1 .. Len(argv) : ListEnds(at + 1, j) /\ inputs' = SubSeq(argv, at + 1, j)
      BY <2>3 DEF ModeOfFiles
    <3> PICK n : n = j - at
      OBVIOUS
    <3>2. Len(argv) \in Nat /\ n \in Nat /\ at + n = j /\ at + n <= Len(argv)
      BY <1>1, <3>1, LenProperties
    <3>3. inputs' = [k \in 1 .. n |-> argv[at + k]] /\ inputs' \in Seq(STRING)
      BY <1>1, <3>1, <3>2, Slice
    <3>4. \A k \in 1 .. n : argv[at + k] \notin Dashed
      BY <1>1, <3>1, <3>2 DEF ListEnds, IsFile
    <3>5. \A i \in DOMAIN inputs' : inputs'[i] \notin Dashed
      BY <3>3, <3>4
    <3>6. mode' \in Modes
      BY <2>3 DEF ModeOfFiles, Scans, ListModes, Modes
    <3> QED  BY <3>3, <3>5, <3>6
  <2>4. ModeOfOneFile \/ ModeOfFiles \/ UNCHANGED <<mode, inputs>>
    BY DEF ParseArgs, NoArguments, SecondMode, ModeWithoutFile, OtherArgument, RunMode
  <2> QED  BY <2>1, <2>2, <2>3, <2>4
<1>4. inputs' # << >> => 1 \in DOMAIN inputs'
  BY <1>3, LenProperties, EmptySeq
<1>5. Len(outputs') <= Len(inputs')
  BY <1>2, <1>3, LenProperties
<1> QED  BY <1>1, <1>2, <1>3, <1>4, <1>5, NullIsNoStatus DEF TypeOK

(* Past the scan the files and the mode stay, and no step leaves the inputs *)
(* or writes an output too many.                                            *)
LEMMA TypesKept ==
  ASSUME DriverInv, DriverInv', TypeOK, step # "args", UNCHANGED arguments,
         \/ step \in Working /\ step' \in Working
         \/ /\ step \in Working /\ step' = "exit" /\ status' \in {"SUCCESS", "FAILURE"}
            /\ pos' = pos /\ Len(outputs') <= pos
         \/ /\ step \in {"exit", "done"} /\ step' \in {"exit", "done"}
            /\ UNCHANGED <<pos, status>> /\ Len(outputs') = Len(outputs)
  PROVE  TypeOK'
<1>1. /\ inputs \in Seq(STRING) /\ Len(inputs) \in Nat /\ DOMAIN inputs = 1 .. Len(inputs)
      /\ outputs \in Seq({"generated", "partial"}) /\ Len(outputs) \in Nat /\ Len(outputs') \in Nat
      /\ pos \in Nat \ {0} /\ pos' \in Nat \ {0}
  BY LenProperties DEF DriverInv, ControlInv, ControlType
<1>2. mode' = mode /\ inputs' = inputs
  BY DEF arguments
<1>3. pos' \in DOMAIN inputs' \/ inputs' = << >>
  BY <1>1, <1>2 DEF DriverInv, ControlInv, TypeOK, Working
<1>4. Len(outputs') <= Len(inputs')
  <2>1. step \in Working => pos <= Len(inputs)
    BY DEF DriverInv, ControlInv
  <2>2. CASE step' \in Working
    <3>1. step' = "emit" => Len(outputs') = pos' - 1 /\ pos' <= Len(inputs')
      BY <2>2 DEF DriverInv, ControlInv
    <3>2. step' # "emit" => outputs' = << >>
      BY <2>2 DEF DriverInv, OutputInv, Working
    <3>3. CASE step' = "emit"
      <4>1. Len(inputs') \in Nat
        BY <1>1, <1>2
      <4> QED  BY <1>1, <3>1, <3>3, <4>1
    <3>4. CASE step' # "emit"
      <4>1. Len(outputs') = 0
        BY <3>2, <3>4
      <4> QED  BY <1>1, <1>2, <4>1
    <3> QED  BY <3>3, <3>4
  <2>3. CASE step \in {"exit", "done"} /\ Len(outputs') = Len(outputs)
    BY <1>2, <2>3 DEF TypeOK
  <2> QED  BY <1>1, <1>2, <2>1, <2>2, <2>3 DEF Working
<1>5. status' \in {"SUCCESS", "FAILURE", NULL} /\ (status' # NULL <=> step' \in {"exit", "done"})
  BY NullIsNoStatus DEF DriverInv, OutputInv, TypeOK, Working
<1>6. step' \in Working \cup {"exit", "done"}
  BY DEF Working
<1> QED  BY <1>2, <1>3, <1>4, <1>5, <1>6 DEF TypeOK, Working

(* Every step keeps the types.                                              *)
LEMMA TypeStep ==
  ASSUME DriverInv, DriverInv', TypeOK, [Next]_vars
  PROVE  TypeOK'
<1> USE DEF progress, Exit, Goes
<1>1. Len(outputs) \in Nat /\ pos \in Nat /\ outputs \in Seq({"generated", "partial"})
  BY LenProperties DEF DriverInv, ControlInv, ControlType
<1>2. step \in Working => Len(outputs) <= pos
  <2>1. step = "emit" => Len(outputs) = pos - 1
    BY DEF DriverInv, ControlInv
  <2>2. step \in Working /\ step # "emit" => outputs = << >>
    BY DEF DriverInv, OutputInv, Working
  <2> QED  BY <1>1, <2>1, <2>2, LenProperties
<1>3. CASE ParseArgs
  BY <1>3, ScanKeepsTypes
<1>4. CASE CannotOpen \/ CannotWrite \/ OutOfMemory \/ DumpEnds \/ DumpAst
  <2>1. /\ step \in Working /\ UNCHANGED arguments /\ step' = "exit"
        /\ status' \in {"SUCCESS", "FAILURE"} /\ pos' = pos /\ outputs' = outputs
    BY <1>4 DEF CannotOpen, CannotWrite, OutOfMemory, DumpEnds, DumpAst, Returned, Working,
       DriverInv, ControlInv, ControlType
  <2> QED  BY <1>2, <2>1, TypesKept DEF Working
<1>5. CASE Open \/ AstDump \/ ParseEnds \/ Analyse \/ Call \/ Parse
  <2>1. /\ step \in Working /\ UNCHANGED arguments /\ outputs' = outputs
        /\ \/ step' \in Working
           \/ step' = "exit" /\ status' \in {"SUCCESS", "FAILURE"} /\ pos' = pos
    BY <1>5 DEF Open, AstDump, ParseEnds, Analyse, Call, Parse, Returned, NextInput, Working
  <2> QED  BY <1>2, <2>1, TypesKept DEF Working
<1>6. CASE Generate \/ GenerateFails
  <2>1. /\ step = "emit" /\ UNCHANGED arguments
        /\ \/ step' \in Working
           \/ step' = "exit" /\ status' \in {"SUCCESS", "FAILURE"} /\ pos' = pos
    BY <1>6 DEF Generate, GenerateFails, Working
  <2>2. Len(outputs) = pos - 1
    BY <2>1 DEF DriverInv, ControlInv
  <2>3. Len(outputs') = Len(outputs) + 1
    BY <1>1, <1>6, AppendProperties DEF Generate, GenerateFails
  <2> QED  BY <1>1, <2>1, <2>2, <2>3, TypesKept DEF Working
<1>7. CASE Flush
  <2>1. step = "exit" /\ step' = "done" /\ UNCHANGED <<arguments, pos, status>>
    BY <1>7 DEF Flush
  <2>2. PICK cut : outputs' = [i \in DOMAIN outputs |-> IF i \in cut THEN "partial" ELSE outputs[i]]
    BY <1>7 DEF Flush
  <2>3. outputs' \in Seq({"generated", "partial"})
    BY DEF DriverInv, ControlInv, ControlType
  <2>4. DOMAIN outputs' = DOMAIN outputs
    BY <2>2
  <2>5. Len(outputs') = Len(outputs)
    BY <1>1, <2>3, <2>4, LenProperties
  <2> QED  BY <2>1, <2>5, TypesKept
<1>8. CASE Done \/ UNCHANGED vars
  BY <1>8 DEF Done, vars, arguments, TypeOK
<1> QED  BY <1>3, <1>4, <1>5, <1>6, <1>7, <1>8 DEF Next, Work

(* The program's own state keeps its types: its files start with no dash,   *)
(* there is an output for none but them, and a status at the end.           *)
THEOREM DriverTypeOK == Spec => []TypeOK
<1>1. Init => TypeOK
  BY NullIsNoStatus, LenProperties DEF Init, TypeOK
<1>2. DriverInv /\ DriverInv' /\ TypeOK /\ [Next]_vars => TypeOK'
  BY TypeStep
<1> QED  BY <1>1, <1>2, DriverInvariant, PTL DEF Spec
===============================================================================
