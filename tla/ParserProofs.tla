---------------------------- MODULE ParserProofs ----------------------------
(***************************************************************************)
(* Parser for any number of threads, any streams and every BLOCK: as long  *)
(* as no two calls used the scanner at once, a successful parse holds the  *)
(* definitions of its own stream, and nothing else unless a call gave up.  *)
(***************************************************************************)
EXTENDS Parser, Lemmas

Places == Files \X Nat

\* Behind its first k elements, s is what was made of the first n places of f,
\* all of them definitions, when those in l got lost.
Taken(s, k, f, n, l) ==
  /\ s \in Seq(Places) /\ k \in 0 .. Len(s)
  /\ {s[i] : i \in k + 1 .. Len(s)} = ({f} \X (1 .. n)) \ l
  /\ \A i, j \in k + 1 .. Len(s) : i < j => s[i][2] < s[j][2]
  /\ \A i \in 1 .. n : Content[f][i] = "def"
  /\ \A i \in Nat : <<f, i>> \in l => i \in 1 .. n

\* s ends with what was made of f, and is nothing else unless a call gave up.
Has(s, f, n, l, gaveUp) == \E k \in Nat : Taken(s, k, f, n, l) /\ (gaveUp \/ k = 0)

Good(f) == Has(asts[f].defs, f, Len(Content[f]), lost, broken)

\* Nothing of f was lost, nothing was done with f, or a call on it gave up.
Unlost(f) == \A i \in Nat : <<f, i>> \notin lost
Fresh(f) == read[f] = 0 /\ asts[f].state = "NONE" /\ Unlost(f)
Abandoned(f) ==
  /\ f \in called /\ asts[f].state = "NONE"
  /\ \A t \in Threads : pc[t] # "idle" => call[t].file # f

-----------------------------------------------------------------------------
(* The strengthening                                                        *)

Types ==
  /\ pc \in [Threads -> {"idle", "wait", "set"} \cup Inside]
  /\ call = [t \in Threads |-> call[t]]
  /\ got = [t \in Threads |-> got[t]]
  /\ read \in [Files -> Nat]
  /\ asts = [f \in Files |-> [state |-> asts[f].state, defs |-> asts[f].defs]]
  /\ buffer \in Seq(Places)

\* The threads' calls are on streams of their own, and one uses the scanner.
Exclusive ==
  /\ \A t, u \in Threads : pc[t] \in Inside /\ pc[u] \in Inside => t = u
  /\ \A t, u \in Threads :
       t # u /\ pc[t] # "idle" /\ pc[u] # "idle" => call[t].file # call[u].file

\* The scanner holds text that calls left which gave up.
Buffered == {buffer[i][1] : i \in DOMAIN buffer}
AllAbandoned == \A g \in Buffered : Abandoned(g)
Leftover == (broken \/ buffer = << >>) /\ AllAbandoned

\* The call on f, which gave up or succeeded, leaves the scanner like that.
Leaving(f) ==
  /\ broken \/ buffer = << >>
  /\ \A g \in Buffered : Abandoned(g) \/ (g = f /\ asts[f].state = "NONE")

\* The scanner still holds what others left, if that was anything, or the piece
\* of the stream behind what the call has seen.
Behind(t, f) ==
  /\ Leftover /\ read[f] = 0 /\ Unlost(f)
  /\ call[t].op = "parse" => got[t] \in Seq(Places) /\ (broken \/ got[t] = << >>)
Within(t, f) ==
  /\ read[f] <= Len(Content[f])
  /\ \E n, m \in Nat :
       /\ n + m = read[f] /\ buffer = Piece(f, n, m)
       /\ call[t].op = "parse" => Has(got[t], f, n, lost, broken)
Scanning(t, f) == yyin = f /\ (Behind(t, f) \/ Within(t, f))

InCall(t) ==
  LET f == call[t].file
  IN  /\ pc[t] = "idle" => got[t] = << >>
      /\ pc[t] # "idle" => f \in called /\ f \in Files /\ call[t].op \in {"parse", "dump"}
      /\ pc[t] \in {"wait", "set", "target", "input"} => Fresh(f) /\ got[t] = << >>
      /\ pc[t] \in {"target", "input"} => Leftover
      /\ pc[t] \in {"accept", "end"} => buffer = << >>
      /\ pc[t] = "clear" => Leaving(f)
      /\ pc[t] \in {"target", "accept", "end"} => call[t].op = "parse"
      /\ pc[t] \in {"input", "scan", "accept"} /\ call[t].op = "parse" => target = f
      /\ pc[t] \in {"scan", "accept", "end"} => asts[f].state = "NONE"
      /\ pc[t] = "scan" => Scanning(t, f)
      /\ pc[t] = "accept" => Has(got[t], f, Len(Content[f]), lost, broken)
      /\ pc[t] = "end" => Good(f)

Calm ==
  /\ Types
  /\ Exclusive
  /\ \A t \in Threads : InCall(t)
  /\ (\A t \in Threads : pc[t] \notin Inside) => Leftover
  /\ \A f \in Files \ called : Fresh(f)
  /\ \A f \in Files : asts[f].state = "SYNTAX_OK" => Good(f)

ParserInv == overlap \in BOOLEAN /\ broken \in BOOLEAN /\ (~overlap => Calm)

-----------------------------------------------------------------------------
(* What was taken                                                           *)

(* Before anything of f is scanned there is nothing of it.                  *)
LEMMA NothingTaken ==
  ASSUME NEW f, NEW l, \A i \in Nat : <<f, i>> \notin l, NEW s \in Seq(Places)
  PROVE  Taken(s, Len(s), f, 0, l) /\ Has(s, f, 0, l, TRUE)
<1>1. Len(s) \in Nat /\ Len(s) \in 0 .. Len(s) /\ Len(s) + 1 .. Len(s) = {} /\ 1 .. 0 = {}
  BY LenProperties
<1>2. {s[i] : i \in Len(s) + 1 .. Len(s)} = ({f} \X (1 .. 0)) \ l
  BY <1>1
<1>3. Taken(s, Len(s), f, 0, l)
  BY <1>1, <1>2 DEF Taken
<1> QED  BY <1>1, <1>3 DEF Has

(* Before anything is scanned there is nothing.                             *)
LEMMA NothingHeld ==
  ASSUME NEW f, NEW l, \A i \in Nat : <<f, i>> \notin l, NEW b
  PROVE  Has(<< >>, f, 0, l, b)
<1>1. << >> \in Seq(Places) /\ Len(<< >>) = 0
  BY EmptySeq
<1>2. Taken(<< >>, 0, f, 0, l)
  BY <1>1, NothingTaken
<1> QED  BY <1>2 DEF Has

(* The next definition is put behind the others.                            *)
LEMMA TakenNext ==
  ASSUME NEW f \in Files, NEW n \in Nat, NEW l, NEW s, NEW k, Taken(s, k, f, n, l),
         Content[f][n + 1] = "def"
  PROVE  Taken(Append(s, <<f, n + 1>>), k, f, n + 1, l)
<1> DEFINE d == <<f, n + 1>>
           u == Append(s, d)
<1>1. s \in Seq(Places) /\ d \in Places /\ k \in 0 .. Len(s)
  BY DEF Taken, Places
<1>2. Len(s) \in Nat
  BY <1>1, LenProperties
<1>3. /\ u \in Seq(Places) /\ Len(u) = Len(s) + 1
      /\ \A i \in 1 .. Len(s) : u[i] = s[i]
      /\ u[Len(s) + 1] = d
  BY <1>1, AppendProperties
<1>4. k \in 0 .. Len(u) /\ k + 1 .. Len(u) = (k + 1 .. Len(s)) \cup {Len(s) + 1}
  BY <1>1, <1>2, <1>3
<1>5. \A i \in k + 1 .. Len(s) : i \in 1 .. Len(s) /\ u[i] = s[i]
  BY <1>1, <1>2, <1>3
<1>6. d \notin l /\ d \notin {f} \X (1 .. n)
  BY DEF Taken
<1>7. \A i \in 1 .. n + 1 : Content[f][i] = "def"
  BY DEF Taken
<1>8. {f} \X (1 .. n + 1) = ({f} \X (1 .. n)) \cup {d}
  <2>1. 1 .. n + 1 = (1 .. n) \cup {n + 1}
    OBVIOUS
  <2> QED  BY <2>1
<1>9. {u[i] : i \in k + 1 .. Len(u)} = {s[i] : i \in k + 1 .. Len(s)} \cup {d}
  <2>1. {u[i] : i \in k + 1 .. Len(u)} = {u[i] : i \in k + 1 .. Len(s)} \cup {u[Len(s) + 1]}
    BY <1>4
  <2>2. {u[i] : i \in k + 1 .. Len(s)} = {s[i] : i \in k + 1 .. Len(s)}
    BY <1>5
  <2> QED  BY <1>3, <2>1, <2>2
<1>10. \A i, j \in k + 1 .. Len(u) : i < j => u[i][2] < u[j][2]
  <2>1. \A i \in k + 1 .. Len(s) : s[i][2] \in 1 .. n
    <3>1. \A i \in k + 1 .. Len(s) : s[i] \in {f} \X (1 .. n)
      BY DEF Taken
    <3> QED  BY <3>1
  <2>2. d[2] = n + 1
    OBVIOUS
  <2>3. \A i, j \in k + 1 .. Len(s) : i < j => s[i][2] < s[j][2]
    BY DEF Taken
  <2> SUFFICES ASSUME NEW i \in k + 1 .. Len(u), NEW j \in k + 1 .. Len(u), i < j
               PROVE  u[i][2] < u[j][2]
    OBVIOUS
  <2>4. i \in k + 1 .. Len(s) /\ u[i] = s[i]
    <3>1. i \in k + 1 .. Len(s)
      BY <1>1, <1>2, <1>3
    <3> QED  BY <1>5, <3>1
  <2>5. CASE j = Len(s) + 1
    <3>1. u[j][2] = n + 1
      BY <1>3, <2>2, <2>5
    <3>2. u[i][2] \in 1 .. n
      BY <2>1, <2>4
    <3> HIDE DEF u
    <3> QED  BY <3>1, <3>2
  <2>6. CASE j # Len(s) + 1
    <3>1. j \in k + 1 .. Len(s)
      BY <1>4, <2>6
    <3>2. u[j] = s[j]
      BY <1>5, <3>1
    <3> QED  BY <2>3, <2>4, <3>1, <3>2
  <2> QED  BY <2>5, <2>6
<1>11. {s[i] : i \in k + 1 .. Len(s)} = ({f} \X (1 .. n)) \ l
  BY DEF Taken
<1>12. {u[i] : i \in k + 1 .. Len(u)} = ({f} \X (1 .. n + 1)) \ l
  <2> HIDE DEF u, d
  <2> QED  BY <1>6, <1>8, <1>9, <1>11
<1>13. \A i \in Nat : <<f, i>> \in l => i \in 1 .. n + 1
  BY DEF Taken
<1> QED  BY <1>3, <1>4, <1>7, <1>10, <1>12, <1>13 DEF Taken

(* Or it is lost.                                                           *)
LEMMA TakenButLost ==
  ASSUME NEW f, NEW n \in Nat, NEW l, NEW s, NEW k, Taken(s, k, f, n, l), Content[f][n + 1] = "def"
  PROVE  Taken(s, k, f, n + 1, l \cup {<<f, n + 1>>})
<1> DEFINE d == <<f, n + 1>>
<1>1. \A i \in 1 .. n + 1 : Content[f][i] = "def"
  BY DEF Taken
<1>2. {f} \X (1 .. n + 1) = ({f} \X (1 .. n)) \cup {d}
  <2>1. 1 .. n + 1 = (1 .. n) \cup {n + 1}
    OBVIOUS
  <2> QED  BY <2>1
<1>3. {s[i] : i \in k + 1 .. Len(s)} = ({f} \X (1 .. n + 1)) \ (l \cup {d})
  <2>1. {s[i] : i \in k + 1 .. Len(s)} = ({f} \X (1 .. n)) \ l /\ d \notin {f} \X (1 .. n)
    BY DEF Taken
  <2> HIDE DEF d
  <2> QED  BY <1>2, <2>1
<1>4. \A i \in Nat : <<f, i>> \in l \cup {d} => i \in 1 .. n + 1
  BY DEF Taken
<1> QED  BY <1>1, <1>3, <1>4 DEF Taken

(* The same of all that a call has                                          *)
LEMMA HasNext ==
  ASSUME NEW f \in Files, NEW n \in Nat, NEW l, NEW s, NEW b, Has(s, f, n, l, b),
         Content[f][n + 1] = "def"
  PROVE  /\ Has(Append(s, <<f, n + 1>>), f, n + 1, l, b)
         /\ Has(s, f, n + 1, l \cup {<<f, n + 1>>}, b)
<1>1. PICK k \in Nat : Taken(s, k, f, n, l) /\ (b \/ k = 0)
  BY DEF Has
<1>2. Taken(Append(s, <<f, n + 1>>), k, f, n + 1, l)
  BY <1>1, TakenNext
<1>3. Taken(s, k, f, n + 1, l \cup {<<f, n + 1>>})
  BY <1>1, TakenButLost
<1> QED  BY <1>1, <1>2, <1>3 DEF Has

(* What is lost of other streams makes no difference to what was taken, nor *)
(* does a call that gives up later.                                         *)
LEMMA HasStays ==
  ASSUME NEW g, NEW n, NEW s, NEW l, NEW k, NEW b \in BOOLEAN, NEW c \in BOOLEAN, n \in Nat,
         Has(s, g, n, l, b), b => c, \A i \in Nat : <<g, i>> \in k <=> <<g, i>> \in l
  PROVE  Has(s, g, n, k, c)
<1>1. ({g} \X (1 .. n)) \ l = ({g} \X (1 .. n)) \ k
  OBVIOUS
<1>2. ASSUME NEW j, Taken(s, j, g, n, l) PROVE Taken(s, j, g, n, k)
  BY <1>1, <1>2 DEF Taken
<1> QED  BY <1>2 DEF Has

-----------------------------------------------------------------------------
(* The scanner                                                              *)

(* What yylex scans next is a piece of f, empty only at the end of f.       *)
LEMMA RefillIsPiece ==
  ASSUME NEW f \in Files, NEW n \in Nat, NEW m \in Nat,
         yyin = f, read[f] = n + m, n + m <= Len(Content[f]), buffer = Piece(f, n, m)
  PROVE  \E k \in Nat : /\ Available = Piece(f, n, k)
                        /\ n + k <= Len(Content[f])
                        /\ k = 0 => n = Len(Content[f])
                        /\ buffer # << >> => k = m
<1>1. CASE buffer # << >>
  <2>1. m # 0 /\ Available = Piece(f, n, m)
    BY <1>1, PieceLen DEF Available
  <2> QED  BY <2>1
<1>2. CASE buffer = << >>
  <2>1. m = 0
    BY <1>2, PieceLen, ZenonT(40)
  <2> DEFINE last == IF read[f] + BLOCK < Len(Content[f]) THEN read[f] + BLOCK ELSE Len(Content[f])
             k == last - n
  <2>2. Len(Content[f]) \in Nat /\ BLOCK \in Nat /\ BLOCK > 0
    BY ContentIsText, BlockPos, LenProperties DEF Files
  <2>3. k \in Nat /\ n + k <= Len(Content[f]) /\ (k = 0 => n = Len(Content[f]))
    BY <2>1, <2>2
  <2>4. NextBlock(f) = Piece(f, n, k)
    BY <2>1 DEF NextBlock, Piece
  <2>5. Available = Piece(f, n, k)
    BY <1>2, <2>4 DEF Available
  <2> HIDE DEF k
  <2> QED  BY <1>2, <2>3, <2>5
<1> QED  BY <1>1, <1>2

(* yylex takes the first of it.                                             *)
LEMMA LexTakesNext ==
  ASSUME NEW f \in Files, NEW n \in Nat, NEW m \in Nat,
         yyin = f, read \in [Files -> Nat], read[f] = n + m, n + m <= Len(Content[f]),
         buffer = Piece(f, n, m), Lex
  PROVE  \E k \in Nat : /\ Head(Available) = <<f, n + 1>>
                        /\ buffer' = Piece(f, n + 1, k)
                        /\ n + 1 + k <= Len(Content[f])
                        /\ read' = [read EXCEPT ![f] = n + 1 + k]
<1>1. PICK j \in Nat : /\ Available = Piece(f, n, j)
                       /\ n + j <= Len(Content[f])
                       /\ buffer # << >> => j = m
  BY RefillIsPiece
<1>2. Available # << >> /\ buffer' = Tail(Available)
      /\ read' = IF buffer # << >> THEN read ELSE [read EXCEPT ![yyin] = @ + Len(Available)]
  BY DEF Lex
<1>3. j > 0 /\ Len(Available) = j
  <2>1. j # 0 /\ Len(Available) = j
    BY <1>1, <1>2, PieceLen
  <2> QED  BY <2>1
<1>4. Head(Available) = <<f, n + 1>> /\ buffer' = Piece(f, n + 1, j - 1)
  BY <1>1, <1>2, <1>3, PieceTail
<1>5. read' = [read EXCEPT ![f] = n + j]
  <2>1. CASE buffer # << >>
    <3>1. read' = read /\ j = m  BY <2>1, <1>1, <1>2
    <3>2. read = [read EXCEPT ![f] = read[f]]  OBVIOUS
    <3> QED  BY <3>1, <3>2
  <2>2. CASE buffer = << >>
    <3>1. m = 0  BY <2>2, PieceLen, ZenonT(40)
    <3>2. read' = [read EXCEPT ![f] = read[f] + j]  BY <2>2, <1>2, <1>3
    <3> QED  BY <3>1, <3>2
  <2> QED  BY <2>1, <2>2
<1>6. j - 1 \in Nat /\ n + 1 + (j - 1) = n + j
  BY <1>3
<1> QED  BY <1>1, <1>4, <1>5, <1>6

(* It takes the first of what others left, as long as there is some.        *)
LEMMA LexTakesLeftover ==
  ASSUME buffer \in Seq(Places), buffer # << >>, Lex
  PROVE  /\ Head(Available) = buffer[1] /\ 1 \in DOMAIN buffer /\ buffer[1] \in Places
         /\ buffer' \in Seq(Places) /\ UNCHANGED <<read, yyin>>
         /\ \A i \in DOMAIN buffer' : i + 1 \in DOMAIN buffer /\ buffer'[i] = buffer[i + 1]
<1>1. Available = buffer /\ buffer' = Tail(buffer) /\ UNCHANGED <<read, yyin>>
  BY DEF Lex, Available
<1>2. /\ Head(buffer) = buffer[1] /\ Tail(buffer) \in Seq(Places)
      /\ Len(Tail(buffer)) = Len(buffer) - 1
      /\ \A i \in 1 .. Len(Tail(buffer)) : Tail(buffer)[i] = buffer[i + 1]
  BY HeadTailProperties
<1>3. Len(buffer) \in Nat /\ Len(buffer) # 0 /\ DOMAIN buffer = 1 .. Len(buffer)
      /\ DOMAIN Tail(buffer) = 1 .. Len(Tail(buffer))
  BY <1>2, LenProperties, EmptySeq
<1>4. 1 \in DOMAIN buffer /\ buffer[1] \in Places
  BY <1>3, ElementOfSeq
<1> QED  BY <1>1, <1>2, <1>3, <1>4

-----------------------------------------------------------------------------
(* A step of a thread whose call is alone with the scanner                  *)

\* No AST but that of f changes.
Written(f) ==
  /\ asts' = [g \in Files |-> [state |-> asts'[g].state, defs |-> asts'[g].defs]]
  /\ \A g \in Files : g # f => asts'[g] = asts[g]

\* What such a step of t leaves as it is.
StepOf(t) ==
  /\ Types'
  /\ pc[t] # "idle"
  /\ called' = called /\ broken \in BOOLEAN /\ broken' \in BOOLEAN /\ (broken => broken')
  /\ \A u \in Threads \ {t} :
       pc[u] \notin Inside /\ pc'[u] = pc[u] /\ call'[u] = call[u] /\ got'[u] = got[u]
  /\ \A g \in Files : g # call[t].file =>
       /\ read'[g] = read[g] /\ asts'[g] = asts[g]
       /\ Abandoned(g) \/ \A i \in Nat : <<g, i>> \in lost' <=> <<g, i>> \in lost

(* The scanner holds places of streams.                                     *)
LEMMA BufferedFiles == ASSUME buffer \in Seq(Places) PROVE Buffered \subseteq Files
<1>1. \A i \in DOMAIN buffer : buffer[i] \in Places
  BY ElementOfSeq, LenProperties
<1> QED  BY <1>1 DEF Places, Buffered

(* A stream that was given up stays so.                                     *)
LEMMA AbandonedStays ==
  ASSUME NEW t \in Threads, StepOf(t), NEW g \in Files, Abandoned(g),
         pc'[t] # "idle" => call'[t] = call[t]
  PROVE  Abandoned(g)' /\ g # call[t].file
BY DEF StepOf, Abandoned

(* Such a step keeps Calm when it does so for its own thread and stream.    *)
LEMMA StepKeepsCalm ==
  ASSUME Calm, NEW t \in Threads, StepOf(t), InCall(t)',
         pc'[t] \in Inside \/ Leftover',
         pc'[t] # "idle" => call'[t] = call[t],
         NEW f \in Files, f = call[t].file,
         asts'[f].state = "SYNTAX_OK" => Good(f)'
  PROVE  Calm'
<1>1. Exclusive'
  BY DEF Calm, Exclusive, StepOf, Inside
<1>2. ASSUME NEW g \in Files, Fresh(g), ~Abandoned(g), g # f PROVE Fresh(g)'
  BY <1>2 DEF Fresh, Unlost, StepOf
<1>3. ASSUME NEW u \in Threads, u # t PROVE InCall(u)'
  <2>1. /\ pc[u] \notin Inside /\ pc'[u] = pc[u] /\ call'[u] = call[u] /\ got'[u] = got[u]
        /\ called' = called /\ pc[t] # "idle"
    BY <1>3 DEF StepOf
  <2>2. InCall(u) /\ Exclusive /\ pc[u] \in {"idle", "wait", "set"} \cup Inside
    BY DEF Calm, Types
  <2>3. CASE pc[u] = "idle"
    BY <2>1, <2>2, <2>3 DEF InCall
  <2>4. CASE pc[u] \in {"wait", "set"}
    <3> PICK g : g = call[u].file
      OBVIOUS
    <3>1. /\ g \in called /\ g \in Files /\ call[u].op \in {"parse", "dump"}
          /\ Fresh(g) /\ got[u] = << >>
      BY <2>2, <2>4 DEF InCall
    <3>2. g # f /\ ~Abandoned(g)
      BY <1>3, <2>1, <2>2, <2>4 DEF Exclusive, Abandoned
    <3>3. Fresh(g)'
      BY <1>2, <3>1, <3>2
    <3> QED  BY <2>1, <2>4, <3>1, <3>3 DEF InCall, Inside
  <2> QED  BY <2>1, <2>2, <2>3, <2>4
<1>4. (\A u \in Threads : pc'[u] \notin Inside) => Leftover'
  OBVIOUS
<1>5. \A g \in Files \ called' : Fresh(g)'
  <2>1. f \in called /\ called' = called
    BY DEF Calm, InCall, StepOf
  <2>2. \A g \in Files \ called : Fresh(g) /\ ~Abandoned(g)
    BY DEF Calm, Abandoned
  <2> QED  BY <1>2, <2>1, <2>2
<1>6. ASSUME NEW g \in Files, asts'[g].state = "SYNTAX_OK" PROVE Good(g)'
  <2>1. CASE g = f
    BY <1>6, <2>1
  <2>2. CASE g # f
    <3>1. asts'[g] = asts[g] /\ ~Abandoned(g)
      BY <1>6, <2>2 DEF StepOf, Abandoned
    <3>2. \A i \in Nat : <<g, i>> \in lost' <=> <<g, i>> \in lost
      BY <2>2, <3>1 DEF StepOf
    <3>3. Good(g) /\ Len(Content[g]) \in Nat
      BY <1>6, <3>1, ContentIsText, LenProperties DEF Calm, Files
    <3>4. broken \in BOOLEAN /\ broken' \in BOOLEAN /\ (broken => broken')
      BY DEF StepOf
    <3>5. Has(asts[g].defs, g, Len(Content[g]), lost', broken')
      BY <3>2, <3>3, <3>4, HasStays DEF Good
    <3> QED  BY <3>1, <3>5 DEF Good
  <2> QED  BY <2>1, <2>2
<1>7. Types'
  BY DEF StepOf
<1>8. \A u \in Threads : InCall(u)'
  BY <1>3
<1> QED  BY <1>1, <1>4, <1>5, <1>6, <1>7, <1>8 DEF Calm

(* A step of t that does no more than to move its call on, and to write to  *)
(* the AST of that call.                                                    *)
LEMMA MoveIsStep ==
  ASSUME Calm, broken \in BOOLEAN, NEW t \in Threads, NEW from, NEW to \in Inside,
         Goto(t, from, to), from # "idle",
         \A u \in Threads \ {t} : pc[u] \notin Inside,
         UNCHANGED <<call, called, got, read, lost, buffer, broken>>,
         asts' = asts \/ Written(call[t].file)
  PROVE  /\ StepOf(t) /\ pc[t] = from /\ pc'[t] = to
         /\ Leftover => Leftover'
<1>1. pc \in [Threads -> {"idle", "wait", "set"} \cup Inside]
  BY DEF Calm, Types
<1>2. pc[t] = from /\ pc' = [pc EXCEPT ![t] = to]
  BY DEF Goto
<1>3. /\ pc' \in [Threads -> {"idle", "wait", "set"} \cup Inside]
      /\ pc'[t] = to /\ \A u \in Threads \ {t} : pc'[u] = pc[u]
  BY <1>1, <1>2
<1>4. Written(call[t].file)
  BY DEF Calm, Types, Written
<1>5. Types'
  BY <1>3, <1>4 DEF Calm, Types, Written
<1>6. StepOf(t)
  BY <1>2, <1>3, <1>4, <1>5 DEF StepOf, Written
<1>7. Buffered \subseteq Files /\ Buffered' = Buffered
  BY BufferedFiles DEF Calm, Types, Buffered
<1>8. \A g \in Files : Abandoned(g) => Abandoned(g)'
  BY <1>3, <1>6, AbandonedStays
<1>9. Leftover => Leftover'
  BY <1>7, <1>8 DEF Leftover, AllAbandoned
<1> QED  BY <1>2, <1>3, <1>6, <1>9

(* While a thread uses the scanner, no other does.                          *)
LEMMA InsideAlone ==
  ASSUME Calm, NEW t \in Threads, pc[t] \in Inside
  PROVE  /\ \A u \in Threads \ {t} : pc[u] \notin Inside
         /\ InCall(t) /\ pc[t] # "idle"
         /\ call[t].file \in called /\ call[t].file \in Files
         /\ call[t].op \in {"parse", "dump"}
BY DEF Calm, Exclusive, InCall, Inside

(* A step of a thread that waits keeps what was given up, and what others   *)
(* have.                                                                    *)
LEMMA WaitingKeeps ==
  ASSUME Calm, UNCHANGED <<got, yyin, buffer, read, asts, target, lost, broken>>,
         called \subseteq called', NEW t \in Threads, pc[t] \notin Inside,
         \A u \in Threads \ {t} : pc'[u] = pc[u] /\ call'[u] = call[u],
         \A g \in Files : Abandoned(g) => Abandoned(g)'
  PROVE  /\ \A u \in Threads \ {t} : InCall(u)'
         /\ Leftover => Leftover'
<1>1. Buffered \subseteq Files /\ Buffered' = Buffered
  BY BufferedFiles DEF Calm, Types, Buffered
<1>2. Leftover => Leftover'
  BY <1>1 DEF Leftover, AllAbandoned
<1>3. ASSUME NEW g \in Files, Leaving(g) PROVE Leaving(g)'
  BY <1>1, <1>3 DEF Leaving
<1>4. ASSUME NEW u \in Threads, u # t PROVE InCall(u)'
  <2> PICK g : g = call[u].file
    OBVIOUS
  <2>1. InCall(u) /\ pc'[u] = pc[u] /\ call'[u] = call[u]
    BY <1>4 DEF Calm
  <2>2. /\ pc[u] # "idle" => g \in Files
        /\ pc[u] = "clear" => Leaving(g)
        /\ pc[u] \in {"target", "input"} => Leftover
        /\ pc[u] = "scan" => Scanning(u, g)
    BY <2>1 DEF InCall
  <2>3. (pc[u] = "clear" => Leaving(g)') /\ (pc[u] \in {"target", "input"} => Leftover')
    BY <1>2, <1>3, <2>2
  <2>4. pc[u] = "scan" => Scanning(u, g)'
    <3>1. Behind(u, g) => Behind(u, g)'
      BY <1>2, <2>1 DEF Behind, Unlost
    <3>2. Within(u, g) => Within(u, g)'
      BY <2>1 DEF Within
    <3> QED  BY <2>2, <3>1, <3>2 DEF Scanning
  <2>5. (Fresh(g) => Fresh(g)') /\ (Good(g) => Good(g)')
    BY DEF Fresh, Unlost, Good
  <2>6. asts'[g].state = asts[g].state /\ got'[u] = got[u] /\ buffer' = buffer /\ target' = target
    OBVIOUS
  <2> QED  BY <2>1, <2>2, <2>3, <2>4, <2>5, <2>6 DEF InCall
<1> QED  BY <1>2, <1>4

(* A call begins, on a stream nothing was done with.                        *)
LEMMA BeginStep ==
  ASSUME Calm, NEW t \in Threads, NEW op \in {"parse", "dump"}, NEW f \in Files, Begin(t, op, f)
  PROVE  Calm'
<1>1. /\ Goto(t, "idle", "wait") /\ f \notin called /\ called' = called \cup {f}
      /\ call' = [call EXCEPT ![t] = [op |-> op, file |-> f]]
      /\ UNCHANGED <<got, yyin, buffer, read, asts, target, lost, broken>>
  BY DEF Begin, scanner, history
<1>2. Types /\ Exclusive /\ \A u \in Threads : InCall(u)
  BY DEF Calm
<1>3. /\ pc \in [Threads -> {"idle", "wait", "set"} \cup Inside]
      /\ pc[t] = "idle" /\ pc' = [pc EXCEPT ![t] = "wait"]
  BY <1>1, <1>2 DEF Goto, Types
<1>4. /\ pc' \in [Threads -> {"idle", "wait", "set"} \cup Inside]
      /\ pc'[t] = "wait" /\ \A u \in Threads \ {t} : pc'[u] = pc[u]
  BY <1>3
<1>5. call'[t] = [op |-> op, file |-> f] /\ \A u \in Threads \ {t} : call'[u] = call[u]
  BY <1>1, <1>2 DEF Types
<1>6. Types'
  <2>1. call' = [u \in Threads |-> call'[u]]
    BY <1>1, <1>2 DEF Types
  <2> QED  BY <1>1, <1>2, <1>4, <2>1 DEF Types
<1>7. /\ \A u \in Threads \ {t} : InCall(u)'
      /\ Leftover => Leftover'
  <2>1. \A g \in Files : Abandoned(g) => Abandoned(g)'
    BY <1>1, <1>4, <1>5 DEF Abandoned
  <2> QED  BY <1>1, <1>3, <1>4, <1>5, <2>1, WaitingKeeps DEF Inside
<1>8. InCall(t)'
  <2>1. Fresh(f) /\ got[t] = << >>
    BY <1>1, <1>2, <1>3 DEF Calm, InCall
  <2>2. Fresh(f)' /\ got'[t] = << >>
    BY <1>1, <2>1 DEF Fresh, Unlost
  <2> QED  BY <1>1, <1>4, <1>5, <2>2 DEF InCall
<1>9. Exclusive'
  <2>1. \A u \in Threads : pc[u] # "idle" => call[u].file \in called
    BY <1>2 DEF InCall
  <2> QED  BY <1>1, <1>2, <1>4, <1>5, <2>1 DEF Exclusive, Inside
<1>10. (\A u \in Threads : pc'[u] \notin Inside) => Leftover'
  <2>1. (\A u \in Threads : pc'[u] \notin Inside) => \A u \in Threads : pc[u] \notin Inside
    BY <1>3, <1>4 DEF Inside
  <2> QED  BY <1>7, <2>1 DEF Calm
<1>11. \A g \in Files \ called' : Fresh(g)'
  BY <1>1 DEF Calm, Fresh, Unlost
<1>12. \A g \in Files : asts'[g].state = "SYNTAX_OK" => Good(g)'
  BY <1>1 DEF Calm, Good
<1> QED  BY <1>6, <1>7, <1>8, <1>9, <1>10, <1>11, <1>12 DEF Calm

(* Nothing but its own place changes when a call is done waiting.           *)
LEMMA TestStep ==
  ASSUME Calm, NEW t \in Threads, Test(t)
  PROVE  Calm'
<1>1. /\ Goto(t, "wait", "set")
      /\ UNCHANGED <<call, called, got, yyin, buffer, read, asts, target, lost, broken>>
  BY DEF Test, scanner, history
<1>2. Types /\ Exclusive /\ \A u \in Threads : InCall(u)
  BY DEF Calm
<1>3. /\ pc \in [Threads -> {"idle", "wait", "set"} \cup Inside]
      /\ pc[t] = "wait" /\ pc' = [pc EXCEPT ![t] = "set"]
  BY <1>1, <1>2 DEF Goto, Types
<1>4. /\ pc' \in [Threads -> {"idle", "wait", "set"} \cup Inside]
      /\ pc'[t] = "set" /\ \A u \in Threads \ {t} : pc'[u] = pc[u]
  BY <1>3
<1>5. Types'
  BY <1>1, <1>2, <1>4 DEF Types
<1>6. /\ \A u \in Threads \ {t} : InCall(u)'
      /\ Leftover => Leftover'
  <2>1. \A g \in Files : Abandoned(g) => Abandoned(g)'
    BY <1>1, <1>3, <1>4 DEF Abandoned
  <2> QED  BY <1>1, <1>3, <1>4, <2>1, WaitingKeeps DEF Inside
<1>7. InCall(t)'
  BY <1>1, <1>2, <1>3, <1>4 DEF InCall, Fresh, Unlost
<1>8. Exclusive'
  BY <1>1, <1>2, <1>3, <1>4 DEF Exclusive, Inside
<1>9. (\A u \in Threads : pc'[u] \notin Inside) => Leftover'
  <2>1. (\A u \in Threads : pc'[u] \notin Inside) => \A u \in Threads : pc[u] \notin Inside
    BY <1>3, <1>4 DEF Inside
  <2> QED  BY <1>6, <2>1 DEF Calm
<1>10. \A g \in Files \ called' : Fresh(g)'
  BY <1>1 DEF Calm, Fresh, Unlost
<1>11. \A g \in Files : asts'[g].state = "SYNTAX_OK" => Good(g)'
  BY <1>1 DEF Calm, Good
<1> QED  BY <1>5, <1>6, <1>7, <1>8, <1>9, <1>10, <1>11 DEF Calm

-----------------------------------------------------------------------------
(* One lemma per step of a call that has the scanner                        *)

(* The call that finds the flag clear, and nobody else at it, is alone.     *)
LEMMA SetBusyStep ==
  ASSUME Calm, broken \in BOOLEAN, NEW t \in Threads, SetBusy(t), ~overlap'
  PROVE  Calm'
<1> DEFINE f == call[t].file
           to == IF call[t].op = "parse" THEN "target" ELSE "input"
<1>1. /\ Goto(t, "set", to) /\ to \in Inside
      /\ \A u \in Threads : pc[u] \notin Inside
      /\ UNCHANGED <<call, called, got, yyin, buffer, read, asts, target, lost, broken>>
  BY DEF SetBusy, scanner, Inside
<1>2. StepOf(t) /\ pc[t] = "set" /\ pc'[t] = to /\ (Leftover => Leftover')
  <2> HIDE DEF to
  <2> QED  BY <1>1, MoveIsStep
<1>3. /\ f \in called /\ f \in Files /\ call[t].op \in {"parse", "dump"}
      /\ Fresh(f) /\ got[t] = << >> /\ Leftover
  BY <1>1, <1>2 DEF Calm, InCall
<1>4. InCall(t)'
  BY <1>1, <1>2, <1>3 DEF InCall, Fresh, Unlost
<1>5. asts'[f].state # "SYNTAX_OK"
  BY <1>1, <1>3 DEF Fresh
<1> QED  BY <1>1, <1>2, <1>3, <1>4, <1>5, StepKeepsCalm

(* The definitions will go to the AST of the call.                          *)
LEMMA SetTargetStep ==
  ASSUME Calm, broken \in BOOLEAN, NEW t \in Threads, SetTarget(t)
  PROVE  Calm'
<1> DEFINE f == call[t].file
<1>1. /\ Goto(t, "target", "input") /\ target' = f
      /\ UNCHANGED <<call, called, got, yyin, buffer, read, asts, lost, broken>>
  BY DEF SetTarget, scanner, history
<1>2. pc[t] \in Inside
  BY <1>1 DEF Goto, Inside
<1>3. StepOf(t) /\ pc[t] = "target" /\ pc'[t] = "input" /\ (Leftover => Leftover')
  BY <1>1, <1>2, MoveIsStep, InsideAlone DEF Inside
<1>4. /\ f \in called /\ f \in Files /\ call[t].op \in {"parse", "dump"}
      /\ Fresh(f) /\ got[t] = << >> /\ Leftover
  BY <1>2, <1>3, InsideAlone DEF InCall
<1>5. InCall(t)'
  BY <1>1, <1>3, <1>4 DEF InCall, Fresh, Unlost
<1>6. asts'[f].state # "SYNTAX_OK"
  BY <1>1, <1>4 DEF Fresh
<1> QED  BY <1>1, <1>3, <1>4, <1>5, <1>6, StepKeepsCalm

(* What others left is used up: that is the beginning of f.                 *)
LEMMA AtTheStart ==
  ASSUME NEW t, NEW f \in Files, Behind(t, f), buffer = << >>
  PROVE  Within(t, f)
<1>1. Piece(f, 0, 0) = << >> /\ 0 + 0 = read[f] /\ read[f] <= Len(Content[f])
  <2>1. Piece(f, 0, 0) = << >>
    BY PieceLen
  <2>2. Len(Content[f]) \in Nat
    BY ContentIsText, LenProperties DEF Files
  <2> QED  BY <2>1, <2>2 DEF Behind
<1>2. call[t].op = "parse" => Has(got[t], f, 0, lost, broken)
  <2>1. \A i \in Nat : <<f, i>> \notin lost
    BY DEF Behind, Unlost
  <2>2. CASE got[t] = << >>
    BY <2>1, <2>2, NothingHeld
  <2>3. CASE broken
    <3>1. call[t].op = "parse" => Has(got[t], f, 0, lost, TRUE)
      BY <2>1, NothingTaken DEF Behind
    <3> QED  BY <2>3, <3>1 DEF Has
  <2> QED  BY <2>2, <2>3 DEF Behind
<1> QED  BY <1>1, <1>2 DEF Within

(* The scanner is given a stream nothing was read of.                       *)
LEMMA SetInputStep ==
  ASSUME Calm, broken \in BOOLEAN, NEW t \in Threads, SetInput(t), NEW f, f = call[t].file
  PROVE  Calm'
<1>1. /\ Goto(t, "input", "scan") /\ yyin' = f
      /\ UNCHANGED <<call, called, got, target, buffer, read, asts, lost, broken>>
  BY DEF SetInput, history
<1>2. pc[t] \in Inside
  BY <1>1 DEF Goto, Inside
<1>3. StepOf(t) /\ pc[t] = "input" /\ pc'[t] = "scan" /\ (Leftover => Leftover')
  BY <1>1, <1>2, MoveIsStep, InsideAlone DEF Inside
<1>4. /\ f \in called /\ f \in Files /\ call[t].op \in {"parse", "dump"}
      /\ Fresh(f) /\ got[t] = << >> /\ Leftover
      /\ call[t].op = "parse" => target = f
  BY <1>2, <1>3, InsideAlone DEF InCall
<1>5. Scanning(t, f)'
  <2>1. << >> \in Seq(Places)
    BY EmptySeq
  <2>2. Behind(t, f)'
    BY <1>1, <1>3, <1>4, <2>1 DEF Fresh, Unlost, Behind
  <2> QED  BY <1>1, <2>2 DEF Scanning
<1>6. InCall(t)'
  BY <1>1, <1>3, <1>4, <1>5 DEF InCall, Fresh
<1>7. asts'[f].state # "SYNTAX_OK"
  BY <1>1, <1>4 DEF Fresh
<1>8. call'[t] = call[t] /\ pc'[t] \in Inside
  BY <1>1, <1>3 DEF Inside
<1> QED  BY <1>3, <1>4, <1>6, <1>7, <1>8, StepKeepsCalm

(* yylex takes something of what others left, or the next of f.             *)
LEMMA LexIsStep ==
  ASSUME Calm, broken \in BOOLEAN, broken' \in BOOLEAN, broken => broken',
         NEW t \in Threads, NEW to \in Inside, Goto(t, "scan", to), Lex,
         UNCHANGED <<call, called>>,
         got' = [u \in Threads |-> got'[u]], \A u \in Threads \ {t} : got'[u] = got[u],
         Written(call[t].file),
         lost' \in {lost, lost \cup {Head(Available)}},
         NEW f, f = call[t].file
  PROVE  /\ StepOf(t) /\ InCall(t) /\ yyin' = f /\ pc[t] = "scan" /\ pc'[t] = to
         /\ f \in called /\ f \in Files /\ call[t].op \in {"parse", "dump"}
         /\ \/ /\ broken /\ Behind(t, f) /\ read' = read
               /\ \E g \in Files \ {f}, i \in Nat : Head(Available) = <<g, i>>
               /\ AllAbandoned'
            \/ \E n \in Nat, k \in Nat :
                 /\ Head(Available) = <<f, n + 1>>
                 /\ buffer' = Piece(f, n + 1, k)
                 /\ read'[f] = n + 1 + k /\ n + 1 + k <= Len(Content[f])
                 /\ call[t].op = "parse" => Has(got[t], f, n, lost, broken)
<1>1. /\ pc \in [Threads -> {"idle", "wait", "set"} \cup Inside]
      /\ read \in [Files -> Nat] /\ buffer \in Seq(Places)
      /\ call = [u \in Threads |-> call[u]]
  BY DEF Calm, Types
<1>2. pc[t] = "scan" /\ pc' = [pc EXCEPT ![t] = to] /\ pc[t] \in Inside
  BY DEF Goto, Inside
<1>3. /\ pc' \in [Threads -> {"idle", "wait", "set"} \cup Inside]
      /\ pc'[t] = to /\ \A u \in Threads \ {t} : pc'[u] = pc[u]
  BY <1>1, <1>2
<1>4. /\ \A u \in Threads \ {t} : pc[u] \notin Inside
      /\ InCall(t) /\ pc[t] # "idle"
      /\ f \in called /\ f \in Files /\ call[t].op \in {"parse", "dump"}
  BY <1>2, InsideAlone
<1>5. yyin = f /\ (Behind(t, f) \/ Within(t, f))
  BY <1>2, <1>4 DEF InCall, Scanning
<1>6. yyin' = f
  BY <1>5 DEF Lex
<1>7. CASE Behind(t, f) /\ buffer # << >>
  <2>1. /\ Head(Available) = buffer[1] /\ 1 \in DOMAIN buffer /\ buffer[1] \in Places
        /\ buffer' \in Seq(Places) /\ read' = read
        /\ \A i \in DOMAIN buffer' : i + 1 \in DOMAIN buffer /\ buffer'[i] = buffer[i + 1]
    BY <1>1, <1>7, LexTakesLeftover
  <2>2. broken /\ AllAbandoned /\ buffer[1][1] \in Buffered /\ Buffered' \subseteq Buffered
    BY <1>7, <2>1 DEF Behind, Leftover, Buffered
  <2>3. PICK g \in Files, i \in Nat : buffer[1] = <<g, i>>
    BY <2>1 DEF Places
  <2>4. Abandoned(g) /\ g # f
    <3>1. Abandoned(g)
      BY <2>2, <2>3 DEF AllAbandoned
    <3> QED  BY <3>1, <1>4 DEF Abandoned
  <2>5. Types'
    BY <1>1, <1>3, <2>1 DEF Types, Written
  <2>6. StepOf(t)
    <3>1. \A h \in Files, j \in Nat : <<h, j>> \in lost' => <<h, j>> \in lost \/ h = g
      BY <2>1, <2>3
    <3>2. \A h \in Files, j \in Nat : <<h, j>> \in lost => <<h, j>> \in lost'
      OBVIOUS
    <3> QED  BY <1>3, <1>4, <2>1, <2>4, <2>5, <3>1, <3>2 DEF StepOf, Written
  <2>7. AllAbandoned'
    <3>1. \A h \in Files : Abandoned(h) => Abandoned(h)'
      BY <2>6, AbandonedStays
    <3>2. Buffered \subseteq Files
      BY <1>1, BufferedFiles
    <3> QED  BY <2>2, <3>1, <3>2 DEF AllAbandoned
  <2>8. \E h \in Files \ {f}, j \in Nat : Head(Available) = <<h, j>>
    BY <2>1, <2>3, <2>4
  <2> QED  BY <1>2, <1>3, <1>4, <1>6, <1>7, <2>1, <2>2, <2>6, <2>7, <2>8
<1>8. CASE Within(t, f)
  <2>1. PICK n \in Nat, m \in Nat :
          /\ n + m = read[f] /\ buffer = Piece(f, n, m) /\ n + m <= Len(Content[f])
          /\ call[t].op = "parse" => Has(got[t], f, n, lost, broken)
    BY <1>8 DEF Within
  <2>2. PICK k \in Nat : /\ Head(Available) = <<f, n + 1>>
                         /\ buffer' = Piece(f, n + 1, k)
                         /\ n + 1 + k <= Len(Content[f])
                         /\ read' = [read EXCEPT ![f] = n + 1 + k]
    BY <1>1, <1>4, <1>5, <2>1, LexTakesNext
  <2>3. read' \in [Files -> Nat] /\ read'[f] = n + 1 + k
        /\ \A g \in Files : g # f => read'[g] = read[g]
    <3>1. n + 1 + k \in Nat
      OBVIOUS
    <3> QED  BY <1>1, <1>4, <2>2, <3>1
  <2>4. buffer' \in Seq(Places)
    <3>1. Piece(f, n + 1, k) \in [1 .. k -> Places]
      BY <1>4 DEF Piece, Places
    <3> QED  BY <2>2, <3>1, IsASeq
  <2>5. Types'
    BY <1>1, <1>3, <2>3, <2>4 DEF Types, Written
  <2>6. StepOf(t)
    <3>1. \A h \in Files, j \in Nat : <<h, j>> \in lost' => <<h, j>> \in lost \/ h = f
      BY <2>2
    <3>2. \A h \in Files, j \in Nat : <<h, j>> \in lost => <<h, j>> \in lost'
      OBVIOUS
    <3> QED  BY <1>3, <1>4, <2>3, <2>5, <3>1, <3>2 DEF StepOf, Written
  <2> QED  BY <1>2, <1>3, <1>4, <1>6, <2>1, <2>2, <2>3, <2>6
<1>9. CASE Behind(t, f) /\ buffer = << >>
  BY <1>4, <1>8, <1>9, AtTheStart
<1> QED  BY <1>5, <1>7, <1>8, <1>9

(* Mon_DumpLex goes on to the next token.                                   *)
LEMMA PrintTokenStep ==
  ASSUME Calm, broken \in BOOLEAN, NEW t \in Threads, PrintToken(t), NEW f, f = call[t].file
  PROVE  Calm'
<1>1. /\ pc[t] = "scan" /\ call[t].op = "dump" /\ Lex
      /\ UNCHANGED <<pc, call, called, got, asts, target, lost, broken>>
  BY DEF PrintToken, caller, history
<1>2. Goto(t, "scan", "scan")
  BY <1>1 DEF Calm, Types, Goto
<1>3. got' = [u \in Threads |-> got'[u]] /\ Written(call[t].file)
  BY <1>1 DEF Calm, Types, Written
<1>4. /\ StepOf(t) /\ InCall(t) /\ yyin' = f /\ pc[t] = "scan" /\ pc'[t] = "scan"
      /\ f \in called /\ f \in Files /\ call[t].op \in {"parse", "dump"}
      /\ \/ /\ broken /\ Behind(t, f) /\ read' = read
            /\ AllAbandoned'
         \/ \E n \in Nat, k \in Nat :
              /\ buffer' = Piece(f, n + 1, k)
              /\ read'[f] = n + 1 + k /\ n + 1 + k <= Len(Content[f])
  <2>1. "scan" \in Inside
    BY DEF Inside
  <2> QED  BY <1>1, <1>2, <1>3, <2>1, LexIsStep
<1>5. Scanning(t, f)'
  <2>1. CASE /\ broken /\ Behind(t, f) /\ read' = read
             /\ AllAbandoned'
    <3>1. Behind(t, f)'
      BY <1>1, <2>1 DEF Behind, Leftover, Unlost
    <3> QED  BY <1>4, <3>1 DEF Scanning
  <2>2. CASE \E n \in Nat, k \in Nat :
               /\ buffer' = Piece(f, n + 1, k)
               /\ read'[f] = n + 1 + k /\ n + 1 + k <= Len(Content[f])
    <3>1. PICK n \in Nat, k \in Nat :
            /\ buffer' = Piece(f, n + 1, k)
            /\ read'[f] = n + 1 + k /\ n + 1 + k <= Len(Content[f])
      BY <2>2
    <3>2. n + 1 \in Nat /\ (n + 1) + k = read'[f] /\ read'[f] <= Len(Content[f])
      BY <3>1
    <3>3. Within(t, f)'
      BY <1>1, <3>1, <3>2 DEF Within
    <3> QED  BY <1>4, <3>3 DEF Scanning
  <2> QED  BY <1>4, <2>1, <2>2
<1>6. InCall(t)'
  BY <1>1, <1>4, <1>5 DEF InCall
<1>7. asts'[f].state # "SYNTAX_OK"
  BY <1>1, <1>4 DEF InCall
<1>8. call'[t] = call[t] /\ pc'[t] \in Inside
  BY <1>1 DEF Inside
<1> QED  BY <1>4, <1>6, <1>7, <1>8, StepKeepsCalm

(* yyparse adds the next definition, or loses it.                           *)
LEMMA DefinitionStep ==
  ASSUME Calm, broken \in BOOLEAN, NEW t \in Threads, Definition(t), NEW f, f = call[t].file
  PROVE  Calm'
<1>1. /\ pc[t] = "scan" /\ call[t].op = "parse" /\ Lex /\ Token = "def"
      /\ UNCHANGED <<pc, call, called, asts, target, broken>>
  BY DEF Definition
<1>2. \/ got' = [got EXCEPT ![t] = Append(@, Head(Available))] /\ lost' = lost
      \/ lost' = lost \cup {Head(Available)} /\ got' = got
  BY DEF Definition
<1>3. Goto(t, "scan", "scan")
  BY <1>1 DEF Calm, Types, Goto
<1>4. /\ got' = [u \in Threads |-> got'[u]] /\ \A u \in Threads \ {t} : got'[u] = got[u]
      /\ Written(call[t].file)
  BY <1>1, <1>2 DEF Calm, Types, Written
<1>5. \/ got'[t] = Append(got[t], Head(Available)) /\ lost' = lost
      \/ lost' = lost \cup {Head(Available)} /\ got'[t] = got[t]
  BY <1>2 DEF Calm, Types
<1>6. /\ StepOf(t) /\ InCall(t) /\ yyin' = f /\ pc[t] = "scan" /\ pc'[t] = "scan"
      /\ f \in called /\ f \in Files /\ call[t].op \in {"parse", "dump"}
      /\ \/ /\ broken /\ Behind(t, f) /\ read' = read
            /\ \E g \in Files \ {f}, i \in Nat : Head(Available) = <<g, i>>
            /\ AllAbandoned'
         \/ \E n \in Nat, k \in Nat :
              /\ Head(Available) = <<f, n + 1>>
              /\ buffer' = Piece(f, n + 1, k)
              /\ read'[f] = n + 1 + k /\ n + 1 + k <= Len(Content[f])
              /\ Has(got[t], f, n, lost, broken)
  <2>1. "scan" \in Inside
    BY DEF Inside
  <2>2. lost' \in {lost, lost \cup {Head(Available)}}
    BY <1>2
  <2> QED  BY <1>1, <1>3, <1>4, <2>1, <2>2, LexIsStep
<1>7. Scanning(t, f)'
  <2>1. CASE /\ broken /\ Behind(t, f) /\ read' = read
             /\ \E g \in Files \ {f}, i \in Nat : Head(Available) = <<g, i>>
             /\ AllAbandoned'
    <3>1. PICK g \in Files \ {f}, i \in Nat : Head(Available) = <<g, i>>
      BY <2>1
    <3>2. got'[t] \in Seq(Places)
      <4>1. got[t] \in Seq(Places) /\ Head(Available) \in Places
        BY <1>1, <2>1, <3>1 DEF Behind, Places
      <4>2. Append(got[t], Head(Available)) \in Seq(Places)
        BY <4>1, AppendProperties
      <4> QED  BY <1>5, <4>1, <4>2
    <3>3. Unlost(f)'
      BY <1>5, <2>1, <3>1 DEF Behind, Unlost
    <3>4. Behind(t, f)'
      BY <1>1, <2>1, <3>2, <3>3 DEF Behind, Leftover
    <3> QED  BY <1>6, <3>4 DEF Scanning
  <2>2. CASE \E n \in Nat, k \in Nat :
               /\ Head(Available) = <<f, n + 1>>
               /\ buffer' = Piece(f, n + 1, k)
               /\ read'[f] = n + 1 + k /\ n + 1 + k <= Len(Content[f])
               /\ Has(got[t], f, n, lost, broken)
    <3>1. PICK n \in Nat, k \in Nat :
            /\ Head(Available) = <<f, n + 1>>
            /\ buffer' = Piece(f, n + 1, k)
            /\ read'[f] = n + 1 + k /\ n + 1 + k <= Len(Content[f])
            /\ Has(got[t], f, n, lost, broken)
      BY <2>2
    <3>2. n + 1 \in Nat /\ (n + 1) + k = read'[f] /\ read'[f] <= Len(Content[f])
      BY <3>1
    <3>3. Content[f][n + 1] = "def"
      BY <1>1, <3>1 DEF Token
    <3>4. Has(got'[t], f, n + 1, lost', broken')
      <4>1. /\ Has(Append(got[t], <<f, n + 1>>), f, n + 1, lost, broken)
            /\ Has(got[t], f, n + 1, lost \cup {<<f, n + 1>>}, broken)
        BY <1>6, <3>1, <3>3, HasNext
      <4> QED  BY <1>1, <1>5, <3>1, <4>1
    <3>5. Within(t, f)'
      BY <3>1, <3>2, <3>4 DEF Within
    <3> QED  BY <1>6, <3>5 DEF Scanning
  <2> QED  BY <1>6, <2>1, <2>2
<1>8. InCall(t)'
  BY <1>1, <1>6, <1>7 DEF InCall
<1>9. asts'[f].state # "SYNTAX_OK"
  BY <1>1, <1>6 DEF InCall
<1>10. call'[t] = call[t] /\ pc'[t] \in Inside
  BY <1>1 DEF Inside
<1> QED  BY <1>6, <1>8, <1>9, <1>10, StepKeepsCalm

(* A mark that is put on the AST of f.                                      *)
LEMMA MarkAst ==
  ASSUME Types, NEW f \in Files, NEW mark, asts' = [asts EXCEPT ![f].state = mark]
  PROVE  asts'[f].state = mark /\ asts'[f].defs = asts[f].defs /\ Written(f)
<1>1. asts = [g \in Files |-> [state |-> asts[g].state, defs |-> asts[g].defs]]
  BY DEF Types
<1>2. asts[f] = [state |-> asts[f].state, defs |-> asts[f].defs]
  BY <1>1
<1>3. /\ asts'[f] = [asts[f] EXCEPT !.state = mark]
      /\ \A g \in Files : g # f => asts'[g] = asts[g]
      /\ asts' = [g \in Files |-> asts'[g]]
  BY <1>1
<1>4. asts'[f] = [state |-> mark, defs |-> asts[f].defs]
  BY <1>2, <1>3
<1>5. \A g \in Files : asts'[g] = [state |-> asts'[g].state, defs |-> asts'[g].defs]
  BY <1>1, <1>3, <1>4
<1> QED  BY <1>3, <1>4, <1>5 DEF Written

(* yyparse gives up: what the scanner has of the stream stays there.        *)
LEMMA GiveUpStep ==
  ASSUME Calm, broken \in BOOLEAN, NEW t \in Threads, GiveUp(t), NEW f, f = call[t].file
  PROVE  Calm'
<1>1. /\ Goto(t, "scan", "clear") /\ call[t].op = "parse" /\ Lex
      /\ asts' = [asts EXCEPT ![f].state = "NONE"] /\ broken' = TRUE
      /\ UNCHANGED <<call, called, got, target, lost>>
  BY DEF GiveUp
<1>2. pc[t] = "scan" /\ pc[t] \in Inside /\ f \in Files
  BY <1>1, InsideAlone DEF Goto, Inside
<1>3. asts'[f].state = "NONE" /\ Written(call[t].file)
  BY <1>1, <1>2, MarkAst DEF Calm
<1>4. /\ StepOf(t) /\ InCall(t) /\ pc[t] = "scan" /\ pc'[t] = "clear"
      /\ f \in called /\ f \in Files /\ call[t].op \in {"parse", "dump"}
      /\ \/ AllAbandoned'
         \/ \E n \in Nat, k \in Nat : buffer' = Piece(f, n + 1, k)
  <2>1. "clear" \in Inside
    BY DEF Inside
  <2>2. got' = [u \in Threads |-> got'[u]] /\ \A u \in Threads \ {t} : got'[u] = got[u]
    BY <1>1 DEF Calm, Types
  <2>3. lost' \in {lost, lost \cup {Head(Available)}} /\ broken' \in BOOLEAN
    BY <1>1
  <2> QED  BY <1>1, <1>3, <2>1, <2>2, <2>3, LexIsStep
<1>5. Leaving(f)'
  <2>1. CASE AllAbandoned'
    BY <1>1, <2>1 DEF Leaving, AllAbandoned
  <2>2. CASE \E n \in Nat, k \in Nat : buffer' = Piece(f, n + 1, k)
    <3>1. \A g \in Buffered' : g = f
      BY <2>2 DEF Piece, Buffered
    <3> QED  BY <1>1, <1>3, <3>1 DEF Leaving
  <2> QED  BY <1>4, <2>1, <2>2
<1>6. InCall(t)'
  BY <1>1, <1>3, <1>4, <1>5 DEF InCall
<1>7. asts'[f].state # "SYNTAX_OK"
  BY <1>3
<1>8. call'[t] = call[t] /\ pc'[t] \in Inside
  BY <1>1, <1>4 DEF Inside
<1> QED  BY <1>4, <1>6, <1>7, <1>8, StepKeepsCalm

(* At the end of its stream a call has all there was memory for, and the    *)
(* scanner is empty.                                                        *)
LEMMA EndOfInputStep ==
  ASSUME Calm, broken \in BOOLEAN, NEW t \in Threads, EndOfInput(t), NEW f, f = call[t].file
  PROVE  Calm'
<1> DEFINE to == IF call[t].op = "parse" THEN "accept" ELSE "clear"
<1>1. /\ Goto(t, "scan", to) /\ to \in Inside /\ Available = << >>
      /\ UNCHANGED <<call, called, got, target, yyin, buffer, read, asts, lost, broken>>
  BY DEF EndOfInput, scanner, history, Inside
<1>2. pc[t] \in Inside
  BY <1>1 DEF Goto, Inside
<1>3. StepOf(t) /\ pc[t] = "scan" /\ pc'[t] = to
  <2> HIDE DEF to
  <2> QED  BY <1>1, <1>2, MoveIsStep, InsideAlone DEF Inside
<1>4. /\ f \in called /\ f \in Files /\ call[t].op \in {"parse", "dump"}
      /\ asts[f].state = "NONE" /\ Scanning(t, f)
      /\ (call[t].op = "parse" => target = f)
  BY <1>2, <1>3, InsideAlone DEF InCall
<1>5. buffer = << >>
  BY <1>1 DEF Available
<1>6. yyin = f /\ Within(t, f)
  BY <1>4, <1>5, AtTheStart DEF Scanning
<1>7. PICK n \in Nat, m \in Nat :
        /\ n + m = read[f] /\ buffer = Piece(f, n, m) /\ read[f] <= Len(Content[f])
        /\ (call[t].op = "parse" => Has(got[t], f, n, lost, broken))
  BY <1>6 DEF Within
<1>8. PICK k \in Nat : Available = Piece(f, n, k) /\ (k = 0 => n = Len(Content[f]))
  BY <1>4, <1>6, <1>7, RefillIsPiece
<1>9. n = Len(Content[f])
  <2>1. Piece(f, n, k) = << >>
    BY <1>1, <1>8
  <2>2. k = 0
    BY <2>1, PieceLen
  <2> QED  BY <1>8, <2>2
<1>10. InCall(t)'
  <2>1. Leaving(f)'
    BY <1>1, <1>5 DEF Leaving, Buffered
  <2> QED  BY <1>1, <1>3, <1>4, <1>5, <1>7, <1>9, <2>1 DEF InCall
<1>11. asts'[f].state # "SYNTAX_OK"
  BY <1>1, <1>4
<1>12. call'[t] = call[t] /\ pc'[t] \in Inside
  BY <1>1, <1>3
<1> QED  BY <1>3, <1>4, <1>10, <1>11, <1>12, StepKeepsCalm

(* What was parsed goes to the AST of the call.                             *)
LEMMA AcceptStep ==
  ASSUME Calm, broken \in BOOLEAN, NEW t \in Threads, Accept(t), NEW f, f = call[t].file
  PROVE  Calm'
<1>1. /\ Goto(t, "accept", "end") /\ asts' = [asts EXCEPT ![target].defs = got[t]]
      /\ UNCHANGED <<call, called, got, target, yyin, buffer, read, lost, broken>>
  BY DEF Accept, scanner, history
<1>2. pc[t] = "accept" /\ pc[t] \in Inside
  BY <1>1 DEF Goto, Inside
<1>3. /\ f \in called /\ f \in Files /\ call[t].op = "parse" /\ target = f
      /\ asts[f].state = "NONE" /\ Has(got[t], f, Len(Content[f]), lost, broken)
      /\ buffer = << >>
  BY <1>2, InsideAlone DEF InCall
<1>4. asts'[f].state = "NONE" /\ asts'[f].defs = got[t] /\ Written(call[t].file)
  <2>1. asts = [g \in Files |-> [state |-> asts[g].state, defs |-> asts[g].defs]]
    BY DEF Calm, Types
  <2>2. asts[f] = [state |-> asts[f].state, defs |-> asts[f].defs]
    BY <1>3, <2>1
  <2>3. /\ asts'[f] = [asts[f] EXCEPT !.defs = got[t]]
        /\ \A g \in Files : g # f => asts'[g] = asts[g]
        /\ asts' = [g \in Files |-> asts'[g]]
    BY <1>1, <1>3, <2>1
  <2>4. asts'[f] = [state |-> asts[f].state, defs |-> got[t]]
    BY <2>2, <2>3
  <2>5. \A g \in Files : asts'[g] = [state |-> asts'[g].state, defs |-> asts'[g].defs]
    BY <2>1, <2>3, <2>4
  <2> QED  BY <1>3, <2>3, <2>4, <2>5 DEF Written
<1>5. StepOf(t) /\ pc'[t] = "end"
  <2>1. "end" \in Inside /\ \A u \in Threads \ {t} : pc[u] \notin Inside
    BY <1>2, InsideAlone DEF Inside
  <2> QED  BY <1>1, <1>4, <2>1, MoveIsStep
<1>6. Good(f)'
  BY <1>1, <1>3, <1>4 DEF Good
<1>7. InCall(t)'
  BY <1>1, <1>3, <1>4, <1>5, <1>6 DEF InCall
<1>8. call'[t] = call[t] /\ pc'[t] \in Inside
  BY <1>1, <1>5 DEF Inside
<1> QED  BY <1>3, <1>5, <1>6, <1>7, <1>8, StepKeepsCalm

(* The AST of the call is marked as parsed.                                 *)
LEMMA SucceedStep ==
  ASSUME Calm, broken \in BOOLEAN, NEW t \in Threads, Succeed(t), NEW f, f = call[t].file
  PROVE  Calm'
<1>1. /\ Goto(t, "end", "clear") /\ asts' = [asts EXCEPT ![f].state = "SYNTAX_OK"]
      /\ UNCHANGED <<call, called, got, target, yyin, buffer, read, lost, broken>>
  BY DEF Succeed, scanner, history
<1>2. pc[t] = "end" /\ pc[t] \in Inside
  BY <1>1 DEF Goto, Inside
<1>3. /\ f \in called /\ f \in Files /\ call[t].op = "parse" /\ Good(f) /\ buffer = << >>
  BY <1>2, InsideAlone DEF InCall
<1>4. asts'[f].defs = asts[f].defs /\ Written(call[t].file)
  BY <1>1, <1>3, MarkAst DEF Calm
<1>5. StepOf(t) /\ pc'[t] = "clear"
  <2>1. "clear" \in Inside /\ \A u \in Threads \ {t} : pc[u] \notin Inside
    BY <1>2, InsideAlone DEF Inside
  <2> QED  BY <1>1, <1>4, <2>1, MoveIsStep
<1>6. Good(f)'
  BY <1>1, <1>3, <1>4 DEF Good
<1>7. InCall(t)'
  <2>1. Leaving(f)'
    BY <1>1, <1>3 DEF Leaving, Buffered
  <2> QED  BY <1>1, <1>3, <1>5, <2>1 DEF InCall
<1>8. call'[t] = call[t] /\ pc'[t] \in Inside
  BY <1>1, <1>5 DEF Inside
<1> QED  BY <1>3, <1>5, <1>6, <1>7, <1>8, StepKeepsCalm

(* A call returns: what it left in the scanner is of a stream given up.     *)
LEMMA ClearBusyStep ==
  ASSUME Calm, broken \in BOOLEAN, NEW t \in Threads, ClearBusy(t), NEW f, f = call[t].file
  PROVE  Calm'
<1>1. /\ Goto(t, "clear", "idle") /\ Return(t)
      /\ UNCHANGED <<called, target, yyin, buffer, read, asts, lost, broken>>
  BY DEF ClearBusy, scanner, history
<1>2. pc[t] = "clear" /\ pc[t] \in Inside
  BY <1>1 DEF Goto, Inside
<1>3. /\ \A u \in Threads \ {t} : pc[u] \notin Inside
      /\ f \in called /\ f \in Files /\ Leaving(f)
  BY <1>2, InsideAlone DEF InCall
<1>4. /\ pc' \in [Threads -> {"idle", "wait", "set"} \cup Inside]
      /\ pc'[t] = "idle" /\ \A u \in Threads \ {t} : pc'[u] = pc[u]
  BY <1>1 DEF Goto, Calm, Types
<1>5. /\ call' = [u \in Threads |-> call'[u]] /\ got' = [u \in Threads |-> got'[u]]
      /\ got'[t] = << >>
      /\ \A u \in Threads \ {t} : call'[u] = call[u] /\ got'[u] = got[u]
  BY <1>1 DEF Return, Calm, Types
<1>6. Types'
  BY <1>1, <1>4, <1>5 DEF Calm, Types
<1>7. StepOf(t)
  BY <1>1, <1>2, <1>3, <1>4, <1>5, <1>6 DEF StepOf
<1>8. InCall(t)'
  BY <1>4, <1>5 DEF InCall
<1>9. Leftover'
  <2>1. \A g \in Files : Abandoned(g) => Abandoned(g)'
    BY <1>4, <1>7, AbandonedStays
  <2>2. asts[f].state = "NONE" => Abandoned(f)'
    <3>1. \A u \in Threads \ {t} : pc[u] # "idle" => call[u].file # f
      BY <1>2 DEF Calm, Exclusive
    <3> QED  BY <1>1, <1>3, <1>4, <1>5, <3>1 DEF Abandoned
  <2>3. Buffered \subseteq Files /\ Buffered' = Buffered
    BY <1>1, BufferedFiles DEF Calm, Types, Buffered
  <2> QED  BY <1>1, <1>3, <2>1, <2>2, <2>3 DEF Leftover, AllAbandoned, Leaving
<1>10. asts'[f].state = "SYNTAX_OK" => Good(f)'
  BY <1>1, <1>3 DEF Calm, Good
<1> QED  BY <1>3, <1>4, <1>7, <1>8, <1>9, <1>10, StepKeepsCalm

-----------------------------------------------------------------------------
(* The theorems                                                             *)

(* What history remembers is never forgotten.                               *)
LEMMA HistoryStays ==
  ASSUME [Next]_vars, overlap \in BOOLEAN, broken \in BOOLEAN
  PROVE  overlap' \in BOOLEAN /\ broken' \in BOOLEAN /\ (overlap => overlap')
<1> USE DEF history
<1>1. CASE \E t \in Threads, op \in {"parse", "dump"}, f \in Files : Begin(t, op, f)
  BY <1>1 DEF Begin
<1>2. ASSUME NEW t \in Threads, Run(t)
      PROVE  overlap' \in BOOLEAN /\ broken' \in BOOLEAN /\ (overlap => overlap')
  <2>1. CASE SetBusy(t)
    BY <2>1 DEF SetBusy
  <2>2. CASE GiveUp(t)
    BY <2>2 DEF GiveUp
  <2>3. CASE Test(t) \/ SetTarget(t) \/ SetInput(t) \/ PrintToken(t) \/ EndOfInput(t)
    BY <2>3 DEF Test, SetTarget, SetInput, PrintToken, EndOfInput
  <2>4. CASE Definition(t) \/ Accept(t) \/ Succeed(t) \/ ClearBusy(t)
    BY <2>4 DEF Definition, Accept, Succeed, ClearBusy
  <2> QED  BY <1>2, <2>1, <2>2, <2>3, <2>4 DEF Run
<1>3. CASE UNCHANGED vars
  BY <1>3 DEF vars
<1> QED  BY <1>1, <1>2, <1>3 DEF Next, Quiet

(* Every step of a thread keeps Calm.                                       *)
LEMMA RunKeepsCalm ==
  ASSUME Calm, broken \in BOOLEAN, NEW t \in Threads, Run(t), ~overlap'
  PROVE  Calm'
<1>1. CASE Test(t)        BY <1>1, TestStep
<1>2. CASE SetBusy(t)     BY <1>2, SetBusyStep
<1>3. CASE SetTarget(t)   BY <1>3, SetTargetStep
<1>4. CASE SetInput(t)    BY <1>4, SetInputStep
<1>5. CASE Definition(t)  BY <1>5, DefinitionStep
<1>6. CASE GiveUp(t)      BY <1>6, GiveUpStep
<1>7. CASE PrintToken(t)  BY <1>7, PrintTokenStep
<1>8. CASE EndOfInput(t)  BY <1>8, EndOfInputStep
<1>9. CASE Accept(t)      BY <1>9, AcceptStep
<1>10. CASE Succeed(t)    BY <1>10, SucceedStep
<1>11. CASE ClearBusy(t)  BY <1>11, ClearBusyStep
<1> QED  BY <1>1, <1>2, <1>3, <1>4, <1>5, <1>6, <1>7, <1>8, <1>9, <1>10, <1>11 DEF Run

(* In the beginning no stream was touched and the scanner is empty.         *)
LEMMA InitIsCalm == Init => ParserInv
<1> SUFFICES ASSUME Init PROVE ParserInv
  OBVIOUS
<1> USE DEF Init
<1>1. Types
  <2>1. << >> \in Seq(Places)
    BY EmptySeq
  <2> QED  BY <2>1 DEF Types
<1>2. (\A f \in Files : Fresh(f)) /\ Leftover
  BY DEF Fresh, Unlost, Leftover, AllAbandoned, Buffered
<1>3. Exclusive /\ \A t \in Threads : InCall(t)
  BY DEF Exclusive, InCall, Inside
<1>4. Calm
  BY <1>1, <1>2, <1>3 DEF Calm, Fresh
<1> QED  BY <1>4 DEF ParserInv

(* Calm depends on the variables alone.                                     *)
LEMMA CalmStutters == ASSUME Calm, UNCHANGED vars PROVE Calm'
<1> USE DEF vars, caller, scanner, history
<1>1. Leftover => Leftover'
  BY DEF Leftover, AllAbandoned, Buffered, Abandoned
<1>2. \A f \in Files : Leaving(f) => Leaving(f)'
  BY DEF Leaving, Buffered, Abandoned
<1>3. \A t \in Threads, f \in Files : Scanning(t, f) => Scanning(t, f)'
  BY <1>1 DEF Scanning, Behind, Within, Unlost
<1>4. \A f \in Files : (Fresh(f) => Fresh(f)') /\ (Good(f) => Good(f)')
  BY DEF Fresh, Unlost, Good
<1>5. \A t \in Threads : InCall(t) => InCall(t)'
  BY <1>1, <1>2, <1>3, <1>4 DEF InCall
<1>6. Types' /\ Exclusive'
  BY DEF Calm, Types, Exclusive
<1> QED  BY <1>1, <1>4, <1>5, <1>6 DEF Calm

(* A step of any thread keeps the invariant.                                *)
LEMMA NextKeeps == ParserInv /\ [Next]_vars => ParserInv'
<1> SUFFICES ASSUME ParserInv, [Next]_vars PROVE ParserInv'
  OBVIOUS
<1>1. overlap' \in BOOLEAN /\ broken' \in BOOLEAN /\ (overlap => overlap')
  BY HistoryStays DEF ParserInv
<1>2. ASSUME ~overlap' PROVE Calm'
  <2>1. Calm /\ broken \in BOOLEAN
    BY <1>1, <1>2 DEF ParserInv
  <2>2. CASE \E t \in Threads, op \in {"parse", "dump"}, f \in Files : Begin(t, op, f)
    BY <2>1, <2>2, BeginStep
  <2>3. CASE \E t \in Threads : Run(t)
    BY <1>2, <2>1, <2>3, RunKeepsCalm
  <2>4. CASE UNCHANGED vars
    BY <2>1, <2>4, CalmStutters
  <2> QED  BY <2>2, <2>3, <2>4 DEF Next, Quiet
<1> QED  BY <1>1, <1>2 DEF ParserInv

(* While no two calls used the scanner at once, each call has it for        *)
(* itself, and finds in it no more than what calls left that gave up.       *)
THEOREM ParserInvariant == Spec => []ParserInv
<1> QED  BY InitIsCalm, NextKeeps, PTL DEF Spec

(* All that was kept of a stream that parses is all that is not lost.       *)
LEMMA KeptOfGood ==
  ASSUME NEW f \in Files, NEW s, NEW k, Taken(s, k, f, Len(Content[f]), lost)
  PROVE  Kept(f) = {s[i] : i \in k + 1 .. Len(s)}
<1>1. DOMAIN Content[f] = 1 .. Len(Content[f])
  BY ContentIsText, LenProperties DEF Files
<1>2. {i \in DOMAIN Content[f] : Content[f][i] = "def"} = 1 .. Len(Content[f])
  BY <1>1 DEF Taken
<1> QED  BY <1>2 DEF Taken, Kept

(* A successful parse holds the definitions of its own stream there was     *)
(* memory for, all of them and in order, whichever calls of Mon_Parse and   *)
(* Mon_DumpLex came before it in whichever threads, if none gave up.        *)
THEOREM ParserOwnStream == Spec => []OwnStream
<1>1. ParserInv => OwnStream
  <2> SUFFICES ASSUME ParserInv, ~overlap, ~broken, NEW f \in Files, asts[f].state = "SYNTAX_OK"
               PROVE  Elements(asts[f].defs) = Kept(f) /\ InOrder(asts[f].defs)
    BY DEF OwnStream
  <2> DEFINE s == asts[f].defs
  <2>1. Taken(s, 0, f, Len(Content[f]), lost)
    BY DEF ParserInv, Calm, Good, Has
  <2>2. Kept(f) = {s[i] : i \in 0 + 1 .. Len(s)}
    BY <2>1, KeptOfGood
  <2>3. DOMAIN s = 0 + 1 .. Len(s)
    BY <2>1, LenProperties DEF Taken
  <2> QED  BY <2>1, <2>2, <2>3 DEF Taken, Elements, InOrder
<1> QED  BY <1>1, ParserInvariant, PTL

(* Also after calls of Mon_Parse that gave up, a successful parse holds all *)
(* of its own stream there was memory for, in order: what those calls left  *)
(* in the scanner comes before it.                                          *)
THEOREM ParserNothingMissing == Spec => []NothingMissing
<1>1. ParserInv => NothingMissing
  <2> SUFFICES ASSUME ParserInv, ~overlap, NEW f \in Files, asts[f].state = "SYNTAX_OK"
               PROVE  \E k \in 0 .. Len(asts[f].defs) :
                        LET own == SubSeq(asts[f].defs, k + 1, Len(asts[f].defs))
                        IN  Elements(own) = Kept(f) /\ InOrder(own)
    BY DEF NothingMissing
  <2> PICK s : s = asts[f].defs
    OBVIOUS
  <2>1. PICK k \in Nat : Taken(s, k, f, Len(Content[f]), lost)
    BY DEF ParserInv, Calm, Good, Has
  <2>2. s \in Seq(Places) /\ Len(s) \in Nat /\ k \in 0 .. Len(s)
    BY <2>1, LenProperties DEF Taken
  <2>3. Kept(f) = {s[i] : i \in k + 1 .. Len(s)}
    BY ONLY <2>1, f \in Files, KeptOfGood
  <2> DEFINE own == SubSeq(s, k + 1, Len(s))
  <2>4. /\ own \in Seq(Places) /\ Len(own) = Len(s) - k
        /\ \A i \in 1 .. Len(s) - k : own[i] = s[k + i]
    <3>1. k + 1 \in 1 .. Len(s) + 1 /\ Len(s) \in (k + 1) - 1 .. Len(s)
          /\ Len(s) - (k + 1) + 1 = Len(s) - k
      BY <2>2
    <3>2. \A i \in 1 .. Len(s) - k : (k + 1) + i - 1 = k + i
      BY <2>2
    <3>3. /\ own \in Seq(Places) /\ Len(own) = Len(s) - (k + 1) + 1
          /\ \A i \in 1 .. Len(s) - (k + 1) + 1 : own[i] = s[(k + 1) + i - 1]
      BY <2>2, <3>1, SubSeqProperties
    <3> QED  BY <3>1, <3>2, <3>3
  <2>5. DOMAIN own = 1 .. Len(s) - k
    BY <2>4, LenProperties
  <2> HIDE DEF own
  <2>6. \A i \in 1 .. Len(s) - k : k + i \in k + 1 .. Len(s)
    BY <2>2
  <2>7. \A j \in k + 1 .. Len(s) : j - k \in 1 .. Len(s) - k /\ j = k + (j - k)
    BY <2>2
  <2>8. Elements(own) = Kept(f)
    <3>1. Elements(own) = {own[i] : i \in 1 .. Len(s) - k}
      BY <2>5 DEF Elements
    <3>2. \A x : x \in Elements(own) <=> x \in Kept(f)
      <4>1. ASSUME NEW i \in 1 .. Len(s) - k PROVE own[i] \in Kept(f)
        BY <2>3, <2>4, <2>6
      <4>2. ASSUME NEW j \in k + 1 .. Len(s) PROVE s[j] \in Elements(own)
        BY <2>4, <2>7, <3>1
      <4> QED  BY <2>3, <3>1, <4>1, <4>2
    <3> QED  BY <3>2
  <2>9. InOrder(own)
    <3> SUFFICES ASSUME NEW i \in 1 .. Len(s) - k, NEW j \in 1 .. Len(s) - k, i < j
                 PROVE  own[i][2] < own[j][2]
      BY <2>5 DEF InOrder
    <3>1. k + i < k + j
      BY <2>2
    <3>2. s[k + i][2] < s[k + j][2]
      BY <2>1, <2>6, <3>1 DEF Taken
    <3> QED  BY <2>4, <3>2
  <2> QED  BY <2>2, <2>8, <2>9 DEF own
<1> QED  BY <1>1, ParserInvariant, PTL

-----------------------------------------------------------------------------
(* Types, also when calls overlap                                           *)

Definitions == {p \in Places : Content[p[1]][p[2]] = "def"}

Typing ==
  /\ pc \in [Threads -> {"idle", "wait", "set"} \cup Inside]
  /\ call = [t \in Threads |-> call[t]]
  /\ \A t \in Threads : pc[t] # "idle" => call[t].file \in Files
  /\ got \in [Threads -> Seq(Definitions)]
  /\ read \in [Files -> Nat] /\ \A f \in Files : read[f] <= Len(Content[f])
  /\ buffer \in Seq(Places)
  /\ asts = [f \in Files |-> [state |-> asts[f].state, defs |-> asts[f].defs]]
  /\ \A f \in Files : asts[f].state \in {"NONE", "SYNTAX_OK"}
  /\ yyin \in Files \cup {NULL} /\ target \in Files \cup {NULL}
  /\ (\E t \in Threads : pc[t] = "scan") => yyin \in Files

(* yylex reads no further than to the end of a stream.                      *)
LEMMA LexTyped ==
  ASSUME Typing, Lex, NEW t \in Threads, pc[t] = "scan"
  PROVE  /\ read' \in [Files -> Nat] /\ \A f \in Files : read'[f] <= Len(Content[f])
         /\ buffer' \in Seq(Places) /\ yyin' = yyin /\ Head(Available) \in Places
<1>1. PICK f \in Files : f = yyin
  BY DEF Typing
<1>2. CASE buffer # << >>
  <2>1. buffer \in Seq(Places)
    BY DEF Typing
  <2> QED  BY <1>2, <2>1, LexTakesLeftover DEF Typing
<1>3. CASE buffer = << >>
  <2>1. read \in [Files -> Nat] /\ read[f] \in Nat /\ read[f] <= Len(Content[f])
    BY DEF Typing
  <2>2. Piece(f, read[f], 0) = << >> /\ read[f] + 0 = read[f]
    <3>1. Piece(f, read[f], 0) = << >>
      BY <2>1, PieceLen
    <3> QED  BY <2>1, <3>1
  <2>3. PICK k \in Nat : /\ Head(Available) = <<f, read[f] + 1>>
                         /\ buffer' = Piece(f, read[f] + 1, k)
                         /\ read[f] + 1 + k <= Len(Content[f])
                         /\ read' = [read EXCEPT ![f] = read[f] + 1 + k]
    <3>1. yyin = f /\ buffer = Piece(f, read[f], 0) /\ read[f] + 0 <= Len(Content[f])
      BY <1>1, <1>3, <2>1, <2>2
    <3> QED  BY <2>1, <2>2, <3>1, LexTakesNext
  <2>4. read[f] + 1 \in Nat /\ read[f] + 1 + k \in Nat
    BY <2>1
  <2>5. buffer' \in Seq(Places)
    <3>1. Piece(f, read[f] + 1, k) \in [1 .. k -> Places]
      BY <2>4 DEF Piece, Places
    <3> QED  BY <2>3, <3>1, IsASeq
  <2>6. read' \in [Files -> Nat] /\ \A g \in Files : read'[g] <= Len(Content[g])
    BY <2>1, <2>3, <2>4 DEF Typing
  <2>7. Head(Available) \in Places
    BY <2>3, <2>4 DEF Places
  <2> QED  BY <2>5, <2>6, <2>7 DEF Lex
<1> QED  BY <1>2, <1>3

(* The steps of a call but Definition, GiveUp, Accept and Succeed write     *)
(* nothing but where it is.                                                 *)
LEMMA ScannerTyping ==
  ASSUME Typing, NEW t \in Threads, Definition(t) \/ GiveUp(t) \/ PrintToken(t)
  PROVE  Typing'
<1>1. pc[t] = "scan" /\ Lex /\ call' = call /\ target' = target
  BY DEF Definition, GiveUp, PrintToken, Goto, caller
<1>2. /\ read' \in [Files -> Nat] /\ \A f \in Files : read'[f] <= Len(Content[f])
      /\ buffer' \in Seq(Places) /\ yyin' = yyin /\ Head(Available) \in Places
  BY <1>1, LexTyped
<1>3. /\ pc' \in [Threads -> {"idle", "wait", "set"} \cup Inside]
      /\ \A u \in Threads : (pc'[u] # "idle" => pc[u] # "idle") /\ (pc'[u] = "scan" => pc[u] = "scan")
  <2>1. pc' = pc \/ pc' = [pc EXCEPT ![t] = "clear"]
    BY DEF Definition, GiveUp, PrintToken, Goto, caller
  <2> QED  BY <1>1, <2>1 DEF Typing, Inside
<1>4. got' \in [Threads -> Seq(Definitions)]
  <2>1. CASE got' = got
    BY <2>1 DEF Typing
  <2>2. CASE got' # got
    <3>1. got' = [got EXCEPT ![t] = Append(@, Head(Available))] /\ Token = "def"
      BY <2>2 DEF Definition, GiveUp, PrintToken, caller
    <3>2. Head(Available) \in Definitions
      BY <1>2, <3>1 DEF Token, Definitions
    <3>3. Append(got[t], Head(Available)) \in Seq(Definitions)
      BY <3>2, AppendProperties DEF Typing
    <3> QED  BY <3>1, <3>3 DEF Typing
  <2> QED  BY <2>1, <2>2
<1>5. /\ asts' = [f \in Files |-> [state |-> asts'[f].state, defs |-> asts'[f].defs]]
      /\ \A f \in Files : asts'[f].state \in {"NONE", "SYNTAX_OK"}
  <2>1. CASE asts' = asts
    BY <2>1 DEF Typing
  <2>2. CASE asts' # asts
    <3>1. asts' = [asts EXCEPT ![call[t].file].state = "NONE"] /\ call[t].file \in Files
      BY <1>1, <2>2 DEF Definition, GiveUp, PrintToken, Typing
    <3>2. Types
      <4>1. Seq(Definitions) \subseteq Seq(Places)
        BY DEF Definitions
      <4> QED  BY DEF Types, Typing
    <3> QED  BY <3>1, <3>2, MarkAst DEF Typing, Written
  <2> QED  BY <2>1, <2>2
<1> QED  BY <1>1, <1>2, <1>3, <1>4, <1>5 DEF Typing

(* Every step keeps the types.                                              *)
LEMMA StepTyping ==
  ASSUME Typing, [Next]_vars
  PROVE  Typing'
<1> USE DEF scanner, history
<1>1. ASSUME NEW t \in Threads, NEW op, NEW f \in Files, Begin(t, op, f)
      PROVE  Typing'
  <2>1. pc' = [pc EXCEPT ![t] = "wait"] /\ call' = [call EXCEPT ![t] = [op |-> op, file |-> f]]
        /\ UNCHANGED <<got, target, yyin, buffer, read, asts>>
    BY <1>1 DEF Begin, Goto
  <2> QED  BY <2>1 DEF Typing
<1>2. ASSUME NEW t \in Threads, Test(t) \/ SetBusy(t) \/ EndOfInput(t)
      PROVE  Typing'
  <2>1. /\ pc[t] # "idle" /\ UNCHANGED <<call, got, target, yyin, buffer, read, asts>>
        /\ \E to \in {"set", "target", "input", "accept", "clear"} : pc' = [pc EXCEPT ![t] = to]
    BY <1>2 DEF Test, SetBusy, EndOfInput, Goto
  <2> QED  BY <2>1 DEF Typing, Inside
<1>3. ASSUME NEW t \in Threads, SetTarget(t) \/ SetInput(t)
      PROVE  Typing'
  <2>1. /\ pc[t] # "idle" /\ UNCHANGED <<call, got, buffer, read, asts>>
        /\ \/ pc' = [pc EXCEPT ![t] = "input"] /\ target' = call[t].file /\ yyin' = yyin
           \/ pc' = [pc EXCEPT ![t] = "scan"] /\ target' = target /\ yyin' = call[t].file
    BY <1>3 DEF SetTarget, SetInput, Goto
  <2> QED  BY <2>1 DEF Typing, Inside
<1>4. ASSUME NEW t \in Threads, Accept(t) \/ Succeed(t)
      PROVE  Typing'
  <2>1. /\ pc[t] # "idle" /\ UNCHANGED <<call, got, target, yyin, buffer, read>>
        /\ \E to \in {"end", "clear"} : pc' = [pc EXCEPT ![t] = to]
    BY <1>4 DEF Accept, Succeed, Goto
  <2>2. \/ asts' = [asts EXCEPT ![target].defs = got[t]]
        \/ asts' = [asts EXCEPT ![call[t].file].state = "SYNTAX_OK"]
    BY <1>4 DEF Accept, Succeed
  <2>3. /\ asts' = [f \in Files |-> [state |-> asts'[f].state, defs |-> asts'[f].defs]]
        /\ \A f \in Files : asts'[f].state \in {"NONE", "SYNTAX_OK"}
    <3>1. asts = [f \in Files |-> [state |-> asts[f].state, defs |-> asts[f].defs]]
          /\ \A f \in Files : asts[f].state \in {"NONE", "SYNTAX_OK"}
      BY DEF Typing
    <3>2. \A f \in Files : asts[f] = [state |-> asts[f].state, defs |-> asts[f].defs]
      BY <3>1
    <3>3. asts' = [f \in Files |-> asts'[f]]
      BY <2>2, <3>1
    <3>4. ASSUME NEW f \in Files
          PROVE  \/ asts'[f] = asts[f]
                 \/ asts'[f] = [state |-> asts[f].state, defs |-> got[t]]
                 \/ asts'[f] = [state |-> "SYNTAX_OK", defs |-> asts[f].defs]
      <4>1. \/ asts'[f] = asts[f] \/ asts'[f] = [asts[f] EXCEPT !.defs = got[t]]
            \/ asts'[f] = [asts[f] EXCEPT !.state = "SYNTAX_OK"]
        BY <2>2, <3>1
      <4> QED  BY <3>2, <4>1
    <3> QED  BY <3>1, <3>2, <3>3, <3>4
  <2> QED  BY <2>1, <2>3 DEF Typing, Inside
<1>5. ASSUME NEW t \in Threads, ClearBusy(t) PROVE Typing'
  <2>1. /\ pc' = [pc EXCEPT ![t] = "idle"] /\ call' = [call EXCEPT ![t] = NULL]
        /\ got' = [got EXCEPT ![t] = << >>] /\ UNCHANGED <<target, yyin, buffer, read, asts>>
    BY <1>5 DEF ClearBusy, Goto, Return
  <2>2. << >> \in Seq(Definitions)
    BY EmptySeq
  <2> QED  BY <2>1, <2>2 DEF Typing
<1>6. CASE UNCHANGED vars
  BY <1>6 DEF Typing, vars, caller
<1>7. ASSUME NEW t \in Threads, Run(t) PROVE Typing'
  BY <1>2, <1>3, <1>4, <1>5, <1>7, ScannerTyping DEF Run
<1> QED  BY <1>1, <1>6, <1>7 DEF Next, Quiet

(* Whatever the calls do, the scanner reads no stream beyond its end and    *)
(* yyparse takes nothing but definitions for definitions.                   *)
THEOREM ParserTypeOK == Spec => []TypeOK
<1>1. Init => Typing
  <2> SUFFICES ASSUME Init PROVE Typing
    OBVIOUS
  <2>1. << >> \in Seq(Definitions) /\ << >> \in Seq(Places)
    BY EmptySeq
  <2>2. \A f \in Files : Len(Content[f]) \in Nat
    BY ContentIsText, LenProperties DEF Files
  <2> QED  BY <2>1, <2>2 DEF Init, Typing
<1>2. Typing /\ [Next]_vars => Typing'
  BY StepTyping
<1>3. Typing => TypeOK
  <2> SUFFICES ASSUME Typing PROVE TypeOK
    OBVIOUS
  <2>1. \A f \in Files : read[f] \in 0 .. Len(Content[f])
    BY ContentIsText, LenProperties DEF Files, Typing
  <2>2. ASSUME NEW t \in Threads, NEW i \in DOMAIN got[t]
        PROVE  Content[got[t][i][1]][got[t][i][2]] = "def"
    <3>1. got[t] \in Seq(Definitions)
      BY DEF Typing
    <3>2. got[t][i] \in Definitions
      BY <3>1, ElementOfSeq, LenProperties
    <3> QED  BY <3>2 DEF Definitions
  <2> QED  BY <2>1, <2>2 DEF TypeOK, Typing
<1> QED  BY <1>1, <1>2, <1>3, PTL DEF Spec
=============================================================================
