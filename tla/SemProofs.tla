------------------------------- MODULE SemProofs -------------------------------
(***************************************************************************)
(* Proofs about Sem, for every set of programs.                            *)
(***************************************************************************)
EXTENDS Sem, Lemmas

\* The strengthening of VerdictMatchesAsts: which loops have run, and that
\* nothing is being resolved before the first.
AnalyseInv ==
  /\ astState \in Seq(AstStates) /\ astState # << >>
  /\ phase \in 0 .. 5 /\ ast \in Nat
  /\ phase > 0 => ast \in 1 .. Len(astState)
  /\ phase = 0 => agenda = << >> /\ verdict
  /\ result = "SUCCESS" => phase > 1
  /\ VerdictMatchesAsts

-----------------------------------------------------------------------------
(* The tasks                                                               *)

\* A task of the recursive resolvers leaves the loops of Analyse, the AST
\* states and the verdict alone: only the end of a definition reports.
LEMMA StepsKeepTheLoop == Step => agenda # << >> /\ result = "running" /\ UNCHANGED loop
<1> SUFFICES ASSUME Step PROVE agenda # << >> /\ result = "running" /\ UNCHANGED loop
  OBVIOUS
<1>1. CASE TypeDeclaration  BY <1>1 DEF TypeDeclaration, At
<1>2. CASE FunctionDeclaration  BY <1>2 DEF FunctionDeclaration, At
<1>3. CASE Parameter  BY <1>3 DEF Parameter, At
<1>4. CASE DeclarationEnd  BY <1>4 DEF DeclarationEnd, At
<1>5. CASE VarDefinition  BY <1>5 DEF VarDefinition, At, Statement
<1>6. CASE TypeDescription  BY <1>6 DEF TypeDescription, At
<1>7. CASE AliasDescription  BY <1>7 DEF AliasDescription, At
<1>8. CASE RecordField  BY <1>8 DEF RecordField, At, AtField
<1>9. CASE RecordEnd  BY <1>9 DEF RecordEnd, At
<1>10. CASE ElementOfAlias  BY <1>10 DEF ElementOfAlias, At
<1>11. CASE ElementOfRecord  BY <1>11 DEF ElementOfRecord, At
<1>12. CASE OuterLayer  BY <1>12 DEF OuterLayer, At
<1>13. CASE FunctionBody  BY <1>13 DEF FunctionBody, At
<1>14. CASE MissingReturn  BY <1>14 DEF MissingReturn, At
<1>15. CASE Block  BY <1>15 DEF Block, At
<1>16. CASE StatementEnd  BY <1>16 DEF StatementEnd, At
<1>17. CASE PushScope  BY <1>17 DEF PushScope, At
<1>18. CASE PopScope  BY <1>18 DEF PopScope, At
<1>19. CASE Compound  BY <1>19 DEF Compound, At, Statement
<1>20. CASE While  BY <1>20 DEF While, At, Statement
<1>21. CASE WhileEnd  BY <1>21 DEF WhileEnd, At
<1>22. CASE BreakOrContinue  BY <1>22 DEF BreakOrContinue, At, Statement
<1>23. CASE Store  BY <1>23 DEF Store, At
<1>24. CASE Return  BY <1>24 DEF Return, At, Statement
<1>25. CASE ReturnValue  BY <1>25 DEF ReturnValue, At
<1>26. CASE Condition  BY <1>26 DEF Condition, At
<1>27. CASE NamedVariable  BY <1>27 DEF NamedVariable, At
<1>28. CASE FieldOrElement  BY <1>28 DEF FieldOrElement, At
<1>29. CASE Call  BY <1>29 DEF Call, At
<1>30. CASE CallEnd  BY <1>30 DEF CallEnd, At
<1>31. CASE Comparison  BY <1>31 DEF Comparison, At
<1>32. CASE FieldAccess  BY <1>32 DEF FieldAccess, At
<1>33. CASE ElementAccess  BY <1>33 DEF ElementAccess, At
<1>34. CASE Argument  BY <1>34 DEF Argument, At
<1>35. CASE Expression  BY <1>35 DEF Expression, At
<1>36. CASE Operation  BY <1>36 DEF Operation, At
<1>37. CASE StringLiteral  BY <1>37 DEF StringLiteral, At
<1>38. CASE NewArray  BY <1>38 DEF NewArray, At
<1>39. CASE MistypedString  BY <1>39 DEF MistypedString, At
<1> QED
  BY <1>1, <1>2, <1>3, <1>4, <1>5, <1>6, <1>7, <1>8, <1>9, <1>10, <1>11, <1>12, <1>13, <1>14, <1>15,
     <1>16, <1>17, <1>18, <1>19, <1>20, <1>21, <1>22, <1>23, <1>24, <1>25, <1>26, <1>27, <1>28, <1>29,
     <1>30, <1>31, <1>32, <1>33, <1>34, <1>35, <1>36, <1>37, <1>38, <1>39 DEF Step

\* So does a crash or a failed allocation, which only end the analysis.
LEMMA FailuresKeepTheVerdict ==
  ASSUME OutOfMemory \/ LateOutOfMemory \/ UndefinedBehaviour
  PROVE  /\ UNCHANGED <<phase, ast, astState, verdict>>
         /\ result' # "SUCCESS"
         /\ agenda' \in {agenda, << >>}
<1>1. CASE OutOfMemory  BY <1>1 DEF OutOfMemory
<1>2. CASE LateOutOfMemory  BY <1>2 DEF LateOutOfMemory, Crash
<1>3. CASE UndefinedBehaviour  BY <1>3 DEF UndefinedBehaviour, Crash
<1> QED
  BY <1>1, <1>2, <1>3

-----------------------------------------------------------------------------
(* The loops of Analyse                                                    *)

(* Before the first AST, no verdict is given.                              *)
LEMMA InitEstablishes == Init => AnalyseInv
<1> SUFFICES ASSUME Init PROVE AnalyseInv
  OBVIOUS
<1>1. /\ asts \in Programs
      /\ astState \in [DOMAIN asts -> AstStates]
      /\ phase = 0 /\ ast = 0 /\ agenda = << >> /\ verdict = TRUE /\ result = "running"
  BY Zenon DEF Init
<1>2. asts # << >> /\ asts \in Seq({asts[a] : a \in DOMAIN asts})
  BY <1>1, ProgramsAreSequences DEF IsList
<1>3. astState \in Seq(AstStates)
  BY <1>1, <1>2 DEF AstStates
<1>4. astState # << >>
  BY <1>1, <1>2
<1> QED
  BY <1>1, <1>3, <1>4 DEF AnalyseInv, VerdictMatchesAsts, Visited

\* Counting up to one more
LEMMA UpToNext ==
  ASSUME NEW a \in Nat, 1 <= a
  PROVE  /\ 1 .. 0 = {}
         /\ \A b \in 1 .. a : b = a \/ b \in 1 .. a - 1
         /\ \A b \in 1 .. a - 1 : b \in 1 .. a /\ b # a
  OBVIOUS

\* Entering an AST: in the first loop it joins those visited, marked SEM_OK.
LEMMA EnterKeepsTheInvariant ==
  ASSUME AnalyseInv, NEW p \in 1 .. 5, NEW a \in 1 .. Len(astState), Enter(p, a),
         \/ p = 1 /\ a = 1 /\ phase = 0
         \/ p = phase /\ a = ast + 1
         \/ p = phase + 1 /\ p > 1 /\ a = 1 /\ ast = Len(astState)
  PROVE  AnalyseInv'
<1>0. /\ astState \in Seq(AstStates) /\ astState # << >> /\ phase \in 0 .. 5 /\ ast \in Nat
      /\ phase = 0 => agenda = << >> /\ verdict
      /\ result = "SUCCESS" => phase > 1
      /\ VerdictMatchesAsts
  BY DEF AnalyseInv
<1>9. /\ astState \in Seq(AstStates) /\ astState # << >> /\ phase \in 0 .. 5 /\ ast \in Nat
  BY DEF AnalyseInv
<1>1. /\ phase' = p /\ ast' = a /\ verdict' = verdict /\ result' = result /\ agenda' = agenda
      /\ astState' = IF p = 1 THEN [astState EXCEPT ![a] = "SEM_OK"] ELSE astState
  BY DEF Enter
<1>2. /\ Len(astState) \in Nat /\ a \in Nat /\ 1 <= a /\ a <= Len(astState)
      /\ DOMAIN astState = 1 .. Len(astState)
  BY <1>0
<1>3. /\ astState' \in Seq(AstStates) /\ Len(astState') = Len(astState) /\ astState' # << >>
      /\ DOMAIN astState' = DOMAIN astState
  <2>1. CASE p = 1
    BY <2>1, <1>1, <1>2, <1>9 DEF AstStates
  <2>2. CASE p # 1
    BY <2>2, <1>1, <1>9
  <2> QED
    BY <2>1, <2>2
<1>4. VerdictMatchesAsts'
  <2>1. CASE p = 1
    <3>1. (phase = 0 /\ a = 1) \/ (phase = 1 /\ a = ast + 1)
      BY <2>1, <1>0
    <3>2. Visited = 1 .. a - 1
      <4>1. CASE phase = 0
        BY <4>1, <3>1, UpToNext DEF Visited
      <4>2. CASE phase # 0
        <5>1. phase = 1 /\ a = ast + 1
          BY <4>2, <3>1
        <5>2. ast = a - 1
          BY <5>1, <1>9
        <5> QED
          BY <5>1, <5>2 DEF Visited
      <4> QED
        BY <4>1, <4>2
    <3>3. Visited' = 1 .. a
      BY <2>1, <1>1 DEF Visited
    <3>4. astState'[a] = "SEM_OK" /\ \A b \in DOMAIN astState : b # a => astState'[b] = astState[b]
      BY <2>1, <1>0, <1>1, <1>2
    <3>5. \A b \in 1 .. a : b \in DOMAIN astState
      BY <1>2
    <3>6. \A b \in Visited' : b = a \/ (b \in Visited /\ astState'[b] = astState[b])
      BY <3>2, <3>3, <3>4, <3>5, <1>2, UpToNext
    <3>7. \A b \in Visited : b \in Visited' /\ astState'[b] = astState[b]
      BY <3>2, <3>3, <3>4, <3>5, <1>2, UpToNext
    <3>8. result' # "SUCCESS"
      BY <1>0, <1>1, <3>1
    <3> QED
      BY <3>4, <3>6, <3>7, <3>8, <1>0, <1>1 DEF VerdictMatchesAsts
  <2>2. CASE p # 1
    <3>1. astState' = astState
      BY <2>2, <1>1
    <3>2. phase > 1 \/ (phase = 1 /\ ast = Len(astState))
      BY <2>2, <1>0
    <3>3. Visited = DOMAIN astState
      <4>1. CASE phase > 1
        BY <4>1, <1>9 DEF Visited
      <4>2. CASE phase = 1 /\ ast = Len(astState)
        BY <4>2, <1>2 DEF Visited
      <4> QED
        BY <3>2, <4>1, <4>2
    <3>4. Visited' = DOMAIN astState
      BY <2>2, <3>1, <1>1 DEF Visited
    <3> QED
      BY <3>1, <3>3, <3>4, <1>0, <1>1 DEF VerdictMatchesAsts
  <2> QED
    BY <2>1, <2>2
<1>7. phase' \in 0 .. 5 /\ ast' \in Nat /\ phase' # 0 /\ ast' \in 1 .. Len(astState')
  BY <1>1, <1>2, <1>3
<1>8. result' = "SUCCESS" => phase' > 1
  BY <1>0, <1>1
<1> QED
  BY <1>3, <1>4, <1>8, <1>7 DEF AnalyseInv

\* The end of a definition, the only report: the current AST has been visited.
LEMMA DefinitionEndKeepsTheInvariant ==
  ASSUME AnalyseInv, DefinitionEnd
  PROVE  AnalyseInv'
<1> USE DEF AnalyseInv
<1>1. /\ UNCHANGED <<phase, ast, result>>
      /\ astState' = IF ok THEN astState ELSE [astState EXCEPT ![ast] = "SEM_ERR"]
      /\ verdict' = (verdict /\ ok)
      /\ agenda # << >> /\ phase > 0
  BY DEF DefinitionEnd, At
<1>2. /\ astState' \in Seq(AstStates) /\ astState' # << >> /\ Len(astState') = Len(astState)
      /\ DOMAIN astState = 1 .. Len(astState) /\ DOMAIN astState' = DOMAIN astState
  BY <1>1 DEF AstStates
<1>3. Visited' = Visited /\ Visited \subseteq DOMAIN astState /\ ast \in Visited
  BY <1>1, <1>2 DEF Visited
<1>4. VerdictMatchesAsts'
  <2>1. CASE ok
    BY <2>1, <1>1, <1>3 DEF VerdictMatchesAsts
  <2>2. CASE ~ok
    <3>1. astState'[ast] = "SEM_ERR" /\ ~verdict'
      BY <2>2, <1>1, <1>2
    <3>2. \A b \in Visited : b = ast \/ astState'[b] = astState[b]
      BY <2>2, <1>1, <1>2, <1>3
    <3>3. result' # "SUCCESS"
      BY <1>1 DEF DefinitionEnd, At
    <3> QED
      BY <3>1, <3>2, <3>3, <1>3 DEF VerdictMatchesAsts
  <2> QED
    BY <2>1, <2>2
<1> QED
  BY <1>1, <1>2, <1>4

(* Every step of the analysis keeps the invariant.                         *)
LEMMA NextKeepsTheInvariant == AnalyseInv /\ [Next]_vars => AnalyseInv'
<1> SUFFICES ASSUME AnalyseInv, [Next]_vars PROVE AnalyseInv'
  OBVIOUS
<1> USE DEF AnalyseInv
<1>1. CASE Start
  <2>1. Enter(1, 1) /\ phase = 0 /\ 1 \in 1 .. Len(astState)
    BY <1>1 DEF Start
  <2> QED
    BY <2>1, EnterKeepsTheInvariant
<1>2. CASE NextAst
  <2>1. Enter(phase, ast + 1) /\ phase \in 1 .. 5 /\ ast + 1 \in 1 .. Len(astState)
    BY <1>2 DEF NextAst, targetAstCount
  <2> QED
    BY <2>1, EnterKeepsTheInvariant
<1>3. CASE NextPhase
  <2>1. /\ Enter(phase + 1, 1) /\ phase + 1 \in 1 .. 5 /\ phase + 1 > 1
        /\ 1 \in 1 .. Len(astState) /\ ast = Len(astState)
    BY <1>3 DEF NextPhase, targetAstCount
  <2> QED
    BY <2>1, EnterKeepsTheInvariant
<1>4. CASE VisitDefinition
  BY <1>4 DEF VisitDefinition, VerdictMatchesAsts, Visited
<1>5. CASE DefinitionEnd
  BY <1>5, DefinitionEndKeepsTheInvariant
<1>6. CASE Finish
  <2>1. UNCHANGED <<phase, ast, astState, verdict, agenda>> /\ phase = 5
        /\ (result' = "SUCCESS" => verdict)
    BY <1>6 DEF Finish
  <2> QED
    BY <2>1 DEF VerdictMatchesAsts, Visited
<1>7. CASE Step
  <2>1. agenda # << >> /\ UNCHANGED <<phase, ast, astState, verdict, result>>
    BY <1>7, StepsKeepTheLoop DEF loop
  <2> QED
    BY <2>1 DEF VerdictMatchesAsts, Visited
<1>8. CASE OutOfMemory \/ LateOutOfMemory \/ UndefinedBehaviour
  <2>1. /\ UNCHANGED <<phase, ast, astState, verdict>>
        /\ result' # "SUCCESS"
        /\ agenda' \in {agenda, << >>}
    BY <1>8, FailuresKeepTheVerdict
  <2> QED
    BY <2>1 DEF VerdictMatchesAsts, Visited
<1>9. CASE UNCHANGED vars
  BY <1>9 DEF vars, loop, VerdictMatchesAsts, Visited
<1>10. CASE Spin \/ Returned
  BY <1>9, <1>10 DEF Spin, Returned
<1> QED
  BY <1>1, <1>2, <1>3, <1>4, <1>5, <1>6, <1>7, <1>8, <1>9, <1>10 DEF Next

\* For every set of programs, a caller may trust either sign of failure: the
\* return code says error exactly when some AST is marked SEM_ERR, and after
\* MON_SUCCESS every AST has been analysed and is marked SEM_OK.
THEOREM VerdictAgreesWithStates == Spec => []VerdictMatchesAsts
<1>1. Init => AnalyseInv
  BY InitEstablishes
<1>2. AnalyseInv /\ [Next]_vars => AnalyseInv'
  BY NextKeepsTheInvariant
<1>3. AnalyseInv => VerdictMatchesAsts
  BY DEF AnalyseInv
<1> QED
  BY <1>1, <1>2, <1>3, PTL DEF Spec

-----------------------------------------------------------------------------
(* Where the agenda leads                                                  *)

\* A depth of the scope chain with a loop level; the one nothing is at.
Place == (Nat \ {0}) \X Nat
NoPlace == <<0, 0>>
Global == <<1, 0>>

Deeper(x) == <<x[1] + 1, x[2]>>
InLoop(x) == <<x[1] + 1, x[2] + 1>>

\* The tasks of which one that fails returns to a marker at the same place.
Ordinary(op) == op \notin Markers \cup {"push", "pop", "block", "param", "field"}

\* What one task does: it is met at x and leaves for y, and the nearest marker
\* from it on is met at f, the nearest behind it at g.
Rule(op, x, y, f, g) ==
  /\ op = "push" => y = Deeper(x) /\ f = g
  /\ op = "pop" => x = Deeper(y) /\ f = g
  /\ op = "block" => y = x /\ f = g
  /\ op \in {"param", "field"} => x = Deeper(y) /\ f = y /\ g = y
  /\ op = "wend" => x = InLoop(y) /\ f = x
  /\ op \in {"mark", "endstmt", "enddef"} => y = x /\ f = x
  /\ Ordinary(op) => y = x /\ f = x /\ g = x

\* The places s before each of the tasks of a and e of the nearest marker from
\* each on, which end in the global scope and without a marker.
Fits(a, s, e) ==
  /\ s \in [1 .. Len(a) + 1 -> Place]
  /\ DOMAIN e = 1 .. Len(a) + 1
  /\ s[Len(a) + 1] = Global
  /\ e[Len(a) + 1] = NoPlace
  /\ \A i \in 1 .. Len(a) : Rule(a[i].op, s[i], s[i + 1], e[i], e[i + 1])

\* From place x the tasks of a lead back to the global scope, and the nearest
\* marker is met at f.
Leads(a, x, f) ==
  IsList(a) /\ \E s, e : Fits(a, s, e) /\ s[1] = x /\ e[1] = f

(* With nothing left to do, the place is the global scope.                  *)
LEMMA NothingLeads ==
  /\ Leads(<< >>, Global, NoPlace)
  /\ \A x, f : Leads(<< >>, x, f) => x = Global /\ f = NoPlace
<1>1. Len(<< >>) = 0 /\ 1 .. Len(<< >>) = {} /\ 1 .. Len(<< >>) + 1 = {1} /\ IsList(<< >>)
  BY ShortLists
<1>2. Leads(<< >>, Global, NoPlace)
  <2> DEFINE s == [i \in {1} |-> Global]
             e == [i \in {1} |-> NoPlace]
  <2>1. Fits(<< >>, s, e) /\ s[1] = Global /\ e[1] = NoPlace
    BY <1>1 DEF Fits, Place, Global
  <2> HIDE DEF s, e
  <2> QED  BY <1>1, <2>1 DEF Leads
<1>3. ASSUME NEW x, NEW f, Leads(<< >>, x, f) PROVE x = Global /\ f = NoPlace
  <2>1. PICK s, e : Fits(<< >>, s, e) /\ s[1] = x /\ e[1] = f
    BY <1>3 DEF Leads
  <2> QED  BY <1>1, <2>1 DEF Fits
<1> QED  BY <1>2, <1>3

(* Where the head of the agenda stands and what it leaves                   *)
LEMMA HeadLeads ==
  ASSUME NEW a, NEW x, NEW f, Leads(a, x, f), a # << >>
  PROVE  /\ x \in Place
         /\ \E y, g : y \in Place /\ Rule(a[1].op, x, y, f, g) /\ Leads(Tail(a), y, g)
<1>1. PICK s, e : Fits(a, s, e) /\ s[1] = x /\ e[1] = f
  BY DEF Leads
<1>2. /\ IsList(Tail(a)) /\ Len(a) \in Nat /\ Len(a) > 0
      /\ Len(Tail(a)) = Len(a) - 1
      /\ \A i \in 1 .. Len(a) - 1 : Tail(a)[i] = a[i + 1]
  BY Rest DEF Leads
<1> DEFINE t == [i \in 1 .. Len(a) |-> s[i + 1]]
           d == [i \in 1 .. Len(a) |-> e[i + 1]]
<1>3. /\ 1 \in 1 .. Len(a) /\ 1 \in 1 .. Len(a) + 1 /\ 2 \in 1 .. Len(a) + 1
      /\ s \in [1 .. Len(a) + 1 -> Place]
      /\ \A i \in 1 .. Len(a) : i + 1 \in 1 .. Len(a) + 1
      /\ \A i \in 1 .. Len(a) - 1 : i \in 1 .. Len(a) /\ i + 1 \in 1 .. Len(a)
  BY <1>1, <1>2 DEF Fits
<1>4. Fits(Tail(a), t, d)
  <2>1. t \in [1 .. Len(Tail(a)) + 1 -> Place] /\ DOMAIN d = 1 .. Len(Tail(a)) + 1
    BY <1>2, <1>3
  <2>2. t[Len(Tail(a)) + 1] = Global /\ d[Len(Tail(a)) + 1] = NoPlace
    <3>1. Len(Tail(a)) + 1 = Len(a) /\ Len(a) \in 1 .. Len(a)
      BY <1>2
    <3> QED  BY <1>1, <3>1 DEF Fits
  <2>3. ASSUME NEW i \in 1 .. Len(Tail(a))
        PROVE  Rule(Tail(a)[i].op, t[i], t[i + 1], d[i], d[i + 1])
    <3>1. i \in 1 .. Len(a) - 1 /\ i \in 1 .. Len(a) /\ i + 1 \in 1 .. Len(a)
      BY <1>2, <1>3
    <3>2. Rule(a[i + 1].op, s[i + 1], s[i + 1 + 1], e[i + 1], e[i + 1 + 1])
      BY <1>1, <3>1 DEF Fits
    <3>3. t[i] = s[i + 1] /\ t[i + 1] = s[i + 1 + 1] /\ d[i] = e[i + 1] /\ d[i + 1] = e[i + 1 + 1]
      BY <3>1
    <3> QED  BY <1>2, <3>1, <3>2, <3>3
  <2> HIDE DEF t, d
  <2> QED  BY <2>1, <2>2, <2>3 DEF Fits
<1>5. t[1] = s[2] /\ d[1] = e[2]
  BY <1>3
<1>6. Rule(a[1].op, x, s[2], f, e[2])
  <2>1. Rule(a[1].op, s[1], s[1 + 1], e[1], e[1 + 1])
    BY <1>1, <1>3 DEF Fits
  <2> QED  BY <1>1, <2>1
<1> HIDE DEF t, d
<1>7. Leads(Tail(a), s[2], e[2])
  BY <1>2, <1>4, <1>5 DEF Leads
<1> QED  BY <1>1, <1>3, <1>6, <1>7

(* A task in front of an agenda                                            *)
LEMMA TaskLeads ==
  ASSUME NEW t, NEW a, NEW x \in Place, NEW y, NEW f, NEW g,
         Leads(a, y, g), Rule(t.op, x, y, f, g)
  PROVE  Leads(<<t>> \o a, x, f)
<1>1. PICK s, e : Fits(a, s, e) /\ s[1] = y /\ e[1] = g
  BY DEF Leads
<1> DEFINE b == <<t>> \o a
           r == [i \in 1 .. Len(a) + 2 |-> IF i = 1 THEN x ELSE s[i - 1]]
           d == [i \in 1 .. Len(a) + 2 |-> IF i = 1 THEN f ELSE e[i - 1]]
<1>2. /\ IsList(b) /\ Len(a) \in Nat /\ Len(b) = Len(a) + 1
      /\ b[1] = t
      /\ \A i \in 2 .. Len(a) + 1 : b[i] = a[i - 1]
  <2>1. IsList(<<t>>) /\ IsList(a) /\ Len(<<t>>) = 1 /\ <<t>>[1] = t
    BY ShortLists DEF Leads
  <2>2. /\ IsList(b) /\ Len(a) \in Nat /\ DOMAIN b = 1 .. 1 + Len(a)
        /\ \A i \in 1 .. 1 : b[i] = <<t>>[i]
        /\ \A i \in 1 .. 1 + Len(a) : i > 1 => b[i] = a[i - 1]
    BY <2>1, Joined
  <2>3. b \in Seq({b[i] : i \in DOMAIN b})
    BY <2>2 DEF IsList
  <2>4. DOMAIN b = 1 .. Len(b) /\ Len(b) \in Nat
    BY <2>3
  <2>5. Len(b) = Len(a) + 1
    BY <2>2, <2>4
  <2> HIDE DEF b
  <2> QED  BY <2>1, <2>2, <2>5
<1> HIDE DEF b
<1>3. s \in [1 .. Len(a) + 1 -> Place]
  BY <1>1 DEF Fits
<1>4. Fits(b, r, d)
  <2>1. r \in [1 .. Len(b) + 1 -> Place] /\ DOMAIN d = 1 .. Len(b) + 1
    <3>1. Len(b) + 1 = Len(a) + 2
      BY <1>2
    <3>2. ASSUME NEW i \in 1 .. Len(a) + 2 PROVE r[i] \in Place
      <4>1. CASE i = 1
        BY <4>1
      <4>2. CASE i # 1
        <5>1. i - 1 \in 1 .. Len(a) + 1
          BY <1>2, <4>2
        <5> QED  BY <1>3, <4>2, <5>1
      <4> QED  BY <4>1, <4>2
    <3> QED  BY <3>1, <3>2
  <2>2. r[Len(b) + 1] = Global /\ d[Len(b) + 1] = NoPlace
    <3>1. Len(b) + 1 \in 1 .. Len(a) + 2 /\ Len(b) + 1 # 1 /\ Len(b) + 1 - 1 = Len(a) + 1
      BY <1>2
    <3> QED  BY <1>1, <3>1 DEF Fits
  <2>3. ASSUME NEW i \in 1 .. Len(b)
        PROVE  Rule(b[i].op, r[i], r[i + 1], d[i], d[i + 1])
    <3>1. CASE i = 1
      <4>1. r[1] = x /\ r[2] = s[1] /\ d[1] = f /\ d[2] = e[1]
        BY <1>2
      <4> QED  BY <1>1, <1>2, <3>1, <4>1
    <3>2. CASE i # 1
      <4>1. i - 1 \in 1 .. Len(a) /\ i \in 2 .. Len(a) + 1 /\ i \in 1 .. Len(a) + 2
            /\ i + 1 \in 1 .. Len(a) + 2 /\ i + 1 # 1 /\ i + 1 - 1 = i /\ i - 1 + 1 = i
        BY <1>2, <3>2
      <4>2. Rule(a[i - 1].op, s[i - 1], s[i - 1 + 1], e[i - 1], e[i - 1 + 1])
        BY <1>1, <4>1 DEF Fits
      <4>3. r[i] = s[i - 1] /\ r[i + 1] = s[i] /\ d[i] = e[i - 1] /\ d[i + 1] = e[i]
        BY <3>2, <4>1
      <4> QED  BY <1>2, <4>1, <4>2, <4>3
    <3> QED  BY <3>1, <3>2
  <2> HIDE DEF r, d
  <2> QED  BY <2>1, <2>2, <2>3 DEF Fits
<1>5. r[1] = x /\ d[1] = f
  BY <1>2
<1> HIDE DEF r, d
<1>6. Leads(b, x, f)
  BY <1>2, <1>4, <1>5 DEF Leads
<1> QED  BY <1>6 DEF b

(* A task that fails returns to a marker, which stands where it expects to. *)
LEMMA FailureLeads ==
  ASSUME NEW a, NEW x, NEW f \in Place, Leads(a, x, f)
  PROVE  Leads(FromMarker(a), f, f)
<1>1. PICK s, e : Fits(a, s, e) /\ s[1] = x /\ e[1] = f
  BY DEF Leads
<1> DEFINE n == Len(a)
           markers == {i \in 1 .. n : a[i].op \in Markers}
<1>2. IsList(a) /\ n \in Nat
  <2>1. a \in Seq({a[i] : i \in DOMAIN a})
    BY DEF Leads, IsList
  <2> QED  BY <2>1, LenProperties DEF Leads
<1>3. ASSUME NEW i \in 1 .. n, i \notin markers PROVE e[i] = e[i + 1]
  <2>1. a[i].op \notin Markers /\ Rule(a[i].op, s[i], s[i + 1], e[i], e[i + 1])
    BY <1>1, <1>3 DEF Fits
  <2> QED  BY <2>1 DEF Rule, Markers, Ordinary
<1>4. ASSUME NEW m \in 1 .. n + 1, \A i \in 1 .. n : i < m => i \notin markers
      PROVE  e[m] = f
  <2> DEFINE S == {k \in Nat : k < m => e[k + 1] = f}
  <2>1. 0 \in S
    BY <1>1
  <2>2. ASSUME NEW k \in Nat, k \in S PROVE k + 1 \in S
    <3> SUFFICES ASSUME k + 1 < m PROVE e[k + 1 + 1] = f
      OBVIOUS
    <3>1. k < m /\ k + 1 \in 1 .. n
      BY <1>2
    <3>2. e[k + 1] = f /\ k + 1 \notin markers
      BY <1>4, <2>2, <3>1
    <3>3. e[k + 1] = e[k + 1 + 1]
      BY <1>3, <3>1, <3>2
    <3> QED  BY <3>2, <3>3
  <2>3. m - 1 \in Nat /\ m - 1 < m /\ m - 1 + 1 = m
    BY <1>2
  <2>4. m - 1 \in S
    <3> HIDE DEF S
    <3> QED  BY <2>1, <2>2, <2>3, SetInduction
  <2> QED  BY <2>3, <2>4
<1>5. markers # {}
  <2> SUFFICES ASSUME markers = {} PROVE FALSE
    OBVIOUS
  <2>1. e[n + 1] = f
    BY <1>2, <1>4
  <2> QED  BY <1>1, <2>1 DEF Fits, Place, NoPlace
<1>6. /\ Min(markers) \in markers
      /\ \A i \in markers : Min(markers) <= i
  <2>1. markers \in SUBSET Nat
    BY <1>2
  <2> HIDE DEF markers
  <2>2. \E i \in markers : \A j \in markers : i <= j
    BY <1>5, <2>1, Least
  <2> QED  BY <2>2 DEF Min
<1> DEFINE m == Min(markers)
           b == SubSeq(a, m, n)
<1>7. m \in 1 .. n /\ a[m].op \in Markers
  BY <1>6
<1>8. e[m] = f
  <2>1. m \in 1 .. n + 1
    BY <1>2, <1>7
  <2>2. \A i \in 1 .. n : i < m => i \notin markers
    BY <1>2, <1>6, <1>7
  <2> HIDE DEF m, markers
  <2> QED  BY <1>4, <2>1, <2>2
<1>9. s[m] = f
  <2>1. Rule(a[m].op, s[m], s[m + 1], e[m], e[m + 1])
    BY <1>1, <1>7 DEF Fits
  <2> HIDE DEF m
  <2> QED  BY <1>7, <1>8, <2>1 DEF Rule, Markers
<1> HIDE DEF m, markers
<1>10. /\ IsList(b) /\ Len(b) = n - m + 1
       /\ \A i \in 1 .. n - m + 1 : b[i] = a[m + i - 1]
  <2> DEFINE U == {a[i] : i \in DOMAIN a}
  <2>1. a \in Seq(U) /\ DOMAIN a = 1 .. n
    BY <1>2 DEF IsList
  <2>2. \A i \in m .. n : a[i] \in U
    BY <1>2, <1>7, <2>1
  <2> HIDE DEF U
  <2>3. /\ b \in Seq(U) /\ Len(b) = IF m <= n THEN n - m + 1 ELSE 0
        /\ \A i \in 1 .. n - m + 1 : b[i] = a[m + i - 1]
    BY <1>2, <1>7, <2>2, SubSeqProperties
  <2>4. m <= n
    BY <1>2, <1>7
  <2> QED  BY <2>3, <2>4, SeqIsList
<1> HIDE DEF b
<1> DEFINE r == [i \in 1 .. n - m + 2 |-> s[m + i - 1]]
           d == [i \in 1 .. n - m + 2 |-> e[m + i - 1]]
<1>11. /\ s \in [1 .. n + 1 -> Place]
       /\ \A i \in 1 .. n - m + 2 : m + i - 1 \in 1 .. n + 1
       /\ \A i \in 1 .. n - m + 1 : m + i - 1 \in 1 .. n /\ i \in 1 .. n - m + 2 /\ i + 1 \in 1 .. n - m + 2
       /\ Len(b) + 1 = n - m + 2 /\ n - m + 2 \in 1 .. n - m + 2 /\ m + (n - m + 2) - 1 = n + 1
       /\ 1 \in 1 .. n - m + 2 /\ m + 1 - 1 = m
       /\ \A i \in 1 .. n - m + 1 : m + (i + 1) - 1 = m + i - 1 + 1
  <2>1. s \in [1 .. n + 1 -> Place]
    BY <1>1 DEF Fits
  <2> HIDE DEF n
  <2> QED  BY <1>2, <1>7, <1>10, <2>1
<1>12. Fits(b, r, d)
  <2>1. r \in [1 .. Len(b) + 1 -> Place] /\ DOMAIN d = 1 .. Len(b) + 1
    BY <1>11
  <2>2. r[Len(b) + 1] = Global /\ d[Len(b) + 1] = NoPlace
    <3>1. s[n + 1] = Global /\ e[n + 1] = NoPlace
      BY <1>1 DEF Fits
    <3> HIDE DEF n
    <3> QED  BY <1>11, <3>1
  <2>3. ASSUME NEW i \in 1 .. Len(b)
        PROVE  Rule(b[i].op, r[i], r[i + 1], d[i], d[i + 1])
    <3>1. i \in 1 .. n - m + 1
      BY <1>10
    <3>2. Rule(a[m + i - 1].op, s[m + i - 1], s[m + i - 1 + 1], e[m + i - 1], e[m + i - 1 + 1])
      BY <1>1, <1>11, <3>1 DEF Fits
    <3>3. r[i] = s[m + i - 1] /\ r[i + 1] = s[m + i - 1 + 1] /\ d[i] = e[m + i - 1] /\ d[i + 1] = e[m + i - 1 + 1]
      BY <1>11, <3>1
    <3> QED  BY <1>10, <3>1, <3>2, <3>3
  <2> HIDE DEF r, d
  <2> QED  BY <2>1, <2>2, <2>3 DEF Fits
<1>13. r[1] = f /\ d[1] = f
  BY <1>8, <1>9, <1>11
<1> HIDE DEF r, d
<1>14. Leads(b, f, f)
  BY <1>10, <1>12, <1>13 DEF Leads
<1> QED  BY <1>14 DEF FromMarker, b, m, markers

-----------------------------------------------------------------------------
(* Tasks that take the place of the head                                    *)

\* In front of any agenda met at y, whose nearest marker is met at g, the tasks
\* are met at x and their nearest marker at f.
Run(tasks, x, y, f, g) ==
  IsList(tasks) /\ \A a : Leads(a, y, g) => Leads(tasks \o a, x, f)

(* No task at all                                                          *)
LEMMA NoRun == ASSUME NEW x, NEW g PROVE Run(<< >>, x, x, g, g)
<1>1. ASSUME NEW a, Leads(a, x, g) PROVE Leads(<< >> \o a, x, g)
  <2>1. IsList(a)  BY <1>1 DEF Leads
  <2> QED  BY <1>1, <2>1, JoinedToNothing
<1> QED  BY <1>1, ShortLists DEF Run

(* One task                                                                *)
LEMMA TaskRun ==
  ASSUME NEW t, NEW x \in Place, NEW y, NEW f, NEW g, Rule(t.op, x, y, f, g)
  PROVE  Run(<<t>>, x, y, f, g)
BY TaskLeads, ShortLists DEF Run

(* Tasks after others                                                      *)
LEMMA RunAfterRun ==
  ASSUME NEW ts, NEW us, NEW x, NEW y, NEW z, NEW f, NEW g, NEW h,
         Run(ts, x, y, f, g), Run(us, y, z, g, h)
  PROVE  Run(ts \o us, x, z, f, h)
<1>1. IsList(ts) /\ IsList(us) /\ IsList(ts \o us)
  BY Joined DEF Run
<1>2. ASSUME NEW a, Leads(a, z, h) PROVE Leads((ts \o us) \o a, x, f)
  <2>1. Leads(ts \o (us \o a), x, f)
    BY <1>2 DEF Run
  <2>2. (ts \o us) \o a = ts \o (us \o a)
    <3>1. IsList(a)
      BY <1>2 DEF Leads
    <3> QED  BY <1>1, <3>1, JoinAssociative, SMTT(20)
  <2> QED  BY <2>1, <2>2
<1> QED  BY <1>1, <1>2 DEF Run

(* Two tasks, and three                                                    *)
LEMMA TwoRun ==
  ASSUME NEW t, NEW u, NEW x, NEW y, NEW z, NEW f, NEW g, NEW h,
         Run(<<t>>, x, y, f, g), Run(<<u>>, y, z, g, h)
  PROVE  Run(<<t, u>>, x, z, f, h)
BY RunAfterRun, TwoJoined

(* Three tasks                                                             *)
LEMMA ThreeRun ==
  ASSUME NEW t, NEW u, NEW v, NEW w, NEW x, NEW y, NEW z, NEW f, NEW g, NEW h, NEW k,
         Run(<<t>>, w, x, f, g), Run(<<u>>, x, y, g, h), Run(<<v>>, y, z, h, k)
  PROVE  Run(<<t, u, v>>, w, z, f, k)
<1>1. Run(<<t, u>>, w, y, f, h)
  BY TwoRun
<1>2. <<t, u>> \o <<v>> = <<t, u, v>>
  BY ThreeJoined
<1> QED  BY <1>1, <1>2, RunAfterRun

-----------------------------------------------------------------------------
(* The scope chain                                                         *)

\* The chain has a global scope with nothing but global declarations in it.
Chain(c) ==
  /\ IsList(c) /\ c # << >> /\ IsList(c[1])
  /\ \A i \in DOMAIN c[1] : c[1][i].kind \in GlobalKinds

\* The place the analyser is at, whose agenda leads back.
Disciplined(c, l, a) == Chain(c) /\ \E f : Leads(a, <<Len(c), l>>, f)

(* A scope goes on top.                                                    *)
LEMMA PushKeepsChain ==
  ASSUME NEW c, NEW scope, Chain(c)
  PROVE  Chain(Append(c, scope)) /\ Len(Append(c, scope)) = Len(c) + 1 /\ Len(c) \in Nat
<1> DEFINE U == {c[i] : i \in DOMAIN c} \cup {scope}
           d == Append(c, scope)
<1>1. c \in Seq(U) /\ scope \in U
  BY DEF Chain, IsList
<1> HIDE DEF U
<1>2. /\ d \in Seq(U) /\ Len(d) = Len(c) + 1 /\ Len(c) \in Nat
      /\ \A i \in 1 .. Len(c) : d[i] = c[i]
  BY <1>1, AppendProperties
<1>3. Len(c) > 0
  BY <1>1, <1>2, EmptySeq DEF Chain
<1>4. d[1] = c[1] /\ d # << >>
  BY <1>2, <1>3
<1>5. IsList(d)
  BY <1>2, SeqIsList
<1> HIDE DEF d
<1>6. Chain(d)
  BY <1>4, <1>5 DEF Chain
<1> QED  BY <1>2, <1>6 DEF d

(* The innermost scope goes.                                               *)
LEMMA PopKeepsChain ==
  ASSUME NEW c, Chain(c), Len(c) > 1
  PROVE  Chain(Pop(c)) /\ Len(Pop(c)) = Len(c) - 1 /\ Len(c) \in Nat /\ Pop(c)[1] = c[1]
<1> DEFINE U == {c[i] : i \in DOMAIN c}
           d == SubSeq(c, 1, Len(c) - 1)
<1>1. c \in Seq(U) /\ Len(c) \in Nat /\ \A i \in 1 .. Len(c) - 1 : c[i] \in U
  <2>1. c \in Seq(U)
    BY DEF Chain, IsList
  <2>2. Len(c) \in Nat /\ DOMAIN c = 1 .. Len(c)
    BY <2>1
  <2> QED  BY <2>1, <2>2
<1> HIDE DEF U
<1>2. /\ d \in Seq(U) /\ Len(d) = Len(c) - 1
      /\ \A i \in 1 .. Len(c) - 1 - 1 + 1 : d[i] = c[1 + i - 1]
  BY <1>1, SubSeqProperties
<1>3. d[1] = c[1] /\ d # << >>
  <2>1. 1 \in 1 .. Len(c) - 1 - 1 + 1 /\ 1 + 1 - 1 = 1 /\ Len(d) > 0
    BY <1>1, <1>2
  <2>2. d[1] = c[1 + 1 - 1]
    BY <1>2, <2>1
  <2> HIDE DEF d
  <2> QED  BY <1>2, <2>1, <2>2
<1>4. IsList(d)
  BY <1>2, SeqIsList
<1>5. d = Pop(c)
  BY DEF Pop, Front
<1> HIDE DEF d
<1>6. Chain(d)
  BY <1>3, <1>4 DEF Chain
<1> QED  BY <1>1, <1>2, <1>3, <1>5, <1>6

(* A chain with another scope at one depth.                                *)
LEMMA ChangedScope ==
  ASSUME NEW c, Chain(c), NEW d \in 1 .. Len(c), NEW scope,
         d = 1 => IsList(scope) /\ \A i \in DOMAIN scope : scope[i].kind \in GlobalKinds
  PROVE  Chain([c EXCEPT ![d] = scope]) /\ Len([c EXCEPT ![d] = scope]) = Len(c)
<1> DEFINE U == {c[i] : i \in DOMAIN c} \cup {scope}
           b == [c EXCEPT ![d] = scope]
<1>1. c \in Seq(U) /\ scope \in U
  BY DEF Chain, IsList
<1> HIDE DEF U
<1>2. b \in Seq(U) /\ Len(b) = Len(c) /\ Len(c) \in Nat
  BY <1>1
<1>3. b # << >>
  BY <1>2
<1>4. b[1] = IF d = 1 THEN scope ELSE c[1]
  BY <1>1, <1>2
<1>5. IsList(b)
  BY <1>2, SeqIsList
<1> HIDE DEF b
<1>6. Chain(b)
  BY <1>3, <1>4, <1>5 DEF Chain
<1> QED  BY <1>2, <1>6 DEF b

(* A list of global declarations with one more, and without the last       *)
LEMMA GlobalDeclarations ==
  ASSUME NEW scope, IsList(scope), \A i \in DOMAIN scope : scope[i].kind \in GlobalKinds
  PROVE  /\ \A s : s.kind \in GlobalKinds =>
              /\ IsList(Append(scope, s))
              /\ \A i \in DOMAIN Append(scope, s) : Append(scope, s)[i].kind \in GlobalKinds
         /\ IsList(Front(scope))
         /\ \A i \in DOMAIN Front(scope) : Front(scope)[i].kind \in GlobalKinds
<1>1. ASSUME NEW s, s.kind \in GlobalKinds
      PROVE  /\ IsList(Append(scope, s))
             /\ \A i \in DOMAIN Append(scope, s) : Append(scope, s)[i].kind \in GlobalKinds
  <2> DEFINE U == {scope[i] : i \in DOMAIN scope} \cup {s}
             b == Append(scope, s)
  <2>1. scope \in Seq(U) /\ s \in U /\ \A u \in U : u.kind \in GlobalKinds
    BY <1>1 DEF IsList
  <2> HIDE DEF U
  <2>2. b \in Seq(U)
    BY <2>1, AppendProperties
  <2> HIDE DEF b
  <2>3. IsList(b) /\ \A i \in DOMAIN b : b[i] \in U
    BY <2>2, SeqIsList
  <2> QED  BY <2>1, <2>3 DEF b
<1>2. IsList(Front(scope)) /\ \A i \in DOMAIN Front(scope) : Front(scope)[i].kind \in GlobalKinds
  <2> DEFINE U == {scope[i] : i \in DOMAIN scope}
             b == SubSeq(scope, 1, Len(scope) - 1)
  <2>1. scope \in Seq(U) /\ \A u \in U : u.kind \in GlobalKinds
    BY DEF IsList
  <2>2. Len(scope) \in Nat /\ \A i \in 1 .. Len(scope) - 1 : scope[i] \in U
    <3>1. Len(scope) \in Nat /\ DOMAIN scope = 1 .. Len(scope)
      BY <2>1
    <3> QED  BY <3>1
  <2> HIDE DEF U
  <2>3. b \in Seq(U)
    BY <2>2, SubSeqProperties
  <2>4. b = Front(scope)
    BY DEF Front
  <2> HIDE DEF b
  <2>5. IsList(b) /\ \A i \in DOMAIN b : b[i] \in U
    BY <2>3, SeqIsList
  <2> QED  BY <2>1, <2>4, <2>5
<1> QED  BY <1>1, <1>2

(* A declaration in the current scope: in the global one, of global kind.  *)
LEMMA DeclareKeepsChain ==
  ASSUME NEW c, NEW s, Chain(c), Len(c) > 1 \/ s.kind \in GlobalKinds
  PROVE  Chain(Declare(c, s)) /\ Len(Declare(c, s)) = Len(c)
<1>1. Len(c) \in Nat /\ Len(c) \in 1 .. Len(c)
  BY PushKeepsChain, EmptySeq, LenProperties DEF Chain, IsList
<1>2. IsList(c[1]) /\ \A i \in DOMAIN c[1] : c[1][i].kind \in GlobalKinds
  BY DEF Chain
<1>3. Len(c) = 1 => /\ IsList(Append(c[Len(c)], s))
                    /\ \A i \in DOMAIN Append(c[Len(c)], s) : Append(c[Len(c)], s)[i].kind \in GlobalKinds
  BY <1>2, GlobalDeclarations
<1> DEFINE scope == Append(c[Len(c)], s)
<1>4. Declare(c, s) = [c EXCEPT ![Len(c)] = scope]
  BY DEF Declare
<1> HIDE DEF scope
<1>5. Len(c) = 1 => IsList(scope) /\ \A i \in DOMAIN scope : scope[i].kind \in GlobalKinds
  BY <1>3 DEF scope
<1> DEFINE n == Len(c)
<1>6. n \in 1 .. Len(c) /\ (n = 1 => IsList(scope) /\ \A i \in DOMAIN scope : scope[i].kind \in GlobalKinds)
  BY <1>1, <1>5
<1> HIDE DEF n
<1>7. Chain([c EXCEPT ![n] = scope]) /\ Len([c EXCEPT ![n] = scope]) = Len(c)
  BY <1>6, ChangedScope
<1> QED  BY <1>4, <1>7 DEF n

(* The function around the parameters is taken out.                        *)
LEMMA RemoveKeepsChain ==
  ASSUME NEW c, Chain(c), Len(c) > 1
  PROVE  Chain(RemoveFunction(c)) /\ Len(RemoveFunction(c)) = Len(c) - 1
<1> DEFINE d == Pop(c)
           scope == Front(d[Len(c) - 1])
<1>1. Chain(d) /\ Len(d) = Len(c) - 1 /\ Len(c) \in Nat
  BY PopKeepsChain
<1>2. RemoveFunction(c) = [d EXCEPT ![Len(c) - 1] = scope]
  BY DEF RemoveFunction
<1> HIDE DEF d
<1>3. Len(c) - 1 = 1 => IsList(scope) /\ \A i \in DOMAIN scope : scope[i].kind \in GlobalKinds
  <2> SUFFICES ASSUME Len(c) - 1 = 1
               PROVE  IsList(scope) /\ \A i \in DOMAIN scope : scope[i].kind \in GlobalKinds
    OBVIOUS
  <2>1. scope = Front(d[1])
    OBVIOUS
  <2>2. IsList(d[1]) /\ \A i \in DOMAIN d[1] : d[1][i].kind \in GlobalKinds
    BY <1>1 DEF Chain
  <2> QED  BY <2>1, <2>2, GlobalDeclarations
<1>4. Len(c) - 1 \in 1 .. Len(d)
  BY <1>1
<1> HIDE DEF scope
<1> DEFINE n == Len(c) - 1
<1>5. n \in 1 .. Len(d) /\ (n = 1 => IsList(scope) /\ \A i \in DOMAIN scope : scope[i].kind \in GlobalKinds)
  BY <1>3, <1>4
<1> HIDE DEF n
<1>6. Chain([d EXCEPT ![n] = scope]) /\ Len([d EXCEPT ![n] = scope]) = Len(d)
  BY <1>1, <1>5, ChangedScope
<1> QED  BY <1>1, <1>2, <1>6 DEF n

-----------------------------------------------------------------------------
(* Steps of ordinary tasks                                                 *)

\* Tasks that return to the place they are met at and fail to it.
Plain(tasks) == \A x \in Place : Run(tasks, x, x, x, x)

\* The tasks that are not markers and open or close no scope themselves
LEMMA OrdinaryTasks ==
  \A op \in {"typedecl", "funcdecl", "vardef", "typedesc", "funcimpl", "alias", "layer", "retcheck",
             "stmt", "store", "ret", "cond", "compare", "var", "getfield", "getindex", "call", "arg",
             "callend", "exp", "unop", "binop", "condexp", "varexp", "callexp", "cast", "sized"} :
    Ordinary(op)
BY DEF Ordinary, Markers

(* A few ordinary tasks are plain.                                         *)
LEMMA PlainTasks ==
  /\ Plain(<< >>)
  /\ \A t : Ordinary(t.op) => Plain(<<t>>)
  /\ \A t, u : Ordinary(t.op) /\ Ordinary(u.op) => Plain(<<t, u>>)
  /\ \A t, u, v : Ordinary(t.op) /\ Ordinary(u.op) /\ Ordinary(v.op) => Plain(<<t, u, v>>)
<1>1. \A t : Ordinary(t.op) => Plain(<<t>>)
  <2> SUFFICES ASSUME NEW t, Ordinary(t.op), NEW x \in Place PROVE Run(<<t>>, x, x, x, x)
    BY DEF Plain
  <2>1. Rule(t.op, x, x, x, x)
    BY DEF Rule, Ordinary, Markers
  <2> QED  BY <2>1, TaskRun
<1>2. \A t, u : Ordinary(t.op) /\ Ordinary(u.op) => Plain(<<t, u>>)
  BY <1>1, TwoRun DEF Plain
<1>3. \A t, u, v : Ordinary(t.op) /\ Ordinary(u.op) /\ Ordinary(v.op) => Plain(<<t, u, v>>)
  BY <1>1, ThreeRun DEF Plain
<1> QED  BY <1>1, <1>2, <1>3, NoRun DEF Plain

(* Plain tasks after plain tasks                                           *)
LEMMA PlainAfterPlain ==
  ASSUME NEW ts, NEW us, Plain(ts), Plain(us)
  PROVE  Plain(ts \o us)
BY RunAfterRun DEF Plain

\* The head was ordinary, and plain tasks take its place, or it failed.
Onward ==
  /\ agenda # << >> /\ Ordinary(agenda[1].op)
  /\ agenda' = FromMarker(agenda) \/ \E ts : Plain(ts) /\ agenda' = ts \o Tail(agenda)

(* The ways on of an ordinary task                                         *)
LEMMA GoesOnward ==
  ASSUME agenda # << >>, Ordinary(agenda[1].op),
         Fail \/ Done \/ \E ts : Plain(ts) /\ Then(ts)
  PROVE  Onward
BY PlainTasks DEF Onward, Fail, Done, Then

(* A scope chain as long as before is as disciplined after the step.       *)
LEMMA OrdinaryKeepsDiscipline ==
  ASSUME NEW c, NEW l, NEW a, NEW d, NEW b,
         Disciplined(c, l, a), a # << >>, Ordinary(a[1].op),
         Chain(d), Len(d) = Len(c),
         b = FromMarker(a) \/ \E ts : Plain(ts) /\ b = ts \o Tail(a)
  PROVE  Disciplined(d, l, b)
<1> DEFINE x == <<Len(c), l>>
<1>1. PICK f : Leads(a, x, f)
  BY DEF Disciplined
<1> HIDE DEF x
<1>2. PICK y, g : y \in Place /\ Rule(a[1].op, x, y, f, g) /\ Leads(Tail(a), y, g)
  BY <1>1, HeadLeads
<1>3. y = x /\ f = x /\ g = x
  BY <1>2 DEF Rule
<1>4. CASE b = FromMarker(a)
  <2>1. Leads(b, x, x)
    BY <1>1, <1>2, <1>3, <1>4, FailureLeads
  <2> QED  BY <2>1 DEF Disciplined, x
<1>5. ASSUME NEW ts, Plain(ts), b = ts \o Tail(a) PROVE Disciplined(d, l, b)
  <2>1. Leads(b, x, x)
    BY <1>2, <1>3, <1>5 DEF Plain, Run
  <2> QED  BY <2>1 DEF Disciplined, x
<1> QED  BY <1>4, <1>5

(* The tasks of declarations and type definitions go onward.               *)
LEMMA DeclarationsGoOnward ==
  ASSUME \/ TypeDeclaration \/ VarDefinition \/ TypeDescription \/ AliasDescription
         \/ ElementOfAlias \/ ElementOfRecord \/ OuterLayer
  PROVE  Onward /\ loopLevel' = loopLevel
<1>1. \A k : Plain(FromLayer(k))
  <2> SUFFICES ASSUME NEW k PROVE Plain(FromLayer(k))
    OBVIOUS
  <2>1. Ordinary(Task("layer", here, k).op)
    BY OrdinaryTasks DEF Task
  <2> QED  BY <2>1, PlainTasks DEF FromLayer
<1>2. CASE TypeDeclaration
  <2>1. agenda # << >> /\ agenda[1].op = "typedecl" /\ (Fail \/ Done) /\ loopLevel' = loopLevel
    BY <1>2 DEF TypeDeclaration, At, context
  <2> QED  BY <2>1, GoesOnward, OrdinaryTasks
<1>3. CASE VarDefinition
  <2>1. /\ agenda # << >> /\ agenda[1].op \in {"vardef", "stmt"} /\ (Fail \/ Done)
        /\ loopLevel' = loopLevel
    BY <1>3 DEF VarDefinition, At, Statement, context
  <2> QED  BY <2>1, GoesOnward, OrdinaryTasks
<1>4. CASE TypeDescription
  <2> DEFINE base == IF node.desc.kind = "record"
                     THEN <<Task("push", here, NoNode), Task("field", here, 1)>>
                     ELSE <<Task("alias", here, NoNode)>>
  <2>1. Plain(<<Task("push", here, NoNode), Task("field", here, 1)>>)
    <3> SUFFICES ASSUME NEW x \in Place
                 PROVE  Run(<<Task("push", here, NoNode), Task("field", here, 1)>>, x, x, x, x)
      BY DEF Plain
    <3>1. Deeper(x) \in Place
      BY DEF Deeper, Place
    <3>2. /\ Rule(Task("push", here, NoNode).op, x, Deeper(x), x, x)
          /\ Rule(Task("field", here, 1).op, Deeper(x), x, x, x)
      BY DEF Task, Rule, Ordinary, Markers
    <3> QED  BY <3>1, <3>2, TaskRun, TwoRun
  <2>2. Plain(<<Task("alias", here, NoNode)>>)
    <3>1. Ordinary(Task("alias", here, NoNode).op)
      BY OrdinaryTasks DEF Task
    <3> QED  BY <3>1, PlainTasks
  <2>3. Plain(base)
    BY <2>1, <2>2
  <2>4. /\ agenda # << >> /\ agenda[1].op = "typedesc" /\ Then(base \o FromLayer(1))
        /\ loopLevel' = loopLevel
    BY <1>4 DEF TypeDescription, At, context
  <2> HIDE DEF base
  <2>5. Plain(base \o FromLayer(1))
    BY <1>1, <2>3, PlainAfterPlain
  <2> QED  BY <2>4, <2>5, GoesOnward, OrdinaryTasks
<1>5. CASE AliasDescription
  <2>1. agenda # << >> /\ agenda[1].op = "alias" /\ (Fail \/ Done) /\ loopLevel' = loopLevel
    BY <1>5 DEF AliasDescription, At, context
  <2> QED  BY <2>1, GoesOnward, OrdinaryTasks
<1>6. CASE ElementOfAlias
  <2>1. agenda # << >> /\ agenda[1].op = "layer" /\ Then(FromLayer(node + 1)) /\ loopLevel' = loopLevel
    BY <1>6 DEF ElementOfAlias, At, context
  <2> QED  BY <1>1, <2>1, GoesOnward, OrdinaryTasks
<1>7. CASE ElementOfRecord
  <2>1. agenda # << >> /\ agenda[1].op = "layer" /\ Then(FromLayer(node + 1)) /\ loopLevel' = loopLevel
    BY <1>7 DEF ElementOfRecord, At
  <2> QED  BY <1>1, <2>1, GoesOnward, OrdinaryTasks
<1>8. CASE OuterLayer
  <2>1. agenda # << >> /\ agenda[1].op = "layer" /\ Then(FromLayer(node + 1)) /\ loopLevel' = loopLevel
    BY <1>8 DEF OuterLayer, At, context
  <2> QED  BY <1>1, <2>1, GoesOnward, OrdinaryTasks
<1> QED  BY <1>2, <1>3, <1>4, <1>5, <1>6, <1>7, <1>8

(* So do statements that open no scope, and the checks of a function.      *)
LEMMA StatementsGoOnward ==
  ASSUME \/ MissingReturn \/ BreakOrContinue \/ Store \/ Return \/ ReturnValue
  PROVE  Onward /\ UNCHANGED <<scopes, loopLevel>>
<1>1. CASE MissingReturn
  <2>1. /\ agenda # << >> /\ agenda[1].op = "retcheck" /\ (Fail \/ Done)
        /\ UNCHANGED <<scopes, loopLevel>>
    BY <1>1 DEF MissingReturn, At, context
  <2> QED  BY <2>1, GoesOnward, OrdinaryTasks
<1>2. CASE BreakOrContinue
  <2>1. /\ agenda # << >> /\ agenda[1].op = "stmt" /\ (Fail \/ Done)
        /\ UNCHANGED <<scopes, loopLevel>>
    BY <1>2 DEF BreakOrContinue, Statement, Check, At, context
  <2> QED  BY <2>1, GoesOnward, OrdinaryTasks
<1>3. CASE Store
  <2>1. /\ agenda # << >> /\ agenda[1].op = "store" /\ (Fail \/ Done)
        /\ UNCHANGED <<scopes, loopLevel>>
    BY <1>3 DEF Store, Check, At, context
  <2> QED  BY <2>1, GoesOnward, OrdinaryTasks
<1>4. CASE Return
  <2> DEFINE ts == <<Task("exp", Child(here, 1), node.exp), Task("ret", here, NoNode)>>
  <2>1. Ordinary(Task("exp", Child(here, 1), node.exp).op) /\ Ordinary(Task("ret", here, NoNode).op)
    BY OrdinaryTasks DEF Task
  <2>2. Plain(ts)
    BY <2>1, PlainTasks
  <2>3. /\ agenda # << >> /\ agenda[1].op = "stmt" /\ (Fail \/ Done \/ Then(ts))
        /\ UNCHANGED <<scopes, loopLevel>>
    BY <1>4 DEF Return, Statement, Check, At, context
  <2> HIDE DEF ts
  <2> QED  BY <2>2, <2>3, GoesOnward, OrdinaryTasks
<1>5. CASE ReturnValue
  <2>1. /\ agenda # << >> /\ agenda[1].op = "ret" /\ (Fail \/ Done)
        /\ UNCHANGED <<scopes, loopLevel>>
    BY <1>5 DEF ReturnValue, Check, At, context
  <2> QED  BY <2>1, GoesOnward, OrdinaryTasks
<1> QED  BY <1>1, <1>2, <1>3, <1>4, <1>5

(* So do conditions, variables and calls.                                  *)
LEMMA CallsGoOnward ==
  ASSUME \/ Condition \/ Comparison \/ NamedVariable \/ FieldOrElement \/ FieldAccess
         \/ ElementAccess \/ Call \/ Argument \/ CallEnd
  PROVE  Onward /\ UNCHANGED <<scopes, loopLevel>>
<1>1. ASSUME NEW args, NEW callee, NEW i PROVE Plain(FromArgument(args, callee, i))
  <2>1. /\ \A p, e : Ordinary(Task("exp", p, e).op)
        /\ \A p, e : Ordinary(Task("arg", p, e).op)
        /\ \A p, e : Ordinary(Task("callend", p, e).op)
    BY OrdinaryTasks DEF Task
  <2> QED  BY <2>1, PlainTasks DEF FromArgument
<1>2. CASE Condition
  <2> DEFINE ts == IF node.kind = "compare"
                   THEN <<Task("exp", Child(here, 1), node.left), Task("exp", Child(here, 2), node.right),
                          Task("compare", here, node.op)>>
                   ELSE <<Task("cond", Child(here, 1), node.left), Task("cond", Child(here, 2), node.right)>>
  <2>1. /\ \A p, e : Ordinary(Task("exp", p, e).op)
        /\ \A p, e : Ordinary(Task("compare", p, e).op)
        /\ \A p, e : Ordinary(Task("cond", p, e).op)
    BY OrdinaryTasks DEF Task
  <2>2. Plain(ts)
    BY <2>1, PlainTasks
  <2>3. /\ agenda # << >> /\ agenda[1].op = "cond" /\ Then(ts)
        /\ UNCHANGED <<scopes, loopLevel>>
    BY <1>2 DEF Condition, At, context
  <2> HIDE DEF ts
  <2> QED  BY <2>2, <2>3, GoesOnward, OrdinaryTasks
<1>3. CASE Comparison
  <2>1. /\ agenda # << >> /\ agenda[1].op = "compare" /\ (Fail \/ Done)
        /\ UNCHANGED <<scopes, loopLevel>>
    BY <1>3 DEF Comparison, At, context
  <2> QED  BY <2>1, GoesOnward, OrdinaryTasks
<1>4. CASE NamedVariable
  <2>1. /\ agenda # << >> /\ agenda[1].op = "var" /\ (Fail \/ Done)
        /\ UNCHANGED <<scopes, loopLevel>>
    BY <1>4 DEF NamedVariable, Yield, At, context
  <2> QED  BY <2>1, GoesOnward, OrdinaryTasks
<1>5. CASE FieldOrElement
  <2> DEFINE ts == <<Task("exp", Child(here, 1), node.of), Task("getfield", here, node.name)>>
             us == <<Task("exp", Child(here, 1), node.of), Task("exp", Child(here, 2), node.by),
                     Task("getindex", here, NoNode)>>
  <2>1. /\ \A p, e : Ordinary(Task("exp", p, e).op)
        /\ \A p, e : Ordinary(Task("getfield", p, e).op)
        /\ \A p, e : Ordinary(Task("getindex", p, e).op)
    BY OrdinaryTasks DEF Task
  <2>2. Plain(ts) /\ Plain(us)
    BY <2>1, PlainTasks
  <2>3. /\ agenda # << >> /\ agenda[1].op = "var" /\ (Then(ts) \/ Then(us))
        /\ UNCHANGED <<scopes, loopLevel>>
    BY <1>5 DEF FieldOrElement, At, context
  <2> HIDE DEF ts, us
  <2> QED  BY <2>2, <2>3, GoesOnward, OrdinaryTasks
<1>6. CASE FieldAccess
  <2>1. /\ agenda # << >> /\ agenda[1].op = "getfield" /\ (Fail \/ Done)
        /\ UNCHANGED <<scopes, loopLevel>>
    BY <1>6 DEF FieldAccess, Yield, At, context
  <2> QED  BY <2>1, GoesOnward, OrdinaryTasks
<1>7. CASE ElementAccess
  <2>1. /\ agenda # << >> /\ agenda[1].op = "getindex" /\ (Fail \/ Done)
        /\ UNCHANGED <<scopes, loopLevel>>
    BY <1>7 DEF ElementAccess, Yield, At, context
  <2> QED  BY <2>1, GoesOnward, OrdinaryTasks
<1>8. CASE Call
  <2> DEFINE ts == FromArgument(node.args, FindSymbol(scopes, node.name).node, 1)
  <2>1. /\ agenda # << >> /\ agenda[1].op = "call" /\ (Fail \/ Then(ts))
        /\ UNCHANGED <<scopes, loopLevel>>
    BY <1>8 DEF Call, At, context
  <2>2. Plain(ts)
    BY <1>1
  <2> HIDE DEF ts
  <2> QED  BY <2>1, <2>2, GoesOnward, OrdinaryTasks
<1>9. CASE Argument
  <2> DEFINE ts == FromArgument(node.args, node.callee, node.index + 1)
  <2>1. /\ agenda # << >> /\ agenda[1].op = "arg" /\ (Fail \/ Then(ts))
        /\ UNCHANGED <<scopes, loopLevel>>
    BY <1>9 DEF Argument, At, context
  <2>2. Plain(ts)
    BY <1>1
  <2> HIDE DEF ts
  <2> QED  BY <2>1, <2>2, GoesOnward, OrdinaryTasks
<1>10. CASE CallEnd
  <2>1. /\ agenda # << >> /\ agenda[1].op = "callend" /\ Done
        /\ UNCHANGED <<scopes, loopLevel>>
    BY <1>10 DEF CallEnd, Yield, At, context
  <2> QED  BY <2>1, GoesOnward, OrdinaryTasks
<1> QED  BY <1>2, <1>3, <1>4, <1>5, <1>6, <1>7, <1>8, <1>9, <1>10

(* So do expressions.                                                      *)
LEMMA ExpressionsGoOnward ==
  ASSUME Expression \/ Operation \/ MistypedString \/ StringLiteral \/ NewArray
  PROVE  Onward /\ loopLevel' = loopLevel
<1>1. ASSUME NEW n, NEW t, YieldOrFail(n, t) PROVE Fail \/ Done
  BY <1>1 DEF YieldOrFail, Yield
<1>2. ASSUME NEW n, NEW t, Yield(n, t) PROVE Fail \/ Done
  BY <1>2 DEF Yield
<1>3. ASSUME NEW op \in {"unop", "binop", "cast", "sized", "condexp", "varexp", "callexp", "exp",
                         "cond", "var", "call"}
      PROVE  \A p, e : Ordinary(Task(op, p, e).op)
  BY OrdinaryTasks DEF Task
<1>4. CASE Expression
  <2>1. agenda # << >> /\ agenda[1].op = "exp" /\ loopLevel' = loopLevel
    BY <1>4 DEF Expression, At, context
  <2>2. Fail \/ Done \/ \E ts : Plain(ts) /\ Then(ts)
    <3>1. ASSUME NEW op \in {"unop", "cast", "sized"}, NEW content, NEW e, Operand(op, content, e)
          PROVE  \E ts : Plain(ts) /\ Then(ts)
      BY <1>3, <3>1, PlainTasks DEF Operand
    <3>2. CASE node.kind = "lit" /\ Yield(0, node.type)
      BY <1>2, <3>2
    <3>3. CASE node.kind = "null" /\ Yield(0, tNull)
      BY <1>2, <3>3
    <3>4. CASE Operand("unop", node.op, node.of)
      BY <3>1, <3>4
    <3>5. CASE Then(<<Task("exp", Child(here, 1), node.left), Task("exp", Child(here, 2), node.right),
                      Task("binop", here, node.op)>>)
      BY <1>3, <3>5, PlainTasks
    <3>6. CASE Operand("cast", node.name, node.of)
      BY <3>1, <3>6
    <3>7. CASE Then(<<Task("cond", Child(here, 3), node.cond), Task("exp", Child(here, 1), node.left),
                      Task("exp", Child(here, 2), node.right), Task("condexp", here, NoNode)>>)
      <4> DEFINE ts == <<Task("cond", Child(here, 3), node.cond), Task("exp", Child(here, 1), node.left)>>
                 us == <<Task("exp", Child(here, 2), node.right), Task("condexp", here, NoNode)>>
      <4>1. Plain(ts \o us)
        <5>1. Plain(ts) /\ Plain(us)
          BY <1>3, PlainTasks
        <5> HIDE DEF ts, us
        <5> QED  BY <5>1, PlainAfterPlain
      <4>2. Then(ts \o us)
        BY <3>7, FourJoined
      <4> HIDE DEF ts, us
      <4> QED  BY <4>1, <4>2
    <3>8. CASE Then(<<Task("var", Child(here, 1), node.var), Task("varexp", here, NoNode)>>)
      BY <1>3, <3>8, PlainTasks
    <3>9. CASE Then(<<Task("call", Child(here, 1), node.call), Task("callexp", here, NoNode)>>)
      BY <1>3, <3>9, PlainTasks
    <3>10. CASE node.kind = "new"
      <4>1. \E n, t : YieldOrFail(n, t)
        BY <1>4, <3>10 DEF Expression
      <4> QED  BY <1>1, <4>1
    <3>11. CASE Fail \/ Operand("sized", FindType(scopes, node.name), node.size)
      BY <3>1, <3>11
    <3> QED
      BY <1>4, <3>2, <3>3, <3>4, <3>5, <3>6, <3>7, <3>8, <3>9, <3>10, <3>11 DEF Expression
  <2> QED  BY <2>1, <2>2, GoesOnward, OrdinaryTasks
<1>5. CASE Operation
  <2>1. /\ agenda # << >> /\ loopLevel' = loopLevel
        /\ agenda[1].op \in {"unop", "binop", "condexp", "varexp", "callexp", "cast"}
    BY <1>5 DEF Operation, At, context
  <2>2. \E n, t : YieldOrFail(n, t) \/ Yield(n, t)
    BY <1>5 DEF Operation
  <2> QED  BY <1>1, <1>2, <2>1, <2>2, GoesOnward, OrdinaryTasks
<1>6. CASE MistypedString
  <2>1. /\ agenda # << >> /\ loopLevel' = loopLevel /\ agenda[1].op = "exp"
        /\ Fail \/ \E t : Yield(0, t)
    BY <1>6 DEF MistypedString, At, context
  <2> QED  BY <1>2, <2>1, GoesOnward, OrdinaryTasks
<1>7. CASE StringLiteral
  <2>1. /\ agenda # << >> /\ loopLevel' = loopLevel /\ agenda[1].op = "exp"
        /\ Yield(0, ArrayType(tChar))
    BY <1>7 DEF StringLiteral, At, context
  <2> QED  BY <1>2, <2>1, GoesOnward, OrdinaryTasks
<1>8. CASE NewArray
  <2>1. /\ agenda # << >> /\ loopLevel' = loopLevel /\ agenda[1].op = "sized"
        /\ Fail \/ Yield(1, ArrayType(node))
    BY <1>8 DEF NewArray, At, context
  <2> QED  BY <1>2, <2>1, GoesOnward, OrdinaryTasks
<1> QED  BY <1>4, <1>5, <1>6, <1>7, <1>8

(* Ordinary tasks declare types, functions and variables, and nothing else. *)
LEMMA OrdinaryDeclarations ==
  ASSUME \/ TypeDeclaration \/ VarDefinition \/ TypeDescription \/ AliasDescription
         \/ ElementOfAlias \/ ElementOfRecord \/ OuterLayer
         \/ Expression \/ Operation \/ MistypedString \/ StringLiteral \/ NewArray
  PROVE  scopes' = scopes \/ \E s : s.kind \in GlobalKinds /\ scopes' = Declare(scopes, s)
<1>1. \A n, k : k \in {"type", "var"} => Symbol(n, k, here).kind \in GlobalKinds
  BY DEF Symbol, GlobalKinds
<1>2. ASSUME NEW desc, Register(desc)
      PROVE  \E s : s.kind \in GlobalKinds /\ scopes' = Declare(scopes, s)
  <2>1. Symbol(desc.name, "type", NewType).kind \in GlobalKinds
    BY DEF Symbol, GlobalKinds
  <2> QED  BY <1>2, <2>1 DEF Register
<1>3. ASSUME NEW t, FindOrCreateArrayType(t)
      PROVE  scopes' = scopes \/ \E s : s.kind \in GlobalKinds /\ scopes' = Declare(scopes, s)
  BY <1>2, <1>3 DEF FindOrCreateArrayType
<1>4. CASE TypeDeclaration
  BY <1>1, <1>4 DEF TypeDeclaration
<1>5. CASE VarDefinition
  BY <1>1, <1>5 DEF VarDefinition
<1>6. CASE TypeDescription \/ AliasDescription \/ ElementOfAlias
  BY <1>6 DEF TypeDescription, AliasDescription, ElementOfAlias
<1>7. CASE ElementOfRecord
  BY <1>2, <1>7 DEF ElementOfRecord
<1>8. CASE OuterLayer
  BY <1>3, <1>8 DEF OuterLayer
<1>9. CASE Expression \/ Operation \/ MistypedString
  BY <1>9 DEF Expression, Operation, MistypedString
<1>10. CASE StringLiteral
  BY <1>3, <1>10 DEF StringLiteral
<1>11. CASE NewArray
  BY <1>3, <1>11 DEF NewArray
<1> QED  BY <1>4, <1>5, <1>6, <1>7, <1>8, <1>9, <1>10, <1>11

(* A step of an ordinary task that opens no scope keeps the discipline.    *)
LEMMA OrdinaryStepKeepsDiscipline ==
  ASSUME Disciplined(scopes, loopLevel, agenda), Onward, loopLevel' = loopLevel,
         scopes' = scopes \/ \E s : s.kind \in GlobalKinds /\ scopes' = Declare(scopes, s)
  PROVE  Disciplined(scopes', loopLevel', agenda')
<1>1. Chain(scopes)
  BY DEF Disciplined
<1>2. Chain(scopes') /\ Len(scopes') = Len(scopes)
  BY <1>1, DeclareKeepsChain
<1>3. /\ agenda # << >> /\ Ordinary(agenda[1].op)
      /\ agenda' = FromMarker(agenda) \/ \E ts : Plain(ts) /\ agenda' = ts \o Tail(agenda)
  BY DEF Onward
<1> QED  BY <1>2, <1>3, OrdinaryKeepsDiscipline

-----------------------------------------------------------------------------
(* Steps of tasks that open and close scopes                               *)

(* The numbers of places                                                   *)
LEMMA Places ==
  ASSUME NEW n, NEW l, <<n, l>> \in Place
  PROVE  /\ n \in Nat /\ n > 0 /\ l \in Nat
         /\ Deeper(<<n, l>>) = <<n + 1, l>> /\ <<n + 1, l>> \in Place
         /\ InLoop(<<n, l>>) = <<n + 1, l + 1>> /\ <<n + 1, l + 1>> \in Place
BY DEF Place, Deeper, InLoop

(* The place a scope, or a loop's scope, was opened from.                  *)
LEMMA PlaceAbove ==
  ASSUME NEW n, NEW l, NEW y \in Place, <<n, l>> = Deeper(y)
  PROVE  n > 1 /\ <<n - 1, l>> = y
BY DEF Place, Deeper

LEMMA LoopAbove ==
  ASSUME NEW n, NEW l, NEW y \in Place, <<n, l>> = InLoop(y)
  PROVE  n > 1 /\ <<n - 1, l - 1>> = y
BY DEF Place, InLoop

(* Tasks that take the place of an ordinary one, at another place          *)
LEMMA OrdinaryOpens ==
  ASSUME NEW c, NEW l, NEW a, NEW d, NEW m, NEW ts,
         Disciplined(c, l, a), a # << >>, Ordinary(a[1].op), Chain(d),
         \E f : Run(ts, <<Len(d), m>>, <<Len(c), l>>, f, <<Len(c), l>>)
  PROVE  Disciplined(d, m, ts \o Tail(a))
<1> DEFINE x == <<Len(c), l>>
           z == <<Len(d), m>>
<1>1. PICK f : Leads(a, x, f)
  BY DEF Disciplined
<1>2. PICK h : Run(ts, z, x, h, x)
  OBVIOUS
<1> HIDE DEF x, z
<1>3. PICK y, g : y \in Place /\ Rule(a[1].op, x, y, f, g) /\ Leads(Tail(a), y, g)
  BY <1>1, HeadLeads
<1>4. y = x /\ g = x
  BY <1>3 DEF Rule
<1>5. Leads(ts \o Tail(a), z, h)
  BY <1>2, <1>3, <1>4 DEF Run
<1> QED  BY <1>5 DEF Disciplined, z

(* The place of a disciplined analyser                                     *)
LEMMA PlaceOf ==
  ASSUME NEW c, NEW l, NEW a, Disciplined(c, l, a), a # << >>
  PROVE  <<Len(c), l>> \in Place
BY HeadLeads DEF Disciplined

(* A block in a scope of its own is plain.                                 *)
LEMMA ScopedIsPlain == ASSUME NEW k, NEW block PROVE Plain(Scoped(k, block))
<1> SUFFICES ASSUME NEW x \in Place PROVE Run(Scoped(k, block), x, x, x, x)
  BY DEF Plain
<1> DEFINE t == Task("push", here, NoNode)
           u == Task("block", Child(here, k), block)
           v == Task("pop", here, NoNode)
<1>1. Deeper(x) \in Place
  BY DEF Deeper, Place
<1>2. /\ Rule(t.op, x, Deeper(x), x, x)
      /\ Rule(u.op, Deeper(x), Deeper(x), x, x)
      /\ Rule(v.op, Deeper(x), x, x, x)
  BY DEF Task, Rule, Ordinary, Markers
<1> HIDE DEF t, u, v
<1>3. /\ Run(<<t>>, x, Deeper(x), x, x)
      /\ Run(<<u>>, Deeper(x), Deeper(x), x, x)
      /\ Run(<<v>>, Deeper(x), x, x, x)
  BY <1>1, <1>2, TaskRun
<1>4. Run(<<t, u, v>>, x, x, x, x)
  BY <1>3, ThreeRun, Zenon
<1> QED  BY <1>4 DEF Scoped, t, u, v

(* A function's declaration, its body and a loop open a scope.             *)
LEMMA OpeningsKeepDiscipline ==
  ASSUME Disciplined(scopes, loopLevel, agenda), FunctionDeclaration \/ FunctionBody \/ While
  PROVE  Disciplined(scopes', loopLevel', agenda')
<1> DEFINE x == <<Len(scopes), loopLevel>>
<1>1. Chain(scopes) /\ agenda # << >>
  BY DEF Disciplined, FunctionDeclaration, FunctionBody, While, At, Statement
<1>2. x \in Place
  BY <1>1, PlaceOf
<1>3. /\ Deeper(x) = <<Len(scopes) + 1, loopLevel>> /\ Deeper(x) \in Place
      /\ InLoop(x) = <<Len(scopes) + 1, loopLevel + 1>> /\ InLoop(x) \in Place
  <2> DEFINE n == Len(scopes)
  <2>1. <<n, loopLevel>> \in Place
    BY <1>2
  <2> HIDE DEF n
  <2>2. /\ Deeper(<<n, loopLevel>>) = <<n + 1, loopLevel>> /\ <<n + 1, loopLevel>> \in Place
        /\ InLoop(<<n, loopLevel>>) = <<n + 1, loopLevel + 1>> /\ <<n + 1, loopLevel + 1>> \in Place
    BY <2>1, Places
  <2> QED  BY <2>2 DEF n
<1>4. CASE FunctionDeclaration
  <2>1. agenda[1].op = "funcdecl" /\ loopLevel' = loopLevel
    BY <1>4 DEF FunctionDeclaration, At, context
  <2>2. CASE Fail /\ scopes' = scopes
    BY <1>1, <2>1, <2>2, GoesOnward, OrdinaryTasks, OrdinaryStepKeepsDiscipline
  <2> DEFINE s == Symbol(node.name, "func", here)
             t == Task("param", here, 1)
  <2>3. CASE scopes' = Push(Declare(scopes, s)) /\ Then(<<t>>)
    <3>1. Chain(Declare(scopes, s)) /\ Len(Declare(scopes, s)) = Len(scopes)
      <4>1. s.kind \in GlobalKinds
        BY DEF Symbol, GlobalKinds
      <4> HIDE DEF s
      <4> QED  BY <1>1, <4>1, DeclareKeepsChain
    <3>2. Chain(scopes') /\ Len(scopes') = Len(scopes) + 1
      BY <2>3, <3>1, PushKeepsChain DEF Push
    <3>3. Run(<<t>>, <<Len(scopes'), loopLevel'>>, x, x, x)
      <4>1. Rule(t.op, Deeper(x), x, x, x)
        BY DEF Task, Rule, Ordinary, Markers
      <4> HIDE DEF t
      <4> QED  BY <1>3, <2>1, <3>2, <4>1, TaskRun
    <3> HIDE DEF t
    <3>4. Disciplined(scopes', loopLevel', <<t>> \o Tail(agenda))
      BY <1>1, <2>1, <3>2, <3>3, OrdinaryOpens, OrdinaryTasks
    <3> QED  BY <2>3, <3>4 DEF Then
  <2> QED  BY <1>4, <2>2, <2>3 DEF FunctionDeclaration
<1>5. CASE FunctionBody
  <2>1. agenda[1].op = "funcimpl" /\ loopLevel' = loopLevel
    BY <1>5 DEF FunctionBody, At, context
  <2>2. CASE Done /\ scopes' = scopes
    BY <1>1, <2>1, <2>2, GoesOnward, OrdinaryTasks, OrdinaryStepKeepsDiscipline
  <2> DEFINE t == Task("block", here, node.body)
             u == Task("pop", here, NoNode)
             v == Task("retcheck", here, NoNode)
  <2>3. ASSUME NEW scope, scopes' = Append(scopes, scope), Then(<<t, u, v>>)
        PROVE  Disciplined(scopes', loopLevel', agenda')
    <3>2. Chain(scopes') /\ Len(scopes') = Len(scopes) + 1
      BY <1>1, <2>3, PushKeepsChain
    <3>3. Run(<<t, u, v>>, <<Len(scopes'), loopLevel'>>, x, x, x)
      <4>1. /\ Rule(t.op, Deeper(x), Deeper(x), x, x)
            /\ Rule(u.op, Deeper(x), x, x, x)
            /\ Rule(v.op, x, x, x, x)
        BY DEF Task, Rule, Ordinary, Markers
      <4> HIDE DEF t, u, v
      <4>2. Run(<<t, u, v>>, Deeper(x), x, x, x)
        BY <1>2, <1>3, <4>1, TaskRun, ThreeRun
      <4> QED  BY <1>3, <2>1, <3>2, <4>2
    <3> HIDE DEF t, u, v
    <3>4. Disciplined(scopes', loopLevel', <<t, u, v>> \o Tail(agenda))
      BY <1>1, <2>1, <3>2, <3>3, OrdinaryOpens, OrdinaryTasks
    <3> QED  BY <2>3, <3>4 DEF Then
  <2> QED  BY <1>5, <2>2, <2>3 DEF FunctionBody
<1>6. CASE While
  <2>1. agenda[1].op = "stmt" /\ loopLevel' = loopLevel + 1 /\ scopes' = Append(scopes, << >>)
    BY <1>6 DEF While, At, Statement, Push
  <2> DEFINE t == Task("cond", Child(here, 3), node.cond)
             u == Task("block", Child(here, 1), node.body)
             v == Task("wend", here, NoNode)
  <2>2. Then(<<t, u, v>>)
    BY <1>6 DEF While
  <2>3. Chain(scopes') /\ Len(scopes') = Len(scopes) + 1
    BY <1>1, <2>1, PushKeepsChain
  <2>4. Run(<<t, u, v>>, <<Len(scopes'), loopLevel'>>, x, InLoop(x), x)
    <3>1. /\ Rule(t.op, InLoop(x), InLoop(x), InLoop(x), InLoop(x))
          /\ Rule(u.op, InLoop(x), InLoop(x), InLoop(x), InLoop(x))
          /\ Rule(v.op, InLoop(x), x, InLoop(x), x)
      BY DEF Task, Rule, Ordinary, Markers
    <3> HIDE DEF t, u, v
    <3>2. /\ Run(<<t>>, InLoop(x), InLoop(x), InLoop(x), InLoop(x))
          /\ Run(<<u>>, InLoop(x), InLoop(x), InLoop(x), InLoop(x))
          /\ Run(<<v>>, InLoop(x), x, InLoop(x), x)
      BY <1>3, <3>1, TaskRun
    <3>3. Run(<<t, u, v>>, InLoop(x), x, InLoop(x), x)
      BY <3>2, ThreeRun
    <3> QED  BY <1>3, <2>1, <2>3, <3>3
  <2> HIDE DEF t, u, v
  <2>5. Disciplined(scopes', loopLevel', <<t, u, v>> \o Tail(agenda))
    BY <1>1, <2>1, <2>3, <2>4, OrdinaryOpens, OrdinaryTasks
  <2> QED  BY <2>2, <2>5 DEF Then
<1> QED  BY <1>4, <1>5, <1>6

(* An if, a nested block and a call and an assignment as statements, an     *)
(* echo, and the end of an if's condition.                                 *)
LEMMA CompoundKeepsDiscipline ==
  ASSUME Disciplined(scopes, loopLevel, agenda), Compound
  PROVE  Disciplined(scopes', loopLevel', agenda')
<1>1. UNCHANGED <<scopes, loopLevel>> /\ Chain(scopes)
  BY DEF Compound, context, Disciplined
<1>2. \A op \in {"exp", "var", "store", "call", "cond"} : \A p, e : Ordinary(Task(op, p, e).op)
  BY OrdinaryTasks DEF Task
<1>3. ASSUME agenda # << >>, agenda[1].op = "stmt", NEW ts, Plain(ts), Then(ts)
      PROVE  Disciplined(scopes', loopLevel', agenda')
  <2>1. Onward
    BY <1>3, GoesOnward, OrdinaryTasks
  <2> QED  BY <1>1, <2>1, OrdinaryStepKeepsDiscipline
<1>4. CASE Statement("if")
  <2> DEFINE t == Task("cond", Child(here, 3), node.cond)
             u == Task("mark", here, NoNode)
             us == Scoped(1, node.then)
             vs == IF node.else = NULL THEN << >> ELSE Scoped(2, node.else)
  <2>1. Then(<<t, u>> \o us \o vs) /\ agenda # << >> /\ agenda[1].op = "stmt"
    BY <1>4 DEF Compound, Statement, At
  <2>2. Plain(<<t, u>>)
    <3> SUFFICES ASSUME NEW x \in Place PROVE Run(<<t, u>>, x, x, x, x)
      BY DEF Plain
    <3>1. Rule(t.op, x, x, x, x) /\ Rule(u.op, x, x, x, x)
      BY DEF Task, Rule, Ordinary, Markers
    <3> HIDE DEF t, u
    <3> QED  BY <3>1, TaskRun, TwoRun
  <2>3. Plain(us) /\ Plain(vs)
    BY ScopedIsPlain, PlainTasks
  <2> HIDE DEF t, u, us, vs
  <2>4. Plain(<<t, u>> \o us \o vs)
    BY <2>2, <2>3, PlainAfterPlain
  <2> QED  BY <1>3, <2>1, <2>4
<1>5. CASE At("mark") /\ Done
  <2>1. agenda # << >> /\ agenda[1].op = "mark" /\ agenda' = << >> \o Tail(agenda)
    BY <1>5 DEF At, Done, Then
  <2> DEFINE x == <<Len(scopes), loopLevel>>
  <2>2. PICK f : Leads(agenda, x, f)
    BY DEF Disciplined
  <2> HIDE DEF x
  <2>3. PICK y, g : y \in Place /\ Rule(agenda[1].op, x, y, f, g) /\ Leads(Tail(agenda), y, g)
    BY <2>1, <2>2, HeadLeads
  <2>4. y = x
    BY <2>1, <2>3 DEF Rule
  <2>5. Leads(agenda', x, g)
    <3>1. IsList(Tail(agenda))
      BY <2>3 DEF Leads
    <3> QED  BY <2>1, <2>3, <2>4, <3>1, JoinedToNothing
  <2> QED  BY <1>1, <2>5 DEF Disciplined, x
<1>6. CASE Statement("nested")
  <2>1. Then(Scoped(1, node.body)) /\ agenda # << >> /\ agenda[1].op = "stmt"
    BY <1>6 DEF Compound, Statement, At
  <2> QED  BY <1>3, <2>1, ScopedIsPlain
<1>7. CASE Statement("assign")
  <2> DEFINE ts == <<Task("exp", Child(here, 2), node.right), Task("var", Child(here, 1), node.left),
                     Task("store", here, node.left)>>
  <2>1. Then(ts) /\ agenda # << >> /\ agenda[1].op = "stmt"
    BY <1>7 DEF Compound, Statement, At
  <2>2. Plain(ts)
    BY <1>2, PlainTasks
  <2> HIDE DEF ts
  <2> QED  BY <1>3, <2>1, <2>2
<1>8. CASE Statement("callstmt")
  <2> DEFINE ts == <<Task("call", Child(here, 1), node.call)>>
  <2>1. Then(ts) /\ agenda # << >> /\ agenda[1].op = "stmt"
    BY <1>8 DEF Compound, Statement, At
  <2>2. Plain(ts)
    BY <1>2, PlainTasks
  <2> HIDE DEF ts
  <2> QED  BY <1>3, <2>1, <2>2
<1>9. CASE Statement("echo")
  <2> DEFINE ts == <<Task("exp", Child(here, 1), node.exp)>>
  <2>1. Then(ts) /\ agenda # << >> /\ agenda[1].op = "stmt"
    BY <1>9 DEF Compound, Statement, At
  <2>2. Plain(ts)
    BY <1>2, PlainTasks
  <2> HIDE DEF ts
  <2> QED  BY <1>3, <2>1, <2>2
<1> QED  BY <1>4, <1>5, <1>6, <1>7, <1>8, <1>9 DEF Compound

(* Leaving by one scope: the tasks that pop it find it there.              *)
LEMMA ClosingsKeepDiscipline ==
  ASSUME Disciplined(scopes, loopLevel, agenda),
         PopScope \/ WhileEnd \/ DeclarationEnd \/ RecordEnd
  PROVE  Disciplined(scopes', loopLevel', agenda')
<1> DEFINE n == Len(scopes)
           x == <<n, loopLevel>>
<1>1. /\ agenda # << >> /\ Chain(scopes) /\ scopes' = Pop(scopes)
      /\ agenda[1].op \in {"pop", "wend", "param", "field"}
      /\ loopLevel' = IF agenda[1].op = "wend" THEN loopLevel - 1 ELSE loopLevel
      /\ Done \/ (Fail /\ agenda[1].op = "field")
  <2>1. CASE PopScope
    BY <2>1 DEF PopScope, At, context, Disciplined
  <2>2. CASE WhileEnd
    BY <2>2 DEF WhileEnd, At, Disciplined
  <2>3. CASE DeclarationEnd
    BY <2>3 DEF DeclarationEnd, At, context, Disciplined
  <2>4. CASE RecordEnd
    BY <2>4 DEF RecordEnd, At, context, Disciplined
  <2> QED  BY <2>1, <2>2, <2>3, <2>4
<1>2. PICK f : Leads(agenda, x, f)
  BY DEF Disciplined
<1> HIDE DEF n
<1>3. PICK y, g : y \in Place /\ Rule(agenda[1].op, x, y, f, g) /\ Leads(Tail(agenda), y, g)
  BY <1>1, <1>2, HeadLeads
<1>4. x \in Place
  BY <1>1, <1>2, HeadLeads
<1>5. n > 1 /\ <<n - 1, loopLevel'>> = y
  <2>1. CASE agenda[1].op = "wend"
    <3>1. x = InLoop(y)
      BY <1>3, <2>1 DEF Rule
    <3>2. n > 1 /\ <<n - 1, loopLevel - 1>> = y
      BY <1>3, <3>1, LoopAbove
    <3> QED  BY <1>1, <2>1, <3>2
  <2>2. CASE agenda[1].op # "wend"
    <3>1. x = Deeper(y)
      BY <1>1, <1>3, <2>2 DEF Rule
    <3>2. n > 1 /\ <<n - 1, loopLevel>> = y
      BY <1>3, <3>1, PlaceAbove
    <3> QED  BY <1>1, <2>2, <3>2
  <2> QED  BY <2>1, <2>2
<1>6. Chain(scopes') /\ Len(scopes') = n - 1
  BY <1>1, <1>5, PopKeepsChain DEF n
<1>7. \E h : Leads(agenda', y, h)
  <2>1. CASE Done
    <3>1. IsList(Tail(agenda)) /\ agenda' = << >> \o Tail(agenda)
      BY <1>3, <2>1 DEF Leads, Done, Then
    <3> QED  BY <1>3, <3>1, JoinedToNothing
  <2>2. CASE Fail /\ agenda[1].op = "field"
    <3>1. f = y /\ agenda' = FromMarker(agenda)
      BY <1>3, <2>2 DEF Rule, Fail
    <3> QED  BY <1>2, <1>3, <3>1, FailureLeads
  <2> QED  BY <1>1, <2>1, <2>2
<1> QED  BY <1>5, <1>6, <1>7 DEF Disciplined

(* The loops over parameters and fields declare in the scope they opened,  *)
(* and leave it when a name clashes.                                       *)
LEMMA MembersKeepDiscipline ==
  ASSUME Disciplined(scopes, loopLevel, agenda),
         Parameter \/ (RecordField /\ ~fieldError')
  PROVE  Disciplined(scopes', loopLevel', agenda')
<1> DEFINE n == Len(scopes)
           x == <<n, loopLevel>>
           next == Task(agenda[1].op, here, node + 1)
<1>1. /\ agenda # << >> /\ Chain(scopes) /\ loopLevel' = loopLevel
      /\ agenda[1].op \in {"param", "field"}
      /\ \/ Fail /\ (scopes' = RemoveFunction(scopes) \/ scopes' = Pop(scopes))
         \/ Then(<<next>>) /\ \E s : scopes' = Declare(scopes, s)
  <2>1. CASE Parameter
    <3>1. /\ agenda # << >> /\ Chain(scopes) /\ loopLevel' = loopLevel
          /\ agenda[1].op = "param"
      BY <2>1 DEF Parameter, At, context, Disciplined
    <3>2. \/ Fail /\ scopes' = RemoveFunction(scopes)
          \/ Then(<<Task("param", here, node + 1)>>) /\ \E s : scopes' = Declare(scopes, s)
      BY <2>1 DEF Parameter
    <3> QED  BY <3>1, <3>2
  <2>2. CASE RecordField /\ ~fieldError'
    <3>1. /\ agenda # << >> /\ Chain(scopes) /\ loopLevel' = loopLevel
          /\ agenda[1].op = "field" /\ FieldScopes = scopes
      BY <2>2 DEF RecordField, FieldScopes, AtField, At, Disciplined
    <3>2. \/ Fail /\ scopes' = Pop(FieldScopes)
          \/ Then(<<Task("field", here, node + 1)>>) /\ \E s : scopes' = Declare(FieldScopes, s)
      BY <2>2 DEF RecordField
    <3> QED  BY <3>1, <3>2
  <2> QED  BY <2>1, <2>2
<1>2. PICK f : Leads(agenda, x, f)
  BY DEF Disciplined
<1> HIDE DEF n
<1>3. PICK y, g : y \in Place /\ Rule(agenda[1].op, x, y, f, g) /\ Leads(Tail(agenda), y, g)
  BY <1>1, <1>2, HeadLeads
<1>4. x \in Place
  BY <1>1, <1>2, HeadLeads
<1>5. x = Deeper(y) /\ f = y /\ g = y
  BY <1>1, <1>3 DEF Rule
<1>6. n > 1 /\ <<n - 1, loopLevel>> = y
  BY <1>3, <1>5, PlaceAbove
<1>7. CASE Fail /\ (scopes' = RemoveFunction(scopes) \/ scopes' = Pop(scopes))
  <2>1. Chain(scopes') /\ Len(scopes') = n - 1
    BY <1>1, <1>6, <1>7, PopKeepsChain, RemoveKeepsChain DEF n
  <2>2. Leads(agenda', y, y)
    BY <1>2, <1>3, <1>5, <1>7, FailureLeads DEF Fail
  <2> QED  BY <1>1, <1>6, <2>1, <2>2 DEF Disciplined
<1>8. CASE Then(<<next>>) /\ \E s : scopes' = Declare(scopes, s)
  <2>1. Chain(scopes') /\ Len(scopes') = n
    BY <1>1, <1>6, <1>8, DeclareKeepsChain DEF n
  <2>2. Rule(next.op, x, y, y, y)
    BY <1>1, <1>5 DEF Rule, Ordinary, Markers, Task
  <2> HIDE DEF next, x
  <2>3. Leads(<<next>> \o Tail(agenda), x, y)
    BY <1>3, <1>4, <1>5, <2>2, TaskLeads
  <2> QED  BY <1>1, <1>8, <2>1, <2>3 DEF Disciplined, Then, x
<1> QED  BY <1>1, <1>7, <1>8

(* A block and the end of a statement go on with the next statement, and a *)
(* scope is opened, at the place the tasks behind expect.                  *)
LEMMA BlocksKeepDiscipline ==
  ASSUME Disciplined(scopes, loopLevel, agenda), Block \/ StatementEnd \/ PushScope \/ DefinitionEnd
  PROVE  Disciplined(scopes', loopLevel', agenda')
<1> DEFINE n == Len(scopes)
           x == <<n, loopLevel>>
<1>1. agenda # << >> /\ Chain(scopes) /\ loopLevel' = loopLevel
  BY DEF Block, StatementEnd, PushScope, DefinitionEnd, At, context, Disciplined
<1>2. PICK f : Leads(agenda, x, f)
  BY DEF Disciplined
<1> HIDE DEF n
<1>3. PICK y, g : y \in Place /\ Rule(agenda[1].op, x, y, f, g) /\ Leads(Tail(agenda), y, g)
  BY <1>1, <1>2, HeadLeads
<1>4. x \in Place
  BY <1>1, <1>2, HeadLeads
<1>5. Leads(<< >> \o Tail(agenda), y, g)
  <2>1. IsList(Tail(agenda))
    BY <1>3 DEF Leads
  <2> QED  BY <1>3, <2>1, JoinedToNothing
<1>6. CASE Block \/ StatementEnd
  <2>1. agenda[1].op \in {"block", "endstmt"} /\ scopes' = scopes
    BY <1>6 DEF Block, StatementEnd, At
  <2>2. y = x
    BY <1>3, <2>1 DEF Rule
  <2>3. PICK b, i : Then(FromStatement(b, i))
    BY <1>6 DEF Block, StatementEnd
  <2> DEFINE t == Task("stmt", Child(here, i), b[i])
             u == Task("endstmt", here, [index |-> i, block |-> b])
  <2>4. \E h : Leads(FromStatement(b, i) \o Tail(agenda), x, h)
    <3>1. CASE FromStatement(b, i) = << >>
      BY <1>5, <2>2, <3>1
    <3>2. CASE FromStatement(b, i) = <<t, u>>
      <4>1. Rule(t.op, x, x, x, x) /\ Rule(u.op, x, x, x, g)
        BY DEF Task, Rule, Ordinary, Markers
      <4> HIDE DEF t, u, x
      <4>2. Run(<<t>>, x, x, x, x) /\ Run(<<u>>, x, x, x, g)
        BY <1>4, <4>1, TaskRun
      <4>3. Run(<<t, u>>, x, x, x, g)
        BY <4>2, TwoRun
      <4>4. Leads(<<t, u>> \o Tail(agenda), x, x)
        BY <1>3, <2>2, <4>3 DEF Run
      <4> QED  BY <3>2, <4>4
    <3> QED  BY <3>1, <3>2 DEF FromStatement
  <2> QED  BY <1>1, <2>1, <2>3, <2>4 DEF Disciplined, Then, n
<1>7. CASE PushScope
  <2>1. agenda[1].op = "push" /\ scopes' = Append(scopes, << >>) /\ agenda' = << >> \o Tail(agenda)
    BY <1>7 DEF PushScope, At, Push, Done, Then
  <2>2. y = Deeper(x)
    BY <1>3, <2>1 DEF Rule
  <2>3. y = <<n + 1, loopLevel>>
    BY <1>4, <2>2, Places
  <2>4. Chain(scopes') /\ Len(scopes') = n + 1
    BY <1>1, <2>1, PushKeepsChain DEF n
  <2> QED  BY <1>1, <1>5, <2>1, <2>3, <2>4 DEF Disciplined
<1>8. CASE DefinitionEnd
  <2>1. agenda[1].op = "enddef" /\ scopes' = scopes /\ agenda' = << >> \o Tail(agenda)
    BY <1>8 DEF DefinitionEnd, At, Done, Then
  <2>2. y = x
    BY <1>3, <2>1 DEF Rule
  <2> QED  BY <1>1, <1>5, <2>1, <2>2 DEF Disciplined, n
<1> QED  BY <1>6, <1>7, <1>8

-----------------------------------------------------------------------------
(* Between two definitions                                                 *)

\* The strengthening of ScopeDiscipline: until a field's type is not found, the
\* agenda leads from where the analyser is back to the global scope.
ScopeInv ==
  result = "running" /\ ~fieldError =>
    IF phase = 0 THEN scopes = << >> /\ agenda = << >> /\ loopLevel = 0
    ELSE Disciplined(scopes, loopLevel, agenda)

(* A task keeps the discipline, whichever it is.                           *)
LEMMA StepKeepsDiscipline ==
  ASSUME Disciplined(scopes, loopLevel, agenda), Step, ~fieldError'
  PROVE  Disciplined(scopes', loopLevel', agenda')
<1>1. CASE \/ TypeDeclaration \/ VarDefinition \/ TypeDescription \/ AliasDescription
           \/ ElementOfAlias \/ ElementOfRecord \/ OuterLayer
  BY <1>1, DeclarationsGoOnward, OrdinaryDeclarations, OrdinaryStepKeepsDiscipline
<1>2. CASE MissingReturn \/ BreakOrContinue \/ Store \/ Return \/ ReturnValue
  BY <1>2, StatementsGoOnward, OrdinaryStepKeepsDiscipline
<1>3. CASE \/ Condition \/ Comparison \/ NamedVariable \/ FieldOrElement \/ FieldAccess
           \/ ElementAccess \/ Call \/ Argument \/ CallEnd
  BY <1>3, CallsGoOnward, OrdinaryStepKeepsDiscipline
<1>4. CASE Expression \/ Operation \/ MistypedString \/ StringLiteral \/ NewArray
  BY <1>4, ExpressionsGoOnward, OrdinaryDeclarations, OrdinaryStepKeepsDiscipline
<1>5. CASE FunctionDeclaration \/ FunctionBody \/ While
  BY <1>5, OpeningsKeepDiscipline
<1>6. CASE PopScope \/ WhileEnd \/ DeclarationEnd \/ RecordEnd
  BY <1>6, ClosingsKeepDiscipline
<1>7. CASE Parameter \/ RecordField
  BY <1>7, MembersKeepDiscipline
<1>8. CASE Block \/ StatementEnd \/ PushScope
  BY <1>8, BlocksKeepDiscipline
<1>9. CASE Compound
  BY <1>9, CompoundKeepsDiscipline
<1> QED  BY <1>1, <1>2, <1>3, <1>4, <1>5, <1>6, <1>7, <1>8, <1>9 DEF Step

(* An error about a field's type stays reported.                           *)
LEMMA FieldErrorsStay == Step /\ fieldError => fieldError'
<1> SUFFICES ASSUME Step, fieldError PROVE fieldError'
  OBVIOUS
<1>1. CASE TypeDeclaration \/ FunctionDeclaration \/ Parameter \/ DeclarationEnd \/ VarDefinition \/ TypeDescription
  BY <1>1 DEF TypeDeclaration, FunctionDeclaration, Parameter, DeclarationEnd, VarDefinition, TypeDescription, context
<1>2. CASE AliasDescription \/ RecordField \/ RecordEnd \/ ElementOfAlias \/ ElementOfRecord \/ OuterLayer
  BY <1>2, Zenon DEF AliasDescription, RecordField, RecordEnd, ElementOfAlias, ElementOfRecord, OuterLayer, context
<1>3. CASE FunctionBody \/ MissingReturn \/ Block \/ StatementEnd \/ PushScope \/ PopScope
  BY <1>3 DEF FunctionBody, MissingReturn, Block, StatementEnd, PushScope, PopScope, context
<1>4. CASE Compound \/ While \/ WhileEnd \/ BreakOrContinue \/ Store \/ Return
  BY <1>4 DEF Compound, While, WhileEnd, BreakOrContinue, Store, Return, context
<1>5. CASE ReturnValue \/ Condition \/ NamedVariable \/ FieldOrElement \/ Call \/ CallEnd
  BY <1>5 DEF ReturnValue, Condition, NamedVariable, FieldOrElement, Call, CallEnd, context
<1>6. CASE Comparison \/ FieldAccess \/ ElementAccess \/ Argument \/ Expression \/ Operation
  BY <1>6 DEF Comparison, FieldAccess, ElementAccess, Argument, Expression, Operation, context
<1>7. CASE MistypedString \/ StringLiteral \/ NewArray
  BY <1>7 DEF MistypedString, StringLiteral, NewArray, context
<1> QED  BY <1>1, <1>2, <1>3, <1>4, <1>5, <1>6, <1>7 DEF Step

(* The next definition begins in the global scope.                         *)
LEMMA VisitKeepsDiscipline ==
  ASSUME Disciplined(scopes, loopLevel, agenda), VisitDefinition, phase \in 1 .. 5
  PROVE  Disciplined(scopes', loopLevel', agenda')
<1> DEFINE x == <<Len(scopes), loopLevel>>
           def == asts[ast][pos]
           t == Task(Handlers[phase], <<ast, pos>>, def)
           u == Task("enddef", <<ast, pos>>, NoNode)
<1>1. /\ agenda = << >> /\ UNCHANGED <<scopes, loopLevel>> /\ Chain(scopes)
      /\ agenda' = << >> \/ agenda' = <<t, u>>
  BY DEF VisitDefinition, Idle, context, Disciplined
<1>2. PICK f : Leads(<< >>, x, f)
  BY <1>1 DEF Disciplined
<1>3. x = Global
  BY <1>2, NothingLeads
<1>4. \E g : Leads(agenda', x, g)
  <2>1. CASE agenda' = << >>
    BY <1>2, <2>1
  <2>2. CASE agenda' = <<t, u>>
    <3>1. Handlers[phase] \in {"typedecl", "funcdecl", "vardef", "typedesc", "funcimpl"}
      BY DEF Handlers
    <3>2. Ordinary(t.op)
      BY <3>1, OrdinaryTasks DEF Task
    <3>3. Rule(t.op, Global, Global, Global, Global) /\ Rule(u.op, Global, Global, Global, NoPlace)
      BY <3>2 DEF Task, Rule, Ordinary, Markers
    <3>4. Global \in Place
      BY DEF Global, Place
    <3> HIDE DEF t, u
    <3>5. Run(<<t>>, Global, Global, Global, Global) /\ Run(<<u>>, Global, Global, Global, NoPlace)
      BY <3>3, <3>4, TaskRun
    <3>6. Run(<<t, u>>, Global, Global, Global, NoPlace)
      BY <3>5, TwoRun
    <3>7. Leads(<<t, u>> \o << >>, Global, Global)
      BY <3>6, NothingLeads DEF Run
    <3>8. <<t, u>> \o << >> = <<t, u>>
      BY <3>6, JoinedToNothing DEF Run
    <3> QED  BY <1>3, <2>2, <3>7, <3>8
  <2> QED  BY <1>1, <2>1, <2>2
<1> QED  BY <1>1, <1>4 DEF Disciplined

(* The call starts before the scopes.                                      *)
LEMMA InitDisciplined == Init => ScopeInv
BY DEF Init, ScopeInv

(* Every step keeps it.                                                    *)
LEMMA NextKeepsDiscipline == AnalyseInv /\ ScopeInv /\ [Next]_vars => ScopeInv'
<1> SUFFICES ASSUME AnalyseInv, ScopeInv, [Next]_vars, result' = "running", ~fieldError'
             PROVE  IF phase' = 0 THEN scopes' = << >> /\ agenda' = << >> /\ loopLevel' = 0
                    ELSE Disciplined(scopes', loopLevel', agenda')
  BY DEF ScopeInv
<1>1. phase \in 0 .. 5 /\ (phase = 0 => agenda = << >>)
  BY DEF AnalyseInv
<1>2. CASE UNCHANGED vars
  <2>1. UNCHANGED <<result, fieldError, phase, scopes, agenda, loopLevel>>
    BY <1>2 DEF vars, loop, context
  <2> QED  BY <2>1 DEF ScopeInv
<1>3. CASE Start
  <2>1. /\ result = "running" /\ ~fieldError /\ phase = 0 /\ phase' = 1
        /\ scopes' = Append(scopes, << >>) /\ UNCHANGED <<loopLevel, agenda>>
    BY <1>3 DEF Start, Idle, Enter, context, Push
  <2>2. scopes = << >> /\ agenda = << >> /\ loopLevel = 0
    BY <2>1 DEF ScopeInv
  <2>3. scopes' = <<<< >>>> /\ Len(scopes') = 1
    BY <2>1, <2>2
  <2>4. Chain(scopes')
    <3>1. IsList(scopes') /\ IsList(scopes'[1]) /\ scopes' # << >> /\ DOMAIN scopes'[1] = {}
      BY <2>3, ShortLists
    <3> QED  BY <3>1 DEF Chain
  <2> QED  BY <2>1, <2>2, <2>3, <2>4, NothingLeads DEF Disciplined, Global
<1>4. CASE NextAst \/ NextPhase
  <2>1. /\ result = "running" /\ ~fieldError /\ phase > 0 /\ phase' # 0
        /\ UNCHANGED <<scopes, loopLevel, agenda>>
    BY <1>1, <1>4 DEF NextAst, NextPhase, Idle, Enter, context
  <2> QED  BY <1>1, <2>1 DEF ScopeInv
<1>5. CASE VisitDefinition
  <2>1. result = "running" /\ ~fieldError /\ phase \in 1 .. 5 /\ phase' = phase
    BY <1>1, <1>5 DEF VisitDefinition, Idle, context
  <2> QED  BY <1>5, <2>1, VisitKeepsDiscipline DEF ScopeInv
<1>6. CASE DefinitionEnd
  <2>1. result = "running" /\ ~fieldError /\ phase # 0 /\ phase' = phase
    BY <1>1, <1>6 DEF DefinitionEnd, At, context
  <2> QED  BY <1>6, <2>1, BlocksKeepDiscipline DEF ScopeInv
<1>7. CASE Finish
  BY <1>7 DEF Finish
<1>8. CASE Step
  <2>1. agenda # << >> /\ UNCHANGED <<phase, result>>
    BY <1>8, StepsKeepTheLoop DEF loop
  <2>2. ~fieldError
    BY <1>8, FieldErrorsStay
  <2> QED  BY <1>1, <1>8, <2>1, <2>2, StepKeepsDiscipline DEF ScopeInv
<1>9. CASE OutOfMemory \/ LateOutOfMemory \/ UndefinedBehaviour
  BY <1>9 DEF OutOfMemory, LateOutOfMemory, UndefinedBehaviour, Crash
<1>10. CASE Spin \/ Returned
  BY <1>2, <1>10 DEF Spin, Returned
<1> QED  BY <1>2, <1>3, <1>4, <1>5, <1>6, <1>7, <1>8, <1>9, <1>10 DEF Next

\* For every set of programs, the scope chain is the global scope again between
\* two definitions, with nothing but types, functions and variables in it, and
\* no loop is open, whichever error ended the definition before and however
\* deep in blocks, loops, declarations and expressions it was met, unless the
\* type of a record's field was not found.
THEOREM ScopesAreLeft == Spec => []ScopeDiscipline
<1>1. Init => AnalyseInv /\ ScopeInv
  BY InitEstablishes, InitDisciplined
<1>2. AnalyseInv /\ ScopeInv /\ [Next]_vars => AnalyseInv' /\ ScopeInv'
  BY NextKeepsTheInvariant, NextKeepsDiscipline
<1>3. AnalyseInv /\ ScopeInv => ScopeDiscipline
  <2> SUFFICES ASSUME ScopeInv, Idle, phase > 0, ~fieldError
               PROVE  /\ Len(scopes) = 1 /\ loopLevel = 0
                      /\ \A i \in DOMAIN scopes[1] : scopes[1][i].kind \in GlobalKinds
    BY DEF ScopeDiscipline
  <2>1. Disciplined(scopes, loopLevel, << >>)
    BY DEF ScopeInv, Idle
  <2>2. <<Len(scopes), loopLevel>> = Global
    BY <2>1, NothingLeads DEF Disciplined
  <2> QED  BY <2>1, <2>2 DEF Disciplined, Chain, Global
<1> QED  BY <1>1, <1>2, <1>3, PTL DEF Spec

-----------------------------------------------------------------------------
(* Functions in scope                                                       *)

\* A path to a node: a definition or what is inside of one, where a function's
\* parameters are in place 0.
Path(p) == IsList(p) /\ Len(p) > 1 /\ (Len(p) > 2 => p[3] # 0)

\* The definitions of a kind
Defines(p, kind) ==
  \E a \in DOMAIN asts : \E i \in DOMAIN asts[a] : p = <<a, i>> /\ asts[a][i].def = kind

\* The signature of function f is resolved.
Signed(f) ==
  /\ Defines(f, "func")
  /\ ReturnType(f) \in DOMAIN types
  /\ \A k \in DOMAIN Params(f) : TypeOf(ParamAt(f, k)) \in DOMAIN types

\* What the scopes of a chain hold: functions that may be called, and known types.
Lists(c) == IsList(c) /\ \A d \in DOMAIN c : IsList(c[d])
Holds(c, f) == \E d \in DOMAIN c : \E i \in DOMAIN c[d] : c[d][i].kind = "func" /\ c[d][i].node = f
Callable(c) == \A f : Holds(c, f) => Signed(f)
TypesKnown(c) ==
  \A d \in DOMAIN c : \A i \in DOMAIN c[d] : c[d][i].kind = "type" => c[d][i].node \in DOMAIN types

\* The tasks inside of a definition
Within == {"stmt", "store", "ret", "cond", "compare", "var", "getfield", "getindex", "call", "arg",
           "callend", "exp", "unop", "binop", "condexp", "varexp", "callexp", "cast", "sized"}

\* A task of the later loops is at no signature.
Placed(t) ==
  /\ Path(t.at)
  /\ t.op \in Within => Len(t.at) > 2
  /\ t.op \notin {"typedecl", "funcdecl", "param"}
  /\ t.op = "vardef" => Defines(t.at, "var")
  /\ t.op = "funcimpl" => IsList(t.node.params)
  /\ t.op \in {"endstmt", "arg"} => t.node.index \in Nat \ {0}

Settled(a) ==
  /\ IsList(a)
  /\ \A i \in DOMAIN a : Placed(a[i])
  /\ a # << >> => a[Len(a)].op = "enddef"

\* In the loops of declarations: all functions in scope are resolved, or the
\* last one is being resolved, up to its parameter k.
BetweenDeclarations ==
  /\ \E s : scopes = <<s>>
  /\ Callable(scopes)
  /\ agenda # << >> =>
       \E e : /\ e.op = "enddef"
             /\ \/ agenda = <<e>>
                \/ \E t : /\ agenda = <<t, e>>
                         /\ \/ t.op = "typedecl" /\ Defines(t.at, "type")
                            \/ t.op = "funcdecl" /\ Defines(t.at, "func")

AmongParameters ==
  \E s, r, e, f, k :
    /\ scopes = <<s, r>> /\ s # << >> /\ Last(s).node = f
    /\ Callable(<<Front(s)>>) /\ \A i \in DOMAIN r : r[i].kind # "func"
    /\ agenda = <<Task("param", f, k), e>> /\ e.op = "enddef"
    /\ Defines(f, "func") /\ k \in 1 .. Len(Params(f)) + 1
    /\ ReturnType(f) \in DOMAIN types
    /\ \A i \in 1 .. k - 1 : TypeOf(ParamAt(f, i)) \in DOMAIN types

\* The trees, and the types of the first loops.
TreeInv ==
  /\ IsList(asts) /\ Len(asts) = Len(astState)
  /\ \A a \in DOMAIN asts :
       /\ IsList(asts[a])
       /\ \A i \in DOMAIN asts[a] : asts[a][i].def = "func" => IsList(asts[a][i].params)
  /\ DOMAIN BuiltinTypes \subseteq DOMAIN types
  /\ phase < 3 => \A p : Defines(p, "type") => p \in DOMAIN types
  /\ pos \in Nat \ {0} /\ last \in Nat
  /\ phase > 0 => last <= Len(asts[ast])

CalleeInv ==
  result = "running" =>
    /\ TreeInv /\ Lists(scopes)
    /\ phase = 0 => scopes = << >> /\ agenda = << >>
    /\ phase \in {1, 2} => TypesKnown(scopes) /\ (BetweenDeclarations \/ AmongParameters)
    /\ phase > 2 => Callable(scopes) /\ Settled(agenda)

(* A list without its last element.                                        *)
LEMMA Shortened ==
  ASSUME NEW s, IsList(s), s # << >>
  PROVE  /\ IsList(Front(s)) /\ Len(s) \in Nat /\ Len(s) > 0 /\ DOMAIN s = 1 .. Len(s)
         /\ Len(Front(s)) = Len(s) - 1 /\ DOMAIN Front(s) = 1 .. Len(s) - 1
         /\ \A i \in 1 .. Len(s) - 1 : Front(s)[i] = s[i]
<1> DEFINE U == {s[i] : i \in DOMAIN s}
           f == SubSeq(s, 1, Len(s) - 1)
<1>1. s \in Seq(U)
  BY DEF IsList
<1>2. Len(s) \in Nat /\ DOMAIN s = 1 .. Len(s) /\ \A i \in 1 .. Len(s) - 1 : s[i] \in U
  BY <1>1
<1> HIDE DEF U
<1>3. Len(s) > 0
  BY <1>1, <1>2, EmptySeq
<1>4. /\ f \in Seq(U) /\ Len(f) = Len(s) - 1
      /\ \A i \in 1 .. Len(s) - 1 - 1 + 1 : f[i] = s[1 + i - 1]
  BY <1>2, <1>3, SubSeqProperties
<1>5. Front(s) = f
  BY DEF Front
<1> HIDE DEF f
<1>6. \A i \in 1 .. Len(s) - 1 : i \in 1 .. Len(s) - 1 - 1 + 1 /\ 1 + i - 1 = i
  BY <1>2
<1>7. \A i \in 1 .. Len(s) - 1 : f[i] = s[i]
  BY <1>4, <1>6
<1>8. IsList(f) /\ DOMAIN f = 1 .. Len(s) - 1
  BY <1>4, SeqIsList
<1> QED  BY <1>2, <1>3, <1>4, <1>5, <1>7, <1>8

(* A list with another element in one place.                               *)
LEMMA Exchanged ==
  ASSUME NEW s, IsList(s), NEW d, NEW x
  PROVE  /\ IsList([s EXCEPT ![d] = x]) /\ Len([s EXCEPT ![d] = x]) = Len(s)
         /\ DOMAIN [s EXCEPT ![d] = x] = DOMAIN s
         /\ \A i \in DOMAIN s : [s EXCEPT ![d] = x][i] = IF i = d THEN x ELSE s[i]
<1> DEFINE U == {s[i] : i \in DOMAIN s} \cup {x}
           b == [i \in 1 .. Len(s) |-> IF i = d THEN x ELSE s[i]]
<1>1. s \in Seq(U) /\ x \in U
  BY DEF IsList
<1> HIDE DEF U
<1>2. DOMAIN s = 1 .. Len(s) /\ Len(s) \in Nat /\ \A i \in 1 .. Len(s) : s[i] \in U
  BY <1>1
<1>3. [s EXCEPT ![d] = x] = b
  BY <1>1
<1>4. b \in [1 .. Len(s) -> U]
  BY <1>1, <1>2
<1>5. b \in Seq(U) /\ Len(b) = Len(s) /\ DOMAIN b = 1 .. Len(s)
  BY <1>2, <1>4, IsASeq, LenProperties
<1>6. \A i \in DOMAIN s : b[i] = IF i = d THEN x ELSE s[i]
  BY <1>2
<1> HIDE DEF b
<1> QED  BY <1>2, <1>3, <1>5, <1>6, SeqIsList

-----------------------------------------------------------------------------
(* Scopes that hold no other functions                                      *)

\* Scope chain b is one whose functions are in c.
NothingNew(c, b) == Lists(b) /\ \A f : Holds(b, f) => Holds(c, f)

(* Nothing is new that was not new in between.                              *)
LEMMA NothingNewAgain ==
  ASSUME NEW c, NEW b, NEW a, NothingNew(c, b), NothingNew(b, a)
  PROVE  NothingNew(c, a)
BY DEF NothingNew

(* A scope without functions goes on top.                                   *)
LEMMA PushAddsNothing ==
  ASSUME NEW c, Lists(c), NEW scope, IsList(scope), \A i \in DOMAIN scope : scope[i].kind # "func"
  PROVE  NothingNew(c, Append(c, scope))
<1> DEFINE b == Append(c, scope)
           n == Len(c)
<1>1. /\ IsList(b) /\ n \in Nat /\ DOMAIN c = 1 .. n /\ DOMAIN b = 1 .. n + 1
      /\ \A i \in DOMAIN c : b[i] = c[i]
      /\ b[n + 1] = scope
  BY Appended DEF Lists
<1> HIDE DEF b, n
<1>2. \A d \in DOMAIN b : d = n + 1 \/ d \in DOMAIN c
  BY <1>1
<1>3. Lists(b)
  BY <1>1, <1>2 DEF Lists
<1>4. ASSUME NEW f, Holds(b, f) PROVE Holds(c, f)
  <2>1. PICK d \in DOMAIN b : \E i \in DOMAIN b[d] : b[d][i].kind = "func" /\ b[d][i].node = f
    BY <1>4 DEF Holds
  <2>2. d \in DOMAIN c
    BY <1>1, <1>2, <2>1
  <2> QED  BY <1>1, <2>1, <2>2 DEF Holds
<1> QED  BY <1>3, <1>4 DEF NothingNew, b

(* The innermost scope goes.                                                *)
LEMMA PopAddsNothing ==
  ASSUME NEW c, Lists(c), c # << >>
  PROVE  NothingNew(c, Pop(c))
<1> DEFINE b == Front(c)
<1>1. /\ IsList(b) /\ Len(c) \in Nat /\ DOMAIN c = 1 .. Len(c) /\ DOMAIN b = 1 .. Len(c) - 1
      /\ \A i \in 1 .. Len(c) - 1 : b[i] = c[i]
  BY Shortened DEF Lists
<1> HIDE DEF b
<1>2. \A d \in DOMAIN b : d \in DOMAIN c /\ b[d] = c[d]
  BY <1>1
<1>3. Lists(b)
  BY <1>1, <1>2 DEF Lists
<1>4. ASSUME NEW f, Holds(b, f) PROVE Holds(c, f)
  BY <1>2, <1>4 DEF Holds
<1>5. NothingNew(c, b)
  BY <1>3, <1>4 DEF NothingNew
<1> QED  BY <1>5 DEF Pop, b

(* Something else than a function is declared.                              *)
LEMMA DeclareAddsNothing ==
  ASSUME NEW c, Lists(c), NEW s, s.kind # "func"
  PROVE  NothingNew(c, Declare(c, s))
<1> DEFINE n == Len(c)
           x == Append(c[n], s)
           b == [c EXCEPT ![n] = x]
<1>1. IsList(b) /\ DOMAIN b = DOMAIN c /\ \A d \in DOMAIN c : b[d] = IF d = n THEN x ELSE c[d]
  BY Exchanged DEF Lists
<1>2. Declare(c, s) = b
  BY DEF Declare
<1>3. n \in DOMAIN c =>
        /\ IsList(x) /\ Len(c[n]) \in Nat /\ DOMAIN c[n] = 1 .. Len(c[n]) /\ DOMAIN x = 1 .. Len(c[n]) + 1
        /\ \A i \in DOMAIN c[n] : x[i] = c[n][i]
        /\ x[Len(c[n]) + 1] = s
  BY Appended DEF Lists
<1> HIDE DEF n, x, b
<1>4. Lists(b)
  BY <1>1, <1>3 DEF Lists
<1>5. ASSUME NEW f, Holds(b, f) PROVE Holds(c, f)
  <2>1. PICK d \in DOMAIN b : \E i \in DOMAIN b[d] : b[d][i].kind = "func" /\ b[d][i].node = f
    BY <1>5 DEF Holds
  <2>2. PICK i \in DOMAIN b[d] : b[d][i].kind = "func" /\ b[d][i].node = f
    BY <2>1
  <2>3. CASE d = n
    <3>1. n \in DOMAIN c /\ b[d] = x
      BY <1>1, <2>3
    <3>2. i \in DOMAIN c[n]
      BY <1>3, <2>2, <3>1
    <3> QED  BY <1>3, <2>2, <3>1, <3>2 DEF Holds
  <2>4. CASE d # n
    <3>1. d \in DOMAIN c /\ b[d] = c[d]
      BY <1>1, <2>4
    <3> QED  BY <2>2, <3>1 DEF Holds
  <2> QED  BY <2>3, <2>4
<1> QED  BY <1>2, <1>4, <1>5 DEF NothingNew

-----------------------------------------------------------------------------
(* Signatures                                                               *)

(* What is inside of a path                                                 *)
LEMMA ChildInside ==
  ASSUME NEW p, Path(p), NEW k, k # 0
  PROVE  Path(Child(p, k)) /\ Len(Child(p, k)) > 2
<1>1. /\ IsList(Append(p, k)) /\ Len(p) \in Nat /\ DOMAIN p = 1 .. Len(p)
      /\ Len(Append(p, k)) = Len(p) + 1
      /\ \A i \in DOMAIN p : Append(p, k)[i] = p[i]
      /\ Append(p, k)[Len(p) + 1] = k
  BY Appended DEF Path
<1>2. Len(p) > 1 /\ (Len(p) > 2 => p[3] # 0)
  BY DEF Path
<1>3. Append(p, k)[3] # 0
  <2>1. CASE Len(p) = 2
    BY <1>1, <2>1
  <2>2. CASE Len(p) # 2
    <3>1. Len(p) > 2 /\ 3 \in DOMAIN p
      BY <1>1, <1>2, <2>2
    <3> QED  BY <1>1, <1>2, <3>1
  <2> QED  BY <2>1, <2>2
<1>4. Len(Append(p, k)) > 2
  BY <1>1, <1>2
<1> QED  BY <1>1, <1>3, <1>4 DEF Path, Child

\* Nothing of a function's signature is at p.
Aside(p) == \A f : Defines(f, "func") => p # f /\ \A k : p # ParamAt(f, k)

(* Neither a node inside of a definition nor a variable is in a signature.  *)
LEMMA OutsideSignatures ==
  ASSUME NEW p, Path(p), Len(p) > 2 \/ Defines(p, "var")
  PROVE  Aside(p)
<1> SUFFICES ASSUME NEW f, Defines(f, "func") PROVE p # f /\ \A k : p # ParamAt(f, k)
  BY DEF Aside
<1>1. PICK a \in DOMAIN asts : \E i \in DOMAIN asts[a] : f = <<a, i>> /\ asts[a][i].def = "func"
  BY DEF Defines
<1>2. PICK i \in DOMAIN asts[a] : f = <<a, i>> /\ asts[a][i].def = "func"
  BY <1>1
<1>3. \A k : ParamAt(f, k) = <<a, i, 0, k>>
  BY <1>2, FourJoined DEF ParamAt
<1>4. Len(f) = 2 /\ \A k : Len(<<a, i, 0, k>>) = 4 /\ <<a, i, 0, k>>[3] = 0
  BY <1>2
<1>5. CASE Len(p) > 2
  <2>1. p # f
    <3> SUFFICES ASSUME p = f PROVE FALSE
      OBVIOUS
    <3>1. Len(p) = 2
      BY <1>4
    <3> QED  BY <1>5, <3>1
  <2>2. p[3] # 0
    BY <1>5 DEF Path
  <2> QED  BY <1>3, <1>4, <2>1, <2>2
<1>6. CASE Defines(p, "var")
  <2>1. PICK b \in DOMAIN asts : \E j \in DOMAIN asts[b] : p = <<b, j>> /\ asts[b][j].def = "var"
    BY <1>6 DEF Defines
  <2>2. PICK j \in DOMAIN asts[b] : p = <<b, j>> /\ asts[b][j].def = "var"
    BY <2>1
  <2>3. p # f
    <3> SUFFICES ASSUME p = f PROVE FALSE
      OBVIOUS
    <3>1. b = a /\ j = i
      BY <1>2, <2>2
    <3> QED  BY <1>2, <2>2, <3>1
  <2>4. Len(p) = 2
    BY <2>2
  <2> QED  BY <1>3, <1>4, <2>3, <2>4
<1> QED  BY <1>5, <1>6

(* What is known of other nodes is kept.                                    *)
LEMMA WithKeeps ==
  ASSUME NEW g, NEW x, NEW y, NEW z, z # x
  PROVE  (z \in DOMAIN With(g, x, y) <=> z \in DOMAIN g) /\ (z \in DOMAIN g => With(g, x, y)[z] = g[z])
BY DEF With

\* Definitions stay where they are, and types known.
Growing ==
  /\ \A p, kind : Defines(p, kind) => Defines(p, kind)'
  /\ \A f : Defines(f, "func") => Params(f)' = Params(f)
  /\ DOMAIN types \subseteq DOMAIN types'

(* A signature is kept when nothing in it is resolved again.                *)
LEMMA SignaturesKept ==
  ASSUME Growing, sem' = sem \/ \E x, t : Aside(x) /\ sem' = With(sem, x, t),
         NEW f, Signed(f)
  PROVE  Signed(f)'
<1>1. /\ Defines(f, "func") /\ Defines(f, "func")' /\ Params(f)' = Params(f)
      /\ DOMAIN types \subseteq DOMAIN types'
      /\ ReturnType(f) \in DOMAIN types
      /\ \A k \in DOMAIN Params(f) : TypeOf(ParamAt(f, k)) \in DOMAIN types
  BY DEF Growing, Signed
<1>2. ReturnType(f)' = ReturnType(f) /\ \A k : TypeOf(ParamAt(f, k))' = TypeOf(ParamAt(f, k))
  <2>1. CASE sem' = sem
    BY <2>1 DEF ReturnType, TypeOf, ParamAt
  <2>2. ASSUME NEW x, NEW t, Aside(x), sem' = With(sem, x, t)
        PROVE  ReturnType(f)' = ReturnType(f) /\ \A k : TypeOf(ParamAt(f, k))' = TypeOf(ParamAt(f, k))
    <3>1. f # x /\ \A k : ParamAt(f, k) # x
      BY <1>1, <2>2 DEF Aside
    <3>2. ReturnType(f)' = ReturnType(f)
      BY <2>2, <3>1, WithKeeps DEF ReturnType
    <3>3. ASSUME NEW k PROVE TypeOf(ParamAt(f, k))' = TypeOf(ParamAt(f, k))
      <4> DEFINE p == ParamAt(f, k)
      <4>1. p # x
        BY <3>1
      <4>2. TypeOf(p)' = IF p \in DOMAIN sem' THEN sem'[p] ELSE NULL
        BY DEF TypeOf, ParamAt
      <4>3. TypeOf(p) = IF p \in DOMAIN sem THEN sem[p] ELSE NULL
        BY DEF TypeOf
      <4> HIDE DEF p
      <4>4. (p \in DOMAIN sem' <=> p \in DOMAIN sem) /\ (p \in DOMAIN sem => sem'[p] = sem[p])
        BY <2>2, <4>1, WithKeeps
      <4>5. (IF p \in DOMAIN sem' THEN sem'[p] ELSE NULL) = IF p \in DOMAIN sem THEN sem[p] ELSE NULL
        BY <4>4
      <4> QED  BY <4>2, <4>3, <4>5 DEF p
    <3> QED  BY <3>2, <3>3
  <2> QED  BY <2>1, <2>2
<1> QED  BY <1>1, <1>2 DEF Signed

(* It is kept when what is resolved gets a known type.                      *)
LEMMA SignaturesKeptByTypes ==
  ASSUME UNCHANGED <<asts, types>>, NEW x, NEW t \in DOMAIN types, sem' = With(sem, x, t)
  PROVE  /\ \A f : Signed(f) => Signed(f)'
         /\ \A f : ReturnType(f) \in DOMAIN types => ReturnType(f)' \in DOMAIN types
         /\ ReturnType(x)' \in DOMAIN types
         /\ \A p : TypeOf(p) \in DOMAIN types => TypeOf(p)' \in DOMAIN types
         /\ TypeOf(x)' \in DOMAIN types
<1>1. /\ x \in DOMAIN sem' /\ sem'[x] = t
      /\ \A z : z # x => (z \in DOMAIN sem' <=> z \in DOMAIN sem) /\ (z \in DOMAIN sem => sem'[z] = sem[z])
  BY DEF With
<1>2. ASSUME NEW z
      PROVE  /\ ReturnType(z) \in DOMAIN types => ReturnType(z)' \in DOMAIN types
             /\ TypeOf(z) \in DOMAIN types => TypeOf(z)' \in DOMAIN types
  <2>1. CASE z = x
    BY <1>1, <2>1 DEF ReturnType, TypeOf
  <2>2. CASE z # x
    <3>1. (z \in DOMAIN sem' <=> z \in DOMAIN sem) /\ (z \in DOMAIN sem => sem'[z] = sem[z])
      BY <1>1, <2>2
    <3> QED  BY <3>1 DEF ReturnType, TypeOf
  <2> QED  BY <2>1, <2>2
<1>3. ReturnType(x)' \in DOMAIN types /\ TypeOf(x)' \in DOMAIN types
  BY <1>1 DEF ReturnType, TypeOf
<1>4. ASSUME NEW f, Signed(f) PROVE Signed(f)'
  <2>1. Defines(f, "func")' /\ Params(f)' = Params(f)
    BY <1>4 DEF Signed, Defines, Params
  <2>2. ReturnType(f)' \in DOMAIN types
    BY <1>2, <1>4 DEF Signed
  <2>3. ASSUME NEW k \in DOMAIN Params(f) PROVE TypeOf(ParamAt(f, k))' \in DOMAIN types
    <3>1. TypeOf(ParamAt(f, k)) \in DOMAIN types
      BY <1>4 DEF Signed
    <3> DEFINE p == ParamAt(f, k)
    <3>2. TypeOf(p)' = IF p \in DOMAIN sem' THEN sem'[p] ELSE NULL
      BY DEF TypeOf, ParamAt
    <3>3. TypeOf(p) = IF p \in DOMAIN sem THEN sem[p] ELSE NULL
      BY DEF TypeOf
    <3> HIDE DEF p
    <3>4. (IF p \in DOMAIN sem' THEN sem'[p] ELSE NULL) \in DOMAIN types
      BY <1>1, <3>1, <3>3 DEF p
    <3> QED  BY <3>2, <3>4 DEF p
  <2> QED  BY <2>1, <2>2, <2>3 DEF Signed
<1> QED  BY <1>2, <1>3, <1>4

-----------------------------------------------------------------------------
(* What the analyser adds to the trees                                      *)

(* Definitions and types are added, and none is lost.                       *)
LEMMA StepsAdd ==
  ASSUME Step
  PROVE  /\ asts' = asts \/ \E d : d.def = "type" /\ asts' = [asts EXCEPT ![ast] = Append(@, d)]
         /\ DOMAIN types \subseteq DOMAIN types'
<1> DEFINE Added == asts' = asts \/ \E d : d.def = "type" /\ asts' = [asts EXCEPT ![ast] = Append(@, d)]
           Known == DOMAIN types \subseteq DOMAIN types'
<1> SUFFICES Added /\ Known
  OBVIOUS
<1>1. ASSUME NEW desc, Register(desc) PROVE Added
  <2> DEFINE d == [def |-> "type", name |-> desc.name, desc |-> desc]
  <2>1. d.def = "type" /\ asts' = [asts EXCEPT ![ast] = Append(@, d)]
    BY <1>1 DEF Register
  <2> HIDE DEF d
  <2> QED  BY <2>1
<1>2. ASSUME NEW t, FindOrCreateArrayType(t) PROVE Added
  BY <1>1, <1>2 DEF FindOrCreateArrayType
<1>3. \A x, y : DOMAIN types \subseteq DOMAIN With(types, x, y)
  BY DEF With
<1>4. \A t : DOMAIN types \subseteq DOMAIN WithArrayType(t)
  BY <1>3 DEF WithArrayType
<1> HIDE DEF Added
<1>5. asts' = asts => Added
  BY DEF Added
<1>6. CASE TypeDeclaration \/ FunctionDeclaration \/ Parameter \/ DeclarationEnd \/ VarDefinition \/ TypeDescription
  BY <1>5, <1>6 DEF TypeDeclaration, FunctionDeclaration, Parameter, DeclarationEnd, VarDefinition, TypeDescription, tree
<1>7. CASE AliasDescription
  <2>1. \E t : types' = [types EXCEPT ![here].target = t]
    BY <1>7 DEF AliasDescription
  <2>2. asts' = asts
    BY <1>7 DEF AliasDescription
  <2> QED  BY <1>5, <2>1, <2>2
<1>8. CASE RecordField
  <2>1. \E t : types' = [types EXCEPT ![here].fields[node].sem = t]
    BY <1>8 DEF RecordField
  <2>2. asts' = asts
    BY <1>8 DEF RecordField
  <2> QED  BY <1>5, <2>1, <2>2
<1>9. CASE RecordEnd \/ FunctionBody \/ MissingReturn \/ Block \/ StatementEnd \/ PushScope \/ PopScope
  BY <1>5, <1>9 DEF RecordEnd, FunctionBody, MissingReturn, Block, StatementEnd, PushScope, PopScope, tree
<1>10. CASE ElementOfAlias
  <2>1. types' = [types EXCEPT ![here].inner[1] = types[here].target] /\ asts' = asts
    BY <1>10 DEF ElementOfAlias
  <2> QED  BY <1>5, <2>1
<1>11. CASE ElementOfRecord
  <2>1. /\ Register(RecordDesc(types[here]))
        /\ types' = [With(types, NewType, RecordDesc(types[here])) EXCEPT ![here].inner[1] = NewType]
    BY <1>11 DEF ElementOfRecord
  <2> DEFINE w == With(types, NewType, RecordDesc(types[here]))
  <2>2. DOMAIN types' = DOMAIN w
    BY <2>1
  <2>3. DOMAIN types \subseteq DOMAIN w
    BY <1>3
  <2> HIDE DEF w
  <2> QED  BY <1>1, <2>1, <2>2, <2>3
<1>12. CASE OuterLayer
  <2> DEFINE e == types[here].inner[node - 1]
             w == WithArrayType(e)
  <2>1. /\ FindOrCreateArrayType(e)
        /\ types' = [w EXCEPT ![here].inner[node] = ArrayType(e)]
    BY <1>12 DEF OuterLayer
  <2>2. DOMAIN types' = DOMAIN w
    BY <2>1
  <2>3. DOMAIN types \subseteq DOMAIN w
    BY <1>4
  <2> HIDE DEF w, e
  <2> QED  BY <1>2, <2>1, <2>2, <2>3
<1>13. CASE Compound \/ While \/ WhileEnd \/ BreakOrContinue \/ Store \/ Return \/ ReturnValue \/ Condition
  BY <1>5, <1>13 DEF Compound, While, WhileEnd, BreakOrContinue, Store, Return, ReturnValue, Condition, tree
<1>14. CASE NamedVariable \/ FieldOrElement \/ Call \/ CallEnd \/ Comparison \/ FieldAccess \/ ElementAccess
  BY <1>5, <1>14 DEF NamedVariable, FieldOrElement, Call, CallEnd, Comparison, FieldAccess, ElementAccess, tree
<1>15. CASE Argument \/ Expression \/ Operation \/ MistypedString
  BY <1>5, <1>15 DEF Argument, Expression, Operation, MistypedString, tree
<1>16. CASE StringLiteral
  BY <1>2, <1>4, <1>16 DEF StringLiteral
<1>17. CASE NewArray
  <2>1. CASE FindOrCreateArrayType(node) /\ types' = WithArrayType(node)
    BY <1>2, <1>4, <2>1
  <2>2. CASE UNCHANGED <<asts, types>>
    BY <1>5, <2>2
  <2> QED  BY <1>17, <2>1, <2>2 DEF NewArray
<1> QED
  BY <1>6, <1>7, <1>8, <1>9, <1>10, <1>11, <1>12, <1>13, <1>14, <1>15, <1>16, <1>17 DEF Step

(* A list, or one that ends in another element                              *)
LEMMA Longer ==
  ASSUME NEW s, IsList(s), NEW d, NEW z, z = s \/ z = Append(s, d)
  PROVE  /\ IsList(z)
         /\ Len(s) \in Nat /\ Len(z) \in Nat /\ Len(s) <= Len(z)
         /\ \A i \in DOMAIN s : i \in DOMAIN z /\ z[i] = s[i]
         /\ \A i \in DOMAIN z : i \in DOMAIN s \/ z[i] = d
<1>1. /\ IsList(Append(s, d))
      /\ Len(s) \in Nat /\ DOMAIN s = 1 .. Len(s)
      /\ Len(Append(s, d)) = Len(s) + 1 /\ DOMAIN Append(s, d) = 1 .. Len(s) + 1
      /\ \A i \in DOMAIN s : Append(s, d)[i] = s[i]
      /\ Append(s, d)[Len(s) + 1] = d
  BY Appended
<1>2. CASE z = s
  BY <1>1, <1>2
<1>3. CASE z = Append(s, d)
  <2>1. /\ IsList(z) /\ Len(z) = Len(s) + 1 /\ DOMAIN z = 1 .. Len(s) + 1
        /\ \A i \in DOMAIN s : z[i] = s[i]
        /\ z[Len(s) + 1] = d
    BY <1>1, <1>3
  <2> QED  BY <1>1, <2>1
<1> QED  BY <1>2, <1>3

\* Lists b are lists c, with d at the end of some.
Extended(c, b, d) ==
  /\ Lists(b) /\ Len(b) = Len(c) /\ DOMAIN b = DOMAIN c
  /\ \A a \in DOMAIN c :
       /\ Len(c[a]) \in Nat /\ Len(b[a]) \in Nat /\ Len(c[a]) <= Len(b[a])
       /\ \A i \in DOMAIN c[a] : i \in DOMAIN b[a] /\ b[a][i] = c[a][i]
       /\ \A i \in DOMAIN b[a] : i \in DOMAIN c[a] \/ b[a][i] = d

(* A type at the end of a tree                                              *)
LEMMA TreeExtended ==
  ASSUME NEW c, Lists(c), NEW n, NEW d
  PROVE  Extended(c, [c EXCEPT ![n] = Append(@, d)], d)
<1> DEFINE x == Append(c[n], d)
           b == [c EXCEPT ![n] = x]
<1>1. /\ IsList(b) /\ Len(b) = Len(c) /\ DOMAIN b = DOMAIN c
      /\ \A a \in DOMAIN c : b[a] = IF a = n THEN x ELSE c[a]
  BY Exchanged DEF Lists
<1>2. [c EXCEPT ![n] = Append(@, d)] = b
  OBVIOUS
<1> HIDE DEF b
<1>3. ASSUME NEW a \in DOMAIN c
      PROVE  /\ IsList(b[a])
             /\ Len(c[a]) \in Nat /\ Len(b[a]) \in Nat /\ Len(c[a]) <= Len(b[a])
             /\ \A i \in DOMAIN c[a] : i \in DOMAIN b[a] /\ b[a][i] = c[a][i]
             /\ \A i \in DOMAIN b[a] : i \in DOMAIN c[a] \/ b[a][i] = d
  <2>1. PICK s : s = c[a]
    OBVIOUS
  <2>2. PICK z : z = b[a]
    OBVIOUS
  <2>3. IsList(s) /\ (z = s \/ z = Append(s, d))
    BY <1>1, <2>1, <2>2 DEF Lists
  <2>4. /\ IsList(z)
        /\ Len(s) \in Nat /\ Len(z) \in Nat /\ Len(s) <= Len(z)
        /\ \A i \in DOMAIN s : i \in DOMAIN z /\ z[i] = s[i]
        /\ \A i \in DOMAIN z : i \in DOMAIN s \/ z[i] = d
    BY <2>3, Longer
  <2> QED  BY <2>1, <2>2, <2>4
<1>4. Lists(b)
  BY <1>1, <1>3 DEF Lists
<1>5. Extended(c, b, d)
  BY <1>1, <1>3, <1>4 DEF Extended
<1> QED  BY <1>2, <1>5

(* From the third loop on, trees and types only grow.                       *)
LEMMA StepsGrow ==
  ASSUME TreeInv, phase > 2, phase \in 0 .. 5, ast \in DOMAIN asts, Step
  PROVE  Growing /\ TreeInv'
<1>1. /\ DOMAIN types \subseteq DOMAIN types'
      /\ asts' = asts \/ \E d : d.def = "type" /\ asts' = [asts EXCEPT ![ast] = Append(@, d)]
  BY StepsAdd
<1>2. UNCHANGED <<phase, pos, last, ast, astState>>
  BY StepsKeepTheLoop DEF loop
<1>3. /\ Lists(asts) /\ Len(asts) = Len(astState)
      /\ \A a \in DOMAIN asts : \A i \in DOMAIN asts[a] : asts[a][i].def = "func" => IsList(asts[a][i].params)
      /\ DOMAIN BuiltinTypes \subseteq DOMAIN types
      /\ pos \in Nat \ {0} /\ last \in Nat /\ last <= Len(asts[ast])
  BY DEF TreeInv, Lists
<1>4. CASE asts' = asts
  <2>1. Growing
    BY <1>1, <1>4 DEF Growing, Defines, Params
  <2>2. TreeInv'
    BY <1>1, <1>2, <1>3, <1>4 DEF TreeInv, Lists
  <2> QED  BY <2>1, <2>2
<1>5. ASSUME NEW d, d.def = "type", asts' = [asts EXCEPT ![ast] = Append(@, d)]
      PROVE  Growing /\ TreeInv'
  <2>1. /\ Lists(asts') /\ Len(asts') = Len(asts) /\ DOMAIN asts' = DOMAIN asts
        /\ \A a \in DOMAIN asts :
             /\ Len(asts[a]) \in Nat /\ Len(asts'[a]) \in Nat /\ Len(asts[a]) <= Len(asts'[a])
             /\ \A i \in DOMAIN asts[a] : i \in DOMAIN asts'[a] /\ asts'[a][i] = asts[a][i]
             /\ \A i \in DOMAIN asts'[a] : i \in DOMAIN asts[a] \/ asts'[a][i] = d
    <3>1. Extended(asts, [asts EXCEPT ![ast] = Append(@, d)], d)
      BY <1>3, TreeExtended
    <3>2. Extended(asts, asts', d)
      BY <1>5, <3>1
    <3> QED  BY <3>2 DEF Extended
  <2>2. ASSUME NEW p, NEW kind, Defines(p, kind)
        PROVE  Defines(p, kind)' /\ Params(p)' = Params(p)
    <3>1. PICK a \in DOMAIN asts : \E i \in DOMAIN asts[a] : p = <<a, i>> /\ asts[a][i].def = kind
      BY <2>2 DEF Defines
    <3>2. PICK i \in DOMAIN asts[a] : p = <<a, i>> /\ asts[a][i].def = kind
      BY <3>1
    <3>3. a \in DOMAIN asts' /\ i \in DOMAIN asts'[a] /\ asts'[a][i] = asts[a][i]
      BY <2>1
    <3> QED  BY <3>2, <3>3 DEF Defines, Params
  <2>3. Growing
    BY <1>1, <2>2 DEF Growing
  <2>4. ASSUME NEW a \in DOMAIN asts', NEW i \in DOMAIN asts'[a], asts'[a][i].def = "func"
        PROVE  IsList(asts'[a][i].params)
    <3>1. a \in DOMAIN asts /\ (i \in DOMAIN asts[a] \/ asts'[a][i] = d)
      BY <2>1
    <3>2. i \in DOMAIN asts[a]
      BY <1>5, <2>4, <3>1
    <3> QED  BY <1>3, <2>1, <2>4, <3>1, <3>2
  <2>5. last <= Len(asts'[ast])
    <3>1. Len(asts[ast]) \in Nat /\ Len(asts'[ast]) \in Nat /\ Len(asts[ast]) <= Len(asts'[ast])
      BY <2>1
    <3> QED  BY <1>3, <3>1
  <2>6. TreeInv'
    BY <1>1, <1>2, <1>3, <2>1, <2>4, <2>5 DEF TreeInv, Lists
  <2> QED  BY <2>3, <2>6
<1> QED  BY <1>1, <1>4, <1>5

-----------------------------------------------------------------------------
(* What the analyser resolves and declares                                  *)

(* Only the node of the head task is resolved.                              *)
LEMMA StepsResolve ==
  ASSUME Step, agenda[1].op \notin {"funcdecl", "param"}
  PROVE  \/ sem' = sem
         \/ agenda[1].op \in Within \cup {"vardef"} /\ \E t : sem' = With(sem, here, t)
<1> DEFINE Resolved == agenda[1].op \in Within \cup {"vardef"} /\ \E t : sem' = With(sem, here, t)
<1> SUFFICES sem' = sem \/ Resolved
  OBVIOUS
<1>1. ASSUME NEW n, NEW t, Yield(n, t) PROVE \E x : sem' = With(sem, here, x)
  BY <1>1 DEF Yield
<1>2. ASSUME NEW n, NEW t, YieldOrFail(n, t) PROVE sem' = sem \/ \E x : sem' = With(sem, here, x)
  BY <1>1, <1>2 DEF YieldOrFail
<1>3. ~FunctionDeclaration /\ ~Parameter /\ ~DeclarationEnd
  BY DEF FunctionDeclaration, Parameter, DeclarationEnd, At
<1>4. CASE VarDefinition
  <2>1. agenda[1].op \in {"vardef", "stmt"}
    BY <1>4 DEF VarDefinition, At, Statement
  <2>2. \E x : sem' = With(sem, here, x)
    BY <1>4 DEF VarDefinition
  <2> QED  BY <2>1, <2>2 DEF Within
<1>5. CASE TypeDeclaration \/ TypeDescription \/ AliasDescription \/ RecordField \/ RecordEnd
  BY <1>5 DEF TypeDeclaration, TypeDescription, AliasDescription, RecordField, RecordEnd, tree
<1>6. CASE ElementOfAlias \/ ElementOfRecord \/ OuterLayer
  BY <1>6 DEF ElementOfAlias, ElementOfRecord, OuterLayer
<1>7. CASE FunctionBody \/ MissingReturn \/ Block \/ StatementEnd \/ PushScope \/ PopScope
  BY <1>7 DEF FunctionBody, MissingReturn, Block, StatementEnd, PushScope, PopScope, tree
<1>8. CASE Compound \/ While \/ WhileEnd \/ BreakOrContinue \/ Store \/ Return \/ ReturnValue \/ Condition
  BY <1>8 DEF Compound, While, WhileEnd, BreakOrContinue, Store, Return, ReturnValue, Condition, tree
<1>9. CASE NamedVariable \/ FieldAccess \/ ElementAccess \/ CallEnd
  <2>1. agenda[1].op \in {"var", "getfield", "getindex", "callend"}
    BY <1>9 DEF NamedVariable, FieldAccess, ElementAccess, CallEnd, At
  <2>2. sem' = sem \/ \E x : sem' = With(sem, here, x)
    <3>1. CASE NamedVariable  BY <1>1, <3>1 DEF NamedVariable
    <3>2. CASE FieldAccess  BY <1>1, <3>2 DEF FieldAccess
    <3>3. CASE ElementAccess  BY <1>1, <3>3 DEF ElementAccess
    <3>4. CASE CallEnd  BY <1>1, <3>4 DEF CallEnd
    <3> QED  BY <1>9, <3>1, <3>2, <3>3, <3>4
  <2> QED  BY <2>1, <2>2 DEF Within
<1>10. CASE FieldOrElement \/ Call \/ Comparison \/ Argument
  BY <1>10 DEF FieldOrElement, Call, Comparison, Argument, tree
<1>11. CASE Expression \/ Operation \/ MistypedString \/ StringLiteral \/ NewArray
  <2>1. agenda[1].op \in {"exp", "unop", "binop", "condexp", "varexp", "callexp", "cast", "sized"}
    BY <1>11 DEF Expression, Operation, MistypedString, StringLiteral, NewArray, At
  <2>2. sem' = sem \/ \E x : sem' = With(sem, here, x)
    <3>1. CASE Expression
      <4>1. \A op, content, e : Operand(op, content, e) => sem' = sem
        BY DEF Operand
      <4> QED  BY <1>1, <1>2, <3>1, <4>1 DEF Expression
    <3>2. CASE Operation  BY <1>1, <1>2, <3>2 DEF Operation
    <3>3. CASE MistypedString  BY <1>1, <3>3 DEF MistypedString
    <3>4. CASE StringLiteral  BY <1>1, <3>4 DEF StringLiteral
    <3>5. CASE NewArray  BY <1>1, <3>5 DEF NewArray
    <3> QED  BY <1>11, <3>1, <3>2, <3>3, <3>4, <3>5
  <2> QED  BY <2>1, <2>2 DEF Within
<1> QED
  BY <1>3, <1>4, <1>5, <1>6, <1>7, <1>8, <1>9, <1>10, <1>11 DEF Step

(* The empty chain has no scope to lose.                                    *)
LEMMA NothingToPop == Pop(<< >>) = << >>
BY DEF Pop, Front

(* From the third loop on, no function comes into scope.                    *)
LEMMA StepsAddNoFunction ==
  ASSUME Step, Lists(scopes), agenda[1].op \notin {"funcdecl", "param"},
         agenda[1].op = "funcimpl" => IsList(node.params)
  PROVE  NothingNew(scopes, scopes')
<1>1. scopes' = scopes => NothingNew(scopes, scopes')
  BY DEF NothingNew
<1>2. \A s : s.kind # "func" /\ scopes' = Declare(scopes, s) => NothingNew(scopes, scopes')
  BY DeclareAddsNothing
<1>3. \A n, k, p : k # "func" => Symbol(n, k, p).kind # "func"
  BY DEF Symbol
<1>4. ASSUME NEW desc, Register(desc) PROVE NothingNew(scopes, scopes')
  <2>1. Symbol(desc.name, "type", NewType).kind # "func"
    BY <1>3
  <2> QED  BY <1>2, <1>4, <2>1 DEF Register
<1>5. ASSUME NEW t, FindOrCreateArrayType(t) PROVE NothingNew(scopes, scopes')
  BY <1>1, <1>4, <1>5 DEF FindOrCreateArrayType
<1>6. ~FunctionDeclaration /\ ~Parameter /\ ~DeclarationEnd
  BY DEF FunctionDeclaration, Parameter, DeclarationEnd, At
<1>7. CASE TypeDeclaration
  <2>1. Symbol(node.name, "type", here).kind # "func"
    BY <1>3
  <2> QED  BY <1>1, <1>2, <1>7, <2>1 DEF TypeDeclaration
<1>8. CASE VarDefinition
  <2>1. Symbol(node.name, "var", here).kind # "func"
    BY <1>3
  <2> QED  BY <1>1, <1>2, <1>8, <2>1 DEF VarDefinition
<1>9. CASE TypeDescription \/ AliasDescription \/ ElementOfAlias
  BY <1>1, <1>9 DEF TypeDescription, AliasDescription, ElementOfAlias
<1>10. CASE RecordField
  <2> DEFINE c == FieldScopes
             s == Symbol(types[here].fields[node].name, "field", <<here, node>>)
  <2>1. c # << >> /\ (scopes' = Pop(c) \/ scopes' = Declare(c, s))
    BY <1>10 DEF RecordField
  <2>2. NothingNew(scopes, c)
    <3>1. c = scopes \/ (c = Pop(scopes) /\ scopes # << >>)
      BY <2>1, NothingToPop DEF FieldScopes
    <3> QED  BY <3>1, PopAddsNothing DEF NothingNew
  <2>3. s.kind # "func"
    BY <1>3
  <2> HIDE DEF c, s
  <2>4. Lists(c)
    BY <2>2 DEF NothingNew
  <2>5. NothingNew(c, Pop(c)) /\ NothingNew(c, Declare(c, s))
    BY <2>1, <2>3, <2>4, PopAddsNothing, DeclareAddsNothing
  <2>6. NothingNew(c, scopes')
    BY <2>1, <2>5
  <2> QED  BY <2>2, <2>6, NothingNewAgain
<1>11. CASE RecordEnd \/ PopScope \/ WhileEnd
  <2>1. scopes # << >> /\ scopes' = Pop(scopes)
    BY <1>11 DEF RecordEnd, PopScope, WhileEnd
  <2> QED  BY <2>1, PopAddsNothing
<1>12. CASE ElementOfRecord
  BY <1>4, <1>12 DEF ElementOfRecord
<1>13. CASE OuterLayer
  BY <1>5, <1>13 DEF OuterLayer
<1>14. CASE FunctionBody
  <2> DEFINE params == [i \in 1 .. Len(node.params) |-> Symbol(node.params[i].name, "param", ParamAt(here, i))]
  <2>1. agenda[1].op = "funcimpl" /\ (scopes' = scopes \/ scopes' = Append(scopes, params))
    BY <1>14 DEF FunctionBody, At
  <2>2. Len(node.params) \in Nat
    BY <2>1, Appended
  <2>3. IsList(params) /\ DOMAIN params = 1 .. Len(node.params)
    <3> DEFINE U == {Symbol(node.params[i].name, "param", ParamAt(here, i)) : i \in 1 .. Len(node.params)}
    <3>1. params \in [1 .. Len(node.params) -> U]
      OBVIOUS
    <3> HIDE DEF params, U
    <3>2. params \in Seq(U)
      BY <2>2, <3>1, IsASeq
    <3> QED  BY <3>1, <3>2, SeqIsList
  <2>4. \A i \in DOMAIN params : params[i].kind # "func"
    BY <1>3, <2>3
  <2> HIDE DEF params
  <2>5. NothingNew(scopes, Append(scopes, params))
    BY <2>3, <2>4, PushAddsNothing
  <2> QED  BY <1>1, <2>1, <2>5
<1>15. CASE PushScope \/ While
  <2>1. scopes' = Append(scopes, << >>)
    BY <1>15 DEF PushScope, While, Push
  <2>2. IsList(<< >>) /\ DOMAIN << >> = {}
    BY ShortLists
  <2>3. NothingNew(scopes, Append(scopes, << >>))
    BY <2>2, PushAddsNothing
  <2> QED  BY <2>1, <2>3
<1>16. CASE MissingReturn \/ Block \/ StatementEnd \/ Compound \/ BreakOrContinue \/ Store \/ Return \/ ReturnValue
  BY <1>1, <1>16 DEF MissingReturn, Block, StatementEnd, Compound, BreakOrContinue, Store, Return, ReturnValue
<1>17. CASE Condition \/ NamedVariable \/ FieldOrElement \/ Call \/ CallEnd \/ Comparison \/ FieldAccess
  BY <1>1, <1>17 DEF Condition, NamedVariable, FieldOrElement, Call, CallEnd, Comparison, FieldAccess
<1>18. CASE ElementAccess \/ Argument \/ Expression \/ Operation \/ MistypedString
  BY <1>1, <1>18 DEF ElementAccess, Argument, Expression, Operation, MistypedString
<1>19. CASE StringLiteral
  BY <1>5, <1>19 DEF StringLiteral
<1>20. CASE NewArray
  BY <1>1, <1>5, <1>20 DEF NewArray
<1> QED
  BY <1>6, <1>7, <1>8, <1>9, <1>10, <1>11, <1>12, <1>13, <1>14, <1>15, <1>16, <1>17, <1>18, <1>19, <1>20 DEF Step

-----------------------------------------------------------------------------
(* Where the tasks of the later loops are                                   *)

\* Tasks that are at no signature
Good(ts) == IsList(ts) /\ \A i \in DOMAIN ts : Placed(ts[i])

(* A few tasks in a row                                                     *)
LEMMA GoodTasks ==
  /\ Good(<< >>)
  /\ \A t : Placed(t) => Good(<<t>>)
  /\ \A t, u : Placed(t) /\ Placed(u) => Good(<<t, u>>)
  /\ \A t, u, v : Placed(t) /\ Placed(u) /\ Placed(v) => Good(<<t, u, v>>)
<1>1. Good(<< >>)
  BY ShortLists DEF Good
<1>2. ASSUME NEW t, Placed(t) PROVE Good(<<t>>)
  BY <1>2, ShortLists DEF Good
<1>3. ASSUME NEW t, NEW u, Placed(t), Placed(u) PROVE Good(<<t, u>>)
  BY <1>3, ShortLists DEF Good
<1>4. ASSUME NEW t, NEW u, NEW v, Placed(t), Placed(u), Placed(v) PROVE Good(<<t, u, v>>)
  BY <1>4, ShortLists DEF Good
<1> QED  BY <1>1, <1>2, <1>3, <1>4

(* Tasks after others                                                       *)
LEMMA GoodAfterGood ==
  ASSUME NEW ts, NEW us, Good(ts), Good(us)
  PROVE  Good(ts \o us)
<1>1. IsList(ts) /\ IsList(us) /\ IsList(ts \o us)
  BY Joined DEF Good
<1>2. ASSUME NEW i \in DOMAIN (ts \o us) PROVE Placed((ts \o us)[i])
  <2>1. \/ \E j \in DOMAIN ts : (ts \o us)[i] = ts[j]
        \/ \E j \in DOMAIN us : (ts \o us)[i] = us[j]
    BY <1>1, JoinedElements, SMTT(30)
  <2> QED  BY <2>1 DEF Good
<1> QED  BY <1>1, <1>2 DEF Good

(* What a failure leaves of a settled agenda                                *)
LEMMA FailureSettles ==
  ASSUME NEW a, Settled(a), a # << >>
  PROVE  Settled(FromMarker(a)) /\ FromMarker(a) # << >>
<1> DEFINE n == Len(a)
           markers == {i \in 1 .. n : a[i].op \in Markers}
<1>1. IsList(a) /\ n \in Nat /\ n > 0 /\ DOMAIN a = 1 .. n /\ a[n].op = "enddef"
      /\ \A i \in 1 .. n : Placed(a[i])
  BY Rest DEF Settled
<1>2. n \in markers
  BY <1>1 DEF Markers
<1>3. Min(markers) \in markers
  <2>1. markers \in SUBSET Nat /\ markers # {}
    BY <1>1, <1>2
  <2> HIDE DEF markers
  <2>2. \E i \in markers : \A j \in markers : i <= j
    BY <2>1, Least
  <2> QED  BY <2>2 DEF Min
<1> DEFINE m == Min(markers)
           b == SubSeq(a, m, n)
<1>4. m \in 1 .. n
  BY <1>3
<1>5. FromMarker(a) = b
  BY DEF FromMarker
<1> HIDE DEF m, markers
<1>6. /\ IsList(b) /\ Len(b) = n - m + 1 /\ DOMAIN b = 1 .. n - m + 1
      /\ \A i \in 1 .. n - m + 1 : b[i] = a[m + i - 1]
  <2> DEFINE U == {a[i] : i \in DOMAIN a}
  <2>1. a \in Seq(U) /\ DOMAIN a = 1 .. n
    BY <1>1 DEF IsList
  <2>2. \A i \in m .. n : a[i] \in U
    BY <1>1, <1>4, <2>1
  <2> HIDE DEF U
  <2>3. /\ b \in Seq(U) /\ Len(b) = IF m <= n THEN n - m + 1 ELSE 0
        /\ \A i \in 1 .. n - m + 1 : b[i] = a[m + i - 1]
    BY <1>1, <1>4, <2>2, SubSeqProperties
  <2>4. m <= n
    BY <1>1, <1>4
  <2> HIDE DEF b, n
  <2>5. Len(b) = n - m + 1 /\ DOMAIN b = 1 .. Len(b)
    BY <2>3, <2>4
  <2>6. IsList(b)
    BY <2>3, SeqIsList
  <2> QED  BY <2>3, <2>5, <2>6
<1> HIDE DEF b, n
<1>7. /\ n - m + 1 \in 1 .. n - m + 1 /\ m + (n - m + 1) - 1 = n
      /\ \A i \in 1 .. n - m + 1 : m + i - 1 \in 1 .. n
  BY <1>1, <1>4
<1>8. b[Len(b)].op = "enddef"
  BY <1>1, <1>6, <1>7
<1>9. \A i \in DOMAIN b : Placed(b[i])
  BY <1>1, <1>6, <1>7
<1>10. b # << >>
  <2>1. n - m + 1 \in DOMAIN b
    BY <1>6, <1>7
  <2>2. DOMAIN << >> = {}
    OBVIOUS
  <2> QED  BY <2>1, <2>2
<1> QED  BY <1>5, <1>6, <1>8, <1>9, <1>10 DEF Settled

(* Tasks that take the place of one that ends no definition                 *)
LEMMA TasksSettle ==
  ASSUME NEW a, Settled(a), a # << >>, a[1].op # "enddef", NEW ts, Good(ts)
  PROVE  Settled(ts \o Tail(a)) /\ ts \o Tail(a) # << >>
<1> DEFINE t == Tail(a)
           b == ts \o t
<1>1. /\ IsList(t) /\ Len(a) \in Nat /\ Len(a) > 0 /\ DOMAIN a = 1 .. Len(a)
      /\ Len(t) = Len(a) - 1 /\ DOMAIN t = 1 .. Len(a) - 1
      /\ \A i \in 1 .. Len(a) - 1 : t[i] = a[i + 1]
  BY Rest DEF Settled
<1>2. a[Len(a)].op = "enddef" /\ \A i \in DOMAIN a : Placed(a[i])
  BY DEF Settled
<1>3. Len(a) > 1
  BY <1>1, <1>2
<1>4. Good(t) /\ t[Len(t)].op = "enddef" /\ Len(t) > 0
  <2>1. \A i \in 1 .. Len(a) - 1 : i + 1 \in DOMAIN a
    BY <1>1
  <2>2. Good(t)
    BY <1>1, <1>2, <2>1 DEF Good
  <2>3. Len(t) \in 1 .. Len(a) - 1 /\ Len(t) + 1 = Len(a) /\ Len(t) > 0
    BY <1>1, <1>3
  <2>4. t[Len(t)] = a[Len(t) + 1]
    BY <1>1, <2>3
  <2> HIDE DEF t
  <2> QED  BY <1>2, <2>2, <2>3, <2>4
<1> HIDE DEF t
<1>5. Good(b)
  BY <1>4, GoodAfterGood
<1>6. /\ IsList(b) /\ Len(ts) \in Nat /\ Len(t) \in Nat
      /\ DOMAIN b = 1 .. Len(ts) + Len(t)
      /\ \A i \in 1 .. Len(ts) + Len(t) : i > Len(ts) => b[i] = t[i - Len(ts)]
  BY <1>1, Joined DEF Good
<1> HIDE DEF b
<1>7. Len(b) = Len(ts) + Len(t)
  <2>1. DOMAIN b = 1 .. Len(b) /\ Len(b) \in Nat
    BY <1>6, Appended
  <2> QED  BY <1>6, <2>1
<1>8. b[Len(b)] = t[Len(t)]
  <2>1. Len(b) \in 1 .. Len(ts) + Len(t) /\ Len(b) > Len(ts) /\ Len(b) - Len(ts) = Len(t)
    BY <1>4, <1>6, <1>7
  <2> QED  BY <1>6, <2>1
<1>9. b # << >>
  <2>1. Len(b) > 0
    BY <1>4, <1>6, <1>7
  <2>2. Len(<< >>) = 0
    OBVIOUS
  <2> QED  BY <2>1, <2>2
<1> QED  BY <1>4, <1>5, <1>8, <1>9 DEF Settled, Good, b, t

\* The head task ended no definition, and good tasks took its place, or it failed.
MovesOn ==
  /\ agenda # << >> /\ agenda[1].op # "enddef"
  /\ agenda' = FromMarker(agenda) \/ \E ts : Good(ts) /\ agenda' = ts \o Tail(agenda)

(* The ways on of a task                                                    *)
LEMMA MoveOn ==
  ASSUME agenda # << >>, agenda[1].op # "enddef", Fail \/ Done \/ \E ts : Good(ts) /\ Then(ts)
  PROVE  MovesOn
BY GoodTasks DEF MovesOn, Fail, Done, Then

(* A settled agenda stays settled as it moves on.                           *)
LEMMA MovesSettle ==
  ASSUME Settled(agenda), MovesOn
  PROVE  Settled(agenda') /\ agenda' # << >>
<1>1. CASE agenda' = FromMarker(agenda)
  BY <1>1, FailureSettles DEF MovesOn
<1>2. ASSUME NEW ts, Good(ts), agenda' = ts \o Tail(agenda)
      PROVE  Settled(agenda') /\ agenda' # << >>
  BY <1>2, TasksSettle DEF MovesOn
<1> QED  BY <1>1, <1>2 DEF MovesOn

\* The tasks with a content of their own
Special == {"typedecl", "funcdecl", "param", "vardef", "funcimpl", "endstmt", "arg"}

(* The other tasks may be anywhere at a node, and inside of it.             *)
LEMMA PlacedTasks ==
  ASSUME NEW h, Path(h), NEW op, op \notin Special, NEW c
  PROVE  /\ \A k : k # 0 => Placed(Task(op, Child(h, k), c))
         /\ op \notin Within \/ Len(h) > 2 => Placed(Task(op, h, c))
<1>1. ASSUME NEW p, Path(p), op \notin Within \/ Len(p) > 2 PROVE Placed(Task(op, p, c))
  <2>1. Task(op, p, c).op = op /\ Task(op, p, c).at = p
    BY DEF Task
  <2> QED  BY <1>1, <2>1 DEF Placed, Special
<1>2. ASSUME NEW k, k # 0 PROVE Placed(Task(op, Child(h, k), c))
  BY <1>1, <1>2, ChildInside
<1> QED  BY <1>1, <1>2

(* The tasks of type definitions stay at them.                              *)
LEMMA DefinitionsMoveOn ==
  ASSUME agenda # << >>, Placed(agenda[1]),
         TypeDescription \/ RecordField \/ ElementOfAlias \/ ElementOfRecord \/ OuterLayer
  PROVE  MovesOn
<1>1. Path(here)
  BY DEF Placed, here
<1>2. \A op, c : op \notin Special \cup Within => Placed(Task(op, here, c))
  BY <1>1, PlacedTasks
<1>3. \A op \in {"layer", "push", "field", "alias"} : op \notin Special \cup Within
  BY DEF Special, Within
<1>4. \A k : Good(FromLayer(k))
  <2>1. \A k : Placed(Task("layer", here, k))
    BY <1>2, <1>3
  <2> QED  BY <2>1, GoodTasks DEF FromLayer
<1>5. CASE TypeDescription
  <2> DEFINE base == IF node.desc.kind = "record"
                     THEN <<Task("push", here, NoNode), Task("field", here, 1)>>
                     ELSE <<Task("alias", here, NoNode)>>
  <2>1. agenda[1].op = "typedesc" /\ Then(base \o FromLayer(1))
    BY <1>5 DEF TypeDescription, At
  <2>2. Good(base)
    <3>1. Placed(Task("push", here, NoNode)) /\ Placed(Task("field", here, 1)) /\ Placed(Task("alias", here, NoNode))
      BY <1>2, <1>3
    <3> QED  BY <3>1, GoodTasks
  <2> HIDE DEF base
  <2>3. Good(base \o FromLayer(1))
    BY <1>4, <2>2, GoodAfterGood
  <2> QED  BY <2>1, <2>3, MoveOn
<1>6. CASE RecordField
  <2>1. agenda[1].op = "field" /\ (Fail \/ Then(<<Task("field", here, node + 1)>>))
    BY <1>6 DEF RecordField, AtField, At
  <2>2. Placed(Task("field", here, node + 1))
    BY <1>2, <1>3
  <2>3. Good(<<Task("field", here, node + 1)>>)
    BY <2>2, GoodTasks
  <2> QED  BY <2>1, <2>3, MoveOn
<1>7. CASE ElementOfAlias \/ ElementOfRecord \/ OuterLayer
  <2>1. agenda[1].op = "layer" /\ Then(FromLayer(node + 1))
    BY <1>7 DEF ElementOfAlias, ElementOfRecord, OuterLayer, At
  <2> QED  BY <1>4, <2>1, MoveOn
<1> QED  BY <1>5, <1>6, <1>7

(* The tasks of blocks and statements go inside of them.                    *)
LEMMA StatementsMoveOn ==
  ASSUME agenda # << >>, Placed(agenda[1]),
         FunctionBody \/ Block \/ StatementEnd \/ Compound \/ While \/ Return
  PROVE  MovesOn
<1>1. Path(here) /\ (agenda[1].op = "stmt" => Len(here) > 2)
  BY DEF Placed, Within, here
<1>2. \A op, c : op \notin Special =>
        /\ \A k \in Nat \ {0} : Placed(Task(op, Child(here, k), c))
        /\ Placed(Task(op, Child(here, 1), c)) /\ Placed(Task(op, Child(here, 2), c))
        /\ Placed(Task(op, Child(here, 3), c))
        /\ op \notin Within \/ agenda[1].op = "stmt" => Placed(Task(op, here, c))
  <2> SUFFICES ASSUME NEW op, op \notin Special, NEW c
               PROVE  /\ \A k \in Nat \ {0} : Placed(Task(op, Child(here, k), c))
                      /\ Placed(Task(op, Child(here, 1), c)) /\ Placed(Task(op, Child(here, 2), c))
                      /\ Placed(Task(op, Child(here, 3), c))
                      /\ op \notin Within \/ agenda[1].op = "stmt" => Placed(Task(op, here, c))
    OBVIOUS
  <2>1. /\ \A k : k # 0 => Placed(Task(op, Child(here, k), c))
        /\ op \notin Within \/ Len(here) > 2 => Placed(Task(op, here, c))
    BY <1>1, PlacedTasks
  <2> QED  BY <1>1, <2>1
<1>3. \A op \in {"block", "pop", "push", "retcheck", "mark", "wend"} : op \notin Special /\ op \notin Within
  BY DEF Special, Within
<1>4. \A op \in {"stmt", "cond", "exp", "var", "call", "store", "ret"} : op \notin Special
  BY DEF Special
<1>5. \A k \in Nat \ {0} : \A b : Good(Scoped(k, b))
  <2> SUFFICES ASSUME NEW k \in Nat \ {0}, NEW b PROVE Good(Scoped(k, b))
    OBVIOUS
  <2>1. /\ Placed(Task("push", here, NoNode)) /\ Placed(Task("block", Child(here, k), b))
        /\ Placed(Task("pop", here, NoNode))
    BY <1>2, <1>3
  <2> QED  BY <2>1, GoodTasks DEF Scoped
<1>6. CASE FunctionBody
  <2> DEFINE ts == <<Task("block", here, node.body), Task("pop", here, NoNode), Task("retcheck", here, NoNode)>>
  <2>1. agenda[1].op = "funcimpl" /\ (Done \/ Then(ts))
    BY <1>6 DEF FunctionBody, At
  <2>2. Good(ts)
    <3>1. /\ Placed(Task("block", here, node.body)) /\ Placed(Task("pop", here, NoNode))
          /\ Placed(Task("retcheck", here, NoNode))
      BY <1>2, <1>3
    <3> QED  BY <3>1, GoodTasks
  <2> HIDE DEF ts
  <2> QED  BY <2>1, <2>2, MoveOn
<1>7. CASE Block \/ StatementEnd
  <2>1. agenda[1].op \in {"block", "endstmt"}
    BY <1>7 DEF Block, StatementEnd, At
  <2>2. PICK i \in Nat \ {0} : \E b : Then(FromStatement(b, i))
    <3>1. CASE Block
      BY <3>1 DEF Block
    <3>2. CASE StatementEnd
      <4>1. agenda[1].op = "endstmt" /\ Then(FromStatement(node.block, node.index + 1))
        BY <3>2 DEF StatementEnd, At
      <4>2. node.index + 1 \in Nat \ {0}
        BY <4>1 DEF Placed, node
      <4> QED  BY <4>1, <4>2
    <3> QED  BY <1>7, <3>1, <3>2
  <2>3. PICK b : Then(FromStatement(b, i))
    BY <2>2
  <2>4. Good(FromStatement(b, i))
    <3>1. Placed(Task("stmt", Child(here, i), b[i]))
      BY <1>2, <1>4
    <3> DEFINE t == Task("endstmt", here, [index |-> i, block |-> b])
    <3>2. t.op = "endstmt" /\ t.at = here /\ t.node.index = i
      BY DEF Task
    <3> HIDE DEF t
    <3>3. Placed(t)
      BY <1>1, <3>2 DEF Placed, Within
    <3> QED  BY <3>1, <3>3, GoodTasks DEF FromStatement, t
  <2> QED  BY <2>1, <2>3, <2>4, MoveOn
<1>8. CASE While
  <2> DEFINE ts == <<Task("cond", Child(here, 3), node.cond), Task("block", Child(here, 1), node.body),
                     Task("wend", here, NoNode)>>
  <2>1. agenda[1].op = "stmt" /\ Then(ts)
    BY <1>8 DEF While, Statement, At
  <2>2. Good(ts)
    <3>1. /\ Placed(Task("cond", Child(here, 3), node.cond)) /\ Placed(Task("block", Child(here, 1), node.body))
          /\ Placed(Task("wend", here, NoNode))
      BY <1>2, <1>3, <1>4
    <3> QED  BY <3>1, GoodTasks
  <2> HIDE DEF ts
  <2> QED  BY <2>1, <2>2, MoveOn
<1>9. CASE Return
  <2> DEFINE ts == <<Task("exp", Child(here, 1), node.exp), Task("ret", here, NoNode)>>
  <2>1. agenda[1].op = "stmt" /\ (Fail \/ Done \/ Then(ts))
    BY <1>9 DEF Return, Check, Statement, At
  <2>2. Good(ts)
    <3>1. Placed(Task("exp", Child(here, 1), node.exp)) /\ Placed(Task("ret", here, NoNode))
      BY <1>2, <1>4, <2>1
    <3> QED  BY <3>1, GoodTasks
  <2> HIDE DEF ts
  <2> QED  BY <2>1, <2>2, MoveOn
<1>10. CASE Compound
  <2>1. agenda[1].op \in {"stmt", "mark"}
    BY <1>10 DEF Compound, Statement, At
  <2>2. CASE Statement("if")
    <3> DEFINE t == Task("cond", Child(here, 3), node.cond)
               u == Task("mark", here, NoNode)
               us == Scoped(1, node.then)
               vs == IF node.else = NULL THEN << >> ELSE Scoped(2, node.else)
    <3>1. Then(<<t, u>> \o us \o vs)
      BY <1>10, <2>2 DEF Compound, Statement, At
    <3>2. Placed(t) /\ Placed(u)
      BY <1>2, <1>3, <1>4
    <3>3. Good(us) /\ Good(vs)
      BY <1>5, GoodTasks
    <3> HIDE DEF t, u, us, vs
    <3>4. Good(<<t, u>>)
      BY <3>2, GoodTasks
    <3>5. Good(<<t, u>> \o us \o vs)
      BY <3>3, <3>4, GoodAfterGood
    <3> QED  BY <2>1, <3>1, <3>5, MoveOn
  <2>3. CASE At("mark") /\ Done
    BY <2>1, <2>3, MoveOn
  <2>4. CASE Statement("nested")
    <3>1. Then(Scoped(1, node.body))
      BY <1>10, <2>4 DEF Compound, Statement, At
    <3> QED  BY <1>5, <2>1, <3>1, MoveOn
  <2>5. CASE Statement("assign")
    <3> DEFINE ts == <<Task("exp", Child(here, 2), node.right), Task("var", Child(here, 1), node.left),
                       Task("store", here, node.left)>>
    <3>1. agenda[1].op = "stmt" /\ Then(ts)
      BY <1>10, <2>5 DEF Compound, Statement, At
    <3>2. Good(ts)
      <4>1. /\ Placed(Task("exp", Child(here, 2), node.right)) /\ Placed(Task("var", Child(here, 1), node.left))
            /\ Placed(Task("store", here, node.left))
        BY <1>2, <1>4, <3>1
      <4> QED  BY <4>1, GoodTasks
    <3> HIDE DEF ts
    <3> QED  BY <3>1, <3>2, MoveOn
  <2>6. CASE Statement("callstmt")
    <3>1. Then(<<Task("call", Child(here, 1), node.call)>>)
      BY <1>10, <2>6 DEF Compound, Statement, At
    <3>2. Placed(Task("call", Child(here, 1), node.call))
      BY <1>2, <1>4
    <3>3. Good(<<Task("call", Child(here, 1), node.call)>>)
      BY <3>2, GoodTasks
    <3> QED  BY <2>1, <3>1, <3>3, MoveOn
  <2>7. CASE Statement("echo")
    <3>1. Then(<<Task("exp", Child(here, 1), node.exp)>>)
      BY <1>10, <2>7 DEF Compound, Statement, At
    <3>2. Placed(Task("exp", Child(here, 1), node.exp))
      BY <1>2, <1>4
    <3>3. Good(<<Task("exp", Child(here, 1), node.exp)>>)
      BY <3>2, GoodTasks
    <3> QED  BY <2>1, <3>1, <3>3, MoveOn
  <2> QED  BY <1>10, <2>2, <2>3, <2>4, <2>5, <2>6, <2>7 DEF Compound
<1> QED  BY <1>6, <1>7, <1>8, <1>9, <1>10

(* The tasks of conditions, variables, calls and expressions                *)
LEMMA ExpressionsMoveOn ==
  ASSUME agenda # << >>, Placed(agenda[1]),
         Condition \/ FieldOrElement \/ Call \/ Argument \/ Expression
  PROVE  MovesOn
<1>1. /\ agenda[1].op \in {"cond", "var", "call", "arg", "exp"}
      /\ Path(here) /\ Len(here) > 2
  <2>1. agenda[1].op \in {"cond", "var", "call", "arg", "exp"}
    BY DEF Condition, FieldOrElement, Call, Argument, Expression, At
  <2> QED  BY <2>1 DEF Placed, Within, here
<1>2. \A op \in {"exp", "cond", "var", "call", "compare", "getfield", "getindex", "callend", "unop",
                 "binop", "condexp", "varexp", "callexp", "cast", "sized"} : \A c :
        /\ Placed(Task(op, here, c)) /\ \A k \in Nat \ {0} : Placed(Task(op, Child(here, k), c))
        /\ Placed(Task(op, Child(here, 1), c)) /\ Placed(Task(op, Child(here, 2), c))
        /\ Placed(Task(op, Child(here, 3), c))
  <2>1. \A op \in {"exp", "cond", "var", "call", "compare", "getfield", "getindex", "callend", "unop",
                   "binop", "condexp", "varexp", "callexp", "cast", "sized"} : op \notin Special
    BY DEF Special
  <2> QED  BY <1>1, <2>1, PlacedTasks
<1>3. ASSUME NEW args, NEW callee, NEW i \in Nat \ {0} PROVE Good(FromArgument(args, callee, i))
  <2>1. Placed(Task("exp", Child(here, i), args[i])) /\ Placed(Task("callend", here, callee))
    BY <1>2
  <2> DEFINE t == Task("arg", here, [args |-> args, callee |-> callee, index |-> i])
  <2>2. t.op = "arg" /\ t.at = here /\ t.node.index = i
    BY DEF Task
  <2> HIDE DEF t
  <2>3. Placed(t)
    BY <1>1, <2>2 DEF Placed
  <2> QED  BY <2>1, <2>3, GoodTasks DEF FromArgument, t
<1>4. CASE Condition
  <2> DEFINE ts == IF node.kind = "compare"
                   THEN <<Task("exp", Child(here, 1), node.left), Task("exp", Child(here, 2), node.right),
                          Task("compare", here, node.op)>>
                   ELSE <<Task("cond", Child(here, 1), node.left), Task("cond", Child(here, 2), node.right)>>
  <2>1. Then(ts)
    BY <1>4 DEF Condition
  <2>2. Good(ts)
    <3>1. /\ Placed(Task("exp", Child(here, 1), node.left)) /\ Placed(Task("exp", Child(here, 2), node.right))
          /\ Placed(Task("compare", here, node.op))
          /\ Placed(Task("cond", Child(here, 1), node.left)) /\ Placed(Task("cond", Child(here, 2), node.right))
      BY <1>2
    <3> QED  BY <3>1, GoodTasks
  <2> HIDE DEF ts
  <2> QED  BY <1>1, <2>1, <2>2, MoveOn
<1>5. CASE FieldOrElement
  <2> DEFINE ts == <<Task("exp", Child(here, 1), node.of), Task("getfield", here, node.name)>>
             us == <<Task("exp", Child(here, 1), node.of), Task("exp", Child(here, 2), node.by),
                     Task("getindex", here, NoNode)>>
  <2>1. Then(ts) \/ Then(us)
    BY <1>5 DEF FieldOrElement
  <2>2. Good(ts) /\ Good(us)
    <3>1. /\ Placed(Task("exp", Child(here, 1), node.of)) /\ Placed(Task("getfield", here, node.name))
          /\ Placed(Task("exp", Child(here, 2), node.by)) /\ Placed(Task("getindex", here, NoNode))
      BY <1>2
    <3> QED  BY <3>1, GoodTasks
  <2> HIDE DEF ts, us
  <2> QED  BY <1>1, <2>1, <2>2, MoveOn
<1>6. CASE Call
  <2> DEFINE ts == FromArgument(node.args, FindSymbol(scopes, node.name).node, 1)
  <2>1. Fail \/ Then(ts)
    BY <1>6 DEF Call
  <2>2. Good(ts)
    BY <1>3
  <2> HIDE DEF ts
  <2> QED  BY <1>1, <2>1, <2>2, MoveOn
<1>7. CASE Argument
  <2> DEFINE ts == FromArgument(node.args, node.callee, node.index + 1)
  <2>1. Fail \/ Then(ts)
    BY <1>7 DEF Argument
  <2>2. node.index + 1 \in Nat \ {0}
    <3>1. agenda[1].op = "arg"
      BY <1>7 DEF Argument, At
    <3> QED  BY <3>1 DEF Placed, node
  <2>3. Good(ts)
    BY <1>3, <2>2
  <2> HIDE DEF ts
  <2> QED  BY <1>1, <2>1, <2>3, MoveOn
<1>8. CASE Expression
  <2>1. ASSUME NEW n, NEW t, YieldOrFail(n, t) \/ Yield(n, t) PROVE Fail \/ Done
    BY <2>1 DEF YieldOrFail, Yield
  <2>2. Fail \/ Done \/ \E ts : Good(ts) /\ Then(ts)
    <3>1. ASSUME NEW op \in {"unop", "cast", "sized"}, NEW content, NEW e, Operand(op, content, e)
          PROVE  \E ts : Good(ts) /\ Then(ts)
      <4>1. Placed(Task("exp", Child(here, 1), e)) /\ Placed(Task(op, here, content))
        BY <1>2
      <4> QED  BY <3>1, <4>1, GoodTasks DEF Operand
    <3>2. CASE Yield(0, node.type) \/ Yield(0, tNull)
      BY <2>1, <3>2
    <3>3. CASE Operand("unop", node.op, node.of)
      BY <3>1, <3>3
    <3>4. CASE Then(<<Task("exp", Child(here, 1), node.left), Task("exp", Child(here, 2), node.right),
                      Task("binop", here, node.op)>>)
      <4>1. /\ Placed(Task("exp", Child(here, 1), node.left)) /\ Placed(Task("exp", Child(here, 2), node.right))
            /\ Placed(Task("binop", here, node.op))
        BY <1>2
      <4> QED  BY <3>4, <4>1, GoodTasks
    <3>5. CASE Operand("cast", node.name, node.of)
      BY <3>1, <3>5
    <3>6. CASE Then(<<Task("cond", Child(here, 3), node.cond), Task("exp", Child(here, 1), node.left),
                      Task("exp", Child(here, 2), node.right), Task("condexp", here, NoNode)>>)
      <4> DEFINE ts == <<Task("cond", Child(here, 3), node.cond), Task("exp", Child(here, 1), node.left)>>
                 us == <<Task("exp", Child(here, 2), node.right), Task("condexp", here, NoNode)>>
      <4>1. Good(ts) /\ Good(us)
        <5>1. /\ Placed(Task("cond", Child(here, 3), node.cond)) /\ Placed(Task("exp", Child(here, 1), node.left))
              /\ Placed(Task("exp", Child(here, 2), node.right)) /\ Placed(Task("condexp", here, NoNode))
          BY <1>2
        <5> QED  BY <5>1, GoodTasks
      <4>2. Then(ts \o us)
        BY <3>6, FourJoined
      <4> HIDE DEF ts, us
      <4>3. Good(ts \o us)
        BY <4>1, GoodAfterGood
      <4> QED  BY <4>2, <4>3
    <3>7. CASE Then(<<Task("var", Child(here, 1), node.var), Task("varexp", here, NoNode)>>)
      <4>1. Placed(Task("var", Child(here, 1), node.var)) /\ Placed(Task("varexp", here, NoNode))
        BY <1>2
      <4> QED  BY <3>7, <4>1, GoodTasks
    <3>8. CASE Then(<<Task("call", Child(here, 1), node.call), Task("callexp", here, NoNode)>>)
      <4>1. Placed(Task("call", Child(here, 1), node.call)) /\ Placed(Task("callexp", here, NoNode))
        BY <1>2
      <4> QED  BY <3>8, <4>1, GoodTasks
    <3>9. CASE node.kind = "new"
      <4>1. \E n, t : YieldOrFail(n, t)
        BY <1>8, <3>9 DEF Expression
      <4> QED  BY <2>1, <4>1
    <3>10. CASE Fail \/ Operand("sized", FindType(scopes, node.name), node.size)
      BY <3>1, <3>10
    <3> QED  BY <1>8, <3>2, <3>3, <3>4, <3>5, <3>6, <3>7, <3>8, <3>9, <3>10 DEF Expression
  <2> QED  BY <1>1, <2>2, MoveOn
<1> QED  BY <1>4, <1>5, <1>6, <1>7, <1>8

(* Every task moves on, but for those of the loops of declarations.         *)
LEMMA StepsMoveOn ==
  ASSUME Step, Placed(agenda[1])
  PROVE  MovesOn
<1>1. agenda # << >> /\ agenda[1].op \notin {"typedecl", "funcdecl", "param"}
  BY StepsKeepTheLoop DEF Placed
<1>2. ~TypeDeclaration /\ ~FunctionDeclaration /\ ~Parameter /\ ~DeclarationEnd
  BY <1>1 DEF TypeDeclaration, FunctionDeclaration, Parameter, DeclarationEnd, At
<1>3. ASSUME NEW n, NEW t, YieldOrFail(n, t) \/ Yield(n, t) PROVE Fail \/ Done
  BY <1>3 DEF YieldOrFail, Yield
<1>4. CASE VarDefinition \/ AliasDescription \/ RecordEnd \/ MissingReturn \/ PushScope \/ PopScope \/ WhileEnd
  <2>1. Fail \/ Done
    BY <1>4 DEF VarDefinition, AliasDescription, RecordEnd, MissingReturn, PushScope, PopScope, WhileEnd
  <2>2. agenda[1].op \in {"vardef", "stmt", "alias", "field", "retcheck", "push", "pop", "wend"}
    BY <1>4 DEF VarDefinition, AliasDescription, RecordEnd, MissingReturn, PushScope, PopScope, WhileEnd, At, Statement
  <2> QED  BY <1>1, <2>1, <2>2, MoveOn
<1>5. CASE BreakOrContinue \/ Store \/ ReturnValue \/ Comparison
  <2>1. Fail \/ Done
    BY <1>5 DEF BreakOrContinue, Store, ReturnValue, Comparison, Check
  <2>2. agenda[1].op \in {"stmt", "store", "ret", "compare"}
    BY <1>5 DEF BreakOrContinue, Store, ReturnValue, Comparison, At, Statement
  <2> QED  BY <1>1, <2>1, <2>2, MoveOn
<1>6. CASE NamedVariable \/ FieldAccess \/ ElementAccess \/ CallEnd
  <2>1. Fail \/ Done
    BY <1>3, <1>6 DEF NamedVariable, FieldAccess, ElementAccess, CallEnd
  <2>2. agenda[1].op \in {"var", "getfield", "getindex", "callend"}
    BY <1>6 DEF NamedVariable, FieldAccess, ElementAccess, CallEnd, At
  <2> QED  BY <1>1, <2>1, <2>2, MoveOn
<1>7. CASE Operation \/ MistypedString \/ StringLiteral \/ NewArray
  <2>1. Fail \/ Done
    <3>1. CASE Operation  BY <1>3, <3>1 DEF Operation
    <3>2. CASE MistypedString  BY <1>3, <3>2 DEF MistypedString
    <3>3. CASE StringLiteral  BY <1>3, <3>3 DEF StringLiteral
    <3>4. CASE NewArray  BY <1>3, <3>4 DEF NewArray
    <3> QED  BY <1>7, <3>1, <3>2, <3>3, <3>4
  <2>2. agenda[1].op \in {"unop", "binop", "condexp", "varexp", "callexp", "cast", "exp", "sized"}
    BY <1>7 DEF Operation, MistypedString, StringLiteral, NewArray, At
  <2> QED  BY <1>1, <2>1, <2>2, MoveOn
<1>8. CASE TypeDescription \/ RecordField \/ ElementOfAlias \/ ElementOfRecord \/ OuterLayer
  BY <1>1, <1>8, DefinitionsMoveOn
<1>9. CASE FunctionBody \/ Block \/ StatementEnd \/ Compound \/ While \/ Return
  BY <1>1, <1>9, StatementsMoveOn
<1>10. CASE Condition \/ FieldOrElement \/ Call \/ Argument \/ Expression
  BY <1>1, <1>10, ExpressionsMoveOn
<1> QED  BY <1>2, <1>4, <1>5, <1>6, <1>7, <1>8, <1>9, <1>10 DEF Step

(* What is settled stays settled as the trees grow.                         *)
LEMMA StaysSettled ==
  ASSUME Growing, Settled(agenda')
  PROVE  Settled(agenda)'
<1>1. ASSUME NEW t, Placed(t) PROVE Placed(t)'
  BY <1>1 DEF Placed, Growing
<1>2. ASSUME NEW i \in DOMAIN agenda' PROVE Placed(agenda[i])'
  <2>1. PICK t : t = agenda'[i]
    OBVIOUS
  <2>2. Placed(t)'
    BY <1>1, <2>1 DEF Settled
  <2> QED  BY <2>1, <2>2 DEF Placed, Defines
<1> QED  BY <1>2 DEF Settled

(* From the third loop on, the functions in scope stay resolved.            *)
LEMMA LaterStepsKeepCallees ==
  ASSUME CalleeInv, phase > 2, phase \in 0 .. 5, ast \in DOMAIN asts, result = "running", Step
  PROVE  CalleeInv' /\ agenda' # << >>
<1>1. agenda # << >> /\ UNCHANGED <<phase, ast, pos, last, astState, verdict, result>>
  BY StepsKeepTheLoop DEF loop
<1>2. /\ TreeInv /\ Lists(scopes) /\ Settled(agenda)
      /\ Callable(scopes)
  BY DEF CalleeInv
<1>3. Placed(agenda[1])
  <2>1. 1 \in DOMAIN agenda
    BY <1>1, <1>2, Rest DEF Settled
  <2> QED  BY <1>2, <2>1 DEF Settled
<1>4. Growing /\ TreeInv'
  BY <1>2, StepsGrow
<1>5. agenda[1].op \notin {"funcdecl", "param"} /\ (agenda[1].op = "funcimpl" => IsList(node.params))
  BY <1>3 DEF Placed, node
<1>6. sem' = sem \/ \E x, t : Aside(x) /\ sem' = With(sem, x, t)
  <2>1. CASE agenda[1].op \in Within \cup {"vardef"} /\ \E t : sem' = With(sem, here, t)
    <3>1. Path(here) /\ (Len(here) > 2 \/ Defines(here, "var"))
      BY <1>3, <2>1 DEF Placed, here
    <3>2. Aside(here)
      BY <3>1, OutsideSignatures
    <3> QED  BY <2>1, <3>2
  <2> QED  BY <1>5, <2>1, StepsResolve
<1>7. \A f : Signed(f) => Signed(f)'
  BY <1>4, <1>6, SignaturesKept
<1>8. NothingNew(scopes, scopes')
  BY <1>2, <1>5, StepsAddNoFunction
<1>9. Callable(scopes)'
  BY <1>2, <1>7, <1>8 DEF Callable, NothingNew
<1>10. Settled(agenda)' /\ agenda' # << >>
  BY <1>2, <1>3, <1>4, StepsMoveOn, MovesSettle, StaysSettled
<1>11. Lists(scopes)'
  BY <1>8 DEF NothingNew, Lists
<1> QED  BY <1>1, <1>4, <1>9, <1>10, <1>11 DEF CalleeInv

-----------------------------------------------------------------------------
(* The loops of declarations                                                *)

(* A list of two                                                            *)
LEMMA TwoElements ==
  ASSUME NEW x, NEW y
  PROVE  /\ Tail(<<x, y>>) = <<y>> /\ Tail(<<x>>) = << >>
         /\ Append(<<x>>, y) = <<x, y>>
         /\ Front(<<x, y>>) = <<x>>
<1>1. Append(<<x>>, y) = <<x, y>>
  <2>1. Append(<<x>>, y) \in Seq({x, y}) /\ <<x, y>> \in Seq({x, y})
    OBVIOUS
  <2>2. Len(Append(<<x>>, y)) = 2 /\ Append(<<x>>, y)[1] = x /\ Append(<<x>>, y)[2] = y
    OBVIOUS
  <2>3. \A i \in 1 .. 2 : Append(<<x>>, y)[i] = <<x, y>>[i]
    BY <2>2
  <2> QED  BY <2>1, <2>2, <2>3, SeqEqual
<1>2. Tail(<<x, y>>) = <<y>>
  <2>1. Tail(<<x, y>>) \in Seq({x, y}) /\ <<y>> \in Seq({x, y})
    OBVIOUS
  <2>2. Len(Tail(<<x, y>>)) = 1 /\ Tail(<<x, y>>)[1] = y
    OBVIOUS
  <2>3. \A i \in 1 .. 1 : Tail(<<x, y>>)[i] = <<y>>[i]
    BY <2>2
  <2> QED  BY <2>1, <2>2, <2>3, SeqEqual
<1>3. Tail(<<x>>) = << >>
  <2>1. Tail(<<x>>) \in Seq({x}) /\ Len(Tail(<<x>>)) = 0
    OBVIOUS
  <2> QED  BY <2>1, EmptySeq
<1>4. Front(<<x, y>>) = <<x>>
  <2> DEFINE s == <<x, y>>
             f == SubSeq(s, 1, 1)
  <2>1. s \in Seq({x, y}) /\ Len(s) = 2 /\ s[1] = x
    OBVIOUS
  <2>2. Front(s) = f
    BY <2>1 DEF Front
  <2> HIDE DEF s
  <2>3. \A i \in 1 .. 1 : s[i] \in {x, y}
    BY <2>1
  <2>4. /\ f \in Seq({x, y}) /\ Len(f) = IF 1 <= 1 THEN 1 - 1 + 1 ELSE 0
        /\ \A i \in 1 .. 1 - 1 + 1 : f[i] = s[1 + i - 1]
    BY <2>3, SubSeqProperties
  <2> HIDE DEF f
  <2>5. Len(f) = 1 /\ \A i \in 1 .. 1 : f[i] = s[1 + i - 1]
    BY <2>4
  <2>6. <<x>> \in Seq({x, y}) /\ Len(<<x>>) = 1
    OBVIOUS
  <2>7. \A i \in 1 .. 1 : f[i] = <<x>>[i]
    BY <2>1, <2>5
  <2>8. f = <<x>>
    BY <2>4, <2>5, <2>6, <2>7, SeqEqual
  <2> QED  BY <2>2, <2>8 DEF s
<1> QED  BY <1>1, <1>2, <1>3, <1>4

(* Chains of one scope                                                      *)
LEMMA OneScope ==
  ASSUME NEW a, NEW x
  PROVE  Push(<<a>>) = <<a, << >>>> /\ Declare(<<a>>, x) = <<Append(a, x)>>
<1>1. Push(<<a>>) = <<a, << >>>>
  BY TwoElements DEF Push
<1>2. Declare(<<a>>, x) = <<Append(a, x)>>
  BY DEF Declare
<1> QED  BY <1>1, <1>2

(* Chains of two scopes                                                     *)
LEMMA TwoScopes ==
  ASSUME NEW a, NEW b, NEW x
  PROVE  /\ Pop(<<a, b>>) = <<a>>
         /\ Declare(<<a, b>>, x) = <<a, Append(b, x)>>
         /\ RemoveFunction(<<a, b>>) = <<Front(a)>>
<1>1. Pop(<<a, b>>) = <<a>>
  BY TwoElements DEF Pop
<1>2. Declare(<<a, b>>, x) = <<a, Append(b, x)>>
  BY DEF Declare
<1>3. RemoveFunction(<<a, b>>) = <<Front(a)>>
  BY <1>1 DEF RemoveFunction
<1> QED  BY <1>1, <1>2, <1>3

(* The way on from the first of two tasks                                   *)
LEMMA TwoTasks ==
  ASSUME NEW t, NEW e, e.op = "enddef", t.op \notin Markers, NEW u
  PROVE  FromMarker(<<t, e>>) = <<e>> /\ << >> \o Tail(<<t, e>>) = <<e>> /\ <<u>> \o Tail(<<t, e>>) = <<u, e>>
<1>1. << >> \o Tail(<<t, e>>) = <<e>>
  BY TwoElements, ShortLists, JoinedToNothing
<1>2. <<u>> \o Tail(<<t, e>>) = <<u, e>>
  BY TwoElements, TwoJoined
<1>3. FromMarker(<<t, e>>) = <<e>>
  <2> DEFINE a == <<t, e>>
             markers == {i \in 1 .. 2 : a[i].op \in Markers}
             b == SubSeq(a, 2, 2)
  <2>1. a \in Seq({t, e}) /\ Len(a) = 2 /\ a[1] = t /\ a[2] = e
    OBVIOUS
  <2>2. FromMarker(a) = SubSeq(a, Min(markers), 2)
    BY <2>1 DEF FromMarker
  <2>3. markers = {2}
    BY <2>1 DEF Markers
  <2>4. Min({2}) = 2
    BY DEF Min
  <2> HIDE DEF a, markers
  <2>5. FromMarker(a) = b
    BY <2>2, <2>3, <2>4
  <2>6. \A i \in 2 .. 2 : a[i] \in {t, e}
    BY <2>1
  <2>7. /\ b \in Seq({t, e}) /\ Len(b) = IF 2 <= 2 THEN 2 - 2 + 1 ELSE 0
        /\ \A i \in 1 .. 2 - 2 + 1 : b[i] = a[2 + i - 1]
    BY <2>6, SubSeqProperties
  <2> HIDE DEF b
  <2>8. Len(b) = 1 /\ \A i \in 1 .. 1 : b[i] = <<e>>[i]
    BY <2>1, <2>7
  <2>9. <<e>> \in Seq({t, e}) /\ Len(<<e>>) = 1
    OBVIOUS
  <2>10. b = <<e>>
    BY <2>7, <2>8, <2>9, SeqEqual
  <2> QED  BY <2>5, <2>10 DEF a
<1> QED  BY <1>1, <1>2, <1>3

(* The greatest of a few numbers                                            *)
LEMMA Greatest ==
  ASSUME NEW n \in Nat, NEW T \in SUBSET (1 .. n), T # {}
  PROVE  Max(T) \in T
<1> DEFINE U == {n - x : x \in T}
<1>1. U \in SUBSET Nat /\ U # {}
  <2>1. \A x \in T : x \in 1 .. n
    OBVIOUS
  <2>2. \A x \in T : n - x \in Nat
    BY <2>1
  <2> QED  BY <2>2
<1> HIDE DEF U
<1>2. PICK u \in U : \A v \in U : u <= v
  BY <1>1, Least
<1>3. PICK x \in T : u = n - x
  BY <1>2 DEF U
<1>4. \A y \in T : y <= x
  <2> SUFFICES ASSUME NEW y \in T PROVE y <= x
    OBVIOUS
  <2>1. u <= n - y
    BY <1>2 DEF U
  <2>2. x \in Nat /\ y \in Nat
    OBVIOUS
  <2> QED  BY <1>3, <2>1, <2>2
<1>5. \A y \in T : x >= y
  <2>1. x \in Nat /\ \A y \in T : y \in Nat
    OBVIOUS
  <2> QED  BY <1>4, <2>1
<1> QED  BY <1>5 DEF Max

(* A type that is found is known.                                           *)
LEMMA FoundTypes ==
  ASSUME NEW c, Lists(c), TypesKnown(c), DOMAIN BuiltinTypes \subseteq DOMAIN types, NEW name
  PROVE  FindType(c, name) = NULL \/ FindType(c, name) \in DOMAIN types
<1> DEFINE s == FindSymbol(c, name)
           holders == {d \in 1 .. Len(c) : Named(c[d], name) # {}}
           builtin == {t \in BuiltinScope : t.name = name}
<1> SUFFICES ASSUME s # NULL, s.kind = "type" PROVE s.node \in DOMAIN types
  BY DEF FindType
<1>1. CASE holders # {}
  <2>1. Len(c) \in Nat /\ DOMAIN c = 1 .. Len(c)
    BY Appended DEF Lists
  <2> DEFINE d == Max(holders)
             named == Named(c[d], name)
             i == Min(named)
  <2>2. d \in holders
    BY <1>1, <2>1, Greatest
  <2>3. s = c[d][i]
    BY <1>1 DEF FindSymbol
  <2> HIDE DEF d, s
  <2>4. d \in DOMAIN c /\ IsList(c[d]) /\ named # {}
    BY <2>1, <2>2 DEF Lists
  <2>5. Len(c[d]) \in Nat /\ DOMAIN c[d] = 1 .. Len(c[d])
    BY <2>4, Appended
  <2>6. named \in SUBSET Nat /\ named \subseteq DOMAIN c[d]
    BY <2>5 DEF Named
  <2>7. i \in named
    <3> HIDE DEF named
    <3>1. \E x \in named : \A y \in named : x <= y
      BY <2>4, <2>6, Least
    <3> QED  BY <3>1 DEF Min
  <2>8. i \in DOMAIN c[d]
    BY <2>6, <2>7
  <2> HIDE DEF i
  <2> QED  BY <2>3, <2>4, <2>8 DEF TypesKnown
<1>2. CASE holders = {} /\ builtin # {}
  <2>1. s \in builtin
    <3>1. s = CHOOSE t \in builtin : TRUE
      BY <1>2 DEF FindSymbol
    <3> HIDE DEF builtin, s
    <3> QED  BY <1>2, <3>1
  <2>2. PICK t \in DOMAIN BuiltinTypes : s = Symbol(BuiltinTypes[t].name, "type", t)
    BY <2>1 DEF BuiltinScope
  <2>3. s.node = t
    BY <2>2 DEF Symbol
  <2> QED  BY <2>2, <2>3
<1>3. CASE holders = {} /\ builtin = {}
  <2>1. s = NULL
    BY <1>3 DEF FindSymbol
  <2> QED  BY <2>1
<1> QED  BY <1>1, <1>2, <1>3

(* So is the type that takes the place of one that is not found.            *)
LEMMA KnownOrError ==
  ASSUME NEW t, t = NULL \/ t \in DOMAIN types, DOMAIN BuiltinTypes \subseteq DOMAIN types
  PROVE  OrError(t) \in DOMAIN types
<1>1. tError \in DOMAIN BuiltinTypes
  BY Zenon DEF BuiltinTypes
<1> QED  BY <1>1 DEF OrError

(* The declaring loops run the tasks of declarations alone.                 *)
LEMMA DeclaringSteps ==
  ASSUME Step, agenda[1].op \in {"typedecl", "funcdecl", "param", "vardef", "enddef"}
  PROVE  TypeDeclaration \/ FunctionDeclaration \/ Parameter \/ DeclarationEnd \/ VarDefinition
<1>1. ~(TypeDescription \/ AliasDescription \/ RecordField \/ RecordEnd)
  BY DEF TypeDescription, AliasDescription, RecordField, RecordEnd, At, AtField
<1>2. ~(ElementOfAlias \/ ElementOfRecord \/ OuterLayer \/ FunctionBody \/ MissingReturn \/ Block \/ StatementEnd)
  BY DEF ElementOfAlias, ElementOfRecord, OuterLayer, FunctionBody, MissingReturn, Block, StatementEnd, At
<1>3. ~(PushScope \/ PopScope \/ Compound \/ While \/ WhileEnd \/ BreakOrContinue)
  BY DEF PushScope, PopScope, Compound, While, WhileEnd, BreakOrContinue, At, Statement
<1>4. ~(Store \/ Return \/ ReturnValue \/ Condition \/ NamedVariable \/ FieldOrElement \/ Call \/ CallEnd)
  BY DEF Store, Return, ReturnValue, Condition, NamedVariable, FieldOrElement, Call, CallEnd, At, Statement
<1>5. ~(Comparison \/ FieldAccess \/ ElementAccess \/ Argument \/ Expression \/ Operation \/ MistypedString)
  BY DEF Comparison, FieldAccess, ElementAccess, Argument, Expression, Operation, MistypedString, At
<1>6. ~(StringLiteral \/ NewArray)
  BY DEF StringLiteral, NewArray, At
<1> QED  BY <1>1, <1>2, <1>3, <1>4, <1>5, <1>6 DEF Step

(* Tasks of declarations leave the trees as they are.                       *)
LEMMA TreesKept ==
  ASSUME TreeInv, UNCHANGED <<asts, types, phase, ast, pos, last, astState>>
  PROVE  TreeInv' /\ \A p, kind : Defines(p, kind) <=> Defines(p, kind)'
BY DEF TreeInv, Defines

(* What a declaration adds to the scopes                                    *)
LEMMA AppendHolds ==
  ASSUME NEW s, IsList(s), NEW x
  PROVE  /\ Lists(<<Append(s, x)>>)
         /\ \A f : Holds(<<Append(s, x)>>, f) => Holds(<<s>>, f) \/ (x.kind = "func" /\ x.node = f)
         /\ TypesKnown(<<s>>) /\ (x.kind = "type" => x.node \in DOMAIN types) => TypesKnown(<<Append(s, x)>>)
         /\ Append(s, x) # << >> /\ Last(Append(s, x)) = x /\ Front(Append(s, x)) = s
<1> DEFINE z == Append(s, x)
<1>1. /\ IsList(z) /\ Len(s) \in Nat /\ DOMAIN s = 1 .. Len(s)
      /\ Len(z) = Len(s) + 1 /\ DOMAIN z = 1 .. Len(s) + 1
      /\ \A i \in DOMAIN s : z[i] = s[i]
      /\ z[Len(s) + 1] = x
  BY Appended
<1>2. z # << >>
  <2>1. Len(s) + 1 \in DOMAIN z
    BY <1>1
  <2>2. DOMAIN << >> = {}
    OBVIOUS
  <2> QED  BY <2>1, <2>2
<1>3. Last(z) = x
  BY <1>1 DEF Last
<1>4. Front(z) = s
  <2> DEFINE U == {s[i] : i \in DOMAIN s}
  <2>1. s \in Seq(U)
    BY DEF IsList
  <2> HIDE DEF z
  <2>2. /\ IsList(Front(z)) /\ Len(Front(z)) = Len(s) /\ DOMAIN Front(z) = 1 .. Len(s)
        /\ \A i \in 1 .. Len(s) : Front(z)[i] = z[i]
    <3>1. Len(z) - 1 = Len(s)
      BY <1>1
    <3> QED  BY <1>1, <1>2, <3>1, Shortened
  <2> DEFINE V == {Front(z)[i] : i \in DOMAIN Front(z)}
  <2>3. Front(z) \in Seq(V)
    BY <2>2 DEF IsList
  <2> HIDE DEF U, V
  <2>4. \A i \in 1 .. Len(s) : Front(z)[i] = s[i]
    BY <1>1, <2>2
  <2> QED  BY <2>1, <2>2, <2>3, <2>4, SeqEqual
<1> HIDE DEF z
<1>5. Lists(<<z>>)
  BY <1>1, ShortLists DEF Lists
<1>6. \A i \in DOMAIN z : i \in DOMAIN s \/ z[i] = x
  BY <1>1
<1>7. \A f : Holds(<<z>>, f) => Holds(<<s>>, f) \/ (x.kind = "func" /\ x.node = f)
  BY <1>1, <1>6 DEF Holds
<1>8. TypesKnown(<<s>>) /\ (x.kind = "type" => x.node \in DOMAIN types) => TypesKnown(<<z>>)
  BY <1>1, <1>6 DEF TypesKnown
<1> QED  BY <1>2, <1>3, <1>4, <1>5, <1>7, <1>8 DEF z

(* What is left without the last declaration                                *)
LEMMA FrontHolds ==
  ASSUME NEW s, IsList(s), s # << >>
  PROVE  /\ Lists(<<Front(s)>>)
         /\ \A f : Holds(<<s>>, f) => Holds(<<Front(s)>>, f) \/ Last(s).node = f
         /\ TypesKnown(<<s>>) => TypesKnown(<<Front(s)>>)
<1> DEFINE z == Front(s)
<1>1. /\ IsList(z) /\ Len(s) \in Nat /\ Len(s) > 0 /\ DOMAIN s = 1 .. Len(s)
      /\ DOMAIN z = 1 .. Len(s) - 1 /\ \A i \in 1 .. Len(s) - 1 : z[i] = s[i]
  BY Shortened
<1> HIDE DEF z
<1>2. \A i \in DOMAIN s : i = Len(s) \/ i \in DOMAIN z
  BY <1>1
<1>3. \A i \in DOMAIN z : i \in DOMAIN s /\ z[i] = s[i]
  BY <1>1
<1>4. Lists(<<z>>)
  BY <1>1, ShortLists DEF Lists
<1>5. \A f : Holds(<<s>>, f) => Holds(<<z>>, f) \/ Last(s).node = f
  BY <1>2, <1>3 DEF Holds, Last
<1>6. TypesKnown(<<s>>) => TypesKnown(<<z>>)
  BY <1>3 DEF TypesKnown
<1> QED  BY <1>4, <1>5, <1>6 DEF z

(* Where a declaration ends: between two of them.                           *)
LEMMA BackBetween ==
  ASSUME TreeInv', result' = "running" => phase' \in {1, 2},
         NEW s, NEW e, scopes' = <<s>>, IsList(s), agenda' = <<e>>, e.op = "enddef",
         TypesKnown(<<s>>)', \A f : Holds(<<s>>, f) => Signed(f)'
  PROVE  CalleeInv'
<1>1. Lists(scopes)'
  BY ShortLists DEF Lists
<1>2. BetweenDeclarations'
  BY DEF BetweenDeclarations, Callable
<1>3. TypesKnown(scopes)'
  BY DEF TypesKnown
<1> QED  BY <1>1, <1>2, <1>3 DEF CalleeInv

(* The task of a declaration is alone with the end of its definition.       *)
LEMMA DeclarationTask ==
  ASSUME CalleeInv, phase \in {1, 2}, result = "running", agenda # << >>,
         agenda[1].op \in {"typedecl", "funcdecl"}
  PROVE  /\ TreeInv /\ TypesKnown(scopes) /\ Callable(scopes)
         /\ \E s : scopes = <<s>> /\ IsList(s)
         /\ \E t, e : /\ agenda = <<t, e>> /\ e.op = "enddef" /\ here = t.at
                      /\ t.op = "typedecl" => Defines(t.at, "type")
                      /\ t.op = "funcdecl" => Defines(t.at, "func")
<1>1. TreeInv /\ Lists(scopes) /\ TypesKnown(scopes) /\ (BetweenDeclarations \/ AmongParameters)
  BY DEF CalleeInv
<1>2. ~AmongParameters
  <2> SUFFICES ASSUME AmongParameters PROVE FALSE
    OBVIOUS
  <2>1. PICK e, f, k : agenda = <<Task("param", f, k), e>>
    BY DEF AmongParameters
  <2>2. agenda[1].op = "param"
    BY <2>1 DEF Task
  <2> QED  BY <2>2
<1>3. PICK s : scopes = <<s>>
  BY <1>1, <1>2 DEF BetweenDeclarations
<1>4. IsList(s)
  BY <1>1, <1>3 DEF Lists
<1>5. PICK e : /\ e.op = "enddef"
               /\ \/ agenda = <<e>>
                  \/ \E t : /\ agenda = <<t, e>>
                            /\ \/ t.op = "typedecl" /\ Defines(t.at, "type")
                               \/ t.op = "funcdecl" /\ Defines(t.at, "func")
  BY <1>1, <1>2 DEF BetweenDeclarations
<1>6. PICK t : /\ agenda = <<t, e>>
               /\ \/ t.op = "typedecl" /\ Defines(t.at, "type")
                  \/ t.op = "funcdecl" /\ Defines(t.at, "func")
  BY <1>5
<1>7. here = t.at
  BY <1>6 DEF here
<1> QED  BY <1>1, <1>2, <1>3, <1>4, <1>5, <1>6, <1>7 DEF BetweenDeclarations

(* A type is declared.                                                      *)
LEMMA TypeDeclarationKeepsCallees ==
  ASSUME CalleeInv, phase \in {1, 2}, result = "running", TypeDeclaration
  PROVE  CalleeInv'
<1>1. agenda # << >> /\ agenda[1].op = "typedecl"
  BY DEF TypeDeclaration, At
<1>2. TreeInv /\ TypesKnown(scopes) /\ Callable(scopes)
  BY <1>1, DeclarationTask
<1>3. PICK s : scopes = <<s>> /\ IsList(s)
  BY <1>1, DeclarationTask
<1>4. PICK t, e : agenda = <<t, e>> /\ e.op = "enddef" /\ here = t.at /\ (t.op = "typedecl" => Defines(t.at, "type"))
  BY <1>1, DeclarationTask
<1>5. t.op = "typedecl" /\ Defines(here, "type")
  BY <1>1, <1>4
<1>6. UNCHANGED <<asts, types, sem, phase, ast, pos, last, astState, result>>
  BY DEF TypeDeclaration, tree, loop
<1>7. TreeInv'
  BY <1>2, <1>6, TreesKept
<1>8. here \in DOMAIN types
  BY <1>2, <1>5 DEF TreeInv
<1>9. ASSUME NEW f, Signed(f) PROVE Signed(f)'
  BY <1>6, <1>9 DEF Signed, Defines, ReturnType, TypeOf, ParamAt, Params
<1>10. t.op \notin Markers
  BY <1>5 DEF Markers
<1>11. FromMarker(agenda) = <<e>> /\ << >> \o Tail(agenda) = <<e>>
  BY <1>4, <1>10, TwoTasks
<1>12. PICK x : x = Symbol(node.name, "type", here)
  OBVIOUS
<1>13. \/ agenda' = FromMarker(agenda) /\ scopes' = scopes
       \/ agenda' = << >> \o Tail(agenda) /\ scopes' = Declare(scopes, x)
  BY <1>12 DEF TypeDeclaration, Fail, Done, Then
<1>14. CASE agenda' = <<e>> /\ scopes' = <<s>>
  <2>1. \A f : Holds(<<s>>, f) => Signed(f)'
    BY <1>2, <1>3, <1>9 DEF Callable
  <2>2. TypesKnown(<<s>>)'
    BY <1>2, <1>3, <1>6 DEF TypesKnown
  <2> QED  BY <1>3, <1>4, <1>6, <1>7, <1>14, <2>1, <2>2, BackBetween
<1>15. CASE agenda' = <<e>> /\ scopes' = Declare(scopes, x)
  <2>1. PICK z : z = Append(s, x) /\ scopes' = <<z>>
    BY <1>3, <1>15, OneScope
  <2>2. x.kind = "type" /\ x.node = here
    BY <1>12 DEF Symbol
  <2>3. Lists(<<z>>) /\ TypesKnown(<<z>>) /\ \A f : Holds(<<z>>, f) => Holds(<<s>>, f)
    BY <1>2, <1>3, <1>8, <2>1, <2>2, AppendHolds
  <2>4. IsList(z)
    BY <2>3 DEF Lists
  <2>5. \A f : Holds(<<z>>, f) => Signed(f)'
    BY <1>2, <1>3, <1>9, <2>3 DEF Callable
  <2>6. TypesKnown(<<z>>)'
    BY <1>6, <2>3 DEF TypesKnown
  <2> QED  BY <1>4, <1>6, <1>7, <1>15, <2>1, <2>4, <2>5, <2>6, BackBetween
<1> QED  BY <1>3, <1>11, <1>13, <1>14, <1>15

(* A function is declared, with its return type, before its parameters.     *)
LEMMA FunctionDeclarationKeepsCallees ==
  ASSUME CalleeInv, phase \in {1, 2}, result = "running", FunctionDeclaration
  PROVE  CalleeInv'
<1>1. agenda # << >> /\ agenda[1].op = "funcdecl"
  BY DEF FunctionDeclaration, At
<1>2. TreeInv /\ TypesKnown(scopes) /\ Callable(scopes)
  BY <1>1, DeclarationTask
<1>3. PICK s : scopes = <<s>> /\ IsList(s)
  BY <1>1, DeclarationTask
<1>4. PICK t, e : agenda = <<t, e>> /\ e.op = "enddef" /\ here = t.at /\ (t.op = "funcdecl" => Defines(t.at, "func"))
  BY <1>1, DeclarationTask
<1>5. PICK f : f = here /\ t.op = "funcdecl" /\ Defines(f, "func")
  BY <1>1, <1>4
<1>6. UNCHANGED <<asts, types, phase, ast, pos, last, astState, result>>
  BY DEF FunctionDeclaration, loop
<1>7. TreeInv' /\ Defines(f, "func")' /\ Params(f)' = Params(f)
  BY <1>2, <1>5, <1>6, TreesKept DEF Params
<1>8. t.op \notin Markers
  BY <1>5 DEF Markers
<1>9. PICK x : x = Symbol(node.name, "func", here)
  OBVIOUS
<1>10. x.kind = "func" /\ x.node = f
  BY <1>5, <1>9 DEF Symbol
<1>11. PICK z : z = Append(s, x) /\ Declare(scopes, x) = <<z>>
  BY <1>3, OneScope
<1>12. CASE agenda' = FromMarker(agenda) /\ scopes' = scopes /\ sem' = sem
  <2>1. agenda' = <<e>>
    BY <1>4, <1>8, <1>12, TwoTasks
  <2>2. ASSUME NEW g, Signed(g) PROVE Signed(g)'
    BY <1>6, <1>12, <2>2 DEF Signed, Defines, ReturnType, TypeOf, ParamAt, Params
  <2>3. \A g : Holds(<<s>>, g) => Signed(g)'
    BY <1>2, <1>3, <2>2 DEF Callable
  <2>4. TypesKnown(<<s>>)'
    BY <1>2, <1>3, <1>6 DEF TypesKnown
  <2>5. scopes' = <<s>>
    BY <1>3, <1>12
  <2> QED  BY <1>3, <1>4, <1>6, <1>7, <2>1, <2>3, <2>4, <2>5, BackBetween
<1>13. CASE /\ scopes' = Push(<<z>>)
            /\ sem' = With(sem, here, OrError(FindType(<<z>>, node.ret)))
            /\ Then(<<Task("param", here, 1)>>)
  <2>1. /\ Lists(<<z>>) /\ TypesKnown(<<z>>)
        /\ z # << >> /\ Last(z) = x /\ Front(z) = s
    BY <1>2, <1>3, <1>10, <1>11, AppendHolds
  <2>2. PICK ty : ty = OrError(FindType(<<z>>, node.ret))
    OBVIOUS
  <2>3. ty \in DOMAIN types
    <3>1. DOMAIN BuiltinTypes \subseteq DOMAIN types
      BY <1>2 DEF TreeInv
    <3>2. FindType(<<z>>, node.ret) = NULL \/ FindType(<<z>>, node.ret) \in DOMAIN types
      BY <2>1, <3>1, FoundTypes
    <3> QED  BY <2>2, <3>1, <3>2, KnownOrError
  <2>4. sem' = With(sem, f, ty)
    BY <1>5, <1>13, <2>2
  <2>5. (\A g : Signed(g) => Signed(g)') /\ ReturnType(f)' \in DOMAIN types
    BY <1>6, <2>3, <2>4, SignaturesKeptByTypes
  <2>6. scopes' = <<z, << >>>>
    BY <1>13, OneScope
  <2>7. agenda' = <<Task("param", f, 1), e>>
    BY <1>4, <1>5, <1>8, <1>13, TwoTasks DEF Then
  <2>8. IsList(Params(f))
    BY <1>2, <1>5 DEF TreeInv, Defines, Params
  <2>9. 1 \in 1 .. Len(Params(f)) + 1
    BY <2>8, Appended
  <2>10. Callable(<<Front(z)>>)'
    BY <1>2, <1>3, <2>1, <2>5 DEF Callable
  <2>11. AmongParameters'
    <3> DEFINE r == << >>
    <3>1. \A i \in DOMAIN r : r[i].kind # "func"
      OBVIOUS
    <3>2. \A i \in 1 .. 1 - 1 : TypeOf(ParamAt(f, i))' \in DOMAIN types'
      OBVIOUS
    <3>3. Last(z).node = f
      BY <1>10, <2>1
    <3>4. 1 \in 1 .. Len(Params(f)') + 1 /\ ReturnType(f)' \in DOMAIN types'
      BY <1>6, <1>7, <2>5, <2>9
    <3> HIDE DEF r
    <3> QED  BY <1>4, <1>7, <2>1, <2>6, <2>7, <2>10, <3>1, <3>2, <3>3, <3>4 DEF AmongParameters, r
  <2>12. TypesKnown(scopes)' /\ Lists(scopes)'
    <3>1. DOMAIN << >> = {} /\ IsList(<< >>) /\ IsList(<<z, << >>>>) /\ IsList(z)
      BY <2>1, ShortLists DEF Lists
    <3>2. Lists(<<z, << >>>>)
      BY <3>1 DEF Lists
    <3>3. TypesKnown(<<z, << >>>>)
      BY <2>1, <3>1 DEF TypesKnown
    <3> QED  BY <1>6, <2>6, <3>2, <3>3 DEF Lists, TypesKnown
  <2> QED  BY <1>6, <1>7, <2>11, <2>12 DEF CalleeInv
<1> QED  BY <1>9, <1>11, <1>12, <1>13 DEF FunctionDeclaration, Fail

(* The task of a parameter is alone with the end of its function.           *)
LEMMA ParameterTask ==
  ASSUME CalleeInv, phase \in {1, 2}, result = "running", At("param")
  PROVE  /\ TreeInv /\ Lists(scopes) /\ TypesKnown(scopes)
         /\ \E s, r, e, f, k :
              /\ scopes = <<s, r>> /\ IsList(s) /\ IsList(r) /\ s # << >> /\ Last(s).node = f
              /\ Callable(<<Front(s)>>) /\ \A i \in DOMAIN r : r[i].kind # "func"
              /\ agenda = <<Task("param", f, k), e>> /\ e.op = "enddef" /\ here = f /\ node = k
              /\ Defines(f, "func") /\ k \in 1 .. Len(Params(f)) + 1 /\ Len(Params(f)) \in Nat
              /\ DOMAIN Params(f) = 1 .. Len(Params(f))
              /\ ReturnType(f) \in DOMAIN types
              /\ \A i \in 1 .. k - 1 : TypeOf(ParamAt(f, i)) \in DOMAIN types
<1>1. agenda # << >> /\ agenda[1].op = "param"
  BY DEF At
<1>2. TreeInv /\ Lists(scopes) /\ TypesKnown(scopes) /\ (BetweenDeclarations \/ AmongParameters)
  BY DEF CalleeInv
<1>3. ~BetweenDeclarations
  <2> SUFFICES ASSUME BetweenDeclarations PROVE FALSE
    OBVIOUS
  <2>1. PICK e : /\ e.op = "enddef"
                 /\ agenda = <<e>> \/ \E t : agenda = <<t, e>> /\ t.op \in {"typedecl", "funcdecl"}
    BY <1>1 DEF BetweenDeclarations
  <2>2. agenda[1].op \in {"enddef", "typedecl", "funcdecl"}
    BY <2>1
  <2> QED  BY <1>1, <2>2
<1>4. PICK s, r, e, f, k :
        /\ scopes = <<s, r>> /\ s # << >> /\ Last(s).node = f
        /\ Callable(<<Front(s)>>) /\ \A i \in DOMAIN r : r[i].kind # "func"
        /\ agenda = <<Task("param", f, k), e>> /\ e.op = "enddef"
        /\ Defines(f, "func") /\ k \in 1 .. Len(Params(f)) + 1
        /\ ReturnType(f) \in DOMAIN types
        /\ \A i \in 1 .. k - 1 : TypeOf(ParamAt(f, i)) \in DOMAIN types
  BY <1>2, <1>3 DEF AmongParameters
<1>5. IsList(s) /\ IsList(r)
  BY <1>2, <1>4 DEF Lists
<1>6. here = f /\ node = k
  BY <1>4 DEF here, node, Task
<1>7. IsList(Params(f))
  BY <1>2, <1>4 DEF TreeInv, Defines, Params
<1>8. Len(Params(f)) \in Nat /\ DOMAIN Params(f) = 1 .. Len(Params(f))
  BY <1>7, Appended
<1> QED  BY <1>2, <1>4, <1>5, <1>6, <1>8

(* A parameter is resolved, or its name clashes and the function goes.      *)
LEMMA ParameterKeepsCallees ==
  ASSUME CalleeInv, phase \in {1, 2}, result = "running", Parameter
  PROVE  CalleeInv'
<1>1. At("param") /\ node <= Len(Params(here))
  BY DEF Parameter
<1>2. TreeInv /\ Lists(scopes) /\ TypesKnown(scopes)
  BY <1>1, ParameterTask
<1>3. PICK s, r, e, f, k :
        /\ scopes = <<s, r>> /\ IsList(s) /\ IsList(r) /\ s # << >> /\ Last(s).node = f
        /\ Callable(<<Front(s)>>) /\ \A i \in DOMAIN r : r[i].kind # "func"
        /\ agenda = <<Task("param", f, k), e>> /\ e.op = "enddef" /\ here = f /\ node = k
        /\ Defines(f, "func") /\ k \in 1 .. Len(Params(f)) + 1 /\ Len(Params(f)) \in Nat
        /\ DOMAIN Params(f) = 1 .. Len(Params(f))
        /\ ReturnType(f) \in DOMAIN types
        /\ \A i \in 1 .. k - 1 : TypeOf(ParamAt(f, i)) \in DOMAIN types
  BY <1>1, ParameterTask
<1>4. UNCHANGED <<asts, types, phase, ast, pos, last, astState, result>>
  BY DEF Parameter, loop
<1>5. TreeInv' /\ Defines(f, "func")' /\ Params(f)' = Params(f)
  BY <1>2, <1>3, <1>4, TreesKept DEF Params
<1>6. PICK ty : ty = OrError(FindType(scopes, Params(here)[node].type))
  OBVIOUS
<1>7. ty \in DOMAIN types
  <2>1. DOMAIN BuiltinTypes \subseteq DOMAIN types
    BY <1>2 DEF TreeInv
  <2> DEFINE type == FindType(scopes, Params(here)[node].type)
  <2>2. type = NULL \/ type \in DOMAIN types
    BY <1>2, <2>1, FoundTypes
  <2>3. ty = OrError(type)
    BY <1>6
  <2> HIDE DEF type
  <2> QED  BY <2>1, <2>2, <2>3, KnownOrError
<1>8. sem' = With(sem, ParamAt(f, k), ty)
  BY <1>3, <1>6 DEF Parameter
<1>9. /\ \A g : Signed(g) => Signed(g)'
      /\ ReturnType(f)' \in DOMAIN types
      /\ \A p : TypeOf(p) \in DOMAIN types => TypeOf(p)' \in DOMAIN types
      /\ TypeOf(ParamAt(f, k))' \in DOMAIN types
  <2>1. PICK p : p = ParamAt(f, k)
    OBVIOUS
  <2>2. sem' = With(sem, p, ty)
    BY <1>8, <2>1
  <2>3. /\ \A g : Signed(g) => Signed(g)'
        /\ \A g : ReturnType(g) \in DOMAIN types => ReturnType(g)' \in DOMAIN types
        /\ \A q : TypeOf(q) \in DOMAIN types => TypeOf(q)' \in DOMAIN types
        /\ TypeOf(p)' \in DOMAIN types
    BY <1>4, <1>7, <2>2, SignaturesKeptByTypes
  <2>4. TypeOf(ParamAt(f, k))' \in DOMAIN types
    BY <2>1, <2>3 DEF TypeOf, ParamAt
  <2> QED  BY <1>3, <2>3, <2>4
<1>10. \A g : Holds(<<Front(s)>>, g) => Signed(g)'
  BY <1>3, <1>9 DEF Callable
<1>11. Task("param", f, k).op \notin Markers
  BY DEF Task, Markers
<1>12. CASE scopes' = RemoveFunction(scopes) /\ agenda' = FromMarker(agenda)
  <2>1. PICK z : z = Front(s)
    OBVIOUS
  <2>2. scopes' = <<z>>
    BY <1>3, <1>12, <2>1, TwoScopes
  <2>3. agenda' = <<e>>
    BY <1>3, <1>11, <1>12, TwoTasks
  <2>4. Lists(<<z>>) /\ TypesKnown(<<z>>)
    <3>1. TypesKnown(<<s>>)
      BY <1>2, <1>3 DEF TypesKnown
    <3> QED  BY <1>3, <2>1, <3>1, FrontHolds
  <2>5. IsList(z)
    BY <2>4 DEF Lists
  <2>6. TypesKnown(<<z>>)'
    BY <1>4, <2>4 DEF TypesKnown
  <2> QED  BY <1>3, <1>4, <1>5, <1>10, <2>1, <2>2, <2>3, <2>5, <2>6, BackBetween
<1>13. CASE /\ \E n : scopes' = Declare(scopes, Symbol(n, "param", ParamAt(f, k)))
            /\ Then(<<Task("param", f, k + 1)>>)
  <2>1. PICK x : x.kind = "param" /\ scopes' = Declare(scopes, x)
    BY <1>13 DEF Symbol
  <2>2. PICK q : q = Append(r, x) /\ scopes' = <<s, q>>
    <3>1. Declare(<<s, r>>, x) = <<s, Append(r, x)>>
      BY TwoScopes
    <3> QED  BY <1>3, <2>1, <3>1
  <2>3. /\ IsList(q) /\ \A i \in DOMAIN q : (i \in DOMAIN r /\ q[i] = r[i]) \/ q[i] = x
    <3>1. /\ IsList(q) /\ Len(r) \in Nat /\ DOMAIN r = 1 .. Len(r) /\ DOMAIN q = 1 .. Len(r) + 1
          /\ \A i \in DOMAIN r : q[i] = r[i]
          /\ q[Len(r) + 1] = x
      BY <1>3, <2>2, Appended
    <3> QED  BY <3>1
  <2>4. \A i \in DOMAIN q : q[i].kind # "func"
    BY <1>3, <2>1, <2>3
  <2>5. PICK m : m = k + 1
    OBVIOUS
  <2>6. agenda' = <<Task("param", f, m), e>>
    BY <1>3, <1>11, <1>13, <2>5, TwoTasks, SMTT(30) DEF Then
  <2>7. m \in 1 .. Len(Params(f)) + 1 /\ \A i \in 1 .. m - 1 : i = k \/ i \in 1 .. k - 1
    BY <1>1, <1>3, <2>5
  <2>8. Callable(<<Front(s)>>)'
    BY <1>10 DEF Callable
  <2>9. \A i \in 1 .. m - 1 : TypeOf(ParamAt(f, i))' \in DOMAIN types'
    <3>1. ASSUME NEW i \in 1 .. k - 1 PROVE TypeOf(ParamAt(f, i))' \in DOMAIN types
      <4>1. PICK p : p = ParamAt(f, i)
        OBVIOUS
      <4>2. TypeOf(p) \in DOMAIN types
        BY <1>3, <4>1
      <4>3. TypeOf(p)' \in DOMAIN types
        BY <1>9, <4>2
      <4> QED  BY <4>1, <4>3 DEF TypeOf, ParamAt
    <3> QED  BY <1>4, <1>9, <2>7, <3>1
  <2>10. AmongParameters'
    <3>1. m \in 1 .. Len(Params(f)') + 1
      BY <1>5, <2>7
    <3>2. ReturnType(f)' \in DOMAIN types'
      BY <1>4, <1>9
    <3> QED  BY <1>3, <1>5, <2>2, <2>4, <2>6, <2>8, <2>9, <3>1, <3>2, ZenonT(60) DEF AmongParameters
  <2>11. Lists(scopes)'
    <3>1. IsList(<<s, q>>)
      BY ShortLists
    <3>2. Lists(<<s, q>>)
      BY <1>3, <2>3, <3>1 DEF Lists
    <3> QED  BY <2>2, <3>2 DEF Lists
  <2>12. TypesKnown(scopes)'
    <3>1. TypesKnown(<<s, r>>)
      BY <1>2, <1>3
    <3>2. TypesKnown(<<s, q>>)
      BY <2>1, <2>3, <3>1 DEF TypesKnown
    <3>3. TypesKnown(scopes') = TypesKnown(scopes)'
      BY <1>4 DEF TypesKnown
    <3> QED  BY <2>2, <3>2, <3>3
  <2> QED  BY <1>4, <1>5, <2>10, <2>11, <2>12 DEF CalleeInv
<1> QED  BY <1>3, <1>12, <1>13 DEF Parameter, Fail

(* All parameters are resolved: the function may be called.                 *)
LEMMA DeclarationEndKeepsCallees ==
  ASSUME CalleeInv, phase \in {1, 2}, result = "running", DeclarationEnd
  PROVE  CalleeInv'
<1>1. At("param") /\ node > Len(Params(here))
  BY DEF DeclarationEnd
<1>2. TreeInv /\ Lists(scopes) /\ TypesKnown(scopes)
  BY <1>1, ParameterTask
<1>3. PICK s, r, e, f, k :
        /\ scopes = <<s, r>> /\ IsList(s) /\ IsList(r) /\ s # << >> /\ Last(s).node = f
        /\ Callable(<<Front(s)>>) /\ \A i \in DOMAIN r : r[i].kind # "func"
        /\ agenda = <<Task("param", f, k), e>> /\ e.op = "enddef" /\ here = f /\ node = k
        /\ Defines(f, "func") /\ k \in 1 .. Len(Params(f)) + 1 /\ Len(Params(f)) \in Nat
        /\ DOMAIN Params(f) = 1 .. Len(Params(f))
        /\ ReturnType(f) \in DOMAIN types
        /\ \A i \in 1 .. k - 1 : TypeOf(ParamAt(f, i)) \in DOMAIN types
  BY <1>1, ParameterTask
<1>4. UNCHANGED <<asts, types, sem, phase, ast, pos, last, astState, result>>
  BY DEF DeclarationEnd, loop
<1>5. TreeInv'
  BY <1>2, <1>4, TreesKept
<1>6. Signed(f)
  <2>1. \A i \in DOMAIN Params(f) : i \in 1 .. k - 1
    BY <1>1, <1>3
  <2> QED  BY <1>3, <2>1 DEF Signed
<1>7. ASSUME NEW g, Signed(g) PROVE Signed(g)'
  BY <1>4, <1>7 DEF Signed, Defines, ReturnType, TypeOf, ParamAt, Params
<1>8. \A g : Holds(<<s>>, g) => Signed(g)'
  BY <1>3, <1>6, <1>7, FrontHolds DEF Callable
<1>9. Task("param", f, k).op \notin Markers
  BY DEF Task, Markers
<1>10. scopes' = <<s>>
  BY <1>3, TwoScopes DEF DeclarationEnd
<1>11. agenda' = <<e>>
  BY <1>3, <1>9, TwoTasks DEF DeclarationEnd, Done, Then
<1>12. TypesKnown(<<s>>)'
  BY <1>2, <1>3, <1>4 DEF TypesKnown
<1> QED  BY <1>3, <1>4, <1>5, <1>8, <1>10, <1>11, <1>12, BackBetween

(* In the loops of declarations, the functions in scope are resolved.       *)
LEMMA EarlyStepsKeepCallees ==
  ASSUME CalleeInv, phase \in {1, 2}, result = "running", Step
  PROVE  CalleeInv' /\ fieldError' = fieldError
<1>1. agenda # << >>
  BY StepsKeepTheLoop
<1>2. agenda[1].op \in {"typedecl", "funcdecl", "param", "enddef"}
  <2>1. BetweenDeclarations \/ AmongParameters
    BY DEF CalleeInv
  <2>2. CASE BetweenDeclarations
    <3>1. PICK e : /\ e.op = "enddef"
                   /\ agenda = <<e>> \/ \E t : agenda = <<t, e>> /\ t.op \in {"typedecl", "funcdecl"}
      BY <1>1, <2>2 DEF BetweenDeclarations
    <3> QED  BY <3>1
  <2>3. CASE AmongParameters
    <3>1. PICK e, f, k : agenda = <<Task("param", f, k), e>>
      BY <2>3 DEF AmongParameters
    <3> QED  BY <3>1 DEF Task
  <2> QED  BY <2>1, <2>2, <2>3
<1>3. TypeDeclaration \/ FunctionDeclaration \/ Parameter \/ DeclarationEnd
  BY <1>2, DeclaringSteps DEF VarDefinition, At, Statement
<1>4. fieldError' = fieldError
  BY <1>3 DEF TypeDeclaration, FunctionDeclaration, Parameter, DeclarationEnd, context
<1>5. CalleeInv'
  BY <1>3, TypeDeclarationKeepsCallees, FunctionDeclarationKeepsCallees, ParameterKeepsCallees,
     DeclarationEndKeepsCallees
<1> QED  BY <1>4, <1>5

-----------------------------------------------------------------------------
(* The loops of Analyse, and the functions in scope                         *)

(* The definitions that the loops go through                                *)
LEMMA Trees ==
  ASSUME AnalyseInv, TreeInv
  PROVE  /\ phase \in 0 .. 5 /\ Len(astState) \in Nat /\ Len(astState) > 0
         /\ DOMAIN astState = 1 .. Len(astState) /\ DOMAIN asts = 1 .. Len(astState)
         /\ phase > 0 => ast \in DOMAIN asts
<1>1. /\ astState \in Seq(AstStates) /\ astState # << >> /\ phase \in 0 .. 5
      /\ phase > 0 => ast \in 1 .. Len(astState)
  BY DEF AnalyseInv
<1>2. Len(astState) \in Nat /\ Len(astState) > 0 /\ DOMAIN astState = 1 .. Len(astState)
  BY <1>1
<1>3. DOMAIN asts = 1 .. Len(asts) /\ Len(asts) = Len(astState)
  BY Appended DEF TreeInv
<1> QED  BY <1>1, <1>2, <1>3

(* Entering an AST                                                          *)
LEMMA EnterKeepsTrees ==
  ASSUME TreeInv, astState \in Seq(AstStates), NEW p \in 1 .. 5, NEW a \in DOMAIN asts, p < 3 => phase < 3, Enter(p, a)
  PROVE  TreeInv' /\ UNCHANGED <<asts, types, sem, agenda, result>> /\ phase' = p
<1>1. /\ UNCHANGED <<asts, types, sem, agenda, result>> /\ phase' = p /\ ast' = a
      /\ pos' = 1 /\ last' = Len(asts[a])
      /\ astState' = IF p = 1 THEN [astState EXCEPT ![a] = "SEM_OK"] ELSE astState
  BY DEF Enter, tree
<1>2. Len(astState') = Len(astState)
  BY <1>1
<1>3. \A q, kind : Defines(q, kind)' <=> Defines(q, kind)
  BY <1>1 DEF Defines
<1>4. last' \in Nat
  <2>1. IsList(asts[a])
    BY DEF TreeInv
  <2> QED  BY <1>1, <2>1, Appended
<1>5. last' <= Len(asts'[ast'])
  BY <1>1, <1>4
<1>6. pos' \in Nat \ {0}
  BY <1>1
<1> QED  BY <1>1, <1>2, <1>3, <1>4, <1>5, <1>6 DEF TreeInv

(* Functions in scope stay resolved where nothing is resolved.              *)
LEMMA SignaturesStay ==
  ASSUME UNCHANGED <<asts, types, sem>>
  PROVE  /\ \A p, kind : Defines(p, kind) => Defines(p, kind)'
         /\ \A f : Signed(f) => Signed(f)'
<1>1. \A p, kind : Defines(p, kind) => Defines(p, kind)'
  BY DEF Defines
<1>2. ASSUME NEW f, Signed(f) PROVE Signed(f)'
  BY <1>2 DEF Signed, Defines, ReturnType, TypeOf, ParamAt, Params
<1> QED  BY <1>1, <1>2

(* The next definition begins.                                              *)
LEMMA VisitKeepsCallees ==
  ASSUME AnalyseInv, CalleeInv, VisitDefinition
  PROVE  CalleeInv'
<1> DEFINE def == asts[ast][pos]
<1>1. /\ result = "running" /\ agenda = << >> /\ phase > 0 /\ pos <= last
      /\ pos' = pos + 1 /\ UNCHANGED <<asts, types, sem, phase, ast, last, astState, result, scopes>>
  BY DEF VisitDefinition, Idle, tree
<1>2. PICK t, e : /\ t = Task(Handlers[phase], <<ast, pos>>, def) /\ e = Task("enddef", <<ast, pos>>, NoNode)
                  /\ \/ def.def = Kinds[phase] /\ agenda' = <<t, e>>
                     \/ agenda' = << >>
  BY DEF VisitDefinition
<1>3. TreeInv /\ Lists(scopes)
  BY <1>1 DEF CalleeInv
<1>4. phase \in 1 .. 5 /\ ast \in DOMAIN asts
  BY <1>1, <1>3, Trees
<1>5. pos \in DOMAIN asts[ast] /\ IsList(asts[ast]) /\ (def.def = "func" => IsList(def.params))
  <2>1. /\ IsList(asts[ast]) /\ pos \in Nat \ {0} /\ last \in Nat /\ last <= Len(asts[ast])
        /\ \A i \in DOMAIN asts[ast] : asts[ast][i].def = "func" => IsList(asts[ast][i].params)
    BY <1>1, <1>3, <1>4 DEF TreeInv
  <2>2. Len(asts[ast]) \in Nat /\ DOMAIN asts[ast] = 1 .. Len(asts[ast])
    BY <2>1, Appended
  <2>3. pos \in DOMAIN asts[ast]
    BY <1>1, <2>1, <2>2
  <2> QED  BY <2>1, <2>3
<1>6. \A kind : def.def = kind => Defines(<<ast, pos>>, kind)
  BY <1>4, <1>5 DEF Defines
<1>7. TreeInv'
  <2>1. pos' \in Nat \ {0}
    BY <1>1, <1>3 DEF TreeInv
  <2> QED  BY <1>1, <1>3, <2>1 DEF TreeInv, Defines
<1>8. (\A p, kind : Defines(p, kind) => Defines(p, kind)') /\ \A f : Signed(f) => Signed(f)'
  BY <1>1, SignaturesStay
<1>9. t.op = Handlers[phase] /\ t.at = <<ast, pos>> /\ t.node = def /\ e.op = "enddef" /\ e.at = <<ast, pos>>
  BY <1>2 DEF Task
<1> HIDE DEF def
<1>10. CASE phase \in {1, 2}
  <2>1. TypesKnown(scopes) /\ BetweenDeclarations
    <3>1. ~AmongParameters
      BY <1>1 DEF AmongParameters
    <3> QED  BY <1>1, <1>10, <3>1 DEF CalleeInv
  <2>2. (\E s : scopes' = <<s>>) /\ Callable(scopes)'
    BY <1>1, <1>8, <2>1 DEF BetweenDeclarations, Callable
  <2>3. CASE agenda' = << >>
    <3>1. BetweenDeclarations'
      BY <2>2, <2>3 DEF BetweenDeclarations
    <3> QED  BY <1>1, <1>3, <1>7, <1>10, <2>1, <3>1 DEF CalleeInv, TypesKnown, Lists
  <2>4. CASE agenda' = <<t, e>> /\ def.def = Kinds[phase]
    <3>1. \/ t.op = "typedecl" /\ Defines(t.at, "type")
          \/ t.op = "funcdecl" /\ Defines(t.at, "func")
      BY <1>6, <1>9, <1>10, <2>4 DEF Handlers, Kinds
    <3>2. \/ t.op = "typedecl" /\ Defines(t.at, "type")'
          \/ t.op = "funcdecl" /\ Defines(t.at, "func")'
      BY <1>8, <3>1
    <3>3. BetweenDeclarations'
      BY <1>9, <2>2, <2>4, <3>2 DEF BetweenDeclarations
    <3> QED  BY <1>1, <1>3, <1>7, <1>10, <2>1, <3>3 DEF CalleeInv, TypesKnown, Lists
  <2> QED  BY <1>2, <2>3, <2>4
<1>11. CASE phase > 2
  <2>1. Callable(scopes)'
    BY <1>1, <1>8, <1>11 DEF CalleeInv, Callable
  <2>2. Path(<<ast, pos>>)
    <3>1. IsList(<<ast, pos>>) /\ Len(<<ast, pos>>) = 2
      BY ShortLists
    <3> QED  BY <3>1 DEF Path
  <2>3. Settled(agenda)'
    <3>1. CASE agenda' = << >>
      BY <3>1, ShortLists DEF Settled
    <3>2. CASE agenda' = <<t, e>> /\ def.def = Kinds[phase]
      <4>1. phase \in {3, 4, 5}
        BY <1>4, <1>11
      <4>2. \/ t.op = "vardef" /\ def.def = "var"
            \/ t.op = "typedesc"
            \/ t.op = "funcimpl" /\ def.def = "func"
        BY <1>9, <3>2, <4>1 DEF Handlers, Kinds
      <4>3. Placed(t)'
        <5>1. t.op = "vardef" => Defines(t.at, "var")'
          BY <1>6, <1>8, <1>9, <4>2
        <5> QED  BY <1>5, <1>9, <2>2, <4>2, <5>1 DEF Placed, Within
      <4>4. Placed(e)'
        BY <1>9, <2>2 DEF Placed, Within
      <4>5. IsList(<<t, e>>) /\ \A i \in DOMAIN <<t, e>> : <<t, e>>[i] = t \/ <<t, e>>[i] = e
        BY ShortLists
      <4>6. Len(<<t, e>>) = 2 /\ <<t, e>>[2] = e
        OBVIOUS
      <4>7. \A i \in DOMAIN agenda' : Placed(agenda[i])'
        <5> SUFFICES ASSUME NEW i \in DOMAIN agenda' PROVE Placed(agenda[i])'
          OBVIOUS
        <5>1. agenda'[i] = t \/ agenda'[i] = e
          BY <3>2, <4>5
        <5> QED  BY <4>3, <4>4, <5>1 DEF Placed, Defines
      <4> QED  BY <1>9, <3>2, <4>5, <4>6, <4>7 DEF Settled
    <3> QED  BY <1>2, <3>1, <3>2
  <2> QED  BY <1>1, <1>3, <1>4, <1>7, <1>11, <2>1, <2>3 DEF CalleeInv, Lists
<1> QED  BY <1>4, <1>10, <1>11

(* A definition ends.                                                       *)
LEMMA DefinitionEndKeepsCallees ==
  ASSUME AnalyseInv, CalleeInv, DefinitionEnd
  PROVE  CalleeInv'
<1>1. /\ result = "running" /\ agenda # << >> /\ agenda[1].op = "enddef" /\ agenda' = << >> \o Tail(agenda)
      /\ UNCHANGED <<asts, types, sem, phase, ast, pos, last, result, scopes>>
      /\ astState' = IF ok THEN astState ELSE [astState EXCEPT ![ast] = "SEM_ERR"]
  BY DEF DefinitionEnd, At, Done, Then, tree
<1>2. TreeInv /\ Lists(scopes)
  BY <1>1 DEF CalleeInv
<1>3. Len(astState') = Len(astState)
  <2>1. astState \in Seq(AstStates)
    BY DEF AnalyseInv
  <2> QED  BY <1>1, <2>1
<1>4. TreeInv'
  BY <1>1, <1>2, <1>3 DEF TreeInv, Defines
<1>5. (\A p, kind : Defines(p, kind) => Defines(p, kind)') /\ \A f : Signed(f) => Signed(f)'
  BY <1>1, SignaturesStay
<1>6. phase \in 1 .. 5
  <2>1. phase # 0
    BY <1>1 DEF CalleeInv
  <2> QED  BY <1>2, <2>1, Trees
<1>7. CASE phase \in {1, 2}
  <2>1. TypesKnown(scopes) /\ (BetweenDeclarations \/ AmongParameters)
    BY <1>1, <1>7 DEF CalleeInv
  <2>2. BetweenDeclarations /\ \E e : agenda = <<e>>
    <3>1. ASSUME NEW t, NEW e, agenda = <<t, e>> PROVE agenda[1].op = t.op
      BY <3>1
    <3>2. ~AmongParameters
      <4> SUFFICES ASSUME AmongParameters PROVE FALSE
        OBVIOUS
      <4>1. PICK e, f, k : agenda = <<Task("param", f, k), e>>
        BY DEF AmongParameters
      <4>2. agenda[1].op = "param"
        BY <4>1 DEF Task
      <4> QED  BY <1>1, <4>2
    <3>3. PICK e : agenda = <<e>> \/ \E t : agenda = <<t, e>> /\ t.op \in {"typedecl", "funcdecl"}
      BY <1>1, <2>1, <3>2 DEF BetweenDeclarations
    <3>4. agenda = <<e>>
      <4> SUFFICES ASSUME NEW t, agenda = <<t, e>>, t.op \in {"typedecl", "funcdecl"} PROVE FALSE
        BY <3>3
      <4>1. agenda[1].op = t.op
        BY <3>1
      <4> QED  BY <1>1, <4>1
    <3> QED  BY <2>1, <3>2, <3>4
  <2>3. agenda' = << >>
    <3>1. PICK e : agenda = <<e>>
      BY <2>2
    <3>2. Tail(<<e>>) = << >>
      BY TwoElements
    <3>3. << >> \o << >> = << >>
      BY ShortLists, JoinedToNothing
    <3> QED  BY <1>1, <3>1, <3>2, <3>3
  <2>4. BetweenDeclarations'
    BY <1>1, <1>5, <2>2, <2>3 DEF BetweenDeclarations, Callable
  <2> QED  BY <1>1, <1>2, <1>4, <1>7, <2>1, <2>4 DEF CalleeInv, TypesKnown, Lists
<1>8. CASE phase > 2
  <2>1. Callable(scopes) /\ Settled(agenda)
    BY <1>1, <1>8 DEF CalleeInv
  <2>2. Callable(scopes)'
    BY <1>1, <1>5, <2>1 DEF Callable
  <2>3. /\ IsList(Tail(agenda)) /\ Len(agenda) \in Nat /\ Len(agenda) > 0 /\ DOMAIN agenda = 1 .. Len(agenda)
        /\ Len(Tail(agenda)) = Len(agenda) - 1 /\ DOMAIN Tail(agenda) = 1 .. Len(agenda) - 1
        /\ \A i \in 1 .. Len(agenda) - 1 : Tail(agenda)[i] = agenda[i + 1]
    BY <1>1, <2>1, Rest DEF Settled
  <2>4. agenda' = Tail(agenda)
    BY <1>1, <2>3, JoinedToNothing
  <2>5. PICK a : a = agenda'
    OBVIOUS
  <2>6. \A i \in DOMAIN a : a[i] = agenda[i + 1] /\ i + 1 \in DOMAIN agenda
    BY <2>3, <2>4, <2>5
  <2>7. \A i \in DOMAIN a : Placed(a[i])
    BY <2>1, <2>6 DEF Settled
  <2>8. a # << >> => a[Len(a)].op = "enddef"
    <3> SUFFICES ASSUME a # << >> PROVE a[Len(a)].op = "enddef"
      OBVIOUS
    <3>1. Len(a) \in Nat /\ Len(a) > 0 /\ DOMAIN a = 1 .. Len(a)
      BY <2>3, <2>4, <2>5, Rest
    <3>2. a[Len(a)] = agenda[Len(agenda)]
      BY <2>3, <2>4, <2>5, <3>1
    <3> QED  BY <1>1, <2>1, <3>2 DEF Settled
  <2>9. Settled(a)
    BY <2>3, <2>4, <2>5, <2>7, <2>8 DEF Settled
  <2>10. Settled(agenda)'
    <3>1. Growing
      BY <1>1, <1>5 DEF Growing, Params
    <3> QED  BY <2>5, <2>9, <3>1, StaysSettled
  <2> QED  BY <1>1, <1>2, <1>4, <1>6, <1>8, <2>2, <2>10 DEF CalleeInv, Lists
<1> QED  BY <1>6, <1>7, <1>8

(* The loops go on.                                                         *)
LEMMA LoopsKeepCallees ==
  ASSUME AnalyseInv, CalleeInv, Start \/ NextAst \/ NextPhase
  PROVE  CalleeInv'
<1>1. result = "running" /\ agenda = << >>
  BY DEF Start, NextAst, NextPhase, Idle
<1>2. TreeInv /\ Lists(scopes) /\ astState \in Seq(AstStates)
  BY <1>1 DEF CalleeInv, AnalyseInv
<1>3. /\ phase \in 0 .. 5 /\ Len(astState) \in Nat /\ Len(astState) > 0
      /\ DOMAIN asts = 1 .. Len(astState) /\ (phase > 0 => ast \in DOMAIN asts)
  BY <1>2, Trees
<1>4. PICK p \in 1 .. 5, a \in DOMAIN asts :
        /\ Enter(p, a) /\ (p < 3 => phase < 3)
        /\ \/ phase = 0 /\ p = 1 /\ scopes' = Push(scopes)
           \/ phase > 0 /\ p = phase /\ scopes' = scopes
           \/ phase > 0 /\ p = phase + 1 /\ scopes' = scopes
  <2>1. CASE Start
    <3>1. 1 \in DOMAIN asts
      BY <1>3
    <3> QED  BY <2>1, <3>1 DEF Start
  <2>2. CASE NextAst
    <3>1. phase > 0 /\ ast < Len(astState) /\ Enter(phase, ast + 1) /\ scopes' = scopes
      BY <2>2 DEF NextAst, targetAstCount
    <3>2. ast + 1 \in DOMAIN asts /\ phase \in 1 .. 5
      BY <1>3, <3>1
    <3> QED  BY <3>1, <3>2
  <2>3. CASE NextPhase
    <3>1. phase \in 1 .. 4 /\ Enter(phase + 1, 1) /\ scopes' = scopes
      BY <2>3 DEF NextPhase
    <3>2. 1 \in DOMAIN asts /\ phase + 1 \in 1 .. 5 /\ (phase + 1 < 3 => phase < 3) /\ phase > 0
      BY <1>3, <3>1
    <3> QED  BY <3>1, <3>2
  <2> QED  BY <2>1, <2>2, <2>3
<1>5. TreeInv' /\ UNCHANGED <<asts, types, sem, agenda, result>> /\ phase' = p
  BY <1>2, <1>4, EnterKeepsTrees
<1>6. \A f : Signed(f) => Signed(f)'
  BY <1>5, SignaturesStay
<1>7. CASE phase = 0
  <2>1. scopes = << >>
    BY <1>1, <1>7 DEF CalleeInv
  <2>2. scopes' = <<<< >>>> /\ p = 1
    BY <1>4, <1>7, <2>1 DEF Push
  <2>3. IsList(<<<< >>>>) /\ IsList(<< >>) /\ DOMAIN << >> = {}
    BY ShortLists
  <2>4. Lists(scopes)'
    BY <2>2, <2>3 DEF Lists
  <2>5. TypesKnown(scopes)' /\ Callable(scopes)'
    BY <2>2, <2>3 DEF TypesKnown, Callable, Holds
  <2>6. BetweenDeclarations'
    BY <1>1, <1>5, <2>2, <2>5 DEF BetweenDeclarations
  <2> QED  BY <1>5, <2>2, <2>4, <2>5, <2>6 DEF CalleeInv
<1>8. CASE phase \in {1, 2}
  <2>1. ~AmongParameters
    BY <1>1 DEF AmongParameters
  <2>2. TypesKnown(scopes) /\ BetweenDeclarations
    BY <1>1, <1>8, <2>1 DEF CalleeInv
  <2>3. scopes' = scopes /\ phase' > 0
    BY <1>4, <1>5, <1>8
  <2>4. Callable(scopes)' /\ TypesKnown(scopes)' /\ BetweenDeclarations'
    BY <1>1, <1>5, <1>6, <2>2, <2>3 DEF Callable, TypesKnown, BetweenDeclarations
  <2>5. Settled(agenda)'
    BY <1>1, <1>5, ShortLists DEF Settled
  <2> QED  BY <1>2, <1>5, <2>3, <2>4, <2>5 DEF CalleeInv, Lists
<1>9. CASE phase > 2
  <2>1. scopes' = scopes /\ phase' > 2
    BY <1>3, <1>4, <1>5, <1>9
  <2>2. Callable(scopes)'
    BY <1>1, <1>6, <1>9, <2>1 DEF CalleeInv, Callable
  <2>3. Settled(agenda)'
    BY <1>1, <1>5, ShortLists DEF Settled
  <2> QED  BY <1>2, <1>4, <1>5, <2>1, <2>2, <2>3 DEF CalleeInv, Lists
<1> QED  BY <1>3, <1>7, <1>8, <1>9

(* Before the first loop, the types that are defined are known.             *)
LEMMA InitKnowsTypes == Init => CalleeInv
<1> SUFFICES ASSUME Init PROVE CalleeInv
  OBVIOUS
<1>1. /\ asts \in Programs
      /\ types = Overlay(BuiltinTypes, [d \in TypeDefinitions |-> asts[d[1]][d[2]].desc])
      /\ astState \in [DOMAIN asts -> AstStates]
      /\ scopes = << >> /\ phase = 0 /\ pos = 1 /\ last = 0 /\ agenda = << >>
  BY Zenon DEF Init
<1>2. /\ IsList(asts)
      /\ \A a \in DOMAIN asts :
           /\ IsList(asts[a])
           /\ \A i \in DOMAIN asts[a] : asts[a][i].def = "func" => IsList(asts[a][i].params)
  BY <1>1, ProgramsAreSequences
<1>3. Len(asts) = Len(astState)
  <2>1. DOMAIN asts = 1 .. Len(asts) /\ Len(asts) \in Nat
    BY <1>2, Appended
  <2>2. astState \in Seq(AstStates) /\ Len(astState) = Len(asts)
    BY <1>1, <2>1, IsASeq, LenProperties
  <2> QED  BY <2>2
<1>4. DOMAIN types = DOMAIN BuiltinTypes \cup TypeDefinitions
  BY <1>1 DEF Overlay
<1>5. \A p : Defines(p, "type") => p \in TypeDefinitions
  BY DEF Defines, TypeDefinitions
<1>6. pos \in Nat \ {0} /\ last \in Nat
  BY <1>1
<1>7. TreeInv
  BY <1>1, <1>2, <1>3, <1>4, <1>5, <1>6 DEF TreeInv
<1>8. Lists(<< >>)
  BY ShortLists DEF Lists
<1> QED  BY <1>1, <1>7, <1>8 DEF CalleeInv

(* Every step keeps the functions in scope resolved.                        *)
LEMMA NextKeepsCallees == AnalyseInv /\ CalleeInv /\ [Next]_vars => CalleeInv'
<1> SUFFICES ASSUME AnalyseInv, CalleeInv, [Next]_vars, result' = "running" PROVE CalleeInv'
  BY DEF CalleeInv
<1>1. CASE UNCHANGED vars
  <2>1. UNCHANGED <<asts, types, sem, phase, ast, pos, last, astState, result, scopes, agenda>>
    BY <1>1 DEF vars, tree, loop
  <2>2. TreeInv' = TreeInv /\ Lists(scopes)' = Lists(scopes)
    BY <2>1 DEF TreeInv, Lists, Defines
  <2>3. Callable(scopes)' = Callable(scopes) /\ TypesKnown(scopes)' = TypesKnown(scopes)
    BY <2>1 DEF Callable, TypesKnown, Signed, Defines, ReturnType, TypeOf, ParamAt, Params
  <2>4. BetweenDeclarations => BetweenDeclarations'
    BY <2>1, <2>3, SMTT(30) DEF BetweenDeclarations, Defines
  <2>5. Settled(agenda) => Settled(agenda)'
    BY <2>1, SMTT(30) DEF Settled, Placed, Defines
  <2>6. ASSUME AmongParameters PROVE AmongParameters'
    <3>1. /\ \A c : Callable(c)' = Callable(c)
          /\ \A f : /\ Defines(f, "func")' = Defines(f, "func")
                   /\ ReturnType(f)' = ReturnType(f) /\ Params(f)' = Params(f)
                   /\ \A i : TypeOf(ParamAt(f, i))' = TypeOf(ParamAt(f, i))
      BY <2>1 DEF Callable, Signed, Defines, ReturnType, TypeOf, ParamAt, Params
    <3>2. PICK s, r, e, f, k :
            /\ scopes = <<s, r>> /\ s # << >> /\ Last(s).node = f
            /\ Callable(<<Front(s)>>) /\ \A i \in DOMAIN r : r[i].kind # "func"
            /\ agenda = <<Task("param", f, k), e>> /\ e.op = "enddef"
            /\ Defines(f, "func") /\ k \in 1 .. Len(Params(f)) + 1
            /\ ReturnType(f) \in DOMAIN types
            /\ \A i \in 1 .. k - 1 : TypeOf(ParamAt(f, i)) \in DOMAIN types
      BY <2>6, Zenon DEF AmongParameters
    <3>3. /\ scopes' = <<s, r>> /\ agenda' = <<Task("param", f, k), e>>
          /\ Callable(<<Front(s)>>)' /\ Defines(f, "func")' /\ k \in 1 .. Len(Params(f)') + 1
          /\ ReturnType(f)' \in DOMAIN types'
          /\ \A i \in 1 .. k - 1 : TypeOf(ParamAt(f, i))' \in DOMAIN types'
      BY <2>1, <3>1, <3>2
    <3> QED  BY <3>2, <3>3, ZenonT(60) DEF AmongParameters
  <2> QED  BY <2>1, <2>2, <2>3, <2>4, <2>5, <2>6 DEF CalleeInv
<1>2. CASE Step
  <2>1. UNCHANGED <<phase, result>>
    BY <1>2, StepsKeepTheLoop DEF loop
  <2>2. result = "running"
    BY <2>1
  <2>3. TreeInv
    BY <2>2 DEF CalleeInv
  <2>4. phase \in 0 .. 5 /\ (phase > 0 => ast \in DOMAIN asts)
    BY <2>3, Trees
  <2>5. phase # 0
    BY <1>2, <2>2, StepsKeepTheLoop DEF CalleeInv
  <2>6. CASE phase \in {1, 2}
    BY <1>2, <2>2, <2>6, EarlyStepsKeepCallees
  <2>7. CASE phase > 2
    BY <1>2, <2>2, <2>4, <2>7, LaterStepsKeepCallees
  <2> QED  BY <2>4, <2>5, <2>6, <2>7
<1>3. CASE Finish \/ OutOfMemory \/ LateOutOfMemory \/ UndefinedBehaviour
  BY <1>3 DEF Finish, OutOfMemory, LateOutOfMemory, UndefinedBehaviour, Crash
<1>4. CASE Spin \/ Returned
  BY <1>1, <1>4 DEF Spin, Returned
<1> QED
  BY <1>1, <1>2, <1>3, <1>4, LoopsKeepCallees, VisitKeepsCallees, DefinitionEndKeepsCallees DEF Next

\* For every set of programs, ResolveCall never meets a function without a
\* signature: once the functions are declared, those in scope have a known
\* return type and known parameter types, however their declarations and all
\* that was resolved since went.
THEOREM CalleesAlwaysTyped == Spec => []CalleesAreTyped
<1>1. Init => AnalyseInv /\ CalleeInv
  BY InitEstablishes, InitKnowsTypes
<1>2. AnalyseInv /\ CalleeInv /\ [Next]_vars => AnalyseInv' /\ CalleeInv'
  BY NextKeepsTheInvariant, NextKeepsCallees
<1>3. AnalyseInv /\ CalleeInv => CalleesAreTyped
  <2> SUFFICES ASSUME CalleeInv, Idle, phase > 2, NEW d \in DOMAIN scopes, NEW i \in DOMAIN scopes[d],
                      scopes[d][i].kind = "func"
               PROVE  /\ ReturnType(scopes[d][i].node) \in DOMAIN types
                      /\ \A k \in DOMAIN Params(scopes[d][i].node) :
                           TypeOf(ParamAt(scopes[d][i].node, k)) \in DOMAIN types
    BY DEF CalleesAreTyped
  <2>1. PICK f : f = scopes[d][i].node
    OBVIOUS
  <2>2. Signed(f)
    BY <2>1 DEF CalleeInv, Idle, Callable, Holds
  <2> QED  BY <2>1, <2>2 DEF Signed
<1> QED  BY <1>1, <1>2, <1>3, PTL DEF Spec

-----------------------------------------------------------------------------
(* The null scope                                                           *)

\* That the type of a field was not found is an error: of the definition being
\* resolved, which has not ended, or of one that has.
FieldInv ==
  /\ result = "running" =>
       /\ phase < 3 => ~fieldError
       /\ fieldError => ~verdict \/ (~ok /\ agenda # << >>)
  /\ NullScopeOnlyAfterError

(* A task forgets no error, and reports that a field's type is not found.   *)
LEMMA ErrorsStay ==
  ASSUME Step
  PROVE  (~ok => ~ok') /\ (fieldError' => fieldError \/ ~ok')
<1> DEFINE Stays == ~ok => ~ok'
           Same == fieldError' = fieldError
<1>1. ASSUME NEW n, NEW t, Yield(n, t) \/ YieldOrFail(n, t) PROVE Stays
  BY <1>1 DEF YieldOrFail, Yield, Fail
<1>2. ASSUME NEW good, Check(good) PROVE Stays
  BY <1>2 DEF Check, Fail
<1>3. CASE TypeDeclaration \/ FunctionDeclaration \/ Parameter \/ DeclarationEnd \/ VarDefinition \/ TypeDescription
  <2>1. CASE TypeDeclaration
    BY <2>1, Zenon DEF TypeDeclaration, context, Fail
  <2>2. CASE FunctionDeclaration
    BY <2>2, Zenon DEF FunctionDeclaration, context, Fail
  <2>3. CASE Parameter
    BY <2>3, Zenon DEF Parameter, context, Fail
  <2>4. CASE DeclarationEnd
    BY <2>4, Zenon DEF DeclarationEnd, context, Fail
  <2>5. CASE VarDefinition
    BY <2>5, Zenon DEF VarDefinition, context, Fail
  <2>6. CASE TypeDescription
    BY <2>6, Zenon DEF TypeDescription, context, Fail
  <2> QED  BY <1>3, <2>1, <2>2, <2>3, <2>4, <2>5, <2>6
<1>4. CASE AliasDescription \/ RecordEnd \/ ElementOfAlias \/ ElementOfRecord \/ OuterLayer
  <2>1. CASE AliasDescription
    BY <2>1, Zenon DEF AliasDescription, context, Fail
  <2>2. CASE RecordEnd
    BY <2>2, Zenon DEF RecordEnd, context, Fail
  <2>3. CASE ElementOfAlias
    BY <2>3, Zenon DEF ElementOfAlias, context, Fail
  <2>4. CASE ElementOfRecord
    BY <2>4, Zenon DEF ElementOfRecord, context, Fail
  <2>5. CASE OuterLayer
    BY <2>5, Zenon DEF OuterLayer, context, Fail
  <2> QED  BY <1>4, <2>1, <2>2, <2>3, <2>4, <2>5
<1>5. CASE RecordField
  BY <1>5 DEF RecordField, Fail
<1>6. CASE FunctionBody \/ MissingReturn \/ Block \/ StatementEnd \/ PushScope \/ PopScope \/ Compound \/ While \/ WhileEnd
  BY <1>6 DEF FunctionBody, MissingReturn, Block, StatementEnd, PushScope, PopScope, Compound, While, WhileEnd, context, Fail
<1>7. CASE BreakOrContinue \/ Store \/ Return \/ ReturnValue
  <2>1. Same
    BY <1>7 DEF BreakOrContinue, Store, Return, ReturnValue, context
  <2>2. Stays
    BY <1>2, <1>7 DEF BreakOrContinue, Store, Return, ReturnValue
  <2> QED  BY <2>1, <2>2
<1>8. CASE Condition \/ FieldOrElement \/ Call \/ Comparison \/ Argument
  BY <1>8 DEF Condition, FieldOrElement, Call, Comparison, Argument, context, Fail
<1>9. CASE NamedVariable \/ FieldAccess \/ ElementAccess \/ CallEnd
  <2>1. Same
    BY <1>9 DEF NamedVariable, FieldAccess, ElementAccess, CallEnd, context
  <2>2. Stays
    BY <1>1, <1>9 DEF NamedVariable, FieldAccess, ElementAccess, CallEnd, Fail
  <2> QED  BY <2>1, <2>2
<1>10. CASE Expression \/ Operation \/ MistypedString \/ StringLiteral \/ NewArray
  <2>1. Same
    BY <1>10 DEF Expression, Operation, MistypedString, StringLiteral, NewArray, context
  <2>2. Stays
    <3>1. CASE Expression  BY <1>1, <3>1 DEF Expression, Operand, Fail
    <3>2. CASE Operation  BY <1>1, <3>2 DEF Operation
    <3>3. CASE MistypedString  BY <1>1, <3>3 DEF MistypedString, Fail
    <3>4. CASE StringLiteral  BY <1>1, <3>4 DEF StringLiteral
    <3>5. CASE NewArray  BY <1>1, <3>5 DEF NewArray, Fail
    <3> QED  BY <1>10, <3>1, <3>2, <3>3, <3>4, <3>5
  <2> QED  BY <2>1, <2>2
<1> QED  BY <1>3, <1>4, <1>5, <1>6, <1>7, <1>8, <1>9, <1>10 DEF Step

(* The scope that a task needs is null only after such an error.            *)
LEMMA NullScopeAfterFieldError ==
  ASSUME ScopeInv, AnalyseInv, NullScope
  PROVE  result = "running" /\ fieldError
<1>1. result = "running" /\ agenda # << >>
  <2>1. CASE \E op \in {"pop", "wend", "field"} : At(op)
    BY <2>1 DEF At
  <2>2. CASE CreatesType
    <3>1. \/ \E t : t \in Elements
          \/ At("layer")
      BY <2>2 DEF CreatesType, CreatesRecord
    <3>2. At("exp") \/ At("sized") \/ At("layer")
      BY <3>1 DEF Elements
    <3> QED  BY <3>2 DEF At
  <2> QED  BY <2>1, <2>2 DEF NullScope
<1>2. SUFFICES ASSUME ~fieldError PROVE FALSE
  BY <1>1
<1>3. Disciplined(scopes, loopLevel, agenda)
  BY <1>1, <1>2 DEF ScopeInv
<1>4. CASE AtField
  <2>1. agenda[1].op = "field"
    BY <1>4 DEF AtField, At
  <2> DEFINE x == <<Len(scopes), loopLevel>>
  <2>2. PICK f : Leads(agenda, x, f)
    BY <1>3 DEF Disciplined
  <2> HIDE DEF x
  <2>3. PICK y, g : y \in Place /\ Rule(agenda[1].op, x, y, f, g)
    BY <1>1, <2>2, HeadLeads
  <2>4. x = Deeper(y)
    BY <2>1, <2>3 DEF Rule
  <2>5. Len(scopes) > 1
    BY <2>3, <2>4, PlaceAbove DEF x
  <2>6. Chain(scopes) /\ Chain(Pop(scopes))
    BY <1>3, <2>5, PopKeepsChain DEF Disciplined
  <2> QED  BY <2>6 DEF NullScope, FieldScopes, Chain
<1>5. CASE ~AtField
  <2>1. FieldScopes = scopes
    BY <1>5 DEF FieldScopes
  <2> QED  BY <1>3, <2>1 DEF NullScope, Disciplined, Chain
<1> QED  BY <1>4, <1>5

(* Every step keeps the error.                                              *)
LEMMA NextKeepsFieldErrors ==
  AnalyseInv /\ ScopeInv /\ CalleeInv /\ FieldInv /\ [Next]_vars => FieldInv'
<1> SUFFICES ASSUME AnalyseInv, ScopeInv, CalleeInv, FieldInv, [Next]_vars PROVE FieldInv'
  OBVIOUS
<1>1. CASE UNCHANGED vars
  BY <1>1 DEF vars, loop, context, FieldInv, NullScopeOnlyAfterError
<1>2. CASE Step
  <2>1. result = "running" /\ result' = "running" /\ agenda # << >> /\ UNCHANGED <<phase, verdict>>
    BY <1>2, StepsKeepTheLoop DEF loop
  <2>2. (~ok => ~ok') /\ (fieldError' => fieldError \/ ~ok')
    BY <1>2, ErrorsStay
  <2>3. phase \in 0 .. 5 /\ phase # 0 /\ ast \in DOMAIN asts
    <3>1. phase # 0 /\ TreeInv
      BY <2>1 DEF CalleeInv
    <3> QED  BY <3>1, Trees
  <2>4. CASE phase \in {1, 2}
    <3>1. fieldError' = fieldError
      BY <1>2, <2>1, <2>4, EarlyStepsKeepCallees
    <3>2. ~fieldError
      BY <2>1, <2>4 DEF FieldInv
    <3> QED  BY <2>1, <3>1, <3>2 DEF FieldInv, NullScopeOnlyAfterError
  <2>5. CASE phase > 2
    <3>1. agenda' # << >>
      BY <1>2, <2>1, <2>3, <2>5, LaterStepsKeepCallees
    <3>2. fieldError' => ~verdict' \/ ~ok'
      BY <2>1, <2>2 DEF FieldInv
    <3>3. ~(phase' < 3)
      BY <2>1, <2>3, <2>5
    <3> QED  BY <2>1, <3>1, <3>2, <3>3 DEF FieldInv, NullScopeOnlyAfterError
  <2> QED  BY <2>3, <2>4, <2>5
<1>3. CASE Start \/ NextAst \/ NextPhase
  <2>1. result = "running" /\ UNCHANGED <<result, fieldError, verdict, ok, agenda>>
    BY <1>3 DEF Start, NextAst, NextPhase, Idle, Enter, context
  <2>2. phase \in 0 .. 5
    BY DEF AnalyseInv
  <2>3. phase' < 3 => phase < 3
    <3>1. CASE Start  BY <3>1 DEF Start
    <3>2. CASE NextAst  BY <3>2 DEF NextAst, Enter
    <3>3. CASE NextPhase
      <4>1. phase' = phase + 1
        BY <3>3 DEF NextPhase, Enter
      <4> QED  BY <2>2, <4>1
    <3> QED  BY <1>3, <3>1, <3>2, <3>3
  <2> QED  BY <2>1, <2>3 DEF FieldInv, NullScopeOnlyAfterError
<1>4. CASE VisitDefinition
  <2>1. result = "running" /\ agenda = << >> /\ UNCHANGED <<result, phase, fieldError, verdict>>
    BY <1>4 DEF VisitDefinition, Idle, context
  <2> QED  BY <2>1 DEF FieldInv, NullScopeOnlyAfterError
<1>5. CASE DefinitionEnd
  <2>1. result = "running" /\ UNCHANGED <<result, phase, fieldError, ok>> /\ verdict' = (verdict /\ ok)
    BY <1>5 DEF DefinitionEnd, At, context
  <2> QED  BY <2>1 DEF FieldInv, NullScopeOnlyAfterError
<1>6. CASE Finish \/ OutOfMemory \/ LateOutOfMemory
  <2>1. result' \in {"SUCCESS", "ERR_SEMANTIC", "ERR_NOMEM", "DOUBLE_FREE"}
    BY <1>6 DEF Finish, OutOfMemory, LateOutOfMemory, Crash
  <2> QED  BY <2>1 DEF FieldInv, NullScopeOnlyAfterError
<1>7. CASE UndefinedBehaviour
  <2>1. UNCHANGED <<verdict, ok>> /\ result' \in {"WILD_TYPE", "NULL_SCOPE", "FREED_READ"}
        /\ (result' = "NULL_SCOPE" => NullScope)
    BY <1>7 DEF UndefinedBehaviour, Crash
  <2>2. NullScope => ~verdict \/ ~ok
    BY NullScopeAfterFieldError DEF FieldInv
  <2> QED  BY <2>1, <2>2 DEF FieldInv, NullScopeOnlyAfterError
<1>8. CASE Spin \/ Returned
  BY <1>1, <1>8 DEF Spin, Returned
<1> QED  BY <1>1, <1>2, <1>3, <1>4, <1>5, <1>6, <1>7, <1>8 DEF Next

\* For every set of programs, a resolver meets the null scope only once an error
\* has been found, in the definition being resolved or in one before it.
THEOREM NullScopesFollowErrors == Spec => []NullScopeOnlyAfterError
<1>1. Init => AnalyseInv /\ ScopeInv /\ CalleeInv /\ FieldInv
  <2>1. Init => FieldInv
    BY DEF Init, FieldInv, NullScopeOnlyAfterError
  <2> QED  BY <2>1, InitEstablishes, InitDisciplined, InitKnowsTypes
<1>2. AnalyseInv /\ ScopeInv /\ CalleeInv /\ FieldInv /\ [Next]_vars => AnalyseInv' /\ ScopeInv' /\ CalleeInv' /\ FieldInv'
  BY NextKeepsTheInvariant, NextKeepsDiscipline, NextKeepsCallees, NextKeepsFieldErrors
<1>3. FieldInv => NullScopeOnlyAfterError
  BY DEF FieldInv
<1> QED  BY <1>1, <1>2, <1>3, PTL DEF Spec

-----------------------------------------------------------------------------
(* The global scope                                                         *)

Symbols(s) == {s[i] : i \in DOMAIN s}
Names(s) == {s[i].name : i \in DOMAIN s}

\* What the declarations before x leave in the global scope: the first one of
\* each name.  These names are the names of all that are not refused by themselves.
FirstBefore(x) == {SymbolOf(c) : c \in {d \in Declarations : Before(d, x) /\ First(d)}}
NamesBefore(x) == {Definition(c).name : c \in {d \in Declarations : Before(d, x) /\ Fine(d)}}
Exact(s, x) == IsList(s) /\ Symbols(s) = FirstBefore(x) /\ Names(s) = NamesBefore(x)

\* The declaration that the loops come to next, and the one they are at.
Upcoming == <<phase, ast, pos>>
Current == <<phase, ast, pos - 1>>

\* A declaration is over, or has not begun, or is one of a function and at its
\* parameter k, up to which no parameter was refused.
Over ==
  /\ \E s : scopes = <<s>> /\ Exact(s, Upcoming)
  /\ agenda = << >> \/ \E e : e.op = "enddef" /\ agenda = <<e>>

Beginning ==
  /\ Current \in Declarations
  /\ \E s : scopes = <<s>> /\ Exact(s, Current)
  /\ \E e : e.op = "enddef" /\ agenda = <<Task(Handlers[phase], <<ast, pos - 1>>, Definition(Current)), e>>

GoodParams(f, k) ==
  \A i \in 1 .. k - 1 :
    /\ Params(f)[i].name \notin BuiltinNames
    /\ \A j \in 1 .. i - 1 : Params(f)[j].name # Params(f)[i].name

InFunction ==
  /\ Current \in Declarations /\ phase = 2
  /\ Definition(Current).name \notin BuiltinNames \cup NamesBefore(Current)
  /\ \E s, r, e, k :
       /\ scopes = <<s, r>> /\ agenda = <<Task("param", <<ast, pos - 1>>, k), e>> /\ e.op = "enddef"
       /\ IsList(s) /\ s # << >> /\ Last(s) = SymbolOf(Current) /\ Exact(Front(s), Current)
       /\ IsList(r) /\ k \in 1 .. Len(Params(<<ast, pos - 1>>)) + 1
       /\ Names(r) = {Params(<<ast, pos - 1>>)[i].name : i \in 1 .. k - 1}
       /\ GoodParams(<<ast, pos - 1>>, k)

GlobalInv ==
  result = "running" =>
    /\ phase \in 1 .. 3 => last = Len(asts[ast]) /\ (Over \/ Beginning \/ InFunction)
    /\ phase = 4 /\ ast = 1 /\ pos = 1 => agenda = << >> /\ \E s : scopes = <<s>> /\ Exact(s, Upcoming)

(* The names of a scope that one symbol more is in, or of an empty one.     *)
LEMMA NamesAppended ==
  ASSUME NEW s, IsList(s), NEW x
  PROVE  /\ IsList(Append(s, x))
         /\ Symbols(Append(s, x)) = Symbols(s) \cup {x}
         /\ Names(Append(s, x)) = Names(s) \cup {x.name}
<1> DEFINE z == Append(s, x)
<1>1. /\ IsList(z) /\ Len(s) \in Nat /\ DOMAIN s = 1 .. Len(s) /\ DOMAIN z = 1 .. Len(s) + 1
      /\ \A i \in DOMAIN s : z[i] = s[i]
      /\ z[Len(s) + 1] = x
  BY Appended
<1> HIDE DEF z
<1>2. \A y : y \in Symbols(z) <=> y \in Symbols(s) \cup {x}
  BY <1>1 DEF Symbols
<1>3. \A n : n \in Names(z) <=> n \in Names(s) \cup {x.name}
  BY <1>1 DEF Names
<1> QED  BY <1>1, <1>2, <1>3 DEF z

(* The empty scope has no names.                                           *)
LEMMA NoNames == Symbols(<< >>) = {} /\ Names(<< >>) = {} /\ IsList(<< >>)
BY ShortLists DEF Symbols, Names

(* Lists with the same elements are one.                                    *)
LEMMA SameLists ==
  ASSUME NEW s, NEW t, IsList(s), IsList(t), Len(s) = Len(t), \A i \in DOMAIN s : s[i] = t[i]
  PROVE  s = t
<1> DEFINE U == {s[i] : i \in DOMAIN s} \cup {t[i] : i \in DOMAIN t}
<1>1. s \in Seq(U) /\ t \in Seq(U)
  BY DEF IsList
<1> HIDE DEF U
<1>2. DOMAIN s = 1 .. Len(s)
  BY <1>1
<1> QED  BY <1>1, <1>2, SeqEqual

(* A scope that is not empty is its front with its last symbol.             *)
LEMMA FrontAndLast ==
  ASSUME NEW s, IsList(s), s # << >>
  PROVE  Append(Front(s), Last(s)) = s
<1>1. PICK f, l : f = Front(s) /\ l = Last(s)
  OBVIOUS
<1>2. /\ IsList(f) /\ Len(s) \in Nat /\ Len(s) > 0 /\ DOMAIN s = 1 .. Len(s)
      /\ Len(f) = Len(s) - 1 /\ \A i \in 1 .. Len(s) - 1 : f[i] = s[i]
  BY <1>1, Shortened
<1>3. l = s[Len(s)]
  BY <1>1 DEF Last
<1>4. PICK z : z = Append(f, l)
  OBVIOUS
<1>5. /\ IsList(z) /\ Len(z) = Len(f) + 1 /\ DOMAIN f = 1 .. Len(f)
      /\ \A i \in DOMAIN f : z[i] = f[i]
      /\ z[Len(f) + 1] = l
  <2>1. IsList(f)
    BY <1>2
  <2>2. /\ IsList(Append(f, l)) /\ Len(Append(f, l)) = Len(f) + 1 /\ DOMAIN f = 1 .. Len(f)
        /\ \A i \in DOMAIN f : Append(f, l)[i] = f[i]
        /\ Append(f, l)[Len(f) + 1] = l
    BY <2>1, Appended
  <2> QED  BY <1>4, <2>2
<1>6. \A i \in DOMAIN s : s[i] = z[i]
  BY <1>2, <1>3, <1>5
<1>7. s = z
  BY <1>2, <1>5, <1>6, SameLists
<1> QED  BY <1>1, <1>4, <1>7

(* What a scope refuses                                                     *)
LEMMA ClashingNames ==
  ASSUME NEW c, c # << >>, NEW s, Last(c) = s, IsList(s), NEW n
  PROVE  Clashes(c, n) <=> n \in Names(s) \cup BuiltinNames
<1>1. DOMAIN s = 1 .. Len(s)
  BY Appended
<1>2. Named(s, n) # {} <=> n \in Names(s)
  BY <1>1 DEF Named, Names
<1>3. (\E b \in BuiltinScope : b.name = n) <=> n \in BuiltinNames
  BY DEF BuiltinNames
<1> QED  BY <1>2, <1>3 DEF Clashes

(* Declarations are triples of numbers.                                     *)
LEMMA DeclarationsAre ==
  ASSUME TreeInv, NEW c
  PROVE  c \in Declarations <=>
           \E p \in 1 .. 3, a \in Nat, i \in Nat :
             /\ c = <<p, a, i>> /\ a \in DOMAIN asts /\ i \in DOMAIN asts[a]
             /\ asts[a][i].def = Kinds[p]
<1>1. ASSUME NEW a \in DOMAIN asts, NEW i \in DOMAIN asts[a] PROVE a \in Nat /\ i \in Nat
  <2>1. IsList(asts) /\ IsList(asts[a])
    BY DEF TreeInv
  <2>2. DOMAIN asts = 1 .. Len(asts) /\ Len(asts) \in Nat
        /\ DOMAIN asts[a] = 1 .. Len(asts[a]) /\ Len(asts[a]) \in Nat
    BY <2>1, Appended
  <2> QED  BY <2>2
<1>2. c \in Declarations <=>
        \E p \in 1 .. 3 : \E a \in DOMAIN asts : \E i \in DOMAIN asts[a] :
          c = <<p, a, i>> /\ asts[a][i].def = Kinds[p]
  BY DEF Declarations
<1> QED  BY <1>1, <1>2

(* What is before the next place is before this one, or here.               *)
LEMMA BeforeNext ==
  ASSUME TreeInv, NEW p \in Nat, NEW a \in Nat, NEW i \in Nat, NEW c \in Declarations
  PROVE  Before(c, <<p, a, i + 1>>) <=> Before(c, <<p, a, i>>) \/ c = <<p, a, i>>
<1>1. PICK q \in Nat, b \in Nat, j \in Nat : c = <<q, b, j>>
  BY DeclarationsAre
<1> QED  BY <1>1 DEF Before

(* What is before the next AST is before the end of this one, and so with   *)
(* the loops.                                                               *)
LEMMA BeforeNextAst ==
  ASSUME TreeInv, NEW p \in Nat, NEW a \in DOMAIN asts, NEW i \in Nat, i > Len(asts[a]), NEW c \in Declarations
  PROVE  /\ Before(c, <<p, a + 1, 1>>) <=> Before(c, <<p, a, i>>)
         /\ a = Len(asts) => (Before(c, <<p + 1, 1, 1>>) <=> Before(c, <<p, a, i>>))
<1>1. PICK q \in Nat, b \in Nat, j \in Nat :
        c = <<q, b, j>> /\ b \in DOMAIN asts /\ j \in DOMAIN asts[b]
  BY DeclarationsAre
<1>2. IsList(asts) /\ IsList(asts[a]) /\ IsList(asts[b])
  BY <1>1 DEF TreeInv
<1>3. /\ DOMAIN asts = 1 .. Len(asts) /\ Len(asts) \in Nat
      /\ DOMAIN asts[a] = 1 .. Len(asts[a]) /\ Len(asts[a]) \in Nat
      /\ DOMAIN asts[b] = 1 .. Len(asts[b]) /\ Len(asts[b]) \in Nat
  BY <1>2, Appended
<1>4. a \in Nat /\ b >= 1 /\ b <= Len(asts) /\ j >= 1
  BY <1>1, <1>3
<1>5. b = a => j < i
  BY <1>1, <1>3
<1> QED  BY <1>1, <1>3, <1>4, <1>5 DEF Before

(* The scope is as exact at one place as at another with the same           *)
(* declarations before it.                                                  *)
LEMMA ExactAgain ==
  ASSUME NEW x, NEW y, \A c \in Declarations : Before(c, x) <=> Before(c, y), NEW s, Exact(s, x)
  PROVE  Exact(s, y) /\ NamesBefore(x) = NamesBefore(y)
<1>1. FirstBefore(x) = FirstBefore(y)
  BY DEF FirstBefore
<1>2. NamesBefore(x) = NamesBefore(y)
  BY DEF NamesBefore
<1> QED  BY <1>1, <1>2 DEF Exact

(* A declaration that is refused leaves the scope as it is.                 *)
LEMMA Refused ==
  ASSUME NEW c \in Declarations, NEW y, \A d \in Declarations : Before(d, y) <=> Before(d, c) \/ d = c,
         NEW s, Exact(s, c), ~Fine(c) \/ Definition(c).name \in Names(s)
  PROVE  Exact(s, y)
<1>1. Fine(c) => \E d \in Declarations : Before(d, c) /\ Fine(d) /\ Definition(d).name = Definition(c).name
  <2>1. Names(s) = NamesBefore(c)
    BY DEF Exact
  <2> QED  BY <2>1 DEF NamesBefore
<1>2. ~First(c)
  BY <1>1 DEF First
<1>3. FirstBefore(y) = FirstBefore(c)
  <2>1. {d \in Declarations : Before(d, y) /\ First(d)} = {d \in Declarations : Before(d, c) /\ First(d)}
    BY <1>2
  <2> QED  BY <2>1 DEF FirstBefore
<1>4. NamesBefore(y) = NamesBefore(c)
  <2>1. ASSUME NEW n PROVE n \in NamesBefore(y) <=> n \in NamesBefore(c)
    BY <1>1 DEF NamesBefore
  <2> QED  BY <2>1
<1> QED  BY <1>3, <1>4 DEF Exact

(* A declaration of a new name is the first one of its name.                *)
LEMMA Accepted ==
  ASSUME NEW c \in Declarations, NEW y, \A d \in Declarations : Before(d, y) <=> Before(d, c) \/ d = c,
         NEW s, Exact(s, c), Fine(c), Definition(c).name \notin NamesBefore(c)
  PROVE  Exact(Append(s, SymbolOf(c)), y)
<1> DEFINE x == SymbolOf(c)
           z == Append(s, x)
<1>1. First(c)
  <2>1. ASSUME NEW d \in Declarations, Fine(d), Before(d, c) PROVE Definition(d).name # Definition(c).name
    BY <2>1 DEF NamesBefore
  <2> QED  BY <2>1 DEF First
<1>2. IsList(z) /\ Symbols(z) = Symbols(s) \cup {x} /\ Names(z) = Names(s) \cup {x.name}
  BY NamesAppended DEF Exact
<1>3. FirstBefore(y) = FirstBefore(c) \cup {x}
  <2>1. {d \in Declarations : Before(d, y) /\ First(d)} = {d \in Declarations : Before(d, c) /\ First(d)} \cup {c}
    BY <1>1
  <2>2. ASSUME NEW e PROVE e \in FirstBefore(y) <=> e \in FirstBefore(c) \cup {x}
    BY <2>1 DEF FirstBefore
  <2> QED  BY <2>2
<1>4. NamesBefore(y) = NamesBefore(c) \cup {Definition(c).name}
  <2>1. {d \in Declarations : Before(d, y) /\ Fine(d)} = {d \in Declarations : Before(d, c) /\ Fine(d)} \cup {c}
    OBVIOUS
  <2>2. ASSUME NEW n PROVE n \in NamesBefore(y) <=> n \in NamesBefore(c) \cup {Definition(c).name}
    BY <2>1 DEF NamesBefore
  <2> QED  BY <2>2
<1>5. x.name = Definition(c).name
  BY DEF SymbolOf, Symbol
<1> HIDE DEF x, z
<1> QED  BY <1>2, <1>3, <1>4, <1>5 DEF Exact, x, z

-----------------------------------------------------------------------------
(* The loops of declarations                                                *)

(* What is said of the trees stays when they do.                            *)
LEMMA DeclarationsStay ==
  ASSUME asts' = asts
  PROVE  /\ Declarations' = Declarations
         /\ \A c : Definition(c)' = Definition(c) /\ SymbolOf(c)' = SymbolOf(c) /\ (Fine(c)' <=> Fine(c))
         /\ \A x : NamesBefore(x)' = NamesBefore(x)
         /\ \A s, x : Exact(s, x) => Exact(s, x)'
         /\ \A f : Params(f)' = Params(f)
         /\ \A f, k : GoodParams(f, k) => GoodParams(f, k)'
<1>1. Declarations' = Declarations
  BY DEF Declarations
<1>2. \A c : Definition(c)' = Definition(c)
  BY DEF Definition
<1>3. \A f : Params(f)' = Params(f)
  BY DEF Params
<1>4. \A f : BadParams(f)' <=> BadParams(f)
  BY <1>3 DEF BadParams
<1>5. \A c : Fine(c)' <=> Fine(c)
  BY <1>1, <1>2, <1>4 DEF Fine
<1>6. \A c : First(c)' <=> First(c)
  BY <1>1, <1>2, <1>5 DEF First
<1>7. \A c : SymbolOf(c)' = SymbolOf(c)
  BY <1>2 DEF SymbolOf
<1>8. \A x : NamesBefore(x)' = NamesBefore(x)
  BY <1>1, <1>2, <1>5 DEF NamesBefore
<1>9. \A x : FirstBefore(x)' = FirstBefore(x)
  BY <1>1, <1>6, <1>7 DEF FirstBefore
<1>10. \A s, x : Exact(s, x) => Exact(s, x)'
  BY <1>8, <1>9 DEF Exact
<1>11. \A f, k : GoodParams(f, k) => GoodParams(f, k)'
  BY <1>3 DEF GoodParams
<1> QED  BY <1>1, <1>2, <1>3, <1>5, <1>7, <1>8, <1>10, <1>11

(* The declaration that the loops are at                                    *)
LEMMA CurrentIs ==
  ASSUME TreeInv, Current \in Declarations
  PROVE  /\ phase \in 1 .. 3 /\ ast \in DOMAIN asts /\ pos - 1 \in DOMAIN asts[ast]
         /\ Definition(Current) = asts[ast][pos - 1] /\ Definition(Current).def = Kinds[phase]
         /\ SymbolOf(Current) = Symbol(Definition(Current).name, Kinds[phase], <<ast, pos - 1>>)
         /\ Fine(Current) <=>
              /\ Definition(Current).name \notin BuiltinNames
              /\ phase = 2 => ~BadParams(<<ast, pos - 1>>)
         /\ \A d \in Declarations : Before(d, Upcoming) <=> Before(d, Current) \/ d = Current
<1>1. PICK i : i = pos - 1
  OBVIOUS
<1>2. Current = <<phase, ast, i>>
  BY <1>1 DEF Current
<1>3. PICK p \in 1 .. 3, a \in Nat, j \in Nat :
        /\ Current = <<p, a, j>> /\ a \in DOMAIN asts /\ j \in DOMAIN asts[a]
        /\ asts[a][j].def = Kinds[p]
  BY DeclarationsAre
<1>4. p = phase /\ a = ast /\ j = i
  BY <1>2, <1>3
<1>5. Definition(Current) = asts[ast][i]
  BY <1>2 DEF Definition
<1>6. pos = i + 1
  <2>1. pos \in Nat
    BY DEF TreeInv
  <2> QED  BY <1>1, <2>1
<1>7. \A d \in Declarations : Before(d, Upcoming) <=> Before(d, Current) \/ d = Current
  <2>1. \A d \in Declarations : Before(d, <<phase, ast, i + 1>>) <=> Before(d, <<phase, ast, i>>) \/ d = <<phase, ast, i>>
    BY <1>3, <1>4, BeforeNext
  <2> QED  BY <1>2, <1>6, <2>1 DEF Upcoming
<1>8. SymbolOf(Current) = Symbol(Definition(Current).name, Kinds[phase], <<ast, i>>)
  BY <1>2, <1>3, <1>4, <1>5 DEF SymbolOf
<1>9. Kinds[phase] = "func" <=> phase = 2
  BY <1>3, <1>4 DEF Kinds
<1>10. Fine(Current) <=> /\ Definition(Current).name \notin BuiltinNames
                         /\ phase = 2 => ~BadParams(<<ast, i>>)
  BY <1>2, <1>3, <1>4, <1>5, <1>9 DEF Fine
<1> QED  BY <1>1, <1>3, <1>4, <1>5, <1>7, <1>8, <1>10

(* What the loops are at, by the task at hand                               *)
LEMMA TaskOfDeclaration ==
  ASSUME GlobalInv, result = "running", phase \in 1 .. 3, agenda # << >>
  PROVE  /\ last = Len(asts[ast])
         /\ agenda[1].op \in {"typedecl", "funcdecl", "vardef", "param", "enddef"}
         /\ agenda[1].op = "enddef" => Over
         /\ agenda[1].op = "param" => InFunction
         /\ agenda[1].op \in {"typedecl", "funcdecl", "vardef"} => Beginning /\ agenda[1].op = Handlers[phase]
<1>1. last = Len(asts[ast]) /\ (Over \/ Beginning \/ InFunction)
  BY DEF GlobalInv
<1>2. Over => agenda[1].op = "enddef"
  BY DEF Over
<1>3. InFunction => agenda[1].op = "param"
  <2> SUFFICES ASSUME InFunction PROVE agenda[1].op = "param"
    OBVIOUS
  <2>1. PICK e, k, f : agenda = <<Task("param", f, k), e>>
    BY DEF InFunction
  <2> QED  BY <2>1 DEF Task
<1>4. Beginning => agenda[1].op = Handlers[phase]
  <2> SUFFICES ASSUME Beginning PROVE agenda[1].op = Handlers[phase]
    OBVIOUS
  <2>1. PICK e, f, d : agenda = <<Task(Handlers[phase], f, d), e>>
    BY DEF Beginning
  <2> QED  BY <2>1 DEF Task
<1>5. Handlers[phase] \in {"typedecl", "funcdecl", "vardef"}
  BY DEF Handlers
<1> QED  BY <1>1, <1>2, <1>3, <1>4, <1>5

(* A declaration is over.                                                   *)
LEMMA BackOver ==
  ASSUME UNCHANGED <<asts, phase, ast, pos, last>>, phase \in 1 .. 3, last = Len(asts[ast]),
         NEW s, Exact(s, Upcoming), scopes' = <<s>>, NEW e, e.op = "enddef", agenda' = <<e>> \/ agenda' = << >>
  PROVE  GlobalInv'
<1>1. Exact(s, Upcoming)'
  <2>1. PICK x : x = Upcoming
    OBVIOUS
  <2>2. x = Upcoming'
    BY <2>1 DEF Upcoming
  <2>3. Exact(s, x)'
    BY <2>1, DeclarationsStay
  <2> QED  BY <2>2, <2>3
<1>2. Over'
  BY <1>1 DEF Over
<1> QED  BY <1>2 DEF GlobalInv

(* A declaration that may be refused at its name, of a type or a variable   *)
LEMMA DeclarationKeepsScope ==
  ASSUME GlobalInv, TreeInv, result = "running", phase \in 1 .. 3, TypeDeclaration \/ VarDefinition
  PROVE  GlobalInv'
<1>1. /\ agenda # << >> /\ agenda[1].op \in {"typedecl", "vardef"}
      /\ UNCHANGED <<asts, phase, ast, pos, last, result>>
  <2>1. agenda # << >>
    BY DEF TypeDeclaration, VarDefinition, At, Statement
  <2>2. agenda[1].op \in {"typedecl", "vardef", "stmt"}
    BY DEF TypeDeclaration, VarDefinition, At, Statement
  <2>3. UNCHANGED <<asts, phase, ast, pos, last, result>>
    BY DEF TypeDeclaration, VarDefinition, loop, tree
  <2> QED  BY <2>1, <2>2, <2>3, TaskOfDeclaration
<1>2. last = Len(asts[ast]) /\ Beginning /\ agenda[1].op = Handlers[phase]
  BY <1>1, TaskOfDeclaration
<1>3. PICK s, e :
        /\ scopes = <<s>> /\ Exact(s, Current) /\ e.op = "enddef"
        /\ agenda = <<Task(Handlers[phase], <<ast, pos - 1>>, Definition(Current)), e>>
  BY <1>2 DEF Beginning
<1>4. Current \in Declarations
  BY <1>2 DEF Beginning
<1>5. here = <<ast, pos - 1>> /\ node = Definition(Current)
  BY <1>3 DEF here, node, Task
<1>6. phase # 2 /\ Kinds[phase] = IF agenda[1].op = "typedecl" THEN "type" ELSE "var"
  BY <1>1, <1>2 DEF Handlers, Kinds
<1>7. IsList(s) /\ Names(s) = NamesBefore(Current)
  BY <1>3 DEF Exact
<1>8. Clashes(scopes, node.name) <=> node.name \in Names(s) \cup BuiltinNames
  <2>1. scopes # << >> /\ Last(scopes) = s
    BY <1>3 DEF Last
  <2> QED  BY <1>7, <2>1, ClashingNames
<1>9. PICK x : x = SymbolOf(Current)
  OBVIOUS
<1>10. x = Symbol(node.name, Kinds[phase], here)
  BY <1>4, <1>5, <1>9, CurrentIs
<1>11. \/ Clashes(scopes, node.name) /\ scopes' = scopes
       \/ ~Clashes(scopes, node.name) /\ scopes' = Declare(scopes, x)
  <2>1. CASE TypeDeclaration
    <3>1. agenda[1].op = "typedecl"
      BY <2>1 DEF TypeDeclaration, At
    <3>2. x = Symbol(node.name, "type", here)
      BY <1>6, <1>10, <3>1
    <3> QED  BY <2>1, <3>2, Zenon DEF TypeDeclaration
  <2>2. CASE VarDefinition
    <3>1. agenda[1].op = "vardef"
      BY <1>1, <2>2 DEF VarDefinition, At, Statement
    <3>2. x = Symbol(node.name, "var", here)
      BY <1>6, <1>10, <3>1
    <3>3. scopes' = IF Clashes(scopes, node.name) THEN scopes ELSE Declare(scopes, Symbol(node.name, "var", here))
      BY <2>2, Zenon DEF VarDefinition
    <3> QED  BY <3>2, <3>3
  <2> QED  BY <2>1, <2>2
<1>12. agenda' = <<e>>
  <2>1. PICK t : t = Task(Handlers[phase], <<ast, pos - 1>>, Definition(Current))
    OBVIOUS
  <2>2. agenda = <<t, e>> /\ t.op \notin Markers
    BY <1>1, <1>3, <2>1 DEF Markers
  <2>3. agenda' = FromMarker(agenda) \/ agenda' = << >> \o Tail(agenda)
    BY Zenon DEF TypeDeclaration, VarDefinition, Fail, Done, Then
  <2> QED  BY <1>3, <2>2, <2>3, TwoTasks
<1>13. PICK c \in Declarations : c = Current
  BY <1>4
<1>14. \A d \in Declarations : Before(d, Upcoming) <=> Before(d, c) \/ d = c
  BY <1>13, CurrentIs
<1>15. Fine(c) <=> node.name \notin BuiltinNames
  BY <1>5, <1>6, <1>13, CurrentIs
<1>16. CASE Clashes(scopes, node.name) /\ scopes' = scopes
  <2>1. ~Fine(c) \/ Definition(c).name \in Names(s)
    BY <1>5, <1>8, <1>13, <1>15, <1>16
  <2>2. Exact(s, Upcoming)
    BY <1>3, <1>13, <1>14, <2>1, Refused
  <2> QED  BY <1>1, <1>2, <1>3, <1>12, <1>16, <2>2, BackOver
<1>17. CASE ~Clashes(scopes, node.name) /\ scopes' = Declare(scopes, x)
  <2>1. Fine(c) /\ Definition(c).name \notin NamesBefore(c)
    BY <1>5, <1>7, <1>8, <1>13, <1>15, <1>17
  <2>2. Exact(Append(s, SymbolOf(c)), Upcoming)
    BY <1>3, <1>13, <1>14, <2>1, Accepted
  <2>3. PICK z : z = Append(s, x)
    OBVIOUS
  <2>4. scopes' = <<z>>
    BY <1>3, <1>17, <2>3, OneScope
  <2>5. Exact(z, Upcoming)
    BY <1>9, <1>13, <2>2, <2>3
  <2> QED  BY <1>1, <1>2, <1>3, <1>12, <2>4, <2>5, BackOver
<1> QED  BY <1>11, <1>16, <1>17

(* A function is declared, or refused at its name.                          *)
LEMMA FunctionKeepsScope ==
  ASSUME GlobalInv, TreeInv, result = "running", phase \in 1 .. 3, FunctionDeclaration
  PROVE  GlobalInv'
<1>1. /\ agenda # << >> /\ agenda[1].op = "funcdecl"
      /\ UNCHANGED <<asts, phase, ast, pos, last, result>>
  BY DEF FunctionDeclaration, At, loop
<1>2. last = Len(asts[ast]) /\ Beginning /\ agenda[1].op = Handlers[phase]
  BY <1>1, TaskOfDeclaration
<1>3. PICK s, e :
        /\ scopes = <<s>> /\ Exact(s, Current) /\ e.op = "enddef"
        /\ agenda = <<Task(Handlers[phase], <<ast, pos - 1>>, Definition(Current)), e>>
  BY <1>2 DEF Beginning
<1>4. Current \in Declarations
  BY <1>2 DEF Beginning
<1>5. here = <<ast, pos - 1>> /\ node = Definition(Current)
  BY <1>3 DEF here, node, Task
<1>6. phase = 2 /\ Kinds[phase] = "func"
  BY <1>1, <1>2 DEF Handlers, Kinds
<1>7. IsList(s) /\ Names(s) = NamesBefore(Current)
  BY <1>3 DEF Exact
<1>8. Clashes(scopes, node.name) <=> node.name \in Names(s) \cup BuiltinNames
  <2>1. scopes # << >> /\ Last(scopes) = s
    BY <1>3 DEF Last
  <2> QED  BY <1>7, <2>1, ClashingNames
<1>9. PICK x : x = SymbolOf(Current)
  OBVIOUS
<1>10. x = Symbol(node.name, "func", here)
  BY <1>4, <1>5, <1>6, <1>9, CurrentIs
<1>11. \/ Clashes(scopes, node.name) /\ Fail /\ scopes' = scopes
       \/ ~Clashes(scopes, node.name) /\ scopes' = Push(Declare(scopes, x)) /\ Then(<<Task("param", here, 1)>>)
  BY <1>10, Zenon DEF FunctionDeclaration
<1>12. PICK t : t = Task(Handlers[phase], <<ast, pos - 1>>, Definition(Current))
  OBVIOUS
<1>13. agenda = <<t, e>> /\ t.op \notin Markers
  BY <1>1, <1>3, <1>12 DEF Markers
<1>14. PICK c \in Declarations : c = Current
  BY <1>4
<1>15. CASE Clashes(scopes, node.name) /\ Fail /\ scopes' = scopes
  <2>1. Fine(c) => node.name \notin BuiltinNames
    BY <1>5, <1>14, CurrentIs
  <2>2. ~Fine(c) \/ Definition(c).name \in Names(s)
    BY <1>5, <1>8, <1>14, <1>15, <2>1
  <2>3. \A d \in Declarations : Before(d, Upcoming) <=> Before(d, c) \/ d = c
    BY <1>14, CurrentIs
  <2>4. Exact(s, Upcoming)
    BY <1>3, <1>14, <2>2, <2>3, Refused
  <2>5. agenda' = <<e>>
    BY <1>3, <1>13, <1>15, TwoTasks DEF Fail
  <2> QED  BY <1>1, <1>2, <1>3, <1>15, <2>4, <2>5, BackOver
<1>16. CASE ~Clashes(scopes, node.name) /\ scopes' = Push(Declare(scopes, x)) /\ Then(<<Task("param", here, 1)>>)
  <2>1. PICK z : z = Append(s, x)
    OBVIOUS
  <2>2. scopes' = <<z, << >>>>
    BY <1>3, <1>16, <2>1, OneScope
  <2>3. agenda' = <<Task("param", <<ast, pos - 1>>, 1), e>>
    BY <1>3, <1>5, <1>13, <1>16, TwoTasks DEF Then
  <2>4. IsList(z) /\ z # << >> /\ Last(z) = x /\ Front(z) = s
    <3>1. IsList(z)
      BY <1>7, <2>1, NamesAppended
    <3> QED  BY <1>7, <2>1, <3>1, AppendHolds
  <2>5. Definition(c).name \notin BuiltinNames \cup NamesBefore(c)
    BY <1>5, <1>7, <1>8, <1>14, <1>16
  <2>6. PICK f : f = <<ast, pos - 1>>
    OBVIOUS
  <2>7. 1 \in 1 .. Len(Params(f)) + 1
    <3>1. f[1] = ast /\ f[2] = pos - 1
      BY <2>6
    <3>2. IsList(Params(f))
      BY <1>4, <1>6, <3>1, CurrentIs DEF TreeInv, Params
    <3> QED  BY <3>2, Appended
  <2>8. Names(<< >>) = {Params(f)[i].name : i \in 1 .. 1 - 1} /\ GoodParams(f, 1)
    BY NoNames DEF GoodParams
  <2>9. Current' = c /\ f = <<ast', pos' - 1>>
    BY <1>1, <1>14, <2>6 DEF Current
  <2>10. InFunction'
    <3>1. PICK r : r = << >>
      OBVIOUS
    <3>2. /\ c \in Declarations' /\ phase' = 2
          /\ Definition(c)'.name \notin BuiltinNames \cup NamesBefore(c)'
          /\ SymbolOf(c)' = x /\ Exact(s, c)' /\ Params(f)' = Params(f) /\ GoodParams(f, 1)'
      BY <1>1, <1>3, <1>6, <1>9, <1>14, <2>5, <2>8, DeclarationsStay
    <3>3. IsList(r) /\ Names(r) = {Params(f)'[i].name : i \in 1 .. 1 - 1}
      BY <2>8, <3>1, <3>2, NoNames
    <3>4. scopes' = <<z, r>> /\ agenda' = <<Task("param", f, 1), e>>
      BY <2>2, <2>3, <2>6, <3>1
    <3> QED  BY <1>3, <2>4, <2>7, <2>9, <3>2, <3>3, <3>4 DEF InFunction
  <2> QED  BY <1>1, <1>2, <1>6, <2>10 DEF GlobalInv
<1> QED  BY <1>11, <1>15, <1>16

(* What is known among the parameters of a function                         *)
LEMMA AmongTheParameters ==
  ASSUME GlobalInv, TreeInv, result = "running", phase \in 1 .. 3, At("param")
  PROVE  /\ last = Len(asts[ast]) /\ phase = 2 /\ Current \in Declarations
         /\ Definition(Current).name \notin BuiltinNames \cup NamesBefore(Current)
         /\ IsList(Params(here)) /\ here = <<ast, pos - 1>>
         /\ \E s, r, e :
              /\ scopes = <<s, r>> /\ agenda = <<Task("param", here, node), e>> /\ e.op = "enddef"
              /\ IsList(s) /\ s # << >> /\ Last(s) = SymbolOf(Current) /\ Exact(Front(s), Current)
              /\ IsList(r) /\ node \in 1 .. Len(Params(here)) + 1
              /\ Names(r) = {Params(here)[i].name : i \in 1 .. node - 1}
              /\ GoodParams(here, node)
<1>1. agenda # << >> /\ agenda[1].op = "param"
  BY DEF At
<1>2. last = Len(asts[ast]) /\ InFunction
  BY <1>1, TaskOfDeclaration
<1>3. PICK f : f = <<ast, pos - 1>>
  OBVIOUS
<1>4. PICK s, r, e, k :
        /\ scopes = <<s, r>> /\ agenda = <<Task("param", f, k), e>> /\ e.op = "enddef"
        /\ IsList(s) /\ s # << >> /\ Last(s) = SymbolOf(Current) /\ Exact(Front(s), Current)
        /\ IsList(r) /\ k \in 1 .. Len(Params(f)) + 1
        /\ Names(r) = {Params(f)[i].name : i \in 1 .. k - 1}
        /\ GoodParams(f, k)
  BY <1>2, <1>3 DEF InFunction
<1>5. here = f /\ node = k
  BY <1>4 DEF here, node, Task
<1>6. /\ phase = 2 /\ Current \in Declarations
      /\ Definition(Current).name \notin BuiltinNames \cup NamesBefore(Current)
  BY <1>2 DEF InFunction
<1>7. IsList(Params(f))
  <2>1. f[1] = ast /\ f[2] = pos - 1 /\ Kinds[phase] = "func"
    BY <1>3, <1>6 DEF Kinds
  <2> QED  BY <1>6, <2>1, CurrentIs DEF TreeInv, Params
<1> QED  BY <1>2, <1>3, <1>4, <1>5, <1>6, <1>7

(* A parameter is declared, or takes its function out of the scope.         *)
LEMMA ParameterKeepsScope ==
  ASSUME GlobalInv, TreeInv, result = "running", phase \in 1 .. 3, Parameter
  PROVE  GlobalInv'
<1>1. /\ At("param") /\ node <= Len(Params(here))
      /\ UNCHANGED <<asts, phase, ast, pos, last, result>>
  BY DEF Parameter, loop
<1>2. PICK f, k : f = here /\ k = node
  OBVIOUS
<1>3. /\ last = Len(asts[ast]) /\ phase = 2 /\ Current \in Declarations
      /\ Definition(Current).name \notin BuiltinNames \cup NamesBefore(Current)
      /\ IsList(Params(f)) /\ f = <<ast, pos - 1>>
  BY <1>1, <1>2, AmongTheParameters
<1>4. PICK s, r, e :
        /\ scopes = <<s, r>> /\ agenda = <<Task("param", f, k), e>> /\ e.op = "enddef"
        /\ IsList(s) /\ s # << >> /\ Last(s) = SymbolOf(Current) /\ Exact(Front(s), Current)
        /\ IsList(r) /\ k \in 1 .. Len(Params(f)) + 1
        /\ Names(r) = {Params(f)[i].name : i \in 1 .. k - 1}
        /\ GoodParams(f, k)
  BY <1>1, <1>2, AmongTheParameters
<1>5. /\ Len(Params(f)) \in Nat /\ DOMAIN Params(f) = 1 .. Len(Params(f))
      /\ k \in DOMAIN Params(f)
  BY <1>1, <1>2, <1>3, <1>4, Appended
<1>6. PICK n : n = Params(f)[k].name
  OBVIOUS
<1>7. Clashes(scopes, n) <=> n \in Names(r) \cup BuiltinNames
  <2>1. scopes # << >> /\ Last(scopes) = r
    BY <1>4 DEF Last
  <2> QED  BY <1>4, <2>1, ClashingNames
<1>8. PICK x : x = Symbol(n, "param", ParamAt(f, k))
  OBVIOUS
<1>9. \/ Clashes(scopes, n) /\ scopes' = RemoveFunction(scopes) /\ Fail
      \/ ~Clashes(scopes, n) /\ scopes' = Declare(scopes, x) /\ Then(<<Task("param", f, k + 1)>>)
  BY <1>2, <1>6, <1>8, Zenon DEF Parameter
<1>10. PICK t : t = Task("param", f, k)
  OBVIOUS
<1>11. agenda = <<t, e>> /\ t.op \notin Markers
  BY <1>4, <1>10 DEF Task, Markers
<1>12. CASE Clashes(scopes, n) /\ scopes' = RemoveFunction(scopes) /\ Fail
  <2>1. PICK c \in Declarations : c = Current
    BY <1>3
  <2>2. BadParams(f)
    <3>1. CASE n \in BuiltinNames
      BY <1>5, <1>6, <3>1 DEF BadParams
    <3>2. CASE n \in Names(r)
      <4>1. PICK i \in 1 .. k - 1 : Params(f)[i].name = n
        BY <1>4, <3>2
      <4> QED  BY <1>5, <1>6, <4>1 DEF BadParams
    <3> QED  BY <1>7, <1>12, <3>1, <3>2
  <2>3. ~Fine(c)
    BY <1>3, <2>1, <2>2, CurrentIs
  <2>4. \A d \in Declarations : Before(d, Upcoming) <=> Before(d, c) \/ d = c
    BY <2>1, CurrentIs
  <2>5. PICK z : z = Front(s)
    OBVIOUS
  <2>6. Exact(z, Upcoming)
    BY <1>4, <2>1, <2>3, <2>4, <2>5, Refused
  <2>7. scopes' = <<z>>
    BY <1>4, <1>12, <2>5, TwoScopes
  <2>8. agenda' = <<e>>
    BY <1>4, <1>11, <1>12, TwoTasks DEF Fail
  <2> QED  BY <1>1, <1>3, <1>4, <2>6, <2>7, <2>8, BackOver
<1>13. CASE ~Clashes(scopes, n) /\ scopes' = Declare(scopes, x) /\ Then(<<Task("param", f, k + 1)>>)
  <2>1. PICK q, m : q = Append(r, x) /\ m = k + 1
    OBVIOUS
  <2>2. scopes' = <<s, q>>
    <3>1. Declare(<<s, r>>, x) = <<s, Append(r, x)>>
      BY TwoScopes
    <3> QED  BY <1>4, <1>13, <2>1, <3>1
  <2>3. agenda' = <<Task("param", f, m), e>>
    <3>1. PICK u : u = Task("param", f, m)
      OBVIOUS
    <3>2. <<u>> \o Tail(<<t, e>>) = <<u, e>>
      BY <1>4, <1>11, TwoTasks
    <3>3. agenda' = <<u>> \o Tail(agenda)
      BY <1>13, <2>1, <3>1 DEF Then
    <3> QED  BY <1>11, <3>1, <3>2, <3>3
  <2>4. m \in 1 .. Len(Params(f)) + 1 /\ \A i : i \in 1 .. m - 1 <=> i \in 1 .. k - 1 \/ i = k
    BY <1>5, <2>1
  <2>5. IsList(q) /\ Names(q) = {Params(f)[i].name : i \in 1 .. m - 1}
    <3>1. IsList(q) /\ Names(q) = Names(r) \cup {n}
      <4>1. x.name = n
        BY <1>8 DEF Symbol
      <4>2. IsList(Append(r, x)) /\ Names(Append(r, x)) = Names(r) \cup {x.name}
        BY <1>4, NamesAppended
      <4> QED  BY <2>1, <4>1, <4>2
    <3> QED  BY <1>4, <1>6, <2>4, <3>1
  <2>6. GoodParams(f, m)
    <3>1. n \notin BuiltinNames /\ \A j \in 1 .. k - 1 : Params(f)[j].name # n
      BY <1>4, <1>7, <1>13
    <3> QED  BY <1>4, <1>6, <2>4, <3>1 DEF GoodParams
  <2>7. PICK c : c = Current
    OBVIOUS
  <2>8. Current' = c /\ f = <<ast', pos' - 1>>
    BY <1>1, <1>3, <2>7 DEF Current
  <2>9. InFunction'
    <3>1. /\ c \in Declarations' /\ phase' = 2
          /\ Definition(c)'.name \notin BuiltinNames \cup NamesBefore(c)'
          /\ SymbolOf(c)' = SymbolOf(c) /\ Exact(Front(s), c)' /\ Params(f)' = Params(f) /\ GoodParams(f, m)'
      <4>1. PICK z : z = Front(s)
        OBVIOUS
      <4>2. Exact(z, c)'
        BY <1>1, <1>4, <2>7, <4>1, DeclarationsStay
      <4> QED  BY <1>1, <1>3, <2>6, <2>7, <4>1, <4>2, DeclarationsStay
    <3> QED  BY <1>4, <2>2, <2>3, <2>4, <2>5, <2>7, <2>8, <3>1 DEF InFunction
  <2> QED  BY <1>1, <1>3, <2>9 DEF GlobalInv
<1> QED  BY <1>9, <1>12, <1>13

(* All parameters are declared: so is the function.                         *)
LEMMA DeclarationEndKeepsScope ==
  ASSUME GlobalInv, TreeInv, result = "running", phase \in 1 .. 3, DeclarationEnd
  PROVE  GlobalInv'
<1>1. /\ At("param") /\ node > Len(Params(here)) /\ scopes' = Pop(scopes) /\ Done
      /\ UNCHANGED <<asts, phase, ast, pos, last, result>>
  BY DEF DeclarationEnd, loop
<1>2. PICK f, k : f = here /\ k = node
  OBVIOUS
<1>3. /\ last = Len(asts[ast]) /\ phase = 2 /\ Current \in Declarations
      /\ Definition(Current).name \notin BuiltinNames \cup NamesBefore(Current)
      /\ IsList(Params(f)) /\ f = <<ast, pos - 1>>
  BY <1>1, <1>2, AmongTheParameters
<1>4. PICK s, r, e :
        /\ scopes = <<s, r>> /\ agenda = <<Task("param", f, k), e>> /\ e.op = "enddef"
        /\ IsList(s) /\ s # << >> /\ Last(s) = SymbolOf(Current) /\ Exact(Front(s), Current)
        /\ IsList(r) /\ k \in 1 .. Len(Params(f)) + 1
        /\ Names(r) = {Params(f)[i].name : i \in 1 .. k - 1}
        /\ GoodParams(f, k)
  BY <1>1, <1>2, AmongTheParameters
<1>5. \A i \in DOMAIN Params(f) : i \in 1 .. k - 1
  <2>1. Len(Params(f)) \in Nat /\ DOMAIN Params(f) = 1 .. Len(Params(f))
    BY <1>3, Appended
  <2> QED  BY <1>1, <1>2, <1>4, <2>1
<1>6. ~BadParams(f)
  BY <1>4, <1>5 DEF GoodParams, BadParams
<1>7. PICK c \in Declarations : c = Current
  BY <1>3
<1>8. Fine(c) /\ Definition(c).name \notin NamesBefore(c)
  BY <1>3, <1>6, <1>7, CurrentIs
<1>9. \A d \in Declarations : Before(d, Upcoming) <=> Before(d, c) \/ d = c
  BY <1>7, CurrentIs
<1>10. Exact(s, Upcoming)
  <2>1. PICK z : z = Front(s)
    OBVIOUS
  <2>2. Exact(Append(z, SymbolOf(c)), Upcoming)
    BY <1>4, <1>7, <1>8, <1>9, <2>1, Accepted
  <2>3. Append(z, SymbolOf(c)) = s
    BY <1>4, <1>7, <2>1, FrontAndLast
  <2> QED  BY <2>2, <2>3
<1>11. scopes' = <<s>>
  BY <1>1, <1>4, TwoScopes
<1>12. agenda' = <<e>>
  <2>1. PICK t : t = Task("param", f, k)
    OBVIOUS
  <2>2. agenda = <<t, e>> /\ t.op \notin Markers
    BY <1>4, <2>1 DEF Task, Markers
  <2> QED  BY <1>1, <1>4, <2>2, TwoTasks DEF Done, Then
<1> QED  BY <1>1, <1>3, <1>4, <1>10, <1>11, <1>12, BackOver

-----------------------------------------------------------------------------
(* From declaration to declaration                                          *)

(* The loops come to the next declaration, or to a definition that is none. *)
LEMMA VisitKeepsScope ==
  ASSUME GlobalInv, AnalyseInv, TreeInv, VisitDefinition
  PROVE  GlobalInv'
<1>1. /\ result = "running" /\ agenda = << >> /\ phase > 0 /\ pos <= last /\ pos' = pos + 1
      /\ UNCHANGED <<asts, phase, ast, last, result, scopes>>
  BY DEF VisitDefinition, Idle, tree
<1>2. pos \in Nat /\ pos > 0
  BY DEF TreeInv
<1>3. CASE phase > 3
  BY <1>1, <1>2, <1>3 DEF GlobalInv
<1>4. CASE phase \in 1 .. 3
  <2>1. last = Len(asts[ast]) /\ Over
    <3>1. ~Beginning /\ ~InFunction
      BY <1>1 DEF Beginning, InFunction
    <3> QED  BY <1>1, <1>4, <3>1 DEF GlobalInv
  <2>2. PICK s : scopes = <<s>> /\ Exact(s, Upcoming)
    BY <2>1 DEF Over
  <2>3. PICK c : c = <<phase, ast, pos>>
    OBVIOUS
  <2>4. Current' = c
    BY <1>1, <1>2, <2>3 DEF Current
  <2>5. PICK def : def = asts[ast][pos]
    OBVIOUS
  <2>6. ast \in DOMAIN asts /\ ast \in Nat /\ pos \in DOMAIN asts[ast]
    <3>1. ast \in DOMAIN asts
      BY <1>1, Trees
    <3>2. IsList(asts) /\ IsList(asts[ast])
      BY <3>1 DEF TreeInv
    <3> QED  BY <1>1, <1>2, <2>1, <3>1, <3>2, Appended
  <2>7. \/ agenda' = << >> /\ def.def # Kinds[phase]
        \/ /\ def.def = Kinds[phase]
           /\ agenda' = <<Task(Handlers[phase], <<ast, pos>>, def), Task("enddef", <<ast, pos>>, NoNode)>>
    BY <2>5 DEF VisitDefinition
  <2>8. c \in Declarations <=> def.def = Kinds[phase]
    <3>1. ASSUME c \in Declarations PROVE def.def = Kinds[phase]
      <4>1. PICK p \in 1 .. 3, a \in Nat, i \in Nat : c = <<p, a, i>> /\ asts[a][i].def = Kinds[p]
        BY <3>1, DeclarationsAre
      <4>2. p = phase /\ a = ast /\ i = pos
        BY <2>3, <4>1
      <4> QED  BY <2>5, <4>1, <4>2
    <3>2. ASSUME def.def = Kinds[phase] PROVE c \in Declarations
      <4>1. \E p \in 1 .. 3, a \in Nat, i \in Nat :
              /\ c = <<p, a, i>> /\ a \in DOMAIN asts /\ i \in DOMAIN asts[a]
              /\ asts[a][i].def = Kinds[p]
        BY <1>2, <1>4, <2>3, <2>5, <2>6, <3>2
      <4> QED  BY <4>1, DeclarationsAre
    <3> QED  BY <3>1, <3>2
  <2>9. CASE agenda' = << >> /\ def.def # Kinds[phase]
    <3>1. ASSUME NEW d \in Declarations PROVE Before(d, <<phase, ast, pos + 1>>) <=> Before(d, <<phase, ast, pos>>)
      <4>1. Before(d, <<phase, ast, pos + 1>>) <=> Before(d, <<phase, ast, pos>>) \/ d = <<phase, ast, pos>>
        BY <1>2, <1>4, <2>6, BeforeNext
      <4>2. d # <<phase, ast, pos>>
        BY <2>3, <2>8, <2>9
      <4> QED  BY <4>1, <4>2
    <3>2. Exact(s, <<phase, ast, pos>>)
      BY <2>2 DEF Upcoming
    <3>3. Exact(s, <<phase, ast, pos + 1>>)
      BY <3>1, <3>2, ExactAgain
    <3>4. Upcoming' = <<phase, ast, pos + 1>>
      BY <1>1 DEF Upcoming
    <3>5. PICK x : x = <<phase, ast, pos + 1>>
      OBVIOUS
    <3>6. Exact(s, x)'
      BY <1>1, <3>3, <3>5, DeclarationsStay
    <3>7. Over'
      BY <1>1, <2>2, <2>9, <3>4, <3>5, <3>6 DEF Over
    <3> QED  BY <1>1, <1>4, <2>1, <3>7 DEF GlobalInv
  <2>10. CASE /\ def.def = Kinds[phase]
              /\ agenda' = <<Task(Handlers[phase], <<ast, pos>>, def), Task("enddef", <<ast, pos>>, NoNode)>>
    <3>1. c \in Declarations' /\ Definition(c)' = def
      <4>1. Definition(c) = def
        BY <2>3, <2>5 DEF Definition
      <4> QED  BY <1>1, <2>8, <2>10, <4>1, DeclarationsStay
    <3>2. Exact(s, c)'
      <4>1. Exact(s, c)
        BY <2>2, <2>3 DEF Upcoming
      <4> QED  BY <1>1, <4>1, DeclarationsStay
    <3>3. Task("enddef", <<ast, pos>>, NoNode).op = "enddef"
      BY DEF Task
    <3>4. \E e : e.op = "enddef" /\ agenda' = <<Task(Handlers[phase'], <<ast', pos' - 1>>, def), e>>
      <4>1. PICK e : e = Task("enddef", <<ast, pos>>, NoNode)
        OBVIOUS
      <4>2. pos' - 1 = pos
        BY <1>1, <1>2
      <4> QED  BY <1>1, <2>10, <3>3, <4>1, <4>2
    <3>5. Beginning'
      BY <1>1, <2>2, <2>4, <3>1, <3>2, <3>4 DEF Beginning
    <3> QED  BY <1>1, <1>4, <2>1, <3>5 DEF GlobalInv
  <2> QED  BY <2>7, <2>9, <2>10
<1> QED  BY <1>1, <1>3, <1>4, Trees

(* A declaration ends, whether it was refused or not.                       *)
LEMMA DefinitionEndKeepsScope ==
  ASSUME GlobalInv, TreeInv, phase \in 1 .. 5, DefinitionEnd
  PROVE  GlobalInv'
<1>1. /\ result = "running" /\ agenda # << >> /\ agenda[1].op = "enddef" /\ agenda' = << >> \o Tail(agenda)
      /\ UNCHANGED <<asts, phase, ast, pos, last, result, scopes>>
  BY DEF DefinitionEnd, At, Done, Then, tree
<1>2. CASE phase > 3
  BY <1>1, <1>2 DEF GlobalInv
<1>3. CASE phase \in 1 .. 3
  <2>1. last = Len(asts[ast]) /\ Over
    BY <1>1, <1>3, TaskOfDeclaration
  <2>2. PICK s, e : scopes = <<s>> /\ Exact(s, Upcoming) /\ e.op = "enddef" /\ agenda = <<e>>
    BY <1>1, <2>1 DEF Over
  <2>3. agenda' = << >>
    <3>1. Tail(<<e>>) = << >>
      BY TwoElements
    <3>2. << >> \o << >> = << >>
      BY ShortLists, JoinedToNothing
    <3> QED  BY <1>1, <2>2, <3>1, <3>2
  <2> QED  BY <1>1, <1>3, <2>1, <2>2, <2>3, BackOver
<1> QED  BY <1>2, <1>3

(* The loops go on to the next AST, or to the next loop.                    *)
LEMMA LoopsKeepScope ==
  ASSUME GlobalInv, AnalyseInv, CalleeInv, Start \/ NextAst \/ NextPhase
  PROVE  GlobalInv'
<1>1. result = "running" /\ agenda = << >>
  BY DEF Start, NextAst, NextPhase, Idle
<1>2. TreeInv
  BY <1>1 DEF CalleeInv
<1>3. /\ phase \in 0 .. 5 /\ Len(astState) \in Nat /\ Len(astState) > 0 /\ Len(asts) = Len(astState)
      /\ DOMAIN asts = 1 .. Len(astState) /\ (phase > 0 => ast \in DOMAIN asts)
  BY <1>2, Trees DEF TreeInv
<1>4. PICK p \in 1 .. 5, a \in DOMAIN asts :
        /\ Enter(p, a)
        /\ \/ phase = 0 /\ p = 1 /\ a = 1 /\ scopes' = Push(scopes)
           \/ phase > 0 /\ p = phase /\ a = ast + 1 /\ pos > last /\ scopes' = scopes
           \/ phase > 0 /\ p = phase + 1 /\ a = 1 /\ ast = Len(asts) /\ pos > last /\ scopes' = scopes
  <2>1. CASE Start
    <3>1. 1 \in DOMAIN asts
      BY <1>3
    <3> QED  BY <2>1, <3>1 DEF Start
  <2>2. CASE NextAst
    <3>1. phase > 0 /\ pos > last /\ ast < Len(astState) /\ Enter(phase, ast + 1) /\ scopes' = scopes
      BY <2>2 DEF NextAst, targetAstCount
    <3>2. ast + 1 \in DOMAIN asts /\ phase \in 1 .. 5
      BY <1>3, <3>1
    <3> QED  BY <3>1, <3>2
  <2>3. CASE NextPhase
    <3>1. phase \in 1 .. 4 /\ pos > last /\ ast = Len(astState) /\ Enter(phase + 1, 1) /\ scopes' = scopes
      BY <2>3 DEF NextPhase, targetAstCount
    <3>2. 1 \in DOMAIN asts /\ phase + 1 \in 1 .. 5 /\ phase > 0
      BY <1>3, <3>1
    <3> QED  BY <1>3, <3>1, <3>2
  <2> QED  BY <2>1, <2>2, <2>3
<1>5. /\ UNCHANGED <<asts, agenda, result>> /\ phase' = p /\ ast' = a /\ pos' = 1 /\ last' = Len(asts[a])
  BY <1>4 DEF Enter, tree
<1>6. Upcoming' = <<p, a, 1>>
  BY <1>5 DEF Upcoming
<1>7. SUFFICES ASSUME p \in 1 .. 3 \/ (p = 4 /\ a = 1) PROVE \E s : scopes' = <<s>> /\ Exact(s, <<p, a, 1>>)
  <2>1. CASE p \in 1 .. 3 \/ (p = 4 /\ a = 1)
    <3>1. PICK s : scopes' = <<s>> /\ Exact(s, <<p, a, 1>>)
      BY <1>7, <2>1
    <3>2. PICK x : x = <<p, a, 1>>
      OBVIOUS
    <3>3. Exact(s, x)'
      BY <1>5, <3>1, <3>2, DeclarationsStay
    <3>4. scopes' = <<s>> /\ Exact(s, Upcoming)'
      BY <1>6, <3>1, <3>2, <3>3
    <3>5. Over'
      BY <1>1, <1>5, <3>4 DEF Over
    <3> QED  BY <1>1, <1>5, <2>1, <3>4, <3>5 DEF GlobalInv
  <2>2. CASE ~(p \in 1 .. 3 \/ (p = 4 /\ a = 1))
    BY <1>5, <2>2 DEF GlobalInv
  <2> QED  BY <2>1, <2>2
<1>8. CASE phase = 0
  <2>1. scopes' = <<<< >>>> /\ p = 1 /\ a = 1
    <3>1. scopes = << >>
      BY <1>1, <1>8 DEF CalleeInv
    <3> QED  BY <1>4, <1>8, <3>1 DEF Push
  <2>2. \A c \in Declarations : ~Before(c, <<1, 1, 1>>)
    <3> SUFFICES ASSUME NEW c \in Declarations PROVE ~Before(c, <<1, 1, 1>>)
      OBVIOUS
    <3>1. PICK q \in 1 .. 3, b \in Nat, j \in Nat : c = <<q, b, j>> /\ b \in DOMAIN asts /\ j \in DOMAIN asts[b]
      BY <1>2, DeclarationsAre
    <3>2. IsList(asts[b])
      BY <1>2, <3>1 DEF TreeInv
    <3>3. b >= 1 /\ j >= 1
      BY <1>3, <3>1, <3>2, Appended
    <3> QED  BY <3>1, <3>3 DEF Before
  <2>3. FirstBefore(<<1, 1, 1>>) = {} /\ NamesBefore(<<1, 1, 1>>) = {}
    BY <2>2 DEF FirstBefore, NamesBefore
  <2>4. Exact(<< >>, <<1, 1, 1>>)
    BY <2>3, NoNames DEF Exact
  <2> QED  BY <2>1, <2>4
<1>9. CASE phase > 0
  <2>1. phase \in 1 .. 3
    BY <1>3, <1>4, <1>7, <1>9
  <2>2. last = Len(asts[ast]) /\ Over
    <3>1. ~Beginning /\ ~InFunction
      BY <1>1 DEF Beginning, InFunction
    <3> QED  BY <1>1, <2>1, <3>1 DEF GlobalInv
  <2>3. PICK s : scopes = <<s>> /\ Exact(s, Upcoming)
    BY <2>2 DEF Over
  <2>4. \A c \in Declarations : Before(c, Upcoming) <=> Before(c, <<p, a, 1>>)
    <3> SUFFICES ASSUME NEW c \in Declarations PROVE Before(c, Upcoming) <=> Before(c, <<p, a, 1>>)
      OBVIOUS
    <3>1. pos \in Nat /\ pos > Len(asts[ast]) /\ ast \in DOMAIN asts /\ phase \in Nat
      BY <1>2, <1>3, <1>4, <1>9, <2>1, <2>2 DEF TreeInv
    <3>2. /\ Before(c, <<phase, ast + 1, 1>>) <=> Before(c, <<phase, ast, pos>>)
          /\ ast = Len(asts) => (Before(c, <<phase + 1, 1, 1>>) <=> Before(c, <<phase, ast, pos>>))
      BY <1>2, <3>1, BeforeNextAst
    <3> QED  BY <1>4, <1>9, <3>2 DEF Upcoming
  <2>5. Exact(s, <<p, a, 1>>)
    BY <2>3, <2>4, ExactAgain
  <2> QED  BY <1>4, <1>9, <2>3, <2>5
<1> QED  BY <1>3, <1>8, <1>9

(* Every step keeps the global scope exact.                                 *)
LEMMA NextKeepsScope == AnalyseInv /\ CalleeInv /\ GlobalInv /\ [Next]_vars => GlobalInv'
<1> SUFFICES ASSUME AnalyseInv, CalleeInv, GlobalInv, [Next]_vars, result' = "running" PROVE GlobalInv'
  BY DEF GlobalInv
<1>1. CASE UNCHANGED vars
  <2>1. UNCHANGED <<asts, phase, ast, pos, last, result, scopes, agenda>>
    BY <1>1 DEF vars, tree, loop
  <2>2. Upcoming' = Upcoming /\ Current' = Current
    BY <2>1 DEF Upcoming, Current
  <2>3. /\ Declarations' = Declarations
        /\ \A c : Definition(c)' = Definition(c) /\ SymbolOf(c)' = SymbolOf(c)
        /\ \A x : NamesBefore(x)' = NamesBefore(x)
        /\ \A s, x : Exact(s, x) => Exact(s, x)'
        /\ \A f : Params(f)' = Params(f)
        /\ \A f, k : GoodParams(f, k) => GoodParams(f, k)'
    BY <2>1, DeclarationsStay
  <2>4. PICK x, y : x = Upcoming /\ y = Current
    OBVIOUS
  <2>5. \A s : (Exact(s, Upcoming) => Exact(s, Upcoming)') /\ (Exact(s, Current) => Exact(s, Current)')
    BY <2>2, <2>3, <2>4
  <2>6. /\ Current \in Declarations => (Current \in Declarations)'
        /\ Definition(Current)' = Definition(Current) /\ SymbolOf(Current)' = SymbolOf(Current)
        /\ NamesBefore(Current)' = NamesBefore(Current)
    BY <2>2, <2>3, <2>4
  <2>7. Over => Over'
    BY <2>1, <2>5 DEF Over
  <2>8. Beginning => Beginning'
    BY <2>1, <2>5, <2>6 DEF Beginning
  <2>9. InFunction => InFunction'
    BY <2>1, <2>3, <2>5, <2>6, ZenonT(40) DEF InFunction
  <2> QED  BY <2>1, <2>5, <2>7, <2>8, <2>9 DEF GlobalInv
<1>2. CASE Step
  <2>1. result = "running" /\ agenda # << >> /\ UNCHANGED <<phase, ast, pos>>
    BY <1>2, StepsKeepTheLoop DEF loop
  <2>2. TreeInv /\ phase \in 0 .. 5 /\ phase # 0
    <3>1. TreeInv /\ phase # 0
      BY <2>1 DEF CalleeInv
    <3> QED  BY <3>1, Trees
  <2>3. CASE phase \in 1 .. 3
    <3>1. agenda[1].op \in {"typedecl", "funcdecl", "vardef", "param", "enddef"}
      BY <2>1, <2>3, TaskOfDeclaration
    <3>2. TypeDeclaration \/ FunctionDeclaration \/ Parameter \/ DeclarationEnd \/ VarDefinition
      BY <1>2, <3>1, DeclaringSteps
    <3> QED  BY <2>1, <2>2, <2>3, <3>2, DeclarationKeepsScope, FunctionKeepsScope, ParameterKeepsScope,
                DeclarationEndKeepsScope
  <2>4. CASE phase > 3
    BY <2>1, <2>4 DEF GlobalInv
  <2> QED  BY <2>2, <2>3, <2>4
<1>3. CASE VisitDefinition
  <2>1. TreeInv
    BY <1>3 DEF VisitDefinition, Idle, CalleeInv
  <2> QED  BY <1>3, <2>1, VisitKeepsScope
<1>4. CASE DefinitionEnd
  <2>1. TreeInv /\ phase # 0
    BY <1>4 DEF DefinitionEnd, At, CalleeInv
  <2>2. phase \in 1 .. 5
    BY <2>1, Trees
  <2> QED  BY <1>4, <2>1, <2>2, DefinitionEndKeepsScope
<1>5. CASE Finish \/ OutOfMemory \/ LateOutOfMemory \/ UndefinedBehaviour
  BY <1>5 DEF Finish, OutOfMemory, LateOutOfMemory, UndefinedBehaviour, Crash
<1>6. CASE Spin \/ Returned
  BY <1>1, <1>6 DEF Spin, Returned
<1> QED  BY <1>1, <1>2, <1>3, <1>4, <1>5, <1>6, LoopsKeepScope DEF Next

\* For every set of programs, the loops of declarations leave in the global scope
\* the first acceptable declaration of each name and nothing else, whatever
\* clashed with it, also a function that went out again at a parameter.
THEOREM GlobalScopeAsDeclared == Spec => []GlobalScopeExact
<1>1. Init => AnalyseInv /\ CalleeInv /\ GlobalInv
  <2>1. Init => GlobalInv
    BY DEF Init, GlobalInv
  <2> QED  BY <2>1, InitEstablishes, InitKnowsTypes
<1>2. AnalyseInv /\ CalleeInv /\ GlobalInv /\ [Next]_vars => AnalyseInv' /\ CalleeInv' /\ GlobalInv'
  BY NextKeepsTheInvariant, NextKeepsCallees, NextKeepsScope
<1>3. CalleeInv /\ GlobalInv => GlobalScopeExact
  <2> SUFFICES ASSUME CalleeInv, GlobalInv, Idle, phase = 4, ast = 1, pos = 1
               PROVE  {scopes[1][i] : i \in DOMAIN scopes[1]} = GlobalSymbols
    BY DEF GlobalScopeExact
  <2>1. TreeInv
    BY DEF CalleeInv, Idle
  <2>2. PICK s : scopes = <<s>> /\ Exact(s, Upcoming)
    BY DEF GlobalInv, Idle
  <2>3. \A c \in Declarations : Before(c, <<4, 1, 1>>)
    BY <2>1, DeclarationsAre DEF Before
  <2>4. FirstBefore(Upcoming) = GlobalSymbols
    BY <2>3 DEF FirstBefore, GlobalSymbols, Upcoming
  <2> QED  BY <2>2, <2>4 DEF Exact, Symbols
<1> QED  BY <1>1, <1>2, <1>3, PTL DEF Spec
=============================================================================
