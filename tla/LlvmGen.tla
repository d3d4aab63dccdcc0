------------------------------- MODULE LlvmGen -------------------------------
(***************************************************************************)
(* Mon_GenerateLLVM of src/src/libmonga/codegen: a module, annotated by the *)
(* semantic analysis, becomes LLVM assembly.                               *)
(*                                                                         *)
(* As in Sem the stack of the recursive C functions is the agenda, whose    *)
(* head is the next piece of a function to run, and vals holds the          *)
(* LlvmValues that finished calls returned.  A function's text is a         *)
(* sequence of lines                                                       *)
(*   [op, dst, args, info]                                                 *)
(* with the result of an instruction in dst and its operands in args.       *)
(*                                                                         *)
(* A module is a sequence of definitions                                   *)
(*   [def: "var", name, type]                                              *)
(*   [def: "func", name, ret, params, body, entry]   body may be NULL       *)
(* An expression carries its semantic.type, a block its allPathsExit.       *)
(***************************************************************************)
EXTENDS Types, Lists, SequencesExt

CONSTANTS
  Modules,    \* the modules to compile
  TypeTable   \* their types, which include the built-in ones

ASSUME BuiltinsAreTypes ==
  \A t \in DOMAIN BuiltinTypes : t \in DOMAIN TypeTable /\ TypeTable[t] = BuiltinTypes[t]

\* The definitions of a module, and the parameters of a function, are lists.
ASSUME ModulesAreLists ==
  \A m \in Modules :
    /\ IsList(m)
    /\ \A i \in DOMAIN m : m[i].def = "func" => IsList(m[i].params)

\* No module holds two functions that have a body and the same name: the
\* analysis has refused the second.
ASSUME BodiesAreUnique ==
  \A m \in Modules : \A i, j \in DOMAIN m :
    /\ m[i].def = "func" /\ m[j].def = "func" /\ m[i].name = m[j].name
    /\ m[i].body # NULL /\ m[j].body # NULL
    => i = j

VARIABLES
  module,       \* the definitions of targetAst
  pos,          \* the definition being compiled, 0 before the first
  agenda, vals,
  always,       \* what CompileStatement returned: no statement may follow
  loops,        \* enclosingLoopEndLabel and enclosingLoopCheckLabel
  locals,       \* blockCtx.locals
  nextLocalId, nextLabel,
  code,         \* the lines of the current function
  output,       \* the finished functions, by name
  dependencies, \* functionDependencies
  strings,      \* stringLiterals
  refs,         \* the literals printed so far, with the index printed for each
  result        \* "running" or how the call ended

tables == <<dependencies, strings, refs>>
vars == <<module, pos, agenda, vals, always, loops, locals, nextLocalId, nextLabel, code,
          output, tables, result>>

-----------------------------------------------------------------------------
(* Types                                                                   *)

Underlying(t) == GetUnderlyingType(TypeTable, t)
IsFloat(t) == IsFloatingPointType(TypeTable, t)
IsInteger(t) == IsIntegerType(TypeTable, t)
IsRef(t) == IsRefType(TypeTable, t)
IsChars(t) ==
  LET u == Underlying(t)
  IN  IsArray(TypeTable, u) /\ Underlying(TypeTable[u].inner[TypeTable[u].dims]) = tChar

\* Mon_GetPrimitiveSize, where a pointer has eight bytes
PrimitiveSize(t) ==
  LET kind == TypeTable[Underlying(t)].code
  IN  CASE kind = "void" -> 0
        [] kind \in {"char", "byte"} -> 1
        [] kind = "short" -> 2
        [] kind \in {"int", "float"} -> 4
        [] kind \in {"long", "double", "intptr"} -> 8

\* TypeToTypeRef: a name and the number of stars after it.  An array is a
\* pointer to its element type, which may be an array again.
TypeRef(t) ==
  LET Peel(p) == IF IsArray(TypeTable, p[1])
                 THEN <<Underlying(TypeTable[p[1]].inner[TypeTable[p[1]].dims]), p[2] + 1>>
                 ELSE p
      peeled[n \in 0 .. Cardinality(DOMAIN TypeTable)] ==
        IF n = 0 THEN <<Underlying(t), 0>> ELSE Peel(peeled[n - 1])
      base == peeled[Cardinality(DOMAIN TypeTable)][1]
      stars == peeled[Cardinality(DOMAIN TypeTable)][2]
  IN  CASE IsRef(base) -> <<TypeTable[base].name, stars + 1>>
        [] IsFloat(base) /\ ~IsRef(base) -> <<IF PrimitiveSize(base) = 4 THEN "float" ELSE "double", stars>>
        [] OTHER -> <<(0 :> "void" @@ 1 :> "i8" @@ 2 :> "i16" @@ 4 :> "i32" @@ 8 :> "i64")[PrimitiveSize(base)],
                      stars>>

BytePtr == <<"i8", 1>>

-----------------------------------------------------------------------------
(* Values and lines                                                        *)

ValLocal(id) == <<"t", id>>
ValSSA(i) == <<"ssa", i>>
ValNamedGlobal(name) == <<"g", name>>
ValLiteral(text) == <<"lit", text>>
ValString(s) == <<"str", s>>
ValNull == <<"null">>
Nowhere == <<"t", -1>>    \* ValLocal(-1)
Unset == <<"unset">>      \* an LlvmValue nobody has assigned

Line(op, dst, args, info) == [op |-> op, dst |-> dst, args |-> args, info |-> info]
Label(n) == Line("label", Nowhere, << >>, <<n>>)
Branch(n) == Line("br", Nowhere, << >>, <<n>>)
Store(addr, v) == Line("store", Nowhere, <<addr, v>>, << >>)
CallStmt(name, args) == Line("call", Nowhere, args, <<name>>)

GetDefaultValue(t) ==
  CASE IsFloat(t) -> ValLiteral("0.0")
    [] ~IsFloat(t) /\ ~IsRef(t) -> ValLiteral("0")
    [] OTHER -> ValNull

\* Mutant of AddOrGetStringLiteralId: every literal gets the first index.
FirstStringLiteralId(table, s) == 0

\* A literal that is found again gets the index after its own.
AddOrGetStringLiteralId(table, s) ==
  IF \E i \in DOMAIN table : table[i] = s
  THEN CHOOSE i \in DOMAIN table : table[i] = s /\ \A j \in 1 .. i - 1 : table[j] # s
  ELSE Len(table)

\* LlvmEmitValue enters a string literal in the table.
Entered(t, v) ==
  IF v[1] # "str" THEN t
  ELSE [table |-> IF v[2] \in ToSet(t.table) THEN t.table ELSE Append(t.table, v[2]),
        refs |-> Append(t.refs, <<v[2], AddOrGetStringLiteralId(t.table, v[2])>>)]

\* The operands of a line, from the first to the last
EnteredAll(t, args) ==
  LET after[n \in 0 .. Len(args)] == IF n = 0 THEN t ELSE Entered(after[n - 1], args[n])
  IN  after[Len(args)]

\* The lines are printed, one after the other.
Emit(lines) ==
  LET after[n \in 0 .. Len(lines)] ==
        IF n = 0 THEN [table |-> strings, refs |-> refs] ELSE EnteredAll(after[n - 1], lines[n].args)
  IN  /\ code' = code \o lines
      /\ strings' = after[Len(lines)].table
      /\ refs' = after[Len(lines)].refs

-----------------------------------------------------------------------------
(* The agenda                                                              *)

Task(op, content) == [op |-> op, node |-> content]
At(op) == result = "running" /\ agenda # << >> /\ agenda[1].op = op
node == agenda[1].node
Then(tasks) == agenda' = tasks \o Tail(agenda)
Done == Then(<< >>)

Lines(lines) == Task("emit", lines)
Exp(e, target) == Task("exp", [exp |-> e, target |-> target])
Cond(c, t, f) == Task("cond", [cond |-> c, ifTrue |-> t, ifFalse |-> f])

\* The last n values, and the ones before them
Top(n) == [i \in 1 .. n |-> vals[Len(vals) - n + i]]
Without(n) == [i \in 1 .. Len(vals) - n |-> vals[i]]
Replace(n, v) == vals' = Append(Without(n), v)
Drop(n) == vals' = Without(n)

\* The head task prints one instruction over the last n values, whose result
\* takes their place.
Instruction(n, op, args, info) ==
  /\ Emit(<<Line(op, ValLocal(nextLocalId), args, info)>>)
  /\ nextLocalId' = nextLocalId + 1
  /\ Replace(n, ValLocal(nextLocalId))
  /\ Done

\* What the pieces of a function body may leave alone
Outside == <<module, pos, output, result>>
Frame == <<Outside, dependencies>>

EmitLines ==
  /\ At("emit")
  /\ Emit(node)
  /\ Done
  /\ UNCHANGED <<Frame, vals, always, loops, locals, nextLocalId, nextLabel>>

-----------------------------------------------------------------------------
(* Conditions                                                              *)

\* Mutant of Targets: only comparisons are negated.
TargetsOfComparison(c, t, f) == IF c.negate /\ c.kind = "compare" THEN <<f, t>> ELSE <<t, f>>

\* Where a condition goes when it holds and when it does not
Targets(c, t, f) == IF c.negate THEN <<f, t>> ELSE <<t, f>>

\* CompileCondition and CompileBinCond
CompileCondition ==
  /\ At("cond")
  /\ LET c == node.cond
         targets == Targets(c, node.ifTrue, node.ifFalse)
     IN  \/ /\ c.kind = "and"
            /\ Then(<<Cond(c.left, nextLabel, targets[2]), Lines(<<Label(nextLabel)>>),
                      Cond(c.right, targets[1], targets[2])>>)
            /\ nextLabel' = nextLabel + 1
         \/ /\ c.kind = "or"
            /\ Then(<<Cond(c.left, targets[1], nextLabel), Lines(<<Label(nextLabel)>>),
                      Cond(c.right, targets[1], targets[2])>>)
            /\ nextLabel' = nextLabel + 1
         \/ /\ c.kind = "compare"
            /\ Then(<<Exp(c.left, c.left.type), Exp(c.right, c.left.type),
                      Task("compare", [op |-> c.op, type |-> c.left.type, to |-> targets])>>)
            /\ UNCHANGED nextLabel
  /\ UNCHANGED <<Frame, vals, always, loops, locals, nextLocalId, code, strings, refs>>

\* The end of CompileComparison: the comparison that fits the left type
CompileComparison ==
  /\ At("compare")
  /\ LET how == IF IsFloat(node.type) /\ ~IsInteger(node.type) THEN "fcmp" ELSE "icmp"
     IN  Emit(<<Line("cmp", ValLocal(nextLocalId), Top(2), <<how, node.op, TypeRef(node.type)>>),
                Line("condbr", Nowhere, <<ValLocal(nextLocalId)>>, node.to)>>)
  /\ nextLocalId' = nextLocalId + 1
  /\ Drop(2)
  /\ Done
  /\ UNCHANGED <<Frame, always, loops, locals, nextLabel>>

-----------------------------------------------------------------------------
(* Expressions                                                             *)

Convert(e, target) == Task("convert", <<e.type, target>>)

\* CompileExp: the parts, the task that joins them, the conversion.
CompileExp ==
  /\ At("exp")
  /\ LET e == node.exp
         Parts(tasks) == Then(tasks \o <<Convert(e, node.target)>>) /\ UNCHANGED <<vals, nextLabel>>
         Value(v) == Then(<<Convert(e, node.target)>>) /\ vals' = Append(vals, v) /\ UNCHANGED nextLabel
     IN  \/ e.kind = "lit" /\ Value(ValLiteral(e.text))
         \/ e.kind = "str" /\ Value(ValString(e.text))
         \/ e.kind = "null" /\ Value(Unset)
         \/ e.kind = "unop" /\ Parts(<<Exp(e.of, e.of.type), Task("unop", [op |-> e.op, type |-> e.of.type])>>)
         \/ e.kind = "binop" /\ Parts(<<Exp(e.left, e.type), Exp(e.right, e.type),
                                        Task("binop", [op |-> e.op, type |-> e.type])>>)
         \/ e.kind = "cast" /\ Parts(<<Exp(e.of, e.type)>>)
         \/ e.kind = "var" /\ Parts(<<Task("var", e.var), Task("load", e.type)>>)
         \/ e.kind = "call" /\ Parts(<<Task("call", e.call)>>)
         \* CompileNew, whose value is returned as it is
         \/ /\ e.kind = "new"
            /\ Then(<<Task("alloc", e.type)>>)
            /\ vals' = Append(vals, ValLiteral("size"))
            /\ UNCHANGED nextLabel
         \/ /\ e.kind = "newarr"
            /\ Then(<<Exp(e.size, tIntPtr), Task("scale", e.type), Task("alloc", e.type)>>)
            /\ UNCHANGED <<vals, nextLabel>>
         \/ /\ e.kind = "condexp"
            /\ LET ifTrue == nextLabel
                   ifFalse == nextLabel + 1
                   end == nextLabel + 2
               IN  Then(<<Cond(e.cond, ifTrue, ifFalse),
                          Lines(<<Label(ifTrue)>>), Exp(e.left, e.type), Task("armend", end),
                          Lines(<<Label(ifFalse)>>), Exp(e.right, e.type), Task("armend", end),
                          Lines(<<Label(end)>>), Task("phi", e.type), Convert(e, node.target)>>)
            /\ nextLabel' = nextLabel + 3
            /\ UNCHANGED vals
  /\ UNCHANGED <<Frame, always, loops, locals, nextLocalId, code, strings, refs>>

\* An arm of a conditional ends in a block of its own, whatever blocks its
\* expression needed, for the phi to name.
CompileArmEnd ==
  /\ At("armend")
  /\ Emit(<<Branch(nextLabel), Label(nextLabel), Branch(node)>>)
  /\ vals' = Append(vals, <<"label", nextLabel>>)
  /\ nextLabel' = nextLabel + 1
  /\ Done
  /\ UNCHANGED <<Frame, always, loops, locals, nextLocalId>>

\* The instruction that joins the parts.  A negation takes a local number it
\* does not use; the length and the complement leave the value unset.
CompileOperation ==
  /\ \/ /\ At("phi")
        /\ Instruction(4, "phi", <<Top(4)[1], Top(4)[3]>>, <<Top(4)[2][2], Top(4)[4][2]>>)
     \/ /\ At("load")
        /\ Instruction(1, "load", Top(1), << >>)
     \/ /\ At("binop") /\ (IsFloat(node.type) \/ IsInteger(node.type))
        /\ Instruction(2, "bin", Top(2), <<IF IsFloat(node.type) THEN "f" ELSE "i", node.op, TypeRef(node.type)>>)
     \/ /\ At("scale")
        /\ Instruction(1, "bin", <<Top(1)[1], ValLiteral("size")>>, <<"i", "mul", TypeRef(tIntPtr)>>)
     \/ /\ At("unop") /\ node.op = "neg"
        /\ Emit(<<Line("bin", ValLocal(nextLocalId + 1), <<ValLiteral("0"), Top(1)[1]>>,
                       <<"i", "sub", TypeRef(node.type)>>)>>)
        /\ nextLocalId' = nextLocalId + 2
        /\ Replace(1, ValLocal(nextLocalId + 1))
        /\ Done
     \/ /\ \/ At("unop") /\ node.op \in {"len", "bitnot"}
           \/ At("binop") /\ ~IsFloat(node.type) /\ ~IsInteger(node.type)
        /\ Replace(IF At("unop") THEN 1 ELSE 2, Nowhere)
        /\ Done
        /\ UNCHANGED <<code, strings, refs, nextLocalId>>
     \/ /\ At("alloc")
        /\ Emit(<<Line("call", ValLocal(nextLocalId), Top(1), <<"GcAlloc">>),
                  Line("bitcast", ValLocal(nextLocalId + 1), <<ValLocal(nextLocalId)>>, <<BytePtr, TypeRef(node)>>)>>)
        /\ nextLocalId' = nextLocalId + 2
        /\ Replace(1, ValLocal(nextLocalId + 1))
        /\ Done
  /\ UNCHANGED <<Frame, always, loops, locals, nextLabel>>

\* The instruction CompileConversion chooses between two primitive types.  A
\* float that becomes an integer reaches the end of the function.
NumericConversion(from, to) ==
  LET int == IF from = tChar /\ ~IsFloat(to) THEN tByte ELSE from   \* as which a char is converted again
  IN  CASE IsInteger(int) /\ ~IsInteger(to) -> "sitofp"
        [] IsFloat(from) /\ IsFloat(to) ->
             IF PrimitiveSize(from) < PrimitiveSize(to) THEN "fpext" ELSE "fptrunc"
        [] IsInteger(int) /\ IsInteger(to) ->
             IF PrimitiveSize(from) = PrimitiveSize(to) THEN "same"
             ELSE IF PrimitiveSize(from) < PrimitiveSize(to) THEN "sext" ELSE "trunc"
        [] OTHER -> "unreachable"

\* CompileConversion, on the last value
CompileConversion ==
  /\ At("convert")
  /\ LET from == Underlying(node[1])
         to == Underlying(node[2])
         primitive == ~IsRef(from) /\ ~IsRef(to)
         how == NumericConversion(from, to)
     IN  \/ /\ from = to \/ (primitive /\ how = "same")
            /\ Done
            /\ UNCHANGED <<vals, code, strings, refs, nextLocalId>>
         \/ /\ from # to /\ from = tNull /\ IsRef(to)
            /\ Replace(1, ValNull)
            /\ Done
            /\ UNCHANGED <<code, strings, refs, nextLocalId>>
         \/ /\ from # to /\ to = tString /\ from # tNull /\ IsChars(from)
            /\ Instruction(1, "call", Top(1), <<"StrFromSZ">>)
         \/ /\ from # to /\ primitive /\ how \notin {"same", "unreachable"}
            /\ Instruction(1, "conv", Top(1), <<how, TypeRef(from), TypeRef(to)>>)
         \/ /\ from # to /\ ~(from = tNull /\ IsRef(to)) /\ ~(to = tString /\ IsChars(from))
            /\ ~primitive \/ how = "unreachable"
            /\ Replace(1, Nowhere)
            /\ Done
            /\ UNCHANGED <<code, strings, refs, nextLocalId>>
  /\ UNCHANGED <<Frame, always, loops, locals, nextLabel>>

-----------------------------------------------------------------------------
(* Variables and calls                                                     *)

Holders(name) == {i \in DOMAIN locals : locals[i].name = name}

\* Mutant of FindLocal: the first local of the name wins.
FindFirstLocal(name) == IF Holders(name) = {} THEN 0 ELSE Min(Holders(name))

\* The last local of the name, 0 if there is none
FindLocal(name) == IF Holders(name) = {} THEN 0 ELSE Max(Holders(name))

\* CompileVar leaves the address of a variable: a name that is no local is
\* taken for a global's.
CompileVar ==
  /\ At("var")
  /\ \/ /\ node.kind = "direct"
        /\ vals' = Append(vals, IF FindLocal(node.name) = 0 THEN ValNamedGlobal(node.name)
                                ELSE ValLocal(locals[FindLocal(node.name)].id))
        /\ Done
     \/ /\ node.kind = "field"
        /\ Then(<<Exp(node.of, node.of.type), Task("getfield", node.name)>>)
        /\ UNCHANGED vals
     \/ /\ node.kind = "index"
        /\ Then(<<Exp(node.by, tLong), Exp(node.of, node.of.type), Task("getelement", node.of.type)>>)
        /\ UNCHANGED vals
  /\ UNCHANGED <<Frame, always, loops, locals, nextLocalId, nextLabel, code, strings, refs>>

CompileElementAddress ==
  /\ \/ At("getfield") /\ Instruction(1, "field", Top(1), <<node>>)
     \/ At("getelement") /\ Instruction(2, "element", <<Top(2)[2], Top(2)[1]>>, <<TypeRef(node)>>)
  /\ UNCHANGED <<Frame, always, loops, locals, nextLabel>>

\* RegisterInternalFunction: the functions that have a body here
Implemented ==
  {module[i].name : i \in {j \in DOMAIN module : module[j].def = "func" /\ module[j].body # NULL}}

\* Mutant of AddFunctionDependency: what has a body here is not looked at.
AddOwnCallee(name) == IF name \in ToSet(dependencies) THEN dependencies ELSE Append(dependencies, name)

\* Mutant of AddFunctionDependency: what is declared already is not looked at.
AddEveryCallee(name) == IF name \in Implemented THEN dependencies ELSE Append(dependencies, name)

AddFunctionDependency(name) ==
  IF name \in Implemented \cup ToSet(dependencies) THEN dependencies ELSE Append(dependencies, name)

CompileCall ==
  /\ At("call")
  /\ dependencies' = AddFunctionDependency(node.name)
  /\ Then(<<Task("args", [call |-> node, next |-> 1])>>)
  /\ UNCHANGED <<Outside, vals, always, loops, locals, nextLocalId, nextLabel, code, strings, refs>>

\* All arguments are compiled before the call is printed.
CompileArguments ==
  /\ At("args")
  /\ LET call == node.call
         next == node.next
     IN  IF next <= Len(call.args)
         THEN Then(<<Exp(call.args[next], call.params[next]), Task("args", [call |-> call, next |-> next + 1])>>)
         ELSE Then(<<Task("callend", [call |-> call, args |-> next - 1])>>)
  /\ UNCHANGED <<Frame, vals, always, loops, locals, nextLocalId, nextLabel, code, strings, refs>>

CompileCallEnd ==
  /\ At("callend")
  /\ LET name == node.call.name
     IN  IF node.call.ret = tVoid
         THEN /\ Emit(<<CallStmt(name, Top(node.args))>>)
              /\ Replace(node.args, Nowhere)
              /\ Done
              /\ UNCHANGED nextLocalId
         ELSE Instruction(node.args, "call", Top(node.args), <<name>>)
  /\ UNCHANGED <<Frame, always, loops, locals, nextLabel>>

-----------------------------------------------------------------------------
(* Statements                                                              *)

Block(b) == Task("block", [block |-> b, next |-> 1, top |-> Len(locals)])

\* CompileLocal and AddLocal, and what is stored first
CompileLocal(name, type, initial) ==
  /\ locals' = Append(locals, [name |-> name, id |-> nextLocalId])
  /\ Emit(<<Line("alloca", ValLocal(nextLocalId), << >>, <<TypeRef(type)>>),
            Store(ValLocal(nextLocalId), initial)>>)
  /\ nextLocalId' = nextLocalId + 1
  /\ Done

StatementKinds ==
  {"if", "while", "assign", "return", "callstmt", "nested", "echo", "vardef", "break", "continue"}

\* CompileBlock, before each statement and at its end: it stops when a
\* statement always returns, and forgets the locals it declared.
CompileBlock ==
  /\ At("block")
  /\ LET more == node.next <= Len(node.block.stmts) /\ ~always
     IN  IF more
         THEN /\ node.block.stmts[node.next].kind \in StatementKinds
              /\ Then(<<Task(node.block.stmts[node.next].kind, node.block.stmts[node.next]),
                        Task("block", [block |-> node.block, next |-> node.next + 1, top |-> node.top])>>)
              /\ UNCHANGED <<locals, always>>
         ELSE /\ locals' = SubSeq(locals, 1, node.top)
              /\ always' = FALSE
              /\ Done
  /\ vals' = << >>
  /\ UNCHANGED <<Frame, loops, nextLocalId, nextLabel, code, strings, refs>>

\* CompileIf up to the then block
CompileIf ==
  /\ At("if")
  /\ Then(<<Cond(node.cond, nextLabel, nextLabel + 1), Lines(<<Label(nextLabel)>>), Block(node.then),
            Task("ifend", [node |-> node, elseLabel |-> nextLabel + 1])>>)
  /\ nextLabel' = nextLabel + 2
  /\ UNCHANGED <<Frame, vals, always, loops, locals, nextLocalId, code, strings, refs>>

\* The rest of CompileIf.  When exactly one of two blocks exits, the other
\* branches to a label that is not printed.
CompileIfEnd ==
  /\ At("ifend")
  /\ LET then == node.node.then
         else == node.node.else
         start == Label(node.elseLabel)
         end == nextLabel
     IN  \/ /\ else = NULL
            /\ Then(<<Lines(IF then.exits THEN <<start>> ELSE <<Branch(node.elseLabel), start>>)>>)
            /\ UNCHANGED nextLabel
         \/ /\ else # NULL /\ then.exits /\ else.exits
            /\ Then(<<Lines(<<start>>), Block(else), Task("stop", NULL)>>)
            /\ UNCHANGED nextLabel
         \/ /\ else # NULL /\ then.exits /\ ~else.exits
            /\ Then(<<Lines(<<start>>), Block(else), Lines(<<Branch(end)>>)>>)
            /\ nextLabel' = nextLabel + 1
         \/ /\ else # NULL /\ ~then.exits /\ else.exits
            /\ Then(<<Lines(<<Branch(end), start>>), Block(else)>>)
            /\ nextLabel' = nextLabel + 1
         \/ /\ else # NULL /\ ~then.exits /\ ~else.exits
            /\ Then(<<Lines(<<Branch(end), start>>), Block(else), Lines(<<Branch(end), Label(end)>>)>>)
            /\ nextLabel' = nextLabel + 1
  /\ UNCHANGED <<Frame, vals, always, loops, locals, nextLocalId, code, strings, refs>>

\* Mutant of CompileWhile: the label of the second condition is not taken.
CompileWhileTakesTwo ==
  /\ At("while")
  /\ LET end == nextLabel
         body == nextLabel + 1
         check == nextLabel + 2
         again == IF node.body.exits THEN << >> ELSE <<Branch(check)>>
     IN  Then(<<Cond(node.cond, body, end), Lines(<<Label(body)>>),
                Task("loop", [end |-> end, check |-> check]), Block(node.body), Task("loop", loops),
                Lines(again \o <<Label(check)>>), Cond(node.cond, body, end), Lines(<<Label(end)>>)>>)
  /\ nextLabel' = nextLabel + 2
  /\ UNCHANGED <<Frame, vals, always, loops, locals, nextLocalId, code, strings, refs>>

\* CompileWhile: the condition is compiled before the body and after it; a
\* break goes to the end label, a continue to the second condition.
CompileWhile ==
  /\ At("while")
  /\ LET end == nextLabel
         body == nextLabel + 1
         check == nextLabel + 2
         again == IF node.body.exits THEN << >> ELSE <<Branch(check)>>
     IN  Then(<<Cond(node.cond, body, end), Lines(<<Label(body)>>),
                Task("loop", [end |-> end, check |-> check]), Block(node.body), Task("loop", loops),
                Lines(again \o <<Label(check)>>), Cond(node.cond, body, end), Lines(<<Label(end)>>)>>)
  /\ nextLabel' = nextLabel + 3
  /\ UNCHANGED <<Frame, vals, always, loops, locals, nextLocalId, code, strings, refs>>

\* Mutant of EnclosingLoop: the labels of a loop stay when it ends.
EnclosingLoopKept ==
  /\ At("loop")
  /\ loops' = IF node.end = -1 THEN loops ELSE node
  /\ Done
  /\ UNCHANGED <<Frame, vals, always, locals, nextLocalId, nextLabel, code, strings, refs>>

EnclosingLoop ==
  /\ At("loop")
  /\ loops' = node
  /\ Done
  /\ UNCHANGED <<Frame, vals, always, locals, nextLocalId, nextLabel, code, strings, refs>>

\* The statement always returns.
StopBlock ==
  /\ At("stop")
  /\ always' = TRUE
  /\ Done
  /\ UNCHANGED <<Frame, vals, loops, locals, nextLocalId, nextLabel, code, strings, refs>>

ReturnType == module[pos].ret

\* CompileEcho: an array of chars is made a string, another reference is cast
\* to bytes, a number is widened.
Echo(e) ==
  LET u == Underlying(e.type)
      routine == CASE u = tChar -> "EchoChar" [] IsFloat(u) -> "EchoReal" [] OTHER -> "EchoInteger"
      widest == IF IsFloat(u) THEN tDouble ELSE tLong
  IN  CASE u = tString -> <<Task("print", "EchoString")>>
        [] IsChars(u) -> <<Task("convert", <<u, tString>>), Task("print", "EchoString")>>
        [] IsRef(u) /\ u # tString /\ ~IsChars(u) ->
             <<Task("tobytes", u), Task("print", IF IsArray(TypeTable, u) THEN "EchoArray" ELSE "EchoObject")>>
        [] u = tChar -> <<Task("print", routine)>>
        [] OTHER -> <<Task("convert", <<u, widest>>), Task("print", routine)>>

\* The statements that are only their parts
CompileStatement ==
  /\ \/ /\ At("assign")
        /\ Then(<<Task("var", node.left), Exp(node.right, node.type), Task("store", NULL)>>)
     \/ /\ At("return") /\ node.exp # NULL
        /\ Then(<<Exp(node.exp, ReturnType), Task("ret", NULL), Task("stop", NULL)>>)
     \/ /\ At("return") /\ node.exp = NULL
        /\ Then(<<Lines(<<Line("ret", Nowhere, << >>, << >>)>>), Task("stop", NULL)>>)
     \/ At("callstmt") /\ Then(<<Task("call", node.call)>>)
     \/ At("nested") /\ Then(<<Block(node.body)>>)
     \/ At("echo") /\ Then(<<Exp(node.exp, node.exp.type)>> \o Echo(node.exp))
     \/ At("break") /\ Then(<<Lines(<<Branch(loops.end)>>)>>)
     \/ At("continue") /\ Then(<<Lines(<<Branch(loops.check)>>)>>)
  /\ UNCHANGED <<Frame, vals, always, loops, locals, nextLocalId, nextLabel, code, strings, refs>>

\* The instruction that ends them
CompileStatementEnd ==
  /\ \/ At("store") /\ Emit(<<Store(Top(2)[1], Top(2)[2])>>) /\ Drop(2) /\ Done /\ UNCHANGED nextLocalId
     \/ At("ret") /\ Emit(<<Line("ret", Nowhere, Top(1), << >>)>>) /\ Drop(1) /\ Done /\ UNCHANGED nextLocalId
     \/ At("print") /\ Emit(<<CallStmt(node, Top(1))>>) /\ Drop(1) /\ Done /\ UNCHANGED nextLocalId
     \/ At("tobytes") /\ Instruction(1, "bitcast", Top(1), <<TypeRef(node), BytePtr>>)
  /\ UNCHANGED <<Frame, always, loops, locals, nextLabel>>

\* A local variable starts with the default value of its type.
VarDefinition ==
  /\ At("vardef")
  /\ CompileLocal(node.name, node.type, GetDefaultValue(node.type))
  /\ UNCHANGED <<Frame, vals, always, loops, nextLabel>>

\* A parameter is copied to a local variable.
Parameter ==
  /\ At("param")
  /\ CompileLocal(node.name, node.type, ValSSA(node.index))
  /\ UNCHANGED <<Frame, vals, always, loops, nextLabel>>

-----------------------------------------------------------------------------
(* Functions and the module                                                *)

NoLoop == [end |-> -1, check |-> -1]

\* CompileDefinition on the next definition; ResetBlockContext for a function
\* that has a body.
CompileDefinition ==
  /\ result = "running" /\ agenda = << >> /\ pos \in 1 .. Len(module)
  /\ LET d == module[pos]
     IN  IF d.def = "func" /\ d.body # NULL
         THEN /\ agenda' = [i \in DOMAIN d.params |->
                              Task("param", [name |-> d.params[i].name, type |-> d.params[i].type, index |-> i - 1])]
                           \o (IF d.entry THEN <<Lines(<<CallStmt("Init", << >>)>>)>> ELSE << >>)
                           \o <<Task("body", d.body), Task("funcend", d)>>
              /\ locals' = << >> /\ nextLocalId' = 0 /\ nextLabel' = 0 /\ code' = << >>
              /\ UNCHANGED pos
         ELSE pos' = pos + 1 /\ UNCHANGED <<agenda, locals, nextLocalId, nextLabel, code>>
  /\ UNCHANGED <<module, output, result, tables, vals, always, loops>>

FunctionBody ==
  /\ At("body")
  /\ Then(<<Block(node)>>)
  /\ UNCHANGED <<Frame, vals, always, loops, locals, nextLocalId, nextLabel, code, strings, refs>>

\* The functions that are done when the current one is
WithFunction(text) ==
  [f \in DOMAIN output \cup {node.name} |-> IF f = node.name THEN text ELSE output[f]]

\* Mutant of FunctionEnd: the end of a void function needs no return.
FunctionEndFallsOff ==
  /\ At("funcend")
  /\ output' = WithFunction(code)
  /\ pos' = pos + 1
  /\ Done
  /\ UNCHANGED <<module, result, tables, vals, always, loops, locals, nextLocalId, nextLabel, code>>

\* The end of CompileFunctionImpl: a void function may need a return.
FunctionEnd ==
  /\ At("funcend")
  /\ LET last == IF node.ret = tVoid /\ ~node.body.exits
                 THEN <<Line("ret", Nowhere, << >>, << >>)>> ELSE << >>
     IN  output' = WithFunction(code \o last)
  /\ pos' = pos + 1
  /\ Done
  /\ UNCHANGED <<module, result, tables, vals, always, loops, locals, nextLocalId, nextLabel, code>>

Init ==
  /\ module \in Modules
  /\ pos = 0
  /\ agenda = << >> /\ vals = << >> /\ always = FALSE
  /\ loops = NoLoop
  /\ locals = << >> /\ nextLocalId = 0 /\ nextLabel = 0
  /\ code = << >> /\ output = << >>
  /\ dependencies = << >> /\ strings = << >> /\ refs = << >>
  /\ result = "running"

\* InitializeLlvmContext, the preamble and the registration of functions
Start ==
  /\ result = "running" /\ pos = 0
  /\ pos' = 1
  /\ UNCHANGED <<module, agenda, vals, always, loops, locals, nextLocalId, nextLabel, code, output, tables, result>>

\* Everything is printed, the declarations and the literals last.
Finish ==
  /\ result = "running" /\ agenda = << >> /\ pos > Len(module)
  /\ result' = "SUCCESS"
  /\ UNCHANGED <<module, pos, agenda, vals, always, loops, locals, nextLocalId, nextLabel, code, output, tables>>

\* A longjmp to Mon_GenerateLLVM.  The one from InitializeLlvmContext finds
\* an error stream that nobody has set yet.
Abort(outcome) ==
  /\ result' = outcome
  /\ agenda' = << >>
  /\ UNCHANGED <<module, pos, vals, always, loops, locals, nextLocalId, nextLabel, code, output, tables>>

Printing ==
  {"emit", "compare", "phi", "load", "binop", "scale", "unop", "alloc", "armend", "convert",
   "getfield", "getelement", "callend", "store", "ret", "print", "tobytes", "param", "vardef", "funcend"}
NewLiteral == \E i \in DOMAIN vals : vals[i][1] = "str" /\ vals[i][2] \notin ToSet(strings)

Allocates ==
  \/ At("param") \/ At("vardef")
  \/ At("call") /\ (node.args # << >> \/ AddFunctionDependency(node.name) # dependencies)
  \/ NewLiteral /\ \E op \in Printing : At(op)

Failure ==
  \/ /\ result = "running" /\ pos = 0
     /\ \E outcome \in {"WILD_STREAM", "ERR_IO"} \cup (IF Implemented # {} THEN {"ERR_NOMEM"} ELSE {}) :
          Abort(outcome)
  \/ Allocates /\ Abort("ERR_NOMEM")
  \/ result = "running" /\ pos > 0 /\ (agenda # << >> => agenda[1].op \in Printing) /\ Abort("ERR_IO")

Generate ==
  \/ Start \/ CompileDefinition \/ FunctionBody \/ Parameter \/ FunctionEnd \/ Finish
  \/ CompileBlock \/ CompileIf \/ CompileIfEnd \/ CompileWhile \/ EnclosingLoop \/ StopBlock
  \/ CompileStatement \/ CompileStatementEnd \/ VarDefinition
  \/ CompileCondition \/ CompileComparison
  \/ CompileExp \/ CompileArmEnd \/ CompileOperation \/ CompileConversion \/ EmitLines
  \/ CompileVar \/ CompileElementAddress \/ CompileCall \/ CompileArguments \/ CompileCallEnd
  \/ Failure

-----------------------------------------------------------------------------
(* Properties                                                              *)

NamesUnique(lines) ==
  \A i, j \in DOMAIN lines :
    i # j => /\ lines[i].dst # Nowhere => lines[i].dst # lines[j].dst
             /\ lines[i].op = "label" /\ lines[j].op = "label" => lines[i].info # lines[j].info

\* No local number and no label is given twice in a function, whatever mixture
\* of counters the statements, expressions and conditions advance, and also in
\* the functions the generator gets wrong.
NamesOnce == NamesUnique(code) /\ \A f \in DOMAIN output : NamesUnique(output[f])

\* The first time a literal is printed, it is printed with the index under which
\* the module will define it.
LiteralsResolve ==
  \A i \in DOMAIN refs :
    (\A j \in 1 .. i - 1 : refs[j][1] # refs[i][1]) =>
      refs[i][2] + 1 \in DOMAIN strings /\ strings[refs[i][2] + 1] = refs[i][1]

\* When a function is done the context is as a function finds it: only the
\* parameters are visible and no loop encloses anything, whatever statements
\* were left early.
ContextRestored ==
  At("funcend") =>
    /\ [i \in DOMAIN locals |-> locals[i].name] = [i \in DOMAIN node.params |-> node.params[i].name]
    /\ loops = NoLoop /\ vals = << >> /\ ~always
=============================================================================
