--------------------------------- MODULE Sem ---------------------------------
(***************************************************************************)
(* The semantic analyser of src/src/libmonga/sem.c over the scopes of      *)
(* sem/scope.c: Mon_SemAnalyseMultiple on a program, a sequence of ASTs.   *)
(*                                                                         *)
(* The analyser is a set of mutually recursive C functions.  Here their    *)
(* call stack is the agenda, a sequence of tasks still to do: the head     *)
(* task is the next piece of a function to run, a call is tasks pushed in  *)
(* front, and vals holds the types of the expressions already resolved and *)
(* not yet consumed.  A function that returns false drops the tasks of its *)
(* callers up to the one that goes on after a failure, a marker.           *)
(*                                                                         *)
(* An AST is a sequence of definitions:                                    *)
(*   [def: "type", name, desc]               desc is an entry of Types     *)
(*   [def: "func", name, ret, params, body]  body is a block, or NULL      *)
(*   [def: "var", name, type]                                              *)
(* A block is a sequence of statements.  Nodes are known by the path from  *)
(* the root to them: <<ast, definition, child, child, ...>>.               *)
(***************************************************************************)
EXTENDS Types, Lists, SequencesExt

CONSTANTS
  Programs,     \* the programs to analyse
  DEFAULT_CAP,  \* first capacity of a vector (16 in the code)
  JUNK          \* the contents of memory nobody has written

\* Mon_SemAnalyseMultiple is given at least one AST.  The definitions of an AST
\* are a list, and so are the parameters of a function.
ASSUME ProgramsAreSequences ==
  \A p \in Programs :
    /\ p # << >> /\ IsList(p)
    /\ \A a \in DOMAIN p :
         /\ IsList(p[a])
         /\ \A i \in DOMAIN p[a] : p[a][i].def = "func" => IsList(p[a][i].params)

VARIABLES
  asts,       \* the definitions of each AST; anonymous types are appended
  types,      \* every Mon_AstTypeDef, with its semantics: see Types
  sem,        \* semantic.type (returnType of a function) by node
  bind,       \* the declaration a variable or call was resolved to, by node
  exits,      \* allPathsExit by block
  used,       \* usedTypes by AST
  entry,      \* the ASTs with hasEntryPointFunction
  astState,   \* astState by AST
  scopes,     \* the scope chain, innermost last; << >> is currentScope == NULL
  phase,      \* the loop of Analyse running, 0 before the first
  ast,        \* currentAst
  pos, last,  \* next and last definition of the running FOREACH, whose
              \* bounds are computed once
  stale,      \* the FOREACH walks a buffer that was reallocated meanwhile
  agenda, vals,
  ok,         \* no error in the definition being resolved
  verdict,    \* ret of Analyse
  loopLevel, anonRec,
  fieldError, \* the type of a record's field was reported as not found
  result      \* "running" or how the call ended

tree == <<asts, types, sem, bind, exits, used, entry>>
loop == <<phase, ast, pos, last, astState, verdict, result>>
context == <<loopLevel, anonRec, fieldError>>
vars == <<tree, loop, context, scopes, stale, agenda, vals, ok>>

-----------------------------------------------------------------------------
(* Scopes: a symbol is [name, kind, node]                                   *)

Symbol(name, kind, node) == [name |-> name, kind |-> kind, node |-> node]

BuiltinScope == {Symbol(BuiltinTypes[t].name, "type", t) : t \in DOMAIN BuiltinTypes}

Named(scope, name) == {i \in 1 .. Len(scope) : scope[i].name = name}

\* Mutant of FindSymbol: the outermost declaration wins.
FindOutermost(chain, name) ==
  LET holders == {d \in 1 .. Len(chain) : Named(chain[d], name) # {}}
      builtin == {s \in BuiltinScope : s.name = name}
  IN  CASE holders # {} -> LET d == Min(holders) IN chain[d][Min(Named(chain[d], name))]
        [] holders = {} /\ builtin # {} -> CHOOSE s \in builtin : TRUE
        [] OTHER -> NULL

\* FindSymbolInScope from the current scope outwards, ending in the builtins.
FindSymbol(chain, name) ==
  LET holders == {d \in 1 .. Len(chain) : Named(chain[d], name) # {}}
      builtin == {s \in BuiltinScope : s.name = name}
  IN  CASE holders # {} -> LET d == Max(holders) IN chain[d][Min(Named(chain[d], name))]
        [] holders = {} /\ builtin # {} -> CHOOSE s \in builtin : TRUE
        [] OTHER -> NULL

FindType(chain, name) ==
  LET s == FindSymbol(chain, name)
  IN  IF s # NULL /\ s.kind = "type" THEN s.node ELSE NULL

\* Mutant of Clashes: the builtin names are not looked at.
ClashesInScope(chain, name) == Named(Last(chain), name) # {}

\* What TryAddSymbolToScope refuses: a name of the scope or of the builtins.
Clashes(chain, name) ==
  \/ Named(Last(chain), name) # {}
  \/ \E s \in BuiltinScope : s.name = name

Push(chain) == Append(chain, << >>)
Pop(chain) == Front(chain)
Declare(chain, s) == [chain EXCEPT ![Len(chain)] = Append(@, s)]

\* A function goes out of the scope around the parameters, where it is last.
KeepFunction(chain) == Pop(chain)  \* mutant of RemoveFunction
RemoveFunction(chain) == [Pop(chain) EXCEPT ![Len(chain) - 1] = Front(@)]

\* The error type takes the place of a type that was not found.
NoFallback(t) == t  \* mutant of OrError
OrError(t) == IF t = NULL THEN tError ELSE t

-----------------------------------------------------------------------------
(* The agenda                                                              *)

Task(op, path, content) == [op |-> op, at |-> path, node |-> content]
NoNode == ""
Child(path, k) == Append(path, k)

\* The tasks that go on after a failure: the rest of an if, the end of a
\* while, of a statement and of a definition.
Markers == {"mark", "wend", "endstmt", "enddef"}

At(op) == result = "running" /\ agenda # << >> /\ agenda[1].op = op
here == agenda[1].at
node == agenda[1].node
Statement(kind) == At("stmt") /\ node.kind = kind

\* Carry on with the given tasks and then with the rest.
Then(tasks) == agenda' = tasks \o Tail(agenda)
Done == Then(<< >>)

\* Return false to the nearest marker.
FromMarker(tasks) ==
  LET markers == {i \in 1 .. Len(tasks) : tasks[i].op \in Markers}
  IN  SubSeq(tasks, Min(markers), Len(tasks))
Fail == ok' = FALSE /\ vals' = << >> /\ agenda' = FromMarker(agenda)

With(f, x, y) == [z \in DOMAIN f \cup {x} |-> IF z = x THEN y ELSE f[z]]

TypeOf(path) == IF path \in DOMAIN sem THEN sem[path] ELSE NULL
ReturnType(f) == IF f \in DOMAIN sem THEN sem[f] ELSE JUNK
Func(path) == <<path[1], path[2]>>
Params(f) == asts[f[1]][f[2]].params
ParamAt(f, i) == f \o <<0, i>>

\* The last type resolved, the one before it, and the rest of the stack.
Top == vals[Len(vals)]
Below == vals[Len(vals) - 1]
Without(n) == SubSeq(vals, 1, Len(vals) - n)

\* The last n types are consumed and the node gets type t.
Yield(n, t) ==
  /\ vals' = Append(Without(n), t)
  /\ sem' = With(sem, here, t)
  /\ Done
  /\ ok' = ok

Use(t) == used' = [used EXCEPT ![ast] = @ \cup {t}]

-----------------------------------------------------------------------------
(* Anonymous types, added to the AST and to the current scope               *)

NewType == <<ast, Len(asts[ast]) + 1>>

\* A vector that grew by single pushes is full at these counts.
Full(n) == \E k \in 0 .. n : n = DEFAULT_CAP * 2 ^ k

\* Registration of a new type; the push may move the definitions.
Register(desc) ==
  /\ asts' = [asts EXCEPT ![ast] = Append(@, [def |-> "type", name |-> desc.name, desc |-> desc])]
  /\ scopes' = Declare(scopes, Symbol(desc.name, "type", NewType))
  /\ stale' \in {stale, stale \/ Full(Len(asts[ast]))}

ArrayDesc(t) ==
  [name |-> ".array_" \o types[t].name, dims |-> 1, kind |-> "alias", code |-> "",
   to |-> types[t].name, target |-> t, fields |-> << >>, inner |-> <<t>>]
ArraySymbol(t) == FindSymbol(scopes, ArrayDesc(t).name)
ArrayType(t) == IF ArraySymbol(t) # NULL THEN ArraySymbol(t).node ELSE NewType
WithArrayType(t) == IF ArraySymbol(t) # NULL THEN types ELSE With(types, NewType, ArrayDesc(t))

FindOrCreateArrayType(t) ==
  IF ArraySymbol(t) # NULL THEN UNCHANGED <<asts, scopes, stale>> ELSE Register(ArrayDesc(t))

\* The anonymous record shares the description, fields included, of the array's base.
RecordDesc(desc) ==
  [desc EXCEPT !.name = ".record_" \o ToString(anonRec), !.dims = 0, !.inner = << >>]

-----------------------------------------------------------------------------
(* Declarations and type definitions                                       *)

\* ResolveTypeDeclaration
TypeDeclaration ==
  /\ At("typedecl")
  /\ IF Clashes(scopes, node.name)
     THEN Fail /\ UNCHANGED scopes
     ELSE Done /\ scopes' = Declare(scopes, Symbol(node.name, "type", here)) /\ UNCHANGED <<vals, ok>>
  /\ UNCHANGED <<tree, loop, context, stale>>

\* ResolveFunctionDeclaration up to the parameters, whose scope it opens
FunctionDeclaration ==
  /\ At("funcdecl")
  /\ LET declared == Declare(scopes, Symbol(node.name, "func", here))
         type == FindType(declared, node.ret)
     IN  IF Clashes(scopes, node.name)
         THEN Fail /\ UNCHANGED <<scopes, sem>>
         ELSE /\ scopes' = Push(declared)
              /\ sem' = With(sem, here, OrError(type))
              /\ ok' = (ok /\ type # NULL)
              /\ Then(<<Task("param", here, 1)>>)
              /\ UNCHANGED vals
  /\ UNCHANGED <<asts, types, bind, exits, used, entry, loop, context, stale>>

\* One parameter; a clash takes the function out of the scope again.
Parameter ==
  /\ At("param") /\ node <= Len(Params(here))
  /\ LET param == Params(here)[node]
         type == FindType(scopes, param.type)
     IN  /\ sem' = With(sem, ParamAt(here, node), OrError(type))
         /\ IF Clashes(scopes, param.name)
            THEN /\ scopes' = RemoveFunction(scopes)
                 /\ Fail
                 /\ UNCHANGED used
            ELSE /\ scopes' = Declare(scopes, Symbol(param.name, "param", ParamAt(here, node)))
                 /\ Use(OrError(type))
                 /\ ok' = (ok /\ type # NULL)
                 /\ Then(<<Task("param", here, node + 1)>>)
                 /\ UNCHANGED vals
  /\ UNCHANGED <<asts, types, bind, exits, entry, loop, context, stale>>

\* The end of ResolveFunctionDeclaration
DeclarationEnd ==
  /\ At("param") /\ node > Len(Params(here))
  /\ scopes' = Pop(scopes)
  /\ entry' = IF asts[here[1]][here[2]].name = "main" THEN entry \cup {ast} ELSE entry
  /\ IF ok THEN Use(ReturnType(here)) ELSE UNCHANGED used
  /\ Done
  /\ UNCHANGED <<asts, types, sem, bind, exits, loop, context, stale, vals, ok>>

\* Mutant of VarDefinition: only an unknown type is written down.
VarDefinitionUntyped ==
  /\ At("vardef") \/ Statement("vardef")
  /\ LET type == FindType(scopes, node.type)
         clash == Clashes(scopes, node.name)
     IN  /\ sem' = IF type = NULL THEN With(sem, here, tError) ELSE sem
         /\ scopes' = IF clash THEN scopes ELSE Declare(scopes, Symbol(node.name, "var", here))
         /\ IF type # NULL /\ ~clash
            THEN Done /\ Use(type) /\ UNCHANGED <<vals, ok>>
            ELSE Fail /\ UNCHANGED used
  /\ UNCHANGED <<asts, types, bind, exits, entry, loop, context, stale>>

\* ResolveVarDefinition, of a global or a local: a variable of unknown type is
\* declared all the same.
VarDefinition ==
  /\ At("vardef") \/ Statement("vardef")
  /\ LET type == FindType(scopes, node.type)
         clash == Clashes(scopes, node.name)
     IN  /\ sem' = With(sem, here, OrError(type))
         /\ scopes' = IF clash THEN scopes ELSE Declare(scopes, Symbol(node.name, "var", here))
         /\ IF type # NULL /\ ~clash
            THEN Done /\ Use(type) /\ UNCHANGED <<vals, ok>>
            ELSE Fail /\ UNCHANGED used
  /\ UNCHANGED <<asts, types, bind, exits, entry, loop, context, stale>>

\* The array layers of a description from layer k outwards
OnlyLayerOne(k) == IF k = 1 THEN <<Task("layer", here, k)>> ELSE << >>  \* mutant of FromLayer
FromLayer(k) == IF k <= types[here].dims THEN <<Task("layer", here, k)>> ELSE << >>

\* ResolveTypeDescription: the base, then the array layers
TypeDescription ==
  /\ At("typedesc")
  /\ Then((IF node.desc.kind = "record"
           THEN <<Task("push", here, NoNode), Task("field", here, 1)>>
           ELSE <<Task("alias", here, NoNode)>>) \o FromLayer(1))
  /\ UNCHANGED <<tree, loop, context, scopes, stale, vals, ok>>

AliasDescription ==
  /\ At("alias")
  /\ LET type == FindType(scopes, types[here].to)
     IN  /\ types' = [types EXCEPT ![here].target = OrError(type)]
         /\ Use(OrError(type))
         /\ IF type # NULL THEN Done /\ UNCHANGED <<vals, ok>> ELSE Fail
  /\ UNCHANGED <<asts, sem, bind, exits, entry, loop, context, scopes, stale>>

\* One field of a record.  An unknown type pops the record's scope, and the
\* field is then registered in the scope around it.
AtField == At("field") /\ node <= Len(types[here].fields)
FieldType == FindType(scopes, types[here].fields[node].type)
FieldScopes == IF AtField /\ FieldType = NULL THEN Pop(scopes) ELSE scopes

RecordField ==
  /\ AtField /\ FieldScopes # << >>
  /\ fieldError' = (fieldError \/ FieldType = NULL)
  /\ LET name == types[here].fields[node].name
     IN  /\ types' = [types EXCEPT ![here].fields[node].sem = OrError(FieldType)]
         /\ IF Clashes(FieldScopes, name)
            THEN Fail /\ scopes' = Pop(FieldScopes) /\ UNCHANGED used
            ELSE /\ scopes' = Declare(FieldScopes, Symbol(name, "field", <<here, node>>))
                 /\ Use(OrError(FieldType))
                 /\ ok' = (ok /\ FieldType # NULL)
                 /\ Then(<<Task("field", here, node + 1)>>)
                 /\ UNCHANGED vals
  /\ UNCHANGED <<asts, sem, bind, exits, entry, loop, loopLevel, anonRec, stale>>

RecordEnd ==
  /\ At("field") /\ node > Len(types[here].fields) /\ scopes # << >>
  /\ scopes' = Pop(scopes)
  /\ IF ok THEN Done /\ UNCHANGED <<vals, ok>> ELSE Fail
  /\ UNCHANGED <<tree, loop, context, stale>>

\* The innermost array layer: of the aliased type, or of an anonymous record.
ElementOfAlias ==
  /\ At("layer") /\ node = 1 /\ types[here].kind = "alias"
  /\ types' = [types EXCEPT ![here].inner[1] = types[here].target]
  /\ Use(types[here].target)
  /\ Then(FromLayer(node + 1))
  /\ UNCHANGED <<asts, sem, bind, exits, entry, loop, context, scopes, stale, vals, ok>>

\* CreateAnonymousRecord
ElementOfRecord ==
  /\ At("layer") /\ node = 1 /\ types[here].kind = "record" /\ scopes # << >>
  /\ Register(RecordDesc(types[here]))
  /\ types' = [With(types, NewType, RecordDesc(types[here])) EXCEPT ![here].inner[1] = NewType]
  /\ anonRec' = anonRec + 1
  /\ Use(NewType)
  /\ Then(FromLayer(node + 1))
  /\ UNCHANGED <<sem, bind, exits, entry, loop, loopLevel, fieldError, vals, ok>>

\* An outer layer: the array type of what the layer inside it holds.
OuterLayer ==
  /\ At("layer") /\ node > 1
  /\ LET element == types[here].inner[node - 1]
     IN  /\ ArraySymbol(element) = NULL => scopes # << >>
         /\ FindOrCreateArrayType(element)
         /\ types' = [WithArrayType(element) EXCEPT ![here].inner[node] = ArrayType(element)]
         /\ Use(ArrayType(element))
  /\ Then(FromLayer(node + 1))
  /\ UNCHANGED <<sem, bind, exits, entry, loop, context, vals, ok>>

-----------------------------------------------------------------------------
(* Functions, blocks and statements                                        *)

\* ResolveFunctionImpl: parameters and body share one scope.
FunctionBody ==
  /\ At("funcimpl")
  /\ LET params == [i \in 1 .. Len(node.params) |->
                      Symbol(node.params[i].name, "param", ParamAt(here, i))]
     IN  IF node.body = NULL
         THEN Done /\ UNCHANGED scopes
         ELSE /\ scopes' = Append(scopes, params)
              /\ Then(<<Task("block", here, node.body), Task("pop", here, NoNode),
                        Task("retcheck", here, NoNode)>>)
  /\ UNCHANGED <<tree, loop, context, stale, vals, ok>>

\* Its last check, made when the block was resolved.
MissingReturn ==
  /\ At("retcheck")
  /\ IF ok /\ ReturnType(here) # tVoid /\ ~exits[here]
     THEN Fail
     ELSE Done /\ UNCHANGED <<vals, ok>>
  /\ UNCHANGED <<tree, loop, context, scopes, stale>>

\* The statements of a block from statement i on
FromStatement(block, i) ==
  IF i <= Len(block)
  THEN <<Task("stmt", Child(here, i), block[i]), Task("endstmt", here, [index |-> i, block |-> block])>>
  ELSE << >>

\* ResolveBlock.  Mon_AstBlockNew leaves allPathsExit as malloc found it.
Block ==
  /\ At("block")
  /\ \E garbage \in BOOLEAN : exits' = With(exits, here, garbage)
  /\ Then(FromStatement(node, 1))
  /\ UNCHANGED <<asts, types, sem, bind, used, entry, loop, context, scopes, stale, vals, ok>>

\* What the statement just resolved says of the paths of its block.
StatementExits(stmt, path) ==
  CASE stmt.kind = "nested" -> exits[Child(path, 1)]
    [] stmt.kind = "if" -> stmt.else # NULL /\ exits[Child(path, 1)] /\ exits[Child(path, 2)]
    [] OTHER -> stmt.kind \in {"return", "break", "continue"}

\* Mutant of StatementEnd: every statement overwrites what was known.
StatementEndOverwrites ==
  /\ At("endstmt")
  /\ exits' = [exits EXCEPT ![here] = StatementExits(node.block[node.index], Child(here, node.index))]
  /\ vals' = << >>
  /\ Then(FromStatement(node.block, node.index + 1))
  /\ UNCHANGED <<asts, types, sem, bind, used, entry, loop, context, scopes, stale, ok>>

StatementEnd ==
  /\ At("endstmt")
  /\ exits' = [exits EXCEPT ![here] = @ \/ StatementExits(node.block[node.index], Child(here, node.index))]
  /\ vals' = << >>
  /\ Then(FromStatement(node.block, node.index + 1))
  /\ UNCHANGED <<asts, types, sem, bind, used, entry, loop, context, scopes, stale, ok>>

PushScope ==
  /\ At("push")
  /\ scopes' = Push(scopes)
  /\ Done
  /\ UNCHANGED <<tree, loop, context, stale, vals, ok>>

PopScope ==
  /\ At("pop") /\ scopes # << >>
  /\ scopes' = Pop(scopes)
  /\ Done
  /\ UNCHANGED <<tree, loop, context, stale, vals, ok>>

\* A block in a scope of its own, child k of the statement
Scoped(k, block) ==
  <<Task("push", here, NoNode), Task("block", Child(here, k), block), Task("pop", here, NoNode)>>

\* Statements that are only their parts: an if goes on when its condition
\* failed; the value of an echo is dropped by the end of the statement.
Compound ==
  /\ \/ /\ Statement("if")
        /\ Then(<<Task("cond", Child(here, 3), node.cond), Task("mark", here, NoNode)>>
                \o Scoped(1, node.then)
                \o (IF node.else = NULL THEN << >> ELSE Scoped(2, node.else)))
     \/ /\ At("mark")
        /\ Done
     \/ /\ Statement("nested")
        /\ Then(Scoped(1, node.body))
     \/ /\ Statement("assign")
        /\ Then(<<Task("exp", Child(here, 2), node.right), Task("var", Child(here, 1), node.left),
                  Task("store", here, node.left)>>)
     \/ /\ Statement("callstmt")
        /\ Then(<<Task("call", Child(here, 1), node.call)>>)
     \/ /\ Statement("echo")
        /\ Then(<<Task("exp", Child(here, 1), node.exp)>>)
  /\ UNCHANGED <<tree, loop, context, scopes, stale, vals, ok>>

While ==
  /\ Statement("while")
  /\ loopLevel' = loopLevel + 1
  /\ scopes' = Push(scopes)
  /\ Then(<<Task("cond", Child(here, 3), node.cond), Task("block", Child(here, 1), node.body),
            Task("wend", here, NoNode)>>)
  /\ UNCHANGED <<tree, loop, anonRec, fieldError, stale, vals, ok>>

\* Mutant of WhileEnd: a failed loop returns before its scope is popped.
WhileEndEarly ==
  /\ At("wend") /\ scopes # << >>
  /\ scopes' = IF ok THEN Pop(scopes) ELSE scopes
  /\ loopLevel' = loopLevel - 1
  /\ Done
  /\ UNCHANGED <<tree, loop, anonRec, fieldError, stale, vals, ok>>

WhileEnd ==
  /\ At("wend") /\ scopes # << >>
  /\ scopes' = Pop(scopes)
  /\ loopLevel' = loopLevel - 1
  /\ Done
  /\ UNCHANGED <<tree, loop, anonRec, fieldError, stale, vals, ok>>

\* Ends a check: go on, or fail.
Check(good) == IF good THEN Done /\ UNCHANGED <<vals, ok>> ELSE Fail

BreakOrContinue ==
  /\ Statement("break") \/ Statement("continue")
  /\ Check(loopLevel > 0)
  /\ UNCHANGED <<tree, loop, context, scopes, stale>>

\* The checks of an assignment, its value below the type of its variable.
\* Elements of a string are immutable.
Store ==
  /\ At("store")
  /\ Check(/\ IsTypeAssignableFrom(types, Top, Below)
           /\ node.kind = "index" =>
                GetUnderlyingType(types, TypeOf(Child(Child(here, 1), 1))) # tString)
  /\ UNCHANGED <<tree, loop, context, scopes, stale>>

Return ==
  /\ Statement("return")
  /\ IF node.exp = NULL
     THEN Check(ReturnType(Func(here)) = tVoid)
     ELSE /\ Then(<<Task("exp", Child(here, 1), node.exp), Task("ret", here, NoNode)>>)
          /\ UNCHANGED <<vals, ok>>
  /\ UNCHANGED <<tree, loop, context, scopes, stale>>

ReturnValue ==
  /\ At("ret")
  /\ Check(IsTypeAssignableFrom(types, ReturnType(Func(here)), Top))
  /\ UNCHANGED <<tree, loop, context, scopes, stale>>

-----------------------------------------------------------------------------
(* Conditions, variables and calls                                         *)

Condition ==
  /\ At("cond")
  /\ Then(IF node.kind = "compare"
          THEN <<Task("exp", Child(here, 1), node.left), Task("exp", Child(here, 2), node.right),
                 Task("compare", here, node.op)>>
          ELSE <<Task("cond", Child(here, 1), node.left), Task("cond", Child(here, 2), node.right)>>)
  /\ UNCHANGED <<tree, loop, context, scopes, stale, vals, ok>>

Comparison ==
  /\ At("compare")
  /\ IF TypeCanCompare(types, Below, Top, node)
     THEN vals' = Without(2) /\ Done /\ UNCHANGED ok
     ELSE Fail
  /\ UNCHANGED <<tree, loop, context, scopes, stale>>

\* ResolveVar of a name: a parameter that was never resolved has no type.
NamedVariable ==
  /\ At("var") /\ node.kind = "direct"
  /\ LET s == FindSymbol(scopes, node.name)
     IN  IF s = NULL \/ s.kind \notin {"var", "param"}
         THEN Fail /\ UNCHANGED <<sem, bind>>
         ELSE Yield(0, TypeOf(s.node)) /\ bind' = With(bind, here, s.node)
  /\ UNCHANGED <<asts, types, exits, used, entry, loop, context, scopes, stale>>

FieldOrElement ==
  /\ At("var")
  /\ \/ /\ node.kind = "field"
        /\ Then(<<Task("exp", Child(here, 1), node.of), Task("getfield", here, node.name)>>)
     \/ /\ node.kind = "index"
        /\ Then(<<Task("exp", Child(here, 1), node.of), Task("exp", Child(here, 2), node.by),
                  Task("getindex", here, NoNode)>>)
  /\ UNCHANGED <<tree, loop, context, scopes, stale, vals, ok>>

FieldAccess ==
  /\ At("getfield")
  /\ IF /\ Top # tError
        /\ IsStructuredType(types, Top)
        /\ HasField(types, Top, node)
     THEN /\ Yield(1, GetTypeField(types, Top, node))
          /\ bind' = With(bind, here, <<GetUnderlyingType(types, Top), node>>)
     ELSE Fail /\ UNCHANGED <<sem, bind>>
  /\ UNCHANGED <<asts, types, exits, used, entry, loop, context, scopes, stale>>

ElementAccess ==
  /\ At("getindex")
  /\ IF IsIntegerType(types, Top) /\ GetIndexedType(types, Below) # NULL
     THEN Yield(2, GetIndexedType(types, Below))
     ELSE Fail /\ UNCHANGED sem
  /\ UNCHANGED <<asts, types, bind, exits, used, entry, loop, context, scopes, stale>>

\* The arguments of a call from argument i on
FromArgument(args, callee, i) ==
  IF i <= Len(args)
  THEN <<Task("exp", Child(here, i), args[i]),
         Task("arg", here, [args |-> args, callee |-> callee, index |-> i])>>
  ELSE <<Task("callend", here, callee)>>

\* ResolveCall: the callee is found before the arguments are resolved.
Call ==
  /\ At("call")
  /\ LET s == FindSymbol(scopes, node.name)
     IN  IF s = NULL \/ s.kind # "func" \/ Len(node.args) # Len(Params(s.node))
         THEN Fail
         ELSE Then(FromArgument(node.args, s.node, 1)) /\ UNCHANGED <<vals, ok>>
  /\ UNCHANGED <<tree, loop, context, scopes, stale>>

Argument ==
  /\ At("arg")
  /\ IF IsTypeAssignableFrom(types, TypeOf(ParamAt(node.callee, node.index)), Top)
     THEN vals' = Without(1) /\ Then(FromArgument(node.args, node.callee, node.index + 1)) /\ UNCHANGED ok
     ELSE Fail
  /\ UNCHANGED <<tree, loop, context, scopes, stale>>

CallEnd ==
  /\ At("callend")
  /\ bind' = With(bind, here, node)
  /\ Yield(0, ReturnType(node))
  /\ UNCHANGED <<asts, types, exits, used, entry, loop, context, scopes, stale>>

-----------------------------------------------------------------------------
(* Expressions: operands first, then the task that types the whole          *)

Operand(op, content, expression) ==
  /\ Then(<<Task("exp", Child(here, 1), expression), Task(op, here, content)>>)
  /\ UNCHANGED <<vals, ok, sem>>

\* A type that a rule may have refused with NULL
YieldOrFail(n, t) == IF t # NULL THEN Yield(n, t) ELSE Fail /\ UNCHANGED sem

Expression ==
  /\ At("exp")
  /\ \/ node.kind = "lit" /\ Yield(0, node.type)
     \/ node.kind = "null" /\ Yield(0, tNull)
     \/ node.kind = "unop" /\ Operand("unop", node.op, node.of)
     \/ /\ node.kind = "binop"
        /\ Then(<<Task("exp", Child(here, 1), node.left), Task("exp", Child(here, 2), node.right),
                  Task("binop", here, node.op)>>)
        /\ UNCHANGED <<vals, ok, sem>>
     \/ node.kind = "cast" /\ Operand("cast", node.name, node.of)
     \/ /\ node.kind = "condexp"
        /\ Then(<<Task("cond", Child(here, 3), node.cond), Task("exp", Child(here, 1), node.left),
                  Task("exp", Child(here, 2), node.right), Task("condexp", here, NoNode)>>)
        /\ UNCHANGED <<vals, ok, sem>>
     \/ /\ node.kind = "var"
        /\ Then(<<Task("var", Child(here, 1), node.var), Task("varexp", here, NoNode)>>)
        /\ UNCHANGED <<vals, ok, sem>>
     \/ /\ node.kind = "call"
        /\ Then(<<Task("call", Child(here, 1), node.call), Task("callexp", here, NoNode)>>)
        /\ UNCHANGED <<vals, ok, sem>>
     \/ /\ node.kind = "new"
        /\ LET type == FindType(scopes, node.name)
           IN  YieldOrFail(0, IF type # NULL /\ IsRefType(types, type) THEN type ELSE NULL)
     \/ /\ node.kind = "newarr"
        /\ IF FindType(scopes, node.name) = NULL
           THEN Fail /\ UNCHANGED sem
           ELSE Operand("sized", FindType(scopes, node.name), node.size)
  /\ UNCHANGED <<asts, types, bind, exits, used, entry, loop, context, scopes, stale>>

\* The type of an operation once its operands have theirs
Operation ==
  /\ \/ At("unop") /\ YieldOrFail(1, GetUnopResultType(types, Top, node))
     \/ At("binop") /\ YieldOrFail(2, GetBinopResultType(types, Below, Top, node))
     \/ At("condexp") /\ YieldOrFail(2, GetCondExpResultType(types, Below, Top))
     \/ At("varexp") /\ YieldOrFail(1, Top)
     \/ At("callexp") /\ Yield(1, Top)
     \/ /\ At("cast")
        /\ LET type == FindType(scopes, node)
           IN  YieldOrFail(1, IF type # NULL /\ IsTypeCastableFrom(types, type, Top)
                              THEN type ELSE NULL)
  /\ UNCHANGED <<asts, types, bind, exits, used, entry, loop, context, scopes, stale>>

\* A string literal is a char array; new type[size] an array of the type.
StringLiteral ==
  /\ At("exp") /\ node.kind = "str"
  /\ FindOrCreateArrayType(tChar)
  /\ types' = WithArrayType(tChar)
  /\ Yield(0, ArrayType(tChar))
  /\ UNCHANGED <<bind, exits, used, entry, loop, context>>

\* Mon_AstExpNewLiteral leaves the kind of a string literal as malloc found
\* it, so that it may be read as any other kind or as none.
MistypedString ==
  /\ At("exp") /\ node.kind = "str"
  /\ \/ \E type \in {tInt, tLong, tDouble, tChar} : Yield(0, type)
     \/ Fail /\ UNCHANGED sem
  /\ UNCHANGED <<asts, types, bind, exits, used, entry, loop, context, scopes, stale>>

NewArray ==
  /\ At("sized")
  /\ IF IsIntegerType(types, Top)
     THEN /\ FindOrCreateArrayType(node)
          /\ types' = WithArrayType(node)
          /\ Yield(1, ArrayType(node))
     ELSE Fail /\ UNCHANGED <<asts, types, sem, scopes, stale>>
  /\ UNCHANGED <<bind, exits, used, entry, loop, context>>

-----------------------------------------------------------------------------
(* Where the code leaves the language: freed or null scopes, freed          *)
(* definitions, types never written, and alias chains without an end.       *)

\* Two arrays of one depth are compared by what their elements alias.
ElementTargets(a, b) ==
  LET u == GetUnderlyingType(types, a)
      v == GetUnderlyingType(types, b)
  IN  IF {u, v} \subseteq DOMAIN types /\ IsArray(types, u) /\ types[u].dims = types[v].dims
         /\ types[u].kind = "alias" /\ types[v].kind = "alias"
      THEN {types[u].target, types[v].target}
      ELSE {}
Pair(a, b) == {a, b} \cup ElementTargets(a, b)

\* The types the head task passes to the type rules
Examined ==
  CASE \E op \in {"binop", "condexp", "compare", "store"} : At(op) -> Pair(Below, Top)
    [] At("getindex") -> {Below, Top}
    [] \E op \in {"unop", "sized", "getfield"} : At(op) -> {Top}
    [] At("arg") -> Pair(TypeOf(ParamAt(node.callee, node.index)), Top)
    [] At("ret") -> Pair(ReturnType(Func(here)), Top)
    [] At("cast") -> {Top} \cup ({FindType(scopes, node)} \ {NULL})
    [] At("exp") /\ node.kind = "new" -> {FindType(scopes, node.name)} \ {NULL}
    [] OTHER -> {}

Underlying == {GetUnderlyingType(types, t) : t \in Examined}

\* A return without a value compares the return type by its address, and prints
\* the name of one that is not void.
Unnamed ==
  Statement("return") /\ node.exp = NULL /\ ReturnType(Func(here)) \notin DOMAIN types

WildType == Unnamed \/ ~(Underlying \subseteq DOMAIN types \cup {LOOP})
EndlessAlias == LOOP \in Underlying

\* The element types for which the head task creates an anonymous array
Elements ==
  CASE At("exp") /\ node.kind = "str" -> {tChar}
    [] At("sized") -> {node}
    [] At("layer") /\ node > 1 -> {types[here].inner[node - 1]}
    [] OTHER -> {}
CreatesRecord == At("layer") /\ node = 1 /\ types[here].kind = "record"
CreatesType ==
  \/ \E t \in Elements : ArraySymbol(t) = NULL
  \/ CreatesRecord

NullScope ==
  /\ CreatesType \/ \E op \in {"pop", "wend", "field"} : At(op)
  /\ FieldScopes = << >>

FreedRead == result = "running" /\ agenda = << >> /\ phase > 0 /\ pos <= last /\ stale

Crash(outcome) ==
  /\ result' = outcome
  /\ UNCHANGED <<tree, phase, ast, pos, last, astState, verdict, context, scopes, stale, agenda, vals, ok>>

UndefinedBehaviour ==
  \/ WildType /\ Crash("WILD_TYPE")
  \/ NullScope /\ Crash("NULL_SCOPE")
  \/ FreedRead /\ Crash("FREED_READ")

\* GetUnderlyingType never returns.
Spin == EndlessAlias /\ UNCHANGED vars

Safe == ~WildType /\ ~EndlessAlias

Step ==
  \/ TypeDeclaration \/ FunctionDeclaration \/ Parameter \/ DeclarationEnd \/ VarDefinition
  \/ TypeDescription \/ AliasDescription \/ RecordField \/ RecordEnd
  \/ ElementOfAlias \/ ElementOfRecord \/ OuterLayer
  \/ FunctionBody \/ MissingReturn \/ Block \/ StatementEnd \/ PushScope \/ PopScope
  \/ Compound \/ While \/ WhileEnd \/ BreakOrContinue
  \/ Safe /\ (Store \/ Return \/ ReturnValue)
  \/ Condition \/ NamedVariable \/ FieldOrElement \/ Call \/ CallEnd
  \/ Safe /\ (Comparison \/ FieldAccess \/ ElementAccess \/ Argument)
  \/ Safe /\ (Expression \/ Operation \/ MistypedString)
  \/ Safe /\ ~NullScope /\ (StringLiteral \/ NewArray)

-----------------------------------------------------------------------------
(* Analyse                                                                 *)

Kinds == <<"type", "func", "var", "type", "func">>
Handlers == <<"typedecl", "funcdecl", "vardef", "typedesc", "funcimpl">>

targetAstCount == Len(astState)

Idle == result = "running" /\ agenda = << >>

TypeDefinitions ==
  UNION {{<<a, i>> : i \in {j \in DOMAIN asts[a] : asts[a][j].def = "type"}} : a \in DOMAIN asts}

\* An earlier analysis that ran out of memory in its first loop leaves ASTs
\* marked and their trees as they were; to be in error one needs a type there.
AstStates == {"NONE", "SYNTAX_OK", "SEM_OK", "SEM_ERR"}

Init ==
  /\ asts \in Programs
  /\ types = Overlay(BuiltinTypes, [d \in TypeDefinitions |-> asts[d[1]][d[2]].desc])
  /\ sem = << >> /\ bind = << >> /\ exits = << >>
  /\ used = [a \in DOMAIN asts |-> {}]
  /\ entry = {}
  /\ astState \in [DOMAIN asts -> AstStates]
  /\ \A a \in DOMAIN asts : astState[a] = "SEM_ERR" => \E i \in DOMAIN asts[a] : asts[a][i].def = "type"
  /\ scopes = << >> /\ stale = FALSE
  /\ phase = 0 /\ ast = 0 /\ pos = 1 /\ last = 0
  /\ agenda = << >> /\ vals = << >> /\ ok = TRUE
  /\ verdict = TRUE /\ loopLevel = 0 /\ anonRec = 0 /\ fieldError = FALSE
  /\ result = "running"

\* Mutant of Enter: every loop starts by marking its ASTs analysed.
EnterResets(p, a) ==
  /\ phase' = p /\ ast' = a /\ pos' = 1 /\ last' = Len(asts[a])
  /\ stale' = FALSE
  /\ astState' = [astState EXCEPT ![a] = "SEM_OK"]
  /\ UNCHANGED <<tree, context, verdict, result, agenda, vals, ok>>

\* A loop of Analyse enters an AST.
Enter(p, a) ==
  /\ phase' = p /\ ast' = a /\ pos' = 1 /\ last' = Len(asts[a])
  /\ stale' = FALSE
  /\ astState' = IF p = 1 THEN [astState EXCEPT ![a] = "SEM_OK"] ELSE astState
  /\ UNCHANGED <<tree, context, verdict, result, agenda, vals, ok>>

Start == Idle /\ phase = 0 /\ scopes' = Push(scopes) /\ Enter(1, 1)

NextAst == Idle /\ phase > 0 /\ pos > last /\ ast < targetAstCount /\ Enter(phase, ast + 1) /\ UNCHANGED scopes

NextPhase ==
  /\ Idle /\ phase \in 1 .. 4 /\ pos > last /\ ast = targetAstCount
  /\ Enter(phase + 1, 1)
  /\ UNCHANGED scopes

\* Mutant of VisitDefinition: a definition that is passed over is not left.
VisitDefinitionStuck ==
  /\ Idle /\ phase > 0 /\ pos <= last /\ ~stale
  /\ LET def == asts[ast][pos]
         wanted == def.def = Kinds[phase]
     IN  /\ agenda' = IF wanted
                      THEN <<Task(Handlers[phase], <<ast, pos>>, def), Task("enddef", <<ast, pos>>, NoNode)>>
                      ELSE << >>
         /\ pos' = IF wanted THEN pos + 1 ELSE pos
  /\ ok' = TRUE
  /\ UNCHANGED <<tree, phase, ast, last, astState, verdict, result, context, scopes, stale, vals>>

VisitDefinition ==
  /\ Idle /\ phase > 0 /\ pos <= last /\ ~stale
  /\ LET def == asts[ast][pos]
     IN  agenda' = IF def.def = Kinds[phase]
                   THEN <<Task(Handlers[phase], <<ast, pos>>, def), Task("enddef", <<ast, pos>>, NoNode)>>
                   ELSE << >>
  /\ pos' = pos + 1
  /\ ok' = TRUE
  /\ UNCHANGED <<tree, phase, ast, last, astState, verdict, result, context, scopes, stale, vals>>

DefinitionEnd ==
  /\ At("enddef")
  /\ astState' = IF ok THEN astState ELSE [astState EXCEPT ![ast] = "SEM_ERR"]
  /\ verdict' = (verdict /\ ok)
  /\ Done
  /\ UNCHANGED <<tree, phase, ast, pos, last, result, context, scopes, stale, vals, ok>>

\* Cleanup, and the answer
Finish ==
  /\ Idle /\ phase = 5 /\ pos > last /\ ast = targetAstCount
  /\ scopes' = << >>
  /\ result' = IF verdict THEN "SUCCESS" ELSE "ERR_SEMANTIC"
  /\ UNCHANGED <<tree, phase, ast, pos, last, astState, verdict, context, stale, agenda, vals, ok>>

\* An allocation of the head task fails: longjmp to Analyse, which cleans up.
\* An array type is looked up by a name that is allocated first.
Allocating ==
  {"typedecl", "funcdecl", "param", "vardef", "alias", "layer", "push", "funcimpl"}

OutOfMemory ==
  /\ \/ Idle /\ phase = 0
     \/ Elements # {} \/ CreatesRecord
     \/ \E op \in Allocating : At(op)
     \/ AtField \/ Statement("while") \/ Statement("vardef")
  /\ scopes' = << >>
  /\ agenda' = << >> /\ vals' = << >>
  /\ result' = "ERR_NOMEM"
  /\ UNCHANGED <<tree, phase, ast, pos, last, astState, verdict, context, stale, ok>>

\* The same after an anonymous type's symbol is in the scope: its error path
\* destroys the symbol and the cleanup destroys it again.
LateOutOfMemory == CreatesType /\ ~NullScope /\ Safe /\ Crash("DOUBLE_FREE")

\* The call has returned, or the process died.
Returned == result # "running" /\ UNCHANGED vars

Next ==
  \/ Start \/ NextAst \/ NextPhase \/ VisitDefinition \/ DefinitionEnd \/ Finish
  \/ Step \/ OutOfMemory \/ LateOutOfMemory \/ UndefinedBehaviour \/ Spin \/ Returned

Spec == Init /\ [][Next]_vars /\ WF_vars(Next)

-----------------------------------------------------------------------------
(* What the caller may conclude                                            *)

\* The return code and the AST states agree: an error is reported if and only
\* if some AST visited so far is marked SEM_ERR, in whichever loop and AST it
\* was found, and whatever state the ASTs came in with.
Visited == IF phase = 0 THEN {} ELSE IF phase = 1 THEN 1 .. ast ELSE DOMAIN astState
VerdictMatchesAsts ==
  /\ verdict <=> \A a \in Visited : astState[a] = "SEM_OK"
  /\ \A a \in Visited : astState[a] \in {"SEM_OK", "SEM_ERR"}
  /\ result = "SUCCESS" => verdict /\ Visited = DOMAIN astState

\* The scope stack is back at the global scope between two definitions, with
\* nothing but types, functions and variables in it, and the loop count at
\* zero, however the definition before failed, unless the type of a record's
\* field was not found (see FieldsStayInRecords).
GlobalKinds == {"type", "func", "var"}
ScopeDiscipline ==
  Idle /\ phase > 0 /\ ~fieldError =>
    /\ Len(scopes) = 1
    /\ loopLevel = 0
    /\ \A i \in DOMAIN scopes[1] : scopes[1][i].kind \in GlobalKinds

\* The declarations of the program in the order of the loops that declare: types
\* before functions before variables, in each the ASTs in order and in each of
\* these the definitions.  A declaration is <<loop, AST, definition>>.
Declarations ==
  UNION {UNION {{<<p, a, i>> : i \in {j \in DOMAIN asts[a] : asts[a][j].def = Kinds[p]}}
                : a \in DOMAIN asts} : p \in 1 .. 3}
Before(c, d) ==
  \/ c[1] < d[1]
  \/ c[1] = d[1] /\ c[2] < d[2]
  \/ c[1] = d[1] /\ c[2] = d[2] /\ c[3] < d[3]

BuiltinNames == {s.name : s \in BuiltinScope}
BadParams(f) ==
  \E k \in DOMAIN Params(f) :
    \/ Params(f)[k].name \in BuiltinNames
    \/ \E j \in 1 .. k - 1 : Params(f)[j].name = Params(f)[k].name

\* A declaration that is not refused by itself, and the first one of its name.
Definition(c) == asts[c[2]][c[3]]
Fine(c) ==
  /\ c \in Declarations
  /\ Definition(c).name \notin BuiltinNames
  /\ Definition(c).def = "func" => ~BadParams(<<c[2], c[3]>>)
First(c) == Fine(c) /\ \A d \in Declarations : Fine(d) /\ Before(d, c) => Definition(d).name # Definition(c).name

SymbolOf(c) == Symbol(Definition(c).name, Definition(c).def, <<c[2], c[3]>>)
GlobalSymbols == {SymbolOf(c) : c \in {d \in Declarations : First(d)}}

\* When the declarations are done the global scope holds the first acceptable
\* declaration of each name and nothing else, also when a function was taken
\* out again because of its parameters.
GlobalScopeExact ==
  Idle /\ phase = 4 /\ ast = 1 /\ pos = 1 =>
    {scopes[1][i] : i \in DOMAIN scopes[1]} = GlobalSymbols

\* A call never meets a function whose signature is unresolved: from the
\* third loop on, the functions in scope have a return type and all their
\* parameter types.  This is why ResolveCall need not check them.
CalleesAreTyped ==
  Idle /\ phase > 2 =>
    \A d \in DOMAIN scopes : \A i \in DOMAIN scopes[d] :
      LET f == scopes[d][i].node
      IN  scopes[d][i].kind = "func" =>
            /\ ReturnType(f) \in DOMAIN types
            /\ \A k \in DOMAIN Params(f) : TypeOf(ParamAt(f, k)) \in DOMAIN types

\* A wild type pointer, and a null scope, is only met in a program in which an
\* error was found before.
WildTypeOnlyAfterError == result = "WILD_TYPE" => ~verdict \/ ~ok
NullScopeOnlyAfterError == result = "NULL_SCOPE" => ~verdict \/ ~ok
CrashOnlyAfterError == WildTypeOnlyAfterError /\ NullScopeOnlyAfterError
==============================================================================
