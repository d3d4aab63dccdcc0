------------------------------ MODULE AstOwnership ------------------------------
(***************************************************************************)
(* Who owns the memory of an AST: the actions of grammar.y that build its  *)
(* nodes, the constructors and destructors of src/src/libmonga/ast, the    *)
(* anonymous types that sem.c adds, and Mon_AstDestroy.                    *)
(*                                                                         *)
(* The program is given as what the parser does with it: the tokens that   *)
(* carry a value and the reductions that change one, in the order in which *)
(* bison shifts and reduces them.  A value is a block of the heap or NULL. *)
(* A Mon_Vector is its buffer: NULL while it is empty.                     *)
(***************************************************************************)
EXTENDS Integers, Sequences, Functions, Lists

CONSTANTS
  Programs,   \* sequences of tokens and reductions that end in "module"
  MIN_SIZE,   \* the first capacity of a vector (16 in the code)
  MAX_CALLS,  \* bound: analyses and Mon_AstAddDefinition calls on one AST
  MAX_ARRAYS  \* bound: anonymous array types made by one analysis

ASSUME BoundsAreNumbers == MIN_SIZE \in Nat \ {0} /\ MAX_CALLS \in Nat /\ MAX_ARRAYS \in Nat

NULL == 0
STATIC == -1  \* s_UnnamedModuleName, which malloc never returned
WILD == -2    \* the text of a string literal that has none: NULL, or a number
AST == 1      \* the block of the Mon_Ast

VARIABLES
  input,    \* what the parser has still to do
  yykind,   \* yylval.literal.literalKind, as the last token left it
  stack,    \* bison's stack of values
  heap,     \* the live blocks: [kind, names, kids]
  next,     \* the next block malloc returns; none is used twice
  ast,      \* [name, defs, types] of the Mon_Ast: moduleName, definitions, usedTypes
  scope,    \* the symbols of anonymous types in the scopes of a running analysis
  made,     \* what it made: [records, arrays], descriptions and a number
  calls,    \* destructor calls and frees that are pending, the next one first
  phase,    \* "parse", "ready", "analysis" or "destroyed"
  ops,      \* how many analyses and calls of Mon_AstAddDefinition there were
  result,   \* "running", or the undefined behaviour that ended the program
  leaked,   \* history: the blocks that code dropped, by what dropped them
  shared,   \* history: the descriptions an anonymous record shares with an array
  faults    \* history: the allocations that failed, by what they were for

parser == <<input, yykind, stack>>
memory == <<heap, next>>
analysis == <<scope, made>>
history == <<leaked, shared, faults>>
vars == <<parser, memory, ast, analysis, calls, phase, ops, result, history>>

-----------------------------------------------------------------------------
(* Nodes: how many strings a constructor duplicates, how many children it   *)
(* keeps, and in which order the destructor releases the parts              *)

Shape(names, kids, order) == [names |-> names, kids |-> kids, order |-> order]

\* Destructors that free the node last, and those that work on a copy of it.
NodeLast == <<"kids", "names", "node">>
NodeFirst == <<"node", "kids", "names">>

ExpShapes ==
  [Bin |-> Shape(0, 2, NodeFirst), CallExp |-> Shape(0, 1, NodeFirst), New |-> Shape(1, 1, NodeFirst),
   Un |-> Shape(0, 1, NodeFirst), CondExp |-> Shape(0, 3, NodeFirst), Cast |-> Shape(1, 1, NodeFirst),
   VarExp |-> Shape(0, 1, NodeFirst), Literal |-> Shape(0, 0, NodeFirst),
   StrLiteral |-> Shape(1, 0, NodeFirst), Null |-> Shape(0, 0, NodeFirst)]
CondShapes == [BinCond |-> Shape(0, 2, NodeFirst), Compar |-> Shape(0, 2, NodeFirst)]
StatementShapes ==
  [CallStmt |-> Shape(0, 1, NodeLast), Echo |-> Shape(0, 1, NodeLast), BlockStmt |-> Shape(0, 1, NodeLast),
   While |-> Shape(0, 2, NodeLast), If |-> Shape(0, 3, NodeLast), Return |-> Shape(0, 1, NodeLast),
   VarStmt |-> Shape(0, 1, NodeLast), Assign |-> Shape(0, 2, NodeLast),
   Break |-> Shape(0, 0, NodeLast), Continue |-> Shape(0, 0, NodeLast)]
BlockShape == [Block |-> Shape(0, 1, NodeLast)]
CallShape == [Call |-> Shape(1, 1, NodeLast)]
VarShapes ==
  [Indexed |-> Shape(0, 2, NodeLast), Field |-> Shape(1, 1, NodeLast), Direct |-> Shape(1, 0, NodeLast)]
TypeDescShapes ==
  [Record |-> Shape(0, 1, NodeLast), Array |-> Shape(0, 1, NodeLast), Alias |-> Shape(1, 0, NodeLast)]
FieldShape == [FieldDef |-> Shape(2, 0, NodeLast)]
ParamShape == [Param |-> Shape(2, 0, NodeLast)]
VarDefShape == [VarDef |-> Shape(2, 0, NodeLast)]
FuncDefShape == [FuncDef |-> Shape(2, 2, NodeLast)]
TypeDefShape == [TypeDef |-> Shape(1, 1, <<"names", "node", "kids">>)]
DefShape == [Def |-> Shape(0, 1, NodeLast)]

Shapes ==
  Together({ExpShapes, CondShapes, StatementShapes, BlockShape, CallShape, VarShapes,
            TypeDescShapes, FieldShape, ParamShape, VarDefShape, FuncDefShape, TypeDefShape,
            DefShape, [buffer |-> Shape(0, 0, NodeLast), string |-> Shape(0, 0, NodeLast)]})

Block(kind, names, kids) == [kind |-> kind, names |-> names, kids |-> kids]
Leaf(kind) == Block(kind, << >>, << >>)
At(id, block) == [b \in {id} |-> block]

\* A node and its strings, in the blocks from id on.
Node(id, kind, kids) ==
  LET n == Shapes[kind].names
  IN  Overlay(At(id, Block(kind, [i \in 1 .. n |-> id + i], kids)),
              [b \in id + 1 .. id + n |-> Leaf("string")])
Size(kind) == 1 + Shapes[kind].names

Without(h, blocks) == [b \in DOMAIN h \ blocks |-> h[b]]
Drop(blocks, why) == leaked' = Overlay([b \in blocks \ {NULL, WILD} |-> why], leaked)
Fails(what) == faults' = faults \cup {what}

-----------------------------------------------------------------------------
(* Vectors                                                                  *)

Elements(buffer) == IF buffer = NULL THEN << >> ELSE heap[buffer].kids

\* A push finds no room in the array: the next one may find no memory.
Full(buffer) == \E k \in 0 .. 3 : Len(Elements(buffer)) \in {0, MIN_SIZE * 2^k}

\* Mon_VectorPush: the buffer is allocated by the first push.
BufferOf(buffer, fresh) == IF buffer = NULL THEN fresh ELSE buffer
Pushed(h, buffer, element, fresh) ==
  Overlay(At(BufferOf(buffer, fresh), Block("buffer", << >>, Append(Elements(buffer), element))), h)

-----------------------------------------------------------------------------
(* The grammar: which node a rule makes, from values of which sorts, the    *)
(* places of the names it copies and then frees, and those of the children  *)
(* (0 for a child that is not there yet)                                    *)

Rule(make, takes, names, kids) == [make |-> make, takes |-> takes, names |-> names, kids |-> kids]

TEXT == "text"      \* an identifier, the text of a literal, or a copy of "void"
NUMBER == "number"  \* a literal without a text
TREE == "tree"      \* a node or a vector of nodes, or none where it is optional

DefinitionRules ==
  [definition |-> Rule("Def", <<TREE>>, << >>, <<1>>),
   def_variable |-> Rule("VarDef", <<TEXT, TEXT>>, <<1, 2>>, << >>),
   def_type |-> Rule("TypeDef", <<TEXT, TREE>>, <<1>>, <<2>>)]
TypeRules ==
  [typedesc_alias |-> Rule("Alias", <<TEXT>>, <<1>>, << >>),
   typedesc_array |-> Rule("Array", <<TREE>>, << >>, <<1>>),
   typedesc_record |-> Rule("Record", <<TREE>>, << >>, <<1>>),
   def_field |-> Rule("FieldDef", <<TEXT, TEXT>>, <<1, 2>>, << >>)]
FunctionRules ==
  [func_signature |-> Rule("FuncDef", <<TEXT, TREE, TEXT>>, <<1, 3>>, <<2, 0>>),
   parameter |-> Rule("Param", <<TEXT, TEXT>>, <<1, 2>>, << >>)]
StatementRules ==
  [block |-> Rule("Block", <<TREE>>, << >>, <<1>>),
   if |-> Rule("If", <<TREE, TREE, TREE>>, << >>, <<1, 2, 3>>),
   while |-> Rule("While", <<TREE, TREE>>, << >>, <<1, 2>>),
   assign |-> Rule("Assign", <<TREE, TREE>>, << >>, <<1, 2>>),
   return |-> Rule("Return", <<TREE>>, << >>, <<1>>),
   call_stmt |-> Rule("CallStmt", <<TREE>>, << >>, <<1>>),
   echo |-> Rule("Echo", <<TREE>>, << >>, <<1>>),
   block_stmt |-> Rule("BlockStmt", <<TREE>>, << >>, <<1>>),
   var_stmt |-> Rule("VarStmt", <<TREE>>, << >>, <<1>>),
   break |-> Rule("Break", << >>, << >>, << >>),
   continue |-> Rule("Continue", << >>, << >>, << >>)]
VarRules ==
  [direct |-> Rule("Direct", <<TEXT>>, <<1>>, << >>),
   field |-> Rule("Field", <<TREE, TEXT>>, <<2>>, <<1>>),
   indexed |-> Rule("Indexed", <<TREE, TREE>>, << >>, <<1, 2>>)]
PrimaryRules ==
  [literal |-> Rule("Literal", <<NUMBER>>, << >>, << >>),
   string |-> Rule("StrLiteral", <<TEXT>>, <<1>>, << >>),
   var |-> Rule("VarExp", <<TREE>>, << >>, <<1>>),
   call_exp |-> Rule("CallExp", <<TREE>>, << >>, <<1>>),
   null |-> Rule("Null", << >>, << >>, << >>),
   unary |-> Rule("Un", <<TREE>>, << >>, <<1>>),
   as |-> Rule("Cast", <<TREE, TEXT>>, <<2>>, <<1>>)]
BinaryRules == [binary |-> Rule("Bin", <<TREE, TREE>>, << >>, <<1, 2>>)]
\* Mutant of ConditionalRules: the else expression is the then expression.
ConditionalRulesTwice ==
  [conditional |-> Rule("CondExp", <<TREE, TREE, TREE>>, << >>, <<1, 2, 2>>),
   new |-> Rule("New", <<TEXT, TREE>>, <<1>>, <<2>>)]
ConditionalRules ==
  [conditional |-> Rule("CondExp", <<TREE, TREE, TREE>>, << >>, <<1, 2, 3>>),
   new |-> Rule("New", <<TEXT, TREE>>, <<1>>, <<2>>)]
CondRules ==
  [compar |-> Rule("Compar", <<TREE, TREE>>, << >>, <<1, 2>>),
   and_or |-> Rule("BinCond", <<TREE, TREE>>, << >>, <<1, 2>>)]
CallRules == [call |-> Rule("Call", <<TEXT, TREE>>, <<1>>, <<2>>)]

Rules ==
  Together({DefinitionRules, TypeRules, FunctionRules, StatementRules, VarRules, PrimaryRules,
            BinaryRules, ConditionalRules, CondRules, CallRules})

\* The rules that copy a token's text and do not free it.
KeepsText == {"string", "as"}

-----------------------------------------------------------------------------
(* The parser                                                               *)

Top(n) == SubSeq(stack, Len(stack) - n + 1, Len(stack))
Below(n) == SubSeq(stack, 1, Len(stack) - n)

Running == result = "running" /\ calls = << >>

Parses(steps) ==
  /\ Running /\ phase = "parse" /\ input # << >> /\ Head(input) \in steps
  /\ UNCHANGED <<ast, analysis, calls, ops, shared>>

Shifted(value) == stack' = Append(stack, value) /\ input' = Tail(input)

\* MakeIdentifier returns a local YYSTYPE of which it sets the identifier only.
ShiftName ==
  /\ Parses({"ID"})
  /\ Shifted(next)
  /\ heap' = Overlay(At(next, Leaf("string")), heap) /\ next' = next + 1
  /\ yykind' = "unknown"
  /\ UNCHANGED <<phase, result, leaked, faults>>

\* ProcessStringLiteral returns NULL when there is no memory for the text.
ShiftString ==
  /\ Parses({"STR"})
  /\ \/ /\ Shifted(next)
        /\ heap' = Overlay(At(next, Leaf("string")), heap) /\ next' = next + 1
        /\ UNCHANGED faults
     \/ Shifted(WILD) /\ Fails("text") /\ UNCHANGED memory
  /\ yykind' = "STR"
  /\ UNCHANGED <<phase, result, leaked>>

ShiftNumber ==
  /\ Parses({"INT", "FLOAT", "CHAR"})
  /\ Shifted(NULL)
  /\ yykind' = Head(input)
  /\ UNCHANGED <<memory, phase, result, leaked, faults>>

\* A hexadecimal literal has the kind of the literal before it.
ShiftHex ==
  /\ Parses({"HEX"})
  /\ \E kind \in IF yykind = "unknown" THEN {"STR", "INT"} ELSE {yykind} :
       Shifted(IF kind = "STR" THEN WILD ELSE NULL)
  /\ UNCHANGED <<memory, yykind, phase, result, leaked, faults>>

\* What bison's tables see to: the values on the stack are those of the rule's
\* right-hand side.  A literal without a text is ReduceWild's.
Fits(value, sort) ==
  \/ value = NULL
  \/ /\ sort # NUMBER /\ value \in DOMAIN heap
     /\ heap[value].kind = "string" <=> sort = TEXT

\* A reduction that makes a node.
Reduce ==
  /\ Parses(DOMAIN Rules)
  /\ LET rule == Rules[Head(input)]
         take == Len(rule.takes)
         values == Top(take)
         texts == {values[i] : i \in Range(rule.names)} \ {NULL}
         kept == IF Head(input) \in KeepsText THEN texts ELSE {}
         child(i) == IF i = 0 THEN NULL ELSE values[i]
     IN  /\ Len(stack) >= take /\ \A i \in 1 .. take : Fits(values[i], rule.takes[i])
         /\ heap' = Overlay(Node(next, rule.make, [i \in DOMAIN rule.kids |-> child(rule.kids[i])]),
                            Without(heap, texts \ kept))
         /\ next' = next + Size(rule.make)
         /\ stack' = Append(Below(take), next)
         /\ Drop(kept, "text")
  /\ input' = Tail(input)
  /\ UNCHANGED <<yykind, phase, result, faults>>

\* THROW_IF_ALLOC_FAIL is empty: FILL_NODE_HEADER writes to the node that is
\* not there, as MakeIdentifier writes to its text.
ParserNoMemory ==
  /\ Parses({"ID"} \cup DOMAIN Rules)
  /\ result' = "CRASH" /\ Fails("node")
  /\ UNCHANGED <<parser, memory, phase, leaked>>

\* Mon_AstExpNewLiteral copies from NULL, or from where a number does not point.
ReduceWild ==
  /\ Parses({"literal", "string"}) /\ stack # << >> /\ Top(1) = <<WILD>>
  /\ result' = "CRASH"
  /\ UNCHANGED <<parser, memory, phase, leaked, faults>>

\* Bound: a parse loses one element.
OneLoss == "element" \notin faults

\* Bison's tables again: the value of a list, and those of what has a node.
IsVector(value) == value = NULL \/ (value \in DOMAIN heap /\ heap[value].kind = "buffer")
IsNode(value) == value \in DOMAIN heap /\ heap[value].kind \notin {"string", "buffer"}

\* The first element of a list, or another one; a push that fails is ignored.
ReduceList ==
  /\ Parses({"first", "append"})
  /\ LET take == IF Head(input) = "first" THEN 1 ELSE 2
         buffer == IF take = 1 THEN NULL ELSE Top(2)[1]
         element == Top(1)[1]
     IN  /\ Len(stack) >= take /\ IsVector(buffer) /\ IsNode(element)
         /\ \/ /\ heap' = Pushed(heap, buffer, element, next) /\ next' = next + 1
               /\ stack' = Append(Below(take), BufferOf(buffer, next))
               /\ UNCHANGED <<leaked, faults>>
            \/ /\ Full(buffer) /\ OneLoss
               /\ stack' = Append(Below(take), buffer)
               /\ Drop({element}, "element") /\ Fails("element")
               /\ UNCHANGED memory
  /\ input' = Tail(input)
  /\ UNCHANGED <<yykind, phase, result>>

\* opt_else, opt_exp and opt_bracket_exp without one, and the empty lists.
ReduceNothing ==
  /\ Parses({"nothing"})
  /\ Shifted(NULL)
  /\ UNCHANGED <<memory, yykind, phase, result, leaked, faults>>

\* opt_ret_type copies "void"; the constructor copes with a copy that failed.
ReduceVoid ==
  /\ Parses({"void"})
  /\ \/ /\ Shifted(next)
        /\ heap' = Overlay(At(next, Leaf("string")), heap) /\ next' = next + 1
        /\ UNCHANGED faults
     \/ Shifted(NULL) /\ Fails("void") /\ UNCHANGED memory
  /\ UNCHANGED <<yykind, phase, result, leaked>>

\* def_function: the block becomes the body of the signature's node.
ReduceBody ==
  /\ Parses({"body"})
  /\ LET function == Top(2)[1]
         body == Top(1)[1]
     IN  /\ Len(stack) >= 2 /\ IsNode(function) /\ IsNode(body)
         /\ heap[function].kids = <<heap[function].kids[1], NULL>>
         /\ heap' = [heap EXCEPT ![function].kids[2] = body]
  /\ stack' = Below(1)
  /\ input' = Tail(input)
  /\ UNCHANGED <<next, yykind, phase, result, leaked, faults>>

\* module: the definitions go to the AST.
ReduceModule ==
  /\ Running /\ phase = "parse" /\ input = <<"module">>
  /\ Len(stack) = 1 /\ IsVector(stack[1])
  /\ ast' = [ast EXCEPT !.defs = stack[1]]
  /\ stack' = << >> /\ input' = << >>
  /\ phase' = "ready"
  /\ UNCHANGED <<memory, yykind, analysis, calls, ops, result, history>>

\* Mutant of SyntaxError: the values stay for the next parse.
SyntaxErrorKeepsStack ==
  /\ Running /\ phase = "parse"
  /\ input' = << >> /\ phase' = "ready"
  /\ UNCHANGED <<stack, memory, yykind, ast, analysis, calls, ops, result, history>>

\* There is no %destructor: bison pops its values and forgets them.
SyntaxError ==
  /\ Running /\ phase = "parse"
  /\ stack' = << >> /\ input' = << >>
  /\ Drop(Range(stack), "syntax")
  /\ phase' = "ready"
  /\ UNCHANGED <<memory, yykind, ast, analysis, calls, ops, result, shared, faults>>

-----------------------------------------------------------------------------
(* The destructors: calls that are pending                                  *)

Call(op, blocks) == [i \in DOMAIN blocks |-> [op |-> op, block |-> blocks[i]]]
Frees(blocks) == Call("free", blocks)
Destroys(blocks) == Call("destroy", blocks)

\* What the destructor of a node does, part by part.
Part(b, part) ==
  CASE part = "node" -> Frees(<<b>>)
    [] part = "names" -> Frees(heap[b].names)
    [] part = "kids" -> Destroys(heap[b].kids)
Parts(b) ==
  LET order == Shapes[heap[b].kind].order
  IN  Part(b, order[1]) \o Part(b, order[2]) \o Part(b, order[3])

Pending(op) ==
  /\ result = "running" /\ calls # << >> /\ Head(calls).op \in op
  /\ UNCHANGED <<parser, next, ast, analysis, phase, ops, shared, faults>>
Subject == Head(calls).block

\* free(NULL) and the destructor of a node that is not there do nothing.
Nothing ==
  /\ Pending({"free", "destroy"}) /\ Subject = NULL
  /\ calls' = Tail(calls)
  /\ UNCHANGED <<heap, result, leaked>>

Free ==
  /\ Pending({"free"}) /\ Subject \in DOMAIN heap
  /\ heap' = Without(heap, {Subject})
  /\ calls' = Tail(calls)
  /\ UNCHANGED <<result, leaked>>

\* The node's parts are now the destructor's. The kind of a string literal was
\* never written: by chance the string is freed, or it is not.
Destroy ==
  /\ Pending({"destroy"}) /\ Subject \in DOMAIN heap
  /\ LET string == heap[Subject].kind = "StrLiteral"
     IN  \E chance \in IF string THEN BOOLEAN ELSE {TRUE} :
           /\ calls' = (IF chance THEN Parts(Subject) ELSE Part(Subject, "node")) \o Tail(calls)
           /\ IF chance THEN UNCHANGED leaked ELSE Drop(Range(heap[Subject].names), "literal")
  /\ heap' = [heap EXCEPT ![Subject] = Leaf(heap[Subject].kind)]
  /\ UNCHANGED result

\* free or a destructor is given a block that malloc does not know.
Undefined ==
  /\ Pending({"free", "destroy"}) /\ Subject \notin DOMAIN heap \cup {NULL}
  /\ result' = IF Subject = STATIC THEN "BAD_FREE"
               ELSE IF Head(calls).op = "free" THEN "DOUBLE_FREE" ELSE "USE_AFTER_FREE"
  /\ UNCHANGED <<heap, calls, leaked>>

-----------------------------------------------------------------------------
(* The analysis                                                             *)

Ready == Running /\ phase = "ready" /\ UNCHANGED <<parser, result>>
Analyses == Running /\ phase = "analysis" /\ UNCHANGED <<parser, ops>>

BeginAnalysis ==
  /\ Ready /\ ops < MAX_CALLS
  /\ phase' = "analysis" /\ ops' = ops + 1
  /\ made' = [records |-> {}, arrays |-> 0]
  /\ UNCHANGED <<memory, ast, scope, calls, history>>

\* Cleanup destroys the symbols of the scopes that are left, after a THROW or
\* at the end; pending are the calls before the THROW.
Cleanup(symbols, pending) ==
  /\ calls' = pending \o Frees(symbols)
  /\ scope' = << >> /\ phase' = "ready"
  /\ UNCHANGED made

\* Mutant of EndAnalysis: the last scope is popped and still cleaned up.
EndAnalysisTwice ==
  /\ Analyses /\ Cleanup(scope, Frees(scope))
  /\ UNCHANGED <<memory, ast, result, history>>

EndAnalysis ==
  /\ Analyses /\ Cleanup(scope, << >>)
  /\ UNCHANGED <<memory, ast, result, history>>

\* An anonymous array type is made for a string literal, a new with a length
\* and an array of arrays.
WantsArray ==
  \E b \in DOMAIN heap :
    \/ heap[b].kind = "StrLiteral"
    \/ heap[b].kind = "New" /\ heap[b].kids[1] # NULL
    \/ heap[b].kind = "Array" /\ heap[heap[b].kids[1]].kind = "Array"

\* FindOrCreateArrayType, when there is no symbol of that name in the scopes.
ArrayBlocks ==
  Together({At(next, Leaf("string")), Node(next + 1, "Alias", << >>),
            Node(next + 3, "Array", <<next + 1>>), Node(next + 4, "TypeDef", <<next + 3>>),
            At(next + 6, Leaf("Symbol")), Node(next + 7, "Def", <<next + 4>>)})

CreateArray ==
  /\ Analyses /\ WantsArray /\ made.arrays < MAX_ARRAYS
  /\ heap' = Pushed(Overlay(ArrayBlocks, heap), ast.defs, next + 7, next + 8)
  /\ next' = next + 9
  /\ ast' = [ast EXCEPT !.defs = BufferOf(ast.defs, next + 8)]
  /\ scope' = Append(scope, next + 6) /\ made' = [made EXCEPT !.arrays = @ + 1]
  /\ Drop({next}, "type name")
  /\ UNCHANGED <<calls, phase, result, shared, faults>>

\* One allocation fails, up to the push to the scope: all is released, but for
\* the name when it is the description that cannot be allocated.
ArrayThrows ==
  /\ Analyses /\ WantsArray /\ made.arrays < MAX_ARRAYS
  /\ \/ UNCHANGED <<memory, leaked>>
     \/ /\ heap' = Overlay(At(next, Leaf("string")), heap) /\ next' = next + 1
        /\ Drop({next}, "type name")
  /\ Cleanup(scope, << >>) /\ Fails("array")
  /\ UNCHANGED <<ast, result, shared>>

\* The definition cannot be pushed: its symbol is destroyed, in the scope.
ArrayNotPushed ==
  /\ Analyses /\ WantsArray /\ made.arrays < MAX_ARRAYS /\ Full(ast.defs)
  /\ heap' = Overlay(ArrayBlocks, heap) /\ next' = next + 8
  /\ Cleanup(Append(scope, next + 6),
             Frees(<<next + 6, next>>) \o Destroys(<<next + 7>>))
  /\ Fails("definition")
  /\ UNCHANGED <<ast, result, leaked, shared>>

\* The record that is the element of an array gets a definition of its own.
ElementRecords ==
  {desc \in DOMAIN heap :
     /\ heap[desc].kind = "Record"
     /\ \E b \in DOMAIN heap : heap[b].kind = "Array" /\ heap[b].kids = <<desc>>}

RecordBlocks(desc) ==
  Together({Node(next, "TypeDef", <<desc>>), At(next + 2, Leaf("Symbol")),
            Node(next + 3, "Def", <<next>>)})

CreateRecord ==
  /\ Analyses
  /\ \E desc \in ElementRecords \ made.records :
       /\ heap' = Pushed(Overlay(RecordBlocks(desc), heap), ast.defs, next + 3, next + 4)
       /\ next' = next + 5
       /\ ast' = [ast EXCEPT !.defs = BufferOf(ast.defs, next + 4)]
       /\ scope' = Append(scope, next + 2)
       /\ made' = [made EXCEPT !.records = @ \cup {desc}]
       /\ shared' = shared \cup {desc}
  /\ UNCHANGED <<calls, phase, result, leaked, faults>>

RecordThrows ==
  /\ Analyses /\ ElementRecords \ made.records # {}
  /\ Cleanup(scope, << >>) /\ Fails("record")
  /\ UNCHANGED <<memory, ast, result, leaked, shared>>

RecordNotPushed ==
  /\ Analyses /\ Full(ast.defs)
  /\ \E desc \in ElementRecords \ made.records :
       /\ heap' = Overlay(RecordBlocks(desc), heap) /\ next' = next + 4
       /\ Cleanup(Append(scope, next + 2), Frees(<<next + 2>>) \o Destroys(<<next + 3>>))
       /\ shared' = shared \cup {desc}
  /\ Fails("definition")
  /\ UNCHANGED <<ast, result, leaked>>

\* Mon_AstDefNewType writes to the definition that MakeDefNode could not make.
DefinitionNoMemory ==
  /\ Analyses
  /\ (WantsArray /\ made.arrays < MAX_ARRAYS) \/ ElementRecords \ made.records # {}
  /\ result' = "CRASH" /\ Fails("node")
  /\ UNCHANGED <<memory, ast, analysis, calls, phase, leaked, shared>>

\* AddUsedType: nothing finalises the vector.
UseType ==
  /\ Analyses
  /\ \/ /\ ast.types = NULL
        /\ heap' = Overlay(At(next, Leaf("buffer")), heap) /\ next' = next + 1
        /\ ast' = [ast EXCEPT !.types = next]
        /\ UNCHANGED <<analysis, calls, phase, faults>>
     \/ Cleanup(scope, << >>) /\ Fails("used type") /\ UNCHANGED <<memory, ast>>
  /\ UNCHANGED <<result, leaked, shared>>

-----------------------------------------------------------------------------
(* The calls on an AST                                                      *)

VariableBlocks == Together({Node(next, "VarDef", << >>), Node(next + 3, "Def", <<next>>)})

\* Mon_AstVarDefNew, Mon_AstDefNewVar and Mon_AstAddDefinition. When there is
\* no memory the definition stays with the caller and nothing changes here.
AddDefinition ==
  /\ Ready /\ ops < MAX_CALLS
  /\ heap' = Pushed(Overlay(VariableBlocks, heap), ast.defs, next + 3, next + 4)
  /\ next' = next + 5
  /\ ast' = [ast EXCEPT !.defs = BufferOf(ast.defs, next + 4)]
  /\ ops' = ops + 1
  /\ UNCHANGED <<analysis, calls, phase, history>>

\* Mutant of AstDestroy: the definitions are destroyed, their vector is not finalised.
AstDestroyKeepsVector ==
  /\ Ready
  /\ calls' = Destroys(Elements(ast.defs)) \o Frees(<<ast.name, AST>>)
  /\ heap' = IF ast.defs = NULL THEN heap ELSE [heap EXCEPT ![ast.defs] = Leaf("buffer")]
  /\ Drop({ast.types}, "used types")
  /\ ast' = [name |-> NULL, defs |-> NULL, types |-> NULL]
  /\ phase' = "destroyed"
  /\ UNCHANGED <<next, analysis, ops, shared, faults>>

\* Mon_AstDestroy: all but the vector of used types.
AstDestroy ==
  /\ Ready
  /\ calls' = Destroys(Elements(ast.defs)) \o Frees(<<ast.name, ast.defs, AST>>)
  /\ heap' = IF ast.defs = NULL THEN heap ELSE [heap EXCEPT ![ast.defs] = Leaf("buffer")]
  /\ Drop({ast.types}, "used types")
  /\ ast' = [name |-> NULL, defs |-> NULL, types |-> NULL]
  /\ phase' = "destroyed"
  /\ UNCHANGED <<next, analysis, ops, shared, faults>>

\* Mon_AstNew, with a name or without, and the program that is parsed.
Init ==
  /\ input \in Programs /\ yykind = "STR" /\ stack = << >>
  /\ \/ /\ heap = Overlay(At(AST, Leaf("Ast")), At(AST + 1, Leaf("string")))
        /\ ast = [name |-> AST + 1, defs |-> NULL, types |-> NULL]
     \/ /\ heap = At(AST, Leaf("Ast"))
        /\ ast = [name |-> STATIC, defs |-> NULL, types |-> NULL]
  /\ next = AST + 2
  /\ scope = << >> /\ made = [records |-> {}, arrays |-> 0]
  /\ calls = << >> /\ phase = "parse" /\ ops = 0 /\ result = "running"
  /\ leaked = << >> /\ shared = {} /\ faults = {}

Next ==
  \/ ShiftName \/ ShiftString \/ ShiftNumber \/ ShiftHex
  \/ Reduce \/ ReduceWild \/ ReduceList \/ ReduceNothing \/ ReduceVoid \/ ReduceBody
  \/ ReduceModule \/ ParserNoMemory \/ SyntaxError
  \/ Nothing \/ Free \/ Destroy \/ Undefined
  \/ BeginAnalysis \/ EndAnalysis \/ CreateArray \/ ArrayThrows \/ ArrayNotPushed
  \/ CreateRecord \/ RecordThrows \/ RecordNotPushed \/ DefinitionNoMemory \/ UseType
  \/ AddDefinition \/ AstDestroy

Spec == Init /\ [][Next]_vars

-----------------------------------------------------------------------------

\* Who refers to which block: the names and the children of a node, the parser's
\* values, the scopes, the calls that are pending and the AST.
References ==
  (UNION {{<<"name", n, i, heap[n].names[i]>> : i \in DOMAIN heap[n].names} \cup
          {<<"kid", n, i, heap[n].kids[i]>> : i \in DOMAIN heap[n].kids} : n \in DOMAIN heap}) \cup
  {<<"stack", 0, i, stack[i]>> : i \in DOMAIN stack} \cup
  {<<"scope", 0, i, scope[i]>> : i \in DOMAIN scope} \cup
  {<<"call", 0, i, calls[i].block>> : i \in DOMAIN calls} \cup
  {<<"ast", 0, 1, ast.name>>, <<"ast", 0, 2, ast.defs>>, <<"ast", 0, 3, ast.types>>}

\* The blocks in use and those that were dropped were allocated, a block is a node,
\* a string or a buffer, and only a parse has values on bison's stack.
TypeOK ==
  /\ \A b \in DOMAIN heap : b < next /\ heap[b].kind \in DOMAIN Shapes \cup {"Ast", "Symbol"}
  /\ DOMAIN leaked \subseteq 1 .. next - 1
  /\ phase \in {"parse", "ready", "analysis", "destroyed"}
  /\ result \in {"running", "CRASH", "DOUBLE_FREE", "USE_AFTER_FREE", "BAD_FREE"}
  /\ ops \in 0 .. MAX_CALLS
  /\ phase # "parse" => stack = << >>

\* What may have more owners: the descriptions that an anonymous record shares with
\* the array it is the element of (CreateAnonymousRecord), and, where memory ran out
\* for a definition, symbols: one is destroyed while it is in its scope.
Excused ==
  shared \cup (IF "definition" \in faults THEN {b \in DOMAIN heap : heap[b].kind = "Symbol"} ELSE {})

\* A live block that is not excused has one owner: no rule of the grammar, constructor,
\* destructor or step of an analysis frees what another still refers to.
SingleOwner ==
  LET references == {r \in References : r[4] \in DOMAIN heap \ Excused}
  IN  \A r, s \in references : r[4] = s[4] => r = s

\* No block is lost but where it is known: the values of a parse that ends with
\* an error, an element for which a vector does not grow, the texts of string
\* literals and of the types of casts, the names of anonymous array types, and
\* the vector of used types. All else is freed when the AST is destroyed.
NoOrphans ==
  DOMAIN heap \subseteq {AST} \cup {r[4] : r \in References} \cup DOMAIN leaked

\* The program has defined behaviour unless memory ran out, an array of records
\* was analysed, the AST has no name, or a hexadecimal literal stands for text.
SafeUnlessKnown ==
  CASE result = "BAD_FREE" -> Head(calls).block = STATIC
    [] result \in {"DOUBLE_FREE", "USE_AFTER_FREE"} -> shared # {} \/ "definition" \in faults
    [] result = "CRASH" -> faults \cap {"node", "text"} # {} \/ WILD \in Range(stack)
    [] OTHER -> TRUE
=============================================================================
