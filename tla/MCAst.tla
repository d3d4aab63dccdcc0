--------------------------------- MODULE MCAst ---------------------------------
(* AstOwnership on programs that use every rule of the grammar, with memory  *)
(* that runs out anywhere, errors anywhere, and up to two calls on the AST.  *)
EXTENDS AstOwnership, SequencesExt

Program(definitions) == FlattenSeq(definitions) \o <<"module">>
Function(statements) ==
  <<"ID", "ID", "ID", "parameter", "first", "ID", "func_signature">> \o statements \o
  <<"block", "body", "definition">>
Variable == <<"ID", "direct">>

\* var v : t;  type r = {f : t; g : t;};  type a = t;
Types ==
  Program(<<<<"ID", "ID", "def_variable", "definition", "first">>,
            <<"ID", "ID", "ID", "def_field", "first", "ID", "ID", "def_field", "append",
              "typedesc_record", "def_type", "definition", "append">>,
            <<"ID", "ID", "typedesc_alias", "def_type", "definition", "append">>>>)

\* type r = [{f : t;}];
ArrayOfRecords ==
  Program(<<<<"ID", "ID", "ID", "def_field", "first", "typedesc_record", "typedesc_array",
              "def_type", "definition", "first">>>>)

\* type a = [[t]];
ArrayOfArrays ==
  Program(<<<<"ID", "ID", "typedesc_alias", "typedesc_array", "typedesc_array", "def_type",
              "definition", "first">>>>)

\* extern function f();  function g(p : t) : t { if v == null || 1.5 > v {} else { break; } }
Conditions ==
  Program(<<<<"ID", "nothing", "void", "func_signature", "definition", "first">>,
            Function(Variable \o <<"var", "null", "compar", "FLOAT", "literal">> \o Variable \o
                     <<"var", "compar", "and_or", "nothing", "block", "break", "first", "block",
                       "if", "first">>), <<"append">>>>)

\* function g(p : t) : t { while v == 'c' { {continue;} } }
Loops ==
  Program(<<Function(Variable \o <<"var", "CHAR", "literal", "compar", "continue", "first",
                                   "block", "block_stmt", "first", "block", "while", "first">>),
            <<"first">>>>)

\* function g(p : t) : t { v[1].f = v as t; }
Accesses ==
  Program(<<Function(Variable \o <<"var", "INT", "literal", "indexed", "var", "ID", "field">> \o
                     Variable \o <<"var", "ID", "as", "assign", "first">>), <<"first">>>>)

\* function g(p : t) : t { @f(v, new t[2]); }
Calls ==
  Program(<<Function(<<"ID">> \o Variable \o
                     <<"var", "first", "ID", "INT", "literal", "new", "append", "call", "call_exp",
                       "echo", "first">>), <<"first">>>>)

\* function g(p : t) : t { return "s" == null ? -1 : new t + 1; }, and what may stand there
Literals ==
  Program(<<Function(<<"STR", "string", "null", "compar", "INT", "literal", "unary", "ID",
                       "nothing", "new", "INT", "literal", "binary", "conditional", "return", "first">>),
            <<"first">>>>)

\* function g(p : t) : t { @0x1; f(); var v : t; }, the literal after a name
Hexadecimal ==
  Program(<<Function(<<"HEX", "literal", "echo", "first", "ID", "nothing", "call", "call_stmt",
                       "append", "ID", "ID", "def_variable", "var_stmt", "append",
                       "nothing", "return", "append">>),
            <<"first">>>>)

AllPrograms ==
  {Types, ArrayOfRecords, ArrayOfArrays, Conditions, Loops, Accesses, Calls,
    Literals, Hexadecimal}

-----------------------------------------------------------------------------
(* What a comment says, and the code does not do                            *)

\* sem.c: the anonymous nodes are discarded with the other nodes of the tree, so
\* that with memory enough nothing is destroyed twice.
DiscardedAltogether == faults = {} => result \notin {"DOUBLE_FREE", "USE_AFTER_FREE"}
=============================================================================
