# A verification project for the Monga compiler

Monga is a small imperative language with records, arrays and type aliases. The
repository holds a compiler library (`src/src/libmonga`) that translates it to LLVM
assembly, a command-line driver (`src/src/exec`) and a C runtime (`src/src/monrt`).
This directory holds TLA+ models of the parts of it that keep state, the TLC
configurations that check them, and proofs for TLAPS.

Line numbers below are those of the files under `src/src/libmonga` unless a path says
otherwise. `PROJECT.json` maps every definition of the models to the lines it stands for.

## 1. Inventory

| Part | State | Operations | Interacts with |
|---|---|---|---|
| **vector** `vector.c` | `_arr`, `_count`, `_cap` | init, push, remove, clear, claim, finalize, get, index | everything: scopes, definition groups, all lists of nodes |
| **dictionary** `dict.c` | bucket array, chains, count, size | init, set, get, remove, finalize, rehash | tests only, so far |
| **lexer** `lex.l`, `lex.c` | flex's stream `yyin` and buffer, token position, a busy flag | `yylex`, `Mon_DumpLex` | parser; shares the flex state with it |
| **parser** `parser.c`, `grammar.y` | `s_Busy`, `mon_TargetAst`, bison's stack | `Mon_Parse` | lexer; fills an AST and sets its state |
| **AST** `ast.c`, `ast/`, `defgroup.c`, `strutils.c` | nodes, definition group, `astState`, semantic fields; who owns which block | constructors, destructors, `Mon_AstAddDefinition`, `Mon_AstDestroy` | built by the parser, annotated by the analyser, read by code generation |
| **type rules** `sem/types.c`, `sem/builtins.c` | the table of builtin types | assignable, castable, operators, fields, indexing | semantic analysis, code generation |
| **semantic analysis** `sem.c`, `sem/scope.c`, `sem/symbol.c` | scope chain, `loopLevel`, anonymous-record counter, used types, annotations | `Mon_SemAnalyse`, `Mon_SemAnalyseMultiple` | vector, AST, type rules; appends definitions to the AST it walks |
| **code generation** `codegen/` | next local, next label, locals, enclosing loop, string literals, dependencies | `Mon_GenerateLLVM` | reads the annotated AST, writes text |
| **AST dump** `ast_xml.c`, `ast_dump.c` | none | XML output | AST |
| **driver** `src/src/exec/main.c` | arguments, ASTs by file | argument scan, one function per mode | parser, analysis, generation |
| **runtime** `src/src/monrt/c` | type table, heap | objects, arrays, strings, input | compiled programs |

### What is hard, and what correctness means

- **vector.** Any allocation may fail; a shrink happens in the middle of a removal; a
  claimed buffer changes hands. *Correct:* the elements are always inside a buffer that
  the vector owns alone, and the caller sees a sequence.
- **lexer and parser.** One process-wide scanner, guarded by two busy flags that are tested
  and set in separate steps, and a flex buffer that outlives a failed parse. *Correct:* calls
  exclude each other, a successful parse holds the definitions of its own stream, and every
  call returns.
- **semantic analysis.** Five loops over all the ASTs, mutually recursive functions that
  leave early with scopes pushed, `longjmp` out of all of them, and lists that grow while
  they are walked. *Correct:* names mean what lexical scope says, the scope chain is
  restored whatever fails, success means that every annotation is there, the verdict agrees
  with the state of every AST, and the analysis ends.
- **dictionary.** A slot found before a rehash is used after it; the key comparison is a prefix
  comparison; the index may be negative. *Correct:* it implements a map.
- **code generation.** One pass over the tree prints labels, branches and numbered locals that have to fit
  together, and trusts flags that the analysis computed. *Correct:* LLVM accepts the text, and running it does
  what the source means; the tables of literals and of declared functions agree with what the text refers to.
- **AST.** Every constructor copies names and adopts children, every rule of the grammar frees what was copied, and any
  allocation may fail in between; an analysis adds nodes of its own. *Correct:* each block has one owner, and
  destroying the AST frees all of them once.
- **driver.** Two nested loops move one index over the arguments; files are opened, parsed, analysed and written in stages, and
  every failure ends the program where it is. *Correct:* it works on the files it was given, translates each from its own text,
  and leaves no output behind unless all files were good.
- **runtime.** String boundaries and the order of free and use.

Section 6 of this file and `hazards` in `PROJECT.json` say which of these are covered.

## 2. Modules

```
VectorSeq  <--implements--  MonVector  <-- MCMonVector (TLC), MonVectorProofs (TLAPS)

Types  <--extends--  Sem  <-- MCSem (TLC), SemProofs (TLAPS)

Parser <-- MCParser (TLC), ParserProofs (TLAPS)
Parser  <--instance--  Driver  <-- MCDriver (TLC), DriverProofs (TLAPS)
Lemmas (TLAPS)  <--extends--  ParserProofs, DriverProofs, SemProofs, MonDictProofs, LlvmProofs, AstProofs

AstOwnership <-- MCAst (TLC), AstProofs (TLAPS)

MonDict <-- MCMonDict (TLC), MonDictProofs (TLAPS)

Types  <--extends--  LlvmGen  <--extends--  LlvmRun  <-- MCLlvm (TLC), LlvmProofs (TLAPS)
Lists  <--extends--  Sem, LlvmGen, AstOwnership, Lemmas
```

**`Lists`** says what a list is that the programs of `Sem` and the text of `LlvmGen` are made of: a function on `1 .. n`, whatever its elements are. It also says what functions are `Together`, which is how
`AstOwnership` joins the blocks of several nodes, and what one `Overlay`s another with, which is how `Sem` starts with the builtin types and those of the program.

**`VectorSeq`** is what a vector promises: a sequence `elems` of length `len`, with a push that
appends or answers `NOMEM`, a removal that closes the gap, and a claim that empties it.

**`MonVector`** is `vector.c`: `buf`, `arr`, `count`, `cap` are `_arr`, its cells, `_count` and
`_cap`. The heap is the set of live buffers; `realloc` may stay, move, or fail. There is one
action per operation; `Push` and `Remove` split into their cases (in place, resized, out of memory).
`Mon_VectorGet`, `GetIndex` and `Contains` change nothing: they are operators whose result an
action stores in `ret`. Callers obey the asserted preconditions.

**`Types`** is `types.c` and `builtins.c`: a type definition is a record with its description, array
depth and semantic fields, and every rule is an operator with the name of the C function.
`GetUnderlyingType` follows an alias chain for as many steps as there are aliases, and answers `LOOP` where the C code
would not return: what is still an alias after that is on a cycle. Reading a type field nobody has written gives `JUNK`.

**`Sem`** is `sem.c` with `scope.c` and `symbol.c`. The C call stack of `Resolve...` functions is an
*agenda*: a sequence of tasks, the head of which is what runs next. A call pushes tasks in front.
Returning `false` drops tasks up to the next *marker*: the places where the C code goes on after a failure
(the rest of an `if`, the `PopScope` at a `while`'s end, the next statement of a block, the next definition
of `Analyse`). A loop over parameters, fields, array layers, statements or arguments is a task that carries the index it
has reached and leaves a task for the next one. `fieldError` remembers that the type of a record's field was not found. `vals` holds the types of operands between their resolution and their use. The
annotations are functions on paths of nodes: `sem` (the `semantic.type` fields), `bind` (the declaration a
variable or call refers to), `exits` (`allPathsExit`), `used`. Undefined behaviour is explicit: a run that
passes an unwritten type to a rule, pops a null scope, walks a reallocated vector or destroys a symbol twice
ends in the `result` that names it; a value that `malloc` left (the flag `allPathsExit`, the kind of a string
literal) is any value.

**`Parser`** is `Mon_Parse` and `Mon_DumpLex` in the threads of one process, with one step per statement
that touches shared state: test, set, target, input, each token, accept, state, clear. The scanner
behind both is flex's, modelled from how it is used: `yyin`, a buffer filled in blocks, and how far each
stream was read. A stream is a sequence of definitions and syntax errors, not of characters.

**`Driver`** is `main.c`. `at` is the index of `ParseArgs`, and what it finds goes to `mode` and `inputs`; each of the ways an
argument can be read is an action. `step` is where the function of the mode is, `pos` the input its loop has reached. The calls of the
library are those of `Parser`, instantiated with one thread: `Call` is its `Begin`, `Parse` a step of the call, and the
driver goes on when the call has returned. Since the driver's allocator exits when there is no memory, `OutOfMemory` is an action of the
whole program, and the outcomes of `Parser` that lose a definition for lack of memory are ruled out. Analysis and code generation are what they return. The
modules write the outputs (`outputs`) into streams that are never closed: `Flush` is the exit of the C library, which may fail unseen.

**`AstOwnership`** is who owns the memory of an AST: `heap` maps the live blocks to their kind, the names they own and their
children. The grammar is data: `Rule` says which node an action of `grammar.y` makes, from which values of bison's `stack`, which of them it
copies and frees, and in which places the children go; `Shape` says what a constructor copies and in which order the destructor frees.
A program is the sequence of its shifts and reductions, as the LALR tables would order them, and any allocation on the
way may fail. What those tables ensure is a guard of the reductions, so that it holds for every sequence: each value is of the sort that `%type` gives it
(`Fits`, `IsVector`, `IsNode`). `calls` are the destructor calls and frees that are pending, so that a destructor runs in steps, block by block. An analysis
adds array types, and the records among their elements, with the sharing that `CreateAnonymousRecord` sets up. Freeing a block twice, reading a freed one and freeing what was
never allocated are outcomes (`result`). `leaked` records each block the code drops, with the place that drops it.

**`MonDict`** is `dict.c`: `table` is the array of chains, a chain a sequence of buckets. A rehash
moves all the buckets, in the order in which the code walks them, into a new array (`Rehashed` is the loop over the chains, `MovedChain` the one over the buckets of a chain), or leaves everything as it is when any of its allocations
fails (`KeepSize`): the array it was filling is its own, with buckets of its own, and the table is not touched before it is complete. That it is one step hides nothing, as nothing else runs in
between; a mutant that puts the half-filled array in place (`KeepHalf`) violates `FoundUnlessLost`. `Mon_DictSet` has four outcomes: the key has a bucket; the table keeps its size; there is no memory; or the table was
resized under the slot that had been found, and the bucket is stored into freed memory. Two histories state the properties:
`written` is the map that the results of the calls describe, `lost` the keys stored into freed memory.

**`LlvmGen`** is `Mon_GenerateLLVM`, from the annotated module to the lines of each function. As in `Sem` the C stack is
an agenda; `vals` are the `LlvmValue`s that finished calls returned, `always` is the result of `CompileStatement`. Counters,
locals and the labels of the enclosing loop are variables as in `LlvmGenContext`. A line of text is a record with its operation,
result, operands and whatever else is printed. Printing a string literal enters it in the table, with the index the code prints. Each
`longjmp` is an outcome of `Failure`; the one from the first allocations, before `errStream` is set, is `WILD_STREAM`. Literals,
object sizes and field indexes are their names.

**`LlvmRun`** is external: what LLVM makes of the text. A finished function is run on terms instead of numbers ("the answer of the
third call", "the sum of these two"), and a comparison may go either way. The trace holds calls with their arguments,
comparisons and the return. Text that LLVM refuses, such as a branch to a label that is not there, gets stuck.

**`MCAst`** holds nine programs that use every rule of the grammar between them. The properties are in `AstOwnership`, with the owners of each block by
definition (`References`): the nodes that refer to it, the stack, the scopes of a running analysis, the calls that are pending, and the AST.
`SafeUnlessKnown` lists what is known to be undefined: out of memory while a symbol is registered, an analysed array of
records, a nameless AST, and a hexadecimal literal taken for text. `NoOrphans` lists what is known to leak: the values of a parse that fails (the grammar has no
`%destructor`), elements a vector has no room for, texts of string literals and of casts, names of anonymous array types, and `usedTypes`.

**`MCDriver`** holds the command lines. What they mean by definition is in `Driver`, apart from its steps: the arguments that belong to the
first mode (`Own`), and that there is no other mode but in the one place the scan does not look at (`Asked`).

**`MCLlvm`** holds the programs and a reference: `Does` gives the meaning of every construct of the language by recursion over the
tree, with environments instead of numbered locals and without labels. `RunsAsWritten` compares the traces, comparison by
comparison. The order of evaluation is taken from the code, as no document states one. `Sound` lists what the generator is known to get wrong; `BasicBlocks` and
`RunsAsWritten` are claimed for the functions outside of it:

- an `if` of which exactly one of two blocks exits (the label at its end is not printed);
- statements after a nested block, a `break` or a `continue` that exits: the flags say that the block has ended, and the
  text goes on;
- conversions from a float to an integer and to a `char`, `null` where no conversion gives it a value, `len` and `~`, the
  negation of a float, the sum of strings.

The set of programs has one of each, so that the list is known to be needed; every other program in the set is claimed for. Printing a string literal
again, which gets the index behind its own, is outside `LiteralsResolve` in the same way.

## 3. Runs

| Run | Module, configuration | Shows |
|---|---|---|
| `vector` | `MCMonVector`, `MonVector.cfg` | type invariant, `ElementsFit`, `OneOwner`, `NoThrashing`, refinement `IsSequence` |
| `sem` | `MCSem`, `Sem.cfg` | type invariant, eight safety properties, `Termination` |
| `sem_fields` | `MCSem`, `SemFields.cfg` | a violation: record fields leak into the global scope |
| `sem_exits` | `MCSem`, `SemExits.cfg` | a violation: functions without a return accepted |
| `parser` | `MCParser`, `Parser.cfg` | type invariant, `OwnStream`, `NothingMissing`, `EveryCallReturns` |
| `parser_race` | `MCParser`, `ParserRace.cfg` | a violation: two parses at once |
| `dict` | `MCMonDict`, `MonDict.cfg` | type invariant, `NoDuplicates`, `FoundUnlessLost`, `CountCovers`, `LoadBounded` |
| `ast` | `MCAst`, `Ast.cfg` | type invariant, `SingleOwner`, `NoOrphans`, `SafeUnlessKnown` |
| `ast_shared` | `MCAst`, `AstShared.cfg` | a violation: an analysed array of records is destroyed twice in part |
| `driver` | `MCDriver`, `Driver.cfg` | type invariant, `ArgumentsHonoured`, `OwnDefinitions`, `OutputsAreWhole`, `DriverEnds` |
| `llvm` | `MCLlvm`, `Llvm.cfg` | type invariant, `NamesOnce`, `BasicBlocks`, `RunsAsWritten`, `LiteralsResolve`, `CalleesDeclared`, `ContextRestored` |
| `llvm_if` | `MCLlvm`, `LlvmEndLabel.cfg` | a violation: a branch to a label that is not printed |

The violations are disagreements between the code and its own comments or assertions; `findings` in
`PROJECT.json` quotes the line for each. Another finding is about the readme: `readme.md:39` gives the usage `monga -o <programOutputPath> <mongaSource1>[, <otherMongaSource>...]`,
whereas `ArgumentsHonoured`, which passes, says that the files of `-o` begin with the argument right behind it. So the path that the readme means for the output is opened as a
source and ends the program if it is not there, or is compiled with the others; an output is always named after its source (`main.c:348`). `scripts/bash/domonga:62` calls the program as
the code has it. Three more disagreements are stated by properties that pass, as the exception each of
them makes: alias cycles, for which the analysis never ends (`Termination`); keys that are lost when the table grows
(`FoundUnlessLost`); and text of a failed parse that the next one scans (`NothingMissing`). `OwnDefinitions` shows that the last does not reach the user of the
driver, which parses nothing after a file that failed.

### Bounds, and why they are enough

- `MonVector`: `MIN_SIZE` is 2 where the code has 16. The growth and shrink rules are formulas in
  `MIN_SIZE` and the capacity, so 2, with at most `MAX_COUNT` = 5 elements, passes through two growths (2, 4,
  8) and the shrinks back. Two values tell neighbours apart; three buffers allow one owned, one
  claimed and one to move to. Buffers are symmetric. The proofs need none of these bounds.
- `Sem`: `DEFAULT_CAP` is 2, so that one or two anonymous types already move the vector of definitions.
  `SmallPrograms` is a fixed set: function bodies that use each kind of statement, expression and variable,
  right and wrong; all ordered pairs of nine statements that declare, shadow or leave scopes;
  all ordered pairs of eleven type definitions with a function that uses them; seven programs of two ASTs. Each is
  started with its ASTs in every combination of states in which their trees can be fresh: `NONE`, `SYNTAX_OK`, and what an earlier analysis left that ran out of memory in its
  first loop, `SEM_OK` or, if the AST has a type that can be refused, `SEM_ERR`. Recursion in the program
  text is at most three levels deep: a scope, a loop or an operand inside another of its kind.
- `Parser`: two threads, three streams (empty; an error and a definition; three definitions) and blocks of 2, so
  that a block ends inside a stream, at its end, and after an error with text left over. Each stream is given
  to one call, as a caller opens a file, so that there are three calls over two threads: a call that waits, one that
  runs, and one that comes after a failed one.

- `MonDict`: five keys of which two share a hash (as `"10"` and `"11"` do: `Hash` never reads the last character), one shares a slot with another
  in the smallest table only, and one has a negative hash that is an index of the smallest table only. `MIN_SIZE` is 4 where the code
  has 8, and a count up to 6 makes the table grow to 8 and shrink again; 4 is the least size at which, as in the code, growing takes more than
  two keys. No two keys of the run that start one another share a hash, which for the code's hash is a coincidence of one in 2^32.

- `LlvmGen`: six kinds of bodies around each of eleven conditions (comparisons, conjunctions, disjunctions and negations two deep, conditionals
  and calls inside comparisons), eight bodies for the remaining statements and expressions, the twelve that are wrong, and four modules
  of several functions. The run of a function is cut after `MaxTests` = 5 comparisons, which lets every loop be entered, left and entered
  again; each outcome of each comparison is tried. The generator's own part needs no bound. `allPathsExit` is annotated as `sem.c` sets it,
  a `while` never exiting.

- `AstOwnership`: `MIN_SIZE` is 2 where the code has 16, so that lists of three elements make a vector grow while the
  program is parsed. Two calls on a parsed AST (`MAX_CALLS`) allow an analysis after an analysis and before or after a definition that is added; one anonymous array
  type (`MAX_ARRAYS`) for each. The guard `OneLoss` keeps to one element lost per behaviour: after one the parser drops a value and goes
  on with what is left, so that a second loss meets the same actions.
- `Driver`: all command lines of up to four arguments from the five modes, another dashed argument and five files, each file at most once: two
  that are good, of one and of three definitions, one with a syntax error before its end, one that cannot be opened, and one with a name that is too long for `-o`. Four arguments are a mode, two files and what
  comes behind them, the least in which the scan's outer loop skips an argument, with files on either side of it. A file that is named twice would be parsed into
  two trees; the model has one per file and leaves it out. Blocks are of 2 definitions, so that a file ends inside a block and behind one. The proofs need none
  of these bounds.

### Fairness

- `Sem` is a sequential program: `WF_vars(Next)` says that it keeps running. `Termination` is claimed
  only for programs without an alias cycle.
- `Parser`: weak fairness of each thread's steps, `WF_vars(Run(t))`: the threads are scheduled by the
  operating system. `while (s_Busy);` is a step enabled when the flag is clear. Weak fairness is enough for
  `EveryCallReturns` in this instance because a stream is given to one call: there are finitely many calls, so
  that the flag is clear for good in the end. A thread that competes with endlessly many calls of others could starve,
  as the code has no queue. Starting a call is never assumed to happen.
- `Driver` is one thread that keeps running: weak fairness of its work. That memory runs out is not part of it: the program has to end
  without it.
- `MonVector`, `MonDict` and `AstOwnership` have no liveness: every operation ends, and nothing says that one is called.

## 4. Proofs

**`MonVectorProofs`** proves, for every set of values and buffers, every `MIN_SIZE > 0` and every bound
`MAX_COUNT`:

- `VectorInvariant`: `Spec => []IInv`. `IInv` joins the type invariant, `ElementsFit` and `OneOwner` with what they
  need to be inductive: that a vector with capacity has a live buffer, that cells below the count hold values.
- `VectorTypeOK`, `VectorElementsFit`, `VectorOneOwner`: the run's invariants, from `IInv`.
- `VectorNoThrashing`: the action property, from `IInv` and the arithmetic of the shrink rule.
- `VectorIsSequence`: `MonVector` implements `VectorSeq`, by a step simulation under `IInv`: resizing, moving
  and failing reallocations are stutters of the sequence.

**`SemProofs`** proves four invariants of the run `sem` and half of a fifth, for every set of programs, of any number of ASTs and whatever states they come in
with. The only assumption is that a program is a non-empty list of lists of definitions, and that the parameters of a function are a list (`ProgramsAreSequences`).

- `VerdictAgreesWithStates`: the verdict is an error exactly when an AST visited so far is marked `SEM_ERR`, and success is only answered when every AST was visited.
  The strengthening `AnalyseInv` adds the ranges of the loop counters: in the first loop the ASTs up to the current one are
  visited, in later loops all. The many actions that resolve something are dealt with by one lemma per
  action that they leave the loop's variables alone; what remains are the entry into an AST, the end of a definition and the ends of the
  analysis.
- `ScopesAreLeft`: the run's `ScopeDiscipline`. Between two definitions the scope chain is the global scope, with nothing but types, functions and variables in it,
  and no loop is open. That is nothing one step shows: scopes are pushed and popped by tasks far apart, and a failure drops any number of them. The strengthening `ScopeInv` says where the agenda
  *leads*. A place is the depth of the scope chain and the loop level. Each task is met at one place and left for another (`Rule`): a `push` goes one
  deeper, a `pop`, the end of a `while` and the next parameter or field come from one deeper, an ordinary task stays. `Leads(agenda, x, f)` says that there are places along the
  agenda, from `x` to the global scope, and that the nearest marker is met at `f`: where a task may fail, the marker its failure returns to has to be met at the place where the
  failing function leaves the scopes. `HeadLeads` and `TaskLeads` take a task off the agenda and put one in front; `FailureLeads` shows, by induction over the tasks that
  are dropped, that the marker is where it should be. An action is then described by what its tasks lead through (`Run`): the 30 ordinary ones only need that their tasks are `Plain` (they stay at
  the place) and that they declare nothing globally that is not a type (`Onward`); those that open and close scopes have lemmas of their own. `Chain` adds that the outermost scope has no parameters or fields.
  A record whose field has an unknown type is excluded, with `fieldError`: `sem_fields` shows that `ScopeDiscipline` fails without it.
- `CalleesAlwaysTyped`: the run's `CalleesAreTyped`. `ResolveCall` reads the types of the function's parameters without a check, and a rejected declaration leaves parameters without one.
  The strengthening `CalleeInv` says for each loop how far the functions in scope have come. While declarations are resolved, either all of them have a known signature
  (`BetweenDeclarations`) or the last one is resolved up to its parameter `k` (`AmongParameters`), and a clash there takes exactly this one out of the scope again; types in scope are known. In the
  later loops all functions in scope are `Callable`, and what is on the agenda is `Settled`: each of its tasks is at a path inside of a definition where no function
  keeps its signature (`Placed`), and the last one is the end of the definition. So what these tasks write to `sem` is no signature (`LaterStepsKeepCallees`), types are only added, and the anonymous types
  that the analysis appends to the AST it walks move no definition (`TreeInv`). `NothingNew` says that a scope chain has no function another did not have:
  pushing, popping and declaring what is no function are dealt with once, by lemmas about chains.
- `GlobalScopeAsDeclared`: the run's `GlobalScopeExact`. The global scope ends up with the first acceptable declaration of each name, although a function is declared before its parameters are looked at and taken out again,
  as the last symbol, when one of them is refused. `GlobalInv` says that between declarations the scope is `Exact` up to the next one: its symbols are the first fine declarations before it (`FirstBefore`), its names those of
  all fine ones (`NamesBefore`); the second is what makes it inductive, since a clash is about names. A declaration is `Over`, `Beginning`, or `InFunction` at its parameter `k`, up to which no
  parameter was refused; the scope without its last symbol is then the one before the function. `Refused` and `Accepted` are what a declaration adds to `FirstBefore` and `NamesBefore`, and `DeclarationsStay` that
  what is declared does not change while it is.
- `NullScopesFollowErrors`: the part `NullScopeOnlyAfterError` of the run's `CrashOnlyAfterError`. An unknown field type pops the record's scope twice, so that later tasks may find no scope to
  declare anything in. `FieldInv` says that such a field is an error that stays known: the definition has failed, or the verdict has. With `ScopeInv` the scope
  that a task needs is there as long as there was no such field (`NullScopeAfterFieldError`), since the place where `Leads` meets it is at least the global one.

**`MonDictProofs`** proves every invariant of the run `dict`, for every set of keys, hash function, `MIN_SIZE > 0` and `MAX_COUNT`.

- `DictLoadBounded`: while every resize found memory, `11 * count < 10 * size`, lost insertions counted in. `LoadInv` adds that a table is never smaller than `MIN_SIZE`: a shrink that would
  go below stops there, which is why the bound holds for it. The lemma `IdealFits` is the arithmetic of `GetIdealSize`.
- `DictInvariant`, with `DictTypeOK`, `DictNoDuplicates` and `DictCountCovers`: `DictInv` says that the table is `Tidy`, which is that every bucket is in the chain of its slot and no key has two,
  and that `count` is the number of keys in it and the lost ones. The work is in the rehash, a loop in a loop. `FunctionExists` shows that each recursive
  function is one on its range; `MovedChainTidy` and `RehashedTidy` show by induction over the buckets and over the chains that what was moved so far is tidy and has the
  content of the old table up to here. What a step does to the table is then said about `Content`, the set of its buckets (`OverwriteDoes`, `InsertDoes`, `RemoveDoes`).
- `DictFoundUnlessLost`: a lookup finds the value last set, for every key that was not stored into freed memory, assuming `PrefixesHashApart`: no key has the hash of one that it starts.
  The code does not ensure that. Its lookup compares as many characters as the searched key has, so that a key finds a longer one that it starts if both have one hash. `Hash` leaves out the last
  character, and so treats `"10"` and `"11"` alike, but not a key and its beginning, save by coincidence. The same is said of the run under *Bounds*.

**`LlvmProofs`** proves five of the seven invariants of the run `llvm`, for every list of modules. It is assumed that modules and parameters are lists (`ModulesAreLists`), and that no two
functions of a module have a body and the same name, which the analysis refuses (`BodiesAreUnique`; it is needed for `CalleesDeclared` alone: the text of the second would take the place of the first).

- `NamesNeverRepeat`: no function has two lines that define one local or print one
  label. The counters see to it that a name is new when it is taken, but most labels are printed long after they are taken, by tasks that wait in the agenda. `NamesInv` says that every label is printed, owed by one task, or not
  taken yet: `Owes` is the label a waiting task will print, and `Named` that owed labels are below the counter, not in the text, and owed once. `StepNamed` shows it for a step that takes `n` names, prints lines and leaves
  tasks in place of the head; one lemma for each action shows what it takes, prints and leaves.
- `LlvmTypeOK`, `LiteralsAlwaysResolve`, `ContextAlwaysRestored` and `CalleesAlwaysDeclared`, from `GenInv`, which joins three more invariants to `NamesInv`, and `MachineInv` for the run of the text
  (`RunInvariant`).
  `DataInv` is about what is kept: locals, values and loop labels are older than the counters, what is printed and what waits to be printed is a line (`LineOK`) that calls what may be called, and `LiteralsKnown`
  says which literals are in the table and with which index each was printed first. Printing is a loop in a loop, over lines and over operands; both are recursive functions, which `FunctionExists` shows to be functions.
  `ContextInv` is about what will be left: `Framed` says which tasks end a function, that an inner block leaves no more locals than the blocks around it had found, and which parameters are yet to become locals;
  `Unwinds` that the outermost loop task gives back `NoLoop`. That is what makes `ContextRestored` true of a function that leaves blocks and loops early: a statement that returns drops the rest of a block, never the end of it.
  `CalleesInv` says that a dependency is called by a finished function, by the lines of this one, or by a task that will print the call: a function is entered in the table before its arguments are compiled,
  and the call is printed after them.

**`ParserProofs`** proves the three invariants of the run `parser`, for any number of threads, any streams and every `BLOCK > 0`. It is assumed that streams are sequences of definitions and errors.

- `ParserOwnStream` and `ParserNothingMissing`, from `ParserInv` (`ParserInvariant`), which claims something while no two calls used the scanner at once; `parser_race` shows what happens
  without. Then (`Calm`) at most one thread is between the set and the clear of a busy flag, and calls are on different streams (`Exclusive`); a stream is untouched until its call has the
  scanner (`Fresh`). A call that gave up leaves text of its stream in the scanner, so the scanner is not empty between calls but holds text of `Abandoned` streams only, whose calls are over and whose
  ASTs are not parsed (`Leftover`). The call that has the scanner is first `Behind` that text, and then `Within` its own: what `yyparse` has ends with what was made of the first `n` places of its stream,
  with the lost ones left out, and the scanner holds the piece behind them (`Has`, `Taken`). Nothing precedes it unless a call gave up: that is `OwnStream`. `StepKeepsCalm` is the
  frame: a step of the thread that has the scanner disturbs no other call and no other stream, so that the lemma of each step deals with its own call only. `LexIsStep` says what `yylex` takes,
  behind and within. `SetBusyStep` is where `~overlap` is needed: two threads may both have passed the test.
- `ParserTypeOK`, from `Typing`, whatever overlaps: the scanner reads no stream beyond its end, and `yyparse` holds nothing but definitions.

**`DriverProofs`** proves the four invariants of the run `driver`, for every set of command lines, all files and every `BLOCK > 0`.
`OwnDefinitions` (`DriverOwnDefinitions`), `OutputsAreWhole` (`DriverOutputsAreWhole`) and the types (`DriverTypeOK`) come from the inductive invariant `DriverInv` (`DriverInvariant`). `OwnDefinitions` speaks of trees; what makes
it inductive is what happens in between: during a call on a file, what `yyparse` has is the first `n` definitions of that file and what the scanner holds is
the piece behind them, up to where the file was read (`InCall`); when the call returns, the scanner is empty or the file did not parse (`Back`), and then the program ends before it
parses another; so the scanner is empty before every call (`Between`). The lemmas `RefillIsPiece` and `LexTakesNext` are about the scanner, `PieceTail` and `PieceAppend`
about sequences; then there is a lemma for every step of a call and for every step of the program. It is assumed that arguments are strings,
that files are sequences of definitions and errors, that a file's name starts with no dash (`NoModeIsAFile`) and that `NULL` is no status. The mode `-l`, which calls
`Mon_DumpLex`, is outside of the scanner's part of the invariant, as it makes no tree.
`DriverArgumentsHonoured` needs an invariant of its own, `ScanInv`: behind the scan's index there is no mode so far, or there is one that `Claims` all the files
behind it, and any other mode is the one argument that was `Skipped`. `ScannedIsAccepted` compares that, at the end of the scan, with the reference, which
knows no order: `OwnArguments` shows that what the mode claims is what belongs to it.

**`AstProofs`** proves the four invariants of the run `ast`, for every set of programs, whichever allocation fails and wherever the parse does (`AstTypeOK`, `AstSingleOwner`,
`AstNoOrphans`, `AstSafeUnlessKnown`). The only assumption is that the bounds are numbers, `MIN_SIZE` positive.

- The inductive invariant `OwnInv` is about `Refers(k, n, i, b)`: block `b` is at place `i` of the names or children of node `n`, of the stack, the scope, the pending calls or the AST. `HeapInv` says that blocks are
  as their kind wants them, `PhaseInv` what a phase leaves empty, `AllHeld` that what is referred to is there and of a kind that may be there, unless it `Dangles` or is no block (`NoBlock`), `Single` that there is no second reference
  to a block that is not excused, `Owned` that there is a first one to every block that was not dropped. None of the properties is inductive alone: that a destructor frees a block once needs that it was referred to once,
  that a `free` does not free a node with children needs the kinds at the ends of the references, and that nothing is lost when an AST is destroyed needs that nothing was before.
- An action moves references. `Transfers` says what it takes to keep `Single` and `Owned`: a reference that goes from a block that stays makes room for the one that comes, a new block gets one, a freed or dropped one needs
  none (`Transferred`). Each action is described by the references that it removes and adds: `Reduces` for all the rules of the grammar at once, from what `RuleFits` asks of a rule (each value goes
  to one name or one child), which `RulesFit` checks for the rules of `grammar.y`; a lemma on pushing for the vectors; `Destroyed` from the shape of a kind, whichever order its destructor has; one for an analysis that begins,
  makes types, and ends whichever way.
- `Outcome` adds what the program may have ended with. It follows `OwnInv` step by step: a call that finds no block is one whose reference dangles, and it is known why (`UndefinedKnown`).

Two flaws of the model came up in the attempt and were repaired: the outcome of an undefined call was a `CASE` with guards that overlap, and a reduction of a literal
was possible with an empty stack. The guards that stand for bison's tables were found necessary in the same way: without them, a sequence of reductions that no grammar allows makes a node of what is no value.

**`Lemmas`** is what these proofs share: induction, lists, and pieces of a file. The library states induction with an operator as its parameter, which the provers cannot instantiate. `SetInduction` states it
with a set of numbers instead, which they can, and is proved from the least element of a set (`Least`); `FunctionExists` shows that the recursive function of a loop is one.

**Only model-checked:** everything else in the runs: of `sem`, `LexicalBinding` (whose reference definition in `MCSem` is
recursive), and `TypeOK`, `SuccessFillsSemantics`, `NoFalseMissingReturn` and the wild types of `CrashOnlyAfterError`, which hold for well-formed syntax trees, which is again a recursive notion; termination and the return of calls (liveness under fairness is out of the prover's reach),
and two invariants of code generation, `BasicBlocks` and `RunsAsWritten`: they hold for sound bodies, which `MCLlvm` defines recursively, as is the meaning they are compared with.

## 5. Plan

1. *Done.* `VectorSeq`, `MonVector` with proofs; `Types`, `Sem` with the first theorem; `Parser`.
2. *Done.* `MonDict` with the proof of its load.
3. *Done.* `LlvmGen`, `LlvmRun`: functions, string literals, dependencies.
4. *Done.* `AstOwnership`: construction out of memory and destruction of nodes, with the shared record description.
5. *Done.* `Driver` over `Parser`, with the proofs of what it translates and writes, and of `Parser` for any number of threads.
6. *Done.* Proofs of the dictionary's map, of `ScopeDiscipline`, of `NamesOnce` and of what comes after a parse that gave up.
7. *Done.* Proofs of ownership in the AST, of counters, context, literals and callees in code generation, and of the signatures of callees and of the global scope in the analysis.
8. Left: the types that a module's text mentions against `usedTypes`; a proof of the type invariant of `Sem`, for which the parser's trees would have to be described without recursion.

## 6. Not modelled, and why

- The token rules of `lex.l` and the LALR tables of `grammar.y` (regular expressions and generated code), the text of tokens, positions,
  messages and logging, XML output.
- `Mon_Parse` with a null argument, which returns `MON_ERR_BAD_ARG` before it touches anything; overlapping calls of `yylex`, of
  which each is atomic in `Parser`. What overlaps there is already a violation (`parser_race`).
- In `ResolveFunctionImpl`, release and debug builds differ on a clash of parameters: the model follows the release build, which
  registers both; the debug build fails the assertion at `sem.c:1022`.
- A second analysis of an AST that has annotations from the first: they are kept (`sem.c:584`). Only the states that an analysis leaves before it annotates anything are starting points of `Sem`.
- In `AstOwnership`, the state of the AST, which `Mon_AstAddDefinition` sets back (`ast.c:50`): no ownership depends on it, and `Sem` starts from every state.
- `MonVector`'s own undefined behaviour: a caller that breaks the asserted preconditions.
- In code generation: the preamble, type definitions and signatures (text only), what happens after an assertion fails, memory that a
  `longjmp` leaks, the data of locals, which `llvmctx.h:117` says are destroyed by `ResetBlockContext` or the cleanup (a block that ends takes them out of the vector without a `free`, `llvmgen.c:966`, and
  `CleanupLlvmGenContext` finalises neither this vector nor its elements), the digits of a float literal.
- In the driver: a crash or an endless loop inside the analysis or the generator (`Sem` and `LlvmGen` show where there are some), a file that is named twice, an
  output with the name of an input.
- The runtime. It is leaf functions over buffers and the streams of libc, each called alone by the compiled program, without state that lasts; the type table
  of `obj.c` lasts, but nothing calls `RegisterTypeData`, neither the generator's text nor the library's. `Input`, `Strconcat` and `Strfind` are wrong at their boundaries whatever the
  order of calls (see the hazards), which is a matter for unit tests.
- `Mon_SetAllocator` with a null function, the log, and a handler for failed assertions.
