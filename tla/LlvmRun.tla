------------------------------- MODULE LlvmRun -------------------------------
(***************************************************************************)
(* What LLVM makes of the text that LlvmGen printed: one function of the    *)
(* output is run.  Its data are terms, so that the run shows what is        *)
(* computed from what: the answer of a call, a literal, an argument, and    *)
(* operations on them.  What a comparison yields is open.                   *)
(*                                                                         *)
(* The trace holds what can be seen from outside: calls with their          *)
(* arguments, comparisons with their outcome, the return.  Text that LLVM   *)
(* refuses, or that leaves a value or a block undefined, gets stuck.        *)
(***************************************************************************)
EXTENDS LlvmGen

CONSTANT MaxTests   \* the comparisons after which a run is cut

VARIABLES
  status,     \* "idle", "running", "returned", "cut" or "stuck"
  running,    \* the name of the function
  pc,         \* its next line
  block,      \* the label of the block being run, -1 for the first
  previous,   \* the label of the block before it
  regs,       \* the values of %t.0, %t.1, ...
  memory,     \* the values of the addresses that were written
  outcomes,   \* how the comparisons went
  trace

machine == <<status, running, pc, block, previous, regs, memory, outcomes, trace>>
runVars == <<vars, machine>>

asm == output[running]
line == asm[pc]

\* The value of an operand
Value(v) ==
  CASE v[1] = "t" -> regs[v[2]]
    [] v[1] = "ssa" -> <<"argument", v[2]>>
    [] OTHER -> v

Known(v) == v[1] # "unset" /\ (v[1] = "t" => v[2] \in DOMAIN regs)
Args == [i \in DOMAIN line.args |-> Value(line.args[i])]

IntWidth == "i8" :> 1 @@ "i16" :> 2 @@ "i32" :> 4 @@ "i64" :> 8
FloatWidth == "float" :> 4 @@ "double" :> 8
IsInt(ref) == ref[2] = 0 /\ ref[1] \in DOMAIN IntWidth
IsReal(ref) == ref[2] = 0 /\ ref[1] \in DOMAIN FloatWidth

\* The conversion fits the types.
Fits(how, from, to) ==
  CASE how = "sitofp" -> IsInt(from) /\ IsReal(to)
    [] how = "sext" -> IsInt(from) /\ IsInt(to) /\ IntWidth[from[1]] < IntWidth[to[1]]
    [] how = "trunc" -> IsInt(from) /\ IsInt(to) /\ IntWidth[from[1]] > IntWidth[to[1]]
    [] how = "fpext" -> IsReal(from) /\ IsReal(to) /\ FloatWidth[from[1]] < FloatWidth[to[1]]
    [] how = "fptrunc" -> IsReal(from) /\ IsReal(to) /\ FloatWidth[from[1]] > FloatWidth[to[1]]

\* The types an instruction takes
WellTyped(l) ==
  CASE l.op = "bin" -> IF l.info[1] = "f" THEN IsReal(l.info[3]) ELSE IsInt(l.info[3])
    [] l.op = "cmp" -> (l.info[1] = "fcmp") = IsReal(l.info[3])
    [] l.op = "conv" -> Fits(l.info[1], l.info[2], l.info[3])
    [] OTHER -> TRUE

LabelLines(n) == {i \in DOMAIN asm : asm[i].op = "label" /\ asm[i].info = <<n>>}

\* The lines that can be run
Runs ==
  /\ status = "running" /\ pc \in DOMAIN asm
  /\ line.op # "label"
  /\ WellTyped(line)
  /\ \/ line.op # "phi" /\ \A i \in DOMAIN line.args : Known(line.args[i])
     \/ line.op = "phi" /\ \E i \in DOMAIN line.info : line.info[i] = previous /\ Known(line.args[i])
  /\ line.op \in {"br", "condbr"} => \A i \in DOMAIN line.info : Cardinality(LabelLines(line.info[i])) = 1

With(f, x, y) == (x :> y) @@ f

\* The result of an instruction that only computes
Computed ==
  CASE line.op = "bin" -> <<"op", line.info[2], Args[1], Args[2]>>
    [] line.op = "conv" -> <<"as", line.info[2], line.info[3], Args[1]>>
    [] line.op = "bitcast" -> Args[1]
    [] line.op = "field" -> <<"field", Args[1], line.info[1]>>
    [] line.op = "element" -> <<"element", Args[1], Args[2]>>
    [] line.op = "load" -> IF Args[1] \in DOMAIN memory THEN memory[Args[1]] ELSE <<"initial", Args[1]>>
    [] line.op = "phi" -> Value(line.args[CHOOSE i \in DOMAIN line.info : line.info[i] = previous])

Compute ==
  /\ Runs /\ line.op \in {"bin", "conv", "bitcast", "field", "element", "load", "phi"}
  /\ regs' = With(regs, line.dst[2], Computed)
  /\ pc' = pc + 1
  /\ UNCHANGED <<status, running, block, previous, memory, outcomes, trace>>

Access ==
  /\ Runs
  /\ \/ /\ line.op = "alloca"
        /\ regs' = With(regs, line.dst[2], <<"cell", line.dst[2]>>)
        /\ memory' = With(memory, <<"cell", line.dst[2]>>, <<"undefined">>)
     \/ /\ line.op = "store"
        /\ memory' = With(memory, Args[1], Args[2])
        /\ UNCHANGED regs
  /\ pc' = pc + 1
  /\ UNCHANGED <<status, running, block, previous, outcomes, trace>>

CallOut ==
  /\ Runs /\ line.op = "call"
  /\ trace' = Append(trace, <<"call", line.info[1], Args>>)
  /\ regs' = IF line.dst = Nowhere THEN regs ELSE With(regs, line.dst[2], <<"answer", Len(trace) + 1>>)
  /\ pc' = pc + 1
  /\ UNCHANGED <<status, running, block, previous, memory, outcomes>>

Compare ==
  /\ Runs /\ line.op = "cmp"
  /\ IF Len(outcomes) = MaxTests
     THEN status' = "cut" /\ UNCHANGED <<pc, regs, outcomes, trace>>
     ELSE \E holds \in BOOLEAN :
            /\ outcomes' = Append(outcomes, holds)
            /\ trace' = Append(trace, <<"test", line.info[2], Args[1], Args[2], holds>>)
            /\ regs' = With(regs, line.dst[2], <<"bool", holds>>)
            /\ pc' = pc + 1
            /\ UNCHANGED status
  /\ UNCHANGED <<running, block, previous, memory>>

Jump ==
  /\ Runs /\ line.op \in {"br", "condbr"}
  /\ LET target == IF line.op = "br" \/ Args[1] = <<"bool", TRUE>> THEN line.info[1] ELSE line.info[2]
     IN  /\ block' = target
         /\ pc' = (CHOOSE i \in LabelLines(target) : TRUE) + 1
  /\ previous' = block
  /\ UNCHANGED <<status, running, regs, memory, outcomes, trace>>

Return ==
  /\ Runs /\ line.op = "ret"
  /\ trace' = Append(trace, <<"return", Args>>)
  /\ status' = "returned"
  /\ UNCHANGED <<running, pc, block, previous, regs, memory, outcomes>>

Stuck ==
  /\ status = "running" /\ ~Runs
  /\ status' = "stuck"
  /\ UNCHANGED <<running, pc, block, previous, regs, memory, outcomes, trace>>

Call ==
  /\ status = "idle" /\ result = "SUCCESS"
  /\ running' \in DOMAIN output
  /\ status' = "running" /\ pc' = 1
  /\ UNCHANGED <<block, previous, regs, memory, outcomes, trace>>

Over ==
  /\ \/ result # "running" /\ result # "SUCCESS"
     \/ result = "SUCCESS" /\ output = << >>
     \/ status \in {"returned", "cut", "stuck"}
  /\ UNCHANGED runVars

RunInit ==
  /\ Init
  /\ status = "idle" /\ running = "" /\ pc = 0 /\ block = -1 /\ previous = -1
  /\ regs = << >> /\ memory = << >> /\ outcomes = << >> /\ trace = << >>

Run == Call \/ Compute \/ Access \/ CallOut \/ Compare \/ Jump \/ Return \/ Stuck

RunNext ==
  \/ Generate /\ UNCHANGED machine
  \/ Run /\ UNCHANGED vars
  \/ Over

RunSpec == RunInit /\ [][RunNext]_runVars

-----------------------------------------------------------------------------
(* Properties                                                              *)

\* The counters count, the recursion of the compiler keeps its values, and
\* the machine is where a function is.
TypeOK ==
  /\ pos \in 0 .. Len(module) + 1
  /\ nextLocalId \in Nat /\ nextLabel \in Nat /\ always \in BOOLEAN
  /\ \A i \in DOMAIN locals : locals[i].id < nextLocalId
  /\ \A i \in DOMAIN vals : vals[i][1] = "t" => vals[i][2] < nextLocalId
  /\ loops.end < nextLabel /\ loops.check < nextLabel
  /\ ToSet(dependencies) \cap Implemented = {}
  /\ result \in {"running", "SUCCESS", "ERR_NOMEM", "ERR_IO", "WILD_STREAM"}
  /\ status \in {"idle", "running", "returned", "cut", "stuck"}
  /\ status # "idle" => running \in DOMAIN output /\ pc \in 1 .. Len(asm) + 1

\* The functions of the runtime
Routines ==
  {"GcAlloc", "StrFromSZ", "Init", "EchoChar", "EchoReal", "EchoInteger", "EchoString", "EchoArray", "EchoObject"}
Callees ==
  (UNION {{l.info[1] : l \in {m \in ToSet(output[f]) : m.op = "call"}} : f \in DOMAIN output}) \ Routines

\* Every function that is called is defined or declared, once, in the module's
\* text, and nothing is declared that is not called.
CalleesDeclared ==
  result = "SUCCESS" /\ status = "idle" =>
    /\ Callees \ DOMAIN output = ToSet(dependencies) \ Routines
    /\ Cardinality(ToSet(dependencies)) = Len(dependencies)
=============================================================================
