------------------------------- MODULE AstProofs -------------------------------
(***************************************************************************)
(* AstOwnership for every set of programs, whatever allocation fails and   *)
(* whenever the parse does: who owns a block of the heap, that none is     *)
(* lost or freed twice but where it is known, and what follows for the     *)
(* behaviour of the program.                                               *)
(***************************************************************************)
EXTENDS AstOwnership, Lemmas

-----------------------------------------------------------------------------
(* The inductive invariant                                                  *)

Kinds == DOMAIN Shapes \cup {"Ast", "Symbol"}
Blocks == [kind : Kinds, names : Seq(Int), kids : Seq(Int)]
IsLeaf(block) == block.names = << >> /\ block.kids = << >>

\* A block as its kind wants it.
Sound(block) ==
  /\ block \in Blocks
  /\ block.kind \in {"string", "Symbol", "Ast"} => IsLeaf(block)
  /\ block.kind = "buffer" => block.names = << >>
  /\ block.kind = "StrLiteral" => block.kids = << >>

HeapInv ==
  /\ next \in Nat /\ next > AST + 1
  /\ DOMAIN heap \subseteq 1 .. next - 1
  /\ \A b \in DOMAIN heap : Sound(heap[b])
  /\ \A b \in shared : b \in 1 .. next - 1 /\ (b \in DOMAIN heap => heap[b].kind = "Record")
  /\ DOMAIN leaked \subseteq 1 .. next - 1

\* A call that is pending.
CallSet == [op : {"free", "destroy"}, block : Int]

\* What the program is at: a parse has the stack, all else has none.
PhaseInv ==
  /\ stack \in Seq(Int) /\ scope \in Seq(Int)
  /\ calls \in Seq(CallSet)
  /\ ast = [name |-> ast.name, defs |-> ast.defs, types |-> ast.types]
  /\ phase \in {"parse", "ready", "analysis", "destroyed"}
  /\ phase = "parse" =>
       /\ scope = << >> /\ calls = << >> /\ ast.defs = NULL /\ ast.types = NULL
       /\ shared = {} /\ "definition" \notin faults
  /\ phase # "parse" => stack = << >>
  /\ phase = "destroyed" => ast.name = NULL /\ ast.defs = NULL /\ ast.types = NULL

\* Block b is referred to at place i of n, which is 0 for what is not a node.
\* The places of the pending calls are counted from the last one.
InNode(k, n, i, b) ==
  /\ n \in DOMAIN heap
  /\ \/ k = "name" /\ i \in DOMAIN heap[n].names /\ b = heap[n].names[i]
     \/ k = "kid" /\ i \in DOMAIN heap[n].kids /\ b = heap[n].kids[i]
OnStack(i, b) == i \in DOMAIN stack /\ b = stack[i]
InScope(i, b) == i \in DOMAIN scope /\ b = scope[i]
InCalls(k, i, b) ==
  /\ i \in DOMAIN calls
  /\ calls[Len(calls) + 1 - i].op = k /\ calls[Len(calls) + 1 - i].block = b
InAst(i, b) ==
  \/ i = 1 /\ b = ast.name
  \/ i = 2 /\ b = ast.defs
  \/ i = 3 /\ b = ast.types
  \/ i = 4 /\ b = AST /\ phase # "destroyed"

Refers(k, n, i, b) ==
  \/ k \in {"name", "kid"} /\ InNode(k, n, i, b)
  \/ k = "stack" /\ n = 0 /\ OnStack(i, b)
  \/ k = "scope" /\ n = 0 /\ InScope(i, b)
  \/ k \in {"free", "destroy"} /\ n = 0 /\ InCalls(k, i, b)
  \/ k = "ast" /\ n = 0 /\ InAst(i, b)

\* Values that are no blocks, where they may stand.
NoBlock(k, i, b) ==
  \/ b = NULL
  \/ b = WILD /\ k = "stack"
  \/ b = STATIC /\ (k = "free" \/ (k = "ast" /\ i = 1))

\* A reference to what is no longer there: one of the two to a shared
\* description, or the symbol that is destroyed and still in its scope.
Dangles(k, b) ==
  \/ b \in shared
  \/ "definition" \in faults /\ k \in {"scope", "free", "destroy"}

\* What may be found at the end of a reference.
KindFits(k, i, block) ==
  /\ k = "name" => block.kind = "string"
  /\ k \in {"kid", "stack", "destroy"} => block.kind \notin {"Ast", "Symbol"}
  /\ k = "scope" => block.kind = "Symbol"
  /\ k = "free" => IsLeaf(block)
  /\ k = "ast" => /\ i = 1 => block.kind = "string"
                  /\ i \in {2, 3} => block.kind = "buffer"
                  /\ i = 3 => IsLeaf(block)
                  /\ i = 4 => block.kind = "Ast"

Held(k, i, b) ==
  \/ NoBlock(k, i, b)
  \/ /\ b \in 1 .. next - 1
     /\ k \notin {"kid", "free", "destroy"} => b \notin shared
     /\ b \in DOMAIN heap \/ Dangles(k, b)
     /\ b \in DOMAIN heap => KindFits(k, i, heap[b])

AllHeld == \A k, n, i, b : Refers(k, n, i, b) => Held(k, i, b)

Single ==
  \A b \in DOMAIN heap \ Excused : \A k, n, i, l, m, j :
    Refers(k, n, i, b) /\ Refers(l, m, j, b) => k = l /\ n = m /\ i = j

Owned == \A b \in DOMAIN heap \ DOMAIN leaked : \E k, n, i : Refers(k, n, i, b)

OwnInv == HeapInv /\ PhaseInv /\ AllHeld /\ Single /\ Owned

-----------------------------------------------------------------------------
(* Heaps, shapes and rules                                                  *)

\* What the proofs need of a shape: its destructor deals with every part once.
ShapeFits(shape) ==
  /\ shape.names \in Nat
  /\ shape.order \in {NodeLast, NodeFirst, <<"names", "node", "kids">>}

(* Every shape is one.                                                      *)
LEMMA ShapesFit == \A kind \in DOMAIN Shapes : ShapeFits(Shapes[kind])
<1> DEFINE P(f) == \A x \in DOMAIN f : ShapeFits(f[x])
<1>1. P(ExpShapes) /\ P(CondShapes) /\ P(BlockShape) /\ P(CallShape)
  BY DEF ExpShapes, CondShapes, BlockShape, CallShape, ShapeFits, Shape
<1>2. P(StatementShapes) /\ P(VarShapes) /\ P(TypeDescShapes)
  BY DEF StatementShapes, VarShapes, TypeDescShapes, ShapeFits, Shape
<1>3. P(FieldShape) /\ P(ParamShape) /\ P(VarDefShape) /\ P(FuncDefShape)
  BY DEF FieldShape, ParamShape, VarDefShape, FuncDefShape, ShapeFits, Shape
<1>4. P(TypeDefShape) /\ P(DefShape)
      /\ P([buffer |-> Shape(0, 0, NodeLast), string |-> Shape(0, 0, NodeLast)])
  BY DEF TypeDefShape, DefShape, ShapeFits, Shape
<1> SUFFICES ASSUME NEW kind \in DOMAIN Shapes PROVE ShapeFits(Shapes[kind])
  OBVIOUS
<1>5. PICK f \in {ExpShapes, CondShapes, StatementShapes, BlockShape, CallShape, VarShapes,
            TypeDescShapes, FieldShape, ParamShape, VarDefShape, FuncDefShape, TypeDefShape,
            DefShape, [buffer |-> Shape(0, 0, NodeLast), string |-> Shape(0, 0, NodeLast)]} :
        kind \in DOMAIN f /\ Shapes[kind] = f[kind]
  BY MergedAll, ZenonT(40) DEF Shapes
<1> HIDE DEF P
<1>6. P(f)
  BY <1>1, <1>2, <1>3, <1>4
<1> QED  BY <1>5, <1>6 DEF P

(* The kinds of shapes.                                                     *)
LEMMA OtherKinds ==
  /\ {"string", "buffer", "Alias", "Array", "TypeDef", "Def", "VarDef"} \subseteq DOMAIN Shapes
  /\ {"Symbol", "Ast"} \cap DOMAIN Shapes = {}
  /\ Shapes["Alias"].names = 1 /\ Shapes["Array"].names = 0 /\ Shapes["TypeDef"].names = 1
  /\ Shapes["Def"].names = 0 /\ Shapes["VarDef"].names = 2
<1> DEFINE groups ==
      {ExpShapes, CondShapes, StatementShapes, BlockShape, CallShape, VarShapes,
       TypeDescShapes, FieldShape, ParamShape, VarDefShape, FuncDefShape, TypeDefShape,
       DefShape, [buffer |-> Shape(0, 0, NodeLast), string |-> Shape(0, 0, NodeLast)]}
<1>1. Shapes = Together(groups)
  BY DEF Shapes
<1>2. \A f \in groups : "Symbol" \notin DOMAIN f /\ "Ast" \notin DOMAIN f
  BY DEF ExpShapes, CondShapes, StatementShapes, BlockShape, CallShape, VarShapes,
         TypeDescShapes, FieldShape, ParamShape, VarDefShape, FuncDefShape, TypeDefShape, DefShape
<1>3. ASSUME NEW f \in groups
      PROVE  /\ "Alias" \in DOMAIN f => f = TypeDescShapes
             /\ "Array" \in DOMAIN f => f = TypeDescShapes
             /\ "TypeDef" \in DOMAIN f => f = TypeDefShape
             /\ "Def" \in DOMAIN f => f = DefShape
             /\ "VarDef" \in DOMAIN f => f = VarDefShape
  BY DEF ExpShapes, CondShapes, StatementShapes, BlockShape, CallShape, VarShapes,
         TypeDescShapes, FieldShape, ParamShape, VarDefShape, FuncDefShape, TypeDefShape, DefShape
<1>4. /\ "Alias" \in DOMAIN TypeDescShapes /\ TypeDescShapes["Alias"].names = 1
      /\ "Array" \in DOMAIN TypeDescShapes /\ TypeDescShapes["Array"].names = 0
      /\ "TypeDef" \in DOMAIN TypeDefShape /\ TypeDefShape["TypeDef"].names = 1
      /\ "Def" \in DOMAIN DefShape /\ DefShape["Def"].names = 0
      /\ "VarDef" \in DOMAIN VarDefShape /\ VarDefShape["VarDef"].names = 2
  BY DEF TypeDescShapes, TypeDefShape, DefShape, VarDefShape, Shape
<1>5. /\ TypeDescShapes \in groups /\ TypeDefShape \in groups /\ DefShape \in groups
      /\ VarDefShape \in groups
      /\ [buffer |-> Shape(0, 0, NodeLast), string |-> Shape(0, 0, NodeLast)] \in groups
  OBVIOUS
<1>6. PICK last : last = [buffer |-> Shape(0, 0, NodeLast), string |-> Shape(0, 0, NodeLast)]
  OBVIOUS
<1>7. "buffer" \in DOMAIN last /\ "string" \in DOMAIN last /\ last \in groups
  BY <1>5, <1>6
<1> HIDE DEF groups
<1>8. "string" \in DOMAIN Shapes /\ "buffer" \in DOMAIN Shapes
  <2>1. DOMAIN Shapes = UNION {DOMAIN f : f \in groups}
    BY <1>1, MergedAll
  <2> QED  BY <1>7, <2>1
<1>9. "Symbol" \notin DOMAIN Shapes /\ "Ast" \notin DOMAIN Shapes
  <2>1. DOMAIN Shapes = UNION {DOMAIN f : f \in groups}
    BY <1>1, MergedAll
  <2> QED  BY <1>2, <2>1
<1>10. ASSUME NEW f \in groups, NEW x \in DOMAIN f, \A g \in groups : x \in DOMAIN g => g = f
       PROVE  x \in DOMAIN Shapes /\ Shapes[x] = f[x]
  BY <1>1, <1>10, MergedAlone
<1>11. "Alias" \in DOMAIN Shapes /\ Shapes["Alias"] = TypeDescShapes["Alias"]
  <2>1. \A g \in groups : "Alias" \in DOMAIN g => g = TypeDescShapes
    BY <1>3
  <2> QED  BY <1>4, <1>5, <1>10, <2>1
<1>12. "Array" \in DOMAIN Shapes /\ Shapes["Array"] = TypeDescShapes["Array"]
  <2>1. \A g \in groups : "Array" \in DOMAIN g => g = TypeDescShapes
    BY <1>3
  <2> QED  BY <1>4, <1>5, <1>10, <2>1
<1>13. "TypeDef" \in DOMAIN Shapes /\ Shapes["TypeDef"] = TypeDefShape["TypeDef"]
  <2>1. \A g \in groups : "TypeDef" \in DOMAIN g => g = TypeDefShape
    BY <1>3
  <2> QED  BY <1>4, <1>5, <1>10, <2>1
<1>14. "Def" \in DOMAIN Shapes /\ Shapes["Def"] = DefShape["Def"]
  <2>1. \A g \in groups : "Def" \in DOMAIN g => g = DefShape
    BY <1>3
  <2> QED  BY <1>4, <1>5, <1>10, <2>1
<1>15. "VarDef" \in DOMAIN Shapes /\ Shapes["VarDef"] = VarDefShape["VarDef"]
  <2>1. \A g \in groups : "VarDef" \in DOMAIN g => g = VarDefShape
    BY <1>3
  <2> QED  BY <1>4, <1>5, <1>10, <2>1
<1> HIDE DEF groups
<1> QED  BY <1>4, <1>8, <1>9, <1>11, <1>12, <1>13, <1>14, <1>15

\* A node and its strings, in the blocks from id on.
NodeOf(node, id, kind, kids) ==
  /\ Size(kind) \in Nat \ {0}
  /\ DOMAIN node = id .. id + Size(kind) - 1
  /\ node[id].kind = kind
  /\ node[id].kids = kids
  /\ DOMAIN node[id].names = 1 .. Size(kind) - 1
  /\ \A i \in 1 .. Size(kind) - 1 : node[id].names[i] = id + i
  /\ \A b \in id + 1 .. id + Size(kind) - 1 : node[b] = Leaf("string")
  /\ \A b \in DOMAIN node : Sound(node[b])

(* That is what a constructor makes.                                        *)
LEMMA NewNode ==
  ASSUME NEW id \in Nat \ {0}, NEW kind \in DOMAIN Shapes, NEW kids \in Seq(Int),
         kind \in {"string", "buffer", "StrLiteral"} => kids = << >>,
         kind \in {"string", "buffer"} => Shapes[kind].names = 0
  PROVE  NodeOf(Node(id, kind, kids), id, kind, kids)
<1>1. PICK n : n = Shapes[kind].names
  OBVIOUS
<1>2. n \in Nat /\ Size(kind) = 1 + n
  BY <1>1, ShapesFit DEF ShapeFits, Size
<1>3. PICK names : names = [i \in 1 .. n |-> id + i]
  OBVIOUS
<1>4. PICK block : block = Block(kind, names, kids)
  OBVIOUS
<1>5. /\ DOMAIN Node(id, kind, kids) = id .. id + n
      /\ Node(id, kind, kids)[id] = block
      /\ \A b \in id + 1 .. id + n : Node(id, kind, kids)[b] = Leaf("string")
  <2>1. PICK node : node = At(id, block)
    OBVIOUS
  <2>2. PICK strings : strings = [b \in id + 1 .. id + n |-> Leaf("string")]
    OBVIOUS
  <2>3. Node(id, kind, kids) = Overlay(node, strings)
    BY <1>1, <1>3, <1>4, <2>1, <2>2 DEF Node
  <2>4. DOMAIN node = {id} /\ node[id] = block
    BY <2>1 DEF At
  <2>5. DOMAIN strings = id + 1 .. id + n /\ \A b \in id + 1 .. id + n : strings[b] = Leaf("string")
    BY <2>2
  <2>6. /\ DOMAIN Overlay(node, strings) = DOMAIN node \cup DOMAIN strings
        /\ \A b \in DOMAIN node : Overlay(node, strings)[b] = node[b]
        /\ \A b \in DOMAIN strings \ DOMAIN node : Overlay(node, strings)[b] = strings[b]
    BY DEF Overlay
  <2>7. {id} \cup (id + 1 .. id + n) = id .. id + n
    BY <1>2
  <2>8. Overlay(node, strings)[id] = block
    BY <2>4, <2>6
  <2>9. \A b \in id + 1 .. id + n : Overlay(node, strings)[b] = Leaf("string")
    BY <1>2, <2>4, <2>5, <2>6, SMTT(30)
  <2> QED  BY <2>3, <2>4, <2>5, <2>6, <2>7, <2>8, <2>9
<1>6. names \in Seq(Int) /\ DOMAIN names = 1 .. n /\ \A i \in 1 .. n : names[i] = id + i
  <2>1. names \in [1 .. n -> Int]
    BY <1>3
  <2> QED  BY <1>2, <1>3, <2>1
<1>7. block.kind = kind /\ block.names = names /\ block.kids = kids
      /\ block = [kind |-> kind, names |-> names, kids |-> kids]
  BY <1>4 DEF Block
<1>8. kind \notin {"Symbol", "Ast"}
  BY OtherKinds
<1>9. kind \in {"string", "buffer"} => names = << >>
  <2> SUFFICES ASSUME n = 0 PROVE names = << >>
    BY <1>1
  <2> QED  BY <1>3
<1>10. Sound(block)
  <2>1. block \in Blocks
    BY <1>6, <1>7 DEF Blocks, Kinds
  <2> QED  BY <1>7, <1>8, <1>9, <2>1 DEF Sound, IsLeaf
<1>11. Sound(Leaf("string"))
  <2>1. "string" \in DOMAIN Shapes
    BY OtherKinds
  <2> QED  BY <2>1 DEF Sound, IsLeaf, Leaf, Block, Blocks, Kinds
<1>12. DOMAIN Node(id, kind, kids) = {id} \cup (id + 1 .. id + n)
  BY <1>2, <1>5
<1>13. PICK node : node = Node(id, kind, kids)
  OBVIOUS
<1>14. \A b \in DOMAIN node : Sound(node[b])
  BY <1>5, <1>10, <1>11, <1>12, <1>13
<1>15. id + Size(kind) - 1 = id + n /\ Size(kind) - 1 = n
  BY <1>2
<1>16. node[id] = block /\ DOMAIN node = id .. id + n
       /\ \A b \in id + 1 .. id + n : node[b] = Leaf("string")
  BY <1>5, <1>13
<1>17. Size(kind) \in Nat \ {0}
  BY <1>2
<1>18. NodeOf(node, id, kind, kids)
  BY <1>6, <1>7, <1>14, <1>15, <1>16, <1>17 DEF NodeOf
<1> QED  BY <1>13, <1>18

(* A block without parts is sound, whichever of these it is.                *)
LEMMA SoundLeaf ==
  ASSUME NEW kind \in Kinds
  PROVE  Sound(Leaf(kind)) /\ IsLeaf(Leaf(kind)) /\ Leaf(kind).kind = kind
BY DEF Sound, IsLeaf, Leaf, Block, Blocks

-----------------------------------------------------------------------------
(* What a step does to the references                                       *)

\* The references that come, and those that go.
Comes(k, n, i, b) == Refers(k, n, i, b)' /\ ~Refers(k, n, i, b)
Goes(k, n, i, b) == Refers(k, n, i, b) /\ ~Refers(k, n, i, b)'

\* A live block that has one owner.
Owes(b) == b \in DOMAIN heap \ Excused

\* Every block has the owner it had, at the place it had or at a new one.
Transfers ==
  /\ DOMAIN heap' \subseteq DOMAIN heap \cup (next .. next' - 1)
  /\ \A b \in Excused : b \in DOMAIN heap' => b \in Excused'
  /\ DOMAIN leaked \subseteq DOMAIN leaked'
  /\ \A k, n, i, b : Refers(k, n, i, b)' => Held(k, i, b)'
  /\ \A k, n, i, l, m, j, b : Comes(k, n, i, b) /\ Comes(l, m, j, b) /\ Owes(b)' =>
       k = l /\ n = m /\ i = j
  /\ \A k, n, i, b : Comes(k, n, i, b) /\ Owes(b)' /\ b \in DOMAIN heap =>
       \E l, m, j : Goes(l, m, j, b)
  /\ \A k, n, i, b : Goes(k, n, i, b) /\ b \in DOMAIN heap' \ DOMAIN leaked' =>
       \E l, m, j : Refers(l, m, j, b)'
  /\ \A b \in DOMAIN heap' \ (DOMAIN heap \cup DOMAIN leaked') : \E l, m, j : Refers(l, m, j, b)'

(* A step that does so keeps the ownership.                                 *)
LEMMA Transferred ==
  ASSUME OwnInv, HeapInv', PhaseInv', Transfers
  PROVE  OwnInv'
<1>1. AllHeld'
  BY DEF Transfers, AllHeld
<1>2. Single'
  <2> SUFFICES ASSUME NEW b, Owes(b)', NEW k, NEW n, NEW i, NEW l, NEW m, NEW j,
                      Refers(k, n, i, b)', Refers(l, m, j, b)'
               PROVE  k = l /\ n = m /\ i = j
    BY DEF Single, Owes
  <2>1. ASSUME NEW kk, NEW nn, NEW ii, Refers(kk, nn, ii, b) PROVE Owes(b)
    <3>1. Held(kk, ii, b)
      BY <2>1 DEF OwnInv, AllHeld
    <3>2. b \in DOMAIN heap' /\ b \notin Excused'
      BY DEF Owes
    <3>3. b \in DOMAIN heap
      <4>1. next \in Nat /\ next > 0 /\ next' \in Nat
        BY DEF OwnInv, HeapInv, AST
      <4>2. b \notin next .. next' - 1
        BY <3>1, <4>1 DEF Held, NoBlock, NULL, WILD, STATIC
      <4> QED  BY <3>2, <4>2 DEF Transfers
    <3> QED  BY <3>2, <3>3 DEF Transfers, Owes
  <2>2. Owes(b) => \A kk, nn, ii, ll, mm, jj :
          Refers(kk, nn, ii, b) /\ Refers(ll, mm, jj, b) => kk = ll /\ nn = mm /\ ii = jj
    BY DEF OwnInv, Single, Owes
  <2>3. CASE Refers(k, n, i, b) /\ Refers(l, m, j, b)
    BY <2>1, <2>2, <2>3
  <2>4. ASSUME NEW kk, NEW nn, NEW ii, NEW ll, NEW mm, NEW jj,
               Refers(kk, nn, ii, b), Refers(kk, nn, ii, b)', Comes(ll, mm, jj, b)
        PROVE  FALSE
    <3>1. Owes(b) /\ b \in DOMAIN heap
      BY <2>1, <2>4 DEF Owes
    <3>2. PICK l1, m1, j1 : Goes(l1, m1, j1, b)
      BY <2>4, <3>1 DEF Transfers
    <3>3. l1 = kk /\ m1 = nn /\ j1 = ii
      BY <2>2, <2>4, <3>1, <3>2 DEF Goes
    <3> QED  BY <2>4, <3>2, <3>3 DEF Goes
  <2>5. CASE Comes(k, n, i, b) /\ Comes(l, m, j, b)
    BY <2>5 DEF Transfers
  <2> QED  BY <2>3, <2>4, <2>5 DEF Comes
<1>3. Owned'
  <2> SUFFICES ASSUME NEW b \in DOMAIN heap' \ DOMAIN leaked'
               PROVE  \E k, n, i : Refers(k, n, i, b)'
    BY DEF Owned
  <2>1. CASE b \in DOMAIN heap
    <3>1. b \in DOMAIN heap \ DOMAIN leaked
      BY <2>1 DEF Transfers
    <3>2. PICK k, n, i : Refers(k, n, i, b)
      BY <3>1 DEF OwnInv, Owned
    <3>3. CASE Goes(k, n, i, b)
      BY <3>3 DEF Transfers
    <3>4. CASE Refers(k, n, i, b)'
      BY <3>4
    <3> QED  BY <3>2, <3>3, <3>4 DEF Goes
  <2>2. CASE b \notin DOMAIN heap
    BY <2>2 DEF Transfers
  <2> QED  BY <2>1, <2>2
<1> QED  BY <1>1, <1>2, <1>3 DEF OwnInv

-----------------------------------------------------------------------------
(* What a step leaves alone                                                 *)

(* Blocks stay blocks.                                                      *)
LEMMA StillBlocks ==
  ASSUME NEW m \in Nat, NEW n \in Nat, m <= n
  PROVE  \A b \in 1 .. m - 1 : b \in 1 .. n - 1
OBVIOUS

(* A reference is still held when its block is as it was, or may be gone.   *)
LEMMA HeldStays ==
  ASSUME NEW k, NEW i, NEW b, Held(k, i, b),
         next \in Nat, next' \in Nat, next <= next',
         shared \subseteq shared', "definition" \in faults => "definition" \in faults',
         k \notin {"kid", "free", "destroy"} => b \notin shared',
         b \in DOMAIN heap => b \in DOMAIN heap' \/ Dangles(k, b)',
         b \in DOMAIN heap' /\ b \in 1 .. next - 1 =>
           /\ b \in DOMAIN heap /\ heap'[b].kind = heap[b].kind
           /\ (k = "free" \/ (k = "ast" /\ i = 3)) /\ IsLeaf(heap[b]) => IsLeaf(heap'[b])
  PROVE  Held(k, i, b)'
<1>1. NoBlock(k, i, b) => Held(k, i, b)'
  BY DEF Held, NoBlock
<1>2. Dangles(k, b) => Dangles(k, b)'
  BY DEF Dangles
<1>3. ASSUME ~NoBlock(k, i, b) PROVE Held(k, i, b)'
  <2>1. /\ b \in 1 .. next - 1
        /\ b \in DOMAIN heap \/ Dangles(k, b)
        /\ b \in DOMAIN heap => KindFits(k, i, heap[b])
    BY <1>3 DEF Held
  <2>2. b \in 1 .. next' - 1
    BY <2>1, StillBlocks
  <2>3. b \in DOMAIN heap' \/ Dangles(k, b)'
    BY <1>2, <2>1
  <2>4. b \in DOMAIN heap' => KindFits(k, i, heap'[b])
    BY <2>1 DEF KindFits
  <2> QED  BY <2>2, <2>3, <2>4 DEF Held
<1> QED  BY <1>1, <1>3

(* The heap stays sound when new blocks are and others keep their kinds.    *)
LEMMA HeapGrown ==
  ASSUME HeapInv, next' \in Nat, next <= next',
         \A b \in DOMAIN heap' :
           /\ Sound(heap'[b])
           /\ \/ b \in next .. next' - 1 /\ b \notin shared'
              \/ b \in DOMAIN heap /\ heap'[b].kind = heap[b].kind,
         \A b \in shared' : b \in shared \/ (b \in DOMAIN heap /\ heap[b].kind = "Record"),
         DOMAIN leaked' \subseteq 1 .. next' - 1
  PROVE  HeapInv'
<1>1. next' > AST + 1
  BY DEF HeapInv, AST
<1>2. DOMAIN heap' \subseteq 1 .. next' - 1
  BY DEF HeapInv, AST
<1>3. ASSUME NEW b \in shared'
      PROVE  b \in 1 .. next' - 1 /\ (b \in DOMAIN heap' => heap'[b].kind = "Record")
  BY DEF HeapInv
<1> QED  BY <1>1, <1>2, <1>3 DEF HeapInv

(* Parts that a step does not change have the references they had.          *)
LEMMA StackStays == ASSUME UNCHANGED stack PROVE \A i, b : OnStack(i, b)' <=> OnStack(i, b)
BY DEF OnStack
(* The scopes.                                                              *)
LEMMA ScopeStays == ASSUME UNCHANGED scope PROVE \A i, b : InScope(i, b)' <=> InScope(i, b)
BY DEF InScope
(* The pending calls.                                                       *)
LEMMA CallsStay == ASSUME UNCHANGED calls PROVE \A k, i, b : InCalls(k, i, b)' <=> InCalls(k, i, b)
BY DEF InCalls
(* The AST.                                                                 *)
LEMMA AstStays ==
  ASSUME UNCHANGED ast, phase' # "destroyed", phase # "destroyed"
  PROVE \A i, b : InAst(i, b)' <=> InAst(i, b)
BY DEF InAst
(* The blocks.                                                              *)
LEMMA NodesStay ==
  ASSUME UNCHANGED heap PROVE \A k, n, i, b : InNode(k, n, i, b)' <=> InNode(k, n, i, b)
BY DEF InNode

(* A value at the end of a list.                                            *)
LEMMA AppendedTo ==
  ASSUME NEW S, NEW s \in Seq(S), NEW x
  PROVE  /\ Len(s) \in Nat
         /\ DOMAIN s = 1 .. Len(s)
         /\ DOMAIN Append(s, x) = 1 .. Len(s) + 1
         /\ \A i \in 1 .. Len(s) : Append(s, x)[i] = s[i]
         /\ Append(s, x)[Len(s) + 1] = x
         /\ \A T : S \subseteq T /\ x \in T => Append(s, x) \in Seq(T)
<1>1. s \in Seq(S \cup {x}) /\ x \in S \cup {x}
  OBVIOUS
<1>2. Append(s, x) \in Seq(S \cup {x})
  BY <1>1, AppendProperties
<1>3. Len(Append(s, x)) = Len(s) + 1
  BY <1>1, AppendProperties
<1>4. /\ \A i \in 1 .. Len(s) : Append(s, x)[i] = s[i]
      /\ Append(s, x)[Len(s) + 1] = x
  BY <1>1, AppendProperties
<1>5. \A T : S \subseteq T /\ x \in T => s \in Seq(T)
  OBVIOUS
<1>6. \A T : S \subseteq T /\ x \in T => Append(s, x) \in Seq(T)
  BY <1>5, AppendProperties
<1> QED  BY <1>1, <1>2, <1>3, <1>4, <1>6

-----------------------------------------------------------------------------
(* The parser changes its stack                                             *)

(* What is so while a program is parsed.                                    *)
LEMMA Parsing ==
  ASSUME OwnInv, phase = "parse"
  PROVE  /\ stack \in Seq(Int) /\ Len(stack) \in Nat /\ DOMAIN stack = 1 .. Len(stack)
         /\ shared = {} /\ "definition" \notin faults /\ Excused = {}
         /\ next \in Nat /\ next > 0 /\ DOMAIN heap \subseteq 1 .. next - 1
         /\ \A k, n, i, b : Refers(k, n, i, b) => Held(k, i, b)
         /\ \A k, n, i, b : Refers(k, n, i, b) => b \in DOMAIN heap \/ NoBlock(k, i, b)
         /\ \A b \in DOMAIN heap : \A k, n, i, l, m, j :
              Refers(k, n, i, b) /\ Refers(l, m, j, b) => k = l /\ n = m /\ i = j
<1>1. stack \in Seq(Int) /\ Len(stack) \in Nat /\ DOMAIN stack = 1 .. Len(stack)
  BY DEF OwnInv, PhaseInv
<1>2. /\ shared = {} /\ "definition" \notin faults /\ Excused = {}
      /\ next \in Nat /\ next > 0 /\ DOMAIN heap \subseteq 1 .. next - 1
  BY DEF OwnInv, PhaseInv, HeapInv, Excused, AST
<1>3. \A k, n, i, b : Refers(k, n, i, b) => Held(k, i, b)
  BY DEF OwnInv, AllHeld
<1>4. \A k, n, i, b : Refers(k, n, i, b) => b \in DOMAIN heap \/ NoBlock(k, i, b)
  BY <1>2, <1>3 DEF Held, Dangles
<1>5. \A b \in DOMAIN heap : \A k, n, i, l, m, j :
        Refers(k, n, i, b) /\ Refers(l, m, j, b) => k = l /\ n = m /\ i = j
  BY <1>2 DEF OwnInv, Single
<1> QED  BY <1>1, <1>2, <1>3, <1>4, <1>5

(* Values go that are no blocks or are lost; those that come are no blocks. *)
LEMMA StackChanges ==
  ASSUME OwnInv, phase = "parse", stack' \in Seq(Int),
         UNCHANGED <<heap, next, ast, scope, calls, shared>>,
         phase' = "parse" \/ (phase' = "ready" /\ stack' = << >>),
         DOMAIN leaked \subseteq DOMAIN leaked', DOMAIN leaked' \subseteq DOMAIN leaked \cup DOMAIN heap,
         "definition" \notin faults',
         \A i, b : OnStack(i, b)' => OnStack(i, b) \/ b \in {NULL, WILD},
         \A i, b : OnStack(i, b) /\ ~OnStack(i, b)' => b \notin DOMAIN heap \ DOMAIN leaked'
  PROVE  OwnInv'
<1>1. HeapInv'
  BY DEF OwnInv, HeapInv
<1>2. PhaseInv'
  BY DEF OwnInv, PhaseInv
<1>3. /\ shared = {} /\ "definition" \notin faults /\ Excused = {}
      /\ NULL \notin DOMAIN heap /\ WILD \notin DOMAIN heap
  BY Parsing DEF NULL, WILD
<1>4. /\ \A i, b : InScope(i, b)' <=> InScope(i, b)
      /\ \A k, i, b : InCalls(k, i, b)' <=> InCalls(k, i, b)
      /\ \A i, b : InAst(i, b)' <=> InAst(i, b)
      /\ \A k, n, i, b : InNode(k, n, i, b)' <=> InNode(k, n, i, b)
  BY ScopeStays, CallsStay, AstStays, NodesStay
<1>5. \A k, n, i, b : k # "stack" => (Refers(k, n, i, b)' <=> Refers(k, n, i, b))
  BY <1>4 DEF Refers
<1>6. /\ \A n, i, b : Refers("stack", n, i, b)' <=> n = 0 /\ OnStack(i, b)'
      /\ \A n, i, b : Refers("stack", n, i, b) <=> n = 0 /\ OnStack(i, b)
  BY DEF Refers
<1>7. ASSUME NEW k, NEW n, NEW i, NEW b, Refers(k, n, i, b)' PROVE Held(k, i, b)'
  <2>1. CASE Refers(k, n, i, b)
    BY <1>3, <2>1 DEF OwnInv, AllHeld, Held, Dangles
  <2>2. CASE ~Refers(k, n, i, b)
    <3>1. k = "stack" /\ b \in {NULL, WILD}
      BY <1>5, <1>6, <1>7, <2>2
    <3> QED  BY <3>1 DEF Held, NoBlock
  <2> QED  BY <2>1, <2>2
<1>8. \A k, n, i, b : Comes(k, n, i, b) => b \notin DOMAIN heap
  BY <1>3, <1>5, <1>6 DEF Comes
<1>9. \A k, n, i, b : Goes(k, n, i, b) => b \notin DOMAIN heap \ DOMAIN leaked'
  BY <1>5, <1>6 DEF Goes
<1>10. Transfers
  BY <1>3, <1>7, <1>8, <1>9 DEF Transfers, Owes
<1> QED  BY <1>1, <1>2, <1>10, Transferred

(* A value is pushed that is no block.                                      *)
LEMMA PushesValue ==
  ASSUME OwnInv, phase = "parse", NEW v \in {NULL, WILD}, stack' = Append(stack, v),
         UNCHANGED <<heap, next, ast, scope, calls, phase, shared, leaked>>,
         "definition" \in faults' => "definition" \in faults
  PROVE  OwnInv'
<1>1. stack \in Seq(Int) /\ "definition" \notin faults
  BY Parsing
<1>2. v \in Int
  BY DEF NULL, WILD
<1>3. stack' \in Seq(Int)
  BY <1>1, <1>2
<1>4. PICK top : top = Len(stack) + 1
  OBVIOUS
<1>5. \A i, b : OnStack(i, b)' <=> OnStack(i, b) \/ (i = top /\ b = v)
  BY <1>1, <1>4, AppendedTo DEF OnStack
<1> QED  BY <1>1, <1>3, <1>5, StackChanges
(* A new block, with a text.                                                *)
LEMMA NewText ==
  ASSUME HeapInv, heap' = Overlay(At(next, Leaf("string")), heap), next' = next + 1,
         UNCHANGED <<leaked, shared>>
  PROVE  /\ HeapInv'
         /\ DOMAIN heap' = DOMAIN heap \cup {next} /\ next \notin DOMAIN heap
         /\ heap'[next] = Leaf("string")
         /\ \A b \in DOMAIN heap : heap'[b] = heap[b]
         /\ \A k, n, i, b : InNode(k, n, i, b)' <=> InNode(k, n, i, b)
<1>1. next \in Nat /\ next > 0 /\ next \notin DOMAIN heap
  BY DEF HeapInv, AST
<1>2. PICK new : new = At(next, Leaf("string"))
  OBVIOUS
<1>3. DOMAIN new = {next} /\ new[next] = Leaf("string")
  BY <1>2 DEF At
<1>4. /\ DOMAIN heap' = DOMAIN new \cup DOMAIN heap
      /\ \A x \in DOMAIN new : heap'[x] = new[x]
      /\ \A x \in DOMAIN heap \ DOMAIN new : heap'[x] = heap[x]
  BY <1>2 DEF Overlay
<1>5. /\ DOMAIN heap' = DOMAIN heap \cup {next}
      /\ heap'[next] = Leaf("string")
      /\ \A b \in DOMAIN heap : heap'[b] = heap[b]
  BY <1>1, <1>3, <1>4
<1>6. Sound(Leaf("string")) /\ Leaf("string").names = << >> /\ Leaf("string").kids = << >>
  BY SoundLeaf, OtherKinds DEF Kinds, Leaf, Block
<1>7. HeapInv'
  <2>1. next' \in Nat /\ next <= next' /\ next \in next .. next' - 1
    BY <1>1
  <2>2. next \notin shared'
    BY <1>1 DEF HeapInv
  <2>3. \A b \in DOMAIN heap' :
           /\ Sound(heap'[b])
           /\ \/ b \in next .. next' - 1 /\ b \notin shared'
              \/ b \in DOMAIN heap /\ heap'[b].kind = heap[b].kind
    BY <1>5, <1>6, <2>1, <2>2 DEF HeapInv
  <2>4. DOMAIN leaked' \subseteq 1 .. next' - 1
    BY <1>1, <2>1, StillBlocks DEF HeapInv
  <2> QED  BY <1>4, <2>1, <2>3, <2>4, HeapGrown
<1>8. \A k, n, i, b : InNode(k, n, i, b)' <=> InNode(k, n, i, b)
  <2>1. ASSUME NEW n, n \in DOMAIN heap', n \notin DOMAIN heap
        PROVE  heap'[n].names = << >> /\ heap'[n].kids = << >>
    BY <1>5, <1>6, <2>1
  <2> QED  BY <1>5, <2>1 DEF InNode
<1> QED  BY <1>1, <1>5, <1>7, <1>8

(* A text that was copied for it.                                           *)
LEMMA PushesText ==
  ASSUME OwnInv, phase = "parse", stack' = Append(stack, next),
         heap' = Overlay(At(next, Leaf("string")), heap), next' = next + 1,
         UNCHANGED <<ast, scope, calls, phase, shared, leaked>>,
         "definition" \in faults' => "definition" \in faults
  PROVE  OwnInv'
<1>1. /\ HeapInv'
      /\ DOMAIN heap' = DOMAIN heap \cup {next} /\ next \notin DOMAIN heap
      /\ heap'[next] = Leaf("string")
      /\ \A b \in DOMAIN heap : heap'[b] = heap[b]
      /\ \A k, n, i, b : InNode(k, n, i, b)' <=> InNode(k, n, i, b)
  BY NewText DEF OwnInv
<1>2. stack \in Seq(Int) /\ next \in Nat /\ next > 0 /\ next' \in Nat /\ next <= next'
  BY DEF OwnInv, PhaseInv, HeapInv, AST
<1>3. PhaseInv'
  <2>1. stack' \in Seq(Int)
    BY <1>2
  <2> QED  BY <2>1 DEF OwnInv, PhaseInv
<1>4. PICK top, text : top = Len(stack) + 1 /\ text = next
  OBVIOUS
<1>5. \A i, b : OnStack(i, b)' <=> OnStack(i, b) \/ (i = top /\ b = text)
  BY <1>2, <1>4, AppendedTo DEF OnStack
<1>7. \A k, n, i, b : Refers(k, n, i, b)' <=>
        Refers(k, n, i, b) \/ (k = "stack" /\ n = 0 /\ i = top /\ b = text)
  BY <1>1, <1>5, ScopeStays, CallsStay, AstStays DEF Refers
<1>8. "definition" \notin faults /\ "definition" \notin faults' /\ shared = {} /\ shared' = {}
  BY DEF OwnInv, PhaseInv
<1>9. Transfers
  <2>1. \A b : b \in Excused' <=> b \in Excused
    BY <1>8 DEF Excused
  <2>2. ASSUME NEW k, NEW n, NEW i, NEW b, Refers(k, n, i, b) PROVE Held(k, i, b)'
    <3>1. Held(k, i, b)
      BY <2>2 DEF OwnInv, AllHeld
    <3>2. b \in DOMAIN heap' /\ b \in 1 .. next - 1 => b \in DOMAIN heap /\ heap'[b] = heap[b]
      BY <1>1, <1>2
    <3> QED  BY <1>1, <1>2, <1>8, <3>1, <3>2, HeldStays
  <2>3. Held("stack", top, text)'
    <3>1. text \in 1 .. next' - 1
      BY <1>2, <1>4
    <3>2. text \in DOMAIN heap' /\ heap'[text].kind = "string"
      BY <1>1, <1>4 DEF Leaf, Block
    <3> QED  BY <1>8, <3>1, <3>2 DEF Held, KindFits
  <2>4. DOMAIN heap' \subseteq DOMAIN heap \cup (next .. next' - 1)
    BY <1>1, <1>2
  <2>5. text \notin DOMAIN heap
    BY <1>1, <1>4
  <2>6. \A b \in DOMAIN heap' \ DOMAIN heap : Refers("stack", 0, top, b)'
    BY <1>1, <1>4, <1>7
  <2>7. \A k, n, i, b : Refers(k, n, i, b)' => Held(k, i, b)'
    BY <1>7, <2>2, <2>3
  <2> QED  BY <1>7, <2>1, <2>4, <2>5, <2>6, <2>7 DEF Transfers, Comes, Goes
<1> QED  BY <1>1, <1>3, <1>9, Transferred

-----------------------------------------------------------------------------
(* The rules and the values they take                                       *)

\* What a rule takes it frees, once copied, or makes a child of the node, once.
Fitting(takes, names, kids) ==
  /\ takes \in Seq({TEXT, NUMBER, TREE}) /\ names \in Seq(Nat) /\ kids \in Seq(Nat)
  /\ \A i \in DOMAIN names : names[i] \in DOMAIN takes /\ takes[names[i]] = TEXT
  /\ \A i \in DOMAIN kids : kids[i] = 0 \/ (kids[i] \in DOMAIN takes /\ takes[kids[i]] = TREE)
  /\ \A i \in DOMAIN takes :
       /\ takes[i] = TEXT => \E j \in DOMAIN names : names[j] = i
       /\ takes[i] = TREE => \E j \in DOMAIN kids : kids[j] = i
  /\ \A i, j \in DOMAIN kids : kids[i] = kids[j] /\ kids[i] # 0 => i = j

RuleFits(rule) ==
  /\ rule.make \in DOMAIN Shapes \ {"string", "buffer"}
  /\ Fitting(rule.takes, rule.names, rule.kids)
  /\ rule.make = "StrLiteral" => rule.kids = << >>

(* The forms that rules have.                                               *)
LEMMA Forms ==
  /\ Fitting(<< >>, << >>, << >>) /\ Fitting(<<NUMBER>>, << >>, << >>)
  /\ Fitting(<<TREE>>, << >>, <<1>>) /\ Fitting(<<TREE, TREE>>, << >>, <<1, 2>>)
  /\ Fitting(<<TREE, TREE, TREE>>, << >>, <<1, 2, 3>>)
  /\ Fitting(<<TEXT>>, <<1>>, << >>) /\ Fitting(<<TEXT, TEXT>>, <<1, 2>>, << >>)
  /\ Fitting(<<TEXT, TREE>>, <<1>>, <<2>>) /\ Fitting(<<TREE, TEXT>>, <<2>>, <<1>>)
  /\ Fitting(<<TEXT, TREE, TEXT>>, <<1, 3>>, <<2, 0>>)
<1>1. Fitting(<< >>, << >>, << >>)
  BY DEF Fitting
<1>2. Fitting(<<NUMBER>>, << >>, << >>)
  BY DEF Fitting, TEXT, NUMBER, TREE
<1>3. Fitting(<<TREE>>, << >>, <<1>>)
  BY DEF Fitting, TEXT, NUMBER, TREE
<1>4. Fitting(<<TREE, TREE>>, << >>, <<1, 2>>)
  BY DEF Fitting, TEXT, NUMBER, TREE
<1>5. Fitting(<<TREE, TREE, TREE>>, << >>, <<1, 2, 3>>)
  BY DEF Fitting, TEXT, NUMBER, TREE
<1>6. Fitting(<<TEXT>>, <<1>>, << >>)
  BY DEF Fitting, TEXT, NUMBER, TREE
<1>7. Fitting(<<TEXT, TEXT>>, <<1, 2>>, << >>)
  BY DEF Fitting, TEXT, NUMBER, TREE
<1>8. Fitting(<<TEXT, TREE>>, <<1>>, <<2>>)
  BY DEF Fitting, TEXT, NUMBER, TREE
<1>9. Fitting(<<TREE, TEXT>>, <<2>>, <<1>>)
  BY DEF Fitting, TEXT, NUMBER, TREE
<1>10. Fitting(<<TEXT, TREE, TEXT>>, <<1, 3>>, <<2, 0>>)
  BY DEF Fitting, TEXT, NUMBER, TREE
<1> QED  BY <1>1, <1>2, <1>3, <1>4, <1>5, <1>6, <1>7, <1>8, <1>9, <1>10

(* The nodes that rules make have shapes.                                   *)
LEMMA RuleKinds ==
  UNION {DOMAIN f : f \in {ExpShapes, CondShapes, StatementShapes, BlockShape, CallShape, VarShapes,
     TypeDescShapes, FieldShape, ParamShape, VarDefShape, FuncDefShape, TypeDefShape, DefShape}}
  \subseteq DOMAIN Shapes
<1> SUFFICES ASSUME NEW f \in {ExpShapes, CondShapes, StatementShapes, BlockShape, CallShape, VarShapes,
     TypeDescShapes, FieldShape, ParamShape, VarDefShape, FuncDefShape, TypeDefShape, DefShape},
             NEW kind \in DOMAIN f
         PROVE kind \in DOMAIN Shapes
  OBVIOUS
<1>1. PICK groups : /\ groups = {ExpShapes, CondShapes, StatementShapes, BlockShape, CallShape,
                      VarShapes, TypeDescShapes, FieldShape, ParamShape, VarDefShape, FuncDefShape,
                      TypeDefShape, DefShape,
                      [buffer |-> Shape(0, 0, NodeLast), string |-> Shape(0, 0, NodeLast)]}
                    /\ Shapes = Together(groups)
  BY DEF Shapes
<1>2. f \in groups
  BY <1>1
<1>3. DOMAIN Shapes = UNION {DOMAIN g : g \in groups}
  BY <1>1, MergedAll
<1> QED  BY <1>2, <1>3

(* Every rule has one of them.                                              *)
LEMMA RulesFit == \A r \in DOMAIN Rules : RuleFits(Rules[r])
<1> DEFINE P(f) == \A r \in DOMAIN f : RuleFits(f[r])
<1>1. P(DefinitionRules)
  <2>1. {"Def", "VarDef", "TypeDef"} \subseteq DOMAIN Shapes
    BY RuleKinds DEF DefShape, VarDefShape, TypeDefShape
  <2> QED  BY <2>1, Forms DEF DefinitionRules, Rule, RuleFits
<1>2. P(TypeRules)
  <2>1. {"Alias", "Array", "Record", "FieldDef"} \subseteq DOMAIN Shapes
    BY RuleKinds DEF TypeDescShapes, FieldShape
  <2> QED  BY <2>1, Forms DEF TypeRules, Rule, RuleFits
<1>3. P(FunctionRules)
  <2>1. {"FuncDef", "Param"} \subseteq DOMAIN Shapes
    BY RuleKinds DEF FuncDefShape, ParamShape
  <2> QED  BY <2>1, Forms DEF FunctionRules, Rule, RuleFits
<1>4. P(StatementRules)
  <2>1. {"Block", "If", "While", "Assign", "Return", "CallStmt", "Echo", "BlockStmt", "VarStmt",
         "Break", "Continue"} \subseteq DOMAIN Shapes
    BY RuleKinds DEF BlockShape, StatementShapes
  <2>2. /\ RuleFits(StatementRules.block) /\ RuleFits(StatementRules.if)
        /\ RuleFits(StatementRules.while) /\ RuleFits(StatementRules.assign)
    BY <2>1, Forms DEF StatementRules, Rule, RuleFits
  <2>3. /\ RuleFits(StatementRules.return) /\ RuleFits(StatementRules.call_stmt)
        /\ RuleFits(StatementRules.echo) /\ RuleFits(StatementRules.block_stmt)
    BY <2>1, Forms DEF StatementRules, Rule, RuleFits
  <2>4. /\ RuleFits(StatementRules.var_stmt) /\ RuleFits(StatementRules.break)
        /\ RuleFits(StatementRules.continue)
    BY <2>1, Forms DEF StatementRules, Rule, RuleFits
  <2>5. DOMAIN StatementRules =
          {"block", "if", "while", "assign", "return", "call_stmt", "echo", "block_stmt",
           "var_stmt", "break", "continue"}
    BY DEF StatementRules
  <2> QED  BY <2>2, <2>3, <2>4, <2>5
<1>5. P(VarRules)
  <2>1. {"Direct", "Field", "Indexed"} \subseteq DOMAIN Shapes
    BY RuleKinds DEF VarShapes
  <2> QED  BY <2>1, Forms DEF VarRules, Rule, RuleFits
<1>6. P(PrimaryRules)
  <2>1. {"Literal", "StrLiteral", "VarExp", "CallExp", "Null", "Un", "Cast"} \subseteq DOMAIN Shapes
    BY RuleKinds DEF ExpShapes
  <2> QED  BY <2>1, Forms DEF PrimaryRules, Rule, RuleFits
<1>7. P(BinaryRules) /\ P(ConditionalRules)
  <2>1. {"Bin", "CondExp", "New"} \subseteq DOMAIN Shapes
    BY RuleKinds DEF ExpShapes
  <2> QED  BY <2>1, Forms, SMTT(30) DEF BinaryRules, ConditionalRules, Rule, RuleFits
<1>8. P(CondRules) /\ P(CallRules)
  <2>1. {"Compar", "BinCond", "Call"} \subseteq DOMAIN Shapes
    BY RuleKinds DEF CondShapes, CallShape
  <2> QED  BY <2>1, Forms DEF CondRules, CallRules, Rule, RuleFits
<1> SUFFICES ASSUME NEW r \in DOMAIN Rules PROVE RuleFits(Rules[r])
  OBVIOUS
<1>9. PICK groups : /\ groups = {DefinitionRules, TypeRules, FunctionRules, StatementRules, VarRules,
                      PrimaryRules, BinaryRules, ConditionalRules, CondRules, CallRules}
                    /\ Rules = Together(groups)
  BY DEF Rules
<1>10. PICK f \in groups : r \in DOMAIN f /\ Rules[r] = f[r]
  BY <1>9, MergedAll
<1> HIDE DEF P
<1>11. P(f)
  BY <1>1, <1>2, <1>3, <1>4, <1>5, <1>6, <1>7, <1>8, <1>9
<1> QED  BY <1>10, <1>11 DEF P

(* The values a rule takes, and what is on the stack when its own is.       *)
LEMMA Popped ==
  ASSUME NEW s \in Seq(Int), NEW n \in Nat, n <= Len(s)
  PROVE  /\ Len(s) \in Nat /\ DOMAIN s = 1 .. Len(s)
         /\ SubSeq(s, Len(s) - n + 1, Len(s)) \in Seq(Int)
         /\ Len(SubSeq(s, Len(s) - n + 1, Len(s))) = n
         /\ \A i \in 1 .. n : SubSeq(s, Len(s) - n + 1, Len(s))[i] = s[Len(s) - n + i]
         /\ SubSeq(s, 1, Len(s) - n) \in Seq(Int)
         /\ Len(SubSeq(s, 1, Len(s) - n)) = Len(s) - n
         /\ \A i \in 1 .. Len(s) - n : SubSeq(s, 1, Len(s) - n)[i] = s[i]
<1>1. PICK m : m = Len(s) - n
  OBVIOUS
<1>2. Len(s) \in Nat /\ DOMAIN s = 1 .. Len(s) /\ m \in Nat /\ \A i \in 1 .. Len(s) : s[i] \in Int
  BY <1>1
<1>3. PICK t, u : t = SubSeq(s, m + 1, Len(s)) /\ u = SubSeq(s, 1, m)
  OBVIOUS
<1>4. /\ t \in Seq(Int)
      /\ Len(t) = IF m + 1 <= Len(s) THEN Len(s) - (m + 1) + 1 ELSE 0
      /\ \A i \in 1 .. Len(s) - (m + 1) + 1 : t[i] = s[(m + 1) + i - 1]
  BY <1>2, <1>3, SubSeqProperties
<1>5. /\ u \in Seq(Int)
      /\ Len(u) = IF 1 <= m THEN m - 1 + 1 ELSE 0
      /\ \A i \in 1 .. m - 1 + 1 : u[i] = s[1 + i - 1]
  BY <1>1, <1>2, <1>3, SubSeqProperties
<1>6. Len(t) = n /\ \A i \in 1 .. n : t[i] = s[m + i]
  <2>1. /\ (IF m + 1 <= Len(s) THEN Len(s) - (m + 1) + 1 ELSE 0) = n
        /\ \A i \in 1 .. n : i \in 1 .. Len(s) - (m + 1) + 1 /\ (m + 1) + i - 1 = m + i
    BY <1>1, <1>2
  <2> QED  BY <1>4, <2>1
<1>7. Len(u) = m /\ \A i \in 1 .. m : u[i] = s[i]
  <2>1. /\ (IF 1 <= m THEN m - 1 + 1 ELSE 0) = m
        /\ \A i \in 1 .. m : i \in 1 .. m - 1 + 1 /\ 1 + i - 1 = i
    BY <1>2
  <2> QED  BY <1>5, <2>1
<1> QED  BY <1>1, <1>2, <1>3, <1>4, <1>5, <1>6, <1>7

\* The top of the stack, above base, is replaced by v.
Replaced(base, take, v) ==
  /\ base \in Nat /\ stack \in Seq(Int) /\ DOMAIN stack = 1 .. base + take
  /\ \A i \in 1 .. take : Top(take)[i] = stack[base + i] /\ stack[base + i] \in Int
  /\ stack' \in Seq(Int)
  /\ \A i, b : OnStack(i, b)' <=> (OnStack(i, b) /\ i \in 1 .. base) \/ (i = base + 1 /\ b = v)

(* So it is by a rule that takes values.                                    *)
LEMMA Replaces ==
  ASSUME OwnInv, NEW take \in Nat, take <= Len(stack), NEW v \in Int,
         stack' = Append(Below(take), v), NEW base, base = Len(stack) - take
  PROVE  Replaced(base, take, v)
<1>1. PICK s, n : s = stack /\ n = take
  OBVIOUS
<1>2. s \in Seq(Int) /\ n \in Nat /\ n <= Len(s)
  BY <1>1 DEF OwnInv, PhaseInv
<1>3. PICK t, u : t = SubSeq(s, 1, Len(s) - n) /\ u = SubSeq(s, Len(s) - n + 1, Len(s))
  OBVIOUS
<1>4. /\ Len(s) \in Nat /\ DOMAIN s = 1 .. Len(s)
      /\ u \in Seq(Int) /\ Len(u) = n /\ \A i \in 1 .. n : u[i] = s[Len(s) - n + i]
      /\ t \in Seq(Int) /\ Len(t) = Len(s) - n /\ \A i \in 1 .. Len(s) - n : t[i] = s[i]
  BY <1>2, <1>3, Popped
<1>5. base = Len(s) - n /\ base + n = Len(s) /\ base \in Nat
  BY <1>1, <1>2, <1>4
<1>6. t = Below(take) /\ u = Top(take)
  BY <1>1, <1>3 DEF Below, Top
<1>7. \A i \in 1 .. n : u[i] = s[base + i] /\ u[i] \in Int
  <2>1. \A i \in 1 .. n : u[i] \in Int
    BY <1>2, <1>4
  <2>2. \A i \in 1 .. n : u[i] = s[Len(s) - n + i]
    BY <1>4
  <2> QED  BY <1>5, <2>1, <2>2
<1>8. PICK w : w = Append(t, v)
  OBVIOUS
<1>9. /\ w \in Seq(Int) /\ DOMAIN w = 1 .. base + 1 /\ w[base + 1] = v
      /\ \A i \in 1 .. base : w[i] = s[i]
  <2>1. t \in Seq(Int) /\ Len(t) = base /\ \A i \in 1 .. base : t[i] = s[i]
    <3>1. Len(s) - n = base
      BY <1>5
    <3> QED  BY <1>4, <3>1
  <2>2. /\ DOMAIN w = 1 .. Len(t) + 1 /\ w[Len(t) + 1] = v /\ \A i \in 1 .. Len(t) : w[i] = t[i]
    <3>1. Len(t) \in Nat /\ DOMAIN t = 1 .. Len(t)
      BY <2>1
    <3>2. \A q \in Seq(Int), y \in Int :
            /\ Append(q, y) \in Seq(Int) /\ Len(Append(q, y)) = Len(q) + 1
            /\ \A i \in 1 .. Len(q) : Append(q, y)[i] = q[i]
            /\ Append(q, y)[Len(q) + 1] = y
      BY AppendProperties
    <3>3. /\ w \in Seq(Int) /\ Len(w) = Len(t) + 1
          /\ \A i \in 1 .. Len(t) : w[i] = t[i]
          /\ w[Len(t) + 1] = v
      BY <1>8, <2>1, <3>2
    <3> QED  BY <3>1, <3>3
  <2>3. w \in Seq(Int)
    BY <1>8, <2>1
  <2> QED  BY <2>1, <2>2, <2>3
<1>10. 1 .. base \subseteq DOMAIN s
  BY <1>4, <1>5
<1>11. stack' = w
  BY <1>6, <1>8
<1>12. \A i, b : OnStack(i, b)' <=> (OnStack(i, b) /\ i \in 1 .. base) \/ (i = base + 1 /\ b = v)
  <2>1. \A i, b : OnStack(i, b)' <=> i \in 1 .. base + 1 /\ b = w[i]
    BY <1>9, <1>11 DEF OnStack
  <2>2. \A i, b : OnStack(i, b) <=> i \in DOMAIN s /\ b = s[i]
    BY <1>1 DEF OnStack
  <2>3. \A i : i \in 1 .. base + 1 <=> i \in 1 .. base \/ i = base + 1
    BY <1>5
  <2> QED  BY <1>9, <1>10, <2>1, <2>2, <2>3
<1> QED  BY <1>1, <1>2, <1>4, <1>5, <1>6, <1>7, <1>9, <1>11, <1>12 DEF Replaced
-----------------------------------------------------------------------------
(* The parser reduces                                                       *)

(* A reduction frees or keeps its texts, and its trees become children.     *)
LEMMA Reduces == ASSUME OwnInv, Reduce PROVE OwnInv'
<1>1. PICK rule : rule = Rules[Head(input)] /\ RuleFits(rule)
  BY RulesFit DEF Reduce, Parses
<1>2. PICK take : take = Len(rule.takes)
  OBVIOUS
<1>3. PICK values : values = Top(take)
  OBVIOUS
<1>4. PICK texts : texts = {values[i] : i \in Range(rule.names)} \ {NULL}
  OBVIOUS
<1>5. PICK kept : kept = IF Head(input) \in KeepsText THEN texts ELSE {}
  OBVIOUS
<1>6. PICK kids : kids = [i \in DOMAIN rule.kids |-> IF rule.kids[i] = 0 THEN NULL ELSE values[rule.kids[i]]]
  OBVIOUS
<1>7. PICK node : node = Node(next, rule.make, kids)
  OBVIOUS
<1>8. /\ Running /\ phase = "parse"
      /\ Len(stack) >= take /\ \A i \in 1 .. take : Fits(values[i], rule.takes[i])
      /\ heap' = Overlay(node, Without(heap, texts \ kept))
      /\ next' = next + Size(rule.make)
      /\ stack' = Append(Below(take), next)
      /\ leaked' = Overlay([b \in kept \ {NULL, WILD} |-> "text"], leaked)
      /\ UNCHANGED <<ast, scope, calls, phase, shared, faults>>
  BY <1>1, <1>2, <1>3, <1>4, <1>5, <1>6, <1>7 DEF Reduce, Parses, Drop, analysis
<1>9. PICK base, size, id : base = Len(stack) - take /\ size = Size(rule.make) /\ id = next
  OBVIOUS
\* The values
<1>10. /\ stack \in Seq(Int) /\ shared = {} /\ "definition" \notin faults /\ Excused = {}
       /\ next \in Nat /\ next > 0 /\ DOMAIN heap \subseteq 1 .. next - 1
  BY <1>8 DEF OwnInv, PhaseInv, HeapInv, Excused, AST
<1>11. /\ take \in Nat /\ DOMAIN rule.takes = 1 .. take
       /\ rule.names \in Seq(Nat) /\ rule.kids \in Seq(Nat)
       /\ \A i \in DOMAIN rule.names : rule.names[i] \in 1 .. take /\ rule.takes[rule.names[i]] = TEXT
       /\ \A i \in DOMAIN rule.kids :
            rule.kids[i] = 0 \/ (rule.kids[i] \in 1 .. take /\ rule.takes[rule.kids[i]] = TREE)
       /\ \A i \in 1 .. take :
            /\ rule.takes[i] \in {TEXT, NUMBER, TREE}
            /\ rule.takes[i] = TEXT => \E j \in DOMAIN rule.names : rule.names[j] = i
            /\ rule.takes[i] = TREE => \E j \in DOMAIN rule.kids : rule.kids[j] = i
       /\ \A i, j \in DOMAIN rule.kids : rule.kids[i] = rule.kids[j] /\ rule.kids[i] # 0 => i = j
  <2>1. PICK ts, ns, ks : ts = rule.takes /\ ns = rule.names /\ ks = rule.kids
    OBVIOUS
  <2>2. Fitting(ts, ns, ks)
    BY <1>1, <2>1 DEF RuleFits
  <2>3. take = Len(ts) /\ ts \in Seq({TEXT, NUMBER, TREE})
    BY <1>2, <2>1, <2>2 DEF Fitting
  <2>4. take \in Nat /\ DOMAIN ts = 1 .. take /\ \A i \in 1 .. take : ts[i] \in {TEXT, NUMBER, TREE}
    BY <2>3
  <2>5. /\ ns \in Seq(Nat) /\ ks \in Seq(Nat)
        /\ \A i \in DOMAIN ns : ns[i] \in DOMAIN ts /\ ts[ns[i]] = TEXT
        /\ \A i \in DOMAIN ks : ks[i] = 0 \/ (ks[i] \in DOMAIN ts /\ ts[ks[i]] = TREE)
        /\ \A i \in DOMAIN ts :
             /\ ts[i] = TEXT => \E j \in DOMAIN ns : ns[j] = i
             /\ ts[i] = TREE => \E j \in DOMAIN ks : ks[j] = i
        /\ \A i, j \in DOMAIN ks : ks[i] = ks[j] /\ ks[i] # 0 => i = j
    BY <2>2 DEF Fitting
  <2> QED  BY <2>1, <2>4, <2>5
<1>12. /\ base \in Nat /\ DOMAIN stack = 1 .. base + take /\ stack' \in Seq(Int)
       /\ \A i \in 1 .. take : values[i] = stack[base + i] /\ values[i] \in Int
       /\ \A i, b : OnStack(i, b)' <=> (OnStack(i, b) /\ i \in 1 .. base) \/ (i = base + 1 /\ b = id)
  <2>1. stack' = Append(Below(take), id) /\ id \in Int /\ take <= Len(stack) /\ take \in Nat
    BY <1>8, <1>9, <1>10, <1>11
  <2>2. Replaced(base, take, id)
    BY <1>9, <2>1, Replaces
  <2> QED  BY <1>3, <2>2 DEF Replaced
<1>13. ASSUME NEW i \in 1 .. take PROVE Refers("stack", 0, base + i, values[i])
  <2>1. base + i \in DOMAIN stack
    BY <1>11, <1>12
  <2> QED  BY <1>12, <2>1 DEF Refers, OnStack
<1>14. ASSUME NEW b \in texts
       PROVE  /\ b \in DOMAIN heap /\ heap[b].kind = "string"
              /\ \E i \in 1 .. take : values[i] = b
  <2>1. PICK j \in DOMAIN rule.names : values[rule.names[j]] = b /\ b # NULL
    BY <1>4 DEF Range
  <2>2. rule.names[j] \in 1 .. take /\ rule.takes[rule.names[j]] = TEXT
    BY <1>11
  <2>3. Fits(b, TEXT)
    BY <1>8, <2>1, <2>2
  <2> QED  BY <2>1, <2>2, <2>3 DEF Fits
<1>15. ASSUME NEW i \in DOMAIN rule.kids, rule.kids[i] # 0
       PROVE  /\ kids[i] = values[rule.kids[i]] /\ rule.kids[i] \in 1 .. take
              /\ Refers("stack", 0, base + rule.kids[i], kids[i])
              /\ kids[i] = NULL \/ (/\ kids[i] \in DOMAIN heap
                                    /\ heap[kids[i]].kind \notin {"string", "Ast", "Symbol"})
  <2>1. kids[i] = values[rule.kids[i]] /\ rule.kids[i] \in 1 .. take /\ rule.takes[rule.kids[i]] = TREE
    BY <1>6, <1>11, <1>15
  <2>2. Fits(kids[i], TREE)
    BY <1>8, <2>1
  <2>3. Refers("stack", 0, base + rule.kids[i], kids[i])
    BY <1>13, <2>1
  <2>4. Held("stack", base + rule.kids[i], kids[i])
    BY <2>3 DEF OwnInv, AllHeld
  <2>5. kids[i] = NULL \/ (kids[i] \in DOMAIN heap /\ heap[kids[i]].kind # "string")
    BY <2>2 DEF Fits, TREE, TEXT
  <2>6. kids[i] \in DOMAIN heap => heap[kids[i]].kind \notin {"Ast", "Symbol"}
    BY <1>10, <2>4 DEF Held, NoBlock, KindFits, NULL, WILD
  <2> QED  BY <2>1, <2>3, <2>5, <2>6
<1>16. kids \in Seq(Int) /\ DOMAIN kids = DOMAIN rule.kids /\ (rule.kids = << >> => kids = << >>)
  <2>1. PICK m : m = Len(rule.kids) /\ m \in Nat /\ DOMAIN rule.kids = 1 .. m
    <3>1. rule.kids \in Seq(Nat)
      BY <1>11
    <3> QED  BY <3>1, LenProperties
  <2>2. \A i \in 1 .. m : kids[i] \in Int
    <3> SUFFICES ASSUME NEW i \in 1 .. m PROVE kids[i] \in Int
      OBVIOUS
    <3>1. kids[i] = IF rule.kids[i] = 0 THEN NULL ELSE values[rule.kids[i]]
      BY <1>6, <2>1
    <3>2. rule.kids[i] # 0 => values[rule.kids[i]] \in Int
      BY <1>11, <1>12, <2>1
    <3> QED  BY <3>1, <3>2 DEF NULL
  <2>3. kids \in [1 .. m -> Int]
    BY <1>6, <2>1, <2>2
  <2>4. kids \in Seq(Int) /\ DOMAIN kids = 1 .. m
    BY <2>1, <2>3
  <2>5. rule.kids = << >> => kids = << >>
    BY <1>6
  <2> QED  BY <2>1, <2>4, <2>5
\* The blocks
<1>17. /\ size \in Nat \ {0}
       /\ DOMAIN node = id .. id + size - 1
       /\ node[id].kind = rule.make /\ node[id].kids = kids
       /\ DOMAIN node[id].names = 1 .. size - 1
       /\ \A i \in 1 .. size - 1 : node[id].names[i] = id + i
       /\ \A b \in id + 1 .. id + size - 1 : node[b] = Leaf("string")
       /\ \A b \in DOMAIN node : Sound(node[b])
  <2>1. /\ id \in Nat \ {0} /\ rule.make \in DOMAIN Shapes \ {"string", "buffer"}
        /\ rule.make = "StrLiteral" => kids = << >>
    BY <1>1, <1>9, <1>10, <1>16 DEF RuleFits
  <2>2. PICK kind : kind = rule.make
    OBVIOUS
  <2>3. node = Node(id, kind, kids) /\ size = Size(kind) /\ kids \in Seq(Int)
    BY <1>7, <1>9, <1>16, <2>2
  <2>4. NodeOf(node, id, kind, kids)
    <3>1. /\ id \in Nat \ {0} /\ kind \in DOMAIN Shapes /\ kids \in Seq(Int)
          /\ kind \in {"string", "buffer", "StrLiteral"} => kids = << >>
          /\ kind \in {"string", "buffer"} => Shapes[kind].names = 0
      BY <2>1, <2>2, <2>3
    <3> QED  BY <2>3, <3>1, NewNode
  <2> QED  BY <2>2, <2>3, <2>4 DEF NodeOf
<1>18. PICK freed : freed = texts \ kept
  OBVIOUS
<1>19. /\ DOMAIN heap' = (id .. id + size - 1) \cup (DOMAIN heap \ freed)
       /\ \A b \in id .. id + size - 1 : heap'[b] = node[b] /\ b \notin DOMAIN heap
       /\ \A b \in DOMAIN heap \ freed : heap'[b] = heap[b]
       /\ next' = id + size /\ next' \in Nat /\ next <= next' /\ id = next
       /\ next .. next' - 1 = id .. id + size - 1
  <2>1. \A b \in id .. id + size - 1 : b \notin DOMAIN heap
    BY <1>9, <1>10, <1>17
  <2>2. PICK rest : rest = Without(heap, freed)
    OBVIOUS
  <2>3. DOMAIN rest = DOMAIN heap \ freed /\ \A b \in DOMAIN heap \ freed : rest[b] = heap[b]
    BY <2>2 DEF Without
  <2>4. heap' = Overlay(node, rest)
    BY <1>8, <1>18, <2>2
  <2>5. /\ DOMAIN heap' = DOMAIN node \cup DOMAIN rest
        /\ \A b \in DOMAIN node : heap'[b] = node[b]
        /\ \A b \in DOMAIN rest : b \notin DOMAIN node => heap'[b] = rest[b]
    BY <2>4 DEF Overlay
  <2>6. next' = id + size /\ next' \in Nat /\ next <= next' /\ id = next
    BY <1>8, <1>9, <1>10, <1>17
  <2>7. next .. next' - 1 = id .. id + size - 1
    <3>1. size \in Int /\ id \in Int /\ next' = id + size /\ next = id
      BY <1>10, <1>17, <2>6
    <3> QED  BY <3>1
  <2> QED  BY <1>17, <2>1, <2>3, <2>5, <2>6, <2>7
<1>20. DOMAIN leaked' = DOMAIN leaked \cup kept /\ kept \subseteq DOMAIN heap /\ freed \subseteq DOMAIN heap
  <2>1. kept \subseteq texts /\ freed \subseteq texts
    BY <1>5, <1>18
  <2>2. texts \subseteq DOMAIN heap
    BY <1>14
  <2>3. kept \ {NULL, WILD} = kept
    BY <1>10, <2>1, <2>2 DEF NULL, WILD
  <2> QED  BY <1>8, <2>1, <2>2, <2>3 DEF Overlay
<1>21. HeapInv'
  <2>1. ASSUME NEW b \in DOMAIN heap'
        PROVE  /\ Sound(heap'[b])
               /\ \/ b \in next .. next' - 1 /\ b \notin shared'
                  \/ b \in DOMAIN heap /\ heap'[b].kind = heap[b].kind
    <3>1. CASE b \in id .. id + size - 1
      BY <1>8, <1>10, <1>17, <1>19, <3>1
    <3>2. CASE b \in DOMAIN heap \ freed
      BY <1>19, <3>2 DEF OwnInv, HeapInv
    <3> QED  BY <1>19, <3>1, <3>2
  <2>2. DOMAIN leaked' \subseteq 1 .. next' - 1
    <3>1. DOMAIN leaked' \subseteq 1 .. next - 1
      BY <1>10, <1>20 DEF OwnInv, HeapInv
    <3> QED  BY <1>10, <1>19, <3>1, StillBlocks
  <2> QED  BY <1>8, <1>19, <2>1, <2>2, HeapGrown DEF OwnInv
<1>22. PhaseInv'
  BY <1>8, <1>12 DEF OwnInv, PhaseInv
\* The references
<1>24. \A k, n, i, b : InNode(k, n, i, b)' <=>
         \/ InNode(k, n, i, b)
         \/ n = id /\ k = "name" /\ i \in 1 .. size - 1 /\ b = id + i
         \/ n = id /\ k = "kid" /\ i \in DOMAIN kids /\ b = kids[i]
  <2>1. ASSUME NEW n \in DOMAIN heap'
        PROVE  \/ n = id
               \/ n # id /\ n \notin DOMAIN heap /\ heap'[n].names = << >> /\ heap'[n].kids = << >>
               \/ n # id /\ n \in DOMAIN heap /\ heap'[n] = heap[n]
    <3>1. CASE n \in id + 1 .. id + size - 1
      <4>1. n # id /\ n \in id .. id + size - 1
        BY <1>9, <1>10, <3>1
      <4>2. heap'[n] = Leaf("string") /\ n \notin DOMAIN heap
        BY <1>17, <1>19, <3>1, <4>1
      <4> QED  BY <4>1, <4>2 DEF Leaf, Block
    <3>2. CASE n \in DOMAIN heap \ freed
      <4>1. n # id
        BY <1>9, <1>10, <3>2
      <4> QED  BY <1>19, <3>2, <4>1
    <3>3. n = id \/ n \in id + 1 .. id + size - 1 \/ n \in DOMAIN heap \ freed
      BY <1>9, <1>10, <1>17, <1>19
    <3> QED  BY <3>1, <3>2, <3>3
  <2>2. ASSUME NEW n \in DOMAIN heap, n \notin DOMAIN heap'
        PROVE  heap[n].names = << >> /\ heap[n].kids = << >>
    <3>1. n \in texts
      BY <1>18, <1>19, <2>2
    <3>2. heap[n].kind = "string" /\ Sound(heap[n])
      BY <1>14, <3>1 DEF OwnInv, HeapInv
    <3> QED  BY <3>2 DEF Sound, IsLeaf
  <2>3. id \in DOMAIN heap' /\ id \notin DOMAIN heap /\ heap'[id] = node[id]
    BY <1>9, <1>10, <1>17, <1>19
  <2> QED  BY <1>17, <2>1, <2>2, <2>3 DEF InNode
<1>25. \A k, n, i, b : Refers(k, n, i, b)' <=>
         \/ Refers(k, n, i, b) /\ ~(k = "stack" /\ i \notin 1 .. base)
         \/ k = "stack" /\ n = 0 /\ i = base + 1 /\ b = id
         \/ n = id /\ k = "name" /\ i \in 1 .. size - 1 /\ b = id + i
         \/ n = id /\ k = "kid" /\ i \in DOMAIN kids /\ b = kids[i]
  BY <1>8, <1>12, <1>24, ScopeStays, CallsStay, AstStays DEF Refers
<1>26. ASSUME NEW k, NEW n, NEW i, NEW b, Refers(k, n, i, b), k = "stack", i \notin 1 .. base
       PROVE  \E j \in 1 .. take : i = base + j /\ b = values[j]
  <2>1. n = 0 /\ i \in 1 .. base + take /\ b = stack[i]
    BY <1>12, <1>26 DEF Refers, OnStack
  <2>2. i - base \in 1 .. take /\ i = base + (i - base)
    BY <1>11, <1>12, <1>26, <2>1
  <2>3. values[i - base] = stack[i]
    BY <1>12, <2>2
  <2> QED  BY <2>1, <2>2, <2>3
<1>27. ASSUME NEW b \in DOMAIN heap, NEW k, NEW n, NEW i, Refers(k, n, i, b),
              NEW l, NEW m, NEW j, Refers(l, m, j, b)
       PROVE  k = l /\ n = m /\ i = j
  BY <1>10, <1>27 DEF OwnInv, Single
<1>28. ASSUME NEW b \in texts PROVE \A k, n, i : Refers(k, n, i, b) => k = "stack" /\ i \notin 1 .. base
  <2>1. PICK j \in 1 .. take : values[j] = b /\ b \in DOMAIN heap
    BY <1>14
  <2>2. Refers("stack", 0, base + j, b)
    BY <1>13, <2>1
  <2>3. base + j \notin 1 .. base
    BY <1>11, <1>12
  <2> QED  BY <1>27, <2>1, <2>2, <2>3
\* The ownership
<1>29. ASSUME NEW k, NEW n, NEW i, NEW b, Refers(k, n, i, b), ~(k = "stack" /\ i \notin 1 .. base)
       PROVE  Held(k, i, b)'
  <2>1. Held(k, i, b) /\ b \notin freed
    BY <1>18, <1>28, <1>29 DEF OwnInv, AllHeld
  <2>2. b \in DOMAIN heap' /\ b \in 1 .. next - 1 => b \in DOMAIN heap /\ heap'[b] = heap[b]
    BY <1>9, <1>10, <1>17, <1>19
  <2>3. b \in DOMAIN heap => b \in DOMAIN heap'
    BY <1>19, <2>1
  <2> QED  BY <1>8, <1>10, <1>19, <2>1, <2>2, <2>3, HeldStays
<1>30. Held("stack", base + 1, id)'
  <2>1. id \in 1 .. next' - 1 /\ id \in DOMAIN heap' /\ heap'[id].kind = rule.make
    BY <1>9, <1>10, <1>17, <1>19, SMTT(30)
  <2>2. rule.make \notin {"Ast", "Symbol"}
    BY <1>1, OtherKinds DEF RuleFits
  <2> QED  BY <1>8, <1>10, <2>1, <2>2 DEF Held, KindFits
<1>31. ASSUME NEW i \in 1 .. size - 1 PROVE Held("name", i, id + i)'
  <2>1. id + i \in 1 .. next' - 1 /\ id + i \in DOMAIN heap' /\ heap'[id + i].kind = "string"
    <3>1. id + i \in id + 1 .. id + size - 1 /\ id + i \in id .. id + size - 1 /\ id + i > 0
      BY <1>9, <1>10, <1>17
    <3>2. heap'[id + i] = Leaf("string") /\ id + i \in DOMAIN heap'
      BY <1>17, <1>19, <3>1
    <3>3. id + i \in 1 .. next' - 1
      BY <1>9, <1>10, <1>17, <1>19, <3>1
    <3> QED  BY <3>2, <3>3 DEF Leaf, Block
  <2> QED  BY <1>8, <1>10, <2>1 DEF Held, KindFits
<1>32. ASSUME NEW i \in DOMAIN kids PROVE Held("kid", i, kids[i])'
  <2>1. CASE kids[i] = NULL
    BY <2>1 DEF Held, NoBlock
  <2>2. CASE kids[i] # NULL
    <3>1. rule.kids[i] # 0 /\ i \in DOMAIN rule.kids
      BY <1>6, <1>16, <2>2
    <3>2. kids[i] \in DOMAIN heap /\ heap[kids[i]].kind \notin {"string", "Ast", "Symbol"}
      BY <1>15, <2>2, <3>1
    <3>3. kids[i] \notin freed
      BY <1>14, <1>18, <3>2
    <3>4. kids[i] \in DOMAIN heap' /\ heap'[kids[i]] = heap[kids[i]]
      BY <1>19, <3>2, <3>3
    <3>5. kids[i] \in 1 .. next' - 1
      BY <1>10, <1>19, <3>2, StillBlocks
    <3> QED  BY <3>2, <3>4, <3>5 DEF Held, KindFits
  <2> QED  BY <2>1, <2>2
<1>33. ASSUME NEW i \in DOMAIN kids, kids[i] \in DOMAIN heap
       PROVE  rule.kids[i] \in 1 .. take /\ Goes("stack", 0, base + rule.kids[i], kids[i])
  <2>1. kids[i] # NULL
    BY <1>10, <1>33 DEF NULL
  <2>2. rule.kids[i] # 0 /\ i \in DOMAIN rule.kids
    BY <1>6, <1>16, <2>1
  <2>3. rule.kids[i] \in 1 .. take /\ Refers("stack", 0, base + rule.kids[i], kids[i])
    BY <1>15, <2>2
  <2>4. base + rule.kids[i] \notin 1 .. base /\ kids[i] # id
    <3>1. kids[i] # id
      BY <1>9, <1>10, <1>33
    <3>2. \A p \in 1 .. take : base + p \notin 1 .. base
      BY <1>11, <1>12
    <3> QED  BY <2>3, <3>1, <3>2
  <2>5. ~Refers("stack", 0, base + rule.kids[i], kids[i])'
    BY <1>25, <2>4
  <2> QED  BY <2>3, <2>5 DEF Goes
<1>34. ASSUME NEW k, NEW n, NEW i, NEW b, Comes(k, n, i, b)
       PROVE  \/ k = "stack" /\ n = 0 /\ i = base + 1 /\ b = id
              \/ n = id /\ k = "name" /\ i \in 1 .. size - 1 /\ b = id + i
              \/ n = id /\ k = "kid" /\ i \in DOMAIN kids /\ b = kids[i]
  BY <1>25, <1>34 DEF Comes
<1>35. Transfers
  <2>1. DOMAIN heap' \subseteq DOMAIN heap \cup (next .. next' - 1)
    BY <1>19
  <2>2. \A b \in Excused : b \in DOMAIN heap' => b \in Excused'
    BY <1>10
  <2>3. DOMAIN leaked \subseteq DOMAIN leaked'
    BY <1>20
  <2>4. \A k, n, i, b : Refers(k, n, i, b)' => Held(k, i, b)'
    BY <1>25, <1>29, <1>30, <1>31, <1>32
  <2>5. ASSUME NEW k, NEW n, NEW i, NEW l, NEW m, NEW j, NEW b,
               Comes(k, n, i, b), Comes(l, m, j, b), Owes(b)'
        PROVE  k = l /\ n = m /\ i = j
    <3>1. b \in id .. id + size - 1 \/ b \in DOMAIN heap
      BY <1>19, <2>5 DEF Owes
    <3>2. CASE b \notin DOMAIN heap
      <4>1. \A ii \in DOMAIN kids : b # kids[ii]
        <5> SUFFICES ASSUME NEW ii \in DOMAIN kids, b = kids[ii] PROVE FALSE
          OBVIOUS
        <5>1. b # NULL
          BY <1>9, <1>10, <3>1, <3>2 DEF NULL
        <5>2. rule.kids[ii] # 0 /\ ii \in DOMAIN rule.kids
          BY <1>6, <1>16, <5>1
        <5> QED  BY <1>15, <3>2, <5>1, <5>2
      <4> QED  BY <1>9, <1>10, <1>34, <2>5, <4>1
    <3>3. CASE b \in DOMAIN heap
      <4>1. b # id /\ \A ii \in 1 .. size - 1 : b # id + ii
        BY <1>9, <1>10, <3>3
      <4>2. n = id /\ k = "kid" /\ i \in DOMAIN kids /\ b = kids[i]
        BY <1>34, <2>5, <4>1
      <4>3. m = id /\ l = "kid" /\ j \in DOMAIN kids /\ b = kids[j]
        BY <1>34, <2>5, <4>1
      <4>4. /\ rule.kids[i] \in 1 .. take /\ rule.kids[j] \in 1 .. take
            /\ Refers("stack", 0, base + rule.kids[i], b) /\ Refers("stack", 0, base + rule.kids[j], b)
        BY <1>33, <3>3, <4>2, <4>3 DEF Goes
      <4>5. base + rule.kids[i] = base + rule.kids[j]
        BY <1>27, <3>3, <4>4
      <4>6. rule.kids[i] = rule.kids[j] /\ rule.kids[i] # 0
        <5>1. \A q, r \in 1 .. take : base + q = base + r => q = r /\ q # 0
          BY <1>11, <1>12
        <5> QED  BY <4>4, <4>5, <5>1
      <4> QED  BY <1>11, <1>16, <4>2, <4>3, <4>6
    <3> QED  BY <3>2, <3>3
  <2>6. ASSUME NEW k, NEW n, NEW i, NEW b, Comes(k, n, i, b), b \in DOMAIN heap
        PROVE  \E l, m, j : Goes(l, m, j, b)
    <3>1. b # id /\ \A ii \in 1 .. size - 1 : b # id + ii
      BY <1>9, <1>10, <2>6
    <3>2. i \in DOMAIN kids /\ b = kids[i]
      BY <1>34, <2>6, <3>1
    <3>3. Goes("stack", 0, base + rule.kids[i], b)
      BY <1>33, <2>6, <3>2
    <3> QED  BY <3>3
  <2>7. ASSUME NEW k, NEW n, NEW i, NEW b, Goes(k, n, i, b), b \in DOMAIN heap' \ DOMAIN leaked'
        PROVE  \E l, m, j : Refers(l, m, j, b)'
    <3>1. Refers(k, n, i, b) /\ k = "stack" /\ i \notin 1 .. base
      BY <1>25, <2>7 DEF Goes
    <3>2. PICK p \in 1 .. take : i = base + p /\ b = values[p]
      BY <1>26, <3>1
    <3>3. b # NULL /\ Fits(b, rule.takes[p])
      <4>1. b # NULL
        BY <2>7, <1>21 DEF HeapInv, NULL
      <4> QED  BY <1>8, <3>2, <4>1
    <3>4. rule.takes[p] # NUMBER
      BY <3>3 DEF Fits
    <3>5. CASE rule.takes[p] = TEXT
      <4>1. PICK q \in DOMAIN rule.names : rule.names[q] = p
        BY <1>11, <3>5
      <4>2. b \in texts
        BY <1>4, <3>2, <3>3, <4>1 DEF Range
      <4>3. b \in kept \/ b \in freed
        BY <1>18, <4>2
      <4>4. b \notin freed
        <5>1. b \in DOMAIN heap
          BY <1>14, <4>2
        <5> QED  BY <1>19, <2>7, <5>1
      <4> QED  BY <1>20, <2>7, <4>3, <4>4
    <3>6. CASE rule.takes[p] = TREE
      <4>1. PICK q \in DOMAIN rule.kids : rule.kids[q] = p
        BY <1>11, <3>6
      <4>2. p # 0
        BY <1>11
      <4>3. kids[q] = b /\ q \in DOMAIN kids
        BY <1>15, <1>16, <3>2, <4>1, <4>2
      <4>4. Refers("kid", id, q, b)'
        BY <1>25, <4>3
      <4> QED  BY <4>4
    <3> QED  BY <1>11, <3>4, <3>5, <3>6
  <2>8. ASSUME NEW b \in DOMAIN heap' \ DOMAIN heap PROVE \E l, m, j : Refers(l, m, j, b)'
    <3>1. b = id \/ (b - id \in 1 .. size - 1 /\ b = id + (b - id))
      BY <1>9, <1>10, <1>17, <1>19, SMTT(30)
    <3>2. CASE b = id
      <4>1. Refers("stack", 0, base + 1, b)'
        BY <1>25, <3>2
      <4> QED  BY <4>1
    <3>3. CASE b - id \in 1 .. size - 1 /\ b = id + (b - id)
      <4>1. Refers("name", id, b - id, b)'
        BY <1>25, <3>3
      <4> QED  BY <4>1
    <3> QED  BY <3>1, <3>2, <3>3
  <2> QED  BY <2>1, <2>2, <2>3, <2>4, <2>5, <2>6, <2>7, <2>8 DEF Transfers
<1> QED  BY <1>21, <1>22, <1>35, Transferred

-----------------------------------------------------------------------------
(* The parser makes lists                                                   *)

\* The heap h when an element is pushed to the vector es, which is block p of new.
IsPush(new, h, buffer, fresh, p, es, element) ==
  /\ es \in Seq(Int) /\ Len(es) \in Nat /\ DOMAIN es = 1 .. Len(es)
  /\ buffer = NULL => p = fresh /\ es = << >>
  /\ buffer # NULL => p = buffer /\ es = heap[buffer].kids
  /\ DOMAIN new = DOMAIN h \cup {p}
  /\ \A b \in DOMAIN h : b # p => new[b] = h[b]
  /\ new[p].kind = "buffer" /\ new[p].names = << >> /\ Sound(new[p])
  /\ DOMAIN new[p].kids = 1 .. Len(es) + 1
  /\ \A i \in 1 .. Len(es) : new[p].kids[i] = es[i]
  /\ new[p].kids[Len(es) + 1] = element

(* What a vector holds after a push, and the heap h of which it is a part.  *)
LEMMA PushedBlock ==
  ASSUME HeapInv, NEW h, NEW buffer, NEW element \in Int, NEW fresh,
         buffer = NULL \/ (buffer \in DOMAIN heap /\ heap[buffer].kind = "buffer"),
         NEW p, p = BufferOf(buffer, fresh), NEW es, es = Elements(buffer),
         NEW new, new = Pushed(h, buffer, element, fresh)
  PROVE  IsPush(new, h, buffer, fresh, p, es, element)
<1>1. buffer # NULL => heap[buffer].kids \in Seq(Int)
  BY DEF HeapInv, Sound, Blocks
<1>2. /\ buffer = NULL => p = fresh /\ es = << >>
      /\ buffer # NULL => p = buffer /\ es = heap[buffer].kids
  BY DEF BufferOf, Elements
<1>3. es \in Seq(Int)
  <2>1. << >> \in Seq(Int)
    OBVIOUS
  <2> QED  BY <1>1, <1>2, <2>1
<1>4. PICK kids : kids = Append(es, element)
  OBVIOUS
<1>5. /\ Len(es) \in Nat /\ DOMAIN es = 1 .. Len(es)
      /\ kids \in Seq(Int) /\ DOMAIN kids = 1 .. Len(es) + 1
      /\ \A i \in 1 .. Len(es) : kids[i] = es[i]
      /\ kids[Len(es) + 1] = element
  BY <1>3, <1>4, AppendedTo
<1>6. PICK block : block = Block("buffer", << >>, kids)
  OBVIOUS
<1>7. block = [kind |-> "buffer", names |-> << >>, kids |-> kids]
  BY <1>6 DEF Block
<1>8. Sound(block)
  BY <1>5, <1>7, OtherKinds DEF Sound, Blocks, Kinds
<1>9. new = Overlay(At(p, block), h)
  BY <1>4, <1>6 DEF Pushed
<1>10. DOMAIN At(p, block) = {p} /\ At(p, block)[p] = block
  BY DEF At
<1>11. DOMAIN new = DOMAIN h \cup {p} /\ new[p] = block /\ \A b \in DOMAIN h : b # p => new[b] = h[b]
  BY <1>9, <1>10 DEF Overlay
<1> QED  BY <1>2, <1>3, <1>5, <1>7, <1>8, <1>11 DEF IsPush

\* The heap after it, and who refers to what, if h holds what the heap did.
HeapPushed(h, p, es, element) ==
  /\ Len(es) \in Nat
  /\ DOMAIN heap' = DOMAIN h \cup {p}
  /\ heap'[p].kind = "buffer" /\ Sound(heap'[p])
  /\ \A b \in DOMAIN h : b # p => heap'[b] = h[b]
  /\ \A k, n, i, b : InNode(k, n, i, b)' <=>
       \/ InNode(k, n, i, b)
       \/ n = p /\ k = "kid" /\ i = Len(es) + 1 /\ b = element
       \/ /\ n \in DOMAIN h \ DOMAIN heap
          /\ \/ k = "name" /\ i \in DOMAIN h[n].names /\ b = h[n].names[i]
             \/ k = "kid" /\ i \in DOMAIN h[n].kids /\ b = h[n].kids[i]

(* A push comes to that.                                                    *)
LEMMA PushedNodes ==
  ASSUME HeapInv, NEW h, NEW buffer, NEW element \in Int, NEW fresh,
         buffer = NULL \/ (buffer \in DOMAIN heap /\ heap[buffer].kind = "buffer"),
         NEW p, p = BufferOf(buffer, fresh), NEW es, es = Elements(buffer),
         heap' = Pushed(h, buffer, element, fresh),
         \A b \in DOMAIN heap : b \in DOMAIN h /\ h[b] = heap[b],
         fresh \notin DOMAIN h
  PROVE  HeapPushed(h, p, es, element)
<1>1. PICK new : new = heap'
  OBVIOUS
<1>2. /\ es \in Seq(Int) /\ Len(es) \in Nat /\ DOMAIN es = 1 .. Len(es)
      /\ buffer = NULL => p = fresh /\ es = << >>
      /\ buffer # NULL => p = buffer /\ es = heap[buffer].kids
      /\ DOMAIN new = DOMAIN h \cup {p}
      /\ \A b \in DOMAIN h : b # p => new[b] = h[b]
      /\ new[p].kind = "buffer" /\ new[p].names = << >> /\ Sound(new[p])
      /\ DOMAIN new[p].kids = 1 .. Len(es) + 1
      /\ \A i \in 1 .. Len(es) : new[p].kids[i] = es[i]
      /\ new[p].kids[Len(es) + 1] = element
  <2>1. new = Pushed(h, buffer, element, fresh)
    BY <1>1
  <2>2. IsPush(new, h, buffer, fresh, p, es, element)
    BY <2>1, PushedBlock
  <2> QED  BY <2>2 DEF IsPush
<1>3. /\ p \in DOMAIN h => p = buffer /\ p \in DOMAIN heap
      /\ p \notin DOMAIN h => p = fresh
  BY <1>2
<1>4. ASSUME NEW n \in DOMAIN heap, n # p PROVE n \in DOMAIN new /\ new[n] = heap[n]
  BY <1>2, <1>4
<1>5. ASSUME NEW n \in DOMAIN h \ DOMAIN heap, n # p PROVE n \in DOMAIN new /\ new[n] = h[n]
  BY <1>2, <1>5
<1>6. ASSUME NEW k, NEW i, NEW b
      PROVE  InNode(k, p, i, b)' <=> InNode(k, p, i, b) \/ (k = "kid" /\ i = Len(es) + 1 /\ b = element)
  <2>1. InNode(k, p, i, b)' <=> k = "kid" /\ i \in 1 .. Len(es) + 1 /\ b = new[p].kids[i]
    BY <1>1, <1>2 DEF InNode
  <2>2. i \in 1 .. Len(es) + 1 <=> i \in 1 .. Len(es) \/ i = Len(es) + 1
    BY <1>2
  <2>3. InNode(k, p, i, b) <=> k = "kid" /\ i \in 1 .. Len(es) /\ b = es[i]
    <3>1. CASE buffer = NULL
      <4>1. p \notin DOMAIN heap /\ 1 .. Len(es) = {}
        BY <1>2, <3>1
      <4> QED  BY <4>1 DEF InNode
    <3>2. CASE buffer # NULL
      <4>1. p \in DOMAIN heap /\ heap[p].names = << >> /\ heap[p].kids = es
        BY <1>2, <3>2 DEF HeapInv, Sound
      <4> QED  BY <1>2, <4>1 DEF InNode
    <3> QED  BY <3>1, <3>2
  <2> QED  BY <1>2, <2>1, <2>2, <2>3
<1>7. ASSUME NEW k, NEW n, NEW i, NEW b, n # p
      PROVE  InNode(k, n, i, b)' <=>
              \/ InNode(k, n, i, b)
              \/ /\ n \in DOMAIN h \ DOMAIN heap
                 /\ \/ k = "name" /\ i \in DOMAIN h[n].names /\ b = h[n].names[i]
                    \/ k = "kid" /\ i \in DOMAIN h[n].kids /\ b = h[n].kids[i]
  BY <1>1, <1>2, <1>4, <1>5, <1>7 DEF InNode
<1>8. p \notin DOMAIN h \ DOMAIN heap
  BY <1>3
<1> QED  BY <1>1, <1>2, <1>6, <1>7, <1>8 DEF HeapPushed


(* The value on top.                                                        *)
LEMMA OnTop ==
  ASSUME OwnInv, Len(stack) >= 1
  PROVE  Top(1)[1] = stack[Len(stack)]
<1>1. PICK s : s = stack
  OBVIOUS
<1>2. s \in Seq(Int) /\ 1 \in Nat /\ 1 <= Len(s) /\ Len(s) \in Nat
  BY <1>1 DEF OwnInv, PhaseInv
<1>3. PICK t : t = SubSeq(s, Len(s) - 1 + 1, Len(s))
  OBVIOUS
<1>4. \A i \in 1 .. 1 : t[i] = s[Len(s) - 1 + i]
  BY <1>2, <1>3, Popped
<1>5. t[1] = s[Len(s)]
  <2>1. Len(s) - 1 + 1 = Len(s) /\ 1 \in 1 .. 1
    BY <1>2
  <2>2. t[1] = s[Len(s) - 1 + 1]
    BY <1>4, <2>1
  <2> QED  BY <2>1, <2>2
<1> QED  BY <1>1, <1>3, <1>5 DEF Top

\* A rule for lists takes its element, and the vector if it has one, for v.
ListTaken(base, take, buffer, element, v) ==
  /\ base \in Nat /\ stack' \in Seq(Int)
  /\ buffer \in Int /\ element \in Int
  /\ Refers("stack", 0, base + take, element)
  /\ take = 2 => Refers("stack", 0, base + 1, buffer)
  /\ \A i, b : OnStack(i, b) /\ i \notin 1 .. base =>
       \/ i = base + take /\ b = element
       \/ take = 2 /\ i = base + 1 /\ b = buffer
  /\ \A i, b : OnStack(i, b)' <=> (OnStack(i, b) /\ i \in 1 .. base) \/ (i = base + 1 /\ b = v)

(* What a rule for lists takes.                                             *)
LEMMA ListValues ==
  ASSUME OwnInv, phase = "parse", NEW take \in {1, 2}, Len(stack) >= take,
         NEW base, base = Len(stack) - take, NEW v \in Int, stack' = Append(Below(take), v),
         NEW buffer, buffer = IF take = 1 THEN NULL ELSE Top(2)[1],
         NEW element, element = Top(1)[1]
  PROVE  ListTaken(base, take, buffer, element, v)
<1>1. take \in Nat /\ take <= Len(stack) /\ Len(stack) >= 1 /\ Len(stack) \in Nat
  BY Parsing
<1>2. Replaced(base, take, v)
  BY <1>1, Replaces
<1>3. base \in Nat /\ base + take = Len(stack) /\ DOMAIN stack = 1 .. base + take
  BY <1>1, <1>2 DEF Replaced
<1>4. element = stack[base + take] /\ base + take \in DOMAIN stack
  BY <1>1, <1>3, OnTop
<1>5. take = 2 => buffer = stack[base + 1] /\ base + 1 \in DOMAIN stack
  <2>1. \A i \in 1 .. take : Top(take)[i] = stack[base + i]
    BY <1>2 DEF Replaced
  <2>2. take = 2 => 1 \in 1 .. take /\ base + 1 \in 1 .. base + take
    BY <1>3
  <2> QED  BY <1>3, <2>1, <2>2
<1>6. \A i \in DOMAIN stack : stack[i] \in Int
  BY Parsing
<1>7. \A i \in 1 .. base + take : i \notin 1 .. base => i = base + take \/ (take = 2 /\ i = base + 1)
  BY <1>3
<1>8. \A i, b : OnStack(i, b) /\ i \notin 1 .. base =>
              \/ i = base + take /\ b = element
              \/ take = 2 /\ i = base + 1 /\ b = buffer
  BY <1>3, <1>4, <1>5, <1>7 DEF OnStack
<1>9. buffer \in Int /\ element \in Int
  BY <1>4, <1>5, <1>6 DEF NULL
<1>10. /\ Refers("stack", 0, base + take, element)
       /\ take = 2 => Refers("stack", 0, base + 1, buffer)
  BY <1>4, <1>5 DEF Refers, OnStack
<1> QED  BY <1>2, <1>3, <1>8, <1>9, <1>10 DEF Replaced, ListTaken

(* The element is pushed: it becomes a child of the vector's buffer.        *)
LEMMA ListPushed ==
  ASSUME OwnInv, phase = "parse", NEW take \in {1, 2}, Len(stack) >= take,
         NEW buffer, buffer = IF take = 1 THEN NULL ELSE Top(2)[1],
         NEW element, element = Top(1)[1],
         IsVector(buffer), IsNode(element),
         heap' = Pushed(heap, buffer, element, next), next' = next + 1,
         stack' = Append(Below(take), BufferOf(buffer, next)),
         UNCHANGED <<ast, scope, calls, phase, shared, leaked, faults>>
  PROVE  OwnInv'
<1>1. PICK id, base, h : id = next /\ base = Len(stack) - take /\ h = heap
  OBVIOUS
<1>2. PICK p, es : p = BufferOf(buffer, id) /\ es = Elements(buffer)
  OBVIOUS
<1>3. /\ next \in Nat /\ next > 0 /\ DOMAIN heap \subseteq 1 .. next - 1 /\ next \notin DOMAIN heap
      /\ shared = {} /\ "definition" \notin faults /\ Excused = {}
  BY Parsing
<1>4. /\ buffer = NULL \/ (buffer \in DOMAIN heap /\ heap[buffer].kind = "buffer")
      /\ element \in DOMAIN heap /\ heap[element].kind \notin {"string", "buffer"}
  BY DEF IsVector, IsNode
<1>5. p \in Int /\ (p = id \/ (p = buffer /\ p \in DOMAIN heap)) /\ (buffer = NULL => p = id)
      /\ (buffer # NULL => p = buffer)
  BY <1>1, <1>2, <1>3, <1>4 DEF BufferOf
<1>6. stack' = Append(Below(take), p)
  BY <1>1, <1>2
<1>7. ListTaken(base, take, buffer, element, p)
  BY <1>1, <1>5, <1>6, ListValues
<1>8. HeapPushed(h, p, es, element)
  <2>1. heap' = Pushed(h, buffer, element, id) /\ id \notin DOMAIN h
        /\ \A b \in DOMAIN heap : b \in DOMAIN h /\ h[b] = heap[b]
    BY <1>1, <1>3
  <2>2. HeapInv /\ element \in Int
    BY <1>7 DEF OwnInv, ListTaken
  <2> QED  BY <1>2, <1>4, <2>1, <2>2, PushedNodes
<1>a. /\ base \in Nat /\ stack' \in Seq(Int)
      /\ buffer \in Int /\ element \in Int
      /\ Refers("stack", 0, base + take, element)
      /\ take = 2 => Refers("stack", 0, base + 1, buffer)
      /\ \A i, b : OnStack(i, b) /\ i \notin 1 .. base =>
           \/ i = base + take /\ b = element
           \/ take = 2 /\ i = base + 1 /\ b = buffer
      /\ \A i, b : OnStack(i, b)' <=> (OnStack(i, b) /\ i \in 1 .. base) \/ (i = base + 1 /\ b = p)
  BY <1>7 DEF ListTaken
<1>b. /\ Len(es) \in Nat
      /\ DOMAIN heap' = DOMAIN h \cup {p}
      /\ heap'[p].kind = "buffer" /\ Sound(heap'[p])
      /\ \A b \in DOMAIN h : b # p => heap'[b] = h[b]
  BY <1>8 DEF HeapPushed
<1>9. /\ \A b \in DOMAIN heap' : b = p \/ (b \in DOMAIN heap /\ heap'[b] = heap[b])
      /\ \A b \in DOMAIN heap : b \in DOMAIN heap' /\ heap'[b].kind = heap[b].kind
      /\ element # p /\ heap'[element] = heap[element]
      /\ next' \in Nat /\ next <= next' /\ next' = id + 1
  BY <1>1, <1>3, <1>4, <1>5, <1>b, SMTT(30)
<1>10. HeapInv'
  <2>1. ASSUME NEW b \in DOMAIN heap'
        PROVE  /\ Sound(heap'[b])
               /\ \/ b \in next .. next' - 1 /\ b \notin shared'
                  \/ b \in DOMAIN heap /\ heap'[b].kind = heap[b].kind
    <3>1. CASE b \in DOMAIN heap
      BY <1>b, <1>9, <3>1 DEF OwnInv, HeapInv
    <3>2. CASE b \notin DOMAIN heap
      <4>1. b = id /\ b = p
        BY <1>1, <1>5, <1>9, <3>2
      <4>2. id \in next .. next' - 1
        BY <1>1, <1>3, <1>9
      <4> QED  BY <1>3, <1>b, <4>1, <4>2
    <3> QED  BY <3>1, <3>2
  <2>2. DOMAIN leaked' \subseteq 1 .. next' - 1
    BY <1>3, <1>9, StillBlocks DEF OwnInv, HeapInv
  <2> QED  BY <1>3, <1>9, <2>1, <2>2, HeapGrown DEF OwnInv
<1>11. PhaseInv'
  BY <1>a DEF OwnInv, PhaseInv
<1>12. \A k, n, i, b : Refers(k, n, i, b)' <=>
         \/ Refers(k, n, i, b) /\ ~(k = "stack" /\ i \notin 1 .. base)
         \/ k = "stack" /\ n = 0 /\ i = base + 1 /\ b = p
         \/ k = "kid" /\ n = p /\ i = Len(es) + 1 /\ b = element
  <2>1. \A k, n, i, b : InNode(k, n, i, b)' <=>
           InNode(k, n, i, b) \/ (n = p /\ k = "kid" /\ i = Len(es) + 1 /\ b = element)
    BY <1>1, <1>8 DEF HeapPushed
  <2> QED  BY <1>a, <2>1, ScopeStays, CallsStay, AstStays DEF Refers
<1>13. ASSUME NEW k, NEW n, NEW i, NEW b, Refers(k, n, i, b), b \in DOMAIN heap, b = p
       PROVE  k = "stack" /\ n = 0 /\ i = base + 1
  <2>1. b = buffer /\ take = 2
    BY <1>1, <1>3, <1>5, <1>13
  <2>2. Refers("stack", 0, base + 1, b)
    BY <1>a, <2>1
  <2> QED  BY <1>13, <2>2, Parsing
<1>14. ASSUME NEW k, NEW n, NEW i, NEW b, Refers(k, n, i, b)
       PROVE  Held(k, i, b)'
  <2>1. Held(k, i, b) /\ (b \in DOMAIN heap => b \in DOMAIN heap')
    BY <1>9, <1>14, Parsing
  <2>2. ASSUME b \in DOMAIN heap', b \in 1 .. next - 1
        PROVE  /\ b \in DOMAIN heap /\ heap'[b].kind = heap[b].kind
               /\ (k = "free" \/ (k = "ast" /\ i = 3)) /\ IsLeaf(heap[b]) => IsLeaf(heap'[b])
    <3>1. b \in DOMAIN heap
      BY <1>1, <1>3, <1>5, <1>9, <2>2
    <3>2. k = "stack" \/ b # p
      BY <1>13, <1>14, <3>1
    <3> QED  BY <1>9, <2>2, <3>1, <3>2
  <2> QED  BY <1>3, <1>9, <2>1, <2>2, HeldStays
<1>15. Held("stack", base + 1, p)' /\ Held("kid", Len(es) + 1, element)'
  <2>1. p \in 1 .. next' - 1 /\ element \in 1 .. next' - 1
    BY <1>3, <1>4, <1>5, <1>9, <1>1
  <2>2. heap[element].kind \notin {"Ast", "Symbol"}
    <3>1. Held("stack", base + take, element)
      BY <1>a, Parsing
    <3> QED  BY <1>3, <1>4, <3>1 DEF Held, NoBlock, KindFits, NULL, WILD
  <2>3. PICK c, d : c = base + 1 /\ d = Len(es) + 1
    OBVIOUS
  <2>4. Held("stack", c, p)' /\ Held("kid", d, element)'
    BY <1>3, <1>4, <1>b, <1>9, <2>1, <2>2 DEF Held, KindFits
  <2> QED  BY <2>3, <2>4
<1>16. Transfers
  <2>1. DOMAIN heap' \subseteq DOMAIN heap \cup (next .. next' - 1)
    BY <1>1, <1>3, <1>5, <1>9
  <2>2. \A k, n, i, b : Refers(k, n, i, b)' => Held(k, i, b)'
    BY <1>12, <1>14, <1>15
  <2>3. ASSUME NEW k, NEW n, NEW i, NEW b, Comes(k, n, i, b)
        PROVE  \/ k = "stack" /\ n = 0 /\ i = base + 1 /\ b = p
               \/ k = "kid" /\ n = p /\ i = Len(es) + 1 /\ b = element
    BY <1>12, <2>3 DEF Comes
  <2>4. Goes("stack", 0, base + take, element)
    <3>1. base + take \notin 1 .. base
      BY <1>a
    <3>2. ~Refers("stack", 0, base + take, element)'
      BY <1>9, <1>12, <3>1
    <3> QED  BY <1>a, <3>2 DEF Goes
  <2>5. ASSUME NEW k, NEW n, NEW i, NEW b, Comes(k, n, i, b), b \in DOMAIN heap
        PROVE  \E l, m, j : Goes(l, m, j, b)
    <3>1. CASE k = "stack" /\ n = 0 /\ i = base + 1 /\ b = p
      <4>1. b = buffer /\ take = 2
        BY <1>1, <1>3, <1>5, <2>5, <3>1
      <4>2. Refers(k, n, i, b)
        BY <1>a, <3>1, <4>1
      <4> QED  BY <2>5, <4>2 DEF Comes
    <3>2. CASE b = element
      BY <2>4, <3>2
    <3> QED  BY <2>3, <2>5, <3>1, <3>2
  <2>6. ASSUME NEW k, NEW n, NEW i, NEW b, Goes(k, n, i, b), b \in DOMAIN heap'
        PROVE  \E l, m, j : Refers(l, m, j, b)'
    <3>1. OnStack(i, b) /\ i \notin 1 .. base
      BY <1>12, <2>6 DEF Goes, Refers
    <3>2. CASE b = element
      BY <1>12, <3>2
    <3>3. CASE take = 2 /\ b = buffer
      <4>1. b # NULL
        BY <1>10, <2>6 DEF HeapInv, NULL
      <4>2. b = p
        BY <1>5, <3>3, <4>1
      <4> QED  BY <1>12, <4>2
    <3> QED  BY <1>a, <3>1, <3>2, <3>3
  <2>7. \A b \in DOMAIN heap' \ DOMAIN heap : \E l, m, j : Refers(l, m, j, b)'
    BY <1>9, <1>12
  <2>8. ASSUME NEW k, NEW n, NEW i, NEW l, NEW m, NEW j, NEW b,
               Comes(k, n, i, b), Comes(l, m, j, b)
        PROVE  k = l /\ n = m /\ i = j
    BY <1>9, <2>3, <2>8
  <2> QED  BY <1>3, <2>1, <2>2, <2>5, <2>6, <2>7, <2>8 DEF Transfers
<1> QED  BY <1>10, <1>11, <1>16, Transferred

(* The element is lost when the vector does not grow.                       *)
LEMMA ElementLost ==
  ASSUME OwnInv, phase = "parse", NEW take \in {1, 2}, Len(stack) >= take,
         NEW buffer, buffer = IF take = 1 THEN NULL ELSE Top(2)[1],
         NEW element, element = Top(1)[1], IsNode(element),
         stack' = Append(Below(take), buffer),
         leaked' = Overlay([b \in {element} \ {NULL, WILD} |-> "element"], leaked),
         UNCHANGED <<heap, next, ast, scope, calls, phase, shared>>,
         "definition" \in faults' => "definition" \in faults
  PROVE  OwnInv'
<1>1. PICK base : base = Len(stack) - take
  OBVIOUS
<1>2. buffer \in Int
  <2>1. stack \in Seq(Int) /\ Len(stack) \in Nat
    BY Parsing
  <2>2. PICK s, n : s = stack /\ n = 2
    OBVIOUS
  <2>3. CASE take = 2
    <3>1. /\ SubSeq(s, Len(s) - n + 1, Len(s)) \in Seq(Int)
          /\ Len(SubSeq(s, Len(s) - n + 1, Len(s))) = n
      BY <2>1, <2>2, <2>3, Popped
    <3>2. Top(2) \in Seq(Int) /\ Len(Top(2)) = 2
      BY <2>2, <3>1 DEF Top
    <3> QED  BY <2>3, <3>2
  <2> QED  BY <2>3 DEF NULL
<1>3. ListTaken(base, take, buffer, element, buffer)
  BY <1>1, <1>2, ListValues
<1>4. element \in DOMAIN heap /\ DOMAIN leaked' = DOMAIN leaked \cup {element}
  <2>1. element \in DOMAIN heap /\ element \notin {NULL, WILD}
    BY Parsing DEF IsNode, NULL, WILD
  <2> QED  BY <2>1 DEF Overlay
<1>5. ASSUME NEW i, NEW b, OnStack(i, b)' PROVE OnStack(i, b) \/ b \in {NULL, WILD}
  <2>1. CASE take = 2 /\ i = base + 1 /\ b = buffer
    BY <1>3, <2>1 DEF ListTaken, Refers
  <2> QED  BY <1>3, <1>5, <2>1 DEF ListTaken
<1>6. ASSUME NEW i, NEW b, OnStack(i, b), ~OnStack(i, b)' PROVE b \notin DOMAIN heap \ DOMAIN leaked'
  BY <1>3, <1>4, <1>6 DEF ListTaken
<1>7. stack' \in Seq(Int)
  BY <1>3 DEF ListTaken
<1> QED  BY <1>4, <1>5, <1>6, <1>7, Parsing, StackChanges

(* So a list is made.                                                       *)
LEMMA ReducesList == ASSUME OwnInv, ReduceList PROVE OwnInv'
<1>1. PICK take, buffer, element :
        /\ take \in {1, 2} /\ Len(stack) >= take
        /\ buffer = IF take = 1 THEN NULL ELSE Top(2)[1]
        /\ element = Top(1)[1]
        /\ IsVector(buffer) /\ IsNode(element)
        /\ \/ /\ heap' = Pushed(heap, buffer, element, next) /\ next' = next + 1
              /\ stack' = Append(Below(take), BufferOf(buffer, next))
              /\ UNCHANGED <<leaked, faults>>
           \/ /\ stack' = Append(Below(take), buffer)
              /\ Drop({element}, "element") /\ Fails("element")
              /\ UNCHANGED memory
  BY DEF ReduceList
<1>2. phase = "parse" /\ UNCHANGED <<ast, scope, calls, phase, shared>>
  BY DEF ReduceList, Parses, analysis
<1>3. CASE heap' = Pushed(heap, buffer, element, next) /\ next' = next + 1
           /\ stack' = Append(Below(take), BufferOf(buffer, next)) /\ UNCHANGED <<leaked, faults>>
  BY <1>1, <1>2, <1>3, ListPushed
<1>4. CASE stack' = Append(Below(take), buffer) /\ Drop({element}, "element") /\ Fails("element")
           /\ UNCHANGED memory
  <2>1. /\ leaked' = Overlay([b \in {element} \ {NULL, WILD} |-> "element"], leaked)
        /\ UNCHANGED <<heap, next>> /\ faults' = faults \cup {"element"}
    BY <1>4 DEF Drop, Fails, memory
  <2> QED  BY <1>1, <1>2, <1>4, <2>1, ElementLost
<1> QED  BY <1>1, <1>3, <1>4

(* The values are lost when the parse ends with an error.                   *)
LEMMA ErrorLoses == ASSUME OwnInv, SyntaxError PROVE OwnInv'
<1>1. /\ phase = "parse" /\ phase' = "ready" /\ stack' = << >>
      /\ leaked' = Overlay([b \in Range(stack) \ {NULL, WILD} |-> "syntax"], leaked)
      /\ UNCHANGED <<heap, next, ast, scope, calls, shared, faults>>
  BY DEF SyntaxError, Drop, analysis, memory
<1>2. DOMAIN leaked' = (Range(stack) \ {NULL, WILD}) \cup DOMAIN leaked
  BY <1>1 DEF Overlay
<1>3. NULL \notin DOMAIN heap /\ WILD \notin DOMAIN heap /\ "definition" \notin faults
  BY <1>1, Parsing DEF NULL, WILD
<1>4. Range(stack) \ {NULL, WILD} \subseteq DOMAIN heap
  <2> SUFFICES ASSUME NEW b \in Range(stack) \ {NULL, WILD} PROVE b \in DOMAIN heap
    OBVIOUS
  <2>1. PICK i \in DOMAIN stack : b = stack[i]
    BY DEF Range
  <2>2. Refers("stack", 0, i, b)
    BY <2>1 DEF Refers, OnStack
  <2>3. b \in DOMAIN heap \/ NoBlock("stack", i, b)
    BY <1>1, <2>2, Parsing
  <2> QED  BY <2>3 DEF NoBlock
<1>5. \A i, b : OnStack(i, b) => b \notin DOMAIN heap \ DOMAIN leaked'
  BY <1>2, <1>3 DEF OnStack, Range
<1>6. \A i, b : ~OnStack(i, b)'
  BY <1>1 DEF OnStack
<1>7. stack' \in Seq(Int)
  BY <1>1
<1> QED  BY <1>1, <1>2, <1>3, <1>4, <1>5, <1>6, <1>7, StackChanges

(* The body of a function becomes its second child.                         *)
LEMMA ReducesBody == ASSUME OwnInv, ReduceBody PROVE OwnInv'
<1>1. PICK f, body : f = Top(2)[1] /\ body = Top(1)[1]
  OBVIOUS
<1>2. /\ phase = "parse" /\ Len(stack) >= 2 /\ IsNode(f) /\ IsNode(body)
      /\ heap[f].kids = <<heap[f].kids[1], NULL>>
      /\ heap' = [heap EXCEPT ![f].kids[2] = body]
      /\ stack' = Below(1)
      /\ UNCHANGED <<next, ast, scope, calls, phase, shared, leaked, faults>>
  BY <1>1 DEF ReduceBody, Parses, analysis
<1>3. PICK top, s : top = Len(stack) /\ s = stack
  OBVIOUS
<1>4. /\ s \in Seq(Int) /\ top \in Nat /\ top >= 2 /\ top = Len(s) /\ DOMAIN s = 1 .. top
      /\ next \in Nat /\ next > 0 /\ DOMAIN heap \subseteq 1 .. next - 1
      /\ shared = {} /\ "definition" \notin faults /\ Excused = {}
  BY <1>2, <1>3, Parsing
<1>5. f = s[top - 1] /\ body = s[top]
  <2>1. body = s[top]
    BY <1>1, <1>2, <1>3, <1>4, OnTop
  <2>2. PICK n : n = 2
    OBVIOUS
  <2>3. PICK t : t = SubSeq(s, Len(s) - n + 1, Len(s))
    OBVIOUS
  <2>4. \A i \in 1 .. n : t[i] = s[Len(s) - n + i]
    BY <1>4, <2>2, <2>3, Popped
  <2>5. 1 \in 1 .. n /\ Len(s) - n + 1 = top - 1
    BY <1>4, <2>2
  <2>6. t[1] = s[top - 1]
    BY <2>4, <2>5
  <2>7. t = Top(2)
    BY <1>3, <2>2, <2>3 DEF Top
  <2> QED  BY <1>1, <2>1, <2>6, <2>7
<1>6. stack' \in Seq(Int) /\ \A i, b : OnStack(i, b)' <=> OnStack(i, b) /\ i # top
  <2>1. PICK n, t : n = 1 /\ t = SubSeq(s, 1, Len(s) - n)
    OBVIOUS
  <2>2. t \in Seq(Int) /\ Len(t) = Len(s) - n /\ \A i \in 1 .. Len(s) - n : t[i] = s[i]
    BY <1>4, <2>1, Popped
  <2>3. stack' = t
    BY <1>2, <1>3, <2>1 DEF Below
  <2>4. Len(s) - n = top - 1 /\ \A i : i \in 1 .. top /\ i # top <=> i \in 1 .. top - 1
    BY <1>4, <2>1
  <2>5. DOMAIN t = 1 .. top - 1 /\ \A i \in 1 .. top - 1 : t[i] = s[i]
    BY <2>2, <2>4
  <2> QED  BY <1>3, <1>4, <2>2, <2>3, <2>4, <2>5 DEF OnStack
<1>7. Refers("stack", 0, top - 1, f) /\ Refers("stack", 0, top, body)
  BY <1>3, <1>4, <1>5 DEF Refers, OnStack
<1>8. /\ f \in DOMAIN heap /\ heap[f].kind \notin {"string", "buffer", "Ast", "Symbol", "StrLiteral"}
      /\ Sound(heap[f])
      /\ body \in DOMAIN heap /\ heap[body].kind \notin {"Ast", "Symbol"}
  <2>1. f \in DOMAIN heap /\ body \in DOMAIN heap /\ heap[f].kind \notin {"string", "buffer"}
    BY <1>2 DEF IsNode
  <2>2. Sound(heap[f]) /\ heap[f].kids # << >>
    BY <1>2, <2>1 DEF OwnInv, HeapInv
  <2>3. Held("stack", top, body)
    BY <1>2, <1>7, Parsing
  <2>4. heap[body].kind \notin {"Ast", "Symbol"}
    BY <1>4, <2>1, <2>3 DEF Held, NoBlock, KindFits, NULL, WILD
  <2> QED  BY <2>1, <2>2, <2>4 DEF Sound, IsLeaf
<1>9. PICK first, block : /\ first = heap[f].kids[1]
                          /\ block = [kind |-> heap[f].kind, names |-> heap[f].names, kids |-> <<first, body>>]
  OBVIOUS
<1>10. /\ DOMAIN heap' = DOMAIN heap /\ heap'[f] = block
       /\ \A b \in DOMAIN heap : b # f => heap'[b] = heap[b]
  <2>1. heap[f] = [kind |-> heap[f].kind, names |-> heap[f].names, kids |-> <<first, NULL>>]
    BY <1>2, <1>8, <1>9 DEF Sound, Blocks
  <2>2. heap' = [heap EXCEPT ![f] = [heap[f] EXCEPT !.kids = [heap[f].kids EXCEPT ![2] = body]]]
    BY <1>2
  <2>3. [heap[f].kids EXCEPT ![2] = body] = <<first, body>>
    <3>1. \A x, y, z : [<<x, y>> EXCEPT ![2] = z] = <<x, z>>
      OBVIOUS
    <3> QED  BY <1>2, <1>9, <3>1
  <2>4. [heap[f] EXCEPT !.kids = <<first, body>>] = block
    BY <1>9, <2>1
  <2>5. heap' = [heap EXCEPT ![f] = block]
    BY <2>2, <2>3, <2>4
  <2> QED  BY <1>8, <2>5
<1>11. /\ Sound(block) /\ block.kind = heap[f].kind /\ block.names = heap[f].names
       /\ DOMAIN block.kids = {1, 2} /\ block.kids[1] = first /\ block.kids[2] = body
       /\ DOMAIN heap[f].kids = {1, 2} /\ heap[f].kids[1] = first /\ heap[f].kids[2] = NULL
  <2>1. heap[f].kids = <<first, NULL>> /\ block.kids = <<first, body>>
    BY <1>2, <1>9
  <2>2. first \in Int /\ body \in Int
    <3>1. heap[f].kids \in Seq(Int) /\ 1 \in DOMAIN heap[f].kids
      <4>1. heap[f].kids \in Seq(Int)
        BY <1>8 DEF Sound, Blocks
      <4>2. \A x, y : 1 \in DOMAIN <<x, y>>
        OBVIOUS
      <4> QED  BY <2>1, <4>1, <4>2
    <3>2. \A q \in Seq(Int) : \A i \in DOMAIN q : q[i] \in Int
      OBVIOUS
    <3>3. first \in Int
      BY <1>9, <3>1, <3>2
    <3> QED  BY <1>4, <1>8, <3>3
  <2>3. <<first, body>> \in Seq(Int)
    BY <2>2
  <2>4. block \in Blocks
    BY <1>8, <1>9, <2>3 DEF Sound, Blocks
  <2>5. Sound(block)
    BY <1>8, <1>9, <2>4 DEF Sound
  <2> QED  BY <1>9, <2>1, <2>5
<1>12. HeapInv'
  <2>1. ASSUME NEW b \in DOMAIN heap' PROVE Sound(heap'[b]) /\ b \in DOMAIN heap /\ heap'[b].kind = heap[b].kind
    BY <1>10, <1>11 DEF OwnInv, HeapInv
  <2> QED  BY <1>2, <1>4, <2>1, HeapGrown DEF OwnInv, HeapInv
<1>13. PhaseInv'
  BY <1>2, <1>6 DEF OwnInv, PhaseInv
<1>14. \A k, n, i, b : InNode(k, n, i, b)' <=>
         \/ InNode(k, n, i, b) /\ ~(k = "kid" /\ n = f /\ i = 2)
         \/ k = "kid" /\ n = f /\ i = 2 /\ b = body
  <2>1. ASSUME NEW k, NEW n, NEW i, NEW b, n # f PROVE InNode(k, n, i, b)' <=> InNode(k, n, i, b)
    BY <1>10, <2>1 DEF InNode
  <2>2. ASSUME NEW k, NEW i, NEW b
        PROVE  InNode(k, f, i, b)' <=>
                 (InNode(k, f, i, b) /\ ~(k = "kid" /\ i = 2)) \/ (k = "kid" /\ i = 2 /\ b = body)
    BY <1>8, <1>10, <1>11 DEF InNode
  <2> QED  BY <2>1, <2>2
<1>15. \A k, n, i, b : Refers(k, n, i, b)' <=>
         \/ Refers(k, n, i, b) /\ ~(k = "kid" /\ n = f /\ i = 2) /\ ~(k = "stack" /\ i = top)
         \/ k = "kid" /\ n = f /\ i = 2 /\ b = body
  BY <1>2, <1>6, <1>14, ScopeStays, CallsStay, AstStays DEF Refers
<1>16. ASSUME NEW k, NEW n, NEW i, NEW b, Refers(k, n, i, b) PROVE Held(k, i, b)'
  <2>1. Held(k, i, b)
    BY <1>2, <1>16, Parsing
  <2>2. ASSUME b \in DOMAIN heap
        PROVE  /\ heap'[b].kind = heap[b].kind
               /\ (k = "free" \/ (k = "ast" /\ i = 3)) /\ IsLeaf(heap[b]) => IsLeaf(heap'[b])
    <3>1. b = f => k = "stack"
      BY <1>2, <1>7, <1>8, <1>16, Parsing
    <3> QED  BY <1>10, <1>11, <2>2, <3>1
  <2>3. /\ b \in DOMAIN heap <=> b \in DOMAIN heap'
        /\ next' \in Nat /\ next \in Nat /\ next <= next' /\ shared \subseteq shared'
        /\ b \notin shared' /\ "definition" \notin faults
    BY <1>2, <1>4, <1>10
  <2> QED  BY <2>1, <2>2, <2>3, HeldStays
<1>17. Held("kid", 2, body)'
  <2>1. body \in 1 .. next' - 1 /\ body \in DOMAIN heap' /\ heap'[body].kind = heap[body].kind
    BY <1>2, <1>4, <1>8, <1>10, <1>11
  <2> QED  BY <1>2, <1>4, <1>8, <2>1 DEF Held, KindFits
<1>18. Transfers
  <2>1. ASSUME NEW k, NEW n, NEW i, NEW b, Comes(k, n, i, b)
        PROVE  k = "kid" /\ n = f /\ i = 2 /\ b = body
    BY <1>15, <2>1 DEF Comes
  <2>2. Goes("stack", 0, top, body)
    BY <1>7, <1>15 DEF Goes
  <2>3. ASSUME NEW k, NEW n, NEW i, NEW b, Goes(k, n, i, b), b \in DOMAIN heap'
        PROVE  \E l, m, j : Refers(l, m, j, b)'
    <3>1. CASE k = "kid" /\ n = f /\ i = 2
      <4>1. b = NULL
        BY <1>11, <2>3, <3>1 DEF Goes, Refers, InNode
      <4> QED  BY <1>4, <1>10, <2>3, <4>1 DEF NULL
    <3>2. CASE k = "stack" /\ i = top
      <4>1. b = body
        BY <1>3, <1>5, <2>3, <3>2 DEF Goes, Refers, OnStack
      <4> QED  BY <1>15, <4>1
    <3> QED  BY <1>15, <2>3, <3>1, <3>2 DEF Goes
  <2>4. \A k, n, i, b : Refers(k, n, i, b)' => Held(k, i, b)'
    BY <1>15, <1>16, <1>17
  <2> QED  BY <1>2, <1>4, <1>10, <2>1, <2>2, <2>3, <2>4 DEF Transfers
<1> QED  BY <1>12, <1>13, <1>18, Transferred

(* The definitions of the module go from the stack to the AST.              *)
LEMMA ReducesModule == ASSUME OwnInv, ReduceModule PROVE OwnInv'
<1>1. PICK v : v = stack[1]
  OBVIOUS
<1>2. /\ phase = "parse" /\ phase' = "ready" /\ Len(stack) = 1 /\ IsVector(v)
      /\ ast' = [ast EXCEPT !.defs = v] /\ stack' = << >>
      /\ UNCHANGED <<heap, next, scope, calls, shared, leaked, faults>>
  BY <1>1 DEF ReduceModule, memory, analysis, history
<1>3. /\ stack \in Seq(Int) /\ DOMAIN stack = 1 .. 1
      /\ next \in Nat /\ next > 0 /\ DOMAIN heap \subseteq 1 .. next - 1
      /\ shared = {} /\ "definition" \notin faults /\ Excused = {}
  BY <1>2, Parsing
<1>4. /\ ast.defs = NULL /\ ast'.name = ast.name /\ ast'.defs = v /\ ast'.types = ast.types
      /\ ast' = [name |-> ast'.name, defs |-> ast'.defs, types |-> ast'.types]
  <2>1. ast = [name |-> ast.name, defs |-> ast.defs, types |-> ast.types] /\ ast.defs = NULL
    BY <1>2 DEF OwnInv, PhaseInv
  <2>2. PICK x, y, z : ast = [name |-> x, defs |-> y, types |-> z]
    BY <2>1
  <2>3. ast' = [name |-> x, defs |-> v, types |-> z]
    BY <1>2, <2>2
  <2> QED  BY <2>1, <2>2, <2>3
<1>5. HeapInv'
  BY <1>2 DEF OwnInv, HeapInv
<1>6. PhaseInv'
  <2>1. << >> \in Seq(Int)
    OBVIOUS
  <2> QED  BY <1>2, <1>4, <2>1 DEF OwnInv, PhaseInv
<1>7. /\ \A i, b : ~OnStack(i, b)'
      /\ \A i, b : OnStack(i, b) <=> i = 1 /\ b = v
      /\ \A i, b : InAst(i, b)' <=> (InAst(i, b) /\ i # 2) \/ (i = 2 /\ b = v)
      /\ \A b : InAst(2, b) => b = NULL
  <2>1. \A i : i \in 1 .. 1 <=> i = 1
    OBVIOUS
  <2> QED  BY <1>1, <1>2, <1>3, <1>4, <2>1 DEF OnStack, InAst
<1>8. \A k, n, i, b : Refers(k, n, i, b)' <=>
         \/ Refers(k, n, i, b) /\ k # "stack" /\ ~(k = "ast" /\ i = 2)
         \/ k = "ast" /\ n = 0 /\ i = 2 /\ b = v
  BY <1>2, <1>7, ScopeStays, CallsStay, NodesStay DEF Refers
<1>9. ASSUME NEW k, NEW n, NEW i, NEW b, Refers(k, n, i, b) PROVE Held(k, i, b)'
  BY <1>2, <1>3, <1>9, Parsing DEF Held, Dangles
<1>10. Held("ast", 2, v)'
  <2>1. CASE v = NULL
    BY <2>1 DEF Held, NoBlock
  <2>2. CASE v # NULL
    <3>1. v \in DOMAIN heap /\ heap[v].kind = "buffer"
      BY <1>2, <2>2 DEF IsVector
    <3> QED  BY <1>2, <1>3, <3>1 DEF Held, KindFits
  <2> QED  BY <2>1, <2>2
<1>11. NULL \notin DOMAIN heap
  BY <1>3 DEF NULL
<1>12. Transfers
  <2>1. \A k, n, i, b : Comes(k, n, i, b) => k = "ast" /\ n = 0 /\ i = 2 /\ b = v
    BY <1>8 DEF Comes
  <2>2. \A k, n, i, b : Refers(k, n, i, b)' => Held(k, i, b)'
    BY <1>8, <1>9, <1>10
  <2>3. Goes("stack", 0, 1, v)
    BY <1>7, <1>8 DEF Goes, Refers
  <2>4. ASSUME NEW k, NEW n, NEW i, NEW b, Goes(k, n, i, b), b \in DOMAIN heap'
        PROVE  \E l, m, j : Refers(l, m, j, b)'
    <3>1. CASE k = "stack"
      <4>1. b = v
        BY <1>7, <2>4, <3>1 DEF Goes, Refers
      <4> QED  BY <1>8, <4>1
    <3>2. CASE k = "ast" /\ i = 2
      <4>1. b = NULL
        BY <1>7, <2>4, <3>2 DEF Goes, Refers
      <4> QED  BY <1>2, <1>11, <2>4, <4>1
    <3> QED  BY <1>8, <2>4, <3>1, <3>2 DEF Goes
  <2> QED  BY <1>2, <1>3, <2>1, <2>2, <2>3, <2>4 DEF Transfers
<1> QED  BY <1>5, <1>6, <1>12, Transferred

-----------------------------------------------------------------------------
(* Pending calls                                                            *)

(* Steps that leave all these as they are, but for the beginning of an      *)
(* analysis.                                                                *)
LEMMA Unmoved ==
  ASSUME OwnInv, UNCHANGED <<heap, next, stack, ast, scope, calls, shared, leaked>>,
         phase' = phase \/ (phase = "ready" /\ phase' = "analysis"),
         "definition" \in faults' <=> "definition" \in faults
  PROVE  OwnInv'
<1>1. HeapInv' /\ PhaseInv'
  BY DEF OwnInv, HeapInv, PhaseInv
<1>2. \A b : b \in Excused' <=> b \in Excused
  BY DEF Excused
<1>3. \A k, n, i, b : Refers(k, n, i, b)' <=> Refers(k, n, i, b)
  <2>1. \A i, b : InAst(i, b)' <=> InAst(i, b)
    BY DEF InAst
  <2> QED  BY <2>1, StackStays, ScopeStays, CallsStay, NodesStay DEF Refers
<1>4. \A k, i, b : Held(k, i, b) => Held(k, i, b)'
  BY DEF Held, Dangles
<1>5. Transfers
  BY <1>2, <1>3, <1>4 DEF Transfers, Comes, Goes, OwnInv, AllHeld
<1> QED  BY <1>1, <1>5, Transferred

(* What no reference may share is not shared.                               *)
LEMMA Unshared ==
  ASSUME HeapInv, NEW k, NEW i, NEW b, Held(k, i, b), k \notin {"kid", "free", "destroy"}
  PROVE  b \notin shared
BY DEF HeapInv, Held, NoBlock, NULL, WILD, STATIC

\* The first call is replaced by those of new.
CallsFollow(top, new) ==
  /\ calls' \in Seq(CallSet)
  /\ \A k, i, b : InCalls(k, i, b)' <=>
       \/ InCalls(k, i, b) /\ i # top
       \/ \E p \in DOMAIN new : i = top + Len(new) - p /\ new[p].op = k /\ new[p].block = b

(* What is pending then.                                                    *)
LEMMA CallsReplaced ==
  ASSUME calls \in Seq(CallSet), calls # << >>, NEW new \in Seq(CallSet),
         calls' = new \o Tail(calls), NEW top, top = Len(calls)
  PROVE  CallsFollow(top, new)
<1>1. PICK s, r, m, w : s = calls /\ r = Tail(calls) /\ m = Len(new) /\ w = calls'
  OBVIOUS
<1>2. /\ r \in Seq(CallSet) /\ top \in Nat /\ top > 0 /\ DOMAIN s = 1 .. top
      /\ Len(r) = top - 1 /\ \A i \in 1 .. top - 1 : r[i] = s[i + 1]
  <2>1. IsList(s) /\ s # << >>
    BY <1>1, SeqIsList
  <2>2. r \in Seq(CallSet)
    BY <1>1
  <2> QED  BY <1>1, <2>1, <2>2, Rest
<1>3. m \in Nat /\ DOMAIN new = 1 .. m
  BY <1>1
<1>4. /\ w \in Seq(CallSet) /\ Len(w) = m + (top - 1)
      /\ \A q \in 1 .. m + (top - 1) : w[q] = IF q <= m THEN new[q] ELSE r[q - m]
  <2>1. w = new \o r
    BY <1>1
  <2> QED  BY <1>1, <1>2, <2>1, ConcatProperties
<1>5. DOMAIN w = 1 .. m + (top - 1)
  BY <1>2, <1>3, <1>4
<1>6. ASSUME NEW k, NEW i, NEW b
      PROVE  InCalls(k, i, b)' <=>
               \/ InCalls(k, i, b) /\ i # top
               \/ \E p \in DOMAIN new : i = top + Len(new) - p /\ new[p].op = k /\ new[p].block = b
  <2>1. InCalls(k, i, b)' <=> i \in 1 .. m + (top - 1)
                              /\ w[m + top - i].op = k /\ w[m + top - i].block = b
    <3>1. ASSUME i \in 1 .. m + (top - 1) PROVE Len(w) + 1 - i = m + top - i
      BY <1>2, <1>3, <1>4, <3>1
    <3>2. InCalls(k, i, b)' <=> i \in DOMAIN w /\ w[Len(w) + 1 - i].op = k /\ w[Len(w) + 1 - i].block = b
      BY <1>1 DEF InCalls
    <3> QED  BY <1>5, <3>1, <3>2
  <2>2. InCalls(k, i, b) <=> i \in 1 .. top /\ s[top + 1 - i].op = k /\ s[top + 1 - i].block = b
    BY <1>1, <1>2 DEF InCalls
  <2>3. CASE i \in 1 .. top - 1
    <3>1. /\ i \in 1 .. m + (top - 1) /\ i \in 1 .. top /\ i # top
          /\ m + top - i \in 1 .. m + (top - 1) /\ ~(m + top - i <= m)
          /\ (m + top - i) - m = top - i /\ top - i \in 1 .. top - 1 /\ (top - i) + 1 = top + 1 - i
      BY <1>2, <1>3, <2>3
    <3>2. w[m + top - i] = r[top - i] /\ r[top - i] = s[top + 1 - i]
      BY <1>2, <1>4, <3>1
    <3>3. \A p \in 1 .. m : i # top + m - p
      BY <1>2, <1>3, <2>3
    <3> QED  BY <1>1, <1>3, <2>1, <2>2, <3>1, <3>2, <3>3
  <2>4. CASE i \notin 1 .. top - 1
    <3>1. ~(InCalls(k, i, b) /\ i # top)
      BY <1>2, <2>2, <2>4
    <3>2. i \in 1 .. m + (top - 1) <=> \E p \in 1 .. m : i = top + m - p
      <4>1. i \in 1 .. m + (top - 1) => m + top - i \in 1 .. m /\ i = top + m - (m + top - i)
        BY <1>2, <1>3, <2>4
      <4>2. \A p \in 1 .. m : top + m - p \in 1 .. m + (top - 1)
        BY <1>2, <1>3
      <4> QED  BY <4>1, <4>2
    <3>3. \A p \in 1 .. m : i = top + m - p => m + top - i = p /\ w[m + top - i] = new[p]
      <4> SUFFICES ASSUME NEW p \in 1 .. m, i = top + m - p
                   PROVE  m + top - i = p /\ w[m + top - i] = new[p]
        OBVIOUS
      <4>1. m + top - i = p /\ p \in 1 .. m + (top - 1) /\ p <= m
        BY <1>2, <1>3
      <4> QED  BY <1>4, <4>1
    <3> QED  BY <1>1, <1>3, <2>1, <3>1, <3>2, <3>3, SMTT(30)
  <2> QED  BY <2>3, <2>4
<1> QED  BY <1>1, <1>4, <1>6 DEF CallsFollow

(* The first call, from which the places of the others are counted.         *)
LEMMA FirstCall ==
  ASSUME OwnInv, calls # << >>, NEW top, top = Len(calls)
  PROVE  /\ calls \in Seq(CallSet) /\ phase # "parse"
         /\ top \in Nat /\ top > 0
         /\ Head(calls).op \in {"free", "destroy"}
         /\ Refers(Head(calls).op, 0, top, Subject)
<1>1. calls \in Seq(CallSet) /\ phase # "parse"
  BY DEF OwnInv, PhaseInv
<1>2. PICK s : s = calls
  OBVIOUS
<1>3. top \in Nat /\ top > 0 /\ Head(s) = s[1] /\ s[1] \in CallSet /\ DOMAIN s = 1 .. top
  BY <1>1, <1>2
<1>4. top + 1 - top = 1 /\ top \in 1 .. top
  BY <1>3
<1>5. Head(s).op \in {"free", "destroy"}
  BY <1>3 DEF CallSet
<1>6. InCalls(Head(s).op, top, Head(s).block)
  BY <1>2, <1>3, <1>4 DEF InCalls
<1> QED  BY <1>1, <1>2, <1>3, <1>5, <1>6 DEF Refers, Subject

(* The first call is done.                                                  *)
LEMMA CallDone ==
  ASSUME OwnInv, calls # << >>, NEW top, top = Len(calls), calls' = Tail(calls)
  PROVE  /\ calls' \in Seq(CallSet)
         /\ \A k, i, b : InCalls(k, i, b)' <=> InCalls(k, i, b) /\ i # top
<1>1. PICK none : none = << >>
  OBVIOUS
<1>2. none \in Seq(CallSet) /\ DOMAIN none = {}
  BY <1>1
<1>3. calls \in Seq(CallSet) /\ Tail(calls) \in Seq(CallSet)
  BY FirstCall
<1>4. calls' = none \o Tail(calls)
  <2>1. IsList(Tail(calls))
    BY <1>3, SeqIsList
  <2> QED  BY <1>1, <2>1, JoinedToNothing
<1>5. CallsFollow(top, none)
  BY <1>2, <1>3, <1>4, CallsReplaced
<1> QED  BY <1>2, <1>5 DEF CallsFollow

(* A call for what is not there has no effect.                              *)
LEMMA DoesNothing == ASSUME OwnInv, Nothing PROVE OwnInv'
<1>1. /\ calls # << >> /\ Subject = NULL /\ calls' = Tail(calls)
      /\ UNCHANGED <<heap, next, stack, ast, scope, phase, shared, leaked, faults>>
  BY DEF Nothing, Pending, parser, analysis
<1>2. PICK top : top = Len(calls)
  OBVIOUS
<1>3. /\ calls' \in Seq(CallSet)
      /\ \A k, i, b : InCalls(k, i, b)' <=> InCalls(k, i, b) /\ i # top
  BY <1>1, <1>2, CallDone
<1>4. phase # "parse" /\ Refers(Head(calls).op, 0, top, NULL) /\ top \in Nat /\ DOMAIN calls = 1 .. top
      /\ calls \in Seq(CallSet)
  BY <1>1, <1>2, FirstCall
<1>5. HeapInv' /\ PhaseInv'
  BY <1>1, <1>3, <1>4 DEF OwnInv, HeapInv, PhaseInv
<1>6. \A k, n, i, b : Refers(k, n, i, b)' <=>
        Refers(k, n, i, b) /\ ~(k \in {"free", "destroy"} /\ i = top)
  <2>1. \A i, b : InAst(i, b)' <=> InAst(i, b)
    BY <1>1 DEF InAst
  <2> QED  BY <1>1, <1>3, <2>1, StackStays, ScopeStays, NodesStay DEF Refers
<1>7. \A k, i, b : Held(k, i, b) => Held(k, i, b)'
  BY <1>1 DEF Held, Dangles
<1>8. NULL \notin DOMAIN heap
  BY DEF OwnInv, HeapInv, NULL
<1>9. \A k, n, i, b : Goes(k, n, i, b) => b = NULL
  <2> SUFFICES ASSUME NEW k, NEW n, NEW i, NEW b, Goes(k, n, i, b) PROVE b = NULL
    OBVIOUS
  <2>1. InCalls(k, top, b)
    BY <1>6 DEF Goes, Refers
  <2>2. calls[Len(calls) + 1 - top].block = b /\ Len(calls) + 1 - top = 1
    BY <1>2, <1>4, <2>1 DEF InCalls
  <2> QED  BY <1>1, <1>4, <2>2 DEF Subject
<1>10. Transfers
  BY <1>1, <1>6, <1>7, <1>8, <1>9 DEF Transfers, Comes, OwnInv, AllHeld, Excused
<1> QED  BY <1>5, <1>10, Transferred

(* The references but for that of the first call, which is to this block.   *)
LEMMA FirstGoes ==
  ASSUME OwnInv, calls # << >>, NEW top, top = Len(calls), NEW k, NEW n, NEW i, NEW b,
         Refers(k, n, i, b), k \in {"free", "destroy"}, i = top
  PROVE  k = Head(calls).op /\ n = 0 /\ b = Subject
<1>1. InCalls(k, top, b) /\ n = 0
  BY DEF Refers, InCalls
<1>2. calls \in Seq(CallSet) /\ top \in Nat /\ top > 0
  BY FirstCall
<1>3. Len(calls) + 1 - top = 1
  BY <1>2
<1>4. Head(calls) = calls[1]
  BY <1>2
<1> QED  BY <1>1, <1>3, <1>4 DEF InCalls, Subject

(* What else refers to a block that a call frees is excused for it.         *)
LEMMA ExcusedDangles ==
  ASSUME OwnInv, NEW k, NEW n, NEW i, NEW b \in Excused, Refers(k, n, i, b), b \in DOMAIN heap
  PROVE  Dangles(k, b)
<1>1. CASE b \in shared
  BY <1>1 DEF Dangles
<1>2. CASE "definition" \in faults /\ heap[b].kind = "Symbol"
  <2>1. Held(k, i, b) /\ ~NoBlock(k, i, b)
    BY DEF OwnInv, AllHeld, HeapInv, NoBlock, NULL, WILD, STATIC
  <2>2. KindFits(k, i, heap[b])
    BY <2>1 DEF Held
  <2>3. k # "ast"
    <3> SUFFICES ASSUME k = "ast" PROVE FALSE
      OBVIOUS
    <3>1. i \in {1, 2, 3, 4}
      BY DEF Refers, InAst
    <3> QED  BY <1>2, <2>2, <3>1 DEF KindFits
  <2>4. k \in {"scope", "free", "destroy"}
    BY <1>2, <2>2, <2>3 DEF KindFits, Refers
  <2> QED  BY <1>2, <2>4 DEF Dangles
<1> QED  BY <1>1, <1>2 DEF Excused

(* A block is freed: it had no parts, and no other owner.                   *)
LEMMA Freed == ASSUME OwnInv, Free PROVE OwnInv'
<1>1. PICK s, top : s = Subject /\ top = Len(calls)
  OBVIOUS
<1>2. /\ calls # << >> /\ Head(calls).op = "free" /\ s \in DOMAIN heap
      /\ heap' = Without(heap, {s}) /\ calls' = Tail(calls)
      /\ UNCHANGED <<next, stack, ast, scope, phase, shared, leaked, faults>>
  BY <1>1 DEF Free, Pending, parser, analysis
<1>3. /\ calls' \in Seq(CallSet)
      /\ \A k, i, b : InCalls(k, i, b)' <=> InCalls(k, i, b) /\ i # top
  BY <1>1, <1>2, CallDone
<1>4. phase # "parse" /\ Refers("free", 0, top, s)
  BY <1>1, <1>2, FirstCall
<1>5. /\ DOMAIN heap' = DOMAIN heap \ {s} /\ \A b \in DOMAIN heap' : heap'[b] = heap[b]
      /\ next \in Nat
  BY <1>2 DEF Without, OwnInv, HeapInv
<1>6. HeapInv'
  <2>1. \A b \in DOMAIN heap' : Sound(heap'[b]) /\ b \in DOMAIN heap /\ heap'[b].kind = heap[b].kind
    BY <1>5 DEF OwnInv, HeapInv
  <2> QED  BY <1>2, <1>5, <2>1, HeapGrown DEF OwnInv, HeapInv
<1>7. PhaseInv'
  BY <1>2, <1>3, <1>4 DEF OwnInv, PhaseInv
<1>8. IsLeaf(heap[s])
  <2>1. Held("free", top, s) /\ ~NoBlock("free", top, s)
    BY <1>2, <1>4 DEF OwnInv, AllHeld, HeapInv, NoBlock, NULL, WILD, STATIC
  <2> QED  BY <1>2, <2>1 DEF Held, KindFits
<1>9. \A k, n, i, b : InNode(k, n, i, b)' <=> InNode(k, n, i, b)
  BY <1>5, <1>8 DEF InNode, IsLeaf
<1>10. \A k, n, i, b : Refers(k, n, i, b)' <=>
         Refers(k, n, i, b) /\ ~(k \in {"free", "destroy"} /\ i = top)
  <2>1. \A i, b : InAst(i, b)' <=> InAst(i, b)
    BY <1>2 DEF InAst
  <2> QED  BY <1>2, <1>3, <1>9, <2>1, StackStays, ScopeStays DEF Refers
<1>11. ASSUME NEW k, NEW n, NEW i, Refers(k, n, i, s), ~(k \in {"free", "destroy"} /\ i = top)
       PROVE  Dangles(k, s)
  <2>1. CASE s \in Excused
    BY <1>2, <1>11, <2>1, ExcusedDangles
  <2>2. CASE s \notin Excused
    BY <1>2, <1>4, <1>11, <2>2 DEF OwnInv, Single
  <2> QED  BY <2>1, <2>2
<1>12. ASSUME NEW k, NEW n, NEW i, NEW b, Refers(k, n, i, b), ~(k \in {"free", "destroy"} /\ i = top)
       PROVE  Held(k, i, b)'
  <2>1. Held(k, i, b)
    BY <1>12 DEF OwnInv, AllHeld
  <2>2. k \notin {"kid", "free", "destroy"} => b \notin shared'
    BY <1>2, <2>1, Unshared DEF OwnInv
  <2>3. b \in DOMAIN heap => b \in DOMAIN heap' \/ Dangles(k, b)'
    BY <1>2, <1>5, <1>11, <1>12 DEF Dangles
  <2>4. \A x \in DOMAIN heap' : x \in DOMAIN heap /\ heap'[x] = heap[x]
    BY <1>5
  <2>5. /\ next' \in Nat /\ next \in Nat /\ next <= next' /\ shared \subseteq shared'
        /\ "definition" \in faults => "definition" \in faults'
    BY <1>2, <1>5
  <2> QED  BY <2>1, <2>2, <2>3, <2>4, <2>5, HeldStays
<1>13. \A k, n, i, b : Goes(k, n, i, b) => b = s
  BY <1>1, <1>2, <1>10, FirstGoes DEF Goes
<1>14. \A b \in Excused : b \in DOMAIN heap' => b \in Excused'
  BY <1>2, <1>5 DEF Excused
<1>15. Transfers
  BY <1>2, <1>5, <1>10, <1>12, <1>13, <1>14, ZenonT(40) DEF Transfers, Comes
<1> QED  BY <1>6, <1>7, <1>15, Transferred

\* The calls of three lists, in some order: where each begins.
Placed(new, as, bs, cs, a, b, c) ==
  \A p \in Int : \A call :
    p \in DOMAIN new /\ call = new[p] <=>
      \/ p - a \in DOMAIN as /\ call = as[p - a]
      \/ p - b \in DOMAIN bs /\ call = bs[p - b]
      \/ p - c \in DOMAIN cs /\ call = cs[p - c]
Mixes(new, as, bs, cs) == \E a, b, c \in Int : Placed(new, as, bs, cs, a, b, c)

(* The lists joined, and in another order.                                  *)
LEMMA ThreeMixed ==
  ASSUME NEW as, NEW bs, NEW cs, IsList(as), IsList(bs), IsList(cs)
  PROVE  Mixes((as \o bs) \o cs, as, bs, cs)
<1>1. PICK l, m, n, two, three :
        l = Len(as) /\ m = Len(bs) /\ n = Len(cs) /\ two = as \o bs /\ three = two \o cs
  OBVIOUS
<1>2. /\ IsList(two) /\ l \in Nat /\ m \in Nat
      /\ DOMAIN as = 1 .. l /\ DOMAIN bs = 1 .. m /\ DOMAIN two = 1 .. l + m
      /\ \A p \in 1 .. l : two[p] = as[p]
      /\ \A p \in 1 .. l + m : p > l => two[p] = bs[p - l]
  BY <1>1, Joined
<1>3. Len(two) = l + m /\ n \in Nat
  <2>1. Len(two) \in Nat /\ DOMAIN two = 1 .. Len(two)
    BY <1>2, Joined
  <2> QED  BY <1>1, <1>2, <2>1, Joined
<1>4. /\ n \in Nat /\ DOMAIN cs = 1 .. n /\ DOMAIN three = 1 .. (l + m) + n
      /\ \A p \in 1 .. l + m : three[p] = two[p]
      /\ \A p \in 1 .. (l + m) + n : p > l + m => three[p] = cs[p - (l + m)]
  <2>1. PICK k : k = l + m
    OBVIOUS
  <2>2. /\ DOMAIN cs = 1 .. Len(cs) /\ DOMAIN (two \o cs) = 1 .. Len(two) + Len(cs)
        /\ \A p \in 1 .. Len(two) : (two \o cs)[p] = two[p]
        /\ \A p \in 1 .. Len(two) + Len(cs) : p > Len(two) => (two \o cs)[p] = cs[p - Len(two)]
    BY <1>2, Joined
  <2>3. Len(two) = k /\ Len(cs) = n /\ two \o cs = three
    BY <1>1, <1>3, <2>1
  <2>4. /\ DOMAIN cs = 1 .. n /\ DOMAIN three = 1 .. k + n
        /\ \A p \in 1 .. k : three[p] = two[p]
        /\ \A p \in 1 .. k + n : p > k => three[p] = cs[p - k]
    BY <2>2, <2>3
  <2> QED  BY <1>3, <2>1, <2>4
<1>5. ASSUME NEW p \in Int, NEW call
      PROVE  p \in DOMAIN three /\ call = three[p] <=>
               \/ p - 0 \in DOMAIN as /\ call = as[p - 0]
               \/ p - l \in DOMAIN bs /\ call = bs[p - l]
               \/ p - (l + m) \in DOMAIN cs /\ call = cs[p - (l + m)]
  <2>1. CASE p <= l
    <3>1. p - l \notin 1 .. m /\ p - (l + m) \notin 1 .. n /\ p - 0 = p
          /\ (p \in 1 .. (l + m) + n <=> p \in 1 .. l) /\ (p \in 1 .. l => p \in 1 .. l + m)
      BY <1>2, <1>4, <2>1
    <3> QED  BY <1>2, <1>4, <3>1
  <2>2. CASE p > l /\ p <= l + m
    <3>1. p - l \in 1 .. m /\ p - (l + m) \notin 1 .. n /\ p - 0 \notin 1 .. l
          /\ p \in 1 .. (l + m) + n /\ p \in 1 .. l + m
      BY <1>2, <1>4, <2>2
    <3> QED  BY <1>2, <1>4, <2>2, <3>1
  <2>3. CASE p > l + m
    <3>1. p - l \notin 1 .. m /\ p - 0 \notin 1 .. l
          /\ (p \in 1 .. (l + m) + n <=> p - (l + m) \in 1 .. n)
      BY <1>2, <1>4, <2>3
    <3> QED  BY <1>2, <1>4, <2>3, <3>1
  <2>4. p <= l \/ (p > l /\ p <= l + m) \/ p > l + m
    BY <1>2
  <2> QED  BY <2>1, <2>2, <2>3, <2>4
<1>6. 0 \in Int /\ l \in Int /\ l + m \in Int
  BY <1>2
<1>7. PICK zero, more : zero = 0 /\ more = l + m
  OBVIOUS
<1>8. Placed(three, as, bs, cs, zero, l, more)
  BY <1>5, <1>7 DEF Placed
<1> QED  BY <1>1, <1>6, <1>7, <1>8 DEF Mixes

(* Which list is named first does not matter.                               *)
LEMMA AnyOrder ==
  ASSUME NEW new, NEW as, NEW bs, NEW cs, Mixes(new, as, bs, cs)
  PROVE  Mixes(new, bs, as, cs) /\ Mixes(new, cs, bs, as) /\ Mixes(new, as, cs, bs)
<1>1. PICK a, b, c \in Int : Placed(new, as, bs, cs, a, b, c)
  BY DEF Mixes
<1>2. Placed(new, bs, as, cs, b, a, c)
  BY <1>1 DEF Placed
<1>3. Placed(new, cs, bs, as, c, b, a)
  BY <1>1 DEF Placed
<1>4. Placed(new, as, cs, bs, a, c, b)
  BY <1>1 DEF Placed
<1> QED  BY <1>2, <1>3, <1>4 DEF Mixes

(* The parts of a block, whatever the order in which they are released.     *)
LEMMA PartsMixed ==
  ASSUME HeapInv, NEW s \in DOMAIN heap, heap[s].kind \in DOMAIN Shapes
  PROVE  /\ Parts(s) \in Seq(CallSet)
         /\ Mixes(Parts(s), Frees(<<s>>), Frees(heap[s].names), Destroys(heap[s].kids))
<1>1. PICK node, names, kids :
        node = Frees(<<s>>) /\ names = Frees(heap[s].names) /\ kids = Destroys(heap[s].kids)
  OBVIOUS
<1>2. node \in Seq(CallSet) /\ names \in Seq(CallSet) /\ kids \in Seq(CallSet)
  <2>1. s \in Int
    BY DEF HeapInv
  <2>2. <<s>> \in Seq(Int) /\ heap[s].names \in Seq(Int) /\ heap[s].kids \in Seq(Int)
    BY <2>1 DEF HeapInv, Sound, Blocks
  <2>3. ASSUME NEW op \in {"free", "destroy"}, NEW blocks \in Seq(Int)
        PROVE  Call(op, blocks) \in Seq(CallSet)
    <3>1. PICK n \in Nat : n = Len(blocks) /\ DOMAIN blocks = 1 .. n
      OBVIOUS
    <3>2. Call(op, blocks) \in [1 .. n -> CallSet]
      BY <3>1 DEF Call, CallSet
    <3> QED  BY <3>1, <3>2
  <2> QED  BY <1>1, <2>2, <2>3 DEF Frees, Destroys
<1>3. Part(s, "node") = node /\ Part(s, "names") = names /\ Part(s, "kids") = kids
  BY <1>1 DEF Part
<1>4. PICK order : order = Shapes[heap[s].kind].order
  OBVIOUS
<1>5. order \in {NodeLast, NodeFirst, <<"names", "node", "kids">>}
  BY <1>4, ShapesFit DEF ShapeFits
<1>6. Parts(s) = (Part(s, order[1]) \o Part(s, order[2])) \o Part(s, order[3])
  BY <1>4 DEF Parts
<1>7. IsList(node) /\ IsList(names) /\ IsList(kids)
  BY <1>2, SeqIsList
<1>8. CASE order = NodeLast
  <2>1. Parts(s) = (kids \o names) \o node
    BY <1>3, <1>6, <1>8 DEF NodeLast
  <2>2. Mixes((kids \o names) \o node, node, names, kids)
    BY <1>7, ThreeMixed, AnyOrder
  <2> QED  BY <1>1, <1>2, <2>1, <2>2, ConcatProperties
<1>9. CASE order = NodeFirst
  <2>1. Parts(s) = (node \o kids) \o names
    BY <1>3, <1>6, <1>9 DEF NodeFirst
  <2>2. Mixes((node \o kids) \o names, node, names, kids)
    BY <1>7, ThreeMixed, AnyOrder
  <2> QED  BY <1>1, <1>2, <2>1, <2>2, ConcatProperties
<1>10. CASE order = <<"names", "node", "kids">>
  <2>1. Parts(s) = (names \o node) \o kids
    BY <1>3, <1>6, <1>10
  <2>2. Mixes((names \o node) \o kids, node, names, kids)
    BY <1>7, ThreeMixed, AnyOrder
  <2> QED  BY <1>1, <1>2, <2>1, <2>2, ConcatProperties
<1> QED  BY <1>5, <1>8, <1>9, <1>10

(* A node is destroyed: its parts become pending calls, but for names that  *)
(* are lost.                                                                *)
LEMMA Dismantled ==
  ASSUME OwnInv, calls # << >>, Head(calls).op = "destroy",
         NEW s, s = Subject, s \in DOMAIN heap,
         heap' = [heap EXCEPT ![s] = Leaf(heap[s].kind)],
         UNCHANGED <<next, stack, ast, scope, phase, shared, faults>>,
         NEW new \in Seq(CallSet), calls' = new \o Tail(calls),
         NEW names, Mixes(new, Frees(<<s>>), Frees(names), Destroys(heap[s].kids)),
         names = heap[s].names \/
           (names = << >> /\ \A i \in DOMAIN heap[s].names : heap[s].names[i] \in DOMAIN leaked' \cup {NULL}),
         DOMAIN leaked \subseteq DOMAIN leaked', DOMAIN leaked' \subseteq 1 .. next - 1
  PROVE  OwnInv'
<1>1. PICK top, m, ns, ks : /\ top = Len(calls) /\ m = Len(new)
                            /\ ns = heap[s].names /\ ks = heap[s].kids
  OBVIOUS
<1>2. /\ calls \in Seq(CallSet) /\ phase # "parse" /\ top \in Nat /\ top > 0
      /\ Refers("destroy", 0, top, s)
  BY <1>1, FirstCall
<1>3. /\ calls' \in Seq(CallSet)
      /\ \A k, i, b : InCalls(k, i, b)' <=>
           \/ InCalls(k, i, b) /\ i # top
           \/ \E p \in DOMAIN new : i = top + m - p /\ new[p].op = k /\ new[p].block = b
  <2>1. CallsFollow(top, new)
    BY <1>1, <1>2, CallsReplaced
  <2> QED  BY <1>1, <2>1 DEF CallsFollow
<1>4. /\ next \in Nat /\ next > 0 /\ DOMAIN heap \subseteq 1 .. next - 1
      /\ NULL \notin DOMAIN heap /\ WILD \notin DOMAIN heap /\ STATIC \notin DOMAIN heap
  BY DEF OwnInv, HeapInv, AST, NULL, WILD, STATIC
<1>5. /\ DOMAIN heap' = DOMAIN heap
      /\ heap'[s].kind = heap[s].kind /\ IsLeaf(heap'[s]) /\ Sound(heap'[s])
      /\ heap'[s].names = << >> /\ heap'[s].kids = << >>
      /\ \A b \in DOMAIN heap : b # s => heap'[b] = heap[b]
      /\ \A b \in DOMAIN heap : heap'[b].kind = heap[b].kind /\ (IsLeaf(heap[b]) => IsLeaf(heap'[b]))
  <2>1. heap[s].kind \in Kinds
    BY DEF OwnInv, HeapInv, Sound, Blocks
  <2>2. heap'[s] = Leaf(heap[s].kind) /\ DOMAIN heap' = DOMAIN heap
        /\ \A b \in DOMAIN heap : b # s => heap'[b] = heap[b]
    OBVIOUS
  <2>3. Leaf(heap[s].kind).kind = heap[s].kind /\ IsLeaf(Leaf(heap[s].kind)) /\ Sound(Leaf(heap[s].kind))
    BY <2>1, SoundLeaf
  <2> QED  BY <2>2, <2>3 DEF IsLeaf
<1>6. HeapInv'
  <2>1. \A b \in DOMAIN heap' : Sound(heap'[b]) /\ b \in DOMAIN heap /\ heap'[b].kind = heap[b].kind
    BY <1>5 DEF OwnInv, HeapInv
  <2> QED  BY <1>4, <2>1, HeapGrown DEF OwnInv, HeapInv
<1>7. PhaseInv'
  BY <1>2, <1>3 DEF OwnInv, PhaseInv
<1>8. \A k, n, i, b : InNode(k, n, i, b)' <=> InNode(k, n, i, b) /\ n # s
  BY <1>5 DEF InNode
<1>9. \A k, n, i, b : Refers(k, n, i, b)' <=>
        \/ Refers(k, n, i, b) /\ n # s /\ ~(k \in {"free", "destroy"} /\ i = top)
        \/ /\ k \in {"free", "destroy"} /\ n = 0
           /\ \E p \in DOMAIN new : i = top + m - p /\ new[p].op = k /\ new[p].block = b
  <2>1. \A i, b : InAst(i, b)' <=> InAst(i, b)
    BY DEF InAst
  <2>2. s # 0
    BY <1>4 DEF NULL
  <2> QED  BY <1>3, <1>8, <2>1, <2>2, StackStays, ScopeStays DEF Refers
\* Where the calls come from
<1> DEFINE CallAt(p, k, b) == p \in DOMAIN new /\ new[p].op = k /\ new[p].block = b
<1>10. PICK x, y, z \in Int : Placed(new, Frees(<<s>>), Frees(names), Destroys(ks), x, y, z)
  BY <1>1 DEF Mixes
<1>11. \A p \in Int : \A k, b : CallAt(p, k, b) <=>
           \/ p = x + 1 /\ k = "free" /\ b = s
           \/ p - y \in DOMAIN names /\ k = "free" /\ b = names[p - y]
           \/ p - z \in DOMAIN ks /\ k = "destroy" /\ b = ks[p - z]
  <2>1. /\ DOMAIN Frees(<<s>>) = {1} /\ Frees(<<s>>)[1] = [op |-> "free", block |-> s]
        /\ DOMAIN Frees(names) = DOMAIN names
        /\ \A i \in DOMAIN names : Frees(names)[i] = [op |-> "free", block |-> names[i]]
        /\ DOMAIN Destroys(ks) = DOMAIN ks
        /\ \A i \in DOMAIN ks : Destroys(ks)[i] = [op |-> "destroy", block |-> ks[i]]
    BY DEF Frees, Destroys, Call
  <2>2. \A p \in Int : \A call :
          p \in DOMAIN new /\ call = new[p] <=>
            \/ p - x = 1 /\ call = [op |-> "free", block |-> s]
            \/ p - y \in DOMAIN names /\ call = [op |-> "free", block |-> names[p - y]]
            \/ p - z \in DOMAIN ks /\ call = [op |-> "destroy", block |-> ks[p - z]]
    BY <1>10, <2>1, ZenonT(40) DEF Placed
  <2>3. \A p \in Int : p - x = 1 <=> p = x + 1
    OBVIOUS
  <2>4. \A p \in DOMAIN new : new[p] = [op |-> new[p].op, block |-> new[p].block]
    <3>1. \A p \in DOMAIN new : new[p] \in CallSet
      OBVIOUS
    <3>2. \A call \in CallSet : call = [op |-> call.op, block |-> call.block]
      BY DEF CallSet
    <3> QED  BY <3>1, <3>2
  <2>5. \A o, b, oo, bb : [op |-> o, block |-> b] = [op |-> oo, block |-> bb] <=> o = oo /\ b = bb
    OBVIOUS
  <2> SUFFICES ASSUME NEW p \in Int, NEW k, NEW b
               PROVE  CallAt(p, k, b) <=>
                        \/ p = x + 1 /\ k = "free" /\ b = s
                        \/ p - y \in DOMAIN names /\ k = "free" /\ b = names[p - y]
                        \/ p - z \in DOMAIN ks /\ k = "destroy" /\ b = ks[p - z]
    OBVIOUS
  <2>6. PICK call : call = [op |-> k, block |-> b]
    OBVIOUS
  <2>7. CallAt(p, k, b) <=> p \in DOMAIN new /\ call = new[p]
    BY <2>4, <2>6
  <2> QED  BY <2>2, <2>3, <2>5, <2>6, <2>7
<1>a. \A p \in DOMAIN new : p \in Int /\ CallAt(p, new[p].op, new[p].block)
  OBVIOUS
<1>b. \A p, k, b : CallAt(p, k, b) => p \in DOMAIN new /\ new[p].op = k /\ new[p].block = b
  OBVIOUS
<1> HIDE DEF CallAt
<1>12. DOMAIN new \subseteq Int /\ m \in Nat /\ (names = ns \/ names = << >>)
  BY <1>1
<1>13. /\ \A i \in DOMAIN ns : Refers("name", s, i, ns[i])
       /\ \A i \in DOMAIN ks : Refers("kid", s, i, ks[i])
  BY <1>1 DEF Refers, InNode
<1>14. ASSUME NEW k, NEW i, NEW b, NEW p \in DOMAIN new, i = top + m - p, new[p].op = k, new[p].block = b
       PROVE  Held(k, i, b)'
  <2>1. CASE k = "free" /\ b = s
    BY <1>4, <1>5, <2>1 DEF Held, KindFits
  <2>2. CASE p - y \in DOMAIN names /\ k = "free" /\ b = names[p - y]
    <3>1. Refers("name", s, p - y, b)
      BY <1>12, <1>13, <2>2
    <3>2. Held("name", p - y, b)
      BY <3>1 DEF OwnInv, AllHeld
    <3>3. CASE b = NULL
      BY <3>3 DEF Held, NoBlock
    <3>4. CASE b # NULL
      <4>1. b \in 1 .. next - 1 /\ b \notin shared /\ b \in DOMAIN heap /\ heap[b].kind = "string"
        BY <3>2, <3>4 DEF Held, NoBlock, KindFits, Dangles
      <4>2. IsLeaf(heap[b])
        BY <4>1 DEF OwnInv, HeapInv, Sound
      <4> QED  BY <1>5, <2>2, <4>1, <4>2 DEF Held, KindFits
    <3> QED  BY <3>3, <3>4
  <2>3. CASE p - z \in DOMAIN ks /\ k = "destroy" /\ b = ks[p - z]
    <3>1. Held("kid", p - z, b)
      BY <1>13, <2>3 DEF OwnInv, AllHeld
    <3>2. CASE b = NULL
      BY <3>2 DEF Held, NoBlock
    <3>3. CASE b # NULL
      <4>1. /\ b \in 1 .. next - 1 /\ (b \in DOMAIN heap \/ b \in shared)
            /\ b \in DOMAIN heap => heap[b].kind \notin {"Ast", "Symbol"}
        BY <3>1, <3>3 DEF Held, NoBlock, KindFits, Dangles
      <4> QED  BY <1>5, <2>3, <4>1 DEF Held, KindFits, Dangles
    <3> QED  BY <3>2, <3>3
  <2>4. p \in Int /\ CallAt(p, k, b)
    BY <1>14, <1>a
  <2> QED  BY <1>11, <2>1, <2>2, <2>3, <2>4
<1>15. ASSUME NEW k, NEW n, NEW i, NEW b, Refers(k, n, i, b) PROVE Held(k, i, b)'
  <2>1. Held(k, i, b)
    BY <1>15 DEF OwnInv, AllHeld
  <2>2. k \notin {"kid", "free", "destroy"} => b \notin shared'
    BY <2>1, Unshared DEF OwnInv
  <2>3. next' \in Nat /\ next <= next' /\ shared \subseteq shared' /\ faults' = faults
    BY <1>4
  <2> QED  BY <1>4, <1>5, <2>1, <2>2, <2>3, HeldStays
<1>16. ASSUME NEW k, NEW n, NEW i, NEW b, Comes(k, n, i, b)
       PROVE  /\ k \in {"free", "destroy"} /\ n = 0
              /\ \E p \in DOMAIN new : i = top + m - p /\ new[p].op = k /\ new[p].block = b
  BY <1>9, <1>16 DEF Comes
<1>17. \A b : b \in Excused' <=> b \in Excused
  BY <1>5 DEF Excused
<1>18. ASSUME NEW b \in DOMAIN heap \ Excused, NEW k, NEW n, NEW i, Refers(k, n, i, b),
              NEW l, NEW mm, NEW j, Refers(l, mm, j, b)
       PROVE  k = l /\ n = mm /\ i = j
  BY <1>18 DEF OwnInv, Single
<1>19. ASSUME NEW b \in DOMAIN heap \ Excused, NEW p \in DOMAIN new, NEW q \in DOMAIN new,
              new[p].block = b, new[q].block = b
       PROVE  p = q
  <2> DEFINE FromSelf(r) == r = x + 1 /\ b = s
             FromName(r) == r - y \in DOMAIN ns /\ b = ns[r - y]
             FromKid(r) == r - z \in DOMAIN ks /\ b = ks[r - z]
  <2>1. /\ FromSelf(p) \/ FromName(p) \/ FromKid(p)
        /\ FromSelf(q) \/ FromName(q) \/ FromKid(q)
        /\ p \in Int /\ q \in Int
    <3>1. ASSUME NEW r \in DOMAIN new, new[r].block = b PROVE FromSelf(r) \/ FromName(r) \/ FromKid(r)
      <4>1. r \in Int /\ CallAt(r, new[r].op, b)
        BY <1>a, <3>1
      <4>2. r - y \in DOMAIN names => r - y \in DOMAIN ns /\ names[r - y] = ns[r - y]
        BY <1>12
      <4> QED  BY <1>11, <4>1, <4>2
    <3> QED  BY <1>12, <1>19, <3>1
  <2>2. /\ \A r : FromSelf(r) => Refers("destroy", 0, top, b)
        /\ \A r : FromName(r) => Refers("name", s, r - y, b)
        /\ \A r : FromKid(r) => Refers("kid", s, r - z, b)
    BY <1>2, <1>13
  <2>3. CASE FromSelf(p)
    <3>1. ~FromName(q) /\ ~FromKid(q)
      BY <1>18, <2>2, <2>3
    <3> QED  BY <2>1, <2>3, <3>1
  <2>4. CASE FromName(p)
    <3>1. ~FromSelf(q) /\ ~FromKid(q)
      BY <1>18, <2>2, <2>4
    <3>2. p - y = q - y
      BY <1>18, <2>1, <2>2, <2>4, <3>1
    <3> QED  BY <2>1, <3>2
  <2>5. CASE FromKid(p)
    <3>1. ~FromSelf(q) /\ ~FromName(q)
      BY <1>18, <2>2, <2>5
    <3>2. p - z = q - z
      BY <1>18, <2>1, <2>2, <2>5, <3>1
    <3> QED  BY <2>1, <3>2
  <2> QED  BY <2>1, <2>3, <2>4, <2>5
<1>20. Transfers
  <2>1. \A k, n, i, b : Refers(k, n, i, b)' => Held(k, i, b)'
    BY <1>9, <1>14, <1>15
  <2>2. ASSUME NEW k, NEW n, NEW i, NEW l, NEW mm, NEW j, NEW b,
               Comes(k, n, i, b), Comes(l, mm, j, b), Owes(b)'
        PROVE  k = l /\ n = mm /\ i = j
    <3>1. PICK p \in DOMAIN new : i = top + m - p /\ new[p].op = k /\ new[p].block = b
      BY <1>16, <2>2
    <3>2. PICK q \in DOMAIN new : j = top + m - q /\ new[q].op = l /\ new[q].block = b
      BY <1>16, <2>2
    <3>3. p = q
      BY <1>5, <1>17, <1>19, <2>2, <3>1, <3>2 DEF Owes
    <3> QED  BY <1>16, <2>2, <3>1, <3>2, <3>3
  <2>3. ASSUME NEW k, NEW n, NEW i, NEW b, Comes(k, n, i, b), Owes(b)'
        PROVE  \E l, mm, j : Goes(l, mm, j, b)
    <3>1. PICK p \in DOMAIN new : i = top + m - p /\ new[p].op = k /\ new[p].block = b
      BY <1>16, <2>3
    <3>2. b \in DOMAIN heap \ Excused
      BY <1>5, <1>17, <2>3 DEF Owes
    <3>3. CASE k = "free" /\ b = s
      <4>1. ~Refers("destroy", 0, top, s)'
        <5> SUFFICES ASSUME Refers("destroy", 0, top, s)' PROVE FALSE
          OBVIOUS
        <5>1. PICK q \in DOMAIN new : new[q].op = "destroy" /\ new[q].block = s
          BY <1>9
        <5>2. p = q
          BY <1>19, <3>1, <3>2, <3>3, <5>1
        <5> QED  BY <3>1, <3>3, <5>1, <5>2
      <4> QED  BY <1>2, <3>3, <4>1 DEF Goes
    <3>4. CASE p - y \in DOMAIN names /\ b = names[p - y]
      <4>1. Refers("name", s, p - y, b)
        BY <1>12, <1>13, <3>4
      <4>2. ~Refers("name", s, p - y, b)'
        BY <1>9
      <4> QED  BY <4>1, <4>2 DEF Goes
    <3>5. CASE p - z \in DOMAIN ks /\ b = ks[p - z]
      <4>1. Refers("kid", s, p - z, b)
        BY <1>13, <3>5
      <4>2. ~Refers("kid", s, p - z, b)'
        BY <1>9
      <4> QED  BY <4>1, <4>2 DEF Goes
    <3>6. p \in Int /\ CallAt(p, k, b)
      BY <1>a, <3>1
    <3> QED  BY <1>11, <3>3, <3>4, <3>5, <3>6
  <2>4. ASSUME NEW p, NEW k \in {"free", "destroy"}, NEW b, p \in DOMAIN new,
               new[p].op = k, new[p].block = b
        PROVE  \E l, mm, j : Refers(l, mm, j, b)'
    <3>1. Refers(k, 0, top + m - p, b)'
      BY <1>9, <2>4
    <3> QED  BY <3>1
  <2>5. ASSUME NEW k, NEW n, NEW i, NEW b, Goes(k, n, i, b), b \in DOMAIN heap' \ DOMAIN leaked'
        PROVE  \E l, mm, j : Refers(l, mm, j, b)'
    <3>1. CASE k \in {"free", "destroy"} /\ i = top
      <4>1. b = s
        BY <1>1, <2>5, <3>1, FirstGoes DEF Goes
      <4>2. CallAt(x + 1, "free", s)
        <5>1. x + 1 \in Int
          OBVIOUS
        <5> QED  BY <1>11, <5>1
      <4> QED  BY <2>4, <4>1, <4>2, <1>b
    <3>2. CASE n = s
      <4>1. (k = "name" /\ i \in DOMAIN ns /\ b = ns[i]) \/ (k = "kid" /\ i \in DOMAIN ks /\ b = ks[i])
        <5>1. s # 0
          BY <1>4 DEF NULL
        <5> QED  BY <1>1, <2>5, <3>2, <5>1 DEF Goes, Refers, InNode
      <4>2. ns \in Seq(Int) /\ ks \in Seq(Int)
        BY <1>1 DEF OwnInv, HeapInv, Sound, Blocks
      <4>3. CASE k = "name" /\ i \in DOMAIN ns /\ b = ns[i]
        <5>1. names = ns
          BY <1>1, <1>4, <1>5, <2>5, <4>3
        <5>2. i \in Int
          BY <4>2, <4>3
        <5>3. y + i \in Int /\ (y + i) - y = i
          BY <5>2
        <5>4. CallAt(y + i, "free", b)
          BY <1>11, <4>3, <5>1, <5>3
        <5> QED  BY <2>4, <5>4, <1>b
      <4>4. CASE k = "kid" /\ i \in DOMAIN ks /\ b = ks[i]
        <5>2. i \in Int
          BY <4>2, <4>4
        <5>3. z + i \in Int /\ (z + i) - z = i
          BY <5>2
        <5>4. CallAt(z + i, "destroy", b)
          BY <1>11, <4>4, <5>3
        <5> QED  BY <2>4, <5>4, <1>b
      <4> QED  BY <4>1, <4>3, <4>4
    <3> QED  BY <1>9, <2>5, <3>1, <3>2 DEF Goes
  <2> QED  BY <1>5, <1>17, <2>1, <2>2, <2>3, <2>5 DEF Transfers
<1> QED  BY <1>6, <1>7, <1>20, Transferred

(* So are the blocks that destructors are called for.                       *)
LEMMA Destroyed == ASSUME OwnInv, Destroy PROVE OwnInv'
<1>1. PICK s, top, ns, ks : s = Subject /\ top = Len(calls) /\ ns = heap[s].names /\ ks = heap[s].kids
  OBVIOUS
<1>2. /\ calls # << >> /\ Head(calls).op = "destroy" /\ s \in DOMAIN heap
      /\ heap' = [heap EXCEPT ![s] = Leaf(heap[s].kind)]
      /\ UNCHANGED <<next, stack, ast, scope, phase, shared, faults>>
  BY <1>1 DEF Destroy, Pending, parser, analysis
<1>3. PICK chance \in IF heap[s].kind = "StrLiteral" THEN BOOLEAN ELSE {TRUE} :
        /\ calls' = (IF chance THEN Parts(s) ELSE Part(s, "node")) \o Tail(calls)
        /\ IF chance THEN UNCHANGED leaked ELSE Drop(Range(heap[s].names), "literal")
  BY <1>1 DEF Destroy
<1>4. /\ heap[s].kind \in DOMAIN Shapes /\ Sound(heap[s]) /\ s \in Int
      /\ DOMAIN leaked \subseteq 1 .. next - 1
  <2>1. Refers("destroy", 0, top, s)
    BY <1>1, <1>2, FirstCall
  <2>2. Held("destroy", top, s) /\ ~NoBlock("destroy", top, s)
    BY <1>2, <2>1 DEF OwnInv, AllHeld, HeapInv, NoBlock, NULL, WILD, STATIC
  <2>3. heap[s].kind \notin {"Ast", "Symbol"} /\ Sound(heap[s])
    BY <1>2, <2>2 DEF Held, KindFits, OwnInv, HeapInv
  <2>4. s \in Int /\ DOMAIN leaked \subseteq 1 .. next - 1
    BY <1>2 DEF OwnInv, HeapInv
  <2> QED  BY <2>3, <2>4 DEF Sound, Blocks, Kinds
<1>5. CASE chance
  <2>1. Parts(s) \in Seq(CallSet) /\ Mixes(Parts(s), Frees(<<s>>), Frees(heap[s].names), Destroys(heap[s].kids))
    BY <1>2, <1>4, PartsMixed DEF OwnInv
  <2>2. calls' = Parts(s) \o Tail(calls) /\ DOMAIN leaked' = DOMAIN leaked
    BY <1>3, <1>5
  <2> QED  BY <1>1, <1>2, <1>4, <2>1, <2>2, Dismantled
<1>6. CASE ~chance
  <2>1. heap[s].kind = "StrLiteral" /\ ks = << >>
    BY <1>1, <1>3, <1>4, <1>6 DEF Sound
  <2>2. PICK new, none : new = Frees(<<s>>) /\ none = << >>
    OBVIOUS
  <2>3. new \in Seq(CallSet) /\ none \in Seq(CallSet)
    <3>1. <<s>> \in [1 .. 1 -> Int]
      BY <1>4
    <3>2. new \in [1 .. 1 -> CallSet]
      BY <2>2, <3>1 DEF Frees, Call, CallSet
    <3>3. new \in Seq(CallSet)
      BY <3>2
    <3>4. none \in Seq(CallSet)
      BY <2>2
    <3> QED  BY <3>3, <3>4
  <2>4. new = (new \o none) \o none
    <3>1. IsList(new)
      BY <2>3, SeqIsList
    <3> QED  BY <2>2, <3>1, JoinedToNothing
  <2>5. Frees(none) = none /\ Destroys(ks) = none
    BY <2>1, <2>2 DEF Frees, Destroys, Call
  <2>6. Mixes(new, Frees(<<s>>), Frees(none), Destroys(heap[s].kids))
    <3>1. IsList(new) /\ IsList(none)
      BY <2>3, SeqIsList
    <3>2. Mixes((new \o none) \o none, new, none, none)
      BY <3>1, ThreeMixed
    <3> QED  BY <1>1, <2>2, <2>4, <2>5, <3>2
  <2>7. calls' = new \o Tail(calls)
    BY <1>3, <1>6, <2>2 DEF Part
  <2>8. DOMAIN leaked' = (Range(ns) \ {NULL, WILD}) \cup DOMAIN leaked
    BY <1>1, <1>3, <1>6 DEF Drop, Overlay
  <2>9. ASSUME NEW i \in DOMAIN ns PROVE ns[i] = NULL \/ (ns[i] \in 1 .. next - 1 /\ ns[i] # WILD)
    <3>1. Refers("name", s, i, ns[i])
      BY <1>1, <1>2 DEF Refers, InNode
    <3>2. Held("name", i, ns[i])
      BY <3>1 DEF OwnInv, AllHeld
    <3>3. next \in Nat
      BY DEF OwnInv, HeapInv
    <3> QED  BY <3>2, <3>3 DEF Held, NoBlock, WILD
  <2>10. \A i \in DOMAIN ns : ns[i] \in DOMAIN leaked' \cup {NULL}
    BY <2>8, <2>9 DEF Range
  <2>11. DOMAIN leaked' \subseteq 1 .. next - 1
    BY <1>4, <2>8, <2>9 DEF Range
  <2>12. DOMAIN leaked \subseteq DOMAIN leaked'
    BY <2>8
  <2> QED  BY <1>1, <1>2, <2>2, <2>3, <2>6, <2>7, <2>10, <2>11, <2>12, Dismantled
<1> QED  BY <1>5, <1>6

-----------------------------------------------------------------------------
(* Nodes that an analysis or a caller makes                                 *)

\* A reference between new blocks, or from one of them to another.
Inner(blocks, k, n, i, b) ==
  /\ n \in DOMAIN blocks
  /\ \/ k = "name" /\ i \in DOMAIN blocks[n].names /\ b = blocks[n].names[i]
     \/ k = "kid" /\ i \in DOMAIN blocks[n].kids /\ b = blocks[n].kids[i]

\* New blocks, of which the roots have no owner among them and the others one;
\* desc is a block that they refer to and that is not new, or NULL.
Fresh(blocks, from, upto, roots, desc) ==
  /\ DOMAIN blocks = from .. upto - 1
  /\ roots \subseteq DOMAIN blocks
  /\ \A b \in DOMAIN blocks : Sound(blocks[b])
  /\ \A k, n, i, b : Inner(blocks, k, n, i, b) =>
       \/ /\ b \in DOMAIN blocks \ roots
          /\ k = "name" => blocks[b].kind = "string"
          /\ k = "kid" => blocks[b].kind \notin {"Ast", "Symbol"}
       \/ k = "kid" /\ b = desc
  /\ \A b \in DOMAIN blocks : \A k, n, i, l, m, j :
       Inner(blocks, k, n, i, b) /\ Inner(blocks, l, m, j, b) => k = l /\ n = m /\ i = j
  /\ \A b \in DOMAIN blocks \ roots : \E k, n, i : Inner(blocks, k, n, i, b)

\* What a node is made of.
IsNew(block, kind, names, kids) ==
  block.kind = kind /\ block.names = names /\ block.kids = kids /\ Sound(block)

\* A node with one name or two, or without.
Small(node, id, kind, kids) ==
  /\ Shapes[kind].names = 0 => DOMAIN node = {id} /\ IsNew(node[id], kind, << >>, kids)
  /\ Shapes[kind].names = 1 =>
       /\ DOMAIN node = {id, id + 1} /\ IsNew(node[id], kind, <<id + 1>>, kids)
       /\ node[id + 1] = Leaf("string")
  /\ Shapes[kind].names = 2 =>
       /\ DOMAIN node = {id, id + 1, id + 2} /\ IsNew(node[id], kind, <<id + 1, id + 2>>, kids)
       /\ node[id + 1] = Leaf("string") /\ node[id + 2] = Leaf("string")

(* That is what a constructor makes of them.                                *)
LEMMA SmallNodes ==
  ASSUME NEW id \in Nat \ {0}, NEW kind \in DOMAIN Shapes \ {"string", "buffer", "StrLiteral"},
         NEW kids \in Seq(Int), NEW node, node = Node(id, kind, kids)
  PROVE  Small(node, id, kind, kids)
<1>1. PICK n, size : n = Shapes[kind].names /\ size = Size(kind)
  OBVIOUS
<1>2. size = 1 + n
  BY <1>1 DEF Size
<1>3. /\ size \in Nat \ {0}
      /\ DOMAIN node = id .. id + size - 1
      /\ node[id].kind = kind /\ node[id].kids = kids
      /\ DOMAIN node[id].names = 1 .. size - 1
      /\ \A i \in 1 .. size - 1 : node[id].names[i] = id + i
      /\ \A b \in id + 1 .. id + size - 1 : node[b] = Leaf("string")
      /\ \A b \in DOMAIN node : Sound(node[b])
  <2>1. NodeOf(node, id, kind, kids)
    BY NewNode
  <2> QED  BY <1>1, <2>1 DEF NodeOf
<1>4. PICK names : names = node[id].names
  OBVIOUS
<1>5. names \in Seq(Int) /\ Sound(node[id])
  <2>1. id \in DOMAIN node
    BY <1>3
  <2>2. Sound(node[id])
    BY <1>3, <2>1
  <2> QED  BY <1>4, <2>2 DEF Sound, Blocks
<1>6. IsNew(node[id], kind, names, kids)
  BY <1>3, <1>4, <1>5 DEF IsNew
<1>7. size - 1 \in Nat => Len(names) = size - 1
  <2>1. PICK m : m = Len(names)
    OBVIOUS
  <2>2. m \in Nat /\ DOMAIN names = 1 .. m
    BY <1>5, <2>1
  <2>3. 1 .. m = 1 .. size - 1
    BY <1>3, <1>4, <2>2
  <2>4. ASSUME NEW x \in Nat, NEW y \in Nat, 1 .. x = 1 .. y PROVE x = y
    <3>1. x > 0 => x \in 1 .. x
      OBVIOUS
    <3>2. y > 0 => y \in 1 .. y
      OBVIOUS
    <3>3. x > 0 => x \in 1 .. y
      BY <2>4, <3>1
    <3>4. y > 0 => y \in 1 .. x
      BY <2>4, <3>2
    <3> QED  BY <3>3, <3>4
  <2> QED  BY <2>1, <2>2, <2>3, <2>4
<1>8. CASE n = 0
  <2>1. size = 1
    BY <1>2, <1>8
  <2>2. id .. id + size - 1 = {id}
    BY <2>1
  <2>3. Len(names) = 0
    BY <1>7, <2>1
  <2>4. names = << >>
    BY <1>5, <2>3
  <2>5. DOMAIN node = {id}
    BY <1>3, <2>2
  <2> QED  BY <1>1, <1>6, <1>8, <2>4, <2>5 DEF Small
<1>9. CASE n = 1
  <2>1. size = 2
    BY <1>2, <1>9
  <2>2. id .. id + size - 1 = {id, id + 1} /\ id + 1 \in id + 1 .. id + size - 1
    BY <2>1
  <2>3. DOMAIN names = {1} /\ names[1] = id + 1
    BY <1>3, <1>4, <2>1
  <2>4. Len(names) = 1
    BY <1>7, <2>1
  <2>5. names = <<id + 1>>
    BY <1>5, <2>3, <2>4
  <2>6. DOMAIN node = {id, id + 1} /\ node[id + 1] = Leaf("string")
    BY <1>3, <2>2
  <2> QED  BY <1>1, <1>6, <1>9, <2>5, <2>6 DEF Small
<1>10. CASE n = 2
  <2>1. size = 3
    BY <1>2, <1>10
  <2>2. /\ id .. id + size - 1 = {id, id + 1, id + 2}
        /\ id + 1 \in id + 1 .. id + size - 1 /\ id + 2 \in id + 1 .. id + size - 1
    BY <2>1
  <2>3. DOMAIN names = {1, 2} /\ names[1] = id + 1 /\ names[2] = id + 2
    BY <1>3, <1>4, <2>1
  <2>4. Len(names) = 2
    BY <1>7, <2>1
  <2>5. names = <<id + 1, id + 2>>
    BY <1>5, <2>3, <2>4
  <2>6. DOMAIN node = {id, id + 1, id + 2} /\ node[id + 1] = Leaf("string") /\ node[id + 2] = Leaf("string")
    BY <1>3, <2>2
  <2> QED  BY <1>1, <1>6, <1>10, <2>5, <2>6 DEF Small
<1> QED  BY <1>1, <1>8, <1>9, <1>10 DEF Small

(* A new block has these references and no others.                          *)
LEMMA InnerOf ==
  ASSUME NEW blocks, NEW n \in DOMAIN blocks
  PROVE  /\ \A kind : IsNew(blocks[n], kind, << >>, << >>) => \A k, i, b : ~Inner(blocks, k, n, i, b)
         /\ \A kind, x : IsNew(blocks[n], kind, <<x>>, << >>) =>
              \A k, i, b : Inner(blocks, k, n, i, b) <=> k = "name" /\ i = 1 /\ b = x
         /\ \A kind, x, y : IsNew(blocks[n], kind, <<x, y>>, << >>) =>
              \A k, i, b : Inner(blocks, k, n, i, b) <=> k = "name" /\ ((i = 1 /\ b = x) \/ (i = 2 /\ b = y))
         /\ \A kind, x : IsNew(blocks[n], kind, << >>, <<x>>) =>
              \A k, i, b : Inner(blocks, k, n, i, b) <=> k = "kid" /\ i = 1 /\ b = x
         /\ \A kind, x, y : IsNew(blocks[n], kind, <<x>>, <<y>>) =>
              \A k, i, b : Inner(blocks, k, n, i, b) <=> i = 1 /\ ((k = "name" /\ b = x) \/ (k = "kid" /\ b = y))
<1>1. /\ DOMAIN << >> = {}
      /\ \A x : DOMAIN <<x>> = {1} /\ <<x>>[1] = x
      /\ \A x, y : DOMAIN <<x, y>> = {1, 2} /\ <<x, y>>[1] = x /\ <<x, y>>[2] = y
  OBVIOUS
<1>2. \A kind : IsNew(blocks[n], kind, << >>, << >>) => \A k, i, b : ~Inner(blocks, k, n, i, b)
  BY <1>1 DEF IsNew, Inner
<1>3. \A kind, x : IsNew(blocks[n], kind, <<x>>, << >>) =>
              \A k, i, b : Inner(blocks, k, n, i, b) <=> k = "name" /\ i = 1 /\ b = x
  BY <1>1 DEF IsNew, Inner
<1>4. \A kind, x, y : IsNew(blocks[n], kind, <<x, y>>, << >>) =>
              \A k, i, b : Inner(blocks, k, n, i, b) <=> k = "name" /\ ((i = 1 /\ b = x) \/ (i = 2 /\ b = y))
  BY <1>1 DEF IsNew, Inner
<1>5. \A kind, x : IsNew(blocks[n], kind, << >>, <<x>>) =>
              \A k, i, b : Inner(blocks, k, n, i, b) <=> k = "kid" /\ i = 1 /\ b = x
  BY <1>1 DEF IsNew, Inner
<1>6. \A kind, x, y : IsNew(blocks[n], kind, <<x>>, <<y>>) =>
              \A k, i, b : Inner(blocks, k, n, i, b) <=> i = 1 /\ ((k = "name" /\ b = x) \/ (k = "kid" /\ b = y))
  BY <1>1 DEF IsNew, Inner
<1> QED  BY <1>2, <1>3, <1>4, <1>5, <1>6

\* Who refers to whom among the blocks of an anonymous array type.
ArrayInner(id, k, n, i, b) ==
  /\ i = 1
  /\ \/ k = "name" /\ n = id + 1 /\ b = id + 2
     \/ k = "kid" /\ n = id + 3 /\ b = id + 1
     \/ k = "name" /\ n = id + 4 /\ b = id + 5
     \/ k = "kid" /\ n = id + 4 /\ b = id + 3
     \/ k = "kid" /\ n = id + 7 /\ b = id + 4

(* The blocks of an anonymous array type: its name, which is not kept, its  *)
(* symbol and its definition have no owner among them.                      *)
LEMMA FreshArray ==
  ASSUME HeapInv, NEW blocks, blocks = ArrayBlocks, NEW id, id = next
  PROVE  /\ Fresh(blocks, id, id + 8, {id, id + 6, id + 7}, NULL)
         /\ blocks[id] = Leaf("string") /\ blocks[id + 6] = Leaf("Symbol")
         /\ blocks[id + 7].kind = "Def"
<1>1. id \in Nat /\ id > 0
  BY DEF HeapInv, AST
<1>2. PICK f0, f1, f2, f3, f4, f5 :
        /\ f0 = At(id, Leaf("string")) /\ f1 = Node(id + 1, "Alias", << >>)
        /\ f2 = Node(id + 3, "Array", <<id + 1>>) /\ f3 = Node(id + 4, "TypeDef", <<id + 3>>)
        /\ f4 = At(id + 6, Leaf("Symbol")) /\ f5 = Node(id + 7, "Def", <<id + 4>>)
  OBVIOUS
<1>3. blocks = Together({f0, f1, f2, f3, f4, f5})
  BY <1>2 DEF ArrayBlocks
<1>4. /\ Shapes["Alias"].names = 1 /\ Shapes["Array"].names = 0 /\ Shapes["TypeDef"].names = 1
      /\ Shapes["Def"].names = 0
      /\ {"Alias", "Array", "TypeDef", "Def"} \subseteq DOMAIN Shapes \ {"string", "buffer", "StrLiteral"}
  BY OtherKinds
<1>5. /\ << >> \in Seq(Int) /\ <<id + 1>> \in Seq(Int) /\ <<id + 3>> \in Seq(Int) /\ <<id + 4>> \in Seq(Int)
      /\ id + 1 \in Nat \ {0} /\ id + 3 \in Nat \ {0} /\ id + 4 \in Nat \ {0} /\ id + 7 \in Nat \ {0}
  BY <1>1
<1>6. DOMAIN f0 = {id} /\ f0[id] = Leaf("string") /\ DOMAIN f4 = {id + 6} /\ f4[id + 6] = Leaf("Symbol")
  BY <1>2 DEF At
<1>7. /\ DOMAIN f1 = {id + 1, id + 2} /\ IsNew(f1[id + 1], "Alias", <<id + 2>>, << >>)
      /\ f1[id + 2] = Leaf("string")
  <2>1. (id + 1) + 1 = id + 2
    BY <1>1
  <2>2. Small(f1, id + 1, "Alias", << >>)
    BY <1>2, <1>4, <1>5, SmallNodes
  <2>3. /\ DOMAIN f1 = {id + 1, (id + 1) + 1} /\ IsNew(f1[id + 1], "Alias", <<(id + 1) + 1>>, << >>)
        /\ f1[(id + 1) + 1] = Leaf("string")
    BY <1>4, <2>2 DEF Small
  <2> QED  BY <2>1, <2>3
<1>8. DOMAIN f2 = {id + 3} /\ IsNew(f2[id + 3], "Array", << >>, <<id + 1>>)
  <2>1. Small(f2, id + 3, "Array", <<id + 1>>)
    BY <1>2, <1>4, <1>5, SmallNodes
  <2> QED  BY <1>4, <2>1 DEF Small
<1>9. /\ DOMAIN f3 = {id + 4, id + 5} /\ IsNew(f3[id + 4], "TypeDef", <<id + 5>>, <<id + 3>>)
      /\ f3[id + 5] = Leaf("string")
  <2>1. (id + 4) + 1 = id + 5
    BY <1>1
  <2>2. Small(f3, id + 4, "TypeDef", <<id + 3>>)
    BY <1>2, <1>4, <1>5, SmallNodes
  <2>3. /\ DOMAIN f3 = {id + 4, (id + 4) + 1} /\ IsNew(f3[id + 4], "TypeDef", <<(id + 4) + 1>>, <<id + 3>>)
        /\ f3[(id + 4) + 1] = Leaf("string")
    BY <1>4, <2>2 DEF Small
  <2> QED  BY <2>1, <2>3
<1>10. DOMAIN f5 = {id + 7} /\ IsNew(f5[id + 7], "Def", << >>, <<id + 4>>)
  <2>1. Small(f5, id + 7, "Def", <<id + 4>>)
    BY <1>2, <1>4, <1>5, SmallNodes
  <2> QED  BY <1>4, <2>1 DEF Small
<1>11. /\ DOMAIN blocks = UNION {DOMAIN f : f \in {f0, f1, f2, f3, f4, f5}}
       /\ \A x \in DOMAIN blocks : \E f \in {f0, f1, f2, f3, f4, f5} : x \in DOMAIN f /\ blocks[x] = f[x]
  <2>1. PICK fs : fs = {f0, f1, f2, f3, f4, f5}
    OBVIOUS
  <2>2. /\ DOMAIN blocks = UNION {DOMAIN f : f \in fs}
        /\ \A x \in DOMAIN blocks : \E f \in fs : x \in DOMAIN f /\ blocks[x] = f[x]
    BY <1>3, <2>1, MergedAll, ZenonT(40)
  <2> QED  BY <2>1, <2>2
<1>12. DOMAIN blocks = {id, id + 1, id + 2, id + 3, id + 4, id + 5, id + 6, id + 7}
  BY <1>6, <1>7, <1>8, <1>9, <1>10, <1>11
<1>13. DOMAIN blocks = id .. id + 8 - 1
  <2>1. id .. id + 8 - 1 = {id, id + 1, id + 2, id + 3, id + 4, id + 5, id + 6, id + 7}
    BY <1>1
  <2> QED  BY <1>12, <2>1
<1>14. /\ blocks[id] = Leaf("string") /\ blocks[id + 6] = Leaf("Symbol")
       /\ blocks[id + 2] = Leaf("string") /\ blocks[id + 5] = Leaf("string")
       /\ IsNew(blocks[id + 1], "Alias", <<id + 2>>, << >>)
       /\ IsNew(blocks[id + 3], "Array", << >>, <<id + 1>>)
       /\ IsNew(blocks[id + 4], "TypeDef", <<id + 5>>, <<id + 3>>)
       /\ IsNew(blocks[id + 7], "Def", << >>, <<id + 4>>)
  <2>1. /\ \A x \in DOMAIN blocks : x = id => blocks[x] = f0[x]
        /\ \A x \in DOMAIN blocks : x \in {id + 1, id + 2} => blocks[x] = f1[x]
        /\ \A x \in DOMAIN blocks : x = id + 3 => blocks[x] = f2[x]
        /\ \A x \in DOMAIN blocks : x \in {id + 4, id + 5} => blocks[x] = f3[x]
        /\ \A x \in DOMAIN blocks : x = id + 6 => blocks[x] = f4[x]
        /\ \A x \in DOMAIN blocks : x = id + 7 => blocks[x] = f5[x]
    BY <1>1, <1>6, <1>7, <1>8, <1>9, <1>10, <1>11
  <2> QED  BY <1>6, <1>7, <1>8, <1>9, <1>10, <1>12, <2>1
<1>15. /\ IsNew(blocks[id], "string", << >>, << >>) /\ IsNew(blocks[id + 6], "Symbol", << >>, << >>)
       /\ IsNew(blocks[id + 2], "string", << >>, << >>) /\ IsNew(blocks[id + 5], "string", << >>, << >>)
  BY <1>14, SoundLeaf, OtherKinds DEF IsNew, Kinds, IsLeaf
<1>16. \A k, n, i, b : Inner(blocks, k, n, i, b) <=> ArrayInner(id, k, n, i, b)
  <2>1. \A n \in {id, id + 2, id + 5, id + 6} : \A k, i, b : ~Inner(blocks, k, n, i, b)
    BY <1>12, <1>15, InnerOf
  <2>2. \A k, i, b : Inner(blocks, k, id + 1, i, b) <=> k = "name" /\ i = 1 /\ b = id + 2
    BY <1>12, <1>14, InnerOf
  <2>3. \A k, i, b : Inner(blocks, k, id + 3, i, b) <=> k = "kid" /\ i = 1 /\ b = id + 1
    BY <1>12, <1>14, InnerOf
  <2>4. \A k, i, b : Inner(blocks, k, id + 4, i, b) <=>
          i = 1 /\ ((k = "name" /\ b = id + 5) \/ (k = "kid" /\ b = id + 3))
    BY <1>12, <1>14, InnerOf
  <2>5. \A k, i, b : Inner(blocks, k, id + 7, i, b) <=> k = "kid" /\ i = 1 /\ b = id + 4
    BY <1>12, <1>14, InnerOf
  <2>6. \A k, n, i, b : Inner(blocks, k, n, i, b) => n \in DOMAIN blocks
    BY DEF Inner
  <2> SUFFICES ASSUME NEW k, NEW n, NEW i, NEW b
               PROVE  Inner(blocks, k, n, i, b) <=> ArrayInner(id, k, n, i, b)
    OBVIOUS
  <2>7. CASE n \in {id, id + 2, id + 5, id + 6}
    BY <1>1, <2>1, <2>7 DEF ArrayInner
  <2>8. CASE n \in {id + 1, id + 3, id + 4, id + 7}
    BY <1>1, <2>2, <2>3, <2>4, <2>5, <2>8 DEF ArrayInner
  <2>9. CASE n \notin DOMAIN blocks
    BY <1>12, <2>6, <2>9 DEF ArrayInner
  <2> QED  BY <1>12, <2>7, <2>8, <2>9
<1>17. /\ blocks[id + 1].kind = "Alias" /\ blocks[id + 2].kind = "string" /\ blocks[id + 3].kind = "Array"
       /\ blocks[id + 4].kind = "TypeDef" /\ blocks[id + 5].kind = "string" /\ blocks[id + 7].kind = "Def"
  BY <1>14, <1>15 DEF IsNew
<1>18. \A b \in DOMAIN blocks : Sound(blocks[b])
  BY <1>12, <1>14, <1>15 DEF IsNew
<1>19. ASSUME NEW k, NEW n, NEW i, NEW b, Inner(blocks, k, n, i, b)
       PROVE  /\ b \in DOMAIN blocks \ {id, id + 6, id + 7}
              /\ k = "name" => blocks[b].kind = "string"
              /\ k = "kid" => blocks[b].kind \notin {"Ast", "Symbol"}
  <2>1. ArrayInner(id, k, n, i, b)
    BY <1>16, <1>19
  <2> QED  BY <1>1, <1>12, <1>17, <2>1 DEF ArrayInner
<1>20. ASSUME NEW b \in DOMAIN blocks, NEW k, NEW n, NEW i, NEW l, NEW m, NEW j,
              Inner(blocks, k, n, i, b), Inner(blocks, l, m, j, b)
       PROVE  k = l /\ n = m /\ i = j
  <2>1. ArrayInner(id, k, n, i, b) /\ ArrayInner(id, l, m, j, b)
    BY <1>16, <1>20
  <2> QED  BY <1>1, <2>1 DEF ArrayInner
<1>21. \A b \in DOMAIN blocks \ {id, id + 6, id + 7} : \E k, n, i : Inner(blocks, k, n, i, b)
  <2>1. /\ ArrayInner(id, "name", id + 1, 1, id + 2) /\ ArrayInner(id, "kid", id + 3, 1, id + 1)
        /\ ArrayInner(id, "name", id + 4, 1, id + 5) /\ ArrayInner(id, "kid", id + 4, 1, id + 3)
        /\ ArrayInner(id, "kid", id + 7, 1, id + 4)
    BY DEF ArrayInner
  <2> QED  BY <1>12, <1>16, <2>1
<1>22. {id, id + 6, id + 7} \subseteq DOMAIN blocks
  BY <1>12
<1>23. Fresh(blocks, id, id + 8, {id, id + 6, id + 7}, NULL)
  BY <1>13, <1>18, <1>19, <1>20, <1>21, <1>22 DEF Fresh
<1> QED  BY <1>14, <1>17, <1>23

(* The blocks of the definition that an anonymous record gets: its symbol   *)
(* and the definition have no owner among them, the description is not new. *)
LEMMA FreshRecord ==
  ASSUME HeapInv, NEW desc \in DOMAIN heap, NEW blocks, blocks = RecordBlocks(desc), NEW id, id = next
  PROVE  /\ Fresh(blocks, id, id + 4, {id + 2, id + 3}, desc)
         /\ blocks[id + 2] = Leaf("Symbol") /\ blocks[id + 3].kind = "Def"
         /\ Inner(blocks, "kid", id, 1, desc)
<1>1. id \in Nat /\ id > 0 /\ desc \in 1 .. id - 1
  BY DEF HeapInv, AST
<1>2. PICK f0, f1, f2 :
        /\ f0 = Node(id, "TypeDef", <<desc>>) /\ f1 = At(id + 2, Leaf("Symbol"))
        /\ f2 = Node(id + 3, "Def", <<id>>)
  OBVIOUS
<1>3. blocks = Together({f0, f1, f2})
  BY <1>2 DEF RecordBlocks
<1>4. /\ Shapes["TypeDef"].names = 1 /\ Shapes["Def"].names = 0
      /\ {"TypeDef", "Def"} \subseteq DOMAIN Shapes \ {"string", "buffer", "StrLiteral"}
  BY OtherKinds
<1>5. <<desc>> \in Seq(Int) /\ <<id>> \in Seq(Int) /\ id \in Nat \ {0} /\ id + 3 \in Nat \ {0}
  BY <1>1
<1>6. DOMAIN f1 = {id + 2} /\ f1[id + 2] = Leaf("Symbol")
  BY <1>2 DEF At
<1>7. DOMAIN f0 = {id, id + 1} /\ IsNew(f0[id], "TypeDef", <<id + 1>>, <<desc>>) /\ f0[id + 1] = Leaf("string")
  <2>1. Small(f0, id, "TypeDef", <<desc>>)
    BY <1>2, <1>4, <1>5, SmallNodes
  <2> QED  BY <1>4, <2>1 DEF Small
<1>8. DOMAIN f2 = {id + 3} /\ IsNew(f2[id + 3], "Def", << >>, <<id>>)
  <2>1. Small(f2, id + 3, "Def", <<id>>)
    BY <1>2, <1>4, <1>5, SmallNodes
  <2> QED  BY <1>4, <2>1 DEF Small
<1>9. /\ DOMAIN blocks = UNION {DOMAIN f : f \in {f0, f1, f2}}
      /\ \A x \in DOMAIN blocks : \E f \in {f0, f1, f2} : x \in DOMAIN f /\ blocks[x] = f[x]
  <2>1. PICK fs : fs = {f0, f1, f2}
    OBVIOUS
  <2>2. /\ DOMAIN blocks = UNION {DOMAIN f : f \in fs}
        /\ \A x \in DOMAIN blocks : \E f \in fs : x \in DOMAIN f /\ blocks[x] = f[x]
    BY <1>3, <2>1, MergedAll
  <2> QED  BY <2>1, <2>2
<1>10. DOMAIN blocks = {id, id + 1, id + 2, id + 3} /\ DOMAIN blocks = id .. id + 4 - 1
  <2>1. id .. id + 4 - 1 = {id, id + 1, id + 2, id + 3}
    BY <1>1
  <2>2. DOMAIN blocks = {id, id + 1, id + 2, id + 3}
    BY <1>6, <1>7, <1>8, <1>9
  <2> QED  BY <2>1, <2>2
<1>11. /\ IsNew(blocks[id], "TypeDef", <<id + 1>>, <<desc>>) /\ blocks[id + 1] = Leaf("string")
       /\ blocks[id + 2] = Leaf("Symbol") /\ IsNew(blocks[id + 3], "Def", << >>, <<id>>)
  <2>1. /\ \A x \in DOMAIN blocks : x \in {id, id + 1} => blocks[x] = f0[x]
        /\ \A x \in DOMAIN blocks : x = id + 2 => blocks[x] = f1[x]
        /\ \A x \in DOMAIN blocks : x = id + 3 => blocks[x] = f2[x]
    BY <1>1, <1>6, <1>7, <1>8, <1>9
  <2> QED  BY <1>6, <1>7, <1>8, <1>10, <2>1
<1>12. IsNew(blocks[id + 1], "string", << >>, << >>) /\ IsNew(blocks[id + 2], "Symbol", << >>, << >>)
  BY <1>11, SoundLeaf, OtherKinds DEF IsNew, Kinds, IsLeaf
<1> DEFINE RecordInner(k, n, i, b) ==
      /\ i = 1
      /\ \/ k = "name" /\ n = id /\ b = id + 1
         \/ k = "kid" /\ n = id /\ b = desc
         \/ k = "kid" /\ n = id + 3 /\ b = id
<1>13. \A k, n, i, b : Inner(blocks, k, n, i, b) <=> RecordInner(k, n, i, b)
  <2>1. \A n \in {id + 1, id + 2} : \A k, i, b : ~Inner(blocks, k, n, i, b)
    BY <1>10, <1>12, InnerOf
  <2>2. \A k, i, b : Inner(blocks, k, id, i, b) <=>
          i = 1 /\ ((k = "name" /\ b = id + 1) \/ (k = "kid" /\ b = desc))
    BY <1>10, <1>11, InnerOf
  <2>3. \A k, i, b : Inner(blocks, k, id + 3, i, b) <=> k = "kid" /\ i = 1 /\ b = id
    BY <1>10, <1>11, InnerOf
  <2>4. \A k, n, i, b : Inner(blocks, k, n, i, b) => n \in DOMAIN blocks
    BY DEF Inner
  <2> QED  BY <1>1, <1>10, <2>1, <2>2, <2>3, <2>4
<1>14. /\ blocks[id].kind = "TypeDef" /\ blocks[id + 1].kind = "string" /\ blocks[id + 3].kind = "Def"
       /\ \A b \in DOMAIN blocks : Sound(blocks[b])
  BY <1>10, <1>11, <1>12 DEF IsNew
<1>15. ASSUME NEW k, NEW n, NEW i, NEW b, Inner(blocks, k, n, i, b)
       PROVE  \/ /\ b \in DOMAIN blocks \ {id + 2, id + 3}
                 /\ k = "name" => blocks[b].kind = "string"
                 /\ k = "kid" => blocks[b].kind \notin {"Ast", "Symbol"}
              \/ k = "kid" /\ b = desc
  <2>1. RecordInner(k, n, i, b)
    BY <1>13, <1>15
  <2> QED  BY <1>1, <1>10, <1>14, <2>1
<1>16. ASSUME NEW b \in DOMAIN blocks, NEW k, NEW n, NEW i, NEW l, NEW m, NEW j,
              Inner(blocks, k, n, i, b), Inner(blocks, l, m, j, b)
       PROVE  k = l /\ n = m /\ i = j
  <2>1. RecordInner(k, n, i, b) /\ RecordInner(l, m, j, b) /\ b # desc
    BY <1>1, <1>10, <1>13, <1>16
  <2> QED  BY <1>1, <2>1
<1>17. \A b \in DOMAIN blocks \ {id + 2, id + 3} : \E k, n, i : Inner(blocks, k, n, i, b)
  <2>1. Inner(blocks, "name", id, 1, id + 1) /\ Inner(blocks, "kid", id + 3, 1, id)
    BY <1>13
  <2>2. DOMAIN blocks \ {id + 2, id + 3} = {id, id + 1}
    BY <1>1, <1>10
  <2> QED  BY <2>1, <2>2
<1>18. {id + 2, id + 3} \subseteq DOMAIN blocks
  BY <1>10
<1>19. Fresh(blocks, id, id + 4, {id + 2, id + 3}, desc)
  BY <1>10, <1>14, <1>15, <1>16, <1>17, <1>18, SMTT(30) DEF Fresh
<1>20. Inner(blocks, "kid", id, 1, desc)
  BY <1>13
<1> QED  BY <1>11, <1>14, <1>19, <1>20

(* The blocks of a global variable that is added to the AST.                *)
LEMMA FreshVariable ==
  ASSUME HeapInv, NEW blocks, blocks = VariableBlocks, NEW id, id = next
  PROVE  Fresh(blocks, id, id + 4, {id + 3}, NULL) /\ blocks[id + 3].kind = "Def"
<1>1. id \in Nat /\ id > 0
  BY DEF HeapInv, AST
<1>2. PICK f0, f1 : f0 = Node(id, "VarDef", << >>) /\ f1 = Node(id + 3, "Def", <<id>>)
  OBVIOUS
<1>3. blocks = Together({f0, f1})
  BY <1>2 DEF VariableBlocks
<1>4. /\ Shapes["VarDef"].names = 2 /\ Shapes["Def"].names = 0
      /\ {"VarDef", "Def"} \subseteq DOMAIN Shapes \ {"string", "buffer", "StrLiteral"}
  BY OtherKinds
<1>5. << >> \in Seq(Int) /\ <<id>> \in Seq(Int) /\ id \in Nat \ {0} /\ id + 3 \in Nat \ {0}
  BY <1>1
<1>6. /\ DOMAIN f0 = {id, id + 1, id + 2} /\ IsNew(f0[id], "VarDef", <<id + 1, id + 2>>, << >>)
      /\ f0[id + 1] = Leaf("string") /\ f0[id + 2] = Leaf("string")
  <2>1. Small(f0, id, "VarDef", << >>)
    BY <1>2, <1>4, <1>5, SmallNodes
  <2> QED  BY <1>4, <2>1 DEF Small
<1>7. DOMAIN f1 = {id + 3} /\ IsNew(f1[id + 3], "Def", << >>, <<id>>)
  <2>1. Small(f1, id + 3, "Def", <<id>>)
    BY <1>2, <1>4, <1>5, SmallNodes
  <2> QED  BY <1>4, <2>1 DEF Small
<1>8. /\ DOMAIN blocks = UNION {DOMAIN f : f \in {f0, f1}}
      /\ \A x \in DOMAIN blocks : \E f \in {f0, f1} : x \in DOMAIN f /\ blocks[x] = f[x]
  <2>1. PICK fs : fs = {f0, f1}
    OBVIOUS
  <2>2. /\ DOMAIN blocks = UNION {DOMAIN f : f \in fs}
        /\ \A x \in DOMAIN blocks : \E f \in fs : x \in DOMAIN f /\ blocks[x] = f[x]
    BY <1>3, <2>1, MergedAll
  <2> QED  BY <2>1, <2>2
<1>9. DOMAIN blocks = {id, id + 1, id + 2, id + 3} /\ DOMAIN blocks = id .. id + 4 - 1
  <2>1. id .. id + 4 - 1 = {id, id + 1, id + 2, id + 3}
    BY <1>1
  <2>2. DOMAIN blocks = {id, id + 1, id + 2, id + 3}
    BY <1>6, <1>7, <1>8
  <2> QED  BY <2>1, <2>2
<1>10. /\ IsNew(blocks[id], "VarDef", <<id + 1, id + 2>>, << >>)
       /\ blocks[id + 1] = Leaf("string") /\ blocks[id + 2] = Leaf("string")
       /\ IsNew(blocks[id + 3], "Def", << >>, <<id>>)
  <2>1. /\ \A x \in DOMAIN blocks : x \in {id, id + 1, id + 2} => blocks[x] = f0[x]
        /\ \A x \in DOMAIN blocks : x = id + 3 => blocks[x] = f1[x]
    BY <1>1, <1>6, <1>7, <1>8
  <2> QED  BY <1>6, <1>7, <1>9, <2>1
<1>11. IsNew(blocks[id + 1], "string", << >>, << >>) /\ IsNew(blocks[id + 2], "string", << >>, << >>)
  BY <1>10, SoundLeaf, OtherKinds DEF IsNew, Kinds, IsLeaf
<1> DEFINE VariableInner(k, n, i, b) ==
      \/ k = "name" /\ n = id /\ i = 1 /\ b = id + 1
      \/ k = "name" /\ n = id /\ i = 2 /\ b = id + 2
      \/ k = "kid" /\ n = id + 3 /\ i = 1 /\ b = id
<1>12. \A k, n, i, b : Inner(blocks, k, n, i, b) <=> VariableInner(k, n, i, b)
  <2>1. \A n \in {id + 1, id + 2} : \A k, i, b : ~Inner(blocks, k, n, i, b)
    BY <1>9, <1>11, InnerOf
  <2>2. \A k, i, b : Inner(blocks, k, id, i, b) <=>
          k = "name" /\ ((i = 1 /\ b = id + 1) \/ (i = 2 /\ b = id + 2))
    BY <1>9, <1>10, InnerOf
  <2>3. \A k, i, b : Inner(blocks, k, id + 3, i, b) <=> k = "kid" /\ i = 1 /\ b = id
    <3>1. id + 3 \in DOMAIN blocks /\ IsNew(blocks[id + 3], "Def", << >>, <<id>>)
      BY <1>9, <1>10
    <3> QED  BY <3>1, InnerOf
  <2>4. \A k, n, i, b : Inner(blocks, k, n, i, b) => n \in DOMAIN blocks
    BY DEF Inner
  <2> QED  BY <1>1, <1>9, <2>1, <2>2, <2>3, <2>4
<1>13. /\ blocks[id].kind = "VarDef" /\ blocks[id + 1].kind = "string" /\ blocks[id + 2].kind = "string"
       /\ blocks[id + 3].kind = "Def" /\ \A b \in DOMAIN blocks : Sound(blocks[b])
  BY <1>9, <1>10, <1>11 DEF IsNew
<1>14. ASSUME NEW k, NEW n, NEW i, NEW b, Inner(blocks, k, n, i, b)
       PROVE  /\ b \in DOMAIN blocks \ {id + 3}
              /\ k = "name" => blocks[b].kind = "string"
              /\ k = "kid" => blocks[b].kind \notin {"Ast", "Symbol"}
  <2>1. VariableInner(k, n, i, b)
    BY <1>12, <1>14
  <2> QED  BY <1>1, <1>9, <1>13, <2>1
<1>15. ASSUME NEW b \in DOMAIN blocks, NEW k, NEW n, NEW i, NEW l, NEW m, NEW j,
              Inner(blocks, k, n, i, b), Inner(blocks, l, m, j, b)
       PROVE  k = l /\ n = m /\ i = j
  <2>1. VariableInner(k, n, i, b) /\ VariableInner(l, m, j, b)
    BY <1>12, <1>15
  <2> QED  BY <1>1, <2>1
<1>16. \A b \in DOMAIN blocks \ {id + 3} : \E k, n, i : Inner(blocks, k, n, i, b)
  <2>1. VariableInner("name", id, 1, id + 1) /\ VariableInner("name", id, 2, id + 2)
        /\ VariableInner("kid", id + 3, 1, id)
    OBVIOUS
  <2> QED  BY <1>9, <1>12, <2>1
<1>17. {id + 3} \subseteq DOMAIN blocks
  BY <1>9
<1>18. Fresh(blocks, id, id + 4, {id + 3}, NULL)
  <2>1. \A b \in DOMAIN blocks : \A k, n, i, l, m, j :
          Inner(blocks, k, n, i, b) /\ Inner(blocks, l, m, j, b) => k = l /\ n = m /\ i = j
    BY <1>15
  <2>2. \A k, n, i, b : Inner(blocks, k, n, i, b) =>
          \/ /\ b \in DOMAIN blocks \ {id + 3}
             /\ k = "name" => blocks[b].kind = "string"
             /\ k = "kid" => blocks[b].kind \notin {"Ast", "Symbol"}
          \/ k = "kid" /\ b = NULL
    BY <1>14
  <2>3. PICK roots, upto, none : roots = {id + 3} /\ upto = id + 4 /\ none = NULL
    OBVIOUS
  <2>4. DOMAIN blocks = id .. upto - 1
    BY <1>9, <2>3
  <2>5. roots \subseteq DOMAIN blocks /\ \A b \in DOMAIN blocks \ roots : \E k, n, i : Inner(blocks, k, n, i, b)
    BY <1>16, <1>17, <2>3
  <2>6. Fresh(blocks, id, upto, roots, none)
    BY <1>13, <2>1, <2>2, <2>3, <2>4, <2>5 DEF Fresh
  <2> QED  BY <2>3, <2>6
<1> QED  BY <1>13, <1>18

-----------------------------------------------------------------------------
(* Calls that a step leaves to be done                                      *)

(* Calls for these blocks.                                                  *)
LEMMA CallsOf ==
  ASSUME NEW op \in {"free", "destroy"}, NEW blocks \in Seq(Int)
  PROVE  Call(op, blocks) \in Seq(CallSet)
<1>1. PICK n \in Nat : n = Len(blocks) /\ DOMAIN blocks = 1 .. n
  OBVIOUS
<1>2. Call(op, blocks) \in [1 .. n -> CallSet]
  BY <1>1 DEF Call, CallSet
<1> QED  BY <1>1, <1>2

\* Pending then are frees of rs, destructions of ds and frees of ss; their
\* places are those of the blocks, counted down from x, y and z.
CallsAre(rs, ds, ss, x, y, z) ==
  \A k, i, b : InCalls(k, i, b)' <=>
    /\ i \in Int
    /\ \/ k = "free" /\ x - i \in DOMAIN rs /\ b = rs[x - i]
       \/ k = "destroy" /\ y - i \in DOMAIN ds /\ b = ds[y - i]
       \/ k = "free" /\ z - i \in DOMAIN ss /\ b = ss[z - i]

(* That is so when they are joined.                                         *)
LEMMA CallsMade ==
  ASSUME NEW rs \in Seq(Int), NEW ds \in Seq(Int), NEW ss \in Seq(Int),
         calls' = (Frees(rs) \o Destroys(ds)) \o Frees(ss)
  PROVE  calls' \in Seq(CallSet) /\ \E x, y, z \in Int : CallsAre(rs, ds, ss, x, y, z)
<1>1. PICK as, bs, cs, new :
        as = Frees(rs) /\ bs = Destroys(ds) /\ cs = Frees(ss) /\ new = (as \o bs) \o cs
  OBVIOUS
<1>2. as \in Seq(CallSet) /\ bs \in Seq(CallSet) /\ cs \in Seq(CallSet)
  BY <1>1, CallsOf DEF Frees, Destroys
<1>3. new \in Seq(CallSet)
  BY <1>1, <1>2, ConcatProperties
<1>4. PICK m \in Nat : m = Len(new) /\ DOMAIN new = 1 .. m
  BY <1>3
<1>5. PICK u, v, w \in Int : Placed(new, as, bs, cs, u, v, w)
  <2>1. IsList(as) /\ IsList(bs) /\ IsList(cs)
    BY <1>2, SeqIsList
  <2>2. Mixes(new, as, bs, cs)
    BY <1>1, <2>1, ThreeMixed
  <2> QED  BY <2>2 DEF Mixes
<1>6. /\ DOMAIN as = DOMAIN rs /\ \A i \in DOMAIN rs : as[i] = [op |-> "free", block |-> rs[i]]
      /\ DOMAIN bs = DOMAIN ds /\ \A i \in DOMAIN ds : bs[i] = [op |-> "destroy", block |-> ds[i]]
      /\ DOMAIN cs = DOMAIN ss /\ \A i \in DOMAIN ss : cs[i] = [op |-> "free", block |-> ss[i]]
  BY <1>1 DEF Frees, Destroys, Call
<1>7. \A p \in DOMAIN new : new[p] = [op |-> new[p].op, block |-> new[p].block]
  <2>1. \A p \in DOMAIN new : new[p] \in CallSet
    BY <1>3
  <2>2. \A call \in CallSet : call = [op |-> call.op, block |-> call.block]
    BY DEF CallSet
  <2> QED  BY <2>1, <2>2
<1>8. PICK x, y, z : x = m + 1 - u /\ y = m + 1 - v /\ z = m + 1 - w
  OBVIOUS
<1>9. x \in Int /\ y \in Int /\ z \in Int
  BY <1>4, <1>8
<1>10. ASSUME NEW k, NEW i, NEW b
       PROVE  InCalls(k, i, b)' <=>
               /\ i \in Int
               /\ \/ k = "free" /\ x - i \in DOMAIN rs /\ b = rs[x - i]
                  \/ k = "destroy" /\ y - i \in DOMAIN ds /\ b = ds[y - i]
                  \/ k = "free" /\ z - i \in DOMAIN ss /\ b = ss[z - i]
  <2>1. InCalls(k, i, b)' <=> i \in 1 .. m /\ new[m + 1 - i].op = k /\ new[m + 1 - i].block = b
    BY <1>1, <1>4 DEF InCalls
  <2>2. CASE i \notin Int
    BY <2>1, <2>2
  <2>3. CASE i \in Int
    <3>1. PICK p : p = m + 1 - i
      OBVIOUS
    <3>2. p \in Int /\ (i \in 1 .. m <=> p \in 1 .. m)
      BY <1>4, <2>3, <3>1
    <3>3. p - u = x - i /\ p - v = y - i /\ p - w = z - i
      BY <1>4, <1>8, <2>3, <3>1
    <3>4. PICK call : call = [op |-> k, block |-> b]
      OBVIOUS
    <3>5. InCalls(k, i, b)' <=> p \in DOMAIN new /\ call = new[p]
      <4>1. InCalls(k, i, b)' <=> p \in DOMAIN new /\ new[p].op = k /\ new[p].block = b
        BY <1>4, <2>1, <3>1, <3>2
      <4> QED  BY <1>7, <3>4, <4>1
    <3>6. p \in DOMAIN new /\ call = new[p] <=>
            \/ p - u \in DOMAIN as /\ call = as[p - u]
            \/ p - v \in DOMAIN bs /\ call = bs[p - v]
            \/ p - w \in DOMAIN cs /\ call = cs[p - w]
      BY <1>5, <3>2 DEF Placed
    <3>7. /\ \A j : j \in DOMAIN as /\ call = as[j] <=> j \in DOMAIN rs /\ k = "free" /\ b = rs[j]
          /\ \A j : j \in DOMAIN bs /\ call = bs[j] <=> j \in DOMAIN ds /\ k = "destroy" /\ b = ds[j]
          /\ \A j : j \in DOMAIN cs /\ call = cs[j] <=> j \in DOMAIN ss /\ k = "free" /\ b = ss[j]
      <4>1. DOMAIN as = DOMAIN rs /\ DOMAIN bs = DOMAIN ds /\ DOMAIN cs = DOMAIN ss
        BY <1>6
      <4>2. ASSUME NEW j PROVE j \in DOMAIN as /\ call = as[j] <=> j \in DOMAIN rs /\ k = "free" /\ b = rs[j]
        <5>1. j \in DOMAIN rs => as[j] = [op |-> "free", block |-> rs[j]]
          BY <1>6
        <5>2. call = [op |-> "free", block |-> rs[j]] <=> k = "free" /\ b = rs[j]
          BY <3>4
        <5> QED  BY <4>1, <5>1, <5>2
      <4>3. ASSUME NEW j PROVE j \in DOMAIN bs /\ call = bs[j] <=> j \in DOMAIN ds /\ k = "destroy" /\ b = ds[j]
        <5>1. j \in DOMAIN ds => bs[j] = [op |-> "destroy", block |-> ds[j]]
          BY <1>6
        <5>2. call = [op |-> "destroy", block |-> ds[j]] <=> k = "destroy" /\ b = ds[j]
          BY <3>4
        <5> QED  BY <4>1, <5>1, <5>2
      <4>4. ASSUME NEW j PROVE j \in DOMAIN cs /\ call = cs[j] <=> j \in DOMAIN ss /\ k = "free" /\ b = ss[j]
        <5>1. j \in DOMAIN ss => cs[j] = [op |-> "free", block |-> ss[j]]
          BY <1>6
        <5>2. call = [op |-> "free", block |-> ss[j]] <=> k = "free" /\ b = ss[j]
          BY <3>4
        <5> QED  BY <4>1, <5>1, <5>2
      <4> QED  BY <4>2, <4>3, <4>4
    <3>8. p \in DOMAIN new /\ call = new[p] <=>
            \/ x - i \in DOMAIN as /\ call = as[x - i]
            \/ y - i \in DOMAIN bs /\ call = bs[y - i]
            \/ z - i \in DOMAIN cs /\ call = cs[z - i]
      BY <3>3, <3>6
    <3> QED  BY <2>3, <3>5, <3>7, <3>8
  <2> QED  BY <2>2, <2>3
<1>11. CallsAre(rs, ds, ss, x, y, z)
  BY <1>10 DEF CallsAre
<1> QED  BY <1>1, <1>3, <1>9, <1>11

(* During an analysis, what refers to the description of a record is a node.*)
LEMMA RecordKidsOnly ==
  ASSUME OwnInv, phase # "parse", calls = << >>, NEW b \in DOMAIN heap, heap[b].kind = "Record",
         NEW k, NEW n, NEW i, Refers(k, n, i, b)
  PROVE  k = "kid"
<1>1. Held(k, i, b) /\ ~NoBlock(k, i, b)
  BY DEF OwnInv, AllHeld, HeapInv, NoBlock, NULL, WILD, STATIC
<1>2. KindFits(k, i, heap[b])
  BY <1>1 DEF Held
<1>3. k # "stack"
  BY DEF OwnInv, PhaseInv, Refers, OnStack
<1>4. k \notin {"free", "destroy"}
  BY DEF Refers, InCalls
<1>5. k # "ast"
  <2> SUFFICES ASSUME k = "ast" PROVE FALSE
    OBVIOUS
  <2>1. i \in {1, 2, 3, 4}
    BY DEF Refers, InAst
  <2> QED  BY <1>2, <2>1 DEF KindFits
<1> QED  BY <1>2, <1>3, <1>4, <1>5 DEF KindFits, Refers

-----------------------------------------------------------------------------
(* A step that makes nodes                                                  *)

\* The new blocks are there and the others as they were.
Grows(blocks) ==
  /\ DOMAIN heap' = DOMAIN heap \cup DOMAIN blocks
  /\ \A b \in DOMAIN heap : heap'[b] = heap[b]
  /\ \A b \in DOMAIN blocks : heap'[b] = blocks[b]

\* A description is shared by a step: the only one, and live, if there is one.
Shares(desc) ==
  /\ shared \subseteq shared'
  /\ desc = NULL \/ (desc \in DOMAIN heap /\ heap[desc].kind = "Record" /\ desc \in shared')
  /\ \A b \in shared' : b \in shared \/ (b = desc /\ desc \in DOMAIN heap)

(* Blocks that are new are blocks.                                          *)
LEMMA LaterBlocks ==
  ASSUME NEW m \in Nat, m > 0, NEW n \in Nat
  PROVE  \A b \in m .. n - 1 : b \in 1 .. n - 1
OBVIOUS

(* References from new blocks lead where they may.                          *)
LEMMA FreshHeld ==
  ASSUME HeapInv, HeapInv', NEW blocks, NEW upto \in Nat, NEW roots, NEW desc,
         Fresh(blocks, next, upto, roots, desc), upto <= next',
         \A b \in DOMAIN blocks : b \in DOMAIN heap' /\ heap'[b] = blocks[b],
         \A b \in DOMAIN heap : b \in DOMAIN heap' /\ heap'[b].kind = heap[b].kind,
         Shares(desc), NEW k, NEW n, NEW i, NEW b, Inner(blocks, k, n, i, b)
  PROVE  Held(k, i, b)'
<1>1. /\ next \in Nat /\ next > 0 /\ next' \in Nat
      /\ \A x \in shared : x \in 1 .. next - 1
      /\ DOMAIN heap \subseteq 1 .. next - 1
      /\ DOMAIN heap' \subseteq 1 .. next' - 1
  BY DEF HeapInv, AST
<1>2. k \in {"name", "kid"}
  BY DEF Inner
<1>3. \/ /\ b \in DOMAIN blocks \ roots
         /\ k = "name" => blocks[b].kind = "string"
         /\ k = "kid" => blocks[b].kind \notin {"Ast", "Symbol"}
      \/ k = "kid" /\ b = desc
  BY DEF Fresh
<1>4. DOMAIN blocks = next .. upto - 1
  BY DEF Fresh
<1>5. CASE b \in DOMAIN blocks
  <2>1. b \notin shared'
    BY <1>1, <1>4, <1>5 DEF Shares
  <2>2. b \in DOMAIN heap' /\ heap'[b] = blocks[b] /\ b \in 1 .. next' - 1
    BY <1>1, <1>5
  <2>3. b # desc
    <3>1. desc = NULL \/ desc \in 1 .. next - 1
      BY <1>1 DEF Shares
    <3> QED  BY <1>1, <1>4, <1>5, <3>1 DEF NULL
  <2> QED  BY <1>2, <1>3, <2>1, <2>2, <2>3 DEF Held, KindFits
<1>6. CASE k = "kid" /\ b = desc
  <2>1. CASE desc = NULL
    BY <1>6, <2>1 DEF Held, NoBlock
  <2>2. CASE desc \in DOMAIN heap /\ heap[desc].kind = "Record"
    <3>1. b \in DOMAIN heap' /\ heap'[b].kind = "Record" /\ b \in 1 .. next' - 1
      BY <1>1, <1>6, <2>2
    <3> QED  BY <1>6, <3>1 DEF Held, KindFits
  <2> QED  BY <2>1, <2>2 DEF Shares
<1> QED  BY <1>3, <1>5, <1>6

(* References that stay lead where they did.                                *)
LEMMA OldHeld ==
  ASSUME OwnInv, HeapInv', phase # "parse", calls = << >>, next <= next',
         \A b \in DOMAIN heap : b \in DOMAIN heap' /\ heap'[b].kind = heap[b].kind,
         \A b \in DOMAIN heap' : b \in DOMAIN heap \/ b \in next .. next' - 1,
         \A b \in DOMAIN heap : b = ast.types => heap'[b] = heap[b],
         NEW desc, Shares(desc), "definition" \in faults => "definition" \in faults',
         NEW k, NEW n, NEW i, NEW b, Refers(k, n, i, b)
  PROVE  Held(k, i, b)'
<1>1. Held(k, i, b)
  BY DEF OwnInv, AllHeld
<1>2. next \in Nat /\ next > 0 /\ next' \in Nat /\ DOMAIN heap \subseteq 1 .. next - 1
  BY DEF OwnInv, HeapInv, AST
<1>3. k \notin {"kid", "free", "destroy"} => b \notin shared'
  <2> SUFFICES ASSUME k \notin {"kid", "free", "destroy"}, b \in shared' PROVE FALSE
    OBVIOUS
  <2>1. b \notin shared
    BY <1>1, Unshared DEF OwnInv
  <2>2. b \in DOMAIN heap /\ heap[b].kind = "Record"
    BY <1>2, <2>1 DEF Shares, NULL
  <2> QED  BY <2>2, RecordKidsOnly
<1>4. k # "free"
  BY DEF Refers, InCalls
<1>5. b \in DOMAIN heap => b \in DOMAIN heap' \/ Dangles(k, b)'
  OBVIOUS
<1>6. b \in DOMAIN heap' /\ b \in 1 .. next - 1 =>
        /\ b \in DOMAIN heap /\ heap'[b].kind = heap[b].kind
        /\ (k = "free" \/ (k = "ast" /\ i = 3)) /\ IsLeaf(heap[b]) => IsLeaf(heap'[b])
  <2> SUFFICES ASSUME b \in DOMAIN heap', b \in 1 .. next - 1
               PROVE  /\ b \in DOMAIN heap /\ heap'[b].kind = heap[b].kind
                      /\ (k = "free" \/ (k = "ast" /\ i = 3)) /\ IsLeaf(heap[b]) => IsLeaf(heap'[b])
    OBVIOUS
  <2>1. b \notin next .. next' - 1
    BY <1>2
  <2>2. b \in DOMAIN heap
    BY <2>1
  <2>3. k = "ast" /\ i = 3 => b = ast.types
    BY DEF Refers, InAst
  <2> QED  BY <1>4, <2>2, <2>3
<1>7. shared \subseteq shared'
  BY DEF Shares
<1> QED  BY <1>1, <1>2, <1>3, <1>5, <1>6, <1>7, HeldStays

(* The heap that grows is sound.                                            *)
LEMMA GrownHeap ==
  ASSUME HeapInv, NEW blocks, NEW roots, NEW desc, next' \in Nat, next <= next',
         Fresh(blocks, next, next', roots, desc), Grows(blocks), Shares(desc),
         DOMAIN leaked' \subseteq DOMAIN leaked \cup roots
  PROVE  /\ HeapInv'
         /\ \A k, n, i, b : InNode(k, n, i, b)' <=> InNode(k, n, i, b) \/ Inner(blocks, k, n, i, b)
<1>1. /\ next \in Nat /\ next > 0 /\ DOMAIN heap \subseteq 1 .. next - 1
      /\ \A x \in shared : x \in 1 .. next - 1
      /\ DOMAIN leaked \subseteq 1 .. next - 1
  BY DEF HeapInv, AST
<1>2. /\ DOMAIN blocks = next .. next' - 1 /\ roots \subseteq DOMAIN blocks
      /\ \A b \in DOMAIN blocks : Sound(blocks[b])
  BY DEF Fresh
<1>3. \A b \in DOMAIN heap : b \notin DOMAIN blocks
  BY <1>1, <1>2
<1>4. \A b \in DOMAIN blocks : b \notin shared'
  BY <1>1, <1>2 DEF Shares
<1>5. ASSUME NEW b \in DOMAIN heap'
      PROVE  /\ Sound(heap'[b])
             /\ \/ b \in next .. next' - 1 /\ b \notin shared'
                \/ b \in DOMAIN heap /\ heap'[b].kind = heap[b].kind
  BY <1>2, <1>4 DEF Grows, HeapInv
<1>6. \A b \in shared' : b \in shared \/ (b \in DOMAIN heap /\ heap[b].kind = "Record")
  BY <1>1 DEF Shares, NULL
<1>7. DOMAIN leaked' \subseteq 1 .. next' - 1
  <2>1. \A b \in 1 .. next - 1 : b \in 1 .. next' - 1
    BY <1>1, StillBlocks
  <2>2. \A b \in next .. next' - 1 : b \in 1 .. next' - 1
    BY <1>1, LaterBlocks
  <2> QED  BY <1>1, <1>2, <2>1, <2>2
<1>8. HeapInv'
  BY <1>5, <1>6, <1>7, HeapGrown
<1>9. \A k, n, i, b : InNode(k, n, i, b)' <=> InNode(k, n, i, b) \/ Inner(blocks, k, n, i, b)
  BY <1>3 DEF Grows, InNode, Inner
<1> QED  BY <1>8, <1>9

\* The roots of new blocks are lost, freed (rs) or destroyed (ds), each once;
\* the symbols are those of the scopes and one that is among the roots.
Released(blocks, roots, rs, ds, symbols) ==
  /\ \A i \in DOMAIN rs : rs[i] \in roots /\ IsLeaf(blocks[rs[i]])
  /\ \A i \in DOMAIN ds : ds[i] \in roots /\ blocks[ds[i]].kind \notin {"Ast", "Symbol"}
  /\ \A i, j \in DOMAIN rs : rs[i] = rs[j] => i = j
  /\ \A i, j \in DOMAIN ds : ds[i] = ds[j] => i = j
  /\ \A i \in DOMAIN rs, j \in DOMAIN ds : rs[i] # ds[j]
  /\ \A i \in DOMAIN scope : i \in DOMAIN symbols /\ symbols[i] = scope[i]
  /\ \A i \in DOMAIN symbols : i \in DOMAIN scope \/
       /\ symbols[i] \in roots /\ blocks[symbols[i]].kind = "Symbol" /\ "definition" \in faults'
  /\ \A b \in roots : \/ b \in DOMAIN leaked'
                      \/ \E i \in DOMAIN rs : b = rs[i]
                      \/ \E i \in DOMAIN ds : b = ds[i]

(* An analysis ends: Cleanup frees the symbols of the scopes, behind what   *)
(* is released before the THROW. What is made and not released is lost.     *)
LEMMA Cleans ==
  ASSUME OwnInv, phase = "analysis", calls = << >>, phase' = "ready", scope' = << >>,
         UNCHANGED <<stack, ast>>, next' \in Nat, next <= next',
         NEW blocks, NEW roots, NEW desc, Fresh(blocks, next, next', roots, desc),
         Grows(blocks), Shares(desc), "definition" \in faults => "definition" \in faults',
         NEW rs \in Seq(Int), NEW ds \in Seq(Int), NEW symbols \in Seq(Int),
         calls' = (Frees(rs) \o Destroys(ds)) \o Frees(symbols),
         Released(blocks, roots, rs, ds, symbols),
         DOMAIN leaked \subseteq DOMAIN leaked', DOMAIN leaked' \subseteq DOMAIN leaked \cup roots
  PROVE  OwnInv'
<1>0. /\ \A i \in DOMAIN rs : rs[i] \in roots /\ IsLeaf(blocks[rs[i]])
      /\ \A i \in DOMAIN ds : ds[i] \in roots /\ blocks[ds[i]].kind \notin {"Ast", "Symbol"}
      /\ \A i, j \in DOMAIN rs : rs[i] = rs[j] => i = j
      /\ \A i, j \in DOMAIN ds : ds[i] = ds[j] => i = j
      /\ \A i \in DOMAIN rs, j \in DOMAIN ds : rs[i] # ds[j]
      /\ \A i \in DOMAIN scope : i \in DOMAIN symbols /\ symbols[i] = scope[i]
      /\ \A i \in DOMAIN symbols : i \in DOMAIN scope \/
           /\ symbols[i] \in roots /\ blocks[symbols[i]].kind = "Symbol" /\ "definition" \in faults'
      /\ \A b \in roots : \/ b \in DOMAIN leaked'
                          \/ \E i \in DOMAIN rs : b = rs[i]
                          \/ \E i \in DOMAIN ds : b = ds[i]
  BY DEF Released
<1>1. /\ next \in Nat /\ next > 0 /\ DOMAIN heap \subseteq 1 .. next - 1
      /\ \A b \in DOMAIN heap : Sound(heap[b])
      /\ scope \in Seq(Int)
  BY DEF OwnInv, HeapInv, PhaseInv, AST
<1>2. /\ HeapInv'
      /\ \A k, n, i, b : InNode(k, n, i, b)' <=> InNode(k, n, i, b) \/ Inner(blocks, k, n, i, b)
  BY GrownHeap DEF OwnInv
<1>3. calls' \in Seq(CallSet) /\ \E x, y, z \in Int : CallsAre(rs, ds, symbols, x, y, z)
  BY CallsMade
<1>4. PhaseInv'
  BY <1>3 DEF OwnInv, PhaseInv
<1>5. PICK x, y, z \in Int : CallsAre(rs, ds, symbols, x, y, z)
  BY <1>3
<1>6. /\ DOMAIN blocks = next .. next' - 1 /\ roots \subseteq DOMAIN blocks
      /\ \A b \in DOMAIN blocks : Sound(blocks[b])
      /\ \A b \in DOMAIN blocks : b \notin DOMAIN heap /\ b \in DOMAIN heap' /\ heap'[b] = blocks[b]
      /\ \A b \in DOMAIN heap : b \in DOMAIN heap' /\ heap'[b] = heap[b]
      /\ \A b \in DOMAIN heap' : b \in DOMAIN heap \/ b \in DOMAIN blocks
  BY <1>1 DEF Fresh, Grows
<1>7. \A k, n, i, b : Refers(k, n, i, b)' <=>
        \/ k \notin {"scope", "free", "destroy"} /\ Refers(k, n, i, b)
        \/ Inner(blocks, k, n, i, b)
        \/ k \in {"free", "destroy"} /\ n = 0 /\ InCalls(k, i, b)'
  <2>1. \A i, b : InAst(i, b)' <=> InAst(i, b)
    BY DEF InAst
  <2>2. \A i, b : ~InScope(i, b)'
    BY DEF InScope
  <2>3. \A k, n, i, b : Inner(blocks, k, n, i, b) => k \in {"name", "kid"}
    BY DEF Inner
  <2> QED  BY <1>2, <2>1, <2>2, <2>3, StackStays DEF Refers
<1>8. \A k, i, b : ~InCalls(k, i, b)
  BY DEF InCalls
<1>9. ASSUME NEW i \in DOMAIN scope
      PROVE  Refers("scope", 0, i, scope[i])
  BY DEF Refers, InScope
\* What a call that is pending may be for
<1>10. ASSUME NEW k, NEW i, NEW b, InCalls(k, i, b)'
       PROVE  /\ i \in Int
              /\ \/ k = "free" /\ x - i \in DOMAIN rs /\ b = rs[x - i] /\ b \in roots
                 \/ k = "destroy" /\ y - i \in DOMAIN ds /\ b = ds[y - i] /\ b \in roots
                 \/ k = "free" /\ z - i \in DOMAIN scope /\ b = scope[z - i]
                 \/ k = "free" /\ b \in roots /\ blocks[b].kind = "Symbol" /\ "definition" \in faults'
  BY <1>0, <1>5, <1>10, SMTT(30) DEF CallsAre
<1>11. ASSUME NEW i, NEW b, i \in DOMAIN scope, b = scope[i]
       PROVE  b \in DOMAIN heap \/ b \notin DOMAIN heap'
  <2>1. Held("scope", i, b)
    BY <1>9, <1>11 DEF OwnInv, AllHeld
  <2>2. b \notin DOMAIN blocks
    BY <1>1, <1>6, <2>1 DEF Held, NoBlock, NULL, WILD, STATIC
  <2> QED  BY <1>6, <2>2
<1>12. ASSUME NEW k, NEW n, NEW i, NEW b, InCalls(k, i, b)' PROVE Held(k, i, b)'
  <2>1. ASSUME b \in roots PROVE b \in 1 .. next' - 1 /\ b \in DOMAIN heap' /\ heap'[b] = blocks[b]
    BY <1>1, <1>6, <2>1, LaterBlocks
  <2>2. CASE k = "free" /\ x - i \in DOMAIN rs /\ b = rs[x - i] /\ b \in roots
    BY <1>0, <2>1, <2>2 DEF Held, KindFits
  <2>3. CASE k = "destroy" /\ y - i \in DOMAIN ds /\ b = ds[y - i] /\ b \in roots
    BY <1>0, <2>1, <2>3 DEF Held, KindFits
  <2>4. CASE k = "free" /\ b \in roots /\ blocks[b].kind = "Symbol" /\ "definition" \in faults'
    BY <1>6, <2>1, <2>4 DEF Held, KindFits, Sound
  <2>5. CASE k = "free" /\ z - i \in DOMAIN scope /\ b = scope[z - i]
    <3>1. Held("scope", z - i, b)
      BY <1>9, <2>5 DEF OwnInv, AllHeld
    <3>2. CASE b = NULL
      BY <3>2 DEF Held, NoBlock
    <3>3. CASE b # NULL
      <4>1. /\ b \in DOMAIN heap \/ Dangles("scope", b)
            /\ b \in DOMAIN heap => heap[b].kind = "Symbol"
        BY <3>1, <3>3 DEF Held, NoBlock, KindFits
      <4>2. b \in 1 .. next' - 1
        BY <1>1, <3>1, <3>3, StillBlocks DEF Held, NoBlock
      <4>3. b \in DOMAIN heap' => KindFits(k, i, heap'[b])
        BY <1>1, <1>6, <1>11, <2>5, <4>1 DEF KindFits, Sound
      <4>4. b \in DOMAIN heap' \/ Dangles(k, b)'
        BY <1>6, <2>5, <4>1 DEF Dangles, Shares
      <4> QED  BY <2>5, <4>2, <4>3, <4>4 DEF Held
    <3> QED  BY <3>2, <3>3
  <2> QED  BY <1>10, <1>12, <2>2, <2>3, <2>4, <2>5
<1>13. ASSUME NEW k, NEW n, NEW i, NEW b, Refers(k, n, i, b)' PROVE Held(k, i, b)'
  <2>1. CASE Refers(k, n, i, b)
    <3>1. /\ \A c \in DOMAIN heap : c \in DOMAIN heap' /\ heap'[c].kind = heap[c].kind
          /\ \A c \in DOMAIN heap' : c \in DOMAIN heap \/ c \in next .. next' - 1
          /\ \A c \in DOMAIN heap : c = ast.types => heap'[c] = heap[c]
      BY <1>6
    <3> QED  BY <1>2, <2>1, <3>1, OldHeld
  <2>2. CASE Inner(blocks, k, n, i, b)
    <3>1. /\ \A c \in DOMAIN blocks : c \in DOMAIN heap' /\ heap'[c] = blocks[c]
          /\ \A c \in DOMAIN heap : c \in DOMAIN heap' /\ heap'[c].kind = heap[c].kind
      BY <1>6
    <3>2. PICK upto \in Nat : upto = next'
      OBVIOUS
    <3>3. Fresh(blocks, next, upto, roots, desc) /\ upto <= next'
      BY <3>2
    <3> QED  BY <1>2, <2>2, <3>1, <3>3, FreshHeld DEF OwnInv
  <2> QED  BY <1>7, <1>12, <1>13, <2>1, <2>2
<1>14. \A b \in Excused : b \in DOMAIN heap' => b \in Excused'
  BY <1>6 DEF Excused, Shares
<1>15. ASSUME NEW b, Owes(b)', NEW k, NEW n, NEW i, Comes(k, n, i, b)
       PROVE  \/ Inner(blocks, k, n, i, b) /\ b \in DOMAIN blocks \ roots
              \/ /\ n = 0 /\ i \in Int
                 /\ \/ k = "free" /\ x - i \in DOMAIN rs /\ b = rs[x - i] /\ b \in roots
                    \/ k = "destroy" /\ y - i \in DOMAIN ds /\ b = ds[y - i] /\ b \in roots
                    \/ k = "free" /\ z - i \in DOMAIN scope /\ b = scope[z - i] /\ b \in DOMAIN heap
  <2>1. b \in DOMAIN heap' /\ b \notin shared'
    BY <1>15 DEF Owes, Excused
  <2>2. CASE Inner(blocks, k, n, i, b)
    <3>1. b \in DOMAIN blocks \ roots \/ b = desc
      BY <2>2 DEF Fresh
    <3>2. b # desc
      <4>1. b # NULL
        BY <1>2, <2>1 DEF HeapInv, NULL
      <4> QED  BY <2>1, <4>1 DEF Shares
    <3> QED  BY <2>2, <3>1, <3>2
  <2>3. CASE n = 0 /\ InCalls(k, i, b)'
    <3>1. ~(b \in roots /\ blocks[b].kind = "Symbol" /\ "definition" \in faults')
      BY <1>6, <1>15 DEF Owes, Excused
    <3> QED  BY <1>10, <1>11, <2>1, <2>3, <3>1
  <2> QED  BY <1>7, <1>15, <2>2, <2>3 DEF Comes
<1>16. ASSUME NEW b, Owes(b)', NEW k, NEW n, NEW i, NEW l, NEW m, NEW j,
              Comes(k, n, i, b), Comes(l, m, j, b)
       PROVE  k = l /\ n = m /\ i = j
  <2>1. CASE b \in DOMAIN blocks \ roots
    <3>1. Inner(blocks, k, n, i, b) /\ Inner(blocks, l, m, j, b)
      BY <1>6, <1>15, <1>16, <2>1
    <3> QED  BY <2>1, <3>1 DEF Fresh
  <2>2. CASE b \in roots
    <3>1. b \notin DOMAIN heap
      BY <1>6, <2>2
    <3>2. /\ n = 0 /\ i \in Int
          /\ \/ k = "free" /\ x - i \in DOMAIN rs /\ b = rs[x - i]
             \/ k = "destroy" /\ y - i \in DOMAIN ds /\ b = ds[y - i]
      BY <1>15, <1>16, <2>2, <3>1
    <3>3. /\ m = 0 /\ j \in Int
          /\ \/ l = "free" /\ x - j \in DOMAIN rs /\ b = rs[x - j]
             \/ l = "destroy" /\ y - j \in DOMAIN ds /\ b = ds[y - j]
      BY <1>15, <1>16, <2>2, <3>1
    <3>4. CASE k = "free" /\ x - i \in DOMAIN rs /\ b = rs[x - i]
      <4>1. l = "free" /\ x - j \in DOMAIN rs /\ b = rs[x - j]
        BY <1>0, <3>3, <3>4
      <4>2. x - i = x - j
        BY <1>0, <3>4, <4>1
      <4> QED  BY <3>2, <3>3, <3>4, <4>1, <4>2
    <3>5. CASE k = "destroy" /\ y - i \in DOMAIN ds /\ b = ds[y - i]
      <4>1. l = "destroy" /\ y - j \in DOMAIN ds /\ b = ds[y - j]
        BY <1>0, <3>3, <3>5
      <4>2. y - i = y - j
        BY <1>0, <3>5, <4>1
      <4> QED  BY <3>2, <3>3, <3>5, <4>1, <4>2
    <3> QED  BY <3>2, <3>4, <3>5
  <2>3. CASE b \in DOMAIN heap
    <3>1. /\ k = "free" /\ n = 0 /\ i \in Int /\ z - i \in DOMAIN scope /\ b = scope[z - i]
          /\ l = "free" /\ m = 0 /\ j \in Int /\ z - j \in DOMAIN scope /\ b = scope[z - j]
      BY <1>6, <1>15, <1>16, <2>3
    <3>2. Refers("scope", 0, z - i, b) /\ Refers("scope", 0, z - j, b)
      BY <1>9, <3>1
    <3>3. b \notin Excused
      BY <1>14, <1>16, <2>3 DEF Owes
    <3>4. z - i = z - j
      BY <2>3, <3>2, <3>3 DEF OwnInv, Single
    <3> QED  BY <3>1, <3>4
  <2> QED  BY <1>6, <1>16, <2>1, <2>2, <2>3 DEF Owes
<1>17. ASSUME NEW b, Owes(b)', b \in DOMAIN heap, NEW k, NEW n, NEW i, Comes(k, n, i, b)
       PROVE  \E l, m, j : Goes(l, m, j, b)
  <2>1. z - i \in DOMAIN scope /\ b = scope[z - i]
    <3>1. b \notin DOMAIN blocks /\ b \notin roots
      BY <1>6, <1>17
    <3> QED  BY <1>15, <1>17, <3>1
  <2>2. Refers("scope", 0, z - i, b)
    BY <1>9, <2>1
  <2>3. ~Refers("scope", 0, z - i, b)'
    <3>1. ~Inner(blocks, "scope", 0, z - i, b)
      BY DEF Inner
    <3> QED  BY <1>7, <3>1
  <2> QED  BY <2>2, <2>3 DEF Goes
<1>18. ASSUME NEW k, NEW n, NEW i, NEW b, Goes(k, n, i, b)
       PROVE  \E l, m, j : Refers(l, m, j, b)'
  <2>1. k = "scope" /\ n = 0 /\ i \in DOMAIN scope /\ b = scope[i]
    BY <1>7, <1>8, <1>18 DEF Goes, Refers, InScope
  <2>2. i \in Int /\ i \in DOMAIN symbols /\ b = symbols[i]
    BY <1>0, <1>1, <2>1
  <2>3. z - i \in Int /\ z - (z - i) = i
    BY <2>2
  <2>4. InCalls("free", z - i, b)'
    BY <1>5, <2>2, <2>3 DEF CallsAre
  <2> QED  BY <1>7, <2>4
<1>19. ASSUME NEW b \in DOMAIN blocks, b \notin DOMAIN leaked'
       PROVE  \E l, m, j : Refers(l, m, j, b)'
  <2>1. CASE b \notin roots
    <3>1. PICK k, n, i : Inner(blocks, k, n, i, b)
      BY <2>1 DEF Fresh
    <3> QED  BY <1>7, <3>1
  <2>2. ASSUME NEW i \in DOMAIN rs, b = rs[i] PROVE \E l, m, j : Refers(l, m, j, b)'
    <3>1. i \in Int /\ x - i \in Int /\ x - (x - i) = i
      OBVIOUS
    <3>2. InCalls("free", x - i, b)'
      BY <1>5, <2>2, <3>1 DEF CallsAre
    <3> QED  BY <1>7, <3>2
  <2>3. ASSUME NEW i \in DOMAIN ds, b = ds[i] PROVE \E l, m, j : Refers(l, m, j, b)'
    <3>1. i \in Int /\ y - i \in Int /\ y - (y - i) = i
      OBVIOUS
    <3>2. InCalls("destroy", y - i, b)'
      BY <1>5, <2>3, <3>1 DEF CallsAre
    <3> QED  BY <1>7, <3>2
  <2> QED  BY <1>0, <1>19, <2>1, <2>2, <2>3
<1>20. Transfers
  <2>1. DOMAIN heap' \subseteq DOMAIN heap \cup (next .. next' - 1)
    BY <1>6
  <2>2. \A b \in DOMAIN heap' \ (DOMAIN heap \cup DOMAIN leaked') : \E l, m, j : Refers(l, m, j, b)'
    BY <1>6, <1>19
  <2> QED  BY <1>13, <1>14, <1>16, <1>17, <1>18, <2>1, <2>2 DEF Transfers
<1> QED  BY <1>2, <1>4, <1>20, Transferred

(* Blocks that are laid over the heap make it grow.                         *)
LEMMA OverGrows ==
  ASSUME HeapInv, NEW blocks, NEW upto, NEW roots, NEW desc, Fresh(blocks, next, upto, roots, desc),
         heap' = Overlay(blocks, heap)
  PROVE  Grows(blocks)
<1>1. DOMAIN blocks = next .. upto - 1 /\ DOMAIN heap \subseteq 1 .. next - 1 /\ next \in Nat
  BY DEF Fresh, HeapInv
<1>2. \A b \in DOMAIN heap : b \notin DOMAIN blocks
  BY <1>1
<1> QED  BY <1>2 DEF Grows, Overlay

(* No calls.                                                                *)
LEMMA NoCalls == Frees(<< >>) \o Destroys(<< >>) = << >>
<1>1. PICK none : none = << >>
  OBVIOUS
<1>2. none \in Seq(Int) /\ Len(none) = 0 /\ DOMAIN none = {}
  BY <1>1
<1>3. \A op : Call(op, none) = << >>
  BY <1>2 DEF Call
<1>4. Frees(none) = << >> /\ Destroys(none) = << >>
  BY <1>3 DEF Frees, Destroys
<1>5. IsList(none)
  BY <1>2, SeqIsList
<1> QED  BY <1>1, <1>4, <1>5, JoinedToNothing

(* An analysis ends, or a THROW ends it, with nothing made.                 *)
LEMMA CleansOnly ==
  ASSUME OwnInv, phase = "analysis", calls = << >>, Cleanup(scope, << >>),
         UNCHANGED <<heap, next, stack, ast, leaked, shared>>,
         "definition" \in faults => "definition" \in faults'
  PROVE  OwnInv'
<1>1. PICK none : none = << >>
  OBVIOUS
<1>2. none \in Seq(Int) /\ DOMAIN none = {} /\ next \in Nat /\ scope \in Seq(Int)
  BY <1>1 DEF OwnInv, HeapInv, PhaseInv
<1>3. phase' = "ready" /\ scope' = << >> /\ calls' = (Frees(none) \o Destroys(none)) \o Frees(scope)
  BY <1>1, NoCalls DEF Cleanup
<1>4. PICK roots, desc : roots = {} /\ desc = NULL
  OBVIOUS
<1>5. next' \in Nat /\ next <= next' /\ next .. next' - 1 = {}
  BY <1>2
<1>6. Fresh(none, next, next', roots, desc)
  BY <1>2, <1>4, <1>5 DEF Fresh, Inner
<1>7. Grows(none)
  BY <1>2 DEF Grows
<1>8. Shares(desc)
  BY <1>4 DEF Shares
<1>9. Released(none, roots, none, none, scope)
  BY <1>2, <1>4 DEF Released
<1>10. UNCHANGED <<stack, ast>> /\ DOMAIN leaked \subseteq DOMAIN leaked'
       /\ DOMAIN leaked' \subseteq DOMAIN leaked \cup roots
  OBVIOUS
<1> QED  BY <1>2, <1>3, <1>5, <1>6, <1>7, <1>8, <1>9, <1>10, Cleans

(* EndAnalysis: at the end.                                                 *)
LEMMA Ends == ASSUME OwnInv, EndAnalysis PROVE OwnInv'
<1>1. /\ phase = "analysis" /\ calls = << >> /\ Cleanup(scope, << >>)
      /\ UNCHANGED <<heap, next, stack, ast, leaked, shared, faults>>
  BY DEF EndAnalysis, Analyses, Running, parser, memory, history
<1> QED  BY <1>1, CleansOnly

(* RecordThrows: after a THROW for the definition of a record.              *)
LEMMA RecordEnds == ASSUME OwnInv, RecordThrows PROVE OwnInv'
<1>1. /\ phase = "analysis" /\ calls = << >> /\ Cleanup(scope, << >>)
      /\ UNCHANGED <<heap, next, stack, ast, leaked, shared>>
      /\ "definition" \in faults => "definition" \in faults'
  BY DEF RecordThrows, Analyses, Running, Fails, parser, memory
<1> QED  BY <1>1, CleansOnly

(* ArrayThrows: after a THROW for an array type, whose name may be lost.    *)
LEMMA ArrayEnds == ASSUME OwnInv, ArrayThrows PROVE OwnInv'
<1>1. PICK id : id = next
  OBVIOUS
<1>2. /\ phase = "analysis" /\ calls = << >> /\ Cleanup(scope, << >>)
      /\ UNCHANGED <<stack, ast, shared>>
      /\ "definition" \in faults => "definition" \in faults'
      /\ \/ UNCHANGED <<heap, next, leaked>>
         \/ /\ heap' = Overlay(At(id, Leaf("string")), heap) /\ next' = id + 1
            /\ leaked' = Overlay([b \in {id} \ {NULL, WILD} |-> "type name"], leaked)
  BY <1>1 DEF ArrayThrows, Analyses, Running, Fails, Drop, parser, memory
<1>3. CASE UNCHANGED <<heap, next, leaked>>
  BY <1>2, <1>3, CleansOnly
<1>4. CASE /\ heap' = Overlay(At(id, Leaf("string")), heap) /\ next' = id + 1
           /\ leaked' = Overlay([b \in {id} \ {NULL, WILD} |-> "type name"], leaked)
  <2>1. id \in Nat /\ id > 0 /\ scope \in Seq(Int) /\ HeapInv
    BY <1>1 DEF OwnInv, HeapInv, PhaseInv, AST
  <2>2. PICK none, blocks, roots, desc :
          none = << >> /\ blocks = At(id, Leaf("string")) /\ roots = {id} /\ desc = NULL
    OBVIOUS
  <2>3. none \in Seq(Int) /\ DOMAIN none = {}
    BY <2>2
  <2>4. phase' = "ready" /\ scope' = << >> /\ calls' = (Frees(none) \o Destroys(none)) \o Frees(scope)
    BY <1>2, <2>2, NoCalls DEF Cleanup
  <2>5. DOMAIN blocks = {id} /\ blocks[id] = Leaf("string")
    BY <2>2 DEF At
  <2>6. Fresh(blocks, id, id + 1, roots, desc)
    <3>1. id .. (id + 1) - 1 = {id}
      BY <2>1
    <3>2. Sound(blocks[id]) /\ blocks[id].names = << >> /\ blocks[id].kids = << >>
      BY <2>5, SoundLeaf, OtherKinds DEF Kinds, IsLeaf
    <3>3. \A k, n, i, b : ~Inner(blocks, k, n, i, b)
      BY <2>5, <3>2 DEF Inner
    <3> QED  BY <2>2, <2>5, <3>1, <3>2, <3>3 DEF Fresh
  <2>7. Fresh(blocks, next, next', roots, desc)
    BY <1>1, <1>4, <2>6
  <2>8. Grows(blocks)
    BY <1>4, <2>1, <2>2, <2>7, OverGrows
  <2>9. Shares(desc)
    BY <1>2, <2>2 DEF Shares
  <2>10. next' \in Nat /\ next <= next'
    <3>1. next' = id + 1 /\ next = id
      BY <1>1, <1>4
    <3> QED  BY <2>1, <3>1
  <2>11. DOMAIN leaked' = {id} \cup DOMAIN leaked
    <3>1. {id} \ {NULL, WILD} = {id}
      BY <2>1 DEF NULL, WILD
    <3> QED  BY <1>4, <3>1 DEF Overlay
  <2>12. Released(blocks, roots, none, none, scope)
    BY <2>2, <2>3, <2>11 DEF Released
  <2>13. UNCHANGED <<stack, ast>> /\ DOMAIN leaked \subseteq DOMAIN leaked'
         /\ DOMAIN leaked' \subseteq DOMAIN leaked \cup roots
    BY <1>2, <2>2, <2>11
  <2> QED  BY <1>2, <2>1, <2>3, <2>4, <2>7, <2>8, <2>9, <2>10, <2>12, <2>13, Cleans
<1> QED  BY <1>2, <1>3, <1>4

(* ArrayNotPushed: the definition of the array type cannot be pushed.       *)
LEMMA ArrayLost == ASSUME OwnInv, ArrayNotPushed PROVE OwnInv'
<1>1. PICK id, blocks, roots, desc, symbols :
        /\ id = next /\ blocks = ArrayBlocks /\ roots = {id, id + 6, id + 7} /\ desc = NULL
        /\ symbols = Append(scope, id + 6)
  OBVIOUS
<1>2. PICK rs, ds : rs = <<id + 6, id>> /\ ds = <<id + 7>>
  OBVIOUS
<1>3. /\ phase = "analysis" /\ calls = << >>
      /\ heap' = Overlay(blocks, heap) /\ next' = id + 8
      /\ phase' = "ready" /\ scope' = << >> /\ calls' = (Frees(rs) \o Destroys(ds)) \o Frees(symbols)
      /\ UNCHANGED <<stack, ast, leaked, shared>> /\ "definition" \in faults'
  BY <1>1, <1>2 DEF ArrayNotPushed, Analyses, Running, Fails, Cleanup, parser
<1>4. id \in Nat /\ scope \in Seq(Int) /\ HeapInv
  BY <1>1 DEF OwnInv, HeapInv, PhaseInv
<1>5. /\ Fresh(blocks, id, id + 8, {id, id + 6, id + 7}, NULL)
      /\ blocks[id] = Leaf("string") /\ blocks[id + 6] = Leaf("Symbol")
      /\ blocks[id + 7].kind = "Def"
  BY <1>1, <1>4, FreshArray
<1>6. Fresh(blocks, next, next', roots, desc) /\ next' \in Nat /\ next <= next'
  BY <1>1, <1>3, <1>4, <1>5
<1>7. Grows(blocks)
  BY <1>3, <1>4, <1>6, OverGrows
<1>8. Shares(desc)
  BY <1>1, <1>3 DEF Shares
<1>9. /\ rs \in Seq(Int) /\ DOMAIN rs = {1, 2} /\ rs[1] = id + 6 /\ rs[2] = id
      /\ ds \in Seq(Int) /\ DOMAIN ds = {1} /\ ds[1] = id + 7
  BY <1>2, <1>4
<1>10. /\ symbols \in Seq(Int)
       /\ \A i \in DOMAIN scope : i \in DOMAIN symbols /\ symbols[i] = scope[i]
       /\ \A i \in DOMAIN symbols : i \in DOMAIN scope \/ symbols[i] = id + 6
  <2>1. /\ Len(scope) \in Nat /\ DOMAIN scope = 1 .. Len(scope)
        /\ DOMAIN symbols = 1 .. Len(scope) + 1
        /\ \A i \in 1 .. Len(scope) : symbols[i] = scope[i]
        /\ symbols[Len(scope) + 1] = id + 6
    BY <1>1, <1>4, AppendedTo
  <2>2. symbols \in Seq(Int)
    BY <1>1, <1>4
  <2> QED  BY <2>1, <2>2
<1>11. /\ IsLeaf(blocks[id]) /\ IsLeaf(blocks[id + 6])
       /\ blocks[id + 6].kind = "Symbol"
  BY <1>5, SoundLeaf, OtherKinds DEF Kinds
<1>12. /\ \A i \in DOMAIN rs : rs[i] \in roots /\ IsLeaf(blocks[rs[i]])
       /\ \A i \in DOMAIN ds : ds[i] \in roots /\ blocks[ds[i]].kind \notin {"Ast", "Symbol"}
       /\ \A i, j \in DOMAIN rs : rs[i] = rs[j] => i = j
       /\ \A i, j \in DOMAIN ds : ds[i] = ds[j] => i = j
       /\ \A i \in DOMAIN rs, j \in DOMAIN ds : rs[i] # ds[j]
  BY <1>1, <1>4, <1>5, <1>9, <1>11
<1>13. /\ \A i \in DOMAIN symbols : i \in DOMAIN scope \/
            /\ symbols[i] \in roots /\ blocks[symbols[i]].kind = "Symbol" /\ "definition" \in faults'
       /\ \A b \in roots : \/ b \in DOMAIN leaked'
                           \/ \E i \in DOMAIN rs : b = rs[i]
                           \/ \E i \in DOMAIN ds : b = ds[i]
  BY <1>1, <1>3, <1>9, <1>10, <1>11
<1>14. Released(blocks, roots, rs, ds, symbols)
  BY <1>10, <1>12, <1>13 DEF Released
<1>15. /\ UNCHANGED <<stack, ast>> /\ DOMAIN leaked \subseteq DOMAIN leaked'
       /\ DOMAIN leaked' \subseteq DOMAIN leaked \cup roots
       /\ "definition" \in faults => "definition" \in faults'
  BY <1>3
<1>16. rs \in Seq(Int) /\ ds \in Seq(Int) /\ symbols \in Seq(Int)
  BY <1>9, <1>10
<1> QED  BY <1>3, <1>6, <1>7, <1>8, <1>14, <1>15, <1>16, Cleans

(* RecordNotPushed: the definition of the record cannot be pushed.          *)
LEMMA RecordLost == ASSUME OwnInv, RecordNotPushed PROVE OwnInv'
<1>1. PICK desc \in ElementRecords \ made.records :
        /\ heap' = Overlay(RecordBlocks(desc), heap) /\ next' = next + 4
        /\ Cleanup(Append(scope, next + 2), Frees(<<next + 2>>) \o Destroys(<<next + 3>>))
        /\ shared' = shared \cup {desc}
  BY DEF RecordNotPushed
<1>2. PICK id, blocks, roots, symbols :
        /\ id = next /\ blocks = RecordBlocks(desc) /\ roots = {id + 2, id + 3}
        /\ symbols = Append(scope, id + 2)
  OBVIOUS
<1>3. PICK rs, ds : rs = <<id + 2>> /\ ds = <<id + 3>>
  OBVIOUS
<1>4. /\ phase = "analysis" /\ calls = << >>
      /\ heap' = Overlay(blocks, heap) /\ next' = id + 4
      /\ phase' = "ready" /\ scope' = << >> /\ calls' = (Frees(rs) \o Destroys(ds)) \o Frees(symbols)
      /\ UNCHANGED <<stack, ast, leaked>> /\ "definition" \in faults'
  BY <1>1, <1>2, <1>3 DEF RecordNotPushed, Analyses, Running, Fails, Cleanup, parser
<1>5. /\ id \in Nat /\ scope \in Seq(Int) /\ HeapInv
      /\ desc \in DOMAIN heap /\ heap[desc].kind = "Record"
  BY <1>2 DEF OwnInv, HeapInv, PhaseInv, ElementRecords
<1>6. /\ Fresh(blocks, id, id + 4, {id + 2, id + 3}, desc)
      /\ blocks[id + 2] = Leaf("Symbol") /\ blocks[id + 3].kind = "Def"
  BY <1>2, <1>5, FreshRecord
<1>7. Fresh(blocks, next, next', roots, desc) /\ next' \in Nat /\ next <= next'
  BY <1>2, <1>4, <1>5, <1>6
<1>8. Grows(blocks)
  BY <1>4, <1>5, <1>7, OverGrows
<1>9. Shares(desc)
  BY <1>1, <1>5 DEF Shares
<1>10. /\ rs \in Seq(Int) /\ DOMAIN rs = {1} /\ rs[1] = id + 2
       /\ ds \in Seq(Int) /\ DOMAIN ds = {1} /\ ds[1] = id + 3
  BY <1>3, <1>5
<1>11. /\ symbols \in Seq(Int)
       /\ \A i \in DOMAIN scope : i \in DOMAIN symbols /\ symbols[i] = scope[i]
       /\ \A i \in DOMAIN symbols : i \in DOMAIN scope \/ symbols[i] = id + 2
  <2>1. /\ Len(scope) \in Nat /\ DOMAIN scope = 1 .. Len(scope)
        /\ DOMAIN symbols = 1 .. Len(scope) + 1
        /\ \A i \in 1 .. Len(scope) : symbols[i] = scope[i]
        /\ symbols[Len(scope) + 1] = id + 2
    BY <1>2, <1>5, AppendedTo
  <2>2. symbols \in Seq(Int)
    BY <1>2, <1>5
  <2> QED  BY <2>1, <2>2
<1>12. IsLeaf(blocks[id + 2]) /\ blocks[id + 2].kind = "Symbol"
  BY <1>6, SoundLeaf DEF Kinds
<1>13. /\ \A i \in DOMAIN rs : rs[i] \in roots /\ IsLeaf(blocks[rs[i]])
       /\ \A i \in DOMAIN ds : ds[i] \in roots /\ blocks[ds[i]].kind \notin {"Ast", "Symbol"}
       /\ \A i, j \in DOMAIN rs : rs[i] = rs[j] => i = j
       /\ \A i, j \in DOMAIN ds : ds[i] = ds[j] => i = j
       /\ \A i \in DOMAIN rs, j \in DOMAIN ds : rs[i] # ds[j]
  BY <1>2, <1>5, <1>6, <1>10, <1>12
<1>14. /\ \A i \in DOMAIN symbols : i \in DOMAIN scope \/
            /\ symbols[i] \in roots /\ blocks[symbols[i]].kind = "Symbol" /\ "definition" \in faults'
       /\ \A b \in roots : \/ b \in DOMAIN leaked'
                           \/ \E i \in DOMAIN rs : b = rs[i]
                           \/ \E i \in DOMAIN ds : b = ds[i]
  BY <1>2, <1>4, <1>10, <1>11, <1>12
<1>15. Released(blocks, roots, rs, ds, symbols)
  BY <1>11, <1>13, <1>14 DEF Released
<1>16. /\ UNCHANGED <<stack, ast>> /\ DOMAIN leaked \subseteq DOMAIN leaked'
       /\ DOMAIN leaked' \subseteq DOMAIN leaked \cup roots
       /\ "definition" \in faults => "definition" \in faults'
  BY <1>4
<1>17. rs \in Seq(Int) /\ ds \in Seq(Int) /\ symbols \in Seq(Int)
  BY <1>10, <1>11
<1> QED  BY <1>4, <1>7, <1>8, <1>9, <1>15, <1>16, <1>17, Cleans

\* The roots of new blocks: the definition, the symbol that goes to the scope if
\* there is one, and what is lost.
Defined(blocks, roots, def, sym) ==
  /\ def \in roots /\ blocks[def].kind \notin {"Ast", "Symbol"}
  /\ \/ scope' = scope
     \/ scope' = Append(scope, sym) /\ sym \in roots \ {def} /\ blocks[sym].kind = "Symbol"
  /\ \A b \in roots : b = def \/ b \in DOMAIN leaked' \/ (b = sym /\ scope' = Append(scope, sym))

(* The vectors of an AST that is not destroyed.                             *)
LEMMA AstVectors ==
  ASSUME OwnInv
  PROVE  /\ ast.defs = NULL \/ (ast.defs \in DOMAIN heap /\ heap[ast.defs].kind = "buffer")
         /\ ast.defs \in DOMAIN heap => ast.types # ast.defs /\ ast.defs \notin shared
<1>1. Refers("ast", 0, 2, ast.defs) /\ Refers("ast", 0, 3, ast.types)
  BY DEF Refers, InAst
<1>2. Held("ast", 2, ast.defs)
  BY <1>1 DEF OwnInv, AllHeld
<1>3. ast.defs = NULL \/ (ast.defs \in DOMAIN heap /\ heap[ast.defs].kind = "buffer")
  BY <1>2 DEF Held, NoBlock, Dangles, KindFits
<1>4. ASSUME ast.defs \in DOMAIN heap PROVE ast.types # ast.defs /\ ast.defs \notin shared
  <2>1. heap[ast.defs].kind = "buffer"
    BY <1>3, <1>4 DEF OwnInv, HeapInv, NULL
  <2>2. ast.defs \notin Excused /\ ast.defs \notin shared
    BY <1>4, <2>1 DEF Excused, OwnInv, HeapInv
  <2>3. ast.types # ast.defs
    BY <1>1, <1>4, <2>2 DEF OwnInv, Single
  <2> QED  BY <2>2, <2>3
<1> QED  BY <1>3, <1>4

(* A definition is made and pushed to those of the AST.                     *)
LEMMA Defines ==
  ASSUME OwnInv, phase \in {"analysis", "ready"}, calls = << >>,
         UNCHANGED <<stack, calls, phase, faults>>,
         NEW fresh \in Nat, next' = fresh + 1, next <= fresh,
         NEW blocks, NEW roots, NEW desc, Fresh(blocks, next, fresh, roots, desc), Shares(desc),
         NEW def, NEW sym, Defined(blocks, roots, def, sym),
         heap' = Pushed(Overlay(blocks, heap), ast.defs, def, fresh),
         ast' = [ast EXCEPT !.defs = BufferOf(ast.defs, fresh)],
         DOMAIN leaked \subseteq DOMAIN leaked', DOMAIN leaked' \subseteq DOMAIN leaked \cup roots
  PROVE  OwnInv'
<1>0. PICK put \in BOOLEAN : put <=> scope' # scope
  OBVIOUS
<1>1. PICK id, h, p, es :
        /\ id = next /\ h = Overlay(blocks, heap)
        /\ p = BufferOf(ast.defs, fresh) /\ es = Elements(ast.defs)
  OBVIOUS
<1>2. /\ id \in Nat /\ id > 0 /\ id <= fresh /\ DOMAIN heap \subseteq 1 .. id - 1
      /\ \A b \in DOMAIN heap : Sound(heap[b])
      /\ \A b \in shared : b \in 1 .. id - 1 /\ (b \in DOMAIN heap => heap[b].kind = "Record")
      /\ DOMAIN leaked \subseteq 1 .. id - 1
      /\ scope \in Seq(Int)
      /\ ast = [name |-> ast.name, defs |-> ast.defs, types |-> ast.types]
  BY <1>1 DEF OwnInv, HeapInv, PhaseInv, AST
<1>3. /\ DOMAIN blocks = id .. fresh - 1 /\ roots \subseteq DOMAIN blocks
      /\ \A b \in DOMAIN blocks : Sound(blocks[b])
  BY <1>1 DEF Fresh
<1>4. /\ \A b \in DOMAIN heap : b \notin DOMAIN blocks
      /\ fresh \notin DOMAIN blocks /\ fresh \notin DOMAIN heap /\ fresh # NULL
  BY <1>2, <1>3 DEF NULL
<1>5. /\ DOMAIN h = DOMAIN heap \cup DOMAIN blocks
      /\ \A b \in DOMAIN heap : h[b] = heap[b]
      /\ \A b \in DOMAIN blocks : h[b] = blocks[b]
  BY <1>1, <1>4 DEF Overlay
<1>6. /\ def \in roots /\ blocks[def].kind \notin {"Ast", "Symbol"} /\ def \in Int
      /\ def \in DOMAIN blocks
  BY <1>2, <1>3 DEF Defined
<1>7. /\ ast.defs = NULL => p = fresh
      /\ ast.defs # NULL => p = ast.defs /\ p \in DOMAIN heap /\ heap[p].kind = "buffer" /\ p \notin shared
      /\ p \in DOMAIN heap => p = ast.defs /\ ast.types # p
      /\ p \notin DOMAIN heap => p = fresh /\ ast.defs = NULL
  BY <1>1, <1>4, AstVectors DEF BufferOf
<1>8. HeapPushed(h, p, es, def)
  <2>1. HeapInv /\ (ast.defs = NULL \/ (ast.defs \in DOMAIN heap /\ heap[ast.defs].kind = "buffer"))
    BY AstVectors DEF OwnInv
  <2>2. heap' = Pushed(h, ast.defs, def, fresh)
    BY <1>1
  <2>3. \A b \in DOMAIN heap : b \in DOMAIN h /\ h[b] = heap[b]
    BY <1>5
  <2>4. fresh \notin DOMAIN h
    BY <1>4, <1>5
  <2>5. PICK defs : defs = ast.defs
    OBVIOUS
  <2>6. /\ defs = NULL \/ (defs \in DOMAIN heap /\ heap[defs].kind = "buffer")
        /\ p = BufferOf(defs, fresh) /\ es = Elements(defs)
        /\ heap' = Pushed(h, defs, def, fresh)
    BY <1>1, <2>1, <2>2, <2>5
  <2> QED  BY <1>6, <2>1, <2>3, <2>4, <2>6, PushedNodes
<1>9. /\ DOMAIN heap' = DOMAIN h \cup {p} /\ heap'[p].kind = "buffer" /\ Sound(heap'[p])
      /\ \A b \in DOMAIN h : b # p => heap'[b] = h[b]
  BY <1>8 DEF HeapPushed
<1>10. PICK place : place = Len(es) + 1
  OBVIOUS
<1>11. \A k, n, i, b : InNode(k, n, i, b)' <=>
         \/ InNode(k, n, i, b)
         \/ n = p /\ k = "kid" /\ i = place /\ b = def
         \/ Inner(blocks, k, n, i, b)
  <2>1. \A k, n, i, b : InNode(k, n, i, b)' <=>
       \/ InNode(k, n, i, b)
       \/ n = p /\ k = "kid" /\ i = place /\ b = def
       \/ /\ n \in DOMAIN h \ DOMAIN heap
          /\ \/ k = "name" /\ i \in DOMAIN h[n].names /\ b = h[n].names[i]
             \/ k = "kid" /\ i \in DOMAIN h[n].kids /\ b = h[n].kids[i]
    BY <1>8, <1>10 DEF HeapPushed
  <2>2. DOMAIN h \ DOMAIN heap = DOMAIN blocks
    BY <1>4, <1>5
  <2>3. \A n \in DOMAIN blocks : h[n] = blocks[n]
    BY <1>5
  <2> QED  BY <2>1, <2>2, <2>3 DEF Inner
<1>12. /\ \A b \in DOMAIN blocks : b \in DOMAIN heap' /\ heap'[b] = blocks[b]
       /\ \A b \in DOMAIN heap : b \in DOMAIN heap' /\ heap'[b].kind = heap[b].kind
       /\ \A b \in DOMAIN heap : b # p => heap'[b] = heap[b]
       /\ \A b \in DOMAIN heap' : b \in DOMAIN heap \/ b \in DOMAIN blocks \/ b = fresh
       /\ p \in DOMAIN heap'
  <2>1. \A b \in DOMAIN blocks : b \in DOMAIN heap' /\ heap'[b] = blocks[b]
    <3>1. p \notin DOMAIN blocks
      BY <1>4, <1>7
    <3> QED  BY <1>5, <1>9, <3>1
  <2>2. \A b \in DOMAIN heap : b \in DOMAIN heap' /\ heap'[b].kind = heap[b].kind
    <3>1. p \in DOMAIN heap => heap[p].kind = "buffer"
      BY <1>2, <1>7 DEF NULL
    <3> QED  BY <1>5, <1>9, <3>1
  <2>3. \A b \in DOMAIN heap : b # p => heap'[b] = heap[b]
    BY <1>5, <1>9
  <2>4. \A b \in DOMAIN heap' : b \in DOMAIN heap \/ b \in DOMAIN blocks \/ b = fresh
    BY <1>5, <1>7, <1>9
  <2> QED  BY <1>9, <2>1, <2>2, <2>3, <2>4
<1>13. /\ \A b \in DOMAIN blocks : b \in next .. next' - 1
       /\ fresh \in next .. next' - 1 /\ next' \in Nat /\ next <= next' /\ fresh <= next'
  <2>1. next' - 1 = fresh
    OBVIOUS
  <2> QED  BY <1>1, <1>2, <1>3, <2>1
<1>14. /\ \A b \in DOMAIN blocks : b \notin shared'
       /\ fresh \notin shared'
       /\ \A b \in shared' : b \in shared \/ (b \in DOMAIN heap /\ heap[b].kind = "Record")
       /\ p \notin shared'
  <2>1. \A b \in shared' : b \in shared \/ (b \in DOMAIN heap /\ heap[b].kind = "Record")
    BY <1>2 DEF Shares, NULL
  <2> QED  BY <1>2, <1>3, <1>4, <1>7, <2>1
<1>15. HeapInv'
  <2>1. ASSUME NEW b \in DOMAIN heap'
        PROVE  /\ Sound(heap'[b])
               /\ \/ b \in next .. next' - 1 /\ b \notin shared'
                  \/ b \in DOMAIN heap /\ heap'[b].kind = heap[b].kind
    <3>1. CASE b \in DOMAIN heap
      BY <1>2, <1>9, <1>12, <3>1
    <3>2. CASE b \in DOMAIN blocks
      BY <1>3, <1>12, <1>13, <1>14, <3>2
    <3>3. CASE b = fresh /\ b \notin DOMAIN heap /\ b \notin DOMAIN blocks
      <4>1. b = p
        BY <1>5, <1>7, <1>9, <2>1, <3>3
      <4> QED  BY <1>9, <1>13, <1>14, <3>3, <4>1
    <3> QED  BY <1>12, <2>1, <3>1, <3>2, <3>3
  <2>2. DOMAIN leaked' \subseteq 1 .. next' - 1
    <3>1. \A b \in 1 .. next - 1 : b \in 1 .. next' - 1
      BY <1>1, <1>2, <1>13, StillBlocks
    <3>2. \A b \in next .. next' - 1 : b \in 1 .. next' - 1
      BY <1>1, <1>2, <1>13, LaterBlocks
    <3> QED  BY <1>1, <1>2, <1>3, <1>13, <3>1, <3>2
  <2> QED  BY <1>13, <1>14, <2>1, <2>2, HeapGrown DEF OwnInv
<1>16. /\ put => /\ scope' = Append(scope, sym) /\ sym \in roots /\ sym # def
                 /\ blocks[sym].kind = "Symbol"
       /\ ~put => scope' = scope
       /\ \A b \in roots : b = def \/ b \in DOMAIN leaked' \/ (b = sym /\ scope' = Append(scope, sym))
  BY <1>0 DEF Defined
<1>17. PICK top : top = Len(scope) + 1
  OBVIOUS
<1>18. scope' \in Seq(Int) /\ \A i, b : InScope(i, b)' <=> InScope(i, b) \/ (put /\ i = top /\ b = sym)
  <2>1. CASE ~put
    BY <1>2, <1>16, <2>1 DEF InScope
  <2>2. CASE put
    <3>1. sym \in Int
      BY <1>2, <1>3, <1>16, <2>2
    <3>2. /\ Len(scope) \in Nat /\ DOMAIN scope = 1 .. Len(scope)
          /\ DOMAIN Append(scope, sym) = 1 .. Len(scope) + 1
          /\ \A i \in 1 .. Len(scope) : Append(scope, sym)[i] = scope[i]
          /\ Append(scope, sym)[Len(scope) + 1] = sym
      BY <1>2, AppendedTo
    <3>3. Append(scope, sym) \in Seq(Int)
      BY <1>2, <3>1
    <3>4. PICK s : s = Append(scope, sym)
      OBVIOUS
    <3>5. scope' = s
      BY <1>16, <2>2, <3>4
    <3> QED  BY <1>17, <2>2, <3>2, <3>3, <3>4, <3>5 DEF InScope
  <2> QED  BY <2>1, <2>2
<1>19. /\ ast'.name = ast.name /\ ast'.defs = p /\ ast'.types = ast.types
       /\ ast' = [name |-> ast'.name, defs |-> ast'.defs, types |-> ast'.types]
  BY <1>1, <1>2
<1>20. PhaseInv'
  BY <1>18, <1>19 DEF OwnInv, PhaseInv
<1>21. \A k, n, i, b : Refers(k, n, i, b)' <=>
         \/ Refers(k, n, i, b) /\ ~(k = "ast" /\ i = 2)
         \/ k = "ast" /\ n = 0 /\ i = 2 /\ b = p
         \/ k = "kid" /\ n = p /\ i = place /\ b = def
         \/ k = "scope" /\ n = 0 /\ put /\ i = top /\ b = sym
         \/ Inner(blocks, k, n, i, b)
  <2>1. \A i, b : InAst(i, b)' <=> (InAst(i, b) /\ i # 2) \/ (i = 2 /\ b = p)
    BY <1>19 DEF InAst
  <2>2. \A k, n, i, b : Inner(blocks, k, n, i, b) => k \in {"name", "kid"}
    BY DEF Inner
  <2> QED  BY <1>11, <1>18, <2>1, <2>2, StackStays, CallsStay DEF Refers
<1>22. ASSUME NEW b \in DOMAIN blocks PROVE b \in DOMAIN heap' /\ heap'[b] = blocks[b] /\ b \in 1 .. next' - 1
  BY <1>12, <1>15, <1>22 DEF HeapInv
<1>23. ASSUME NEW k, NEW n, NEW i, NEW b, Refers(k, n, i, b)' PROVE Held(k, i, b)'
  <2>1. CASE Refers(k, n, i, b)
    <3>1. /\ \A c \in DOMAIN heap : c \in DOMAIN heap' /\ heap'[c].kind = heap[c].kind
          /\ \A c \in DOMAIN heap' : c \in DOMAIN heap \/ c \in next .. next' - 1
          /\ \A c \in DOMAIN heap : c = ast.types => heap'[c] = heap[c]
      BY <1>7, <1>12, <1>13
    <3>2. phase # "parse" /\ next <= next' /\ ("definition" \in faults => "definition" \in faults')
      BY <1>13
    <3> QED  BY <1>15, <2>1, <3>1, <3>2, OldHeld
  <2>2. CASE Inner(blocks, k, n, i, b)
    <3>1. /\ \A c \in DOMAIN blocks : c \in DOMAIN heap' /\ heap'[c] = blocks[c]
          /\ \A c \in DOMAIN heap : c \in DOMAIN heap' /\ heap'[c].kind = heap[c].kind
      BY <1>12
    <3>2. HeapInv /\ fresh <= next'
      BY <1>13 DEF OwnInv
    <3> QED  BY <1>15, <2>2, <3>1, <3>2, FreshHeld
  <2>3. CASE k = "ast" /\ i = 2 /\ b = p
    <3>1. p \in 1 .. next' - 1
      BY <1>12, <1>15 DEF HeapInv
    <3> QED  BY <1>9, <1>12, <1>14, <2>3, <3>1 DEF Held, KindFits
  <2>4. CASE k = "kid" /\ b = def
    BY <1>6, <1>22, <2>4 DEF Held, KindFits
  <2>5. CASE k = "scope" /\ put /\ b = sym
    <3>1. sym \in DOMAIN blocks /\ blocks[sym].kind = "Symbol"
      BY <1>3, <1>16, <2>5
    <3> QED  BY <1>14, <1>22, <2>5, <3>1 DEF Held, KindFits
  <2> QED  BY <1>21, <1>23, <2>1, <2>2, <2>3, <2>4, <2>5
<1>24. \A b \in Excused : b \in DOMAIN heap' => b \in Excused'
  <2> SUFFICES ASSUME NEW b \in Excused, b \in DOMAIN heap' PROVE b \in Excused'
    OBVIOUS
  <2>1. b \in shared => b \in shared'
    BY DEF Shares
  <2>2. b \in DOMAIN heap /\ heap[b].kind = "Symbol" => heap'[b].kind = "Symbol"
    BY <1>12
  <2> QED  BY <2>1, <2>2 DEF Excused
<1>25. ASSUME NEW b, Owes(b)', NEW k, NEW n, NEW i, Comes(k, n, i, b)
       PROVE  \/ Inner(blocks, k, n, i, b) /\ b \in DOMAIN blocks \ roots
              \/ k = "kid" /\ n = p /\ i = place /\ b = def
              \/ k = "scope" /\ n = 0 /\ i = top /\ b = sym /\ sym \in roots /\ sym # def
              \/ k = "ast" /\ n = 0 /\ i = 2 /\ b = fresh
  <2>1. b \in DOMAIN heap' /\ b \notin shared' /\ b # NULL
    BY <1>15, <1>25 DEF Owes, Excused, HeapInv, NULL
  <2>2. CASE Inner(blocks, k, n, i, b)
    <3>1. b \in DOMAIN blocks \ roots \/ b = desc
      BY <2>2 DEF Fresh
    <3>2. b # desc
      BY <2>1 DEF Shares
    <3> QED  BY <2>2, <3>1, <3>2
  <2>3. CASE k = "ast" /\ n = 0 /\ i = 2 /\ b = p
    <3>1. p # ast.defs
      BY <1>25, <2>3 DEF Comes, Refers, InAst
    <3> QED  BY <1>7, <2>3, <3>1
  <2>4. CASE k = "scope" /\ n = 0 /\ put /\ i = top /\ b = sym
    BY <1>16, <2>4
  <2> QED  BY <1>21, <1>25, <2>2, <2>3, <2>4 DEF Comes
<1>26. ASSUME NEW b, Owes(b)', NEW k, NEW n, NEW i, NEW l, NEW m, NEW j,
              Comes(k, n, i, b), Comes(l, m, j, b)
       PROVE  k = l /\ n = m /\ i = j
  <2>1. CASE b \in DOMAIN blocks \ roots
    <3>1. b # def /\ ~(b = sym /\ sym \in roots) /\ b # fresh
      BY <1>4, <1>6, <2>1
    <3>2. Inner(blocks, k, n, i, b) /\ Inner(blocks, l, m, j, b)
      BY <1>25, <1>26, <3>1
    <3> QED  BY <2>1, <3>2 DEF Fresh
  <2>2. CASE b \notin DOMAIN blocks \ roots
    <3>1. b \in roots => b # fresh
      BY <1>3, <1>4
    <3> QED  BY <1>6, <1>25, <1>26, <2>2, <3>1
  <2> QED  BY <2>1, <2>2
<1>27. ASSUME NEW b, Owes(b)', b \in DOMAIN heap, NEW k, NEW n, NEW i, Comes(k, n, i, b)
       PROVE  FALSE
  <2>1. b \notin DOMAIN blocks /\ b \notin roots /\ b # fresh
    BY <1>3, <1>4, <1>27
  <2> QED  BY <1>6, <1>25, <1>27, <2>1
<1>28. ASSUME NEW k, NEW n, NEW i, NEW b, Goes(k, n, i, b) PROVE b \notin DOMAIN heap'
  <2>1. k = "ast" /\ i = 2 /\ n = 0 /\ b = ast.defs /\ b # p
    BY <1>21, <1>28 DEF Goes, Refers, InAst
  <2>2. b = NULL
    BY <1>7, <2>1
  <2> QED  BY <1>15, <2>2 DEF HeapInv, NULL
<1>29. ASSUME NEW b \in DOMAIN heap', b \notin DOMAIN heap, b \notin DOMAIN leaked'
       PROVE  \E k, n, i : Refers(k, n, i, b)'
  <2>1. CASE b = fresh
    <3>1. b = p
      BY <1>4, <1>5, <1>9, <1>29, <2>1
    <3>2. Refers("ast", 0, 2, b)'
      BY <1>21, <3>1
    <3> QED  BY <3>2
  <2>2. CASE b \in DOMAIN blocks \ roots
    <3>1. PICK k, n, i : Inner(blocks, k, n, i, b)
      BY <2>2 DEF Fresh
    <3> QED  BY <1>21, <3>1
  <2>3. CASE b \in roots
    <3>1. CASE b = def
      <4>1. Refers("kid", p, place, b)'
        BY <1>21, <3>1
      <4> QED  BY <4>1
    <3>2. CASE b = sym /\ scope' = Append(scope, sym)
      <4>1. put
        <5>1. Len(Append(scope, sym)) = Len(scope) + 1 /\ Len(scope) \in Nat
          BY <1>2
        <5>2. Append(scope, sym) # scope
          BY <5>1
        <5> QED  BY <1>0, <3>2, <5>2
      <4>2. Refers("scope", 0, top, b)'
        BY <1>21, <3>2, <4>1
      <4> QED  BY <4>2
    <3> QED  BY <1>16, <1>29, <2>3, <3>1, <3>2
  <2> QED  BY <1>12, <1>29, <2>1, <2>2, <2>3
<1>30. Transfers
  <2>1. DOMAIN heap' \subseteq DOMAIN heap \cup (next .. next' - 1)
    BY <1>12, <1>13
  <2> QED  BY <1>23, <1>24, <1>26, <1>27, <1>28, <1>29, <2>1 DEF Transfers
<1> QED  BY <1>15, <1>20, <1>30, Transferred

(* CreateArray: an anonymous array type, whose name is lost.                *)
LEMMA ArrayDefined == ASSUME OwnInv, CreateArray PROVE OwnInv'
<1>1. PICK id, blocks, roots, desc :
        /\ id = next /\ blocks = ArrayBlocks /\ roots = {id, id + 6, id + 7} /\ desc = NULL
  OBVIOUS
<1>2. PICK fresh, def, sym : fresh = id + 8 /\ def = id + 7 /\ sym = id + 6
  OBVIOUS
<1>3. /\ phase = "analysis" /\ calls = << >>
      /\ heap' = Pushed(Overlay(blocks, heap), ast.defs, def, fresh) /\ next' = id + 9
      /\ ast' = [ast EXCEPT !.defs = BufferOf(ast.defs, fresh)]
      /\ scope' = Append(scope, sym)
      /\ leaked' = Overlay([b \in {id} \ {NULL, WILD} |-> "type name"], leaked)
      /\ UNCHANGED <<stack, calls, phase, shared, faults>>
  BY <1>1, <1>2 DEF CreateArray, Analyses, Running, Drop, parser
<1>4. id \in Nat /\ id > 0 /\ HeapInv
  BY <1>1 DEF OwnInv, HeapInv, AST
<1>5. /\ Fresh(blocks, id, id + 8, {id, id + 6, id + 7}, NULL)
      /\ blocks[id] = Leaf("string") /\ blocks[id + 6] = Leaf("Symbol")
      /\ blocks[id + 7].kind = "Def"
  BY <1>1, <1>4, FreshArray
<1>6. /\ Fresh(blocks, next, fresh, roots, desc) /\ fresh \in Nat /\ next <= fresh /\ next' = fresh + 1
  <2>1. id + 9 = fresh + 1 /\ fresh \in Nat /\ id <= fresh
    BY <1>2, <1>4
  <2> QED  BY <1>1, <1>2, <1>3, <1>5, <2>1
<1>7. Shares(desc)
  BY <1>1, <1>3 DEF Shares
<1>8. DOMAIN leaked' = {id} \cup DOMAIN leaked
  <2>1. {id} \ {NULL, WILD} = {id}
    BY <1>4 DEF NULL, WILD
  <2> QED  BY <1>3, <2>1 DEF Overlay
<1>9. Defined(blocks, roots, def, sym)
  <2>1. blocks[sym].kind = "Symbol" /\ sym # def /\ sym \in roots /\ def \in roots
    BY <1>1, <1>2, <1>4, <1>5, SoundLeaf DEF Kinds
  <2>2. \A b \in roots : b = def \/ b = sym \/ b \in DOMAIN leaked'
    BY <1>1, <1>2, <1>8
  <2> QED  BY <1>2, <1>3, <1>5, <2>1, <2>2 DEF Defined
<1>10. DOMAIN leaked \subseteq DOMAIN leaked' /\ DOMAIN leaked' \subseteq DOMAIN leaked \cup roots
  BY <1>1, <1>8
<1>11. phase \in {"analysis", "ready"}
  BY <1>3
<1> QED  BY <1>3, <1>6, <1>7, <1>9, <1>10, <1>11, Defines

(* CreateRecord: a definition for the record that an array is of.           *)
LEMMA RecordDefined == ASSUME OwnInv, CreateRecord PROVE OwnInv'
<1>1. PICK desc \in ElementRecords \ made.records :
        /\ heap' = Pushed(Overlay(RecordBlocks(desc), heap), ast.defs, next + 3, next + 4)
        /\ next' = next + 5
        /\ ast' = [ast EXCEPT !.defs = BufferOf(ast.defs, next + 4)]
        /\ scope' = Append(scope, next + 2)
        /\ shared' = shared \cup {desc}
  BY DEF CreateRecord
<1>2. PICK id, blocks, roots, fresh, def, sym :
        /\ id = next /\ blocks = RecordBlocks(desc) /\ roots = {id + 2, id + 3}
        /\ fresh = id + 4 /\ def = id + 3 /\ sym = id + 2
  OBVIOUS
<1>3. /\ phase = "analysis" /\ calls = << >>
      /\ heap' = Pushed(Overlay(blocks, heap), ast.defs, def, fresh) /\ next' = id + 5
      /\ ast' = [ast EXCEPT !.defs = BufferOf(ast.defs, fresh)]
      /\ scope' = Append(scope, sym)
      /\ UNCHANGED <<stack, calls, phase, leaked, faults>>
  BY <1>1, <1>2 DEF CreateRecord, Analyses, Running, parser
<1>4. /\ id \in Nat /\ HeapInv
      /\ desc \in DOMAIN heap /\ heap[desc].kind = "Record"
  BY <1>2 DEF OwnInv, HeapInv, ElementRecords
<1>5. /\ Fresh(blocks, id, id + 4, {id + 2, id + 3}, desc)
      /\ blocks[id + 2] = Leaf("Symbol") /\ blocks[id + 3].kind = "Def"
  BY <1>2, <1>4, FreshRecord
<1>6. /\ Fresh(blocks, next, fresh, roots, desc) /\ fresh \in Nat /\ next <= fresh /\ next' = fresh + 1
  <2>1. id + 5 = fresh + 1 /\ fresh \in Nat /\ id <= fresh
    BY <1>2, <1>4
  <2> QED  BY <1>2, <1>3, <1>5, <2>1
<1>7. Shares(desc)
  BY <1>1, <1>4 DEF Shares
<1>8. Defined(blocks, roots, def, sym)
  <2>1. blocks[sym].kind = "Symbol" /\ sym # def /\ sym \in roots /\ def \in roots
    BY <1>2, <1>4, <1>5, SoundLeaf DEF Kinds
  <2>2. \A b \in roots : b = def \/ b = sym
    BY <1>2
  <2> QED  BY <1>2, <1>3, <1>5, <2>1, <2>2 DEF Defined
<1>9. DOMAIN leaked \subseteq DOMAIN leaked' /\ DOMAIN leaked' \subseteq DOMAIN leaked \cup roots
  BY <1>3
<1>10. phase \in {"analysis", "ready"}
  BY <1>3
<1> QED  BY <1>3, <1>6, <1>7, <1>8, <1>9, <1>10, Defines

(* AddDefinition: a caller's definition of a variable.                      *)
LEMMA VariableDefined == ASSUME OwnInv, AddDefinition PROVE OwnInv'
<1>1. PICK id, blocks, roots, desc, fresh, def :
        /\ id = next /\ blocks = VariableBlocks /\ roots = {id + 3} /\ desc = NULL
        /\ fresh = id + 4 /\ def = id + 3
  OBVIOUS
<1>2. /\ phase = "ready" /\ calls = << >>
      /\ heap' = Pushed(Overlay(blocks, heap), ast.defs, def, fresh) /\ next' = id + 5
      /\ ast' = [ast EXCEPT !.defs = BufferOf(ast.defs, fresh)]
      /\ UNCHANGED <<stack, scope, calls, phase, leaked, shared, faults>>
  BY <1>1 DEF AddDefinition, Ready, Running, parser, analysis, history
<1>3. id \in Nat /\ HeapInv
  BY <1>1 DEF OwnInv, HeapInv
<1>4. Fresh(blocks, id, id + 4, {id + 3}, NULL) /\ blocks[id + 3].kind = "Def"
  BY <1>1, <1>3, FreshVariable
<1>5. /\ Fresh(blocks, next, fresh, roots, desc) /\ fresh \in Nat /\ next <= fresh /\ next' = fresh + 1
  <2>1. id + 5 = fresh + 1 /\ fresh \in Nat /\ id <= fresh
    BY <1>1, <1>3
  <2> QED  BY <1>1, <1>2, <1>4, <2>1
<1>6. Shares(desc)
  BY <1>1, <1>2 DEF Shares
<1>7. Defined(blocks, roots, def, def)
  BY <1>1, <1>2, <1>4 DEF Defined
<1>8. DOMAIN leaked \subseteq DOMAIN leaked' /\ DOMAIN leaked' \subseteq DOMAIN leaked \cup roots
  BY <1>2
<1>9. phase \in {"analysis", "ready"}
  BY <1>2
<1> QED  BY <1>2, <1>5, <1>6, <1>7, <1>8, <1>9, Defines

(* UseType: the vector of used types gets its buffer, or a THROW ends the   *)
(* analysis.                                                                *)
LEMMA TypeUsed == ASSUME OwnInv, UseType PROVE OwnInv'
<1>1. PICK id : id = next
  OBVIOUS
<1>2. /\ phase = "analysis" /\ calls = << >>
      /\ \/ /\ ast.types = NULL
            /\ heap' = Overlay(At(id, Leaf("buffer")), heap) /\ next' = id + 1
            /\ ast' = [ast EXCEPT !.types = id]
            /\ UNCHANGED <<stack, scope, calls, phase, leaked, shared, faults>>
         \/ /\ Cleanup(scope, << >>)
            /\ UNCHANGED <<heap, next, stack, ast, leaked, shared>>
            /\ "definition" \in faults => "definition" \in faults'
  BY <1>1 DEF UseType, Analyses, Running, Fails, parser, memory, analysis
<1>3. CASE /\ Cleanup(scope, << >>)
           /\ UNCHANGED <<heap, next, stack, ast, leaked, shared>>
           /\ "definition" \in faults => "definition" \in faults'
  BY <1>2, <1>3, CleansOnly
<1>4. CASE /\ ast.types = NULL
           /\ heap' = Overlay(At(id, Leaf("buffer")), heap) /\ next' = id + 1
           /\ ast' = [ast EXCEPT !.types = id]
           /\ UNCHANGED <<stack, scope, calls, phase, leaked, shared, faults>>
  <2>1. /\ id \in Nat /\ id > 0 /\ scope \in Seq(Int) /\ HeapInv /\ next = id
        /\ DOMAIN heap \subseteq 1 .. id - 1
        /\ \A b \in shared : b \in 1 .. id - 1
        /\ ast = [name |-> ast.name, defs |-> ast.defs, types |-> ast.types]
    BY <1>1 DEF OwnInv, HeapInv, PhaseInv, AST
  <2>2. PICK blocks, roots, desc : blocks = At(id, Leaf("buffer")) /\ roots = {id} /\ desc = NULL
    OBVIOUS
  <2>3. DOMAIN blocks = {id} /\ blocks[id] = Leaf("buffer")
    BY <2>2 DEF At
  <2>4. /\ Sound(blocks[id]) /\ IsLeaf(blocks[id]) /\ blocks[id].kind = "buffer"
        /\ \A k, n, i, b : ~Inner(blocks, k, n, i, b)
    <3>1. "buffer" \in Kinds
      BY OtherKinds DEF Kinds
    <3>2. Sound(blocks[id]) /\ IsLeaf(blocks[id]) /\ blocks[id].kind = "buffer"
      BY <2>3, <3>1, SoundLeaf
    <3> QED  BY <2>3, <3>2 DEF Inner, IsLeaf
  <2>5. Fresh(blocks, id, id + 1, roots, desc)
    <3>1. id .. (id + 1) - 1 = {id}
      BY <2>1
    <3> QED  BY <2>2, <2>3, <2>4, <3>1 DEF Fresh
  <2>6. Fresh(blocks, next, next', roots, desc) /\ next' \in Nat /\ next <= next' /\ next' - 1 = id
    <3>1. next' = id + 1
      BY <1>4
    <3>2. Fresh(blocks, next, next', roots, desc)
      BY <2>1, <2>5, <3>1
    <3> QED  BY <2>1, <3>1, <3>2
  <2>7. Grows(blocks)
    BY <1>4, <2>1, <2>2, <2>6, OverGrows
  <2>8. Shares(desc)
    BY <1>4, <2>2 DEF Shares
  <2>9. /\ HeapInv'
        /\ \A k, n, i, b : InNode(k, n, i, b)' <=> InNode(k, n, i, b)
    <3>1. DOMAIN leaked' \subseteq DOMAIN leaked \cup roots
      BY <1>4
    <3>2. /\ HeapInv'
          /\ \A k, n, i, b : InNode(k, n, i, b)' <=> InNode(k, n, i, b) \/ Inner(blocks, k, n, i, b)
      BY <2>1, <2>6, <2>7, <2>8, <3>1, GrownHeap
    <3> QED  BY <2>4, <3>2
  <2>10. /\ DOMAIN heap' = DOMAIN heap \cup {id} /\ heap'[id] = Leaf("buffer")
         /\ \A b \in DOMAIN heap : heap'[b] = heap[b]
    BY <2>3, <2>7 DEF Grows
  <2>11. /\ ast'.name = ast.name /\ ast'.defs = ast.defs /\ ast'.types = id
         /\ ast' = [name |-> ast'.name, defs |-> ast'.defs, types |-> ast'.types]
    BY <1>4, <2>1
  <2>12. PhaseInv'
    BY <1>2, <1>4, <2>11 DEF OwnInv, PhaseInv
  <2>13. \A k, n, i, b : Refers(k, n, i, b)' <=>
           \/ Refers(k, n, i, b) /\ ~(k = "ast" /\ i = 3)
           \/ k = "ast" /\ n = 0 /\ i = 3 /\ b = id
    <3>1. \A i, b : InAst(i, b)' <=> (InAst(i, b) /\ i # 3) \/ (i = 3 /\ b = id)
      BY <1>4, <2>11 DEF InAst
    <3> QED  BY <1>4, <2>9, <3>1, StackStays, ScopeStays, CallsStay DEF Refers
  <2>14. ASSUME NEW k, NEW n, NEW i, NEW b, Refers(k, n, i, b)' PROVE Held(k, i, b)'
    <3>1. CASE Refers(k, n, i, b)
      <4>1. /\ \A c \in DOMAIN heap : c \in DOMAIN heap' /\ heap'[c].kind = heap[c].kind
            /\ \A c \in DOMAIN heap' : c \in DOMAIN heap \/ c \in next .. next' - 1
            /\ \A c \in DOMAIN heap : c = ast.types => heap'[c] = heap[c]
        <5>1. id \in next .. next' - 1
          BY <2>1, <2>6
        <5> QED  BY <2>10, <5>1
      <4>2. phase # "parse" /\ ("definition" \in faults => "definition" \in faults')
        BY <1>2, <1>4
      <4> QED  BY <1>2, <2>6, <2>8, <2>9, <3>1, <4>1, <4>2, OldHeld
    <3>2. CASE k = "ast" /\ i = 3 /\ b = id
      <4>1. b \in 1 .. next' - 1 /\ b \notin shared' /\ b \in DOMAIN heap' /\ heap'[b] = blocks[id]
        BY <1>4, <2>1, <2>3, <2>6, <2>10, <3>2
      <4> QED  BY <2>4, <3>2, <4>1 DEF Held, KindFits
    <3> QED  BY <2>13, <2>14, <3>1, <3>2
  <2>15. \A b \in Excused : b \in DOMAIN heap' => b \in Excused'
    BY <1>4, <2>10 DEF Excused
  <2>16. ASSUME NEW k, NEW n, NEW i, NEW b, Comes(k, n, i, b)
         PROVE  k = "ast" /\ n = 0 /\ i = 3 /\ b = id
    BY <2>13, <2>16 DEF Comes
  <2>17. ASSUME NEW k, NEW n, NEW i, NEW b, Goes(k, n, i, b)
         PROVE  b = NULL
    BY <1>4, <2>13, <2>17 DEF Goes, Refers, InAst
  <2>18. id \notin DOMAIN heap /\ NULL \notin DOMAIN heap'
    BY <2>1, <2>10 DEF NULL
  <2>19. Refers("ast", 0, 3, id)'
    BY <2>13
  <2>20. Transfers
    <3>1. DOMAIN heap' \subseteq DOMAIN heap \cup (next .. next' - 1)
      BY <2>1, <2>6, <2>10
    <3>2. DOMAIN leaked \subseteq DOMAIN leaked'
      BY <1>4
    <3> QED  BY <2>10, <2>14, <2>15, <2>16, <2>17, <2>18, <2>19, <3>1, <3>2 DEF Transfers
  <2> QED  BY <2>9, <2>12, <2>20, Transferred
<1> QED  BY <1>2, <1>3, <1>4

(* AstDestroy: the definitions are to be destroyed, then the name, their    *)
(* vector and the AST freed; the vector of used types is lost.              *)
LEMMA AstGone == ASSUME OwnInv, AstDestroy PROVE OwnInv'
<1>1. PICK name, defs, types, es, fs, none :
        /\ name = ast.name /\ defs = ast.defs /\ types = ast.types
        /\ es = Elements(defs) /\ fs = <<name, defs, AST>> /\ none = << >>
  OBVIOUS
<1>2. /\ phase = "ready" /\ calls = << >> /\ phase' = "destroyed"
      /\ calls' = Destroys(es) \o Frees(fs)
      /\ heap' = IF defs = NULL THEN heap ELSE [heap EXCEPT ![defs] = Leaf("buffer")]
      /\ leaked' = Overlay([b \in {types} \ {NULL, WILD} |-> "used types"], leaked)
      /\ ast' = [name |-> NULL, defs |-> NULL, types |-> NULL]
      /\ UNCHANGED <<next, stack, scope, shared, faults>>
  BY <1>1 DEF AstDestroy, Ready, Running, Drop, parser, analysis
<1>3. /\ next \in Nat /\ next > 1 /\ DOMAIN heap \subseteq 1 .. next - 1
      /\ DOMAIN leaked \subseteq 1 .. next - 1
      /\ \A b \in DOMAIN heap : Sound(heap[b])
      /\ NULL \notin DOMAIN heap /\ WILD \notin DOMAIN heap /\ STATIC \notin DOMAIN heap
      /\ stack = << >> /\ DOMAIN stack = {} /\ scope \in Seq(Int) /\ DOMAIN calls = {}
  <2>1. /\ next \in Nat /\ next > 1 /\ DOMAIN heap \subseteq 1 .. next - 1
        /\ DOMAIN leaked \subseteq 1 .. next - 1
        /\ \A b \in DOMAIN heap : Sound(heap[b])
    BY DEF OwnInv, HeapInv, AST
  <2>2. NULL \notin DOMAIN heap /\ WILD \notin DOMAIN heap /\ STATIC \notin DOMAIN heap
    BY <2>1 DEF NULL, WILD, STATIC
  <2>3. stack = << >> /\ scope \in Seq(Int) /\ calls = << >>
    BY <1>2 DEF OwnInv, PhaseInv
  <2>4. DOMAIN << >> = {}
    OBVIOUS
  <2> QED  BY <2>1, <2>2, <2>3, <2>4
<1>4. /\ Refers("ast", 0, 1, name) /\ Refers("ast", 0, 2, defs)
      /\ Refers("ast", 0, 3, types) /\ Refers("ast", 0, 4, AST)
  BY <1>1, <1>2 DEF Refers, InAst
<1>5. /\ Held("ast", 1, name) /\ Held("ast", 2, defs) /\ Held("ast", 3, types) /\ Held("ast", 4, AST)
  BY <1>4 DEF OwnInv, AllHeld
<1>6. /\ name \in {NULL, STATIC} \/ (name \in DOMAIN heap /\ heap[name].kind = "string")
      /\ defs = NULL \/ (defs \in DOMAIN heap /\ heap[defs].kind = "buffer")
      /\ types = NULL \/ types \in 1 .. next - 1
      /\ AST \in DOMAIN heap /\ heap[AST].kind = "Ast" /\ AST # NULL
  <2>1. AST \notin {NULL, WILD, STATIC}
    BY DEF AST, NULL, WILD, STATIC
  <2> QED  BY <1>5, <2>1 DEF Held, NoBlock, Dangles, KindFits
<1>7. /\ DOMAIN heap' = DOMAIN heap
      /\ \A b \in DOMAIN heap : heap'[b].kind = heap[b].kind /\ Sound(heap'[b])
      /\ \A b \in DOMAIN heap : b # defs => heap'[b] = heap[b]
      /\ defs \in DOMAIN heap => IsLeaf(heap'[defs])
      /\ \A b \in DOMAIN heap : IsLeaf(heap[b]) => IsLeaf(heap'[b])
  <2>1. CASE defs = NULL
    BY <1>2, <1>3, <2>1
  <2>2. CASE defs # NULL
    <3>1. Sound(Leaf("buffer")) /\ IsLeaf(Leaf("buffer")) /\ Leaf("buffer").kind = "buffer"
      BY OtherKinds, SoundLeaf DEF Kinds
    <3>2. /\ DOMAIN heap' = DOMAIN heap /\ heap'[defs] = Leaf("buffer")
          /\ \A b \in DOMAIN heap : b # defs => heap'[b] = heap[b]
      BY <1>2, <1>6, <2>2
    <3> QED  BY <1>3, <1>6, <2>2, <3>1, <3>2
  <2> QED  BY <2>1, <2>2
<1>8. /\ DOMAIN leaked' = ({types} \ {NULL, WILD}) \cup DOMAIN leaked
      /\ DOMAIN leaked \subseteq DOMAIN leaked' /\ DOMAIN leaked' \subseteq 1 .. next - 1
  <2>1. DOMAIN leaked' = ({types} \ {NULL, WILD}) \cup DOMAIN leaked
    BY <1>2 DEF Overlay
  <2> QED  BY <1>3, <1>6, <2>1
<1>9. HeapInv'
  BY <1>2, <1>3, <1>7, <1>8 DEF OwnInv, HeapInv
\* The calls
<1>10. /\ es \in Seq(Int) /\ fs \in Seq(Int) /\ none \in Seq(Int)
       /\ DOMAIN none = {} /\ DOMAIN fs = {1, 2, 3} /\ fs[1] = name /\ fs[2] = defs /\ fs[3] = AST
       /\ defs # NULL => es = heap[defs].kids
       /\ defs = NULL => DOMAIN es = {}
  <2>1. name \in Int /\ defs \in Int /\ AST \in Int
    BY <1>3, <1>6 DEF NULL, STATIC, AST
  <2>2. defs # NULL => es = heap[defs].kids /\ es \in Seq(Int)
    BY <1>1, <1>3, <1>6 DEF Elements, Sound, Blocks
  <2>3. defs = NULL => es = << >>
    BY <1>1 DEF Elements
  <2>4. es \in Seq(Int)
    <3>1. << >> \in Seq(Int)
      OBVIOUS
    <3> QED  BY <2>2, <2>3, <3>1
  <2>5. fs \in Seq(Int) /\ DOMAIN fs = {1, 2, 3} /\ fs[1] = name /\ fs[2] = defs /\ fs[3] = AST
    BY <1>1, <2>1
  <2>6. none \in Seq(Int) /\ DOMAIN none = {}
    BY <1>1
  <2> QED  BY <2>2, <2>3, <2>4, <2>5, <2>6
<1>11. calls' = (Frees(none) \o Destroys(es)) \o Frees(fs)
  <2>1. Frees(none) = << >>
    <3>1. Call("free", none) = << >>
      BY <1>10 DEF Call
    <3> QED  BY <3>1 DEF Frees
  <2>2. IsList(Destroys(es))
    <3>1. Destroys(es) \in Seq(CallSet)
      BY <1>10, CallsOf DEF Destroys
    <3> QED  BY <3>1, SeqIsList
  <2>3. Frees(none) \o Destroys(es) = Destroys(es)
    BY <2>1, <2>2, JoinedToNothing
  <2> QED  BY <1>2, <2>3
<1>12. calls' \in Seq(CallSet) /\ \E x, y, z \in Int : CallsAre(none, es, fs, x, y, z)
  BY <1>10, <1>11, CallsMade
<1>13. PICK x, y, z \in Int : CallsAre(none, es, fs, x, y, z)
  BY <1>12
<1>14. PhaseInv'
  BY <1>2, <1>3, <1>12 DEF OwnInv, PhaseInv
<1>15. \A k, i, b : InCalls(k, i, b)' <=>
         /\ i \in Int
         /\ \/ k = "destroy" /\ y - i \in DOMAIN es /\ b = es[y - i]
            \/ k = "free" /\ z - i = 1 /\ b = name
            \/ k = "free" /\ z - i = 2 /\ b = defs
            \/ k = "free" /\ z - i = 3 /\ b = AST
  BY <1>10, <1>13 DEF CallsAre
<1>16. \A k, n, i, b : Refers(k, n, i, b)' <=>
         \/ k = "scope" /\ Refers(k, n, i, b)
         \/ k \in {"name", "kid"} /\ Refers(k, n, i, b) /\ n # defs
         \/ k = "ast" /\ n = 0 /\ i \in {1, 2, 3} /\ b = NULL
         \/ k \in {"free", "destroy"} /\ n = 0 /\ InCalls(k, i, b)'
  <2>1. \A i, b : InAst(i, b)' <=> i \in {1, 2, 3} /\ b = NULL
    BY <1>2 DEF InAst
  <2>2. \A i, b : ~OnStack(i, b)'
    <3>1. stack' = stack /\ DOMAIN stack = {}
      BY <1>2, <1>3
    <3> QED  BY <3>1 DEF OnStack
  <2>3. \A k, n, i, b : InNode(k, n, i, b)' <=> InNode(k, n, i, b) /\ n # defs
    BY <1>7 DEF InNode, IsLeaf
  <2>4. \A i, b : InScope(i, b)' <=> InScope(i, b)
    BY <1>2, ScopeStays
  <2> QED  BY <2>1, <2>2, <2>3, <2>4 DEF Refers
<1>17. \A j \in DOMAIN es : Refers("kid", defs, j, es[j])
  BY <1>6, <1>10 DEF Refers, InNode
<1>18. ASSUME NEW k, NEW i, NEW b, InCalls(k, i, b)' PROVE Held(k, i, b)'
  <2>1. CASE k = "destroy" /\ y - i \in DOMAIN es /\ b = es[y - i]
    <3>1. Held("kid", y - i, b)
      BY <1>17, <2>1 DEF OwnInv, AllHeld
    <3>2. \/ b = NULL
          \/ /\ b \in 1 .. next - 1 /\ (b \in DOMAIN heap \/ b \in shared)
             /\ b \in DOMAIN heap => heap[b].kind \notin {"Ast", "Symbol"}
      BY <3>1 DEF Held, NoBlock, Dangles, KindFits
    <3> QED  BY <1>2, <1>7, <2>1, <3>2 DEF Held, NoBlock, Dangles, KindFits
  <2>2. ASSUME b \in DOMAIN heap, IsLeaf(heap'[b]), k = "free" PROVE Held(k, i, b)'
    BY <1>2, <1>3, <1>7, <2>2 DEF Held, KindFits
  <2>3. CASE k = "free" /\ b = name
    <3>1. CASE name \in {NULL, STATIC}
      BY <2>3, <3>1 DEF Held, NoBlock
    <3>2. CASE name \in DOMAIN heap /\ heap[name].kind = "string"
      BY <1>3, <1>7, <2>2, <2>3, <3>2 DEF Sound
    <3> QED  BY <1>6, <3>1, <3>2
  <2>4. CASE k = "free" /\ b = defs
    <3>1. CASE defs = NULL
      BY <2>4, <3>1 DEF Held, NoBlock
    <3> QED  BY <1>6, <1>7, <2>2, <2>4, <3>1
  <2>5. CASE k = "free" /\ b = AST
    BY <1>3, <1>6, <1>7, <2>2, <2>5 DEF Sound
  <2> QED  BY <1>15, <1>18, <2>1, <2>3, <2>4, <2>5
<1>19. ASSUME NEW k, NEW n, NEW i, NEW b, Refers(k, n, i, b)' PROVE Held(k, i, b)'
  <2>1. CASE Refers(k, n, i, b)
    <3>1. Held(k, i, b)
      BY <2>1 DEF OwnInv, AllHeld
    <3>2. k \notin {"kid", "free", "destroy"} => b \notin shared'
      BY <1>2, <3>1, Unshared DEF OwnInv
    <3>3. next' \in Nat /\ next <= next' /\ shared \subseteq shared' /\ faults' = faults
      <4>1. next' = next /\ shared' = shared /\ faults' = faults
        BY <1>2
      <4> QED  BY <1>3, <4>1
    <3> QED  BY <1>3, <1>7, <3>1, <3>2, <3>3, HeldStays
  <2>2. CASE b = NULL
    BY <2>2 DEF Held, NoBlock
  <2> QED  BY <1>16, <1>18, <1>19, <2>1, <2>2
<1>20. \A b : b \in Excused' <=> b \in Excused
  BY <1>2, <1>7 DEF Excused
\* Where a call comes from
<1> DEFINE From(k, i, l, n, j) ==
      \/ k = "destroy" /\ l = "kid" /\ n = defs /\ j = y - i
      \/ k = "free" /\ l = "ast" /\ n = 0 /\ z - i = 1 /\ j = 1
      \/ k = "free" /\ l = "ast" /\ n = 0 /\ z - i = 2 /\ j = 2
      \/ k = "free" /\ l = "ast" /\ n = 0 /\ z - i = 3 /\ j = 4
<1>21. ASSUME NEW k, NEW n, NEW i, NEW b, Comes(k, n, i, b), Owes(b)'
       PROVE  /\ n = 0 /\ i \in Int /\ b \in DOMAIN heap \ Excused
              /\ \E l, m, j : From(k, i, l, m, j) /\ Refers(l, m, j, b) /\ ~Refers(l, m, j, b)'
  <2>1. b \in DOMAIN heap \ Excused /\ b # NULL
    BY <1>3, <1>7, <1>20, <1>21 DEF Owes
  <2>2. n = 0 /\ InCalls(k, i, b)'
    BY <1>16, <1>21, <2>1 DEF Comes
  <2>3. ASSUME NEW j, NEW c, Refers("kid", defs, j, c) PROVE ~Refers("kid", defs, j, c)'
    BY <1>16
  <2>4. ASSUME NEW j PROVE ~Refers("ast", 0, j, b)'
    BY <1>16, <2>1
  <2>5. CASE k = "destroy" /\ y - i \in DOMAIN es /\ b = es[y - i]
    <3>1. Refers("kid", defs, y - i, b)
      BY <1>17, <2>5
    <3> QED  BY <1>15, <2>1, <2>2, <2>3, <2>5, <3>1
  <2>6. CASE k = "free" /\ z - i = 1 /\ b = name
    BY <1>4, <1>15, <2>1, <2>2, <2>4, <2>6
  <2>7. CASE k = "free" /\ z - i = 2 /\ b = defs
    BY <1>4, <1>15, <2>1, <2>2, <2>4, <2>7
  <2>8. CASE k = "free" /\ z - i = 3 /\ b = AST
    BY <1>4, <1>15, <2>1, <2>2, <2>4, <2>8
  <2> QED  BY <1>15, <2>2, <2>5, <2>6, <2>7, <2>8
<1>22. \A k, i, kk, ii, l, n, j :
         i \in Int /\ ii \in Int /\ From(k, i, l, n, j) /\ From(kk, ii, l, n, j) => k = kk /\ i = ii
  OBVIOUS
<1> HIDE DEF From
<1>23. ASSUME NEW b, Owes(b)', NEW k, NEW n, NEW i, NEW l, NEW m, NEW j,
              Comes(k, n, i, b), Comes(l, m, j, b)
       PROVE  k = l /\ n = m /\ i = j
  <2>1. PICK k1, n1, i1 : From(k, i, k1, n1, i1) /\ Refers(k1, n1, i1, b)
    BY <1>21, <1>23
  <2>2. PICK l1, m1, j1 : From(l, j, l1, m1, j1) /\ Refers(l1, m1, j1, b)
    BY <1>21, <1>23
  <2>3. n = 0 /\ m = 0 /\ i \in Int /\ j \in Int /\ b \in DOMAIN heap \ Excused
    BY <1>21, <1>23
  <2>4. k1 = l1 /\ n1 = m1 /\ i1 = j1
    BY <2>1, <2>2, <2>3 DEF OwnInv, Single
  <2> QED  BY <1>22, <2>1, <2>2, <2>3, <2>4
<1>24. ASSUME NEW k, NEW n, NEW i, NEW b, Comes(k, n, i, b), Owes(b)'
       PROVE  \E l, m, j : Goes(l, m, j, b)
  BY <1>21, <1>24 DEF Goes
<1>25. ASSUME NEW k, NEW n, NEW i, NEW b, Goes(k, n, i, b), b \in DOMAIN heap' \ DOMAIN leaked'
       PROVE  \E l, m, j : Refers(l, m, j, b)'
  <2>1. b \in DOMAIN heap /\ b # types
    BY <1>3, <1>7, <1>8, <1>25
  <2>2. ASSUME NEW l \in {"free", "destroy"}, NEW j, InCalls(l, j, b)'
        PROVE  \E kk, m, jj : Refers(kk, m, jj, b)'
    <3>1. Refers(l, 0, j, b)'
      BY <1>16, <2>2
    <3> QED  BY <3>1
  <2>3. \/ k \in {"name", "kid"} /\ n = defs /\ InNode(k, n, i, b)
        \/ k = "ast" /\ InAst(i, b)
    <3>1. ~OnStack(i, b) /\ ~InCalls(k, i, b)
      BY <1>3 DEF OnStack, InCalls
    <3> QED  BY <1>16, <1>25, <3>1 DEF Goes, Refers
  <2>4. CASE k \in {"name", "kid"} /\ n = defs /\ InNode(k, n, i, b)
    <3>1. defs \in DOMAIN heap /\ heap[defs].kind = "buffer" /\ defs # NULL
      BY <1>3, <1>6, <2>4 DEF InNode
    <3>2. heap[defs].names = << >>
      BY <1>3, <3>1 DEF Sound
    <3>3. i \in DOMAIN es /\ b = es[i]
      BY <1>10, <2>4, <3>1, <3>2 DEF InNode
    <3>4. i \in Int
      BY <1>10, <3>3
    <3>5. y - i \in Int /\ y - (y - i) = i
      BY <3>4
    <3>6. InCalls("destroy", y - i, b)'
      BY <1>15, <3>3, <3>5
    <3> QED  BY <2>2, <3>6
  <2>5. CASE k = "ast" /\ InAst(i, b)
    <3>1. b = name \/ b = defs \/ b = AST
      BY <1>1, <2>1, <2>5 DEF InAst
    <3>2. /\ z - 1 \in Int /\ z - (z - 1) = 1
          /\ z - 2 \in Int /\ z - (z - 2) = 2
          /\ z - 3 \in Int /\ z - (z - 3) = 3
      OBVIOUS
    <3>3. InCalls("free", z - 1, name)' /\ InCalls("free", z - 2, defs)' /\ InCalls("free", z - 3, AST)'
      BY <1>15, <3>2
    <3> QED  BY <2>2, <3>1, <3>3
  <2> QED  BY <2>3, <2>4, <2>5
<1>26. Transfers
  BY <1>7, <1>8, <1>19, <1>20, <1>23, <1>24, <1>25 DEF Transfers
<1> QED  BY <1>9, <1>14, <1>26, Transferred

-----------------------------------------------------------------------------
(* All steps together                                                       *)

(* A token that has a value, or a reduction to one without a node.          *)
LEMMA Shifts ==
  ASSUME OwnInv, ShiftName \/ ShiftString \/ ShiftNumber \/ ShiftHex \/ ReduceNothing \/ ReduceVoid
  PROVE  OwnInv'
<1> DEFINE Text == /\ stack' = Append(stack, next)
                   /\ heap' = Overlay(At(next, Leaf("string")), heap) /\ next' = next + 1
           Value(v) == stack' = Append(stack, v) /\ UNCHANGED <<heap, next>>
<1>1. /\ phase = "parse" /\ UNCHANGED <<ast, scope, calls, phase, shared, leaked>>
      /\ "definition" \in faults' => "definition" \in faults
      /\ Text \/ \E v \in {NULL, WILD} : Value(v)
  <2>1. CASE ShiftName
    BY <2>1 DEF ShiftName, Parses, Shifted, analysis
  <2>2. CASE ShiftString
    BY <2>2 DEF ShiftString, Parses, Shifted, Fails, analysis, memory
  <2>3. CASE ShiftNumber
    BY <2>3 DEF ShiftNumber, Parses, Shifted, analysis, memory
  <2>4. CASE ShiftHex
    BY <2>4 DEF ShiftHex, Parses, Shifted, analysis, memory
  <2>5. CASE ReduceNothing
    BY <2>5 DEF ReduceNothing, Parses, Shifted, analysis, memory
  <2>6. CASE ReduceVoid
    BY <2>6 DEF ReduceVoid, Parses, Shifted, Fails, analysis, memory
  <2> QED  BY <2>1, <2>2, <2>3, <2>4, <2>5, <2>6
<1>2. CASE Text
  BY <1>1, <1>2, PushesText
<1>3. CASE \E v \in {NULL, WILD} : Value(v)
  BY <1>1, <1>3, PushesValue
<1> QED  BY <1>1, <1>2, <1>3

(* Steps that end the program, an analysis that begins, and no step.        *)
LEMMA NothingMoves ==
  ASSUME OwnInv, \/ ParserNoMemory \/ ReduceWild \/ Undefined \/ DefinitionNoMemory \/ BeginAnalysis
                 \/ UNCHANGED vars
  PROVE  OwnInv'
<1>1. /\ UNCHANGED <<heap, next, stack, ast, scope, calls, shared, leaked>>
      /\ phase' = phase \/ (phase = "ready" /\ phase' = "analysis")
      /\ "definition" \in faults' <=> "definition" \in faults
  <2>1. CASE ParserNoMemory
    BY <2>1 DEF ParserNoMemory, Parses, Fails, parser, memory, analysis
  <2>2. CASE ReduceWild
    BY <2>2 DEF ReduceWild, Parses, parser, memory, analysis
  <2>3. CASE Undefined
    BY <2>3 DEF Undefined, Pending, parser, analysis
  <2>4. CASE DefinitionNoMemory
    BY <2>4 DEF DefinitionNoMemory, Analyses, Fails, parser, memory, analysis
  <2>5. CASE BeginAnalysis
    BY <2>5 DEF BeginAnalysis, Ready, parser, memory, history
  <2>6. CASE UNCHANGED vars
    BY <2>6 DEF vars, parser, memory, analysis, history
  <2> QED  BY <2>1, <2>2, <2>3, <2>4, <2>5, <2>6
<1> QED  BY <1>1, Unmoved

(* Every step keeps the ownership.                                          *)
LEMMA StepOwns == ASSUME OwnInv, [Next]_vars PROVE OwnInv'
<1>1. CASE ShiftName \/ ShiftString \/ ShiftNumber \/ ShiftHex \/ ReduceNothing \/ ReduceVoid
  BY <1>1, Shifts
<1>2. CASE \/ ParserNoMemory \/ ReduceWild \/ Undefined \/ DefinitionNoMemory \/ BeginAnalysis
           \/ UNCHANGED vars
  BY <1>2, NothingMoves
<1>3. CASE Reduce
  BY <1>3, Reduces
<1>4. CASE ReduceList
  BY <1>4, ReducesList
<1>5. CASE ReduceBody
  BY <1>5, ReducesBody
<1>6. CASE ReduceModule
  BY <1>6, ReducesModule
<1>7. CASE SyntaxError
  BY <1>7, ErrorLoses
<1>8. CASE Nothing
  BY <1>8, DoesNothing
<1>9. CASE Free
  BY <1>9, Freed
<1>10. CASE Destroy
  BY <1>10, Destroyed
<1>11. CASE EndAnalysis
  BY <1>11, Ends
<1>12. CASE CreateArray
  BY <1>12, ArrayDefined
<1>13. CASE ArrayThrows
  BY <1>13, ArrayEnds
<1>14. CASE ArrayNotPushed
  BY <1>14, ArrayLost
<1>15. CASE CreateRecord
  BY <1>15, RecordDefined
<1>16. CASE RecordThrows
  BY <1>16, RecordEnds
<1>17. CASE RecordNotPushed
  BY <1>17, RecordLost
<1>18. CASE UseType
  BY <1>18, TypeUsed
<1>19. CASE AddDefinition
  BY <1>19, VariableDefined
<1>20. CASE AstDestroy
  BY <1>20, AstGone
<1> QED  BY <1>1, <1>2, <1>3, <1>4, <1>5, <1>6, <1>7, <1>8, <1>9, <1>10, <1>11, <1>12, <1>13,
            <1>14, <1>15, <1>16, <1>17, <1>18, <1>19, <1>20 DEF Next

(* Mon_AstNew: the AST, its name if it has one, and nothing else.           *)
LEMMA InitOwns == ASSUME Init PROVE OwnInv
<1>1. /\ stack = << >> /\ scope = << >> /\ calls = << >> /\ phase = "parse"
      /\ leaked = << >> /\ shared = {} /\ faults = {} /\ next = 3
      /\ ast.defs = NULL /\ ast.types = NULL
      /\ ast = [name |-> ast.name, defs |-> ast.defs, types |-> ast.types]
      /\ \/ heap = Overlay(At(AST, Leaf("Ast")), At(AST + 1, Leaf("string"))) /\ ast.name = AST + 1
         \/ heap = At(AST, Leaf("Ast")) /\ ast.name = STATIC
  BY DEF Init, AST
<1>2. /\ AST \in DOMAIN heap /\ heap[AST] = Leaf("Ast")
      /\ \A b \in DOMAIN heap : b = AST \/ (b = AST + 1 /\ b = ast.name /\ heap[b] = Leaf("string"))
      /\ ast.name = STATIC \/ (ast.name = AST + 1 /\ ast.name \in DOMAIN heap)
  <2>1. CASE heap = Overlay(At(AST, Leaf("Ast")), At(AST + 1, Leaf("string"))) /\ ast.name = AST + 1
    <3>1. /\ DOMAIN At(AST, Leaf("Ast")) = {AST} /\ At(AST, Leaf("Ast"))[AST] = Leaf("Ast")
          /\ DOMAIN At(AST + 1, Leaf("string")) = {AST + 1}
          /\ At(AST + 1, Leaf("string"))[AST + 1] = Leaf("string")
          /\ AST # AST + 1
      BY DEF At, AST
    <3> QED  BY <2>1, <3>1 DEF Overlay
  <2>2. CASE heap = At(AST, Leaf("Ast")) /\ ast.name = STATIC
    <3>1. DOMAIN At(AST, Leaf("Ast")) = {AST} /\ At(AST, Leaf("Ast"))[AST] = Leaf("Ast")
      BY DEF At
    <3> QED  BY <2>2, <3>1
  <2> QED  BY <1>1, <2>1, <2>2
<1>3. /\ Sound(Leaf("Ast")) /\ IsLeaf(Leaf("Ast")) /\ Leaf("Ast").kind = "Ast"
      /\ Sound(Leaf("string")) /\ IsLeaf(Leaf("string")) /\ Leaf("string").kind = "string"
  BY SoundLeaf, OtherKinds DEF Kinds
<1>4. /\ DOMAIN << >> = {} /\ << >> \in Seq(Int) /\ << >> \in Seq(CallSet)
  OBVIOUS
<1>5. \A b \in DOMAIN heap : Sound(heap[b]) /\ IsLeaf(heap[b]) /\ heap[b].kind # "Record" /\ b \in 1 .. next - 1
  BY <1>1, <1>2, <1>3 DEF AST
<1>6. HeapInv
  BY <1>1, <1>4, <1>5 DEF HeapInv, AST
<1>7. PhaseInv
  BY <1>1, <1>4 DEF PhaseInv
<1>8. \A k, n, i, b : Refers(k, n, i, b) <=> k = "ast" /\ n = 0 /\ InAst(i, b)
  <2>1. \A k, n, i, b : ~InNode(k, n, i, b)
    BY <1>4, <1>5 DEF InNode, IsLeaf
  <2>2. \A i, b : ~OnStack(i, b) /\ ~InScope(i, b)
    BY <1>1, <1>4 DEF OnStack, InScope
  <2>3. \A k, i, b : ~InCalls(k, i, b)
    BY <1>1, <1>4 DEF InCalls
  <2> QED  BY <2>1, <2>2, <2>3 DEF Refers
<1>9. \A i, b : InAst(i, b) <=> \/ i = 1 /\ b = ast.name
                                \/ i \in {2, 3} /\ b = NULL
                                \/ i = 4 /\ b = AST
  BY <1>1 DEF InAst
<1>10. AllHeld
  <2> SUFFICES ASSUME NEW i, NEW b, InAst(i, b) PROVE Held("ast", i, b)
    BY <1>8 DEF AllHeld
  <2>1. CASE b = NULL \/ (i = 1 /\ b = STATIC)
    BY <2>1 DEF Held, NoBlock
  <2>2. CASE i = 1 /\ b = AST + 1 /\ b \in DOMAIN heap
    <3>1. heap[b].kind = "string"
      BY <1>2, <1>3, <2>2 DEF AST
    <3> QED  BY <1>1, <1>5, <2>2, <3>1 DEF Held, KindFits
  <2>3. CASE i = 4 /\ b = AST
    <3>1. heap[b].kind = "Ast"
      BY <1>2, <1>3, <2>3
    <3> QED  BY <1>1, <1>2, <1>5, <2>3, <3>1 DEF Held, KindFits
  <2> QED  BY <1>2, <1>9, <2>1, <2>2, <2>3
<1>11. Single
  <2>1. NULL \notin DOMAIN heap /\ ast.name # AST
    BY <1>2 DEF NULL, AST, STATIC
  <2> QED  BY <1>8, <1>9, <2>1 DEF Single
<1>12. Owned
  <2> SUFFICES ASSUME NEW b \in DOMAIN heap PROVE \E k, n, i : Refers(k, n, i, b)
    BY DEF Owned
  <2>1. CASE b = AST
    <3>1. Refers("ast", 0, 4, b)
      BY <1>8, <1>9, <2>1
    <3> QED  BY <3>1
  <2>2. CASE b = ast.name
    <3>1. Refers("ast", 0, 1, b)
      BY <1>8, <1>9, <2>2
    <3> QED  BY <3>1
  <2> QED  BY <1>2, <2>1, <2>2
<1> QED  BY <1>6, <1>7, <1>10, <1>11, <1>12 DEF OwnInv

-----------------------------------------------------------------------------
(* How a program ends                                                       *)

\* A program that has ended stays as it ended.
Outcome ==
  /\ result \in {"running", "CRASH", "DOUBLE_FREE", "USE_AFTER_FREE", "BAD_FREE"}
  /\ ops \in 0 .. MAX_CALLS
  /\ SafeUnlessKnown

\* What a step may do to the result and to the bounded counter.
Continues == result = "running" /\ result' = "running" /\ ops' = ops
Counts == result = "running" /\ result' = "running" /\ ops < MAX_CALLS /\ ops' = ops + 1
Breaks == result = "running" /\ ops' = ops /\ (ParserNoMemory \/ ReduceWild \/ Undefined \/ DefinitionNoMemory)

(* Every step does one of these.                                            *)
LEMMA StepContinues ==
  ASSUME [Next]_vars
  PROVE  Continues \/ Counts \/ Breaks \/ UNCHANGED vars
<1>1. CASE ShiftName \/ ShiftString \/ ShiftNumber \/ ShiftHex \/ ReduceNothing \/ ReduceVoid
  BY <1>1 DEF ShiftName, ShiftString, ShiftNumber, ShiftHex, ReduceNothing, ReduceVoid,
              Parses, Running, Continues
<1>2. CASE Reduce \/ ReduceList \/ ReduceBody \/ ReduceModule \/ SyntaxError
  BY <1>2 DEF Reduce, ReduceList, ReduceBody, ReduceModule, SyntaxError, Parses, Running, Continues
<1>3. CASE ParserNoMemory \/ ReduceWild \/ Undefined \/ DefinitionNoMemory
  BY <1>3 DEF ParserNoMemory, ReduceWild, Undefined, DefinitionNoMemory, Parses, Pending,
              Analyses, Running, Breaks
<1>4. CASE Nothing \/ Free \/ Destroy
  BY <1>4 DEF Nothing, Free, Destroy, Pending, Continues
<1>5. CASE EndAnalysis \/ CreateArray \/ ArrayThrows \/ ArrayNotPushed
  BY <1>5 DEF EndAnalysis, CreateArray, ArrayThrows, ArrayNotPushed, Analyses, Running, Continues
<1>6. CASE CreateRecord \/ RecordThrows \/ RecordNotPushed \/ UseType
  BY <1>6 DEF CreateRecord, RecordThrows, RecordNotPushed, UseType, Analyses, Running, Continues
<1>7. CASE AstDestroy
  BY <1>7 DEF AstDestroy, Ready, Running, Continues
<1>8. CASE BeginAnalysis \/ AddDefinition
  BY <1>8 DEF BeginAnalysis, AddDefinition, Ready, Running, Counts
<1> QED  BY <1>1, <1>2, <1>3, <1>4, <1>5, <1>6, <1>7, <1>8 DEF Next

(* A block that is freed or destroyed and is not there is the name of an    *)
(* AST without one, or one that may be referred to twice.                   *)
LEMMA UndefinedKnown ==
  ASSUME OwnInv, Undefined
  PROVE  Subject = STATIC \/ shared # {} \/ "definition" \in faults
<1>1. PICK top : top = Len(calls)
  OBVIOUS
<1>2. calls # << >> /\ Subject \notin DOMAIN heap /\ Subject # NULL
  BY DEF Undefined, Pending
<1>3. Refers(Head(calls).op, 0, top, Subject) /\ Head(calls).op \in {"free", "destroy"}
  BY <1>1, <1>2, FirstCall
<1>4. Held(Head(calls).op, top, Subject)
  BY <1>3 DEF OwnInv, AllHeld
<1> QED  BY <1>2, <1>3, <1>4 DEF Held, NoBlock, Dangles

(* Every step keeps that.                                                   *)
LEMMA StepEnds == ASSUME OwnInv, Outcome, [Next]_vars PROVE Outcome'
<1>1. CASE Continues
  BY <1>1 DEF Continues, Outcome, SafeUnlessKnown
<1>2. CASE Counts
  BY <1>2, BoundsAreNumbers DEF Counts, Outcome, SafeUnlessKnown
<1>3. CASE UNCHANGED vars
  BY <1>3 DEF Outcome, SafeUnlessKnown, vars, parser, history
<1>4. CASE Breaks
  <2>1. ops' \in 0 .. MAX_CALLS
    BY <1>4 DEF Breaks, Outcome
  <2>2. CASE ParserNoMemory \/ DefinitionNoMemory
    <3>1. result' = "CRASH" /\ "node" \in faults'
      BY <2>2 DEF ParserNoMemory, DefinitionNoMemory, Fails
    <3> QED  BY <2>1, <3>1 DEF Outcome, SafeUnlessKnown
  <2>3. CASE ReduceWild
    <3>1. result' = "CRASH" /\ stack' = stack /\ stack # << >> /\ Top(1) = <<WILD>> /\ phase = "parse"
      BY <2>3 DEF ReduceWild, Parses, parser
    <3>2. stack \in Seq(Int) /\ Len(stack) >= 1 /\ Len(stack) \in DOMAIN stack
      BY <3>1, Parsing
    <3>3. Top(1)[1] = stack[Len(stack)]
      BY <3>2, OnTop
    <3>4. WILD \in Range(stack')
      BY <3>1, <3>2, <3>3 DEF Range
    <3> QED  BY <2>1, <3>1, <3>4 DEF Outcome, SafeUnlessKnown
  <2>4. CASE Undefined
    <3>1. /\ Subject = STATIC => result' = "BAD_FREE"
          /\ Subject # STATIC => result' \in {"DOUBLE_FREE", "USE_AFTER_FREE"}
      <4>1. PICK subject, op, how : subject = Subject /\ op = Head(calls).op /\ how = result'
        OBVIOUS
      <4>2. how = IF subject = STATIC THEN "BAD_FREE"
                  ELSE IF op = "free" THEN "DOUBLE_FREE" ELSE "USE_AFTER_FREE"
        BY <2>4, <4>1 DEF Undefined
      <4>3. /\ subject = STATIC => how = "BAD_FREE"
            /\ subject # STATIC => how \in {"DOUBLE_FREE", "USE_AFTER_FREE"}
        BY <4>2
      <4> QED  BY <4>1, <4>3
    <3>4. UNCHANGED <<calls, shared, faults>>
      BY <2>4 DEF Undefined, Pending
    <3>2. CASE Subject = STATIC
      <4>1. result' = "BAD_FREE" /\ Head(calls').block = STATIC
        <5>1. result' = "BAD_FREE"
          BY <3>1, <3>2
        <5>2. Head(calls).block = STATIC
          BY <3>2 DEF Subject
        <5>3. calls' = calls
          BY <3>4
        <5> QED  BY <5>1, <5>2, <5>3
      <4> QED  BY <2>1, <4>1 DEF Outcome, SafeUnlessKnown
    <3>3. CASE Subject # STATIC
      <4>1. result' \in {"DOUBLE_FREE", "USE_AFTER_FREE"}
        BY <3>1, <3>3
      <4>2. shared' # {} \/ "definition" \in faults'
        BY <2>4, <3>3, <3>4, UndefinedKnown
      <4> QED  BY <2>1, <4>1, <4>2 DEF Outcome, SafeUnlessKnown
    <3> QED  BY <3>2, <3>3
  <2> QED  BY <1>4, <2>2, <2>3, <2>4 DEF Breaks
<1> QED  BY <1>1, <1>2, <1>3, <1>4, StepContinues

-----------------------------------------------------------------------------
(* The theorems                                                             *)

(* Every block has the owners it may have and what refers to a block finds  *)
(* it, unless it is known why not; the program ends as it is known to.      *)
THEOREM AstInvariant == Spec => [](OwnInv /\ Outcome)
<1>1. Init => Outcome
  BY BoundsAreNumbers DEF Init, Outcome, SafeUnlessKnown
<1>2. OwnInv /\ Outcome /\ [Next]_vars => (OwnInv /\ Outcome)'
  BY StepOwns, StepEnds
<1> QED  BY <1>1, <1>2, InitOwns, PTL DEF Spec

(* The blocks in use and those dropped were allocated, a block is a node,   *)
(* a string, a buffer, a symbol or the Mon_Ast, and bison's stack is empty  *)
(* unless a parse is running, whatever ended it.                            *)
THEOREM AstTypeOK == Spec => []TypeOK
<1>1. OwnInv /\ Outcome => TypeOK
  <2> SUFFICES ASSUME OwnInv, Outcome PROVE TypeOK
    OBVIOUS
  <2>1. \A b \in DOMAIN heap : b < next /\ heap[b].kind \in DOMAIN Shapes \cup {"Ast", "Symbol"}
    BY DEF OwnInv, HeapInv, Sound, Blocks, Kinds
  <2>2. DOMAIN leaked \subseteq 1 .. next - 1
    BY DEF OwnInv, HeapInv
  <2> QED  BY <2>1, <2>2 DEF TypeOK, Outcome, OwnInv, PhaseInv
<1> QED  BY <1>1, AstInvariant, PTL

\* A reference as References writes it: a pending call is counted from the first.
Written(k, n, i, b) ==
  IF k \in {"free", "destroy"} THEN <<"call", 0, Len(calls) + 1 - i, b>> ELSE <<k, n, i, b>>

\* What References has.
Listed(r) ==
  \/ \E n \in DOMAIN heap : \E i \in DOMAIN heap[n].names : r = <<"name", n, i, heap[n].names[i]>>
  \/ \E n \in DOMAIN heap : \E i \in DOMAIN heap[n].kids : r = <<"kid", n, i, heap[n].kids[i]>>
  \/ \E i \in DOMAIN stack : r = <<"stack", 0, i, stack[i]>>
  \/ \E i \in DOMAIN scope : r = <<"scope", 0, i, scope[i]>>
  \/ \E i \in DOMAIN calls : r = <<"call", 0, i, calls[i].block>>
  \/ r = <<"ast", 0, 1, ast.name>> \/ r = <<"ast", 0, 2, ast.defs>> \/ r = <<"ast", 0, 3, ast.types>>

(* It has no others.                                                        *)
LEMMA ReferencesListed == \A r : r \in References <=> Listed(r)
<1> DEFINE Names(n) == {<<"name", n, i, heap[n].names[i]>> : i \in DOMAIN heap[n].names}
           Kids(n) == {<<"kid", n, i, heap[n].kids[i]>> : i \in DOMAIN heap[n].kids}
           Nodes == UNION {Names(n) \cup Kids(n) : n \in DOMAIN heap}
           Values == {<<"stack", 0, i, stack[i]>> : i \in DOMAIN stack}
           Symbols == {<<"scope", 0, i, scope[i]>> : i \in DOMAIN scope}
           Pendings == {<<"call", 0, i, calls[i].block>> : i \in DOMAIN calls}
           Fields == {<<"ast", 0, 1, ast.name>>, <<"ast", 0, 2, ast.defs>>, <<"ast", 0, 3, ast.types>>}
<1>1. References = Nodes \cup Values \cup Symbols \cup Pendings \cup Fields
  BY DEF References
<1>2. \A n, r : r \in Names(n) <=> \E i \in DOMAIN heap[n].names : r = <<"name", n, i, heap[n].names[i]>>
  OBVIOUS
<1>3. \A n, r : r \in Kids(n) <=> \E i \in DOMAIN heap[n].kids : r = <<"kid", n, i, heap[n].kids[i]>>
  OBVIOUS
<1>4. \A r : r \in Values <=> \E i \in DOMAIN stack : r = <<"stack", 0, i, stack[i]>>
  OBVIOUS
<1>5. \A r : r \in Symbols <=> \E i \in DOMAIN scope : r = <<"scope", 0, i, scope[i]>>
  OBVIOUS
<1>6. \A r : r \in Pendings <=> \E i \in DOMAIN calls : r = <<"call", 0, i, calls[i].block>>
  OBVIOUS
<1>7. \A r : r \in Fields <=>
        r = <<"ast", 0, 1, ast.name>> \/ r = <<"ast", 0, 2, ast.defs>> \/ r = <<"ast", 0, 3, ast.types>>
  OBVIOUS
<1> HIDE DEF Names, Kids, Values, Symbols, Pendings, Fields
<1>8. \A r : r \in Nodes <=> \E n \in DOMAIN heap : r \in Names(n) \/ r \in Kids(n)
  OBVIOUS
<1> HIDE DEF Nodes
<1>9. ASSUME NEW r PROVE r \in References <=> Listed(r)
  <2>1. r \in References <=>
          r \in Nodes \/ r \in Values \/ r \in Symbols \/ r \in Pendings \/ r \in Fields
    BY <1>1
  <2> QED  BY <2>1, <1>2, <1>3, <1>4, <1>5, <1>6, <1>7, <1>8 DEF Listed
<1> QED  BY <1>9

(* References has the references of Refers but for those to the AST.        *)
LEMMA ReferencesWritten ==
  ASSUME calls \in Seq(CallSet)
  PROVE  /\ \A r \in References : \E k, n, i : Refers(k, n, i, r[4]) /\ r = Written(k, n, i, r[4])
         /\ \A k, n, i, b : Refers(k, n, i, b) => b = AST \/ Written(k, n, i, b) \in References
<1>1. PICK m \in Nat : m = Len(calls) /\ DOMAIN calls = 1 .. m
  OBVIOUS
<1>2. ASSUME NEW r \in References
      PROVE  \E k, n, i : Refers(k, n, i, r[4]) /\ r = Written(k, n, i, r[4])
  <2>1. Listed(r)
    BY ReferencesListed
  <2>2. ASSUME NEW n \in DOMAIN heap, NEW i \in DOMAIN heap[n].names, r = <<"name", n, i, heap[n].names[i]>>
        PROVE  Refers("name", n, i, r[4]) /\ r = Written("name", n, i, r[4])
    BY <2>2 DEF Refers, InNode, Written
  <2>3. ASSUME NEW n \in DOMAIN heap, NEW i \in DOMAIN heap[n].kids, r = <<"kid", n, i, heap[n].kids[i]>>
        PROVE  Refers("kid", n, i, r[4]) /\ r = Written("kid", n, i, r[4])
    BY <2>3 DEF Refers, InNode, Written
  <2>4. ASSUME NEW i \in DOMAIN stack, r = <<"stack", 0, i, stack[i]>>
        PROVE  Refers("stack", 0, i, r[4]) /\ r = Written("stack", 0, i, r[4])
    BY <2>4 DEF Refers, OnStack, Written
  <2>5. ASSUME NEW i \in DOMAIN scope, r = <<"scope", 0, i, scope[i]>>
        PROVE  Refers("scope", 0, i, r[4]) /\ r = Written("scope", 0, i, r[4])
    BY <2>5 DEF Refers, InScope, Written
  <2>6. ASSUME NEW p \in DOMAIN calls, r = <<"call", 0, p, calls[p].block>>
        PROVE  \E k, i : Refers(k, 0, i, r[4]) /\ r = Written(k, 0, i, r[4])
    <3>1. PICK i, k, b : i = m + 1 - p /\ k = calls[p].op /\ b = calls[p].block
      OBVIOUS
    <3>2. i \in 1 .. m /\ m + 1 - i = p
      BY <1>1, <3>1
    <3>3. k \in {"free", "destroy"}
      <4>1. calls[p] \in CallSet
        OBVIOUS
      <4> QED  BY <3>1, <4>1 DEF CallSet
    <3>4. Refers(k, 0, i, b)
      BY <1>1, <3>1, <3>2, <3>3 DEF Refers, InCalls
    <3>5. r = Written(k, 0, i, b) /\ r[4] = b
      BY <1>1, <2>6, <3>1, <3>2, <3>3 DEF Written
    <3> QED  BY <3>4, <3>5
  <2>7. ASSUME NEW i, NEW b, InAst(i, b), r = <<"ast", 0, i, b>>
        PROVE  Refers("ast", 0, i, r[4]) /\ r = Written("ast", 0, i, r[4])
    BY <2>7 DEF Refers, Written
  <2>8. InAst(1, ast.name) /\ InAst(2, ast.defs) /\ InAst(3, ast.types)
    BY DEF InAst
  <2> QED  BY <2>1, <2>2, <2>3, <2>4, <2>5, <2>6, <2>7, <2>8 DEF Listed
<1>3. ASSUME NEW k, NEW n, NEW i, NEW b, Refers(k, n, i, b), b # AST
      PROVE  Written(k, n, i, b) \in References
  <2>1. CASE k \in {"name", "kid"} /\ InNode(k, n, i, b)
    <3>1. Written(k, n, i, b) = <<k, n, i, b>>
      BY <2>1 DEF Written
    <3>2. Listed(<<k, n, i, b>>)
      BY <2>1 DEF InNode, Listed
    <3> QED  BY <3>1, <3>2, ReferencesListed
  <2>2. CASE k = "stack" /\ n = 0 /\ OnStack(i, b)
    BY <2>2, ReferencesListed DEF Listed, OnStack, Written
  <2>3. CASE k = "scope" /\ n = 0 /\ InScope(i, b)
    BY <2>3, ReferencesListed DEF Listed, InScope, Written
  <2>4. CASE k \in {"free", "destroy"} /\ n = 0 /\ InCalls(k, i, b)
    <3>1. PICK p : p = m + 1 - i
      OBVIOUS
    <3>2. p \in DOMAIN calls /\ b = calls[p].block
      BY <1>1, <2>4, <3>1 DEF InCalls
    <3>3. Written(k, n, i, b) = <<"call", 0, p, calls[p].block>>
      BY <1>1, <2>4, <3>1, <3>2 DEF Written
    <3> QED  BY <3>2, <3>3, ReferencesListed DEF Listed
  <2>5. CASE k = "ast" /\ n = 0 /\ InAst(i, b)
    <3>1. Written(k, n, i, b) = <<"ast", 0, i, b>>
      BY <2>5 DEF Written
    <3>2. \/ i = 1 /\ b = ast.name
          \/ i = 2 /\ b = ast.defs
          \/ i = 3 /\ b = ast.types
      BY <1>3, <2>5 DEF InAst
    <3> QED  BY <3>1, <3>2, ReferencesListed DEF Listed
  <2> QED  BY <1>3, <2>1, <2>2, <2>3, <2>4, <2>5 DEF Refers
<1> QED  BY <1>2, <1>3

(* No rule of the grammar, constructor, destructor or step of an analysis   *)
(* gives a block a second owner, but for those that are known.              *)
THEOREM AstSingleOwner == Spec => []SingleOwner
<1>1. OwnInv => SingleOwner
  <2> SUFFICES ASSUME OwnInv, NEW r \in References, NEW s \in References,
                      r[4] \in DOMAIN heap \ Excused, r[4] = s[4]
               PROVE  r = s
    BY DEF SingleOwner
  <2>1. calls \in Seq(CallSet)
    BY DEF OwnInv, PhaseInv
  <2>2. PICK k, n, i : Refers(k, n, i, r[4]) /\ r = Written(k, n, i, r[4])
    BY <2>1, ReferencesWritten
  <2>3. PICK l, m, j : Refers(l, m, j, s[4]) /\ s = Written(l, m, j, s[4])
    BY <2>1, ReferencesWritten
  <2>4. k = l /\ n = m /\ i = j
    BY <2>2, <2>3 DEF OwnInv, Single
  <2> QED  BY <2>2, <2>3, <2>4
<1> QED  BY <1>1, AstInvariant, PTL

(* A block that is in use is referred to by a node, bison's stack, a scope, *)
(* a pending call or the AST, unless it was dropped where leaked says: by a *)
(* failed parse, a full vector, a literal, a cast or an analysis.           *)
THEOREM AstNoOrphans == Spec => []NoOrphans
<1>1. OwnInv => NoOrphans
  <2> SUFFICES ASSUME OwnInv, NEW b \in DOMAIN heap, b \notin DOMAIN leaked, b # AST
               PROVE  \E r \in References : b = r[4]
    BY DEF NoOrphans
  <2>1. calls \in Seq(CallSet)
    BY DEF OwnInv, PhaseInv
  <2>2. PICK k, n, i : Refers(k, n, i, b)
    BY DEF OwnInv, Owned
  <2>3. Written(k, n, i, b) \in References
    BY <2>1, <2>2, ReferencesWritten
  <2>4. Written(k, n, i, b)[4] = b
    BY DEF Written
  <2> QED  BY <2>3, <2>4
<1> QED  BY <1>1, AstInvariant, PTL

(* No destructor frees a block twice, reads a freed one or frees what was   *)
(* never allocated, unless the AST has no name, an array of records was     *)
(* analysed, there was no memory for a definition or a node, or a literal   *)
(* had no text.                                                             *)
THEOREM AstSafeUnlessKnown == Spec => []SafeUnlessKnown
<1>1. Outcome => SafeUnlessKnown
  BY DEF Outcome
<1> QED  BY <1>1, AstInvariant, PTL
================================================================================
