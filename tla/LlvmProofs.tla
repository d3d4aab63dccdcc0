------------------------------ MODULE LlvmProofs ------------------------------
(***************************************************************************)
(* LlvmGen and LlvmRun for every list of modules: no local number and no   *)
(* label is given twice in a function; the counters, the context and the   *)
(* values the recursion keeps are what they should be; a literal is first  *)
(* printed with its own index; what is called is defined or declared.      *)
(***************************************************************************)
EXTENDS LlvmRun, Lemmas, FiniteSetTheorems, FunctionTheorems

-----------------------------------------------------------------------------
(* The strengthening                                                        *)

HasLabel(lines, k) == \E i \in DOMAIN lines : lines[i].op = "label" /\ lines[i].info = <<k>>

\* The task will print label k.
Owes(t, k) ==
  \/ t.op = "emit" /\ HasLabel(t.node, k)
  \/ t.op = "ifend" /\ t.node.elseLabel = k

\* Lines that wait to be printed have no results, and one label at most.
TaskOK(t) ==
  /\ t.op = "emit" =>
       /\ IsList(t.node)
       /\ \A i \in DOMAIN t.node : t.node[i].dst = Nowhere
       /\ \A i \in DOMAIN t.node : t.node[i].op = "label" => \E k \in Int : t.node[i].info = <<k>>
       /\ \A i, j \in DOMAIN t.node : t.node[i].op = "label" /\ t.node[j].op = "label" => i = j
  /\ t.op = "ifend" => t.node.elseLabel \in Int

\* The tasks in a, the lines in c, and the counters of locals and labels: what
\* is owed has been taken from the counter, is not printed and is owed once.
Named(a, c, m, n) ==
  /\ IsList(a) /\ IsList(c) /\ m \in Nat /\ n \in Nat
  /\ NamesUnique(c)
  /\ \A i \in DOMAIN c : c[i].dst # Nowhere => \E k \in Nat : k < m /\ c[i].dst = ValLocal(k)
  /\ \A i \in DOMAIN c : c[i].op = "label" => \E k \in Nat : k < n /\ c[i].info = <<k>>
  /\ \A i \in DOMAIN a : TaskOK(a[i])
  /\ \A i \in DOMAIN a : \A k \in Int : Owes(a[i], k) =>
       /\ k \in Nat /\ k < n /\ ~HasLabel(c, k)
       /\ \A j \in DOMAIN a : Owes(a[j], k) => j = i

NamesInv ==
  /\ module \in Modules
  /\ Named(agenda, code, nextLocalId, nextLabel)
  /\ \A f \in DOMAIN output : NamesUnique(output[f])

-----------------------------------------------------------------------------
(* A step of the generator                                                 *)

\* The lines printed by a task t, when the counters go from m, n to m2, n2
Prints(lines, t, m, n, m2, n2) ==
  /\ NamesUnique(lines)
  /\ \A i \in DOMAIN lines : lines[i].dst # Nowhere => \E k \in Nat : m <= k /\ k < m2 /\ lines[i].dst = ValLocal(k)
  /\ \A i \in DOMAIN lines : lines[i].op = "label" =>
       \E k \in Nat : lines[i].info = <<k>> /\ ((n <= k /\ k < n2) \/ Owes(t, k))

\* The tasks that take its place
Leaves(tasks, lines, t, n, n2) ==
  \A i \in DOMAIN tasks :
    /\ TaskOK(tasks[i])
    /\ \A k \in Int : Owes(tasks[i], k) =>
         /\ k \in Nat
         /\ (n <= k /\ k < n2) \/ Owes(t, k)
         /\ ~HasLabel(lines, k)
         /\ \A j \in DOMAIN tasks : Owes(tasks[j], k) => j = i

(* New names come from the counters, or from the task that is done.        *)
LEMMA StepNamed ==
  ASSUME NEW a, NEW c, NEW m, NEW n, Named(a, c, m, n), a # << >>,
         NEW tasks, NEW lines, NEW m2 \in Nat, NEW n2 \in Nat, m <= m2, n <= n2,
         IsList(tasks), IsList(lines),
         Prints(lines, a[1], m, n, m2, n2), Leaves(tasks, lines, a[1], n, n2)
  PROVE  Named(tasks \o Tail(a), c \o lines, m2, n2)
<1> DEFINE b == tasks \o Tail(a)
           d == c \o lines
<1>1. IsList(a) /\ IsList(c) /\ m \in Nat /\ n \in Nat
  BY DEF Named
<1>2. /\ Len(a) \in Nat /\ Len(a) > 0 /\ DOMAIN a = 1 .. Len(a)
      /\ IsList(Tail(a)) /\ Len(Tail(a)) = Len(a) - 1
      /\ \A i \in 1 .. Len(a) - 1 : Tail(a)[i] = a[i + 1]
  BY <1>1, Rest
<1>3. /\ IsList(b)
      /\ Len(tasks) \in Nat /\ DOMAIN tasks = 1 .. Len(tasks)
      /\ DOMAIN b = 1 .. Len(tasks) + (Len(a) - 1)
      /\ \A i \in 1 .. Len(tasks) : b[i] = tasks[i]
      /\ \A i \in DOMAIN b : i > Len(tasks) => b[i] = a[i - Len(tasks) + 1] /\ i - Len(tasks) + 1 \in 2 .. Len(a)
  <2>1. /\ IsList(b)
        /\ Len(tasks) \in Nat /\ DOMAIN tasks = 1 .. Len(tasks)
        /\ DOMAIN b = 1 .. Len(tasks) + (Len(a) - 1)
        /\ \A i \in 1 .. Len(tasks) : b[i] = tasks[i]
    BY <1>2, Joined
  <2>2. ASSUME NEW i \in DOMAIN b, i > Len(tasks)
        PROVE  b[i] = a[i - Len(tasks) + 1] /\ i - Len(tasks) + 1 \in 2 .. Len(a)
    <3>1. i \in 1 .. Len(tasks) + Len(Tail(a))
      BY <1>2, <2>1
    <3>2. b[i] = Tail(a)[i - Len(tasks)] /\ i - Len(tasks) \in DOMAIN Tail(a) /\ DOMAIN Tail(a) = 1 .. Len(Tail(a))
      BY <1>2, <2>2, <3>1, Joined
    <3>3. i - Len(tasks) \in 1 .. Len(a) - 1
      BY <1>2, <3>2
    <3> QED BY <1>2, <2>1, <3>1, <3>2, <3>3
  <2> QED BY <2>1, <2>2
<1>4. /\ IsList(d)
      /\ Len(c) \in Nat /\ Len(lines) \in Nat
      /\ DOMAIN c = 1 .. Len(c) /\ DOMAIN lines = 1 .. Len(lines)
      /\ DOMAIN d = 1 .. Len(c) + Len(lines)
      /\ \A i \in 1 .. Len(c) : d[i] = c[i]
      /\ \A i \in DOMAIN d : i > Len(c) => d[i] = lines[i - Len(c)] /\ i - Len(c) \in DOMAIN lines
  BY <1>1, Joined
<1> HIDE DEF b, d
\* Where a line of the new code comes from
<1>5. ASSUME NEW i \in DOMAIN d
      PROVE  \/ i \in DOMAIN c /\ d[i] = c[i]
             \/ i > Len(c) /\ i - Len(c) \in DOMAIN lines /\ d[i] = lines[i - Len(c)]
  <2>1. CASE i > Len(c)
    BY <1>4, <2>1
  <2>2. CASE ~(i > Len(c))
    <3>1. i \in 1 .. Len(c)
      BY <1>4, <2>2
    <3> QED BY <1>4, <3>1
  <2> QED BY <2>1, <2>2
<1>6. \A i \in DOMAIN c : c[i].dst # Nowhere => \E k \in Nat : k < m /\ c[i].dst = ValLocal(k)
  BY DEF Named
<1>7. \A i \in DOMAIN lines : lines[i].dst # Nowhere => \E k \in Nat : m <= k /\ k < m2 /\ lines[i].dst = ValLocal(k)
  BY DEF Prints
<1>8. \A i \in DOMAIN c : c[i].op = "label" => \E k \in Nat : k < n /\ c[i].info = <<k>> /\ HasLabel(c, k)
  BY DEF Named, HasLabel
<1>9. \A i \in DOMAIN lines : lines[i].op = "label" =>
        \E k \in Nat : lines[i].info = <<k>> /\ ((n <= k /\ k < n2) \/ (k < n /\ k < n2 /\ Owes(a[1], k) /\ ~HasLabel(c, k)))
  <2> SUFFICES ASSUME NEW i \in DOMAIN lines, lines[i].op = "label"
               PROVE  \E k \in Nat : lines[i].info = <<k>> /\ ((n <= k /\ k < n2) \/ (k < n /\ k < n2 /\ Owes(a[1], k) /\ ~HasLabel(c, k)))
    OBVIOUS
  <2>1. PICK k \in Nat : lines[i].info = <<k>> /\ ((n <= k /\ k < n2) \/ Owes(a[1], k))
    BY DEF Prints
  <2>2. 1 \in DOMAIN a
    BY <1>2
  <2>3. Owes(a[1], k) => k < n /\ ~HasLabel(c, k)
    BY <2>2 DEF Named
  <2>4. Owes(a[1], k) => k < n2
    BY <2>3, <1>1
  <2>5. (n <= k /\ k < n2) \/ (k < n /\ k < n2 /\ Owes(a[1], k) /\ ~HasLabel(c, k))
    BY <2>1, <2>3, <2>4
  <2>6. k \in Nat /\ lines[i].info = <<k>>
    BY <2>1
  <2> QED BY <2>5, <2>6, Zenon
<1>10. NamesUnique(d)
  <2> SUFFICES ASSUME NEW i \in DOMAIN d, NEW j \in DOMAIN d, i # j
               PROVE  /\ d[i].dst # Nowhere => d[i].dst # d[j].dst
                      /\ d[i].op = "label" /\ d[j].op = "label" => d[i].info # d[j].info
    BY DEF NamesUnique
  <2>1. CASE i \in DOMAIN c /\ d[i] = c[i] /\ j \in DOMAIN c /\ d[j] = c[j]
    BY <2>1 DEF Named, NamesUnique
  <2>2. CASE /\ i > Len(c) /\ i - Len(c) \in DOMAIN lines /\ d[i] = lines[i - Len(c)]
             /\ j > Len(c) /\ j - Len(c) \in DOMAIN lines /\ d[j] = lines[j - Len(c)]
    <3>1. i - Len(c) # j - Len(c)
      BY <1>4
    <3> QED BY <2>2, <3>1 DEF Prints, NamesUnique
  <2>3. ASSUME NEW x \in DOMAIN c, NEW y \in DOMAIN lines
        PROVE  /\ c[x].dst # Nowhere => c[x].dst # lines[y].dst
               /\ lines[y].dst # Nowhere => c[x].dst # lines[y].dst
               /\ c[x].op = "label" /\ lines[y].op = "label" => c[x].info # lines[y].info
    <3>1. ASSUME c[x].dst # Nowhere, lines[y].dst # Nowhere PROVE c[x].dst # lines[y].dst
      <4>1. PICK k \in Nat : k < m /\ c[x].dst = ValLocal(k)
        BY <1>6, <3>1
      <4>2. PICK l \in Nat : m <= l /\ l < m2 /\ lines[y].dst = ValLocal(l)
        BY <1>7, <3>1
      <4>3. k # l
        BY <1>1, <4>1, <4>2
      <4> QED BY <4>1, <4>2, <4>3 DEF ValLocal
    <3>2. ASSUME c[x].op = "label", lines[y].op = "label" PROVE c[x].info # lines[y].info
      <4>1. PICK k \in Nat : k < n /\ c[x].info = <<k>> /\ HasLabel(c, k)
        BY <1>8, <3>2
      <4>2. PICK l \in Nat : lines[y].info = <<l>> /\ (n <= l \/ ~HasLabel(c, l))
        BY <1>9, <3>2
      <4>3. k # l
        BY <1>1, <4>1, <4>2
      <4> QED BY <4>1, <4>2, <4>3
    <3> QED BY <3>1, <3>2
  <2> QED BY <1>5, <2>1, <2>2, <2>3
<1>11. \A i \in DOMAIN d : d[i].dst # Nowhere => \E k \in Nat : k < m2 /\ d[i].dst = ValLocal(k)
  BY <1>1, <1>5, <1>6, <1>7
<1>12. \A i \in DOMAIN d : d[i].op = "label" => \E k \in Nat : k < n2 /\ d[i].info = <<k>>
  BY <1>1, <1>5, <1>8, <1>9
\* The labels of the new code
<1>13. ASSUME NEW k, HasLabel(d, k) PROVE HasLabel(c, k) \/ HasLabel(lines, k)
  BY <1>5, <1>13 DEF HasLabel
<1>14. ASSUME NEW i \in DOMAIN b
       PROVE  \/ i \in DOMAIN tasks /\ b[i] = tasks[i]
              \/ /\ i > Len(tasks) /\ i - Len(tasks) + 1 \in DOMAIN a /\ i - Len(tasks) + 1 # 1
                 /\ b[i] = a[i - Len(tasks) + 1]
  <2>1. CASE i > Len(tasks)
    <3>1. i - Len(tasks) + 1 \in 2 .. Len(a) /\ b[i] = a[i - Len(tasks) + 1]
      BY <1>3, <2>1
    <3>2. i - Len(tasks) + 1 \in 1 .. Len(a) /\ i - Len(tasks) + 1 # 1
      BY <1>2, <3>1
    <3> QED BY <1>2, <2>1, <3>1, <3>2
  <2>2. CASE ~(i > Len(tasks))
    <3>1. i \in 1 .. Len(tasks)
      BY <1>2, <1>3, <2>2
    <3> QED BY <1>3, <3>1
  <2> QED BY <2>1, <2>2
<1>15. \A i \in DOMAIN b : TaskOK(b[i])
  BY <1>14 DEF Named, Leaves
\* What a task that was there owes is not printed by the head, nor owed by the new tasks.
<1>16. ASSUME NEW x \in DOMAIN a, x # 1, NEW k \in Int, Owes(a[x], k)
       PROVE  k \in Nat /\ k < n /\ ~HasLabel(c, k) /\ ~Owes(a[1], k)
  <2>1. 1 \in DOMAIN a
    BY <1>2
  <2> QED BY <1>16, <2>1 DEF Named
<1>17. ASSUME NEW x \in DOMAIN a, x # 1, NEW k \in Int, Owes(a[x], k)
       PROVE  ~HasLabel(lines, k)
  <2>1. SUFFICES ASSUME HasLabel(lines, k) PROVE FALSE
    OBVIOUS
  <2>2. PICK y \in DOMAIN lines : lines[y].op = "label" /\ lines[y].info = <<k>>
    BY <2>1 DEF HasLabel
  <2>3. PICK l \in Nat : lines[y].info = <<l>> /\ (n <= l \/ Owes(a[1], l))
    BY <1>9, <2>2
  <2>4. l = k
    BY <2>2, <2>3
  <2>5. k \in Nat /\ k < n /\ ~Owes(a[1], k)
    BY <1>16, <1>17
  <2> QED BY <1>1, <2>3, <2>4, <2>5
<1>18. ASSUME NEW x \in DOMAIN a, x # 1, NEW y \in DOMAIN tasks, NEW k \in Int, Owes(a[x], k), Owes(tasks[y], k)
       PROVE  FALSE
  <2>1. k \in Nat /\ k < n /\ ~Owes(a[1], k)
    BY <1>16, <1>18
  <2>2. n <= k \/ Owes(a[1], k)
    BY <1>18 DEF Leaves
  <2> QED BY <1>1, <2>1, <2>2
<1>19. ASSUME NEW i \in DOMAIN b, NEW k \in Int, Owes(b[i], k)
       PROVE  k \in Nat /\ k < n2 /\ ~HasLabel(d, k) /\ \A j \in DOMAIN b : Owes(b[j], k) => j = i
  <2>1. CASE i \in DOMAIN tasks /\ b[i] = tasks[i]
    <3>1. /\ k \in Nat /\ ((n <= k /\ k < n2) \/ Owes(a[1], k)) /\ ~HasLabel(lines, k)
          /\ \A j \in DOMAIN tasks : Owes(tasks[j], k) => j = i
      BY <1>19, <2>1 DEF Leaves
    <3>2. k < n2 /\ ~HasLabel(c, k)
      <4>1. 1 \in DOMAIN a
        BY <1>2
      <4>2. CASE Owes(a[1], k)
        <5>1. k < n /\ ~HasLabel(c, k)
          BY <4>1, <4>2 DEF Named
        <5> QED BY <1>1, <5>1
      <4>3. CASE n <= k /\ k < n2
        <5>1. SUFFICES ASSUME HasLabel(c, k) PROVE FALSE
          BY <4>3
        <5>2. PICK x \in DOMAIN c : c[x].op = "label" /\ c[x].info = <<k>>
          BY <5>1 DEF HasLabel
        <5>3. PICK l \in Nat : l < n /\ c[x].info = <<l>>
          BY <1>8, <5>2
        <5> QED BY <1>1, <4>3, <5>2, <5>3
      <4> QED BY <3>1, <4>2, <4>3
    <3>3. ASSUME NEW j \in DOMAIN b, Owes(b[j], k) PROVE j = i
      BY <1>14, <1>18, <1>19, <2>1, <3>1, <3>3
    <3> QED BY <1>13, <3>1, <3>2, <3>3
  <2>2. CASE i > Len(tasks) /\ i - Len(tasks) + 1 \in DOMAIN a /\ i - Len(tasks) + 1 # 1 /\ b[i] = a[i - Len(tasks) + 1]
    <3>1. k \in Nat /\ k < n /\ ~HasLabel(c, k) /\ ~HasLabel(lines, k)
      BY <1>16, <1>17, <1>19, <2>2
    <3>2. k < n2
      BY <1>1, <3>1
    <3>3. ASSUME NEW j \in DOMAIN b, Owes(b[j], k) PROVE j = i
      <4>1. CASE j \in DOMAIN tasks /\ b[j] = tasks[j]
        BY <1>18, <1>19, <2>2, <3>3, <4>1
      <4>2. CASE j > Len(tasks) /\ j - Len(tasks) + 1 \in DOMAIN a /\ b[j] = a[j - Len(tasks) + 1]
        <5>1. i - Len(tasks) + 1 = j - Len(tasks) + 1
          BY <1>19, <2>2, <3>3, <4>2 DEF Named
        <5> QED BY <1>3, <5>1
      <4> QED BY <1>14, <4>1, <4>2
    <3> QED BY <1>13, <3>1, <3>2, <3>3
  <2> QED BY <1>14, <2>1, <2>2
<1> QED BY <1>3, <1>4, <1>10, <1>11, <1>12, <1>15, <1>19 DEF Named, b, d

\* Tasks that print no label of their own
Plain(tasks) == IsList(tasks) /\ \A i \in DOMAIN tasks : tasks[i].op # "emit" /\ tasks[i].op # "ifend"

(* The tasks the actions leave are plain, or print one label.              *)
LEMMA PlainTasks ==
  /\ \A e, t : Exp(e, t).op = "exp"
  /\ \A e, t : Convert(e, t).op = "convert"
  /\ \A c, t, f : Cond(c, t, f).op = "cond"
  /\ \A b : Block(b).op = "block"
  /\ \A op, x : Task(op, x).op = op
BY DEF Exp, Convert, Cond, Block, Task

(* Short lists of plain tasks are plain, and so is a list joined to one.   *)
LEMMA PlainLists ==
  /\ Plain(<< >>)
  /\ \A t : t.op # "emit" /\ t.op # "ifend" => Plain(<<t>>)
  /\ \A t, u : t.op # "emit" /\ t.op # "ifend" /\ u.op # "emit" /\ u.op # "ifend" => Plain(<<t, u>>)
  /\ \A t, u, v : t.op # "emit" /\ t.op # "ifend" /\ u.op # "emit" /\ u.op # "ifend"
                   /\ v.op # "emit" /\ v.op # "ifend" => Plain(<<t, u, v>>)
BY ShortLists DEF Plain

(* Plain tasks before plain tasks are plain.                               *)
LEMMA PlainJoined == ASSUME NEW s, NEW t, Plain(s), Plain(t) PROVE Plain(s \o t)
<1>1. IsList(s) /\ IsList(t)
  BY DEF Plain
<1>2. SUFFICES ASSUME NEW i \in DOMAIN (s \o t) PROVE (s \o t)[i].op # "emit" /\ (s \o t)[i].op # "ifend"
  BY <1>1, Joined DEF Plain
<1> QED BY <1>1, JoinedElements DEF Plain

(* A step that prints nothing and leaves tasks that print no label.        *)
LEMMA PlainStep ==
  ASSUME NEW a, NEW c, NEW m, NEW n, Named(a, c, m, n), a # << >>,
         NEW m2 \in Nat, NEW n2 \in Nat, m <= m2, n <= n2, NEW tasks, Plain(tasks)
  PROVE  Named(tasks \o Tail(a), c, m2, n2)
<1>1. Prints(<< >>, a[1], m, n, m2, n2)
  BY DEF Prints, NamesUnique
<1>2. Leaves(tasks, << >>, a[1], n, n2)
  BY DEF Leaves, TaskOK, Owes, Plain
<1>3. Named(tasks \o Tail(a), c \o << >>, m2, n2)
  BY <1>1, <1>2, StepNamed, ShortLists DEF Plain
<1> QED BY <1>3, JoinedToNothing DEF Named

\* Task t prints no label but k, none at all if k is -1.
Marks(t, k) == TaskOK(t) /\ \A l \in Int : Owes(t, l) => l = k /\ k # -1

(* A step that prints nothing and leaves tasks with labels: new ones, or    *)
(* one that the head owes.                                                 *)
LEMMA LabelStep ==
  ASSUME NEW a, NEW c, NEW m, NEW n, Named(a, c, m, n), a # << >>,
         NEW n2 \in Nat, n <= n2, NEW tasks, IsList(tasks),
         NEW p, \A i \in DOMAIN tasks : p[i] \in Int /\ Marks(tasks[i], p[i]),
         \A i \in DOMAIN tasks : p[i] = -1 \/ (n <= p[i] /\ p[i] < n2) \/ Owes(a[1], p[i]),
         \A i, j \in DOMAIN tasks : p[i] # -1 /\ p[i] = p[j] => i = j
  PROVE  Named(tasks \o Tail(a), c, m, n2)
<1>1. Prints(<< >>, a[1], m, n, m, n2)
  BY DEF Prints, NamesUnique
<1>2. m \in Nat /\ m <= m /\ n \in Nat /\ 1 \in DOMAIN a
  BY Rest DEF Named
<1>3. ASSUME NEW i \in DOMAIN tasks, NEW k \in Int, Owes(tasks[i], k)
      PROVE  /\ k \in Nat
             /\ (n <= k /\ k < n2) \/ Owes(a[1], k)
             /\ ~HasLabel(<< >>, k)
             /\ \A j \in DOMAIN tasks : Owes(tasks[j], k) => j = i
  <2>1. k = p[i] /\ p[i] # -1
    BY <1>3 DEF Marks
  <2>2. (n <= k /\ k < n2) \/ Owes(a[1], k)
    BY <2>1
  <2>3. k \in Nat
    BY <1>2, <2>2 DEF Named
  <2>4. \A j \in DOMAIN tasks : Owes(tasks[j], k) => j = i
    BY <2>1 DEF Marks
  <2> QED BY <2>2, <2>3, <2>4 DEF HasLabel
<1>4. Leaves(tasks, << >>, a[1], n, n2)
  BY <1>3 DEF Leaves, Marks
<1>5. Named(tasks \o Tail(a), c \o << >>, m, n2)
  BY <1>1, <1>2, <1>4, StepNamed, ShortLists
<1> QED BY <1>5, JoinedToNothing DEF Named

(* What the tasks that print lines mark                                    *)
LEMMA TaskMarks ==
  /\ \A t : t.op # "emit" /\ t.op # "ifend" => Marks(t, -1)
  /\ \A k \in Int : k # -1 => Marks(Lines(<<Label(k)>>), k)
  /\ \A e : \A k \in Int : k # -1 => Marks(Lines(<<Branch(e), Label(k)>>), k)
  /\ \A e : Marks(Lines(<<Branch(e)>>), -1)
  /\ \A s : \A k \in Int : k # -1 => Marks(Task("ifend", [node |-> s, elseLabel |-> k]), k)
  /\ \A op, args, info : op # "label" => Marks(Lines(<<Line(op, Nowhere, args, info)>>), -1)
BY ShortLists DEF Marks, TaskOK, Owes, HasLabel, Lines, Task, Label, Branch, Line

(* A step that prints lines that are no labels and leaves no task.         *)
LEMMA PrintStep ==
  ASSUME NEW a, NEW c, NEW m, NEW n, Named(a, c, m, n), a # << >>,
         NEW m2 \in Nat, m <= m2,
         NEW lines, IsList(lines), \A i \in DOMAIN lines : lines[i].op # "label",
         \A i \in DOMAIN lines : lines[i].dst # Nowhere => \E k \in Nat : m <= k /\ k < m2 /\ lines[i].dst = ValLocal(k),
         \A i, j \in DOMAIN lines : i # j /\ lines[i].dst # Nowhere => lines[i].dst # lines[j].dst
  PROVE  Named(<< >> \o Tail(a), c \o lines, m2, n)
<1>1. Prints(lines, a[1], m, n, m2, n)
  BY DEF Prints, NamesUnique
<1>2. Leaves(<< >>, lines, a[1], n, n)
  BY DEF Leaves
<1>3. n \in Nat /\ n <= n
  BY DEF Named
<1> QED BY <1>1, <1>2, <1>3, StepNamed, ShortLists

(* One instruction with the next local number                              *)
LEMMA ResultStep ==
  ASSUME NEW a, NEW c, NEW m, NEW n, Named(a, c, m, n), a # << >>,
         NEW op, op # "label", NEW args, NEW info
  PROVE  Named(<< >> \o Tail(a), c \o <<Line(op, ValLocal(m), args, info)>>, m + 1, n)
<1>1. m \in Nat /\ m + 1 \in Nat /\ m <= m /\ m < m + 1 /\ m <= m + 1
  BY DEF Named
<1> QED BY <1>1, PrintStep, ShortLists DEF Line

(* One line without a result                                               *)
LEMMA LineStep ==
  ASSUME NEW a, NEW c, NEW m, NEW n, Named(a, c, m, n), a # << >>,
         NEW op, op # "label", NEW args, NEW info
  PROVE  Named(<< >> \o Tail(a), c \o <<Line(op, Nowhere, args, info)>>, m, n)
<1>1. m \in Nat /\ m <= m
  BY DEF Named
<1> QED BY <1>1, PrintStep, ShortLists DEF Line

(* Printed lines are appended.                                             *)
LEMMA Printed == ASSUME NEW STATE lines, Emit(lines) PROVE code' = code \o lines
BY DEF Emit

-----------------------------------------------------------------------------
(* Each action                                                             *)

Keeps == Named(agenda', code', nextLocalId', nextLabel')

(* The lines that waited are printed.                                      *)
LEMMA EmitLinesNamed == ASSUME NamesInv, EmitLines PROVE Keeps
<1>1. /\ agenda # << >> /\ agenda[1].op = "emit"
      /\ agenda' = << >> \o Tail(agenda)
      /\ nextLocalId' = nextLocalId /\ nextLabel' = nextLabel
  BY DEF EmitLines, At, Done, Then
<1>2. code' = code \o agenda[1].node
  BY DEF EmitLines, Emit, node
<1>3. Named(agenda, code, nextLocalId, nextLabel)
  BY DEF NamesInv
<1>4. nextLocalId \in Nat /\ nextLabel \in Nat /\ nextLocalId <= nextLocalId /\ nextLabel <= nextLabel
  BY <1>3 DEF Named
<1>5. 1 \in DOMAIN agenda
  BY <1>1, <1>3, Rest DEF Named
<1>6. TaskOK(agenda[1])
  BY <1>3, <1>5 DEF Named
<1>7. ASSUME NEW i \in DOMAIN agenda[1].node, agenda[1].node[i].op = "label"
      PROVE  \E k \in Nat : agenda[1].node[i].info = <<k>> /\ Owes(agenda[1], k)
  <2>1. PICK k \in Int : agenda[1].node[i].info = <<k>>
    BY <1>1, <1>6, <1>7 DEF TaskOK
  <2>2. Owes(agenda[1], k)
    BY <1>1, <1>7, <2>1 DEF Owes, HasLabel
  <2>3. k \in Nat
    BY <1>3, <1>5, <2>2 DEF Named
  <2> QED BY <2>1, <2>2, <2>3
<1>8. Prints(agenda[1].node, agenda[1], nextLocalId, nextLabel, nextLocalId, nextLabel)
  <2>1. NamesUnique(agenda[1].node)
    BY <1>1, <1>6 DEF TaskOK, NamesUnique
  <2>2. \A i \in DOMAIN agenda[1].node : agenda[1].node[i].dst = Nowhere
    BY <1>1, <1>6 DEF TaskOK
  <2> QED BY <1>7, <2>1, <2>2 DEF Prints
<1>9. Leaves(<< >>, agenda[1].node, agenda[1], nextLabel, nextLabel)
  BY DEF Leaves
<1>10. IsList(agenda[1].node)
  BY <1>1, <1>6 DEF TaskOK
<1> HIDE DEF NamesInv
<1>11. Named(<< >> \o Tail(agenda), code \o agenda[1].node, nextLocalId, nextLabel)
  BY <1>1, <1>3, <1>4, <1>8, <1>9, <1>10, StepNamed, ShortLists
<1> QED BY <1>1, <1>2, <1>11 DEF Keeps

(* A condition takes a label, which one of its tasks will print.           *)
LEMMA ConditionNamed == ASSUME NamesInv, CompileCondition PROVE Keeps
<1> DEFINE c == node.cond
           t == Targets(c, node.ifTrue, node.ifFalse)
<1>1. /\ agenda # << >>
      /\ code' = code /\ nextLocalId' = nextLocalId
      /\ Named(agenda, code, nextLocalId, nextLabel)
  BY DEF CompileCondition, At, NamesInv
<1>2. nextLabel \in Nat /\ nextLabel # -1 /\ nextLabel <= nextLabel + 1 /\ nextLabel + 1 \in Nat
      /\ nextLocalId \in Nat /\ nextLocalId <= nextLocalId /\ nextLabel <= nextLabel /\ nextLabel < nextLabel + 1
  BY <1>1 DEF Named
<1>3. ASSUME NEW tl, NEW fl, NEW tr, NEW fr, nextLabel' = nextLabel + 1,
             agenda' = <<Cond(c.left, tl, fl), Lines(<<Label(nextLabel)>>), Cond(c.right, tr, fr)>> \o Tail(agenda)
      PROVE  Keeps
  <2> DEFINE tasks == <<Cond(c.left, tl, fl), Lines(<<Label(nextLabel)>>), Cond(c.right, tr, fr)>>
             p == <<-1, nextLabel, -1>>
  <2>1. Marks(Cond(c.left, tl, fl), -1) /\ Marks(Lines(<<Label(nextLabel)>>), nextLabel) /\ Marks(Cond(c.right, tr, fr), -1)
    BY <1>2, PlainTasks, TaskMarks
  <2>2. IsList(tasks)
    BY ShortLists
  <2>3. \A i \in DOMAIN tasks : p[i] \in Int /\ Marks(tasks[i], p[i])
    BY <1>2, <2>1
  <2>4. /\ \A i \in DOMAIN tasks : p[i] = -1 \/ (nextLabel <= p[i] /\ p[i] < nextLabel + 1)
        /\ \A i, j \in DOMAIN tasks : p[i] # -1 /\ p[i] = p[j] => i = j
    BY <1>2
  <2> HIDE DEF tasks, p
  <2>5. Named(tasks \o Tail(agenda), code, nextLocalId, nextLabel + 1)
    BY <1>1, <1>2, <2>2, <2>3, <2>4, LabelStep
  <2> QED BY <1>1, <1>3, <2>5 DEF Keeps, tasks
<1>4. CASE nextLabel' = nextLabel /\ agenda' = <<Exp(c.left, c.left.type), Exp(c.right, c.left.type),
                      Task("compare", [op |-> c.op, type |-> c.left.type, to |-> t])>> \o Tail(agenda)
  <2> DEFINE tasks == <<Exp(c.left, c.left.type), Exp(c.right, c.left.type),
                      Task("compare", [op |-> c.op, type |-> c.left.type, to |-> t])>>
  <2>1. Plain(tasks)
    BY PlainTasks, PlainLists
  <2> HIDE DEF tasks
  <2>2. Named(tasks \o Tail(agenda), code, nextLocalId, nextLabel)
    BY <1>1, <1>2, <2>1, PlainStep
  <2> QED BY <1>1, <1>4, <2>2 DEF Keeps, tasks
<1> QED BY <1>3, <1>4 DEF CompileCondition, Then

(* An action that prints nothing and leaves plain tasks                    *)
LEMMA PlainAction ==
  ASSUME NamesInv, agenda # << >>, NEW STATE tasks, Plain(tasks), agenda' = tasks \o Tail(agenda),
         UNCHANGED <<code, nextLocalId, nextLabel>>
  PROVE  Keeps
<1>1. Named(agenda, code, nextLocalId, nextLabel)
  BY DEF NamesInv
<1>2. nextLocalId \in Nat /\ nextLocalId <= nextLocalId /\ nextLabel \in Nat /\ nextLabel <= nextLabel
  BY <1>1 DEF Named
<1>3. Named(tasks \o Tail(agenda), code, nextLocalId, nextLabel)
  BY <1>1, <1>2, PlainStep
<1> QED BY <1>3 DEF Keeps

(* An instruction with a result                                            *)
LEMMA InstructionAction ==
  ASSUME NamesInv, agenda # << >>, NEW STATE k, NEW STATE op, op # "label", NEW STATE args, NEW STATE info,
         Instruction(k, op, args, info), nextLabel' = nextLabel
  PROVE  Keeps
<1>1. code' = code \o <<Line(op, ValLocal(nextLocalId), args, info)>>
  BY Printed DEF Instruction
<1>2. agenda' = << >> \o Tail(agenda) /\ nextLocalId' = nextLocalId + 1
  BY DEF Instruction, Done, Then
<1>3. Named(<< >> \o Tail(agenda), code \o <<Line(op, ValLocal(nextLocalId), args, info)>>, nextLocalId + 1, nextLabel)
  BY ResultStep DEF NamesInv
<1> QED BY <1>1, <1>2, <1>3 DEF Keeps

(* A line without a result                                                 *)
LEMMA LineAction ==
  ASSUME NamesInv, agenda # << >>, NEW STATE op, op # "label", NEW STATE args, NEW STATE info,
         Emit(<<Line(op, Nowhere, args, info)>>), Done, UNCHANGED <<nextLocalId, nextLabel>>
  PROVE  Keeps
<1>1. code' = code \o <<Line(op, Nowhere, args, info)>>
  BY Printed
<1>2. agenda' = << >> \o Tail(agenda)
  BY DEF Done, Then
<1>3. Named(<< >> \o Tail(agenda), code \o <<Line(op, Nowhere, args, info)>>, nextLocalId, nextLabel)
  BY LineStep DEF NamesInv
<1> QED BY <1>1, <1>2, <1>3 DEF Keeps

(* Two lines, of which the first or the second or both have results        *)
LEMMA TwoLines ==
  ASSUME NEW a, NEW c, NEW m, NEW n, Named(a, c, m, n), a # << >>, NEW m2 \in Nat, m <= m2,
         NEW x, NEW y, x.op # "label", y.op # "label",
         x.dst # Nowhere => \E k \in Nat : m <= k /\ k < m2 /\ x.dst = ValLocal(k),
         y.dst # Nowhere => \E k \in Nat : m <= k /\ k < m2 /\ y.dst = ValLocal(k),
         x.dst # y.dst
  PROVE  Named(<< >> \o Tail(a), c \o <<x, y>>, m2, n)
<1> DEFINE lines == <<x, y>>
<1>1. IsList(lines)
  BY ShortLists
<1>2. DOMAIN lines = 1 .. 2 /\ lines[1] = x /\ lines[2] = y
  OBVIOUS
<1> HIDE DEF lines
<1>3. \A i \in DOMAIN lines : lines[i] = x \/ lines[i] = y
  BY <1>2
<1>4. \A i \in DOMAIN lines : lines[i].op # "label"
  BY <1>3
<1>5. \A i \in DOMAIN lines : lines[i].dst # Nowhere => \E k \in Nat : m <= k /\ k < m2 /\ lines[i].dst = ValLocal(k)
  BY <1>3
<1>6. \A i, j \in DOMAIN lines : i # j /\ lines[i].dst # Nowhere => lines[i].dst # lines[j].dst
  BY <1>2
<1>7. Named(<< >> \o Tail(a), c \o lines, m2, n)
  BY <1>1, <1>4, <1>5, <1>6, PrintStep
<1> QED BY <1>7 DEF lines

(* A comparison and its branch                                             *)
LEMMA ComparisonNamed == ASSUME NamesInv, CompileComparison PROVE Keeps
<1> DEFINE how == IF IsFloat(node.type) /\ ~IsInteger(node.type) THEN "fcmp" ELSE "icmp"
           x == Line("cmp", ValLocal(nextLocalId), Top(2), <<how, node.op, TypeRef(node.type)>>)
           y == Line("condbr", Nowhere, <<ValLocal(nextLocalId)>>, node.to)
<1>1. Named(agenda, code, nextLocalId, nextLabel) /\ nextLocalId \in Nat
  BY DEF NamesInv, Named
<1>2. /\ Emit(<<x, y>>) /\ agenda # << >> /\ agenda' = << >> \o Tail(agenda)
      /\ nextLocalId' = nextLocalId + 1 /\ nextLabel' = nextLabel
  BY DEF CompileComparison, At, Done, Then
<1>4. x.op # "label" /\ y.op # "label" /\ x.dst = ValLocal(nextLocalId) /\ y.dst = Nowhere
  BY DEF Line
<1>5. nextLocalId + 1 \in Nat /\ nextLocalId <= nextLocalId + 1 /\ nextLocalId < nextLocalId + 1
      /\ nextLocalId <= nextLocalId /\ ValLocal(nextLocalId) # Nowhere
  BY <1>1 DEF ValLocal, Nowhere
<1> HIDE DEF x, y
<1>3. code' = code \o <<x, y>>
  BY <1>2, Printed
<1>6. Named(<< >> \o Tail(agenda), code \o <<x, y>>, nextLocalId + 1, nextLabel)
  BY <1>1, <1>2, <1>4, <1>5, TwoLines
<1> QED BY <1>2, <1>3, <1>6 DEF Keeps

(* An expression is its parts; a conditional takes three labels.           *)
LEMMA ExpNamed == ASSUME NamesInv, CompileExp PROVE Keeps
<1> DEFINE e == node.exp
<1>1. /\ agenda # << >> /\ code' = code /\ nextLocalId' = nextLocalId
      /\ Named(agenda, code, nextLocalId, nextLabel) /\ nextLocalId \in Nat /\ nextLabel \in Nat
  BY DEF CompileExp, At, NamesInv, Named
<1>2. ASSUME NEW STATE tasks, Plain(tasks), Then(tasks), nextLabel' = nextLabel PROVE Keeps
  BY <1>1, <1>2, PlainAction DEF Then
<1>3. ASSUME NEW STATE tasks, Plain(tasks), Then(tasks \o <<Convert(e, node.target)>>), nextLabel' = nextLabel PROVE Keeps
  <2>1. Plain(<<Convert(e, node.target)>>)
    BY PlainTasks, PlainLists
  <2>2. Plain(tasks \o <<Convert(e, node.target)>>)
    BY <1>3, <2>1, PlainJoined
  <2> QED BY <1>2, <1>3, <2>2
<1>4. Plain(<<Convert(e, node.target)>>)
  BY PlainTasks, PlainLists
<1>5. CASE e.kind \in {"lit", "str", "null"}
  BY <1>2, <1>4, <1>5 DEF CompileExp
<1>6. CASE e.kind = "unop"
  <2>1. Plain(<<Exp(e.of, e.of.type), Task("unop", [op |-> e.op, type |-> e.of.type])>>)
    BY PlainTasks, PlainLists
  <2> QED BY <1>3, <1>6, <2>1 DEF CompileExp
<1>7. CASE e.kind = "binop"
  <2>1. Plain(<<Exp(e.left, e.type), Exp(e.right, e.type), Task("binop", [op |-> e.op, type |-> e.type])>>)
    BY PlainTasks, PlainLists
  <2> QED BY <1>3, <1>7, <2>1 DEF CompileExp
<1>8. CASE e.kind = "cast"
  <2>1. Plain(<<Exp(e.of, e.type)>>)
    BY PlainTasks, PlainLists
  <2> QED BY <1>3, <1>8, <2>1 DEF CompileExp
<1>9. CASE e.kind = "var"
  <2>1. Plain(<<Task("var", e.var), Task("load", e.type)>>)
    BY PlainTasks, PlainLists
  <2> QED BY <1>3, <1>9, <2>1 DEF CompileExp
<1>10. CASE e.kind = "call"
  <2>1. Plain(<<Task("call", e.call)>>)
    BY PlainTasks, PlainLists
  <2> QED BY <1>3, <1>10, <2>1 DEF CompileExp
<1>11. CASE e.kind = "new"
  <2>1. Plain(<<Task("alloc", e.type)>>)
    BY PlainTasks, PlainLists
  <2> QED BY <1>2, <1>11, <2>1 DEF CompileExp
<1>12. CASE e.kind = "newarr"
  <2>1. Plain(<<Exp(e.size, tIntPtr), Task("scale", e.type), Task("alloc", e.type)>>)
    BY PlainTasks, PlainLists
  <2> QED BY <1>2, <1>12, <2>1 DEF CompileExp
<1>13. CASE e.kind = "condexp"
  <2> DEFINE n == nextLabel
             tasks == <<Cond(e.cond, n, n + 1),
                        Lines(<<Label(n)>>), Exp(e.left, e.type), Task("armend", n + 2),
                        Lines(<<Label(n + 1)>>), Exp(e.right, e.type), Task("armend", n + 2),
                        Lines(<<Label(n + 2)>>), Task("phi", e.type), Convert(e, node.target)>>
             p == <<-1, n, -1, -1, n + 1, -1, -1, n + 2, -1, -1>>
  <2>1. agenda' = tasks \o Tail(agenda) /\ nextLabel' = n + 3
    BY <1>13 DEF CompileExp, Then
  <2>2. /\ n \in Int /\ n + 1 \in Int /\ n + 2 \in Int /\ n + 3 \in Nat /\ n <= n + 3
        /\ n # -1 /\ n + 1 # -1 /\ n + 2 # -1
    BY <1>1
  <2>3. /\ Marks(Cond(e.cond, n, n + 1), -1) /\ Marks(Lines(<<Label(n)>>), n) /\ Marks(Exp(e.left, e.type), -1)
        /\ Marks(Task("armend", n + 2), -1) /\ Marks(Lines(<<Label(n + 1)>>), n + 1) /\ Marks(Exp(e.right, e.type), -1)
        /\ Marks(Lines(<<Label(n + 2)>>), n + 2) /\ Marks(Task("phi", e.type), -1) /\ Marks(Convert(e, node.target), -1)
    BY <2>2, PlainTasks, TaskMarks
  <2>4. IsList(tasks)
    <3>1. tasks \in Seq({tasks[1], tasks[2], tasks[3], tasks[4], tasks[5], tasks[6], tasks[7], tasks[8], tasks[9], tasks[10]})
      OBVIOUS
    <3> QED BY <3>1, SeqIsList
  <2>5. \A i \in DOMAIN tasks : p[i] \in Int /\ Marks(tasks[i], p[i])
    BY <2>2, <2>3
  <2>6. /\ \A i \in DOMAIN tasks : p[i] = -1 \/ (n <= p[i] /\ p[i] < n + 3)
        /\ \A i, j \in DOMAIN tasks : p[i] # -1 /\ p[i] = p[j] => i = j
    <3>1. DOMAIN tasks = 1 .. 10
      OBVIOUS
    <3>2. \A i \in 1 .. 10 : p[i] = -1 \/ (i = 2 /\ p[i] = n) \/ (i = 5 /\ p[i] = n + 1) \/ (i = 8 /\ p[i] = n + 2)
      OBVIOUS
    <3>3. n <= n /\ n <= n + 1 /\ n <= n + 2 /\ n < n + 3 /\ n + 1 < n + 3 /\ n + 2 < n + 3
          /\ n # n + 1 /\ n # n + 2 /\ n + 1 # n + 2
      BY <1>1
    <3> HIDE DEF tasks, p
    <3>4. \A i \in 1 .. 10 : p[i] = -1 \/ (n <= p[i] /\ p[i] < n + 3)
      BY <3>2, <3>3
    <3>5. \A i, j \in 1 .. 10 : p[i] # -1 /\ p[i] = p[j] => i = j
      BY <3>2, <3>3
    <3> QED BY <3>1, <3>4, <3>5
  <2> HIDE DEF tasks, p
  <2>7. Named(tasks \o Tail(agenda), code, nextLocalId, n + 3)
    BY <1>1, <2>2, <2>4, <2>5, <2>6, LabelStep
  <2> QED BY <1>1, <2>1, <2>7 DEF Keeps
<1> QED BY <1>5, <1>6, <1>7, <1>8, <1>9, <1>10, <1>11, <1>12, <1>13 DEF CompileExp

(* The end of an arm prints a label that it takes itself.                  *)
LEMMA ArmEndNamed == ASSUME NamesInv, CompileArmEnd PROVE Keeps
<1> DEFINE n == nextLabel
           lines == <<Branch(n), Label(n), Branch(node)>>
<1>1. /\ Named(agenda, code, nextLocalId, n) /\ n \in Nat /\ n + 1 \in Nat /\ n <= n + 1 /\ n <= n /\ n < n + 1
      /\ nextLocalId \in Nat /\ nextLocalId <= nextLocalId
  BY DEF NamesInv, Named
<1>2. /\ Emit(lines) /\ agenda # << >> /\ agenda' = << >> \o Tail(agenda)
      /\ nextLocalId' = nextLocalId /\ nextLabel' = n + 1
  BY DEF CompileArmEnd, At, Done, Then
<1>3. IsList(lines)
  BY ShortLists
<1>4. Prints(lines, agenda[1], nextLocalId, n, nextLocalId, n + 1)
  <2>1. \A i \in DOMAIN lines : lines[i].dst = Nowhere /\ (lines[i].op = "label" => i = 2 /\ lines[i].info = <<n>>)
    BY DEF Branch, Label, Line
  <2> HIDE DEF lines
  <2> QED BY <1>1, <2>1 DEF Prints, NamesUnique
<1>5. Leaves(<< >>, lines, agenda[1], n, n + 1)
  BY DEF Leaves
<1> HIDE DEF lines
<1>6. Named(<< >> \o Tail(agenda), code \o lines, nextLocalId, n + 1)
  BY <1>1, <1>2, <1>3, <1>4, <1>5, StepNamed, ShortLists
<1>7. code' = code \o lines
  BY <1>2, Printed
<1> QED BY <1>2, <1>6, <1>7 DEF Keeps

(* The instructions of an operation take one local number each.            *)
LEMMA OperationNamed == ASSUME NamesInv, CompileOperation PROVE Keeps
<1> DEFINE m == nextLocalId
<1>1. /\ Named(agenda, code, m, nextLabel) /\ agenda # << >> /\ nextLabel' = nextLabel
      /\ m \in Nat /\ m + 1 \in Nat /\ m + 2 \in Nat /\ m <= m /\ m <= m + 1 /\ m <= m + 2 /\ m < m + 2 /\ m + 1 < m + 2
      /\ m # m + 1
  BY DEF CompileOperation, At, NamesInv, Named, Instruction
<1>2. ASSUME NEW STATE k, NEW STATE op, op # "label", NEW STATE args, NEW STATE info, Instruction(k, op, args, info)
      PROVE  Keeps
  BY <1>1, <1>2, InstructionAction
<1>3. CASE /\ Emit(<<Line("bin", ValLocal(m + 1), <<ValLiteral("0"), Top(1)[1]>>, <<"i", "sub", TypeRef(node.type)>>)>>)
           /\ nextLocalId' = m + 2 /\ Done
  <2> DEFINE l == Line("bin", ValLocal(m + 1), <<ValLiteral("0"), Top(1)[1]>>, <<"i", "sub", TypeRef(node.type)>>)
  <2>1. l.op # "label" /\ l.dst = ValLocal(m + 1)
    BY DEF Line
  <2>2. IsList(<<l>>)
    BY ShortLists
  <2> HIDE DEF l
  <2>3. Named(<< >> \o Tail(agenda), code \o <<l>>, m + 2, nextLabel)
    BY <1>1, <2>1, <2>2, PrintStep
  <2>4. code' = code \o <<l>>
    BY <1>3, Printed DEF l
  <2> QED BY <1>1, <1>3, <2>3, <2>4 DEF Keeps, Done, Then
<1>4. CASE Done /\ UNCHANGED <<code, nextLocalId>>
  BY <1>1, <1>4, PlainAction, PlainLists DEF Done, Then
<1>5. CASE /\ Emit(<<Line("call", ValLocal(m), Top(1), <<"GcAlloc">>),
                     Line("bitcast", ValLocal(m + 1), <<ValLocal(m)>>, <<BytePtr, TypeRef(node)>>)>>)
           /\ nextLocalId' = m + 2 /\ Done
  <2> DEFINE x == Line("call", ValLocal(m), Top(1), <<"GcAlloc">>)
             y == Line("bitcast", ValLocal(m + 1), <<ValLocal(m)>>, <<BytePtr, TypeRef(node)>>)
  <2>1. x.op # "label" /\ y.op # "label" /\ x.dst = ValLocal(m) /\ y.dst = ValLocal(m + 1)
    BY DEF Line
  <2>2. ValLocal(m) # ValLocal(m + 1)
    BY <1>1 DEF ValLocal
  <2> HIDE DEF x, y
  <2>3. Named(<< >> \o Tail(agenda), code \o <<x, y>>, m + 2, nextLabel)
    BY <1>1, <2>1, <2>2, TwoLines
  <2>4. code' = code \o <<x, y>>
    BY <1>5, Printed DEF x, y
  <2> QED BY <1>1, <1>5, <2>3, <2>4 DEF Keeps, Done, Then
<1>6. CASE At("phi") \/ At("load") \/ At("scale")
  BY <1>2, <1>6 DEF CompileOperation, At
<1>7. CASE At("binop") /\ (IsFloat(node.type) \/ IsInteger(node.type))
  BY <1>2, <1>7 DEF CompileOperation, At
<1>8. CASE At("unop") /\ node.op = "neg"
  BY <1>3, <1>8 DEF CompileOperation, At
<1>9. CASE \/ At("unop") /\ node.op \in {"len", "bitnot"}
           \/ At("binop") /\ ~IsFloat(node.type) /\ ~IsInteger(node.type)
  BY <1>4, <1>9 DEF CompileOperation, At
<1>10. CASE At("alloc")
  BY <1>5, <1>10 DEF CompileOperation, At
<1> QED BY <1>6, <1>7, <1>8, <1>9, <1>10 DEF CompileOperation

(* A conversion takes one local number or none.                            *)
LEMMA ConversionNamed == ASSUME NamesInv, CompileConversion PROVE Keeps
<1>1. agenda # << >> /\ nextLabel' = nextLabel
  BY DEF CompileConversion, At
<1>2. ASSUME NEW STATE k, NEW STATE op, op # "label", NEW STATE args, NEW STATE info, Instruction(k, op, args, info)
      PROVE  Keeps
  BY <1>1, <1>2, InstructionAction
<1>3. CASE Done /\ UNCHANGED <<code, nextLocalId>>
  BY <1>1, <1>3, PlainAction, PlainLists DEF Done, Then
<1>4. \/ Done /\ UNCHANGED <<code, nextLocalId>>
      \/ Instruction(1, "call", Top(1), <<"StrFromSZ">>)
      \/ Instruction(1, "conv", Top(1), <<NumericConversion(Underlying(node[1]), Underlying(node[2])),
                                          TypeRef(Underlying(node[1])), TypeRef(Underlying(node[2]))>>)
  BY DEF CompileConversion
<1> QED BY <1>2, <1>3, <1>4

(* The address of a variable                                               *)
LEMMA VarNamed == ASSUME NamesInv, CompileVar PROVE Keeps
<1>1. agenda # << >> /\ UNCHANGED <<code, nextLocalId, nextLabel>>
  BY DEF CompileVar, At
<1>2. ASSUME NEW STATE tasks, Plain(tasks), Then(tasks) PROVE Keeps
  BY <1>1, <1>2, PlainAction DEF Then
<1>3. Plain(<< >>) /\ Plain(<<Exp(node.of, node.of.type), Task("getfield", node.name)>>)
  BY PlainTasks, PlainLists
<1>4. Plain(<<Exp(node.by, tLong), Exp(node.of, node.of.type), Task("getelement", node.of.type)>>)
  BY PlainTasks, PlainLists
<1> QED BY <1>2, <1>3, <1>4 DEF CompileVar, Done

(* The address of a field or of an element is an instruction.              *)
LEMMA ElementAddressNamed == ASSUME NamesInv, CompileElementAddress PROVE Keeps
<1>1. agenda # << >> /\ nextLabel' = nextLabel
  BY DEF CompileElementAddress, At
<1>2. \/ Instruction(1, "field", Top(1), <<node>>)
      \/ Instruction(2, "element", <<Top(2)[2], Top(2)[1]>>, <<TypeRef(node)>>)
  BY DEF CompileElementAddress
<1> QED BY <1>1, <1>2, InstructionAction

(* A call, its arguments and its end                                       *)
LEMMA CallNamed == ASSUME NamesInv, CompileCall PROVE Keeps
<1>1. Plain(<<Task("args", [call |-> node, next |-> 1])>>)
  BY PlainTasks, PlainLists
<1> QED BY <1>1, PlainAction DEF CompileCall, Then, At

(* Argument after argument, and then the call.                             *)
LEMMA ArgumentsNamed == ASSUME NamesInv, CompileArguments PROVE Keeps
<1> DEFINE call == node.call
           next == node.next
<1>1. Plain(<<Exp(call.args[next], call.params[next]), Task("args", [call |-> call, next |-> next + 1])>>)
  BY PlainTasks, PlainLists
<1>2. Plain(<<Task("callend", [call |-> call, args |-> next - 1])>>)
  BY PlainTasks, PlainLists
<1> QED BY <1>1, <1>2, PlainAction DEF CompileArguments, Then, At

(* A call of a function that returns something is named as a result is.    *)
LEMMA CallEndNamed == ASSUME NamesInv, CompileCallEnd PROVE Keeps
<1>1. agenda # << >> /\ nextLabel' = nextLabel
  BY DEF CompileCallEnd, At
<1>2. CASE node.call.ret = tVoid
  <2>1. Emit(<<Line("call", Nowhere, Top(node.args), <<node.call.name>>)>>) /\ Done /\ nextLocalId' = nextLocalId
    BY <1>2 DEF CompileCallEnd, CallStmt
  <2> QED BY <1>1, <2>1, LineAction
<1>3. CASE node.call.ret # tVoid
  <2>1. Instruction(node.args, "call", Top(node.args), <<node.call.name>>)
    BY <1>3 DEF CompileCallEnd
  <2> QED BY <1>1, <2>1, InstructionAction
<1> QED BY <1>2, <1>3

(* The tasks of a block                                                    *)
LEMMA BlockNamed == ASSUME NamesInv, CompileBlock PROVE Keeps
<1>1. agenda # << >> /\ UNCHANGED <<code, nextLocalId, nextLabel>>
  BY DEF CompileBlock, At
<1>2. CASE Done
  BY <1>1, <1>2, PlainAction, PlainLists DEF Done, Then
<1>3. CASE ~Done
  <2> DEFINE stmt == node.block.stmts[node.next]
             rest == Task("block", [block |-> node.block, next |-> node.next + 1, top |-> node.top])
  <2>1. stmt.kind \in StatementKinds /\ Then(<<Task(stmt.kind, stmt), rest>>)
    BY <1>3 DEF CompileBlock
  <2>2. Task(stmt.kind, stmt).op # "emit" /\ Task(stmt.kind, stmt).op # "ifend"
    BY <2>1, PlainTasks DEF StatementKinds
  <2>3. Plain(<<Task(stmt.kind, stmt), rest>>)
    BY <2>2, PlainTasks, PlainLists
  <2> HIDE DEF stmt, rest
  <2> QED BY <1>1, <2>1, <2>3, PlainAction DEF Then
<1> QED BY <1>2, <1>3

(* An if takes two labels: one is printed, the other is owed by its end.   *)
LEMMA IfNamed == ASSUME NamesInv, CompileIf PROVE Keeps
<1> DEFINE n == nextLabel
           end == Task("ifend", [node |-> node, elseLabel |-> n + 1])
           tasks == <<Cond(node.cond, n, n + 1), Lines(<<Label(n)>>), Block(node.then), end>>
           p == <<-1, n, -1, n + 1>>
<1>1. /\ agenda # << >> /\ code' = code /\ nextLocalId' = nextLocalId /\ nextLabel' = n + 2
      /\ agenda' = tasks \o Tail(agenda)
  BY DEF CompileIf, At, Then
<1>2. Named(agenda, code, nextLocalId, n) /\ n \in Nat
  BY DEF NamesInv, Named
<1>3. n \in Int /\ n + 1 \in Int /\ n + 2 \in Nat /\ n # -1 /\ n + 1 # -1 /\ n <= n + 2
  BY <1>2
<1>4. Marks(tasks[1], -1) /\ Marks(tasks[2], n) /\ Marks(tasks[3], -1) /\ Marks(tasks[4], n + 1)
  <2>1. Marks(Cond(node.cond, n, n + 1), -1) /\ Marks(Lines(<<Label(n)>>), n) /\ Marks(Block(node.then), -1) /\ Marks(end, n + 1)
    BY <1>3, PlainTasks, TaskMarks
  <2> QED BY <2>1
<1>5. IsList(tasks)
  <2>1. tasks \in Seq({tasks[1], tasks[2], tasks[3], tasks[4]})
    OBVIOUS
  <2> QED BY <2>1, SeqIsList
<1>6. \A i \in DOMAIN tasks : p[i] \in Int /\ Marks(tasks[i], p[i])
  <2>1. DOMAIN tasks = 1 .. 4 /\ p[1] = -1 /\ p[2] = n /\ p[3] = -1 /\ p[4] = n + 1
    OBVIOUS
  <2> HIDE DEF tasks, p
  <2> QED BY <1>3, <1>4, <2>1
<1>7. /\ \A i \in DOMAIN tasks : p[i] = -1 \/ (n <= p[i] /\ p[i] < n + 2)
      /\ \A i, j \in DOMAIN tasks : p[i] # -1 /\ p[i] = p[j] => i = j
  BY <1>2
<1> HIDE DEF tasks, p
<1>8. Named(tasks \o Tail(agenda), code, nextLocalId, n + 2)
  BY <1>1, <1>2, <1>3, <1>5, <1>6, <1>7, LabelStep
<1> QED BY <1>1, <1>8 DEF Keeps

(* The end of an if prints the label it owes, and takes one more at most.  *)
LEMMA IfEndNamed == ASSUME NamesInv, CompileIfEnd PROVE Keeps
<1> DEFINE else == node.node.else
           k == node.elseLabel
           n == nextLabel
           start == Label(k)
<1>1. /\ agenda # << >> /\ code' = code /\ nextLocalId' = nextLocalId
      /\ Named(agenda, code, nextLocalId, n) /\ n \in Nat /\ nextLocalId \in Nat /\ nextLocalId <= nextLocalId
  BY DEF CompileIfEnd, At, NamesInv, Named
<1>2. n \in Int /\ n # -1 /\ n + 1 \in Nat /\ n <= n + 1 /\ n <= n /\ n < n + 1
  BY <1>1
<1>3. Owes(agenda[1], k) /\ k \in Int /\ k < n /\ k # n /\ k # -1
  <2>1. 1 \in DOMAIN agenda /\ agenda[1].op = "ifend" /\ agenda[1].node = node
    BY <1>1, Rest DEF Named, CompileIfEnd, At, node
  <2>2. k \in Int /\ Owes(agenda[1], k)
    BY <1>1, <2>1 DEF Named, TaskOK, Owes
  <2>3. k \in Nat /\ k < n
    BY <1>1, <2>1, <2>2 DEF Named
  <2> QED BY <1>1, <2>2, <2>3
<1> HIDE DEF k, start, else
<1>4. ASSUME NEW STATE tasks, NEW p, NEW n2 \in {n, n + 1}, nextLabel' = n2, Then(tasks), IsList(tasks),
             \A i \in DOMAIN tasks : Marks(tasks[i], p[i]),
             \A i \in DOMAIN tasks : p[i] \in {-1, k} \/ (p[i] = n /\ n2 = n + 1),
             \A i, j \in DOMAIN tasks : p[i] # -1 /\ p[i] = p[j] => i = j
      PROVE  Keeps
  <2>1. n2 \in Nat /\ n <= n2
    BY <1>2
  <2>2. \A i \in DOMAIN tasks : p[i] \in Int /\ Marks(tasks[i], p[i])
    BY <1>2, <1>3, <1>4
  <2>3. \A i \in DOMAIN tasks : p[i] = -1 \/ (n <= p[i] /\ p[i] < n2) \/ Owes(agenda[1], p[i])
    BY <1>2, <1>3, <1>4
  <2>4. Named(tasks \o Tail(agenda), code, nextLocalId, n2)
    BY <1>1, <1>4, <2>1, <2>2, <2>3, LabelStep
  <2> QED BY <1>1, <1>4, <2>4 DEF Keeps, Then
<1>5. /\ Marks(Lines(<<start>>), k) /\ \A e : Marks(Lines(<<Branch(e), start>>), k)
      /\ Marks(Lines(<<Branch(n)>>), -1) /\ Marks(Lines(<<Branch(n), Label(n)>>), n)
      /\ Marks(Block(else), -1) /\ Marks(Task("stop", NULL), -1)
  BY <1>2, <1>3, TaskMarks, PlainTasks DEF start
<1>6. ASSUME NEW t, NEW n2 \in {n, n + 1}, nextLabel' = n2, Marks(t, k), Then(<<t>>) PROVE Keeps
  <2> DEFINE tasks == <<t>>
             p == <<k>>
  <2>1. IsList(tasks) /\ DOMAIN tasks = 1 .. 1 /\ p[1] = k /\ tasks[1] = t
    BY ShortLists
  <2> HIDE DEF tasks, p
  <2>2. Then(tasks)
    BY <1>6 DEF tasks
  <2> QED BY <1>4, <1>6, <2>1, <2>2
<1>7. ASSUME NEW t, NEW u, NEW n2 \in {n, n + 1}, nextLabel' = n2, Marks(t, k), Marks(u, -1), Then(<<t, u>>) PROVE Keeps
  <2> DEFINE tasks == <<t, u>>
             p == <<k, -1>>
  <2>1. IsList(tasks) /\ DOMAIN tasks = 1 .. 2 /\ p[1] = k /\ p[2] = -1 /\ tasks[1] = t /\ tasks[2] = u
    BY ShortLists
  <2> HIDE DEF tasks, p
  <2>2. Then(tasks)
    BY <1>7 DEF tasks
  <2>3. \A i, j \in DOMAIN tasks : p[i] # -1 /\ p[i] = p[j] => i = j
    BY <2>1
  <2> QED BY <1>4, <1>7, <2>1, <2>2, <2>3
<1>8. ASSUME NEW t, NEW u, NEW v, NEW l, NEW n2 \in {n, n + 1}, nextLabel' = n2,
             Marks(t, k), Marks(u, -1), Marks(v, l), l = -1 \/ (l = n /\ n2 = n + 1), Then(<<t, u, v>>)
      PROVE  Keeps
  <2> DEFINE tasks == <<t, u, v>>
             p == <<k, -1, l>>
  <2>1. IsList(tasks) /\ DOMAIN tasks = 1 .. 3 /\ p[1] = k /\ p[2] = -1 /\ p[3] = l
        /\ tasks[1] = t /\ tasks[2] = u /\ tasks[3] = v
    BY ShortLists
  <2> HIDE DEF tasks, p
  <2>2. Then(tasks)
    BY <1>8 DEF tasks
  <2>3. \A i, j \in DOMAIN tasks : p[i] # -1 /\ p[i] = p[j] => i = j
    BY <1>3, <1>8, <2>1
  <2>4. \A i \in DOMAIN tasks : p[i] \in {-1, k} \/ (p[i] = n /\ n2 = n + 1)
    BY <1>8, <2>1
  <2>5. \A i \in DOMAIN tasks : Marks(tasks[i], p[i])
    BY <1>8, <2>1
  <2> QED BY <1>4, <1>8, <2>1, <2>2, <2>3, <2>4, <2>5
<1>9. n \in {n, n + 1} /\ n + 1 \in {n, n + 1}
  OBVIOUS
<1>10. \/ \E t : Marks(t, k) /\ Then(<<t>>) /\ nextLabel' = n
       \/ Then(<<Lines(<<start>>), Block(else), Task("stop", NULL)>>) /\ nextLabel' = n
       \/ Then(<<Lines(<<start>>), Block(else), Lines(<<Branch(n)>>)>>) /\ nextLabel' = n + 1
       \/ Then(<<Lines(<<Branch(n), start>>), Block(else)>>) /\ nextLabel' = n + 1
       \/ Then(<<Lines(<<Branch(n), start>>), Block(else), Lines(<<Branch(n), Label(n)>>)>>) /\ nextLabel' = n + 1
  BY <1>5 DEF CompileIfEnd, k, start, else
<1> QED BY <1>5, <1>6, <1>7, <1>8, <1>9, <1>10

(* A while takes three labels.                                             *)
LEMMA WhileNamed == ASSUME NamesInv, CompileWhile PROVE Keeps
<1> DEFINE n == nextLabel
           again == IF node.body.exits THEN << >> ELSE <<Branch(n + 2)>>
           tasks == <<Cond(node.cond, n + 1, n), Lines(<<Label(n + 1)>>),
                      Task("loop", [end |-> n, check |-> n + 2]), Block(node.body), Task("loop", loops),
                      Lines(again \o <<Label(n + 2)>>), Cond(node.cond, n + 1, n), Lines(<<Label(n)>>)>>
           p == <<-1, n + 1, -1, -1, -1, n + 2, -1, n>>
<1>1. /\ agenda # << >> /\ code' = code /\ nextLocalId' = nextLocalId /\ nextLabel' = n + 3
      /\ agenda' = tasks \o Tail(agenda)
  BY DEF CompileWhile, At, Then
<1>2. Named(agenda, code, nextLocalId, n) /\ n \in Nat
  BY DEF NamesInv, Named
<1>3. n \in Int /\ n + 1 \in Int /\ n + 2 \in Int /\ n + 3 \in Nat /\ n <= n + 3 /\ n # -1 /\ n + 1 # -1 /\ n + 2 # -1
  BY <1>2
<1>4. again \o <<Label(n + 2)>> = IF node.body.exits THEN <<Label(n + 2)>> ELSE <<Branch(n + 2), Label(n + 2)>>
  <2>1. << >> \o <<Label(n + 2)>> = <<Label(n + 2)>>
    BY JoinedToNothing, ShortLists
  <2>2. <<Branch(n + 2)>> \o <<Label(n + 2)>> = <<Branch(n + 2), Label(n + 2)>>
    BY TwoJoined
  <2>3. CASE node.body.exits
    BY <2>1, <2>3
  <2>4. CASE ~node.body.exits
    BY <2>2, <2>4
  <2> QED BY <2>3, <2>4
<1>5. Marks(Lines(again \o <<Label(n + 2)>>), n + 2)
  BY <1>3, <1>4, TaskMarks
<1>6. /\ Marks(Cond(node.cond, n + 1, n), -1) /\ Marks(Lines(<<Label(n + 1)>>), n + 1)
      /\ Marks(Task("loop", [end |-> n, check |-> n + 2]), -1) /\ Marks(Block(node.body), -1)
      /\ Marks(Task("loop", loops), -1) /\ Marks(Lines(<<Label(n)>>), n)
  BY <1>3, PlainTasks, TaskMarks
<1>7. IsList(tasks)
  <2>1. tasks \in Seq({tasks[1], tasks[2], tasks[3], tasks[4], tasks[5], tasks[6], tasks[7], tasks[8]})
    OBVIOUS
  <2> QED BY <2>1, SeqIsList
<1>8. DOMAIN tasks = 1 .. 8
  OBVIOUS
<1>9. \A i \in 1 .. 8 : p[i] \in Int /\ Marks(tasks[i], p[i])
  BY <1>3, <1>5, <1>6
<1>10. \A i \in 1 .. 8 : p[i] = -1 \/ (i = 2 /\ p[i] = n + 1) \/ (i = 6 /\ p[i] = n + 2) \/ (i = 8 /\ p[i] = n)
  OBVIOUS
<1>11. n <= n /\ n <= n + 1 /\ n <= n + 2 /\ n < n + 3 /\ n + 1 < n + 3 /\ n + 2 < n + 3
       /\ n # n + 1 /\ n # n + 2 /\ n + 1 # n + 2
  BY <1>2
<1> HIDE DEF tasks, p
<1>12. \A i \in DOMAIN tasks : p[i] = -1 \/ (n <= p[i] /\ p[i] < n + 3)
  BY <1>8, <1>10, <1>11
<1>13. \A i, j \in DOMAIN tasks : p[i] # -1 /\ p[i] = p[j] => i = j
  BY <1>8, <1>10, <1>11
<1>14. Named(tasks \o Tail(agenda), code, nextLocalId, n + 3)
  BY <1>1, <1>2, <1>3, <1>7, <1>8, <1>9, <1>12, <1>13, LabelStep
<1> QED BY <1>1, <1>14 DEF Keeps

(* A loop begins or ends; a statement returns.                             *)
LEMMA LoopNamed == ASSUME NamesInv, EnclosingLoop PROVE Keeps
BY PlainAction, PlainLists DEF EnclosingLoop, At, Done, Then

(* A statement that always returns ends its block.                         *)
LEMMA StopNamed == ASSUME NamesInv, StopBlock PROVE Keeps
BY PlainAction, PlainLists DEF StopBlock, At, Done, Then

(* What an echo pushes emits no label by itself.                           *)
LEMMA EchoPlain == \A e : Plain(Echo(e))
<1>1. \A op, x : op # "emit" /\ op # "ifend" => Plain(<<Task(op, x)>>)
  BY PlainTasks, PlainLists
<1>2. \A x, y : Plain(<<Task("convert", x), Task("print", y)>>) /\ Plain(<<Task("tobytes", x), Task("print", y)>>)
  BY PlainTasks, PlainLists
<1> QED BY <1>1, <1>2 DEF Echo

(* The statements that are only their parts                                *)
LEMMA StatementNamed == ASSUME NamesInv, CompileStatement PROVE Keeps
<1>1. agenda # << >> /\ UNCHANGED <<code, nextLocalId, nextLabel>>
  BY DEF CompileStatement, At
<1>2. ASSUME NEW STATE tasks, Plain(tasks), Then(tasks) PROVE Keeps
  BY <1>1, <1>2, PlainAction DEF Then
<1>3. ASSUME NEW t, Marks(t, -1), agenda' = <<t>> \o Tail(agenda) PROVE Keeps
  <2> DEFINE tasks == <<t>>
             p == <<-1>>
  <2>1. IsList(tasks) /\ DOMAIN tasks = 1 .. 1 /\ tasks[1] = t /\ p[1] = -1
    BY ShortLists
  <2>2. Named(agenda, code, nextLocalId, nextLabel) /\ nextLabel \in Nat /\ nextLabel <= nextLabel
    BY DEF NamesInv, Named
  <2> HIDE DEF tasks, p
  <2>3. \A i \in DOMAIN tasks : p[i] = -1 /\ p[i] \in Int /\ Marks(tasks[i], p[i])
    BY <1>3, <2>1
  <2>4. Named(tasks \o Tail(agenda), code, nextLocalId, nextLabel)
    BY <1>1, <2>1, <2>2, <2>3, LabelStep
  <2> QED BY <1>1, <1>3, <2>4 DEF Keeps, tasks
<1>4. ASSUME NEW op, NEW args, NEW info, op # "label", Then(<<Lines(<<Line(op, Nowhere, args, info)>>)>>) PROVE Keeps
  BY <1>3, <1>4, TaskMarks DEF Then
<1>5. ASSUME NEW k, Then(<<Lines(<<Branch(k)>>)>>) PROVE Keeps
  BY <1>4, <1>5 DEF Branch
<1>6. Plain(<<Exp(node.exp, node.exp.type)>> \o Echo(node.exp))
  BY EchoPlain, PlainTasks, PlainLists, PlainJoined
<1>7. /\ Plain(<<Task("var", node.left), Exp(node.right, node.type), Task("store", NULL)>>)
      /\ Plain(<<Exp(node.exp, ReturnType), Task("ret", NULL), Task("stop", NULL)>>)
      /\ Plain(<<Task("call", node.call)>>)
      /\ Plain(<<Block(node.body)>>)
  BY PlainTasks, PlainLists
<1>8. ASSUME Then(<<Lines(<<Line("ret", Nowhere, << >>, << >>)>>), Task("stop", NULL)>>) PROVE Keeps
  <2> DEFINE tasks == <<Lines(<<Line("ret", Nowhere, << >>, << >>)>>), Task("stop", NULL)>>
             p == <<-1, -1>>
  <2>1. Marks(Lines(<<Line("ret", Nowhere, << >>, << >>)>>), -1) /\ Marks(Task("stop", NULL), -1)
    BY TaskMarks, PlainTasks
  <2>2. IsList(tasks) /\ \A i \in DOMAIN tasks : p[i] = -1 /\ p[i] \in Int /\ Marks(tasks[i], p[i])
    BY <2>1, ShortLists
  <2>3. Named(agenda, code, nextLocalId, nextLabel) /\ nextLabel \in Nat /\ nextLabel <= nextLabel
    BY DEF NamesInv, Named
  <2> HIDE DEF tasks, p
  <2>4. Named(tasks \o Tail(agenda), code, nextLocalId, nextLabel)
    BY <1>1, <2>2, <2>3, LabelStep
  <2> QED BY <1>1, <1>8, <2>4 DEF Keeps, tasks, Then
<1> QED BY <1>2, <1>5, <1>6, <1>7, <1>8 DEF CompileStatement

(* The instruction that ends a statement                                   *)
LEMMA StatementEndNamed == ASSUME NamesInv, CompileStatementEnd PROVE Keeps
<1>1. agenda # << >> /\ nextLabel' = nextLabel
  BY DEF CompileStatementEnd, At
<1>2. ASSUME NEW STATE op, op # "label", NEW STATE args, NEW STATE info,
             Emit(<<Line(op, Nowhere, args, info)>>), Done, nextLocalId' = nextLocalId
      PROVE  Keeps
  BY <1>1, <1>2, LineAction
<1>3. CASE At("store")
  BY <1>2, <1>3 DEF CompileStatementEnd, At, Store
<1>4. CASE At("ret")
  BY <1>2, <1>4 DEF CompileStatementEnd, At
<1>5. CASE At("print")
  BY <1>2, <1>5 DEF CompileStatementEnd, At, CallStmt
<1>6. CASE At("tobytes")
  <2>1. Instruction(1, "bitcast", Top(1), <<TypeRef(node), BytePtr>>)
    BY <1>6 DEF CompileStatementEnd, At
  <2> QED BY <1>1, <2>1, InstructionAction
<1> QED BY <1>3, <1>4, <1>5, <1>6 DEF CompileStatementEnd

(* A local variable takes a number.                                        *)
LEMMA LocalNamed ==
  ASSUME NamesInv, agenda # << >>, NEW STATE name, NEW STATE type, NEW STATE initial,
         CompileLocal(name, type, initial), nextLabel' = nextLabel
  PROVE  Keeps
<1> DEFINE m == nextLocalId
           x == Line("alloca", ValLocal(m), << >>, <<TypeRef(type)>>)
           y == Store(ValLocal(m), initial)
<1>1. Named(agenda, code, m, nextLabel) /\ m \in Nat /\ m + 1 \in Nat /\ m <= m /\ m < m + 1 /\ m <= m + 1
  BY DEF NamesInv, Named
<1>2. x.op # "label" /\ y.op # "label" /\ x.dst = ValLocal(m) /\ y.dst = Nowhere
  BY DEF Line, Store
<1>3. ValLocal(m) # Nowhere
  BY <1>1 DEF ValLocal, Nowhere
<1>4. Emit(<<x, y>>) /\ m' = m + 1 /\ agenda' = << >> \o Tail(agenda)
  BY DEF CompileLocal, Done, Then
<1> HIDE DEF x, y
<1>5. code' = code \o <<x, y>>
  BY <1>4, Printed
<1>6. Named(<< >> \o Tail(agenda), code \o <<x, y>>, m + 1, nextLabel)
  BY <1>1, <1>2, <1>3, TwoLines
<1> QED BY <1>4, <1>5, <1>6 DEF Keeps

(* A variable takes a local of its own, and so does a parameter.           *)
LEMMA VarDefinitionNamed == ASSUME NamesInv, VarDefinition PROVE Keeps
BY LocalNamed DEF VarDefinition, At

(* A parameter is a local with a store.                                    *)
LEMMA ParameterNamed == ASSUME NamesInv, Parameter PROVE Keeps
BY LocalNamed DEF Parameter, At

(* The body of a function is its block.                                    *)
LEMMA FunctionBodyNamed == ASSUME NamesInv, FunctionBody PROVE Keeps
<1>1. Plain(<<Block(node)>>)
  BY PlainTasks, PlainLists
<1> QED BY <1>1, PlainAction DEF FunctionBody, At, Then

(* The first tasks of a function, which has printed nothing and taken no    *)
(* name                                                                    *)
LEMMA DefinitionNamed == ASSUME NamesInv, CompileDefinition PROVE Keeps
<1> DEFINE d == module[pos]
           params == [i \in DOMAIN d.params |->
                        Task("param", [name |-> d.params[i].name, type |-> d.params[i].type, index |-> i - 1])]
           init == IF d.entry THEN <<Lines(<<CallStmt("Init", << >>)>>)>> ELSE << >>
           rest == <<Task("body", d.body), Task("funcend", d)>>
<1>1. CASE UNCHANGED <<agenda, locals, nextLocalId, nextLabel, code>>
  BY <1>1 DEF NamesInv, Keeps
<1>2. CASE /\ d.def = "func" /\ agenda' = params \o init \o rest
           /\ nextLocalId' = 0 /\ nextLabel' = 0 /\ code' = << >>
  <2>1. IsList(module) /\ pos \in 1 .. Len(module) /\ (d.def = "func" /\ pos \in DOMAIN module => IsList(d.params))
    BY ModulesAreLists DEF NamesInv, CompileDefinition
  <2>2. pos \in DOMAIN module
    BY <2>1 DEF IsList
  <2>3. IsList(d.params)
    BY <1>2, <2>1, <2>2
  <2>4. IsList(params) /\ \A i \in DOMAIN params : Marks(params[i], -1)
    <3>1. Len(d.params) \in Nat /\ DOMAIN d.params = 1 .. Len(d.params)
      BY <2>3 DEF IsList
    <3>2. params \in Seq({params[i] : i \in DOMAIN params})
      BY <3>1
    <3>3. \A i \in DOMAIN params : params[i].op = "param"
      BY PlainTasks
    <3> HIDE DEF params
    <3> QED BY <3>2, <3>3, TaskMarks DEF IsList
  <2>5. IsList(init) /\ \A i \in DOMAIN init : Marks(init[i], -1)
    <3>1. Marks(Lines(<<CallStmt("Init", << >>)>>), -1)
      BY TaskMarks DEF CallStmt
    <3> QED BY <3>1, ShortLists
  <2>6. IsList(rest) /\ \A i \in DOMAIN rest : Marks(rest[i], -1)
    BY PlainTasks, TaskMarks, ShortLists
  <2> HIDE DEF params, init, rest
  <2>7. IsList(params \o init) /\ \A i \in DOMAIN (params \o init) : Marks((params \o init)[i], -1)
    BY <2>4, <2>5, Joined, JoinedElements
  <2> DEFINE tasks == params \o init \o rest
  <2>8. IsList(tasks) /\ \A i \in DOMAIN tasks : Marks(tasks[i], -1)
    BY <2>6, <2>7, Joined, JoinedElements
  <2> HIDE DEF tasks
  <2>9. Named(tasks, << >>, 0, 0)
    BY <2>8, ShortLists DEF Named, Marks, NamesUnique
  <2> QED BY <1>2, <2>9 DEF Keeps, tasks
<1> QED BY <1>1, <1>2 DEF CompileDefinition

(* A finished function keeps its names.                                    *)
LEMMA FunctionEndNamed ==
  ASSUME NamesInv, FunctionEnd PROVE Keeps /\ \A f \in DOMAIN output' : NamesUnique(output'[f])
<1>1. agenda # << >> /\ UNCHANGED <<code, nextLocalId, nextLabel>> /\ agenda' = << >> \o Tail(agenda)
  BY DEF FunctionEnd, At, Done, Then
<1>2. Keeps
  BY <1>1, PlainAction, PlainLists
<1> DEFINE ret == <<Line("ret", Nowhere, << >>, << >>)>>
<1>3. PICK last : last \in {ret, << >>} /\ output' = WithFunction(code \o last)
  BY DEF FunctionEnd
<1>4. NamesUnique(code \o last)
  <2>1. Named(agenda, code, nextLocalId, nextLabel)
    BY DEF NamesInv
  <2>2. Named(<< >> \o Tail(agenda), code \o ret, nextLocalId, nextLabel)
    BY <1>1, <2>1, LineStep
  <2>3. code \o << >> = code
    BY <2>1, JoinedToNothing DEF Named
  <2> QED BY <1>3, <2>1, <2>2, <2>3 DEF Named
<1>5. \A f \in DOMAIN output' : output'[f] = code \o last \/ (f \in DOMAIN output /\ output'[f] = output[f])
  BY <1>3 DEF WithFunction
<1> QED BY <1>2, <1>4, <1>5 DEF NamesInv

(* Every step keeps the names unique.                                      *)
LEMMA GenerateNamed == ASSUME NamesInv, Generate PROVE NamesInv'
<1>1. module' = module
  BY DEF Generate, Start, CompileDefinition, FunctionBody, Parameter, FunctionEnd, Finish, CompileBlock, CompileIf,
         CompileIfEnd, CompileWhile, EnclosingLoop, StopBlock, CompileStatement, CompileStatementEnd, VarDefinition,
         CompileCondition, CompileComparison, CompileExp, CompileArmEnd, CompileOperation, CompileConversion,
         EmitLines, CompileVar, CompileElementAddress, CompileCall, CompileArguments, CompileCallEnd, Failure, Abort,
         Frame, Outside
<1>2. output' = output \/ FunctionEnd
  BY DEF Generate, Start, CompileDefinition, FunctionBody, Parameter, FunctionEnd, Finish, CompileBlock, CompileIf,
         CompileIfEnd, CompileWhile, EnclosingLoop, StopBlock, CompileStatement, CompileStatementEnd, VarDefinition,
         CompileCondition, CompileComparison, CompileExp, CompileArmEnd, CompileOperation, CompileConversion,
         EmitLines, CompileVar, CompileElementAddress, CompileCall, CompileArguments, CompileCallEnd, Failure, Abort,
         Frame, Outside
<1>3. Keeps
  <2>1. CASE Start \/ Finish
    BY <2>1 DEF Start, Finish, Keeps, NamesInv
  <2>2. CASE Failure
    <3>1. agenda' = << >> /\ UNCHANGED <<code, nextLocalId, nextLabel>>
      BY <2>2 DEF Failure, Abort
    <3>2. Named(<< >>, code, nextLocalId, nextLabel)
      BY ShortLists DEF NamesInv, Named
    <3> QED BY <3>1, <3>2 DEF Keeps
  <2> QED BY <2>1, <2>2, DefinitionNamed, FunctionBodyNamed, ParameterNamed, FunctionEndNamed, BlockNamed, IfNamed,
             IfEndNamed, WhileNamed, LoopNamed, StopNamed, StatementNamed, StatementEndNamed, VarDefinitionNamed,
             ConditionNamed, ComparisonNamed, ExpNamed, ArmEndNamed, OperationNamed, ConversionNamed, EmitLinesNamed,
             VarNamed, ElementAddressNamed, CallNamed, ArgumentsNamed, CallEndNamed
          DEF Generate
<1>4. \A f \in DOMAIN output' : NamesUnique(output'[f])
  <2>1. CASE output' = output
    BY <2>1 DEF NamesInv
  <2> QED BY <1>2, <2>1, FunctionEndNamed
<1>5. module' \in Modules
  BY <1>1 DEF NamesInv
<1> QED BY <1>3, <1>4, <1>5 DEF NamesInv, Keeps

-----------------------------------------------------------------------------
(* NamesOnce holds for every module: the counters of blockCtx give every    *)
(* label and every result a name of its own within a function, in whatever  *)
(* order conditions, loops, conditional expressions and arguments nest.     *)
THEOREM NamesNeverRepeat == RunSpec => []NamesOnce
<1>1. RunInit => NamesInv
  <2> SUFFICES ASSUME RunInit PROVE NamesInv
    OBVIOUS
  <2>1. Named(<< >>, << >>, 0, 0)
    BY ShortLists DEF Named, NamesUnique
  <2>2. agenda = << >> /\ code = << >> /\ nextLocalId = 0 /\ nextLabel = 0 /\ output = << >> /\ module \in Modules
    BY DEF RunInit, Init
  <2>3. \A f \in DOMAIN output : NamesUnique(output[f])
    BY <2>2
  <2>4. Named(agenda, code, nextLocalId, nextLabel)
    BY <2>1, <2>2
  <2> QED BY <2>2, <2>3, <2>4 DEF NamesInv
<1>2. NamesInv /\ [RunNext]_runVars => NamesInv'
  <2>1. ASSUME NamesInv, UNCHANGED vars PROVE NamesInv'
    BY <2>1 DEF NamesInv, vars
  <2>2. ASSUME NamesInv, Generate PROVE NamesInv'
    BY <2>2, GenerateNamed
  <2> QED BY <2>1, <2>2 DEF RunNext, Over, runVars
<1>3. NamesInv => NamesOnce
  BY DEF NamesInv, Named, NamesOnce
<1> QED BY <1>1, <1>2, <1>3, PTL DEF RunSpec

-----------------------------------------------------------------------------
(* String literals                                                         *)

\* Every literal that was printed is in the table, which holds no other, and
\* the first time it was printed with the index of its entry.
LiteralsKnown(table, r) ==
  /\ IsList(table) /\ IsList(r)
  /\ \A i \in DOMAIN r : \E k \in DOMAIN table : \E n \in Nat : r[i] = <<table[k], n>>
  /\ \A k \in DOMAIN table : \E i \in DOMAIN r : r[i][1] = table[k]
  /\ \A i \in DOMAIN r : (\A j \in DOMAIN r : j < i => r[j][1] # r[i][1]) =>
       r[i][2] + 1 \in DOMAIN table /\ table[r[i][2] + 1] = r[i][1]

\* The tables of literals from X
LiteralTables(X) == {t \in [table : Seq(X), refs : Seq(X \X Nat)] : LiteralsKnown(t.table, t.refs)}

(* A literal gets a natural number, and a new one that of the next entry.  *)
LEMMA LiteralIndex ==
  ASSUME NEW table, IsList(table), NEW s
  PROVE  /\ AddOrGetStringLiteralId(table, s) \in Nat
         /\ s \notin ToSet(table) => AddOrGetStringLiteralId(table, s) = Len(table)
<1>1. Len(table) \in Nat /\ DOMAIN table = 1 .. Len(table)
  BY DEF IsList
<1> DEFINE T == {i \in DOMAIN table : table[i] = s}
           P(i) == i \in DOMAIN table /\ table[i] = s /\ \A j \in 1 .. i - 1 : table[j] # s
<1>2. CASE T # {}
  <2>1. T \in SUBSET Nat
    BY <1>1
  <2> HIDE DEF T
  <2>2. PICK i \in T : \A j \in T : i <= j
    BY <1>2, <2>1, Least
  <2> USE DEF T
  <2>3. ASSUME NEW j \in 1 .. i - 1 PROVE table[j] # s
    <3>1. i \in 1 .. Len(table)
      BY <1>1
    <3>2. j \in DOMAIN table /\ ~(i <= j)
      BY <1>1, <3>1
    <3> QED BY <2>2, <3>2
  <2>4. \E k \in DOMAIN table : table[k] = s /\ \A j \in 1 .. k - 1 : table[j] # s
    BY <2>3
  <2>5. AddOrGetStringLiteralId(table, s) \in DOMAIN table
    BY <2>4 DEF AddOrGetStringLiteralId
  <2>6. s \in ToSet(table)
    BY <1>2 DEF ToSet
  <2> QED BY <1>1, <2>5, <2>6
<1>3. CASE T = {}
  BY <1>1, <1>3 DEF AddOrGetStringLiteralId
<1> QED BY <1>2, <1>3

(* A value that is entered.                                                *)
LEMMA EnteredKnown ==
  ASSUME NEW X, NEW t \in LiteralTables(X), NEW v, v[1] = "str" => v[2] \in X
  PROVE  Entered(t, v) \in LiteralTables(X)
<1>1. CASE v[1] # "str"
  BY <1>1 DEF Entered
<1>2. CASE v[1] = "str"
  <2> DEFINE x == v[2]
             a == t.table
             r == t.refs
             n == AddOrGetStringLiteralId(a, x)
             r2 == Append(r, <<x, n>>)
  <2>1. /\ a \in Seq(X) /\ r \in Seq(X \X Nat) /\ x \in X
        /\ LiteralsKnown(a, r) /\ IsList(a) /\ IsList(r)
    BY <1>2 DEF LiteralTables, LiteralsKnown
  <2>2. n \in Nat /\ (x \notin ToSet(a) => n = Len(a))
    BY <2>1, LiteralIndex
  <2>3. PICK b : b = IF x \in ToSet(a) THEN a ELSE Append(a, x)
    OBVIOUS
  <2>4. Entered(t, v) = [table |-> b, refs |-> r2]
    BY <1>2, <2>3 DEF Entered
  <2> HIDE DEF x, a, r, n
  <2>5. r2 \in Seq(X \X Nat) /\ b \in Seq(X)
    BY <2>1, <2>2, <2>3
  <2>6. /\ IsList(r2) /\ Len(r) \in Nat /\ DOMAIN r = 1 .. Len(r) /\ DOMAIN r2 = 1 .. Len(r) + 1
        /\ \A i \in DOMAIN r : r2[i] = r[i]
        /\ r2[Len(r) + 1] = <<x, n>>
    BY <2>1, Appended
  <2> HIDE DEF r2
  <2>7. /\ IsList(b) /\ Len(a) \in Nat /\ DOMAIN a = 1 .. Len(a)
        /\ DOMAIN a \subseteq DOMAIN b
        /\ \A k \in DOMAIN a : b[k] = a[k]
        /\ x \notin ToSet(a) => Len(a) + 1 \in DOMAIN b /\ b[Len(a) + 1] = x
        /\ \A k \in DOMAIN b : k \in DOMAIN a \/ b[k] = x
    <3>1. CASE x \in ToSet(a)
      BY <2>1, <2>3, <3>1
    <3>2. CASE x \notin ToSet(a)
      <4>1. b = Append(a, x)
        BY <2>3, <3>2
      <4>2. /\ IsList(b) /\ Len(a) \in Nat /\ DOMAIN a = 1 .. Len(a) /\ DOMAIN b = 1 .. Len(a) + 1
            /\ \A k \in DOMAIN a : b[k] = a[k]
            /\ b[Len(a) + 1] = x
        BY <2>1, <4>1, Appended
      <4> QED BY <4>2
    <3> QED BY <3>1, <3>2
  <2>8. PICK m \in DOMAIN b : b[m] = x
    <3>1. CASE x \in ToSet(a)
      <4>1. PICK k \in DOMAIN a : a[k] = x
        BY <3>1 DEF ToSet
      <4> QED BY <2>7, <4>1
    <3>2. CASE x \notin ToSet(a)
      BY <2>7, <3>2
    <3> QED BY <3>1, <3>2
  <2>9. ASSUME NEW i \in DOMAIN r2 PROVE \E k \in DOMAIN b : \E l \in Nat : r2[i] = <<b[k], l>>
    <3>1. CASE i \in DOMAIN r
      <4>1. PICK k \in DOMAIN a : \E l \in Nat : r[i] = <<a[k], l>>
        BY <2>1, <3>1 DEF LiteralsKnown
      <4> QED BY <2>6, <2>7, <3>1, <4>1
    <3>2. CASE i = Len(r) + 1
      BY <2>2, <2>6, <2>8, <3>2
    <3> QED BY <2>6, <3>1, <3>2
  <2>10. ASSUME NEW k \in DOMAIN b PROVE \E i \in DOMAIN r2 : r2[i][1] = b[k]
    <3>1. CASE k \in DOMAIN a
      <4>1. PICK i \in DOMAIN r : r[i][1] = a[k]
        BY <2>1, <3>1 DEF LiteralsKnown
      <4> QED BY <2>6, <2>7, <3>1, <4>1
    <3>2. CASE b[k] = x
      BY <2>6, <3>2
    <3> QED BY <2>7, <3>1, <3>2
  <2>11. ASSUME NEW i \in DOMAIN r2, \A j \in DOMAIN r2 : j < i => r2[j][1] # r2[i][1]
         PROVE  r2[i][2] + 1 \in DOMAIN b /\ b[r2[i][2] + 1] = r2[i][1]
    <3>1. CASE i \in DOMAIN r
      <4>1. \A j \in DOMAIN r : j < i => r[j][1] # r[i][1]
        BY <2>6, <2>11, <3>1
      <4>2. r[i][2] + 1 \in DOMAIN a /\ a[r[i][2] + 1] = r[i][1]
        BY <2>1, <3>1, <4>1 DEF LiteralsKnown
      <4> QED BY <2>6, <2>7, <3>1, <4>2
    <3>2. CASE i = Len(r) + 1
      <4>1. r2[i][1] = x /\ r2[i][2] = n
        BY <2>6, <3>2
      <4>2. ASSUME x \in ToSet(a) PROVE FALSE
        <5>1. PICK k \in DOMAIN a : a[k] = x
          BY <4>2 DEF ToSet
        <5>2. PICK j \in DOMAIN r : r[j][1] = x
          BY <2>1, <5>1 DEF LiteralsKnown
        <5>3. j \in DOMAIN r2 /\ r2[j][1] = x /\ j < i
          BY <2>6, <3>2, <5>2
        <5> QED BY <2>11, <4>1, <5>3
      <4> QED BY <2>2, <2>7, <4>1, <4>2
    <3> QED BY <2>6, <3>1, <3>2
  <2>12. LiteralsKnown(b, r2)
    BY <2>6, <2>7, <2>9, <2>10, <2>11 DEF LiteralsKnown
  <2>13. Entered(t, v) \in [table : Seq(X), refs : Seq(X \X Nat)]
    BY <2>4, <2>5
  <2> QED BY <2>4, <2>12, <2>13 DEF LiteralTables
<1> QED BY <1>1, <1>2

(* The values of a list that are entered one after the other.              *)
LEMMA EnteredAllKnown ==
  ASSUME NEW X, NEW t \in LiteralTables(X), NEW args, IsList(args),
         \A i \in DOMAIN args : args[i][1] = "str" => args[i][2] \in X
  PROVE  EnteredAll(t, args) \in LiteralTables(X)
<1> DEFINE N == Len(args)
           Eq(f) == f = [n \in 0 .. N |-> IF n = 0 THEN t ELSE Entered(f[n - 1], args[n])]
           h == CHOOSE f : Eq(f)
<1>1. N \in Nat /\ DOMAIN args = 1 .. N
  BY DEF IsList
<1>2. \A n \in 1 .. N : \A u \in LiteralTables(X) : Entered(u, args[n]) \in LiteralTables(X)
  BY <1>1, EnteredKnown
<1>3. PICK F \in [1 .. N -> [LiteralTables(X) -> LiteralTables(X)]] :
        F = [n \in 1 .. N |-> [u \in LiteralTables(X) |-> Entered(u, args[n])]]
  BY <1>2
<1>4. PICK f \in [0 .. N -> LiteralTables(X)] : f[0] = t /\ \A n \in 1 .. N : f[n] = F[n][f[n - 1]]
  <2>1. \E f : Computes(f, F, t, N, LiteralTables(X))
    BY <1>1, FunctionExists
  <2> QED BY <2>1 DEF Computes
<1>5. ASSUME NEW n \in 1 .. N PROVE F[n][f[n - 1]] = Entered(f[n - 1], args[n])
  <2>1. f[n - 1] \in LiteralTables(X)
    BY <1>1
  <2> QED BY <1>3, <2>1
<1>6. Eq(f)
  <2>1. \A n \in 0 .. N : n # 0 => n \in 1 .. N
    BY <1>1
  <2> QED BY <1>4, <1>5, <2>1
<1>7. Eq(h)
  BY <1>6
<1>8. EnteredAll(t, args) = h[N]
  BY DEF EnteredAll
<1> HIDE DEF h
<1>9. h[0] = t /\ \A n \in 1 .. N : h[n] = Entered(h[n - 1], args[n])
  BY <1>1, <1>7
<1> DEFINE S == {n \in Nat : n <= N => h[n] \in LiteralTables(X)}
<1>10. 0 \in S
  BY <1>9
<1>11. ASSUME NEW n \in Nat, n \in S PROVE n + 1 \in S
  <2> SUFFICES ASSUME n + 1 <= N PROVE h[n + 1] \in LiteralTables(X)
    OBVIOUS
  <2>1. n + 1 \in 1 .. N /\ (n + 1) - 1 = n /\ h[n] \in LiteralTables(X)
    BY <1>1, <1>11
  <2>2. h[n + 1] = Entered(h[n], args[n + 1])
    BY <1>9, <2>1
  <2> QED BY <1>2, <2>1, <2>2
<1>12. N \in S
  <2> HIDE DEF S
  <2> QED BY <1>1, <1>10, <1>11, SetInduction
<1> QED BY <1>1, <1>8, <1>12

(* Printing keeps the literals known.                                      *)
LEMMA EmittedKnown ==
  ASSUME NEW STATE lines, IsList(lines), \A i \in DOMAIN lines : IsList(lines[i].args),
         LiteralsKnown(strings, refs), Emit(lines)
  PROVE  LiteralsKnown(strings', refs')
<1> DEFINE N == Len(lines)
           t == [table |-> strings, refs |-> refs]
           Of(i) == {lines[i].args[k][2] : k \in DOMAIN lines[i].args}
           X == {strings[k] : k \in DOMAIN strings} \cup (UNION {Of(i) : i \in DOMAIN lines})
           Eq(f) == f = [n \in 0 .. N |-> IF n = 0 THEN t ELSE EnteredAll(f[n - 1], lines[n].args)]
           h == CHOOSE f : Eq(f)
<1>1. N \in Nat /\ DOMAIN lines = 1 .. N
  BY DEF IsList
<1>2. t \in LiteralTables(X)
  <2>1. IsList(strings) /\ IsList(refs)
    BY DEF LiteralsKnown
  <2>2. strings \in Seq({strings[k] : k \in DOMAIN strings})
    BY <2>1 DEF IsList
  <2>3. strings \in Seq(X)
    BY <2>2
  <2>4. \A i \in DOMAIN refs : refs[i] \in X \X Nat
    BY DEF LiteralsKnown
  <2> HIDE DEF X
  <2>5. refs \in Seq(X \X Nat)
    <3>1. refs \in Seq({refs[i] : i \in DOMAIN refs}) /\ {refs[i] : i \in DOMAIN refs} \subseteq X \X Nat
      BY <2>1, <2>4 DEF IsList
    <3> QED BY <3>1
  <2> QED BY <2>3, <2>5 DEF LiteralTables
<1>3. \A n \in 1 .. N : \A k \in DOMAIN lines[n].args : lines[n].args[k][2] \in X
  BY <1>1
<1> HIDE DEF X
<1>4. \A n \in 1 .. N : \A u \in LiteralTables(X) : EnteredAll(u, lines[n].args) \in LiteralTables(X)
  BY <1>1, <1>3, EnteredAllKnown
<1> HIDE DEF t
<1>5. PICK F \in [1 .. N -> [LiteralTables(X) -> LiteralTables(X)]] :
        F = [n \in 1 .. N |-> [u \in LiteralTables(X) |-> EnteredAll(u, lines[n].args)]]
  BY <1>4
<1>6. PICK f \in [0 .. N -> LiteralTables(X)] : f[0] = t /\ \A n \in 1 .. N : f[n] = F[n][f[n - 1]]
  <2>1. \E f : Computes(f, F, t, N, LiteralTables(X))
    BY <1>1, <1>2, FunctionExists
  <2> QED BY <2>1 DEF Computes
<1>7. ASSUME NEW n \in 1 .. N PROVE F[n][f[n - 1]] = EnteredAll(f[n - 1], lines[n].args)
  <2>1. f[n - 1] \in LiteralTables(X)
    BY <1>1
  <2> QED BY <1>5, <2>1
<1>8. Eq(f)
  <2>1. \A n \in 0 .. N : n # 0 => n \in 1 .. N
    BY <1>1
  <2> QED BY <1>6, <1>7, <2>1
<1>9. Eq(h)
  BY <1>8
<1>10. strings' = h[N].table /\ refs' = h[N].refs
  BY DEF Emit, t
<1> HIDE DEF h
<1>11. h[0] = t /\ \A n \in 1 .. N : h[n] = EnteredAll(h[n - 1], lines[n].args)
  <2>1. h = [n \in 0 .. N |-> IF n = 0 THEN t ELSE EnteredAll(h[n - 1], lines[n].args)]
    BY <1>9
  <2>2. 0 \in 0 .. N /\ \A n \in 1 .. N : n \in 0 .. N /\ n # 0
    BY <1>1
  <2> HIDE DEF Eq
  <2> QED BY <2>1, <2>2
<1> DEFINE S == {n \in Nat : n <= N => h[n] \in LiteralTables(X)}
<1>12. 0 \in S
  BY <1>2, <1>11
<1>13. ASSUME NEW n \in Nat, n \in S PROVE n + 1 \in S
  <2> SUFFICES ASSUME n + 1 <= N PROVE h[n + 1] \in LiteralTables(X)
    OBVIOUS
  <2>1. n + 1 \in 1 .. N /\ (n + 1) - 1 = n /\ h[n] \in LiteralTables(X)
    BY <1>1, <1>13
  <2>2. h[n + 1] = EnteredAll(h[n], lines[n + 1].args)
    BY <1>11, <2>1
  <2> QED BY <1>4, <2>1, <2>2
<1>14. N \in S
  <2> HIDE DEF S
  <2> QED BY <1>1, <1>12, <1>13, SetInduction
<1>15. h[N] \in LiteralTables(X)
  BY <1>1, <1>14
<1> QED BY <1>10, <1>15 DEF LiteralTables

-----------------------------------------------------------------------------
(* The context of a function                                               *)

\* Values and loop labels are older than the counters.
ValueOK(v, n) == v[1] = "t" => v[2] \in Int /\ v[2] < n
LoopOK(l, n) == l.end \in Int /\ l.end < n /\ l.check \in Int /\ l.check < n

\* A line that may be printed, when the functions in names may be called
LineOK(l, names) ==
  /\ IsList(l.args)
  /\ l.op = "br" => DOMAIN l.info = {1}
  /\ l.op = "condbr" => DOMAIN l.info = 1 .. 2
  /\ l.op = "call" => l.info[1] \in names

\* A task that may wait, when n labels are taken
TaskFit(t, n, names) ==
  /\ t.op = "emit" => IsList(t.node) /\ \A i \in DOMAIN t.node : LineOK(t.node[i], names)
  /\ t.op = "compare" => DOMAIN t.node.to = 1 .. 2
  /\ t.op = "loop" => LoopOK(t.node, n)
  /\ t.op = "print" => t.node \in names
  /\ t.op = "args" => t.node.next \in Nat \ {0} /\ t.node.call.name \in names
  /\ t.op = "callend" => t.node.args \in Nat /\ t.node.call.name \in names

\* What a call may name: the runtime, a function with a body, a dependency
Callable == Routines \cup Implemented \cup ToSet(dependencies)

DataInv ==
  /\ IsList(locals) /\ \A i \in DOMAIN locals : locals[i].id \in Int /\ locals[i].id < nextLocalId
  /\ IsList(vals) /\ \A i \in DOMAIN vals : ValueOK(vals[i], nextLocalId)
  /\ LoopOK(loops, nextLabel)
  /\ always \in BOOLEAN
  /\ IsList(dependencies)
  /\ \A i, j \in DOMAIN dependencies : dependencies[i] = dependencies[j] => i = j
  /\ ToSet(dependencies) \cap Implemented = {}
  /\ LiteralsKnown(strings, refs)
  /\ \A i \in DOMAIN code : LineOK(code[i], Callable)
  /\ \A f \in DOMAIN output : IsList(output[f]) /\ \A i \in DOMAIN output[f] : LineOK(output[f][i], Callable)
  /\ \A i \in DOMAIN agenda : TaskFit(agenda[i], nextLabel, Callable)

\* When the agenda is done no loop encloses anything.
Unwinds(a, l) ==
  \/ l = NoLoop /\ \A i \in DOMAIN a : a[i].op # "loop"
  \/ \E i \in DOMAIN a : a[i].op = "loop" /\ a[i].node = NoLoop /\ \A j \in DOMAIN a : j > i => a[j].op # "loop"

\* The last task ends function d.  The one before it is its body, or the block
\* that leaves as many locals as there are parameters; a block leaves no more
\* than the blocks inside it.  The first tasks are the parameters that are not
\* locals yet.
Framed(a, locs, d) ==
  LET n == Len(a)
      p == Len(d.params)
  IN  /\ a[n] = Task("funcend", d) /\ \A i \in DOMAIN a : a[i].op = "funcend" => i = n
      /\ \A i \in DOMAIN a : a[i].op = "body" => i = n - 1
      /\ n > 1 => \/ /\ a[n - 1].op = "body" /\ Len(locs) <= p
                     /\ \A i \in DOMAIN a : i < n - 1 => a[i].op \in {"param", "emit"}
                  \/ a[n - 1].op = "block" /\ a[n - 1].node.top = p
      /\ n = 1 => Len(locs) = p
      /\ \A i \in DOMAIN a : a[i].op = "block" =>
           /\ a[i].node.top \in p .. Len(locs)
           /\ \A j \in DOMAIN a : a[j].op = "block" /\ i < j => a[j].node.top <= a[i].node.top
      /\ \A i \in DOMAIN a : a[i].op = "param" <=> i <= p - Len(locs)
      /\ \A i \in DOMAIN a : a[i].op = "param" => a[i].node.name = d.params[Len(locs) + i].name
      /\ \A i \in 1 .. p : i <= Len(locs) => locs[i].name = d.params[i].name

HasBody(d) == d.def = "func" /\ d.body # NULL

ContextInv ==
  /\ pos \in 0 .. Len(module) + 1
  /\ result \in {"running", "SUCCESS", "ERR_NOMEM", "ERR_IO", "WILD_STREAM"}
  /\ result # "running" => agenda = << >>
  /\ result = "SUCCESS" => pos = Len(module) + 1
  /\ result = "running" /\ Len(agenda) \in {0, 1} => vals = << >> /\ ~always
  /\ result = "running" /\ agenda = << >> => loops = NoLoop
  /\ agenda # << >> =>
       /\ pos \in DOMAIN module /\ HasBody(module[pos])
       /\ Framed(agenda, locals, module[pos]) /\ Unwinds(agenda, loops)

\* What the lines call, and what a task is about to call
LineCalls(lines, f) == \E i \in DOMAIN lines : lines[i].op = "call" /\ lines[i].info[1] = f
TaskCalls(t, f) == t.op \in {"args", "callend"} /\ t.node.call.name = f

CalleesInv ==
  result \in {"running", "SUCCESS"} =>
    /\ DOMAIN output = {module[i].name : i \in {j \in DOMAIN module : j < pos /\ HasBody(module[j])}}
    /\ \A f \in ToSet(dependencies) :
         \/ \E g \in DOMAIN output : LineCalls(output[g], f)
         \/ agenda # << >> /\ (LineCalls(code, f) \/ \E i \in DOMAIN agenda : TaskCalls(agenda[i], f))

(* The head of a list is replaced by a list.                               *)
LEMMA HeadReplaced ==
  ASSUME NEW a, IsList(a), a # << >>, NEW tasks, IsList(tasks)
  PROVE  LET b == tasks \o Tail(a)
             k == Len(tasks)
             n == Len(a)
         IN  /\ k \in Nat /\ n \in Nat /\ n > 0
             /\ DOMAIN a = 1 .. n /\ DOMAIN tasks = 1 .. k
             /\ IsList(b) /\ Len(b) = k + n - 1 /\ DOMAIN b = 1 .. k + n - 1
             /\ \A i \in 1 .. k : b[i] = tasks[i]
             /\ \A i \in 2 .. n : b[i + k - 1] = a[i]
             /\ \A i \in DOMAIN b : i \in 1 .. k \/ (i - k + 1 \in 2 .. n /\ b[i] = a[i - k + 1])
<1> DEFINE b == tasks \o Tail(a)
           k == Len(tasks)
           n == Len(a)
<1>1. /\ n \in Nat /\ n > 0 /\ DOMAIN a = 1 .. n
      /\ IsList(Tail(a)) /\ Len(Tail(a)) = n - 1 /\ DOMAIN Tail(a) = 1 .. n - 1
      /\ \A i \in 1 .. n - 1 : Tail(a)[i] = a[i + 1]
  BY Rest
<1>2. /\ IsList(b) /\ k \in Nat /\ DOMAIN tasks = 1 .. k /\ DOMAIN b = 1 .. k + (n - 1)
      /\ \A i \in 1 .. k : b[i] = tasks[i]
      /\ \A i \in 1 .. k + (n - 1) : i > k => b[i] = Tail(a)[i - k] /\ i - k \in 1 .. n - 1
  BY <1>1, Joined
<1> HIDE DEF b, k, n
<1>3. Len(b) = k + n - 1 /\ DOMAIN b = 1 .. k + n - 1
  <2>1. Len(b) \in Nat /\ DOMAIN b = 1 .. Len(b)
    BY <1>2 DEF IsList
  <2>2. k + (n - 1) \in Nat /\ k + (n - 1) = k + n - 1
    BY <1>1, <1>2
  <2>3. \A x, y \in Nat : 1 .. x = 1 .. y => x = y
    <3>1. \A x, y \in Nat : x > y => x \in 1 .. x /\ x \notin 1 .. y
      OBVIOUS
    <3> QED BY <3>1
  <2>4. 1 .. Len(b) = 1 .. k + (n - 1)
    BY <1>2, <2>1
  <2>5. Len(b) = k + (n - 1)
    BY <2>1, <2>2, <2>3, <2>4
  <2> QED BY <1>2, <2>2, <2>5
<1>4. ASSUME NEW i \in 2 .. n PROVE b[i + k - 1] = a[i]
  <2>1. i + k - 1 \in 1 .. k + (n - 1) /\ i + k - 1 > k /\ (i + k - 1) - k = i - 1 /\ i - 1 \in 1 .. n - 1 /\ (i - 1) + 1 = i
    BY <1>1, <1>2
  <2> QED BY <1>1, <1>2, <2>1
<1>5. ASSUME NEW i \in DOMAIN b PROVE i \in 1 .. k \/ (i - k + 1 \in 2 .. n /\ b[i] = a[i - k + 1])
  <2>1. i \in 1 .. k \/ i > k
    BY <1>1, <1>2
  <2>2. ASSUME i > k PROVE i - k + 1 \in 2 .. n /\ b[i] = a[i - k + 1]
    <3>1. i \in 1 .. k + (n - 1)
      BY <1>2
    <3>2. b[i] = Tail(a)[i - k] /\ i - k \in 1 .. n - 1
      BY <1>2, <2>2, <3>1
    <3> QED BY <1>1, <1>2, <3>2
  <2> QED BY <2>1, <2>2
<1> QED BY <1>1, <1>2, <1>3, <1>4, <1>5 DEF b, k, n

\* A task that may be left inside a function, when there are top locals
Inner(t, top) == t.op \notin {"funcend", "body", "param"} /\ (t.op = "block" => t.node.top = top)

(* A head that is no frame of the function makes way for tasks inside it.  *)
LEMMA FramedStep ==
  ASSUME NEW a, IsList(a), a # << >>, NEW locs, IsList(locs), NEW d, IsList(d.params), Framed(a, locs, d),
         a[1].op \notin {"funcend", "body", "param", "block"},
         NEW tasks, IsList(tasks), \A i \in DOMAIN tasks : Inner(tasks[i], Len(locs)),
         NEW locs2, IsList(locs2), Len(locs) <= Len(locs2), \A i \in DOMAIN locs : locs2[i] = locs[i],
         a[1].op = "emit" => tasks = << >> /\ locs2 = locs
  PROVE  Framed(tasks \o Tail(a), locs2, d) /\ Len(tasks \o Tail(a)) > 1
<1> DEFINE b == tasks \o Tail(a)
           k == Len(tasks)
           n == Len(a)
           p == Len(d.params)
           m == k + n - 1
<1>1. /\ k \in Nat /\ n \in Nat /\ n > 0
      /\ DOMAIN a = 1 .. n /\ DOMAIN tasks = 1 .. k
      /\ IsList(b) /\ Len(b) = m /\ DOMAIN b = 1 .. m
      /\ \A i \in 1 .. k : b[i] = tasks[i]
      /\ \A i \in 2 .. n : b[i + k - 1] = a[i]
      /\ \A i \in DOMAIN b : i \in 1 .. k \/ (i - k + 1 \in 2 .. n /\ b[i] = a[i - k + 1])
  BY HeadReplaced, SMTT(40)
<1>2. p \in Nat /\ Len(locs) \in Nat /\ Len(locs2) \in Nat /\ DOMAIN locs = 1 .. Len(locs)
  BY DEF IsList
<1> HIDE DEF b, k
<1>3. /\ a[n] = Task("funcend", d) /\ \A i \in DOMAIN a : a[i].op = "funcend" => i = n
      /\ \A i \in DOMAIN a : a[i].op = "body" => i = n - 1
      /\ n > 1 => \/ /\ a[n - 1].op = "body" /\ Len(locs) <= p
                     /\ \A i \in DOMAIN a : i < n - 1 => a[i].op \in {"param", "emit"}
                  \/ a[n - 1].op = "block" /\ a[n - 1].node.top = p
      /\ \A i \in DOMAIN a : a[i].op = "block" =>
           /\ a[i].node.top \in p .. Len(locs)
           /\ \A j \in DOMAIN a : a[j].op = "block" /\ i < j => a[j].node.top <= a[i].node.top
      /\ \A i \in DOMAIN a : a[i].op = "param" <=> i <= p - Len(locs)
      /\ \A i \in 1 .. p : i <= Len(locs) => locs[i].name = d.params[i].name
  BY DEF Framed
<1> HIDE DEF n
<1>4. n > 2
  <2>1. n # 1
    BY <1>3 DEF Task
  <2>2. n # 2
    BY <1>3
  <2> QED BY <1>1, <2>1, <2>2
<1>5. p <= Len(locs) /\ p <= Len(locs2) /\ \A i \in DOMAIN a : a[i].op # "param"
  <2>1. 1 \in DOMAIN a
    BY <1>1
  <2>2. p <= Len(locs)
    BY <1>2, <1>3, <2>1
  <2> QED BY <1>1, <1>2, <1>3, <2>2
<1>6. /\ m > 1 /\ m \in Nat /\ m \in DOMAIN b /\ m - 1 \in DOMAIN b
      /\ b[m] = a[n] /\ b[m - 1] = a[n - 1]
  <2>1. n \in 2 .. n /\ n - 1 \in 2 .. n /\ n + k - 1 = m /\ (n - 1) + k - 1 = m - 1
    BY <1>1, <1>4
  <2> QED BY <1>1, <1>4, <2>1
<1>7. \A i \in 1 .. k : b[i].op \notin {"funcend", "body", "param"} /\ (b[i].op = "block" => b[i].node.top = Len(locs))
  BY <1>1 DEF Inner
<1>8. ASSUME NEW i \in DOMAIN b
      PROVE  /\ b[i].op = "funcend" => i = m
             /\ b[i].op = "body" => i = m - 1
  <2>1. CASE i \in 1 .. k
    BY <1>7, <2>1
  <2>2. CASE i - k + 1 \in 2 .. n /\ b[i] = a[i - k + 1]
    <3>1. i - k + 1 \in DOMAIN a /\ i \in Int
      BY <1>1, <2>2
    <3>2. /\ b[i].op = "funcend" => i - k + 1 = n
          /\ b[i].op = "body" => i - k + 1 = n - 1
      BY <1>3, <2>2, <3>1
    <3>3. k \in Int /\ n \in Int
      BY <1>1
    <3> QED BY <3>1, <3>2, <3>3
  <2> QED BY <1>1, <2>1, <2>2
<1>9. \A i \in DOMAIN b : (b[i].op = "funcend" => i = m) /\ (b[i].op = "body" => i = m - 1)
  BY <1>8
<1>10. \/ /\ b[m - 1].op = "body" /\ Len(locs2) <= p
          /\ \A i \in DOMAIN b : i < m - 1 => b[i].op \in {"param", "emit"}
       \/ b[m - 1].op = "block" /\ b[m - 1].node.top = p
  <2>1. CASE a[n - 1].op = "block" /\ a[n - 1].node.top = p
    BY <1>6, <2>1
  <2>2. CASE /\ a[n - 1].op = "body" /\ Len(locs) <= p
             /\ \A i \in DOMAIN a : i < n - 1 => a[i].op \in {"param", "emit"}
    <3>1. a[1].op = "emit"
      <4>1. 1 \in DOMAIN a /\ 1 < n - 1
        BY <1>1, <1>4
      <4>2. a[1].op \in {"param", "emit"}
        BY <2>2, <4>1
      <4> QED BY <4>2
    <3>2. locs2 = locs /\ k = 0
      BY <3>1 DEF k
    <3>3. ASSUME NEW i \in DOMAIN b, i < m - 1 PROVE b[i].op \in {"param", "emit"}
      <4>1. i - k + 1 \in 2 .. n /\ b[i] = a[i - k + 1] /\ i - k + 1 < n - 1
        BY <1>1, <3>2, <3>3
      <4> QED BY <1>1, <2>2, <4>1
    <3> QED BY <1>6, <2>2, <3>2, <3>3
  <2>3. n > 1
    BY <1>1, <1>4
  <2> QED BY <1>3, <2>1, <2>2, <2>3
<1>11. ASSUME NEW i \in DOMAIN b, b[i].op = "block"
       PROVE  /\ b[i].node.top \in p .. Len(locs2)
              /\ \A j \in DOMAIN b : b[j].op = "block" /\ i < j => b[j].node.top <= b[i].node.top
  <2>1. CASE i \in 1 .. k
    <3>1. b[i].node.top = Len(locs)
      BY <1>7, <1>11, <2>1
    <3>2. ASSUME NEW j \in DOMAIN b, b[j].op = "block" PROVE b[j].node.top <= Len(locs)
      <4>1. CASE j \in 1 .. k
        BY <1>2, <1>7, <3>2, <4>1
      <4>2. CASE j - k + 1 \in 2 .. n /\ b[j] = a[j - k + 1]
        <5>1. j - k + 1 \in DOMAIN a
          BY <1>1, <4>2
        <5>2. a[j - k + 1].node.top \in p .. Len(locs)
          BY <1>3, <3>2, <4>2, <5>1
        <5> QED BY <1>2, <4>2, <5>2
      <4> QED BY <1>1, <4>1, <4>2
    <3> QED BY <1>2, <1>5, <3>1, <3>2
  <2>2. CASE i - k + 1 \in 2 .. n /\ b[i] = a[i - k + 1] /\ i \notin 1 .. k
    <3>1. i - k + 1 \in DOMAIN a
      BY <1>1, <2>2
    <3>2. a[i - k + 1].node.top \in p .. Len(locs)
      BY <1>3, <1>11, <2>2, <3>1
    <3>3. ASSUME NEW j \in DOMAIN b, b[j].op = "block", i < j PROVE b[j].node.top <= b[i].node.top
      <4>1. j \notin 1 .. k
        BY <1>1, <2>2, <3>3
      <4>2. j - k + 1 \in 2 .. n /\ b[j] = a[j - k + 1] /\ i - k + 1 < j - k + 1
        BY <1>1, <3>3, <4>1
      <4>3. j - k + 1 \in DOMAIN a
        BY <1>1, <4>2
      <4> QED BY <1>3, <1>11, <2>2, <3>1, <3>3, <4>2, <4>3
    <3> QED BY <1>2, <2>2, <3>2, <3>3
  <2> QED BY <1>1, <2>1, <2>2
<1>12. \A i \in DOMAIN b : b[i].op # "param" /\ ~(i <= p - Len(locs2))
  <2>1. \A i \in DOMAIN b : b[i].op # "param"
    BY <1>1, <1>5, <1>7
  <2>2. \A i \in DOMAIN b : ~(i <= p - Len(locs2))
    BY <1>1, <1>2, <1>5
  <2> QED BY <2>1, <2>2
<1>13. \A i \in 1 .. p : i <= Len(locs2) => locs2[i].name = d.params[i].name
  BY <1>2, <1>3, <1>5
<1>14. b[m] = Task("funcend", d) /\ m # 1
  BY <1>3, <1>6
<1>15. Framed(b, locs2, d)
  BY <1>1, <1>9, <1>10, <1>11, <1>12, <1>13, <1>14 DEF Framed
<1> QED BY <1>1, <1>6, <1>15 DEF b

(* Tasks that are no loop's end, in place of a head that is none           *)
LEMMA UnwindsStep ==
  ASSUME NEW a, IsList(a), a # << >>, NEW l, Unwinds(a, l), a[1].op # "loop",
         NEW tasks, IsList(tasks), \A i \in DOMAIN tasks : tasks[i].op # "loop"
  PROVE  Unwinds(tasks \o Tail(a), l)
<1> DEFINE b == tasks \o Tail(a)
           k == Len(tasks)
           n == Len(a)
<1>1. /\ k \in Nat /\ n \in Nat /\ n > 0
      /\ DOMAIN a = 1 .. n /\ DOMAIN tasks = 1 .. k /\ DOMAIN b = 1 .. k + n - 1
      /\ \A i \in 1 .. k : b[i] = tasks[i]
      /\ \A i \in 2 .. n : b[i + k - 1] = a[i]
      /\ \A i \in DOMAIN b : i \in 1 .. k \/ (i - k + 1 \in 2 .. n /\ b[i] = a[i - k + 1])
  BY HeadReplaced
<1> HIDE DEF b, k, n
<1>2. CASE l = NoLoop /\ \A i \in DOMAIN a : a[i].op # "loop"
  <2>1. \A i \in DOMAIN b : b[i].op # "loop"
    BY <1>1, <1>2
  <2> QED BY <1>2, <2>1 DEF Unwinds, b
<1>3. ASSUME NEW i \in DOMAIN a, a[i].op = "loop", a[i].node = NoLoop,
             \A j \in DOMAIN a : j > i => a[j].op # "loop"
      PROVE  Unwinds(b, l)
  <2>1. i \in 2 .. n /\ i + k - 1 \in DOMAIN b /\ b[i + k - 1] = a[i]
    BY <1>1, <1>3
  <2>2. ASSUME NEW j \in DOMAIN b, j > i + k - 1 PROVE b[j].op # "loop"
    <3>1. j \notin 1 .. k
      BY <1>1, <2>1, <2>2
    <3>2. j - k + 1 \in 2 .. n /\ b[j] = a[j - k + 1] /\ j - k + 1 > i
      BY <1>1, <2>1, <2>2, <3>1
    <3>3. j - k + 1 \in DOMAIN a
      BY <1>1, <3>2
    <3> QED BY <1>3, <3>2, <3>3
  <2> QED BY <1>3, <2>1, <2>2 DEF Unwinds
<1> QED BY <1>2, <1>3 DEF Unwinds, b

-----------------------------------------------------------------------------
(* A step inside a function                                                *)

GenInv == NamesInv /\ DataInv /\ ContextInv /\ CalleesInv

\* What is unchanged while a function is compiled
Stays == UNCHANGED <<module, pos, output, result>>

(* What fits goes on fitting when the counters and the callees grow.       *)
LEMMA FitGrows ==
  ASSUME NEW n \in Int, NEW n2 \in Int, n <= n2, NEW names, NEW names2, names \subseteq names2
  PROVE  /\ \A v : ValueOK(v, n) => ValueOK(v, n2)
         /\ \A l : LoopOK(l, n) => LoopOK(l, n2)
         /\ \A l : LineOK(l, names) => LineOK(l, names2)
         /\ \A t : TaskFit(t, n, names) => TaskFit(t, n2, names2)
<1>1. \A v : ValueOK(v, n) => ValueOK(v, n2)
  BY DEF ValueOK
<1>2. \A l : LoopOK(l, n) => LoopOK(l, n2)
  BY DEF LoopOK
<1>3. \A l : LineOK(l, names) => LineOK(l, names2)
  BY DEF LineOK
<1>4. ASSUME NEW t, TaskFit(t, n, names) PROVE TaskFit(t, n2, names2)
  BY <1>2, <1>3, <1>4 DEF TaskFit
<1> QED BY <1>1, <1>2, <1>3, <1>4

\* The dependencies stay, or a function joins them that has no body here.
Depends ==
  \/ dependencies' = dependencies
  \/ \E f : f \notin Implemented \cup ToSet(dependencies) /\ dependencies' = Append(dependencies, f)

(* Which functions may be called before and after a step                   *)
LEMMA DependsGrows ==
  ASSUME DataInv, module' = module, Depends
  PROVE  /\ Callable \subseteq Callable'
         /\ ToSet(dependencies) \subseteq ToSet(dependencies')
         /\ IsList(dependencies')
         /\ \A i, j \in DOMAIN dependencies' : dependencies'[i] = dependencies'[j] => i = j
         /\ ToSet(dependencies') \cap Implemented' = {}
<1>1. Implemented' = Implemented
  BY DEF Implemented
<1>2. CASE dependencies' = dependencies
  BY <1>1, <1>2 DEF DataInv, Callable
<1>3. ASSUME NEW f, f \notin Implemented \cup ToSet(dependencies), dependencies' = Append(dependencies, f)
      PROVE  /\ ToSet(dependencies) \subseteq ToSet(dependencies')
             /\ IsList(dependencies')
             /\ \A i, j \in DOMAIN dependencies' : dependencies'[i] = dependencies'[j] => i = j
             /\ ToSet(dependencies') \cap Implemented' = {}
  <2> DEFINE d == dependencies
             d2 == dependencies'
  <2>1. IsList(d) /\ \A i, j \in DOMAIN d : d[i] = d[j] => i = j
    BY DEF DataInv
  <2>2. /\ IsList(d2) /\ Len(d) \in Nat /\ DOMAIN d = 1 .. Len(d) /\ DOMAIN d2 = 1 .. Len(d) + 1
        /\ \A i \in DOMAIN d : d2[i] = d[i]
        /\ d2[Len(d) + 1] = f
    BY <1>3, <2>1, Appended
  <2>3. \A i \in DOMAIN d : d[i] # f
    BY <1>3 DEF ToSet
  <2>4. \A i \in DOMAIN d2 : i \in DOMAIN d \/ (i = Len(d) + 1 /\ d2[i] = f)
    BY <2>2
  <2>5. \A i \in DOMAIN d : i \in DOMAIN d2
    BY <2>2
  <2> HIDE DEF d, d2
  <2>6. \A i, j \in DOMAIN d2 : d2[i] = d2[j] => i = j
    BY <2>1, <2>2, <2>3, <2>4
  <2>7. ToSet(d) \subseteq ToSet(d2)
    BY <2>2, <2>5 DEF ToSet
  <2>8. ToSet(d2) \subseteq ToSet(d) \cup {f}
    BY <2>2, <2>4 DEF ToSet
  <2>9. ToSet(d) \cap Implemented = {}
    BY DEF DataInv, d
  <2>10. ToSet(d2) \cap Implemented' = {}
    BY <1>1, <1>3, <2>8, <2>9 DEF d
  <2> QED BY <2>2, <2>6, <2>7, <2>10 DEF d, d2
<1>4. ToSet(dependencies) \subseteq ToSet(dependencies') => Callable \subseteq Callable'
  BY <1>1 DEF Callable
<1> QED BY <1>2, <1>3, <1>4 DEF Depends

(* Lines that may be printed, after others                                 *)
LEMMA JoinedLines ==
  ASSUME NEW c, IsList(c), NEW lines, IsList(lines), NEW names,
         \A i \in DOMAIN c : LineOK(c[i], names), \A i \in DOMAIN lines : LineOK(lines[i], names)
  PROVE  \A i \in DOMAIN (c \o lines) : LineOK((c \o lines)[i], names)
<1> SUFFICES ASSUME NEW i \in DOMAIN (c \o lines) PROVE LineOK((c \o lines)[i], names)
  OBVIOUS
<1>1. \/ \E j \in DOMAIN c : (c \o lines)[i] = c[j]
      \/ \E j \in DOMAIN lines : (c \o lines)[i] = lines[j]
  BY JoinedElements
<1> QED BY <1>1

(* The data of a function after a step that replaces the head task and     *)
(* prints lines                                                            *)
LEMMA DataStep ==
  ASSUME NamesInv, NamesInv', DataInv, agenda # << >>, module' = module, output' = output,
         NEW STATE tasks, IsList(tasks), agenda' = tasks \o Tail(agenda),
         \A i \in DOMAIN tasks : TaskFit(tasks[i], nextLabel', Callable'),
         NEW STATE lines, IsList(lines), code' = code \o lines,
         \A i \in DOMAIN lines : LineOK(lines[i], Callable'),
         nextLocalId <= nextLocalId', nextLabel <= nextLabel',
         IsList(locals'), \A i \in DOMAIN locals' : locals'[i].id \in Int /\ locals'[i].id < nextLocalId',
         IsList(vals'), \A i \in DOMAIN vals' : ValueOK(vals'[i], nextLocalId'),
         LoopOK(loops', nextLabel'), always' \in BOOLEAN, Depends, LiteralsKnown(strings', refs')
  PROVE  DataInv'
<1>1. /\ nextLocalId \in Int /\ nextLocalId' \in Int /\ nextLabel \in Int /\ nextLabel' \in Int
      /\ IsList(agenda) /\ IsList(code)
  BY DEF NamesInv, Named
<1>2. /\ Callable \subseteq Callable'
      /\ IsList(dependencies')
      /\ \A i, j \in DOMAIN dependencies' : dependencies'[i] = dependencies'[j] => i = j
      /\ ToSet(dependencies') \cap Implemented' = {}
  BY DependsGrows
<1>3. /\ \A l : LineOK(l, Callable) => LineOK(l, Callable')
      /\ \A t : TaskFit(t, nextLabel, Callable) => TaskFit(t, nextLabel', Callable')
  BY <1>1, <1>2, FitGrows
<1>4. \A i \in DOMAIN code' : LineOK(code'[i], Callable')
  <2>1. \A i \in DOMAIN code : LineOK(code[i], Callable')
    BY <1>3 DEF DataInv
  <2>2. \A i \in DOMAIN (code \o lines) : LineOK((code \o lines)[i], Callable')
    BY <1>1, <2>1, JoinedLines
  <2> QED BY <2>2
<1>5. ASSUME NEW i \in DOMAIN agenda' PROVE TaskFit(agenda'[i], nextLabel', Callable')
  <2>1. /\ DOMAIN agenda = 1 .. Len(agenda) /\ DOMAIN tasks = 1 .. Len(tasks)
        /\ \A j \in 1 .. Len(tasks) : agenda'[j] = tasks[j]
        /\ i \in 1 .. Len(tasks) \/ (i - Len(tasks) + 1 \in 2 .. Len(agenda) /\ agenda'[i] = agenda[i - Len(tasks) + 1])
    BY <1>1, HeadReplaced, SMTT(40)
  <2>2. \A j \in DOMAIN agenda : TaskFit(agenda[j], nextLabel, Callable)
    BY DEF DataInv
  <2>3. i - Len(tasks) + 1 \in 2 .. Len(agenda) => i - Len(tasks) + 1 \in DOMAIN agenda
    BY <2>1
  <2> QED BY <1>3, <2>1, <2>2, <2>3
<1>6. \A f \in DOMAIN output' : IsList(output'[f]) /\ \A i \in DOMAIN output'[f] : LineOK(output'[f][i], Callable')
  BY <1>3 DEF DataInv
<1> QED BY <1>2, <1>4, <1>5, <1>6 DEF DataInv

(* Joined lines call what either calls.                                     *)
LEMMA JoinedCalls ==
  ASSUME NEW c, IsList(c), NEW lines, IsList(lines), NEW f, LineCalls(c, f) \/ LineCalls(lines, f)
  PROVE  LineCalls(c \o lines, f)
<1> DEFINE d == c \o lines
<1>1. /\ Len(c) \in Nat /\ Len(lines) \in Nat /\ DOMAIN c = 1 .. Len(c) /\ DOMAIN lines = 1 .. Len(lines)
      /\ DOMAIN d = 1 .. Len(c) + Len(lines)
      /\ \A i \in 1 .. Len(c) : d[i] = c[i]
      /\ \A i \in 1 .. Len(c) + Len(lines) : i > Len(c) => d[i] = lines[i - Len(c)]
  BY Joined
<1> HIDE DEF d
<1>2. ASSUME NEW i \in DOMAIN c, c[i].op = "call", c[i].info[1] = f PROVE LineCalls(d, f)
  <2>1. i \in DOMAIN d /\ d[i] = c[i]
    BY <1>1
  <2> QED BY <1>2, <2>1 DEF LineCalls
<1>3. ASSUME NEW i \in DOMAIN lines, lines[i].op = "call", lines[i].info[1] = f PROVE LineCalls(d, f)
  <2>1. i + Len(c) \in 1 .. Len(c) + Len(lines) /\ i + Len(c) > Len(c) /\ (i + Len(c)) - Len(c) = i
    BY <1>1
  <2>2. i + Len(c) \in DOMAIN d /\ d[i + Len(c)] = lines[i]
    BY <1>1, <2>1
  <2> QED BY <1>3, <2>2 DEF LineCalls
<1>4. LineCalls(d, f)
  BY <1>2, <1>3 DEF LineCalls
<1> QED BY <1>4 DEF d

(* What calls the dependencies after such a step                           *)
LEMMA CalleesStep ==
  ASSUME NamesInv, CalleesInv, agenda # << >>, Stays,
         NEW STATE tasks, IsList(tasks), agenda' = tasks \o Tail(agenda), agenda' # << >>,
         NEW STATE lines, IsList(lines), code' = code \o lines,
         \A f : TaskCalls(agenda[1], f) \/ f \in ToSet(dependencies') \ ToSet(dependencies) =>
                  LineCalls(lines, f) \/ \E i \in DOMAIN tasks : TaskCalls(tasks[i], f)
  PROVE  CalleesInv'
<1> SUFFICES ASSUME result' \in {"running", "SUCCESS"} PROVE CalleesInv'
  BY DEF CalleesInv
<1>1. /\ DOMAIN output' = {module'[i].name : i \in {j \in DOMAIN module' : j < pos' /\ HasBody(module'[j])}}
      /\ \A f \in ToSet(dependencies) :
         \/ \E g \in DOMAIN output : LineCalls(output[g], f)
         \/ agenda # << >> /\ (LineCalls(code, f) \/ \E i \in DOMAIN agenda : TaskCalls(agenda[i], f))
  BY DEF CalleesInv, Stays
<1>2. IsList(agenda) /\ IsList(code)
  BY DEF NamesInv, Named
<1>3. \A f : LineCalls(code, f) \/ LineCalls(lines, f) => LineCalls(code', f)
  BY <1>2, JoinedCalls
<1>4. /\ DOMAIN agenda = 1 .. Len(agenda) /\ Len(agenda) \in Nat /\ Len(tasks) \in Nat
      /\ DOMAIN tasks = 1 .. Len(tasks) /\ DOMAIN agenda' = 1 .. Len(tasks) + Len(agenda) - 1
      /\ \A i \in 1 .. Len(tasks) : agenda'[i] = tasks[i]
      /\ \A i \in 2 .. Len(agenda) : agenda'[i + Len(tasks) - 1] = agenda[i]
      /\ Len(agenda) > 0
  BY <1>2, HeadReplaced
<1>5. ASSUME NEW f, NEW i \in DOMAIN agenda, i # 1, TaskCalls(agenda[i], f)
      PROVE  \E j \in DOMAIN agenda' : TaskCalls(agenda'[j], f)
  <2>1. i \in 2 .. Len(agenda) /\ i + Len(tasks) - 1 \in 1 .. Len(tasks) + Len(agenda) - 1
    BY <1>4, <1>5
  <2>2. i + Len(tasks) - 1 \in DOMAIN agenda' /\ agenda'[i + Len(tasks) - 1] = agenda[i]
    BY <1>4, <2>1
  <2> QED BY <1>5, <2>2
<1>6. ASSUME NEW f, NEW i \in DOMAIN tasks, TaskCalls(tasks[i], f)
      PROVE  \E j \in DOMAIN agenda' : TaskCalls(agenda'[j], f)
  <2>1. i \in DOMAIN agenda' /\ agenda'[i] = tasks[i]
    BY <1>4
  <2> QED BY <1>6, <2>1
<1>7. ASSUME NEW f \in ToSet(dependencies')
      PROVE  \/ \E g \in DOMAIN output' : LineCalls(output'[g], f)
             \/ agenda' # << >> /\ (LineCalls(code', f) \/ \E i \in DOMAIN agenda' : TaskCalls(agenda'[i], f))
  <2>1. CASE f \notin ToSet(dependencies) \/ TaskCalls(agenda[1], f)
    BY <1>3, <1>6, <1>7, <2>1
  <2>2. CASE \E g \in DOMAIN output : LineCalls(output[g], f)
    BY <2>2 DEF Stays
  <2>3. CASE LineCalls(code, f)
    BY <1>3, <2>3
  <2>4. ASSUME NEW i \in DOMAIN agenda, TaskCalls(agenda[i], f), ~TaskCalls(agenda[1], f)
        PROVE  \E j \in DOMAIN agenda' : TaskCalls(agenda'[j], f)
    BY <1>5, <2>4
  <2> QED BY <1>1, <2>1, <2>2, <2>3, <2>4
<1> QED BY <1>1, <1>7 DEF CalleesInv

(* A step of a function that keeps its frame                               *)
LEMMA FunctionStep ==
  ASSUME GenInv, NamesInv', result = "running", agenda # << >>, Stays,
         NEW STATE tasks, IsList(tasks), agenda' = tasks \o Tail(agenda),
         \A i \in DOMAIN tasks : TaskFit(tasks[i], nextLabel', Callable'),
         agenda' # << >>, Framed(agenda', locals', module[pos]), Unwinds(agenda', loops'),
         Len(agenda') = 1 => vals' = << >> /\ ~always',
         NEW STATE lines, IsList(lines), code' = code \o lines,
         \A i \in DOMAIN lines : LineOK(lines[i], Callable'),
         nextLocalId <= nextLocalId', nextLabel <= nextLabel',
         IsList(locals'), \A i \in DOMAIN locals' : locals'[i].id \in Int /\ locals'[i].id < nextLocalId',
         IsList(vals'), \A i \in DOMAIN vals' : ValueOK(vals'[i], nextLocalId'),
         LoopOK(loops', nextLabel'), always' \in BOOLEAN, Depends, LiteralsKnown(strings', refs'),
         \A f : TaskCalls(agenda[1], f) \/ f \in ToSet(dependencies') \ ToSet(dependencies) =>
                  LineCalls(lines, f) \/ \E i \in DOMAIN tasks : TaskCalls(tasks[i], f)
  PROVE  GenInv'
<1>1. NamesInv /\ DataInv /\ ContextInv /\ CalleesInv
  BY DEF GenInv
<1>2. /\ module' = module /\ pos' = pos /\ output' = output /\ result' = result
  BY DEF Stays
<1>3. DataInv'
  BY <1>1, <1>2, DataStep
<1>4. pos \in DOMAIN module /\ HasBody(module[pos]) /\ pos \in 0 .. Len(module) + 1
  BY <1>1 DEF ContextInv
<1>5. ContextInv'
  <2>1. IsList(agenda')
    BY DEF NamesInv, Named
  <2>2. Len(agenda') # 0
    BY <2>1, Rest
  <2> QED BY <1>2, <1>4, <2>2 DEF ContextInv
<1>6. CalleesInv'
  BY <1>1, CalleesStep
<1> QED BY <1>3, <1>5, <1>6 DEF GenInv

(* Where the head of the agenda is a task inside the function              *)
LEMMA OrdinaryStep ==
  ASSUME GenInv, NamesInv', result = "running", agenda # << >>, Stays,
         agenda[1].op \notin {"funcend", "body", "param", "block"},
         NEW STATE tasks, IsList(tasks), agenda' = tasks \o Tail(agenda),
         \A i \in DOMAIN tasks : Inner(tasks[i], Len(locals)) /\ TaskFit(tasks[i], nextLabel', Callable'),
         Unwinds(tasks \o Tail(agenda), loops'),
         NEW STATE lines, IsList(lines), code' = code \o lines,
         \A i \in DOMAIN lines : LineOK(lines[i], Callable'),
         nextLocalId <= nextLocalId', nextLabel <= nextLabel',
         IsList(locals'), \A i \in DOMAIN locals' : locals'[i].id \in Int /\ locals'[i].id < nextLocalId',
         Len(locals) <= Len(locals'), \A i \in DOMAIN locals : locals'[i] = locals[i],
         agenda[1].op = "emit" => tasks = << >> /\ locals' = locals,
         IsList(vals'), \A i \in DOMAIN vals' : ValueOK(vals'[i], nextLocalId'),
         LoopOK(loops', nextLabel'), always' \in BOOLEAN, Depends, LiteralsKnown(strings', refs'),
         \A f : TaskCalls(agenda[1], f) \/ f \in ToSet(dependencies') \ ToSet(dependencies) =>
                  LineCalls(lines, f) \/ \E i \in DOMAIN tasks : TaskCalls(tasks[i], f)
  PROVE  GenInv'
<1>1. /\ pos \in DOMAIN module /\ HasBody(module[pos]) /\ Framed(agenda, locals, module[pos])
      /\ IsList(agenda) /\ IsList(locals) /\ module \in Modules
  BY DEF GenInv, ContextInv, NamesInv, Named, DataInv
<1>2. IsList(module[pos].params)
  BY <1>1, ModulesAreLists DEF HasBody
<1>3. Framed(agenda', locals', module[pos]) /\ Len(agenda') > 1
  <2>1. \A i \in DOMAIN tasks : Inner(tasks[i], Len(locals))
    OBVIOUS
  <2>2. Framed(tasks \o Tail(agenda), locals', module[pos]) /\ Len(tasks \o Tail(agenda)) > 1
    BY <1>1, <1>2, <2>1, FramedStep
  <2> QED BY <2>2
<1>4. agenda' # << >> /\ (Len(agenda') = 1 => vals' = << >> /\ ~always') /\ Unwinds(agenda', loops')
  BY <1>3
<1> QED BY <1>3, <1>4, FunctionStep

(* A function of the first numbers is a list.                              *)
LEMMA FunctionIsList == ASSUME NEW n, n \in Nat, NEW f, f = [i \in 1 .. n |-> f[i]] PROVE IsList(f)
<1> DEFINE U == {f[i] : i \in 1 .. n}
<1>1. \A i \in 1 .. n : f[i] \in U
  OBVIOUS
<1> HIDE DEF U
<1>2. f \in Seq(U)
  BY <1>1
<1> QED BY <1>2, SeqIsList

(* A list whose last elements are left out                                 *)
LEMMA WithoutLast ==
  ASSUME DataInv, NEW STATE n, n \in Nat
  PROVE  /\ IsList(Top(n)) /\ IsList(Without(n))
         /\ \A i \in DOMAIN Without(n) : i \in DOMAIN vals /\ Without(n)[i] = vals[i]
<1>1. IsList(vals) /\ Len(vals) \in Nat /\ DOMAIN vals = 1 .. Len(vals)
  BY DEF DataInv, IsList
<1>2. IsList(Top(n))
  <2>1. Top(n) = [i \in 1 .. n |-> Top(n)[i]]
    BY DEF Top
  <2> HIDE DEF Top
  <2> QED BY <2>1, FunctionIsList
<1>3. DOMAIN Without(n) = 1 .. Len(vals) - n /\ \A i \in 1 .. Len(vals) - n : Without(n)[i] = vals[i]
  BY DEF Without
<1>4. \A i \in 1 .. Len(vals) - n : i \in DOMAIN vals
  BY <1>1
<1>5. IsList(Without(n))
  <2>1. PICK m \in Nat : 1 .. m = 1 .. Len(vals) - n
    <3> DEFINE k == Len(vals) - n
    <3>1. CASE n <= Len(vals)
      <4>1. k \in Nat
        BY <1>1, <3>1
      <4> QED BY <4>1
    <3>2. CASE ~(n <= Len(vals))
      <4>1. k \in Int /\ k < 0
        BY <1>1, <3>2
      <4> HIDE DEF k
      <4>2. 1 .. 0 = 1 .. k
        BY <4>1
      <4> QED BY <4>2 DEF k
    <3> QED BY <3>1, <3>2
  <2>2. Without(n) = [i \in 1 .. m |-> Without(n)[i]]
    BY <2>1 DEF Without
  <2> QED BY <2>2, FunctionIsList
<1> QED BY <1>2, <1>3, <1>4, <1>5

\* The values after a step
ValuesKept == IsList(vals') /\ \A i \in DOMAIN vals' : ValueOK(vals'[i], nextLocalId')

(* A value that is put after some of the values                            *)
LEMMA ValuesAppended ==
  ASSUME NEW STATE s, IsList(s), \A i \in DOMAIN s : ValueOK(s[i], nextLocalId),
         nextLocalId \in Int, nextLocalId' \in Int, nextLocalId <= nextLocalId',
         NEW v, ValueOK(v, nextLocalId'), vals' = Append(s, v)
  PROVE  ValuesKept
<1>1. /\ IsList(vals') /\ DOMAIN s = 1 .. Len(s) /\ Len(s) \in Nat /\ DOMAIN vals' = 1 .. Len(s) + 1
      /\ \A i \in DOMAIN s : vals'[i] = s[i]
      /\ vals'[Len(s) + 1] = v
  BY Appended
<1>2. \A w : ValueOK(w, nextLocalId) => ValueOK(w, nextLocalId')
  BY DEF ValueOK
<1>3. \A i \in DOMAIN vals' : i \in DOMAIN s \/ i = Len(s) + 1
  BY <1>1
<1> QED BY <1>1, <1>2, <1>3 DEF ValuesKept

(* A value in place of the last ones, a value more, or the last ones less   *)
LEMMA ValuesStep ==
  ASSUME NamesInv, NamesInv', DataInv, nextLocalId <= nextLocalId', NEW STATE n, n \in Nat, NEW v,
         ValueOK(v, nextLocalId'),
         Replace(n, v) \/ vals' = Append(vals, v) \/ Drop(n) \/ vals' = vals
  PROVE  ValuesKept
<1>1. nextLocalId \in Int /\ nextLocalId' \in Int
  BY DEF NamesInv, Named
<1>2. IsList(vals) /\ \A i \in DOMAIN vals : ValueOK(vals[i], nextLocalId)
  BY DEF DataInv
<1>3. IsList(Without(n)) /\ \A i \in DOMAIN Without(n) : ValueOK(Without(n)[i], nextLocalId)
  BY <1>2, WithoutLast
<1>4. CASE Replace(n, v)
  BY <1>1, <1>3, <1>4, ValuesAppended DEF Replace
<1>5. CASE vals' = Append(vals, v)
  BY <1>1, <1>2, <1>5, ValuesAppended
<1>6. \A w : ValueOK(w, nextLocalId) => ValueOK(w, nextLocalId')
  BY <1>1 DEF ValueOK
<1>7. CASE Drop(n)
  BY <1>3, <1>6, <1>7 DEF Drop, ValuesKept
<1>8. CASE vals' = vals
  BY <1>2, <1>6, <1>8 DEF ValuesKept
<1> QED BY <1>4, <1>5, <1>7, <1>8

\* A task that is one of the parts of another
Part(t) == Inner(t, Len(locals)) /\ t.op # "loop" /\ TaskFit(t, 0, Callable)

\* A head task that is neither a frame of the function nor a loop's end
InsideFunction ==
  /\ result = "running" /\ agenda # << >>
  /\ agenda[1].op \notin {"funcend", "body", "param", "block", "loop"}

(* A step that prints nothing and leaves the parts of its head             *)
LEMMA QuietStep ==
  ASSUME GenInv, NamesInv', InsideFunction, agenda[1].op # "emit", UNCHANGED <<Frame, loops, locals, code, strings, refs>>,
         NEW STATE tasks, IsList(tasks), \A i \in DOMAIN tasks : Part(tasks[i]), agenda' = tasks \o Tail(agenda),
         nextLocalId <= nextLocalId', nextLabel <= nextLabel', ValuesKept, always' \in BOOLEAN,
         \A f : TaskCalls(agenda[1], f) => \E i \in DOMAIN tasks : TaskCalls(tasks[i], f)
  PROVE  GenInv'
<1>1. NamesInv /\ DataInv /\ ContextInv
  BY DEF GenInv
<1>2. Stays /\ dependencies' = dependencies /\ Depends
  BY DEF Stays, Frame, Outside, Depends
<1>3. /\ nextLocalId \in Int /\ nextLocalId' \in Int /\ nextLabel \in Int /\ nextLabel' \in Int
      /\ IsList(agenda) /\ IsList(code)
  BY <1>1 DEF NamesInv, Named
<1>4. Callable' = Callable
  BY <1>2 DEF Callable, Implemented, Stays
<1>5. /\ IsList(locals) /\ \A i \in DOMAIN locals : locals[i].id \in Int /\ locals[i].id < nextLocalId'
      /\ LoopOK(loops, nextLabel') /\ LiteralsKnown(strings, refs)
  BY <1>1, <1>3 DEF DataInv, LoopOK
<1>6. Unwinds(tasks \o Tail(agenda), loops)
  <2>1. Unwinds(agenda, loops)
    BY <1>1 DEF ContextInv, InsideFunction
  <2>2. agenda[1].op # "loop" /\ agenda # << >> /\ \A i \in DOMAIN tasks : tasks[i].op # "loop"
    BY DEF InsideFunction, Part
  <2> QED BY <1>3, <2>1, <2>2, UnwindsStep
<1>7. code' = code \o << >> /\ IsList(<< >>)
  BY <1>3, JoinedToNothing, ShortLists
<1>8. \A i \in DOMAIN tasks : Inner(tasks[i], Len(locals)) /\ TaskFit(tasks[i], nextLabel', Callable')
  BY <1>4 DEF Part, TaskFit
<1>9. Len(locals) \in Nat
  BY <1>5 DEF IsList
<1>10. /\ result = "running" /\ agenda # << >>
       /\ agenda[1].op \notin {"funcend", "body", "param", "block"}
       /\ locals' = locals /\ Len(locals) <= Len(locals') /\ loops' = loops /\ strings' = strings /\ refs' = refs
  BY <1>9 DEF InsideFunction
<1>11. IsList(vals') /\ \A i \in DOMAIN vals' : ValueOK(vals'[i], nextLocalId')
  BY DEF ValuesKept
<1>12. \A f : TaskCalls(agenda[1], f) \/ f \in ToSet(dependencies') \ ToSet(dependencies) =>
                  LineCalls(<< >>, f) \/ \E i \in DOMAIN tasks : TaskCalls(tasks[i], f)
  BY <1>2
<1>13. \A i \in DOMAIN << >> : LineOK(<< >>[i], Callable')
  OBVIOUS
<1>14. /\ Unwinds(tasks \o Tail(agenda), loops')
       /\ IsList(locals') /\ \A i \in DOMAIN locals' : locals'[i].id \in Int /\ locals'[i].id < nextLocalId'
       /\ \A i \in DOMAIN locals : locals'[i] = locals[i]
       /\ LoopOK(loops', nextLabel') /\ LiteralsKnown(strings', refs')
  BY <1>5, <1>6, <1>10
<1> QED BY <1>2, <1>7, <1>8, <1>10, <1>11, <1>12, <1>13, <1>14, OrdinaryStep

(* A step that prints lines and leaves nothing of its head                 *)
LEMMA PrintingStep ==
  ASSUME GenInv, NamesInv', InsideFunction, UNCHANGED <<Frame, always, loops>>, agenda' = << >> \o Tail(agenda),
         NEW STATE lines, IsList(lines), \A i \in DOMAIN lines : LineOK(lines[i], Callable), Emit(lines),
         nextLocalId <= nextLocalId', nextLabel <= nextLabel', ValuesKept,
         \/ locals' = locals
         \/ agenda[1].op # "emit" /\ \E x : locals' = Append(locals, x) /\ x.id \in Int /\ x.id < nextLocalId',
         \A f : TaskCalls(agenda[1], f) => LineCalls(lines, f)
  PROVE  GenInv'
<1>1. NamesInv /\ DataInv /\ ContextInv
  BY DEF GenInv
<1>2. Stays /\ dependencies' = dependencies /\ Depends
  BY DEF Stays, Frame, Outside, Depends
<1>3. /\ nextLocalId \in Int /\ nextLocalId' \in Int /\ nextLabel \in Int /\ nextLabel' \in Int
      /\ IsList(agenda) /\ IsList(code)
  BY <1>1 DEF NamesInv, Named
<1>4. Callable' = Callable
  BY <1>2 DEF Callable, Implemented, Stays
<1>5. /\ IsList(locals) /\ \A i \in DOMAIN locals : locals[i].id \in Int /\ locals[i].id < nextLocalId'
      /\ LoopOK(loops, nextLabel') /\ LiteralsKnown(strings, refs) /\ always' \in BOOLEAN
  BY <1>1, <1>3 DEF DataInv, LoopOK
<1>6. Unwinds(<< >> \o Tail(agenda), loops')
  <2>1. Unwinds(agenda, loops)
    BY <1>1 DEF ContextInv, InsideFunction
  <2>2. agenda[1].op # "loop" /\ agenda # << >> /\ \A i \in DOMAIN << >> : << >>[i].op # "loop"
    BY DEF InsideFunction
  <2>3. Unwinds(<< >> \o Tail(agenda), loops)
    BY <1>3, <2>1, <2>2, UnwindsStep, ShortLists
  <2> QED BY <2>3
<1>7. code' = code \o lines /\ IsList(<< >>)
  BY Printed, ShortLists
<1>8. LiteralsKnown(strings', refs')
  <2>1. \A i \in DOMAIN lines : IsList(lines[i].args)
    BY DEF LineOK
  <2> QED BY <1>5, <2>1, EmittedKnown
<1>9. /\ IsList(locals') /\ \A i \in DOMAIN locals' : locals'[i].id \in Int /\ locals'[i].id < nextLocalId'
      /\ Len(locals) <= Len(locals') /\ \A i \in DOMAIN locals : locals'[i] = locals[i]
  <2>1. CASE locals' = locals
    <3>1. Len(locals) \in Nat
      BY <1>5 DEF IsList
    <3> QED BY <1>5, <2>1, <3>1
  <2>2. ASSUME NEW x, locals' = Append(locals, x), x.id \in Int, x.id < nextLocalId'
        PROVE  /\ IsList(locals') /\ \A i \in DOMAIN locals' : locals'[i].id \in Int /\ locals'[i].id < nextLocalId'
               /\ Len(locals) <= Len(locals') /\ \A i \in DOMAIN locals : locals'[i] = locals[i]
    <3>1. /\ IsList(locals') /\ DOMAIN locals = 1 .. Len(locals) /\ Len(locals) \in Nat
          /\ Len(locals') = Len(locals) + 1 /\ DOMAIN locals' = 1 .. Len(locals) + 1
          /\ \A i \in DOMAIN locals : locals'[i] = locals[i]
          /\ locals'[Len(locals) + 1] = x
      BY <1>5, <2>2, Appended
    <3>2. \A i \in DOMAIN locals' : i \in DOMAIN locals \/ i = Len(locals) + 1
      BY <3>1
    <3>3. Len(locals) <= Len(locals')
      BY <3>1
    <3> QED BY <1>5, <2>2, <3>1, <3>2, <3>3
  <2> QED BY <2>1, <2>2
<1>10. /\ result = "running" /\ agenda # << >>
       /\ agenda[1].op \notin {"funcend", "body", "param", "block"}
       /\ loops' = loops /\ LoopOK(loops', nextLabel')
  BY <1>5 DEF InsideFunction
<1>11. IsList(vals') /\ \A i \in DOMAIN vals' : ValueOK(vals'[i], nextLocalId')
  BY DEF ValuesKept
<1>12. \A f : TaskCalls(agenda[1], f) \/ f \in ToSet(dependencies') \ ToSet(dependencies) =>
                  LineCalls(lines, f) \/ \E i \in DOMAIN << >> : TaskCalls(<< >>[i], f)
  BY <1>2
<1>13. \A i \in DOMAIN << >> : Inner(<< >>[i], Len(locals)) /\ TaskFit(<< >>[i], nextLabel', Callable')
  OBVIOUS
<1>14. \A i \in DOMAIN lines : LineOK(lines[i], Callable')
  BY <1>4
<1>15. agenda[1].op = "emit" => << >> = << >> /\ locals' = locals
  OBVIOUS
<1> QED BY <1>2, <1>5, <1>6, <1>7, <1>8, <1>9, <1>10, <1>11, <1>12, <1>13, <1>14, <1>15, OrdinaryStep

-----------------------------------------------------------------------------
(* Each action again                                                       *)

(* Lines that may be printed                                               *)
LEMMA PrintableLines ==
  ASSUME NEW names
  PROVE  /\ \A op, dst, args, info : op \notin {"br", "condbr", "call"} /\ IsList(args) =>
              LineOK(Line(op, dst, args, info), names)
         /\ \A dst, args, f : IsList(args) /\ f \in names => LineOK(Line("call", dst, args, <<f>>), names)
         /\ \A k : LineOK(Label(k), names) /\ LineOK(Branch(k), names)
         /\ \A a, v : LineOK(Store(a, v), names)
         /\ \A args, info : IsList(args) /\ DOMAIN info = 1 .. 2 => LineOK(Line("condbr", Nowhere, args, info), names)
BY ShortLists DEF LineOK, Line, Label, Branch, Store

(* Tasks that are parts of others                                          *)
LEMMA PartTasks ==
  /\ \A t : t.op \notin {"emit", "compare", "loop", "print", "args", "callend", "funcend", "body", "param", "block"} =>
              Part(t)
  /\ \A lines : IsList(lines) /\ (\A i \in DOMAIN lines : LineOK(lines[i], Callable)) => Part(Lines(lines))
  /\ \A b : Part(Block(b))
  /\ \A op, type, to : DOMAIN to = 1 .. 2 => Part(Task("compare", [op |-> op, type |-> type, to |-> to]))
  /\ \A r \in Routines : Part(Task("print", r))
<1>1. ASSUME NEW t,
             t.op \notin {"emit", "compare", "loop", "print", "args", "callend", "funcend", "body", "param", "block"}
      PROVE  Part(t)
  BY <1>1 DEF Part, Inner, TaskFit
<1>2. ASSUME NEW lines, IsList(lines), \A i \in DOMAIN lines : LineOK(lines[i], Callable) PROVE Part(Lines(lines))
  <2>1. Lines(lines).op = "emit" /\ Lines(lines).node = lines
    BY DEF Lines, Task
  <2> QED BY <1>2, <2>1 DEF Part, Inner, TaskFit
<1>3. ASSUME NEW b PROVE Part(Block(b))
  <2>1. Block(b).op = "block" /\ Block(b).node.top = Len(locals)
    BY DEF Block, Task
  <2> QED BY <2>1 DEF Part, Inner, TaskFit
<1>4. ASSUME NEW op, NEW type, NEW to, DOMAIN to = 1 .. 2
      PROVE  Part(Task("compare", [op |-> op, type |-> type, to |-> to]))
  BY <1>4 DEF Part, Inner, TaskFit, Task
<1>5. ASSUME NEW r \in Routines PROVE Part(Task("print", r))
  <2>1. r \in Callable
    BY DEF Callable
  <2> QED BY <2>1 DEF Part, Inner, TaskFit, Task
<1> QED BY <1>1, <1>2, <1>3, <1>4, <1>5

(* Lines with a label, a branch or a return are parts.                     *)
LEMMA PartLines ==
  /\ \A k : Part(Lines(<<Label(k)>>)) /\ Part(Lines(<<Branch(k)>>))
  /\ \A e, k : Part(Lines(<<Branch(e), Label(k)>>))
  /\ Part(Lines(<<Line("ret", Nowhere, << >>, << >>)>>))
<1>1. \A x : LineOK(x, Callable) => Part(Lines(<<x>>))
  BY PartTasks, ShortLists
<1>2. \A x, y : LineOK(x, Callable) /\ LineOK(y, Callable) => Part(Lines(<<x, y>>))
  BY PartTasks, ShortLists
<1>3. IsList(<< >>)
  BY ShortLists
<1> QED BY <1>1, <1>2, <1>3, PrintableLines

(* Lists of parts                                                          *)
LEMMA PartLists ==
  /\ IsList(<< >>) /\ \A i \in DOMAIN << >> : Part(<< >>[i])
  /\ \A t : Part(t) => IsList(<<t>>) /\ \A i \in DOMAIN <<t>> : Part(<<t>>[i])
  /\ \A t, u : Part(t) /\ Part(u) => IsList(<<t, u>>) /\ \A i \in DOMAIN <<t, u>> : Part(<<t, u>>[i])
  /\ \A t, u, v : Part(t) /\ Part(u) /\ Part(v) =>
       IsList(<<t, u, v>>) /\ \A i \in DOMAIN <<t, u, v>> : Part(<<t, u, v>>[i])
BY ShortLists

(* Parts before parts                                                      *)
LEMMA PartsJoined ==
  ASSUME NEW s, NEW t, IsList(s), IsList(t), \A i \in DOMAIN s : Part(s[i]), \A i \in DOMAIN t : Part(t[i])
  PROVE  IsList(s \o t) /\ \A i \in DOMAIN (s \o t) : Part((s \o t)[i])
<1> SUFFICES ASSUME NEW i \in DOMAIN (s \o t) PROVE Part((s \o t)[i])
  BY Joined
<1>1. (\E j \in DOMAIN s : (s \o t)[i] = s[j]) \/ (\E j \in DOMAIN t : (s \o t)[i] = t[j])
  BY JoinedElements
<1> QED BY <1>1

\* What each action finds
Before == GenInv /\ NamesInv'

(* A step that takes labels at most                                        *)
LEMMA PartsStep ==
  ASSUME Before, InsideFunction, agenda[1].op \notin {"emit", "args", "callend"},
         UNCHANGED <<Frame, vals, always, loops, locals, nextLocalId, code, strings, refs>>, nextLabel <= nextLabel',
         NEW STATE tasks, IsList(tasks), \A i \in DOMAIN tasks : Part(tasks[i]), Then(tasks)
  PROVE  GenInv'
<1>1. NamesInv /\ NamesInv' /\ DataInv /\ GenInv
  BY DEF Before, GenInv
<1>2. nextLocalId \in Int /\ nextLocalId <= nextLocalId'
  BY <1>1 DEF NamesInv, Named
<1>3. ValuesKept
  BY <1>1 DEF DataInv, ValuesKept
<1>4. always' \in BOOLEAN
  BY <1>1 DEF DataInv
<1>5. \A f : TaskCalls(agenda[1], f) => \E i \in DOMAIN tasks : TaskCalls(tasks[i], f)
  BY DEF TaskCalls
<1>6. agenda' = tasks \o Tail(agenda) /\ agenda[1].op # "emit"
      /\ UNCHANGED <<Frame, loops, locals, code, strings, refs>>
  BY DEF Then
<1> QED BY <1>1, <1>2, <1>3, <1>4, <1>5, <1>6, QuietStep

(* A step that leaves nothing and prints nothing                           *)
LEMMA ValueStep ==
  ASSUME Before, InsideFunction, agenda[1].op \notin {"emit", "args", "callend"},
         UNCHANGED <<Frame, always, loops, locals, nextLocalId, nextLabel, code, strings, refs>>,
         NEW STATE tasks, IsList(tasks), \A i \in DOMAIN tasks : Part(tasks[i]), Then(tasks),
         NEW STATE n, n \in Nat, NEW STATE v, ValueOK(v, nextLocalId), Replace(n, v) \/ vals' = Append(vals, v)
  PROVE  GenInv'
<1>1. NamesInv /\ NamesInv' /\ DataInv /\ GenInv
  BY DEF Before, GenInv
<1>2. nextLocalId \in Int /\ nextLocalId <= nextLocalId' /\ nextLabel \in Int /\ nextLabel <= nextLabel'
  BY <1>1 DEF NamesInv, Named
<1>3. ValuesKept
  <2>1. ValueOK(v, nextLocalId')
    OBVIOUS
  <2> QED BY <1>1, <1>2, <2>1, ValuesStep
<1>4. always' \in BOOLEAN
  BY <1>1 DEF DataInv
<1>5. \A f : TaskCalls(agenda[1], f) => \E i \in DOMAIN tasks : TaskCalls(tasks[i], f)
  BY DEF TaskCalls
<1>6. agenda' = tasks \o Tail(agenda) /\ agenda[1].op # "emit"
      /\ UNCHANGED <<Frame, loops, locals, code, strings, refs>>
  BY DEF Then
<1> QED BY <1>1, <1>2, <1>3, <1>4, <1>5, <1>6, QuietStep

(* A step that prints lines and changes the values                         *)
LEMMA LinesStep ==
  ASSUME Before, InsideFunction, UNCHANGED <<Frame, always, loops>>, Done,
         NEW STATE lines, agenda[1].op # "callend" \/ (\A f : TaskCalls(agenda[1], f) => LineCalls(lines, f)),
         agenda[1].op # "args", IsList(lines), \A i \in DOMAIN lines : LineOK(lines[i], Callable), Emit(lines),
         nextLocalId <= nextLocalId', nextLabel <= nextLabel',
         \/ locals' = locals
         \/ agenda[1].op # "emit" /\ \E x : locals' = Append(locals, x) /\ x.id \in Int /\ x.id < nextLocalId',
         NEW STATE n, n \in Nat, NEW STATE v, ValueOK(v, nextLocalId'),
         Replace(n, v) \/ vals' = Append(vals, v) \/ Drop(n) \/ vals' = vals
  PROVE  GenInv'
<1>1. NamesInv /\ NamesInv' /\ DataInv /\ GenInv
  BY DEF Before, GenInv
<1>2. ValuesKept
  BY <1>1, ValuesStep
<1>3. \A f : TaskCalls(agenda[1], f) => LineCalls(lines, f)
  BY DEF TaskCalls
<1>4. agenda' = << >> \o Tail(agenda)
  BY DEF Done, Then
<1> QED BY <1>1, <1>2, <1>3, <1>4, PrintingStep

(* An instruction with a result, which takes the place of the last values  *)
LEMMA InstructionStep ==
  ASSUME Before, InsideFunction, agenda[1].op # "args", UNCHANGED <<Frame, always, loops, locals, nextLabel>>,
         NEW STATE n, n \in Nat, NEW STATE op, op \notin {"br", "condbr"}, NEW STATE args, IsList(args), NEW STATE info,
         op = "call" => info[1] \in Callable, Instruction(n, op, args, info),
         agenda[1].op = "callend" => op = "call" /\ info[1] = agenda[1].node.call.name
  PROVE  GenInv'
<1> DEFINE l == Line(op, ValLocal(nextLocalId), args, info)
           lines == <<l>>
           v == ValLocal(nextLocalId)
<1>1. NamesInv /\ NamesInv' /\ nextLocalId \in Nat /\ nextLabel \in Nat
  BY DEF Before, GenInv, NamesInv, Named
<1>2. Emit(lines) /\ nextLocalId' = nextLocalId + 1 /\ Replace(n, v) /\ Done
  BY DEF Instruction
<1>3. IsList(lines) /\ \A i \in DOMAIN lines : LineOK(lines[i], Callable)
  <2>1. LineOK(l, Callable)
    BY DEF LineOK, Line
  <2> HIDE DEF l
  <2> QED BY <2>1, ShortLists
<1>4. nextLocalId <= nextLocalId' /\ nextLabel <= nextLabel' /\ ValueOK(v, nextLocalId')
  BY <1>1, <1>2 DEF ValueOK, ValLocal
<1>5. agenda[1].op # "callend" \/ (\A f : TaskCalls(agenda[1], f) => LineCalls(lines, f))
  BY DEF TaskCalls, LineCalls, Line
<1> HIDE DEF lines, v
<1> QED BY <1>2, <1>3, <1>4, <1>5, LinesStep

(* The lines that waited are printed.                                      *)
LEMMA EmitLinesKept == ASSUME Before, EmitLines PROVE GenInv'
<1>1. NamesInv /\ DataInv
  BY DEF Before, GenInv
<1>2. /\ InsideFunction /\ agenda[1].op = "emit" /\ UNCHANGED <<Frame, always, loops>> /\ Done /\ locals' = locals
      /\ Emit(agenda[1].node) /\ vals' = vals /\ nextLocalId' = nextLocalId /\ nextLabel' = nextLabel
  BY DEF EmitLines, At, InsideFunction, node
<1>3. nextLocalId \in Int /\ nextLabel \in Int /\ nextLocalId <= nextLocalId' /\ nextLabel <= nextLabel'
  BY <1>1, <1>2 DEF NamesInv, Named
<1>4. IsList(agenda[1].node) /\ \A i \in DOMAIN agenda[1].node : LineOK(agenda[1].node[i], Callable)
  <2>1. 1 \in DOMAIN agenda
    BY <1>1, <1>2, Rest DEF NamesInv, Named, InsideFunction
  <2>2. TaskFit(agenda[1], nextLabel, Callable)
    BY <1>1, <2>1 DEF DataInv
  <2> QED BY <1>2, <2>2 DEF TaskFit
<1>5. 0 \in Nat /\ ValueOK(ValNull, nextLocalId')
  BY DEF ValueOK, ValNull
<1> QED BY <1>2, <1>3, <1>4, <1>5, LinesStep

(* A condition becomes conditions and labels, or a comparison.             *)
LEMMA ConditionKept == ASSUME Before, CompileCondition PROVE GenInv'
<1> DEFINE c == node.cond
           t == Targets(c, node.ifTrue, node.ifFalse)
<1>1. /\ InsideFunction /\ agenda[1].op \notin {"emit", "args", "callend"}
      /\ UNCHANGED <<Frame, vals, always, loops, locals, nextLocalId, code, strings, refs>>
  BY DEF CompileCondition, At, InsideFunction
<1>2. nextLabel \in Nat
  BY DEF Before, GenInv, NamesInv, Named
<1>3. nextLabel <= nextLabel'
  BY <1>2 DEF CompileCondition
<1>4. \A x, y, z : Part(Cond(x, y, z))
  BY PlainTasks, PartTasks
<1>5. ASSUME NEW STATE x, NEW STATE y, NEW STATE z, Part(x), Part(y), Part(z), Then(<<x, y, z>>) PROVE GenInv'
  <2> DEFINE tasks == <<x, y, z>>
  <2>1. IsList(tasks) /\ \A i \in DOMAIN tasks : Part(tasks[i])
    BY <1>5, PartLists
  <2>2. Then(tasks)
    BY <1>5
  <2> HIDE DEF tasks
  <2> QED BY <1>1, <1>3, <2>1, <2>2, PartsStep
<1>6. DOMAIN t = 1 .. 2
  BY DEF Targets
<1>7. \A x, y : Part(Exp(x, y))
  BY PlainTasks, PartTasks
<1>8. Part(Task("compare", [op |-> c.op, type |-> c.left.type, to |-> t])) /\ Part(Lines(<<Label(nextLabel)>>))
  BY <1>6, PartTasks, PartLines
<1>9. CASE c.kind = "and" \/ c.kind = "or"
  BY <1>4, <1>5, <1>8, <1>9 DEF CompileCondition
<1>10. CASE c.kind = "compare"
  BY <1>5, <1>7, <1>8, <1>10 DEF CompileCondition
<1> QED BY <1>9, <1>10 DEF CompileCondition

(* A comparison and its branch                                             *)
LEMMA ComparisonKept == ASSUME Before, CompileComparison PROVE GenInv'
<1> DEFINE how == IF IsFloat(node.type) /\ ~IsInteger(node.type) THEN "fcmp" ELSE "icmp"
           x == Line("cmp", ValLocal(nextLocalId), Top(2), <<how, node.op, TypeRef(node.type)>>)
           y == Line("condbr", Nowhere, <<ValLocal(nextLocalId)>>, node.to)
           lines == <<x, y>>
<1>1. NamesInv /\ DataInv
  BY DEF Before, GenInv
<1>2. /\ InsideFunction /\ agenda[1].op = "compare" /\ UNCHANGED <<Frame, always, loops>> /\ Done /\ locals' = locals
      /\ Emit(lines) /\ Drop(2) /\ nextLocalId' = nextLocalId + 1 /\ nextLabel' = nextLabel
  BY DEF CompileComparison, At, InsideFunction
<1>3. nextLocalId \in Int /\ nextLabel \in Int /\ nextLocalId <= nextLocalId' /\ nextLabel <= nextLabel'
  BY <1>1, <1>2 DEF NamesInv, Named
<1>4. DOMAIN node.to = 1 .. 2
  <2>1. 1 \in DOMAIN agenda
    BY <1>1, <1>2, Rest DEF NamesInv, Named, InsideFunction
  <2>2. TaskFit(agenda[1], nextLabel, Callable)
    BY <1>1, <2>1 DEF DataInv
  <2> QED BY <1>2, <2>2 DEF TaskFit, node
<1>5. 2 \in Nat /\ ValueOK(ValNull, nextLocalId') /\ IsList(Top(2))
  BY <1>1, WithoutLast DEF ValueOK, ValNull
<1>6. LineOK(x, Callable) /\ LineOK(y, Callable)
  <2>1. IsList(<<ValLocal(nextLocalId)>>)
    BY ShortLists
  <2> QED BY <1>4, <1>5, <2>1, PrintableLines
<1> HIDE DEF x, y
<1>7. IsList(lines) /\ \A i \in DOMAIN lines : LineOK(lines[i], Callable)
  BY <1>6, ShortLists
<1> HIDE DEF lines
<1>8. agenda[1].op # "callend" /\ agenda[1].op # "args"
  BY <1>2
<1> QED BY <1>2, <1>3, <1>5, <1>7, <1>8, LinesStep

(* An expression is its parts.                                             *)
LEMMA ExpKept == ASSUME Before, CompileExp PROVE GenInv'
<1> DEFINE e == node.exp
           last == Convert(e, node.target)
<1>1. /\ InsideFunction /\ agenda[1].op \notin {"emit", "args", "callend"}
      /\ UNCHANGED <<Frame, always, loops, locals, nextLocalId, code, strings, refs>>
  BY DEF CompileExp, At, InsideFunction
<1>2. nextLabel \in Nat /\ nextLabel <= nextLabel /\ 0 \in Nat
  BY DEF Before, GenInv, NamesInv, Named
<1>3. Part(last) /\ \A x, y : Part(Exp(x, y))
  BY PlainTasks, PartTasks
<1>4. \A op, x : op \in {"unop", "binop", "var", "load", "call", "alloc", "scale", "phi", "armend"} => Part(Task(op, x))
  BY PlainTasks, PartTasks
<1>5. ASSUME NEW STATE tasks, IsList(tasks), \A i \in DOMAIN tasks : Part(tasks[i]), Then(tasks),
             vals' = vals, nextLabel <= nextLabel'
      PROVE  GenInv'
  BY <1>1, <1>5, PartsStep
<1>6. ASSUME NEW STATE tasks, IsList(tasks), \A i \in DOMAIN tasks : Part(tasks[i]), Then(tasks \o <<last>>),
             UNCHANGED <<vals, nextLabel>>
      PROVE  GenInv'
  <2>1. IsList(<<last>>) /\ \A i \in DOMAIN <<last>> : Part(<<last>>[i])
    BY <1>3, PartLists
  <2> HIDE DEF last
  <2>2. IsList(tasks \o <<last>>) /\ \A i \in DOMAIN (tasks \o <<last>>) : Part((tasks \o <<last>>)[i])
    BY <1>6, <2>1, PartsJoined
  <2> QED BY <1>2, <1>5, <1>6, <2>2
<1>7. ASSUME NEW STATE x, Part(x), Then(<<x>>), NEW STATE v, v[1] # "t", vals' = Append(vals, v), nextLabel' = nextLabel
      PROVE  GenInv'
  <2>1. IsList(<<x>>) /\ \A i \in DOMAIN <<x>> : Part(<<x>>[i])
    BY <1>7, PartLists
  <2>2. ValueOK(v, nextLocalId)
    BY <1>7 DEF ValueOK
  <2> QED BY <1>1, <1>2, <1>7, <2>1, <2>2, ValueStep
<1>8. ValLiteral(e.text)[1] # "t" /\ ValString(e.text)[1] # "t" /\ Unset[1] # "t" /\ ValLiteral("size")[1] # "t"
  BY DEF ValLiteral, ValString, Unset
<1> HIDE DEF last
<1>9. CASE e.kind \in {"lit", "str", "null"}
  BY <1>3, <1>7, <1>8, <1>9 DEF CompileExp, last
<1>10. CASE e.kind = "new"
  BY <1>4, <1>7, <1>8, <1>10 DEF CompileExp
<1>11. ASSUME NEW STATE x, Part(x), Then(<<x>> \o <<last>>), UNCHANGED <<vals, nextLabel>> PROVE GenInv'
  <2>1. IsList(<<x>>) /\ \A i \in DOMAIN <<x>> : Part(<<x>>[i])
    BY <1>11, PartLists
  <2> QED BY <1>6, <1>11, <2>1
<1>12. ASSUME NEW STATE x, NEW STATE y, Part(x), Part(y), Then(<<x, y>> \o <<last>>), UNCHANGED <<vals, nextLabel>>
       PROVE  GenInv'
  <2>1. IsList(<<x, y>>) /\ \A i \in DOMAIN <<x, y>> : Part(<<x, y>>[i])
    BY <1>12, PartLists
  <2> QED BY <1>6, <1>12, <2>1
<1>13. ASSUME NEW STATE x, NEW STATE y, NEW STATE z, Part(x), Part(y), Part(z), UNCHANGED <<vals, nextLabel>>,
              Then(<<x, y, z>> \o <<last>>) \/ Then(<<x, y, z>>)
       PROVE  GenInv'
  <2>1. IsList(<<x, y, z>>) /\ \A i \in DOMAIN <<x, y, z>> : Part(<<x, y, z>>[i])
    BY <1>13, PartLists
  <2> QED BY <1>2, <1>5, <1>6, <1>13, <2>1
<1>14. CASE e.kind = "unop"
  BY <1>3, <1>4, <1>12, <1>14 DEF CompileExp, last
<1>15. CASE e.kind = "binop"
  BY <1>3, <1>4, <1>13, <1>15 DEF CompileExp, last
<1>16. CASE e.kind = "cast" \/ e.kind = "call"
  BY <1>3, <1>4, <1>11, <1>16 DEF CompileExp, last
<1>17. CASE e.kind = "var"
  BY <1>4, <1>12, <1>17 DEF CompileExp, last
<1>18. CASE e.kind = "newarr"
  BY <1>3, <1>4, <1>13, <1>18 DEF CompileExp
<1>19. CASE e.kind = "condexp"
  <2> DEFINE n == nextLabel
             tasks == <<Cond(e.cond, n, n + 1),
                        Lines(<<Label(n)>>), Exp(e.left, e.type), Task("armend", n + 2),
                        Lines(<<Label(n + 1)>>), Exp(e.right, e.type), Task("armend", n + 2),
                        Lines(<<Label(n + 2)>>), Task("phi", e.type), last>>
  <2>1. Then(tasks) /\ nextLabel' = n + 3 /\ vals' = vals
    BY <1>19 DEF CompileExp, last
  <2>2. \A x, y, z : Part(Cond(x, y, z))
    BY PlainTasks, PartTasks
  <2>3. \A k : Part(Lines(<<Label(k)>>))
    BY PartLines
  <2>4. IsList(tasks)
    <3>1. tasks \in Seq({tasks[1], tasks[2], tasks[3], tasks[4], tasks[5], tasks[6], tasks[7], tasks[8], tasks[9], tasks[10]})
      OBVIOUS
    <3> QED BY <3>1, SeqIsList
  <2>5. \A i \in DOMAIN tasks : Part(tasks[i])
    BY <1>3, <1>4, <2>2, <2>3
  <2>6. n <= n + 3
    BY <1>2
  <2> HIDE DEF tasks
  <2> QED BY <1>5, <2>1, <2>4, <2>5, <2>6
<1> QED BY <1>9, <1>10, <1>14, <1>15, <1>16, <1>17, <1>18, <1>19 DEF CompileExp

(* The end of an arm names its block by a label.                           *)
LEMMA ArmEndKept == ASSUME Before, CompileArmEnd PROVE GenInv'
<1> DEFINE n == nextLabel
           lines == <<Branch(n), Label(n), Branch(node)>>
           v == <<"label", n>>
<1>1. /\ InsideFunction /\ agenda[1].op = "armend" /\ UNCHANGED <<Frame, always, loops>> /\ Done /\ locals' = locals
      /\ Emit(lines) /\ vals' = Append(vals, v) /\ nextLocalId' = nextLocalId /\ nextLabel' = n + 1
  BY DEF CompileArmEnd, At, InsideFunction
<1>2. n \in Int /\ nextLocalId \in Int /\ nextLocalId <= nextLocalId' /\ n <= n + 1 /\ nextLabel <= nextLabel'
  BY <1>1 DEF Before, GenInv, NamesInv, Named
<1>3. IsList(lines) /\ \A i \in DOMAIN lines : LineOK(lines[i], Callable)
  <2>1. LineOK(Branch(n), Callable) /\ LineOK(Label(n), Callable) /\ LineOK(Branch(node), Callable)
    BY PrintableLines
  <2> QED BY <2>1, ShortLists
<1>4. ValueOK(v, nextLocalId') /\ 0 \in Nat
  BY DEF ValueOK
<1>5. agenda[1].op # "callend" /\ agenda[1].op # "args"
  BY <1>1
<1> HIDE DEF lines, v
<1> QED BY <1>1, <1>2, <1>3, <1>4, <1>5, LinesStep

(* The instruction of an operation takes the place of its operands.        *)
LEMMA OperationKept == ASSUME Before, CompileOperation PROVE GenInv'
<1> DEFINE m == nextLocalId
<1>1. /\ InsideFunction /\ agenda[1].op \notin {"emit", "args", "callend"}
      /\ UNCHANGED <<Frame, always, loops, locals, nextLabel>>
  BY DEF CompileOperation, At, InsideFunction
<1>2. NamesInv /\ DataInv /\ m \in Nat /\ nextLabel \in Nat /\ 1 \in Nat /\ 2 \in Nat /\ 4 \in Nat
  BY DEF Before, GenInv, NamesInv, Named
<1>3. IsList(Top(1)) /\ IsList(Top(2)) /\ \A x, y : IsList(<<x, y>>)
  BY <1>2, WithoutLast, ShortLists
<1>4. ASSUME NEW STATE n, n \in Nat, NEW STATE op, op \in {"phi", "load", "bin"}, NEW STATE args, IsList(args),
             NEW STATE info, Instruction(n, op, args, info)
      PROVE  GenInv'
  <2>1. op \notin {"br", "condbr"} /\ op # "call" /\ agenda[1].op # "callend" /\ agenda[1].op # "args"
    BY <1>1, <1>4
  <2> QED BY <1>1, <1>4, <2>1, InstructionStep
<1>5. ASSUME NEW STATE lines, IsList(lines), \A i \in DOMAIN lines : LineOK(lines[i], Callable), Emit(lines),
             m' = m + 2, Replace(1, ValLocal(m + 1)), Done
      PROVE  GenInv'
  <2>1. m <= m' /\ nextLabel <= nextLabel' /\ locals' = locals /\ ValueOK(ValLocal(m + 1), m')
    BY <1>1, <1>2, <1>5 DEF ValueOK, ValLocal
  <2>2. agenda[1].op # "callend" /\ agenda[1].op # "args"
    BY <1>1
  <2> QED BY <1>1, <1>2, <1>5, <2>1, <2>2, LinesStep
<1>6. CASE At("phi") \/ At("load")
  BY <1>2, <1>3, <1>4, <1>6 DEF CompileOperation, At
<1>7. CASE At("scale")
  BY <1>2, <1>3, <1>4, <1>7 DEF CompileOperation, At
<1>8. CASE At("binop") /\ (IsFloat(node.type) \/ IsInteger(node.type))
  BY <1>2, <1>3, <1>4, <1>8 DEF CompileOperation, At
<1>9. CASE At("unop") /\ node.op = "neg"
  <2> DEFINE args == <<ValLiteral("0"), Top(1)[1]>>
             info == <<"i", "sub", TypeRef(node.type)>>
             lines == <<Line("bin", ValLocal(m + 1), args, info)>>
  <2>1. Emit(lines) /\ m' = m + 2 /\ Replace(1, ValLocal(m + 1)) /\ Done
    BY <1>9 DEF CompileOperation, At
  <2>2. IsList(args)
    BY <1>3
  <2> HIDE DEF args, info
  <2>3. IsList(lines) /\ \A i \in DOMAIN lines : LineOK(lines[i], Callable)
    <3>1. LineOK(Line("bin", ValLocal(m + 1), args, info), Callable)
      BY <2>2, PrintableLines
    <3> QED BY <3>1, ShortLists
  <2> HIDE DEF lines
  <2> QED BY <1>5, <2>1, <2>3
<1>10. CASE \/ At("unop") /\ node.op \in {"len", "bitnot"}
            \/ At("binop") /\ ~IsFloat(node.type) /\ ~IsInteger(node.type)
  <2>1. PICK n \in {1, 2} : Replace(n, Nowhere)
    BY <1>10 DEF CompileOperation, At
  <2>2. /\ UNCHANGED <<Frame, always, loops, locals, nextLocalId, nextLabel, code, strings, refs>> /\ Then(<< >>)
    BY <1>1, <1>10 DEF CompileOperation, At, Done
  <2>3. n \in Nat /\ ValueOK(Nowhere, nextLocalId)
    BY <1>2, <2>1 DEF ValueOK, Nowhere
  <2>4. IsList(<< >>) /\ \A i \in DOMAIN << >> : Part(<< >>[i])
    BY PartLists
  <2>5. CASE Replace(1, Nowhere)
    BY <1>1, <1>2, <2>2, <2>3, <2>4, <2>5, ValueStep
  <2>6. CASE Replace(2, Nowhere)
    BY <1>1, <1>2, <2>2, <2>3, <2>4, <2>6, ValueStep
  <2> QED BY <2>1, <2>5, <2>6
<1>11. CASE At("alloc")
  <2> DEFINE x == Line("call", ValLocal(m), Top(1), <<"GcAlloc">>)
             y == Line("bitcast", ValLocal(m + 1), <<ValLocal(m)>>, <<BytePtr, TypeRef(node)>>)
             lines == <<x, y>>
  <2>1. Emit(lines) /\ m' = m + 2 /\ Replace(1, ValLocal(m + 1)) /\ Done
    BY <1>11 DEF CompileOperation, At
  <2>2. LineOK(x, Callable) /\ LineOK(y, Callable)
    <3>1. "GcAlloc" \in Callable /\ IsList(<<ValLocal(m)>>)
      BY ShortLists DEF Callable, Routines
    <3> QED BY <1>3, <3>1, PrintableLines
  <2> HIDE DEF x, y
  <2>3. IsList(lines) /\ \A i \in DOMAIN lines : LineOK(lines[i], Callable)
    BY <2>2, ShortLists
  <2> HIDE DEF lines
  <2> QED BY <1>5, <2>1, <2>3
<1> QED BY <1>6, <1>7, <1>8, <1>9, <1>10, <1>11 DEF CompileOperation

(* A conversion is an instruction, a call of the runtime or no code.       *)
LEMMA ConversionKept == ASSUME Before, CompileConversion PROVE GenInv'
<1>1. /\ InsideFunction /\ agenda[1].op \notin {"emit", "args", "callend"}
      /\ UNCHANGED <<Frame, always, loops, locals, nextLabel>>
  BY DEF CompileConversion, At, InsideFunction
<1>2. NamesInv /\ DataInv /\ nextLocalId \in Nat /\ nextLabel \in Nat /\ 1 \in Nat
  BY DEF Before, GenInv, NamesInv, Named
<1>3. IsList(Top(1)) /\ "StrFromSZ" \in Callable
  BY <1>2, WithoutLast DEF Callable, Routines
<1>4. \/ Done /\ UNCHANGED <<vals, code, strings, refs, nextLocalId>>
      \/ Replace(1, ValNull) /\ Done /\ UNCHANGED <<code, strings, refs, nextLocalId>>
      \/ Replace(1, Nowhere) /\ Done /\ UNCHANGED <<code, strings, refs, nextLocalId>>
      \/ Instruction(1, "call", Top(1), <<"StrFromSZ">>)
      \/ Instruction(1, "conv", Top(1), <<NumericConversion(Underlying(node[1]), Underlying(node[2])),
                                          TypeRef(Underlying(node[1])), TypeRef(Underlying(node[2]))>>)
  BY DEF CompileConversion
<1>5. IsList(<< >>) /\ \A i \in DOMAIN << >> : Part(<< >>[i])
  BY PartLists
<1>6. CASE Done /\ UNCHANGED <<vals, code, strings, refs, nextLocalId>>
  <2>1. Then(<< >>) /\ nextLabel <= nextLabel'
        /\ UNCHANGED <<Frame, vals, always, loops, locals, nextLocalId, code, strings, refs>>
    BY <1>1, <1>2, <1>6 DEF Done
  <2> QED BY <1>1, <1>5, <2>1, PartsStep
<1>7. ASSUME NEW STATE v, v \in {ValNull, Nowhere}, Replace(1, v), Done, UNCHANGED <<code, strings, refs, nextLocalId>>
      PROVE  GenInv'
  <2>1. Then(<< >>) /\ UNCHANGED <<Frame, always, loops, locals, nextLocalId, nextLabel, code, strings, refs>>
    BY <1>1, <1>7 DEF Done
  <2>2. ValueOK(v, nextLocalId)
    BY <1>2, <1>7 DEF ValueOK, ValNull, Nowhere
  <2> QED BY <1>1, <1>2, <1>5, <1>7, <2>1, <2>2, ValueStep
<1>8. ASSUME NEW STATE op, op \in {"call", "conv"}, NEW STATE info, op = "call" => info[1] \in Callable,
             Instruction(1, op, Top(1), info)
      PROVE  GenInv'
  <2>1. op \notin {"br", "condbr"} /\ agenda[1].op # "callend" /\ agenda[1].op # "args"
    BY <1>1, <1>8
  <2> QED BY <1>1, <1>2, <1>3, <1>8, <2>1, InstructionStep
<1>9. CASE Instruction(1, "call", Top(1), <<"StrFromSZ">>)
  <2>1. <<"StrFromSZ">>[1] \in Callable
    BY <1>3
  <2> QED BY <1>8, <1>9, <2>1
<1>10. CASE Instruction(1, "conv", Top(1), <<NumericConversion(Underlying(node[1]), Underlying(node[2])),
                                          TypeRef(Underlying(node[1])), TypeRef(Underlying(node[2]))>>)
  <2>1. "conv" # "call"
    OBVIOUS
  <2> QED BY <1>8, <1>10, <2>1
<1> QED BY <1>4, <1>6, <1>7, <1>9, <1>10

(* A set of numbers up to n has a greatest one.                            *)
LEMMA Greatest ==
  ASSUME NEW n, n \in Nat, NEW S, S \subseteq 1 .. n, S # {}
  PROVE  Max(S) \in S
<1> DEFINE T == {n - i : i \in S}
<1>1. T \in SUBSET Nat /\ T # {}
  <2>1. ASSUME NEW i \in S PROVE n - i \in Nat
    <3>1. i \in 1 .. n
      OBVIOUS
    <3> QED BY <3>1
  <2>2. T \in SUBSET Nat
    BY <2>1
  <2>3. PICK i : i \in S
    OBVIOUS
  <2>4. n - i \in T
    BY <2>3
  <2> QED BY <2>2, <2>4
<1> HIDE DEF T
<1>2. PICK x \in T : \A y \in T : x <= y
  BY <1>1, Least
<1> USE DEF T
<1>3. PICK i \in S : x = n - i
  BY <1>2
<1>4. ASSUME NEW j \in S PROVE i >= j
  <2>1. n - j \in T
    OBVIOUS
  <2>2. x <= n - j
    BY <1>2, <2>1
  <2>3. i \in Int /\ j \in Int
    OBVIOUS
  <2> QED BY <1>3, <2>2, <2>3
<1>5. \E x1 \in S : \A y \in S : x1 >= y
  BY <1>4
<1> QED BY <1>5 DEF Max

(* The address of a variable                                               *)
LEMMA VarKept == ASSUME Before, CompileVar PROVE GenInv'
<1>1. /\ InsideFunction /\ agenda[1].op \notin {"emit", "args", "callend"}
      /\ UNCHANGED <<Frame, always, loops, locals, nextLocalId, nextLabel, code, strings, refs>>
  BY DEF CompileVar, At, InsideFunction
<1>2. NamesInv /\ DataInv /\ nextLocalId \in Nat /\ nextLabel \in Nat /\ nextLabel <= nextLabel /\ 0 \in Nat
  BY DEF Before, GenInv, NamesInv, Named
<1>3. CASE node.kind = "direct"
  <2> DEFINE v == IF FindLocal(node.name) = 0 THEN ValNamedGlobal(node.name)
                  ELSE ValLocal(locals[FindLocal(node.name)].id)
  <2>1. vals' = Append(vals, v) /\ Then(<< >>)
    BY <1>3 DEF CompileVar, Done
  <2>2. ValueOK(v, nextLocalId)
    <3>1. IsList(locals) /\ Len(locals) \in Nat /\ DOMAIN locals = 1 .. Len(locals)
      BY <1>2 DEF DataInv, IsList
    <3>2. CASE Holders(node.name) = {}
      BY <3>2 DEF FindLocal, ValueOK, ValNamedGlobal
    <3>3. CASE Holders(node.name) # {}
      <4>1. Holders(node.name) \subseteq 1 .. Len(locals)
        BY <3>1 DEF Holders
      <4>2. Max(Holders(node.name)) \in Holders(node.name)
        BY <3>1, <3>3, <4>1, Greatest
      <4>3. FindLocal(node.name) \in DOMAIN locals
        BY <3>1, <3>3, <4>1, <4>2 DEF FindLocal
      <4>4. locals[FindLocal(node.name)].id \in Int /\ locals[FindLocal(node.name)].id < nextLocalId
        BY <1>2, <4>3 DEF DataInv
      <4>5. FindLocal(node.name) # 0
        BY <3>1, <4>3
      <4> QED BY <4>4, <4>5 DEF ValueOK, ValLocal
    <3> QED BY <3>2, <3>3
  <2> HIDE DEF v
  <2> QED BY <1>1, <1>2, <2>1, <2>2, PartLists, ValueStep
<1>4. ASSUME NEW STATE tasks, IsList(tasks), \A i \in DOMAIN tasks : Part(tasks[i]), Then(tasks), vals' = vals PROVE GenInv'
  BY <1>1, <1>2, <1>4, PartsStep
<1>5. \A x, y : Part(Exp(x, y)) /\ Part(Task("getfield", x)) /\ Part(Task("getelement", x))
  BY PlainTasks, PartTasks
<1>6. CASE node.kind = "field"
  <2> DEFINE tasks == <<Exp(node.of, node.of.type), Task("getfield", node.name)>>
  <2>1. Then(tasks) /\ vals' = vals
    BY <1>6 DEF CompileVar
  <2>2. IsList(tasks) /\ \A i \in DOMAIN tasks : Part(tasks[i])
    BY <1>5, PartLists
  <2> HIDE DEF tasks
  <2> QED BY <1>4, <2>1, <2>2
<1>7. CASE node.kind = "index"
  <2> DEFINE tasks == <<Exp(node.by, tLong), Exp(node.of, node.of.type), Task("getelement", node.of.type)>>
  <2>1. Then(tasks) /\ vals' = vals
    BY <1>7 DEF CompileVar
  <2>2. IsList(tasks) /\ \A i \in DOMAIN tasks : Part(tasks[i])
    BY <1>5, PartLists
  <2> HIDE DEF tasks
  <2> QED BY <1>4, <2>1, <2>2
<1> QED BY <1>3, <1>6, <1>7 DEF CompileVar

(* The address of a field or of an element                                 *)
LEMMA ElementAddressKept == ASSUME Before, CompileElementAddress PROVE GenInv'
<1>1. /\ InsideFunction /\ agenda[1].op \notin {"emit", "args", "callend"}
      /\ UNCHANGED <<Frame, always, loops, locals, nextLabel>>
  BY DEF CompileElementAddress, At, InsideFunction
<1>2. DataInv /\ 1 \in Nat /\ 2 \in Nat
  BY DEF Before, GenInv
<1>3. IsList(Top(1)) /\ IsList(<<Top(2)[2], Top(2)[1]>>)
  BY <1>2, WithoutLast, ShortLists
<1>4. ASSUME NEW STATE n, n \in Nat, NEW STATE op, op \in {"field", "element"}, NEW STATE args, IsList(args),
             NEW STATE info, Instruction(n, op, args, info)
      PROVE  GenInv'
  <2>1. op \notin {"br", "condbr"} /\ op # "call" /\ agenda[1].op # "callend" /\ agenda[1].op # "args"
    BY <1>1, <1>4
  <2> QED BY <1>1, <1>4, <2>1, InstructionStep
<1>5. \/ Instruction(1, "field", Top(1), <<node>>)
      \/ Instruction(2, "element", <<Top(2)[2], Top(2)[1]>>, <<TypeRef(node)>>)
  BY DEF CompileElementAddress
<1> QED BY <1>2, <1>3, <1>4, <1>5

(* What the head task promises                                             *)
LEMMA HeadFits == ASSUME Before, agenda # << >> PROVE 1 \in DOMAIN agenda /\ TaskFit(agenda[1], nextLabel, Callable)
<1>1. NamesInv /\ DataInv
  BY DEF Before, GenInv
<1>2. 1 \in DOMAIN agenda
  BY <1>1, Rest DEF NamesInv, Named
<1> QED BY <1>1, <1>2 DEF DataInv

(* A call names a function that may be called from now on.                 *)
LEMMA DependencyStep ==
  ASSUME NEW STATE name, dependencies' = AddFunctionDependency(name), module' = module, IsList(dependencies)
  PROVE  /\ Depends
         /\ name \in Callable'
         /\ ToSet(dependencies') \subseteq ToSet(dependencies) \cup {name}
<1>1. Implemented' = Implemented
  BY DEF Implemented
<1>2. CASE name \in Implemented \cup ToSet(dependencies)
  <2>1. dependencies' = dependencies
    BY <1>2 DEF AddFunctionDependency
  <2> QED BY <1>1, <1>2, <2>1 DEF Depends, Callable
<1>3. CASE name \notin Implemented \cup ToSet(dependencies)
  <2> DEFINE d == dependencies
             d2 == dependencies'
  <2>1. d2 = Append(d, name)
    BY <1>3 DEF AddFunctionDependency
  <2>2. /\ DOMAIN d = 1 .. Len(d) /\ Len(d) \in Nat /\ DOMAIN d2 = 1 .. Len(d) + 1
        /\ \A i \in DOMAIN d : d2[i] = d[i]
        /\ d2[Len(d) + 1] = name
    BY <2>1, Appended
  <2>3. \A i \in DOMAIN d2 : i \in DOMAIN d \/ i = Len(d) + 1
    BY <2>2
  <2>4. Depends
    BY <1>3, <2>1 DEF Depends
  <2> HIDE DEF d, d2
  <2>5. name \in ToSet(d2)
    BY <2>2 DEF ToSet
  <2>6. ToSet(d2) \subseteq ToSet(d) \cup {name}
    BY <2>2, <2>3 DEF ToSet
  <2> QED BY <2>4, <2>5, <2>6 DEF Callable, d, d2
<1> QED BY <1>2, <1>3

(* A call: what it names may be called from now on, and will be.           *)
LEMMA CallKept == ASSUME Before, CompileCall PROVE GenInv'
<1> DEFINE t == Task("args", [call |-> node, next |-> 1])
           tasks == <<t>>
<1>1. /\ InsideFunction /\ agenda[1].op = "call" /\ agenda' = tasks \o Tail(agenda)
      /\ UNCHANGED <<Outside, vals, always, loops, locals, nextLocalId, nextLabel, code, strings, refs>>
      /\ dependencies' = AddFunctionDependency(node.name)
  BY DEF CompileCall, At, InsideFunction, Then
<1>2. /\ GenInv /\ NamesInv /\ NamesInv' /\ DataInv /\ ContextInv /\ IsList(agenda) /\ IsList(code)
      /\ nextLocalId \in Nat /\ nextLabel \in Nat
  BY DEF Before, GenInv, NamesInv, Named
<1>3. Stays
  BY <1>1 DEF Stays, Outside
<1>4. Depends /\ node.name \in Callable' /\ ToSet(dependencies') \subseteq ToSet(dependencies) \cup {node.name}
  <2>1. IsList(dependencies) /\ module' = module
    BY <1>2, <1>3 DEF DataInv, Stays
  <2> QED BY <1>1, <2>1, DependencyStep
<1>5. t.op = "args" /\ t.node.call = node /\ t.node.next = 1
  BY DEF Task
<1> HIDE DEF t
<1>6. IsList(tasks) /\ tasks[1] = t /\ \A i \in DOMAIN tasks : tasks[i] = t
  BY ShortLists
<1>7. 1 \in DOMAIN tasks
  OBVIOUS
<1> HIDE DEF tasks
<1>8. \A i \in DOMAIN tasks : Inner(tasks[i], Len(locals)) /\ TaskFit(tasks[i], nextLabel', Callable')
  BY <1>4, <1>5, <1>6 DEF Inner, TaskFit
<1>9. Unwinds(tasks \o Tail(agenda), loops')
  <2>1. Unwinds(agenda, loops)
    BY <1>1, <1>2 DEF ContextInv, InsideFunction
  <2>2. \A i \in DOMAIN tasks : tasks[i].op # "loop"
    BY <1>5, <1>6
  <2>3. agenda # << >> /\ agenda[1].op # "loop"
    BY <1>1 DEF InsideFunction
  <2>4. Unwinds(tasks \o Tail(agenda), loops)
    BY <1>2, <1>6, <2>1, <2>2, <2>3, UnwindsStep
  <2> QED BY <1>1, <2>4
<1>10. code' = code \o << >> /\ IsList(<< >>) /\ \A i \in DOMAIN << >> : LineOK(<< >>[i], Callable')
  BY <1>1, <1>2, JoinedToNothing, ShortLists
<1>11. /\ nextLocalId <= nextLocalId' /\ nextLabel <= nextLabel'
       /\ IsList(locals') /\ \A i \in DOMAIN locals' : locals'[i].id \in Int /\ locals'[i].id < nextLocalId'
       /\ Len(locals) <= Len(locals') /\ \A i \in DOMAIN locals : locals'[i] = locals[i]
  <2>1. IsList(locals) /\ Len(locals) \in Nat
    BY <1>2 DEF DataInv, IsList
  <2> QED BY <1>1, <1>2, <2>1 DEF DataInv
<1>12. /\ IsList(vals') /\ \A i \in DOMAIN vals' : ValueOK(vals'[i], nextLocalId')
       /\ LoopOK(loops', nextLabel') /\ always' \in BOOLEAN /\ LiteralsKnown(strings', refs')
  BY <1>1, <1>2 DEF DataInv
<1>13. ASSUME NEW f, TaskCalls(agenda[1], f) \/ f \in ToSet(dependencies') \ ToSet(dependencies)
       PROVE  LineCalls(<< >>, f) \/ \E i \in DOMAIN tasks : TaskCalls(tasks[i], f)
  <2>1. ~TaskCalls(agenda[1], f)
    BY <1>1 DEF TaskCalls
  <2>2. f = node.name
    BY <1>4, <1>13, <2>1
  <2>3. TaskCalls(tasks[1], f)
    BY <1>5, <1>6, <2>2 DEF TaskCalls
  <2> QED BY <1>7, <2>3
<1>14. result = "running" /\ agenda # << >> /\ agenda[1].op \notin {"funcend", "body", "param", "block"}
       /\ agenda[1].op # "emit"
  BY <1>1 DEF InsideFunction
<1> QED BY <1>1, <1>2, <1>3, <1>4, <1>6, <1>8, <1>9, <1>10, <1>11, <1>12, <1>13, <1>14, OrdinaryStep

(* The next argument, or the call                                          *)
LEMMA ArgumentsKept == ASSUME Before, CompileArguments PROVE GenInv'
<1> DEFINE call == node.call
           next == node.next
<1>1. /\ InsideFunction /\ agenda[1].op = "args"
      /\ UNCHANGED <<Frame, vals, always, loops, locals, nextLocalId, nextLabel, code, strings, refs>>
  BY DEF CompileArguments, At, InsideFunction
<1>2. GenInv /\ NamesInv /\ NamesInv' /\ DataInv /\ nextLocalId \in Nat /\ nextLabel \in Nat
  BY DEF Before, GenInv, NamesInv, Named
<1>3. next \in Nat \ {0} /\ call.name \in Callable
  BY <1>1, HeadFits DEF TaskFit, InsideFunction, node
<1>4. ASSUME NEW STATE tasks, IsList(tasks), \A i \in DOMAIN tasks : Part(tasks[i]), Then(tasks),
             \E i \in DOMAIN tasks : TaskCalls(tasks[i], call.name)
      PROVE  GenInv'
  <2>1. ValuesKept /\ always' \in BOOLEAN
    BY <1>1, <1>2 DEF DataInv, ValuesKept
  <2>2. \A f : TaskCalls(agenda[1], f) => f = call.name
    BY <1>1 DEF TaskCalls, node
  <2>3. \A f : TaskCalls(agenda[1], f) => \E i \in DOMAIN tasks : TaskCalls(tasks[i], f)
    BY <1>4, <2>2
  <2>4. /\ agenda' = tasks \o Tail(agenda) /\ agenda[1].op # "emit" /\ nextLocalId <= nextLocalId' /\ nextLabel <= nextLabel'
        /\ UNCHANGED <<Frame, loops, locals, code, strings, refs>>
    BY <1>1, <1>2, <1>4 DEF Then
  <2> QED BY <1>1, <1>2, <1>4, <2>1, <2>3, <2>4, QuietStep
<1>5. CASE next <= Len(call.args)
  <2> DEFINE x == Exp(call.args[next], call.params[next])
             t == Task("args", [call |-> call, next |-> next + 1])
             tasks == <<x, t>>
  <2>1. Then(tasks)
    BY <1>5 DEF CompileArguments
  <2>2. Part(x)
    BY PlainTasks, PartTasks
  <2>3. t.op = "args" /\ t.node.call = call /\ t.node.next = next + 1
    BY DEF Task
  <2>4. Part(t) /\ TaskCalls(t, call.name)
    BY <1>3, <2>3 DEF Part, Inner, TaskFit, TaskCalls
  <2> HIDE DEF x, t
  <2>5. IsList(tasks) /\ \A i \in DOMAIN tasks : Part(tasks[i])
    BY <2>2, <2>4, PartLists
  <2>6. 2 \in DOMAIN tasks /\ tasks[2] = t
    OBVIOUS
  <2> HIDE DEF tasks
  <2>7. \E i \in DOMAIN tasks : TaskCalls(tasks[i], call.name)
    BY <2>4, <2>6
  <2> QED BY <1>4, <2>1, <2>5, <2>7
<1>6. CASE ~(next <= Len(call.args))
  <2> DEFINE t == Task("callend", [call |-> call, args |-> next - 1])
             tasks == <<t>>
  <2>1. Then(tasks)
    BY <1>6 DEF CompileArguments
  <2>2. t.op = "callend" /\ t.node.call = call /\ t.node.args = next - 1
    BY DEF Task
  <2>3. Part(t) /\ TaskCalls(t, call.name)
    BY <1>3, <2>2 DEF Part, Inner, TaskFit, TaskCalls
  <2> HIDE DEF t
  <2>4. IsList(tasks) /\ \A i \in DOMAIN tasks : Part(tasks[i])
    BY <2>3, PartLists
  <2>5. 1 \in DOMAIN tasks /\ tasks[1] = t
    OBVIOUS
  <2> HIDE DEF tasks
  <2>6. \E i \in DOMAIN tasks : TaskCalls(tasks[i], call.name)
    BY <2>3, <2>5
  <2> QED BY <1>4, <2>1, <2>4, <2>6
<1> QED BY <1>5, <1>6

(* The call is printed.                                                    *)
LEMMA CallEndKept == ASSUME Before, CompileCallEnd PROVE GenInv'
<1> DEFINE name == node.call.name
<1>1. /\ InsideFunction /\ agenda[1].op = "callend"
      /\ UNCHANGED <<Frame, always, loops, locals, nextLabel>>
  BY DEF CompileCallEnd, At, InsideFunction
<1>2. NamesInv /\ DataInv /\ nextLocalId \in Nat /\ nextLabel \in Nat
  BY DEF Before, GenInv, NamesInv, Named
<1>3. node.args \in Nat /\ name \in Callable
  BY <1>1, HeadFits DEF TaskFit, InsideFunction, node
<1>4. IsList(Top(node.args))
  BY <1>2, <1>3, WithoutLast
<1>5. CASE node.call.ret = tVoid
  <2> DEFINE l == CallStmt(name, Top(node.args))
             lines == <<l>>
  <2>1. Emit(lines) /\ Replace(node.args, Nowhere) /\ Done /\ nextLocalId' = nextLocalId
    BY <1>5 DEF CompileCallEnd
  <2>2. LineOK(l, Callable)
    BY <1>3, <1>4, PrintableLines DEF CallStmt
  <2>3. l.op = "call" /\ l.info[1] = name
    BY DEF CallStmt, Line
  <2> HIDE DEF l
  <2>4. IsList(lines) /\ \A i \in DOMAIN lines : LineOK(lines[i], Callable)
    BY <2>2, ShortLists
  <2>5. \A f : TaskCalls(agenda[1], f) => LineCalls(lines, f)
    <3>1. 1 \in DOMAIN lines /\ lines[1] = l
      OBVIOUS
    <3> HIDE DEF lines
    <3> QED BY <2>3, <3>1 DEF TaskCalls, LineCalls, node
  <2> HIDE DEF lines
  <2>6. nextLocalId <= nextLocalId' /\ nextLabel <= nextLabel' /\ locals' = locals /\ ValueOK(Nowhere, nextLocalId')
    BY <1>1, <1>2, <2>1 DEF ValueOK, Nowhere
  <2>7. agenda[1].op # "args" /\ UNCHANGED <<Frame, always, loops>>
    BY <1>1
  <2> QED BY <1>1, <1>3, <2>1, <2>4, <2>5, <2>6, <2>7, LinesStep
<1>6. CASE node.call.ret # tVoid
  <2>1. Instruction(node.args, "call", Top(node.args), <<name>>)
    BY <1>6 DEF CompileCallEnd
  <2>2. <<name>>[1] \in Callable /\ <<name>>[1] = agenda[1].node.call.name /\ agenda[1].op # "args"
    BY <1>1, <1>3 DEF node
  <2>3. "call" \notin {"br", "condbr"} /\ UNCHANGED <<Frame, always, loops, locals, nextLabel>>
    BY <1>1
  <2> QED BY <1>1, <1>3, <1>4, <2>1, <2>2, <2>3, InstructionStep
<1> QED BY <1>5, <1>6

(* An if is a condition, a block and its end.                              *)
LEMMA IfKept == ASSUME Before, CompileIf PROVE GenInv'
<1> DEFINE n == nextLabel
           end == Task("ifend", [node |-> node, elseLabel |-> n + 1])
           tasks == <<Cond(node.cond, n, n + 1), Lines(<<Label(n)>>), Block(node.then), end>>
<1>1. /\ InsideFunction /\ agenda[1].op \notin {"emit", "args", "callend"} /\ Then(tasks) /\ nextLabel' = n + 2
      /\ UNCHANGED <<Frame, vals, always, loops, locals, nextLocalId, code, strings, refs>>
  BY DEF CompileIf, At, InsideFunction
<1>2. n \in Nat
  BY DEF Before, GenInv, NamesInv, Named
<1>3. n <= nextLabel'
  BY <1>1, <1>2
<1>4. Part(Cond(node.cond, n, n + 1)) /\ Part(Lines(<<Label(n)>>)) /\ Part(Block(node.then)) /\ Part(end)
  <2>1. end.op = "ifend"
    BY DEF Task
  <2> HIDE DEF end
  <2>2. Part(end)
    BY <2>1, PartTasks
  <2>3. Part(Cond(node.cond, n, n + 1))
    BY PlainTasks, PartTasks
  <2> QED BY <2>2, <2>3, PartTasks, PartLines
<1>5. IsList(tasks)
  <2>1. tasks \in Seq({tasks[1], tasks[2], tasks[3], tasks[4]})
    OBVIOUS
  <2> QED BY <2>1, SeqIsList
<1>6. \A i \in DOMAIN tasks : Part(tasks[i])
  BY <1>4
<1> HIDE DEF tasks
<1> QED BY <1>1, <1>3, <1>5, <1>6, PartsStep

(* The end of an if is lines and at most one block.                        *)
LEMMA IfEndKept == ASSUME Before, CompileIfEnd PROVE GenInv'
<1> DEFINE then == node.node.then
           else == node.node.else
           start == Label(node.elseLabel)
           end == nextLabel
<1>1. /\ InsideFunction /\ agenda[1].op \notin {"emit", "args", "callend"}
      /\ UNCHANGED <<Frame, vals, always, loops, locals, nextLocalId, code, strings, refs>>
  BY DEF CompileIfEnd, At, InsideFunction
<1>2. nextLabel \in Nat
  BY DEF Before, GenInv, NamesInv, Named
<1>3. nextLabel' \in {nextLabel, nextLabel + 1}
  BY DEF CompileIfEnd
<1>4. nextLabel <= nextLabel'
  BY <1>2, <1>3
<1>5. ASSUME NEW STATE tasks, IsList(tasks), \A i \in DOMAIN tasks : Part(tasks[i]), Then(tasks) PROVE GenInv'
  BY <1>1, <1>4, <1>5, PartsStep
<1>6. \A k : Part(Lines(<<Label(k)>>)) /\ Part(Lines(<<Branch(k)>>)) /\ \A e : Part(Lines(<<Branch(e), Label(k)>>))
  BY PartLines
<1>7. Part(Block(else)) /\ Part(Task("stop", NULL))
  BY PlainTasks, PartTasks
<1>8. ASSUME NEW STATE x, Part(x), Then(<<x>>) PROVE GenInv'
  BY <1>5, <1>8, PartLists
<1>9. ASSUME NEW STATE x, NEW STATE y, Part(x), Part(y), Then(<<x, y>>) PROVE GenInv'
  <2>1. IsList(<<x, y>>) /\ \A i \in DOMAIN <<x, y>> : Part(<<x, y>>[i])
    BY <1>9, PartLists
  <2> QED BY <1>5, <1>9, <2>1
<1>10. ASSUME NEW STATE x, NEW STATE y, NEW STATE z, Part(x), Part(y), Part(z), Then(<<x, y, z>>) PROVE GenInv'
  <2>1. IsList(<<x, y, z>>) /\ \A i \in DOMAIN <<x, y, z>> : Part(<<x, y, z>>[i])
    BY <1>10, PartLists
  <2> QED BY <1>5, <1>10, <2>1
<1>11. \/ Then(<<Lines(<<start>>)>>)
       \/ Then(<<Lines(<<Branch(node.elseLabel), start>>)>>)
       \/ Then(<<Lines(<<start>>), Block(else), Task("stop", NULL)>>)
       \/ Then(<<Lines(<<start>>), Block(else), Lines(<<Branch(end)>>)>>)
       \/ Then(<<Lines(<<Branch(end), start>>), Block(else)>>)
       \/ Then(<<Lines(<<Branch(end), start>>), Block(else), Lines(<<Branch(end), Label(end)>>)>>)
  BY DEF CompileIfEnd
<1>12. CASE Then(<<Lines(<<start>>)>>) \/ Then(<<Lines(<<Branch(node.elseLabel), start>>)>>)
  BY <1>6, <1>8, <1>12
<1>13. CASE Then(<<Lines(<<Branch(end), start>>), Block(else)>>)
  BY <1>6, <1>7, <1>9, <1>13
<1>14. CASE \/ Then(<<Lines(<<start>>), Block(else), Task("stop", NULL)>>)
            \/ Then(<<Lines(<<start>>), Block(else), Lines(<<Branch(end)>>)>>)
  BY <1>6, <1>7, <1>10, <1>14
<1>15. CASE Then(<<Lines(<<Branch(end), start>>), Block(else), Lines(<<Branch(end), Label(end)>>)>>)
  BY <1>6, <1>7, <1>10, <1>15
<1> QED BY <1>11, <1>12, <1>13, <1>14, <1>15

(* The last loop task among those that take the place of a head is the one  *)
(* that restores what encloses it.                                         *)
LEMMA LoopUnwinds ==
  ASSUME NEW a, IsList(a), a # << >>, NEW l, Unwinds(a, l), a[1].op # "loop",
         NEW tasks, IsList(tasks), NEW h \in DOMAIN tasks, tasks[h].op = "loop", tasks[h].node = l,
         \A i \in DOMAIN tasks : i > h => tasks[i].op # "loop"
  PROVE  Unwinds(tasks \o Tail(a), l)
<1> DEFINE b == tasks \o Tail(a)
           k == Len(tasks)
           n == Len(a)
<1>1. /\ k \in Nat /\ n \in Nat /\ n > 0
      /\ DOMAIN a = 1 .. n /\ DOMAIN tasks = 1 .. k /\ DOMAIN b = 1 .. k + n - 1
      /\ \A i \in 1 .. k : b[i] = tasks[i]
      /\ \A i \in 2 .. n : b[i + k - 1] = a[i]
      /\ \A i \in DOMAIN b : i \in 1 .. k \/ (i - k + 1 \in 2 .. n /\ b[i] = a[i - k + 1])
  BY HeadReplaced
<1> HIDE DEF b, k, n
<1>2. CASE l = NoLoop /\ \A i \in DOMAIN a : a[i].op # "loop"
  <2>1. h \in DOMAIN b /\ b[h].op = "loop" /\ b[h].node = NoLoop
    BY <1>1, <1>2
  <2>2. ASSUME NEW j \in DOMAIN b, j > h PROVE b[j].op # "loop"
    <3>1. CASE j \in 1 .. k
      BY <1>1, <2>2, <3>1
    <3>2. CASE j - k + 1 \in 2 .. n /\ b[j] = a[j - k + 1]
      <4>1. j - k + 1 \in DOMAIN a
        BY <1>1, <3>2
      <4> QED BY <1>2, <3>2, <4>1
    <3> QED BY <1>1, <3>1, <3>2
  <2> QED BY <2>1, <2>2 DEF Unwinds, b
<1>3. ASSUME NEW i \in DOMAIN a, a[i].op = "loop", a[i].node = NoLoop,
             \A j \in DOMAIN a : j > i => a[j].op # "loop"
      PROVE  Unwinds(b, l)
  <2>1. i \in 2 .. n /\ i + k - 1 \in DOMAIN b /\ b[i + k - 1] = a[i]
    BY <1>1, <1>3
  <2>2. ASSUME NEW j \in DOMAIN b, j > i + k - 1 PROVE b[j].op # "loop"
    <3>1. j \notin 1 .. k
      BY <1>1, <2>1, <2>2
    <3>2. j - k + 1 \in 2 .. n /\ b[j] = a[j - k + 1] /\ j - k + 1 > i
      BY <1>1, <2>1, <2>2, <3>1
    <3>3. j - k + 1 \in DOMAIN a
      BY <1>1, <3>2
    <3> QED BY <1>3, <3>2, <3>3
  <2> QED BY <1>3, <2>1, <2>2 DEF Unwinds
<1> QED BY <1>2, <1>3 DEF Unwinds, b

(* A loop that ends leaves what encloses it.                               *)
LEMMA LoopEndUnwinds ==
  ASSUME NEW a, IsList(a), a # << >>, NEW l, Unwinds(a, l), a[1].op = "loop"
  PROVE  Unwinds(<< >> \o Tail(a), a[1].node)
<1> DEFINE b == << >> \o Tail(a)
           n == Len(a)
<1>1. /\ n \in Nat /\ n > 0 /\ DOMAIN a = 1 .. n /\ DOMAIN b = 1 .. n - 1
      /\ \A i \in 1 .. n - 1 : b[i] = a[i + 1]
  <2>1. b = Tail(a)
    BY Rest, JoinedToNothing
  <2> QED BY <2>1, Rest
<1> HIDE DEF b, n
<1>2. PICK i \in DOMAIN a : a[i].op = "loop" /\ a[i].node = NoLoop /\ \A j \in DOMAIN a : j > i => a[j].op # "loop"
  <2>1. 1 \in DOMAIN a
    BY <1>1
  <2> QED BY <2>1 DEF Unwinds
<1>3. CASE i = 1
  <2>1. ASSUME NEW j \in DOMAIN b PROVE b[j].op # "loop"
    <3>1. j + 1 \in DOMAIN a /\ j + 1 > 1 /\ b[j] = a[j + 1]
      BY <1>1
    <3> QED BY <1>2, <1>3, <3>1
  <2> QED BY <1>2, <1>3, <2>1 DEF Unwinds, b
<1>4. CASE i # 1
  <2>1. i - 1 \in DOMAIN b /\ b[i - 1] = a[i]
    BY <1>1, <1>4
  <2>2. ASSUME NEW j \in DOMAIN b, j > i - 1 PROVE b[j].op # "loop"
    <3>1. j + 1 \in DOMAIN a /\ j + 1 > i /\ b[j] = a[j + 1]
      BY <1>1, <2>2
    <3> QED BY <1>2, <3>1
  <2> QED BY <1>2, <2>1, <2>2 DEF Unwinds, b
<1> QED BY <1>3, <1>4

(* A step that begins or ends loops and prints nothing                     *)
LEMMA LoopStep ==
  ASSUME Before, result = "running", agenda # << >>,
         agenda[1].op \notin {"funcend", "body", "param", "block", "emit", "args", "callend"},
         UNCHANGED <<Frame, vals, always, locals, nextLocalId, code, strings, refs>>, nextLabel <= nextLabel',
         NEW STATE tasks, IsList(tasks), Then(tasks),
         \A i \in DOMAIN tasks : Inner(tasks[i], Len(locals)) /\ TaskFit(tasks[i], nextLabel', Callable),
         Unwinds(tasks \o Tail(agenda), loops'), LoopOK(loops', nextLabel')
  PROVE  GenInv'
<1>1. GenInv /\ NamesInv /\ NamesInv' /\ DataInv /\ nextLocalId \in Nat /\ IsList(code)
  BY DEF Before, GenInv, NamesInv, Named
<1>2. Stays /\ dependencies' = dependencies /\ Depends
  BY DEF Stays, Frame, Outside, Depends
<1>3. Callable' = Callable
  BY <1>2 DEF Callable, Implemented, Stays
<1>4. code' = code \o << >> /\ IsList(<< >>) /\ \A i \in DOMAIN << >> : LineOK(<< >>[i], Callable')
  BY <1>1, JoinedToNothing, ShortLists
<1>5. /\ nextLocalId <= nextLocalId'
      /\ IsList(locals') /\ \A i \in DOMAIN locals' : locals'[i].id \in Int /\ locals'[i].id < nextLocalId'
      /\ Len(locals) <= Len(locals') /\ \A i \in DOMAIN locals : locals'[i] = locals[i]
  <2>1. IsList(locals) /\ Len(locals) \in Nat
    BY <1>1 DEF DataInv, IsList
  <2> QED BY <1>1, <2>1 DEF DataInv
<1>6. /\ IsList(vals') /\ \A i \in DOMAIN vals' : ValueOK(vals'[i], nextLocalId')
      /\ always' \in BOOLEAN /\ LiteralsKnown(strings', refs')
  BY <1>1 DEF DataInv
<1>7. \A f : TaskCalls(agenda[1], f) \/ f \in ToSet(dependencies') \ ToSet(dependencies) =>
                  LineCalls(<< >>, f) \/ \E i \in DOMAIN tasks : TaskCalls(tasks[i], f)
  BY <1>2 DEF TaskCalls
<1>8. /\ agenda' = tasks \o Tail(agenda)
      /\ \A i \in DOMAIN tasks : Inner(tasks[i], Len(locals)) /\ TaskFit(tasks[i], nextLabel', Callable')
      /\ agenda[1].op \notin {"funcend", "body", "param", "block"} /\ agenda[1].op # "emit"
  BY <1>3 DEF Then
<1> QED BY <1>1, <1>2, <1>4, <1>5, <1>6, <1>7, <1>8, OrdinaryStep

(* A loop begins or ends.                                                  *)
LEMMA LoopKept == ASSUME Before, EnclosingLoop PROVE GenInv'
<1>1. /\ result = "running" /\ agenda # << >> /\ agenda[1].op = "loop" /\ Then(<< >>) /\ loops' = agenda[1].node
      /\ UNCHANGED <<Frame, vals, always, locals, nextLocalId, nextLabel, code, strings, refs>>
  BY DEF EnclosingLoop, At, Done, node
<1>2. NamesInv /\ ContextInv /\ IsList(agenda) /\ nextLabel \in Nat
  BY DEF Before, GenInv, NamesInv, Named
<1>3. LoopOK(loops', nextLabel')
  BY <1>1, HeadFits DEF TaskFit
<1>4. Unwinds(<< >> \o Tail(agenda), loops')
  <2>1. Unwinds(agenda, loops)
    BY <1>1, <1>2 DEF ContextInv
  <2> QED BY <1>1, <1>2, <2>1, LoopEndUnwinds
<1>5. IsList(<< >>) /\ \A i \in DOMAIN << >> : Inner(<< >>[i], Len(locals)) /\ TaskFit(<< >>[i], nextLabel', Callable)
  BY ShortLists
<1>6. nextLabel <= nextLabel' /\ agenda[1].op \notin {"funcend", "body", "param", "block", "emit", "args", "callend"}
  BY <1>1, <1>2
<1> QED BY <1>1, <1>3, <1>4, <1>5, <1>6, LoopStep

(* A loop: its body is enclosed by it, what follows by what encloses it.   *)
LEMMA WhileKept == ASSUME Before, CompileWhile PROVE GenInv'
<1> DEFINE n == nextLabel
           inner == [end |-> n, check |-> n + 2]
           again == IF node.body.exits THEN << >> ELSE <<Branch(n + 2)>>
           tasks == <<Cond(node.cond, n + 1, n), Lines(<<Label(n + 1)>>),
                      Task("loop", inner), Block(node.body), Task("loop", loops),
                      Lines(again \o <<Label(n + 2)>>), Cond(node.cond, n + 1, n), Lines(<<Label(n)>>)>>
<1>1. /\ InsideFunction /\ agenda[1].op = "while" /\ Then(tasks) /\ nextLabel' = n + 3 /\ loops' = loops
      /\ UNCHANGED <<Frame, vals, always, loops, locals, nextLocalId, code, strings, refs>>
  BY DEF CompileWhile, At, InsideFunction
<1>2. NamesInv /\ DataInv /\ ContextInv /\ IsList(agenda) /\ n \in Nat
  BY DEF Before, GenInv, NamesInv, Named
<1>3. n <= nextLabel'
  BY <1>1, <1>2
<1>4. LoopOK(loops, nextLabel') /\ LoopOK(inner, nextLabel')
  BY <1>1, <1>2 DEF DataInv, LoopOK
<1>5. again \o <<Label(n + 2)>> = IF node.body.exits THEN <<Label(n + 2)>> ELSE <<Branch(n + 2), Label(n + 2)>>
  <2>1. << >> \o <<Label(n + 2)>> = <<Label(n + 2)>>
    BY JoinedToNothing, ShortLists
  <2>2. <<Branch(n + 2)>> \o <<Label(n + 2)>> = <<Branch(n + 2), Label(n + 2)>>
    BY TwoJoined
  <2>3. CASE node.body.exits
    BY <2>1, <2>3
  <2>4. CASE ~node.body.exits
    BY <2>2, <2>4
  <2> QED BY <2>3, <2>4
<1>6. Part(Lines(again \o <<Label(n + 2)>>))
  BY <1>5, PartLines
<1>7. /\ Part(Cond(node.cond, n + 1, n)) /\ Part(Lines(<<Label(n + 1)>>)) /\ Part(Block(node.body))
      /\ Part(Lines(<<Label(n)>>))
  BY PlainTasks, PartTasks, PartLines
<1> DEFINE Fit(t) == Inner(t, Len(locals)) /\ TaskFit(t, nextLabel', Callable)
<1>8. \A t : Part(t) => Fit(t) /\ t.op # "loop"
  BY DEF Part, TaskFit
<1>9. \A l : LoopOK(l, nextLabel') => Fit(Task("loop", l))
  BY DEF Inner, TaskFit, Task
<1> HIDE DEF Fit, inner
<1>10. IsList(tasks)
  <2>1. tasks \in Seq({tasks[1], tasks[2], tasks[3], tasks[4], tasks[5], tasks[6], tasks[7], tasks[8]})
    OBVIOUS
  <2> QED BY <2>1, SeqIsList
<1>11. \A i \in 1 .. 8 : Fit(tasks[i])
  BY <1>4, <1>6, <1>7, <1>8, <1>9
<1>12. DOMAIN tasks = 1 .. 8
  OBVIOUS
<1>13. tasks[5].op = "loop" /\ tasks[5].node = loops /\ \A i \in 6 .. 8 : tasks[i].op # "loop"
  <2>1. tasks[5] = Task("loop", loops)
    OBVIOUS
  <2>2. \A i \in 6 .. 8 : Part(tasks[i])
    BY <1>6, <1>7
  <2> HIDE DEF tasks
  <2> QED BY <1>8, <2>1, <2>2 DEF Task
<1> HIDE DEF tasks
<1>14. Unwinds(tasks \o Tail(agenda), loops)
  <2>1. Unwinds(agenda, loops) /\ agenda # << >> /\ agenda[1].op # "loop"
    BY <1>1, <1>2 DEF ContextInv, InsideFunction
  <2>2. 5 \in DOMAIN tasks /\ \A i \in DOMAIN tasks : i > 5 => tasks[i].op # "loop"
    BY <1>12, <1>13
  <2> QED BY <1>2, <1>10, <1>13, <2>1, <2>2, LoopUnwinds
<1>15. \A i \in DOMAIN tasks : Inner(tasks[i], Len(locals)) /\ TaskFit(tasks[i], nextLabel', Callable)
  BY <1>11, <1>12 DEF Fit
<1>16. /\ result = "running" /\ agenda # << >>
       /\ agenda[1].op \notin {"funcend", "body", "param", "block", "emit", "args", "callend"}
       /\ Unwinds(tasks \o Tail(agenda), loops') /\ LoopOK(loops', nextLabel')
  BY <1>1, <1>4, <1>14 DEF InsideFunction
<1> QED BY <1>1, <1>3, <1>10, <1>15, <1>16, LoopStep

(* A statement that always returns                                         *)
LEMMA StopKept == ASSUME Before, StopBlock PROVE GenInv'
<1>1. /\ InsideFunction /\ agenda[1].op = "stop" /\ agenda' = << >> \o Tail(agenda) /\ always' = TRUE
      /\ UNCHANGED <<Frame, vals, loops, locals, nextLocalId, nextLabel, code, strings, refs>>
  BY DEF StopBlock, At, InsideFunction, Done, Then
<1>2. GenInv /\ NamesInv' /\ DataInv /\ nextLocalId \in Nat /\ nextLabel \in Nat
  BY DEF Before, GenInv, NamesInv, Named
<1>3. ValuesKept /\ nextLocalId <= nextLocalId' /\ nextLabel <= nextLabel' /\ always' \in BOOLEAN
  BY <1>1, <1>2 DEF DataInv, ValuesKept
<1>4. \A f : TaskCalls(agenda[1], f) => \E i \in DOMAIN << >> : TaskCalls(<< >>[i], f)
  BY <1>1 DEF TaskCalls
<1>5. IsList(<< >>) /\ \A i \in DOMAIN << >> : Part(<< >>[i])
  BY PartLists
<1> QED BY <1>1, <1>2, <1>3, <1>4, <1>5, QuietStep

(* What an echo leaves are parts: the routines it prints with are known.   *)
LEMMA EchoParts == \A e : IsList(Echo(e)) /\ \A i \in DOMAIN Echo(e) : Part(Echo(e)[i])
<1>1. \A x, y : Part(Task("convert", <<x, y>>)) /\ Part(Task("tobytes", x))
  BY PlainTasks, PartTasks
<1>2. /\ Part(Task("print", "EchoString")) /\ Part(Task("print", "EchoArray")) /\ Part(Task("print", "EchoObject"))
      /\ Part(Task("print", "EchoChar")) /\ Part(Task("print", "EchoReal")) /\ Part(Task("print", "EchoInteger"))
  BY PartTasks DEF Routines
<1> DEFINE Good(tasks) == IsList(tasks) /\ \A i \in DOMAIN tasks : Part(tasks[i])
<1>3. (\A x : Part(x) => Good(<<x>>)) /\ \A x, y : Part(x) /\ Part(y) => Good(<<x, y>>)
  BY PartLists
<1> HIDE DEF Good
<1>4. ASSUME NEW e PROVE Good(Echo(e))
  <2> DEFINE u == Underlying(e.type)
             routine == CASE u = tChar -> "EchoChar" [] IsFloat(u) -> "EchoReal" [] OTHER -> "EchoInteger"
             widest == IF IsFloat(u) THEN tDouble ELSE tLong
             other == IF IsArray(TypeTable, u) THEN "EchoArray" ELSE "EchoObject"
  <2>1. routine \in {"EchoChar", "EchoReal", "EchoInteger"} /\ other \in {"EchoArray", "EchoObject"}
    OBVIOUS
  <2>2. Part(Task("print", routine)) /\ Part(Task("print", other))
    BY <1>2, <2>1
  <2>3. \/ Echo(e) = <<Task("print", "EchoString")>>
        \/ Echo(e) = <<Task("convert", <<u, tString>>), Task("print", "EchoString")>>
        \/ Echo(e) = <<Task("tobytes", u), Task("print", other)>>
        \/ Echo(e) = <<Task("print", routine)>>
        \/ Echo(e) = <<Task("convert", <<u, widest>>), Task("print", routine)>>
    BY DEF Echo
  <2> HIDE DEF u, routine, widest, other
  <2> QED BY <1>1, <1>2, <1>3, <2>2, <2>3
<1> QED BY <1>4 DEF Good

(* The statements that are only their parts                                *)
LEMMA StatementKept == ASSUME Before, CompileStatement PROVE GenInv'
<1>1. /\ InsideFunction /\ agenda[1].op \notin {"emit", "args", "callend"}
      /\ UNCHANGED <<Frame, vals, always, loops, locals, nextLocalId, nextLabel, code, strings, refs>>
  BY DEF CompileStatement, At, InsideFunction
<1>2. nextLabel \in Nat /\ nextLabel <= nextLabel'
  BY <1>1 DEF Before, GenInv, NamesInv, Named
<1>3. ASSUME NEW STATE tasks, IsList(tasks), \A i \in DOMAIN tasks : Part(tasks[i]), Then(tasks) PROVE GenInv'
  <2>1. UNCHANGED <<Frame, vals, always, loops, locals, nextLocalId, code, strings, refs>>
    BY <1>1
  <2> QED BY <1>1, <1>2, <1>3, <2>1, PartsStep
<1>4. \A x, y : Part(Exp(x, y))
  BY PlainTasks, PartTasks
<1>5. \A op, x : op \in {"var", "store", "ret", "stop", "call"} => Part(Task(op, x))
  BY PlainTasks, PartTasks
<1>6. /\ \A k : Part(Lines(<<Branch(k)>>))
      /\ Part(Lines(<<Line("ret", Nowhere, << >>, << >>)>>)) /\ Part(Block(node.body))
  BY PartTasks, PartLines
<1>7. ASSUME NEW STATE x, Part(x), Then(<<x>>) PROVE GenInv'
  <2>1. IsList(<<x>>) /\ \A i \in DOMAIN <<x>> : Part(<<x>>[i])
    BY <1>7, PartLists
  <2> QED BY <1>3, <1>7, <2>1
<1>8. ASSUME NEW STATE x, NEW STATE y, Part(x), Part(y), Then(<<x, y>>) PROVE GenInv'
  <2>1. IsList(<<x, y>>) /\ \A i \in DOMAIN <<x, y>> : Part(<<x, y>>[i])
    BY <1>8, PartLists
  <2> QED BY <1>3, <1>8, <2>1
<1>9. ASSUME NEW STATE x, NEW STATE y, NEW STATE z, Part(x), Part(y), Part(z), Then(<<x, y, z>>) PROVE GenInv'
  <2>1. IsList(<<x, y, z>>) /\ \A i \in DOMAIN <<x, y, z>> : Part(<<x, y, z>>[i])
    BY <1>9, PartLists
  <2> QED BY <1>3, <1>9, <2>1
<1>10. CASE \/ Then(<<Task("var", node.left), Exp(node.right, node.type), Task("store", NULL)>>)
            \/ Then(<<Exp(node.exp, ReturnType), Task("ret", NULL), Task("stop", NULL)>>)
  BY <1>4, <1>5, <1>9, <1>10
<1>11. CASE Then(<<Lines(<<Line("ret", Nowhere, << >>, << >>)>>), Task("stop", NULL)>>)
  BY <1>5, <1>6, <1>8, <1>11
<1>12. CASE \/ Then(<<Task("call", node.call)>>) \/ Then(<<Block(node.body)>>)
            \/ Then(<<Lines(<<Branch(loops.end)>>)>>) \/ Then(<<Lines(<<Branch(loops.check)>>)>>)
  BY <1>5, <1>6, <1>7, <1>12
<1>13. CASE Then(<<Exp(node.exp, node.exp.type)>> \o Echo(node.exp))
  <2> DEFINE s == <<Exp(node.exp, node.exp.type)>>
             t == Echo(node.exp)
  <2>1. IsList(s) /\ \A i \in DOMAIN s : Part(s[i])
    BY <1>4, PartLists
  <2>2. IsList(t) /\ \A i \in DOMAIN t : Part(t[i])
    BY EchoParts
  <2> HIDE DEF s, t
  <2>3. IsList(s \o t) /\ \A i \in DOMAIN (s \o t) : Part((s \o t)[i])
    BY <2>1, <2>2, PartsJoined
  <2>4. Then(s \o t)
    BY <1>13 DEF s, t
  <2> QED BY <1>3, <2>3, <2>4
<1> QED BY <1>10, <1>11, <1>12, <1>13 DEF CompileStatement

(* The instruction that ends a statement                                   *)
LEMMA StatementEndKept == ASSUME Before, CompileStatementEnd PROVE GenInv'
<1>1. /\ InsideFunction /\ agenda[1].op \notin {"emit", "args", "callend"}
      /\ UNCHANGED <<Frame, always, loops, locals, nextLabel>>
  BY DEF CompileStatementEnd, At, InsideFunction
<1>2. NamesInv /\ DataInv /\ nextLocalId \in Nat /\ nextLabel \in Nat /\ 1 \in Nat /\ 2 \in Nat
  BY DEF Before, GenInv, NamesInv, Named
<1>3. IsList(Top(1))
  BY <1>2, WithoutLast
<1>4. ASSUME NEW STATE l, LineOK(l, Callable), Emit(<<l>>), Drop(1) \/ Drop(2), Done, nextLocalId' = nextLocalId PROVE GenInv'
  <2> DEFINE lines == <<l>>
  <2>1. IsList(lines) /\ \A i \in DOMAIN lines : LineOK(lines[i], Callable)
    BY <1>4, ShortLists
  <2>2. Emit(lines)
    BY <1>4
  <2> HIDE DEF lines
  <2>3. nextLocalId <= nextLocalId' /\ nextLabel <= nextLabel' /\ locals' = locals /\ ValueOK(ValNull, nextLocalId')
    BY <1>1, <1>2, <1>4 DEF ValueOK, ValNull
  <2>4. agenda[1].op # "callend" /\ agenda[1].op # "args" /\ UNCHANGED <<Frame, always, loops>>
    BY <1>1
  <2>5. CASE Drop(1)
    BY <1>1, <1>2, <1>4, <2>1, <2>2, <2>3, <2>4, <2>5, LinesStep
  <2>6. CASE Drop(2)
    BY <1>1, <1>2, <1>4, <2>1, <2>2, <2>3, <2>4, <2>6, LinesStep
  <2> QED BY <1>4, <2>5, <2>6
<1>5. CASE At("store")
  <2>1. LineOK(Store(Top(2)[1], Top(2)[2]), Callable)
    BY PrintableLines
  <2> QED BY <1>4, <1>5, <2>1 DEF CompileStatementEnd, At
<1>6. CASE At("ret")
  <2>1. LineOK(Line("ret", Nowhere, Top(1), << >>), Callable)
    BY <1>3, PrintableLines
  <2> QED BY <1>4, <1>6, <2>1 DEF CompileStatementEnd, At
<1>7. CASE At("print")
  <2>1. node \in Callable
    BY <1>1, <1>7, HeadFits DEF TaskFit, InsideFunction, At, node
  <2>2. LineOK(CallStmt(node, Top(1)), Callable)
    BY <1>3, <2>1, PrintableLines DEF CallStmt
  <2> QED BY <1>4, <1>7, <2>2 DEF CompileStatementEnd, At
<1>8. CASE At("tobytes")
  <2>1. Instruction(1, "bitcast", Top(1), <<TypeRef(node), BytePtr>>)
    BY <1>8 DEF CompileStatementEnd, At
  <2>2. "bitcast" \notin {"br", "condbr"} /\ "bitcast" # "call" /\ agenda[1].op # "args" /\ agenda[1].op # "callend"
    BY <1>1
  <2> QED BY <1>1, <1>2, <1>3, <2>1, <2>2, InstructionStep
<1> QED BY <1>5, <1>6, <1>7, <1>8 DEF CompileStatementEnd

(* A local variable takes the next number.                                 *)
LEMMA VarDefinitionKept == ASSUME Before, VarDefinition PROVE GenInv'
<1> DEFINE m == nextLocalId
           x == [name |-> node.name, id |-> m]
           lines == <<Line("alloca", ValLocal(m), << >>, <<TypeRef(node.type)>>),
                      Store(ValLocal(m), GetDefaultValue(node.type))>>
<1>1. /\ InsideFunction /\ agenda[1].op = "vardef" /\ UNCHANGED <<Frame, vals, always, loops, nextLabel>>
      /\ locals' = Append(locals, x) /\ Emit(lines) /\ m' = m + 1 /\ Done
  BY DEF VarDefinition, CompileLocal, At, InsideFunction
<1>2. m \in Nat /\ nextLabel \in Nat
  BY DEF Before, GenInv, NamesInv, Named
<1>3. m <= m' /\ nextLabel <= nextLabel' /\ 0 \in Nat /\ ValueOK(ValNull, m')
  BY <1>1, <1>2 DEF ValueOK, ValNull
<1>4. \E y : locals' = Append(locals, y) /\ y.id \in Int /\ y.id < m'
  BY <1>1, <1>2
<1>5. IsList(lines) /\ \A i \in DOMAIN lines : LineOK(lines[i], Callable)
  <2>1. LineOK(Line("alloca", ValLocal(m), << >>, <<TypeRef(node.type)>>), Callable)
    BY ShortLists, PrintableLines
  <2>2. LineOK(Store(ValLocal(m), GetDefaultValue(node.type)), Callable)
    BY PrintableLines
  <2> QED BY <2>1, <2>2, ShortLists
<1>6. agenda[1].op # "callend" /\ agenda[1].op # "args" /\ agenda[1].op # "emit" /\ vals' = vals
  BY <1>1
<1> HIDE DEF x, lines
<1> QED BY <1>1, <1>3, <1>4, <1>5, <1>6, LinesStep

-----------------------------------------------------------------------------
(* The steps of the frame                                                  *)

(* What a frame says of its head, in the forms the steps need              *)
LEMMA FrameHead ==
  ASSUME NEW a, IsList(a), a # << >>, NEW locs, IsList(locs), NEW d, IsList(d.params), Framed(a, locs, d)
  PROVE  LET n == Len(a)
             p == Len(d.params)
         IN  /\ n \in Nat /\ n > 0 /\ DOMAIN a = 1 .. n /\ p \in Nat /\ Len(locs) \in Nat /\ DOMAIN locs = 1 .. Len(locs)
             /\ a[1].op = "funcend" => n = 1 /\ a[1].node = d
             /\ a[1].op = "body" => n = 2 /\ Len(locs) = p
             /\ a[1].op = "param" =>
                  /\ n > 2 /\ Len(locs) < p /\ a[n - 1].op = "body" /\ a[1].node.name = d.params[Len(locs) + 1].name
                  /\ \A i \in DOMAIN a : i < n - 1 => a[i].op \in {"param", "emit"}
             /\ a[1].op = "block" =>
                  /\ n > 1 /\ a[n - 1].op = "block" /\ a[n - 1].node.top = p /\ p <= Len(locs)
                  /\ a[1].node.top \in p .. Len(locs)
                  /\ \A i \in DOMAIN a : a[i].op \notin {"param", "body"}
<1> DEFINE n == Len(a)
           p == Len(d.params)
           k == Len(locs)
<1>1. n \in Nat /\ n > 0 /\ DOMAIN a = 1 .. n /\ p \in Nat /\ k \in Nat /\ DOMAIN locs = 1 .. k /\ 1 \in DOMAIN a
  BY Rest DEF IsList
<1>2. /\ a[n] = Task("funcend", d) /\ \A i \in DOMAIN a : a[i].op = "funcend" => i = n
      /\ \A i \in DOMAIN a : a[i].op = "body" => i = n - 1
      /\ n > 1 => \/ /\ a[n - 1].op = "body" /\ k <= p
                     /\ \A i \in DOMAIN a : i < n - 1 => a[i].op \in {"param", "emit"}
                  \/ a[n - 1].op = "block" /\ a[n - 1].node.top = p
      /\ n = 1 => k = p
      /\ \A i \in DOMAIN a : a[i].op = "block" => a[i].node.top \in p .. k
      /\ \A i \in DOMAIN a : a[i].op = "param" <=> i <= p - k
      /\ \A i \in DOMAIN a : a[i].op = "param" => a[i].node.name = d.params[k + i].name
  BY DEF Framed
<1> HIDE DEF n, p, k
<1>3. a[n].op = "funcend" /\ a[n].node = d
  BY <1>2 DEF Task
<1>4. n > 1 => n - 1 \in DOMAIN a
  BY <1>1
<1>5. a[1].op = "funcend" => n = 1 /\ a[1].node = d
  BY <1>1, <1>2, <1>3
<1>6. ASSUME a[1].op = "body" PROVE n = 2 /\ k = p
  <2>1. n = 2
    BY <1>1, <1>2, <1>6
  <2>2. k <= p
    BY <1>2, <1>6, <2>1
  <2>3. ~(1 <= p - k)
    BY <1>1, <1>2, <1>6
  <2> QED BY <1>1, <2>1, <2>2, <2>3
<1>7. ASSUME a[1].op = "param"
      PROVE  /\ n > 2 /\ k < p /\ a[n - 1].op = "body" /\ a[1].node.name = d.params[k + 1].name
             /\ \A i \in DOMAIN a : i < n - 1 => a[i].op \in {"param", "emit"}
  <2>1. n # 1
    BY <1>3, <1>7
  <2>2. 1 <= p - k
    BY <1>1, <1>2, <1>7
  <2>3. k < p
    BY <1>1, <2>2
  <2>4. a[n - 1].op # "block"
    <3>1. n > 1
      BY <1>1, <2>1
    <3>2. a[n - 1].op = "block" => a[n - 1].node.top \in p .. k
      BY <1>2, <1>4, <3>1
    <3> QED BY <1>1, <2>3, <3>2
  <2>5. a[n - 1].op = "body" /\ \A i \in DOMAIN a : i < n - 1 => a[i].op \in {"param", "emit"}
    BY <1>1, <1>2, <2>1, <2>4
  <2>6. n # 2
    BY <1>7, <2>5
  <2> QED BY <1>1, <1>2, <1>7, <2>1, <2>3, <2>5, <2>6
<1>8. ASSUME a[1].op = "block"
      PROVE  /\ n > 1 /\ a[n - 1].op = "block" /\ a[n - 1].node.top = p /\ p <= k
             /\ a[1].node.top \in p .. k
             /\ \A i \in DOMAIN a : a[i].op \notin {"param", "body"}
  <2>1. n # 1
    BY <1>3, <1>8
  <2>2. a[1].node.top \in p .. k
    BY <1>1, <1>2, <1>8
  <2>3. p <= k
    BY <1>1, <2>2
  <2>4. a[n - 1].op # "body"
    <3>1. CASE n = 2
      BY <1>8, <3>1
    <3>2. CASE n # 2
      <4>1. 1 < n - 1 /\ n > 1
        BY <1>1, <2>1, <3>2
      <4>2. a[n - 1].op # "block" => a[1].op \in {"param", "emit"}
        BY <1>1, <1>2, <4>1
      <4> QED BY <1>8, <4>2
    <3> QED BY <3>1, <3>2
  <2>5. n > 1 /\ a[n - 1].op = "block" /\ a[n - 1].node.top = p
    BY <1>1, <1>2, <2>1, <2>4
  <2>6. \A i \in DOMAIN a : a[i].op # "param"
    BY <1>1, <1>2, <2>3
  <2>7. \A i \in DOMAIN a : a[i].op # "body"
    BY <1>2, <2>4
  <2> QED BY <2>2, <2>3, <2>5, <2>6, <2>7
<1> QED BY <1>1, <1>5, <1>6, <1>7, <1>8 DEF n, p, k

(* What the actions below find                                             *)
LEMMA FrameFacts ==
  ASSUME Before, result = "running", agenda # << >>
  PROVE  /\ GenInv /\ NamesInv /\ NamesInv' /\ DataInv /\ ContextInv /\ CalleesInv
         /\ nextLocalId \in Nat /\ nextLabel \in Nat
         /\ IsList(agenda) /\ IsList(code) /\ IsList(locals) /\ IsList(vals)
         /\ pos \in DOMAIN module /\ HasBody(module[pos]) /\ IsList(module[pos].params)
         /\ Framed(agenda, locals, module[pos]) /\ Unwinds(agenda, loops)
<1>1. /\ GenInv /\ NamesInv /\ NamesInv' /\ DataInv /\ ContextInv /\ CalleesInv
      /\ nextLocalId \in Nat /\ nextLabel \in Nat
      /\ IsList(agenda) /\ IsList(code) /\ IsList(locals) /\ IsList(vals) /\ module \in Modules
  BY DEF Before, GenInv, NamesInv, Named, DataInv
<1>2. /\ pos \in DOMAIN module /\ HasBody(module[pos])
      /\ Framed(agenda, locals, module[pos]) /\ Unwinds(agenda, loops)
  BY <1>1 DEF ContextInv
<1>3. IsList(module[pos].params)
  BY <1>1, <1>2, ModulesAreLists DEF HasBody
<1> QED BY <1>1, <1>2, <1>3

(* The body becomes the outermost block: all parameters are locals.        *)
LEMMA FunctionBodyKept == ASSUME Before, FunctionBody PROVE GenInv'
<1> DEFINE d == module[pos]
           t == Block(node)
           tasks == <<t>>
           b == tasks \o Tail(agenda)
<1>1. /\ result = "running" /\ agenda # << >> /\ agenda[1].op = "body" /\ agenda' = b
      /\ UNCHANGED <<Frame, vals, always, loops, locals, nextLocalId, nextLabel, code, strings, refs>>
  BY DEF FunctionBody, At, Then
<1>2. /\ GenInv /\ NamesInv' /\ DataInv /\ IsList(agenda) /\ IsList(code) /\ IsList(locals) /\ IsList(d.params)
      /\ nextLocalId \in Nat /\ nextLabel \in Nat /\ Framed(agenda, locals, d) /\ Unwinds(agenda, loops)
  BY <1>1, FrameFacts
<1>3. Stays /\ dependencies' = dependencies /\ Depends
  BY <1>1 DEF Stays, Frame, Outside, Depends
<1>4. Callable' = Callable
  BY <1>3 DEF Callable, Implemented, Stays
<1>5. t.op = "block" /\ t.node.top = Len(locals)
  BY DEF Block, Task
<1> HIDE DEF t
<1>6. IsList(tasks) /\ DOMAIN tasks = {1} /\ tasks[1] = t /\ Len(tasks) = 1
  BY ShortLists
<1> HIDE DEF tasks, d
<1>7. /\ Len(agenda) = 2 /\ Len(locals) = Len(d.params) /\ Len(locals) \in Nat /\ DOMAIN agenda = 1 .. 2
  BY <1>1, <1>2, FrameHead
<1>8. /\ Len(b) = 2 /\ DOMAIN b = 1 .. 2 /\ b[1] = t /\ b[2] = agenda[2]
  <2>0. IsList(tasks) /\ IsList(agenda) /\ agenda # << >>
    BY <1>1, <1>2, <1>6
  <2>1. /\ Len(b) = Len(tasks) + Len(agenda) - 1 /\ DOMAIN b = 1 .. Len(tasks) + Len(agenda) - 1
        /\ \A i \in 1 .. Len(tasks) : b[i] = tasks[i]
        /\ \A i \in 2 .. Len(agenda) : b[i + Len(tasks) - 1] = agenda[i]
    BY <2>0, HeadReplaced
  <2> HIDE DEF b
  <2>2. Len(b) = 2 /\ DOMAIN b = 1 .. 2
    BY <1>6, <1>7, <2>1
  <2>3. b[1] = t
    BY <1>6, <2>1
  <2>4. 2 + Len(tasks) - 1 = 2 /\ 2 \in 2 .. Len(agenda)
    BY <1>6, <1>7
  <2> QED BY <2>1, <2>2, <2>3, <2>4
<1>9. Framed(agenda', locals', d)
  <2>1. /\ agenda[2] = Task("funcend", d)
        /\ \A i \in 1 .. Len(d.params) : i <= Len(locals) => locals[i].name = d.params[i].name
    BY <1>2, <1>7 DEF Framed
  <2>2. agenda[2].op = "funcend"
    BY <2>1 DEF Task
  <2> HIDE DEF b
  <2>3. \A i \in DOMAIN b : (i = 1 /\ b[i].op = "block" /\ b[i].node.top = Len(locals)) \/ (i = 2 /\ b[i].op = "funcend")
    BY <1>5, <1>8, <2>2
  <2>4. Framed(b, locals, d)
    BY <1>5, <1>7, <1>8, <2>1, <2>3 DEF Framed
  <2> QED BY <1>1, <2>4
<1>10. Unwinds(agenda', loops')
  <2>1. \A i \in DOMAIN tasks : tasks[i].op # "loop"
    BY <1>5, <1>6
  <2>2. Unwinds(b, loops)
    BY <1>1, <1>2, <1>6, <2>1, UnwindsStep
  <2> QED BY <1>1, <2>2
<1>11. agenda' # << >> /\ Len(agenda') # 1
  BY <1>1, <1>8
<1>12. code' = code \o << >> /\ IsList(<< >>) /\ \A i \in DOMAIN << >> : LineOK(<< >>[i], Callable')
  BY <1>1, <1>2, JoinedToNothing, ShortLists
<1>13. /\ nextLocalId <= nextLocalId' /\ nextLabel <= nextLabel'
       /\ IsList(locals') /\ \A i \in DOMAIN locals' : locals'[i].id \in Int /\ locals'[i].id < nextLocalId'
       /\ IsList(vals') /\ \A i \in DOMAIN vals' : ValueOK(vals'[i], nextLocalId')
       /\ LoopOK(loops', nextLabel') /\ always' \in BOOLEAN /\ LiteralsKnown(strings', refs')
  BY <1>1, <1>2 DEF DataInv
<1>14. \A i \in DOMAIN tasks : TaskFit(tasks[i], nextLabel', Callable')
  BY <1>5, <1>6 DEF TaskFit
<1>15. \A f : TaskCalls(agenda[1], f) \/ f \in ToSet(dependencies') \ ToSet(dependencies) =>
                  LineCalls(<< >>, f) \/ \E i \in DOMAIN tasks : TaskCalls(tasks[i], f)
  BY <1>1, <1>3 DEF TaskCalls
<1> QED BY <1>1, <1>2, <1>3, <1>6, <1>9, <1>10, <1>11, <1>12, <1>13, <1>14, <1>15, FunctionStep DEF d

(* The first parameter that waits becomes a local.                         *)
LEMMA ParameterFramed ==
  ASSUME NEW a, IsList(a), a # << >>, NEW locs, IsList(locs), NEW d, IsList(d.params), Framed(a, locs, d),
         a[1].op = "param", NEW x, x.name = a[1].node.name
  PROVE  Framed(<< >> \o Tail(a), Append(locs, x), d) /\ Len(<< >> \o Tail(a)) > 1
<1> DEFINE b == << >> \o Tail(a)
           n == Len(a)
           p == Len(d.params)
           k == Len(locs)
           l2 == Append(locs, x)
<1>1. /\ n \in Nat /\ DOMAIN a = 1 .. n /\ p \in Nat /\ k \in Nat /\ DOMAIN locs = 1 .. k
      /\ n > 2 /\ k < p /\ a[n - 1].op = "body" /\ a[1].node.name = d.params[k + 1].name
      /\ \A i \in DOMAIN a : i < n - 1 => a[i].op \in {"param", "emit"}
  BY FrameHead
<1>2. /\ Len(l2) = k + 1 /\ \A i \in DOMAIN locs : l2[i] = locs[i]
      /\ l2[k + 1] = x
  BY Appended
<1>3. Len(b) = n - 1 /\ DOMAIN b = 1 .. n - 1 /\ \A i \in 1 .. n - 1 : b[i] = a[i + 1]
  <2>1. b = Tail(a)
    <3>1. IsList(Tail(a))
      BY Rest
    <3> QED BY <3>1, JoinedToNothing
  <2> HIDE DEF b
  <2> QED BY <2>1, Rest
<1>4. /\ a[n] = Task("funcend", d) /\ \A i \in DOMAIN a : a[i].op = "funcend" => i = n
      /\ \A i \in DOMAIN a : a[i].op = "body" => i = n - 1
      /\ \A i \in DOMAIN a : a[i].op = "param" <=> i <= p - k
      /\ \A i \in DOMAIN a : a[i].op = "param" => a[i].node.name = d.params[k + i].name
      /\ \A i \in 1 .. p : i <= k => locs[i].name = d.params[i].name
  BY DEF Framed
<1> HIDE DEF b, n, p, k, l2
<1>5. n \in Nat /\ n > 2 /\ p \in Nat /\ k \in Nat /\ k < p /\ DOMAIN b = 1 .. n - 1 /\ n - 1 \in Int /\ n - 1 - 1 \in Int
  BY <1>1, <1>3
<1>6. \A i \in DOMAIN b : i \in Int /\ i + 1 \in DOMAIN a /\ b[i] = a[i + 1]
  BY <1>1, <1>3
<1>7. /\ b[n - 1] = Task("funcend", d)
      /\ \A i \in DOMAIN b : b[i].op = "funcend" => i = n - 1
      /\ \A i \in DOMAIN b : b[i].op = "body" => i = n - 1 - 1
  <2>1. n - 1 \in DOMAIN b /\ (n - 1) + 1 = n
    BY <1>5
  <2>2. b[n - 1] = a[n]
    BY <1>6, <2>1
  <2>3. ASSUME NEW i \in DOMAIN b
        PROVE  (b[i].op = "funcend" => i = n - 1) /\ (b[i].op = "body" => i = n - 1 - 1)
    <3>1. i \in Int /\ i + 1 \in DOMAIN a /\ b[i] = a[i + 1]
      BY <1>6
    <3>2. /\ b[i].op = "funcend" => i + 1 = n
          /\ b[i].op = "body" => i + 1 = n - 1
      BY <1>4, <3>1
    <3> QED BY <1>5, <3>1, <3>2
  <2> QED BY <1>4, <2>2, <2>3
<1>8. /\ b[n - 1 - 1].op = "body"
      /\ \A i \in DOMAIN b : i < n - 1 - 1 => b[i].op \in {"param", "emit"}
  <2>1. n - 1 - 1 \in 1 .. n - 1 /\ n - 1 - 1 + 1 = n - 1
    BY <1>1
  <2>2. b[n - 1 - 1].op = "body"
    BY <1>1, <1>3, <2>1
  <2>3. ASSUME NEW i \in DOMAIN b, i < n - 1 - 1 PROVE b[i].op \in {"param", "emit"}
    <3>1. i \in Int /\ i + 1 \in DOMAIN a /\ b[i] = a[i + 1]
      BY <1>6
    <3>2. i + 1 < n - 1
      BY <1>5, <2>3, <3>1
    <3> QED BY <1>1, <3>1, <3>2
  <2> QED BY <2>2, <2>3
<1>9. ASSUME NEW i \in DOMAIN b PROVE b[i].op # "block"
  <2>1. i \in 1 .. n - 1 /\ (i < n - 1 - 1 \/ i = n - 1 - 1 \/ i = n - 1)
    BY <1>5
  <2>2. b[n - 1].op = "funcend"
    BY <1>7 DEF Task
  <2> QED BY <1>8, <2>1, <2>2
<1>10. ASSUME NEW i \in DOMAIN b
       PROVE  /\ b[i].op = "param" <=> i <= p - (k + 1)
              /\ b[i].op = "param" => b[i].node.name = d.params[k + 1 + i].name
  <2>1. i + 1 \in DOMAIN a /\ b[i] = a[i + 1] /\ i \in Int
    BY <1>6
  <2>2. /\ i + 1 <= p - k <=> i <= p - (k + 1)
        /\ k + (i + 1) = k + 1 + i
    <3>1. \A x1, x2, x3 \in Int : (x1 + 1 <= x2 - x3 <=> x1 <= x2 - (x3 + 1)) /\ x3 + (x1 + 1) = x3 + 1 + x1
      OBVIOUS
    <3>2. i \in Int /\ p \in Int /\ k \in Int
      BY <1>5, <2>1
    <3> QED BY <3>1, <3>2
  <2>3. /\ a[i + 1].op = "param" <=> i + 1 <= p - k
        /\ a[i + 1].op = "param" => a[i + 1].node.name = d.params[k + (i + 1)].name
    BY <1>4, <2>1
  <2> QED BY <2>1, <2>2, <2>3
<1>11. \A i \in 1 .. p : i <= k + 1 => l2[i].name = d.params[i].name
  <2>1. ASSUME NEW i \in 1 .. p, i <= k + 1 PROVE l2[i].name = d.params[i].name
    <3>1. CASE i = k + 1
      BY <1>1, <1>2, <3>1
    <3>2. CASE i <= k
      BY <1>1, <1>2, <1>4, <3>2
    <3> QED BY <1>1, <2>1, <3>1, <3>2
  <2> QED BY <2>1
<1>12. Len(b) = n - 1 /\ n - 1 # 1 /\ n - 1 > 1 /\ k + 1 <= p /\ Len(l2) = k + 1
  BY <1>1, <1>2, <1>3
<1>13. Framed(b, l2, d)
  BY <1>7, <1>8, <1>9, <1>10, <1>11, <1>12 DEF Framed, p
<1> QED BY <1>12, <1>13 DEF b, l2

(* A parameter is copied to a local.                                       *)
LEMMA ParameterKept == ASSUME Before, Parameter PROVE GenInv'
<1> DEFINE d == module[pos]
           m == nextLocalId
           x == [name |-> node.name, id |-> m]
           lines == <<Line("alloca", ValLocal(m), << >>, <<TypeRef(node.type)>>),
                      Store(ValLocal(m), ValSSA(node.index))>>
<1>1. /\ result = "running" /\ agenda # << >> /\ agenda[1].op = "param" /\ UNCHANGED <<Frame, vals, always, loops, nextLabel>>
      /\ locals' = Append(locals, x) /\ Emit(lines) /\ m' = m + 1 /\ agenda' = << >> \o Tail(agenda)
  BY DEF Parameter, CompileLocal, At, Done, Then
<1>2. /\ GenInv /\ NamesInv' /\ DataInv /\ IsList(agenda) /\ IsList(code) /\ IsList(locals) /\ IsList(d.params)
      /\ m \in Nat /\ nextLabel \in Nat /\ Framed(agenda, locals, d) /\ Unwinds(agenda, loops)
  BY <1>1, FrameFacts
<1>3. Stays /\ dependencies' = dependencies /\ Depends
  BY <1>1 DEF Stays, Frame, Outside, Depends
<1>4. Callable' = Callable
  BY <1>3 DEF Callable, Implemented, Stays
<1>5. IsList(lines) /\ (\A i \in DOMAIN lines : LineOK(lines[i], Callable)) /\ \A i \in DOMAIN lines : IsList(lines[i].args)
  <2>1. LineOK(Line("alloca", ValLocal(m), << >>, <<TypeRef(node.type)>>), Callable)
    BY ShortLists, PrintableLines
  <2>2. LineOK(Store(ValLocal(m), ValSSA(node.index)), Callable)
    BY PrintableLines
  <2>3. IsList(lines) /\ \A i \in DOMAIN lines : LineOK(lines[i], Callable)
    BY <2>1, <2>2, ShortLists
  <2> HIDE DEF lines
  <2>4. \A l : LineOK(l, Callable) => IsList(l.args)
    BY DEF LineOK
  <2> QED BY <2>3, <2>4
<1>6. x.name = agenda[1].node.name /\ x.id = m
  BY DEF node
<1> HIDE DEF d, x, lines
<1>7. Framed(agenda', locals', d) /\ Len(agenda') > 1
  <2>1. Framed(<< >> \o Tail(agenda), Append(locals, x), d) /\ Len(<< >> \o Tail(agenda)) > 1
    BY <1>1, <1>2, <1>6, ParameterFramed
  <2> QED BY <1>1, <2>1
<1>8. Unwinds(agenda', loops')
  <2>1. IsList(<< >>) /\ \A i \in DOMAIN << >> : << >>[i].op # "loop"
    BY ShortLists
  <2>2. Unwinds(<< >> \o Tail(agenda), loops)
    BY <1>1, <1>2, <2>1, UnwindsStep
  <2> QED BY <1>1, <2>2
<1>9. code' = code \o lines /\ LiteralsKnown(strings', refs')
  <2>1. LiteralsKnown(strings, refs)
    BY <1>2 DEF DataInv
  <2> QED BY <1>1, <1>5, <2>1, Printed, EmittedKnown
<1>10. IsList(locals') /\ \A i \in DOMAIN locals' : locals'[i].id \in Int /\ locals'[i].id < m'
  <2>1. \A i \in DOMAIN locals : locals[i].id \in Int /\ locals[i].id < m
    BY <1>2 DEF DataInv
  <2>2. /\ IsList(locals') /\ Len(locals) \in Nat /\ DOMAIN locals = 1 .. Len(locals) /\ DOMAIN locals' = 1 .. Len(locals) + 1
        /\ \A i \in DOMAIN locals : locals'[i] = locals[i]
        /\ locals'[Len(locals) + 1] = x
    BY <1>1, <1>2, Appended
  <2>3. m < m' /\ m \in Int /\ m' \in Int
    BY <1>1, <1>2
  <2>4. ASSUME NEW i \in DOMAIN locals' PROVE locals'[i].id \in Int /\ locals'[i].id < m'
    <3>1. CASE i \in DOMAIN locals
      BY <2>1, <2>2, <2>3, <3>1
    <3>2. CASE i = Len(locals) + 1
      BY <1>6, <2>2, <2>3, <3>2
    <3> QED BY <2>2, <3>1, <3>2
  <2> QED BY <2>2, <2>4
<1>11. IsList(vals') /\ \A i \in DOMAIN vals' : ValueOK(vals'[i], m')
  <2>1. vals' = vals /\ m \in Int /\ m' \in Int /\ m <= m'
    BY <1>1, <1>2
  <2> QED BY <1>2, <2>1 DEF DataInv, ValueOK
<1>12. /\ LoopOK(loops', nextLabel') /\ always' \in BOOLEAN /\ m <= m' /\ nextLabel <= nextLabel'
  <2>1. loops' = loops /\ nextLabel' = nextLabel /\ always' = always
    BY <1>1
  <2>2. LoopOK(loops, nextLabel) /\ always \in BOOLEAN
    BY <1>2 DEF DataInv
  <2> QED BY <1>1, <1>2, <2>1, <2>2
<1>13. IsList(<< >>) /\ DOMAIN << >> = {}
  BY ShortLists
<1>14. agenda' # << >> /\ Len(agenda') # 1
  BY <1>7, SMTT(40)
<1>15. \A f : ~(TaskCalls(agenda[1], f) \/ f \in ToSet(dependencies') \ ToSet(dependencies))
  BY <1>1, <1>3 DEF TaskCalls
<1>16. \A i \in DOMAIN << >> : TaskFit(<< >>[i], nextLabel', Callable')
  BY <1>13
<1>17. \A i \in DOMAIN lines : LineOK(lines[i], Callable')
  BY <1>4, <1>5
<1> HIDE DEF m
<1> QED BY <1>1, <1>2, <1>3, <1>5, <1>7, <1>8, <1>9, <1>10, <1>11, <1>12, <1>13, <1>14, <1>15, <1>16, <1>17, FunctionStep DEF d, m

(* A block goes on with its next statement.                                *)
LEMMA NextStatementFramed ==
  ASSUME NEW a, IsList(a), a # << >>, NEW locs, IsList(locs), NEW d, IsList(d.params), Framed(a, locs, d),
         a[1].op = "block", NEW s, s.op \in StatementKinds,
         NEW t, t.op = "block", t.node.top = a[1].node.top
  PROVE  Framed(<<s, t>> \o Tail(a), locs, d) /\ Len(<<s, t>> \o Tail(a)) > 1
<1> DEFINE tasks == <<s, t>>
           b == tasks \o Tail(a)
           n == Len(a)
           p == Len(d.params)
           k == Len(locs)
<1>1. /\ n \in Nat /\ DOMAIN a = 1 .. n /\ p \in Nat /\ k \in Nat
      /\ n > 1 /\ a[n - 1].op = "block" /\ a[n - 1].node.top = p /\ p <= k
      /\ \A i \in DOMAIN a : a[i].op \notin {"param", "body"}
  BY FrameHead
<1>2. IsList(tasks) /\ Len(tasks) = 2 /\ tasks[1] = s /\ tasks[2] = t
  BY ShortLists
<1> HIDE DEF tasks
<1>3. /\ Len(b) = n + 1 /\ DOMAIN b = 1 .. n + 1 /\ b[1] = s /\ b[2] = t
      /\ \A i \in 2 .. n : b[i + 1] = a[i]
  <2>0. IsList(tasks) /\ IsList(a) /\ a # << >>
    BY <1>2
  <2>1. /\ Len(b) = Len(tasks) + n - 1 /\ DOMAIN b = 1 .. Len(tasks) + n - 1
        /\ \A i \in 1 .. Len(tasks) : b[i] = tasks[i]
        /\ \A i \in 2 .. n : b[i + Len(tasks) - 1] = a[i]
    BY <2>0, HeadReplaced
  <2> HIDE DEF b, n
  <2>2. 2 + n - 1 = n + 1 /\ \A i \in 2 .. n : i + 2 - 1 = i + 1
    BY <1>1
  <2>3. Len(b) = n + 1 /\ DOMAIN b = 1 .. n + 1 /\ \A i \in 2 .. n : b[i + 1] = a[i]
    BY <1>2, <2>1, <2>2
  <2>4. 1 \in 1 .. 2 /\ 2 \in 1 .. 2
    OBVIOUS
  <2> QED BY <1>2, <2>1, <2>3, <2>4
<1>4. /\ a[n] = Task("funcend", d) /\ \A i \in DOMAIN a : a[i].op = "funcend" => i = n
      /\ \A i \in DOMAIN a : a[i].op = "block" =>
           /\ a[i].node.top \in p .. k
           /\ \A j \in DOMAIN a : a[j].op = "block" /\ i < j => a[j].node.top <= a[i].node.top
      /\ \A i \in 1 .. p : i <= k => locs[i].name = d.params[i].name
  BY DEF Framed
<1> HIDE DEF b, n, p, k
<1>5. n \in Nat /\ n > 1 /\ p \in Nat /\ k \in Nat /\ p <= k /\ DOMAIN b = 1 .. n + 1
  BY <1>1, <1>3
<1>6. \A i \in 2 .. n + 1 : /\ i - 1 \in DOMAIN a /\ i \in Int /\ b[i].op = a[i - 1].op
                            /\ b[i].op = "block" => b[i].node.top = a[i - 1].node.top
  <2>1. ASSUME NEW i \in 2 .. n + 1
        PROVE  /\ i - 1 \in DOMAIN a /\ i \in Int /\ b[i].op = a[i - 1].op
               /\ b[i].op = "block" => b[i].node.top = a[i - 1].node.top
    <3>1. i - 1 \in DOMAIN a /\ i \in Int
      BY <1>1, <1>5
    <3>2. CASE i = 2
      BY <1>3, <3>1, <3>2
    <3>3. CASE i # 2
      <4>1. i - 1 \in 2 .. n /\ (i - 1) + 1 = i
        BY <1>5, <3>3
      <4>2. b[i] = a[i - 1]
        BY <1>3, <4>1
      <4> QED BY <3>1, <4>2
    <3> QED BY <3>2, <3>3
  <2> QED BY <2>1
<1>7. b[1].op \notin {"funcend", "body", "param", "block"}
  BY <1>3 DEF StatementKinds
<1>8. \A i \in DOMAIN b : i = 1 \/ i \in 2 .. n + 1
  BY <1>5
<1>9. b[n + 1] = Task("funcend", d)
  BY <1>3, <1>4, <1>5
<1>10. ASSUME NEW i \in DOMAIN b
       PROVE  (b[i].op = "funcend" => i = n + 1) /\ b[i].op \notin {"body", "param"}
  <2>1. CASE i = 1
    BY <1>7, <2>1
  <2>2. CASE i \in 2 .. n + 1
    <3>1. i - 1 \in DOMAIN a /\ i \in Int /\ b[i].op = a[i - 1].op
      BY <1>6, <2>2
    <3>2. a[i - 1].op = "funcend" => i - 1 = n
      BY <1>4, <3>1
    <3> QED BY <1>1, <1>5, <3>1, <3>2
  <2> QED BY <1>8, <2>1, <2>2
<1>11. b[n].op = "block" /\ b[n].node.top = p
  BY <1>1, <1>5, <1>6
<1>12. ASSUME NEW i \in DOMAIN b, b[i].op = "block"
       PROVE  /\ b[i].node.top \in p .. k
              /\ \A j \in DOMAIN b : b[j].op = "block" /\ i < j => b[j].node.top <= b[i].node.top
  <2>1. i \in 2 .. n + 1
    BY <1>7, <1>8, <1>12
  <2>2. i - 1 \in DOMAIN a /\ i \in Int /\ a[i - 1].op = "block" /\ b[i].node.top = a[i - 1].node.top
    BY <1>6, <1>12, <2>1
  <2>3. ASSUME NEW j \in DOMAIN b, b[j].op = "block", i < j PROVE b[j].node.top <= b[i].node.top
    <3>1. j \in 2 .. n + 1
      BY <1>7, <1>8, <2>3
    <3>2. j - 1 \in DOMAIN a /\ j \in Int /\ a[j - 1].op = "block" /\ b[j].node.top = a[j - 1].node.top
      BY <1>6, <2>3, <3>1
    <3>3. i - 1 < j - 1
      BY <2>2, <2>3, <3>2
    <3> QED BY <1>4, <2>2, <3>2, <3>3
  <2> QED BY <1>4, <2>2, <2>3
<1>13. \A i \in DOMAIN b : ~(i <= p - k)
  BY <1>5
<1>14. Len(b) = n + 1 /\ n + 1 # 1 /\ n + 1 > 1 /\ n + 1 - 1 = n
  BY <1>3, <1>5
<1>15. Framed(b, locs, d)
  <2>1. /\ b[Len(b)] = Task("funcend", d)
        /\ \A i \in DOMAIN b : b[i].op = "funcend" => i = Len(b)
        /\ b[Len(b) - 1].op = "block" /\ b[Len(b) - 1].node.top = p
        /\ Len(b) # 1
    <3>1. Len(b) = n + 1 /\ Len(b) - 1 = n /\ Len(b) # 1
      BY <1>5, <1>14
    <3>2. \A i \in DOMAIN b : b[i].op = "funcend" => i = n + 1
      BY <1>10
    <3> HIDE DEF b
    <3> QED BY <1>9, <1>11, <3>1, <3>2
  <2>2. /\ \A i \in DOMAIN b : b[i].op # "body"
        /\ \A i \in DOMAIN b : b[i].op # "param" /\ ~(i <= p - k)
    BY <1>10, <1>13
  <2>3. \A i \in 1 .. p : i <= k => locs[i].name = d.params[i].name
    BY <1>4
  <2>4. \A i \in DOMAIN b : b[i].op = "block" =>
          /\ b[i].node.top \in p .. k
          /\ \A j \in DOMAIN b : b[j].op = "block" /\ i < j => b[j].node.top <= b[i].node.top
    BY <1>12
  <2>5. Len(b) > 1 => b[Len(b) - 1].op = "block" /\ b[Len(b) - 1].node.top = p
    BY <2>1
  <2> HIDE DEF tasks
  <2> QED BY <2>1, <2>2, <2>3, <2>4, <2>5 DEF Framed, p, k
<1> QED BY <1>14, <1>15 DEF b, tasks

(* The first elements of a list                                            *)
LEMMA Shortened ==
  ASSUME NEW s, IsList(s), NEW n \in Nat, n <= Len(s)
  PROVE  /\ IsList(SubSeq(s, 1, n)) /\ Len(SubSeq(s, 1, n)) = n /\ DOMAIN SubSeq(s, 1, n) = 1 .. n
         /\ \A i \in 1 .. n : i \in DOMAIN s /\ SubSeq(s, 1, n)[i] = s[i]
<1> DEFINE U == {s[i] : i \in DOMAIN s}
<1>1. s \in Seq(U) /\ Len(s) \in Nat /\ DOMAIN s = 1 .. Len(s)
  BY DEF IsList
<1>2. \A i \in 1 .. n : i \in DOMAIN s /\ s[i] \in U
  BY <1>1
<1> HIDE DEF U
<1>3. PICK t : t = SubSeq(s, 1, n)
  OBVIOUS
<1>4. /\ t \in Seq(U) /\ Len(t) = IF 1 <= n THEN n - 1 + 1 ELSE 0
      /\ \A i \in 1 .. n - 1 + 1 : t[i] = s[1 + i - 1]
  BY <1>2, <1>3, SubSeqProperties
<1>5. Len(t) = n /\ n - 1 + 1 = n /\ \A i \in 1 .. n : 1 + i - 1 = i
  BY <1>4
<1>6. IsList(t) /\ DOMAIN t = 1 .. Len(t)
  BY <1>4, SeqIsList
<1> QED BY <1>2, <1>3, <1>4, <1>5, <1>6

(* A block ends: it leaves the locals it found.                            *)
LEMMA BlockEndFramed ==
  ASSUME NEW a, IsList(a), a # << >>, NEW locs, IsList(locs), NEW d, IsList(d.params), Framed(a, locs, d),
         a[1].op = "block"
  PROVE  /\ Framed(<< >> \o Tail(a), SubSeq(locs, 1, a[1].node.top), d) /\ << >> \o Tail(a) # << >>
         /\ a[1].node.top \in Nat /\ a[1].node.top <= Len(locs)
<1> DEFINE b == << >> \o Tail(a)
           n == Len(a)
           p == Len(d.params)
           k == Len(locs)
           top == a[1].node.top
           l2 == SubSeq(locs, 1, top)
<1>1. /\ n \in Nat /\ DOMAIN a = 1 .. n /\ p \in Nat /\ k \in Nat
      /\ n > 1 /\ a[n - 1].op = "block" /\ a[n - 1].node.top = p /\ p <= k /\ top \in p .. k
      /\ \A i \in DOMAIN a : a[i].op \notin {"param", "body"}
  BY FrameHead
<1>2. top \in Nat /\ top <= k /\ p <= top
  BY <1>1
<1> HIDE DEF top
<1>3. Len(l2) = top /\ \A i \in 1 .. top : l2[i] = locs[i]
  BY <1>2, Shortened
<1>4. Len(b) = n - 1 /\ DOMAIN b = 1 .. n - 1 /\ \A i \in 1 .. n - 1 : b[i] = a[i + 1]
  <2>1. b = Tail(a)
    <3>1. IsList(Tail(a))
      BY Rest
    <3> QED BY <3>1, JoinedToNothing
  <2> HIDE DEF b
  <2> QED BY <2>1, Rest
<1>5. /\ a[n] = Task("funcend", d) /\ \A i \in DOMAIN a : a[i].op = "funcend" => i = n
      /\ \A i \in DOMAIN a : a[i].op = "block" =>
           /\ a[i].node.top \in p .. k
           /\ \A j \in DOMAIN a : a[j].op = "block" /\ i < j => a[j].node.top <= a[i].node.top
      /\ \A i \in 1 .. p : i <= k => locs[i].name = d.params[i].name
  BY DEF Framed
<1> HIDE DEF b, n, p, k, l2
<1>6. n \in Nat /\ n > 1 /\ p \in Nat /\ k \in Nat /\ p <= k /\ DOMAIN b = 1 .. n - 1
  BY <1>1, <1>4
<1>7. \A i \in DOMAIN b : i \in Int /\ i + 1 \in DOMAIN a /\ b[i] = a[i + 1] /\ 1 < i + 1
  BY <1>1, <1>4, <1>6
<1>8. b[n - 1] = Task("funcend", d)
  <2>1. n - 1 \in DOMAIN b /\ (n - 1) + 1 = n
    BY <1>6
  <2> QED BY <1>5, <1>7, <2>1
<1>9. ASSUME NEW i \in DOMAIN b
      PROVE  (b[i].op = "funcend" => i = n - 1) /\ b[i].op \notin {"body", "param"}
  <2>1. i \in Int /\ i + 1 \in DOMAIN a /\ b[i] = a[i + 1]
    BY <1>7
  <2>2. a[i + 1].op = "funcend" => i + 1 = n
    BY <1>5, <2>1
  <2> QED BY <1>1, <1>6, <2>1, <2>2
<1>10. ASSUME n - 1 > 1 PROVE b[n - 1 - 1].op = "block" /\ b[n - 1 - 1].node.top = p
  <2>1. n - 1 - 1 \in DOMAIN b /\ n - 1 - 1 + 1 = n - 1
    BY <1>6, <1>10
  <2> QED BY <1>1, <1>7, <2>1
<1>11. ASSUME n - 1 = 1 PROVE top = p
  BY <1>1, <1>11 DEF top
<1>12. ASSUME NEW i \in DOMAIN b, b[i].op = "block"
       PROVE  /\ b[i].node.top \in p .. top
              /\ \A j \in DOMAIN b : b[j].op = "block" /\ i < j => b[j].node.top <= b[i].node.top
  <2>1. i \in Int /\ i + 1 \in DOMAIN a /\ b[i] = a[i + 1] /\ 1 < i + 1
    BY <1>7
  <2>2. a[i + 1].node.top \in p .. k
    BY <1>5, <1>12, <2>1
  <2>3. a[i + 1].node.top <= a[1].node.top
    <3>1. 1 \in DOMAIN a
      BY <1>1
    <3> QED BY <1>5, <1>12, <2>1, <3>1
  <2>4. ASSUME NEW j \in DOMAIN b, b[j].op = "block", i < j PROVE b[j].node.top <= b[i].node.top
    <3>1. j \in Int /\ j + 1 \in DOMAIN a /\ b[j] = a[j + 1]
      BY <1>7
    <3>2. i + 1 < j + 1
      BY <2>1, <2>4, <3>1
    <3> QED BY <1>5, <1>12, <2>1, <2>4, <3>1, <3>2
  <2> QED BY <1>2, <1>6, <2>1, <2>2, <2>3, <2>4 DEF top
<1>13. \A i \in DOMAIN b : ~(i <= p - top)
  BY <1>2, <1>6
<1>14. \A i \in 1 .. p : i <= top => l2[i].name = d.params[i].name
  BY <1>2, <1>3, <1>5, <1>6
<1>15. Len(b) = n - 1
  BY <1>4
<1>16. Framed(b, l2, d)
  BY <1>3, <1>8, <1>9, <1>10, <1>11, <1>12, <1>13, <1>14, <1>15 DEF Framed, p
<1>17. b # << >>
  <2>1. 1 \in DOMAIN b
    BY <1>6
  <2> QED BY <2>1
<1> QED BY <1>2, <1>16, <1>17 DEF b, l2, top, k

(* A block goes on with its next statement, or ends.                       *)
LEMMA BlockKept == ASSUME Before, CompileBlock PROVE GenInv'
<1> DEFINE d == module[pos]
           stmt == node.block.stmts[node.next]
           s == Task(stmt.kind, stmt)
           t == Task("block", [block |-> node.block, next |-> node.next + 1, top |-> node.top])
<1>1. /\ result = "running" /\ agenda # << >> /\ agenda[1].op = "block" /\ vals' = << >>
      /\ UNCHANGED <<Frame, loops, nextLocalId, nextLabel, code, strings, refs>>
      /\ \/ stmt.kind \in StatementKinds /\ agenda' = <<s, t>> \o Tail(agenda) /\ UNCHANGED <<locals, always>>
         \/ agenda' = << >> \o Tail(agenda) /\ locals' = SubSeq(locals, 1, node.top) /\ always' = FALSE
  BY DEF CompileBlock, At, Then, Done
<1>2. s.op = stmt.kind /\ t.op = "block" /\ t.node.top = agenda[1].node.top /\ node.top = agenda[1].node.top
  BY DEF Task, node
<1>3. /\ GenInv /\ NamesInv' /\ DataInv /\ IsList(agenda) /\ IsList(code) /\ IsList(locals) /\ IsList(d.params)
      /\ nextLocalId \in Nat /\ nextLabel \in Nat /\ Framed(agenda, locals, d) /\ Unwinds(agenda, loops)
  BY <1>1, FrameFacts
<1>4. Stays /\ dependencies' = dependencies /\ Depends
  BY <1>1 DEF Stays, Frame, Outside, Depends
<1>5. Callable' = Callable
  BY <1>4 DEF Callable, Implemented, Stays
<1> HIDE DEF d, s, t, stmt
<1>6. code' = code \o << >> /\ IsList(<< >>) /\ DOMAIN << >> = {}
  BY <1>1, <1>3, JoinedToNothing, ShortLists
<1>7. IsList(vals') /\ DOMAIN vals' = {}
  BY <1>1, <1>6
<1>8. /\ LoopOK(loops', nextLabel') /\ LiteralsKnown(strings', refs') /\ always \in BOOLEAN
      /\ \A i \in DOMAIN locals : locals[i].id \in Int /\ locals[i].id < nextLocalId
  BY <1>1, <1>3 DEF DataInv
<1>9. nextLocalId <= nextLocalId' /\ nextLabel <= nextLabel' /\ nextLocalId' = nextLocalId
  BY <1>1, <1>3
<1>10. \A f : ~(TaskCalls(agenda[1], f) \/ f \in ToSet(dependencies') \ ToSet(dependencies))
  BY <1>1, <1>4 DEF TaskCalls
<1>11. \A i \in DOMAIN vals' : ValueOK(vals'[i], nextLocalId')
  BY <1>7
<1>12. \A i \in DOMAIN << >> : LineOK(<< >>[i], Callable')
  BY <1>6
<1>13. CASE stmt.kind \in StatementKinds /\ agenda' = <<s, t>> \o Tail(agenda) /\ UNCHANGED <<locals, always>>
  <2> DEFINE tasks == <<s, t>>
  <2>1. Framed(agenda', locals', d) /\ Len(agenda') > 1
    <3>1. Framed(<<s, t>> \o Tail(agenda), locals, d) /\ Len(<<s, t>> \o Tail(agenda)) > 1
      BY <1>1, <1>2, <1>3, <1>13, NextStatementFramed
    <3> QED BY <1>13, <3>1
  <2>2. IsList(tasks) /\ DOMAIN tasks = 1 .. 2 /\ tasks[1] = s /\ tasks[2] = t
    BY ShortLists
  <2>3. s.op \notin {"emit", "compare", "loop", "print", "args", "callend"}
    BY <1>2, <1>13 DEF StatementKinds
  <2> HIDE DEF tasks
  <2>4. \A i \in DOMAIN tasks : TaskFit(tasks[i], nextLabel', Callable') /\ tasks[i].op # "loop"
    <3>1. TaskFit(s, nextLabel', Callable') /\ TaskFit(t, nextLabel', Callable')
      BY <1>2, <2>3 DEF TaskFit
    <3>2. \A i \in DOMAIN tasks : tasks[i] = s \/ tasks[i] = t
      BY <2>2
    <3> QED BY <1>2, <2>3, <3>1, <3>2
  <2>5. agenda' = tasks \o Tail(agenda)
    BY <1>13 DEF tasks
  <2>6. Unwinds(agenda', loops')
    <3>1. Unwinds(tasks \o Tail(agenda), loops)
      BY <1>1, <1>3, <2>2, <2>4, UnwindsStep
    <3> QED BY <1>1, <2>5, <3>1
  <2>7. IsList(locals') /\ \A i \in DOMAIN locals' : locals'[i].id \in Int /\ locals'[i].id < nextLocalId'
    BY <1>3, <1>8, <1>9, <1>13
  <2>8. always' \in BOOLEAN /\ agenda' # << >> /\ Len(agenda') # 1
    BY <1>8, <1>13, <2>1
  <2> QED BY <1>1, <1>3, <1>4, <1>6, <1>7, <1>8, <1>9, <1>10, <1>11, <1>12,
             <2>1, <2>2, <2>4, <2>5, <2>6, <2>7, <2>8, FunctionStep DEF d
<1>14. CASE agenda' = << >> \o Tail(agenda) /\ locals' = SubSeq(locals, 1, node.top) /\ always' = FALSE
  <2>1. /\ Framed(agenda', locals', d) /\ agenda' # << >>
        /\ node.top \in Nat /\ node.top <= Len(locals)
    <3>1. /\ Framed(<< >> \o Tail(agenda), SubSeq(locals, 1, agenda[1].node.top), d) /\ << >> \o Tail(agenda) # << >>
          /\ agenda[1].node.top \in Nat /\ agenda[1].node.top <= Len(locals)
      BY <1>1, <1>3, BlockEndFramed
    <3> QED BY <1>2, <1>14, <3>1
  <2>2. Unwinds(agenda', loops')
    <3>1. \A i \in DOMAIN << >> : << >>[i].op # "loop"
      BY <1>6
    <3>2. Unwinds(<< >> \o Tail(agenda), loops)
      BY <1>1, <1>3, <1>6, <3>1, UnwindsStep
    <3> QED BY <1>1, <1>14, <3>2
  <2>3. IsList(locals') /\ \A i \in DOMAIN locals' : locals'[i].id \in Int /\ locals'[i].id < nextLocalId'
    <3>1. PICK n : n = node.top
      OBVIOUS
    <3>2. /\ IsList(SubSeq(locals, 1, n)) /\ DOMAIN SubSeq(locals, 1, n) = 1 .. n
          /\ \A i \in 1 .. n : i \in DOMAIN locals /\ SubSeq(locals, 1, n)[i] = locals[i]
      BY <1>3, <2>1, <3>1, Shortened
    <3> QED BY <1>8, <1>9, <1>14, <3>1, <3>2
  <2>4. \A i \in DOMAIN << >> : TaskFit(<< >>[i], nextLabel', Callable')
    BY <1>6
  <2>5. always' \in BOOLEAN /\ (Len(agenda') = 1 => vals' = << >> /\ ~always')
    BY <1>1, <1>14
  <2> QED BY <1>1, <1>3, <1>4, <1>6, <1>7, <1>8, <1>9, <1>10, <1>11, <1>12, <1>14,
             <2>1, <2>2, <2>3, <2>4, <2>5, FunctionStep DEF d
<1> QED BY <1>1, <1>13, <1>14

(* The end of a function: its text joins the output, where none of this    *)
(* name was.                                                               *)
LEMMA FunctionEndKept == ASSUME Before, FunctionEnd PROVE GenInv'
<1> DEFINE d == module[pos]
           last == IF node.ret = tVoid /\ ~node.body.exits THEN <<Line("ret", Nowhere, << >>, << >>)>> ELSE << >>
           text == code \o last
           Compiled(k) == {module[i].name : i \in {j \in DOMAIN module : j < k /\ HasBody(module[j])}}
<1>1. /\ result = "running" /\ agenda # << >> /\ agenda[1].op = "funcend" /\ agenda' = << >> \o Tail(agenda)
      /\ output' = [f \in DOMAIN output \cup {node.name} |-> IF f = node.name THEN text ELSE output[f]]
      /\ pos' = pos + 1
      /\ UNCHANGED <<module, result, tables, vals, always, loops, locals, nextLocalId, nextLabel, code>>
  BY DEF FunctionEnd, At, Then, Done, WithFunction
<1>2. /\ NamesInv /\ NamesInv' /\ DataInv /\ ContextInv /\ CalleesInv
      /\ IsList(agenda) /\ IsList(code) /\ IsList(locals) /\ IsList(d.params)
      /\ Framed(agenda, locals, d) /\ Unwinds(agenda, loops) /\ pos \in DOMAIN module /\ HasBody(d)
  BY <1>1, FrameFacts
<1>3. DOMAIN agenda = {1} /\ agenda' = << >> /\ Len(agenda) = 1 /\ node = d
  <2> HIDE DEF d
  <2>1. Len(agenda) = 1 /\ DOMAIN agenda = 1 .. 1 /\ agenda[1].node = d
    BY <1>1, <1>2, FrameHead
  <2>2. IsList(Tail(agenda)) /\ Len(Tail(agenda)) = 0 /\ DOMAIN Tail(agenda) = 1 .. 0
    <3>1. IsList(Tail(agenda)) /\ Len(Tail(agenda)) = Len(agenda) - 1 /\ DOMAIN Tail(agenda) = 1 .. Len(agenda) - 1
      BY <1>1, <1>2, Rest
    <3> QED BY <2>1, <3>1
  <2>3. Tail(agenda) = << >>
    BY <2>2, Rest
  <2>4. << >> \o << >> = << >>
    BY ShortLists, JoinedToNothing
  <2> QED BY <1>1, <2>1, <2>3, <2>4 DEF node
<1>4. vals = << >> /\ ~always /\ loops = NoLoop
  <2>1. vals = << >> /\ ~always
    BY <1>1, <1>2, <1>3 DEF ContextInv
  <2>2. loops = NoLoop
    BY <1>1, <1>2, <1>3 DEF Unwinds
  <2> QED BY <2>1, <2>2
<1>5. Callable' = Callable /\ Implemented' = Implemented
  BY <1>1 DEF Callable, Implemented, tables
<1>6. IsList(module) /\ Len(module) \in Nat /\ DOMAIN module = 1 .. Len(module)
  <2>1. IsList(module)
    BY <1>2, ModulesAreLists DEF NamesInv
  <2> QED BY <2>1 DEF IsList
<1>7. IsList(last) /\ \A i \in DOMAIN last : LineOK(last[i], Callable)
  <2>1. LineOK(Line("ret", Nowhere, << >>, << >>), Callable)
    BY ShortLists, PrintableLines
  <2>2. IsList(<< >>) /\ DOMAIN << >> = {}
    BY ShortLists
  <2>3. LET l == <<Line("ret", Nowhere, << >>, << >>)>> IN IsList(l) /\ \A i \in DOMAIN l : LineOK(l[i], Callable)
    BY <2>1, ShortLists
  <2> QED BY <2>2, <2>3
<1>8. IsList(text) /\ \A i \in DOMAIN text : LineOK(text[i], Callable)
  <2> HIDE DEF last
  <2>1. \A i \in DOMAIN code : LineOK(code[i], Callable)
    BY <1>2 DEF DataInv
  <2>2. IsList(code \o last)
    BY <1>2, <1>7, Joined
  <2>3. \A i \in DOMAIN (code \o last) : LineOK((code \o last)[i], Callable)
    BY <1>2, <1>7, <2>1, JoinedLines
  <2> QED BY <2>2, <2>3
<1>9. \A f : LineCalls(code, f) => LineCalls(text, f)
  <2> HIDE DEF last
  <2> QED BY <1>2, <1>7, JoinedCalls
<1> HIDE DEF text, last
<1>10. /\ DOMAIN output' = DOMAIN output \cup {d.name} /\ output'[d.name] = text
       /\ \A f \in DOMAIN output : f # d.name => output'[f] = output[f]
  BY <1>1, <1>3
<1>11. DataInv'
  <2>1. \A f \in DOMAIN output' : IsList(output'[f]) /\ \A i \in DOMAIN output'[f] : LineOK(output'[f][i], Callable')
    <3>1. \A f \in DOMAIN output : IsList(output[f]) /\ \A i \in DOMAIN output[f] : LineOK(output[f][i], Callable)
      BY <1>2 DEF DataInv
    <3>2. ASSUME NEW f \in DOMAIN output'
          PROVE  IsList(output'[f]) /\ \A i \in DOMAIN output'[f] : LineOK(output'[f][i], Callable')
      <4>1. output'[f] = text \/ (f \in DOMAIN output /\ output'[f] = output[f])
        BY <1>10
      <4> QED BY <1>5, <1>8, <3>1, <4>1
    <3> QED BY <3>2
  <2>2. DOMAIN agenda' = {}
    BY <1>3
  <2>3. LiteralsKnown(strings', refs') /\ \A i \in DOMAIN code' : LineOK(code'[i], Callable')
    BY <1>1, <1>2, <1>5 DEF DataInv, tables
  <2>4. /\ IsList(locals') /\ \A i \in DOMAIN locals' : locals'[i].id \in Int /\ locals'[i].id < nextLocalId'
        /\ IsList(vals') /\ \A i \in DOMAIN vals' : ValueOK(vals'[i], nextLocalId')
        /\ LoopOK(loops', nextLabel') /\ always' \in BOOLEAN
    BY <1>1, <1>2 DEF DataInv
  <2>5. /\ IsList(dependencies') /\ ToSet(dependencies') \cap Implemented' = {}
        /\ \A i, j \in DOMAIN dependencies' : dependencies'[i] = dependencies'[j] => i = j
    BY <1>1, <1>2, <1>5 DEF DataInv, tables
  <2> QED BY <2>1, <2>2, <2>3, <2>4, <2>5 DEF DataInv
<1>12. ContextInv'
  <2>1. Len(module') = Len(module) /\ pos' \in 0 .. Len(module') + 1 /\ result' = "running"
    BY <1>1, <1>2, <1>6
  <2>2. vals' = << >> /\ ~always' /\ loops' = NoLoop /\ agenda' = << >>
    BY <1>1, <1>3, <1>4
  <2> QED BY <2>1, <2>2 DEF ContextInv
<1>13. CalleesInv'
  <2>1. /\ DOMAIN output = Compiled(pos)
        /\ \A f \in ToSet(dependencies) :
             \/ \E g \in DOMAIN output : LineCalls(output[g], f)
             \/ agenda # << >> /\ (LineCalls(code, f) \/ \E i \in DOMAIN agenda : TaskCalls(agenda[i], f))
    BY <1>1, <1>2 DEF CalleesInv
  <2>2. d.name \notin DOMAIN output
    <3> SUFFICES ASSUME d.name \in Compiled(pos) PROVE FALSE
      BY <2>1
    <3>1. PICK j \in DOMAIN module : j < pos /\ HasBody(module[j]) /\ module[j].name = d.name
      OBVIOUS
    <3>2. j = pos
      BY <1>2, <3>1, BodiesAreUnique DEF HasBody, NamesInv
    <3> QED BY <1>2, <1>6, <3>1, <3>2
  <2>3. DOMAIN output' = Compiled(pos')
    <3>1. \A j \in DOMAIN module : j < pos + 1 <=> j < pos \/ j = pos
      BY <1>2, <1>6
    <3>2. {j \in DOMAIN module : j < pos + 1 /\ HasBody(module[j])}
            = {j \in DOMAIN module : j < pos /\ HasBody(module[j])} \cup {pos}
      BY <1>2, <3>1
    <3>3. Compiled(pos + 1) = Compiled(pos) \cup {d.name}
      BY <3>2
    <3> QED BY <1>1, <1>10, <2>1, <3>3
  <2>4. ASSUME NEW f \in ToSet(dependencies) PROVE \E g \in DOMAIN output' : LineCalls(output'[g], f)
    <3>1. ~\E i \in DOMAIN agenda : TaskCalls(agenda[i], f)
      BY <1>1, <1>3 DEF TaskCalls
    <3>2. CASE \E g \in DOMAIN output : LineCalls(output[g], f)
      BY <1>10, <2>2, <3>2
    <3>3. CASE LineCalls(code, f)
      BY <1>9, <1>10, <3>3
    <3> QED BY <2>1, <3>1, <3>2, <3>3
  <2>5. module' = module /\ dependencies' = dependencies
    BY <1>1 DEF tables
  <2> QED BY <2>3, <2>4, <2>5 DEF CalleesInv, HasBody
<1> QED BY <1>2, <1>11, <1>12, <1>13 DEF GenInv

\* The agenda of a function that starts
StartOf(d, ps, init, t) == ps \o init \o <<t, Task("funcend", d)>>

(* What a function starts with: its parameters, the call of Init if it is   *)
(* the entry, its body and its end                                         *)
LEMMA StartFramed ==
  ASSUME NEW d, IsList(d.params), NEW ps, IsList(ps), Len(ps) = Len(d.params),
         \A i \in DOMAIN ps : ps[i].op = "param" /\ ps[i].node.name = d.params[i].name,
         NEW init, IsList(init), \A i \in DOMAIN init : init[i].op = "emit",
         NEW t, t.op = "body"
  PROVE  LET b == StartOf(d, ps, init, t)
         IN  /\ Framed(b, << >>, d) /\ b # << >> /\ Len(b) > 1
             /\ \A i \in DOMAIN b : \/ \E j \in DOMAIN ps : b[i] = ps[j]
                                    \/ \E j \in DOMAIN init : b[i] = init[j]
                                    \/ b[i] = t \/ b[i] = Task("funcend", d)
<1> DEFINE front == ps \o init
           e == Task("funcend", d)
           rest == <<t, e>>
           a == front \o rest
           p == Len(ps)
           q == p + Len(init)
<1>1. /\ IsList(front) /\ p \in Nat /\ Len(init) \in Nat /\ DOMAIN ps = 1 .. p /\ DOMAIN front = 1 .. q
      /\ \A i \in 1 .. p : front[i] = ps[i]
      /\ \A i \in 1 .. q : i > p => front[i] = init[i - p] /\ i - p \in DOMAIN init
  BY Joined, ZenonT(40)
<1>2. e.op = "funcend"
  BY DEF Task
<1> HIDE DEF e
<1>3. IsList(rest) /\ Len(rest) = 2 /\ DOMAIN rest = 1 .. 2 /\ rest[1] = t /\ rest[2] = e
  BY ShortLists
<1> HIDE DEF front, rest
<1>4. q \in Nat /\ p <= q /\ Len(front) = q
  <2>1. Len(front) \in Nat /\ DOMAIN front = 1 .. Len(front)
    BY <1>1 DEF IsList
  <2>2. q \in Nat /\ p <= q
    BY <1>1
  <2>3. \A x, y \in Nat : 1 .. x = 1 .. y => x = y
    <3>1. \A x, y \in Nat : x > y => x \in 1 .. x /\ x \notin 1 .. y
      OBVIOUS
    <3> QED BY <3>1
  <2> HIDE DEF q
  <2> QED BY <1>1, <2>1, <2>2, <2>3
<1>5. /\ IsList(a) /\ DOMAIN a = 1 .. q + 2 /\ Len(a) = q + 2
      /\ \A i \in 1 .. q : a[i] = front[i]
      /\ a[q + 1] = t /\ a[q + 2] = e
  <2> HIDE DEF q
  <2>0. IsList(front) /\ IsList(rest)
    BY <1>1, <1>3
  <2>1. /\ IsList(a) /\ DOMAIN a = 1 .. Len(front) + Len(rest) /\ Len(front) \in Nat
        /\ \A i \in 1 .. Len(front) : a[i] = front[i]
        /\ \A i \in 1 .. Len(front) + Len(rest) : i > Len(front) => a[i] = rest[i - Len(front)]
    BY <2>0, Joined
  <2> HIDE DEF a
  <2>2. DOMAIN a = 1 .. q + 2 /\ \A i \in 1 .. q + 2 : i > q => a[i] = rest[i - q]
    BY <1>3, <1>4, <2>1
  <2>3. a[q + 1] = t /\ a[q + 2] = e
    <3>1. q + 1 \in 1 .. q + 2 /\ q + 2 \in 1 .. q + 2 /\ q + 1 > q /\ q + 2 > q /\ (q + 1) - q = 1 /\ (q + 2) - q = 2
      BY <1>4
    <3> QED BY <1>3, <2>2, <3>1
  <2>4. Len(a) = q + 2
    <3>1. Len(a) \in Nat /\ DOMAIN a = 1 .. Len(a)
      BY <2>1 DEF IsList
    <3>2. \A x, y \in Nat : x > y => x \in 1 .. x /\ x \notin 1 .. y
      OBVIOUS
    <3>3. q + 2 \in Nat /\ 1 .. Len(a) = 1 .. q + 2
      BY <1>4, <2>2, <3>1
    <3>4. ~(Len(a) > q + 2) /\ ~(q + 2 > Len(a))
      BY <3>1, <3>2, <3>3
    <3> QED BY <3>1, <3>3, <3>4
  <2> QED BY <1>4, <2>1, <2>2, <2>3, <2>4
<1> HIDE DEF a
<1>6. ASSUME NEW i \in DOMAIN a
      PROVE  /\ i \in Int
             /\ \/ i <= p /\ i \in DOMAIN ps /\ a[i] = ps[i] /\ a[i].op = "param"
                \/ i > p /\ i <= q /\ a[i].op = "emit" /\ \E j \in DOMAIN init : a[i] = init[j]
                \/ i = q + 1 /\ a[i] = t
                \/ i = q + 2 /\ a[i] = e
  <2>1. i \in Int /\ i >= 1 /\ i <= q + 2
    BY <1>4, <1>5
  <2>2. CASE i <= p
    <3>1. i \in 1 .. p /\ i \in 1 .. q /\ i \in DOMAIN ps
      BY <1>1, <1>4, <2>1, <2>2
    <3> QED BY <1>1, <1>5, <2>1, <2>2, <3>1
  <2>3. CASE i > p /\ i <= q
    <3>1. i \in 1 .. q
      BY <1>1, <1>4, <2>1, <2>3
    <3>2. a[i] = init[i - p] /\ i - p \in DOMAIN init
      BY <1>1, <1>5, <2>3, <3>1
    <3> QED BY <2>1, <2>3, <3>2
  <2>4. i <= p \/ (i > p /\ i <= q) \/ i = q + 1 \/ i = q + 2
    <3>1. \A x, y, z \in Int : z <= y + 2 => z <= x \/ (z > x /\ z <= y) \/ z = y + 1 \/ z = y + 2
      OBVIOUS
    <3>2. p \in Int /\ q \in Int
      BY <1>1, <1>4
    <3> QED BY <2>1, <3>1, <3>2
  <2> QED BY <1>5, <2>1, <2>2, <2>3, <2>4
<1>7. q + 2 - 1 = q + 1 /\ q + 2 > 1 /\ q + 2 # 1 /\ p >= 0 /\ 0 + p = p /\ p - 0 = p
  BY <1>1, <1>4
<1>8. Len(<< >>) = 0 /\ Len(d.params) = p
  OBVIOUS
<1> HIDE DEF p, q
<1>9. /\ a[q + 2] = e
      /\ \A i \in DOMAIN a : a[i].op = "funcend" => i = q + 2
      /\ \A i \in DOMAIN a : a[i].op = "body" => i = q + 1
      /\ \A i \in DOMAIN a : a[i].op # "block"
  BY <1>2, <1>5, <1>6
<1>10. /\ a[q + 1].op = "body"
       /\ \A i \in DOMAIN a : i < q + 1 => a[i].op \in {"param", "emit"}
  <2>1. ASSUME NEW i \in DOMAIN a, i < q + 1 PROVE a[i].op \in {"param", "emit"}
    <3>1. ~(i = q + 1) /\ ~(i = q + 2)
      BY <1>4, <1>6, <2>1
    <3> QED BY <1>6, <3>1
  <2> QED BY <1>5, <2>1
<1>11. \A i \in DOMAIN a : a[i].op = "param" <=> i <= p
  <2>1. ASSUME NEW i \in DOMAIN a PROVE a[i].op = "param" <=> i <= p
    <3>1. CASE i <= p /\ i \in DOMAIN ps /\ a[i] = ps[i] /\ a[i].op = "param"
      BY <3>1
    <3>2. CASE i > p /\ i <= q /\ a[i].op = "emit"
      BY <1>1, <1>6, <3>2
    <3>3. CASE i = q + 1 /\ a[i] = t
      BY <1>1, <1>4, <3>3
    <3>4. CASE i = q + 2 /\ a[i] = e
      BY <1>1, <1>2, <1>4, <3>4
    <3> QED BY <1>6, <3>1, <3>2, <3>3, <3>4
  <2> QED BY <2>1
<1>12. \A i \in DOMAIN a : a[i].op = "param" => a[i].node.name = d.params[0 + i].name
  <2>1. ASSUME NEW i \in DOMAIN a, a[i].op = "param" PROVE a[i].node.name = d.params[0 + i].name
    <3>1. i <= p /\ i \in Int /\ 0 + i = i
      BY <1>6, <1>11, <2>1
    <3>2. i \in DOMAIN ps /\ a[i] = ps[i]
      <4>1. ~(i > p) /\ ~(i = q + 1) /\ ~(i = q + 2)
        BY <1>1, <1>4, <3>1
      <4> QED BY <1>6, <4>1
    <3> QED BY <3>1, <3>2
  <2> QED BY <2>1
<1>13. \A i \in 1 .. p : ~(i <= 0)
  BY <1>1
<1>14. Framed(a, << >>, d)
  <2>1. /\ a[Len(a)] = Task("funcend", d) /\ Len(a) = q + 2 /\ Len(a) - 1 = q + 1
    BY <1>4, <1>5, <1>9 DEF e
  <2>2. 0 <= p /\ p - 0 = p
    BY <1>7
  <2> QED BY <1>7, <1>8, <1>9, <1>10, <1>11, <1>12, <1>13, <2>1, <2>2 DEF Framed
<1>15. \A i \in DOMAIN a : \/ \E j \in DOMAIN ps : a[i] = ps[j]
                           \/ \E j \in DOMAIN init : a[i] = init[j]
                           \/ a[i] = t \/ a[i] = e
  BY <1>6
<1>16. a # << >> /\ Len(a) > 1
  BY <1>5, <1>7
<1> QED BY <1>5, <1>14, <1>15, <1>16 DEF a, front, rest, e, StartOf

(* The next definition: a function that has a body, or anything else       *)
LEMMA DefinitionKept == ASSUME Before, CompileDefinition PROVE GenInv'
<1> DEFINE d == module[pos]
           Compiled(k) == {module[i].name : i \in {j \in DOMAIN module : j < k /\ HasBody(module[j])}}
           ps == [i \in DOMAIN d.params |->
                    Task("param", [name |-> d.params[i].name, type |-> d.params[i].type, index |-> i - 1])]
           init == IF d.entry THEN <<Lines(<<CallStmt("Init", << >>)>>)>> ELSE << >>
           t == Task("body", d.body)
           e == Task("funcend", d)
           First == /\ agenda' = ps \o init \o <<t, e>> /\ UNCHANGED pos
                    /\ locals' = << >> /\ nextLocalId' = 0 /\ nextLabel' = 0 /\ code' = << >>
           Skipped == pos' = pos + 1 /\ UNCHANGED <<agenda, locals, nextLocalId, nextLabel, code>>
<1>0. (HasBody(d) /\ First) \/ (~HasBody(d) /\ Skipped)
  BY DEF CompileDefinition, HasBody
<1> HIDE DEF ps, init, t, e, First, Skipped
<1>1. /\ result = "running" /\ agenda = << >> /\ pos \in 1 .. Len(module)
      /\ UNCHANGED <<module, output, result, dependencies, strings, refs, vals, always, loops>>
  BY DEF CompileDefinition, tables
<1>2. NamesInv /\ NamesInv' /\ DataInv /\ ContextInv /\ CalleesInv
  BY DEF Before, GenInv
<1>3. /\ IsList(module) /\ Len(module) \in Nat /\ DOMAIN module = 1 .. Len(module) /\ pos \in DOMAIN module
      /\ d.def = "func" => IsList(d.params)
  <2>1. IsList(module) /\ \A i \in DOMAIN module : module[i].def = "func" => IsList(module[i].params)
    BY <1>2, ModulesAreLists DEF NamesInv
  <2>2. Len(module) \in Nat /\ DOMAIN module = 1 .. Len(module)
    BY <2>1 DEF IsList
  <2> QED BY <1>1, <2>1, <2>2
<1>4. vals = << >> /\ ~always /\ loops = NoLoop
  BY <1>1, <1>2 DEF ContextInv
<1>5. Callable' = Callable /\ Implemented' = Implemented
  BY <1>1 DEF Callable, Implemented
<1>6. /\ DOMAIN output = Compiled(pos)
      /\ \A f \in ToSet(dependencies) : \E g \in DOMAIN output : LineCalls(output[g], f)
  BY <1>1, <1>2 DEF CalleesInv
<1>7. /\ \A f \in DOMAIN output' : IsList(output'[f]) /\ \A i \in DOMAIN output'[f] : LineOK(output'[f][i], Callable')
      /\ IsList(dependencies') /\ ToSet(dependencies') \cap Implemented' = {}
      /\ \A i, j \in DOMAIN dependencies' : dependencies'[i] = dependencies'[j] => i = j
      /\ LiteralsKnown(strings', refs') /\ always' \in BOOLEAN /\ IsList(vals')
      /\ DOMAIN vals' = {}
  <2>1. DOMAIN << >> = {}
    BY ShortLists
  <2> QED BY <1>1, <1>2, <1>4, <1>5, <2>1 DEF DataInv
<1>8. CASE HasBody(d)
  <2>1. /\ agenda' = ps \o init \o <<t, e>> /\ UNCHANGED pos
        /\ locals' = << >> /\ nextLocalId' = 0 /\ nextLabel' = 0 /\ code' = << >>
    BY <1>0, <1>8 DEF First
  <2>2. IsList(d.params) /\ Len(d.params) \in Nat /\ DOMAIN d.params = 1 .. Len(d.params)
    <3>1. IsList(d.params)
      BY <1>3, <1>8 DEF HasBody
    <3> QED BY <3>1 DEF IsList
  <2> HIDE DEF d
  <2>3. \A i \in DOMAIN ps : ps[i].op = "param" /\ ps[i].node.name = d.params[i].name
    BY DEF Task, ps
  <2>4. DOMAIN ps = 1 .. Len(d.params)
    BY <2>2 DEF ps
  <2>5. IsList(ps) /\ Len(ps) = Len(d.params)
    <3>1. PICK n : n = Len(d.params)
      OBVIOUS
    <3>2. n \in Nat /\ DOMAIN ps = 1 .. n
      BY <2>2, <2>4, <3>1
    <3>3. ps = [i \in 1 .. n |-> ps[i]]
      <4>1. ps = [i \in DOMAIN ps |-> ps[i]]
        BY DEF ps
      <4> QED BY <3>2, <4>1
    <3>4. IsList(ps)
      BY <3>2, <3>3, FunctionIsList
    <3>5. Len(ps) \in Nat /\ DOMAIN ps = 1 .. Len(ps)
      BY <3>4 DEF IsList
    <3>6. \A x, y \in Nat : x > y => x \in 1 .. x /\ x \notin 1 .. y
      OBVIOUS
    <3>7. ~(Len(ps) > n) /\ ~(n > Len(ps))
      BY <3>2, <3>5, <3>6
    <3> QED BY <3>1, <3>2, <3>4, <3>5, <3>7
  <2>6. /\ IsList(init)
        /\ \A i \in DOMAIN init : init[i].op = "emit" /\ TaskFit(init[i], 0, Callable)
    <3> DEFINE lines == <<CallStmt("Init", << >>)>>
               o == Lines(lines)
    <3>1. LineOK(CallStmt("Init", << >>), Callable)
      <4>1. "Init" \in Callable
        BY DEF Callable, Routines
      <4> QED BY <4>1, ShortLists, PrintableLines DEF CallStmt
    <3>2. IsList(lines) /\ \A i \in DOMAIN lines : LineOK(lines[i], Callable)
      BY <3>1, ShortLists
    <3> HIDE DEF lines
    <3>3. o.op = "emit" /\ o.node = lines
      BY DEF Lines, Task
    <3> HIDE DEF o
    <3>4. TaskFit(o, 0, Callable)
      BY <3>2, <3>3 DEF TaskFit
    <3>5. IsList(<<o>>) /\ (\A i \in DOMAIN <<o>> : <<o>>[i] = o) /\ IsList(<< >>) /\ DOMAIN << >> = {}
      BY ShortLists
    <3>6. init = <<o>> \/ init = << >>
      BY DEF init, o, lines
    <3> QED BY <3>3, <3>4, <3>5, <3>6
  <2>7. t.op = "body" /\ e.op = "funcend" /\ e = Task("funcend", d)
    BY DEF Task, t, e
  <2>8. /\ Framed(agenda', << >>, d) /\ agenda' # << >> /\ Len(agenda') > 1
        /\ \A i \in DOMAIN agenda' : \/ \E j \in DOMAIN ps : agenda'[i] = ps[j]
                                     \/ \E j \in DOMAIN init : agenda'[i] = init[j]
                                     \/ agenda'[i] = t \/ agenda'[i] = e
    <3>1. /\ IsList(d.params) /\ IsList(ps) /\ Len(ps) = Len(d.params) /\ IsList(init) /\ t.op = "body"
          /\ \A i \in DOMAIN ps : ps[i].op = "param" /\ ps[i].node.name = d.params[i].name
          /\ \A i \in DOMAIN init : init[i].op = "emit"
      BY <2>2, <2>3, <2>5, <2>6, <2>7
    <3>2. agenda' = StartOf(d, ps, init, t)
      BY <2>1, <2>7 DEF StartOf
    <3>3. PICK cd, cps, cinit, ct, a : cd = d /\ cps = ps /\ cinit = init /\ ct = t /\ a = agenda'
      OBVIOUS
    <3>4. /\ IsList(cd.params) /\ IsList(cps) /\ Len(cps) = Len(cd.params) /\ IsList(cinit) /\ ct.op = "body"
          /\ \A i \in DOMAIN cps : cps[i].op = "param" /\ cps[i].node.name = cd.params[i].name
          /\ \A i \in DOMAIN cinit : cinit[i].op = "emit"
      BY <3>1, <3>3
    <3>5. a = StartOf(cd, cps, cinit, ct)
      BY <3>2, <3>3
    <3>6. /\ Framed(a, << >>, cd) /\ a # << >> /\ Len(a) > 1
          /\ \A i \in DOMAIN a : \/ \E j \in DOMAIN cps : a[i] = cps[j]
                                 \/ \E j \in DOMAIN cinit : a[i] = cinit[j]
                                 \/ a[i] = ct \/ a[i] = Task("funcend", cd)
      BY <3>4, <3>5, StartFramed
    <3>7. Framed(agenda', << >>, d) /\ agenda' # << >> /\ Len(agenda') > 1
      BY <3>3, <3>6
    <3>8. ASSUME NEW i \in DOMAIN agenda'
          PROVE  \/ \E j \in DOMAIN ps : agenda'[i] = ps[j]
                 \/ \E j \in DOMAIN init : agenda'[i] = init[j]
                 \/ agenda'[i] = t \/ agenda'[i] = e
      <4>1. \/ \E j \in DOMAIN cps : a[i] = cps[j]
            \/ \E j \in DOMAIN cinit : a[i] = cinit[j]
            \/ a[i] = ct \/ a[i] = Task("funcend", cd)
        BY <3>3, <3>6
      <4> QED BY <2>7, <3>3, <4>1
    <3> QED BY <3>7, <3>8
  <2>9. \A i \in DOMAIN agenda' : TaskFit(agenda'[i], 0, Callable) /\ agenda'[i].op # "loop"
    <3>1. \A x : x.op \in {"param", "body", "funcend"} => TaskFit(x, 0, Callable)
      BY DEF TaskFit
    <3> QED BY <2>3, <2>6, <2>7, <2>8, <3>1
  <2>10. DataInv'
    <3>1. LoopOK(NoLoop, 0)
      BY DEF LoopOK, NoLoop
    <3>2. LoopOK(loops', nextLabel') /\ \A i \in DOMAIN agenda' : TaskFit(agenda'[i], nextLabel', Callable')
      BY <1>1, <1>4, <1>5, <2>1, <2>9, <3>1
    <3>3. IsList(<< >>) /\ DOMAIN << >> = {}
      BY ShortLists
    <3>4. IsList(locals') /\ DOMAIN locals' = {} /\ DOMAIN code' = {}
      BY <2>1, <3>3
    <3> QED BY <1>7, <3>2, <3>4 DEF DataInv
  <2>11. ContextInv'
    <3>1. /\ module' = module /\ pos' = pos /\ result' = "running" /\ pos \in 0 .. Len(module) + 1
          /\ pos' \in DOMAIN module' /\ HasBody(module'[pos']) /\ module'[pos'] = d /\ locals' = << >>
      BY <1>1, <1>3, <1>8, <2>1 DEF d
    <3>2. vals' = << >> /\ ~always'
      BY <1>1, <1>4
    <3>3. Unwinds(agenda', loops')
      BY <1>1, <1>4, <2>9 DEF Unwinds
    <3>4. Framed(agenda', locals', module'[pos'])
      BY <2>8, <3>1
    <3> QED BY <2>8, <3>1, <3>2, <3>3, <3>4 DEF ContextInv
  <2>12. CalleesInv'
    BY <1>1, <1>6, <2>1 DEF CalleesInv
  <2> QED BY <1>2, <2>10, <2>11, <2>12 DEF GenInv
<1>9. CASE ~HasBody(d)
  <2>1. pos' = pos + 1 /\ UNCHANGED <<agenda, locals, nextLocalId, nextLabel, code>>
    BY <1>0, <1>9 DEF Skipped
  <2>2. DataInv'
    BY <1>1, <1>2, <1>5, <1>7, <2>1 DEF DataInv
  <2>3. ContextInv'
    <3>1. pos' \in 0 .. Len(module') + 1 /\ agenda' = << >> /\ result' = "running"
      BY <1>1, <1>3, <2>1
    <3>2. vals' = << >> /\ ~always' /\ loops' = NoLoop
      BY <1>1, <1>4
    <3> QED BY <3>1, <3>2 DEF ContextInv
  <2>4. CalleesInv'
    <3>1. {j \in DOMAIN module : j < pos + 1 /\ HasBody(module[j])} = {j \in DOMAIN module : j < pos /\ HasBody(module[j])}
      BY <1>3, <1>9
    <3>2. Compiled(pos + 1) = Compiled(pos)
      BY <3>1
    <3> QED BY <1>1, <1>6, <2>1, <3>2 DEF CalleesInv, HasBody
  <2> QED BY <1>2, <2>2, <2>3, <2>4 DEF GenInv
<1> QED BY <1>8, <1>9

(* Where nothing changes but the position, the outcome and the agenda      *)
LEMMA DataAlone ==
  ASSUME DataInv, agenda' = agenda \/ agenda' = << >>,
         UNCHANGED <<module, vals, always, loops, locals, nextLocalId, nextLabel, code, output, dependencies, strings, refs>>
  PROVE  DataInv'
<1>1. Callable' = Callable /\ Implemented' = Implemented
  BY DEF Callable, Implemented
<1>2. \A i \in DOMAIN agenda' : TaskFit(agenda'[i], nextLabel', Callable')
  <2>1. DOMAIN << >> = {}
    BY ShortLists
  <2> QED BY <1>1, <2>1 DEF DataInv
<1> QED BY <1>1, <1>2 DEF DataInv

(* Before the first definition, after the last one, and when it fails      *)
LEMMA EndsKept == ASSUME Before, Start \/ Finish \/ Failure PROVE GenInv'
<1>1. NamesInv /\ NamesInv' /\ DataInv /\ ContextInv /\ CalleesInv
  BY DEF Before, GenInv
<1>2. IsList(module) /\ Len(module) \in Nat /\ DOMAIN module = 1 .. Len(module)
  <2>1. IsList(module)
    BY <1>1, ModulesAreLists DEF NamesInv
  <2> QED BY <2>1 DEF IsList
<1>3. CASE Start
  <2>1. /\ result = "running" /\ pos = 0 /\ pos' = 1
        /\ UNCHANGED <<module, agenda, vals, always, loops, locals, nextLocalId, nextLabel, code, output,
                       dependencies, strings, refs, result>>
    BY <1>3 DEF Start, tables
  <2>2. agenda = << >>
    BY <1>1, <1>2, <2>1 DEF ContextInv
  <2>3. DataInv'
    BY <1>1, <2>1, DataAlone
  <2>4. ContextInv'
    BY <1>1, <1>2, <2>1, <2>2 DEF ContextInv
  <2>5. CalleesInv'
    <3>1. \A j \in DOMAIN module : ~(j < 1) /\ ~(j < 0)
      BY <1>2
    <3>2. {j \in DOMAIN module : j < 1 /\ HasBody(module[j])} = {j \in DOMAIN module : j < 0 /\ HasBody(module[j])}
      BY <3>1
    <3> QED BY <1>1, <2>1, <2>2, <3>2 DEF CalleesInv, HasBody
  <2> QED BY <1>1, <2>3, <2>4, <2>5 DEF GenInv
<1>4. CASE Finish
  <2>1. /\ result = "running" /\ agenda = << >> /\ pos > Len(module) /\ result' = "SUCCESS"
        /\ UNCHANGED <<module, pos, agenda, vals, always, loops, locals, nextLocalId, nextLabel, code, output,
                       dependencies, strings, refs>>
    BY <1>4 DEF Finish, tables
  <2>2. DataInv'
    BY <1>1, <2>1, DataAlone
  <2>3. ContextInv'
    <3>1. pos \in 0 .. Len(module) + 1
      BY <1>1 DEF ContextInv
    <3>2. pos = Len(module) + 1
      BY <1>2, <2>1, <3>1
    <3> QED BY <2>1, <3>1, <3>2 DEF ContextInv
  <2>4. CalleesInv'
    BY <1>1, <2>1 DEF CalleesInv, HasBody
  <2> QED BY <1>1, <2>2, <2>3, <2>4 DEF GenInv
<1>5. CASE Failure
  <2>1. \E outcome \in {"WILD_STREAM", "ERR_IO", "ERR_NOMEM"} : Abort(outcome)
    BY <1>5 DEF Failure
  <2>2. /\ result' \in {"WILD_STREAM", "ERR_IO", "ERR_NOMEM"} /\ agenda' = << >>
        /\ UNCHANGED <<module, pos, vals, always, loops, locals, nextLocalId, nextLabel, code, output,
                       dependencies, strings, refs>>
    BY <2>1 DEF Abort, tables
  <2>3. DataInv'
    BY <1>1, <2>2, DataAlone
  <2>4. ContextInv'
    BY <1>1, <2>2 DEF ContextInv
  <2>5. CalleesInv'
    BY <2>2 DEF CalleesInv
  <2> QED BY <1>1, <2>3, <2>4, <2>5 DEF GenInv
<1> QED BY <1>3, <1>4, <1>5

(* Every step of the generator                                             *)
LEMMA GenerateKept == ASSUME GenInv, Generate PROVE GenInv'
<1>1. NamesInv'
  BY GenerateNamed DEF GenInv
<1>2. Before
  BY <1>1 DEF Before
<1> QED BY <1>2, EndsKept, DefinitionKept, FunctionBodyKept, ParameterKept, FunctionEndKept, BlockKept,
           IfKept, IfEndKept, WhileKept, LoopKept, StopKept, StatementKept, StatementEndKept, VarDefinitionKept,
           ConditionKept, ComparisonKept, ExpKept, ArmEndKept, OperationKept, ConversionKept, EmitLinesKept,
           VarKept, ElementAddressKept, CallKept, ArgumentsKept, CallEndKept DEF Generate

-----------------------------------------------------------------------------
(* The machine                                                             *)

\* A function runs only when the text is complete, and at one of its lines or
\* past the last.
MachineInv ==
  /\ status \in {"idle", "running", "returned", "cut", "stuck"}
  /\ status # "idle" => result = "SUCCESS" /\ running \in DOMAIN output /\ pc \in 1 .. Len(asm) + 1

RunInv == GenInv /\ MachineInv

(* The generator works only as long as it has no result.                   *)
LEMMA GenerateRuns == ASSUME Generate PROVE result = "running"
<1>1. ASSUME NEW op, At(op) PROVE result = "running"
  BY <1>1 DEF At
<1>2. CASE Failure
  <2>1. Allocates => \E op : At(op)
    BY DEF Allocates
  <2> QED BY <1>1, <1>2, <2>1 DEF Failure
<1>3. CASE Start \/ CompileDefinition \/ Finish
  <2>1. CompileDefinition => result = "running"
    BY DEF CompileDefinition
  <2> QED BY <1>3, <2>1 DEF Start, Finish
<1>4. CASE \/ FunctionBody \/ Parameter \/ FunctionEnd \/ CompileBlock \/ CompileIf \/ CompileIfEnd
           \/ CompileWhile \/ EnclosingLoop \/ StopBlock \/ VarDefinition
  BY <1>1, <1>4 DEF FunctionBody, Parameter, FunctionEnd, CompileBlock, CompileIf, CompileIfEnd,
                    CompileWhile, EnclosingLoop, StopBlock, VarDefinition
<1>5. CASE CompileStatement \/ CompileStatementEnd \/ CompileOperation
  <2>1. \E op : At(op)
    BY <1>5 DEF CompileStatement, CompileStatementEnd, CompileOperation
  <2> QED BY <1>1, <2>1
<1>6. CASE \/ CompileCondition \/ CompileComparison \/ CompileExp \/ CompileArmEnd \/ CompileConversion \/ EmitLines
           \/ CompileVar \/ CompileElementAddress \/ CompileCall \/ CompileArguments \/ CompileCallEnd
  <2>1. \E op : At(op)
    BY <1>6 DEF CompileCondition, CompileComparison, CompileExp, CompileArmEnd, CompileConversion, EmitLines,
                CompileVar, CompileElementAddress, CompileCall, CompileArguments, CompileCallEnd
  <2> QED BY <1>1, <2>1
<1> QED BY <1>2, <1>3, <1>4, <1>5, <1>6 DEF Generate

(* Where a jump goes there is a line.                                      *)
LEMMA JumpLands == ASSUME RunInv, Jump PROVE pc' \in 1 .. Len(asm) + 1
<1>1. /\ status = "running" /\ pc \in DOMAIN asm /\ line.op \in {"br", "condbr"}
      /\ \A i \in DOMAIN line.info : Cardinality(LabelLines(line.info[i])) = 1
      /\ \E i \in {1, 2} : /\ line.op = "br" => i = 1
                           /\ pc' = (CHOOSE k \in LabelLines(line.info[i]) : TRUE) + 1
  BY DEF Jump, Runs
<1>2. IsList(asm) /\ LineOK(line, Callable)
  BY <1>1 DEF RunInv, MachineInv, GenInv, DataInv, asm, line
<1>3. PICK i \in DOMAIN line.info : pc' = (CHOOSE k \in LabelLines(line.info[i]) : TRUE) + 1
  <2>1. line.op = "br" => DOMAIN line.info = {1}
    BY <1>2 DEF LineOK
  <2>2. line.op = "condbr" => DOMAIN line.info = {1, 2}
    <3>1. line.op = "condbr" => DOMAIN line.info = 1 .. 2
      BY <1>2 DEF LineOK
    <3> QED BY <3>1
  <2> QED BY <1>1, <2>1, <2>2
<1>4. LabelLines(line.info[i]) # {}
  BY <1>1, <1>3, FS_EmptySet
<1>5. \E k \in DOMAIN asm : pc' = k + 1
  BY <1>3, <1>4 DEF LabelLines
<1>6. Len(asm) \in Nat /\ DOMAIN asm = 1 .. Len(asm)
  BY <1>2 DEF IsList
<1> HIDE DEF asm
<1> QED BY <1>5, <1>6

(* Every step of the machine                                               *)
LEMMA RunKept == ASSUME RunInv, Run, UNCHANGED vars PROVE RunInv'
<1>1. UNCHANGED <<module, pos, agenda, vals, always, loops, locals, nextLocalId, nextLabel, code, output,
                  dependencies, strings, refs, result>>
  BY DEF vars, tables
<1>2. GenInv'
  <2>1. NamesInv' /\ CalleesInv'
    BY <1>1 DEF RunInv, GenInv, NamesInv, CalleesInv, HasBody
  <2>2. ContextInv'
    BY <1>1 DEF RunInv, GenInv, ContextInv
  <2>3. DataInv'
    BY <1>1, DataAlone DEF RunInv, GenInv
  <2> QED BY <2>1, <2>2, <2>3 DEF GenInv
<1>3. MachineInv
  BY DEF RunInv
<1>4. \A f \in DOMAIN output : IsList(output[f])
  BY DEF RunInv, GenInv, DataInv
<1>5. CASE Call
  <2>1. Len(output[running']) \in Nat
    BY <1>4, <1>5 DEF Call, IsList
  <2>2. asm' = output[running']
    BY <1>1 DEF asm
  <2>3. status' = "running" /\ pc' = 1 /\ running' \in DOMAIN output' /\ result' = "SUCCESS"
    BY <1>1, <1>5 DEF Call
  <2>4. pc' \in 1 .. Len(asm') + 1
    BY <2>1, <2>2, <2>3
  <2> QED BY <1>2, <2>3, <2>4 DEF RunInv, MachineInv
<1>6. ASSUME running' = running, status = "running", pc' \in 1 .. Len(asm) + 1,
             status' \in {"idle", "running", "returned", "cut", "stuck"}
      PROVE  RunInv'
  <2>1. asm' = asm
    BY <1>1, <1>6 DEF asm
  <2> QED BY <1>1, <1>2, <1>3, <1>6, <2>1 DEF RunInv, MachineInv
<1>7. ASSUME status = "running"
      PROVE  /\ pc \in 1 .. Len(asm) + 1
             /\ pc \in DOMAIN asm => pc + 1 \in 1 .. Len(asm) + 1
  <2>1. pc \in 1 .. Len(asm) + 1 /\ running \in DOMAIN output
    BY <1>3, <1>7 DEF MachineInv
  <2>2. Len(asm) \in Nat /\ DOMAIN asm = 1 .. Len(asm)
    BY <1>4, <2>1 DEF asm, IsList
  <2> HIDE DEF asm
  <2> QED BY <2>1, <2>2
<1>8. CASE Compute \/ Access \/ CallOut
  <2>1. status = "running" /\ pc \in DOMAIN asm /\ running' = running /\ status' = status /\ pc' = pc + 1
    BY <1>8 DEF Compute, Access, CallOut, Runs
  <2> QED BY <1>6, <1>7, <2>1
<1>9. CASE Compare
  <2>1. /\ status = "running" /\ pc \in DOMAIN asm /\ running' = running
        /\ \/ status' = "cut" /\ pc' = pc
           \/ status' = status /\ pc' = pc + 1
    BY <1>9 DEF Compare, Runs
  <2> QED BY <1>6, <1>7, <2>1
<1>10. CASE Jump
  <2>1. status = "running" /\ running' = running /\ status' = status
    BY <1>10 DEF Jump, Runs
  <2> QED BY <1>6, <1>10, <2>1, JumpLands
<1>11. CASE Return \/ Stuck
  <2>1. status = "running" /\ running' = running /\ pc' = pc /\ status' \in {"returned", "stuck"}
    BY <1>11 DEF Return, Stuck, Runs
  <2> QED BY <1>6, <1>7, <2>1
<1> QED BY <1>5, <1>8, <1>9, <1>10, <1>11 DEF Run

(* The invariant of the generator and the machine                          *)
LEMMA RunInvariant == RunSpec => []RunInv
<1>1. RunInit => RunInv
  <2> SUFFICES ASSUME RunInit PROVE RunInv
    OBVIOUS
  <2>1. /\ module \in Modules /\ pos = 0 /\ agenda = << >> /\ vals = << >> /\ always = FALSE /\ loops = NoLoop
        /\ locals = << >> /\ nextLocalId = 0 /\ nextLabel = 0 /\ code = << >> /\ output = << >>
        /\ dependencies = << >> /\ strings = << >> /\ refs = << >> /\ result = "running" /\ status = "idle"
    <3>1. Init /\ status = "idle"
      BY Zenon DEF RunInit
    <3>2. /\ module \in Modules /\ pos = 0 /\ agenda = << >> /\ vals = << >> /\ always = FALSE /\ loops = NoLoop
          /\ locals = << >> /\ nextLocalId = 0 /\ nextLabel = 0 /\ code = << >> /\ output = << >>
      BY <3>1 DEF Init
    <3>3. dependencies = << >> /\ strings = << >> /\ refs = << >> /\ result = "running"
      BY <3>1 DEF Init
    <3> QED BY <3>1, <3>2, <3>3
  <2>2. IsList(<< >>) /\ DOMAIN << >> = {} /\ ToSet(<< >>) = {}
    BY ShortLists DEF ToSet
  <2>3. NamesInv
    <3>1. Named(<< >>, << >>, 0, 0)
      BY ShortLists DEF Named, NamesUnique
    <3>2. Named(agenda, code, nextLocalId, nextLabel)
      BY <2>1, <3>1
    <3> QED BY <2>1, <2>2, <3>2 DEF NamesInv
  <2>4. DataInv
    <3>1. LoopOK(NoLoop, 0) /\ LiteralsKnown(<< >>, << >>)
      BY <2>2 DEF LoopOK, NoLoop, LiteralsKnown
    <3> QED BY <2>1, <2>2, <3>1 DEF DataInv
  <2>5. IsList(module) /\ Len(module) \in Nat /\ DOMAIN module = 1 .. Len(module)
    <3>1. IsList(module)
      BY <2>1, ModulesAreLists
    <3> QED BY <3>1 DEF IsList
  <2>6. ContextInv
    BY <2>1, <2>5 DEF ContextInv
  <2>7. CalleesInv
    <3>1. \A j \in DOMAIN module : ~(j < 0)
      BY <2>5
    <3> QED BY <2>1, <2>2, <3>1 DEF CalleesInv
  <2>8. MachineInv
    BY <2>1 DEF MachineInv
  <2> QED BY <2>3, <2>4, <2>6, <2>7, <2>8 DEF RunInv, GenInv
<1>2. RunInv /\ [RunNext]_runVars => RunInv'
  <2> SUFFICES ASSUME RunInv, [RunNext]_runVars PROVE RunInv'
    OBVIOUS
  <2>1. CASE Generate /\ UNCHANGED machine
    <3>1. GenInv' /\ result = "running"
      BY <2>1, GenerateKept, GenerateRuns DEF RunInv
    <3>2. status = "idle" /\ status' = "idle"
      BY <2>1, <3>1 DEF RunInv, MachineInv, machine
    <3> QED BY <3>1, <3>2 DEF RunInv, MachineInv
  <2>2. CASE Run /\ UNCHANGED vars
    BY <2>2, RunKept
  <2>3. CASE UNCHANGED runVars
    <3>1. UNCHANGED <<module, pos, agenda, vals, always, loops, locals, nextLocalId, nextLabel, code, output,
                      dependencies, strings, refs, result, status, running, pc>>
      BY <2>3 DEF runVars, vars, tables, machine
    <3>2. NamesInv' /\ CalleesInv'
      BY <3>1 DEF RunInv, GenInv, NamesInv, CalleesInv, HasBody
    <3>3. ContextInv'
      BY <3>1 DEF RunInv, GenInv, ContextInv
    <3>4. DataInv'
      BY <3>1, DataAlone DEF RunInv, GenInv
    <3>5. MachineInv'
      BY <3>1 DEF RunInv, MachineInv, asm
    <3> QED BY <3>2, <3>3, <3>4, <3>5 DEF RunInv, GenInv
  <2> QED BY <2>1, <2>2, <2>3 DEF RunNext, Over
<1> QED BY <1>1, <1>2, PTL DEF RunSpec

-----------------------------------------------------------------------------
(* What follows                                                            *)

(* The counters count, the recursion of the compiler keeps its values, and *)
(* the machine is where a function is, whatever the modules are: TypeOK of *)
(* Mon_GenerateLLVM and of the function it runs.                           *)
THEOREM LlvmTypeOK == RunSpec => []TypeOK
<1>1. RunInv => TypeOK
  <2> SUFFICES ASSUME RunInv PROVE TypeOK
    OBVIOUS
  <2>1. NamesInv /\ DataInv /\ ContextInv /\ MachineInv
    BY DEF RunInv, GenInv
  <2>2. nextLocalId \in Nat /\ nextLabel \in Nat
    BY <2>1 DEF NamesInv, Named
  <2>3. /\ always \in BOOLEAN /\ ToSet(dependencies) \cap Implemented = {}
        /\ \A i \in DOMAIN locals : locals[i].id < nextLocalId
        /\ \A i \in DOMAIN vals : vals[i][1] = "t" => vals[i][2] < nextLocalId
        /\ loops.end < nextLabel /\ loops.check < nextLabel
    BY <2>1 DEF DataInv, ValueOK, LoopOK
  <2>4. /\ pos \in 0 .. Len(module) + 1
        /\ result \in {"running", "SUCCESS", "ERR_NOMEM", "ERR_IO", "WILD_STREAM"}
    BY <2>1 DEF ContextInv
  <2> QED BY <2>1, <2>2, <2>3, <2>4 DEF TypeOK, MachineInv
<1> QED BY <1>1, RunInvariant, PTL

(* The first time a literal is printed in a module, it is printed with the *)
(* index under which the module will define it, whatever function prints it *)
(* and however many literals there are.                                    *)
THEOREM LiteralsAlwaysResolve == RunSpec => []LiteralsResolve
<1>1. RunInv => LiteralsResolve
  <2> SUFFICES ASSUME RunInv, NEW i \in DOMAIN refs, \A j \in 1 .. i - 1 : refs[j][1] # refs[i][1]
               PROVE  refs[i][2] + 1 \in DOMAIN strings /\ strings[refs[i][2] + 1] = refs[i][1]
    BY DEF LiteralsResolve
  <2>1. LiteralsKnown(strings, refs)
    BY DEF RunInv, GenInv, DataInv
  <2>2. Len(refs) \in Nat /\ DOMAIN refs = 1 .. Len(refs)
    BY <2>1 DEF LiteralsKnown, IsList
  <2>3. \A j \in DOMAIN refs : j < i => j \in 1 .. i - 1
    BY <2>2
  <2> QED BY <2>1, <2>3 DEF LiteralsKnown
<1> QED BY <1>1, RunInvariant, PTL

(* When a function is done its parameters are the only locals, no loop      *)
(* encloses anything, no value is left and the next statement may follow,   *)
(* whatever the nesting of its blocks and loops.                           *)
THEOREM ContextAlwaysRestored == RunSpec => []ContextRestored
<1>1. RunInv => ContextRestored
  <2> SUFFICES ASSUME RunInv, At("funcend")
               PROVE  /\ [i \in DOMAIN locals |-> locals[i].name] = [i \in DOMAIN node.params |-> node.params[i].name]
                      /\ loops = NoLoop /\ vals = << >> /\ ~always
    BY DEF ContextRestored
  <2> DEFINE d == module[pos]
  <2>1. /\ result = "running" /\ agenda # << >> /\ agenda[1].op = "funcend"
        /\ NamesInv /\ ContextInv /\ IsList(agenda) /\ IsList(locals)
    BY DEF At, RunInv, GenInv, NamesInv, Named, DataInv
  <2>2. pos \in DOMAIN module /\ HasBody(d) /\ Framed(agenda, locals, d) /\ Unwinds(agenda, loops)
    BY <2>1 DEF ContextInv
  <2>3. IsList(d.params)
    BY <2>1, <2>2, ModulesAreLists DEF NamesInv, HasBody
  <2> HIDE DEF d
  <2>4. Len(agenda) = 1 /\ DOMAIN agenda = 1 .. 1 /\ node = d /\ DOMAIN locals = 1 .. Len(locals)
    BY <2>1, <2>2, <2>3, FrameHead DEF node
  <2>5. Len(locals) = Len(d.params) /\ \A i \in 1 .. Len(d.params) : i <= Len(locals) => locals[i].name = d.params[i].name
    BY <2>2, <2>4 DEF Framed
  <2>6. DOMAIN d.params = 1 .. Len(d.params) /\ Len(d.params) \in Nat
    BY <2>3 DEF IsList
  <2>7. \A i \in DOMAIN locals : i \in 1 .. Len(d.params) /\ i <= Len(locals)
    BY <2>4, <2>5, <2>6
  <2>8. DOMAIN locals = DOMAIN d.params /\ \A i \in DOMAIN locals : locals[i].name = d.params[i].name
    BY <2>4, <2>5, <2>6, <2>7
  <2>9. vals = << >> /\ ~always
    BY <2>1, <2>4 DEF ContextInv
  <2>10. loops = NoLoop
    BY <2>1, <2>2, <2>4 DEF Unwinds
  <2> QED BY <2>4, <2>8, <2>9, <2>10
<1> QED BY <1>1, RunInvariant, PTL

(* A list without repetitions has as many elements as positions.           *)
LEMMA ListOfDifferent ==
  ASSUME NEW s, IsList(s), \A i, j \in DOMAIN s : s[i] = s[j] => i = j
  PROVE  Cardinality(ToSet(s)) = Len(s)
<1>1. Len(s) \in Nat /\ DOMAIN s = 1 .. Len(s) /\ s = [i \in DOMAIN s |-> s[i]]
  BY DEF IsList
<1>2. s \in [1 .. Len(s) -> ToSet(s)]
  BY <1>1 DEF ToSet
<1>3. s \in Bijection(1 .. Len(s), ToSet(s))
  <2>1. \A x \in ToSet(s) : \E i \in 1 .. Len(s) : s[i] = x
    BY <1>1 DEF ToSet
  <2>2. \A i, j \in 1 .. Len(s) : s[i] = s[j] => i = j
    BY <1>1
  <2>3. s \in [1 .. Len(s) -> ToSet(s)] /\ \A a, b \in 1 .. Len(s) : s[a] = s[b] => a = b
    BY <1>2, <2>2
  <2>4. s \in [1 .. Len(s) -> ToSet(s)] /\ \A t \in ToSet(s) : \E i \in 1 .. Len(s) : s[i] = t
    BY <1>2, <2>1
  <2> DEFINE S == 1 .. Len(s)
             T == ToSet(s)
  <2> HIDE DEF S, T
  <2>5. s \in [S -> T] /\ \A a, b \in S : s[a] = s[b] => a = b
    BY <2>3 DEF S, T
  <2>6. s \in [S -> T] /\ \A t \in T : \E i \in S : s[i] = t
    BY <2>4 DEF S, T
  <2>7. s \in Bijection(S, T)
    BY <2>5, <2>6, Fun_IsBij
  <2> QED BY <2>7 DEF S, T
<1>4. ExistsBijection(1 .. Len(s), ToSet(s))
  BY <1>3 DEF ExistsBijection
<1>5. IsFiniteSet(1 .. Len(s)) /\ Cardinality(1 .. Len(s)) = Len(s)
  <2>1. PICK n \in Nat : n = Len(s)
    BY <1>1
  <2>2. IsFiniteSet(1 .. n) /\ Cardinality(1 .. n) = IF 1 > n THEN 0 ELSE n - 1 + 1
    BY FS_Interval
  <2>3. Cardinality(1 .. n) = n
    BY <2>2
  <2> QED BY <2>1, <2>2, <2>3
<1> QED BY <1>4, <1>5, FS_Bijection

(* The callees are what some line of some function calls.                  *)
LEMMA CalledBy ==
  ASSUME NEW x
  PROVE  x \in Callees <=>
           x \notin Routines /\ \E f \in DOMAIN output : \E l \in ToSet(output[f]) : l.op = "call" /\ l.info[1] = x
<1> DEFINE Called(f) == {l.info[1] : l \in {m \in ToSet(output[f]) : m.op = "call"}}
<1>1. \A f : x \in Called(f) <=> \E l \in ToSet(output[f]) : l.op = "call" /\ l.info[1] = x
  OBVIOUS
<1>2. x \in Callees <=> x \in UNION {Called(f) : f \in DOMAIN output} /\ x \notin Routines
  BY DEF Callees
<1> HIDE DEF Called
<1>3. x \in UNION {Called(f) : f \in DOMAIN output} <=> \E f \in DOMAIN output : x \in Called(f)
  OBVIOUS
<1> QED BY <1>1, <1>2, <1>3

(* The text of a module declares the functions it calls and does not       *)
(* define, each of them once, and no others.                               *)
THEOREM CalleesAlwaysDeclared == RunSpec => []CalleesDeclared
<1>1. RunInv => CalleesDeclared
  <2> SUFFICES ASSUME RunInv, result = "SUCCESS"
               PROVE  /\ Callees \ DOMAIN output = ToSet(dependencies) \ Routines
                      /\ Cardinality(ToSet(dependencies)) = Len(dependencies)
    BY DEF CalleesDeclared
  <2>1. NamesInv /\ DataInv /\ ContextInv /\ CalleesInv
    BY DEF RunInv, GenInv
  <2>2. agenda = << >> /\ pos = Len(module) + 1
    BY <2>1 DEF ContextInv
  <2>3. DOMAIN output = Implemented
    <3>1. IsList(module)
      BY <2>1, ModulesAreLists DEF NamesInv
    <3>2. \A j \in DOMAIN module : j < pos
      BY <2>2, <3>1 DEF IsList
    <3>3. DOMAIN output = {module[i].name : i \in {j \in DOMAIN module : j < pos /\ HasBody(module[j])}}
      BY <2>1 DEF CalleesInv
    <3>4. {j \in DOMAIN module : j < pos /\ HasBody(module[j])}
            = {j \in DOMAIN module : module[j].def = "func" /\ module[j].body # NULL}
      BY <3>2 DEF HasBody
    <3> QED BY <3>3, <3>4 DEF Implemented
  <2>4. ToSet(dependencies) \cap Implemented = {}
    BY <2>1 DEF DataInv
  <2>5. ASSUME NEW x, x \in Callees, x \notin DOMAIN output PROVE x \in ToSet(dependencies) \ Routines
    <3>1. /\ x \notin Routines
          /\ \E f \in DOMAIN output : \E l \in ToSet(output[f]) : l.op = "call" /\ l.info[1] = x
      BY <2>5, CalledBy
    <3>2. PICK f \in DOMAIN output : \E i \in DOMAIN output[f] : output[f][i].op = "call" /\ output[f][i].info[1] = x
      BY <3>1 DEF ToSet
    <3>3. PICK i \in DOMAIN output[f] : output[f][i].op = "call" /\ output[f][i].info[1] = x
      BY <3>2
    <3>4. x \in Callable
      BY <2>1, <3>3 DEF DataInv, LineOK
    <3> QED BY <2>3, <2>5, <3>1, <3>4 DEF Callable
  <2>6. ASSUME NEW x, x \in ToSet(dependencies), x \notin Routines PROVE x \in Callees \ DOMAIN output
    <3>1. PICK f \in DOMAIN output : LineCalls(output[f], x)
      BY <2>1, <2>2, <2>6 DEF CalleesInv
    <3>2. PICK l \in ToSet(output[f]) : l.op = "call" /\ l.info[1] = x
      BY <3>1 DEF LineCalls, ToSet
    <3>3. x \in Callees
      BY <2>6, <3>2, CalledBy
    <3> QED BY <2>3, <2>4, <2>6, <3>3
  <2>7. Cardinality(ToSet(dependencies)) = Len(dependencies)
    BY <2>1, ListOfDifferent DEF DataInv
  <2> QED BY <2>5, <2>6, <2>7
<1> QED BY <1>1, RunInvariant, PTL

===============================================================================
