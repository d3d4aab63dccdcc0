--------------------------- MODULE MonDictProofs ---------------------------
(***************************************************************************)
(* The theorems of MonDict, for every set of keys and values, every hash   *)
(* function, every MIN_SIZE and every MAX_COUNT: the load of the table,    *)
(* what its chains hold through every rehash, and what a lookup finds.     *)
(* Rehash is a loop in a loop; what it computes is proved by induction.    *)
(***************************************************************************)
EXTENDS MonDict, Lemmas, FiniteSetTheorems

-----------------------------------------------------------------------------
(* The load                                                                *)

(* The strengthening of LoadBounded: a table never gets smaller than the   *)
(* first one, so that a shrink that stops there has room too.              *)
LoadInv ==
  /\ count \in Int
  /\ size \in Nat /\ size >= MIN_SIZE
  /\ starved \in BOOLEAN
  /\ LoadBounded

-----------------------------------------------------------------------------
(* GetIdealSize for a count that changes by one                            *)

(* The ideal size is a size of a table.                                    *)
LEMMA IdealIsSize ==
  ASSUME NEW c \in Int, NEW n \in Nat, n >= MIN_SIZE
  PROVE  GetIdealSize(c, n) \in Nat /\ GetIdealSize(c, n) >= MIN_SIZE
BY MinSizePos DEF GetIdealSize

(* From a table that is not overfull, one bucket more or any number less   *)
(* fit the ideal size: doubling is enough, and halving leaves room.        *)
LEMMA IdealFits ==
  ASSUME NEW c \in Int, NEW n \in Nat, n >= MIN_SIZE, 11 * (c - 1) < 10 * n
  PROVE  11 * c < 10 * GetIdealSize(c, n)
<1>1. n >= 1
  BY MinSizePos
<1>2. CASE c * 11 >= n * 10
  <2>1. GetIdealSize(c, n) = 2 * n
    BY <1>2 DEF GetIdealSize
  <2>2. CASE n >= 2  BY <2>1, <2>2
  <2>3. CASE n = 1  BY <2>1, <2>3
  <2> QED  BY <1>1, <2>2, <2>3
<1>3. CASE c * 11 < n * 10 /\ c * 3 < n
  <2>1. GetIdealSize(c, n) >= n \div 2 /\ GetIdealSize(c, n) >= 1 /\ GetIdealSize(c, n) \in Nat
    BY <1>3, MinSizePos DEF GetIdealSize
  <2>2. 2 * (n \div 2) >= n - 1
    OBVIOUS
  <2>3. CASE c <= 0  BY <2>1, <2>3
  <2>4. CASE c > 0
    BY <1>3, <2>1, <2>2, <2>4
  <2> QED  BY <2>3, <2>4
<1>4. CASE c * 11 < n * 10 /\ ~(c * 3 < n)
  BY <1>4 DEF GetIdealSize
<1> QED  BY <1>2, <1>3, <1>4

(* What is fewer fits too.                                                 *)
LEMMA FewerFit ==
  ASSUME NEW a \in Int, NEW c \in Int, NEW n \in Nat, a <= c, 11 * c < 10 * n
  PROVE  11 * a < 10 * n
OBVIOUS

-----------------------------------------------------------------------------
(* Steps                                                                   *)

(* Keeping the size or resizing to the ideal size of the new count keeps   *)
(* the invariant: a size that was kept was ideal, or memory was short.     *)
LEMMA ResizeKeepsLoad ==
  ASSUME LoadInv, NEW c \in Int, c <= count + 1, count' \in Int, count' <= c,
         NEW chains,
         KeepSize(chains, GetIdealSize(c, size)) \/ Rehash(chains, GetIdealSize(c, size))
  PROVE  LoadInv'
<1>0. c \in Int /\ count' \in Int /\ count' <= c /\ size \in Nat /\ size >= MIN_SIZE
  BY DEF LoadInv
<1>1. ~starved => 11 * c < 10 * GetIdealSize(c, size)
  BY <1>0, IdealFits DEF LoadInv, LoadBounded
<1>2. CASE KeepSize(chains, GetIdealSize(c, size))
  <2>0. size' = size
    BY <1>2 DEF KeepSize
  <2>1. starved' = (starved \/ GetIdealSize(c, size) # size)
    BY <1>2 DEF KeepSize
  <2>2. CASE ~starved /\ GetIdealSize(c, size) = size
    <3>0. 11 * c < 10 * size
      BY <1>1, <2>2
    <3>1. 11 * count' < 10 * size'
      BY <1>0, <2>0, <3>0, FewerFit
    <3>2. starved' \in BOOLEAN
      BY <2>1
    <3> QED  BY <1>0, <2>0, <3>1, <3>2 DEF LoadInv, LoadBounded
  <2>3. CASE starved \/ GetIdealSize(c, size) # size
    <3>1. starved' = TRUE
      BY <2>1, <2>3
    <3> QED  BY <1>0, <2>0, <3>1 DEF LoadInv, LoadBounded
  <2> QED  BY <2>2, <2>3
<1>3. CASE Rehash(chains, GetIdealSize(c, size))
  BY <1>0, <1>1, <1>3, IdealIsSize DEF Rehash, LoadInv, LoadBounded
<1> QED  BY <1>2, <1>3

(* Mon_DictSet keeps the load.                                             *)
LEMMA SetKeepsLoad ==
  ASSUME LoadInv, NEW k \in Keys, NEW v \in Values, Set(k, v)
  PROVE  LoadInv'
<1> SetIdeal = GetIdealSize(count + 1, size) /\ count \in Int
  BY DEF SetIdeal, LoadInv
<1>1. CASE Overwrite(k, v)
  BY <1>1 DEF Overwrite, LoadInv, LoadBounded
<1>2. CASE Insert(k, v)
  BY <1>2, ResizeKeepsLoad DEF Insert
<1>3. CASE InsertNoMem
  <2>1. count' = count
    BY <1>3 DEF InsertNoMem
  <2> QED  BY <1>3, <2>1, ResizeKeepsLoad DEF InsertNoMem
<1>4. CASE InsertLost(k, v)
  BY <1>4, ResizeKeepsLoad DEF InsertLost
<1> QED  BY <1>1, <1>2, <1>3, <1>4 DEF Set

(* Mon_DictRemoveKey keeps the load.                                       *)
LEMMA RemoveKeepsLoad ==
  ASSUME LoadInv, NEW k \in Keys, RemoveKey(k)
  PROVE  LoadInv'
<1>1. RemoveIdeal = GetIdealSize(count - 1, size) /\ count \in Int
  BY DEF RemoveIdeal, LoadInv
<1> QED  BY <1>1, ResizeKeepsLoad DEF RemoveKey

-----------------------------------------------------------------------------
(* Mon_DictSet and Mon_DictRemoveKey keep the table below its load of      *)
(* 10/11 for as long as every resize found memory, lost insertions counted *)
(* in: the table has a free slot and a search in it stays short.           *)
THEOREM DictLoadBounded == Spec => []LoadBounded
<1>1. Init => LoadInv
  <2>1. 11 * 0 < 10 * MIN_SIZE /\ MIN_SIZE \in Nat
    BY MinSizePos
  <2> SUFFICES ASSUME Init PROVE LoadInv
    OBVIOUS
  <2>2. count = 0 /\ size = MIN_SIZE /\ starved = FALSE
    BY DEF Init
  <2>3. LoadBounded
    BY <2>1, <2>2 DEF LoadBounded
  <2>4. starved \in BOOLEAN
    BY <2>2
  <2> QED  BY <2>1, <2>2, <2>3, <2>4 DEF LoadInv
<1>2. LoadInv /\ [Next]_vars => LoadInv'
  <2> SUFFICES ASSUME LoadInv, [Next]_vars PROVE LoadInv'
    OBVIOUS
  <2>1. CASE \E k \in Keys, v \in Values : Set(k, v)
    BY <2>1, SetKeepsLoad
  <2>2. CASE \E k \in Keys : RemoveKey(k)
    BY <2>2, RemoveKeepsLoad
  <2>3. CASE (\E k \in Keys : OutOfBounds(k)) \/ Finalize
    BY <2>3 DEF OutOfBounds, Finalize, buckets, history, LoadInv, LoadBounded
  <2>4. CASE UNCHANGED vars
    BY <2>4 DEF vars, buckets, history, LoadInv, LoadBounded
  <2> QED  BY <2>1, <2>2, <2>3, <2>4 DEF Next, Over
<1>3. LoadInv => LoadBounded
  BY DEF LoadInv
<1> QED  BY <1>1, <1>2, <1>3, PTL DEF Spec
-----------------------------------------------------------------------------
(* Tables                                                                  *)

Buckets == [key : Keys, value : Values]
Tables(n) == [0 .. n - 1 -> Seq(Buckets)]

(* The bucket at place i of chain s.                                       *)
At(t, n, s, i) == s \in 0 .. n - 1 /\ i \in 1 .. Len(t[s])

(* Every bucket is in the chain of its hash, and none is one that a search *)
(* for the key of a later bucket of its chain would stop at.               *)
Tidy(t, n) ==
  /\ t \in Tables(n)
  /\ \A s \in 0 .. n - 1 : \A i \in 1 .. Len(t[s]) : Slot(t[s][i].key, n) = s
  /\ \A s \in 0 .. n - 1 : \A i, j \in 1 .. Len(t[s]) :
       i < j => ~Matches(t[s][j].key, t[s][i])

(* The buckets of a chain, and those of a table of size n.                 *)
InChain(chain) == {b \in Buckets : \E i \in 1 .. Len(chain) : chain[i] = b}
Content(t, n) == {b \in Buckets : \E s \in 0 .. n - 1 : b \in InChain(t[s])}

(* A key has a slot of every table, and equal hashes have equal slots.     *)
LEMMA SlotInTable ==
  ASSUME NEW k \in Keys, NEW n \in Nat \ {0}
  PROVE  Slot(k, n) \in 0 .. n - 1
BY HashIsInt DEF Slot

(* Of some naturals there is a Min.                                        *)
LEMMA MinIsLeast ==
  ASSUME NEW T \in SUBSET Nat, T # {}
  PROVE  Min(T) \in T /\ \A y \in T : Min(T) <= y
BY Least DEF Min

(* The proxy is the first match, or 0 where there is none.                 *)
LEMMA ProxyIsFirst ==
  ASSUME NEW chain \in Seq(Buckets), NEW k
  PROVE  \/ /\ Proxy(chain, k) = 0
            /\ \A i \in 1 .. Len(chain) : ~Matches(k, chain[i])
         \/ /\ Proxy(chain, k) \in 1 .. Len(chain)
            /\ Matches(k, chain[Proxy(chain, k)])
            /\ \A i \in 1 .. Proxy(chain, k) - 1 : ~Matches(k, chain[i])
<1> DEFINE I == {i \in 1 .. Len(chain) : Matches(k, chain[i])}
<1>1. Proxy(chain, k) = IF I # {} THEN Min(I) ELSE 0
  BY DEF Proxy, SelectInSeq
<1>2. I \subseteq Nat /\ \A i \in I : i \in 1 .. Len(chain) /\ Matches(k, chain[i])
  OBVIOUS
<1>3. CASE I = {}
  BY <1>1, <1>3
<1>4. CASE I # {}
  <2> HIDE DEF I
  <2>1. Min(I) \in I /\ \A i \in I : Min(I) <= i
    BY <1>2, <1>4, MinIsLeast
  <2>2. Min(I) \in 1 .. Len(chain) /\ Len(chain) \in Nat
    BY <1>2, <2>1, LenProperties
  <2>3. ASSUME NEW i \in 1 .. Min(I) - 1 PROVE ~Matches(k, chain[i])
    <3>1. i \in 1 .. Len(chain) /\ ~(Min(I) <= i)
      BY <2>2
    <3> QED  BY <2>1, <3>1 DEF I
  <2> QED  BY <1>1, <1>2, <1>4, <2>1, <2>2, <2>3
<1> QED  BY <1>3, <1>4

(* A bucket that no bucket of the table keeps from its place is moved      *)
(* behind its chain.                                                       *)
LEMMA MoveTidy ==
  ASSUME NEW n \in Nat \ {0}, NEW t, Tidy(t, n), NEW b \in Buckets,
         \A c \in Content(t, n) : ~Matches(b.key, c)
  PROVE  /\ Tidy([t EXCEPT ![Slot(b.key, n)] = Moved(@, b)], n)
         /\ Content([t EXCEPT ![Slot(b.key, n)] = Moved(@, b)], n) = Content(t, n) \cup {b}
<1> DEFINE x == Slot(b.key, n)
           u == [t EXCEPT ![x] = Moved(@, b)]
<1>1. x \in 0 .. n - 1 /\ t \in Tables(n)
  BY SlotInTable DEF Tidy, Buckets
<1>2. /\ t[x] \in Seq(Buckets) /\ Len(t[x]) \in Nat
      /\ \A i \in 1 .. Len(t[x]) : t[x][i] \in Buckets /\ ~Matches(b.key, t[x][i])
  <2>1. t[x] \in Seq(Buckets) /\ Len(t[x]) \in Nat
    BY <1>1, LenProperties DEF Tables
  <2>2. \A i \in 1 .. Len(t[x]) : t[x][i] \in Buckets
    BY <2>1, ElementOfSeq
  <2>3. \A i \in 1 .. Len(t[x]) : t[x][i] \in Content(t, n)
    BY <1>1, <2>2 DEF Content, InChain
  <2> QED  BY <2>1, <2>2, <2>3
<1>3. Proxy(t[x], b.key) = 0
  BY <1>2, ProxyIsFirst
<1>4. u = [t EXCEPT ![x] = Append(t[x], b)]
  BY <1>3, <1>1 DEF Moved, Tables
<1>5. /\ u[x] \in Seq(Buckets) /\ Len(u[x]) = Len(t[x]) + 1
      /\ u[x][Len(t[x]) + 1] = b
      /\ \A i \in 1 .. Len(t[x]) : u[x][i] = t[x][i]
  <2>1. u[x] = Append(t[x], b)
    BY <1>1, <1>4 DEF Tables
  <2>2. /\ Append(t[x], b) \in Seq(Buckets) /\ Len(Append(t[x], b)) = Len(t[x]) + 1
        /\ Append(t[x], b)[Len(t[x]) + 1] = b
        /\ \A i \in 1 .. Len(t[x]) : Append(t[x], b)[i] = t[x][i]
    BY <1>2, AppendProperties
  <2> QED  BY <2>1, <2>2
<1>6. \A s \in 0 .. n - 1 : s # x => u[s] = t[s]
  BY <1>4, <1>1 DEF Tables
<1>7. u \in Tables(n)
  BY <1>1, <1>2, <1>4, <1>5 DEF Tables
<1> HIDE DEF u, x
<1>8. ASSUME NEW s \in 0 .. n - 1, NEW i \in 1 .. Len(u[s])
      PROVE  Slot(u[s][i].key, n) = s
  <2>1. CASE s # x
    BY <1>6, <2>1 DEF Tidy
  <2>2. CASE s = x /\ i \in 1 .. Len(t[x])
    BY <1>1, <1>5, <2>2 DEF Tidy
  <2>3. CASE s = x /\ i = Len(t[x]) + 1
    BY <1>5, <2>3 DEF x
  <2> QED  BY <1>2, <1>5, <2>1, <2>2, <2>3
<1>9. ASSUME NEW s \in 0 .. n - 1, NEW i \in 1 .. Len(u[s]), NEW j \in 1 .. Len(u[s]), i < j
      PROVE  ~Matches(u[s][j].key, u[s][i])
  <2>1. CASE s # x
    BY <1>6, <1>9, <2>1 DEF Tidy
  <2>2. CASE s = x /\ j \in 1 .. Len(t[x])
    <3>1. i \in 1 .. Len(t[x])
      BY <1>2, <1>5, <1>9, <2>2
    <3> QED  BY <1>1, <1>5, <1>9, <2>2, <3>1 DEF Tidy
  <2>3. CASE s = x /\ j = Len(t[x]) + 1
    <3>1. i \in 1 .. Len(t[x])
      BY <1>2, <1>5, <1>9, <2>3
    <3> QED  BY <1>2, <1>5, <2>3, <3>1
  <2> QED  BY <1>2, <1>5, <2>1, <2>2, <2>3
<1>10. ASSUME NEW c \in Content(u, n) PROVE c \in Content(t, n) \cup {b}
  <2>1. PICK s \in 0 .. n - 1 : \E i \in 1 .. Len(u[s]) : u[s][i] = c
    BY DEF Content, InChain
  <2>2. PICK i \in 1 .. Len(u[s]) : u[s][i] = c
    BY <2>1
  <2>3. CASE s # x
    BY <1>6, <2>2, <2>3 DEF Content, InChain
  <2>4. CASE s = x /\ i \in 1 .. Len(t[x])
    BY <1>1, <1>2, <1>5, <2>2, <2>4 DEF Content, InChain
  <2>5. CASE s = x /\ i = Len(t[x]) + 1
    BY <1>5, <2>2, <2>5
  <2> QED  BY <1>2, <1>5, <2>3, <2>4, <2>5
<1>11. b \in Content(u, n)
  <2>1. Len(t[x]) + 1 \in 1 .. Len(u[x])
    BY <1>2, <1>5
  <2> QED  BY <1>1, <1>5, <2>1 DEF Content, InChain
<1>12. ASSUME NEW c \in Content(t, n) PROVE c \in Content(u, n)
  <2>1. PICK s \in 0 .. n - 1 : \E i \in 1 .. Len(t[s]) : t[s][i] = c
    BY DEF Content, InChain
  <2>2. PICK i \in 1 .. Len(t[s]) : t[s][i] = c
    BY <2>1
  <2>3. CASE s # x
    BY <1>6, <2>2, <2>3 DEF Content, InChain
  <2>4. CASE s = x
    <3>1. i \in 1 .. Len(u[x]) /\ u[x][i] = c
      BY <1>2, <1>5, <2>2, <2>4
    <3> QED  BY <1>1, <3>1 DEF Content, InChain
  <2> QED  BY <2>3, <2>4
<1>13. Tidy(u, n)
  BY <1>7, <1>8, <1>9 DEF Tidy
<1>14. Content(u, n) = Content(t, n) \cup {b}
  BY <1>10, <1>11, <1>12
<1> QED  BY <1>13, <1>14 DEF u, x

-----------------------------------------------------------------------------
(* Rehash                                                                  *)

(* Whatever is moved to a table, it is a table again.                      *)
LEMMA MoveType ==
  ASSUME NEW n \in Nat \ {0}, NEW t \in Tables(n), NEW b \in Buckets
  PROVE  [t EXCEPT ![Slot(b.key, n)] = Moved(@, b)] \in Tables(n)
<1> DEFINE chain == t[Slot(b.key, n)]
           p == Proxy(chain, b.key)
<1>1. Slot(b.key, n) \in 0 .. n - 1
  BY SlotInTable DEF Buckets
<1>2. chain \in Seq(Buckets) /\ Len(chain) \in Nat
  BY <1>1, LenProperties DEF Tables
<1>3. p = 0 \/ p \in 1 .. Len(chain)
  BY <1>2, ProxyIsFirst
<1>4. Moved(chain, b) \in Seq(Buckets)
  <2>1. CASE p = 0
    BY <1>2, <2>1, AppendProperties DEF Moved
  <2>2. CASE p \in 1 .. Len(chain)
    <3> HIDE DEF chain, p
    <3>1. p - 1 \in 0 .. Len(chain) /\ 1 \in 1 .. Len(chain) + 1
      BY <1>2, <2>2
    <3>2. SubSeq(chain, 1, p - 1) \in Seq(Buckets)
      BY <1>2, <3>1, SubSeqProperties
    <3>3. Append(SubSeq(chain, 1, p - 1), b) \in Seq(Buckets)
      BY <3>2, AppendProperties
    <3>4. p # 0
      BY <2>2
    <3> QED  BY <3>3, <3>4 DEF Moved, p
  <2> QED  BY <1>3, <2>1, <2>2
<1> HIDE DEF chain
<1>5. [t EXCEPT ![Slot(b.key, n)] = Moved(chain, b)] \in Tables(n)
  BY <1>4 DEF Tables
<1> QED  BY <1>5 DEF chain

(* What MovedChain computes, bucket by bucket.                             *)
LEMMA ChainSteps ==
  ASSUME NEW n \in Nat \ {0}, NEW t \in Tables(n), NEW chain \in Seq(Buckets)
  PROVE  \E f \in [0 .. Len(chain) -> Tables(n)] :
           /\ f[0] = t
           /\ \A i \in 1 .. Len(chain) :
                f[i] = [f[i - 1] EXCEPT ![Slot(chain[i].key, n)] = Moved(@, chain[i])]
           /\ MovedChain(t, chain, n) = f[Len(chain)]
<1> DEFINE N == Len(chain)
           Eq(f) == f = [i \in 0 .. N |->
                           IF i = 0 THEN t
                           ELSE [f[i - 1] EXCEPT ![Slot(chain[i].key, n)] = Moved(@, chain[i])]]
           h == CHOOSE f : Eq(f)
<1>1. N \in Nat /\ \A i \in 1 .. N : chain[i] \in Buckets
  BY LenProperties, ElementOfSeq
<1>2. PICK F \in [1 .. N -> [Tables(n) -> Tables(n)]] :
        F = [i \in 1 .. N |-> [u \in Tables(n) |->
               [u EXCEPT ![Slot(chain[i].key, n)] = Moved(@, chain[i])]]]
  BY <1>1, MoveType
<1>3. PICK f \in [0 .. N -> Tables(n)] : f[0] = t /\ \A i \in 1 .. N : f[i] = F[i][f[i - 1]]
  <2>1. \E f : Computes(f, F, t, N, Tables(n))
    BY <1>1, FunctionExists
  <2> QED  BY <2>1 DEF Computes
<1>4. ASSUME NEW i \in 1 .. N
      PROVE  F[i][f[i - 1]] = [f[i - 1] EXCEPT ![Slot(chain[i].key, n)] = Moved(@, chain[i])]
  <2>1. f[i - 1] \in Tables(n)
    BY <1>1
  <2> QED  BY <1>2, <2>1
<1>5. Eq(f)
  <2>1. \A i \in 0 .. N : i # 0 => i \in 1 .. N
    BY <1>1
  <2> QED  BY <1>3, <1>4, <2>1
<1>6. Eq(h)
  BY <1>5
<1>7. MovedChain(t, chain, n) = h[N]
  BY DEF MovedChain
<1> HIDE DEF h
<1>8. /\ h[0] = t
      /\ \A i \in 1 .. N : h[i] = [h[i - 1] EXCEPT ![Slot(chain[i].key, n)] = Moved(@, chain[i])]
  <2>1. h[0] = t
    BY <1>1, <1>6
  <2>2. ASSUME NEW i \in 1 .. N
        PROVE  h[i] = [h[i - 1] EXCEPT ![Slot(chain[i].key, n)] = Moved(@, chain[i])]
    <3>1. i \in 0 .. N /\ i # 0
      BY <1>1
    <3> HIDE DEF N
    <3> QED  BY <1>6, <3>1
  <2> QED  BY <2>1, <2>2
<1>9. h \in [0 .. N -> Tables(n)]
  <2> DEFINE S == {i \in Nat : i <= N => h[i] \in Tables(n)}
  <2>1. 0 \in S
    BY <1>8
  <2>2. ASSUME NEW i \in Nat, i \in S PROVE i + 1 \in S
    <3> SUFFICES ASSUME i + 1 <= N PROVE h[i + 1] \in Tables(n)
      OBVIOUS
    <3>1. i + 1 \in 1 .. N /\ h[i] \in Tables(n) /\ (i + 1) - 1 = i
      BY <1>1, <2>2
    <3>2. h[i + 1] = [h[i] EXCEPT ![Slot(chain[i + 1].key, n)] = Moved(@, chain[i + 1])]
      BY <1>8, <3>1
    <3>3. chain[i + 1] \in Buckets
      BY <1>1, <3>1
    <3> HIDE DEF N
    <3>4. [h[i] EXCEPT ![Slot(chain[i + 1].key, n)] = Moved(@, chain[i + 1])] \in Tables(n)
      BY <3>1, <3>3, MoveType
    <3> QED  BY <3>2, <3>4
  <2>3. \A i \in 0 .. N : h[i] \in Tables(n)
    <3>1. Nat \subseteq S
      <4> HIDE DEF S
      <4> QED  BY <2>1, <2>2, SetInduction
    <3> QED  BY <1>1, <3>1
  <2> QED  BY <1>6, <2>3
<1> QED  BY <1>7, <1>8, <1>9

(* Moving a chain, none of whose buckets stops the search for a later one  *)
(* or is stopped by what is there, adds its buckets and nothing else.      *)
LEMMA MovedChainTidy ==
  ASSUME NEW n \in Nat \ {0}, NEW t, Tidy(t, n), NEW chain \in Seq(Buckets),
         \A i \in 1 .. Len(chain) : \A c \in Content(t, n) : ~Matches(chain[i].key, c),
         \A i, j \in 1 .. Len(chain) : i < j => ~Matches(chain[j].key, chain[i])
  PROVE  /\ Tidy(MovedChain(t, chain, n), n)
         /\ Content(MovedChain(t, chain, n), n) = Content(t, n) \cup InChain(chain)
<1> DEFINE N == Len(chain)
           First(i) == {b \in Buckets : \E j \in 1 .. i : chain[j] = b}
<1>1. N \in Nat /\ \A i \in 1 .. N : chain[i] \in Buckets
  BY LenProperties, ElementOfSeq
<1>2. t \in Tables(n)
  BY DEF Tidy
<1>3. PICK f \in [0 .. N -> Tables(n)] :
        /\ f[0] = t
        /\ \A i \in 1 .. N : f[i] = [f[i - 1] EXCEPT ![Slot(chain[i].key, n)] = Moved(@, chain[i])]
        /\ MovedChain(t, chain, n) = f[N]
  BY <1>2, ChainSteps
<1> DEFINE S == {i \in Nat : i <= N => Tidy(f[i], n) /\ Content(f[i], n) = Content(t, n) \cup First(i)}
<1>4. 0 \in S
  <2>1. First(0) = {}
    OBVIOUS
  <2> QED  BY <1>3, <2>1
<1>5. ASSUME NEW i \in Nat, i \in S PROVE i + 1 \in S
  <2> SUFFICES ASSUME i + 1 <= N
               PROVE  Tidy(f[i + 1], n) /\ Content(f[i + 1], n) = Content(t, n) \cup First(i + 1)
    OBVIOUS
  <2>1. i + 1 \in 1 .. N /\ i <= N /\ (i + 1) - 1 = i
    BY <1>1
  <2>2. Tidy(f[i], n) /\ Content(f[i], n) = Content(t, n) \cup First(i)
    BY <1>5, <2>1
  <2>3. f[i + 1] = [f[i] EXCEPT ![Slot(chain[i + 1].key, n)] = Moved(@, chain[i + 1])]
    BY <1>3, <2>1
  <2>4. ASSUME NEW c \in Content(f[i], n) PROVE ~Matches(chain[i + 1].key, c)
    <3>1. CASE c \in Content(t, n)
      BY <2>1, <3>1
    <3>2. CASE c \in First(i)
      <4>1. PICK j \in 1 .. i : chain[j] = c
        BY <3>2
      <4>2. j \in 1 .. N /\ j < i + 1
        BY <1>1, <2>1
      <4> QED  BY <2>1, <4>1, <4>2
    <3> QED  BY <2>2, <3>1, <3>2
  <2>5. chain[i + 1] \in Buckets
    BY <1>1, <2>1
  <2>6. Tidy(f[i + 1], n) /\ Content(f[i + 1], n) = Content(f[i], n) \cup {chain[i + 1]}
    <3> DEFINE v == [f[i] EXCEPT ![Slot(chain[i + 1].key, n)] = Moved(@, chain[i + 1])]
    <3>1. Tidy(v, n) /\ Content(v, n) = Content(f[i], n) \cup {chain[i + 1]}
      BY <2>2, <2>4, <2>5, MoveTidy
    <3> HIDE DEF v
    <3>2. f[i + 1] = v
      BY <2>3 DEF v
    <3> QED  BY <3>1, <3>2
  <2>7. First(i + 1) = First(i) \cup {chain[i + 1]}
    <3>1. 1 .. i + 1 = (1 .. i) \cup {i + 1}
      OBVIOUS
    <3> QED  BY <2>5, <3>1
  <2> QED  BY <2>2, <2>6, <2>7
<1>6. N \in S
  <2>1. Nat \subseteq S
    <3> HIDE DEF S
    <3> QED  BY <1>4, <1>5, SetInduction
  <2> QED  BY <1>1, <2>1
<1>7. First(N) = InChain(chain)
  BY DEF InChain
<1> QED  BY <1>1, <1>3, <1>6, <1>7

(* The empty table.                                                        *)
LEMMA NoBucketsTidy ==
  ASSUME NEW n \in Nat \ {0}
  PROVE  Tidy(NoBuckets(n), n) /\ Content(NoBuckets(n), n) = {}
<1>1. NoBuckets(n) \in Tables(n)
  BY EmptySeq DEF NoBuckets, Tables
<1>2. \A s \in 0 .. n - 1 : NoBuckets(n)[s] = << >> /\ 1 .. Len(NoBuckets(n)[s]) = {}
  BY EmptySeq DEF NoBuckets
<1> QED  BY <1>1, <1>2 DEF Tidy, Content, InChain

(* A chain moves to a table.                                               *)
LEMMA MovedChainType ==
  ASSUME NEW n \in Nat \ {0}, NEW t \in Tables(n), NEW chain \in Seq(Buckets)
  PROVE  MovedChain(t, chain, n) \in Tables(n)
<1>1. PICK f \in [0 .. Len(chain) -> Tables(n)] : MovedChain(t, chain, n) = f[Len(chain)]
  BY ChainSteps
<1>2. Len(chain) \in 0 .. Len(chain)
  BY LenProperties
<1> QED  BY <1>1, <1>2

(* What Rehashed computes, chain by chain.                                 *)
LEMMA TableSteps ==
  ASSUME NEW n \in Nat \ {0}, size \in Nat, NEW chains \in Tables(size)
  PROVE  \E f \in [0 .. size -> Tables(n)] :
           /\ f[0] = NoBuckets(n)
           /\ \A s \in 1 .. size : f[s] = MovedChain(f[s - 1], chains[s - 1], n)
           /\ Rehashed(chains, n) = f[size]
<1> DEFINE Eq(f) == f = [s \in 0 .. size |->
                           IF s = 0 THEN NoBuckets(n)
                           ELSE MovedChain(f[s - 1], chains[s - 1], n)]
           h == CHOOSE f : Eq(f)
<1>1. NoBuckets(n) \in Tables(n) /\ \A s \in 1 .. size : chains[s - 1] \in Seq(Buckets)
  <2>1. \A s \in 1 .. size : s - 1 \in 0 .. size - 1
    OBVIOUS
  <2> QED  BY <2>1, NoBucketsTidy DEF Tables, Tidy
<1>2. PICK F \in [1 .. size -> [Tables(n) -> Tables(n)]] :
        F = [s \in 1 .. size |-> [u \in Tables(n) |-> MovedChain(u, chains[s - 1], n)]]
  BY <1>1, MovedChainType
<1>3. PICK f \in [0 .. size -> Tables(n)] :
        f[0] = NoBuckets(n) /\ \A s \in 1 .. size : f[s] = F[s][f[s - 1]]
  <2>1. \E f : Computes(f, F, NoBuckets(n), size, Tables(n))
    BY <1>1, FunctionExists
  <2> QED  BY <2>1 DEF Computes
<1>4. ASSUME NEW s \in 1 .. size
      PROVE  F[s][f[s - 1]] = MovedChain(f[s - 1], chains[s - 1], n)
  <2>1. f[s - 1] \in Tables(n)
    OBVIOUS
  <2> QED  BY <1>2, <2>1
<1>5. Eq(f)
  <2>1. \A s \in 0 .. size : s # 0 => s \in 1 .. size
    OBVIOUS
  <2> QED  BY <1>3, <1>4, <2>1
<1>6. Eq(h)
  BY <1>5
<1>7. Rehashed(chains, n) = h[size]
  BY DEF Rehashed
<1> HIDE DEF h
<1>8. h[0] = NoBuckets(n) /\ \A s \in 1 .. size : h[s] = MovedChain(h[s - 1], chains[s - 1], n)
  BY <1>6
<1>9. h \in [0 .. size -> Tables(n)]
  <2> DEFINE S == {s \in Nat : s <= size => h[s] \in Tables(n)}
  <2>1. 0 \in S
    BY <1>1, <1>8
  <2>2. ASSUME NEW s \in Nat, s \in S PROVE s + 1 \in S
    <3> SUFFICES ASSUME s + 1 <= size PROVE h[s + 1] \in Tables(n)
      OBVIOUS
    <3>1. s + 1 \in 1 .. size /\ h[s] \in Tables(n) /\ (s + 1) - 1 = s
      BY <2>2
    <3>2. h[s + 1] = MovedChain(h[s], chains[s], n) /\ chains[s] \in Seq(Buckets)
      BY <1>1, <1>8, <3>1
    <3> QED  BY <3>1, <3>2, MovedChainType
  <2>3. Nat \subseteq S
    <3> HIDE DEF S
    <3> QED  BY <2>1, <2>2, SetInduction
  <2>4. \A s \in 0 .. size : h[s] \in Tables(n)
    BY <2>3
  <2> QED  BY <1>6, <2>4
<1> QED  BY <1>7, <1>8, <1>9

(* dict.c:192: what the assertion in Rehash says.  From a tidy table, every *)
(* bucket is moved to a place that is free, and none is missing.           *)
LEMMA RehashedTidy ==
  ASSUME NEW n \in Nat \ {0}, size \in Nat \ {0}, NEW chains, Tidy(chains, size)
  PROVE  /\ Tidy(Rehashed(chains, n), n)
         /\ Content(Rehashed(chains, n), n) = Content(chains, size)
<1> DEFINE First(s) == {b \in Buckets : \E x \in 0 .. s - 1 : b \in InChain(chains[x])}
<1>1. chains \in Tables(size)
  BY DEF Tidy
<1>2. PICK f \in [0 .. size -> Tables(n)] :
        /\ f[0] = NoBuckets(n)
        /\ \A s \in 1 .. size : f[s] = MovedChain(f[s - 1], chains[s - 1], n)
        /\ Rehashed(chains, n) = f[size]
  BY <1>1, TableSteps
<1> DEFINE S == {s \in Nat : s <= size => Tidy(f[s], n) /\ Content(f[s], n) = First(s)}
<1>3. 0 \in S
  <2>1. First(0) = {}
    OBVIOUS
  <2> QED  BY <1>2, <2>1, NoBucketsTidy
<1>4. ASSUME NEW s \in Nat, s \in S PROVE s + 1 \in S
  <2> SUFFICES ASSUME s + 1 <= size
               PROVE  Tidy(f[s + 1], n) /\ Content(f[s + 1], n) = First(s + 1)
    OBVIOUS
  <2>1. s \in 0 .. size - 1 /\ s + 1 \in 1 .. size /\ s <= size /\ (s + 1) - 1 = s
    OBVIOUS
  <2>2. Tidy(f[s], n) /\ Content(f[s], n) = First(s)
    BY <1>4, <2>1
  <2>3. f[s + 1] = MovedChain(f[s], chains[s], n)
    BY <1>2, <2>1
  <2>4. chains[s] \in Seq(Buckets)
    BY <1>1, <2>1 DEF Tables
  <2>5. ASSUME NEW i \in 1 .. Len(chains[s]), NEW c \in Content(f[s], n)
        PROVE  ~Matches(chains[s][i].key, c)
    <3>1. PICK x \in 0 .. s - 1 : c \in InChain(chains[x])
      BY <2>2
    <3>2. PICK j \in 1 .. Len(chains[x]) : chains[x][j] = c
      BY <3>1 DEF InChain
    <3>3. x \in 0 .. size - 1 /\ x # s
      BY <2>1
    <3>4. Slot(c.key, size) = x /\ Slot(chains[s][i].key, size) = s
      BY <2>1, <3>2, <3>3 DEF Tidy
    <3> QED  BY <3>3, <3>4 DEF Matches, Slot
  <2>6. ASSUME NEW i \in 1 .. Len(chains[s]), NEW j \in 1 .. Len(chains[s]), i < j
        PROVE  ~Matches(chains[s][j].key, chains[s][i])
    BY <2>1, <2>6 DEF Tidy
  <2>7. /\ Tidy(MovedChain(f[s], chains[s], n), n)
        /\ Content(MovedChain(f[s], chains[s], n), n) = Content(f[s], n) \cup InChain(chains[s])
    BY <2>2, <2>4, <2>5, <2>6, MovedChainTidy
  <2>8. First(s + 1) = First(s) \cup InChain(chains[s])
    <3>1. 0 .. (s + 1) - 1 = (0 .. s - 1) \cup {s}
      OBVIOUS
    <3>2. InChain(chains[s]) \subseteq Buckets
      BY DEF InChain
    <3> QED  BY <3>1, <3>2
  <2> QED  BY <2>2, <2>3, <2>7, <2>8
<1>5. size \in S
  <2>1. Nat \subseteq S
    <3> HIDE DEF S
    <3> QED  BY <1>3, <1>4, SetInduction
  <2> QED  BY <2>1
<1>6. First(size) = Content(chains, size) /\ size <= size
  BY DEF Content
<1> HIDE DEF First
<1> QED  BY <1>2, <1>5, <1>6

-----------------------------------------------------------------------------
(* One bucket of a table                                                   *)

(* A key has one bucket at most.                                           *)
LEMMA OnePlace ==
  ASSUME NEW n \in Nat \ {0}, NEW t, Tidy(t, n),
         NEW s \in 0 .. n - 1, NEW x \in 0 .. n - 1,
         NEW i \in 1 .. Len(t[s]), NEW j \in 1 .. Len(t[x]), t[s][i].key = t[x][j].key
  PROVE  s = x /\ i = j
<1>1. s = x
  BY DEF Tidy
<1>2. Matches(t[s][i].key, t[x][j]) /\ Matches(t[x][j].key, t[s][i])
  BY DEF Matches
<1>3. ~(i < j) /\ ~(j < i)
  BY <1>1, <1>2 DEF Tidy
<1>4. i \in Nat /\ j \in Nat
  OBVIOUS
<1> QED  BY <1>1, <1>3, <1>4

(* The buckets of a table are buckets, in chains.                          *)
LEMMA Places ==
  ASSUME NEW n \in Nat \ {0}, NEW t, Tidy(t, n), NEW s \in 0 .. n - 1
  PROVE  /\ t[s] \in Seq(Buckets) /\ Len(t[s]) \in Nat
         /\ \A i \in 1 .. Len(t[s]) : t[s][i] \in Buckets /\ t[s][i] \in Content(t, n)
<1>1. t[s] \in Seq(Buckets) /\ Len(t[s]) \in Nat
  BY LenProperties DEF Tidy, Tables
<1>2. \A i \in 1 .. Len(t[s]) : t[s][i] \in Buckets
  BY <1>1, ElementOfSeq
<1> QED  BY <1>1, <1>2 DEF Content, InChain

(* Every bucket of the content has a place.                                *)
LEMMA PlaceOf ==
  ASSUME NEW n, NEW t, NEW b \in Content(t, n)
  PROVE  b \in Buckets /\ \E s \in 0 .. n - 1 : \E i \in 1 .. Len(t[s]) : t[s][i] = b
BY DEF Content, InChain

(* Two buckets of a table have two keys.                                   *)
LEMMA OneBucket ==
  ASSUME NEW n \in Nat \ {0}, NEW t, Tidy(t, n),
         NEW b \in Content(t, n), NEW c \in Content(t, n), b.key = c.key
  PROVE  b = c
<1>1. PICK s \in 0 .. n - 1 : \E i \in 1 .. Len(t[s]) : t[s][i] = b
  BY PlaceOf
<1>2. PICK i \in 1 .. Len(t[s]) : t[s][i] = b
  BY <1>1
<1>3. PICK x \in 0 .. n - 1 : \E j \in 1 .. Len(t[x]) : t[x][j] = c
  BY PlaceOf
<1>4. PICK j \in 1 .. Len(t[x]) : t[x][j] = c
  BY <1>3
<1>5. t[s][i].key = t[x][j].key
  BY <1>2, <1>4
<1>6. s = x /\ i = j
  BY <1>5, OnePlace
<1> QED  BY <1>2, <1>4, <1>6

(* The dictionary between two calls.                                       *)
Shape ==
  /\ size \in Nat /\ size >= MIN_SIZE
  /\ starved \in BOOLEAN
  /\ Tidy(table, size)

Here == Content(table, size)

(* A lookup stops at a bucket that matches, if there is one.               *)
LEMMA FindBucketIs ==
  ASSUME Shape, NEW k \in Keys
  PROVE  /\ Slot(k, size) \in 0 .. size - 1
         /\ \/ /\ FindBucket(k) = NULL /\ Proxy(table[Slot(k, size)], k) = 0
               /\ \A b \in Here : ~Matches(k, b)
            \/ /\ FindBucket(k) # NULL
               /\ Proxy(table[Slot(k, size)], k) \in 1 .. Len(table[Slot(k, size)])
               /\ FindBucket(k) = table[Slot(k, size)][Proxy(table[Slot(k, size)], k)]
               /\ FindBucket(k) \in Here /\ Matches(k, FindBucket(k))
<1> DEFINE x == Slot(k, size)
           p == Proxy(table[x], k)
<1>1. size \in Nat \ {0} /\ Tidy(table, size)
  BY MinSizePos DEF Shape
<1>2. x \in 0 .. size - 1
  BY <1>1, SlotInTable
<1>3. /\ table[x] \in Seq(Buckets) /\ Len(table[x]) \in Nat
      /\ \A i \in 1 .. Len(table[x]) : table[x][i] \in Buckets /\ table[x][i] \in Here
  BY <1>1, <1>2, Places DEF Here
<1>4. FindBucket(k) = IF p = 0 THEN NULL ELSE table[x][p]
  BY DEF FindBucket
<1>5. \/ p = 0 /\ \A i \in 1 .. Len(table[x]) : ~Matches(k, table[x][i])
      \/ p \in 1 .. Len(table[x]) /\ Matches(k, table[x][p])
  BY <1>3, ProxyIsFirst
<1>6. CASE p = 0 /\ \A i \in 1 .. Len(table[x]) : ~Matches(k, table[x][i])
  <2>1. ASSUME NEW b \in Here, Matches(k, b) PROVE FALSE
    <3>1. PICK s \in 0 .. size - 1 : \E i \in 1 .. Len(table[s]) : table[s][i] = b
      BY PlaceOf DEF Here
    <3>2. PICK i \in 1 .. Len(table[s]) : table[s][i] = b
      BY <3>1
    <3>3. Slot(b.key, size) = s
      BY <1>1, <3>2 DEF Tidy
    <3>4. Slot(b.key, size) = x
      BY <2>1 DEF Matches, Slot
    <3> QED  BY <1>6, <2>1, <3>2, <3>3, <3>4
  <2> QED  BY <1>2, <1>4, <1>6, <2>1
<1>7. CASE p \in 1 .. Len(table[x]) /\ Matches(k, table[x][p])
  <2>1. p # 0
    BY <1>7
  <2>2. table[x][p] # NULL
    BY <1>3, <1>7, NullIsNoBucket DEF Buckets
  <2> QED  BY <1>2, <1>3, <1>4, <1>7, <2>1, <2>2
<1> QED  BY <1>5, <1>6, <1>7

(* A resize, or none, keeps the buckets that the given chains hold.        *)
LEMMA Resized ==
  ASSUME Shape, NEW chains, Tidy(chains, size), NEW n \in Nat, n >= MIN_SIZE,
         KeepSize(chains, n) \/ Rehash(chains, n)
  PROVE  Shape' /\ Here' = Content(chains, size)
<1>1. size \in Nat \ {0} /\ n \in Nat \ {0} /\ size >= MIN_SIZE /\ starved \in BOOLEAN
  BY MinSizePos DEF Shape
<1>2. CASE KeepSize(chains, n)
  BY <1>1, <1>2 DEF KeepSize, Shape, Here
<1>3. CASE Rehash(chains, n)
  <2>1. table' = Rehashed(chains, n) /\ size' = n /\ starved' = starved
    BY <1>3 DEF Rehash
  <2>2. /\ Tidy(Rehashed(chains, n), n)
        /\ Content(Rehashed(chains, n), n) = Content(chains, size)
    BY <1>1, RehashedTidy
  <2>3. Tidy(table', size') /\ Content(table', size') = Content(chains, size)
    BY <2>1, <2>2
  <2> QED  BY <1>1, <2>1, <2>3 DEF Shape, Here
<1> QED  BY <1>2, <1>3

(* Mon_DictRemoveKey takes one bucket out.                                 *)
LEMMA UnlinkedTidy ==
  ASSUME Shape, NEW k \in Keys, FindBucket(k) # NULL
  PROVE  Tidy(Unlinked(k), size) /\ Content(Unlinked(k), size) = Here \ {FindBucket(k)}
<1> DEFINE x == Slot(k, size)
           p == Proxy(table[x], k)
           b == FindBucket(k)
           rest == RemoveAt(table[x], p)
           u == Unlinked(k)
<1>1. size \in Nat \ {0} /\ Tidy(table, size)
  BY MinSizePos DEF Shape
<1>2. x \in 0 .. size - 1 /\ p \in 1 .. Len(table[x]) /\ b = table[x][p] /\ b \in Here
  BY FindBucketIs
<1>3. /\ table[x] \in Seq(Buckets) /\ Len(table[x]) \in Nat
      /\ \A i \in 1 .. Len(table[x]) : table[x][i] \in Buckets
  BY <1>1, <1>2, Places
<1>4. /\ rest \in Seq(Buckets) /\ Len(rest) = Len(table[x]) - 1
      /\ \A i \in 1 .. Len(rest) : rest[i] = IF i < p THEN table[x][i] ELSE table[x][i + 1]
  <2> HIDE DEF x, p
  <2> DEFINE s1 == SubSeq(table[x], 1, p - 1)
             s2 == SubSeq(table[x], p + 1, Len(table[x]))
  <2>1. /\ s1 \in Seq(Buckets) /\ Len(s1) = p - 1
        /\ \A i \in 1 .. p - 1 : s1[i] = table[x][i]
    <3>1. p - 1 \in Int /\ 1 \in Int /\ \A i \in 1 .. p - 1 : table[x][i] \in Buckets
      BY <1>2, <1>3
    <3>2. /\ s1 \in Seq(Buckets) /\ Len(s1) = IF 1 <= p - 1 THEN p - 1 - 1 + 1 ELSE 0
          /\ \A i \in 1 .. p - 1 - 1 + 1 : s1[i] = table[x][1 + i - 1]
      BY <3>1, SubSeqProperties
    <3> HIDE DEF s1
    <3> QED  BY <1>2, <1>3, <3>2
  <2>2. /\ s2 \in Seq(Buckets) /\ Len(s2) = Len(table[x]) - p
        /\ \A i \in 1 .. Len(table[x]) - p : s2[i] = table[x][p + i]
    <3>1. p + 1 \in Int /\ Len(table[x]) \in Int
          /\ \A i \in p + 1 .. Len(table[x]) : table[x][i] \in Buckets
      BY <1>2, <1>3
    <3>2. /\ s2 \in Seq(Buckets)
          /\ Len(s2) = IF p + 1 <= Len(table[x]) THEN Len(table[x]) - (p + 1) + 1 ELSE 0
          /\ \A i \in 1 .. Len(table[x]) - (p + 1) + 1 : s2[i] = table[x][p + 1 + i - 1]
      BY <3>1, SubSeqProperties
    <3> HIDE DEF s2
    <3> QED  BY <1>2, <1>3, <3>2
  <2>3. rest = s1 \o s2
    BY DEF RemoveAt
  <2> HIDE DEF s1, s2, rest
  <2>4. /\ s1 \o s2 \in Seq(Buckets) /\ Len(s1 \o s2) = Len(s1) + Len(s2)
        /\ \A i \in 1 .. Len(s1) + Len(s2) :
             (s1 \o s2)[i] = IF i <= Len(s1) THEN s1[i] ELSE s2[i - Len(s1)]
    BY <2>1, <2>2, ConcatProperties
  <2>5. p \in Nat /\ Len(s1) = p - 1 /\ Len(s1) + Len(s2) = Len(table[x]) - 1
    BY <1>2, <1>3, <2>1, <2>2
  <2>6. ASSUME NEW i \in 1 .. Len(table[x]) - 1
        PROVE  rest[i] = IF i < p THEN table[x][i] ELSE table[x][i + 1]
    <3>1. CASE i < p
      <4>1. i \in 1 .. p - 1 /\ i <= Len(s1) /\ i \in 1 .. Len(s1) + Len(s2)
        BY <2>5, <3>1
      <4> QED  BY <2>1, <2>3, <2>4, <3>1, <4>1
    <3>2. CASE ~(i < p)
      <4>1. /\ i - (p - 1) \in 1 .. Len(table[x]) - p /\ ~(i <= Len(s1)) /\ i \in 1 .. Len(s1) + Len(s2)
            /\ p + (i - (p - 1)) = i + 1
        BY <1>3, <2>5, <3>2
      <4>2. rest[i] = s2[i - (p - 1)]
        BY <2>3, <2>4, <2>5, <4>1
      <4> QED  BY <2>2, <3>2, <4>1, <4>2
    <3> QED  BY <3>1, <3>2
  <2> QED  BY <2>3, <2>4, <2>5, <2>6
<1>5. table \in Tables(size)
  BY <1>1 DEF Tidy
<1>6. u \in Tables(size) /\ u[x] = rest /\ \A s \in 0 .. size - 1 : s # x => u[s] = table[s]
  <2>1. u = [table EXCEPT ![x] = rest]
    BY DEF Unlinked
  <2> HIDE DEF rest, x, u
  <2> QED  BY <1>2, <1>4, <1>5, <2>1 DEF Tables
<1> HIDE DEF u, rest, x, p, b
<1> DEFINE old(i) == IF i < p THEN i ELSE i + 1
<1>7. ASSUME NEW i \in 1 .. Len(rest)
      PROVE  old(i) \in 1 .. Len(table[x]) /\ old(i) # p /\ rest[i] = table[x][old(i)]
  <2>1. i \in Int /\ p \in Int
    BY <1>2
  <2>2. CASE i < p
    BY <1>2, <1>3, <1>4, <2>2, SMTT(20)
  <2>3. CASE i >= p
    BY <1>2, <1>3, <1>4, <2>3
  <2> QED  BY <2>1, <2>2, <2>3
<1>8. ASSUME NEW s \in 0 .. size - 1, NEW i \in 1 .. Len(u[s])
      PROVE  Slot(u[s][i].key, size) = s
  <2>1. CASE s # x
    BY <1>1, <1>6, <2>1 DEF Tidy
  <2>2. CASE s = x
    <3>1. PICK j \in 1 .. Len(table[x]) : rest[i] = table[x][j]
      BY <1>6, <1>7, <2>2
    <3> QED  BY <1>1, <1>2, <1>6, <2>2, <3>1 DEF Tidy
  <2> QED  BY <2>1, <2>2
<1>9. ASSUME NEW s \in 0 .. size - 1, NEW i \in 1 .. Len(u[s]), NEW j \in 1 .. Len(u[s]), i < j
      PROVE  ~Matches(u[s][j].key, u[s][i])
  <2>1. CASE s # x
    BY <1>1, <1>6, <1>9, <2>1 DEF Tidy
  <2>2. CASE s = x
    <3>1. i \in 1 .. Len(rest) /\ j \in 1 .. Len(rest)
      BY <1>6, <2>2
    <3>2. /\ old(i) \in 1 .. Len(table[x]) /\ rest[i] = table[x][old(i)]
          /\ old(j) \in 1 .. Len(table[x]) /\ rest[j] = table[x][old(j)]
      BY <1>7, <3>1
    <3>3. old(i) < old(j)
      BY <1>2, <1>9, <3>1
    <3> HIDE DEF old
    <3> QED  BY <1>1, <1>2, <1>6, <2>2, <3>2, <3>3 DEF Tidy
  <2> QED  BY <2>1, <2>2
<1>10. Tidy(u, size)
  BY <1>6, <1>8, <1>9 DEF Tidy
<1>11. ASSUME NEW c \in Content(u, size) PROVE c \in Here \ {b}
  <2>1. PICK s \in 0 .. size - 1 : \E i \in 1 .. Len(u[s]) : u[s][i] = c
    BY PlaceOf
  <2>2. PICK i \in 1 .. Len(u[s]) : u[s][i] = c
    BY <2>1
  <2>3. PICK j \in 1 .. Len(table[s]) : c = table[s][j] /\ ~(s = x /\ j = p)
    <3>1. CASE s # x
      BY <1>6, <2>2, <3>1
    <3>2. CASE s = x
      BY <1>6, <1>7, <2>2, <3>2
    <3> QED  BY <3>1, <3>2
  <2>4. c \in Here
    BY <1>1, <2>3, Places DEF Here
  <2>5. c # b
    BY <1>1, <1>2, <2>3, OnePlace
  <2> QED  BY <2>4, <2>5
<1>12. ASSUME NEW c \in Here, c # b PROVE c \in Content(u, size)
  <2>1. PICK s \in 0 .. size - 1 : \E i \in 1 .. Len(table[s]) : table[s][i] = c
    BY PlaceOf DEF Here
  <2>2. PICK i \in 1 .. Len(table[s]) : table[s][i] = c
    BY <2>1
  <2>3. \E j \in 1 .. Len(u[s]) : u[s][j] = c
    <3>1. CASE s # x
      BY <1>6, <2>2, <3>1
    <3>2. CASE s = x /\ i < p
      <4>1. i \in 1 .. Len(rest) /\ rest[i] = table[x][i]
        BY <1>2, <1>3, <1>4, <3>2
      <4> QED  BY <1>6, <2>2, <3>2, <4>1
    <3>3. CASE s = x /\ i > p
      <4>1. i - 1 \in 1 .. Len(rest) /\ rest[i - 1] = table[x][i]
        <5>1. i - 1 \in 1 .. Len(rest) /\ ~(i - 1 < p) /\ (i - 1) + 1 = i
          BY <1>2, <1>3, <1>4, <3>3
        <5> QED  BY <1>4, <5>1
      <4> QED  BY <1>6, <2>2, <3>3, <4>1
    <3>4. ~(s = x /\ i = p)
      BY <1>2, <1>12, <2>2
    <3>5. i \in Int /\ p \in Int
      BY <1>2
    <3> QED  BY <3>1, <3>2, <3>3, <3>4, <3>5
  <2>4. c \in Buckets
    BY PlaceOf DEF Here
  <2> QED  BY <2>3, <2>4 DEF Content, InChain
<1>13. Content(u, size) = Here \ {b}
  BY <1>11, <1>12
<1> QED  BY <1>10, <1>13 DEF u, b

(* Mon_DictSet of a key that is found changes the value of its bucket.     *)
LEMMA OverwriteDoes ==
  ASSUME Shape, NEW k \in Keys, NEW v \in Values, Overwrite(k, v)
  PROVE  /\ Shape'
         /\ FindBucket(k) \in Here /\ Matches(k, FindBucket(k))
         /\ Here' = (Here \ {FindBucket(k)}) \cup {Bucket(FindBucket(k).key, v)}
<1> DEFINE x == Slot(k, size)
           p == Proxy(table[x], k)
           b == FindBucket(k)
           d == Bucket(b.key, v)
           u == [table EXCEPT ![x][p].value = v]
<1>1. size \in Nat \ {0} /\ Tidy(table, size)
  BY MinSizePos DEF Shape
<1>2. /\ x \in 0 .. size - 1 /\ p \in 1 .. Len(table[x]) /\ b = table[x][p]
      /\ b \in Here /\ Matches(k, b)
  BY FindBucketIs DEF Overwrite
<1>3. /\ table[x] \in Seq(Buckets) /\ Len(table[x]) \in Nat
      /\ \A i \in 1 .. Len(table[x]) : table[x][i] \in Buckets
  BY <1>1, <1>2, Places
<1>4. [b EXCEPT !.value = v] = d /\ d \in Buckets /\ d.key = b.key
  <2>1. b \in Buckets
    BY <1>2, <1>3
  <2> HIDE DEF b
  <2> QED  BY <2>1 DEF Bucket, Buckets
<1>5. table \in Tables(size)
  BY <1>1 DEF Tidy
<1>6. u = [table EXCEPT ![x] = [table[x] EXCEPT ![p] = [table[x][p] EXCEPT !.value = v]]]
  OBVIOUS
<1>7. /\ [table[x] EXCEPT ![p] = d] \in Seq(Buckets)
      /\ Len([table[x] EXCEPT ![p] = d]) = Len(table[x])
      /\ \A i \in 1 .. Len(table[x]) : [table[x] EXCEPT ![p] = d][i] = IF i = p THEN d ELSE table[x][i]
  BY <1>2, <1>3, <1>4, ExceptSeq
<1>8. u = [table EXCEPT ![x] = [table[x] EXCEPT ![p] = d]]
  BY <1>2, <1>4, <1>6
<1> DEFINE row == [table[x] EXCEPT ![p] = d]
<1> HIDE DEF x, p, b, d, u, row
<1>9. /\ u \in Tables(size)
      /\ \A s \in 0 .. size - 1 : s # x => u[s] = table[s]
      /\ Len(u[x]) = Len(table[x])
      /\ \A i \in 1 .. Len(table[x]) : u[x][i] = IF i = p THEN d ELSE table[x][i]
  <2>1. u = [table EXCEPT ![x] = row] /\ row \in Seq(Buckets)
    BY <1>7, <1>8 DEF row
  <2>2. /\ u \in Tables(size) /\ u[x] = row
        /\ \A s \in 0 .. size - 1 : s # x => u[s] = table[s]
    BY <1>2, <1>5, <2>1 DEF Tables
  <2> QED  BY <1>7, <2>2 DEF row
<1>10. ASSUME NEW s \in 0 .. size - 1
       PROVE  /\ Len(u[s]) = Len(table[s])
              /\ \A i \in 1 .. Len(table[s]) :
                   /\ u[s][i].key = table[s][i].key
                   /\ u[s][i] = IF s = x /\ i = p THEN d ELSE table[s][i]
  <2>1. CASE s # x
    BY <1>9, <2>1
  <2>2. CASE s = x
    BY <1>2, <1>4, <1>9, <2>2
  <2> QED  BY <2>1, <2>2
<1>11. Tidy(u, size)
  <2>1. ASSUME NEW s \in 0 .. size - 1, NEW i \in 1 .. Len(u[s])
        PROVE  Slot(u[s][i].key, size) = s
    BY <1>1, <1>10, ZenonT(40) DEF Tidy
  <2>2. ASSUME NEW s \in 0 .. size - 1, NEW i \in 1 .. Len(u[s]), NEW j \in 1 .. Len(u[s]), i < j
        PROVE  ~Matches(u[s][j].key, u[s][i])
    <3>1. /\ i \in 1 .. Len(table[s]) /\ j \in 1 .. Len(table[s])
          /\ u[s][i].key = table[s][i].key /\ u[s][j].key = table[s][j].key
      BY <1>10
    <3>2. ~Matches(table[s][j].key, table[s][i])
      BY <1>1, <2>2, <3>1 DEF Tidy
    <3> QED  BY <3>1, <3>2 DEF Matches
  <2> QED  BY <1>9, <2>1, <2>2 DEF Tidy
<1>12. ASSUME NEW c \in Content(u, size) PROVE c \in (Here \ {b}) \cup {d}
  <2>1. PICK s \in 0 .. size - 1 : \E i \in 1 .. Len(u[s]) : u[s][i] = c
    BY PlaceOf
  <2>2. PICK i \in 1 .. Len(u[s]) : u[s][i] = c
    BY <2>1
  <2>3. CASE s = x /\ i = p
    BY <1>10, <2>2, <2>3
  <2>4. CASE ~(s = x /\ i = p)
    <3>1. i \in 1 .. Len(table[s]) /\ c = table[s][i]
      BY <1>10, <2>2, <2>4
    <3>2. c \in Here
      BY <1>1, <3>1, Places DEF Here
    <3>3. ASSUME c = b PROVE FALSE
      <4>1. table[s][i].key = table[x][p].key
        BY <1>2, <3>1, <3>3
      <4> QED  BY <1>1, <1>2, <2>4, <3>1, <4>1, OnePlace, SMTT(20)
    <3> QED  BY <3>2, <3>3
  <2> QED  BY <2>3, <2>4
<1>13. ASSUME NEW c \in (Here \ {b}) \cup {d} PROVE c \in Content(u, size)
  <2>1. CASE c = d
    <3>1. p \in 1 .. Len(u[x]) /\ u[x][p] = d
      BY <1>2, <1>9
    <3> QED  BY <1>2, <1>4, <2>1, <3>1 DEF Content, InChain
  <2>2. CASE c \in Here \ {b}
    <3>1. PICK s \in 0 .. size - 1 : \E i \in 1 .. Len(table[s]) : table[s][i] = c
      BY <2>2, PlaceOf DEF Here
    <3>2. PICK i \in 1 .. Len(table[s]) : table[s][i] = c
      BY <3>1
    <3>3. ~(s = x /\ i = p)
      BY <1>2, <2>2, <3>2
    <3>4. i \in 1 .. Len(u[s]) /\ u[s][i] = c
      BY <1>10, <3>2, <3>3
    <3>5. c \in Buckets
      BY <2>2, PlaceOf DEF Here
    <3> QED  BY <3>4, <3>5 DEF Content, InChain
  <2> QED  BY <2>1, <2>2
<1>14. Content(u, size) = (Here \ {b}) \cup {d}
  BY <1>12, <1>13
<1>15. table' = u /\ size' = size /\ starved' = starved
  BY DEF Overwrite, u, x, p
<1>16. Shape'
  BY <1>11, <1>15 DEF Shape
<1>17. Here' = (Here \ {b}) \cup {d}
  BY <1>14, <1>15 DEF Here
<1> QED  BY <1>2, <1>16, <1>17 DEF b, d

(* The ideal sizes that the operations resize to are sizes.                *)
LEMMA IdealSizes ==
  ASSUME Shape, count \in Int
  PROVE  /\ SetIdeal \in Nat /\ SetIdeal >= MIN_SIZE
         /\ RemoveIdeal \in Nat /\ RemoveIdeal >= MIN_SIZE
<1>1. count + 1 \in Int /\ count - 1 \in Int /\ size \in Nat /\ size >= MIN_SIZE
  BY DEF Shape
<1> QED  BY <1>1, IdealIsSize DEF SetIdeal, RemoveIdeal

(* Mon_DictSet of a new key that needs no resize adds a bucket.            *)
LEMMA InsertDoes ==
  ASSUME Shape, count \in Int, NEW k \in Keys, NEW v \in Values,
         FindBucket(k) = NULL, Insert(k, v)
  PROVE  Shape' /\ Here' = Here \cup {Bucket(k, v)} /\ \A b \in Here : ~Matches(k, b)
<1> DEFINE x == Slot(k, size)
           d == Bucket(k, v)
           u == [table EXCEPT ![x] = Append(@, d)]
<1>1. size \in Nat \ {0} /\ Tidy(table, size) /\ d \in Buckets /\ d.key = k
  BY MinSizePos DEF Shape, Bucket, Buckets
<1>2. x \in 0 .. size - 1 /\ Proxy(table[x], k) = 0 /\ \A b \in Here : ~Matches(k, b)
  BY FindBucketIs
<1>3. u = [table EXCEPT ![Slot(d.key, size)] = Moved(@, d)]
  <2>1. Moved(table[x], d) = Append(table[x], d)
    BY <1>1, <1>2 DEF Moved
  <2> HIDE DEF d
  <2> QED  BY <1>1, <2>1
<1>4. Tidy(u, size) /\ Content(u, size) = Here \cup {d}
  <2> HIDE DEF d, u
  <2>1. \A c \in Content(table, size) : ~Matches(d.key, c)
    BY <1>1, <1>2 DEF Here
  <2>2. /\ Tidy([table EXCEPT ![Slot(d.key, size)] = Moved(@, d)], size)
        /\ Content([table EXCEPT ![Slot(d.key, size)] = Moved(@, d)], size)
             = Content(table, size) \cup {d}
    BY <1>1, <2>1, MoveTidy
  <2> QED  BY <1>3, <2>2 DEF Here
<1>5. KeepSize(u, SetIdeal)
  BY DEF Insert
<1> HIDE DEF u, d
<1>6. Shape' /\ Here' = Content(u, size)
  BY <1>4, <1>5, IdealSizes, Resized
<1> QED  BY <1>2, <1>4, <1>6 DEF d

(* A failed insertion, and one whose bucket is lost, keep the buckets.     *)
LEMMA NoBucketAdded ==
  ASSUME Shape, count \in Int, KeepSize(table, SetIdeal) \/ Rehash(table, SetIdeal)
  PROVE  Shape' /\ Here' = Here
<1>1. Tidy(table, size)
  BY DEF Shape
<1> QED  BY <1>1, IdealSizes, Resized DEF Here

(* Mon_DictRemoveKey takes one bucket out, whether or not it resizes.      *)
LEMMA RemoveDoes ==
  ASSUME Shape, count \in Int, NEW k \in Keys, RemoveKey(k)
  PROVE  /\ Shape'
         /\ FindBucket(k) \in Here /\ Matches(k, FindBucket(k))
         /\ Here' = Here \ {FindBucket(k)}
<1>1. FindBucket(k) # NULL /\ (KeepSize(Unlinked(k), RemoveIdeal) \/ Rehash(Unlinked(k), RemoveIdeal))
  BY DEF RemoveKey
<1>2. Tidy(Unlinked(k), size) /\ Content(Unlinked(k), size) = Here \ {FindBucket(k)}
  BY <1>1, UnlinkedTidy
<1>3. Shape' /\ Here' = Here \ {FindBucket(k)}
  BY <1>1, <1>2, IdealSizes, Resized
<1> QED  BY <1>1, <1>3, FindBucketIs

-----------------------------------------------------------------------------
(* The invariant                                                           *)

(* The keys of a set of buckets.                                           *)
KeysOf(C) == {k \in Keys : \E b \in C : b.key = k}

(* The keys and the lost keys are finitely many, so that they can be       *)
(* counted; the rest is what the properties say, with a tidy table.        *)
DictInv ==
  /\ Shape
  /\ count \in 0 .. MAX_COUNT
  /\ IsFiniteSet(KeysOf(Here)) /\ IsFiniteSet(lost)
  /\ count >= Cardinality(KeysOf(Here)) + Cardinality(lost)
  /\ DOMAIN written \subseteq Keys /\ lost \subseteq Keys

(* The domains of the table and of its chains.                             *)
LEMMA Domains ==
  ASSUME Shape
  PROVE  /\ size \in Nat \ {0} /\ Tidy(table, size) /\ DOMAIN table = 0 .. size - 1
         /\ \A s \in 0 .. size - 1 : DOMAIN table[s] = 1 .. Len(table[s])
<1>1. size \in Nat \ {0} /\ Tidy(table, size)
  BY MinSizePos DEF Shape
<1>2. DOMAIN table = 0 .. size - 1
  BY <1>1 DEF Tidy, Tables
<1>3. ASSUME NEW s \in 0 .. size - 1 PROVE DOMAIN table[s] = 1 .. Len(table[s])
  BY <1>1, Places, LenProperties
<1> QED  BY <1>1, <1>2, <1>3

(* What Held is, by the content of the table.                              *)
LEMMA HeldIs ==
  ASSUME Shape
  PROVE  Held = KeysOf(Here)
<1>1. size \in Nat \ {0} /\ Tidy(table, size) /\ DOMAIN table = 0 .. size - 1
  BY Domains
<1>2. ASSUME NEW s \in 0 .. size - 1 PROVE DOMAIN table[s] = 1 .. Len(table[s])
  BY Domains
<1>3. ASSUME NEW k \in Held PROVE k \in KeysOf(Here)
  <2>1. PICK s \in 0 .. size - 1 : \E i \in 1 .. Len(table[s]) : table[s][i].key = k
    BY <1>1, <1>2 DEF Held
  <2>2. PICK i \in 1 .. Len(table[s]) : table[s][i].key = k
    BY <2>1
  <2>3. table[s][i] \in Here
    BY <1>1, Places DEF Here
  <2> QED  BY <2>2, <2>3 DEF Held, KeysOf
<1>4. ASSUME NEW k \in KeysOf(Here) PROVE k \in Held
  <2>1. PICK b \in Here : b.key = k
    BY DEF KeysOf
  <2>2. PICK s \in 0 .. size - 1 : \E i \in 1 .. Len(table[s]) : table[s][i] = b
    BY PlaceOf DEF Here
  <2> QED  BY <1>1, <1>2, <2>1, <2>2 DEF Held, KeysOf
<1> QED  BY <1>3, <1>4

(* The buckets of the table are buckets.                                   *)
LEMMA HereAreBuckets == Here \subseteq Buckets
BY DEF Here, Content

(* One bucket more has its key.                                            *)
LEMMA KeysAdded ==
  ASSUME NEW C, NEW d, d.key \in Keys
  PROVE  KeysOf(C \cup {d}) = KeysOf(C) \cup {d.key}
BY DEF KeysOf

(* One bucket less does not have its key.                                  *)
LEMMA KeysRemoved ==
  ASSUME NEW C, NEW b \in C, \A c \in C : c.key = b.key => c = b
  PROVE  KeysOf(C \ {b}) = KeysOf(C) \ {b.key}
BY DEF KeysOf

(* A bucket that gets another value keeps its key.                         *)
LEMMA KeysKept ==
  ASSUME NEW C, NEW b \in C, NEW d, d.key = b.key
  PROVE  KeysOf((C \ {b}) \cup {d}) = KeysOf(C)
BY DEF KeysOf

(* A finite set with an element more, or without one.                      *)
LEMMA OneMore ==
  ASSUME NEW S, IsFiniteSet(S), NEW x
  PROVE  /\ IsFiniteSet(S \cup {x}) /\ IsFiniteSet(S \ {x})
         /\ Cardinality(S \cup {x}) \in Nat /\ Cardinality(S \ {x}) \in Nat
         /\ Cardinality(S \cup {x}) <= Cardinality(S) + 1
         /\ Cardinality(S \ {x}) <= Cardinality(S)
<1>1. Cardinality(S) \in Nat
  BY FS_CardinalityType
<1>2. /\ IsFiniteSet(S \cup {x})
      /\ Cardinality(S \cup {x}) = IF x \in S THEN Cardinality(S) ELSE Cardinality(S) + 1
  BY FS_AddElement
<1>3. /\ IsFiniteSet(S \ {x})
      /\ Cardinality(S \ {x}) = IF x \in S THEN Cardinality(S) - 1 ELSE Cardinality(S)
  BY FS_RemoveElement
<1>4. Cardinality(S \cup {x}) \in Nat /\ Cardinality(S \ {x}) \in Nat
  BY <1>2, <1>3, FS_CardinalityType
<1> QED  BY <1>1, <1>2, <1>3, <1>4

(* Mon_DictSet keeps the invariant.                                        *)
LEMMA SetKeepsDict ==
  ASSUME DictInv, NEW k \in Keys, NEW v \in Values, Set(k, v)
  PROVE  DictInv'
<1>1. /\ Shape /\ count \in Int /\ count \in 0 .. MAX_COUNT /\ MAX_COUNT \in Nat
      /\ IsFiniteSet(KeysOf(Here)) /\ IsFiniteSet(lost)
      /\ count >= Cardinality(KeysOf(Here)) + Cardinality(lost)
      /\ Cardinality(KeysOf(Here)) \in Nat /\ Cardinality(lost) \in Nat
      /\ DOMAIN written \subseteq Keys /\ lost \subseteq Keys
  BY CountIsBounded, FS_CardinalityType DEF DictInv
<1>2. DOMAIN Written(k, v) \subseteq Keys
  BY <1>1 DEF Written
<1>3. Bucket(k, v).key = k
  BY DEF Bucket
<1>4. CASE Overwrite(k, v)
  <2>1. /\ Shape' /\ FindBucket(k) \in Here
        /\ Here' = (Here \ {FindBucket(k)}) \cup {Bucket(FindBucket(k).key, v)}
    BY <1>1, <1>4, OverwriteDoes
  <2>2. Bucket(FindBucket(k).key, v).key = FindBucket(k).key
    BY DEF Bucket
  <2>3. KeysOf(Here') = KeysOf(Here)
    BY <2>1, <2>2, KeysKept
  <2>4. count' = count /\ lost' = lost /\ written' = Written(k, v)
    BY <1>4 DEF Overwrite
  <2> QED  BY <1>1, <1>2, <2>1, <2>3, <2>4 DEF DictInv
<1>5. CASE Addable(k) /\ Insert(k, v)
  <2>1. Shape' /\ Here' = Here \cup {Bucket(k, v)}
    BY <1>1, <1>5, InsertDoes DEF Addable
  <2>2. KeysOf(Here') = KeysOf(Here) \cup {k}
    BY <1>3, <2>1, KeysAdded
  <2>3. /\ IsFiniteSet(KeysOf(Here) \cup {k})
        /\ Cardinality(KeysOf(Here) \cup {k}) <= Cardinality(KeysOf(Here)) + 1
        /\ Cardinality(KeysOf(Here) \cup {k}) \in Nat
    BY <1>1, OneMore
  <2>4. /\ IsFiniteSet(lost \ {k})
        /\ Cardinality(lost \ {k}) <= Cardinality(lost)
        /\ Cardinality(lost \ {k}) \in Nat
    BY <1>1, OneMore
  <2>5. count' = count + 1 /\ lost' = lost \ {k} /\ written' = Written(k, v) /\ count < MAX_COUNT
    BY <1>5 DEF Insert, Addable
  <2>6. count' \in 0 .. MAX_COUNT
        /\ count' >= Cardinality(KeysOf(Here)') + Cardinality(lost')
    BY <1>1, <2>2, <2>3, <2>4, <2>5
  <2> QED  BY <1>1, <1>2, <2>1, <2>2, <2>3, <2>4, <2>5, <2>6 DEF DictInv
<1>6. CASE InsertNoMem
  <2>1. Shape' /\ Here' = Here
    BY <1>1, <1>6, NoBucketAdded DEF InsertNoMem
  <2> QED  BY <1>1, <1>6, <2>1 DEF InsertNoMem, DictInv
<1>7. CASE Addable(k) /\ InsertLost(k, v)
  <2>1. Shape' /\ Here' = Here
    BY <1>1, <1>7, NoBucketAdded DEF InsertLost
  <2>2. /\ IsFiniteSet(lost \cup {k})
        /\ Cardinality(lost \cup {k}) <= Cardinality(lost) + 1
        /\ Cardinality(lost \cup {k}) \in Nat
    BY <1>1, OneMore
  <2>3. count' = count + 1 /\ lost' = lost \cup {k} /\ written' = Written(k, v) /\ count < MAX_COUNT
    BY <1>7 DEF InsertLost, Addable
  <2>4. count' \in 0 .. MAX_COUNT
        /\ count' >= Cardinality(KeysOf(Here)') + Cardinality(lost')
    BY <1>1, <2>1, <2>2, <2>3
  <2> QED  BY <1>1, <1>2, <2>1, <2>2, <2>3, <2>4 DEF DictInv
<1> QED  BY <1>4, <1>5, <1>6, <1>7 DEF Set

(* Mon_DictRemoveKey keeps the invariant.                                  *)
LEMMA RemoveKeepsDict ==
  ASSUME DictInv, NEW k \in Keys, RemoveKey(k)
  PROVE  DictInv'
<1> DEFINE b == FindBucket(k)
<1>1. /\ Shape /\ count \in Int /\ count \in 0 .. MAX_COUNT /\ MAX_COUNT \in Nat
      /\ IsFiniteSet(KeysOf(Here)) /\ IsFiniteSet(lost)
      /\ count >= Cardinality(KeysOf(Here)) + Cardinality(lost)
      /\ Cardinality(KeysOf(Here)) \in Nat /\ Cardinality(lost) \in Nat
      /\ DOMAIN written \subseteq Keys /\ lost \subseteq Keys
  BY CountIsBounded, FS_CardinalityType DEF DictInv
<1>2. Shape' /\ b \in Here /\ Here' = Here \ {b}
  BY <1>1, RemoveDoes
<1>3. \A c \in Here : c.key = b.key => c = b
  BY <1>1, <1>2, MinSizePos, OneBucket DEF Shape, Here
<1> HIDE DEF b
<1>4. KeysOf(Here') = KeysOf(Here) \ {b.key}
  BY <1>2, <1>3, KeysRemoved
<1>5. b.key \in KeysOf(Here)
  BY <1>2, HereAreBuckets DEF KeysOf, Buckets
<1>6. /\ IsFiniteSet(KeysOf(Here) \ {b.key})
      /\ Cardinality(KeysOf(Here) \ {b.key}) = Cardinality(KeysOf(Here)) - 1
      /\ Cardinality(KeysOf(Here) \ {b.key}) \in Nat
  BY <1>1, <1>5, FS_RemoveElement, FS_CardinalityType
<1>7. count' = count - 1 /\ lost' = lost /\ written' = Forgotten(k)
  BY DEF RemoveKey
<1>8. DOMAIN Forgotten(k) \subseteq Keys
  BY <1>1 DEF Forgotten
<1>9. count' \in 0 .. MAX_COUNT
      /\ count' >= Cardinality(KeysOf(Here)') + Cardinality(lost')
  BY <1>1, <1>4, <1>6, <1>7
<1> QED  BY <1>1, <1>2, <1>4, <1>6, <1>7, <1>8, <1>9 DEF DictInv

(* The invariant of the dictionary.                                        *)
THEOREM DictInvariant == Spec => []DictInv
<1>1. Init => DictInv
  <2> SUFFICES ASSUME Init PROVE DictInv
    OBVIOUS
  <2>1. /\ table = NoBuckets(MIN_SIZE) /\ size = MIN_SIZE /\ count = 0
        /\ written = << >> /\ lost = {} /\ starved = FALSE
        /\ MIN_SIZE \in Nat \ {0} /\ MAX_COUNT \in Nat
    BY MinSizePos, CountIsBounded DEF Init
  <2>2. Shape /\ Here = {}
    <3>1. Tidy(NoBuckets(MIN_SIZE), MIN_SIZE) /\ Content(NoBuckets(MIN_SIZE), MIN_SIZE) = {}
      BY MinSizePos, NoBucketsTidy
    <3>2. Tidy(table, size) /\ Content(table, size) = {}
      BY <2>1, <3>1
    <3>3. size \in Nat /\ size >= MIN_SIZE
      BY <2>1
    <3>4. starved \in BOOLEAN
      BY <2>1
    <3> QED  BY <3>2, <3>3, <3>4 DEF Shape, Here
  <2>3. KeysOf(Here) = {}
    BY <2>2 DEF KeysOf
  <2>4. DOMAIN written = {}
    BY <2>1, EmptySeq
  <2>5. 0 \in 0 .. MAX_COUNT /\ 0 >= 0 + 0
    BY <2>1
  <2> QED  BY <2>1, <2>2, <2>3, <2>4, <2>5, FS_EmptySet DEF DictInv
<1>2. DictInv /\ [Next]_vars => DictInv'
  <2> SUFFICES ASSUME DictInv, [Next]_vars PROVE DictInv'
    OBVIOUS
  <2>1. CASE \E k \in Keys, v \in Values : Set(k, v)
    BY <2>1, SetKeepsDict
  <2>2. CASE \E k \in Keys : RemoveKey(k)
    BY <2>2, RemoveKeepsDict
  <2>3. CASE UNCHANGED <<buckets, count, history>>
    BY <2>3 DEF buckets, history, DictInv, Shape, Here
  <2>4. (\E k \in Keys : OutOfBounds(k)) \/ Finalize \/ UNCHANGED vars
          => UNCHANGED <<buckets, count, history>>
    BY DEF OutOfBounds, Finalize, vars
  <2> QED  BY <2>1, <2>2, <2>3, <2>4 DEF Next, Over
<1> QED  BY <1>1, <1>2, PTL DEF Spec

(* Every chain holds buckets, and the count stays in its bounds.           *)
THEOREM DictTypeOK == Spec => []TypeOK
<1>1. DictInv => TypeOK
  <2> SUFFICES ASSUME DictInv PROVE TypeOK
    OBVIOUS
  <2>1. size \in Nat \ {0} /\ Tidy(table, size) /\ DOMAIN table = 0 .. size - 1
    BY Domains DEF DictInv
  <2>2. ASSUME NEW s \in 0 .. size - 1, NEW i \in DOMAIN table[s]
        PROVE  table[s][i].key \in Keys /\ table[s][i].value \in Values
    <3>1. table[s][i] \in Buckets
      BY <2>1, Places, LenProperties
    <3> QED  BY <3>1 DEF Buckets
  <2> QED  BY <2>1, <2>2 DEF TypeOK, DictInv, Shape
<1> QED  BY <1>1, DictInvariant, PTL

(* dict.c:192: no duplicate sneaks into a dictionary, whatever the hashes  *)
(* of the keys are and whichever keys start which.                         *)
THEOREM DictNoDuplicates == Spec => []NoDuplicates
<1>1. DictInv => NoDuplicates
  <2> SUFFICES ASSUME DictInv PROVE NoDuplicates
    OBVIOUS
  <2>1. size \in Nat \ {0} /\ Tidy(table, size) /\ DOMAIN table = 0 .. size - 1
    BY Domains DEF DictInv
  <2>2. ASSUME NEW s \in 0 .. size - 1 PROVE DOMAIN table[s] = 1 .. Len(table[s])
    BY Domains DEF DictInv
  <2>3. ASSUME NEW s \in DOMAIN table, NEW t \in DOMAIN table,
               NEW i \in DOMAIN table[s], NEW j \in DOMAIN table[t]
        PROVE  /\ Slot(table[s][i].key, size) = s
               /\ table[s][i].key = table[t][j].key => s = t /\ i = j
    <3>1. /\ s \in 0 .. size - 1 /\ i \in 1 .. Len(table[s])
          /\ t \in 0 .. size - 1 /\ j \in 1 .. Len(table[t])
      BY <2>1, <2>2
    <3>2. Slot(table[s][i].key, size) = s
      BY <2>1, <3>1 DEF Tidy
    <3>3. ASSUME table[s][i].key = table[t][j].key PROVE s = t /\ i = j
      BY <2>1, <3>1, <3>3, OnePlace
    <3> QED  BY <3>2, <3>3
  <2> QED  BY <2>3 DEF NoDuplicates
<1> QED  BY <1>1, DictInvariant, PTL

(* The count covers what is in the table and what was lost on its way.     *)
THEOREM DictCountCovers == Spec => []CountCovers
<1>1. DictInv => CountCovers
  BY HeldIs DEF DictInv, CountCovers
<1> QED  BY <1>1, DictInvariant, PTL

-----------------------------------------------------------------------------
(* Lookup                                                                  *)

(* No key has the hash of one that it starts: strncmp over the length of a *)
(* key tells it from every key in its chain.                               *)
PrefixesHashApart == \A p \in PrefixPairs : KeyHash[p[1]] # KeyHash[p[2]]

(* Then a match is a bucket of the key.                                    *)
LEMMA MatchesIsKey ==
  ASSUME PrefixesHashApart, NEW k \in Keys, NEW b \in Buckets
  PROVE  Matches(k, b) <=> b.key = k
BY DEF PrefixesHashApart, Matches

(* The buckets are what was written and is not lost.                       *)
MapInv ==
  /\ \A b \in Here : b.key \in DOMAIN written \ lost /\ b.value = written[b.key]
  /\ \A k \in DOMAIN written \ lost : \E b \in Here : b.key = k

(* Mon_DictSet keeps the buckets and what was written in step.             *)
LEMMA SetKeepsMap ==
  ASSUME PrefixesHashApart, DictInv, MapInv, NEW k \in Keys, NEW v \in Values, Set(k, v)
  PROVE  MapInv'
<1> DEFINE d == Bucket(k, v)
<1>1. Shape /\ count \in Int /\ Here \subseteq Buckets
  BY HereAreBuckets DEF DictInv
<1>2. d.key = k /\ d.value = v
  BY DEF Bucket
<1>3. /\ DOMAIN Written(k, v) = DOMAIN written \cup {k}
      /\ Written(k, v)[k] = v
      /\ \A l \in DOMAIN written : l # k => Written(k, v)[l] = written[l]
  BY DEF Written
<1> HIDE DEF d
<1>4. CASE Overwrite(k, v)
  <2>1. /\ FindBucket(k) \in Here /\ FindBucket(k).key = k
        /\ Here' = (Here \ {FindBucket(k)}) \cup {d}
    BY <1>1, <1>4, OverwriteDoes, MatchesIsKey DEF d
  <2>2. \A c \in Here : c.key = k => c = FindBucket(k)
    BY <1>1, <2>1, Domains, OneBucket DEF Here
  <2>3. written' = Written(k, v) /\ lost' = lost
    BY <1>4 DEF Overwrite
  <2>4. k \in DOMAIN written \ lost
    BY <2>1 DEF MapInv
  <2>5. \A b \in Here' : b.key \in DOMAIN written' \ lost' /\ b.value = written'[b.key]
    BY <1>2, <1>3, <2>1, <2>2, <2>3, <2>4 DEF MapInv
  <2>6. \A l \in DOMAIN written' \ lost' : \E b \in Here' : b.key = l
    BY <1>2, <1>3, <2>1, <2>2, <2>3, <2>4 DEF MapInv
  <2> QED  BY <2>5, <2>6 DEF MapInv
<1>5. CASE Addable(k) /\ Insert(k, v)
  <2>1. Here' = Here \cup {d} /\ \A b \in Here : b.key # k
    BY <1>1, <1>5, InsertDoes, MatchesIsKey DEF Addable, d
  <2>2. written' = Written(k, v) /\ lost' = lost \ {k}
    BY <1>5 DEF Insert
  <2>3. \A b \in Here' : b.key \in DOMAIN written' \ lost' /\ b.value = written'[b.key]
    BY <1>2, <1>3, <2>1, <2>2 DEF MapInv
  <2>4. \A l \in DOMAIN written' \ lost' : \E b \in Here' : b.key = l
    BY <1>2, <1>3, <2>1, <2>2 DEF MapInv
  <2> QED  BY <2>3, <2>4 DEF MapInv
<1>6. CASE InsertNoMem
  <2>1. Here' = Here
    BY <1>1, <1>6, NoBucketAdded DEF InsertNoMem
  <2> QED  BY <1>6, <2>1 DEF InsertNoMem, MapInv
<1>7. CASE Addable(k) /\ InsertLost(k, v)
  <2>1. Here' = Here
    BY <1>1, <1>7, NoBucketAdded DEF InsertLost
  <2>2. \A b \in Here : b.key # k
    BY <1>1, <1>7, FindBucketIs, MatchesIsKey DEF Addable
  <2>3. written' = Written(k, v) /\ lost' = lost \cup {k}
    BY <1>7 DEF InsertLost
  <2>4. \A b \in Here' : b.key \in DOMAIN written' \ lost' /\ b.value = written'[b.key]
    BY <1>3, <2>1, <2>2, <2>3 DEF MapInv
  <2>5. \A l \in DOMAIN written' \ lost' : \E b \in Here' : b.key = l
    BY <1>3, <2>1, <2>2, <2>3 DEF MapInv
  <2> QED  BY <2>4, <2>5 DEF MapInv
<1> QED  BY <1>4, <1>5, <1>6, <1>7 DEF Set

(* So does Mon_DictRemoveKey.                                              *)
LEMMA RemoveKeepsMap ==
  ASSUME PrefixesHashApart, DictInv, MapInv, NEW k \in Keys, RemoveKey(k)
  PROVE  MapInv'
<1>1. Shape /\ count \in Int /\ Here \subseteq Buckets
  BY HereAreBuckets DEF DictInv
<1>2. /\ FindBucket(k) \in Here /\ FindBucket(k).key = k
      /\ Here' = Here \ {FindBucket(k)}
  BY <1>1, RemoveDoes, MatchesIsKey
<1>3. \A c \in Here : c.key = k => c = FindBucket(k)
  BY <1>1, <1>2, Domains, OneBucket DEF Here
<1>4. written' = Forgotten(k) /\ lost' = lost
  BY DEF RemoveKey
<1>5. /\ DOMAIN Forgotten(k) = DOMAIN written \ {k}
      /\ \A l \in DOMAIN written : l # k => Forgotten(k)[l] = written[l]
  BY DEF Forgotten
<1>6. \A b \in Here' : b.key \in DOMAIN written' \ lost' /\ b.value = written'[b.key]
  BY <1>2, <1>3, <1>4, <1>5 DEF MapInv
<1>7. \A l \in DOMAIN written' \ lost' : \E b \in Here' : b.key = l
  BY <1>2, <1>4, <1>5 DEF MapInv
<1> QED  BY <1>6, <1>7 DEF MapInv

(* In a dictionary whose buckets are in step with what was written, a      *)
(* lookup finds it.                                                        *)
LEMMA LookupFinds ==
  ASSUME PrefixesHashApart, DictInv, MapInv
  PROVE  FoundUnlessLost
<1>1. Shape /\ Here \subseteq Buckets
  BY HereAreBuckets DEF DictInv
<1>2. ASSUME NEW k \in Keys
      PROVE  TryGet(k) = IF k \in DOMAIN written \ lost THEN written[k] ELSE NULL
  <2>1. CASE FindBucket(k) = NULL
    <3>1. \A b \in Here : b.key # k
      BY <1>1, <2>1, FindBucketIs, MatchesIsKey
    <3>2. k \notin DOMAIN written \ lost
      BY <3>1 DEF MapInv
    <3> QED  BY <2>1, <3>2 DEF TryGet
  <2>2. CASE FindBucket(k) # NULL
    <3>1. FindBucket(k) \in Here /\ FindBucket(k).key = k
      BY <1>1, <2>2, FindBucketIs, MatchesIsKey
    <3>2. k \in DOMAIN written \ lost /\ FindBucket(k).value = written[k]
      BY <3>1 DEF MapInv
    <3> QED  BY <2>2, <3>2 DEF TryGet
  <2> QED  BY <2>1, <2>2
<1> QED  BY <1>2 DEF FoundUnlessLost

(* Where no two keys of one hash start alike, a lookup finds the value     *)
(* that was last set, and only that, unless the insertion itself was lost  *)
(* to a resize: no resize, removal, refused allocation or collision of     *)
(* hashes loses or changes another key's value.                            *)
THEOREM DictFoundUnlessLost ==
  ASSUME PrefixesHashApart
  PROVE  Spec => []FoundUnlessLost
<1>1. Init => MapInv
  <2> SUFFICES ASSUME Init PROVE MapInv
    OBVIOUS
  <2>1. table = NoBuckets(MIN_SIZE) /\ size = MIN_SIZE /\ written = << >>
    BY DEF Init
  <2>2. Here = {}
    BY <2>1, MinSizePos, NoBucketsTidy DEF Here
  <2>3. DOMAIN written = {}
    BY <2>1, EmptySeq
  <2> QED  BY <2>2, <2>3 DEF MapInv
<1>2. DictInv /\ MapInv /\ [Next]_vars => MapInv'
  <2> SUFFICES ASSUME DictInv, MapInv, [Next]_vars PROVE MapInv'
    OBVIOUS
  <2>1. CASE \E k \in Keys, v \in Values : Set(k, v)
    BY <2>1, SetKeepsMap
  <2>2. CASE \E k \in Keys : RemoveKey(k)
    BY <2>2, RemoveKeepsMap
  <2>3. CASE UNCHANGED <<buckets, count, history>>
    BY <2>3 DEF buckets, history, MapInv, Here
  <2>4. (\E k \in Keys : OutOfBounds(k)) \/ Finalize \/ UNCHANGED vars
          => UNCHANGED <<buckets, count, history>>
    BY DEF OutOfBounds, Finalize, vars
  <2> QED  BY <2>1, <2>2, <2>3, <2>4 DEF Next, Over
<1>3. DictInv /\ MapInv => FoundUnlessLost
  BY LookupFinds
<1> QED  BY <1>1, <1>2, <1>3, DictInvariant, PTL DEF Spec

=============================================================================
