------------------------------- MODULE MonDict -------------------------------
(***************************************************************************)
(* The hash table of src/src/libmonga/dict.c: an array of size chains of   *)
(* buckets, a bucket being a key and its value.  The hash of a key is a    *)
(* signed int; the remainder of a negative one is negative in C, and is    *)
(* then no index of the array.                                             *)
(***************************************************************************)
EXTENDS Integers, FiniteSets, SequencesExt

CONSTANTS
  Keys, Values,
  KeyHash,   \* Hash: a function on the keys
  PrefixPairs, \* the pairs <<k, l>> in which key k is a proper prefix of key l
  MIN_SIZE,  \* MIN_SIZE (8 in the code)
  MAX_COUNT, \* bound of the model: no new key is set at this count
  NULL

ASSUME HashIsInt == KeyHash \in [Keys -> Int]
ASSUME MinSizePos == MIN_SIZE \in Nat \ {0}
ASSUME PairsOfKeys == PrefixPairs \subseteq Keys \X Keys
ASSUME CountIsBounded == MAX_COUNT \in Nat
ASSUME NullIsNoBucket == NULL \notin [key : Keys, value : Values]

VARIABLES
  table,    \* _buckets, a function on 0 .. size - 1
  size,     \* _size
  count,    \* _count
  status,   \* "usable", or why the dictionary is not
  \* history
  written,  \* the map that the results of the calls describe
  lost,     \* the keys whose bucket was stored into freed memory
  starved   \* some resize found no memory

buckets == <<table, size>>
history == <<written, lost, starved>>
vars == <<buckets, count, status, history>>

Bucket(k, v) == [key |-> k, value |-> v]
NoBuckets(n) == [s \in 0 .. n - 1 |-> << >>]

\* hash % size
Slot(k, n) == KeyHash[k] % n
InBounds(k, n) == KeyHash[k] >= 0 \/ KeyHash[k] % n = 0

\* strncmp over the length of k, which the bucket's key may exceed
Matches(k, b) == KeyHash[k] = KeyHash[b.key] /\ (b.key = k \/ <<k, b.key>> \in PrefixPairs)

\* FindBucketProxy: the first match in a chain, or the place behind its end
Proxy(chain, k) == SelectInSeq(chain, LAMBDA b : Matches(k, b))
FindBucket(k) ==
  LET chain == table[Slot(k, size)]
  IN  IF Proxy(chain, k) = 0 THEN NULL ELSE chain[Proxy(chain, k)]

\* Mon_DictTryGet, Mon_DictHasKey
TryGet(k) == IF FindBucket(k) = NULL THEN NULL ELSE FindBucket(k).value

\* What the API answers is remembered as a map.
Written(k, v) == [l \in DOMAIN written \cup {k} |-> IF l = k THEN v ELSE written[l]]
Forgotten(k) == [l \in DOMAIN written \ {k} |-> written[l]]

-----------------------------------------------------------------------------
(* Resizing                                                                *)

\* Mutant of GetIdealSize: the count is compared after it has passed the size.
IdealSizeLate(c, n) ==
  CASE c > n -> 2 * n
    [] c <= n /\ c * 3 < n -> IF n \div 2 > MIN_SIZE THEN n \div 2 ELSE MIN_SIZE
    [] OTHER -> n

GetIdealSize(c, n) ==
  CASE c * 11 >= n * 10 -> 2 * n
    [] c * 11 < n * 10 /\ c * 3 < n -> IF n \div 2 > MIN_SIZE THEN n \div 2 ELSE MIN_SIZE
    [] OTHER -> n

\* A bucket is moved behind a chain, or in place of a match and what follows it.
Moved(chain, b) ==
  IF Proxy(chain, b.key) = 0 THEN Append(chain, b)
  ELSE Append(SubSeq(chain, 1, Proxy(chain, b.key) - 1), b)

\* Mutant of MovedChain: the slots are those of the old size.
MovedChainAtOldSize(t, chain, n) ==
  LET moved[i \in 0 .. Len(chain)] ==
        IF i = 0 THEN t
        ELSE [moved[i - 1] EXCEPT ![Slot(chain[i].key, size) % n] = Moved(@, chain[i])]
  IN  moved[Len(chain)]

\* FOREACH_BUCKET, the inner loop: the buckets of a chain move to t, of size n.
MovedChain(t, chain, n) ==
  LET moved[i \in 0 .. Len(chain)] ==
        IF i = 0 THEN t
        ELSE [moved[i - 1] EXCEPT ![Slot(chain[i].key, n)] = Moved(@, chain[i])]
  IN  moved[Len(chain)]

\* The outer loop, over the chains of the old table.
Rehashed(chains, n) ==
  LET moved[s \in 0 .. size] ==
        IF s = 0 THEN NoBuckets(n) ELSE MovedChain(moved[s - 1], chains[s - 1], n)
  IN  moved[size]

\* A rehash to size n would compute an index that is out of bounds.
Misplaces(chains, n) ==
  /\ n # size
  /\ \E s \in DOMAIN chains : \E i \in DOMAIN chains[s] : ~InBounds(chains[s][i].key, n)

\* Mutant of Rehash: _size is not set.
RehashKeepsSize(chains, n) ==
  /\ n # size /\ ~Misplaces(chains, n)
  /\ table' = Rehashed(chains, n)
  /\ UNCHANGED <<size, starved>>

\* Rehash of the given chains to a size that is ideal, when all its allocations
\* are made.
Rehash(chains, n) ==
  /\ n # size /\ ~Misplaces(chains, n)
  /\ table' = Rehashed(chains, n) /\ size' = n
  /\ UNCHANGED starved

\* Mutant of KeepSize: an array that was filled up to slot m when memory ran out
\* takes the place of the old one.
KeepHalf(chains, n) ==
  \/ n = size /\ table' = chains /\ UNCHANGED <<size, starved>>
  \/ /\ n # size /\ ~Misplaces(chains, n)
     /\ \E m \in DOMAIN chains :
          table' = Rehashed([s \in DOMAIN chains |-> IF s < m THEN chains[s] ELSE << >>], n)
     /\ size' = n /\ starved' = TRUE

\* The size stays, because it is ideal or because a rehash failed: that one
\* frees its own array with the buckets in it, as many as it had moved, and the
\* old array was not touched.
KeepSize(chains, n) ==
  /\ table' = chains
  /\ starved' = (starved \/ n # size)
  /\ UNCHANGED size

-----------------------------------------------------------------------------
(* Mon_DictSet                                                             *)

\* The key, or one that it starts, has a bucket.
Overwrite(k, v) ==
  /\ FindBucket(k) # NULL
  /\ table' = [table EXCEPT ![Slot(k, size)][Proxy(table[Slot(k, size)], k)].value = v]
  /\ written' = Written(k, v)
  /\ UNCHANGED <<size, count, status, lost, starved>>

SetIdeal == GetIdealSize(count + 1, size)

\* The size is kept, if only because the rehash failed: the proxy is the end
\* of the chain.
Insert(k, v) ==
  /\ KeepSize([table EXCEPT ![Slot(k, size)] = Append(@, Bucket(k, v))], SetIdeal)
  /\ count' = count + 1
  /\ written' = Written(k, v)
  /\ lost' = lost \ {k}
  /\ UNCHANGED status

\* The bucket cannot be allocated, whether or not the table was resized.
InsertNoMem ==
  /\ KeepSize(table, SetIdeal) \/ Rehash(table, SetIdeal)
  /\ UNCHANGED <<count, status, written, lost>>

\* Mutant of InsertLost: the new bucket is not counted.
InsertLostUncounted(k, v) ==
  /\ Rehash(table, SetIdeal)
  /\ written' = Written(k, v)
  /\ lost' = lost \cup {k}
  /\ status' \in {"usable", "HEAP_CORRUPT"}
  /\ UNCHANGED count

\* The table was resized: the proxy points into freed memory, and the bucket
\* stored there is lost, if nothing worse happens to the heap.
InsertLost(k, v) ==
  /\ Rehash(table, SetIdeal)
  /\ count' = count + 1
  /\ written' = Written(k, v)
  /\ lost' = lost \cup {k}
  /\ status' \in {"usable", "HEAP_CORRUPT"}

Usable(k) == status = "usable" /\ InBounds(k, size)
Addable(k) == FindBucket(k) = NULL /\ count < MAX_COUNT

Set(k, v) ==
  /\ Usable(k)
  /\ \/ Overwrite(k, v)
     \/ Addable(k) /\ (Insert(k, v) \/ InsertNoMem \/ InsertLost(k, v))

-----------------------------------------------------------------------------
(* Mon_DictRemoveKey, Mon_DictFinalize                                     *)

\* Mutant of Unlinked: the rest of the chain goes with the bucket.
UnlinkedWithRest(k) == [table EXCEPT ![Slot(k, size)] = SubSeq(@, 1, Proxy(@, k) - 1)]

Unlinked(k) == [table EXCEPT ![Slot(k, size)] = RemoveAt(@, Proxy(@, k))]

RemoveIdeal == GetIdealSize(count - 1, size)

\* The bucket is unlinked, and the table resized when that is ideal now.
RemoveKey(k) ==
  /\ Usable(k) /\ FindBucket(k) # NULL
  /\ KeepSize(Unlinked(k), RemoveIdeal) \/ Rehash(Unlinked(k), RemoveIdeal)
  /\ count' = count - 1
  /\ written' = Forgotten(k)
  /\ UNCHANGED <<status, lost>>

Finalize ==
  /\ status = "usable"
  /\ status' = "finalized"
  /\ UNCHANGED <<buckets, count, history>>

\* An index before the array: of the key itself, or of a bucket to be moved.
OutOfBounds(k) ==
  /\ status = "usable"
  /\ \/ ~InBounds(k, size)
     \/ InBounds(k, size) /\ Addable(k) /\ Misplaces(table, SetIdeal)
     \/ InBounds(k, size) /\ FindBucket(k) # NULL /\ Misplaces(Unlinked(k), RemoveIdeal)
  /\ status' = "OUT_OF_BOUNDS"
  /\ UNCHANGED <<buckets, count, history>>

-----------------------------------------------------------------------------
Init ==
  /\ table = NoBuckets(MIN_SIZE) /\ size = MIN_SIZE
  /\ count = 0
  /\ status = "usable"
  /\ written = << >> /\ lost = {} /\ starved = FALSE

\* The dictionary is gone, or the process is.
Over == status # "usable" /\ UNCHANGED vars

Next ==
  \/ \E k \in Keys, v \in Values : Set(k, v)
  \/ \E k \in Keys : RemoveKey(k) \/ OutOfBounds(k)
  \/ Finalize
  \/ Over

Spec == Init /\ [][Next]_vars

-----------------------------------------------------------------------------
(* Properties                                                              *)

\* The chains hold buckets of keys with values, and the history is of keys.
TypeOK ==
  /\ size \in Nat /\ size >= MIN_SIZE
  /\ DOMAIN table = 0 .. size - 1
  /\ \A s \in DOMAIN table : \A i \in DOMAIN table[s] :
       table[s][i].key \in Keys /\ table[s][i].value \in Values
  /\ count \in 0 .. MAX_COUNT
  /\ DOMAIN written \subseteq Keys /\ lost \subseteq Keys
  /\ starved \in BOOLEAN

\* dict.c:192: a duplicate never sneaks into the dictionary: a key has one
\* bucket, in the chain that its hash selects, through every resize.
NoDuplicates ==
  \A s, t \in DOMAIN table : \A i \in DOMAIN table[s], j \in DOMAIN table[t] :
    /\ Slot(table[s][i].key, size) = s
    /\ table[s][i].key = table[t][j].key => s = t /\ i = j

\* Whatever was set, removed, resized or refused for want of memory before, a
\* lookup finds the value last set, and nothing where there is none; the only
\* keys that go missing are those whose own insertion resized the table.
FoundUnlessLost ==
  \A k \in Keys : InBounds(k, size) =>
    TryGet(k) = IF k \in DOMAIN written \ lost THEN written[k] ELSE NULL

\* The keys that have a bucket.
Held == {k \in Keys : \E s \in DOMAIN table : \E i \in DOMAIN table[s] : table[s][i].key = k}

\* The count covers the buckets and the lost keys: it never falls behind what
\* is there, so that the load it bounds is the real one.
CountCovers == count >= Cardinality(Held) + Cardinality(lost)

\* GetIdealSize keeps the load below 10/11: as long as resizing finds memory,
\* the table has more slots than buckets, the lost ones included, however
\* growing and shrinking alternate.
LoadBounded == ~starved => 11 * count < 10 * size
=============================================================================
