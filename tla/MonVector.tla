------------------------------ MODULE MonVector ------------------------------
(***************************************************************************)
(* The growable pointer vector of src/src/libmonga/vector.c, on which the  *)
(* scopes, the definition groups and every list of AST nodes are built.    *)
(*                                                                         *)
(* A vector is _arr (here the buffer buf and its cells arr), _count and    *)
(* _cap.  The heap is the set of buffers allocated and not yet freed;      *)
(* malloc returns any buffer that is not live, realloc may stay in place   *)
(* or move, and both may fail.  A caller obeys the asserted preconditions  *)
(* (an index is below the count).                                          *)
(***************************************************************************)
EXTENDS Integers

CONSTANTS
  Values, SUCCESS, NOMEM, VOID,  \* as in VectorSeq
  Buffers,    \* buffer addresses malloc may return
  NULL,       \* the null pointer
  JUNK,       \* the contents of memory nobody has written
  MIN_SIZE,   \* MIN_SIZE, which is DEFAULT_CAP (16 in the code)
  MAX_COUNT   \* bound of the model: callers keep at most this many elements

ASSUME MinSizePos == MIN_SIZE \in Nat \ {0}
ASSUME MaxCountNat == MAX_COUNT \in Nat
ASSUME Distinct ==
  /\ NULL \notin Buffers
  /\ JUNK \notin Values
  /\ SUCCESS # NOMEM

VARIABLES
  buf,      \* _arr: the buffer's address or NULL
  arr,      \* the cells of that buffer, 0 .. cap - 1
  count,    \* _count
  cap,      \* _cap
  heap,     \* live buffers
  claimed,  \* live buffers a caller took over with Mon_VectorClaim
  ret       \* the last call's result

vars == <<buf, arr, count, cap, heap, claimed, ret>>

NoCells == [i \in {} |-> VOID]

-----------------------------------------------------------------------------
(* Allocation                                                              *)

\* realloc(_arr, n) succeeds with address b; malloc(n) when _arr is NULL.
Realloc(b, n) ==
  /\ b \in Buffers \ (heap \ {buf})
  /\ buf' = b
  /\ cap' = n
  /\ heap' = (heap \ {buf}) \cup {b}

\* The first n cells of a resized buffer that held the given cells.
Resized(cells, n) == [i \in 0 .. n - 1 |-> IF i < cap THEN cells[i] ELSE JUNK]

KeepBuffer == UNCHANGED <<buf, cap, heap>>

-----------------------------------------------------------------------------
(* Mon_VectorInit, after which the operations happen in any order           *)

Init ==
  /\ buf = NULL /\ arr = NoCells
  /\ count = 0 /\ cap = 0
  /\ heap = {} /\ claimed = {}
  /\ ret = VOID

GrownCap == IF 2 * cap < MIN_SIZE THEN MIN_SIZE ELSE 2 * cap

\* Mutant: the element is stored before the buffer is known to have room.
PushNoMemCounts(v) ==
  /\ count = cap
  /\ ret' = NOMEM
  /\ count' = count + 1
  /\ UNCHANGED <<buf, arr, cap, heap, claimed>>

\* Mon_VectorPush, the allocation fails: the vector is as before.
PushNoMem(v) ==
  /\ count = cap
  /\ ret' = NOMEM
  /\ UNCHANGED <<buf, arr, count, cap, heap, claimed>>

PushGrow(v) ==
  /\ count = cap
  /\ \E b \in Buffers : Realloc(b, GrownCap)
  /\ arr' = [Resized(arr, GrownCap) EXCEPT ![count] = v]
  /\ count' = count + 1
  /\ ret' = SUCCESS
  /\ UNCHANGED claimed

PushInPlace(v) ==
  /\ count # cap
  /\ KeepBuffer
  /\ arr' = [arr EXCEPT ![count] = v]
  /\ count' = count + 1
  /\ ret' = SUCCESS
  /\ UNCHANGED claimed

Push(v) ==
  /\ count < MAX_COUNT
  /\ PushNoMem(v) \/ PushGrow(v) \/ PushInPlace(v)

-----------------------------------------------------------------------------
(* Mon_VectorRemove, and Mon_VectorRemoveLast at count - 1                  *)

\* Mutant: the loop stops one element early.
ShiftedShort(k) ==
  [i \in 0 .. cap - 1 |-> IF k <= i /\ i < count - 2 THEN arr[i + 1] ELSE arr[i]]

\* The cells after the elements above index k moved down by one; the cell
\* behind the last element keeps its old pointer.
Shifted(k) ==
  [i \in 0 .. cap - 1 |-> IF k <= i /\ i < count - 1 THEN arr[i + 1] ELSE arr[i]]

HalvedCap == IF cap \div 2 > MIN_SIZE THEN cap \div 2 ELSE MIN_SIZE

\* Mutant: shrink as soon as the buffer is half empty.
TooLargeEager == cap > MIN_SIZE /\ count - 1 <= cap \div 2

\* Less than a third of the capacity is used once the element is gone.
TooLarge == cap > MIN_SIZE /\ count - 1 < cap \div 3

\* A failed shrink keeps the larger buffer.
RemoveInPlace(k) == arr' = Shifted(k) /\ KeepBuffer

RemoveShrink(k) ==
  /\ TooLarge
  /\ \E b \in Buffers : Realloc(b, HalvedCap)
  /\ arr' = Resized(Shifted(k), HalvedCap)

Remove(k) ==
  /\ k < count
  /\ RemoveInPlace(k) \/ RemoveShrink(k)
  /\ count' = count - 1
  /\ ret' = VOID
  /\ UNCHANGED claimed

-----------------------------------------------------------------------------
(* Emptying, handing over and finalizing                                   *)

Clear ==
  /\ count' = 0
  /\ ret' = VOID
  /\ UNCHANGED <<buf, arr, cap, heap, claimed>>

\* Mutant: the vector keeps the pointer it gave away.
ClaimShares ==
  /\ claimed' = claimed \cup ({buf} \ {NULL})
  /\ count' = 0
  /\ ret' = VOID
  /\ UNCHANGED <<buf, arr, cap, heap>>

\* Mutant: the capacity survives the buffer.
ResetKeepsCap ==
  buf' = NULL /\ arr' = NoCells /\ count' = 0 /\ cap' = cap /\ ret' = VOID

Reset == buf' = NULL /\ arr' = NoCells /\ count' = 0 /\ cap' = 0 /\ ret' = VOID

\* Mon_VectorClaim: the buffer, if there is one, now belongs to the caller.
Claim ==
  /\ Reset
  /\ claimed' = claimed \cup ({buf} \ {NULL})
  /\ UNCHANGED heap

\* Mon_VectorFinalize, which may be repeated and followed by new pushes.
Finalize ==
  /\ Reset
  /\ heap' = heap \ {buf}
  /\ UNCHANGED claimed

\* A caller frees a buffer that it claimed.
FreeClaimed(b) ==
  /\ claimed' = claimed \ {b}
  /\ heap' = heap \ {b}
  /\ UNCHANGED <<buf, arr, count, cap, ret>>

-----------------------------------------------------------------------------
(* Reading                                                                 *)

Get(k) ==
  /\ k < count
  /\ ret' = arr[k]
  /\ UNCHANGED <<buf, arr, count, cap, heap, claimed>>

Occurrences(v) == {i \in 0 .. count - 1 : arr[i] = v}

\* Mon_VectorGetIndex: the first match, and -1 when there is none.
GetIndex(v) ==
  /\ \/ ret' = -1 /\ Occurrences(v) = {}
     \/ ret' \in Occurrences(v) /\ \A i \in Occurrences(v) : ret' <= i
  /\ UNCHANGED <<buf, arr, count, cap, heap, claimed>>

Next ==
  \/ \E v \in Values : Push(v) \/ GetIndex(v)
  \/ \E k \in 0 .. MAX_COUNT - 1 : Remove(k) \/ Get(k)
  \/ Clear
  \/ Claim
  \/ Finalize
  \/ \E b \in claimed : FreeClaimed(b)

Spec == Init /\ [][Next]_vars

-----------------------------------------------------------------------------
(* Properties                                                              *)

TypeOK ==
  /\ buf \in Buffers \cup {NULL}
  /\ count \in 0 .. MAX_COUNT
  /\ cap \in Nat
  /\ arr \in [0 .. cap - 1 -> Values \cup {JUNK}]
  /\ heap \in SUBSET Buffers
  /\ claimed \in SUBSET heap

(* The elements fit the buffer, which is absent exactly when the capacity  *)
(* is zero, and every slot below the count was written: growing copies the *)
(* old cells, and shrinking never cuts an element off.                     *)
ElementsFit ==
  /\ count <= cap
  /\ cap = 0 <=> buf = NULL
  /\ \A i \in 0 .. count - 1 : arr[i] \in Values

(* Every live buffer has exactly one owner, the vector or the caller that  *)
(* claimed it: nothing leaks when a resize fails or moves, nothing is      *)
(* freed twice when a claimed or finalized vector is finalized again.      *)
OneOwner ==
  /\ buf \notin claimed
  /\ heap = claimed \cup ({buf} \ {NULL})

(* A shrink leaves a free cell, so the push after a remove never reallocs  *)
(* the buffer that the remove has just reallocated.                        *)
NoThrashing == [][cap' < cap /\ cap' # 0 => count' < cap']_vars

(* The vector is a sequence: resizing, moving and failing are invisible.   *)
Abstract ==
  INSTANCE VectorSeq WITH
    len <- count, elems <- [i \in 0 .. count - 1 |-> arr[i]]

IsSequence == Abstract!Spec
=============================================================================
