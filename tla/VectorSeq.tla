------------------------------ MODULE VectorSeq ------------------------------
(***************************************************************************)
(* What the vector of src/src/libmonga/vector.c promises its callers: a    *)
(* finite sequence of pointers, with the return value of the last call.    *)
(* Nothing is said of buffers or capacities.  An operation that needs      *)
(* memory either does its work or leaves the sequence alone.               *)
(***************************************************************************)
EXTENDS Integers

CONSTANTS
  Values,   \* the pointers a caller stores
  SUCCESS,  \* MON_SUCCESS
  NOMEM,    \* MON_ERR_NOMEM
  VOID      \* what an operation without a result returns

VARIABLES
  len,      \* Mon_VectorCount
  elems,    \* the elements, a function on 0 .. len - 1
  ret       \* what the last call returned

vars == <<len, elems, ret>>

Init == len = 0 /\ elems = [i \in {} |-> VOID] /\ ret = VOID

Push(v) ==
  \/ /\ len' = len + 1
     /\ elems' = [i \in 0 .. len |-> IF i = len THEN v ELSE elems[i]]
     /\ ret' = SUCCESS
  \/ /\ ret' = NOMEM
     /\ UNCHANGED <<len, elems>>

Remove(k) ==
  /\ len' = len - 1
  /\ elems' = [i \in 0 .. len - 2 |-> IF i < k THEN elems[i] ELSE elems[i + 1]]
  /\ ret' = VOID

\* Clear, Claim and Finalize all leave an empty sequence.
Empty == len' = 0 /\ elems' = [i \in {} |-> VOID] /\ ret' = VOID

Get(k) == ret' = elems[k] /\ UNCHANGED <<len, elems>>

\* The least index of v, or -1 when v is not an element.
IndexOf(v) ==
  /\ \/ /\ ret' \in 0 .. len - 1
        /\ elems[ret'] = v
        /\ \A i \in 0 .. len - 1 : elems[i] = v => ret' <= i
     \/ ret' = -1 /\ \A i \in 0 .. len - 1 : elems[i] # v
  /\ UNCHANGED <<len, elems>>

\* A release of memory that the caller owns is invisible here.
Next ==
  \/ \E v \in Values : Push(v) \/ IndexOf(v)
  \/ \E k \in 0 .. len - 1 : Remove(k) \/ Get(k)
  \/ Empty

Spec == Init /\ [][Next]_vars
=============================================================================
