--------------------------- MODULE MonVectorProofs ---------------------------
(***************************************************************************)
(* MonVector, for every set of values and addresses, every MIN_SIZE and    *)
(* every MAX_COUNT: the vector's elements always fit its buffer, every     *)
(* live buffer has one owner, shrinking never invites growing, and the     *)
(* vector implements VectorSeq.                                            *)
(***************************************************************************)
EXTENDS MonVector, TLAPS

(* The three invariants support each other: the cells a resize copies are  *)
(* the cells TypeOK gives the buffer, and their number is what ElementsFit *)
(* compares with the count.                                                *)
IInv == TypeOK /\ ElementsFit /\ OneOwner

-----------------------------------------------------------------------------
(* Arithmetic of the capacity (GrownCap, HalvedCap and TooLarge)           *)

(* A grown capacity exceeds the old one, whatever MIN_SIZE is.             *)
LEMMA GrownCapGrows ==
  ASSUME cap \in Nat
  PROVE  GrownCap \in Nat /\ GrownCap > cap
BY MinSizePos DEF GrownCap

(* A vector that is too large keeps a free cell when its capacity halves.  *)
LEMMA HalvedCapFits ==
  ASSUME cap \in Nat, count \in Nat, count > 0, TooLarge
  PROVE  /\ HalvedCap \in Nat
         /\ count - 1 < HalvedCap
         /\ HalvedCap < cap
BY MinSizePos DEF HalvedCap, TooLarge

(* Moving the tail down keeps every cell a value or unwritten, and makes   *)
(* each of the remaining elements a written one.                           *)
LEMMA ShiftedCells ==
  ASSUME IInv, NEW k \in 0 .. MAX_COUNT - 1, k < count
  PROVE  /\ Shifted(k) \in [0 .. cap - 1 -> Values \cup {JUNK}]
         /\ \A i \in 0 .. count - 2 : Shifted(k)[i] \in Values
BY MaxCountNat DEF IInv, TypeOK, ElementsFit, Shifted

-----------------------------------------------------------------------------
(* The invariant                                                           *)

(* Mon_VectorInit establishes the invariant.                               *)
LEMMA InitIInv == Init => IInv
BY MaxCountNat, MinSizePos, Distinct
DEF Init, IInv, TypeOK, ElementsFit, OneOwner, NoCells

(* Mon_VectorPush keeps it, whether it grows the buffer or fails to.       *)
LEMMA PushIInv ==
  ASSUME IInv, NEW v \in Values, Push(v)
  PROVE  IInv'
<1> USE DEF IInv, TypeOK, ElementsFit, OneOwner
<1>1. CASE PushNoMem(v)
  BY <1>1 DEF PushNoMem
<1>2. CASE PushInPlace(v)
  BY <1>2, MaxCountNat DEF PushInPlace, KeepBuffer, Push
<1>3. CASE PushGrow(v)
  <2> PICK b \in Buffers : Realloc(b, GrownCap)
    BY <1>3 DEF PushGrow
  <2>1. GrownCap \in Nat /\ GrownCap > cap
    BY GrownCapGrows
  <2>2. arr' = [Resized(arr, GrownCap) EXCEPT ![count] = v]
    BY <1>3 DEF PushGrow
  <2>3. arr' \in [0 .. cap' - 1 -> Values \cup {JUNK}]
    BY <2>1, <2>2 DEF Resized, Realloc
  <2>4. \A i \in 0 .. count' - 1 : arr'[i] \in Values
    BY <1>3, <2>1, <2>2, MaxCountNat DEF Resized, PushGrow
  <2>5. OneOwner' /\ heap' \in SUBSET Buffers /\ claimed' \in SUBSET heap'
    BY <1>3, Distinct DEF PushGrow, Realloc
  <2> QED
    BY <1>3, <2>1, <2>3, <2>4, <2>5, MaxCountNat, Distinct
    DEF Push, PushGrow, Realloc
<1> QED BY <1>1, <1>2, <1>3 DEF Push

(* The removals keep it, whether they shrink the buffer or fail to.        *)
LEMMA RemoveIInv ==
  ASSUME IInv, NEW k \in 0 .. MAX_COUNT - 1, Remove(k)
  PROVE  IInv'
<1>1. k < count
  BY DEF Remove
<1>2. /\ Shifted(k) \in [0 .. cap - 1 -> Values \cup {JUNK}]
      /\ \A i \in 0 .. count - 2 : Shifted(k)[i] \in Values
  BY <1>1, ShiftedCells
<1>3. count' = count - 1 /\ claimed' = claimed /\ count \in Nat /\ count > 0
  BY <1>1, MaxCountNat DEF Remove, IInv, TypeOK
<1> USE DEF IInv, TypeOK, ElementsFit, OneOwner
<1>4. CASE RemoveInPlace(k)
  BY <1>2, <1>3, <1>4, MaxCountNat DEF RemoveInPlace, KeepBuffer
<1>5. CASE RemoveShrink(k)
  <2> PICK b \in Buffers : Realloc(b, HalvedCap)
    BY <1>5 DEF RemoveShrink
  <2>1. HalvedCap \in Nat /\ count - 1 < HalvedCap /\ HalvedCap < cap
    BY <1>3, <1>5, HalvedCapFits DEF RemoveShrink
  <2>2. arr' = Resized(Shifted(k), HalvedCap)
    BY <1>5 DEF RemoveShrink
  <2>3. arr' \in [0 .. cap' - 1 -> Values \cup {JUNK}]
    BY <1>2, <2>1, <2>2 DEF Resized, Realloc
  <2>4. \A i \in 0 .. count' - 1 : arr'[i] \in Values
    BY <1>2, <1>3, <2>1, <2>2 DEF Resized
  <2>5. OneOwner' /\ heap' \in SUBSET Buffers /\ claimed' \in SUBSET heap'
    BY <1>3, Distinct DEF Realloc
  <2> QED
    BY <1>3, <2>1, <2>3, <2>4, <2>5, MaxCountNat, Distinct DEF Realloc
<1> QED BY <1>4, <1>5 DEF Remove

(* Every call keeps it.                                                    *)
LEMMA NextIInv == IInv /\ [Next]_vars => IInv'
<1> SUFFICES ASSUME IInv, [Next]_vars PROVE IInv'
  OBVIOUS
<1>1. ASSUME NEW v \in Values, Push(v) PROVE IInv'
  BY <1>1, PushIInv
<1>2. ASSUME NEW k \in 0 .. MAX_COUNT - 1, Remove(k) PROVE IInv'
  BY <1>2, RemoveIInv
<1> USE MaxCountNat, Distinct DEF IInv, TypeOK, ElementsFit, OneOwner
<1>3. ASSUME NEW v \in Values, GetIndex(v) PROVE IInv'
  BY <1>3 DEF GetIndex
<1>4. ASSUME NEW k \in 0 .. MAX_COUNT - 1, Get(k) PROVE IInv'
  BY <1>4 DEF Get
<1>5. CASE Clear
  BY <1>5 DEF Clear
<1>6. CASE Claim
  BY <1>6 DEF Claim, Reset, NoCells
<1>7. CASE Finalize
  BY <1>7 DEF Finalize, Reset, NoCells
<1>8. ASSUME NEW b \in claimed, FreeClaimed(b) PROVE IInv'
  BY <1>8 DEF FreeClaimed
<1>9. CASE UNCHANGED vars
  BY <1>9 DEF vars
<1> QED
  BY <1>1, <1>2, <1>3, <1>4, <1>5, <1>6, <1>7, <1>8, <1>9 DEF Next

(* Every state of a vector is well formed.                                 *)
THEOREM VectorInvariant == Spec => []IInv
BY InitIInv, NextIInv, PTL DEF Spec

(* The vector's fields are of their types, and its buffer has as many cells *)
(* as the capacity says: every resize sets both.                           *)
THEOREM VectorTypeOK == Spec => []TypeOK
BY VectorInvariant, PTL DEF IInv

(* The elements fit the buffer, and all of them were written.              *)
THEOREM VectorElementsFit == Spec => []ElementsFit
BY VectorInvariant, PTL DEF IInv

(* No buffer leaks or has two owners.                                      *)
THEOREM VectorOneOwner == Spec => []OneOwner
BY VectorInvariant, PTL DEF IInv

(* A remove that shrinks the buffer leaves room for the next push: only    *)
(* RemoveShrink makes a nonzero capacity smaller.                          *)
THEOREM VectorNoThrashing == Spec => NoThrashing
<1>1. ASSUME IInv, [Next]_vars
      PROVE  [cap' < cap /\ cap' # 0 => count' < cap']_vars
  <2> SUFFICES ASSUME cap' < cap, cap' # 0 PROVE count' < cap'
    OBVIOUS
  <2> USE <1>1 DEF IInv, TypeOK
  <2>1. ASSUME NEW v \in Values, Push(v) PROVE FALSE
    BY <2>1, GrownCapGrows
    DEF Push, PushNoMem, PushInPlace, PushGrow, KeepBuffer, Realloc
  <2>2. ASSUME NEW k \in 0 .. MAX_COUNT - 1, Remove(k) PROVE count' < cap'
    <3>1. RemoveShrink(k)
      BY <2>2 DEF Remove, RemoveInPlace, KeepBuffer
    <3>2. count \in Nat /\ count > 0 /\ count' = count - 1
      BY <2>2, MaxCountNat DEF Remove
    <3>3. count - 1 < HalvedCap /\ cap' = HalvedCap
      BY <3>1, <3>2, HalvedCapFits DEF RemoveShrink, Realloc
    <3> QED BY <3>2, <3>3
  <2>3. ASSUME NEW v \in Values, GetIndex(v) PROVE FALSE
    BY <2>3 DEF GetIndex
  <2>4. ASSUME NEW k \in 0 .. MAX_COUNT - 1, Get(k) PROVE FALSE
    BY <2>4 DEF Get
  <2>5. CASE Clear \/ Claim \/ Finalize
    BY <2>5 DEF Clear, Claim, Finalize, Reset
  <2>6. ASSUME NEW b \in claimed, FreeClaimed(b) PROVE FALSE
    BY <2>6 DEF FreeClaimed
  <2>7. CASE UNCHANGED vars
    BY <2>7 DEF vars
  <2> QED
    BY <2>1, <2>2, <2>3, <2>4, <2>5, <2>6, <2>7 DEF Next
<1> QED
  BY <1>1, VectorInvariant, PTL DEF Spec, NoThrashing

-----------------------------------------------------------------------------
(* Refinement                                                              *)

(* A resized buffer still holds the elements, and the pushed one is last.  *)
LEMMA PushRefines ==
  ASSUME IInv, NEW v \in Values, Push(v)
  PROVE  Abstract!Push(v)
<1> USE MaxCountNat DEF IInv, TypeOK, ElementsFit, Abstract!Push
<1>1. CASE PushNoMem(v)
  BY <1>1 DEF PushNoMem
<1>2. CASE PushInPlace(v)
  BY <1>2 DEF PushInPlace, KeepBuffer
<1>3. CASE PushGrow(v)
  <2>1. GrownCap \in Nat /\ GrownCap > cap
    BY GrownCapGrows
  <2>2. arr' = [Resized(arr, GrownCap) EXCEPT ![count] = v]
        /\ count' = count + 1 /\ ret' = SUCCESS
    BY <1>3 DEF PushGrow
  <2>3. \A i \in 0 .. count : arr'[i] = IF i = count THEN v ELSE arr[i]
    BY <1>3, <2>1, <2>2 DEF Resized, PushGrow
  <2> QED BY <2>2, <2>3
<1> QED BY <1>1, <1>2, <1>3 DEF Push

(* The elements above the removed index move down, in place or resized.    *)
LEMMA RemoveRefines ==
  ASSUME IInv, NEW k \in 0 .. MAX_COUNT - 1, Remove(k)
  PROVE  k \in 0 .. count - 1 /\ Abstract!Remove(k)
<1> USE MaxCountNat DEF IInv, TypeOK, ElementsFit
<1>1. k \in 0 .. count - 1 /\ count' = count - 1 /\ ret' = VOID
  BY DEF Remove
<1>2. \A i \in 0 .. count - 2 : arr'[i] = IF i < k THEN arr[i] ELSE arr[i + 1]
  <2>1. \A i \in 0 .. count - 2 : Shifted(k)[i] = IF i < k THEN arr[i] ELSE arr[i + 1]
    BY <1>1 DEF Shifted
  <2>2. CASE RemoveInPlace(k)
    BY <2>1, <2>2 DEF RemoveInPlace
  <2>3. CASE RemoveShrink(k)
    <3>1. HalvedCap \in Nat /\ count - 1 < HalvedCap /\ HalvedCap < cap
      BY <1>1, <2>3, HalvedCapFits DEF RemoveShrink
    <3>2. arr' = Resized(Shifted(k), HalvedCap)
      BY <2>3 DEF RemoveShrink
    <3> QED BY <1>1, <2>1, <3>1, <3>2 DEF Resized
  <2> QED BY <2>2, <2>3 DEF Remove
<1> QED BY <1>1, <1>2 DEF Abstract!Remove

(* Every call is a step of VectorSeq, or none.                             *)
LEMMA NextRefines ==
  IInv /\ [Next]_vars => [Abstract!Next]_(Abstract!vars)
<1> SUFFICES ASSUME IInv, [Next]_vars
             PROVE  Abstract!Next \/ UNCHANGED Abstract!vars
  BY DEF Abstract!vars
<1> USE MaxCountNat DEF IInv, TypeOK, ElementsFit
<1>1. ASSUME NEW v \in Values, Push(v) PROVE Abstract!Next
  BY <1>1, PushRefines DEF Abstract!Next
<1>2. ASSUME NEW k \in 0 .. MAX_COUNT - 1, Remove(k) PROVE Abstract!Next
  BY <1>2, RemoveRefines DEF Abstract!Next
<1>3. ASSUME NEW v \in Values, GetIndex(v) PROVE Abstract!Next
  <2>1. Abstract!IndexOf(v)
    BY <1>3 DEF GetIndex, Occurrences, Abstract!IndexOf
  <2> QED BY <2>1 DEF Abstract!Next
<1>4. ASSUME NEW k \in 0 .. MAX_COUNT - 1, Get(k) PROVE Abstract!Next
  <2>1. k \in 0 .. count - 1 /\ Abstract!Get(k)
    BY <1>4 DEF Get, Abstract!Get
  <2> QED BY <2>1 DEF Abstract!Next
<1>5. CASE Clear \/ Claim \/ Finalize
  <2>1. Abstract!Empty
    BY <1>5 DEF Clear, Claim, Finalize, Reset, NoCells, Abstract!Empty
  <2> QED BY <2>1 DEF Abstract!Next
<1>6. ASSUME NEW b \in claimed, FreeClaimed(b) PROVE UNCHANGED Abstract!vars
  BY <1>6 DEF FreeClaimed, Abstract!vars
<1>7. CASE UNCHANGED vars
  BY <1>7 DEF vars, Abstract!vars
<1> QED
  BY <1>1, <1>2, <1>3, <1>4, <1>5, <1>6, <1>7 DEF Next

(* The vector implements the sequence its header promises.                 *)
THEOREM VectorIsSequence == Spec => IsSequence
<1>1. Init => Abstract!Init
  BY DEF Init, Abstract!Init
<1> QED
  BY <1>1, VectorInvariant, NextRefines, PTL DEF Spec, IsSequence, Abstract!Spec
=============================================================================
