-------------------------------- MODULE Types --------------------------------
(***************************************************************************)
(* The type rules of src/src/libmonga/sem/types.c, as operators on a type  *)
(* table tt: a function from type identities (the Mon_AstTypeDef pointers) *)
(* to what the rules read of a type definition and its description.        *)
(*                                                                         *)
(* A type description is an array of arrays ... of a base, so a table      *)
(* entry is flat:                                                          *)
(*   dims    how many array layers surround the base, 0 for none           *)
(*   kind    of the base: primitive, special, alias or record              *)
(*   code    the type code of a primitive base                             *)
(*   to      the type name an alias base gives                             *)
(*   target  the type it was resolved to                                   *)
(*   fields  of a record base: a sequence of [name, type, sem], sem being  *)
(*           the type that the field's type name was resolved to           *)
(*   inner   the element type of layer 1 (innermost) to dims (outermost)   *)
(***************************************************************************)
EXTENDS Integers, Sequences, FiniteSets

CONSTANTS
  \* BUILTIN_TABLE->types, built by builtins.c
  tChar, tByte, tShort, tInt, tLong, tFloat, tDouble, tVoid, tIntPtr,
  tNull, tError, tString,
  NULL,   \* the null pointer
  LOOP    \* stands for the answer of a call that never returns

Builtin(kind, code) ==
  [name |-> code, dims |-> 0, kind |-> kind, code |-> code, to |-> "",
   target |-> NULL, fields |-> << >>, inner |-> << >>]

\* ConstructBuiltinTypes: twelve types, three of them without a primitive code.
BuiltinTypes ==
  [t \in {tChar, tByte, tShort, tInt, tLong, tFloat, tDouble, tVoid, tIntPtr,
          tNull, tError, tString} |->
     CASE t = tChar   -> Builtin("primitive", "char")
       [] t = tByte   -> Builtin("primitive", "byte")
       [] t = tShort  -> Builtin("primitive", "short")
       [] t = tInt    -> Builtin("primitive", "int")
       [] t = tLong   -> Builtin("primitive", "long")
       [] t = tFloat  -> Builtin("primitive", "float")
       [] t = tDouble -> Builtin("primitive", "double")
       [] t = tVoid   -> Builtin("primitive", "void")
       [] t = tIntPtr -> Builtin("primitive", "intptr")
       [] t = tNull   -> Builtin("special", "null")
       [] t = tError  -> Builtin("special", "error")
       [] t = tString -> Builtin("special", "string")]

IsAlias(tt, t) == t \in DOMAIN tt /\ tt[t].dims = 0 /\ tt[t].kind = "alias"
IsArray(tt, t) == tt[t].dims > 0
HasDesc(tt, t, kind) == tt[t].dims = 0 /\ tt[t].kind = kind

\* The while loop of GetUnderlyingType.  A chain that is still an alias after
\* as many steps as there are aliases is a cycle, which the loop never leaves.
GetUnderlyingType(tt, t) ==
  LET aliases == {a \in DOMAIN tt : IsAlias(tt, a)}
      after[n \in 0 .. Cardinality(aliases)] ==
        IF n = 0 THEN t
        ELSE IF after[n - 1] \in aliases THEN tt[after[n - 1]].target
        ELSE after[n - 1]
      end == after[Cardinality(aliases)]
  IN  IF end \in aliases THEN LOOP ELSE end

-----------------------------------------------------------------------------
(* The rules below are applied to types whose alias chain ends             *)

HasCode(tt, t, codes) ==
  LET u == GetUnderlyingType(tt, t)
  IN  u = tError \/ (HasDesc(tt, u, "primitive") /\ tt[u].code \in codes)

IsIntegerType(tt, t) == HasCode(tt, t, {"intptr", "byte", "short", "int", "long"})
IsFloatingPointType(tt, t) == HasCode(tt, t, {"float", "double"})
IsNumericType(tt, t) == IsIntegerType(tt, t) \/ IsFloatingPointType(tt, t)

IsRefType(tt, t) ==
  LET u == GetUnderlyingType(tt, t)
  IN  u = tError \/ ~HasDesc(tt, u, "primitive")

IsStructuredType(tt, t) ==
  LET u == GetUnderlyingType(tt, t)
  IN  u = tError \/ HasDesc(tt, u, "record")

\* Two arrays of the same depth are compared by what their bases alias.
SameArrays(tt, a, b) ==
  /\ tt[a].kind = "alias" /\ tt[b].kind = "alias"
  /\ GetUnderlyingType(tt, tt[a].target) = GetUnderlyingType(tt, tt[b].target)

IsTypeAssignableFrom(tt, ta, tb) ==
  LET a == GetUnderlyingType(tt, ta)
      b == GetUnderlyingType(tt, tb)
  IN  CASE tError \in {a, b} -> TRUE
        [] a = tString /\ IsArray(tt, b) /\ tt[b].dims = 1 /\ tt[b].inner[1] = tChar -> TRUE
        [] b = tNull -> IsRefType(tt, a)
        [] IsArray(tt, a) /\ IsArray(tt, b) /\ tt[a].dims # tt[b].dims -> FALSE
        [] IsArray(tt, a) /\ IsArray(tt, b) /\ tt[a].kind # tt[b].kind -> FALSE
        [] IsArray(tt, a) /\ IsArray(tt, b) /\ tt[a].kind = "alias" -> SameArrays(tt, a, b)
        [] IsFloatingPointType(tt, a) -> IsFloatingPointType(tt, b)
        [] OTHER -> a = b \/ (IsIntegerType(tt, a) /\ IsIntegerType(tt, b))

\* Every primitive casts to every other, except between char and floats.
IsTypeCastableFrom(tt, ta, tb) ==
  LET a == GetUnderlyingType(tt, ta)
      b == GetUnderlyingType(tt, tb)
      CharAndFloat(x, y) == tt[x].code = "char" /\ IsFloatingPointType(tt, y)
  IN  IF HasDesc(tt, a, "primitive") /\ HasDesc(tt, b, "primitive")
      THEN ~CharAndFloat(a, b) /\ ~CharAndFloat(b, a)
      ELSE IsTypeAssignableFrom(tt, a, b)

GetIndexedType(tt, t) ==
  LET u == GetUnderlyingType(tt, t)
  IN  CASE u = tError -> tError
        [] u = tString -> tChar
        [] IsArray(tt, u) -> tt[u].inner[tt[u].dims]
        [] OTHER -> NULL

GetUnopResultType(tt, t, op) ==
  LET u == GetUnderlyingType(tt, t)
  IN  CASE u = tError -> u
        [] op = "len" -> IF GetIndexedType(tt, u) # NULL THEN tInt ELSE NULL
        [] op = "neg" -> IF IsNumericType(tt, u) THEN u ELSE NULL
        [] op = "bitnot" -> IF IsIntegerType(tt, u) THEN u ELSE NULL

GetBinopResultType(tt, tl, tr, op) ==
  LET l == GetUnderlyingType(tt, tl)
      r == GetUnderlyingType(tt, tr)
      arithmetic == /\ IsTypeAssignableFrom(tt, l, r)
                    /\ IsNumericType(tt, l) /\ IsNumericType(tt, r)
      shift == /\ IsTypeAssignableFrom(tt, l, r)
               /\ IsIntegerType(tt, l) /\ IsIntegerType(tt, r)
      allowed == CASE op = "add" -> (l = tString /\ r = tString) \/ arithmetic
                   [] op \in {"sub", "mul", "div", "modulo"} -> arithmetic
                   [] op \in {"shl", "shr"} -> shift
                   [] op \in {"and", "or", "xor"} -> l = r /\ IsIntegerType(tt, l)
  IN  IF tError \in {l, r} \/ allowed THEN l ELSE NULL

GetCondExpResultType(tt, then, else) ==
  IF IsTypeAssignableFrom(tt, then, else) THEN then ELSE NULL

Fields(tt, t, name) ==
  LET u == GetUnderlyingType(tt, t)
  IN  IF HasDesc(tt, u, "record") THEN {i \in 1 .. Len(tt[u].fields) : tt[u].fields[i].name = name}
      ELSE {}
HasField(tt, t, name) == Fields(tt, t, name) # {}

\* The type of the first field of that name.
GetTypeField(tt, t, name) ==
  LET named == Fields(tt, t, name)
  IN  tt[GetUnderlyingType(tt, t)].fields[CHOOSE i \in named : \A j \in named : i <= j].sem

TypeCanCompare(tt, a, b, op) ==
  IF op \in {"eq", "ne"} THEN IsTypeAssignableFrom(tt, a, b)
  ELSE IsIntegerType(tt, a) /\ IsIntegerType(tt, b)
=============================================================================
