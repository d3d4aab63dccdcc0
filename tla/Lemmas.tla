------------------------------- MODULE Lemmas -------------------------------
(***************************************************************************)
(* What the proofs share: induction over the naturals and the functions it *)
(* defines, lists, and the pieces of a file that the scanner of Parser     *)
(* holds.                                                                  *)
(***************************************************************************)
EXTENDS Lists, SequenceTheorems, WellFoundedInduction, TLAPS

-----------------------------------------------------------------------------
(* Induction                                                               *)

(* Of some naturals, one is the least.                                     *)
LEMMA Least ==
  ASSUME NEW T \in SUBSET Nat, T # {}
  PROVE  \E x \in T : \A y \in T : x <= y
<1>1. IsWellFoundedOn({ss \in Nat \X Nat : ss[1] < ss[2]}, Nat)
  BY NatLessThanWellFounded DEF OpToRel
<1>2. PICK x \in T : \A y \in T : ~(<<y, x>> \in {ss \in Nat \X Nat : ss[1] < ss[2]})
  BY <1>1, WFMin
<1>3. ASSUME NEW y \in T PROVE x <= y
  <2>1. x \in Nat /\ y \in Nat
    OBVIOUS
  <2> SUFFICES ASSUME y < x PROVE FALSE
    BY <2>1
  <2>2. <<y, x>> \in {ss \in Nat \X Nat : ss[1] < ss[2]}
    BY <2>1
  <2> QED  BY <1>2, <2>2
<1> QED  BY <1>3

(* Induction, with the set of the naturals that have the property.         *)
LEMMA SetInduction ==
  ASSUME NEW S, 0 \in S, \A n \in Nat : n \in S => n + 1 \in S
  PROVE  Nat \subseteq S
<1> SUFFICES ASSUME Nat \ S # {} PROVE FALSE
  OBVIOUS
<1>1. PICK x \in Nat \ S : \A y \in Nat \ S : x <= y
  BY Least
<1>2. x - 1 \in Nat /\ x - 1 \in S
  BY <1>1
<1> QED  BY <1>1, <1>2

(* The N steps of f, from a in the set T.                                  *)
Computes(f, F, a, N, T) ==
  f \in [0 .. N -> T] /\ f[0] = a /\ \A i \in 1 .. N : f[i] = F[i][f[i - 1]]

(* A function that is computed one step after another exists.              *)
LEMMA FunctionExists ==
  ASSUME NEW T, NEW a \in T, NEW N \in Nat, NEW F \in [1 .. N -> [T -> T]]
  PROVE  \E f : Computes(f, F, a, N, T)
<1> DEFINE Upto(n, f) == f = [i \in 0 .. n |-> IF i = 0 THEN a ELSE F[i][f[i - 1]]]
           S == {n \in Nat : n <= N => \E f \in [0 .. n -> T] : Upto(n, f)}
<1>1. 0 \in S
  <2>1. [i \in 0 .. 0 |-> a] \in [0 .. 0 -> T] /\ Upto(0, [i \in 0 .. 0 |-> a])
    OBVIOUS
  <2> QED  BY <2>1
<1>2. ASSUME NEW n \in Nat, n \in S PROVE n + 1 \in S
  <2> SUFFICES ASSUME n + 1 <= N PROVE \E f \in [0 .. n + 1 -> T] : Upto(n + 1, f)
    OBVIOUS
  <2>1. PICK f \in [0 .. n -> T] : Upto(n, f)
    BY <1>2
  <2>2. /\ f[0] = a
        /\ \A i \in 1 .. n : f[i] = F[i][f[i - 1]]
    BY <2>1
  <2> DEFINE g == [i \in 0 .. n + 1 |-> IF i = n + 1 THEN F[n + 1][f[n]] ELSE f[i]]
  <2>3. g \in [0 .. n + 1 -> T]
    OBVIOUS
  <2>4. \A i \in 0 .. n + 1 : g[i] = IF i = 0 THEN a ELSE F[i][g[i - 1]]
    <3> SUFFICES ASSUME NEW i \in 0 .. n + 1
                 PROVE  g[i] = IF i = 0 THEN a ELSE F[i][g[i - 1]]
      OBVIOUS
    <3>1. CASE i = 0
      BY <2>2, <3>1
    <3>2. CASE i \in 1 .. n
      <4>1. g[i] = f[i] /\ g[i - 1] = f[i - 1] /\ i # 0
        BY <3>2
      <4> QED  BY <2>2, <3>2, <4>1
    <3>3. CASE i = n + 1
      <4>1. g[i] = F[n + 1][f[n]] /\ g[i - 1] = f[n] /\ i # 0
        BY <3>3
      <4> QED  BY <3>3, <4>1
    <3> QED  BY <3>1, <3>2, <3>3
  <2>5. Upto(n + 1, g)
    BY <2>3, <2>4
  <2> QED  BY <2>3, <2>5
<1>3. N \in S
  <2> HIDE DEF S
  <2> QED  BY <1>1, <1>2, SetInduction
<1> QED  BY <1>3 DEF Computes

-----------------------------------------------------------------------------
(* Functions                                                               *)

(* Functions taken together.                                                *)
LEMMA MergedAll ==
  ASSUME NEW fs
  PROVE  /\ DOMAIN Together(fs) = UNION {DOMAIN f : f \in fs}
         /\ \A x \in DOMAIN Together(fs) : \E f \in fs : x \in DOMAIN f /\ Together(fs)[x] = f[x]
<1>1. DOMAIN Together(fs) = UNION {DOMAIN f : f \in fs}
  BY DEF Together
<1>2. ASSUME NEW x \in DOMAIN Together(fs)
      PROVE  \E f \in fs : x \in DOMAIN f /\ Together(fs)[x] = f[x]
  <2>1. \E f \in fs : x \in DOMAIN f
    BY <1>1
  <2>2. Together(fs)[x] = (CHOOSE f \in fs : x \in DOMAIN f)[x]
    BY <1>1 DEF Together
  <2> QED  BY <2>1, <2>2
<1> QED  BY <1>1, <1>2

(* Of two functions with no argument in common, taken together.             *)
LEMMA MergedAlone ==
  ASSUME NEW fs, NEW f \in fs, NEW x \in DOMAIN f, \A g \in fs : x \in DOMAIN g => g = f
  PROVE  x \in DOMAIN Together(fs) /\ Together(fs)[x] = f[x]
<1>1. x \in DOMAIN Together(fs) /\ \E g \in fs : x \in DOMAIN g /\ Together(fs)[x] = g[x]
  BY MergedAll
<1> QED  BY <1>1

-----------------------------------------------------------------------------
(* Lists                                                                   *)

(* A sequence is a list.                                                   *)
LEMMA SeqIsList == ASSUME NEW S, NEW s \in Seq(S) PROVE IsList(s)
<1>1. s = [i \in 1 .. Len(s) |-> s[i]] /\ Len(s) \in Nat /\ DOMAIN s = 1 .. Len(s)
  OBVIOUS
<1>2. \A i \in 1 .. Len(s) : s[i] \in {s[j] : j \in DOMAIN s}
  BY <1>1
<1> QED BY <1>1, <1>2 DEF IsList

(* What a list joined to another holds.                                    *)
LEMMA Joined ==
  ASSUME NEW s, NEW t, IsList(s), IsList(t)
  PROVE  /\ IsList(s \o t)
         /\ Len(s) \in Nat /\ Len(t) \in Nat
         /\ DOMAIN s = 1 .. Len(s) /\ DOMAIN t = 1 .. Len(t)
         /\ DOMAIN (s \o t) = 1 .. Len(s) + Len(t)
         /\ \A i \in 1 .. Len(s) : (s \o t)[i] = s[i]
         /\ \A i \in 1 .. Len(s) + Len(t) : i > Len(s) => (s \o t)[i] = t[i - Len(s)] /\ i - Len(s) \in DOMAIN t
<1> DEFINE U == {s[i] : i \in DOMAIN s} \cup {t[i] : i \in DOMAIN t}
<1>1. s \in Seq(U) /\ t \in Seq(U)
  BY DEF IsList
<1> HIDE DEF U
<1>2. s \o t \in Seq(U) /\ Len(s \o t) = Len(s) + Len(t)
  BY <1>1, ConcatProperties
<1>3. /\ Len(s) \in Nat /\ Len(t) \in Nat
      /\ DOMAIN s = 1 .. Len(s) /\ DOMAIN t = 1 .. Len(t)
      /\ DOMAIN (s \o t) = 1 .. Len(s) + Len(t)
  BY <1>1, <1>2
<1>4. \A i \in 1 .. Len(s) + Len(t) : (s \o t)[i] = IF i <= Len(s) THEN s[i] ELSE t[i - Len(s)]
  BY <1>1, ConcatProperties
<1>5. \A i \in 1 .. Len(s) : (s \o t)[i] = s[i]
  BY <1>3, <1>4
<1>6. \A i \in 1 .. Len(s) + Len(t) : i > Len(s) => (s \o t)[i] = t[i - Len(s)] /\ i - Len(s) \in DOMAIN t
  BY <1>3, <1>4
<1> QED BY <1>2, <1>3, <1>5, <1>6, SeqIsList

(* Two elements, joined, are a list of two.                                *)
LEMMA TwoJoined == ASSUME NEW x, NEW y PROVE <<x>> \o <<y>> = <<x, y>>
<1>1. <<x>> \in Seq({x, y}) /\ <<y>> \in Seq({x, y}) /\ <<x, y>> \in Seq({x, y})
  OBVIOUS
<1>2. <<x>> \o <<y>> \in Seq({x, y}) /\ Len(<<x>> \o <<y>>) = 2 /\ Len(<<x, y>>) = 2
  BY <1>1, ConcatProperties
<1>3. \A i \in 1 .. 2 : (<<x>> \o <<y>>)[i] = <<x, y>>[i]
  BY <1>1, ConcatProperties
<1> QED BY <1>1, <1>2, <1>3, SeqEqual

(* A list of three is one of two and one of one, joined.                   *)
LEMMA ThreeJoined == ASSUME NEW x, NEW y, NEW z PROVE <<x, y>> \o <<z>> = <<x, y, z>>
<1>1. <<x, y>> \in Seq({x, y, z}) /\ <<z>> \in Seq({x, y, z}) /\ <<x, y, z>> \in Seq({x, y, z})
  OBVIOUS
<1>2. /\ <<x, y>> \o <<z>> \in Seq({x, y, z})
      /\ Len(<<x, y>> \o <<z>>) = 3 /\ Len(<<x, y, z>>) = 3
  BY <1>1, ConcatProperties
<1>3. \A i \in 1 .. 3 : (<<x, y>> \o <<z>>)[i] = <<x, y, z>>[i]
  BY <1>1, ConcatProperties
<1> QED BY <1>1, <1>2, <1>3, SeqEqual

(* A list of four is two of two, joined.                                   *)
LEMMA FourJoined == ASSUME NEW w, NEW x, NEW y, NEW z PROVE <<w, x>> \o <<y, z>> = <<w, x, y, z>>
<1>1. /\ <<w, x>> \in Seq({w, x, y, z}) /\ <<y, z>> \in Seq({w, x, y, z})
      /\ <<w, x, y, z>> \in Seq({w, x, y, z})
  OBVIOUS
<1>2. /\ <<w, x>> \o <<y, z>> \in Seq({w, x, y, z})
      /\ Len(<<w, x>> \o <<y, z>>) = 4 /\ Len(<<w, x, y, z>>) = 4
  BY <1>1, ConcatProperties
<1>3. \A i \in 1 .. 4 : (<<w, x>> \o <<y, z>>)[i] = <<w, x, y, z>>[i]
  BY <1>1, ConcatProperties
<1> QED BY <1>1, <1>2, <1>3, SeqEqual

(* Lists may be joined in either order.                                    *)
LEMMA JoinAssociative ==
  ASSUME NEW s, NEW t, NEW u, IsList(s), IsList(t), IsList(u)
  PROVE  (s \o t) \o u = s \o (t \o u)
<1> DEFINE S == {s[i] : i \in DOMAIN s}
           T == {t[i] : i \in DOMAIN t}
           U == {u[i] : i \in DOMAIN u}
<1>1. s \in Seq(S) /\ t \in Seq(T) /\ u \in Seq(U)
  BY DEF IsList
<1> HIDE DEF S, T, U
<1>2. s \in Seq(S \cup T \cup U) /\ t \in Seq(S \cup T \cup U) /\ u \in Seq(S \cup T \cup U)
  BY <1>1
<1> QED BY <1>2, ConcatAssociative

(* Where an element of a joined list comes from                            *)
LEMMA JoinedElements ==
  ASSUME NEW s, NEW t, IsList(s), IsList(t), NEW i \in DOMAIN (s \o t)
  PROVE  \/ \E j \in DOMAIN s : (s \o t)[i] = s[j]
         \/ \E j \in DOMAIN t : (s \o t)[i] = t[j]
<1>1. CASE i > Len(s)
  <2>1. (s \o t)[i] = t[i - Len(s)] /\ i - Len(s) \in DOMAIN t
    BY <1>1, Joined
  <2> QED BY <2>1
<1>2. CASE ~(i > Len(s))
  <2>1. (s \o t)[i] = s[i] /\ i \in DOMAIN s
    BY <1>2, Joined
  <2> QED BY <2>1
<1> QED BY <1>1, <1>2

(* What is left of a list without its head.                                *)
LEMMA Rest ==
  ASSUME NEW s, IsList(s), s # << >>
  PROVE  /\ IsList(Tail(s))
         /\ Len(s) \in Nat /\ Len(s) > 0 /\ DOMAIN s = 1 .. Len(s)
         /\ Len(Tail(s)) = Len(s) - 1 /\ DOMAIN Tail(s) = 1 .. Len(s) - 1
         /\ \A i \in 1 .. Len(s) - 1 : Tail(s)[i] = s[i + 1]
<1> DEFINE U == {s[i] : i \in DOMAIN s}
<1>1. s \in Seq(U)
  BY DEF IsList
<1> HIDE DEF U
<1>2. Tail(s) \in Seq(U) /\ Len(Tail(s)) = Len(s) - 1
  BY <1>1, HeadTailProperties
<1>3. Len(s) \in Nat /\ Len(s) > 0 /\ DOMAIN s = 1 .. Len(s) /\ DOMAIN Tail(s) = 1 .. Len(s) - 1
  BY <1>1, <1>2
<1>4. \A i \in 1 .. Len(s) - 1 : Tail(s)[i] = s[i + 1]
  BY <1>1, <1>2, <1>3, HeadTailProperties
<1> QED BY <1>2, <1>3, <1>4, SeqIsList

(* A list joined to the empty one is the list.                             *)
LEMMA JoinedToNothing == ASSUME NEW s, IsList(s) PROVE s \o << >> = s /\ << >> \o s = s
<1> DEFINE U == {s[i] : i \in DOMAIN s}
<1>1. s \in Seq(U)
  BY DEF IsList
<1> HIDE DEF U
<1> QED BY <1>1, ConcatEmptySeq

(* Lists of few elements.                                                  *)
LEMMA ShortLists ==
  /\ IsList(<< >>)
  /\ \A a : IsList(<<a>>)
  /\ \A a, b : IsList(<<a, b>>)
  /\ \A a, b, c : IsList(<<a, b, c>>)
<1>1. \A a : <<a>> \in Seq({a})
  OBVIOUS
<1>2. \A a, b : <<a, b>> \in Seq({a, b})
  OBVIOUS
<1>3. \A a, b, c : <<a, b, c>> \in Seq({a, b, c})
  OBVIOUS
<1>4. << >> \in Seq({})
  OBVIOUS
<1> QED BY <1>1, <1>2, <1>3, <1>4, SeqIsList

(* An element at the end of a list.                                        *)
LEMMA Appended ==
  ASSUME NEW s, IsList(s), NEW x
  PROVE  /\ IsList(Append(s, x))
         /\ Len(s) \in Nat /\ DOMAIN s = 1 .. Len(s)
         /\ Len(Append(s, x)) = Len(s) + 1 /\ DOMAIN Append(s, x) = 1 .. Len(s) + 1
         /\ \A i \in DOMAIN s : Append(s, x)[i] = s[i]
         /\ Append(s, x)[Len(s) + 1] = x
<1> DEFINE U == {s[i] : i \in DOMAIN s} \cup {x}
<1>1. s \in Seq(U) /\ x \in U
  BY DEF IsList
<1> HIDE DEF U
<1>2. Append(s, x) \in Seq(U)
  BY <1>1
<1>3. /\ Len(s) \in Nat /\ DOMAIN s = 1 .. Len(s)
      /\ Len(Append(s, x)) = Len(s) + 1 /\ DOMAIN Append(s, x) = 1 .. Len(s) + 1
      /\ \A i \in 1 .. Len(s) : Append(s, x)[i] = s[i]
      /\ Append(s, x)[Len(s) + 1] = x
  BY <1>1, AppendProperties
<1> QED BY <1>2, <1>3, SeqIsList

-----------------------------------------------------------------------------
(* Pieces of a file: the places of a file that follow one another           *)

\* The m places of f behind the first n.
Piece(f, n, m) == [k \in 1 .. m |-> <<f, n + k>>]

(* A piece is a sequence of its length.                                     *)
LEMMA PieceLen ==
  ASSUME NEW f, NEW n \in Nat, NEW m \in Nat
  PROVE  /\ Piece(f, n, m) \in Seq({f} \X Nat)
         /\ Len(Piece(f, n, m)) = m
         /\ m = 0 <=> Piece(f, n, m) = << >>
<1>1. Piece(f, n, m) \in [1 .. m -> {f} \X Nat]
  BY DEF Piece
<1>2. Piece(f, n, m) \in Seq({f} \X Nat) /\ Len(Piece(f, n, m)) = m
  BY <1>1, IsASeq, LenProperties
<1> QED  BY <1>2, EmptySeq

(* The next definition goes to the end of those before it.                  *)
LEMMA PieceAppend ==
  ASSUME NEW f, NEW n \in Nat
  PROVE  Append(Piece(f, 0, n), <<f, n + 1>>) = Piece(f, 0, n + 1)
<1> DEFINE s == Piece(f, 0, n)
           t == Piece(f, 0, n + 1)
           u == Append(s, <<f, n + 1>>)
<1>1. s \in Seq({f} \X Nat) /\ Len(s) = n /\ t \in Seq({f} \X Nat) /\ Len(t) = n + 1
  BY PieceLen
<1>2. <<f, n + 1>> \in {f} \X Nat
  OBVIOUS
<1>3. /\ u \in Seq({f} \X Nat) /\ Len(u) = n + 1
      /\ \A i \in 1 .. n : u[i] = s[i]
      /\ u[n + 1] = <<f, n + 1>>
  BY <1>1, <1>2, AppendProperties
<1>4. \A i \in 1 .. n : s[i] = t[i]
  BY DEF Piece
<1>5. t[n + 1] = <<f, n + 1>>
  BY DEF Piece
<1>6. ASSUME NEW i \in 1 .. n + 1 PROVE u[i] = t[i]
  <2>1. CASE i = n + 1  BY <2>1, <1>3, <1>5
  <2>2. CASE i # n + 1
    <3>1. i \in 1 .. n  BY <2>2
    <3> QED  BY <3>1, <1>3, <1>4
  <2> QED  BY <2>1, <2>2
<1> QED  BY <1>1, <1>3, <1>6, SeqEqual

(* What is behind the first of a piece is a piece.                          *)
LEMMA PieceTail ==
  ASSUME NEW f, NEW n \in Nat, NEW m \in Nat, m > 0
  PROVE  /\ Head(Piece(f, n, m)) = <<f, n + 1>>
         /\ Tail(Piece(f, n, m)) = Piece(f, n + 1, m - 1)
<1> DEFINE s == Piece(f, n, m)
           t == Piece(f, n + 1, m - 1)
<1>1. s \in Seq({f} \X Nat) /\ Len(s) = m /\ s # << >>
  BY PieceLen
<1>2. t \in Seq({f} \X Nat) /\ Len(t) = m - 1
  BY PieceLen
<1>3. /\ Head(s) = s[1]
      /\ Tail(s) \in Seq({f} \X Nat) /\ Len(Tail(s)) = m - 1
      /\ \A i \in 1 .. Len(Tail(s)) : Tail(s)[i] = s[i + 1]
  BY <1>1, HeadTailProperties
<1>4. s[1] = <<f, n + 1>>
  BY DEF Piece
<1>5. \A i \in 1 .. m - 1 : s[i + 1] = t[i]
  <2> SUFFICES ASSUME NEW i \in 1 .. m - 1 PROVE s[i + 1] = t[i]
    OBVIOUS
  <2>1. i + 1 \in 1 .. m /\ n + (i + 1) = n + 1 + i
    OBVIOUS
  <2>2. s[i + 1] = <<f, n + (i + 1)>>  BY <2>1 DEF Piece
  <2>3. t[i] = <<f, n + 1 + i>>  BY DEF Piece
  <2> QED  BY <2>1, <2>2, <2>3
<1>6. \A i \in 1 .. Len(Tail(s)) : Tail(s)[i] = t[i]
  BY <1>3, <1>5
<1> QED  BY <1>2, <1>3, <1>4, <1>6, SeqEqual
=============================================================================
