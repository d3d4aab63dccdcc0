-------------------------------- MODULE Lists --------------------------------
(***************************************************************************)
(* Lists, which are sequences, whatever their elements are, and functions  *)
(* over others.                                                            *)
(***************************************************************************)
EXTENDS Integers, Sequences

IsList(s) == s \in Seq({s[i] : i \in DOMAIN s})

\* g, and h where g is not defined.
Overlay(g, h) == [x \in DOMAIN g \cup DOMAIN h |-> IF x \in DOMAIN g THEN g[x] ELSE h[x]]

\* Functions of which no two share an argument, as one.
Together(fs) == [x \in UNION {DOMAIN f : f \in fs} |-> (CHOOSE f \in fs : x \in DOMAIN f)[x]]
=============================================================================
