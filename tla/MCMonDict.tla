------------------------------ MODULE MCMonDict ------------------------------
(* MonDict on five keys, of which two share a hash, two more a slot of the   *)
(* smallest table, and one has a negative hash that is an index of the       *)
(* smallest table only.                                                      *)
EXTENDS MonDict

CONSTANTS one, ten, eleven, five, negative

KeyNames == {one, ten, eleven, five, negative}
Hashes == one :> 1 @@ ten :> 2 @@ eleven :> 2 @@ five :> 5 @@ negative :> -4
OneIsPrefix == {<<one, ten>>, <<one, eleven>>}
=============================================================================
