---------------------------- MODULE StorageMaps ----------------------------
(***************************************************************************)
(* A storage map as a function whose domain is the set of its stored keys. *)
(***************************************************************************)
EXTENDS FiniteSetsExt

\* insert: f with the value v at the key k.
Put(f, k, v) == [x \in DOMAIN f \cup {k} |-> IF x = k THEN v ELSE f[x]]

\* insert the value v at every key of S.
PutAll(f, S, v) == [x \in DOMAIN f \cup S |-> IF x \in S THEN v ELSE f[x]]

\* remove: f without the key k.
Without(f, k) == [x \in DOMAIN f \ {k} |-> f[x]]

\* get of a map with a default, for the keys without a value.
At(f, k, default) == IF k \in DOMAIN f THEN f[k] ELSE default

\* The next identifier of a map whose records are numbered from 0 and never
\* removed: the counter the pallet stores is the number of the records.
FreshId(f) == Cardinality(DOMAIN f)

\* The sum of the values at the keys S.
SumOver(f, S) == MapThenSumSet(LAMBDA x : f[x], S)
=============================================================================
