------------------------------- MODULE MapOps -------------------------------
(***************************************************************************)
(* What the map fields of C++ and Java have in common: maps, the lists of   *)
(* entries they are also seen as, and calls on them.                        *)
(***************************************************************************)
EXTENDS Integers, Sequences, FiniteSets

CONSTANTS
  Threads,
  Fields,        (* The map fields.                                         *)
  Keys, Values,
  DefaultValue,  (* The value of a key that is inserted without one.        *)
  Calls,         (* The calls that the users make, see Call below.          *)
  NULL

ASSUME MapOpsAssumption ==
  DefaultValue \in Values /\ NULL \notin Threads \cup Fields \cup Keys \cup Values

Maps == UNION {[S -> Values] : S \in SUBSET Keys}
Empty == [k \in {} |-> DefaultValue]
With(m, k, v) == [x \in DOMAIN m \cup {k} |-> IF x = k THEN v ELSE m[x]]
Without(m, k) == [x \in DOMAIN m \ {k} |-> m[x]]
Merged(m, n) == [x \in DOMAIN m \cup DOMAIN n |-> IF x \in DOMAIN n THEN n[x] ELSE m[x]]

(* The map that a list of entries is: the last entry of a key wins.  And    *)
(* every list a map may be written as: nobody knows the order of the hash.  *)
Entries == Keys \X Values
Last(list, k) == CHOOSE i \in DOMAIN list :
  list[i][1] = k /\ \A j \in DOMAIN list : list[j][1] = k => j <= i
AsMap(list) == [k \in {list[i][1] : i \in DOMAIN list} |-> list[Last(list, k)][2]]
ListsOf(m) ==
  {list \in [1..Cardinality(DOMAIN m) -> {<<k, m[k]>> : k \in DOMAIN m}] : AsMap(list) = m}
Lists(n) == UNION {[1..i -> Entries] : i \in 0..n}

(* A call of op on field f; g is a second field, k and v a key and a value,  *)
(* or NULL if the operation takes none.                                     *)
Call(op, f, g, k, v) == [op |-> op, on |-> f, other |-> g, key |-> k, value |-> v]
=============================================================================
