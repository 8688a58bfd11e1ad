--------------------------- MODULE MCJavaMapField ---------------------------
(***************************************************************************)
(* A small instance of JavaMapField: a builder and the messages it builds.   *)
(***************************************************************************)
EXTENDS JavaMapField, TLC

CONSTANTS t1, t2, b, m1, o1, o2, o3, k1

AllCalls ==
  {Call(op, f, NULL, NULL, NULL) : op \in {"GetMap", "GetList"}, f \in Fields}
  \cup {Call(op, f, NULL, NULL, NULL) : op \in {"Clear", "ClearEntries"}, f \in Builders}
  \cup {Call(op, f, NULL, k, v) : op \in {"Put", "Append", "SetEntry"}, f \in Builders,
                                  k \in Keys, v \in Values}
  \cup {Call("Delete", f, NULL, k, NULL) : f \in Builders, k \in Keys}
  \cup {Call("MergeFrom", f, g, NULL, NULL) : f \in Builders, g \in Fields \ Builders}
  \cup {Call("Build", g, f, NULL, NULL) : f \in Builders, g \in Fields \ Builders}

Symmetry == Permutations(Threads) \union Permutations(MapFields)
=============================================================================
