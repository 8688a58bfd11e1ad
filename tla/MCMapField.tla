----------------------------- MODULE MCMapField -----------------------------
(***************************************************************************)
(* Small instances of MapField: one or two keys and two values.              *)
(***************************************************************************)
EXTENDS MapField, TLC

CONSTANTS t1, t2, f1, f2, k1, k2

OnField == {"GetMap", "GetRepeatedField", "SpaceUsed", "Serialize", "SerializeSorted",
            "Clear", "RemoveLast", "ClearEntries"}
CallsOn(ops, fs) == {Call(op, f, NULL, NULL, NULL) : op \in ops, f \in fs}
KeyCalls(ops, fs) == {Call(op, f, NULL, k, NULL) : op \in ops, f \in fs, k \in Keys}
PutCalls(ops, fs) ==
  {Call(op, f, NULL, k, v) : op \in ops, f \in fs, k \in Keys, v \in Values}
PairCalls(ops) == {Call(op, f, g, NULL, NULL) : op \in ops, f \in Fields, g \in Fields}

AllCalls ==
  CallsOn(OnField, Fields) \cup PutCalls({"Put", "Write", "Append", "SetEntry"}, Fields)
  \cup KeyCalls({"InsertOrLookup", "Delete"}, Fields)
  \cup KeyCalls({"ContainsMapKey"}, DynamicFields)
  \cup PairCalls({"MergeFrom", "Swap", "SwapField"})

Symmetry == Permutations(Threads) \union Permutations(Fields)
=============================================================================
