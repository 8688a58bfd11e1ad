------------------------------ MODULE SharedMap ------------------------------
(***************************************************************************)
(* What a map field promises, in C++ and in Java: whatever represents it    *)
(* and whoever converts it, it is one map, and a call on it takes effect in  *)
(* one step between its start and its end.                                  *)
(***************************************************************************)
EXTENDS MapOps

VARIABLES
  content,  (* content[f]: the map.                                         *)
  pending   (* pending[t]: t's call that has not taken effect, or NULL.     *)

vars == <<content, pending>>

Init ==
  /\ content = [f \in Fields |-> Empty]
  /\ pending = [t \in Threads |-> NULL]

Invoke(t) ==
  /\ pending[t] = NULL
  /\ \E c \in Calls : pending' = [pending EXCEPT ![t] = c]
  /\ UNCHANGED content

Set(f, m) == content' = [content EXCEPT ![f] = m]

Effect(c) ==
  LET m == content[c.on] IN
  \/ c.op \in {"Put", "Write", "Append"} /\ Set(c.on, With(m, c.key, c.value))
  \/ c.op = "InsertOrLookup" /\
       Set(c.on, IF c.key \in DOMAIN m THEN m ELSE With(m, c.key, DefaultValue))
  \/ c.op = "Delete" /\ Set(c.on, Without(m, c.key))
  \/ c.op \in {"Clear", "ClearEntries"} /\ Set(c.on, Empty)
  \/ c.op = "MergeFrom" /\ Set(c.on, Merged(m, content[c.other]))
  \/ c.op \in {"Swap", "SwapField"} /\ content' =
       [content EXCEPT ![c.on] = content[c.other], ![c.other] = m]
  \/ c.op = "Build" /\ Set(c.on, content[c.other])
  \* An entry goes, or becomes one of c.key; another of its key may come to light.
  \/ c.op \in {"RemoveLast", "SetEntry"} /\ \E k \in DOMAIN m, n \in Maps :
       Without(Without(n, k), c.key) = Without(Without(m, k), c.key) /\ Set(c.on, n)
  \/ c.op \in {"GetMap", "ContainsMapKey", "GetRepeatedField", "GetList",
               "SpaceUsed", "Serialize", "SerializeSorted"} /\ UNCHANGED content

Perform(t) ==
  /\ pending[t] # NULL
  /\ Effect(pending[t])
  /\ pending' = [pending EXCEPT ![t] = NULL]

Next == \E t \in Threads : Invoke(t) \/ Perform(t)

Spec == Init /\ [][Next]_vars
=============================================================================
