----------------------------- MODULE MessageTree -----------------------------
(***************************************************************************)
(* What nested builders promise: each builder is a node of a mutable tree,   *)
(* whose child is a message, another builder, or absent; a change of a        *)
(* builder is a change of the messages its ancestors build, and of nothing    *)
(* else; a builder that was replaced is the root of a tree of its own.       *)
(*                                                                          *)
(* A message is a sequence: its own scalar, then the message in its field.   *)
(***************************************************************************)
EXTENDS Naturals, Sequences

CONSTANTS Depth, Scalars

VARIABLES
  nodes,   (* The builders: a sequence of                                   *)
           (* [level, x, child (a message), sub (a builder, or 0)].          *)
  answer   (* The message the last call returned, if it returned one.        *)

NONE == << >>
Default == <<0>>
Messages(level) == UNION {[1..n -> Scalars] : n \in 1..(Depth - level + 1)}

(* The message a builder would build. *)
Value(b) ==
  LET value[i \in DOMAIN nodes] ==
        <<nodes[i].x>> \o IF nodes[i].sub # 0 THEN value[nodes[i].sub] ELSE nodes[i].child
  IN value[b]

Merge(m, n) ==
  [i \in 1..(IF Len(m) > Len(n) THEN Len(m) ELSE Len(n)) |->
     IF i <= Len(n) /\ n[i] # 0 THEN n[i] ELSE IF i <= Len(m) THEN m[i] ELSE 0]

WithChild(ns, b, m) == [ns EXCEPT ![b].child = m, ![b].sub = 0]

Attached(ns, b) ==
  LET m == IF ns[b].child = NONE THEN Default ELSE ns[b].child IN
  Append([ns EXCEPT ![b].child = NONE, ![b].sub = Len(ns) + 1],
         [level |-> ns[b].level + 1, x |-> Head(m), child |-> Tail(m), sub |-> 0])

(* m merged into the child of b: merged[n][c] is what there may be when the   *)
(* part of m from n on is merged into the child of c.  A message that is      *)
(* merged into may become a builder.                                         *)
MergedChild(ns, b, m) ==
  LET merged[n \in 1..Len(m)] ==
        [c \in DOMAIN ns |->
           LET sub == ns[c].sub
               own == WithChild(ns, c, Merge(ns[c].child, SubSeq(m, n, Len(m))))
               below == IF n = Len(m) THEN {ns} ELSE merged[n + 1][sub]
           IN IF sub = 0
                THEN {own, Attached(own, c)}
                ELSE {[r EXCEPT ![sub].x = IF m[n] # 0 THEN m[n] ELSE @] : r \in below}]
  IN merged[1][b]

Init ==
  /\ nodes = <<[level |-> 1, x |-> 0, child |-> NONE, sub |-> 0]>>
  /\ answer = NONE

HasField(b) == nodes[b].level < Depth
FieldMessages(b) == Messages(nodes[b].level + 1)

SetX(b) == \E v \in Scalars : nodes' = [nodes EXCEPT ![b].x = v]
SetField(b) == HasField(b) /\ \E m \in FieldMessages(b) \cup {NONE} : nodes' = WithChild(nodes, b, m)
MergeField(b) == HasField(b) /\ \E m \in FieldMessages(b) : nodes' \in MergedChild(nodes, b, m)
Clear(b) == nodes' = WithChild([nodes EXCEPT ![b].x = 0], b, NONE)
GetFieldBuilder(b) == HasField(b) /\ nodes[b].sub = 0 /\ nodes' = Attached(nodes, b)

Build(b) == answer' = Value(b) /\ UNCHANGED nodes
GetField(b) ==
  /\ HasField(b)
  /\ answer' = IF Tail(Value(b)) = NONE THEN Default ELSE Tail(Value(b))
  /\ UNCHANGED nodes

Next == \E b \in DOMAIN nodes :
  \/ /\ SetX(b) \/ SetField(b) \/ MergeField(b) \/ Clear(b) \/ GetFieldBuilder(b)
     /\ answer' = NONE
  \/ Build(b) \/ GetField(b)

Spec == Init /\ [][Next]_<<nodes, answer>>
=============================================================================
