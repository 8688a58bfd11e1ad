---------------------------- MODULE NestedBuilders ----------------------------
(***************************************************************************)
(* The nested builders of the Java library: a generated Builder with a        *)
(* scalar and a message field (GeneratedMessageV3.Builder and the code of      *)
(* java_message_field.cc), whose field is backed by a SingleFieldBuilderV3     *)
(* once somebody has asked for its builder.  A field builder caches the        *)
(* message its builder built; isClean says that somebody above did so, and     *)
(* is to be told of the next change.                                         *)
(*                                                                          *)
(* Messages of level 1 have a field of level 2, and so on to Depth.  The user *)
(* keeps every builder he ever got, so one that was replaced is used on.      *)
(***************************************************************************)
EXTENDS Naturals, Sequences

CONSTANTS
  Depth,
  Scalars,          (* The values of the scalar; 0 is unset.                *)
  FieldPresence,    (* TRUE in proto2: a bit tells whether the field is set. *)
  MaxBuilders,      (* Bounds of the heap.                                  *)
  MaxFieldBuilders

ASSUME BoundsAssumption ==
  /\ Depth \in Nat \ {0} /\ 0 \in Scalars /\ FieldPresence \in BOOLEAN
  /\ MaxBuilders \in Nat /\ MaxFieldBuilders \in Nat

VARIABLES
  heap,   (* heap.b: the Builders, heap.s: the SingleFieldBuilderV3s; a      *)
          (* reference is an index, and 0 is null.                          *)
  answer  (* The message the last call returned, if it returned one.        *)

vars == <<heap, answer>>

NONE == << >>
Default == <<0>>
Messages(level) == UNION {[1..n -> Scalars] : n \in 1..(Depth - level + 1)}

Builder(level, m, parent, clean) ==
  [level |-> level, x |-> Head(m), has |-> Tail(m) # NONE, field |-> Tail(m),
   fieldBuilder |-> 0, parent |-> parent, isClean |-> clean]

Init ==
  /\ heap = [b |-> <<Builder(1, Default, 0, FALSE)>>, s |-> << >>]
  /\ answer = NONE

-----------------------------------------------------------------------------
(* onChanged and markDirty, which call each other up the tree.  Each Builder  *)
(* and field builder is told at most once, so what a call of onChanged does   *)
(* is given by the set of those it reaches.                                  *)

(* What is reached from b along next, where 0 ends the way.                  *)
Reached(b, next) ==
  {i \in DOMAIN next :
     \A S \in SUBSET DOMAIN next :
       b \in S /\ (\A j \in S : next[j] # 0 => next[j] \in S) => i \in S}

(* The field builder that onChanged of a Builder tells, and the Builder that  *)
(* that of a field builder tells.                                            *)
TellsField(h, b) == IF h.b[b].isClean THEN h.b[b].parent ELSE 0
TellsBuilder(h, s) == IF h.s[s].isClean THEN h.s[s].parent ELSE 0

(* SingleFieldBuilderV3.onChanged, in its own fields.                        *)
Invalidated(f) ==
  [f EXCEPT !.message = IF f.builder # 0 THEN NONE ELSE @,
            !.isClean = @ /\ f.parent = 0]

Told(h, b) ==
  Reached(b, [i \in DOMAIN h.b |->
                IF TellsField(h, i) = 0 THEN 0 ELSE TellsBuilder(h, TellsField(h, i))])

(* GeneratedMessageV3.Builder.onChanged *)
OnChanged(h, b) ==
  LET told == Told(h, b) IN
  [b |-> [i \in DOMAIN h.b |->
            IF i \in told /\ TellsField(h, i) # 0 THEN [h.b[i] EXCEPT !.isClean = FALSE] ELSE h.b[i]],
   s |-> [s \in DOMAIN h.s |->
            IF \E i \in told : TellsField(h, i) = s THEN Invalidated(h.s[s]) ELSE h.s[s]]]

(* SingleFieldBuilderV3.onChanged *)
FieldChanged(h, s) ==
  LET h1 == [h EXCEPT !.s[s] = Invalidated(@)] IN
  IF TellsBuilder(h, s) # 0 THEN OnChanged(h1, TellsBuilder(h, s)) ELSE h1

-----------------------------------------------------------------------------
(* buildPartial, and getMessage and build of a field builder; what returns a  *)
(* message returns it with the heap it leaves.                               *)

(* The Builders that are built when b is: none below a cached message.       *)
Building(h, b) ==
  Reached(b, [i \in DOMAIN h.b |->
                LET s == h.b[i].fieldBuilder IN
                IF s # 0 /\ h.s[s].message = NONE THEN h.s[s].builder ELSE 0])

(* The messages that buildPartial would return.                              *)
BuiltMessages(h) ==
  LET built[i \in DOMAIN h.b] ==
        LET n == h.b[i]
            s == n.fieldBuilder
        IN <<n.x>> \o
           IF FieldPresence /\ ~ n.has THEN NONE
           ELSE IF s = 0 THEN n.field
           ELSE IF h.s[s].message # NONE THEN h.s[s].message
           ELSE built[h.s[s].builder]
  IN built

(* Mutant: the field builder does not note that it owes invalidations.       *)
FieldBuiltDirty(f, m) == [f EXCEPT !.message = IF @ = NONE THEN m ELSE @]

(* SingleFieldBuilderV3.build: it keeps the message m that its builder built. *)
FieldBuilt(f, m) == [f EXCEPT !.isClean = TRUE, !.message = IF @ = NONE THEN m ELSE @]

(* buildPartial: the field's message is built even if the field is not set.  *)
BuildPartial(h, b) ==
  LET building == Building(h, b) IN
  [heap |-> [b |-> [i \in DOMAIN h.b |->
                      IF i \in building /\ h.b[i].parent # 0
                        THEN [h.b[i] EXCEPT !.isClean = TRUE] ELSE h.b[i]],
             s |-> [s \in DOMAIN h.s |->
                      IF \E i \in building : h.b[i].fieldBuilder = s
                        THEN FieldBuilt(h.s[s], BuiltMessages(h)[h.s[s].builder]) ELSE h.s[s]]],
   message |-> BuiltMessages(h)[b]]

GetMessage(h, s) ==
  IF h.s[s].message # NONE
    THEN [heap |-> h, message |-> h.s[s].message]
    ELSE LET built == BuildPartial(h, h.s[s].builder) IN
         [heap |-> [built.heap EXCEPT !.s[s].message = built.message], message |-> built.message]

-----------------------------------------------------------------------------
(* Operations of SingleFieldBuilderV3 that change it.                        *)

(* A new object has the next reference.                                      *)
With(objects, new) ==
  [i \in 1..Len(objects) + 1 |-> IF i <= Len(objects) THEN objects[i] ELSE new]

(* The builder comes from the message, and is clean: the message may serve   *)
(* as the cached one.                                                       *)
GetBuilder(h, s) ==
  IF h.s[s].builder # 0
    THEN h
    ELSE [b |-> With(h.b, Builder(h.b[h.s[s].parent].level + 1, h.s[s].message, s, TRUE)),
          s |-> [h.s EXCEPT ![s].builder = Len(h.b) + 1]]

(* setMessage, and clear with the default instance: the builder is disposed. *)
SetMessage(h, s, m) ==
  LET b == h.s[s].builder
      h1 == IF b # 0 THEN [h EXCEPT !.b[b].parent = 0] ELSE h
  IN FieldChanged([h1 EXCEPT !.s[s].message = m, !.s[s].builder = 0], s)

-----------------------------------------------------------------------------
(* Operations of the generated Builder.                                      *)

SetX(h, b, v) == OnChanged([h EXCEPT !.b[b].x = v], b)

SetField(h, b, m) ==
  LET s == h.b[b].fieldBuilder
      h1 == IF s = 0 THEN OnChanged([h EXCEPT !.b[b].field = m], b) ELSE SetMessage(h, s, m)
  IN [h1 EXCEPT !.b[b].has = TRUE]

(* m merged into n: what mergeFrom and buildPartial of a new builder give.   *)
Merge(n, m) ==
  [i \in 1..(IF Len(n) > Len(m) THEN Len(n) ELSE Len(m)) |->
     IF i <= Len(m) /\ m[i] # 0 THEN m[i] ELSE IF i <= Len(n) THEN n[i] ELSE 0]

(* mergeFrom of a Builder whose class declares its message field first; h1 is *)
(* the heap that mergeField leaves.                                          *)
MergeFrom(h, b, m, h1) ==
  LET h2 == IF Len(m) > 1 THEN h1 ELSE h
      h3 == IF m[1] # 0 THEN SetX(h2, b, m[1]) ELSE h2
  IN IF m = Default THEN h ELSE OnChanged(h3, b)

(* mergeField without a field builder.                                       *)
MergeOwn(h, b, m) ==
  [OnChanged([h EXCEPT !.b[b].field = Merge(@, m)], b) EXCEPT !.b[b].has = TRUE]

(* mergeField with a field builder; below is the heap that mergeField of its  *)
(* builder leaves.                                                          *)
MergeBelow(h, b, m, below) ==
  LET s == h.b[b].fieldBuilder
      new == GetBuilder(h, s)
      sub == new.s[s].builder
      h1 == CASE h.s[s].builder # 0 -> MergeFrom(h, sub, m, below)
              [] h.s[s].builder = 0 /\ h.s[s].message = Default -> [h EXCEPT !.s[s].message = m]
              [] OTHER -> MergeFrom(new, sub, m, MergeOwn(new, sub, Tail(m)))
  IN [FieldChanged(h1, s) EXCEPT !.b[b].has = TRUE]

(* mergeField: merged[n][c] is the heap it leaves when the part of m from n    *)
(* on is merged into the field of c.                                         *)
MergeField(h, b, m) ==
  LET merged[n \in 1..Len(m)] ==
        [c \in DOMAIN h.b |->
           LET s == h.b[c].fieldBuilder
               part == SubSeq(m, n, Len(m))
           IN IF s = 0 THEN MergeOwn(h, c, part)
              ELSE MergeBelow(h, c, part,
                              IF h.s[s].builder = 0 \/ n = Len(m) THEN h
                              ELSE merged[n + 1][h.s[s].builder])]
  IN merged[1][b]

(* Mutant: proto2 code that drops the field builder, as that of proto3 does.  *)
DropField(h, b) == [h EXCEPT !.b[b].field = NONE, !.b[b].fieldBuilder = 0, !.b[b].has = FALSE]

(* clearField.  Without field presence the field builder is dropped: it is    *)
(* not disposed, and the parent is not told.                                *)
ClearField(h, b) ==
  LET s == h.b[b].fieldBuilder
      h1 == CASE s = 0 -> OnChanged([h EXCEPT !.b[b].field = NONE], b)
              [] s # 0 /\ FieldPresence -> SetMessage(h, s, Default)
              [] OTHER -> [h EXCEPT !.b[b].field = NONE, !.b[b].fieldBuilder = 0]
  IN [h1 EXCEPT !.b[b].has = FALSE]

(* clear: onChanged, then every field without it.                            *)
Clear(h, b) ==
  LET h1 == [OnChanged(h, b) EXCEPT !.b[b].x = 0]
      s == h.b[b].fieldBuilder
      h2 == CASE s = 0 -> [h1 EXCEPT !.b[b].field = NONE]
              [] s # 0 /\ FieldPresence -> SetMessage(h1, s, Default)
              [] OTHER -> [h1 EXCEPT !.b[b].field = NONE, !.b[b].fieldBuilder = 0]
  IN [h2 EXCEPT !.b[b].has = FALSE]

(* getField, for a field that has no field builder.                          *)
Field(h, b) == IF h.b[b].field = NONE THEN Default ELSE h.b[b].field

(* getFieldBuilder: the field is set, and changed; the field builder is as    *)
(* clean as the Builder is then.                                             *)
GetFieldBuilder(h, b) ==
  LET h1 == OnChanged([h EXCEPT !.b[b].has = TRUE], b)
      new == [parent |-> b, builder |-> 0, message |-> Field(h1, b), isClean |-> h1.b[b].isClean]
      h2 == IF h1.b[b].fieldBuilder # 0
              THEN h1
              ELSE [b |-> [h1.b EXCEPT ![b].fieldBuilder = Len(h1.s) + 1, ![b].field = NONE],
                    s |-> With(h1.s, new)]
  IN GetBuilder(h2, h2.b[b].fieldBuilder)

-----------------------------------------------------------------------------
HasField(b) == heap.b[b].level < Depth

(* A call that changes the builder b, and one that returns a message.        *)
Changes(h) ==
  /\ Len(h.b) <= MaxBuilders /\ Len(h.s) <= MaxFieldBuilders
  /\ heap' = h
  /\ answer' = NONE
Returns(r) == heap' = r.heap /\ answer' = r.message

CallSetX(b) == \E v \in Scalars : Changes(SetX(heap, b, v))
CallSetField(b) ==
  HasField(b) /\ \E m \in Messages(heap.b[b].level + 1) : Changes(SetField(heap, b, m))
CallMergeField(b) ==
  HasField(b) /\ \E m \in Messages(heap.b[b].level + 1) : Changes(MergeField(heap, b, m))
CallClearField(b) == HasField(b) /\ Changes(ClearField(heap, b))
CallClear(b) == Changes(Clear(heap, b))
CallGetFieldBuilder(b) == HasField(b) /\ Changes(GetFieldBuilder(heap, b))
CallGetField(b) ==
  /\ HasField(b)
  /\ Returns(IF heap.b[b].fieldBuilder = 0
               THEN [heap |-> heap, message |-> Field(heap, b)]
               ELSE GetMessage(heap, heap.b[b].fieldBuilder))
CallBuild(b) == Returns(BuildPartial(heap, b))

Next == \E b \in DOMAIN heap.b :
  \/ CallSetX(b) \/ CallSetField(b) \/ CallMergeField(b) \/ CallClearField(b) \/ CallClear(b)
  \/ CallGetFieldBuilder(b) \/ CallGetField(b) \/ CallBuild(b)

Spec == Init /\ [][Next]_vars

-----------------------------------------------------------------------------
(* The content of a builder: what is in it and in the builders below, with    *)
(* no look at a cached message.                                             *)
Contents(h) ==
  LET content[i \in DOMAIN h.b] ==
        LET n == h.b[i]
            s == n.fieldBuilder
        IN <<n.x>> \o
           IF FieldPresence /\ ~ n.has THEN NONE
           ELSE IF s = 0 THEN n.field
           ELSE IF h.s[s].builder # 0 THEN content[h.s[s].builder]
           ELSE h.s[s].message
  IN content

(* "If builder is non-null, this represents a cached message from the        *)
(* builder" (SingleFieldBuilderV3.java:77): a cached message is what the      *)
(* builder holds, whatever was changed below it since it was built, through   *)
(* whichever builder; and one of the two is there.                           *)
CacheIsContent ==
  \A s \in DOMAIN heap.s :
    /\ heap.s[s].builder # 0 \/ heap.s[s].message # NONE
    /\ heap.s[s].builder # 0 /\ heap.s[s].message # NONE =>
         heap.s[s].message = Contents(heap)[heap.s[s].builder]

-----------------------------------------------------------------------------
(* The tree the builders stand for. *)
Node(h, b) ==
  LET n == h.b[b]
      s == n.fieldBuilder
  IN [level |-> n.level, x |-> n.x,
      child |-> IF FieldPresence /\ ~ n.has THEN NONE
                ELSE IF s = 0 THEN n.field
                ELSE IF h.s[s].builder # 0 THEN NONE ELSE h.s[s].message,
      sub |-> IF s # 0 THEN h.s[s].builder ELSE 0]
Nodes(h) == [b \in DOMAIN h.b |-> Node(h, b)]

Tree == INSTANCE MessageTree WITH nodes <- Nodes(heap), answer <- answer

(* The builders are a mutable tree: the caches and the flags do not show in   *)
(* any message that is returned, and no call reaches a builder that is not    *)
(* below its own.                                                           *)
Implements == Tree!Spec
=============================================================================
