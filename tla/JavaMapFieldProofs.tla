-------------------------- MODULE JavaMapFieldProofs --------------------------
(***************************************************************************)
(* For any number of threads, builders and messages, any keys and values,    *)
(* and whatever calls are made: the threads that read a message convert its  *)
(* MapField without disturbing each other or the builder that shares it, and *)
(* the maps of builders and messages implement SharedMap.                    *)
(***************************************************************************)
EXTENDS JavaMapField, MapOpsProofs

FieldsOf(c) == {c.on, c.other} \ {NULL}
Converting == {"check", "enter", "convert", "store", "act"}

(* A MapField by itself: its types, and that its mode tells the truth.       *)
RecordType ==
  [mode : {"MAP", "LIST", "BOTH"}, mapData : {NULL} \cup Maps,
   listData : {NULL} \cup Seq(Entries), isMutable : BOOLEAN]
RecordOK(r) ==
  /\ r \in RecordType
  /\ r.mode # "LIST" => r.mapData \in Maps
  /\ r.mode # "MAP" => r.listData \in Seq(Entries)
  /\ r.mode = "BOTH" => AsMap(r.listData) = r.mapData
ContentOf(r) == IF r.mode = "LIST" THEN AsMap(r.listData) ELSE r.mapData

VariableTypes ==
  /\ foo \in [Fields -> MapFields \cup {NULL}]
  /\ monitor \in [MapFields -> Threads \cup {NULL}]
  /\ call \in [Threads -> Calls \cup {NULL}]
  /\ pc \in [Threads -> {"idle", "mutable", "internalGet", "build", "view"} \cup Converting]
  /\ at \in [Threads -> [o : MapFields \cup {NULL}, to : {"MAP", "LIST"}]]

(* A MapField that may be changed is one builder's, and nobody else sees it.  *)
Owned ==
  \A f, g \in Fields : foo[f] # NULL /\ object[foo[f]].isMutable =>
    f \in Builders /\ (foo[g] = foo[f] => g = f)

(* Calls at the same time: a builder, and the message being built, are in    *)
(* one of them.                                                              *)
Separate ==
  \A t, u \in Threads : t # u /\ call[t] # NULL /\ call[u] # NULL =>
    /\ FieldsOf(call[t]) \cap FieldsOf(call[u]) \cap Builders = {}
    /\ call[t].op = "Build" => call[t].on \notin FieldsOf(call[u])

(* The MapField that t converts is that of its own field, or, when t merges,  *)
(* of the message; then t's own one is a map by now.                         *)
OwnMutable(c) == foo[c.on] # NULL /\ object[foo[c.on]].isMutable
TargetOK(t, c) ==
  /\ c.op # "Build" /\ at[t].o # NULL
  /\ at[t].to = IF Reading(c) THEN View(c) ELSE "MAP"
  /\ \/ at[t].o = foo[c.on] /\ (Reading(c) \/ ~ OwnMutable(c))
     \/ /\ c.op = "MergeFrom" /\ at[t].o = foo[c.other]
        /\ OwnMutable(c) /\ object[foo[c.on]].mode = "MAP"
PlaceOK(t, c) ==
  /\ pc[t] = "internalGet" => Reading(c)
  /\ pc[t] = "build" <=> c.op = "Build"
  /\ pc[t] \in {"mutable", "view"} => ~ Reading(c)
  /\ pc[t] = "view" => OwnMutable(c)
  /\ pc[t] \in Converting => TargetOK(t, c)
ConvertOK(t) ==
  LET r == object[at[t].o] IN
  /\ pc[t] \in {"convert", "store"} => monitor[at[t].o] = t /\ Stale(at[t])
  /\ pc[t] = "store" => /\ r.mapData \in Maps /\ r.listData \in Seq(Entries)
                        /\ AsMap(r.listData) = r.mapData
  /\ pc[t] = "act" => ~ Stale(at[t])
CallOK(t) ==
  /\ pc[t] = "idle" <=> call[t] = NULL
  /\ pc[t] # "idle" => PlaceOK(t, call[t]) /\ ConvertOK(t)

ObjectsOK ==
  /\ object \in [MapFields -> RecordType]
  /\ \A o \in MapFields : RecordOK(object[o])
  /\ \A o \in Free : object[o] = newMapField

IInv ==
  /\ VariableTypes
  /\ ObjectsOK
  /\ Owned
  /\ Separate
  /\ \A t \in Threads : CallOK(t)

-----------------------------------------------------------------------------
(* Calls and MapFields.                                                      *)

(* The fields of a call.                                                    *)
LEMMA CallFields ==
  ASSUME NEW c \in Calls
  PROVE  /\ c # NULL
         /\ c.on \in FieldsOf(c) /\ FieldsOf(c) \subseteq Fields
         /\ c.op \in {"MergeFrom", "Build"} => c.other \in FieldsOf(c)
         /\ ~ Reading(c) /\ c.op # "Build" => c.on \in Builders
         /\ c.op = "Build" => c.on \notin Builders /\ c.other \in Builders
         /\ c.op = "MergeFrom" => c.other \notin Builders
  BY CallsAssumption, JavaMapFieldAssumption, MapOpsAssumption DEF FieldsOf, Reading

(* Each form of a MapField that its mode vouches for is its content.        *)
LEMMA RecordContent ==
  ASSUME NEW r, RecordOK(r)
  PROVE  /\ ContentOf(r) \in Maps
         /\ r.mode # "LIST" => r.mapData = ContentOf(r)
         /\ r.mode # "MAP" => r.listData \in Seq(Entries) /\ AsMap(r.listData) = ContentOf(r)
  BY AsMapType DEF RecordOK, RecordType, ContentOf

(* A new MapField is an empty map.                                          *)
LEMMA NewMapFieldOK ==
  RecordOK(newMapField) /\ ContentOf(newMapField) = Empty
  BY EmptyIsMap DEF newMapField, RecordOK, RecordType, ContentOf

(* The content of an object, by its record.                                 *)
LEMMA ObjectContent ==
  ASSUME NEW o \in MapFields
  PROVE  Content(o) = ContentOf(object[o])
  BY DEF Content, ContentOf

(* What a conversion makes of a MapField.                                    *)
LEMMA ConvertedOK ==
  ASSUME NEW r, RecordOK(r), NEW to \in {"MAP", "LIST"}, NEW s \in Converted(r, to),
         r.mode = IF to = "MAP" THEN "LIST" ELSE "MAP"
  PROVE  /\ RecordOK(s) /\ ContentOf(s) = ContentOf(r)
         /\ s.mode = r.mode /\ s.isMutable = r.isMutable
         /\ s.mapData \in Maps /\ s.listData \in Seq(Entries) /\ AsMap(s.listData) = s.mapData
         /\ s.mapData = ContentOf(r)
         /\ r.mode # "LIST" => s.mapData = r.mapData
         /\ r.mode # "MAP" => s.listData = r.listData
<1>1. CASE to = "MAP"
  <2>1. s = [r EXCEPT !.mapData = AsMap(r.listData)] /\ r.mode = "LIST"
    BY <1>1 DEF Converted
  <2>2. r.listData \in Seq(Entries) /\ AsMap(r.listData) \in Maps /\ r \in RecordType
    BY <2>1, AsMapType DEF RecordOK
  <2> QED
    BY <2>1, <2>2 DEF RecordOK, RecordType, ContentOf
<1>2. CASE to = "LIST"
  <2>1. PICK list \in ListsOf(r.mapData) : s = [r EXCEPT !.listData = list]
    BY <1>2 DEF Converted
  <2>2. r.mode = "MAP" /\ r.mapData \in Maps /\ r \in RecordType
    BY <1>2 DEF RecordOK
  <2>3. list \in Seq(Entries) /\ AsMap(list) = r.mapData
    BY <2>2, ListsOfMap, JavaMapFieldAssumption
  <2> QED
    BY <2>1, <2>2, <2>3 DEF RecordOK, RecordType, ContentOf
<1> QED
  BY <1>1, <1>2

(* A mutable getter brings a MapField to one form, and its content stays.    *)
LEMMA MutableOK ==
  ASSUME NEW r, RecordOK(r), NEW to \in {"MAP", "LIST"}, NEW s \in getMutable(r, to)
  PROVE  RecordOK(s) /\ ContentOf(s) = ContentOf(r) /\ s.mode = to /\ s.isMutable = r.isMutable
<1>1. CASE r.mode = to
  BY <1>1 DEF getMutable
<1>2. CASE r.mode # to
  <2> DEFINE Both(q) == [q EXCEPT !.mode = to, !.mapData = IF to = "MAP" THEN @ ELSE NULL,
                                  !.listData = IF to = "LIST" THEN @ ELSE NULL]
  <2>1. PICK q \in IF r.mode = "BOTH" THEN {r} ELSE Converted(r, to) : s = Both(q)
    BY <1>2 DEF getMutable
  <2>2. /\ q \in RecordType /\ q.isMutable = r.isMutable
        /\ q.mapData \in Maps /\ q.listData \in Seq(Entries) /\ AsMap(q.listData) = q.mapData
        /\ q.mapData = ContentOf(r)
    <3>1. CASE r.mode = "BOTH"
      BY <2>1, <3>1 DEF RecordOK, ContentOf
    <3>2. CASE r.mode # "BOTH"
      <4>1. r.mode = IF to = "MAP" THEN "LIST" ELSE "MAP"
        BY <1>2, <3>2 DEF RecordOK, RecordType
      <4>2. q \in Converted(r, to)
        BY <2>1, <3>2
      <4> QED
        BY <4>1, <4>2, ConvertedOK DEF RecordOK
    <3> QED
      BY <3>1, <3>2
  <2> QED
    BY <2>1, <2>2 DEF RecordOK, RecordType, ContentOf
<1> QED
  BY <1>1, <1>2

-----------------------------------------------------------------------------
(* The steps.  A step of t changes a MapField that no field refers to before  *)
(* or after it, one that t's builder has for itself, and the one t converts.  *)

Refined(r, s) ==
  /\ s.isMutable = r.isMutable /\ s.mode \in {r.mode, "BOTH"}
  /\ r.mode # "LIST" => s.mapData = r.mapData
  /\ r.mode # "MAP" => s.listData = r.listData

Others(t) == \A u \in Threads \ {t} :
  /\ call'[u] = call[u] /\ pc'[u] = pc[u] /\ at'[u] = at[u]
  /\ \A o \in MapFields : monitor[o] = u => monitor'[o] = u
Frame(t) ==
  /\ \A f \in Fields :
       \/ foo'[f] = foo[f]
       \/ /\ pc[t] # "idle" /\ f = call[t].on
          /\ f \in Builders \/ call[t].op = "Build"
  /\ \A o \in MapFields :
       \/ object'[o] = object[o]
       \/ o \in Free \/ o \in Free'
       \/ /\ pc[t] # "idle" /\ object[o].isMutable
          /\ \E b \in FieldsOf(call[t]) \cap Builders : foo[b] = o
       \/ /\ pc[t] \in {"convert", "store"} /\ at[t].o = o
          /\ Refined(object[o], object'[o])

(* A thread in a call has one.                                               *)
LEMMA Calling ==
  ASSUME IInv, NEW t \in Threads, pc[t] # "idle"
  PROVE  call[t] \in Calls /\ call[t] # NULL /\ PlaceOK(t, call[t]) /\ ConvertOK(t)
  BY CallsAssumption DEF IInv, VariableTypes, CallOK

(* The MapField that t is about to convert, or has.                          *)
LEMMA Target ==
  ASSUME IInv, NEW t \in Threads, pc[t] \in Converting
  PROVE  /\ TargetOK(t, call[t]) /\ at[t].o \in MapFields /\ at[t].to \in {"MAP", "LIST"}
         /\ RecordOK(object[at[t].o])
         /\ \E f \in FieldsOf(call[t]) : foo[f] = at[t].o
<1>1. /\ call[t] \in Calls /\ TargetOK(t, call[t])
      /\ at[t].o \in MapFields \cup {NULL} /\ at[t].to \in {"MAP", "LIST"}
  BY Calling DEF IInv, PlaceOK, VariableTypes, Converting
<1>2. \E f \in FieldsOf(call[t]) : foo[f] = at[t].o
  BY <1>1, CallFields DEF TargetOK
<1> QED
  BY <1>1, <1>2 DEF TargetOK, IInv, ObjectsOK

(* What a step of t does to the fields of another call.                      *)
LEMMA OtherFields ==
  ASSUME IInv, NEW t \in Threads, NEW u \in Threads \ {t}, pc[u] # "idle", Frame(t),
         NEW f \in FieldsOf(call[u])
  PROVE  /\ f \in Fields /\ foo'[f] = foo[f]
         /\ foo[f] # NULL =>
              /\ \/ object'[foo[f]] = object[foo[f]]
                 \/ Refined(object[foo[f]], object'[foo[f]]) /\ monitor[foo[f]] = t
              /\ object[foo[f]].isMutable => object'[foo[f]] = object[foo[f]]
<1>1. call[u] \in Calls /\ call[u] # NULL /\ f \in Fields
  BY Calling, CallFields
<1>2. foo'[f] = foo[f]
  <2>1. CASE pc[t] = "idle"
    BY <1>1, <2>1 DEF Frame
  <2>2. CASE pc[t] # "idle"
    <3>1. call[t] \in Calls /\ call[t] # NULL /\ call[t].on \in FieldsOf(call[t])
      BY <2>2, Calling, CallFields
    <3>2. ~ (f = call[t].on /\ (f \in Builders \/ call[t].op = "Build"))
      BY <1>1, <3>1 DEF IInv, Separate
    <3> QED
      BY <1>1, <3>2 DEF Frame
  <2> QED
    BY <2>1, <2>2
<1>3. ASSUME foo[f] # NULL
      PROVE  /\ \/ object'[foo[f]] = object[foo[f]]
                \/ Refined(object[foo[f]], object'[foo[f]]) /\ monitor[foo[f]] = t
             /\ object[foo[f]].isMutable => object'[foo[f]] = object[foo[f]]
  <2> DEFINE o == foo[f]
  <2>1. o \in MapFields /\ o \notin Free /\ o \notin Free'
    BY <1>1, <1>2, <1>3 DEF IInv, VariableTypes, Free
  <2>2. ASSUME pc[t] # "idle", object[o].isMutable, NEW b \in FieldsOf(call[t]), foo[b] = o
        PROVE  FALSE
    <3>1. call[t] \in Calls /\ call[t] # NULL /\ b \in Fields
      BY <2>2, Calling, CallFields
    <3>2. f = b /\ f \in Builders
      BY <1>1, <1>3, <2>2, <3>1 DEF IInv, Owned
    <3> QED
      BY <1>1, <3>1, <3>2 DEF IInv, Separate
  <2>3. ASSUME pc[t] \in {"convert", "store"}, at[t].o = o, Refined(object[o], object'[o])
        PROVE  Refined(object[o], object'[o]) /\ monitor[o] = t /\ ~ object[o].isMutable
    <3>1. monitor[o] = t
      BY <2>3, Calling DEF ConvertOK
    <3>2. \E b \in FieldsOf(call[t]) : foo[b] = o
      BY <2>3, Target DEF Converting
    <3> QED
      BY <2>2, <2>3, <3>1, <3>2
  <2>4. \/ object'[o] = object[o]
        \/ pc[t] \in {"convert", "store"} /\ at[t].o = o /\ Refined(object[o], object'[o])
    BY <2>1, <2>2 DEF Frame
  <2> QED
    BY <2>3, <2>4
<1> QED
  BY <1>1, <1>2, <1>3

(* What a thread's call relies on stays, when others keep to their frame.   *)
LEMMA OthersKeep ==
  ASSUME IInv, NEW t \in Threads, NEW u \in Threads \ {t}, Others(t), Frame(t)
  PROVE  CallOK(u)'
<1>1. /\ call'[u] = call[u] /\ pc'[u] = pc[u] /\ at'[u] = at[u]
      /\ \A o \in MapFields : monitor[o] = u => monitor'[o] = u
  BY DEF Others
<1>2. CASE pc[u] = "idle"
  BY <1>1, <1>2 DEF IInv, CallOK
<1>3. CASE pc[u] # "idle"
  <2> DEFINE c == call[u]
  <2>1. c \in Calls /\ c # NULL /\ PlaceOK(u, c) /\ ConvertOK(u) /\ c.on \in FieldsOf(c)
    BY <1>3, Calling, CallFields
  <2>2. /\ foo'[c.on] = foo[c.on]
        /\ foo[c.on] # NULL => /\ OwnMutable(c) => object'[foo[c.on]] = object[foo[c.on]]
                               /\ object'[foo[c.on]].isMutable = object[foo[c.on]].isMutable
    BY <1>3, <2>1, OtherFields DEF OwnMutable, Refined
  <2>3. (OwnMutable(c) <=> OwnMutable(c)') /\ (Reading(c)' <=> Reading(c)) /\ View(c)' = View(c)
    BY <1>1, <2>2 DEF OwnMutable, Reading, View
  <2>4. CASE pc[u] \in Converting
    <3> DEFINE o == at[u].o
    <3>1. TargetOK(u, c) /\ o \in MapFields /\ at[u].to \in {"MAP", "LIST"}
      BY <2>4, Target
    <3>2. PICK f \in FieldsOf(c) : foo[f] = o
      BY <2>4, Target
    <3>3. /\ object'[o] = object[o] \/ (Refined(object[o], object'[o]) /\ monitor[o] = t)
          /\ o # NULL
      BY <1>3, <3>1, <3>2, OtherFields DEF TargetOK
    <3>4. c.op = "MergeFrom" => foo'[c.other] = foo[c.other]
      BY <1>3, <2>1, CallFields, OtherFields
    <3>5. TargetOK(u, c)'
      BY <1>1, <2>2, <2>3, <3>1, <3>4 DEF TargetOK, OwnMutable
    <3>6. PlaceOK(u, c)'
      BY <1>1, <2>1, <2>3, <2>4, <3>5 DEF PlaceOK, Converting
    <3>7. ConvertOK(u)'
      <4>1. CASE pc[u] \in {"convert", "store"}
        <5>1. monitor[o] = u
          BY <2>1, <4>1 DEF ConvertOK
        <5>2. object'[o] = object[o] /\ monitor'[o] = u
          BY <1>1, <3>1, <3>3, <5>1
        <5> QED
          BY <1>1, <2>1, <4>1, <5>2 DEF ConvertOK, Stale
      <4>2. CASE pc[u] = "act"
        <5>1. ~ Stale(at[u])
          BY <2>1, <4>2 DEF ConvertOK
        <5>2. ~ Stale(at[u])'
          BY <1>1, <3>1, <3>3, <5>1 DEF Stale, Refined
        <5> QED
          BY <1>1, <4>2, <5>2 DEF ConvertOK
      <4> QED
        BY <1>1, <4>1, <4>2 DEF ConvertOK
    <3> QED
      BY <1>1, <1>3, <2>1, <3>6, <3>7 DEF CallOK
  <2>5. CASE pc[u] \notin Converting
    <3>1. PlaceOK(u, c)'
      BY <1>1, <2>1, <2>3, <2>5 DEF PlaceOK
    <3>2. ConvertOK(u)'
      BY <1>1, <2>5 DEF ConvertOK, Converting
    <3> QED
      BY <1>1, <1>3, <2>1, <3>1, <3>2 DEF CallOK
  <2> QED
    BY <2>4, <2>5
<1> QED
  BY <1>2, <1>3

(* What is to be shown of a step of t.                                       *)
LEMMA StepKeeps ==
  ASSUME IInv, NEW t \in Threads, Others(t), Frame(t),
         VariableTypes', ObjectsOK', Owned', Separate', CallOK(t)'
  PROVE  IInv'
<1>1. \A u \in Threads : CallOK(u)'
  BY OthersKeep
<1> QED
  BY <1>1 DEF IInv

-----------------------------------------------------------------------------
(* Steps that leave the MapFields alone.                                     *)

Contents == [f \in Fields |-> IF foo[f] = NULL THEN Empty ELSE Content(foo[f])]
SameContents == UNCHANGED Contents

(* A step that leaves the objects and the fields alone keeps to its frame.  *)
LEMMA Unchanged ==
  ASSUME IInv, UNCHANGED <<object, foo>>, NEW t \in Threads
  PROVE  /\ Frame(t) /\ ObjectsOK' /\ Owned' /\ SameContents
         /\ \A m : Stale(m)' <=> Stale(m)
  BY DEF IInv, Frame, ObjectsOK, Owned, SameContents, Contents, Content, Stale, Free

(* While no call begins, those at work stay separate.                       *)
LEMMA SameCalls ==
  ASSUME IInv, UNCHANGED call
  PROVE  Separate'
  BY DEF IInv, Separate

(* A call begins.                                                           *)
LEMMA StartKeeps ==
  ASSUME IInv, NEW t \in Threads, NEW c \in Calls, Start(t, c)
  PROVE  IInv' /\ SameContents
<1>1. /\ pc[t] = "idle" /\ UNCHANGED <<object, foo, monitor, at>> /\ MayCall(c)
      /\ call' = [call EXCEPT ![t] = c]
      /\ pc' = [pc EXCEPT ![t] = IF Reading(c) THEN "internalGet"
                                 ELSE IF c.op = "Build" THEN "build" ELSE "mutable"]
  BY DEF Start, Goto
<1>2. /\ call'[t] = c /\ c # NULL /\ VariableTypes' /\ Others(t)
      /\ pc'[t] \in {"internalGet", "build", "mutable"}
      /\ pc'[t] = "internalGet" <=> Reading(c)
      /\ pc'[t] = "build" <=> c.op = "Build"
  BY <1>1, CallFields DEF IInv, VariableTypes, Others, Converting, Reading
<1>3. Separate'
  <2> SUFFICES ASSUME NEW u \in Threads \ {t}, call[u] # NULL
               PROVE  /\ FieldsOf(c) \cap FieldsOf(call[u]) \cap Builders = {}
                      /\ c.op = "Build" => c.on \notin FieldsOf(call[u])
                      /\ call[u].op = "Build" => call[u].on \notin FieldsOf(c)
    BY <1>2 DEF IInv, Separate, Others
  <2> QED
    BY <1>1 DEF MayCall, FieldsOf
<1>4. CallOK(t)'
  BY <1>2 DEF CallOK, PlaceOK, ConvertOK, Converting, Reading
<1> QED
  BY <1>1, <1>2, <1>3, <1>4, Unchanged, StepKeeps

(* The end of a call.                                                        *)
LEMMA Returned ==
  ASSUME IInv, NEW t \in Threads, pc[t] # "idle", Return(t), UNCHANGED monitor
  PROVE  /\ VariableTypes' <=> (foo \in [Fields -> MapFields \cup {NULL}])'
         /\ Others(t) /\ Separate' /\ CallOK(t)' /\ call' = [call EXCEPT ![t] = NULL]
<1>1. /\ call' = [call EXCEPT ![t] = NULL] /\ pc' = [pc EXCEPT ![t] = "idle"]
      /\ at' = [at EXCEPT ![t] = Nowhere]
  BY DEF Return, Goto
<1>2. call'[t] = NULL /\ pc'[t] = "idle" /\ Others(t)
  BY <1>1 DEF IInv, VariableTypes, Others
<1>3. Separate'
  BY <1>2 DEF IInv, Separate, Others
<1>4. CallOK(t)'
  BY <1>2 DEF CallOK
<1>5. VariableTypes' <=> (foo \in [Fields -> MapFields \cup {NULL}])'
  BY <1>1 DEF IInv, VariableTypes, Nowhere
<1> QED
  BY <1>1, <1>2, <1>3, <1>4, <1>5

(* A call ends without another change.                                      *)
LEMMA ReturnKeeps ==
  ASSUME IInv, NEW t \in Threads, pc[t] # "idle", Return(t), UNCHANGED <<object, foo, monitor>>
  PROVE  IInv' /\ SameContents
<1>1. VariableTypes'
  BY Returned DEF IInv, VariableTypes
<1> QED
  BY <1>1, Returned, Unchanged, StepKeeps

(* A getter finds the MapField of its field.                                *)
LEMMA InternalGetKeeps ==
  ASSUME IInv, NEW t \in Threads, internalGet(t), foo[call[t].on] # NULL
  PROVE  IInv' /\ SameContents /\ UNCHANGED call
<1> DEFINE c == call[t]
<1>1. /\ pc[t] = "internalGet" /\ UNCHANGED <<object, foo, monitor, call>>
      /\ pc' = [pc EXCEPT ![t] = "check"]
      /\ at' = [at EXCEPT ![t] = [o |-> foo[c.on], to |-> View(c)]]
  BY DEF internalGet, Goto
<1>2. c \in Calls /\ c # NULL /\ Reading(c) /\ foo[c.on] \in MapFields
  BY <1>1, Calling, CallFields DEF IInv, PlaceOK, VariableTypes
<1>3. /\ pc'[t] = "check" /\ at'[t] = [o |-> foo[c.on], to |-> View(c)]
      /\ VariableTypes' /\ Others(t)
  BY <1>1, <1>2 DEF IInv, VariableTypes, Others, Converting, View
<1>4. CallOK(t)'
  <2>1. TargetOK(t, c)'
    BY <1>1, <1>2, <1>3, JavaMapFieldAssumption DEF TargetOK, Reading, View
  <2> QED
    BY <1>1, <1>2, <1>3, <2>1 DEF CallOK, PlaceOK, ConvertOK, Reading
<1> QED
  BY <1>1, <1>3, <1>4, Unchanged, SameCalls, StepKeeps

(* A step of t on the way of its conversion that changes no MapField.        *)
LEMMA OnTheWay ==
  ASSUME IInv, NEW t \in Threads, pc[t] \in {"check", "enter"}, NEW label,
         pc' = [pc EXCEPT ![t] = label], UNCHANGED <<object, foo, call, at>>,
         label \in {"enter", "convert", "act"}, monitor' \in [MapFields -> Threads \cup {NULL}],
         \A o \in MapFields : monitor[o] # NULL => monitor'[o] = monitor[o],
         label = "convert" => monitor'[at[t].o] = t /\ Stale(at[t]),
         label = "act" => ~ Stale(at[t])
  PROVE  IInv' /\ SameContents /\ UNCHANGED call
<1>1. /\ call[t] \in Calls /\ call[t] # NULL /\ TargetOK(t, call[t]) /\ PlaceOK(t, call[t])
  BY Calling, Target DEF Converting
<1>2. pc'[t] = label /\ VariableTypes' /\ Others(t)
  BY MapOpsAssumption DEF IInv, VariableTypes, Others, Converting
<1>3. CallOK(t)'
  <2>1. TargetOK(t, call[t])'
    BY <1>1 DEF TargetOK, OwnMutable, Reading, View
  <2>2. PlaceOK(t, call[t])'
    BY <1>1, <1>2, <2>1 DEF PlaceOK, TargetOK, Reading
  <2>3. ConvertOK(t)'
    BY <1>2, Unchanged DEF ConvertOK
  <2> QED
    BY <1>1, <1>2, <2>2, <2>3 DEF CallOK
<1> QED
  BY <1>2, <1>3, Unchanged, SameCalls, StepKeeps

(* The check of the mode, without the monitor.                              *)
LEMMA CheckKeeps ==
  ASSUME IInv, NEW t \in Threads, Check(t)
  PROVE  IInv' /\ SameContents /\ UNCHANGED call
<1>1. /\ pc[t] = "check" /\ UNCHANGED <<object, foo, monitor, call, at>>
      /\ pc' = [pc EXCEPT ![t] = IF Stale(at[t]) THEN "enter" ELSE "act"]
  BY DEF Check, Goto
<1>2. monitor \in [MapFields -> Threads \cup {NULL}]
  BY DEF IInv, VariableTypes
<1> DEFINE label == IF Stale(at[t]) THEN "enter" ELSE "act"
<1>3. label \in {"enter", "act"} /\ (label = "act" => ~ Stale(at[t]))
  OBVIOUS
<1> HIDE DEF label
<1> QED
  BY <1>1, <1>2, <1>3, OnTheWay DEF label

(* The monitor is taken and the mode checked again.                         *)
LEMMA EnterKeeps ==
  ASSUME IInv, NEW t \in Threads, Enter(t)
  PROVE  IInv' /\ SameContents /\ UNCHANGED call
<1>1. /\ pc[t] = "enter" /\ monitor[at[t].o] = NULL /\ UNCHANGED <<object, foo, call, at>>
      /\ at[t].o \in MapFields /\ monitor \in [MapFields -> Threads \cup {NULL}]
  BY Target DEF Enter, IInv, VariableTypes, Converting
<1>2. CASE Stale(at[t])
  <2>1. pc' = [pc EXCEPT ![t] = "convert"] /\ monitor' = [monitor EXCEPT ![at[t].o] = t]
    BY <1>2 DEF Enter, Goto
  <2>2. /\ monitor' \in [MapFields -> Threads \cup {NULL}] /\ monitor'[at[t].o] = t
        /\ \A o \in MapFields : monitor[o] # NULL => monitor'[o] = monitor[o]
    BY <1>1, <2>1
  <2> QED
    BY <1>1, <1>2, <2>1, <2>2, OnTheWay
<1>3. CASE ~ Stale(at[t])
  <2>1. pc' = [pc EXCEPT ![t] = "act"] /\ UNCHANGED monitor
    BY <1>3 DEF Enter, Goto
  <2> QED
    BY <1>1, <1>3, <2>1, OnTheWay
<1> QED
  BY <1>2, <1>3

-----------------------------------------------------------------------------
(* Conversion.                                                               *)

(* An object that gets its other form keeps its content.                    *)
LEMMA ObjectRefined ==
  ASSUME IInv, NEW t \in Threads, pc[t] \in {"convert", "store"}, UNCHANGED <<foo, call, at>>,
         NEW s, object' = [object EXCEPT ![at[t].o] = s],
         RecordOK(s), ContentOf(s) = ContentOf(object[at[t].o]), Refined(object[at[t].o], s)
  PROVE  /\ Frame(t) /\ ObjectsOK' /\ Owned' /\ SameContents
         /\ object'[at[t].o] = s /\ PlaceOK(t, call[t]) /\ TargetOK(t, call[t])'
<1> DEFINE o == at[t].o
           c == call[t]
<1>1. /\ o \in MapFields /\ TargetOK(t, c) /\ c \in Calls /\ PlaceOK(t, c)
      /\ \E f \in FieldsOf(c) : foo[f] = o
  BY Target, Calling DEF Converting
<1>2. FieldsOf(c) \subseteq Fields /\ o \notin Free /\ Free' = Free
  BY <1>1, CallFields DEF Free
<1>3. \A p \in MapFields : object'[p] = IF p = o THEN s ELSE object[p]
  BY <1>1 DEF IInv, ObjectsOK
<1>4. Frame(t)
  BY <1>3 DEF Frame
<1>5. ObjectsOK'
  <2>1. s \in RecordType
    BY DEF RecordOK
  <2> QED
    BY <1>1, <1>2, <1>3, <2>1 DEF IInv, ObjectsOK
<1>6. \A p \in MapFields : object'[p].isMutable = object[p].isMutable
  BY <1>3 DEF Refined
<1>7. Owned'
  BY <1>6 DEF IInv, Owned, VariableTypes
<1>8. SameContents
  <2>1. \A p \in MapFields : Content(p)' = Content(p)
    BY <1>3 DEF Content, ContentOf
  <2>2. \A f \in Fields : foo[f] # NULL => foo[f] \in MapFields
    BY DEF IInv, VariableTypes
  <2> QED
    BY <2>1, <2>2 DEF SameContents, Contents
<1>9. TargetOK(t, c)'
  <2>1. OwnMutable(c)' <=> OwnMutable(c)
    BY <1>1, <1>2, <1>6, CallFields DEF OwnMutable, IInv, VariableTypes
  <2>2. ASSUME c.op = "MergeFrom", OwnMutable(c), o = foo[c.other]
        PROVE  object'[foo[c.on]] = object[foo[c.on]]
    <3>1. foo[c.on] \in MapFields /\ foo[c.on] # foo[c.other]
      BY <1>1, <2>2, CallFields DEF IInv, Owned, OwnMutable, VariableTypes
    <3> QED
      BY <1>3, <2>2, <3>1
  <2> QED
    BY <1>1, <2>1, <2>2 DEF TargetOK, Reading, View
<1> QED
  BY <1>1, <1>3, <1>4, <1>5, <1>7, <1>8, <1>9

(* The other form is made.                                                  *)
LEMMA ConvertKeeps ==
  ASSUME IInv, NEW t \in Threads, Convert(t)
  PROVE  IInv' /\ SameContents /\ UNCHANGED call
<1> DEFINE o == at[t].o
           r == object[o]
<1>1. /\ pc[t] = "convert" /\ UNCHANGED <<foo, monitor, call, at>> /\ pc' = [pc EXCEPT ![t] = "store"]
  BY DEF Convert, Goto
<1>2. PICK s \in Converted(r, at[t].to) : object' = [object EXCEPT ![o] = s]
  BY DEF Convert
<1>3. /\ monitor[o] = t /\ r.mode = IF at[t].to = "MAP" THEN "LIST" ELSE "MAP"
      /\ RecordOK(r) /\ at[t].to \in {"MAP", "LIST"}
      /\ call[t] # NULL /\ PlaceOK(t, call[t])
  BY <1>1, Calling, Target DEF ConvertOK, Stale, Converting
<1>4. /\ RecordOK(s) /\ ContentOf(s) = ContentOf(r) /\ Refined(r, s) /\ s.mode = r.mode
      /\ s.mapData \in Maps /\ s.listData \in Seq(Entries) /\ AsMap(s.listData) = s.mapData
  BY <1>2, <1>3, ConvertedOK DEF Refined
<1>5. /\ Frame(t) /\ ObjectsOK' /\ Owned' /\ SameContents /\ object'[o] = s /\ TargetOK(t, call[t])'
  BY <1>1, <1>2, <1>4, ObjectRefined
<1>6. pc'[t] = "store" /\ VariableTypes' /\ Others(t)
  BY <1>1 DEF IInv, VariableTypes, Others, Converting
<1>7. CallOK(t)'
  <2>1. ConvertOK(t)'
    BY <1>1, <1>3, <1>4, <1>5, <1>6 DEF ConvertOK, Stale
  <2>2. PlaceOK(t, call[t])'
    BY <1>1, <1>3, <1>5, <1>6 DEF PlaceOK
  <2> QED
    BY <1>1, <1>3, <1>6, <2>1, <2>2 DEF CallOK
<1> QED
  BY <1>1, <1>5, <1>6, <1>7, SameCalls, StepKeeps

(* The mode is stored and the monitor left.                                 *)
LEMMA StoreModeKeeps ==
  ASSUME IInv, NEW t \in Threads, StoreMode(t)
  PROVE  IInv' /\ SameContents /\ UNCHANGED call
<1> DEFINE o == at[t].o
           r == object[o]
           s == [r EXCEPT !.mode = "BOTH"]
<1>1. /\ pc[t] = "store" /\ UNCHANGED <<foo, call, at>> /\ pc' = [pc EXCEPT ![t] = "act"]
      /\ object' = [object EXCEPT ![o] = s] /\ monitor' = [monitor EXCEPT ![o] = NULL]
  BY DEF StoreMode, Goto
<1>2. /\ monitor[o] = t /\ RecordOK(r) /\ at[t].to \in {"MAP", "LIST"}
      /\ r.mapData \in Maps /\ r.listData \in Seq(Entries) /\ AsMap(r.listData) = r.mapData
      /\ call[t] # NULL /\ PlaceOK(t, call[t])
  BY <1>1, Calling, Target DEF ConvertOK, Converting
<1>3. RecordOK(s) /\ ContentOf(s) = ContentOf(r) /\ Refined(r, s) /\ s.mode = "BOTH"
  BY <1>2 DEF RecordOK, RecordType, ContentOf, Refined
<1> HIDE DEF s
<1>4. /\ Frame(t) /\ ObjectsOK' /\ Owned' /\ SameContents /\ object'[o] = s /\ TargetOK(t, call[t])'
  BY <1>1, <1>3, ObjectRefined
<1>5. pc'[t] = "act" /\ VariableTypes' /\ Others(t)
  BY <1>1, <1>2, MapOpsAssumption DEF IInv, VariableTypes, Others, Converting
<1>6. CallOK(t)'
  <2>1. ConvertOK(t)'
    BY <1>1, <1>2, <1>3, <1>4, <1>5 DEF ConvertOK, Stale
  <2>2. PlaceOK(t, call[t])'
    BY <1>1, <1>2, <1>4, <1>5 DEF PlaceOK
  <2> QED
    BY <1>1, <1>2, <1>5, <2>1, <2>2 DEF CallOK
<1> QED
  BY <1>1, <1>4, <1>5, <1>6, SameCalls, StepKeeps

-----------------------------------------------------------------------------
(* The builder gets a MapField of its own.                                   *)

(* The content of the MapField that t's field has now, and of the others.    *)
Given(t) ==
  LET f == call[t].on IN
  /\ foo' \in [Fields -> MapFields \cup {NULL}]
  /\ Contents'[f] = ContentOf(object'[foo'[f]])
  /\ \A g \in Fields : g # f => Contents'[g] = Contents[g]

(* A MapField that nobody has yet becomes that of field f, and what nobody    *)
(* has any more is as good as new.                                           *)
LEMMA ObjectGiven ==
  ASSUME IInv, NEW t \in Threads, pc[t] # "idle", NEW f, f = call[t].on, f \in Fields,
         f \in Builders \/ call[t].op = "Build",
         NEW o, o \in Free, foo' = [foo EXCEPT ![f] = o],
         RecordOK(object'[o]), object'[o].isMutable => f \in Builders,
         object' \in [MapFields -> RecordType],
         \A p \in MapFields \ {o} :
           object'[p] = IF p \in Free' THEN newMapField ELSE object[p]
  PROVE  Frame(t) /\ ObjectsOK' /\ Owned' /\ Given(t)
<1> DEFINE s == object'[o]
<1>1. /\ o \in MapFields /\ foo \in [Fields -> MapFields \cup {NULL}]
      /\ \A g \in Fields : foo[g] # o
      /\ object \in [MapFields -> RecordType] /\ \A p \in MapFields : RecordOK(object[p])
      /\ o # NULL
  BY JavaMapFieldAssumption DEF IInv, VariableTypes, Free, ObjectsOK
<1>2. /\ foo' \in [Fields -> MapFields \cup {NULL}] /\ foo'[f] = o
      /\ \A g \in Fields : g # f => foo'[g] = foo[g] /\ foo'[g] # o
  BY <1>1
<1>3. /\ object'[o] = s
      /\ \A p \in MapFields : p # o =>
           object'[p] = IF \E g \in Fields : foo'[g] = p THEN object[p] ELSE newMapField
  BY DEF Free
<1>4. \A g \in Fields : g # f /\ foo[g] # NULL => object'[foo[g]] = object[foo[g]]
  BY <1>1, <1>2, <1>3
<1>5. Frame(t)
  <2>1. \A p \in MapFields : object'[p] = object[p] \/ p \in Free \/ p \in Free'
    BY <1>3 DEF Free
  <2> QED
    BY <1>2, <2>1 DEF Frame
<1>6. ObjectsOK'
  <2>1. \A p \in MapFields : RecordOK(object'[p])
    BY <1>1, <1>3, NewMapFieldOK
  <2>3. \A p \in Free' : object'[p] = newMapField
    BY <1>1, <1>2, <1>3 DEF Free
  <2> QED
    BY <2>1, <2>3 DEF ObjectsOK, newMapField
<1>7. Owned'
  <2> SUFFICES ASSUME NEW a \in Fields, NEW b \in Fields, foo'[a] # NULL,
                      object'[foo'[a]].isMutable
               PROVE  a \in Builders /\ (foo'[b] = foo'[a] => b = a)
    BY DEF Owned
  <2>1. CASE a = f
    BY <1>2, <1>3, <2>1
  <2>2. CASE a # f
    <3>1. foo'[a] = foo[a] /\ object[foo[a]].isMutable /\ foo[a] # o
      BY <1>2, <1>4, <2>2
    <3>2. a \in Builders /\ (foo[b] = foo[a] => b = a)
      BY <3>1 DEF IInv, Owned
    <3> QED
      BY <1>2, <3>1, <3>2
  <2> QED
    BY <2>1, <2>2
<1>8. /\ Contents'[f] = ContentOf(s)
      /\ \A g \in Fields : g # f => Contents'[g] = Contents[g]
  BY <1>1, <1>2, <1>4 DEF Contents, Content, ContentOf
<1> QED
  BY <1>1, <1>2, <1>5, <1>6, <1>7, <1>8 DEF Given

(* Where the content is given to a field is what it has.                     *)
LEMMA ContentIs ==
  ASSUME IInv, NEW f \in Fields
  PROVE  /\ Contents[f] \in Maps
         /\ foo[f] = NULL => Contents[f] = Empty
         /\ foo[f] # NULL => /\ foo[f] \in MapFields /\ RecordOK(object[foo[f]])
                             /\ Contents[f] = ContentOf(object[foo[f]])
<1>1. foo[f] # NULL => foo[f] \in MapFields /\ RecordOK(object[foo[f]])
  BY DEF IInv, VariableTypes, ObjectsOK
<1> QED
  BY <1>1, RecordContent, EmptyIsMap DEF Contents, Content, ContentOf

(* What the builder has for itself is changed, and nobody else sees it.      *)
LEMMA OwnChanged ==
  ASSUME IInv, NEW t \in Threads, pc[t] # "idle", NEW c, c = call[t], c.on \in Builders,
         OwnMutable(c), UNCHANGED foo,
         NEW s, RecordOK(s), s.isMutable = TRUE, object' = [object EXCEPT ![foo[c.on]] = s]
  PROVE  Frame(t) /\ ObjectsOK' /\ Owned' /\ object'[foo[c.on]] = s /\ Given(t)
<1> DEFINE f == c.on
           o == foo[f]
<1>1. /\ c \in Calls /\ f \in FieldsOf(c) /\ f \in Fields /\ o \in MapFields /\ o # NULL
      /\ object[o].isMutable /\ foo \in [Fields -> MapFields \cup {NULL}]
      /\ \A g \in Fields : g # f => foo[g] # o
  BY Calling, CallFields DEF IInv, VariableTypes, OwnMutable, Owned
<1>2. \A p \in MapFields : object'[p] = IF p = o THEN s ELSE object[p]
  BY DEF IInv, ObjectsOK
<1>3. \A g \in Fields : g # f /\ foo[g] # NULL => object'[foo[g]] = object[foo[g]]
  BY <1>1, <1>2
<1>4. Free' = Free /\ o \notin Free
  BY <1>1 DEF Free
<1>5. Frame(t)
  BY <1>1, <1>2 DEF Frame
<1>6. ObjectsOK'
  <2>1. s \in RecordType
    BY DEF RecordOK
  <2> QED
    BY <1>1, <1>2, <1>4, <2>1 DEF IInv, ObjectsOK
<1>7. Owned'
  <2>1. \A p \in MapFields : object'[p].isMutable = object[p].isMutable
    BY <1>1, <1>2
  <2> QED
    BY <1>1, <2>1 DEF IInv, Owned
<1>8. Given(t)
  <2>1. \A g \in Fields : foo[g] # NULL => foo[g] \in MapFields
    BY <1>1
  <2> QED
    BY <1>1, <1>2, <1>3, <2>1 DEF Given, Contents, Content, ContentOf
<1> QED
  BY <1>1, <1>2, <1>5, <1>6, <1>7, <1>8

(* The contents are the same if each is.                                    *)
LEMMA PointwiseSame ==
  ASSUME \A f \in Fields : Contents'[f] = Contents[f]
  PROVE  SameContents
<1>1. Contents = [f \in Fields |-> Contents[f]] /\ Contents' = [f \in Fields |-> Contents'[f]]
  BY DEF Contents
<1> QED
  BY <1>1 DEF SameContents

(* A builder gets a new MapField, or is to copy a shared one.               *)
LEMMA InternalGetMutableKeeps ==
  ASSUME IInv, NEW t \in Threads, internalGetMutable(t)
  PROVE  IInv' /\ SameContents /\ UNCHANGED call
<1> DEFINE c == call[t]
           f == c.on
<1>1. /\ pc[t] = "mutable" /\ UNCHANGED <<monitor, call>>
      /\ c \in Calls /\ c # NULL /\ PlaceOK(t, c) /\ ~ Reading(c) /\ c.op # "Build"
      /\ f \in Builders /\ f \in Fields /\ f \in FieldsOf(c)
  BY Calling, CallFields DEF internalGetMutable, PlaceOK
<1>2. CASE foo[f] = NULL
  <2>1. PICK o \in Free : /\ foo' = [foo EXCEPT ![f] = o]
                          /\ object' = [object EXCEPT ![o] = newMapField]
                          /\ pc' = [pc EXCEPT ![t] = "view"] /\ UNCHANGED at
    BY <1>1, <1>2 DEF internalGetMutable, Goto
  <2>2. /\ o \in MapFields /\ foo \in [Fields -> MapFields \cup {NULL}] /\ Free \subseteq MapFields
        /\ object \in [MapFields -> RecordType] /\ \A p \in Free : object[p] = newMapField
    BY DEF Free, IInv, VariableTypes, ObjectsOK
  <2>3. \A p \in MapFields : (~ \E g \in Fields : foo'[g] = p) => p \in Free
    <3>1. ASSUME NEW p \in MapFields, NEW g \in Fields, foo[g] = p PROVE foo'[g] = p
      BY <1>2, <2>1, <2>2, <3>1, JavaMapFieldAssumption
    <3> QED
      BY <3>1 DEF Free
  <2>4. /\ object'[o] = newMapField /\ object' \in [MapFields -> RecordType]
        /\ \A p \in MapFields : p # o =>
             object'[p] = IF p \in Free' THEN newMapField ELSE object[p]
    BY <2>1, <2>2, <2>3, NewMapFieldOK DEF Free, RecordOK
  <2>5. RecordOK(newMapField) /\ ContentOf(newMapField) = Empty /\ newMapField.isMutable
    BY NewMapFieldOK DEF newMapField
  <2>6. /\ Frame(t) /\ ObjectsOK' /\ Owned' /\ foo' \in [Fields -> MapFields \cup {NULL}]
        /\ object'[o] = newMapField /\ foo'[f] = o
        /\ Contents'[f] = Empty
        /\ \A g \in Fields : g # f => Contents'[g] = Contents[g]
    <3>1. \A p \in MapFields \ {o} :
            object'[p] = IF p \in Free' THEN newMapField ELSE object[p]
      BY <2>4
    <3>2. /\ RecordOK(object'[o]) /\ (object'[o].isMutable => f \in Builders)
          /\ object' \in [MapFields -> RecordType]
      BY <1>1, <2>5, <2>4
    <3>3. foo' = [foo EXCEPT ![f] = o] /\ pc[t] # "idle"
      BY <1>1, <2>1
    <3>4. f \in Fields /\ f = call[t].on /\ (f \in Builders \/ call[t].op = "Build")
      BY <1>1
    <3> HIDE DEF c, f
    <3>5. Frame(t) /\ ObjectsOK' /\ Owned' /\ Given(t)
      BY <3>1, <3>2, <3>3, <3>4, ObjectGiven, Zenon
    <3> USE DEF c, f
    <3>6. foo'[f] = o /\ o \in MapFields
      BY <2>4, <2>5, <3>3, <3>4 DEF IInv, VariableTypes, Free
    <3> QED
      BY <3>5, <3>6, <2>4, <2>5 DEF Given
  <2>7. SameContents
    <3>1. Contents[f] = Empty
      BY <1>1, <1>2, ContentIs
    <3> QED
      BY <2>6, <3>1, PointwiseSame
  <2>8. pc'[t] = "view" /\ VariableTypes' /\ Others(t)
    BY <1>1, <2>1, <2>6 DEF IInv, VariableTypes, Others
  <2>9. CallOK(t)'
    <3>1. OwnMutable(c)'
      BY <1>1, <2>2, <2>5, <2>6, JavaMapFieldAssumption DEF OwnMutable
    <3> QED
      BY <1>1, <2>8, <3>1 DEF CallOK, PlaceOK, ConvertOK, Converting, Reading
  <2> QED
    BY <1>1, <2>6, <2>7, <2>8, <2>9, SameCalls, StepKeeps
<1>3. CASE foo[f] # NULL /\ object[foo[f]].isMutable
  <2>1. UNCHANGED <<foo, object, at>> /\ pc' = [pc EXCEPT ![t] = "view"]
    BY <1>1, <1>3 DEF internalGetMutable, Goto
  <2>2. pc'[t] = "view" /\ VariableTypes' /\ Others(t)
    BY <1>1, <2>1 DEF IInv, VariableTypes, Others
  <2>3. CallOK(t)'
    BY <1>1, <1>3, <2>1, <2>2 DEF CallOK, PlaceOK, ConvertOK, Converting, Reading, OwnMutable
  <2> QED
    BY <1>1, <2>1, <2>2, <2>3, Unchanged, SameCalls, StepKeeps
<1>4. CASE foo[f] # NULL /\ ~ object[foo[f]].isMutable
  <2>1. /\ UNCHANGED <<foo, object>> /\ pc' = [pc EXCEPT ![t] = "check"]
        /\ at' = [at EXCEPT ![t] = [o |-> foo[f], to |-> "MAP"]]
    BY <1>1, <1>4 DEF internalGetMutable, Goto
  <2>2. foo[f] \in MapFields
    BY <1>1, <1>4 DEF IInv, VariableTypes
  <2>3. /\ pc'[t] = "check" /\ VariableTypes' /\ Others(t)
        /\ at'[t] = [o |-> foo[f], to |-> "MAP"]
    BY <1>1, <2>1, <2>2 DEF IInv, VariableTypes, Others, Converting
  <2>4. TargetOK(t, c)'
    BY <1>1, <1>4, <2>1, <2>3 DEF TargetOK, Reading, OwnMutable
  <2>5. CallOK(t)'
    BY <1>1, <2>3, <2>4 DEF CallOK, PlaceOK, ConvertOK, Reading
  <2> QED
    BY <1>1, <2>1, <2>3, <2>5, Unchanged, SameCalls, StepKeeps
<1> QED
  BY <1>2, <1>3, <1>4

(* The copy of a shared MapField.                                           *)
LEMMA CopyKeeps ==
  ASSUME IInv, NEW t \in Threads, Copy(t)
  PROVE  IInv' /\ SameContents /\ UNCHANGED call
<1> DEFINE c == call[t]
           f == c.on
           r == object[at[t].o]
           s == [newMapField EXCEPT !.mapData = r.mapData]
<1>1. /\ pc[t] = "act" /\ ~ Reading(c) /\ at[t].o = foo[f] /\ UNCHANGED <<monitor, call>>
      /\ at' = [at EXCEPT ![t] = Nowhere] /\ pc' = [pc EXCEPT ![t] = "view"]
  BY DEF Copy, Goto
<1>2. PICK o \in Free : /\ foo' = [foo EXCEPT ![f] = o]
                        /\ object' = Collected([object EXCEPT ![o] = s])
  BY DEF Copy
<1>3. /\ c \in Calls /\ c # NULL /\ PlaceOK(t, c) /\ TargetOK(t, c) /\ ConvertOK(t)
      /\ foo[f] \in MapFields /\ RecordOK(r) /\ foo[f] # NULL
      /\ f \in Builders /\ f \in Fields /\ c.op # "Build"
  BY <1>1, Calling, Target, CallFields DEF Converting, TargetOK
<1>4. r.mapData = ContentOf(r) /\ r.mapData \in Maps
  <2>1. at[t].to = "MAP" /\ ~ Stale(at[t])
    BY <1>1, <1>3 DEF TargetOK, ConvertOK
  <2>2. r.mode # "LIST"
    BY <2>1 DEF Stale
  <2> QED
    BY <1>3, <2>2, RecordContent
<1>5. RecordOK(s) /\ ContentOf(s) = ContentOf(r) /\ s.isMutable
  BY <1>4 DEF newMapField, RecordOK, RecordType, ContentOf
<1> HIDE DEF s
<1>6. /\ Frame(t) /\ ObjectsOK' /\ Owned' /\ foo' \in [Fields -> MapFields \cup {NULL}]
      /\ object'[o] = s /\ foo'[f] = o /\ o \in MapFields
      /\ Contents'[f] = ContentOf(s)
      /\ \A g \in Fields : g # f => Contents'[g] = Contents[g]
  <2>1. /\ o \in MapFields /\ foo \in [Fields -> MapFields \cup {NULL}]
        /\ object \in [MapFields -> RecordType]
    BY DEF Free, IInv, VariableTypes, ObjectsOK
  <2>2. /\ object'[o] = s /\ object' \in [MapFields -> RecordType]
        /\ \A p \in MapFields : p # o =>
             object'[p] = IF p \in Free' THEN newMapField ELSE object[p]
    BY <1>2, <1>3, <1>5, <2>1, NewMapFieldOK DEF Collected, Free, RecordOK
  <2> QED
    <3>1. \A p \in MapFields \ {o} :
            object'[p] = IF p \in Free' THEN newMapField ELSE object[p]
      BY <2>2
    <3>2. /\ RecordOK(object'[o]) /\ (object'[o].isMutable => f \in Builders)
          /\ object' \in [MapFields -> RecordType]
      BY <1>1, <1>3, <1>5, <2>2
    <3>3. foo' = [foo EXCEPT ![f] = o] /\ pc[t] # "idle"
      BY <1>1, <1>2
    <3>4. f \in Fields /\ f = call[t].on /\ (f \in Builders \/ call[t].op = "Build")
      BY <1>1, <1>3
    <3> HIDE DEF c, f, r
    <3>5. Frame(t) /\ ObjectsOK' /\ Owned' /\ Given(t)
      BY <3>1, <3>2, <3>3, <3>4, ObjectGiven, Zenon
    <3> USE DEF c, f, r
    <3>6. foo'[f] = o /\ o \in MapFields
      BY <2>2, <3>3, <3>4 DEF IInv, VariableTypes, Free
    <3> QED
      BY <3>5, <3>6, <2>2 DEF Given
<1>7. SameContents
  <2>1. Contents[f] = ContentOf(s)
    BY <1>1, <1>3, <1>5, ContentIs
  <2> QED
    BY <1>6, <2>1, PointwiseSame
<1>8. pc'[t] = "view" /\ VariableTypes' /\ Others(t)
  BY <1>1, <1>6 DEF IInv, VariableTypes, Others, Nowhere
<1>9. CallOK(t)'
  <2>1. OwnMutable(c)'
    BY <1>1, <1>5, <1>6, JavaMapFieldAssumption DEF OwnMutable
  <2> QED
    BY <1>1, <1>3, <1>8, <2>1 DEF CallOK, PlaceOK, ConvertOK, Converting, Reading
<1> QED
  BY <1>1, <1>6, <1>7, <1>8, <1>9, SameCalls, StepKeeps

-----------------------------------------------------------------------------
(* What the calls do to the content.                                         *)

(* A builder that gets an object of its own changes no other content.       *)
LEMMA GivenContents ==
  ASSUME IInv, NEW t \in Threads, pc[t] # "idle", Given(t),
         NEW n, ContentOf(object'[foo'[call[t].on]]) = n
  PROVE  Contents' = [Contents EXCEPT ![call[t].on] = n]
<1>1. call[t].on \in Fields
  BY Calling, CallFields
<1>2. Contents = [f \in Fields |-> Contents[f]] /\ Contents' = [f \in Fields |-> Contents'[f]]
  BY DEF Contents
<1> QED
  BY <1>1, <1>2 DEF Given

(* The maps before and after call c on one field.                            *)
EffectOn(c, m, n) ==
  /\ n \in Maps
  /\ \/ c.op \in {"Put", "Append"} /\ n = With(m, c.key, c.value)
     \/ c.op = "Delete" /\ n = Without(m, c.key)
     \/ c.op \in {"Clear", "ClearEntries"} /\ n = Empty
     \/ c.op = "SetEntry" /\ \E k \in DOMAIN m :
          Without(Without(n, k), c.key) = Without(Without(m, k), c.key)

(* A change of one content is the effect of its call in SharedMap.          *)
LEMMA EffectIs ==
  ASSUME NEW t \in Threads, NEW m, m = Contents[call[t].on], NEW n, EffectOn(call[t], m, n),
         Contents' = [Contents EXCEPT ![call[t].on] = n]
  PROVE  Map!Effect(call[t])
<1> DEFINE c == call[t]
<1>1. CASE c.op \in {"Put", "Append"} /\ n = With(m, c.key, c.value)
  <2>1. Map!With(m, c.key, c.value) = n
    BY <1>1 DEF With, Map!With
  <2> QED
    BY <1>1, <2>1 DEF Map!Effect, Map!Set, Contents
<1>2. CASE c.op = "Delete" /\ n = Without(m, c.key)
  BY <1>2 DEF Map!Effect, Map!Set, Map!Without, Without, Contents
<1>3. CASE c.op \in {"Clear", "ClearEntries"} /\ n = Empty
  BY <1>3 DEF Map!Effect, Map!Set, Map!Empty, Empty, Contents
<1>4. CASE c.op = "SetEntry" /\ \E k \in DOMAIN m :
             Without(Without(n, k), c.key) = Without(Without(m, k), c.key)
  <2>1. PICK k \in DOMAIN m : Without(Without(n, k), c.key) = Without(Without(m, k), c.key)
    BY <1>4
  <2>2. Map!Without(Map!Without(n, k), c.key) = Map!Without(Map!Without(m, k), c.key)
    BY <2>1 DEF Without, Map!Without
  <2>3. n \in Map!Maps
    BY DEF EffectOn, Maps, Map!Maps
  <2>4. Map!Set(c.on, n)
    BY DEF Map!Set, Contents
  <2>5. c.op \in {"RemoveLast", "SetEntry"}
    BY <1>4
  <2> QED
    BY <2>1, <2>2, <2>3, <2>4, <2>5 DEF Map!Effect, Contents
<1> QED
  BY <1>1, <1>2, <1>3, <1>4 DEF EffectOn

(* What a call of a builder makes of a MapField, operation by operation.    *)
LEMMA ChangedOK ==
  ASSUME NEW c \in Calls, c.op \in {"Put", "Delete", "Append", "SetEntry", "ClearEntries"},
         NEW r, RecordOK(r), r.mode = View(c), NEW s \in Changed(c, r)
  PROVE  RecordOK(s) /\ s.isMutable = r.isMutable /\ EffectOn(c, ContentOf(r), ContentOf(s))
<1> DEFINE m == ContentOf(r)
<1>1. m \in Maps /\ r \in RecordType
  BY RecordContent DEF RecordOK
<1>2. CASE c.op = "Put"
  <2>1. s = [r EXCEPT !.mapData = With(r.mapData, c.key, c.value)] /\ r.mode = "MAP"
    BY <1>2 DEF Changed, View, ListCalls
  <2>2. r.mapData = m /\ c.key \in Keys /\ c.value \in Values
    BY <1>2, <2>1, CallsAssumption DEF ContentOf
  <2>3. With(m, c.key, c.value) \in Maps
    BY <1>1, <2>2, WithType
  <2> QED
    BY <1>1, <1>2, <2>1, <2>2, <2>3 DEF RecordOK, RecordType, ContentOf, EffectOn
<1>3. CASE c.op = "Delete"
  <2>1. s = [r EXCEPT !.mapData = Without(r.mapData, c.key)] /\ r.mode = "MAP"
    BY <1>3 DEF Changed, View, ListCalls
  <2>2. r.mapData = m
    BY <2>1 DEF ContentOf
  <2>3. Without(m, c.key) \in Maps
    BY <1>1, WithoutType
  <2> QED
    BY <1>1, <1>3, <2>1, <2>2, <2>3 DEF RecordOK, RecordType, ContentOf, EffectOn
<1>4. ASSUME NEW list \in Seq(Entries), s = [r EXCEPT !.listData = list], r.mode = "LIST"
      PROVE  /\ RecordOK(s) /\ s.isMutable = r.isMutable
             /\ ContentOf(s) = AsMap(list) /\ AsMap(list) \in Maps
  BY <1>1, <1>4, AsMapType DEF RecordOK, RecordType, ContentOf
<1>5. c.op \in ListCalls => r.mode = "LIST" /\ r.listData \in Seq(Entries) /\ AsMap(r.listData) = m
  BY RecordContent DEF View
<1>6. CASE c.op = "Append"
  <2> DEFINE list == Append(r.listData, <<c.key, c.value>>)
  <2>1. r.mode = "LIST" /\ r.listData \in Seq(Entries) /\ AsMap(r.listData) = m
    BY <1>5, <1>6 DEF ListCalls
  <2>2. list \in Seq(Entries) /\ AsMap(list) = With(m, c.key, c.value)
    BY <1>6, <2>1, AsMapAppend, CallsAssumption
  <2>3. s = [r EXCEPT !.listData = list]
    BY <1>6 DEF Changed
  <2> HIDE DEF list
  <2> QED
    BY <1>4, <1>6, <2>1, <2>2, <2>3 DEF EffectOn
<1>7. CASE c.op = "ClearEntries"
  <2>1. s = [r EXCEPT !.listData = << >>] /\ r.mode = "LIST"
    BY <1>5, <1>7 DEF Changed, ListCalls
  <2> QED
    BY <1>4, <1>7, <2>1, AsMapEmpty DEF EffectOn
<1>8. CASE c.op = "SetEntry"
  <2>1. PICK i \in DOMAIN r.listData : s = [r EXCEPT !.listData[i] = <<c.key, c.value>>]
    BY <1>8 DEF Changed
  <2>2. r.mode = "LIST" /\ r.listData \in Seq(Entries) /\ AsMap(r.listData) = m
    BY <1>5, <1>8 DEF ListCalls
  <2> DEFINE list == [r.listData EXCEPT ![i] = <<c.key, c.value>>]
  <2>3. c.key \in Keys /\ c.value \in Values
    BY <1>8, CallsAssumption
  <2>4. /\ list \in Seq(Entries)
        /\ \E k \in DOMAIN m :
             Without(Without(AsMap(list), k), c.key) = Without(Without(m, k), c.key)
    <3> DEFINE old == r.listData
               key == c.key
               value == c.value
    <3>1. i \in DOMAIN old /\ old \in Seq(Entries) /\ key \in Keys /\ value \in Values
      BY <2>2, <2>3
    <3> HIDE DEF old, key, value, m
    <3>2. /\ [old EXCEPT ![i] = <<key, value>>] \in Seq(Entries)
          /\ \E k \in DOMAIN AsMap(old) :
               Without(Without(AsMap([old EXCEPT ![i] = <<key, value>>]), k), key) =
                 Without(Without(AsMap(old), k), key)
      BY <3>1, AsMapSetEntry
    <3> QED
      BY <2>2, <3>2 DEF old, key, value
  <2>5. s = [r EXCEPT !.listData = list]
    BY <1>1, <2>1 DEF RecordType
  <2> HIDE DEF list
  <2> QED
    BY <1>4, <1>8, <2>2, <2>4, <2>5 DEF EffectOn
<1> QED
  BY <1>2, <1>3, <1>6, <1>7, <1>8

(* Merging an empty map changes nothing.                                    *)
LEMMA MergedWithEmpty ==
  ASSUME NEW m \in Maps
  PROVE  Merged(m, Empty) = m
<1>1. m = [x \in DOMAIN m |-> m[x]]
  BY MapsAre
<1> QED
  BY <1>1, EmptyIsMap DEF Merged

(* Merging is an effect in SharedMap.                                       *)
LEMMA MergeEffect ==
  ASSUME NEW t \in Threads, call[t].op = "MergeFrom",
         NEW n, n = Merged(Contents[call[t].on], Contents[call[t].other]),
         Contents' = [Contents EXCEPT ![call[t].on] = n]
  PROVE  Map!Effect(call[t])
  BY DEF Map!Effect, Map!Set, Map!Merged, Merged, Contents

(* Building is an effect in SharedMap.                                      *)
LEMMA BuildEffect ==
  ASSUME NEW t \in Threads, call[t].op = "Build", NEW n, n = Contents[call[t].other],
         Contents' = [Contents EXCEPT ![call[t].on] = n]
  PROVE  Map!Effect(call[t])
  BY DEF Map!Effect, Map!Set, Contents

(* Reading is an effect in SharedMap.                                       *)
LEMMA ReadEffect ==
  ASSUME NEW t \in Threads, Reading(call[t]), SameContents
  PROVE  Map!Effect(call[t])
  BY DEF Map!Effect, Reading, SameContents, Contents

(* A call that took effect and is over.                                      *)
LEMMA Performed ==
  ASSUME IInv, NEW t \in Threads, pc[t] # "idle", Map!Effect(call[t]),
         call' = [call EXCEPT ![t] = NULL]
  PROVE  Map!Perform(t)
  BY Calling DEF Map!Perform

-----------------------------------------------------------------------------
(* The steps that make these effects.                                        *)

(* A getter returns its view, or that of the empty MapField.                *)
LEMMA ReadKeeps ==
  ASSUME IInv, NEW t \in Threads, Read(t) \/ (internalGet(t) /\ foo[call[t].on] = NULL)
  PROVE  IInv' /\ Map!Perform(t)
<1>1. pc[t] # "idle" /\ Return(t) /\ UNCHANGED <<object, foo, monitor>> /\ Reading(call[t])
  <2>1. CASE Read(t)
    BY <2>1 DEF Read
  <2>2. CASE internalGet(t) /\ foo[call[t].on] = NULL
    <3>1. pc[t] = "internalGet" /\ Return(t) /\ UNCHANGED <<object, foo, monitor>>
      BY <2>2 DEF internalGet
    <3>2. PlaceOK(t, call[t])
      BY <3>1, Calling
    <3> QED
      BY <3>1, <3>2 DEF PlaceOK
  <2> QED
    BY <2>1, <2>2
<1>2. IInv' /\ SameContents
  BY <1>1, ReturnKeeps
<1>3. Map!Effect(call[t])
  BY <1>1, <1>2, ReadEffect
<1>4. call' = [call EXCEPT ![t] = NULL]
  BY <1>1 DEF Return
<1> QED
  BY <1>1, <1>2, <1>3, <1>4, Performed

(* The builder's own MapField gets the contents n, and the call returns.     *)
LEMMA OwnReturned ==
  ASSUME IInv, NEW t \in Threads, pc[t] # "idle", NEW c, c = call[t], c.on \in Builders,
         OwnMutable(c), UNCHANGED <<foo, monitor>>, Return(t),
         NEW s, RecordOK(s), s.isMutable = TRUE, object' = [object EXCEPT ![foo[c.on]] = s]
  PROVE  IInv' /\ Contents' = [Contents EXCEPT ![c.on] = ContentOf(s)]
<1>1. Frame(t) /\ ObjectsOK' /\ Owned' /\ object'[foo[c.on]] = s /\ Given(t)
  BY OwnChanged
<1>2. VariableTypes' /\ Others(t) /\ Separate' /\ CallOK(t)'
  BY Returned DEF IInv, VariableTypes
<1>3. IInv'
  BY <1>1, <1>2, StepKeeps
<1>4. ContentOf(object'[foo'[call[t].on]]) = ContentOf(s)
  BY <1>1
<1> QED
  BY <1>1, <1>3, <1>4, GivenContents

(* A builder changes its MapField.                                          *)
LEMMA MutateKeeps ==
  ASSUME IInv, NEW t \in Threads, Mutate(t)
  PROVE  IInv' /\ (Map!Perform(t) \/ (SameContents /\ UNCHANGED call))
<1> DEFINE f == call[t].on
           o == foo[f]
<1>0. PICK c : c = call[t]
  OBVIOUS
<1>1. /\ pc[t] = "view" /\ UNCHANGED <<foo, monitor>>
      /\ c \in Calls /\ c # NULL /\ PlaceOK(t, c) /\ ~ Reading(c) /\ c.op # "Build" /\ OwnMutable(c)
      /\ c.on \in Builders /\ c.on \in Fields
  BY <1>0, Calling, CallFields DEF Mutate, PlaceOK
<1> DEFINE r == object[foo[c.on]]
           m == ContentOf(r)
<1>2. /\ foo[c.on] # NULL /\ foo[c.on] \in MapFields /\ RecordOK(r) /\ r.isMutable = TRUE
      /\ Contents[c.on] = m /\ m \in Maps
  BY <1>1, ContentIs DEF OwnMutable, RecordOK, RecordType
<1>3. ASSUME NEW s, RecordOK(s), s.isMutable = TRUE, EffectOn(c, m, ContentOf(s)),
             object' = [object EXCEPT ![foo[c.on]] = s], Return(t)
      PROVE  IInv' /\ Map!Perform(t)
  <2>1. IInv' /\ Contents' = [Contents EXCEPT ![c.on] = ContentOf(s)]
    BY <1>0, <1>1, <1>3, OwnReturned
  <2>2. Map!Effect(call[t])
    BY <1>0, <1>2, <1>3, <2>1, EffectIs
  <2>3. call' = [call EXCEPT ![t] = NULL]
    BY <1>3 DEF Return
  <2> QED
    BY <1>1, <2>1, <2>2, <2>3, Performed
<1>4. CASE c.op = "Clear"
  <2> DEFINE s == [r EXCEPT !.mapData = Empty, !.mode = "MAP"]
  <2>1. RecordOK(s) /\ s.isMutable = TRUE /\ ContentOf(s) = Empty
    BY <1>2, EmptyIsMap DEF RecordOK, RecordType, ContentOf
  <2>2. EffectOn(c, m, ContentOf(s))
    BY <1>4, <2>1, EmptyIsMap DEF EffectOn
  <2>3. object' = [object EXCEPT ![foo[c.on]] = s] /\ Return(t)
    <3>1. object' = [object EXCEPT ![foo[c.on]].mapData = Empty, ![foo[c.on]].mode = "MAP"] /\ Return(t)
      BY <1>0, <1>4 DEF Mutate
    <3> QED
      BY <1>2, <3>1 DEF IInv, ObjectsOK
  <2> HIDE DEF s
  <2> QED
    BY <1>3, <2>1, <2>2, <2>3
<1>5. CASE c.op # "Clear"
  <2>1. PICK q \in getMutable(r, View(c)) :
          IF c.op # "MergeFrom" THEN
            \E s \in Changed(c, q) : object' = [object EXCEPT ![foo[c.on]] = s] /\ Return(t)
          ELSE /\ object' = [object EXCEPT ![foo[c.on]] = q]
               /\ IF foo[c.other] = NULL THEN Return(t)
                  ELSE /\ at' = [at EXCEPT ![t] = [o |-> foo[c.other], to |-> "MAP"]]
                       /\ pc' = [pc EXCEPT ![t] = "check"] /\ UNCHANGED call
    BY <1>0, <1>5 DEF Mutate, Goto
  <2>2. RecordOK(q) /\ ContentOf(q) = m /\ q.mode = View(c) /\ q.isMutable = TRUE
    <3>1. View(c) \in {"MAP", "LIST"}
      BY DEF View
    <3> QED
      BY <1>2, <2>1, <3>1, MutableOK
  <2>3. CASE c.op # "MergeFrom"
    <3>1. PICK s \in Changed(c, q) : object' = [object EXCEPT ![foo[c.on]] = s] /\ Return(t)
      BY <2>1, <2>3
    <3>2. c.op \in {"Put", "Delete", "Append", "SetEntry", "ClearEntries"}
      BY <1>1, <1>5, <2>3, CallsAssumption DEF Reading
    <3>3. RecordOK(s) /\ s.isMutable = TRUE /\ EffectOn(c, m, ContentOf(s))
      BY <1>1, <2>2, <3>2, ChangedOK
    <3> QED
      BY <1>3, <3>1, <3>3
  <2>4. CASE c.op = "MergeFrom" /\ foo[c.other] = NULL
    <3>1. object' = [object EXCEPT ![foo[c.on]] = q] /\ Return(t)
      BY <2>1, <2>4
    <3>2. IInv' /\ Contents' = [Contents EXCEPT ![c.on] = ContentOf(q)]
      BY <1>0, <1>1, <2>2, <3>1, OwnReturned
    <3>3. c.other \in Fields
      BY <1>1, <2>4, CallFields
    <3>4. m = Merged(Contents[c.on], Contents[c.other])
      BY <1>2, <2>4, <3>3, ContentIs, MergedWithEmpty
    <3>5. Contents' = [Contents EXCEPT ![c.on] = m]
      BY <2>2, <3>2
    <3> HIDE DEF m
    <3>6. Map!Effect(call[t])
      BY <1>0, <2>4, <3>4, <3>5, MergeEffect
    <3>7. call' = [call EXCEPT ![t] = NULL]
      BY <3>1 DEF Return
    <3> QED
      BY <1>1, <3>2, <3>6, <3>7, Performed
  <2>5. CASE c.op = "MergeFrom" /\ foo[c.other] # NULL
    <3>1. /\ object' = [object EXCEPT ![foo[c.on]] = q] /\ UNCHANGED call
          /\ at' = [at EXCEPT ![t] = [o |-> foo[c.other], to |-> "MAP"]]
          /\ pc' = [pc EXCEPT ![t] = "check"]
      BY <2>1, <2>5
    <3>2. Frame(t) /\ ObjectsOK' /\ Owned' /\ object'[foo[c.on]] = q /\ Given(t)
      BY <1>0, <1>1, <2>2, <3>1, OwnChanged
    <3>3. foo[c.other] \in MapFields
      BY <1>1, <2>5, CallFields DEF IInv, VariableTypes
    <3>4. /\ pc'[t] = "check" /\ at'[t] = [o |-> foo[c.other], to |-> "MAP"]
          /\ VariableTypes' /\ Others(t)
      BY <1>1, <3>1, <3>3 DEF IInv, VariableTypes, Others, Converting
    <3>5. q.mode = "MAP"
      BY <2>2, <2>5 DEF View, ListCalls
    <3>6. TargetOK(t, c)'
      BY <1>1, <1>2, <2>2, <2>5, <3>2, <3>3, <3>4, <3>5, JavaMapFieldAssumption
      DEF TargetOK, OwnMutable, Reading
    <3>7. CallOK(t)'
      BY <1>0, <1>1, <3>1, <3>4, <3>6 DEF CallOK, PlaceOK, ConvertOK, Reading
    <3>8. SameContents
      BY <1>0, <1>1, <1>2, <2>2, <3>2, PointwiseSame DEF Given
    <3> QED
      BY <3>1, <3>2, <3>4, <3>7, <3>8, SameCalls, StepKeeps
  <2> QED
    BY <2>3, <2>4, <2>5
<1> QED
  BY <1>4, <1>5

(* A builder merges a message's map into its own.                           *)
LEMMA PutAllKeeps ==
  ASSUME IInv, NEW t \in Threads, PutAll(t)
  PROVE  IInv' /\ Map!Perform(t)
<1>0. PICK c : c = call[t]
  OBVIOUS
<1> DEFINE r == object[foo[c.on]]
           m == Contents[c.on]
           n == Contents[c.other]
           s == [r EXCEPT !.mapData = Merged(m, n)]
<1>1. /\ pc[t] = "act" /\ c.op = "MergeFrom" /\ at[t].o # foo[c.on] /\ Return(t)
      /\ UNCHANGED <<foo, monitor>>
  BY <1>0 DEF PutAll
<1>2. /\ c \in Calls /\ TargetOK(t, c) /\ ConvertOK(t) /\ ~ Reading(c)
      /\ c.on \in Builders /\ c.on \in Fields /\ c.other \in Fields
  BY <1>0, <1>1, Calling, Target, CallFields DEF Converting, Reading
<1>3. /\ at[t].o = foo[c.other] /\ OwnMutable(c) /\ r.mode = "MAP" /\ at[t].to = "MAP"
      /\ foo[c.other] # NULL
  BY <1>1, <1>2 DEF TargetOK
<1>4. RecordOK(r) /\ r.isMutable = TRUE /\ m = ContentOf(r) /\ m \in Maps /\ r.mapData = m
  BY <1>2, <1>3, ContentIs, RecordContent DEF OwnMutable, RecordOK, RecordType
<1>5. n \in Maps /\ object[at[t].o].mapData = n
  <2>1. ~ Stale(at[t])
    BY <1>1, <1>2 DEF ConvertOK
  <2>2. object[foo[c.other]].mode # "LIST"
    BY <1>3, <2>1 DEF Stale
  <2> QED
    BY <1>2, <1>3, <2>2, ContentIs, RecordContent
<1>6. Merged(m, n) \in Maps
  BY <1>4, <1>5, MergedType
<1>7. RecordOK(s) /\ s.isMutable = TRUE /\ ContentOf(s) = Merged(m, n)
  BY <1>3, <1>4, <1>6 DEF RecordOK, RecordType, ContentOf
<1>8. object' = [object EXCEPT ![foo[c.on]] = s]
  <2>1. object' = [object EXCEPT ![foo[c.on]].mapData = Merged(@, object[at[t].o].mapData)]
    BY <1>0 DEF PutAll
  <2> QED
    BY <1>4, <1>5, <2>1
<1> HIDE DEF s
<1>9. IInv' /\ Contents' = [Contents EXCEPT ![c.on] = ContentOf(s)]
  <2>1. UNCHANGED <<foo, monitor>> /\ pc[t] # "idle" /\ Return(t)
    BY <1>1
  <2>2. c.on \in Builders /\ OwnMutable(c) /\ RecordOK(s) /\ s.isMutable = TRUE
    BY <1>2, <1>3, <1>7
  <2> QED
    BY <1>0, <1>8, <2>1, <2>2, OwnReturned
<1>10. Map!Effect(call[t])
  BY <1>0, <1>1, <1>7, <1>9, MergeEffect
<1>11. call' = [call EXCEPT ![t] = NULL]
  BY <1>1 DEF Return
<1> QED
  BY <1>1, <1>9, <1>10, <1>11, Performed

(* A message gets what the builder has, which is shared from now on.         *)
LEMMA ObjectShared ==
  ASSUME IInv, NEW t \in Threads, pc[t] # "idle", NEW c, c = call[t], c.op = "Build",
         foo[c.other] # NULL, foo' = [foo EXCEPT ![c.on] = foo[c.other]],
         object' = Collected([object EXCEPT ![foo[c.other]].isMutable = FALSE])
  PROVE  /\ Frame(t) /\ ObjectsOK' /\ Owned' /\ Given(t)
         /\ ContentOf(object'[foo'[c.on]]) = Contents[c.other]
<1> DEFINE f == c.on
           o == foo[c.other]
           s == [object[o] EXCEPT !.isMutable = FALSE]
<1>1. /\ c \in Calls /\ f \in Fields /\ c.other \in FieldsOf(c) \cap Builders /\ c.other \in Fields
      /\ o \in MapFields /\ foo \in [Fields -> MapFields \cup {NULL}]
      /\ object \in [MapFields -> RecordType] /\ \A p \in MapFields : RecordOK(object[p])
      /\ o # NULL /\ object[o] \in RecordType
  BY Calling, CallFields DEF IInv, VariableTypes, ObjectsOK
<1>2. /\ foo' \in [Fields -> MapFields \cup {NULL}] /\ foo'[f] = o
      /\ \A g \in Fields : g # f => foo'[g] = foo[g]
  BY <1>1
<1>3. /\ RecordOK(s) /\ ContentOf(s) = ContentOf(object[o]) /\ s.isMutable = FALSE
      /\ ~ object[o].isMutable => s = object[o]
  BY <1>1 DEF RecordOK, RecordType, ContentOf
<1>4. /\ object'[o] = s /\ DOMAIN object' = MapFields /\ object' = [p \in MapFields |-> object'[p]]
      /\ \A p \in MapFields : p # o =>
           object'[p] = IF p \in Free' THEN newMapField ELSE object[p]
  <2>1. \A p \in MapFields : p \in Free' <=> ~ \E g \in Fields : foo'[g] = p
    BY DEF Free
  <2>2. o \notin Free'
    BY <1>1, <1>2, <2>1
  <2> DEFINE objects == [object EXCEPT ![o].isMutable = FALSE]
  <2>3. objects[o] = s /\ \A p \in MapFields : p # o => objects[p] = object[p]
    BY <1>1
  <2>4. object' = Collected(objects)
    OBVIOUS
  <2> HIDE DEF s, objects
  <2> QED
    BY <1>1, <2>1, <2>2, <2>3, <2>4 DEF Collected
<1> HIDE DEF s
<1>5. \A g \in Fields : g # f /\ foo[g] # NULL =>
        object'[foo[g]] = IF foo[g] = o THEN s ELSE object[foo[g]]
  <2> SUFFICES ASSUME NEW g \in Fields, g # f, foo[g] # NULL, foo[g] # o
               PROVE  object'[foo[g]] = object[foo[g]]
    BY <1>4
  <2>1. foo[g] \in MapFields /\ foo[g] \notin Free'
    BY <1>1, <1>2 DEF Free
  <2> QED
    BY <1>4, <2>1
<1>6. Frame(t)
  <2>1. \A p \in MapFields : p # o => object'[p] = object[p] \/ p \in Free'
    BY <1>4
  <2>2. object'[o] = object[o] \/ object[o].isMutable
    BY <1>3, <1>4
  <2> QED
    BY <1>1, <1>2, <2>1, <2>2 DEF Frame
<1>7. ObjectsOK'
  <2>1. \A p \in MapFields : RecordOK(object'[p])
    BY <1>1, <1>3, <1>4, NewMapFieldOK
  <2>2. object' \in [MapFields -> RecordType]
    BY <1>4, <2>1 DEF RecordOK
  <2>3. o \notin Free'
    BY <1>1, <1>2 DEF Free
  <2>4. \A p \in Free' : object'[p] = newMapField
    BY <1>4, <2>3 DEF Free
  <2> QED
    BY <2>1, <2>2, <2>4 DEF ObjectsOK, newMapField
<1>8. Owned'
  <2> SUFFICES ASSUME NEW a \in Fields, NEW b \in Fields, foo'[a] # NULL,
                      object'[foo'[a]].isMutable
               PROVE  a \in Builders /\ (foo'[b] = foo'[a] => b = a)
    BY DEF Owned
  <2>1. a # f
    BY <1>2, <1>3, <1>4
  <2>2. foo'[a] = foo[a] /\ foo[a] # NULL
    BY <1>2, <2>1
  <2>3. object'[foo[a]] = IF foo[a] = o THEN s ELSE object[foo[a]]
    BY <1>5, <2>1, <2>2
  <2>4. foo[a] # o /\ object[foo[a]].isMutable
    BY <1>3, <2>2, <2>3
  <2>5. a \in Builders /\ (foo[b] = foo[a] => b = a)
    BY <2>2, <2>4 DEF IInv, Owned
  <2> QED
    BY <1>2, <2>2, <2>4, <2>5
<1>9. Given(t)
  <2>1. \A g \in Fields : Contents[g] = IF foo[g] = NULL THEN Empty ELSE ContentOf(object[foo[g]])
    BY DEF Contents, Content, ContentOf
  <2>2. \A g \in Fields : Contents'[g] = IF foo'[g] = NULL THEN Empty ELSE ContentOf(object'[foo'[g]])
    BY DEF Contents, Content, ContentOf
  <2>3. \A g \in Fields : g # f => Contents'[g] = Contents[g]
    <3> SUFFICES ASSUME NEW g \in Fields, g # f PROVE Contents'[g] = Contents[g]
      OBVIOUS
    <3>1. foo'[g] = foo[g]
      BY <1>2
    <3>2. CASE foo[g] = NULL
      BY <2>1, <2>2, <3>1, <3>2
    <3>3. CASE foo[g] # NULL
      <4>1. object'[foo[g]] = IF foo[g] = o THEN s ELSE object[foo[g]]
        BY <1>5, <3>3
      <4>2. ContentOf(object'[foo[g]]) = ContentOf(object[foo[g]])
        BY <1>3, <4>1
      <4> QED
        BY <2>1, <2>2, <3>1, <3>3, <4>2
    <3> QED
      BY <3>2, <3>3
  <2>4. Contents'[f] = ContentOf(object'[foo'[f]])
    BY <1>1, <1>2, <2>2
  <2>5. f = call[t].on
    OBVIOUS
  <2>6. foo' \in [Fields -> MapFields \cup {NULL}]
    BY <1>2
  <2>7. /\ Contents'[call[t].on] = ContentOf(object'[foo'[call[t].on]])
        /\ \A g \in Fields : g # call[t].on => Contents'[g] = Contents[g]
    BY <2>3, <2>4, <2>5
  <2> QED
    BY <2>6, <2>7 DEF Given
<1>10. ContentOf(object'[foo'[f]]) = Contents[c.other]
  BY <1>1, <1>2, <1>3, <1>4, ContentIs
<1> QED
  BY <1>6, <1>7, <1>8, <1>9, <1>10

(* The message shares the builder's MapField.                               *)
LEMMA BuildKeeps ==
  ASSUME IInv, NEW t \in Threads, Build(t)
  PROVE  IInv' /\ Map!Perform(t)
<1>0. PICK c : c = call[t]
  OBVIOUS
<1>1. /\ pc[t] = "build" /\ Return(t) /\ UNCHANGED monitor
      /\ c \in Calls /\ c.op = "Build" /\ c.on \in Fields /\ c.other \in Fields
  BY <1>0, Calling, CallFields DEF Build, PlaceOK
<1>2. /\ Frame(t) /\ ObjectsOK' /\ Owned' /\ Given(t)
      /\ ContentOf(object'[foo'[c.on]]) = Contents[c.other]
  <2>1. CASE foo[c.other] # NULL
    <3>1. /\ foo' = [foo EXCEPT ![c.on] = foo[c.other]]
          /\ object' = Collected([object EXCEPT ![foo[c.other]].isMutable = FALSE])
      BY <1>0, <2>1 DEF Build
    <3> QED
      BY <1>0, <1>1, <2>1, <3>1, ObjectShared
  <2>2. CASE foo[c.other] = NULL
    <3>1. PICK o \in Free : /\ foo' = [foo EXCEPT ![c.on] = o]
                            /\ object' = Collected([object EXCEPT ![o].isMutable = FALSE])
      BY <1>0, <2>2 DEF Build
    <3> DEFINE s == [newMapField EXCEPT !.isMutable = FALSE]
    <3>2. RecordOK(s) /\ ContentOf(s) = Empty /\ s.isMutable = FALSE
      BY EmptyIsMap DEF newMapField, RecordOK, RecordType, ContentOf
    <3>3. /\ o \in MapFields /\ foo \in [Fields -> MapFields \cup {NULL}] /\ object[o] = newMapField
          /\ object \in [MapFields -> RecordType]
      BY DEF Free, IInv, VariableTypes, ObjectsOK
    <3>4. foo'[c.on] = o
      BY <1>1, <3>1, <3>3
    <3>5. /\ object'[o] = s /\ object' \in [MapFields -> RecordType]
          /\ \A p \in MapFields \ {o} :
               object'[p] = IF p \in Free' THEN newMapField ELSE object[p]
      <4>1. \A p \in MapFields : p \in Free' <=> ~ \E g \in Fields : foo'[g] = p
        BY DEF Free
      <4>2. newMapField \in RecordType /\ s \in RecordType
        BY <3>2, NewMapFieldOK DEF RecordOK
      <4> DEFINE objects == [object EXCEPT ![o].isMutable = FALSE]
      <4>3. objects[o] = s /\ \A p \in MapFields \ {o} : objects[p] = object[p]
        BY <3>3
      <4> HIDE DEF s, objects
      <4>4. /\ object'[o] = s
            /\ \A p \in MapFields \ {o} : object'[p] = IF p \in Free' THEN newMapField ELSE object[p]
            /\ object' = [p \in MapFields |-> object'[p]]
        <5>1. object' = Collected(objects)
          BY <3>1 DEF objects
        <5> QED
          BY <1>1, <3>3, <3>4, <4>1, <4>3, <5>1 DEF Collected
      <4>5. \A p \in MapFields : object'[p] \in RecordType
        BY <3>3, <4>2, <4>4
      <4> QED
        BY <4>4, <4>5
    <3> HIDE DEF s
    <3>6. Frame(t) /\ ObjectsOK' /\ Owned' /\ Given(t)
      <4>1. RecordOK(object'[o]) /\ (object'[o].isMutable => c.on \in Builders)
        BY <3>2, <3>5
      <4>2. /\ pc[t] # "idle" /\ c.on = call[t].on /\ c.on \in Fields
            /\ c.on \in Builders \/ call[t].op = "Build"
        BY <1>0, <1>1
      <4> QED
        BY <3>1, <3>5, <4>1, <4>2, ObjectGiven, Zenon
    <3>7. Contents[c.other] = Empty
      BY <1>1, <2>2, ContentIs
    <3> QED
      BY <3>2, <3>4, <3>5, <3>6, <3>7
  <2> QED
    BY <2>1, <2>2
<1>3. VariableTypes' /\ Others(t) /\ Separate' /\ CallOK(t)' /\ call' = [call EXCEPT ![t] = NULL]
  BY <1>1, <1>2, Returned DEF Given
<1>4. IInv'
  BY <1>2, <1>3, StepKeeps
<1>5. Contents' = [Contents EXCEPT ![call[t].on] = Contents[c.other]]
  BY <1>0, <1>1, <1>2, GivenContents
<1>6. Map!Effect(call[t])
  BY <1>0, <1>1, <1>5, BuildEffect
<1> QED
  BY <1>1, <1>3, <1>4, <1>6, Performed

-----------------------------------------------------------------------------
(* The invariant, and what follows from it.                                  *)

(* New builders and messages.                                               *)
LEMMA InitIInv == Init => IInv
<1> SUFFICES ASSUME Init PROVE IInv
  OBVIOUS
<1>1. ObjectsOK
  <2>1. newMapField \in RecordType
    BY NewMapFieldOK DEF RecordOK
  <2> QED
    BY <2>1, NewMapFieldOK DEF Init, ObjectsOK, Free
<1>2. VariableTypes
  BY DEF Init, VariableTypes, Nowhere
<1> QED
  BY <1>1, <1>2 DEF Init, IInv, Owned, Separate, CallOK

(* Every step keeps the inductive invariant and is one of SharedMap, or     *)
(* none.                                                                    *)
LEMMA StepIInv ==
  ASSUME IInv, [Next]_vars
  PROVE  IInv' /\ [Map!Next]_(Map!vars)
<1>1. CASE UNCHANGED vars
  <2>1. UNCHANGED <<object, foo, monitor, call, pc, at>>
    BY <1>1 DEF vars
  <2>2. IInv'
    BY <2>1 DEF IInv, VariableTypes, ObjectsOK, Owned, Separate, CallOK, PlaceOK, TargetOK,
                ConvertOK, OwnMutable, Stale, Free
  <2> QED
    BY <2>1, <2>2 DEF Map!vars, Content
<1>2. ASSUME NEW t \in Threads, NEW c \in Calls, Start(t, c)
      PROVE  IInv' /\ Map!Invoke(t)
  <2>1. call[t] = NULL /\ call' = [call EXCEPT ![t] = c] /\ UNCHANGED <<object, foo>>
    BY <1>2 DEF Start, IInv, CallOK
  <2> QED
    BY <1>2, <2>1, StartKeeps DEF Map!Invoke, Content
<1>3. ASSUME NEW t \in Threads, Step(t)
      PROVE  IInv' /\ (Map!Perform(t) \/ (SameContents /\ UNCHANGED call))
  <2>1. CASE \/ internalGetMutable(t) \/ Check(t) \/ Enter(t) \/ Convert(t) \/ StoreMode(t)
             \/ Copy(t) \/ (internalGet(t) /\ foo[call[t].on] # NULL)
    BY <2>1, InternalGetMutableKeeps, CheckKeeps, EnterKeeps, ConvertKeeps, StoreModeKeeps,
       CopyKeeps, InternalGetKeeps
  <2>2. CASE Read(t) \/ (internalGet(t) /\ foo[call[t].on] = NULL)
    BY <2>2, ReadKeeps
  <2>3. CASE Mutate(t) \/ PutAll(t) \/ Build(t)
    BY <2>3, MutateKeeps, PutAllKeeps, BuildKeeps
  <2> QED
    BY <1>3, <2>1, <2>2, <2>3 DEF Step
<1>4. SameContents /\ UNCHANGED call => UNCHANGED Map!vars
  BY DEF SameContents, Contents, Map!vars
<1> QED
  BY <1>1, <1>2, <1>3, <1>4 DEF Next, Map!Next

(* What MapField.java and the generated builders keep, whichever thread runs  *)
(* next: types, modes that tell the truth, and MapFields that may be changed  *)
(* only while one builder alone has them.                                    *)
LEMMA JavaMapFieldInvariant == Spec => []IInv
<1>1. Init => IInv
  BY InitIInv
<1>2. IInv /\ [Next]_vars => IInv'
  BY StepIInv
<1> QED
  BY <1>1, <1>2, PTL DEF Spec

(* The MapFields that a call of t looks at, converts or shares.              *)
InHands(t) ==
  {o \in MapFields :
     \/ call[t] # NULL /\ \E f \in FieldsOf(call[t]) : foo[f] = o
     \/ pc[t] \in Converting /\ at[t].o = o}

(* The next step of t writes into the MapField of its builder.               *)
Changing(t) ==
  \/ pc[t] = "view"
  \/ pc[t] = "act" /\ call[t].op = "MergeFrom" /\ at[t].o # foo[call[t].on]

(* Copy on write.  Whoever writes into a MapField has one that may be written *)
(* to, that no other builder and no message refers to, and that no call of    *)
(* another thread has in its hands (internalGetMutable and buildPartial,      *)
(* java_map_field.cc).                                                       *)
CopyOnWrite ==
  \A t \in Threads : Changing(t) =>
    LET own == call[t].on IN
    /\ foo[own] # NULL /\ object[foo[own]].isMutable
    /\ \A f \in Fields : foo[f] = foo[own] => f = own
    /\ \A u \in Threads \ {t} : foo[own] \notin InHands(u)

(* What a call has in its hands belongs to its fields.                      *)
LEMMA HandsOfFields ==
  ASSUME IInv, NEW t \in Threads, NEW o \in InHands(t)
  PROVE  call[t] # NULL /\ \E f \in FieldsOf(call[t]) : foo[f] = o
<1>1. CASE call[t] # NULL /\ \E f \in FieldsOf(call[t]) : foo[f] = o
  BY <1>1
<1>2. CASE pc[t] \in Converting /\ at[t].o = o
  <2>1. pc[t] # "idle" /\ call[t] # NULL /\ call[t] \in Calls /\ TargetOK(t, call[t])
    BY <1>2 DEF IInv, CallOK, PlaceOK, Converting, VariableTypes
  <2>2. call[t].on \in FieldsOf(call[t])
        /\ (call[t].op = "MergeFrom" => call[t].other \in FieldsOf(call[t]))
    BY <2>1, CallFields
  <2> QED
    BY <1>2, <2>1, <2>2 DEF TargetOK
<1> QED
  BY <1>1, <1>2 DEF InHands

(* A builder never writes into a MapField that a message or another builder   *)
(* refers to, or that another thread is looking at or converting: a MapField  *)
(* is shared only once buildPartial has made it immutable                     *)
(* (java_map_field.cc:696-702), and then it is copied to be changed           *)
(* (java_map_field.cc:354-365).                                              *)
THEOREM WritersAlone == Spec => []CopyOnWrite
<1>1. IInv => CopyOnWrite
  <2> SUFFICES ASSUME IInv, NEW t \in Threads, Changing(t)
               PROVE  LET own == call[t].on IN
                      /\ foo[own] # NULL /\ object[foo[own]].isMutable
                      /\ \A f \in Fields : foo[f] = foo[own] => f = own
                      /\ \A u \in Threads \ {t} : foo[own] \notin InHands(u)
    BY DEF CopyOnWrite
  <2> DEFINE own == call[t].on
  <2>1. pc[t] # "idle" /\ call[t] # NULL /\ call[t] \in Calls /\ PlaceOK(t, call[t])
    BY DEF Changing, IInv, CallOK, VariableTypes
  <2>2. own \in FieldsOf(call[t]) /\ own \in Fields
    BY <2>1, CallFields
  <2>3. OwnMutable(call[t])
    BY <2>1 DEF Changing, PlaceOK, TargetOK, Converting, Reading
  <2>4. own \in Builders /\ \A f \in Fields : foo[f] = foo[own] => f = own
    BY <2>2, <2>3 DEF IInv, Owned, OwnMutable
  <2>5. ASSUME NEW u \in Threads \ {t}, foo[own] \in InHands(u)
        PROVE  FALSE
    <3>1. call[u] # NULL /\ call[u] \in Calls
      BY <2>5, HandsOfFields DEF IInv, VariableTypes
    <3>2. PICK f \in FieldsOf(call[u]) : foo[f] = foo[own]
      BY <2>5, HandsOfFields
    <3>3. f = own
      BY <2>4, <3>1, <3>2, CallFields
    <3> QED
      BY <2>1, <2>2, <2>4, <3>1, <3>2, <3>3 DEF IInv, Separate
  <2> QED
    BY <2>3, <2>4, <2>5 DEF OwnMutable
<1> QED
  BY <1>1, JavaMapFieldInvariant, PTL

(* No getter returns a map or a list that another thread has yet to write,   *)
(* or that is not what the field holds (MapField.java:171-183, 226-239).     *)
THEOREM GettersRight == Spec => []GettersSeeContent
<1>1. IInv => GettersSeeContent
  <2> SUFFICES ASSUME IInv, NEW t \in Threads, pc[t] = "act"
               PROVE  LET r == object[at[t].o] IN
                      IF at[t].to = "MAP" THEN r.mapData # NULL /\ r.mapData = Content(at[t].o)
                      ELSE r.listData # NULL /\ AsMap(r.listData) = Content(at[t].o)
    BY DEF GettersSeeContent
  <2>1. /\ at[t].o \in MapFields /\ at[t].to \in {"MAP", "LIST"}
        /\ RecordOK(object[at[t].o]) /\ ~ Stale(at[t])
    BY Target, Calling DEF ConvertOK, Converting
  <2> QED
    BY <2>1, JavaMapFieldAssumption DEF Stale, Content, RecordOK, RecordType
<1> QED
  BY <1>1, JavaMapFieldInvariant, PTL

(* A builder's map is its own, although it shares its MapField with the      *)
(* messages it built: no call on the builder changes a message, no reader    *)
(* changes anything, and each call takes effect in one step of SharedMap.    *)
THEOREM JavaImplementation == Spec => Implements
<1>1. Init => Map!Init
  BY DEF Init, Map!Init, Map!Empty, Empty
<1>2. IInv /\ [Next]_vars => [Map!Next]_(Map!vars)
  BY StepIInv
<1> QED
  BY <1>1, <1>2, JavaMapFieldInvariant, PTL DEF Spec, Implements, Map!Spec
=============================================================================
