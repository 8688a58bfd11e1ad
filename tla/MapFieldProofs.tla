---------------------------- MODULE MapFieldProofs ----------------------------
(***************************************************************************)
(* For any number of threads and map fields, any keys and values, and        *)
(* whatever calls are made: threads that synchronise a field do not disturb   *)
(* each other, and a map field implements SharedMap.                         *)
(***************************************************************************)
EXTENDS MapField, MapOpsProofs

(* The fields a call is made on, and those it changes.                       *)
FieldsOf(c) == {c.on, c.other} \ {NULL}

(* A field by itself: its types, and that its state tells the truth.         *)
RecordType ==
  [map : Maps, repeated : {NULL} \cup Lists(MaxEntries),
   state : {"MODIFIED_MAP", "MODIFIED_REPEATED", "CLEAN"}]
RecordOK(r) ==
  /\ r \in RecordType
  /\ r.state # "MODIFIED_MAP" =>
       /\ r.repeated # NULL
       /\ r.state = "CLEAN" => AsMap(r.repeated) = r.map
ContentOf(r) == IF r.state = "MODIFIED_REPEATED" THEN AsMap(r.repeated) ELSE r.map

(* A call that changes a field has it for itself.                            *)
Separate ==
  \A t, u \in Threads : t # u /\ call[t] # NULL /\ call[u] # NULL =>
    Changes(call[t]) \cap FieldsOf(call[u]) = {}

(* What t relies on in its call c.  What is not in todo any more is up to     *)
(* date, and stays so: only t could change it.                               *)
ViewOK(t, c) ==
  \/ c.op \in {"Serialize", "SerializeSorted"}
  \/ view[t] = IF c.op \in RepeatedCalls THEN "repeated" ELSE "map"
PlaceOK(t, c) ==
  /\ pc[t] = "choose" => c.op \in {"Serialize", "SerializeSorted"} /\ todo[t] = Synced(c)
  /\ c.op = "SpaceUsed" => pc[t] \in {"measure", "act"}
  /\ pc[t] = "measure" => c.op = "SpaceUsed"
  /\ pc[t] = "act" => todo[t] = << >> /\ (c.op = "SpaceUsed" => mutex[c.on] = t)
SyncOK(t) ==
  /\ pc[t] \in {"clear", "fill", "clean"} => Stale(Head(todo[t]), view[t])
  /\ pc[t] = "unlock" => ~ Stale(Head(todo[t]), view[t])
  /\ pc[t] = "clean" => LET r == field[Head(todo[t])] IN
       /\ r.repeated # NULL /\ AsMap(r.repeated) = r.map
       /\ view[t] = "repeated" => Len(r.repeated) = Cardinality(DOMAIN r.map)
TodoOK(t, c) ==
  /\ Range(todo[t]) \subseteq Range(Synced(c))
  /\ \A f \in Range(Synced(c)) \ Range(todo[t]) : ~ Stale(f, view[t])
FitsOK(c) ==
  /\ c.op \in {"MergeFrom", "Swap", "SwapField"} => c.on # c.other
  /\ c.op = "Write" => field[c.on].state = "MODIFIED_MAP"
  /\ c.op \in {"SetEntry", "RemoveLast"} => Content(c.on) # Empty
  /\ c.op = "Append" => Size(field[c.on]) < MaxEntries
CallOK(t) ==
  /\ pc[t] = "idle" <=> call[t] = NULL
  /\ pc[t] # "idle" =>
       ViewOK(t, call[t]) /\ PlaceOK(t, call[t]) /\ SyncOK(t) /\ TodoOK(t, call[t]) /\ FitsOK(call[t])

IInv ==
  /\ TypeOK
  /\ CleanIsSame
  /\ Separate
  /\ \A t \in Threads : CallOK(t)

-----------------------------------------------------------------------------
(* Calls and fields.                                                         *)

(* The fields of a call.                                                    *)
LEMMA CallFields ==
  ASSUME NEW c \in Calls
  PROVE  /\ c # NULL
         /\ c.on \in FieldsOf(c) /\ c.on \in Fields
         /\ FieldsOf(c) \subseteq Fields /\ Changes(c) \subseteq FieldsOf(c)
         /\ FieldsOf(c) = Reads(c) \cup Changes(c)
         /\ c.op \in {"MergeFrom", "Swap", "SwapField"} => c.other \in FieldsOf(c)
         /\ c.op \notin {"MergeFrom", "Swap", "SwapField"} => FieldsOf(c) = {c.on}
  BY CallsAssumption, MapOpsAssumption DEF FieldsOf, Changes, Reads, Const

(* The fields that a call synchronises.                                     *)
LEMMA SyncedFields ==
  ASSUME NEW c \in Calls
  PROVE  /\ Synced(c) \in Seq(Fields)
         /\ Range(Synced(c)) \subseteq FieldsOf(c)
         /\ c.op \notin {"Swap", "Write", "SpaceUsed"} => Range(Synced(c)) = FieldsOf(c)
         /\ c.op \in {"Swap", "Write", "SpaceUsed"} => Synced(c) = << >>
<1>1. CASE c.op \in {"Swap", "Write", "SpaceUsed"}
  BY <1>1, CallFields DEF Synced, Range
<1>2. CASE c.op \in {"MergeFrom", "SwapField"}
  <2>1. Synced(c) = <<c.on, c.other>>
    BY <1>2 DEF Synced
  <2>2. Range(<<c.on, c.other>>) = {c.on, c.other}
    BY DEF Range
  <2> QED
    BY <1>2, <2>1, <2>2, CallFields, MapOpsAssumption DEF FieldsOf
<1>3. CASE c.op \notin {"Swap", "Write", "SpaceUsed", "MergeFrom", "SwapField"}
  <2>1. Synced(c) = <<c.on>>
    BY <1>3, CallsAssumption DEF Synced
  <2>2. Range(<<c.on>>) = {c.on}
    BY DEF Range
  <2> QED
    BY <1>3, <2>1, <2>2, CallFields
<1> QED
  BY <1>1, <1>2, <1>3

(* The elements of a sequence are its head and those of its tail.           *)
LEMMA RangeOfTail ==
  ASSUME NEW S, NEW s \in Seq(S), s # << >>
  PROVE  /\ Head(s) \in Range(s) /\ Tail(s) \in Seq(S)
         /\ Range(s) = {Head(s)} \cup Range(Tail(s))
<1>1. /\ Tail(s) \in Seq(S) /\ Len(Tail(s)) = Len(s) - 1 /\ Len(s) \in Nat /\ Len(s) >= 1
      /\ \A i \in 1 .. Len(s) - 1 : Tail(s)[i] = s[i + 1]
      /\ DOMAIN s = 1 .. Len(s) /\ DOMAIN Tail(s) = 1 .. Len(s) - 1
      /\ Head(s) = s[1]
  BY HeadTailProperties
<1>2. Range(s) \subseteq {Head(s)} \cup Range(Tail(s))
  <2> SUFFICES ASSUME NEW i \in 1 .. Len(s) PROVE s[i] \in {Head(s)} \cup Range(Tail(s))
    BY <1>1 DEF Range
  <2>1. CASE i = 1
    BY <1>1, <2>1
  <2>2. CASE i # 1
    <3>1. i - 1 \in DOMAIN Tail(s) /\ Tail(s)[i - 1] = s[i]
      BY <1>1, <2>2
    <3> QED
      BY <3>1 DEF Range
  <2> QED
    BY <2>1, <2>2
<1>3. Range(Tail(s)) \subseteq Range(s) /\ Head(s) \in Range(s)
  BY <1>1 DEF Range
<1> QED
  BY <1>1, <1>2, <1>3

(* The empty sequence has no elements.                                      *)
LEMMA EmptyRange == Range(<< >>) = {}
  BY DEF Range

(* TypeOK and CleanIsSame speak of each field's record by itself.           *)
LEMMA Records ==
  /\ TypeOK /\ CleanIsSame => field \in [Fields -> RecordType] /\ \A f \in Fields : RecordOK(field[f])
  /\ field \in [Fields -> RecordType] /\ (\A f \in Fields : RecordOK(field[f])) => CleanIsSame
  BY DEF TypeOK, CleanIsSame, RecordOK, RecordType

(* A field whose map is changed has that map as content.                    *)
LEMMA MapWithOK ==
  ASSUME NEW r, RecordOK(r), NEW m \in Maps
  PROVE  RecordOK(MapWith(r, m)) /\ ContentOf(MapWith(r, m)) = m
  BY DEF RecordOK, RecordType, MapWith, ContentOf

(* A field whose repeated field is changed has its map as content.          *)
LEMMA RepeatedWithOK ==
  ASSUME NEW r, RecordOK(r), NEW list \in Lists(MaxEntries)
  PROVE  RecordOK(RepeatedWith(r, list)) /\ ContentOf(RepeatedWith(r, list)) = AsMap(list)
  BY MapFieldAssumption DEF RecordOK, RecordType, RepeatedWith, ContentOf

(* Each form of a field that its state vouches for is its content.          *)
LEMMA RecordContent ==
  ASSUME NEW r, RecordOK(r)
  PROVE  /\ ContentOf(r) \in Maps
         /\ r.state # "MODIFIED_REPEATED" => r.map = ContentOf(r)
         /\ r.state # "MODIFIED_MAP" =>
              r.repeated \in Lists(MaxEntries) /\ AsMap(r.repeated) = ContentOf(r)
  BY ListsAre, AsMapType, MapFieldAssumption DEF RecordOK, RecordType, ContentOf
-----------------------------------------------------------------------------
(* The steps.  A step of t changes fields that t's call may change, or whose  *)
(* mutex t holds; then their state stays, or becomes CLEAN.                  *)

VariableTypes ==
  /\ mutex \in [Fields -> Threads \cup {NULL}]
  /\ call \in [Threads -> Calls \cup {NULL}]
  /\ pc \in [Threads -> {"idle", "choose", "check", "lock", "clear", "fill", "clean",
                         "unlock", "measure", "act"}]
  /\ view \in [Threads -> {"map", "repeated"}]
  /\ todo \in [Threads -> Seq(Fields)]
Locked(t) == pc[t] \in {"lock", "clear", "fill", "clean", "unlock"} =>
  todo[t] # << >> /\ (pc[t] # "lock" => mutex[Head(todo[t])] = t)

Others(t) == \A u \in Threads \ {t} :
  /\ call'[u] = call[u] /\ pc'[u] = pc[u] /\ view'[u] = view[u] /\ todo'[u] = todo[u]
  /\ \A f \in Fields : mutex[f] = u => mutex'[f] = u
Frame(t) == \A f \in Fields :
  \/ field'[f] = field[f]
  \/ pc[t] # "idle" /\ f \in Changes(call[t])
  \/ /\ pc[t] # "idle" /\ f \in FieldsOf(call[t]) /\ mutex[f] = t
     /\ field'[f].state \in {field[f].state, "CLEAN"}

(* A thread in a call has one.                                               *)
LEMMA Calling ==
  ASSUME IInv, NEW t \in Threads, pc[t] # "idle"
  PROVE  call[t] \in Calls /\ call[t] # NULL
  BY CallsAssumption DEF IInv, TypeOK, CallOK

(* What a step of t does to the fields of another call.                      *)
LEMMA OtherFields ==
  ASSUME IInv, NEW t \in Threads, NEW u \in Threads \ {t}, pc[u] # "idle", Frame(t),
         NEW f \in FieldsOf(call[u])
  PROVE  /\ f \in Changes(call[u]) \/ mutex[f] = u => field'[f] = field[f]
         /\ field'[f] = field[f] \/ field'[f].state \in {field[f].state, "CLEAN"}
         /\ \A v \in {"map", "repeated"} : ~ Stale(f, v) => ~ Stale(f, v)'
<1>1. call[u] \in Calls /\ call[u] # NULL
  BY Calling
<1>2. f \in Fields
  BY <1>1, CallFields
<1>3. CASE field'[f] = field[f]
  BY <1>3 DEF Stale
<1>4. CASE pc[t] # "idle" /\ f \in Changes(call[t])
  BY <1>1, <1>4, Calling DEF IInv, Separate
<1>5. CASE /\ pc[t] # "idle" /\ f \in FieldsOf(call[t]) /\ mutex[f] = t
           /\ field'[f].state \in {field[f].state, "CLEAN"}
  <2>1. f \notin Changes(call[u])
    BY <1>1, <1>5, Calling DEF IInv, Separate
  <2> QED
    BY <1>5, <2>1 DEF Stale
<1> QED
  BY <1>2, <1>3, <1>4, <1>5 DEF Frame

(* What a thread's call relies on stays, when others keep to their frame.   *)
LEMMA OthersKeep ==
  ASSUME IInv, NEW t \in Threads, NEW u \in Threads \ {t}, Others(t), Frame(t)
  PROVE  CallOK(u)'
<1>1. /\ call'[u] = call[u] /\ pc'[u] = pc[u] /\ view'[u] = view[u] /\ todo'[u] = todo[u]
      /\ \A f \in Fields : mutex[f] = u => mutex'[f] = u
  BY DEF Others
<1>2. CASE pc[u] = "idle"
  BY <1>1, <1>2 DEF IInv, CallOK
<1>3. CASE pc[u] # "idle"
  <2> DEFINE c == call[u]
  <2>1. c \in Calls /\ c # NULL /\ CallOK(u) /\ view[u] \in {"map", "repeated"}
    BY <1>3, Calling DEF IInv, TypeOK
  <2>2. ViewOK(u, c) /\ PlaceOK(u, c) /\ SyncOK(u) /\ TodoOK(u, c) /\ FitsOK(c)
    BY <1>3, <2>1 DEF CallOK
  <2>3. c.on \in FieldsOf(c) /\ c.on \in Fields /\ Range(Synced(c)) \subseteq FieldsOf(c)
    BY <2>1, CallFields, SyncedFields
  <2>4. ViewOK(u, c)' /\ PlaceOK(u, c)'
    BY <1>1, <2>2, <2>3 DEF ViewOK, PlaceOK
  <2>5. SyncOK(u)'
    <3>1. CASE pc[u] \in {"clear", "fill", "clean", "unlock"}
      <4> DEFINE f == Head(todo[u])
      <4>1. todo[u] # << >> /\ mutex[f] = u
        BY <3>1 DEF IInv, TypeOK
      <4>2. f \in FieldsOf(c)
        <5>1. todo[u] \in Seq(Fields)
          BY DEF IInv, TypeOK
        <5> QED
          BY <2>2, <2>3, <4>1, <5>1, RangeOfTail DEF TodoOK
      <4>3. field'[f] = field[f]
        BY <1>3, <4>1, <4>2, OtherFields
      <4> HIDE DEF f
      <4>4. f' = f
        BY <1>1 DEF f
      <4>5. Stale(f, view[u])' <=> Stale(f, view[u])
        BY <1>1, <4>3, <4>4 DEF Stale
      <4> QED
        BY <1>1, <2>2, <4>3, <4>4, <4>5 DEF SyncOK, Stale, f
    <3> QED
      BY <1>1, <3>1 DEF SyncOK
  <2>6. TodoOK(u, c)'
    BY <1>1, <1>3, <2>1, <2>2, <2>3, OtherFields DEF TodoOK
  <2>7. FitsOK(c)'
    <3>1. c.op \in {"Write", "SetEntry", "RemoveLast", "Append"} => c.on \in Changes(c)
      BY DEF Changes, Const
    <3>2. c.on \in Changes(c) => field'[c.on] = field[c.on]
      BY <1>3, <2>3, OtherFields
    <3> QED
      BY <1>1, <2>2, <3>1, <3>2 DEF FitsOK, Content
  <2> QED
    BY <1>1, <1>3, <2>1, <2>4, <2>5, <2>6, <2>7 DEF CallOK
<1> QED
  BY <1>2, <1>3

(* What is to be shown of a step of t.                                       *)
LEMMA StepKeeps ==
  ASSUME IInv, NEW t \in Threads, Others(t), Frame(t),
         VariableTypes', Locked(t)', CallOK(t)', Separate',
         field' \in [Fields -> RecordType], \A f \in Fields : RecordOK(field'[f])
  PROVE  IInv'
<1>1. \A u \in Threads : CallOK(u)'
  BY OthersKeep
<1>2. CleanIsSame'
  BY DEF CleanIsSame, RecordOK
<1>3. \A u \in Threads : Locked(u)'
  <2> SUFFICES ASSUME NEW u \in Threads \ {t} PROVE Locked(u)'
    OBVIOUS
  <2>1. Locked(u) /\ todo[u] \in Seq(Fields)
    BY DEF IInv, TypeOK, Locked
  <2>2. /\ pc'[u] = pc[u] /\ todo'[u] = todo[u]
        /\ \A f \in Fields : mutex[f] = u => mutex'[f] = u
    BY DEF Others
  <2>3. todo[u] # << >> => Head(todo[u]) \in Fields
    BY <2>1, HeadTailProperties
  <2> QED
    BY <2>1, <2>2, <2>3 DEF Locked
<1>4. TypeOK'
  BY <1>3 DEF VariableTypes, Locked, TypeOK, RecordType
<1> QED
  BY <1>1, <1>2, <1>4 DEF IInv

-----------------------------------------------------------------------------
(* Steps that leave the fields alone.                                        *)

(* A step that leaves the fields alone keeps to its frame.                  *)
LEMMA FieldsUnchanged ==
  ASSUME IInv, UNCHANGED field, NEW t \in Threads
  PROVE  /\ Frame(t)
         /\ field' \in [Fields -> RecordType] /\ \A f \in Fields : RecordOK(field'[f])
         /\ \A c : FitsOK(c)' <=> FitsOK(c)
         /\ \A f, v : Stale(f, v)' <=> Stale(f, v)
  BY Records DEF IInv, Frame, FitsOK, Content, Stale

(* The types of the variables and the owners of the mutexes.                *)
LEMMA VariablesTyped == IInv => VariableTypes /\ \A t \in Threads : Locked(t)
  BY DEF IInv, TypeOK, VariableTypes, Locked

(* While no call begins, those at work stay separate.                       *)
LEMMA SameCalls ==
  ASSUME IInv, UNCHANGED call
  PROVE  Separate'
  BY DEF IInv, Separate

(* The serialiser chooses its form.                                         *)
LEMMA ChooseKeeps ==
  ASSUME IInv, NEW t \in Threads, Choose(t)
  PROVE  IInv'
<1> DEFINE c == call[t]
<1>1. /\ pc[t] = "choose" /\ UNCHANGED <<field, mutex, call, todo>>
      /\ pc'[t] = "check" /\ view'[t] \in {"map", "repeated"}
      /\ VariableTypes' /\ Others(t)
  BY VariablesTyped DEF Choose, Goto, VariableTypes, Others
<1>2. /\ c \in Calls /\ c # NULL /\ PlaceOK(t, c) /\ FitsOK(c)
  BY <1>1, Calling DEF IInv, CallOK
<1>3. c.op \in {"Serialize", "SerializeSorted"} /\ todo'[t] = Synced(c)
  BY <1>1, <1>2 DEF PlaceOK
<1>4. CallOK(t)'
  <2>1. ViewOK(t, c)' /\ PlaceOK(t, c)' /\ SyncOK(t)'
    BY <1>1, <1>3 DEF ViewOK, PlaceOK, SyncOK
  <2>2. TodoOK(t, c)'
    BY <1>1, <1>3 DEF TodoOK
  <2> QED
    BY <1>1, <1>2, <2>1, <2>2, FieldsUnchanged DEF CallOK
<1> QED
  BY <1>1, <1>4, FieldsUnchanged, SameCalls, StepKeeps DEF Locked

(* The field at the head of todo is done with.                               *)
LEMMA Done ==
  ASSUME IInv, NEW t \in Threads, pc[t] # "idle", todo[t] # << >>, todo'[t] = Tail(todo[t]),
         UNCHANGED <<field, call, view>>, ~ Stale(Head(todo[t]), view[t])
  PROVE  TodoOK(t, call[t])' /\ todo'[t] \in Seq(Fields)
<1>1. TodoOK(t, call[t]) /\ todo[t] \in Seq(Fields)
  BY DEF IInv, CallOK, TypeOK
<1>2. /\ todo'[t] \in Seq(Fields)
      /\ Range(todo[t]) = {Head(todo[t])} \cup Range(todo'[t])
  BY <1>1, RangeOfTail
<1> QED
  BY <1>1, <1>2, FieldsUnchanged DEF TodoOK

(* The check of the state, without the mutex.                               *)
LEMMA CheckStateKeeps ==
  ASSUME IInv, NEW t \in Threads, CheckState(t)
  PROVE  IInv'
<1> DEFINE c == call[t]
<1>1. pc[t] = "check" /\ UNCHANGED <<field, mutex, call, view>>
  BY DEF CheckState
<1>2. /\ c \in Calls /\ c # NULL /\ ViewOK(t, c) /\ PlaceOK(t, c) /\ TodoOK(t, c) /\ FitsOK(c)
      /\ c.op # "SpaceUsed" /\ todo[t] \in Seq(Fields)
  BY <1>1, Calling DEF IInv, CallOK, PlaceOK, TypeOK
<1>3. /\ pc'[t] \in {"act", "lock", "check"} /\ Others(t) /\ VariableTypes'
      /\ pc'[t] = "act" => todo'[t] = << >>
      /\ pc'[t] = "lock" => todo'[t] # << >>
      /\ TodoOK(t, c)'
  <2>1. CASE todo[t] = << >>
    BY <1>1, <1>2, <2>1, VariablesTyped, FieldsUnchanged
    DEF CheckState, Goto, VariableTypes, Others, TodoOK
  <2>2. CASE todo[t] # << >> /\ Stale(Head(todo[t]), view[t])
    BY <1>1, <1>2, <2>2, VariablesTyped, FieldsUnchanged
    DEF CheckState, Goto, VariableTypes, Others, TodoOK
  <2>3. CASE todo[t] # << >> /\ ~ Stale(Head(todo[t]), view[t])
    <3>1. Synchronised(t)
      BY <2>3 DEF CheckState
    <3>2. pc' = [pc EXCEPT ![t] = "check"] /\ todo' = [todo EXCEPT ![t] = Tail(todo[t])]
      BY <3>1 DEF Synchronised, Goto
    <3>3. pc'[t] = "check" /\ todo'[t] = Tail(todo[t]) /\ Others(t)
      BY <1>1, <3>2, VariablesTyped DEF VariableTypes, Others
    <3>4. TodoOK(t, c)' /\ todo'[t] \in Seq(Fields)
      BY <1>1, <2>3, <3>3, Done
    <3>5. VariableTypes'
      BY <1>1, <3>2, <3>3, <3>4, VariablesTyped DEF VariableTypes
    <3> QED
      BY <3>3, <3>4, <3>5
  <2> QED
    BY <2>1, <2>2, <2>3
<1>4. CallOK(t)'
  <2>1. ViewOK(t, c)' /\ PlaceOK(t, c)' /\ SyncOK(t)'
    BY <1>1, <1>2, <1>3 DEF ViewOK, PlaceOK, SyncOK
  <2> QED
    BY <1>1, <1>2, <1>3, <2>1, FieldsUnchanged DEF CallOK
<1> QED
  BY <1>1, <1>3, <1>4, FieldsUnchanged, SameCalls, StepKeeps DEF Locked

(* The mutex is taken and the state checked again.                          *)
LEMMA LockKeeps ==
  ASSUME IInv, NEW t \in Threads, Lock(t)
  PROVE  IInv'
<1> DEFINE c == call[t]
           f == Head(todo[t])
<1>1. /\ pc[t] = "lock" /\ UNCHANGED <<field, call, view, todo>> /\ mutex[f] = NULL
      /\ mutex' = [mutex EXCEPT ![f] = t]
      /\ pc' = [pc EXCEPT ![t] = IF Stale(f, view[t]) THEN "clear" ELSE "unlock"]
  BY DEF Lock, Goto
<1>2. /\ c \in Calls /\ c # NULL /\ ViewOK(t, c) /\ PlaceOK(t, c) /\ TodoOK(t, c) /\ FitsOK(c)
      /\ c.op # "SpaceUsed" /\ todo[t] \in Seq(Fields) /\ todo[t] # << >>
  BY <1>1, Calling DEF IInv, CallOK, PlaceOK, TypeOK
<1>3. f \in Fields
  BY <1>2, HeadTailProperties
<1>4. /\ pc'[t] \in {"clear", "unlock"} /\ mutex'[f] = t /\ VariableTypes'
      /\ pc'[t] = "clear" <=> Stale(f, view[t])
  BY <1>1, <1>3, VariablesTyped DEF VariableTypes
<1>5. Others(t)
  BY <1>1, <1>3, VariablesTyped, MapOpsAssumption DEF Others, VariableTypes
<1>6. CallOK(t)'
  <2>1. ViewOK(t, c)' /\ PlaceOK(t, c)' /\ SyncOK(t)' /\ TodoOK(t, c)'
    BY <1>1, <1>2, <1>4, FieldsUnchanged DEF ViewOK, PlaceOK, SyncOK, TodoOK
  <2> QED
    BY <1>1, <1>2, <1>4, <2>1, FieldsUnchanged DEF CallOK
<1> QED
  BY <1>1, <1>2, <1>4, <1>5, <1>6, FieldsUnchanged, SameCalls, StepKeeps DEF Locked

(* The mutex is released.                                                   *)
LEMMA UnlockKeeps ==
  ASSUME IInv, NEW t \in Threads, Unlock(t)
  PROVE  IInv'
<1> DEFINE c == call[t]
           f == Head(todo[t])
<1>1. /\ pc[t] = "unlock" /\ UNCHANGED <<field, call, view>>
      /\ mutex' = [mutex EXCEPT ![f] = NULL]
      /\ pc' = [pc EXCEPT ![t] = "check"] /\ todo' = [todo EXCEPT ![t] = Tail(todo[t])]
  BY DEF Unlock, Synchronised, Goto
<1>2. /\ c \in Calls /\ c # NULL /\ ViewOK(t, c) /\ PlaceOK(t, c) /\ SyncOK(t) /\ FitsOK(c)
      /\ c.op # "SpaceUsed" /\ todo[t] \in Seq(Fields) /\ todo[t] # << >> /\ mutex[f] = t
  BY <1>1, Calling DEF IInv, CallOK, PlaceOK, TypeOK
<1>3. f \in Fields /\ ~ Stale(f, view[t])
  BY <1>1, <1>2, HeadTailProperties DEF SyncOK
<1>4. pc'[t] = "check" /\ todo'[t] = Tail(todo[t])
  BY <1>1, VariablesTyped DEF VariableTypes
<1>5. TodoOK(t, c)' /\ todo'[t] \in Seq(Fields)
  BY <1>1, <1>2, <1>3, <1>4, Done
<1>6. VariableTypes' /\ Others(t)
  BY <1>1, <1>2, <1>3, <1>4, <1>5, VariablesTyped DEF VariableTypes, Others
<1>7. CallOK(t)'
  <2>1. ViewOK(t, c)' /\ PlaceOK(t, c)' /\ SyncOK(t)'
    BY <1>1, <1>2, <1>4 DEF ViewOK, PlaceOK, SyncOK
  <2> QED
    BY <1>1, <1>2, <1>4, <1>5, <2>1, FieldsUnchanged DEF CallOK
<1> QED
  BY <1>1, <1>4, <1>6, <1>7, FieldsUnchanged, SameCalls, StepKeeps DEF Locked

(* SpaceUsed takes the mutex.                                               *)
LEMMA MeasureKeeps ==
  ASSUME IInv, NEW t \in Threads, Measure(t)
  PROVE  IInv'
<1> DEFINE c == call[t]
<1>1. /\ pc[t] = "measure" /\ UNCHANGED <<field, call, view, todo>> /\ mutex[c.on] = NULL
      /\ mutex' = [mutex EXCEPT ![c.on] = t] /\ pc' = [pc EXCEPT ![t] = "act"]
  BY DEF Measure, Goto
<1>2. /\ c \in Calls /\ c # NULL /\ ViewOK(t, c) /\ PlaceOK(t, c) /\ TodoOK(t, c) /\ FitsOK(c)
      /\ c.op = "SpaceUsed" /\ c.on \in Fields /\ todo[t] \in Seq(Fields)
  BY <1>1, Calling, CallFields DEF IInv, CallOK, PlaceOK, TypeOK
<1>3. todo[t] = << >>
  <2>1. Range(todo[t]) = {}
    BY <1>2, SyncedFields, EmptyRange DEF TodoOK
  <2> QED
    BY <1>2, <2>1, RangeOfTail
<1>4. pc'[t] = "act" /\ mutex'[c.on] = t /\ VariableTypes'
  BY <1>1, <1>2, VariablesTyped DEF VariableTypes
<1>5. Others(t)
  BY <1>1, <1>2, VariablesTyped, MapOpsAssumption DEF Others, VariableTypes
<1>6. CallOK(t)'
  <2>1. ViewOK(t, c)' /\ PlaceOK(t, c)' /\ SyncOK(t)' /\ TodoOK(t, c)'
    BY <1>1, <1>2, <1>3, <1>4, FieldsUnchanged DEF ViewOK, PlaceOK, SyncOK, TodoOK
  <2> QED
    BY <1>1, <1>2, <1>4, <2>1, FieldsUnchanged DEF CallOK
<1> QED
  BY <1>1, <1>4, <1>5, <1>6, FieldsUnchanged, SameCalls, StepKeeps DEF Locked

(* A call begins.                                                           *)
LEMMA StartKeeps ==
  ASSUME IInv, NEW t \in Threads, NEW c \in Calls, Start(t, c)
  PROVE  IInv'
<1>1. /\ pc[t] = "idle" /\ UNCHANGED <<field, mutex>> /\ MayCall(c) /\ Fits(c)
      /\ call' = [call EXCEPT ![t] = c]
      /\ view' = [view EXCEPT ![t] = IF c.op \in RepeatedCalls THEN "repeated" ELSE "map"]
      /\ todo' = [todo EXCEPT ![t] = Synced(c)]
      /\ pc' = [pc EXCEPT ![t] = CASE c.op \in {"Serialize", "SerializeSorted"} -> "choose"
                                   [] c.op = "SpaceUsed" -> "measure"
                                   [] OTHER -> "check"]
  BY DEF Start, Goto
<1>2. c # NULL /\ Synced(c) \in Seq(Fields)
  BY CallFields, SyncedFields
<1>3. /\ call'[t] = c /\ todo'[t] = Synced(c) /\ pc'[t] \in {"choose", "measure", "check"}
      /\ pc'[t] = "choose" <=> c.op \in {"Serialize", "SerializeSorted"}
      /\ pc'[t] = "measure" <=> c.op = "SpaceUsed"
      /\ view'[t] = IF c.op \in RepeatedCalls THEN "repeated" ELSE "map"
  BY <1>1, VariablesTyped DEF VariableTypes
<1>4. VariableTypes' /\ Others(t)
  BY <1>1, <1>2, <1>3, VariablesTyped DEF VariableTypes, Others
<1>5. Separate'
  <2> SUFFICES ASSUME NEW u \in Threads \ {t}, call[u] # NULL
               PROVE  /\ Changes(c) \cap FieldsOf(call[u]) = {}
                      /\ Changes(call[u]) \cap FieldsOf(c) = {}
    BY <1>3, <1>4 DEF IInv, Separate, Others
  <2>1. call[u] \in Calls
    BY VariablesTyped DEF VariableTypes
  <2>2. /\ Changes(c) \cap (Changes(call[u]) \cup Reads(call[u])) = {}
        /\ Reads(c) \cap Changes(call[u]) = {}
    BY <1>1 DEF MayCall
  <2> QED
    BY <2>1, <2>2, CallFields
<1>6. CallOK(t)'
  <2>1. ViewOK(t, c)' /\ PlaceOK(t, c)' /\ SyncOK(t)' /\ TodoOK(t, c)'
    BY <1>3 DEF ViewOK, PlaceOK, SyncOK, TodoOK
  <2>2. FitsOK(c)'
    BY <1>1 DEF FitsOK, Fits, Content
  <2> QED
    BY <1>2, <1>3, <2>1, <2>2 DEF CallOK
<1> QED
  BY <1>1, <1>3, <1>4, <1>5, <1>6, FieldsUnchanged, StepKeeps DEF Locked

-----------------------------------------------------------------------------
(* Synchronising.                                                            *)

SameContents == \A f \in Fields : Content(f)' = Content(f)

(* Who converts a field holds its mutex, and the form it converts to is     *)
(* stale.                                                                   *)
LEMMA Synchronising ==
  ASSUME IInv, NEW t \in Threads, pc[t] \in {"clear", "fill", "clean"}
  PROVE  LET c == call[t]
             f == Head(todo[t])
         IN /\ c \in Calls /\ c # NULL /\ c.op \notin {"SpaceUsed", "Swap", "Write"}
            /\ ViewOK(t, c) /\ PlaceOK(t, c) /\ SyncOK(t) /\ TodoOK(t, c) /\ FitsOK(c)
            /\ view[t] \in {"map", "repeated"} /\ todo[t] \in Seq(Fields) /\ todo[t] # << >>
            /\ f \in Fields /\ f \in FieldsOf(c) /\ mutex[f] = t
            /\ Stale(f, view[t]) /\ RecordOK(field[f]) /\ field \in [Fields -> RecordType]
<1> DEFINE c == call[t]
           f == Head(todo[t])
<1>1. /\ c \in Calls /\ c # NULL /\ ViewOK(t, c) /\ PlaceOK(t, c) /\ SyncOK(t) /\ TodoOK(t, c)
      /\ FitsOK(c)
  BY Calling DEF IInv, CallOK
<1>2. /\ view[t] \in {"map", "repeated"} /\ todo[t] \in Seq(Fields) /\ todo[t] # << >>
      /\ mutex[f] = t
  BY DEF IInv, TypeOK
<1>3. f \in Fields /\ f \in Range(todo[t])
  BY <1>2, RangeOfTail, HeadTailProperties
<1>4. f \in Range(Synced(c)) /\ f \in FieldsOf(c)
  BY <1>1, <1>3, SyncedFields DEF TodoOK
<1>5. c.op \notin {"SpaceUsed", "Swap", "Write"}
  BY <1>1, <1>4, SyncedFields, EmptyRange
<1>6. Stale(f, view[t])
  BY <1>1 DEF SyncOK
<1> QED
  BY <1>1, <1>2, <1>3, <1>4, <1>5, <1>6, Records DEF IInv

(* What is to be shown of a step that writes the record n for the field.     *)
LEMMA SynchronisingKeeps ==
  ASSUME IInv, NEW t \in Threads, pc[t] \in {"clear", "fill", "clean"},
         UNCHANGED <<mutex, call, view, todo>>,
         NEW label \in {"fill", "clean", "unlock"}, pc' = [pc EXCEPT ![t] = label],
         NEW n, field' = [field EXCEPT ![Head(todo[t])] = n],
         RecordOK(n), ContentOf(n) = ContentOf(field[Head(todo[t])]),
         n.state \in {field[Head(todo[t])].state, "CLEAN"},
         view[t] = "repeated" => Size(n) = Size(field[Head(todo[t])]),
         SyncOK(t)'
  PROVE  IInv' /\ SameContents
<1> DEFINE c == call[t]
           f == Head(todo[t])
<1>1. /\ c \in Calls /\ c # NULL /\ c.op \notin {"SpaceUsed", "Swap", "Write"}
      /\ ViewOK(t, c) /\ PlaceOK(t, c) /\ SyncOK(t) /\ TodoOK(t, c) /\ FitsOK(c)
      /\ view[t] \in {"map", "repeated"} /\ todo[t] \in Seq(Fields) /\ todo[t] # << >>
      /\ f \in Fields /\ f \in FieldsOf(c) /\ mutex[f] = t
      /\ field \in [Fields -> RecordType]
  BY Synchronising
<1> HIDE DEF f
<1>2. field' = [field EXCEPT ![f] = n] /\ n \in RecordType
  BY DEF f, RecordOK
<1>3. \A g \in Fields : field'[g] = IF g = f THEN n ELSE field[g]
  BY <1>1, <1>2
<1>4. field' \in [Fields -> RecordType] /\ \A g \in Fields : RecordOK(field'[g])
  BY <1>1, <1>2, <1>3, Records DEF IInv
<1>5. SameContents
  BY <1>3 DEF SameContents, Content, ContentOf, f
<1>6. pc'[t] = label /\ VariableTypes' /\ Others(t) /\ pc[t] # "idle"
  BY VariablesTyped DEF VariableTypes, Others
<1>7. n.state \in {field[f].state, "CLEAN"}
  BY DEF f
<1>8. Frame(t)
  BY <1>1, <1>3, <1>6, <1>7 DEF Frame
<1>9. CallOK(t)'
  <2>1. ViewOK(t, c)' /\ PlaceOK(t, c)'
    BY <1>1, <1>6 DEF ViewOK, PlaceOK
  <2>2. TodoOK(t, c)'
    <3>1. \A g \in Fields : ~ Stale(g, view[t]) => ~ Stale(g, view[t])'
      BY <1>1, <1>3, <1>7 DEF Stale
    <3>2. Range(Synced(c)) \subseteq Fields
      BY <1>1, SyncedFields, CallFields
    <3> QED
      BY <1>1, <3>1, <3>2 DEF TodoOK
  <2>3. FitsOK(c)'
    <3>1. c.on \in Fields
      BY <1>1, CallFields
    <3>2. c.op = "Append" => view[t] = "repeated"
      BY <1>1 DEF ViewOK, RepeatedCalls
    <3>3. c.op = "Append" => Size(field'[c.on]) = Size(field[c.on])
      BY <1>3, <3>1, <3>2 DEF f
    <3>4. Content(c.on)' = Content(c.on)
      BY <1>5, <3>1 DEF SameContents
    <3> QED
      BY <1>1, <3>3, <3>4 DEF FitsOK
  <2> QED
    BY <1>1, <1>6, <2>1, <2>2, <2>3 DEF CallOK
<1>10. Locked(t)' /\ Separate'
  BY <1>1, <1>6, SameCalls DEF Locked, f
<1> QED
  BY <1>4, <1>5, <1>6, <1>8, <1>9, <1>10, StepKeeps

(* The stale form is cleared.                                               *)
LEMMA ClearViewKeeps ==
  ASSUME IInv, NEW t \in Threads, ClearView(t)
  PROVE  IInv' /\ SameContents
<1> DEFINE f == Head(todo[t])
           r == field[f]
           n == IF view[t] = "map" THEN [r EXCEPT !.map = Empty] ELSE [r EXCEPT !.repeated = << >>]
<1>1. /\ pc[t] = "clear" /\ UNCHANGED <<mutex, call, view, todo>>
      /\ pc' = [pc EXCEPT ![t] = "fill"] /\ field' = [field EXCEPT ![f] = n]
  BY DEF ClearView, Goto
<1>2. /\ view[t] \in {"map", "repeated"} /\ f \in Fields /\ Stale(f, view[t]) /\ RecordOK(r)
      /\ field \in [Fields -> RecordType]
  BY <1>1, Synchronising
<1>3. << >> \in Lists(MaxEntries) /\ Empty \in Maps
  <2>1. Len(<< >>) <= MaxEntries
    BY MapFieldAssumption
  <2> QED
    BY <2>1, ListsAre, EmptyIsMap, AsMapEmpty, MapFieldAssumption
<1>4. /\ RecordOK(n) /\ ContentOf(n) = ContentOf(r) /\ n.state = r.state
      /\ view[t] = "repeated" => Size(n) = Size(r)
  BY <1>2, <1>3 DEF RecordOK, RecordType, ContentOf, Stale, Size
<1>5. SyncOK(t)'
  <2>1. field'[f] = n
    BY <1>1, <1>2
  <2>2. pc'[t] = "fill"
    BY <1>1, VariablesTyped DEF VariableTypes
  <2> QED
    BY <1>1, <1>2, <1>4, <2>1, <2>2 DEF SyncOK, Stale
<1> QED
  BY <1>1, <1>4, <1>5, SynchronisingKeeps

(* The stale form is filled from the other.                                 *)
LEMMA FillViewKeeps ==
  ASSUME IInv, NEW t \in Threads, FillView(t)
  PROVE  IInv' /\ SameContents
<1> DEFINE f == Head(todo[t])
           r == field[f]
<1>1. /\ pc[t] = "fill" /\ UNCHANGED <<mutex, call, view, todo>>
      /\ pc' = [pc EXCEPT ![t] = "clean"]
  BY DEF FillView, Goto
<1>2. /\ view[t] \in {"map", "repeated"} /\ f \in Fields /\ Stale(f, view[t]) /\ RecordOK(r)
      /\ field \in [Fields -> RecordType] /\ r \in RecordType
  BY <1>1, Synchronising DEF RecordOK
<1>3. PICK n : /\ field' = [field EXCEPT ![f] = n]
               /\ \/ view[t] = "map" /\ n = [r EXCEPT !.map = AsMap(r.repeated)]
                  \/ view[t] = "repeated" /\ \E list \in ListsOf(r.map) : n = [r EXCEPT !.repeated = list]
  BY <1>2 DEF FillView
<1>4. /\ RecordOK(n) /\ ContentOf(n) = ContentOf(r) /\ n.state = r.state
      /\ view[t] = "repeated" => Size(n) = Size(r)
      /\ n.repeated # NULL /\ AsMap(n.repeated) = n.map
      /\ view[t] = "repeated" => Len(n.repeated) = Cardinality(DOMAIN n.map)
  <2>1. CASE view[t] = "map"
    <3>1. r.state = "MODIFIED_REPEATED"
      BY <1>2, <2>1 DEF Stale
    <3>2. r.repeated \in Lists(MaxEntries) /\ r.repeated # NULL /\ AsMap(r.repeated) \in Maps
      BY <1>2, <3>1, RecordContent, MapFieldAssumption
    <3> QED
      BY <1>2, <1>3, <2>1, <3>1, <3>2 DEF RecordOK, RecordType, ContentOf
  <2>2. CASE view[t] = "repeated"
    <3>1. r.state = "MODIFIED_MAP" /\ r.map \in Maps
      BY <1>2, <2>2 DEF Stale, RecordType
    <3>2. PICK list \in ListsOf(r.map) : n = [r EXCEPT !.repeated = list]
      BY <1>3, <2>2
    <3>3. /\ list \in Seq(Entries) /\ AsMap(list) = r.map
          /\ Len(list) = Cardinality(DOMAIN r.map) /\ Len(list) <= Cardinality(Keys)
      BY <3>1, ListsOfMap, MapFieldAssumption
    <3>4. Cardinality(Keys) \in Nat
      BY FS_CardinalityType, MapFieldAssumption
    <3>5. list \in Lists(MaxEntries) /\ list # NULL
      BY <3>3, <3>4, ListsAre, MapFieldAssumption
    <3> QED
      BY <1>2, <2>2, <3>1, <3>2, <3>3, <3>5 DEF RecordOK, RecordType, ContentOf, Size
  <2> QED
    BY <1>2, <2>1, <2>2
<1>5. SyncOK(t)'
  <2>1. field'[f] = n
    BY <1>2, <1>3
  <2>2. pc'[t] = "clean"
    BY <1>1, VariablesTyped DEF VariableTypes
  <2> QED
    BY <1>1, <1>2, <1>4, <2>1, <2>2 DEF SyncOK, Stale
<1> QED
  BY <1>1, <1>3, <1>4, <1>5, SynchronisingKeeps

(* The state becomes CLEAN.                                                 *)
LEMMA StoreCleanKeeps ==
  ASSUME IInv, NEW t \in Threads, StoreClean(t)
  PROVE  IInv' /\ SameContents
<1> DEFINE f == Head(todo[t])
           r == field[f]
           n == [r EXCEPT !.state = "CLEAN"]
<1>1. /\ pc[t] = "clean" /\ UNCHANGED <<mutex, call, view, todo>>
      /\ pc' = [pc EXCEPT ![t] = "unlock"]
  BY DEF StoreClean, Goto
<1>2. /\ view[t] \in {"map", "repeated"} /\ f \in Fields /\ Stale(f, view[t]) /\ RecordOK(r)
      /\ field \in [Fields -> RecordType] /\ r \in RecordType
      /\ r.repeated # NULL /\ AsMap(r.repeated) = r.map
      /\ view[t] = "repeated" => Len(r.repeated) = Cardinality(DOMAIN r.map)
  BY <1>1, Synchronising DEF RecordOK, SyncOK
<1>3. field' = [field EXCEPT ![f] = n]
  BY <1>2 DEF StoreClean
<1>4. /\ RecordOK(n) /\ ContentOf(n) = ContentOf(r) /\ n.state = "CLEAN"
      /\ view[t] = "repeated" => Size(n) = Size(r)
  BY <1>2 DEF RecordOK, RecordType, ContentOf, Stale, Size
<1>5. SyncOK(t)'
  <2>1. field'[f] = n
    BY <1>2, <1>3
  <2>2. pc'[t] = "unlock"
    BY <1>1, VariablesTyped DEF VariableTypes
  <2> QED
    BY <1>1, <1>2, <1>4, <2>1, <2>2 DEF SyncOK, Stale
<1> QED
  BY <1>1, <1>3, <1>4, <1>5, SynchronisingKeeps

-----------------------------------------------------------------------------
(* What calls do, and that it is what SharedMap has them do.                 *)

Contents == [f \in Fields |-> Content(f)]

(* The fields after a call.                                                  *)
FieldsGood(c) ==
  /\ field' \in [Fields -> RecordType] /\ \A f \in Fields : RecordOK(field'[f])
  /\ \A f \in Fields \ Changes(c) : field'[f] = field[f]

(* A call that acts has its view up to date.                                 *)
LEMMA ActView ==
  ASSUME IInv, NEW t \in Threads, pc[t] = "act"
  PROVE  LET c == call[t] IN
         /\ c \in Calls /\ c # NULL /\ c.on \in Fields /\ FitsOK(c) /\ ViewOK(t, c)
         /\ todo[t] = << >> /\ (c.op = "SpaceUsed" => mutex[c.on] = t)
         /\ c.op \notin {"SpaceUsed", "Swap", "Write"} => \A f \in FieldsOf(c) : ~ Stale(f, view[t])
         /\ field \in [Fields -> RecordType] /\ \A f \in Fields : RecordOK(field[f])
<1> DEFINE c == call[t]
<1>1. /\ c \in Calls /\ c # NULL /\ FitsOK(c) /\ ViewOK(t, c) /\ PlaceOK(t, c) /\ TodoOK(t, c)
  BY Calling DEF IInv, CallOK
<1>2. todo[t] = << >> /\ (c.op = "SpaceUsed" => mutex[c.on] = t)
  BY <1>1 DEF PlaceOK
<1>3. c.op \notin {"SpaceUsed", "Swap", "Write"} => \A f \in FieldsOf(c) : ~ Stale(f, view[t])
  BY <1>1, <1>2, SyncedFields, EmptyRange DEF TodoOK
<1> QED
  BY <1>1, <1>2, <1>3, CallFields, Records DEF IInv

(* The content of a field, by its record.                                   *)
LEMMA ContentIs == \A f \in Fields : Contents[f] = ContentOf(field[f]) /\ Content(f) = ContentOf(field[f])
  BY DEF Contents, Content, ContentOf

(* A call that changes its field changes no other content.                  *)
LEMMA ChangeOne ==
  ASSUME IInv, NEW c \in Calls, NEW n, RecordOK(n), field' = [field EXCEPT ![c.on] = n],
         c.on \in Changes(c) \/ n = field[c.on]
  PROVE  FieldsGood(c) /\ Contents' = [Contents EXCEPT ![c.on] = ContentOf(n)]
<1>1. field \in [Fields -> RecordType] /\ \A f \in Fields : RecordOK(field[f])
  BY Records DEF IInv
<1>2. c.on \in Fields /\ n \in RecordType
  BY CallFields DEF RecordOK
<1>3. \A f \in Fields : field'[f] = IF f = c.on THEN n ELSE field[f]
  BY <1>1, <1>2
<1>4. FieldsGood(c)
  BY <1>1, <1>2, <1>3 DEF FieldsGood
<1>5. \A f \in Fields : Content(f)' = IF f = c.on THEN ContentOf(n) ELSE Content(f)
  BY <1>3 DEF Content, ContentOf
<1> QED
  BY <1>2, <1>4, <1>5 DEF Contents

(* Calls on the map.                                                         *)
LEMMA MapEffect ==
  ASSUME IInv, NEW t \in Threads, pc[t] = "act",
         call[t].op \in {"Put", "Write", "InsertOrLookup", "Delete", "Clear", "MergeFrom"},
         Effect(t, call[t])
  PROVE  FieldsGood(call[t]) /\ Map!Effect(call[t])
<1> DEFINE c == call[t]
           r == field[c.on]
           m == Contents[c.on]
<1>1. /\ c \in Calls /\ c.on \in Fields /\ RecordOK(r) /\ FitsOK(c) /\ m = ContentOf(r) /\ m \in Maps
      /\ c.on \in Changes(c)
  BY ActView, ContentIs, RecordContent DEF Changes, Const
<1>2. r.map = m
  <2>1. CASE c.op = "Write"
    BY <1>1, <2>1, RecordContent DEF FitsOK
  <2>2. CASE c.op # "Write"
    <3>1. view[t] = "map"
      BY <2>2, ActView DEF ViewOK, RepeatedCalls
    <3>2. ~ Stale(c.on, view[t])
      BY <1>1, <2>2, ActView, CallFields
    <3> QED
      BY <1>1, <3>1, <3>2, RecordContent DEF Stale
  <2> QED
    BY <2>1, <2>2
<1>3. field' = [field EXCEPT ![c.on] = Changed(t, c, r)]
  BY ActView DEF Effect
<1>4. ASSUME NEW n \in Maps, Changed(t, c, r) = MapWith(r, n)
      PROVE  FieldsGood(c) /\ Contents' = [Contents EXCEPT ![c.on] = n]
  <2> DEFINE x == MapWith(r, n)
  <2>1. RecordOK(x) /\ ContentOf(x) = n
    BY <1>1, <1>4, MapWithOK
  <2>2. field' = [field EXCEPT ![c.on] = x]
    BY <1>3, <1>4
  <2> HIDE DEF x
  <2> QED
    BY <1>1, <2>1, <2>2, ChangeOne
<1>5. CASE c.op \in {"Put", "Write"}
  <2>1. c.key \in Keys /\ c.value \in Values
    BY <1>1, <1>5, CallsAssumption
  <2>2. With(m, c.key, c.value) \in Maps
    BY <1>1, <2>1, WithType
  <2>3. Changed(t, c, r) = MapWith(r, With(m, c.key, c.value))
    BY <1>1, <1>2, <1>5 DEF Changed, MapWith, FitsOK, RecordOK, RecordType
  <2>4. FieldsGood(c) /\ Contents' = [Contents EXCEPT ![c.on] = With(m, c.key, c.value)]
    BY <1>4, <2>2, <2>3
  <2> QED
    BY <1>5, <2>4 DEF Map!Effect, Map!Set, Map!With, With, Contents
<1>6. CASE c.op = "InsertOrLookup"
  <2> DEFINE n == IF c.key \in DOMAIN m THEN m ELSE With(m, c.key, DefaultValue)
  <2>1. c.key \in Keys /\ DefaultValue \in Values
    BY <1>1, <1>6, CallsAssumption, MapOpsAssumption
  <2>2. n \in Maps
    BY <1>1, <2>1, WithType
  <2>3. Changed(t, c, r) = MapWith(r, n)
    BY <1>2, <1>6 DEF Changed
  <2>4. FieldsGood(c) /\ Contents' = [Contents EXCEPT ![c.on] = n]
    BY <1>4, <2>2, <2>3
  <2> QED
    BY <1>6, <2>4 DEF Map!Effect, Map!Set, Map!With, With, Contents
<1>7. CASE c.op = "Delete"
  <2>1. Without(m, c.key) \in Maps /\ (c.key \notin DOMAIN m => Without(m, c.key) = m)
    BY <1>1, WithoutType
  <2>2. FieldsGood(c) /\ Contents' = [Contents EXCEPT ![c.on] = Without(m, c.key)]
    <3>1. Changed(t, c, r) = Deleted(c, r)
      BY <1>7 DEF Changed
    <3>2. CASE c.on \in DynamicFields /\ c.key \notin DOMAIN r.map
      <4>1. Changed(t, c, r) = r
        BY <3>1, <3>2 DEF Deleted
      <4>2. Without(m, c.key) = ContentOf(r)
        BY <1>1, <1>2, <2>1, <3>2
      <4> QED
        BY <1>1, <1>3, <4>1, <4>2, ChangeOne
    <3>3. CASE ~ (c.on \in DynamicFields /\ c.key \notin DOMAIN r.map)
      <4>1. Changed(t, c, r) = MapWith(r, Without(m, c.key))
        BY <1>2, <3>1, <3>3 DEF Deleted
      <4> QED
        BY <1>4, <2>1, <4>1
    <3> QED
      BY <3>2, <3>3
  <2> QED
    BY <1>7, <2>2 DEF Map!Effect, Map!Set, Map!Without, Without, Contents
<1>8. CASE c.op = "Clear"
  <2>1. Changed(t, c, r) = MapWith(r, Empty)
    BY <1>8 DEF Changed
  <2>2. FieldsGood(c) /\ Contents' = [Contents EXCEPT ![c.on] = Empty]
    BY <1>4, <2>1, EmptyIsMap
  <2> QED
    BY <1>8, <2>2 DEF Map!Effect, Map!Set, Map!Empty, Empty, Contents
<1>9. CASE c.op = "MergeFrom"
  <2> DEFINE o == Contents[c.other]
  <2>1. c.other \in FieldsOf(c) /\ c.other \in Fields
    BY <1>1, <1>9, CallFields
  <2>2. view[t] = "map" /\ ~ Stale(c.other, view[t])
    BY <1>9, <2>1, ActView DEF ViewOK, RepeatedCalls
  <2>3. field[c.other].map = o /\ o \in Maps
    BY <2>1, <2>2, ActView, ContentIs, RecordContent DEF Stale
  <2>4. Merged(m, o) \in Maps
    BY <1>1, <2>3, MergedType
  <2>5. Changed(t, c, r) = MapWith(r, Merged(m, o))
    BY <1>2, <1>9, <2>3 DEF Changed
  <2>6. FieldsGood(c) /\ Contents' = [Contents EXCEPT ![c.on] = Merged(m, o)]
    BY <1>4, <2>4, <2>5
  <2> QED
    BY <1>9, <2>6 DEF Map!Effect, Map!Set, Map!Merged, Merged, Contents
<1> QED
  BY <1>5, <1>6, <1>7, <1>8, <1>9

(* SharedMap's effect of the calls that change an entry of the list.         *)
LEMMA EntryEffect ==
  ASSUME NEW t \in Threads, call[t].op \in {"RemoveLast", "SetEntry"},
         NEW n \in Maps, NEW m, m = Contents[call[t].on],
         \E k \in DOMAIN m : Without(Without(n, k), call[t].key) = Without(Without(m, k), call[t].key),
         Contents' = [Contents EXCEPT ![call[t].on] = n]
  PROVE  Map!Effect(call[t])
<1> DEFINE c == call[t]
<1>1. n \in Map!Maps
  BY DEF Map!Maps, Maps
<1>2. \A x, k : Map!Without(x, k) = Without(x, k)
  BY DEF Map!Without, Without
<1>3. PICK k \in DOMAIN m : Without(Without(n, k), c.key) = Without(Without(m, k), c.key)
  OBVIOUS
<1>4. Map!Without(Map!Without(n, k), c.key) = Map!Without(Map!Without(m, k), c.key)
  BY <1>2, <1>3
<1>5. Map!Set(c.on, n)
  BY DEF Map!Set, Contents
<1> QED
  BY <1>1, <1>3, <1>4, <1>5 DEF Map!Effect, Contents

(* Calls on the repeated field.                                              *)
LEMMA RepeatedEffect ==
  ASSUME IInv, NEW t \in Threads, pc[t] = "act",
         call[t].op \in {"Append", "SetEntry", "RemoveLast", "ClearEntries"},
         Effect(t, call[t])
  PROVE  FieldsGood(call[t]) /\ Map!Effect(call[t])
<1> DEFINE c == call[t]
           r == field[c.on]
           m == Contents[c.on]
           list == r.repeated
<1>1. /\ c \in Calls /\ c.on \in Fields /\ RecordOK(r) /\ FitsOK(c) /\ m = ContentOf(r) /\ m \in Maps
      /\ c.on \in Changes(c) /\ m = Content(c.on)
  BY ActView, ContentIs, RecordContent DEF Changes, Const
<1>2. list \in Lists(MaxEntries) /\ AsMap(list) = m /\ r.state # "MODIFIED_MAP"
  <2>1. view[t] = "repeated"
    BY ActView DEF ViewOK, RepeatedCalls
  <2>2. ~ Stale(c.on, view[t])
    BY <1>1, ActView, CallFields
  <2> QED
    BY <1>1, <2>1, <2>2, RecordContent DEF Stale
<1>3. list \in Seq(Entries) /\ Len(list) \in Nat /\ Len(list) <= MaxEntries
  <2>1. list \in Seq(Entries) /\ Len(list) <= MaxEntries
    BY <1>2, ListsAre, MapFieldAssumption
  <2> QED
    BY <2>1, EntriesList
<1>4. ASSUME NEW l \in Seq(Entries), Len(l) <= MaxEntries,
             field' = [field EXCEPT ![c.on] = RepeatedWith(r, l)]
      PROVE  FieldsGood(c) /\ Contents' = [Contents EXCEPT ![c.on] = AsMap(l)] /\ AsMap(l) \in Maps
  <2> DEFINE x == RepeatedWith(r, l)
  <2>1. l \in Lists(MaxEntries) /\ AsMap(l) \in Maps
    BY <1>4, ListsAre, AsMapType, MapFieldAssumption
  <2>2. RecordOK(x) /\ ContentOf(x) = AsMap(l)
    BY <1>1, <2>1, RepeatedWithOK
  <2>3. field' = [field EXCEPT ![c.on] = x]
    BY <1>4
  <2> HIDE DEF x
  <2> QED
    BY <1>1, <2>1, <2>2, <2>3, ChangeOne
<1>5. c.op # "SetEntry" => field' = [field EXCEPT ![c.on] = Changed(t, c, r)]
  BY DEF Effect
<1>6. CASE c.op = "Append"
  <2> DEFINE l == Append(list, <<c.key, c.value>>)
  <2>1. c.key \in Keys /\ c.value \in Values
    BY <1>1, <1>6, CallsAssumption
  <2>2. l \in Seq(Entries) /\ AsMap(l) = With(m, c.key, c.value)
    BY <1>2, <1>3, <2>1, AsMapAppend
  <2>3. Len(list) < MaxEntries
    BY <1>1, <1>2, <1>6 DEF FitsOK, Size
  <2>4. Len(l) = Len(list) + 1
    BY <1>3, <2>1, AppendProperties DEF Entries
  <2>5. Len(l) <= MaxEntries
    BY <1>3, <2>3, <2>4, MapFieldAssumption
  <2>6. field' = [field EXCEPT ![c.on] = RepeatedWith(r, l)]
    BY <1>5, <1>6 DEF Changed
  <2>7. FieldsGood(c) /\ Contents' = [Contents EXCEPT ![c.on] = With(m, c.key, c.value)]
    <3> HIDE DEF l
    <3> QED
      BY <1>4, <2>2, <2>5, <2>6
  <2> QED
    BY <1>6, <2>7 DEF Map!Effect, Map!Set, Map!With, With, Contents
<1>7. CASE c.op = "RemoveLast"
  <2> DEFINE l == SubSeq(list, 1, Len(list) - 1)
  <2>1. m # Empty
    BY <1>1, <1>7 DEF FitsOK
  <2>2. /\ l \in Seq(Entries) /\ Len(l) <= Len(list)
        /\ \E k \in DOMAIN m : Without(Without(AsMap(l), k), c.key) = Without(Without(m, k), c.key)
    <3>1. AsMap(list) # Empty
      BY <1>2, <2>1
    <3>2. Len(list) \in Nat \ {0}
      BY <1>3, <3>1, AsMapEmpty
    <3>3. /\ l \in Seq(Entries) /\ Len(l) = Len(list) - 1
          /\ \A i \in 1 .. Len(list) - 1 : l[i] = list[i]
      <4> DEFINE n == Len(list) - 1
      <4>1. n \in Nat /\ \A i \in 1 .. n : list[i] \in Entries
        BY <1>3, <3>2, EntriesList
      <4> HIDE DEF n, list
      <4>2. /\ SubSeq(list, 1, n) \in Seq(Entries)
            /\ Len(SubSeq(list, 1, n)) = n
            /\ \A i \in 1 .. n : SubSeq(list, 1, n)[i] = list[i]
        BY <4>1, SubSeqProperties
      <4> QED
        BY <4>2 DEF n
    <3> HIDE DEF l, m, list
    <3>4. \E k \in DOMAIN AsMap(list) :
            Without(Without(AsMap(l), k), c.key) = Without(Without(AsMap(list), k), c.key)
      BY <1>3, <3>1, <3>3, AsMapRemoveLast
    <3> QED
      BY <1>2, <3>2, <3>3, <3>4
  <2>3. Len(l) <= MaxEntries
    <3>1. Len(l) \in Nat
      BY <2>2, EntriesList
    <3> QED
      BY <1>3, <2>2, <3>1, MapFieldAssumption
  <2>4. field' = [field EXCEPT ![c.on] = RepeatedWith(r, l)]
    BY <1>5, <1>7 DEF Changed
  <2> HIDE DEF l
  <2>5. FieldsGood(c) /\ Contents' = [Contents EXCEPT ![c.on] = AsMap(l)] /\ AsMap(l) \in Maps
    BY <1>4, <2>2, <2>3, <2>4
  <2> QED
    <3>1. m = Contents[c.on] /\ c.op \in {"RemoveLast", "SetEntry"}
      BY <1>7
    <3> HIDE DEF m, list
    <3> QED
      BY <2>2, <2>5, <3>1, EntryEffect
<1>8. CASE c.op = "ClearEntries"
  <2>1. Len(<< >>) <= MaxEntries
    BY MapFieldAssumption
  <2>2. field' = [field EXCEPT ![c.on] = RepeatedWith(r, << >>)]
    BY <1>5, <1>8 DEF Changed
  <2>3. FieldsGood(c) /\ Contents' = [Contents EXCEPT ![c.on] = Empty]
    BY <1>4, <2>1, <2>2, AsMapEmpty
  <2> QED
    BY <1>8, <2>3 DEF Map!Effect, Map!Set, Map!Empty, Empty, Contents
<1>9. CASE c.op = "SetEntry"
  <2>1. PICK i \in DOMAIN list :
          field' = [field EXCEPT ![c.on] = RepeatedWith(r, [list EXCEPT ![i] = <<c.key, c.value>>])]
    BY <1>1, <1>9, ActView DEF Effect
  <2> DEFINE l == [list EXCEPT ![i] = <<c.key, c.value>>]
  <2>2. c.key \in Keys /\ c.value \in Values
    BY <1>1, <1>9, CallsAssumption
  <2>3. /\ l \in Seq(Entries) /\ Len(l) = Len(list)
        /\ \E k \in DOMAIN m : Without(Without(AsMap(l), k), c.key) = Without(Without(m, k), c.key)
    <3>1. /\ l \in Seq(Entries) /\ Len(l) = Len(list)
          /\ \E k \in DOMAIN AsMap(list) :
               Without(Without(AsMap(l), k), c.key) = Without(Without(AsMap(list), k), c.key)
      BY <1>3, <2>2, AsMapSetEntry
    <3> HIDE DEF l, m, list
    <3> QED
      BY <1>2, <3>1
  <2> HIDE DEF l
  <2>4. FieldsGood(c) /\ Contents' = [Contents EXCEPT ![c.on] = AsMap(l)] /\ AsMap(l) \in Maps
    <3>1. field' = [field EXCEPT ![c.on] = RepeatedWith(r, l)]
      BY <2>1 DEF l
    <3> QED
      BY <1>3, <1>4, <2>3, <3>1
  <2> QED
    <3>1. m = Contents[c.on] /\ c.op \in {"RemoveLast", "SetEntry"}
      BY <1>9
    <3> HIDE DEF m, list
    <3> QED
      BY <2>3, <2>4, <3>1, EntryEffect
<1> QED
  BY <1>6, <1>7, <1>8, <1>9

(* Calls that exchange two fields.                                           *)
LEMMA SwapEffect ==
  ASSUME IInv, NEW t \in Threads, pc[t] = "act", call[t].op \in {"Swap", "SwapField"},
         Effect(t, call[t])
  PROVE  FieldsGood(call[t]) /\ Map!Effect(call[t])
<1> DEFINE c == call[t]
           r == field[c.on]
           s == field[c.other]
<1>1. /\ c \in Calls /\ c.on \in Fields /\ c.other \in Fields /\ c.on # c.other
      /\ RecordOK(r) /\ RecordOK(s) /\ Changes(c) = {c.on, c.other}
      /\ field \in [Fields -> RecordType] /\ \A f \in Fields : RecordOK(field[f])
  BY ActView, CallsAssumption DEF Changes, Const, FitsOK
<1>2. PICK x, y : /\ field' = [field EXCEPT ![c.on] = x, ![c.other] = y]
                  /\ RecordOK(x) /\ ContentOf(x) = ContentOf(s)
                  /\ RecordOK(y) /\ ContentOf(y) = ContentOf(r)
  <2>1. CASE c.op = "Swap"
    <3>1. field' = [field EXCEPT ![c.on] = s, ![c.other] = r]
      BY <1>1, <2>1 DEF Effect, Swapped
    <3> QED
      BY <1>1, <3>1
  <2>2. CASE c.op = "SwapField"
    <3> DEFINE x == RepeatedWith(r, s.repeated)
               y == RepeatedWith(s, r.repeated)
    <3>1. c.on \in FieldsOf(c) /\ c.other \in FieldsOf(c)
      BY <1>1, <2>2, CallFields
    <3>2. view[t] = "repeated" /\ ~ Stale(c.on, view[t]) /\ ~ Stale(c.other, view[t])
      BY <2>2, <3>1, ActView DEF ViewOK, RepeatedCalls
    <3>3. /\ r.repeated \in Lists(MaxEntries) /\ AsMap(r.repeated) = ContentOf(r)
          /\ s.repeated \in Lists(MaxEntries) /\ AsMap(s.repeated) = ContentOf(s)
      BY <1>1, <3>2, RecordContent DEF Stale
    <3>4. field' = [field EXCEPT ![c.on] = x, ![c.other] = y]
      BY <1>1, <2>2 DEF Effect
    <3>5. /\ RecordOK(x) /\ ContentOf(x) = ContentOf(s)
          /\ RecordOK(y) /\ ContentOf(y) = ContentOf(r)
      BY <1>1, <3>3, RepeatedWithOK
    <3> HIDE DEF x, y
    <3> QED
      BY <3>4, <3>5
  <2> QED
    BY <2>1, <2>2
<1>3. x \in RecordType /\ y \in RecordType
  BY <1>2 DEF RecordOK
<1>4. \A f \in Fields : field'[f] = IF f = c.other THEN y ELSE IF f = c.on THEN x ELSE field[f]
  BY <1>1, <1>2
<1>5. FieldsGood(c)
  <2>1. field' \in [Fields -> RecordType]
    BY <1>1, <1>2, <1>3
  <2> QED
    BY <1>1, <1>2, <1>4, <2>1 DEF FieldsGood
<1>6. \A f \in Fields : Content(f)' =
        IF f = c.other THEN Content(c.on) ELSE IF f = c.on THEN Content(c.other) ELSE Content(f)
  <2>1. \A f \in Fields : Content(f)' =
          IF f = c.other THEN ContentOf(y) ELSE IF f = c.on THEN ContentOf(x) ELSE Content(f)
    BY <1>4 DEF Content, ContentOf
  <2> QED
    BY <1>1, <1>2, <2>1, ContentIs
<1>7. Contents' = [Contents EXCEPT ![c.on] = Contents[c.other], ![c.other] = Contents[c.on]]
  BY <1>1, <1>6 DEF Contents
<1> QED
  BY <1>5, <1>7 DEF Map!Effect, Contents

(* Calls that read, or write what is there.                                  *)
LEMMA ReadEffect ==
  ASSUME IInv, NEW t \in Threads, pc[t] = "act",
         call[t].op \in {"GetMap", "ContainsMapKey", "GetRepeatedField", "SpaceUsed",
                         "Serialize", "SerializeSorted"},
         Effect(t, call[t])
  PROVE  FieldsGood(call[t]) /\ Map!Effect(call[t])
<1> DEFINE c == call[t]
           r == field[c.on]
<1>1. /\ c \in Calls /\ c.on \in Fields /\ RecordOK(r)
      /\ field \in [Fields -> RecordType]
  BY ActView
<1>2. PICK n : /\ field' = [field EXCEPT ![c.on] = n] /\ RecordOK(n) /\ ContentOf(n) = ContentOf(r)
               /\ c.on \in Changes(c) \/ n = r
  <2>1. field' = [field EXCEPT ![c.on] = Changed(t, c, r)]
    BY DEF Effect
  <2>2. CASE c.op = "SerializeSorted" /\ view[t] = "map"
    <3>1. ~ Stale(c.on, view[t])
      BY <1>1, <2>2, ActView, CallFields
    <3>2. r.map = ContentOf(r) /\ r.map \in Maps
      BY <1>1, <2>2, <3>1, RecordContent DEF Stale
    <3>3. Changed(t, c, r) \in {MapWith(r, r.map), r}
      BY <2>2 DEF Changed
    <3>4. RecordOK(Changed(t, c, r)) /\ ContentOf(Changed(t, c, r)) = ContentOf(r)
      BY <1>1, <3>2, <3>3, MapWithOK
    <3>5. c.on \in Changes(c)
      BY <2>2 DEF Changes, Const
    <3> QED
      BY <2>1, <3>4, <3>5
  <2>3. CASE ~ (c.op = "SerializeSorted" /\ view[t] = "map")
    <3>1. Changed(t, c, r) = r
      BY <2>3 DEF Changed
    <3> QED
      BY <1>1, <2>1, <3>1
  <2> QED
    BY <2>2, <2>3
<1>3. FieldsGood(c) /\ Contents' = [Contents EXCEPT ![c.on] = ContentOf(r)]
  BY <1>1, <1>2, ChangeOne
<1>4. Contents' = Contents
  BY <1>1, <1>3, ContentIs DEF Contents
<1> QED
  BY <1>3, <1>4 DEF Map!Effect, Contents

-----------------------------------------------------------------------------
(* The last step of a call.                                                  *)

(* What a call does to its fields is its effect in SharedMap.               *)
LEMMA ActEffect ==
  ASSUME IInv, NEW t \in Threads, Act(t)
  PROVE  FieldsGood(call[t]) /\ Map!Effect(call[t])
<1>1. pc[t] = "act" /\ Effect(t, call[t]) /\ call[t] \in Calls
  BY ActView DEF Act
<1>2. \/ call[t].op \in {"Put", "Write", "InsertOrLookup", "Delete", "Clear", "MergeFrom"}
      \/ call[t].op \in {"Append", "SetEntry", "RemoveLast", "ClearEntries"}
      \/ call[t].op \in {"Swap", "SwapField"}
      \/ call[t].op \in {"GetMap", "ContainsMapKey", "GetRepeatedField", "SpaceUsed",
                         "Serialize", "SerializeSorted"}
  BY <1>1, CallsAssumption
<1> QED
  BY <1>1, <1>2, MapEffect, RepeatedEffect, SwapEffect, ReadEffect

(* A call takes effect.                                                     *)
LEMMA ActKeeps ==
  ASSUME IInv, NEW t \in Threads, Act(t)
  PROVE  IInv' /\ Map!Perform(t)
<1> DEFINE c == call[t]
<1>1. /\ pc[t] = "act" /\ UNCHANGED todo
      /\ mutex' = IF c.op = "SpaceUsed" THEN [mutex EXCEPT ![c.on] = NULL] ELSE mutex
      /\ call' = [call EXCEPT ![t] = NULL]
      /\ view' = [view EXCEPT ![t] = "map"]
      /\ pc' = [pc EXCEPT ![t] = "idle"]
  BY DEF Act, Goto
<1>2. c \in Calls /\ c # NULL /\ c.on \in Fields /\ (c.op = "SpaceUsed" => mutex[c.on] = t)
  BY <1>1, ActView
<1>3. FieldsGood(c) /\ Map!Effect(c)
  BY ActEffect
<1>4. Frame(t)
  BY <1>1, <1>3 DEF Frame, FieldsGood
<1>5. call'[t] = NULL /\ pc'[t] = "idle" /\ VariableTypes'
  BY <1>1, <1>2, VariablesTyped DEF VariableTypes
<1>6. Others(t)
  BY <1>1, <1>2, VariablesTyped DEF VariableTypes, Others
<1>7. Separate'
  BY <1>1, <1>5, <1>6 DEF IInv, Separate, Others
<1>8. CallOK(t)' /\ Locked(t)'
  BY <1>5 DEF CallOK, Locked
<1>9. IInv'
  BY <1>3, <1>4, <1>5, <1>6, <1>7, <1>8, StepKeeps DEF FieldsGood
<1> QED
  BY <1>1, <1>2, <1>3, <1>9 DEF Map!Perform

-----------------------------------------------------------------------------
(* The invariant, and what follows from it.                                  *)

(* New fields.                                                              *)
LEMMA InitIInv == Init => IInv
<1> SUFFICES ASSUME Init PROVE IInv
  OBVIOUS
<1>1. Empty \in Maps
  BY EmptyIsMap
<1>2. TypeOK
  BY <1>1 DEF Init, TypeOK
<1> QED
  BY <1>2 DEF Init, IInv, CleanIsSame, Separate, CallOK

(* Steps that only synchronise leave the maps as they are.                   *)
LEMMA SyncStep ==
  ASSUME IInv, NEW t \in Threads,
         \/ Choose(t) \/ CheckState(t) \/ Lock(t) \/ ClearView(t)
         \/ FillView(t) \/ StoreClean(t) \/ Unlock(t) \/ Measure(t)
  PROVE  IInv' /\ SameContents /\ UNCHANGED call
<1>1. CASE Choose(t) \/ CheckState(t) \/ Lock(t) \/ Unlock(t) \/ Measure(t)
  <2>1. UNCHANGED field /\ UNCHANGED call
    BY <1>1 DEF Choose, CheckState, Lock, Unlock, Measure
  <2>2. SameContents
    BY <2>1 DEF SameContents, Content
  <2> QED
    BY <1>1, <2>1, <2>2, ChooseKeeps, CheckStateKeeps, LockKeeps, UnlockKeeps, MeasureKeeps
<1>2. CASE ClearView(t)
  BY <1>2, ClearViewKeeps DEF ClearView
<1>3. CASE FillView(t)
  BY <1>3, FillViewKeeps DEF FillView
<1>4. CASE StoreClean(t)
  BY <1>4, StoreCleanKeeps DEF StoreClean
<1> QED
  BY <1>1, <1>2, <1>3, <1>4

(* Every step keeps the inductive invariant and is one of SharedMap, or     *)
(* none.                                                                    *)
LEMMA StepIInv ==
  ASSUME IInv, [Next]_vars
  PROVE  IInv' /\ [Map!Next]_(Map!vars)
<1>1. CASE UNCHANGED vars
  <2>1. UNCHANGED <<field, mutex, call, pc, view, todo>>
    BY <1>1 DEF vars
  <2>2. IInv'
    BY <2>1 DEF IInv, TypeOK, CleanIsSame, Separate, Changes, CallOK, ViewOK, PlaceOK, SyncOK,
                TodoOK, FitsOK, Stale, Content
  <2> QED
    BY <2>1, <2>2 DEF Map!vars, Content
<1>2. ASSUME NEW t \in Threads, NEW c \in Calls, Start(t, c)
      PROVE  IInv' /\ Map!Invoke(t)
  <2>1. call[t] = NULL /\ call' = [call EXCEPT ![t] = c] /\ UNCHANGED field
    BY <1>2 DEF Start, IInv, CallOK
  <2> QED
    BY <1>2, <2>1, StartKeeps DEF Map!Invoke, Content
<1>3. ASSUME NEW t \in Threads, Act(t)
      PROVE  IInv' /\ Map!Perform(t)
  BY <1>3, ActKeeps
<1>4. ASSUME NEW t \in Threads,
             \/ Choose(t) \/ CheckState(t) \/ Lock(t) \/ ClearView(t)
             \/ FillView(t) \/ StoreClean(t) \/ Unlock(t) \/ Measure(t)
      PROVE  IInv' /\ UNCHANGED Map!vars
  <2>1. IInv' /\ SameContents /\ UNCHANGED call
    BY <1>4, SyncStep
  <2> QED
    BY <2>1 DEF SameContents, Map!vars
<1> QED
  BY <1>1, <1>2, <1>3, <1>4 DEF Next, Step, Map!Next

(* What map_field.cc keeps, whichever thread runs next.                      *)
THEOREM MapFieldInvariant == Spec => []IInv
<1>1. Init => IInv
  BY InitIInv
<1>2. IInv /\ [Next]_vars => IInv'
  BY StepIInv
<1> QED
  BY <1>1, <1>2, PTL DEF Spec

(* Types, and every thread that synchronises a field has its mutex           *)
(* (MapFieldBase::SyncMapWithRepeatedField, SyncRepeatedFieldWithMap).       *)
THEOREM TypeCorrect == Spec => []TypeOK
<1>1. IInv => TypeOK
  BY DEF IInv
<1> QED
  BY <1>1, MapFieldInvariant, PTL

(* CLEAN means that map and entries are the same, and a state never points   *)
(* to a repeated field that is not there.                                    *)
THEOREM CleanSame == Spec => []CleanIsSame
<1>1. IInv => CleanIsSame
  BY DEF IInv
<1> QED
  BY <1>1, MapFieldInvariant, PTL

(* A call that works on a representation finds in it what the users gave the *)
(* field: GetMap and GetRepeatedField include what was written in the other. *)
THEOREM SeeContent == Spec => []CallsSeeContent
<1>1. IInv => CallsSeeContent
  <2> SUFFICES ASSUME IInv, NEW t \in Threads, pc[t] = "act",
                      call[t].op \notin {"SpaceUsed", "Swap", "Write"},
                      NEW f \in {call[t].on, call[t].other} \ {NULL}
               PROVE  IF view[t] = "map" THEN field[f].map = Content(f)
                      ELSE field[f].repeated # NULL /\ AsMap(field[f].repeated) = Content(f)
    BY DEF CallsSeeContent
  <2>1. f \in Fields /\ ~ Stale(f, view[t]) /\ RecordOK(field[f])
    BY ActView, CallFields DEF FieldsOf
  <2>2. view[t] \in {"map", "repeated"}
    BY DEF IInv, TypeOK
  <2> QED
    BY <2>1, <2>2 DEF Stale, Content, RecordOK, RecordType
<1> QED
  BY <1>1, MapFieldInvariant, PTL

(* Const calls of any number of threads synchronise one field, and none      *)
(* reads or returns what another is clearing or filling.                     *)
THEOREM NoConflicts == Spec => []NoConflict
<1>1. IInv => NoConflict
  <2> SUFFICES ASSUME IInv, NEW t \in Threads, NEW u \in Threads, t # u,
                      NEW f, NEW v, <<f, v>> \in Writes(t), <<f, v>> \in Accesses(u)
               PROVE  FALSE
    <3>1. \A w \in Threads : \A x \in Writes(w) : \E f, v : x = <<f, v>>
      BY DEF Writes, Both
    <3> QED
      BY <3>1 DEF NoConflict
  <2>1. /\ pc[t] \in {"clear", "fill", "act"} /\ call[t] \in Calls /\ call[t] # NULL
        /\ pc[u] \in {"clear", "fill", "act"} /\ call[u] \in Calls /\ call[u] # NULL
    BY Calling DEF Writes, Accesses
  <2>2. f \in FieldsOf(call[u])
    <3>1. CASE pc[u] \in {"clear", "fill"}
      BY <3>1, Synchronising DEF Accesses, Both
    <3>2. CASE pc[u] = "act"
      BY <2>1, <3>2, CallFields DEF Accesses, Writes, Both, FieldsOf
    <3> QED
      BY <2>1, <3>1, <3>2
  <2>3. CASE pc[t] = "act"
    BY <2>1, <2>2, <2>3 DEF Writes, Both, IInv, Separate
  <2>4. CASE pc[t] \in {"clear", "fill"}
    <3>1. /\ f \in FieldsOf(call[t]) /\ mutex[f] = t /\ Stale(f, view[t]) /\ v = view[t]
      BY <2>4, Synchronising DEF Writes
    <3>2. f \notin Changes(call[u])
      BY <2>1, <3>1 DEF IInv, Separate
    <3>3. CASE pc[u] \in {"clear", "fill"}
      BY <3>1, <3>3, Synchronising DEF Accesses, Both
    <3>4. CASE pc[u] = "act"
      <4>1. <<f, v>> \notin Writes(u)
        BY <3>2, <3>4 DEF Writes, Both
      <4>2. CASE call[u].op = "SpaceUsed"
        <5>1. f = call[u].on
          BY <3>4, <4>1, <4>2 DEF Accesses, Both
        <5> QED
          BY <3>1, <3>4, <4>2, <5>1, ActView
      <4>3. CASE call[u].op # "SpaceUsed"
        <5>1. v = view[u]
          BY <3>4, <4>1, <4>3 DEF Accesses
        <5>2. call[u].op \notin {"Swap", "Write"}
          BY <2>1, <2>2, <3>2, CallFields, MapOpsAssumption, CallsAssumption DEF Changes, Const, FieldsOf
        <5>3. ~ Stale(f, view[u])
          BY <2>2, <3>4, <4>3, <5>2, ActView
        <5> QED
          BY <3>1, <5>1, <5>3
      <4> QED
        BY <4>2, <4>3
    <3> QED
      BY <2>1, <3>3, <3>4
  <2> QED
    BY <2>1, <2>3, <2>4
<1> QED
  BY <1>1, MapFieldInvariant, PTL

(* A map field is one map: whatever represents it and whoever converts it,   *)
(* a call takes effect in one step, as SharedMap says.                       *)
THEOREM Implementation == Spec => Implements
<1>1. Init => Map!Init
  BY DEF Init, Map!Init, Content, Map!Empty, Empty
<1>2. IInv /\ [Next]_vars => [Map!Next]_(Map!vars)
  BY StepIInv
<1> QED
  BY <1>1, <1>2, MapFieldInvariant, PTL DEF Spec, Implements, Map!Spec
=============================================================================
