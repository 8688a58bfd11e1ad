---------------------------- MODULE JavaMapField ----------------------------
(***************************************************************************)
(* MapField.java, and the builders and messages that java_map_field.cc      *)
(* generates for a map field.  A MapField keeps its data as a map, as a     *)
(* list of entries, or as both; a getter converts it under the monitor of    *)
(* the object.  Building a message shares the builder's MapField with it,    *)
(* and the builder copies it before it changes it again.                     *)
(*                                                                         *)
(* The Fields of MapOps are the map fields that users see: those of builders *)
(* and of messages.  A builder belongs to one thread at a time, a message to *)
(* all of them.                                                              *)
(***************************************************************************)
EXTENDS MapOps

CONSTANTS
  Builders,   (* The Fields that are builders' and not messages'.            *)
  MapFields,  (* The MapField objects.                                       *)
  MaxEntries  (* Bound on the entries of a list.                             *)

ASSUME JavaMapFieldAssumption ==
  /\ Builders \subseteq Fields /\ NULL \notin MapFields
  /\ IsFiniteSet(Keys) /\ NULL \notin Maps \cup Seq(Entries)

(* The users' calls: a message is built and read, a builder changed as well.  *)
ASSUME CallsAssumption ==
  /\ NULL \notin Calls
  /\ \A c \in Calls :
       \/ c.op \in {"GetMap", "GetList"} /\ c.on \in Fields /\ c.other = NULL
       \/ c.op \in {"Clear", "ClearEntries"} /\ c.on \in Builders /\ c.other = NULL
       \/ c.op = "Delete" /\ c.on \in Builders /\ c.other = NULL /\ c.key \in Keys
       \/ /\ c.op \in {"Put", "Append", "SetEntry"} /\ c.on \in Builders /\ c.other = NULL
          /\ c.key \in Keys /\ c.value \in Values
       \/ c.op = "MergeFrom" /\ c.on \in Builders /\ c.other \in Fields \ Builders
       \/ c.op = "Build" /\ c.on \in Fields \ Builders /\ c.other \in Builders

VARIABLES
  object,   (* object[o]: the variables of the MapField o.                   *)
  foo,      (* foo[f]: the field foo_ of f's builder or message; null before *)
            (* a builder needs it, and in the default message.               *)
  monitor,  (* monitor[o]: the thread inside "synchronized (this)", or NULL. *)
  call,     (* call[t]: the call t is in, or NULL,                           *)
  pc,       (* where t is in it,                                             *)
  at        (* and the MapField that it converts, and to what.               *)

vars == <<object, foo, monitor, call, pc, at>>

newMapField == [mode |-> "MAP", mapData |-> Empty, listData |-> NULL, isMutable |-> TRUE]
Nowhere == [o |-> NULL, to |-> "MAP"]

Init ==
  /\ object = [o \in MapFields |-> newMapField]
  /\ foo = [f \in Fields |-> NULL]
  /\ monitor = [o \in MapFields |-> NULL]
  /\ call = [t \in Threads |-> NULL]
  /\ pc = [t \in Threads |-> "idle"]
  /\ at = [t \in Threads |-> Nowhere]

Goto(t, label) == pc' = [pc EXCEPT ![t] = label]
Return(t) == Goto(t, "idle") /\ call' = [call EXCEPT ![t] = NULL] /\ at' = [at EXCEPT ![t] = Nowhere]

Content(o) == IF object[o].mode = "LIST" THEN AsMap(object[o].listData) ELSE object[o].mapData

(* A MapField that nobody refers to is allocated next, and is as good as new. *)
Free == {o \in MapFields : \A f \in Fields : foo[f] # o}
Collected(objects) ==
  [o \in MapFields |-> IF \E f \in Fields : foo'[f] = o THEN objects[o] ELSE newMapField]

-----------------------------------------------------------------------------
(* The calls. *)

Reading(c) == c.op \in {"GetMap", "GetList"}
ListCalls == {"GetList", "Append", "SetEntry", "ClearEntries"}
View(c) == IF c.op \in ListCalls THEN "LIST" ELSE "MAP"

(* A builder, and a message that is being built, are used by one thread.     *)
MayCall(c) == \A t \in Threads : call[t] # NULL =>
  /\ {c.on, c.other} \cap {call[t].on, call[t].other} \cap Builders = {}
  /\ c.op = "Build" => c.on \notin {call[t].on, call[t].other}
  /\ call[t].op = "Build" => call[t].on \notin {c.on, c.other}

Fits(c) ==
  /\ c.op = "SetEntry" => foo[c.on] # NULL /\ Content(foo[c.on]) # Empty
  /\ c.op = "Append" /\ foo[c.on] # NULL /\ object[foo[c.on]].mode # "MAP"
       => Len(object[foo[c.on]].listData) < MaxEntries

Start(t, c) ==
  /\ pc[t] = "idle" /\ MayCall(c) /\ Fits(c)
  /\ call' = [call EXCEPT ![t] = c]
  /\ Goto(t, IF Reading(c) THEN "internalGet" ELSE IF c.op = "Build" THEN "build" ELSE "mutable")
  /\ UNCHANGED <<object, foo, monitor, at>>

(* Mutant: the builder changes the MapField that it shares with messages.    *)
MutableShared(t) ==
  /\ pc[t] = "mutable"
  /\ LET f == call[t].on IN
     IF foo[f] = NULL THEN \E o \in Free :
          /\ foo' = [foo EXCEPT ![f] = o]
          /\ object' = [object EXCEPT ![o] = newMapField]
          /\ Goto(t, "view") /\ UNCHANGED at
     ELSE Goto(t, "view") /\ UNCHANGED <<foo, object, at>>
  /\ UNCHANGED <<monitor, call>>

(* internalGetMutableFoo: a new MapField if there is none, and a copy of one *)
(* that is shared, whose map is asked for first.                             *)
internalGetMutable(t) ==
  /\ pc[t] = "mutable"
  /\ LET f == call[t].on IN
     IF foo[f] = NULL THEN \E o \in Free :
          /\ foo' = [foo EXCEPT ![f] = o]
          /\ object' = [object EXCEPT ![o] = newMapField]
          /\ Goto(t, "view") /\ UNCHANGED at
     ELSE /\ IF object[foo[f]].isMutable THEN Goto(t, "view") /\ UNCHANGED at
             ELSE Goto(t, "check") /\ at' = [at EXCEPT ![t] = [o |-> foo[f], to |-> "MAP"]]
          /\ UNCHANGED <<foo, object>>
  /\ UNCHANGED <<monitor, call>>

(* internalGetFoo: without a MapField, an empty one stands in.               *)
internalGet(t) ==
  /\ pc[t] = "internalGet"
  /\ IF foo[call[t].on] = NULL THEN Return(t)
     ELSE /\ at' = [at EXCEPT ![t] = [o |-> foo[call[t].on], to |-> View(call[t])]]
          /\ Goto(t, "check") /\ UNCHANGED call
  /\ UNCHANGED <<object, foo, monitor>>

-----------------------------------------------------------------------------
(* MapField.getMap and getList: the mode is read, the monitor entered, the    *)
(* mode read again; then the data is written and the mode after it.          *)

Stale(m) == object[m.o].mode = IF m.to = "MAP" THEN "LIST" ELSE "MAP"

Check(t) ==
  /\ pc[t] = "check"
  /\ Goto(t, IF Stale(at[t]) THEN "enter" ELSE "act")
  /\ UNCHANGED <<object, foo, monitor, call, at>>

Enter(t) ==
  /\ pc[t] = "enter" /\ monitor[at[t].o] = NULL
  /\ IF Stale(at[t])
       THEN Goto(t, "convert") /\ monitor' = [monitor EXCEPT ![at[t].o] = t]
       ELSE Goto(t, "act") /\ UNCHANGED monitor
  /\ UNCHANGED <<object, foo, call, at>>

(* LinkedHashMap keeps the order, but whose is of no concern.                *)
Converted(r, to) ==
  IF to = "MAP" THEN {[r EXCEPT !.mapData = AsMap(r.listData)]}
  ELSE {[r EXCEPT !.listData = list] : list \in ListsOf(r.mapData)}

(* Mutant: the mode says BOTH before the data is there.                      *)
ConvertEarly(t) ==
  /\ pc[t] = "convert"
  /\ object' = [object EXCEPT ![at[t].o].mode = "BOTH"]
  /\ Goto(t, "store")
  /\ UNCHANGED <<foo, monitor, call, at>>

Convert(t) ==
  /\ pc[t] = "convert"
  /\ \E r \in Converted(object[at[t].o], at[t].to) : object' = [object EXCEPT ![at[t].o] = r]
  /\ Goto(t, "store")
  /\ UNCHANGED <<foo, monitor, call, at>>

StoreMode(t) ==
  /\ pc[t] = "store"
  /\ object' = [object EXCEPT ![at[t].o].mode = "BOTH"]
  /\ monitor' = [monitor EXCEPT ![at[t].o] = NULL]
  /\ Goto(t, "act")
  /\ UNCHANGED <<foo, call, at>>

-----------------------------------------------------------------------------
(* What is done with the map or the list.                                    *)

(* Mutant: a map that was asked for does not end the life of the list.       *)
getMutableBoth(r, to) == IF r.mode \in {to, "BOTH"} THEN {r} ELSE Converted(r, to)

(* getMutableMap and getMutableList, on a MapField that is not shared.       *)
getMutable(r, to) ==
  IF r.mode = to THEN {r}
  ELSE {[s EXCEPT !.mode = to, !.mapData = IF to = "MAP" THEN @ ELSE NULL,
                  !.listData = IF to = "LIST" THEN @ ELSE NULL] :
          s \in IF r.mode = "BOTH" THEN {r} ELSE Converted(r, to)}

(* The read-only view has been returned.                                     *)
Read(t) ==
  /\ pc[t] = "act" /\ Reading(call[t])
  /\ Return(t)
  /\ UNCHANGED <<object, foo, monitor>>

(* copy: a new MapField of the map that was asked for.                       *)
Copy(t) ==
  /\ pc[t] = "act" /\ ~ Reading(call[t]) /\ at[t].o = foo[call[t].on]
  /\ \E o \in Free :
       /\ foo' = [foo EXCEPT ![call[t].on] = o]
       /\ object' = Collected(
            [object EXCEPT ![o] = [newMapField EXCEPT !.mapData = object[at[t].o].mapData]])
  /\ at' = [at EXCEPT ![t] = Nowhere]
  /\ Goto(t, "view")
  /\ UNCHANGED <<monitor, call>>

Changed(c, r) ==
  CASE c.op = "Put" -> {[r EXCEPT !.mapData = With(@, c.key, c.value)]}
    [] c.op = "Delete" -> {[r EXCEPT !.mapData = Without(@, c.key)]}
    [] c.op = "Append" -> {[r EXCEPT !.listData = Append(@, <<c.key, c.value>>)]}
    [] c.op = "SetEntry" ->
         {[r EXCEPT !.listData[i] = <<c.key, c.value>>] : i \in DOMAIN r.listData}
    [] c.op = "ClearEntries" -> {[r EXCEPT !.listData = << >>]}

(* The builder's own MapField is brought to the view and changed; clear      *)
(* leaves the list where it is.                                              *)
Mutate(t) ==
  LET c == call[t]
      o == foo[c.on]
  IN
  /\ pc[t] = "view"
  /\ IF c.op = "Clear" THEN
       /\ object' = [object EXCEPT ![o].mapData = Empty, ![o].mode = "MAP"]
       /\ Return(t)
     ELSE \E r \in getMutable(object[o], View(c)) :
       IF c.op # "MergeFrom" THEN
         \E s \in Changed(c, r) : object' = [object EXCEPT ![o] = s] /\ Return(t)
       ELSE /\ object' = [object EXCEPT ![o] = r]
            /\ IF foo[c.other] = NULL THEN Return(t)
               ELSE /\ at' = [at EXCEPT ![t] = [o |-> foo[c.other], to |-> "MAP"]]
                    /\ Goto(t, "check") /\ UNCHANGED call
  /\ UNCHANGED <<foo, monitor>>

(* mergeFrom: putAll of the other's map.                                     *)
PutAll(t) ==
  /\ pc[t] = "act" /\ call[t].op = "MergeFrom" /\ at[t].o # foo[call[t].on]
  /\ object' = [object EXCEPT ![foo[call[t].on]].mapData = Merged(@, object[at[t].o].mapData)]
  /\ Return(t)
  /\ UNCHANGED <<foo, monitor>>

(* buildPartial: the message gets the builder's MapField, or a new empty one. *)
Build(t) ==
  /\ pc[t] = "build"
  /\ LET c == call[t] IN
     \E o \in IF foo[c.other] = NULL THEN Free ELSE {foo[c.other]} :
       /\ foo' = [foo EXCEPT ![c.on] = o]
       /\ object' = Collected([object EXCEPT ![o].isMutable = FALSE])
  /\ Return(t)
  /\ UNCHANGED monitor

Step(t) ==
  \/ internalGetMutable(t) \/ internalGet(t) \/ Check(t) \/ Enter(t) \/ Convert(t)
  \/ StoreMode(t) \/ Read(t) \/ Copy(t) \/ Mutate(t) \/ PutAll(t) \/ Build(t)

Next == \E t \in Threads : Step(t) \/ \E c \in Calls : Start(t, c)

Spec == Init /\ [][Next]_vars

-----------------------------------------------------------------------------
(* What a getter returns is there, and it is the content of the field: no    *)
(* thread sees a map or a list before it is complete (MapField.java:171-183, *)
(* 226-239), and a builder that turns its MapField over takes away neither    *)
(* from the messages that share it.                                          *)
GettersSeeContent ==
  \A t \in Threads : pc[t] = "act" =>
    LET r == object[at[t].o] IN
    IF at[t].to = "MAP" THEN r.mapData # NULL /\ r.mapData = Content(at[t].o)
    ELSE r.listData # NULL /\ AsMap(r.listData) = Content(at[t].o)

(* Builders and messages have maps of their own: what is done to a builder   *)
(* changes no message that it built or merged, and converting changes none.  *)
Map == INSTANCE SharedMap WITH
  content <- [f \in Fields |-> IF foo[f] = NULL THEN Empty ELSE Content(foo[f])],
  pending <- call
Implements == Map!Spec
=============================================================================
