------------------------------ MODULE MapField ------------------------------
(***************************************************************************)
(* map_field.h, map_field.cc, map_field_inl.h: a map field is a Map for the *)
(* generated code and a RepeatedPtrField of entries for reflection.  state_  *)
(* tells which of them holds the truth; the other one is brought up to date  *)
(* when it is asked for, also in const calls, which run concurrently.  A     *)
(* call that is not const has its fields for itself.                        *)
(***************************************************************************)
EXTENDS MapOps

CONSTANTS
  DynamicFields,    (* The fields that are DynamicMapFields, not MapFields.  *)
  MaxEntries        (* Bound on the entries of a repeated field.             *)

ASSUME MapFieldAssumption ==
  /\ DynamicFields \subseteq Fields
  /\ IsFiniteSet(Keys) /\ MaxEntries \in Nat /\ Cardinality(Keys) <= MaxEntries
  /\ NULL \notin Lists(MaxEntries)

(* The users' calls.  ContainsMapKey is for dynamic fields only: MapField's   *)
(* does not synchronise (map_field_inl.h:202).                               *)
ASSUME CallsAssumption ==
  /\ NULL \notin Calls
  /\ \A c \in Calls :
       /\ c.on \in Fields
       /\ \/ /\ c.op \in {"GetMap", "GetRepeatedField", "SpaceUsed", "Serialize",
                          "SerializeSorted", "Clear", "RemoveLast", "ClearEntries"}
             /\ c.other = NULL
          \/ c.op = "ContainsMapKey" /\ c.on \in DynamicFields /\ c.other = NULL
          \/ c.op \in {"InsertOrLookup", "Delete"} /\ c.key \in Keys /\ c.other = NULL
          \/ /\ c.op \in {"Put", "Write", "Append", "SetEntry"}
             /\ c.key \in Keys /\ c.value \in Values /\ c.other = NULL
          \/ c.op \in {"MergeFrom", "Swap", "SwapField"} /\ c.other \in Fields

VARIABLES
  field,  (* field[f]: map, repeated (NULL until needed) and state_ of f.    *)
  mutex,  (* mutex[f]: the thread that holds mutex_ of f, or NULL.           *)
  call,   (* call[t]: the call t is in, or NULL,                             *)
  pc,     (* where t is in it,                                               *)
  view,   (* the representation it works on, "map" or "repeated",            *)
  todo    (* and the fields it still has to synchronise for that.            *)

vars == <<field, mutex, call, pc, view, todo>>

TypeOK ==
  /\ field \in [Fields -> [map : Maps, repeated : {NULL} \cup Lists(MaxEntries),
                           state : {"MODIFIED_MAP", "MODIFIED_REPEATED", "CLEAN"}]]
  /\ mutex \in [Fields -> Threads \cup {NULL}]
  /\ call \in [Threads -> Calls \cup {NULL}]
  /\ pc \in [Threads -> {"idle", "choose", "check", "lock", "clear", "fill", "clean",
                         "unlock", "measure", "act"}]
  /\ view \in [Threads -> {"map", "repeated"}]
  /\ todo \in [Threads -> Seq(Fields)]
  /\ \A t \in Threads : pc[t] \in {"lock", "clear", "fill", "clean", "unlock"} =>
       todo[t] # << >> /\ (pc[t] # "lock" => mutex[Head(todo[t])] = t)

Init ==
  /\ field = [f \in Fields |-> [map |-> Empty, repeated |-> NULL, state |-> "MODIFIED_MAP"]]
  /\ mutex = [f \in Fields |-> NULL]
  /\ call = [t \in Threads |-> NULL]
  /\ pc = [t \in Threads |-> "idle"]
  /\ view = [t \in Threads |-> "map"]
  /\ todo = [t \in Threads |-> << >>]

Goto(t, label) == pc' = [pc EXCEPT ![t] = label]

(* What f is for its users. *)
Content(f) ==
  IF field[f].state = "MODIFIED_REPEATED" THEN AsMap(field[f].repeated) ELSE field[f].map

-----------------------------------------------------------------------------
(* The calls and how they start. *)

(* Deterministic serialisation is const for its callers, and changes state_: *)
(* it is only safe for a thread that has the message for itself.             *)
Const(c) == c.op \in {"GetMap", "ContainsMapKey", "GetRepeatedField", "SpaceUsed", "Serialize"}
Changes(c) == IF Const(c) THEN {} ELSE {c.on} \cup IF c.op \in {"Swap", "SwapField"} THEN {c.other} ELSE {}
Reads(c) == {c.on, c.other} \ ({NULL} \cup Changes(c))
MayCall(c) == \A t \in Threads : call[t] # NULL =>
  /\ Changes(c) \cap (Changes(call[t]) \cup Reads(call[t])) = {}
  /\ Reads(c) \cap Changes(call[t]) = {}

Size(r) == IF r.state = "MODIFIED_MAP" THEN Cardinality(DOMAIN r.map) ELSE Len(r.repeated)

(* What the users and the bounds ask of the field.  A Map that was got before *)
(* is written only while it is the authority (wire_format.cc:976-980).        *)
Fits(c) ==
  /\ c.op = "Append" => Size(field[c.on]) < MaxEntries
  /\ c.op \in {"SetEntry", "RemoveLast"} => Content(c.on) # Empty
  /\ c.op = "Write" => field[c.on].state = "MODIFIED_MAP"
  /\ c.op \in {"Clear", "MergeFrom", "Swap"} => c.on \notin DynamicFields
  /\ c.op \in {"MergeFrom", "Swap", "SwapField"} =>
       c.on # c.other /\ (c.on \in DynamicFields <=> c.other \in DynamicFields)

RepeatedCalls == {"GetRepeatedField", "Append", "SetEntry", "RemoveLast", "ClearEntries", "SwapField"}

(* Mutant: MergeFrom does not synchronise the field it merges from.          *)
SyncedAlone(c) == IF c.op \in {"Swap", "Write", "SpaceUsed"} THEN << >> ELSE <<c.on>>

(* The fields whose view a call asks for, in this order.                     *)
Synced(c) ==
  CASE c.op \in {"Swap", "Write", "SpaceUsed"} -> << >>
    [] c.op = "ContainsMapKey" -> IF c.on \in DynamicFields THEN <<c.on>> ELSE << >>
    [] c.op \in {"MergeFrom", "SwapField"} -> <<c.on, c.other>>
    [] OTHER -> <<c.on>>

Start(t, c) ==
  /\ pc[t] = "idle" /\ MayCall(c) /\ Fits(c)
  /\ call' = [call EXCEPT ![t] = c]
  /\ view' = [view EXCEPT ![t] = IF c.op \in RepeatedCalls THEN "repeated" ELSE "map"]
  /\ todo' = [todo EXCEPT ![t] = Synced(c)]
  /\ Goto(t, CASE c.op \in {"Serialize", "SerializeSorted"} -> "choose"
               [] c.op = "SpaceUsed" -> "measure"
               [] OTHER -> "check")
  /\ UNCHANGED <<field, mutex>>

(* SerializeFieldWithCachedSizes takes the map if IsMapValid.                *)
Choose(t) ==
  /\ pc[t] = "choose"
  /\ view' = [view EXCEPT ![t] =
       IF field[call[t].on].state # "MODIFIED_REPEATED" THEN "map" ELSE "repeated"]
  /\ Goto(t, "check")
  /\ UNCHANGED <<field, mutex, call, todo>>

-----------------------------------------------------------------------------
(* SyncMapWithRepeatedField and SyncRepeatedFieldWithMap. *)

Stale(f, v) == field[f].state = IF v = "map" THEN "MODIFIED_REPEATED" ELSE "MODIFIED_MAP"
Synchronised(t) == Goto(t, "check") /\ todo' = [todo EXCEPT ![t] = Tail(@)]

CheckState(t) ==
  /\ pc[t] = "check"
  /\ IF todo[t] = << >> THEN Goto(t, "act") /\ UNCHANGED todo
     ELSE IF Stale(Head(todo[t]), view[t]) THEN Goto(t, "lock") /\ UNCHANGED todo
     ELSE Synchronised(t)
  /\ UNCHANGED <<field, mutex, call, view>>

(* Mutant: the state is not checked again under the lock.                    *)
LockUnchecked(t) ==
  /\ pc[t] = "lock" /\ mutex[Head(todo[t])] = NULL
  /\ mutex' = [mutex EXCEPT ![Head(todo[t])] = t]
  /\ Goto(t, "clear")
  /\ UNCHANGED <<field, call, view, todo>>

(* Mutant: the state is checked again without the lock.                      *)
LockNot(t) ==
  /\ pc[t] = "lock" /\ mutex[Head(todo[t])] = NULL
  /\ Goto(t, IF Stale(Head(todo[t]), view[t]) THEN "clear" ELSE "unlock")
  /\ UNCHANGED <<field, mutex, call, view, todo>>

(* Another thread may have synchronised the field in the meantime.           *)
Lock(t) ==
  /\ pc[t] = "lock" /\ mutex[Head(todo[t])] = NULL
  /\ mutex' = [mutex EXCEPT ![Head(todo[t])] = t]
  /\ Goto(t, IF Stale(Head(todo[t]), view[t]) THEN "clear" ELSE "unlock")
  /\ UNCHANGED <<field, call, view, todo>>

(* The one that is synchronised, after it is allocated if it has to be, is   *)
(* empty for a while; then it is filled.                                     *)
ClearView(t) ==
  /\ pc[t] = "clear"
  /\ field' = [field EXCEPT ![Head(todo[t])] =
       IF view[t] = "map" THEN [@ EXCEPT !.map = Empty] ELSE [@ EXCEPT !.repeated = << >>]]
  /\ Goto(t, "fill")
  /\ UNCHANGED <<mutex, call, view, todo>>

FillView(t) ==
  /\ pc[t] = "fill"
  /\ LET f == Head(todo[t]) IN
     IF view[t] = "map"
       THEN field' = [field EXCEPT ![f].map = AsMap(field[f].repeated)]
       ELSE \E list \in ListsOf(field[f].map) : field' = [field EXCEPT ![f].repeated = list]
  /\ Goto(t, "clean")
  /\ UNCHANGED <<mutex, call, view, todo>>

(* Release_Store(&state_, CLEAN). *)
StoreClean(t) ==
  /\ pc[t] = "clean"
  /\ field' = [field EXCEPT ![Head(todo[t])].state = "CLEAN"]
  /\ Goto(t, "unlock")
  /\ UNCHANGED <<mutex, call, view, todo>>

(* Mutant: the mutex is kept. *)
KeepLock(t) ==
  /\ pc[t] = "unlock"
  /\ Synchronised(t)
  /\ UNCHANGED <<field, mutex, call, view>>

Unlock(t) ==
  /\ pc[t] = "unlock"
  /\ mutex' = [mutex EXCEPT ![Head(todo[t])] = NULL]
  /\ Synchronised(t)
  /\ UNCHANGED <<field, call, view>>

(* SpaceUsedExcludingSelfLong reads both representations under the lock.     *)
Measure(t) ==
  /\ pc[t] = "measure" /\ mutex[call[t].on] = NULL
  /\ mutex' = [mutex EXCEPT ![call[t].on] = t]
  /\ Goto(t, "act")
  /\ UNCHANGED <<field, call, view, todo>>

-----------------------------------------------------------------------------
(* What the calls do, with their view up to date; Map's operator[], clear,   *)
(* erase and the calls of RepeatedPtrField included.                         *)

MapWith(r, m) == [r EXCEPT !.map = m, !.state = "MODIFIED_MAP"]
RepeatedWith(r, list) == [r EXCEPT !.repeated = list, !.state = "MODIFIED_REPEATED"]

(* Mutant: a delete leaves the state as it is.                               *)
DeletedClean(c, r) == [r EXCEPT !.map = Without(r.map, c.key)]

(* DynamicMapField marks the map only if it deletes something.               *)
Deleted(c, r) ==
  IF c.on \in DynamicFields /\ c.key \notin DOMAIN r.map THEN r
  ELSE MapWith(r, Without(r.map, c.key))

(* The only field that c changes, r before: InsertOrLookupMapValue marks the *)
(* map even if it only looks up, and sorted serialisation calls it for all.  *)
Changed(t, c, r) ==
  CASE c.op = "Put" -> MapWith(r, With(r.map, c.key, c.value))
    [] c.op = "Write" -> [r EXCEPT !.map = With(r.map, c.key, c.value)]
    [] c.op = "InsertOrLookup" ->
         MapWith(r, IF c.key \in DOMAIN r.map THEN r.map ELSE With(r.map, c.key, DefaultValue))
    [] c.op = "Delete" -> Deleted(c, r)
    [] c.op = "Clear" -> MapWith(r, Empty)
    [] c.op = "MergeFrom" -> MapWith(r, Merged(r.map, field[c.other].map))
    [] c.op = "SerializeSorted" ->
         IF view[t] = "map" /\ r.map # Empty THEN MapWith(r, r.map) ELSE r
    [] c.op = "Append" -> RepeatedWith(r, Append(r.repeated, <<c.key, c.value>>))
    [] c.op = "RemoveLast" -> RepeatedWith(r, SubSeq(r.repeated, 1, Len(r.repeated) - 1))
    [] c.op = "ClearEntries" -> RepeatedWith(r, << >>)
    [] OTHER -> r

(* Mutant: Swap forgets the state.                                           *)
SwappedContainers(r, s) == [s EXCEPT !.state = r.state]

(* MapField::Swap exchanges all three of r and s; the Swap of reflection the *)
(* entries, after marking them.  This is what r becomes.                     *)
Swapped(r, s) == s

Effect(t, c) ==
  IF c.op = "SetEntry" THEN
    \E i \in DOMAIN field[c.on].repeated : field' =
      [field EXCEPT ![c.on] = RepeatedWith(@, [@.repeated EXCEPT ![i] = <<c.key, c.value>>])]
  ELSE field' =
       CASE c.op = "Swap" ->
              [field EXCEPT ![c.on] = Swapped(@, field[c.other]), ![c.other] = Swapped(@, field[c.on])]
         [] c.op = "SwapField" ->
              [field EXCEPT ![c.on] = RepeatedWith(@, field[c.other].repeated),
                            ![c.other] = RepeatedWith(@, field[c.on].repeated)]
         [] OTHER -> [field EXCEPT ![c.on] = Changed(t, c, @)]

Act(t) ==
  /\ pc[t] = "act"
  /\ Effect(t, call[t])
  /\ mutex' = IF call[t].op = "SpaceUsed" THEN [mutex EXCEPT ![call[t].on] = NULL] ELSE mutex
  /\ call' = [call EXCEPT ![t] = NULL]
  /\ view' = [view EXCEPT ![t] = "map"]
  /\ Goto(t, "idle")
  /\ UNCHANGED todo

Step(t) ==
  \/ Choose(t) \/ CheckState(t) \/ Lock(t) \/ ClearView(t) \/ FillView(t)
  \/ StoreClean(t) \/ Unlock(t) \/ Measure(t) \/ Act(t)

Next == \E t \in Threads : Step(t) \/ \E c \in Calls : Start(t, c)

(* A thread in a call goes on, and a mutex that is released again and again  *)
(* is got at some time.                                                      *)
Fairness == \A t \in Threads : WF_vars(Step(t)) /\ SF_vars(Lock(t)) /\ SF_vars(Measure(t))

Spec == Init /\ [][Next]_vars
FairSpec == Spec /\ Fairness

-----------------------------------------------------------------------------
(* A call that works on a representation finds in it what the users gave the *)
(* field, in whichever form, and so does a merge in the other field:         *)
(* map_field.h:76-83, "Data written using google::protobuf::Map's api prior  *)
(* to calling this function is guarantted to be included".                   *)
CallsSeeContent ==
  \A t \in Threads : pc[t] = "act" /\ call[t].op \notin {"SpaceUsed", "Swap", "Write"} =>
    \A f \in {call[t].on, call[t].other} \ {NULL} :
      IF view[t] = "map" THEN field[f].map = Content(f)
      ELSE field[f].repeated # NULL /\ AsMap(field[f].repeated) = Content(f)

(* state_ never says that a representation counts which is not there         *)
(* (GOOGLE_CHECK in map_field_inl.h), and CLEAN means that both are the same *)
(* (map_field.h:136).                                                        *)
CleanIsSame ==
  \A f \in Fields : field[f].state # "MODIFIED_MAP" =>
    /\ field[f].repeated # NULL
    /\ field[f].state = "CLEAN" => AsMap(field[f].repeated) = field[f].map

(* What t reads and writes now: <<field, representation>>.                   *)
Both(fs) == fs \X {"map", "repeated"}
Writes(t) ==
  CASE pc[t] \in {"clear", "fill"} -> {<<Head(todo[t]), view[t]>>}
    [] pc[t] = "act" -> Both(Changes(call[t]))
    [] OTHER -> {}
Accesses(t) ==
  CASE pc[t] \in {"clear", "fill"} -> Both({Head(todo[t])})
    [] pc[t] = "act" -> Writes(t) \cup
         (IF call[t].op = "SpaceUsed" THEN Both({call[t].on})
          ELSE ({call[t].on, call[t].other} \ {NULL}) \X {view[t]})
    [] OTHER -> {}

(* Nobody reads a Map or a RepeatedPtrField, or keeps the reference a const  *)
(* call returned, while another thread clears or fills it: const calls are   *)
(* safe to run at once although they convert the field.                      *)
NoConflict == \A t, u \in Threads : t # u => Writes(t) \cap Accesses(u) = {}

(* A map field is one map, whichever calls were made on it by whom.          *)
Map == INSTANCE SharedMap WITH
  content <- [f \in Fields |-> Content(f)],
  pending <- call
Implements == Map!Spec

(* Every call ends: no mutex is kept, also when a field was synchronised     *)
(* twice, and none is asked for twice.                                       *)
EveryCallReturns == \A t \in Threads : pc[t] # "idle" ~> pc[t] = "idle"
=============================================================================
