--------------------------- MODULE MessageRegistry ---------------------------
(***************************************************************************)
(* GeneratedMessageFactory (message.cc), composed with the once objects of   *)
(* the generated files it registers: AddDescriptors of a file enters it in    *)
(* file_map_, and the first GetPrototype of one of its types runs the file's  *)
(* registration function under mutex_, which in turn waits for the file's    *)
(* protobuf_AssignDescriptorsOnce.                                           *)
(***************************************************************************)
EXTENDS OnceInit

CONSTANTS
  Files,    (* The generated files.                                        *)
  TypesOf,  (* TypesOf[f]: the message types of file f.                    *)
  addOf,    (* addOf[f], assignOf[f]: the once objects of f's              *)
  assignOf, (* AddDescriptors and protobuf_AssignDescriptorsOnce.          *)
  factory,  (* The once object of the factory itself.                      *)
  NULL

ASSUME FilesAssumption ==
  /\ addOf \in [Files -> Onces] /\ assignOf \in [Files -> Onces] /\ factory \in Onces
  /\ \A f \in Files : Len(Calls[addOf[f]]) >= 3 /\ Calls[addOf[f]][3] = factory
  /\ \A f, g \in Files : f # g => TypesOf[f] \cap TypesOf[g] = {}
  /\ NULL \notin Threads \cup UNION {TypesOf[f] : f \in Files}

VARIABLES
  file_map,  (* The files that can be registered, *)
  type_map,  (* the types that are.               *)
  mutex,     (* The thread that holds mutex_, or NULL.                      *)
  type,      (* type[t]: the type t asks the prototype of, or NULL,         *)
  at         (* at[t]: where t is in GetPrototype.                          *)

registry == <<file_map, type_map, mutex, type, at>>
allVars == <<vars, registry>>

Types == UNION {TypesOf[f] : f \in Files}
FileOf(d) == CHOOSE f \in Files : d \in TypesOf[f]

RegistryInit ==
  /\ Init
  /\ file_map = {} /\ type_map = {}
  /\ mutex = NULL
  /\ type = [t \in Threads |-> NULL]
  /\ at = [t \in Threads |-> "none"]

Move(t, label) == at' = [at EXCEPT ![t] = label]
Answer(t) == type' = [type EXCEPT ![t] = NULL] /\ Move(t, "none")

(* Any other use of the library: a static initialiser, descriptor(), ...     *)
UseLibrary(t, o) == type[t] = NULL /\ Call(t, o) /\ UNCHANGED registry

(* The code of AddDescriptorsImpl after generated_factory() has returned:    *)
(* RegisterFile.                                                            *)
RegistersFile(t) == {f \in Files : pc[t] = "closure" /\ Current(t) = addOf[f] /\ Top(t).next = 4}

OnceStep(t) ==
  /\ Step(t)
  /\ file_map' = file_map \cup RegistersFile(t)
  /\ UNCHANGED <<type_map, mutex, type, at>>

(* GetPrototype, after the static initialisers have entered the files:       *)
(* generated_factory() comes first.                                          *)
GetPrototype(t, d) ==
  /\ type[t] = NULL
  /\ \A f \in Files : once[addOf[f]] = DONE
  /\ Call(t, factory)
  /\ type' = [type EXCEPT ![t] = d]
  /\ Move(t, "find")
  /\ UNCHANGED <<file_map, type_map, mutex>>

(* ReaderMutexLock is an ordinary lock (stubs/mutex.h); it is held for one   *)
(* look at type_map_.                                                        *)
FindType(t) ==
  /\ at[t] = "find" /\ pc[t] = "idle" /\ mutex = NULL
  /\ IF type[t] \in type_map THEN Answer(t) ELSE Move(t, "file") /\ UNCHANGED type
  /\ UNCHANGED <<vars, file_map, type_map, mutex>>

(* file_map_ is read without the lock; a file that is not in it has no       *)
(* prototypes.                                                               *)
FindFile(t) ==
  /\ at[t] = "file"
  /\ IF FileOf(type[t]) \in file_map THEN Move(t, "lock") /\ UNCHANGED type ELSE Answer(t)
  /\ UNCHANGED <<vars, file_map, type_map, mutex>>

Lock(t) ==
  /\ at[t] = "lock" /\ mutex = NULL
  /\ mutex' = t
  /\ Move(t, "check")
  /\ UNCHANGED <<vars, file_map, type_map, type>>

(* Mutant: another thread may have registered the file.                      *)
NoCheckAgain(t) ==
  /\ at[t] = "check"
  /\ Call(t, assignOf[FileOf(type[t])]) /\ Move(t, "register")
  /\ UNCHANGED <<file_map, type_map, mutex, type>>

(* Mutant: the types are registered before their reflection is there.        *)
RegisterAtOnce(t) ==
  /\ at[t] = "check"
  /\ Move(t, IF type[t] \in type_map THEN "unlock" ELSE "register")
  /\ UNCHANGED <<vars, file_map, type_map, mutex, type>>

(* "Check if another thread preempted us"; if not, the registration function *)
(* starts with protobuf_AssignDescriptorsOnce.                               *)
CheckAgain(t) ==
  /\ at[t] = "check"
  /\ IF type[t] \in type_map
       THEN Move(t, "unlock") /\ UNCHANGED vars
       ELSE Call(t, assignOf[FileOf(type[t])]) /\ Move(t, "register")
  /\ UNCHANGED <<file_map, type_map, mutex, type>>

(* RegisterAllTypes. *)
RegisterTypes(t) ==
  /\ at[t] = "register" /\ pc[t] = "idle"
  /\ type_map' = type_map \cup TypesOf[FileOf(type[t])]
  /\ Move(t, "unlock")
  /\ UNCHANGED <<vars, file_map, mutex, type>>

(* Mutant: the lock is kept. *)
KeepMutex(t) ==
  /\ at[t] = "unlock"
  /\ Answer(t)
  /\ UNCHANGED <<vars, file_map, type_map, mutex>>

Unlock(t) ==
  /\ at[t] = "unlock"
  /\ mutex' = NULL
  /\ Answer(t)
  /\ UNCHANGED <<vars, file_map, type_map>>

LookupStep(t) == FindType(t) \/ FindFile(t) \/ Lock(t) \/ CheckAgain(t) \/ RegisterTypes(t) \/ Unlock(t)

RegistryNext == \E t \in Threads :
  \/ \E o \in Onces : UseLibrary(t, o)
  \/ \E d \in Types : GetPrototype(t, d)
  \/ OnceStep(t)
  \/ LookupStep(t)

(* Threads are scheduled, and a mutex that becomes free again and again is   *)
(* got at some time.                                                         *)
RegistryFairness == \A t \in Threads :
  /\ WF_allVars(OnceStep(t)) /\ WF_allVars(LookupStep(t))
  /\ SF_allVars(FindType(t)) /\ SF_allVars(Lock(t))

RegistrySpec == RegistryInit /\ [][RegistryNext]_allVars /\ RegistryFairness

-----------------------------------------------------------------------------
(* No type is registered twice, although every thread that misses it goes on *)
(* to register its file: "Type is already registered" is fatal in a debug    *)
(* build (message.cc:322-324).                                               *)
NoTypeTwice ==
  \A t \in Threads : at[t] = "register" /\ pc[t] = "idle" =>
    TypesOf[FileOf(type[t])] \cap type_map = {}

(* GetPrototype of a generated type never answers NULL, and the descriptors  *)
(* and the reflection of the prototype are there when it answers.            *)
PrototypeReady ==
  [][\A t \in Threads : type[t] # NULL /\ type'[t] = NULL =>
       type[t] \in type_map /\ initialized[assignOf[FileOf(type[t])]] = 1]_allVars

(* Every lookup is answered: the thread that registers a file holds mutex_   *)
(* while it waits for a once object whose closure another thread runs, and   *)
(* that thread never waits for mutex_.                                       *)
EveryLookupReturns == \A t \in Threads : type[t] # NULL ~> type[t] = NULL
=============================================================================
