---------------------------- MODULE DescriptorPool ----------------------------
(***************************************************************************)
(* DescriptorPool and DescriptorBuilder (descriptor.cc): a pool builds the   *)
(* descriptors of a file when somebody looks for the file, for a symbol in   *)
(* it or for an extension, and the build looks for other files and symbols,  *)
(* so builds nest; each runs under a checkpoint of the pool's tables, which   *)
(* is cleared when the build succeeds and rolled back when it fails.         *)
(*                                                                          *)
(* A file defines one symbol, a message named as the file, has at most one    *)
(* field of a message type and at most one extension, whose number is the     *)
(* file's.  The pool's mutex is held for the whole of a call, so there is one *)
(* call at a time.                                                          *)
(***************************************************************************)
EXTENDS Naturals, Sequences, FiniteSets, SequencesExt

CONSTANTS
  File,       (* The names of files, and of the messages they define.       *)
  Clash,      (* The name of a message several files may define.            *)
  Databases,  (* What the FileDescriptorProtos may be (see DatabaseType).    *)
  NULL

Symbol == File \cup {Clash}

(* How the pool gets its files: from a fallback database, from one in a pool *)
(* that builds imports lazily (the generated pool), or by BuildFile.         *)
DATABASE == "database"
LAZY     == "lazy"
DIRECT   == "direct"

DatabaseType ==
  [mode     : {DATABASE, LAZY, DIRECT},
   protos   : SUBSET File,                    (* The files there are.        *)
   invalid  : SUBSET File,                    (* Those with an error.        *)
   imports  : [File -> SUBSET File],
   public   : [File -> SUBSET File],          (* Those imported publicly.    *)
   type     : [File -> File \cup {NULL}],     (* The type of the field.      *)
   extendee : [File -> File \cup {NULL}],     (* What the extension extends. *)
   clash    : SUBSET File,                    (* The files that define Clash *)
   index    : [Symbol -> File \cup {NULL}]]   (* FindFileContainingSymbol.   *)

Ops == {"BuildFile", "BuildOther", "FindFileByName", "FindSymbol", "message_type",
        "FindExtensionByNumber", "FindAllExtensions"}
Calls ==
  [op : Ops, name : Symbol \cup (File \X File), at : {"look", "numbers", "answer"},
   left : SUBSET File]

ASSUME DatabasesAssumption ==
  /\ NULL \notin Symbol \cup Calls /\ Clash \notin File
  /\ \A d \in Databases : d \in DatabaseType /\ \A f \in File : d.public[f] \subseteq d.imports[f]

(* A pool that builds imports lazily is for files that protoc has compiled:   *)
(* "no descriptor build errors are guaranteed" (descriptor.h:1670-1676).      *)
ASSUME LazyAssumption ==
  \A d \in Databases : d.mode = LAZY =>
    /\ d.invalid = {} /\ d.clash = {}
    /\ \A f \in d.protos :
         /\ d.index[f] = f /\ f \notin d.imports[f]
         /\ {d.type[f], d.extendee[f]} \subseteq d.protos \cup {NULL}

VARIABLES
  db,                  (* The database, which does not change.              *)
  files_by_name_,      (* The tables: the files, *)
  symbols_by_name_,    (* the file that defines a symbol, or NULL, *)
  extensions_,         (* and the <<extendee, number>>s.                     *)
  files_after_checkpoint_,
  symbols_after_checkpoint_,
  extensions_after_checkpoint_,
  checkpoints_,        (* The sizes of these three at each checkpoint.       *)
  finished_building_,  (* The files that are built.                         *)
  type_once_,          (* The files whose field is to be linked on demand,   *)
  message_type_,       (* and what a file's field is linked to.              *)
  pending_files_,      (* The files whose imports are being loaded.          *)
  known_bad_files_,
  known_bad_symbols_,
  extensions_loaded_from_db_,
  builders,            (* The DescriptorBuilders at work, innermost last.    *)
  call,                (* The call of the user, or NULL,                     *)
  result,              (* what its BuildFile returned, *)
  given                (* and the files it may keep pointers to.             *)

after == <<files_after_checkpoint_, symbols_after_checkpoint_, extensions_after_checkpoint_>>
entries == <<files_by_name_, symbols_by_name_, extensions_>>
bad == <<known_bad_files_, known_bad_symbols_>>
links == <<finished_building_, type_once_, message_type_>>
tables == <<entries, after, checkpoints_, links>>
user == <<call, result, given>>
vars == <<db, tables, pending_files_, bad, extensions_loaded_from_db_, builders, user>>

Init ==
  /\ db \in Databases
  /\ files_by_name_ = {} /\ symbols_by_name_ = [s \in Symbol |-> NULL] /\ extensions_ = {}
  /\ files_after_checkpoint_ = << >> /\ symbols_after_checkpoint_ = << >>
  /\ extensions_after_checkpoint_ = << >> /\ checkpoints_ = << >>
  /\ finished_building_ = {} /\ type_once_ = {} /\ message_type_ = [f \in File |-> NULL]
  /\ pending_files_ = << >>
  /\ known_bad_files_ = {} /\ known_bad_symbols_ = {}
  /\ extensions_loaded_from_db_ = {}
  /\ builders = << >>
  /\ call = NULL /\ result = NULL /\ given = {}

-----------------------------------------------------------------------------
(* The tables.                                                              *)

Checkpoint ==
  [files |-> Len(files_after_checkpoint_), symbols |-> Len(symbols_after_checkpoint_),
   extensions |-> Len(extensions_after_checkpoint_)]

Since(s, n) == ToSet(SubSeq(s, n + 1, Len(s)))
Before(s, n) == SubSeq(s, 1, n)

CommitAll ==
  /\ files_after_checkpoint_' = << >>
  /\ symbols_after_checkpoint_' = << >>
  /\ extensions_after_checkpoint_' = << >>

(* Mutant: a checkpoint that is cleared commits what came after it, although *)
(* another checkpoint is below it.                                          *)
CommitAtOnce ==
  /\ checkpoints_' = Front(checkpoints_)
  /\ CommitAll

ClearLastCheckpoint ==
  /\ checkpoints_' = Front(checkpoints_)
  /\ IF Len(checkpoints_) = 1 THEN CommitAll ELSE UNCHANGED after

(* Mutant: the extensions are left in their table.                           *)
NoExtensions == {}

RemovedExtensions == Since(extensions_after_checkpoint_, Last(checkpoints_).extensions)

(* What was added since the last checkpoint is removed and freed.            *)
RollbackToLastCheckpoint ==
  LET last == Last(checkpoints_)
      files == Since(files_after_checkpoint_, last.files)
      symbols == Since(symbols_after_checkpoint_, last.symbols)
  IN /\ files_by_name_' = files_by_name_ \ files
     /\ symbols_by_name_' = [s \in Symbol |-> IF s \in symbols THEN NULL ELSE symbols_by_name_[s]]
     /\ extensions_' = extensions_ \ RemovedExtensions
     /\ files_after_checkpoint_' = Before(files_after_checkpoint_, last.files)
     /\ symbols_after_checkpoint_' = Before(symbols_after_checkpoint_, last.symbols)
     /\ extensions_after_checkpoint_' = Before(extensions_after_checkpoint_, last.extensions)
     /\ checkpoints_' = Front(checkpoints_)
     /\ finished_building_' = finished_building_ \ files
     /\ type_once_' = type_once_ \ files
     /\ message_type_' = [f \in File |-> IF f \in files THEN NULL ELSE message_type_[f]]

-----------------------------------------------------------------------------
(* Looking for a file in the database.                                      *)

Builder(f) == [file |-> f, at |-> "enter", left |-> {}, errors |-> FALSE]
Top == Last(builders)
Goes(label) == [Top EXCEPT !.at = label]
Errs(label) == [Top EXCEPT !.at = label, !.errors = TRUE]
SetTop(b) == [builders EXCEPT ![Len(builders)] = b]

(* TryFindFileInFallbackDatabase and BuildFileFromDatabase, up to the call   *)
(* of DescriptorBuilder::BuildFile; stack is the builders at work.           *)
TryFile(f, stack) ==
  IF f \in known_bad_files_ \/ db.mode = DIRECT
    THEN builders' = stack /\ UNCHANGED bad
    ELSE IF f \in db.protos
      THEN builders' = Append(stack, Builder(f)) /\ UNCHANGED bad
      ELSE /\ builders' = stack
           /\ known_bad_files_' = known_bad_files_ \cup {f}
           /\ UNCHANGED known_bad_symbols_

(* TryFindSymbolInFallbackDatabase, which may answer with a file that does   *)
(* not define s, or that is built already.                                  *)
TrySymbol(s, stack) ==
  LET f == db.index[s] IN
  IF s \in known_bad_symbols_ \/ db.mode = DIRECT
    THEN builders' = stack /\ UNCHANGED bad
    ELSE IF f \in db.protos \ (files_by_name_ \cup known_bad_files_)
      THEN builders' = Append(stack, Builder(f)) /\ UNCHANGED bad
      ELSE /\ builders' = stack
           /\ known_bad_symbols_' = known_bad_symbols_ \cup {s}
           /\ UNCHANGED known_bad_files_

(* The symbol whose lookup made the innermost builder start.                 *)
SymbolSought ==
  IF Len(builders) = 1
    THEN IF call.op \in {"FindSymbol", "message_type"} THEN {call.name} ELSE {}
    ELSE LET caller == builders[Len(builders) - 1] IN
         CASE caller.at = "typed"    -> {db.type[caller.file]}
           [] caller.at = "extended" -> {db.extendee[caller.file]}
           [] OTHER                  -> {}

(* DescriptorBuilder::BuildFile returns r, a file or NULL.                   *)
Return(r) ==
  /\ builders' = Front(builders)
  /\ result' = r
  /\ IF r # NULL \/ db.mode = DIRECT
       THEN UNCHANGED bad
       ELSE /\ known_bad_files_' = known_bad_files_ \cup {Top.file}
            /\ known_bad_symbols_' = known_bad_symbols_ \cup SymbolSought
  /\ UNCHANGED <<call, given>>

-----------------------------------------------------------------------------
(* DescriptorBuilder: one action per part of BuildFile, all of them of the   *)
(* innermost builder.                                                       *)

At(label) == builders # << >> /\ Top.at = label

(* Mutant: a file that is being built is built again.                       *)
EnterAgain ==
  /\ At("enter")
  /\ pending_files_' = Append(pending_files_, Top.file)
  /\ builders' = SetTop([Goes("imports") EXCEPT !.left = db.imports[Top.file]])
  /\ UNCHANGED <<db, tables, bad, extensions_loaded_from_db_, user>>

(* The file exists with the same contents; or its imports are being loaded;  *)
(* or they are to be loaded now, before the checkpoint.                      *)
Enter ==
  /\ At("enter")
  /\ LET f == Top.file IN
     IF f \in files_by_name_ /\ call.op # "BuildOther"
       THEN Return(f) /\ UNCHANGED pending_files_
       ELSE IF f \in ToSet(pending_files_)
         THEN Return(NULL) /\ UNCHANGED pending_files_
         ELSE /\ IF db.mode = DATABASE
                   THEN /\ pending_files_' = Append(pending_files_, f)
                        /\ builders' = SetTop([Goes("imports") EXCEPT !.left = db.imports[f]])
                   ELSE /\ builders' = SetTop(Goes("add"))
                        /\ UNCHANGED pending_files_
              /\ UNCHANGED <<bad, user>>
  /\ UNCHANGED <<db, tables, extensions_loaded_from_db_>>

(* Mutant: the loop does not get to the next import.                         *)
LoadImportForEver ==
  /\ At("imports")
  /\ \E f \in Top.left :
       IF f \in files_by_name_
         THEN builders' = builders /\ UNCHANGED bad
         ELSE TryFile(f, builders)
  /\ UNCHANGED <<db, tables, pending_files_, extensions_loaded_from_db_, user>>

LoadImport ==
  /\ At("imports")
  /\ \E f \in Top.left :
       LET stack == SetTop([Top EXCEPT !.left = @ \ {f}]) IN
       IF f \in files_by_name_
         THEN builders' = stack /\ UNCHANGED bad
         ELSE TryFile(f, stack)
  /\ UNCHANGED <<db, tables, pending_files_, extensions_loaded_from_db_, user>>

ImportsLoaded ==
  /\ At("imports") /\ Top.left = {}
  /\ pending_files_' = Front(pending_files_)
  /\ builders' = SetTop(Goes("add"))
  /\ UNCHANGED <<db, tables, bad, extensions_loaded_from_db_, user>>

Defines(f) == {f} \cup IF f \in db.clash THEN {Clash} ELSE {}

(* A file of this name is in the pool with other contents, or the file       *)
(* imports itself: the new checkpoint is rolled back at once.                *)
Hopeless(f) == f \in files_by_name_ \/ f \in db.imports[f]

(* Mutant: AddFile records the file although it was not inserted, and the      *)
(* rollback takes the file of before out of the table.                       *)
AbandonRecorded ==
  /\ At("add") /\ Hopeless(Top.file)
  /\ Return(NULL)
  /\ files_by_name_' = files_by_name_ \ {Top.file}
  /\ UNCHANGED <<db, symbols_by_name_, extensions_, after, checkpoints_, links, pending_files_,
                 extensions_loaded_from_db_>>

Abandon ==
  /\ At("add") /\ Hopeless(Top.file)
  /\ Return(NULL)
  /\ UNCHANGED <<db, tables, pending_files_, extensions_loaded_from_db_>>

(* Mutant: a file whose import could not be built is built without it.       *)
AddWithoutImports ==
  /\ At("add") /\ ~ Hopeless(Top.file)
  /\ LET f == Top.file
         new == {s \in Defines(f) : symbols_by_name_[s] = NULL}
     IN /\ checkpoints_' = Append(checkpoints_, Checkpoint)
        /\ files_by_name_' = files_by_name_ \cup {f}
        /\ files_after_checkpoint_' = Append(files_after_checkpoint_, f)
        /\ symbols_by_name_' = [s \in Symbol |-> IF s \in new THEN f ELSE symbols_by_name_[s]]
        /\ symbols_after_checkpoint_' = symbols_after_checkpoint_ \o SetToSeq(new)
        /\ builders' = SetTop([Goes("type") EXCEPT !.errors =
             new # Defines(f) \/ f \in db.invalid])
  /\ UNCHANGED <<db, extensions_, extensions_after_checkpoint_, links, pending_files_, bad,
                 extensions_loaded_from_db_, user>>

(* BuildFileImpl up to cross-linking: the checkpoint, the file, its imports  *)
(* and its symbols.                                                         *)
Add ==
  /\ At("add") /\ ~ Hopeless(Top.file)
  /\ LET f == Top.file
         new == {s \in Defines(f) : symbols_by_name_[s] = NULL}
     IN /\ checkpoints_' = Append(checkpoints_, Checkpoint)
        /\ files_by_name_' = files_by_name_ \cup {f}
        /\ files_after_checkpoint_' = Append(files_after_checkpoint_, f)
        /\ symbols_by_name_' = [s \in Symbol |-> IF s \in new THEN f ELSE symbols_by_name_[s]]
        /\ symbols_after_checkpoint_' = symbols_after_checkpoint_ \o SetToSeq(new)
        /\ builders' = SetTop([Goes("type") EXCEPT !.errors =
             \/ new # Defines(f) \/ f \in db.invalid
             \/ db.mode # LAZY /\ ~ db.imports[f] \subseteq files_by_name_])
  /\ UNCHANGED <<db, extensions_, extensions_after_checkpoint_, links, pending_files_, bad,
                 extensions_loaded_from_db_, user>>

(* The smallest set with the imports of f and what those import publicly:    *)
(* RecordPublicDependencies.                                                *)
Dependencies(f) ==
  {g \in File : \A G \in SUBSET File :
     db.imports[f] \subseteq G /\ (\A h \in G : db.public[h] \subseteq G) => g \in G}

(* FindSymbol: found, and in a file that f may use.                          *)
MayUse(f, s) ==
  /\ symbols_by_name_[s] # NULL
  /\ db.mode # LAZY => symbols_by_name_[s] \in {f} \cup Dependencies(f)

(* CrossLinkField of the field: its type is looked for, or left for later.   *)
LinkType ==
  /\ At("type")
  /\ LET f == Top.file
         s == db.type[f]
     IN \/ /\ s = NULL
           /\ builders' = SetTop(Goes("extendee"))
           /\ UNCHANGED <<type_once_, bad>>
        \/ /\ s # NULL /\ symbols_by_name_[s] # NULL
           /\ builders' = SetTop(Goes("typed"))
           /\ UNCHANGED <<type_once_, bad>>
        \/ /\ s # NULL /\ symbols_by_name_[s] = NULL /\ db.mode = LAZY
           /\ type_once_' = type_once_ \cup {f}
           /\ builders' = SetTop(Goes("extendee"))
           /\ UNCHANGED bad
        \/ /\ s # NULL /\ symbols_by_name_[s] = NULL /\ db.mode # LAZY
           /\ TrySymbol(s, SetTop(Goes("typed")))
           /\ UNCHANGED type_once_
  /\ UNCHANGED <<db, entries, after, checkpoints_, finished_building_, message_type_,
                 pending_files_, extensions_loaded_from_db_, user>>

SetType ==
  /\ At("typed")
  /\ LET f == Top.file
         s == db.type[f]
     IN IF MayUse(f, s)
          THEN /\ message_type_' = [message_type_ EXCEPT ![f] = symbols_by_name_[s]]
               /\ builders' = SetTop(Goes("extendee"))
          ELSE /\ builders' = SetTop(Errs("extendee"))
               /\ UNCHANGED message_type_
  /\ UNCHANGED <<db, entries, after, checkpoints_, finished_building_, type_once_,
                 pending_files_, bad, extensions_loaded_from_db_, user>>

(* CrossLinkField of the extension: the extendee is built even in a lazy     *)
(* pool.                                                                    *)
LinkExtendee ==
  /\ At("extendee")
  /\ LET s == db.extendee[Top.file] IN
     IF s = NULL
       THEN builders' = SetTop(Goes("finish")) /\ UNCHANGED bad
       ELSE IF symbols_by_name_[s] # NULL
         THEN builders' = SetTop(Goes("extended")) /\ UNCHANGED bad
         ELSE TrySymbol(s, SetTop(Goes("extended")))
  /\ UNCHANGED <<db, tables, pending_files_, extensions_loaded_from_db_, user>>

AddExtension ==
  /\ At("extended")
  /\ LET f == Top.file
         key == <<db.extendee[f], f>>
     IN IF MayUse(f, key[1])
          THEN /\ extensions_' = extensions_ \cup {key}
               /\ extensions_after_checkpoint_' = Append(extensions_after_checkpoint_, key)
               /\ builders' = SetTop(Goes("finish"))
          ELSE /\ builders' = SetTop(Errs("finish"))
               /\ UNCHANGED <<extensions_, extensions_after_checkpoint_>>
  /\ UNCHANGED <<db, files_by_name_, symbols_by_name_, files_after_checkpoint_,
                 symbols_after_checkpoint_, checkpoints_, links, pending_files_, bad,
                 extensions_loaded_from_db_, user>>

Finish ==
  /\ At("finish")
  /\ IF Top.errors
       THEN RollbackToLastCheckpoint /\ Return(NULL)
       ELSE /\ ClearLastCheckpoint
            /\ finished_building_' = finished_building_ \cup {Top.file}
            /\ Return(Top.file)
            /\ UNCHANGED <<entries, type_once_, message_type_>>
  /\ UNCHANGED <<db, pending_files_, extensions_loaded_from_db_>>

Build ==
  \/ Enter \/ LoadImport \/ ImportsLoaded \/ Abandon \/ Add
  \/ LinkType \/ SetType \/ LinkExtendee \/ AddExtension \/ Finish

-----------------------------------------------------------------------------
(* The calls of the user.                                                   *)

Call(op, name) ==
  /\ call = NULL
  /\ call' = [op |-> op, name |-> name, at |-> "look", left |-> {}]
  /\ known_bad_files_' = {} /\ known_bad_symbols_' = {}
  /\ UNCHANGED <<db, tables, pending_files_, extensions_loaded_from_db_, builders, result, given>>

(* BuildFile, of the database's file or of one of that name with other       *)
(* contents, is for a pool without a database.                              *)
CallBuildFile(f) == db.mode = DIRECT /\ f \in db.protos /\ Call("BuildFile", f)
CallBuildOther(f) == db.mode = DIRECT /\ f \in given /\ Call("BuildOther", f)
CallFindFileByName(f) == Call("FindFileByName", f)

(* Find*ByName and FindFileContainingSymbol.                                 *)
CallFindSymbol(s) == Call("FindSymbol", s)

(* message_type() of a field whose type was left for later.                  *)
CallMessageType(f) == f \in given \cap type_once_ /\ Call("message_type", db.type[f])

(* The user has the descriptor of the message.                              *)
CallFindExtensionByNumber(s, n) ==
  symbols_by_name_[s] \in given /\ Call("FindExtensionByNumber", <<s, n>>)
CallFindAllExtensions(s) == symbols_by_name_[s] \in given /\ Call("FindAllExtensions", s)

(* TryFindExtensionInFallbackDatabase.                                       *)
TryExtension(s, n) ==
  builders' =
    IF /\ db.mode # DIRECT /\ db.extendee[n] = s
       /\ n \in db.protos \ (files_by_name_ \cup known_bad_files_)
      THEN <<Builder(n)>> ELSE << >>

CallGoes(label, left) == call' = [call EXCEPT !.at = label, !.left = left]

(* The call looks into the tables, then into the database.                   *)
Look ==
  /\ call # NULL /\ call.at = "look"
  /\ LET s == call.name
         Found == builders' = << >> /\ UNCHANGED bad
     IN \/ /\ call.op \in {"BuildFile", "BuildOther"}
           /\ builders' = <<Builder(s)>>
           /\ CallGoes("answer", {}) /\ UNCHANGED bad
        \/ /\ call.op = "FindFileByName"
           /\ IF s \in files_by_name_ THEN Found ELSE TryFile(s, << >>)
           /\ CallGoes("answer", {})
        \/ /\ call.op \in {"FindSymbol", "message_type"}
           /\ IF symbols_by_name_[s] # NULL THEN Found ELSE TrySymbol(s, << >>)
           /\ CallGoes("answer", {})
        \/ /\ call.op = "FindExtensionByNumber"
           /\ IF s \in extensions_ THEN Found ELSE TryExtension(s[1], s[2]) /\ UNCHANGED bad
           /\ CallGoes("answer", {})
        \/ /\ call.op = "FindAllExtensions"
           /\ Found
           /\ IF db.mode = DIRECT \/ s \in extensions_loaded_from_db_
                THEN CallGoes("answer", {})
                ELSE CallGoes("numbers", {n \in db.protos : db.extendee[n] = s})
  /\ UNCHANGED <<db, tables, pending_files_, extensions_loaded_from_db_, result, given>>

(* FindAllExtensions goes through the numbers the database has.              *)
NextNumber ==
  /\ call # NULL /\ call.at = "numbers" /\ builders = << >>
  /\ \/ /\ \E n \in call.left :
             /\ CallGoes("numbers", call.left \ {n})
             /\ IF <<call.name, n>> \in extensions_
                  THEN builders' = << >>
                  ELSE TryExtension(call.name, n)
        /\ UNCHANGED extensions_loaded_from_db_
     \/ /\ call.left = {}
        /\ extensions_loaded_from_db_' = extensions_loaded_from_db_ \cup {call.name}
        /\ CallGoes("answer", {})
        /\ UNCHANGED builders
  /\ UNCHANGED <<db, tables, pending_files_, bad, result, given>>

(* The call returns; message_type() keeps what it found.                     *)
Answer ==
  /\ call # NULL /\ call.at = "answer" /\ builders = << >>
  /\ IF call.op = "message_type"
       THEN LET linked == {f \in given \cap type_once_ : db.type[f] = call.name} IN
            \E f \in linked :
              /\ message_type_' = [message_type_ EXCEPT ![f] = symbols_by_name_[call.name]]
              /\ type_once_' = type_once_ \ {f}
       ELSE UNCHANGED <<message_type_, type_once_>>
  /\ call' = NULL /\ result' = NULL /\ given' = finished_building_
  /\ UNCHANGED <<db, entries, after, checkpoints_, finished_building_, pending_files_, bad,
                 extensions_loaded_from_db_, builders>>

Step == Build \/ Look \/ NextNumber \/ Answer

Next ==
  \/ \E f \in File :
       \/ CallBuildFile(f) \/ CallBuildOther(f) \/ CallFindFileByName(f) \/ CallMessageType(f)
       \/ CallFindAllExtensions(f)
       \/ \E n \in File : CallFindExtensionByNumber(f, n)
  \/ \E s \in Symbol : CallFindSymbol(s)
  \/ Step

Spec == Init /\ [][Next]_vars

(* The thread that made the call goes on.                                   *)
FairSpec == Spec /\ WF_vars(Step)

-----------------------------------------------------------------------------
TypeOK ==
  /\ db \in DatabaseType
  /\ files_by_name_ \subseteq File
  /\ symbols_by_name_ \in [Symbol -> File \cup {NULL}]
  /\ extensions_ \subseteq File \X File
  /\ finished_building_ \subseteq files_by_name_
  /\ type_once_ \subseteq files_by_name_
  /\ message_type_ \in [File -> File \cup {NULL}]
  /\ \A i \in DOMAIN builders :
       builders[i] \in [file : File, left : SUBSET File, errors : BOOLEAN,
         at : {"enter", "imports", "add", "type", "typed", "extendee", "extended", "finish"}]
  /\ call \in Calls \cup {NULL}

(* Every entry of the tables belongs to a file of the tables, and a file     *)
(* that is built has all of its entries, although its build ran between      *)
(* the entries of the builds around it, and some of those are removed when   *)
(* they fail.                                                               *)
TablesConsistent ==
  /\ \A s \in Symbol : symbols_by_name_[s] # NULL =>
       symbols_by_name_[s] \in files_by_name_ /\ s \in Defines(symbols_by_name_[s])
  /\ \A key \in extensions_ : key[2] \in files_by_name_
  /\ \A f \in finished_building_ :
       /\ \A s \in Defines(f) : symbols_by_name_[s] = f
       /\ db.mode # LAZY => db.imports[f] \subseteq files_by_name_
       /\ db.type[f] # NULL /\ f \notin type_once_ => message_type_[f] \in files_by_name_
       /\ db.extendee[f] # NULL => <<db.extendee[f], f>> \in extensions_

(* What a call leaves behind: no checkpoint, no file half built or still     *)
(* pending; and no call takes back a file that a call before it may have     *)
(* returned, not even for a moment: the user keeps pointers into it.         *)
NothingLeftBehind ==
  /\ given \subseteq finished_building_
  /\ call = NULL =>
       /\ checkpoints_ = << >> /\ pending_files_ = << >>
       /\ files_after_checkpoint_ = << >> /\ symbols_after_checkpoint_ = << >>
       /\ extensions_after_checkpoint_ = << >>
       /\ files_by_name_ = finished_building_

(* A file is never being built twice at a time, whatever cycle of imports    *)
(* and of symbols leads back to it.                                         *)
BuiltOnceAtATime ==
  \A i, j \in DOMAIN builders :
    i < j /\ builders[i].file = builders[j].file =>
      j = Len(builders) /\ builders[j].at = "enter"

(* The files that can be built: the smallest set with every file that has no *)
(* error, imports what is in the set, and uses what it imports.              *)
CanBuild(f, G) ==
  /\ f \in db.protos \ db.invalid
  /\ db.imports[f] \subseteq G
  /\ {db.type[f], db.extendee[f]} \subseteq {NULL, f} \cup Dependencies(f)
Buildable ==
  {f \in File : \A G \in SUBSET File : (\A g \in File : CanBuild(g, G) => g \in G) => f \in G}

(* A database without a clash, with an index of all its files; in a pool that  *)
(* builds imports lazily, one whose files protoc has compiled.               *)
WellKept ==
  /\ db.mode # DIRECT /\ db.clash = {}
  /\ \A f \in db.protos : db.index[f] = f
  /\ db.mode = LAZY => db.protos \subseteq Buildable

(* The answers of a pool with a database are those the database determines,  *)
(* whatever was looked for before, whatever failed and was rolled back, and   *)
(* whether imports are built at once or on demand.                          *)
RightAnswer ==
  LET s == call.name IN
  CASE call.op = "FindFileByName" -> s \in files_by_name_ <=> s \in Buildable
    [] call.op \in {"FindSymbol", "message_type"} ->
         symbols_by_name_[s] = IF s \in Buildable THEN s ELSE NULL
    [] call.op = "FindExtensionByNumber" ->
         s \in extensions_ <=> s[2] \in Buildable /\ db.extendee[s[2]] = s[1]
    [] OTHER ->
         {n \in File : <<s, n>> \in extensions_} = {n \in Buildable : db.extendee[n] = s}

AnswerIsRight ==
  WellKept /\ call # NULL /\ call.at = "answer" /\ builders = << >> => RightAnswer

(* Every call returns: the recursion of the builders ends.                   *)
EveryCallAnswers == call # NULL ~> call = NULL
=============================================================================
