------------------------- MODULE DescriptorPoolProofs -------------------------
(***************************************************************************)
(* What TLAPS proves of DescriptorPool, for all databases, files and         *)
(* symbols: its types, that the tables are consistent (TablesConsistent),    *)
(* that a call leaves nothing behind and takes back nothing that was given   *)
(* out (NothingLeftBehind), that no file is being built twice at a time      *)
(* (BuiltOnceAtATime), and that the answers are those the database           *)
(* determines (AnswerIsRight).                                              *)
(***************************************************************************)
EXTENDS DescriptorPool, FunctionTheorems, FiniteSetTheorems, SequenceTheorems, TLAPS

-----------------------------------------------------------------------------
(* The inductive invariant: types. *)

Labels == {"enter", "imports", "add", "type", "typed", "extendee", "extended", "finish"}

(* A builder has a checkpoint and its file is in the tables.                 *)
Recorded == {"type", "typed", "extendee", "extended", "finish"}

BuilderRecord == [file : File, at : Labels, left : SUBSET File, errors : BOOLEAN]
CheckpointRecord == [files : Nat, symbols : Nat, extensions : Nat]

TablesTyped ==
  /\ files_by_name_ \subseteq File
  /\ symbols_by_name_ \in [Symbol -> File \cup {NULL}]
  /\ extensions_ \subseteq File \X File
  /\ files_after_checkpoint_ \in Seq(File)
  /\ symbols_after_checkpoint_ \in Seq(Symbol)
  /\ extensions_after_checkpoint_ \in Seq(File \X File)
  /\ checkpoints_ \in Seq(CheckpointRecord)
  /\ message_type_ \in [File -> File \cup {NULL}]

Typed ==
  /\ db \in Databases
  /\ TablesTyped
  /\ pending_files_ \in Seq(File)
  /\ builders \in Seq(BuilderRecord)
  /\ call \in Calls \cup {NULL}

-----------------------------------------------------------------------------
(* The inductive invariant: the builders and the call. *)

(* The builders of a stack that are at one of these steps.                   *)
AtWork(stack, labels) == {i \in DOMAIN stack : stack[i].at \in labels}

(* The sequence q names the files of the builders W of the stack, in order.  *)
InOrder(q, W, stack) ==
  /\ \A k \in DOMAIN q : \E i \in W : stack[i].file = q[k]
  /\ \A i \in W : \E k \in DOMAIN q : q[k] = stack[i].file
  /\ \A k, l \in DOMAIN q, i, j \in W :
       k < l /\ stack[i].file = q[k] /\ stack[j].file = q[l] => i < j

(* No file is being built twice, but the innermost builder may be about to    *)
(* find out that its file is.                                               *)
Once(stack) ==
  \A i, j \in DOMAIN stack :
    i < j /\ stack[i].file = stack[j].file => j = Len(stack) /\ stack[j].at = "enter"

(* The builders below the innermost wait for it, those that load imports are  *)
(* the pending files, and without a database there is but one.               *)
StackFine(stack, pending, mode) ==
  /\ \A i \in DOMAIN stack : i < Len(stack) => stack[i].at \in {"imports", "typed", "extended"}
  /\ Once(stack)
  /\ mode = DIRECT => Len(stack) <= 1
  /\ mode # DATABASE => AtWork(stack, {"imports"}) = {}
  /\ InOrder(pending, AtWork(stack, {"imports"}), stack)

StackOK == StackFine(builders, pending_files_, db.mode)

CallOK ==
  /\ builders # << >> => call # NULL /\ call.at # "look"
  /\ call # NULL =>
       /\ call.op \in {"BuildFile", "BuildOther"} => db.mode = DIRECT /\ call.name \in File
       /\ call.op \in {"FindFileByName", "message_type", "FindAllExtensions"} => call.name \in File
       /\ call.op = "message_type" => db.mode = LAZY /\ call.name \in db.protos
       /\ call.op = "FindSymbol" => call.name \in Symbol
       /\ call.op = "FindExtensionByNumber" => call.name \in File \X File
       /\ call.at = "numbers" => call.op = "FindAllExtensions"
       /\ call.left \subseteq db.protos

-----------------------------------------------------------------------------
(* The inductive invariant: the checkpoints. *)

FilesSince(k) == Since(files_after_checkpoint_, checkpoints_[k].files)
SymbolsSince(k) == Since(symbols_after_checkpoint_, checkpoints_[k].symbols)
ExtensionsSince(k) == Since(extensions_after_checkpoint_, checkpoints_[k].extensions)

(* The files whose builders made the checkpoints.                            *)
Opened == [k \in DOMAIN checkpoints_ |-> files_after_checkpoint_[checkpoints_[k].files + 1]]

LevelsOK ==
  /\ IsInjective(files_after_checkpoint_)
  /\ IsInjective(symbols_after_checkpoint_)
  /\ IsInjective(extensions_after_checkpoint_)
  /\ \A k \in DOMAIN checkpoints_ :
       /\ checkpoints_[k].files < Len(files_after_checkpoint_)
       /\ checkpoints_[k].symbols <= Len(symbols_after_checkpoint_)
       /\ checkpoints_[k].extensions <= Len(extensions_after_checkpoint_)
  /\ \A k, l \in DOMAIN checkpoints_ : k < l =>
       /\ checkpoints_[k].files < checkpoints_[l].files
       /\ checkpoints_[k].symbols <= checkpoints_[l].symbols
       /\ checkpoints_[k].extensions <= checkpoints_[l].extensions
  /\ checkpoints_ = << >> =>
       /\ files_after_checkpoint_ = << >> /\ symbols_after_checkpoint_ = << >>
       /\ extensions_after_checkpoint_ = << >>
  /\ checkpoints_ # << >> => checkpoints_[1] = [files |-> 0, symbols |-> 0, extensions |-> 0]

(* What a rollback takes back is the files since the checkpoint and all that *)
(* belongs to them.                                                         *)
RecordsOK ==
  \A k \in DOMAIN checkpoints_ :
    /\ FilesSince(k) \subseteq files_by_name_
    /\ SymbolsSince(k) = {s \in Symbol : symbols_by_name_[s] \in FilesSince(k)}
    /\ ExtensionsSince(k) = {key \in extensions_ : key[2] \in FilesSince(k)}

-----------------------------------------------------------------------------
(* The inductive invariant: the files. *)

FilesOK ==
  /\ InOrder(Opened, AtWork(builders, Recorded), builders)
  /\ finished_building_ \subseteq files_by_name_
  /\ files_by_name_ \ finished_building_ = {builders[i].file : i \in AtWork(builders, Recorded)}
  /\ given \subseteq finished_building_
  /\ given \cap ToSet(files_after_checkpoint_) = {}
  /\ type_once_ \subseteq files_by_name_
  /\ \A f \in type_once_ : db.mode = LAZY /\ db.type[f] # NULL
  /\ \A f \in File : message_type_[f] # NULL => f \in files_by_name_

(* The entries of a file.                                                    *)
Named(f) == \A s \in Defines(f) : symbols_by_name_[s] = f
Linked(f) == db.type[f] # NULL /\ f \notin type_once_ => message_type_[f] # NULL
Extended(f) == db.extendee[f] # NULL => <<db.extendee[f], f>> \in extensions_

BuilderOK(b) ==
  /\ b.at = "typed" => db.type[b.file] # NULL
  /\ b.at = "extended" => db.extendee[b.file] # NULL
  /\ b.at \in Recorded \ {"finish"} => \A key \in extensions_ : key[2] # b.file
  /\ b.at \in Recorded /\ ~ b.errors =>
       /\ Named(b.file)
       /\ b.at \in {"extendee", "extended", "finish"} => Linked(b.file)
       /\ b.at = "finish" => Extended(b.file)

EntriesOK ==
  /\ \A s \in Symbol : symbols_by_name_[s] # NULL =>
       symbols_by_name_[s] \in files_by_name_ /\ s \in Defines(symbols_by_name_[s])
  /\ \A key \in extensions_ : key[2] \in files_by_name_
  /\ \A f \in finished_building_ : Named(f) /\ Linked(f) /\ Extended(f)

BuildersFine(stack) == \A i \in DOMAIN stack : BuilderOK(stack[i])
BuildersOK == BuildersFine(builders)

(* The files without an error so far.                                        *)
Clean(f) ==
  \/ f \in finished_building_
  \/ \E i \in AtWork(builders, Recorded) : builders[i].file = f /\ ~ builders[i].errors

(* The table of files as it is, and as the rollbacks to come may leave it.   *)
KeptTables == {files_by_name_} \cup {files_by_name_ \ FilesSince(k) : k \in DOMAIN checkpoints_}

Closed(S) ==
  \A f \in S :
    /\ Clean(f) /\ db.mode # LAZY => db.imports[f] \subseteq S
    /\ message_type_[f] # NULL => message_type_[f] \in S

ClosedOK == \A S \in KeptTables : Closed(S)

(* In a pool that builds imports lazily no build fails, so that what a       *)
(* builder or message_type() looks for is found.                             *)
LazyAt(stack, i) ==
  /\ ~ stack[i].errors /\ stack[i].file \in db.protos
  /\ stack[i].at = "add" => stack[i].file \notin files_by_name_
  /\ stack[i].at = "typed" => symbols_by_name_[db.type[stack[i].file]] # NULL
  /\ stack[i].at = "extended" =>
       \/ symbols_by_name_[db.extendee[stack[i].file]] # NULL
       \/ i < Len(stack) /\ stack[i + 1].file = db.extendee[stack[i].file]

LazyStack(stack) == \A i \in DOMAIN stack : LazyAt(stack, i)

LazyOK ==
  db.mode = LAZY =>
    /\ LazyStack(builders)
    /\ files_by_name_ \subseteq db.protos
    /\ builders # << >> \/ (call # NULL /\ call.at \in {"look", "numbers"}) =>
         known_bad_files_ = {} /\ known_bad_symbols_ = {}
    /\ call # NULL /\ call.op = "message_type" /\ call.at = "answer" =>
         \/ symbols_by_name_[call.name] # NULL
         \/ (builders # << >> /\ builders[1].file = call.name)

TablesOK == LevelsOK /\ RecordsOK /\ FilesOK /\ EntriesOK /\ BuildersOK /\ ClosedOK

IInv == Typed /\ StackOK /\ CallOK /\ TablesOK /\ LazyOK

-----------------------------------------------------------------------------
(* Lemmas about sequences. *)

(* All but the last of a sequence.                                           *)
LEMMA FrontFacts ==
  ASSUME NEW S, NEW s \in Seq(S), s # << >>
  PROVE  /\ Len(s) \in Nat \ {0} /\ Len(s) - 1 \in Nat
         /\ Front(s) \in Seq(S) /\ Len(Front(s)) = Len(s) - 1
         /\ DOMAIN Front(s) = 1..(Len(s) - 1)
         /\ \A i \in 1..(Len(s) - 1) : Front(s)[i] = s[i]
         /\ Last(s) = s[Len(s)] /\ Last(s) \in S
<1>1. Len(s) \in Nat \ {0}
  BY EmptySeq
<1>2. \A i \in 1..(Len(s) - 1) : s[i] \in S
  BY <1>1
<1>3. Front(s) \in Seq(S) /\ Len(Front(s)) = Len(s) - 1
  <2>1. PICK m : m = Len(s) - 1
    OBVIOUS
  <2>2. m \in Nat /\ 1 \in Int /\ \A i \in 1..m : s[i] \in S
    BY <1>1, <1>2, <2>1
  <2>3. SubSeq(s, 1, m) \in Seq(S) /\ Len(SubSeq(s, 1, m)) = m
    BY <2>2
  <2> QED
    BY <2>1, <2>3 DEF Front
<1>4. \A i \in 1..(Len(s) - 1) : Front(s)[i] = s[i]
  BY <1>1, <1>2, SubSeqProperties DEF Front
<1>5. Last(s) = s[Len(s)] /\ Last(s) \in S
  BY <1>1 DEF Last
<1> QED
  BY <1>1, <1>3, <1>4, <1>5

(* The first n elements of a sequence.                                       *)
LEMMA BeforeFacts ==
  ASSUME NEW S, NEW s \in Seq(S), NEW n \in 0..Len(s)
  PROVE  /\ Before(s, n) \in Seq(S) /\ Len(Before(s, n)) = n
         /\ DOMAIN Before(s, n) = 1..n
         /\ \A i \in 1..n : Before(s, n)[i] = s[i]
<1>1. Len(s) \in Nat /\ n \in Nat /\ n <= Len(s)
  OBVIOUS
<1>2. \A i \in 1..n : s[i] \in S
  BY <1>1
<1>3. Before(s, n) \in Seq(S) /\ Len(Before(s, n)) = n
  BY <1>1, <1>2, SubSeqProperties DEF Before
<1>4. \A i \in 1..n : Before(s, n)[i] = s[i]
  BY <1>1, <1>2, SubSeqProperties DEF Before
<1> QED
  BY <1>3, <1>4

(* What came after the first n elements.                                     *)
LEMMA SinceFacts ==
  ASSUME NEW S, NEW s \in Seq(S), NEW n \in 0..Len(s)
  PROVE  \A x : x \in Since(s, n) <=> \E i \in DOMAIN s : n < i /\ s[i] = x
<1>1. Len(s) \in Nat /\ n \in Nat /\ n <= Len(s) /\ DOMAIN s = 1..Len(s)
  OBVIOUS
<1>2. PICK t : t = SubSeq(s, n + 1, Len(s))
  OBVIOUS
<1>3. \A i \in (n + 1)..Len(s) : s[i] \in S
  BY <1>1
<1>4. t \in Seq(S) /\ Len(t) = Len(s) - n
  <2>1. PICK m : m = n + 1
    OBVIOUS
  <2>2. m \in Nat /\ \A i \in m..Len(s) : s[i] \in S
    BY <1>1, <1>3, <2>1
  <2>3. t = SubSeq(s, m, Len(s))
    BY <1>2, <2>1
  <2>4. Len(s) \in Int /\ m \in Int
    BY <1>1, <2>2
  <2>5. t \in Seq(S)
    BY <2>2, <2>3, <2>4, SubSeqProperties
  <2>6. Len(t) = Len(s) - n
    <3>1. PICK l : l = Len(s)
      OBVIOUS
    <3>2. l \in Nat /\ m \in Int /\ \A i \in m..l : s[i] \in S
      BY <1>1, <2>2, <3>1
    <3>3. Len(SubSeq(s, m, l)) = IF m <= l THEN l - m + 1 ELSE 0
      BY <3>2, SubSeqProperties
    <3> QED
      BY <3>1, <3>3, <2>1, <2>3, <1>1
  <2> QED
    BY <2>5, <2>6
<1>5. \A i \in 1..(Len(s) - n) : t[i] = s[n + i]
  BY <1>1, <1>2, <1>3, SubSeqProperties
<1>6. DOMAIN t = 1..(Len(s) - n)
  BY <1>4
<1>7. ASSUME NEW x PROVE x \in Since(s, n) <=> \E i \in DOMAIN s : n < i /\ s[i] = x
  <2>1. x \in Since(s, n) <=> \E j \in DOMAIN t : t[j] = x
    BY <1>2 DEF Since, ToSet
  <2>2. ASSUME NEW j \in DOMAIN t, t[j] = x PROVE \E i \in DOMAIN s : n < i /\ s[i] = x
    BY <2>2, <1>1, <1>5, <1>6, n + j \in 1..Len(s) /\ n < n + j
  <2>3. ASSUME NEW i \in DOMAIN s, n < i, s[i] = x PROVE \E j \in DOMAIN t : t[j] = x
    BY <2>3, <1>1, <1>5, <1>6, i - n \in 1..(Len(s) - n) /\ n + (i - n) = i
  <2> QED
    BY <2>1, <2>2, <2>3
<1> QED
  BY <1>7

(* The elements after the last are none, and after n + 1 fewer than after n.  *)
LEMMA SinceBounds ==
  ASSUME NEW S, NEW s \in Seq(S)
  PROVE  /\ Since(s, Len(s)) = {}
         /\ Since(s, 0) = ToSet(s)
         /\ \A n, m \in 0..Len(s) : n <= m => Since(s, m) \subseteq Since(s, n)
         /\ \A n \in 0..Len(s) : n < Len(s) => s[n + 1] \in Since(s, n)
<1>1. Len(s) \in Nat /\ DOMAIN s = 1..Len(s) /\ Len(s) \in 0..Len(s) /\ 0 \in 0..Len(s)
  OBVIOUS
<1>2. Since(s, Len(s)) = {}
  BY <1>1, SinceFacts
<1>3. Since(s, 0) = ToSet(s)
  BY <1>1, SinceFacts DEF ToSet
<1>4. ASSUME NEW n \in 0..Len(s), NEW m \in 0..Len(s), n <= m PROVE Since(s, m) \subseteq Since(s, n)
  <2>1. SUFFICES ASSUME NEW x \in Since(s, m) PROVE x \in Since(s, n)
    OBVIOUS
  <2>2. PICK i \in DOMAIN s : m < i /\ s[i] = x
    BY SinceFacts
  <2>3. n < i
    BY <1>4, <1>1, <2>2
  <2> QED
    BY <2>2, <2>3, SinceFacts
<1>5. ASSUME NEW n \in 0..Len(s), n < Len(s) PROVE s[n + 1] \in Since(s, n)
  <2>1. n + 1 \in DOMAIN s /\ n < n + 1
    BY <1>1, <1>5
  <2> QED
    BY <2>1, SinceFacts
<1> QED
  BY <1>2, <1>3, <1>4, <1>5

(* An element is appended.                                                   *)
LEMMA SinceAppend ==
  ASSUME NEW S, NEW s \in Seq(S), NEW x \in S
  PROVE  /\ Append(s, x) \in Seq(S) /\ Len(Append(s, x)) = Len(s) + 1
         /\ \A n \in 0..Len(s) : Since(Append(s, x), n) = Since(s, n) \cup {x}
         /\ \A i \in DOMAIN s : Append(s, x)[i] = s[i]
         /\ Append(s, x)[Len(s) + 1] = x
         /\ DOMAIN Append(s, x) = 1..(Len(s) + 1)
         /\ IsInjective(s) /\ x \notin ToSet(s) => IsInjective(Append(s, x))
<1>1. PICK t : t = Append(s, x)
  OBVIOUS
<1>2. /\ t \in Seq(S) /\ Len(t) = Len(s) + 1 /\ DOMAIN t = 1..(Len(s) + 1) /\ Len(s) \in Nat
      /\ DOMAIN s = 1..Len(s) /\ \A i \in DOMAIN s : t[i] = s[i]
      /\ t[Len(s) + 1] = x
  BY <1>1
<1>3. ASSUME NEW n \in 0..Len(s) PROVE Since(t, n) = Since(s, n) \cup {x}
  <2>1. n \in 0..Len(t)
    BY <1>2
  <2>2. \A y : y \in Since(t, n) <=> \E i \in DOMAIN t : n < i /\ t[i] = y
    BY <2>1, <1>2, SinceFacts
  <2>3. \A y : y \in Since(s, n) <=> \E i \in DOMAIN s : n < i /\ s[i] = y
    BY SinceFacts
  <2>4. \A i : i \in DOMAIN t <=> i \in DOMAIN s \/ i = Len(s) + 1
    BY <1>2
  <2>5. n < Len(s) + 1
    BY <1>2
  <2> QED
    BY <2>2, <2>3, <2>4, <2>5, <1>2
<1>4. ASSUME IsInjective(s), x \notin ToSet(s) PROVE IsInjective(t)
  <2>1. \A i : i \in DOMAIN t <=> i \in DOMAIN s \/ i = Len(s) + 1
    BY <1>2
  <2>2. \A i \in DOMAIN s : t[i] # x
    BY <1>4, <1>2 DEF ToSet
  <2> QED
    BY <2>1, <2>2, <1>2, <1>4 DEF IsInjective
<1> QED
  BY <1>1, <1>2, <1>3, <1>4

(* A sequence of new elements is appended.                                   *)
LEMMA SinceConcat ==
  ASSUME NEW S, NEW s \in Seq(S), NEW t \in Seq(S)
  PROVE  /\ s \o t \in Seq(S) /\ Len(s \o t) = Len(s) + Len(t)
         /\ \A n \in 0..Len(s) : Since(s \o t, n) = Since(s, n) \cup ToSet(t)
         /\ IsInjective(s) /\ IsInjective(t) /\ ToSet(s) \cap ToSet(t) = {} =>
              IsInjective(s \o t)
<1>1. PICK r : r = s \o t
  OBVIOUS
<1>2. /\ r \in Seq(S) /\ Len(r) = Len(s) + Len(t) /\ DOMAIN r = 1..(Len(s) + Len(t))
      /\ Len(s) \in Nat /\ Len(t) \in Nat /\ DOMAIN s = 1..Len(s) /\ DOMAIN t = 1..Len(t)
      /\ \A i \in DOMAIN r : r[i] = IF i <= Len(s) THEN s[i] ELSE t[i - Len(s)]
  BY <1>1, ConcatProperties
<1>3. \A i \in DOMAIN r : \/ i \in DOMAIN s /\ r[i] = s[i]
                          \/ i - Len(s) \in DOMAIN t /\ r[i] = t[i - Len(s)] /\ Len(s) < i
  BY <1>2
<1>4. \A i \in DOMAIN s : i \in DOMAIN r /\ r[i] = s[i]
  BY <1>2
<1>5. ASSUME NEW i \in DOMAIN t
      PROVE  Len(s) + i \in DOMAIN r /\ r[Len(s) + i] = t[i] /\ Len(s) < Len(s) + i
  <2>1. Len(s) + i \in DOMAIN r /\ ~ (Len(s) + i <= Len(s)) /\ (Len(s) + i) - Len(s) = i
    BY <1>2
  <2> QED
    BY <2>1, <1>2
<1>6. ASSUME NEW n \in 0..Len(s) PROVE Since(r, n) = Since(s, n) \cup ToSet(t)
  <2>1. n \in 0..Len(r)
    BY <1>2
  <2>2. \A y : y \in Since(r, n) <=> \E i \in DOMAIN r : n < i /\ r[i] = y
    BY <2>1, <1>2, SinceFacts
  <2>3. \A y : y \in Since(s, n) <=> \E i \in DOMAIN s : n < i /\ s[i] = y
    BY SinceFacts
  <2>4. \A y : y \in ToSet(t) <=> \E i \in DOMAIN t : t[i] = y
    BY DEF ToSet
  <2>5. ASSUME NEW y \in Since(r, n) PROVE y \in Since(s, n) \cup ToSet(t)
    BY <2>2, <2>3, <2>4, <2>5, <1>3
  <2>6. ASSUME NEW y \in Since(s, n) PROVE y \in Since(r, n)
    BY <2>2, <2>3, <2>6, <1>4
  <2>7. ASSUME NEW y \in ToSet(t) PROVE y \in Since(r, n)
    <3>1. PICK i \in DOMAIN t : t[i] = y
      BY <2>4
    <3>2. n < Len(s) + i
      BY <1>2
    <3> QED
      BY <3>1, <3>2, <2>2, <1>5
  <2> QED
    BY <2>5, <2>6, <2>7
<1>7. ASSUME IsInjective(s), IsInjective(t), ToSet(s) \cap ToSet(t) = {} PROVE IsInjective(r)
  <2>1. SUFFICES ASSUME NEW i \in DOMAIN r, NEW j \in DOMAIN r, r[i] = r[j] PROVE i = j
    BY DEF IsInjective
  <2>2. CASE i \in DOMAIN s /\ r[i] = s[i] /\ j \in DOMAIN s /\ r[j] = s[j]
    BY <2>1, <2>2, <1>7 DEF IsInjective
  <2>3. CASE /\ i - Len(s) \in DOMAIN t /\ r[i] = t[i - Len(s)]
             /\ j - Len(s) \in DOMAIN t /\ r[j] = t[j - Len(s)]
    <3>1. i - Len(s) = j - Len(s)
      BY <2>1, <2>3, <1>7 DEF IsInjective
    <3> QED
      BY <3>1, <1>2
  <2>4. \A x \in DOMAIN s, y \in DOMAIN t : s[x] # t[y]
    BY <1>7 DEF ToSet
  <2> QED
    BY <2>1, <2>2, <2>3, <2>4, <1>3
<1> QED
  BY <1>1, <1>2, <1>6, <1>7

(* A sequence is cut at m.                                                   *)
LEMMA SinceBefore ==
  ASSUME NEW S, NEW s \in Seq(S), IsInjective(s), NEW m \in 0..Len(s)
  PROVE  /\ IsInjective(Before(s, m))
         /\ \A n \in 0..m : Since(Before(s, m), n) = Since(s, n) \ Since(s, m)
         /\ ToSet(Before(s, m)) \subseteq ToSet(s)
<1>1. PICK t : t = Before(s, m)
  OBVIOUS
<1>2. t \in Seq(S) /\ Len(t) = m /\ DOMAIN t = 1..m /\ \A i \in 1..m : t[i] = s[i]
  BY <1>1, BeforeFacts
<1>3. Len(s) \in Nat /\ m \in Nat /\ m <= Len(s) /\ DOMAIN s = 1..Len(s)
  OBVIOUS
<1>4. \A i \in DOMAIN t : i \in DOMAIN s /\ t[i] = s[i]
  BY <1>2, <1>3
<1>5. IsInjective(t)
  BY <1>4 DEF IsInjective
<1>6. ASSUME NEW n \in 0..m PROVE Since(t, n) = Since(s, n) \ Since(s, m)
  <2>1. n \in 0..Len(t) /\ n \in 0..Len(s) /\ n <= m /\ n \in Nat
    BY <1>2, <1>3
  <2>2. \A y : y \in Since(t, n) <=> \E i \in DOMAIN t : n < i /\ t[i] = y
    BY <2>1, <1>2, SinceFacts
  <2>3. \A y : y \in Since(s, n) <=> \E i \in DOMAIN s : n < i /\ s[i] = y
    BY <2>1, SinceFacts
  <2>4. \A y : y \in Since(s, m) <=> \E i \in DOMAIN s : m < i /\ s[i] = y
    BY SinceFacts
  <2>5. \A i \in DOMAIN s : i \in DOMAIN t <=> ~ (m < i)
    BY <1>2, <1>3
  <2>6. ASSUME NEW y \in Since(t, n) PROVE y \in Since(s, n) /\ y \notin Since(s, m)
    <3>1. PICK i \in DOMAIN t : n < i /\ t[i] = y
      BY <2>2
    <3>2. ~ \E j \in DOMAIN s : m < j /\ s[j] = y
      <4>1. SUFFICES ASSUME NEW j \in DOMAIN s, m < j, s[j] = y PROVE FALSE
        OBVIOUS
      <4>2. i = j
        BY <3>1, <4>1, <1>4 DEF IsInjective
      <4> QED
        BY <4>1, <4>2, <2>5
    <3> QED
      BY <3>1, <3>2, <2>3, <2>4, <1>4
  <2>7. ASSUME NEW y \in Since(s, n), y \notin Since(s, m) PROVE y \in Since(t, n)
    BY <2>7, <2>2, <2>3, <2>4, <2>5, <1>4
  <2> QED
    BY <2>6, <2>7
<1>7. ToSet(t) \subseteq ToSet(s)
  BY <1>4 DEF ToSet
<1> QED
  BY <1>1, <1>5, <1>6, <1>7

(* The elements of a finite set in some order.                               *)
LEMMA SetToSeqFacts ==
  ASSUME NEW S, IsFiniteSet(S)
  PROVE  SetToSeq(S) \in Seq(S) /\ IsInjective(SetToSeq(S)) /\ ToSet(SetToSeq(S)) = S
<1>1. Cardinality(S) \in Nat /\ ExistsBijection(1..Cardinality(S), S)
  BY FS_CardinalityType
<1>2. PICK f \in Bijection(1..Cardinality(S), S) : TRUE
  BY <1>1 DEF ExistsBijection
<1>3. f \in [1..Cardinality(S) -> S] /\ IsInjective(f)
  BY <1>2 DEF Bijection, Injection, Surjection, IsInjective
<1>4. PICK g : g = SetToSeq(S)
  OBVIOUS
<1>5. g \in [1..Cardinality(S) -> S] /\ IsInjective(g)
  BY <1>3, <1>4 DEF SetToSeq
<1>6. g \in Seq(S)
  BY <1>1, <1>5, SeqDef
<1>7. g \in Injection(1..Cardinality(S), S)
  BY <1>5 DEF Injection, IsInjective
<1>8. g \in Surjection(1..Cardinality(S), S)
  <2>1. IsFiniteSet(1..Cardinality(S)) /\ Cardinality(1..Cardinality(S)) = Cardinality(S)
    BY <1>1, FS_Interval
  <2> QED
    BY <2>1, <1>7, FS_Injection
<1>9. ToSet(g) = S
  BY <1>5, <1>8 DEF ToSet, Surjection
<1> QED
  BY <1>4, <1>5, <1>6, <1>9

-----------------------------------------------------------------------------
(* Lemmas about the stack of builders. *)

SetLast(stack, b) == [stack EXCEPT ![Len(stack)] = b]

(* The same builders have recorded the same files, with no fewer errors.     *)
SameWork(stack, next) ==
  /\ AtWork(next, Recorded) = AtWork(stack, Recorded)
  /\ \A i \in AtWork(stack, Recorded) :
       next[i].file = stack[i].file /\ (stack[i].errors => next[i].errors)

(* The innermost builder changes.                                            *)
LEMMA SetLastFacts ==
  ASSUME NEW stack \in Seq(BuilderRecord), stack # << >>, NEW b \in BuilderRecord
  PROVE  /\ Len(stack) \in Nat \ {0} /\ Len(stack) \in DOMAIN stack
         /\ DOMAIN stack = 1..Len(stack)
         /\ SetLast(stack, b) \in Seq(BuilderRecord) /\ SetLast(stack, b) # << >>
         /\ Len(SetLast(stack, b)) = Len(stack) /\ DOMAIN SetLast(stack, b) = DOMAIN stack
         /\ SetLast(stack, b)[Len(stack)] = b
         /\ \A i \in DOMAIN stack : i # Len(stack) => SetLast(stack, b)[i] = stack[i]
         /\ Last(stack) = stack[Len(stack)] /\ Last(SetLast(stack, b)) = b
         /\ Last(stack) \in BuilderRecord
<1>1. Len(stack) \in Nat \ {0} /\ Len(stack) \in DOMAIN stack /\ DOMAIN stack = 1..Len(stack)
  BY EmptySeq
<1>2. PICK r : r = SetLast(stack, b)
  OBVIOUS
<1>3. r \in Seq(BuilderRecord) /\ Len(r) = Len(stack) /\ DOMAIN r = DOMAIN stack
  BY <1>1, <1>2, ExceptSeq DEF SetLast
<1>4. r[Len(stack)] = b /\ \A i \in DOMAIN stack : i # Len(stack) => r[i] = stack[i]
  BY <1>1, <1>2 DEF SetLast
<1>5. r # << >>
  BY <1>1, <1>3
<1>6. Last(stack) = stack[Len(stack)] /\ Last(r) = b
  BY <1>3, <1>4 DEF Last
<1>7. stack[Len(stack)] \in BuilderRecord
  BY <1>1
<1> QED
  BY <1>1, <1>2, <1>3, <1>4, <1>5, <1>6, <1>7

(* A builder starts.                                                         *)
LEMMA PushFacts ==
  ASSUME NEW stack \in Seq(BuilderRecord), NEW f \in File
  PROVE  /\ Len(stack) \in Nat /\ DOMAIN stack = 1..Len(stack)
         /\ Append(stack, Builder(f)) \in Seq(BuilderRecord)
         /\ Append(stack, Builder(f)) # << >>
         /\ Len(Append(stack, Builder(f))) = Len(stack) + 1
         /\ DOMAIN Append(stack, Builder(f)) = 1..(Len(stack) + 1)
         /\ Append(stack, Builder(f))[Len(stack) + 1] = Builder(f)
         /\ \A i \in DOMAIN stack : Append(stack, Builder(f))[i] = stack[i]
         /\ Builder(f) \in BuilderRecord
         /\ Builder(f).at = "enter" /\ Builder(f).file = f /\ ~ Builder(f).errors
<1>1. PICK b : b = Builder(f)
  OBVIOUS
<1>2. b \in BuilderRecord /\ b.at = "enter" /\ b.file = f /\ ~ b.errors
  BY <1>1 DEF Builder, BuilderRecord, Labels
<1>3. PICK r : r = Append(stack, b)
  OBVIOUS
<1>4. r \in Seq(BuilderRecord) /\ Len(r) = Len(stack) + 1 /\ r # << >>
  BY <1>2, <1>3, AppendProperties
<1>5. Len(stack) \in Nat /\ DOMAIN stack = 1..Len(stack) /\ DOMAIN r = 1..(Len(stack) + 1)
  BY <1>4
<1>6. r[Len(stack) + 1] = b /\ \A i \in DOMAIN stack : r[i] = stack[i]
  BY <1>2, <1>3, <1>5
<1> QED
  BY <1>1, <1>2, <1>3, <1>4, <1>5, <1>6

(* The order of the files says nothing else of their builders.               *)
LEMMA OrderSame ==
  ASSUME NEW q, NEW p, NEW W, NEW stack, NEW next, InOrder(q, W, stack),
         DOMAIN p = DOMAIN q, \A k \in DOMAIN q : p[k] = q[k],
         \A i \in W : next[i].file = stack[i].file
  PROVE  InOrder(p, W, next)
<1>1. \A k \in DOMAIN p : \E i \in W : next[i].file = p[k]
  BY DEF InOrder
<1>2. \A i \in W : \E k \in DOMAIN p : p[k] = next[i].file
  BY DEF InOrder
<1>3. \A k, l \in DOMAIN q, i, j \in W :
        k < l /\ stack[i].file = q[k] /\ stack[j].file = q[l] => i < j
  BY DEF InOrder
<1>4. \A k, l \in DOMAIN p, i, j \in W :
        k < l /\ next[i].file = p[k] /\ next[j].file = p[l] => i < j
  BY <1>3
<1> QED
  BY <1>1, <1>2, <1>4 DEF InOrder

(* The innermost builder's file is the last of the sequence.                 *)
LEMMA OrderOpens ==
  ASSUME NEW S, NEW q \in Seq(S), NEW W, NEW stack, NEW n \in Nat, InOrder(q, W, stack),
         W \subseteq Nat, stack[n].file \in S,
         \A i \in W : i < n /\ stack[i].file # stack[n].file
  PROVE  InOrder(Append(q, stack[n].file), W \cup {n}, stack)
<1>0. \A k, l \in DOMAIN q, i, j \in W :
        k < l /\ stack[i].file = q[k] /\ stack[j].file = q[l] => i < j
  BY DEF InOrder
<1>1. PICK f : f = stack[n].file
  OBVIOUS
<1>2. PICK p : p = Append(q, f)
  OBVIOUS
<1>3. /\ Len(q) \in Nat /\ DOMAIN q = 1..Len(q) /\ DOMAIN p = 1..(Len(q) + 1)
      /\ \A k \in DOMAIN q : p[k] = q[k]
      /\ p[Len(q) + 1] = f
  BY <1>1, <1>2, SinceAppend
<1>4. \A k : k \in DOMAIN p <=> k \in DOMAIN q \/ k = Len(q) + 1
  BY <1>3
<1>5. \A k \in DOMAIN p : \E i \in W \cup {n} : stack[i].file = p[k]
  BY <1>1, <1>3, <1>4 DEF InOrder
<1>6. \A i \in W \cup {n} : \E k \in DOMAIN p : p[k] = stack[i].file
  BY <1>1, <1>3, <1>4 DEF InOrder
<1>7. ASSUME NEW k \in DOMAIN p, NEW l \in DOMAIN p, k < l, NEW i \in W \cup {n}, NEW j \in W \cup {n},
             stack[i].file = p[k], stack[j].file = p[l]
      PROVE  i < j
  <2>1. k \in DOMAIN q
    BY <1>7, <1>3
  <2>2. i \in W
    <3>1. p[k] = q[k]
      BY <2>1, <1>3
    <3>2. PICK w \in W : stack[w].file = q[k]
      BY <2>1 DEF InOrder
    <3> QED
      BY <3>1, <3>2, <1>7
  <2>3. CASE l \in DOMAIN q
    <3>1. j \in W
      <4>1. p[l] = q[l]
        BY <2>3, <1>3
      <4>2. PICK w \in W : stack[w].file = q[l]
        BY <2>3 DEF InOrder
      <4> QED
        BY <4>1, <4>2, <1>7
    <3> QED
      <4>1. q[k] = p[k] /\ q[l] = p[l]
        BY <2>1, <2>3, <1>3
      <4> QED
        BY <4>1, <2>1, <2>2, <2>3, <3>1, <1>0, <1>7
  <2>4. CASE l = Len(q) + 1
    <3>1. stack[j].file = f
      BY <2>4, <1>3, <1>7
    <3>2. j = n
      BY <3>1, <1>1
    <3> QED
      BY <3>2, <2>2
  <2> QED
    BY <2>3, <2>4, <1>4
<1>8. InOrder(p, W \cup {n}, stack)
  BY <1>5, <1>6, <1>7 DEF InOrder
<1> QED
  BY <1>1, <1>2, <1>8

(* The innermost builder leaves.                                             *)
LEMMA OrderCloses ==
  ASSUME NEW S, NEW q \in Seq(S), NEW W, NEW stack, NEW n \in W, InOrder(q, W, stack),
         W \subseteq Nat,
         \A i \in W : i = n \/ (i < n /\ stack[i].file # stack[n].file)
  PROVE  q # << >> /\ Last(q) = stack[n].file /\ InOrder(Front(q), W \ {n}, stack)
<1>0. \A k, l \in DOMAIN q, i, j \in W :
        k < l /\ stack[i].file = q[k] /\ stack[j].file = q[l] => i < j
  BY DEF InOrder
<1>1. Len(q) \in Nat /\ DOMAIN q = 1..Len(q)
  OBVIOUS
<1>2. PICK m \in DOMAIN q : q[m] = stack[n].file
  BY DEF InOrder
<1>3. q # << >> /\ Len(q) \in DOMAIN q
  BY <1>1, <1>2
<1>4. m = Len(q)
  <2>1. SUFFICES ASSUME m < Len(q) PROVE FALSE
    BY <1>1
  <2>2. PICK j \in W : stack[j].file = q[Len(q)]
    BY <1>3 DEF InOrder
  <2>3. n < j
    BY <2>1, <2>2, <1>0, <1>2, <1>3
  <2>4. j \in Nat /\ n \in Nat
    OBVIOUS
  <2> QED
    BY <2>3, <2>4
<1>5. Last(q) = stack[n].file
  BY <1>2, <1>4 DEF Last
<1>6. PICK p : p = Front(q)
  OBVIOUS
<1>7. DOMAIN p = 1..(Len(q) - 1) /\ \A k \in 1..(Len(q) - 1) : p[k] = q[k]
  BY <1>3, <1>6, FrontFacts
<1>8. \A k \in DOMAIN p : k \in DOMAIN q /\ k < Len(q) /\ p[k] = q[k]
  BY <1>1, <1>7
<1>9. ASSUME NEW k \in DOMAIN p PROVE \E i \in W \ {n} : stack[i].file = p[k]
  <2>1. PICK i \in W : stack[i].file = q[k]
    BY <1>8 DEF InOrder
  <2>2. i # n
    <3>1. SUFFICES ASSUME i = n PROVE FALSE
      OBVIOUS
    <3>2. n < n
      BY <2>1, <3>1, <1>0, <1>2, <1>3, <1>4, <1>8
    <3>3. n \in Nat
      OBVIOUS
    <3> QED
      BY <3>2, <3>3
  <2> QED
    BY <2>1, <2>2, <1>8
<1>10. ASSUME NEW i \in W \ {n} PROVE \E k \in DOMAIN p : p[k] = stack[i].file
  <2>1. PICK k \in DOMAIN q : q[k] = stack[i].file
    BY DEF InOrder
  <2>2. k # Len(q)
    BY <2>1, <1>2, <1>4
  <2>3. k \in DOMAIN p
    BY <2>2, <1>1, <1>7
  <2> QED
    BY <2>1, <2>3, <1>8
<1>11. ASSUME NEW k \in DOMAIN p, NEW l \in DOMAIN p, NEW i \in W \ {n}, NEW j \in W \ {n},
              k < l, stack[i].file = p[k], stack[j].file = p[l]
       PROVE  i < j
  <2>1. q[k] = p[k] /\ q[l] = p[l] /\ k \in DOMAIN q /\ l \in DOMAIN q /\ i \in W /\ j \in W
    BY <1>8
  <2> QED
    BY <2>1, <1>0, <1>11
<1>12. InOrder(p, W \ {n}, stack)
  BY <1>9, <1>10, <1>11 DEF InOrder
<1> QED
  BY <1>3, <1>5, <1>6, <1>12

-----------------------------------------------------------------------------
(* Lemmas about the stack of builders: the steps that keep it fine. *)

(* The builders that load imports are the same.                              *)
LEMMA StackSame ==
  ASSUME NEW stack \in Seq(BuilderRecord), NEW next \in Seq(BuilderRecord), NEW p, NEW mode,
         StackFine(stack, p, mode),
         AtWork(next, {"imports"}) = AtWork(stack, {"imports"}),
         \A i \in AtWork(stack, {"imports"}) : next[i].file = stack[i].file,
         \A i \in DOMAIN next : i < Len(next) => next[i].at \in {"imports", "typed", "extended"},
         Once(next), mode = DIRECT => Len(next) <= 1
  PROVE  StackFine(next, p, mode)
<1>1. InOrder(p, AtWork(next, {"imports"}), next)
  BY OrderSame DEF StackFine
<1> QED
  BY <1>1 DEF StackFine

(* The innermost builder goes on.                                            *)
LEMMA RelabelFine ==
  ASSUME NEW stack \in Seq(BuilderRecord), NEW p, NEW mode, StackFine(stack, p, mode),
         stack # << >>, NEW b \in BuilderRecord, b.file = Last(stack).file,
         Last(stack).at # "enter", b.at = "imports" <=> Last(stack).at = "imports"
  PROVE  StackFine(SetLast(stack, b), p, mode)
<1>1. PICK r : r = SetLast(stack, b)
  OBVIOUS
<1>2. /\ r \in Seq(BuilderRecord) /\ Len(r) = Len(stack) /\ DOMAIN r = DOMAIN stack
      /\ r[Len(stack)] = b /\ \A i \in DOMAIN stack : i # Len(stack) => r[i] = stack[i]
      /\ Last(stack) = stack[Len(stack)] /\ Len(stack) \in Nat /\ DOMAIN stack = 1..Len(stack)
  BY <1>1, SetLastFacts
<1>3. AtWork(r, {"imports"}) = AtWork(stack, {"imports"})
  BY <1>2 DEF AtWork
<1>4. \A i \in DOMAIN stack : r[i].file = stack[i].file
  BY <1>2
<1>5. \A i \in DOMAIN r : i < Len(r) => r[i].at \in {"imports", "typed", "extended"}
  BY <1>2 DEF StackFine
<1>6. Once(r)
  BY <1>2, <1>4 DEF StackFine, Once
<1>7. mode = DIRECT => Len(r) <= 1
  BY <1>2 DEF StackFine
<1>8. \A i \in AtWork(stack, {"imports"}) : r[i].file = stack[i].file
  BY <1>4 DEF AtWork
<1>9. StackFine(r, p, mode)
  BY <1>2, <1>3, <1>5, <1>6, <1>7, <1>8, StackSame
<1> QED
  BY <1>1, <1>9

(* A builder starts, because the innermost needs what its file defines or     *)
(* because of a call.                                                       *)
LEMMA PushFine ==
  ASSUME NEW stack \in Seq(BuilderRecord), NEW p, NEW mode, StackFine(stack, p, mode),
         stack # << >> => mode # DIRECT /\ Last(stack).at \in {"imports", "typed", "extended"},
         NEW f \in File
  PROVE  StackFine(Append(stack, Builder(f)), p, mode)
<1>1. PICK r : r = Append(stack, Builder(f))
  OBVIOUS
<1>2. PICK n : n = Len(stack)
  OBVIOUS
<1>3. /\ r \in Seq(BuilderRecord) /\ Len(r) = n + 1 /\ DOMAIN r = 1..(n + 1)
      /\ r[n + 1].at = "enter" /\ \A i \in DOMAIN stack : r[i] = stack[i]
      /\ n \in Nat /\ DOMAIN stack = 1..n
  BY <1>1, <1>2, PushFacts
<1>4. \A i : i \in DOMAIN r <=> i \in DOMAIN stack \/ i = n + 1
  BY <1>3
<1>5. AtWork(r, {"imports"}) = AtWork(stack, {"imports"})
  BY <1>3, <1>4 DEF AtWork
<1>6. \A i \in AtWork(stack, {"imports"}) : r[i].file = stack[i].file
  BY <1>3 DEF AtWork
<1>7. stack # << >> => stack[n].at \in {"imports", "typed", "extended"}
  BY <1>2 DEF Last
<1>8. \A i \in DOMAIN stack : stack[i].at \in {"imports", "typed", "extended"}
  <2>1. SUFFICES ASSUME NEW i \in DOMAIN stack PROVE stack[i].at \in {"imports", "typed", "extended"}
    OBVIOUS
  <2>2. CASE i < n
    BY <2>2, <1>2 DEF StackFine
  <2>3. CASE i = n
    <3>1. stack # << >>
      BY <2>1
    <3> QED
      BY <2>3, <3>1, <1>7
  <2> QED
    BY <2>2, <2>3, <1>3
<1>9. \A i \in DOMAIN r : i < Len(r) => r[i].at \in {"imports", "typed", "extended"}
  BY <1>3, <1>4, <1>8
<1>10. Once(r)
  <2>1. SUFFICES ASSUME NEW i \in DOMAIN r, NEW j \in DOMAIN r, i < j, r[i].file = r[j].file
                 PROVE  j = Len(r) /\ r[j].at = "enter"
    BY DEF Once
  <2>2. CASE j = n + 1
    BY <2>2, <1>3
  <2>3. CASE j \in DOMAIN stack
    <3>1. i \in DOMAIN stack
      BY <2>1, <2>3, <1>3
    <3>2. stack[j].at = "enter"
      BY <2>1, <2>3, <3>1, <1>3 DEF StackFine, Once
    <3> QED
      BY <2>3, <3>2, <1>8
  <2> QED
    BY <2>2, <2>3, <1>4
<1>11. mode = DIRECT => Len(r) <= 1
  <2>1. SUFFICES ASSUME mode = DIRECT PROVE n = 0
    BY <1>3
  <2>2. stack = << >>
    BY <2>1
  <2> QED
    BY <2>2, <1>2
<1>12. StackFine(r, p, mode)
  BY <1>3, <1>5, <1>6, <1>9, <1>10, <1>11, StackSame
<1> QED
  BY <1>1, <1>12

(* The innermost builder returns.                                            *)
LEMMA PopFine ==
  ASSUME NEW stack \in Seq(BuilderRecord), NEW p, NEW mode, StackFine(stack, p, mode),
         stack # << >>, Last(stack).at # "imports"
  PROVE  StackFine(Front(stack), p, mode)
<1>1. PICK r : r = Front(stack)
  OBVIOUS
<1>2. PICK n : n = Len(stack)
  OBVIOUS
<1>3. /\ r \in Seq(BuilderRecord) /\ Len(r) = n - 1 /\ DOMAIN r = 1..(n - 1)
      /\ n \in Nat \ {0} /\ DOMAIN stack = 1..n /\ Last(stack) = stack[n]
      /\ \A i \in 1..(n - 1) : r[i] = stack[i]
  BY <1>1, <1>2, FrontFacts
<1>4. \A i : i \in DOMAIN r <=> i \in DOMAIN stack /\ i # n
  BY <1>3
<1>5. \A i \in DOMAIN r : r[i] = stack[i] /\ i \in DOMAIN stack /\ i < n /\ i # n
  BY <1>3
<1>6. AtWork(r, {"imports"}) = AtWork(stack, {"imports"})
  BY <1>3, <1>4, <1>5 DEF AtWork
<1>7. \A i \in AtWork(stack, {"imports"}) : r[i].file = stack[i].file
  BY <1>5, <1>6 DEF AtWork
<1>8. \A i \in DOMAIN r : i < Len(r) => r[i].at \in {"imports", "typed", "extended"}
  BY <1>2, <1>5 DEF StackFine
<1>9. Once(r)
  BY <1>2, <1>5 DEF StackFine, Once
<1>10. mode = DIRECT => Len(r) <= 1
  BY <1>2, <1>3 DEF StackFine
<1>11. StackFine(r, p, mode)
  BY <1>3, <1>6, <1>7, <1>8, <1>9, <1>10, StackSame
<1> QED
  BY <1>1, <1>11

(* A file that no other builder builds is built.                             *)
LEMMA EnterAddFine ==
  ASSUME NEW stack \in Seq(BuilderRecord), NEW p, NEW mode, StackFine(stack, p, mode),
         stack # << >>, NEW b \in BuilderRecord, b.file = Last(stack).file,
         Last(stack).at = "enter", b.at = "add",
         \A i \in DOMAIN stack : i < Len(stack) => stack[i].file # b.file
  PROVE  StackFine(SetLast(stack, b), p, mode)
<1>1. PICK r : r = SetLast(stack, b)
  OBVIOUS
<1>2. /\ r \in Seq(BuilderRecord) /\ Len(r) = Len(stack) /\ DOMAIN r = DOMAIN stack
      /\ r[Len(stack)] = b /\ \A i \in DOMAIN stack : i # Len(stack) => r[i] = stack[i]
      /\ Last(stack) = stack[Len(stack)] /\ Len(stack) \in Nat /\ DOMAIN stack = 1..Len(stack)
  BY <1>1, SetLastFacts
<1>3. AtWork(r, {"imports"}) = AtWork(stack, {"imports"})
  BY <1>2 DEF AtWork
<1>4. \A i \in DOMAIN stack : r[i].file = stack[i].file
  BY <1>2
<1>5. \A i \in DOMAIN r : i < Len(r) => r[i].at \in {"imports", "typed", "extended"}
  BY <1>2 DEF StackFine
<1>6. Once(r)
  <2>1. SUFFICES ASSUME NEW i \in DOMAIN r, NEW j \in DOMAIN r, i < j, r[i].file = r[j].file
                 PROVE  FALSE
    BY DEF Once
  <2>2. stack[i].file = stack[j].file /\ i \in DOMAIN stack /\ j \in DOMAIN stack
    BY <2>1, <1>2, <1>4
  <2>3. j = Len(stack)
    BY <2>1, <2>2 DEF StackFine, Once
  <2> QED
    BY <2>1, <2>2, <2>3, <1>2
<1>7. mode = DIRECT => Len(r) <= 1
  BY <1>2 DEF StackFine
<1>8. \A i \in AtWork(stack, {"imports"}) : r[i].file = stack[i].file
  BY <1>4 DEF AtWork
<1>9. StackFine(r, p, mode)
  BY <1>2, <1>3, <1>5, <1>6, <1>7, <1>8, StackSame
<1> QED
  BY <1>1, <1>9

(* The same, after its imports.                                              *)
LEMMA EnterImportsFine ==
  ASSUME NEW stack \in Seq(BuilderRecord), NEW p \in Seq(File), NEW mode, StackFine(stack, p, mode),
         stack # << >>, NEW b \in BuilderRecord, b.file = Last(stack).file,
         Last(stack).at = "enter", b.at = "imports", mode = DATABASE,
         \A i \in DOMAIN stack : i < Len(stack) => stack[i].file # b.file
  PROVE  StackFine(SetLast(stack, b), Append(p, b.file), mode)
<1>1. PICK r : r = SetLast(stack, b)
  OBVIOUS
<1>2. PICK n : n = Len(stack)
  OBVIOUS
<1>3. /\ r \in Seq(BuilderRecord) /\ Len(r) = n /\ DOMAIN r = DOMAIN stack
      /\ r[n] = b /\ \A i \in DOMAIN stack : i # n => r[i] = stack[i]
      /\ Last(stack) = stack[n] /\ n \in Nat /\ DOMAIN stack = 1..n /\ n \in DOMAIN stack
  BY <1>1, <1>2, SetLastFacts
<1>4. AtWork(r, {"imports"}) = AtWork(stack, {"imports"}) \cup {n}
  BY <1>3 DEF AtWork
<1>5. \A i \in DOMAIN stack : r[i].file = stack[i].file
  BY <1>3
<1>6. \A i \in DOMAIN r : i < Len(r) => r[i].at \in {"imports", "typed", "extended"}
  BY <1>2, <1>3 DEF StackFine
<1>7. Once(r)
  <2>1. SUFFICES ASSUME NEW i \in DOMAIN r, NEW j \in DOMAIN r, i < j, r[i].file = r[j].file
                 PROVE  FALSE
    BY DEF Once
  <2>2. stack[i].file = stack[j].file /\ i \in DOMAIN stack /\ j \in DOMAIN stack
    BY <2>1, <1>3, <1>5
  <2>3. j = n
    BY <2>1, <2>2, <1>2 DEF StackFine, Once
  <2> QED
    BY <2>1, <2>2, <2>3, <1>2, <1>3
<1>8. mode = DIRECT => Len(r) <= 1
  BY DEF DATABASE, DIRECT
<1>9. InOrder(p, AtWork(stack, {"imports"}), r)
  <2>1. InOrder(p, AtWork(stack, {"imports"}), stack)
    BY DEF StackFine
  <2>2. \A i \in AtWork(stack, {"imports"}) : r[i].file = stack[i].file
    BY <1>5 DEF AtWork
  <2> QED
    BY <2>1, <2>2, OrderSame
<1>10. \A i \in AtWork(stack, {"imports"}) : i \in Nat /\ i < n /\ r[i].file # r[n].file
  BY <1>2, <1>3 DEF AtWork
<1>11. r[n].file \in File /\ r[n].file = b.file
  BY <1>3 DEF BuilderRecord
<1>12. InOrder(Append(p, r[n].file), AtWork(stack, {"imports"}) \cup {n}, r)
  BY <1>3, <1>9, <1>10, <1>11, OrderOpens
<1>13. StackFine(r, Append(p, b.file), mode)
  BY <1>4, <1>6, <1>7, <1>8, <1>11, <1>12 DEF StackFine
<1> QED
  BY <1>1, <1>13

(* The imports are loaded.                                                   *)
LEMMA ImportsOverFine ==
  ASSUME NEW stack \in Seq(BuilderRecord), NEW p \in Seq(File), NEW mode, StackFine(stack, p, mode),
         stack # << >>, NEW b \in BuilderRecord, b.file = Last(stack).file,
         Last(stack).at = "imports", b.at = "add"
  PROVE  p # << >> /\ StackFine(SetLast(stack, b), Front(p), mode)
<1>1. PICK r : r = SetLast(stack, b)
  OBVIOUS
<1>2. PICK n : n = Len(stack)
  OBVIOUS
<1>3. /\ r \in Seq(BuilderRecord) /\ Len(r) = n /\ DOMAIN r = DOMAIN stack
      /\ r[n] = b /\ \A i \in DOMAIN stack : i # n => r[i] = stack[i]
      /\ Last(stack) = stack[n] /\ n \in Nat /\ DOMAIN stack = 1..n /\ n \in DOMAIN stack
  BY <1>1, <1>2, SetLastFacts
<1>4. AtWork(r, {"imports"}) = AtWork(stack, {"imports"}) \ {n}
  BY <1>3 DEF AtWork
<1>5. \A i \in DOMAIN stack : r[i].file = stack[i].file
  BY <1>3
<1>6. \A i \in DOMAIN r : i < Len(r) => r[i].at \in {"imports", "typed", "extended"}
  BY <1>2, <1>3 DEF StackFine
<1>7. \A i, j \in DOMAIN stack : i < j => stack[i].file # stack[j].file
  BY <1>2, <1>3 DEF StackFine, Once
<1>8. Once(r)
  BY <1>3, <1>5, <1>7 DEF Once
<1>9. mode = DIRECT => Len(r) <= 1
  BY <1>2, <1>3 DEF StackFine
<1>10. n \in AtWork(stack, {"imports"})
  BY <1>3 DEF AtWork
<1>11. InOrder(p, AtWork(stack, {"imports"}), r)
  <2>1. InOrder(p, AtWork(stack, {"imports"}), stack)
    BY DEF StackFine
  <2>2. \A i \in AtWork(stack, {"imports"}) : r[i].file = stack[i].file
    BY <1>5 DEF AtWork
  <2> QED
    BY <2>1, <2>2, OrderSame
<1>12. \A i \in AtWork(stack, {"imports"}) :
         i \in Nat /\ (i = n \/ (i < n /\ r[i].file # r[n].file))
  BY <1>3, <1>5, <1>7 DEF AtWork
<1>13. p # << >> /\ InOrder(Front(p), AtWork(stack, {"imports"}) \ {n}, r)
  BY <1>10, <1>11, <1>12, OrderCloses
<1>14. mode # DATABASE => AtWork(r, {"imports"}) = {}
  BY <1>4 DEF StackFine
<1>15. StackFine(r, Front(p), mode)
  BY <1>4, <1>6, <1>8, <1>9, <1>13, <1>14 DEF StackFine
<1> QED
  BY <1>1, <1>13, <1>15

(* Steps of builders that record nothing, or go on recording.                *)
LEMMA WorkRelabel ==
  ASSUME NEW stack \in Seq(BuilderRecord), stack # << >>, NEW b \in BuilderRecord,
         b.file = Last(stack).file, Last(stack).errors => b.errors,
         b.at \in Recorded <=> Last(stack).at \in Recorded
  PROVE  SameWork(stack, SetLast(stack, b))
<1>1. PICK r : r = SetLast(stack, b)
  OBVIOUS
<1>2. /\ DOMAIN r = DOMAIN stack /\ r[Len(stack)] = b /\ Last(stack) = stack[Len(stack)]
      /\ \A i \in DOMAIN stack : i # Len(stack) => r[i] = stack[i]
  BY <1>1, SetLastFacts
<1>3. AtWork(r, Recorded) = AtWork(stack, Recorded)
  BY <1>2 DEF AtWork
<1>4. \A i \in AtWork(stack, Recorded) :
        r[i].file = stack[i].file /\ (stack[i].errors => r[i].errors)
  BY <1>2 DEF AtWork
<1> QED
  BY <1>1, <1>3, <1>4 DEF SameWork

(* A builder that starts has recorded nothing.                               *)
LEMMA WorkPush ==
  ASSUME NEW stack \in Seq(BuilderRecord), NEW f \in File
  PROVE  SameWork(stack, Append(stack, Builder(f)))
<1>1. PICK r : r = Append(stack, Builder(f))
  OBVIOUS
<1>2. PICK n : n = Len(stack)
  OBVIOUS
<1>3. /\ DOMAIN r = 1..(n + 1) /\ r[n + 1].at = "enter" /\ \A i \in DOMAIN stack : r[i] = stack[i]
      /\ n \in Nat /\ DOMAIN stack = 1..n
  BY <1>1, <1>2, PushFacts
<1>4. \A i : i \in DOMAIN r <=> i \in DOMAIN stack \/ i = n + 1
  BY <1>3
<1>5. AtWork(r, Recorded) = AtWork(stack, Recorded)
  BY <1>3, <1>4 DEF AtWork, Recorded
<1>6. \A i \in AtWork(stack, Recorded) :
        r[i].file = stack[i].file /\ (stack[i].errors => r[i].errors)
  BY <1>3 DEF AtWork
<1> QED
  BY <1>1, <1>5, <1>6 DEF SameWork

(* Nor has one that returns before it adds its file.                         *)
LEMMA WorkPop ==
  ASSUME NEW stack \in Seq(BuilderRecord), stack # << >>, Last(stack).at \notin Recorded
  PROVE  SameWork(stack, Front(stack))
<1>1. PICK r : r = Front(stack)
  OBVIOUS
<1>2. PICK n : n = Len(stack)
  OBVIOUS
<1>3. /\ DOMAIN r = 1..(n - 1) /\ n \in Nat \ {0} /\ DOMAIN stack = 1..n /\ Last(stack) = stack[n]
      /\ \A i \in 1..(n - 1) : r[i] = stack[i]
  BY <1>1, <1>2, FrontFacts
<1>4. \A i : i \in DOMAIN r <=> i \in DOMAIN stack /\ i # n
  BY <1>3
<1>5. \A i \in DOMAIN r : r[i] = stack[i] /\ i \in DOMAIN stack
  BY <1>3
<1>6. AtWork(r, Recorded) = AtWork(stack, Recorded)
  BY <1>3, <1>4, <1>5 DEF AtWork
<1>7. \A i \in AtWork(stack, Recorded) :
        r[i].file = stack[i].file /\ (stack[i].errors => r[i].errors)
  BY <1>5, <1>6 DEF AtWork
<1> QED
  BY <1>1, <1>6, <1>7 DEF SameWork

(* One such step after another.                                              *)
LEMMA WorkTransitive ==
  ASSUME NEW stack, NEW middle, NEW next, SameWork(stack, middle), SameWork(middle, next)
  PROVE  SameWork(stack, next)
BY DEF SameWork

-----------------------------------------------------------------------------
(* Lemmas about the database and the builder at work. *)

(* What the assumptions say of the database.                                  *)
LEMMA DatabaseFacts ==
  ASSUME Typed
  PROVE  /\ NULL \notin File /\ Clash \notin File /\ NULL # Clash
         /\ Symbol = File \cup {Clash}
         /\ db.mode \in {DATABASE, LAZY, DIRECT} /\ db.protos \subseteq File
         /\ db.imports \in [File -> SUBSET File]
         /\ db.type \in [File -> File \cup {NULL}]
         /\ db.extendee \in [File -> File \cup {NULL}]
         /\ db.index \in [Symbol -> File \cup {NULL}]
         /\ db.mode = LAZY =>
              /\ db.invalid = {} /\ db.clash = {}
              /\ \A f \in db.protos :
                   /\ db.index[f] = f /\ f \notin db.imports[f]
                   /\ {db.type[f], db.extendee[f]} \subseteq db.protos \cup {NULL}
<1>1. db \in Databases
  BY DEF Typed
<1>2. db \in DatabaseType
  BY <1>1, DatabasesAssumption
<1>3. db.mode = LAZY =>
        /\ db.invalid = {} /\ db.clash = {}
        /\ \A f \in db.protos :
             /\ db.index[f] = f /\ f \notin db.imports[f]
             /\ {db.type[f], db.extendee[f]} \subseteq db.protos \cup {NULL}
  BY <1>1, LazyAssumption
<1>4. NULL \notin File /\ Clash \notin File /\ NULL # Clash /\ Symbol = File \cup {Clash}
  BY DatabasesAssumption DEF Symbol
<1>5. /\ db.mode \in {DATABASE, LAZY, DIRECT} /\ db.protos \subseteq File
      /\ db.imports \in [File -> SUBSET File]
      /\ db.type \in [File -> File \cup {NULL}]
      /\ db.extendee \in [File -> File \cup {NULL}]
      /\ db.index \in [Symbol -> File \cup {NULL}]
  BY <1>2 DEF DatabaseType
<1> QED
  BY <1>3, <1>4, <1>5

(* The innermost builder and its next steps.                                 *)
LEMMA TopFacts ==
  ASSUME Typed, builders # << >>
  PROVE  /\ builders \in Seq(BuilderRecord) /\ Top \in BuilderRecord /\ Top = builders[Len(builders)]
         /\ Top.file \in File /\ Top.at \in Labels /\ Top.errors \in BOOLEAN
         /\ Len(builders) \in DOMAIN builders /\ Len(builders) \in Nat \ {0}
         /\ DOMAIN builders = 1..Len(builders)
         /\ \A b : SetTop(b) = SetLast(builders, b)
         /\ \A label \in Labels :
              /\ Goes(label) \in BuilderRecord /\ Goes(label).at = label
              /\ Goes(label).file = Top.file /\ Goes(label).errors = Top.errors
              /\ Errs(label) \in BuilderRecord /\ Errs(label).at = label
              /\ Errs(label).file = Top.file /\ Errs(label).errors
<1>1. builders \in Seq(BuilderRecord)
  BY DEF Typed
<1>2. /\ Top \in BuilderRecord /\ Top = builders[Len(builders)]
      /\ Len(builders) \in DOMAIN builders /\ Len(builders) \in Nat \ {0}
      /\ DOMAIN builders = 1..Len(builders)
  <2>1. Len(builders) \in Nat \ {0}
    BY <1>1, EmptySeq
  <2> QED
    BY <1>1, <2>1 DEF Top, Last
<1>3. \A b : SetTop(b) = SetLast(builders, b)
  BY DEF SetTop, SetLast
<1>4. PICK c : c = Top
  OBVIOUS
<1>5. c \in BuilderRecord
  BY <1>2, <1>4
<1>6. ASSUME NEW label \in Labels
      PROVE  /\ Goes(label) \in BuilderRecord /\ Goes(label).at = label
             /\ Goes(label).file = Top.file /\ Goes(label).errors = Top.errors
  <2>1. PICK d : d = [c EXCEPT !.at = label]
    OBVIOUS
  <2>2. d \in BuilderRecord /\ d.at = label /\ d.file = c.file /\ d.errors = c.errors
    BY <2>1, <1>5 DEF BuilderRecord
  <2> QED
    BY <2>1, <2>2, <1>4 DEF Goes
<1>7. ASSUME NEW label \in Labels
      PROVE  /\ Errs(label) \in BuilderRecord /\ Errs(label).at = label
             /\ Errs(label).file = Top.file /\ Errs(label).errors
  <2>1. PICK d : d = [c EXCEPT !.at = label, !.errors = TRUE]
    OBVIOUS
  <2>2. d \in BuilderRecord /\ d.at = label /\ d.file = c.file /\ d.errors = TRUE
    BY <2>1, <1>5 DEF BuilderRecord
  <2> QED
    BY <2>1, <2>2, <1>4 DEF Errs
<1>8. Top.file \in File /\ Top.at \in Labels /\ Top.errors \in BOOLEAN
  BY <1>2 DEF BuilderRecord
<1> QED
  BY <1>1, <1>2, <1>3, <1>6, <1>7, <1>8

(* The step that leaves the tables alone and records nothing.                *)
LEMMA TablesStay ==
  ASSUME TablesOK, UNCHANGED <<db, tables, given>>, SameWork(builders, builders'),
         BuildersFine(builders')
  PROVE  TablesOK'
<1>1. /\ db' = db /\ given' = given /\ files_by_name_' = files_by_name_
      /\ symbols_by_name_' = symbols_by_name_ /\ extensions_' = extensions_
      /\ files_after_checkpoint_' = files_after_checkpoint_
      /\ symbols_after_checkpoint_' = symbols_after_checkpoint_
      /\ extensions_after_checkpoint_' = extensions_after_checkpoint_
      /\ checkpoints_' = checkpoints_ /\ finished_building_' = finished_building_
      /\ type_once_' = type_once_ /\ message_type_' = message_type_
  BY DEF tables, entries, after, links
<1>2. LevelsOK'
  BY <1>1 DEF LevelsOK, TablesOK
<1>3. RecordsOK'
  BY <1>1 DEF RecordsOK, TablesOK, FilesSince, SymbolsSince, ExtensionsSince
<1>4. FilesOK'
  <2>1. InOrder(Opened', AtWork(builders', Recorded), builders')
    <3>1. Opened' = Opened
      BY <1>1 DEF Opened
    <3>2. InOrder(Opened, AtWork(builders, Recorded), builders)
      BY DEF TablesOK, FilesOK
    <3> QED
      BY <3>1, <3>2, OrderSame DEF SameWork
  <2>2. {builders'[i].file : i \in AtWork(builders', Recorded)}
          = {builders[i].file : i \in AtWork(builders, Recorded)}
    BY DEF SameWork
  <2> QED
    BY <1>1, <2>1, <2>2 DEF FilesOK, TablesOK
<1>5. EntriesOK'
  BY <1>1 DEF EntriesOK, TablesOK, Named, Linked, Extended, Defines
<1>6. BuildersOK'
  BY <1>1 DEF BuildersOK, BuildersFine, BuilderOK, Named, Linked, Extended, Defines
<1>7. ClosedOK'
  <2>1. \A f : Clean(f)' => Clean(f)
    BY <1>1 DEF Clean, SameWork
  <2>2. KeptTables' = KeptTables
    BY <1>1 DEF KeptTables, FilesSince
  <2>3. SUFFICES ASSUME NEW S \in KeptTables PROVE Closed(S)'
    BY <2>2 DEF ClosedOK
  <2>4. Closed(S)
    BY DEF ClosedOK, TablesOK
  <2> QED
    BY <1>1, <2>1, <2>4 DEF Closed
<1> QED
  BY <1>2, <1>3, <1>4, <1>5, <1>6, <1>7 DEF TablesOK

(* The call stays what it was.                                               *)
LEMMA CallStays ==
  ASSUME CallOK, UNCHANGED <<db, call>>, builders' # << >> => builders # << >>
  PROVE  CallOK'
BY DEF CallOK

(* Typed, when only the builders and what they load changes.                 *)
LEMMA TypesStay ==
  ASSUME Typed, UNCHANGED <<db, tables>>, pending_files_' \in Seq(File),
         builders' \in Seq(BuilderRecord), call' \in Calls \cup {NULL}
  PROVE  Typed'
BY DEF Typed, TablesTyped, tables, entries, after, links

(* What the builders know of their own files.                                *)
LEMMA BuildersSet ==
  ASSUME NEW stack \in Seq(BuilderRecord), stack # << >>, BuildersFine(stack),
         NEW b \in BuilderRecord, BuilderOK(b)
  PROVE  BuildersFine(SetLast(stack, b))
<1>1. PICK r : r = SetLast(stack, b)
  OBVIOUS
<1>2. /\ DOMAIN r = DOMAIN stack /\ r[Len(stack)] = b
      /\ \A i \in DOMAIN stack : i # Len(stack) => r[i] = stack[i]
  BY <1>1, SetLastFacts
<1>3. \A i \in DOMAIN r : r[i] = b \/ (i \in DOMAIN stack /\ r[i] = stack[i])
  BY <1>2
<1>4. ASSUME NEW i \in DOMAIN r PROVE BuilderOK(r[i])
  BY <1>3 DEF BuildersFine
<1> QED
  BY <1>1, <1>4 DEF BuildersFine

(* A builder that starts knows nothing of its file.                          *)
LEMMA BuildersPush ==
  ASSUME NEW stack \in Seq(BuilderRecord), BuildersFine(stack), NEW f \in File
  PROVE  BuildersFine(Append(stack, Builder(f)))
<1>1. PICK r : r = Append(stack, Builder(f))
  OBVIOUS
<1>2. PICK b : b = Builder(f)
  OBVIOUS
<1>3. /\ DOMAIN r = 1..(Len(stack) + 1) /\ r[Len(stack) + 1] = b
      /\ \A i \in DOMAIN stack : r[i] = stack[i]
      /\ Len(stack) \in Nat /\ DOMAIN stack = 1..Len(stack) /\ b.at = "enter"
  BY <1>1, <1>2, PushFacts
<1>4. \A i \in DOMAIN r : r[i] = b \/ (i \in DOMAIN stack /\ r[i] = stack[i])
  BY <1>3
<1>5. BuilderOK(b)
  BY <1>3 DEF BuilderOK, Recorded
<1>6. ASSUME NEW i \in DOMAIN r PROVE BuilderOK(r[i])
  BY <1>4, <1>5 DEF BuildersFine
<1> QED
  BY <1>1, <1>6 DEF BuildersFine

(* The other builders know what they knew.                                   *)
LEMMA BuildersPop ==
  ASSUME NEW stack \in Seq(BuilderRecord), stack # << >>, BuildersFine(stack)
  PROVE  BuildersFine(Front(stack))
<1>1. PICK r : r = Front(stack)
  OBVIOUS
<1>2. /\ DOMAIN r = 1..(Len(stack) - 1) /\ \A i \in 1..(Len(stack) - 1) : r[i] = stack[i]
      /\ Len(stack) \in Nat \ {0} /\ DOMAIN stack = 1..Len(stack)
  BY <1>1, FrontFacts
<1>3. \A i \in DOMAIN r : i \in DOMAIN stack /\ r[i] = stack[i]
  BY <1>2
<1>4. ASSUME NEW i \in DOMAIN r PROVE BuilderOK(r[i])
  BY <1>3 DEF BuildersFine
<1> QED
  BY <1>1, <1>4 DEF BuildersFine

-----------------------------------------------------------------------------
(* Lemmas about a pool that builds imports lazily. *)

(* A file of the tables is found under its name, any other is not.           *)
LEMMA LazyNames ==
  ASSUME Typed, TablesOK, db.mode = LAZY, LazyStack(builders), NEW f \in File
  PROVE  symbols_by_name_[f] = IF f \in files_by_name_ THEN f ELSE NULL
<1>1. CASE f \in finished_building_
  BY <1>1 DEF TablesOK, EntriesOK, FilesOK, Named, Defines
<1>2. CASE f \in files_by_name_ \ finished_building_
  <2>1. PICK i \in AtWork(builders, Recorded) : builders[i].file = f
    BY <1>2 DEF TablesOK, FilesOK
  <2>2. i \in DOMAIN builders /\ builders[i].at \in Recorded
    BY <2>1 DEF AtWork
  <2>3. ~ builders[i].errors
    BY <2>2 DEF LazyStack, LazyAt
  <2>4. Named(f)
    BY <2>1, <2>2, <2>3 DEF TablesOK, BuildersOK, BuildersFine, BuilderOK
  <2> QED
    BY <1>2, <2>4 DEF Named, Defines
<1>3. CASE f \notin files_by_name_
  <2>1. SUFFICES ASSUME symbols_by_name_[f] # NULL PROVE FALSE
    BY <1>3
  <2>2. PICK g : g = symbols_by_name_[f]
    OBVIOUS
  <2>3. f \in Symbol
    BY DEF Symbol
  <2>4. g \in files_by_name_ /\ f \in Defines(g)
    BY <2>1, <2>2, <2>3 DEF TablesOK, EntriesOK
  <2>5. f = g
    BY <2>4, DatabaseFacts DEF Defines
  <2> QED
    BY <2>4, <2>5, <1>3
<1>4. finished_building_ \subseteq files_by_name_
  BY DEF TablesOK, FilesOK
<1> QED
  BY <1>1, <1>2, <1>3, <1>4

(* The innermost builder returns, and its file is found.                     *)
LEMMA LazyPop ==
  ASSUME NEW stack \in Seq(BuilderRecord), stack # << >>, LazyStack(stack),
         symbols_by_name_[Last(stack).file] # NULL
  PROVE  LazyStack(Front(stack))
<1>1. PICK r : r = Front(stack)
  OBVIOUS
<1>2. PICK n : n = Len(stack)
  OBVIOUS
<1>3. /\ DOMAIN r = 1..(n - 1) /\ \A i \in 1..(n - 1) : r[i] = stack[i]
      /\ n \in Nat \ {0} /\ DOMAIN stack = 1..n /\ Last(stack) = stack[n] /\ Len(r) = n - 1
  BY <1>1, <1>2, FrontFacts
<1>4. \A i \in DOMAIN r : i \in DOMAIN stack /\ r[i] = stack[i]
  BY <1>3
<1>5. ASSUME NEW i \in DOMAIN r, r[i].at = "extended"
      PROVE  \/ symbols_by_name_[db.extendee[r[i].file]] # NULL
             \/ i < Len(r) /\ r[i + 1].file = db.extendee[r[i].file]
  <2>1. \/ symbols_by_name_[db.extendee[stack[i].file]] # NULL
        \/ stack[i + 1].file = db.extendee[stack[i].file]
    BY <1>4, <1>5 DEF LazyStack, LazyAt
  <2>2. CASE i < n - 1
    <3>1. i + 1 \in DOMAIN r
      BY <2>2, <1>3
    <3> QED
      BY <2>1, <2>2, <3>1, <1>3, <1>4
  <2>3. CASE i = n - 1
    <3>1. i + 1 = n
      BY <2>3, <1>3
    <3> QED
      BY <2>1, <3>1, <1>3, <1>4
  <2> QED
    BY <2>2, <2>3, <1>3
<1>6. ASSUME NEW i \in DOMAIN r PROVE LazyAt(r, i)
  <2>1. LazyAt(stack, i) /\ r[i] = stack[i]
    BY <1>4 DEF LazyStack
  <2> QED
    BY <2>1, <1>5 DEF LazyAt
<1>7. LazyStack(r)
  BY <1>6 DEF LazyStack
<1> QED
  BY <1>1, <1>7

(* The innermost builder goes on.                                            *)
LEMMA LazySet ==
  ASSUME NEW stack \in Seq(BuilderRecord), stack # << >>, LazyStack(stack),
         NEW b \in BuilderRecord, b.file = Last(stack).file, ~ b.errors,
         b.at = "add" => b.file \notin files_by_name_,
         b.at = "typed" => symbols_by_name_[db.type[b.file]] # NULL,
         b.at = "extended" => symbols_by_name_[db.extendee[b.file]] # NULL
  PROVE  LazyStack(SetLast(stack, b))
<1>1. PICK r : r = SetLast(stack, b)
  OBVIOUS
<1>2. PICK n : n = Len(stack)
  OBVIOUS
<1>3. /\ DOMAIN r = DOMAIN stack /\ r[n] = b /\ Last(stack) = stack[n] /\ Len(r) = n
      /\ \A i \in DOMAIN stack : i # n => r[i] = stack[i]
      /\ n \in Nat \ {0} /\ DOMAIN stack = 1..n
  <2>1. /\ DOMAIN SetLast(stack, b) = DOMAIN stack /\ SetLast(stack, b)[Len(stack)] = b
        /\ Last(stack) = stack[Len(stack)] /\ Len(SetLast(stack, b)) = Len(stack)
        /\ Len(stack) \in Nat \ {0} /\ DOMAIN stack = 1..Len(stack)
    BY SetLastFacts
  <2>2. \A i \in DOMAIN stack : i # Len(stack) => SetLast(stack, b)[i] = stack[i]
    BY SetLastFacts
  <2> QED
    BY <2>1, <2>2, <1>1, <1>2
<1>4. \A i \in DOMAIN stack : r[i].file = stack[i].file
  BY <1>3
<1>5. b.file \in db.protos
  BY <1>3 DEF LazyStack, LazyAt
<1>6. ASSUME NEW i \in DOMAIN r, i # n, r[i].at = "extended"
      PROVE  \/ symbols_by_name_[db.extendee[r[i].file]] # NULL
             \/ i < Len(r) /\ r[i + 1].file = db.extendee[r[i].file]
  <2>1. i + 1 \in DOMAIN stack /\ i < n
    BY <1>3, <1>6
  <2> QED
    BY <2>1, <1>2, <1>3, <1>4, <1>6 DEF LazyStack, LazyAt
<1>7. \A i \in DOMAIN r : i = n \/ (i # n /\ i \in DOMAIN stack /\ r[i] = stack[i])
  BY <1>3
<1>8. LazyAt(r, n)
  BY <1>3, <1>5 DEF LazyAt
<1>9. ASSUME NEW i \in DOMAIN r, i # n PROVE LazyAt(r, i)
  <2>1. LazyAt(stack, i) /\ r[i] = stack[i]
    BY <1>7, <1>9 DEF LazyStack
  <2> QED
    BY <2>1, <1>6, <1>9 DEF LazyAt
<1>10. LazyStack(r)
  BY <1>8, <1>9 DEF LazyStack
<1> QED
  BY <1>1, <1>10

(* The innermost builder starts the build of what it extends.                *)
LEMMA LazySeek ==
  ASSUME NEW stack \in Seq(BuilderRecord), stack # << >>, LazyStack(stack),
         NEW b \in BuilderRecord, b.file = Last(stack).file, ~ b.errors, b.at = "extended",
         NEW f \in File, f \in db.protos, db.extendee[b.file] = f
  PROVE  LazyStack(Append(SetLast(stack, b), Builder(f)))
<1>1. PICK m : m = SetLast(stack, b)
  OBVIOUS
<1>2. PICK n : n = Len(stack)
  OBVIOUS
<1>3. /\ m \in Seq(BuilderRecord) /\ DOMAIN m = DOMAIN stack /\ m[n] = b /\ Len(m) = n
      /\ \A i \in DOMAIN stack : i # n => m[i] = stack[i]
      /\ Last(stack) = stack[n] /\ n \in Nat \ {0} /\ DOMAIN stack = 1..n
  <2>1. /\ DOMAIN SetLast(stack, b) = DOMAIN stack /\ SetLast(stack, b)[Len(stack)] = b
        /\ Last(stack) = stack[Len(stack)] /\ Len(SetLast(stack, b)) = Len(stack)
        /\ Len(stack) \in Nat \ {0} /\ DOMAIN stack = 1..Len(stack)
    BY SetLastFacts
  <2>2. SetLast(stack, b) \in Seq(BuilderRecord)
    BY SetLastFacts
  <2>3. \A i \in DOMAIN stack : i # Len(stack) => SetLast(stack, b)[i] = stack[i]
    BY SetLastFacts
  <2> QED
    BY <2>1, <2>2, <2>3, <1>1, <1>2
<1>4. PICK r : r = Append(m, Builder(f))
  OBVIOUS
<1>5. PICK c : c = Builder(f)
  OBVIOUS
<1>6. /\ DOMAIN r = 1..(n + 1) /\ r[n + 1] = c /\ Len(r) = n + 1
      /\ \A i \in DOMAIN stack : r[i] = m[i]
      /\ c.at = "enter" /\ c.file = f /\ ~ c.errors
  BY <1>3, <1>4, <1>5, PushFacts
<1>7. \A i \in DOMAIN stack : r[i].file = stack[i].file
  BY <1>3, <1>6
<1>8. b.file \in db.protos
  BY <1>3 DEF LazyStack, LazyAt
<1>9. ASSUME NEW i \in DOMAIN stack, i # n, r[i].at = "extended"
      PROVE  \/ symbols_by_name_[db.extendee[r[i].file]] # NULL
             \/ i < Len(r) /\ r[i + 1].file = db.extendee[r[i].file]
  <2>1. i + 1 \in DOMAIN stack /\ i < n /\ i < n + 1 /\ r[i] = stack[i]
    BY <1>3, <1>6, <1>9
  <2> QED
    BY <2>1, <1>2, <1>6, <1>7, <1>9 DEF LazyStack, LazyAt
<1>10. \A i \in DOMAIN r : \/ i = n + 1 \/ i = n
                           \/ (i # n /\ i \in DOMAIN stack /\ r[i] = stack[i])
  BY <1>3, <1>6
<1>11. r[n] = b /\ n < Len(r) /\ r[n + 1] = c
  BY <1>3, <1>6
<1>12. LazyAt(r, n)
  <2>1. r[n].at = "extended" /\ ~ r[n].errors /\ r[n].file \in db.protos
    BY <1>8, <1>11
  <2>2. r[n + 1].file = db.extendee[r[n].file]
    BY <1>6, <1>11
  <2> QED
    BY <2>1, <2>2, <1>11 DEF LazyAt
<1>13. LazyAt(r, n + 1)
  BY <1>6 DEF LazyAt
<1>14. ASSUME NEW i \in DOMAIN stack, i # n PROVE LazyAt(r, i)
  <2>1. LazyAt(stack, i) /\ r[i] = stack[i]
    BY <1>3, <1>6, <1>14 DEF LazyStack
  <2> QED
    BY <2>1, <1>9, <1>14 DEF LazyAt
<1>15. LazyStack(r)
  BY <1>10, <1>12, <1>13, <1>14 DEF LazyStack
<1> QED
  BY <1>1, <1>4, <1>15

(* A call starts a build.                                                    *)
LEMMA LazyStart ==
  ASSUME NEW f \in File, f \in db.protos
  PROVE  LazyStack(Append(<< >>, Builder(f)))
<1>1. PICK r : r = Append(<< >>, Builder(f))
  OBVIOUS
<1>2. PICK c : c = Builder(f)
  OBVIOUS
<1>3. << >> \in Seq(BuilderRecord) /\ Len(<< >>) = 0
  BY EmptySeq
<1>4. /\ DOMAIN r = 1..1 /\ r[1] = c /\ c.at = "enter" /\ c.file = f /\ ~ c.errors
  <2>1. PICK stack : stack = << >>
    OBVIOUS
  <2>2. stack \in Seq(BuilderRecord) /\ Len(stack) = 0
    BY <2>1, <1>3
  <2>3. /\ DOMAIN Append(stack, Builder(f)) = 1..(Len(stack) + 1)
        /\ Append(stack, Builder(f))[Len(stack) + 1] = Builder(f)
        /\ Builder(f).at = "enter" /\ Builder(f).file = f /\ ~ Builder(f).errors
    BY <2>2, PushFacts
  <2>4. 0 + 1 = 1
    OBVIOUS
  <2> QED
    BY <2>1, <2>2, <2>3, <2>4, <1>1, <1>2
<1>5. \A i \in DOMAIN r : r[i] = c
  BY <1>4
<1>6. LazyStack(r)
  BY <1>4, <1>5 DEF LazyStack, LazyAt
<1> QED
  BY <1>1, <1>6

(* LazyOK, when the innermost builder goes on, returns, or starts another.   *)
LEMMA LazyStays ==
  ASSUME LazyOK, builders # << >>, UNCHANGED <<db, files_by_name_, symbols_by_name_, call>>,
         db.mode = LAZY =>
           /\ LazyStack(builders') /\ UNCHANGED bad
           /\ \/ builders' # << >> /\ builders'[1].file = builders[1].file
              \/ symbols_by_name_[builders[1].file] # NULL
  PROVE  LazyOK'
<1>1. SUFFICES ASSUME db.mode = LAZY PROVE LazyOK'
  BY DEF LazyOK
<1>2. LazyStack(builders)'
  BY <1>1 DEF LazyStack, LazyAt
<1>3. known_bad_files_' = {} /\ known_bad_symbols_' = {}
  BY <1>1 DEF LazyOK, bad
<1>4. call # NULL /\ call.op = "message_type" /\ call.at = "answer" =>
        \/ symbols_by_name_[call.name] # NULL
        \/ (builders' # << >> /\ builders'[1].file = call.name)
  BY <1>1 DEF LazyOK
<1>5. files_by_name_ \subseteq db.protos
  BY <1>1 DEF LazyOK
<1> QED
  BY <1>2, <1>3, <1>4, <1>5 DEF LazyOK

(* The outermost builder builds what it built.                               *)
LEMMA FirstSame ==
  ASSUME NEW stack \in Seq(BuilderRecord), stack # << >>, NEW b \in BuilderRecord,
         b.file = Last(stack).file
  PROVE  SetLast(stack, b)[1].file = stack[1].file
<1>1. PICK n : n = Len(stack)
  OBVIOUS
<1>2. PICK r : r = SetLast(stack, b)
  OBVIOUS
<1>3. /\ r[n] = b /\ Last(stack) = stack[n] /\ n \in Nat \ {0} /\ DOMAIN stack = 1..n
      /\ \A i \in DOMAIN stack : i # n => r[i] = stack[i]
  BY <1>1, <1>2, SetLastFacts
<1>4. 1 \in DOMAIN stack
  BY <1>3
<1> QED
  BY <1>2, <1>3, <1>4

-----------------------------------------------------------------------------
(* The steps of a builder that leave the tables alone. *)

(* The innermost builder returns before it adds its file.                    *)
LEMMA ReturnKeeps ==
  ASSUME IInv, builders # << >>, Top.at \in {"enter", "add"}, NEW r, Return(r),
         UNCHANGED <<db, tables, pending_files_>>,
         db.mode = LAZY => r # NULL /\ symbols_by_name_[Top.file] # NULL
  PROVE  IInv'
<1>1. builders' = Front(builders) /\ UNCHANGED <<call, given>>
  BY DEF Return
<1>2. builders \in Seq(BuilderRecord) /\ Top = Last(builders)
  BY TopFacts DEF IInv, Top
<1>3. PICK n : n = Len(builders)
  OBVIOUS
<1>4. /\ Front(builders) \in Seq(BuilderRecord) /\ n \in Nat \ {0}
      /\ DOMAIN Front(builders) = 1..(n - 1) /\ \A i \in 1..(n - 1) : Front(builders)[i] = builders[i]
      /\ Last(builders) = builders[n]
  BY <1>2, <1>3, FrontFacts
<1>5. Typed'
  BY <1>1, <1>4, TypesStay DEF IInv, Typed
<1>6. StackOK'
  BY <1>1, <1>2, PopFine DEF IInv, StackOK
<1>7. CallOK'
  BY <1>1, CallStays DEF IInv
<1>8. TablesOK'
  <2>1. SameWork(builders, builders')
    BY <1>1, <1>2, WorkPop DEF Recorded
  <2>2. BuildersFine(builders')
    BY <1>1, <1>2, BuildersPop DEF IInv, TablesOK, BuildersOK
  <2> QED
    BY <1>1, <2>1, <2>2, TablesStay DEF IInv
<1>9. LazyOK'
  <2>1. UNCHANGED <<files_by_name_, symbols_by_name_>>
    BY DEF tables, entries
  <2>2. ASSUME db.mode = LAZY PROVE UNCHANGED bad /\ LazyStack(builders')
    BY <2>2, <1>1, <1>2, LazyPop DEF IInv, LazyOK, Return
  <2>3. ASSUME db.mode = LAZY
        PROVE  \/ builders' # << >> /\ builders'[1].file = builders[1].file
               \/ symbols_by_name_[builders[1].file] # NULL
    <3>1. CASE n = 1
      BY <3>1, <2>3, <1>2, <1>4
    <3>2. CASE n # 1
      <4>1. 1 \in DOMAIN Front(builders) /\ Front(builders)[1] = builders[1]
        BY <3>2, <1>4
      <4> QED
        BY <4>1, <1>1
    <3> QED
      BY <3>1, <3>2
  <2> QED
    BY <1>1, <2>1, <2>2, <2>3, LazyStays DEF IInv
<1> QED
  BY <1>5, <1>6, <1>7, <1>8, <1>9 DEF IInv

(* The innermost builder goes on: all but the tables.                        *)
LEMMA RelabelKeeps ==
  ASSUME IInv, builders # << >>, NEW b \in BuilderRecord, b.file = Top.file,
         Top.at # "enter", b.at = "imports" <=> Top.at = "imports",
         builders' = SetLast(builders, b),
         UNCHANGED <<db, files_by_name_, symbols_by_name_, pending_files_, call>>,
         db.mode = LAZY =>
           /\ UNCHANGED bad /\ ~ b.errors
           /\ b.at = "add" => b.file \notin files_by_name_
           /\ b.at = "typed" => symbols_by_name_[db.type[b.file]] # NULL
           /\ b.at = "extended" => symbols_by_name_[db.extendee[b.file]] # NULL
  PROVE  /\ builders' \in Seq(BuilderRecord) /\ StackOK' /\ CallOK' /\ LazyOK'
         /\ (b.at \in Recorded <=> Top.at \in Recorded) /\ (Top.errors => b.errors) =>
              SameWork(builders, builders')
<1>1. builders \in Seq(BuilderRecord) /\ Top = Last(builders)
  BY TopFacts DEF IInv, Top
<1>2. builders' \in Seq(BuilderRecord) /\ builders' # << >>
  BY <1>1, SetLastFacts
<1>3. StackOK'
  BY <1>1, RelabelFine DEF IInv, StackOK
<1>4. CallOK'
  BY CallStays DEF IInv
<1>5. (b.at \in Recorded <=> Top.at \in Recorded) /\ (Top.errors => b.errors) =>
        SameWork(builders, builders')
  BY <1>1, WorkRelabel
<1>6. LazyOK'
  <2>1. ASSUME db.mode = LAZY PROVE LazyStack(builders')
    <3>1. LazyStack(builders)
      BY <2>1 DEF IInv, LazyOK
    <3> QED
      BY <3>1, <2>1, <1>1, LazySet
  <2>2. builders'[1].file = builders[1].file
    BY <1>1, FirstSame
  <2> QED
    BY <1>2, <2>1, <2>2, LazyStays DEF IInv
<1> QED
  BY <1>2, <1>3, <1>4, <1>5, <1>6

(* The innermost builder goes on to its next step.                           *)
LEMMA GoOnKeeps ==
  ASSUME IInv, builders # << >>, NEW b \in BuilderRecord, b.file = Top.file, Top.errors => b.errors,
         Top.at # "enter", b.at = "imports" <=> Top.at = "imports",
         b.at \in Recorded <=> Top.at \in Recorded, BuilderOK(b),
         builders' = SetLast(builders, b), UNCHANGED <<db, tables, pending_files_, call, given>>,
         db.mode = LAZY =>
           /\ UNCHANGED bad /\ ~ b.errors
           /\ b.at = "add" => b.file \notin files_by_name_
           /\ b.at = "typed" => symbols_by_name_[db.type[b.file]] # NULL
           /\ b.at = "extended" => symbols_by_name_[db.extendee[b.file]] # NULL
  PROVE  IInv'
<1>1. builders \in Seq(BuilderRecord) /\ Top = Last(builders)
  BY TopFacts DEF IInv, Top
<1>2. UNCHANGED <<files_by_name_, symbols_by_name_>>
  BY DEF tables, entries
<1>3. /\ builders' \in Seq(BuilderRecord) /\ StackOK' /\ CallOK' /\ LazyOK'
      /\ SameWork(builders, builders')
  BY <1>2, RelabelKeeps
<1>4. Typed'
  BY <1>3, TypesStay DEF IInv, Typed
<1>5. TablesOK'
  <2>1. BuildersFine(builders')
    BY <1>1, BuildersSet DEF IInv, TablesOK, BuildersOK
  <2> QED
    BY <1>3, <2>1, TablesStay DEF IInv
<1> QED
  BY <1>3, <1>4, <1>5 DEF IInv

(* The innermost builder starts another and waits for it.                    *)
LEMMA SeekKeeps ==
  ASSUME IInv, builders # << >>, NEW b \in BuilderRecord, b.file = Top.file, b.errors = Top.errors,
         Top.at # "enter", b.at = "imports" <=> Top.at = "imports",
         b.at \in Recorded <=> Top.at \in Recorded, BuilderOK(b),
         b.at \in {"imports", "typed", "extended"}, db.mode # DIRECT,
         NEW f \in File, builders' = Append(SetLast(builders, b), Builder(f)),
         UNCHANGED <<db, tables, pending_files_, call, given>>,
         db.mode = LAZY =>
           UNCHANGED bad /\ b.at = "extended" /\ f = db.extendee[b.file] /\ f \in db.protos
  PROVE  IInv'
<1>1. builders \in Seq(BuilderRecord) /\ Top = Last(builders)
  BY TopFacts DEF IInv, Top
<1>2. PICK m : m = SetLast(builders, b)
  OBVIOUS
<1>3. m \in Seq(BuilderRecord) /\ m # << >> /\ Last(m) = b
  BY <1>1, <1>2, SetLastFacts
<1>4. builders' = Append(m, Builder(f))
  BY <1>2
<1>5. builders' \in Seq(BuilderRecord) /\ builders' # << >>
  BY <1>3, <1>4, PushFacts
<1>6. Typed'
  BY <1>5, TypesStay DEF IInv, Typed
<1>7. StackOK'
  <2>1. StackFine(m, pending_files_, db.mode)
    BY <1>1, <1>2, RelabelFine DEF IInv, StackOK
  <2>2. StackFine(builders', pending_files_, db.mode)
    BY <2>1, <1>3, <1>4, PushFine
  <2> QED
    BY <2>2 DEF StackOK
<1>8. CallOK'
  BY CallStays DEF IInv
<1>9. TablesOK'
  <2>1. SameWork(builders, m)
    BY <1>1, <1>2, WorkRelabel
  <2>2. SameWork(m, builders')
    BY <1>3, <1>4, WorkPush
  <2>3. SameWork(builders, builders')
    BY <2>1, <2>2, WorkTransitive
  <2>4. BuildersFine(m)
    BY <1>1, <1>2, BuildersSet DEF IInv, TablesOK, BuildersOK
  <2>5. BuildersFine(builders')
    BY <2>4, <1>3, <1>4, BuildersPush
  <2> QED
    BY <2>3, <2>5, TablesStay DEF IInv
<1>10. LazyOK'
  <2>1. UNCHANGED <<files_by_name_, symbols_by_name_>>
    BY DEF tables, entries
  <2>2. ASSUME db.mode = LAZY PROVE LazyStack(builders')
    <3>1. LazyStack(builders)
      BY <2>2 DEF IInv, LazyOK
    <3>2. ~ b.errors
      BY <3>1, TopFacts DEF IInv, LazyStack, LazyAt
    <3> QED
      BY <3>1, <3>2, <2>2, <1>1, LazySeek
  <2>3. builders'[1].file = builders[1].file
    <3>1. DOMAIN m = DOMAIN builders /\ 1 \in DOMAIN builders
      BY <1>1, <1>2, SetLastFacts
    <3>2. \A i \in DOMAIN m : Append(m, Builder(f))[i] = m[i]
      BY <1>3, PushFacts
    <3>3. builders'[1] = m[1]
      BY <3>1, <3>2, <1>4
    <3> QED
      BY <3>3, <1>1, <1>2, FirstSame
  <2> QED
    BY <1>5, <2>1, <2>2, <2>3, LazyStays DEF IInv
<1> QED
  BY <1>6, <1>7, <1>8, <1>9, <1>10 DEF IInv

(* The innermost builder goes on before it adds its file.                    *)
LEMMA AdvanceKeeps ==
  ASSUME IInv, builders # << >>, NEW b \in BuilderRecord, b.file = Top.file, b.errors = Top.errors,
         Top.at \in {"enter", "imports"}, b.at \in {"imports", "add"},
         builders' = SetLast(builders, b), UNCHANGED <<db, tables, bad, call, given>>,
         pending_files_' \in Seq(File), StackFine(builders', pending_files_', db.mode),
         db.mode = LAZY => b.file \notin files_by_name_
  PROVE  IInv'
<1>1. builders \in Seq(BuilderRecord) /\ Top = Last(builders)
  BY TopFacts DEF IInv, Top
<1>2. builders' \in Seq(BuilderRecord) /\ builders' # << >>
  BY <1>1, SetLastFacts
<1>3. Typed'
  BY <1>2, TypesStay DEF IInv, Typed
<1>4. StackOK'
  BY DEF StackOK
<1>5. CallOK'
  BY CallStays DEF IInv
<1>6. b.at \notin Recorded /\ Top.at \notin Recorded
  BY DEF Recorded
<1>7. TablesOK'
  <2>1. SameWork(builders, builders')
    BY <1>1, <1>6, WorkRelabel
  <2>2. BuilderOK(b)
    BY <1>6 DEF BuilderOK
  <2>3. BuildersFine(builders')
    BY <1>1, <2>2, BuildersSet DEF IInv, TablesOK, BuildersOK
  <2> QED
    BY <2>1, <2>3, TablesStay DEF IInv
<1>8. LazyOK'
  <2>1. UNCHANGED <<files_by_name_, symbols_by_name_>>
    BY DEF tables, entries
  <2>2. ASSUME db.mode = LAZY PROVE LazyStack(builders')
    <3>1. LazyStack(builders)
      BY <2>2 DEF IInv, LazyOK
    <3>2. ~ b.errors
      BY <3>1, TopFacts DEF IInv, LazyStack, LazyAt
    <3> QED
      BY <3>1, <3>2, <2>2, <1>1, LazySet
  <2>3. builders'[1].file = builders[1].file
    BY <1>1, FirstSame
  <2> QED
    BY <1>2, <2>1, <2>2, <2>3, LazyStays DEF IInv
<1> QED
  BY <1>3, <1>4, <1>5, <1>7, <1>8 DEF IInv

(* A file that is neither pending nor in the tables is not being built.      *)
LEMMA NewFile ==
  ASSUME IInv, builders # << >>, NEW f,
         f \notin ToSet(pending_files_), f \notin files_by_name_ \/ Len(builders) <= 1
  PROVE  \A i \in DOMAIN builders : i < Len(builders) => builders[i].file # f
<1>1. SUFFICES ASSUME NEW i \in DOMAIN builders, i < Len(builders), builders[i].file = f PROVE FALSE
  OBVIOUS
<1>2. f \notin files_by_name_
  BY <1>1, TopFacts DEF IInv
<1>3. builders[i].at \in {"imports", "typed", "extended"}
  BY <1>1 DEF IInv, StackOK, StackFine
<1>4. CASE builders[i].at = "imports"
  <2>1. i \in AtWork(builders, {"imports"})
    BY <1>4 DEF AtWork
  <2>2. \E k \in DOMAIN pending_files_ : pending_files_[k] = f
    BY <2>1, <1>1 DEF IInv, StackOK, StackFine, InOrder
  <2> QED
    BY <2>2 DEF ToSet
<1>5. CASE builders[i].at \in {"typed", "extended"}
  <2>1. i \in AtWork(builders, Recorded)
    BY <1>5 DEF AtWork, Recorded
  <2>2. f \in files_by_name_
    BY <2>1, <1>1 DEF IInv, TablesOK, FilesOK
  <2> QED
    BY <2>2, <1>2
<1> QED
  BY <1>3, <1>4, <1>5

(* A builder that starts returns, or loads imports, or goes on to add.        *)
LEMMA EnterKeeps ==
  ASSUME IInv, Enter
  PROVE  IInv'
<1>1. builders # << >> /\ Top.at = "enter" /\ UNCHANGED <<db, tables>>
  BY DEF Enter, At
<1>2. PICK f : f = Top.file
  OBVIOUS
<1>3. /\ builders \in Seq(BuilderRecord) /\ Top \in BuilderRecord /\ f \in File
      /\ Top = Last(builders) /\ NULL \notin File
  BY <1>1, <1>2, TopFacts, DatabaseFacts DEF IInv, Top
<1>4. CASE f \in files_by_name_ /\ call.op # "BuildOther"
  <2>1. Return(f) /\ UNCHANGED pending_files_
    BY <1>2, <1>4 DEF Enter
  <2>2. ASSUME db.mode = LAZY PROVE f # NULL /\ symbols_by_name_[Top.file] # NULL
    <3>1. LazyStack(builders)
      BY <2>2 DEF IInv, LazyOK
    <3>2. symbols_by_name_[f] = IF f \in files_by_name_ THEN f ELSE NULL
      BY <3>1, <2>2, <1>3, LazyNames DEF IInv
    <3> QED
      BY <3>2, <1>2, <1>3, <1>4
  <2> QED
    BY <1>1, <2>1, <2>2, ReturnKeeps
<1>5. CASE ~ (f \in files_by_name_ /\ call.op # "BuildOther") /\ f \in ToSet(pending_files_)
  <2>1. Return(NULL) /\ UNCHANGED pending_files_
    BY <1>2, <1>5 DEF Enter
  <2>2. db.mode # LAZY
    <3>1. SUFFICES ASSUME db.mode = LAZY PROVE FALSE
      OBVIOUS
    <3>2. AtWork(builders, {"imports"}) = {}
      BY <3>1 DEF IInv, StackOK, StackFine, LAZY, DATABASE
    <3>3. \A k \in DOMAIN pending_files_ : FALSE
      BY <3>2 DEF IInv, StackOK, StackFine, InOrder
    <3> QED
      BY <3>3, <1>5 DEF ToSet
  <2> QED
    BY <1>1, <2>1, <2>2, ReturnKeeps
<1>6. ASSUME ~ (f \in files_by_name_ /\ call.op # "BuildOther"), f \notin ToSet(pending_files_)
      PROVE  IInv'
  <2>1. UNCHANGED <<bad, call, given>>
    BY <1>2, <1>6 DEF Enter, user
  <2>2. f \in files_by_name_ => db.mode = DIRECT /\ Len(builders) <= 1
    <3>1. call # NULL
      BY <1>1 DEF IInv, CallOK
    <3> QED
      BY <3>1, <1>6 DEF IInv, CallOK, StackOK, StackFine
  <2>3. \A i \in DOMAIN builders : i < Len(builders) => builders[i].file # f
    BY <1>1, <1>6, <2>2, NewFile
  <2>4. db.mode = LAZY => f \notin files_by_name_
    BY <2>2 DEF LAZY, DIRECT
  <2>5. StackFine(builders, pending_files_, db.mode) /\ pending_files_ \in Seq(File)
    BY DEF IInv, StackOK, Typed
  <2>6. CASE db.mode = DATABASE
    <3>1. /\ pending_files_' = Append(pending_files_, f)
          /\ builders' = SetTop([Goes("imports") EXCEPT !.left = db.imports[f]])
      BY <1>2, <1>6, <2>6 DEF Enter
    <3>2. PICK c : c = Goes("imports")
      OBVIOUS
    <3>3. PICK b : b = [c EXCEPT !.left = db.imports[f]]
      OBVIOUS
    <3>4. c \in BuilderRecord /\ c.at = "imports" /\ c.file = Top.file /\ c.errors = Top.errors
      BY <1>1, <3>2, TopFacts DEF IInv, Labels
    <3>5. db.imports[f] \in SUBSET File
      BY <1>3, DatabaseFacts DEF IInv
    <3>6. b \in BuilderRecord /\ b.at = "imports" /\ b.file = f /\ b.errors = Top.errors
      BY <3>3, <3>4, <3>5, <1>2 DEF BuilderRecord
    <3>7. builders' = SetLast(builders, b)
      BY <1>1, <3>1, <3>2, <3>3, TopFacts DEF IInv
    <3>8. pending_files_' \in Seq(File)
      BY <2>5, <3>1, <1>3, AppendProperties
    <3>9. StackFine(SetLast(builders, b), Append(pending_files_, b.file), db.mode)
      BY <1>1, <1>2, <1>3, <2>3, <2>5, <2>6, <3>6, EnterImportsFine
    <3>10. StackFine(builders', pending_files_', db.mode)
      BY <3>1, <3>6, <3>7, <3>9
    <3> QED
      BY <1>1, <1>2, <2>1, <2>4, <3>6, <3>7, <3>8, <3>10, AdvanceKeeps
  <2>7. CASE db.mode # DATABASE
    <3>1. builders' = SetTop(Goes("add")) /\ UNCHANGED pending_files_
      BY <1>2, <1>6, <2>7 DEF Enter
    <3>2. PICK b : b = Goes("add")
      OBVIOUS
    <3>3. b \in BuilderRecord /\ b.at = "add" /\ b.file = Top.file /\ b.errors = Top.errors
      BY <1>1, <3>2, TopFacts DEF IInv, Labels
    <3>4. builders' = SetLast(builders, b)
      BY <1>1, <3>1, <3>2, TopFacts DEF IInv
    <3>5. StackFine(SetLast(builders, b), pending_files_, db.mode)
      BY <1>1, <1>2, <1>3, <2>3, <2>5, <3>3, EnterAddFine
    <3>6. StackFine(builders', pending_files_', db.mode)
      BY <3>1, <3>4, <3>5
    <3> QED
      BY <1>1, <1>2, <2>1, <2>4, <2>5, <3>1, <3>3, <3>4, <3>6, AdvanceKeeps
  <2> QED
    BY <2>6, <2>7
<1> QED
  BY <1>4, <1>5, <1>6

(* Looking for a file or for a symbol starts a build or nothing.             *)
LEMMA TryCases ==
  ASSUME Typed, NEW f, NEW s \in Symbol, NEW stack
  PROVE  /\ TryFile(f, stack) =>
              \/ builders' = stack
              \/ /\ builders' = Append(stack, Builder(f)) /\ f \in db.protos /\ db.mode # DIRECT
                 /\ UNCHANGED bad
         /\ TrySymbol(s, stack) =>
              \/ builders' = stack
              \/ \E g \in db.protos :
                   /\ builders' = Append(stack, Builder(g)) /\ db.mode # DIRECT
                   /\ UNCHANGED bad
         /\ /\ TrySymbol(s, stack) /\ known_bad_files_ = {} /\ known_bad_symbols_ = {}
            /\ db.mode # DIRECT /\ db.index[s] \in db.protos \ files_by_name_
            => builders' = Append(stack, Builder(db.index[s])) /\ UNCHANGED bad
<1>1. TryFile(f, stack) =>
              \/ builders' = stack
              \/ /\ builders' = Append(stack, Builder(f)) /\ f \in db.protos /\ db.mode # DIRECT
                 /\ UNCHANGED bad
  BY DEF TryFile
<1>2. TrySymbol(s, stack) =>
              \/ builders' = stack
              \/ \E g \in db.protos :
                   /\ builders' = Append(stack, Builder(g)) /\ db.mode # DIRECT
                   /\ UNCHANGED bad
  BY DEF TrySymbol
<1>3. /\ TrySymbol(s, stack) /\ known_bad_files_ = {} /\ known_bad_symbols_ = {}
      /\ db.mode # DIRECT /\ db.index[s] \in db.protos \ files_by_name_
      => builders' = Append(stack, Builder(db.index[s])) /\ UNCHANGED bad
  BY DEF TrySymbol
<1> QED
  BY <1>1, <1>2, <1>3

(* The next import starts a build, or is passed over.                        *)
LEMMA LoadImportKeeps ==
  ASSUME IInv, LoadImport
  PROVE  IInv'
<1>1. builders # << >> /\ Top.at = "imports" /\ UNCHANGED <<db, tables, pending_files_, call, given>>
  BY DEF LoadImport, At, user
<1>2. PICK f \in Top.left :
        LET stack == SetTop([Top EXCEPT !.left = @ \ {f}]) IN
        IF f \in files_by_name_
          THEN builders' = stack /\ UNCHANGED bad
          ELSE TryFile(f, stack)
  BY DEF LoadImport
<1>3. PICK c : c = Top
  OBVIOUS
<1>4. PICK b : b = [c EXCEPT !.left = c.left \ {f}]
  OBVIOUS
<1>5. c \in BuilderRecord /\ c.at = "imports"
  BY <1>1, <1>3, TopFacts DEF IInv
<1>6. b \in BuilderRecord /\ b.at = "imports" /\ b.file = Top.file /\ b.errors = Top.errors
  BY <1>3, <1>4, <1>5 DEF BuilderRecord
<1>7. SetTop([Top EXCEPT !.left = @ \ {f}]) = SetLast(builders, b)
  <2>1. [Top EXCEPT !.left = @ \ {f}] = b
    BY <1>3, <1>4
  <2> QED
    BY <2>1, <1>1, TopFacts DEF IInv
<1>8. \/ builders' = SetLast(builders, b)
      \/ builders' = Append(SetLast(builders, b), Builder(f)) /\ db.mode # DIRECT
  BY <1>2, <1>7 DEF TryFile
<1>9. f \in File
  BY <1>3, <1>5, <1>2 DEF BuilderRecord
<1>10. db.mode # LAZY
  <2>1. SUFFICES ASSUME db.mode = LAZY PROVE FALSE
    OBVIOUS
  <2>2. AtWork(builders, {"imports"}) = {}
    BY <2>1 DEF IInv, StackOK, StackFine, LAZY, DATABASE
  <2> QED
    BY <1>1, <2>2, TopFacts DEF IInv, AtWork
<1>11. b.at \notin Recorded /\ Top.at \notin Recorded
  BY <1>1, <1>6 DEF Recorded
<1>12. BuilderOK(b)
  BY <1>6, <1>11 DEF BuilderOK
<1>13. CASE builders' = SetLast(builders, b)
  BY <1>1, <1>6, <1>10, <1>11, <1>12, <1>13, GoOnKeeps
<1>14. CASE builders' = Append(SetLast(builders, b), Builder(f)) /\ db.mode # DIRECT
  BY <1>1, <1>6, <1>9, <1>10, <1>11, <1>12, <1>14, SeekKeeps
<1> QED
  BY <1>8, <1>13, <1>14

(* The file is pending no more.                                              *)
LEMMA ImportsLoadedKeeps ==
  ASSUME IInv, ImportsLoaded
  PROVE  IInv'
<1>1. /\ builders # << >> /\ Top.at = "imports" /\ UNCHANGED <<db, tables, bad, call, given>>
      /\ pending_files_' = Front(pending_files_) /\ builders' = SetTop(Goes("add"))
  BY DEF ImportsLoaded, At, user
<1>2. PICK b : b = Goes("add")
  OBVIOUS
<1>3. /\ b \in BuilderRecord /\ b.at = "add" /\ b.file = Top.file /\ b.errors = Top.errors
      /\ builders \in Seq(BuilderRecord) /\ Top = Last(builders)
  BY <1>1, <1>2, TopFacts DEF IInv, Labels, Top
<1>4. builders' = SetLast(builders, b)
  BY <1>1, <1>2, TopFacts DEF IInv
<1>5. StackFine(builders, pending_files_, db.mode) /\ pending_files_ \in Seq(File)
  BY DEF IInv, StackOK, Typed
<1>6. pending_files_ # << >> /\ StackFine(SetLast(builders, b), Front(pending_files_), db.mode)
  BY <1>1, <1>3, <1>5, ImportsOverFine
<1>7. StackFine(builders', pending_files_', db.mode) /\ pending_files_' \in Seq(File)
  BY <1>1, <1>4, <1>5, <1>6, FrontFacts
<1>8. db.mode # LAZY
  <2>1. SUFFICES ASSUME db.mode = LAZY PROVE FALSE
    OBVIOUS
  <2>2. AtWork(builders, {"imports"}) = {}
    BY <2>1 DEF IInv, StackOK, StackFine, LAZY, DATABASE
  <2> QED
    BY <1>1, <2>2, TopFacts DEF IInv, AtWork
<1> QED
  BY <1>1, <1>3, <1>4, <1>7, <1>8, AdvanceKeeps

(* A hopeless build returns and leaves the tables as they were.              *)
LEMMA AbandonKeeps ==
  ASSUME IInv, Abandon
  PROVE  IInv'
<1>1. /\ builders # << >> /\ Top.at = "add" /\ Return(NULL) /\ Hopeless(Top.file)
      /\ UNCHANGED <<db, tables, pending_files_>>
  BY DEF Abandon, At
<1>2. db.mode # LAZY
  <2>1. SUFFICES ASSUME db.mode = LAZY PROVE FALSE
    OBVIOUS
  <2>2. LazyStack(builders)
    BY <2>1 DEF IInv, LazyOK
  <2>3. Top.file \in db.protos /\ Top.file \notin files_by_name_
    BY <1>1, <2>2, TopFacts DEF IInv, LazyStack, LazyAt
  <2>4. Top.file \notin db.imports[Top.file]
    BY <2>1, <2>3, DatabaseFacts DEF IInv
  <2> QED
    BY <1>1, <2>3, <2>4 DEF Hopeless
<1> QED
  BY <1>1, <1>2, ReturnKeeps

-----------------------------------------------------------------------------
(* The checkpoints and the builder at work. *)

(* The sizes at the checkpoints, and what came after them.                   *)
LEMMA LevelFacts ==
  ASSUME Typed, TablesOK
  PROVE  /\ Len(checkpoints_) \in Nat /\ DOMAIN checkpoints_ = 1..Len(checkpoints_)
         /\ \A k \in DOMAIN checkpoints_ :
              /\ checkpoints_[k] \in CheckpointRecord
              /\ checkpoints_[k].files \in 0..Len(files_after_checkpoint_)
              /\ checkpoints_[k].files < Len(files_after_checkpoint_)
              /\ checkpoints_[k].symbols \in 0..Len(symbols_after_checkpoint_)
              /\ checkpoints_[k].extensions \in 0..Len(extensions_after_checkpoint_)
              /\ checkpoints_[k].files + 1 \in DOMAIN files_after_checkpoint_
              /\ files_after_checkpoint_[checkpoints_[k].files + 1] \in FilesSince(k)
         /\ \A k, l \in DOMAIN checkpoints_ : k <= l => FilesSince(l) \subseteq FilesSince(k)
         /\ Opened \in Seq(File) /\ DOMAIN Opened = DOMAIN checkpoints_
         /\ \A k \in DOMAIN checkpoints_ :
              Opened[k] = files_after_checkpoint_[checkpoints_[k].files + 1]
<1>1. Len(checkpoints_) \in Nat /\ DOMAIN checkpoints_ = 1..Len(checkpoints_)
  BY DEF Typed, TablesTyped
<1>2. /\ files_after_checkpoint_ \in Seq(File) /\ Len(files_after_checkpoint_) \in Nat
      /\ DOMAIN files_after_checkpoint_ = 1..Len(files_after_checkpoint_)
      /\ Len(symbols_after_checkpoint_) \in Nat /\ Len(extensions_after_checkpoint_) \in Nat
  BY DEF Typed, TablesTyped
<1>3. \A k \in DOMAIN checkpoints_ :
        /\ checkpoints_[k] \in CheckpointRecord
        /\ checkpoints_[k].files \in Nat /\ checkpoints_[k].symbols \in Nat
        /\ checkpoints_[k].extensions \in Nat
  <2>1. \A k \in DOMAIN checkpoints_ : checkpoints_[k] \in CheckpointRecord
    BY <1>1 DEF Typed, TablesTyped
  <2> QED
    BY <2>1 DEF CheckpointRecord
<1>4. \A k \in DOMAIN checkpoints_ :
        /\ checkpoints_[k].files < Len(files_after_checkpoint_)
        /\ checkpoints_[k].symbols <= Len(symbols_after_checkpoint_)
        /\ checkpoints_[k].extensions <= Len(extensions_after_checkpoint_)
  BY DEF TablesOK, LevelsOK
<1>5. \A k \in DOMAIN checkpoints_ :
        /\ checkpoints_[k].files \in 0..Len(files_after_checkpoint_)
        /\ checkpoints_[k].symbols \in 0..Len(symbols_after_checkpoint_)
        /\ checkpoints_[k].extensions \in 0..Len(extensions_after_checkpoint_)
        /\ checkpoints_[k].files + 1 \in DOMAIN files_after_checkpoint_
  BY <1>2, <1>3, <1>4
<1>6. \A k \in DOMAIN checkpoints_ :
        files_after_checkpoint_[checkpoints_[k].files + 1] \in FilesSince(k)
  BY <1>2, <1>4, <1>5, SinceBounds DEF FilesSince
<1>7. ASSUME NEW k \in DOMAIN checkpoints_, NEW l \in DOMAIN checkpoints_, k <= l
      PROVE  FilesSince(l) \subseteq FilesSince(k)
  <2>1. checkpoints_[k].files <= checkpoints_[l].files
    <3>1. CASE k = l
      BY <3>1, <1>3
    <3>2. CASE k < l
      BY <3>2, <1>3 DEF TablesOK, LevelsOK
    <3> QED
      BY <3>1, <3>2, <1>1, <1>7
  <2> QED
    BY <2>1, <1>2, <1>5, SinceBounds DEF FilesSince
<1>8. PICK q : q = Opened
  OBVIOUS
<1>9. /\ DOMAIN q = DOMAIN checkpoints_
      /\ \A k \in DOMAIN checkpoints_ : q[k] = files_after_checkpoint_[checkpoints_[k].files + 1]
      /\ q = [k \in DOMAIN checkpoints_ |-> files_after_checkpoint_[checkpoints_[k].files + 1]]
  BY <1>8 DEF Opened
<1>10. q \in [1..Len(checkpoints_) -> File]
  <2>1. \A k \in DOMAIN checkpoints_ : files_after_checkpoint_[checkpoints_[k].files + 1] \in File
    BY <1>2, <1>5
  <2> QED
    BY <2>1, <1>1, <1>9
<1>11. q \in Seq(File)
  BY <1>1, <1>10, SeqDef
<1> QED
  BY <1>1, <1>3, <1>4, <1>5, <1>6, <1>7, <1>8, <1>9, <1>11

(* The last checkpoint is the one of the innermost builder that has added     *)
(* its file; its file came after all checkpoints, and no other builder's     *)
(* came after the last.                                                     *)
LEMMA TopOpened ==
  ASSUME IInv, builders # << >>, Top.at \in Recorded
  PROVE  /\ checkpoints_ # << >> /\ Len(checkpoints_) \in DOMAIN checkpoints_
         /\ Opened[Len(checkpoints_)] = Top.file
         /\ \A k \in DOMAIN checkpoints_ : Top.file \in FilesSince(k)
         /\ Top.file \in files_by_name_ \ finished_building_
         /\ \A S \in KeptTables : S # files_by_name_ => Top.file \notin S
         /\ \A i \in AtWork(builders, Recorded) :
              i = Len(builders) \/ (i < Len(builders) /\ builders[i].file # Top.file)
         /\ Len(builders) \in AtWork(builders, Recorded)
         /\ InOrder(Front(Opened), AtWork(builders, Recorded) \ {Len(builders)}, builders)
<1>1. /\ builders \in Seq(BuilderRecord) /\ Top = builders[Len(builders)]
      /\ Len(builders) \in DOMAIN builders /\ DOMAIN builders = 1..Len(builders)
      /\ Len(builders) \in Nat
  BY TopFacts DEF IInv
<1>2. Len(builders) \in AtWork(builders, Recorded)
  BY <1>1 DEF AtWork
<1>3. ASSUME NEW i \in AtWork(builders, Recorded)
      PROVE  i = Len(builders) \/ (i < Len(builders) /\ builders[i].file # Top.file)
  <2>1. i \in DOMAIN builders
    BY DEF AtWork
  <2>2. Top.at # "enter"
    BY DEF Recorded
  <2>3. i < Len(builders) => builders[i].file # Top.file
    BY <1>1, <2>1, <2>2 DEF IInv, StackOK, StackFine, Once
  <2> QED
    BY <1>1, <2>1, <2>3
<1>4. PICK q : q = Opened
  OBVIOUS
<1>5. /\ q \in Seq(File) /\ DOMAIN q = DOMAIN checkpoints_
      /\ Len(checkpoints_) \in Nat /\ DOMAIN checkpoints_ = 1..Len(checkpoints_)
  BY <1>4, LevelFacts DEF IInv
<1>6. InOrder(q, AtWork(builders, Recorded), builders)
  BY <1>4 DEF IInv, TablesOK, FilesOK
<1>7. AtWork(builders, Recorded) \subseteq Nat
  BY <1>1 DEF AtWork
<1>8. /\ q # << >> /\ Last(q) = builders[Len(builders)].file
      /\ InOrder(Front(q), AtWork(builders, Recorded) \ {Len(builders)}, builders)
  BY <1>1, <1>2, <1>3, <1>5, <1>6, <1>7, OrderCloses
<1>9. Len(q) = Len(checkpoints_) /\ Len(q) \in Nat \ {0}
  BY <1>5, <1>8
<1>10. checkpoints_ # << >> /\ Len(checkpoints_) \in DOMAIN checkpoints_
  BY <1>5, <1>9
<1>11. Opened[Len(checkpoints_)] = Top.file
  BY <1>1, <1>4, <1>8, <1>9 DEF Last
<1>12. \A k \in DOMAIN checkpoints_ : Top.file \in FilesSince(k)
  <2>1. Top.file \in FilesSince(Len(checkpoints_))
    BY <1>10, <1>11, LevelFacts DEF IInv
  <2>2. \A k \in DOMAIN checkpoints_ : k <= Len(checkpoints_)
    BY <1>5
  <2> QED
    BY <2>1, <2>2, <1>10, LevelFacts DEF IInv
<1>13. Top.file \in files_by_name_ \ finished_building_
  BY <1>1, <1>2 DEF IInv, TablesOK, FilesOK
<1>14. \A S \in KeptTables : S # files_by_name_ => Top.file \notin S
  BY <1>12 DEF KeptTables
<1> QED
  BY <1>2, <1>3, <1>4, <1>8, <1>10, <1>11, <1>12, <1>13, <1>14

-----------------------------------------------------------------------------
(* The steps of a builder that links the field. *)

(* Fields are linked, or left for later.                                     *)
LEMMA LinksStay ==
  ASSUME TablesOK, UNCHANGED <<db, entries, after, checkpoints_, finished_building_>>,
         given' \subseteq finished_building_,
         given' \cap ToSet(files_after_checkpoint_) = {},
         SameWork(builders, builders'), BuildersOK',
         type_once_' \subseteq files_by_name_,
         \A f \in type_once_' : db.mode = LAZY /\ db.type[f] # NULL,
         \A f \in File : message_type_'[f] # NULL => f \in files_by_name_,
         \A f \in finished_building_ : Linked(f)',
         \A S \in KeptTables : \A f \in S :
           message_type_'[f] # NULL => message_type_'[f] \in S
  PROVE  TablesOK'
<1>1. /\ db' = db /\ files_by_name_' = files_by_name_
      /\ symbols_by_name_' = symbols_by_name_ /\ extensions_' = extensions_
      /\ files_after_checkpoint_' = files_after_checkpoint_
      /\ symbols_after_checkpoint_' = symbols_after_checkpoint_
      /\ extensions_after_checkpoint_' = extensions_after_checkpoint_
      /\ checkpoints_' = checkpoints_ /\ finished_building_' = finished_building_
  BY DEF entries, after
<1>2. LevelsOK'
  BY <1>1 DEF LevelsOK, TablesOK
<1>3. RecordsOK'
  BY <1>1 DEF RecordsOK, TablesOK, FilesSince, SymbolsSince, ExtensionsSince
<1>4. FilesOK'
  <2>1. InOrder(Opened', AtWork(builders', Recorded), builders')
    <3>1. Opened' = Opened
      BY <1>1 DEF Opened
    <3>2. InOrder(Opened, AtWork(builders, Recorded), builders)
      BY DEF TablesOK, FilesOK
    <3> QED
      BY <3>1, <3>2, OrderSame DEF SameWork
  <2>2. {builders'[i].file : i \in AtWork(builders', Recorded)}
          = {builders[i].file : i \in AtWork(builders, Recorded)}
    BY DEF SameWork
  <2> QED
    BY <1>1, <2>1, <2>2 DEF FilesOK, TablesOK
<1>5. EntriesOK'
  <2>1. \A s \in Symbol : symbols_by_name_'[s] # NULL =>
          symbols_by_name_'[s] \in files_by_name_' /\ s \in Defines(symbols_by_name_[s])'
    BY <1>1 DEF EntriesOK, TablesOK, Defines
  <2>2. \A key \in extensions_' : key[2] \in files_by_name_'
    BY <1>1 DEF EntriesOK, TablesOK
  <2>3. \A f \in finished_building_' : Named(f)' /\ Extended(f)'
    BY <1>1 DEF EntriesOK, TablesOK, Named, Extended, Defines
  <2>4. \A f \in finished_building_' : Linked(f)'
    BY <1>1
  <2> QED
    BY <2>1, <2>2, <2>3, <2>4 DEF EntriesOK
<1>6. ClosedOK'
  <2>1. \A f : Clean(f)' => Clean(f)
    BY <1>1 DEF Clean, SameWork
  <2>2. KeptTables' = KeptTables
    BY <1>1 DEF KeptTables, FilesSince
  <2>3. SUFFICES ASSUME NEW S \in KeptTables PROVE Closed(S)'
    BY <2>2 DEF ClosedOK
  <2>4. Closed(S)
    BY DEF ClosedOK, TablesOK
  <2> QED
    BY <1>1, <2>1, <2>4 DEF Closed
<1> QED
  BY <1>2, <1>3, <1>4, <1>5, <1>6 DEF TablesOK

(* The innermost builder links its field, or leaves it for later.            *)
LEMMA LinkKeeps ==
  ASSUME IInv, builders # << >>, Top.at \in Recorded, NEW b \in BuilderRecord, b.file = Top.file,
         Top.errors => b.errors, b.at = "extendee", builders' = SetLast(builders, b),
         UNCHANGED <<db, entries, after, checkpoints_, finished_building_, pending_files_, bad,
                     call, given>>,
         db.mode = LAZY => ~ b.errors,
         message_type_' \in [File -> File \cup {NULL}],
         \A f \in File : f # Top.file => message_type_'[f] = message_type_[f],
         message_type_'[Top.file] \in files_by_name_ \cup {NULL},
         ~ b.errors => Named(b.file) /\ Linked(b.file)',
         \A key \in extensions_ : key[2] # b.file,
         type_once_ \subseteq type_once_', type_once_' \subseteq type_once_ \cup {Top.file},
         Top.file \in type_once_' => db.mode = LAZY /\ db.type[Top.file] # NULL
  PROVE  IInv'
<1>1. /\ builders \in Seq(BuilderRecord) /\ Top = Last(builders) /\ Top.at \notin {"enter", "imports"}
      /\ Top.file \in File /\ b.at \in Recorded
  BY TopFacts DEF IInv, Top, Recorded
<1>2. /\ UNCHANGED <<files_by_name_, symbols_by_name_, extensions_>>
      /\ UNCHANGED after
  BY DEF entries
<1>3. /\ builders' \in Seq(BuilderRecord) /\ StackOK' /\ CallOK' /\ LazyOK'
      /\ SameWork(builders, builders')
  BY <1>1, <1>2, RelabelKeeps
<1>4. Typed'
  BY <1>2, <1>3 DEF IInv, Typed, TablesTyped, after
<1>5. Top.file \in files_by_name_ \ finished_building_
  BY TopOpened
<1>6. ASSUME NEW f \in File, f # Top.file, Linked(f) PROVE Linked(f)'
  BY <1>6 DEF Linked
<1>7. BuildersOK'
  <2>1. PICK n : n = Len(builders)
    OBVIOUS
  <2>2. PICK r : r = builders'
    OBVIOUS
  <2>3. /\ r[n] = b /\ DOMAIN r = DOMAIN builders
        /\ \A i \in DOMAIN builders : i # n => r[i] = builders[i]
    <3>1. \A i \in DOMAIN builders : i # Len(builders) => SetLast(builders, b)[i] = builders[i]
      BY <1>1, SetLastFacts
    <3>2. SetLast(builders, b)[Len(builders)] = b /\ DOMAIN SetLast(builders, b) = DOMAIN builders
      BY <1>1, SetLastFacts
    <3> QED
      BY <2>1, <2>2, <3>1, <3>2
  <2>4. BuilderOK(b)'
    <3>1. Named(b.file) => Named(b.file)'
      BY <1>2 DEF Named, Defines
    <3>2. \A key \in extensions_' : key[2] # b.file
      BY <1>2
    <3>3. ~ b.errors => Named(b.file)' /\ Linked(b.file)'
      BY <3>1
    <3>4. b.at # "typed" /\ b.at # "extended" /\ b.at # "finish"
      OBVIOUS
    <3> QED
      BY <3>2, <3>3, <3>4 DEF BuilderOK
  <2>5. ASSUME NEW i \in DOMAIN builders, i # n, NEW c, c = builders[i] PROVE BuilderOK(c)'
    <3>1. BuilderOK(c)
      BY <2>5 DEF IInv, TablesOK, BuildersOK, BuildersFine
    <3>2. ASSUME c.at \in Recorded, Linked(c.file) PROVE Linked(c.file)'
      <4>1. c.file # Top.file
        BY <3>2, <2>1, <2>5, TopOpened DEF AtWork
      <4>2. builders[i] \in BuilderRecord
        BY <1>1
      <4>3. c.file \in File
        BY <4>2, <2>5 DEF BuilderRecord
      <4> QED
        BY <3>2, <4>1, <4>3, <1>6
    <3>3. Named(c.file) => Named(c.file)'
      BY <1>2 DEF Named, Defines
    <3>4. Extended(c.file) => Extended(c.file)'
      BY <1>2 DEF Extended
    <3> QED
      BY <3>1, <3>2, <3>3, <3>4, <1>2 DEF BuilderOK
  <2>6. ASSUME NEW i \in DOMAIN r PROVE BuilderOK(r[i])'
    BY <2>3, <2>4, <2>5
  <2> QED
    BY <2>2, <2>6 DEF BuildersOK, BuildersFine
<1>8. given' \subseteq finished_building_ /\ given' \cap ToSet(files_after_checkpoint_) = {}
  BY DEF IInv, TablesOK, FilesOK
<1>9. /\ type_once_' \subseteq files_by_name_
      /\ \A f \in type_once_' : db.mode = LAZY /\ db.type[f] # NULL
  BY <1>5 DEF IInv, TablesOK, FilesOK
<1>10. \A f \in finished_building_ : Linked(f)'
  <2>1. \A f \in finished_building_ : f \in File /\ f # Top.file /\ Linked(f)
    BY <1>5 DEF IInv, Typed, TablesTyped, TablesOK, FilesOK, EntriesOK
  <2> QED
    BY <2>1, <1>6
<1>11. ASSUME NEW S \in KeptTables, NEW f \in S, message_type_'[f] # NULL
       PROVE  message_type_'[f] \in S
  <2>1. S \subseteq files_by_name_ /\ files_by_name_ \subseteq File
    BY DEF KeptTables, IInv, Typed, TablesTyped
  <2>2. CASE f # Top.file
    BY <2>1, <2>2, <1>11 DEF IInv, TablesOK, ClosedOK, Closed
  <2>3. CASE f = Top.file
    <3>1. S = files_by_name_
      BY <2>3, TopOpened
    <3> QED
      BY <2>3, <3>1, <1>11
  <2> QED
    BY <2>2, <2>3
<1>12. \A f \in File : message_type_'[f] # NULL => f \in files_by_name_
  BY <1>5 DEF IInv, TablesOK, FilesOK
<1>13. TablesOK'
  BY <1>2, <1>3, <1>7, <1>8, <1>9, <1>10, <1>11, <1>12, LinksStay DEF IInv
<1> QED
  BY <1>3, <1>4, <1>13 DEF IInv

(* The builder looks for the type of the field, or has none to look for.     *)
LEMMA LinkTypeKeeps ==
  ASSUME IInv, LinkType
  PROVE  IInv'
<1>1. /\ builders # << >> /\ Top.at = "type"
      /\ UNCHANGED <<db, entries, after, checkpoints_, finished_building_, message_type_,
                     pending_files_, call, given>>
  BY DEF LinkType, At, user
<1>2. PICK s : s = db.type[Top.file]
  OBVIOUS
<1>3. /\ builders \in Seq(BuilderRecord) /\ Top.file \in File /\ Top.at \in Recorded
      /\ Top = Last(builders) /\ Top = builders[Len(builders)] /\ Len(builders) \in DOMAIN builders
  BY <1>1, TopFacts DEF IInv, Recorded, Top
<1>4. s \in File \cup {NULL}
  BY <1>2, <1>3, DatabaseFacts DEF IInv
<1>5. BuilderOK(Top)
  BY <1>3 DEF IInv, TablesOK, BuildersOK, BuildersFine
<1>6. /\ \A key \in extensions_ : key[2] # Top.file
      /\ ~ Top.errors => Named(Top.file)
  BY <1>1, <1>3, <1>5 DEF BuilderOK
<1>7. db.mode = LAZY => ~ Top.errors /\ known_bad_files_ = {} /\ known_bad_symbols_ = {}
  BY <1>1, <1>3 DEF IInv, LazyOK, LazyStack, LazyAt
<1>8. PICK b : b = Goes("extendee")
  OBVIOUS
<1>9. /\ b \in BuilderRecord /\ b.at = "extendee" /\ b.file = Top.file /\ b.errors = Top.errors
      /\ SetTop(b) = SetLast(builders, b)
  BY <1>1, <1>8, TopFacts DEF IInv, Labels
<1>10. PICK d : d = Goes("typed")
  OBVIOUS
<1>11. /\ d \in BuilderRecord /\ d.at = "typed" /\ d.file = Top.file /\ d.errors = Top.errors
       /\ SetTop(d) = SetLast(builders, d)
  BY <1>1, <1>10, TopFacts DEF IInv, Labels
<1>12. s # NULL => BuilderOK(d)
  BY <1>2, <1>6, <1>11 DEF BuilderOK
<1>13. /\ b.at \in Recorded /\ d.at \in Recorded
       /\ Top.at \notin {"enter", "imports"} /\ b.at # "imports" /\ d.at # "imports"
  BY <1>1, <1>9, <1>11 DEF Recorded
<1>14. UNCHANGED type_once_ => UNCHANGED tables
  BY <1>1 DEF tables, links
<1>15. CASE s = NULL
  <2>1. builders' = SetLast(builders, b) /\ UNCHANGED <<type_once_, bad>>
    BY <1>2, <1>8, <1>9, <1>15 DEF LinkType
  <2>2. BuilderOK(b)
    BY <1>2, <1>6, <1>9, <1>15 DEF BuilderOK, Linked
  <2> QED
    BY <2>1, <2>2, <1>1, <1>3, <1>7, <1>9, <1>13, <1>14, GoOnKeeps
<1>16. CASE s # NULL /\ symbols_by_name_[s] # NULL
  <2>1. builders' = SetLast(builders, d) /\ UNCHANGED <<type_once_, bad>>
    BY <1>2, <1>10, <1>11, <1>16 DEF LinkType
  <2>2. symbols_by_name_[db.type[d.file]] # NULL
    BY <1>2, <1>11, <1>16
  <2> QED
    BY <2>1, <2>2, <1>1, <1>3, <1>7, <1>11, <1>12, <1>13, <1>14, <1>16, GoOnKeeps
<1>17. CASE s # NULL /\ symbols_by_name_[s] = NULL /\ db.mode = LAZY
  <2>1. /\ type_once_' = type_once_ \cup {Top.file} /\ builders' = SetLast(builders, b)
        /\ UNCHANGED bad
    BY <1>2, <1>8, <1>9, <1>17 DEF LinkType
  <2>2. Linked(b.file)'
    BY <2>1, <1>9 DEF Linked
  <2>3. /\ message_type_' \in [File -> File \cup {NULL}]
        /\ message_type_' = message_type_
    BY <1>1 DEF IInv, Typed, TablesTyped
  <2>4. message_type_[Top.file] \in files_by_name_ \cup {NULL}
    <3>1. files_by_name_ \in KeptTables /\ Top.file \in files_by_name_
      BY <1>1, <1>3, TopOpened DEF KeptTables
    <3> QED
      BY <3>1 DEF IInv, TablesOK, ClosedOK, Closed
  <2>5. db.type[Top.file] # NULL
    BY <1>2, <1>17
  <2> QED
    BY <2>1, <2>2, <2>3, <2>4, <2>5, <1>1, <1>3, <1>6, <1>7, <1>9, <1>17, LinkKeeps
<1>18. CASE s # NULL /\ symbols_by_name_[s] = NULL /\ db.mode # LAZY
  <2>1. TrySymbol(s, SetLast(builders, d)) /\ UNCHANGED type_once_
    BY <1>2, <1>10, <1>11, <1>18 DEF LinkType
  <2>2. s \in Symbol
    BY <1>4, <1>18, DatabaseFacts DEF IInv
  <2>3. CASE builders' = SetLast(builders, d)
    BY <2>1, <2>3, <1>1, <1>3, <1>7, <1>11, <1>12, <1>13, <1>14, <1>18, GoOnKeeps
  <2>4. ASSUME NEW g \in db.protos, builders' = Append(SetLast(builders, d), Builder(g)),
               db.mode # DIRECT
        PROVE  IInv'
    <3>1. g \in File
      BY DatabaseFacts DEF IInv
    <3> QED
      BY <2>1, <2>4, <3>1, <1>1, <1>3, <1>11, <1>12, <1>13, <1>14, <1>18, SeekKeeps
  <2> QED
    BY <2>1, <2>2, <2>3, <2>4, TryCases DEF IInv
<1> QED
  BY <1>15, <1>16, <1>17, <1>18

(* The field is linked to the type that is found.                            *)
LEMMA SetTypeKeeps ==
  ASSUME IInv, SetType
  PROVE  IInv'
<1>1. /\ builders # << >> /\ Top.at = "typed"
      /\ UNCHANGED <<db, entries, after, checkpoints_, finished_building_, type_once_,
                     pending_files_, bad, call, given>>
  BY DEF SetType, At, user
<1>2. PICK s : s = db.type[Top.file]
  OBVIOUS
<1>3. /\ builders \in Seq(BuilderRecord) /\ Top.file \in File /\ Top.at \in Recorded
      /\ Top = Last(builders) /\ Top = builders[Len(builders)] /\ Len(builders) \in DOMAIN builders
  BY <1>1, TopFacts DEF IInv, Recorded, Top
<1>4. BuilderOK(Top)
  BY <1>3 DEF IInv, TablesOK, BuildersOK, BuildersFine
<1>5. /\ \A key \in extensions_ : key[2] # Top.file
      /\ ~ Top.errors => Named(Top.file)
      /\ s # NULL
  BY <1>1, <1>2, <1>3, <1>4 DEF BuilderOK
<1>6. s \in File /\ s \in Symbol
  BY <1>2, <1>3, <1>5, DatabaseFacts DEF IInv
<1>7. db.mode = LAZY => ~ Top.errors /\ symbols_by_name_[s] # NULL
  BY <1>1, <1>2, <1>3 DEF IInv, LazyOK, LazyStack, LazyAt
<1>8. Top.at \notin {"enter", "imports"}
  BY <1>1
<1>9. CASE MayUse(Top.file, s)
  <2>1. PICK g : g = symbols_by_name_[s]
    OBVIOUS
  <2>2. /\ message_type_' = [message_type_ EXCEPT ![Top.file] = g]
        /\ builders' = SetTop(Goes("extendee"))
    BY <1>2, <1>9, <2>1 DEF SetType
  <2>3. PICK b : b = Goes("extendee")
    OBVIOUS
  <2>4. /\ b \in BuilderRecord /\ b.at = "extendee" /\ b.file = Top.file /\ b.errors = Top.errors
        /\ builders' = SetLast(builders, b)
    BY <1>1, <2>2, <2>3, TopFacts DEF IInv, Labels
  <2>5. g # NULL /\ g \in files_by_name_ /\ g \in File
    <3>1. g # NULL
      BY <1>9, <2>1 DEF MayUse
    <3>2. g \in files_by_name_
      BY <3>1, <2>1, <1>6 DEF IInv, TablesOK, EntriesOK
    <3> QED
      BY <3>1, <3>2 DEF IInv, Typed, TablesTyped
  <2>6. message_type_ \in [File -> File \cup {NULL}]
    BY DEF IInv, Typed, TablesTyped
  <2>7. PICK F : F = Top.file
    OBVIOUS
  <2>8. /\ message_type_' \in [File -> File \cup {NULL}] /\ message_type_'[F] = g
        /\ \A f \in File : f # F => message_type_'[f] = message_type_[f]
    BY <2>2, <2>5, <2>6, <2>7, <1>3
  <2>9. Linked(b.file)'
    BY <2>4, <2>5, <2>7, <2>8 DEF Linked
  <2>10. /\ message_type_'[Top.file] \in files_by_name_ \cup {NULL}
         /\ \A f \in File : f # Top.file => message_type_'[f] = message_type_[f]
    BY <2>5, <2>7, <2>8
  <2>11. /\ type_once_ \subseteq type_once_' /\ type_once_' \subseteq type_once_ \cup {Top.file}
         /\ Top.file \in type_once_' => db.mode = LAZY /\ db.type[Top.file] # NULL
    BY <1>1 DEF IInv, TablesOK, FilesOK
  <2> QED
    BY <2>4, <2>8, <2>9, <2>10, <2>11, <1>1, <1>3, <1>5, <1>7, LinkKeeps
<1>10. CASE ~ MayUse(Top.file, s)
  <2>1. builders' = SetTop(Errs("extendee")) /\ UNCHANGED message_type_
    BY <1>2, <1>10 DEF SetType
  <2>2. PICK b : b = Errs("extendee")
    OBVIOUS
  <2>3. /\ b \in BuilderRecord /\ b.at = "extendee" /\ b.file = Top.file /\ b.errors
        /\ builders' = SetLast(builders, b)
    BY <1>1, <2>1, <2>2, TopFacts DEF IInv, Labels
  <2>4. BuilderOK(b)
    BY <2>3, <1>5 DEF BuilderOK
  <2>5. db.mode # LAZY
    BY <1>7, <1>10 DEF MayUse
  <2>6. UNCHANGED tables
    BY <2>1, <1>1 DEF tables, links
  <2>7. b.at \in Recorded
    BY <2>3 DEF Recorded
  <2> QED
    BY <2>1, <2>3, <2>4, <2>5, <2>6, <2>7, <1>1, <1>3, <1>8, GoOnKeeps
<1> QED
  BY <1>9, <1>10

-----------------------------------------------------------------------------
(* The steps of a builder that adds the extension.                          *)

(* The builder looks for what the extension extends.                         *)
LEMMA LinkExtendeeKeeps ==
  ASSUME IInv, LinkExtendee
  PROVE  IInv'
<1>1. /\ builders # << >> /\ Top.at = "extendee"
      /\ UNCHANGED <<db, tables, pending_files_, call, given>>
  BY DEF LinkExtendee, At, user
<1>2. PICK s : s = db.extendee[Top.file]
  OBVIOUS
<1>3. /\ builders \in Seq(BuilderRecord) /\ Top.file \in File /\ Top.at \in Recorded
      /\ Top = Last(builders) /\ Top = builders[Len(builders)] /\ Len(builders) \in DOMAIN builders
  BY <1>1, TopFacts DEF IInv, Recorded, Top
<1>4. s \in File \cup {NULL}
  BY <1>2, <1>3, DatabaseFacts DEF IInv
<1>5. BuilderOK(Top)
  BY <1>3 DEF IInv, TablesOK, BuildersOK, BuildersFine
<1>6. /\ \A key \in extensions_ : key[2] # Top.file
      /\ ~ Top.errors => Named(Top.file) /\ Linked(Top.file)
  BY <1>1, <1>3, <1>5 DEF BuilderOK
<1>7. db.mode = LAZY =>
        /\ ~ Top.errors /\ Top.file \in db.protos
        /\ known_bad_files_ = {} /\ known_bad_symbols_ = {} /\ LazyStack(builders)
  BY <1>1, <1>3 DEF IInv, LazyOK, LazyStack, LazyAt
<1>8. PICK b : b = Goes("finish")
  OBVIOUS
<1>9. /\ b \in BuilderRecord /\ b.at = "finish" /\ b.file = Top.file /\ b.errors = Top.errors
      /\ SetTop(b) = SetLast(builders, b)
  BY <1>1, <1>8, TopFacts DEF IInv, Labels
<1>10. PICK d : d = Goes("extended")
  OBVIOUS
<1>11. /\ d \in BuilderRecord /\ d.at = "extended" /\ d.file = Top.file /\ d.errors = Top.errors
       /\ SetTop(d) = SetLast(builders, d)
  BY <1>1, <1>10, TopFacts DEF IInv, Labels
<1>12. s # NULL => BuilderOK(d)
  BY <1>2, <1>6, <1>11 DEF BuilderOK
<1>13. /\ b.at \in Recorded /\ d.at \in Recorded
       /\ Top.at \notin {"enter", "imports"} /\ b.at # "imports" /\ d.at # "imports"
  BY <1>1, <1>9, <1>11 DEF Recorded
<1>14. CASE s = NULL
  <2>1. builders' = SetLast(builders, b) /\ UNCHANGED bad
    BY <1>2, <1>8, <1>9, <1>14 DEF LinkExtendee
  <2>2. BuilderOK(b)
    BY <1>2, <1>6, <1>9, <1>14 DEF BuilderOK, Extended
  <2> QED
    BY <2>1, <2>2, <1>1, <1>3, <1>7, <1>9, <1>13, GoOnKeeps
<1>15. CASE s # NULL /\ symbols_by_name_[s] # NULL
  <2>1. builders' = SetLast(builders, d) /\ UNCHANGED bad
    BY <1>2, <1>10, <1>11, <1>15 DEF LinkExtendee
  <2>2. symbols_by_name_[db.extendee[d.file]] # NULL
    BY <1>2, <1>11, <1>15
  <2> QED
    BY <2>1, <2>2, <1>1, <1>3, <1>7, <1>11, <1>12, <1>13, <1>15, GoOnKeeps
<1>16. CASE s # NULL /\ symbols_by_name_[s] = NULL
  <2>1. TrySymbol(s, SetLast(builders, d))
    BY <1>2, <1>10, <1>11, <1>16 DEF LinkExtendee
  <2>2. s \in Symbol /\ s \in File
    BY <1>4, <1>16, DatabaseFacts DEF IInv
  <2>3. ASSUME db.mode = LAZY
        PROVE  /\ builders' = Append(SetLast(builders, d), Builder(s))
               /\ UNCHANGED bad /\ s \in db.protos
    <3>1. s \in db.protos
      BY <1>2, <1>7, <1>16, <2>3, DatabaseFacts DEF IInv
    <3>2. db.index[s] = s
      BY <2>3, <3>1, DatabaseFacts DEF IInv
    <3>3. s \notin files_by_name_
      <4>1. symbols_by_name_[s] = IF s \in files_by_name_ THEN s ELSE NULL
        BY <2>2, <2>3, <1>7, LazyNames DEF IInv
      <4> QED
        BY <4>1, <1>16
    <3>4. db.mode # DIRECT
      BY <2>3 DEF LAZY, DIRECT
    <3> QED
      BY <2>1, <2>2, <2>3, <3>1, <3>2, <3>3, <3>4, <1>7, TryCases DEF IInv
  <2>4. CASE db.mode = LAZY
    <3>1. db.mode # DIRECT
      BY <2>4 DEF LAZY, DIRECT
    <3> QED
      BY <2>2, <2>3, <2>4, <3>1, <1>1, <1>2, <1>3, <1>11, <1>12, <1>13, <1>16, SeekKeeps
  <2>5. CASE db.mode # LAZY
    <3>1. CASE builders' = SetLast(builders, d)
      BY <2>5, <3>1, <1>1, <1>3, <1>11, <1>12, <1>13, <1>16, GoOnKeeps
    <3>2. ASSUME NEW g \in db.protos, builders' = Append(SetLast(builders, d), Builder(g)),
                 db.mode # DIRECT
          PROVE  IInv'
      <4>1. g \in File
        BY DatabaseFacts DEF IInv
      <4> QED
        BY <2>5, <3>2, <4>1, <1>1, <1>3, <1>11, <1>12, <1>13, <1>16, SeekKeeps
    <3> QED
      BY <2>1, <2>2, <3>1, <3>2, TryCases DEF IInv
  <2> QED
    BY <2>4, <2>5
<1> QED
  BY <1>14, <1>15, <1>16

(* The extensions change, and the files do not.                              *)
LEMMA FilesStay ==
  ASSUME TablesOK, SameWork(builders, builders'),
         UNCHANGED <<db, given, files_by_name_, files_after_checkpoint_, checkpoints_, links>>
  PROVE  FilesOK' /\ ClosedOK'
<1>1. /\ db' = db /\ given' = given /\ files_by_name_' = files_by_name_
      /\ files_after_checkpoint_' = files_after_checkpoint_
      /\ checkpoints_' = checkpoints_ /\ finished_building_' = finished_building_
      /\ type_once_' = type_once_ /\ message_type_' = message_type_
  BY DEF links
<1>2. FilesOK'
  <2>1. InOrder(Opened', AtWork(builders', Recorded), builders')
    <3>1. Opened' = Opened
      BY <1>1 DEF Opened
    <3>2. InOrder(Opened, AtWork(builders, Recorded), builders)
      BY DEF TablesOK, FilesOK
    <3> QED
      BY <3>1, <3>2, OrderSame DEF SameWork
  <2>2. {builders'[i].file : i \in AtWork(builders', Recorded)}
          = {builders[i].file : i \in AtWork(builders, Recorded)}
    BY DEF SameWork
  <2> QED
    BY <1>1, <2>1, <2>2 DEF FilesOK, TablesOK
<1>3. ClosedOK'
  <2>1. \A f : Clean(f)' => Clean(f)
    BY <1>1 DEF Clean, SameWork
  <2>2. KeptTables' = KeptTables
    BY <1>1 DEF KeptTables, FilesSince
  <2>3. SUFFICES ASSUME NEW S \in KeptTables PROVE Closed(S)'
    BY <2>2 DEF ClosedOK
  <2>4. Closed(S)
    BY DEF ClosedOK, TablesOK
  <2> QED
    BY <1>1, <2>1, <2>4 DEF Closed
<1> QED
  BY <1>2, <1>3

(* What came after a checkpoint is in the tables.                            *)
LEMMA AfterFacts ==
  ASSUME Typed, TablesOK
  PROVE  /\ ToSet(files_after_checkpoint_) \subseteq files_by_name_
         /\ \A s \in ToSet(symbols_after_checkpoint_) : symbols_by_name_[s] # NULL
         /\ ToSet(extensions_after_checkpoint_) \subseteq extensions_
<1>1. /\ files_after_checkpoint_ \in Seq(File) /\ symbols_after_checkpoint_ \in Seq(Symbol)
      /\ extensions_after_checkpoint_ \in Seq(File \X File)
      /\ files_by_name_ \subseteq File /\ NULL \notin File
  BY DatabaseFacts DEF Typed, TablesTyped
<1>2. CASE checkpoints_ = << >>
  <2>1. /\ files_after_checkpoint_ = << >> /\ symbols_after_checkpoint_ = << >>
        /\ extensions_after_checkpoint_ = << >>
    BY <1>2 DEF TablesOK, LevelsOK
  <2>2. ToSet(<< >>) = {}
    BY DEF ToSet
  <2> QED
    BY <2>1, <2>2
<1>3. CASE checkpoints_ # << >>
  <2>1. PICK c : c = checkpoints_[1]
    OBVIOUS
  <2>2. c = [files |-> 0, symbols |-> 0, extensions |-> 0]
    BY <2>1, <1>3 DEF TablesOK, LevelsOK
  <2>3. c.files = 0 /\ c.symbols = 0 /\ c.extensions = 0
    BY <2>2
  <2>4. 1 \in DOMAIN checkpoints_
    <3>1. Len(checkpoints_) # 0
      BY <1>3, EmptySeq DEF Typed, TablesTyped
    <3> QED
      BY <3>1, LevelFacts
  <2>5. /\ FilesSince(1) \subseteq files_by_name_
        /\ SymbolsSince(1) = {s \in Symbol : symbols_by_name_[s] \in FilesSince(1)}
        /\ ExtensionsSince(1) = {key \in extensions_ : key[2] \in FilesSince(1)}
    BY <2>4 DEF TablesOK, RecordsOK
  <2>6. FilesSince(1) = ToSet(files_after_checkpoint_)
    BY <2>1, <2>3, <1>1, SinceBounds DEF FilesSince
  <2>7. SymbolsSince(1) = ToSet(symbols_after_checkpoint_)
    BY <2>1, <2>3, <1>1, SinceBounds DEF SymbolsSince
  <2>8. ExtensionsSince(1) = ToSet(extensions_after_checkpoint_)
    BY <2>1, <2>3, <1>1, SinceBounds DEF ExtensionsSince
  <2> QED
    BY <2>5, <2>6, <2>7, <2>8, <1>1
<1> QED
  BY <1>2, <1>3

(* The extension is recorded, and a rollback will take it back.              *)
LEMMA AddExtensionKeeps ==
  ASSUME IInv, AddExtension
  PROVE  IInv'
<1>1. /\ builders # << >> /\ Top.at = "extended"
      /\ UNCHANGED <<db, files_by_name_, symbols_by_name_, files_after_checkpoint_,
                     symbols_after_checkpoint_, checkpoints_, links, pending_files_, bad, call,
                     given>>
  BY DEF AddExtension, At, user
<1>2. PICK f : f = Top.file
  OBVIOUS
<1>3. PICK s : s = db.extendee[f]
  OBVIOUS
<1>4. PICK key : key = <<s, f>>
  OBVIOUS
<1>5. /\ builders \in Seq(BuilderRecord) /\ f \in File /\ Top.at \in Recorded
      /\ Top = Last(builders) /\ Top = builders[Len(builders)] /\ Len(builders) \in DOMAIN builders
      /\ Top.at \notin {"enter", "imports"}
  BY <1>1, <1>2, TopFacts DEF IInv, Recorded, Top
<1>6. BuilderOK(Top)
  BY <1>5 DEF IInv, TablesOK, BuildersOK, BuildersFine
<1>7. /\ \A k \in extensions_ : k[2] # f
      /\ ~ Top.errors => Named(f) /\ Linked(f)
      /\ s # NULL
  BY <1>1, <1>2, <1>3, <1>5, <1>6 DEF BuilderOK
<1>8. s \in File /\ key \in File \X File /\ key[1] = s /\ key[2] = f
  BY <1>3, <1>4, <1>5, <1>7, DatabaseFacts DEF IInv
<1>9. CASE ~ MayUse(f, s)
  <2>1. builders' = SetTop(Errs("finish")) /\ UNCHANGED <<extensions_, extensions_after_checkpoint_>>
    BY <1>2, <1>3, <1>9 DEF AddExtension
  <2>2. PICK b : b = Errs("finish")
    OBVIOUS
  <2>3. /\ b \in BuilderRecord /\ b.at = "finish" /\ b.file = Top.file /\ b.errors
        /\ builders' = SetLast(builders, b)
    BY <1>1, <2>1, <2>2, TopFacts DEF IInv, Labels
  <2>4. BuilderOK(b)
    BY <2>3 DEF BuilderOK
  <2>5. db.mode # LAZY
    <3>1. SUFFICES ASSUME db.mode = LAZY PROVE FALSE
      OBVIOUS
    <3>2. LazyAt(builders, Len(builders))
      BY <3>1, <1>5 DEF IInv, LazyOK, LazyStack
    <3>3. ~ Len(builders) < Len(builders)
      BY <1>1, TopFacts DEF IInv
    <3> QED
      BY <3>1, <3>2, <3>3, <1>1, <1>2, <1>3, <1>5, <1>9 DEF LazyAt, MayUse
  <2>6. UNCHANGED tables
    BY <2>1, <1>1 DEF tables, entries, after
  <2>7. b.at \in Recorded
    BY <2>3 DEF Recorded
  <2> QED
    BY <2>3, <2>4, <2>5, <2>6, <2>7, <1>1, <1>5, GoOnKeeps
<1>10. CASE MayUse(f, s)
  <2>1. /\ extensions_' = extensions_ \cup {key}
        /\ extensions_after_checkpoint_' = Append(extensions_after_checkpoint_, key)
        /\ builders' = SetTop(Goes("finish"))
    BY <1>2, <1>3, <1>4, <1>8, <1>10 DEF AddExtension
  <2>2. PICK b : b = Goes("finish")
    OBVIOUS
  <2>3. /\ b \in BuilderRecord /\ b.at = "finish" /\ b.file = f /\ b.errors = Top.errors
        /\ builders' = SetLast(builders, b) /\ b.at \in Recorded
    BY <1>1, <1>2, <2>1, <2>2, TopFacts DEF IInv, Labels, Recorded
  <2>4. db.mode = LAZY => ~ b.errors
    BY <2>3, <1>5 DEF IInv, LazyOK, LazyStack, LazyAt
  <2>5. /\ builders' \in Seq(BuilderRecord) /\ StackOK' /\ CallOK' /\ LazyOK'
        /\ SameWork(builders, builders')
    BY <1>1, <1>2, <1>5, <2>3, <2>4, RelabelKeeps
  <2>6. PICK e : e = extensions_after_checkpoint_
    OBVIOUS
  <2>7. e \in Seq(File \X File) /\ key \notin ToSet(e) /\ IsInjective(e) /\ Len(e) \in Nat
    BY <2>6, <1>7, <1>8, AfterFacts DEF IInv, Typed, TablesTyped, TablesOK, LevelsOK
  <2>8. /\ Append(e, key) \in Seq(File \X File) /\ Len(Append(e, key)) = Len(e) + 1
        /\ IsInjective(Append(e, key))
        /\ \A n \in 0..Len(e) : Since(Append(e, key), n) = Since(e, n) \cup {key}
    BY <2>7, <1>8, SinceAppend
  <2>9. Typed'
    BY <1>1, <1>8, <2>1, <2>5, <2>6, <2>8 DEF IInv, Typed, TablesTyped, links
  <2>10. LevelsOK'
    <3>1. checkpoints_ # << >>
      BY <1>1, <1>5, TopOpened
    <3>2. \A k \in DOMAIN checkpoints_ : checkpoints_[k].extensions <= Len(e) + 1
      <4>1. \A k \in DOMAIN checkpoints_ : checkpoints_[k].extensions \in 0..Len(e)
        BY <2>6, LevelFacts DEF IInv
      <4> QED
        BY <4>1, <2>7
    <3>3. IsInjective(extensions_after_checkpoint_') /\ Len(extensions_after_checkpoint_') = Len(e) + 1
      BY <2>1, <2>6, <2>8
    <3> QED
      BY <1>1, <3>1, <3>2, <3>3 DEF IInv, TablesOK, LevelsOK
  <2>11. RecordsOK'
    <3>1. SUFFICES ASSUME NEW k \in DOMAIN checkpoints_
                   PROVE  /\ FilesSince(k)' \subseteq files_by_name_'
                          /\ SymbolsSince(k)' = {x \in Symbol : symbols_by_name_'[x] \in FilesSince(k)'}
                          /\ ExtensionsSince(k)' = {x \in extensions_' : x[2] \in FilesSince(k)'}
      BY <1>1 DEF RecordsOK
    <3>2. FilesSince(k)' = FilesSince(k) /\ SymbolsSince(k)' = SymbolsSince(k)
      BY <1>1 DEF FilesSince, SymbolsSince
    <3>3. checkpoints_[k].extensions \in 0..Len(e)
      BY <2>6, LevelFacts DEF IInv
    <3>4. ExtensionsSince(k)' = ExtensionsSince(k) \cup {key}
      BY <1>1, <2>1, <2>6, <2>8, <3>3 DEF ExtensionsSince
    <3>5. f \in FilesSince(k)
      BY <1>1, <1>2, <1>5, TopOpened
    <3>6. /\ FilesSince(k) \subseteq files_by_name_
          /\ SymbolsSince(k) = {x \in Symbol : symbols_by_name_[x] \in FilesSince(k)}
          /\ ExtensionsSince(k) = {x \in extensions_ : x[2] \in FilesSince(k)}
      BY DEF IInv, TablesOK, RecordsOK
    <3>7. {x \in extensions_' : x[2] \in FilesSince(k)}
            = {x \in extensions_ : x[2] \in FilesSince(k)} \cup {key}
      BY <2>1, <3>5, <1>8
    <3> QED
      BY <1>1, <3>2, <3>4, <3>6, <3>7
  <2>12. FilesOK' /\ ClosedOK'
    BY <1>1, <2>5, FilesStay DEF IInv
  <2>13. /\ type_once_' = type_once_ /\ message_type_' = message_type_
         /\ finished_building_' = finished_building_
    BY <1>1 DEF links
  <2>14. ASSUME NEW g
         PROVE  /\ Named(g) => Named(g)'
                /\ Linked(g) => Linked(g)'
                /\ Extended(g) => Extended(g)'
    BY <1>1, <2>1, <2>13 DEF Named, Defines, Linked, Extended
  <2>15. EntriesOK'
    <3>1. f \in files_by_name_
      BY <1>1, <1>2, <1>5, TopOpened
    <3>2. \A x \in extensions_' : x[2] \in files_by_name_'
      BY <3>1, <1>1, <1>8, <2>1 DEF IInv, TablesOK, EntriesOK
    <3>3. \A x \in Symbol : symbols_by_name_'[x] # NULL =>
            symbols_by_name_'[x] \in files_by_name_' /\ x \in Defines(symbols_by_name_[x])'
      BY <1>1 DEF IInv, TablesOK, EntriesOK, Defines
    <3>4. \A g \in finished_building_' : Named(g)' /\ Linked(g)' /\ Extended(g)'
      BY <2>13, <2>14 DEF IInv, TablesOK, EntriesOK
    <3> QED
      BY <3>2, <3>3, <3>4 DEF EntriesOK
  <2>16. BuildersOK'
    <3>1. PICK n : n = Len(builders)
      OBVIOUS
    <3>2. PICK r : r = builders'
      OBVIOUS
    <3>3. /\ r[n] = b /\ DOMAIN r = DOMAIN builders
          /\ \A i \in DOMAIN builders : i # n => r[i] = builders[i]
      <4>1. \A i \in DOMAIN builders : i # Len(builders) => SetLast(builders, b)[i] = builders[i]
        BY <1>5, <2>3, SetLastFacts
      <4>2. SetLast(builders, b)[Len(builders)] = b /\ DOMAIN SetLast(builders, b) = DOMAIN builders
        BY <1>5, <2>3, SetLastFacts
      <4> QED
        BY <2>3, <3>1, <3>2, <4>1, <4>2
    <3>4. BuilderOK(b)'
      <4>1. Extended(f)'
        BY <1>1, <1>3, <1>4, <2>1 DEF Extended
      <4>2. ~ b.errors => Named(b.file)' /\ Linked(b.file)' /\ Extended(b.file)'
        BY <4>1, <1>7, <2>3, <2>14
      <4> QED
        BY <4>2, <2>3 DEF BuilderOK
    <3>5. ASSUME NEW i \in DOMAIN builders, i # n, NEW c, c = builders[i] PROVE BuilderOK(c)'
      <4>1. BuilderOK(c)
        BY <3>5 DEF IInv, TablesOK, BuildersOK, BuildersFine
      <4>2. c.at \in Recorded => c.file # f
        BY <3>1, <3>5, <1>1, <1>2, <1>5, TopOpened DEF AtWork
      <4>3. c.at \in Recorded \ {"finish"} => \A x \in extensions_' : x[2] # c.file
        BY <4>1, <4>2, <1>8, <2>1 DEF BuilderOK
      <4> QED
        BY <4>1, <4>3, <1>1, <2>14 DEF BuilderOK
    <3>6. ASSUME NEW i \in DOMAIN r PROVE BuilderOK(r[i])'
      BY <3>3, <3>4, <3>5
    <3> QED
      BY <3>2, <3>6 DEF BuildersOK, BuildersFine
  <2> QED
    BY <2>5, <2>9, <2>10, <2>11, <2>12, <2>15, <2>16 DEF IInv, TablesOK
<1> QED
  BY <1>9, <1>10

-----------------------------------------------------------------------------
(* The step of a builder that adds the file. *)

(* A checkpoint, the file and its symbols.                                   *)
LEMMA AddKeeps ==
  ASSUME IInv, Add
  PROVE  IInv'
<1>1. /\ builders # << >> /\ Top.at = "add" /\ ~ Hopeless(Top.file)
      /\ UNCHANGED <<db, extensions_, extensions_after_checkpoint_, links, pending_files_, bad,
                     call, given>>
  BY DEF Add, At, user
<1>2. PICK f : f = Top.file
  OBVIOUS
<1>3. PICK new : new = {s \in Defines(f) : symbols_by_name_[s] = NULL}
  OBVIOUS
<1>4. PICK e : e = (\/ new # Defines(f) \/ f \in db.invalid
                    \/ db.mode # LAZY /\ ~ db.imports[f] \subseteq files_by_name_)
  OBVIOUS
<1>5. /\ checkpoints_' = Append(checkpoints_, Checkpoint)
      /\ files_by_name_' = files_by_name_ \cup {f}
      /\ files_after_checkpoint_' = Append(files_after_checkpoint_, f)
      /\ symbols_by_name_' = [s \in Symbol |-> IF s \in new THEN f ELSE symbols_by_name_[s]]
      /\ symbols_after_checkpoint_' = symbols_after_checkpoint_ \o SetToSeq(new)
      /\ builders' = SetTop([Goes("type") EXCEPT !.errors = e])
  BY <1>2, <1>3, <1>4 DEF Add
<1>6. /\ builders \in Seq(BuilderRecord) /\ f \in File /\ Top.at \notin Recorded
      /\ Top = Last(builders) /\ Top = builders[Len(builders)] /\ Len(builders) \in DOMAIN builders
      /\ DOMAIN builders = 1..Len(builders) /\ Len(builders) \in Nat
      /\ Top.at \notin {"enter", "imports"}
  BY <1>1, <1>2, TopFacts DEF IInv, Recorded, Top
<1>7. f \notin files_by_name_ /\ f \notin db.imports[f]
  BY <1>1, <1>2 DEF Hopeless
<1>8. PICK b : b = [Goes("type") EXCEPT !.errors = e]
  OBVIOUS
<1>9. /\ b \in BuilderRecord /\ b.at = "type" /\ b.file = f /\ b.errors = e
      /\ builders' = SetLast(builders, b) /\ b.at \in Recorded
  <2>1. PICK c : c = Goes("type")
    OBVIOUS
  <2>2. c \in BuilderRecord /\ c.at = "type" /\ c.file = f
    BY <1>1, <1>2, <2>1, TopFacts DEF IInv, Labels
  <2>3. e \in BOOLEAN
    BY <1>4
  <2>4. b \in BuilderRecord /\ b.at = "type" /\ b.file = f /\ b.errors = e
    BY <1>8, <2>1, <2>2, <2>3 DEF BuilderRecord
  <2> QED
    BY <2>4, <1>1, <1>5, <1>8, TopFacts DEF IInv, Recorded
<1>10. /\ Defines(f) \subseteq Symbol /\ f \in Defines(f) /\ new \subseteq Symbol
       /\ IsFiniteSet(new) /\ NULL \notin File
  <2>1. Defines(f) = {f} \/ Defines(f) = {f, Clash}
    BY DEF Defines
  <2>2. IsFiniteSet({f}) /\ IsFiniteSet({f, Clash})
    <3>1. IsFiniteSet({f})
      BY FS_Singleton
    <3>2. IsFiniteSet({f} \cup {Clash})
      BY <3>1, FS_AddElement
    <3>3. {f} \cup {Clash} = {f, Clash}
      OBVIOUS
    <3> QED
      BY <3>1, <3>2, <3>3
  <2>3. IsFiniteSet(Defines(f))
    BY <2>1, <2>2
  <2>4. new \subseteq Defines(f)
    BY <1>3
  <2>5. IsFiniteSet(new)
    BY <2>3, <2>4, FS_Subset
  <2>6. {f, Clash} \subseteq Symbol /\ NULL \notin File
    BY <1>6, DatabaseFacts DEF IInv
  <2> QED
    BY <2>1, <2>4, <2>5, <2>6
<1>11. PICK F, S, E : /\ F = files_after_checkpoint_ /\ S = symbols_after_checkpoint_
                      /\ E = extensions_after_checkpoint_
  OBVIOUS
<1>12. /\ F \in Seq(File) /\ S \in Seq(Symbol) /\ E \in Seq(File \X File)
       /\ Len(F) \in Nat /\ Len(S) \in Nat /\ Len(E) \in Nat
       /\ IsInjective(F) /\ IsInjective(S) /\ IsInjective(E)
       /\ ToSet(F) \subseteq files_by_name_ /\ \A s \in ToSet(S) : symbols_by_name_[s] # NULL
       /\ symbols_by_name_ \in [Symbol -> File \cup {NULL}] /\ files_by_name_ \subseteq File
  BY <1>11, AfterFacts DEF IInv, Typed, TablesTyped, TablesOK, LevelsOK
<1>13. PICK q : q = SetToSeq(new)
  OBVIOUS
<1>14. q \in Seq(Symbol) /\ IsInjective(q) /\ ToSet(q) = new /\ Len(q) \in Nat
  <2>1. q \in Seq(new) /\ IsInjective(q) /\ ToSet(q) = new
    BY <1>10, <1>13, SetToSeqFacts
  <2> QED
    BY <2>1, <1>10
<1>15. PICK G, T : G = Append(F, f) /\ T = S \o q
  OBVIOUS
<1>16. G = files_after_checkpoint_' /\ T = symbols_after_checkpoint_'
  BY <1>5, <1>11, <1>13, <1>15
<1>17. /\ G \in Seq(File) /\ Len(G) = Len(F) + 1 /\ DOMAIN G = 1..(Len(F) + 1)
       /\ \A n \in 0..Len(F) : Since(G, n) = Since(F, n) \cup {f}
       /\ \A i \in DOMAIN F : G[i] = F[i]
       /\ G[Len(F) + 1] = f /\ IsInjective(G)
  <2>1. f \notin ToSet(F)
    BY <1>7, <1>12
  <2> QED
    BY <2>1, <1>6, <1>12, <1>15, SinceAppend
<1>18. /\ T \in Seq(Symbol) /\ Len(T) = Len(S) + Len(q)
       /\ \A n \in 0..Len(S) : Since(T, n) = Since(S, n) \cup new
       /\ IsInjective(T)
  <2>1. ToSet(S) \cap ToSet(q) = {}
    BY <1>3, <1>12, <1>14
  <2> QED
    BY <2>1, <1>12, <1>14, <1>15, SinceConcat
<1>19. PICK C : C = Checkpoint
  OBVIOUS
<1>20. C \in CheckpointRecord /\ C.files = Len(F) /\ C.symbols = Len(S) /\ C.extensions = Len(E)
  BY <1>11, <1>12, <1>19 DEF Checkpoint, CheckpointRecord
<1>21. PICK P, N : P = checkpoints_ /\ N = Len(checkpoints_)
  OBVIOUS
<1>22. PICK Q : Q = Append(P, C)
  OBVIOUS
<1>23. /\ Q = checkpoints_' /\ Q \in Seq(CheckpointRecord) /\ Len(Q) = N + 1 /\ N \in Nat
       /\ DOMAIN Q = 1..(N + 1) /\ Q[N + 1] = C /\ \A k \in DOMAIN P : Q[k] = P[k]
       /\ DOMAIN P = 1..N
  <2>1. P \in Seq(CheckpointRecord) /\ N = Len(P)
    BY <1>21 DEF IInv, Typed, TablesTyped
  <2>2. Q = checkpoints_'
    BY <1>5, <1>19, <1>21, <1>22
  <2> QED
    BY <2>1, <2>2, <1>20, <1>22, SinceAppend
<1>24. \A k \in DOMAIN Q : k = N + 1 \/ (k \in DOMAIN P /\ Q[k] = P[k])
  BY <1>23
<1>25. ASSUME NEW k \in DOMAIN P
       PROVE  /\ P[k].files \in 0..Len(F) /\ P[k].files < Len(F)
              /\ P[k].symbols \in 0..Len(S) /\ P[k].extensions \in 0..Len(E)
              /\ P[k].files + 1 \in DOMAIN F
  BY <1>11, <1>21, LevelFacts DEF IInv
<1>26. ASSUME NEW k \in DOMAIN Q
       PROVE  /\ Q[k].files \in 0..Len(F) /\ Q[k].symbols \in 0..Len(S)
              /\ Q[k].extensions \in 0..Len(E)
              /\ k \in DOMAIN P => Q[k].files < Len(F)
  <2>1. CASE k = N + 1
    BY <2>1, <1>12, <1>20, <1>23
  <2>2. CASE k \in DOMAIN P /\ Q[k] = P[k]
    BY <2>2, <1>25
  <2> QED
    BY <2>1, <2>2, <1>24
<1>27. ASSUME NEW k \in DOMAIN Q
       PROVE  /\ Since(F, Q[k].files) \subseteq files_by_name_
              /\ Since(S, Q[k].symbols) = {s \in Symbol : symbols_by_name_[s] \in Since(F, Q[k].files)}
              /\ Since(E, Q[k].extensions) = {key \in extensions_ : key[2] \in Since(F, Q[k].files)}
  <2>1. CASE k = N + 1
    <3>1. Since(F, Len(F)) = {} /\ Since(S, Len(S)) = {} /\ Since(E, Len(E)) = {}
      BY <1>12, SinceBounds
    <3> QED
      BY <2>1, <3>1, <1>20, <1>23
  <2>2. CASE k \in DOMAIN P /\ Q[k] = P[k]
    BY <2>2, <1>11, <1>21 DEF IInv, TablesOK, RecordsOK, FilesSince, SymbolsSince, ExtensionsSince
  <2> QED
    BY <2>1, <2>2, <1>24
<1>28. /\ symbols_by_name_' \in [Symbol -> File \cup {NULL}]
       /\ \A s \in new : symbols_by_name_'[s] = f /\ symbols_by_name_[s] = NULL
       /\ \A s \in Symbol \ new : symbols_by_name_'[s] = symbols_by_name_[s]
       /\ \A s \in Symbol : symbols_by_name_[s] # f
  <2>1. \A s \in Symbol : symbols_by_name_[s] # f
    <3>1. f # NULL
      BY <1>6, <1>10
    <3> QED
      BY <3>1, <1>7 DEF IInv, TablesOK, EntriesOK
  <2> QED
    BY <2>1, <1>3, <1>5, <1>6, <1>10, <1>12
<1>29. Typed'
  <2>1. builders' \in Seq(BuilderRecord)
    BY <1>1, <1>6, <1>9, SetLastFacts
  <2>2. files_by_name_' \subseteq File
    BY <1>5, <1>6, <1>12
  <2>3. /\ files_after_checkpoint_' \in Seq(File) /\ symbols_after_checkpoint_' \in Seq(Symbol)
        /\ checkpoints_' \in Seq(CheckpointRecord)
    BY <1>16, <1>17, <1>18, <1>23
  <2>4. message_type_' = message_type_
    BY <1>1 DEF links
  <2> QED
    BY <1>1, <1>28, <2>1, <2>2, <2>3, <2>4 DEF IInv, Typed, TablesTyped
<1>30. LevelsOK'
  <2>1. \A k \in DOMAIN Q :
          /\ Q[k].files < Len(G) /\ Q[k].symbols <= Len(T) /\ Q[k].extensions <= Len(E)
    BY <1>12, <1>14, <1>17, <1>18, <1>26
  <2>2. ASSUME NEW k \in DOMAIN Q, NEW l \in DOMAIN Q, k < l
        PROVE  /\ Q[k].files < Q[l].files /\ Q[k].symbols <= Q[l].symbols
               /\ Q[k].extensions <= Q[l].extensions
    <3>1. k \in DOMAIN P /\ Q[k] = P[k]
      BY <2>2, <1>23
    <3>2. CASE l = N + 1
      <4>1. Q[l].files = Len(F) /\ Q[l].symbols = Len(S) /\ Q[l].extensions = Len(E)
        BY <3>2, <1>20, <1>23
      <4>2. /\ Q[k].files \in 0..Len(F) /\ Q[k].symbols \in 0..Len(S)
            /\ Q[k].extensions \in 0..Len(E) /\ Q[k].files < Len(F)
        BY <3>1, <1>26
      <4> QED
        BY <4>1, <4>2, <1>12
    <3>3. CASE l \in DOMAIN P /\ Q[l] = P[l]
      BY <2>2, <3>1, <3>3, <1>21 DEF IInv, TablesOK, LevelsOK
    <3> QED
      BY <3>2, <3>3, <1>24
  <2>3. Q[1] = [files |-> 0, symbols |-> 0, extensions |-> 0]
    <3>1. CASE N = 0
      <4>1. P = << >>
        BY <3>1, <1>21, EmptySeq DEF IInv, Typed, TablesTyped
      <4>2. F = << >> /\ S = << >> /\ E = << >>
        BY <4>1, <1>11, <1>21 DEF IInv, TablesOK, LevelsOK
      <4>3. Len(F) = 0 /\ Len(S) = 0 /\ Len(E) = 0
        BY <4>2
      <4>4. Q[1] = C
        BY <3>1, <1>23
      <4>5. C = [files |-> Len(F), symbols |-> Len(S), extensions |-> Len(E)]
        BY <1>11, <1>19 DEF Checkpoint
      <4> QED
        BY <4>3, <4>4, <4>5
    <3>2. CASE N # 0
      <4>1. 1 \in DOMAIN P /\ P # << >>
        BY <3>2, <1>23
      <4>2. P[1] = [files |-> 0, symbols |-> 0, extensions |-> 0]
        BY <4>1, <1>21 DEF IInv, TablesOK, LevelsOK
      <4> QED
        BY <4>1, <4>2, <1>23
    <3> QED
      BY <3>1, <3>2
  <2>4. Q # << >>
    BY <1>23
  <2>5. IsInjective(G) /\ IsInjective(T) /\ IsInjective(E)
    BY <1>12, <1>17, <1>18
  <2>6. E = extensions_after_checkpoint_'
    BY <1>1, <1>11
  <2> QED
    BY <2>1, <2>2, <2>3, <2>4, <2>5, <2>6, <1>16, <1>23 DEF LevelsOK
<1>31. RecordsOK'
  <2>1. SUFFICES ASSUME NEW k \in DOMAIN Q
                 PROVE  /\ FilesSince(k)' \subseteq files_by_name_'
                        /\ SymbolsSince(k)' = {s \in Symbol : symbols_by_name_'[s] \in FilesSince(k)'}
                        /\ ExtensionsSince(k)' = {key \in extensions_' : key[2] \in FilesSince(k)'}
    BY <1>23 DEF RecordsOK
  <2>2. PICK A : A = Since(F, Q[k].files)
    OBVIOUS
  <2>3. FilesSince(k)' = A \cup {f}
    BY <2>2, <1>16, <1>17, <1>23, <1>26 DEF FilesSince
  <2>4. SymbolsSince(k)' = Since(S, Q[k].symbols) \cup new
    BY <1>16, <1>18, <1>23, <1>26 DEF SymbolsSince
  <2>5. ExtensionsSince(k)' = Since(E, Q[k].extensions)
    BY <1>1, <1>11, <1>23 DEF ExtensionsSince
  <2>6. /\ A \subseteq files_by_name_
        /\ Since(S, Q[k].symbols) = {s \in Symbol : symbols_by_name_[s] \in A}
        /\ Since(E, Q[k].extensions) = {key \in extensions_ : key[2] \in A}
    BY <2>2, <1>27
  <2>7. NULL \notin A
    BY <2>6, <1>10, <1>12
  <2>8. {s \in Symbol : symbols_by_name_'[s] \in A \cup {f}}
          = {s \in Symbol : symbols_by_name_[s] \in A} \cup new
    BY <2>7, <1>10, <1>28
  <2>9. \A key \in extensions_ : key[2] # f
    BY <1>7 DEF IInv, TablesOK, EntriesOK
  <2>10. {key \in extensions_' : key[2] \in A \cup {f}} = {key \in extensions_ : key[2] \in A}
    BY <2>9, <1>1
  <2> QED
    BY <2>3, <2>4, <2>5, <2>6, <2>8, <2>10, <1>5
<1>32. PICK n : n = Len(builders)
  OBVIOUS
<1>33. PICK r : r = builders'
  OBVIOUS
<1>34. /\ r[n] = b /\ DOMAIN r = DOMAIN builders /\ n \in Nat /\ builders[n].file = f
       /\ \A i \in DOMAIN builders : i # n => r[i] = builders[i]
       /\ \A i \in DOMAIN builders : r[i].file = builders[i].file
       /\ DOMAIN builders = 1..n /\ n \in DOMAIN builders
  <2>1. \A i \in DOMAIN builders : i # Len(builders) => SetLast(builders, b)[i] = builders[i]
    BY <1>1, <1>6, <1>9, SetLastFacts
  <2>2. SetLast(builders, b)[Len(builders)] = b /\ DOMAIN SetLast(builders, b) = DOMAIN builders
    BY <1>1, <1>6, <1>9, SetLastFacts
  <2>3. /\ r[n] = b /\ DOMAIN r = DOMAIN builders
        /\ \A i \in DOMAIN builders : i # n => r[i] = builders[i]
    BY <2>1, <2>2, <1>9, <1>32, <1>33
  <2> QED
    BY <2>3, <1>2, <1>6, <1>9, <1>32
<1>35. PICK W : W = AtWork(builders, Recorded)
  OBVIOUS
<1>36. /\ W \subseteq DOMAIN builders /\ n \notin W /\ AtWork(builders', Recorded) = W \cup {n}
       /\ \A i \in W : i < n /\ builders[i].file # f /\ builders[i].file \in files_by_name_
  <2>1. W \subseteq DOMAIN builders /\ n \notin W
    BY <1>6, <1>32, <1>35 DEF AtWork
  <2>2. AtWork(r, Recorded) = W \cup {n}
    BY <1>9, <1>34, <1>35 DEF AtWork
  <2>3. \A i \in W : builders[i].file \in files_by_name_
    BY <1>35 DEF IInv, TablesOK, FilesOK
  <2> QED
    BY <2>1, <2>2, <2>3, <1>7, <1>33, <1>34
<1>37. /\ finished_building_' = finished_building_ /\ type_once_' = type_once_
       /\ message_type_' = message_type_ /\ finished_building_ \subseteq files_by_name_
  BY <1>1 DEF links, IInv, TablesOK, FilesOK
<1>38. FilesOK'
  <2>1. PICK o : o = Opened
    OBVIOUS
  <2>2. /\ o \in Seq(File) /\ DOMAIN o = DOMAIN P
        /\ \A k \in DOMAIN P : o[k] = F[P[k].files + 1]
    BY <2>1, <1>11, <1>21, LevelFacts DEF IInv
  <2>3. InOrder(o, W, builders)
    BY <2>1, <1>35 DEF IInv, TablesOK, FilesOK
  <2>4. PICK u : u = Append(o, f)
    OBVIOUS
  <2>5. InOrder(u, W \cup {n}, builders)
    <3>1. W \subseteq Nat
      BY <1>34, <1>36
    <3>2. InOrder(Append(o, builders[n].file), W \cup {n}, builders)
      BY <3>1, <2>2, <2>3, <1>6, <1>34, <1>36, OrderOpens
    <3> QED
      BY <3>2, <2>4, <1>34
  <2>6. DOMAIN u = 1..(N + 1) /\ u[N + 1] = f /\ \A k \in DOMAIN P : u[k] = o[k]
    <3>1. Len(o) = N
      BY <2>2, <1>23
    <3> QED
      BY <3>1, <2>2, <2>4, <1>6, SinceAppend
  <2>7. PICK v : v = Opened'
    OBVIOUS
  <2>8. v = [k \in DOMAIN Q |-> G[Q[k].files + 1]]
    BY <2>7, <1>16, <1>23 DEF Opened
  <2>9. ASSUME NEW k \in DOMAIN Q PROVE v[k] = u[k]
    <3>1. CASE k = N + 1
      BY <3>1, <2>6, <2>8, <1>17, <1>20, <1>23
    <3>2. CASE k \in DOMAIN P /\ Q[k] = P[k]
      <4>1. v[k] = G[P[k].files + 1]
        BY <3>2, <2>8
      <4> QED
        BY <3>2, <4>1, <2>2, <2>6, <1>17, <1>25
    <3> QED
      BY <3>1, <3>2, <1>24
  <2>10. DOMAIN v = DOMAIN u
    BY <2>6, <2>8, <1>23
  <2>11. \A i \in W \cup {n} : r[i].file = builders[i].file
    BY <1>34, <1>36
  <2>12. InOrder(v, W \cup {n}, r)
    BY <2>5, <2>6, <2>9, <2>10, <2>11, <1>23, OrderSame
  <2>13. InOrder(Opened', AtWork(builders', Recorded), builders')
    BY <2>7, <2>12, <1>33, <1>36
  <2>14. files_by_name_' \ finished_building_'
           = {builders'[i].file : i \in AtWork(builders', Recorded)}
    <3>1. files_by_name_ \ finished_building_ = {builders[i].file : i \in W}
      BY <1>35 DEF IInv, TablesOK, FilesOK
    <3>2. files_by_name_' \ finished_building_' = {builders[i].file : i \in W} \cup {f}
      BY <3>1, <1>5, <1>7, <1>37
    <3>3. {r[i].file : i \in W \cup {n}} = {builders[i].file : i \in W} \cup {f}
      BY <2>11, <1>34
    <3> QED
      BY <3>2, <3>3, <1>33, <1>36
  <2>15. ToSet(G) = ToSet(F) \cup {f}
    <3>1. 0 \in 0..Len(F) /\ Since(F, 0) = ToSet(F) /\ Since(G, 0) = ToSet(G)
      BY <1>12, <1>17, SinceBounds
    <3> QED
      BY <3>1, <1>17
  <2>16. given' = given /\ given \subseteq finished_building_ /\ given \cap ToSet(F) = {}
    BY <1>1, <1>11 DEF IInv, TablesOK, FilesOK
  <2>17. given' \cap ToSet(files_after_checkpoint_') = {}
    BY <2>15, <2>16, <1>7, <1>16, <1>37
  <2>18. /\ type_once_' \subseteq files_by_name_'
         /\ \A g \in type_once_' : db'.mode = LAZY /\ db'.type[g] # NULL
         /\ \A g \in File : message_type_'[g] # NULL => g \in files_by_name_'
    BY <1>1, <1>5, <1>37 DEF IInv, TablesOK, FilesOK
  <2> QED
    BY <2>13, <2>14, <2>16, <2>17, <2>18, <1>5, <1>37 DEF FilesOK
<1>39. ASSUME NEW g \in File, g # f
       PROVE  /\ Named(g) => Named(g)'
              /\ Linked(g) => Linked(g)'
              /\ Extended(g) => Extended(g)'
  <2>1. ASSUME Named(g) PROVE Named(g)'
    <3>1. SUFFICES ASSUME NEW s \in Defines(g) PROVE symbols_by_name_'[s] = g
      BY <1>1 DEF Named, Defines
    <3>2. symbols_by_name_[s] = g
      BY <2>1 DEF Named
    <3>3. s \in Symbol
      BY <1>39, DatabaseFacts DEF IInv, Defines
    <3> QED
      BY <3>2, <3>3, <1>10, <1>28, <1>39
  <2> QED
    BY <2>1, <1>1, <1>37 DEF Linked, Extended
<1>40. EntriesOK'
  <2>1. ASSUME NEW s \in Symbol, symbols_by_name_'[s] # NULL
        PROVE  symbols_by_name_'[s] \in files_by_name_' /\ s \in Defines(symbols_by_name_[s])'
    <3>1. PICK g : g = symbols_by_name_'[s]
      OBVIOUS
    <3>2. Defines(g)' = Defines(g)
      BY <1>1 DEF Defines
    <3>3. CASE s \in new
      <4>1. g = f /\ s \in Defines(g)
        BY <3>1, <3>3, <1>3, <1>28
      <4> QED
        BY <3>1, <3>2, <4>1, <1>5
    <3>4. CASE s \notin new
      <4>1. g = symbols_by_name_[s] /\ g # NULL
        BY <2>1, <3>1, <3>4, <1>28
      <4>2. g \in files_by_name_ /\ s \in Defines(g)
        BY <4>1 DEF IInv, TablesOK, EntriesOK
      <4> QED
        BY <3>1, <3>2, <4>2, <1>5
    <3> QED
      BY <3>3, <3>4
  <2>2. \A key \in extensions_' : key[2] \in files_by_name_'
    BY <1>1, <1>5 DEF IInv, TablesOK, EntriesOK
  <2>3. \A g \in finished_building_' : Named(g)' /\ Linked(g)' /\ Extended(g)'
    BY <1>7, <1>12, <1>37, <1>39 DEF IInv, TablesOK, EntriesOK
  <2> QED
    BY <2>1, <2>2, <2>3 DEF EntriesOK
<1>41. BuildersOK'
  <2>1. BuilderOK(b)'
    <3>1. \A key \in extensions_' : key[2] # b.file
      BY <1>1, <1>7, <1>9 DEF IInv, TablesOK, EntriesOK
    <3>2. ASSUME ~ b.errors PROVE Named(b.file)'
      <4>1. new = Defines(f)
        BY <3>2, <1>4, <1>9
      <4>2. \A s \in Defines(f) : symbols_by_name_'[s] = f
        BY <4>1, <1>28
      <4>3. Defines(f)' = Defines(f)
        BY <1>1 DEF Defines
      <4> QED
        BY <4>2, <4>3, <1>9 DEF Named
    <3> QED
      BY <3>1, <3>2, <1>9 DEF BuilderOK
  <2>2. ASSUME NEW i \in DOMAIN builders, i # n, NEW c, c = builders[i] PROVE BuilderOK(c)'
    <3>1. BuilderOK(c)
      BY <2>2 DEF IInv, TablesOK, BuildersOK, BuildersFine
    <3>2. ASSUME c.at \in Recorded PROVE c.file \in File /\ c.file # f
      <4>1. i \in W
        BY <2>2, <3>2, <1>35 DEF AtWork
      <4> QED
        BY <4>1, <2>2, <1>12, <1>36
    <3> QED
      BY <3>1, <3>2, <1>1, <1>39 DEF BuilderOK
  <2>3. ASSUME NEW i \in DOMAIN r PROVE BuilderOK(r[i])'
    BY <2>1, <2>2, <1>34
  <2> QED
    BY <2>3, <1>33 DEF BuildersOK, BuildersFine
<1>42. ClosedOK'
  <2>1. PICK Z : Z = files_by_name_
    OBVIOUS
  <2>2. ASSUME NEW X \in KeptTables' PROVE X = Z \cup {f} \/ X \in KeptTables
    <3>1. CASE X = files_by_name_'
      BY <2>1, <3>1, <1>5
    <3>2. ASSUME NEW k \in DOMAIN Q, X = files_by_name_' \ FilesSince(k)' PROVE X \in KeptTables
      <4>1. FilesSince(k)' = Since(F, Q[k].files) \cup {f}
        BY <1>16, <1>17, <1>23, <1>26 DEF FilesSince
      <4>2. X = files_by_name_ \ Since(F, Q[k].files)
        BY <3>2, <4>1, <1>5, <1>7
      <4>3. CASE k = N + 1
        <5>1. Since(F, Q[k].files) = {}
          BY <4>3, <1>12, <1>20, <1>23, SinceBounds
        <5> QED
          BY <4>2, <5>1 DEF KeptTables
      <4>4. CASE k \in DOMAIN P /\ Q[k] = P[k]
        BY <4>2, <4>4, <1>11, <1>21 DEF KeptTables, FilesSince
      <4> QED
        BY <4>3, <4>4, <1>24
    <3> QED
      BY <3>1, <3>2, <1>23 DEF KeptTables
  <2>3. ASSUME NEW g, Clean(g)' PROVE Clean(g) \/ (g = f /\ ~ e)
    <3>1. \/ g \in finished_building_
          \/ \E i \in W \cup {n} : r[i].file = g /\ ~ r[i].errors
      BY <2>3, <1>33, <1>36, <1>37 DEF Clean
    <3>2. ASSUME NEW i \in W, r[i].file = g, ~ r[i].errors PROVE Clean(g)
      <4>1. r[i] = builders[i] /\ i \in AtWork(builders, Recorded)
        BY <1>34, <1>35, <1>36
      <4> QED
        BY <3>2, <4>1 DEF Clean
    <3>3. r[n].file = g /\ ~ r[n].errors => g = f /\ ~ e
      BY <1>9, <1>34
    <3> QED
      BY <3>1, <3>2, <3>3 DEF Clean
  <2>4. ASSUME NEW X \in KeptTables, NEW g \in X
        PROVE  /\ g \in Z /\ g # f
               /\ Clean(g) /\ db.mode # LAZY => db.imports[g] \subseteq X
               /\ message_type_[g] # NULL => message_type_[g] \in X
    <3>1. X \subseteq Z
      BY <2>1 DEF KeptTables
    <3> QED
      BY <2>1, <3>1, <1>7 DEF IInv, TablesOK, ClosedOK, Closed
  <2>5. ASSUME NEW X \in KeptTables PROVE Closed(X)'
    <3>1. ASSUME NEW g \in X
          PROVE  /\ Clean(g)' /\ db.mode # LAZY => db.imports[g] \subseteq X
                 /\ message_type_[g] # NULL => message_type_[g] \in X
      BY <2>3, <2>4
    <3> QED
      BY <3>1, <1>1, <1>37 DEF Closed
  <2>6. ASSUME NEW X, X = Z \cup {f} PROVE Closed(X)'
    <3>1. ASSUME NEW g \in X
          PROVE  /\ Clean(g)' /\ db.mode # LAZY => db.imports[g] \subseteq X
                 /\ message_type_[g] # NULL => message_type_[g] \in X
      <4>1. CASE g # f
        <5>1. g \in Z /\ Z \in KeptTables
          BY <2>1, <2>6, <4>1 DEF KeptTables
        <5>2. /\ Clean(g)' => Clean(g)
              /\ Clean(g) /\ db.mode # LAZY => db.imports[g] \subseteq Z
              /\ message_type_[g] # NULL => message_type_[g] \in Z
          BY <2>3, <2>4, <4>1, <5>1
        <5> QED
          BY <2>6, <5>2
      <4>2. CASE g = f
        <5>1. message_type_[f] = NULL
          BY <1>6, <1>7 DEF IInv, TablesOK, FilesOK
        <5>2. ~ Clean(f)
          BY <1>7, <1>35, <1>36, <1>37 DEF Clean
        <5>3. Clean(f)' /\ db.mode # LAZY => db.imports[f] \subseteq Z
          BY <2>1, <2>3, <5>2, <1>4
        <5> QED
          BY <2>6, <4>2, <5>1, <5>3
      <4> QED
        BY <4>1, <4>2
    <3> QED
      BY <3>1, <1>1, <1>37 DEF Closed
  <2> QED
    BY <2>2, <2>5, <2>6 DEF ClosedOK
<1>43. StackOK' /\ CallOK'
  <2>1. StackFine(SetLast(builders, b), pending_files_, db.mode)
    BY <1>1, <1>2, <1>6, <1>9, RelabelFine DEF IInv, StackOK
  <2>2. StackOK'
    BY <2>1, <1>1, <1>9 DEF StackOK
  <2>3. CallOK'
    BY <1>1, CallStays DEF IInv
  <2> QED
    BY <2>2, <2>3
<1>44. LazyOK'
  <2>1. SUFFICES ASSUME db.mode = LAZY PROVE LazyOK'
    BY <1>1 DEF LazyOK
  <2>2. /\ LazyStack(builders) /\ files_by_name_ \subseteq db.protos
        /\ known_bad_files_ = {} /\ known_bad_symbols_ = {}
    BY <2>1, <1>1 DEF IInv, LazyOK
  <2>3. f \in db.protos
    BY <2>2, <1>2, <1>6 DEF LazyStack, LazyAt
  <2>4. ~ e
    <3>1. db.invalid = {} /\ db.clash = {}
      BY <2>1, DatabaseFacts DEF IInv
    <3>2. symbols_by_name_[f] = NULL
      <4>1. symbols_by_name_[f] = IF f \in files_by_name_ THEN f ELSE NULL
        BY <2>1, <2>2, <1>6, LazyNames DEF IInv
      <4> QED
        BY <4>1, <1>7
    <3>3. Defines(f) = {f}
      BY <3>1 DEF Defines
    <3>4. new = Defines(f)
      BY <3>2, <3>3, <1>3
    <3> QED
      BY <2>1, <3>1, <3>4, <1>4
  <2>5. \A s : symbols_by_name_[s] # NULL /\ s \in Symbol => symbols_by_name_'[s] # NULL
    BY <1>3, <1>6, <1>10, <1>28
  <2>6. ASSUME NEW i \in DOMAIN builders, i # n PROVE LazyAt(r, i)'
    <3>1. LazyAt(builders, i) /\ r[i] = builders[i] /\ i < n
      BY <2>2, <2>6, <1>34 DEF LazyStack
    <3>2. builders[i].at \in {"imports", "typed", "extended"}
      BY <3>1, <1>32 DEF IInv, StackOK, StackFine
    <3>3. builders[i].file \in File
      <4>1. builders[i] \in BuilderRecord
        BY <1>6
      <4> QED
        BY <4>1 DEF BuilderRecord
    <3>4. r[i].at = "typed" => symbols_by_name_'[db.type[r[i].file]] # NULL
      <4>1. SUFFICES ASSUME r[i].at = "typed" PROVE symbols_by_name_'[db.type[r[i].file]] # NULL
        OBVIOUS
      <4>2. symbols_by_name_[db.type[r[i].file]] # NULL
        BY <3>1, <4>1 DEF LazyAt
      <4>3. db.type[r[i].file] # NULL
        BY <3>1, <4>1 DEF IInv, TablesOK, BuildersOK, BuildersFine, BuilderOK
      <4>4. db.type[r[i].file] \in Symbol
        BY <3>1, <3>3, <4>3, DatabaseFacts DEF IInv
      <4> QED
        BY <4>2, <4>4, <2>5
    <3>5. r[i].at = "extended" =>
            \/ symbols_by_name_'[db.extendee[r[i].file]] # NULL
            \/ i < Len(r) /\ r[i + 1].file = db.extendee[r[i].file]
      <4>1. SUFFICES ASSUME r[i].at = "extended"
                     PROVE  \/ symbols_by_name_'[db.extendee[r[i].file]] # NULL
                            \/ i < Len(r) /\ r[i + 1].file = db.extendee[r[i].file]
        OBVIOUS
      <4>2. \/ symbols_by_name_[db.extendee[r[i].file]] # NULL
            \/ builders[i + 1].file = db.extendee[r[i].file]
        BY <3>1, <4>1 DEF LazyAt
      <4>3. db.extendee[r[i].file] # NULL
        BY <3>1, <4>1 DEF IInv, TablesOK, BuildersOK, BuildersFine, BuilderOK
      <4>4. db.extendee[r[i].file] \in Symbol
        BY <3>1, <3>3, <4>3, DatabaseFacts DEF IInv
      <4>5. i + 1 \in DOMAIN builders /\ i < Len(r)
        <5>1. Len(r) = n
          BY <1>1, <1>6, <1>9, <1>32, <1>33, SetLastFacts
        <5> QED
          BY <5>1, <3>1, <2>6, <1>34
      <4> QED
        BY <4>2, <4>4, <4>5, <2>5, <1>34
    <3> QED
      BY <3>1, <3>2, <3>4, <3>5, <1>1 DEF LazyAt
  <2>7. LazyAt(r, n)'
    BY <2>3, <2>4, <1>1, <1>9, <1>34 DEF LazyAt
  <2>8. LazyStack(builders)'
    <3>1. \A i \in DOMAIN r : LazyAt(r, i)'
      BY <2>6, <2>7, <1>34
    <3> QED
      BY <3>1, <1>33 DEF LazyStack
  <2>9. files_by_name_' \subseteq db'.protos
    BY <2>2, <2>3, <1>1, <1>5
  <2>10. known_bad_files_' = {} /\ known_bad_symbols_' = {}
    BY <2>2, <1>1 DEF bad
  <2>11. call' # NULL /\ call'.op = "message_type" /\ call'.at = "answer" =>
           \/ symbols_by_name_'[call'.name] # NULL
           \/ (builders' # << >> /\ builders'[1].file = call'.name)
    <3>1. SUFFICES ASSUME call # NULL, call.op = "message_type", call.at = "answer"
                   PROVE  \/ symbols_by_name_'[call.name] # NULL
                          \/ (builders' # << >> /\ builders'[1].file = call.name)
      BY <1>1
    <3>2. \/ symbols_by_name_[call.name] # NULL
          \/ builders[1].file = call.name
      BY <2>1, <3>1 DEF IInv, LazyOK
    <3>3. call.name \in Symbol
      BY <3>1, DatabaseFacts DEF IInv, CallOK
    <3>4. builders' # << >> /\ builders'[1].file = builders[1].file
      <4>1. SetLast(builders, b)[1].file = builders[1].file
        BY <1>1, <1>2, <1>6, <1>9, FirstSame
      <4>2. SetLast(builders, b) # << >>
        BY <1>1, <1>6, <1>9, SetLastFacts
      <4> QED
        BY <4>1, <4>2, <1>9
    <3> QED
      BY <3>2, <3>3, <3>4, <2>5
  <2> QED
    BY <2>8, <2>9, <2>10, <2>11 DEF LazyOK
<1> QED
  BY <1>29, <1>30, <1>31, <1>38, <1>40, <1>41, <1>42, <1>43, <1>44 DEF IInv, TablesOK

-----------------------------------------------------------------------------
(* The last step of a builder. *)

(* The builders, those that have added their files, and the checkpoints when  *)
(* the innermost builder leaves with the last checkpoint: none of the files   *)
(* that builders below have added is after that checkpoint.                  *)
Leaves(n, W, r, P, L) ==
  /\ r \in Seq(BuilderRecord) /\ DOMAIN r \subseteq DOMAIN builders
  /\ \A i \in DOMAIN r : r[i] = builders[i] /\ i < n
  /\ AtWork(r, Recorded) = W \ {n} /\ n \in W /\ builders[n] = Top
  /\ \A i \in W \ {n} : r[i] = builders[i]
  /\ InOrder(Front(Opened), W \ {n}, r)
  /\ \A i \in W \ {n} : builders[i].file \notin FilesSince(L) /\ builders[i].file # Top.file
  /\ L \in Nat \ {0} /\ DOMAIN P = 1..L /\ Front(P) \in Seq(CheckpointRecord)
  /\ DOMAIN Front(P) = 1..(L - 1) /\ \A k \in 1..(L - 1) : Front(P)[k] = P[k]
  /\ DOMAIN Front(Opened) = 1..(L - 1)
  /\ \A k \in 1..(L - 1) :
       /\ Front(Opened)[k] = files_after_checkpoint_[P[k].files + 1]
       /\ k \in DOMAIN P /\ k < L /\ L \in DOMAIN P
       /\ P[k].files < P[L].files /\ P[k].symbols <= P[L].symbols
       /\ P[k].extensions <= P[L].extensions
       /\ FilesSince(L) \subseteq FilesSince(k)

(* They are so.                                                             *)
LEMMA LeaveFacts ==
  ASSUME IInv, builders # << >>, Top.at \in Recorded, NEW n, n = Len(builders),
         NEW W, W = AtWork(builders, Recorded), NEW r, r = Front(builders),
         NEW P, P = checkpoints_, NEW L, L = Len(checkpoints_)
  PROVE  Leaves(n, W, r, P, L)
<1>1. /\ builders \in Seq(BuilderRecord) /\ DOMAIN builders = 1..n /\ n \in Nat \ {0}
      /\ Top = builders[n] /\ n \in DOMAIN builders
  BY TopFacts DEF IInv
<1>2. /\ r \in Seq(BuilderRecord) /\ DOMAIN r = 1..(n - 1) /\ \A i \in 1..(n - 1) : r[i] = builders[i]
  BY <1>1, FrontFacts
<1>3. DOMAIN r \subseteq DOMAIN builders /\ \A i \in DOMAIN r : r[i] = builders[i] /\ i < n
  BY <1>1, <1>2
<1>4. \A i : i \in DOMAIN r <=> i \in DOMAIN builders /\ i # n
  BY <1>1, <1>2
<1>5. AtWork(r, Recorded) = W \ {n} /\ \A i \in W \ {n} : r[i] = builders[i]
  BY <1>3, <1>4 DEF AtWork
<1>6. /\ P # << >> /\ L \in DOMAIN P /\ n \in W
      /\ \A i \in W \ {n} : builders[i].file # Top.file
      /\ InOrder(Front(Opened), W \ {n}, builders)
  BY TopOpened
<1>7. InOrder(Front(Opened), W \ {n}, r)
  BY <1>5, <1>6, OrderSame
<1>8. /\ P \in Seq(CheckpointRecord) /\ L \in Nat \ {0} /\ DOMAIN P = 1..L
      /\ Front(P) \in Seq(CheckpointRecord) /\ DOMAIN Front(P) = 1..(L - 1)
      /\ \A k \in 1..(L - 1) : Front(P)[k] = P[k]
  <2>1. P \in Seq(CheckpointRecord)
    BY DEF IInv, Typed, TablesTyped
  <2> QED
    BY <2>1, <1>6, FrontFacts
<1>9. PICK o : o = Opened
  OBVIOUS
<1>10. /\ o \in Seq(File) /\ DOMAIN o = 1..L
       /\ \A k \in 1..L : o[k] = files_after_checkpoint_[P[k].files + 1]
  BY <1>8, <1>9, LevelFacts DEF IInv
<1>11. DOMAIN Front(o) = 1..(L - 1) /\ \A k \in 1..(L - 1) : Front(o)[k] = o[k]
  <2>1. Len(o) = L /\ o # << >>
    BY <1>8, <1>10
  <2> QED
    BY <2>1, <1>10, FrontFacts
<1>12. \A k \in 1..(L - 1) : k \in DOMAIN P /\ k < L /\ k <= L /\ k \in 1..L
  BY <1>8
<1>13. \A k \in 1..(L - 1) :
         /\ Front(o)[k] = files_after_checkpoint_[P[k].files + 1]
         /\ FilesSince(L) \subseteq FilesSince(k)
  BY <1>6, <1>8, <1>10, <1>11, <1>12, LevelFacts DEF IInv
<1>14. \A k \in 1..(L - 1) :
         /\ P[k].files < P[L].files /\ P[k].symbols <= P[L].symbols
         /\ P[k].extensions <= P[L].extensions
  BY <1>6, <1>12 DEF IInv, TablesOK, LevelsOK
<1>15. ASSUME NEW i \in W \ {n} PROVE builders[i].file \notin FilesSince(L)
  <2>1. SUFFICES ASSUME builders[i].file \in FilesSince(L) PROVE FALSE
    OBVIOUS
  <2>2. PICK k \in DOMAIN Front(o) : Front(o)[k] = builders[i].file
    BY <1>6, <1>9 DEF InOrder
  <2>3. k \in 1..(L - 1) /\ k \in DOMAIN P
    BY <2>2, <1>11, <1>12
  <2>4. PICK F : F = files_after_checkpoint_
    OBVIOUS
  <2>5. F \in Seq(File) /\ IsInjective(F) /\ Len(F) \in Nat /\ DOMAIN F = 1..Len(F)
    BY <2>4 DEF IInv, Typed, TablesTyped, TablesOK, LevelsOK
  <2>6. PICK a, c : a = P[k].files /\ c = P[L].files
    OBVIOUS
  <2>7. a \in 0..Len(F) /\ c \in 0..Len(F) /\ a + 1 \in DOMAIN F /\ a < c
    BY <2>3, <2>4, <2>6, <1>6, <1>14, LevelFacts DEF IInv
  <2>8. F[a + 1] = builders[i].file
    BY <2>2, <2>3, <2>4, <2>6, <1>13
  <2>9. builders[i].file \in Since(F, c)
    BY <2>1, <2>4, <2>6 DEF FilesSince
  <2>10. PICK j \in DOMAIN F : c < j /\ F[j] = builders[i].file
    BY <2>5, <2>7, <2>9, SinceFacts
  <2>11. j = a + 1
    BY <2>5, <2>7, <2>8, <2>10 DEF IsInjective
  <2> QED
    BY <2>5, <2>7, <2>10, <2>11
<1>16. builders[n] = Top
  BY <1>1
<1> QED
  BY <1>2, <1>3, <1>5, <1>6, <1>7, <1>8, <1>9, <1>11, <1>12, <1>13, <1>14, <1>15, <1>16
     DEF Leaves

(* The builder returns its file, and the outermost forgets what was after    *)
(* its checkpoint.                                                          *)
LEMMA ClearKeeps ==
  ASSUME IInv, Finish, ~ Top.errors
  PROVE  IInv'
<1>1. /\ builders # << >> /\ Top.at = "finish" /\ ClearLastCheckpoint
      /\ finished_building_' = finished_building_ \cup {Top.file} /\ Return(Top.file)
      /\ UNCHANGED <<entries, type_once_, message_type_>>
      /\ UNCHANGED <<db, pending_files_>>
  BY DEF Finish, At
<1>2. PICK f : f = Top.file
  OBVIOUS
<1>3. PICK n, W, r, P, L :
        /\ n = Len(builders) /\ W = AtWork(builders, Recorded) /\ r = Front(builders)
        /\ P = checkpoints_ /\ L = Len(checkpoints_)
  OBVIOUS
<1>4. Top.at \in Recorded /\ Top.at # "imports"
  BY <1>1 DEF Recorded
<1>5. /\ r \in Seq(BuilderRecord) /\ DOMAIN r \subseteq DOMAIN builders
      /\ \A i \in DOMAIN r : r[i] = builders[i] /\ i < n
      /\ AtWork(r, Recorded) = W \ {n} /\ n \in W /\ builders[n] = Top
      /\ \A i \in W \ {n} : r[i] = builders[i]
      /\ InOrder(Front(Opened), W \ {n}, r)
      /\ \A i \in W \ {n} : builders[i].file # Top.file
  <2>1. Leaves(n, W, r, P, L)
    BY <1>1, <1>3, <1>4, LeaveFacts
  <2> QED
    BY <2>1 DEF Leaves
<1>6. /\ L \in Nat \ {0} /\ DOMAIN P = 1..L /\ Front(P) \in Seq(CheckpointRecord)
      /\ DOMAIN Front(P) = 1..(L - 1) /\ \A k \in 1..(L - 1) : Front(P)[k] = P[k]
      /\ DOMAIN Front(Opened) = 1..(L - 1)
      /\ \A k \in 1..(L - 1) :
           /\ Front(Opened)[k] = files_after_checkpoint_[P[k].files + 1]
           /\ k \in DOMAIN P /\ k < L
  <2>1. Leaves(n, W, r, P, L)
    BY <1>1, <1>3, <1>4, LeaveFacts
  <2> QED
    BY <2>1 DEF Leaves
<1>7. /\ builders' = r /\ UNCHANGED <<call, given>> /\ checkpoints_' = Front(P)
      /\ L = 1 => CommitAll
      /\ L # 1 => UNCHANGED after
  BY <1>1, <1>3 DEF Return, ClearLastCheckpoint
<1>8. UNCHANGED bad
  <2>1. f # NULL
    BY <1>1, <1>2, TopFacts, DatabaseFacts DEF IInv
  <2> QED
    BY <2>1, <1>1, <1>2 DEF Return
<1>9. UNCHANGED <<files_by_name_, symbols_by_name_, extensions_>>
  BY <1>1 DEF entries
<1>10. L # 1 => /\ files_after_checkpoint_' = files_after_checkpoint_
                /\ symbols_after_checkpoint_' = symbols_after_checkpoint_
                /\ extensions_after_checkpoint_' = extensions_after_checkpoint_
  BY <1>7 DEF after
<1>11. L = 1 => /\ files_after_checkpoint_' = << >> /\ symbols_after_checkpoint_' = << >>
                /\ extensions_after_checkpoint_' = << >>
  BY <1>7 DEF CommitAll
<1>12. Typed'
  <2>1. /\ files_after_checkpoint_' \in Seq(File) /\ symbols_after_checkpoint_' \in Seq(Symbol)
        /\ extensions_after_checkpoint_' \in Seq(File \X File)
    <3>1. << >> \in Seq(File) /\ << >> \in Seq(Symbol) /\ << >> \in Seq(File \X File)
      BY EmptySeq
    <3> QED
      BY <3>1, <1>10, <1>11 DEF IInv, Typed, TablesTyped
  <2> QED
    BY <2>1, <1>1, <1>5, <1>6, <1>7, <1>9 DEF IInv, Typed, TablesTyped
<1>13. StackOK' /\ CallOK'
  <2>1. builders \in Seq(BuilderRecord) /\ Top = Last(builders)
    BY <1>1, TopFacts DEF IInv, Top
  <2>2. StackFine(r, pending_files_, db.mode)
    BY <2>1, <1>1, <1>3, <1>4, PopFine DEF IInv, StackOK
  <2>3. CallOK'
    BY <1>1, <1>7, CallStays DEF IInv
  <2> QED
    BY <2>2, <2>3, <1>1, <1>7 DEF StackOK
<1>14. \A k \in DOMAIN checkpoints_' :
         L # 1 /\ k \in 1..(L - 1) /\ checkpoints_'[k] = P[k] /\ k \in DOMAIN P
  BY <1>6, <1>7
<1>15. LevelsOK'
  <2>1. IsInjective(<< >>)
    BY DEF IsInjective
  <2>2. CASE L = 1
    <3>1. DOMAIN checkpoints_' = {} /\ checkpoints_' = << >>
      <4>1. checkpoints_' \in Seq(CheckpointRecord) /\ DOMAIN checkpoints_' = 1..(L - 1)
        BY <1>6, <1>7
      <4>2. 1..(1 - 1) = {}
        OBVIOUS
      <4> QED
        BY <2>2, <4>1, <4>2, EmptySeq
    <3> QED
      BY <2>1, <2>2, <3>1, <1>11 DEF LevelsOK
  <2>3. CASE L # 1
    <3>1. checkpoints_' # << >> /\ checkpoints_'[1] = P[1] /\ P # << >>
      <4>1. 1 \in 1..(L - 1) /\ 1 \in DOMAIN checkpoints_' /\ 1 \in DOMAIN P
        BY <2>3, <1>6, <1>7
      <4> QED
        BY <4>1, <1>6, <1>7
    <3>2. \A k \in DOMAIN checkpoints_' : k \in DOMAIN P /\ checkpoints_'[k] = P[k]
      BY <1>14
    <3> QED
      BY <2>3, <3>1, <3>2, <1>3, <1>10 DEF IInv, TablesOK, LevelsOK
  <2> QED
    BY <2>2, <2>3
<1>16. ASSUME NEW k \in DOMAIN checkpoints_'
       PROVE  /\ k \in DOMAIN P /\ FilesSince(k)' = FilesSince(k)
              /\ SymbolsSince(k)' = SymbolsSince(k) /\ ExtensionsSince(k)' = ExtensionsSince(k)
  BY <1>3, <1>10, <1>14 DEF FilesSince, SymbolsSince, ExtensionsSince
<1>17. RecordsOK'
  BY <1>3, <1>9, <1>16 DEF IInv, TablesOK, RecordsOK
<1>18. f \in files_by_name_ /\ f \in File
  <2>1. f \in files_by_name_
    BY <1>1, <1>2, <1>4, TopOpened
  <2> QED
    BY <2>1 DEF IInv, Typed, TablesTyped
<1>19. FilesOK'
  <2>1. InOrder(Opened', AtWork(builders', Recorded), builders')
    <3>1. PICK u, v : u = Front(Opened) /\ v = Opened'
      OBVIOUS
    <3>2. DOMAIN v = DOMAIN checkpoints_' /\ \A k \in DOMAIN checkpoints_' :
            v[k] = files_after_checkpoint_'[checkpoints_'[k].files + 1]
      BY <3>1 DEF Opened
    <3>3. DOMAIN v = 1..(L - 1) /\ DOMAIN u = 1..(L - 1) /\ DOMAIN v = DOMAIN u
      BY <3>1, <3>2, <1>6, <1>7
    <3>4. ASSUME NEW k \in DOMAIN u PROVE v[k] = u[k]
      <4>1. k \in DOMAIN checkpoints_' /\ k \in 1..(L - 1)
        BY <3>2, <3>3
      <4>2. u[k] = files_after_checkpoint_[P[k].files + 1]
        BY <4>1, <3>1, <1>6
      <4>3. v[k] = files_after_checkpoint_'[P[k].files + 1]
        BY <4>1, <3>2, <1>14
      <4> QED
        BY <4>1, <4>2, <4>3, <1>10, <1>14
    <3>5. InOrder(v, W \ {n}, r)
      BY <3>1, <3>3, <3>4, <1>5, OrderSame
    <3> QED
      BY <3>1, <3>5, <1>5, <1>7
  <2>2. files_by_name_' \ finished_building_'
          = {builders'[i].file : i \in AtWork(builders', Recorded)}
    <3>1. files_by_name_ \ finished_building_ = {builders[i].file : i \in W}
      BY <1>3 DEF IInv, TablesOK, FilesOK
    <3>2. {builders[i].file : i \in W} \ {f} = {builders[i].file : i \in W \ {n}}
      BY <1>2, <1>5
    <3>3. {builders[i].file : i \in W \ {n}} = {r[i].file : i \in W \ {n}}
      BY <1>5
    <3> QED
      BY <3>1, <3>2, <3>3, <1>1, <1>2, <1>5, <1>7, <1>9
  <2>3. finished_building_' \subseteq files_by_name_' /\ given' \subseteq finished_building_'
    BY <1>1, <1>2, <1>7, <1>9, <1>18 DEF IInv, TablesOK, FilesOK
  <2>4. given' \cap ToSet(files_after_checkpoint_') = {}
    <3>1. ToSet(<< >>) = {}
      BY DEF ToSet
    <3> QED
      BY <3>1, <1>7, <1>10, <1>11 DEF IInv, TablesOK, FilesOK
  <2> QED
    BY <2>1, <2>2, <2>3, <2>4, <1>1, <1>9 DEF IInv, TablesOK, FilesOK
<1>20. ASSUME NEW g
       PROVE  /\ Named(g)' <=> Named(g)
              /\ Linked(g)' <=> Linked(g)
              /\ Extended(g)' <=> Extended(g)
  BY <1>1, <1>9 DEF Named, Defines, Linked, Extended
<1>21. Named(f) /\ Linked(f) /\ Extended(f)
  <2>1. BuilderOK(Top)
    BY <1>1, TopFacts DEF IInv, TablesOK, BuildersOK, BuildersFine
  <2> QED
    BY <2>1, <1>1, <1>2, <1>4 DEF BuilderOK
<1>22. EntriesOK'
  <2>1. \A g \in finished_building_' : Named(g)' /\ Linked(g)' /\ Extended(g)'
    BY <1>1, <1>2, <1>20, <1>21 DEF IInv, TablesOK, EntriesOK
  <2>2. \A s \in Symbol : symbols_by_name_'[s] # NULL =>
          symbols_by_name_'[s] \in files_by_name_' /\ s \in Defines(symbols_by_name_[s])'
    BY <1>1, <1>9 DEF IInv, TablesOK, EntriesOK, Defines
  <2>3. \A key \in extensions_' : key[2] \in files_by_name_'
    BY <1>9 DEF IInv, TablesOK, EntriesOK
  <2> QED
    BY <2>1, <2>2, <2>3 DEF EntriesOK
<1>23. BuildersOK'
  <2>1. ASSUME NEW i \in DOMAIN r PROVE BuilderOK(r[i])'
    <3>1. PICK c : c = r[i]
      OBVIOUS
    <3>2. BuilderOK(c)
      BY <3>1, <1>5 DEF IInv, TablesOK, BuildersOK, BuildersFine
    <3>3. BuilderOK(c)'
      BY <3>2, <1>1, <1>9, <1>20 DEF BuilderOK
    <3> QED
      BY <3>1, <3>3
  <2> QED
    BY <2>1, <1>7 DEF BuildersOK, BuildersFine
<1>24. ClosedOK'
  <2>1. ASSUME NEW S \in KeptTables' PROVE S \in KeptTables
    BY <1>3, <1>9, <1>16 DEF KeptTables
  <2>2. ASSUME NEW g, Clean(g)' PROVE Clean(g)
    <3>1. \/ g \in finished_building_ \/ g = f
          \/ \E i \in W \ {n} : r[i].file = g /\ ~ r[i].errors
      BY <2>2, <1>1, <1>2, <1>5, <1>7 DEF Clean
    <3>2. CASE g = f
      BY <3>2, <1>2, <1>3, <1>5 DEF Clean
    <3>3. ASSUME NEW i \in W \ {n}, r[i].file = g, ~ r[i].errors PROVE Clean(g)
      BY <3>3, <1>3, <1>5 DEF Clean
    <3> QED
      BY <3>1, <3>2, <3>3 DEF Clean
  <2>3. ASSUME NEW S \in KeptTables PROVE Closed(S)'
    <3>1. Closed(S)
      BY DEF IInv, TablesOK, ClosedOK
    <3> QED
      BY <2>2, <3>1, <1>1 DEF Closed
  <2> QED
    BY <2>1, <2>3 DEF ClosedOK
<1>25. LazyOK'
  <2>1. builders \in Seq(BuilderRecord) /\ Top = Last(builders) /\ f \in Symbol
    BY <1>1, <1>18, TopFacts, DatabaseFacts DEF IInv, Top
  <2>2. symbols_by_name_[f] # NULL
    <3>1. symbols_by_name_[f] = f
      BY <1>21 DEF Named, Defines
    <3> QED
      BY <3>1, <1>18, DatabaseFacts DEF IInv
  <2>3. ASSUME db.mode = LAZY PROVE LazyStack(builders')
    BY <2>1, <2>2, <2>3, <1>1, <1>2, <1>3, <1>7, LazyPop DEF IInv, LazyOK
  <2>4. \/ builders' # << >> /\ builders'[1].file = builders[1].file
        \/ symbols_by_name_[builders[1].file] # NULL
    <3>1. CASE n = 1
      BY <3>1, <2>2, <1>2, <1>5
    <3>2. CASE n # 1
      <4>1. 1 \in DOMAIN r
        BY <2>1, <3>2, <1>1, <1>3, FrontFacts
      <4> QED
        BY <4>1, <1>5, <1>7
    <3> QED
      BY <3>1, <3>2
  <2> QED
    BY <2>3, <2>4, <1>1, <1>7, <1>8, <1>9, LazyStays DEF IInv
<1> QED
  BY <1>12, <1>13, <1>15, <1>17, <1>19, <1>22, <1>23, <1>24, <1>25 DEF IInv, TablesOK

(* The build failed: what came after its checkpoint is taken back, and all    *)
(* of that belongs to files that came after it.                              *)
LEMMA RollbackKeeps ==
  ASSUME IInv, Finish, Top.errors
  PROVE  IInv'
<1>1. /\ builders # << >> /\ Top.at = "finish" /\ RollbackToLastCheckpoint /\ Return(NULL)
      /\ UNCHANGED <<db, pending_files_>>
  BY DEF Finish, At
<1>2. PICK n, W, r, P, L :
        /\ n = Len(builders) /\ W = AtWork(builders, Recorded) /\ r = Front(builders)
        /\ P = checkpoints_ /\ L = Len(checkpoints_)
  OBVIOUS
<1>3. Top.at \in Recorded /\ Top.at # "imports"
  BY <1>1 DEF Recorded
<1>4. Leaves(n, W, r, P, L)
  BY <1>1, <1>2, <1>3, LeaveFacts
<1>5. /\ r \in Seq(BuilderRecord) /\ DOMAIN r \subseteq DOMAIN builders
      /\ \A i \in DOMAIN r : r[i] = builders[i] /\ i < n
      /\ AtWork(r, Recorded) = W \ {n} /\ n \in W /\ builders[n] = Top
      /\ \A i \in W \ {n} : r[i] = builders[i]
      /\ InOrder(Front(Opened), W \ {n}, r)
      /\ \A i \in W \ {n} : builders[i].file \notin FilesSince(L)
  BY <1>4 DEF Leaves
<1>6. /\ L \in Nat \ {0} /\ DOMAIN P = 1..L /\ Front(P) \in Seq(CheckpointRecord)
      /\ DOMAIN Front(P) = 1..(L - 1) /\ \A k \in 1..(L - 1) : Front(P)[k] = P[k]
      /\ DOMAIN Front(Opened) = 1..(L - 1) /\ L \in DOMAIN P
      /\ \A k \in 1..(L - 1) :
           /\ Front(Opened)[k] = files_after_checkpoint_[P[k].files + 1]
           /\ k \in DOMAIN P
           /\ P[k].files < P[L].files /\ P[k].symbols <= P[L].symbols
           /\ P[k].extensions <= P[L].extensions
           /\ FilesSince(L) \subseteq FilesSince(k)
  <2>1. L \in Nat \ {0} /\ DOMAIN P = 1..L
    BY <1>4 DEF Leaves
  <2>2. L \in DOMAIN P
    BY <2>1
  <2> QED
    BY <2>1, <2>2, <1>4 DEF Leaves
<1>7. PICK F, S, E : /\ F = files_after_checkpoint_ /\ S = symbols_after_checkpoint_
                     /\ E = extensions_after_checkpoint_
  OBVIOUS
<1>8. /\ F \in Seq(File) /\ S \in Seq(Symbol) /\ E \in Seq(File \X File)
      /\ IsInjective(F) /\ IsInjective(S) /\ IsInjective(E)
      /\ files_by_name_ \subseteq File /\ NULL \notin File
      /\ message_type_ \in [File -> File \cup {NULL}]
      /\ symbols_by_name_ \in [Symbol -> File \cup {NULL}]
  BY <1>7, DatabaseFacts DEF IInv, Typed, TablesTyped, TablesOK, LevelsOK
<1>9. PICK c : c = P[L]
  OBVIOUS
<1>10. /\ c.files \in 0..Len(F) /\ c.symbols \in 0..Len(S) /\ c.extensions \in 0..Len(E)
       /\ \A k \in DOMAIN P : P[k].files \in Nat /\ P[k].symbols \in Nat /\ P[k].extensions \in Nat
       /\ Last(checkpoints_) = c
  <2>1. /\ P[L].files \in 0..Len(F) /\ P[L].symbols \in 0..Len(S) /\ P[L].extensions \in 0..Len(E)
    BY <1>2, <1>6, <1>7, LevelFacts DEF IInv
  <2>2. \A k \in DOMAIN P : P[k] \in CheckpointRecord
    BY <1>2, LevelFacts DEF IInv
  <2>3. \A k \in DOMAIN P : P[k].files \in Nat /\ P[k].symbols \in Nat /\ P[k].extensions \in Nat
    BY <2>2 DEF CheckpointRecord
  <2>4. Last(checkpoints_) = c
    BY <1>2, <1>9 DEF Last
  <2> QED
    BY <2>1, <2>3, <2>4, <1>9
<1>11. PICK D, Y, X : D = FilesSince(L) /\ Y = SymbolsSince(L) /\ X = ExtensionsSince(L)
  OBVIOUS
<1>12. /\ D = Since(F, c.files) /\ Y = Since(S, c.symbols) /\ X = Since(E, c.extensions)
       /\ D \subseteq files_by_name_
       /\ Y = {s \in Symbol : symbols_by_name_[s] \in D}
       /\ X = {key \in extensions_ : key[2] \in D}
  <2>1. D = Since(F, c.files) /\ Y = Since(S, c.symbols) /\ X = Since(E, c.extensions)
    BY <1>2, <1>7, <1>9, <1>11 DEF FilesSince, SymbolsSince, ExtensionsSince
  <2>2. /\ D \subseteq files_by_name_ /\ Y = {s \in Symbol : symbols_by_name_[s] \in D}
        /\ X = {key \in extensions_ : key[2] \in D}
    BY <1>2, <1>6, <1>11 DEF IInv, TablesOK, RecordsOK
  <2> QED
    BY <2>1, <2>2
<1>13. /\ files_by_name_' = files_by_name_ \ D
       /\ symbols_by_name_' = [s \in Symbol |-> IF s \in Y THEN NULL ELSE symbols_by_name_[s]]
       /\ extensions_' = extensions_ \ X
       /\ finished_building_' = finished_building_ \ D
       /\ type_once_' = type_once_ \ D
       /\ message_type_' = [f \in File |-> IF f \in D THEN NULL ELSE message_type_[f]]
       /\ checkpoints_' = Front(P)
  BY <1>1, <1>2, <1>7, <1>10, <1>12 DEF RollbackToLastCheckpoint, RemovedExtensions
<1>14. PICK G, T, U : /\ G = Before(F, c.files) /\ T = Before(S, c.symbols)
                      /\ U = Before(E, c.extensions)
  OBVIOUS
<1>15. /\ files_after_checkpoint_' = G /\ symbols_after_checkpoint_' = T
       /\ extensions_after_checkpoint_' = U
  BY <1>1, <1>7, <1>10, <1>14 DEF RollbackToLastCheckpoint
<1>16. /\ G \in Seq(File) /\ Len(G) = c.files /\ IsInjective(G) /\ ToSet(G) \subseteq ToSet(F)
       /\ \A i \in 1..c.files : G[i] = F[i]
       /\ \A m \in 0..c.files : Since(G, m) = Since(F, m) \ D
  BY <1>8, <1>10, <1>12, <1>14, BeforeFacts, SinceBefore
<1>17. /\ T \in Seq(Symbol) /\ Len(T) = c.symbols /\ IsInjective(T)
       /\ \A m \in 0..c.symbols : Since(T, m) = Since(S, m) \ Y
  <2>1. PICK m : m = c.symbols
    OBVIOUS
  <2>2. T = Before(S, m) /\ Y = Since(S, m) /\ m \in 0..Len(S)
    BY <2>1, <1>10, <1>12, <1>14
  <2>3. T \in Seq(Symbol) /\ Len(T) = m
    BY <2>2, <1>8, BeforeFacts
  <2>4. IsInjective(T) /\ \A l \in 0..m : Since(T, l) = Since(S, l) \ Y
    BY <2>2, <1>8, SinceBefore
  <2> QED
    BY <2>1, <2>3, <2>4
<1>18. /\ U \in Seq(File \X File) /\ Len(U) = c.extensions /\ IsInjective(U)
       /\ \A m \in 0..c.extensions : Since(U, m) = Since(E, m) \ X
  <2>1. PICK m : m = c.extensions
    OBVIOUS
  <2>2. U = Before(E, m) /\ X = Since(E, m) /\ m \in 0..Len(E)
    BY <2>1, <1>10, <1>12, <1>14
  <2>3. U \in Seq(File \X File) /\ Len(U) = m
    BY <2>2, <1>8, BeforeFacts
  <2>4. IsInjective(U) /\ \A l \in 0..m : Since(U, l) = Since(E, l) \ X
    BY <2>2, <1>8, SinceBefore
  <2> QED
    BY <2>1, <2>3, <2>4
<1>19. /\ builders' = r /\ UNCHANGED <<call, given>>
  BY <1>1, <1>2 DEF Return
<1>20. db.mode # LAZY
  <2>1. ASSUME db.mode = LAZY PROVE ~ Top.errors
    BY <2>1, <1>1, TopFacts DEF IInv, LazyOK, LazyStack, LazyAt
  <2> QED
    BY <2>1
<1>21. /\ symbols_by_name_' \in [Symbol -> File \cup {NULL}]
       /\ \A s \in Symbol : symbols_by_name_'[s] # NULL =>
            symbols_by_name_'[s] = symbols_by_name_[s] /\ symbols_by_name_[s] \notin D
       /\ \A s \in Symbol : symbols_by_name_[s] \notin D => symbols_by_name_'[s] = symbols_by_name_[s]
       /\ \A s \in Symbol : symbols_by_name_[s] \in D => symbols_by_name_'[s] = NULL
       /\ NULL \notin D
  <2>1. NULL \notin D
    BY <1>8, <1>12
  <2> QED
    BY <2>1, <1>8, <1>12, <1>13
<1>22. /\ message_type_' \in [File -> File \cup {NULL}]
       /\ \A f \in File : f \notin D => message_type_'[f] = message_type_[f]
       /\ \A f \in File : f \in D => message_type_'[f] = NULL
  BY <1>8, <1>13
<1>23. Typed'
  <2>1. files_by_name_' \subseteq File /\ extensions_' \subseteq File \X File
    BY <1>8, <1>13 DEF IInv, Typed, TablesTyped
  <2>2. builders' \in Seq(BuilderRecord) /\ checkpoints_' \in Seq(CheckpointRecord)
    BY <1>5, <1>6, <1>13, <1>19
  <2> QED
    BY <2>1, <2>2, <1>1, <1>15, <1>16, <1>17, <1>18, <1>19, <1>21, <1>22
       DEF IInv, Typed, TablesTyped
<1>24. StackOK' /\ CallOK'
  <2>1. builders \in Seq(BuilderRecord) /\ Top = Last(builders)
    BY <1>1, TopFacts DEF IInv, Top
  <2>2. StackFine(r, pending_files_, db.mode)
    BY <2>1, <1>1, <1>2, <1>3, PopFine DEF IInv, StackOK
  <2>3. CallOK'
    BY <1>1, <1>19, CallStays DEF IInv
  <2> QED
    BY <2>2, <2>3, <1>1, <1>19 DEF StackOK
<1>25. LazyOK'
  BY <1>1, <1>20 DEF LazyOK
<1>26. ASSUME NEW k \in DOMAIN checkpoints_'
       PROVE  /\ k \in DOMAIN P /\ k \in 1..(L - 1) /\ checkpoints_'[k] = P[k]
              /\ P[k].files \in 0..c.files /\ P[k].files < c.files
              /\ P[k].symbols \in 0..c.symbols /\ P[k].extensions \in 0..c.extensions
  <2>1. k \in 1..(L - 1) /\ k \in DOMAIN P /\ checkpoints_'[k] = P[k]
    BY <1>6, <1>13
  <2>2. /\ P[k].files < c.files /\ P[k].symbols <= c.symbols /\ P[k].extensions <= c.extensions
    BY <2>1, <1>6, <1>9
  <2> QED
    BY <2>1, <2>2, <1>10
<1>27. ASSUME NEW k \in DOMAIN checkpoints_'
       PROVE  /\ FilesSince(k)' = FilesSince(k) \ D /\ D \subseteq FilesSince(k)
              /\ SymbolsSince(k)' = SymbolsSince(k) \ Y
              /\ ExtensionsSince(k)' = ExtensionsSince(k) \ X
  <2>1. FilesSince(k)' = FilesSince(k) \ D
    BY <1>2, <1>7, <1>15, <1>16, <1>26 DEF FilesSince
  <2>2. SymbolsSince(k)' = SymbolsSince(k) \ Y
    BY <1>2, <1>7, <1>15, <1>17, <1>26 DEF SymbolsSince
  <2>3. ExtensionsSince(k)' = ExtensionsSince(k) \ X
    BY <1>2, <1>7, <1>15, <1>18, <1>26 DEF ExtensionsSince
  <2>4. D \subseteq FilesSince(k)
    BY <1>6, <1>11, <1>26
  <2> QED
    BY <2>1, <2>2, <2>3, <2>4
<1>28. LevelsOK'
  <2>1. \A k \in DOMAIN checkpoints_' :
          /\ checkpoints_'[k].files < Len(files_after_checkpoint_')
          /\ checkpoints_'[k].symbols <= Len(symbols_after_checkpoint_')
          /\ checkpoints_'[k].extensions <= Len(extensions_after_checkpoint_')
    BY <1>10, <1>15, <1>16, <1>17, <1>18, <1>26
  <2>2. \A k, l \in DOMAIN checkpoints_' : k < l =>
          /\ checkpoints_'[k].files < checkpoints_'[l].files
          /\ checkpoints_'[k].symbols <= checkpoints_'[l].symbols
          /\ checkpoints_'[k].extensions <= checkpoints_'[l].extensions
    BY <1>2, <1>26 DEF IInv, TablesOK, LevelsOK
  <2>3. P[1] = [files |-> 0, symbols |-> 0, extensions |-> 0]
    <3>1. P # << >>
      BY <1>6
    <3> QED
      BY <3>1, <1>2 DEF IInv, TablesOK, LevelsOK
  <2>4. CASE L = 1
    <3>1. c.files = 0 /\ c.symbols = 0 /\ c.extensions = 0
      BY <2>3, <2>4, <1>9
    <3>2. G = << >> /\ T = << >> /\ U = << >>
      BY <3>1, <1>16, <1>17, <1>18, EmptySeq
    <3>3. checkpoints_' = << >>
      <4>1. checkpoints_' \in Seq(CheckpointRecord) /\ DOMAIN checkpoints_' = 1..(L - 1)
        BY <1>6, <1>13
      <4>2. 1..(1 - 1) = {}
        OBVIOUS
      <4> QED
        BY <2>4, <4>1, <4>2, EmptySeq
    <3> QED
      BY <2>1, <2>2, <3>2, <3>3, <1>15, <1>16, <1>17, <1>18 DEF LevelsOK
  <2>5. CASE L # 1
    <3>1. 1 \in DOMAIN checkpoints_'
      BY <2>5, <1>6, <1>13
    <3>2. checkpoints_' # << >> /\ checkpoints_'[1] = P[1]
      BY <3>1, <1>26
    <3> QED
      BY <2>1, <2>2, <2>3, <3>2, <1>15, <1>16, <1>17, <1>18 DEF LevelsOK
  <2> QED
    BY <2>4, <2>5
<1>29. RecordsOK'
  <2>1. SUFFICES ASSUME NEW k \in DOMAIN checkpoints_'
                 PROVE  /\ FilesSince(k)' \subseteq files_by_name_'
                        /\ SymbolsSince(k)' = {s \in Symbol : symbols_by_name_'[s] \in FilesSince(k)'}
                        /\ ExtensionsSince(k)' = {key \in extensions_' : key[2] \in FilesSince(k)'}
    BY DEF RecordsOK
  <2>2. PICK A : A = FilesSince(k)
    OBVIOUS
  <2>3. /\ A \subseteq files_by_name_
        /\ SymbolsSince(k) = {s \in Symbol : symbols_by_name_[s] \in A}
        /\ ExtensionsSince(k) = {key \in extensions_ : key[2] \in A}
    BY <2>2, <1>2, <1>26 DEF IInv, TablesOK, RecordsOK
  <2>4. FilesSince(k)' = A \ D
    BY <2>2, <1>27
  <2>5. NULL \notin A
    BY <2>3, <1>8
  <2>6. {s \in Symbol : symbols_by_name_'[s] \in A \ D}
          = {s \in Symbol : symbols_by_name_[s] \in A} \ {s \in Symbol : symbols_by_name_[s] \in D}
    BY <2>5, <1>21
  <2>7. {key \in extensions_' : key[2] \in A \ D}
          = {key \in extensions_ : key[2] \in A} \ {key \in extensions_ : key[2] \in D}
    BY <1>12, <1>13
  <2> QED
    BY <2>3, <2>4, <2>6, <2>7, <1>12, <1>13, <1>27
<1>30. FilesOK'
  <2>1. InOrder(Opened', AtWork(builders', Recorded), builders')
    <3>1. PICK u, v : u = Front(Opened) /\ v = Opened'
      OBVIOUS
    <3>2. DOMAIN v = DOMAIN checkpoints_' /\ \A k \in DOMAIN checkpoints_' :
            v[k] = G[checkpoints_'[k].files + 1]
      BY <3>1, <1>15 DEF Opened
    <3>3. DOMAIN v = 1..(L - 1) /\ DOMAIN u = 1..(L - 1) /\ DOMAIN v = DOMAIN u
      BY <3>1, <3>2, <1>6, <1>13
    <3>4. ASSUME NEW k \in DOMAIN u PROVE v[k] = u[k]
      <4>1. k \in DOMAIN checkpoints_' /\ k \in 1..(L - 1)
        BY <3>2, <3>3
      <4>2. u[k] = F[P[k].files + 1]
        BY <4>1, <3>1, <1>6, <1>7
      <4>3. v[k] = G[P[k].files + 1]
        BY <4>1, <3>2, <1>26
      <4>4. P[k].files + 1 \in 1..c.files
        BY <4>1, <1>10, <1>26
      <4> QED
        BY <4>2, <4>3, <4>4, <1>16
    <3>5. InOrder(v, W \ {n}, r)
      BY <3>1, <3>3, <3>4, <1>5, OrderSame
    <3> QED
      BY <3>1, <3>5, <1>5, <1>19
  <2>2. files_by_name_' \ finished_building_'
          = {builders'[i].file : i \in AtWork(builders', Recorded)}
    <3>1. files_by_name_ \ finished_building_ = {builders[i].file : i \in W}
      BY <1>2 DEF IInv, TablesOK, FilesOK
    <3>2. Top.file \in D
      BY <1>1, <1>2, <1>3, <1>6, <1>11, TopOpened
    <3>3. {builders[i].file : i \in W} \ D = {builders[i].file : i \in W \ {n}}
      BY <3>2, <1>5, <1>11
    <3>4. {builders[i].file : i \in W \ {n}} = {r[i].file : i \in W \ {n}}
      BY <1>5
    <3>5. files_by_name_' \ finished_building_' = (files_by_name_ \ finished_building_) \ D
      BY <1>13
    <3> QED
      BY <3>1, <3>3, <3>4, <3>5, <1>5, <1>19
  <2>3. given' \subseteq finished_building_' /\ given' \cap ToSet(files_after_checkpoint_') = {}
    <3>1. given \subseteq finished_building_ /\ given \cap ToSet(F) = {}
      BY <1>7 DEF IInv, TablesOK, FilesOK
    <3>2. D \subseteq ToSet(F)
      BY <1>8, <1>10, <1>12, SinceFacts DEF ToSet
    <3> QED
      BY <3>1, <3>2, <1>13, <1>15, <1>16, <1>19
  <2>4. /\ finished_building_' \subseteq files_by_name_' /\ type_once_' \subseteq files_by_name_'
        /\ \A f \in type_once_' : db'.mode = LAZY /\ db'.type[f] # NULL
    BY <1>1, <1>13 DEF IInv, TablesOK, FilesOK
  <2>5. \A f \in File : message_type_'[f] # NULL => f \in files_by_name_'
    BY <1>13, <1>22 DEF IInv, TablesOK, FilesOK
  <2> QED
    BY <2>1, <2>2, <2>3, <2>4, <2>5 DEF FilesOK
<1>31. ASSUME NEW g \in File, g \notin D
       PROVE  /\ Named(g) => Named(g)'
              /\ Linked(g) => Linked(g)'
              /\ Extended(g) => Extended(g)'
  <2>1. ASSUME Named(g) PROVE Named(g)'
    <3>1. SUFFICES ASSUME NEW s \in Defines(g) PROVE symbols_by_name_'[s] = g
      BY <1>1 DEF Named, Defines
    <3>2. symbols_by_name_[s] = g
      BY <2>1 DEF Named
    <3>3. s \in Symbol
      BY <1>31, DatabaseFacts DEF IInv, Defines
    <3> QED
      BY <3>2, <3>3, <1>21, <1>31
  <2>2. Linked(g) => Linked(g)'
    BY <1>1, <1>13, <1>22, <1>31 DEF Linked
  <2>3. Extended(g) => Extended(g)'
    BY <1>1, <1>12, <1>13, <1>31 DEF Extended
  <2> QED
    BY <2>1, <2>2, <2>3
<1>32. EntriesOK'
  <2>1. \A g \in finished_building_' : Named(g)' /\ Linked(g)' /\ Extended(g)'
    <3>1. \A g \in finished_building_' : g \in File /\ g \notin D /\ g \in finished_building_
      BY <1>8, <1>13 DEF IInv, TablesOK, FilesOK
    <3> QED
      BY <3>1, <1>31 DEF IInv, TablesOK, EntriesOK
  <2>2. ASSUME NEW s \in Symbol, symbols_by_name_'[s] # NULL
        PROVE  symbols_by_name_'[s] \in files_by_name_' /\ s \in Defines(symbols_by_name_[s])'
    <3>1. PICK g : g = symbols_by_name_[s]
      OBVIOUS
    <3>2. symbols_by_name_'[s] = g /\ g \notin D /\ g # NULL
      BY <2>2, <3>1, <1>21
    <3>3. g \in files_by_name_ /\ s \in Defines(g)
      BY <3>1, <3>2 DEF IInv, TablesOK, EntriesOK
    <3>4. Defines(g)' = Defines(g)
      BY <1>1 DEF Defines
    <3> QED
      BY <3>2, <3>3, <3>4, <1>13
  <2>3. \A key \in extensions_' : key[2] \in files_by_name_'
    BY <1>12, <1>13 DEF IInv, TablesOK, EntriesOK
  <2> QED
    BY <2>1, <2>2, <2>3 DEF EntriesOK
<1>33. BuildersOK'
  <2>1. ASSUME NEW i \in DOMAIN r PROVE BuilderOK(r[i])'
    <3>1. PICK b : b = r[i]
      OBVIOUS
    <3>2. BuilderOK(b)
      BY <3>1, <1>5 DEF IInv, TablesOK, BuildersOK, BuildersFine
    <3>3. ASSUME b.at \in Recorded PROVE b.file \notin D /\ b.file \in File
      <4>1. i \in W \ {n}
        BY <3>1, <3>3, <1>5 DEF AtWork
      <4>2. b \in BuilderRecord
        BY <3>1, <1>5
      <4> QED
        BY <3>1, <4>1, <4>2, <1>5, <1>11 DEF BuilderRecord
    <3>4. b.at \in Recorded \ {"finish"} => \A key \in extensions_' : key[2] # b.file
      BY <3>2, <1>13 DEF BuilderOK
    <3>5. BuilderOK(b)'
      BY <3>2, <3>3, <3>4, <1>1, <1>31 DEF BuilderOK
    <3> QED
      BY <3>1, <3>5
  <2> QED
    BY <2>1, <1>19 DEF BuildersOK, BuildersFine
<1>34. ClosedOK'
  <2>1. ASSUME NEW Z \in KeptTables' PROVE Z \in KeptTables /\ Z \cap D = {}
    <3>1. CASE Z = files_by_name_'
      BY <3>1, <1>2, <1>6, <1>11, <1>13 DEF KeptTables
    <3>2. ASSUME NEW k \in DOMAIN checkpoints_', Z = files_by_name_' \ FilesSince(k)'
          PROVE  Z \in KeptTables /\ Z \cap D = {}
      <4>1. Z = files_by_name_ \ FilesSince(k)
        BY <3>2, <1>13, <1>27
      <4>2. k \in DOMAIN checkpoints_ /\ Z \cap D = {}
        BY <3>2, <1>2, <1>13, <1>26
      <4> QED
        BY <4>1, <4>2 DEF KeptTables
    <3> QED
      BY <3>1, <3>2 DEF KeptTables
  <2>2. ASSUME NEW g, Clean(g)' PROVE Clean(g)
    <3>1. \/ g \in finished_building_
          \/ \E i \in W \ {n} : r[i].file = g /\ ~ r[i].errors
      BY <2>2, <1>5, <1>13, <1>19 DEF Clean
    <3>2. ASSUME NEW i \in W \ {n}, r[i].file = g, ~ r[i].errors PROVE Clean(g)
      BY <3>2, <1>2, <1>5 DEF Clean
    <3> QED
      BY <3>1, <3>2 DEF Clean
  <2>3. ASSUME NEW Z \in KeptTables, Z \cap D = {} PROVE Closed(Z)'
    <3>1. Closed(Z)
      BY DEF IInv, TablesOK, ClosedOK
    <3>2. Z \subseteq File
      BY <1>8 DEF KeptTables
    <3>3. \A f \in Z : message_type_'[f] = message_type_[f]
      BY <2>3, <3>2, <1>22
    <3> QED
      BY <2>2, <3>1, <3>3, <1>1 DEF Closed
  <2> QED
    BY <2>1, <2>3 DEF ClosedOK
<1> QED
  BY <1>23, <1>24, <1>25, <1>28, <1>29, <1>30, <1>32, <1>33, <1>34 DEF IInv, TablesOK

-----------------------------------------------------------------------------
(* The steps of the calls. *)

(* While no builder is at work the tables are as the last call left them.    *)
LEMMA IdleFacts ==
  ASSUME IInv, builders = << >>
  PROVE  /\ checkpoints_ = << >> /\ pending_files_ = << >>
         /\ files_after_checkpoint_ = << >> /\ symbols_after_checkpoint_ = << >>
         /\ extensions_after_checkpoint_ = << >>
         /\ files_by_name_ = finished_building_
<1>1. DOMAIN builders = {}
  <2>1. builders \in Seq(BuilderRecord) /\ Len(builders) = 0
    BY EmptySeq DEF IInv, Typed
  <2> QED
    BY <2>1
<1>2. AtWork(builders, Recorded) = {} /\ AtWork(builders, {"imports"}) = {}
  BY <1>1 DEF AtWork
<1>3. pending_files_ = << >>
  <2>1. pending_files_ \in Seq(File) /\ \A k \in DOMAIN pending_files_ : FALSE
    BY <1>2 DEF IInv, Typed, StackOK, StackFine, InOrder
  <2>2. Len(pending_files_) \in Nat /\ DOMAIN pending_files_ = 1..Len(pending_files_)
    BY <2>1
  <2>3. Len(pending_files_) # 0 => 1 \in DOMAIN pending_files_
    BY <2>2
  <2>4. Len(pending_files_) = 0
    BY <2>1, <2>3
  <2> QED
    BY <2>1, <2>4, EmptySeq
<1>4. checkpoints_ = << >>
  <2>1. \A k \in DOMAIN Opened : FALSE
    BY <1>2 DEF IInv, TablesOK, FilesOK, InOrder
  <2>2. DOMAIN checkpoints_ = {} /\ Len(checkpoints_) \in Nat /\ DOMAIN checkpoints_ = 1..Len(checkpoints_)
    BY <2>1, LevelFacts DEF IInv
  <2>3. Len(checkpoints_) = 0
    BY <2>2
  <2>4. checkpoints_ \in Seq(CheckpointRecord)
    BY DEF IInv, Typed, TablesTyped
  <2> QED
    BY <2>3, <2>4, EmptySeq
<1>5. files_by_name_ = finished_building_
  BY <1>2 DEF IInv, TablesOK, FilesOK
<1> QED
  BY <1>3, <1>4, <1>5 DEF IInv, TablesOK, LevelsOK

(* A call goes on, and starts a build or none.                               *)
LEMMA StartKeeps ==
  ASSUME IInv, call # NULL, call.at \in {"look", "numbers"}, builders = << >>,
         UNCHANGED <<db, tables, pending_files_, given>>,
         NEW label \in {"numbers", "answer"}, NEW left \in SUBSET db.protos, CallGoes(label, left),
         label = "numbers" => call.op = "FindAllExtensions" /\ UNCHANGED bad,
         \/ builders' = << >>
         \/ \E f \in File :
              /\ builders' = Append(<< >>, Builder(f)) /\ (db.mode = LAZY => f \in db.protos)
              /\ UNCHANGED bad,
         db.mode = LAZY /\ call.op = "message_type" =>
           \/ symbols_by_name_[call.name] # NULL
           \/ builders' = Append(<< >>, Builder(call.name))
  PROVE  IInv'
<1>1. PICK none : none = << >>
  OBVIOUS
<1>2. none \in Seq(BuilderRecord) /\ Len(none) = 0 /\ none = builders /\ DOMAIN none = {}
  <2>1. none \in Seq(BuilderRecord) /\ Len(none) = 0 /\ none = builders
    BY <1>1, EmptySeq
  <2> QED
    BY <2>1
<1>3. StackFine(none, pending_files_, db.mode) /\ BuildersFine(none)
  BY <1>2 DEF IInv, StackOK, TablesOK, BuildersOK
<1>4. \/ builders' = none
      \/ \E f \in File :
           /\ builders' = Append(none, Builder(f)) /\ (db.mode = LAZY => f \in db.protos)
           /\ UNCHANGED bad
  BY <1>1
<1>5. /\ builders' \in Seq(BuilderRecord) /\ StackFine(builders', pending_files_, db.mode)
      /\ BuildersFine(builders') /\ SameWork(none, builders')
      /\ db.mode = LAZY => LazyStack(builders')
  <2>1. CASE builders' = none
    BY <2>1, <1>2, <1>3 DEF SameWork, LazyStack
  <2>2. ASSUME NEW f \in File, builders' = Append(none, Builder(f)), db.mode = LAZY => f \in db.protos
        PROVE  /\ builders' \in Seq(BuilderRecord) /\ StackFine(builders', pending_files_, db.mode)
               /\ BuildersFine(builders') /\ SameWork(none, builders')
               /\ db.mode = LAZY => LazyStack(builders')
    <3>1. builders' \in Seq(BuilderRecord)
      BY <2>2, <1>2, PushFacts
    <3>2. StackFine(builders', pending_files_, db.mode)
      BY <2>2, <1>1, <1>2, <1>3, PushFine
    <3>3. BuildersFine(builders')
      BY <2>2, <1>2, <1>3, BuildersPush
    <3>4. SameWork(none, builders')
      BY <2>2, <1>2, WorkPush
    <3>5. db.mode = LAZY => LazyStack(builders')
      BY <2>2, <1>1, LazyStart
    <3> QED
      BY <3>1, <3>2, <3>3, <3>4, <3>5
  <2> QED
    BY <2>1, <2>2, <1>4
<1>6. PICK c : c = call
  OBVIOUS
<1>7. c \in Calls /\ left \in SUBSET File
  <2>1. call \in Calls
    BY DEF IInv, Typed
  <2> QED
    BY <2>1, <1>6, DatabaseFacts DEF IInv
<1>8. PICK d : d = [c EXCEPT !.at = label, !.left = left]
  OBVIOUS
<1>9. d \in Calls /\ d.op = c.op /\ d.name = c.name /\ d.at = label /\ d.left = left
  BY <1>7, <1>8 DEF Calls
<1>10. call' = d /\ d # NULL
  <2>1. call' = d
    BY <1>6, <1>8 DEF CallGoes
  <2>2. d # NULL
    BY <1>9, DatabasesAssumption
  <2> QED
    BY <2>1, <2>2
<1>11. Typed'
  BY <1>5, <1>9, <1>10, TypesStay DEF IInv, Typed
<1>12. StackOK'
  BY <1>5 DEF StackOK
<1>13. CallOK'
  <2>1. d.at # "look" /\ (d.at = "numbers" => d.op = "FindAllExtensions") /\ d.left \subseteq db.protos
    BY <1>6, <1>9
  <2> QED
    BY <2>1, <1>6, <1>9, <1>10 DEF IInv, CallOK
<1>14. TablesOK'
  BY <1>2, <1>5, TablesStay DEF IInv
<1>15. LazyOK'
  <2>1. SUFFICES ASSUME db.mode = LAZY PROVE LazyOK'
    BY DEF LazyOK
  <2>2. UNCHANGED <<db, files_by_name_, symbols_by_name_>>
    BY DEF tables, entries
  <2>3. LazyStack(builders)'
    BY <2>1, <2>2, <1>5 DEF LazyStack, LazyAt
  <2>4. known_bad_files_ = {} /\ known_bad_symbols_ = {} /\ files_by_name_ \subseteq db.protos
    BY <2>1 DEF IInv, LazyOK
  <2>5. builders' # << >> \/ d.at \in {"look", "numbers"} =>
          known_bad_files_' = {} /\ known_bad_symbols_' = {}
    BY <2>4, <1>9 DEF bad
  <2>6. ASSUME call.op = "message_type"
        PROVE  \/ symbols_by_name_[call.name] # NULL
               \/ (builders' # << >> /\ builders'[1].file = call.name)
    <3>1. CASE builders' = Append(<< >>, Builder(call.name))
      <4>1. call.name \in File
        BY <2>6 DEF IInv, CallOK
      <4>2. builders' = Append(none, Builder(call.name)) /\ 0 + 1 = 1
        BY <3>1, <1>1
      <4>3. /\ Append(none, Builder(call.name)) # << >>
            /\ Append(none, Builder(call.name))[Len(none) + 1] = Builder(call.name)
            /\ Builder(call.name).file = call.name
        BY <4>1, <1>2, PushFacts
      <4> QED
        BY <4>2, <4>3, <1>2
    <3> QED
      BY <2>1, <2>6, <3>1
  <2> QED
    BY <2>2, <2>3, <2>4, <2>5, <2>6, <1>6, <1>9, <1>10 DEF LazyOK
<1> QED
  BY <1>11, <1>12, <1>13, <1>14, <1>15 DEF IInv

(* The stack of one builder.                                                *)
LEMMA OneBuilder ==
  ASSUME NEW b
  PROVE  << b >> = Append(<< >>, b)
OBVIOUS

(* The call looks into the tables, and then starts a build.                  *)
LEMMA LookKeeps ==
  ASSUME IInv, Look
  PROVE  IInv'
<1>1. /\ call # NULL /\ call.at = "look"
      /\ UNCHANGED <<db, tables, pending_files_, given>>
  BY DEF Look
<1>2. builders = << >>
  BY <1>1 DEF IInv, CallOK
<1>3. PICK s : s = call.name
  OBVIOUS
<1>4. {} \in SUBSET db.protos /\ db.protos \subseteq File
  BY DatabaseFacts DEF IInv
<1>5. CASE call.op \in {"BuildFile", "BuildOther"}
  <2>1. builders' = <<Builder(s)>> /\ CallGoes("answer", {}) /\ UNCHANGED bad
    BY <1>3, <1>5 DEF Look
  <2>2. s \in File /\ db.mode # LAZY
    BY <1>1, <1>3, <1>5 DEF IInv, CallOK, LAZY, DIRECT
  <2>3. builders' = Append(<< >>, Builder(s))
    BY <2>1, OneBuilder
  <2> QED
    BY <1>1, <1>2, <1>4, <2>1, <2>2, <2>3, StartKeeps
<1>6. CASE call.op = "FindFileByName"
  <2>1. /\ (builders' = << >> /\ UNCHANGED bad) \/ TryFile(s, << >>)
        /\ CallGoes("answer", {})
    BY <1>3, <1>6 DEF Look
  <2>2. \/ builders' = << >>
        \/ builders' = Append(<< >>, Builder(s)) /\ s \in db.protos /\ UNCHANGED bad
    BY <2>1 DEF TryFile
  <2> QED
    BY <1>1, <1>2, <1>4, <1>6, <2>1, <2>2, StartKeeps
<1>7. CASE call.op \in {"FindSymbol", "message_type"}
  <2>1. /\ IF symbols_by_name_[s] # NULL THEN builders' = << >> /\ UNCHANGED bad ELSE TrySymbol(s, << >>)
        /\ CallGoes("answer", {})
    BY <1>3, <1>7 DEF Look
  <2>2. s \in Symbol
    BY <1>1, <1>3, <1>7, DatabaseFacts DEF IInv, CallOK
  <2>3. TrySymbol(s, << >>) =>
          \/ builders' = << >>
          \/ \E g \in db.protos : builders' = Append(<< >>, Builder(g)) /\ UNCHANGED bad
    BY <2>2, TryCases DEF IInv
  <2>4. \/ builders' = << >>
        \/ \E g \in File : /\ builders' = Append(<< >>, Builder(g)) /\ (db.mode = LAZY => g \in db.protos)
                           /\ UNCHANGED bad
    BY <2>1, <2>3, <1>4
  <2>5. ASSUME db.mode = LAZY, call.op = "message_type", symbols_by_name_[s] = NULL
        PROVE  builders' = Append(<< >>, Builder(s))
    <3>1. s \in db.protos /\ s \in File
      BY <2>5, <1>1, <1>3 DEF IInv, CallOK
    <3>2. db.index[s] = s /\ db.mode # DIRECT
      BY <2>5, <3>1, DatabaseFacts DEF IInv, LAZY, DIRECT
    <3>3. LazyStack(builders) /\ known_bad_files_ = {} /\ known_bad_symbols_ = {}
      BY <2>5, <1>1 DEF IInv, LazyOK
    <3>4. symbols_by_name_[s] = IF s \in files_by_name_ THEN s ELSE NULL
      BY <2>5, <3>1, <3>3, LazyNames DEF IInv
    <3>5. s \notin files_by_name_
      BY <2>5, <3>1, <3>4, DatabaseFacts DEF IInv
    <3>6. TrySymbol(s, << >>)
      BY <2>1, <2>5
    <3> QED
      BY <2>2, <3>1, <3>2, <3>3, <3>5, <3>6, TryCases DEF IInv
  <2> QED
    BY <1>1, <1>2, <1>3, <1>4, <1>7, <2>1, <2>4, <2>5, StartKeeps
<1>8. CASE call.op = "FindExtensionByNumber"
  <2>1. /\ IF s \in extensions_ THEN builders' = << >> ELSE TryExtension(s[1], s[2])
        /\ UNCHANGED bad /\ CallGoes("answer", {})
    BY <1>3, <1>8 DEF Look
  <2>2. \/ builders' = << >>
        \/ builders' = <<Builder(s[2])>> /\ s[2] \in db.protos
    BY <2>1 DEF TryExtension
  <2>3. \/ builders' = << >>
        \/ \E g \in File : /\ builders' = Append(<< >>, Builder(g)) /\ (db.mode = LAZY => g \in db.protos)
                           /\ UNCHANGED bad
    BY <2>1, <2>2, <1>4, OneBuilder
  <2> QED
    BY <1>1, <1>2, <1>4, <1>8, <2>1, <2>3, StartKeeps
<1>9. CASE call.op = "FindAllExtensions"
  <2>1. /\ builders' = << >> /\ UNCHANGED bad
        /\ \/ CallGoes("answer", {})
           \/ CallGoes("numbers", {n \in db.protos : db.extendee[n] = s})
    BY <1>3, <1>9 DEF Look
  <2>2. {n \in db.protos : db.extendee[n] = s} \in SUBSET db.protos
    OBVIOUS
  <2> QED
    BY <1>1, <1>2, <1>4, <1>9, <2>1, <2>2, StartKeeps
<1> QED
  BY <1>5, <1>6, <1>7, <1>8, <1>9 DEF Look

(* FindAllExtensions looks for the next extension.                           *)
LEMMA NextNumberKeeps ==
  ASSUME IInv, NextNumber
  PROVE  IInv'
<1>1. /\ call # NULL /\ call.at = "numbers" /\ builders = << >>
      /\ UNCHANGED <<db, tables, pending_files_, bad, given>>
  BY DEF NextNumber
<1>2. call.op = "FindAllExtensions" /\ call.left \subseteq db.protos /\ db.protos \subseteq File
  BY <1>1, DatabaseFacts DEF IInv, CallOK
<1>3. ASSUME NEW n \in call.left, CallGoes("numbers", call.left \ {n}),
             builders' = << >> \/ TryExtension(call.name, n)
      PROVE  IInv'
  <2>1. call.left \ {n} \in SUBSET db.protos
    BY <1>2
  <2>2. \/ builders' = << >>
        \/ builders' = Append(<< >>, Builder(n)) /\ n \in db.protos
    BY <1>3, OneBuilder DEF TryExtension
  <2> QED
    BY <1>1, <1>2, <1>3, <2>1, <2>2, StartKeeps
<1>4. CASE CallGoes("answer", {}) /\ UNCHANGED builders
  <2>1. {} \in SUBSET db.protos
    OBVIOUS
  <2> QED
    BY <1>1, <1>2, <1>4, <2>1, StartKeeps
<1> QED
  BY <1>3, <1>4 DEF NextNumber

(* The call returns, and message_type() keeps what it found.                 *)
LEMMA AnswerKeeps ==
  ASSUME IInv, Answer
  PROVE  IInv'
<1>1. /\ call # NULL /\ call.at = "answer" /\ builders = << >> /\ builders' = builders
      /\ call' = NULL /\ given' = finished_building_
      /\ UNCHANGED <<db, entries, after, checkpoints_, finished_building_, pending_files_, bad>>
  BY DEF Answer
<1>2. UNCHANGED <<files_by_name_, symbols_by_name_, extensions_>> /\ UNCHANGED after
  BY <1>1 DEF entries
<1>3. DOMAIN builders = {}
  <2>1. builders \in Seq(BuilderRecord) /\ Len(builders) = 0
    BY <1>1, EmptySeq DEF IInv, Typed
  <2> QED
    BY <2>1
<1>4. /\ message_type_ \in [File -> File \cup {NULL}] /\ finished_building_ \subseteq files_by_name_
      /\ type_once_ \subseteq files_by_name_ /\ files_by_name_ \subseteq File
      /\ \A f \in type_once_ : db.mode = LAZY /\ db.type[f] # NULL
      /\ \A f \in File : message_type_[f] # NULL => f \in files_by_name_
      /\ \A f \in finished_building_ : Linked(f)
  BY DEF IInv, Typed, TablesTyped, TablesOK, FilesOK, EntriesOK
<1>5. /\ message_type_' \in [File -> File \cup {NULL}]
      /\ type_once_' \subseteq type_once_
      /\ \A f \in File : \/ message_type_'[f] = message_type_[f] /\ (f \in type_once_ => f \in type_once_')
                         \/ f \in files_by_name_ /\ message_type_'[f] \in files_by_name_
  <2>1. CASE call.op # "message_type"
    BY <2>1, <1>1, <1>4 DEF Answer
  <2>2. CASE call.op = "message_type"
    <3>1. PICK g \in given \cap type_once_ :
            /\ message_type_' = [message_type_ EXCEPT ![g] = symbols_by_name_[call.name]]
            /\ type_once_' = type_once_ \ {g}
      BY <2>2 DEF Answer
    <3>2. PICK h : h = symbols_by_name_[call.name]
      OBVIOUS
    <3>3. h # NULL
      <4>1. db.mode = LAZY
        BY <3>1, <1>4
      <4> QED
        BY <4>1, <2>2, <3>2, <1>1 DEF IInv, LazyOK
    <3>4. call.name \in Symbol
      BY <2>2, <1>1, DatabaseFacts DEF IInv, CallOK
    <3>5. h \in files_by_name_ /\ h \in File
      BY <3>2, <3>3, <3>4, <1>4 DEF IInv, TablesOK, EntriesOK
    <3>6. /\ g \in File /\ g \in files_by_name_ /\ message_type_' = [message_type_ EXCEPT ![g] = h]
          /\ type_once_' = type_once_ \ {g}
      BY <3>1, <3>2, <1>4
    <3> QED
      BY <3>5, <3>6, <1>4
  <2> QED
    BY <2>1, <2>2
<1>6. Typed'
  BY <1>1, <1>2, <1>5 DEF IInv, Typed, TablesTyped, after
<1>7. StackOK' /\ CallOK'
  BY <1>1 DEF IInv, StackOK, CallOK
<1>8. TablesOK'
  <2>1. checkpoints_ = << >> /\ files_after_checkpoint_ = << >>
    BY <1>1, IdleFacts
  <2>2. SameWork(builders, builders') /\ BuildersOK'
    BY <1>1, <1>3 DEF SameWork, BuildersOK, BuildersFine
  <2>3. given' \subseteq finished_building_ /\ given' \cap ToSet(files_after_checkpoint_) = {}
    BY <2>1, <1>1 DEF ToSet
  <2>4. /\ type_once_' \subseteq files_by_name_
        /\ \A f \in type_once_' : db.mode = LAZY /\ db.type[f] # NULL
        /\ \A f \in File : message_type_'[f] # NULL => f \in files_by_name_
    BY <1>4, <1>5
  <2>5. ASSUME NEW f \in finished_building_ PROVE Linked(f)'
    <3>1. f \in File /\ Linked(f) /\ NULL \notin files_by_name_
      BY <1>4, DatabaseFacts DEF IInv
    <3>2. db.type[f] # NULL /\ f \notin type_once_' => message_type_'[f] # NULL
      BY <3>1, <1>5 DEF Linked
    <3> QED
      BY <3>2, <1>1 DEF Linked
  <2>6. ASSUME NEW S \in KeptTables, NEW f \in S, message_type_'[f] # NULL PROVE message_type_'[f] \in S
    <3>1. S = files_by_name_
      <4>1. DOMAIN checkpoints_ = {}
        <5>1. Len(checkpoints_) = 0
          BY <2>1, EmptySeq
        <5> QED
          BY <5>1, LevelFacts DEF IInv
      <4> QED
        BY <4>1 DEF KeptTables
    <3>2. f \in File
      BY <3>1, <1>4
    <3>3. Closed(S)
      BY DEF IInv, TablesOK, ClosedOK
    <3> QED
      BY <2>6, <3>1, <3>2, <3>3, <1>5 DEF Closed
  <2> QED
    BY <2>2, <2>3, <2>4, <2>5, <2>6, <1>1, LinksStay DEF IInv
<1>9. LazyOK'
  <2>1. LazyStack(builders)'
    BY <1>1, <1>3 DEF LazyStack
  <2> QED
    BY <2>1, <1>1, <1>2 DEF IInv, LazyOK
<1> QED
  BY <1>6, <1>7, <1>8, <1>9 DEF IInv

(* The user calls.                                                          *)
LEMMA CallKeeps ==
  ASSUME IInv, NEW op \in Ops, NEW name \in Symbol \cup (File \X File), Call(op, name),
         op \in {"BuildFile", "BuildOther"} => db.mode = DIRECT /\ name \in File,
         op \in {"FindFileByName", "message_type", "FindAllExtensions"} => name \in File,
         op = "message_type" => db.mode = LAZY /\ name \in db.protos,
         op = "FindSymbol" => name \in Symbol,
         op = "FindExtensionByNumber" => name \in File \X File
  PROVE  IInv'
<1>1. /\ call = NULL /\ known_bad_files_' = {} /\ known_bad_symbols_' = {}
      /\ UNCHANGED <<db, tables, pending_files_, builders, given>>
  BY DEF Call
<1>2. builders = << >> /\ builders' = << >> /\ builders' = builders
  BY <1>1 DEF IInv, CallOK
<1>3. PICK d : d = [op |-> op, name |-> name, at |-> "look", left |-> {}]
  OBVIOUS
<1>4. d \in Calls /\ d.op = op /\ d.name = name /\ d.at = "look" /\ d.left = {}
  BY <1>3 DEF Calls
<1>5. call' = d
  BY <1>3 DEF Call
<1>6. Typed'
  BY <1>1, <1>2, <1>4, <1>5, TypesStay DEF IInv, Typed
<1>7. StackOK'
  BY <1>1, <1>2 DEF IInv, StackOK
<1>8. CallOK'
  BY <1>1, <1>2, <1>4, <1>5 DEF CallOK
<1>9. TablesOK'
  <2>1. SameWork(builders, builders') /\ BuildersFine(builders')
    BY <1>2 DEF IInv, TablesOK, BuildersOK, SameWork
  <2> QED
    BY <1>1, <2>1, TablesStay DEF IInv
<1>10. LazyOK'
  <2>1. UNCHANGED <<files_by_name_, symbols_by_name_>>
    BY <1>1 DEF tables, entries
  <2>2. DOMAIN << >> = {}
    OBVIOUS
  <2>3. LazyStack(builders)'
    BY <2>2, <1>2 DEF LazyStack
  <2> QED
    BY <2>1, <2>3, <1>1, <1>2, <1>4, <1>5 DEF IInv, LazyOK
<1> QED
  BY <1>6, <1>7, <1>8, <1>9, <1>10 DEF IInv

(* The calls the user may make.                                              *)
LEMMA UserKeeps ==
  ASSUME IInv,
         \/ \E f \in File :
              \/ CallBuildFile(f) \/ CallBuildOther(f) \/ CallFindFileByName(f)
              \/ CallMessageType(f) \/ CallFindAllExtensions(f)
              \/ \E n \in File : CallFindExtensionByNumber(f, n)
         \/ \E s \in Symbol : CallFindSymbol(s)
  PROVE  IInv'
<1>1. File \subseteq Symbol /\ DIRECT # LAZY
  BY DatabaseFacts DEF IInv, DIRECT, LAZY
<1>2. ASSUME NEW f \in File, CallBuildFile(f) PROVE IInv'
  <2>1. "BuildFile" \in Ops
    BY DEF Ops
  <2> QED
    BY <1>1, <1>2, <2>1, CallKeeps DEF CallBuildFile
<1>3. ASSUME NEW f \in File, CallBuildOther(f) PROVE IInv'
  <2>1. "BuildOther" \in Ops
    BY DEF Ops
  <2> QED
    BY <1>1, <1>3, <2>1, CallKeeps DEF CallBuildOther
<1>4. ASSUME NEW f \in File, CallFindFileByName(f) PROVE IInv'
  <2>1. "FindFileByName" \in Ops
    BY DEF Ops
  <2> QED
    BY <1>1, <1>4, <2>1, CallKeeps DEF CallFindFileByName
<1>5. ASSUME NEW f \in File, CallMessageType(f) PROVE IInv'
  <2>1. "message_type" \in Ops
    BY DEF Ops
  <2>2. f \in type_once_ /\ Call("message_type", db.type[f])
    BY <1>5 DEF CallMessageType
  <2>3. db.mode = LAZY /\ db.type[f] # NULL /\ f \in files_by_name_
    BY <2>2 DEF IInv, TablesOK, FilesOK
  <2>4. f \in db.protos
    BY <2>3 DEF IInv, LazyOK
  <2>5. db.type[f] \in db.protos /\ db.protos \subseteq File
    BY <2>3, <2>4, DatabaseFacts DEF IInv
  <2>6. db.type[f] \in File /\ db.type[f] \in Symbol \cup (File \X File)
    BY <2>5, <1>1
  <2> QED
    BY <2>1, <2>2, <2>3, <2>5, <2>6, CallKeeps
<1>6. ASSUME NEW f \in File, CallFindAllExtensions(f) PROVE IInv'
  <2>1. "FindAllExtensions" \in Ops
    BY DEF Ops
  <2> QED
    BY <1>1, <1>6, <2>1, CallKeeps DEF CallFindAllExtensions
<1>7. ASSUME NEW f \in File, NEW n \in File, CallFindExtensionByNumber(f, n) PROVE IInv'
  <2>1. "FindExtensionByNumber" \in Ops
    BY DEF Ops
  <2>2. <<f, n>> \in File \X File /\ Call("FindExtensionByNumber", <<f, n>>)
    BY <1>7 DEF CallFindExtensionByNumber
  <2> QED
    BY <2>1, <2>2, CallKeeps
<1>8. ASSUME NEW s \in Symbol, CallFindSymbol(s) PROVE IInv'
  <2>1. "FindSymbol" \in Ops
    BY DEF Ops
  <2> QED
    BY <1>8, <2>1, CallKeeps DEF CallFindSymbol
<1> QED
  BY <1>2, <1>3, <1>4, <1>5, <1>6, <1>7, <1>8

(* Nothing happens.                                                         *)
LEMMA StutterKeeps ==
  ASSUME IInv, UNCHANGED vars
  PROVE  IInv'
<1>1. UNCHANGED <<db, tables, pending_files_, bad, builders, call, given>>
  BY DEF vars, user
<1>2. UNCHANGED <<files_by_name_, symbols_by_name_, known_bad_files_, known_bad_symbols_>>
  BY <1>1 DEF tables, entries, bad
<1>3. Typed'
  BY <1>1, TypesStay DEF IInv, Typed
<1>4. StackOK' /\ CallOK'
  BY <1>1 DEF IInv, StackOK, CallOK
<1>5. TablesOK'
  <2>1. SameWork(builders, builders') /\ BuildersFine(builders')
    BY <1>1 DEF IInv, TablesOK, BuildersOK, SameWork
  <2> QED
    BY <1>1, <2>1, TablesStay DEF IInv
<1>6. LazyOK'
  <2>1. LazyStack(builders)' <=> LazyStack(builders)
    BY <1>1, <1>2 DEF LazyStack, LazyAt
  <2> QED
    BY <2>1, <1>1, <1>2 DEF IInv, LazyOK
<1> QED
  BY <1>3, <1>4, <1>5, <1>6 DEF IInv

-----------------------------------------------------------------------------
(* The inductive invariant. *)

(* The empty sequence is one of any set and has no two elements.             *)
LEMMA NoneFacts ==
  ASSUME NEW S
  PROVE  << >> \in Seq(S) /\ Len(<< >>) = 0 /\ DOMAIN << >> = {} /\ IsInjective(<< >>)
BY DEF IsInjective

(* A new pool.                                                              *)
LEMMA InitHolds == Init => IInv
<1> SUFFICES ASSUME Init PROVE IInv
  OBVIOUS
<1>1. /\ db \in Databases /\ files_by_name_ = {} /\ symbols_by_name_ = [s \in Symbol |-> NULL]
      /\ extensions_ = {} /\ files_after_checkpoint_ = << >>
      /\ symbols_after_checkpoint_ = << >> /\ extensions_after_checkpoint_ = << >>
      /\ checkpoints_ = << >> /\ finished_building_ = {} /\ type_once_ = {}
      /\ message_type_ = [f \in File |-> NULL] /\ pending_files_ = << >>
      /\ known_bad_files_ = {} /\ known_bad_symbols_ = {} /\ builders = << >>
      /\ call = NULL /\ given = {}
  BY DEF Init
<1>2. DOMAIN << >> = {} /\ IsInjective(<< >>) /\ Len(<< >>) = 0
  BY NoneFacts
<1>3. Typed
  BY <1>1, NoneFacts DEF Typed, TablesTyped
<1>4. \A labels : AtWork(builders, labels) = {}
  BY <1>1, <1>2 DEF AtWork
<1>5. StackOK
  <2>1. Once(builders)
    BY <1>1, <1>2 DEF Once
  <2>2. InOrder(pending_files_, AtWork(builders, {"imports"}), builders)
    BY <1>1, <1>2, <1>4 DEF InOrder
  <2> QED
    BY <2>1, <2>2, <1>1, <1>2, <1>4 DEF StackOK, StackFine
<1>6. CallOK
  BY <1>1 DEF CallOK
<1>7. LevelsOK
  BY <1>1, <1>2 DEF LevelsOK
<1>8. RecordsOK
  BY <1>1, <1>2 DEF RecordsOK
<1>9. FilesOK
  <2>1. DOMAIN Opened = {}
    BY <1>1, <1>2 DEF Opened
  <2>2. InOrder(Opened, AtWork(builders, Recorded), builders)
    BY <2>1, <1>4 DEF InOrder
  <2> QED
    BY <2>2, <1>1, <1>4 DEF FilesOK
<1>10. EntriesOK
  BY <1>1 DEF EntriesOK
<1>11. BuildersOK
  BY <1>1, <1>2 DEF BuildersOK, BuildersFine
<1>12. ClosedOK
  BY <1>1, <1>2 DEF ClosedOK, KeptTables, Closed
<1>13. LazyOK
  BY <1>1, <1>2 DEF LazyOK, LazyStack
<1> QED
  BY <1>3, <1>5, <1>6, <1>7, <1>8, <1>9, <1>10, <1>11, <1>12, <1>13 DEF IInv, TablesOK

(* Every step keeps it.                                                     *)
LEMMA StepKeeps == IInv /\ [Next]_vars => IInv'
<1> SUFFICES ASSUME IInv, [Next]_vars PROVE IInv'
  OBVIOUS
<1>1. CASE Enter
  BY <1>1, EnterKeeps
<1>2. CASE LoadImport
  BY <1>2, LoadImportKeeps
<1>3. CASE ImportsLoaded
  BY <1>3, ImportsLoadedKeeps
<1>4. CASE Abandon
  BY <1>4, AbandonKeeps
<1>5. CASE Add
  BY <1>5, AddKeeps
<1>6. CASE LinkType
  BY <1>6, LinkTypeKeeps
<1>7. CASE SetType
  BY <1>7, SetTypeKeeps
<1>8. CASE LinkExtendee
  BY <1>8, LinkExtendeeKeeps
<1>9. CASE AddExtension
  BY <1>9, AddExtensionKeeps
<1>10. CASE Finish /\ ~ Top.errors
  BY <1>10, ClearKeeps
<1>11. CASE Finish /\ Top.errors
  BY <1>11, RollbackKeeps
<1>12. CASE Look
  BY <1>12, LookKeeps
<1>13. CASE NextNumber
  BY <1>13, NextNumberKeeps
<1>14. CASE Answer
  BY <1>14, AnswerKeeps
<1>15. CASE \/ \E f \in File :
                 \/ CallBuildFile(f) \/ CallBuildOther(f) \/ CallFindFileByName(f)
                 \/ CallMessageType(f) \/ CallFindAllExtensions(f)
                 \/ \E n \in File : CallFindExtensionByNumber(f, n)
            \/ \E s \in Symbol : CallFindSymbol(s)
  BY <1>15, UserKeeps
<1>16. CASE UNCHANGED vars
  BY <1>16, StutterKeeps
<1> QED
  BY <1>1, <1>2, <1>3, <1>4, <1>5, <1>6, <1>7, <1>8, <1>9, <1>10, <1>11, <1>12, <1>13, <1>14,
     <1>15, <1>16 DEF Next, Step, Build

(* The inductive invariant holds at all times.                               *)
LEMMA Invariance == Spec => []IInv
BY InitHolds, StepKeeps, PTL DEF Spec

-----------------------------------------------------------------------------
(* The theorems. *)

(* Every variable of the pool keeps its type.                               *)
THEOREM TypeCorrect == Spec => []TypeOK
<1>1. IInv => TypeOK
  <2> SUFFICES ASSUME IInv PROVE TypeOK
    OBVIOUS
  <2>1. db \in DatabaseType
    BY DatabasesAssumption DEF IInv, Typed
  <2>2. \A i \in DOMAIN builders :
          builders[i] \in [file : File, left : SUBSET File, errors : BOOLEAN,
            at : {"enter", "imports", "add", "type", "typed", "extendee", "extended", "finish"}]
    <3>1. builders \in Seq(BuilderRecord)
      BY DEF IInv, Typed
    <3>2. \A i \in DOMAIN builders : builders[i] \in BuilderRecord
      BY <3>1
    <3>3. BuilderRecord =
            [file : File, left : SUBSET File, errors : BOOLEAN,
             at : {"enter", "imports", "add", "type", "typed", "extendee", "extended", "finish"}]
      BY DEF BuilderRecord, Labels
    <3> QED
      BY <3>2, <3>3
  <2>3. /\ files_by_name_ \subseteq File /\ symbols_by_name_ \in [Symbol -> File \cup {NULL}]
        /\ extensions_ \subseteq File \X File /\ message_type_ \in [File -> File \cup {NULL}]
        /\ call \in Calls \cup {NULL}
    BY DEF IInv, Typed, TablesTyped
  <2>4. finished_building_ \subseteq files_by_name_ /\ type_once_ \subseteq files_by_name_
    BY DEF IInv, TablesOK, FilesOK
  <2> QED
    BY <2>1, <2>2, <2>3, <2>4 DEF TypeOK
<1> QED
  BY <1>1, Invariance, PTL

(* The entries of the tables belong to files of the tables, and a file that  *)
(* is built has all of its entries and its imports, whatever builds failed    *)
(* and were rolled back around it.                                          *)
THEOREM Consistent == Spec => []TablesConsistent
<1>1. IInv => TablesConsistent
  <2> SUFFICES ASSUME IInv PROVE TablesConsistent
    OBVIOUS
  <2>1. /\ \A s \in Symbol : symbols_by_name_[s] # NULL =>
             symbols_by_name_[s] \in files_by_name_ /\ s \in Defines(symbols_by_name_[s])
        /\ \A key \in extensions_ : key[2] \in files_by_name_
        /\ \A f \in finished_building_ : Named(f) /\ Linked(f) /\ Extended(f)
    BY DEF IInv, TablesOK, EntriesOK
  <2>2. Closed(files_by_name_)
    BY DEF IInv, TablesOK, ClosedOK, KeptTables
  <2>3. finished_building_ \subseteq files_by_name_
    BY DEF IInv, TablesOK, FilesOK
  <2>4. ASSUME NEW f \in finished_building_
        PROVE  /\ db.mode # LAZY => db.imports[f] \subseteq files_by_name_
               /\ db.type[f] # NULL /\ f \notin type_once_ => message_type_[f] \in files_by_name_
    <3>1. f \in files_by_name_ /\ Clean(f) /\ Linked(f)
      BY <2>1, <2>3 DEF Clean
    <3> QED
      BY <2>2, <3>1 DEF Closed, Linked
  <2> QED
    BY <2>1, <2>4 DEF TablesConsistent, Named, Extended
<1> QED
  BY <1>1, Invariance, PTL

(* A call leaves no checkpoint, no half-built and no pending file, and takes  *)
(* back no file that the user may have a pointer to.                         *)
THEOREM NothingLeft == Spec => []NothingLeftBehind
<1>1. IInv => NothingLeftBehind
  <2> SUFFICES ASSUME IInv PROVE NothingLeftBehind
    OBVIOUS
  <2>1. given \subseteq finished_building_
    BY DEF IInv, TablesOK, FilesOK
  <2>2. call = NULL => builders = << >>
    BY DEF IInv, CallOK
  <2> QED
    BY <2>1, <2>2, IdleFacts DEF NothingLeftBehind
<1> QED
  BY <1>1, Invariance, PTL

(* No file is being built twice at a time, whatever leads back to it.         *)
THEOREM OnceAtATime == Spec => []BuiltOnceAtATime
<1>1. IInv => BuiltOnceAtATime
  BY DEF IInv, StackOK, StackFine, Once, BuiltOnceAtATime
<1> QED
  BY <1>1, Invariance, PTL

-----------------------------------------------------------------------------
(* The answers: the inductive invariant.  All of it is for a well-kept        *)
(* database; files that import each other or miss something are most of it.  *)

(* A set with every file that can be built from it.                          *)
ClosedUnder(G) == \A g \in File : CanBuild(g, G) => g \in G

(* What f may use without an error.                                          *)
May(f, s) == s \in {NULL, f} \cup Dependencies(f)

(* A builder waits for the one above it, which builds what it looked for. If  *)
(* its file can be built it waits for an import, so that one can, too.       *)
WaitsFor(b, g) ==
  /\ b.at = "imports" => g \in db.imports[b.file]
  /\ b.at = "typed" => g = db.index[db.type[b.file]]
  /\ b.at = "extended" => g = db.index[db.extendee[b.file]]

WaitsIn(stack) ==
  /\ \A i \in DOMAIN stack : i < Len(stack) => WaitsFor(stack[i], stack[i + 1].file)
  /\ db.mode = DATABASE =>
       \A i, j \in DOMAIN stack : i < j /\ stack[i].file \in Buildable =>
         stack[i].at = "imports" /\ stack[j].file \in Buildable

Kept(k) == files_by_name_ \ FilesSince(k)

(* The file of the builder above the i-th, if there is one.                  *)
Above(stack, i) == IF i < Len(stack) THEN {stack[i + 1].file} ELSE {}

(* A builder finds no error in a file that can be built, whose imports are   *)
(* in the tables, or being built (those above); and what it has found in     *)
(* order so far is.                                                         *)
FindsNoError(b, above) ==
  b.file \in Buildable =>
    /\ ~ b.errors
    /\ b.at = "imports" => db.imports[b.file] \ b.left \subseteq files_by_name_ \cup above
    /\ b.at = "add" => db.imports[b.file] \subseteq files_by_name_

FindsErrors(b) ==
  b.at \in Recorded /\ ~ b.errors =>
    /\ b.file \notin db.invalid
    /\ b.at \in {"extendee", "extended", "finish"} => May(b.file, db.type[b.file])
    /\ b.at = "finish" => May(b.file, db.extendee[b.file])
    /\ \A k \in DOMAIN checkpoints_ : Opened[k] = b.file => db.imports[b.file] \subseteq Kept(k)

Finds(b, above) ==
  /\ b.at \in {"imports", "add"} => b.file \notin files_by_name_
  /\ b.at = "imports" => b.left \subseteq db.imports[b.file]
  /\ FindsNoError(b, above)
  /\ FindsErrors(b)

FindsIn(stack) ==
  /\ \A i \in DOMAIN stack : stack[i].file \in db.protos
  /\ db.mode = DATABASE => \A i \in DOMAIN stack : Finds(stack[i], Above(stack, i))

(* What failed cannot be built.                                              *)
BadRight == known_bad_files_ \cap Buildable = {} /\ known_bad_symbols_ \cap Buildable = {}

(* What is built can be, if what is still being built can: each file was      *)
(* added after its imports.                                                 *)
GroundedSet(S) ==
  \A G \in SUBSET File : ClosedUnder(G) /\ S \ finished_building_ \subseteq G => S \subseteq G
Grounded == db.mode = DATABASE => \A S \in KeptTables : GroundedSet(S)

KeysRight == \A key \in extensions_ : key[1] = db.extendee[key[2]]

(* A file that no rollback to come takes back.                               *)
Safe(g) == g \in finished_building_ /\ g \notin ToSet(files_after_checkpoint_)

(* The call c has looked for the file g.                                     *)
Wants(c, g) ==
  \/ /\ c.op \in {"FindFileByName", "FindSymbol", "message_type"}
     /\ c.at = "answer" /\ g = c.name
  \/ /\ c.op = "FindExtensionByNumber"
     /\ c.at = "answer" /\ c.name = <<db.extendee[g], g>>
  \/ /\ c.op = "FindAllExtensions" /\ db.extendee[g] = c.name
     /\ c.at = "answer" \/ (c.at = "numbers" /\ g \notin c.left)

Loaded == \A g \in Buildable : db.extendee[g] \in extensions_loaded_from_db_ => Safe(g)

(* Those that can be built are, or the outermost builder builds them.        *)
Answering ==
  call # NULL =>
    /\ \A g \in Buildable :
         Wants(call, g) => Safe(g) \/ (builders # << >> /\ builders[1].file = g)
    /\ builders # << >> /\ call.op \in {"FindSymbol", "message_type"} =>
         builders[1].file = db.index[call.name]

AnswersOK ==
  /\ WaitsIn(builders) /\ FindsIn(builders) /\ BadRight /\ Grounded /\ KeysRight
  /\ Loaded /\ Answering

-----------------------------------------------------------------------------
(* The files that can be built. *)

(* What the database, and with it what can be built, is at the next step.    *)
LEMMA DatabaseSame ==
  ASSUME db' = db
  PROVE  /\ Buildable' = Buildable /\ WellKept' = WellKept
         /\ \A f : Dependencies(f)' = Dependencies(f)
         /\ \A f, G : CanBuild(f, G)' = CanBuild(f, G)
         /\ \A G : ClosedUnder(G)' = ClosedUnder(G)
         /\ \A f, s : May(f, s)' = May(f, s)
<1>1. \A f : Dependencies(f)' = Dependencies(f)
  BY DEF Dependencies
<1>2. \A f, G : CanBuild(f, G)' = CanBuild(f, G)
  BY <1>1 DEF CanBuild
<1>3. \A G : ClosedUnder(G)' = ClosedUnder(G)
  BY <1>2 DEF ClosedUnder
<1>4. Buildable' = Buildable
  BY <1>2 DEF Buildable
<1>5. WellKept' = WellKept
  BY <1>4 DEF WellKept
<1>6. \A f, s : May(f, s)' = May(f, s)
  BY <1>1 DEF May
<1> QED
  BY <1>1, <1>2, <1>3, <1>4, <1>5, <1>6

(* More files to import is no hindrance.                                     *)
LEMMA BuildMonotone ==
  ASSUME NEW f, NEW G, NEW H, G \subseteq H, CanBuild(f, G)
  PROVE  CanBuild(f, H)
BY DEF CanBuild

(* Buildable is in every closed set, and is closed itself.                   *)
LEMMA BuildableLeast ==
  /\ Buildable \in SUBSET File
  /\ \A G \in SUBSET File : ClosedUnder(G) => Buildable \subseteq G
  /\ ClosedUnder(Buildable)
<1>1. Buildable \in SUBSET File
  BY DEF Buildable
<1>2. \A G \in SUBSET File : ClosedUnder(G) => Buildable \subseteq G
  BY DEF Buildable, ClosedUnder
<1>3. ASSUME NEW g \in File, CanBuild(g, Buildable) PROVE g \in Buildable
  <2>1. SUFFICES ASSUME NEW G \in SUBSET File, ClosedUnder(G) PROVE g \in G
    BY DEF Buildable, ClosedUnder
  <2>2. CanBuild(g, G)
    BY <1>2, <1>3, <2>1, BuildMonotone
  <2> QED
    BY <2>1, <2>2 DEF ClosedUnder
<1> QED
  BY <1>1, <1>2, <1>3 DEF ClosedUnder

(* Files that import each other cannot be built.                             *)
LEMMA NoCycle ==
  ASSUME NEW C, \A f \in C : db.imports[f] \cap C # {}
  PROVE  C \cap Buildable = {}
<1> DEFINE G == Buildable \ C
<1>1. ASSUME NEW g \in File, CanBuild(g, G) PROVE g \in G
  <2>1. CanBuild(g, Buildable)
    BY <1>1, BuildMonotone
  <2>2. g \in Buildable
    BY <2>1, BuildableLeast DEF ClosedUnder
  <2>3. db.imports[g] \subseteq G
    BY <1>1 DEF CanBuild
  <2> QED
    BY <2>2, <2>3
<1>2. G \in SUBSET File /\ ClosedUnder(G)
  BY <1>1, BuildableLeast DEF ClosedUnder
<1>3. Buildable \subseteq G
  BY <1>2, BuildableLeast
<1> QED
  BY <1>3

(* A file that can be built has no error, imports files that can be, and     *)
(* uses what it may.                                                        *)
LEMMA BuildableFacts ==
  ASSUME NEW f \in Buildable
  PROVE  /\ f \in File /\ f \in db.protos /\ f \notin db.invalid
         /\ db.imports[f] \subseteq Buildable /\ f \notin db.imports[f]
         /\ May(f, db.type[f]) /\ May(f, db.extendee[f])
<1>1. f \in File
  BY BuildableLeast
<1>2. CanBuild(f, Buildable)
  <2>1. SUFFICES ASSUME ~ CanBuild(f, Buildable) PROVE FALSE
    OBVIOUS
  <2> DEFINE G == Buildable \ {f}
  <2>2. ASSUME NEW g \in File, CanBuild(g, G) PROVE g \in G
    <3>1. CanBuild(g, Buildable)
      BY <2>2, BuildMonotone
    <3>2. g \in Buildable /\ g # f
      BY <2>1, <3>1, BuildableLeast DEF ClosedUnder
    <3> QED
      BY <3>2
  <2>3. G \in SUBSET File /\ ClosedUnder(G)
    BY <2>2, BuildableLeast DEF ClosedUnder
  <2>4. Buildable \subseteq G
    BY <2>3, BuildableLeast
  <2> QED
    BY <2>4
<1>3. f \notin db.imports[f]
  <2>1. SUFFICES ASSUME f \in db.imports[f] PROVE FALSE
    OBVIOUS
  <2> DEFINE C == {f}
  <2>2. \A g \in C : db.imports[g] \cap C # {}
    BY <2>1
  <2>3. C \cap Buildable = {}
    BY <2>2, NoCycle
  <2> QED
    BY <2>3
<1>4. /\ f \in db.protos /\ f \notin db.invalid /\ db.imports[f] \subseteq Buildable
      /\ {db.type[f], db.extendee[f]} \subseteq {NULL, f} \cup Dependencies(f)
  BY <1>2 DEF CanBuild
<1> QED
  BY <1>1, <1>3, <1>4 DEF May

(* What f depends on is in every set with its imports that is closed under   *)
(* public imports.                                                          *)
LEMMA DependenciesLeast ==
  ASSUME NEW f, NEW G \in SUBSET File, db.imports[f] \subseteq G, \A h \in G : db.public[h] \subseteq G
  PROVE  Dependencies(f) \subseteq G
BY DEF Dependencies

-----------------------------------------------------------------------------
(* The answers: lemmas about stacks of builders. *)

(* The stack after SetLast, as far as what waits is concerned.               *)
LEMMA WaitsSet ==
  ASSUME NEW stack \in Seq(BuilderRecord), stack # << >>, WaitsIn(stack),
         NEW b \in BuilderRecord, b.file = Last(stack).file
  PROVE  WaitsIn(SetLast(stack, b))
<1>1. PICK r, n : r = SetLast(stack, b) /\ n = Len(stack)
  OBVIOUS
<1>2. /\ n \in Nat \ {0} /\ DOMAIN stack = 1..n /\ DOMAIN r = 1..n /\ Len(r) = n /\ r[n] = b
      /\ \A i \in DOMAIN stack : i # n => r[i] = stack[i]
      /\ Last(stack) = stack[n]
  BY <1>1, SetLastFacts
<1>3. \A i \in 1..n : r[i].file = stack[i].file /\ (i < n => r[i] = stack[i])
  BY <1>2
<1>4. \A i \in 1..n : i < n => WaitsFor(stack[i], stack[i + 1].file)
  BY <1>1, <1>2 DEF WaitsIn
<1>5. ASSUME NEW i \in 1..n, i < n PROVE WaitsFor(r[i], r[i + 1].file)
  <2>1. i + 1 \in 1..n
    BY <1>2, <1>5
  <2> QED
    BY <1>3, <1>4, <1>5, <2>1
<1>6. ASSUME db.mode = DATABASE, NEW i \in 1..n, NEW j \in 1..n, i < j, r[i].file \in Buildable
      PROVE  r[i].at = "imports" /\ r[j].file \in Buildable
  <2>1. stack[i].at = "imports" /\ stack[j].file \in Buildable
    BY <1>2, <1>3, <1>6 DEF WaitsIn
  <2>2. i < n
    BY <1>2, <1>6
  <2> QED
    BY <1>3, <2>1, <2>2
<1>7. WaitsIn(r)
  BY <1>2, <1>5, <1>6 DEF WaitsIn
<1> QED
  BY <1>1, <1>7

(* A builder starts above the innermost, which waits for it.                 *)
LEMMA WaitsPush ==
  ASSUME NEW stack \in Seq(BuilderRecord), WaitsIn(stack), NEW f \in File,
         stack # << >> => WaitsFor(Last(stack), f),
         db.mode = DATABASE /\ stack # << >> /\ Last(stack).file \in Buildable =>
           Last(stack).at = "imports" /\ f \in Buildable
  PROVE  WaitsIn(Append(stack, Builder(f)))
<1>1. PICK r, n : r = Append(stack, Builder(f)) /\ n = Len(stack)
  OBVIOUS
<1>2. /\ n \in Nat /\ DOMAIN stack = 1..n /\ DOMAIN r = 1..(n + 1) /\ Len(r) = n + 1
      /\ r[n + 1].file = f /\ \A i \in DOMAIN stack : r[i] = stack[i]
  BY <1>1, PushFacts
<1>3. n # 0 => stack # << >> /\ Last(stack) = stack[n]
  BY <1>1 DEF Last
<1>4. \A i \in 1..n : i < n => WaitsFor(stack[i], stack[i + 1].file)
  BY <1>1, <1>2 DEF WaitsIn
<1>5. ASSUME NEW i \in DOMAIN r, i < n + 1 PROVE WaitsFor(r[i], r[i + 1].file)
  <2>1. CASE i < n
    <3>1. i \in 1..n /\ i + 1 \in 1..n
      BY <1>2, <1>5, <2>1
    <3> QED
      BY <1>2, <1>4, <2>1, <3>1
  <2>2. CASE i = n
    <3>1. n # 0 /\ n \in 1..n
      BY <1>2, <1>5, <2>2
    <3>2. r[i] = stack[n] /\ r[i + 1].file = f
      BY <1>2, <2>2, <3>1
    <3>3. WaitsFor(stack[n], f)
      BY <1>3, <3>1
    <3> QED
      BY <3>2, <3>3
  <2>3. i \in Nat
    BY <1>2
  <2> QED
    BY <1>2, <1>5, <2>1, <2>2, <2>3
<1>6. ASSUME db.mode = DATABASE, NEW i \in 1..n, NEW j \in 1..n, i < j, stack[i].file \in Buildable
      PROVE  stack[i].at = "imports" /\ stack[j].file \in Buildable
  BY <1>2, <1>6 DEF WaitsIn
<1>7. ASSUME db.mode = DATABASE, NEW i \in DOMAIN r, NEW j \in DOMAIN r, i < j, r[i].file \in Buildable
      PROVE  r[i].at = "imports" /\ r[j].file \in Buildable
  <2>1. i \in 1..n /\ r[i] = stack[i] /\ n # 0 /\ n \in 1..n
    BY <1>2, <1>7
  <2>2. stack[n].file \in Buildable /\ stack[i].at = "imports"
    <3>1. CASE i = n
      BY <1>3, <1>7, <2>1, <3>1
    <3>2. CASE i < n
      BY <1>6, <1>7, <2>1, <3>2
    <3> QED
      BY <1>2, <2>1, <3>1, <3>2
  <2>3. r[n + 1].file \in Buildable
    BY <1>2, <1>3, <1>7, <2>1, <2>2
  <2>4. CASE j = n + 1
    BY <2>1, <2>2, <2>3, <2>4
  <2>5. CASE j # n + 1
    <3>1. j \in 1..n /\ r[j] = stack[j]
      BY <1>2, <2>5
    <3> QED
      BY <1>6, <1>7, <2>1, <3>1
  <2> QED
    BY <2>4, <2>5
<1>8. WaitsIn(r)
  BY <1>2, <1>5, <1>7 DEF WaitsIn
<1> QED
  BY <1>1, <1>8

(* The innermost builder returns. *)
LEMMA WaitsPop ==
  ASSUME NEW stack \in Seq(BuilderRecord), stack # << >>, WaitsIn(stack)
  PROVE  WaitsIn(Front(stack))
<1>1. PICK r, n : r = Front(stack) /\ n = Len(stack)
  OBVIOUS
<1>2. /\ n \in Nat \ {0} /\ DOMAIN stack = 1..n /\ DOMAIN r = 1..(n - 1) /\ Len(r) = n - 1
      /\ \A i \in 1..(n - 1) : r[i] = stack[i]
  BY <1>1, FrontFacts
<1>3. ASSUME NEW i \in DOMAIN r, i < n - 1 PROVE WaitsFor(r[i], r[i + 1].file)
  <2>1. i \in DOMAIN stack /\ i < n /\ i + 1 \in 1..(n - 1)
    BY <1>2, <1>3
  <2> QED
    BY <1>1, <1>2, <2>1 DEF WaitsIn
<1>4. \A i \in DOMAIN r : i \in DOMAIN stack /\ r[i] = stack[i]
  BY <1>2
<1>5. WaitsIn(r)
  BY <1>2, <1>3, <1>4 DEF WaitsIn
<1> QED
  BY <1>1, <1>5

(* What the builders find, after SetLast.                                    *)
LEMMA FindsSet ==
  ASSUME NEW stack \in Seq(BuilderRecord), stack # << >>, FindsIn(stack),
         NEW b \in BuilderRecord, b.file = Last(stack).file, db.mode = DATABASE => Finds(b, {})
  PROVE  FindsIn(SetLast(stack, b))
<1>1. PICK r, n : r = SetLast(stack, b) /\ n = Len(stack)
  OBVIOUS
<1>2. /\ n \in Nat \ {0} /\ DOMAIN stack = 1..n /\ DOMAIN r = 1..n /\ Len(r) = n /\ r[n] = b
      /\ \A i \in DOMAIN stack : i # n => r[i] = stack[i]
      /\ Last(stack) = stack[n]
  BY <1>1, SetLastFacts
<1>3. \A i \in 1..n : r[i].file = stack[i].file
  BY <1>2
<1>4. ASSUME NEW i \in 1..n PROVE Above(r, i) = IF i < n THEN {stack[i + 1].file} ELSE {}
  <2>1. i < n => i + 1 \in 1..n
    BY <1>2
  <2> QED
    BY <1>2, <1>3, <2>1 DEF Above
<1>5. ASSUME db.mode = DATABASE, NEW i \in 1..n PROVE Finds(r[i], Above(r, i))
  <2>1. CASE i = n
    <3>1. r[i] = b /\ Above(r, i) = {}
      BY <1>2, <1>4, <2>1
    <3> QED
      BY <1>5, <3>1
  <2>2. CASE i # n
    <3>1. Above(r, i) = Above(stack, i)
      BY <1>1, <1>4 DEF Above
    <3> QED
      BY <1>2, <1>5, <2>2, <3>1 DEF FindsIn
  <2> QED
    BY <2>1, <2>2
<1>6. \A i \in 1..n : r[i].file \in db.protos
  BY <1>2, <1>3 DEF FindsIn
<1>7. FindsIn(r)
  BY <1>2, <1>5, <1>6 DEF FindsIn
<1> QED
  BY <1>1, <1>7

(* A builder starts, and the one below may be waiting for it.                *)
LEMMA FindsPush ==
  ASSUME NEW stack \in Seq(BuilderRecord), stack # << >>, FindsIn(stack),
         NEW b \in BuilderRecord, b.file = Last(stack).file,
         NEW f \in File, f \in db.protos, db.mode = DATABASE => Finds(b, {f})
  PROVE  FindsIn(Append(SetLast(stack, b), Builder(f)))
<1>1. PICK s, r, n : s = SetLast(stack, b) /\ r = Append(s, Builder(f)) /\ n = Len(stack)
  OBVIOUS
<1>2. /\ n \in Nat \ {0} /\ DOMAIN stack = 1..n /\ DOMAIN s = 1..n /\ Len(s) = n /\ s[n] = b
      /\ \A i \in DOMAIN stack : i # n => s[i] = stack[i]
      /\ Last(stack) = stack[n] /\ s \in Seq(BuilderRecord)
  BY <1>1, SetLastFacts
<1>3. /\ DOMAIN r = 1..(n + 1) /\ Len(r) = n + 1 /\ r[n + 1] = Builder(f)
      /\ \A i \in 1..n : r[i] = s[i]
      /\ Builder(f).at = "enter" /\ Builder(f).file = f /\ ~ Builder(f).errors
  BY <1>1, <1>2, PushFacts
<1>4. \A i \in 1..n : r[i].file = stack[i].file
  BY <1>2, <1>3
<1>5. ASSUME db.mode = DATABASE, NEW i \in DOMAIN r PROVE Finds(r[i], Above(r, i))
  <2>1. CASE i = n + 1
    BY <1>3, <2>1 DEF Finds, FindsNoError, FindsErrors, Recorded
  <2>2. CASE i = n
    <3>1. r[i] = b /\ Above(r, i) = {f}
      BY <1>2, <1>3, <2>2 DEF Above
    <3> QED
      BY <1>5, <3>1
  <2>3. CASE i < n
    <3>1. i \in 1..n /\ i + 1 \in 1..n
      BY <1>2, <1>3, <2>3
    <3>2. r[i] = stack[i] /\ Above(r, i) = Above(stack, i)
      BY <1>1, <1>2, <1>3, <1>4, <2>3, <3>1 DEF Above
    <3> QED
      BY <1>2, <1>5, <3>1, <3>2 DEF FindsIn
  <2> QED
    BY <1>2, <1>3, <2>1, <2>2, <2>3
<1>6. ASSUME NEW i \in DOMAIN r PROVE r[i].file \in db.protos
  BY <1>2, <1>3, <1>4 DEF FindsIn
<1>7. FindsIn(r)
  BY <1>5, <1>6 DEF FindsIn
<1> QED
  BY <1>1, <1>7

-----------------------------------------------------------------------------
(* The answers: what is found. *)

(* A name that is found is that of a file of the tables.                     *)
LEMMA NameIsFile ==
  ASSUME IInv, WellKept, NEW s \in Symbol, symbols_by_name_[s] # NULL
  PROVE  s \in files_by_name_ /\ s \in File /\ symbols_by_name_[s] = s
<1>1. symbols_by_name_[s] \in files_by_name_ /\ s \in Defines(symbols_by_name_[s])
  BY DEF IInv, TablesOK, EntriesOK
<1>2. s = symbols_by_name_[s]
  BY <1>1 DEF Defines, WellKept
<1> QED
  BY <1>1, <1>2 DEF IInv, Typed, TablesTyped

(* A file of the tables that can be built is found under its name, and with  *)
(* it its imports.                                                          *)
LEMMA FileIsNamed ==
  ASSUME IInv, AnswersOK, WellKept, NEW f \in Buildable, f \in files_by_name_
  PROVE  /\ symbols_by_name_[f] = f
         /\ db.mode = DATABASE => db.imports[f] \subseteq files_by_name_
<1>1. Named(f) /\ Clean(f)
  <2>1. CASE f \in finished_building_
    BY <2>1 DEF IInv, TablesOK, EntriesOK, Clean
  <2>2. CASE f \notin finished_building_
    <3>1. PICK i \in AtWork(builders, Recorded) : builders[i].file = f
      BY <2>2 DEF IInv, TablesOK, FilesOK
    <3>2. i \in DOMAIN builders /\ builders[i].at \in Recorded
      BY DEF AtWork
    <3>3. ~ builders[i].errors
      <4>1. CASE db.mode = DATABASE
        BY <3>1, <3>2, <4>1 DEF AnswersOK, FindsIn, Finds, FindsNoError
      <4>2. CASE db.mode = LAZY
        BY <3>2, <4>2 DEF IInv, LazyOK, LazyStack, LazyAt
      <4> QED
        BY <4>1, <4>2, DatabaseFacts DEF IInv, WellKept
    <3>4. BuilderOK(builders[i])
      BY <3>2 DEF IInv, TablesOK, BuildersOK, BuildersFine
    <3> QED
      BY <3>1, <3>2, <3>3, <3>4 DEF BuilderOK, Clean
  <2> QED
    BY <2>1, <2>2
<1>2. files_by_name_ \in KeptTables
  BY DEF KeptTables
<1>3. db.mode = DATABASE => db.imports[f] \subseteq files_by_name_
  BY <1>1, <1>2 DEF IInv, TablesOK, ClosedOK, Closed, DATABASE, LAZY
<1> QED
  BY <1>1, <1>3 DEF Named, Defines

(* What a file that can be built may use is in the tables once the file is.  *)
LEMMA UseIsFound ==
  ASSUME IInv, AnswersOK, WellKept, db.mode = DATABASE, NEW f \in Buildable, f \in files_by_name_,
         NEW s, s # NULL, May(f, s)
  PROVE  symbols_by_name_[s] = s /\ MayUse(f, s)
<1> DEFINE G == files_by_name_ \cap Buildable
<1>1. G \in SUBSET File
  BY BuildableLeast
<1>2. \A h \in File : db.public[h] \subseteq db.imports[h]
  BY DatabasesAssumption DEF IInv, Typed
<1>3. \A h \in G : db.imports[h] \subseteq G
  BY FileIsNamed, BuildableFacts
<1>4. Dependencies(f) \subseteq G
  BY <1>1, <1>2, <1>3, DependenciesLeast
<1>5. s \in G
  BY <1>4 DEF May
<1>6. symbols_by_name_[s] = s
  BY <1>5, FileIsNamed
<1> QED
  BY <1>6 DEF May, MayUse

(* The table of files and the names in it, between two builds of a call.     *)
LEMMA IdleSafe ==
  ASSUME IInv, builders = << >>
  PROVE  \A f : f \in files_by_name_ <=> Safe(f)
<1>1. files_after_checkpoint_ = << >> /\ files_by_name_ = finished_building_
  BY IdleFacts
<1>2. ToSet(<< >>) = {}
  BY DEF ToSet
<1> QED
  BY <1>1, <1>2 DEF Safe

(* Looking for a file in the database: if it can be built it is.             *)
LEMMA TryFileFinds ==
  ASSUME IInv, AnswersOK, WellKept, NEW f \in File, NEW stack, TryFile(f, stack), UNCHANGED db
  PROVE  /\ BadRight'
         /\ \/ builders' = stack /\ f \notin Buildable
            \/ builders' = Append(stack, Builder(f)) /\ f \in db.protos
<1>1. Buildable' = Buildable
  BY DatabaseSame
<1>2. db.mode # DIRECT /\ known_bad_files_ \cap Buildable = {} /\ known_bad_symbols_ \cap Buildable = {}
  BY DEF WellKept, AnswersOK, BadRight
<1>3. CASE f \in known_bad_files_
  BY <1>1, <1>2, <1>3 DEF TryFile, bad, BadRight
<1>4. CASE f \notin known_bad_files_ /\ f \in db.protos
  BY <1>1, <1>2, <1>4 DEF TryFile, bad, BadRight
<1>5. CASE f \notin known_bad_files_ /\ f \notin db.protos
  <2>1. f \notin Buildable
    BY <1>5, BuildableFacts
  <2>2. builders' = stack /\ known_bad_files_' = known_bad_files_ \cup {f} /\ UNCHANGED known_bad_symbols_
    BY <1>2, <1>5 DEF TryFile
  <2>3. BadRight'
    BY <1>1, <1>2, <2>1, <2>2 DEF BadRight
  <2> QED
    BY <2>1, <2>2, <2>3
<1> QED
  BY <1>3, <1>4, <1>5

(* The same for a symbol. *)
LEMMA TrySymbolFinds ==
  ASSUME IInv, AnswersOK, WellKept, NEW s \in Symbol, symbols_by_name_[s] = NULL, NEW stack,
         TrySymbol(s, stack), UNCHANGED db
  PROVE  /\ BadRight'
         /\ \/ builders' = stack /\ s \notin Buildable
            \/ /\ builders' = Append(stack, Builder(db.index[s]))
               /\ db.index[s] \in db.protos
               /\ s \in Buildable => db.index[s] = s
<1>1. Buildable' = Buildable
  BY DatabaseSame
<1>2. db.mode # DIRECT /\ known_bad_files_ \cap Buildable = {} /\ known_bad_symbols_ \cap Buildable = {}
  BY DEF WellKept, AnswersOK, BadRight
<1>3. s \in Buildable => db.index[s] = s /\ s \in db.protos /\ s \notin files_by_name_ /\ s \notin known_bad_files_
  <2>1. SUFFICES ASSUME s \in Buildable
                 PROVE  db.index[s] = s /\ s \in db.protos /\ s \notin files_by_name_ /\ s \notin known_bad_files_
    OBVIOUS
  <2>2. s \in db.protos /\ s \in File
    BY <2>1, BuildableFacts
  <2>3. db.index[s] = s
    BY <2>2 DEF WellKept
  <2>4. s # NULL
    BY <2>2, DatabaseFacts DEF IInv
  <2>5. s \notin files_by_name_
    BY <2>1, <2>4, FileIsNamed
  <2> QED
    BY <1>2, <2>1, <2>2, <2>3, <2>5
<1>4. CASE s \in known_bad_symbols_
  BY <1>1, <1>2, <1>4 DEF TrySymbol, bad, BadRight
<1>5. CASE s \notin known_bad_symbols_ /\ db.index[s] \in db.protos \ (files_by_name_ \cup known_bad_files_)
  BY <1>1, <1>2, <1>3, <1>5 DEF TrySymbol, bad, BadRight
<1>6. CASE s \notin known_bad_symbols_ /\ db.index[s] \notin db.protos \ (files_by_name_ \cup known_bad_files_)
  <2>1. s \notin Buildable
    BY <1>3, <1>6
  <2>2. builders' = stack /\ known_bad_symbols_' = known_bad_symbols_ \cup {s} /\ UNCHANGED known_bad_files_
    BY <1>2, <1>6 DEF TrySymbol
  <2>3. BadRight'
    BY <1>1, <1>2, <2>1, <2>2 DEF BadRight
  <2> QED
    BY <2>1, <2>2, <2>3
<1> QED
  BY <1>4, <1>5, <1>6

-----------------------------------------------------------------------------
(* The answers: a builder returns. *)

(* What the other builders find when the innermost returns, if its file is   *)
(* in the tables where it matters.                                          *)
LEMMA FindsPop ==
  ASSUME NEW stack \in Seq(BuilderRecord), stack # << >>, FindsIn(stack),
         db.mode = DATABASE /\ Len(stack) > 1 /\ stack[Len(stack) - 1].file \in Buildable =>
           Last(stack).file \in files_by_name_
  PROVE  FindsIn(Front(stack))
<1>1. PICK r, n : r = Front(stack) /\ n = Len(stack)
  OBVIOUS
<1>2. /\ n \in Nat \ {0} /\ DOMAIN stack = 1..n /\ DOMAIN r = 1..(n - 1) /\ Len(r) = n - 1
      /\ \A i \in 1..(n - 1) : r[i] = stack[i]
      /\ Last(stack) = stack[n]
  BY <1>1, FrontFacts
<1>3. ASSUME db.mode = DATABASE, NEW i \in DOMAIN r PROVE Finds(r[i], Above(r, i))
  <2>1. i \in DOMAIN stack /\ r[i] = stack[i] /\ i < n
    BY <1>2
  <2>2. Finds(r[i], Above(stack, i))
    BY <1>3, <2>1 DEF FindsIn
  <2>3. CASE i < n - 1
    <3>1. Above(r, i) = Above(stack, i)
      BY <1>1, <1>2, <2>1, <2>3 DEF Above
    <3> QED
      BY <2>2, <3>1
  <2>4. CASE i = n - 1
    <3>1. Above(r, i) = {} /\ Above(stack, i) = {Last(stack).file}
      BY <1>1, <1>2, <2>1, <2>4 DEF Above
    <3>2. n > 1
      BY <1>2, <2>4
    <3>3. r[i].file \in Buildable => Last(stack).file \in files_by_name_
      BY <1>1, <1>3, <2>1, <2>4, <3>2
    <3> QED
      BY <2>2, <3>1, <3>3 DEF Finds, FindsNoError
  <2> QED
    BY <1>2, <2>3, <2>4
<1>4. \A i \in DOMAIN r : r[i].file \in db.protos
  BY <1>2 DEF FindsIn
<1>5. FindsIn(r)
  BY <1>3, <1>4 DEF FindsIn
<1> QED
  BY <1>1, <1>5

(* What could not be built is remembered, and so is the name it was sought   *)
(* by, which names nothing that can be built either.                         *)
LEMMA ReturnBad ==
  ASSUME IInv, AnswersOK, WellKept, builders # << >>, Return(NULL), UNCHANGED db,
         Top.file \notin Buildable
  PROVE  BadRight'
<1>1. Buildable' = Buildable
  BY DatabaseSame
<1>2. /\ known_bad_files_' = known_bad_files_ \cup {Top.file}
      /\ known_bad_symbols_' = known_bad_symbols_ \cup SymbolSought
  BY DEF Return, WellKept
<1>3. \A s : s \in Buildable => db.index[s] = s
  BY BuildableFacts DEF WellKept
<1>4. SymbolSought \cap Buildable = {}
  <2>1. SUFFICES ASSUME NEW s \in SymbolSought, s \in Buildable PROVE FALSE
    OBVIOUS
  <2>2. db.index[s] = s /\ s # Top.file
    BY <1>3, <2>1
  <2>3. CASE Len(builders) = 1
    <3>1. call # NULL
      BY DEF IInv, CallOK
    <3>2. call.op \in {"FindSymbol", "message_type"} /\ s = call.name
      BY <2>1, <2>3 DEF SymbolSought
    <3>3. builders[1].file = db.index[s]
      BY <3>1, <3>2 DEF AnswersOK, Answering
    <3> QED
      BY <2>2, <2>3, <3>3, TopFacts DEF IInv
  <2>4. CASE Len(builders) # 1
    <3>1. PICK i, c : i = Len(builders) - 1 /\ c = builders[i]
      OBVIOUS
    <3>2. i \in DOMAIN builders /\ i < Len(builders) /\ i + 1 = Len(builders)
      BY <2>4, <3>1, TopFacts DEF IInv
    <3>3. WaitsFor(c, Top.file)
      BY <3>1, <3>2, TopFacts DEF IInv, AnswersOK, WaitsIn
    <3>4. s \in CASE c.at = "typed"    -> {db.type[c.file]}
                  [] c.at = "extended" -> {db.extendee[c.file]}
                  [] OTHER             -> {}
      BY <2>1, <2>4, <3>1 DEF SymbolSought
    <3>5. \/ c.at = "typed" /\ s = db.type[c.file]
          \/ c.at = "extended" /\ s = db.extendee[c.file]
      BY <3>4
    <3> QED
      BY <2>2, <3>3, <3>5 DEF WaitsFor
  <2> QED
    BY <2>3, <2>4
<1> QED
  BY <1>1, <1>2, <1>4 DEF AnswersOK, BadRight

(* The step leaves the tables of files and extensions alone, and with them    *)
(* what builders may find and what no rollback takes back.                   *)
LEMMA QuietAnswers ==
  ASSUME UNCHANGED <<db, files_by_name_, files_after_checkpoint_, checkpoints_, finished_building_>>
  PROVE  /\ Grounded' = Grounded
         /\ UNCHANGED extensions_ => KeysRight' = KeysRight
         /\ UNCHANGED extensions_loaded_from_db_ => Loaded' = Loaded
         /\ \A g : Safe(g)' = Safe(g)
         /\ WaitsIn(builders') => WaitsIn(builders)'
         /\ FindsIn(builders') => FindsIn(builders)'
<1>1. /\ Buildable' = Buildable /\ \A G : ClosedUnder(G)' = ClosedUnder(G)
      /\ \A f, s : May(f, s)' = May(f, s)
  BY DatabaseSame
<1>2. db' = db
  OBVIOUS
<1>3. KeptTables' = KeptTables /\ Opened' = Opened /\ \A k : Kept(k)' = Kept(k)
  BY <1>2 DEF KeptTables, FilesSince, Opened, Kept
<1>4. \A S : GroundedSet(S)' = GroundedSet(S)
  BY <1>1 DEF GroundedSet
<1>5. \A g : Safe(g)' = Safe(g)
  BY <1>2 DEF Safe
<1>6. Grounded' = Grounded /\ (UNCHANGED extensions_ => KeysRight' = KeysRight)
  BY <1>2, <1>3, <1>4 DEF Grounded, KeysRight
<1>7. UNCHANGED extensions_loaded_from_db_ => Loaded' = Loaded
  BY <1>1, <1>2, <1>5 DEF Loaded
<1>8. WaitsIn(builders') => WaitsIn(builders)'
  BY <1>1, <1>2 DEF WaitsIn, WaitsFor
<1>9. \A b, above : Finds(b, above) => (FindsNoError(b, above) /\ FindsErrors(b))
  BY DEF Finds
<1>10. FindsIn(builders') => FindsIn(builders)'
  BY <1>1, <1>2, <1>3 DEF FindsIn, Finds, FindsNoError, FindsErrors, Above
<1> QED
  BY <1>5, <1>6, <1>7, <1>8, <1>10

(* What the call wants is still being built, or is there.                    *)
LEMMA AnsweringGoesOn ==
  ASSUME AnswersOK, builders # << >>, UNCHANGED <<db, call>>,
         \A g : Safe(g) => Safe(g)',
         \/ builders' # << >> /\ builders'[1].file = builders[1].file
         \/ builders' = << >> /\ \A g \in Buildable : builders[1].file = g => Safe(g)'
  PROVE  Answering'
<1>1. Buildable' = Buildable /\ \A c, g : Wants(c, g)' = Wants(c, g)
  BY DatabaseSame DEF Wants
<1>2. ASSUME call # NULL, NEW g \in Buildable, Wants(call, g)
      PROVE  Safe(g)' \/ (builders' # << >> /\ builders'[1].file = g)
  <2>1. CASE Safe(g)
    BY <2>1
  <2>2. CASE ~ Safe(g)
    <3>1. builders[1].file = g
      BY <1>2, <2>2 DEF AnswersOK, Answering
    <3> QED
      BY <1>2, <3>1
  <2> QED
    BY <2>1, <2>2
<1>3. call # NULL /\ builders' # << >> /\ call.op \in {"FindSymbol", "message_type"} =>
        builders'[1].file = db.index[call.name]
  BY DEF AnswersOK, Answering
<1> QED
  BY <1>1, <1>2, <1>3 DEF Answering

(* A step of a build that leaves those tables alone.                         *)
LEMMA BuildAnswers ==
  ASSUME AnswersOK, builders # << >>, BadRight', WaitsIn(builders'), FindsIn(builders'),
         UNCHANGED <<db, entries, after, checkpoints_, finished_building_, extensions_loaded_from_db_, call>>,
         \/ builders' # << >> /\ builders'[1].file = builders[1].file
         \/ builders' = << >> /\ (builders[1].file \in Buildable => Safe(builders[1].file))
  PROVE  AnswersOK'
<1>1. /\ Grounded' /\ KeysRight' /\ Loaded' /\ WaitsIn(builders)' /\ FindsIn(builders)'
      /\ \A g : Safe(g)' = Safe(g)
  BY QuietAnswers DEF AnswersOK, entries, after
<1>2. Answering'
  BY <1>1, AnsweringGoesOn
<1> QED
  BY <1>1, <1>2 DEF AnswersOK

(* The builder goes on.                                                     *)
LEMMA AdvanceAnswers ==
  ASSUME IInv, AnswersOK, builders # << >>, NEW b \in BuilderRecord, b.file = Top.file,
         db.mode = DATABASE => Finds(b, {}), BadRight', builders' = SetLast(builders, b),
         UNCHANGED <<db, entries, after, checkpoints_, finished_building_, extensions_loaded_from_db_, call>>
  PROVE  AnswersOK'
<1>1. builders \in Seq(BuilderRecord) /\ Last(builders) = Top
  BY TopFacts DEF IInv, Top
<1>2. WaitsIn(SetLast(builders, b)) /\ FindsIn(SetLast(builders, b))
  BY <1>1, WaitsSet, FindsSet DEF AnswersOK
<1>3. SetLast(builders, b) # << >> /\ SetLast(builders, b)[1].file = builders[1].file
  BY <1>1, SetLastFacts, FirstSame
<1> QED
  BY <1>2, <1>3, BuildAnswers

(* It starts another and waits for it.                                      *)
LEMMA SeekAnswers ==
  ASSUME IInv, AnswersOK, builders # << >>, NEW b \in BuilderRecord, b.file = Top.file,
         NEW f \in File, f \in db.protos, WaitsFor(b, f),
         db.mode = DATABASE => Finds(b, {f}),
         db.mode = DATABASE /\ b.file \in Buildable => b.at = "imports" /\ f \in Buildable,
         BadRight', builders' = Append(SetLast(builders, b), Builder(f)),
         UNCHANGED <<db, entries, after, checkpoints_, finished_building_, extensions_loaded_from_db_, call>>
  PROVE  AnswersOK'
<1>1. builders \in Seq(BuilderRecord) /\ Last(builders) = Top
  BY TopFacts DEF IInv, Top
<1>2. PICK s : s = SetLast(builders, b)
  OBVIOUS
<1>3. s \in Seq(BuilderRecord) /\ s # << >> /\ Last(s) = b /\ s[1].file = builders[1].file
  BY <1>1, <1>2, SetLastFacts, FirstSame
<1>4. WaitsIn(s)
  BY <1>1, <1>2, WaitsSet DEF AnswersOK
<1>5. WaitsIn(Append(s, Builder(f)))
  BY <1>3, <1>4, WaitsPush
<1>6. FindsIn(Append(SetLast(builders, b), Builder(f)))
  BY <1>1, FindsPush DEF AnswersOK
<1>7. Append(s, Builder(f)) # << >> /\ Append(s, Builder(f))[1].file = builders[1].file
  <2>1. Len(s) \in Nat \ {0} /\ DOMAIN s = 1..Len(s)
    BY <1>3, SetLastFacts
  <2>2. 1 \in DOMAIN s
    BY <2>1
  <2> QED
    BY <1>3, <2>2, PushFacts
<1> QED
  BY <1>2, <1>5, <1>6, <1>7, BuildAnswers

(* Between two builds of a call, at the next step.                           *)
LEMMA IdleNext == (IInv /\ builders = << >> => \A f : f \in files_by_name_ <=> Safe(f))'
<1>1. IInv /\ builders = << >> => \A f : f \in files_by_name_ <=> Safe(f)
  BY IdleSafe
<1> QED
  BY <1>1, PTL

(* It returns what is in the tables, or finds that it cannot be built.       *)
LEMMA ReturnAnswers ==
  ASSUME IInv, IInv', AnswersOK, WellKept, builders # << >>, NEW r, Return(r),
         r # NULL => Top.file \in files_by_name_, r = NULL => Top.file \notin Buildable,
         UNCHANGED <<db, entries, after, checkpoints_, finished_building_, extensions_loaded_from_db_>>
  PROVE  AnswersOK'
<1>1. PICK n : n = Len(builders)
  OBVIOUS
<1>2. /\ builders \in Seq(BuilderRecord) /\ Last(builders) = Top /\ n \in Nat \ {0}
      /\ DOMAIN builders = 1..n /\ Top = builders[n]
  BY <1>1, TopFacts DEF IInv, Top
<1>3. builders' = Front(builders) /\ UNCHANGED call
  BY DEF Return
<1>4. /\ Front(builders) \in Seq(BuilderRecord) /\ Len(Front(builders)) = n - 1
      /\ \A i \in 1..(n - 1) : Front(builders)[i] = builders[i]
  BY <1>1, <1>2, FrontFacts
<1>5. WaitsIn(Front(builders))
  BY <1>2, WaitsPop DEF AnswersOK
<1>6. ASSUME db.mode = DATABASE, n > 1, builders[n - 1].file \in Buildable
      PROVE  Top.file \in files_by_name_
  <2>1. n - 1 \in DOMAIN builders /\ n \in DOMAIN builders /\ n - 1 < n
    BY <1>2, <1>6
  <2>2. Top.file \in Buildable
    BY <1>2, <1>6, <2>1 DEF AnswersOK, WaitsIn
  <2> QED
    BY <2>2
<1>7. FindsIn(Front(builders))
  BY <1>1, <1>2, <1>6, FindsPop DEF AnswersOK
<1>8. BadRight'
  <2>1. CASE r = NULL
    BY <2>1, ReturnBad
  <2>2. CASE r # NULL
    <3>1. UNCHANGED bad /\ Buildable' = Buildable
      BY <2>2, DatabaseSame DEF Return
    <3> QED
      BY <3>1 DEF AnswersOK, BadRight, bad
  <2> QED
    BY <2>1, <2>2
<1>9. CASE n = 1
  <2>1. builders' = << >>
    BY <1>3, <1>4, <1>9, EmptySeq
  <2>2. builders[1].file \in Buildable => builders[1].file \in files_by_name_
    BY <1>2, <1>9
  <2>3. \A f : f \in files_by_name_' <=> Safe(f)'
    BY <2>1, IdleNext
  <2>4. \A f : f \in files_by_name_ => Safe(f)
    BY <2>3, QuietAnswers DEF entries, after
  <2> QED
    BY <1>3, <1>5, <1>7, <1>8, <2>1, <2>2, <2>4, BuildAnswers
<1>10. CASE n # 1
  <2>1. builders' # << >> /\ builders'[1].file = builders[1].file
    BY <1>2, <1>3, <1>4, <1>10, EmptySeq
  <2> QED
    BY <1>3, <1>5, <1>7, <1>8, <2>1, BuildAnswers
<1> QED
  BY <1>9, <1>10

-----------------------------------------------------------------------------
(* The answers: the steps before the file is added. *)

(* A file that is found pending imports itself, directly or not.             *)
LEMMA PendingFails ==
  ASSUME IInv, AnswersOK, WellKept, builders # << >>, Top.at = "enter",
         Top.file \in ToSet(pending_files_)
  PROVE  Top.file \notin Buildable
<1>1. SUFFICES ASSUME Top.file \in Buildable PROVE FALSE
  OBVIOUS
<1>2. PICK n : n = Len(builders)
  OBVIOUS
<1>3. n \in Nat \ {0} /\ DOMAIN builders = 1..n /\ Top = builders[n]
  BY <1>2, TopFacts DEF IInv
<1>4. PICK i \in AtWork(builders, {"imports"}) : builders[i].file = Top.file
  BY DEF IInv, StackOK, StackFine, InOrder, ToSet
<1>5. i \in 1..n /\ builders[i].at = "imports" /\ i < n
  <2>1. i \in 1..n /\ builders[i].at = "imports"
    BY <1>3 DEF AtWork
  <2> QED
    BY <1>3, <2>1
<1>6. db.mode = DATABASE
  BY <1>4 DEF IInv, StackOK, StackFine
<1> DEFINE C == {builders[j].file : j \in i..n}
<1>7. ASSUME NEW j \in i..n, j < n
      PROVE  builders[j].at = "imports" /\ builders[j + 1].file \in db.imports[builders[j].file] \cap C
  <2>1. j \in DOMAIN builders /\ j + 1 \in i..n /\ i \in DOMAIN builders /\ n \in DOMAIN builders
    BY <1>3, <1>5, <1>7
  <2>2. builders[j].file \in Buildable
    <3>1. CASE j = i
      BY <1>1, <1>4, <3>1
    <3>2. CASE j # i
      <4>1. i < j
        BY <1>5, <3>2
      <4> QED
        BY <1>1, <1>4, <1>6, <2>1, <4>1 DEF AnswersOK, WaitsIn
    <3> QED
      BY <3>1, <3>2
  <2>3. builders[j].at = "imports"
    BY <1>6, <1>7, <2>1, <2>2 DEF AnswersOK, WaitsIn
  <2>4. builders[j + 1].file \in db.imports[builders[j].file]
    BY <1>2, <1>7, <2>1, <2>3 DEF AnswersOK, WaitsIn, WaitsFor
  <2> QED
    BY <2>1, <2>3, <2>4
<1>8. ASSUME NEW g \in C PROVE db.imports[g] \cap C # {}
  <2>1. PICK j \in i..n : g = builders[j].file
    OBVIOUS
  <2>2. CASE j < n
    BY <1>7, <2>1, <2>2
  <2>3. CASE j = n
    <3>1. i \in i..n /\ g = builders[i].file
      BY <1>3, <1>4, <1>5, <2>1, <2>3
    <3> QED
      BY <1>5, <1>7, <3>1
  <2> QED
    BY <1>3, <1>5, <2>2, <2>3
<1>9. C \cap Buildable = {}
  BY <1>8, NoCycle
<1>10. Top.file \in C
  BY <1>3, <1>4, <1>5
<1> QED
  BY <1>1, <1>9, <1>10

(* A builder that starts.                                                   *)
LEMMA EnterAnswers ==
  ASSUME IInv, IInv', WellKept, AnswersOK, Enter
  PROVE  AnswersOK'
<1>1. /\ builders # << >> /\ Top.at = "enter"
      /\ UNCHANGED <<db, entries, after, checkpoints_, finished_building_, extensions_loaded_from_db_>>
  BY DEF Enter, At, tables, links
<1>2. PICK f : f = Top.file
  OBVIOUS
<1>3. /\ builders \in Seq(BuilderRecord) /\ Top \in BuilderRecord /\ f \in File
      /\ Top = Last(builders) /\ NULL \notin File
  BY <1>1, <1>2, TopFacts, DatabaseFacts DEF IInv, Top
<1>4. CASE f \in files_by_name_ /\ call.op # "BuildOther"
  <2>1. Return(f)
    BY <1>2, <1>4 DEF Enter
  <2> QED
    BY <1>1, <1>2, <1>3, <1>4, <2>1, ReturnAnswers
<1>5. CASE ~ (f \in files_by_name_ /\ call.op # "BuildOther") /\ f \in ToSet(pending_files_)
  <2>1. Return(NULL)
    BY <1>2, <1>5 DEF Enter
  <2>2. Top.file \notin Buildable
    BY <1>1, <1>2, <1>5, PendingFails
  <2> QED
    BY <1>1, <2>1, <2>2, ReturnAnswers
<1>6. ASSUME ~ (f \in files_by_name_ /\ call.op # "BuildOther"), f \notin ToSet(pending_files_)
      PROVE  AnswersOK'
  <2>1. UNCHANGED <<bad, call>>
    BY <1>2, <1>6 DEF Enter, user
  <2>2. f \notin files_by_name_
    <3>1. call # NULL
      BY <1>1 DEF IInv, CallOK
    <3> QED
      BY <3>1, <1>6 DEF IInv, CallOK, WellKept
  <2>3. BadRight'
    BY <1>1, <2>1, DatabaseSame DEF AnswersOK, BadRight, bad
  <2>4. CASE db.mode = DATABASE
    <3>1. builders' = SetTop([Goes("imports") EXCEPT !.left = db.imports[f]])
      BY <1>2, <1>6, <2>4 DEF Enter
    <3>2. PICK c : c = Goes("imports")
      OBVIOUS
    <3>3. PICK b : b = [c EXCEPT !.left = db.imports[f]]
      OBVIOUS
    <3>4. c \in BuilderRecord /\ c.at = "imports" /\ c.file = Top.file /\ c.errors = Top.errors
      BY <1>1, <3>2, TopFacts DEF IInv, Labels
    <3>5. db.imports[f] \in SUBSET File
      BY <1>3, DatabaseFacts DEF IInv
    <3>6. /\ b \in BuilderRecord /\ b.at = "imports" /\ b.file = f /\ b.errors = Top.errors
          /\ b.left = db.imports[f]
      BY <3>3, <3>4, <3>5, <1>2 DEF BuilderRecord
    <3>7. builders' = SetLast(builders, b)
      BY <1>1, <3>1, <3>2, <3>3, TopFacts DEF IInv
    <3>8. Finds(Top, Above(builders, Len(builders)))
      BY <1>1, <2>4, TopFacts DEF IInv, AnswersOK, FindsIn
    <3>9. Finds(b, {})
      BY <1>2, <2>2, <3>6, <3>8 DEF Finds, FindsNoError, FindsErrors, Recorded
    <3> QED
      BY <1>1, <1>2, <2>1, <2>3, <3>6, <3>7, <3>9, AdvanceAnswers
  <2>5. CASE db.mode # DATABASE
    <3>1. builders' = SetTop(Goes("add"))
      BY <1>2, <1>6, <2>5 DEF Enter
    <3>2. PICK b : b = Goes("add")
      OBVIOUS
    <3>3. b \in BuilderRecord /\ b.file = Top.file /\ builders' = SetLast(builders, b)
      BY <1>1, <3>1, <3>2, TopFacts DEF IInv, Labels
    <3> QED
      BY <1>1, <2>1, <2>3, <2>5, <3>3, AdvanceAnswers
  <2> QED
    BY <2>4, <2>5
<1> QED
  BY <1>4, <1>5, <1>6

(* The innermost builder waits for none.                                     *)
LEMMA TopFinds ==
  ASSUME IInv, AnswersOK, builders # << >>, db.mode = DATABASE
  PROVE  Finds(Top, {})
<1>1. PICK n : n = Len(builders)
  OBVIOUS
<1>2. n \in DOMAIN builders /\ Top = builders[n] /\ n \in Nat
  BY <1>1, TopFacts DEF IInv
<1>3. Above(builders, n) = {}
  BY <1>1, <1>2 DEF Above
<1> QED
  BY <1>2, <1>3 DEF AnswersOK, FindsIn

(* The next import is there, or is built now, or cannot be.                  *)
LEMMA LoadImportAnswers ==
  ASSUME IInv, WellKept, AnswersOK, LoadImport
  PROVE  AnswersOK'
<1>1. /\ builders # << >> /\ Top.at = "imports"
      /\ UNCHANGED <<db, entries, after, checkpoints_, finished_building_, extensions_loaded_from_db_, call>>
  BY DEF LoadImport, At, tables, links, user
<1>2. PICK f \in Top.left :
        LET stack == SetTop([Top EXCEPT !.left = @ \ {f}]) IN
        IF f \in files_by_name_ THEN builders' = stack /\ UNCHANGED bad ELSE TryFile(f, stack)
  BY DEF LoadImport
<1>3. PICK b : b = [Top EXCEPT !.left = @ \ {f}]
  OBVIOUS
<1>4. /\ Top \in BuilderRecord /\ f \in File
      /\ b \in BuilderRecord /\ b.file = Top.file /\ b.at = "imports" /\ b.errors = Top.errors
      /\ b.left = Top.left \ {f}
  <2>1. Top \in BuilderRecord
    BY <1>1, TopFacts DEF IInv
  <2> QED
    BY <2>1, <1>1, <1>2, <1>3 DEF BuilderRecord
<1>5. SetTop(b) = SetLast(builders, b)
  BY <1>1, TopFacts DEF IInv
<1>6. db.mode = DATABASE
  <2>1. Len(builders) \in AtWork(builders, {"imports"})
    BY <1>1, TopFacts DEF IInv, AtWork
  <2> QED
    BY <2>1 DEF IInv, StackOK, StackFine
<1>7. Finds(Top, {})
  BY <1>1, <1>6, TopFinds
<1>8. f \in db.imports[b.file] /\ b.left \subseteq db.imports[b.file]
  BY <1>1, <1>2, <1>4, <1>7 DEF Finds
<1>9. FindsErrors(b) /\ b.file \notin files_by_name_
  BY <1>1, <1>4, <1>7 DEF Finds, FindsErrors, Recorded
<1>10. ASSUME NEW above, b.file \in Buildable => f \in files_by_name_ \cup above PROVE Finds(b, above)
  BY <1>1, <1>4, <1>7, <1>8, <1>9, <1>10 DEF Finds, FindsNoError
<1>11. CASE f \in files_by_name_
  <2>1. builders' = SetLast(builders, b) /\ UNCHANGED bad
    BY <1>2, <1>3, <1>5, <1>11
  <2>2. BadRight'
    BY <1>1, <2>1, DatabaseSame DEF AnswersOK, BadRight, bad
  <2> QED
    BY <1>1, <1>4, <1>10, <1>11, <2>1, <2>2, AdvanceAnswers
<1>12. CASE f \notin files_by_name_
  <2>1. TryFile(f, SetLast(builders, b))
    BY <1>2, <1>3, <1>5, <1>12
  <2>2. /\ BadRight'
        /\ \/ builders' = SetLast(builders, b) /\ f \notin Buildable
           \/ builders' = Append(SetLast(builders, b), Builder(f)) /\ f \in db.protos
    BY <1>1, <1>4, <2>1, TryFileFinds
  <2>3. b.file \in Buildable => f \in Buildable
    BY <1>8, BuildableFacts
  <2>4. CASE builders' = SetLast(builders, b) /\ f \notin Buildable
    BY <1>1, <1>4, <1>10, <2>2, <2>3, <2>4, AdvanceAnswers
  <2>5. CASE builders' = Append(SetLast(builders, b), Builder(f)) /\ f \in db.protos
    <3>1. Finds(b, {f})
      BY <1>10
    <3>2. WaitsFor(b, f)
      BY <1>4, <1>8 DEF WaitsFor
    <3> QED
      BY <1>1, <1>4, <2>2, <2>3, <2>5, <3>1, <3>2, SeekAnswers
  <2> QED
    BY <2>2, <2>4, <2>5
<1> QED
  BY <1>11, <1>12

(* All imports that can be built are there.                                  *)
LEMMA ImportsLoadedAnswers ==
  ASSUME IInv, WellKept, AnswersOK, ImportsLoaded
  PROVE  AnswersOK'
<1>1. /\ builders # << >> /\ Top.at = "imports" /\ Top.left = {} /\ builders' = SetTop(Goes("add"))
      /\ UNCHANGED <<db, entries, after, checkpoints_, finished_building_, extensions_loaded_from_db_, bad, call>>
  BY DEF ImportsLoaded, At, tables, links, user
<1>2. PICK b : b = Goes("add")
  OBVIOUS
<1>3. /\ b \in BuilderRecord /\ b.file = Top.file /\ b.at = "add" /\ b.errors = Top.errors
      /\ builders' = SetLast(builders, b)
  BY <1>1, <1>2, TopFacts DEF IInv, Labels
<1>4. db.mode = DATABASE => Finds(b, {})
  BY <1>1, <1>3, TopFinds DEF Finds, FindsNoError, FindsErrors, Recorded
<1>5. BadRight'
  BY <1>1, DatabaseSame DEF AnswersOK, BadRight, bad
<1> QED
  BY <1>1, <1>3, <1>4, <1>5, AdvanceAnswers

(* A file that can be built does not import itself, and is not in the tables. *)
LEMMA AbandonAnswers ==
  ASSUME IInv, IInv', WellKept, AnswersOK, Abandon
  PROVE  AnswersOK'
<1>1. /\ builders # << >> /\ Top.at = "add" /\ Hopeless(Top.file) /\ Return(NULL)
      /\ UNCHANGED <<db, entries, after, checkpoints_, finished_building_, extensions_loaded_from_db_>>
  BY DEF Abandon, At, tables, links
<1>2. Top.file \notin files_by_name_
  <2>1. CASE db.mode = DATABASE
    BY <1>1, <2>1, TopFinds DEF Finds
  <2>2. CASE db.mode = LAZY
    BY <1>1, <2>2, TopFacts DEF IInv, LazyOK, LazyStack, LazyAt
  <2> QED
    BY <2>1, <2>2, DatabaseFacts DEF IInv, WellKept
<1>3. Top.file \notin Buildable
  BY <1>1, <1>2, BuildableFacts DEF Hopeless
<1> QED
  BY <1>1, <1>3, ReturnAnswers

-----------------------------------------------------------------------------
(* The answers: linking. *)

(* The innermost builder, once its file is added: what it uses is found if   *)
(* the file can be built.                                                   *)
LEMMA TopUses ==
  ASSUME IInv, AnswersOK, WellKept, builders # << >>, Top.at \in Recorded, db.mode = DATABASE,
         Top.file \in Buildable, NEW s, s # NULL, May(Top.file, s)
  PROVE  symbols_by_name_[s] # NULL /\ MayUse(Top.file, s)
BY TopOpened, UseIsFound DEF MayUse

(* The type of the field is in the tables, or left for later, or sought.     *)
LEMMA LinkTypeAnswers ==
  ASSUME IInv, WellKept, AnswersOK, LinkType
  PROVE  AnswersOK'
<1>1. /\ builders # << >> /\ Top.at = "type" /\ Top.at \in Recorded
      /\ UNCHANGED <<db, entries, after, checkpoints_, finished_building_, extensions_loaded_from_db_, call>>
  BY DEF LinkType, At, user, Recorded
<1>2. PICK s : s = db.type[Top.file]
  OBVIOUS
<1>3. Top.file \in File /\ s \in File \cup {NULL} /\ File \subseteq Symbol
  BY <1>1, <1>2, TopFacts, DatabaseFacts DEF IInv
<1>4. PICK e, t : e = Goes("extendee") /\ t = Goes("typed")
  OBVIOUS
<1>5. /\ e \in BuilderRecord /\ e.file = Top.file /\ e.at = "extendee" /\ e.errors = Top.errors
      /\ t \in BuilderRecord /\ t.file = Top.file /\ t.at = "typed" /\ t.errors = Top.errors
      /\ SetTop(e) = SetLast(builders, e) /\ SetTop(t) = SetLast(builders, t)
  BY <1>1, <1>4, TopFacts DEF IInv, Labels
<1>6. ASSUME db.mode = DATABASE PROVE Finds(t, {}) /\ (s = NULL => Finds(e, {}))
  <2>1. Finds(Top, {})
    BY <1>1, <1>6, TopFinds
  <2> QED
    BY <1>1, <1>2, <1>5, <2>1 DEF Finds, FindsNoError, FindsErrors, Recorded, May
<1>7. UNCHANGED bad => BadRight'
  BY <1>1, DatabaseSame DEF AnswersOK, BadRight, bad
<1>8. CASE s = NULL /\ builders' = SetTop(e) /\ UNCHANGED bad
  BY <1>1, <1>5, <1>6, <1>7, <1>8, AdvanceAnswers
<1>9. CASE builders' = SetTop(t) /\ UNCHANGED bad
  BY <1>1, <1>5, <1>6, <1>7, <1>9, AdvanceAnswers
<1>10. CASE db.mode = LAZY /\ builders' = SetTop(e) /\ UNCHANGED bad
  <2>1. db.mode # DATABASE
    BY <1>10 DEF LAZY, DATABASE
  <2> QED
    BY <1>1, <1>5, <1>7, <1>10, <2>1, AdvanceAnswers
<1>11. CASE s # NULL /\ symbols_by_name_[s] = NULL /\ db.mode # LAZY /\ TrySymbol(s, SetTop(t))
  <2>1. s \in File /\ s \in Symbol /\ db.mode = DATABASE
    BY <1>3, <1>11, DatabaseFacts DEF IInv, WellKept
  <2>2. TrySymbol(s, SetLast(builders, t))
    BY <1>5, <1>11
  <2>3. /\ BadRight'
        /\ \/ builders' = SetLast(builders, t)
           \/ /\ builders' = Append(SetLast(builders, t), Builder(db.index[s]))
              /\ db.index[s] \in db.protos
    BY <1>1, <1>11, <2>1, <2>2, TrySymbolFinds
  <2>4. CASE builders' = SetLast(builders, t)
    BY <1>1, <1>5, <1>6, <2>3, <2>4, AdvanceAnswers
  <2>5. CASE /\ builders' = Append(SetLast(builders, t), Builder(db.index[s]))
             /\ db.index[s] \in db.protos
    <3>1. WaitsFor(t, db.index[s])
      BY <1>2, <1>5 DEF WaitsFor
    <3>2. Top.file \notin Buildable
      BY <1>1, <1>2, <1>11, <2>1, TopUses, BuildableFacts
    <3>3. Finds(t, {db.index[s]})
      BY <1>5, <1>6, <2>1 DEF Finds, FindsNoError
    <3>4. db.index[s] \in File
      BY <2>5, DatabaseFacts DEF IInv
    <3> QED
      BY <1>1, <1>5, <2>3, <2>5, <3>1, <3>2, <3>3, <3>4, SeekAnswers
  <2> QED
    BY <2>3, <2>4, <2>5
<1>12. \/ s = NULL /\ builders' = SetTop(e) /\ UNCHANGED bad
       \/ builders' = SetTop(t) /\ UNCHANGED bad
       \/ db.mode = LAZY /\ builders' = SetTop(e) /\ UNCHANGED bad
       \/ s # NULL /\ symbols_by_name_[s] = NULL /\ db.mode # LAZY /\ TrySymbol(s, SetTop(t))
  BY <1>2, <1>4 DEF LinkType
<1> QED
  BY <1>8, <1>9, <1>10, <1>11, <1>12

(* It is found in a file the builder's may use, or is an error.              *)
LEMMA SetTypeAnswers ==
  ASSUME IInv, WellKept, AnswersOK, SetType
  PROVE  AnswersOK'
<1>1. /\ builders # << >> /\ Top.at = "typed" /\ Top.at \in Recorded
      /\ UNCHANGED <<db, entries, after, checkpoints_, finished_building_, extensions_loaded_from_db_, bad, call>>
  BY DEF SetType, At, user, Recorded
<1>2. PICK s : s = db.type[Top.file]
  OBVIOUS
<1>3. BuilderOK(Top)
  BY <1>1, TopFacts DEF IInv, TablesOK, BuildersOK, BuildersFine
<1>4. s # NULL /\ s \in Symbol
  <2>1. s # NULL
    BY <1>1, <1>2, <1>3 DEF BuilderOK
  <2> QED
    BY <1>1, <1>2, <2>1, TopFacts, DatabaseFacts DEF IInv
<1>5. BadRight'
  BY <1>1, DatabaseSame DEF AnswersOK, BadRight, bad
<1>6. CASE MayUse(Top.file, s)
  <2>1. PICK b : b = Goes("extendee")
    OBVIOUS
  <2>2. b \in BuilderRecord /\ b.file = Top.file /\ b.at = "extendee" /\ b.errors = Top.errors
    BY <1>1, <2>1, TopFacts DEF IInv, Labels
  <2>3. builders' = SetLast(builders, b)
    BY <1>1, <1>2, <1>6, <2>1, TopFacts DEF IInv, SetType
  <2>4. ASSUME db.mode = DATABASE PROVE Finds(b, {})
    <3>1. Finds(Top, {})
      BY <1>1, <2>4, TopFinds
    <3>2. symbols_by_name_[s] = s
      BY <1>4, <1>6, NameIsFile DEF MayUse
    <3>3. May(Top.file, s)
      BY <1>6, <2>4, <3>2 DEF MayUse, May, DATABASE, LAZY
    <3> QED
      BY <1>1, <1>2, <2>2, <3>1, <3>3 DEF Finds, FindsNoError, FindsErrors, Recorded
  <2> QED
    BY <1>1, <1>5, <2>2, <2>3, <2>4, AdvanceAnswers
<1>7. CASE ~ MayUse(Top.file, s)
  <2>1. PICK b : b = Errs("extendee")
    OBVIOUS
  <2>2. b \in BuilderRecord /\ b.file = Top.file /\ b.at = "extendee" /\ b.errors
    BY <1>1, <2>1, TopFacts DEF IInv, Labels
  <2>3. builders' = SetLast(builders, b)
    BY <1>1, <1>2, <1>7, <2>1, TopFacts DEF IInv, SetType
  <2>4. ASSUME db.mode = DATABASE PROVE Finds(b, {})
    <3>1. Top.file \notin Buildable
      BY <1>1, <1>2, <1>4, <1>7, <2>4, TopUses, BuildableFacts
    <3> QED
      BY <2>2, <3>1 DEF Finds, FindsNoError, FindsErrors
  <2> QED
    BY <1>1, <1>5, <2>2, <2>3, <2>4, AdvanceAnswers
<1> QED
  BY <1>6, <1>7

(* The extendee is in the tables, or sought.                                 *)
LEMMA LinkExtendeeAnswers ==
  ASSUME IInv, WellKept, AnswersOK, LinkExtendee
  PROVE  AnswersOK'
<1>1. /\ builders # << >> /\ Top.at = "extendee" /\ Top.at \in Recorded
      /\ UNCHANGED <<db, entries, after, checkpoints_, finished_building_, extensions_loaded_from_db_, call>>
  BY DEF LinkExtendee, At, user, Recorded, tables, links
<1>2. PICK s : s = db.extendee[Top.file]
  OBVIOUS
<1>3. Top.file \in File /\ s \in File \cup {NULL} /\ File \subseteq Symbol
  BY <1>1, <1>2, TopFacts, DatabaseFacts DEF IInv
<1>4. PICK e, t : e = Goes("finish") /\ t = Goes("extended")
  OBVIOUS
<1>5. /\ e \in BuilderRecord /\ e.file = Top.file /\ e.at = "finish" /\ e.errors = Top.errors
      /\ t \in BuilderRecord /\ t.file = Top.file /\ t.at = "extended" /\ t.errors = Top.errors
      /\ SetTop(e) = SetLast(builders, e) /\ SetTop(t) = SetLast(builders, t)
  BY <1>1, <1>4, TopFacts DEF IInv, Labels
<1>6. ASSUME db.mode = DATABASE PROVE Finds(t, {}) /\ (s = NULL => Finds(e, {}))
  <2>1. Finds(Top, {})
    BY <1>1, <1>6, TopFinds
  <2> QED
    BY <1>1, <1>2, <1>5, <2>1 DEF Finds, FindsNoError, FindsErrors, Recorded, May
<1>7. UNCHANGED bad => BadRight'
  BY <1>1, DatabaseSame DEF AnswersOK, BadRight, bad
<1>8. CASE s = NULL /\ builders' = SetTop(e) /\ UNCHANGED bad
  BY <1>1, <1>5, <1>6, <1>7, <1>8, AdvanceAnswers
<1>9. CASE builders' = SetTop(t) /\ UNCHANGED bad
  BY <1>1, <1>5, <1>6, <1>7, <1>9, AdvanceAnswers
<1>10. CASE s # NULL /\ symbols_by_name_[s] = NULL /\ TrySymbol(s, SetTop(t))
  <2>1. s \in File /\ s \in Symbol
    BY <1>3, <1>10
  <2>2. TrySymbol(s, SetLast(builders, t))
    BY <1>5, <1>10
  <2>3. /\ BadRight'
        /\ \/ builders' = SetLast(builders, t)
           \/ /\ builders' = Append(SetLast(builders, t), Builder(db.index[s]))
              /\ db.index[s] \in db.protos
    BY <1>1, <1>10, <2>1, <2>2, TrySymbolFinds
  <2>4. CASE builders' = SetLast(builders, t)
    BY <1>1, <1>5, <1>6, <2>3, <2>4, AdvanceAnswers
  <2>5. CASE /\ builders' = Append(SetLast(builders, t), Builder(db.index[s]))
             /\ db.index[s] \in db.protos
    <3>1. WaitsFor(t, db.index[s])
      BY <1>2, <1>5 DEF WaitsFor
    <3>2. db.mode = DATABASE => Top.file \notin Buildable
      BY <1>1, <1>2, <1>10, TopUses, BuildableFacts
    <3>3. db.mode = DATABASE => Finds(t, {db.index[s]})
      BY <1>5, <1>6 DEF Finds, FindsNoError
    <3>4. db.index[s] \in File
      BY <2>5, DatabaseFacts DEF IInv
    <3> QED
      BY <1>1, <1>5, <2>3, <2>5, <3>1, <3>2, <3>3, <3>4, SeekAnswers
  <2> QED
    BY <2>3, <2>4, <2>5
<1>11. \/ s = NULL /\ builders' = SetTop(e) /\ UNCHANGED bad
       \/ builders' = SetTop(t) /\ UNCHANGED bad
       \/ s # NULL /\ symbols_by_name_[s] = NULL /\ TrySymbol(s, SetTop(t))
  BY <1>2, <1>4 DEF LinkExtendee
<1> QED
  BY <1>8, <1>9, <1>10, <1>11

(* The extension is recorded as one of what it extends.                      *)
LEMMA AddExtensionAnswers ==
  ASSUME IInv, WellKept, AnswersOK, AddExtension
  PROVE  AnswersOK'
<1>1. /\ builders # << >> /\ Top.at = "extended" /\ Top.at \in Recorded
      /\ UNCHANGED <<db, files_by_name_, files_after_checkpoint_, checkpoints_, finished_building_,
                     extensions_loaded_from_db_, bad, call>>
  BY DEF AddExtension, At, user, Recorded, links
<1>2. PICK s : s = db.extendee[Top.file]
  OBVIOUS
<1>3. BuilderOK(Top)
  BY <1>1, TopFacts DEF IInv, TablesOK, BuildersOK, BuildersFine
<1>4. s # NULL /\ s \in Symbol
  <2>1. s # NULL
    BY <1>1, <1>2, <1>3 DEF BuilderOK
  <2> QED
    BY <1>1, <1>2, <2>1, TopFacts, DatabaseFacts DEF IInv
<1>5. BadRight'
  BY <1>1, DatabaseSame DEF AnswersOK, BadRight, bad
<1>6. ASSUME NEW b \in BuilderRecord, b.file = Top.file, builders' = SetLast(builders, b),
             db.mode = DATABASE => Finds(b, {}),
             extensions_' = extensions_ \/ extensions_' = extensions_ \cup {<<s, Top.file>>}
      PROVE  AnswersOK'
  <2>1. builders \in Seq(BuilderRecord) /\ Last(builders) = Top
    BY <1>1, TopFacts DEF IInv, Top
  <2>2. WaitsIn(SetLast(builders, b)) /\ FindsIn(SetLast(builders, b))
    BY <1>1, <1>6, <2>1, WaitsSet, FindsSet DEF AnswersOK
  <2>3. SetLast(builders, b) # << >> /\ SetLast(builders, b)[1].file = builders[1].file
    BY <1>1, <1>6, <2>1, SetLastFacts, FirstSame
  <2>4. /\ Grounded' /\ Loaded' /\ WaitsIn(builders)' /\ FindsIn(builders)'
        /\ \A g : Safe(g)' = Safe(g)
    BY <1>1, <1>6, <2>2, QuietAnswers DEF AnswersOK
  <2>5. Answering'
    BY <1>1, <1>6, <2>3, <2>4, AnsweringGoesOn
  <2>6. KeysRight'
    <3>1. \A key \in extensions_ : key[1] = db.extendee[key[2]]
      BY DEF AnswersOK, KeysRight
    <3>2. <<s, Top.file>>[1] = db.extendee[<<s, Top.file>>[2]]
      BY <1>2
    <3> QED
      BY <1>1, <1>6, <3>1, <3>2 DEF KeysRight
  <2> QED
    BY <1>5, <2>4, <2>5, <2>6 DEF AnswersOK
<1>7. CASE MayUse(Top.file, s)
  <2>1. PICK b : b = Goes("finish")
    OBVIOUS
  <2>2. b \in BuilderRecord /\ b.file = Top.file /\ b.at = "finish" /\ b.errors = Top.errors
    BY <1>1, <2>1, TopFacts DEF IInv, Labels
  <2>3. SetTop(b) = SetLast(builders, b)
    BY <1>1, TopFacts DEF IInv
  <2>4. builders' = SetLast(builders, b) /\ extensions_' = extensions_ \cup {<<s, Top.file>>}
    BY <1>2, <1>7, <2>1, <2>3 DEF AddExtension
  <2>5. ASSUME db.mode = DATABASE PROVE Finds(b, {})
    <3>1. Finds(Top, {})
      BY <1>1, <2>5, TopFinds
    <3>2. symbols_by_name_[s] = s
      BY <1>4, <1>7, NameIsFile DEF MayUse
    <3>3. May(Top.file, s)
      BY <1>7, <2>5, <3>2 DEF MayUse, May, DATABASE, LAZY
    <3> QED
      BY <1>1, <1>2, <2>2, <3>1, <3>3 DEF Finds, FindsNoError, FindsErrors, Recorded
  <2> QED
    BY <1>6, <2>2, <2>4, <2>5
<1>8. CASE ~ MayUse(Top.file, s)
  <2>1. PICK b : b = Errs("finish")
    OBVIOUS
  <2>2. b \in BuilderRecord /\ b.file = Top.file /\ b.at = "finish" /\ b.errors
    BY <1>1, <2>1, TopFacts DEF IInv, Labels
  <2>3. SetTop(b) = SetLast(builders, b)
    BY <1>1, TopFacts DEF IInv
  <2>4. builders' = SetLast(builders, b) /\ extensions_' = extensions_
    BY <1>2, <1>8, <2>1, <2>3 DEF AddExtension
  <2>5. ASSUME db.mode = DATABASE PROVE Finds(b, {})
    <3>1. Top.file \notin Buildable
      BY <1>1, <1>2, <1>4, <1>8, <2>5, TopUses, BuildableFacts
    <3> QED
      BY <2>2, <3>1 DEF Finds, FindsNoError, FindsErrors
  <2> QED
    BY <1>6, <2>2, <2>4, <2>5
<1> QED
  BY <1>7, <1>8

-----------------------------------------------------------------------------
(* The answers: the file is added. *)

(* The tables of files after Add, and as rollbacks may leave them.           *)
LEMMA AddTables ==
  ASSUME IInv, Add, NEW f, f = Top.file, NEW N, N = Len(checkpoints_)
  PROVE  /\ f \in File /\ f \notin files_by_name_ /\ files_by_name_' = files_by_name_ \cup {f}
         /\ N \in Nat /\ DOMAIN checkpoints_ = 1..N /\ DOMAIN checkpoints_' = 1..(N + 1)
         /\ \A k \in 1..N : Kept(k)' = Kept(k) /\ Opened'[k] = Opened[k] /\ Opened[k] # f
         /\ Kept(N + 1)' = files_by_name_ /\ Opened'[N + 1] = f
         /\ ToSet(files_after_checkpoint_') = ToSet(files_after_checkpoint_) \cup {f}
<1>1. /\ builders # << >> /\ ~ Hopeless(f)
      /\ checkpoints_' = Append(checkpoints_, Checkpoint)
      /\ files_by_name_' = files_by_name_ \cup {f}
      /\ files_after_checkpoint_' = Append(files_after_checkpoint_, f)
  BY DEF Add, At
<1>2. f \in File /\ f \notin files_by_name_
  BY <1>1, TopFacts DEF IInv, Hopeless
<1>3. PICK F, S, E : /\ F = files_after_checkpoint_ /\ S = symbols_after_checkpoint_
                     /\ E = extensions_after_checkpoint_
  OBVIOUS
<1>4. /\ F \in Seq(File) /\ S \in Seq(Symbol) /\ E \in Seq(File \X File)
      /\ Len(F) \in Nat /\ Len(S) \in Nat /\ Len(E) \in Nat /\ DOMAIN F = 1..Len(F)
      /\ ToSet(F) \subseteq files_by_name_
  BY <1>3, AfterFacts DEF IInv, Typed, TablesTyped
<1>5. PICK G, C : G = Append(F, f) /\ C = Checkpoint
  OBVIOUS
<1>6. C \in CheckpointRecord /\ C.files = Len(F)
  BY <1>3, <1>4, <1>5 DEF Checkpoint, CheckpointRecord
<1>7. /\ G \in Seq(File) /\ Len(G) = Len(F) + 1 /\ DOMAIN G = 1..(Len(F) + 1)
      /\ \A m \in 0..Len(F) : Since(G, m) = Since(F, m) \cup {f}
      /\ \A i \in DOMAIN F : G[i] = F[i]
      /\ G[Len(F) + 1] = f
  BY <1>2, <1>4, <1>5, SinceAppend
<1>8. PICK P, Q : P = checkpoints_ /\ Q = Append(P, C)
  OBVIOUS
<1>9. /\ Q = checkpoints_' /\ N \in Nat /\ DOMAIN P = 1..N /\ DOMAIN Q = 1..(N + 1)
      /\ Q[N + 1] = C /\ \A k \in 1..N : Q[k] = P[k]
  <2>1. P \in Seq(CheckpointRecord) /\ N = Len(P)
    BY <1>8 DEF IInv, Typed, TablesTyped
  <2>2. Q = checkpoints_'
    BY <1>1, <1>5, <1>8
  <2>3. DOMAIN P = 1..N
    BY <2>1
  <2> QED
    BY <2>1, <2>2, <2>3, <1>6, <1>8, SinceAppend
<1>10. ASSUME NEW k \in 1..N
       PROVE  Kept(k)' = Kept(k) /\ Opened'[k] = Opened[k] /\ Opened[k] # f
  <2>1. P[k].files \in 0..Len(F) /\ P[k].files + 1 \in DOMAIN F /\ k \in DOMAIN P /\ k \in DOMAIN Q
    BY <1>3, <1>8, <1>9, LevelFacts DEF IInv
  <2>2. Since(G, Q[k].files) = Since(F, P[k].files) \cup {f}
    BY <1>7, <1>9, <2>1
  <2>3. FilesSince(k)' = FilesSince(k) \cup {f}
    BY <1>1, <1>3, <1>5, <1>8, <1>9, <2>2 DEF FilesSince
  <2>4. Kept(k)' = Kept(k)
    BY <1>1, <1>2, <2>3 DEF Kept
  <2>5. Opened[k] = F[P[k].files + 1]
    BY <1>3, <1>8, <2>1 DEF Opened
  <2>6. Opened'[k] = G[Q[k].files + 1]
    BY <1>1, <1>3, <1>5, <1>9, <2>1 DEF Opened
  <2>7. F[P[k].files + 1] \in ToSet(F)
    BY <2>1 DEF ToSet
  <2> QED
    BY <1>2, <1>4, <1>7, <1>9, <2>1, <2>4, <2>5, <2>6, <2>7
<1>11. Kept(N + 1)' = files_by_name_ /\ Opened'[N + 1] = f
  <2>1. N + 1 \in DOMAIN Q
    BY <1>9
  <2>2. Since(F, Len(F)) = {} /\ Len(F) \in 0..Len(F)
    BY <1>4, SinceBounds
  <2>3. Since(G, Q[N + 1].files) = {f}
    BY <1>6, <1>7, <1>9, <2>2
  <2>4. FilesSince(N + 1)' = {f}
    BY <1>1, <1>3, <1>5, <1>9, <2>3 DEF FilesSince
  <2>5. Opened'[N + 1] = G[Q[N + 1].files + 1]
    BY <1>1, <1>3, <1>5, <1>9, <2>1 DEF Opened
  <2> QED
    BY <1>1, <1>2, <1>6, <1>7, <1>9, <2>4, <2>5 DEF Kept
<1>12. ToSet(G) = ToSet(F) \cup {f}
  <2>1. \A i : i \in DOMAIN G <=> i \in DOMAIN F \/ i = Len(F) + 1
    BY <1>4, <1>7
  <2> QED
    BY <1>7, <2>1 DEF ToSet
<1>13. ToSet(files_after_checkpoint_') = ToSet(files_after_checkpoint_) \cup {f}
  BY <1>1, <1>3, <1>5, <1>12
<1>14. DOMAIN checkpoints_ = 1..N /\ DOMAIN checkpoints_' = 1..(N + 1)
  BY <1>8, <1>9
<1> QED
  BY <1>1, <1>2, <1>9, <1>10, <1>11, <1>13, <1>14

(* The tables are grounded when a file is added, since it is in none that a   *)
(* rollback leaves; and if it can be built, it has no error so far.           *)
LEMMA AddAnswers ==
  ASSUME IInv, WellKept, AnswersOK, Add
  PROVE  AnswersOK'
<1>1. /\ builders # << >> /\ Top.at = "add"
      /\ UNCHANGED <<db, extensions_, finished_building_, extensions_loaded_from_db_, bad, call>>
  BY DEF Add, At, user, links
<1>2. PICK f, N, n : f = Top.file /\ N = Len(checkpoints_) /\ n = Len(builders)
  OBVIOUS
<1>3. /\ f \in File /\ f \notin files_by_name_ /\ files_by_name_' = files_by_name_ \cup {f}
      /\ N \in Nat /\ DOMAIN checkpoints_ = 1..N /\ DOMAIN checkpoints_' = 1..(N + 1)
      /\ \A k \in 1..N : Kept(k)' = Kept(k) /\ Opened'[k] = Opened[k] /\ Opened[k] # f
      /\ Kept(N + 1)' = files_by_name_ /\ Opened'[N + 1] = f
      /\ ToSet(files_after_checkpoint_') = ToSet(files_after_checkpoint_) \cup {f}
  BY <1>2, AddTables
<1>4. PICK new : new = {s \in Defines(f) : symbols_by_name_[s] = NULL}
  OBVIOUS
<1>5. PICK e : e = (\/ new # Defines(f) \/ f \in db.invalid
                    \/ db.mode # LAZY /\ ~ db.imports[f] \subseteq files_by_name_)
  OBVIOUS
<1>6. PICK c : c = Goes("type")
  OBVIOUS
<1>7. PICK b : b = [c EXCEPT !.errors = e]
  OBVIOUS
<1>8. /\ b \in BuilderRecord /\ b.at = "type" /\ b.file = f /\ b.errors = e
      /\ builders' = SetLast(builders, b)
  <2>1. c \in BuilderRecord /\ c.at = "type" /\ c.file = f
    BY <1>1, <1>2, <1>6, TopFacts DEF IInv, Labels
  <2>2. e \in BOOLEAN
    BY <1>5
  <2>3. builders' = SetTop(b)
    BY <1>2, <1>4, <1>5, <1>6, <1>7 DEF Add
  <2>4. b \in BuilderRecord /\ b.at = "type" /\ b.file = f /\ b.errors = e
    BY <1>7, <2>1, <2>2 DEF BuilderRecord
  <2> QED
    BY <1>1, <2>3, <2>4, TopFacts DEF IInv
<1>9. /\ builders \in Seq(BuilderRecord) /\ Last(builders) = Top /\ DOMAIN builders = 1..n
      /\ n \in Nat \ {0} /\ builders[n] = Top
  BY <1>1, <1>2, TopFacts DEF IInv, Top
<1>10. /\ DOMAIN builders' = 1..n /\ Len(builders') = n /\ builders'[n] = b
       /\ \A i \in 1..n : i # n => builders'[i] = builders[i]
       /\ \A i \in 1..n : builders'[i].file = builders[i].file
  <2>1. /\ DOMAIN SetLast(builders, b) = DOMAIN builders /\ Len(SetLast(builders, b)) = n
        /\ SetLast(builders, b)[n] = b
        /\ \A i \in DOMAIN builders : i # n => SetLast(builders, b)[i] = builders[i]
    BY <1>1, <1>2, <1>8, <1>9, SetLastFacts
  <2> QED
    BY <2>1, <1>2, <1>8, <1>9
<1>11. /\ Buildable' = Buildable /\ \A G : ClosedUnder(G)' = ClosedUnder(G)
       /\ \A g, s : May(g, s)' = May(g, s)
  BY <1>1, DatabaseSame
<1>12. WaitsIn(builders)'
  <2>1. WaitsIn(SetLast(builders, b))
    BY <1>1, <1>2, <1>8, <1>9, WaitsSet DEF AnswersOK
  <2> QED
    BY <1>1, <1>8, <1>11, <2>1 DEF WaitsIn, WaitsFor
<1>13. ASSUME db.mode = DATABASE, NEW i \in 1..n, i # n
       PROVE  Finds(builders[i], Above(builders, i))'
  <2>1. i < n /\ i \in DOMAIN builders /\ n \in DOMAIN builders /\ i + 1 \in 1..n
    BY <1>9, <1>13
  <2>2. builders[i].file # f
    BY <1>1, <1>2, <1>9, <2>1 DEF IInv, StackOK, StackFine, Once
  <2>3. Finds(builders[i], Above(builders, i))
    BY <1>13, <2>1 DEF AnswersOK, FindsIn
  <2>4. builders'[i] = builders[i] /\ Above(builders, i)' = Above(builders, i)
    BY <1>2, <1>10, <1>13, <2>1 DEF Above
  <2>5. PICK d, above : d = builders[i] /\ above = Above(builders, i)
    OBVIOUS
  <2>6. d.file # f /\ Finds(d, above)
    BY <2>2, <2>3, <2>5
  <2>7. FindsNoError(d, above)'
    BY <1>1, <1>3, <1>11, <2>6 DEF Finds, FindsNoError
  <2>8. FindsErrors(d)'
    <3>1. ASSUME NEW k \in DOMAIN checkpoints_', Opened'[k] = d.file
          PROVE  k \in DOMAIN checkpoints_ /\ Opened[k] = d.file /\ Kept(k)' = Kept(k)
      <4>1. k # N + 1
        BY <1>3, <2>6, <3>1
      <4>2. k \in 1..N
        BY <1>3, <3>1, <4>1
      <4> QED
        BY <1>3, <3>1, <4>2
    <3> QED
      BY <1>1, <1>11, <2>6, <3>1 DEF Finds, FindsErrors
  <2>9. Finds(d, above)'
    BY <1>1, <1>3, <2>6, <2>7, <2>8 DEF Finds
  <2> QED
    BY <2>4, <2>5, <2>9
<1>14. ASSUME db.mode = DATABASE PROVE Finds(b, {})'
  <2>1. Finds(Top, {})
    BY <1>1, <1>14, TopFinds
  <2>2. ASSUME f \in Buildable PROVE ~ e
    <3>1. Defines(f) = {f} /\ f \in Symbol
      BY <1>3, DatabaseFacts DEF IInv, Defines, WellKept
    <3>2. symbols_by_name_[f] = NULL
      BY <1>3, <3>1, NameIsFile
    <3>3. new = Defines(f)
      BY <1>4, <3>1, <3>2
    <3>4. db.imports[f] \subseteq files_by_name_
      BY <1>1, <1>2, <2>1, <2>2 DEF Finds, FindsNoError
    <3>5. f \notin db.invalid
      BY <2>2, BuildableFacts
    <3> QED
      BY <1>5, <3>3, <3>4, <3>5
  <2>3. FindsNoError(b, {})'
    BY <1>8, <1>11, <2>2 DEF FindsNoError
  <2>4. ASSUME ~ e PROVE f \notin db.invalid /\ db.imports[f] \subseteq files_by_name_
    BY <1>5, <1>14, <2>4 DEF DATABASE, LAZY
  <2>5. ASSUME NEW k \in DOMAIN checkpoints_', Opened'[k] = f PROVE Kept(k)' = files_by_name_
    <3>1. k \notin 1..N
      BY <1>3, <2>5
    <3>2. k = N + 1
      BY <1>3, <2>5, <3>1
    <3> QED
      BY <1>3, <3>2
  <2>6. FindsErrors(b)'
    BY <1>1, <1>8, <2>4, <2>5 DEF FindsErrors
  <2> QED
    BY <1>8, <2>3, <2>6 DEF Finds
<1>15. FindsIn(builders)'
  <2>1. \A i \in 1..n : builders'[i].file \in db.protos
    BY <1>9, <1>10 DEF AnswersOK, FindsIn
  <2>2. ASSUME db.mode = DATABASE, NEW i \in 1..n PROVE Finds(builders[i], Above(builders, i))'
    <3>1. CASE i = n
      <4>1. builders'[i] = b /\ Above(builders, i)' = {}
        BY <1>9, <1>10, <3>1 DEF Above
      <4> QED
        BY <1>14, <2>2, <4>1
    <3>2. CASE i # n
      BY <1>13, <2>2, <3>2
    <3> QED
      BY <3>1, <3>2
  <2> QED
    BY <1>1, <1>10, <2>1, <2>2 DEF FindsIn
<1>16. BadRight'
  BY <1>1, <1>11 DEF AnswersOK, BadRight, bad
<1>17. Grounded'
  <2>1. SUFFICES ASSUME db.mode = DATABASE, NEW S \in KeptTables', NEW G \in SUBSET File,
                        ClosedUnder(G), S \ finished_building_ \subseteq G
                 PROVE  S \subseteq G
    BY <1>1, <1>11 DEF Grounded, GroundedSet
  <2>2. \A T \in KeptTables : T \ finished_building_ \subseteq G => T \subseteq G
    BY <2>1 DEF AnswersOK, Grounded, GroundedSet
  <2>3. files_by_name_ \in KeptTables /\ \A k \in DOMAIN checkpoints_ : Kept(k) \in KeptTables
    BY DEF KeptTables, Kept
  <2>4. S = files_by_name_' \/ \E k \in DOMAIN checkpoints_' : S = Kept(k)'
    BY <2>1 DEF KeptTables, Kept
  <2>5. S = files_by_name_ \cup {f} \/ S \in KeptTables
    <3>1. ASSUME NEW k \in 1..(N + 1), S = Kept(k)' PROVE S \in KeptTables
      <4>1. CASE k = N + 1
        BY <1>3, <2>3, <3>1, <4>1
      <4>2. CASE k # N + 1
        <5>1. k \in 1..N
          BY <1>3, <4>2
        <5> QED
          BY <1>3, <2>3, <3>1, <5>1
      <4> QED
        BY <4>1, <4>2
    <3> QED
      BY <1>3, <2>4, <3>1
  <2>6. CASE S = files_by_name_ \cup {f}
    <3>1. f \notin finished_building_
      BY <1>3 DEF IInv, TablesOK, FilesOK
    <3>2. f \in G /\ files_by_name_ \ finished_building_ \subseteq G
      BY <2>1, <2>6, <3>1
    <3> QED
      BY <2>2, <2>3, <2>6, <3>2
  <2> QED
    BY <2>1, <2>2, <2>5, <2>6
<1>18. \A g : Safe(g) => Safe(g)'
  <2>1. f \notin finished_building_
    BY <1>3 DEF IInv, TablesOK, FilesOK
  <2> QED
    BY <1>1, <1>3, <2>1 DEF Safe
<1>19. Loaded' /\ KeysRight'
  BY <1>1, <1>11, <1>18 DEF AnswersOK, Loaded, KeysRight
<1>20. Answering'
  <2>1. b.file = Last(builders).file /\ builders # << >>
    BY <1>1, <1>2, <1>8, <1>9
  <2>2. SetLast(builders, b) # << >>
    BY <2>1, <1>8, <1>9, SetLastFacts
  <2>3. SetLast(builders, b)[1].file = builders[1].file
    BY <2>1, <1>8, <1>9, FirstSame
  <2> QED
    BY <1>1, <1>8, <1>18, <2>2, <2>3, AnsweringGoesOn
<1> QED
  BY <1>12, <1>15, <1>16, <1>17, <1>19, <1>20 DEF AnswersOK

-----------------------------------------------------------------------------
(* The answers: the file is finished. *)

(* What a rollback to a checkpoint that remains may leave, after the last is  *)
(* cleared, and after it is rolled back.                                     *)
Remains(L) ==
  /\ DOMAIN checkpoints_' = 1..(L - 1)
  /\ \A k \in 1..(L - 1) : Kept(k)' = Kept(k) /\ Opened'[k] = Opened[k] /\ k \in DOMAIN checkpoints_
  /\ ToSet(files_after_checkpoint_') \subseteq ToSet(files_after_checkpoint_)

(* The last checkpoint is cleared.                                           *)
LEMMA ClearTables ==
  ASSUME IInv, Finish, ~ Top.errors, NEW L, L = Len(checkpoints_)
  PROVE  Remains(L)
<1>1. builders # << >> /\ Top.at \in Recorded /\ ClearLastCheckpoint /\ UNCHANGED files_by_name_
  BY DEF Finish, At, Recorded, entries
<1>2. PICK P, W, r, n : /\ P = checkpoints_ /\ W = AtWork(builders, Recorded) /\ r = Front(builders)
                        /\ n = Len(builders)
  OBVIOUS
<1>3. Leaves(n, W, r, P, L)
  BY <1>1, <1>2, LeaveFacts
<1>4. /\ L \in Nat \ {0} /\ DOMAIN Front(P) = 1..(L - 1)
      /\ \A k \in 1..(L - 1) : Front(P)[k] = P[k] /\ k \in DOMAIN P
  BY <1>3 DEF Leaves
<1>5. checkpoints_' = Front(P)
  BY <1>1, <1>2 DEF ClearLastCheckpoint
<1>6. CASE L = 1
  <2>1. files_after_checkpoint_' = << >> /\ 1..(L - 1) = {}
    BY <1>1, <1>6 DEF ClearLastCheckpoint, CommitAll
  <2>2. ToSet(<< >>) = {}
    BY DEF ToSet
  <2> QED
    BY <1>4, <1>5, <2>1, <2>2 DEF Remains
<1>7. CASE L # 1
  <2>1. files_after_checkpoint_' = files_after_checkpoint_
    BY <1>1, <1>7 DEF ClearLastCheckpoint, after
  <2>2. \A k \in 1..(L - 1) : k \in DOMAIN P /\ k \in DOMAIN checkpoints_' /\ checkpoints_'[k] = checkpoints_[k]
    BY <1>2, <1>4, <1>5
  <2>3. \A k \in 1..(L - 1) : Kept(k)' = Kept(k) /\ Opened'[k] = Opened[k]
    BY <1>1, <1>2, <2>1, <2>2 DEF Kept, FilesSince, Opened
  <2> QED
    BY <1>2, <1>4, <1>5, <2>1, <2>2, <2>3 DEF Remains
<1> QED
  BY <1>6, <1>7

(* It is rolled back.                                                       *)
LEMMA RollbackTables ==
  ASSUME IInv, Finish, Top.errors, NEW L, L = Len(checkpoints_)
  PROVE  /\ Remains(L) /\ L \in DOMAIN checkpoints_ /\ DOMAIN checkpoints_ = 1..L
         /\ files_by_name_' = Kept(L)
         /\ finished_building_' = finished_building_ \ FilesSince(L)
         /\ FilesSince(L) \subseteq ToSet(files_after_checkpoint_)
         /\ extensions_' \subseteq extensions_
<1>1. builders # << >> /\ Top.at \in Recorded /\ RollbackToLastCheckpoint
  BY DEF Finish, At, Recorded
<1>2. PICK P, W, r, n, F : /\ P = checkpoints_ /\ W = AtWork(builders, Recorded)
                           /\ r = Front(builders) /\ n = Len(builders) /\ F = files_after_checkpoint_
  OBVIOUS
<1>3. Leaves(n, W, r, P, L)
  BY <1>1, <1>2, LeaveFacts
<1>4. /\ L \in Nat \ {0} /\ DOMAIN P = 1..L /\ DOMAIN Front(P) = 1..(L - 1)
      /\ \A k \in 1..(L - 1) : /\ Front(P)[k] = P[k] /\ k \in DOMAIN P /\ P[k].files < P[L].files
                               /\ FilesSince(L) \subseteq FilesSince(k)
  BY <1>3 DEF Leaves
<1>5. F \in Seq(File) /\ IsInjective(F)
  BY <1>2 DEF IInv, Typed, TablesTyped, TablesOK, LevelsOK
<1>6. PICK c, D : c = P[L].files /\ D = FilesSince(L)
  OBVIOUS
<1>7. /\ L \in DOMAIN P /\ c \in 0..Len(F) /\ D = Since(F, c)
      /\ \A k \in 1..L : P[k].files \in 0..Len(F)
  <2>1. L \in DOMAIN P
    BY <1>4
  <2>2. D = Since(F, c)
    BY <1>2, <1>6 DEF FilesSince
  <2>3. \A k \in DOMAIN P : P[k].files \in 0..Len(F)
    BY <1>2, LevelFacts DEF IInv
  <2> QED
    BY <2>1, <2>2, <2>3, <1>4, <1>6
<1>8. Last(checkpoints_).files = c
  BY <1>2, <1>6 DEF Last
<1>9. /\ files_by_name_' = files_by_name_ \ D /\ finished_building_' = finished_building_ \ D
      /\ files_after_checkpoint_' = Before(F, c) /\ checkpoints_' = Front(P)
      /\ extensions_' \subseteq extensions_
  BY <1>1, <1>2, <1>7, <1>8 DEF RollbackToLastCheckpoint
<1>10. PICK G : G = Before(F, c)
  OBVIOUS
<1>11. /\ ToSet(G) \subseteq ToSet(F) /\ \A i \in 1..c : G[i] = F[i]
       /\ \A m \in 0..c : Since(G, m) = Since(F, m) \ D
  BY <1>5, <1>7, <1>10, BeforeFacts, SinceBefore
<1>12. ASSUME NEW k \in 1..(L - 1)
       PROVE  Kept(k)' = Kept(k) /\ Opened'[k] = Opened[k] /\ k \in DOMAIN checkpoints_
  <2>1. PICK m : m = P[k].files
    OBVIOUS
  <2>2. k \in DOMAIN P /\ k \in DOMAIN Front(P) /\ Front(P)[k] = P[k] /\ m < c /\ D \subseteq FilesSince(k)
    BY <1>4, <1>6, <2>1
  <2>3. m \in Nat /\ m \in 0..c /\ m + 1 \in 1..c
    BY <1>4, <1>7, <2>1, <2>2
  <2>4. Since(G, m) = Since(F, m) \ D /\ G[m + 1] = F[m + 1]
    BY <1>11, <2>3
  <2>5. FilesSince(k) = Since(F, m) /\ FilesSince(k)' = Since(G, m)
    BY <1>2, <1>9, <1>10, <2>1, <2>2 DEF FilesSince
  <2>6. Kept(k)' = Kept(k)
    BY <1>9, <2>2, <2>4, <2>5 DEF Kept
  <2>7. Opened[k] = F[m + 1] /\ Opened'[k] = G[m + 1]
    BY <1>2, <1>9, <1>10, <2>1, <2>2 DEF Opened
  <2> QED
    BY <1>2, <2>2, <2>4, <2>6, <2>7
<1>13. Remains(L)
  BY <1>2, <1>4, <1>9, <1>10, <1>11, <1>12 DEF Remains
<1>14. D \subseteq ToSet(F)
  BY <1>5, <1>7, SinceFacts DEF ToSet
<1> QED
  BY <1>2, <1>4, <1>6, <1>7, <1>9, <1>13, <1>14 DEF Kept

(* What a builder below finds is as before, but for the errors in a file     *)
(* that can be built, whose imports must still be there.                     *)
LEMMA FindsBelow ==
  ASSUME db' = db, NEW L, Remains(L), files_by_name_' \subseteq files_by_name_,
         NEW b, NEW above, Finds(b, above),
         b.file \in Buildable => files_by_name_' = files_by_name_
  PROVE  Finds(b, above)'
<1>1. Buildable' = Buildable /\ \A f, s : May(f, s)' = May(f, s)
  BY DatabaseSame
<1>2. FindsErrors(b)'
  <2>1. ASSUME NEW k \in DOMAIN checkpoints_', Opened'[k] = b.file
        PROVE  k \in DOMAIN checkpoints_ /\ Opened[k] = b.file /\ Kept(k)' = Kept(k)
    BY <2>1 DEF Remains
  <2> QED
    BY <1>1, <2>1 DEF Finds, FindsErrors
<1>3. FindsNoError(b, above)'
  BY <1>1 DEF Finds, FindsNoError
<1> QED
  BY <1>2, <1>3 DEF Finds

(* A build that fails is of a file that cannot be built, and so are those     *)
(* that waited for it.                                                      *)
LEMMA RollbackAnswers ==
  ASSUME IInv, IInv', WellKept, AnswersOK, Finish, Top.errors
  PROVE  AnswersOK'
<1>1. /\ builders # << >> /\ Top.at = "finish" /\ Top.at \in Recorded /\ Return(NULL)
      /\ UNCHANGED <<db, extensions_loaded_from_db_>>
  BY DEF Finish, At, Recorded
<1>2. PICK L, n, r : L = Len(checkpoints_) /\ n = Len(builders) /\ r = Front(builders)
  OBVIOUS
<1>3. /\ Remains(L) /\ L \in DOMAIN checkpoints_ /\ DOMAIN checkpoints_ = 1..L
      /\ files_by_name_' = Kept(L)
      /\ finished_building_' = finished_building_ \ FilesSince(L)
      /\ FilesSince(L) \subseteq ToSet(files_after_checkpoint_)
      /\ extensions_' \subseteq extensions_
  BY <1>2, RollbackTables
<1>4. db.mode = DATABASE
  <2>1. ASSUME db.mode = LAZY PROVE FALSE
    BY <1>1, <2>1, TopFacts DEF IInv, LazyOK, LazyStack, LazyAt
  <2> QED
    BY <2>1, DatabaseFacts DEF IInv, WellKept
<1>5. Top.file \notin Buildable
  BY <1>1, <1>4, TopFinds DEF Finds, FindsNoError
<1>6. /\ builders \in Seq(BuilderRecord) /\ DOMAIN builders = 1..n /\ n \in Nat \ {0}
      /\ builders[n] = Top /\ Last(builders) = Top
  BY <1>1, <1>2, TopFacts DEF IInv, Top
<1>7. ASSUME NEW i \in 1..(n - 1) PROVE builders[i].file \notin Buildable
  <2>1. i \in DOMAIN builders /\ n \in DOMAIN builders /\ i < n
    BY <1>6
  <2> QED
    BY <1>4, <1>5, <1>6, <2>1 DEF AnswersOK, WaitsIn
<1>8. /\ builders' = r /\ UNCHANGED call /\ r \in Seq(BuilderRecord) /\ Len(r) = n - 1
      /\ DOMAIN r = 1..(n - 1) /\ \A i \in 1..(n - 1) : r[i] = builders[i]
  BY <1>1, <1>2, <1>6, FrontFacts DEF Return
<1>9. /\ Buildable' = Buildable /\ \A G : ClosedUnder(G)' = ClosedUnder(G)
      /\ \A f, s : May(f, s)' = May(f, s)
  BY <1>1, DatabaseSame
<1>10. WaitsIn(builders)'
  <2>1. WaitsIn(r)
    BY <1>1, <1>2, <1>6, WaitsPop DEF AnswersOK
  <2> QED
    BY <1>1, <1>8, <1>9, <2>1 DEF WaitsIn, WaitsFor
<1>11. FindsIn(builders)'
  <2>1. FindsIn(r)
    <3>1. n > 1 => builders[n - 1].file \notin Buildable
      <4>1. n > 1 => n - 1 \in 1..(n - 1)
        BY <1>6
      <4> QED
        BY <1>7, <4>1
    <3> QED
      BY <1>1, <1>2, <1>6, <3>1, FindsPop DEF AnswersOK
  <2>2. files_by_name_' \subseteq files_by_name_
    BY <1>3 DEF Kept
  <2>3. ASSUME NEW i \in 1..(n - 1) PROVE Finds(builders[i], Above(builders, i))'
    <3>1. PICK d, above : d = r[i] /\ above = Above(r, i)
      OBVIOUS
    <3>2. Finds(d, above) /\ d.file \notin Buildable
      BY <1>4, <1>7, <1>8, <2>1, <3>1 DEF FindsIn
    <3>3. Finds(d, above)'
      BY <1>1, <1>3, <2>2, <3>2, FindsBelow
    <3>4. d = builders'[i] /\ above = Above(builders, i)'
      BY <1>8, <3>1 DEF Above
    <3> QED
      BY <3>3, <3>4
  <2>4. \A i \in 1..(n - 1) : builders'[i].file \in db'.protos
    BY <1>1, <1>8, <2>1 DEF FindsIn
  <2> QED
    BY <1>8, <2>3, <2>4 DEF FindsIn
<1>12. BadRight'
  BY <1>1, <1>5, ReturnBad
<1>13. Grounded'
  <2>1. SUFFICES ASSUME NEW S \in KeptTables', NEW G \in SUBSET File,
                        ClosedUnder(G), S \ finished_building_' \subseteq G
                 PROVE  S \subseteq G
    BY <1>1, <1>9 DEF Grounded, GroundedSet
  <2>2. \A T \in KeptTables : T \ finished_building_ \subseteq G => T \subseteq G
    BY <1>4, <2>1 DEF AnswersOK, Grounded, GroundedSet
  <2>3. S = files_by_name_' \/ \E k \in DOMAIN checkpoints_' : S = Kept(k)'
    BY <2>1 DEF KeptTables, Kept
  <2>4. S \in {Kept(k) : k \in DOMAIN checkpoints_}
    BY <1>3, <2>3 DEF Remains
  <2>5. S \in KeptTables
    BY <2>4 DEF KeptTables, Kept
  <2>6. S \subseteq files_by_name_' /\ S \cap FilesSince(L) = {}
    <3>1. S \subseteq files_by_name_'
      BY <2>3 DEF Kept
    <3> QED
      BY <1>3, <3>1 DEF Kept
  <2>7. S \ finished_building_ \subseteq G
    BY <1>3, <2>1, <2>6
  <2> QED
    BY <2>2, <2>5, <2>7
<1>14. \A g : Safe(g) => Safe(g)'
  BY <1>3 DEF Safe, Remains
<1>15. Loaded' /\ KeysRight'
  BY <1>1, <1>3, <1>9, <1>14 DEF AnswersOK, Loaded, KeysRight
<1>16. Answering'
  <2>1. CASE n = 1
    <3>1. builders' = << >>
      BY <1>8, <2>1, EmptySeq
    <3>2. \A g \in Buildable : builders[1].file # g
      BY <1>5, <1>6, <2>1
    <3> QED
      BY <1>1, <1>8, <1>14, <3>1, <3>2, AnsweringGoesOn
  <2>2. CASE n # 1
    <3>1. builders' # << >> /\ builders'[1].file = builders[1].file
      BY <1>6, <1>8, <2>2, EmptySeq
    <3> QED
      BY <1>1, <1>8, <1>14, <3>1, AnsweringGoesOn
  <2> QED
    BY <2>1, <2>2
<1> QED
  BY <1>10, <1>11, <1>12, <1>13, <1>15, <1>16 DEF AnswersOK

(* A build that succeeds is of a file that can be built, for its imports      *)
(* were there before it, and what it uses is its own or of its dependencies. *)
LEMMA ClearAnswers ==
  ASSUME IInv, IInv', WellKept, AnswersOK, Finish, ~ Top.errors
  PROVE  AnswersOK'
<1>1. /\ builders # << >> /\ Top.at = "finish" /\ Top.at \in Recorded /\ Return(Top.file)
      /\ finished_building_' = finished_building_ \cup {Top.file}
      /\ UNCHANGED <<db, files_by_name_, extensions_, extensions_loaded_from_db_>>
  BY DEF Finish, At, Recorded, entries
<1>2. PICK f, L, n, r : /\ f = Top.file /\ L = Len(checkpoints_) /\ n = Len(builders)
                        /\ r = Front(builders)
  OBVIOUS
<1>3. Remains(L)
  BY <1>2, ClearTables
<1>4. /\ builders \in Seq(BuilderRecord) /\ DOMAIN builders = 1..n /\ n \in Nat \ {0}
      /\ builders[n] = Top /\ Last(builders) = Top /\ f \in File
  BY <1>1, <1>2, TopFacts DEF IInv, Top
<1>5. /\ L \in DOMAIN checkpoints_ /\ DOMAIN checkpoints_ = 1..L /\ Opened[L] = f
      /\ \A k \in DOMAIN checkpoints_ : f \in FilesSince(k)
      /\ f \in files_by_name_
  BY <1>1, <1>2, TopOpened, LevelFacts DEF IInv
<1>6. /\ builders' = r /\ UNCHANGED call /\ r \in Seq(BuilderRecord) /\ Len(r) = n - 1
      /\ DOMAIN r = 1..(n - 1) /\ \A i \in 1..(n - 1) : r[i] = builders[i]
  BY <1>1, <1>2, <1>4, FrontFacts DEF Return
<1>7. /\ Buildable' = Buildable /\ \A G : ClosedUnder(G)' = ClosedUnder(G)
      /\ \A g, s : May(g, s)' = May(g, s)
  BY <1>1, DatabaseSame
<1>8. WaitsIn(builders)'
  <2>1. WaitsIn(r)
    BY <1>1, <1>2, <1>4, WaitsPop DEF AnswersOK
  <2> QED
    BY <1>1, <1>6, <1>7, <2>1 DEF WaitsIn, WaitsFor
<1>9. FindsIn(builders)'
  <2>1. FindsIn(r)
    BY <1>1, <1>2, <1>4, <1>5, FindsPop DEF AnswersOK
  <2>2. ASSUME db.mode = DATABASE, NEW i \in 1..(n - 1) PROVE Finds(builders[i], Above(builders, i))'
    <3>1. PICK d, above : d = r[i] /\ above = Above(r, i)
      OBVIOUS
    <3>2. Finds(d, above)
      BY <1>6, <2>1, <2>2, <3>1 DEF FindsIn
    <3>3. Finds(d, above)'
      BY <1>1, <1>3, <3>2, FindsBelow
    <3>4. d = builders'[i] /\ above = Above(builders, i)'
      BY <1>6, <3>1 DEF Above
    <3> QED
      BY <3>3, <3>4
  <2>3. \A i \in 1..(n - 1) : builders'[i].file \in db'.protos
    BY <1>1, <1>6, <2>1 DEF FindsIn
  <2> QED
    BY <1>1, <1>6, <2>2, <2>3 DEF FindsIn
<1>10. BadRight'
  <2>1. f # NULL
    BY <1>4, DatabaseFacts DEF IInv
  <2>2. UNCHANGED bad
    BY <1>1, <1>2, <2>1 DEF Return
  <2> QED
    BY <1>7, <2>2 DEF AnswersOK, BadRight, bad
<1>11. Grounded'
  <2>1. SUFFICES ASSUME db.mode = DATABASE, NEW S \in KeptTables', NEW G \in SUBSET File,
                        ClosedUnder(G), S \ finished_building_' \subseteq G
                 PROVE  S \subseteq G
    BY <1>1, <1>7 DEF Grounded, GroundedSet
  <2>2. \A T \in KeptTables : T \ finished_building_ \subseteq G => T \subseteq G
    BY <2>1 DEF AnswersOK, Grounded, GroundedSet
  <2>3. files_by_name_ \in KeptTables /\ \A k \in DOMAIN checkpoints_ : Kept(k) \in KeptTables
    BY DEF KeptTables, Kept
  <2>4. S = files_by_name_' \/ \E k \in DOMAIN checkpoints_' : S = Kept(k)'
    BY <2>1 DEF KeptTables, Kept
  <2>5. \A k \in DOMAIN checkpoints_ : f \notin Kept(k)
    BY <1>5 DEF Kept
  <2>6. CASE \E k \in DOMAIN checkpoints_' : S = Kept(k)'
    <3>1. PICK k \in DOMAIN checkpoints_ : S = Kept(k)
      BY <1>3, <2>6 DEF Remains
    <3>2. S \ finished_building_ \subseteq G
      BY <1>1, <1>2, <2>1, <2>5, <3>1
    <3> QED
      BY <2>2, <2>3, <3>1, <3>2
  <2>7. CASE S = files_by_name_'
    <3>1. files_by_name_ \ finished_building_ \subseteq G \cup {f}
      BY <1>1, <1>2, <2>1, <2>7
    <3>2. Kept(L) \ finished_building_ \subseteq G
      BY <1>5, <2>5, <3>1 DEF Kept
    <3>3. Kept(L) \subseteq G
      BY <1>5, <2>2, <2>3, <3>2
    <3>4. Finds(Top, {}) /\ f \in db.protos
      BY <1>1, <1>2, <1>4, <2>1, TopFinds DEF AnswersOK, FindsIn
    <3>5. /\ f \notin db.invalid /\ May(f, db.type[f]) /\ May(f, db.extendee[f])
          /\ db.imports[f] \subseteq Kept(L)
      <4>1. FindsErrors(Top)
        BY <3>4 DEF Finds
      <4> QED
        BY <1>1, <1>2, <1>5, <4>1 DEF FindsErrors
    <3>6. CanBuild(f, G)
      BY <3>3, <3>4, <3>5 DEF CanBuild, May
    <3>7. f \in G
      BY <1>4, <2>1, <3>6 DEF ClosedUnder
    <3>8. files_by_name_ \subseteq G
      BY <2>2, <2>3, <3>1, <3>7
    <3> QED
      BY <1>1, <2>7, <3>8
  <2> QED
    BY <2>4, <2>6, <2>7
<1>12. \A g : Safe(g) => Safe(g)'
  BY <1>1, <1>3 DEF Safe, Remains
<1>13. Loaded' /\ KeysRight'
  BY <1>1, <1>7, <1>12 DEF AnswersOK, Loaded, KeysRight
<1>14. Answering'
  <2>1. CASE n = 1
    <3>1. builders' = << >>
      BY <1>6, <2>1, EmptySeq
    <3>2. \A g : g \in files_by_name_' <=> Safe(g)'
      BY <3>1, IdleNext
    <3>3. \A g \in Buildable : builders[1].file = g => Safe(g)'
      BY <1>1, <1>2, <1>4, <1>5, <2>1, <3>2
    <3> QED
      BY <1>1, <1>6, <1>12, <3>1, <3>3, AnsweringGoesOn
  <2>2. CASE n # 1
    <3>1. builders' # << >> /\ builders'[1].file = builders[1].file
      BY <1>4, <1>6, <2>2, EmptySeq
    <3> QED
      BY <1>1, <1>6, <1>12, <3>1, AnsweringGoesOn
  <2> QED
    BY <2>1, <2>2
<1> QED
  BY <1>8, <1>9, <1>10, <1>11, <1>13, <1>14 DEF AnswersOK

-----------------------------------------------------------------------------
(* The answers: the calls. *)

(* The call looks for something, and starts a build of what it does not find. *)
LEMMA StartAnswers ==
  ASSUME IInv, AnswersOK, BadRight', Loaded', NEW c, call' = c,
         UNCHANGED <<db, entries, after, checkpoints_, finished_building_>>,
         \/ builders' = << >>
         \/ \E f \in db.protos :
              /\ builders' = Append(<< >>, Builder(f))
              /\ c.op \in {"FindSymbol", "message_type"} => f = db.index[c.name],
         \A g \in Buildable : Wants(c, g) => Safe(g) \/ builders' = Append(<< >>, Builder(g))
  PROVE  AnswersOK'
<1>1. << >> \in Seq(BuilderRecord) /\ Len(<< >>) = 0 /\ DOMAIN << >> = {} /\ db.protos \subseteq File
  BY NoneFacts, DatabaseFacts DEF IInv
<1>2. \A f \in db.protos :
        /\ Append(<< >>, Builder(f)) # << >> /\ Len(Append(<< >>, Builder(f))) = 1
        /\ DOMAIN Append(<< >>, Builder(f)) = {1} /\ Append(<< >>, Builder(f))[1] = Builder(f)
        /\ Builder(f).file = f /\ Builder(f).at = "enter" /\ ~ Builder(f).errors
  <2>1. SUFFICES ASSUME NEW f \in db.protos
                 PROVE  /\ Append(<< >>, Builder(f)) # << >> /\ Len(Append(<< >>, Builder(f))) = 1
                        /\ DOMAIN Append(<< >>, Builder(f)) = {1}
                        /\ Append(<< >>, Builder(f))[1] = Builder(f)
                        /\ Builder(f).file = f /\ Builder(f).at = "enter" /\ ~ Builder(f).errors
    OBVIOUS
  <2>2. PICK stack : stack = << >>
    OBVIOUS
  <2>3. stack \in Seq(BuilderRecord) /\ Len(stack) = 0 /\ f \in File
    BY <1>1, <2>2
  <2>4. /\ Append(stack, Builder(f)) # << >>
        /\ Len(Append(stack, Builder(f))) = Len(stack) + 1
        /\ DOMAIN Append(stack, Builder(f)) = 1..(Len(stack) + 1)
        /\ Append(stack, Builder(f))[Len(stack) + 1] = Builder(f)
        /\ Builder(f).file = f /\ Builder(f).at = "enter" /\ ~ Builder(f).errors
    BY <2>3, PushFacts
  <2>5. Len(stack) + 1 = 1 /\ 1..1 = {1}
    BY <2>3
  <2>6. /\ Append(stack, Builder(f)) # << >> /\ Len(Append(stack, Builder(f))) = 1
        /\ DOMAIN Append(stack, Builder(f)) = {1}
        /\ Append(stack, Builder(f))[1] = Builder(f)
    BY <2>4, <2>5, ZenonT(20)
  <2> QED
    BY <2>2, <2>4, <2>6
<1>3. WaitsIn(<< >>) /\ FindsIn(<< >>)
  BY <1>1 DEF WaitsIn, FindsIn
<1>4. ASSUME NEW f \in db.protos PROVE WaitsIn(Append(<< >>, Builder(f))) /\ FindsIn(Append(<< >>, Builder(f)))
  <2>1. Finds(Builder(f), {})
    BY <1>2 DEF Finds, FindsNoError, FindsErrors, Recorded
  <2>2. Above(Append(<< >>, Builder(f)), 1) = {}
    BY <1>2 DEF Above
  <2>3. FindsIn(Append(<< >>, Builder(f)))
    <3>1. PICK r : r = Append(<< >>, Builder(f))
      OBVIOUS
    <3>2. DOMAIN r = {1} /\ r[1] = Builder(f) /\ Builder(f).file = f
      BY <1>2, <3>1
    <3>3. \A i \in DOMAIN r : r[i].file \in db.protos /\ Finds(r[i], Above(r, i))
      BY <2>1, <2>2, <3>1, <3>2, ZenonT(20)
    <3>4. FindsIn(r)
      BY <3>3 DEF FindsIn
    <3> QED
      BY <3>1, <3>4
  <2>4. WaitsIn(Append(<< >>, Builder(f)))
    BY <1>1, <1>3, WaitsPush
  <2> QED
    BY <2>3, <2>4
<1>5. WaitsIn(builders') /\ FindsIn(builders')
  BY <1>3, <1>4
<1>6. Grounded' /\ KeysRight' /\ WaitsIn(builders)' /\ FindsIn(builders)' /\ \A g : Safe(g)' = Safe(g)
  BY <1>5, QuietAnswers DEF AnswersOK, entries, after
<1>7. Buildable' = Buildable /\ \A d, g : Wants(d, g)' = Wants(d, g)
  BY DatabaseSame DEF Wants
<1>8. ASSUME NEW g \in Buildable, Wants(c, g)
      PROVE  Safe(g)' \/ (builders' # << >> /\ builders'[1].file = g)
  <2>1. g \in db.protos
    BY BuildableFacts
  <2> QED
    BY <1>2, <1>6, <1>8, <2>1
<1>9. builders' # << >> /\ c.op \in {"FindSymbol", "message_type"} => builders'[1].file = db.index[c.name]
  BY <1>2
<1>10. Answering'
  BY <1>7, <1>8, <1>9 DEF Answering
<1> QED
  BY <1>6, <1>10 DEF AnswersOK

(* The call after it has looked.                                             *)
LEMMA GoneOn ==
  ASSUME call \in Calls, NEW label, NEW left, CallGoes(label, left), NEW c, c = call'
  PROVE  c.op = call.op /\ c.name = call.name /\ c.at = label /\ c.left = left
BY DEF CallGoes, Calls

(* A file with the extension sought is looked for unless it is there or      *)
(* cannot be built.                                                         *)
LEMMA TryExtensionFinds ==
  ASSUME IInv, AnswersOK, WellKept, builders = << >>, NEW s, NEW n,
         IF <<s, n>> \in extensions_ THEN builders' = << >> ELSE TryExtension(s, n)
  PROVE  /\ builders' = << >> \/ \E f \in db.protos : builders' = Append(<< >>, Builder(f))
         /\ n \in Buildable /\ db.extendee[n] = s => Safe(n) \/ builders' = Append(<< >>, Builder(n))
<1>1. CASE <<s, n>> \in extensions_
  <2>1. \A key \in extensions_ : key[2] \in files_by_name_
    BY DEF IInv, TablesOK, EntriesOK
  <2>2. <<s, n>>[2] \in files_by_name_
    BY <1>1, <2>1
  <2>3. Safe(n)
    BY <2>2, IdleSafe
  <2> QED
    BY <1>1, <2>3
<1>2. CASE <<s, n>> \notin extensions_
  <2>1. TryExtension(s, n)
    BY <1>2
  <2>2. builders' = << >> \/ (n \in db.protos /\ builders' = Append(<< >>, Builder(n)))
    BY <2>1, OneBuilder DEF TryExtension
  <2>3. ASSUME n \in Buildable, db.extendee[n] = s, n \notin files_by_name_
        PROVE  builders' = Append(<< >>, Builder(n))
    <3>1. n \in db.protos /\ n \notin known_bad_files_ /\ db.mode # DIRECT
      BY <2>3, BuildableFacts DEF AnswersOK, BadRight, WellKept
    <3> QED
      BY <2>1, <2>3, <3>1, OneBuilder DEF TryExtension
  <2> QED
    BY <2>2, <2>3, IdleSafe
<1> QED
  BY <1>1, <1>2

(* The call looks into the tables, and then starts a build.                  *)
LEMMA LookAnswers ==
  ASSUME IInv, WellKept, AnswersOK, Look
  PROVE  AnswersOK'
<1>1. /\ call # NULL /\ call.at = "look"
      /\ UNCHANGED <<db, entries, after, checkpoints_, finished_building_, extensions_loaded_from_db_>>
  BY DEF Look, tables, links
<1>2. builders = << >> /\ call \in Calls
  BY <1>1 DEF IInv, CallOK, Typed
<1>3. PICK s, c : s = call.name /\ c = call'
  OBVIOUS
<1>4. \A f : f \in files_by_name_ <=> Safe(f)
  BY <1>2, IdleSafe
<1>5. Loaded' /\ (UNCHANGED bad => BadRight')
  BY <1>1, QuietAnswers, DatabaseSame DEF AnswersOK, BadRight, bad, entries, after
<1>6. CASE call.op \in {"BuildFile", "BuildOther"}
  BY <1>1, <1>6 DEF IInv, CallOK, WellKept
<1>7. CASE call.op = "FindFileByName"
  <2>1. /\ IF s \in files_by_name_ THEN builders' = << >> /\ UNCHANGED bad ELSE TryFile(s, << >>)
        /\ CallGoes("answer", {})
    BY <1>3, <1>7 DEF Look
  <2>2. c.op = call.op /\ c.name = s
    BY <1>2, <1>3, <2>1, GoneOn
  <2>3. \A g : Wants(c, g) => g = s
    BY <1>7, <2>2 DEF Wants
  <2>4. s \in File
    BY <1>1, <1>3, <1>7 DEF IInv, CallOK
  <2>5. /\ BadRight'
        /\ \/ builders' = << >> /\ (s \in Buildable => Safe(s))
           \/ builders' = Append(<< >>, Builder(s)) /\ s \in db.protos
    <3>1. CASE s \in files_by_name_
      BY <1>4, <1>5, <2>1, <3>1
    <3>2. CASE s \notin files_by_name_
      BY <1>1, <2>1, <2>4, <3>2, TryFileFinds
    <3> QED
      BY <3>1, <3>2
  <2> QED
    BY <1>1, <1>3, <1>5, <1>7, <2>2, <2>3, <2>5, StartAnswers
<1>8. CASE call.op \in {"FindSymbol", "message_type"}
  <2>1. /\ IF symbols_by_name_[s] # NULL THEN builders' = << >> /\ UNCHANGED bad ELSE TrySymbol(s, << >>)
        /\ CallGoes("answer", {})
    BY <1>3, <1>8 DEF Look
  <2>2. c.op = call.op /\ c.name = s
    BY <1>2, <1>3, <2>1, GoneOn
  <2>3. \A g : Wants(c, g) => g = s
    BY <1>8, <2>2 DEF Wants
  <2>4. s \in Symbol
    BY <1>1, <1>3, <1>8, DatabaseFacts DEF IInv, CallOK
  <2>5. /\ BadRight'
        /\ \/ builders' = << >> /\ (s \in Buildable => Safe(s))
           \/ /\ builders' = Append(<< >>, Builder(db.index[s])) /\ db.index[s] \in db.protos
              /\ s \in Buildable => db.index[s] = s
    <3>1. CASE symbols_by_name_[s] # NULL
      BY <1>4, <1>5, <2>1, <2>4, <3>1, NameIsFile
    <3>2. CASE symbols_by_name_[s] = NULL
      BY <1>1, <2>1, <2>4, <3>2, TrySymbolFinds
    <3> QED
      BY <3>1, <3>2
  <2> QED
    BY <1>1, <1>3, <1>5, <2>2, <2>3, <2>5, StartAnswers
<1>9. CASE call.op = "FindExtensionByNumber"
  <2>1. /\ IF s \in extensions_ THEN builders' = << >> ELSE TryExtension(s[1], s[2])
        /\ UNCHANGED bad /\ CallGoes("answer", {})
    BY <1>3, <1>9 DEF Look
  <2>2. c.op = call.op /\ c.name = s
    BY <1>2, <1>3, <2>1, GoneOn
  <2>3. s = <<s[1], s[2]>>
    BY <1>1, <1>3, <1>9 DEF IInv, CallOK
  <2>4. \A g : Wants(c, g) => g = s[2] /\ db.extendee[g] = s[1]
    BY <1>9, <2>2, <2>3 DEF Wants
  <2>5. /\ builders' = << >> \/ \E f \in db.protos : builders' = Append(<< >>, Builder(f))
        /\ s[2] \in Buildable /\ db.extendee[s[2]] = s[1] =>
             Safe(s[2]) \/ builders' = Append(<< >>, Builder(s[2]))
    BY <1>2, <2>1, <2>3, TryExtensionFinds
  <2> QED
    BY <1>1, <1>3, <1>5, <1>9, <2>1, <2>2, <2>4, <2>5, StartAnswers
<1>10. CASE call.op = "FindAllExtensions"
  <2>1. /\ builders' = << >> /\ UNCHANGED bad
        /\ \/ s \in extensions_loaded_from_db_ /\ CallGoes("answer", {})
           \/ CallGoes("numbers", {n \in db.protos : db.extendee[n] = s})
    BY <1>3, <1>10 DEF Look, WellKept
  <2>2. CASE s \in extensions_loaded_from_db_ /\ CallGoes("answer", {})
    <3>1. c.op = call.op /\ c.name = s
      BY <1>2, <1>3, <2>2, GoneOn
    <3>2. \A g : Wants(c, g) => db.extendee[g] = s
      BY <1>10, <3>1 DEF Wants
    <3>3. \A g \in Buildable : Wants(c, g) => Safe(g)
      BY <2>2, <3>2 DEF AnswersOK, Loaded
    <3> QED
      BY <1>1, <1>3, <1>5, <2>1, <3>3, StartAnswers
  <2>3. CASE CallGoes("numbers", {n \in db.protos : db.extendee[n] = s})
    <3>1. c.op = call.op /\ c.name = s /\ c.at = "numbers" /\ c.left = {n \in db.protos : db.extendee[n] = s}
      BY <1>2, <1>3, <2>3, GoneOn
    <3>2. \A g \in Buildable : ~ Wants(c, g)
      BY <1>10, <3>1, BuildableFacts DEF Wants
    <3> QED
      BY <1>1, <1>3, <1>5, <2>1, <3>2, StartAnswers
  <2> QED
    BY <2>1, <2>2, <2>3
<1> QED
  BY <1>6, <1>7, <1>8, <1>9, <1>10 DEF Look

(* FindAllExtensions looks for the next extension, or has looked for all.    *)
LEMMA NextNumberAnswers ==
  ASSUME IInv, WellKept, AnswersOK, NextNumber
  PROVE  AnswersOK'
<1>1. /\ call # NULL /\ call.at = "numbers" /\ builders = << >>
      /\ UNCHANGED <<db, entries, after, checkpoints_, finished_building_, bad>>
  BY DEF NextNumber, tables, links
<1>2. call \in Calls /\ call.op = "FindAllExtensions"
  BY <1>1 DEF IInv, CallOK, Typed
<1>3. PICK s, c : s = call.name /\ c = call'
  OBVIOUS
<1>4. \A g \in Buildable : Wants(call, g) => Safe(g)
  BY <1>1 DEF AnswersOK, Answering
<1>5. \A g : Wants(call, g) <=> db.extendee[g] = s /\ g \notin call.left
  BY <1>1, <1>2, <1>3 DEF Wants
<1>6. BadRight'
  BY <1>1, DatabaseSame DEF AnswersOK, BadRight, bad
<1>7. ASSUME NEW n \in call.left, CallGoes("numbers", call.left \ {n}),
             IF <<s, n>> \in extensions_ THEN builders' = << >> ELSE TryExtension(s, n),
             UNCHANGED extensions_loaded_from_db_
      PROVE  AnswersOK'
  <2>1. c.op = call.op /\ c.name = s /\ c.at = "numbers" /\ c.left = call.left \ {n}
    BY <1>2, <1>3, <1>7, GoneOn
  <2>2. \A g : Wants(c, g) => Wants(call, g) \/ (g = n /\ db.extendee[g] = s)
    BY <1>2, <1>5, <2>1 DEF Wants
  <2>3. /\ builders' = << >> \/ \E f \in db.protos : builders' = Append(<< >>, Builder(f))
        /\ n \in Buildable /\ db.extendee[n] = s => Safe(n) \/ builders' = Append(<< >>, Builder(n))
    BY <1>1, <1>7, TryExtensionFinds
  <2>4. Loaded'
    BY <1>1, <1>7, QuietAnswers DEF AnswersOK, entries, after
  <2> QED
    BY <1>1, <1>2, <1>3, <1>4, <1>6, <2>1, <2>2, <2>3, <2>4, StartAnswers
<1>8. CASE /\ call.left = {} /\ CallGoes("answer", {}) /\ UNCHANGED builders
           /\ extensions_loaded_from_db_' = extensions_loaded_from_db_ \cup {s}
  <2>1. c.op = call.op /\ c.name = s
    BY <1>2, <1>3, <1>8, GoneOn
  <2>2. \A g : Wants(c, g) => Wants(call, g)
    BY <1>2, <1>5, <1>8, <2>1 DEF Wants
  <2>3. \A g : Safe(g)' = Safe(g)
    BY <1>1, QuietAnswers DEF entries, after
  <2>4. \A g \in Buildable : db.extendee[g] \in extensions_loaded_from_db_ \cup {s} => Safe(g)
    BY <1>4, <1>5, <1>8 DEF AnswersOK, Loaded
  <2>5. Loaded'
    BY <1>1, <1>8, <2>3, <2>4, DatabaseSame DEF Loaded
  <2> QED
    BY <1>1, <1>3, <1>4, <1>6, <1>8, <2>2, <2>5, StartAnswers
<1> QED
  BY <1>3, <1>7, <1>8 DEF NextNumber

(* The call returns.                                                        *)
LEMMA AnswerAnswers ==
  ASSUME IInv, AnswersOK, Answer
  PROVE  AnswersOK'
<1>1. /\ builders' = << >> /\ call' = NULL
      /\ UNCHANGED <<db, entries, after, checkpoints_, finished_building_, extensions_loaded_from_db_, builders, bad>>
  BY DEF Answer
<1>2. /\ Grounded' /\ KeysRight' /\ Loaded' /\ WaitsIn(builders)' /\ FindsIn(builders)'
  BY <1>1, QuietAnswers DEF AnswersOK, entries, after
<1>3. BadRight'
  BY <1>1, DatabaseSame DEF AnswersOK, BadRight, bad
<1> QED
  BY <1>1, <1>2, <1>3 DEF AnswersOK, Answering

(* The user calls: what is remembered to be bad is forgotten.                *)
LEMMA CallAnswers ==
  ASSUME IInv, AnswersOK, NEW op, NEW name, Call(op, name)
  PROVE  AnswersOK'
<1>1. /\ call = NULL /\ known_bad_files_' = {} /\ known_bad_symbols_' = {}
      /\ UNCHANGED <<db, entries, after, checkpoints_, finished_building_, extensions_loaded_from_db_, builders>>
  BY DEF Call, tables, links
<1>2. PICK c : c = [op |-> op, name |-> name, at |-> "look", left |-> {}]
  OBVIOUS
<1>3. call' = c /\ c.at = "look"
  BY <1>2 DEF Call
<1>4. builders' = << >>
  BY <1>1 DEF IInv, CallOK
<1>5. BadRight' /\ Loaded'
  BY <1>1, QuietAnswers DEF AnswersOK, BadRight, entries, after
<1>6. \A g : ~ Wants(c, g)
  BY <1>3 DEF Wants
<1> QED
  BY <1>1, <1>3, <1>4, <1>5, <1>6, StartAnswers

(* Nothing happens.                                                         *)
LEMMA StutterAnswers ==
  ASSUME AnswersOK, UNCHANGED vars
  PROVE  AnswersOK'
<1>1. UNCHANGED <<db, entries, after, checkpoints_, finished_building_, extensions_loaded_from_db_, builders, bad, call>>
  BY DEF vars, tables, links, user
<1>2. /\ Grounded' /\ KeysRight' /\ Loaded' /\ WaitsIn(builders)' /\ FindsIn(builders)'
      /\ \A g : Safe(g)' = Safe(g)
  BY <1>1, QuietAnswers DEF AnswersOK, entries, after
<1>3. BadRight'
  BY <1>1, DatabaseSame DEF AnswersOK, BadRight, bad
<1>4. Answering'
  <2>1. Buildable' = Buildable /\ \A c, g : Wants(c, g)' = Wants(c, g)
    BY <1>1, DatabaseSame DEF Wants
  <2> QED
    BY <1>1, <1>2, <2>1 DEF AnswersOK, Answering
<1> QED
  BY <1>2, <1>3, <1>4 DEF AnswersOK

-----------------------------------------------------------------------------
(* The answers: the inductive invariant. *)

(* A new pool.                                                              *)
LEMMA InitAnswers == Init => AnswersOK
<1> SUFFICES ASSUME Init PROVE AnswersOK
  OBVIOUS
<1>1. /\ files_by_name_ = {} /\ extensions_ = {} /\ checkpoints_ = << >> /\ finished_building_ = {}
      /\ known_bad_files_ = {} /\ known_bad_symbols_ = {} /\ extensions_loaded_from_db_ = {}
      /\ builders = << >> /\ call = NULL
  BY DEF Init
<1>2. DOMAIN << >> = {}
  OBVIOUS
<1>3. WaitsIn(builders) /\ FindsIn(builders)
  BY <1>1, <1>2 DEF WaitsIn, FindsIn
<1>4. Grounded
  BY <1>1, <1>2 DEF Grounded, GroundedSet, KeptTables
<1> QED
  BY <1>1, <1>3, <1>4 DEF AnswersOK, BadRight, KeysRight, Loaded, Answering

(* The database does not change.                                             *)
LEMMA DatabaseStays == [Next]_vars => db' = db
BY DEF vars, Next, Step, Build, Enter, LoadImport, ImportsLoaded, Abandon, Add, LinkType, SetType,
       LinkExtendee, AddExtension, Finish, Look, NextNumber, Answer, CallBuildFile, CallBuildOther,
       CallFindFileByName, CallMessageType, CallFindAllExtensions, CallFindExtensionByNumber,
       CallFindSymbol, Call

(* Every step keeps it.                                                     *)
LEMMA StepAnswers == IInv /\ IInv' /\ WellKept /\ AnswersOK /\ [Next]_vars => AnswersOK'
<1> SUFFICES ASSUME IInv, IInv', WellKept, AnswersOK, [Next]_vars PROVE AnswersOK'
  OBVIOUS
<1>1. CASE Enter
  BY <1>1, EnterAnswers
<1>2. CASE LoadImport
  BY <1>2, LoadImportAnswers
<1>3. CASE ImportsLoaded
  BY <1>3, ImportsLoadedAnswers
<1>4. CASE Abandon
  BY <1>4, AbandonAnswers
<1>5. CASE Add
  BY <1>5, AddAnswers
<1>6. CASE LinkType
  BY <1>6, LinkTypeAnswers
<1>7. CASE SetType
  BY <1>7, SetTypeAnswers
<1>8. CASE LinkExtendee
  BY <1>8, LinkExtendeeAnswers
<1>9. CASE AddExtension
  BY <1>9, AddExtensionAnswers
<1>10. CASE Finish /\ ~ Top.errors
  BY <1>10, ClearAnswers
<1>11. CASE Finish /\ Top.errors
  BY <1>11, RollbackAnswers
<1>12. CASE Look
  BY <1>12, LookAnswers
<1>13. CASE NextNumber
  BY <1>13, NextNumberAnswers
<1>14. CASE Answer
  BY <1>14, AnswerAnswers
<1>15. CASE \/ \E f \in File :
                 \/ CallBuildFile(f) \/ CallBuildOther(f) \/ CallFindFileByName(f)
                 \/ CallMessageType(f) \/ CallFindAllExtensions(f)
                 \/ \E n \in File : CallFindExtensionByNumber(f, n)
            \/ \E s \in Symbol : CallFindSymbol(s)
  <2>1. \E op, name : Call(op, name)
    BY <1>15 DEF CallBuildFile, CallBuildOther, CallFindFileByName, CallMessageType,
                 CallFindAllExtensions, CallFindExtensionByNumber, CallFindSymbol
  <2> QED
    BY <2>1, CallAnswers
<1>16. CASE UNCHANGED vars
  BY <1>16, StutterAnswers
<1> QED
  BY <1>1, <1>2, <1>3, <1>4, <1>5, <1>6, <1>7, <1>8, <1>9, <1>10, <1>11, <1>12, <1>13, <1>14,
     <1>15, <1>16 DEF Next, Step, Build

(* The answers of a pool with a well-kept database are right at all times.   *)
LEMMA AnswersInvariance == Spec => [](WellKept => AnswersOK)
<1>1. Init => (WellKept => AnswersOK)
  BY InitAnswers
<1>2. IInv /\ IInv' /\ (WellKept => AnswersOK) /\ [Next]_vars => (WellKept => AnswersOK)'
  BY StepAnswers, DatabaseStays, DatabaseSame
<1> QED
  BY <1>1, <1>2, Invariance, PTL DEF Spec

(* When a call returns its file, symbol or extensions, the tables hold what   *)
(* the database determines: FindFileByName, Find*ByName,                      *)
(* FindExtensionByNumber and FindAllExtensions, whatever other files were     *)
(* built for it, failed, or were remembered to be bad.                       *)
THEOREM AnswersRight == Spec => []AnswerIsRight
<1>1. IInv /\ (WellKept => AnswersOK) => AnswerIsRight
  <2> SUFFICES ASSUME IInv, WellKept, AnswersOK, call # NULL, call.at = "answer", builders = << >>
               PROVE  RightAnswer
    BY DEF AnswerIsRight
  <2>1. PICK s : s = call.name
    OBVIOUS
  <2>2. /\ files_by_name_ = finished_building_
        /\ \A f : f \in files_by_name_ <=> Safe(f)
    BY IdleFacts, IdleSafe
  <2>3. files_by_name_ \subseteq Buildable
    <3>1. CASE db.mode = DATABASE
      <4>1. files_by_name_ \in KeptTables
        BY DEF KeptTables
      <4>2. GroundedSet(files_by_name_)
        BY <3>1, <4>1 DEF AnswersOK, Grounded
      <4> QED
        BY <2>2, <4>2, BuildableLeast DEF GroundedSet
    <3>2. CASE db.mode = LAZY
      BY <3>2 DEF IInv, LazyOK, WellKept
    <3> QED
      BY <3>1, <3>2, DatabaseFacts DEF IInv, WellKept
  <2>4. \A g \in Buildable : Wants(call, g) => g \in files_by_name_
    BY <2>2 DEF AnswersOK, Answering
  <2>5. \A g \in File : Extended(g) \/ g \notin files_by_name_
    BY <2>2 DEF IInv, TablesOK, EntriesOK
  <2>6. call.op \in Ops
    BY DEF IInv, Typed, Calls
  <2>7. Buildable \subseteq File /\ NULL \notin File
    BY BuildableLeast, DatabaseFacts DEF IInv
  <2>8. CASE call.op = "FindFileByName"
    <3>1. s \in Buildable => Wants(call, s)
      BY <2>1, <2>8 DEF Wants
    <3>2. s \in files_by_name_ <=> s \in Buildable
      BY <2>3, <2>4, <3>1
    <3> QED
      BY <2>1, <2>8, <3>2 DEF RightAnswer
  <2>9. CASE call.op \in {"FindSymbol", "message_type"}
    <3>1. s \in Buildable => Wants(call, s)
      BY <2>1, <2>9 DEF Wants
    <3>2. s \in Symbol
      BY <2>1, <2>9, DatabaseFacts DEF IInv, CallOK
    <3>3. symbols_by_name_[s] = IF s \in Buildable THEN s ELSE NULL
      BY <2>3, <2>4, <3>1, <3>2, FileIsNamed, NameIsFile
    <3> QED
      BY <2>1, <2>9, <3>3 DEF RightAnswer
  <2>10. CASE call.op = "FindExtensionByNumber"
    <3>1. s = <<s[1], s[2]>> /\ s[1] \in File /\ s[2] \in File
      BY <2>1, <2>10 DEF IInv, CallOK
    <3>2. ASSUME s \in extensions_ PROVE s[2] \in Buildable /\ db.extendee[s[2]] = s[1]
      BY <2>3, <3>2 DEF AnswersOK, KeysRight, IInv, TablesOK, EntriesOK
    <3>3. ASSUME s[2] \in Buildable, db.extendee[s[2]] = s[1] PROVE s \in extensions_
      <4>1. Wants(call, s[2])
        BY <2>1, <2>10, <3>1, <3>3 DEF Wants
      <4>2. Extended(s[2])
        BY <2>4, <2>5, <2>7, <3>3, <4>1
      <4> QED
        BY <2>7, <3>1, <3>3, <4>2 DEF Extended
    <3> QED
      BY <2>1, <2>10, <3>2, <3>3 DEF RightAnswer
  <2>11. CASE call.op = "FindAllExtensions"
    <3>1. s \in File
      BY <2>1, <2>11 DEF IInv, CallOK
    <3>2. ASSUME NEW n \in File, <<s, n>> \in extensions_ PROVE n \in Buildable /\ db.extendee[n] = s
      <4>1. <<s, n>>[1] = s /\ <<s, n>>[2] = n
        OBVIOUS
      <4> QED
        BY <2>3, <3>2, <4>1 DEF AnswersOK, KeysRight, IInv, TablesOK, EntriesOK
    <3>3. ASSUME NEW n \in Buildable, db.extendee[n] = s PROVE n \in File /\ <<s, n>> \in extensions_
      <4>1. Wants(call, n)
        BY <2>1, <2>11, <3>3 DEF Wants
      <4>2. Extended(n)
        BY <2>4, <2>5, <2>7, <4>1
      <4> QED
        BY <2>7, <3>1, <3>3, <4>2 DEF Extended
    <3>4. {n \in File : <<s, n>> \in extensions_} = {n \in Buildable : db.extendee[n] = s}
      BY <3>2, <3>3
    <3> QED
      BY <2>1, <2>11, <3>4 DEF RightAnswer
  <2>12. call.op \notin {"BuildFile", "BuildOther"}
    BY DEF IInv, CallOK, WellKept
  <2> QED
    BY <2>6, <2>8, <2>9, <2>10, <2>11, <2>12 DEF Ops
<1> QED
  BY <1>1, Invariance, AnswersInvariance, PTL
=============================================================================
