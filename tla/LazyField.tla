------------------------------ MODULE LazyField ------------------------------
(***************************************************************************)
(* LazyFieldLite.java: a message field held as bytes and parsed on demand.  *)
(* Its getters may run concurrently; a setter runs while nobody else uses   *)
(* the field it changes, but the field it merges from or copies may be      *)
(* parsed meanwhile by getters of other threads (LazyFieldLite.java:40-47). *)
(*                                                                         *)
(* A message is the sequence of the pieces that were merged into it, and a   *)
(* byte string the pieces its bytes encode; wire tells bytes that came from  *)
(* outside from those a message was serialised to, which may differ although *)
(* they encode the same.  Bad is a piece that does not parse.                *)
(***************************************************************************)
EXTENDS Naturals, Sequences, FiniteSets

CONSTANTS
  Threads,
  Fields,     (* The LazyFieldLite objects.                                 *)
  Pieces,     (* What the users merge into the fields.                      *)
  Bad,        (* Bytes that are no message.                                 *)
  Garbled,    (* The fields a parser finds when it starts at a wrong byte.  *)
  Inputs,     (* The pieces, or Bad, that the users' byte strings hold.     *)
  NULL,
  MaxPieces   (* Bound on the pieces of a field.                            *)

Message == UNION {[1..n -> Pieces \union {Garbled}] : n \in 0..MaxPieces}
ByteString ==
  [of : UNION {[1..n -> Pieces \union {Bad, Garbled}] : n \in 0..MaxPieces}, wire : BOOLEAN]

ASSUME PiecesAssumption ==
  /\ Bad \notin Pieces /\ Garbled \notin Pieces /\ Bad # Garbled
  /\ Inputs \subseteq Pieces \union {Bad}
  /\ MaxPieces \in Nat \ {0}
  /\ NULL \notin Threads \union Fields \union Message \union ByteString

VARIABLES
  field,    (* field[f]: the variables of f; extensionRegistry: whether not null *)
  monitor,  (* monitor[f]: the thread inside "synchronized (this)", or NULL *)
  call,     (* call[t]: the call t is in, and the fields it works on        *)
  history   (* history[f], not in the code: the content the users gave f,   *)
            (* how some of it got lost, and the bytes handed out since f    *)
            (* was last changed                                             *)

vars == <<field, monitor, call, history>>

default == << >>                                 (* The default instance.   *)
EMPTY == [of |-> << >>, wire |-> TRUE]           (* ByteString.EMPTY        *)
Serialized(message) == [of |-> message, wire |-> FALSE]
Valid(pieces) == \A i \in 1..Len(pieces) : pieces[i] # Bad

(* Mutant: the operands are swapped. *)
SwappedConcat(b, c) ==
  IF c.of = << >> THEN b
  ELSE IF b.of = << >> THEN c ELSE [of |-> c.of \o b.of, wire |-> TRUE]

(* ByteString.concat returns the other operand if one is empty. *)
Concat(b, c) ==
  IF c.of = << >> THEN b
  ELSE IF b.of = << >> THEN c ELSE [of |-> b.of \o c.of, wire |-> TRUE]

(* value.toBuilder().mergeFrom(bytes): bytes that do not parse are ignored.  *)
MergeValueAndBytes(value, bytes) == IF Valid(bytes.of) THEN value \o bytes.of ELSE value

NoCall == [pc |-> "idle", field |-> NULL, other |-> NULL]
Goto(t, label) == call' = [call EXCEPT ![t].pc = label]
At(t, label) == call[t].pc = label

(* Mutant: the call ends with the other field still in its hands.            *)
ReturnHolding(t) == call' = [call EXCEPT ![t].pc = "idle", ![t].field = NULL]

Return(t) == call' = [call EXCEPT ![t] = NoCall]

(* A getter may be called unless f is being set; a setter when f is unused.  *)
Setting(t) == call[t].other # NULL
Readable(f) == \A t \in Threads : Setting(t) => call[t].field # f
Unused(f) == \A t \in Threads : f \notin {call[t].field, call[t].other}

Init ==
  /\ field = [f \in Fields |-> [delayedBytes |-> NULL, value |-> NULL,
                                memoizedBytes |-> NULL, extensionRegistry |-> FALSE]]
  /\ monitor = [f \in Fields |-> NULL]
  /\ call = [t \in Threads |-> NoCall]
  /\ history = [f \in Fields |->
       [content |-> << >>, lost |-> "nothing", bytes |-> {}]]

(* f now holds what the users have given it as content. *)
Changed(f, content, lost) ==
  history' = [history EXCEPT ![f] =
    [content |-> content, lost |-> lost, bytes |-> {}]]

(* What a parser finds in the pieces of one byte string. *)
Effective(pieces) == IF Valid(pieces) THEN pieces ELSE << >>

(* The bytes b are handed out, or their size is; empty is empty. *)
HandOut(f, b) ==
  history' = [history EXCEPT ![f].bytes =
    @ \union {IF b.of = << >> THEN EMPTY ELSE b}]

-----------------------------------------------------------------------------
(* The getters. *)

Get(t, f, label) ==
  /\ At(t, "idle") /\ Readable(f)
  /\ call' = [call EXCEPT ![t] = [NoCall EXCEPT !.pc = label, !.field = f]]
  /\ UNCHANGED <<field, monitor, history>>

GetValue(t, f) == Get(t, f, "check")
ToByteString(t, f) == Get(t, f, "bytes")
GetSerializedSize(t, f) == Get(t, f, "size")

(* ensureInitialized, the check without the monitor. *)
CheckValue(t) ==
  /\ At(t, "check")
  /\ IF field[call[t].field].value # NULL THEN Return(t) ELSE Goto(t, "lock")
  /\ UNCHANGED <<field, monitor, history>>

(* Mutant: the value is not checked again inside the monitor. *)
EnterUnchecked(t) ==
  /\ At(t, "lock")
  /\ monitor[call[t].field] = NULL
  /\ monitor' = [monitor EXCEPT ![call[t].field] = t]
  /\ Goto(t, "parse")
  /\ UNCHANGED <<field, history>>

(* Enter the monitor; leave it again if another thread has parsed.           *)
EnterMonitor(t) ==
  /\ At(t, "lock")
  /\ monitor[call[t].field] = NULL
  /\ IF field[call[t].field].value # NULL
       THEN Return(t) /\ UNCHANGED monitor
       ELSE /\ monitor' = [monitor EXCEPT ![call[t].field] = t]
            /\ Goto(t, "parse")
  /\ UNCHANGED <<field, history>>

(* What delayedBytes parse to: the default instance if they do not.          *)
ParsedValue(bytes) == IF bytes # NULL /\ Valid(bytes.of) THEN bytes.of ELSE default

(* The first write: value. *)
ParseValue(t) ==
  /\ At(t, "parse")
  /\ LET f == call[t].field IN
     field' = [field EXCEPT ![f].value = ParsedValue(field[f].delayedBytes)]
  /\ Goto(t, "memoize")
  /\ UNCHANGED <<monitor, history>>

(* The bytes memoized with a parsed value. *)
ParsedBytes(bytes) == IF bytes # NULL /\ Valid(bytes.of) THEN bytes ELSE EMPTY

(* The second write, memoizedBytes; leave the monitor and return the value.  *)
MemoizeParsed(t) ==
  /\ At(t, "memoize")
  /\ LET f == call[t].field IN
     /\ field' = [field EXCEPT ![f].memoizedBytes = ParsedBytes(field[f].delayedBytes)]
     /\ monitor' = [monitor EXCEPT ![f] = NULL]
  /\ Return(t)
  /\ UNCHANGED history

(* toByteString without the monitor: memoizedBytes, or else delayedBytes.    *)
ReadBytes(t) ==
  /\ At(t, "bytes")
  /\ LET f == call[t].field
         memoized == field[f].memoizedBytes
         delayed == field[f].delayedBytes
     IN \/ memoized # NULL /\ HandOut(f, memoized) /\ Return(t)
        \/ memoized = NULL /\ delayed # NULL /\ HandOut(f, delayed) /\ Return(t)
        \/ memoized = NULL /\ delayed = NULL /\ Goto(t, "serialize") /\ UNCHANGED history
  /\ UNCHANGED <<field, monitor>>

(* The bytes toByteString memoizes inside the monitor. *)
MemoizedBytes(f) ==
  IF field[f].memoizedBytes # NULL THEN field[f].memoizedBytes
  ELSE IF field[f].value = NULL THEN EMPTY ELSE Serialized(field[f].value)

(* toByteString inside the monitor. *)
SerializeValue(t) ==
  /\ At(t, "serialize")
  /\ LET f == call[t].field
     IN /\ monitor[f] = NULL
        /\ field' = [field EXCEPT ![f].memoizedBytes = MemoizedBytes(f)]
        /\ HandOut(f, MemoizedBytes(f))
  /\ Return(t)
  /\ UNCHANGED monitor

(* getSerializedSize: memoizedBytes, or else delayedBytes. *)
ReadSize(t) ==
  /\ At(t, "size")
  /\ LET f == call[t].field
         memoized == field[f].memoizedBytes
         delayed == field[f].delayedBytes
     IN \/ memoized # NULL /\ HandOut(f, memoized) /\ Return(t)
        \/ memoized = NULL /\ delayed # NULL /\ HandOut(f, delayed) /\ Return(t)
        \/ memoized = NULL /\ delayed = NULL /\ Goto(t, "sizeOfValue") /\ UNCHANGED history
  /\ UNCHANGED <<field, monitor>>

(* getSerializedSize: no bytes; the size of the value, or 0. *)
ReadSizeOfValue(t) ==
  /\ At(t, "sizeOfValue")
  /\ LET f == call[t].field IN
     HandOut(f, IF field[f].value # NULL THEN Serialized(field[f].value) ELSE EMPTY)
  /\ Return(t)
  /\ UNCHANGED <<field, monitor>>

-----------------------------------------------------------------------------
(* The setters. *)

(* Mutant: delayedBytes stay. *)
HoldValueOnly(value, old) == [old EXCEPT !.memoizedBytes = NULL, !.value = value]

(* setValue: the value and no bytes. *)
HoldValue(value, old) ==
  [old EXCEPT !.delayedBytes = NULL, !.memoizedBytes = NULL, !.value = value]

(* Mutant: the memoized bytes of the old content stay. *)
HoldBytesKeepMemoized(bytes, old) ==
  [old EXCEPT !.delayedBytes = bytes, !.extensionRegistry = TRUE, !.value = NULL]

(* setByteString: the bytes, to be parsed with the registry, and no value.   *)
HoldBytes(bytes, old) ==
  [delayedBytes |-> bytes, extensionRegistry |-> TRUE, value |-> NULL, memoizedBytes |-> NULL]

SetValue(t, f, value) ==
  /\ At(t, "idle") /\ Unused(f)
  /\ field' = [field EXCEPT ![f] = HoldValue(value, field[f])]
  /\ Changed(f, value, "nothing")
  /\ UNCHANGED <<monitor, call>>

SetByteString(t, f, bytes) ==
  /\ At(t, "idle") /\ Unused(f)
  /\ field' = [field EXCEPT ![f] = HoldBytes(bytes, field[f])]
  /\ Changed(f, bytes.of, "nothing")
  /\ UNCHANGED <<monitor, call>>

(* clear keeps the registry. *)
Clear(t, f) ==
  /\ At(t, "idle") /\ Unused(f)
  /\ field' = [field EXCEPT ![f] = HoldValue(NULL, field[f])]
  /\ Changed(f, << >>, "nothing")
  /\ UNCHANGED <<monitor, call>>

(* Mutant: bytes that wait to be parsed are forgotten. *)
NoValueHeld(f) == field[f].value = NULL

(* containsDefaultInstance: an identity test on the bytes.  It reads         *)
(* memoizedBytes first.                                                      *)
MemoizedEmpty(f) == field[f].memoizedBytes = EMPTY
NothingHeld(f) == field[f].value = NULL /\ field[f].delayedBytes \in {NULL, EMPTY}
ContainsDefaultInstance(f) == MemoizedEmpty(f) \/ NothingHeld(f)

(* A stream holds the length of some bytes and the bytes.  The builder of a   *)
(* value is given the stream, not the bytes, and takes the length for a tag:  *)
(* parsing fails and is forgotten, or it finds fields that nobody wrote.      *)
MergeUnframed(old) ==
  {[old EXCEPT !.extensionRegistry = TRUE]} \union
  {HoldValue(Append(old.value, Garbled), [old EXCEPT !.extensionRegistry = TRUE])}

(* The pieces of f, for the bound MaxPieces. *)
Size(f) ==
  IF field[f].value # NULL /\ Len(field[f].value) > Len(history[f].content)
    THEN Len(field[f].value) ELSE Len(history[f].content)

(* mergeFrom(CodedInputStream). *)
MergeFromStream(t, f, bytes) ==
  /\ At(t, "idle") /\ Unused(f)
  /\ Size(f) + Len(bytes.of) <= MaxPieces
  /\ \/ /\ ContainsDefaultInstance(f)
        /\ field' = [field EXCEPT ![f] = HoldBytes(bytes, field[f])]
        /\ Changed(f, Effective(history[f].content) \o bytes.of, "nothing")
     \/ /\ ~ ContainsDefaultInstance(f) /\ field[f].delayedBytes # NULL
        /\ field' = [field EXCEPT ![f] =
             HoldBytes(Concat(field[f].delayedBytes, bytes), field[f])]
        /\ Changed(f, history[f].content \o bytes.of, "nothing")
     \/ /\ ~ ContainsDefaultInstance(f) /\ field[f].delayedBytes = NULL
        /\ \E new \in MergeUnframed(field[f]) : field' = [field EXCEPT ![f] = new]
        /\ Changed(f, Effective(history[f].content) \o Effective(bytes.of), "stream")
  /\ UNCHANGED <<monitor, call>>

(* merge and set work on f while other threads may parse g.                  *)
Take(t, f, g, label) ==
  /\ At(t, "idle") /\ f # g /\ Unused(f) /\ Readable(g)
  /\ call' = [call EXCEPT ![t] = [pc |-> label, field |-> f, other |-> g]]
  /\ UNCHANGED <<field, monitor, history>>

Merge(t, f, g) ==
  /\ Size(f) + Size(g) <= MaxPieces
  /\ Take(t, f, g, "default")
Set(t, f, g) == Take(t, f, g, "copyValue")

(* Both contents, the second last. *)
BothContents(f, g) == Effective(history[f].content) \o Effective(history[g].content)

Lost(f, g) == IF history[f].lost # "nothing" THEN history[f].lost ELSE history[g].lost

(* f stays as it is and had better: g has nothing to merge. *)
Unchanged(f, g) ==
  history' = [history EXCEPT ![f].content = @ \o Effective(history[g].content)]

(* merge: other.containsDefaultInstance() reads memoizedBytes.               *)
ReadOtherMemoized(t) ==
  /\ At(t, "default")
  /\ LET f == call[t].field
         g == call[t].other
     IN IF MemoizedEmpty(g)
          THEN Unchanged(f, g) /\ Return(t)
          ELSE Goto(t, "held") /\ UNCHANGED history
  /\ UNCHANGED <<field, monitor>>

(* other.containsDefaultInstance() reads value; then this.                   *)
ReadOtherHeld(t) ==
  /\ At(t, "held")
  /\ LET f == call[t].field
         g == call[t].other
     IN \/ NothingHeld(g) /\ Unchanged(f, g) /\ Return(t)
        \/ /\ ~ NothingHeld(g)
           /\ Goto(t, IF ContainsDefaultInstance(f) THEN "copyValue" ELSE "combine")
           /\ UNCHANGED history
  /\ UNCHANGED <<field, monitor>>

(* Mutant: the registry is not copied. *)
CopyBytesAndValue(old, other) ==
  [old EXCEPT !.delayedBytes = other.delayedBytes, !.value = other.value]

(* set: delayedBytes, value and the registry, if there is one.               *)
CopyValue(old, other) ==
  [old EXCEPT !.delayedBytes = other.delayedBytes,
              !.value = other.value,
              !.extensionRegistry = other.extensionRegistry \/ old.extensionRegistry]

SetValueFromOther(t) ==
  /\ At(t, "copyValue")
  /\ LET f == call[t].field
         g == call[t].other
     IN /\ field' = [field EXCEPT ![f] = CopyValue(field[f], field[g])]
        /\ Changed(f, history[g].content, history[g].lost)
  /\ Goto(t, "copyMemoized")
  /\ UNCHANGED monitor

(* set: memoizedBytes, which another thread may have written since.          *)
SetMemoizedFromOther(t) ==
  /\ At(t, "copyMemoized")
  /\ field' = [field EXCEPT ![call[t].field].memoizedBytes = field[call[t].other].memoizedBytes]
  /\ Return(t)
  /\ UNCHANGED <<monitor, history>>

(* merge: both fields came as bytes. *)
Concatenates(f, g) == field[f].delayedBytes # NULL /\ field[g].delayedBytes # NULL

(* delayedBytes change; value and memoizedBytes stay. *)
ConcatenateBytes(t) ==
  /\ At(t, "combine")
  /\ LET f == call[t].field
         g == call[t].other
     IN /\ Concatenates(f, g)
        /\ field' = [field EXCEPT
             ![f].delayedBytes = Concat(field[f].delayedBytes, field[g].delayedBytes),
             ![f].extensionRegistry = field[f].extensionRegistry \/ field[g].extensionRegistry]
        /\ Changed(f, history[f].content \o history[g].content,
                   IF field[f].value = NULL /\ field[f].memoizedBytes = NULL
                     THEN "nothing" ELSE "merge")
  /\ Return(t)
  /\ UNCHANGED monitor

(* Mutant: the value of a parsed field is taken as it is.                    *)
TakeEitherValue(this, other) ==
  IF this.value = NULL THEN other.value ELSE this.value

(* The value merge computes when at most one field came as bytes.  In the    *)
(* first case this's bytes are merged into the other's value.                *)
MergedValue(this, other) ==
  IF this.value = NULL THEN MergeValueAndBytes(other.value, this.delayedBytes)
  ELSE IF other.value = NULL THEN MergeValueAndBytes(this.value, other.delayedBytes)
  ELSE this.value \o other.value

MergeValues(t) ==
  /\ At(t, "combine")
  /\ LET f == call[t].field
         g == call[t].other
     IN /\ ~ Concatenates(f, g)
        /\ field' = [field EXCEPT ![f] =
             HoldValue(MergedValue(field[f], field[g]),
                       [field[f] EXCEPT !.extensionRegistry =
                          field[f].extensionRegistry \/ field[g].extensionRegistry])]
        /\ Changed(f, BothContents(f, g), Lost(f, g))
  /\ Return(t)
  /\ UNCHANGED monitor

-----------------------------------------------------------------------------

(* What users put in: at most one piece, or bytes that are no message.       *)
MessageInputs == {<< >>} \union {<<p>> : p \in Pieces}
StreamInputs == {[of |-> <<p>>, wire |-> TRUE] : p \in Inputs}
BytesInputs == {EMPTY} \union StreamInputs

GetterStep(t) ==
  \/ CheckValue(t) \/ EnterMonitor(t) \/ ParseValue(t) \/ MemoizeParsed(t)
  \/ ReadBytes(t) \/ SerializeValue(t) \/ ReadSize(t) \/ ReadSizeOfValue(t)

SetterStep(t) ==
  \/ ReadOtherMemoized(t) \/ ReadOtherHeld(t)
  \/ SetValueFromOther(t) \/ SetMemoizedFromOther(t)
  \/ ConcatenateBytes(t) \/ MergeValues(t)

Step(t) == GetterStep(t) \/ SetterStep(t)

Begin(t, f) ==
  \/ GetValue(t, f) \/ ToByteString(t, f) \/ GetSerializedSize(t, f)
  \/ \E value \in MessageInputs : SetValue(t, f, value)
  \/ \E bytes \in BytesInputs : SetByteString(t, f, bytes)
  \/ \E bytes \in StreamInputs : MergeFromStream(t, f, bytes)
  \/ Clear(t, f)
  \/ \E g \in Fields : Merge(t, f, g) \/ Set(t, f, g)

Next == \E t \in Threads : Step(t) \/ \E f \in Fields : Begin(t, f)

Spec == Init /\ [][Next]_vars

-----------------------------------------------------------------------------
(* Properties. *)

Calls ==
  {NoCall} \union
  [pc : {"check", "lock", "parse", "memoize", "bytes", "serialize", "size", "sizeOfValue"},
   field : Fields, other : {NULL}] \union
  [pc : {"default", "held", "copyValue", "copyMemoized", "combine"},
   field : Fields, other : Fields]

LazyFieldLite ==
  [delayedBytes : ByteString \union {NULL}, value : Message \union {NULL},
   memoizedBytes : ByteString \union {NULL}, extensionRegistry : BOOLEAN]

Content == UNION {[1..n -> Pieces \union {Bad}] : n \in 0..MaxPieces}

(* Every variable has its type: at most MaxPieces pieces, and a call whose    *)
(* fields fit what it does.                                                   *)
TypeOK ==
  /\ field \in [Fields -> LazyFieldLite]
  /\ monitor \in [Fields -> Threads \union {NULL}]
  /\ call \in [Threads -> Calls]
  /\ history \in [Fields -> [content : Content, lost : {"nothing", "merge", "stream"},
                             bytes : SUBSET ByteString]]

(* How often x is among the pieces s. *)
Count(s, x) == Cardinality({i \in 1..Len(s) : s[i] = x})

SamePieces(s, r) ==
  /\ Len(s) = Len(r)
  /\ \A x \in {s[i] : i \in 1..Len(s)} \union {r[i] : i \in 1..Len(r)} :
       Count(s, x) = Count(r, x)

(* Bytes that wait to be parsed have a registry to be parsed with, whatever   *)
(* fields they and the registry were copied or merged from                    *)
(* (LazyFieldLite.java:89, and the comment at :411).                          *)
RegistryKept ==
  \A f \in Fields : field[f].delayedBytes # NULL => field[f].extensionRegistry

(* A field's bytes are all that was merged into the field, in that order,     *)
(* while other threads parse the fields it was merged from.                   *)
DelayedIsContent ==
  \A f \in Fields :
    field[f].delayedBytes # NULL => field[f].delayedBytes.of = history[f].content

(* A parsed value is all that was merged into the field and nothing else,     *)
(* whichever of the fields were parsed, being parsed or still bytes when they *)
(* were merged; the loss that NothingLost shows, the one of a field copied    *)
(* while it is parsed, and that of MergeUnframed are left out.                *)
ValueIsContent ==
  \A f \in Fields :
    field[f].value # NULL /\ history[f].lost = "nothing" =>
      SamePieces(field[f].value, Effective(history[f].content))

(* An empty field is one the users left empty: the bytes a caller gets for    *)
(* nothing, no bytes and no value, are never those of a valid content.        *)
EmptyIsContent ==
  \A f \in Fields :
    ContainsDefaultInstance(f) /\ Readable(f) /\ history[f].lost = "nothing" =>
      Effective(history[f].content) = << >>

(* toByteString and getSerializedSize answer alike until the field changes,   *)
(* before, while and after some thread parses it: a parent writes the bytes   *)
(* after the length (LazyFieldLite.java:359, :377), provided they parse.      *)
BytesStable ==
  \A f \in Fields :
    Valid(history[f].content) /\ history[f].lost = "nothing" =>
      Cardinality(history[f].bytes) <= 1

(* No thread parses what another has parsed: threads that race get the same   *)
(* message, and a value that was handed out is not replaced.                  *)
ParsedOnce ==
  \A t \in Threads : At(t, "parse") => field[call[t].field].value = NULL

-----------------------------------------------------------------------------
(* What the comments say and the code does not do. *)

(* merge "Merges another instance's contents" (LazyFieldLite.java:243): a     *)
(* field that was parsed from its bytes holds as value what its bytes hold.   *)
NothingLost ==
  \A f \in Fields :
    field[f].value # NULL /\ field[f].delayedBytes # NULL =>
      SamePieces(field[f].value, Effective(field[f].delayedBytes.of))
=============================================================================
