---------------------------- MODULE LazyFieldProofs ----------------------------
(***************************************************************************)
(* For any threads, fields and pieces: the bytes, the value and the answers *)
(* of a lazily parsed field agree with what was merged into it, while other *)
(* threads parse the fields it is copied or merged from.                    *)
(***************************************************************************)
EXTENDS LazyField, FunctionTheorems, FiniteSetTheorems, SequenceTheorems, TLAPS

-----------------------------------------------------------------------------
(* The inductive invariant. *)

(* What the bytes b count for: those of an empty message are alike.          *)
Canonical(b) == IF b.of = << >> THEN EMPTY ELSE b

(* The bytes f answers with, whichever of its variables a getter finds.      *)
Answer(f) ==
  IF field[f].delayedBytes # NULL THEN Canonical(field[f].delayedBytes)
  ELSE IF field[f].value # NULL THEN Canonical(Serialized(field[f].value))
  ELSE EMPTY

(* f has the value of the field it is copied from and still its own bytes.   *)
Copying(f) == \E t \in Threads : At(t, "copyMemoized") /\ call[t].field = f

DelayedOK(f) ==
  /\ field[f].delayedBytes # NULL =>
       field[f].extensionRegistry /\ field[f].delayedBytes.of = history[f].content
  /\ field[f].delayedBytes = NULL => Valid(history[f].content)

ValueOK(f) ==
  /\ field[f].value # NULL /\ history[f].lost = "nothing" =>
       SamePieces(field[f].value, Effective(history[f].content))
  /\ field[f].value = NULL /\ field[f].delayedBytes = NULL => history[f].content = << >>

MemoizedOK(f) ==
  ~ Copying(f) => (MemoizedEmpty(f) => Effective(history[f].content) = << >>)

(* Handed out, and memoized to be handed out, is only the one answer. *)
BytesOK(f) ==
  Valid(history[f].content) /\ history[f].lost = "nothing" =>
    /\ history[f].bytes \subseteq {Answer(f)}
    /\ ~ Copying(f) /\ field[f].memoizedBytes # NULL =>
         Canonical(field[f].memoizedBytes) = Answer(f)

FieldOK(f) == DelayedOK(f) /\ ValueOK(f) /\ MemoizedOK(f) /\ BytesOK(f)

(* A field that is being set is used by no other call. *)
Alone(t) ==
  Setting(t) =>
    /\ call[t].other # call[t].field
    /\ \A u \in Threads \ {t} : call[t].field \notin {call[u].field, call[u].other}

ParseOK(t) ==
  /\ call[t].pc \in {"parse", "memoize"} => monitor[call[t].field] = t
  /\ At(t, "parse") => field[call[t].field].value = NULL
  /\ At(t, "memoize") =>
       /\ field[call[t].field].value # NULL
       /\ field[call[t].field].delayedBytes = NULL =>
            field[call[t].field].value = << >> /\ history[call[t].field].content = << >>
  /\ call[t].pc \in {"serialize", "sizeOfValue"} => field[call[t].field].delayedBytes = NULL

MergeOK(t) ==
  /\ call[t].pc \in {"default", "held", "combine"} =>
       Size(call[t].field) + Size(call[t].other) <= MaxPieces
  /\ At(t, "combine") =>
       /\ ~ NothingHeld(call[t].field) /\ ~ NothingHeld(call[t].other)
       /\ ~ MemoizedEmpty(call[t].field)

(* f got everything but the memoized bytes from g, which may have been parsed *)
(* since.                                                                    *)
CopyOK(t) ==
  At(t, "copyMemoized") =>
    /\ history[call[t].field].content = history[call[t].other].content
    /\ history[call[t].field].lost = history[call[t].other].lost
    /\ Answer(call[t].field) = Answer(call[t].other)

CallOK(t) == Alone(t) /\ ParseOK(t) /\ MergeOK(t) /\ CopyOK(t)

IInv ==
  /\ TypeOK
  /\ \A f \in Fields : FieldOK(f)
  /\ \A t \in Threads : CallOK(t)

-----------------------------------------------------------------------------
(* The pieces of messages and byte strings. *)

(* The model's bounded sequences are the sequences of bounded length. *)
LEMMA BoundedSeq ==
  ASSUME NEW S, NEW s
  PROVE  s \in UNION {[1..n -> S] : n \in 0..MaxPieces} <=> s \in Seq(S) /\ Len(s) <= MaxPieces
<1>1. MaxPieces \in Nat
  BY PiecesAssumption
<1>2. ASSUME s \in UNION {[1..n -> S] : n \in 0..MaxPieces}
      PROVE  s \in Seq(S) /\ Len(s) <= MaxPieces
  <2>1. PICK n \in 0..MaxPieces : s \in [1..n -> S]
    BY <1>2
  <2>2. n \in Nat /\ n <= MaxPieces
    BY <1>1, <2>1
  <2>3. s \in Seq(S)
    BY <2>1, <2>2, SeqDef
  <2> QED
    BY <2>1, <2>2, <2>3, LenProperties
<1>3. ASSUME s \in Seq(S), Len(s) <= MaxPieces
      PROVE  s \in UNION {[1..n -> S] : n \in 0..MaxPieces}
  <2>1. s \in [1..Len(s) -> S] /\ Len(s) \in 0..MaxPieces
    BY <1>1, <1>3, LenProperties
  <2> QED
    BY <2>1
<1> QED
  BY <1>2, <1>3

(* How often a piece occurs in a sequence.                                  *)
LEMMA CountType ==
  ASSUME NEW S, NEW s \in Seq(S), NEW x
  PROVE  /\ IsFiniteSet({i \in 1..Len(s) : s[i] = x}) /\ Count(s, x) \in Nat
         /\ x \notin {s[i] : i \in 1..Len(s)} => Count(s, x) = 0
<1> DEFINE P == {i \in 1..Len(s) : s[i] = x}
<1>1. Len(s) \in Nat
  BY LenProperties
<1>2. IsFiniteSet(1..Len(s))
  BY <1>1, FS_Interval
<1>3. IsFiniteSet(P)
  BY <1>2, FS_Subset
<1>4. x \notin {s[i] : i \in 1..Len(s)} => P = {}
  OBVIOUS
<1> QED
  BY <1>3, <1>4, FS_CardinalityType, FS_EmptySet DEF Count

(* Occurrences in a concatenation add up.                                   *)
LEMMA CountConcat ==
  ASSUME NEW S, NEW s \in Seq(S), NEW r \in Seq(S), NEW x
  PROVE  Count(s \o r, x) = Count(s, x) + Count(r, x)
<1> DEFINE n == Len(s)
           P == {i \in 1..Len(s) : s[i] = x}
           Q == {i \in 1..Len(r) : r[i] = x}
           R == {i \in n + 1..n + Len(r) : r[i - n] = x}
           f == [i \in Q |-> i + n]
<1>1. n \in Nat /\ Len(r) \in Nat
  BY LenProperties
<1>2. /\ Len(s \o r) = n + Len(r)
      /\ \A i \in 1..n + Len(r) : (s \o r)[i] = IF i <= n THEN s[i] ELSE r[i - n]
  BY <1>1, ConcatProperties
<1>3. {i \in 1..Len(s \o r) : (s \o r)[i] = x} = P \union R
  BY <1>1, <1>2
<1>4. P \intersect R = {}
  BY <1>1
<1>5. IsFiniteSet(P) /\ IsFiniteSet(Q) /\ Cardinality(Q) \in Nat /\ Cardinality(P) \in Nat
  BY CountType DEF Count
<1>6. f \in Bijection(Q, R)
  <2>1. f \in [Q -> R]
    BY <1>1
  <2>2. \A i, j \in Q : f[i] = f[j] => i = j
    BY <1>1
  <2>3. \A j \in R : \E i \in Q : f[i] = j
    <3> SUFFICES ASSUME NEW j \in R
                 PROVE  \E i \in Q : f[i] = j
      OBVIOUS
    <3>1. j - n \in Q /\ f[j - n] = j
      BY <1>1
    <3> QED
      BY <3>1
  <2> HIDE DEF f, Q, R
  <2> QED
    BY <2>1, <2>2, <2>3, Fun_IsBij
<1>7. IsFiniteSet(R) /\ Cardinality(R) = Cardinality(Q)
  BY <1>5, <1>6, FS_Bijection, Zenon DEF ExistsBijection
<1>8. Cardinality(P \union R) = Cardinality(P) + Cardinality(R) - Cardinality(P \intersect R)
  BY <1>5, <1>7, FS_Union
<1>9. Cardinality(P \union R) = Cardinality(P) + Cardinality(Q)
  <2> HIDE DEF P, Q, R
  <2>1. Cardinality(P \intersect R) = 0
    BY <1>4, FS_EmptySet
  <2> QED
    BY <1>5, <1>7, <1>8, <2>1
<1>10. /\ Count(s \o r, x) = Cardinality(P \union R)
       /\ Count(s, x) = Cardinality(P) /\ Count(r, x) = Cardinality(Q)
  BY <1>3 DEF Count
<1> HIDE DEF P, Q, R
<1> QED
  BY <1>9, <1>10

(* Sequences with the same pieces have each of them equally often.          *)
LEMMA SamePiecesCount ==
  ASSUME NEW S, NEW s \in Seq(S), NEW r \in Seq(S)
  PROVE  SamePieces(s, r) <=> Len(s) = Len(r) /\ \A x : Count(s, x) = Count(r, x)
<1>1. ASSUME SamePieces(s, r), NEW x
      PROVE  Count(s, x) = Count(r, x)
  BY <1>1, CountType DEF SamePieces
<1> QED
  BY <1>1 DEF SamePieces

(* A sequence has its own pieces.                                           *)
LEMMA SamePiecesRefl ==
  ASSUME NEW s
  PROVE  SamePieces(s, s)
  BY DEF SamePieces

(* Appending to both sides, and changing the order of two parts. *)
LEMMA SamePiecesConcat ==
  ASSUME NEW S, NEW s \in Seq(S), NEW r \in Seq(S), NEW s2 \in Seq(S), NEW r2 \in Seq(S),
         SamePieces(s, r), SamePieces(s2, r2)
  PROVE  SamePieces(s \o s2, r \o r2) /\ SamePieces(s \o s2, r2 \o r)
<1>1. /\ s \o s2 \in Seq(S) /\ r \o r2 \in Seq(S) /\ r2 \o r \in Seq(S)
      /\ Len(s \o s2) = Len(s) + Len(s2) /\ Len(r \o r2) = Len(r) + Len(r2)
      /\ Len(r2 \o r) = Len(r2) + Len(r)
  BY ConcatProperties
<1>2. /\ Len(s) = Len(r) /\ Len(s2) = Len(r2)
      /\ \A x : Count(s, x) = Count(r, x) /\ Count(s2, x) = Count(r2, x)
  BY SamePiecesCount
<1>3. Len(s) \in Nat /\ Len(s2) \in Nat
  BY LenProperties
<1>4. ASSUME NEW x
      PROVE  Count(s \o s2, x) = Count(r \o r2, x) /\ Count(s \o s2, x) = Count(r2 \o r, x)
  <2>1. /\ Count(s \o s2, x) = Count(s, x) + Count(s2, x)
        /\ Count(r \o r2, x) = Count(r, x) + Count(r2, x)
        /\ Count(r2 \o r, x) = Count(r2, x) + Count(r, x)
    BY CountConcat
  <2>2. Count(r, x) \in Nat /\ Count(r2, x) \in Nat
    BY CountType
  <2> QED
    BY <1>2, <2>1, <2>2
<1>5. Len(s \o s2) = Len(r \o r2) /\ Len(s \o s2) = Len(r2 \o r)
  BY <1>1, <1>2, <1>3
<1> QED
  BY <1>1, <1>4, <1>5, SamePiecesCount

(* What a parser finds. *)
LEMMA EffectiveType ==
  ASSUME NEW S, NEW s \in Seq(S)
  PROVE  /\ Effective(s) \in Seq(S) /\ Valid(Effective(s)) /\ Effective(Effective(s)) = Effective(s)
         /\ Len(Effective(s)) <= Len(s) /\ Len(s) \in Nat /\ Len(Effective(s)) \in Nat
         /\ Valid(s) => Effective(s) = s
  BY LenProperties DEF Effective, Valid

(* A concatenation parses if both parts do.                                 *)
LEMMA ValidConcat ==
  ASSUME NEW S, NEW s \in Seq(S), NEW r \in Seq(S)
  PROVE  /\ Valid(s \o r) <=> Valid(s) /\ Valid(r)
         /\ s \o r \in Seq(S) /\ Len(s \o r) = Len(s) + Len(r)
         /\ s \o << >> = s /\ << >> \o s = s
<1>1. Len(s) \in Nat /\ Len(r) \in Nat
  BY LenProperties
<1>2. /\ s \o r \in Seq(S) /\ Len(s \o r) = Len(s) + Len(r)
      /\ \A i \in 1..Len(s) + Len(r) : (s \o r)[i] = IF i <= Len(s) THEN s[i] ELSE r[i - Len(s)]
  BY ConcatProperties
<1>3. Valid(s) /\ Valid(r) => Valid(s \o r)
  BY <1>1, <1>2 DEF Valid
<1>4. ASSUME Valid(s \o r)
      PROVE  Valid(s)
  BY <1>1, <1>2, <1>4 DEF Valid
<1>5. ASSUME Valid(s \o r)
      PROVE  Valid(r)
  <2> SUFFICES ASSUME NEW i \in 1..Len(r), r[i] = Bad
               PROVE  FALSE
    BY DEF Valid
  <2>1. i + Len(s) \in 1..Len(s) + Len(r) /\ (s \o r)[i + Len(s)] = r[i]
    BY <1>1, <1>2
  <2> QED
    BY <1>2, <1>5, <2>1 DEF Valid
<1>6. s \o << >> = s /\ << >> \o s = s
  BY ConcatEmptySeq
<1> QED
  BY <1>2, <1>3, <1>4, <1>5, <1>6

(* ByteString.concat: both contents, in order. *)
LEMMA ConcatBytes ==
  ASSUME NEW b \in ByteString, NEW c \in ByteString, Len(b.of) + Len(c.of) <= MaxPieces
  PROVE  /\ Concat(b, c) \in ByteString
         /\ Concat(b, c).of = b.of \o c.of
<1> DEFINE S == Pieces \union {Bad, Garbled}
<1>1. b.of \in Seq(S) /\ c.of \in Seq(S)
  BY BoundedSeq DEF ByteString
<1>2. b.of \o c.of \in Seq(S) /\ Len(b.of \o c.of) <= MaxPieces
  BY <1>1, ConcatProperties
<1>3. b.of \o c.of \in UNION {[1..n -> S] : n \in 0..MaxPieces}
  BY <1>2, BoundedSeq
<1>4. [of |-> b.of \o c.of, wire |-> TRUE] \in ByteString
  BY <1>3 DEF ByteString
<1>5. b.of \o << >> = b.of /\ << >> \o c.of = c.of
  BY <1>1, ConcatEmptySeq
<1> QED
  BY <1>4, <1>5 DEF Concat

(* What the variables of a field hold. *)
LEMMA FieldTypes ==
  ASSUME TypeOK, NEW f \in Fields
  PROVE  /\ field[f] \in LazyFieldLite
         /\ field[f].delayedBytes # NULL =>
              /\ field[f].delayedBytes \in ByteString
              /\ field[f].delayedBytes.of \in Seq(Pieces \union {Bad, Garbled})
         /\ field[f].value # NULL =>
              /\ field[f].value \in Message
              /\ field[f].value \in Seq(Pieces \union {Garbled})
              /\ Len(field[f].value) <= MaxPieces
         /\ field[f].memoizedBytes # NULL => field[f].memoizedBytes \in ByteString
         /\ field[f].extensionRegistry \in BOOLEAN
         /\ history[f].content \in Seq(Pieces \union {Bad})
         /\ Len(history[f].content) <= MaxPieces /\ Len(history[f].content) \in Nat
         /\ history[f].content \in Content
         /\ history[f].lost \in {"nothing", "merge", "stream"}
         /\ history[f].bytes \in SUBSET ByteString
         /\ history[f] = [content |-> history[f].content, lost |-> history[f].lost,
                          bytes |-> history[f].bytes]
         /\ monitor[f] \in Threads \union {NULL}
<1>1. /\ field[f] \in LazyFieldLite /\ monitor[f] \in Threads \union {NULL}
      /\ history[f] \in [content : Content, lost : {"nothing", "merge", "stream"},
                         bytes : SUBSET ByteString]
  BY DEF TypeOK
<1>2. /\ field[f].delayedBytes \in ByteString \union {NULL}
      /\ field[f].value \in Message \union {NULL}
      /\ field[f].memoizedBytes \in ByteString \union {NULL}
      /\ field[f].extensionRegistry \in BOOLEAN
      /\ history[f].content \in Content
  BY <1>1 DEF LazyFieldLite
<1>3. \A b \in ByteString : b.of \in Seq(Pieces \union {Bad, Garbled})
  BY BoundedSeq DEF ByteString
<1>4. \A v \in Message : v \in Seq(Pieces \union {Garbled}) /\ Len(v) <= MaxPieces
  BY BoundedSeq DEF Message
<1>5. history[f].content \in Seq(Pieces \union {Bad}) /\ Len(history[f].content) <= MaxPieces
  BY <1>2, BoundedSeq DEF Content
<1>6. Len(history[f].content) \in Nat
  BY <1>5, LenProperties
<1> QED
  BY <1>1, <1>2, <1>3, <1>4, <1>5, <1>6

GetterPlaces == {"check", "lock", "parse", "memoize", "bytes", "serialize", "size", "sizeOfValue"}
SetterPlaces == {"default", "held", "copyValue", "copyMemoized", "combine"}

(* The fields a call works on, by its place. *)
LEMMA Places ==
  ASSUME TypeOK, NEW t \in Threads
  PROVE  /\ call[t] = [pc |-> call[t].pc, field |-> call[t].field, other |-> call[t].other]
         /\ call[t].pc \in {"idle"} \union GetterPlaces \union SetterPlaces
         /\ At(t, "idle") => call[t] = NoCall /\ ~ Setting(t) /\ call[t].field = NULL
         /\ call[t].pc \in GetterPlaces =>
              call[t].field \in Fields /\ call[t].field # NULL /\ call[t].other = NULL /\ ~ Setting(t)
         /\ call[t].pc \in SetterPlaces =>
              call[t].field \in Fields /\ call[t].other \in Fields /\ Setting(t)
<1>1. call[t] \in Calls
  BY DEF TypeOK
<1> QED
  BY <1>1, PiecesAssumption DEF Calls, NoCall, GetterPlaces, SetterPlaces, At, Setting

(* A step inside a call. *)
LEMMA GotoCall ==
  ASSUME TypeOK, NEW t \in Threads, NEW label, Goto(t, label),
         \/ call[t].pc \in GetterPlaces /\ label \in GetterPlaces
         \/ call[t].pc \in SetterPlaces /\ label \in SetterPlaces
  PROVE  /\ call' \in [Threads -> Calls]
         /\ \A u \in Threads \ {t} : call'[u] = call[u]
         /\ call'[t].pc = label /\ call'[t].field = call[t].field /\ call'[t].other = call[t].other
<1>1. call[t] \in Calls /\ call \in [Threads -> Calls]
  BY DEF TypeOK
<1>2. [call[t] EXCEPT !.pc = label] \in Calls
  BY <1>1, Places DEF Calls, GetterPlaces, SetterPlaces, NoCall
<1>3. call' = [call EXCEPT ![t] = [call[t] EXCEPT !.pc = label]]
  BY DEF Goto
<1>4. call[t] = [pc |-> call[t].pc, field |-> call[t].field, other |-> call[t].other]
  BY Places
<1> QED
  BY <1>1, <1>2, <1>3, <1>4

(* A call that returns changes nothing but the thread's record.             *)
LEMMA ReturnCall ==
  ASSUME TypeOK, NEW t \in Threads, Return(t)
  PROVE  /\ call' \in [Threads -> Calls]
         /\ \A u \in Threads \ {t} : call'[u] = call[u]
         /\ call'[t].pc = "idle" /\ call'[t].field = NULL /\ call'[t].other = NULL
  BY DEF TypeOK, Return, NoCall, Calls

-----------------------------------------------------------------------------
(* What a step on one field leaves alone. *)

(* The step of t changes nothing but its own call and the field f. *)
Touches(t, f) ==
  /\ \A u \in Threads \ {t} : call'[u] = call[u]
  /\ \A g \in Fields \ {f} : field'[g] = field[g] /\ history'[g] = history[g] /\ monitor'[g] = monitor[g]
  /\ call[t].field \in {f, NULL} /\ call'[t].field \in {f, NULL}
  /\ \A u \in Threads \ {t} : Setting(u) => call[u].field \notin {call'[t].field, call'[t].other}

(* A getter: the field answers as before. *)
Reads(t, f) ==
  /\ Touches(t, f)
  /\ f \in {call[t].field, call'[t].field}
  /\ ~ Setting(t) /\ ~ Setting(t)'
  /\ field'[f].delayedBytes = field[f].delayedBytes
  /\ field'[f].extensionRegistry = field[f].extensionRegistry
  /\ history'[f].content = history[f].content /\ history'[f].lost = history[f].lost
  /\ field'[f].value # field[f].value =>
       monitor[f] = t /\ field[f].value = NULL /\ field'[f].value # NULL
  /\ Size(f)' = Size(f) /\ Answer(f)' = Answer(f)
  /\ \A u \in Threads \ {t} : monitor[f] = u => monitor'[f] = u

(* A setter: no other call uses the field. *)
Owns(t, f) ==
  /\ Touches(t, f)
  /\ monitor' = monitor
  /\ \A u \in Threads \ {t} : f \notin {call[u].field, call[u].other}

(* A step of a call leaves the fields alone that it does not touch.         *)
LEMMA OtherFields ==
  ASSUME IInv, NEW t \in Threads, NEW f \in Fields, Touches(t, f), NEW g \in Fields \ {f}
  PROVE  FieldOK(g)'
<1>1. field'[g] = field[g] /\ history'[g] = history[g]
  BY DEF Touches
<1>2. g # NULL /\ FieldOK(g)
  BY PiecesAssumption DEF IInv
<1>3. Copying(g)' <=> Copying(g)
  BY <1>2 DEF Touches, Copying, At
<1> QED
  BY <1>1, <1>2, <1>3 DEF FieldOK, DelayedOK, ValueOK, MemoizedOK, BytesOK, Answer, MemoizedEmpty

(* Nobody comes to use a field that is being set.                           *)
LEMMA OthersAlone ==
  ASSUME IInv, NEW t \in Threads, NEW f \in Fields, Touches(t, f), NEW u \in Threads \ {t}
  PROVE  Alone(u)'
  BY DEF IInv, CallOK, Touches, Alone, Setting

(* A getter does not disturb the calls of other threads.                    *)
LEMMA OthersRead ==
  ASSUME IInv, NEW t \in Threads, NEW f \in Fields, Reads(t, f), NEW u \in Threads \ {t}
  PROVE  CallOK(u)'
<1>1. call'[u] = call[u] /\ CallOK(u) /\ Alone(u) /\ Alone(u)'
  BY OthersAlone DEF Reads, Touches, IInv, CallOK
<1>2. PICK c : c = call[u]
  OBVIOUS
<1>3. /\ c.pc \in {"idle"} \union GetterPlaces \union SetterPlaces
      /\ c.pc \in GetterPlaces => c.field \in Fields
      /\ c.pc \in SetterPlaces => c.field \in Fields /\ c.other \in Fields /\ Setting(u)
  BY <1>2, Places DEF IInv
<1>4. \A g \in Fields :
        /\ field'[g].delayedBytes = field[g].delayedBytes
        /\ history'[g].content = history[g].content /\ history'[g].lost = history[g].lost
        /\ field'[g].value # field[g].value =>
             monitor[g] = t /\ field[g].value = NULL /\ field'[g].value # NULL
        /\ Size(g)' = Size(g) /\ Answer(g)' = Answer(g)
        /\ monitor[g] = u => monitor'[g] = u
  BY DEF Reads, Touches, Size, Answer
<1>5. c.pc \in SetterPlaces => c.field # f
  BY <1>1, <1>2, <1>3 DEF Reads, Touches, Alone
<1>6. ParseOK(u)'
  BY <1>1, <1>2, <1>3, <1>4 DEF CallOK, ParseOK, At, GetterPlaces
<1>7. MergeOK(u)'
  <2>1. \A g \in Fields : ~ NothingHeld(g) => ~ NothingHeld(g)'
    BY <1>4 DEF NothingHeld
  <2>2. \A g \in Fields \ {f} : ~ MemoizedEmpty(g) => ~ MemoizedEmpty(g)'
    BY DEF Reads, Touches, MemoizedEmpty
  <2> QED
    BY <1>1, <1>2, <1>3, <1>4, <1>5, <2>1, <2>2 DEF CallOK, MergeOK, At, SetterPlaces
<1>8. CopyOK(u)'
  BY <1>1, <1>2, <1>3, <1>4 DEF CallOK, CopyOK, At, SetterPlaces
<1> QED
  BY <1>1, <1>6, <1>7, <1>8 DEF CallOK

(* A setter does not disturb the calls of other threads.                    *)
LEMMA OthersOwn ==
  ASSUME IInv, NEW t \in Threads, NEW f \in Fields, Owns(t, f), NEW u \in Threads \ {t}
  PROVE  CallOK(u)'
<1>1. call'[u] = call[u] /\ CallOK(u) /\ Alone(u)'
  BY OthersAlone DEF Owns, Touches, IInv, CallOK
<1>2. PICK c : c = call[u]
  OBVIOUS
<1>3. /\ c.pc \in {"idle"} \union GetterPlaces \union SetterPlaces
      /\ c.pc \in GetterPlaces => c.field \in Fields
      /\ c.pc \in SetterPlaces => c.field \in Fields /\ c.other \in Fields
  BY <1>2, Places DEF IInv
<1>4. c.field # f /\ c.other # f
  BY <1>2 DEF Owns
<1>5. \A g \in Fields \ {f} :
        /\ field'[g] = field[g] /\ history'[g] = history[g] /\ monitor'[g] = monitor[g]
        /\ Size(g)' = Size(g) /\ Answer(g)' = Answer(g)
  BY DEF Owns, Touches, Size, Answer
<1> QED
  BY <1>1, <1>2, <1>3, <1>4, <1>5 DEF CallOK, ParseOK, MergeOK, CopyOK, At,
     NothingHeld, MemoizedEmpty, GetterPlaces, SetterPlaces

(* A getter's step keeps the invariant if it does so for its own field and   *)
(* its own call.                                                             *)
LEMMA ReadStep ==
  ASSUME IInv, NEW t \in Threads, NEW f \in Fields, Reads(t, f),
         TypeOK', FieldOK(f)', ParseOK(t)'
  PROVE  IInv'
<1>1. ~ Setting(t)' /\ Touches(t, f)
  BY DEF Reads
<1>2. call'[t] \in Calls /\ call'[t].pc \notin SetterPlaces
  BY <1>1, PiecesAssumption DEF TypeOK, Calls, NoCall, SetterPlaces, Setting
<1>3. CallOK(t)'
  BY <1>1, <1>2 DEF CallOK, Alone, MergeOK, CopyOK, At, SetterPlaces
<1>4. \A u \in Threads : CallOK(u)'
  BY <1>3, OthersRead
<1>5. \A g \in Fields : FieldOK(g)'
  BY <1>1, OtherFields
<1> QED
  BY <1>4, <1>5 DEF IInv

(* For a setter's step only its field and its own call are left to look at. *)
LEMMA OwnStep ==
  ASSUME IInv, NEW t \in Threads, NEW f \in Fields, Owns(t, f),
         TypeOK', FieldOK(f)', CallOK(t)'
  PROVE  IInv'
<1>1. Touches(t, f)
  BY DEF Owns
<1>2. \A u \in Threads : CallOK(u)'
  BY OthersOwn
<1>3. \A g \in Fields : FieldOK(g)'
  BY <1>1, OtherFields
<1> QED
  BY <1>2, <1>3 DEF IInv

-----------------------------------------------------------------------------
(* The getters. *)

(* Byte strings and messages, and how one becomes the other.                *)
LEMMA BytesTypes ==
  /\ EMPTY \in ByteString /\ default \in Message
  /\ \A v \in Message : Serialized(v) \in ByteString
  /\ \A b \in ByteString : Canonical(b) \in ByteString
<1>1. MaxPieces \in Nat
  BY PiecesAssumption
<1>2. << >> \in UNION {[1..n -> Pieces \union {Bad, Garbled}] : n \in 0..MaxPieces}
  <2>1. << >> \in Seq(Pieces \union {Bad, Garbled}) /\ Len(<< >>) <= MaxPieces
    BY <1>1, EmptySeq
  <2> QED
    BY <2>1, BoundedSeq
<1>3. default \in Message
  <2>1. << >> \in Seq(Pieces \union {Garbled}) /\ Len(<< >>) <= MaxPieces
    BY <1>1, EmptySeq
  <2> QED
    BY <2>1, BoundedSeq DEF Message, default
<1>4. EMPTY \in ByteString
  BY <1>2 DEF EMPTY, ByteString
<1>5. ASSUME NEW v \in Message
      PROVE  Serialized(v) \in ByteString
  <2>1. v \in Seq(Pieces \union {Garbled}) /\ Len(v) <= MaxPieces
    BY BoundedSeq DEF Message
  <2>2. v \in Seq(Pieces \union {Bad, Garbled})
    BY <2>1
  <2>3. v \in UNION {[1..n -> Pieces \union {Bad, Garbled}] : n \in 0..MaxPieces}
    BY <2>1, <2>2, BoundedSeq
  <2> QED
    BY <2>3 DEF Serialized, ByteString
<1> QED
  BY <1>3, <1>4, <1>5 DEF Canonical

(* A field a getter works on is not being copied to. *)
LEMMA NotCopied ==
  ASSUME IInv, TypeOK', NEW t \in Threads, NEW f \in Fields, Reads(t, f)
  PROVE  ~ Copying(f) /\ ~ Copying(f)'
<1>1. ASSUME NEW u \in Threads, At(u, "copyMemoized"), call[u].field = f
      PROVE  FALSE
  <2>1. Setting(u) /\ u # t /\ Alone(u)
    BY <1>1, Places DEF IInv, CallOK, Reads, SetterPlaces, At
  <2> QED
    BY <1>1, <2>1 DEF Reads, Touches, Alone
<1>2. ASSUME NEW u \in Threads, At(u, "copyMemoized")', call'[u].field = f
      PROVE  FALSE
  <2>1. u # t
    BY <1>2, PiecesAssumption DEF TypeOK, Calls, NoCall, At, Setting, Reads
  <2>2. At(u, "copyMemoized") /\ call[u].field = f
    BY <1>2, <2>1 DEF At, Reads, Touches
  <2> QED
    BY <1>1, <2>2
<1> QED
  BY <1>1, <1>2 DEF Copying

(* What a getter may do to a field: parse its value, memoize its one answer.*)
LEMMA ReadFieldOK ==
  ASSUME IInv, TypeOK', NEW t \in Threads, NEW f \in Fields, Reads(t, f),
         field'[f].value # field[f].value =>
           SamePieces(field'[f].value, Effective(history[f].content)),
         MemoizedEmpty(f)' => Effective(history[f].content) = << >>,
         Valid(history[f].content) /\ history[f].lost = "nothing" =>
           /\ history'[f].bytes \subseteq {Answer(f)}
           /\ field'[f].memoizedBytes # NULL => Canonical(field'[f].memoizedBytes) = Answer(f)
  PROVE  FieldOK(f)'
<1>1. ~ Copying(f) /\ ~ Copying(f)' /\ FieldOK(f)
  BY NotCopied DEF IInv
<1>2. DelayedOK(f)'
  BY <1>1 DEF FieldOK, DelayedOK, Reads
<1>3. ValueOK(f)'
  BY <1>1 DEF FieldOK, ValueOK, Reads
<1>4. MemoizedOK(f)'
  BY DEF MemoizedOK, Reads
<1>5. BytesOK(f)'
  BY DEF BytesOK, Reads
<1> QED
  BY <1>2, <1>3, <1>4, <1>5 DEF FieldOK

(* What holds of a getter's step whatever it does to f. *)
LEMMA GetterTouches ==
  ASSUME IInv, NEW t \in Threads, NEW f \in Fields,
         call[t].pc \in GetterPlaces, call[t].field = f,
         \A u \in Threads \ {t} : call'[u] = call[u],
         call'[t].field \in {f, NULL}, call'[t].other = NULL,
         \A g \in Fields \ {f} :
           field'[g] = field[g] /\ history'[g] = history[g] /\ monitor'[g] = monitor[g]
  PROVE  /\ Touches(t, f) /\ f \in {call[t].field, call'[t].field}
         /\ ~ Setting(t) /\ ~ Setting(t)'
<1>1. ~ Setting(t) /\ ~ Setting(t)'
  BY Places DEF IInv, Setting
<1>2. ASSUME NEW u \in Threads \ {t}, Setting(u)
      PROVE  call[u].field # f /\ call[u].field # NULL
  <2>1. Alone(u)
    BY DEF IInv, CallOK
  <2>2. call[u].field \in Fields
    <3>1. TypeOK
      BY DEF IInv
    <3>2. call[u].pc \in SetterPlaces
      BY <1>2, <3>1, Places DEF At
    <3> QED
      BY <3>1, <3>2, Places
  <2> QED
    BY <1>2, <2>1, <2>2, PiecesAssumption DEF Alone
<1> QED
  BY <1>1, <1>2 DEF Touches

(* A getter that only moves on. *)
LEMMA MoveStep ==
  ASSUME IInv, NEW t \in Threads, NEW f \in Fields,
         Touches(t, f), f \in {call[t].field, call'[t].field}, ~ Setting(t), ~ Setting(t)',
         call' \in [Threads -> Calls], UNCHANGED <<field, monitor, history>>, ParseOK(t)'
  PROVE  IInv'
<1>1. TypeOK'
  BY DEF IInv, TypeOK
<1>2. Reads(t, f)
  BY DEF Reads, Size, Answer
<1>3. FieldOK(f) /\ ~ Copying(f)
  BY <1>1, <1>2, NotCopied DEF IInv
<1>4. FieldOK(f)'
  BY <1>1, <1>2, <1>3, ReadFieldOK DEF FieldOK, MemoizedOK, BytesOK, MemoizedEmpty
<1> QED
  BY <1>1, <1>2, <1>4, ReadStep

(* A getter begins.                                                         *)
LEMMA GetStep ==
  ASSUME IInv, NEW t \in Threads, NEW f \in Fields, NEW label \in {"check", "bytes", "size"},
         Get(t, f, label)
  PROVE  IInv'
<1>1. call' = [call EXCEPT ![t] = [pc |-> label, field |-> f, other |-> NULL]]
  <2>1. [NoCall EXCEPT !.pc = label, !.field = f] = [pc |-> label, field |-> f, other |-> NULL]
    <3>1. NoCall \in [pc : {"idle"}, field : {NULL}, other : {NULL}]
      BY DEF NoCall
    <3>2. PICK new : new = [NoCall EXCEPT !.pc = label, !.field = f]
      OBVIOUS
    <3>3. new \in [pc : {label}, field : {f}, other : {NULL}]
      BY <3>1, <3>2
    <3>4. new = [pc |-> label, field |-> f, other |-> NULL]
      BY <3>3
    <3> QED
      BY <3>2, <3>4
  <2> QED
    BY <2>1 DEF Get
<1>2. call[t] = NoCall /\ ~ Setting(t) /\ call[t].field = NULL
  <2>1. TypeOK /\ At(t, "idle")
    BY DEF IInv, Get
  <2> QED
    BY <2>1, Places
<1>3. /\ call' \in [Threads -> Calls] /\ call'[t].pc = label /\ call'[t].field = f
      /\ call'[t].other = NULL /\ \A u \in Threads \ {t} : call'[u] = call[u]
  BY <1>1 DEF IInv, TypeOK, Calls
<1>4. \A u \in Threads \ {t} : Setting(u) => call[u].field \in Fields /\ call[u].field # f
  BY Places DEF IInv, Get, Readable, Setting, GetterPlaces, SetterPlaces, NoCall, At
<1>5. Touches(t, f)
  BY <1>2, <1>3, <1>4, PiecesAssumption DEF Touches, Get
<1>6. ParseOK(t)'
  BY <1>3 DEF ParseOK, At
<1> QED
  BY <1>2, <1>3, <1>5, <1>6, MoveStep DEF Get, Setting

(* A getter that goes on, or returns, and changes nothing. *)
LEMMA MoveOn ==
  ASSUME IInv, NEW t \in Threads, call[t].pc \in GetterPlaces,
         UNCHANGED <<field, monitor, history>>,
         \/ Return(t)
         \/ \E label \in GetterPlaces : Goto(t, label),
         ParseOK(t)'
  PROVE  IInv'
<1>1. PICK f \in Fields : f = call[t].field
  BY Places DEF IInv
<1>2. call[t].other = NULL
  BY Places DEF IInv
<1>3. /\ call' \in [Threads -> Calls] /\ \A u \in Threads \ {t} : call'[u] = call[u]
      /\ call'[t].field \in {f, NULL} /\ call'[t].other = NULL
  BY <1>1, <1>2, GotoCall, ReturnCall DEF IInv
<1>4. /\ Touches(t, f) /\ f \in {call[t].field, call'[t].field}
      /\ ~ Setting(t) /\ ~ Setting(t)'
  BY <1>1, <1>3, GetterTouches
<1> QED
  BY <1>3, <1>4, MoveStep

(* The check of the value, without the monitor.                             *)
LEMMA CheckStep ==
  ASSUME IInv, NEW t \in Threads, CheckValue(t)
  PROVE  IInv'
<1>1. call[t].pc \in GetterPlaces
  BY DEF CheckValue, At, GetterPlaces
<1>2. Return(t) \/ Goto(t, "lock")
  BY DEF CheckValue
<1>3. ParseOK(t)'
  BY <1>1, <1>2, ReturnCall, GotoCall DEF IInv, ParseOK, At, GetterPlaces
<1> QED
  BY <1>1, <1>2, <1>3, MoveOn DEF CheckValue, GetterPlaces

(* The monitor is taken and the value checked again.                        *)
LEMMA EnterStep ==
  ASSUME IInv, NEW t \in Threads, EnterMonitor(t)
  PROVE  IInv'
<1>1. call[t].pc \in GetterPlaces /\ "parse" \in GetterPlaces
  BY DEF EnterMonitor, At, GetterPlaces
<1>2. PICK f \in Fields : f = call[t].field
  BY <1>1, Places DEF IInv
<1>3. call[t].other = NULL
  BY <1>1, Places DEF IInv
<1>4. CASE field[f].value # NULL
  <2>1. Return(t) /\ UNCHANGED <<field, monitor, history>>
    BY <1>2, <1>4 DEF EnterMonitor
  <2>2. ParseOK(t)'
    BY <2>1, ReturnCall DEF IInv, ParseOK, At
  <2> QED
    BY <1>1, <2>1, <2>2, MoveOn
<1>5. CASE field[f].value = NULL
  <2>1. /\ Goto(t, "parse") /\ UNCHANGED <<field, history>> /\ monitor[f] = NULL
        /\ monitor' = [monitor EXCEPT ![f] = t]
    BY <1>2, <1>5 DEF EnterMonitor
  <2>2. /\ call' \in [Threads -> Calls] /\ \A u \in Threads \ {t} : call'[u] = call[u]
        /\ call'[t].pc = "parse" /\ call'[t].field = f /\ call'[t].other = NULL
    BY <1>1, <1>2, <1>3, <2>1, GotoCall DEF IInv
  <2>3. TypeOK' /\ monitor'[f] = t /\ \A g \in Fields \ {f} : monitor'[g] = monitor[g]
    BY <2>1, <2>2 DEF IInv, TypeOK
  <2>4. /\ Touches(t, f) /\ f \in {call[t].field, call'[t].field}
        /\ ~ Setting(t) /\ ~ Setting(t)'
    BY <1>1, <1>2, <2>1, <2>2, <2>3, GetterTouches
  <2>5. Reads(t, f)
    BY <2>1, <2>4, PiecesAssumption DEF Reads, Size, Answer
  <2>6. ParseOK(t)'
    BY <1>5, <2>1, <2>2, <2>3 DEF ParseOK, At
  <2>7. FieldOK(f) /\ ~ Copying(f)
    BY <2>3, <2>5, NotCopied DEF IInv
  <2>8. FieldOK(f)'
    BY <2>1, <2>3, <2>5, <2>7, ReadFieldOK DEF FieldOK, MemoizedOK, BytesOK, MemoizedEmpty
  <2> QED
    BY <2>3, <2>5, <2>6, <2>8, ReadStep
<1> QED
  BY <1>4, <1>5

(* The value a parse writes: what a parser finds of all that was merged.     *)
LEMMA ParsedContent ==
  ASSUME IInv, NEW f \in Fields, field[f].value = NULL
  PROVE  /\ ParsedValue(field[f].delayedBytes) \in Message
         /\ ParsedValue(field[f].delayedBytes) # NULL
         /\ ParsedValue(field[f].delayedBytes) = Effective(history[f].content)
         /\ Len(ParsedValue(field[f].delayedBytes)) <= Len(history[f].content)
         /\ Len(ParsedValue(field[f].delayedBytes)) \in Nat
         /\ field[f].delayedBytes = NULL =>
              ParsedValue(field[f].delayedBytes) = << >> /\ history[f].content = << >>
<1> DEFINE c == history[f].content
<1>1. c \in Seq(Pieces \union {Bad}) /\ Len(c) <= MaxPieces /\ Len(c) \in Nat /\ MaxPieces \in Nat
  BY FieldTypes, PiecesAssumption DEF IInv
<1>2. ParsedValue(field[f].delayedBytes) = Effective(c)
  BY DEF IInv, FieldOK, DelayedOK, ValueOK, ParsedValue, Effective, default
<1>3. Effective(c) \in Seq(Pieces \union {Bad}) /\ Valid(Effective(c)) /\ Len(Effective(c)) <= Len(c)
      /\ Len(Effective(c)) \in Nat
  BY <1>1, EffectiveType
<1>4. Effective(c) \in Seq(Pieces \union {Garbled})
  <2>1. \A i \in 1..Len(Effective(c)) : Effective(c)[i] \in Pieces \union {Garbled}
    BY <1>3, ElementOfSeq DEF Valid
  <2>2. Effective(c) \in [1..Len(Effective(c)) -> Pieces \union {Garbled}]
    BY <1>3, <2>1, LenProperties
  <2> QED
    BY <1>3, <2>2, SeqDef
<1>5. Effective(c) \in Message
  BY <1>1, <1>3, <1>4, BoundedSeq DEF Message
<1>6. Effective(c) # NULL
  BY <1>5, PiecesAssumption
<1>7. field[f].delayedBytes = NULL => c = << >> /\ ParsedValue(field[f].delayedBytes) = << >>
  BY DEF IInv, FieldOK, ValueOK, ParsedValue, default
<1> QED
  BY <1>2, <1>3, <1>5, <1>6, <1>7

(* The bytes are parsed and the value is stored.                            *)
LEMMA ParseStep ==
  ASSUME IInv, NEW t \in Threads, ParseValue(t)
  PROVE  IInv'
<1>1. call[t].pc = "parse" /\ call[t].pc \in GetterPlaces /\ "memoize" \in GetterPlaces
  BY DEF ParseValue, At, GetterPlaces
<1>2. PICK f \in Fields : f = call[t].field
  BY <1>1, Places DEF IInv
<1>3. PICK v : v = ParsedValue(field[f].delayedBytes)
  OBVIOUS
<1>4. monitor[f] = t /\ field[f].value = NULL
  BY <1>1, <1>2 DEF IInv, CallOK, ParseOK, At
<1>5. /\ v \in Message /\ v # NULL /\ v = Effective(history[f].content)
      /\ Len(v) <= Len(history[f].content) /\ Len(v) \in Nat
      /\ field[f].delayedBytes = NULL => v = << >> /\ history[f].content = << >>
  BY <1>3, <1>4, ParsedContent
<1>6. /\ Goto(t, "memoize") /\ UNCHANGED <<monitor, history>>
      /\ field' = [field EXCEPT ![f] = [field[f] EXCEPT !.value = v]]
  BY <1>2, <1>3 DEF ParseValue
<1>7. /\ call' \in [Threads -> Calls] /\ \A u \in Threads \ {t} : call'[u] = call[u]
      /\ call'[t].pc = "memoize" /\ call'[t].field = f /\ call'[t].other = NULL
  <2>1. TypeOK /\ call[t].other = NULL
    BY <1>1, Places DEF IInv
  <2> QED
    BY <1>1, <1>2, <1>6, <2>1, GotoCall
<1>8. field[f] \in LazyFieldLite /\ field \in [Fields -> LazyFieldLite]
  BY FieldTypes DEF IInv, TypeOK
<1>9. /\ field'[f] = [field[f] EXCEPT !.value = v] /\ [field[f] EXCEPT !.value = v] \in LazyFieldLite
      /\ \A g \in Fields \ {f} : field'[g] = field[g]
  BY <1>5, <1>6, <1>8 DEF LazyFieldLite
<1>10. /\ field'[f].value = v /\ field'[f].delayedBytes = field[f].delayedBytes
       /\ field'[f].memoizedBytes = field[f].memoizedBytes
       /\ field'[f].extensionRegistry = field[f].extensionRegistry
  BY <1>8, <1>9 DEF LazyFieldLite
<1>11. TypeOK'
  BY <1>6, <1>7, <1>8, <1>9 DEF IInv, TypeOK
<1>12. /\ Touches(t, f) /\ f \in {call[t].field, call'[t].field}
       /\ ~ Setting(t) /\ ~ Setting(t)'
  BY <1>1, <1>2, <1>6, <1>7, <1>9, GetterTouches
<1>13. Size(f)' = Size(f)
  BY <1>4, <1>5, <1>6, <1>10 DEF Size
<1>14. Answer(f)' = Answer(f)
  BY <1>4, <1>5, <1>6, <1>10 DEF Answer, Canonical, Serialized, EMPTY
<1>15. Reads(t, f)
  BY <1>4, <1>5, <1>6, <1>10, <1>12, <1>13, <1>14 DEF Reads
<1>16. ParseOK(t)'
  BY <1>4, <1>5, <1>6, <1>7, <1>10 DEF ParseOK, At
<1>17. FieldOK(f) /\ ~ Copying(f) /\ SamePieces(v, Effective(history[f].content))
  BY <1>5, <1>11, <1>15, NotCopied, SamePiecesRefl DEF IInv
<1>18. FieldOK(f)'
  BY <1>6, <1>10, <1>11, <1>15, <1>17, ReadFieldOK DEF FieldOK, MemoizedOK, BytesOK, MemoizedEmpty
<1> QED
  BY <1>11, <1>15, <1>16, <1>18, ReadStep

(* A getter writes memoizedBytes, leaves the monitor or was never in it, and  *)
(* hands out nothing or what it wrote.                                        *)
LEMMA MemoizeStep ==
  ASSUME IInv, NEW t \in Threads, call[t].pc \in GetterPlaces, NEW f \in Fields, f = call[t].field,
         NEW b \in ByteString, Return(t),
         field' = [field EXCEPT ![f].memoizedBytes = b],
         \A g \in Fields \ {f} : monitor'[g] = monitor[g],
         monitor' \in [Fields -> Threads \union {NULL}],
         \A u \in Threads \ {t} : monitor[f] = u => monitor'[f] = u,
         HandOut(f, b) \/ UNCHANGED history,
         b = EMPTY => Effective(history[f].content) = << >>,
         Valid(history[f].content) /\ history[f].lost = "nothing" => Canonical(b) = Answer(f)
  PROVE  IInv'
<1>1. /\ call' \in [Threads -> Calls] /\ \A u \in Threads \ {t} : call'[u] = call[u]
      /\ call'[t].pc = "idle" /\ call'[t].field = NULL /\ call'[t].other = NULL
  BY ReturnCall DEF IInv
<1>2. field[f] \in LazyFieldLite /\ field \in [Fields -> LazyFieldLite]
  BY FieldTypes DEF IInv, TypeOK
<1>3. /\ field'[f] = [field[f] EXCEPT !.memoizedBytes = b]
      /\ [field[f] EXCEPT !.memoizedBytes = b] \in LazyFieldLite
      /\ \A g \in Fields \ {f} : field'[g] = field[g]
  BY <1>2 DEF LazyFieldLite
<1>4. /\ field'[f].value = field[f].value /\ field'[f].delayedBytes = field[f].delayedBytes
      /\ field'[f].memoizedBytes = b
      /\ field'[f].extensionRegistry = field[f].extensionRegistry
  BY <1>2, <1>3 DEF LazyFieldLite
<1>5. /\ history' \in [Fields -> [content : Content, lost : {"nothing", "merge", "stream"},
                                 bytes : SUBSET ByteString]]
      /\ \A g \in Fields \ {f} : history'[g] = history[g]
      /\ history'[f].content = history[f].content /\ history'[f].lost = history[f].lost
      /\ history'[f].bytes \subseteq history[f].bytes \union {Canonical(b)}
  <2>1. CASE UNCHANGED history
    BY <2>1 DEF IInv, TypeOK
  <2>2. CASE HandOut(f, b)
    <3>1. history' = [history EXCEPT ![f].bytes = history[f].bytes \union {Canonical(b)}]
      BY <2>2 DEF HandOut, Canonical
    <3>2. Canonical(b) \in ByteString
      BY BytesTypes
    <3> QED
      BY <3>1, <3>2 DEF IInv, TypeOK
  <2> QED
    BY <2>1, <2>2
<1>6. TypeOK'
  BY <1>1, <1>2, <1>3, <1>5 DEF IInv, TypeOK
<1>7. /\ Touches(t, f) /\ f \in {call[t].field, call'[t].field}
      /\ ~ Setting(t) /\ ~ Setting(t)'
  BY <1>1, <1>3, <1>5, GetterTouches
<1>8. Reads(t, f)
  BY <1>4, <1>5, <1>7 DEF Reads, Size, Answer
<1>9. FieldOK(f) /\ ~ Copying(f)
  BY <1>6, <1>8, NotCopied DEF IInv
<1>10. FieldOK(f)'
  BY <1>4, <1>5, <1>6, <1>8, <1>9, ReadFieldOK DEF FieldOK, BytesOK, MemoizedEmpty
<1>11. ParseOK(t)'
  BY <1>1 DEF ParseOK, At
<1> QED
  BY <1>6, <1>8, <1>10, <1>11, ReadStep

(* The bytes of the parsed value are memoized.                              *)
LEMMA MemoizeParsedStep ==
  ASSUME IInv, NEW t \in Threads, MemoizeParsed(t)
  PROVE  IInv'
<1>1. call[t].pc = "memoize" /\ call[t].pc \in GetterPlaces
  BY DEF MemoizeParsed, At, GetterPlaces
<1>2. PICK f \in Fields : f = call[t].field
  BY <1>1, Places DEF IInv
<1>3. PICK b : b = ParsedBytes(field[f].delayedBytes)
  OBVIOUS
<1>4. PICK d : d = field[f].delayedBytes
  OBVIOUS
<1>5. /\ monitor[f] = t /\ field[f].value # NULL
      /\ d = NULL => field[f].value = << >> /\ history[f].content = << >>
  BY <1>1, <1>2, <1>4 DEF IInv, CallOK, ParseOK, At
<1>6. d # NULL => d \in ByteString /\ d.of = history[f].content
  BY <1>4, FieldTypes DEF IInv, FieldOK, DelayedOK
<1>7. b \in ByteString
  BY <1>3, <1>4, <1>6, BytesTypes DEF ParsedBytes
<1>8. b = EMPTY => Effective(history[f].content) = << >>
  BY <1>3, <1>4, <1>5, <1>6 DEF ParsedBytes, EMPTY, Effective
<1>9. Valid(history[f].content) => Canonical(b) = Answer(f)
  BY <1>3, <1>4, <1>5, <1>6 DEF ParsedBytes, EMPTY, Canonical, Answer, Serialized
<1>10. /\ field' = [field EXCEPT ![f].memoizedBytes = b] /\ Return(t) /\ UNCHANGED history
       /\ monitor' = [monitor EXCEPT ![f] = NULL]
  BY <1>2, <1>3 DEF MemoizeParsed
<1>11. /\ monitor' \in [Fields -> Threads \union {NULL}]
       /\ \A g \in Fields \ {f} : monitor'[g] = monitor[g]
       /\ \A u \in Threads \ {t} : monitor[f] = u => monitor'[f] = u
  BY <1>5, <1>10 DEF IInv, TypeOK
<1> QED
  BY <1>1, <1>2, <1>7, <1>8, <1>9, <1>10, <1>11, MemoizeStep

(* The value is serialised and its bytes are memoized.                      *)
LEMMA SerializeStep ==
  ASSUME IInv, NEW t \in Threads, SerializeValue(t)
  PROVE  IInv'
<1>1. call[t].pc = "serialize" /\ call[t].pc \in GetterPlaces
  BY DEF SerializeValue, At, GetterPlaces
<1>2. PICK f \in Fields : f = call[t].field
  BY <1>1, Places DEF IInv
<1>3. PICK b : b = MemoizedBytes(f)
  OBVIOUS
<1>4. /\ field' = [field EXCEPT ![f].memoizedBytes = b] /\ Return(t) /\ HandOut(f, b)
      /\ monitor' = monitor
  BY <1>2, <1>3 DEF SerializeValue
<1>5. PICK v, m : v = field[f].value /\ m = field[f].memoizedBytes
  OBVIOUS
<1>6. /\ v # NULL => v \in Message
      /\ m # NULL => m \in ByteString
  BY <1>5, FieldTypes DEF IInv
<1>7. b \in ByteString
  BY <1>3, <1>5, <1>6, BytesTypes DEF MemoizedBytes
<1>8. field[f].delayedBytes = NULL
  BY <1>1, <1>2 DEF IInv, CallOK, ParseOK
<1>9. ~ Copying(f)
  <2>1. ASSUME NEW u \in Threads, At(u, "copyMemoized"), call[u].field = f
        PROVE  FALSE
    <3>1. Alone(u) /\ TypeOK
      BY DEF IInv, CallOK
    <3>2. Setting(u)
      BY <2>1, <3>1, Places DEF At, SetterPlaces
    <3> QED
      BY <1>1, <1>2, <2>1, <3>1, <3>2 DEF Alone, At
  <2> QED
    BY <2>1 DEF Copying
<1>10. FieldOK(f)
  BY DEF IInv
<1>11. b = EMPTY => Effective(history[f].content) = << >>
  <2>1. CASE m # NULL
    BY <1>3, <1>5, <1>9, <1>10, <2>1 DEF MemoizedBytes, FieldOK, MemoizedOK, MemoizedEmpty
  <2>2. CASE m = NULL /\ v = NULL
    BY <1>5, <1>8, <1>10, <2>2 DEF FieldOK, ValueOK, Effective, Valid
  <2>3. CASE m = NULL /\ v # NULL
    BY <1>3, <1>5, <2>3 DEF MemoizedBytes, Serialized, EMPTY
  <2> QED
    BY <2>1, <2>2, <2>3
<1>12. Valid(history[f].content) /\ history[f].lost = "nothing" => Canonical(b) = Answer(f)
  <2>1. CASE m # NULL
    BY <1>3, <1>5, <1>9, <1>10, <2>1 DEF MemoizedBytes, FieldOK, BytesOK
  <2>2. CASE m = NULL
    BY <1>3, <1>5, <1>8, <2>2 DEF MemoizedBytes, Answer, Canonical, EMPTY
  <2> QED
    BY <2>1, <2>2
<1>13. /\ monitor' \in [Fields -> Threads \union {NULL}]
       /\ \A g \in Fields \ {f} : monitor'[g] = monitor[g]
       /\ \A u \in Threads \ {t} : monitor[f] = u => monitor'[f] = u
  BY <1>4 DEF IInv, TypeOK
<1> QED
  BY <1>1, <1>2, <1>4, <1>7, <1>11, <1>12, <1>13, MemoizeStep

(* A getter hands out bytes, or their size, and returns. *)
LEMMA HandOutStep ==
  ASSUME IInv, NEW t \in Threads, call[t].pc \in GetterPlaces, NEW f \in Fields, f = call[t].field,
         NEW b \in ByteString, Return(t), HandOut(f, b), UNCHANGED <<field, monitor>>,
         Valid(history[f].content) /\ history[f].lost = "nothing" => Canonical(b) = Answer(f)
  PROVE  IInv'
<1>1. /\ call' \in [Threads -> Calls] /\ \A u \in Threads \ {t} : call'[u] = call[u]
      /\ call'[t].pc = "idle" /\ call'[t].field = NULL /\ call'[t].other = NULL
  BY ReturnCall DEF IInv
<1>2. /\ history' \in [Fields -> [content : Content, lost : {"nothing", "merge", "stream"},
                                 bytes : SUBSET ByteString]]
      /\ \A g \in Fields \ {f} : history'[g] = history[g]
      /\ history'[f].content = history[f].content /\ history'[f].lost = history[f].lost
      /\ history'[f].bytes = history[f].bytes \union {Canonical(b)}
  <2>1. history' = [history EXCEPT ![f].bytes = history[f].bytes \union {Canonical(b)}]
    BY DEF HandOut, Canonical
  <2>2. Canonical(b) \in ByteString
    BY BytesTypes
  <2> QED
    BY <2>1, <2>2 DEF IInv, TypeOK
<1>3. TypeOK'
  BY <1>1, <1>2 DEF IInv, TypeOK
<1>4. /\ Touches(t, f) /\ f \in {call[t].field, call'[t].field}
      /\ ~ Setting(t) /\ ~ Setting(t)'
  BY <1>1, <1>2, GetterTouches
<1>5. Reads(t, f)
  BY <1>2, <1>4 DEF Reads, Size, Answer
<1>6. FieldOK(f) /\ ~ Copying(f)
  BY <1>3, <1>5, NotCopied DEF IInv
<1>7. FieldOK(f)'
  BY <1>2, <1>3, <1>5, <1>6, ReadFieldOK DEF FieldOK, MemoizedOK, BytesOK, MemoizedEmpty
<1>8. ParseOK(t)'
  BY <1>1 DEF ParseOK, At
<1> QED
  BY <1>3, <1>5, <1>7, <1>8, ReadStep

(* The bytes or their size are read.                                        *)
LEMMA ReadBytesStep ==
  ASSUME IInv, NEW t \in Threads, ReadBytes(t) \/ ReadSize(t)
  PROVE  IInv'
<1>1. call[t].pc \in {"bytes", "size"} /\ call[t].pc \in GetterPlaces
  BY DEF ReadBytes, ReadSize, At, GetterPlaces
<1>2. PICK f \in Fields : f = call[t].field
  BY <1>1, Places DEF IInv
<1>3. PICK d, m : d = field[f].delayedBytes /\ m = field[f].memoizedBytes
  OBVIOUS
<1>4. /\ d # NULL => d \in ByteString
      /\ m # NULL => m \in ByteString
  BY <1>3, FieldTypes DEF IInv
<1>5. UNCHANGED <<field, monitor>>
  BY DEF ReadBytes, ReadSize
<1>6. \/ m # NULL /\ HandOut(f, m) /\ Return(t)
      \/ m = NULL /\ d # NULL /\ HandOut(f, d) /\ Return(t)
      \/ m = NULL /\ d = NULL /\ UNCHANGED history /\ (Goto(t, "serialize") \/ Goto(t, "sizeOfValue"))
  BY <1>2, <1>3 DEF ReadBytes, ReadSize
<1>7. CASE m # NULL /\ HandOut(f, m) /\ Return(t)
  <2>1. ~ Copying(f)
    <3>1. ASSUME NEW u \in Threads, At(u, "copyMemoized"), call[u].field = f
          PROVE  FALSE
      <4>1. Alone(u) /\ TypeOK
        BY DEF IInv, CallOK
      <4>2. Setting(u)
        BY <3>1, <4>1, Places DEF At, SetterPlaces
      <4> QED
        BY <1>1, <1>2, <3>1, <4>1, <4>2 DEF Alone, At
    <3> QED
      BY <3>1 DEF Copying
  <2>2. FieldOK(f)
    BY DEF IInv
  <2>3. Valid(history[f].content) /\ history[f].lost = "nothing" => Canonical(m) = Answer(f)
    BY <1>3, <1>7, <2>1, <2>2 DEF FieldOK, BytesOK
  <2> QED
    BY <1>1, <1>2, <1>4, <1>5, <1>7, <2>3, HandOutStep
<1>8. CASE m = NULL /\ d # NULL /\ HandOut(f, d) /\ Return(t)
  <2>1. Canonical(d) = Answer(f)
    BY <1>3, <1>8 DEF Answer
  <2> QED
    BY <1>1, <1>2, <1>4, <1>5, <1>8, <2>1, HandOutStep
<1>9. CASE m = NULL /\ d = NULL /\ UNCHANGED history /\ (Goto(t, "serialize") \/ Goto(t, "sizeOfValue"))
  <2>1. PICK label \in {"serialize", "sizeOfValue"} : Goto(t, label)
    BY <1>9
  <2>2. label \in GetterPlaces /\ TypeOK
    BY DEF GetterPlaces, IInv
  <2>3. call'[t].pc = label /\ call'[t].field = f
    BY <1>1, <1>2, <2>1, <2>2, GotoCall
  <2>4. ParseOK(t)'
    BY <1>3, <1>5, <1>9, <2>3 DEF ParseOK, At
  <2> QED
    BY <1>1, <1>5, <1>9, <2>1, <2>2, <2>4, MoveOn
<1> QED
  BY <1>6, <1>7, <1>8, <1>9

(* The size of the value is returned.                                       *)
LEMMA SizeOfValueStep ==
  ASSUME IInv, NEW t \in Threads, ReadSizeOfValue(t)
  PROVE  IInv'
<1>1. call[t].pc = "sizeOfValue" /\ call[t].pc \in GetterPlaces
  BY DEF ReadSizeOfValue, At, GetterPlaces
<1>2. PICK f \in Fields : f = call[t].field
  BY <1>1, Places DEF IInv
<1>3. PICK b : b = IF field[f].value # NULL THEN Serialized(field[f].value) ELSE EMPTY
  OBVIOUS
<1>4. b \in ByteString
  BY <1>3, FieldTypes, BytesTypes DEF IInv
<1>5. HandOut(f, b) /\ Return(t) /\ UNCHANGED <<field, monitor>>
  BY <1>2, <1>3 DEF ReadSizeOfValue
<1>6. field[f].delayedBytes = NULL
  BY <1>1, <1>2 DEF IInv, CallOK, ParseOK
<1>7. Canonical(b) = Answer(f)
  BY <1>3, <1>6 DEF Answer, Canonical, EMPTY
<1> QED
  BY <1>1, <1>2, <1>4, <1>5, <1>7, HandOutStep

-----------------------------------------------------------------------------
(* The setters. *)

(* What a setter may leave in a field, for the content the users gave it.     *)
Holds(new, content, lost) ==
  /\ new \in LazyFieldLite /\ content \in Content /\ lost \in {"nothing", "merge", "stream"}
  /\ new.delayedBytes # NULL => new.extensionRegistry /\ new.delayedBytes.of = content
  /\ new.delayedBytes = NULL => Valid(content)
  /\ new.value # NULL /\ lost = "nothing" => SamePieces(new.value, Effective(content))
  /\ new.value = NULL /\ new.delayedBytes = NULL => content = << >>
  /\ new.memoizedBytes # EMPTY
  /\ lost = "nothing" => new.memoizedBytes = NULL

(* A call that sets f uses it alone. *)
LEMMA SetterOwns ==
  ASSUME IInv, NEW t \in Threads, NEW f \in Fields,
         call[t].pc \in SetterPlaces, call[t].field = f
  PROVE  /\ \A u \in Threads \ {t} : f \notin {call[u].field, call[u].other}
         /\ \A u \in Threads \ {t} : Setting(u) => call[u].field \notin {call[t].field, call[t].other, NULL}
         /\ call[t].other \in Fields /\ call[t].other # f /\ Setting(t) /\ ~ Copying(call[t].other)
         /\ Copying(f) => At(t, "copyMemoized")
<1>1. TypeOK /\ \A u \in Threads : Alone(u)
  BY DEF IInv, CallOK
<1>2. call[t].other \in Fields /\ Setting(t)
  BY <1>1, Places
<1>3. call[t].other # f /\ \A u \in Threads \ {t} : f \notin {call[u].field, call[u].other}
  BY <1>1, <1>2 DEF Alone
<1>4. ASSUME NEW u \in Threads \ {t}, Setting(u)
      PROVE  call[u].field \notin {call[t].field, call[t].other, NULL}
  <2>1. call[u].pc \in SetterPlaces
    BY <1>1, <1>4, Places DEF At
  <2>2. call[u].field \in Fields
    BY <1>1, <2>1, Places
  <2> QED
    BY <1>1, <1>4, <2>2, PiecesAssumption DEF Alone
<1>5. ~ Copying(call[t].other)
  <2> SUFFICES ASSUME NEW u \in Threads, At(u, "copyMemoized"), call[u].field = call[t].other
               PROVE  FALSE
    BY DEF Copying
  <2>1. Setting(u)
    BY <1>1, Places DEF At, SetterPlaces
  <2> QED
    BY <1>3, <1>4, <2>1
<1>6. Copying(f) => At(t, "copyMemoized")
  BY <1>3 DEF Copying
<1> QED
  BY <1>2, <1>3, <1>4, <1>5, <1>6

(* f gets a new content at once, and the call ends. *)
LEMMA NewContentStep ==
  ASSUME IInv, NEW t \in Threads, NEW f \in Fields, NEW new, NEW content, NEW lost,
         Holds(new, content, lost), field' = [field EXCEPT ![f] = new], Changed(f, content, lost),
         monitor' = monitor,
         \/ At(t, "idle") /\ Unused(f) /\ UNCHANGED call
         \/ call[t].pc \in SetterPlaces /\ call[t].field = f /\ Return(t)
  PROVE  IInv'
<1>1. TypeOK
  BY DEF IInv
<1>2. /\ \A u \in Threads \ {t} : call'[u] = call[u]
      /\ call' \in [Threads -> Calls]
      /\ call'[t].pc = "idle" /\ call'[t].field = NULL /\ call'[t].other = NULL
  <2>1. CASE At(t, "idle") /\ UNCHANGED call
    BY <1>1, <2>1, Places DEF TypeOK, NoCall
  <2>2. CASE Return(t)
    BY <1>1, <2>2, ReturnCall
  <2> QED
    BY <2>1, <2>2
<1>3. /\ \A u \in Threads \ {t} : f \notin {call[u].field, call[u].other}
      /\ call[t].field \in {f, NULL}
      /\ \A u \in Threads \ {t} : Setting(u) => call[u].field # NULL
  <2>1. CASE At(t, "idle") /\ Unused(f)
    <3>1. call[t].field = NULL
      BY <1>1, <2>1, Places
    <3>2. ASSUME NEW u \in Threads \ {t}, Setting(u)
          PROVE  call[u].field # NULL
      <4>1. call[u].pc \in SetterPlaces
        BY <1>1, <3>2, Places DEF At
      <4> QED
        BY <1>1, <4>1, Places, PiecesAssumption
    <3> QED
      BY <2>1, <3>1, <3>2 DEF Unused
  <2>2. CASE call[t].pc \in SetterPlaces /\ call[t].field = f
    BY <2>2, SetterOwns
  <2> QED
    BY <2>1, <2>2
<1>4. /\ field' \in [Fields -> LazyFieldLite] /\ field'[f] = new
      /\ \A g \in Fields \ {f} : field'[g] = field[g]
  BY <1>1 DEF TypeOK, Holds
<1>5. /\ history' \in [Fields -> [content : Content, lost : {"nothing", "merge", "stream"},
                                 bytes : SUBSET ByteString]]
      /\ history'[f] = [content |-> content, lost |-> lost, bytes |-> {}]
      /\ \A g \in Fields \ {f} : history'[g] = history[g]
  BY <1>1 DEF TypeOK, Holds, Changed
<1>6. TypeOK'
  BY <1>1, <1>2, <1>4, <1>5 DEF TypeOK
<1>7. Owns(t, f)
  BY <1>2, <1>3, <1>4, <1>5 DEF Owns, Touches
<1>8. ~ Copying(f)'
  <2> SUFFICES ASSUME NEW u \in Threads, At(u, "copyMemoized")', call'[u].field = f
               PROVE  FALSE
    BY DEF Copying
  <2> QED
    BY <1>2, <1>3 DEF At
<1>9. FieldOK(f)'
  BY <1>4, <1>5, <1>8 DEF FieldOK, DelayedOK, ValueOK, MemoizedOK, BytesOK, MemoizedEmpty, Holds
<1>10. CallOK(t)'
  BY <1>2 DEF CallOK, Alone, ParseOK, MergeOK, CopyOK, At, Setting
<1> QED
  BY <1>6, <1>7, <1>9, <1>10, OwnStep

(* A field that is given a value holds it.                                  *)
LEMMA HoldValueHolds ==
  ASSUME NEW old \in LazyFieldLite, NEW v \in Message, NEW content \in Content, Valid(content),
         NEW lost \in {"nothing", "merge", "stream"},
         lost = "nothing" => SamePieces(v, Effective(content))
  PROVE  Holds(HoldValue(v, old), content, lost)
<1>1. PICK new : new = HoldValue(v, old)
  OBVIOUS
<1>2. /\ new \in LazyFieldLite /\ new.delayedBytes = NULL /\ new.memoizedBytes = NULL
      /\ new.value = v
  BY <1>1 DEF HoldValue, LazyFieldLite
<1>3. v # NULL /\ EMPTY # NULL
  BY BytesTypes, PiecesAssumption
<1> QED
  BY <1>1, <1>2, <1>3 DEF Holds

(* A field that is given bytes holds them.                                  *)
LEMMA HoldBytesHolds ==
  ASSUME NEW old, NEW bytes \in ByteString, bytes.of \in Content
  PROVE  Holds(HoldBytes(bytes, old), bytes.of, "nothing")
<1>1. PICK new : new = HoldBytes(bytes, old)
  OBVIOUS
<1>2. /\ new \in LazyFieldLite /\ new.delayedBytes = bytes /\ new.memoizedBytes = NULL
      /\ new.value = NULL /\ new.extensionRegistry
  BY <1>1 DEF HoldBytes, LazyFieldLite
<1>3. bytes # NULL /\ EMPTY # NULL
  BY BytesTypes, PiecesAssumption
<1> QED
  BY <1>1, <1>2, <1>3 DEF Holds

(* What users give a field.                                                 *)
LEMMA InputTypes ==
  /\ \A v \in MessageInputs : v \in Message /\ v \in Content /\ Valid(v)
  /\ \A b \in BytesInputs : b \in ByteString /\ b.of \in Content /\ b.of \in Seq(Pieces \union {Bad})
  /\ \A b \in StreamInputs : b \in BytesInputs /\ Len(b.of) = 1
<1>1. MaxPieces \in Nat \ {0} /\ Inputs \subseteq Pieces \union {Bad} /\ Bad \notin Pieces
  BY PiecesAssumption
<1>2. \A S : << >> \in UNION {[1..n -> S] : n \in 0..MaxPieces}
  <2>1. ASSUME NEW S
        PROVE  << >> \in UNION {[1..n -> S] : n \in 0..MaxPieces}
    <3>1. << >> \in Seq(S) /\ Len(<< >>) <= MaxPieces
      BY <1>1, EmptySeq
    <3> QED
      BY <3>1, BoundedSeq
  <2> QED
    BY <2>1
<1>3. \A S : \A p \in S : <<p>> \in UNION {[1..n -> S] : n \in 0..MaxPieces}
  <2>1. ASSUME NEW S, NEW p \in S
        PROVE  <<p>> \in UNION {[1..n -> S] : n \in 0..MaxPieces}
    <3>1. <<p>> \in Seq(S) /\ Len(<<p>>) <= MaxPieces
      BY <1>1
    <3> QED
      BY <3>1, BoundedSeq
  <2> QED
    BY <2>1
<1>4. ASSUME NEW v \in MessageInputs
      PROVE  v \in Message /\ v \in Content /\ Valid(v)
  <2>1. CASE v = << >>
    BY <1>2, <2>1 DEF Message, Content, Valid
  <2>2. CASE \E p \in Pieces : v = <<p>>
    <3>1. PICK p \in Pieces : v = <<p>>
      BY <2>2
    <3>2. p \in Pieces \union {Garbled} /\ p \in Pieces \union {Bad} /\ p # Bad
      BY <1>1
    <3>3. v \in Message /\ v \in Content
      BY <1>3, <3>1, <3>2 DEF Message, Content
    <3>4. Valid(v)
      BY <3>1, <3>2 DEF Valid
    <3> QED
      BY <3>3, <3>4
  <2> QED
    BY <1>4, <2>1, <2>2 DEF MessageInputs
<1>5. ASSUME NEW b \in StreamInputs
      PROVE  /\ b \in ByteString /\ b.of \in Content /\ b.of \in Seq(Pieces \union {Bad})
             /\ Len(b.of) = 1
  <2>1. PICK p \in Pieces \union {Bad} : b = [of |-> <<p>>, wire |-> TRUE]
    BY <1>1 DEF StreamInputs
  <2>2. b.of = <<p>> /\ <<p>> \in Content /\ <<p>> \in Seq(Pieces \union {Bad}) /\ Len(<<p>>) = 1
    <3>1. b.of = <<p>> /\ <<p>> \in Seq(Pieces \union {Bad}) /\ Len(<<p>>) = 1
      BY <2>1
    <3>2. <<p>> \in Content
      BY <1>3 DEF Content
    <3> QED
      BY <3>1, <3>2
  <2>3. <<p>> \in UNION {[1..n -> Pieces \union {Bad, Garbled}] : n \in 0..MaxPieces}
    BY <1>3
  <2> QED
    BY <2>1, <2>2, <2>3 DEF ByteString
<1>6. EMPTY \in ByteString /\ EMPTY.of \in Content /\ EMPTY.of \in Seq(Pieces \union {Bad})
  <2>1. << >> \in Content
    BY <1>2 DEF Content
  <2>2. EMPTY.of = << >>
    BY DEF EMPTY
  <2> QED
    BY <2>1, <2>2, BytesTypes, EmptySeq
<1> QED
  BY <1>4, <1>5, <1>6 DEF BytesInputs

(* The value is set.                                                        *)
LEMMA SetValueStep ==
  ASSUME IInv, NEW t \in Threads, NEW f \in Fields, NEW v \in MessageInputs, SetValue(t, f, v)
  PROVE  IInv'
<1>1. v \in Message /\ v \in Content /\ Valid(v) /\ Effective(v) = v
  BY InputTypes DEF Effective
<1>2. Holds(HoldValue(v, field[f]), v, "nothing")
  BY <1>1, HoldValueHolds, SamePiecesRefl, FieldTypes DEF IInv
<1> QED
  BY <1>2, NewContentStep DEF SetValue

(* The bytes are set.                                                       *)
LEMMA SetByteStringStep ==
  ASSUME IInv, NEW t \in Threads, NEW f \in Fields, NEW b \in BytesInputs, SetByteString(t, f, b)
  PROVE  IInv'
<1>1. Holds(HoldBytes(b, field[f]), b.of, "nothing")
  BY InputTypes, HoldBytesHolds
<1> QED
  BY <1>1, NewContentStep DEF SetByteString

(* The field is cleared.                                                    *)
LEMMA ClearStep ==
  ASSUME IInv, NEW t \in Threads, NEW f \in Fields, Clear(t, f)
  PROVE  IInv'
<1>1. PICK new : new = HoldValue(NULL, field[f])
  OBVIOUS
<1>2. /\ new \in LazyFieldLite /\ new.delayedBytes = NULL /\ new.memoizedBytes = NULL
      /\ new.value = NULL
  BY <1>1, FieldTypes DEF IInv, HoldValue, LazyFieldLite
<1>3. << >> \in Content /\ Valid(<< >>) /\ EMPTY # NULL
  BY InputTypes, BytesTypes, PiecesAssumption DEF MessageInputs
<1>4. Holds(new, << >>, "nothing")
  BY <1>2, <1>3 DEF Holds
<1> QED
  BY <1>1, <1>4, NewContentStep DEF Clear

(* A field without content has none for a parser either. *)
LEMMA DefaultEmpty ==
  ASSUME IInv, NEW f \in Fields, ~ Copying(f), ContainsDefaultInstance(f)
  PROVE  Effective(history[f].content) = << >>
<1>1. FieldOK(f)
  BY DEF IInv
<1> QED
  BY <1>1 DEF FieldOK, DelayedOK, ValueOK, MemoizedOK, ContainsDefaultInstance, NothingHeld,
     Effective, EMPTY

(* The size of a field bounds its content and its value.                    *)
LEMMA SizeBounds ==
  ASSUME IInv, NEW f \in Fields
  PROVE  /\ Size(f) \in Nat /\ Len(history[f].content) \in Nat /\ Len(history[f].content) <= Size(f)
         /\ field[f].value # NULL => Len(field[f].value) \in Nat /\ Len(field[f].value) <= Size(f)
<1>1. /\ Len(history[f].content) \in Nat
      /\ field[f].value # NULL => field[f].value \in Seq(Pieces \union {Garbled})
  BY FieldTypes DEF IInv
<1>2. field[f].value # NULL => Len(field[f].value) \in Nat
  BY <1>1, LenProperties
<1> QED
  BY <1>1, <1>2 DEF Size

(* Contents that are not too long together can be merged.                   *)
LEMMA ContentConcat ==
  ASSUME NEW s \in Seq(Pieces \union {Bad}), NEW r \in Seq(Pieces \union {Bad}),
         Len(s) + Len(r) <= MaxPieces
  PROVE  s \o r \in Content
<1>1. s \o r \in Seq(Pieces \union {Bad}) /\ Len(s \o r) <= MaxPieces
  BY ConcatProperties
<1> QED
  BY <1>1, BoundedSeq DEF Content

(* Messages that are not too long together can be merged.                   *)
LEMMA MessageConcat ==
  ASSUME NEW s \in Seq(Pieces \union {Garbled}), NEW r \in Seq(Pieces \union {Garbled}),
         Len(s) + Len(r) <= MaxPieces
  PROVE  s \o r \in Message
<1>1. s \o r \in Seq(Pieces \union {Garbled}) /\ Len(s \o r) <= MaxPieces
  BY ConcatProperties
<1> QED
  BY <1>1, BoundedSeq DEF Message

(* Valid content has the pieces of a message. *)
LEMMA ValidPieces ==
  ASSUME NEW s \in Seq(Pieces \union {Bad}), Valid(s)
  PROVE  s \in Seq(Pieces \union {Garbled})
<1>1. \A i \in 1..Len(s) : s[i] \in Pieces \union {Garbled}
  BY ElementOfSeq DEF Valid
<1>2. s \in [1..Len(s) -> Pieces \union {Garbled}] /\ Len(s) \in Nat
  BY <1>1, LenProperties
<1> QED
  BY <1>2, SeqDef

(* Bytes are merged from a stream.                                          *)
LEMMA StreamStep ==
  ASSUME IInv, NEW t \in Threads, NEW f \in Fields, NEW b \in StreamInputs, MergeFromStream(t, f, b)
  PROVE  IInv'
<1> DEFINE P == Pieces \union {Bad}
<1>1. PICK c, old : c = history[f].content /\ old = field[f]
  OBVIOUS
<1>2. /\ b \in ByteString /\ b.of \in Content /\ b.of \in Seq(P) /\ Len(b.of) = 1
  BY InputTypes
<1>3. /\ c \in Seq(P) /\ Len(c) \in Nat /\ old \in LazyFieldLite /\ Len(c) + 1 <= MaxPieces
      /\ MaxPieces \in Nat
      /\ old.value # NULL => old.value \in Seq(Pieces \union {Garbled})
                             /\ Len(old.value) \in Nat /\ Len(old.value) + 1 <= MaxPieces
  <2>1. MaxPieces \in Nat /\ Size(f) + 1 <= MaxPieces
    BY <1>2, PiecesAssumption DEF MergeFromStream
  <2> QED
    <3>1. /\ c \in Seq(P) /\ old \in LazyFieldLite
          /\ old.value # NULL => old.value \in Seq(Pieces \union {Garbled})
      BY <1>1, FieldTypes DEF IInv
    <3>2. /\ Size(f) \in Nat /\ Len(c) \in Nat /\ Len(c) <= Size(f)
          /\ old.value # NULL => Len(old.value) \in Nat /\ Len(old.value) <= Size(f)
      BY <1>1, SizeBounds
    <3> QED
      BY <2>1, <3>1, <3>2
<1>4. At(t, "idle") /\ Unused(f) /\ UNCHANGED call /\ monitor' = monitor
  BY DEF MergeFromStream
<1>5. ~ Copying(f)
  BY <1>4, PiecesAssumption DEF Copying, Unused
<1>6. FieldOK(f)
  BY DEF IInv
<1>7. CASE /\ ContainsDefaultInstance(f) /\ field' = [field EXCEPT ![f] = HoldBytes(b, field[f])]
           /\ Changed(f, Effective(history[f].content) \o b.of, "nothing")
  <2>1. Effective(c) \o b.of = b.of
    BY <1>1, <1>2, <1>5, <1>7, DefaultEmpty, ConcatEmptySeq
  <2>2. Holds(HoldBytes(b, old), b.of, "nothing")
    BY <1>2, HoldBytesHolds
  <2> QED
    BY <1>1, <1>4, <1>7, <2>1, <2>2, NewContentStep
<1>8. CASE /\ ~ ContainsDefaultInstance(f) /\ field[f].delayedBytes # NULL
           /\ field' = [field EXCEPT ![f] = HoldBytes(Concat(field[f].delayedBytes, b), field[f])]
           /\ Changed(f, history[f].content \o b.of, "nothing")
  <2>1. PICK d : d = old.delayedBytes
    OBVIOUS
  <2>2. d \in ByteString /\ d.of = c
    BY <1>1, <1>6, <1>8, <2>1, FieldTypes DEF IInv, FieldOK, DelayedOK
  <2>3. Concat(d, b) \in ByteString /\ Concat(d, b).of = c \o b.of
    BY <1>2, <1>3, <2>2, ConcatBytes
  <2>4. c \o b.of \in Content
    BY <1>2, <1>3, ContentConcat
  <2>5. Holds(HoldBytes(Concat(d, b), old), c \o b.of, "nothing")
    BY <2>3, <2>4, HoldBytesHolds
  <2> QED
    BY <1>1, <1>4, <1>8, <2>1, <2>5, NewContentStep
<1>9. CASE /\ ~ ContainsDefaultInstance(f) /\ field[f].delayedBytes = NULL
           /\ \E new \in MergeUnframed(field[f]) : field' = [field EXCEPT ![f] = new]
           /\ Changed(f, Effective(history[f].content) \o Effective(b.of), "stream")
  <2>1. PICK new \in MergeUnframed(old) : field' = [field EXCEPT ![f] = new]
    BY <1>1, <1>9
  <2>2. old.value # NULL /\ old.memoizedBytes # EMPTY /\ old.delayedBytes = NULL
    BY <1>1, <1>9 DEF ContainsDefaultInstance, NothingHeld, MemoizedEmpty
  <2>3. PICK content : content = Effective(c) \o Effective(b.of)
    OBVIOUS
  <2>4. /\ Effective(c) \in Seq(P) /\ Valid(Effective(c)) /\ Len(Effective(c)) <= Len(c)
        /\ Len(Effective(c)) \in Nat
        /\ Effective(b.of) \in Seq(P) /\ Valid(Effective(b.of)) /\ Len(Effective(b.of)) <= 1
        /\ Len(Effective(b.of)) \in Nat
    <3>1. PICK r : r = b.of
      OBVIOUS
    <3>2. r \in Seq(P) /\ Len(r) = 1
      BY <1>2, <3>1
    <3>3. /\ Effective(r) \in Seq(P) /\ Valid(Effective(r)) /\ Len(Effective(r)) <= Len(r)
          /\ Len(Effective(r)) \in Nat
      BY <3>2, EffectiveType
    <3>4. /\ Effective(c) \in Seq(P) /\ Valid(Effective(c)) /\ Len(Effective(c)) <= Len(c)
          /\ Len(Effective(c)) \in Nat
      BY <1>3, EffectiveType
    <3> QED
      BY <3>1, <3>2, <3>3, <3>4
  <2>5. content \in Content /\ Valid(content)
    <3>1. Len(Effective(c)) + Len(Effective(b.of)) <= MaxPieces
      BY <1>3, <2>4
    <3>2. content \in Content
      BY <2>3, <2>4, <3>1, ContentConcat
    <3>3. Valid(content)
      BY <2>3, <2>4, ValidConcat
    <3> QED
      BY <3>2, <3>3
  <2>6. CASE new = [old EXCEPT !.extensionRegistry = TRUE]
    <3>1. /\ new \in LazyFieldLite /\ new.delayedBytes = NULL /\ new.value # NULL
          /\ new.memoizedBytes # EMPTY
      BY <1>3, <2>2, <2>6 DEF LazyFieldLite
    <3>2. Holds(new, content, "stream")
      BY <2>5, <3>1 DEF Holds
    <3> QED
      BY <1>1, <1>4, <1>9, <2>1, <2>3, <3>2, NewContentStep
  <2>7. CASE new = HoldValue(Append(old.value, Garbled), [old EXCEPT !.extensionRegistry = TRUE])
    <3>1. PICK older : older = [old EXCEPT !.extensionRegistry = TRUE]
      OBVIOUS
    <3>2. older \in LazyFieldLite
      BY <1>3, <3>1 DEF LazyFieldLite
    <3>3. Append(old.value, Garbled) \in Message
      <4>1. /\ Append(old.value, Garbled) \in Seq(Pieces \union {Garbled})
            /\ Len(Append(old.value, Garbled)) <= MaxPieces
        BY <1>3, <2>2, AppendProperties
      <4> QED
        BY <4>1, BoundedSeq DEF Message
    <3>4. Holds(HoldValue(Append(old.value, Garbled), older), content, "stream")
      BY <2>5, <3>2, <3>3, HoldValueHolds
    <3> QED
      BY <1>1, <1>4, <1>9, <2>1, <2>3, <2>7, <3>1, <3>4, NewContentStep
  <2> QED
    BY <2>6, <2>7 DEF MergeUnframed
<1> QED
  BY <1>7, <1>8, <1>9 DEF MergeFromStream

(* merge and set begin. *)
LEMMA TakeStep ==
  ASSUME IInv, NEW t \in Threads, NEW f \in Fields, NEW g \in Fields, Merge(t, f, g) \/ Set(t, f, g)
  PROVE  IInv'
<1>1. PICK label \in {"default", "copyValue"} :
        /\ Take(t, f, g, label)
        /\ label = "default" => Size(f) + Size(g) <= MaxPieces
  BY DEF Merge, Set
<1>2. /\ At(t, "idle") /\ f # g /\ Unused(f) /\ Readable(g) /\ UNCHANGED <<field, monitor, history>>
      /\ call' = [call EXCEPT ![t] = [pc |-> label, field |-> f, other |-> g]]
  BY <1>1 DEF Take
<1>3. /\ call' \in [Threads -> Calls] /\ \A u \in Threads \ {t} : call'[u] = call[u]
      /\ call'[t].pc = label /\ call'[t].field = f /\ call'[t].other = g
  BY <1>2 DEF IInv, TypeOK, Calls
<1>4. TypeOK /\ call[t].field = NULL
  BY <1>2, Places DEF IInv
<1>5. ASSUME NEW u \in Threads \ {t}
      PROVE  /\ f \notin {call[u].field, call[u].other}
             /\ Setting(u) => call[u].field \notin {f, g}
  BY <1>2 DEF Unused, Readable
<1>6. Owns(t, f)
  BY <1>2, <1>3, <1>4, <1>5 DEF Owns, Touches
<1>7. TypeOK'
  BY <1>2, <1>3, <1>4 DEF TypeOK
<1>8. FieldOK(f)'
  <2>1. ~ Copying(f)'
    BY <1>3, <1>5 DEF Copying, At
  <2>2. ~ Copying(f) /\ FieldOK(f)
    BY <1>2, PiecesAssumption DEF Copying, Unused, IInv
  <2> QED
    BY <1>2, <2>1, <2>2 DEF FieldOK, DelayedOK, ValueOK, MemoizedOK, BytesOK, MemoizedEmpty, Answer
<1>9. CallOK(t)'
  <2>1. Alone(t)'
    BY <1>2, <1>3, <1>5 DEF Alone
  <2>2. ParseOK(t)' /\ CopyOK(t)'
    BY <1>3 DEF ParseOK, CopyOK, At
  <2>3. MergeOK(t)'
    BY <1>1, <1>2, <1>3 DEF MergeOK, At, Size
  <2> QED
    BY <2>1, <2>2, <2>3 DEF CallOK
<1> QED
  BY <1>6, <1>7, <1>8, <1>9, OwnStep

(* merge goes on, or finds nothing to merge and returns. *)
LEMMA MergeMoves ==
  ASSUME IInv, NEW t \in Threads, call[t].pc \in {"default", "held"},
         UNCHANGED <<field, monitor, history>>,
         Return(t) \/ \E label \in {"held", "copyValue", "combine"} : Goto(t, label),
         MergeOK(t)'
  PROVE  IInv'
<1>1. TypeOK /\ call[t].pc \in SetterPlaces
  BY DEF IInv, SetterPlaces
<1>2. PICK f \in Fields : f = call[t].field
  BY <1>1, Places
<1>3. /\ \A u \in Threads \ {t} : f \notin {call[u].field, call[u].other}
      /\ \A u \in Threads \ {t} : Setting(u) => call[u].field \notin {call[t].field, call[t].other, NULL}
      /\ call[t].other \in Fields /\ call[t].other # f /\ Setting(t) /\ ~ Copying(f)
  BY <1>1, <1>2, SetterOwns DEF At
<1>4. /\ call' \in [Threads -> Calls] /\ \A u \in Threads \ {t} : call'[u] = call[u]
      /\ \/ call'[t].field = f /\ call'[t].other = call[t].other
         \/ call'[t].field = NULL /\ call'[t].other = NULL
      /\ call'[t].pc \in {"idle", "held", "copyValue", "combine"}
  <2>1. CASE Return(t)
    BY <1>1, <2>1, ReturnCall
  <2>2. CASE \E label \in {"held", "copyValue", "combine"} : Goto(t, label)
    <3>1. PICK label \in {"held", "copyValue", "combine"} : Goto(t, label)
      BY <2>2
    <3>2. label \in SetterPlaces
      BY DEF SetterPlaces
    <3> QED
      BY <1>1, <1>2, <3>1, <3>2, GotoCall
  <2> QED
    BY <2>1, <2>2
<1>5. TypeOK'
  BY <1>1, <1>4 DEF TypeOK
<1>6. Owns(t, f)
  BY <1>2, <1>3, <1>4 DEF Owns, Touches
<1>7. FieldOK(f)'
  <2>1. ~ Copying(f)' /\ FieldOK(f)
    BY <1>3, <1>4 DEF Copying, At, IInv
  <2> QED
    BY <1>3, <2>1 DEF FieldOK, DelayedOK, ValueOK, MemoizedOK, BytesOK, MemoizedEmpty, Answer
<1>8. CallOK(t)'
  BY <1>3, <1>4 DEF CallOK, Alone, ParseOK, CopyOK, At, Setting
<1> QED
  BY <1>5, <1>6, <1>7, <1>8, OwnStep

(* other has no content: the history stays, too. *)
LEMMA UnchangedContent ==
  ASSUME IInv, NEW f \in Fields, NEW g \in Fields, Unchanged(f, g),
         Effective(history[g].content) = << >>
  PROVE  history' = history
<1>1. history[f].content \o << >> = history[f].content
  BY FieldTypes, ConcatEmptySeq DEF IInv
<1>2. history' = [history EXCEPT ![f].content = history[f].content]
  BY <1>1 DEF Unchanged
<1> QED
  BY <1>2 DEF IInv, TypeOK

(* A merge finds out whether the other field is an empty one.               *)
LEMMA OtherMemoizedStep ==
  ASSUME IInv, NEW t \in Threads, ReadOtherMemoized(t)
  PROVE  IInv'
<1>1. TypeOK /\ call[t].pc = "default" /\ call[t].pc \in SetterPlaces /\ MergeOK(t)
  BY DEF IInv, CallOK, ReadOtherMemoized, At, SetterPlaces
<1>2. PICK f \in Fields, g \in Fields : f = call[t].field /\ g = call[t].other
  BY <1>1, Places
<1>3. UNCHANGED <<field, monitor>>
  BY DEF ReadOtherMemoized
<1>4. CASE MemoizedEmpty(g)
  <2>1. Unchanged(f, g) /\ Return(t)
    BY <1>2, <1>4 DEF ReadOtherMemoized
  <2>2. Effective(history[g].content) = << >>
    BY <1>1, <1>2, <1>4, SetterOwns, DefaultEmpty DEF ContainsDefaultInstance
  <2>3. history' = history
    BY <2>1, <2>2, UnchangedContent
  <2>4. MergeOK(t)'
    BY <1>1, <2>1, ReturnCall DEF MergeOK, At
  <2> QED
    BY <1>1, <1>3, <2>1, <2>3, <2>4, MergeMoves
<1>5. CASE ~ MemoizedEmpty(g)
  <2>1. Goto(t, "held") /\ UNCHANGED history
    BY <1>2, <1>5 DEF ReadOtherMemoized
  <2>2. call'[t].pc = "held" /\ call'[t].field = f /\ call'[t].other = g
    BY <1>1, <1>2, <2>1, GotoCall DEF SetterPlaces
  <2>3. MergeOK(t)'
    BY <1>1, <1>2, <1>3, <2>1, <2>2 DEF MergeOK, At, Size
  <2> QED
    BY <1>1, <1>3, <2>1, <2>3, MergeMoves
<1> QED
  BY <1>4, <1>5

(* A merge finds out what the other field holds.                            *)
LEMMA OtherHeldStep ==
  ASSUME IInv, NEW t \in Threads, ReadOtherHeld(t)
  PROVE  IInv'
<1>1. TypeOK /\ call[t].pc = "held" /\ call[t].pc \in SetterPlaces /\ MergeOK(t)
  BY DEF IInv, CallOK, ReadOtherHeld, At, SetterPlaces
<1>2. PICK f \in Fields, g \in Fields : f = call[t].field /\ g = call[t].other
  BY <1>1, Places
<1>3. UNCHANGED <<field, monitor>>
  BY DEF ReadOtherHeld
<1>4. CASE NothingHeld(g)
  <2>1. Unchanged(f, g) /\ Return(t)
    BY <1>2, <1>4 DEF ReadOtherHeld
  <2>2. Effective(history[g].content) = << >>
    BY <1>1, <1>2, <1>4, SetterOwns, DefaultEmpty DEF ContainsDefaultInstance
  <2>3. history' = history
    BY <2>1, <2>2, UnchangedContent
  <2>4. MergeOK(t)'
    BY <1>1, <2>1, ReturnCall DEF MergeOK, At
  <2> QED
    BY <1>1, <1>3, <2>1, <2>3, <2>4, MergeMoves
<1>5. CASE ~ NothingHeld(g)
  <2>1. PICK label \in {"copyValue", "combine"} :
          /\ Goto(t, label) /\ UNCHANGED history
          /\ label = "combine" => ~ ContainsDefaultInstance(f)
    BY <1>2, <1>5 DEF ReadOtherHeld
  <2>2. label \in SetterPlaces
    BY DEF SetterPlaces
  <2>3. call'[t].pc = label /\ call'[t].field = f /\ call'[t].other = g
    BY <1>1, <1>2, <2>1, <2>2, GotoCall
  <2>4. MergeOK(t)'
    BY <1>1, <1>2, <1>3, <1>5, <2>1, <2>3 DEF MergeOK, At, Size, ContainsDefaultInstance,
       NothingHeld, MemoizedEmpty
  <2> QED
    BY <1>1, <1>3, <2>1, <2>4, MergeMoves
<1> QED
  BY <1>4, <1>5

(* set copies all but the memoized bytes, between two steps of a parse too.  *)
LEMMA CopyValueStep ==
  ASSUME IInv, NEW t \in Threads, SetValueFromOther(t)
  PROVE  IInv'
<1>1. TypeOK /\ call[t].pc = "copyValue" /\ call[t].pc \in SetterPlaces
  BY DEF IInv, SetValueFromOther, At, SetterPlaces
<1>2. PICK f \in Fields, g \in Fields : f = call[t].field /\ g = call[t].other
  BY <1>1, Places
<1>3. /\ \A u \in Threads \ {t} : f \notin {call[u].field, call[u].other}
      /\ \A u \in Threads \ {t} : Setting(u) => call[u].field \notin {f, g, NULL}
      /\ g # f /\ Setting(t)
  BY <1>1, <1>2, SetterOwns
<1>4. PICK old, other : old = field[f] /\ other = field[g]
  OBVIOUS
<1>5. PICK new : new = CopyValue(old, other)
  OBVIOUS
<1>6. old \in LazyFieldLite /\ other \in LazyFieldLite /\ field \in [Fields -> LazyFieldLite]
  BY <1>1, <1>4 DEF TypeOK
<1>7. /\ new \in LazyFieldLite /\ new.delayedBytes = other.delayedBytes /\ new.value = other.value
      /\ other.extensionRegistry => new.extensionRegistry
  BY <1>5, <1>6 DEF CopyValue, LazyFieldLite
<1>8. /\ field' = [field EXCEPT ![f] = new] /\ Changed(f, history[g].content, history[g].lost)
      /\ Goto(t, "copyMemoized") /\ monitor' = monitor
  BY <1>2, <1>4, <1>5 DEF SetValueFromOther
<1>9. /\ call' \in [Threads -> Calls] /\ \A u \in Threads \ {t} : call'[u] = call[u]
      /\ call'[t].pc = "copyMemoized" /\ call'[t].field = f /\ call'[t].other = g
  BY <1>1, <1>2, <1>8, GotoCall DEF SetterPlaces
<1>10. /\ field' \in [Fields -> LazyFieldLite] /\ field'[f] = new
       /\ \A h \in Fields \ {f} : field'[h] = field[h]
  BY <1>6, <1>7, <1>8
<1>11. /\ history' \in [Fields -> [content : Content, lost : {"nothing", "merge", "stream"},
                                 bytes : SUBSET ByteString]]
       /\ history'[f].content = history[g].content /\ history'[f].lost = history[g].lost
       /\ history'[f].bytes = {}
       /\ \A h \in Fields \ {f} : history'[h] = history[h]
  <2>1. history[g].content \in Content /\ history[g].lost \in {"nothing", "merge", "stream"}
    BY <1>1, FieldTypes
  <2> QED
    BY <1>1, <1>8, <2>1 DEF TypeOK, Changed
<1>12. TypeOK'
  BY <1>1, <1>8, <1>9, <1>10, <1>11 DEF TypeOK
<1>13. Owns(t, f)
  BY <1>2, <1>3, <1>8, <1>9, <1>10, <1>11 DEF Owns, Touches
<1>14. Copying(f)' /\ FieldOK(g)
  BY <1>9 DEF Copying, At, IInv
<1>15. FieldOK(f)'
  BY <1>4, <1>7, <1>10, <1>11, <1>14 DEF FieldOK, DelayedOK, ValueOK, MemoizedOK, BytesOK
<1>16. CallOK(t)'
  <2>1. Alone(t)'
    BY <1>3, <1>9 DEF Alone
  <2>2. ParseOK(t)' /\ MergeOK(t)'
    BY <1>9 DEF ParseOK, MergeOK, At
  <2>3. CopyOK(t)'
    BY <1>3, <1>4, <1>7, <1>9, <1>10, <1>11 DEF CopyOK, Answer
  <2> QED
    BY <2>1, <2>2, <2>3 DEF CallOK
<1> QED
  BY <1>12, <1>13, <1>15, <1>16, OwnStep

(* The memoized bytes of the other field answer for the copy too.            *)
LEMMA CopyMemoizedStep ==
  ASSUME IInv, NEW t \in Threads, SetMemoizedFromOther(t)
  PROVE  IInv'
<1>1. TypeOK /\ call[t].pc = "copyMemoized" /\ call[t].pc \in SetterPlaces /\ CopyOK(t)
  BY DEF IInv, CallOK, SetMemoizedFromOther, At, SetterPlaces
<1>2. PICK f \in Fields, g \in Fields : f = call[t].field /\ g = call[t].other
  BY <1>1, Places
<1>3. /\ \A u \in Threads \ {t} : f \notin {call[u].field, call[u].other}
      /\ \A u \in Threads \ {t} : Setting(u) => call[u].field \notin {f, g, NULL}
      /\ g # f /\ Setting(t) /\ ~ Copying(g)
  BY <1>1, <1>2, SetterOwns
<1>4. PICK m : m = field[g].memoizedBytes
  OBVIOUS
<1>5. field[f] \in LazyFieldLite /\ field \in [Fields -> LazyFieldLite] /\ m \in ByteString \union {NULL}
  BY <1>1, <1>4, FieldTypes DEF TypeOK
<1>6. /\ field' = [field EXCEPT ![f] = [field[f] EXCEPT !.memoizedBytes = m]]
      /\ Return(t) /\ UNCHANGED <<monitor, history>>
  BY <1>2, <1>4 DEF SetMemoizedFromOther
<1>7. /\ call' \in [Threads -> Calls] /\ \A u \in Threads \ {t} : call'[u] = call[u]
      /\ call'[t].pc = "idle" /\ call'[t].field = NULL /\ call'[t].other = NULL
  BY <1>1, <1>6, ReturnCall
<1>8. /\ field' \in [Fields -> LazyFieldLite]
      /\ field'[f].memoizedBytes = m /\ field'[f].value = field[f].value
      /\ field'[f].delayedBytes = field[f].delayedBytes
      /\ field'[f].extensionRegistry = field[f].extensionRegistry
      /\ \A h \in Fields \ {f} : field'[h] = field[h]
  <2>1. PICK new : new = [field[f] EXCEPT !.memoizedBytes = m]
    OBVIOUS
  <2>2. /\ new \in LazyFieldLite /\ new.memoizedBytes = m /\ new.value = field[f].value
        /\ new.delayedBytes = field[f].delayedBytes
        /\ new.extensionRegistry = field[f].extensionRegistry
    BY <1>5, <2>1 DEF LazyFieldLite
  <2>3. field' = [field EXCEPT ![f] = new]
    BY <1>6, <2>1
  <2> QED
    BY <1>5, <2>2, <2>3
<1>9. TypeOK'
  BY <1>1, <1>6, <1>7, <1>8 DEF TypeOK
<1>10. Owns(t, f)
  BY <1>2, <1>3, <1>6, <1>7, <1>8 DEF Owns, Touches
<1>11. FieldOK(f) /\ FieldOK(g)
  BY DEF IInv
<1>12. /\ history[f].content = history[g].content /\ history[f].lost = history[g].lost
       /\ Answer(f) = Answer(g)
  BY <1>1, <1>2 DEF CopyOK, At
<1>13. Answer(f)' = Answer(f)
  BY <1>8 DEF Answer
<1>14. DelayedOK(f)' /\ ValueOK(f)'
  BY <1>6, <1>8, <1>11 DEF FieldOK, DelayedOK, ValueOK
<1>15. MemoizedOK(f)'
  BY <1>3, <1>4, <1>6, <1>8, <1>11, <1>12 DEF FieldOK, MemoizedOK, MemoizedEmpty
<1>16. BytesOK(f)'
  BY <1>3, <1>4, <1>6, <1>8, <1>11, <1>12, <1>13 DEF FieldOK, BytesOK
<1>17. CallOK(t)'
  BY <1>7 DEF CallOK, Alone, ParseOK, MergeOK, CopyOK, At, Setting
<1> QED
  BY <1>9, <1>10, <1>14, <1>15, <1>16, <1>17, OwnStep DEF FieldOK

(* A merge of bytes with bytes.                                             *)
LEMMA ConcatenateStep ==
  ASSUME IInv, NEW t \in Threads, ConcatenateBytes(t)
  PROVE  IInv'
<1>1. TypeOK /\ call[t].pc = "combine" /\ call[t].pc \in SetterPlaces /\ MergeOK(t)
  BY DEF IInv, CallOK, ConcatenateBytes, At, SetterPlaces
<1>2. PICK f \in Fields, g \in Fields : f = call[t].field /\ g = call[t].other
  BY <1>1, Places
<1>3. PICK old, other : old = field[f] /\ other = field[g]
  OBVIOUS
<1>4. PICK c, d : c = history[f].content /\ d = history[g].content
  OBVIOUS
<1>5. old.delayedBytes # NULL /\ other.delayedBytes # NULL
  BY <1>2, <1>3 DEF ConcatenateBytes, Concatenates
<1>6. /\ old.delayedBytes \in ByteString /\ other.delayedBytes \in ByteString
      /\ old.delayedBytes.of = c /\ other.delayedBytes.of = d /\ old.extensionRegistry
      /\ old \in LazyFieldLite
      /\ c \in Seq(Pieces \union {Bad}) /\ d \in Seq(Pieces \union {Bad})
  BY <1>1, <1>3, <1>4, <1>5, FieldTypes DEF IInv, FieldOK, DelayedOK
<1>7. Len(c) + Len(d) <= MaxPieces
  <2>1. Size(f) + Size(g) <= MaxPieces
    BY <1>1, <1>2 DEF MergeOK
  <2>2. /\ Size(f) \in Nat /\ Len(c) \in Nat /\ Len(c) <= Size(f)
        /\ Size(g) \in Nat /\ Len(d) \in Nat /\ Len(d) <= Size(g)
    BY <1>4, SizeBounds
  <2> QED
    BY <2>1, <2>2, PiecesAssumption
<1>8. PICK b : b = Concat(old.delayedBytes, other.delayedBytes)
  OBVIOUS
<1>9. b \in ByteString /\ b.of = c \o d /\ b # NULL
  BY <1>6, <1>7, <1>8, ConcatBytes, PiecesAssumption
<1>10. c \o d \in Content
  BY <1>6, <1>7, ContentConcat
<1>11. PICK new : new = [field[f] EXCEPT !.delayedBytes = b,
                   !.extensionRegistry = field[f].extensionRegistry \/ field[g].extensionRegistry]
  OBVIOUS
<1>12. /\ new \in LazyFieldLite /\ new.delayedBytes = b /\ new.extensionRegistry
       /\ new.value = old.value /\ new.memoizedBytes = old.memoizedBytes
  BY <1>3, <1>6, <1>9, <1>11 DEF LazyFieldLite
<1>13. field' = [field EXCEPT ![f] = new] /\ Return(t) /\ monitor' = monitor
  BY <1>2, <1>3, <1>8, <1>11 DEF ConcatenateBytes
<1>14. PICK lost : lost = IF old.value = NULL /\ old.memoizedBytes = NULL THEN "nothing" ELSE "merge"
  OBVIOUS
<1>15. Changed(f, c \o d, lost)
  BY <1>2, <1>3, <1>4, <1>14 DEF ConcatenateBytes
<1>16. old.memoizedBytes # EMPTY
  BY <1>1, <1>2, <1>3 DEF MergeOK, MemoizedEmpty, At
<1>17. Holds(new, c \o d, lost)
  BY <1>9, <1>10, <1>12, <1>14, <1>16 DEF Holds
<1> QED
  BY <1>1, <1>2, <1>13, <1>15, <1>17, NewContentStep

(* The value merge computes holds both contents, in either order.            *)
LEMMA MergedContent ==
  ASSUME IInv, NEW f \in Fields, NEW g \in Fields, ~ NothingHeld(f), ~ NothingHeld(g),
         ~ Concatenates(f, g), Size(f) + Size(g) <= MaxPieces
  PROVE  /\ MergedValue(field[f], field[g]) \in Message
         /\ history[f].lost = "nothing" /\ history[g].lost = "nothing" =>
              SamePieces(MergedValue(field[f], field[g]), Effective(BothContents(f, g)))
         /\ BothContents(f, g) \in Content /\ Valid(BothContents(f, g))
<1> DEFINE S == Pieces \union {Bad, Garbled}
           M == Pieces \union {Garbled}
<1>1. PICK this, other : this = field[f] /\ other = field[g]
  OBVIOUS
<1>2. PICK c, d : c = Effective(history[f].content) /\ d = Effective(history[g].content)
  OBVIOUS
<1>3. /\ c \in Seq(Pieces \union {Bad}) /\ Valid(c) /\ Len(c) \in Nat /\ Len(c) <= Size(f)
      /\ d \in Seq(Pieces \union {Bad}) /\ Valid(d) /\ Len(d) \in Nat /\ Len(d) <= Size(g)
  <2>1. ASSUME NEW h \in Fields
        PROVE  /\ Effective(history[h].content) \in Seq(Pieces \union {Bad})
               /\ Valid(Effective(history[h].content)) /\ Len(Effective(history[h].content)) \in Nat
               /\ Len(Effective(history[h].content)) <= Size(h)
    <3>1. PICK e : e = history[h].content
      OBVIOUS
    <3>2. e \in Seq(Pieces \union {Bad})
      BY <3>1, FieldTypes DEF IInv
    <3>3. Size(h) \in Nat /\ Len(e) \in Nat /\ Len(e) <= Size(h)
      BY <3>1, SizeBounds
    <3>4. /\ Effective(e) \in Seq(Pieces \union {Bad}) /\ Valid(Effective(e))
          /\ Len(Effective(e)) <= Len(e) /\ Len(Effective(e)) \in Nat
      BY <3>2, EffectiveType
    <3> QED
      BY <3>1, <3>3, <3>4
  <2> QED
    BY <1>2, <2>1
<1>4. /\ Size(f) \in Nat /\ Size(g) \in Nat /\ MaxPieces \in Nat
      /\ this.value # NULL => Len(this.value) \in Nat /\ Len(this.value) <= Size(f)
      /\ other.value # NULL => Len(other.value) \in Nat /\ Len(other.value) <= Size(g)
  BY <1>1, SizeBounds, PiecesAssumption
<1>5. /\ this.value # NULL => this.value \in Message /\ this.value \in Seq(M) /\ this.value \in Seq(S)
      /\ other.value # NULL => other.value \in Message /\ other.value \in Seq(M) /\ other.value \in Seq(S)
  <2>1. /\ this.value # NULL => this.value \in Message /\ this.value \in Seq(M)
        /\ other.value # NULL => other.value \in Message /\ other.value \in Seq(M)
    BY <1>1, FieldTypes DEF IInv
  <2>2. \A q \in Seq(M) : q \in Seq(S)
    OBVIOUS
  <2> QED
    BY <2>1, <2>2
<1>6. c \in Seq(M) /\ d \in Seq(M) /\ c \in Seq(S) /\ d \in Seq(S)
  BY <1>3, ValidPieces
<1>7. BothContents(f, g) = c \o d
  BY <1>2 DEF BothContents
<1>8. Len(c) + Len(d) <= MaxPieces
  BY <1>3, <1>4
<1>9. c \o d \in Content /\ Valid(c \o d) /\ Effective(c \o d) = c \o d
  BY <1>3, <1>8, ContentConcat, ValidConcat DEF Effective
<1>10. /\ this.value # NULL /\ history[f].lost = "nothing" => SamePieces(this.value, c)
       /\ other.value # NULL /\ history[g].lost = "nothing" => SamePieces(other.value, d)
       /\ this.delayedBytes # NULL => this.delayedBytes.of = history[f].content
       /\ other.delayedBytes # NULL => other.delayedBytes.of = history[g].content
  BY <1>1, <1>2 DEF IInv, FieldOK, ValueOK, DelayedOK
<1>11. /\ this.value = NULL => this.delayedBytes # NULL
       /\ other.value = NULL => other.delayedBytes # NULL
       /\ this.delayedBytes = NULL \/ other.delayedBytes = NULL
  BY <1>1 DEF NothingHeld, Concatenates
<1>12. PICK lost : lost = (history[f].lost # "nothing" \/ history[g].lost # "nothing")
  OBVIOUS
<1> HIDE DEF S, M
<1>13. ASSUME NEW v \in Seq(M), NEW h \in Fields, NEW bytes, bytes.of = history[h].content
       PROVE  MergeValueAndBytes(v, bytes) = v \o Effective(history[h].content)
  <2>1. v \o << >> = v
    BY ConcatEmptySeq
  <2> QED
    BY <1>13, <2>1 DEF MergeValueAndBytes, Effective
<1>14. CASE this.value = NULL
  <2>1. this.delayedBytes # NULL /\ other.value # NULL
    BY <1>11, <1>14
  <2>2. MergedValue(this, other) = other.value \o c
    BY <1>2, <1>5, <1>10, <1>13, <1>14, <2>1 DEF MergedValue
  <2>3. Len(other.value) + Len(c) <= MaxPieces
    BY <1>3, <1>4, <2>1
  <2>4. other.value \o c \in Message
    BY <1>5, <1>6, <2>1, <2>3, MessageConcat DEF M
  <2>5. ASSUME history[g].lost = "nothing"
        PROVE  SamePieces(other.value \o c, c \o d)
    <3>1. SamePieces(other.value, d) /\ SamePieces(c, c)
      BY <1>10, <2>1, <2>5, SamePiecesRefl
    <3> QED
      BY <1>5, <1>6, <2>1, <3>1, SamePiecesConcat
  <2> QED
    BY <1>1, <1>7, <1>9, <2>2, <2>4, <2>5
<1>15. CASE this.value # NULL /\ other.value = NULL
  <2>1. other.delayedBytes # NULL
    BY <1>11, <1>15
  <2>2. MergedValue(this, other) = this.value \o d
    BY <1>2, <1>5, <1>10, <1>13, <1>15, <2>1 DEF MergedValue
  <2>3. Len(this.value) + Len(d) <= MaxPieces
    BY <1>3, <1>4, <1>15
  <2>4. this.value \o d \in Message
    BY <1>5, <1>6, <1>15, <2>3, MessageConcat DEF M
  <2>5. ASSUME history[f].lost = "nothing"
        PROVE  SamePieces(this.value \o d, c \o d)
    <3>1. SamePieces(this.value, c) /\ SamePieces(d, d)
      BY <1>10, <1>15, <2>5, SamePiecesRefl
    <3> QED
      BY <1>5, <1>6, <1>15, <3>1, SamePiecesConcat
  <2> QED
    BY <1>1, <1>7, <1>9, <2>2, <2>4, <2>5
<1>16. CASE this.value # NULL /\ other.value # NULL
  <2>1. MergedValue(this, other) = this.value \o other.value
    BY <1>16 DEF MergedValue
  <2>2. Len(this.value) + Len(other.value) <= MaxPieces
    <3>1. PICK m \in Nat, n \in Nat : m = Len(this.value) /\ n = Len(other.value)
      BY <1>4, <1>16
    <3>2. PICK a \in Nat, b \in Nat, k \in Nat : a = Size(f) /\ b = Size(g) /\ k = MaxPieces
      BY <1>4
    <3>3. m <= a /\ n <= b /\ a + b <= k
      BY <1>4, <1>16, <3>1, <3>2
    <3>4. m + n <= k
      BY <3>3
    <3> QED
      BY <3>1, <3>2, <3>4
  <2>3. this.value \o other.value \in Message
    BY <1>5, <1>16, <2>2, MessageConcat DEF M
  <2>4. ASSUME history[f].lost = "nothing", history[g].lost = "nothing"
        PROVE  SamePieces(this.value \o other.value, c \o d)
    BY <1>5, <1>6, <1>10, <1>16, <2>4, SamePiecesConcat
  <2> QED
    BY <1>1, <1>7, <1>9, <2>1, <2>3, <2>4
<1> QED
  BY <1>14, <1>15, <1>16

(* A merge with a value on one side at least.                               *)
LEMMA MergeValuesStep ==
  ASSUME IInv, NEW t \in Threads, MergeValues(t)
  PROVE  IInv'
<1>1. TypeOK /\ call[t].pc = "combine" /\ call[t].pc \in SetterPlaces /\ MergeOK(t)
  BY DEF IInv, CallOK, MergeValues, At, SetterPlaces
<1>2. PICK f \in Fields, g \in Fields : f = call[t].field /\ g = call[t].other
  BY <1>1, Places
<1>3. PICK v, content, lost :
        v = MergedValue(field[f], field[g]) /\ content = BothContents(f, g) /\ lost = Lost(f, g)
  OBVIOUS
<1>4. PICK old : old = [field[f] EXCEPT !.extensionRegistry =
                          field[f].extensionRegistry \/ field[g].extensionRegistry]
  OBVIOUS
<1>5. /\ field' = [field EXCEPT ![f] = HoldValue(v, old)] /\ Changed(f, content, lost)
      /\ Return(t) /\ monitor' = monitor
  BY <1>2, <1>3, <1>4 DEF MergeValues
<1>6. old \in LazyFieldLite
  BY <1>1, <1>4, FieldTypes DEF LazyFieldLite
<1>7. /\ v \in Message /\ content \in Content /\ Valid(content)
      /\ history[f].lost = "nothing" /\ history[g].lost = "nothing" => SamePieces(v, Effective(content))
  <2>1. ~ Concatenates(f, g)
    BY <1>2 DEF MergeValues
  <2>2. ~ NothingHeld(f) /\ ~ NothingHeld(g) /\ Size(f) + Size(g) <= MaxPieces
    BY <1>1, <1>2 DEF MergeOK, At
  <2> QED
    BY <1>3, <2>1, <2>2, MergedContent
<1>8. /\ lost \in {"nothing", "merge", "stream"}
      /\ lost = "nothing" => history[f].lost = "nothing" /\ history[g].lost = "nothing"
  BY <1>1, <1>3, FieldTypes DEF Lost
<1>9. Holds(HoldValue(v, old), content, lost)
  BY <1>6, <1>7, <1>8, HoldValueHolds
<1> QED
  BY <1>1, <1>2, <1>5, <1>9, NewContentStep

-----------------------------------------------------------------------------

(* New fields.                                                              *)
LEMMA InitIInv == Init => IInv
<1> SUFFICES ASSUME Init
             PROVE  IInv
  OBVIOUS
<1>1. << >> \in Content /\ Valid(<< >>) /\ EMPTY # NULL
  BY InputTypes, BytesTypes, PiecesAssumption DEF MessageInputs
<1>2. TypeOK
  <2>1. NoCall \in Calls
    BY DEF Calls
  <2> QED
    BY <1>1, <2>1 DEF Init, TypeOK, LazyFieldLite
<1>3. ASSUME NEW f \in Fields
      PROVE  FieldOK(f)
  BY <1>1 DEF Init, FieldOK, DelayedOK, ValueOK, MemoizedOK, BytesOK, MemoizedEmpty
<1>4. ASSUME NEW t \in Threads
      PROVE  CallOK(t)
  BY DEF Init, NoCall, CallOK, Alone, ParseOK, MergeOK, CopyOK, At, Setting
<1> QED
  BY <1>2, <1>3, <1>4 DEF IInv

(* Every step keeps the inductive invariant.                                *)
LEMMA StepIInv ==
  ASSUME IInv, [Next]_vars
  PROVE  IInv'
<1>1. ASSUME NEW t \in Threads, GetterStep(t)
      PROVE  IInv'
  BY <1>1, CheckStep, EnterStep, ParseStep, MemoizeParsedStep, ReadBytesStep, SerializeStep,
     SizeOfValueStep DEF GetterStep
<1>2. ASSUME NEW t \in Threads, SetterStep(t)
      PROVE  IInv'
  BY <1>2, OtherMemoizedStep, OtherHeldStep, CopyValueStep, CopyMemoizedStep, ConcatenateStep,
     MergeValuesStep DEF SetterStep
<1>3. ASSUME NEW t \in Threads, NEW f \in Fields, Begin(t, f)
      PROVE  IInv'
  <2>1. CASE GetValue(t, f) \/ ToByteString(t, f) \/ GetSerializedSize(t, f)
    BY <2>1, GetStep DEF GetValue, ToByteString, GetSerializedSize
  <2> QED
    BY <1>3, <2>1, SetValueStep, SetByteStringStep, StreamStep, ClearStep, TakeStep DEF Begin
<1>4. CASE UNCHANGED vars
  <2>1. field' = field /\ monitor' = monitor /\ call' = call /\ history' = history
    BY <1>4 DEF vars
  <2>2. TypeOK'
    BY <2>1 DEF IInv, TypeOK
  <2>3. ASSUME NEW f \in Fields
        PROVE  FieldOK(f)'
    <3>1. FieldOK(f) /\ (Copying(f)' <=> Copying(f)) /\ Answer(f)' = Answer(f)
      BY <2>1 DEF IInv, Copying, At, Answer
    <3> QED
      BY <2>1, <3>1 DEF FieldOK, DelayedOK, ValueOK, MemoizedOK, MemoizedEmpty, BytesOK
  <2>4. ASSUME NEW t \in Threads
        PROVE  CallOK(t)'
    <3>1. CallOK(t)
      BY DEF IInv
    <3> QED
      BY <2>1, <3>1 DEF CallOK, Alone, ParseOK, MergeOK, CopyOK, At, Setting, Size,
         NothingHeld, MemoizedEmpty, Answer
  <2> QED
    BY <2>2, <2>3, <2>4 DEF IInv
<1> QED
  BY <1>1, <1>2, <1>3, <1>4 DEF Next, Step

(* The inductive invariant holds at all times.                              *)
LEMMA Invariance == Spec => []IInv
  BY InitIInv, StepIInv, PTL DEF Spec

(* The type invariant, for any number of threads and fields. *)
THEOREM TypeCorrect == Spec => []TypeOK
  BY Invariance, PTL DEF IInv

(* Two getters never parse one field twice. *)
THEOREM ParseOnce == Spec => []ParsedOnce
<1>1. IInv => ParsedOnce
  BY DEF IInv, CallOK, ParseOK, ParsedOnce
<1> QED
  BY <1>1, Invariance, PTL

(* Bytes have a registry through every copy and merge. *)
THEOREM RegistryStays == Spec => []RegistryKept
<1>1. IInv => RegistryKept
  BY DEF IInv, FieldOK, DelayedOK, RegistryKept
<1> QED
  BY <1>1, Invariance, PTL

(* A field's bytes are what was merged into it, in order. *)
THEOREM BytesKept == Spec => []DelayedIsContent
<1>1. IInv => DelayedIsContent
  BY DEF IInv, FieldOK, DelayedOK, DelayedIsContent
<1> QED
  BY <1>1, Invariance, PTL

(* A parsed value is what was merged into its field. *)
THEOREM ValueRight == Spec => []ValueIsContent
<1>1. IInv => ValueIsContent
  BY DEF IInv, FieldOK, ValueOK, ValueIsContent
<1> QED
  BY <1>1, Invariance, PTL

(* A field that answers as the default instance has no content.              *)
THEOREM EmptyRight == Spec => []EmptyIsContent
<1>1. IInv => EmptyIsContent
  <2> SUFFICES ASSUME IInv, NEW f \in Fields, ContainsDefaultInstance(f), Readable(f)
               PROVE  Effective(history[f].content) = << >>
    BY DEF EmptyIsContent
  <2>1. ASSUME NEW t \in Threads, At(t, "copyMemoized"), call[t].field = f
        PROVE  FALSE
    BY <2>1, Places DEF IInv, At, SetterPlaces, Readable
  <2> QED
    BY <2>1, DefaultEmpty DEF Copying
<1> QED
  BY <1>1, Invariance, PTL

(* All bytes and sizes handed out for one content are the same. *)
THEOREM AnswersStable == Spec => []BytesStable
<1>1. IInv => BytesStable
  <2> SUFFICES ASSUME IInv, NEW f \in Fields, Valid(history[f].content), history[f].lost = "nothing"
               PROVE  Cardinality(history[f].bytes) <= 1
    BY DEF BytesStable
  <2>1. history[f].bytes \subseteq {Answer(f)}
    BY DEF IInv, FieldOK, BytesOK
  <2>2. history[f].bytes \in SUBSET {Answer(f)}
    BY <2>1
  <2>3. IsFiniteSet({Answer(f)}) /\ Cardinality({Answer(f)}) = 1
    BY FS_Singleton
  <2>4. Cardinality(history[f].bytes) <= Cardinality({Answer(f)})
    BY <2>2, <2>3, FS_Subset
  <2> QED
    BY <2>3, <2>4
<1> QED
  BY <1>1, Invariance, PTL
=============================================================================
