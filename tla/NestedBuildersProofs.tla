------------------------- MODULE NestedBuildersProofs -------------------------
(***************************************************************************)
(* What TLAPS proves of NestedBuilders, for every depth, every set of         *)
(* scalars and every number of builders: that in proto2 no cached message is  *)
(* stale (CacheIsContent), and that the builders implement MessageTree.       *)
(***************************************************************************)
EXTENDS NestedBuilders, SequenceTheorems, FiniteSetTheorems, TLAPS

-----------------------------------------------------------------------------
(* The inductive invariant. *)

Contentful == Seq(Scalars) \ {NONE}

BuilderObjects ==
  [level : 1..Depth, x : Scalars, has : BOOLEAN, field : Seq(Scalars),
   fieldBuilder : Nat, parent : Nat, isClean : BOOLEAN]
FieldBuilderObjects ==
  [parent : Nat, builder : Nat, message : Seq(Scalars), isClean : BOOLEAN]
Heaps == [b : Seq(BuilderObjects), s : Seq(FieldBuilderObjects)]

(* A Builder and its field builder, and a field builder and its builder,      *)
(* refer to each other; the levels grow on the way down.                     *)
Linked(h) ==
  /\ \A i \in DOMAIN h.b :
       /\ h.b[i].fieldBuilder # 0 =>
            /\ h.b[i].fieldBuilder \in DOMAIN h.s
            /\ h.s[h.b[i].fieldBuilder].parent = i
            /\ h.b[i].level < Depth
       /\ h.b[i].parent # 0 => h.b[i].parent \in DOMAIN h.s /\ h.s[h.b[i].parent].builder = i
  /\ \A s \in DOMAIN h.s :
       /\ h.s[s].parent \in DOMAIN h.b /\ h.b[h.s[s].parent].fieldBuilder = s
       /\ h.s[s].builder # 0 =>
            /\ h.s[s].builder \in DOMAIN h.b /\ h.b[h.s[s].builder].parent = s
            /\ h.b[h.s[s].builder].level = h.b[h.s[s].parent].level + 1
       /\ h.s[s].builder # 0 \/ h.s[s].message # NONE

(* A Builder that is to tell its parent of the next change.                  *)
Owes(h, i) == h.b[i].isClean /\ h.b[i].parent # 0

(* Below a cached message, everything is to tell of the next change.         *)
Flagged(h) ==
  /\ \A i \in DOMAIN h.b :
       Owes(h, i) /\ h.b[i].fieldBuilder # 0 => h.s[h.b[i].fieldBuilder].isClean
  /\ \A s \in DOMAIN h.s : h.s[s].builder # 0 =>
       /\ h.s[s].message # NONE => h.b[h.s[s].builder].isClean
       /\ h.s[s].isClean => h.s[s].message # NONE

(* What i holds, when the builders below it hold what content says.          *)
ContentOf(h, content, i) ==
  <<h.b[i].x>> \o
    IF FieldPresence /\ ~ h.b[i].has THEN NONE
    ELSE IF h.b[i].fieldBuilder = 0 THEN h.b[i].field
    ELSE IF h.s[h.b[i].fieldBuilder].builder # 0 THEN content[h.s[h.b[i].fieldBuilder].builder]
    ELSE h.s[h.b[i].fieldBuilder].message

(* The caches agree with a content of the builders, but those of changed have *)
(* got another one since.                                                   *)
CachedBut(h, changed, content) ==
  /\ content \in [DOMAIN h.b -> Contentful]
  /\ \A i \in DOMAIN h.b : i \notin changed => content[i] = ContentOf(h, content, i)
  /\ \A s \in DOMAIN h.s :
       h.s[s].builder # 0 /\ h.s[s].message # NONE => h.s[s].message = content[h.s[s].builder]

Almost(h, changed) ==
  /\ h \in Heaps /\ Linked(h) /\ Flagged(h)
  /\ \E content : CachedBut(h, changed, content)

HeapOK(h) == Almost(h, {})

IInv == HeapOK(heap)

-----------------------------------------------------------------------------
(* Sequences and levels. *)

(* A function on 1..n is a sequence of length n.                             *)
LEMMA SequenceOf ==
  ASSUME NEW S, NEW n \in Nat, NEW f \in [1..n -> S]
  PROVE  f \in Seq(S) /\ Len(f) = n /\ DOMAIN f = 1..n
  BY IsASeq

(* What the assumption on the constants gives.                               *)
LEMMA Scalar == 0 \in Scalars /\ Depth \in Nat \ {0}
  BY BoundsAssumption

(* <<x>> \o m is a message that has m below x.                               *)
LEMMA OnTop ==
  ASSUME NEW x \in Scalars, NEW m \in Seq(Scalars)
  PROVE  <<x>> \o m \in Contentful
<1>1. <<x>> \in Seq(Scalars) /\ Len(<<x>>) = 1
  OBVIOUS
<1>2. <<x>> \o m \in Seq(Scalars) /\ Len(<<x>> \o m) = 1 + Len(m)
  BY <1>1, ConcatProperties
<1>3. Len(m) \in Nat
  OBVIOUS
<1> QED
  BY <1>2, <1>3 DEF Contentful, NONE

(* A message is its scalar and the message in its field.                     *)
LEMMA TopAndRest ==
  ASSUME NEW m \in Contentful
  PROVE  Head(m) \in Scalars /\ Tail(m) \in Seq(Scalars) /\ <<Head(m)>> \o Tail(m) = m
  BY HeadTailProperties, ConcatSimplifications DEF Contentful, NONE

(* A bounded set of numbers has a greatest one.                              *)
LEMMA Greatest ==
  ASSUME NEW N \in Nat, NEW S \in SUBSET (0..N), S # {}
  PROVE  \E i \in S : \A j \in S : j <= i
<1> DEFINE After == {i + 1 .. N : i \in S}
<1>1. After \subseteq FiniteSubsetsOf(Nat) /\ After # {}
  <2>1. ASSUME NEW i \in S PROVE i + 1 .. N \in FiniteSubsetsOf(Nat)
    <3>1. IsFiniteSet(i + 1 .. N)
      BY FS_Interval
    <3> QED
      BY <3>1 DEF FiniteSubsetsOf
  <2> QED
    BY <2>1
<1>2. PICK x \in After : \A y \in After : ~ (<<y, x>> \in StrictSubsetOrdering(Nat))
  BY <1>1, WFMin, FS_StrictSubsetOrderingWellFounded
<1>3. PICK i \in S : x = i + 1 .. N
  OBVIOUS
<1>4. \A j \in S : j <= i
  <2> SUFFICES ASSUME NEW j \in S, j > i PROVE FALSE
    OBVIOUS
  <2> DEFINE y == j + 1 .. N
  <2>1. y \in After /\ y \subseteq x /\ j \in x /\ j \notin y
    BY <1>3
  <2>2. x \subseteq Nat /\ y \subseteq Nat
    BY <1>3
  <2> HIDE DEF y
  <2>3. <<y, x>> \in StrictSubsetOrdering(Nat)
    BY <2>1, <2>2 DEF StrictSubsetOrdering
  <2> QED
    BY <1>2, <2>1, <2>3
<1> QED
  BY <1>4

(* What is in a heap, spelt out.                                             *)
LEMMA Objects ==
  ASSUME NEW h \in Heaps
  PROVE  /\ h.b \in Seq(BuilderObjects) /\ h.s \in Seq(FieldBuilderObjects)
         /\ Len(h.b) \in Nat /\ DOMAIN h.b = 1..Len(h.b)
         /\ Len(h.s) \in Nat /\ DOMAIN h.s = 1..Len(h.s)
         /\ \A i \in DOMAIN h.b : h.b[i] \in BuilderObjects
         /\ \A s \in DOMAIN h.s : h.s[s] \in FieldBuilderObjects
<1>1. h.b \in Seq(BuilderObjects) /\ h.s \in Seq(FieldBuilderObjects)
  BY DEF Heaps
<1> QED
  BY <1>1, LenProperties, ElementOfSeq

(* The types of the fields of a Builder.                                     *)
LEMMA BuilderFields ==
  ASSUME NEW n \in BuilderObjects
  PROVE  /\ n.level \in 1..Depth /\ n.level \in Nat /\ n.x \in Scalars /\ n.has \in BOOLEAN
         /\ n.field \in Seq(Scalars) /\ n.fieldBuilder \in Nat /\ n.parent \in Nat
         /\ n.isClean \in BOOLEAN
  BY BoundsAssumption DEF BuilderObjects

(* The types of the fields of a field builder.                               *)
LEMMA FieldBuilderFields ==
  ASSUME NEW f \in FieldBuilderObjects
  PROVE  /\ f.parent \in Nat /\ f.builder \in Nat /\ f.message \in Seq(Scalars)
         /\ f.isClean \in BOOLEAN
  BY DEF FieldBuilderObjects

(* What holds of a Builder when it holds of those on lower levels, holds.     *)
LEMMA ByLevel ==
  ASSUME NEW h \in Heaps, NEW S \in SUBSET DOMAIN h.b, NEW P,
         \A i \in S : (\A j \in S : h.b[j].level > h.b[i].level => j \in P) => i \in P
  PROVE  S \subseteq P
<1> SUFFICES ASSUME S \ P # {} PROVE FALSE
  OBVIOUS
<1> DEFINE Levels == {h.b[i].level : i \in S \ P}
<1>1. \A i \in S : h.b[i].level \in 1..Depth
  BY Objects, BuilderFields
<1>2. Levels \in SUBSET (0..Depth) /\ Levels # {}
  BY <1>1, Scalar
<1>3. PICK n \in Levels : \A k \in Levels : k <= n
  BY <1>2, Greatest, Scalar
<1>4. PICK i \in S \ P : h.b[i].level = n
  OBVIOUS
<1>5. ASSUME NEW j \in S, h.b[j].level > h.b[i].level, j \notin P PROVE FALSE
  <2>1. h.b[j].level \in Levels
    BY <1>5
  <2>2. h.b[j].level <= n
    BY <1>3, <2>1
  <2>3. h.b[j].level \in Nat /\ h.b[i].level \in Nat
    BY Objects, BuilderFields
  <2> QED
    BY <1>4, <1>5, <2>2, <2>3
<1> QED
  BY <1>4, <1>5
-----------------------------------------------------------------------------
(* Contents. *)

(* What i holds is a message, if what is below it is one.                    *)
LEMMA ContentOfType ==
  ASSUME NEW h \in Heaps, Linked(h), NEW content \in [DOMAIN h.b -> Contentful],
         NEW i \in DOMAIN h.b
  PROVE  ContentOf(h, content, i) \in Contentful
<1> DEFINE s == h.b[i].fieldBuilder
           field == IF FieldPresence /\ ~ h.b[i].has THEN NONE
                    ELSE IF s = 0 THEN h.b[i].field
                    ELSE IF h.s[s].builder # 0 THEN content[h.s[s].builder]
                    ELSE h.s[s].message
<1>1. h.b[i].x \in Scalars /\ h.b[i].field \in Seq(Scalars)
  BY Objects, BuilderFields
<1>2. s # 0 => s \in DOMAIN h.s /\ h.s[s].message \in Seq(Scalars)
  BY Objects, FieldBuilderFields DEF Linked
<1>3. s # 0 /\ h.s[s].builder # 0 => content[h.s[s].builder] \in Seq(Scalars)
  BY <1>2 DEF Linked, Contentful
<1>4. field \in Seq(Scalars)
  <2>1. NONE \in Seq(Scalars)
    BY DEF NONE
  <2> QED
    BY <1>1, <1>2, <1>3, <2>1
<1>5. ContentOf(h, content, i) = <<h.b[i].x>> \o field
  BY DEF ContentOf
<1> HIDE DEF field
<1> QED
  BY <1>1, <1>4, <1>5, OnTop

(* What i holds depends on the builder below it only.                         *)
LEMMA ContentOfSame ==
  ASSUME NEW h \in Heaps, Linked(h), NEW C, NEW D, NEW i \in DOMAIN h.b,
         \A j \in DOMAIN h.b :
           /\ h.b[i].fieldBuilder # 0 /\ h.s[h.b[i].fieldBuilder].builder = j
           /\ h.b[j].level > h.b[i].level
           => C[j] = D[j]
  PROVE  ContentOf(h, C, i) = ContentOf(h, D, i)
<1> DEFINE s == h.b[i].fieldBuilder
<1>1. CASE s = 0 \/ h.s[s].builder = 0
  BY <1>1 DEF ContentOf
<1>2. CASE s # 0 /\ h.s[s].builder # 0
  <2>1. s \in DOMAIN h.s /\ h.s[s].parent = i /\ h.s[s].builder \in DOMAIN h.b
    BY <1>2 DEF Linked
  <2>2. h.b[h.s[s].builder].level = h.b[i].level + 1
    BY <1>2, <2>1 DEF Linked
  <2>3. h.b[i].level \in Nat
    BY Objects, BuilderFields
  <2>4. h.b[h.s[s].builder].level > h.b[i].level
    BY <2>2, <2>3
  <2>5. C[h.s[s].builder] = D[h.s[s].builder]
    BY <1>2, <2>1, <2>4
  <2> QED
    BY <2>5 DEF ContentOf
<1> QED
  BY <1>1, <1>2

(* The builders have a content.                                              *)
LEMMA ContentExists ==
  ASSUME NEW h \in Heaps, Linked(h)
  PROVE  \E content \in [DOMAIN h.b -> Contentful] :
           \A i \in DOMAIN h.b : content[i] = ContentOf(h, content, i)
<1> DEFINE D == DOMAIN h.b
           From(k, C) == \A i \in D : h.b[i].level > Depth - k => C[i] = ContentOf(h, C, i)
           Good == {k \in 0..Depth : \E C \in [D -> Contentful] : From(k, C)}
<1>1. \A i \in D : h.b[i].level \in 1..Depth
  BY Objects, BuilderFields
<1>2. Depth \in Nat
  BY Scalar
<1>3. 0 \in Good
  <2>1. <<0>> \in Contentful
    BY Scalar DEF Contentful, NONE
  <2>2. [i \in D |-> <<0>>] \in [D -> Contentful]
    BY <2>1
  <2>3. From(0, [i \in D |-> <<0>>])
    BY <1>1, <1>2
  <2> HIDE DEF From
  <2> QED
    BY <2>2, <2>3, <1>2
<1>4. PICK k \in Good : \A j \in Good : j <= k
  <2>1. Good \in SUBSET (0..Depth) /\ Good # {}
    BY <1>3
  <2> HIDE DEF Good
  <2> QED
    BY <1>2, <2>1, Greatest
<1>5. PICK C \in [D -> Contentful] : From(k, C)
  OBVIOUS
<1>6. k \in Nat /\ k <= Depth
  BY <1>2
<1>7. k = Depth
  <2> SUFFICES ASSUME k # Depth PROVE FALSE
    OBVIOUS
  <2> DEFINE E == [i \in D |-> ContentOf(h, C, i)]
  <2>1. E \in [D -> Contentful]
    BY ContentOfType
  <2>2. From(k + 1, E)
    <3> SUFFICES ASSUME NEW i \in D, h.b[i].level > Depth - (k + 1)
                 PROVE  E[i] = ContentOf(h, E, i)
      OBVIOUS
    <3>1. ASSUME NEW j \in D, h.b[j].level > h.b[i].level PROVE C[j] = E[j]
      <4>1. h.b[j].level > Depth - k
        BY <1>1, <1>2, <1>6, <3>1
      <4> QED
        BY <1>5, <4>1
    <3> HIDE DEF E
    <3>2. ContentOf(h, C, i) = ContentOf(h, E, i)
      BY <3>1, ContentOfSame
    <3> QED
      BY <3>2 DEF E
  <2> HIDE DEF From, E
  <2>3. k + 1 \in Good
    BY <1>2, <1>6, <2>1, <2>2
  <2> QED
    BY <1>4, <1>6, <2>3
<1>8. \A i \in D : C[i] = ContentOf(h, C, i)
  BY <1>1, <1>2, <1>5, <1>7
<1> QED
  BY <1>5, <1>8

(* Builders that owe nobody anything may change as they like: no cached       *)
(* message is above them.                                                   *)
LEMMA Settled ==
  ASSUME NEW h, NEW X, Almost(h, X), \A i \in DOMAIN h.b : i \in X => ~ Owes(h, i)
  PROVE  HeapOK(h)
<1>1. h \in Heaps /\ Linked(h) /\ Flagged(h)
  BY DEF Almost
<1>2. PICK C : CachedBut(h, X, C)
  BY DEF Almost
<1>3. PICK E \in [DOMAIN h.b -> Contentful] :
        \A i \in DOMAIN h.b : E[i] = ContentOf(h, E, i)
  BY <1>1, ContentExists
<1> DEFINE Owing == {i \in DOMAIN h.b : Owes(h, i)}
           Same == {i \in DOMAIN h.b : C[i] = E[i]}
<1>4. Owing \subseteq Same
  <2>1. ASSUME NEW i \in Owing, \A j \in Owing : h.b[j].level > h.b[i].level => j \in Same
        PROVE  i \in Same
    <3>1. C[i] = ContentOf(h, C, i)
      BY <1>2 DEF CachedBut
    <3>2. ASSUME NEW j \in DOMAIN h.b, h.b[i].fieldBuilder # 0,
                 h.s[h.b[i].fieldBuilder].builder = j, h.b[j].level > h.b[i].level
          PROVE  C[j] = E[j]
      <4> DEFINE s == h.b[i].fieldBuilder
      <4>1. s \in DOMAIN h.s /\ h.s[s].isClean
        BY <1>1, <3>2 DEF Linked, Flagged
      <4>2. j # 0
        BY <1>1, Objects
      <4>3. h.s[s].message # NONE /\ h.b[j].isClean
        BY <1>1, <3>2, <4>1, <4>2 DEF Flagged
      <4>4. h.b[j].parent = s /\ s # 0
        BY <1>1, <3>2, <4>1, <4>2 DEF Linked
      <4> QED
        BY <2>1, <3>2, <4>3, <4>4 DEF Owes
    <3> HIDE DEF Owing
    <3>3. ContentOf(h, C, i) = ContentOf(h, E, i)
      BY <1>1, <3>2, ContentOfSame DEF Owing
    <3> QED
      BY <1>3, <3>1, <3>3 DEF Owing
  <2> HIDE DEF Same
  <2> QED
    BY <1>1, <2>1, ByLevel
<1>5. CachedBut(h, {}, E)
  <2>1. ASSUME NEW s \in DOMAIN h.s, h.s[s].builder # 0, h.s[s].message # NONE
        PROVE  h.s[s].message = E[h.s[s].builder]
    <3>1. h.s[s].builder \in DOMAIN h.b /\ h.b[h.s[s].builder].parent = s
      BY <1>1, <2>1 DEF Linked
    <3>2. h.b[h.s[s].builder].isClean
      BY <1>1, <2>1 DEF Flagged
    <3>3. s # 0
      BY <1>1, Objects
    <3>4. h.s[s].builder \in Owing
      BY <3>1, <3>2, <3>3 DEF Owes
    <3>5. h.s[s].message = C[h.s[s].builder]
      BY <1>2, <2>1 DEF CachedBut
    <3> QED
      BY <1>4, <3>4, <3>5
  <2> QED
    BY <1>3, <2>1 DEF CachedBut
<1> QED
  BY <1>1, <1>5 DEF HeapOK, Almost

-----------------------------------------------------------------------------
(* onChanged. *)

(* A field builder that was told of a change has a builder or a message      *)
(* still, and is clean only if it has no one to tell.                        *)
LEMMA InvalidatedFields ==
  ASSUME NEW f \in FieldBuilderObjects
  PROVE  /\ Invalidated(f) \in FieldBuilderObjects
         /\ Invalidated(f).parent = f.parent /\ Invalidated(f).builder = f.builder
         /\ Invalidated(f).message = IF f.builder # 0 THEN NONE ELSE f.message
         /\ Invalidated(f).isClean = (f.isClean /\ f.parent = 0)
<1>1. NONE \in Seq(Scalars)
  BY DEF NONE
<1> QED
  BY <1>1 DEF FieldBuilderObjects, Invalidated

(* g is h after some have been told of a change.                             *)
Quieter(h, g) ==
  /\ DOMAIN g.b = DOMAIN h.b /\ DOMAIN g.s = DOMAIN h.s
  /\ \A i \in DOMAIN h.b :
       /\ g.b[i].level = h.b[i].level /\ g.b[i].x = h.b[i].x /\ g.b[i].has = h.b[i].has
       /\ g.b[i].field = h.b[i].field /\ g.b[i].fieldBuilder = h.b[i].fieldBuilder
       /\ g.b[i].parent = h.b[i].parent /\ (g.b[i].isClean => h.b[i].isClean)
  /\ \A s \in DOMAIN h.s :
       /\ g.s[s].parent = h.s[s].parent /\ g.s[s].builder = h.s[s].builder
       /\ g.s[s].isClean => h.s[s].isClean
       /\ \/ g.s[s].message = h.s[s].message
          \/ h.s[s].builder # 0 /\ g.s[s].message = NONE

(* Fewer caches and flags do no harm, if flags still lead to every cache.    *)
LEMMA QuieterKeeps ==
  ASSUME NEW h, NEW g, NEW X, Quieter(h, g), g \in Heaps, Almost(h, X), Flagged(g)
  PROVE  Almost(g, X)
<1>1. h \in Heaps /\ Linked(h)
  BY DEF Almost
<1>2. Linked(g)
  <2>1. ASSUME NEW i \in DOMAIN g.b
        PROVE  /\ g.b[i].fieldBuilder # 0 =>
                    /\ g.b[i].fieldBuilder \in DOMAIN g.s
                    /\ g.s[g.b[i].fieldBuilder].parent = i
                    /\ g.b[i].level < Depth
               /\ g.b[i].parent # 0 =>
                    g.b[i].parent \in DOMAIN g.s /\ g.s[g.b[i].parent].builder = i
    BY <1>1 DEF Linked, Quieter
  <2>2. ASSUME NEW s \in DOMAIN g.s
        PROVE  /\ g.s[s].parent \in DOMAIN g.b /\ g.b[g.s[s].parent].fieldBuilder = s
               /\ g.s[s].builder # 0 =>
                    /\ g.s[s].builder \in DOMAIN g.b /\ g.b[g.s[s].builder].parent = s
                    /\ g.b[g.s[s].builder].level = g.b[g.s[s].parent].level + 1
               /\ g.s[s].builder # 0 \/ g.s[s].message # NONE
    <3>1. /\ s \in DOMAIN h.s
          /\ g.s[s].parent = h.s[s].parent /\ g.s[s].builder = h.s[s].builder
          /\ h.s[s].builder = 0 => g.s[s].message = h.s[s].message
      BY DEF Quieter
    <3>2. h.s[s].parent \in DOMAIN h.b /\ h.b[h.s[s].parent].fieldBuilder = s
      BY <1>1, <3>1 DEF Linked
    <3>3. h.s[s].builder # 0 =>
            /\ h.s[s].builder \in DOMAIN h.b /\ h.b[h.s[s].builder].parent = s
            /\ h.b[h.s[s].builder].level = h.b[h.s[s].parent].level + 1
      BY <1>1, <3>1 DEF Linked
    <3>4. h.s[s].builder # 0 \/ h.s[s].message # NONE
      BY <1>1, <3>1 DEF Linked
    <3> QED
      BY <3>1, <3>2, <3>3, <3>4 DEF Quieter
  <2> QED
    BY <2>1, <2>2 DEF Linked
<1>3. PICK C : CachedBut(h, X, C)
  BY DEF Almost
<1>4. \A i \in DOMAIN h.b : ContentOf(g, C, i) = ContentOf(h, C, i)
  <2> SUFFICES ASSUME NEW i \in DOMAIN h.b
               PROVE  ContentOf(g, C, i) = ContentOf(h, C, i)
    OBVIOUS
  <2>1. h.b[i].fieldBuilder # 0 => h.b[i].fieldBuilder \in DOMAIN h.s
    BY <1>1 DEF Linked
  <2>2. /\ g.b[i].x = h.b[i].x /\ g.b[i].has = h.b[i].has /\ g.b[i].field = h.b[i].field
        /\ g.b[i].fieldBuilder = h.b[i].fieldBuilder
    BY DEF Quieter
  <2>3. h.b[i].fieldBuilder # 0 =>
          /\ g.s[h.b[i].fieldBuilder].builder = h.s[h.b[i].fieldBuilder].builder
          /\ h.s[h.b[i].fieldBuilder].builder = 0 =>
               g.s[h.b[i].fieldBuilder].message = h.s[h.b[i].fieldBuilder].message
    BY <2>1 DEF Quieter
  <2> QED
    BY <2>2, <2>3 DEF ContentOf
<1>5. CachedBut(g, X, C)
  BY <1>3, <1>4 DEF CachedBut, Quieter
<1> QED
  BY <1>2, <1>5 DEF Almost

(* Clearing flags makes no builder owe anything.                             *)
LEMMA QuieterOwes ==
  ASSUME NEW h, NEW g, Quieter(h, g), NEW i \in DOMAIN h.b, ~ Owes(h, i)
  PROVE  ~ Owes(g, i)
  BY DEF Quieter, Owes

(* Quieter is transitive.                                                    *)
LEMMA QuieterTwice ==
  ASSUME NEW h, NEW g, NEW f, Quieter(h, g), Quieter(g, f)
  PROVE  Quieter(h, f)
  BY DEF Quieter

(* A set of Builders and field builders that are told of a change, when those *)
(* that tell others tell members of the set.                                 *)
LEMMA Propagated ==
  ASSUME NEW h, NEW X, Almost(h, X), NEW T \in SUBSET DOMAIN h.b, NEW U \in SUBSET DOMAIN h.s,
         \A i \in T : Owes(h, i) => h.b[i].parent \in U,
         \A s \in U : h.s[s].isClean => h.s[s].parent \in T,
         NEW g,
         g = [b |-> [i \in DOMAIN h.b |->
                       IF i \in T /\ Owes(h, i) THEN [h.b[i] EXCEPT !.isClean = FALSE] ELSE h.b[i]],
              s |-> [s \in DOMAIN h.s |-> IF s \in U THEN Invalidated(h.s[s]) ELSE h.s[s]]]
  PROVE  Almost(g, X) /\ Quieter(h, g) /\ \A i \in T : ~ Owes(g, i)
<1>1. h \in Heaps /\ Linked(h) /\ Flagged(h)
  BY DEF Almost
<1>2. \A i \in DOMAIN h.b : h.b[i] \in BuilderObjects
  BY <1>1, Objects
<1>3. \A s \in DOMAIN h.s : h.s[s] \in FieldBuilderObjects
  BY <1>1, Objects
<1> DEFINE B == [i \in DOMAIN h.b |->
                   IF i \in T /\ Owes(h, i) THEN [h.b[i] EXCEPT !.isClean = FALSE] ELSE h.b[i]]
           F == [s \in DOMAIN h.s |-> IF s \in U THEN Invalidated(h.s[s]) ELSE h.s[s]]
<1>4. g.b = B /\ g.s = F /\ g = [b |-> B, s |-> F]
  OBVIOUS
<1>5. \A i \in DOMAIN h.b :
        /\ B[i] \in BuilderObjects
        /\ B[i].level = h.b[i].level /\ B[i].x = h.b[i].x /\ B[i].has = h.b[i].has
        /\ B[i].field = h.b[i].field /\ B[i].fieldBuilder = h.b[i].fieldBuilder
        /\ B[i].parent = h.b[i].parent
        /\ B[i].isClean <=> h.b[i].isClean /\ ~ (i \in T /\ Owes(h, i))
  <2> SUFFICES ASSUME NEW i \in DOMAIN h.b
               PROVE  /\ B[i] \in BuilderObjects
                      /\ B[i].level = h.b[i].level /\ B[i].x = h.b[i].x /\ B[i].has = h.b[i].has
                      /\ B[i].field = h.b[i].field /\ B[i].fieldBuilder = h.b[i].fieldBuilder
                      /\ B[i].parent = h.b[i].parent
                      /\ B[i].isClean <=> h.b[i].isClean /\ ~ (i \in T /\ Owes(h, i))
    OBVIOUS
  <2>1. CASE i \in T /\ Owes(h, i)
    <3>1. B[i] = [h.b[i] EXCEPT !.isClean = FALSE]
      BY <2>1
    <3> HIDE DEF B
    <3> QED
      BY <1>2, <2>1, <3>1 DEF BuilderObjects
  <2>2. CASE ~ (i \in T /\ Owes(h, i))
    <3>1. B[i] = h.b[i]
      BY <2>2
    <3> HIDE DEF B
    <3> QED
      BY <1>2, <2>2, <3>1
  <2> QED
    BY <2>1, <2>2
<1>6. \A s \in DOMAIN h.s :
        /\ F[s] \in FieldBuilderObjects
        /\ F[s].parent = h.s[s].parent /\ F[s].builder = h.s[s].builder
        /\ s \notin U => F[s].message = h.s[s].message /\ F[s].isClean = h.s[s].isClean
        /\ s \in U =>
             /\ ~ F[s].isClean
             /\ F[s].message = IF h.s[s].builder # 0 THEN NONE ELSE h.s[s].message
  <2> SUFFICES ASSUME NEW s \in DOMAIN h.s
               PROVE  /\ F[s] \in FieldBuilderObjects
                      /\ F[s].parent = h.s[s].parent /\ F[s].builder = h.s[s].builder
                      /\ s \notin U => F[s].message = h.s[s].message /\ F[s].isClean = h.s[s].isClean
                      /\ s \in U =>
                           /\ ~ F[s].isClean
                           /\ F[s].message = IF h.s[s].builder # 0 THEN NONE ELSE h.s[s].message
    OBVIOUS
  <2>1. h.s[s].parent # 0
    BY <1>1, Objects DEF Linked
  <2>2. F[s] = IF s \in U THEN Invalidated(h.s[s]) ELSE h.s[s]
    OBVIOUS
  <2> HIDE DEF F
  <2> QED
    BY <1>3, <2>1, <2>2, InvalidatedFields
<1>7. DOMAIN B = DOMAIN h.b /\ DOMAIN F = DOMAIN h.s
  OBVIOUS
<1>8. g \in Heaps
  <2>1. B \in [1..Len(h.b) -> BuilderObjects] /\ F \in [1..Len(h.s) -> FieldBuilderObjects]
    <3>1. B \in [DOMAIN h.b -> BuilderObjects] /\ F \in [DOMAIN h.s -> FieldBuilderObjects]
      BY <1>5, <1>6
    <3> HIDE DEF B, F
    <3> QED
      BY <1>1, <3>1, Objects
  <2> HIDE DEF B, F
  <2>2. B \in Seq(BuilderObjects) /\ F \in Seq(FieldBuilderObjects)
    BY <1>1, <2>1, Objects, SequenceOf
  <2> QED
    BY <1>4, <2>2 DEF Heaps
<1> HIDE DEF B, F
<1>9. Quieter(h, g)
  BY <1>4, <1>5, <1>6, <1>7 DEF Quieter
<1>10. \A i \in DOMAIN h.b : Owes(g, i) <=> Owes(h, i) /\ i \notin T
  BY <1>4, <1>5 DEF Owes
<1>11. Flagged(g)
  <2>1. ASSUME NEW i \in DOMAIN g.b, Owes(g, i), g.b[i].fieldBuilder # 0
        PROVE  g.s[g.b[i].fieldBuilder].isClean
    <3> DEFINE s == h.b[i].fieldBuilder
    <3>1. i \in DOMAIN h.b /\ Owes(h, i) /\ i \notin T /\ s # 0 /\ g.b[i].fieldBuilder = s
      BY <1>4, <1>5, <1>7, <1>10, <2>1
    <3>2. s \in DOMAIN h.s /\ h.s[s].parent = i /\ h.s[s].isClean
      BY <1>1, <3>1 DEF Linked, Flagged
    <3>3. s \notin U
      BY <3>1, <3>2
    <3> QED
      BY <1>4, <1>6, <3>1, <3>2, <3>3
  <2>2. ASSUME NEW s \in DOMAIN g.s, g.s[s].builder # 0, g.s[s].message # NONE
        PROVE  g.b[g.s[s].builder].isClean
    <3> DEFINE c == h.s[s].builder
    <3>1. s \in DOMAIN h.s /\ c # 0 /\ g.s[s].builder = c /\ s \notin U /\ h.s[s].message # NONE
      BY <1>4, <1>6, <1>7, <2>2
    <3>2. c \in DOMAIN h.b /\ h.b[c].parent = s /\ h.b[c].isClean
      BY <1>1, <3>1 DEF Linked, Flagged
    <3>3. s # 0
      BY <1>1, <3>1, Objects
    <3>4. c \notin T
      BY <3>1, <3>2, <3>3 DEF Owes
    <3> QED
      BY <1>4, <1>5, <3>1, <3>2, <3>4
  <2>3. ASSUME NEW s \in DOMAIN g.s, g.s[s].builder # 0, g.s[s].isClean
        PROVE  g.s[s].message # NONE
    BY <1>1, <1>4, <1>6, <1>7, <2>3 DEF Flagged
  <2> QED
    BY <2>1, <2>2, <2>3 DEF Flagged
<1>12. Almost(g, X)
  BY <1>8, <1>9, <1>11, QuieterKeeps
<1> QED
  BY <1>9, <1>10, <1>12

(* What is reached from b has b, and with an object the next one.            *)
LEMMA ReachedClosed ==
  ASSUME NEW b, NEW next, b \in DOMAIN next
  PROVE  /\ b \in Reached(b, next) /\ Reached(b, next) \subseteq DOMAIN next
         /\ \A i \in Reached(b, next) :
              next[i] # 0 /\ next[i] \in DOMAIN next => next[i] \in Reached(b, next)
  BY DEF Reached

(* What onChanged of b tells.                                                *)
LEMMA ToldClosed ==
  ASSUME NEW h, h \in Heaps, Linked(h), NEW b \in DOMAIN h.b, NEW k, k \in Heaps,
         DOMAIN k.b = DOMAIN h.b, DOMAIN k.s = DOMAIN h.s,
         \A i \in DOMAIN h.b : TellsField(k, i) = TellsField(h, i),
         \A s \in DOMAIN h.s : TellsBuilder(k, s) \in {0, TellsBuilder(h, s)}
  PROVE  /\ b \in Told(k, b) /\ Told(k, b) \subseteq DOMAIN h.b
         /\ \A i \in Told(k, b) :
              TellsField(h, i) # 0 /\ TellsBuilder(k, TellsField(h, i)) # 0 =>
                TellsBuilder(h, TellsField(h, i)) \in Told(k, b)
<1> DEFINE next == [i \in DOMAIN k.b |->
                      IF TellsField(k, i) = 0 THEN 0 ELSE TellsBuilder(k, TellsField(k, i))]
<1>1. Told(k, b) = Reached(b, next) /\ DOMAIN next = DOMAIN h.b
  BY DEF Told
<1>2. \A i \in DOMAIN h.b : TellsField(h, i) # 0 => TellsField(h, i) \in DOMAIN h.s
  BY DEF Linked, TellsField
<1>3. \A s \in DOMAIN h.s : TellsBuilder(h, s) # 0 => TellsBuilder(h, s) \in DOMAIN h.b
  BY DEF Linked, TellsBuilder
<1>4. \A i \in DOMAIN h.b : TellsField(h, i) # 0 =>
        next[i] = TellsBuilder(k, TellsField(h, i))
  OBVIOUS
<1> HIDE DEF next
<1>5. /\ b \in Reached(b, next) /\ Reached(b, next) \subseteq DOMAIN next
      /\ \A i \in Reached(b, next) :
           next[i] # 0 /\ next[i] \in DOMAIN next => next[i] \in Reached(b, next)
  BY <1>1, ReachedClosed
<1> QED
  BY <1>1, <1>2, <1>3, <1>4, <1>5

(* onChanged of a Builder: it owes its parent nothing afterwards.             *)
LEMMA Changed ==
  ASSUME NEW h, NEW X, Almost(h, X), NEW b \in DOMAIN h.b
  PROVE  /\ Almost(OnChanged(h, b), X) /\ Quieter(h, OnChanged(h, b))
         /\ ~ Owes(OnChanged(h, b), b)
<1> DEFINE T == Told(h, b)
           U == {s \in DOMAIN h.s : \E i \in T : TellsField(h, i) = s}
<1>1. h \in Heaps /\ Linked(h)
  BY DEF Almost
<1>2. \A i \in DOMAIN h.b : h.b[i].parent # 0 => h.b[i].parent \in DOMAIN h.s
  BY <1>1 DEF Linked
<1>3. \A i \in DOMAIN h.b : TellsField(h, i) = IF Owes(h, i) THEN h.b[i].parent ELSE 0
  BY DEF TellsField, Owes
<1>4. /\ b \in T /\ T \subseteq DOMAIN h.b
      /\ \A i \in T : TellsField(h, i) # 0 /\ TellsBuilder(h, TellsField(h, i)) # 0 =>
           TellsBuilder(h, TellsField(h, i)) \in T
  BY <1>1, ToldClosed
<1>5. \A i \in DOMAIN h.b : TellsField(h, i) # 0 <=> Owes(h, i)
  BY <1>3 DEF Owes
<1>6. OnChanged(h, b) =
        [b |-> [i \in DOMAIN h.b |->
                  IF i \in T /\ Owes(h, i) THEN [h.b[i] EXCEPT !.isClean = FALSE] ELSE h.b[i]],
         s |-> [s \in DOMAIN h.s |-> IF s \in U THEN Invalidated(h.s[s]) ELSE h.s[s]]]
  BY <1>5 DEF OnChanged
<1>7. \A s \in DOMAIN h.s : s # 0 /\ h.s[s].parent # 0
  BY <1>1, Objects DEF Linked
<1>8. \A i \in T : Owes(h, i) => h.b[i].parent \in U
  BY <1>2, <1>3, <1>4 DEF Owes
<1>9. \A s \in U : h.s[s].isClean => h.s[s].parent \in T
  BY <1>4, <1>7 DEF TellsBuilder
<1> HIDE DEF T, U
<1>10. T \in SUBSET DOMAIN h.b /\ U \in SUBSET DOMAIN h.s
  BY <1>4 DEF U
<1> DEFINE g == OnChanged(h, b)
<1>11. Almost(g, X) /\ Quieter(h, g) /\ \A i \in T : ~ Owes(g, i)
  <2> HIDE DEF g
  <2> QED
    BY <1>6, <1>8, <1>9, <1>10, Propagated DEF g
<1> QED
  BY <1>4, <1>11

(* To be told twice changes nothing.                                         *)
LEMMA InvalidatedTwice ==
  ASSUME NEW f \in FieldBuilderObjects
  PROVE  Invalidated(Invalidated(f)) = Invalidated(f)
<1> DEFINE g == Invalidated(f)
<1>1. /\ g \in FieldBuilderObjects /\ g.parent = f.parent /\ g.builder = f.builder
      /\ g.message = IF f.builder # 0 THEN NONE ELSE f.message
      /\ g.isClean = (f.isClean /\ f.parent = 0)
  BY InvalidatedFields
<1> HIDE DEF g
<1>2. /\ Invalidated(g) \in FieldBuilderObjects /\ Invalidated(g).parent = g.parent
      /\ Invalidated(g).builder = g.builder
      /\ Invalidated(g).message = IF g.builder # 0 THEN NONE ELSE g.message
      /\ Invalidated(g).isClean = (g.isClean /\ g.parent = 0)
  BY <1>1, InvalidatedFields
<1>3. /\ Invalidated(g).parent = g.parent /\ Invalidated(g).builder = g.builder
      /\ Invalidated(g).message = g.message /\ Invalidated(g).isClean = g.isClean
  BY <1>1, <1>2
<1>4. Invalidated(g) = g
  BY <1>1, <1>2, <1>3 DEF FieldBuilderObjects
<1> QED
  BY <1>4 DEF g

(* onChanged of a field builder: the Builder above owes its parent nothing    *)
(* afterwards.                                                              *)
LEMMA ChangedField ==
  ASSUME NEW h, NEW X, Almost(h, X), NEW s \in DOMAIN h.s
  PROVE  /\ Almost(FieldChanged(h, s), X) /\ Quieter(h, FieldChanged(h, s))
         /\ ~ Owes(FieldChanged(h, s), h.s[s].parent)
<1> DEFINE p == h.s[s].parent
           k == [h EXCEPT !.s[s] = Invalidated(@)]
<1>1. h \in Heaps /\ Linked(h) /\ Flagged(h)
  BY DEF Almost
<1>2. p \in DOMAIN h.b /\ p # 0 /\ s # 0 /\ h.b[p].fieldBuilder = s
  BY <1>1, Objects DEF Linked
<1>3. h.s \in Seq(FieldBuilderObjects) /\ h.s[s] \in FieldBuilderObjects
  BY <1>1, Objects
<1>4. k.b = h.b /\ k.s = [h.s EXCEPT ![s] = Invalidated(h.s[s])] /\ k = [b |-> k.b, s |-> k.s]
  <2>1. h = [b |-> h.b, s |-> h.s]
    BY <1>1 DEF Heaps
  <2>2. k = [b |-> h.b, s |-> [h.s EXCEPT ![s] = Invalidated(h.s[s])]]
    BY <2>1
  <2> HIDE DEF k
  <2> QED
    BY <2>2
<1>5. /\ DOMAIN k.s = DOMAIN h.s /\ k.s[s] = Invalidated(h.s[s])
      /\ \A u \in DOMAIN h.s : u # s => k.s[u] = h.s[u]
  BY <1>4
<1>6. ~ k.s[s].isClean /\ k.s[s] \in FieldBuilderObjects
  BY <1>2, <1>3, <1>5, InvalidatedFields
<1>7. k \in Heaps
  <2>1. k.s \in Seq(FieldBuilderObjects)
    BY <1>3, <1>4, <1>5, <1>6, ExceptSeq
  <2>2. h.b \in Seq(BuilderObjects)
    BY <1>1, Objects
  <2> QED
    BY <1>4, <2>1, <2>2 DEF Heaps
<1> HIDE DEF k
<1>8. FieldChanged(h, s) = IF h.s[s].isClean THEN OnChanged(k, p) ELSE k
  BY <1>2 DEF FieldChanged, TellsBuilder, k
<1>9. CASE h.s[s].isClean
  <2> DEFINE T == Told(k, p)
             U == {u \in DOMAIN h.s : u = s \/ \E i \in T : TellsField(k, i) = u}
  <2>1. \A i \in DOMAIN h.b : TellsField(k, i) = TellsField(h, i)
    BY <1>4 DEF TellsField
  <2>2. TellsBuilder(k, s) = 0
    BY <1>6 DEF TellsBuilder
  <2>3. \A u \in DOMAIN h.s : u # s => TellsBuilder(k, u) = TellsBuilder(h, u)
    BY <1>5 DEF TellsBuilder
  <2>4. /\ p \in T /\ T \subseteq DOMAIN h.b
        /\ \A i \in T : TellsField(h, i) # 0 /\ TellsBuilder(k, TellsField(h, i)) # 0 =>
             TellsBuilder(h, TellsField(h, i)) \in T
    BY <1>1, <1>2, <1>4, <1>5, <1>7, <2>1, <2>2, <2>3, ToldClosed
  <2>5. \A i \in DOMAIN h.b : TellsField(h, i) = IF Owes(h, i) THEN h.b[i].parent ELSE 0
    BY DEF TellsField, Owes
  <2>6. \A i \in DOMAIN h.b : TellsField(h, i) # 0 <=> Owes(h, i)
    BY <2>5 DEF Owes
  <2>7. \A i \in T : Owes(h, i) => h.b[i].parent \in U
    BY <1>1, <2>1, <2>4, <2>5 DEF Owes, Linked
  <2>8. \A u \in U : h.s[u].isClean => h.s[u].parent \in T
    <3> SUFFICES ASSUME NEW u \in U, h.s[u].isClean, u # s PROVE h.s[u].parent \in T
      BY <2>4
    <3>1. PICK i \in T : TellsField(h, i) = u
      BY <2>1, <2>4
    <3>2. u # 0 /\ h.s[u].parent # 0
      BY <1>1, Objects DEF Linked
    <3>3. TellsBuilder(k, u) = h.s[u].parent /\ TellsBuilder(h, u) = h.s[u].parent
      BY <2>3 DEF TellsBuilder
    <3> QED
      BY <2>4, <3>1, <3>2, <3>3
  <2>9. OnChanged(k, p) =
          [b |-> [i \in DOMAIN h.b |->
                    IF i \in T /\ Owes(h, i) THEN [h.b[i] EXCEPT !.isClean = FALSE] ELSE h.b[i]],
           s |-> [u \in DOMAIN h.s |-> IF u \in U THEN Invalidated(h.s[u]) ELSE h.s[u]]]
    <3>1. \A u \in DOMAIN h.s :
            (IF \E i \in T : TellsField(k, i) = u THEN Invalidated(k.s[u]) ELSE k.s[u])
            = (IF u \in U THEN Invalidated(h.s[u]) ELSE h.s[u])
      BY <1>3, <1>5, InvalidatedTwice
    <3>2. \A i \in DOMAIN h.b :
            (IF i \in T /\ TellsField(k, i) # 0 THEN [k.b[i] EXCEPT !.isClean = FALSE] ELSE k.b[i])
            = (IF i \in T /\ Owes(h, i) THEN [h.b[i] EXCEPT !.isClean = FALSE] ELSE h.b[i])
      BY <1>4, <2>1, <2>6
    <3> HIDE DEF U
    <3> QED
      BY <1>4, <1>5, <3>1, <3>2 DEF OnChanged
  <2> HIDE DEF T, U
  <2>10. T \in SUBSET DOMAIN h.b /\ U \in SUBSET DOMAIN h.s
    BY <2>4 DEF U
  <2> DEFINE g == OnChanged(k, p)
  <2>11. Almost(g, X) /\ Quieter(h, g) /\ \A i \in T : ~ Owes(g, i)
    <3> HIDE DEF g
    <3> QED
      BY <2>7, <2>8, <2>9, <2>10, Propagated DEF g
  <2> QED
    BY <1>8, <1>9, <2>4, <2>11
<1>10. CASE ~ h.s[s].isClean
  <2>1. k = [b |-> [i \in DOMAIN h.b |->
                      IF i \in {} /\ Owes(h, i) THEN [h.b[i] EXCEPT !.isClean = FALSE] ELSE h.b[i]],
             s |-> [u \in DOMAIN h.s |-> IF u \in {s} THEN Invalidated(h.s[u]) ELSE h.s[u]]]
    <3>1. h.b = [i \in DOMAIN h.b |-> h.b[i]]
      BY <1>1, Objects
    <3>2. k.s = [u \in DOMAIN h.s |-> IF u \in {s} THEN Invalidated(h.s[u]) ELSE h.s[u]]
      BY <1>4
    <3> QED
      BY <1>4, <3>1, <3>2
  <2>2. Almost(k, X) /\ Quieter(h, k)
    <3> DEFINE T == {}
               U == {s}
    <3>1. T \in SUBSET DOMAIN h.b /\ U \in SUBSET DOMAIN h.s
      OBVIOUS
    <3>2. /\ \A i \in T : Owes(h, i) => h.b[i].parent \in U
          /\ \A u \in U : h.s[u].isClean => h.s[u].parent \in T
      BY <1>10
    <3>3. k = [b |-> [i \in DOMAIN h.b |->
                        IF i \in T /\ Owes(h, i) THEN [h.b[i] EXCEPT !.isClean = FALSE] ELSE h.b[i]],
               s |-> [u \in DOMAIN h.s |-> IF u \in U THEN Invalidated(h.s[u]) ELSE h.s[u]]]
      BY <2>1
    <3> HIDE DEF T, U
    <3> QED
      BY <3>1, <3>2, <3>3, Propagated
  <2>3. ~ Owes(h, p)
    BY <1>1, <1>2, <1>10 DEF Flagged
  <2>4. ~ Owes(k, p)
    BY <1>2, <2>2, <2>3, QuieterOwes
  <2> QED
    BY <1>8, <1>10, <2>2, <2>4
<1> QED
  BY <1>9, <1>10
-----------------------------------------------------------------------------
(* Changes of a Builder. *)

(* g is h after changes: nothing has moved, and nobody owes anybody a call    *)
(* that he did not owe before.                                              *)
Grown(h, g) ==
  /\ DOMAIN h.b \subseteq DOMAIN g.b /\ DOMAIN h.s \subseteq DOMAIN g.s
  /\ \A i \in DOMAIN h.b : g.b[i].level = h.b[i].level /\ (Owes(g, i) => Owes(h, i))
  /\ \A s \in DOMAIN h.s : g.s[s].parent = h.s[s].parent

(* Grown is transitive.                                                      *)
LEMMA GrownTwice ==
  ASSUME NEW h, NEW g, NEW f, Grown(h, g), Grown(g, f)
  PROVE  Grown(h, f)
  BY DEF Grown

(* Clearing caches and flags leaves who refers to whom as it is.             *)
LEMMA QuieterGrown ==
  ASSUME NEW h, NEW g, Quieter(h, g)
  PROVE  Grown(h, g)
  BY DEF Quieter, Grown, Owes

(* h after the Builder b became n.                                           *)
Put(h, b, n) == [b |-> [h.b EXCEPT ![b] = n], s |-> h.s]

(* A Builder like b, but for its own content.                                *)
Like(h, b, n) ==
  /\ n \in BuilderObjects /\ n.level = h.b[b].level /\ n.parent = h.b[b].parent
  /\ n.fieldBuilder = h.b[b].fieldBuilder /\ n.isClean = h.b[b].isClean

(* A Builder whose content is changed is the only one out of agreement.      *)
LEMMA PutOK ==
  ASSUME NEW h, HeapOK(h), NEW b \in DOMAIN h.b, NEW n, Like(h, b, n)
  PROVE  /\ Almost(Put(h, b, n), {b}) /\ Grown(h, Put(h, b, n))
         /\ DOMAIN Put(h, b, n).b = DOMAIN h.b /\ Put(h, b, n).b[b] = n
         /\ Put(h, b, n).s = h.s
<1> DEFINE g == Put(h, b, n)
<1>1. h \in Heaps /\ Linked(h) /\ Flagged(h)
  BY DEF HeapOK, Almost
<1>2. PICK C : CachedBut(h, {}, C)
  BY DEF HeapOK, Almost
<1>3. /\ g.s = h.s /\ g.b = [h.b EXCEPT ![b] = n] /\ DOMAIN g.b = DOMAIN h.b
      /\ g = [b |-> g.b, s |-> g.s] /\ g.b[b] = n /\ \A i \in DOMAIN h.b : i # b => g.b[i] = h.b[i]
  BY DEF Put
<1> HIDE DEF g
<1>4. \A i \in DOMAIN h.b :
        /\ g.b[i].level = h.b[i].level /\ g.b[i].parent = h.b[i].parent
        /\ g.b[i].fieldBuilder = h.b[i].fieldBuilder /\ g.b[i].isClean = h.b[i].isClean
  BY <1>3 DEF Like
<1>5. g \in Heaps
  <2>1. h.b \in Seq(BuilderObjects) /\ h.s \in Seq(FieldBuilderObjects) /\ n \in BuilderObjects
    BY <1>1, Objects DEF Like
  <2>2. g.b \in Seq(BuilderObjects)
    BY <1>3, <2>1, ExceptSeq
  <2> QED
    BY <1>3, <2>1, <2>2 DEF Heaps
<1>6. Linked(g)
  BY <1>1, <1>3, <1>4 DEF Linked
<1>7. \A i \in DOMAIN h.b : Owes(g, i) <=> Owes(h, i)
  BY <1>4 DEF Owes
<1>8. Flagged(g)
  BY <1>1, <1>3, <1>4, <1>7 DEF Flagged, Linked
<1>9. CachedBut(g, {b}, C)
  <2>1. \A i \in DOMAIN h.b : i # b => ContentOf(g, C, i) = ContentOf(h, C, i)
    BY <1>3 DEF ContentOf
  <2> QED
    BY <1>2, <1>3, <2>1 DEF CachedBut
<1>10. Grown(h, g)
  BY <1>3, <1>4, <1>7 DEF Grown
<1> QED
  BY <1>3, <1>5, <1>6, <1>8, <1>9, <1>10 DEF Almost, g

(* A change of which the Builder tells.                                      *)
LEMMA PutAndTold ==
  ASSUME NEW h, HeapOK(h), NEW b \in DOMAIN h.b, NEW n, Like(h, b, n)
  PROVE  /\ HeapOK(OnChanged(Put(h, b, n), b)) /\ Grown(h, OnChanged(Put(h, b, n), b))
         /\ ~ Owes(OnChanged(Put(h, b, n), b), b)
<1> DEFINE k == Put(h, b, n)
           g == OnChanged(k, b)
<1>1. Almost(k, {b}) /\ Grown(h, k) /\ b \in DOMAIN k.b
  BY PutOK
<1> HIDE DEF k
<1>2. Almost(g, {b}) /\ Quieter(k, g) /\ ~ Owes(g, b)
  BY <1>1, Changed
<1>3. HeapOK(g)
  BY <1>2, Settled
<1>4. Grown(h, g)
  BY <1>1, <1>2, QuieterGrown, GrownTwice
<1> QED
  BY <1>2, <1>3, <1>4 DEF k

(* A change of a Builder that owes nothing.                                  *)
LEMMA PutUntold ==
  ASSUME NEW h, HeapOK(h), NEW b \in DOMAIN h.b, NEW n, Like(h, b, n), ~ Owes(h, b)
  PROVE  HeapOK(Put(h, b, n)) /\ Grown(h, Put(h, b, n)) /\ ~ Owes(Put(h, b, n), b)
<1> DEFINE k == Put(h, b, n)
<1>1. Almost(k, {b}) /\ Grown(h, k) /\ b \in DOMAIN k.b
  BY PutOK
<1> HIDE DEF k
<1>2. ~ Owes(k, b)
  BY <1>1 DEF Grown
<1>3. HeapOK(k)
  BY <1>1, <1>2, Settled
<1> QED
  BY <1>1, <1>2, <1>3 DEF k

(* A heap with other builders, or with other field builders.                 *)
LEMMA HeapWith ==
  ASSUME NEW h \in Heaps, NEW B, NEW F
  PROVE  /\ [h EXCEPT !.b = B] = [b |-> B, s |-> h.s]
         /\ [h EXCEPT !.s = F] = [b |-> h.b, s |-> F]
  BY DEF Heaps

(* The changes of a single field.                                            *)
LEMMA PutX ==
  ASSUME NEW h, HeapOK(h), NEW b \in DOMAIN h.b, NEW v \in Scalars
  PROVE  \E n : Like(h, b, n) /\ [h EXCEPT !.b[b].x = v] = Put(h, b, n)
<1> DEFINE B == [h.b EXCEPT ![b] = [h.b[b] EXCEPT !.x = v]]
<1>1. h \in Heaps /\ h.b[b] \in BuilderObjects
  BY Objects DEF HeapOK, Almost
<1>2. Like(h, b, [h.b[b] EXCEPT !.x = v])
  BY <1>1 DEF Like, BuilderObjects
<1>3. [h EXCEPT !.b[b].x = v] = [h EXCEPT !.b = B]
  OBVIOUS
<1>4. [h EXCEPT !.b = B] = [b |-> B, s |-> h.s]
  BY <1>1, HeapWith
<1> QED
  BY <1>2, <1>3, <1>4 DEF Put

(* The bit of a Builder is a part of its content.                            *)
LEMMA PutHas ==
  ASSUME NEW h, HeapOK(h), NEW b \in DOMAIN h.b, NEW v \in BOOLEAN
  PROVE  \E n : Like(h, b, n) /\ [h EXCEPT !.b[b].has = v] = Put(h, b, n)
<1> DEFINE B == [h.b EXCEPT ![b] = [h.b[b] EXCEPT !.has = v]]
<1>1. h \in Heaps /\ h.b[b] \in BuilderObjects
  BY Objects DEF HeapOK, Almost
<1>2. Like(h, b, [h.b[b] EXCEPT !.has = v])
  BY <1>1 DEF Like, BuilderObjects
<1>3. [h EXCEPT !.b[b].has = v] = [h EXCEPT !.b = B]
  OBVIOUS
<1>4. [h EXCEPT !.b = B] = [b |-> B, s |-> h.s]
  BY <1>1, HeapWith
<1> QED
  BY <1>2, <1>3, <1>4 DEF Put

(* So is its field.                                                          *)
LEMMA PutField ==
  ASSUME NEW h, HeapOK(h), NEW b \in DOMAIN h.b, NEW v \in Seq(Scalars)
  PROVE  \E n : Like(h, b, n) /\ [h EXCEPT !.b[b].field = v] = Put(h, b, n)
<1> DEFINE B == [h.b EXCEPT ![b] = [h.b[b] EXCEPT !.field = v]]
<1>1. h \in Heaps /\ h.b[b] \in BuilderObjects
  BY Objects DEF HeapOK, Almost
<1>2. Like(h, b, [h.b[b] EXCEPT !.field = v])
  BY <1>1 DEF Like, BuilderObjects
<1>3. [h EXCEPT !.b[b].field = v] = [h EXCEPT !.b = B]
  OBVIOUS
<1>4. [h EXCEPT !.b = B] = [b |-> B, s |-> h.s]
  BY <1>1, HeapWith
<1> QED
  BY <1>2, <1>3, <1>4 DEF Put

(* A field of a Builder that owes nothing.                                   *)
LEMMA UntoldX ==
  ASSUME NEW h, HeapOK(h), NEW b \in DOMAIN h.b, ~ Owes(h, b), NEW v \in Scalars,
         NEW g, g = [h EXCEPT !.b[b].x = v]
  PROVE  HeapOK(g) /\ Grown(h, g) /\ ~ Owes(g, b)
<1>1. PICK n : Like(h, b, n) /\ [h EXCEPT !.b[b].x = v] = Put(h, b, n)
  BY PutX
<1> QED
  BY <1>1, PutUntold

(* A Builder that owes nothing may change its bit without telling.           *)
LEMMA UntoldHas ==
  ASSUME NEW h, HeapOK(h), NEW b \in DOMAIN h.b, ~ Owes(h, b), NEW v \in BOOLEAN,
         NEW g, g = [h EXCEPT !.b[b].has = v]
  PROVE  HeapOK(g) /\ Grown(h, g) /\ ~ Owes(g, b)
<1>1. PICK n : Like(h, b, n) /\ [h EXCEPT !.b[b].has = v] = Put(h, b, n)
  BY PutHas
<1> QED
  BY <1>1, PutUntold

(* So it may its field.                                                      *)
LEMMA UntoldField ==
  ASSUME NEW h, HeapOK(h), NEW b \in DOMAIN h.b, ~ Owes(h, b), NEW v \in Seq(Scalars),
         NEW g, g = [h EXCEPT !.b[b].field = v]
  PROVE  HeapOK(g) /\ Grown(h, g) /\ ~ Owes(g, b)
<1>1. PICK n : Like(h, b, n) /\ [h EXCEPT !.b[b].field = v] = Put(h, b, n)
  BY PutField
<1> QED
  BY <1>1, PutUntold

(* A field of a Builder that tells of the change.                            *)
LEMMA ToldX ==
  ASSUME NEW h, HeapOK(h), NEW b \in DOMAIN h.b, NEW v \in Scalars,
         NEW g, g = OnChanged([h EXCEPT !.b[b].x = v], b)
  PROVE  HeapOK(g) /\ Grown(h, g) /\ ~ Owes(g, b)
<1>1. PICK n : Like(h, b, n) /\ [h EXCEPT !.b[b].x = v] = Put(h, b, n)
  BY PutX
<1> QED
  BY <1>1, PutAndTold

(* A Builder that changes its bit and tells owes nothing after that.         *)
LEMMA ToldHas ==
  ASSUME NEW h, HeapOK(h), NEW b \in DOMAIN h.b, NEW v \in BOOLEAN,
         NEW g, g = OnChanged([h EXCEPT !.b[b].has = v], b)
  PROVE  HeapOK(g) /\ Grown(h, g) /\ ~ Owes(g, b)
<1>1. PICK n : Like(h, b, n) /\ [h EXCEPT !.b[b].has = v] = Put(h, b, n)
  BY PutHas
<1> QED
  BY <1>1, PutAndTold

(* So does one that changes its field.                                       *)
LEMMA ToldField ==
  ASSUME NEW h, HeapOK(h), NEW b \in DOMAIN h.b, NEW v \in Seq(Scalars),
         NEW g, g = OnChanged([h EXCEPT !.b[b].field = v], b)
  PROVE  HeapOK(g) /\ Grown(h, g) /\ ~ Owes(g, b)
<1>1. PICK n : Like(h, b, n) /\ [h EXCEPT !.b[b].field = v] = Put(h, b, n)
  BY PutField
<1> QED
  BY <1>1, PutAndTold

(* A Builder that has told owes nothing.                                     *)
LEMMA OnChangedOK ==
  ASSUME NEW h, HeapOK(h), NEW b \in DOMAIN h.b
  PROVE  HeapOK(OnChanged(h, b)) /\ Grown(h, OnChanged(h, b)) /\ ~ Owes(OnChanged(h, b), b)
  BY Changed, QuieterGrown DEF HeapOK

-----------------------------------------------------------------------------
(* Changes of a field builder. *)

(* A field builder after setMessage, before it tells.                        *)
Disposed(h, s, m) ==
  [b |-> IF h.s[s].builder # 0
           THEN [h.b EXCEPT ![h.s[s].builder] = [h.b[h.s[s].builder] EXCEPT !.parent = 0]] ELSE h.b,
   s |-> [h.s EXCEPT ![s] = [h.s[s] EXCEPT !.message = m, !.builder = 0]]]

(* A field builder that gets a message lets its builder go, which is a root  *)
(* then.                                                                     *)
LEMMA DisposedFields ==
  ASSUME NEW h \in Heaps, Linked(h), NEW s \in DOMAIN h.s, NEW m \in Contentful, NEW g,
         g = Disposed(h, s, m)
  PROVE  /\ g \in Heaps /\ DOMAIN g.s = DOMAIN h.s /\ DOMAIN g.b = DOMAIN h.b
         /\ g.s[s].parent = h.s[s].parent /\ g.s[s].message = m /\ g.s[s].builder = 0
         /\ g.s[s].isClean = h.s[s].isClean
         /\ \A u \in DOMAIN h.s : u # s => g.s[u] = h.s[u]
         /\ \A i \in DOMAIN h.b :
              /\ g.b[i].level = h.b[i].level /\ g.b[i].x = h.b[i].x /\ g.b[i].has = h.b[i].has
              /\ g.b[i].field = h.b[i].field /\ g.b[i].fieldBuilder = h.b[i].fieldBuilder
              /\ g.b[i].parent = IF i = h.s[s].builder THEN 0 ELSE h.b[i].parent
              /\ g.b[i].isClean = h.b[i].isClean
<1> DEFINE b == h.s[s].builder
           n == [h.b[b] EXCEPT !.parent = 0]
           f == [h.s[s] EXCEPT !.message = m, !.builder = 0]
<1>1. /\ h.b \in Seq(BuilderObjects) /\ h.s \in Seq(FieldBuilderObjects)
      /\ \A i \in DOMAIN h.b : h.b[i] \in BuilderObjects /\ i # 0
      /\ h.s[s] \in FieldBuilderObjects
  BY Objects
<1>2. b # 0 => b \in DOMAIN h.b
  BY DEF Linked
<1>3. /\ f.parent = h.s[s].parent /\ f.message = m /\ f.builder = 0
      /\ f.isClean = h.s[s].isClean /\ f \in FieldBuilderObjects
  BY <1>1 DEF FieldBuilderObjects, Contentful
<1>4. b # 0 =>
        /\ n \in BuilderObjects /\ n.level = h.b[b].level /\ n.x = h.b[b].x /\ n.has = h.b[b].has
        /\ n.field = h.b[b].field /\ n.fieldBuilder = h.b[b].fieldBuilder
        /\ n.parent = 0 /\ n.isClean = h.b[b].isClean
  <2> SUFFICES ASSUME b # 0
               PROVE  /\ n \in BuilderObjects /\ n.level = h.b[b].level /\ n.x = h.b[b].x
                      /\ n.has = h.b[b].has /\ n.field = h.b[b].field
                      /\ n.fieldBuilder = h.b[b].fieldBuilder
                      /\ n.parent = 0 /\ n.isClean = h.b[b].isClean
    OBVIOUS
  <2>1. h.b[b] \in BuilderObjects
    BY <1>1, <1>2
  <2> QED
    BY <2>1 DEF BuilderObjects
<1>5. g.s = [h.s EXCEPT ![s] = f] /\ g.b = IF b # 0 THEN [h.b EXCEPT ![b] = n] ELSE h.b
  BY DEF Disposed
<1>6. g = [b |-> g.b, s |-> g.s]
  BY DEF Disposed
<1> HIDE DEF b, n, f
<1>7. g.s \in Seq(FieldBuilderObjects) /\ g.b \in Seq(BuilderObjects)
  BY <1>1, <1>2, <1>3, <1>4, <1>5, ExceptSeq
<1>8. g \in Heaps
  BY <1>6, <1>7 DEF Heaps
<1>9. /\ DOMAIN g.s = DOMAIN h.s /\ g.s[s] = f
      /\ \A u \in DOMAIN h.s : u # s => g.s[u] = h.s[u]
  BY <1>1, <1>5
<1>10. /\ DOMAIN g.b = DOMAIN h.b /\ (b # 0 => g.b[b] = n)
       /\ \A i \in DOMAIN h.b : i # b => g.b[i] = h.b[i]
  BY <1>1, <1>2, <1>5
<1>11. \A i \in DOMAIN h.b :
         /\ g.b[i].level = h.b[i].level /\ g.b[i].x = h.b[i].x /\ g.b[i].has = h.b[i].has
         /\ g.b[i].field = h.b[i].field /\ g.b[i].fieldBuilder = h.b[i].fieldBuilder
         /\ g.b[i].parent = IF i = b THEN 0 ELSE h.b[i].parent
         /\ g.b[i].isClean = h.b[i].isClean
  <2> SUFFICES ASSUME NEW i \in DOMAIN h.b
               PROVE  /\ g.b[i].level = h.b[i].level /\ g.b[i].x = h.b[i].x
                      /\ g.b[i].has = h.b[i].has /\ g.b[i].field = h.b[i].field
                      /\ g.b[i].fieldBuilder = h.b[i].fieldBuilder
                      /\ g.b[i].parent = IF i = b THEN 0 ELSE h.b[i].parent
                      /\ g.b[i].isClean = h.b[i].isClean
    OBVIOUS
  <2>1. CASE i = b
    BY <1>1, <1>4, <1>10, <2>1
  <2>2. CASE i # b
    BY <1>10, <2>2
  <2> QED
    BY <2>1, <2>2
<1> QED
  BY <1>3, <1>8, <1>9, <1>10, <1>11 DEF b

(* The Builder above has got a new content.                                  *)
LEMMA DisposedOK ==
  ASSUME NEW h, HeapOK(h), NEW s \in DOMAIN h.s, NEW m \in Contentful
  PROVE  Almost(Disposed(h, s, m), {h.s[s].parent}) /\ Grown(h, Disposed(h, s, m))
<1> DEFINE p == h.s[s].parent
           b == h.s[s].builder
           g == Disposed(h, s, m)
<1>1. h \in Heaps /\ Linked(h) /\ Flagged(h)
  BY DEF HeapOK, Almost
<1>2. PICK C : CachedBut(h, {}, C)
  BY DEF HeapOK, Almost
<1>4. m # NONE
  BY DEF Contentful
<1>5. b # 0 => b \in DOMAIN h.b /\ h.b[b].parent = s
  BY <1>1 DEF Linked
<1>3. g = Disposed(h, s, m)
  OBVIOUS
<1> HIDE DEF g
<1>6. /\ g \in Heaps /\ DOMAIN g.s = DOMAIN h.s
      /\ g.s[s].parent = p /\ g.s[s].message = m /\ g.s[s].builder = 0
      /\ g.s[s].isClean = h.s[s].isClean
      /\ \A u \in DOMAIN h.s : u # s => g.s[u] = h.s[u]
  BY <1>1, <1>3, DisposedFields
<1>7. /\ DOMAIN g.b = DOMAIN h.b
      /\ \A i \in DOMAIN h.b :
           /\ g.b[i].level = h.b[i].level /\ g.b[i].x = h.b[i].x /\ g.b[i].has = h.b[i].has
           /\ g.b[i].field = h.b[i].field /\ g.b[i].fieldBuilder = h.b[i].fieldBuilder
           /\ g.b[i].parent = IF i = b THEN 0 ELSE h.b[i].parent
           /\ g.b[i].isClean = h.b[i].isClean
  BY <1>1, <1>3, DisposedFields
<1> HIDE DEF b, p
<1>8. h.s[s].parent = p /\ h.s[s].builder = b
  BY DEF b, p
<1>9. Linked(g)
  <2>1. ASSUME NEW i \in DOMAIN g.b
        PROVE  /\ g.b[i].fieldBuilder # 0 =>
                    /\ g.b[i].fieldBuilder \in DOMAIN g.s
                    /\ g.s[g.b[i].fieldBuilder].parent = i
                    /\ g.b[i].level < Depth
               /\ g.b[i].parent # 0 =>
                    g.b[i].parent \in DOMAIN g.s /\ g.s[g.b[i].parent].builder = i
    <3>1. h.b[i].fieldBuilder # 0 =>
            /\ h.b[i].fieldBuilder \in DOMAIN h.s
            /\ h.s[h.b[i].fieldBuilder].parent = i
            /\ h.b[i].level < Depth
      BY <1>1, <1>7 DEF Linked
    <3>2. h.b[i].parent # 0 => h.b[i].parent \in DOMAIN h.s /\ h.s[h.b[i].parent].builder = i
      BY <1>1, <1>7 DEF Linked
    <3>3. h.b[i].fieldBuilder # 0 => g.s[h.b[i].fieldBuilder].parent = i
      BY <1>6, <1>8, <3>1
    <3>4. h.b[i].parent # 0 /\ i # b => g.s[h.b[i].parent].builder = i
      BY <1>6, <1>8, <3>2
    <3> QED
      BY <1>6, <1>7, <3>1, <3>2, <3>3, <3>4
  <2>2. ASSUME NEW u \in DOMAIN g.s
        PROVE  /\ g.s[u].parent \in DOMAIN g.b /\ g.b[g.s[u].parent].fieldBuilder = u
               /\ g.s[u].builder # 0 =>
                    /\ g.s[u].builder \in DOMAIN g.b /\ g.b[g.s[u].builder].parent = u
                    /\ g.b[g.s[u].builder].level = g.b[g.s[u].parent].level + 1
               /\ g.s[u].builder # 0 \/ g.s[u].message # NONE
    <3>1. CASE u = s
      <4>1. p \in DOMAIN h.b /\ h.b[p].fieldBuilder = s
        BY <1>1, <1>8 DEF Linked
      <4> QED
        BY <1>4, <1>6, <1>7, <3>1, <4>1
    <3>2. CASE u # s
      <4>1. g.s[u] = h.s[u] /\ u \in DOMAIN h.s
        BY <1>6, <3>2
      <4>2. h.s[u].builder # 0 => h.s[u].builder # b
        BY <1>1, <1>5, <3>2, <4>1 DEF Linked
      <4>3. /\ h.s[u].parent \in DOMAIN h.b /\ h.b[h.s[u].parent].fieldBuilder = u
            /\ h.s[u].builder # 0 \/ h.s[u].message # NONE
        BY <1>1, <4>1 DEF Linked
      <4>4. h.s[u].builder # 0 =>
              /\ h.s[u].builder \in DOMAIN h.b /\ h.b[h.s[u].builder].parent = u
              /\ h.b[h.s[u].builder].level = h.b[h.s[u].parent].level + 1
        BY <1>1, <4>1 DEF Linked
      <4> QED
        BY <1>7, <4>1, <4>2, <4>3, <4>4
    <3> QED
      BY <3>1, <3>2
  <2> QED
    BY <2>1, <2>2 DEF Linked
<1>10. \A i \in DOMAIN h.b : Owes(g, i) => Owes(h, i)
  BY <1>7 DEF Owes
<1>11. Flagged(g)
  <2>1. ASSUME NEW i \in DOMAIN g.b, Owes(g, i), g.b[i].fieldBuilder # 0
        PROVE  g.s[g.b[i].fieldBuilder].isClean
    <3>1. h.b[i].fieldBuilder \in DOMAIN h.s /\ h.s[h.b[i].fieldBuilder].isClean
      BY <1>1, <1>7, <1>10, <2>1 DEF Flagged, Linked
    <3> QED
      BY <1>6, <1>7, <2>1, <3>1
  <2>2. ASSUME NEW u \in DOMAIN g.s, g.s[u].builder # 0
        PROVE  /\ g.s[u].message # NONE => g.b[g.s[u].builder].isClean
               /\ g.s[u].isClean => g.s[u].message # NONE
    <3>1. u # s /\ g.s[u] = h.s[u] /\ u \in DOMAIN h.s
      BY <1>6, <2>2
    <3>2. h.s[u].builder \in DOMAIN h.b
      BY <1>1, <2>2, <3>1 DEF Linked
    <3> QED
      BY <1>1, <1>7, <2>2, <3>1, <3>2 DEF Flagged
  <2> QED
    BY <2>1, <2>2 DEF Flagged
<1>12. CachedBut(g, {p}, C)
  <2>1. ASSUME NEW i \in DOMAIN h.b, i # p PROVE C[i] = ContentOf(g, C, i)
    <3>1. C[i] = ContentOf(h, C, i)
      BY <1>2 DEF CachedBut
    <3>2. h.b[i].fieldBuilder # 0 =>
            h.b[i].fieldBuilder # s /\ h.b[i].fieldBuilder \in DOMAIN h.s
      BY <1>1, <1>8, <2>1 DEF Linked
    <3>3. h.b[i].fieldBuilder # 0 => g.s[h.b[i].fieldBuilder] = h.s[h.b[i].fieldBuilder]
      BY <1>6, <3>2
    <3>4. ContentOf(g, C, i) = ContentOf(h, C, i)
      BY <1>7, <3>3 DEF ContentOf
    <3> QED
      BY <3>1, <3>4
  <2>2. ASSUME NEW u \in DOMAIN g.s, g.s[u].builder # 0, g.s[u].message # NONE
        PROVE  g.s[u].message = C[g.s[u].builder]
    BY <1>2, <1>6, <2>2 DEF CachedBut
  <2>3. C \in [DOMAIN g.b -> Contentful]
    BY <1>2, <1>7 DEF CachedBut
  <2> QED
    BY <1>7, <2>1, <2>2, <2>3 DEF CachedBut
<1>13. Grown(h, g)
  BY <1>6, <1>7, <1>8, <1>10 DEF Grown
<1> QED
  BY <1>6, <1>9, <1>11, <1>12, <1>13 DEF Almost, p, g

(* setMessage disposes of the builder, then tells.                           *)
LEMMA SetMessageIs ==
  ASSUME NEW h \in Heaps, NEW s \in DOMAIN h.s, NEW m
  PROVE  SetMessage(h, s, m) = FieldChanged(Disposed(h, s, m), s)
<1> DEFINE b == h.s[s].builder
           k == IF b # 0 THEN [h EXCEPT !.b[b].parent = 0] ELSE h
           B == IF b # 0 THEN [h.b EXCEPT ![b] = [h.b[b] EXCEPT !.parent = 0]] ELSE h.b
           f == h.s[s]
<1>1. k = [b |-> B, s |-> h.s]
  <2>1. CASE b # 0
    <3>1. k = [h EXCEPT !.b = B]
      BY <2>1
    <3> HIDE DEF B, k
    <3> QED
      BY <3>1, HeapWith
  <2>2. CASE b = 0
    BY <2>2 DEF Heaps
  <2> QED
    BY <2>1, <2>2
<1> HIDE DEF B, k
<1>2. f \in FieldBuilderObjects /\ DOMAIN h.s = 1..Len(h.s) /\ h.s \in Seq(FieldBuilderObjects)
  BY Objects
<1>3. [k EXCEPT !.s[s].message = m, !.s[s].builder = 0] =
        [b |-> B, s |-> [[h.s EXCEPT ![s] = [f EXCEPT !.message = m]]
                           EXCEPT ![s] = [@ EXCEPT !.builder = 0]]]
  <2> DEFINE F == [h.s EXCEPT ![s] = [f EXCEPT !.message = m]]
             k1 == [b |-> B, s |-> F]
  <2>1. [k EXCEPT !.s[s].message = m] = k1
    BY <1>1
  <2>2. [k EXCEPT !.s[s].message = m, !.s[s].builder = 0] =
          [[k EXCEPT !.s[s].message = m] EXCEPT !.s[s].builder = 0]
    OBVIOUS
  <2>3. k1.b = B /\ k1.s = F /\ k1 = [b |-> B, s |-> F]
    OBVIOUS
  <2> HIDE DEF F, k1
  <2>4. [k1 EXCEPT !.s[s].builder = 0] = [b |-> B, s |-> [F EXCEPT ![s] = [@ EXCEPT !.builder = 0]]]
    BY <2>3
  <2> QED
    BY <2>1, <2>2, <2>4 DEF F
<1>4. [[h.s EXCEPT ![s] = [f EXCEPT !.message = m]] EXCEPT ![s] = [@ EXCEPT !.builder = 0]]
        = [h.s EXCEPT ![s] = [[f EXCEPT !.message = m] EXCEPT !.builder = 0]]
  BY <1>2
<1>5. [[f EXCEPT !.message = m] EXCEPT !.builder = 0] = [f EXCEPT !.message = m, !.builder = 0]
  OBVIOUS
<1>6. SetMessage(h, s, m) = FieldChanged([k EXCEPT !.s[s].message = m, !.s[s].builder = 0], s)
  BY DEF SetMessage, k
<1> QED
  BY <1>3, <1>4, <1>5, <1>6 DEF Disposed, B

(* What a field builder does that has told of a change of its Builder.        *)
LEMMA FieldTold ==
  ASSUME NEW h, NEW k, NEW s \in DOMAIN h.s, Almost(k, {h.s[s].parent}), Grown(h, k)
  PROVE  /\ HeapOK(FieldChanged(k, s)) /\ Grown(h, FieldChanged(k, s))
         /\ ~ Owes(FieldChanged(k, s), h.s[s].parent)
<1> DEFINE p == h.s[s].parent
           g == FieldChanged(k, s)
<1>1. s \in DOMAIN k.s /\ k.s[s].parent = p
  BY DEF Grown
<1>2. Almost(g, {p}) /\ Quieter(k, g) /\ ~ Owes(g, p)
  BY <1>1, ChangedField
<1>3. HeapOK(g)
  BY <1>2, Settled
<1> QED
  BY <1>2, <1>3, QuieterGrown, GrownTwice

(* After setMessage the caches are right.                                    *)
LEMMA SetMessageOK ==
  ASSUME NEW h, HeapOK(h), NEW s \in DOMAIN h.s, NEW m \in Contentful
  PROVE  /\ HeapOK(SetMessage(h, s, m)) /\ Grown(h, SetMessage(h, s, m))
         /\ ~ Owes(SetMessage(h, s, m), h.s[s].parent)
<1>1. SetMessage(h, s, m) = FieldChanged(Disposed(h, s, m), s)
  BY SetMessageIs DEF HeapOK, Almost
<1> QED
  BY <1>1, DisposedOK, FieldTold

(* onChanged of a field builder whose message is replaced before.             *)
LEMMA FieldMessageOK ==
  ASSUME NEW h, HeapOK(h), NEW s \in DOMAIN h.s, h.s[s].builder = 0, NEW m \in Contentful,
         NEW g, g = FieldChanged([h EXCEPT !.s[s].message = m], s)
  PROVE  HeapOK(g) /\ Grown(h, g) /\ ~ Owes(g, h.s[s].parent)
<1> DEFINE F == [h.s EXCEPT ![s] = [h.s[s] EXCEPT !.message = m]]
<1>1. h \in Heaps
  BY DEF HeapOK, Almost
<1>2. [h EXCEPT !.s[s].message = m] = [h EXCEPT !.s = F]
  OBVIOUS
<1>3. h.s[s] \in FieldBuilderObjects
  BY <1>1, Objects
<1>4. [h.s[s] EXCEPT !.message = m] = [h.s[s] EXCEPT !.message = m, !.builder = 0]
  BY <1>3 DEF FieldBuilderObjects
<1>5. Disposed(h, s, m) = [b |-> h.b, s |-> F]
  BY <1>4 DEF Disposed
<1> HIDE DEF F
<1>6. [h EXCEPT !.s[s].message = m] = Disposed(h, s, m)
  BY <1>1, <1>2, <1>5, HeapWith
<1> QED
  BY <1>6, DisposedOK, FieldTold

(* So they are after onChanged of a field builder.                           *)
LEMMA FieldChangedOK ==
  ASSUME NEW h, HeapOK(h), NEW s \in DOMAIN h.s
  PROVE  /\ HeapOK(FieldChanged(h, s)) /\ Grown(h, FieldChanged(h, s))
         /\ ~ Owes(FieldChanged(h, s), h.s[s].parent)
  BY ChangedField, QuieterGrown DEF HeapOK

-----------------------------------------------------------------------------
(* getBuilder. *)

(* What getBuilder adds. *)
AddedBuilder(h, s, g, c) ==
  /\ g \in Heaps /\ DOMAIN g.b = DOMAIN h.b \cup {c} /\ c \notin DOMAIN h.b /\ c # 0
  /\ c = Len(h.b) + 1
  /\ DOMAIN g.s = DOMAIN h.s
  /\ \A i \in DOMAIN h.b : g.b[i] = h.b[i]
  /\ \A u \in DOMAIN h.s : u # s => g.s[u] = h.s[u]
  /\ g.s[s].parent = h.s[s].parent /\ g.s[s].builder = c
  /\ g.s[s].message = h.s[s].message /\ g.s[s].isClean = h.s[s].isClean
  /\ g.b[c].level = h.b[h.s[s].parent].level + 1
  /\ g.b[c].x = Head(h.s[s].message) /\ g.b[c].field = Tail(h.s[s].message)
  /\ g.b[c].has <=> Tail(h.s[s].message) # NONE
  /\ g.b[c].fieldBuilder = 0 /\ g.b[c].parent = s /\ g.b[c].isClean

(* getBuilder adds one Builder, which holds the message of its field         *)
(* builder.                                                                  *)
LEMMA NewBuilder ==
  ASSUME NEW h \in Heaps, Linked(h), NEW s \in DOMAIN h.s, h.s[s].builder = 0,
         NEW g, g = GetBuilder(h, s)
  PROVE  \E c : AddedBuilder(h, s, g, c)
<1> DEFINE c == Len(h.b) + 1
<1> DEFINE p == h.s[s].parent
           m == h.s[s].message
           n == Builder(h.b[p].level + 1, m, s, TRUE)
           f == [h.s[s] EXCEPT !.builder = c]
<1>1. /\ h.b \in Seq(BuilderObjects) /\ h.s \in Seq(FieldBuilderObjects)
      /\ h.s[s] \in FieldBuilderObjects /\ s \in Nat /\ Len(h.b) \in Nat
  BY Objects
<1>2. p \in DOMAIN h.b /\ p # 0 /\ h.b[p].fieldBuilder = s /\ s # 0 /\ m # NONE
  <2>1. p \in DOMAIN h.b /\ h.b[p].fieldBuilder = s
    BY DEF Linked
  <2>2. m # NONE
    BY DEF Linked
  <2>3. DOMAIN h.b = 1..Len(h.b) /\ DOMAIN h.s = 1..Len(h.s) /\ Len(h.b) \in Nat /\ Len(h.s) \in Nat
    BY Objects
  <2> QED
    BY <2>1, <2>2, <2>3
<1>3. h.b[p].level \in 1..Depth /\ h.b[p].level < Depth
  <2>1. h.b[p].level < Depth
    BY <1>2 DEF Linked
  <2> QED
    BY <1>2, <2>1, Objects, BuilderFields
<1>4. m \in Contentful
  BY <1>1, <1>2, FieldBuilderFields DEF Contentful
<1>5. h.b[p].level + 1 \in 1..Depth /\ TRUE \in BOOLEAN
  BY <1>3, Scalar
<1>6. /\ n \in BuilderObjects /\ n.level = h.b[p].level + 1 /\ n.x = Head(m) /\ n.field = Tail(m)
      /\ n.has <=> Tail(m) # NONE
      /\ n.fieldBuilder = 0 /\ n.parent = s /\ n.isClean
  <2>1. Head(m) \in Scalars /\ Tail(m) \in Seq(Scalars)
    BY <1>4, TopAndRest
  <2>2. (Tail(m) # NONE) \in BOOLEAN
    OBVIOUS
  <2> HIDE DEF m
  <2> QED
    BY <1>1, <1>5, <2>1, <2>2 DEF Builder, BuilderObjects
<1>7. /\ f \in FieldBuilderObjects /\ f.parent = p /\ f.builder = c /\ f.message = m
      /\ f.isClean = h.s[s].isClean
  <2>1. c \in Nat /\ h.s[s] \in FieldBuilderObjects
    BY <1>1
  <2> QED
    BY <2>1 DEF FieldBuilderObjects
<1>8. g = [b |-> With(h.b, n), s |-> [h.s EXCEPT ![s] = f]]
  BY DEF GetBuilder
<1>9. g.b = With(h.b, n) /\ g.s = [h.s EXCEPT ![s] = f] /\ g = [b |-> g.b, s |-> g.s]
  BY <1>8
<1> HIDE DEF n, f, p, m
<1>10. /\ g.b \in Seq(BuilderObjects) /\ DOMAIN g.b = DOMAIN h.b \cup {c}
       /\ c \notin DOMAIN h.b /\ g.b[c] = n /\ \A i \in DOMAIN h.b : g.b[i] = h.b[i]
  <2>1. h.b \in Seq(BuilderObjects) /\ n \in BuilderObjects
    BY <1>1, <1>6
  <2>2. With(h.b, n) \in [1..Len(h.b) + 1 -> BuilderObjects]
    BY <1>1, <1>6, LenProperties DEF With
  <2>3. DOMAIN h.b = 1..Len(h.b) /\ Len(h.b) \in Nat
    BY Objects
  <2>4. 1..Len(h.b) + 1 = 1..Len(h.b) \cup {c} /\ c \notin 1..Len(h.b)
    BY <2>3
  <2>5. With(h.b, n)[c] = n /\ \A i \in 1..Len(h.b) : With(h.b, n)[i] = h.b[i]
    BY <1>1 DEF With
  <2>6. With(h.b, n) \in Seq(BuilderObjects) /\ DOMAIN With(h.b, n) = 1..Len(h.b) + 1
    BY <1>1, <2>2, SequenceOf
  <2> QED
    BY <1>9, <2>3, <2>4, <2>5, <2>6
<1>11. /\ g.s \in Seq(FieldBuilderObjects) /\ DOMAIN g.s = DOMAIN h.s /\ g.s[s] = f
       /\ \A u \in DOMAIN h.s : u # s => g.s[u] = h.s[u]
  BY <1>1, <1>7, <1>9, ExceptSeq
<1>12. g \in Heaps /\ c # 0
  <2>1. [b |-> g.b, s |-> g.s] \in Heaps
    BY <1>10, <1>11 DEF Heaps
  <2> QED
    BY <1>1, <1>9, <2>1
<1>13. /\ g.s[s].parent = h.s[s].parent /\ g.s[s].builder = c
       /\ g.s[s].message = h.s[s].message /\ g.s[s].isClean = h.s[s].isClean
  BY <1>7, <1>11 DEF p, m
<1>14. /\ g.b[c].level = h.b[h.s[s].parent].level + 1
       /\ g.b[c].x = Head(h.s[s].message) /\ g.b[c].field = Tail(h.s[s].message)
       /\ g.b[c].has <=> Tail(h.s[s].message) # NONE
       /\ g.b[c].fieldBuilder = 0 /\ g.b[c].parent = s /\ g.b[c].isClean
  BY <1>6, <1>10 DEF p, m
<1>15. AddedBuilder(h, s, g, c)
  BY <1>10, <1>11, <1>12, <1>13, <1>14 DEF AddedBuilder
<1> QED
  BY <1>15

(* The new builder holds the message, which is cached.                        *)
LEMMA GetBuilderOK ==
  ASSUME NEW h, HeapOK(h), NEW s \in DOMAIN h.s
  PROVE  /\ HeapOK(GetBuilder(h, s)) /\ Grown(h, GetBuilder(h, s))
         /\ GetBuilder(h, s).s[s].builder \in DOMAIN GetBuilder(h, s).b
<1>1. h \in Heaps /\ Linked(h) /\ Flagged(h)
  BY DEF HeapOK, Almost
<1>2. PICK C : CachedBut(h, {}, C)
  BY DEF HeapOK, Almost
<1>3. CASE h.s[s].builder # 0
  <2>1. GetBuilder(h, s) = h
    BY <1>3 DEF GetBuilder
  <2>2. h.s[s].builder \in DOMAIN h.b
    BY <1>1, <1>3 DEF Linked
  <2> QED
    BY <2>1, <2>2 DEF Grown
<1>4. CASE h.s[s].builder = 0
  <2> DEFINE g == GetBuilder(h, s)
             p == h.s[s].parent
             m == h.s[s].message
  <2>1. g = GetBuilder(h, s)
    OBVIOUS
  <2> HIDE DEF g
  <2>0. PICK c : AddedBuilder(h, s, g, c)
    BY <1>1, <1>4, <2>1, NewBuilder
  <2>2. /\ g \in Heaps /\ DOMAIN g.b = DOMAIN h.b \cup {c} /\ c \notin DOMAIN h.b /\ c # 0
        /\ DOMAIN g.s = DOMAIN h.s
        /\ \A i \in DOMAIN h.b : g.b[i] = h.b[i]
        /\ \A u \in DOMAIN h.s : u # s => g.s[u] = h.s[u]
        /\ g.s[s].parent = p /\ g.s[s].builder = c
        /\ g.s[s].message = m /\ g.s[s].isClean = h.s[s].isClean
        /\ g.b[c].level = h.b[p].level + 1
        /\ g.b[c].x = Head(m) /\ g.b[c].field = Tail(m)
        /\ g.b[c].has <=> Tail(m) # NONE
        /\ g.b[c].fieldBuilder = 0 /\ g.b[c].parent = s /\ g.b[c].isClean
    BY <2>0 DEF AddedBuilder
  <2>3. p \in DOMAIN h.b /\ p # 0 /\ h.b[p].fieldBuilder = s /\ s # 0 /\ m # NONE
    BY <1>1, <1>4, Objects DEF Linked
  <2>4. m \in Contentful
    BY <1>1, <2>3, Objects, FieldBuilderFields DEF Contentful
  <2> HIDE DEF p, m
  <2>5. h.s[s].parent = p /\ h.s[s].message = m
    BY DEF p, m
  <2>6. Linked(g)
    <3>1. ASSUME NEW i \in DOMAIN g.b
          PROVE  /\ g.b[i].fieldBuilder # 0 =>
                      /\ g.b[i].fieldBuilder \in DOMAIN g.s
                      /\ g.s[g.b[i].fieldBuilder].parent = i
                      /\ g.b[i].level < Depth
                 /\ g.b[i].parent # 0 =>
                      g.b[i].parent \in DOMAIN g.s /\ g.s[g.b[i].parent].builder = i
      <4>1. CASE i = c
        BY <2>2, <4>1
      <4>2. CASE i # c
        <5>1. i \in DOMAIN h.b /\ g.b[i] = h.b[i]
          BY <2>2, <4>2
        <5>2. h.b[i].fieldBuilder # 0 =>
                /\ h.b[i].fieldBuilder \in DOMAIN h.s
                /\ h.s[h.b[i].fieldBuilder].parent = i
                /\ h.b[i].level < Depth
          BY <1>1, <5>1 DEF Linked
        <5>3. h.b[i].parent # 0 =>
                h.b[i].parent \in DOMAIN h.s /\ h.s[h.b[i].parent].builder = i /\ i # 0
          BY <1>1, <5>1, Objects DEF Linked
        <5> QED
          BY <1>4, <2>2, <2>5, <5>1, <5>2, <5>3
      <4> QED
        BY <4>1, <4>2
    <3>2. ASSUME NEW u \in DOMAIN g.s
          PROVE  /\ g.s[u].parent \in DOMAIN g.b /\ g.b[g.s[u].parent].fieldBuilder = u
                 /\ g.s[u].builder # 0 =>
                      /\ g.s[u].builder \in DOMAIN g.b /\ g.b[g.s[u].builder].parent = u
                      /\ g.b[g.s[u].builder].level = g.b[g.s[u].parent].level + 1
                 /\ g.s[u].builder # 0 \/ g.s[u].message # NONE
      <4>1. CASE u = s
        BY <2>2, <2>3, <4>1
      <4>2. CASE u # s
        <5>1. g.s[u] = h.s[u] /\ u \in DOMAIN h.s
          BY <2>2, <4>2
        <5>2. h.s[u].parent \in DOMAIN h.b /\ h.b[h.s[u].parent].fieldBuilder = u
          BY <1>1, <5>1 DEF Linked
        <5>3. h.s[u].builder # 0 =>
                /\ h.s[u].builder \in DOMAIN h.b /\ h.b[h.s[u].builder].parent = u
                /\ h.b[h.s[u].builder].level = h.b[h.s[u].parent].level + 1
          BY <1>1, <5>1 DEF Linked
        <5>4. h.s[u].builder # 0 \/ h.s[u].message # NONE
          BY <1>1, <5>1 DEF Linked
        <5> QED
          BY <2>2, <5>1, <5>2, <5>3, <5>4
      <4> QED
        BY <4>1, <4>2
    <3> QED
      BY <3>1, <3>2 DEF Linked
  <2>7. \A i \in DOMAIN h.b : Owes(g, i) => Owes(h, i)
    BY <2>2 DEF Owes
  <2>8. Flagged(g)
    <3>1. ASSUME NEW i \in DOMAIN g.b, Owes(g, i), g.b[i].fieldBuilder # 0
          PROVE  g.s[g.b[i].fieldBuilder].isClean
      <4>1. i \in DOMAIN h.b /\ g.b[i] = h.b[i]
        BY <2>2, <3>1
      <4>2. h.b[i].fieldBuilder \in DOMAIN h.s /\ h.s[h.b[i].fieldBuilder].isClean
        BY <1>1, <2>7, <3>1, <4>1 DEF Linked, Flagged
      <4> QED
        BY <2>2, <4>1, <4>2
    <3>2. ASSUME NEW u \in DOMAIN g.s, g.s[u].builder # 0
          PROVE  /\ g.s[u].message # NONE => g.b[g.s[u].builder].isClean
                 /\ g.s[u].isClean => g.s[u].message # NONE
      <4>1. CASE u = s
        BY <2>2, <2>3, <4>1
      <4>2. CASE u # s
        <5>1. g.s[u] = h.s[u] /\ u \in DOMAIN h.s
          BY <2>2, <4>2
        <5>2. h.s[u].builder \in DOMAIN h.b
          BY <1>1, <3>2, <5>1 DEF Linked
        <5> QED
          BY <1>1, <2>2, <3>2, <5>1, <5>2 DEF Flagged
      <4> QED
        BY <4>1, <4>2
    <3> QED
      BY <3>1, <3>2 DEF Flagged
  <2> DEFINE E == [i \in DOMAIN g.b |-> IF i = c THEN m ELSE C[i]]
  <2>9. CachedBut(g, {}, E)
    <3>1. E \in [DOMAIN g.b -> Contentful] /\ E[c] = m /\ \A i \in DOMAIN h.b : E[i] = C[i]
      BY <1>2, <2>2, <2>4 DEF CachedBut
    <3> HIDE DEF E
    <3>2. E[c] = ContentOf(g, E, c)
      <4>1. <<Head(m)>> \o Tail(m) = m
        BY <2>4, TopAndRest
      <4> QED
        BY <2>2, <3>1, <4>1 DEF ContentOf
    <3>3. ASSUME NEW i \in DOMAIN h.b PROVE E[i] = ContentOf(g, E, i)
      <4>1. E[i] = ContentOf(h, C, i) /\ g.b[i] = h.b[i]
        BY <1>2, <2>2, <3>1 DEF CachedBut
      <4>2. CASE h.b[i].fieldBuilder = 0
        BY <4>1, <4>2 DEF ContentOf
      <4>3. CASE h.b[i].fieldBuilder = s
        <5>1. ContentOf(h, C, i) =
                <<h.b[i].x>> \o IF FieldPresence /\ ~ h.b[i].has THEN NONE ELSE m
          BY <1>4, <2>3, <2>5, <4>3 DEF ContentOf
        <5>2. ContentOf(g, E, i) =
                <<h.b[i].x>> \o IF FieldPresence /\ ~ h.b[i].has THEN NONE ELSE E[c]
          BY <2>2, <2>3, <4>1, <4>3 DEF ContentOf
        <5> QED
          BY <3>1, <4>1, <5>1, <5>2
      <4>4. CASE h.b[i].fieldBuilder # 0 /\ h.b[i].fieldBuilder # s
        <5> DEFINE t == h.b[i].fieldBuilder
        <5>1. t \in DOMAIN h.s /\ g.s[t] = h.s[t]
          BY <1>1, <2>2, <4>4 DEF Linked
        <5>2. h.s[t].builder # 0 => E[h.s[t].builder] = C[h.s[t].builder]
          BY <1>1, <3>1, <5>1 DEF Linked
        <5> QED
          BY <4>1, <4>4, <5>1, <5>2 DEF ContentOf
      <4> QED
        BY <4>2, <4>3, <4>4
    <3>4. ASSUME NEW u \in DOMAIN g.s, g.s[u].builder # 0, g.s[u].message # NONE
          PROVE  g.s[u].message = E[g.s[u].builder]
      <4>1. CASE u = s
        BY <2>2, <3>1, <4>1
      <4>2. CASE u # s
        <5>1. g.s[u] = h.s[u] /\ u \in DOMAIN h.s
          BY <2>2, <4>2
        <5>2. h.s[u].builder \in DOMAIN h.b /\ h.s[u].message = C[h.s[u].builder]
          BY <1>1, <1>2, <3>4, <5>1 DEF Linked, CachedBut
        <5> QED
          BY <3>1, <5>1, <5>2
      <4> QED
        BY <4>1, <4>2
    <3> QED
      BY <2>2, <3>1, <3>2, <3>3, <3>4 DEF CachedBut
  <2>10. Grown(h, g)
    BY <2>2, <2>5, <2>7 DEF Grown
  <2> QED
    BY <2>2, <2>6, <2>8, <2>9, <2>10 DEF HeapOK, Almost, g
<1> QED
  BY <1>3, <1>4
-----------------------------------------------------------------------------
(* buildPartial and getMessage. *)

(* The content is what buildPartial returns.                                 *)
LEMMA BuiltIsContent ==
  ASSUME NEW h, h \in Heaps, Linked(h), NEW C, CachedBut(h, {}, C), NEW i \in DOMAIN h.b
  PROVE  BuiltMessages(h)[i] = C[i]
<1> DEFINE D == DOMAIN h.b
           Of(f, j) ==
             <<h.b[j].x>> \o
               IF FieldPresence /\ ~ h.b[j].has THEN NONE
               ELSE IF h.b[j].fieldBuilder = 0 THEN h.b[j].field
               ELSE IF h.s[h.b[j].fieldBuilder].message # NONE THEN h.s[h.b[j].fieldBuilder].message
               ELSE f[h.s[h.b[j].fieldBuilder].builder]
           Built(f) == f = [j \in D |-> Of(f, j)]
<1>1. \A j \in D : h.b[j].fieldBuilder # 0 =>
        /\ h.b[j].fieldBuilder \in DOMAIN h.s /\ h.s[h.b[j].fieldBuilder].parent = j
        /\ h.s[h.b[j].fieldBuilder].message = NONE => h.s[h.b[j].fieldBuilder].builder # 0
  BY DEF Linked
<1>2. ASSUME NEW j \in D PROVE C[j] = Of(C, j)
  <2> DEFINE s == h.b[j].fieldBuilder
  <2>1. C[j] = ContentOf(h, C, j)
    BY <1>2 DEF CachedBut
  <2>2. CASE s = 0
    BY <2>1, <2>2 DEF ContentOf
  <2>3. CASE s # 0 /\ h.s[s].builder = 0
    BY <1>1, <2>1, <2>3 DEF ContentOf
  <2>4. CASE s # 0 /\ h.s[s].builder # 0 /\ h.s[s].message = NONE
    BY <2>1, <2>4 DEF ContentOf
  <2>5. CASE s # 0 /\ h.s[s].builder # 0 /\ h.s[s].message # NONE
    <3>1. h.s[s].message = C[h.s[s].builder]
      BY <1>1, <2>5 DEF CachedBut
    <3> QED
      BY <2>1, <2>5, <3>1 DEF ContentOf
  <2> QED
    BY <2>2, <2>3, <2>4, <2>5
<1>3. Built(C)
  <2>1. C = [j \in D |-> C[j]]
    BY DEF CachedBut
  <2>2. \A j \in D : C[j] = Of(C, j)
    BY <1>2
  <2> HIDE DEF Of, D
  <2> QED
    BY <2>1, <2>2
<1> DEFINE G == CHOOSE f : Built(f)
<1>4. BuiltMessages(h) = G
  BY DEF BuiltMessages
<1>5. Built(G)
  <2> HIDE DEF Built
  <2> QED
    BY <1>3
<1> HIDE DEF G
<1>6. \A j \in D : G[j] = Of(G, j)
  <2> HIDE DEF Of, D
  <2> QED
    BY <1>5
<1> DEFINE Same == {j \in D : G[j] = C[j]}
<1>7. ASSUME NEW j \in D, \A k \in D : h.b[k].level > h.b[j].level => k \in Same
      PROVE  j \in Same
  <2> DEFINE s == h.b[j].fieldBuilder
  <2>1. ASSUME s # 0, h.s[s].message = NONE
        PROVE  G[h.s[s].builder] = C[h.s[s].builder]
    <3> DEFINE c == h.s[s].builder
    <3>1. /\ s \in DOMAIN h.s /\ h.s[s].parent = j /\ c # 0 /\ c \in D
          /\ h.b[c].level = h.b[j].level + 1
      BY <1>1, <2>1 DEF Linked
    <3>2. h.b[j].level \in Nat
      BY Objects, BuilderFields
    <3>3. h.b[c].level > h.b[j].level
      BY <3>1, <3>2
    <3> QED
      BY <1>7, <3>1, <3>3
  <2>2. Of(G, j) = Of(C, j)
    BY <2>1
  <2> QED
    BY <1>2, <1>6, <2>2
<1>8. D \subseteq Same
  <2> HIDE DEF Same
  <2> QED
    BY <1>7, ByLevel
<1> QED
  BY <1>4, <1>8

(* A content that agrees with the heap is the content: levels are finite.    *)
LEMMA ContentsIs ==
  ASSUME NEW h, h \in Heaps, Linked(h), NEW C, CachedBut(h, {}, C), NEW i \in DOMAIN h.b
  PROVE  Contents(h)[i] = C[i]
<1> DEFINE D == DOMAIN h.b
           Solves(f) == f = [j \in D |-> ContentOf(h, f, j)]
           G == CHOOSE f : Solves(f)
<1>1. \A j \in D : C[j] = ContentOf(h, C, j)
  BY DEF CachedBut
<1>2. Solves(C)
  <2>1. C = [j \in D |-> C[j]]
    BY DEF CachedBut
  <2> QED
    BY <1>1, <2>1
<1>3. Contents(h) = G
  BY DEF Contents, ContentOf
<1>4. Solves(G)
  <2> HIDE DEF Solves
  <2> QED
    BY <1>2
<1> HIDE DEF G
<1>5. \A j \in D : G[j] = ContentOf(h, G, j)
  BY <1>4
<1> DEFINE Same == {j \in D : G[j] = C[j]}
<1>6. ASSUME NEW j \in D, \A k \in D : h.b[k].level > h.b[j].level => k \in Same
      PROVE  j \in Same
  <2>1. ContentOf(h, G, j) = ContentOf(h, C, j)
    BY <1>6, ContentOfSame
  <2> QED
    BY <1>1, <1>5, <2>1
<1>7. D \subseteq Same
  <2> HIDE DEF Same
  <2> QED
    BY <1>6, ByLevel
<1> QED
  BY <1>3, <1>7

(* A field builder that has built has a message and is clean.                *)
LEMMA FieldBuiltFields ==
  ASSUME NEW f \in FieldBuilderObjects, NEW m \in Seq(Scalars)
  PROVE  /\ FieldBuilt(f, m) \in FieldBuilderObjects
         /\ FieldBuilt(f, m).parent = f.parent /\ FieldBuilt(f, m).builder = f.builder
         /\ FieldBuilt(f, m).message = IF f.message = NONE THEN m ELSE f.message
         /\ FieldBuilt(f, m).isClean
<1>1. TRUE \in BOOLEAN
  OBVIOUS
<1> QED
  BY <1>1 DEF FieldBuilderObjects, FieldBuilt

(* g is h after some builders built: their content is the same, and what      *)
(* field builders remember is it.                                            *)
Remembers(h, g, C) ==
  /\ DOMAIN g.b = DOMAIN h.b /\ DOMAIN g.s = DOMAIN h.s
  /\ \A i \in DOMAIN h.b :
       /\ g.b[i].level = h.b[i].level /\ g.b[i].x = h.b[i].x /\ g.b[i].has = h.b[i].has
       /\ g.b[i].field = h.b[i].field /\ g.b[i].fieldBuilder = h.b[i].fieldBuilder
       /\ g.b[i].parent = h.b[i].parent
  /\ \A s \in DOMAIN h.s :
       /\ g.s[s].parent = h.s[s].parent /\ g.s[s].builder = h.s[s].builder
       /\ \/ g.s[s].message = h.s[s].message
          \/ h.s[s].builder # 0 /\ g.s[s].message = C[h.s[s].builder]

(* New caches that hold the contents are right.                              *)
LEMMA RemembersOK ==
  ASSUME NEW h, h \in Heaps, Linked(h), NEW C, CachedBut(h, {}, C),
         NEW g, g \in Heaps, Flagged(g), Remembers(h, g, C)
  PROVE  Linked(g) /\ CachedBut(g, {}, C) /\ HeapOK(g)
<1>1. Linked(g)
  <2>1. ASSUME NEW i \in DOMAIN g.b
        PROVE  /\ g.b[i].fieldBuilder # 0 =>
                    /\ g.b[i].fieldBuilder \in DOMAIN g.s
                    /\ g.s[g.b[i].fieldBuilder].parent = i
                    /\ g.b[i].level < Depth
               /\ g.b[i].parent # 0 =>
                    g.b[i].parent \in DOMAIN g.s /\ g.s[g.b[i].parent].builder = i
    <3>1. h.b[i].fieldBuilder # 0 =>
            /\ h.b[i].fieldBuilder \in DOMAIN h.s
            /\ h.s[h.b[i].fieldBuilder].parent = i
            /\ h.b[i].level < Depth
      BY DEF Linked, Remembers
    <3>2. h.b[i].parent # 0 => h.b[i].parent \in DOMAIN h.s /\ h.s[h.b[i].parent].builder = i
      BY DEF Linked, Remembers
    <3> QED
      BY <3>1, <3>2 DEF Remembers
  <2>2. ASSUME NEW s \in DOMAIN g.s
        PROVE  /\ g.s[s].parent \in DOMAIN g.b /\ g.b[g.s[s].parent].fieldBuilder = s
               /\ g.s[s].builder # 0 =>
                    /\ g.s[s].builder \in DOMAIN g.b /\ g.b[g.s[s].builder].parent = s
                    /\ g.b[g.s[s].builder].level = g.b[g.s[s].parent].level + 1
               /\ g.s[s].builder # 0 \/ g.s[s].message # NONE
    <3>1. /\ s \in DOMAIN h.s
          /\ g.s[s].parent = h.s[s].parent /\ g.s[s].builder = h.s[s].builder
          /\ h.s[s].builder = 0 => g.s[s].message = h.s[s].message
      BY DEF Remembers
    <3>2. h.s[s].parent \in DOMAIN h.b /\ h.b[h.s[s].parent].fieldBuilder = s
      BY <3>1 DEF Linked
    <3>3. h.s[s].builder # 0 =>
            /\ h.s[s].builder \in DOMAIN h.b /\ h.b[h.s[s].builder].parent = s
            /\ h.b[h.s[s].builder].level = h.b[h.s[s].parent].level + 1
      BY <3>1 DEF Linked
    <3>4. h.s[s].builder # 0 \/ h.s[s].message # NONE
      BY <3>1 DEF Linked
    <3> QED
      BY <3>1, <3>2, <3>3, <3>4 DEF Remembers
  <2> QED
    BY <2>1, <2>2 DEF Linked
<1>2. \A i \in DOMAIN h.b : ContentOf(g, C, i) = ContentOf(h, C, i)
  <2> SUFFICES ASSUME NEW i \in DOMAIN h.b
               PROVE  ContentOf(g, C, i) = ContentOf(h, C, i)
    OBVIOUS
  <2>1. h.b[i].fieldBuilder # 0 => h.b[i].fieldBuilder \in DOMAIN h.s
    BY DEF Linked
  <2>2. /\ g.b[i].x = h.b[i].x /\ g.b[i].has = h.b[i].has /\ g.b[i].field = h.b[i].field
        /\ g.b[i].fieldBuilder = h.b[i].fieldBuilder
    BY DEF Remembers
  <2>3. h.b[i].fieldBuilder # 0 =>
          /\ g.s[h.b[i].fieldBuilder].builder = h.s[h.b[i].fieldBuilder].builder
          /\ h.s[h.b[i].fieldBuilder].builder = 0 =>
               g.s[h.b[i].fieldBuilder].message = h.s[h.b[i].fieldBuilder].message
    BY <2>1 DEF Remembers
  <2> QED
    BY <2>2, <2>3 DEF ContentOf
<1>3. CachedBut(g, {}, C)
  <2>1. ASSUME NEW s \in DOMAIN g.s, g.s[s].builder # 0, g.s[s].message # NONE
        PROVE  g.s[s].message = C[g.s[s].builder]
    BY <2>1 DEF CachedBut, Remembers
  <2>2. C \in [DOMAIN g.b -> Contentful]
    BY DEF CachedBut, Remembers
  <2>3. \A i \in DOMAIN g.b : C[i] = ContentOf(g, C, i)
    BY <1>2 DEF CachedBut, Remembers
  <2> QED
    BY <2>1, <2>2, <2>3 DEF CachedBut
<1> QED
  BY <1>1, <1>3 DEF HeapOK, Almost

(* buildPartial returns the content of the Builder, and caches the contents  *)
(* of those below, which owe invalidations from then on.                     *)
LEMMA BuildPartialOK ==
  ASSUME NEW h, HeapOK(h), NEW C, CachedBut(h, {}, C), NEW b \in DOMAIN h.b,
         NEW g, g = BuildPartial(h, b).heap
  PROVE  /\ Remembers(h, g, C) /\ g \in Heaps /\ Flagged(g)
         /\ h.b[b].parent # 0 => g.b[b].isClean
         /\ BuildPartial(h, b).message = C[b]
<1>1. h \in Heaps /\ Linked(h) /\ Flagged(h)
  BY DEF HeapOK, Almost
<1> DEFINE T == Building(h, b)
           G == BuiltMessages(h)
           B == [i \in DOMAIN h.b |->
                   IF i \in T /\ h.b[i].parent # 0 THEN [h.b[i] EXCEPT !.isClean = TRUE] ELSE h.b[i]]
           F == [s \in DOMAIN h.s |->
                   IF \E i \in T : h.b[i].fieldBuilder = s
                     THEN FieldBuilt(h.s[s], G[h.s[s].builder]) ELSE h.s[s]]
           U == {s \in DOMAIN h.s : \E i \in T : h.b[i].fieldBuilder = s}
<1>2. g = [b |-> B, s |-> F] /\ BuildPartial(h, b).message = G[b]
  BY DEF BuildPartial
<1>3. g.b = B /\ g.s = F
  BY <1>2
<1>4. \A i \in DOMAIN h.b : G[i] = C[i]
  BY <1>1, BuiltIsContent
<1>5. /\ b \in T /\ T \subseteq DOMAIN h.b
      /\ \A i \in T : h.b[i].fieldBuilder # 0 /\ h.s[h.b[i].fieldBuilder].message = NONE =>
           h.s[h.b[i].fieldBuilder].builder \in T
  <2> DEFINE next == [i \in DOMAIN h.b |->
                        LET s == h.b[i].fieldBuilder IN
                        IF s # 0 /\ h.s[s].message = NONE THEN h.s[s].builder ELSE 0]
  <2>1. T = Reached(b, next) /\ DOMAIN next = DOMAIN h.b
    BY DEF Building
  <2>2. \A i \in DOMAIN h.b : h.b[i].fieldBuilder # 0 /\ h.s[h.b[i].fieldBuilder].message = NONE =>
          /\ next[i] = h.s[h.b[i].fieldBuilder].builder
          /\ next[i] # 0 /\ next[i] \in DOMAIN h.b
    BY <1>1 DEF Linked
  <2> HIDE DEF next
  <2>3. /\ b \in Reached(b, next) /\ Reached(b, next) \subseteq DOMAIN next
        /\ \A i \in Reached(b, next) :
             next[i] # 0 /\ next[i] \in DOMAIN next => next[i] \in Reached(b, next)
    BY <2>1, ReachedClosed
  <2> HIDE DEF T
  <2> QED
    BY <2>1, <2>2, <2>3
<1> HIDE DEF T, G
<1>6. \A i \in DOMAIN h.b :
        /\ B[i] \in BuilderObjects
        /\ B[i].level = h.b[i].level /\ B[i].x = h.b[i].x /\ B[i].has = h.b[i].has
        /\ B[i].field = h.b[i].field /\ B[i].fieldBuilder = h.b[i].fieldBuilder
        /\ B[i].parent = h.b[i].parent
        /\ B[i].isClean <=> h.b[i].isClean \/ (i \in T /\ h.b[i].parent # 0)
  <2> SUFFICES ASSUME NEW i \in DOMAIN h.b
               PROVE  /\ B[i] \in BuilderObjects
                      /\ B[i].level = h.b[i].level /\ B[i].x = h.b[i].x /\ B[i].has = h.b[i].has
                      /\ B[i].field = h.b[i].field /\ B[i].fieldBuilder = h.b[i].fieldBuilder
                      /\ B[i].parent = h.b[i].parent
                      /\ B[i].isClean <=> h.b[i].isClean \/ (i \in T /\ h.b[i].parent # 0)
    OBVIOUS
  <2>0. h.b[i] \in BuilderObjects
    BY <1>1, Objects
  <2>1. CASE i \in T /\ h.b[i].parent # 0
    <3>1. B[i] = [h.b[i] EXCEPT !.isClean = TRUE]
      BY <2>1
    <3> HIDE DEF B
    <3> QED
      BY <2>0, <2>1, <3>1 DEF BuilderObjects
  <2>2. CASE ~ (i \in T /\ h.b[i].parent # 0)
    <3>1. B[i] = h.b[i]
      BY <2>2
    <3> HIDE DEF B
    <3> QED
      BY <2>0, <2>2, <3>1
  <2> QED
    BY <2>1, <2>2
<1>7. \A s \in DOMAIN h.s :
        /\ F[s] \in FieldBuilderObjects
        /\ F[s].parent = h.s[s].parent /\ F[s].builder = h.s[s].builder
        /\ F[s].isClean <=> h.s[s].isClean \/ s \in U
        /\ h.s[s].message # NONE \/ s \notin U => F[s].message = h.s[s].message
        /\ h.s[s].message = NONE /\ s \in U =>
             /\ h.s[s].builder # 0 /\ F[s].message = C[h.s[s].builder]
             /\ F[s].message # NONE
  <2> SUFFICES ASSUME NEW s \in DOMAIN h.s
               PROVE  /\ F[s] \in FieldBuilderObjects
                      /\ F[s].parent = h.s[s].parent /\ F[s].builder = h.s[s].builder
                      /\ F[s].isClean <=> h.s[s].isClean \/ s \in U
                      /\ h.s[s].message # NONE \/ s \notin U => F[s].message = h.s[s].message
                      /\ h.s[s].message = NONE /\ s \in U =>
                           /\ h.s[s].builder # 0 /\ F[s].message = C[h.s[s].builder]
                           /\ F[s].message # NONE
    OBVIOUS
  <2>1. h.s[s] \in FieldBuilderObjects
    BY <1>1, Objects
  <2>2. CASE s \notin U
    <3>1. F[s] = h.s[s]
      BY <2>2
    <3> HIDE DEF F
    <3> QED
      BY <2>1, <2>2, <3>1
  <2>3. CASE s \in U /\ h.s[s].message # NONE
    <3> DEFINE m == G[h.s[s].builder]
    <3>1. F[s] = FieldBuilt(h.s[s], m)
      BY <2>3
    <3>2. F[s] = FieldBuilt(h.s[s], NONE)
      BY <2>3, <3>1 DEF FieldBuilt
    <3>3. NONE \in Seq(Scalars)
      BY DEF NONE
    <3> HIDE DEF F
    <3> QED
      BY <2>1, <2>3, <3>2, <3>3, FieldBuiltFields
  <2>4. CASE s \in U /\ h.s[s].message = NONE
    <3> DEFINE m == G[h.s[s].builder]
    <3>1. h.s[s].builder # 0 /\ h.s[s].builder \in DOMAIN h.b
      BY <1>1, <2>4 DEF Linked
    <3>2. m = C[h.s[s].builder] /\ m \in Seq(Scalars) /\ m # NONE
      BY <1>4, <3>1 DEF CachedBut, Contentful
    <3>3. F[s] = FieldBuilt(h.s[s], m)
      BY <2>4
    <3> HIDE DEF F, m
    <3> QED
      BY <2>1, <2>4, <3>1, <3>2, <3>3, FieldBuiltFields
  <2> QED
    BY <2>2, <2>3, <2>4
<1>8. DOMAIN B = DOMAIN h.b /\ DOMAIN F = DOMAIN h.s
  OBVIOUS
<1>9. g \in Heaps
  <2>1. B \in [1..Len(h.b) -> BuilderObjects] /\ F \in [1..Len(h.s) -> FieldBuilderObjects]
    <3>1. B \in [DOMAIN h.b -> BuilderObjects] /\ F \in [DOMAIN h.s -> FieldBuilderObjects]
      BY <1>6, <1>7
    <3> HIDE DEF B, F
    <3> QED
      BY <1>1, <3>1, Objects
  <2> HIDE DEF B, F
  <2>2. B \in Seq(BuilderObjects) /\ F \in Seq(FieldBuilderObjects)
    BY <1>1, <2>1, Objects, SequenceOf
  <2> QED
    BY <1>2, <2>2 DEF Heaps
<1>10. \A i \in T : h.b[i].fieldBuilder # 0 => h.b[i].fieldBuilder \in U
  BY <1>1, <1>5 DEF Linked
<1>11. \A s \in U : h.s[s].parent \in T
  <2> SUFFICES ASSUME NEW s \in U PROVE h.s[s].parent \in T
    OBVIOUS
  <2>1. PICK i \in T : h.b[i].fieldBuilder = s
    OBVIOUS
  <2>2. s # 0 /\ i \in DOMAIN h.b
    BY <1>1, <1>5, Objects
  <2>3. h.s[s].parent = i
    BY <1>1, <2>1, <2>2 DEF Linked
  <2> QED
    BY <2>3
<1> HIDE DEF B, F, U
<1>12. Remembers(h, g, C)
  BY <1>3, <1>6, <1>7, <1>8 DEF Remembers
<1>13. \A i \in DOMAIN h.b : Owes(g, i) <=> Owes(h, i) \/ (i \in T /\ h.b[i].parent # 0)
  BY <1>3, <1>6 DEF Owes
<1>14. Flagged(g)
  <2>1. ASSUME NEW i \in DOMAIN g.b, Owes(g, i), g.b[i].fieldBuilder # 0
        PROVE  g.s[g.b[i].fieldBuilder].isClean
    <3> DEFINE s == h.b[i].fieldBuilder
    <3>1. i \in DOMAIN h.b /\ g.b[i].fieldBuilder = s /\ s # 0 /\ s \in DOMAIN h.s
      BY <1>1, <1>3, <1>6, <1>8, <2>1 DEF Linked
    <3>2. h.s[s].isClean \/ s \in U
      BY <1>1, <1>10, <1>13, <2>1, <3>1 DEF Flagged
    <3> QED
      BY <1>3, <1>7, <3>1, <3>2
  <2>2. ASSUME NEW s \in DOMAIN g.s, g.s[s].builder # 0, g.s[s].message # NONE
        PROVE  g.b[g.s[s].builder].isClean
    <3> DEFINE c == h.s[s].builder
    <3>1. s \in DOMAIN h.s /\ c # 0 /\ g.s[s].builder = c /\ s # 0
      BY <1>1, <1>3, <1>7, <1>8, <2>2, Objects
    <3>2. c \in DOMAIN h.b /\ h.b[c].parent = s
      BY <1>1, <3>1 DEF Linked
    <3>3. CASE h.s[s].message # NONE
      BY <1>1, <1>3, <1>6, <3>1, <3>2, <3>3 DEF Flagged
    <3>4. CASE h.s[s].message = NONE
      <4>1. s \in U
        BY <1>3, <1>7, <2>2, <3>1, <3>4
      <4>2. h.s[s].parent \in T /\ h.b[h.s[s].parent].fieldBuilder = s
        BY <1>1, <1>11, <3>1, <4>1 DEF Linked
      <4>3. c \in T
        BY <1>5, <3>1, <3>4, <4>2
      <4> QED
        BY <1>3, <1>6, <3>1, <3>2, <4>3
    <3> QED
      BY <3>3, <3>4
  <2>3. ASSUME NEW s \in DOMAIN g.s, g.s[s].builder # 0, g.s[s].isClean
        PROVE  g.s[s].message # NONE
    <3>1. s \in DOMAIN h.s /\ h.s[s].builder # 0 /\ (h.s[s].isClean \/ s \in U)
      BY <1>3, <1>7, <1>8, <2>3
    <3>2. h.s[s].isClean => h.s[s].message # NONE
      BY <1>1, <3>1 DEF Flagged
    <3> QED
      BY <1>3, <1>7, <3>1, <3>2
  <2> QED
    BY <2>1, <2>2, <2>3 DEF Flagged
<1>15. h.b[b].parent # 0 => g.b[b].isClean
  BY <1>3, <1>5, <1>6
<1> QED
  BY <1>2, <1>4, <1>9, <1>12, <1>14, <1>15

(* getMessage returns the content of the builder, if there is one, and       *)
(* caches it.                                                                *)
LEMMA GetMessageOK ==
  ASSUME NEW h, HeapOK(h), NEW C, CachedBut(h, {}, C), NEW s \in DOMAIN h.s,
         NEW g, g = GetMessage(h, s).heap
  PROVE  /\ HeapOK(g) /\ Remembers(h, g, C)
         /\ GetMessage(h, s).message =
              IF h.s[s].builder # 0 THEN C[h.s[s].builder] ELSE h.s[s].message
<1>1. h \in Heaps /\ Linked(h) /\ Flagged(h)
  BY DEF HeapOK, Almost
<1>2. CASE h.s[s].message # NONE
  <2>1. g = h /\ GetMessage(h, s).message = h.s[s].message
    BY <1>2 DEF GetMessage
  <2>2. Remembers(h, h, C)
    BY DEF Remembers
  <2>3. h.s[s].builder # 0 => h.s[s].message = C[h.s[s].builder]
    BY <1>2 DEF CachedBut
  <2> QED
    BY <2>1, <2>2, <2>3
<1>3. CASE h.s[s].message = NONE
  <2> DEFINE c == h.s[s].builder
             k == BuildPartial(h, c).heap
             m == BuildPartial(h, c).message
  <2>1. CachedBut(h, {}, C)
    OBVIOUS
  <2>2. c # 0 /\ c \in DOMAIN h.b /\ h.b[c].parent = s /\ s # 0
    <3>1. c # 0
      BY <1>1, <1>3 DEF Linked
    <3>2. c \in DOMAIN h.b /\ h.b[c].parent = s
      BY <1>1, <3>1 DEF Linked
    <3> QED
      BY <1>1, <3>1, <3>2, Objects
  <2> HIDE DEF c
  <2>3. /\ Remembers(h, k, C) /\ k \in Heaps /\ Flagged(k)
        /\ k.b[c].isClean /\ m = C[c]
    <3> HIDE DEF k
    <3>1. k = BuildPartial(h, c).heap
      BY DEF k
    <3> QED
      BY <2>1, <2>2, <3>1, BuildPartialOK
  <2>4. g = [k EXCEPT !.s[s].message = m] /\ GetMessage(h, s).message = m
    BY <1>3 DEF GetMessage, c
  <2> HIDE DEF k, m
  <2> DEFINE F == [k.s EXCEPT ![s] = [k.s[s] EXCEPT !.message = m]]
  <2>5. s \in DOMAIN k.s /\ DOMAIN k.s = DOMAIN h.s /\ k.s[s] \in FieldBuilderObjects
    BY <2>3, Objects DEF Remembers
  <2>6. m \in Seq(Scalars)
    BY <2>1, <2>2, <2>3 DEF CachedBut, Contentful
  <2>7. [k EXCEPT !.s[s].message = m] = [k EXCEPT !.s = F]
    OBVIOUS
  <2>8. k \in Heaps
    BY <2>3
  <2> DEFINE f == [k.s[s] EXCEPT !.message = m]
  <2>9. /\ f \in FieldBuilderObjects /\ f.parent = k.s[s].parent /\ f.builder = k.s[s].builder
        /\ f.isClean = k.s[s].isClean /\ f.message = m
    BY <2>5, <2>6 DEF FieldBuilderObjects
  <2>10. F = [k.s EXCEPT ![s] = f]
    OBVIOUS
  <2> HIDE DEF F, f
  <2>11. g.b = k.b /\ g.s = F /\ g = [b |-> g.b, s |-> g.s]
    <3>1. [k EXCEPT !.s = F] = [b |-> k.b, s |-> F]
      BY <2>8, HeapWith
    <3>2. g = [b |-> k.b, s |-> F]
      BY <2>4, <2>7, <3>1
    <3> QED
      BY <3>2
  <2>12. k.b \in Seq(BuilderObjects) /\ k.s \in Seq(FieldBuilderObjects)
    BY <2>8, Objects
  <2>13. /\ F \in Seq(FieldBuilderObjects) /\ DOMAIN F = DOMAIN k.s /\ F[s] = f
         /\ \A u \in DOMAIN k.s : u # s => F[u] = k.s[u]
    BY <2>5, <2>9, <2>10, <2>12, ExceptSeq
  <2>14. g \in Heaps
    BY <2>11, <2>12, <2>13 DEF Heaps
  <2>15. Remembers(h, g, C)
    <3>1. ASSUME NEW u \in DOMAIN h.s
          PROVE  /\ g.s[u].parent = h.s[u].parent /\ g.s[u].builder = h.s[u].builder
                 /\ \/ g.s[u].message = h.s[u].message
                    \/ h.s[u].builder # 0 /\ g.s[u].message = C[h.s[u].builder]
      <4>1. CASE u = s
        BY <2>2, <2>3, <2>9, <2>11, <2>13, <4>1 DEF Remembers, c
      <4>2. CASE u # s
        BY <2>3, <2>5, <2>11, <2>13, <4>2 DEF Remembers
      <4> QED
        BY <4>1, <4>2
    <3> QED
      BY <2>3, <2>11, <2>13, <3>1 DEF Remembers
  <2>16. Flagged(g)
    <3>1. \A u \in DOMAIN k.s : g.s[u].isClean = k.s[u].isClean /\ g.s[u].builder = k.s[u].builder
      BY <2>9, <2>11, <2>13
    <3>2. ASSUME NEW i \in DOMAIN g.b, Owes(g, i), g.b[i].fieldBuilder # 0
          PROVE  g.s[g.b[i].fieldBuilder].isClean
      <4>1. i \in DOMAIN h.b /\ k.b[i].fieldBuilder = h.b[i].fieldBuilder
        BY <2>3, <2>11, <3>2 DEF Remembers
      <4>2. h.b[i].fieldBuilder \in DOMAIN k.s
        BY <1>1, <2>5, <2>11, <3>2, <4>1 DEF Linked
      <4>3. Owes(k, i)
        BY <2>11, <3>2 DEF Owes
      <4> QED
        BY <2>3, <2>11, <3>1, <3>2, <4>1, <4>2, <4>3 DEF Flagged
    <3>3. ASSUME NEW u \in DOMAIN g.s, g.s[u].builder # 0, g.s[u].message # NONE
          PROVE  g.b[g.s[u].builder].isClean
      <4>1. CASE u = s
        <5>1. g.s[u].builder = c
          BY <2>3, <2>13, <2>11, <2>9, <4>1 DEF Remembers, c
        <5> QED
          BY <2>3, <2>11, <5>1
      <4>2. CASE u # s
        BY <2>3, <2>11, <2>13, <3>3, <4>2 DEF Flagged
      <4> QED
        BY <4>1, <4>2
    <3>4. ASSUME NEW u \in DOMAIN g.s, g.s[u].builder # 0, g.s[u].isClean
          PROVE  g.s[u].message # NONE
      <4>1. CASE u = s
        <5>1. C[c] # NONE
          BY <2>1, <2>2 DEF CachedBut, Contentful
        <5> QED
          BY <2>3, <2>9, <2>11, <2>13, <4>1, <5>1
      <4>2. CASE u # s
        BY <2>3, <2>11, <2>13, <3>4, <4>2 DEF Flagged
      <4> QED
        BY <4>1, <4>2
    <3> QED
      BY <3>2, <3>3, <3>4 DEF Flagged
  <2>17. HeapOK(g)
    BY <1>1, <2>1, <2>14, <2>15, <2>16, RemembersOK
  <2>18. GetMessage(h, s).message = C[h.s[s].builder] /\ h.s[s].builder # 0
    BY <2>2, <2>3, <2>4 DEF c
  <2> QED
    BY <2>15, <2>17, <2>18
<1> QED
  BY <1>2, <1>3
-----------------------------------------------------------------------------
(* mergeField. *)

(* What is merged is a message, or none if both are.                         *)
LEMMA MergeType ==
  ASSUME NEW n \in Seq(Scalars), NEW m \in Seq(Scalars)
  PROVE  Merge(n, m) \in Seq(Scalars)
<1> DEFINE k == IF Len(n) > Len(m) THEN Len(n) ELSE Len(m)
           At(i) == IF i <= Len(m) /\ m[i] # 0 THEN m[i] ELSE IF i <= Len(n) THEN n[i] ELSE 0
<1>1. k \in Nat /\ Len(n) \in Nat /\ Len(m) \in Nat
  BY LenProperties
<1>2. ASSUME NEW i \in 1..k PROVE At(i) \in Scalars
  <2>1. i \in Nat /\ i >= 1
    BY <1>1
  <2>2. i <= Len(m) => m[i] \in Scalars
    BY <1>1, <2>1, ElementOfSeq
  <2>3. i <= Len(n) => n[i] \in Scalars
    BY <1>1, <2>1, ElementOfSeq
  <2> QED
    BY <2>2, <2>3, Scalar
<1>3. Merge(n, m) = [i \in 1..k |-> At(i)]
  BY DEF Merge
<1> HIDE DEF k, At
<1>4. [i \in 1..k |-> At(i)] \in [1..k -> Scalars]
  BY <1>2
<1> QED
  BY <1>1, <1>3, <1>4, SequenceOf

(* mergeField without a field builder keeps the caches right.                *)
LEMMA MergeOwnOK ==
  ASSUME NEW h, HeapOK(h), NEW b \in DOMAIN h.b, NEW m \in Seq(Scalars),
         NEW g, g = MergeOwn(h, b, m)
  PROVE  HeapOK(g) /\ Grown(h, g) /\ ~ Owes(g, b)
<1> DEFINE v == Merge(h.b[b].field, m)
           k == OnChanged([h EXCEPT !.b[b].field = v], b)
<1>1. h.b[b].field \in Seq(Scalars)
  BY Objects, BuilderFields DEF HeapOK, Almost
<1>2. v \in Seq(Scalars)
  BY <1>1, MergeType
<1>3. [h EXCEPT !.b[b].field = Merge(@, m)] = [h EXCEPT !.b[b].field = v]
  OBVIOUS
<1>4. g = [k EXCEPT !.b[b].has = TRUE]
  BY <1>3 DEF MergeOwn
<1>5. k = OnChanged([h EXCEPT !.b[b].field = v], b)
  OBVIOUS
<1> HIDE DEF v, k
<1>6. HeapOK(k) /\ Grown(h, k) /\ ~ Owes(k, b)
  BY <1>2, <1>5, ToldField
<1>7. b \in DOMAIN k.b /\ TRUE \in BOOLEAN
  BY <1>6 DEF Grown
<1>8. HeapOK(g) /\ Grown(k, g) /\ ~ Owes(g, b)
  BY <1>4, <1>6, <1>7, UntoldHas
<1> QED
  BY <1>6, <1>8, GrownTwice

(* So does a change of the scalar.                                           *)
LEMMA SetXOK ==
  ASSUME NEW h, HeapOK(h), NEW b \in DOMAIN h.b, NEW v \in Scalars
  PROVE  HeapOK(SetX(h, b, v)) /\ Grown(h, SetX(h, b, v)) /\ ~ Owes(SetX(h, b, v), b)
  BY ToldX DEF SetX

(* Grown is reflexive.                                                       *)
LEMMA GrownSame == \A h : Grown(h, h)
  BY DEF Grown

(* So does mergeFrom, given what mergeField leaves.                          *)
LEMMA MergeFromOK ==
  ASSUME NEW h, HeapOK(h), NEW b \in DOMAIN h.b, NEW m \in Contentful,
         NEW h1, HeapOK(h1), Grown(h, h1), NEW g, g = MergeFrom(h, b, m, h1)
  PROVE  HeapOK(g) /\ Grown(h, g)
<1> DEFINE h2 == IF Len(m) > 1 THEN h1 ELSE h
           h3 == IF m[1] # 0 THEN SetX(h2, b, m[1]) ELSE h2
<1>1. g = IF m = Default THEN h ELSE OnChanged(h3, b)
  BY DEF MergeFrom
<1>2. m[1] \in Scalars
  <2>1. m \in Seq(Scalars) /\ m # << >>
    BY DEF Contentful, NONE
  <2> QED
    BY <2>1, TopAndRest DEF Contentful, NONE
<1>3. HeapOK(h2) /\ Grown(h, h2)
  BY GrownSame
<1> HIDE DEF h2
<1>4. b \in DOMAIN h2.b
  BY <1>3 DEF Grown
<1>5. HeapOK(h3) /\ Grown(h2, h3)
  BY <1>2, <1>3, <1>4, SetXOK, GrownSame
<1> HIDE DEF h3
<1>6. b \in DOMAIN h3.b
  BY <1>4, <1>5 DEF Grown
<1>7. HeapOK(OnChanged(h3, b)) /\ Grown(h3, OnChanged(h3, b))
  BY <1>5, <1>6, OnChangedOK
<1>8. Grown(h, OnChanged(h3, b))
  BY <1>3, <1>5, <1>7, GrownTwice
<1> QED
  BY <1>1, <1>7, <1>8, GrownSame

(* What a field builder does that was told of a change it has seen to.        *)
LEMMA FieldHasOK ==
  ASSUME NEW h, NEW k, NEW b \in DOMAIN h.b,
         HeapOK(k), Grown(h, k), ~ Owes(k, b), NEW v \in BOOLEAN,
         NEW g, g = [k EXCEPT !.b[b].has = v]
  PROVE  HeapOK(g) /\ Grown(h, g) /\ ~ Owes(g, b)
<1>1. b \in DOMAIN k.b
  BY DEF Grown
<1>2. HeapOK(g) /\ Grown(k, g) /\ ~ Owes(g, b)
  BY <1>1, UntoldHas
<1> QED
  BY <1>2, GrownTwice

(* So does mergeField with a field builder, given what mergeField of its     *)
(* builder leaves.                                                           *)
LEMMA MergeBelowOK ==
  ASSUME NEW h, HeapOK(h), NEW b \in DOMAIN h.b, h.b[b].fieldBuilder # 0,
         NEW m \in Contentful, NEW below, HeapOK(below), Grown(h, below),
         NEW g, g = MergeBelow(h, b, m, below)
  PROVE  HeapOK(g) /\ Grown(h, g) /\ ~ Owes(g, b)
<1> DEFINE s == h.b[b].fieldBuilder
           new == GetBuilder(h, s)
           sub == new.s[s].builder
           own == MergeOwn(new, sub, Tail(m))
           h1 == CASE h.s[s].builder # 0 -> MergeFrom(h, sub, m, below)
                   [] h.s[s].builder = 0 /\ h.s[s].message = Default -> [h EXCEPT !.s[s].message = m]
                   [] OTHER -> MergeFrom(new, sub, m, own)
           k == FieldChanged(h1, s)
<1>1. g = [k EXCEPT !.b[b].has = TRUE]
  BY DEF MergeBelow
<1>2. s \in DOMAIN h.s /\ h.s[s].parent = b
  BY DEF HeapOK, Almost, Linked
<1>3. HeapOK(new) /\ Grown(h, new) /\ sub \in DOMAIN new.b
  <2> HIDE DEF s
  <2> QED
    BY <1>2, GetBuilderOK
<1>4. HeapOK(k) /\ Grown(h, k) /\ ~ Owes(k, b)
  <2>1. CASE h.s[s].builder # 0
    <3>1. new = h /\ h1 = MergeFrom(h, sub, m, below)
      BY <2>1 DEF GetBuilder
    <3>2. k = FieldChanged(h1, s)
      OBVIOUS
    <3> HIDE DEF s, new, sub, h1, k
    <3>3. HeapOK(h1) /\ Grown(h, h1)
      BY <1>3, <3>1, MergeFromOK
    <3>4. s \in DOMAIN h1.s /\ h1.s[s].parent = b
      BY <1>2, <3>3 DEF Grown
    <3> QED
      BY <3>2, <3>3, <3>4, FieldChangedOK, GrownTwice
  <2>2. CASE h.s[s].builder = 0 /\ h.s[s].message = Default
    <3>1. k = FieldChanged([h EXCEPT !.s[s].message = m], s)
      BY <2>2
    <3> HIDE DEF s, k
    <3> QED
      BY <1>2, <2>2, <3>1, FieldMessageOK
  <2>3. CASE h.s[s].builder = 0 /\ h.s[s].message # Default
    <3>1. h1 = MergeFrom(new, sub, m, own) /\ k = FieldChanged(h1, s) /\ own = MergeOwn(new, sub, Tail(m))
      BY <2>3
    <3> HIDE DEF s, new, sub, h1, k, own
    <3>2. Tail(m) \in Seq(Scalars)
      BY TopAndRest
    <3>3. HeapOK(own) /\ Grown(new, own)
      BY <1>3, <3>1, <3>2, MergeOwnOK
    <3>4. HeapOK(h1) /\ Grown(new, h1)
      BY <1>3, <3>1, <3>3, MergeFromOK
    <3>5. Grown(h, h1)
      BY <1>3, <3>4, GrownTwice
    <3>6. s \in DOMAIN h1.s /\ h1.s[s].parent = b
      BY <1>2, <3>5 DEF Grown
    <3> QED
      BY <3>1, <3>4, <3>5, <3>6, FieldChangedOK, GrownTwice
  <2> QED
    BY <2>1, <2>2, <2>3
<1> HIDE DEF k
<1>5. TRUE \in BOOLEAN
  OBVIOUS
<1> QED
  BY <1>1, <1>4, <1>5, FieldHasOK

(* mergeField is defined level by level: f says what it leaves at each.       *)
Merged(h, m, f) ==
  f = [n \in 1..Len(m) |->
         [c \in DOMAIN h.b |->
            LET s == h.b[c].fieldBuilder
                part == SubSeq(m, n, Len(m))
            IN IF s = 0 THEN MergeOwn(h, c, part)
               ELSE MergeBelow(h, c, part,
                               IF h.s[s].builder = 0 \/ n = Len(m) THEN h
                               ELSE f[n + 1][h.s[s].builder])]]

(* There is such a function: the greatest number of levels for which there   *)
(* is one is that of all.                                                    *)
LEMMA MergedExists ==
  ASSUME NEW m, Len(m) \in Nat, NEW h
  PROVE  \E f : Merged(h, m, f)
<1> DEFINE L == Len(m)
           Step(n, next) ==
             [c \in DOMAIN h.b |->
                LET s == h.b[c].fieldBuilder
                    part == SubSeq(m, n, L)
                IN IF s = 0 THEN MergeOwn(h, c, part)
                   ELSE MergeBelow(h, c, part,
                                   IF h.s[s].builder = 0 \/ n = L THEN h
                                   ELSE next[h.s[s].builder])]
           From(k, f) == \A n \in 1..L : n > L - k => f[n] = Step(n, f[n + 1])
           Good == {k \in 0..L : \E f : f = [n \in 1..L |-> f[n]] /\ From(k, f)}
<1>0. L \in Nat
  OBVIOUS
<1>1. \A x, y : Step(L, x) = Step(L, y)
  OBVIOUS
<1> HIDE DEF Step, L
<1>2. 0 \in Good
  <2> DEFINE f == [n \in 1..L |-> 0]
  <2>1. f = [n \in 1..L |-> f[n]]
    OBVIOUS
  <2>2. From(0, f)
    BY <1>0
  <2> HIDE DEF From, f
  <2> QED
    BY <1>0, <2>1, <2>2
<1>3. PICK k \in Good : \A j \in Good : j <= k
  <2>1. Good \in SUBSET (0..L) /\ Good # {}
    BY <1>2
  <2> HIDE DEF Good
  <2> QED
    BY <1>0, <2>1, Greatest
<1>4. PICK f : f = [n \in 1..L |-> f[n]] /\ From(k, f)
  OBVIOUS
<1>5. k \in Nat /\ k <= L
  BY <1>0
<1>6. k = L
  <2> SUFFICES ASSUME k # L PROVE FALSE
    OBVIOUS
  <2> DEFINE E == [n \in 1..L |-> Step(n, f[n + 1])]
  <2>1. E = [n \in 1..L |-> E[n]]
    OBVIOUS
  <2>2. From(k + 1, E)
    <3> SUFFICES ASSUME NEW n \in 1..L, n > L - (k + 1)
                 PROVE  E[n] = Step(n, E[n + 1])
      OBVIOUS
    <3>1. E[n] = Step(n, f[n + 1])
      OBVIOUS
    <3>2. CASE n = L
      BY <1>1, <3>1, <3>2
    <3>3. CASE n # L
      <4>1. n + 1 \in 1..L /\ n + 1 > L - k
        BY <1>0, <1>5, <3>3
      <4>2. f[n + 1] = Step(n + 1, f[n + 1 + 1])
        BY <1>4, <4>1
      <4>3. E[n + 1] = Step(n + 1, f[n + 1 + 1])
        BY <4>1
      <4> QED
        BY <3>1, <4>2, <4>3
    <3> QED
      BY <3>2, <3>3
  <2> HIDE DEF From, E
  <2>3. k + 1 \in 0..L
    BY <1>0, <1>5, k # L
  <2>4. k + 1 \in Good
    BY <2>1, <2>2, <2>3
  <2> HIDE DEF Good
  <2> QED
    BY <1>3, <1>5, <2>4
<1>7. \A n \in 1..L : f[n] = Step(n, f[n + 1])
  <2> SUFFICES ASSUME NEW n \in 1..L PROVE f[n] = Step(n, f[n + 1])
    OBVIOUS
  <2>1. n > L - k
    BY <1>5, <1>6
  <2>2. From(k, f)
    BY <1>4
  <2> QED
    BY <2>1, <2>2
<1>8. f = [n \in 1..L |-> Step(n, f[n + 1])]
  BY <1>4, <1>7
<1>9. Merged(h, m, f)
  BY <1>8 DEF L, Step, Merged
<1> QED
  BY <1>9

(* mergeField keeps the caches right at every level: the greatest at which   *)
(* it did not would have one below it at which it did not.                   *)
LEMMA MergeFieldOK ==
  ASSUME NEW h, HeapOK(h), NEW b \in DOMAIN h.b, NEW m \in Contentful
  PROVE  HeapOK(MergeField(h, b, m)) /\ Grown(h, MergeField(h, b, m))
<1> DEFINE L == Len(m)
           Step(n, next) ==
             [c \in DOMAIN h.b |->
                LET s == h.b[c].fieldBuilder
                    part == SubSeq(m, n, L)
                IN IF s = 0 THEN MergeOwn(h, c, part)
                   ELSE MergeBelow(h, c, part,
                                   IF h.s[s].builder = 0 \/ n = L THEN h
                                   ELSE next[h.s[s].builder])]
           G == CHOOSE f : Merged(h, m, f)
<1>1. L \in Nat /\ L >= 1
  <2>1. m \in Seq(Scalars) /\ m # << >>
    BY DEF Contentful, NONE
  <2> QED
    BY <2>1, EmptySeq, LenProperties
<1>2. MergeField(h, b, m) = G[1][b]
  BY DEF MergeField, Merged
<1>3. Merged(h, m, G)
  BY <1>1, MergedExists
<1> HIDE DEF G
<1>4. \A n \in 1..L : G[n] = Step(n, G[n + 1])
  <2>1. G = [n \in 1..L |-> Step(n, G[n + 1])]
    BY <1>3 DEF Merged
  <2> HIDE DEF Step
  <2> QED
    BY <2>1
<1> DEFINE Right(n) == \A c \in DOMAIN h.b : HeapOK(G[n][c]) /\ Grown(h, G[n][c])
           Wrong == {n \in 1..L : ~ Right(n)}
<1>5. ASSUME NEW n \in 1..L, n < L => Right(n + 1)
      PROVE  Right(n)
  <2> SUFFICES ASSUME NEW c \in DOMAIN h.b
               PROVE  HeapOK(G[n][c]) /\ Grown(h, G[n][c])
    OBVIOUS
  <2> DEFINE s == h.b[c].fieldBuilder
             part == SubSeq(m, n, L)
             next == IF h.s[s].builder = 0 \/ n = L THEN h ELSE G[n + 1][h.s[s].builder]
  <2>1. G[n][c] = IF s = 0 THEN MergeOwn(h, c, part) ELSE MergeBelow(h, c, part, next)
    BY <1>4
  <2>2. part \in Contentful
    <3>1. \A i \in n..L : m[i] \in Scalars
      BY <1>1, ElementOfSeq DEF Contentful
    <3>2. n \in Int /\ L \in Int /\ n <= L
      BY <1>1
    <3> HIDE DEF L
    <3>3. part \in Seq(Scalars) /\ Len(part) = L - n + 1
      BY <3>1, <3>2, SubSeqProperties
    <3>4. Len(part) # 0
      BY <3>2, <3>3
    <3>5. Len(NONE) = 0
      BY DEF NONE
    <3> QED
      BY <3>3, <3>4, <3>5 DEF Contentful
  <2>3. CASE s = 0
    <3>1. G[n][c] = MergeOwn(h, c, part)
      BY <2>1, <2>3
    <3> HIDE DEF part
    <3>2. part \in Seq(Scalars)
      BY <2>2 DEF Contentful
    <3> QED
      BY <3>1, <3>2, MergeOwnOK
  <2>4. CASE s # 0
    <3>1. G[n][c] = MergeBelow(h, c, part, next)
      BY <2>1, <2>4
    <3>2. HeapOK(next) /\ Grown(h, next)
      <4>1. CASE h.s[s].builder = 0 \/ n = L
        BY <4>1, GrownSame
      <4>2. CASE ~ (h.s[s].builder = 0 \/ n = L)
        <5>1. h.s[s].builder \in DOMAIN h.b
          BY <2>4, <4>2 DEF HeapOK, Almost, Linked
        <5>2. n < L
          BY <1>1, <4>2
        <5>3. next = G[n + 1][h.s[s].builder]
          BY <4>2
        <5> HIDE DEF next
        <5> QED
          BY <1>5, <5>1, <5>2, <5>3
      <4> QED
        BY <4>1, <4>2
    <3> HIDE DEF part, next
    <3> QED
      BY <2>2, <2>4, <3>1, <3>2, MergeBelowOK
  <2> QED
    BY <2>3, <2>4
<1> HIDE DEF Right
<1>6. Wrong = {}
  <2> SUFFICES ASSUME Wrong # {} PROVE FALSE
    OBVIOUS
  <2>1. Wrong \in SUBSET (0..L)
    OBVIOUS
  <2>2. PICK n \in Wrong : \A j \in Wrong : j <= n
    <3> HIDE DEF Wrong, L
    <3> QED
      BY <1>1, <2>1, Greatest
  <2>3. n \in 1..L /\ ~ Right(n)
    OBVIOUS
  <2>4. n < L => n + 1 \in 1..L /\ ~ (n + 1 <= n)
    BY <1>1, <2>3
  <2>5. n < L => Right(n + 1)
    BY <2>2, <2>4
  <2> QED
    BY <1>5, <2>3, <2>5
<1>7. Right(1)
  <2>1. 1 \in 1..L
    BY <1>1
  <2> QED
    BY <1>6, <2>1
<1> QED
  BY <1>2, <1>7 DEF Right
-----------------------------------------------------------------------------
(* The other operations of a Builder. *)

(* The default message is a message, and no message is a sequence.           *)
LEMMA DefaultType == Default \in Contentful /\ NONE \in Seq(Scalars)
  BY Scalar DEF Contentful, Default, NONE

(* A Builder's field builder refers to it.                                   *)
LEMMA FieldOf ==
  ASSUME NEW h, HeapOK(h), NEW b \in DOMAIN h.b, h.b[b].fieldBuilder # 0
  PROVE  h.b[b].fieldBuilder \in DOMAIN h.s /\ h.s[h.b[b].fieldBuilder].parent = b
  BY DEF HeapOK, Almost, Linked

(* Setting the field keeps the caches right.                                 *)
LEMMA SetFieldOK ==
  ASSUME NEW h, HeapOK(h), NEW b \in DOMAIN h.b, NEW m \in Contentful,
         NEW g, g = SetField(h, b, m)
  PROVE  HeapOK(g)
<1> DEFINE s == h.b[b].fieldBuilder
           k == IF s = 0 THEN OnChanged([h EXCEPT !.b[b].field = m], b) ELSE SetMessage(h, s, m)
<1>1. g = [k EXCEPT !.b[b].has = TRUE]
  BY DEF SetField
<1>2. HeapOK(k) /\ Grown(h, k) /\ ~ Owes(k, b)
  <2>1. CASE s = 0
    <3>1. k = OnChanged([h EXCEPT !.b[b].field = m], b)
      BY <2>1
    <3> HIDE DEF k
    <3>2. m \in Seq(Scalars)
      BY DEF Contentful
    <3> QED
      BY <3>1, <3>2, ToldField
  <2>2. CASE s # 0
    <3>1. k = SetMessage(h, s, m)
      BY <2>2
    <3>2. s \in DOMAIN h.s /\ h.s[s].parent = b
      BY <2>2, FieldOf
    <3> HIDE DEF k, s
    <3> QED
      BY <3>1, <3>2, SetMessageOK
  <2> QED
    BY <2>1, <2>2
<1> HIDE DEF k
<1>3. TRUE \in BOOLEAN
  OBVIOUS
<1> QED
  BY <1>1, <1>2, <1>3, FieldHasOK

(* In proto2 the field builder stays, with the default message.              *)
LEMMA ClearFieldOK ==
  ASSUME FieldPresence,
         NEW h, HeapOK(h), NEW b \in DOMAIN h.b, NEW g, g = ClearField(h, b)
  PROVE  HeapOK(g)
<1> DEFINE s == h.b[b].fieldBuilder
           k == IF s = 0 THEN OnChanged([h EXCEPT !.b[b].field = NONE], b)
                ELSE SetMessage(h, s, Default)
<1>1. g = [k EXCEPT !.b[b].has = FALSE]
  <2>1. CASE s = 0
    BY <2>1 DEF ClearField
  <2>2. CASE s # 0
    BY <2>2 DEF ClearField
  <2> QED
    BY <2>1, <2>2
<1>2. HeapOK(k) /\ Grown(h, k) /\ ~ Owes(k, b)
  <2>1. CASE s = 0
    <3>1. k = OnChanged([h EXCEPT !.b[b].field = NONE], b)
      BY <2>1
    <3> HIDE DEF k
    <3> QED
      BY <3>1, DefaultType, ToldField
  <2>2. CASE s # 0
    <3>1. k = SetMessage(h, s, Default)
      BY <2>2
    <3>2. s \in DOMAIN h.s /\ h.s[s].parent = b
      BY <2>2, FieldOf
    <3> HIDE DEF k, s
    <3> QED
      BY <3>1, <3>2, DefaultType, SetMessageOK
  <2> QED
    BY <2>1, <2>2
<1> HIDE DEF k
<1>3. FALSE \in BOOLEAN
  OBVIOUS
<1> QED
  BY <1>1, <1>2, <1>3, FieldHasOK

(* clear tells before it clears: it owes nothing when it changes.            *)
LEMMA ClearOK ==
  ASSUME FieldPresence,
         NEW h, HeapOK(h), NEW b \in DOMAIN h.b, NEW g, g = Clear(h, b)
  PROVE  HeapOK(g)
<1> DEFINE s == h.b[b].fieldBuilder
           k0 == OnChanged(h, b)
           k1 == [k0 EXCEPT !.b[b].x = 0]
           k == IF s = 0 THEN [k1 EXCEPT !.b[b].field = NONE] ELSE SetMessage(k1, s, Default)
<1>1. g = [k EXCEPT !.b[b].has = FALSE]
  <2>1. CASE s = 0
    BY <2>1 DEF Clear
  <2>2. CASE s # 0
    BY <2>2 DEF Clear
  <2> QED
    BY <2>1, <2>2
<1>2. HeapOK(k0) /\ Grown(h, k0) /\ ~ Owes(k0, b)
  BY OnChangedOK
<1>3. b \in DOMAIN k0.b
  BY <1>2 DEF Grown
<1>4. HeapOK(k1) /\ Grown(k0, k1) /\ ~ Owes(k1, b)
  <2>1. k1 = [k0 EXCEPT !.b[b].x = 0]
    OBVIOUS
  <2> HIDE DEF k0, k1
  <2> QED
    BY <1>2, <1>3, <2>1, Scalar, UntoldX
<1>5. Grown(h, k1) /\ b \in DOMAIN k1.b
  <2> HIDE DEF k0, k1
  <2>1. Grown(h, k1)
    BY <1>2, <1>4, GrownTwice
  <2> QED
    BY <2>1 DEF Grown
<1>6. HeapOK(k) /\ Grown(k1, k) /\ ~ Owes(k, b)
  <2>1. CASE s = 0
    <3>1. k = [k1 EXCEPT !.b[b].field = NONE]
      BY <2>1
    <3> HIDE DEF k, k1
    <3> QED
      BY <1>4, <1>5, <3>1, DefaultType, UntoldField
  <2>2. CASE s # 0
    <3>1. k = SetMessage(k1, s, Default)
      BY <2>2
    <3>2. s \in DOMAIN h.s /\ h.s[s].parent = b
      BY <2>2, FieldOf
    <3> HIDE DEF k, s, k1
    <3>3. s \in DOMAIN k1.s /\ k1.s[s].parent = b
      BY <1>5, <3>2 DEF Grown
    <3> QED
      BY <1>4, <3>1, <3>3, DefaultType, SetMessageOK
  <2> QED
    BY <2>1, <2>2
<1> HIDE DEF k, k1
<1>7. FALSE \in BOOLEAN
  OBVIOUS
<1> QED
  BY <1>1, <1>5, <1>6, <1>7, FieldHasOK

(* What getFieldBuilder adds.                                                *)
AddedField(h, b, g, t) ==
  /\ g \in Heaps /\ DOMAIN g.b = DOMAIN h.b
  /\ DOMAIN g.s = DOMAIN h.s \cup {t} /\ t \notin DOMAIN h.s /\ t # 0
  /\ \A i \in DOMAIN h.b : i # b => g.b[i] = h.b[i]
  /\ g.b[b].level = h.b[b].level /\ g.b[b].parent = h.b[b].parent
  /\ g.b[b].isClean = h.b[b].isClean /\ g.b[b].fieldBuilder = t
  /\ \A u \in DOMAIN h.s : g.s[u] = h.s[u]
  /\ g.s[t].parent = b /\ g.s[t].builder = 0 /\ g.s[t].message # NONE

(* A field builder is added below a Builder that owes nothing.               *)
LEMMA AddedFieldOK ==
  ASSUME NEW h, HeapOK(h), NEW b \in DOMAIN h.b, ~ Owes(h, b), h.b[b].fieldBuilder = 0,
         h.b[b].level < Depth, NEW g, NEW t, AddedField(h, b, g, t)
  PROVE  HeapOK(g)
<1>1. h \in Heaps /\ Linked(h) /\ Flagged(h)
  BY DEF HeapOK, Almost
<1>2. PICK C : CachedBut(h, {}, C)
  BY DEF HeapOK, Almost
<1>3. /\ g \in Heaps /\ DOMAIN g.b = DOMAIN h.b
      /\ DOMAIN g.s = DOMAIN h.s \cup {t} /\ t \notin DOMAIN h.s /\ t # 0
      /\ \A i \in DOMAIN h.b : i # b => g.b[i] = h.b[i]
      /\ g.b[b].level = h.b[b].level /\ g.b[b].parent = h.b[b].parent
      /\ g.b[b].isClean = h.b[b].isClean /\ g.b[b].fieldBuilder = t
      /\ \A u \in DOMAIN h.s : g.s[u] = h.s[u]
      /\ g.s[t].parent = b /\ g.s[t].builder = 0 /\ g.s[t].message # NONE
  BY DEF AddedField
<1>4. \A i \in DOMAIN h.b :
        /\ g.b[i].level = h.b[i].level /\ g.b[i].parent = h.b[i].parent
        /\ g.b[i].isClean = h.b[i].isClean
        /\ g.b[i].fieldBuilder = IF i = b THEN t ELSE h.b[i].fieldBuilder
  BY <1>3
<1>5. \A i \in DOMAIN g.b : Owes(g, i) <=> Owes(h, i)
  BY <1>3, <1>4 DEF Owes
<1>6. \A s \in DOMAIN h.s : s # 0 /\ h.s[s].parent # b
  BY <1>1, Objects DEF Linked
<1>7. Linked(g)
  <2>1. ASSUME NEW i \in DOMAIN g.b
        PROVE  /\ g.b[i].fieldBuilder # 0 =>
                    /\ g.b[i].fieldBuilder \in DOMAIN g.s
                    /\ g.s[g.b[i].fieldBuilder].parent = i
                    /\ g.b[i].level < Depth
               /\ g.b[i].parent # 0 =>
                    g.b[i].parent \in DOMAIN g.s /\ g.s[g.b[i].parent].builder = i
    <3>1. h.b[i].fieldBuilder # 0 =>
            /\ h.b[i].fieldBuilder \in DOMAIN h.s
            /\ h.s[h.b[i].fieldBuilder].parent = i
            /\ h.b[i].level < Depth
      BY <1>1, <1>3 DEF Linked
    <3>2. h.b[i].parent # 0 => h.b[i].parent \in DOMAIN h.s /\ h.s[h.b[i].parent].builder = i
      BY <1>1, <1>3 DEF Linked
    <3>3. g.b[i].fieldBuilder # 0 =>
            /\ g.b[i].fieldBuilder \in DOMAIN g.s
            /\ g.s[g.b[i].fieldBuilder].parent = i
            /\ g.b[i].level < Depth
      <4>1. CASE i = b
        BY <1>3, <4>1
      <4>2. CASE i # b
        BY <1>3, <3>1, <4>2
      <4> QED
        BY <4>1, <4>2
    <3> QED
      BY <1>3, <1>4, <3>2, <3>3
  <2>2. ASSUME NEW s \in DOMAIN g.s
        PROVE  /\ g.s[s].parent \in DOMAIN g.b /\ g.b[g.s[s].parent].fieldBuilder = s
               /\ g.s[s].builder # 0 =>
                    /\ g.s[s].builder \in DOMAIN g.b /\ g.b[g.s[s].builder].parent = s
                    /\ g.b[g.s[s].builder].level = g.b[g.s[s].parent].level + 1
               /\ g.s[s].builder # 0 \/ g.s[s].message # NONE
    <3>1. CASE s = t
      BY <1>3, <3>1
    <3>2. CASE s # t
      <4>1. s \in DOMAIN h.s /\ g.s[s] = h.s[s] /\ h.s[s].parent # b
        BY <1>3, <1>6, <3>2
      <4>2. h.s[s].parent \in DOMAIN h.b /\ h.b[h.s[s].parent].fieldBuilder = s
        BY <1>1, <4>1 DEF Linked
      <4>3. h.s[s].builder # 0 =>
              /\ h.s[s].builder \in DOMAIN h.b /\ h.b[h.s[s].builder].parent = s
              /\ h.b[h.s[s].builder].level = h.b[h.s[s].parent].level + 1
        BY <1>1, <4>1 DEF Linked
      <4>4. h.s[s].builder # 0 \/ h.s[s].message # NONE
        BY <1>1, <4>1 DEF Linked
      <4>5. g.s[s].parent \in DOMAIN g.b /\ g.b[g.s[s].parent].fieldBuilder = s
        BY <1>3, <1>4, <4>1, <4>2
      <4>6. g.s[s].builder # 0 =>
              /\ g.s[s].builder \in DOMAIN g.b /\ g.b[g.s[s].builder].parent = s
              /\ g.b[g.s[s].builder].level = g.b[g.s[s].parent].level + 1
        BY <1>3, <1>4, <4>1, <4>2, <4>3
      <4> QED
        BY <4>1, <4>4, <4>5, <4>6
    <3> QED
      BY <3>1, <3>2
  <2> QED
    BY <2>1, <2>2 DEF Linked
<1>8. Flagged(g)
  <2>1. ASSUME NEW i \in DOMAIN g.b, Owes(g, i), g.b[i].fieldBuilder # 0
        PROVE  g.s[g.b[i].fieldBuilder].isClean
    <3>1. Owes(h, i) /\ i # b
      BY <1>5, <2>1
    <3>2. i \in DOMAIN h.b /\ g.b[i].fieldBuilder = h.b[i].fieldBuilder
      BY <1>3, <1>4, <3>1
    <3>3. h.b[i].fieldBuilder \in DOMAIN h.s /\ h.s[h.b[i].fieldBuilder].isClean
      BY <1>1, <2>1, <3>1, <3>2 DEF Linked, Flagged
    <3> QED
      BY <1>3, <3>2, <3>3
  <2>2. ASSUME NEW s \in DOMAIN g.s, g.s[s].builder # 0
        PROVE  /\ g.s[s].message # NONE => g.b[g.s[s].builder].isClean
               /\ g.s[s].isClean => g.s[s].message # NONE
    <3>1. s \in DOMAIN h.s /\ g.s[s] = h.s[s]
      BY <1>3, <2>2
    <3>2. h.s[s].builder \in DOMAIN h.b
      BY <1>1, <2>2, <3>1 DEF Linked
    <3>3. /\ h.s[s].message # NONE => h.b[h.s[s].builder].isClean
          /\ h.s[s].isClean => h.s[s].message # NONE
      BY <1>1, <2>2, <3>1 DEF Flagged
    <3> QED
      BY <1>4, <3>1, <3>2, <3>3
  <2> QED
    BY <2>1, <2>2 DEF Flagged
<1>9. CachedBut(g, {b}, C)
  <2>1. ASSUME NEW i \in DOMAIN h.b, i # b PROVE C[i] = ContentOf(g, C, i)
    <3>1. g.b[i] = h.b[i] /\ (h.b[i].fieldBuilder # 0 => h.b[i].fieldBuilder \in DOMAIN h.s)
      BY <1>1, <1>3, <2>1 DEF Linked
    <3>2. h.b[i].fieldBuilder # 0 => g.s[h.b[i].fieldBuilder] = h.s[h.b[i].fieldBuilder]
      BY <1>3, <3>1
    <3>3. C[i] = ContentOf(h, C, i)
      BY <1>2 DEF CachedBut
    <3> QED
      BY <3>1, <3>2, <3>3 DEF ContentOf
  <2>2. ASSUME NEW s \in DOMAIN g.s, g.s[s].builder # 0, g.s[s].message # NONE
        PROVE  g.s[s].message = C[g.s[s].builder]
    <3>1. s \in DOMAIN h.s /\ g.s[s] = h.s[s]
      BY <1>3, <2>2
    <3> QED
      BY <1>2, <2>2, <3>1 DEF CachedBut
  <2>3. C \in [DOMAIN g.b -> Contentful]
    BY <1>2, <1>3 DEF CachedBut
  <2> QED
    BY <1>3, <2>1, <2>2, <2>3 DEF CachedBut
<1>10. Almost(g, {b})
  BY <1>3, <1>7, <1>8, <1>9 DEF Almost
<1>11. \A i \in DOMAIN g.b : i \in {b} => ~ Owes(g, i)
  BY <1>5
<1> QED
  BY <1>10, <1>11, Settled
WithField(h, b, m, clean) ==
  [b |-> [h.b EXCEPT ![b].fieldBuilder = Len(h.s) + 1, ![b].field = NONE],
   s |-> With(h.s, [parent |-> b, builder |-> 0, message |-> m, isClean |-> clean])]

(* getFieldBuilder adds one field builder, which holds the message of the    *)
(* field.                                                                    *)
LEMMA NewField ==
  ASSUME NEW h \in Heaps, NEW b \in DOMAIN h.b, NEW m \in Contentful, NEW clean \in BOOLEAN,
         NEW g, g = WithField(h, b, m, clean)
  PROVE  \E t : /\ AddedField(h, b, g, t) /\ t = g.b[b].fieldBuilder /\ g.s[t].message = m
               /\ g.b[b].x = h.b[b].x /\ g.b[b].has = h.b[b].has
<1> DEFINE t == Len(h.s) + 1
           f == [parent |-> b, builder |-> 0, message |-> m, isClean |-> clean]
           n == [h.b[b] EXCEPT !.fieldBuilder = t, !.field = NONE]
<1>1. /\ h.b \in Seq(BuilderObjects) /\ h.s \in Seq(FieldBuilderObjects)
      /\ h.b[b] \in BuilderObjects /\ b \in Nat /\ Len(h.s) \in Nat
  BY Objects
<1>2. /\ f \in FieldBuilderObjects /\ f.parent = b /\ f.builder = 0 /\ f.message # NONE /\ f.message = m
  BY <1>1 DEF FieldBuilderObjects, Contentful
<1>3. t \in Nat /\ t # 0 /\ NONE \in Seq(Scalars)
  BY <1>1, DefaultType
<1>4. g.b = [h.b EXCEPT ![b].fieldBuilder = t, ![b].field = NONE] /\ g.s = With(h.s, f)
      /\ g = [b |-> g.b, s |-> g.s]
  BY DEF WithField
<1> HIDE DEF t, f
<1>5. /\ n \in BuilderObjects /\ n.level = h.b[b].level /\ n.parent = h.b[b].parent
      /\ n.isClean = h.b[b].isClean /\ n.fieldBuilder = t
      /\ n.x = h.b[b].x /\ n.has = h.b[b].has
  BY <1>1, <1>3 DEF BuilderObjects
<1>6. g.b = [h.b EXCEPT ![b] = n]
  <2>1. [h.b EXCEPT ![b].fieldBuilder = t, ![b].field = NONE] =
          [[h.b EXCEPT ![b] = [h.b[b] EXCEPT !.fieldBuilder = t]]
             EXCEPT ![b] = [@ EXCEPT !.field = NONE]]
    OBVIOUS
  <2>2. [[h.b EXCEPT ![b] = [h.b[b] EXCEPT !.fieldBuilder = t]]
             EXCEPT ![b] = [@ EXCEPT !.field = NONE]]
          = [h.b EXCEPT ![b] = [[h.b[b] EXCEPT !.fieldBuilder = t] EXCEPT !.field = NONE]]
    BY <1>1
  <2>3. [[h.b[b] EXCEPT !.fieldBuilder = t] EXCEPT !.field = NONE] = n
    OBVIOUS
  <2> QED
    BY <1>4, <2>1, <2>2, <2>3
<1> HIDE DEF n
<1> DEFINE B == g.b
<1>7. /\ B \in Seq(BuilderObjects) /\ DOMAIN B = DOMAIN h.b /\ B[b] = n
      /\ \A i \in DOMAIN h.b : i # b => B[i] = h.b[i]
  <2>1. B = [h.b EXCEPT ![b] = n] /\ n \in BuilderObjects /\ h.b \in Seq(BuilderObjects)
    BY <1>1, <1>5, <1>6
  <2> HIDE DEF B
  <2>2. DOMAIN B = DOMAIN h.b /\ B[b] = n /\ \A i \in DOMAIN h.b : i # b => B[i] = h.b[i]
    BY <2>1
  <2> QED
    BY <2>1, <2>2, ExceptSeq
<1>8. /\ g.s \in Seq(FieldBuilderObjects) /\ DOMAIN g.s = DOMAIN h.s \cup {t}
      /\ t \notin DOMAIN h.s /\ g.s[t] = f /\ \A u \in DOMAIN h.s : g.s[u] = h.s[u]
  <2>1. t = Len(h.s) + 1
    BY DEF t
  <2>2. With(h.s, f) \in [1..Len(h.s) + 1 -> FieldBuilderObjects]
    BY <1>1, <1>2, LenProperties DEF With
  <2>3. DOMAIN h.s = 1..Len(h.s) /\ Len(h.s) \in Nat
    BY Objects
  <2>4. 1..Len(h.s) + 1 = 1..Len(h.s) \cup {t} /\ t \notin 1..Len(h.s)
    BY <2>1, <2>3
  <2>5. With(h.s, f)[t] = f /\ \A i \in 1..Len(h.s) : With(h.s, f)[i] = h.s[i]
    BY <1>1, <2>1 DEF With
  <2>6. With(h.s, f) \in Seq(FieldBuilderObjects) /\ DOMAIN With(h.s, f) = 1..Len(h.s) + 1
    <3> DEFINE w == With(h.s, f)
               k == Len(h.s) + 1
    <3>1. w \in [1..k -> FieldBuilderObjects] /\ k \in Nat
      BY <1>1, <2>2
    <3> HIDE DEF w, k
    <3>2. w \in Seq(FieldBuilderObjects) /\ DOMAIN w = 1..k
      BY <3>1, SequenceOf
    <3> QED
      BY <3>2 DEF w, k
  <2> QED
    BY <1>4, <2>3, <2>4, <2>5, <2>6
<1>9. g \in Heaps
  BY <1>4, <1>7, <1>8 DEF Heaps
<1>10. AddedField(h, b, g, t)
  BY <1>2, <1>3, <1>5, <1>7, <1>8, <1>9 DEF AddedField
<1> QED
  BY <1>2, <1>5, <1>7, <1>8, <1>10

(* getFieldBuilder keeps the caches right.                                   *)
LEMMA GetFieldBuilderOK ==
  ASSUME NEW h, HeapOK(h), NEW b \in DOMAIN h.b, h.b[b].level < Depth,
         NEW g, g = GetFieldBuilder(h, b)
  PROVE  HeapOK(g)
<1> DEFINE k == OnChanged([h EXCEPT !.b[b].has = TRUE], b)
           new == [parent |-> b, builder |-> 0, message |-> Field(k, b), isClean |-> k.b[b].isClean]
           added == [b |-> [k.b EXCEPT ![b].fieldBuilder = Len(k.s) + 1, ![b].field = NONE],
                     s |-> With(k.s, new)]
           k2 == IF k.b[b].fieldBuilder # 0 THEN k ELSE added
<1>1. g = GetBuilder(k2, k2.b[b].fieldBuilder)
  BY DEF GetFieldBuilder
<1>2. HeapOK(k) /\ Grown(h, k) /\ ~ Owes(k, b)
  <2>1. k = OnChanged([h EXCEPT !.b[b].has = TRUE], b) /\ TRUE \in BOOLEAN
    OBVIOUS
  <2> HIDE DEF k
  <2> QED
    BY <2>1, ToldHas
<1> HIDE DEF k
<1>3. b \in DOMAIN k.b /\ k.b[b].level < Depth
  BY <1>2 DEF Grown
<1>4. HeapOK(k2) /\ k2.b[b].fieldBuilder \in DOMAIN k2.s
  <2>1. CASE k.b[b].fieldBuilder # 0
    BY <1>2, <1>3, <2>1, FieldOf
  <2>2. CASE k.b[b].fieldBuilder = 0
    <3>1. k2 = added
      BY <2>2
    <3>2. k \in Heaps
      BY <1>2 DEF HeapOK, Almost
    <3>3. k.b[b].field \in Seq(Scalars) /\ k.b[b].isClean \in BOOLEAN
      BY <1>3, <3>2, Objects, BuilderFields
    <3>4. Field(k, b) \in Contentful
      BY <3>3, DefaultType DEF Field, Contentful
    <3> DEFINE m == Field(k, b)
               clean == k.b[b].isClean
    <3>5. m \in Contentful /\ clean \in BOOLEAN
      BY <3>3, <3>4
    <3>6. k2 = WithField(k, b, m, clean)
      BY <3>1 DEF WithField
    <3> HIDE DEF m, clean, k2, new, added
    <3>7. PICK t : AddedField(k, b, k2, t) /\ t = k2.b[b].fieldBuilder
      BY <1>3, <3>2, <3>5, <3>6, NewField
    <3>8. HeapOK(k2)
      BY <1>2, <1>3, <2>2, <3>7, AddedFieldOK
    <3> QED
      BY <3>7, <3>8 DEF AddedField
  <2> QED
    BY <2>1, <2>2
<1> DEFINE s == k2.b[b].fieldBuilder
<1>5. s \in DOMAIN k2.s /\ g = GetBuilder(k2, s)
  BY <1>1, <1>4
<1> HIDE DEF k2, s
<1> QED
  BY <1>4, <1>5, GetBuilderOK

-----------------------------------------------------------------------------
(* The specification. *)

(* The first builder has no caches.                                          *)
LEMMA InitOK == Init => IInv
<1> SUFFICES ASSUME Init PROVE HeapOK(heap)
  BY DEF IInv
<1> DEFINE n == Builder(1, Default, 0, FALSE)
<1>1. /\ Head(Default) = 0 /\ Tail(Default) = NONE
  BY DEF Default, NONE
<1>2. /\ n \in BuilderObjects /\ n.fieldBuilder = 0 /\ n.parent = 0
  <2>1. n = [level |-> 1, x |-> 0, has |-> (NONE # NONE), field |-> NONE,
             fieldBuilder |-> 0, parent |-> 0, isClean |-> FALSE]
    BY <1>1 DEF Builder
  <2>2. (NONE # NONE) \in BOOLEAN /\ FALSE \in BOOLEAN /\ 1 \in 1..Depth
    BY Scalar
  <2> HIDE DEF n
  <2> QED
    BY <2>1, <2>2, Scalar, DefaultType DEF BuilderObjects
<1> HIDE DEF n
<1>3. heap.b = <<n>> /\ heap.s = << >> /\ heap = [b |-> heap.b, s |-> heap.s]
  BY DEF Init, n
<1>4. heap.b \in Seq(BuilderObjects) /\ DOMAIN heap.b = {1} /\ heap.b[1] = n
  BY <1>2, <1>3
<1>5. heap.s \in Seq(FieldBuilderObjects) /\ DOMAIN heap.s = {}
  BY <1>3
<1>6. heap \in Heaps
  BY <1>3, <1>4, <1>5 DEF Heaps
<1>7. Linked(heap) /\ Flagged(heap)
  BY <1>2, <1>4, <1>5 DEF Linked, Flagged
<1>8. PICK C \in [DOMAIN heap.b -> Contentful] :
        \A i \in DOMAIN heap.b : C[i] = ContentOf(heap, C, i)
  BY <1>6, <1>7, ContentExists
<1>9. CachedBut(heap, {}, C)
  BY <1>5, <1>8 DEF CachedBut
<1> QED
  BY <1>6, <1>7, <1>9 DEF HeapOK, Almost

(* The messages that calls have are messages.                                *)
LEMMA MessagesType ==
  ASSUME NEW level \in Nat, NEW m \in Messages(level)
  PROVE  m \in Contentful
<1>1. PICK n \in 1..(Depth - level + 1) : m \in [1..n -> Scalars]
  BY DEF Messages
<1>2. n \in Nat /\ n # 0
  BY <1>1, Scalar
<1>3. m \in Seq(Scalars) /\ Len(m) = n
  BY <1>1, <1>2, SequenceOf
<1>4. Len(NONE) = 0
  BY DEF NONE
<1> QED
  BY <1>2, <1>3, <1>4 DEF Contentful

(* Every call keeps the invariant.                                           *)
LEMMA NextOK ==
  ASSUME FieldPresence, IInv, Next
  PROVE  IInv'
<1> SUFFICES HeapOK(heap')
  BY DEF IInv, HeapOK, Almost, Heaps, Linked, Flagged, Owes, CachedBut, ContentOf
<1>1. HeapOK(heap) /\ heap \in Heaps
  BY DEF IInv, HeapOK, Almost
<1>2. PICK b \in DOMAIN heap.b :
        \/ CallSetX(b) \/ CallSetField(b) \/ CallMergeField(b) \/ CallClearField(b) \/ CallClear(b)
        \/ CallGetFieldBuilder(b) \/ CallGetField(b) \/ CallBuild(b)
  BY DEF Next
<1>3. heap.b[b].level + 1 \in Nat /\ b \in DOMAIN heap.b
  BY <1>1, Objects, BuilderFields
<1>4. CASE CallSetX(b)
  <2>1. PICK v \in Scalars : heap' = SetX(heap, b, v)
    BY <1>4 DEF CallSetX, Changes
  <2> QED
    BY <1>1, <2>1, SetXOK
<1>5. CASE CallSetField(b)
  <2>1. PICK m \in Messages(heap.b[b].level + 1) : heap' = SetField(heap, b, m)
    BY <1>5 DEF CallSetField, Changes
  <2>2. m \in Contentful
    BY <1>3, MessagesType
  <2> QED
    BY <1>1, <2>1, <2>2, SetFieldOK
<1>6. CASE CallMergeField(b)
  <2>1. PICK m \in Messages(heap.b[b].level + 1) : heap' = MergeField(heap, b, m)
    BY <1>6 DEF CallMergeField, Changes
  <2>2. m \in Contentful
    BY <1>3, MessagesType
  <2> QED
    BY <1>1, <2>1, <2>2, MergeFieldOK
<1>7. CASE CallClearField(b)
  <2>1. heap' = ClearField(heap, b)
    BY <1>7 DEF CallClearField, Changes
  <2> QED
    BY <1>1, <2>1, ClearFieldOK
<1>8. CASE CallClear(b)
  <2>1. heap' = Clear(heap, b)
    BY <1>8 DEF CallClear, Changes
  <2> QED
    BY <1>1, <2>1, ClearOK
<1>9. CASE CallGetFieldBuilder(b)
  <2>1. heap' = GetFieldBuilder(heap, b) /\ heap.b[b].level < Depth
    BY <1>9 DEF CallGetFieldBuilder, Changes, HasField
  <2> QED
    BY <1>1, <2>1, GetFieldBuilderOK
<1>10. CASE CallGetField(b)
  <2>1. heap' = IF heap.b[b].fieldBuilder = 0 THEN heap
                ELSE GetMessage(heap, heap.b[b].fieldBuilder).heap
    BY <1>10 DEF CallGetField, Returns
  <2>2. CASE heap.b[b].fieldBuilder = 0
    BY <1>1, <2>1, <2>2
  <2>3. CASE heap.b[b].fieldBuilder # 0
    <3> DEFINE s == heap.b[b].fieldBuilder
    <3>1. s \in DOMAIN heap.s /\ heap' = GetMessage(heap, s).heap
      BY <1>1, <2>1, <2>3, FieldOf
    <3>2. PICK C : CachedBut(heap, {}, C)
      BY <1>1 DEF HeapOK, Almost
    <3> HIDE DEF s
    <3> QED
      BY <1>1, <3>1, <3>2, GetMessageOK
  <2> QED
    BY <2>2, <2>3
<1>11. CASE CallBuild(b)
  <2>1. heap' = BuildPartial(heap, b).heap
    BY <1>11 DEF CallBuild, Returns
  <2>2. PICK C : CachedBut(heap, {}, C)
    BY <1>1 DEF HeapOK, Almost
  <2>3. Remembers(heap, heap', C) /\ heap' \in Heaps /\ Flagged(heap')
    BY <1>1, <2>1, <2>2, BuildPartialOK
  <2>4. Linked(heap)
    BY <1>1 DEF HeapOK, Almost
  <2> QED
    BY <1>1, <2>2, <2>3, <2>4, RemembersOK
<1> QED
  BY <1>2, <1>4, <1>5, <1>6, <1>7, <1>8, <1>9, <1>10, <1>11

(* The content with which the caches agree is Contents.                      *)
LEMMA IInvCaches ==
  ASSUME IInv
  PROVE  CacheIsContent
<1>1. heap \in Heaps /\ Linked(heap)
  BY DEF IInv, HeapOK, Almost
<1>2. PICK C : CachedBut(heap, {}, C)
  BY DEF IInv, HeapOK, Almost
<1> SUFFICES ASSUME NEW s \in DOMAIN heap.s
             PROVE  /\ heap.s[s].builder # 0 \/ heap.s[s].message # NONE
                    /\ heap.s[s].builder # 0 /\ heap.s[s].message # NONE =>
                         heap.s[s].message = Contents(heap)[heap.s[s].builder]
  BY DEF CacheIsContent
<1>3. heap.s[s].builder # 0 \/ heap.s[s].message # NONE
  BY <1>1 DEF Linked
<1>4. ASSUME heap.s[s].builder # 0, heap.s[s].message # NONE
      PROVE  heap.s[s].message = Contents(heap)[heap.s[s].builder]
  <2>1. heap.s[s].builder \in DOMAIN heap.b
    BY <1>1, <1>4 DEF Linked
  <2>2. heap.s[s].message = C[heap.s[s].builder]
    BY <1>2, <1>4 DEF CachedBut
  <2>3. Contents(heap)[heap.s[s].builder] = C[heap.s[s].builder]
    BY <1>1, <1>2, <2>1, ContentsIs
  <2> QED
    BY <2>2, <2>3
<1> QED
  BY <1>3, <1>4

(* In proto2 a cached message is what the builder holds, however deep the     *)
(* change below it was made and through whichever builder: the caches that    *)
(* SingleFieldBuilderV3.getMessage and build leave are invalidated in time.   *)
THEOREM CachesRight == FieldPresence => (Spec => []CacheIsContent)
<1> SUFFICES ASSUME FieldPresence PROVE Spec => []CacheIsContent
  OBVIOUS
<1>1. Init => IInv
  BY InitOK
<1>2. IInv /\ [Next]_vars => IInv'
  <2> SUFFICES ASSUME IInv, [Next]_vars PROVE IInv'
    OBVIOUS
  <2>1. CASE Next
    BY <2>1, NextOK
  <2>2. CASE UNCHANGED vars
    <3>1. heap' = heap
      BY <2>2 DEF vars
    <3>2. HeapOK(heap)
      BY DEF IInv
    <3> SUFFICES HeapOK(heap')
      BY DEF IInv, HeapOK, Almost, Heaps, Linked, Flagged, Owes, CachedBut, ContentOf
    <3> QED
      BY <3>1, <3>2
  <2> QED
    BY <2>1, <2>2
<1>3. IInv => CacheIsContent
  BY IInvCaches
<1> QED
  BY <1>1, <1>2, <1>3, PTL DEF Spec

-----------------------------------------------------------------------------
(* The refinement of MessageTree. *)

(* A field that is not set holds nothing.                                    *)
UnsetAt(h, i) ==
  ~ h.b[i].has =>
    IF h.b[i].fieldBuilder = 0 THEN h.b[i].field = NONE
    ELSE /\ h.s[h.b[i].fieldBuilder].builder = 0
         /\ h.s[h.b[i].fieldBuilder].message = Default
Unset(h) == \A i \in DOMAIN h.b : UnsetAt(h, i)

(* The builders of h and g show the same.                                    *)
Alike(h, g) ==
  /\ DOMAIN g.b = DOMAIN h.b /\ DOMAIN g.s = DOMAIN h.s
  /\ \A i \in DOMAIN h.b :
       /\ g.b[i].level = h.b[i].level /\ g.b[i].x = h.b[i].x /\ g.b[i].has = h.b[i].has
       /\ g.b[i].field = h.b[i].field /\ g.b[i].fieldBuilder = h.b[i].fieldBuilder
  /\ \A s \in DOMAIN h.s :
       /\ g.s[s].builder = h.s[s].builder
       /\ h.s[s].builder = 0 => g.s[s].message = h.s[s].message

(* They do, but for b and what is in its field builder.                      *)
AlikeBut(h, g, b) ==
  /\ DOMAIN g.b = DOMAIN h.b /\ DOMAIN h.s \subseteq DOMAIN g.s /\ g.b[b].level = h.b[b].level
  /\ \A i \in DOMAIN h.b : i # b =>
       /\ g.b[i].level = h.b[i].level /\ g.b[i].x = h.b[i].x /\ g.b[i].has = h.b[i].has
       /\ g.b[i].field = h.b[i].field /\ g.b[i].fieldBuilder = h.b[i].fieldBuilder
  /\ \A s \in DOMAIN h.s : h.s[s].parent # b =>
       /\ g.s[s].builder = h.s[s].builder
       /\ h.s[s].builder = 0 => g.s[s].message = h.s[s].message

(* Clearing caches and flags does not show.                                  *)
LEMMA QuieterAlike ==
  ASSUME NEW h, NEW g, Quieter(h, g)
  PROVE  Alike(h, g)
  BY DEF Quieter, Alike

(* Nor does building.                                                        *)
LEMMA RemembersAlike ==
  ASSUME NEW h, NEW g, NEW C, Remembers(h, g, C)
  PROVE  Alike(h, g)
  BY DEF Remembers, Alike

(* Alike is transitive.                                                      *)
LEMMA AlikeTwice ==
  ASSUME NEW h, NEW k, NEW g, Alike(h, k), Alike(k, g)
  PROVE  Alike(h, g)
  BY DEF Alike

(* After a change of b, what does not show does not matter.                  *)
LEMMA ButAlike ==
  ASSUME NEW h, NEW k, NEW g, NEW b \in DOMAIN h.b, AlikeBut(h, k, b), Alike(k, g)
  PROVE  AlikeBut(h, g, b)
  BY DEF Alike, AlikeBut

(* onChanged does not show.                                                  *)
LEMMA AlikeOnChanged ==
  ASSUME NEW h, NEW X, Almost(h, X), NEW b \in DOMAIN h.b
  PROVE  Alike(h, OnChanged(h, b))
  BY Changed, QuieterAlike

(* onChanged of a field builder does not show.                               *)
LEMMA AlikeFieldChanged ==
  ASSUME NEW h, NEW X, Almost(h, X), NEW s \in DOMAIN h.s
  PROVE  Alike(h, FieldChanged(h, s))
  BY ChangedField, QuieterAlike

(* Heaps that show the same stand for one tree.                              *)
LEMMA AlikeNodes ==
  ASSUME NEW h, h \in Heaps, Linked(h), NEW g, Alike(h, g)
  PROVE  Nodes(g) = Nodes(h) /\ (Unset(h) => Unset(g))
<1>1. \A i \in DOMAIN h.b : h.b[i].fieldBuilder # 0 => h.b[i].fieldBuilder \in DOMAIN h.s
  BY DEF Linked
<1>2. ASSUME NEW i \in DOMAIN h.b
      PROVE  Node(g, i) = Node(h, i) /\ (UnsetAt(h, i) => UnsetAt(g, i))
  <2> DEFINE s == h.b[i].fieldBuilder
  <2>1. /\ g.b[i].level = h.b[i].level /\ g.b[i].x = h.b[i].x /\ g.b[i].has = h.b[i].has
        /\ g.b[i].field = h.b[i].field /\ g.b[i].fieldBuilder = s
    BY DEF Alike
  <2>2. s # 0 =>
          /\ g.s[s].builder = h.s[s].builder
          /\ h.s[s].builder = 0 => g.s[s].message = h.s[s].message
    BY <1>1 DEF Alike
  <2> QED
    BY <2>1, <2>2 DEF Node, UnsetAt
<1>3. DOMAIN g.b = DOMAIN h.b
  BY DEF Alike
<1> QED
  BY <1>2, <1>3 DEF Nodes, Unset

(* A change of b is a change of its node.                                    *)
LEMMA ButNodes ==
  ASSUME NEW h, h \in Heaps, Linked(h), NEW g, NEW b \in DOMAIN h.b, AlikeBut(h, g, b)
  PROVE  /\ Nodes(g) = [Nodes(h) EXCEPT ![b] = Node(g, b)]
         /\ Unset(h) /\ UnsetAt(g, b) => Unset(g)
<1>1. \A i \in DOMAIN h.b : h.b[i].fieldBuilder # 0 =>
        h.b[i].fieldBuilder \in DOMAIN h.s /\ h.s[h.b[i].fieldBuilder].parent = i
  BY DEF Linked
<1>2. ASSUME NEW i \in DOMAIN h.b, i # b
      PROVE  Node(g, i) = Node(h, i) /\ (UnsetAt(h, i) => UnsetAt(g, i))
  <2> DEFINE s == h.b[i].fieldBuilder
  <2>1. /\ g.b[i].level = h.b[i].level /\ g.b[i].x = h.b[i].x /\ g.b[i].has = h.b[i].has
        /\ g.b[i].field = h.b[i].field /\ g.b[i].fieldBuilder = s
    BY <1>2 DEF AlikeBut
  <2>2. s # 0 =>
          /\ g.s[s].builder = h.s[s].builder
          /\ h.s[s].builder = 0 => g.s[s].message = h.s[s].message
    BY <1>1, <1>2 DEF AlikeBut
  <2> QED
    BY <2>1, <2>2 DEF Node, UnsetAt
<1>3. DOMAIN g.b = DOMAIN h.b
  BY DEF AlikeBut
<1> QED
  BY <1>2, <1>3 DEF Nodes, Unset

-----------------------------------------------------------------------------
(* Changes of a single field, as they show. *)

(* What the assignment to the scalar changes.                                *)
LEMMA EditX ==
  ASSUME NEW h \in Heaps, NEW b \in DOMAIN h.b, NEW v \in Scalars, NEW g, g = [h EXCEPT !.b[b].x = v]
  PROVE  /\ AlikeBut(h, g, b) /\ g.b[b].x = v /\ g.b[b].has = h.b[b].has
         /\ g.b[b].field = h.b[b].field /\ g.b[b].fieldBuilder = h.b[b].fieldBuilder /\ g.s = h.s
<1> DEFINE B == [h.b EXCEPT ![b] = [h.b[b] EXCEPT !.x = v]]
<1>1. h.b[b] \in BuilderObjects
  BY Objects
<1>2. [h EXCEPT !.b[b].x = v] = [h EXCEPT !.b = B]
  OBVIOUS
<1>3. [h EXCEPT !.b = B] = [b |-> B, s |-> h.s]
  BY HeapWith
<1>4. g.b = B /\ g.s = h.s
  BY <1>2, <1>3
<1>5. /\ B[b].x = v /\ B[b].has = h.b[b].has /\ B[b].field = h.b[b].field
      /\ B[b].fieldBuilder = h.b[b].fieldBuilder /\ B[b].level = h.b[b].level
      /\ DOMAIN B = DOMAIN h.b /\ \A i \in DOMAIN h.b : i # b => B[i] = h.b[i]
  BY <1>1 DEF BuilderObjects
<1> HIDE DEF B
<1> QED
  BY <1>4, <1>5 DEF AlikeBut

(* The field of b is set, or not set.                                        *)
WithSet(h, b) == [h EXCEPT !.b[b].has = TRUE]
WithUnset(h, b) == [h EXCEPT !.b[b].has = FALSE]

(* What setting the bit changes.                                             *)
LEMMA EditSet ==
  ASSUME NEW h \in Heaps, NEW b \in DOMAIN h.b, NEW g, g = WithSet(h, b)
  PROVE  /\ AlikeBut(h, g, b) /\ g.b[b].x = h.b[b].x /\ g.b[b].has
         /\ g.b[b].field = h.b[b].field /\ g.b[b].fieldBuilder = h.b[b].fieldBuilder /\ g.s = h.s
         /\ g.b[b].has \in BOOLEAN
<1> DEFINE B == [h.b EXCEPT ![b] = [h.b[b] EXCEPT !.has = TRUE]]
<1>1. h.b[b] \in BuilderObjects
  BY Objects
<1>2. [h EXCEPT !.b[b].has = TRUE] = [h EXCEPT !.b = B]
  OBVIOUS
<1>3. [h EXCEPT !.b = B] = [b |-> B, s |-> h.s]
  BY HeapWith
<1>4. g.b = B /\ g.s = h.s
  BY <1>2, <1>3 DEF WithSet
<1>5. /\ B[b].x = h.b[b].x /\ B[b].has /\ B[b].field = h.b[b].field
      /\ B[b].fieldBuilder = h.b[b].fieldBuilder /\ B[b].level = h.b[b].level
      /\ B[b].has \in BOOLEAN
      /\ DOMAIN B = DOMAIN h.b /\ \A i \in DOMAIN h.b : i # b => B[i] = h.b[i]
  BY <1>1 DEF BuilderObjects
<1> HIDE DEF B
<1> QED
  BY <1>4, <1>5 DEF AlikeBut

(* What clearing the bit changes.                                            *)
LEMMA EditUnset ==
  ASSUME NEW h \in Heaps, NEW b \in DOMAIN h.b, NEW g, g = WithUnset(h, b)
  PROVE  /\ AlikeBut(h, g, b) /\ g.b[b].x = h.b[b].x /\ ~ g.b[b].has
         /\ g.b[b].field = h.b[b].field /\ g.b[b].fieldBuilder = h.b[b].fieldBuilder /\ g.s = h.s
<1> DEFINE B == [h.b EXCEPT ![b] = [h.b[b] EXCEPT !.has = FALSE]]
<1>1. h.b[b] \in BuilderObjects
  BY Objects
<1>2. [h EXCEPT !.b[b].has = FALSE] = [h EXCEPT !.b = B]
  OBVIOUS
<1>3. [h EXCEPT !.b = B] = [b |-> B, s |-> h.s]
  BY HeapWith
<1>4. g.b = B /\ g.s = h.s
  BY <1>2, <1>3 DEF WithUnset
<1>5. /\ B[b].x = h.b[b].x /\ ~ B[b].has /\ B[b].field = h.b[b].field
      /\ B[b].fieldBuilder = h.b[b].fieldBuilder /\ B[b].level = h.b[b].level
      /\ DOMAIN B = DOMAIN h.b /\ \A i \in DOMAIN h.b : i # b => B[i] = h.b[i]
  BY <1>1 DEF BuilderObjects
<1> HIDE DEF B
<1> QED
  BY <1>4, <1>5 DEF AlikeBut

(* What the assignment to the field changes.                                 *)
LEMMA EditField ==
  ASSUME NEW h \in Heaps, NEW b \in DOMAIN h.b, NEW v \in Seq(Scalars),
         NEW g, g = [h EXCEPT !.b[b].field = v]
  PROVE  /\ AlikeBut(h, g, b) /\ g.b[b].x = h.b[b].x /\ g.b[b].has = h.b[b].has
         /\ g.b[b].field = v /\ g.b[b].fieldBuilder = h.b[b].fieldBuilder /\ g.s = h.s
<1> DEFINE B == [h.b EXCEPT ![b] = [h.b[b] EXCEPT !.field = v]]
<1>1. h.b[b] \in BuilderObjects
  BY Objects
<1>2. [h EXCEPT !.b[b].field = v] = [h EXCEPT !.b = B]
  OBVIOUS
<1>3. [h EXCEPT !.b = B] = [b |-> B, s |-> h.s]
  BY HeapWith
<1>4. g.b = B /\ g.s = h.s
  BY <1>2, <1>3
<1>5. /\ B[b].x = h.b[b].x /\ B[b].has = h.b[b].has /\ B[b].field = v
      /\ B[b].fieldBuilder = h.b[b].fieldBuilder /\ B[b].level = h.b[b].level
      /\ DOMAIN B = DOMAIN h.b /\ \A i \in DOMAIN h.b : i # b => B[i] = h.b[i]
  BY <1>1 DEF BuilderObjects
<1> HIDE DEF B
<1> QED
  BY <1>4, <1>5 DEF AlikeBut

(* A change of b in which has is set or unset last.                          *)
LEMMA ThenSet ==
  ASSUME NEW h, NEW k \in Heaps, NEW b \in DOMAIN h.b, AlikeBut(h, k, b),
         NEW g, g = WithSet(k, b)
  PROVE  /\ AlikeBut(h, g, b) /\ g.b[b].x = k.b[b].x /\ g.b[b].has
         /\ g.b[b].field = k.b[b].field /\ g.b[b].fieldBuilder = k.b[b].fieldBuilder /\ g.s = k.s
<1>1. b \in DOMAIN k.b
  BY DEF AlikeBut
<1>2. /\ AlikeBut(k, g, b) /\ g.b[b].x = k.b[b].x /\ g.b[b].has
      /\ g.b[b].field = k.b[b].field /\ g.b[b].fieldBuilder = k.b[b].fieldBuilder /\ g.s = k.s
  BY <1>1, EditSet
<1>3. AlikeBut(h, g, b)
  BY <1>2 DEF AlikeBut
<1> QED
  BY <1>2, <1>3

(* The bit that is cleared after another change of b.                        *)
LEMMA ThenUnset ==
  ASSUME NEW h, NEW k \in Heaps, NEW b \in DOMAIN h.b, AlikeBut(h, k, b),
         NEW g, g = WithUnset(k, b)
  PROVE  /\ AlikeBut(h, g, b) /\ g.b[b].x = k.b[b].x /\ ~ g.b[b].has
         /\ g.b[b].field = k.b[b].field /\ g.b[b].fieldBuilder = k.b[b].fieldBuilder /\ g.s = k.s
<1>1. b \in DOMAIN k.b
  BY DEF AlikeBut
<1>2. /\ AlikeBut(k, g, b) /\ g.b[b].x = k.b[b].x /\ ~ g.b[b].has
      /\ g.b[b].field = k.b[b].field /\ g.b[b].fieldBuilder = k.b[b].fieldBuilder /\ g.s = k.s
  BY <1>1, EditUnset
<1>3. AlikeBut(h, g, b)
  BY <1>2 DEF AlikeBut
<1> QED
  BY <1>2, <1>3

(* What the field builders of h and g hold is the same.                      *)
AlikeFields(h, g) ==
  \A s \in DOMAIN h.s :
    /\ g.s[s].builder = h.s[s].builder
    /\ h.s[s].builder = 0 => g.s[s].message = h.s[s].message

(* What shows of a change of the scalar.                                     *)
LEMMA ToldXShows ==
  ASSUME NEW h, HeapOK(h), NEW b \in DOMAIN h.b, NEW v \in Scalars,
         NEW g, g = OnChanged([h EXCEPT !.b[b].x = v], b)
  PROVE  /\ AlikeBut(h, g, b) /\ g.b[b].x = v /\ g.b[b].has = h.b[b].has
         /\ g.b[b].field = h.b[b].field /\ g.b[b].fieldBuilder = h.b[b].fieldBuilder
         /\ AlikeFields(h, g)
<1> DEFINE k == [h EXCEPT !.b[b].x = v]
<1>1. k = [h EXCEPT !.b[b].x = v] /\ g = OnChanged(k, b) /\ h \in Heaps
  BY DEF HeapOK, Almost
<1> HIDE DEF k
<1>2. /\ AlikeBut(h, k, b) /\ k.b[b].x = v /\ k.b[b].has = h.b[b].has
      /\ k.b[b].field = h.b[b].field /\ k.b[b].fieldBuilder = h.b[b].fieldBuilder /\ k.s = h.s
  BY <1>1, EditX
<1>3. b \in DOMAIN k.b
  BY <1>2 DEF AlikeBut
<1>4. Almost(k, {b})
  <2>1. PICK n : Like(h, b, n) /\ k = Put(h, b, n)
    BY <1>1, PutX
  <2> QED
    BY <2>1, PutOK
<1>5. Alike(k, g)
  BY <1>1, <1>3, <1>4, AlikeOnChanged
<1>6. AlikeBut(h, g, b)
  BY <1>2, <1>5, ButAlike
<1> QED
  BY <1>2, <1>3, <1>5, <1>6 DEF Alike, AlikeFields

(* What shows of a bit that is set.                                          *)
LEMMA ToldSetShows ==
  ASSUME NEW h, HeapOK(h), NEW b \in DOMAIN h.b, NEW g, g = OnChanged(WithSet(h, b), b)
  PROVE  /\ AlikeBut(h, g, b) /\ g.b[b].x = h.b[b].x /\ g.b[b].has
         /\ g.b[b].field = h.b[b].field /\ g.b[b].fieldBuilder = h.b[b].fieldBuilder
         /\ AlikeFields(h, g)
<1> DEFINE k == WithSet(h, b)
<1>1. k = WithSet(h, b) /\ g = OnChanged(k, b) /\ h \in Heaps
  BY DEF HeapOK, Almost
<1> HIDE DEF k
<1>2. /\ AlikeBut(h, k, b) /\ k.b[b].x = h.b[b].x /\ k.b[b].has
      /\ k.b[b].field = h.b[b].field /\ k.b[b].fieldBuilder = h.b[b].fieldBuilder /\ k.s = h.s
  BY <1>1, EditSet
<1>3. b \in DOMAIN k.b
  BY <1>2 DEF AlikeBut
<1>4. Almost(k, {b})
  <2>1. \E n : Like(h, b, n) /\ [h EXCEPT !.b[b].has = TRUE] = Put(h, b, n)
    BY <1>1, PutHas
  <2>2. PICK n : Like(h, b, n) /\ k = Put(h, b, n)
    BY <1>1, <2>1 DEF WithSet
  <2> QED
    BY <2>2, PutOK
<1>5. Alike(k, g)
  BY <1>1, <1>3, <1>4, AlikeOnChanged
<1>6. AlikeBut(h, g, b)
  BY <1>2, <1>5, ButAlike
<1> QED
  BY <1>2, <1>3, <1>5, <1>6 DEF Alike, AlikeFields

(* What shows of a change of the field.                                      *)
LEMMA ToldFieldShows ==
  ASSUME NEW h, HeapOK(h), NEW b \in DOMAIN h.b, NEW v \in Seq(Scalars),
         NEW g, g = OnChanged([h EXCEPT !.b[b].field = v], b)
  PROVE  /\ AlikeBut(h, g, b) /\ g.b[b].x = h.b[b].x /\ g.b[b].has = h.b[b].has
         /\ g.b[b].field = v /\ g.b[b].fieldBuilder = h.b[b].fieldBuilder
         /\ AlikeFields(h, g)
<1> DEFINE k == [h EXCEPT !.b[b].field = v]
<1>1. k = [h EXCEPT !.b[b].field = v] /\ g = OnChanged(k, b) /\ h \in Heaps
  BY DEF HeapOK, Almost
<1> HIDE DEF k
<1>2. /\ AlikeBut(h, k, b) /\ k.b[b].x = h.b[b].x /\ k.b[b].has = h.b[b].has
      /\ k.b[b].field = v /\ k.b[b].fieldBuilder = h.b[b].fieldBuilder /\ k.s = h.s
  BY <1>1, EditField
<1>3. b \in DOMAIN k.b
  BY <1>2 DEF AlikeBut
<1>4. Almost(k, {b})
  <2>1. PICK n : Like(h, b, n) /\ k = Put(h, b, n)
    BY <1>1, PutField
  <2> QED
    BY <2>1, PutOK
<1>5. Alike(k, g)
  BY <1>1, <1>3, <1>4, AlikeOnChanged
<1>6. AlikeBut(h, g, b)
  BY <1>2, <1>5, ButAlike
<1> QED
  BY <1>2, <1>3, <1>5, <1>6 DEF Alike, AlikeFields

(* What shows of setMessage: the message.                                    *)
LEMMA SetMessageShows ==
  ASSUME NEW h, HeapOK(h), NEW s \in DOMAIN h.s, NEW b \in DOMAIN h.b, h.s[s].parent = b,
         NEW m \in Contentful, NEW g, g = SetMessage(h, s, m)
  PROVE  /\ AlikeBut(h, g, b) /\ g.b[b].x = h.b[b].x /\ g.b[b].has = h.b[b].has
         /\ g.b[b].field = h.b[b].field /\ g.b[b].fieldBuilder = h.b[b].fieldBuilder
         /\ s \in DOMAIN g.s /\ g.s[s].builder = 0 /\ g.s[s].message = m
<1> DEFINE k == Disposed(h, s, m)
<1>1. k = Disposed(h, s, m) /\ g = FieldChanged(k, s)
  BY SetMessageIs DEF HeapOK, Almost
<1> HIDE DEF k
<1>2. /\ k \in Heaps /\ DOMAIN k.s = DOMAIN h.s /\ DOMAIN k.b = DOMAIN h.b
      /\ k.s[s].parent = h.s[s].parent /\ k.s[s].message = m /\ k.s[s].builder = 0
      /\ \A u \in DOMAIN h.s : u # s => k.s[u] = h.s[u]
      /\ \A i \in DOMAIN h.b :
           /\ k.b[i].level = h.b[i].level /\ k.b[i].x = h.b[i].x /\ k.b[i].has = h.b[i].has
           /\ k.b[i].field = h.b[i].field /\ k.b[i].fieldBuilder = h.b[i].fieldBuilder
  BY <1>1, DisposedFields DEF HeapOK, Almost
<1>3. AlikeBut(h, k, b)
  BY <1>2 DEF AlikeBut
<1>4. Almost(k, {h.s[s].parent})
  BY <1>1, DisposedOK
<1>5. Alike(k, g)
  BY <1>1, <1>2, <1>4, AlikeFieldChanged
<1>6. AlikeBut(h, g, b)
  BY <1>3, <1>5, ButAlike
<1> QED
  BY <1>2, <1>5, <1>6 DEF Alike

(* What shows of a message that replaces one that had no builder.            *)
LEMMA FieldMessageShows ==
  ASSUME NEW h, HeapOK(h), NEW s \in DOMAIN h.s, NEW b \in DOMAIN h.b, h.s[s].parent = b,
         h.s[s].builder = 0, NEW m \in Contentful,
         NEW g, g = FieldChanged([h EXCEPT !.s[s].message = m], s)
  PROVE  /\ AlikeBut(h, g, b) /\ g.b[b].x = h.b[b].x /\ g.b[b].has = h.b[b].has
         /\ g.b[b].field = h.b[b].field /\ g.b[b].fieldBuilder = h.b[b].fieldBuilder
         /\ s \in DOMAIN g.s /\ g.s[s].builder = 0 /\ g.s[s].message = m
<1> DEFINE F == [h.s EXCEPT ![s] = [h.s[s] EXCEPT !.message = m]]
<1>1. h \in Heaps
  BY DEF HeapOK, Almost
<1>2. [h EXCEPT !.s[s].message = m] = [h EXCEPT !.s = F]
  OBVIOUS
<1>3. h.s[s] \in FieldBuilderObjects
  BY <1>1, Objects
<1>4. [h.s[s] EXCEPT !.message = m] = [h.s[s] EXCEPT !.message = m, !.builder = 0]
  BY <1>3 DEF FieldBuilderObjects
<1>5. Disposed(h, s, m) = [b |-> h.b, s |-> F]
  BY <1>4 DEF Disposed
<1> HIDE DEF F
<1>6. [h EXCEPT !.s[s].message = m] = Disposed(h, s, m)
  BY <1>1, <1>2, <1>5, HeapWith
<1>7. g = SetMessage(h, s, m)
  BY <1>1, <1>6, SetMessageIs
<1> QED
  BY <1>7, SetMessageShows

-----------------------------------------------------------------------------
(* Each operation does to the tree what MessageTree says. *)

TreeOK(h) == HeapOK(h) /\ Unset(h)

(* The node of b.                                                            *)
LEMMA NodesAt ==
  ASSUME NEW h, NEW b \in DOMAIN h.b
  PROVE  Nodes(h)[b] = Node(h, b) /\ DOMAIN Nodes(h) = DOMAIN h.b
  BY DEF Nodes

(* A change that shows in the scalar only is one of the node's.              *)
LEMMA XNodes ==
  ASSUME NEW h, h \in Heaps, Linked(h), Unset(h), NEW b \in DOMAIN h.b, NEW v, NEW g,
         AlikeBut(h, g, b), g.b[b].x = v, g.b[b].has = h.b[b].has,
         g.b[b].field = h.b[b].field, g.b[b].fieldBuilder = h.b[b].fieldBuilder,
         AlikeFields(h, g)
  PROVE  Nodes(g) = [Nodes(h) EXCEPT ![b].x = v] /\ Unset(g)
<1> DEFINE s == h.b[b].fieldBuilder
<1>1. s # 0 =>
        /\ g.s[s].builder = h.s[s].builder
        /\ h.s[s].builder = 0 => g.s[s].message = h.s[s].message
  BY DEF AlikeFields, Linked
<1>2. g.b[b].level = h.b[b].level
  BY DEF AlikeBut
<1>3. UnsetAt(h, b)
  BY DEF Unset
<1>4. UnsetAt(g, b)
  BY <1>1, <1>3 DEF UnsetAt
<1>5. Node(g, b) = [Node(h, b) EXCEPT !.x = v]
  BY <1>1, <1>2 DEF Node
<1>6. Nodes(g) = [Nodes(h) EXCEPT ![b] = Node(g, b)] /\ Unset(g)
  BY <1>4, ButNodes
<1>7. [Nodes(h) EXCEPT ![b].x = v] = [Nodes(h) EXCEPT ![b] = [Node(h, b) EXCEPT !.x = v]]
  BY NodesAt
<1> QED
  BY <1>5, <1>6, <1>7

(* SetX is SetX of the tree.                                                 *)
LEMMA SetXNodes ==
  ASSUME NEW h, TreeOK(h), NEW b \in DOMAIN h.b, NEW v \in Scalars, NEW g, g = SetX(h, b, v)
  PROVE  Nodes(g) = [Nodes(h) EXCEPT ![b].x = v] /\ Unset(g)
<1>1. HeapOK(h) /\ h \in Heaps /\ Linked(h) /\ Unset(h)
  BY DEF TreeOK, HeapOK, Almost
<1>2. /\ AlikeBut(h, g, b) /\ g.b[b].x = v /\ g.b[b].has = h.b[b].has
      /\ g.b[b].field = h.b[b].field /\ g.b[b].fieldBuilder = h.b[b].fieldBuilder
      /\ AlikeFields(h, g)
  BY <1>1, ToldXShows DEF SetX
<1> QED
  BY <1>1, <1>2, XNodes

(* A node whose child is the message m, and a tree in which n is b's node.    *)
Parent(n, m) == [n EXCEPT !.child = m, !.sub = 0]
At(ns, b, n) == [ns EXCEPT ![b] = n]

(* A node that gets a message for its child is the only one that changes.    *)
LEMMA WithChildIs ==
  ASSUME NEW h, NEW b \in DOMAIN h.b, NEW m
  PROVE  Tree!WithChild(Nodes(h), b, m) = At(Nodes(h), b, Parent(Node(h, b), m))
<1> DEFINE n == Node(h, b)
<1>1. Nodes(h)[b] = n /\ b \in DOMAIN Nodes(h)
  BY NodesAt
<1> HIDE DEF n
<1> DEFINE ns == Nodes(h)
           ns1 == [ns EXCEPT ![b] = [n EXCEPT !.child = m]]
<1>2. [ns EXCEPT ![b].child = m, ![b].sub = 0] =
        [[ns EXCEPT ![b].child = m] EXCEPT ![b].sub = 0]
  OBVIOUS
<1>3. [ns EXCEPT ![b].child = m] = ns1
  BY <1>1
<1>4. ns1[b] = [n EXCEPT !.child = m]
  BY <1>1
<1>5. [ns1 EXCEPT ![b].sub = 0] = [ns EXCEPT ![b] = [[n EXCEPT !.child = m] EXCEPT !.sub = 0]]
  BY <1>1, <1>4
<1>6. [[n EXCEPT !.child = m] EXCEPT !.sub = 0] = [n EXCEPT !.child = m, !.sub = 0]
  OBVIOUS
<1> QED
  BY <1>2, <1>3, <1>5, <1>6 DEF Tree!WithChild, n, At, Parent

(* b has got the child m, which is a message or none.                        *)
LEMMA ChildIs ==
  ASSUME NEW h, TreeOK(h), NEW b \in DOMAIN h.b, NEW g, NEW m, AlikeBut(h, g, b),
         g.b[b].x = h.b[b].x, UnsetAt(g, b), Node(g, b).child = m, Node(g, b).sub = 0
  PROVE  Nodes(g) = Tree!WithChild(Nodes(h), b, m) /\ Unset(g)
<1>1. h \in Heaps /\ Linked(h) /\ Unset(h)
  BY DEF TreeOK, HeapOK, Almost
<1>2. Nodes(g) = [Nodes(h) EXCEPT ![b] = Node(g, b)] /\ Unset(g)
  BY <1>1, ButNodes
<1>3. Node(g, b).level = Node(h, b).level /\ Node(g, b).x = Node(h, b).x
  BY DEF AlikeBut, Node
<1>4. Node(g, b) = Parent(Node(h, b), m)
  <2> DEFINE n == Node(h, b)
             o == Node(g, b)
  <2>1. /\ n = [level |-> n.level, x |-> n.x, child |-> n.child, sub |-> n.sub]
        /\ o = [level |-> o.level, x |-> o.x, child |-> o.child, sub |-> o.sub]
    BY DEF Node
  <2>2. o.level = n.level /\ o.x = n.x /\ o.child = m /\ o.sub = 0
    BY <1>3
  <2> HIDE DEF n, o
  <2>3. o = [n EXCEPT !.child = m, !.sub = 0]
    BY <2>1, <2>2
  <2> QED
    BY <2>3 DEF n, o, Parent
<1>5. Nodes(g) = At(Nodes(h), b, Node(g, b))
  BY <1>2 DEF At
<1> QED
  BY <1>2, <1>4, <1>5, WithChildIs

(* SetField is SetField of the tree.                                         *)
LEMMA SetFieldNodes ==
  ASSUME NEW h, TreeOK(h), NEW b \in DOMAIN h.b, NEW m \in Contentful,
         NEW g, g = SetField(h, b, m)
  PROVE  Nodes(g) = Tree!WithChild(Nodes(h), b, m) /\ Unset(g)
<1> DEFINE s == h.b[b].fieldBuilder
           k == IF s = 0 THEN OnChanged([h EXCEPT !.b[b].field = m], b) ELSE SetMessage(h, s, m)
<1>1. HeapOK(h)
  BY DEF TreeOK
<1>2. g = WithSet(k, b)
  BY DEF SetField, WithSet
<1>3. CASE s = 0
  <2>1. k = OnChanged([h EXCEPT !.b[b].field = m], b) /\ m \in Seq(Scalars)
    BY <1>3 DEF Contentful
  <2> HIDE DEF k
  <2>2. /\ AlikeBut(h, k, b) /\ k.b[b].x = h.b[b].x
        /\ k.b[b].field = m /\ k.b[b].fieldBuilder = 0
    BY <1>1, <1>3, <2>1, ToldFieldShows
  <2>3. k \in Heaps
    BY <1>1, <2>1, ToldField DEF HeapOK, Almost
  <2>4. /\ AlikeBut(h, g, b) /\ g.b[b].x = h.b[b].x /\ g.b[b].has
        /\ g.b[b].field = m /\ g.b[b].fieldBuilder = 0
    BY <1>1, <1>2, <2>2, <2>3, ThenSet
  <2> QED
    BY <2>4, ChildIs DEF Node, UnsetAt
<1>4. CASE s # 0
  <2>1. k = SetMessage(h, s, m) /\ s \in DOMAIN h.s /\ h.s[s].parent = b
    BY <1>1, <1>4, FieldOf
  <2>2. h.b[b].fieldBuilder = s
    OBVIOUS
  <2> HIDE DEF k, s
  <2>3. /\ AlikeBut(h, k, b) /\ k.b[b].x = h.b[b].x /\ k.b[b].fieldBuilder = s
        /\ k.s[s].builder = 0 /\ k.s[s].message = m
    BY <1>1, <2>1, <2>2, SetMessageShows
  <2>4. k \in Heaps
    BY <1>1, <2>1, SetMessageOK DEF HeapOK, Almost
  <2>6. /\ AlikeBut(h, g, b) /\ g.b[b].x = k.b[b].x /\ g.b[b].has
        /\ g.b[b].fieldBuilder = k.b[b].fieldBuilder /\ g.s = k.s
    BY <1>2, <2>3, <2>4, ThenSet
  <2>5. /\ AlikeBut(h, g, b) /\ g.b[b].x = h.b[b].x /\ g.b[b].has
        /\ g.b[b].fieldBuilder = s /\ g.s[s].builder = 0 /\ g.s[s].message = m
    BY <2>3, <2>6
  <2> QED
    BY <1>4, <2>5, ChildIs DEF Node, UnsetAt
<1> QED
  BY <1>3, <1>4

(* So is ClearField, with no message.                                        *)
LEMMA ClearFieldNodes ==
  ASSUME FieldPresence,
         NEW h, TreeOK(h), NEW b \in DOMAIN h.b, NEW g, g = ClearField(h, b)
  PROVE  Nodes(g) = Tree!WithChild(Nodes(h), b, NONE) /\ Unset(g)
<1> DEFINE s == h.b[b].fieldBuilder
           k == IF s = 0 THEN OnChanged([h EXCEPT !.b[b].field = NONE], b)
                ELSE SetMessage(h, s, Default)
<1>1. HeapOK(h)
  BY DEF TreeOK
<1>2. g = WithUnset(k, b)
  <2>1. CASE s = 0
    BY <2>1 DEF ClearField, WithUnset
  <2>2. CASE s # 0
    BY <2>2 DEF ClearField, WithUnset
  <2> QED
    BY <2>1, <2>2
<1>3. CASE s = 0
  <2>1. k = OnChanged([h EXCEPT !.b[b].field = NONE], b)
    BY <1>3
  <2> HIDE DEF k
  <2>2. /\ AlikeBut(h, k, b) /\ k.b[b].x = h.b[b].x
        /\ k.b[b].field = NONE /\ k.b[b].fieldBuilder = 0
    BY <1>1, <1>3, <2>1, DefaultType, ToldFieldShows
  <2>3. k \in Heaps
    BY <1>1, <2>1, DefaultType, ToldField DEF HeapOK, Almost
  <2>4. /\ AlikeBut(h, g, b) /\ g.b[b].x = h.b[b].x /\ ~ g.b[b].has
        /\ g.b[b].field = NONE /\ g.b[b].fieldBuilder = 0
    BY <1>1, <1>2, <2>2, <2>3, ThenUnset
  <2> QED
    BY <2>4, ChildIs DEF Node, UnsetAt
<1>4. CASE s # 0
  <2>1. k = SetMessage(h, s, Default) /\ s \in DOMAIN h.s /\ h.s[s].parent = b
    BY <1>1, <1>4, FieldOf
  <2>2. h.b[b].fieldBuilder = s
    OBVIOUS
  <2> HIDE DEF k, s
  <2>3. /\ AlikeBut(h, k, b) /\ k.b[b].x = h.b[b].x /\ k.b[b].fieldBuilder = s
        /\ k.s[s].builder = 0 /\ k.s[s].message = Default
    BY <1>1, <2>1, <2>2, DefaultType, SetMessageShows
  <2>4. k \in Heaps
    BY <1>1, <2>1, DefaultType, SetMessageOK DEF HeapOK, Almost
  <2>5. /\ AlikeBut(h, g, b) /\ g.b[b].x = h.b[b].x /\ ~ g.b[b].has
        /\ g.b[b].fieldBuilder = s /\ g.s[s].builder = 0 /\ g.s[s].message = Default
    BY <1>1, <1>2, <2>3, <2>4, ThenUnset
  <2> QED
    BY <1>4, <2>5, ChildIs DEF Node, UnsetAt
<1> QED
  BY <1>3, <1>4

(* Before a change of b, what does not show does not matter.                 *)
LEMMA ButBut ==
  ASSUME NEW h, NEW k, NEW g, NEW b \in DOMAIN h.b, Alike(h, k), AlikeBut(k, g, b),
         \A s \in DOMAIN h.s : k.s[s].parent = h.s[s].parent
  PROVE  AlikeBut(h, g, b)
  BY DEF Alike, AlikeBut

(* Clear is Clear of the tree.                                               *)
LEMMA ClearNodes ==
  ASSUME FieldPresence,
         NEW h, TreeOK(h), NEW b \in DOMAIN h.b, NEW g, g = Clear(h, b)
  PROVE  Nodes(g) = Tree!WithChild([Nodes(h) EXCEPT ![b].x = 0], b, NONE) /\ Unset(g)
<1> DEFINE s == h.b[b].fieldBuilder
           k0 == OnChanged(h, b)
           k1 == [k0 EXCEPT !.b[b].x = 0]
           k == IF s = 0 THEN [k1 EXCEPT !.b[b].field = NONE] ELSE SetMessage(k1, s, Default)
<1>0. HeapOK(h) /\ h \in Heaps /\ Linked(h) /\ Unset(h)
  BY DEF TreeOK, HeapOK, Almost
<1>1. g = WithUnset(k, b)
  <2>1. CASE s = 0
    BY <2>1 DEF Clear, WithUnset
  <2>2. CASE s # 0
    BY <2>2 DEF Clear, WithUnset
  <2> QED
    BY <2>1, <2>2
<1>2. HeapOK(k0) /\ ~ Owes(k0, b) /\ Grown(h, k0) /\ Alike(h, k0)
  BY <1>0, OnChangedOK, AlikeOnChanged DEF HeapOK
<1>3. k1 = [k0 EXCEPT !.b[b].x = 0] /\ b \in DOMAIN k0.b
  BY <1>2 DEF Grown
<1> HIDE DEF k0, k1
<1>4. HeapOK(k1) /\ Grown(k0, k1) /\ ~ Owes(k1, b)
  BY <1>2, <1>3, Scalar, UntoldX
<1>5. /\ AlikeBut(k0, k1, b) /\ k1.b[b].x = 0 /\ k1.b[b].has = k0.b[b].has
      /\ k1.b[b].field = k0.b[b].field /\ k1.b[b].fieldBuilder = k0.b[b].fieldBuilder
      /\ k1.s = k0.s
  <2>1. k0 \in Heaps
    BY <1>2 DEF HeapOK, Almost
  <2> QED
    BY <1>3, <2>1, Scalar, EditX
<1>6. /\ AlikeBut(h, k1, b) /\ k1.b[b].x = 0 /\ k1.b[b].has = h.b[b].has
      /\ k1.b[b].field = h.b[b].field /\ k1.b[b].fieldBuilder = s
      /\ AlikeFields(h, k1)
  <2>1. AlikeBut(h, k1, b)
    BY <1>2, <1>5, ButBut DEF Grown
  <2> QED
    BY <1>2, <1>5, <2>1 DEF Alike, AlikeFields
<1>7. Nodes(k1) = [Nodes(h) EXCEPT ![b].x = 0] /\ Unset(k1)
  BY <1>0, <1>6, XNodes
<1>8. TreeOK(k1) /\ b \in DOMAIN k1.b /\ k1 \in Heaps
  BY <1>3, <1>4, <1>7 DEF TreeOK, Grown, HeapOK, Almost
<1>9. CASE s = 0
  <2>1. k = [k1 EXCEPT !.b[b].field = NONE]
    BY <1>9
  <2> HIDE DEF k
  <2>2. /\ AlikeBut(k1, k, b) /\ k.b[b].x = k1.b[b].x
        /\ k.b[b].field = NONE /\ k.b[b].fieldBuilder = 0
    BY <1>6, <1>8, <1>9, <2>1, DefaultType, EditField
  <2>3. k \in Heaps
    BY <1>4, <1>8, <2>1, DefaultType, UntoldField DEF HeapOK, Almost
  <2>6. /\ AlikeBut(k1, g, b) /\ g.b[b].x = k.b[b].x /\ ~ g.b[b].has
        /\ g.b[b].field = k.b[b].field /\ g.b[b].fieldBuilder = k.b[b].fieldBuilder
    BY <1>1, <1>8, <2>2, <2>3, ThenUnset
  <2>4. /\ AlikeBut(k1, g, b) /\ g.b[b].x = k1.b[b].x /\ ~ g.b[b].has
        /\ g.b[b].field = NONE /\ g.b[b].fieldBuilder = 0
    BY <2>2, <2>6
  <2>5. Nodes(g) = Tree!WithChild(Nodes(k1), b, NONE) /\ Unset(g)
    BY <1>8, <2>4, ChildIs DEF Node, UnsetAt
  <2> QED
    BY <1>7, <2>5
<1>10. CASE s # 0
  <2>1. k = SetMessage(k1, s, Default) /\ s \in DOMAIN k1.s /\ k1.s[s].parent = b
    BY <1>4, <1>6, <1>8, <1>10, FieldOf
  <2> HIDE DEF k, s
  <2>3. /\ AlikeBut(k1, k, b) /\ k.b[b].x = k1.b[b].x /\ k.b[b].fieldBuilder = s
        /\ k.s[s].builder = 0 /\ k.s[s].message = Default
    BY <1>4, <1>6, <1>8, <2>1, DefaultType, SetMessageShows
  <2>4. k \in Heaps
    BY <1>4, <2>1, DefaultType, SetMessageOK DEF HeapOK, Almost
  <2>7. /\ AlikeBut(k1, g, b) /\ g.b[b].x = k.b[b].x /\ ~ g.b[b].has
        /\ g.b[b].fieldBuilder = k.b[b].fieldBuilder /\ g.s = k.s
    <3>1. g = WithUnset(k, b) /\ b \in DOMAIN k1.b /\ AlikeBut(k1, k, b)
      BY <1>1, <1>8, <2>3
    <3> QED
      BY <2>4, <3>1, ThenUnset
  <2>5. /\ AlikeBut(k1, g, b) /\ g.b[b].x = k1.b[b].x /\ ~ g.b[b].has
        /\ g.b[b].fieldBuilder = s /\ g.s[s].builder = 0 /\ g.s[s].message = Default
    BY <2>3, <2>7
  <2>6. Nodes(g) = Tree!WithChild(Nodes(k1), b, NONE) /\ Unset(g)
    BY <1>8, <1>10, <2>5, ChildIs DEF Node, UnsetAt
  <2> QED
    BY <1>7, <2>6
<1> QED
  BY <1>9, <1>10

-----------------------------------------------------------------------------
(* What Attached adds: the node of b is n, and that of its builder o.         *)
AttachedTo(ns, b, gs, n, o) ==
  gs = [i \in 1..Len(ns) + 1 |-> IF i = Len(ns) + 1 THEN o ELSE IF i = b THEN n ELSE ns[i]]

(* The nodes are a sequence, one for each Builder.                           *)
LEMMA NodesSeq ==
  ASSUME NEW h \in Heaps
  PROVE  /\ Nodes(h) \in Seq({Node(h, i) : i \in DOMAIN h.b})
         /\ Len(Nodes(h)) = Len(h.b) /\ DOMAIN Nodes(h) = DOMAIN h.b
<1> DEFINE S == {Node(h, i) : i \in DOMAIN h.b}
           N == Len(h.b)
           f == Nodes(h)
<1>1. N \in Nat /\ DOMAIN h.b = 1..N
  BY Objects
<1>2. f \in [1..N -> S]
  BY <1>1 DEF Nodes
<1> HIDE DEF S, N, f
<1>3. f \in Seq(S) /\ Len(f) = N /\ DOMAIN f = 1..N
  BY <1>1, <1>2, SequenceOf
<1> QED
  BY <1>1, <1>3 DEF S, N, f

(* What becoming a builder does to a child, node by node.                    *)
LEMMA AttachedIs ==
  ASSUME NEW S, NEW ns \in Seq(S), NEW b \in DOMAIN ns
  PROVE  LET m == IF ns[b].child = NONE THEN Default ELSE ns[b].child
             n == [ns[b] EXCEPT !.child = NONE, !.sub = Len(ns) + 1]
             o == [level |-> ns[b].level + 1, x |-> Head(m), child |-> Tail(m), sub |-> 0]
         IN AttachedTo(ns, b, Tree!Attached(ns, b), n, o)
<1> DEFINE m == IF ns[b].child = NONE THEN Default ELSE ns[b].child
           c == Len(ns) + 1
           n1 == [ns[b] EXCEPT !.child = NONE]
           n == [ns[b] EXCEPT !.child = NONE, !.sub = c]
           o == [level |-> ns[b].level + 1, x |-> Head(m), child |-> Tail(m), sub |-> 0]
           gs == [ns EXCEPT ![b].child = NONE, ![b].sub = c]
           T == S \cup {n, o}
<1>1. Tree!Attached(ns, b) = Append(gs, o)
  BY DEF Tree!Attached, Tree!NONE, Tree!Default, NONE, Default
<1>2. gs = [ns EXCEPT ![b] = n]
  <2>1. gs = [[ns EXCEPT ![b].child = NONE] EXCEPT ![b].sub = c]
    OBVIOUS
  <2>2. [ns EXCEPT ![b].child = NONE] = [ns EXCEPT ![b] = n1]
    OBVIOUS
  <2>3. [[ns EXCEPT ![b] = n1] EXCEPT ![b].sub = c] = [ns EXCEPT ![b] = [n1 EXCEPT !.sub = c]]
    OBVIOUS
  <2>4. [n1 EXCEPT !.sub = c] = n
    OBVIOUS
  <2> QED
    BY <2>1, <2>2, <2>3, <2>4
<1>3. n \in T /\ o \in T /\ S \subseteq T
  OBVIOUS
<1>4. Len(ns) \in Nat /\ DOMAIN ns = 1..Len(ns)
  BY LenProperties
<1> HIDE DEF n, o, T, gs
<1>5. /\ gs \in Seq(T) /\ DOMAIN gs = 1..Len(ns) /\ gs[b] = n
      /\ \A i \in 1..Len(ns) : i # b => gs[i] = ns[i]
  <2>1. gs \in [1..Len(ns) -> T] /\ gs[b] = n /\ \A i \in 1..Len(ns) : i # b => gs[i] = ns[i]
    <3>1. \A i \in 1..Len(ns) : ns[i] \in S
      BY <1>4, ElementOfSeq
    <3> QED
      BY <1>2, <1>3, <1>4, <3>1
  <2> QED
    BY <1>4, <2>1, SequenceOf
<1>6. Len(gs) = Len(ns)
  BY <1>4, <1>5, LenProperties
<1> DEFINE A == Append(gs, o)
<1>7. /\ A \in Seq(T) /\ Len(A) = Len(ns) + 1
      /\ \A i \in 1..Len(ns) : A[i] = gs[i]
      /\ A[Len(ns) + 1] = o
  BY <1>3, <1>5, <1>6, AppendProperties
<1> HIDE DEF A
<1>8. A = [i \in 1..Len(ns) + 1 |-> A[i]]
  BY <1>7, LenProperties
<1>9. \A i \in 1..Len(ns) + 1 :
        A[i] = IF i = Len(ns) + 1 THEN o ELSE IF i = b THEN n ELSE ns[i]
  BY <1>4, <1>5, <1>7
<1>10. AttachedTo(ns, b, A, n, o)
  BY <1>8, <1>9 DEF AttachedTo
<1>11. AttachedTo(ns, b, Tree!Attached(ns, b), n, o)
  BY <1>1, <1>10 DEF A
<1> QED
  BY <1>11 DEF n, o

(* getBuilder makes a builder of the child.                                  *)
LEMMA GetBuilderNodes ==
  ASSUME NEW h, TreeOK(h), NEW s \in DOMAIN h.s, h.s[s].builder = 0,
         NEW b \in DOMAIN h.b, h.s[s].parent = b, h.b[b].has,
         NEW g, g = GetBuilder(h, s)
  PROVE  Nodes(g) = Tree!Attached(Nodes(h), b) /\ Unset(g)
<1>1. h \in Heaps /\ Linked(h) /\ Unset(h)
  BY DEF TreeOK, HeapOK, Almost
<1>2. PICK c : AddedBuilder(h, s, g, c)
  BY <1>1, NewBuilder
<1> DEFINE ns == Nodes(h)
           m == h.s[s].message
           n == [ns[b] EXCEPT !.child = NONE, !.sub = Len(ns) + 1]
           o == [level |-> ns[b].level + 1, x |-> Head(m), child |-> Tail(m), sub |-> 0]
<1>3. h.b[b].fieldBuilder = s /\ m # NONE /\ s # 0
  <2>1. h.b[b].fieldBuilder = s /\ m # NONE
    BY <1>1 DEF Linked
  <2>2. DOMAIN h.s = 1..Len(h.s) /\ Len(h.s) \in Nat
    BY <1>1, Objects
  <2> QED
    BY <2>1, <2>2
<1>4. Len(ns) = Len(h.b) /\ c = Len(ns) + 1 /\ DOMAIN ns = DOMAIN h.b /\ Len(h.b) \in Nat
      /\ DOMAIN h.b = 1..Len(h.b)
  BY <1>1, <1>2, NodesSeq, Objects DEF AddedBuilder
<1>5. ns[b] = Node(h, b) /\ Node(h, b).child = m
  BY <1>3, NodesAt DEF Node
<1>6. Node(g, c) = o /\ UnsetAt(g, c)
  <2>1. o.level = h.b[b].level + 1
    BY <1>5 DEF Node
  <2>2. /\ g.b[c].level = h.b[b].level + 1 /\ g.b[c].x = Head(m) /\ g.b[c].field = Tail(m)
        /\ g.b[c].fieldBuilder = 0
    BY <1>2 DEF AddedBuilder
  <2>3. g.b[c].has <=> Tail(m) # NONE
    BY <1>2 DEF AddedBuilder
  <2>4. UnsetAt(g, c)
    BY <2>2, <2>3 DEF UnsetAt
  <2>5. (IF FieldPresence /\ ~ g.b[c].has THEN NONE ELSE g.b[c].field) = Tail(m)
    BY <2>2, <2>3
  <2>6. /\ Node(g, c).level = h.b[b].level + 1 /\ Node(g, c).x = Head(m)
        /\ Node(g, c).child = Tail(m) /\ Node(g, c).sub = 0
    BY <2>2, <2>5 DEF Node
  <2>7. Node(g, c) = [level |-> Node(g, c).level, x |-> Node(g, c).x,
                      child |-> Node(g, c).child, sub |-> Node(g, c).sub]
    BY DEF Node
  <2>8. Node(g, c) = o
    BY <2>1, <2>6, <2>7
  <2> QED
    BY <2>4, <2>8
<1>7. Node(g, b) = n /\ UnsetAt(g, b)
  <2>1. g.b[b] = h.b[b] /\ g.s[s].builder = c /\ c # 0
    BY <1>2 DEF AddedBuilder
  <2>2. UnsetAt(g, b)
    BY <2>1 DEF UnsetAt
  <2>3. Node(g, b) = [level |-> h.b[b].level, x |-> h.b[b].x, child |-> NONE, sub |-> c]
    BY <1>3, <2>1 DEF Node
  <2>4. n = [level |-> h.b[b].level, x |-> h.b[b].x, child |-> NONE, sub |-> c]
    <3> DEFINE k == Node(h, b)
    <3>1. /\ k = [level |-> k.level, x |-> k.x, child |-> k.child, sub |-> k.sub]
          /\ k.level = h.b[b].level /\ k.x = h.b[b].x
      BY DEF Node
    <3>2. n = [k EXCEPT !.child = NONE, !.sub = c]
      BY <1>4, <1>5
    <3> HIDE DEF k, n
    <3> QED
      BY <3>1, <3>2
  <2> QED
    BY <2>2, <2>3, <2>4
<1>8. ASSUME NEW i \in DOMAIN h.b, i # b
      PROVE  Node(g, i) = ns[i] /\ UnsetAt(g, i)
  <2> DEFINE u == h.b[i].fieldBuilder
  <2>1. g.b[i] = h.b[i]
    BY <1>2 DEF AddedBuilder
  <2>2. u # 0 => u \in DOMAIN h.s /\ u # s
    BY <1>1, <1>8 DEF Linked
  <2>3. u # 0 => g.s[u] = h.s[u]
    BY <1>2, <2>2 DEF AddedBuilder
  <2>4. Node(g, i) = Node(h, i)
    BY <2>1, <2>3 DEF Node
  <2>5. UnsetAt(h, i)
    BY <1>1 DEF Unset
  <2>6. UnsetAt(g, i)
    BY <2>1, <2>3, <2>5 DEF UnsetAt
  <2> QED
    BY <2>4, <2>6, NodesAt
<1>9. DOMAIN g.b = 1..Len(ns) + 1
  BY <1>2, <1>4 DEF AddedBuilder
<1>10. Unset(g)
  <2> SUFFICES ASSUME NEW i \in DOMAIN g.b PROVE UnsetAt(g, i)
    BY DEF Unset
  <2>1. i = c \/ i \in DOMAIN h.b
    BY <1>2 DEF AddedBuilder
  <2> QED
    BY <1>6, <1>7, <1>8, <2>1
<1> DEFINE A == Tree!Attached(ns, b)
<1>11. AttachedTo(ns, b, A, n, o)
  <2> DEFINE S == {Node(h, i) : i \in DOMAIN h.b}
             m1 == IF ns[b].child = NONE THEN Default ELSE ns[b].child
  <2>1. ns \in Seq(S) /\ b \in DOMAIN ns
    BY <1>1, <1>4, NodesSeq
  <2>2. m1 = m
    BY <1>3, <1>5
  <2>3. AttachedTo(ns, b, A, n, [level |-> ns[b].level + 1, x |-> Head(m1), child |-> Tail(m1), sub |-> 0])
    <3> HIDE DEF ns, S
    <3> QED
      BY <2>1, AttachedIs
  <2> QED
    BY <2>2, <2>3
<1> HIDE DEF n, o, A, m
<1>12. Nodes(g) = [i \in 1..Len(ns) + 1 |-> Node(g, i)]
  BY <1>9 DEF Nodes
<1> HIDE DEF ns
<1>13. \A i \in 1..Len(ns) + 1 :
         Node(g, i) = IF i = Len(ns) + 1 THEN o ELSE IF i = b THEN n ELSE ns[i]
  BY <1>4, <1>6, <1>7, <1>8
<1>14. Nodes(g) = A
  BY <1>11, <1>12, <1>13 DEF AttachedTo
<1> QED
  BY <1>10, <1>14 DEF A, ns

(* A node with another child, written out.                                   *)
LEMMA Rewired ==
  ASSUME NEW k, k = [level |-> k.level, x |-> k.x, child |-> k.child, sub |-> k.sub],
         NEW m, NEW c, NEW n, n = [k EXCEPT !.child = m, !.sub = c]
  PROVE  n = [level |-> k.level, x |-> k.x, child |-> m, sub |-> c]
<1>1. PICK a, x, p, q : k = [level |-> a, x |-> x, child |-> p, sub |-> q]
  OBVIOUS
<1>2. n = [level |-> a, x |-> x, child |-> m, sub |-> c]
  BY <1>1
<1> QED
  BY <1>1, <1>2

(* Attached, to a tree in which b has another child.                          *)
LEMMA AttachedOther ==
  ASSUME NEW h \in Heaps, NEW b \in DOMAIN h.b, NEW m, m # NONE,
         NEW gs, gs = Tree!WithChild(Nodes(h), b, m),
         NEW k, k = Node(h, b), NEW c, c = Len(h.b) + 1
  PROVE  AttachedTo(Nodes(h), b, Tree!Attached(gs, b),
                    [level |-> k.level, x |-> k.x, child |-> NONE, sub |-> c],
                    [level |-> k.level + 1, x |-> Head(m), child |-> Tail(m), sub |-> 0])
<1> DEFINE ns == Nodes(h)
           o == [level |-> k.level + 1, x |-> Head(m), child |-> Tail(m), sub |-> 0]
           n == [level |-> k.level, x |-> k.x, child |-> NONE, sub |-> c]
           S == {Node(h, i) : i \in DOMAIN h.b}
           T == S \cup {Parent(k, m)}
<1>1. /\ ns \in Seq(S) /\ DOMAIN ns = 1..Len(ns) /\ Len(ns) \in Nat /\ b \in DOMAIN ns
      /\ c = Len(ns) + 1
  BY NodesSeq, LenProperties
<1>2. k = [level |-> k.level, x |-> k.x, child |-> k.child, sub |-> k.sub]
  BY DEF Node
<1>3. gs = At(ns, b, Parent(k, m)) /\ S \subseteq T /\ Parent(k, m) \in T
  BY WithChildIs
<1> HIDE DEF ns, S, T
<1>4. gs \in [1..Len(ns) -> T] /\ gs[b] = Parent(k, m) /\ \A i \in 1..Len(ns) : i # b => gs[i] = ns[i]
  <2>1. \A i \in 1..Len(ns) : ns[i] \in S
    BY <1>1, ElementOfSeq
  <2> QED
    BY <1>1, <1>3, <2>1 DEF At
<1>5. gs \in Seq(T) /\ Len(gs) = Len(ns) /\ b \in DOMAIN gs
  BY <1>1, <1>4, SequenceOf
<1>6. Parent(k, m) = [level |-> k.level, x |-> k.x, child |-> m, sub |-> 0]
  <2>1. Parent(k, m) = [k EXCEPT !.child = m, !.sub = 0]
    BY DEF Parent
  <2> QED
    BY <1>2, <2>1, Rewired
<1>7. AttachedTo(gs, b, Tree!Attached(gs, b), n, o)
  <2> DEFINE m1 == IF gs[b].child = NONE THEN Default ELSE gs[b].child
             n1 == [gs[b] EXCEPT !.child = NONE, !.sub = Len(gs) + 1]
             o1 == [level |-> gs[b].level + 1, x |-> Head(m1), child |-> Tail(m1), sub |-> 0]
  <2>1. AttachedTo(gs, b, Tree!Attached(gs, b), n1, o1)
    BY <1>5, AttachedIs
  <2>2. m1 = m
    BY <1>4, <1>6
  <2> DEFINE q == gs[b]
  <2>3. q = [level |-> k.level, x |-> k.x, child |-> m, sub |-> 0]
    BY <1>4, <1>6
  <2>4. /\ q = [level |-> q.level, x |-> q.x, child |-> q.child, sub |-> q.sub]
        /\ q.level = k.level /\ q.x = k.x
    <3> HIDE DEF q
    <3> QED
      BY <2>3
  <2>5. o1 = o
    BY <2>2, <2>4
  <2>6. n1 = n
    <3>1. n1 = [q EXCEPT !.child = NONE, !.sub = c]
      BY <1>1, <1>5
    <3> HIDE DEF n1, q
    <3>2. n1 = [level |-> q.level, x |-> q.x, child |-> NONE, sub |-> c]
      BY <2>4, <3>1, Rewired
    <3> QED
      BY <2>4, <3>2
  <2> QED
    BY <2>1, <2>5, <2>6
<1> HIDE DEF n, o
<1> DEFINE B == Tree!Attached(gs, b)
<1> HIDE DEF B
<1>8. AttachedTo(gs, b, B, n, o)
  BY <1>7 DEF B
<1>9. AttachedTo(ns, b, B, n, o)
  BY <1>1, <1>4, <1>5, <1>8 DEF AttachedTo
<1> QED
  BY <1>9 DEF B, ns, n, o

(* A child that would be attached is attached as it is.                       *)
LEMMA AttachedSame ==
  ASSUME NEW h \in Heaps, NEW b \in DOMAIN h.b, NEW m,
         m = IF Node(h, b).child = NONE THEN Default ELSE Node(h, b).child, m # NONE,
         NEW gs, gs = Tree!WithChild(Nodes(h), b, m)
  PROVE  Tree!Attached(gs, b) = Tree!Attached(Nodes(h), b)
<1> DEFINE ns == Nodes(h)
           k == Node(h, b)
           c == Len(h.b) + 1
           o == [level |-> k.level + 1, x |-> Head(m), child |-> Tail(m), sub |-> 0]
           n == [level |-> k.level, x |-> k.x, child |-> NONE, sub |-> c]
           S == {Node(h, i) : i \in DOMAIN h.b}
           A == Tree!Attached(ns, b)
           B == Tree!Attached(gs, b)
<1>1. ns \in Seq(S) /\ b \in DOMAIN ns /\ ns[b] = k /\ c = Len(ns) + 1
  BY NodesSeq, NodesAt
<1>2. k = [level |-> k.level, x |-> k.x, child |-> k.child, sub |-> k.sub]
  BY DEF Node
<1>3. AttachedTo(ns, b, B, n, o)
  <2> HIDE DEF ns, k, c
  <2>1. k = Node(h, b) /\ c = Len(h.b) + 1
    BY DEF k, c
  <2> QED
    BY <2>1, AttachedOther DEF ns
<1> HIDE DEF ns, S
<1>4. AttachedTo(ns, b, A, n, o)
  <2> DEFINE m1 == IF ns[b].child = NONE THEN Default ELSE ns[b].child
             n1 == [ns[b] EXCEPT !.child = NONE, !.sub = Len(ns) + 1]
             o1 == [level |-> ns[b].level + 1, x |-> Head(m1), child |-> Tail(m1), sub |-> 0]
  <2>1. AttachedTo(ns, b, A, n1, o1)
    BY <1>1, AttachedIs
  <2>2. m1 = m
    BY <1>1
  <2>3. o1 = o
    BY <1>1, <2>2
  <2>4. n1 = n
    <3>1. n1 = [k EXCEPT !.child = NONE, !.sub = c]
      BY <1>1
    <3> HIDE DEF n1, c, k
    <3> QED
      BY <1>2, <3>1, Rewired
  <2> QED
    BY <2>1, <2>3, <2>4
<1> HIDE DEF n, o, A, B
<1>5. A = B
  BY <1>3, <1>4 DEF AttachedTo
<1> QED
  BY <1>5 DEF A, B, ns

(* GetFieldBuilder is GetFieldBuilder of the tree, or changes nothing where  *)
(* there is a builder.                                                       *)
LEMMA GetFieldBuilderNodes ==
  ASSUME FieldPresence,
         NEW h, TreeOK(h), NEW b \in DOMAIN h.b, h.b[b].level < Depth,
         NEW g, g = GetFieldBuilder(h, b)
  PROVE  /\ Unset(g)
         /\ Node(h, b).sub # 0 => Nodes(g) = Nodes(h)
         /\ Node(h, b).sub = 0 => Nodes(g) = Tree!Attached(Nodes(h), b)
<1> DEFINE k == OnChanged(WithSet(h, b), b)
           m == Field(k, b)
           clean == k.b[b].isClean
           k2 == IF k.b[b].fieldBuilder # 0 THEN k ELSE WithField(k, b, m, clean)
           s == h.b[b].fieldBuilder
           t == k2.b[b].fieldBuilder
<1>1. HeapOK(h) /\ h \in Heaps /\ Linked(h) /\ Unset(h)
  BY DEF TreeOK, HeapOK, Almost
<1>2. g = GetBuilder(k2, t)
  BY DEF GetFieldBuilder, WithSet, WithField
<1>3. HeapOK(k) /\ Grown(h, k)
  <2>1. k = OnChanged([h EXCEPT !.b[b].has = TRUE], b) /\ TRUE \in BOOLEAN
    BY DEF WithSet
  <2> HIDE DEF k
  <2> QED
    BY <1>1, <2>1, ToldHas
<1>4. /\ AlikeBut(h, k, b) /\ k.b[b].x = h.b[b].x /\ k.b[b].has
      /\ k.b[b].field = h.b[b].field /\ k.b[b].fieldBuilder = s
      /\ AlikeFields(h, k)
  BY <1>1, ToldSetShows
<1> HIDE DEF k
<1>5. UnsetAt(h, b)
  BY <1>1 DEF Unset
<1>6. UnsetAt(k, b)
  BY <1>4 DEF UnsetAt
<1>7. Nodes(k) = [Nodes(h) EXCEPT ![b] = Node(k, b)] /\ Unset(k) /\ TreeOK(k)
  BY <1>1, <1>3, <1>4, <1>6, ButNodes DEF TreeOK
<1>8. b \in DOMAIN k.b /\ k.b[b].level = h.b[b].level /\ k \in Heaps
  BY <1>3, <1>4 DEF AlikeBut, HeapOK, Almost
<1>9. CASE s # 0
  <2>1. s \in DOMAIN h.s /\ h.s[s].parent = b /\ t = s /\ g = GetBuilder(k, s)
    BY <1>1, <1>2, <1>4, <1>9, FieldOf
  <2>2. s \in DOMAIN k.s /\ k.s[s].parent = b /\ k.s[s].builder = h.s[s].builder
    BY <1>3, <1>4, <2>1 DEF Grown, AlikeFields
  <2>3. CASE h.s[s].builder # 0
    <3>1. g = k
      BY <2>1, <2>2, <2>3 DEF GetBuilder
    <3>2. Node(k, b) = Node(h, b) /\ Node(h, b).sub # 0
      BY <1>4, <1>8, <1>9, <2>2, <2>3 DEF Node
    <3>3. [Nodes(h) EXCEPT ![b] = Node(h, b)] = Nodes(h)
      BY NodesAt DEF Nodes
    <3> QED
      BY <1>7, <3>1, <3>2, <3>3
  <2>4. CASE h.s[s].builder = 0
    <3> DEFINE p == h.s[s].message
    <3>1. k.s[s].message = p /\ k.s[s].builder = 0 /\ p # NONE
      BY <1>1, <1>4, <2>1, <2>4 DEF AlikeFields, Linked
    <3>2. Node(k, b).child = p /\ Node(k, b).sub = 0
      BY <1>4, <1>9, <3>1 DEF Node
    <3>3. Nodes(k) = Tree!WithChild(Nodes(h), b, p)
      BY <1>4, <1>6, <3>2, ChildIs
    <3>4. p = IF Node(h, b).child = NONE THEN Default ELSE Node(h, b).child
      BY <1>5, <1>9, <2>4, <3>1 DEF Node, UnsetAt
    <3>5. Nodes(g) = Tree!Attached(Nodes(k), b) /\ Unset(g)
      BY <1>4, <1>7, <1>8, <2>1, <2>2, <2>4, GetBuilderNodes
    <3> HIDE DEF p
    <3>6. Tree!Attached(Nodes(k), b) = Tree!Attached(Nodes(h), b)
      BY <1>1, <3>1, <3>3, <3>4, AttachedSame
    <3>7. Node(h, b).sub = 0
      BY <1>9, <2>4 DEF Node
    <3> QED
      BY <3>5, <3>6, <3>7
  <2> QED
    BY <2>3, <2>4
<1>10. CASE s = 0
  <2>1. k2 = WithField(k, b, m, clean)
    BY <1>4, <1>10
  <2>2. k.b[b].field \in Seq(Scalars) /\ clean \in BOOLEAN
    BY <1>8, Objects, BuilderFields
  <2>3. m = (IF h.b[b].field = NONE THEN Default ELSE h.b[b].field) /\ m \in Contentful
    BY <1>4, <2>2, DefaultType DEF Field, Contentful
  <2> HIDE DEF m, clean, k2
  <2>4. PICK u : /\ AddedField(k, b, k2, u) /\ u = k2.b[b].fieldBuilder /\ k2.s[u].message = m
                 /\ k2.b[b].x = k.b[b].x /\ k2.b[b].has = k.b[b].has
    BY <1>8, <2>1, <2>2, <2>3, NewField
  <2>5. HeapOK(k2)
    <3>1. ~ Owes(k, b)
      <4>1. k = OnChanged([h EXCEPT !.b[b].has = TRUE], b) /\ TRUE \in BOOLEAN
        BY DEF k, WithSet
      <4> QED
        BY <1>1, <4>1, ToldHas
    <3> QED
      BY <1>3, <1>4, <1>8, <1>10, <2>4, <3>1, AddedFieldOK
  <2>6. AlikeBut(h, k2, b)
    BY <1>4, <2>4 DEF AddedField, AlikeBut
  <2>7. k2.b[b].has /\ k2.b[b].x = h.b[b].x /\ UnsetAt(k2, b)
    BY <1>4, <2>4 DEF UnsetAt
  <2>8. u \in DOMAIN k2.s /\ k2.s[u].parent = b /\ k2.s[u].builder = 0 /\ u # 0
    BY <2>4 DEF AddedField
  <2>9. Node(k2, b).child = m /\ Node(k2, b).sub = 0
    BY <2>4, <2>7, <2>8 DEF Node
  <2>10. Nodes(k2) = Tree!WithChild(Nodes(h), b, m) /\ Unset(k2)
    BY <2>6, <2>7, <2>9, ChildIs
  <2>11. TreeOK(k2) /\ b \in DOMAIN k2.b
    BY <2>5, <2>6, <2>10 DEF TreeOK, AlikeBut
  <2>12. Nodes(g) = Tree!Attached(Nodes(k2), b) /\ Unset(g)
    <3>1. g = GetBuilder(k2, u)
      BY <1>2, <2>4
    <3> QED
      BY <2>7, <2>8, <2>11, <3>1, GetBuilderNodes
  <2>13. m = (IF Node(h, b).child = NONE THEN Default ELSE Node(h, b).child) /\ m # NONE
    BY <1>5, <1>10, <2>3 DEF Node, UnsetAt, Contentful
  <2>14. Tree!Attached(Nodes(k2), b) = Tree!Attached(Nodes(h), b)
    BY <1>1, <2>10, <2>13, AttachedSame
  <2>15. Node(h, b).sub = 0
    BY <1>10 DEF Node
  <2> QED
    BY <2>12, <2>14, <2>15
<1> QED
  BY <1>9, <1>10

-----------------------------------------------------------------------------
(* The messages that are returned. *)

(* What the tree would build is the content: the two are defined alike, and  *)
(* levels are finite.                                                        *)
LEMMA ValueIs ==
  ASSUME FieldPresence, TreeOK(heap), NEW C, CachedBut(heap, {}, C), NEW b \in DOMAIN heap.b
  PROVE  Tree!Value(b) = C[b]
<1> DEFINE D == DOMAIN heap.b
           ns == Nodes(heap)
           Shown(f, j) == <<ns[j].x>> \o IF ns[j].sub # 0 THEN f[ns[j].sub] ELSE ns[j].child
           Solves(f) == f = [j \in D |-> Shown(f, j)]
           G == CHOOSE f : Solves(f)
<1>1. heap \in Heaps /\ Linked(heap) /\ Unset(heap)
  BY DEF TreeOK, HeapOK, Almost
<1>2. ASSUME NEW f, NEW j \in D PROVE Shown(f, j) = ContentOf(heap, f, j)
  <2> DEFINE s == heap.b[j].fieldBuilder
  <2>1. UnsetAt(heap, j)
    BY <1>1 DEF Unset
  <2>2. ns[j] = Node(heap, j)
    BY NodesAt
  <2>3. /\ ns[j].x = heap.b[j].x /\ ns[j].sub = (IF s # 0 THEN heap.s[s].builder ELSE 0)
        /\ ns[j].child = IF FieldPresence /\ ~ heap.b[j].has THEN NONE
                         ELSE IF s = 0 THEN heap.b[j].field
                         ELSE IF heap.s[s].builder # 0 THEN NONE ELSE heap.s[s].message
    BY <2>2 DEF Node
  <2> HIDE DEF ns
  <2> QED
    BY <2>1, <2>3 DEF ContentOf, UnsetAt
<1>3. \A j \in D : C[j] = ContentOf(heap, C, j)
  BY DEF CachedBut
<1>4. Solves(C)
  <2>1. C = [j \in D |-> C[j]]
    BY DEF CachedBut
  <2> HIDE DEF Shown
  <2> QED
    BY <1>2, <1>3, <2>1
<1>5. Tree!Value(b) = G[b]
  BY NodesAt DEF Tree!Value
<1>6. Solves(G)
  <2> HIDE DEF Solves
  <2> QED
    BY <1>4
<1> HIDE DEF G
<1>7. \A j \in D : G[j] = ContentOf(heap, G, j)
  <2> HIDE DEF Shown
  <2> QED
    BY <1>2, <1>6
<1> DEFINE Same == {j \in D : G[j] = C[j]}
<1>8. ASSUME NEW j \in D, \A k \in D : heap.b[k].level > heap.b[j].level => k \in Same
      PROVE  j \in Same
  <2>1. ContentOf(heap, G, j) = ContentOf(heap, C, j)
    BY <1>1, <1>8, ContentOfSame
  <2> QED
    BY <1>3, <1>7, <2>1
<1>9. D \subseteq Same
  <2> HIDE DEF Same
  <2> QED
    BY <1>1, <1>8, ByLevel
<1> QED
  BY <1>5, <1>9

(* What is below the scalar of a message: its field.                         *)
LEMMA FieldOfValue ==
  ASSUME NEW x, NEW m \in Seq(Scalars)
  PROVE  Tail(<<x>> \o m) = m
  OBVIOUS

(* What getField returns.                                                    *)
FieldAnswer(h, b) ==
  IF h.b[b].fieldBuilder = 0 THEN Field(h, b) ELSE GetMessage(h, h.b[b].fieldBuilder).message

(* getField returns the field of what would be built.                        *)
LEMMA GetFieldAnswer ==
  ASSUME FieldPresence, NEW h, TreeOK(h), NEW C, CachedBut(h, {}, C), NEW b \in DOMAIN h.b
  PROVE  FieldAnswer(h, b) = IF Tail(C[b]) = NONE THEN Default ELSE Tail(C[b])
<1> DEFINE a == FieldAnswer(h, b)
           n == h.b[b]
           s == n.fieldBuilder
           rest == IF FieldPresence /\ ~ n.has THEN NONE
                   ELSE IF s = 0 THEN n.field
                   ELSE IF h.s[s].builder # 0 THEN C[h.s[s].builder]
                   ELSE h.s[s].message
<1>1. HeapOK(h) /\ h \in Heaps /\ Linked(h) /\ UnsetAt(h, b)
  BY DEF TreeOK, HeapOK, Almost, Unset
<1>2. C[b] = <<n.x>> \o rest
  BY DEF CachedBut, ContentOf
<1>3. n.field \in Seq(Scalars)
  BY <1>1, Objects, BuilderFields
<1>4. a = IF s = 0 THEN Field(h, b) ELSE GetMessage(h, s).message
  BY DEF FieldAnswer
<1> SUFFICES a = IF Tail(C[b]) = NONE THEN Default ELSE Tail(C[b])
  OBVIOUS
<1> HIDE DEF a
<1>5. CASE s = 0
  <2>1. a = IF n.field = NONE THEN Default ELSE n.field
    BY <1>4, <1>5 DEF Field
  <2>2. rest = n.field
    BY <1>1, <1>5 DEF UnsetAt
  <2> HIDE DEF rest, n
  <2>3. Tail(C[b]) = n.field
    BY <1>2, <1>3, <2>2, FieldOfValue
  <2> QED
    BY <2>1, <2>3
<1>6. CASE s # 0
  <2>1. s \in DOMAIN h.s
    BY <1>1, <1>6, FieldOf
  <2>2. a = IF h.s[s].builder # 0 THEN C[h.s[s].builder] ELSE h.s[s].message
    <3>1. a = GetMessage(h, s).message
      BY <1>4, <1>6
    <3> HIDE DEF s
    <3> QED
      BY <1>1, <2>1, <3>1, GetMessageOK
  <2>3. h.s[s].message \in Seq(Scalars)
    BY <1>1, <2>1, Objects, FieldBuilderFields
  <2>4. a \in Seq(Scalars) /\ a # NONE
    <3>1. CASE h.s[s].builder # 0
      <4>1. h.s[s].builder \in DOMAIN h.b
        BY <1>1, <2>1, <3>1 DEF Linked
      <4>2. C[h.s[s].builder] \in Contentful
        BY <4>1 DEF CachedBut
      <4> QED
        BY <2>2, <3>1, <4>2 DEF Contentful
    <3>2. CASE h.s[s].builder = 0
      BY <1>1, <2>1, <2>2, <2>3, <3>2 DEF Linked
    <3> QED
      BY <3>1, <3>2
  <2>5. CASE n.has
    <3>1. rest = a
      BY <1>6, <2>2, <2>5
    <3> HIDE DEF rest
    <3>2. Tail(C[b]) = a
      BY <1>2, <2>4, <3>1, FieldOfValue
    <3> QED
      BY <2>4, <3>2
  <2>6. CASE ~ n.has
    <3>1. rest = NONE /\ a = Default
      BY <1>1, <1>6, <2>2, <2>6 DEF UnsetAt
    <3> HIDE DEF rest
    <3>2. Tail(C[b]) = NONE
      BY <1>2, <3>1, DefaultType, FieldOfValue
    <3> QED
      BY <3>1, <3>2
  <2> QED
    BY <2>5, <2>6
<1> QED
  BY <1>5, <1>6

-----------------------------------------------------------------------------
(* mergeField. *)

(* Sequences with the same elements are the same.                            *)
LEMMA SameSequence ==
  ASSUME NEW p \in Seq(Scalars), NEW q \in Seq(Scalars), Len(p) = Len(q),
         \A i \in 1..Len(p) : p[i] = q[i]
  PROVE  p = q
<1>1. p = [i \in 1..Len(p) |-> p[i]] /\ q = [i \in 1..Len(q) |-> q[i]]
  BY LenProperties
<1> QED
  BY <1>1

MergeOf(r, p, q) ==
  /\ r \in Seq(Scalars) /\ Len(r) = IF Len(p) > Len(q) THEN Len(p) ELSE Len(q)
  /\ \A i \in 1..Len(r) :
       r[i] = IF i <= Len(q) /\ q[i] # 0 THEN q[i] ELSE IF i <= Len(p) THEN p[i] ELSE 0

(* Merge, element by element.                                                *)
LEMMA MergeIs ==
  ASSUME NEW p \in Seq(Scalars), NEW q \in Seq(Scalars)
  PROVE  MergeOf(Merge(p, q), p, q)
<1> DEFINE r == Merge(p, q)
           k == IF Len(p) > Len(q) THEN Len(p) ELSE Len(q)
<1>1. r \in Seq(Scalars)
  BY MergeType
<1>2. k \in Nat
  BY LenProperties
<1>3. r = [i \in 1..k |-> IF i <= Len(q) /\ q[i] # 0 THEN q[i] ELSE IF i <= Len(p) THEN p[i] ELSE 0]
  BY DEF Merge
<1> HIDE DEF k
<1>4. DOMAIN r = 1..k
  BY <1>3
<1>5. Len(r) = k
  BY <1>1, <1>2, <1>4, LenProperties
<1> QED
  BY <1>1, <1>3, <1>5 DEF k, MergeOf

(* To merge nothing, or the default message, changes nothing; to merge into  *)
(* them gives what is merged.                                                *)
LEMMA Unmerged ==
  /\ \A p \in Seq(Scalars) : Merge(NONE, p) = p /\ Merge(p, NONE) = p
  /\ \A p \in Contentful : Merge(Default, p) = p /\ Merge(p, Default) = p
<1>1. NONE \in Seq(Scalars) /\ Len(NONE) = 0
  BY DefaultType DEF NONE
<1>2. Default \in Seq(Scalars) /\ Len(Default) = 1 /\ Default[1] = 0
  BY DefaultType DEF Default, Contentful
<1>3. ASSUME NEW p \in Seq(Scalars) PROVE Merge(NONE, p) = p /\ Merge(p, NONE) = p
  <2>1. Len(p) \in Nat
    BY LenProperties
  <2>2. Merge(NONE, p) = p
    <3> DEFINE r == Merge(NONE, p)
    <3>0. NONE \in Seq(Scalars) /\ p \in Seq(Scalars)
      BY <1>1, <2>1
    <3>4. MergeOf(r, NONE, p)
      BY <3>0, MergeIs
    <3> HIDE DEF r
    <3>1. /\ r \in Seq(Scalars) /\ Len(r) = Len(p)
          /\ \A i \in 1..Len(r) : r[i] = IF p[i] # 0 THEN p[i] ELSE 0
      BY <1>1, <2>1, <3>4 DEF MergeOf
    <3>2. \A i \in 1..Len(r) : r[i] = p[i]
      BY <3>1
    <3>3. r = p
      BY <3>1, <3>2, SameSequence
    <3> QED
      BY <3>3 DEF r
  <2>3. Merge(p, NONE) = p
    <3> DEFINE r == Merge(p, NONE)
    <3>0. NONE \in Seq(Scalars) /\ p \in Seq(Scalars)
      BY <1>1, <2>1
    <3>4. MergeOf(r, p, NONE)
      BY <3>0, MergeIs
    <3> HIDE DEF r
    <3>1. r \in Seq(Scalars) /\ Len(r) = Len(p) /\ \A i \in 1..Len(r) : r[i] = p[i]
      BY <1>1, <2>1, <3>4 DEF MergeOf
    <3>2. r = p
      BY <3>1, SameSequence
    <3> QED
      BY <3>2 DEF r
  <2> QED
    BY <2>2, <2>3
<1>4. ASSUME NEW p \in Contentful PROVE Merge(Default, p) = p /\ Merge(p, Default) = p
  <2>1. p \in Seq(Scalars) /\ Len(p) \in Nat /\ Len(p) >= 1
    <3>1. p \in Seq(Scalars) /\ p # << >>
      BY DEF Contentful, NONE
    <3> QED
      BY <3>1, EmptySeq, LenProperties
  <2>2. Merge(Default, p) = p
    <3> DEFINE r == Merge(Default, p)
    <3>0. Default \in Seq(Scalars) /\ p \in Seq(Scalars)
      BY <1>2, <2>1
    <3>4. MergeOf(r, Default, p)
      BY <3>0, MergeIs
    <3> HIDE DEF r
    <3>5. r \in Seq(Scalars) /\ Len(r) = Len(p)
      BY <1>2, <2>1, <3>4 DEF MergeOf
    <3>6. ASSUME NEW i \in 1..Len(r) PROVE r[i] = IF p[i] # 0 THEN p[i] ELSE 0
      <4>1. i <= Len(Default) => Default[i] = 0
        BY <1>2, <2>1, <3>5
      <4> QED
        BY <2>1, <3>4, <3>5, <4>1 DEF MergeOf
    <3>2. \A i \in 1..Len(r) : r[i] = p[i]
      BY <3>6
    <3>3. r = p
      BY <2>1, <3>2, <3>5, SameSequence
    <3> QED
      BY <3>3 DEF r
  <2>3. Merge(p, Default) = p
    <3> DEFINE r == Merge(p, Default)
    <3>0. Default \in Seq(Scalars) /\ p \in Seq(Scalars)
      BY <1>2, <2>1
    <3>4. MergeOf(r, p, Default)
      BY <3>0, MergeIs
    <3> HIDE DEF r
    <3>5. r \in Seq(Scalars) /\ Len(r) = Len(p)
      BY <1>2, <2>1, <3>4 DEF MergeOf
    <3>6. ASSUME NEW i \in 1..Len(r) PROVE r[i] = p[i]
      <4>1. i <= Len(Default) => Default[i] = 0
        BY <1>2, <2>1, <3>5
      <4> QED
        BY <2>1, <3>4, <3>5, <4>1 DEF MergeOf
    <3>2. r = p
      BY <2>1, <3>5, <3>6, SameSequence
    <3> QED
      BY <3>2 DEF r
  <2> QED
    BY <2>2, <2>3
<1> QED
  BY <1>3, <1>4

(* Merging is merging the scalars, and the fields.                           *)
LEMMA MergeTop ==
  ASSUME NEW p \in Contentful, NEW q \in Contentful
  PROVE  /\ Merge(p, q) \in Contentful
         /\ Head(Merge(p, q)) = IF q[1] # 0 THEN q[1] ELSE Head(p)
         /\ Tail(Merge(p, q)) = Merge(Tail(p), Tail(q))
<1> DEFINE r == Merge(p, q)
           t == Merge(Tail(p), Tail(q))
<1>1. /\ p \in Seq(Scalars) /\ Len(p) \in Nat /\ Len(p) >= 1 /\ Head(p) = p[1]
      /\ q \in Seq(Scalars) /\ Len(q) \in Nat /\ Len(q) >= 1
  <2>1. p \in Seq(Scalars) /\ p # << >> /\ q \in Seq(Scalars) /\ q # << >>
    BY DEF Contentful, NONE
  <2> QED
    BY <2>1, EmptySeq, LenProperties
<1>2. MergeOf(r, p, q)
  BY <1>1, MergeIs
<1>3. /\ Tail(p) \in Seq(Scalars) /\ Len(Tail(p)) = Len(p) - 1
      /\ \A i \in 1..Len(p) - 1 : Tail(p)[i] = p[i + 1]
  BY <1>1, HeadTailProperties, EmptySeq
<1>4. /\ Tail(q) \in Seq(Scalars) /\ Len(Tail(q)) = Len(q) - 1
      /\ \A i \in 1..Len(q) - 1 : Tail(q)[i] = q[i + 1]
  BY <1>1, HeadTailProperties, EmptySeq
<1> HIDE DEF r
<1>5. r # NONE /\ Len(r) \in Nat /\ Len(r) >= 1
  <2>1. Len(r) \in Nat /\ Len(r) >= 1
    BY <1>1, <1>2 DEF MergeOf
  <2>2. Len(NONE) = 0
    BY DEF NONE
  <2> QED
    BY <2>1, <2>2
<1>6. Head(r) = IF q[1] # 0 THEN q[1] ELSE Head(p)
  BY <1>1, <1>2, <1>5 DEF MergeOf
<1>7. /\ Tail(r) \in Seq(Scalars) /\ Len(Tail(r)) = Len(r) - 1
      /\ \A i \in 1..Len(r) - 1 : Tail(r)[i] = r[i + 1]
  BY <1>2, <1>5, HeadTailProperties, EmptySeq DEF MergeOf
<1>8. Tail(r) = t
  <2>1. MergeOf(t, Tail(p), Tail(q))
    BY <1>3, <1>4, MergeIs
  <2> HIDE DEF t
  <2>2. Len(t) = Len(Tail(r))
    <3>1. Len(r) = IF Len(p) > Len(q) THEN Len(p) ELSE Len(q)
      BY <1>2 DEF MergeOf
    <3>2. Len(t) = IF Len(Tail(p)) > Len(Tail(q)) THEN Len(Tail(p)) ELSE Len(Tail(q))
      BY <2>1 DEF MergeOf
    <3>3. Len(t) = IF Len(p) - 1 > Len(q) - 1 THEN Len(p) - 1 ELSE Len(q) - 1
      BY <1>3, <1>4, <3>2
    <3>4. Len(p) \in Int /\ Len(q) \in Int /\ Len(Tail(r)) = Len(r) - 1
      BY <1>1, <1>7
    <3> QED
      BY <3>1, <3>3, <3>4
  <2>3. ASSUME NEW i \in 1..Len(t) PROVE t[i] = Tail(r)[i]
    <3>1. i \in Nat /\ i >= 1 /\ i <= Len(r) - 1 /\ i + 1 \in 1..Len(r)
      BY <1>5, <1>7, <2>2
    <3>2. Tail(r)[i] = r[i + 1]
      BY <1>5, <1>7, <3>1
    <3>3. r[i + 1] = IF i + 1 <= Len(q) /\ q[i + 1] # 0 THEN q[i + 1]
                     ELSE IF i + 1 <= Len(p) THEN p[i + 1] ELSE 0
      BY <1>2, <3>1 DEF MergeOf
    <3>4. i + 1 <= Len(q) <=> i <= Len(Tail(q))
      BY <1>1, <1>4, <3>1
    <3>5. i + 1 <= Len(p) <=> i <= Len(Tail(p))
      BY <1>1, <1>3, <3>1
    <3>6. i + 1 <= Len(q) => Tail(q)[i] = q[i + 1]
      BY <1>1, <1>4, <3>1
    <3>7. i + 1 <= Len(p) => Tail(p)[i] = p[i + 1]
      BY <1>1, <1>3, <3>1
    <3> QED
      BY <2>1, <3>2, <3>3, <3>4, <3>5, <3>6, <3>7 DEF MergeOf
  <2> QED
    BY <1>7, <2>1, <2>2, <2>3, SameSequence DEF MergeOf
<1> QED
  BY <1>2, <1>5, <1>6, <1>8 DEF r, Contentful, MergeOf

(* What shows of mergeField without a field builder.                         *)
LEMMA MergeOwnShows ==
  ASSUME NEW h, HeapOK(h), NEW b \in DOMAIN h.b, NEW m \in Seq(Scalars),
         NEW g, g = MergeOwn(h, b, m)
  PROVE  /\ AlikeBut(h, g, b) /\ g.b[b].x = h.b[b].x /\ g.b[b].has
         /\ g.b[b].field = Merge(h.b[b].field, m) /\ g.b[b].fieldBuilder = h.b[b].fieldBuilder
         /\ AlikeFields(h, g)
<1> DEFINE v == Merge(h.b[b].field, m)
           k == OnChanged([h EXCEPT !.b[b].field = v], b)
<1>1. h.b[b].field \in Seq(Scalars)
  BY Objects, BuilderFields DEF HeapOK, Almost
<1>2. v \in Seq(Scalars)
  BY <1>1, MergeType
<1>3. [h EXCEPT !.b[b].field = Merge(@, m)] = [h EXCEPT !.b[b].field = v]
  OBVIOUS
<1>4. g = WithSet(k, b)
  BY <1>3 DEF MergeOwn, WithSet
<1>5. k = OnChanged([h EXCEPT !.b[b].field = v], b) /\ v = Merge(h.b[b].field, m)
  OBVIOUS
<1> HIDE DEF v, k
<1>6. /\ AlikeBut(h, k, b) /\ k.b[b].x = h.b[b].x
      /\ k.b[b].field = v /\ k.b[b].fieldBuilder = h.b[b].fieldBuilder
      /\ AlikeFields(h, k)
  BY <1>2, <1>5, ToldFieldShows
<1>7. k \in Heaps
  BY <1>2, <1>5, ToldField DEF HeapOK, Almost
<1>8. /\ AlikeBut(h, g, b) /\ g.b[b].x = k.b[b].x /\ g.b[b].has
      /\ g.b[b].field = k.b[b].field /\ g.b[b].fieldBuilder = k.b[b].fieldBuilder /\ g.s = k.s
  <2>1. AlikeBut(h, k, b) /\ k \in Heaps /\ g = WithSet(k, b)
    BY <1>4, <1>6, <1>7
  <2> QED
    BY <2>1, ThenSet
<1> QED
  BY <1>5, <1>6, <1>8 DEF AlikeFields

(* What is merged into b, which has no builder below, when it is not a        *)
(* builder that it is merged into.                                           *)
Owned(h, b, m) == Tree!WithChild(Nodes(h), b, Merge(Node(h, b).child, m))

(* The fields that are set stay set.                                         *)
HasKept(h, g) == \A i \in DOMAIN h.b : h.b[i].has => g.b[i].has

(* If b's field stays set, all do.                                           *)
LEMMA ButKept ==
  ASSUME NEW h, NEW b \in DOMAIN h.b, NEW g, AlikeBut(h, g, b), h.b[b].has => g.b[b].has
  PROVE  HasKept(h, g)
  BY DEF AlikeBut, HasKept

(* It is a merge of the child's message.                                     *)
LEMMA MergeOwnNodes ==
  ASSUME NEW h, TreeOK(h), NEW b \in DOMAIN h.b, h.b[b].fieldBuilder = 0,
         NEW m \in Seq(Scalars), NEW g, g = MergeOwn(h, b, m)
  PROVE  Nodes(g) = Owned(h, b, m) /\ Unset(g) /\ HasKept(h, g)
<1> DEFINE v == Merge(h.b[b].field, m)
<1>1. HeapOK(h) /\ UnsetAt(h, b)
  BY DEF TreeOK, Unset
<1>2. /\ AlikeBut(h, g, b) /\ g.b[b].x = h.b[b].x /\ g.b[b].has
      /\ g.b[b].field = v /\ g.b[b].fieldBuilder = 0
  BY <1>1, MergeOwnShows
<1>3. Node(h, b).child = h.b[b].field
  BY <1>1 DEF Node, UnsetAt
<1> HIDE DEF v
<1>4. Node(g, b).child = v /\ Node(g, b).sub = 0 /\ UnsetAt(g, b)
  BY <1>2 DEF Node, UnsetAt
<1>5. Nodes(g) = Tree!WithChild(Nodes(h), b, v) /\ Unset(g)
  BY <1>2, <1>4, ChildIs
<1>6. HasKept(h, g)
  BY <1>2, ButKept
<1> QED
  BY <1>3, <1>5, <1>6 DEF Owned, v

(* mergeFrom: the heap in which the field has been merged, and the scalar.    *)
FieldMerged(h, m, h1) == IF Len(m) > 1 THEN h1 ELSE h
ScalarMerged(x, m) == IF m[1] # 0 THEN m[1] ELSE x

(* What shows of mergeFrom, once the field is merged: the scalar.            *)
LEMMA MergeFromShows ==
  ASSUME NEW h, HeapOK(h), NEW b \in DOMAIN h.b, NEW m \in Contentful,
         NEW h1, HeapOK(h1), Grown(h, h1), NEW g, g = MergeFrom(h, b, m, h1),
         NEW h2, h2 = FieldMerged(h, m, h1)
  PROVE  /\ AlikeBut(h2, g, b) /\ g.b[b].x = ScalarMerged(h2.b[b].x, m)
         /\ g.b[b].has = h2.b[b].has
         /\ g.b[b].field = h2.b[b].field /\ g.b[b].fieldBuilder = h2.b[b].fieldBuilder
         /\ AlikeFields(h2, g)
<1> DEFINE h3 == IF m[1] # 0 THEN SetX(h2, b, m[1]) ELSE h2
<1>1. g = IF m = Default THEN h ELSE OnChanged(h3, b)
  BY DEF MergeFrom, FieldMerged
<1>2. m[1] \in Scalars
  <2>1. m \in Seq(Scalars) /\ m # << >>
    BY DEF Contentful, NONE
  <2> QED
    BY <2>1, TopAndRest DEF Contentful, NONE
<1>3. HeapOK(h2) /\ Grown(h, h2)
  BY GrownSame DEF FieldMerged
<1>4. b \in DOMAIN h2.b
  BY <1>3 DEF Grown
<1>5. CASE m = Default
  <2>1. m[1] = 0 /\ g = h2
    BY <1>1, <1>5 DEF Default, FieldMerged
  <2> QED
    BY <2>1 DEF AlikeBut, AlikeFields, ScalarMerged
<1>6. CASE m # Default
  <2>1. /\ AlikeBut(h2, h3, b) /\ h3.b[b].x = ScalarMerged(h2.b[b].x, m)
        /\ h3.b[b].has = h2.b[b].has
        /\ h3.b[b].field = h2.b[b].field /\ h3.b[b].fieldBuilder = h2.b[b].fieldBuilder
        /\ AlikeFields(h2, h3)
    <3>1. CASE m[1] # 0
      <4>1. h3 = SetX(h2, b, m[1])
        BY <3>1
      <4> HIDE DEF h3
      <4>2. h3 = OnChanged([h2 EXCEPT !.b[b].x = m[1]], b)
        BY <4>1 DEF SetX
      <4> DEFINE v == m[1]
      <4>3. v \in Scalars /\ h3 = OnChanged([h2 EXCEPT !.b[b].x = v], b)
        BY <1>2, <4>2
      <4> HIDE DEF v
      <4>4. /\ AlikeBut(h2, h3, b) /\ h3.b[b].x = v
            /\ h3.b[b].has = h2.b[b].has
            /\ h3.b[b].field = h2.b[b].field /\ h3.b[b].fieldBuilder = h2.b[b].fieldBuilder
            /\ AlikeFields(h2, h3)
        BY <1>3, <1>4, <4>3, ToldXShows
      <4> QED
        BY <3>1, <4>4 DEF v, ScalarMerged
    <3>2. CASE m[1] = 0
      BY <3>2 DEF AlikeBut, AlikeFields, ScalarMerged
    <3> QED
      BY <3>1, <3>2
  <2>2. HeapOK(h3) /\ b \in DOMAIN h3.b
    <3>1. HeapOK(h3)
      BY <1>2, <1>3, <1>4, SetXOK
    <3> QED
      BY <1>4, <2>1, <3>1 DEF AlikeBut
  <2>3. g = OnChanged(h3, b)
    BY <1>1, <1>6
  <2> HIDE DEF h3
  <2>4. Alike(h3, g)
    BY <2>2, <2>3, AlikeOnChanged DEF HeapOK
  <2>5. AlikeBut(h2, g, b)
    BY <1>4, <2>1, <2>4, ButAlike
  <2>6. /\ g.b[b].x = h3.b[b].x /\ g.b[b].has = h3.b[b].has
        /\ g.b[b].field = h3.b[b].field /\ g.b[b].fieldBuilder = h3.b[b].fieldBuilder
    BY <2>2, <2>4 DEF Alike
  <2>7. AlikeFields(h2, g)
    BY <2>1, <2>4 DEF Alike, AlikeFields, AlikeBut
  <2> QED
    BY <2>1, <2>5, <2>6, <2>7
<1> QED
  BY <1>5, <1>6

(* The end of mergeField, for a field that is set already.                    *)
LEMMA ToldAndSet ==
  ASSUME NEW h, HeapOK(h), NEW s \in DOMAIN h.s, NEW b \in DOMAIN h.b, h.b[b].has,
         NEW g, g = WithSet(FieldChanged(h, s), b)
  PROVE  Alike(h, g)
<1> DEFINE k == FieldChanged(h, s)
<1>1. Alike(h, k) /\ HeapOK(k)
  BY AlikeFieldChanged, FieldChangedOK DEF HeapOK
<1>2. b \in DOMAIN k.b /\ k.b[b].has = h.b[b].has /\ k \in Heaps
  BY <1>1 DEF Alike, HeapOK, Almost
<1>3. g = WithSet(k, b)
  OBVIOUS
<1> HIDE DEF k
<1>4. /\ AlikeBut(k, g, b) /\ g.b[b].x = k.b[b].x /\ g.b[b].has
      /\ g.b[b].field = k.b[b].field /\ g.b[b].fieldBuilder = k.b[b].fieldBuilder /\ g.s = k.s
      /\ g.b[b].has \in BOOLEAN
  BY <1>2, <1>3, EditSet
<1>5. g.b[b].has = h.b[b].has
  <2>1. h.b[b].has \in BOOLEAN
    BY Objects, BuilderFields DEF HeapOK, Almost
  <2> QED
    BY <1>4, <2>1
<1>6. Alike(k, g)
  BY <1>2, <1>4, <1>5 DEF Alike, AlikeBut
<1> QED
  BY <1>1, <1>6, AlikeTwice

(* HasKept is transitive.                                                    *)
LEMMA KeptTwice ==
  ASSUME NEW h, NEW k, NEW g, Grown(h, k), HasKept(h, k), HasKept(k, g)
  PROVE  HasKept(h, g)
  BY DEF Grown, HasKept

(* What does not show leaves the bits alone.                                 *)
LEMMA AlikeKept ==
  ASSUME NEW h, NEW g, Alike(h, g)
  PROVE  HasKept(h, g)
  BY DEF Alike, HasKept

(* The node i of r with v merged into its scalar.                            *)
Renamed(r, i, v) == [r EXCEPT ![i].x = IF v # 0 THEN v ELSE @]

(* mergeField into a message field that has a builder.                       *)
LEMMA MergeBuilderNodes ==
  ASSUME NEW h, TreeOK(h), NEW b \in DOMAIN h.b, NEW s \in DOMAIN h.s, h.s[s].parent = b,
         NEW sub \in DOMAIN h.b, h.s[s].builder = sub, NEW m \in Contentful,
         NEW below, TreeOK(below), Grown(h, below), HasKept(h, below),
         NEW g, g = MergeBelow(h, b, m, below)
  PROVE  /\ Nodes(g) = Renamed(Nodes(FieldMerged(h, m, below)), sub, m[1])
         /\ Unset(g) /\ HasKept(h, g)
<1> DEFINE r == Nodes(FieldMerged(h, m, below))
           h2 == FieldMerged(h, m, below)
           h1 == MergeFrom(h, sub, m, below)
<1>1. HeapOK(h) /\ h \in Heaps /\ Linked(h) /\ UnsetAt(h, b)
  BY DEF TreeOK, HeapOK, Almost, Unset
<1>2. h.b[b].fieldBuilder = s /\ sub # 0 /\ h.b[b].has
  <2>1. h.b[b].fieldBuilder = s
    BY <1>1 DEF Linked
  <2>2. s # 0 /\ sub # 0
    BY <1>1, Objects
  <2> QED
    BY <1>1, <2>1, <2>2 DEF UnsetAt
<1>3. g = WithSet(FieldChanged(h1, s), b)
  <2>1. GetBuilder(h, s) = h
    BY <1>2 DEF GetBuilder
  <2> QED
    BY <1>2, <2>1 DEF MergeBelow, WithSet
<1>4. TreeOK(h2) /\ Grown(h, h2) /\ HasKept(h, h2) /\ r = Nodes(h2)
  BY GrownSame DEF HasKept, FieldMerged
<1>5. h2 = FieldMerged(h, m, below) /\ h1 = MergeFrom(h, sub, m, below)
  OBVIOUS
<1> HIDE DEF h2, h1, r
<1>6. HeapOK(below) /\ h2 \in Heaps /\ Linked(h2) /\ Unset(h2) /\ HeapOK(h2) /\ sub \in DOMAIN h2.b
  BY <1>4 DEF TreeOK, HeapOK, Almost, Grown
<1> DEFINE v == ScalarMerged(h2.b[sub].x, m)
<1>7. /\ AlikeBut(h2, h1, sub) /\ h1.b[sub].x = v /\ h1.b[sub].has = h2.b[sub].has
      /\ h1.b[sub].field = h2.b[sub].field /\ h1.b[sub].fieldBuilder = h2.b[sub].fieldBuilder
      /\ AlikeFields(h2, h1)
  BY <1>1, <1>5, <1>6, MergeFromShows
<1>8. HeapOK(h1) /\ Grown(h, h1)
  BY <1>1, <1>5, <1>6, MergeFromOK
<1>9. Nodes(h1) = [r EXCEPT ![sub].x = v] /\ Unset(h1)
  <2> HIDE DEF v
  <2>1. Nodes(h1) = [Nodes(h2) EXCEPT ![sub].x = v] /\ Unset(h1)
    BY <1>6, <1>7, XNodes
  <2> QED
    BY <1>4, <2>1
<1>10. HasKept(h, h1)
  <2>1. HasKept(h2, h1)
    BY <1>6, <1>7, ButKept
  <2> QED
    BY <1>4, <2>1, KeptTwice
<1>11. s \in DOMAIN h1.s /\ b \in DOMAIN h1.b /\ h1.b[b].has
  BY <1>2, <1>8, <1>10 DEF Grown, HasKept
<1>12. Alike(h1, g)
  BY <1>3, <1>8, <1>11, ToldAndSet
<1>13. Nodes(g) = Nodes(h1) /\ Unset(g)
  BY <1>8, <1>9, <1>12, AlikeNodes DEF HeapOK, Almost
<1>14. HasKept(h, g)
  BY <1>8, <1>10, <1>12, AlikeKept, KeptTwice
<1>15. v = IF m[1] # 0 THEN m[1] ELSE r[sub].x
  <2>1. r[sub] = Node(h2, sub)
    BY <1>4, <1>6, NodesAt
  <2>2. Node(h2, sub).x = h2.b[sub].x
    BY DEF Node
  <2> QED
    BY <2>1, <2>2 DEF ScalarMerged
<1> HIDE DEF v
<1>16. Renamed(r, sub, m[1]) = [r EXCEPT ![sub].x = v]
  BY <1>15 DEF Renamed
<1>17. Nodes(g) = Renamed(r, sub, m[1])
  BY <1>9, <1>13, <1>16
<1> QED
  BY <1>13, <1>14, <1>17 DEF r

(* mergeField into a field builder that has the default message.              *)
LEMMA MergeDefaultNodes ==
  ASSUME FieldPresence,
         NEW h, TreeOK(h), NEW b \in DOMAIN h.b, NEW s \in DOMAIN h.s, h.s[s].parent = b,
         h.s[s].builder = 0, h.s[s].message = Default, NEW m \in Contentful,
         NEW below, NEW g, g = MergeBelow(h, b, m, below)
  PROVE  Nodes(g) = Owned(h, b, m) /\ Unset(g) /\ HasKept(h, g)
<1> DEFINE k == FieldChanged([h EXCEPT !.s[s].message = m], s)
<1>1. HeapOK(h) /\ Linked(h) /\ h \in Heaps
  BY DEF TreeOK, HeapOK, Almost
<1>2. h.b[b].fieldBuilder = s /\ s # 0
  BY <1>1, Objects DEF Linked
<1>3. g = WithSet(k, b)
  BY <1>2 DEF MergeBelow, WithSet
<1>4. k = FieldChanged([h EXCEPT !.s[s].message = m], s)
  OBVIOUS
<1> HIDE DEF k
<1>5. /\ AlikeBut(h, k, b) /\ k.b[b].x = h.b[b].x /\ k.b[b].fieldBuilder = s
      /\ k.s[s].builder = 0 /\ k.s[s].message = m
  <2>1. /\ AlikeBut(h, k, b) /\ k.b[b].x = h.b[b].x /\ k.b[b].has = h.b[b].has
        /\ k.b[b].field = h.b[b].field /\ k.b[b].fieldBuilder = h.b[b].fieldBuilder
        /\ s \in DOMAIN k.s /\ k.s[s].builder = 0 /\ k.s[s].message = m
    BY <1>1, <1>4, FieldMessageShows
  <2> QED
    BY <1>2, <2>1
<1>6. k \in Heaps
  BY <1>1, <1>4, FieldMessageOK DEF HeapOK, Almost
<1>7. /\ AlikeBut(h, g, b) /\ g.b[b].x = k.b[b].x /\ g.b[b].has
      /\ g.b[b].fieldBuilder = k.b[b].fieldBuilder /\ g.s = k.s
  <2>1. AlikeBut(h, k, b)
    BY <1>5
  <2>2. /\ AlikeBut(h, g, b) /\ g.b[b].x = k.b[b].x /\ g.b[b].has
        /\ g.b[b].field = k.b[b].field /\ g.b[b].fieldBuilder = k.b[b].fieldBuilder /\ g.s = k.s
    BY <1>3, <1>6, <2>1, ThenSet
  <2> QED
    BY <2>2
<1>8. Node(g, b).child = m /\ Node(g, b).sub = 0 /\ UnsetAt(g, b) /\ g.b[b].x = h.b[b].x
  BY <1>2, <1>5, <1>7 DEF Node, UnsetAt
<1>9. Nodes(g) = Tree!WithChild(Nodes(h), b, m) /\ Unset(g)
  BY <1>7, <1>8, ChildIs
<1>10. Merge(Node(h, b).child, m) = m
  <2>1. Node(h, b).child \in {NONE, Default}
    BY <1>2 DEF Node
  <2>2. m \in Seq(Scalars)
    BY DEF Contentful
  <2> QED
    BY <2>1, <2>2, Unmerged
<1>11. HasKept(h, g)
  BY <1>7, ButKept
<1> QED
  BY <1>9, <1>10, <1>11 DEF Owned

(* Two changes of b are one.                                                 *)
LEMMA ButTwice ==
  ASSUME NEW h, NEW k, NEW g, NEW b \in DOMAIN h.b, AlikeBut(h, k, b), AlikeBut(k, g, b), Grown(h, k)
  PROVE  AlikeBut(h, g, b)
  BY DEF AlikeBut, Grown

(* m merged into the builder c, which has no field builder.                   *)
LEMMA MergeFromNew ==
  ASSUME NEW h, HeapOK(h), NEW c \in DOMAIN h.b, h.b[c].fieldBuilder = 0,
         h.b[c].has \/ h.b[c].field = NONE, NEW m \in Contentful,
         NEW g, g = MergeFrom(h, c, m, MergeOwn(h, c, Tail(m)))
  PROVE  /\ HeapOK(g) /\ Grown(h, g) /\ AlikeBut(h, g, c) /\ UnsetAt(g, c) /\ HasKept(h, g)
         /\ Node(g, c) = [level |-> h.b[c].level, x |-> ScalarMerged(h.b[c].x, m),
                          child |-> Merge(h.b[c].field, Tail(m)), sub |-> 0]
<1> DEFINE own == MergeOwn(h, c, Tail(m))
           h2 == FieldMerged(h, m, own)
           f == Merge(h.b[c].field, Tail(m))
<1>1. Tail(m) \in Seq(Scalars) /\ own = MergeOwn(h, c, Tail(m)) /\ h2 = FieldMerged(h, m, own)
      /\ g = MergeFrom(h, c, m, own)
  BY TopAndRest
<1> HIDE DEF own, h2
<1>2. HeapOK(own) /\ Grown(h, own)
  BY <1>1, MergeOwnOK
<1>3. HeapOK(g) /\ Grown(h, g)
  BY <1>1, <1>2, MergeFromOK
<1>4. /\ AlikeBut(h, own, c) /\ own.b[c].x = h.b[c].x /\ own.b[c].has
      /\ own.b[c].field = f /\ own.b[c].fieldBuilder = h.b[c].fieldBuilder
      /\ AlikeFields(h, own)
  <2> DEFINE v == Tail(m)
  <2>1. v \in Seq(Scalars) /\ own = MergeOwn(h, c, v) /\ f = Merge(h.b[c].field, v)
    BY <1>1
  <2> HIDE DEF v, f
  <2>2. /\ AlikeBut(h, own, c) /\ own.b[c].x = h.b[c].x /\ own.b[c].has
        /\ own.b[c].field = Merge(h.b[c].field, v) /\ own.b[c].fieldBuilder = h.b[c].fieldBuilder
        /\ AlikeFields(h, own)
    BY <2>1, MergeOwnShows
  <2> QED
    BY <2>1, <2>2
<1>5. /\ HeapOK(h2) /\ Grown(h, h2)
      /\ AlikeBut(h, h2, c) /\ h2.b[c].x = h.b[c].x /\ h2.b[c].fieldBuilder = 0
      /\ h2.b[c].field = f /\ (h2.b[c].has \/ f = NONE) /\ (h.b[c].has => h2.b[c].has)
  <2>1. CASE Len(m) > 1
    <3>1. h2 = own
      BY <1>1, <2>1 DEF FieldMerged
    <3> HIDE DEF f
    <3> QED
      BY <1>2, <1>4, <3>1
  <2>2. CASE ~ (Len(m) > 1)
    <3>1. h2 = h
      BY <1>1, <2>2 DEF FieldMerged
    <3>2. Tail(m) = NONE
      <4>1. m \in Seq(Scalars) /\ m # << >> /\ Len(m) \in Nat
        BY LenProperties DEF Contentful, NONE
      <4>2. Len(Tail(m)) = Len(m) - 1
        BY <4>1, HeadTailProperties
      <4>3. Len(m) # 0
        BY <4>1, EmptySeq
      <4>4. Len(Tail(m)) = 0
        BY <2>2, <4>1, <4>2, <4>3
      <4> QED
        BY <1>1, <4>4, EmptySeq DEF NONE
    <3>3. h.b[c].field \in Seq(Scalars)
      BY Objects, BuilderFields DEF HeapOK, Almost
    <3>4. f = h.b[c].field
      BY <3>2, <3>3, Unmerged
    <3>5. AlikeBut(h, h, c)
      BY DEF AlikeBut
    <3> HIDE DEF f
    <3> QED
      BY <3>1, <3>4, <3>5, GrownSame
  <2> QED
    BY <2>1, <2>2
<1>6. c \in DOMAIN h2.b /\ h2.b[c].level = h.b[c].level
  BY <1>5 DEF AlikeBut
<1> HIDE DEF f
<1>7. /\ AlikeBut(h2, g, c) /\ g.b[c].x = ScalarMerged(h2.b[c].x, m) /\ g.b[c].has = h2.b[c].has
      /\ g.b[c].field = h2.b[c].field /\ g.b[c].fieldBuilder = h2.b[c].fieldBuilder
      /\ AlikeFields(h2, g)
  BY <1>1, <1>2, MergeFromShows
<1>8. AlikeBut(h, g, c)
  BY <1>5, <1>7, ButTwice
<1>9. g.b[c].level = h.b[c].level
  BY <1>8 DEF AlikeBut
<1>10. /\ g.b[c].x = ScalarMerged(h.b[c].x, m) /\ g.b[c].fieldBuilder = 0 /\ g.b[c].field = f
       /\ (g.b[c].has \/ f = NONE) /\ (h.b[c].has => g.b[c].has)
  BY <1>5, <1>7
<1>11. UnsetAt(g, c)
  BY <1>10 DEF UnsetAt
<1>12. Node(g, c) = [level |-> h.b[c].level, x |-> ScalarMerged(h.b[c].x, m), child |-> f, sub |-> 0]
  BY <1>9, <1>10 DEF Node
<1>13. HasKept(h, g)
  BY <1>8, <1>10, ButKept
<1> QED
  BY <1>3, <1>8, <1>11, <1>12, <1>13 DEF f

(* mergeField into a field builder that has another message, but no builder.   *)
LEMMA MergeNewNodes ==
  ASSUME FieldPresence,
         NEW h, TreeOK(h), NEW b \in DOMAIN h.b, NEW s \in DOMAIN h.s, h.s[s].parent = b,
         h.s[s].builder = 0, h.s[s].message # Default, NEW m \in Contentful,
         NEW below, NEW g, g = MergeBelow(h, b, m, below)
  PROVE  Nodes(g) = Tree!Attached(Owned(h, b, m), b) /\ Unset(g) /\ HasKept(h, g)
<1> DEFINE new == GetBuilder(h, s)
           c == new.s[s].builder
           k1 == MergeFrom(new, c, m, MergeOwn(new, c, Tail(m)))
           p == h.s[s].message
           q == Merge(p, m)
           k == Node(h, b)
           n == [level |-> k.level, x |-> k.x, child |-> NONE, sub |-> c]
           o == [level |-> k.level + 1, x |-> Head(q), child |-> Tail(q), sub |-> 0]
<1>1. HeapOK(h) /\ Linked(h) /\ h \in Heaps /\ UnsetAt(h, b)
  BY DEF TreeOK, HeapOK, Almost, Unset
<1>2. h.b[b].fieldBuilder = s /\ s # 0 /\ h.b[b].has /\ p \in Contentful /\ k.child = p
  <2>1. h.b[b].fieldBuilder = s /\ p # NONE
    BY <1>1 DEF Linked
  <2>2. s # 0 /\ p \in Seq(Scalars)
    BY <1>1, Objects, FieldBuilderFields
  <2>3. h.b[b].has
    BY <1>1, <2>1, <2>2 DEF UnsetAt
  <2> QED
    BY <2>1, <2>2, <2>3 DEF Node, Contentful
<1>3. g = WithSet(FieldChanged(k1, s), b)
  BY <1>2 DEF MergeBelow, WithSet
<1>4. AddedBuilder(h, s, new, c)
  <2>1. PICK d : AddedBuilder(h, s, new, d)
    BY <1>1, NewBuilder
  <2>2. c = d
    BY <2>1 DEF AddedBuilder
  <2> QED
    BY <2>1, <2>2
<1>5. Nodes(new) = Tree!Attached(Nodes(h), b) /\ Unset(new)
  BY <1>2, GetBuilderNodes
<1>6. HeapOK(new) /\ Grown(h, new)
  BY <1>1, GetBuilderOK
<1>7. k1 = MergeFrom(new, c, m, MergeOwn(new, c, Tail(m)))
  OBVIOUS
<1> HIDE DEF new, c, k1
<1>8. /\ c \in DOMAIN new.b /\ new.b[c].fieldBuilder = 0 /\ new.b[c].field = Tail(p)
      /\ new.b[c].x = Head(p) /\ new.b[c].level = h.b[b].level + 1
      /\ new.b[b] = h.b[b] /\ b \in DOMAIN new.b /\ b # c /\ s \in DOMAIN new.s /\ c = Len(h.b) + 1
  BY <1>4 DEF AddedBuilder
<1>9. new.b[c].has \/ new.b[c].field = NONE
  BY <1>4, <1>8 DEF AddedBuilder
<1>10. /\ HeapOK(k1) /\ Grown(new, k1) /\ AlikeBut(new, k1, c) /\ UnsetAt(k1, c)
       /\ HasKept(new, k1)
       /\ Node(k1, c) = [level |-> new.b[c].level, x |-> ScalarMerged(new.b[c].x, m),
                         child |-> Merge(new.b[c].field, Tail(m)), sub |-> 0]
  BY <1>6, <1>7, <1>8, <1>9, MergeFromNew
<1>11. q \in Contentful /\ Node(k1, c) = o
  <2>1. q \in Contentful /\ Head(q) = (IF m[1] # 0 THEN m[1] ELSE Head(p))
        /\ Tail(q) = Merge(Tail(p), Tail(m))
    BY <1>2, MergeTop
  <2>2. k.level = h.b[b].level
    BY DEF Node
  <2>3. Head(q) = ScalarMerged(new.b[c].x, m)
    BY <1>8, <2>1 DEF ScalarMerged
  <2>4. Tail(q) = Merge(new.b[c].field, Tail(m)) /\ new.b[c].level = k.level + 1
    BY <1>8, <2>1, <2>2
  <2> HIDE DEF q, k
  <2> QED
    BY <1>10, <2>1, <2>3, <2>4
<1>12. Nodes(k1) = [Nodes(new) EXCEPT ![c] = Node(k1, c)] /\ Unset(k1)
  BY <1>5, <1>6, <1>8, <1>10, ButNodes DEF HeapOK, Almost
<1>13. AttachedTo(Nodes(h), b, Nodes(new), n,
                  [level |-> k.level + 1, x |-> Head(p), child |-> Tail(p), sub |-> 0])
  <2> DEFINE gs == Tree!WithChild(Nodes(h), b, p)
             o1 == [level |-> k.level + 1, x |-> Head(p), child |-> Tail(p), sub |-> 0]
  <2>1. p # NONE /\ p = (IF Node(h, b).child = NONE THEN Default ELSE Node(h, b).child)
    BY <1>2 DEF Contentful
  <2>2. gs = Tree!WithChild(Nodes(h), b, p) /\ k = Node(h, b)
    OBVIOUS
  <2> HIDE DEF gs, p, k
  <2>3. Tree!Attached(gs, b) = Tree!Attached(Nodes(h), b)
    BY <1>1, <2>1, <2>2, AttachedSame
  <2>4. AttachedTo(Nodes(h), b, Tree!Attached(gs, b), n, o1)
    BY <1>1, <1>8, <2>1, <2>2, AttachedOther
  <2> QED
    BY <1>5, <2>3, <2>4
<1>14. AttachedTo(Nodes(h), b, Tree!Attached(Owned(h, b, m), b), n, o)
  <2> DEFINE gs == Owned(h, b, m)
  <2>1. gs = Tree!WithChild(Nodes(h), b, q) /\ k = Node(h, b) /\ q # NONE
    BY <1>2, <1>11 DEF Owned, Contentful
  <2> HIDE DEF gs, q, k
  <2>2. AttachedTo(Nodes(h), b, Tree!Attached(gs, b), n, o)
    BY <1>1, <1>8, <2>1, AttachedOther
  <2> QED
    BY <2>2 DEF gs
<1>15. Nodes(k1) = Tree!Attached(Owned(h, b, m), b)
  <2> DEFINE ns == Nodes(h)
             A == Nodes(new)
             B == Tree!Attached(Owned(h, b, m), b)
             o1 == [level |-> k.level + 1, x |-> Head(p), child |-> Tail(p), sub |-> 0]
  <2>1. AttachedTo(ns, b, A, n, o1) /\ AttachedTo(ns, b, B, n, o)
    BY <1>13, <1>14
  <2>2. c = Len(ns) + 1 /\ Len(ns) \in Nat
    BY <1>1, <1>8, NodesSeq, Objects
  <2>3. Nodes(k1) = [A EXCEPT ![c] = o]
    BY <1>11, <1>12
  <2> HIDE DEF ns, A, B, n, o, o1
  <2>4. [A EXCEPT ![c] = o] = B
    BY <2>1, <2>2 DEF AttachedTo
  <2> QED
    BY <2>3, <2>4 DEF B
<1>16. k1.b[b].has /\ b \in DOMAIN k1.b /\ s \in DOMAIN k1.s /\ HasKept(new, k1)
  <2>1. k1.b[b].has
    BY <1>2, <1>8, <1>10 DEF AlikeBut
  <2>2. b \in DOMAIN k1.b /\ s \in DOMAIN k1.s
    BY <1>8, <1>10 DEF Grown
  <2> QED
    BY <1>10, <2>1, <2>2
<1>17. Alike(k1, g)
  BY <1>3, <1>10, <1>16, ToldAndSet
<1>18. Nodes(g) = Nodes(k1) /\ Unset(g)
  BY <1>10, <1>12, <1>17, AlikeNodes DEF HeapOK, Almost
<1>19. HasKept(h, g)
  <2>1. HasKept(h, new)
    BY <1>4 DEF AddedBuilder, HasKept
  <2>2. HasKept(k1, g) /\ Grown(h, k1)
    BY <1>6, <1>10, <1>17, AlikeKept, GrownTwice
  <2> QED
    BY <1>6, <1>16, <2>1, <2>2, KeptTwice
<1> QED
  BY <1>15, <1>18, <1>19

(* What a level of mergeField may leave of the tree: the builder c has no     *)
(* builder below, or one into which part's scalar is merged, after what is    *)
(* below left one of the trees below.                                        *)
TreeStep(h, c, part, below) ==
  IF Node(h, c).sub = 0
    THEN {Owned(h, c, part), Tree!Attached(Owned(h, c, part), c)}
    ELSE {Renamed(r, Node(h, c).sub, part[1]) : r \in below}

(* mergeField at one level leaves what MessageTree allows, if it does at     *)
(* the next.                                                                 *)
LEMMA MergeStep ==
  ASSUME FieldPresence, NEW h, TreeOK(h), NEW c \in DOMAIN h.b, NEW part \in Contentful,
         NEW next, TreeOK(next), Grown(h, next), HasKept(h, next),
         NEW below, Nodes(FieldMerged(h, part, next)) \in below \/ Node(h, c).sub = 0,
         NEW g, g = IF h.b[c].fieldBuilder = 0 THEN MergeOwn(h, c, part)
                    ELSE MergeBelow(h, c, part, next)
  PROVE  TreeOK(g) /\ Grown(h, g) /\ HasKept(h, g) /\ Nodes(g) \in TreeStep(h, c, part, below)
<1> DEFINE s == h.b[c].fieldBuilder
           sub == Node(h, c).sub
<1>1. HeapOK(h) /\ HeapOK(next) /\ part \in Seq(Scalars)
  BY DEF TreeOK, Contentful
<1>2. sub = IF s # 0 THEN h.s[s].builder ELSE 0
  BY DEF Node
<1>3. TreeStep(h, c, part, below) =
        IF sub = 0 THEN {Owned(h, c, part), Tree!Attached(Owned(h, c, part), c)}
        ELSE {Renamed(r, sub, part[1]) : r \in below}
  BY DEF TreeStep
<1>4. Nodes(FieldMerged(h, part, next)) \in below \/ sub = 0
  OBVIOUS
<1> HIDE DEF sub
<1>5. CASE s = 0
  <2>1. g = MergeOwn(h, c, part)
    BY <1>5
  <2>2. HeapOK(g) /\ Grown(h, g)
    BY <1>1, <2>1, MergeOwnOK
  <2>3. Nodes(g) = Owned(h, c, part) /\ Unset(g) /\ HasKept(h, g)
    BY <1>1, <1>5, <2>1, MergeOwnNodes
  <2> QED
    BY <1>2, <1>3, <1>5, <2>2, <2>3 DEF TreeOK
<1>6. CASE s # 0
  <2>1. g = MergeBelow(h, c, part, next)
    BY <1>6
  <2>2. HeapOK(g) /\ Grown(h, g)
    BY <1>1, <1>6, <2>1, MergeBelowOK
  <2>3. s \in DOMAIN h.s /\ h.s[s].parent = c
    BY <1>1, <1>6, FieldOf
  <2> HIDE DEF s
  <2>4. CASE sub = 0 /\ h.s[s].message = Default
    <3>1. h.s[s].builder = 0 /\ h.s[s].message = Default
      BY <1>2, <1>6, <2>4
    <3>2. Nodes(g) = Owned(h, c, part) /\ Unset(g) /\ HasKept(h, g)
      BY <2>1, <2>3, <3>1, MergeDefaultNodes
    <3> QED
      BY <1>3, <2>2, <2>4, <3>2 DEF TreeOK
  <2>5. CASE sub = 0 /\ h.s[s].message # Default
    <3>1. h.s[s].builder = 0 /\ h.s[s].message # Default
      BY <1>2, <1>6, <2>5
    <3>2. Nodes(g) = Tree!Attached(Owned(h, c, part), c) /\ Unset(g) /\ HasKept(h, g)
      BY <2>1, <2>3, <3>1, MergeNewNodes
    <3> QED
      BY <1>3, <2>2, <2>5, <3>2 DEF TreeOK
  <2>6. CASE sub # 0
    <3>1. h.s[s].builder = sub /\ sub \in DOMAIN h.b
      BY <1>1, <1>2, <1>6, <2>3, <2>6 DEF HeapOK, Almost, Linked
    <3>2. /\ Nodes(g) = Renamed(Nodes(FieldMerged(h, part, next)), sub, part[1])
          /\ Unset(g) /\ HasKept(h, g)
      BY <2>1, <2>3, <3>1, MergeBuilderNodes
    <3> QED
      BY <1>3, <1>4, <2>2, <2>6, <3>2 DEF TreeOK
  <2> QED
    BY <2>4, <2>5, <2>6
<1> QED
  BY <1>5, <1>6

(* What is left of a message from a level on.                                *)
LEMMA PartOf ==
  ASSUME NEW m \in Contentful, NEW n \in 1..Len(m), NEW part, part = SubSeq(m, n, Len(m))
  PROVE  part \in Contentful /\ Len(part) = Len(m) - n + 1 /\ part[1] = m[n]
<1> DEFINE L == Len(m)
<1>1. L \in Nat /\ L >= 1 /\ m \in Seq(Scalars)
  <2>1. m \in Seq(Scalars) /\ m # << >>
    BY DEF Contentful, NONE
  <2> QED
    BY <2>1, EmptySeq, LenProperties
<1>2. \A i \in n..L : m[i] \in Scalars
  BY <1>1, ElementOfSeq
<1>3. n \in Int /\ L \in Int /\ n <= L /\ part = SubSeq(m, n, L)
  BY <1>1
<1> HIDE DEF L
<1>4. /\ part \in Seq(Scalars) /\ Len(part) = L - n + 1
      /\ \A i \in 1..L - n + 1 : part[i] = m[n + i - 1]
  BY <1>2, <1>3, SubSeqProperties
<1>5. Len(part) # 0 /\ Len(NONE) = 0
  BY <1>3, <1>4 DEF NONE
<1>6. part[1] = m[n + 1 - 1] /\ n + 1 - 1 = n
  BY <1>3, <1>4
<1> QED
  BY <1>4, <1>5, <1>6 DEF Contentful, L

(* The same in the words of MessageTree, and the trees it allows, level by    *)
(* level.                                                                    *)
MergedAt(ns, m, n, c, below) ==
  LET sub == ns[c].sub
      own == Tree!WithChild(ns, c, Tree!Merge(ns[c].child, SubSeq(m, n, Len(m))))
  IN IF sub = 0
       THEN {own, Tree!Attached(own, c)}
       ELSE {[r EXCEPT ![sub].x = IF m[n] # 0 THEN m[n] ELSE @] : r \in below}

TreeMerged(ns, m, f) ==
  f = [n \in 1..Len(m) |->
         [c \in DOMAIN ns |->
            MergedAt(ns, m, n, c, IF n = Len(m) THEN {ns} ELSE f[n + 1][ns[c].sub])]]

(* There is such a function, as there is for MergedExists.                   *)
LEMMA TreeMergedExists ==
  ASSUME NEW m, Len(m) \in Nat, NEW ns
  PROVE  \E f : TreeMerged(ns, m, f)
<1> DEFINE L == Len(m)
           Step(n, next) ==
             [c \in DOMAIN ns |-> MergedAt(ns, m, n, c, IF n = L THEN {ns} ELSE next[ns[c].sub])]
           From(k, f) == \A n \in 1..L : n > L - k => f[n] = Step(n, f[n + 1])
           Good == {k \in 0..L : \E f : f = [n \in 1..L |-> f[n]] /\ From(k, f)}
<1>0. L \in Nat
  OBVIOUS
<1>1. \A x, y : Step(L, x) = Step(L, y)
  OBVIOUS
<1> HIDE DEF Step, L
<1>2. 0 \in Good
  <2> DEFINE f == [n \in 1..L |-> 0]
  <2>1. f = [n \in 1..L |-> f[n]]
    OBVIOUS
  <2>2. From(0, f)
    BY <1>0
  <2> HIDE DEF From, f
  <2> QED
    BY <1>0, <2>1, <2>2
<1>3. PICK k \in Good : \A j \in Good : j <= k
  <2>1. Good \in SUBSET (0..L) /\ Good # {}
    BY <1>2
  <2> HIDE DEF Good
  <2> QED
    BY <1>0, <2>1, Greatest
<1>4. PICK f : f = [n \in 1..L |-> f[n]] /\ From(k, f)
  OBVIOUS
<1>5. k \in Nat /\ k <= L
  BY <1>0
<1>6. k = L
  <2> SUFFICES ASSUME k # L PROVE FALSE
    OBVIOUS
  <2> DEFINE E == [n \in 1..L |-> Step(n, f[n + 1])]
  <2>1. E = [n \in 1..L |-> E[n]]
    OBVIOUS
  <2>2. From(k + 1, E)
    <3> SUFFICES ASSUME NEW n \in 1..L, n > L - (k + 1)
                 PROVE  E[n] = Step(n, E[n + 1])
      OBVIOUS
    <3>1. E[n] = Step(n, f[n + 1])
      OBVIOUS
    <3>2. CASE n = L
      BY <1>1, <3>1, <3>2
    <3>3. CASE n # L
      <4>1. n + 1 \in 1..L /\ n + 1 > L - k
        BY <1>0, <1>5, <3>3
      <4>2. f[n + 1] = Step(n + 1, f[n + 1 + 1])
        BY <1>4, <4>1
      <4>3. E[n + 1] = Step(n + 1, f[n + 1 + 1])
        BY <4>1
      <4> QED
        BY <3>1, <4>2, <4>3
    <3> QED
      BY <3>2, <3>3
  <2> HIDE DEF From, E
  <2>3. k + 1 \in 0..L
    BY <1>0, <1>5, k # L
  <2>4. k + 1 \in Good
    BY <2>1, <2>2, <2>3
  <2> HIDE DEF Good
  <2> QED
    BY <1>3, <1>5, <2>4
<1>7. \A n \in 1..L : f[n] = Step(n, f[n + 1])
  <2> SUFFICES ASSUME NEW n \in 1..L PROVE f[n] = Step(n, f[n + 1])
    OBVIOUS
  <2>1. n > L - k
    BY <1>5, <1>6
  <2>2. From(k, f)
    BY <1>4
  <2> QED
    BY <2>1, <2>2
<1>8. f = [n \in 1..L |-> Step(n, f[n + 1])]
  BY <1>4, <1>7
<1>9. TreeMerged(ns, m, f)
  BY <1>8 DEF L, Step, TreeMerged
<1> QED
  BY <1>9

(* The abstract step of a level is that of MessageTree.                       *)
PartAt(part, m, n) == part = SubSeq(m, n, Len(m)) /\ part[1] = m[n]

(* The two ways to write a level are the same.                               *)
LEMMA TreeStepIs ==
  ASSUME NEW h, NEW c \in DOMAIN h.b, NEW m, NEW n, NEW part, PartAt(part, m, n), NEW below
  PROVE  TreeStep(h, c, part, below) = MergedAt(Nodes(h), m, n, c, below)
<1> DEFINE ns == Nodes(h)
           own == Tree!WithChild(ns, c, Tree!Merge(ns[c].child, SubSeq(m, n, Len(m))))
<1>1. ns[c] = Node(h, c)
  BY NodesAt
<1>2. own = Owned(h, c, part)
  <2>1. Tree!Merge(ns[c].child, SubSeq(m, n, Len(m))) = Merge(Node(h, c).child, part)
    BY <1>1 DEF Tree!Merge, Merge, PartAt
  <2> QED
    BY <2>1 DEF Owned
<1>3. CASE Node(h, c).sub = 0
  <2>1. MergedAt(ns, m, n, c, below) = {own, Tree!Attached(own, c)}
    BY <1>1, <1>3 DEF MergedAt
  <2> HIDE DEF own
  <2> QED
    BY <1>2, <1>3, <2>1 DEF TreeStep
<1>4. CASE Node(h, c).sub # 0
  <2> DEFINE i == Node(h, c).sub
             v == m[n]
  <2>1. MergedAt(ns, m, n, c, below) = {[r EXCEPT ![i].x = IF v # 0 THEN v ELSE @] : r \in below}
    <3>1. MergedAt(ns, m, n, c, below) =
            {[r EXCEPT ![ns[c].sub].x = IF m[n] # 0 THEN m[n] ELSE @] : r \in below}
      BY <1>1, <1>4 DEF MergedAt
    <3> QED
      BY <1>1, <3>1
  <2>2. TreeStep(h, c, part, below) = {Renamed(r, i, v) : r \in below}
    BY <1>4 DEF TreeStep, PartAt
  <2> HIDE DEF i, v
  <2>3. {Renamed(r, i, v) : r \in below} =
          {[r EXCEPT ![i].x = IF v # 0 THEN v ELSE @] : r \in below}
    BY DEF Renamed
  <2> QED
    BY <2>1, <2>2, <2>3
<1> QED
  BY <1>3, <1>4

(* MergeField is MergeField of the tree: the greatest level at which it      *)
(* left something else would have one below it at which it did.              *)
LEMMA MergeFieldNodes ==
  ASSUME FieldPresence, NEW h, TreeOK(h), NEW b \in DOMAIN h.b, NEW m \in Contentful,
         NEW g, g = MergeField(h, b, m)
  PROVE  Nodes(g) \in Tree!MergedChild(Nodes(h), b, m) /\ Unset(g)
<1> DEFINE L == Len(m)
           G == CHOOSE f : Merged(h, m, f)
           A == CHOOSE f : TreeMerged(Nodes(h), m, f)
<1>1. L \in Nat /\ L >= 1 /\ HeapOK(h)
  <2>1. m \in Seq(Scalars) /\ m # << >>
    BY DEF Contentful, NONE
  <2> QED
    BY <2>1, EmptySeq, LenProperties DEF TreeOK
<1>2. g = G[1][b] /\ Merged(h, m, G)
  <2>1. g = G[1][b]
    BY DEF MergeField, Merged
  <2>2. Merged(h, m, G)
    BY <1>1, MergedExists
  <2> QED
    BY <2>1, <2>2
<1>3. Tree!MergedChild(Nodes(h), b, m) = A[1][b] /\ TreeMerged(Nodes(h), m, A)
  <2>1. Tree!MergedChild(Nodes(h), b, m) = A[1][b]
    BY DEF Tree!MergedChild, TreeMerged, MergedAt
  <2>2. TreeMerged(Nodes(h), m, A)
    BY <1>1, TreeMergedExists
  <2> QED
    BY <2>1, <2>2
<1> HIDE DEF G, A
<1> DEFINE P(n) == SubSeq(m, n, L)
           Next1(n, c) == IF h.s[h.b[c].fieldBuilder].builder = 0 \/ n = L THEN h
                          ELSE G[n + 1][h.s[h.b[c].fieldBuilder].builder]
           Below(n, c) == IF n = L THEN {Nodes(h)} ELSE A[n + 1][Node(h, c).sub]
<1>4. ASSUME NEW n \in 1..L, NEW c \in DOMAIN h.b
      PROVE  G[n][c] = IF h.b[c].fieldBuilder = 0 THEN MergeOwn(h, c, P(n))
                       ELSE MergeBelow(h, c, P(n), Next1(n, c))
  <2> DEFINE Step(k) == [i \in DOMAIN h.b |->
                           IF h.b[i].fieldBuilder = 0 THEN MergeOwn(h, i, P(k))
                           ELSE MergeBelow(h, i, P(k), Next1(k, i))]
  <2>1. G = [k \in 1..L |-> Step(k)]
    BY <1>2 DEF Merged
  <2>2. G[n] = Step(n)
    <3> HIDE DEF Step, L
    <3> QED
      BY <2>1
  <2> HIDE DEF P, Next1
  <2> QED
    BY <2>2
<1>5. ASSUME NEW n \in 1..L, NEW c \in DOMAIN h.b
      PROVE  A[n][c] = TreeStep(h, c, P(n), Below(n, c))
  <2> DEFINE ns == Nodes(h)
             Step(k) == [i \in DOMAIN ns |->
                           MergedAt(ns, m, k, i, IF k = L THEN {ns} ELSE A[k + 1][ns[i].sub])]
             below == IF n = L THEN {ns} ELSE A[n + 1][ns[c].sub]
  <2>1. A = [k \in 1..L |-> Step(k)]
    BY <1>3 DEF TreeMerged
  <2>2. A[n] = Step(n)
    <3> HIDE DEF Step, L
    <3> QED
      BY <2>1
  <2>3. c \in DOMAIN ns /\ ns[c] = Node(h, c)
    BY NodesAt
  <2>4. A[n][c] = MergedAt(ns, m, n, c, below)
    <3> HIDE DEF ns
    <3> QED
      BY <2>2, <2>3
  <2>5. P(n)[1] = m[n] /\ P(n) = SubSeq(m, n, Len(m))
    BY PartOf
  <2>6. Below(n, c) = below
    BY <2>3
  <2> DEFINE part == P(n)
  <2>7. PartAt(part, m, n)
    BY <2>5 DEF PartAt
  <2> HIDE DEF Below, below, part
  <2>8. TreeStep(h, c, part, below) = MergedAt(ns, m, n, c, below)
    BY <2>7, TreeStepIs
  <2> QED
    BY <2>4, <2>6, <2>8 DEF part
<1> DEFINE Right(n) == \A c \in DOMAIN h.b :
             TreeOK(G[n][c]) /\ Grown(h, G[n][c]) /\ HasKept(h, G[n][c]) /\ Nodes(G[n][c]) \in A[n][c]
           Wrong == {n \in 1..L : ~ Right(n)}
<1>6. ASSUME NEW n \in 1..L, n < L => Right(n + 1)
      PROVE  Right(n)
  <2> SUFFICES ASSUME NEW c \in DOMAIN h.b
               PROVE  /\ TreeOK(G[n][c]) /\ Grown(h, G[n][c]) /\ HasKept(h, G[n][c])
                      /\ Nodes(G[n][c]) \in A[n][c]
    OBVIOUS
  <2> DEFINE part == P(n)
             s == h.b[c].fieldBuilder
             sub == Node(h, c).sub
             next == Next1(n, c)
             below == Below(n, c)
             e == G[n][c]
  <2>1. part \in Contentful /\ Len(part) = L - n + 1
    BY PartOf
  <2>2. Len(part) > 1 <=> n < L
    <3> HIDE DEF part, L
    <3> QED
      BY <1>1, <2>1
  <2>3. sub # 0 => s # 0 /\ h.s[s].builder = sub /\ sub \in DOMAIN h.b
    <3>1. sub # 0 => s # 0 /\ h.s[s].builder = sub
      BY DEF Node
    <3> QED
      BY <1>1, <3>1 DEF HeapOK, Almost, Linked
  <2>4. TreeOK(h) /\ Grown(h, h) /\ HasKept(h, h)
    BY GrownSame DEF HasKept
  <2>5. s # 0 => sub = h.s[s].builder
    BY DEF Node
  <2>6. CASE s = 0 \/ sub = 0 \/ n = L
    <3>1. Nodes(FieldMerged(h, part, h)) \in below \/ sub = 0
      <4>1. CASE s = 0
        BY <4>1 DEF Node
      <4>2. CASE sub = 0
        BY <4>2
      <4>3. CASE n = L
        <5>1. FieldMerged(h, part, h) = h
          BY DEF FieldMerged
        <5> QED
          BY <4>3, <5>1
      <4> QED
        BY <2>6, <4>1, <4>2, <4>3
    <3>2. e = IF s = 0 THEN MergeOwn(h, c, part) ELSE MergeBelow(h, c, part, h)
      <4>1. s # 0 => next = h
        BY <2>5, <2>6
      <4> QED
        BY <1>4, <4>1
    <3>3. A[n][c] = TreeStep(h, c, part, below)
      BY <1>5
    <3> HIDE DEF part, e, below
    <3>4. TreeOK(e) /\ Grown(h, e) /\ HasKept(h, e) /\ Nodes(e) \in TreeStep(h, c, part, below)
      BY <2>1, <2>4, <3>1, <3>2, MergeStep
    <3> QED
      BY <3>3, <3>4 DEF e
  <2>7. CASE ~ (s = 0 \/ sub = 0 \/ n = L)
    <3>1. n < L /\ n + 1 \in 1..L
      BY <1>1, <2>7
    <3>2. next = G[n + 1][sub] /\ below = A[n + 1][sub]
      BY <2>5, <2>7
    <3>3. e = IF s = 0 THEN MergeOwn(h, c, part) ELSE MergeBelow(h, c, part, next)
      BY <1>4
    <3>4. A[n][c] = TreeStep(h, c, part, below)
      BY <1>5
    <3>5. TreeOK(next) /\ Grown(h, next) /\ HasKept(h, next) /\ Nodes(next) \in below
      <4>1. Right(n + 1) /\ sub \in DOMAIN h.b
        BY <1>6, <2>3, <2>7, <3>1
      <4> HIDE DEF next, below, sub
      <4> QED
        BY <3>2, <4>1
    <3> HIDE DEF part, e, below, next
    <3>6. FieldMerged(h, part, next) = next
      BY <2>2, <3>1 DEF FieldMerged
    <3>7. Nodes(FieldMerged(h, part, next)) \in below \/ sub = 0
      BY <3>5, <3>6
    <3>8. TreeOK(e) /\ Grown(h, e) /\ HasKept(h, e) /\ Nodes(e) \in TreeStep(h, c, part, below)
      BY <2>1, <3>3, <3>5, <3>7, MergeStep
    <3> QED
      BY <3>4, <3>8 DEF e
  <2> QED
    BY <2>6, <2>7
<1> HIDE DEF Right
<1>7. Wrong = {}
  <2> SUFFICES ASSUME Wrong # {} PROVE FALSE
    OBVIOUS
  <2>1. Wrong \in SUBSET (0..L)
    OBVIOUS
  <2>2. PICK n \in Wrong : \A j \in Wrong : j <= n
    <3> HIDE DEF Wrong, L
    <3> QED
      BY <1>1, <2>1, Greatest
  <2>3. n \in 1..L /\ ~ Right(n)
    OBVIOUS
  <2>4. n < L => n + 1 \in 1..L /\ ~ (n + 1 <= n)
    BY <1>1, <2>3
  <2>5. n < L => Right(n + 1)
    BY <2>2, <2>4
  <2> QED
    BY <1>6, <2>3, <2>5
<1>8. Right(1)
  <2>1. 1 \in 1..L
    BY <1>1
  <2> QED
    BY <1>7, <2>1
<1> QED
  BY <1>2, <1>3, <1>8 DEF Right, TreeOK

-----------------------------------------------------------------------------
(* The calls. *)

(* What MessageTree looks at.                                                *)
LEMMA TreeSees ==
  ASSUME NEW b \in DOMAIN heap.b
  PROVE  /\ b \in DOMAIN Nodes(heap) /\ Nodes(heap)[b].level = heap.b[b].level
         /\ Tree!HasField(b) <=> HasField(b)
         /\ Tree!FieldMessages(b) = Messages(heap.b[b].level + 1)
<1>1. b \in DOMAIN Nodes(heap) /\ Nodes(heap)[b].level = heap.b[b].level
  <2>1. b \in DOMAIN Nodes(heap) /\ Nodes(heap)[b] = Node(heap, b)
    BY NodesAt
  <2>2. Node(heap, b).level = heap.b[b].level
    BY DEF Node
  <2> QED
    BY <2>1, <2>2
<1>2. \A l : Tree!Messages(l) = Messages(l)
  BY DEF Tree!Messages, Messages
<1> QED
  BY <1>1, <1>2 DEF Tree!HasField, HasField, Tree!FieldMessages

(* The first builder is the first node.                                      *)
LEMMA InitTree ==
  ASSUME Init
  PROVE  Unset(heap) /\ Tree!Init
<1> DEFINE n == Builder(1, Default, 0, FALSE)
           k == [level |-> 1, x |-> 0, child |-> NONE, sub |-> 0]
<1>1. Head(Default) = 0 /\ Tail(Default) = NONE
  BY DEF Default, NONE
<1>2. n.level = 1 /\ n.x = 0 /\ ~ n.has /\ n.field = NONE /\ n.fieldBuilder = 0
  BY <1>1 DEF Builder
<1>3. heap.b = <<n>> /\ answer = NONE
  BY DEF Init
<1> HIDE DEF n
<1>4. DOMAIN heap.b = 1..1 /\ heap.b[1] = n
  BY <1>3
<1>5. Unset(heap)
  BY <1>2, <1>4 DEF Unset, UnsetAt
<1>6. Node(heap, 1) = k
  BY <1>2, <1>4 DEF Node
<1>7. Nodes(heap) = <<k>>
  <2>1. Nodes(heap) = [i \in 1..1 |-> Node(heap, i)]
    BY <1>4 DEF Nodes
  <2> HIDE DEF k
  <2>2. [i \in 1..1 |-> Node(heap, i)] = <<Node(heap, 1)>>
    OBVIOUS
  <2> QED
    BY <1>6, <2>1, <2>2
<1> QED
  BY <1>3, <1>5, <1>7 DEF Tree!Init, Tree!NONE, NONE

(* Building leaves the tree as it is.                                        *)
LEMMA SameTree ==
  ASSUME NEW C, TreeOK(heap), Remembers(heap, heap', C)
  PROVE  Nodes(heap') = Nodes(heap) /\ Unset(heap')
BY RemembersAlike, AlikeNodes DEF TreeOK, HeapOK, Almost

(* Every call is a call of the tree, or leaves it as it is.                  *)
LEMMA CallsTree ==
  ASSUME FieldPresence, TreeOK(heap), Next
  PROVE  Unset(heap') /\ [Tree!Next]_<<Nodes(heap), answer>>
<1>1. HeapOK(heap) /\ heap \in Heaps
  BY DEF TreeOK, HeapOK, Almost
<1>2. Nodes(heap)' = Nodes(heap')
  BY DEF Nodes, Node
<1>3. PICK b \in DOMAIN heap.b :
        \/ CallSetX(b) \/ CallSetField(b) \/ CallMergeField(b) \/ CallClearField(b) \/ CallClear(b)
        \/ CallGetFieldBuilder(b) \/ CallGetField(b) \/ CallBuild(b)
  BY DEF Next
<1>4. /\ b \in DOMAIN Nodes(heap) /\ Nodes(heap)[b].level = heap.b[b].level
      /\ Tree!HasField(b) <=> HasField(b)
      /\ Tree!FieldMessages(b) = Messages(heap.b[b].level + 1)
  BY TreeSees
<1>5. heap.b[b].level + 1 \in Nat /\ b \in DOMAIN heap.b
  BY <1>1, Objects, BuilderFields
<1>6. Tree!NONE = NONE /\ Tree!Default = Default
  BY DEF Tree!NONE, NONE, Tree!Default, Default
<1>7. ASSUME answer' = NONE,
             \/ Tree!SetX(b) \/ Tree!SetField(b) \/ Tree!MergeField(b) \/ Tree!Clear(b)
             \/ Tree!GetFieldBuilder(b)
      PROVE  Tree!Next
  BY <1>4, <1>6, <1>7 DEF Tree!Next
<1>8. CASE CallSetX(b)
  <2>1. PICK v \in Scalars : heap' = SetX(heap, b, v)
    BY <1>8 DEF CallSetX, Changes
  <2>2. Nodes(heap') = [Nodes(heap) EXCEPT ![b].x = v] /\ Unset(heap')
    BY <2>1, SetXNodes
  <2>3. Tree!SetX(b) /\ answer' = NONE
    BY <1>2, <1>8, <2>2 DEF Tree!SetX, CallSetX, Changes
  <2> QED
    BY <1>7, <2>2, <2>3
<1>9. CASE CallSetField(b)
  <2>1. PICK m \in Messages(heap.b[b].level + 1) : heap' = SetField(heap, b, m)
    BY <1>9 DEF CallSetField, Changes
  <2>2. m \in Contentful
    BY <1>5, MessagesType
  <2>3. Nodes(heap') = Tree!WithChild(Nodes(heap), b, m) /\ Unset(heap')
    BY <2>1, <2>2, SetFieldNodes
  <2>4. HasField(b) /\ answer' = NONE
    BY <1>9 DEF CallSetField, Changes
  <2>5. Tree!SetField(b)
    BY <1>2, <1>4, <2>1, <2>3, <2>4 DEF Tree!SetField
  <2> QED
    BY <1>7, <2>3, <2>4, <2>5
<1>10. CASE CallMergeField(b)
  <2>1. PICK m \in Messages(heap.b[b].level + 1) : heap' = MergeField(heap, b, m)
    BY <1>10 DEF CallMergeField, Changes
  <2>2. m \in Contentful
    BY <1>5, MessagesType
  <2>3. Nodes(heap') \in Tree!MergedChild(Nodes(heap), b, m) /\ Unset(heap')
    BY <2>1, <2>2, MergeFieldNodes
  <2>4. HasField(b) /\ answer' = NONE
    BY <1>10 DEF CallMergeField, Changes
  <2>5. Tree!MergeField(b)
    BY <1>2, <1>4, <2>1, <2>3, <2>4 DEF Tree!MergeField
  <2> QED
    BY <1>7, <2>3, <2>4, <2>5
<1>11. CASE CallClearField(b)
  <2>1. heap' = ClearField(heap, b) /\ HasField(b) /\ answer' = NONE
    BY <1>11 DEF CallClearField, Changes
  <2>2. Nodes(heap') = Tree!WithChild(Nodes(heap), b, NONE) /\ Unset(heap')
    BY <2>1, ClearFieldNodes
  <2>3. Tree!SetField(b)
    BY <1>2, <1>4, <1>6, <2>1, <2>2 DEF Tree!SetField
  <2> QED
    BY <1>7, <2>1, <2>2, <2>3
<1>12. CASE CallClear(b)
  <2>1. heap' = Clear(heap, b) /\ answer' = NONE
    BY <1>12 DEF CallClear, Changes
  <2>2. Nodes(heap') = Tree!WithChild([Nodes(heap) EXCEPT ![b].x = 0], b, NONE) /\ Unset(heap')
    BY <2>1, ClearNodes
  <2>3. Tree!Clear(b)
    BY <1>2, <1>6, <2>2 DEF Tree!Clear
  <2> QED
    BY <1>7, <2>1, <2>2, <2>3
<1>13. CASE CallGetFieldBuilder(b)
  <2>1. heap' = GetFieldBuilder(heap, b) /\ HasField(b) /\ heap.b[b].level < Depth /\ answer' = NONE
    BY <1>13 DEF CallGetFieldBuilder, Changes, HasField
  <2>2. /\ Unset(heap')
        /\ Node(heap, b).sub # 0 => Nodes(heap') = Nodes(heap)
        /\ Node(heap, b).sub = 0 => Nodes(heap') = Tree!Attached(Nodes(heap), b)
    BY <2>1, GetFieldBuilderNodes
  <2>3. Nodes(heap)[b] = Node(heap, b)
    BY NodesAt
  <2>4. CASE Node(heap, b).sub = 0
    <3>1. Tree!GetFieldBuilder(b)
      BY <1>2, <1>4, <2>1, <2>2, <2>3, <2>4 DEF Tree!GetFieldBuilder
    <3> QED
      BY <1>7, <2>1, <2>2, <3>1
  <2>5. CASE Node(heap, b).sub # 0
    <3> DEFINE v == heap.b[b].x
    <3>1. v \in Scalars
      BY <1>1, Objects, BuilderFields
    <3>2. Nodes(heap)[b].x = v
      BY <2>3 DEF Node
    <3>3. Nodes(heap') = [Nodes(heap) EXCEPT ![b].x = v]
      <4>1. Nodes(heap) = [i \in DOMAIN heap.b |-> Node(heap, i)]
        BY DEF Nodes
      <4>2. Node(heap, b) = [Node(heap, b) EXCEPT !.x = v]
        BY DEF Node
      <4> HIDE DEF v
      <4> QED
        BY <2>2, <2>5, <4>1, <4>2
    <3>4. Tree!SetX(b)
      BY <1>2, <3>1, <3>3 DEF Tree!SetX
    <3> QED
      BY <1>7, <2>1, <2>2, <3>4
  <2> QED
    BY <2>4, <2>5
<1>14. PICK C : CachedBut(heap, {}, C)
  BY <1>1 DEF HeapOK, Almost
<1>15. Tree!Value(b) = C[b]
  BY <1>14, ValueIs
<1>16. CASE CallGetField(b)
  <2> DEFINE s == heap.b[b].fieldBuilder
  <2>1. /\ HasField(b) /\ answer' = FieldAnswer(heap, b)
        /\ heap' = IF s = 0 THEN heap ELSE GetMessage(heap, s).heap
    BY <1>16 DEF CallGetField, Returns, FieldAnswer
  <2>2. FieldAnswer(heap, b) = IF Tail(C[b]) = NONE THEN Default ELSE Tail(C[b])
    BY <1>14, GetFieldAnswer
  <2>3. Nodes(heap') = Nodes(heap) /\ Unset(heap')
    <3>1. CASE s = 0
      BY <2>1, <3>1 DEF TreeOK
    <3>2. CASE s # 0
      <4>1. s \in DOMAIN heap.s /\ heap' = GetMessage(heap, s).heap
        BY <1>1, <2>1, <3>2, FieldOf
      <4> HIDE DEF s
      <4>2. Remembers(heap, heap', C)
        BY <1>1, <1>14, <4>1, GetMessageOK
      <4> QED
        BY <4>2, SameTree
    <3> QED
      BY <3>1, <3>2
  <2>4. Tree!GetField(b)
    BY <1>2, <1>4, <1>6, <1>15, <2>1, <2>2, <2>3 DEF Tree!GetField
  <2> QED
    BY <1>4, <2>3, <2>4 DEF Tree!Next
<1>17. CASE CallBuild(b)
  <2>1. heap' = BuildPartial(heap, b).heap /\ answer' = BuildPartial(heap, b).message
    BY <1>17 DEF CallBuild, Returns
  <2>2. Remembers(heap, heap', C) /\ answer' = C[b]
    BY <1>1, <1>14, <2>1, BuildPartialOK
  <2>3. Nodes(heap') = Nodes(heap) /\ Unset(heap')
    BY <2>2, SameTree
  <2>4. Tree!Build(b)
    BY <1>2, <1>15, <2>2, <2>3 DEF Tree!Build
  <2> QED
    BY <1>4, <2>3, <2>4 DEF Tree!Next
<1> QED
  BY <1>3, <1>8, <1>9, <1>10, <1>11, <1>12, <1>13, <1>16, <1>17

(* In proto2 nested builders are the mutable tree of messages they stand for: *)
(* the caches, the flags that order invalidations and the time at which a     *)
(* builder is made show in no message that is returned, and a call changes    *)
(* nothing but the builder it is made on and those below it.                 *)
THEOREM Implementation == FieldPresence => (Spec => Implements)
<1> SUFFICES ASSUME FieldPresence PROVE Spec => Implements
  OBVIOUS
<1> DEFINE Inv == IInv /\ Unset(heap)
<1>1. Init => Inv /\ Tree!Init
  BY InitOK, InitTree
<1>2. Inv /\ [Next]_vars => Inv' /\ [Tree!Next]_<<Nodes(heap), answer>>
  <2> SUFFICES ASSUME Inv, [Next]_vars PROVE Inv' /\ [Tree!Next]_<<Nodes(heap), answer>>
    OBVIOUS
  <2>1. TreeOK(heap)
    BY DEF IInv, TreeOK
  <2>2. Unset(heap)' <=> Unset(heap')
    BY DEF Unset, UnsetAt
  <2>3. CASE Next
    BY <2>1, <2>2, <2>3, NextOK, CallsTree
  <2>4. CASE UNCHANGED vars
    <3>1. heap' = heap /\ answer' = answer
      BY <2>4 DEF vars
    <3>2. IInv'
      <4>1. HeapOK(heap')
        BY <3>1 DEF IInv
      <4> QED
        BY <4>1 DEF IInv, HeapOK, Almost, Heaps, Linked, Flagged, Owes, CachedBut, ContentOf
    <3>3. Unset(heap')
      BY <3>1
    <3>4. Nodes(heap)' = Nodes(heap)
      BY <3>1 DEF Nodes, Node
    <3> QED
      BY <2>2, <3>1, <3>2, <3>3, <3>4
  <2> QED
    BY <2>3, <2>4
<1> QED
  BY <1>1, <1>2, PTL DEF Spec, Implements, Tree!Spec
=============================================================================
