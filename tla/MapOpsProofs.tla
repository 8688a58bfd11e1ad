----------------------------- MODULE MapOpsProofs -----------------------------
(***************************************************************************)
(* What the operators of MapOps return, for every set of keys and values.    *)
(***************************************************************************)
EXTENDS MapOps, SequenceTheorems, FiniteSetTheorems, TLAPS

(* Seq(Entries), spelt out.                                                  *)
LEMMA EntriesList ==
  ASSUME NEW list \in Seq(Entries)
  PROVE  /\ DOMAIN list = 1 .. Len(list) /\ Len(list) \in Nat
         /\ \A i \in DOMAIN list : list[i][1] \in Keys /\ list[i][2] \in Values
  BY DEF Entries

(* The last entry of a key that a list has.                                  *)
LEMMA LastEntry ==
  ASSUME NEW list \in Seq(Entries), NEW k, NEW n \in DOMAIN list, list[n][1] = k
  PROVE  /\ Last(list, k) \in DOMAIN list /\ list[Last(list, k)][1] = k
         /\ \A j \in DOMAIN list : list[j][1] = k => j <= Last(list, k)
<1> DEFINE OfKey == {i \in DOMAIN list : list[i][1] = k}
           After == {i + 1 .. Len(list) : i \in OfKey}
<1>1. After \subseteq FiniteSubsetsOf(Nat) /\ After # {}
  <2>1. ASSUME NEW i \in OfKey PROVE i + 1 .. Len(list) \in FiniteSubsetsOf(Nat)
    <3>1. i \in Nat /\ Len(list) \in Nat
      BY EntriesList
    <3>2. IsFiniteSet(i + 1 .. Len(list))
      BY <3>1, FS_Interval
    <3> QED
      BY <3>1, <3>2 DEF FiniteSubsetsOf
  <2> QED
    BY <2>1
<1>2. PICK x \in After : \A y \in After : ~ (<<y, x>> \in StrictSubsetOrdering(Nat))
  BY <1>1, WFMin, FS_StrictSubsetOrderingWellFounded
<1>3. PICK i \in OfKey : x = i + 1 .. Len(list)
  OBVIOUS
<1>4. \A j \in OfKey : j <= i
  <2> SUFFICES ASSUME NEW j \in OfKey, j > i PROVE FALSE
    BY EntriesList
  <2>1. i \in Nat /\ j \in Nat /\ j <= Len(list) /\ Len(list) \in Nat
    BY EntriesList
  <2> DEFINE y == j + 1 .. Len(list)
  <2>2. y \in After /\ y \subseteq x /\ j \in x /\ j \notin y
    BY <1>3, <2>1
  <2>3. x \subseteq Nat /\ y \subseteq Nat
    BY <1>3, <2>1
  <2> HIDE DEF y
  <2>4. <<y, x>> \in StrictSubsetOrdering(Nat)
    BY <2>2, <2>3 DEF StrictSubsetOrdering
  <2> QED
    BY <1>2, <2>2, <2>4
<1> QED
  BY <1>4 DEF Last

(* A map is a function of its keys.                                          *)
LEMMA MapsAre ==
  ASSUME NEW m
  PROVE  m \in Maps <=> m \in [DOMAIN m -> Values] /\ DOMAIN m \subseteq Keys
  BY DEF Maps

(* A list of entries stands for a map of its keys.                          *)
LEMMA AsMapType ==
  ASSUME NEW list \in Seq(Entries)
  PROVE  /\ AsMap(list) \in Maps
         /\ \A k : k \in DOMAIN AsMap(list) <=> \E i \in DOMAIN list : list[i][1] = k
<1>1. \A k \in DOMAIN AsMap(list) : AsMap(list)[k] \in Values /\ k \in Keys
  <2> SUFFICES ASSUME NEW k \in DOMAIN AsMap(list) PROVE AsMap(list)[k] \in Values /\ k \in Keys
    OBVIOUS
  <2>1. PICK n \in DOMAIN list : list[n][1] = k
    BY DEF AsMap
  <2>2. Last(list, k) \in DOMAIN list
    BY <2>1, LastEntry
  <2> QED
    BY <2>1, <2>2, EntriesList DEF AsMap
<1>2. AsMap(list) \in Maps
  BY <1>1, MapsAre DEF AsMap
<1>3. \A k : k \in DOMAIN AsMap(list) <=> \E i \in DOMAIN list : list[i][1] = k
  BY DEF AsMap
<1> QED
  BY <1>2, <1>3

(* The empty map.                                                           *)
LEMMA EmptyIsMap == Empty \in Maps /\ DOMAIN Empty = {}
  BY MapsAre DEF Empty

(* A map with one entry more or another.                                    *)
LEMMA WithType ==
  ASSUME NEW m \in Maps, NEW k \in Keys, NEW v \in Values
  PROVE  With(m, k, v) \in Maps /\ DOMAIN With(m, k, v) = DOMAIN m \cup {k}
  BY MapsAre DEF With

(* A map without a key.                                                     *)
LEMMA WithoutType ==
  ASSUME NEW m \in Maps, NEW k
  PROVE  Without(m, k) \in Maps /\ (k \notin DOMAIN m => Without(m, k) = m)
  BY MapsAre DEF Without

(* Two maps are merged into a map.                                          *)
LEMMA MergedType ==
  ASSUME NEW m \in Maps, NEW n \in Maps
  PROVE  Merged(m, n) \in Maps
  BY MapsAre DEF Merged

(* Lists that have the same entries of a key at the same places agree on it.  *)
LEMMA SameEntries ==
  ASSUME NEW l \in Seq(Entries), NEW r \in Seq(Entries), NEW k,
         \A i \in Nat : (i \in DOMAIN l /\ l[i][1] = k) <=> (i \in DOMAIN r /\ r[i][1] = k),
         \A i \in DOMAIN l \cap DOMAIN r : l[i][1] = k => l[i] = r[i]
  PROVE  /\ k \in DOMAIN AsMap(l) <=> k \in DOMAIN AsMap(r)
         /\ k \in DOMAIN AsMap(l) => AsMap(l)[k] = AsMap(r)[k]
<1>1. k \in DOMAIN AsMap(l) <=> k \in DOMAIN AsMap(r)
  <2>1. DOMAIN l \subseteq Nat /\ DOMAIN r \subseteq Nat
    BY EntriesList
  <2>2. k \in DOMAIN AsMap(l) <=> \E i \in DOMAIN l : l[i][1] = k
    BY AsMapType
  <2>3. k \in DOMAIN AsMap(r) <=> \E i \in DOMAIN r : r[i][1] = k
    BY AsMapType
  <2> QED
    BY <2>1, <2>2, <2>3
<1>2. ASSUME k \in DOMAIN AsMap(l) PROVE AsMap(l)[k] = AsMap(r)[k]
  <2>1. PICK n \in DOMAIN l : l[n][1] = k
    BY <1>2, AsMapType
  <2>2. n \in DOMAIN r /\ r[n][1] = k
    BY <2>1, EntriesList
  <2> DEFINE i == Last(l, k)
             j == Last(r, k)
  <2>3. /\ i \in DOMAIN l /\ l[i][1] = k
        /\ \A x \in DOMAIN l : l[x][1] = k => x <= i
    BY <2>1, LastEntry
  <2>4. /\ j \in DOMAIN r /\ r[j][1] = k
        /\ \A x \in DOMAIN r : r[x][1] = k => x <= j
    BY <2>2, LastEntry
  <2>5. i \in Nat /\ j \in Nat
    BY <2>3, <2>4, EntriesList
  <2> HIDE DEF i, j
  <2>6. i \in DOMAIN r /\ r[i][1] = k /\ j \in DOMAIN l /\ l[j][1] = k
    BY <2>3, <2>4, <2>5
  <2>7. i = j
    BY <2>3, <2>4, <2>5, <2>6
  <2>8. l[i] = r[j]
    BY <2>3, <2>6, <2>7
  <2> QED
    BY <1>1, <1>2, <2>8 DEF AsMap, i, j
<1> QED
  BY <1>1, <1>2

(* An entry at the end counts, whatever entries of its key are before.       *)
LEMMA AsMapAppend ==
  ASSUME NEW list \in Seq(Entries), NEW k \in Keys, NEW v \in Values
  PROVE  /\ Append(list, <<k, v>>) \in Seq(Entries)
         /\ AsMap(Append(list, <<k, v>>)) = With(AsMap(list), k, v)
<1> DEFINE longer == Append(list, <<k, v>>)
<1>1. /\ longer \in Seq(Entries) /\ Len(longer) = Len(list) + 1
      /\ \A i \in 1 .. Len(list) : longer[i] = list[i]
      /\ longer[Len(list) + 1] = <<k, v>>
  BY AppendProperties DEF Entries
<1> HIDE DEF longer
<1>2. DOMAIN longer = DOMAIN list \cup {Len(list) + 1}
  BY <1>1, EntriesList
<1>3. DOMAIN AsMap(longer) = DOMAIN AsMap(list) \cup {k}
  <2>1. ASSUME NEW x
        PROVE  (\E i \in DOMAIN longer : longer[i][1] = x) <=>
                 x = k \/ \E i \in DOMAIN list : list[i][1] = x
    <3>1. DOMAIN list = 1 .. Len(list)
      BY EntriesList
    <3>2. \A i \in DOMAIN list : i \in DOMAIN longer /\ longer[i] = list[i]
      BY <1>1, <1>2, <3>1
    <3>3. longer[Len(list) + 1][1] = k
      BY <1>1
    <3> QED
      BY <1>2, <3>2, <3>3
  <2>2. ASSUME NEW x
        PROVE  /\ x \in DOMAIN AsMap(longer) <=> \E i \in DOMAIN longer : longer[i][1] = x
               /\ x \in DOMAIN AsMap(list) <=> \E i \in DOMAIN list : list[i][1] = x
    BY <1>1, AsMapType
  <2> QED
    BY <2>1, <2>2
<1>4. AsMap(longer)[k] = v
  <2>1. Last(longer, k) = Len(list) + 1
    BY <1>1, <1>2, LastEntry, EntriesList
  <2> QED
    BY <1>1, <1>3, <2>1 DEF AsMap
<1>5. ASSUME NEW x \in DOMAIN AsMap(longer), x # k
      PROVE  x \in DOMAIN AsMap(list) /\ AsMap(longer)[x] = AsMap(list)[x]
  BY <1>1, <1>2, <1>3, <1>5, SameEntries, EntriesList
<1>6. AsMap(longer) \in Maps /\ AsMap(list) \in Maps
  BY <1>1, AsMapType
<1>7. AsMap(longer) = [x \in DOMAIN AsMap(longer) |-> AsMap(longer)[x]]
  BY <1>6, MapsAre
<1>8. AsMap(longer) = With(AsMap(list), k, v)
  BY <1>3, <1>4, <1>5, <1>7 DEF With
<1> QED
  BY <1>1, <1>8 DEF longer

(* The empty list stands for the empty map.                                 *)
LEMMA AsMapEmpty == << >> \in Seq(Entries) /\ AsMap(<< >>) = Empty
<1>1. << >> \in Seq(Entries) /\ DOMAIN << >> = {}
  OBVIOUS
<1>2. DOMAIN AsMap(<< >>) = {} /\ AsMap(<< >>) \in Maps
  BY <1>1, AsMapType
<1> QED
  BY <1>1, <1>2, EmptyIsMap, MapsAre DEF Empty, AsMap

(* A list that lost its last entry, or had one replaced, is the same map but  *)
(* for the keys of these entries.                                            *)
LEMMA AsMapAgree ==
  ASSUME NEW m \in Maps, NEW n \in Maps, NEW a, NEW b,
         \A k : k # a /\ k # b => /\ k \in DOMAIN m <=> k \in DOMAIN n
                                  /\ k \in DOMAIN m => m[k] = n[k]
  PROVE  Without(Without(n, a), b) = Without(Without(m, a), b)
<1> DEFINE S == (DOMAIN m \ {a}) \ {b}
<1>1. S = (DOMAIN n \ {a}) \ {b}
  OBVIOUS
<1>2. Without(Without(m, a), b) = [k \in S |-> m[k]]
  BY DEF Without
<1>3. Without(Without(n, a), b) = [k \in S |-> n[k]]
  BY <1>1 DEF Without
<1> QED
  BY <1>2, <1>3

(* Removing the last entry concerns one key at most.                        *)
LEMMA AsMapRemoveLast ==
  ASSUME NEW list \in Seq(Entries), AsMap(list) # Empty, NEW b,
         NEW shorter \in Seq(Entries), Len(shorter) = Len(list) - 1,
         \A i \in 1 .. Len(list) - 1 : shorter[i] = list[i]
  PROVE  \E a \in DOMAIN AsMap(list) :
           Without(Without(AsMap(shorter), a), b) = Without(Without(AsMap(list), a), b)
<1> DEFINE a == list[Len(list)][1]
<1>1. Len(list) \in Nat \ {0}
  <2>1. list # << >>
    BY AsMapEmpty
  <2> QED
    BY <2>1
<1>2. /\ shorter \in Seq(Entries) /\ Len(shorter) = Len(list) - 1
      /\ \A i \in 1 .. Len(list) - 1 : shorter[i] = list[i]
  OBVIOUS
<1>3. a \in DOMAIN AsMap(list)
  BY <1>1, AsMapType, EntriesList
<1>4. DOMAIN list = DOMAIN shorter \cup {Len(list)}
  BY <1>1, <1>2, EntriesList
<1>5. ASSUME NEW k, k # a
      PROVE  /\ k \in DOMAIN AsMap(list) <=> k \in DOMAIN AsMap(shorter)
             /\ k \in DOMAIN AsMap(list) => AsMap(list)[k] = AsMap(shorter)[k]
  <2>1. DOMAIN shorter = 1 .. Len(list) - 1
    BY <1>1, <1>2, EntriesList
  <2>2. \A i : i \in DOMAIN list /\ list[i][1] = k <=> i \in DOMAIN shorter /\ shorter[i][1] = k
    BY <1>2, <1>4, <1>5, <2>1
  <2>3. \A i \in DOMAIN list \cap DOMAIN shorter : list[i][1] = k => list[i] = shorter[i]
    BY <1>2, <2>1
  <2> QED
    BY <1>2, <2>2, <2>3, SameEntries
<1>6. Without(Without(AsMap(shorter), a), b) = Without(Without(AsMap(list), a), b)
  <2> HIDE DEF a
  <2> QED
    BY <1>2, <1>5, AsMapAgree, AsMapType
<1> QED
  BY <1>1, <1>2, <1>3, <1>6

(* Replacing an entry concerns its old key and its new one at most.         *)
LEMMA AsMapSetEntry ==
  ASSUME NEW list \in Seq(Entries), NEW i \in DOMAIN list, NEW b \in Keys, NEW v \in Values
  PROVE  LET other == [list EXCEPT ![i] = <<b, v>>] IN
         /\ other \in Seq(Entries) /\ Len(other) = Len(list)
         /\ \E a \in DOMAIN AsMap(list) :
              Without(Without(AsMap(other), a), b) = Without(Without(AsMap(list), a), b)
<1> DEFINE other == [list EXCEPT ![i] = <<b, v>>]
           a == list[i][1]
<1>1. /\ other \in Seq(Entries) /\ Len(other) = Len(list) /\ DOMAIN other = DOMAIN list
      /\ other[i] = <<b, v>> /\ \A j \in DOMAIN list : j # i => other[j] = list[j]
  BY ExceptSeq, EntriesList DEF Entries
<1> HIDE DEF other
<1>2. a \in DOMAIN AsMap(list)
  BY AsMapType
<1>3. ASSUME NEW k, k # a, k # b
      PROVE  /\ k \in DOMAIN AsMap(list) <=> k \in DOMAIN AsMap(other)
             /\ k \in DOMAIN AsMap(list) => AsMap(list)[k] = AsMap(other)[k]
  <2>1. other[i][1] = b
    BY <1>1
  <2>2. \A j : j \in DOMAIN list /\ list[j][1] = k <=> j \in DOMAIN other /\ other[j][1] = k
    BY <1>1, <1>3, <2>1
  <2>3. \A j \in DOMAIN list \cap DOMAIN other : list[j][1] = k => list[j] = other[j]
    BY <1>1, <1>3, <2>1
  <2>4. other \in Seq(Entries)
    BY <1>1
  <2> QED
    BY <2>2, <2>3, <2>4, SameEntries
<1>4. Without(Without(AsMap(other), a), b) = Without(Without(AsMap(list), a), b)
  <2> HIDE DEF a
  <2> QED
    BY <1>1, <1>3, AsMapAgree, AsMapType
<1> QED
  BY <1>1, <1>2, <1>4 DEF other

(* Whatever list a map is written as, it is the map.                         *)
LEMMA ListsOfMap ==
  ASSUME IsFiniteSet(Keys), NEW m \in Maps, NEW list \in ListsOf(m)
  PROVE  /\ list \in Seq(Entries) /\ AsMap(list) = m
         /\ Len(list) = Cardinality(DOMAIN m) /\ Len(list) <= Cardinality(Keys)
<1>1. DOMAIN m \in SUBSET Keys
  BY MapsAre
<1>2. IsFiniteSet(DOMAIN m) /\ Cardinality(DOMAIN m) <= Cardinality(Keys)
  BY <1>1, FS_Subset
<1>3. Cardinality(DOMAIN m) \in Nat
  BY <1>2, FS_CardinalityType
<1>4. {<<k, m[k]>> : k \in DOMAIN m} \subseteq Entries
  BY MapsAre DEF Entries
<1>5. list \in [1 .. Cardinality(DOMAIN m) -> Entries]
  BY <1>4 DEF ListsOf
<1>6. list \in Seq(Entries) /\ Len(list) = Cardinality(DOMAIN m)
  BY <1>3, <1>5
<1> QED
  BY <1>2, <1>6 DEF ListsOf

(* The model's bounded lists are the sequences of bounded length.           *)
LEMMA ListsAre ==
  ASSUME NEW n \in Nat, NEW list
  PROVE  list \in Lists(n) <=> list \in Seq(Entries) /\ Len(list) <= n
<1>1. ASSUME list \in Lists(n) PROVE list \in Seq(Entries) /\ Len(list) <= n
  <2>1. PICK i \in 0 .. n : list \in [1 .. i -> Entries]
    BY <1>1 DEF Lists
  <2> QED
    BY <2>1
<1>2. ASSUME list \in Seq(Entries), Len(list) <= n PROVE list \in Lists(n)
  <2>1. Len(list) \in 0 .. n /\ list \in [1 .. Len(list) -> Entries]
    BY <1>2
  <2> QED
    BY <2>1 DEF Lists
<1> QED
  BY <1>1, <1>2
=============================================================================
