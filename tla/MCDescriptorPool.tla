--------------------------- MODULE MCDescriptorPool ---------------------------
(***************************************************************************)
(* All small databases: every graph of imports with every fault, and every   *)
(* use of another file's message.                                           *)
(***************************************************************************)
EXTENDS DescriptorPool

CONSTANTS f1, f2, f3

Graphs == [File -> SUBSET File]
None == [f \in File |-> NULL]
Nothing == [f \in File |-> {}]
Irreflexive == {g \in Graphs : \A f \in File : f \notin g[f]}
Acyclic(g) == \A G \in SUBSET File : G # {} => \E f \in G : g[f] \cap G = {}

Database(mode, protos, invalid, imports, public, type, extendee, clash, i) ==
  [mode |-> mode, protos |-> protos, invalid |-> invalid, imports |-> imports, public |-> public,
   type |-> type, extendee |-> extendee, clash |-> clash,
   index |-> [s \in Symbol |-> IF s = Clash THEN i ELSE s]]

Faults == {<<{f1}, {}, {}>>, <<{}, {f1}, {}>>, <<{}, {}, {f1, f2}>>, <<{}, {}, {}>>}

(* Any graph, even with files that import themselves; a file missing, a file *)
(* invalid, or two files that clash; a pool without a database, which cannot *)
(* build cycles.                                                            *)
Faulty ==
  {Database(DATABASE, File, {}, g, Nothing, None, None, {}, f1) : g \in Graphs} \cup
  {Database(DATABASE, File \ x[1], x[2], g, Nothing, None, None, x[3], f1) :
     g \in Irreflexive, x \in Faults} \cup
  {Database(DIRECT, File \ x[1], x[2], g, Nothing, None, None, x[3], f1) :
     g \in {h \in Graphs : Acyclic(h)}, x \in Faults}

(* One field, in f1 and of f2 (the graphs have every other naming), and one    *)
(* extension that use other files, rightly or not.                          *)
Uses == {None} \cup {[None EXCEPT ![x[1]] = x[2]] : x \in {y \in File \X File : y[1] # y[2]}}
Types == {None, [None EXCEPT ![f1] = f2]}
Using ==
  {Database(DATABASE, File, {}, g, Nothing, t, e, {}, NULL) :
     g \in Irreflexive, t \in Types, e \in Uses}

(* The same with public imports, and in a lazy pool, which is for databases  *)
(* without an error.                                                        *)
Public ==
  {Database(mode, File, {}, g, g, t, e, {}, NULL) :
     mode \in {DATABASE, LAZY}, g \in {h \in Irreflexive : Acyclic(h)}, t \in Types, e \in Uses}
Lawful(d) ==
  \A f \in File : LET seen == {h \in File : \A G \in SUBSET File :
                      d.imports[f] \subseteq G /\ (\A k \in G : d.public[k] \subseteq G) => h \in G}
                  IN {d.type[f], d.extendee[f]} \subseteq {NULL, f} \cup seen

MCDatabases == Faulty \cup Using \cup {d \in Public : d.mode = LAZY => Lawful(d)}
=============================================================================
