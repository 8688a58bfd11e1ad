------------------------- MODULE MessageRegistryProofs -------------------------
(***************************************************************************)
(* For any number of threads and once objects, whatever their closures      *)
(* call: no closure completes twice, a call of GoogleOnceInit returns only  *)
(* after its closure completed, and an object is DONE only after all that   *)
(* its closure initialises.                                                 *)
(*                                                                          *)
(* For any number of files and types: no type is registered twice, and       *)
(* GetPrototype answers with a type whose descriptors are assigned.           *)
(***************************************************************************)
EXTENDS MessageRegistry, SequenceTheorems, TLAPS

-----------------------------------------------------------------------------
(* The once objects. *)


(* The calls of t whose closure has been entered and is not yet published. *)
Closures(t) ==
  {i \in DOMAIN stack[t] : i < Len(stack[t]) \/ pc[t] \in {"closure", "publish"}}

(* A closure runs only while its once word says so. *)
RunningIsExecuting ==
  \A t \in Threads : \A i \in Closures(t) :
    once[stack[t][i].once] = EXECUTING_CLOSURE

(* No two running calls are of the same once object. *)
RunsAlone ==
  \A t, u \in Threads : \A i \in Closures(t), j \in Closures(u) :
    stack[t][i].once = stack[u][j].once => t = u /\ i = j

(* t's closure has completed and its once word is about to be set. *)
Publishing(t, o) == pc[t] = "publish" /\ Current(t) = o

CompletedOnce ==
  \A o \in Onces : initialized[o] =
    IF once[o] = DONE \/ \E t \in Threads : Publishing(t, o) THEN 1 ELSE 0

SpinnersLost ==
  \A t \in Threads : pc[t] = "spin" => once[Current(t)] # UNINITIALIZED

IInv ==
  /\ TypeOK
  /\ RunningIsExecuting
  /\ RunsAlone
  /\ CompletedOnce
  /\ SpinnersLost

-----------------------------------------------------------------------------

(* A stack without its top.                                                 *)
LEMMA PopType ==
  ASSUME NEW S, NEW s \in Seq(S), s # << >>
  PROVE  /\ Pop(s) \in Seq(S)
         /\ Len(Pop(s)) = Len(s) - 1
         /\ DOMAIN Pop(s) = 1 .. (Len(s) - 1)
         /\ \A i \in 1 .. (Len(s) - 1) : Pop(s)[i] = s[i]
<1>1. Len(s) \in Nat \ {0} /\ \A i \in 1 .. Len(s) : s[i] \in S
  BY EmptySeq, ElementOfSeq
<1>2. /\ Pop(s) \in Seq(S)
      /\ Len(Pop(s)) = IF 1 <= Len(s) - 1 THEN (Len(s) - 1) - 1 + 1 ELSE 0
      /\ \A i \in 1 .. ((Len(s) - 1) - 1 + 1) : Pop(s)[i] = s[1 + i - 1]
  BY <1>1, SubSeqProperties DEF Pop
<1>3. Len(Pop(s)) = Len(s) - 1
  <2> DEFINE n == Len(s)
  <2>1. n \in Nat \ {0} /\ Len(Pop(s)) = IF 1 <= n - 1 THEN (n - 1) - 1 + 1 ELSE 0
    BY <1>1, <1>2
  <2> HIDE DEF n
  <2>2. Len(Pop(s)) = n - 1
    BY <2>1
  <2> QED
    BY <2>2 DEF n
<1>4. DOMAIN Pop(s) = 1 .. (Len(s) - 1)
  BY <1>2, <1>3, LenProperties
<1> QED
  BY <1>1, <1>2, <1>3, <1>4

(* A return shortens one stack and leaves that thread in the closure of the  *)
(* caller, which was running already.                                        *)
LEMMA ReturnFrames ==
  ASSUME TypeOK, NEW t \in Threads, stack[t] # << >>, Return(t)
  PROVE  /\ stack' \in [Threads -> Seq(Frame)]
         /\ pc' \in [Threads -> {"idle", "inline", "impl", "cas", "closure", "publish", "spin"}]
         /\ \A u \in Threads : (pc'[u] = "idle") <=> (stack'[u] = << >>)
         /\ \A u \in Threads : \A i \in Closures(u)' :
              i \in Closures(u) /\ stack'[u][i] = stack[u][i] /\ i \in DOMAIN stack[u]
         /\ \A u \in Threads \ {t} : stack'[u] = stack[u] /\ pc'[u] = pc[u]
         /\ pc'[t] \in {"idle", "closure"}
<1>1. stack[t] \in Seq(Frame) /\ Len(stack[t]) \in Nat /\ Len(stack[t]) > 0
  BY DEF TypeOK
<1>2. stack'[t] = Pop(stack[t]) /\ \A u \in Threads \ {t} : stack'[u] = stack[u] /\ pc'[u] = pc[u]
  BY DEF Return, TypeOK, Goto
<1>3. stack' \in [Threads -> Seq(Frame)]
  BY <1>1, PopType DEF Return, TypeOK
<1>4. pc'[t] = IF Len(stack[t]) = 1 THEN "idle" ELSE "closure"
  BY DEF Return, TypeOK, Goto
<1>5. (pc'[t] = "idle") <=> (stack'[t] = << >>)
  <2>1. Len(stack'[t]) = Len(stack[t]) - 1
    BY <1>1, <1>2, PopType
  <2>2. stack'[t] \in Seq(Frame)
    BY <1>3
  <2>3. Len(stack'[t]) = 0 <=> stack'[t] = << >>
    BY <2>2, EmptySeq
  <2> QED
    BY <2>1, <2>3, <1>1, <1>4
<1>6. \A i \in Closures(t)' : i \in Closures(t) /\ stack'[t][i] = stack[t][i] /\ i \in DOMAIN stack[t]
  BY <1>1, <1>2, PopType DEF Closures
<1>7. \A u \in Threads \ {t} : \A i \in Closures(u)' :
        i \in Closures(u) /\ stack'[u][i] = stack[u][i] /\ i \in DOMAIN stack[u]
  BY <1>2 DEF Closures
<1>8. pc' \in [Threads -> {"idle", "inline", "impl", "cas", "closure", "publish", "spin"}]
  BY <1>4 DEF Return, Goto, TypeOK
<1> QED
  BY <1>2, <1>3, <1>4, <1>5, <1>6, <1>7, <1>8 DEF TypeOK

(* Before any call.                                                         *)
LEMMA InitIInv == Init => IInv
  BY DEF Init, IInv, TypeOK, RunningIsExecuting, RunsAlone, CompletedOnce,
     SpinnersLost, Closures, Publishing, UNINITIALIZED, DONE, Frame

(* The top frame of a thread that is inside GoogleOnceInit. *)
LEMMA TopType ==
  ASSUME TypeOK, NEW t \in Threads, pc[t] # "idle"
  PROVE  /\ stack[t] \in Seq(Frame) /\ stack[t] # << >>
         /\ Len(stack[t]) \in Nat \ {0} /\ Len(stack[t]) \in DOMAIN stack[t]
         /\ Top(t) \in Frame /\ Current(t) \in Onces /\ Top(t).next \in Nat \ {0}
<1>1. stack[t] \in Seq(Frame) /\ stack[t] # << >>
  BY DEF TypeOK
<1>2. Len(stack[t]) \in Nat \ {0} /\ Len(stack[t]) \in DOMAIN stack[t]
  BY <1>1, EmptySeq, LenProperties
<1>3. Top(t) \in Frame
  BY <1>1, <1>2, ElementOfSeq DEF Top
<1> QED
  BY <1>1, <1>2, <1>3 DEF Frame, Current

(* A return that leaves the words and the counts alone: the paths that found *)
(* DONE, and the end of the wait.                                            *)
LEMMA ReturnStep ==
  ASSUME IInv, NEW t \in Threads, pc[t] \in {"inline", "impl", "cas", "spin"},
         Return(t), UNCHANGED <<once, initialized>>
  PROVE  IInv'
<1> USE DEF IInv
<1>1. stack[t] # << >>
  BY TopType
<1> HIDE DEF IInv
<1>2. /\ stack' \in [Threads -> Seq(Frame)]
      /\ pc' \in [Threads -> {"idle", "inline", "impl", "cas", "closure", "publish", "spin"}]
      /\ \A u \in Threads : (pc'[u] = "idle") <=> (stack'[u] = << >>)
      /\ \A u \in Threads : \A i \in Closures(u)' :
           i \in Closures(u) /\ stack'[u][i] = stack[u][i] /\ i \in DOMAIN stack[u]
      /\ \A u \in Threads \ {t} : stack'[u] = stack[u] /\ pc'[u] = pc[u]
      /\ pc'[t] \in {"idle", "closure"}
  BY <1>1, ReturnFrames DEF IInv
<1>3. TypeOK'
  BY <1>2 DEF IInv, TypeOK
<1>4. RunningIsExecuting'
  BY <1>2 DEF IInv, RunningIsExecuting
<1>5. RunsAlone'
  BY <1>2 DEF IInv, RunsAlone
<1>6. \A o \in Onces, u \in Threads : Publishing(u, o)' <=> Publishing(u, o)
  BY <1>2 DEF Publishing, Current, Top
<1>7. CompletedOnce'
  BY <1>6 DEF IInv, CompletedOnce
<1>8. SpinnersLost'
  BY <1>2 DEF IInv, SpinnersLost, Current, Top
<1> QED
  BY <1>3, <1>4, <1>5, <1>7, <1>8 DEF IInv

(* A step of t inside one frame, which neither enters nor leaves a closure.  *)
LEMMA GotoStep ==
  ASSUME IInv, NEW t \in Threads, pc[t] \in {"inline", "impl", "cas"},
         NEW label \in {"impl", "cas", "spin"}, Goto(t, label),
         label = "spin" => once[Current(t)] # UNINITIALIZED,
         UNCHANGED <<once, stack, initialized>>
  PROVE  IInv'
<1>1. \A u \in Threads : Closures(u)' = Closures(u)
  BY DEF IInv, TypeOK, Goto, Closures
<1>2. TypeOK'
  BY DEF IInv, TypeOK, Goto
<1>3. RunningIsExecuting' /\ RunsAlone'
  BY <1>1 DEF IInv, RunningIsExecuting, RunsAlone
<1>4. \A o \in Onces, u \in Threads : Publishing(u, o)' <=> Publishing(u, o)
  BY DEF IInv, TypeOK, Goto, Publishing, Current, Top
<1>5. CompletedOnce'
  BY <1>4 DEF IInv, CompletedOnce
<1>6. SpinnersLost'
  BY DEF IInv, TypeOK, Goto, SpinnersLost, Current, Top
<1> QED
  BY <1>2, <1>3, <1>5, <1>6 DEF IInv

(* A frame that is inside a closure.                                        *)
LEMMA ClosureType ==
  ASSUME TypeOK, NEW t \in Threads, NEW i \in Closures(t)
  PROVE  i \in 1 .. Len(stack[t]) /\ stack[t][i] \in Frame /\ stack[t][i].once \in Onces
<1>1. stack[t] \in Seq(Frame) /\ i \in DOMAIN stack[t]
  BY DEF TypeOK, Closures
<1>2. i \in 1 .. Len(stack[t])
  BY <1>1, LenProperties
<1>3. stack[t][i] \in Frame
  BY <1>1, <1>2, ElementOfSeq
<1> QED
  BY <1>2, <1>3 DEF Frame

(* t enters a closure: it alone moved the word from UNINITIALIZED, so no      *)
(* other call of the same object is running.                                  *)
LEMMA EnterClosure ==
  ASSUME IInv, NEW t \in Threads, pc[t] = "cas", once[Current(t)] = UNINITIALIZED,
         once' = [once EXCEPT ![Current(t)] = EXECUTING_CLOSURE],
         Goto(t, "closure"), UNCHANGED <<stack, initialized>>
  PROVE  IInv'
<1> DEFINE o == Current(t)
<1>1. /\ stack[t] \in Seq(Frame) /\ Len(stack[t]) \in Nat \ {0}
      /\ Len(stack[t]) \in DOMAIN stack[t] /\ o \in Onces
  BY TopType DEF IInv
<1>2. pc' = [pc EXCEPT ![t] = "closure"] /\ pc'[t] = "closure"
  BY DEF IInv, TypeOK, Goto
<1>3. \A u \in Threads \ {t} : Closures(u)' = Closures(u)
  BY <1>2 DEF IInv, TypeOK, Closures
<1>4. Closures(t)' = Closures(t) \union {Len(stack[t])}
  <2>1. DOMAIN stack[t] = 1 .. Len(stack[t])
    BY <1>1, LenProperties
  <2> QED
    BY <1>1, <1>2, <2>1 DEF Closures
<1>5. TypeOK'
  BY <1>1, <1>2 DEF IInv, TypeOK
<1>6. \A u \in Threads : \A i \in Closures(u) : stack[u][i].once # o
  BY DEF IInv, RunningIsExecuting, UNINITIALIZED, EXECUTING_CLOSURE
<1>7. stack[t][Len(stack[t])].once = o
  BY DEF Current, Top
<1>8. RunningIsExecuting'
  <2> SUFFICES ASSUME NEW u \in Threads, NEW i \in Closures(u)'
               PROVE  once'[stack[u][i].once] = EXECUTING_CLOSURE
    BY DEF RunningIsExecuting
  <2>1. CASE i \in Closures(u)
    <3>1. stack[u][i].once \in Onces /\ once[stack[u][i].once] = EXECUTING_CLOSURE
      BY <2>1, ClosureType DEF IInv, RunningIsExecuting
    <3> QED
      BY <3>1, <2>1, <1>6 DEF IInv, TypeOK
  <2>2. CASE i \notin Closures(u)
    <3>1. u = t /\ i = Len(stack[t])
      BY <2>2, <1>3, <1>4
    <3> QED
      BY <3>1, <1>1, <1>7 DEF IInv, TypeOK
  <2> QED
    BY <2>1, <2>2
<1>9. RunsAlone'
  BY <1>3, <1>4, <1>6, <1>7 DEF IInv, RunsAlone
<1>10. \A p \in Onces, u \in Threads : Publishing(u, p)' <=> Publishing(u, p)
  BY <1>2 DEF IInv, TypeOK, Publishing, Current, Top
<1>11. CompletedOnce'
  BY <1>1, <1>10 DEF IInv, TypeOK, CompletedOnce, DONE, EXECUTING_CLOSURE, UNINITIALIZED
<1>12. SpinnersLost'
  BY <1>1, <1>2 DEF IInv, TypeOK, SpinnersLost, Current, Top, EXECUTING_CLOSURE, UNINITIALIZED
<1> QED
  BY <1>5, <1>8, <1>9, <1>11, <1>12 DEF IInv

(* A frame pushed for a new or nested call has not entered its closure.      *)
LEMMA PushFrame ==
  ASSUME IInv, NEW t \in Threads, pc[t] \in {"idle", "closure"},
         NEW s \in Seq(Frame), NEW f \in Frame, Len(s) = Len(stack[t]),
         \A i \in 1 .. Len(s) : s[i].once = stack[t][i].once,
         stack' = [stack EXCEPT ![t] = Append(s, f)],
         Goto(t, "inline"), UNCHANGED <<once, initialized>>
  PROVE  IInv'
<1>1. /\ stack[t] \in Seq(Frame) /\ Len(stack[t]) \in Nat
      /\ DOMAIN stack[t] = 1 .. Len(stack[t])
  BY LenProperties DEF IInv, TypeOK
<1>2. /\ stack'[t] = Append(s, f) /\ Append(s, f) \in Seq(Frame) /\ Append(s, f) # << >>
      /\ Len(Append(s, f)) = Len(s) + 1
      /\ \A i \in 1 .. Len(s) : Append(s, f)[i] = s[i]
      /\ DOMAIN Append(s, f) = 1 .. (Len(s) + 1)
  <2>1. Append(s, f) \in Seq(Frame) /\ Len(Append(s, f)) = Len(s) + 1
    BY AppendProperties
  <2>2. DOMAIN Append(s, f) = 1 .. (Len(s) + 1)
    BY <2>1, LenProperties
  <2> QED
    BY <2>2, AppendProperties DEF IInv, TypeOK
<1>3. pc' = [pc EXCEPT ![t] = "inline"] /\ pc'[t] = "inline"
  BY DEF IInv, TypeOK, Goto
<1>4. \A u \in Threads \ {t} : Closures(u)' = Closures(u) /\ stack'[u] = stack[u]
  BY <1>3 DEF IInv, TypeOK, Closures
<1>5. \A i \in Closures(t)' : i \in Closures(t) /\ stack'[t][i].once = stack[t][i].once
  <2>1. Closures(t)' = 1 .. Len(s)
    BY <1>1, <1>2, <1>3 DEF Closures
  <2>2. CASE pc[t] = "idle"
    <3>1. Len(stack[t]) = 0
      BY <2>2, EmptySeq DEF IInv, TypeOK
    <3> QED
      BY <2>1, <3>1
  <2>3. CASE pc[t] = "closure"
    <3>1. Closures(t) = 1 .. Len(s)
      BY <1>1, <2>3 DEF Closures
    <3> QED
      BY <2>1, <3>1, <1>2
  <2> QED
    BY <2>2, <2>3
<1>6. TypeOK'
  BY <1>2, <1>3 DEF IInv, TypeOK
<1>13. \A u \in Threads : \A i \in Closures(u)' :
         i \in Closures(u) /\ stack'[u][i].once = stack[u][i].once
  BY <1>4, <1>5
<1>7. RunningIsExecuting'
  <2> SUFFICES ASSUME NEW u \in Threads, NEW i \in Closures(u)'
               PROVE  once'[stack'[u][i].once] = EXECUTING_CLOSURE
    BY DEF RunningIsExecuting
  <2>1. i \in Closures(u) /\ stack'[u][i].once = stack[u][i].once
    BY <1>13
  <2>2. once[stack[u][i].once] = EXECUTING_CLOSURE
    BY <2>1 DEF IInv, RunningIsExecuting
  <2> QED
    BY <2>1, <2>2
<1>8. RunsAlone'
  <2> SUFFICES ASSUME NEW u \in Threads, NEW v \in Threads,
                      NEW i \in Closures(u)', NEW j \in Closures(v)',
                      stack'[u][i].once = stack'[v][j].once
               PROVE  u = v /\ i = j
    BY DEF RunsAlone
  <2>1. /\ i \in Closures(u) /\ stack'[u][i].once = stack[u][i].once
        /\ j \in Closures(v) /\ stack'[v][j].once = stack[v][j].once
    BY <1>13
  <2>2. stack[u][i].once = stack[v][j].once
    BY <2>1
  <2> QED
    BY <2>1, <2>2 DEF IInv, RunsAlone
<1>9. \A p \in Onces, u \in Threads : Publishing(u, p)' <=> Publishing(u, p)
  BY <1>3, <1>4 DEF IInv, TypeOK, Publishing, Current, Top
<1>10. CompletedOnce'
  BY <1>9 DEF IInv, CompletedOnce
<1>11. SpinnersLost'
  BY <1>3, <1>4 DEF IInv, TypeOK, SpinnersLost, Current, Top
<1> QED
  BY <1>6, <1>7, <1>8, <1>10, <1>11 DEF IInv

(* The closure completes: it had not completed before, since no other call   *)
(* of the object is running and the word is not DONE.                        *)
LEMMA CompleteClosure ==
  ASSUME IInv, NEW t \in Threads, pc[t] = "closure",
         initialized' = [initialized EXCEPT ![Current(t)] = @ + 1],
         Goto(t, "publish"), UNCHANGED <<once, stack>>
  PROVE  IInv'
<1>0. PICK o \in Onces : o = Current(t)
  BY TopType DEF IInv
<1>1. stack[t] # << >> /\ Len(stack[t]) \in DOMAIN stack[t] /\ o \in Onces
      /\ stack[t][Len(stack[t])].once = o
  BY <1>0, TopType DEF IInv, Current, Top
<1>2. pc' = [pc EXCEPT ![t] = "publish"] /\ pc'[t] = "publish"
  BY DEF IInv, TypeOK, Goto
<1>3. \A u \in Threads : Closures(u)' = Closures(u)
  BY <1>2 DEF IInv, TypeOK, Closures
<1>4. TypeOK'
  BY <1>0, <1>2 DEF IInv, TypeOK
<1>5. RunningIsExecuting' /\ RunsAlone'
  BY <1>3 DEF IInv, RunningIsExecuting, RunsAlone
<1>6. Len(stack[t]) \in Closures(t)
  BY <1>1 DEF Closures
<1>7. once[o] = EXECUTING_CLOSURE
  BY <1>1, <1>6 DEF IInv, RunningIsExecuting
<1>8. \A u \in Threads : ~ Publishing(u, o)
  <2> SUFFICES ASSUME NEW u \in Threads, Publishing(u, o)
               PROVE  FALSE
    OBVIOUS
  <2>1. Len(stack[u]) \in Closures(u) /\ stack[u][Len(stack[u])].once = o
    BY TopType DEF IInv, Publishing, Closures, Current, Top
  <2> QED
    BY <2>1, <1>1, <1>6 DEF IInv, RunsAlone, Publishing
<1>9. Publishing(t, o)'
  BY <1>0, <1>2 DEF Publishing, Current, Top
<1>10. \A p \in Onces \ {o} : (\E u \in Threads : Publishing(u, p)') <=> (\E u \in Threads : Publishing(u, p))
  BY <1>0, <1>2 DEF IInv, TypeOK, Publishing, Current, Top
<1>11. CompletedOnce'
  <2>1. once[o] # DONE
    BY <1>7 DEF DONE, EXECUTING_CLOSURE
  <2>2. initialized[o] = 0
    BY <1>1, <1>8, <2>1 DEF IInv, CompletedOnce
  <2>3. initialized'[o] = 1
    BY <1>0, <2>2 DEF IInv, TypeOK
  <2>4. \A p \in Onces \ {o} : initialized'[p] = initialized[p]
    BY <1>0 DEF IInv, TypeOK
  <2>5. \A p \in Onces \ {o} : initialized'[p] =
          IF once'[p] = DONE \/ \E u \in Threads : Publishing(u, p)' THEN 1 ELSE 0
    BY <1>10, <2>4 DEF IInv, CompletedOnce
  <2>6. initialized'[o] =
          IF once'[o] = DONE \/ \E u \in Threads : Publishing(u, o)' THEN 1 ELSE 0
    BY <1>9, <2>3
  <2> QED
    <3> SUFFICES ASSUME NEW p \in Onces
                 PROVE  initialized'[p] =
                   IF once'[p] = DONE \/ \E u \in Threads : Publishing(u, p)' THEN 1 ELSE 0
      BY DEF CompletedOnce
    <3> QED
      BY <2>5, <2>6
<1>12. SpinnersLost'
  BY <1>2 DEF IInv, TypeOK, SpinnersLost, Current, Top
<1> QED
  BY <1>4, <1>5, <1>11, <1>12 DEF IInv

(* The word becomes DONE and the call returns.                                *)
LEMMA PublishStep ==
  ASSUME IInv, NEW t \in Threads, Publish(t)
  PROVE  IInv'
<1> DEFINE o == Current(t)
<1>1. /\ pc[t] = "publish" /\ stack[t] # << >> /\ o \in Onces
      /\ Len(stack[t]) \in Closures(t) /\ stack[t][Len(stack[t])].once = o
      /\ DOMAIN stack[t] = 1 .. Len(stack[t]) /\ Len(stack[t]) \in Nat \ {0}
      /\ stack[t] \in Seq(Frame)
  BY TopType, LenProperties DEF IInv, Publish, Closures, Current, Top
<1>2. /\ stack' \in [Threads -> Seq(Frame)]
      /\ pc' \in [Threads -> {"idle", "inline", "impl", "cas", "closure", "publish", "spin"}]
      /\ \A u \in Threads : (pc'[u] = "idle") <=> (stack'[u] = << >>)
      /\ \A u \in Threads : \A i \in Closures(u)' :
           i \in Closures(u) /\ stack'[u][i] = stack[u][i] /\ i \in DOMAIN stack[u]
      /\ \A u \in Threads \ {t} : stack'[u] = stack[u] /\ pc'[u] = pc[u]
      /\ pc'[t] \in {"idle", "closure"}
  BY <1>1, ReturnFrames DEF IInv, Publish
<1>3. once' = [once EXCEPT ![o] = DONE] /\ initialized' = initialized
  BY DEF Publish
<1>4. TypeOK'
  BY <1>2, <1>3 DEF IInv, TypeOK
<1>5. \A i \in Closures(t)' : i # Len(stack[t])
  <2>1. DOMAIN stack'[t] = 1 .. (Len(stack[t]) - 1)
    BY <1>1, PopType DEF Publish, Return, IInv, TypeOK
  <2> QED
    BY <2>1, <1>1 DEF Closures
<1>6. \A u \in Threads : \A i \in Closures(u)' : stack'[u][i].once # o
  BY <1>1, <1>2, <1>5 DEF IInv, RunsAlone
<1>7. RunningIsExecuting'
  <2> SUFFICES ASSUME NEW u \in Threads, NEW i \in Closures(u)'
               PROVE  once'[stack'[u][i].once] = EXECUTING_CLOSURE
    BY DEF RunningIsExecuting
  <2>1. i \in Closures(u) /\ stack'[u][i] = stack[u][i]
    BY <1>2
  <2>2. stack[u][i].once \in Onces /\ once[stack[u][i].once] = EXECUTING_CLOSURE
    BY <2>1, ClosureType DEF IInv, RunningIsExecuting
  <2> QED
    BY <2>1, <2>2, <1>3, <1>6 DEF IInv, TypeOK
<1>8. RunsAlone'
  BY <1>2 DEF IInv, RunsAlone
<1>9. \A p \in Onces \ {o} : (\E u \in Threads : Publishing(u, p)') <=> (\E u \in Threads : Publishing(u, p))
  BY <1>1, <1>2 DEF Publishing, Current, Top
<1>10. initialized[o] = 1
  BY <1>1 DEF IInv, CompletedOnce, Publishing
<1>11. CompletedOnce'
  BY <1>3, <1>9, <1>10 DEF IInv, TypeOK, CompletedOnce
<1>12. SpinnersLost'
  <2> SUFFICES ASSUME NEW u \in Threads, pc'[u] = "spin"
               PROVE  once'[Current(u)'] # UNINITIALIZED
    BY DEF SpinnersLost
  <2>1. u # t /\ pc[u] = "spin" /\ Current(u)' = Current(u)
    BY <1>2 DEF Current, Top
  <2>2. Current(u) \in Onces /\ once[Current(u)] # UNINITIALIZED
    BY <2>1, TopType DEF IInv, SpinnersLost
  <2> QED
    BY <2>1, <2>2, <1>1, <1>3 DEF IInv, TypeOK, DONE, UNINITIALIZED
<1> QED
  BY <1>4, <1>7, <1>8, <1>11, <1>12 DEF IInv

(* A nested call pushes the frame of the next once object of the closure.    *)
LEMMA NestedCall ==
  ASSUME TypeOK, NEW t \in Threads, ClosureCalls(t)
  PROVE  \E s \in Seq(Frame), f \in Frame :
           /\ Len(s) = Len(stack[t])
           /\ \A i \in 1 .. Len(s) : s[i].once = stack[t][i].once
           /\ stack' = [stack EXCEPT ![t] = Append(s, f)]
           /\ Len(stack'[t]) = Len(stack[t]) + 1
<1> DEFINE n == Len(stack[t])
           g == [once |-> stack[t][n].once, next |-> stack[t][n].next + 1]
           s == [stack[t] EXCEPT ![n] = g]
           f == [once |-> Calls[Current(t)][Top(t).next], next |-> 1]
<1>1. /\ stack[t] \in Seq(Frame) /\ n \in Nat \ {0} /\ n \in 1 .. n
      /\ Top(t) \in Frame /\ Current(t) \in Onces /\ Top(t).next \in Nat \ {0}
  BY TopType DEF ClosureCalls
<1>2. g \in Frame /\ g.once = stack[t][n].once
  BY <1>1 DEF Frame, Top
<1>3. /\ s \in Seq(Frame) /\ Len(s) = n
      /\ \A i \in 1 .. n : s[i] = IF i = n THEN g ELSE stack[t][i]
  BY <1>1, <1>2, ExceptSeq
<1>4. Calls[Current(t)] \in Seq(Onces)
  BY <1>1, CallsAssumption
<1>5. Top(t).next \in 1 .. Len(Calls[Current(t)])
  BY <1>1, <1>4, LenProperties DEF ClosureCalls
<1>6. f \in Frame
  <2>1. Calls[Current(t)][Top(t).next] \in Onces
    BY <1>4, <1>5, ElementOfSeq
  <2> QED
    BY <2>1 DEF Frame
<1>7. Advance(stack[t]) = s
  BY DEF Advance
<1>8. stack' = [stack EXCEPT ![t] = Append(Advance(stack[t]), f)]
  BY DEF ClosureCalls
<1>9. \A i \in 1 .. Len(s) : s[i].once = stack[t][i].once
  BY <1>2, <1>3
<1> HIDE DEF s, f, g, n
<1>10. stack' = [stack EXCEPT ![t] = Append(s, f)]
  BY <1>7, <1>8
<1>11. stack'[t] = Append(s, f) /\ Len(Append(s, f)) = Len(s) + 1
  BY <1>3, <1>6, <1>10, AppendProperties DEF TypeOK
<1>12. Len(s) = Len(stack[t])
  BY <1>3 DEF n
<1>13. Len(stack'[t]) = Len(stack[t]) + 1
  BY <1>11, <1>12
<1> QED
  BY <1>3, <1>6, <1>9, <1>10, <1>12, <1>13, Zenon

(* Every step keeps the inductive invariant.                                *)
LEMMA StepIInv ==
  ASSUME IInv, [Next]_vars
  PROVE  IInv'
<1>1. ASSUME NEW t \in Threads, NEW o \in Onces, Call(t, o)
      PROVE  IInv'
  <2> DEFINE f == [once |-> o, next |-> 1]
  <2>1. f \in Frame
    BY DEF Frame
  <2>2. pc[t] = "idle" /\ stack[t] = << >> /\ << >> \in Seq(Frame)
    BY <1>1 DEF Call, IInv, TypeOK
  <2>3. stack' = [stack EXCEPT ![t] = Append(<< >>, f)]
    BY <1>1 DEF Call
  <2>4. \A i \in 1 .. Len(<< >>) : << >>[i].once = stack[t][i].once
    OBVIOUS
  <2> HIDE DEF f
  <2> QED
    BY <1>1, <2>1, <2>2, <2>3, <2>4, PushFrame DEF Call
<1>2. ASSUME NEW t \in Threads, InlineCheck(t)
      PROVE  IInv'
  BY <1>2, ReturnStep, GotoStep DEF InlineCheck
<1>3. ASSUME NEW t \in Threads, ImplCheck(t)
      PROVE  IInv'
  BY <1>3, ReturnStep, GotoStep DEF ImplCheck
<1>4. ASSUME NEW t \in Threads, CompareAndSwap(t)
      PROVE  IInv'
  <2>1. CASE once[Current(t)] = UNINITIALIZED
    BY <1>4, <2>1, EnterClosure DEF CompareAndSwap, UNINITIALIZED, EXECUTING_CLOSURE, DONE
  <2>2. CASE once[Current(t)] = EXECUTING_CLOSURE
    BY <1>4, <2>2, GotoStep DEF CompareAndSwap, UNINITIALIZED, EXECUTING_CLOSURE, DONE
  <2>3. CASE once[Current(t)] = DONE
    BY <1>4, <2>3, ReturnStep DEF CompareAndSwap, UNINITIALIZED, EXECUTING_CLOSURE, DONE
  <2> QED
    BY <1>4, <2>1, <2>2, <2>3 DEF CompareAndSwap
<1>5. ASSUME NEW t \in Threads, ClosureCalls(t)
      PROVE  IInv'
  BY <1>5, NestedCall, PushFrame DEF IInv, ClosureCalls
<1>6. ASSUME NEW t \in Threads, ClosureEnds(t)
      PROVE  IInv'
  BY <1>6, CompleteClosure DEF ClosureEnds
<1>7. ASSUME NEW t \in Threads, Publish(t)
      PROVE  IInv'
  BY <1>7, PublishStep
<1>8. ASSUME NEW t \in Threads, Spin(t)
      PROVE  IInv'
  BY <1>8, ReturnStep DEF Spin
<1>9. CASE UNCHANGED vars
  BY <1>9 DEF vars, IInv, TypeOK, RunningIsExecuting, RunsAlone, CompletedOnce,
     SpinnersLost, Closures, Publishing, Current, Top
<1> QED
  BY <1>1, <1>2, <1>3, <1>4, <1>5, <1>6, <1>7, <1>8, <1>9 DEF Next, Step

-----------------------------------------------------------------------------

(* The inductive invariant holds at all times.                              *)
LEMMA Invariance == Spec => []IInv
  BY InitIInv, StepIInv, PTL DEF Spec

(* Every reachable state is well typed. *)
THEOREM TypeCorrect == Spec => []TypeOK
  BY Invariance, PTL DEF IInv

(* GoogleOnceInit runs no closure to completion twice. *)
THEOREM InitOnce == Spec => []AtMostOnce
<1>1. IInv => AtMostOnce
  BY DEF IInv, CompletedOnce, AtMostOnce
<1> QED
  BY <1>1, Invariance, PTL

(* Whatever path a call returns on, the closure of its object has completed. *)
LEMMA ReturnsWhenDone ==
  ASSUME IInv, Next, NEW t \in Threads, Returns(t)
  PROVE  initialized[Current(t)] = 1
<1>1. stack[t] \in Seq(Frame) /\ Len(stack[t]) \in Nat
  BY LenProperties DEF IInv, TypeOK
<1>2. stack'[t] # stack[t]
  BY <1>1 DEF Returns
<1>3. ASSUME NEW o \in Onces, Call(t, o)
      PROVE  FALSE
  <2>1. Len(stack[t]) = 0 /\ Len(stack'[t]) = 1
    BY <1>3 DEF Call, IInv, TypeOK
  <2> QED
    BY <2>1 DEF Returns
<1>4. Step(t)
  BY <1>2, <1>3 DEF Next, Call, Step, InlineCheck, ImplCheck, CompareAndSwap,
     ClosureCalls, ClosureEnds, Publish, Spin, Return, IInv, TypeOK
<1>5. pc[t] # "idle"
  BY <1>4 DEF Step, InlineCheck, ImplCheck, CompareAndSwap, ClosureCalls,
     ClosureEnds, Publish, Spin
<1>6. Current(t) \in Onces
  BY <1>5, TopType DEF IInv
<1>7. ~ ClosureCalls(t)
  <2> SUFFICES ASSUME ClosureCalls(t)
               PROVE  FALSE
    OBVIOUS
  <2> DEFINE n == Len(stack[t])
             g == [once |-> stack[t][n].once, next |-> stack[t][n].next + 1]
  <2>1. Len(stack'[t]) = n + 1
    BY NestedCall DEF IInv
  <2> QED
    BY <1>1, <2>1 DEF Returns
<1>8. CASE once[Current(t)] = DONE
  BY <1>6, <1>8 DEF IInv, CompletedOnce
<1>9. CASE Publish(t)
  BY <1>6, <1>9 DEF IInv, CompletedOnce, Publishing, Publish
<1>10. CASE Spin(t)
  <2>1. once[Current(t)] = DONE
    BY <1>6, <1>10 DEF Spin, IInv, TypeOK, SpinnersLost
  <2> QED
    BY <2>1, <1>8
<1> QED
  BY <1>2, <1>4, <1>7, <1>8, <1>9, <1>10 DEF Step, InlineCheck, ImplCheck,
     CompareAndSwap, ClosureEnds

(* A call that returns, on any of its paths, leaves its object initialised. *)
THEOREM ReturnMeansInitialized == Spec => ReturnsInitialized
<1>1. IInv /\ [Next]_vars =>
        [\A t \in Threads : Returns(t) => initialized[Current(t)] = 1]_vars
  BY ReturnsWhenDone
<1> QED
  BY <1>1, Invariance, PTL DEF Spec, ReturnsInitialized

-----------------------------------------------------------------------------

(* What a closure has called is initialised, but for the call it is in: the  *)
(* frame above is of that object.                                            *)
CalledIsInitialized ==
  \A t \in Threads : \A i \in DOMAIN stack[t] :
    \A k \in DOMAIN Calls[stack[t][i].once] :
      k < stack[t][i].next =>
        \/ initialized[Calls[stack[t][i].once][k]] > 0
        \/ /\ i < Len(stack[t])
           /\ stack[t][i + 1].once = Calls[stack[t][i].once][k]

(* A closure that completed made all its calls. *)
PublishesAll ==
  \A t \in Threads : pc[t] = "publish" => Top(t).next > Len(Calls[Current(t)])

DInv == CalledIsInitialized /\ PublishesAll /\ DependenciesFirst

(* Before any call nothing is called and nothing is DONE.                   *)
LEMMA InitDInv == Init => DInv
  BY DEF Init, DInv, CalledIsInitialized, PublishesAll, DependenciesFirst,
     UNINITIALIZED, DONE

(* A frame has an object and a place among the calls of its closure.        *)
LEMMA FrameType ==
  ASSUME TypeOK, NEW t \in Threads, NEW i \in DOMAIN stack[t]
  PROVE  /\ DOMAIN stack[t] = 1 .. Len(stack[t]) /\ Len(stack[t]) \in Nat
         /\ stack[t][i].once \in Onces /\ stack[t][i].next \in Nat \ {0}
         /\ Calls[stack[t][i].once] \in Seq(Onces)
         /\ \A k \in DOMAIN Calls[stack[t][i].once] :
              k \in Nat \ {0} /\ Calls[stack[t][i].once][k] \in Onces
<1>1. stack[t] \in Seq(Frame) /\ DOMAIN stack[t] = 1 .. Len(stack[t]) /\ Len(stack[t]) \in Nat
  BY LenProperties DEF TypeOK
<1>2. stack[t][i] \in Frame
  BY <1>1, ElementOfSeq
<1>3. PICK o \in Onces : o = stack[t][i].once
  BY <1>2 DEF Frame
<1>4. Calls[o] \in Seq(Onces)
  BY CallsAssumption
<1>5. DOMAIN Calls[o] = 1 .. Len(Calls[o]) /\ Len(Calls[o]) \in Nat
  BY <1>4, LenProperties
<1>6. \A k \in 1 .. Len(Calls[o]) : Calls[o][k] \in Onces
  BY <1>4, ElementOfSeq
<1> QED
  BY <1>1, <1>2, <1>3, <1>4, <1>5, <1>6 DEF Frame

(* What a step does to a thread's stack: nothing, a return from an           *)
(* initialised object, a user's call, or a nested call.                      *)
LEMMA StackSteps ==
  ASSUME IInv, Next, NEW t \in Threads
  PROVE  \/ stack'[t] = stack[t]
         \/ stack[t] # << >> /\ stack'[t] = Pop(stack[t]) /\ initialized[Current(t)] = 1
         \/ \E o \in Onces : stack'[t] = << [once |-> o, next |-> 1] >>
         \/ ClosureCalls(t)
<1>1. TypeOK
  BY DEF IInv
<1>2. CASE \E u \in Threads \ {t} : (\E o \in Onces : Call(u, o)) \/ Step(u)
  BY <1>1, <1>2 DEF TypeOK, Call, Step, InlineCheck, ImplCheck, CompareAndSwap,
     ClosureCalls, ClosureEnds, Publish, Spin, Return
<1>3. CASE \E o \in Onces : Call(t, o)
  BY <1>1, <1>3 DEF TypeOK, Call
<1>4. CASE Step(t) /\ ~ClosureCalls(t)
  <2>1. stack'[t] = stack[t] \/ (stack'[t] = Pop(stack[t]) /\ pc[t] # "idle")
    BY <1>1, <1>4 DEF TypeOK, Step, InlineCheck, ImplCheck, CompareAndSwap,
       ClosureEnds, Publish, Spin, Return
  <2>2. CASE stack'[t] = Pop(stack[t]) /\ pc[t] # "idle"
    <3>1. stack[t] # << >> /\ stack[t] \in Seq(Frame) /\ Len(stack[t]) \in Nat \ {0}
      BY <1>1, <2>2, TopType
    <3>2. Returns(t)
      BY <2>2, <3>1, PopType DEF Returns
    <3> QED
      BY <2>2, <3>1, <3>2, ReturnsWhenDone
  <2> QED
    BY <2>1, <2>2
<1> QED
  BY <1>2, <1>3, <1>4 DEF Next, Step

(* No step takes back an initialisation. *)
LEMMA InitializedStays ==
  ASSUME IInv, Next, NEW o \in Onces, initialized[o] > 0
  PROVE  initialized'[o] > 0
<1>1. ASSUME NEW t \in Threads, ClosureEnds(t)
      PROVE  initialized'[o] > 0
  BY <1>1 DEF IInv, TypeOK, ClosureEnds
<1> QED
  BY <1>1 DEF Next, Call, Step, InlineCheck, ImplCheck, CompareAndSwap,
     ClosureCalls, Publish, Spin

(* What a closure has called stays initialised, and what it calls next gets *)
(* so.                                                                      *)
LEMMA CalledStep ==
  ASSUME IInv, CalledIsInitialized, Next
  PROVE  CalledIsInitialized'
<1> SUFFICES ASSUME NEW t \in Threads, NEW i \in DOMAIN stack'[t],
                    NEW k \in DOMAIN Calls[stack'[t][i].once], k < stack'[t][i].next
             PROVE  \/ initialized'[Calls[stack'[t][i].once][k]] > 0
                    \/ /\ i < Len(stack'[t])
                       /\ stack'[t][i + 1].once = Calls[stack'[t][i].once][k]
  BY DEF CalledIsInitialized
<1>1. TypeOK /\ stack[t] \in Seq(Frame) /\ Len(stack[t]) \in Nat
      /\ DOMAIN stack[t] = 1 .. Len(stack[t])
  BY LenProperties DEF IInv, TypeOK
<1>2. CASE stack'[t] = stack[t]
  <2>1. Calls[stack[t][i].once][k] \in Onces
    BY <1>1, <1>2, FrameType
  <2> QED
    BY <1>2, <2>1, InitializedStays DEF CalledIsInitialized
<1>3. CASE stack[t] # << >> /\ stack'[t] = Pop(stack[t]) /\ initialized[Current(t)] = 1
  <2>1. /\ Len(stack'[t]) = Len(stack[t]) - 1 /\ DOMAIN stack'[t] = 1 .. (Len(stack[t]) - 1)
        /\ \A j \in 1 .. (Len(stack[t]) - 1) : stack'[t][j] = stack[t][j]
    BY <1>1, <1>3, PopType
  <2>2. i \in DOMAIN stack[t] /\ i \in 1 .. (Len(stack[t]) - 1) /\ stack'[t][i] = stack[t][i]
    BY <1>1, <2>1
  <2>3. Calls[stack[t][i].once][k] \in Onces
    BY <1>1, <2>2, FrameType
  <2>4. CASE initialized[Calls[stack[t][i].once][k]] > 0
    BY <2>2, <2>3, <2>4, InitializedStays
  <2>5. CASE stack[t][i + 1].once = Calls[stack[t][i].once][k]
    <3>1. CASE i + 1 = Len(stack[t])
      <4>1. initialized[Calls[stack[t][i].once][k]] = 1
        BY <1>3, <2>5, <3>1 DEF Current, Top
      <4> QED
        BY <4>1, <2>4
    <3>2. CASE i + 1 # Len(stack[t])
      <4>1. i + 1 \in 1 .. (Len(stack[t]) - 1) /\ i < Len(stack'[t])
        BY <1>1, <2>1, <2>2, <3>2
      <4>2. stack'[t][i + 1] = stack[t][i + 1]
        BY <2>1, <4>1
      <4> QED
        BY <2>2, <2>5, <4>1, <4>2
    <3> QED
      BY <3>1, <3>2
  <2> QED
    BY <2>2, <2>4, <2>5 DEF CalledIsInitialized
<1>4. CASE \E o \in Onces : stack'[t] = << [once |-> o, next |-> 1] >>
  <2>1. PICK o \in Onces : stack'[t] = << [once |-> o, next |-> 1] >>
    BY <1>4
  <2>2. i = 1 /\ stack'[t][i].once = o /\ stack'[t][i].next = 1
    BY <2>1
  <2>3. Calls[o] \in Seq(Onces)
    BY CallsAssumption
  <2>4. k \in Nat \ {0}
    BY <2>2, <2>3, LenProperties
  <2> QED
    BY <2>2, <2>4
<1>5. CASE ClosureCalls(t)
  <2>1. PICK n \in Nat \ {0} : n = Len(stack[t])
    BY <1>1, <1>5, TopType DEF ClosureCalls
  <2>2. PICK o \in Onces, m \in Nat \ {0} : o = stack[t][n].once /\ m = stack[t][n].next
    BY <1>1, <1>5, <2>1, TopType DEF ClosureCalls, Top, Current
  <2>3. /\ Calls[o] \in Seq(Onces) /\ DOMAIN Calls[o] = 1 .. Len(Calls[o])
        /\ Len(Calls[o]) \in Nat /\ m \in 1 .. Len(Calls[o])
    BY <1>5, <2>1, <2>2, CallsAssumption, LenProperties DEF ClosureCalls, Top, Current
  <2>4. Calls[o][m] \in Onces
    BY <2>3, ElementOfSeq
  <2> DEFINE g == [once |-> o, next |-> m + 1]
             f == [once |-> Calls[o][m], next |-> 1]
             s == [stack[t] EXCEPT ![n] = g]
  <2>5. g \in Frame /\ f \in Frame
    BY <2>4 DEF Frame
  <2>6. /\ s \in Seq(Frame) /\ Len(s) = n
        /\ \A j \in 1 .. n : s[j] = IF j = n THEN g ELSE stack[t][j]
    BY <1>1, <2>1, <2>5, ExceptSeq
  <2>7. stack'[t] = Append(s, f)
    BY <1>1, <1>5, <2>1, <2>2 DEF ClosureCalls, Advance, Top, Current, TypeOK
  <2>8. g.once = o /\ g.next = m + 1 /\ f.once = Calls[o][m] /\ f.next = 1
    OBVIOUS
  <2> HIDE DEF f, g, s
  <2>9. /\ Append(s, f) \in Seq(Frame) /\ Len(Append(s, f)) = n + 1
        /\ \A j \in 1 .. n : Append(s, f)[j] = s[j]
        /\ Append(s, f)[n + 1] = f
    BY <2>5, <2>6, AppendProperties
  <2>10. DOMAIN Append(s, f) = 1 .. (n + 1)
    BY <2>9, LenProperties
  <2>11. /\ i \in 1 .. (n + 1) /\ Len(stack'[t]) = n + 1 /\ stack'[t][n + 1] = f
         /\ \A j \in 1 .. n : stack'[t][j] = IF j = n THEN g ELSE stack[t][j]
    BY <2>6, <2>7, <2>9, <2>10
  <2>12. CASE i = n + 1
    <3>1. stack'[t][i].once = Calls[o][m] /\ stack'[t][i].next = 1
      BY <2>8, <2>11, <2>12
    <3>2. Calls[Calls[o][m]] \in Seq(Onces)
      BY <2>4, CallsAssumption
    <3>3. k \in Nat \ {0}
      BY <3>1, <3>2, LenProperties
    <3> QED
      BY <3>1, <3>3
  <2>13. CASE i = n
    <3>1. stack'[t][i].once = o /\ stack'[t][i].next = m + 1 /\ stack'[t][i + 1].once = Calls[o][m]
      BY <2>8, <2>11, <2>13
    <3>2. k \in 1 .. Len(Calls[o]) /\ k < m + 1
      BY <2>3, <3>1
    <3>3. CASE k = m
      BY <2>11, <2>13, <3>1, <3>3
    <3>4. CASE k # m
      <4>1. k < m
        BY <3>2, <3>4
      <4>2. Calls[o][k] \in Onces
        BY <2>3, <3>2, ElementOfSeq
      <4>3. n \in DOMAIN stack[t] /\ k \in DOMAIN Calls[stack[t][n].once] /\ k < stack[t][n].next
        BY <1>1, <2>1, <2>2, <2>3, <3>2, <4>1
      <4>4. initialized[Calls[o][k]] > 0
        BY <1>1, <2>1, <2>2, <4>3 DEF CalledIsInitialized
      <4> QED
        BY <3>1, <4>2, <4>4, InitializedStays
    <3> QED
      BY <3>3, <3>4
  <2>14. CASE i \in 1 .. (n - 1)
    <3>1. /\ stack'[t][i] = stack[t][i] /\ i \in DOMAIN stack[t]
          /\ stack'[t][i + 1].once = stack[t][i + 1].once
      <4>1. i \in 1 .. n /\ i # n /\ i + 1 \in 1 .. n
        BY <2>14
      <4>2. stack'[t][i] = stack[t][i]
        BY <2>11, <4>1
      <4>3. stack'[t][i + 1] = IF i + 1 = n THEN g ELSE stack[t][i + 1]
        BY <2>11, <4>1
      <4>4. stack'[t][i + 1].once = stack[t][i + 1].once
        BY <2>2, <2>8, <4>3
      <4> QED
        BY <1>1, <2>1, <4>1, <4>2, <4>4
    <3>2. Calls[stack[t][i].once][k] \in Onces
      BY <1>1, <3>1, FrameType
    <3>3. \/ initialized[Calls[stack[t][i].once][k]] > 0
          \/ stack[t][i + 1].once = Calls[stack[t][i].once][k]
      BY <3>1 DEF CalledIsInitialized
    <3> QED
      BY <2>11, <2>14, <3>1, <3>2, <3>3, InitializedStays
  <2> QED
    BY <2>11, <2>12, <2>13, <2>14
<1> QED
  BY <1>2, <1>3, <1>4, <1>5, StackSteps

(* A closure gets to its end only after its last call.                      *)
LEMMA PublishesAllStep ==
  ASSUME IInv, PublishesAll, Next
  PROVE  PublishesAll'
<1> SUFFICES ASSUME NEW t \in Threads, pc'[t] = "publish"
             PROVE  Top(t)'.next > Len(Calls[Current(t)'])
  BY DEF PublishesAll
<1>1. CASE ClosureEnds(t)
  BY <1>1 DEF ClosureEnds, Top, Current
<1>2. CASE ~ClosureEnds(t)
  <2>1. pc[t] = "publish" /\ stack'[t] = stack[t]
    BY <1>2 DEF IInv, TypeOK, Next, Call, Step, InlineCheck, ImplCheck, CompareAndSwap,
       ClosureCalls, ClosureEnds, Publish, Spin, Return, Goto
  <2> QED
    BY <2>1 DEF PublishesAll, Top, Current
<1> QED
  BY <1>1, <1>2

(* The word turns DONE at Publish: the closure made all its calls, and the    *)
(* frame is on top, so none of them is still in progress.                     *)
LEMMA DependenciesStep ==
  ASSUME IInv, DInv, Next
  PROVE  DependenciesFirst'
<1> SUFFICES ASSUME NEW o \in Onces, once'[o] = DONE, NEW k \in DOMAIN Calls[o]
             PROVE  initialized'[Calls[o][k]] > 0
  BY DEF DependenciesFirst
<1>1. /\ Calls[o] \in Seq(Onces) /\ Len(Calls[o]) \in Nat /\ k \in 1 .. Len(Calls[o])
      /\ Calls[o][k] \in Onces
  BY CallsAssumption, LenProperties, ElementOfSeq
<1>2. CASE once[o] = DONE
  BY <1>1, <1>2, InitializedStays DEF DInv, DependenciesFirst
<1>3. CASE \E t \in Threads : Publish(t) /\ Current(t) = o
  <2>1. PICK t \in Threads : Publish(t) /\ Current(t) = o
    BY <1>3
  <2>2. Top(t).next > Len(Calls[o]) /\ Top(t).next \in Nat \ {0} /\ Len(stack[t]) \in Nat \ {0}
        /\ Len(stack[t]) \in DOMAIN stack[t]
    BY <2>1, TopType DEF DInv, PublishesAll, Publish, IInv
  <2>3. stack[t][Len(stack[t])].once = o /\ k < stack[t][Len(stack[t])].next
    BY <1>1, <2>1, <2>2 DEF Top, Current
  <2>4. initialized[Calls[o][k]] > 0
    BY <2>2, <2>3 DEF DInv, CalledIsInitialized
  <2> QED
    BY <1>1, <2>4, InitializedStays
<1>4. CASE once[o] # DONE /\ ~ \E t \in Threads : Publish(t) /\ Current(t) = o
  BY <1>4 DEF IInv, TypeOK, Next, Call, Step, InlineCheck, ImplCheck, CompareAndSwap,
     ClosureCalls, ClosureEnds, Publish, Spin, EXECUTING_CLOSURE, DONE
<1> QED
  BY <1>2, <1>3, <1>4

(* A once object is DONE only after every object its closure initialises is   *)
(* initialised, whichever thread did that.                                    *)
THEOREM DependenciesInitialized == Spec => []DependenciesFirst
<1>1. DInv /\ UNCHANGED vars => DInv'
  BY DEF DInv, CalledIsInitialized, PublishesAll, DependenciesFirst, Top, Current, vars
<1>2. IInv /\ DInv /\ [Next]_vars => DInv'
  BY <1>1, CalledStep, PublishesAllStep, DependenciesStep DEF DInv
<1>3. DInv => DependenciesFirst
  BY DEF DInv
<1> QED
  BY <1>2, <1>3, InitDInv, Invariance, PTL DEF Spec

-----------------------------------------------------------------------------
(* The registry. *)

RegistryTypeOK ==
  /\ file_map \subseteq Files /\ type_map \subseteq Types
  /\ mutex \in Threads \cup {NULL}
  /\ type \in [Threads -> Types \cup {NULL}]
  /\ at \in [Threads -> {"none", "find", "file", "lock", "check", "register", "unlock"}]

(* A file whose AddDescriptors is over, or past the call of RegisterFile, is  *)
(* in file_map_.                                                            *)
PastRegisterFile(t, i) ==
  stack[t][i].next > 4 \/ (i = Len(stack[t]) /\ pc[t] = "publish")
FilesEntered ==
  \A f \in Files :
    /\ once[addOf[f]] = DONE => f \in file_map
    /\ \A t \in Threads : \A i \in 1 .. Len(stack[t]) :
         stack[t][i].once = addOf[f] /\ PastRegisterFile(t, i) => f \in file_map

(* The types of a file are registered together, after protobuf_Assign-        *)
(* DescriptorsOnce.                                                         *)
FilesWhole == \A f \in Files : TypesOf[f] \subseteq type_map \/ TypesOf[f] \cap type_map = {}
TypesAssigned == \A d \in type_map : initialized[assignOf[FileOf(d)]] = 1

(* What t relies on in GetPrototype.                                         *)
Assigning(t) ==
  LET assign == assignOf[FileOf(type[t])] IN
  initialized[assign] = 1 \/ (pc[t] # "idle" /\ stack[t][1].once = assign)
LookupOK(t) ==
  /\ type[t] = NULL <=> at[t] = "none"
  /\ at[t] \in {"file", "lock", "check", "unlock"} => pc[t] = "idle"
  /\ at[t] \in {"check", "register", "unlock"} <=> mutex = t
  /\ at[t] # "none" => \A f \in Files : once[addOf[f]] = DONE
  /\ at[t] = "register" => type[t] \notin type_map /\ Assigning(t)
  /\ at[t] = "unlock" => type[t] \in type_map

RegistryInv ==
  /\ IInv
  /\ RegistryTypeOK
  /\ FilesEntered
  /\ FilesWhole
  /\ TypesAssigned
  /\ \A t \in Threads : LookupOK(t)

-----------------------------------------------------------------------------
(* A type has one file.                                                      *)
LEMMA FileOfType ==
  ASSUME NEW f \in Files, NEW d \in TypesOf[f]
  PROVE  FileOf(d) = f /\ d \in Types /\ d # NULL
<1>1. FileOf(d) \in Files /\ d \in TypesOf[FileOf(d)]
  BY DEF FileOf
<1> QED
  BY <1>1, FilesAssumption DEF Types

(* A type is of a file.                                                     *)
LEMMA TypeHasFile ==
  ASSUME NEW d \in Types
  PROVE  FileOf(d) \in Files /\ d \in TypesOf[FileOf(d)] /\ d # NULL
<1>1. PICK f \in Files : d \in TypesOf[f]
  BY DEF Types
<1> QED
  BY <1>1, FileOfType

(* The type t looks for, in a lookup.                                        *)
LEMMA SoughtType ==
  ASSUME RegistryTypeOK, NEW t \in Threads, LookupOK(t), at[t] # "none"
  PROVE  /\ type[t] \in Types /\ type[t] # NULL
         /\ FileOf(type[t]) \in Files /\ type[t] \in TypesOf[FileOf(type[t])]
         /\ assignOf[FileOf(type[t])] \in Onces
<1>1. type[t] \in Types
  BY DEF RegistryTypeOK, LookupOK
<1> QED
  BY <1>1, TypeHasFile, FilesAssumption

(* Every step of the registry is a step of the once objects, or none.        *)
LEMMA StepOfOnce ==
  ASSUME RegistryInv, RegistryNext
  PROVE  [Next]_vars
<1>1. ASSUME NEW t \in Threads, LookupStep(t)
      PROVE  [Next]_vars
  <2>1. CASE CheckAgain(t)
    <3>1. assignOf[FileOf(type[t])] \in Onces
      BY <2>1, SoughtType DEF CheckAgain, RegistryInv
    <3> QED
      BY <2>1, <3>1 DEF CheckAgain, Next
  <2> QED
    BY <1>1, <2>1 DEF LookupStep, FindType, FindFile, Lock, RegisterTypes, Unlock
<1> QED
  BY <1>1, FilesAssumption DEF RegistryNext, UseLibrary, OnceStep, GetPrototype, Next

(* What a step of t inside GoogleOnceInit does to the frames of its calls.    *)
LEMMA StepFrames ==
  ASSUME TypeOK, NEW t \in Threads, Step(t)
  PROVE  /\ \A u \in Threads \ {t} : stack'[u] = stack[u] /\ pc'[u] = pc[u]
         /\ \A i \in 1 .. Len(stack'[t]) : i <= Len(stack[t]) =>
              /\ stack'[t][i].once = stack[t][i].once
              /\ \/ stack'[t][i].next = stack[t][i].next
                 \/ /\ i = Len(stack[t]) /\ ClosureCalls(t)
                    /\ stack'[t][i].next = stack[t][i].next + 1
         /\ \A i \in 1 .. Len(stack'[t]) : i > Len(stack[t]) => stack'[t][i].next = 1
         /\ Len(stack'[t]) >= Len(stack[t]) - 1
         /\ pc'[t] = "publish" <=> ClosureEnds(t)
<1>1. pc[t] # "idle"
  BY DEF Step, InlineCheck, ImplCheck, CompareAndSwap, ClosureCalls, ClosureEnds, Publish, Spin
<1>2. /\ stack[t] \in Seq(Frame) /\ stack[t] # << >>
      /\ Len(stack[t]) \in Nat \ {0} /\ Len(stack[t]) \in DOMAIN stack[t]
      /\ Top(t) \in Frame /\ Current(t) \in Onces /\ Top(t).next \in Nat \ {0}
  BY <1>1, TopType
<1>3. CASE Return(t) /\ pc[t] # "closure"
  <2>1. stack'[t] = Pop(stack[t]) /\ \A u \in Threads \ {t} : stack'[u] = stack[u] /\ pc'[u] = pc[u]
    BY <1>3 DEF Return, Goto, TypeOK
  <2>2. Len(Pop(stack[t])) = Len(stack[t]) - 1 /\ \A i \in 1 .. (Len(stack[t]) - 1) : Pop(stack[t])[i] = stack[t][i]
    BY <1>2, PopType
  <2>3. pc'[t] # "publish"
    BY <1>3 DEF Return, Goto, TypeOK
  <2> QED
    BY <1>2, <1>3, <2>1, <2>2, <2>3 DEF ClosureEnds
<1>4. CASE ClosureCalls(t)
  <2> DEFINE n == Len(stack[t])
             g == [once |-> stack[t][n].once, next |-> stack[t][n].next + 1]
             s == [stack[t] EXCEPT ![n] = g]
             f == [once |-> Calls[Current(t)][Top(t).next], next |-> 1]
  <2>1. g \in Frame /\ f \in Frame
    <3>1. Calls[Current(t)] \in Seq(Onces)
      BY <1>2, CallsAssumption
    <3>2. Top(t).next \in 1 .. Len(Calls[Current(t)])
      BY <1>2, <1>4, <3>1, LenProperties DEF ClosureCalls
    <3>3. Calls[Current(t)][Top(t).next] \in Onces
      BY <3>1, <3>2, ElementOfSeq
    <3> QED
      BY <1>2, <3>3 DEF Frame, Top
  <2>2. /\ s \in Seq(Frame) /\ Len(s) = n
        /\ \A i \in 1 .. n : s[i] = IF i = n THEN g ELSE stack[t][i]
    BY <1>2, <2>1, ExceptSeq
  <2>3. stack' = [stack EXCEPT ![t] = Append(s, f)]
    BY <1>4 DEF ClosureCalls, Advance
  <2>4. stack'[t] = Append(s, f)
    BY <2>3 DEF TypeOK
  <2> HIDE DEF s
  <2>5. /\ Len(stack'[t]) = n + 1 /\ stack'[t][n + 1] = f
        /\ \A i \in 1 .. n : stack'[t][i] = s[i]
    BY <2>1, <2>2, <2>4, AppendProperties
  <2>6. \A u \in Threads \ {t} : stack'[u] = stack[u] /\ pc'[u] = pc[u]
    BY <1>4, <2>3 DEF ClosureCalls, Goto, TypeOK
  <2>7. pc'[t] = "inline"
    BY <1>4 DEF ClosureCalls, Goto, TypeOK
  <2>8. ~ ClosureEnds(t)
    BY <1>2, <1>4, CallsAssumption, LenProperties DEF ClosureEnds, ClosureCalls
  <2> QED
    BY <1>2, <1>4, <2>2, <2>5, <2>6, <2>7, <2>8
<1>5. CASE UNCHANGED stack /\ ~ (Return(t) /\ pc[t] # "closure")
  <2> DEFINE Moved == /\ \A u \in Threads \ {t} : pc'[u] = pc[u]
                      /\ pc'[t] = "publish" <=> ClosureEnds(t)
  <2>1. InlineCheck(t) => Moved
    BY <1>5 DEF InlineCheck, ClosureEnds, Goto, TypeOK
  <2>2. ImplCheck(t) => Moved
    BY <1>5 DEF ImplCheck, ClosureEnds, Goto, TypeOK
  <2>3. CompareAndSwap(t) => Moved
    BY <1>5 DEF CompareAndSwap, ClosureEnds, Goto, TypeOK
  <2>4. ClosureEnds(t) => Moved
    BY DEF ClosureEnds, Goto, TypeOK
  <2>5. ClosureCalls(t) => Moved
    BY <1>4, <1>5, <1>2 DEF ClosureCalls
  <2>6. Moved
    BY <1>5, <2>1, <2>2, <2>3, <2>4, <2>5 DEF Step, Publish, Spin
  <2> QED
    BY <1>2, <1>5, <2>6
<1>6. (Return(t) /\ pc[t] # "closure") \/ ClosureCalls(t) \/ UNCHANGED stack
  <2>1. InlineCheck(t) => (Return(t) /\ pc[t] # "closure") \/ UNCHANGED stack
    BY DEF InlineCheck
  <2>2. ImplCheck(t) => (Return(t) /\ pc[t] # "closure") \/ UNCHANGED stack
    BY DEF ImplCheck
  <2>3. CompareAndSwap(t) => (Return(t) /\ pc[t] # "closure") \/ UNCHANGED stack
    BY DEF CompareAndSwap
  <2>4. Publish(t) => Return(t) /\ pc[t] # "closure"
    BY DEF Publish
  <2>5. Spin(t) => Return(t) /\ pc[t] # "closure"
    BY DEF Spin
  <2>6. ClosureEnds(t) => UNCHANGED stack
    BY DEF ClosureEnds
  <2> QED
    BY <2>1, <2>2, <2>3, <2>4, <2>5, <2>6 DEF Step
<1> QED
  BY <1>3, <1>4, <1>5, <1>6

-----------------------------------------------------------------------------
(* What is initialised stays so.                                             *)
LEMMA DoneStays ==
  ASSUME IInv, [Next]_vars, NEW o \in Onces
  PROVE  /\ once[o] = DONE => once'[o] = DONE
         /\ initialized[o] = 1 => initialized'[o] = 1
<1>1. IInv'
  BY StepIInv
<1>2. ASSUME NEW t \in Threads, Step(t)
      PROVE  once[o] = DONE => once'[o] = DONE
  <2>1. CompareAndSwap(t) => (once[o] = DONE => once'[o] = DONE)
    BY DEF CompareAndSwap, IInv, TypeOK, UNINITIALIZED, DONE
  <2>2. Publish(t) => (once[o] = DONE => once'[o] = DONE)
    BY DEF Publish, IInv, TypeOK
  <2> QED
    BY <1>2, <2>1, <2>2 DEF Step, InlineCheck, ImplCheck, ClosureCalls, ClosureEnds, Spin
<1>3. once[o] = DONE => once'[o] = DONE
  BY <1>2 DEF Next, Call, vars
<1>4. initialized'[o] \in {initialized[o], initialized[o] + 1}
  <2>1. ASSUME NEW t \in Threads, Step(t)
        PROVE  initialized'[o] \in {initialized[o], initialized[o] + 1}
    <3>1. ClosureEnds(t) => initialized'[o] \in {initialized[o], initialized[o] + 1}
      BY DEF ClosureEnds, IInv, TypeOK
    <3> QED
      BY <2>1, <3>1 DEF Step, InlineCheck, ImplCheck, CompareAndSwap, ClosureCalls, Publish, Spin
  <2> QED
    BY <2>1 DEF Next, Call, vars
<1>5. initialized'[o] \in {0, 1}
  BY <1>1 DEF IInv, CompletedOnce
<1> QED
  BY <1>3, <1>4, <1>5

(* Before any use of the library.                                           *)
LEMMA InitRegistry == RegistryInit => RegistryInv
<1> SUFFICES ASSUME RegistryInit
             PROVE  RegistryInv
  OBVIOUS
<1>1. IInv
  BY InitIInv DEF RegistryInit
<1>2. RegistryTypeOK
  BY DEF RegistryInit, RegistryTypeOK
<1>3. FilesEntered
  BY EmptySeq, FilesAssumption DEF RegistryInit, Init, FilesEntered, DONE, UNINITIALIZED
<1>4. FilesWhole /\ TypesAssigned
  BY DEF RegistryInit, FilesWhole, TypesAssigned
<1>5. \A t \in Threads : LookupOK(t)
  BY FilesAssumption DEF RegistryInit, LookupOK
<1> QED
  BY <1>1, <1>2, <1>3, <1>4, <1>5 DEF RegistryInv

(* A call that starts has not called anything.                               *)
LEMMA CallKeepsEntered ==
  ASSUME RegistryInv, NEW t \in Threads, NEW o \in Onces, Call(t, o), UNCHANGED file_map
  PROVE  FilesEntered'
<1>1. /\ stack'[t] = << [once |-> o, next |-> 1] >> /\ pc'[t] = "inline"
      /\ \A u \in Threads \ {t} : stack'[u] = stack[u] /\ pc'[u] = pc[u]
  BY DEF Call, Goto, RegistryInv, IInv, TypeOK
<1>2. Len(stack'[t]) = 1 /\ stack'[t][1].next = 1
  BY <1>1
<1>3. \A i \in 1 .. Len(stack'[t]) : ~ PastRegisterFile(t, i)'
  BY <1>1, <1>2 DEF PastRegisterFile
<1>4. \A u \in Threads \ {t} : \A i \in 1 .. Len(stack[u]) :
        PastRegisterFile(u, i)' <=> PastRegisterFile(u, i)
  BY <1>1 DEF PastRegisterFile
<1> QED
  BY <1>1, <1>3, <1>4 DEF RegistryInv, FilesEntered, Call

(* AddDescriptors enters its file before it is over.                         *)
LEMMA StepKeepsEntered ==
  ASSUME RegistryInv, NEW t \in Threads, OnceStep(t)
  PROVE  FilesEntered'
<1>1. Step(t) /\ file_map' = file_map \cup RegistersFile(t) /\ TypeOK /\ IInv'
  BY StepIInv DEF OnceStep, RegistryInv, IInv, Next
<1>2. pc[t] # "idle"
  BY <1>1 DEF Step, InlineCheck, ImplCheck, CompareAndSwap, ClosureCalls, ClosureEnds, Publish, Spin
<1>3. /\ stack[t] \in Seq(Frame) /\ Len(stack[t]) \in Nat \ {0}
      /\ Top(t) \in Frame /\ Current(t) \in Onces /\ Top(t).next \in Nat \ {0}
  BY <1>1, <1>2, TopType
<1>4. ASSUME NEW f \in Files, once'[addOf[f]] = DONE
      PROVE  f \in file_map'
  <2>1. CASE once[addOf[f]] = DONE
    BY <1>1, <2>1 DEF RegistryInv, FilesEntered
  <2>2. CASE once[addOf[f]] # DONE
    <3>1. Publish(t) /\ Current(t) = addOf[f]
      <4>1. CompareAndSwap(t) => once'[addOf[f]] # DONE
        BY <2>2, <1>1, <1>3, FilesAssumption DEF CompareAndSwap, TypeOK, DONE, EXECUTING_CLOSURE
      <4>2. Publish(t) => Current(t) = addOf[f]
        BY <1>1, <1>3, <1>4, <2>2, FilesAssumption DEF Publish, TypeOK
      <4> QED
        BY <1>1, <1>4, <2>2, <4>1, <4>2 DEF Step, InlineCheck, ImplCheck, ClosureCalls, ClosureEnds, Spin
    <3>2. Len(stack[t]) \in 1 .. Len(stack[t])
      BY <1>3
    <3>3. PastRegisterFile(t, Len(stack[t]))
      BY <3>1 DEF PastRegisterFile, Publish
    <3> QED
      BY <1>1, <3>1, <3>2, <3>3 DEF RegistryInv, FilesEntered, Current, Top
  <2> QED
    BY <2>1, <2>2
<1>5. ASSUME NEW f \in Files, NEW u \in Threads \ {t}, NEW i \in 1 .. Len(stack'[u]),
             stack'[u][i].once = addOf[f], PastRegisterFile(u, i)'
      PROVE  f \in file_map'
  <2>1. stack'[u] = stack[u] /\ pc'[u] = pc[u]
    BY <1>1, StepFrames
  <2>2. i \in 1 .. Len(stack[u]) /\ stack[u][i].once = addOf[f] /\ PastRegisterFile(u, i)
    BY <1>5, <2>1 DEF PastRegisterFile
  <2> QED
    BY <1>1, <2>2 DEF RegistryInv, FilesEntered
<1>6. ASSUME NEW f \in Files, NEW i \in 1 .. Len(stack'[t]),
             stack'[t][i].once = addOf[f], PastRegisterFile(t, i)'
      PROVE  f \in file_map'
  <2>1. stack'[t] \in Seq(Frame) /\ Len(stack'[t]) \in Nat
    BY <1>1, LenProperties DEF IInv, TypeOK
  <2>2. stack'[t][i].next \in Nat
    <3>1. stack'[t][i] \in Frame
      BY <1>6, <2>1, ElementOfSeq
    <3> QED
      BY <3>1 DEF Frame
  <2>3. CASE ClosureEnds(t)
    <3>1. stack'[t] = stack[t] /\ pc[t] = "closure"
      BY <2>3 DEF ClosureEnds
    <3>2. i \in 1 .. Len(stack[t])
      BY <1>6, <3>1
    <3>3. CASE stack[t][i].next > 4
      BY <1>1, <1>6, <3>1, <3>2, <3>3 DEF RegistryInv, FilesEntered, PastRegisterFile
    <3>4. CASE ~ (stack[t][i].next > 4)
      <4>1. i = Len(stack[t])
        BY <1>6, <3>1, <3>4 DEF PastRegisterFile
      <4>2. Current(t) = addOf[f] /\ Top(t).next = stack[t][i].next
        BY <1>6, <3>1, <4>1 DEF Current, Top
      <4>3. Top(t).next > Len(Calls[addOf[f]]) /\ Len(Calls[addOf[f]]) >= 3
        BY <2>3, <4>2, FilesAssumption DEF ClosureEnds
      <4>4. Len(Calls[addOf[f]]) \in Nat
        BY FilesAssumption, CallsAssumption, LenProperties
      <4>5. Top(t).next = 4
        BY <1>3, <3>4, <4>2, <4>3, <4>4
      <4> QED
        BY <1>1, <3>1, <4>2, <4>5 DEF RegistersFile
    <3> QED
      BY <3>3, <3>4
  <2>4. CASE ~ ClosureEnds(t)
    <3>1. stack'[t][i].next > 4
      BY <1>1, <1>6, <2>4, StepFrames DEF PastRegisterFile
    <3>2. /\ i <= Len(stack[t]) /\ stack'[t][i].once = stack[t][i].once
          /\ \/ stack'[t][i].next = stack[t][i].next
             \/ /\ i = Len(stack[t]) /\ ClosureCalls(t)
                /\ stack'[t][i].next = stack[t][i].next + 1
      BY <1>1, <1>3, <1>6, <2>1, <3>1, StepFrames
    <3>3. i \in 1 .. Len(stack[t]) /\ stack[t][i].next \in Nat
      <4>1. i \in 1 .. Len(stack[t])
        BY <1>3, <1>6, <2>1, <3>2
      <4>2. stack[t][i] \in Frame
        BY <1>3, <4>1, ElementOfSeq
      <4> QED
        BY <4>1, <4>2 DEF Frame
    <3>4. CASE stack[t][i].next > 4
      BY <1>1, <1>6, <3>2, <3>3, <3>4 DEF RegistryInv, FilesEntered, PastRegisterFile
    <3>5. CASE ~ (stack[t][i].next > 4)
      <4>1. i = Len(stack[t]) /\ ClosureCalls(t) /\ stack[t][i].next = 4
        BY <3>1, <3>2, <3>3, <3>5
      <4>2. Current(t) = addOf[f] /\ Top(t).next = 4
        BY <1>6, <3>2, <4>1 DEF Current, Top
      <4> QED
        BY <1>1, <4>1, <4>2 DEF RegistersFile, ClosureCalls
    <3> QED
      BY <3>4, <3>5
  <2> QED
    BY <2>3, <2>4
<1> QED
  BY <1>4, <1>5, <1>6 DEF FilesEntered

(* A step of t inside GoogleOnceInit.                                        *)
LEMMA OnceStepKeeps ==
  ASSUME RegistryInv, NEW t \in Threads, OnceStep(t)
  PROVE  RegistryInv'
<1>1. /\ Step(t) /\ TypeOK /\ IInv /\ IInv' /\ Next
      /\ UNCHANGED <<type_map, mutex, type, at>>
      /\ file_map' = file_map \cup RegistersFile(t)
  BY StepIInv DEF OnceStep, RegistryInv, IInv, Next
<1>2. pc[t] # "idle"
  BY <1>1 DEF Step, InlineCheck, ImplCheck, CompareAndSwap, ClosureCalls, ClosureEnds, Publish, Spin
<1>3. /\ stack[t] \in Seq(Frame) /\ Len(stack[t]) \in Nat \ {0} /\ Current(t) \in Onces
  BY <1>1, <1>2, TopType
<1>4. /\ \A o \in Onces : once[o] = DONE => once'[o] = DONE
      /\ \A o \in Onces : initialized[o] = 1 => initialized'[o] = 1
  BY <1>1, DoneStays
<1>5. RegistryTypeOK'
  BY <1>1 DEF RegistryInv, RegistryTypeOK, RegistersFile
<1>6. FilesEntered'
  BY StepKeepsEntered
<1>7. FilesWhole'
  BY <1>1 DEF RegistryInv, FilesWhole
<1>8. TypesAssigned'
  <2> SUFFICES ASSUME NEW d \in type_map
               PROVE  initialized'[assignOf[FileOf(d)]] = 1
    BY <1>1 DEF TypesAssigned, FileOf
  <2>1. assignOf[FileOf(d)] \in Onces
    BY TypeHasFile, FilesAssumption DEF RegistryInv, RegistryTypeOK
  <2> QED
    BY <1>4, <2>1 DEF RegistryInv, TypesAssigned
<1>9. ASSUME NEW u \in Threads, at[u] = "register"
      PROVE  Assigning(u)'
  <2> DEFINE assign == assignOf[FileOf(type[u])]
  <2>1. assign \in Onces
    BY <1>9, SoughtType DEF RegistryInv
  <2>2. CASE initialized[assign] = 1
    BY <1>1, <1>4, <2>1, <2>2 DEF Assigning, FileOf
  <2>3. CASE u # t /\ pc[u] # "idle" /\ stack[u][1].once = assign
    <3>1. stack'[u] = stack[u] /\ pc'[u] = pc[u]
      BY <1>1, <2>3, StepFrames
    <3> QED
      BY <1>1, <2>3, <3>1 DEF Assigning, FileOf
  <2>4. CASE u = t /\ stack[u][1].once = assign
    <3>1. /\ stack'[t] \in Seq(Frame) /\ Len(stack'[t]) \in Nat
          /\ pc'[t] = "idle" <=> stack'[t] = << >>
      BY <1>1, LenProperties DEF IInv, TypeOK
    <3>2. CASE pc'[t] = "idle"
      <4>1. Len(stack'[t]) = 0
        BY <3>1, <3>2
      <4>2. Len(stack[t]) = 1
        <5>1. Len(stack'[t]) >= Len(stack[t]) - 1
          BY <1>1, StepFrames
        <5> DEFINE n == Len(stack[t])
        <5>2. n \in Nat \ {0} /\ 0 >= n - 1
          BY <1>3, <4>1, <5>1
        <5> HIDE DEF n
        <5>3. n = 1
          BY <5>2
        <5> QED
          BY <5>3 DEF n
      <4>3. Current(t) = assign
        BY <2>4, <4>2 DEF Current, Top
      <4>4. Returns(t)
        BY <4>1, <4>2 DEF Returns
      <4>5. initialized[Current(t)] = 1
        BY <1>1, <4>4, ReturnsWhenDone
      <4> QED
        BY <2>2, <4>3, <4>5
    <3>3. CASE pc'[t] # "idle"
      <4>1. Len(stack'[t]) # 0
        BY <3>1, <3>3, EmptySeq
      <4>2. 1 \in 1 .. Len(stack'[t]) /\ 1 <= Len(stack[t])
        BY <1>3, <3>1, <4>1
      <4>3. stack'[t][1].once = assign
        BY <1>1, <2>4, <4>2, StepFrames
      <4> QED
        BY <1>1, <2>4, <3>3, <4>3 DEF Assigning, FileOf
    <3> QED
      BY <3>2, <3>3
  <2> QED
    BY <1>9, <2>2, <2>3, <2>4 DEF RegistryInv, LookupOK, Assigning
<1>10. ASSUME NEW u \in Threads
       PROVE  LookupOK(u)'
  <2>1. LookupOK(u)
    BY DEF RegistryInv
  <2>2. at[u] \in {"file", "lock", "check", "unlock"} => pc'[u] = "idle"
    <3>1. u # t => pc'[u] = pc[u]
      BY <1>1, StepFrames
    <3> QED
      BY <1>2, <2>1, <3>1 DEF LookupOK
  <2>3. at[u] # "none" => \A f \in Files : once'[addOf[f]] = DONE
    BY <1>4, <2>1, FilesAssumption DEF LookupOK
  <2> QED
    BY <1>1, <1>9, <2>1, <2>2, <2>3 DEF LookupOK
<1> QED
  BY <1>1, <1>5, <1>6, <1>7, <1>8, <1>10 DEF RegistryInv

(* A call of a user, or the call of generated_factory() or of                *)
(* protobuf_AssignDescriptorsOnce by the registry, starts.                   *)
LEMMA CallKeeps ==
  ASSUME RegistryInv, NEW t \in Threads, NEW o \in Onces, Call(t, o), UNCHANGED <<file_map, type_map>>
  PROVE  /\ IInv' /\ FilesEntered' /\ FilesWhole' /\ TypesAssigned'
         /\ UNCHANGED <<once, initialized>>
         /\ pc[t] = "idle" /\ pc'[t] # "idle" /\ stack'[t][1].once = o
         /\ \A u \in Threads \ {t} : pc'[u] = pc[u] /\ stack'[u] = stack[u]
<1>1. IInv'
  BY StepIInv DEF RegistryInv, Next
<1>2. FilesEntered'
  BY CallKeepsEntered
<1>3. FilesWhole' /\ TypesAssigned'
  BY DEF Call, RegistryInv, FilesWhole, TypesAssigned, FileOf
<1>4. /\ stack'[t] = << [once |-> o, next |-> 1] >> /\ pc'[t] = "inline"
      /\ \A u \in Threads \ {t} : stack'[u] = stack[u] /\ pc'[u] = pc[u]
  BY DEF Call, Goto, RegistryInv, IInv, TypeOK
<1> QED
  BY <1>1, <1>2, <1>3, <1>4 DEF Call

(* A thread uses the library otherwise.                                     *)
LEMMA UseLibraryKeeps ==
  ASSUME RegistryInv, NEW t \in Threads, NEW o \in Onces, UseLibrary(t, o)
  PROVE  RegistryInv'
<1>1. /\ Call(t, o) /\ type[t] = NULL /\ UNCHANGED <<file_map, type_map, mutex, type, at>>
  BY DEF UseLibrary, registry
<1>2. RegistryTypeOK'
  BY <1>1 DEF RegistryInv, RegistryTypeOK
<1>3. /\ IInv' /\ FilesEntered' /\ FilesWhole' /\ TypesAssigned'
      /\ UNCHANGED <<once, initialized>>
      /\ \A u \in Threads \ {t} : pc'[u] = pc[u] /\ stack'[u] = stack[u]
  BY <1>1, CallKeeps
<1>4. ASSUME NEW u \in Threads
      PROVE  LookupOK(u)'
  <2>1. LookupOK(u)
    BY DEF RegistryInv
  <2>2. CASE u = t
    BY <1>1, <2>1, <2>2 DEF LookupOK
  <2>3. CASE u # t
    BY <1>1, <1>3, <2>1, <2>3 DEF LookupOK, Assigning, FileOf
  <2> QED
    BY <2>2, <2>3
<1> QED
  BY <1>2, <1>3, <1>4 DEF RegistryInv

(* A lookup begins.                                                         *)
LEMMA GetPrototypeKeeps ==
  ASSUME RegistryInv, NEW t \in Threads, NEW d \in Types, GetPrototype(t, d)
  PROVE  RegistryInv'
<1>1. /\ Call(t, factory) /\ type[t] = NULL /\ type' = [type EXCEPT ![t] = d]
      /\ at' = [at EXCEPT ![t] = "find"] /\ \A f \in Files : once[addOf[f]] = DONE
      /\ UNCHANGED <<file_map, type_map, mutex>> /\ factory \in Onces /\ d # NULL
  BY TypeHasFile, FilesAssumption DEF GetPrototype, Move
<1>2. RegistryTypeOK'
  BY <1>1 DEF RegistryInv, RegistryTypeOK
<1>3. /\ IInv' /\ FilesEntered' /\ FilesWhole' /\ TypesAssigned'
      /\ UNCHANGED <<once, initialized>>
      /\ \A u \in Threads \ {t} : pc'[u] = pc[u] /\ stack'[u] = stack[u]
  BY <1>1, CallKeeps
<1>4. ASSUME NEW u \in Threads
      PROVE  LookupOK(u)'
  <2>1. LookupOK(u) /\ RegistryTypeOK
    BY DEF RegistryInv
  <2>2. CASE u = t
    <3>1. type'[t] = d /\ at'[t] = "find" /\ mutex # t
      BY <1>1, <2>1, <2>2 DEF RegistryTypeOK, LookupOK
    <3> QED
      BY <1>1, <1>3, <2>2, <3>1 DEF LookupOK
  <2>3. CASE u # t
    <3>1. type'[u] = type[u] /\ at'[u] = at[u]
      BY <1>1, <2>1, <2>3 DEF RegistryTypeOK
    <3> QED
      BY <1>1, <1>3, <2>1, <2>3, <3>1 DEF LookupOK, Assigning, FileOf
  <2> QED
    BY <2>2, <2>3
<1> QED
  BY <1>2, <1>3, <1>4 DEF RegistryInv

(* A step of GetPrototype that makes no call leaves the once objects, and     *)
(* what t does not hold mutex_ for.                                          *)
LEMMA LookupKeeps ==
  ASSUME RegistryInv, NEW t \in Threads, UNCHANGED <<vars, file_map>>, RegistryTypeOK',
         FilesWhole', TypesAssigned', LookupOK(t)',
         \A u \in Threads \ {t} : type'[u] = type[u] /\ at'[u] = at[u] /\ (mutex = u <=> mutex' = u),
         type_map' = type_map \/ mutex = t
  PROVE  RegistryInv'
<1>1. IInv'
  BY StepIInv DEF RegistryInv
<1>2. FilesEntered'
  BY DEF RegistryInv, FilesEntered, PastRegisterFile, vars
<1>3. ASSUME NEW u \in Threads \ {t}
      PROVE  LookupOK(u)'
  <2>1. LookupOK(u)
    BY DEF RegistryInv
  <2>2. CASE type_map' = type_map
    BY <2>1, <2>2, <1>3 DEF LookupOK, Assigning, FileOf, vars
  <2>3. CASE mutex = t
    <3>1. at[u] \notin {"check", "register", "unlock"}
      BY <1>3, <2>1, <2>3 DEF LookupOK
    <3> QED
      BY <2>1, <1>3, <3>1 DEF LookupOK, vars
  <2> QED
    BY <2>2, <2>3
<1> QED
  BY <1>1, <1>2, <1>3 DEF RegistryInv

(* Any step of a lookup.                                                    *)
LEMMA LookupStepKeeps ==
  ASSUME RegistryInv, NEW t \in Threads, LookupStep(t)
  PROVE  RegistryInv'
<1> USE DEF Move, Answer
<1>1. RegistryTypeOK /\ FilesWhole /\ TypesAssigned /\ LookupOK(t) /\ NULL \notin Threads
  BY FilesAssumption DEF RegistryInv
<1>2. at[t] # "none" /\ type[t] # NULL
  BY <1>1 DEF LookupStep, FindType, FindFile, Lock, CheckAgain, RegisterTypes, Unlock, LookupOK
<1>3. type_map' = type_map /\ UNCHANGED vars => FilesWhole' /\ TypesAssigned'
  BY <1>1 DEF FilesWhole, TypesAssigned, FileOf, vars
<1>4. CASE FindType(t)
  <2>1. /\ UNCHANGED <<vars, file_map, type_map, mutex>> /\ at[t] = "find" /\ pc[t] = "idle"
        /\ \/ type' = [type EXCEPT ![t] = NULL] /\ at' = [at EXCEPT ![t] = "none"]
           \/ type' = type /\ at' = [at EXCEPT ![t] = "file"]
    BY <1>4 DEF FindType
  <2>2. RegistryTypeOK'
    BY <1>1, <2>1 DEF RegistryTypeOK
  <2>3. LookupOK(t)'
    BY <1>1, <1>2, <2>1 DEF LookupOK, RegistryTypeOK, vars
  <2> QED
    BY <1>1, <1>3, <2>1, <2>2, <2>3, LookupKeeps DEF RegistryTypeOK
<1>5. CASE FindFile(t)
  <2>1. /\ UNCHANGED <<vars, file_map, type_map, mutex>> /\ at[t] = "file"
        /\ \/ type' = [type EXCEPT ![t] = NULL] /\ at' = [at EXCEPT ![t] = "none"]
           \/ type' = type /\ at' = [at EXCEPT ![t] = "lock"]
    BY <1>5 DEF FindFile
  <2>2. RegistryTypeOK'
    BY <1>1, <2>1 DEF RegistryTypeOK
  <2>3. LookupOK(t)'
    BY <1>1, <1>2, <2>1 DEF LookupOK, RegistryTypeOK, vars
  <2> QED
    BY <1>1, <1>3, <2>1, <2>2, <2>3, LookupKeeps DEF RegistryTypeOK
<1>6. CASE Lock(t)
  <2>1. /\ UNCHANGED <<vars, file_map, type_map, type>> /\ at[t] = "lock"
        /\ mutex = NULL /\ mutex' = t /\ at' = [at EXCEPT ![t] = "check"]
    BY <1>6 DEF Lock
  <2>2. RegistryTypeOK'
    BY <1>1, <2>1 DEF RegistryTypeOK
  <2>3. LookupOK(t)'
    BY <1>1, <1>2, <2>1 DEF LookupOK, RegistryTypeOK, vars
  <2> QED
    BY <1>1, <1>3, <2>1, <2>2, <2>3, LookupKeeps DEF RegistryTypeOK
<1>7. CASE CheckAgain(t) /\ type[t] \in type_map
  <2>1. /\ UNCHANGED <<vars, file_map, type_map, type, mutex>> /\ at[t] = "check"
        /\ at' = [at EXCEPT ![t] = "unlock"]
    BY <1>7 DEF CheckAgain
  <2>2. RegistryTypeOK'
    BY <1>1, <2>1 DEF RegistryTypeOK
  <2>3. LookupOK(t)'
    BY <1>1, <1>2, <1>7, <2>1 DEF LookupOK, RegistryTypeOK, vars
  <2> QED
    BY <1>1, <1>3, <2>1, <2>2, <2>3, LookupKeeps DEF RegistryTypeOK
<1>8. CASE CheckAgain(t) /\ type[t] \notin type_map
  <2> DEFINE assign == assignOf[FileOf(type[t])]
  <2>1. /\ Call(t, assign) /\ UNCHANGED <<file_map, type_map, type, mutex>> /\ at[t] = "check"
        /\ at' = [at EXCEPT ![t] = "register"] /\ assign \in Onces
    BY <1>1, <1>8, SoughtType DEF CheckAgain
  <2>2. RegistryTypeOK'
    BY <1>1, <2>1 DEF RegistryTypeOK
  <2>3. /\ IInv' /\ FilesEntered' /\ FilesWhole' /\ TypesAssigned'
        /\ UNCHANGED <<once, initialized>>
        /\ pc'[t] # "idle" /\ stack'[t][1].once = assign
        /\ \A u \in Threads \ {t} : pc'[u] = pc[u] /\ stack'[u] = stack[u]
    BY <2>1, CallKeeps
  <2>4. at'[t] = "register" /\ \A u \in Threads \ {t} : at'[u] = at[u]
    BY <1>1, <2>1 DEF RegistryTypeOK
  <2>5. LookupOK(t)'
    BY <1>1, <1>2, <1>8, <2>1, <2>3, <2>4 DEF LookupOK, Assigning, FileOf
  <2>6. ASSUME NEW u \in Threads \ {t}
        PROVE  LookupOK(u)'
    BY <2>1, <2>3, <2>4 DEF RegistryInv, LookupOK, Assigning, FileOf
  <2> QED
    BY <2>2, <2>3, <2>5, <2>6 DEF RegistryInv
<1>9. CASE RegisterTypes(t)
  <2> DEFINE file == FileOf(type[t])
  <2>1. /\ UNCHANGED <<vars, file_map, type, mutex>> /\ at[t] = "register" /\ pc[t] = "idle"
        /\ type_map' = type_map \cup TypesOf[file] /\ at' = [at EXCEPT ![t] = "unlock"]
    BY <1>9 DEF RegisterTypes
  <2>2. /\ file \in Files /\ type[t] \in TypesOf[file] /\ mutex = t
        /\ initialized[assignOf[file]] = 1
    BY <1>1, <2>1, SoughtType DEF LookupOK, Assigning
  <2>3. RegistryTypeOK'
    BY <1>1, <2>1, <2>2 DEF RegistryTypeOK, Types
  <2>4. FilesWhole'
    <3> SUFFICES ASSUME NEW g \in Files
                 PROVE  TypesOf[g] \subseteq type_map' \/ TypesOf[g] \cap type_map' = {}
      BY DEF FilesWhole
    <3>1. g # file => TypesOf[g] \cap TypesOf[file] = {}
      BY <2>2, FilesAssumption
    <3> QED
      BY <1>1, <2>1, <3>1 DEF FilesWhole
  <2>5. TypesAssigned'
    <3> SUFFICES ASSUME NEW d \in type_map'
                 PROVE  initialized[assignOf[FileOf(d)]] = 1
      BY <2>1 DEF TypesAssigned, FileOf, vars
    <3>1. d \in TypesOf[file] => FileOf(d) = file
      BY <2>2, FileOfType
    <3> QED
      BY <1>1, <2>1, <2>2, <3>1 DEF TypesAssigned
  <2>6. LookupOK(t)'
    BY <1>1, <1>2, <2>1, <2>2 DEF LookupOK, RegistryTypeOK, vars
  <2> QED
    BY <1>1, <2>1, <2>2, <2>3, <2>4, <2>5, <2>6, LookupKeeps DEF RegistryTypeOK
<1>10. CASE Unlock(t)
  <2>1. /\ UNCHANGED <<vars, file_map, type_map>> /\ at[t] = "unlock" /\ mutex = t /\ mutex' = NULL
        /\ type' = [type EXCEPT ![t] = NULL] /\ at' = [at EXCEPT ![t] = "none"]
    BY <1>1, <1>10 DEF Unlock, LookupOK
  <2>2. RegistryTypeOK'
    BY <1>1, <2>1 DEF RegistryTypeOK
  <2>3. LookupOK(t)'
    BY <1>1, <1>2, <2>1 DEF LookupOK, RegistryTypeOK, vars
  <2> QED
    BY <1>1, <1>3, <2>1, <2>2, <2>3, LookupKeeps DEF RegistryTypeOK
<1> QED
  BY <1>4, <1>5, <1>6, <1>7, <1>8, <1>9, <1>10 DEF LookupStep

-----------------------------------------------------------------------------
(* Every step keeps the inductive invariant.                                *)
LEMMA RegistryStep == RegistryInv /\ [RegistryNext]_allVars => RegistryInv'
<1>1. RegistryInv /\ RegistryNext => RegistryInv'
  BY UseLibraryKeeps, GetPrototypeKeeps, OnceStepKeeps, LookupStepKeeps DEF RegistryNext
<1>2. RegistryInv /\ UNCHANGED allVars => RegistryInv'
  <2> SUFFICES ASSUME RegistryInv, UNCHANGED allVars
               PROVE  RegistryInv'
    OBVIOUS
  <2>1. UNCHANGED <<once, stack, pc, initialized, file_map, type_map, mutex, type, at>>
    BY DEF allVars, vars, registry
  <2>2. IInv'
    BY <2>1, StepIInv DEF vars, RegistryInv
  <2> QED
    BY <2>1, <2>2 DEF RegistryInv, RegistryTypeOK, FilesEntered, PastRegisterFile, FilesWhole,
       TypesAssigned, LookupOK, Assigning, FileOf
<1> QED
  BY <1>1, <1>2

(* The inductive invariant holds at all times.                              *)
LEMMA RegistryInvariance == RegistrySpec => []RegistryInv
  BY InitRegistry, RegistryStep, PTL DEF RegistrySpec

(* The registry uses the once objects as any user may: what is proved of     *)
(* them holds in it.                                                        *)
THEOREM UsesOnce == RegistrySpec => Spec
<1>1. RegistryInit => Init
  BY DEF RegistryInit
<1>2. RegistryInv /\ [RegistryNext]_allVars => [Next]_vars
  BY StepOfOnce DEF allVars
<1> QED
  BY <1>1, <1>2, RegistryInvariance, PTL DEF RegistrySpec, Spec

(* However many threads miss types of a file at once, none is registered     *)
(* twice.                                                                   *)
THEOREM RegisteredOnce == RegistrySpec => []NoTypeTwice
<1>1. RegistryInv => NoTypeTwice
  <2> SUFFICES ASSUME RegistryInv, NEW t \in Threads, at[t] = "register"
               PROVE  TypesOf[FileOf(type[t])] \cap type_map = {}
    BY DEF NoTypeTwice
  <2>1. LookupOK(t) /\ type[t] \notin type_map
    BY DEF RegistryInv, LookupOK
  <2>2. FileOf(type[t]) \in Files /\ type[t] \in TypesOf[FileOf(type[t])]
    BY <2>1, SoughtType DEF RegistryInv
  <2> QED
    BY <2>1, <2>2 DEF RegistryInv, FilesWhole
<1> QED
  BY <1>1, RegistryInvariance, PTL

(* Every answer of GetPrototype is a registered type, and its descriptors     *)
(* and reflection are assigned.                                             *)
THEOREM AnswersReady == RegistrySpec => PrototypeReady
<1>1. ASSUME RegistryInv, RegistryNext, NEW t \in Threads, type[t] # NULL, type'[t] = NULL
      PROVE  type[t] \in type_map /\ initialized[assignOf[FileOf(type[t])]] = 1
  <2>1. LookupOK(t) /\ RegistryTypeOK
    BY <1>1 DEF RegistryInv
  <2>2. type[t] \in type_map
    <3>1. ASSUME NEW u \in Threads, LookupStep(u)
          PROVE  u = t /\ (FindType(t) \/ FindFile(t) \/ Unlock(t))
      BY <1>1, <2>1, <3>1 DEF LookupStep, FindType, FindFile, Lock, CheckAgain, RegisterTypes,
         Unlock, Answer, RegistryTypeOK
    <3>2. PICK u \in Threads : LookupStep(u)
      <4>1. ASSUME NEW u \in Threads, NEW d \in Types, GetPrototype(u, d)
            PROVE  FALSE
        BY <1>1, <2>1, <4>1, TypeHasFile DEF GetPrototype, RegistryTypeOK
      <4> QED
        BY <1>1, <4>1 DEF RegistryNext, UseLibrary, OnceStep, registry
    <3>3. CASE FindType(t)
      BY <1>1, <3>3 DEF FindType
    <3>4. CASE FindFile(t)
      <4>1. FileOf(type[t]) \in Files /\ \A f \in Files : once[addOf[f]] = DONE
        BY <2>1, <3>4, SoughtType DEF FindFile, LookupOK
      <4>2. FileOf(type[t]) \in file_map
        BY <1>1, <4>1 DEF RegistryInv, FilesEntered
      <4> QED
        BY <1>1, <3>4, <4>2 DEF FindFile
    <3>5. CASE Unlock(t)
      BY <2>1, <3>5 DEF Unlock, LookupOK
    <3> QED
      BY <3>1, <3>2, <3>3, <3>4, <3>5
  <2> QED
    BY <1>1, <2>2 DEF RegistryInv, TypesAssigned
<1>2. RegistryInv /\ [RegistryNext]_allVars =>
        [\A t \in Threads : type[t] # NULL /\ type'[t] = NULL =>
           type[t] \in type_map /\ initialized[assignOf[FileOf(type[t])]] = 1]_allVars
  BY <1>1
<1> QED
  BY <1>2, RegistryInvariance, PTL DEF RegistrySpec, PrototypeReady
=============================================================================
