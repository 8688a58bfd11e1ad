------------------------------- MODULE OnceInit -------------------------------
(***************************************************************************)
(* GoogleOnceInit (stubs/once.h, stubs/once.cc): run a closure exactly once *)
(* and let every caller return only after it has run.  The generated code   *)
(* of each .proto file is initialised through it, and the closure of one    *)
(* once object calls GoogleOnceInit on others (AddDescriptorsImpl calls     *)
(* InitDefaults and the AddDescriptors of the imported files), so a thread  *)
(* holds a stack of calls.                                                  *)
(*                                                                          *)
(* One action per atomic access to the once word; a frame below the top of  *)
(* a thread's stack is inside its closure.                                  *)
(***************************************************************************)
EXTENDS Naturals, Sequences

CONSTANTS
  Threads,   (* The threads that may call GoogleOnceInit.                   *)
  Onces,     (* The once objects (one ProtobufOnceType word each).          *)
  Calls      (* Calls[o]: the once objects o's closure initialises, in order *)

ASSUME CallsAssumption == Calls \in [Onces -> Seq(Onces)]

UNINITIALIZED     == "UNINITIALIZED"
EXECUTING_CLOSURE == "EXECUTING_CLOSURE"
DONE              == "DONE"

VARIABLES
  once,        (* once[o]: the atomic word.                                 *)
  stack,       (* stack[t]: the calls in progress, innermost last.          *)
  pc,          (* pc[t]: where the innermost call of t is.                  *)
  initialized  (* initialized[o]: how often o's closure has completed.      *)

vars == <<once, stack, pc, initialized>>

Frame == [once : Onces, next : Nat \ {0}]

(* t's innermost call, and the once object it initialises. *)
Top(t) == stack[t][Len(stack[t])]
Current(t) == Top(t).once
Pop(s) == SubSeq(s, 1, Len(s) - 1)
Advance(s) ==
  [s EXCEPT ![Len(s)] = [once |-> s[Len(s)].once, next |-> s[Len(s)].next + 1]]

Init ==
  /\ once = [o \in Onces |-> UNINITIALIZED]
  /\ stack = [t \in Threads |-> << >>]
  /\ pc = [t \in Threads |-> "idle"]
  /\ initialized = [o \in Onces |-> 0]

Goto(t, label) == pc' = [pc EXCEPT ![t] = label]

(* Mutant: the outermost call returns into a closure that does not exist.   *)
ReturnToClosure(t) ==
  /\ stack' = [stack EXCEPT ![t] = Pop(@)]
  /\ Goto(t, "closure")

(* The innermost call returns to the closure that made it, or to the user. *)
Return(t) ==
  /\ stack' = [stack EXCEPT ![t] = Pop(@)]
  /\ Goto(t, IF Len(stack[t]) = 1 THEN "idle" ELSE "closure")

(* A user of the library calls GoogleOnceInit(o, closure). *)
Call(t, o) ==
  /\ pc[t] = "idle"
  /\ stack' = [stack EXCEPT ![t] = << [once |-> o, next |-> 1] >>]
  /\ Goto(t, "inline")
  /\ UNCHANGED <<once, initialized>>

(* Mutant: the fast path takes a started closure for a finished one.        *)
InlineCheckTestsStarted(t) ==
  /\ pc[t] = "inline"
  /\ IF once[Current(t)] # UNINITIALIZED
       THEN Return(t)
       ELSE Goto(t, "impl") /\ UNCHANGED stack
  /\ UNCHANGED <<once, initialized>>

(* The inline fast path: Acquire_Load(once) != ONCE_STATE_DONE. *)
InlineCheck(t) ==
  /\ pc[t] = "inline"
  /\ IF once[Current(t)] = DONE
       THEN Return(t)
       ELSE Goto(t, "impl") /\ UNCHANGED stack
  /\ UNCHANGED <<once, initialized>>

(* The first load of GoogleOnceInitImpl. *)
ImplCheck(t) ==
  /\ pc[t] = "impl"
  /\ IF once[Current(t)] = DONE
       THEN Return(t)
       ELSE Goto(t, "cas") /\ UNCHANGED stack
  /\ UNCHANGED <<once, initialized>>

(* Mutant: a plain store after the load instead of a compare-and-swap.      *)
CompareAndSwapPlainStore(t) ==
  /\ pc[t] = "cas"
  /\ once' = [once EXCEPT ![Current(t)] = EXECUTING_CLOSURE]
  /\ Goto(t, "closure")
  /\ UNCHANGED <<stack, initialized>>

(* Acquire_CompareAndSwap(once, UNINITIALIZED, EXECUTING_CLOSURE): the       *)
(* winner runs the closure, a loser that saw EXECUTING_CLOSURE spins.        *)
CompareAndSwap(t) ==
  /\ pc[t] = "cas"
  /\ LET o == Current(t) IN
     \/ /\ once[o] = UNINITIALIZED
        /\ once' = [once EXCEPT ![o] = EXECUTING_CLOSURE]
        /\ Goto(t, "closure")
        /\ UNCHANGED stack
     \/ /\ once[o] = EXECUTING_CLOSURE
        /\ Goto(t, "spin")
        /\ UNCHANGED <<once, stack>>
     \/ /\ once[o] = DONE
        /\ Return(t)
        /\ UNCHANGED once
  /\ UNCHANGED initialized

(* closure->Run() reaches its next nested GoogleOnceInit. *)
ClosureCalls(t) ==
  /\ pc[t] = "closure"
  /\ Top(t).next <= Len(Calls[Current(t)])
  /\ stack' = [stack EXCEPT ![t] =
       Append(Advance(@), [once |-> Calls[Current(t)][Top(t).next], next |-> 1])]
  /\ Goto(t, "inline")
  /\ UNCHANGED <<once, initialized>>

(* closure->Run() completes. *)
ClosureEnds(t) ==
  /\ pc[t] = "closure"
  /\ Top(t).next > Len(Calls[Current(t)])
  /\ initialized' = [initialized EXCEPT ![Current(t)] = @ + 1]
  /\ Goto(t, "publish")
  /\ UNCHANGED <<once, stack>>

(* Mutant: the closure ran, but the word is left at EXECUTING_CLOSURE.       *)
PublishForgotten(t) ==
  /\ pc[t] = "publish"
  /\ Return(t)
  /\ UNCHANGED <<once, initialized>>

(* Release_Store(once, ONCE_STATE_DONE), and return. *)
Publish(t) ==
  /\ pc[t] = "publish"
  /\ once' = [once EXCEPT ![Current(t)] = DONE]
  /\ Return(t)
  /\ UNCHANGED initialized

(* Mutant: the waiter yields once and does not reload the word.             *)
SpinOnce(t) ==
  /\ pc[t] = "spin"
  /\ Return(t)
  /\ UNCHANGED <<once, initialized>>

(* The wait loop: SchedYield, reload, leave when no longer EXECUTING. *)
Spin(t) ==
  /\ pc[t] = "spin"
  /\ once[Current(t)] # EXECUTING_CLOSURE
  /\ Return(t)
  /\ UNCHANGED <<once, initialized>>

Step(t) ==
  \/ InlineCheck(t)
  \/ ImplCheck(t)
  \/ CompareAndSwap(t)
  \/ ClosureCalls(t)
  \/ ClosureEnds(t)
  \/ Publish(t)
  \/ Spin(t)

Next == \E t \in Threads : (\E o \in Onces : Call(t, o)) \/ Step(t)

(* A thread inside GoogleOnceInit is scheduled; a user need not call it. *)
Spec == Init /\ [][Next]_vars
FairSpec == Spec /\ \A t \in Threads : WF_vars(Step(t))

-----------------------------------------------------------------------------

(* The type invariant: the words hold the three values of the enum, and a    *)
(* thread is idle exactly when it has no call on its stack.                  *)
TypeOK ==
  /\ once \in [Onces -> {UNINITIALIZED, EXECUTING_CLOSURE, DONE}]
  /\ stack \in [Threads -> Seq(Frame)]
  /\ pc \in [Threads -> {"idle", "inline", "impl", "cas", "closure", "publish", "spin"}]
  /\ \A t \in Threads : (pc[t] = "idle") <=> (stack[t] = << >>)
  /\ initialized \in [Onces -> Nat]

(* No closure completes twice, however many threads race for it or reach it *)
(* again from nested closures: AddDescriptorsImpl would register its file   *)
(* twice (once.h:65 "Calls Init() exactly once").                           *)
AtMostOnce == \A o \in Onces : initialized[o] <= 1

(* The steps on which a call returns. *)
Returns(t) == Len(stack'[t]) < Len(stack[t])

(* When GoogleOnceInit(o) returns, to whichever thread, on whichever of its *)
(* four return paths, o's closure has completed.                            *)
ReturnsInitialized ==
  [][\A t \in Threads : Returns(t) => initialized[Current(t)] = 1]_vars

(* A once object is marked DONE only after everything its closure sets up   *)
(* is set up, whichever threads did it: a file whose InitDefaults returned   *)
(* may point its default instances at those of its imports.                  *)
DependenciesFirst ==
  \A o \in Onces : once[o] = DONE =>
    \A i \in DOMAIN Calls[o] : initialized[Calls[o][i]] > 0

(* Every call returns: no thread spins forever, although spinners wait for  *)
(* a thread that may itself be spinning on another once object.  Needs the  *)
(* nesting of closures to be acyclic, which the import graph is.            *)
EveryCallReturns == \A t \in Threads : pc[t] # "idle" ~> pc[t] = "idle"
=============================================================================
