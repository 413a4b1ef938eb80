----------------------------- MODULE ScopeRunner -----------------------------
(***************************************************************************)
(* SimpleWeb::ScopeRunner (utility.hpp), one atomic access per step.       *)
(*                                                                         *)
(* Every asio handler of a server or a client begins with continue_lock()  *)
(* and returns at once when it gets nothing; the destructor of the server  *)
(* or client calls stop(), after which it frees what the handlers use.     *)
(* compare_exchange_weak may fail although count is what was expected.     *)
(***************************************************************************)
EXTENDS Integers, FiniteSets

CONSTANTS
  Handlers,  \* asio handler invocations; each runs once, on any thread
  Stoppers   \* threads that call stop()

ASSUME SeparateAssumption == Handlers \cap Stoppers = {}

VARIABLES
  count,     \* the atomic: handlers inside, or -1 once stopped
  pc,        \* where each invocation and each stopper is
  expected   \* the local variable of continue_lock

vars == <<count, pc, expected>>

HandlerPc == {"queued", "trying", "inside", "done", "skipped"}
StopperPc == {"running", "stopping", "returned"}

Inside == {h \in Handlers : pc[h] = "inside"}

Init == /\ count = 0
        /\ pc = [p \in Handlers \cup Stoppers |->
                   IF p \in Handlers THEN "queued" ELSE "running"]
        /\ expected = [h \in Handlers |-> 0]

Goto(p, label) == pc' = [pc EXCEPT ![p] = label]

-----------------------------------------------------------------------------
(* continue_lock *)

LoadCount(h) == /\ pc[h] = "queued"
                /\ expected' = [expected EXCEPT ![h] = count]
                /\ Goto(h, "trying")
                /\ UNCHANGED count

\* expected < 0 ends the loop: continue_lock returns nullptr.
GiveUp(h) == /\ pc[h] = "trying" /\ expected[h] < 0
             /\ Goto(h, "skipped")
             /\ UNCHANGED <<count, expected>>

\* Mutant: load and store in place of compare-exchange.
StoreEnter(h) == /\ pc[h] = "trying" /\ expected[h] >= 0
                 /\ count' = expected[h] + 1
                 /\ Goto(h, "inside")
                 /\ UNCHANGED expected

\* compare_exchange_weak(expected, expected + 1) succeeds.
CasEnter(h) == /\ pc[h] = "trying" /\ expected[h] >= 0
               /\ count = expected[h]
               /\ count' = count + 1
               /\ Goto(h, "inside")
               /\ UNCHANGED expected

\* It fails, perhaps spuriously, and reloads expected.
CasRetry(h) == /\ pc[h] = "trying" /\ expected[h] >= 0
               /\ expected' = [expected EXCEPT ![h] = count]
               /\ UNCHANGED <<count, pc>>

\* Mutant: the lock is not given back.
LeakLock(h) == pc[h] = "inside" /\ Goto(h, "done") /\ UNCHANGED <<count, expected>>

\* ~SharedLock: fetch_sub.
Release(h) == /\ pc[h] = "inside"
              /\ count' = count - 1
              /\ Goto(h, "done")
              /\ UNCHANGED expected

-----------------------------------------------------------------------------
(* stop *)

CallStop(s) == /\ pc[s] = "running"
               /\ Goto(s, "stopping")
               /\ UNCHANGED <<count, expected>>

\* Mutant: stop stores -1 and does not wait.
StoreStop(s) == /\ pc[s] = "stopping" /\ count >= 0
                /\ count' = -1
                /\ Goto(s, "returned")
                /\ UNCHANGED expected

\* compare_exchange_weak(0, -1) succeeds.
CasStop(s) == /\ pc[s] = "stopping" /\ count = 0
              /\ count' = -1
              /\ Goto(s, "returned")
              /\ UNCHANGED expected

\* It fails on a negative count: somebody else has stopped the runner.  Any
\* other failure leads to another try.
FindStopped(s) == /\ pc[s] = "stopping" /\ count < 0
                  /\ Goto(s, "returned")
                  /\ UNCHANGED <<count, expected>>

Handler(h) == LoadCount(h) \/ GiveUp(h) \/ CasEnter(h) \/ CasRetry(h) \/ Release(h)
Stopper(s) == CallStop(s) \/ CasStop(s) \/ FindStopped(s)

Next == (\E h \in Handlers : Handler(h)) \/ (\E s \in Stoppers : Stopper(s))

Spec == Init /\ [][Next]_vars

\* A handler that started goes on and ends.  A spurious failure changes nothing, so
\* weak fairness says that a compare-exchange does not fail so for ever.  Nobody has to call stop, and no handler has to start.
Fairness ==
  /\ \A h \in Handlers :
       WF_vars(GiveUp(h) \/ CasEnter(h) \/ CasRetry(h) \/ Release(h))
  /\ \A s \in Stoppers : WF_vars(CasStop(s) \/ FindStopped(s))

FairSpec == Spec /\ Fairness
-----------------------------------------------------------------------------
(* Properties *)

TypeOK == /\ count \in Nat \cup {-1}
          /\ pc \in [Handlers \cup Stoppers -> HandlerPc \cup StopperPc]
          /\ \A h \in Handlers : pc[h] \in HandlerPc
          /\ \A s \in Stoppers : pc[s] \in StopperPc
          /\ expected \in [Handlers -> Int]

\* When stop has returned, to any of its callers, no handler is inside: the
\* destructor may free what handlers use ("Blocks until all shared locks are
\* released, then prevents future shared locks").
StopExcludes == (\E s \in Stoppers : pc[s] = "returned") => Inside = {}

\* Until it is stopped, count is the number of SharedLocks alive, whatever stale
\* values the compare-exchange loops hold; -1 means none is.
CountMatches == /\ IsFiniteSet(Inside)
                /\ count = Cardinality(Inside) \/ (count = -1 /\ Inside = {})

\* The runner is the abstract gate: an invocation is inside, over, or has not
\* got anywhere yet.
Gate == INSTANCE HandlerGate
          WITH open <- count >= 0,
               inside <- Inside,
               over <- {h \in Handlers : pc[h] \in {"done", "skipped"}}
GateSpec == Gate!Spec

\* A call of stop returns, since the invocations that can delay it are finitely
\* many and each one ends.
StopReturns == \A s \in Stoppers : pc[s] = "stopping" ~> pc[s] = "returned"

\* An invocation that began ends, inside or turned away: no failing
\* compare-exchange holds it in continue_lock.
HandlersEnd == \A h \in Handlers : pc[h] = "trying" ~> pc[h] \in {"done", "skipped"}

\* Neither loop holds its caller: stop returns and invocations end, each against the other.
CallsReturn == StopReturns /\ HandlersEnd
==============================================================================
