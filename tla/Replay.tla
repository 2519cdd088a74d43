------------------------------- MODULE Replay -------------------------------
(***************************************************************************)
(* The replay runner (replay/runner.py) over one phase of one run, across  *)
(* the invocations that an operator may need to complete it.               *)
(*                                                                         *)
(* replay() creates one asyncio task per call and consumes them with       *)
(* as_completed.  A step of the model is what a task does between two      *)
(* suspension points: nothing in the code awaits while it holds one of the *)
(* asyncio locks, so reserving, settling and counting are atomic with the  *)
(* code around them.  A provider call runs in a thread, which cancelling   *)
(* the task does not stop: an answer that arrives after that is paid for   *)
(* and dropped.  So is the answer to an attempt that the client gave up on *)
(* as a timeout.  A crash loses the process and keeps the call table.      *)
(***************************************************************************)
EXTENDS CallStore, FiniteSets

CONSTANTS
  Concurrency,     \* ReplayConfig.concurrency
  MaxAttempts,     \* ReplayConfig.max_attempts
  Capped,          \* whether ReplayConfig.max_cost_usd is set
  MaxCost,         \* ... and its value, in units of cost
  Estimate,        \* estimate_call_cost_usd before a call
  Prices,          \* what an answer may turn out to cost
  LatePrices,      \* what an attempt that timed out may be charged all the same
  Overrun,         \* how far a price may exceed the estimate
  InterruptAfter,  \* interrupt_after_dispatches; 0 stands for None
  MaxInvocations   \* bound: times the command is started

ASSUME CallsAssumption == IsFiniteSet(Calls)
ASSUME ConfigAssumption ==
  /\ Concurrency \in Nat \ {0}
  /\ MaxAttempts \in Nat \ {0}
  /\ Capped \in BOOLEAN
  /\ MaxCost \in Nat
  /\ InterruptAfter \in Nat
  /\ MaxInvocations \in Nat
ASSUME PriceAssumption ==
  /\ Estimate \in Nat
  /\ Overrun \in Nat
  /\ Prices \subseteq Nat
  /\ LatePrices \subseteq Nat
  /\ \A p \in Prices \cup LatePrices : p <= Estimate + Overrun

VARIABLES
  pc,           \* where the task of each call is suspended, or how it ended
  attempt,      \* the attempt a task is making
  joined,       \* the tasks that the as_completed loop has awaited
  spent,        \* BudgetTracker.spent_usd
  reserved,     \* BudgetTracker.reserved_usd
  haltedReason, \* result.halted_reason
  haltExc,      \* halt_exception
  dispatched,   \* dispatch_count
  main,         \* the replay() coroutine itself
  invocations,  \* times the command was started
  billed        \* history: what the provider charged for each call

taskVars == <<pc, attempt, joined>>
budgetVars == <<spent, reserved>>
haltVars == <<haltedReason, haltExc, dispatched>>
runVars == <<main, invocations>>
vars == <<storeVars, taskVars, budgetVars, haltVars, runVars, billed>>

-----------------------------------------------------------------------------
Suspended == {"new", "queued", "limits", "calling", "backoff"}
Ended == {"returned", "raised", "failed", "cancelled"}
TasksRun == {"running", "failing"}     \* nobody has cancelled the tasks
Cancelling == {"stopping", "unwinding"}
MainLive == TasksRun \cup Cancelling

TypeOK ==
  /\ StoreTypeOK
  /\ pc \in [Calls -> Suspended \cup Ended]
  /\ attempt \in [Calls -> 0..MaxAttempts]
  /\ joined \subseteq Calls
  /\ spent \in Nat
  /\ reserved \in Nat
  /\ haltedReason \in {"none", "budget"}
  /\ haltExc \in {"none", "abort", "interrupt"}
  /\ dispatched \in Nat
  /\ main \in {"idle", "returned", "raised"} \cup MainLive
  /\ invocations \in Nat
  /\ billed \in [Calls -> Nat]

Halted == haltedReason # "none" \/ haltExc # "none"   \* halt_event.is_set()
Holding == {c \in Calls : pc[c] \in {"limits", "calling", "backoff"}}
PermitFree == Cardinality(Holding) < Concurrency   \* the semaphore
\* Mutant: what the calls in flight will cost is forgotten.
OverCapSpentOnly(amount) == Capped /\ spent + amount > MaxCost
OverCap(amount) == Capped /\ spent + reserved + amount > MaxCost
Fatal(exc) == IF haltExc = "none" THEN exc ELSE haltExc

-----------------------------------------------------------------------------
(* What a process starts from, and what a dead one leaves behind. *)

FreshProcess ==
  /\ pc' = [c \in Calls |-> "new"]
  /\ attempt' = [c \in Calls |-> 0]
  /\ joined' = {}
  /\ reserved' = 0
  /\ haltedReason' = "none"
  /\ haltExc' = "none"
  /\ dispatched' = 0

Init ==
  /\ StoreInit
  /\ pc = [c \in Calls |-> "new"]
  /\ attempt = [c \in Calls |-> 0]
  /\ joined = {}
  /\ spent = 0
  /\ reserved = 0
  /\ haltedReason = "none"
  /\ haltExc = "none"
  /\ dispatched = 0
  /\ main = "idle"
  /\ invocations = 0
  /\ billed = [c \in Calls |-> 0]

\* Mutant: the tracker starts from nothing.
BeginFresh ==
  /\ main \notin MainLive
  /\ invocations < MaxInvocations
  /\ FreshProcess
  /\ spent' = 0
  /\ main' = "running"
  /\ invocations' = invocations + 1
  /\ UNCHANGED <<storeVars, billed>>

\* replay() up to the creation of the tasks; the tracker starts from the table.
Begin ==
  /\ main \notin MainLive
  /\ invocations < MaxInvocations
  /\ FreshProcess
  /\ spent' = TotalCost
  /\ main' = "running"
  /\ invocations' = invocations + 1
  /\ UNCHANGED <<storeVars, billed>>

-----------------------------------------------------------------------------
(* The steps of run_one for call c. *)

Running(c, at) == main \in TasksRun /\ pc[c] = at
MoveTo(c, at) == pc' = [pc EXCEPT ![c] = at]

\* Mutant: the call table is not consulted.
StartUncached(c) ==
  /\ Running(c, "new")
  /\ MoveTo(c, IF Halted THEN "returned" ELSE "queued")
  /\ UNCHANGED <<storeVars, attempt, joined, budgetVars, haltVars, runVars, billed>>

\* From the start to the semaphore; a done row ends the task as a cache hit.
\* Building the request or reading the table may raise.
Start(c) ==
  /\ Running(c, "new")
  /\ \/ MoveTo(c, IF Halted \/ IsDone(c) THEN "returned" ELSE "queued")
     \/ ~Halted /\ MoveTo(c, "failed")
  /\ UNCHANGED <<storeVars, attempt, joined, budgetVars, haltVars, runVars, billed>>

\* Mutant: halt_event is not checked again behind the semaphore.
ReserveHalted(c) ==
  /\ Running(c, "queued")
  /\ PermitFree
  /\ IF OverCap(Estimate)
       THEN haltedReason' = "budget" /\ MoveTo(c, "returned") /\ UNCHANGED reserved
       ELSE /\ reserved' = reserved + Estimate
            /\ MoveTo(c, "limits")
            /\ UNCHANGED haltedReason
  /\ UNCHANGED <<storeVars, attempt, joined, spent, haltExc, dispatched, runVars, billed>>

\* Mutant: a call over the budget is skipped and nobody is told.
ReserveQuiet(c) ==
  /\ Running(c, "queued")
  /\ PermitFree
  /\ IF Halted \/ OverCap(Estimate)
       THEN MoveTo(c, "returned") /\ UNCHANGED reserved
       ELSE reserved' = reserved + Estimate /\ MoveTo(c, "limits")
  /\ UNCHANGED <<storeVars, attempt, joined, spent, haltVars, runVars, billed>>

\* From the semaphore to the rate limiter.
Reserve(c) ==
  /\ Running(c, "queued")
  /\ PermitFree
  /\ \/ /\ Halted
        /\ MoveTo(c, "returned")
        /\ UNCHANGED <<reserved, haltedReason>>
     \/ /\ ~Halted /\ OverCap(Estimate)
        /\ haltedReason' = "budget"
        /\ MoveTo(c, "returned")
        /\ UNCHANGED reserved
     \/ /\ ~Halted /\ ~OverCap(Estimate)
        /\ reserved' = reserved + Estimate
        /\ MoveTo(c, "limits")
        /\ UNCHANGED haltedReason
  /\ UNCHANGED <<storeVars, attempt, joined, spent, haltExc, dispatched, runVars, billed>>

\* The rate limiter lets the call pass; no one looks at halt_event again.
Dispatch(c) ==
  /\ Running(c, "limits") \/ Running(c, "backoff")
  /\ MoveTo(c, "calling")
  /\ attempt' = [attempt EXCEPT ![c] = @ + 1]
  /\ UNCHANGED <<storeVars, joined, budgetVars, haltVars, runVars, billed>>

\* The finally clause of run_one.
Settle(c, actual) ==
  /\ reserved' = IF reserved > Estimate THEN reserved - Estimate ELSE 0
  /\ spent' = spent + actual
  /\ attempt' = [attempt EXCEPT ![c] = 0]

Charge(c, price) == billed' = [billed EXCEPT ![c] = @ + price]

\* Mutant: one attempt too many.
RetryOffByOne(c, price) ==
  /\ Running(c, "calling")
  /\ attempt[c] <= MaxAttempts
  /\ MoveTo(c, "backoff")
  /\ Charge(c, price)
  /\ UNCHANGED <<storeVars, attempt, joined, budgetVars, haltVars, runVars>>

\* Mutant: an attempt that timed out is not counted.
RetryUncounted(c, price) ==
  /\ Running(c, "calling")
  /\ attempt[c] < MaxAttempts
  /\ MoveTo(c, "backoff")
  /\ Charge(c, price)
  /\ attempt' = IF price > 0 THEN [attempt EXCEPT ![c] = @ - 1] ELSE attempt
  /\ UNCHANGED <<storeVars, joined, budgetVars, haltVars, runVars>>

\* A rate limit or transient error with attempts left: sleep, then try again.
\* An attempt that timed out may have been answered, and charged (price).
Retry(c, price) ==
  /\ Running(c, "calling")
  /\ attempt[c] < MaxAttempts
  /\ MoveTo(c, "backoff")
  /\ Charge(c, price)
  /\ UNCHANGED <<storeVars, attempt, joined, budgetVars, haltVars, runVars>>

\* An answer: bank it, count it, and raise if this was the last one allowed.
Answer(c, price) ==
  /\ Running(c, "calling")
  /\ Charge(c, price)
  /\ WriteDone(c, price)
  /\ Settle(c, price)
  /\ dispatched' = dispatched + 1
  /\ IF InterruptAfter > 0 /\ dispatched' >= InterruptAfter
       THEN MoveTo(c, "raised") /\ haltExc' = Fatal("interrupt")
       ELSE MoveTo(c, "returned") /\ UNCHANGED haltExc
  /\ UNCHANGED <<joined, haltedReason, runVars>>

\* Mutant: the error path does not settle.
RejectUnsettled(c, price) ==
  /\ Running(c, "calling")
  /\ WriteError(c)
  /\ Charge(c, price)
  /\ MoveTo(c, "returned")
  /\ UNCHANGED <<attempt, joined, budgetVars, haltVars, runVars>>

\* A call-level error, at once or after the last attempt, which may have timed
\* out and been charged.
Reject(c, price) ==
  /\ Running(c, "calling")
  /\ WriteError(c)
  /\ Charge(c, price)
  /\ Settle(c, 0)
  /\ MoveTo(c, "returned")
  /\ UNCHANGED <<joined, haltVars, runVars>>

\* A run-level error (billing, authentication, a retired model).
Abort(c) ==
  /\ Running(c, "calling")
  /\ haltExc' = Fatal("abort")
  /\ Settle(c, 0)
  /\ MoveTo(c, "raised")
  /\ UNCHANGED <<storeVars, joined, haltedReason, dispatched, runVars, billed>>

\* Any other exception, a failed write of the answer (price) or of the error
\* (0) among them: run_one handles none of them.
Fail(c, price) ==
  /\ Running(c, "calling")
  /\ Charge(c, price)
  /\ Settle(c, price)
  /\ MoveTo(c, "failed")
  /\ UNCHANGED <<storeVars, joined, haltVars, runVars>>

TaskStep(c) ==
  \/ Start(c) \/ Reserve(c) \/ Dispatch(c) \/ Abort(c)
  \/ \E price \in LatePrices \cup {0} : Retry(c, price) \/ Reject(c, price)
  \/ \E price \in Prices : Answer(c, price)
  \/ \E price \in Prices \cup {0} : Fail(c, price)

-----------------------------------------------------------------------------
(* The steps of the replay() coroutine. *)

\* as_completed yields an ended task: its exception is raised here, and the
\* loop is left as soon as the run is halted, with every task that is not done
\* cancelled in the same step.  An exception that replay() does not expect
\* leaves it at once, and the other tasks go on.
Join(c) ==
  /\ main = "running"
  /\ pc[c] \in Ended
  /\ c \notin joined
  /\ joined' = joined \cup {c}
  /\ main' = IF pc[c] = "failed" THEN "failing"
             ELSE IF Halted THEN "stopping" ELSE "running"
  /\ UNCHANGED <<storeVars, pc, attempt, budgetVars, haltVars, invocations, billed>>

\* asyncio.run, which every caller of replay() is in, cancels what is left of
\* the tasks before it lets the exception through.
Teardown ==
  /\ main = "failing"
  /\ main' = "unwinding"
  /\ UNCHANGED <<storeVars, taskVars, budgetVars, haltVars, invocations, billed>>

\* Mutant: the rate limiter swallows the cancellation.
UnwindNotLimits(c) ==
  /\ main \in Cancelling
  /\ pc[c] \in Suspended \ {"limits"}
  /\ MoveTo(c, "cancelled")
  /\ IF pc[c] \in {"calling", "backoff"}
       THEN Settle(c, 0)
       ELSE UNCHANGED <<budgetVars, attempt>>
  /\ UNCHANGED <<storeVars, joined, haltVars, runVars, billed>>

\* CancelledError at the point where a task is suspended.  The reservation of
\* a task in the rate limiter is not settled, and a call in a thread may be
\* answered and charged although nobody waits for it.
Unwind(c) ==
  /\ main \in Cancelling
  /\ pc[c] \in Suspended
  /\ MoveTo(c, "cancelled")
  /\ IF pc[c] \in {"calling", "backoff"}
       THEN Settle(c, 0)
       ELSE UNCHANGED <<budgetVars, attempt>>
  /\ \/ UNCHANGED billed
     \/ pc[c] = "calling" /\ \E price \in Prices : Charge(c, price)
  /\ UNCHANGED <<storeVars, joined, haltVars, runVars>>

\* Mutant: only an exception that the loop itself has seen is raised.
FinishUnlessSeen ==
  /\ main \in MainLive \ {"failing"}
  /\ \A c \in Calls : pc[c] \in Ended
  /\ main = "running" => joined = Calls
  /\ main' = IF main = "unwinding" \/ \E c \in joined : pc[c] = "raised"
               THEN "raised" ELSE "returned"
  /\ UNCHANGED <<storeVars, taskVars, budgetVars, haltVars, invocations, billed>>

\* The gather is over: a fatal exception is raised, a budget halt returns.
Finish ==
  /\ main \in MainLive \ {"failing"}
  /\ \A c \in Calls : pc[c] \in Ended
  /\ main = "running" => joined = Calls
  /\ main' = IF main = "unwinding" \/ haltExc # "none" THEN "raised" ELSE "returned"
  /\ UNCHANGED <<storeVars, taskVars, budgetVars, haltVars, invocations, billed>>

MainStep == (\E c \in Calls : Join(c) \/ Unwind(c)) \/ Teardown \/ Finish

\* Mutant: rows are committed at the end, so a crash rolls them back.
CrashRollsBack ==
  /\ main \in MainLive
  /\ FreshProcess
  /\ spent' = 0
  /\ main' = "idle"
  /\ rows' = [c \in Calls |-> [status |-> "absent", cost |-> 0]]
  /\ UNCHANGED <<billed, invocations>>

\* The process dies; calls in flight may have been answered and charged.
Crash ==
  /\ main \in MainLive
  /\ FreshProcess
  /\ spent' = 0
  /\ main' = "idle"
  /\ \E paid \in [Calls -> Prices \cup {0}] :
       /\ \A c \in Calls : pc[c] # "calling" => paid[c] = 0
       /\ billed' = [c \in Calls |-> billed[c] + paid[c]]
  /\ UNCHANGED <<storeVars, invocations>>

Next ==
  \/ Begin
  \/ \E c \in Calls : TaskStep(c)
  \/ MainStep
  \/ Crash

Spec == Init /\ [][Next]_vars

\* The event loop runs every task that is ready, the rate limiter refills,
\* and the provider client returns or raises: no step is put off for ever.
\* Starting the command and crashing are left to the environment.
Fairness ==
  /\ \A c \in Calls : WF_vars(TaskStep(c))
  /\ WF_vars(MainStep)

FairSpec == Spec /\ Fairness

-----------------------------------------------------------------------------
(* What the runner must guarantee. *)

\* The recorded spend of the phase exceeds the cap by at most one price
\* overrun per permit, however often the run is interrupted and resumed:
\* reserve() counts what every call in flight is expected to cost.
SpendBounded == Capped => TotalCost <= MaxCost + Concurrency * Overrun

\* While the tasks run, exactly the calls behind the semaphore are reserved:
\* no path out of the call forgets to settle, and none settles twice.
ReservedMatchesHolding ==
  main \in TasksRun => reserved = Estimate * Cardinality(Holding)

\* A provider-fatal stage never "completes": if any task raised the abort or
\* the interrupt, replay() raises, whichever task the loop saw first and
\* whatever the budget did meanwhile (the note above the last raise).
FatalNeverReturns == main = "returned" => \A c \in Calls : pc[c] # "raised"

\* A return without halted_reason means that every call was carried to a row:
\* no task was skipped, cancelled or lost to an exception on the way.
CleanReturnCovers ==
  main = "returned" /\ haltedReason = "none" =>
    \A c \in Calls : rows[c].status # "absent" /\ pc[c] = "returned"

\* The figure that replay() reports and that the cap is tested against is what
\* the table adds up to: no answer is counted twice or left out by a retry, a
\* rejection, a cancellation or the resume that starts from the total of the
\* rows.  A write that raised is the one exception, until the next invocation.
SpentMatchesTable ==
  main # "idle" /\ (\A c \in Calls : pc[c] # "failed") => spent = TotalCost

\* Whatever the table says, the provider is never charged for a call more than
\* one full series of attempts per invocation: not by a crash between the
\* charge and the row, a cancelled thread that is answered, or an attempt that
\* timed out and was charged, none of which leaves a trace of its cost.
BillBounded ==
  \A c \in Calls : billed[c] <= (Estimate + Overrun) * (MaxAttempts * invocations)

\* A banked answer is final and is never paid for again: no later invocation,
\* retry or late error replaces its row or calls the provider for it.
BankedFinal ==
  [][\A c \in Calls : IsDone(c) => rows'[c] = rows[c] /\ billed'[c] = billed[c]]_vars

\* Once the run is halted no further call takes a reservation (the calls that
\* are already behind the semaphore may still be dispatched).
HaltStopsReserving == [][Halted => Holding' \subseteq Holding]_vars

\* The call table keeps the promise of the checkpoint specification.
Table == INSTANCE Checkpoint WITH Amounts <- Prices
CheckpointKept == Table!Spec

\* Every invocation comes to an end: no retry, halt or cancellation leaves
\* replay() waiting for a task that will not finish.
InvocationEnds == main = "running" ~> main \notin MainLive

\* A call that was answered, charged and dropped is charged again: stated as
\* the acceptance test of the resume feature words it, "zero duplicate spend".
NoDuplicateSpend == \A c \in Calls : IsDone(c) => billed[c] = rows[c].cost

=============================================================================
