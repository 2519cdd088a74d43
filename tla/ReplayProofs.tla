---------------------------- MODULE ReplayProofs ----------------------------
(***************************************************************************)
(* Proofs about the replay runner for any set of calls, any concurrency,   *)
(* any cap and any number of interrupted invocations.                      *)
(***************************************************************************)
EXTENDS MCReplay, FoldLemmas

\* A task that may still write a row works on a call that is not done, and
\* the attempts it has left are the ones its suspension point leaves it.
FreshInv ==
  \A c \in Calls :
    /\ pc[c] \in {"queued", "limits", "calling", "backoff"} => ~IsDone(c)
    /\ pc[c] \in {"new", "queued", "limits"} => attempt[c] = 0
    /\ pc[c] = "backoff" => attempt[c] < MaxAttempts

\* A new process starts from well-typed values.
LEMMA FreshTypes ==
  ASSUME FreshProcess
  PROVE  /\ pc' \in [Calls -> Suspended \cup Ended]
         /\ attempt' \in [Calls -> 0..MaxAttempts]
         /\ joined' \subseteq Calls
         /\ reserved' \in Nat
         /\ haltedReason' \in {"none", "budget"}
         /\ haltExc' \in {"none", "abort", "interrupt"}
         /\ dispatched' \in Nat
BY ConfigAssumption DEF FreshProcess, Suspended, Ended

\* Whatever the calls in flight were charged when the process died, the
\* history stays well typed.
LEMMA ChargesTyped ==
  ASSUME NEW paid \in [Calls -> Prices \cup {0}], billed \in [Calls -> Nat]
  PROVE  [c \in Calls |-> billed[c] + paid[c]] \in [Calls -> Nat]
<1>1. Prices \cup {0} \subseteq Nat
  BY PriceAssumption
<1>2. \A c \in Calls : billed[c] \in Nat /\ paid[c] \in Nat
  BY <1>1
<1>3. QED
  BY <1>2

\* What each call accounts for in total_cost().
Booked == [c \in Calls |-> BookedCost(c)]

\* The total is a number, and depends on the rows only.
LEMMA TotalType ==
  ASSUME StoreTypeOK
  PROVE  TotalCost \in Nat /\ (UNCHANGED storeVars => TotalCost' = TotalCost)
<1>1. Booked \in [Calls -> Nat]
  BY DEF Booked, BookedCost, StoreTypeOK, Row
<1>2. SumFunction(Booked) \in Nat
  BY <1>1, SumType, CallsAssumption
<1>3. UNCHANGED storeVars => TotalCost' = TotalCost
  BY DEF TotalCost, BookedCost, IsDone, storeVars
<1>4. QED
  BY <1>2, <1>3 DEF TotalCost, Booked

\* Every variable keeps its type, and no task in flight works on a done row.
THEOREM TypeCorrect == Spec => [](TypeOK /\ FreshInv)
<1>1. Init => TypeOK /\ FreshInv
  <2> USE ConfigAssumption DEF Init
  <2>1. Init => StoreTypeOK
    BY DEF StoreInit, StoreTypeOK, Row
  <2>2. Init => TypeOK
    BY <2>1 DEF TypeOK, Suspended, Ended
  <2>3. Init => FreshInv
    BY DEF FreshInv
  <2>4. QED
    BY <2>2, <2>3
<1>2. TypeOK /\ FreshInv /\ [Next]_vars => TypeOK' /\ FreshInv'
  <2> SUFFICES ASSUME TypeOK, FreshInv, [Next]_vars
               PROVE  TypeOK' /\ FreshInv'
    OBVIOUS
  <2> USE DEF TypeOK, StoreTypeOK, Row, Suspended, Ended, MainLive, TasksRun, Cancelling
  <2> USE ConfigAssumption, PriceAssumption
  <2>1. CASE Begin
    <3>1. TypeOK'
      BY <2>1, TotalType DEF Begin, FreshProcess, storeVars
    <3>2. FreshInv'
      BY <2>1 DEF Begin, FreshProcess, FreshInv
    <3>3. QED
      BY <3>1, <3>2
  <2>2. ASSUME NEW c \in Calls, Start(c) PROVE TypeOK' /\ FreshInv'
    BY <2>2 DEF Start, Running, MoveTo, FreshInv, storeVars, budgetVars, haltVars, runVars, IsDone
  <2>3. ASSUME NEW c \in Calls, Reserve(c) PROVE TypeOK' /\ FreshInv'
    <3>1. pc' \in [Calls -> Suspended \cup Ended]
      BY <2>3 DEF Reserve, MoveTo
    <3>2. reserved' \in Nat /\ haltedReason' \in {"none", "budget"}
      BY <2>3 DEF Reserve
    <3>3. TypeOK'
      BY <2>3, <3>1, <3>2 DEF Reserve, storeVars, runVars
    <3>4. pc'[c] \in {"limits", "returned"} /\ \A d \in Calls \ {c} : pc'[d] = pc[d]
      BY <2>3 DEF Reserve, MoveTo
    <3>5. FreshInv'
      BY <2>3, <3>4 DEF Reserve, Running, FreshInv, storeVars, IsDone
    <3>6. QED
      BY <3>3, <3>5
  <2>4. ASSUME NEW c \in Calls, Dispatch(c) PROVE TypeOK' /\ FreshInv'
    BY <2>4 DEF Dispatch, Running, MoveTo, FreshInv, storeVars, budgetVars, haltVars, runVars, IsDone
  <2>5. ASSUME NEW c \in Calls, NEW price \in LatePrices \cup {0}, Retry(c, price)
        PROVE  TypeOK' /\ FreshInv'
    BY <2>5 DEF Retry, Running, MoveTo, Charge, FreshInv, storeVars, budgetVars, haltVars,
                runVars, IsDone
  <2>6. ASSUME NEW c \in Calls, NEW price \in LatePrices \cup {0}, Reject(c, price)
        PROVE  TypeOK' /\ FreshInv'
    BY <2>6 DEF Reject, Running, MoveTo, WriteError, PutRow, Charge, Settle,
                FreshInv, haltVars, runVars, IsDone
  <2>7. ASSUME NEW c \in Calls, Abort(c) PROVE TypeOK' /\ FreshInv'
    BY <2>7 DEF Abort, Running, MoveTo, Settle, Fatal, FreshInv, storeVars, runVars, IsDone
  <2>8. ASSUME NEW c \in Calls, NEW price \in Prices, Answer(c, price)
        PROVE  TypeOK' /\ FreshInv'
    BY <2>8 DEF Answer, Running, MoveTo, WriteDone, PutRow, Settle, Charge,
                Fatal, FreshInv, runVars, IsDone
  <2>9. ASSUME NEW c \in Calls, NEW price \in Prices \cup {0}, Fail(c, price)
        PROVE  TypeOK' /\ FreshInv'
    BY <2>9 DEF Fail, Running, MoveTo, Settle, Charge, FreshInv, storeVars, haltVars,
                runVars, IsDone
  <2>10. ASSUME NEW c \in Calls, Join(c) PROVE TypeOK' /\ FreshInv'
    BY <2>10 DEF Join, FreshInv, storeVars, budgetVars, haltVars, IsDone
  <2>11. ASSUME NEW c \in Calls, Unwind(c) PROVE TypeOK' /\ FreshInv'
    BY <2>11 DEF Unwind, MoveTo, Settle, Charge, FreshInv, storeVars, budgetVars, haltVars,
                 runVars, IsDone
  <2>12. CASE Finish
    BY <2>12 DEF Finish, FreshInv, storeVars, taskVars, budgetVars, haltVars, IsDone
  <2>13. CASE Crash
    <3>1. PICK paid \in [Calls -> Prices \cup {0}] :
                 billed' = [c \in Calls |-> billed[c] + paid[c]]
      BY <2>13 DEF Crash
    <3>2. billed' \in [Calls -> Nat]
      BY <3>1, ChargesTyped
    <3>3. TypeOK'
      <4>1. FreshProcess /\ spent' = 0 /\ main' = "idle" /\ UNCHANGED <<storeVars, invocations>>
        BY <2>13 DEF Crash
      <4>2. QED
        BY <4>1, <3>2, FreshTypes DEF storeVars
    <3>4. FreshInv'
      BY <2>13 DEF Crash, FreshProcess, FreshInv
    <3>5. QED
      BY <3>3, <3>4
  <2>14. CASE UNCHANGED vars
    BY <2>14 DEF vars, storeVars, taskVars, budgetVars, haltVars, runVars, FreshInv, IsDone
  <2>15. CASE Teardown
    BY <2>15 DEF Teardown, FreshInv, storeVars, taskVars, budgetVars, haltVars, IsDone
  <2>16. QED
    BY <2>1, <2>2, <2>3, <2>4, <2>5, <2>6, <2>7, <2>8, <2>9, <2>10, <2>11, <2>12, <2>13,
       <2>14, <2>15 DEF Next, TaskStep, MainStep
<1>3. QED
  BY <1>1, <1>2, PTL DEF Spec

-----------------------------------------------------------------------------
(* The rows and what they add up to. *)

\* Only an answer and a rejection write a row, and only one that is not done.
LEMMA RowWrites ==
  ASSUME TypeOK, FreshInv, [Next]_vars
  PROVE  \/ UNCHANGED storeVars
         \/ \E c \in Calls, price \in Prices : ~IsDone(c) /\ WriteDone(c, price)
         \/ \E c \in Calls : ~IsDone(c) /\ WriteError(c)
<1>1. ASSUME NEW c \in Calls, NEW price \in Prices, Answer(c, price)
      PROVE  ~IsDone(c) /\ WriteDone(c, price)
  BY <1>1 DEF Answer, Running, FreshInv
<1>2. ASSUME NEW c \in Calls, NEW price \in LatePrices \cup {0}, Reject(c, price)
      PROVE  ~IsDone(c) /\ WriteError(c)
  BY <1>2 DEF Reject, Running, FreshInv
<1>3. ASSUME NEW c \in Calls,
             \/ Start(c) \/ Reserve(c) \/ Dispatch(c) \/ Abort(c)
             \/ \E price \in LatePrices \cup {0} : Retry(c, price)
             \/ \E price \in Prices \cup {0} : Fail(c, price)
      PROVE  UNCHANGED storeVars
  BY <1>3 DEF Start, Reserve, Dispatch, Retry, Abort, Fail
<1>4. ASSUME Begin \/ MainStep \/ Crash PROVE UNCHANGED storeVars
  BY <1>4 DEF Begin, MainStep, Join, Unwind, Teardown, Finish, Crash
<1>5. UNCHANGED vars => UNCHANGED storeVars
  BY DEF vars
<1>6. QED
  BY <1>1, <1>2, <1>3, <1>4, <1>5 DEF Next, TaskStep

\* A table without answers adds up to nothing.
LEMMA TotalOfNothing ==
  ASSUME StoreTypeOK, \A c \in Calls : ~IsDone(c)
  PROVE  TotalCost = 0
<1> DEFINE none == [c \in {} |-> 0]
<1>1. Booked \in [Calls -> Nat] /\ \A c \in Calls : Booked[c] = 0
  BY DEF Booked, BookedCost
<1>2. none \in [{} -> Nat] /\ SumFunction(none) = 0
  <2>1. IsFiniteSet({})
    BY FS_EmptySet
  <2>2. QED
    BY <2>1, SumType
<1>3. SumFunction(Booked) = SumFunction(none)
  <2>1. IsSupport(Calls, Booked, {}, none)
    BY <1>1 DEF IsSupport
  <2>2. QED
    BY <2>1, SumOnSupport, CallsAssumption
<1>4. QED
  BY <1>2, <1>3 DEF TotalCost, Booked

\* Replacing the row of a call that is not done adds what the new row costs.
LEMMA RowAddsItsCost ==
  ASSUME StoreTypeOK, StoreTypeOK', NEW c \in Calls, ~IsDone(c),
         NEW row \in Row, row.status = "done" \/ row.cost = 0, PutRow(c, row)
  PROVE  TotalCost' = TotalCost + row.cost
<1>1. /\ Booked \in [Calls -> Nat] /\ Booked' \in [Calls -> Nat]
      /\ \A d \in Calls \ {c} : Booked[d] = Booked'[d]
      /\ Booked[c] = 0 /\ Booked'[c] = row.cost
  BY DEF Booked, BookedCost, StoreTypeOK, Row, PutRow, IsDone
<1>2. PICK n \in Nat : n = SumFunction(Booked)
  BY <1>1, SumType, CallsAssumption
<1>3. PICK m \in Nat : m = SumFunction(Booked')
  BY <1>1, SumType, CallsAssumption
<1>4. SumFunction(Booked') + Booked[c] = SumFunction(Booked) + Booked'[c]
  BY ONLY <1>1, SumPoint, CallsAssumption, c \in Calls
<1>5. row.cost \in Nat
  BY DEF Row
<1>6. m + 0 = n + row.cost
  BY <1>1, <1>2, <1>3, <1>4
<1>7. TotalCost = n /\ TotalCost' = m
  BY <1>2, <1>3 DEF TotalCost, Booked
<1>8. QED
  BY <1>2, <1>3, <1>5, <1>6, <1>7

\* An answer adds its price to the total, a rejection adds nothing.
LEMMA WritesAdd ==
  ASSUME TypeOK, TypeOK', NEW c \in Calls, ~IsDone(c)
  PROVE  /\ \A price \in Prices : WriteDone(c, price) => TotalCost' = TotalCost + price
         /\ WriteError(c) => TotalCost' = TotalCost
<1>1. StoreTypeOK /\ StoreTypeOK'
  BY DEF TypeOK
<1>2. ASSUME NEW price \in Prices, WriteDone(c, price) PROVE TotalCost' = TotalCost + price
  <2> DEFINE row == [status |-> "done", cost |-> price]
  <2>1. row \in Row /\ row.status = "done" /\ row.cost = price /\ PutRow(c, row)
    BY <1>2, PriceAssumption DEF Row, WriteDone
  <2> HIDE DEF row
  <2>2. TotalCost' = TotalCost + row.cost
    BY <1>1, <2>1, RowAddsItsCost
  <2>3. QED
    BY <2>1, <2>2
<1>3. ASSUME WriteError(c) PROVE TotalCost' = TotalCost
  <2> DEFINE row == [status |-> "error", cost |-> 0]
  <2>1. row \in Row /\ row.cost = 0 /\ PutRow(c, row)
    BY <1>3 DEF Row, WriteError
  <2> HIDE DEF row
  <2>2. TotalCost' = TotalCost + row.cost
    BY <1>1, <2>1, RowAddsItsCost
  <2>3. QED
    BY <1>1, <2>1, <2>2, TotalType
<1>4. QED
  BY <1>2, <1>3

-----------------------------------------------------------------------------
(* The budget. *)

HoldingAt == {"limits", "calling", "backoff"}

\* What the spend already committed to can still grow to.  Each permit in use
\* stands for one reservation and may cost one overrun more than reserved.
BudgetInv ==
  /\ Cardinality(Holding) <= Concurrency
  /\ reserved >= Estimate * Cardinality(Holding)
  /\ main \in TasksRun => reserved = Estimate * Cardinality(Holding)
  /\ main \in MainLive => TotalCost <= spent
  /\ Capped => spent + reserved + Overrun * Cardinality(Holding)
                 <= MaxCost + Overrun * Concurrency
  /\ Capped => TotalCost <= MaxCost + Overrun * Concurrency

\* Products of naturals, as the budget uses them.
LEMMA Products ==
  ASSUME NEW a \in Nat, NEW n \in Nat
  PROVE  a * n \in Nat /\ a * (n + 1) = a * n + a /\ a * 0 = 0
OBVIOUS

\* More permits in use leave more slack.
LEMMA ProductMonotone ==
  ASSUME NEW a \in Nat, NEW m \in Nat, NEW n \in Nat, m <= n
  PROVE  a * m <= a * n
<1> DEFINE d == n - m
<1>1. d \in Nat /\ n = m + d
  OBVIOUS
<1>2. a * d \in Nat
  BY <1>1, Products
<1> HIDE DEF d
<1>3. a * n = a * m + a * d
  BY <1>1
<1>4. QED
  BY <1>2, <1>3

\* The tasks behind the semaphore are finitely many.
LEMMA HoldingFinite == IsFiniteSet(Holding) /\ Cardinality(Holding) \in Nat
BY CallsAssumption, FS_Subset, FS_CardinalityType DEF Holding

\* A task enters the semaphore.
LEMMA HoldingGrows ==
  ASSUME TypeOK, NEW c \in Calls, pc[c] \notin HoldingAt,
         NEW at \in HoldingAt, MoveTo(c, at)
  PROVE  Cardinality(Holding') = Cardinality(Holding) + 1
<1>1. Holding' = Holding \cup {c} /\ c \notin Holding
  BY DEF Holding, HoldingAt, MoveTo, TypeOK
<1>2. QED
  BY <1>1, HoldingFinite, FS_AddElement

\* A task leaves it.
LEMMA HoldingShrinks ==
  ASSUME TypeOK, NEW c \in Calls, pc[c] \in HoldingAt,
         NEW at \in Ended, MoveTo(c, at)
  PROVE  /\ Cardinality(Holding') \in Nat
         /\ Cardinality(Holding) = Cardinality(Holding') + 1
<1>1. Holding' = Holding \ {c} /\ c \in Holding
  BY DEF Holding, HoldingAt, MoveTo, TypeOK, Ended
<1>2. Cardinality(Holding') = Cardinality(Holding) - 1
  BY <1>1, HoldingFinite, FS_RemoveElement
<1>3. IsFiniteSet(Holding') /\ Cardinality(Holding') \in Nat
  BY <1>1, HoldingFinite, FS_RemoveElement, FS_CardinalityType
<1>4. QED
  BY <1>2, <1>3, HoldingFinite

\* A task moves without passing the semaphore.
LEMMA HoldingStays ==
  ASSUME TypeOK, NEW c \in Calls, NEW at, MoveTo(c, at),
         pc[c] \in HoldingAt <=> at \in HoldingAt
  PROVE  Holding' = Holding
BY DEF Holding, HoldingAt, MoveTo, TypeOK

\* In a new process nobody is behind the semaphore.
LEMMA HoldingEmpty ==
  ASSUME FreshProcess
  PROVE  Cardinality(Holding') = 0
<1>1. Holding' = {}
  BY DEF FreshProcess, Holding
<1>2. QED
  BY <1>1, FS_EmptySet

\* Settling a call at its actual price, as its task leaves the semaphore and
\* at most that price is booked.
LEMMA SettleKeeps ==
  ASSUME TypeOK, BudgetInv, NEW c \in Calls, pc[c] \in HoldingAt,
         NEW at \in Ended, MoveTo(c, at),
         NEW actual \in Nat, actual <= Estimate + Overrun, Settle(c, actual),
         main' = main, main \in MainLive,
         TotalCost' \in Nat, TotalCost' <= TotalCost + actual
  PROVE  BudgetInv'
<1> DEFINE n == Cardinality(Holding)
           m == Cardinality(Holding')
<1>1. m \in Nat /\ n \in Nat /\ n = m + 1
  BY HoldingShrinks, HoldingFinite
<1>2. /\ Estimate * m \in Nat /\ Estimate * n = Estimate * m + Estimate
      /\ Overrun * m \in Nat /\ Overrun * n = Overrun * m + Overrun
      /\ Overrun * Concurrency \in Nat
  BY <1>1, Products, PriceAssumption, ConfigAssumption
<1>3. /\ n <= Concurrency
      /\ reserved >= Estimate * n
      /\ Capped => spent + reserved + Overrun * n <= MaxCost + Overrun * Concurrency
  BY DEF BudgetInv
<1>4. /\ reserved' = IF reserved > Estimate THEN reserved - Estimate ELSE 0
      /\ spent' = spent + actual
  BY DEF Settle
<1>5. /\ reserved \in Nat /\ spent \in Nat /\ Estimate \in Nat /\ Overrun \in Nat
      /\ Concurrency \in Nat /\ MaxCost \in Nat
  BY PriceAssumption, ConfigAssumption DEF TypeOK
<1> HIDE DEF n, m
<1>6. reserved' = reserved - Estimate /\ reserved' \in Nat
  BY <1>2, <1>3, <1>4, <1>5
<1>7. m <= Concurrency /\ reserved' >= Estimate * m
  BY <1>1, <1>2, <1>3, <1>5, <1>6
<1>8. reserved = Estimate * n => reserved' = Estimate * m
  BY <1>2, <1>5, <1>6
<1>9. ASSUME Capped
      PROVE  /\ spent' + reserved' + Overrun * m <= MaxCost + Overrun * Concurrency
             /\ spent' <= MaxCost + Overrun * Concurrency
  BY <1>2, <1>3, <1>4, <1>5, <1>6, <1>9
<1>10. TotalCost' <= spent'
  <2>1. TotalCost <= spent /\ TotalCost \in Nat
    BY TotalType DEF BudgetInv, TypeOK
  <2>2. QED
    BY <1>4, <1>5, <2>1
<1>11. Capped => TotalCost' <= MaxCost + Overrun * Concurrency
  BY <1>2, <1>4, <1>5, <1>9, <1>10
<1>12. main \in TasksRun => reserved = Estimate * n
  BY DEF BudgetInv, n
<1>13. QED
  BY <1>7, <1>8, <1>9, <1>10, <1>11, <1>12 DEF BudgetInv, n, m

\* A process that starts, or dies, holds nothing.
LEMMA FreshKeeps ==
  ASSUME TypeOK, FreshProcess, spent' \in {0, TotalCost}, TotalCost' = TotalCost,
         Capped => TotalCost <= MaxCost + Overrun * Concurrency,
         main' \in MainLive => spent' = TotalCost
  PROVE  BudgetInv'
<1>1. Cardinality(Holding') = 0 /\ reserved' = 0
  BY HoldingEmpty DEF FreshProcess
<1>2. Estimate * 0 = 0 /\ Overrun * 0 = 0 /\ Overrun * Concurrency \in Nat
  BY Products, PriceAssumption, ConfigAssumption
<1>3. TotalCost \in Nat /\ MaxCost \in Nat /\ Concurrency \in Nat
  BY ConfigAssumption, TotalType DEF TypeOK
<1>4. QED
  BY <1>1, <1>2, <1>3 DEF BudgetInv, MainLive

\* SpendBounded and ReservedMatchesHolding follow from an invariant that
\* charges every permit in use with one reservation and one overrun.
THEOREM BudgetInvariant == Spec => []BudgetInv
<1>1. Init => BudgetInv
  <2> SUFFICES ASSUME Init PROVE BudgetInv
    OBVIOUS
  <2>1. Holding = {}
    BY DEF Init, Holding
  <2>2. Cardinality(Holding) = 0
    BY <2>1, FS_EmptySet
  <2>3. Estimate * 0 = 0 /\ Overrun * 0 = 0 /\ Overrun * Concurrency \in Nat
    BY Products, PriceAssumption, ConfigAssumption
  <2>4. TotalCost = 0
    <3>1. StoreTypeOK /\ \A c \in Calls : ~IsDone(c)
      BY DEF Init, StoreInit, StoreTypeOK, Row, IsDone
    <3>2. QED
      BY <3>1, TotalOfNothing
  <2>5. QED
    BY <2>2, <2>3, <2>4, ConfigAssumption DEF Init, BudgetInv
<1>2. TypeOK /\ TypeOK' /\ FreshInv /\ BudgetInv /\ [Next]_vars => BudgetInv'
  <2> SUFFICES ASSUME TypeOK, TypeOK', FreshInv, BudgetInv, [Next]_vars
               PROVE  BudgetInv'
    OBVIOUS
  <2> USE DEF MainLive, TasksRun
  <2>0. TotalCost \in Nat /\ (UNCHANGED storeVars => TotalCost' = TotalCost)
    BY TotalType DEF TypeOK
  <2>1. CASE Begin
    <3>1. /\ FreshProcess /\ spent' = TotalCost /\ TotalCost' = TotalCost
          /\ Capped => TotalCost <= MaxCost + Overrun * Concurrency
      BY <2>0, <2>1 DEF Begin, BudgetInv
    <3>2. QED
      BY <3>1, FreshKeeps
  <2>2. ASSUME NEW c \in Calls, Start(c) PROVE BudgetInv'
    <3>1. Holding' = Holding
      <4>1. PICK at \in {"returned", "queued", "failed"} : MoveTo(c, at)
        BY <2>2 DEF Start
      <4>2. QED
        BY <2>2, <4>1, HoldingStays DEF Start, Running, HoldingAt
    <3>2. QED
      BY <2>0, <2>2, <3>1 DEF Start, BudgetInv, budgetVars, runVars
  <2>3. ASSUME NEW c \in Calls, Reserve(c) PROVE BudgetInv'
    <3>1. UNCHANGED <<TotalCost, main, spent>>
      BY <2>0, <2>3 DEF Reserve, runVars
    <3>2. CASE MoveTo(c, "returned") /\ UNCHANGED reserved
      <4>1. Holding' = Holding
        BY <2>3, <3>2, HoldingStays DEF Reserve, Running, HoldingAt
      <4>2. QED
        BY <3>1, <3>2, <4>1 DEF BudgetInv
    <3>3. CASE /\ ~OverCap(Estimate)
               /\ reserved' = reserved + Estimate
               /\ MoveTo(c, "limits")
      <4> DEFINE n == Cardinality(Holding)
                 m == Cardinality(Holding')
      <4>1. n \in Nat /\ m = n + 1 /\ n < Concurrency /\ m <= Concurrency
        <5>1. m = n + 1
          BY <2>3, <3>3, HoldingGrows DEF Reserve, Running, HoldingAt
        <5>2. n < Concurrency
          BY <2>3 DEF Reserve, PermitFree
        <5>3. QED
          BY <5>1, <5>2, HoldingFinite, ConfigAssumption
      <4>2. /\ Estimate * m = Estimate * n + Estimate /\ Estimate * n \in Nat
            /\ Overrun * m \in Nat /\ Overrun * Concurrency \in Nat
            /\ Overrun * m <= Overrun * Concurrency
        BY <4>1, Products, ProductMonotone, PriceAssumption, ConfigAssumption
      <4>3. Capped => spent + reserved + Estimate <= MaxCost
        BY <3>3, PriceAssumption, ConfigAssumption DEF OverCap, TypeOK
      <4>4. /\ reserved \in Nat /\ spent \in Nat /\ Estimate \in Nat
            /\ MaxCost \in Nat
        BY PriceAssumption, ConfigAssumption DEF TypeOK
      <4>5. /\ reserved >= Estimate * n
            /\ main \in TasksRun => reserved = Estimate * n
            /\ main \in MainLive => TotalCost <= spent
            /\ Capped => TotalCost <= MaxCost + Overrun * Concurrency
        BY DEF BudgetInv
      <4> HIDE DEF n, m
      <4>6. reserved' >= Estimate * m /\ (main \in TasksRun => reserved' = Estimate * m)
        BY <3>3, <4>2, <4>4, <4>5
      <4>7. Capped => spent + reserved' + Overrun * m <= MaxCost + Overrun * Concurrency
        BY <3>3, <4>2, <4>3, <4>4
      <4>8. QED
        BY <3>1, <4>1, <4>5, <4>6, <4>7 DEF BudgetInv, n, m
    <3>4. QED
      BY <2>3, <3>2, <3>3 DEF Reserve
  <2>4. ASSUME NEW c \in Calls, Dispatch(c) PROVE BudgetInv'
    <3>1. Holding' = Holding
      BY <2>4, HoldingStays DEF Dispatch, Running, HoldingAt
    <3>2. QED
      BY <2>0, <2>4, <3>1 DEF Dispatch, BudgetInv, budgetVars, runVars
  <2>5. ASSUME NEW c \in Calls, NEW price \in LatePrices \cup {0}, Retry(c, price)
        PROVE  BudgetInv'
    <3>1. Holding' = Holding
      BY <2>5, HoldingStays DEF Retry, Running, HoldingAt
    <3>2. QED
      BY <2>0, <2>5, <3>1 DEF Retry, BudgetInv, budgetVars, runVars
  <2>6. ASSUME NEW c \in Calls, NEW price \in LatePrices \cup {0}, Reject(c, price)
        PROVE  BudgetInv'
    <3>1. /\ pc[c] \in HoldingAt /\ MoveTo(c, "returned") /\ Settle(c, 0)
          /\ main' = main /\ main \in MainLive
      BY <2>6 DEF Reject, Running, HoldingAt, runVars
    <3>2. ~IsDone(c)
      BY <2>6 DEF Reject, Running, FreshInv
    <3>3. TotalCost' = TotalCost /\ TotalCost \in Nat
      BY <2>0, <2>6, <3>2, WritesAdd DEF Reject
    <3>4. QED
      BY <3>1, <3>3, SettleKeeps, PriceAssumption DEF Ended
  <2>7. ASSUME NEW c \in Calls, Abort(c) PROVE BudgetInv'
    <3>1. /\ pc[c] \in HoldingAt /\ MoveTo(c, "raised") /\ Settle(c, 0)
          /\ main' = main /\ main \in MainLive
      BY <2>7 DEF Abort, Running, HoldingAt, runVars
    <3>2. TotalCost' = TotalCost /\ TotalCost \in Nat
      BY <2>0, <2>7 DEF Abort
    <3>3. QED
      BY <3>1, <3>2, SettleKeeps, PriceAssumption DEF Ended
  <2>8. ASSUME NEW c \in Calls, NEW price \in Prices, Answer(c, price)
        PROVE  BudgetInv'
    <3>1. /\ pc[c] \in HoldingAt /\ Settle(c, price)
          /\ main' = main /\ main \in MainLive
      BY <2>8 DEF Answer, Running, HoldingAt, runVars
    <3>2. PICK at \in Ended : MoveTo(c, at)
      BY <2>8 DEF Answer, Ended
    <3>3. ~IsDone(c)
      BY <2>8 DEF Answer, Running, FreshInv
    <3>4. price \in Nat /\ price <= Estimate + Overrun
      BY PriceAssumption
    <3>5. TotalCost' = TotalCost + price /\ TotalCost \in Nat
      BY <2>0, <2>8, <3>3, WritesAdd DEF Answer
    <3>6. QED
      BY <3>1, <3>2, <3>4, <3>5, SettleKeeps
  <2>9. ASSUME NEW c \in Calls, NEW price \in Prices \cup {0}, Fail(c, price)
        PROVE  BudgetInv'
    <3>1. /\ pc[c] \in HoldingAt /\ MoveTo(c, "failed") /\ Settle(c, price)
          /\ main' = main /\ main \in MainLive
      BY <2>9 DEF Fail, Running, HoldingAt, runVars
    <3>2. price \in Nat /\ price <= Estimate + Overrun
      BY PriceAssumption
    <3>3. TotalCost' = TotalCost /\ TotalCost \in Nat
      BY <2>0, <2>9 DEF Fail
    <3>4. TotalCost' <= TotalCost + price
      BY <3>2, <3>3
    <3>5. QED
      BY <3>1, <3>2, <3>3, <3>4, SettleKeeps DEF Ended
  <2>10. ASSUME NEW c \in Calls, Join(c) PROVE BudgetInv'
    <3>1. Holding' = Holding
      BY <2>10 DEF Join, Holding
    <3>2. main = "running" /\ main' \in MainLive
      BY <2>10 DEF Join, Cancelling
    <3>3. QED
      BY <2>0, <2>10, <3>1, <3>2 DEF Join, BudgetInv, budgetVars
  <2>11. ASSUME NEW c \in Calls, Unwind(c) PROVE BudgetInv'
    <3>1. /\ MoveTo(c, "cancelled") /\ main' = main
          /\ main \in Cancelling /\ main \notin TasksRun /\ UNCHANGED TotalCost
      BY <2>0, <2>11 DEF Unwind, runVars, Cancelling
    <3>2. TotalCost \in Nat
      BY <2>0
    <3>3. CASE pc[c] \in {"calling", "backoff"}
      <4>1. Settle(c, 0) /\ pc[c] \in HoldingAt
        BY <2>11, <3>3 DEF Unwind, HoldingAt
      <4>2. QED
        BY <3>1, <3>2, <4>1, SettleKeeps, PriceAssumption DEF Ended
    <3>4. CASE pc[c] = "limits"
      <4> DEFINE n == Cardinality(Holding)
                 m == Cardinality(Holding')
      <4>1. m \in Nat /\ n = m + 1
        BY <3>1, <3>4, HoldingShrinks DEF HoldingAt, Ended
      <4>2. /\ Estimate * m \in Nat /\ Estimate * n = Estimate * m + Estimate
            /\ Overrun * m \in Nat /\ Overrun * n = Overrun * m + Overrun
            /\ Overrun * Concurrency \in Nat
        BY <4>1, Products, PriceAssumption, ConfigAssumption
      <4>3. UNCHANGED <<spent, reserved>>
        BY <2>11, <3>4 DEF Unwind, budgetVars
      <4>4. /\ n <= Concurrency /\ reserved >= Estimate * n
            /\ TotalCost <= spent
            /\ Capped => spent + reserved + Overrun * n <= MaxCost + Overrun * Concurrency
            /\ Capped => TotalCost <= MaxCost + Overrun * Concurrency
        BY <3>1 DEF BudgetInv
      <4>5. /\ reserved \in Nat /\ spent \in Nat /\ Estimate \in Nat /\ Overrun \in Nat
            /\ MaxCost \in Nat /\ Concurrency \in Nat
        BY PriceAssumption, ConfigAssumption DEF TypeOK
      <4> HIDE DEF n, m
      <4>6. m <= Concurrency /\ reserved >= Estimate * m
        BY <4>1, <4>2, <4>4, <4>5
      <4>7. Capped => spent + reserved + Overrun * m <= MaxCost + Overrun * Concurrency
        BY <4>2, <4>4, <4>5
      <4>8. QED
        BY <3>1, <4>3, <4>4, <4>6, <4>7 DEF BudgetInv, m
    <3>5. CASE pc[c] \in {"new", "queued"}
      <4>1. Holding' = Holding
        BY <3>1, <3>5, HoldingStays DEF HoldingAt
      <4>2. UNCHANGED <<spent, reserved>>
        BY <2>11, <3>5 DEF Unwind, budgetVars
      <4>3. QED
        BY <3>1, <4>1, <4>2 DEF BudgetInv
    <3>6. QED
      BY <2>11, <3>3, <3>4, <3>5 DEF Unwind, Suspended
  <2>12. CASE Finish
    <3>1. Holding' = Holding /\ UNCHANGED <<spent, reserved, TotalCost>>
      BY <2>0, <2>12 DEF Finish, Holding, taskVars, budgetVars
    <3>2. main' \in {"raised", "returned"}
      BY <2>12 DEF Finish
    <3>3. QED
      BY <3>1, <3>2 DEF BudgetInv, Cancelling
  <2>13. CASE Crash
    <3>1. /\ FreshProcess /\ spent' = 0 /\ TotalCost' = TotalCost /\ main' \notin MainLive
          /\ Capped => TotalCost <= MaxCost + Overrun * Concurrency
      BY <2>0, <2>13 DEF Crash, BudgetInv, Cancelling
    <3>2. QED
      BY <3>1, FreshKeeps
  <2>14. CASE UNCHANGED vars
    <3>1. Holding' = Holding
      BY <2>14 DEF vars, taskVars, Holding
    <3>2. QED
      BY <2>0, <2>14, <3>1 DEF vars, budgetVars, runVars, BudgetInv
  <2>15. CASE Teardown
    <3>1. Holding' = Holding /\ UNCHANGED <<spent, reserved, TotalCost>>
      BY <2>0, <2>15 DEF Teardown, Holding, taskVars, budgetVars
    <3>2. main' = "unwinding" /\ main \in MainLive
      BY <2>15 DEF Teardown
    <3>3. QED
      BY <3>1, <3>2 DEF BudgetInv
  <2>16. QED
    BY <2>1, <2>2, <2>3, <2>4, <2>5, <2>6, <2>7, <2>8, <2>9, <2>10, <2>11, <2>12, <2>13,
       <2>14, <2>15 DEF Next, TaskStep, MainStep
<1>3. QED
  BY <1>1, <1>2, TypeCorrect, PTL DEF Spec

\* The recorded spend of a phase never exceeds the cap by more than one overrun
\* per permit, for any number of calls, crashes and resumes.
THEOREM SpendIsBounded == Spec => []SpendBounded
<1>1. BudgetInv => SpendBounded
  BY PriceAssumption, ConfigAssumption DEF BudgetInv, SpendBounded
<1>2. QED
  BY <1>1, BudgetInvariant, PTL

\* While tasks run, every permit in use is reserved for, once.
THEOREM ReservationsMatch == Spec => []ReservedMatchesHolding
<1>1. BudgetInv => ReservedMatchesHolding
  BY DEF BudgetInv, ReservedMatchesHolding
<1>2. QED
  BY <1>1, BudgetInvariant, PTL

-----------------------------------------------------------------------------
(* The figures: what is reported and what is charged. *)

\* A figure that agrees with the table goes on agreeing while nothing is added
\* to the one but what is added to the other.
LEMMA FigureKeeps ==
  ASSUME TypeOK, TypeOK', SpentMatchesTable, main \in MainLive, main' = main,
         NEW c \in Calls, NEW at, MoveTo(c, at), pc[c] # "failed",
         NEW added \in Nat, spent' = spent + added, TotalCost' = TotalCost + added
  PROVE  SpentMatchesTable'
<1>1. main # "idle"
  BY DEF MainLive, TasksRun, Cancelling
<1>2. (\A d \in Calls : pc'[d] # "failed") => \A d \in Calls : pc[d] # "failed"
  BY DEF MoveTo, TypeOK
<1>3. QED
  BY <1>1, <1>2 DEF SpentMatchesTable

\* The reported figure is the total of the rows, through retries, rejections,
\* cancellations, crashes and resumes.
THEOREM SpentIsTotal == Spec => []SpentMatchesTable
<1>1. Init => SpentMatchesTable
  BY DEF Init, SpentMatchesTable
<1>2. TypeOK /\ TypeOK' /\ FreshInv /\ SpentMatchesTable /\ [Next]_vars => SpentMatchesTable'
  <2> SUFFICES ASSUME TypeOK, TypeOK', FreshInv, SpentMatchesTable, [Next]_vars
               PROVE  SpentMatchesTable'
    OBVIOUS
  <2> USE DEF Running
  <2>1. /\ TotalCost \in Nat /\ spent \in Nat /\ 0 \in Nat
        /\ UNCHANGED storeVars => TotalCost' = TotalCost
    BY TotalType DEF TypeOK
  <2>2. TasksRun \subseteq MainLive /\ Cancelling \subseteq MainLive
    BY DEF MainLive
  <2>3. CASE Begin
    BY <2>1, <2>3 DEF Begin, SpentMatchesTable
  <2>4. ASSUME NEW c \in Calls, NEW price,
               Start(c) \/ Reserve(c) \/ Dispatch(c) \/ Retry(c, price)
        PROVE  SpentMatchesTable'
    <3>1. PICK at : MoveTo(c, at)
      BY <2>4 DEF Start, Reserve, Dispatch, Retry
    <3>2. /\ main \in MainLive /\ main' = main /\ pc[c] # "failed"
          /\ spent' = spent + 0 /\ TotalCost' = TotalCost + 0
      BY <2>1, <2>2, <2>4 DEF Start, Reserve, Dispatch, Retry, runVars, budgetVars
    <3>3. QED
      BY <2>1, <3>1, <3>2, FigureKeeps
  <2>5. ASSUME NEW c \in Calls, NEW price, Reject(c, price) PROVE SpentMatchesTable'
    <3>1. TotalCost' = TotalCost
      BY <2>5, WritesAdd DEF Reject, FreshInv
    <3>2. /\ main \in MainLive /\ main' = main /\ pc[c] # "failed" /\ MoveTo(c, "returned")
          /\ spent' = spent + 0 /\ TotalCost' = TotalCost + 0
      BY <2>1, <2>2, <2>5, <3>1 DEF Reject, Settle, runVars
    <3>3. QED
      BY <2>1, <3>2, FigureKeeps
  <2>6. ASSUME NEW c \in Calls, Abort(c) PROVE SpentMatchesTable'
    <3>1. /\ main \in MainLive /\ main' = main /\ pc[c] # "failed" /\ MoveTo(c, "raised")
          /\ spent' = spent + 0 /\ TotalCost' = TotalCost + 0
      BY <2>1, <2>2, <2>6 DEF Abort, Settle, runVars
    <3>2. QED
      BY <2>1, <3>1, FigureKeeps
  <2>7. ASSUME NEW c \in Calls, NEW price \in Prices, Answer(c, price)
        PROVE  SpentMatchesTable'
    <3>1. TotalCost' = TotalCost + price /\ price \in Nat
      BY <2>7, WritesAdd, PriceAssumption DEF Answer, FreshInv
    <3>2. PICK at : MoveTo(c, at)
      BY <2>7 DEF Answer
    <3>3. /\ main \in MainLive /\ main' = main /\ pc[c] # "failed"
          /\ spent' = spent + price
      BY <2>2, <2>7 DEF Answer, Settle, runVars
    <3>4. QED
      BY <3>1, <3>2, <3>3, FigureKeeps
  <2>8. ASSUME NEW c \in Calls, NEW price \in Prices \cup {0}, Fail(c, price)
        PROVE  SpentMatchesTable'
    <3>1. pc'[c] = "failed"
      BY <2>8 DEF Fail, MoveTo, TypeOK
    <3>2. QED
      BY <3>1 DEF SpentMatchesTable
  <2>9. ASSUME NEW c \in Calls, Unwind(c) PROVE SpentMatchesTable'
    <3>1. spent' = spent + 0 /\ TotalCost' = TotalCost + 0
      BY <2>1, <2>9 DEF Unwind, Settle, budgetVars
    <3>2. main \in MainLive /\ main' = main /\ pc[c] # "failed" /\ MoveTo(c, "cancelled")
      BY <2>2, <2>9 DEF Unwind, Suspended, runVars
    <3>3. QED
      BY <2>1, <3>1, <3>2, FigureKeeps
  <2>10. ASSUME NEW c \in Calls, Join(c) PROVE SpentMatchesTable'
    BY <2>1, <2>10 DEF Join, SpentMatchesTable, budgetVars
  <2>11. CASE Teardown
    BY <2>1, <2>11 DEF Teardown, SpentMatchesTable, taskVars, budgetVars
  <2>12. CASE Finish
    <3>1. main # "idle" /\ UNCHANGED <<pc, spent>> /\ TotalCost' = TotalCost
      BY <2>1, <2>12 DEF Finish, MainLive, TasksRun, Cancelling, taskVars, budgetVars
    <3>2. QED
      BY <3>1 DEF SpentMatchesTable
  <2>13. CASE Crash
    BY <2>13 DEF Crash, SpentMatchesTable
  <2>14. CASE UNCHANGED vars
    BY <2>1, <2>14 DEF vars, SpentMatchesTable, taskVars, budgetVars, runVars
  <2>15. QED
    BY <2>3, <2>4, <2>5, <2>6, <2>7, <2>8, <2>9, <2>10, <2>11, <2>12, <2>13, <2>14
       DEF Next, TaskStep, MainStep
<1>3. QED
  BY <1>1, <1>2, TypeCorrect, PTL DEF Spec

\* What one attempt may cost at most.
Unit == Estimate + Overrun

\* The attempts that may have been charged for a call: all of them in the
\* invocations that are over for it, those that are over in the current one.
Over(c) == IF pc[c] = "calling" THEN attempt[c] - 1 ELSE attempt[c]
Tries(c) == IF main \in MainLive /\ pc[c] \in Suspended
              THEN MaxAttempts * (invocations - 1) + Over(c)
              ELSE MaxAttempts * invocations

\* Each of them was charged once at most.
BillInv ==
  /\ main \in MainLive => invocations # 0
  /\ \A c \in Calls :
       /\ pc[c] = "calling" => attempt[c] # 0
       /\ billed[c] <= Unit * Tries(c)

\* A number of attempts, none of them unfinished or one.
LEMMA TriesCount ==
  ASSUME TypeOK, FreshInv, BillInv, NEW c \in Calls
  PROVE  /\ Tries(c) \in Nat /\ Tries(c) <= MaxAttempts * invocations
         /\ main \in MainLive /\ pc[c] = "calling"
              => Tries(c) + 1 <= MaxAttempts * invocations
         /\ MaxAttempts * invocations \in Nat
<1>1. /\ MaxAttempts \in Nat /\ invocations \in Nat /\ attempt[c] \in 0..MaxAttempts
      /\ MaxAttempts * invocations \in Nat
  BY ConfigAssumption, Products DEF TypeOK
<1>2. CASE main \in MainLive /\ pc[c] \in Suspended
  <2>1. PICK i \in Nat : invocations = i + 1
    BY <1>1, <1>2 DEF BillInv
  <2>2. /\ MaxAttempts * invocations = MaxAttempts * i + MaxAttempts
        /\ MaxAttempts * i \in Nat /\ invocations - 1 = i
    BY <1>1, <2>1, Products
  <2>3. Over(c) \in 0..MaxAttempts /\ (pc[c] = "calling" => Over(c) + 1 <= MaxAttempts)
    <3>1. CASE pc[c] = "calling"
      <4>1. attempt[c] # 0 /\ Over(c) = attempt[c] - 1
        BY <3>1 DEF Over, BillInv
      <4>2. QED
        BY <1>1, <4>1
    <3>2. CASE pc[c] # "calling"
      BY <1>1, <3>2 DEF Over
    <3>3. QED
      BY <3>1, <3>2
  <2>4. Tries(c) = MaxAttempts * i + Over(c)
    BY <1>2, <2>2 DEF Tries
  <2>5. QED
    BY <1>1, <2>2, <2>3, <2>4
<1>3. CASE ~(main \in MainLive /\ pc[c] \in Suspended)
  <2>1. Tries(c) = MaxAttempts * invocations
    BY <1>3 DEF Tries
  <2>2. ~(main \in MainLive /\ pc[c] = "calling")
    BY <1>3 DEF Suspended
  <2>3. QED
    BY <1>1, <2>1, <2>2
<1>4. QED
  BY <1>2, <1>3

\* A step that ends an attempt may charge for it.
LEMMA BillGrows ==
  ASSUME NEW b \in Nat, NEW n \in Nat, NEW m \in Nat, NEW p \in Nat,
         b <= Unit * n, m >= n, p <= Unit, p = 0 \/ m >= n + 1
  PROVE  b + p <= Unit * m
<1>1. Unit \in Nat
  BY PriceAssumption DEF Unit
<1>2. Unit * n <= Unit * m /\ Unit * n \in Nat /\ Unit * m \in Nat
  BY <1>1, ProductMonotone, Products
<1>3. CASE p = 0
  BY <1>2, <1>3
<1>4. CASE m >= n + 1
  <2>1. Unit * (n + 1) <= Unit * m /\ Unit * (n + 1) = Unit * n + Unit
    BY <1>1, <1>4, ProductMonotone, Products
  <2>2. QED
    BY <1>1, <1>2, <2>1
<1>5. QED
  BY <1>3, <1>4

\* One call moves to the place at, which ends its attempt if it was charged.
LEMMA MoveKeepsBill ==
  ASSUME TypeOK, TypeOK', FreshInv, FreshInv', BillInv, NEW c \in Calls, NEW at,
         MoveTo(c, at), UNCHANGED <<main, invocations>>, main \in MainLive,
         pc[c] \in Suspended,
         NEW price \in Nat, price <= Unit, Charge(c, price),
         \A d \in Calls \ {c} : attempt'[d] = attempt[d],
         at # "calling" \/ attempt'[c] # 0,
         price = 0 \/ pc[c] = "calling",
         at \in Suspended =>
           Over(c)' >= Over(c) /\ (price # 0 => Over(c)' >= Over(c) + 1)
  PROVE  BillInv'
<1>1. /\ pc'[c] = at /\ \A d \in Calls \ {c} : pc'[d] = pc[d]
      /\ billed'[c] = billed[c] + price /\ \A d \in Calls \ {c} : billed'[d] = billed[d]
      /\ billed[c] \in Nat
  BY DEF MoveTo, Charge, TypeOK
<1>2. (main' \in MainLive => invocations' # 0)
      /\ \A d \in Calls : pc'[d] = "calling" => attempt'[d] # 0
  BY <1>1 DEF BillInv
<1>3. ASSUME NEW d \in Calls \ {c} PROVE billed'[d] <= Unit * Tries(d)'
  <2>1. Tries(d)' = Tries(d)
    BY <1>1 DEF Tries, Over
  <2>2. QED
    BY <1>1, <2>1 DEF BillInv
<1>4. /\ Tries(c) \in Nat /\ Tries(c) <= MaxAttempts * invocations
      /\ pc[c] = "calling" => Tries(c) + 1 <= MaxAttempts * invocations
      /\ MaxAttempts * invocations \in Nat /\ invocations \in Nat /\ MaxAttempts \in Nat
  BY TriesCount, ConfigAssumption DEF TypeOK
<1>5. Tries(c)' \in Nat /\ Tries(c)' >= Tries(c) /\ (price = 0 \/ Tries(c)' >= Tries(c) + 1)
  <2>1. CASE at \in Suspended
    <3>1. /\ Tries(c)' = MaxAttempts * (invocations - 1) + Over(c)'
          /\ Tries(c) = MaxAttempts * (invocations - 1) + Over(c)
      BY <1>1, <2>1 DEF Tries
    <3>2. PICK i \in Nat : invocations - 1 = i
      BY <1>4 DEF BillInv
    <3>3. MaxAttempts * i \in Nat
      BY <1>4, Products
    <3>4. Over(c) \in Nat /\ Over(c)' \in Nat
      BY <1>1, <1>2, ConfigAssumption DEF Over, TypeOK, BillInv
    <3>5. QED
      BY <2>1, <3>1, <3>2, <3>3, <3>4
  <2>2. CASE at \notin Suspended
    <3>1. Tries(c)' = MaxAttempts * invocations
      BY <1>1, <2>2 DEF Tries
    <3>2. QED
      BY <1>4, <3>1
  <2>3. QED
    BY <2>1, <2>2
<1>6. billed'[c] <= Unit * Tries(c)'
  <2>1. billed[c] <= Unit * Tries(c)
    BY DEF BillInv
  <2>2. billed[c] + price <= Unit * Tries(c)'
    BY <1>1, <1>4, <1>5, <2>1, BillGrows
  <2>3. QED
    BY <1>1, <2>2
<1>7. QED
  BY <1>2, <1>3, <1>6 DEF BillInv

\* The bill counts attempts, whatever became of them.
THEOREM BillInvariant == Spec => []BillInv
<1>1. Init => BillInv
  <2> SUFFICES ASSUME Init PROVE BillInv
    OBVIOUS
  <2>1. MaxAttempts * 0 = 0 /\ Unit * 0 = 0
    BY Products, ConfigAssumption, PriceAssumption DEF Unit
  <2>2. main \notin MainLive /\ invocations = 0 /\ \A c \in Calls : billed[c] = 0 /\ pc[c] = "new"
    BY DEF Init, MainLive, TasksRun, Cancelling
  <2>3. QED
    BY <2>1, <2>2 DEF BillInv, Tries
<1>2. TypeOK /\ TypeOK' /\ FreshInv /\ FreshInv' /\ BillInv /\ [Next]_vars => BillInv'
  <2> SUFFICES ASSUME TypeOK, TypeOK', FreshInv, FreshInv', BillInv, [Next]_vars
               PROVE  BillInv'
    OBVIOUS
  <2>1. /\ TasksRun \subseteq MainLive /\ Cancelling \subseteq MainLive
        /\ "idle" \notin MainLive /\ "returned" \notin MainLive /\ "raised" \notin MainLive
    BY DEF MainLive, TasksRun, Cancelling
  <2>2. /\ \A price \in Prices \cup LatePrices \cup {0} : price \in Nat /\ price <= Unit
        /\ Unit \in Nat /\ 0 \in Nat
    BY PriceAssumption DEF Unit
  <2>3. ASSUME NEW c \in Calls PROVE UNCHANGED billed => Charge(c, 0)
    BY DEF Charge, TypeOK
  <2>4. CASE Begin
    <3>1. /\ main \notin MainLive /\ main' \in MainLive /\ invocations' = invocations + 1
          /\ billed' = billed
          /\ \A c \in Calls : pc'[c] = "new" /\ attempt'[c] = 0
          /\ invocations \in Nat
      BY <2>1, <2>4 DEF Begin, FreshProcess, TypeOK, TasksRun
    <3>2. (invocations + 1) - 1 = invocations /\ invocations + 1 # 0
          /\ MaxAttempts * invocations + 0 = MaxAttempts * invocations
      BY <3>1, Products, ConfigAssumption
    <3>3. \A c \in Calls : Tries(c)' = MaxAttempts * invocations /\ Tries(c) = MaxAttempts * invocations
      BY <3>1, <3>2 DEF Tries, Over, Suspended
    <3>4. QED
      BY <3>1, <3>2, <3>3 DEF BillInv
  <2>5. ASSUME NEW c \in Calls, Start(c) \/ Reserve(c) PROVE BillInv'
    <3>1. PICK at \in {"returned", "queued", "failed", "limits"} : MoveTo(c, at)
      BY <2>5 DEF Start, Reserve
    <3>2. /\ main \in MainLive /\ pc[c] \in {"new", "queued"}
          /\ UNCHANGED <<main, invocations, attempt, billed>>
      BY <2>1, <2>5 DEF Start, Reserve, Running, runVars
    <3>3. Over(c) = attempt[c] /\ Over(c)' = attempt[c] /\ attempt[c] \in Nat
      BY <3>1, <3>2, ConfigAssumption DEF Over, MoveTo, TypeOK
    <3>4. Charge(c, 0) /\ pc[c] \in Suspended
      BY <2>3, <3>2 DEF Suspended
    <3>5. QED
      BY <2>2, <3>1, <3>2, <3>3, <3>4, MoveKeepsBill
  <2>6. ASSUME NEW c \in Calls, Dispatch(c) PROVE BillInv'
    <3>1. /\ main \in MainLive /\ pc[c] \in {"limits", "backoff"} /\ MoveTo(c, "calling")
          /\ UNCHANGED <<main, invocations, billed>>
          /\ attempt' = [attempt EXCEPT ![c] = @ + 1]
      BY <2>1, <2>6 DEF Dispatch, Running, runVars
    <3>2. /\ attempt'[c] = attempt[c] + 1 /\ attempt[c] \in Nat
          /\ \A d \in Calls \ {c} : attempt'[d] = attempt[d]
          /\ pc'[c] = "calling"
      BY <3>1, ConfigAssumption DEF TypeOK, MoveTo
    <3>3. Over(c) = attempt[c] /\ Over(c)' = attempt[c] + 1 - 1
      BY <3>1, <3>2 DEF Over
    <3>4. Over(c)' >= Over(c) /\ attempt'[c] # 0
      BY <3>2, <3>3
    <3>5. /\ Charge(c, 0) /\ pc[c] \in Suspended /\ 0 <= Unit
          /\ UNCHANGED <<main, invocations>> /\ main \in MainLive /\ MoveTo(c, "calling")
      BY <2>2, <2>3, <3>1 DEF Suspended
    <3>6. \A d \in Calls \ {c} : attempt'[d] = attempt[d]
      BY <3>2
    <3>7. QED
      BY <2>2, <3>4, <3>5, <3>6, MoveKeepsBill
  <2>7. ASSUME NEW c \in Calls, NEW price \in LatePrices \cup {0}, Retry(c, price)
        PROVE  BillInv'
    <3>1. /\ main \in MainLive /\ pc[c] = "calling" /\ MoveTo(c, "backoff")
          /\ UNCHANGED <<main, invocations, attempt>> /\ Charge(c, price)
      BY <2>1, <2>7 DEF Retry, Running, runVars
    <3>2. attempt[c] \in Nat /\ pc'[c] = "backoff"
      BY <3>1, ConfigAssumption DEF TypeOK, MoveTo
    <3>3. Over(c) = attempt[c] - 1 /\ Over(c)' = attempt[c]
      BY <3>1, <3>2 DEF Over
    <3>4. Over(c)' >= Over(c) + 1 /\ Over(c)' >= Over(c)
      BY <3>2, <3>3
    <3>5. pc[c] \in Suspended
      BY <3>1 DEF Suspended
    <3>6. QED
      BY <2>2, <3>1, <3>4, <3>5, MoveKeepsBill
  <2>8. ASSUME NEW c \in Calls, NEW at \in Ended, MoveTo(c, at),
               UNCHANGED <<main, invocations>>, main \in MainLive,
               NEW price \in Prices \cup LatePrices \cup {0}, Charge(c, price),
               price = 0 \/ pc[c] = "calling", pc[c] \in Suspended,
               UNCHANGED attempt \/ attempt' = [attempt EXCEPT ![c] = 0]
        PROVE  BillInv'
    <3>1. at # "calling" /\ at \notin Suspended
      BY DEF Ended, Suspended
    <3>2. \A d \in Calls \ {c} : attempt'[d] = attempt[d]
      BY <2>8 DEF TypeOK
    <3>3. QED
      BY <2>2, <2>8, <3>1, <3>2, MoveKeepsBill
  <2>9. ASSUME NEW c \in Calls, NEW price \in LatePrices \cup {0}, Reject(c, price)
        PROVE  BillInv'
    BY <2>1, <2>8, <2>9 DEF Reject, Running, Settle, runVars, Ended, Suspended
  <2>10. ASSUME NEW c \in Calls, Abort(c) PROVE BillInv'
    BY <2>1, <2>3, <2>8, <2>10 DEF Abort, Running, Settle, runVars, Ended, Suspended
  <2>11. ASSUME NEW c \in Calls, NEW price \in Prices, Answer(c, price) PROVE BillInv'
    <3>1. PICK at \in Ended : MoveTo(c, at)
      BY <2>11 DEF Answer, Ended
    <3>2. QED
      BY <2>1, <2>8, <2>11, <3>1 DEF Answer, Running, Settle, runVars, Suspended
  <2>12. ASSUME NEW c \in Calls, NEW price \in Prices \cup {0}, Fail(c, price) PROVE BillInv'
    BY <2>1, <2>8, <2>12 DEF Fail, Running, Settle, runVars, Ended, Suspended
  <2>13. ASSUME NEW c \in Calls, Unwind(c) PROVE BillInv'
    <3>1. /\ MoveTo(c, "cancelled") /\ "cancelled" \in Ended /\ pc[c] \in Suspended
          /\ UNCHANGED <<main, invocations>> /\ main \in MainLive
          /\ UNCHANGED attempt \/ attempt' = [attempt EXCEPT ![c] = 0]
      BY <2>1, <2>13 DEF Unwind, Settle, runVars, Ended
    <3>2. CASE UNCHANGED billed
      BY <2>3, <2>8, <3>1, <3>2
    <3>3. ASSUME NEW price \in Prices, Charge(c, price), pc[c] = "calling" PROVE BillInv'
      BY <2>8, <3>1, <3>3
    <3>4. QED
      BY <2>13, <3>2, <3>3 DEF Unwind
  <2>14. ASSUME UNCHANGED <<pc, attempt, billed, invocations>>,
                main' \in MainLive <=> main \in MainLive
         PROVE  BillInv'
    BY <2>14 DEF BillInv, Tries, Over
  <2>15. ASSUME NEW c \in Calls, Join(c) PROVE BillInv'
    BY <2>1, <2>14, <2>15 DEF Join, TasksRun, Cancelling
  <2>16. CASE Teardown
    BY <2>1, <2>14, <2>16 DEF Teardown, TasksRun, Cancelling, taskVars
  <2>17. CASE Finish
    <3>1. /\ UNCHANGED <<pc, attempt, billed, invocations>>
          /\ main' \notin MainLive
          /\ \A c \in Calls : pc[c] \notin Suspended
      BY <2>1, <2>17 DEF Finish, taskVars, Ended, Suspended
    <3>2. QED
      BY <3>1 DEF BillInv, Tries
  <2>18. CASE Crash
    <3>1. /\ main \in MainLive /\ main' \notin MainLive /\ invocations' = invocations
          /\ \A c \in Calls : pc'[c] = "new"
      BY <2>1, <2>18 DEF Crash, FreshProcess
    <3>2. PICK paid \in [Calls -> Prices \cup {0}] :
                 /\ \A c \in Calls : pc[c] # "calling" => paid[c] = 0
                 /\ billed' = [c \in Calls |-> billed[c] + paid[c]]
      BY <2>18 DEF Crash
    <3>3. ASSUME NEW c \in Calls PROVE billed'[c] <= Unit * Tries(c)'
      <4>1. Tries(c)' = MaxAttempts * invocations
        BY <3>1 DEF Tries
      <4>2. /\ Tries(c) \in Nat /\ MaxAttempts * invocations >= Tries(c)
            /\ MaxAttempts * invocations \in Nat
            /\ paid[c] = 0 \/ MaxAttempts * invocations >= Tries(c) + 1
        BY <3>1, <3>2, TriesCount
      <4>3. paid[c] \in Nat /\ paid[c] <= Unit
        BY <2>2, <3>2
      <4>4. billed[c] \in Nat /\ billed[c] <= Unit * Tries(c)
        BY DEF TypeOK, BillInv
      <4>5. billed[c] + paid[c] <= Unit * (MaxAttempts * invocations)
        BY <4>2, <4>3, <4>4, BillGrows
      <4>6. QED
        BY <3>2, <4>1, <4>5
    <3>4. QED
      BY <3>1, <3>3 DEF BillInv
  <2>19. CASE UNCHANGED vars
    BY <2>14, <2>19 DEF vars, taskVars, runVars
  <2>20. QED
    BY <2>4, <2>5, <2>6, <2>7, <2>9, <2>10, <2>11, <2>12, <2>13, <2>15, <2>16, <2>17, <2>18,
       <2>19 DEF Next, TaskStep, MainStep
<1>3. QED
  BY <1>1, <1>2, TypeCorrect, PTL DEF Spec

\* The provider charges a call for one series of attempts per invocation at most.
THEOREM BillIsBounded == Spec => []BillBounded
<1>1. TypeOK /\ FreshInv /\ BillInv => BillBounded
  <2> SUFFICES ASSUME TypeOK, FreshInv, BillInv, NEW c \in Calls
               PROVE  billed[c] <= (Estimate + Overrun) * (MaxAttempts * invocations)
    BY DEF BillBounded
  <2>1. billed[c] <= Unit * Tries(c) /\ billed[c] \in Nat
    BY DEF BillInv, TypeOK
  <2>2. /\ Tries(c) \in Nat /\ Tries(c) <= MaxAttempts * invocations
        /\ MaxAttempts * invocations \in Nat /\ 0 \in Nat
    BY TriesCount
  <2>3. 0 <= Unit /\ Unit \in Nat
    BY PriceAssumption DEF Unit
  <2>4. billed[c] + 0 <= Unit * (MaxAttempts * invocations)
    BY <2>1, <2>2, <2>3, BillGrows
  <2>5. QED
    BY <2>1, <2>4 DEF Unit
<1>2. QED
  BY <1>1, TypeCorrect, BillInvariant, PTL

-----------------------------------------------------------------------------
(* The call table. *)

\* The provider charges a call only while it is in flight, and then it is not
\* done.
LEMMA OnlyInFlightCharged ==
  ASSUME TypeOK, FreshInv, [Next]_vars, NEW c \in Calls, IsDone(c)
  PROVE  billed'[c] = billed[c]
<1>0. pc[c] # "calling" /\ billed[c] \in Nat
  BY DEF FreshInv, TypeOK
<1>1. ASSUME NEW d \in Calls, NEW price, pc[d] = "calling", Charge(d, price)
      PROVE  billed'[c] = billed[c]
  BY <1>0, <1>1 DEF Charge, TypeOK
<1>2. ASSUME NEW d \in Calls, NEW price \in Prices, Answer(d, price)
      PROVE  billed'[c] = billed[c]
  BY <1>1, <1>2 DEF Answer, Running
<1>3. ASSUME NEW d \in Calls, NEW price \in Prices \cup {0}, Fail(d, price)
      PROVE  billed'[c] = billed[c]
  BY <1>1, <1>3 DEF Fail, Running
<1>4. ASSUME NEW d \in Calls, NEW price \in LatePrices \cup {0},
             Retry(d, price) \/ Reject(d, price)
      PROVE  billed'[c] = billed[c]
  BY <1>1, <1>4 DEF Retry, Reject, Running
<1>5. ASSUME NEW d \in Calls, Unwind(d) PROVE billed'[c] = billed[c]
  BY <1>1, <1>5 DEF Unwind
<1>6. ASSUME Crash PROVE billed'[c] = billed[c]
  <2>1. PICK paid \in [Calls -> Prices \cup {0}] :
               /\ \A d \in Calls : pc[d] # "calling" => paid[d] = 0
               /\ billed' = [d \in Calls |-> billed[d] + paid[d]]
    BY <1>6 DEF Crash
  <2>2. paid[c] = 0
    BY <1>0, <2>1
  <2>3. QED
    BY <1>0, <2>1, <2>2
<1>7. ASSUME NEW d \in Calls,
             Start(d) \/ Reserve(d) \/ Dispatch(d) \/ Abort(d) \/ Join(d)
      PROVE  billed' = billed
  BY <1>7 DEF Start, Reserve, Dispatch, Abort, Join
<1>8. ASSUME Begin \/ Teardown \/ Finish \/ UNCHANGED vars PROVE billed' = billed
  BY <1>8 DEF Begin, Teardown, Finish, vars
<1>9. QED
  BY <1>2, <1>3, <1>4, <1>5, <1>6, <1>7, <1>8 DEF Next, TaskStep, MainStep

\* A banked answer is never replaced and never paid for again.
THEOREM BankedIsFinal == Spec => BankedFinal
<1>1. ASSUME TypeOK, FreshInv, [Next]_vars, NEW c \in Calls, IsDone(c)
      PROVE  rows'[c] = rows[c] /\ billed'[c] = billed[c]
  <2>1. billed'[c] = billed[c]
    BY <1>1, OnlyInFlightCharged
  <2>2. rows'[c] = rows[c]
    BY <1>1, RowWrites DEF storeVars, WriteDone, WriteError, PutRow, TypeOK, StoreTypeOK
  <2>3. QED
    BY <2>1, <2>2
<1>2. TypeOK /\ FreshInv /\ [Next]_vars
        => [\A c \in Calls :
              IsDone(c) => rows'[c] = rows[c] /\ billed'[c] = billed[c]]_vars
  BY <1>1
<1>3. QED
  BY <1>2, TypeCorrect, PTL DEF Spec, BankedFinal

\* Through crashes, halts and resumes the runner implements the checkpoint
\* specification: every step banks one call, records one error, or stutters.
THEOREM ReplayImplementsCheckpoint == Spec => CheckpointKept
<1>1. Init => Table!StoreInit
  BY DEF Init, Table!StoreInit, StoreInit
<1>2. TypeOK /\ FreshInv /\ [Next]_vars => [Table!Next]_(Table!storeVars)
  <2> SUFFICES ASSUME TypeOK, FreshInv, [Next]_vars
               PROVE  [Table!Next]_(Table!storeVars)
    OBVIOUS
  <2>1. CASE UNCHANGED storeVars
    BY <2>1 DEF storeVars, Table!storeVars
  <2>2. ASSUME NEW c \in Calls, NEW price \in Prices, ~IsDone(c), WriteDone(c, price)
        PROVE  Table!Bank(c, price)
    BY <2>2 DEF WriteDone, PutRow, IsDone, Table!Bank, Table!IsDone, Table!PutRow
  <2>3. ASSUME NEW c \in Calls, ~IsDone(c), WriteError(c)
        PROVE  Table!RecordError(c)
    BY <2>3 DEF WriteError, PutRow, IsDone, Table!RecordError, Table!IsDone, Table!PutRow
  <2>4. QED
    BY <2>1, <2>2, <2>3, RowWrites DEF Table!Next
<1>3. QED
  BY <1>1, <1>2, TypeCorrect, PTL DEF Spec, CheckpointKept, Table!Spec

-----------------------------------------------------------------------------
(* How an invocation ends. *)

\* A task that raised has left its exception in halt_exception, and replay()
\* returns only when there is none.
RaisedInv ==
  /\ \A c \in Calls : pc[c] = "raised" => haltExc # "none"
  /\ main = "returned" => haltExc = "none"

\* An exception that a task raised is never forgotten, whatever the loop saw.
THEOREM RaisedInvariant == Spec => []RaisedInv
<1>1. Init => RaisedInv
  BY DEF Init, RaisedInv
<1>2. TypeOK /\ RaisedInv /\ [Next]_vars => RaisedInv'
  <2> SUFFICES ASSUME TypeOK, RaisedInv, [Next]_vars PROVE RaisedInv'
    OBVIOUS
  <2> USE DEF RaisedInv, MainLive, TasksRun, Cancelling
  <2>1. CASE Begin
    BY <2>1 DEF Begin, FreshProcess
  <2>2. ASSUME NEW c \in Calls, NEW price \in LatePrices \cup {0},
               \/ Start(c) \/ Reserve(c) \/ Dispatch(c)
               \/ Retry(c, price) \/ Reject(c, price)
        PROVE  RaisedInv'
    <3>1. haltExc' = haltExc /\ main' = main
      BY <2>2 DEF Start, Reserve, Dispatch, Retry, Reject, haltVars, runVars
    <3>2. PICK at \in Suspended \cup {"returned", "failed"} : MoveTo(c, at)
      BY <2>2 DEF Start, Reserve, Dispatch, Retry, Reject, Suspended
    <3>3. QED
      BY <3>1, <3>2 DEF MoveTo, TypeOK, Suspended
  <2>3. ASSUME NEW c \in Calls, Abort(c) PROVE RaisedInv'
    BY <2>3 DEF Abort, Running, MoveTo, Fatal, TypeOK, runVars
  <2>4. ASSUME NEW c \in Calls, NEW price \in Prices, Answer(c, price) PROVE RaisedInv'
    BY <2>4 DEF Answer, Running, MoveTo, Fatal, TypeOK, runVars
  <2>5. ASSUME NEW c \in Calls, NEW price \in Prices \cup {0}, Fail(c, price) PROVE RaisedInv'
    BY <2>5 DEF Fail, Running, MoveTo, TypeOK, haltVars, runVars
  <2>6. ASSUME NEW c \in Calls, Join(c) PROVE RaisedInv'
    BY <2>6 DEF Join, haltVars
  <2>7. ASSUME NEW c \in Calls, Unwind(c) PROVE RaisedInv'
    BY <2>7 DEF Unwind, MoveTo, TypeOK, haltVars, runVars
  <2>8. CASE Finish
    BY <2>8 DEF Finish, taskVars, haltVars
  <2>9. CASE Crash
    BY <2>9 DEF Crash, FreshProcess
  <2>10. CASE Teardown
    BY <2>10 DEF Teardown, taskVars, haltVars
  <2>11. CASE UNCHANGED vars
    BY <2>11 DEF vars, taskVars, haltVars, runVars
  <2>12. QED
    BY <2>1, <2>2, <2>3, <2>4, <2>5, <2>6, <2>7, <2>8, <2>9, <2>10, <2>11
       DEF Next, TaskStep, MainStep
<1>3. QED
  BY <1>1, <1>2, TypeCorrect, PTL DEF Spec

\* A provider-fatal or interrupted stage never returns as if it had completed.
THEOREM FatalIsRaised == Spec => []FatalNeverReturns
<1>1. RaisedInv => FatalNeverReturns
  BY DEF RaisedInv, FatalNeverReturns
<1>2. QED
  BY <1>1, RaisedInvariant, PTL

\* While the loop runs, a task that was cancelled or has failed unseen would be
\* lost: there is none.  Until the run is halted, every task that returned has
\* left a row.  A return without a halt is a return from the loop that joined
\* every task.
EndInv ==
  /\ main = "stopping" => Halted
  /\ main = "running" => \A c \in Calls :
       pc[c] # "cancelled" /\ (c \in joined => pc[c] # "failed")
  /\ main \in {"running", "returned"} /\ ~Halted => \A c \in Calls :
       pc[c] = "returned" => rows[c].status # "absent"
  /\ main = "returned" /\ ~Halted => \A c \in Calls : pc[c] = "returned"

\* A task moves to the place at and writes no row but its own; if it returns,
\* it leaves a row or the run is halted.
LEMMA TaskKeepsEnd ==
  ASSUME TypeOK, EndInv, main \in TasksRun, NEW c \in Calls, NEW at, MoveTo(c, at),
         UNCHANGED <<main, joined>>,
         at # "cancelled", c \in joined => at # "failed",
         Halted => Halted',
         \A d \in Calls \ {c} : rows'[d] = rows[d],
         at = "returned" /\ ~Halted' => rows'[c].status # "absent"
  PROVE  EndInv'
<1>1. pc'[c] = at /\ \A d \in Calls \ {c} : pc'[d] = pc[d]
  BY DEF MoveTo, TypeOK
<1>2. QED
  BY <1>1 DEF EndInv, TasksRun

\* A task that has not ended has not been joined.
JoinedInv == \A c \in joined : pc[c] \in Ended

\* However an invocation goes, the end of it says what the invariant says.
THEOREM EndInvariant == Spec => [](EndInv /\ JoinedInv)
<1>1. Init => EndInv /\ JoinedInv
  BY DEF Init, EndInv, JoinedInv
<1>2. TypeOK /\ FreshInv /\ JoinedInv /\ [Next]_vars => JoinedInv'
  <2> SUFFICES ASSUME TypeOK, JoinedInv, [Next]_vars PROVE JoinedInv'
    OBVIOUS
  <2>1. ASSUME NEW c \in Calls, NEW at, MoveTo(c, at), pc[c] \notin Ended \/ at \in Ended,
               joined' = joined
        PROVE  JoinedInv'
    BY <2>1 DEF MoveTo, JoinedInv, TypeOK
  <2>2. ASSUME NEW c \in Calls, TaskStep(c) PROVE JoinedInv'
    <3>1. pc[c] \notin Ended /\ joined' = joined
      BY <2>2 DEF TaskStep, Start, Reserve, Dispatch, Retry, Reject, Abort, Answer, Fail,
                  Running, Ended
    <3>2. PICK at : MoveTo(c, at)
      BY <2>2 DEF TaskStep, Start, Reserve, Dispatch, Retry, Reject, Abort, Answer, Fail
    <3>3. QED
      BY <2>1, <3>1, <3>2
  <2>3. ASSUME NEW c \in Calls, Join(c) PROVE JoinedInv'
    BY <2>3 DEF Join, JoinedInv
  <2>4. ASSUME NEW c \in Calls, Unwind(c) PROVE JoinedInv'
    BY <2>1, <2>4 DEF Unwind, Ended
  <2>5. CASE Begin \/ Crash
    BY <2>5 DEF Begin, Crash, FreshProcess, JoinedInv
  <2>6. CASE Teardown \/ Finish \/ UNCHANGED vars
    BY <2>6 DEF Teardown, Finish, vars, taskVars, JoinedInv
  <2>7. QED
    BY <2>2, <2>3, <2>4, <2>5, <2>6 DEF Next, MainStep
<1>3. TypeOK /\ FreshInv /\ RaisedInv /\ JoinedInv /\ EndInv /\ [Next]_vars => EndInv'
  <2> SUFFICES ASSUME TypeOK, FreshInv, RaisedInv, JoinedInv, EndInv, [Next]_vars
               PROVE  EndInv'
    OBVIOUS
  <2>1. CASE Begin
    BY <2>1 DEF Begin, FreshProcess, EndInv
  <2>2. ASSUME NEW c \in Calls, Start(c) PROVE EndInv'
    <3>1. PICK at \in {"returned", "queued", "failed"} :
            MoveTo(c, at) /\ (at = "returned" => Halted \/ IsDone(c))
      BY <2>2 DEF Start
    <3>2. /\ main \in TasksRun /\ pc[c] \notin Ended
          /\ UNCHANGED <<main, joined, rows, haltedReason, haltExc>>
      BY <2>2 DEF Start, Running, storeVars, haltVars, runVars, Ended
    <3>3. Halted' = Halted /\ c \notin joined
      BY <3>2 DEF Halted, JoinedInv
    <3>4. IsDone(c) => rows'[c].status # "absent"
      BY <3>2 DEF IsDone
    <3>5. QED
      BY <3>1, <3>2, <3>3, <3>4, TaskKeepsEnd
  <2>3. ASSUME NEW c \in Calls, Reserve(c) PROVE EndInv'
    <3>1. PICK at \in {"returned", "limits"} : MoveTo(c, at) /\ (at = "returned" => Halted')
      BY <2>3 DEF Reserve, Halted
    <3>2. /\ main \in TasksRun
          /\ UNCHANGED <<main, joined, rows, haltExc>>
          /\ haltedReason' \in {haltedReason, "budget"}
      BY <2>3 DEF Reserve, Running, storeVars, runVars
    <3>3. Halted => Halted'
      BY <3>2 DEF Halted
    <3>4. QED
      BY <3>1, <3>2, <3>3, TaskKeepsEnd
  <2>4. ASSUME NEW c \in Calls, NEW price, Dispatch(c) \/ Retry(c, price) PROVE EndInv'
    <3>1. PICK at \in {"calling", "backoff"} : MoveTo(c, at)
      BY <2>4 DEF Dispatch, Retry
    <3>2. /\ main \in TasksRun
          /\ UNCHANGED <<main, joined, rows, haltedReason, haltExc>>
      BY <2>4 DEF Dispatch, Retry, Running, storeVars, haltVars, runVars
    <3>3. Halted => Halted'
      BY <3>2 DEF Halted
    <3>4. QED
      BY <3>1, <3>2, <3>3, TaskKeepsEnd
  <2>5. ASSUME NEW c \in Calls, NEW price, Reject(c, price) PROVE EndInv'
    <3>1. /\ main \in TasksRun /\ MoveTo(c, "returned") /\ WriteError(c)
          /\ UNCHANGED <<main, joined, haltedReason, haltExc>>
      BY <2>5 DEF Reject, Running, haltVars, runVars
    <3>2. rows' = [rows EXCEPT ![c] = [status |-> "error", cost |-> 0]]
      BY <3>1 DEF WriteError, PutRow
    <3>3. rows'[c].status = "error" /\ \A d \in Calls \ {c} : rows'[d] = rows[d]
      BY <3>2 DEF TypeOK, StoreTypeOK
    <3>4. Halted => Halted'
      BY <3>1 DEF Halted
    <3>5. QED
      BY <3>1, <3>3, <3>4, TaskKeepsEnd
  <2>6. ASSUME NEW c \in Calls, Abort(c) PROVE EndInv'
    <3>1. /\ main \in TasksRun /\ MoveTo(c, "raised")
          /\ UNCHANGED <<main, joined, rows>>
          /\ haltExc' # "none"
      BY <2>6 DEF Abort, Running, storeVars, runVars, Fatal
    <3>2. Halted'
      BY <3>1 DEF Halted
    <3>3. QED
      BY <3>1, <3>2, TaskKeepsEnd
  <2>7. ASSUME NEW c \in Calls, NEW price \in Prices, Answer(c, price) PROVE EndInv'
    <3>1. PICK at \in {"returned", "raised"} : MoveTo(c, at)
      BY <2>7 DEF Answer
    <3>2. /\ main \in TasksRun
          /\ UNCHANGED <<main, joined>>
          /\ WriteDone(c, price)
          /\ Halted => Halted'
      BY <2>7 DEF Answer, Running, runVars, Halted, Fatal
    <3>3. rows' = [rows EXCEPT ![c] = [status |-> "done", cost |-> price]]
      BY <3>2 DEF WriteDone, PutRow
    <3>4. rows'[c].status = "done" /\ \A d \in Calls \ {c} : rows'[d] = rows[d]
      BY <3>3 DEF TypeOK, StoreTypeOK
    <3>5. QED
      BY <3>1, <3>2, <3>4, TaskKeepsEnd
  <2>8. ASSUME NEW c \in Calls, NEW price \in Prices \cup {0}, Fail(c, price) PROVE EndInv'
    <3>1. /\ main \in TasksRun /\ pc[c] \notin Ended /\ MoveTo(c, "failed")
          /\ UNCHANGED <<main, joined, rows, haltedReason, haltExc>>
      BY <2>8 DEF Fail, Running, storeVars, haltVars, runVars, Ended
    <3>2. Halted' = Halted /\ c \notin joined
      BY <3>1 DEF Halted, JoinedInv
    <3>3. QED
      BY <3>1, <3>2, TaskKeepsEnd
  <2>9. ASSUME NEW c \in Calls, Join(c) PROVE EndInv'
    BY <2>9 DEF Join, EndInv, Halted, haltVars, storeVars
  <2>10. ASSUME NEW c \in Calls, Unwind(c) PROVE EndInv'
    <3>1. main' = main /\ main \in Cancelling /\ UNCHANGED <<haltedReason, haltExc>>
      BY <2>10 DEF Unwind, haltVars, runVars
    <3>2. QED
      BY <3>1 DEF EndInv, Halted, Cancelling
  <2>11. CASE Teardown
    BY <2>11 DEF Teardown, EndInv
  <2>12. CASE Finish
    <3>1. /\ UNCHANGED <<rows, pc, joined, haltedReason, haltExc>>
          /\ main' \in {"raised", "returned"}
          /\ main' = "returned" => main # "unwinding" /\ haltExc = "none"
          /\ main \in MainLive \ {"failing"}
      BY <2>12 DEF Finish, storeVars, taskVars, haltVars
    <3>2. ASSUME main' = "returned", ~Halted
          PROVE  main = "running" /\ \A c \in Calls : pc[c] = "returned"
      <4>1. main = "running"
        BY <3>1, <3>2 DEF MainLive, TasksRun, Cancelling, EndInv
      <4>2. \A c \in Calls : pc[c] \in Ended /\ c \in joined
        BY <2>12, <4>1 DEF Finish
      <4>3. \A c \in Calls : pc[c] # "raised"
        BY <3>1, <3>2 DEF RaisedInv
      <4>4. QED
        BY <4>1, <4>2, <4>3 DEF EndInv, Ended
    <3>3. QED
      BY <3>1, <3>2 DEF EndInv, Halted
  <2>13. CASE Crash
    BY <2>13 DEF Crash, EndInv
  <2>14. CASE UNCHANGED vars
    BY <2>14 DEF vars, storeVars, taskVars, haltVars, runVars, EndInv, Halted
  <2>15. QED
    BY <2>1, <2>2, <2>3, <2>4, <2>5, <2>6, <2>7, <2>8, <2>9, <2>10, <2>11, <2>12, <2>13,
       <2>14 DEF Next, TaskStep, MainStep
<1>4. QED
  BY <1>1, <1>2, <1>3, TypeCorrect, RaisedInvariant, PTL DEF Spec

\* A return without halted_reason has carried every call to a row.
THEOREM CleanReturnIsComplete == Spec => []CleanReturnCovers
<1>1. EndInv /\ RaisedInv => CleanReturnCovers
  BY DEF EndInv, RaisedInv, CleanReturnCovers, Halted
<1>2. QED
  BY <1>1, EndInvariant, RaisedInvariant, PTL

\* After a halt no task passes the semaphore any more.
THEOREM HaltIsEffective == Spec => HaltStopsReserving
<1>1. ASSUME TypeOK, [Next]_vars, Halted
      PROVE  Holding' \subseteq Holding
  <2>1. ASSUME NEW c \in Calls, NEW at, MoveTo(c, at), at \in HoldingAt => pc[c] \in HoldingAt
        PROVE  Holding' \subseteq Holding
    BY <2>1 DEF MoveTo, Holding, HoldingAt, TypeOK
  <2>2. ASSUME NEW c \in Calls, TaskStep(c) PROVE Holding' \subseteq Holding
    <3>1. CASE Start(c)
      <4>1. PICK at \in {"returned", "queued", "failed"} : MoveTo(c, at)
        BY <3>1 DEF Start
      <4>2. QED
        BY <2>1, <4>1 DEF HoldingAt
    <3>2. CASE Reserve(c)
      BY <1>1, <2>1, <3>2 DEF Reserve, HoldingAt
    <3>3. ASSUME NEW price, Dispatch(c) \/ Retry(c, price) PROVE Holding' \subseteq Holding
      BY <2>1, <3>3 DEF Dispatch, Retry, Running, HoldingAt
    <3>4. ASSUME NEW price, Reject(c, price) \/ Abort(c) PROVE Holding' \subseteq Holding
      BY <2>1, <3>4 DEF Reject, Abort, HoldingAt
    <3>5. ASSUME NEW price \in Prices, Answer(c, price) PROVE Holding' \subseteq Holding
      BY <2>1, <3>5 DEF Answer, HoldingAt
    <3>6. ASSUME NEW price \in Prices \cup {0}, Fail(c, price) PROVE Holding' \subseteq Holding
      BY <2>1, <3>6 DEF Fail, HoldingAt
    <3>7. QED
      BY <2>2, <3>1, <3>2, <3>3, <3>4, <3>5, <3>6 DEF TaskStep
  <2>3. ASSUME NEW c \in Calls, Join(c) PROVE Holding' \subseteq Holding
    BY <2>3 DEF Join, Holding
  <2>4. ASSUME NEW c \in Calls, Unwind(c) PROVE Holding' \subseteq Holding
    BY <2>1, <2>4 DEF Unwind, HoldingAt
  <2>5. CASE Begin \/ Crash
    BY <2>5 DEF Begin, Crash, FreshProcess, Holding
  <2>6. CASE Teardown \/ Finish \/ UNCHANGED vars
    BY <2>6 DEF Teardown, Finish, vars, taskVars, Holding
  <2>7. QED
    BY <1>1, <2>2, <2>3, <2>4, <2>5, <2>6 DEF Next, MainStep
<1>2. TypeOK /\ [Next]_vars => [Halted => Holding' \subseteq Holding]_vars
  BY <1>1
<1>3. QED
  BY <1>2, TypeCorrect, PTL DEF Spec, HaltStopsReserving

=============================================================================
