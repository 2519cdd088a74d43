----------------------------- MODULE Checkpoint -----------------------------
(***************************************************************************)
(* What the call table promises to whoever resumes a run: a call moves to  *)
(* "done" once, with its cost, and is final from then on; a call that is   *)
(* not done may be recorded as an error any number of times and be tried   *)
(* again.  Nothing is said about tasks, retries, budgets or crashes: the   *)
(* replay runner must provide this through all of them.                    *)
(***************************************************************************)
EXTENDS CallStore

CONSTANT Amounts  \* what a done row may cost

Bank(c, amount) ==
  /\ ~IsDone(c)
  /\ PutRow(c, [status |-> "done", cost |-> amount])

RecordError(c) ==
  /\ ~IsDone(c)
  /\ PutRow(c, [status |-> "error", cost |-> 0])

Next ==
  \/ \E c \in Calls, amount \in Amounts : Bank(c, amount)
  \/ \E c \in Calls : RecordError(c)

Spec == StoreInit /\ [][Next]_storeVars

=============================================================================
