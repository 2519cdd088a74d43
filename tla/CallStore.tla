------------------------------ MODULE CallStore ------------------------------
(***************************************************************************)
(* The sqlite call table of one phase of one run (replay/store.py).  A row *)
(* is keyed by (phase, run_id, trace_id, sample_index); with the phase and *)
(* the run fixed, the key is an element of Calls.  Every operation opens   *)
(* its own connection and commits, so each is a single atomic step that    *)
(* survives a crash of the process.                                        *)
(***************************************************************************)
EXTENDS Integers, Functions

CONSTANT
  Calls   \* the (trace, sample index) pairs of the phase

VARIABLE
  rows    \* the row of each call

storeVars == <<rows>>

Row == [status : {"absent", "error", "done"}, cost : Nat]

StoreTypeOK == rows \in [Calls -> Row]

StoreInit == rows = [c \in Calls |-> [status |-> "absent", cost |-> 0]]

\* get_done: only a row whose status is 'done' is an answer to reuse.
IsDone(c) == rows[c].status = "done"

\* total_cost: the summed cost of the done rows.
BookedCost(c) == IF IsDone(c) THEN rows[c].cost ELSE 0
TotalCost == SumFunction([c \in Calls |-> BookedCost(c)])

\* insert or replace: whatever row the key had before is gone.
PutRow(c, row) == rows' = [rows EXCEPT ![c] = row]

WriteDone(c, amount) == PutRow(c, [status |-> "done", cost |-> amount])

\* An error row is stored with cost 0.0.
WriteError(c) == PutRow(c, [status |-> "error", cost |-> 0])

=============================================================================
