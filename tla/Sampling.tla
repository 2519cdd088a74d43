------------------------------ MODULE Sampling ------------------------------
(***************************************************************************)
(* From a captured file to the traces of a run: the JSONL importer         *)
(* (importers/), the collapse of near-duplicates and the stratified sample *)
(* (sampling.py).  All of it is computed in one go from a file, so this    *)
(* module keeps no state.                                                  *)
(*                                                                         *)
(* Traces and strata carry the order of their ids and keys: both are       *)
(* naturals here.  The quota of a stratum is computed in floating point;   *)
(* the model computes it exactly, with remainders scaled by the total.     *)
(***************************************************************************)
EXTENDS Naturals, Sequences, FiniteSetsExt, SequencesExt

CONSTANTS
  Traces,     \* trace ids
  Valid,      \* the single-turn traces with a response that fit the schema
  Similar,    \* pairs of traces whose shingles overlap by 0.9 or more
  StratumOf,  \* the stratum of each trace
  SampleSize  \* sampling.n

ASSUME SamplingAssumption ==
  /\ Traces \subseteq Nat
  /\ Valid \subseteq Traces
  /\ Similar \subseteq kSubset(2, Traces)
  /\ StratumOf \in [Traces -> Nat]
  /\ SampleSize \in Nat \ {0}

-----------------------------------------------------------------------------
(* Import. *)

\* One user message, an answer unless it is a backfill, and the schema.
Admissible(line) == line \in Valid

\* Malformed lines are skipped, traces that fail validation are excluded, and
\* of several lines with one trace id the first is kept.
Import(text) ==
  FoldLeft(LAMBDA records, line :
             IF Admissible(line) /\ ~Contains(records, line) THEN Append(records, line)
             ELSE records,
           <<>>, text)

-----------------------------------------------------------------------------
(* Near-duplicates. *)

Near(r, s) == r = s \/ {r, s} \in Similar

\* Mutant: a record is compared with the last representative only.
RepresentativesByLast(records) ==
  FoldLeft(LAMBDA reps, r :
             IF reps # <<>> /\ Near(Last(reps), r) THEN reps ELSE Append(reps, r),
           <<>>, records)

\* deduplicate_traces: the first representative near enough takes the record.
Representatives(records) ==
  FoldLeft(LAMBDA reps, r :
             IF \E i \in DOMAIN reps : Near(reps[i], r) THEN reps ELSE Append(reps, r),
           <<>>, records)

-----------------------------------------------------------------------------
(* The quotas of the strata. *)

Iterate(Step(_), start, times) ==
  LET after[i \in 0..times] == IF i = 0 THEN start ELSE Step(after[i - 1])
  IN after[times]

\* The strata in the order of (larger first, then key).
Leaders(sizes, n) ==
  {k \in DOMAIN sizes :
     Cardinality({j \in DOMAIN sizes : sizes[j] > sizes[k] \/ (sizes[j] = sizes[k] /\ j < k)}) < n}

BaseQuota(sizes, n) ==
  [k \in DOMAIN sizes |-> Min({sizes[k], Max({1, (n * sizes[k]) \div SumFunction(sizes)})})]

\* The largest quota that still exceeds one loses one, the last key first.
Shrink(quotas, n) ==
  LET open == {k \in DOMAIN quotas : quotas[k] > 1}
      victim == CHOOSE k \in open :
                  \A j \in open \ {k} : quotas[j] < quotas[k] \/ (quotas[j] = quotas[k] /\ j < k)
  IN IF SumFunction(quotas) <= n \/ open = {} THEN quotas
     ELSE [quotas EXCEPT ![victim] = @ - 1]

\* Mutant: the stratum with the largest remainder takes it, full or not.
GrowOverfull(quotas, sizes, n) ==
  LET remainder(k) == (n * sizes[k]) % SumFunction(sizes)
      open == DOMAIN quotas
      next == CHOOSE k \in open : \A j \in open \ {k} :
                remainder(j) < remainder(k) \/ (remainder(j) = remainder(k) /\ j > k)
  IN IF SumFunction(quotas) >= n THEN quotas ELSE [quotas EXCEPT ![next] = @ + 1]

\* The stratum with the largest remainder that has traces left gains one.  The
\* loop starts again from the top, so that the same stratum gains until it is
\* exhausted.
Grow(quotas, sizes, n) ==
  LET remainder(k) == (n * sizes[k]) % SumFunction(sizes)
      open == {k \in DOMAIN quotas : quotas[k] < sizes[k]}
      next == CHOOSE k \in open : \A j \in open \ {k} :
                remainder(j) < remainder(k) \/ (remainder(j) = remainder(k) /\ j > k)
  IN IF SumFunction(quotas) >= n \/ open = {} THEN quotas ELSE [quotas EXCEPT ![next] = @ + 1]

\* _allocate_quotas
AllocateQuotas(stratumSizes, n) ==
  LET sizes == [k \in {j \in DOMAIN stratumSizes : stratumSizes[j] > 0} |-> stratumSizes[k]]
      shrunk == Iterate(LAMBDA q : Shrink(q, n), BaseQuota(sizes, n), SumFunction(sizes))
      grown == Iterate(LAMBDA q : Grow(q, sizes, n), shrunk, n)
      quotas == IF n < Cardinality(DOMAIN sizes)
                THEN [k \in DOMAIN sizes |-> IF k \in Leaders(sizes, n) THEN 1 ELSE 0]
                ELSE grown
  IN [k \in DOMAIN stratumSizes |-> IF k \in DOMAIN sizes THEN quotas[k] ELSE 0]

-----------------------------------------------------------------------------
(* The sample. *)

Stratum(traces, k) == {t \in traces : StratumOf[t] = k}

StratumSizes(traces) ==
  [k \in {StratumOf[t] : t \in traces} |-> Cardinality(Stratum(traces, k))]

\* Any sample that the seeded generator may draw.
StratifiedSamples(available) ==
  LET quotas == AllocateQuotas(StratumSizes(available), SampleSize)
  IN {S \in SUBSET available :
        \A k \in DOMAIN quotas : Cardinality(Stratum(S, k)) = quotas[k]}

\* sample_traces
Samples(records) ==
  LET available == ToSet(Representatives(records))
  IN IF SampleSize >= Cardinality(available) THEN {available} ELSE StratifiedSamples(available)

-----------------------------------------------------------------------------
\* The reference for the quotas: they add up to the sample, no stratum is
\* asked for more than it has, and each stratum is sampled unless there are
\* more strata than traces to sample; then the largest are.  The two loops
\* pass over a stratum that is full or down to one, and stop when there is
\* nothing left to move (sampling.py:193).
QuotasMeet(sizes, n) ==
  LET quotas == AllocateQuotas(sizes, n)
      strata == {k \in DOMAIN sizes : sizes[k] > 0}
  IN /\ SumFunction(quotas) = Min({n, SumFunction(sizes)})
     /\ \A k \in DOMAIN sizes : quotas[k] <= sizes[k]
     /\ IF n >= Cardinality(strata) THEN \A k \in strata : quotas[k] >= 1
        ELSE \A j, k \in strata : sizes[j] > sizes[k] => quotas[j] >= quotas[k]

=============================================================================
