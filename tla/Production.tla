----------------------------- MODULE Production -----------------------------
(***************************************************************************)
(* The life of a workload: the service captures its traffic, the file is   *)
(* imported, collapsed and sampled by the first stages of a run            *)
(* (cli.import_, cli.run), runs are certified over the sample, and the     *)
(* monitor watches the pinned model with a suite taken from one of them.   *)
(*                                                                         *)
(* The steps before the monitor are in the order in which an operator      *)
(* takes them.  The service may crash and restart before its file is       *)
(* imported, and the import reads what is there.                           *)
(***************************************************************************)
EXTENDS Capture, Monitor

VARIABLES
  records,   \* .acsi/traces/<workload>.jsonl
  sample     \* sampled_traces.jsonl; the seed makes it the same in every run

sampleVars == <<records, sample>>
vars == <<captureVars, sampleVars, monitorVars>>

TypeOK ==
  /\ CaptureTypeOK
  /\ MonitorTypeOK
  /\ records \in Seq(Valid) /\ IsInjective(records)
  /\ sample \subseteq ToSet(records) /\ Cardinality(sample) <= SampleSize

Init ==
  /\ CaptureInit
  /\ MonitorInit
  /\ records = <<>>
  /\ sample = {}

Captured ==
  /\ records = <<>>
  /\ CaptureNext
  /\ UNCHANGED <<sampleVars, monitorVars>>

\* What a reader of the file sees: a tail is a line too.
Text == IF tail = Nothing THEN lines ELSE Append(lines, tail)

\* Without --out the traces name the workload; without a trace nothing does.
Importable == Import(Text) # <<>>

\* `acsi import jsonl`, once.
ImportTraces ==
  /\ ~service.alive
  /\ records = <<>>
  /\ Importable
  /\ records' = Import(Text)
  /\ UNCHANGED <<captureVars, sample, monitorVars>>

\* The sample stage; scrubbing renames what it finds in a trace, not the trace.
SampleTraces ==
  /\ records # <<>>
  /\ sample = {}
  /\ sample' \in Samples(records)
  /\ UNCHANGED <<captureVars, records, monitorVars>>

Watched ==
  /\ sample # {}
  /\ \/ MonitorStep
     \/ \E r \in Runs : AnswerRun(r, sample)
  /\ UNCHANGED <<captureVars, sampleVars>>

Next == Captured \/ ImportTraces \/ SampleTraces \/ Watched

\* The writer thread is scheduled; nothing says that the service ever captures
\* an event, closes the writer or stays alive.
Spec == Init /\ [][Next]_vars /\ WF_vars(Captured /\ ThreadStep)

-----------------------------------------------------------------------------
\* Whatever was dropped, torn or collapsed on the way, the sample stands for
\* everything that can be read from the captured file: each valid trace is
\* near a representative, no two sampled traces are near each other, the sample
\* is as large as asked for or takes every representative, and each stratum
\* has a sampled trace when there is room for one of each (sampling.py:41-119).
SampleCoversCapture ==
  sample # {} =>
    LET captured == {t \in Valid : \E i \in DOMAIN Text : Text[i] = t}
        reps == ToSet(Representatives(records))
    IN /\ \A t \in captured : \E r \in reps : Near(r, t)
       /\ \A s, t \in sample : s # t => ~Near(s, t)
       /\ Cardinality(sample) = Min({SampleSize, Cardinality(reps)})
       /\ SampleSize >= Cardinality({StratumOf[r] : r \in reps}) =>
            {StratumOf[t] : t \in sample} = {StratumOf[r] : r \in reps}

=============================================================================
