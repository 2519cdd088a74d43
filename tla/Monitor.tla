------------------------------- MODULE Monitor -------------------------------
(***************************************************************************)
(* The monitor (monitor.py): `acsi monitor init` copies a suite of traces  *)
(* and their baseline answers out of a run directory, `acsi monitor run`   *)
(* replays the suite and reports drift by its exit code.  The two commands *)
(* are processes of their own and share the files golden.jsonl and         *)
(* golden_manifest.json.  The command replays with a FakeClient, which     *)
(* says that it serves the pinned model unless it is told otherwise;       *)
(* run_monitor takes any client, and so does this module.                  *)
(*                                                                         *)
(* A run directory is what the pipeline has left there so far.  The replay *)
(* is one step, with the outcomes that Replay allows for one call at a     *)
(* time, and whatever was banked stays banked.                             *)
(***************************************************************************)
EXTENDS Sampling

CONSTANTS
  TemplateOf,  \* meta.template_id of each, in its order
  Runs,        \* run directories
  SuiteSize,   \* monitor.suite_size
  Bound,       \* the stored noise floor of each run, in percent
  Epsilon,     \* monitor.epsilon_pp
  Pinned,      \* the name of the pinned model
  Answers,     \* what a provider may answer, as the report sees it
  Lapses,      \* the critical assertions that each baseline answer fails
  Failable,    \* bound: the traces whose candidate answer may fail an assertion
  Losable,     \* bound: ... and whose baseline answer may be missing
  MaxInits,    \* bound: invocations of `acsi monitor init`
  MaxWatches   \* bound: invocations of `acsi monitor run`

\* A row of the call table: the model that the response names ("" when it
\* names none), whether the text differs from the baseline beyond noise, and
\* the critical assertions it fails.
NoRow == [row |-> "absent", model |-> "", beyond |-> FALSE, breaks |-> {}]
ErrorRow == [NoRow EXCEPT !.row = "error"]

ASSUME MonitorAssumption ==
  /\ TemplateOf \in [Traces -> Nat]
  /\ SuiteSize \in Nat \ {0}
  /\ Bound \in [Runs -> 0..100]
  /\ Epsilon \in 0..100
  /\ \A answer \in Answers : answer.row = "done"
  /\ \A t \in Traces : IsFiniteSet(Lapses[t])
  /\ Failable \subseteq Traces
  /\ Losable \subseteq Traces
  /\ MaxInits \in Nat
  /\ MaxWatches \in Nat

VARIABLES
  dirs,      \* what each run directory holds
  golden,    \* golden.jsonl
  manifest,  \* golden_manifest.json
  init,      \* the process of `acsi monitor init`
  table,     \* the call table of the monitor run in use
  watch,     \* the process of `acsi monitor run`
  inits, watches

fileVars == <<golden, manifest>>
watchVars == <<table, watch, watches>>
monitorVars == <<dirs, fileVars, init, inits, watchVars>>

None == "none"

NoDir == [stage |-> "absent", sample |-> {}, answered |-> {}, failing |-> {}]
NoSuite == [file |-> "absent", run |-> None, rows |-> <<>>]
NoManifest == [file |-> "absent", run |-> None]

\* matched records, for the properties, that the last init that wrote anything
\* wrote both files; calm, that no init wrote between the two reads either.
Resting == [pc |-> "idle", run |-> None, rows |-> <<>>, matched |-> FALSE]
Asleep == [pc |-> "idle", run |-> None, suite |-> NoSuite, calm |-> FALSE, exit |-> None]

MonitorTypeOK ==
  /\ dirs \in [Runs -> [stage : {"absent", "answered", "certified"}, sample : SUBSET Traces,
                        answered : SUBSET Traces, failing : SUBSET Traces]]
  /\ golden.file \in {"absent", "torn", "whole"}
  /\ golden.run \in Runs \cup {None}
  /\ golden.rows \in Seq(Traces)
  /\ manifest \in [file : {"absent", "torn", "whole"}, run : Runs \cup {None}]
  /\ init.pc \in {"idle", "suite", "golden"}
  /\ init.run \in Runs \cup {None}
  /\ init.rows \in Seq(Traces)
  /\ table \in [Traces -> Answers \cup {NoRow, ErrorRow}]
  /\ watch.pc \in {"idle", "manifest", "replay", "report"}
  /\ watch.run \in Runs \cup {None}
  /\ watch.exit \in {None, "quiet", "drift", "retired", "error"}
  /\ watch.exit \in {"quiet", "drift"} => IsInjective(watch.suite.rows)
  /\ inits \in 0..MaxInits
  /\ watches \in 0..MaxWatches

MonitorInit ==
  /\ dirs = [r \in Runs |-> NoDir]
  /\ golden = NoSuite
  /\ manifest = NoManifest
  /\ init = Resting
  /\ table = [t \in Traces |-> NoRow]
  /\ watch = Asleep
  /\ inits = 0
  /\ watches = 0

-----------------------------------------------------------------------------
(* The run directories. *)

\* The stages up to the diff: the answers of the baseline, one of which may be
\* missing, and the failed assertions.
AnswerRun(r, sample) ==
  /\ dirs[r].stage = "absent"
  /\ \E answered \in {sample} \cup {sample \ {t} : t \in Losable} :
     \E failing \in SUBSET (answered \cap Failable) :
       dirs' = [dirs EXCEPT ![r] = [stage |-> "answered", sample |-> sample,
                                    answered |-> answered, failing |-> failing]]
  /\ UNCHANGED <<fileVars, init, inits, watchVars>>

\* The certificate needs candidate answers to the whole sample, which are there
\* by now; it does not ask for the baseline's.
CertifyRun(r) ==
  /\ dirs[r].stage = "answered"
  /\ dirs' = [dirs EXCEPT ![r].stage = "certified"]
  /\ UNCHANGED <<fileVars, init, inits, watchVars>>

-----------------------------------------------------------------------------
(* `acsi monitor init`. *)

\* A trace stands behind those before it.  Said without SortSeq, which TLC
\* evaluates but nothing can be proved about.
Sorted(traces, Before(_, _)) ==
  LET before == [t \in traces |-> Cardinality({s \in traces : Before(s, t)})]
  IN [i \in 1..Cardinality(traces) |-> CHOOSE t \in traces : before[t] = i - 1]

ById(traces) == Sorted(traces, LAMBDA s, t : s < t)
ByTemplate(traces) ==
  Sorted(traces, LAMBDA s, t : TemplateOf[s] < TemplateOf[t]
                                 \/ (TemplateOf[s] = TemplateOf[t] /\ s < t))

\* The first trace of each template, in addition to what was selected.
OnePerTemplate(selected, traces) ==
  FoldLeft(LAMBDA acc, t :
             IF Len(acc.rows) >= SuiteSize \/ TemplateOf[t] \in acc.seen \/ Contains(acc.rows, t)
             THEN acc
             ELSE [rows |-> Append(acc.rows, t), seen |-> acc.seen \cup {TemplateOf[t]}],
           [rows |-> selected, seen |-> {}], ByTemplate(traces)).rows

FillUp(selected, traces) ==
  FoldLeft(LAMBDA rows, t :
             IF Len(rows) >= SuiteSize \/ Contains(rows, t) THEN rows ELSE Append(rows, t),
           selected, ById(traces))

\* _select_suite: every trace with a row in assertion_results.jsonl, then one
\* for each template, then any, up to the size of the suite.
SelectSuite(sample, failing) ==
  FillUp(OnePerTemplate(ById(failing \cap sample), sample), sample)

\* The suite is chosen in memory.  A run directory without sampled traces gives
\* an empty suite; a trace without a baseline answer ends the command.
ChooseSuite(r) ==
  /\ init.pc = "idle"
  /\ inits < MaxInits
  /\ inits' = inits + 1
  /\ LET rows == SelectSuite(dirs[r].sample, dirs[r].failing)
     IN init' = IF ToSet(rows) \subseteq dirs[r].answered
                THEN [init EXCEPT !.pc = "suite", !.run = r, !.rows = rows]
                ELSE init
  /\ UNCHANGED <<dirs, fileVars, watchVars>>

\* A reader between its two reads sees files of two invocations.
Disturb == watch' = IF watch.pc = "manifest" THEN [watch EXCEPT !.calm = FALSE] ELSE watch

WriteGolden ==
  /\ init.pc = "suite"
  /\ golden' = [file |-> "whole", run |-> init.run, rows |-> init.rows]
  /\ init' = [init EXCEPT !.pc = "golden", !.matched = FALSE]
  /\ Disturb
  /\ UNCHANGED <<dirs, manifest, inits, table, watches>>

\* Mutant: an existing manifest is kept.
WriteManifestOnce ==
  /\ init.pc = "golden"
  /\ dirs[init.run].stage = "certified"
  /\ manifest' = IF manifest.file = "absent" THEN [file |-> "whole", run |-> init.run] ELSE manifest
  /\ init' = [Resting EXCEPT !.matched = TRUE]
  /\ UNCHANGED <<dirs, golden, inits, watchVars>>

\* cert.json is read after golden.jsonl was replaced.
WriteManifest ==
  /\ init.pc = "golden"
  /\ dirs[init.run].stage = "certified"
  /\ manifest' = [file |-> "whole", run |-> init.run]
  /\ init' = [Resting EXCEPT !.matched = TRUE]
  /\ UNCHANGED <<dirs, golden, inits, watchVars>>

\* Without a certificate the command fails, and the manifest stays what it was.
NoCertificate ==
  /\ init.pc = "golden"
  /\ dirs[init.run].stage # "certified"
  /\ init' = Resting
  /\ UNCHANGED <<dirs, fileVars, inits, watchVars>>

\* The process dies before or within one of its writes: golden.jsonl keeps the
\* rows that had reached it, whole lines or not.
InitDies ==
  /\ \/ /\ init.pc = "suite"
        /\ \/ UNCHANGED <<golden, watch>> /\ init' = [Resting EXCEPT !.matched = init.matched]
           \/ /\ \/ golden' = [NoSuite EXCEPT !.file = "torn"]
                 \/ \E n \in 0..Len(init.rows) :
                      golden' = [file |-> "whole", run |-> init.run, rows |-> SubSeq(init.rows, 1, n)]
              /\ Disturb
              /\ init' = Resting
        /\ UNCHANGED manifest
     \/ /\ init.pc = "golden"
        /\ manifest' \in {manifest, [file |-> "torn", run |-> None]}
        /\ init' = Resting
        /\ UNCHANGED <<golden, watch>>
  /\ UNCHANGED <<dirs, inits, table, watches>>

-----------------------------------------------------------------------------
(* `acsi monitor run`. *)

\* With --run-id of an earlier run the table goes on where it was; without, a
\* new table is made.
StartWatch ==
  /\ watch.pc = "idle"
  /\ watches < MaxWatches
  /\ watches' = watches + 1
  /\ IF manifest.file = "whole"
     THEN /\ watch' = [Asleep EXCEPT !.pc = "manifest", !.run = manifest.run, !.calm = init.matched]
          /\ table' \in {table, [t \in Traces |-> NoRow]}
     ELSE watch' = [Asleep EXCEPT !.exit = "error"] /\ UNCHANGED table
  /\ UNCHANGED <<dirs, fileVars, init, inits>>

ReadGolden ==
  /\ watch.pc = "manifest"
  /\ watch' = IF golden.file = "whole" /\ golden.rows # <<>>
              THEN [watch EXCEPT !.pc = "replay", !.suite = golden]
              ELSE [Asleep EXCEPT !.exit = "error"]
  /\ UNCHANGED <<dirs, fileVars, init, inits, table, watches>>

Suite == ToSet(watch.suite.rows)

\* Rows of the suite that are not done are asked for; done is final.
Replayed ==
  LET asked == {t \in Suite : table[t].row # "done"}
  IN {[t \in Traces |-> IF t \in asked /\ got[t] # NoRow THEN got[t] ELSE table[t]] :
        got \in [asked -> Answers \cup {NoRow, ErrorRow}]}

\* The replay returns: every call is done or an error, or was stopped by the
\* budget.  The report looks at those that are done, however few.
ReplayReturns ==
  /\ watch.pc = "replay"
  /\ table' \in Replayed
  /\ watch' = [watch EXCEPT !.pc = "report"]
  /\ UNCHANGED <<dirs, fileVars, init, inits, watches>>

\* The command exits with 0 (quiet), 2 (drift, a retired model) or 1.
Ended(exit) == [watch EXCEPT !.pc = "idle", !.exit = exit]

\* An interrupt, a fatal status or a crash, after any part of the suite.  A 404
\* reports the pinned model as retired.
ReplayStops ==
  /\ watch.pc = "replay"
  /\ table' \in Replayed
  /\ watch' \in {Ended("error"), Ended("retired")}
  /\ UNCHANGED <<dirs, fileVars, init, inits, watches>>

Answered == {t \in Suite : table[t].row = "done"}

\* current_calls are the done rows of the whole table, suite or not.
ServedModels == {table[t].model : t \in {s \in Traces : table[s].row = "done"}} \ {""}

BeyondNoise ==
  100 * Cardinality({t \in Answered : table[t].beyond})
    > (Bound[watch.run] + Epsilon) * Cardinality(Answered)

\* _critical_assertion_failures yields assertion ids: one that some baseline
\* answer of the suite fails cannot regress any more.
AssertionRegressed ==
  UNION {table[t].breaks : t \in Answered} \ UNION {Lapses[t] : t \in Suite} # {}

OtherModel == ServedModels # {} /\ ServedModels # {Pinned}

Drift == BeyondNoise \/ AssertionRegressed \/ OtherModel

Report ==
  /\ watch.pc = "report"
  /\ watch' = Ended(IF Drift THEN "drift" ELSE "quiet")
  /\ UNCHANGED <<dirs, fileVars, init, inits, table, watches>>

MonitorStep ==
  \/ \E r \in Runs : CertifyRun(r) \/ ChooseSuite(r)
  \/ WriteGolden \/ WriteManifest \/ NoCertificate \/ InitDies
  \/ StartWatch \/ ReadGolden \/ ReplayReturns \/ ReplayStops \/ Report

-----------------------------------------------------------------------------
\* What a suite must be, whatever order it is chosen in: part of the sample,
\* with all traces that failed an assertion; no larger than the configured size
\* unless those alone are; and with each template of the sample when there is
\* room for one of each beside them.
SuiteOf(r, rows) ==
  LET sample == dirs[r].sample
      failing == dirs[r].failing
      templates == {TemplateOf[t] : t \in sample}
  IN /\ failing \subseteq rows
     /\ rows \subseteq sample
     /\ Cardinality(rows) = Max({Cardinality(failing), Min({SuiteSize, Cardinality(sample)})})
     /\ SuiteSize >= Cardinality(failing) + Cardinality(templates) =>
          templates = {TemplateOf[t] : t \in rows}

\* A report compares the suite of one run with the noise floor of the same run,
\* and the suite is what was promised, unless an init failed or died after it
\* had replaced the suite, or wrote between the two reads (monitor.py:87-103,
\* 122-123).
JudgedSuiteIsSound ==
  watch.exit \in {"quiet", "drift"} /\ watch.calm =>
    watch.suite.run = watch.run /\ SuiteOf(watch.run, Suite)

=============================================================================
