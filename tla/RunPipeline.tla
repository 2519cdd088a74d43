----------------------------- MODULE RunPipeline -----------------------------
(***************************************************************************)
(* `acsi run` over one run directory (cli.py, baseline.py): the stages of  *)
(* the pipeline, what each reads and writes, and what a crash between any  *)
(* two writes leaves for the invocation that resumes the run.              *)
(*                                                                         *)
(* The call table is used as Checkpoint promises it: a call is absent or   *)
(* done, and done is final for the replay runner.  An artifact is          *)
(* represented by the evidence it was computed from: the calls that the    *)
(* code had read, each with the origin of its answer.                      *)
(***************************************************************************)
EXTENDS Naturals, FiniteSets

CONSTANTS
  Traces,     \* the sampled traces
  K,          \* sampling.k_baseline
  Commands,   \* the option sets an operator may start the command with
  Switching,  \* whether a later invocation may use other options
  MaxFaults   \* bound: crashes, provider aborts and calls that stay failed

Command == [mode : {"fake", "live"}, baseline : {"full", "degraded"}]

ASSUME PipelineAssumption ==
  /\ Traces # {}
  /\ K \in Nat \ {0}
  /\ Commands \subseteq Command
  /\ Switching \in BOOLEAN
  /\ MaxFaults \in Nat

Calls ==
  [phase : {"baseline"}, trace : Traces, sample : 0..(K - 1)]
    \cup [phase : {"candidate"}, trace : Traces, sample : {0}]

Origin == {"absent", "fake", "live", "historical"}
Evidence == [Calls -> Origin]
NoEvidence == [c \in Calls |-> "absent"]

Prelims == {"import-check", "scrub", "sample"}
Derived == {"diff", "judge", "cluster"}
Stages == Prelims \cup {"baseline", "replay"} \cup Derived \cup {"verdict", "cert"}

VARIABLES
  rows,     \* the done rows of replay.sqlite, by origin of the answer
  file,     \* baseline/responses.jsonl and candidate/responses.jsonl
  noise,    \* baseline/noise_floor.json
  derived,  \* assertion_results.jsonl, judgments.jsonl, clusters.json
  runJson,  \* run.json: its stages and its client_mode field
  cert,     \* cert.json, and the command that issued it
  rebuilt,  \* client_mode of the certificate that rebuild-cert wrote
  stage,    \* the stage the process is in; "down" when there is no process
  step,     \* ... and the next thing it does there
  mem,      \* the `stages` dict of the process
  command,  \* the options of the current invocation
  outcome,  \* how the last invocation ended
  faults    \* how many faults have happened

diskVars == <<rows, file, noise, derived, runJson, cert, rebuilt>>
procVars == <<stage, step, mem, command, outcome>>
vars == <<diskVars, procVars, faults>>

Steps == {"enter", "call", "manifest", "noise", "file", "mark"}

TypeOK ==
  /\ rows \in Evidence
  /\ file \in Evidence
  /\ noise \in [kind : {"missing", "measured", "unavailable"}, of : Evidence]
  /\ derived \in [Derived -> Evidence]
  /\ runJson \in [state : {"missing", "intact", "torn"}, stages : SUBSET Stages,
                  mode : {"none", "fake", "live"}]
  /\ cert \in [by : {"none", "run", "cert"}, mode : {"none", "fake", "live"},
               baseline : {"none", "full", "degraded"}, of : Evidence]
  /\ rebuilt \in {"none", "fake", "live"}
  /\ stage \in Stages \cup {"floor", "down"}
  /\ step \in Steps
  /\ mem \subseteq Stages
  /\ command \in Commands
  /\ outcome \in {"none", "ok", "refused", "failed", "corrupt", "crashed"}
  /\ faults \in 0..MaxFaults

Init ==
  /\ rows = NoEvidence
  /\ file = NoEvidence
  /\ noise = [kind |-> "missing", of |-> NoEvidence]
  /\ derived = [d \in Derived |-> NoEvidence]
  /\ runJson = [state |-> "missing", stages |-> {}, mode |-> "none"]
  /\ cert = [by |-> "none", mode |-> "none", baseline |-> "none", of |-> NoEvidence]
  /\ rebuilt = "none"
  /\ stage = "down"
  /\ step = "enter"
  /\ mem = {}
  /\ command \in Commands
  /\ outcome = "none"
  /\ faults = 0

-----------------------------------------------------------------------------
(* Coverage of the sample, by the table or by the response files. *)

Phase(p) == {c \in Calls : c.phase = p}
Has(evidence, c) == evidence[c] # "absent"

\* _replay_stage_covered
Covered(p) == \A c \in Phase(p) : Has(rows, c)

\* The candidate part of _assert_evidence_floor; also _assert_candidate_coverage.
CandidateCovered(evidence) == \A c \in Phase("candidate") : Has(evidence, c)

BaselineSamples(evidence, t) ==
  Cardinality({c \in Phase("baseline") : c.trace = t /\ Has(evidence, c)})

\* Mutant: one baseline sample is enough.
FloorHoldsOneSample(evidence, cmd) ==
  /\ CandidateCovered(evidence)
  /\ \A t \in Traces : BaselineSamples(evidence, t) >= 1

\* _assert_evidence_floor
FloorHolds(evidence, cmd) ==
  /\ CandidateCovered(evidence)
  /\ \A t \in Traces :
       BaselineSamples(evidence, t) >= (IF cmd.baseline = "degraded" THEN 1 ELSE K)

-----------------------------------------------------------------------------
(* Control of the process. *)

At(s, what) == stage = s /\ step = what
Go(s, what) == stage' = s /\ step' = what
Spend == faults < MaxFaults /\ faults' = faults + 1

After(s) ==
  CASE s = "import-check" -> "scrub"
    [] s = "scrub" -> "sample"
    [] s = "sample" -> "baseline"
    [] s = "baseline" -> "replay"
    [] s = "replay" -> "floor"
    [] s = "floor" -> "diff"
    [] s = "diff" -> "judge"
    [] s = "judge" -> "cluster"
    [] s = "cluster" -> "verdict"

Exit(how) == Go("down", "enter") /\ mem' = {} /\ outcome' = how

\* _mark_stage: the in-memory stages replace those of the file, whose other
\* fields stay.
MarkStage(s) ==
  /\ mem' = mem \cup {s}
  /\ runJson' = [runJson EXCEPT !.state = "intact", !.stages = mem']

\* The command line, up to the first stage.  A run.json that does not parse
\* ends the invocation in _load_run_state.
Invoke ==
  /\ stage = "down"
  /\ command' \in (IF Switching THEN Commands ELSE {command})
  /\ IF runJson.state = "torn"
       THEN outcome' = "corrupt" /\ UNCHANGED <<stage, step, mem>>
       ELSE /\ Go("import-check", "enter")
            /\ mem' = runJson.stages
            /\ outcome' = "none"
  /\ UNCHANGED <<diskVars, faults>>

\* import-check, scrub and sample: their artifact is written before the mark
\* and is the same whenever it is written.
Prelim(s) ==
  /\ At(s, "enter")
  /\ Go(After(s), "enter")
  /\ IF s \in mem THEN UNCHANGED <<runJson, mem>> ELSE MarkStage(s)
  /\ UNCHANGED <<rows, file, noise, derived, cert, rebuilt, command, outcome, faults>>

-----------------------------------------------------------------------------
(* The two replay stages. *)

PhaseOf(s) == IF s = "baseline" THEN "baseline" ELSE "candidate"
Degraded(s) == s = "baseline" /\ command.baseline = "degraded"

\* Mutant: the status of the stage decides, not its coverage.
EnterReplayByStatus(s) ==
  /\ At(s, "enter")
  /\ IF s \in mem THEN Go(After(s), "enter") ELSE Go(s, "call")
  /\ UNCHANGED <<diskVars, mem, command, outcome, faults>>

\* A finished stage is skipped only if the table covers the sample.
EnterReplay(s) ==
  /\ At(s, "enter")
  /\ IF s \in mem /\ Covered(PhaseOf(s))
       THEN Go(After(s), "enter")
       ELSE Go(s, "call")
  /\ UNCHANGED <<diskVars, mem, command, outcome, faults>>

\* One call that is not in the table is answered and banked.
Bank(s) ==
  /\ At(s, "call")
  /\ ~Degraded(s)
  /\ \E c \in Phase(PhaseOf(s)) :
       /\ ~Has(rows, c)
       /\ rows' = [rows EXCEPT ![c] = command.mode]
  /\ UNCHANGED <<file, noise, derived, runJson, cert, rebuilt, procVars, faults>>

FirstSamples == {c \in Phase("baseline") : c.sample = 0}

\* _write_degraded_baseline_calls: the recorded answer replaces whatever the
\* table has for sample 0.
BankHistorical ==
  /\ At("baseline", "call")
  /\ Degraded("baseline")
  /\ \E c \in FirstSamples :
       /\ rows[c] # "historical"
       /\ rows' = [rows EXCEPT ![c] = "historical"]
  /\ UNCHANGED <<file, noise, derived, runJson, cert, rebuilt, procVars, faults>>

Replayed(s) ==
  IF Degraded(s) THEN \A c \in FirstSamples : rows[c] = "historical"
                 ELSE Covered(PhaseOf(s))

CallsReturn(s) ==
  /\ At(s, "call")
  /\ Replayed(s)
  /\ Go(s, IF s = "baseline" THEN "manifest" ELSE "file")
  /\ UNCHANGED <<diskVars, mem, command, outcome, faults>>

\* replay() also returns when calls stay failed or the budget halts it.
CallsReturnShort(s) ==
  /\ At(s, "call")
  /\ ~Degraded(s) /\ ~Covered(PhaseOf(s))
  /\ Spend
  /\ Go(s, IF s = "baseline" THEN "manifest" ELSE "file")
  /\ UNCHANGED <<diskVars, mem, command, outcome>>

\* Mutant: the endpoint is recorded as the client mode.
BaselineManifestEndpoint ==
  /\ At("baseline", "manifest")
  /\ runJson' = [state |-> "intact", stages |-> {},
                 mode |-> IF Degraded("baseline") THEN "degraded" ELSE command.mode]
  /\ Go("baseline", "noise")
  /\ UNCHANGED <<rows, file, noise, derived, cert, rebuilt, mem, command, outcome, faults>>

\* run_baseline overwrites run.json: no stages, and client_mode by default.
BaselineManifest ==
  /\ At("baseline", "manifest")
  /\ runJson' = [state |-> "intact", stages |-> {}, mode |-> "fake"]
  /\ Go("baseline", "noise")
  /\ UNCHANGED <<rows, file, noise, derived, cert, rebuilt, mem, command, outcome, faults>>

\* Mutant: the noise floor is computed from the last responses file.
BaselineNoiseFromFile ==
  /\ At("baseline", "noise")
  /\ noise' = IF command.baseline = "degraded"
                THEN [kind |-> "unavailable", of |-> NoEvidence]
                ELSE [kind |-> "measured",
                      of |-> [c \in Calls |-> IF c.phase = "baseline" THEN file[c] ELSE "absent"]]
  /\ Go("baseline", "file")
  /\ UNCHANGED <<rows, file, derived, runJson, cert, rebuilt, mem, command, outcome, faults>>

BaselineNoise ==
  /\ At("baseline", "noise")
  /\ noise' = IF command.baseline = "degraded"
                THEN [kind |-> "unavailable", of |-> NoEvidence]
                ELSE [kind |-> "measured",
                      of |-> [c \in Calls |-> IF c.phase = "baseline" THEN rows[c] ELSE "absent"]]
  /\ Go("baseline", "file")
  /\ UNCHANGED <<rows, file, derived, runJson, cert, rebuilt, mem, command, outcome, faults>>

\* write_responses_jsonl
WriteResponses(s) ==
  /\ At(s, "file")
  /\ file' = [c \in Calls |-> IF c.phase = PhaseOf(s) THEN rows[c] ELSE file[c]]
  /\ Go(s, IF s = "baseline" THEN "mark" ELSE "manifest")
  /\ UNCHANGED <<rows, noise, derived, runJson, cert, rebuilt, mem, command, outcome, faults>>

\* The candidate's manifest carries the stages and the client mode.
CandidateManifest ==
  /\ At("replay", "manifest")
  /\ runJson' = [state |-> "intact", stages |-> mem, mode |-> command.mode]
  /\ Go("replay", "mark")
  /\ UNCHANGED <<rows, file, noise, derived, cert, rebuilt, mem, command, outcome, faults>>

ReplayStage(s) ==
  EnterReplay(s) \/ Bank(s) \/ CallsReturn(s) \/ WriteResponses(s)

-----------------------------------------------------------------------------
(* The stages that read the response files. *)

\* On every invocation, resumed or not.
EvidenceFloor ==
  /\ stage = "floor"
  /\ IF FloorHolds(file, command)
       THEN Go("diff", "enter") /\ UNCHANGED <<mem, outcome>>
       ELSE Exit("refused")
  /\ UNCHANGED <<diskVars, command, faults>>

SkipDerived(s) ==
  /\ At(s, "enter")
  /\ s \in mem
  /\ Go(After(s), "enter")
  /\ UNCHANGED <<diskVars, mem, command, outcome, faults>>

\* Mutant: the stage is marked in run.json before its artifact is written.
DeriveMarkFirst(s) ==
  /\ At(s, "enter")
  /\ s \notin mem
  /\ IF s \in runJson.stages
       THEN derived' = [derived EXCEPT ![s] = file] /\ Go(s, "mark") /\ UNCHANGED runJson
       ELSE /\ runJson' = [runJson EXCEPT !.stages = @ \cup {s}]
            /\ UNCHANGED <<stage, step, derived>>
  /\ UNCHANGED <<rows, file, noise, cert, rebuilt, mem, command, outcome, faults>>

Derive(s) ==
  /\ At(s, "enter")
  /\ s \notin mem
  /\ derived' = [derived EXCEPT ![s] = file]
  /\ Go(s, "mark")
  /\ UNCHANGED <<rows, file, noise, runJson, cert, rebuilt, mem, command, outcome, faults>>

Mark(s) ==
  /\ At(s, "mark")
  /\ MarkStage(s)
  /\ Go(After(s), "enter")
  /\ UNCHANGED <<rows, file, noise, derived, cert, rebuilt, command, outcome, faults>>

\* build_certificate: degraded by option, or because the noise floor is.
Certificate(by, mode, cmd) ==
  [by |-> by, mode |-> mode, of |-> file,
   baseline |-> IF cmd = "degraded" \/ noise.kind # "measured" THEN "degraded" ELSE "full"]

IssueCert ==
  /\ At("verdict", "enter")
  /\ "cert" \notin mem
  /\ IF CandidateCovered(file)
       THEN /\ cert' = Certificate("run", command.mode, command.baseline)
            /\ Go("verdict", "mark")
            /\ UNCHANGED <<mem, outcome>>
       ELSE Exit("refused") /\ UNCHANGED cert
  /\ UNCHANGED <<rows, file, noise, derived, runJson, rebuilt, command, faults>>

MarkVerdict ==
  /\ At("verdict", "mark")
  /\ MarkStage("verdict")
  /\ Go("cert", "mark")
  /\ UNCHANGED <<rows, file, noise, derived, cert, rebuilt, command, outcome, faults>>

MarkCert ==
  /\ At("cert", "mark")
  /\ runJson' = [runJson EXCEPT !.stages = mem \cup {"cert"}]
  /\ Exit("ok")
  /\ UNCHANGED <<rows, file, noise, derived, cert, rebuilt, command, faults>>

\* A finished certificate is read back and reported.
ReportCert ==
  /\ At("verdict", "enter")
  /\ "cert" \in mem
  /\ Exit("ok")
  /\ UNCHANGED <<diskVars, command, faults>>

Progress ==
  \/ \E s \in Prelims : Prelim(s)
  \/ \E s \in {"baseline", "replay"} : ReplayStage(s)
  \/ BankHistorical \/ BaselineManifest \/ BaselineNoise \/ CandidateManifest
  \/ EvidenceFloor
  \/ \E s \in Derived : SkipDerived(s) \/ Derive(s)
  \/ \E s \in {"baseline", "replay"} \cup Derived : Mark(s)
  \/ IssueCert \/ MarkVerdict \/ MarkCert \/ ReportCert

-----------------------------------------------------------------------------
(* What goes wrong, and the other commands that certify a run. *)

\* A provider aborts the run: the command reports it and exits.  The call that
\* met the abort is not in the table.
Abort ==
  /\ \/ \E s \in {"baseline", "replay"} :
          At(s, "call") /\ ~Degraded(s) /\ ~Covered(PhaseOf(s))
     \/ At("judge", "enter") /\ "judge" \notin mem
  /\ Spend
  /\ Exit("failed")
  /\ UNCHANGED <<diskVars, command>>

Lost(p) == [c \in Calls |-> IF c.phase = p THEN "absent" ELSE file[c]]

\* The process dies.  A file that is being rewritten was truncated first, so
\* its old content is lost too; only the files that a later invocation trusts
\* are of interest (an artifact whose stage is not marked is written again).
Crash ==
  /\ stage # "down"
  /\ Spend
  /\ Exit("crashed")
  /\ \/ UNCHANGED <<runJson, file>>
     \/ /\ step \in {"manifest", "mark"} \/ (stage \in Prelims /\ stage \notin mem)
        /\ runJson' = [runJson EXCEPT !.state = "torn"]
        /\ UNCHANGED file
     \/ /\ step = "file"
        /\ file' = Lost(PhaseOf(stage))
        /\ UNCHANGED runJson
  /\ UNCHANGED <<rows, noise, derived, cert, rebuilt, command>>

\* `acsi cert`: whatever artifacts are there, and the default client mode.
CertCommand ==
  /\ stage = "down"
  /\ runJson.state # "torn"
  /\ CandidateCovered(file)
  /\ cert' = Certificate("cert", "fake", "full")
  /\ UNCHANGED <<rows, file, noise, derived, runJson, rebuilt, procVars, faults>>

\* _resolve_client_mode
ResolvedMode == IF runJson.mode # "none" THEN runJson.mode ELSE cert.mode

\* `acsi rebuild-cert` reads the run and writes to a directory of its own.
RebuildCert ==
  /\ stage = "down"
  /\ runJson.state # "torn"
  /\ ResolvedMode # "none"
  /\ derived["judge"] # NoEvidence
  /\ CandidateCovered(file)
  /\ rebuilt' = ResolvedMode
  /\ UNCHANGED <<rows, file, noise, derived, runJson, cert, procVars, faults>>

Next ==
  \/ Invoke
  \/ Progress
  \/ \E s \in {"baseline", "replay"} : CallsReturnShort(s)
  \/ Abort \/ Crash \/ CertCommand \/ RebuildCert

Spec == Init /\ [][Next]_vars

\* The process keeps going, and the operator runs the same command again
\* until it certifies the run.
FairSpec == Spec /\ WF_vars(Progress) /\ WF_vars(Invoke)

-----------------------------------------------------------------------------
(* What the pipeline must guarantee. *)

RunCert == cert.by = "run"

\* Absence of evidence is never a pass: whatever crashed, failed or was
\* skipped before, a certificate that the pipeline issues rests on a response
\* of the candidate for every sampled trace and on the baseline samples that
\* its label promises.
CertCovers ==
  RunCert =>
    /\ CandidateCovered(cert.of)
    /\ \A t \in Traces :
         BaselineSamples(cert.of, t) >= (IF cert.baseline = "full" THEN K ELSE 1)

\* The pieces of a certificate belong together: assertions, judgments,
\* clusters and noise floor were all computed from the responses it covers,
\* although resumed invocations wrote them at different times.
CertWhole ==
  RunCert =>
    /\ \A d \in Derived : derived[d] = cert.of
    /\ cert.baseline = "full" => \A c \in Phase("baseline") : noise.of[c] = cert.of[c]

\* A mark in run.json is never ahead of the artifact it stands for, so no
\* crash makes a later invocation skip work that was not done.
MarkedMeansWritten ==
  \A d \in Derived : d \in runJson.stages => derived[d] # NoEvidence

\* Failed calls, aborts and refusals are repaired by running the command
\* again: if no invocation crashes, the run ends up certified.
EventuallyCertified ==
  [](outcome # "crashed") => <>("cert" \in runJson.stages)

\* "The evidence floor is unchanged and fires only if a gap persists after
\* this redispatch" (the comment on resuming a short replay stage): a refused
\* invocation leaves a table that really is short.
FloorOnlyOnGap ==
  outcome = "refused" => ~(Covered("baseline") /\ Covered("candidate"))

\* "A rebuild never silently mislabels a live run as fake (or the reverse)"
\* (_resolve_client_mode): the rebuilt certificate keeps the mode of the
\* certificate that the pipeline issued for the run.
RebuildKeepsMode == RunCert /\ rebuilt # "none" => rebuilt = cert.mode

=============================================================================
