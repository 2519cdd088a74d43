------------------------- MODULE RunPipelineProofs -------------------------
(***************************************************************************)
(* What RunPipeline's Spec guarantees for any sample, any k_baseline and   *)
(* any number of crashes, aborts and failed calls.                         *)
(*                                                                         *)
(* Two invariants.  CoverInv needs nothing of the operator, who may use    *)
(* other options in every invocation.  WholeInv is about an operator who   *)
(* repeats one command: then the call table only grows towards what this   *)
(* command wants, and everything that was derived from a complete table    *)
(* was derived from the same one.                                          *)
(***************************************************************************)
EXTENDS RunPipeline, FiniteSetTheorems, TLAPS

\* A stage whose work an invocation does not do again, or has just done.
Marked(d) == d \in mem \cup runJson.stages \/ At(d, "mark")

\* The stages behind the evidence floor.
Behind == Derived \cup {"verdict"}

\* No stage behind the evidence floor is entered without the evidence, and the
\* artifact of a marked stage is there.
CoverInv ==
  /\ stage \in Behind => FloorHolds(file, command)
  /\ \A d \in Derived : Marked(d) => derived[d] # NoEvidence
  /\ CertCovers

\* The calls that the command wants an answer for.
Wanted ==
  {c \in Calls : c.phase = "candidate" \/ command.baseline = "full" \/ c.sample = 0}
Complete(evidence) == \A c \in Wanted : Has(evidence, c)

\* The table has nothing else, and a recorded answer only where one belongs.
TableInv ==
  /\ \A c \in Calls \ Wanted : rows[c] = "absent"
  /\ command.baseline = "degraded" =>
       \A c \in FirstSamples : rows[c] \in {"absent", "historical"}

\* The response files and the noise floor lag behind the table, but never
\* contradict it.
FilesInv ==
  /\ \A c \in Calls : file[c] \in {"absent", rows[c]}
  /\ command.baseline = "full" => \A c \in Phase("baseline") :
       Has(file, c) \/ At("baseline", "file") => noise.of[c] = rows[c]

\* What is derived is derived from a complete table.
DerivedInv ==
  /\ \A d \in Derived : Marked(d) => Complete(rows) /\ derived[d] = rows
  /\ stage \in {"judge", "cluster", "verdict"} => "diff" \in mem
  /\ stage \in {"cluster", "verdict"} => "judge" \in mem
  /\ stage = "verdict" => "cluster" \in mem

CertInv ==
  RunCert =>
    /\ Complete(rows)
    /\ cert.of = rows
    /\ \A d \in Derived : derived[d] = rows
    /\ cert.baseline = "full" =>
         command.baseline = "full" /\ \A c \in Phase("baseline") : noise.of[c] = rows[c]

WholeInv == TableInv /\ FilesInv /\ DerivedInv /\ CertInv

-----------------------------------------------------------------------------
(* Facts about the operators. *)

\* The order of the stages.
LEMMA StageOrder ==
  /\ After("import-check") = "scrub" /\ After("scrub") = "sample"
  /\ After("sample") = "baseline" /\ After("baseline") = "replay"
  /\ After("replay") = "floor" /\ After("diff") = "judge"
  /\ After("judge") = "cluster" /\ After("cluster") = "verdict"
BY DEF After

\* No evidence is evidence, of the right type.
LEMMA EmptyEvidence == NoEvidence \in Evidence
BY DEF Evidence, NoEvidence, Origin

\* One more answer is evidence too.
LEMMA MoreEvidence ==
  ASSUME NEW e \in Evidence, NEW d \in Calls, NEW origin \in Origin
  PROVE  [e EXCEPT ![d] = origin] \in Evidence
BY DEF Evidence

\* The type of run.json.
RunJson == [state : {"missing", "intact", "torn"}, stages : SUBSET Stages,
            mode : {"none", "fake", "live"}]

\* Marking a stage keeps it.
LEMMA MarkTyped ==
  ASSUME NEW s \in Stages, mem \subseteq Stages, runJson \in RunJson, MarkStage(s)
  PROVE  mem' \subseteq Stages /\ runJson' \in RunJson
BY DEF MarkStage, RunJson

\* The baseline calls of one trace are as many as its samples.
LEMMA SamplesOfTrace ==
  ASSUME NEW t \in Traces
  PROVE  LET ofTrace == {c \in Phase("baseline") : c.trace = t}
         IN IsFiniteSet(ofTrace) /\ Cardinality(ofTrace) <= K
<1> DEFINE ofTrace == {c \in Phase("baseline") : c.trace = t}
           call == [n \in 0..(K - 1) |-> [phase |-> "baseline", trace |-> t, sample |-> n]]
<1>1. K \in Nat \ {0}
  BY PipelineAssumption
<1>2. IsFiniteSet(0..(K - 1)) /\ Cardinality(0..(K - 1)) = K
  <2>1. 0 \in Int /\ K - 1 \in Int /\ ~(0 > K - 1) /\ (K - 1) - 0 + 1 = K
    BY <1>1
  <2>2. QED
    BY <2>1, FS_Interval
<1>3. call \in Surjection(0..(K - 1), ofTrace)
  <2>1. \A n \in 0..(K - 1) : call[n] \in ofTrace
    BY DEF Phase, Calls
  <2>2. \A c \in ofTrace : c.sample \in 0..(K - 1) /\ call[c.sample] = c
    BY DEF Phase, Calls
  <2>3. QED
    BY <2>1, <2>2 DEF Surjection
<1>4. QED
  BY <1>2, <1>3, FS_Surjection

\* A trace with all its samples has each of them, and one with a sample has one.
LEMMA SamplesCounted ==
  ASSUME NEW e \in Evidence, NEW t \in Traces
  PROVE  /\ BaselineSamples(e, t) \in Nat
         /\ BaselineSamples(e, t) >= K =>
              \A c \in Phase("baseline") : c.trace = t => Has(e, c)
         /\ BaselineSamples(e, t) >= 1 =>
              \E c \in Phase("baseline") : c.trace = t /\ Has(e, c)
<1> DEFINE ofTrace == {c \in Phase("baseline") : c.trace = t}
           there == {c \in Phase("baseline") : c.trace = t /\ Has(e, c)}
<1>1. K \in Nat \ {0} /\ IsFiniteSet(ofTrace) /\ Cardinality(ofTrace) <= K
      /\ Cardinality(ofTrace) \in Nat
  BY PipelineAssumption, SamplesOfTrace, FS_CardinalityType
<1>2. there \in SUBSET ofTrace
  OBVIOUS
<1>3. /\ IsFiniteSet(there) /\ Cardinality(there) \in Nat
      /\ Cardinality(there) <= Cardinality(ofTrace)
      /\ Cardinality(ofTrace) = Cardinality(there) => ofTrace = there
  BY <1>1, <1>2, FS_Subset, FS_CardinalityType
<1>4. BaselineSamples(e, t) = Cardinality(there)
  BY DEF BaselineSamples
<1>5. Cardinality(there) >= K => ofTrace = there
  BY <1>1, <1>3
<1>6. Cardinality(there) >= 1 => there # {}
  BY <1>3, FS_EmptySet
<1>7. QED
  BY <1>3, <1>4, <1>5, <1>6

-----------------------------------------------------------------------------
(* Types. *)

\* Every variable keeps its type.
THEOREM TypeCorrect == Spec => []TypeOK
<1>1. Init => TypeOK
  BY EmptyEvidence, PipelineAssumption DEF Init, TypeOK, Steps
<1>2. TypeOK /\ [Next]_vars => TypeOK'
  <2> SUFFICES ASSUME TypeOK, [Next]_vars PROVE TypeOK'
    OBVIOUS
  <2>0. command.mode \in {"fake", "live"} /\ command.baseline \in {"full", "degraded"}
    BY PipelineAssumption DEF TypeOK, Command
  <2> USE DEF TypeOK, Steps
  <2>1. CASE Invoke
    <3>1. runJson.stages \subseteq Stages /\ command' \in Commands
      BY <2>1 DEF Invoke
    <3>2. "import-check" \in Stages
      BY DEF Stages, Prelims
    <3>3. /\ stage' \in Stages \cup {"floor", "down"} /\ step' \in Steps /\ mem' \subseteq Stages
          /\ outcome' \in {"none", "ok", "refused", "failed", "corrupt", "crashed"}
      <4>1. CASE runJson.state = "torn"
        BY <2>1, <4>1 DEF Invoke
      <4>2. CASE runJson.state # "torn"
        BY <2>1, <3>1, <3>2, <4>2 DEF Invoke, Go
      <4>3. QED
        BY <4>1, <4>2
    <3>4. QED
      BY <2>1, <3>1, <3>3 DEF Invoke, diskVars
  <2>2. ASSUME NEW s \in Prelims, Prelim(s) PROVE TypeOK'
    <3>1. s \in Stages /\ After(s) \in Stages
      BY StageOrder DEF Stages, Prelims
    <3>2. mem' \subseteq Stages /\ runJson' \in RunJson
      BY <2>2, <3>1, MarkTyped DEF Prelim, RunJson
    <3>3. QED
      BY <2>2, <3>1, <3>2 DEF Prelim, Go, RunJson
  <2>3. ASSUME NEW s \in {"baseline", "replay"}, EnterReplay(s) PROVE TypeOK'
    BY <2>3, StageOrder DEF EnterReplay, Go, Stages, diskVars
  <2>4. ASSUME NEW s \in {"baseline", "replay"}, Bank(s) PROVE TypeOK'
    <3>1. command.mode \in Origin
      BY <2>0 DEF Origin
    <3>2. PICK c \in Calls : rows' = [rows EXCEPT ![c] = command.mode]
      BY <2>4 DEF Bank, Phase
    <3>3. rows' \in Evidence
      BY <3>1, <3>2, MoreEvidence
    <3>4. QED
      BY <2>4, <3>3 DEF Bank, procVars
  <2>5. CASE BankHistorical
    <3>1. "historical" \in Origin
      BY DEF Origin
    <3>2. PICK c \in Calls : rows' = [rows EXCEPT ![c] = "historical"]
      BY <2>5 DEF BankHistorical, FirstSamples, Phase
    <3>3. rows' \in Evidence
      BY <3>1, <3>2, MoreEvidence
    <3>4. QED
      BY <2>5, <3>3 DEF BankHistorical, procVars
  <2>6. ASSUME NEW s \in {"baseline", "replay"}, CallsReturn(s) PROVE TypeOK'
    BY <2>6 DEF CallsReturn, Go, Stages, diskVars
  <2>7. ASSUME NEW s \in {"baseline", "replay"}, CallsReturnShort(s) PROVE TypeOK'
    BY <2>7, PipelineAssumption DEF CallsReturnShort, Go, Stages, diskVars, Spend
  <2>8. CASE BaselineManifest
    BY <2>8 DEF BaselineManifest, Go, Stages
  <2>9. CASE BaselineNoise
    <3>1. noise' \in [kind : {"missing", "measured", "unavailable"}, of : Evidence]
      <4>1. [c \in Calls |-> IF c.phase = "baseline" THEN rows[c] ELSE "absent"] \in Evidence
        BY DEF Evidence, Origin
      <4>2. QED
        BY <2>9, <4>1, EmptyEvidence DEF BaselineNoise
    <3>2. QED
      BY <2>9, <3>1 DEF BaselineNoise, Go, Stages
  <2>10. ASSUME NEW s \in {"baseline", "replay"}, WriteResponses(s) PROVE TypeOK'
    <3>1. file' \in Evidence
      <4>1. file' = [c \in Calls |-> IF c.phase = PhaseOf(s) THEN rows[c] ELSE file[c]]
        BY <2>10 DEF WriteResponses
      <4> DEFINE p == PhaseOf(s)
      <4> HIDE DEF p
      <4>2. [c \in Calls |-> IF c.phase = p THEN rows[c] ELSE file[c]] \in Evidence
        BY DEF Evidence
      <4>3. QED
        BY <4>1, <4>2 DEF p
    <3>2. QED
      BY <2>10, <3>1 DEF WriteResponses, Go, Stages
  <2>11. CASE CandidateManifest
    BY <2>0, <2>11 DEF CandidateManifest, Go, Stages
  <2>12. CASE EvidenceFloor
    <3>1. "diff" \in Stages
      BY DEF Stages, Derived
    <3>2. /\ stage' \in Stages \cup {"floor", "down"} /\ step' \in Steps /\ mem' \subseteq Stages
          /\ outcome' \in {"none", "ok", "refused", "failed", "corrupt", "crashed"}
      <4>1. CASE FloorHolds(file, command)
        BY <2>12, <3>1, <4>1 DEF EvidenceFloor, Go
      <4>2. CASE ~FloorHolds(file, command)
        BY <2>12, <4>2 DEF EvidenceFloor, Exit, Go
      <4>3. QED
        BY <4>1, <4>2
    <3>3. QED
      BY <2>12, <3>2 DEF EvidenceFloor, diskVars
  <2>13. ASSUME NEW s \in Derived, SkipDerived(s) PROVE TypeOK'
    BY <2>13, StageOrder DEF SkipDerived, Go, Stages, Derived, diskVars
  <2>14. ASSUME NEW s \in Derived, Derive(s) PROVE TypeOK'
    <3>1. s \in Stages
      BY DEF Stages
    <3>2. derived' \in [Derived -> Evidence]
      BY <2>14 DEF Derive
    <3>3. QED
      BY <2>14, <3>1, <3>2 DEF Derive, Go
  <2>15. ASSUME NEW s \in {"baseline", "replay"} \cup Derived, Mark(s) PROVE TypeOK'
    <3>1. s \in Stages /\ After(s) \in Stages \cup {"floor"}
      BY StageOrder DEF Stages, Derived
    <3>2. mem' \subseteq Stages /\ runJson' \in RunJson
      BY <2>15, <3>1, MarkTyped DEF Mark, RunJson
    <3>3. QED
      BY <2>15, <3>1, <3>2 DEF Mark, Go, RunJson
  <2>16. CASE IssueCert
    BY <2>0, <2>16 DEF IssueCert, Certificate, Go, Exit, Stages
  <2>17. CASE MarkVerdict
    BY <2>17 DEF MarkVerdict, MarkStage, Go, Stages
  <2>18. CASE MarkCert
    BY <2>18 DEF MarkCert, Exit, Go, Stages
  <2>19. CASE ReportCert
    BY <2>19 DEF ReportCert, Exit, Go, diskVars
  <2>20. CASE Abort
    BY <2>20, PipelineAssumption DEF Abort, Exit, Go, diskVars, Spend
  <2>21. CASE Crash
    <3>1. ASSUME NEW p PROVE Lost(p) \in Evidence
      BY DEF Lost, Evidence, Origin
    <3>2. file' \in Evidence
      BY <2>21, <3>1 DEF Crash
    <3>3. runJson' \in [state : {"missing", "intact", "torn"}, stages : SUBSET Stages,
                        mode : {"none", "fake", "live"}]
      BY <2>21 DEF Crash
    <3>4. QED
      BY <2>21, <3>2, <3>3, PipelineAssumption DEF Crash, Exit, Go, Spend
  <2>22. CASE CertCommand
    BY <2>22 DEF CertCommand, Certificate, procVars
  <2>23. CASE RebuildCert
    BY <2>23 DEF RebuildCert, ResolvedMode, procVars
  <2>24. CASE UNCHANGED vars
    BY <2>24 DEF vars, diskVars, procVars
  <2>25. QED
    BY <2>1, <2>2, <2>3, <2>4, <2>5, <2>6, <2>7, <2>8, <2>9, <2>10, <2>11, <2>12, <2>13,
       <2>14, <2>15, <2>16, <2>17, <2>18, <2>19, <2>20, <2>21, <2>22, <2>23, <2>24
       DEF Next, Progress, ReplayStage
<1>3. QED
  BY <1>1, <1>2, PTL DEF Spec

-----------------------------------------------------------------------------
(* What a step does to each part of the state. *)

\* The steps that end behind the floor: through it, or from there.
LEMMA BehindSteps ==
  ASSUME [Next]_vars, stage' \in Behind
  PROVE  \/ EvidenceFloor
         \/ \E s \in Derived : SkipDerived(s) \/ Derive(s) \/ Mark(s)
         \/ IssueCert
         \/ UNCHANGED <<stage, mem, file, command>>
<1> USE DEF Behind, Derived
<1>1. CASE Invoke
  BY <1>1 DEF Invoke, Go
<1>2. ASSUME NEW s \in Prelims, Prelim(s)
      PROVE  stage' \notin Behind
  BY <1>2, StageOrder DEF Prelim, Go, Prelims
<1>3. ASSUME NEW s \in {"baseline", "replay"},
             EnterReplay(s) \/ Bank(s) \/ CallsReturn(s) \/ WriteResponses(s)
               \/ CallsReturnShort(s)
      PROVE  stage' \notin Behind
  BY <1>3, StageOrder DEF EnterReplay, Bank, CallsReturn, WriteResponses, CallsReturnShort,
                          procVars, At, Go
<1>4. ASSUME BankHistorical \/ BaselineManifest \/ BaselineNoise \/ CandidateManifest
      PROVE  stage' \notin Behind
  BY <1>4 DEF BankHistorical, BaselineManifest, BaselineNoise, CandidateManifest, procVars, At, Go
<1>5. ASSUME NEW s \in {"baseline", "replay"}, Mark(s)
      PROVE  stage' \notin Behind
  BY <1>5, StageOrder DEF Mark, Go
<1>6. ASSUME MarkVerdict \/ MarkCert \/ ReportCert \/ Abort \/ Crash
      PROVE  stage' \notin Behind
  BY <1>6 DEF MarkVerdict, MarkCert, ReportCert, Abort, Crash, Exit, Go
<1>7. ASSUME CertCommand \/ RebuildCert \/ UNCHANGED vars
       PROVE  UNCHANGED <<stage, mem, file, command>>
  BY <1>7 DEF CertCommand, RebuildCert, vars, diskVars, procVars
<1>8. QED
  BY <1>1, <1>2, <1>3, <1>4, <1>5, <1>6, <1>7 DEF Next, Progress, ReplayStage

\* Behind the floor, the files and the command are the ones it has seen.
LEMMA BehindTheFloor ==
  ASSUME [Next]_vars, stage' \in Behind
  PROVE  /\ UNCHANGED <<file, command>>
         /\ stage \in Behind \/ FloorHolds(file, command)
<1>1. CASE EvidenceFloor
  BY <1>1 DEF EvidenceFloor, Exit, Go, diskVars, Behind, Derived
<1>2. ASSUME NEW s \in Derived, SkipDerived(s) \/ Derive(s) \/ Mark(s)
      PROVE  stage \in Behind /\ UNCHANGED <<file, command>>
  BY <1>2 DEF SkipDerived, Derive, Mark, At, diskVars, Behind
<1>3. CASE IssueCert
  BY <1>3 DEF IssueCert, At, Behind
<1>4. QED
  BY <1>1, <1>2, <1>3, BehindSteps

\* An artifact is written from the response files, by its stage; a mark is set
\* for what is written.
LEMMA Marks ==
  ASSUME TypeOK, [Next]_vars, NEW d \in Derived
  PROVE  \/ derived'[d] = derived[d] /\ (Marked(d)' => Marked(d))
         \/ stage = d /\ derived'[d] = file
<1> USE DEF Derived, Marked, At
<1>1. CASE Invoke
  BY <1>1 DEF Invoke, Go, diskVars
<1>2. ASSUME NEW s \in Prelims, Prelim(s)
      PROVE  derived'[d] = derived[d] /\ (Marked(d)' => Marked(d))
  <2>1. s # d /\ derived' = derived /\ step' = "enter"
    BY <1>2 DEF Prelim, Prelims, Go
  <2>2. CASE UNCHANGED <<runJson, mem>>
    BY <2>1, <2>2
  <2>3. CASE mem' = mem \cup {s} /\ runJson' = [runJson EXCEPT !.state = "intact", !.stages = mem']
    <3>1. runJson'.stages = mem'
      BY <2>3 DEF TypeOK
    <3>2. QED
      BY <2>1, <2>3, <3>1
  <2>4. QED
    BY <1>2, <2>2, <2>3 DEF Prelim, MarkStage
<1>3. ASSUME NEW s \in {"baseline", "replay"},
             EnterReplay(s) \/ Bank(s) \/ CallsReturn(s) \/ WriteResponses(s)
               \/ CallsReturnShort(s)
      PROVE  derived'[d] = derived[d] /\ (Marked(d)' => Marked(d))
  <2>1. UNCHANGED <<derived, runJson, mem>>
    BY <1>3 DEF EnterReplay, Bank, CallsReturn, WriteResponses, CallsReturnShort, diskVars,
                procVars
  <2>2. stage' = s \/ step' = "enter"
    BY <1>3 DEF EnterReplay, Bank, CallsReturn, WriteResponses, CallsReturnShort, procVars, Go
  <2>3. QED
    BY <2>1, <2>2
<1>4. ASSUME BankHistorical \/ BaselineManifest \/ BaselineNoise \/ CandidateManifest
      PROVE  derived'[d] = derived[d] /\ (Marked(d)' => Marked(d))
  <2>1. /\ UNCHANGED <<derived, mem>> /\ stage' \in {"baseline", "replay"}
        /\ runJson'.stages \subseteq runJson.stages \cup mem
    BY <1>4 DEF BankHistorical, BaselineManifest, BaselineNoise, CandidateManifest, procVars, Go
  <2>2. QED
    BY <2>1
<1>5. CASE EvidenceFloor
  BY <1>5 DEF EvidenceFloor, Exit, Go, diskVars
<1>6. ASSUME NEW s \in Derived, SkipDerived(s)
      PROVE  derived'[d] = derived[d] /\ (Marked(d)' => Marked(d))
  BY <1>6 DEF SkipDerived, Go, diskVars
<1>7. ASSUME NEW s \in Derived, Derive(s)
      PROVE  \/ derived'[d] = derived[d] /\ (Marked(d)' => Marked(d))
             \/ stage = d /\ derived'[d] = file
  BY <1>7 DEF Derive, Go, TypeOK
<1>8. ASSUME NEW s \in {"baseline", "replay"} \cup Derived, Mark(s)
      PROVE  derived'[d] = derived[d] /\ (Marked(d)' => Marked(d))
  <2>1. /\ mem' = mem \cup {s} /\ derived' = derived /\ step' = "enter"
        /\ stage = s /\ step = "mark"
    BY <1>8 DEF Mark, MarkStage, Go
  <2>2. runJson'.stages = mem'
    BY <1>8 DEF Mark, MarkStage, TypeOK
  <2>3. QED
    BY <2>1, <2>2
<1>9. CASE IssueCert
  BY <1>9 DEF IssueCert, Exit, Go
<1>10. CASE MarkVerdict
  <2>1. mem' = mem \cup {"verdict"} /\ derived' = derived /\ stage' = "cert"
    BY <1>10 DEF MarkVerdict, MarkStage, Go
  <2>2. runJson'.stages = mem'
    BY <1>10 DEF MarkVerdict, MarkStage, TypeOK
  <2>3. QED
    BY <2>1, <2>2
<1>11. CASE MarkCert
  <2>1. mem' = {} /\ derived' = derived /\ stage' = "down"
    BY <1>11 DEF MarkCert, Exit, Go
  <2>2. runJson'.stages = mem \cup {"cert"}
    BY <1>11 DEF MarkCert, TypeOK
  <2>3. QED
    BY <2>1, <2>2
<1>12. ASSUME ReportCert \/ Abort
       PROVE  derived'[d] = derived[d] /\ (Marked(d)' => Marked(d))
  BY <1>12 DEF ReportCert, Abort, Exit, Go, diskVars
<1>13. CASE Crash
  <2>1. mem' = {} /\ derived' = derived /\ stage' = "down"
    BY <1>13 DEF Crash, Exit, Go
  <2>2. runJson'.stages = runJson.stages
    BY <1>13 DEF Crash, TypeOK
  <2>3. QED
    BY <2>1, <2>2
<1>14. ASSUME CertCommand \/ RebuildCert \/ UNCHANGED vars
       PROVE  derived'[d] = derived[d] /\ (Marked(d)' => Marked(d))
  BY <1>14 DEF CertCommand, RebuildCert, vars, diskVars, procVars
<1>15. QED
  BY <1>1, <1>2, <1>3, <1>4, <1>5, <1>6, <1>7, <1>8, <1>9, <1>10, <1>11, <1>12, <1>13, <1>14
     DEF Next, Progress, ReplayStage

\* A certificate of the pipeline is issued behind the floor.
LEMMA Issues ==
  ASSUME TypeOK, [Next]_vars
  PROVE  \/ cert' = cert
         \/ cert'.by = "cert"
         \/ /\ stage = "verdict"
            /\ cert' = Certificate("run", command.mode, command.baseline)
<1>1. CASE IssueCert
  BY <1>1 DEF IssueCert, At
<1>2. CASE CertCommand
  BY <1>2 DEF CertCommand, Certificate
<1>3. ASSUME Invoke \/ BankHistorical \/ BaselineManifest \/ BaselineNoise \/ CandidateManifest
               \/ EvidenceFloor \/ MarkVerdict \/ MarkCert \/ ReportCert \/ Abort \/ Crash
               \/ RebuildCert \/ UNCHANGED vars
      PROVE  cert' = cert
  BY <1>3 DEF Invoke, BankHistorical, BaselineManifest, BaselineNoise, CandidateManifest,
              EvidenceFloor, MarkVerdict, MarkCert, ReportCert, Abort, Crash, RebuildCert,
              vars, diskVars
<1>4. ASSUME NEW s, \/ Prelim(s) \/ ReplayStage(s) \/ CallsReturnShort(s)
                    \/ SkipDerived(s) \/ Derive(s) \/ Mark(s)
      PROVE  cert' = cert
  BY <1>4 DEF Prelim, ReplayStage, EnterReplay, Bank, CallsReturn, WriteResponses,
              CallsReturnShort, SkipDerived, Derive, Mark, diskVars
<1>5. QED
  BY <1>1, <1>2, <1>3, <1>4 DEF Next, Progress

-----------------------------------------------------------------------------
(* Coverage, whatever options the operator uses. *)

\* What the floor asks for covers a certificate, under the label it is given.
LEMMA FloorCovers ==
  ASSUME TypeOK, FloorHolds(file, command), cert' = Certificate("run", command.mode, command.baseline)
  PROVE  CertCovers'
<1>1. K \in Nat \ {0} /\ command.baseline \in {"full", "degraded"}
  BY PipelineAssumption DEF TypeOK, Command
<1>2. cert'.of = file /\ (cert'.baseline = "full" => command.baseline # "degraded")
  BY DEF Certificate
<1>3. \A t \in Traces : BaselineSamples(file, t) \in Nat
  BY SamplesCounted DEF TypeOK
<1>4. CandidateCovered(cert'.of)
  BY <1>2 DEF FloorHolds
<1>5. ASSUME NEW t \in Traces
      PROVE  BaselineSamples(cert'.of, t) >= (IF cert'.baseline = "full" THEN K ELSE 1)
  <2>1. BaselineSamples(file, t) >= (IF command.baseline = "degraded" THEN 1 ELSE K)
    BY DEF FloorHolds
  <2>2. BaselineSamples(file, t) \in Nat
    BY <1>3
  <2>3. QED
    BY <1>1, <1>2, <2>1, <2>2
<1>6. QED
  BY <1>4, <1>5 DEF CertCovers

\* The invariant of the evidence floor and of the marks.
THEOREM CoverInvariant == Spec => []CoverInv
<1>1. Init => CoverInv
  BY DEF Init, CoverInv, Marked, At, Behind, Derived, CertCovers, RunCert
<1>2. TypeOK /\ CoverInv /\ [Next]_vars => CoverInv'
  <2> SUFFICES ASSUME TypeOK, CoverInv, [Next]_vars PROVE CoverInv'
    OBVIOUS
  <2>1. stage' \in Behind => FloorHolds(file', command')
    BY BehindTheFloor DEF CoverInv
  <2>2. ASSUME NEW d \in Derived, Marked(d)'
        PROVE  derived'[d] # NoEvidence
    <3>1. CASE derived'[d] = derived[d] /\ Marked(d)
      BY <3>1 DEF CoverInv
    <3>2. CASE stage = d /\ derived'[d] = file
      <4>1. CandidateCovered(file)
        BY <3>2 DEF CoverInv, Behind, FloorHolds
      <4>2. PICK t \in Traces : TRUE
        BY PipelineAssumption
      <4>3. [phase |-> "candidate", trace |-> t, sample |-> 0] \in Phase("candidate")
        BY DEF Phase, Calls
      <4>4. \E c \in Calls : file[c] # "absent"
        BY <4>1, <4>3 DEF CandidateCovered, Has, Phase
      <4>5. QED
        BY <3>2, <4>4 DEF NoEvidence
    <3>3. QED
      BY <2>2, <3>1, <3>2, Marks
  <2>3. CertCovers'
    <3>1. CASE cert' = cert
      BY <3>1 DEF CoverInv, CertCovers, RunCert
    <3>2. CASE cert'.by = "cert"
      BY <3>2 DEF CertCovers, RunCert
    <3>3. CASE stage = "verdict" /\ cert' = Certificate("run", command.mode, command.baseline)
      BY <3>3, FloorCovers DEF CoverInv, Behind
    <3>4. QED
      BY <3>1, <3>2, <3>3, Issues
  <2>4. QED
    BY <2>1, <2>2, <2>3 DEF CoverInv
<1>3. QED
  BY <1>1, <1>2, TypeCorrect, PTL DEF Spec

\* Absence of evidence is never a pass, for any history of crashes, aborts and
\* failed calls, and whatever options the operator resumes with.
THEOREM CertificatesCover == Spec => []CertCovers
BY CoverInvariant, PTL DEF CoverInv

\* No crash makes a later invocation skip work that was not done.
THEOREM MarksAreEarned == Spec => []MarkedMeansWritten
<1>1. CoverInv => MarkedMeansWritten
  BY DEF CoverInv, Marked, MarkedMeansWritten
<1>2. QED
  BY <1>1, CoverInvariant, PTL

-----------------------------------------------------------------------------
(* One command, repeated. *)

\* The operator keeps the options.
LEMMA CommandKept ==
  ASSUME ~Switching, [Next]_vars
  PROVE  command' = command
<1>1. CASE Invoke
  BY <1>1 DEF Invoke
<1>2. ASSUME BankHistorical \/ BaselineManifest \/ BaselineNoise \/ CandidateManifest
               \/ EvidenceFloor \/ IssueCert \/ MarkVerdict \/ MarkCert \/ ReportCert
               \/ Abort \/ Crash \/ CertCommand \/ RebuildCert \/ UNCHANGED vars
      PROVE  command' = command
  BY <1>2 DEF BankHistorical, BaselineManifest, BaselineNoise, CandidateManifest, EvidenceFloor,
              IssueCert, MarkVerdict, MarkCert, ReportCert, Abort, Crash, CertCommand,
              RebuildCert, vars, procVars
<1>3. ASSUME NEW s, \/ Prelim(s) \/ ReplayStage(s) \/ CallsReturnShort(s)
                    \/ SkipDerived(s) \/ Derive(s) \/ Mark(s)
      PROVE  command' = command
  BY <1>3 DEF Prelim, ReplayStage, EnterReplay, Bank, CallsReturn, WriteResponses,
              CallsReturnShort, SkipDerived, Derive, Mark, procVars
<1>4. QED
  BY <1>1, <1>2, <1>3 DEF Next, Progress

\* What a step does to the table, the files and the noise floor: it banks one
\* answer that the command wants, copies one phase of the table, loses a file,
\* measures the noise floor, or nothing of the kind.
Banks ==
  /\ step' = "call" /\ UNCHANGED <<file, noise>>
  /\ \E c \in Wanted, origin \in Origin \ {"absent"} :
       /\ rows[c] = "absent"
       /\ rows' = [rows EXCEPT ![c] = origin]
       /\ command.baseline = "degraded" /\ c \in FirstSamples => origin = "historical"

Copies(p) ==
  /\ UNCHANGED <<rows, noise>>
  /\ step' # "file"
  /\ p = "baseline" => At("baseline", "file")
  /\ file' = [c \in Calls |-> IF c.phase = p THEN rows[c] ELSE file[c]]

Loses ==
  /\ UNCHANGED <<rows, noise>>
  /\ step' # "file"
  /\ \A c \in Calls : file'[c] \in {"absent", file[c]}

Measures ==
  /\ UNCHANGED <<rows, file>>
  /\ command.baseline = "full" => \A c \in Phase("baseline") : noise'.of[c] = rows[c]

Leaves ==
  /\ UNCHANGED <<rows, file, noise>>
  /\ At("baseline", "file")' => At("baseline", "file")

\* There is no other effect on the table, the files and the noise floor.
LEMMA Effects ==
  ASSUME TypeOK, TableInv, [Next]_vars
  PROVE  Banks \/ (\E p : Copies(p)) \/ Loses \/ Measures \/ Leaves
<1>0. /\ command.mode \in {"fake", "live"} /\ command.baseline \in {"full", "degraded"}
      /\ rows \in Evidence /\ noise.of \in Evidence
  BY PipelineAssumption DEF TypeOK, Command
<1>1. ASSUME NEW s \in {"baseline", "replay"}, Bank(s) PROVE Banks
  <2>1. PICK c \in Phase(PhaseOf(s)) :
               rows[c] = "absent" /\ rows' = [rows EXCEPT ![c] = command.mode]
    BY <1>1 DEF Bank, Has
  <2>2. /\ UNCHANGED <<step, file, noise>> /\ step = "call"
        /\ ~(s = "baseline" /\ command.baseline = "degraded")
    BY <1>1 DEF Bank, procVars, At, Degraded
  <2>3. c \in Wanted /\ ~(command.baseline = "degraded" /\ c \in FirstSamples)
    BY <1>0, <2>2 DEF Wanted, Phase, PhaseOf, FirstSamples
  <2>4. command.mode \in Origin \ {"absent"}
    BY <1>0 DEF Origin
  <2>5. QED
    BY <2>1, <2>2, <2>3, <2>4 DEF Banks
<1>2. CASE BankHistorical
  <2>1. PICK c \in FirstSamples :
               rows[c] # "historical" /\ rows' = [rows EXCEPT ![c] = "historical"]
    BY <1>2 DEF BankHistorical
  <2>2. /\ UNCHANGED <<step, file, noise>> /\ step = "call" /\ command.baseline = "degraded"
    BY <1>2 DEF BankHistorical, procVars, At, Degraded
  <2>3. c \in Wanted /\ rows[c] = "absent"
    BY <2>1, <2>2 DEF Wanted, Phase, FirstSamples, TableInv
  <2>4. "historical" \in Origin \ {"absent"}
    BY DEF Origin
  <2>5. QED
    BY <2>1, <2>2, <2>3, <2>4 DEF Banks
<1>3. ASSUME NEW s \in {"baseline", "replay"}, WriteResponses(s) PROVE Copies(PhaseOf(s))
  BY <1>3 DEF WriteResponses, Copies, PhaseOf, At, Go
<1>4. CASE Crash
  <2>1. step' # "file" /\ UNCHANGED <<rows, noise>>
    BY <1>4 DEF Crash, Exit, Go
  <2>2. file' = file \/ file' = Lost(PhaseOf(stage))
    BY <1>4 DEF Crash
  <2>3. \A c \in Calls : file'[c] \in {"absent", file[c]}
    BY <2>2 DEF Lost
  <2>4. QED
    BY <2>1, <2>3 DEF Loses
<1>5. CASE BaselineNoise
  <2>1. UNCHANGED <<rows, file>>
    BY <1>5 DEF BaselineNoise
  <2>2. ASSUME command.baseline = "full", NEW c \in Phase("baseline")
        PROVE  noise'.of[c] = rows[c]
    BY <1>5, <2>2 DEF BaselineNoise, Phase
  <2>3. QED
    BY <2>1, <2>2 DEF Measures
<1>6. ASSUME NEW s \in {"baseline", "replay"}, EnterReplay(s) \/ CallsReturn(s) \/ CallsReturnShort(s)
      PROVE  Leaves
  BY <1>6, StageOrder DEF EnterReplay, CallsReturn, CallsReturnShort, Go, diskVars, Leaves, At
<1>7. ASSUME NEW s \in Prelims, Prelim(s) PROVE Leaves
  BY <1>7 DEF Prelim, Go, Leaves, At
<1>8. ASSUME NEW s, SkipDerived(s) \/ Derive(s) \/ Mark(s) PROVE Leaves
  BY <1>8 DEF SkipDerived, Derive, Mark, diskVars, Go, Leaves, At
<1>9. ASSUME Invoke \/ BaselineManifest \/ CandidateManifest \/ EvidenceFloor \/ IssueCert
               \/ MarkVerdict \/ MarkCert \/ ReportCert \/ Abort
      PROVE  Leaves
  BY <1>9 DEF Invoke, BaselineManifest, CandidateManifest, EvidenceFloor, IssueCert, MarkVerdict,
              MarkCert, ReportCert, Abort, Exit, Go, diskVars, Leaves, At
<1>10. ASSUME CertCommand \/ RebuildCert \/ UNCHANGED vars PROVE Leaves
  BY <1>10 DEF CertCommand, RebuildCert, vars, diskVars, procVars, Leaves, At
<1>11. QED
  BY <1>1, <1>2, <1>3, <1>4, <1>5, <1>6, <1>7, <1>8, <1>9, <1>10
     DEF Next, Progress, ReplayStage

\* Files that pass the floor are the whole table, and it is complete.
LEMMA FloorMeansComplete ==
  ASSUME TypeOK, TableInv, FilesInv, FloorHolds(file, command)
  PROVE  Complete(rows) /\ Complete(file) /\ file = rows
<1>0. /\ command.baseline \in {"full", "degraded"} /\ file \in Evidence /\ rows \in Evidence
      /\ K \in Nat \ {0}
  BY PipelineAssumption DEF TypeOK, Command
<1>1. ASSUME NEW c \in Wanted PROVE Has(file, c)
  <2>1. c \in Calls
    BY DEF Wanted
  <2>2. CASE c.phase = "candidate"
    BY <2>1, <2>2 DEF FloorHolds, CandidateCovered, Phase
  <2>3. CASE c.phase = "baseline"
    <3> DEFINE t == c.trace
    <3>1. t \in Traces /\ c \in Phase("baseline")
      BY <2>1, <2>3 DEF Calls, Phase
    <3>2. CASE command.baseline = "full"
      <4>1. BaselineSamples(file, t) >= K
        BY <3>1, <3>2 DEF FloorHolds
      <4>2. QED
        BY <1>0, <3>1, <4>1, SamplesCounted
    <3>3. CASE command.baseline = "degraded"
      <4>1. BaselineSamples(file, t) >= 1
        BY <3>1, <3>3 DEF FloorHolds
      <4>2. PICK b \in Phase("baseline") : b.trace = t /\ Has(file, b)
        BY <1>0, <3>1, <4>1, SamplesCounted
      <4>3. b \in Calls /\ rows[b] # "absent"
        BY <4>2 DEF FilesInv, Has, Phase
      <4>4. b.sample = 0 /\ c.sample = 0
        BY <2>3, <3>3, <4>2, <4>3 DEF TableInv, Wanted, Phase
      <4>5. b = c
        BY <2>1, <2>3, <4>2, <4>4 DEF Phase, Calls
      <4>6. QED
        BY <4>2, <4>5
    <3>4. QED
      BY <1>0, <3>2, <3>3
  <2>4. QED
    BY <2>1, <2>2, <2>3 DEF Calls
<1>2. \A c \in Calls : file[c] = rows[c]
  BY <1>1 DEF FilesInv, TableInv, Has
<1>3. file = rows
  BY <1>0, <1>2 DEF Evidence
<1>4. QED
  BY <1>1, <1>3 DEF Complete

\* A complete table is final.
LEMMA CompleteIsFinal ==
  ASSUME TypeOK, TableInv, [Next]_vars, Complete(rows)
  PROVE  rows' = rows
BY Effects DEF Banks, Copies, Loses, Measures, Leaves, Complete, Has

\* Only wanted calls are banked, and recorded answers where they belong.
LEMMA TableKept ==
  ASSUME TypeOK, TableInv, [Next]_vars, command' = command
  PROVE  TableInv'
<1>1. CASE rows' = rows
  BY <1>1 DEF TableInv, Wanted
<1>2. CASE Banks
  <2>1. PICK c \in Wanted, origin \in Origin :
               /\ rows' = [rows EXCEPT ![c] = origin]
               /\ command.baseline = "degraded" /\ c \in FirstSamples => origin = "historical"
    BY <1>2 DEF Banks
  <2>2. \A d \in Calls : d # c => rows'[d] = rows[d]
    BY <2>1 DEF TypeOK, Evidence
  <2>3. c \in Calls /\ rows'[c] = origin /\ FirstSamples \subseteq Calls
    BY <2>1 DEF Wanted, TypeOK, Evidence, FirstSamples, Phase
  <2>4. QED
    BY <2>1, <2>2, <2>3 DEF TableInv, Wanted
<1>3. QED
  BY <1>1, <1>2, Effects DEF Copies, Loses, Measures, Leaves

\* A response file is copied from the table and the noise floor measured from it
\* before; neither has what the table has not.
LEMMA FilesKept ==
  ASSUME TypeOK, TableInv, FilesInv, [Next]_vars, command' = command
  PROVE  FilesInv'
<1>0. Phase("baseline") \subseteq Calls
  BY DEF Phase
<1>1. CASE Banks
  <2>1. PICK c \in Calls, origin \in Origin :
               rows[c] = "absent" /\ rows' = [rows EXCEPT ![c] = origin]
    BY <1>1 DEF Banks, Wanted
  <2>2. \A d \in Calls : file[d] = "absent" \/ (file[d] = rows[d] /\ rows'[d] = rows[d])
    BY <2>1 DEF FilesInv, TypeOK, Evidence
  <2>3. UNCHANGED <<file, noise>> /\ ~At("baseline", "file")'
    BY <1>1 DEF Banks, At
  <2>4. QED
    BY <1>0, <2>2, <2>3 DEF FilesInv, Has
<1>2. ASSUME NEW p, Copies(p) PROVE FilesInv'
  <2>1. \A c \in Calls : file'[c] = IF c.phase = p THEN rows[c] ELSE file[c]
    BY <1>2 DEF Copies
  <2>2. UNCHANGED <<rows, noise>> /\ ~At("baseline", "file")'
    BY <1>2 DEF Copies, At
  <2>3. p = "baseline" => At("baseline", "file")
    BY <1>2 DEF Copies
  <2>4. \A c \in Calls : file'[c] \in {"absent", rows'[c]}
    BY <2>1, <2>2 DEF FilesInv
  <2>5. ASSUME command.baseline = "full", NEW c \in Phase("baseline"), Has(file', c)
        PROVE  noise'.of[c] = rows'[c]
    <3>1. CASE p = "baseline"
      BY <2>2, <2>3, <2>5, <3>1 DEF FilesInv
    <3>2. CASE p # "baseline"
      <4>1. file'[c] = file[c]
        BY <2>1, <3>2 DEF Phase
      <4>2. QED
        BY <2>2, <2>5, <4>1 DEF FilesInv, Has
    <3>3. QED
      BY <3>1, <3>2
  <2>6. QED
    BY <2>2, <2>4, <2>5 DEF FilesInv, Has
<1>3. CASE Loses
  <2>1. UNCHANGED <<rows, noise>> /\ ~At("baseline", "file")'
    BY <1>3 DEF Loses, At
  <2>2. \A c \in Calls : file'[c] \in {"absent", file[c]}
    BY <1>3 DEF Loses
  <2>3. QED
    BY <1>0, <2>1, <2>2 DEF FilesInv, Has
<1>4. CASE Measures
  BY <1>4 DEF Measures, FilesInv, Has
<1>5. CASE Leaves
  BY <1>5 DEF Leaves, FilesInv, Has
<1>6. QED
  BY <1>1, <1>2, <1>3, <1>4, <1>5, Effects

\* An artifact is derived from files that passed the floor, in the order of the
\* stages.
LEMMA DerivedKept ==
  ASSUME TypeOK, CoverInv, TableInv, FilesInv, DerivedInv, [Next]_vars, command' = command
  PROVE  DerivedInv'
<1>1. ASSUME NEW d \in Derived, Marked(d)'
      PROVE  Complete(rows)' /\ derived'[d] = rows'
  <2>1. Complete(rows) /\ derived'[d] = rows
    <3>1. CASE derived'[d] = derived[d] /\ Marked(d)
      BY <3>1 DEF DerivedInv
    <3>2. CASE stage = d /\ derived'[d] = file
      BY <3>2, FloorMeansComplete DEF CoverInv, Behind
    <3>3. QED
      BY <1>1, <3>1, <3>2, Marks
  <2>2. rows' = rows
    BY <2>1, CompleteIsFinal
  <2>3. QED
    BY <2>1, <2>2 DEF Complete, Wanted
<1>2. /\ stage' \in {"judge", "cluster", "verdict"} => "diff" \in mem'
      /\ stage' \in {"cluster", "verdict"} => "judge" \in mem'
      /\ stage' = "verdict" => "cluster" \in mem'
  <2> SUFFICES ASSUME stage' \in {"judge", "cluster", "verdict"}
               PROVE  /\ "diff" \in mem'
                      /\ stage' \in {"cluster", "verdict"} => "judge" \in mem'
                      /\ stage' = "verdict" => "cluster" \in mem'
    OBVIOUS
  <2>0. stage' \in Behind
    BY DEF Behind, Derived
  <2>1. CASE EvidenceFloor
    BY <2>1 DEF EvidenceFloor, Exit, Go
  <2>2. ASSUME NEW s \in Derived, SkipDerived(s) \/ Mark(s)
        PROVE  stage = s /\ stage' = After(s) /\ mem' = mem \cup {s}
    BY <2>2 DEF SkipDerived, Mark, MarkStage, At, Go
  <2>3. ASSUME NEW s \in Derived, Derive(s)
        PROVE  UNCHANGED <<stage, mem>>
    BY <2>3 DEF Derive, At, Go
  <2>4. CASE IssueCert
    BY <2>4 DEF IssueCert, At, Go, Exit, DerivedInv
  <2>5. CASE UNCHANGED <<stage, mem>>
    BY <2>5 DEF DerivedInv
  <2>6. ASSUME NEW s \in Derived, stage = s, stage' = After(s), mem' = mem \cup {s}
        PROVE  /\ "diff" \in mem'
               /\ stage' \in {"cluster", "verdict"} => "judge" \in mem'
               /\ stage' = "verdict" => "cluster" \in mem'
    BY <2>6, StageOrder DEF DerivedInv, Derived
  <2>7. QED
    BY <2>0, <2>1, <2>2, <2>3, <2>4, <2>5, <2>6, BehindSteps
<1>3. QED
  BY <1>1, <1>2 DEF DerivedInv

\* A certificate is issued from files that passed the floor, and what it rests
\* on is final.
LEMMA CertKept ==
  ASSUME TypeOK, CoverInv, WholeInv, [Next]_vars, command' = command
  PROVE  CertInv'
<1> SUFFICES ASSUME RunCert'
             PROVE  /\ Complete(rows)'
                    /\ cert'.of = rows'
                    /\ \A d \in Derived : derived'[d] = rows'
                    /\ cert'.baseline = "full" =>
                         /\ command.baseline = "full"
                         /\ \A c \in Phase("baseline") : noise'.of[c] = rows'[c]
  BY DEF CertInv
<1> USE DEF WholeInv
<1>1. CASE cert' = cert
  <2>1. /\ Complete(rows) /\ cert.of = rows /\ \A d \in Derived : derived[d] = rows
        /\ cert.baseline = "full" =>
             command.baseline = "full" /\ \A c \in Phase("baseline") : noise.of[c] = rows[c]
    BY <1>1 DEF CertInv, RunCert
  <2>2. rows' = rows
    BY <2>1, CompleteIsFinal
  <2>3. ASSUME NEW d \in Derived PROVE derived'[d] = rows
    <3>1. CASE stage = d /\ derived'[d] = file
      BY <3>1, FloorMeansComplete DEF CoverInv, Behind
    <3>2. QED
      BY <2>1, <3>1, Marks
  <2>4. noise' = noise \/ (command.baseline = "full" =>
                             \A c \in Phase("baseline") : noise'.of[c] = rows[c])
    BY Effects DEF Banks, Copies, Loses, Measures, Leaves
  <2>5. Complete(rows)'
    BY <2>1, <2>2 DEF Complete, Wanted
  <2>6. QED
    BY <1>1, <2>1, <2>2, <2>3, <2>4, <2>5
<1>2. CASE stage = "verdict" /\ cert' = Certificate("run", command.mode, command.baseline)
  <2>1. Complete(rows) /\ Complete(file) /\ file = rows
    BY <1>2, FloorMeansComplete DEF CoverInv, Behind
  <2>2. rows' = rows
    BY <2>1, CompleteIsFinal
  <2>3. ASSUME NEW d \in Derived PROVE derived'[d] = rows
    <3>1. Marked(d) /\ d # stage
      BY <1>2 DEF DerivedInv, Derived, Marked
    <3>2. derived[d] = rows
      BY <3>1 DEF DerivedInv
    <3>3. QED
      BY <3>1, <3>2, Marks
  <2>4. cert'.of = rows /\ (cert'.baseline = "full" => command.baseline = "full")
    <3>1. command.baseline \in {"full", "degraded"}
      BY PipelineAssumption DEF TypeOK, Command
    <3>2. QED
      BY <1>2, <2>1, <3>1 DEF Certificate
  <2>5. ASSUME command.baseline = "full", NEW c \in Phase("baseline")
        PROVE  noise'.of[c] = rows[c]
    <3>1. c \in Wanted
      BY <2>5 DEF Wanted, Phase
    <3>2. noise.of[c] = rows[c]
      BY <2>1, <2>5, <3>1 DEF FilesInv, Complete
    <3>3. noise' = noise \/ noise'.of[c] = rows[c]
      BY <2>5, Effects DEF Banks, Copies, Loses, Measures, Leaves
    <3>4. QED
      BY <3>2, <3>3
  <2>6. Complete(rows)'
    BY <2>1, <2>2 DEF Complete, Wanted
  <2>7. QED
    BY <2>2, <2>3, <2>4, <2>5, <2>6
<1>3. QED
  BY <1>1, <1>2, Issues DEF RunCert

\* The invariant of an operator who repeats one command.
THEOREM WholeInvariant ==
  ASSUME ~Switching
  PROVE  Spec => []WholeInv
<1>1. Init => WholeInv
  <2> SUFFICES ASSUME Init PROVE WholeInv
    OBVIOUS
  <2>1. rows = NoEvidence /\ file = NoEvidence /\ stage = "down"
    BY DEF Init
  <2>2. TableInv
    BY <2>1 DEF TableInv, NoEvidence, FirstSamples, Phase
  <2>3. FilesInv
    BY <2>1 DEF FilesInv, NoEvidence, Phase, Has, At
  <2>4. DerivedInv
    BY DEF Init, DerivedInv, Marked, At
  <2>5. CertInv
    BY DEF Init, CertInv, RunCert
  <2>6. QED
    BY <2>2, <2>3, <2>4, <2>5 DEF WholeInv
<1>2. TypeOK /\ CoverInv /\ WholeInv /\ [Next]_vars => WholeInv'
  BY CommandKept, TableKept, FilesKept, DerivedKept, CertKept DEF WholeInv
<1>3. QED
  BY <1>1, <1>2, TypeCorrect, CoverInvariant, PTL DEF Spec

\* The pieces of a certificate belong together, if the operator repeats the
\* command: its assertions, judgments, clusters and noise floor were computed
\* from the responses that it covers, in whatever invocations.
THEOREM CertificateIsWhole ==
  ASSUME ~Switching
  PROVE  Spec => []CertWhole
<1>1. WholeInv => CertWhole
  BY DEF WholeInv, CertInv, CertWhole
<1>2. QED
  BY <1>1, WholeInvariant, PTL

=============================================================================
