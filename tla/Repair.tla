------------------------------- MODULE Repair -------------------------------
(***************************************************************************)
(* From the regressions of a run to names for their clusters, proposals    *)
(* for a patch of the prompt, and a verdict on a proposal                  *)
(* (diff/clustering.py, patch.py, the `cluster` command and the cluster    *)
(* stage of cli.py).                                                       *)
(*                                                                         *)
(* Every call is cached under the id of a cluster: a name and a proposal   *)
(* in replay.sqlite, the answers of a validation in a database of the      *)
(* cluster's own.  The ids are labels that HDBSCAN counts up from zero, so *)
(* the same id may mean other pairs once the judgments have changed.       *)
(* validate_patch is called by the tests only; here it follows the         *)
(* proposals of an invocation as it does there.                            *)
(***************************************************************************)
EXTENDS Naturals, FiniteSets, FiniteSetsExt, SequencesExt

CONSTANTS
  Pairs,         \* the pairs of baseline and candidate answers
  Judgments,     \* the sets of regressions that judgments and assertions may give
  SampledIn,     \* the pairs sampled, for each of them
  Grouping,      \* the buckets, in their order, for each of them
  Ids,           \* cluster ids
  NeedsName,     \* the buckets that neither an assertion nor an outcome names
  Systems,       \* request.system of each pair's trace, or NoText
  Prompts,       \* the text of each trace's prompt
  TemplateOf,    \* its template_id, or NoText
  Enough,        \* the common characters that make any template stable (100)
  Replacements,  \* what a patcher may propose
  Holds,         \* the pairs that do not regress under each of them, or under
                 \* the target as it is: the client gives fixed answers
  NoText,        \* an absent text
  Validated,     \* bound: the clusters whose proposals are validated
  MaxInvocations \* bound: invocations of the command

ASSUME RepairAssumption ==
  /\ IsFiniteSet(Pairs)
  /\ \A R \in Judgments :
       /\ R \subseteq SampledIn[R] /\ SampledIn[R] \in SUBSET Pairs \ {{}}
       /\ Grouping[R] \in Seq([id : Ids, members : SUBSET R \ {{}}])
       /\ IsInjective([i \in DOMAIN Grouping[R] |-> Grouping[R][i].id])
  /\ DOMAIN Systems = Pairs /\ DOMAIN Prompts = Pairs /\ DOMAIN TemplateOf = Pairs
  /\ NoText \notin Replacements
  /\ \A text \in DOMAIN Holds : Holds[text] \subseteq Pairs
  /\ Validated \subseteq Ids
  /\ Enough \in Nat /\ MaxInvocations \in Nat

VARIABLES
  regressions,  \* what judgments.jsonl and assertion_results.jsonl say
  rejudged,     \* history: they have said something else before
  calls,        \* the cached answers of the namer and the patcher
  trials,       \* the cached answers under a patch, of the cluster and the control
  clusters,     \* clusters.json
  verdict,      \* the last report of validate_patch
  job,          \* the process
  invocations

vars == <<regressions, rejudged, calls, trials, clusters, verdict, job, invocations>>

Malformed == "malformed"
Name == "a name"
Original == "original"    \* the target as it is: what a failed proposal stands for
Phase == {"cluster_name", "patch_proposal"}
CallKeys == Phase \X Ids \X {0, 1}
TrialKeys == {"cluster", "control"} \X Ids \X Pairs
NoCall == [done |-> FALSE, asked |-> {}, text |-> NoText]
NoTrial == [done |-> FALSE, under |-> NoText, regresses |-> FALSE]
NoVerdict == [id |-> NoText, members |-> {}, control |-> {}, under |-> NoText, accepted |-> FALSE]

\* found: what the process knows of each cluster, and whom it was asked about.
Unknown == [text |-> NoText, about |-> {}]
Idle == [pc |-> "idle", buckets |-> <<>>, at |-> 1, attempt |-> 0,
         found |-> [id \in Ids |-> Unknown]]

TypeOK ==
  /\ regressions \in Judgments /\ rejudged \in BOOLEAN
  /\ DOMAIN calls = CallKeys
  /\ \A k \in CallKeys :
       calls[k] \in [done : BOOLEAN, asked : SUBSET Pairs,
                     text : Replacements \cup {Name, Malformed, NoText}]
  /\ DOMAIN trials = TrialKeys
  /\ \A k \in TrialKeys :
       trials[k] \in [done : BOOLEAN, under : Replacements \cup {Original, NoText},
                      regresses : BOOLEAN]
  /\ \A c \in clusters : c.id \in Ids /\ c.members \in SUBSET Pairs
  /\ Cardinality({c.id : c \in clusters}) = Cardinality(clusters)
  /\ verdict.members \cap verdict.control = {}
  /\ job.pc \in Phase \cup {"idle", "cluster", "control"}
  /\ job.at \in 1..(Len(job.buckets) + 1)
  /\ job.attempt \in {0, 1}
  /\ invocations \in 0..MaxInvocations

Init ==
  /\ regressions \in Judgments /\ rejudged = FALSE
  /\ calls = [k \in CallKeys |-> NoCall]
  /\ trials = [k \in TrialKeys |-> NoTrial]
  /\ clusters = {} /\ verdict = NoVerdict
  /\ job = Idle
  /\ invocations = 0

-----------------------------------------------------------------------------
(* The part of the prompt that a patch may replace. *)

CommonPrefix(texts) ==
  LET agree(n) == \A s, t \in texts : SubSeq(s, 1, n) = SubSeq(t, 1, n)
  IN Max({n \in 0..Min({Len(s) : s \in texts}) : agree(n)})

MedianLength(members) ==
  LET longest(n) == {p \in members : Len(Prompts[p]) <= n}
      half == Cardinality(members) \div 2
  IN Min({n \in {Len(Prompts[p]) : p \in members} : Cardinality(longest(n)) > half})

\* The common prefix and suffix may overlap; one trace alone is stable.
Stable(members) ==
  LET texts == {Prompts[p] : p \in members}
      common == CommonPrefix(texts) + CommonPrefix({Reverse(s) : s \in texts})
  IN common >= Enough \/ 5 * common >= MedianLength(members)

PatchTarget(sampled) ==
  LET templates == {TemplateOf[p] : p \in sampled} \ {NoText}
      of(name) == {p \in sampled : TemplateOf[p] = name}
      shared(s) == 100 * Cardinality({p \in sampled : Systems[p] = s}) >= 95 * Cardinality(sampled)
  IN IF templates = {} /\ ~Stable(sampled) THEN "none"
     ELSE IF \E s \in {Systems[p] : p \in sampled} \ {NoText} : shared(s) THEN "system"
     ELSE IF templates = {} \/ \E name \in templates : Stable(of(name)) THEN "template_prefix"
     ELSE "none"

-----------------------------------------------------------------------------
(* Asking for names and for proposals. *)

\* The next invocation finds other regressions: the judgments were made again,
\* or it is given other --traces.
Rejudge ==
  /\ job.pc = "idle" /\ 0 < invocations /\ invocations < MaxInvocations
  /\ regressions' \in Judgments \ {regressions}
  /\ rejudged' = TRUE
  /\ UNCHANGED <<calls, trials, clusters, verdict, job, invocations>>

Begin ==
  /\ job.pc = "idle"
  /\ invocations < MaxInvocations
  /\ invocations' = invocations + 1
  /\ job' = [Idle EXCEPT !.pc = "cluster_name", !.buckets = Grouping[regressions]]
  /\ UNCHANGED <<regressions, rejudged, calls, trials, clusters, verdict>>

AtEnd == job.at > Len(job.buckets)
Bucket == job.buckets[job.at]

\* Mutant: one key for all the clusters.
CallKeyShared(id) == <<job.pc, CHOOSE any \in Ids : TRUE, job.attempt>>

\* "name:{cluster_id}" or "patch:{cluster_id}", and the attempt as the sample
CallKey(id) == <<job.pc, id, job.attempt>>

Consults ==
  /\ job.pc \in Phase /\ ~AtEnd
  /\ job.pc = "cluster_name" => Bucket.members \in NeedsName

NamedByReason ==
  /\ job.pc \in Phase /\ ~AtEnd /\ ~Consults
  /\ job' = [job EXCEPT !.at = @ + 1]
  /\ UNCHANGED <<regressions, rejudged, calls, trials, clusters, verdict, invocations>>

NamerAnswers == {Name, Malformed}
PatcherAnswers == Replacements \cup {Malformed}
WellFormed(text) == text # Malformed

\* The cluster that the prompt is made from: it quotes the signatures of the
\* first five members for a name, and three exemplars for a proposal.
Subject == Bucket.members

\* The row that write_done leaves of an answer; the hash of the prompt is in it,
\* but not in its key.
Row(text) == [done |-> TRUE, asked |-> Subject, text |-> text]

\* Mutant: what is banked is asked again and replaced.
AskAnyway ==
  /\ Consults
  /\ \E text \in IF job.pc = "cluster_name" THEN NamerAnswers ELSE PatcherAnswers :
       calls' = [calls EXCEPT ![CallKey(Bucket.id)] = Row(text)]
  /\ UNCHANGED <<regressions, rejudged, trials, clusters, verdict, job, invocations>>

\* The answer is banked before it is read: the process may be interrupted in
\* between (record_dispatch).
Ask ==
  /\ Consults
  /\ ~calls[CallKey(Bucket.id)].done
  /\ \E text \in IF job.pc = "cluster_name" THEN NamerAnswers ELSE PatcherAnswers :
       calls' = [calls EXCEPT ![CallKey(Bucket.id)] = Row(text)]
  /\ UNCHANGED <<regressions, rejudged, trials, clusters, verdict, job, invocations>>

\* The process takes a text for the cluster, and turns to the next one.
Learned(text, about) ==
  [job EXCEPT !.at = @ + 1, !.attempt = 0,
     !.found[Bucket.id] = [text |-> text, about |-> about]]

\* Mutant: a malformed answer is always worth another attempt.
ReadForever ==
  /\ Consults
  /\ LET call == calls[CallKey(Bucket.id)]
     IN /\ call.done
        /\ job' = IF WellFormed(call.text) THEN Learned(call.text, call.asked)
                  ELSE [job EXCEPT !.attempt = @ + 1]
  /\ UNCHANGED <<regressions, rejudged, calls, trials, clusters, verdict, invocations>>

Read ==
  /\ Consults
  /\ LET call == calls[CallKey(Bucket.id)]
     IN /\ call.done
        /\ job' = IF WellFormed(call.text) THEN Learned(call.text, call.asked)
                  ELSE IF job.attempt = 0 THEN [job EXCEPT !.attempt = 1]
                  ELSE Learned(Original, {})
  /\ UNCHANGED <<regressions, rejudged, calls, trials, clusters, verdict, invocations>>

\* clusters.json; the stage of `acsi run` goes on to propose, the command when
\* it is told to.
WriteClusters ==
  /\ job.pc = "cluster_name" /\ AtEnd
  /\ clusters' = {[id |-> b.id, members |-> b.members, about |-> job.found[b.id].about]
                    : b \in ToSet(job.buckets)}
  /\ job' \in {Idle} \cup
       {[Idle EXCEPT !.pc = "patch_proposal", !.buckets = job.buckets]
          : target \in {PatchTarget(SampledIn[regressions])} \ {"none"}}
  /\ UNCHANGED <<regressions, rejudged, calls, trials, verdict, invocations>>

\* patch_report.json calls every proposal unvalidated and unaccepted, and the
\* commands end there; a caller of validate_patch goes on with one of them.
Proposed ==
  /\ job.pc = "patch_proposal" /\ AtEnd
  /\ job' \in {Idle} \cup
       {[job EXCEPT !.pc = "cluster", !.at = i]
          : i \in {i \in DOMAIN job.buckets : job.buckets[i].id \in Validated}}
  /\ UNCHANGED <<regressions, rejudged, calls, trials, clusters, verdict, invocations>>

-----------------------------------------------------------------------------
(* validate_patch. *)

Proposal == job.found[Bucket.id].text

\* _sample_control: a seeded sample, the same for the same pairs; all of the
\* equivalent pairs where they are too few
Control ==
  LET equivalent == SampledIn[regressions] \ regressions
      size == Min({Cardinality(equivalent), Cardinality(Bucket.members)})
  IN CHOOSE S \in SUBSET equivalent : Cardinality(S) = size

\* _still_regresses, of the client's answer under the proposal
Regresses(p) == p \notin Holds[Proposal]

\* The rows that a replay of the pairs leaves in the database of the cluster:
\* what is done is not asked again, whatever patch it was asked under.  A call
\* may fail, and the process die before it gets to it: to those that read the
\* rows both are no answer.
Replayed(side, pairs) ==
  LET missing == {p \in pairs : ~trials[<<side, Bucket.id, p>>].done}
      answer(p) == [done |-> TRUE, under |-> Proposal, regresses |-> Regresses(p)]
  IN {[k \in TrialKeys |-> IF k[1] = side /\ k[2] = Bucket.id /\ k[3] \in answered
                           THEN answer(k[3]) ELSE trials[k]] : answered \in SUBSET missing}

\* by_trace[item.pair_id]: a pair without an answer is a KeyError
Answered(side, pairs) == \A p \in pairs : trials'[<<side, Bucket.id, p>>].done

TryCluster ==
  /\ job.pc = "cluster"
  /\ trials' \in Replayed("cluster", Bucket.members)
  /\ job' = IF Answered("cluster", Bucket.members) THEN [job EXCEPT !.pc = "control"] ELSE Idle
  /\ UNCHANGED <<regressions, rejudged, calls, clusters, verdict, invocations>>

TryControl ==
  /\ job.pc = "control"
  /\ trials' \in Replayed("control", Control)
  /\ verdict' =
       IF ~Answered("control", Control) THEN verdict
       ELSE LET fixed == {p \in Bucket.members : ~trials[<<"cluster", Bucket.id, p>>].regresses}
                broken == {p \in Control : trials'[<<"control", Bucket.id, p>>].regresses}
            IN [id |-> Bucket.id, members |-> Bucket.members, control |-> Control,
                under |-> Proposal,
                accepted |-> 5 * Cardinality(fixed) >= 4 * Cardinality(Bucket.members)
                             /\ broken = {}]
  /\ job' = Idle
  /\ UNCHANGED <<regressions, rejudged, calls, clusters, invocations>>

\* The budget of dispatches runs out, or the process dies.
Stop ==
  /\ job.pc # "idle"
  /\ job' = Idle
  /\ UNCHANGED <<regressions, rejudged, calls, trials, clusters, verdict, invocations>>

Next ==
  \/ Rejudge
  \/ Begin
  \/ NamedByReason
  \/ Ask
  \/ Read
  \/ WriteClusters
  \/ Proposed
  \/ TryCluster
  \/ TryControl
  \/ Stop

Spec == Init /\ [][Next]_vars

-----------------------------------------------------------------------------
(* Properties. *)

\* The stated cache: a response is reused for the prompt that it was given to
\* (SPEC.md, "response cache keyed on (model, params-hash, prompt-hash,
\* sample-index)"), so that a name in clusters.json that was asked for was
\* asked for the members of its cluster.
NamesFit == \A c \in clusters : c.about \in {{}, c.members}

\* As long as the regressions stay what they were, that holds, whatever was
\* interrupted, retried or cached on the way (clustering.py, _name_cluster).
NamesFitOnce == rejudged \/ NamesFit

\* A patch that validate_patch accepts has fixed four fifths of the cluster and
\* broken no control pair, under this very patch: although the answers of a
\* validation are cached without it, none of another proposal's is counted,
\* since the proposal of a cluster id is cached for as long (patch.py,
\* propose_patch and _replay_and_count_fixed).
AcceptedMeansFixed ==
  LET under(side, p, regresses) ==
        trials[<<side, verdict.id, p>>] =
          [done |-> TRUE, under |-> verdict.under, regresses |-> regresses]
  IN verdict.accepted =>
       /\ 5 * Cardinality({p \in verdict.members : under("cluster", p, FALSE)})
            >= 4 * Cardinality(verdict.members)
       /\ \A p \in verdict.members : \E r \in BOOLEAN : under("cluster", p, r)
       /\ \A p \in verdict.control : under("control", p, FALSE)

=============================================================================
