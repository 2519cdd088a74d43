---------------------------- MODULE RepairProofs ----------------------------
(***************************************************************************)
(* What Repair's Spec guarantees for any pairs, judgments and clusters,    *)
(* any prompts and patches, and any number of interrupted invocations.     *)
(*                                                                         *)
(* A row of the cache is never replaced, so that the proposal of a cluster *)
(* id is fixed by the rows of its two attempts (Final).  The answers of a  *)
(* validation are cached under the cluster id alone; that none was given   *)
(* under another patch follows from that.                                  *)
(***************************************************************************)
EXTENDS Repair, FiniteSetTheorems, FunctionTheorems, TLAPS

Texts == Replacements \cup {Name, Malformed, Original, NoText}
Finding == [text : Texts, about : SUBSET Pairs]

\* The process works on the clusters of the regressions that it has found.
JobInv ==
  /\ job \in [pc : Phase \cup {"idle", "cluster", "control"},
              buckets : {<<>>} \cup {Grouping[R] : R \in Judgments},
              at : Nat, attempt : {0, 1}, found : [Ids -> Finding]]
  /\ job.pc # "idle" => job.buckets = Grouping[regressions]
  /\ job.pc \in {"cluster", "control"} => ~AtEnd
  /\ job.attempt = 1 => /\ Consults
                        /\ calls[<<job.pc, Bucket.id, 0>>].done
                        /\ calls[<<job.pc, Bucket.id, 0>>].text = Malformed

\* The clusters that a call with this id may have been asked about: until the
\* judgments are made again, the one that has the id.
AboutId(id) ==
  {b.members : b \in {b \in IF rejudged THEN UNION {ToSet(Grouping[R]) : R \in Judgments}
                            ELSE ToSet(Grouping[regressions]) : b.id = id}}

\* The name of a written cluster was asked for its members, or, once the
\* judgments were made again, for some cluster of the same id.
NamesInv ==
  \A c \in clusters :
    c.about \in {{}, c.members} \cup
      (IF rejudged THEN {b.members : b \in {b \in UNION {ToSet(Grouping[R]) : R \in Judgments}
                                             : b.id = c.id}}
       ELSE {})

AboutInv ==
  /\ \A k \in CallKeys : calls[k].done => calls[k].asked \in AboutId(k[2])
  /\ \A id \in Ids : job.found[id].about \in {{}} \cup AboutId(id)
  /\ NamesInv

\* What the two attempts for a cluster id come to, once they are over.
Attempt(id, n) == calls[<<"patch_proposal", id, n>>]
Over(id) ==
  Attempt(id, 0).done /\ (Attempt(id, 0).text = Malformed => Attempt(id, 1).done)
Final(id) ==
  IF Attempt(id, 0).text # Malformed THEN Attempt(id, 0).text
  ELSE IF Attempt(id, 1).text # Malformed THEN Attempt(id, 1).text
  ELSE Original

\* The proposals that the process has found are the final ones.
FoundFinal(id) == Over(id) /\ job.found[id].text = Final(id)
FoundInv ==
  /\ \A id \in Ids, n \in {0, 1} :
       Attempt(id, n).done => Attempt(id, n).text \in Replacements \cup {Malformed}
  /\ job.pc = "patch_proposal" =>
       \A i \in DOMAIN job.buckets : i < job.at => FoundFinal(job.buckets[i].id)
  /\ job.pc \in {"cluster", "control"} =>
       \A i \in DOMAIN job.buckets : FoundFinal(job.buckets[i].id)

\* Every answer of a validation was given under the proposal of its cluster id.
TrialInv ==
  /\ \A k \in TrialKeys : trials[k].done => Over(k[2]) /\ trials[k].under = Final(k[2])
  /\ job.pc = "control" =>
       \A p \in Bucket.members : trials[<<"cluster", Bucket.id, p>>].done

VerdictInv ==
  /\ verdict \in [id : Ids \cup {NoText}, members : SUBSET Pairs, control : SUBSET Pairs,
                  under : Texts, accepted : BOOLEAN]
  /\ verdict.accepted => verdict.id \in Ids
  /\ AcceptedMeansFixed

IInv == TypeOK /\ JobInv /\ AboutInv /\ FoundInv /\ TrialInv /\ VerdictInv

-----------------------------------------------------------------------------
(* Facts about the operators. *)

\* A finite set has subsets of every smaller size.
LEMMA SubsetOfSize ==
  ASSUME NEW S, IsFiniteSet(S), NEW n \in Nat, n <= Cardinality(S)
  PROVE  \E T \in SUBSET S : Cardinality(T) = n
<1> DEFINE m == Cardinality(S)
<1>1. m \in Nat /\ ExistsBijection(1..m, S)
  BY FS_CardinalityType
<1>2. PICK f \in Bijection(1..m, S) : TRUE
  BY <1>1 DEF ExistsBijection
<1> DEFINE T == {f[i] : i \in 1..n}
           g == [i \in 1..n |-> f[i]]
<1> HIDE DEF m
<1>3. f \in [1..m -> S] /\ \A a, b \in 1..m : f[a] = f[b] => a = b
  BY <1>2, Fun_BijectionProperties
<1>4. 1..n \subseteq 1..m
  BY <1>1 DEF m
<1>5. T \in SUBSET S
  BY <1>3, <1>4
<1>6. g \in Bijection(1..n, T)
  <2>1. g \in [1..n -> T] /\ \A a, b \in 1..n : g[a] = g[b] => a = b
    BY <1>3, <1>4
  <2>2. \A t \in T : \E i \in 1..n : g[i] = t
    OBVIOUS
  <2>3. QED
    BY <2>1, <2>2, Fun_IsBij
<1>7. IsFiniteSet(1..n) /\ Cardinality(1..n) = n
  BY FS_Interval
<1>8. Cardinality(T) = n
  BY <1>6, <1>7, FS_Bijection DEF ExistsBijection
<1>9. QED
  BY <1>5, <1>8

\* The clusters of a set of regressions are known by their ids.
LEMMA Buckets ==
  ASSUME NEW R \in Judgments
  PROVE  /\ Len(Grouping[R]) \in Nat /\ DOMAIN Grouping[R] = 1..Len(Grouping[R])
         /\ \A i \in DOMAIN Grouping[R] :
              /\ Grouping[R][i] \in [id : Ids, members : SUBSET Pairs]
              /\ Grouping[R][i].members \subseteq R
         /\ \A i, j \in DOMAIN Grouping[R] :
              Grouping[R][i].id = Grouping[R][j].id => i = j
<1> DEFINE g == Grouping[R]
<1>1. /\ R \subseteq SampledIn[R] /\ SampledIn[R] \subseteq Pairs
      /\ g \in Seq([id : Ids, members : SUBSET R \ {{}}])
      /\ IsInjective([i \in DOMAIN g |-> g[i].id])
  BY RepairAssumption
<1>2. \A i, j \in DOMAIN g : g[i].id = g[j].id => i = j
  BY <1>1 DEF IsInjective
<1>3. Len(g) \in Nat /\ DOMAIN g = 1..Len(g)
  BY <1>1
<1>4. \A i \in DOMAIN g : g[i] \in [id : Ids, members : SUBSET R \ {{}}]
  <2> DEFINE B == [id : Ids, members : SUBSET R \ {{}}]
             h == g
  <2>1. h \in Seq(B)
    BY <1>1
  <2> HIDE DEF B, h
  <2>2. \A i \in DOMAIN h : h[i] \in B
    BY <2>1
  <2>3. QED
    BY <2>2 DEF B, h
<1>5. \A i \in DOMAIN g : g[i] \in [id : Ids, members : SUBSET Pairs] /\ g[i].members \subseteq R
  BY <1>1, <1>4
<1>6. QED
  BY <1>2, <1>3, <1>5

\* The control sample is taken from the pairs that did not regress.
LEMMA ControlSample ==
  ASSUME regressions \in Judgments, Bucket.members \subseteq Pairs
  PROVE  Control \subseteq SampledIn[regressions] \ regressions /\ Control \subseteq Pairs
<1> DEFINE equivalent == SampledIn[regressions] \ regressions
           a == Cardinality(equivalent)
           b == Cardinality(Bucket.members)
           size == Min({a, b})
<1>1. equivalent \subseteq Pairs /\ IsFiniteSet(Pairs)
  BY RepairAssumption
<1>2. IsFiniteSet(equivalent) /\ a \in Nat /\ b \in Nat
  BY <1>1, FS_Subset, FS_CardinalityType
<1> HIDE DEF a, b
<1>3. size \in Nat /\ size <= a
  <2>1. \E x \in {a, b} : \A y \in {a, b} : x <= y
    BY <1>2
  <2>2. size \in {a, b} /\ \A y \in {a, b} : size <= y
    BY <2>1 DEF Min
  <2>3. QED
    BY <1>2, <2>2
<1> HIDE DEF size
<1>4. \E S \in SUBSET equivalent : Cardinality(S) = size
  BY <1>2, <1>3, SubsetOfSize DEF a
<1>5. Control = CHOOSE S \in SUBSET equivalent : Cardinality(S) = size
  BY DEF Control, size, a, b
<1>6. Control \in SUBSET equivalent
  BY <1>4, <1>5
<1>7. QED
  BY <1>1, <1>6

\* The cluster at hand.
LEMMA Here ==
  ASSUME TypeOK, JobInv, job.pc # "idle"
  PROVE  /\ job.buckets = Grouping[regressions]
         /\ regressions \in Judgments
         /\ Len(job.buckets) \in Nat /\ DOMAIN job.buckets = 1..Len(job.buckets)
         /\ job.at \in Nat /\ job.at >= 1
         /\ ~AtEnd => /\ job.at \in DOMAIN job.buckets
                      /\ Bucket.id \in Ids /\ Bucket.members \subseteq Pairs
                      /\ Bucket.members \subseteq regressions
                      /\ Bucket \in ToSet(Grouping[regressions])
<1>1. regressions \in Judgments /\ job.buckets = Grouping[regressions]
  BY DEF TypeOK, JobInv
<1>2. Len(job.buckets) \in Nat /\ DOMAIN job.buckets = 1..Len(job.buckets)
  BY <1>1, Buckets
<1>3. job.at \in 1..(Len(job.buckets) + 1)
  BY DEF TypeOK
<1>4. ASSUME ~AtEnd PROVE job.at \in DOMAIN job.buckets
  BY <1>2, <1>3, <1>4 DEF AtEnd
<1>5. ASSUME ~AtEnd
      PROVE  /\ Bucket \in [id : Ids, members : SUBSET Pairs]
             /\ Bucket.members \subseteq regressions
             /\ Bucket \in ToSet(Grouping[regressions])
  BY <1>1, <1>4, <1>5, Buckets DEF Bucket, ToSet
<1>6. QED
  BY <1>1, <1>2, <1>3, <1>4, <1>5

\* The proposal of a cluster id is one of the patcher's, or the target as it is.
LEMMA FinalType ==
  ASSUME FoundInv, NEW id \in Ids, Over(id)
  PROVE  Final(id) \in Replacements \cup {Original}
BY DEF FoundInv, Over, Final, Attempt

\* It stays what it is for as long as no row is replaced.
LEMMA FinalStable ==
  ASSUME \A k \in CallKeys : calls[k].done => calls'[k] = calls[k],
         NEW id \in Ids, Over(id)
  PROVE  Over(id)' /\ Final(id)' = Final(id)
<1>1. <<"patch_proposal", id, 0>> \in CallKeys /\ <<"patch_proposal", id, 1>> \in CallKeys
  BY DEF CallKeys, Phase
<1>2. QED
  BY <1>1 DEF Over, Final, Attempt

\* A call is made once: no step replaces a row that is done.
LEMMA RowsKept ==
  ASSUME TypeOK, JobInv, [Next]_vars
  PROVE  \A k \in CallKeys : calls[k].done => calls'[k] = calls[k]
<1>1. CASE Ask
  BY <1>1 DEF Ask, TypeOK
<1>2. CASE calls' = calls
  BY <1>2
<1>3. ASSUME ~Ask PROVE calls' = calls
  BY <1>3 DEF Next, vars, Rejudge, Begin, NamedByReason, Read, WriteClusters, Proposed,
     TryCluster, TryControl, Stop
<1>4. QED
  BY <1>1, <1>2, <1>3

\* What a validation asks is asked under its proposal, and what is done is kept.
LEMMA ReplayedRows ==
  ASSUME TypeOK, NEW side, NEW pairs, NEW rows \in Replayed(side, pairs),
         Bucket.id \in Ids
  PROVE  /\ DOMAIN rows = TrialKeys
         /\ \A k \in TrialKeys :
              /\ trials[k].done => rows[k] = trials[k]
              /\ ~trials[k].done /\ rows[k].done =>
                   k[2] = Bucket.id /\ rows[k].under = Proposal
              /\ rows[k] = trials[k]
                   \/ rows[k] = [done |-> TRUE, under |-> Proposal, regresses |-> Regresses(k[3])]
<1> DEFINE missing == {p \in pairs : ~trials[<<side, Bucket.id, p>>].done}
           answer(p) == [done |-> TRUE, under |-> Proposal, regresses |-> Regresses(p)]
           hit(k, answered) == k[1] = side /\ k[2] = Bucket.id /\ k[3] \in answered
<1>1. PICK answered \in SUBSET missing :
        rows = [k \in TrialKeys |-> IF hit(k, answered) THEN answer(k[3]) ELSE trials[k]]
  BY DEF Replayed
<1>2. ASSUME NEW k \in TrialKeys, hit(k, answered) PROVE ~trials[k].done
  <2>1. k = <<side, Bucket.id, k[3]>> /\ k[3] \in missing
    BY <1>2 DEF TrialKeys
  <2>2. QED
    BY <2>1
<1>3. ASSUME NEW k \in TrialKeys, ~hit(k, answered) PROVE rows[k] = trials[k]
  BY <1>1, <1>3
<1>4. ASSUME NEW k \in TrialKeys, hit(k, answered)
      PROVE  k[2] = Bucket.id /\ rows[k] = answer(k[3])
  BY <1>1, <1>4
<1> HIDE DEF hit
<1>5. DOMAIN rows = TrialKeys
  BY <1>1
<1>6. QED
  BY <1>2, <1>3, <1>4, <1>5

-----------------------------------------------------------------------------
(* The invariant. *)

LEMMA InitIInv == Init => IInv
<1> SUFFICES ASSUME Init PROVE IInv
  OBVIOUS
<1> USE DEF Init
<1>1. TypeOK
  <2>1. job.at \in 1..(Len(job.buckets) + 1)
    BY DEF Idle
  <2>2. invocations \in 0..MaxInvocations
    BY RepairAssumption
  <2>3. \A c \in clusters : c.id \in Ids /\ c.members \in SUBSET Pairs
    OBVIOUS
  <2>4. {c.id : c \in clusters} = clusters
    OBVIOUS
  <2>5. DOMAIN calls = CallKeys /\ DOMAIN trials = TrialKeys
    OBVIOUS
  <2>6. \A k \in CallKeys :
          calls[k] \in [done : BOOLEAN, asked : SUBSET Pairs,
                       text : Replacements \cup {Name, Malformed, NoText}]
    BY DEF NoCall
  <2>7. \A k \in TrialKeys :
          trials[k] \in [done : BOOLEAN, under : Replacements \cup {Original, NoText},
                         regresses : BOOLEAN]
    BY DEF NoTrial
  <2>8. verdict.members \cap verdict.control = {}
    BY DEF NoVerdict
  <2>9. job.pc = "idle" /\ job.attempt = 0
    BY DEF Idle
  <2>10. regressions \in Judgments /\ rejudged \in BOOLEAN /\ clusters = {}
    OBVIOUS
  <2> HIDE DEF Init
  <2>11. QED
    BY <2>1, <2>2, <2>3, <2>4, <2>5, <2>6, <2>7, <2>8, <2>9, <2>10 DEF TypeOK
<1>2. JobInv
  BY DEF JobInv, Idle, Unknown, Finding, Texts
<1>3. AboutInv
  BY DEF AboutInv, NamesInv, Idle, Unknown, NoCall
<1>4. FoundInv /\ TrialInv
  <2>1. \A id \in Ids, n \in {0, 1} : ~Attempt(id, n).done
    BY DEF Attempt, CallKeys, Phase, NoCall
  <2>2. QED
    BY <2>1 DEF FoundInv, TrialInv, Idle, NoTrial
<1>5. VerdictInv
  BY DEF VerdictInv, AcceptedMeansFixed, NoVerdict, Texts
<1>6. QED
  BY <1>1, <1>2, <1>3, <1>4, <1>5 DEF IInv

\* The process turns to a cluster of the regressions that it has found, and an
\* attempt is the second only after a first one was malformed.
LEMMA JobStep ==
  ASSUME TypeOK, JobInv, [Next]_vars
  PROVE  JobInv'
<1>0. /\ job \in [pc : Phase \cup {"idle", "cluster", "control"},
                  buckets : {<<>>} \cup {Grouping[R] : R \in Judgments},
                  at : Nat, attempt : {0, 1}, found : [Ids -> Finding]]
      /\ job.pc # "idle" => job.buckets = Grouping[regressions]
  BY DEF JobInv
<1>i. ASSUME job' = Idle PROVE JobInv'
  BY <1>i DEF JobInv, Idle, Unknown, Finding, Texts
<1>1. CASE Rejudge
  BY <1>1 DEF JobInv, Rejudge, AtEnd, Bucket, Consults, Phase
<1>2. CASE Begin
  <2>1. job' = [pc |-> "cluster_name", buckets |-> Grouping[regressions], at |-> 1,
                attempt |-> 0, found |-> [id \in Ids |-> Unknown]]
    BY <1>2 DEF Begin, Idle
  <2>2. regressions' = regressions /\ regressions \in Judgments
    BY <1>2 DEF Begin, TypeOK
  <2>3. [id \in Ids |-> Unknown] \in [Ids -> Finding]
    BY DEF Unknown, Finding, Texts
  <2>4. QED
    BY <2>1, <2>2, <2>3 DEF JobInv, Phase
<1>3. CASE NamedByReason
  <2>1. job.attempt = 0
    BY <1>3, <1>0 DEF NamedByReason, JobInv
  <2>2. job' = [job EXCEPT !.at = job.at + 1] /\ job.pc \in Phase /\ regressions' = regressions
    BY <1>3 DEF NamedByReason
  <2>3. QED
    BY <1>0, <2>1, <2>2 DEF JobInv, Phase
<1>4. CASE Ask
  <2>1. job' = job /\ regressions' = regressions
    BY <1>4 DEF Ask
  <2>2. (job.attempt = 1) => Bucket.id \in Ids
    BY Here DEF JobInv, Consults, Phase
  <2>3. (job.attempt = 1) =>
          calls'[<<job.pc, Bucket.id, 0>>] = calls[<<job.pc, Bucket.id, 0>>]
    BY <1>0, <2>2, RowsKept DEF CallKeys, JobInv, Consults
  <2>4. QED
    BY <2>1, <2>3 DEF JobInv, AtEnd, Bucket, Consults
<1>5. CASE Read
  <2>1. /\ job.pc \in Phase /\ ~AtEnd /\ Consults
        /\ calls[CallKey(Bucket.id)].done
        /\ regressions' = regressions /\ calls' = calls
    BY <1>5 DEF Read, Consults
  <2>2. Bucket.id \in Ids
    BY <2>1, Here DEF Phase
  <2>3. CallKey(Bucket.id) \in CallKeys
    BY <1>0, <2>1, <2>2 DEF CallKey, CallKeys
  <2>4. calls[CallKey(Bucket.id)].text \in Texts
    BY <2>3 DEF TypeOK, Texts
  <2>5. calls[CallKey(Bucket.id)].asked \in SUBSET Pairs
    BY <2>3 DEF TypeOK
  <2>6. ASSUME NEW text \in Texts, NEW about \in SUBSET Pairs, job' = Learned(text, about)
        PROVE  JobInv'
    <3>1. [job.found EXCEPT ![Bucket.id] = [text |-> text, about |-> about]] \in [Ids -> Finding]
      BY <1>0, <2>2 DEF Finding
    <3>2. job' = [pc |-> job.pc, buckets |-> job.buckets, at |-> job.at + 1, attempt |-> 0,
                  found |-> [job.found EXCEPT ![Bucket.id] = [text |-> text, about |-> about]]]
      BY <2>6, <1>0 DEF Learned
    <3>3. QED
      BY <3>1, <3>2, <1>0, <2>1 DEF JobInv, Phase
  <2>7. CASE WellFormed(calls[CallKey(Bucket.id)].text)
    BY <1>5, <2>4, <2>5, <2>6, <2>7 DEF Read
  <2>8. CASE ~WellFormed(calls[CallKey(Bucket.id)].text) /\ job.attempt = 0
    <3>1. job' = [job EXCEPT !.attempt = 1]
      BY <1>5, <2>8 DEF Read
    <3>2. Consults' /\ Bucket' = Bucket
      BY <2>1, <3>1, <1>0 DEF Consults, AtEnd, Bucket
    <3>3. CallKey(Bucket.id) = <<job.pc, Bucket.id, 0>>
      BY <2>8 DEF CallKey
    <3>4. QED
      BY <3>1, <3>2, <3>3, <1>0, <2>1, <2>8 DEF JobInv, WellFormed, Phase
  <2>9. CASE ~WellFormed(calls[CallKey(Bucket.id)].text) /\ job.attempt # 0
    BY <1>5, <2>6, <2>9 DEF Read, Texts
  <2>10. QED
    BY <2>7, <2>8, <2>9
<1>6. CASE WriteClusters
  <2>1. CASE job' = [Idle EXCEPT !.pc = "patch_proposal", !.buckets = job.buckets]
    <3>1. job' = [pc |-> "patch_proposal", buckets |-> job.buckets, at |-> 1,
                  attempt |-> 0, found |-> [id \in Ids |-> Unknown]]
      BY <2>1 DEF Idle
    <3>2. [id \in Ids |-> Unknown] \in [Ids -> Finding]
      BY DEF Unknown, Finding, Texts
    <3>3. job.buckets = Grouping[regressions] /\ regressions' = regressions
      BY <1>0, <1>6 DEF WriteClusters
    <3>4. QED
      BY <3>1, <3>2, <3>3, <1>0 DEF JobInv, Phase
  <2>2. QED
    BY <1>6, <1>i, <2>1 DEF WriteClusters
<1>7. CASE Proposed
  <2>1. ASSUME NEW i \in DOMAIN job.buckets, job' = [job EXCEPT !.pc = "cluster", !.at = i]
        PROVE  JobInv'
    <3>1. regressions' = regressions /\ job.pc = "patch_proposal" /\ AtEnd
      BY <1>7 DEF Proposed
    <3>2. i \in 1..Len(job.buckets) /\ Len(job.buckets) \in Nat
      BY <3>1, Here
    <3>3. job.attempt = 0
      BY <3>1, <1>0 DEF JobInv, Consults
    <3>4. job' = [pc |-> "cluster", buckets |-> job.buckets, at |-> i, attempt |-> 0,
                  found |-> job.found]
      BY <2>1, <3>3, <1>0
    <3>5. QED
      BY <3>1, <3>2, <3>4, <1>0 DEF JobInv, AtEnd
  <2>2. QED
    BY <1>7, <1>i, <2>1 DEF Proposed
<1>8. CASE TryCluster
  <2>1. CASE job' = [job EXCEPT !.pc = "control"]
    <3>1. regressions' = regressions /\ job.pc = "cluster"
      BY <1>8 DEF TryCluster
    <3>2. ~AtEnd /\ job.attempt = 0
      BY <3>1, <1>0 DEF JobInv, Consults, Phase
    <3>3. QED
      BY <2>1, <3>1, <3>2, <1>0 DEF JobInv, AtEnd
  <2>2. QED
    BY <1>8, <1>i, <2>1 DEF TryCluster
<1>9. CASE TryControl
  BY <1>9, <1>i DEF TryControl
<1>10. CASE Stop
  BY <1>10, <1>i DEF Stop
<1>11. CASE UNCHANGED vars
  BY <1>11 DEF JobInv, vars, AtEnd, Bucket, Consults
<1>12. QED
  BY <1>1, <1>2, <1>3, <1>4, <1>5, <1>6, <1>7, <1>8, <1>9, <1>10, <1>11 DEF Next

\* What a validation tries is the proposal that the rows of the cluster id hold.
LEMMA ProposalIsFinal ==
  ASSUME TypeOK, JobInv, FoundInv, job.pc \in {"cluster", "control"}
  PROVE  /\ ~AtEnd /\ Bucket.id \in Ids /\ Bucket.members \subseteq Pairs
         /\ Bucket.members \subseteq regressions
         /\ Over(Bucket.id) /\ Proposal = Final(Bucket.id)
         /\ Proposal \in Replacements \cup {Original}
<1>1. ~AtEnd
  BY DEF JobInv
<1>2. /\ job.at \in DOMAIN job.buckets /\ Bucket.id \in Ids
      /\ Bucket.members \subseteq Pairs /\ Bucket.members \subseteq regressions
  BY <1>1, Here
<1>3. FoundFinal(Bucket.id)
  BY <1>2 DEF FoundInv, Bucket
<1>4. QED
  BY <1>1, <1>2, <1>3, FinalType DEF FoundFinal, Proposal

\* The rows of a step of validate_patch.
LEMMA TrialStepRows ==
  ASSUME TypeOK, JobInv, FoundInv, [Next]_vars
  PROVE  /\ DOMAIN trials' = TrialKeys
         /\ \A k \in TrialKeys :
              /\ trials[k].done => trials'[k] = trials[k]
              /\ ~trials[k].done /\ trials'[k].done =>
                   /\ job.pc \in {"cluster", "control"}
                   /\ k[2] = Bucket.id /\ trials'[k].under = Proposal
              /\ trials'[k] \in [done : BOOLEAN, under : Replacements \cup {Original, NoText},
                                 regresses : BOOLEAN]
<1>0. /\ DOMAIN trials = TrialKeys
      /\ \A k \in TrialKeys :
           trials[k] \in [done : BOOLEAN, under : Replacements \cup {Original, NoText},
                          regresses : BOOLEAN]
  BY DEF TypeOK
<1>1. ASSUME NEW side, NEW pairs, trials' \in Replayed(side, pairs),
             job.pc \in {"cluster", "control"}
      PROVE  /\ DOMAIN trials' = TrialKeys
             /\ \A k \in TrialKeys :
                  /\ trials[k].done => trials'[k] = trials[k]
                  /\ ~trials[k].done /\ trials'[k].done =>
                       k[2] = Bucket.id /\ trials'[k].under = Proposal
                  /\ trials'[k] = trials[k]
                       \/ trials'[k] = [done |-> TRUE, under |-> Proposal,
                                        regresses |-> Regresses(k[3])]
  <2>1. Bucket.id \in Ids
    BY <1>1, ProposalIsFinal
  <2>2. PICK rows \in Replayed(side, pairs) : rows = trials'
    BY <1>1
  <2>3. /\ DOMAIN rows = TrialKeys
        /\ \A k \in TrialKeys :
             /\ trials[k].done => rows[k] = trials[k]
             /\ ~trials[k].done /\ rows[k].done =>
                  k[2] = Bucket.id /\ rows[k].under = Proposal
             /\ rows[k] = trials[k]
                  \/ rows[k] = [done |-> TRUE, under |-> Proposal, regresses |-> Regresses(k[3])]
    BY <2>1, <2>2, ReplayedRows
  <2>4. QED
    BY <2>2, <2>3
<1>2. ASSUME NEW side, NEW pairs, trials' \in Replayed(side, pairs),
             job.pc \in {"cluster", "control"}, NEW k \in TrialKeys
      PROVE  trials'[k] \in [done : BOOLEAN, under : Replacements \cup {Original, NoText},
                             regresses : BOOLEAN]
  <2>1. Proposal \in Replacements \cup {Original}
    BY <1>2, ProposalIsFinal
  <2>2. Regresses(k[3]) \in BOOLEAN
    BY DEF Regresses
  <2>3. [done |-> TRUE, under |-> Proposal, regresses |-> Regresses(k[3])]
          \in [done : BOOLEAN, under : Replacements \cup {Original, NoText},
               regresses : BOOLEAN]
    BY <2>1, <2>2
  <2>4. trials'[k] = trials[k] \/ trials'[k] = [done |-> TRUE, under |-> Proposal,
                                                regresses |-> Regresses(k[3])]
    BY <1>1, <1>2
  <2>5. QED
    BY <2>3, <2>4, <1>0
<1>3. CASE TryCluster
  BY <1>1, <1>2, <1>3 DEF TryCluster
<1>4. CASE TryControl
  BY <1>1, <1>2, <1>4 DEF TryControl
<1>5. ASSUME ~TryCluster, ~TryControl PROVE trials' = trials
  BY <1>5 DEF Next, vars, Rejudge, Begin, NamedByReason, Ask, Read, WriteClusters, Proposed,
     Stop
<1>6. QED
  BY <1>0, <1>3, <1>4, <1>5

\* A cluster id stands for one cluster of clusters.json.
LEMMA WrittenIds ==
  ASSUME TypeOK, JobInv, WriteClusters
  PROVE  /\ \A c \in clusters' : c.id \in Ids /\ c.members \in SUBSET Pairs
         /\ Cardinality({c.id : c \in clusters'}) = Cardinality(clusters')
<1> DEFINE row(b) == [id |-> b.id, members |-> b.members, about |-> job.found[b.id].about]
           D == DOMAIN job.buckets
<1>1. /\ job.buckets = Grouping[regressions] /\ regressions \in Judgments
      /\ Len(job.buckets) \in Nat /\ D = 1..Len(job.buckets)
  BY Here DEF WriteClusters
<1>2. clusters' = {row(b) : b \in ToSet(job.buckets)}
  BY DEF WriteClusters
<1>3. /\ \A i \in D : job.buckets[i] \in [id : Ids, members : SUBSET Pairs]
      /\ \A i, j \in D : job.buckets[i].id = job.buckets[j].id => i = j
  BY <1>1, Buckets
<1>4. \A c \in clusters' : \E i \in D : c = row(job.buckets[i])
  BY <1>2 DEF ToSet
<1>5. \A i \in D : row(job.buckets[i]) \in clusters'
  BY <1>2 DEF ToSet
<1>6. \A c \in clusters' : c.id \in Ids /\ c.members \in SUBSET Pairs
  BY <1>3, <1>4
<1>7. \A c, d \in clusters' : c.id = d.id => c = d
  BY <1>3, <1>4
<1> DEFINE f == [i \in D |-> row(job.buckets[i])]
           ids == {c.id : c \in clusters'}
           g == [c \in clusters' |-> c.id]
<1>8. IsFiniteSet(clusters')
  <2>1. IsFiniteSet(D)
    <3>1. \A n \in Nat : IsFiniteSet(1..n)
      BY FS_Interval
    <3>2. QED
      BY <1>1, <3>1
  <2>2. f \in Surjection(D, clusters')
    <3>1. f \in [D -> clusters']
      BY <1>5
    <3>2. \A c \in clusters' : \E i \in D : f[i] = c
      BY <1>4
    <3>3. QED
      BY <3>1, <3>2, Fun_IsSurj
  <2>3. QED
    BY <2>1, <2>2, FS_Surjection
<1>9. g \in Bijection(clusters', ids)
  <2>1. g \in [clusters' -> ids] /\ \A c, d \in clusters' : g[c] = g[d] => c = d
    BY <1>7
  <2>2. \A id \in ids : \E c \in clusters' : g[c] = id
    OBVIOUS
  <2>3. QED
    BY <2>1, <2>2, Fun_IsBij
<1>10. Cardinality(ids) = Cardinality(clusters')
  BY <1>8, <1>9, FS_Bijection DEF ExistsBijection
<1>11. QED
  BY <1>6, <1>10

\* A row of the namer or of the patcher that a step leaves.
LEMMA CallStepRows ==
  ASSUME TypeOK, JobInv, [Next]_vars
  PROVE  /\ DOMAIN calls' = CallKeys
         /\ \A k \in CallKeys :
              \/ calls'[k] = calls[k]
              \/ /\ Consults /\ k = CallKey(Bucket.id)
                 /\ Bucket.id \in Ids /\ Bucket.members \subseteq Pairs
                 /\ \E text \in IF job.pc = "cluster_name" THEN NamerAnswers
                                ELSE PatcherAnswers : calls'[k] = Row(text)
<1>0. DOMAIN calls = CallKeys
  BY DEF TypeOK
<1>1. CASE Ask
  <2>1. Consults /\ Bucket.id \in Ids /\ Bucket.members \subseteq Pairs
    BY <1>1, Here DEF Ask, Consults, Phase
  <2>2. PICK text \in IF job.pc = "cluster_name" THEN NamerAnswers ELSE PatcherAnswers :
          calls' = [calls EXCEPT ![CallKey(Bucket.id)] = Row(text)]
    BY <1>1 DEF Ask
  <2>3. QED
    BY <1>0, <2>1, <2>2
<1>2. ASSUME ~Ask PROVE calls' = calls
  BY <1>2 DEF Next, vars, Rejudge, Begin, NamedByReason, Read, WriteClusters, Proposed,
     TryCluster, TryControl, Stop
<1>3. QED
  BY <1>0, <1>1, <1>2

\* Where the process starts afresh, it knows of no cluster.
LEMMA Afresh ==
  ASSUME Begin \/ WriteClusters \/ TryControl \/ Stop
  PROVE  job'.at = 1 /\ job'.found = [id \in Ids |-> Unknown]
<1>1. Idle.at = 1 /\ Idle.found = [id \in Ids |-> Unknown]
  BY DEF Idle
<1>2. CASE Begin
  BY <1>2 DEF Begin, Idle
<1>3. CASE WriteClusters
  <2>1. CASE job' = [Idle EXCEPT !.pc = "patch_proposal", !.buckets = job.buckets]
    BY <2>1 DEF Idle
  <2>2. QED
    BY <1>1, <1>3, <2>1 DEF WriteClusters
<1>4. CASE TryControl \/ Stop
  BY <1>1, <1>4 DEF TryControl, Stop
<1>5. QED
  BY <1>2, <1>3, <1>4

\* Type correctness: among others, no pair of the control sample is a member of
\* the cluster, and the process never reads past the clusters it has found.
LEMMA TypeStep ==
  ASSUME TypeOK, JobInv, FoundInv, [Next]_vars
  PROVE  TypeOK'
<1>1. (regressions \in Judgments /\ rejudged \in BOOLEAN /\ invocations \in 0..MaxInvocations)'
  <2>1. CASE Rejudge
    BY <2>1 DEF TypeOK, Rejudge
  <2>2. CASE Begin
    BY <2>2, RepairAssumption DEF TypeOK, Begin
  <2>3. ASSUME ~Rejudge, ~Begin
        PROVE  /\ regressions' = regressions /\ rejudged' = rejudged
               /\ invocations' = invocations
    BY <2>3 DEF Next, vars, NamedByReason, Ask, Read, WriteClusters, Proposed, TryCluster,
       TryControl, Stop
  <2>4. QED
    BY <2>1, <2>2, <2>3 DEF TypeOK
<1>2. /\ DOMAIN calls' = CallKeys
      /\ \A k \in CallKeys :
           calls'[k] \in [done : BOOLEAN, asked : SUBSET Pairs,
                          text : Replacements \cup {Name, Malformed, NoText}]
  <2>1. \A k \in CallKeys :
          calls[k] \in [done : BOOLEAN, asked : SUBSET Pairs,
                        text : Replacements \cup {Name, Malformed, NoText}]
    BY DEF TypeOK
  <2>2. ASSUME Bucket.members \subseteq Pairs,
               NEW text \in NamerAnswers \cup PatcherAnswers
        PROVE  Row(text) \in [done : BOOLEAN, asked : SUBSET Pairs,
                             text : Replacements \cup {Name, Malformed, NoText}]
    BY <2>2 DEF Row, Subject, NamerAnswers, PatcherAnswers
  <2>3. QED
    BY <2>1, <2>2, CallStepRows
<1>3. /\ DOMAIN trials' = TrialKeys
      /\ \A k \in TrialKeys :
           trials'[k] \in [done : BOOLEAN, under : Replacements \cup {Original, NoText},
                           regresses : BOOLEAN]
  BY TrialStepRows
<1>4. /\ \A c \in clusters' : c.id \in Ids /\ c.members \in SUBSET Pairs
      /\ Cardinality({c.id : c \in clusters'}) = Cardinality(clusters')
  <2>1. CASE WriteClusters
    BY <2>1, WrittenIds
  <2>2. ASSUME ~WriteClusters PROVE clusters' = clusters
    BY <2>2 DEF Next, vars, Rejudge, Begin, NamedByReason, Ask, Read, Proposed,
       TryCluster, TryControl, Stop
  <2>3. QED
    BY <2>1, <2>2 DEF TypeOK
<1>5. verdict'.members \cap verdict'.control = {}
  <2>1. CASE TryControl
    <3>1. Bucket.members \subseteq regressions /\ Bucket.members \subseteq Pairs
      BY <2>1, ProposalIsFinal DEF TryControl
    <3>2. Control \subseteq SampledIn[regressions] \ regressions
      BY <3>1, ControlSample DEF TypeOK
    <3>3. \/ verdict' = verdict
          \/ verdict'.members = Bucket.members /\ verdict'.control = Control
      BY <2>1 DEF TryControl
    <3>4. QED
      BY <3>1, <3>2, <3>3 DEF TypeOK
  <2>2. ASSUME ~TryControl PROVE verdict' = verdict
    BY <2>2 DEF Next, vars, Rejudge, Begin, NamedByReason, Ask, Read, WriteClusters,
       Proposed, TryCluster, Stop
  <2>3. QED
    BY <2>1, <2>2 DEF TypeOK
<1>6. (job.pc \in Phase \cup {"idle", "cluster", "control"} /\ job.attempt \in {0, 1})'
  BY JobStep DEF JobInv
<1>7. (job.at \in 1..(Len(job.buckets) + 1))'
  <2>0. /\ job \in [pc : Phase \cup {"idle", "cluster", "control"},
                    buckets : {<<>>} \cup {Grouping[R] : R \in Judgments},
                    at : Nat, attempt : {0, 1}, found : [Ids -> Finding]]
        /\ job.at \in 1..(Len(job.buckets) + 1)
    BY DEF JobInv, TypeOK
  <2>1. \A R \in Judgments : Len(Grouping[R]) \in Nat
    BY Buckets
  <2>2. Len(job.buckets) \in Nat
    BY <2>0, <2>1
  <2>3. CASE job'.at = 1
    <3>1. Len(job'.buckets) \in Nat
      BY <2>1, JobStep DEF JobInv
    <3>2. QED
      BY <2>3, <3>1
  <2>4. CASE NamedByReason \/ Read
    <3>1. ~AtEnd
      BY <2>4 DEF NamedByReason, Read, Consults
    <3>2. job'.buckets = job.buckets /\ job'.at \in {job.at, job.at + 1}
      BY <2>0, <2>4 DEF NamedByReason, Read, Learned
    <3>3. QED
      BY <2>0, <2>2, <3>1, <3>2 DEF AtEnd
  <2>5. CASE Proposed
    <3>1. DOMAIN job.buckets = 1..Len(job.buckets)
      BY <2>5, Here DEF Proposed
    <3>2. CASE job' = Idle
      BY <2>3, <3>2 DEF Idle
    <3>3. ASSUME NEW i \in DOMAIN job.buckets, job' = [job EXCEPT !.pc = "cluster", !.at = i]
          PROVE  job'.at \in 1..(Len(job'.buckets) + 1)
      BY <2>0, <2>2, <3>1, <3>3
    <3>4. QED
      BY <2>5, <3>2, <3>3 DEF Proposed
  <2>6. CASE TryCluster
    BY <2>0, <2>3, <2>6 DEF TryCluster, Idle
  <2>7. CASE Begin \/ WriteClusters \/ TryControl \/ Stop
    BY <2>3, <2>7, Afresh
  <2>8. CASE Rejudge \/ Ask \/ UNCHANGED vars
    BY <2>0, <2>8 DEF Rejudge, Ask, vars
  <2>9. QED
    BY <2>4, <2>5, <2>6, <2>7, <2>8 DEF Next
<1>8. QED
  BY <1>1, <1>2, <1>3, <1>4, <1>5, <1>6, <1>7 DEF TypeOK

\* Whom a cached name or proposal was asked about, and what clusters.json says
\* of it.
LEMMA AboutStep ==
  ASSUME TypeOK, JobInv, AboutInv, [Next]_vars
  PROVE  AboutInv'
<1>1. \A id \in Ids : AboutId(id) \subseteq AboutId(id)'
  <2>1. CASE Rejudge
    BY <2>1 DEF Rejudge, AboutId, TypeOK
  <2>2. ASSUME ~Rejudge PROVE regressions' = regressions /\ rejudged' = rejudged
    BY <2>2 DEF Next, vars, Begin, NamedByReason, Ask, Read, WriteClusters, Proposed,
       TryCluster, TryControl, Stop
  <2>3. QED
    BY <2>1, <2>2 DEF AboutId
<1>2. ~AtEnd /\ job.pc # "idle" => Bucket.members \in AboutId(Bucket.id)
  BY Here DEF AboutId
<1>3. \A k \in CallKeys : calls'[k].done => calls'[k].asked \in AboutId(k[2])'
  <2>1. ASSUME NEW k \in CallKeys, calls'[k].done PROVE calls'[k].asked \in AboutId(k[2])
    <3>1. CASE calls'[k] = calls[k]
      BY <2>1, <3>1 DEF AboutInv
    <3>2. CASE Consults /\ k = CallKey(Bucket.id) /\ \E text : calls'[k] = Row(text)
      BY <1>2, <3>2 DEF Consults, CallKey, Row, Subject, Phase
    <3>3. QED
      BY <3>1, <3>2, CallStepRows
  <2>2. \A k \in CallKeys : k[2] \in Ids
    BY DEF CallKeys
  <2>3. QED
    BY <1>1, <2>1, <2>2
<1>4. \A id \in Ids : job'.found[id].about \in {{}} \cup AboutId(id)'
  <2>1. \A id \in Ids : job.found[id].about \in {{}} \cup AboutId(id)
    BY DEF AboutInv
  <2>0. job.found \in [Ids -> Finding] /\ job \in [pc : Phase \cup {"idle", "cluster", "control"},
              buckets : {<<>>} \cup {Grouping[R] : R \in Judgments},
              at : Nat, attempt : {0, 1}, found : [Ids -> Finding]]
    BY DEF JobInv
  <2>2. CASE job'.found = job.found
    BY <1>1, <2>1, <2>2
  <2>3. CASE job'.found = [id \in Ids |-> Unknown]
    BY <2>3 DEF Unknown
  <2>4. CASE Read
    <3>1. Consults /\ Bucket.id \in Ids /\ calls[CallKey(Bucket.id)].done
      BY <2>4, Here DEF Read, Consults, Phase
    <3>2. CallKey(Bucket.id) \in CallKeys
      BY <3>1, <2>0 DEF CallKey, CallKeys, Consults
    <3>3. calls[CallKey(Bucket.id)].asked \in AboutId(Bucket.id)
      BY <3>1, <3>2 DEF AboutInv, CallKey
    <3>4. ASSUME NEW text, NEW about, about \in {{}} \cup AboutId(Bucket.id),
                 job' = Learned(text, about)
          PROVE  \A id \in Ids : job'.found[id].about \in {{}} \cup AboutId(id)
      BY <3>4, <2>0, <2>1, <3>1 DEF Learned
    <3>5. \/ job'.found = job.found
          \/ job' = Learned(calls[CallKey(Bucket.id)].text, calls[CallKey(Bucket.id)].asked)
          \/ job' = Learned(Original, {})
      BY <2>4, <2>0 DEF Read
    <3>6. QED
      BY <1>1, <2>2, <3>3, <3>4, <3>5
  <2>5. ~Read => job'.found = job.found \/ job'.found = [id \in Ids |-> Unknown]
    <3>1. Idle.found = [id \in Ids |-> Unknown]
      BY DEF Idle
    <3>2. CASE Begin \/ WriteClusters \/ TryControl \/ Stop
      BY <3>2, Afresh
    <3>3. CASE NamedByReason \/ Proposed \/ TryCluster
      BY <2>0, <3>1, <3>3 DEF NamedByReason, Proposed, TryCluster
    <3>4. CASE Rejudge \/ Ask \/ UNCHANGED vars
      BY <3>4 DEF Rejudge, Ask, vars
    <3>5. QED
      BY <3>2, <3>3, <3>4 DEF Next
  <2>6. QED
    BY <2>2, <2>3, <2>4, <2>5
<1>5. NamesInv'
  <2>1. CASE WriteClusters
    <3>1. /\ job.buckets = Grouping[regressions] /\ regressions \in Judgments
          /\ regressions' = regressions /\ rejudged' = rejudged
      BY <2>1, Here DEF WriteClusters
    <3>2. ASSUME NEW c \in clusters'
          PROVE  c.about \in {{}, c.members} \cup
                   (IF rejudged
                    THEN {b.members : b \in {b \in UNION {ToSet(Grouping[R]) : R \in Judgments}
                                               : b.id = c.id}}
                    ELSE {})
      <4>1. PICK i \in DOMAIN job.buckets :
              c = [id |-> job.buckets[i].id, members |-> job.buckets[i].members,
                   about |-> job.found[job.buckets[i].id].about]
        BY <2>1 DEF WriteClusters, ToSet
      <4>2. c.id \in Ids /\ c.about \in {{}} \cup AboutId(c.id)
        BY <3>1, <4>1, Buckets DEF AboutInv
      <4>3. CASE rejudged
        BY <4>2, <4>3 DEF AboutId
      <4>4. CASE ~rejudged
        <5>1. \A b \in ToSet(Grouping[regressions]) : b.id = c.id => b.members = c.members
          BY <3>1, <4>1, Buckets DEF ToSet
        <5>2. QED
          BY <4>2, <4>4, <5>1 DEF AboutId
      <4>5. QED
        BY <4>3, <4>4
    <3>3. QED
      BY <3>1, <3>2 DEF NamesInv
  <2>2. CASE Rejudge
    BY <2>2 DEF Rejudge, AboutInv, NamesInv, TypeOK
  <2>3. ASSUME ~WriteClusters, ~Rejudge
        PROVE  clusters' = clusters /\ rejudged' = rejudged
    BY <2>3 DEF Next, vars, Begin, NamedByReason, Ask, Read, Proposed, TryCluster,
       TryControl, Stop
  <2>4. QED
    BY <2>1, <2>2, <2>3 DEF AboutInv, NamesInv
<1>6. QED
  BY <1>3, <1>4, <1>5 DEF AboutInv

\* What is read of the patcher is taken for the proposal only when its attempts
\* are over.
LEMMA LearnedIsFinal ==
  ASSUME TypeOK, JobInv, Read, job.pc = "patch_proposal"
  PROVE  \/ job' = [job EXCEPT !.attempt = 1]
         \/ \E text, about :
              job' = Learned(text, about) /\ Over(Bucket.id) /\ text = Final(Bucket.id)
<1> DEFINE call == calls[CallKey(Bucket.id)]
<1>1. Consults /\ call.done /\ job.attempt \in {0, 1}
  BY DEF Read, JobInv
<1>2. call = Attempt(Bucket.id, job.attempt)
  BY DEF CallKey, Attempt
<1>3. job.attempt = 1 => Attempt(Bucket.id, 0).done /\ Attempt(Bucket.id, 0).text = Malformed
  BY DEF JobInv, Attempt
<1>4. CASE WellFormed(call.text)
  <2>1. job' = Learned(call.text, call.asked)
    BY <1>4 DEF Read
  <2>2. Over(Bucket.id) /\ call.text = Final(Bucket.id)
    BY <1>1, <1>2, <1>3, <1>4 DEF Over, Final, WellFormed
  <2>3. QED
    BY <2>1, <2>2
<1>5. CASE ~WellFormed(call.text) /\ job.attempt = 0
  BY <1>5 DEF Read
<1>6. CASE ~WellFormed(call.text) /\ job.attempt = 1
  <2>1. job' = Learned(Original, {})
    BY <1>6 DEF Read
  <2>2. Over(Bucket.id) /\ Original = Final(Bucket.id)
    BY <1>1, <1>2, <1>3, <1>6 DEF Over, Final, WellFormed
  <2>3. QED
    BY <2>1, <2>2
<1>7. QED
  BY <1>1, <1>4, <1>5, <1>6

\* The process tries what the two attempts for the cluster id came to, and none
\* of the two is made again.
LEMMA FoundStep ==
  ASSUME TypeOK, JobInv, FoundInv, [Next]_vars
  PROVE  FoundInv'
<1>0. /\ job \in [pc : Phase \cup {"idle", "cluster", "control"},
                  buckets : {<<>>} \cup {Grouping[R] : R \in Judgments},
                  at : Nat, attempt : {0, 1}, found : [Ids -> Finding]]
      /\ job.pc # "idle" => job.buckets = Grouping[regressions]
  BY DEF JobInv
<1>1. ASSUME NEW id \in Ids, NEW n \in {0, 1}, Attempt(id, n)'.done
      PROVE  Attempt(id, n)'.text \in Replacements \cup {Malformed}
  <2> DEFINE k == <<"patch_proposal", id, n>>
  <2>1. k \in CallKeys /\ Attempt(id, n)' = calls'[k] /\ Attempt(id, n) = calls[k]
    BY DEF CallKeys, Phase, Attempt
  <2>2. CASE calls'[k] = calls[k]
    BY <1>1, <2>1, <2>2 DEF FoundInv
  <2>3. CASE calls'[k] # calls[k]
    <3>1. /\ k = CallKey(Bucket.id)
          /\ \E text \in IF job.pc = "cluster_name" THEN NamerAnswers ELSE PatcherAnswers :
               calls'[k] = Row(text)
      BY <2>1, <2>3, CallStepRows
    <3>2. job.pc = "patch_proposal"
      BY <3>1 DEF CallKey
    <3>3. QED
      BY <2>1, <3>1, <3>2 DEF Row, PatcherAnswers
  <2>4. QED
    BY <2>2, <2>3
<1>2. ASSUME NEW id \in Ids, FoundFinal(id), job'.found[id] = job.found[id]
      PROVE  FoundFinal(id)'
  BY <1>2, FinalStable, RowsKept DEF FoundFinal
<1>3. job.pc # "idle" => \A i \in DOMAIN job.buckets : job.buckets[i].id \in Ids
  BY <1>0, Buckets DEF TypeOK
<1> DEFINE tried(j, id) ==
             \E i \in DOMAIN j.buckets :
               /\ j.buckets[i].id = id
               /\ \/ j.pc = "patch_proposal" /\ i < j.at
                  \/ j.pc \in {"cluster", "control"}
<1>4. \A id \in Ids : tried(job, id) => FoundFinal(id)
  BY DEF FoundInv
<1>5. \A id \in Ids : tried(job', id) => FoundFinal(id)'
  <2>0. ASSUME job'.found = job.found, \A id \in Ids : tried(job', id) => tried(job, id)
        PROVE  \A id \in Ids : tried(job', id) => FoundFinal(id)'
    BY <1>2, <1>4, <2>0
  <2>1. CASE Rejudge \/ Ask \/ UNCHANGED vars
    <3>1. job' = job
      BY <2>1 DEF Rejudge, Ask, vars
    <3>2. QED
      BY <2>0, <3>1
  <2>2. CASE job'.pc \in {"idle", "cluster_name"}
    BY <2>2
  <2>3. CASE Begin \/ TryControl \/ Stop
    <3>1. Idle.pc = "idle"
      BY DEF Idle
    <3>2. Begin => job'.pc = "cluster_name"
      BY DEF Begin, Idle
    <3>3. QED
      BY <2>3, <2>2, <3>1, <3>2 DEF TryControl, Stop
  <2>4. CASE NamedByReason
    <3>1. job.pc = "cluster_name" /\ job' = [job EXCEPT !.at = job.at + 1]
      BY <2>4 DEF NamedByReason, Consults, Phase
    <3>2. QED
      BY <1>0, <2>2, <3>1
  <2>5. CASE Read
    <3>0. job.pc \in Phase /\ ~AtEnd
      BY <2>5 DEF Read, Consults
    <3>1. CASE job.pc = "cluster_name"
      <4>1. job'.pc = job.pc
        BY <2>5, <1>0 DEF Read, Learned
      <4>2. QED
        BY <2>2, <3>1, <4>1
    <3>2. CASE job.pc = "patch_proposal"
      <4>1. CASE job' = [job EXCEPT !.attempt = 1]
        <5>1. job'.pc = job.pc /\ job'.buckets = job.buckets /\ job'.at = job.at
              /\ job'.found = job.found
          BY <4>1, <1>0
        <5>2. QED
          BY <2>0, <5>1
      <4>2. CASE job' # [job EXCEPT !.attempt = 1]
        <5>1. PICK text, about :
                job' = Learned(text, about) /\ Over(Bucket.id) /\ text = Final(Bucket.id)
          BY <2>5, <3>2, <4>2, LearnedIsFinal
        <5>2. /\ regressions \in Judgments /\ job.buckets = Grouping[regressions]
              /\ Bucket.id \in Ids /\ job.at \in DOMAIN job.buckets
              /\ DOMAIN job.buckets = 1..Len(job.buckets) /\ Len(job.buckets) \in Nat
          BY <3>0, <3>2, Here
        <5>3. PICK me \in Ids : me = Bucket.id
          BY <5>2
        <5>4. /\ job'.pc = job.pc /\ job'.buckets = job.buckets /\ job'.at = job.at + 1
              /\ job'.found = [job.found EXCEPT ![me] = [text |-> text, about |-> about]]
          BY <5>1, <5>3, <1>0 DEF Learned
        <5>5. job'.found[me].text = text /\ \A id \in Ids \ {me} : job'.found[id] = job.found[id]
          BY <5>4, <1>0
        <5>6. FoundFinal(me)'
          BY <5>1, <5>3, <5>5, FinalStable, RowsKept DEF FoundFinal
        <5>7. ASSUME NEW id \in Ids \ {me}, tried(job', id) PROVE tried(job, id)
          BY <3>2, <5>2, <5>3, <5>4, <5>7 DEF Bucket
        <5>8. QED
          BY <1>2, <1>4, <5>5, <5>6, <5>7
      <4>3. QED
        BY <4>1, <4>2
    <3>3. QED
      BY <3>0, <3>1, <3>2 DEF Phase
  <2>6. CASE WriteClusters
    <3>1. CASE job' = [Idle EXCEPT !.pc = "patch_proposal", !.buckets = job.buckets]
      <4>1. job'.pc = "patch_proposal" /\ job'.at = 1 /\ job'.buckets = job.buckets
        BY <3>1 DEF Idle
      <4>2. DOMAIN job.buckets = 1..Len(job.buckets) /\ Len(job.buckets) \in Nat
        BY <2>6, Here DEF WriteClusters
      <4>3. \A id \in Ids : ~tried(job', id)
        BY <4>1, <4>2
      <4>4. QED
        BY <4>3
    <3>2. QED
      BY <2>2, <2>6, <3>1 DEF WriteClusters, Idle
  <2>7. CASE Proposed
    <3>1. ASSUME NEW i \in DOMAIN job.buckets, job' = [job EXCEPT !.pc = "cluster", !.at = i]
          PROVE  \A id \in Ids : tried(job', id) => FoundFinal(id)'
      <4>1. job'.pc = "cluster" /\ job'.buckets = job.buckets /\ job'.found = job.found
        BY <3>1, <1>0
      <4>2. /\ job.pc = "patch_proposal" /\ AtEnd
            /\ DOMAIN job.buckets = 1..Len(job.buckets) /\ Len(job.buckets) \in Nat
            /\ job.at \in Nat
        BY <2>7, Here DEF Proposed
      <4>3. \A id \in Ids : tried(job', id) => tried(job, id)
        BY <4>1, <4>2 DEF AtEnd
      <4>4. QED
        BY <2>0, <4>1, <4>3
    <3>2. CASE job' = Idle
      BY <2>2, <3>2 DEF Idle
    <3>3. \/ job' = Idle
          \/ \E i \in DOMAIN job.buckets : job' = [job EXCEPT !.pc = "cluster", !.at = i]
      BY <2>7 DEF Proposed
    <3>4. QED
      BY <3>1, <3>2, <3>3
  <2>8. CASE TryCluster
    <3>1. CASE job' = [job EXCEPT !.pc = "control"]
      <4>1. /\ job'.pc = "control" /\ job'.buckets = job.buckets /\ job'.found = job.found
            /\ job.pc = "cluster"
        BY <2>8, <3>1, <1>0 DEF TryCluster
      <4>2. QED
        BY <2>0, <4>1
    <3>2. QED
      BY <2>2, <2>8, <3>1 DEF TryCluster, Idle
  <2>9. QED
    BY <2>1, <2>3, <2>4, <2>5, <2>6, <2>7, <2>8 DEF Next
<1>6. job'.pc # "idle" => \A i \in DOMAIN job'.buckets : job'.buckets[i].id \in Ids
  BY JobStep, TypeStep, Buckets DEF JobInv, TypeOK
<1>7. QED
  <2>1. ASSUME NEW i \in DOMAIN job'.buckets, tried(job', job'.buckets[i].id),
               job'.pc # "idle"
        PROVE  FoundFinal(job.buckets[i].id)'
    <3>1. PICK id \in Ids : id = job'.buckets[i].id
      BY <1>6, <2>1
    <3>2. FoundFinal(id)'
      BY <1>5, <2>1, <3>1
    <3>3. QED
      BY <3>1, <3>2 DEF FoundFinal, Over, Final, Attempt
  <2>2. QED
    BY <1>1, <2>1 DEF FoundInv

\* No answer of a validation was given under another patch.
LEMMA TrialStep ==
  ASSUME TypeOK, JobInv, FoundInv, TrialInv, [Next]_vars
  PROVE  TrialInv'
<1>1. ASSUME NEW k \in TrialKeys, trials'[k].done
      PROVE  Over(k[2])' /\ trials'[k].under = Final(k[2])'
  <2>1. k[2] \in Ids
    BY DEF TrialKeys
  <2>2. Over(k[2]) /\ trials'[k].under = Final(k[2])
    <3>1. CASE trials[k].done
      BY <3>1, TrialStepRows DEF TrialInv
    <3>2. CASE ~trials[k].done
      BY <1>1, <3>2, TrialStepRows, ProposalIsFinal
    <3>3. QED
      BY <3>1, <3>2
  <2>3. PICK id \in Ids : id = k[2]
    BY <2>1
  <2>4. Over(id)' /\ Final(id)' = Final(id)
    BY <2>2, <2>3, FinalStable, RowsKept
  <2>5. QED
    BY <2>2, <2>3, <2>4 DEF Over, Final, Attempt
<1>2. ASSUME job'.pc = "control"
      PROVE  \A p \in Bucket'.members : trials'[<<"cluster", Bucket'.id, p>>].done
  <2>0. /\ job \in [pc : Phase \cup {"idle", "cluster", "control"},
                    buckets : {<<>>} \cup {Grouping[R] : R \in Judgments},
                    at : Nat, attempt : {0, 1}, found : [Ids -> Finding]]
    BY DEF JobInv
  <2>1. CASE TryCluster
    <3>1. /\ job' = [job EXCEPT !.pc = "control"] /\ Answered("cluster", Bucket.members)
      BY <1>2, <2>1 DEF TryCluster, Idle
    <3>2. Bucket' = Bucket
      BY <2>0, <3>1 DEF Bucket
    <3>3. QED
      BY <3>1, <3>2 DEF Answered
  <2>2. CASE Rejudge \/ Ask \/ UNCHANGED vars
    <3>1. job' = job /\ trials' = trials /\ Bucket' = Bucket
      BY <2>2 DEF Rejudge, Ask, vars, Bucket
    <3>2. QED
      BY <1>2, <3>1 DEF TrialInv
  <2>3. job'.pc # "control" \/ TryCluster \/ Rejudge \/ Ask \/ UNCHANGED vars
    <3>1. Idle.pc = "idle"
      BY DEF Idle
    <3>2. CASE Begin
      BY <3>2 DEF Begin, Idle
    <3>3. CASE NamedByReason \/ Read
      BY <2>0, <3>3 DEF NamedByReason, Read, Learned, Consults, Phase
    <3>4. CASE WriteClusters
      <4>1. CASE job' = [Idle EXCEPT !.pc = "patch_proposal", !.buckets = job.buckets]
        BY <4>1 DEF Idle
      <4>2. QED
        BY <3>1, <3>4, <4>1 DEF WriteClusters
    <3>5. CASE Proposed
      <4>1. \/ job' = Idle
            \/ \E i \in DOMAIN job.buckets : job' = [job EXCEPT !.pc = "cluster", !.at = i]
        BY <3>5 DEF Proposed
      <4>2. QED
        BY <2>0, <3>1, <4>1
    <3>6. CASE TryControl \/ Stop
      BY <3>1, <3>6 DEF TryControl, Stop
    <3>7. QED
      BY <3>2, <3>3, <3>4, <3>5, <3>6 DEF Next
  <2>4. QED
    BY <1>2, <2>1, <2>2, <2>3
<1>3. QED
  BY <1>1, <1>2 DEF TrialInv

\* The report of a validation, and the rows it rests on.
LEMMA VerdictStep ==
  ASSUME TypeOK, JobInv, FoundInv, TrialInv, VerdictInv, [Next]_vars
  PROVE  VerdictInv'
<1> DEFINE row(under, r) == [done |-> TRUE, under |-> under, regresses |-> r]
           T == trials'
<1>0. /\ \A k \in TrialKeys :
           /\ trials[k].done => T[k] = trials[k]
           /\ T[k] \in [done : BOOLEAN, under : Replacements \cup {Original, NoText},
                        regresses : BOOLEAN]
           /\ trials[k] \in [done : BOOLEAN, under : Replacements \cup {Original, NoText},
                             regresses : BOOLEAN]
  BY TrialStepRows DEF TypeOK
<1>1. CASE verdict' = verdict
  <2>1. /\ verdict \in [id : Ids \cup {NoText}, members : SUBSET Pairs, control : SUBSET Pairs,
                        under : Texts, accepted : BOOLEAN]
        /\ verdict.accepted => verdict.id \in Ids
    BY DEF VerdictInv
  <2>2. ASSUME verdict.accepted PROVE AcceptedMeansFixed'
    <3> DEFINE fixed(t) == {p \in verdict.members :
                              t[<<"cluster", verdict.id, p>>] = row(verdict.under, FALSE)}
    <3>1. /\ 5 * Cardinality(fixed(trials)) >= 4 * Cardinality(verdict.members)
          /\ \A p \in verdict.members :
               \E r \in BOOLEAN : trials[<<"cluster", verdict.id, p>>] = row(verdict.under, r)
          /\ \A p \in verdict.control :
               trials[<<"control", verdict.id, p>>] = row(verdict.under, FALSE)
      BY <2>2 DEF VerdictInv, AcceptedMeansFixed
    <3>2. \A p \in verdict.members \cup verdict.control :
            <<"cluster", verdict.id, p>> \in TrialKeys /\ <<"control", verdict.id, p>> \in TrialKeys
      BY <2>1, <2>2 DEF TrialKeys
    <3>3. \A p \in verdict.members :
            T[<<"cluster", verdict.id, p>>] = trials[<<"cluster", verdict.id, p>>]
      <4>1. \A p \in verdict.members : trials[<<"cluster", verdict.id, p>>].done
        <5>1. TAKE p \in verdict.members
        <5>2. PICK r \in BOOLEAN : trials[<<"cluster", verdict.id, p>>] = row(verdict.under, r)
          BY <3>1
        <5>3. QED
          BY <5>2
      <4>2. QED
        BY <1>0, <3>2, <4>1
    <3>4. \A p \in verdict.control :
            T[<<"control", verdict.id, p>>] = trials[<<"control", verdict.id, p>>]
      <4>1. \A p \in verdict.control : trials[<<"control", verdict.id, p>>].done
        BY <3>1
      <4>2. QED
        BY <1>0, <3>2, <4>1
    <3>5. fixed(T) = fixed(trials)
      BY <3>3
    <3>6. /\ 5 * Cardinality(fixed(T)) >= 4 * Cardinality(verdict.members)
          /\ \A p \in verdict.members :
               \E r \in BOOLEAN : T[<<"cluster", verdict.id, p>>] = row(verdict.under, r)
          /\ \A p \in verdict.control :
               T[<<"control", verdict.id, p>>] = row(verdict.under, FALSE)
      BY <3>1, <3>3, <3>4, <3>5
    <3>7. QED
      BY <1>1, <3>6 DEF AcceptedMeansFixed
  <2>3. ASSUME ~verdict.accepted PROVE AcceptedMeansFixed'
    BY <1>1, <2>3 DEF AcceptedMeansFixed
  <2>4. QED
    BY <1>1, <2>1, <2>2, <2>3 DEF VerdictInv
<1>2. CASE TryControl /\ verdict' # verdict
  <2>1. /\ Bucket.id \in Ids /\ Bucket.members \subseteq Pairs
        /\ Over(Bucket.id) /\ Proposal = Final(Bucket.id)
        /\ Proposal \in Replacements \cup {Original}
        /\ Control \subseteq Pairs
    BY <1>2, ProposalIsFinal, ControlSample DEF TryControl, TypeOK
  <2> DEFINE fixed == {p \in Bucket.members : ~trials[<<"cluster", Bucket.id, p>>].regresses}
             broken == {p \in Control : T[<<"control", Bucket.id, p>>].regresses}
             decided == 5 * Cardinality(fixed) >= 4 * Cardinality(Bucket.members) /\ broken = {}
  <2>2. /\ verdict' = [id |-> Bucket.id, members |-> Bucket.members, control |-> Control,
                       under |-> Proposal, accepted |-> decided]
        /\ Answered("control", Control)
    BY <1>2 DEF TryControl
  <2>3. \A p \in Bucket.members :
          /\ <<"cluster", Bucket.id, p>> \in TrialKeys
          /\ trials[<<"cluster", Bucket.id, p>>].done
          /\ trials[<<"cluster", Bucket.id, p>>].under = Proposal
          /\ T[<<"cluster", Bucket.id, p>>] = trials[<<"cluster", Bucket.id, p>>]
    <3>1. \A p \in Bucket.members :
            <<"cluster", Bucket.id, p>> \in TrialKeys /\ <<"cluster", Bucket.id, p>>[2] = Bucket.id
      BY <2>1 DEF TrialKeys
    <3>2. \A p \in Bucket.members : trials[<<"cluster", Bucket.id, p>>].done
      BY <1>2 DEF TryControl, TrialInv
    <3>3. QED
      BY <1>0, <2>1, <3>1, <3>2 DEF TrialInv
  <2>4. \A p \in Control :
          /\ <<"control", Bucket.id, p>> \in TrialKeys
          /\ T[<<"control", Bucket.id, p>>].done
          /\ T[<<"control", Bucket.id, p>>].under = Proposal
    <3>1. \A p \in Control :
            <<"control", Bucket.id, p>> \in TrialKeys /\ <<"control", Bucket.id, p>>[2] = Bucket.id
      BY <2>1 DEF TrialKeys
    <3>2. \A p \in Control : T[<<"control", Bucket.id, p>>].done
      BY <2>2 DEF Answered
    <3>3. QED
      BY <1>0, <2>1, <3>1, <3>2, TrialStepRows DEF TrialInv
  <2>5. fixed = {p \in Bucket.members : T[<<"cluster", Bucket.id, p>>] = row(Proposal, FALSE)}
    <3>1. ASSUME NEW p \in Bucket.members
          PROVE  T[<<"cluster", Bucket.id, p>>] = row(Proposal, FALSE)
                   <=> ~trials[<<"cluster", Bucket.id, p>>].regresses
      <4>1. PICK k \in TrialKeys : k = <<"cluster", Bucket.id, p>>
        BY <2>3
      <4>2. /\ trials[k] \in [done : BOOLEAN, under : Replacements \cup {Original, NoText},
                              regresses : BOOLEAN]
            /\ T[k] = trials[k] /\ trials[k].done = TRUE /\ trials[k].under = Proposal
        BY <1>0, <2>3, <4>1
      <4>3. trials[k] = row(Proposal, trials[k].regresses) /\ trials[k].regresses \in BOOLEAN
        BY <4>2
      <4>4. row(Proposal, FALSE).regresses = FALSE
        OBVIOUS
      <4>5. trials[k].regresses = TRUE => T[k] # row(Proposal, FALSE)
        BY <4>2, <4>4
      <4>6. trials[k].regresses = FALSE => T[k] = row(Proposal, FALSE)
        BY <4>2, <4>3
      <4>7. QED
        BY <4>1, <4>2, <4>3, <4>5, <4>6
    <3>2. QED
      BY <3>1
  <2>6. \A p \in Bucket.members :
          \E r \in BOOLEAN : T[<<"cluster", Bucket.id, p>>] = row(Proposal, r)
    BY <1>0, <2>3
  <2>7. broken = {} => \A p \in Control : T[<<"control", Bucket.id, p>>] = row(Proposal, FALSE)
    BY <1>0, <2>4
  <2>8. decided \in BOOLEAN
    OBVIOUS
  <2>9. ASSUME decided
        PROVE  /\ 5 * Cardinality({p \in Bucket.members :
                                     T[<<"cluster", Bucket.id, p>>] = row(Proposal, FALSE)})
                    >= 4 * Cardinality(Bucket.members)
               /\ \A p \in Bucket.members :
                    \E r \in BOOLEAN : T[<<"cluster", Bucket.id, p>>] = row(Proposal, r)
               /\ \A p \in Control : T[<<"control", Bucket.id, p>>] = row(Proposal, FALSE)
    BY <2>5, <2>6, <2>7, <2>9
  <2> HIDE DEF decided
  <2>10. AcceptedMeansFixed'
    <3>1. /\ verdict'.id = Bucket.id /\ verdict'.members = Bucket.members
          /\ verdict'.control = Control /\ verdict'.under = Proposal
          /\ verdict'.accepted = decided
      BY <2>2
    <3>2. QED
      BY <2>9, <3>1 DEF AcceptedMeansFixed
  <2>11. QED
    BY <2>1, <2>2, <2>8, <2>10 DEF VerdictInv, Texts
<1>3. ASSUME ~TryControl PROVE verdict' = verdict
  BY <1>3 DEF Next, vars, Rejudge, Begin, NamedByReason, Ask, Read, WriteClusters, Proposed,
     TryCluster, Stop
<1>4. QED
  BY <1>1, <1>2, <1>3

-----------------------------------------------------------------------------
(* The theorems. *)

\* The rows are never replaced, a proposal is fixed by them, and what was asked
\* and answered agrees with both.
THEOREM RepairInvariant == Spec => []IInv
<1>1. IInv /\ [Next]_vars => IInv'
  BY TypeStep, JobStep, AboutStep, FoundStep, TrialStep, VerdictStep DEF IInv
<1>2. QED
  BY InitIInv, <1>1, PTL DEF Spec

\* The process reads within the clusters it has found, clusters.json has one row
\* per id, and no pair is in a cluster and in its control sample.
THEOREM TypeCorrect == Spec => []TypeOK
<1>1. IInv => TypeOK
  BY DEF IInv
<1>2. QED
  BY RepairInvariant, <1>1, PTL

\* Until the judgments are made again, a name in clusters.json was asked for the
\* members of its cluster, whatever was interrupted, retried or cached.
THEOREM NamesAreAskedFor == Spec => []NamesFitOnce
<1>1. IInv => NamesFitOnce
  BY DEF IInv, AboutInv, NamesInv, NamesFit, NamesFitOnce
<1>2. QED
  BY <1>1, RepairInvariant, PTL

\* What validate_patch accepts has fixed four fifths of the cluster and broken
\* no control pair under the patch that it accepts, whatever earlier, half
\* finished validation left in the database of the cluster.
THEOREM AcceptanceIsEarned == Spec => []AcceptedMeansFixed
<1>1. IInv => AcceptedMeansFixed
  BY DEF IInv, VerdictInv
<1>2. QED
  BY RepairInvariant, <1>1, PTL

=============================================================================
