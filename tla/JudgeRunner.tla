---------------------------- MODULE JudgeRunner ----------------------------
(***************************************************************************)
(* Pairwise judging (judge/runner.py): for every pair and every judge of   *)
(* the panel, two orderings, one after the other, each with a second       *)
(* attempt if the first answer does not parse.  Answers are banked in the  *)
(* call table under (call id, attempt), so that a run that was aborted,    *)
(* interrupted or killed continues from them.                              *)
(*                                                                         *)
(* The loops are flattened: item n is the n-th (pair, judge, ordering) in  *)
(* the order in which run_pairwise_judging visits them.                    *)
(***************************************************************************)
EXTENDS Ensemble

CONSTANTS
  Pairs,           \* how many pairs were selected for judging
  Judges,          \* how many judges the panel has
  MinJudges,       \* judging.min_judges
  MaxAttempts,     \* JudgeRunConfig.max_attempts, on transient errors
  InterruptAfter,  \* interrupt_after_dispatches; 0 stands for None
  Answers,         \* what a judge may answer
  MaxFaults        \* bound: calls that fail for good, aborts and crashes

ASSUME JudgeAssumption ==
  /\ Pairs \in Nat \ {0}
  /\ Judges \in Nat \ {0}
  /\ MinJudges \in 1..Judges
  /\ MaxAttempts \in Nat \ {0}
  /\ InterruptAfter \in Nat
  /\ Answers \subseteq Judgment \cup {Garbage}
  /\ MaxFaults \in Nat

Items == 1..(2 * Judges * Pairs)
PairOf(n) == ((n - 1) \div (2 * Judges)) + 1
JudgeOf(n) == (((n - 1) \div 2) % Judges) + 1
CandidateA(n) == n % 2 = 1
Calls == Items \X {0, 1}
NoText == [verdict |-> "none", severity |-> "none"]

VARIABLES
  rows,        \* the judge rows of the call table
  text,        \* the response of each done row
  main,        \* what run_pairwise_judging is doing
  item,        \* the item it is at
  attempt,     \* 0, or 1 after an answer that does not parse
  tries,       \* attempts of _complete_with_transient_retry for this call
  left,        \* result of the candidate_a ordering of the current judge
  votes,       \* votes_by_pair
  dispatched,  \* DispatchBudget.dispatched
  judgments,   \* judgments.jsonl
  faults       \* how many faults have happened

Table == INSTANCE CallStore

memVars == <<item, attempt, tries, left, votes, dispatched>>
vars == <<rows, text, main, memVars, judgments, faults>>

Failure == {"parse_failure", "judge_error"}
Vote == Outcome \cup {Abstain}
NoVotes == [p \in 1..Pairs |-> [j \in 1..Judges |-> "pending"]]
Live == {"lookup", "calling", "writing"}

TypeOK ==
  /\ Table!StoreTypeOK
  /\ text \in [Calls -> Answers \cup {NoText}]
  /\ main \in Live \cup {"idle", "returned", "raised"}
  /\ item \in Items
  /\ attempt \in {0, 1}
  /\ tries \in 0..MaxAttempts
  /\ left \in Outcome \cup Failure \cup {"pending"}
  /\ votes \in [1..Pairs -> [1..Judges -> Vote \cup {"pending"}]]
  /\ dispatched \in Nat
  /\ judgments \in [1..Pairs -> [1..Judges -> Vote \cup {"pending"}]]
  /\ faults \in 0..MaxFaults

Init ==
  /\ Table!StoreInit
  /\ text = [c \in Calls |-> NoText]
  /\ main = "idle"
  /\ item = 1
  /\ attempt = 0
  /\ tries = 0
  /\ left = "pending"
  /\ votes = NoVotes
  /\ dispatched = 0
  /\ judgments = NoVotes
  /\ faults = 0

FreshRun ==
  /\ item' = 1
  /\ attempt' = 0
  /\ tries' = 0
  /\ left' = "pending"
  /\ votes' = NoVotes
  /\ dispatched' = 0

\* The command is started, for the first time or to resume.
Begin ==
  /\ main \notin Live
  /\ FreshRun
  /\ main' = "lookup"
  /\ UNCHANGED <<rows, text, judgments, faults>>

-----------------------------------------------------------------------------
(* From the result of a call to the vote of a judge. *)

\* map_position_verdict for the position that the ordering gives the candidate.
Parsed(n, answer) ==
  MapPositionVerdict(answer, IF CandidateA(n) THEN "a_better" ELSE "b_better")

\* _combine_orderings
Combine(l, r) == IF {l, r} \cap Failure # {} THEN Abstain ELSE Reconcile(l, r)

\* The item is over with this result: keep it as left, or vote.
Conclude(result) ==
  /\ attempt' = 0
  /\ tries' = 0
  /\ IF CandidateA(item)
       THEN left' = result /\ UNCHANGED votes
       ELSE /\ left' = "pending"
            /\ votes' = [votes EXCEPT ![PairOf(item)][JudgeOf(item)] = Combine(left, result)]
  /\ IF item + 1 \in Items
       THEN item' = item + 1 /\ main' = "lookup"
       ELSE UNCHANGED item /\ main' = "writing"

\* Mutant: a second answer that does not parse counts as equivalent.
DigestLenient(answer) ==
  IF answer # Garbage THEN Conclude(Parsed(item, answer))
  ELSE IF attempt = 1 THEN Conclude("equivalent")
  ELSE /\ attempt' = 1
       /\ tries' = 0
       /\ main' = "lookup"
       /\ UNCHANGED <<item, left, votes>>

\* Mutant: the second attempt is repeated until an answer parses.
DigestUntilParsed(answer) ==
  IF answer # Garbage THEN Conclude(Parsed(item, answer))
  ELSE /\ attempt' = 1
       /\ tries' = 0
       /\ main' = "lookup"
       /\ UNCHANGED <<item, left, votes>>

\* What the parser makes of an answer: a second attempt follows the first one
\* that does not parse, and nothing follows the second.
Digest(answer) ==
  IF answer # Garbage THEN Conclude(Parsed(item, answer))
  ELSE IF attempt = 1 THEN Conclude("parse_failure")
  ELSE /\ attempt' = 1
       /\ tries' = 0
       /\ main' = "lookup"
       /\ UNCHANGED <<item, left, votes>>

-----------------------------------------------------------------------------
(* _call_with_parse_retry *)

Call == <<item, attempt>>

\* Mutant: the judge is asked whatever the table has.
LookupUncached ==
  /\ main = "lookup"
  /\ main' = "calling"
  /\ tries' = 1
  /\ UNCHANGED <<item, attempt, left, votes>>
  /\ UNCHANGED <<rows, text, dispatched, judgments, faults>>

\* get_done: a banked answer is used; otherwise the judge is asked.
Lookup ==
  /\ main = "lookup"
  /\ IF Table!IsDone(Call)
       THEN Digest(text[Call])
       ELSE /\ main' = "calling"
            /\ tries' = 1
            /\ UNCHANGED <<item, attempt, left, votes>>
  /\ UNCHANGED <<rows, text, dispatched, judgments, faults>>

\* An answer is banked before it is counted, and counted before it is read.
Answer(answer) ==
  /\ main = "calling"
  /\ Table!WriteDone(Call, 1)
  /\ text' = [text EXCEPT ![Call] = answer]
  /\ dispatched' = dispatched + 1
  /\ IF InterruptAfter > 0 /\ dispatched' >= InterruptAfter
       THEN main' = "raised" /\ UNCHANGED <<item, attempt, tries, left, votes>>
       ELSE Digest(answer)
  /\ UNCHANGED <<judgments, faults>>

\* Mutant: one attempt too many.
TryAgainOffByOne ==
  /\ main = "calling"
  /\ tries <= MaxAttempts
  /\ tries' = tries + 1
  /\ UNCHANGED <<rows, text, main, item, attempt, left, votes, dispatched, judgments, faults>>

\* A rate limit, a 5xx or a timeout with attempts left: sleep and try again.
TryAgain ==
  /\ main = "calling"
  /\ tries < MaxAttempts
  /\ tries' = tries + 1
  /\ UNCHANGED <<rows, text, main, item, attempt, left, votes, dispatched, judgments, faults>>

Spend == faults < MaxFaults /\ faults' = faults + 1

\* Mutant: an error is followed by the second attempt.
GiveUpRetries ==
  /\ main = "calling"
  /\ Spend
  /\ IF attempt = 0
       THEN /\ attempt' = 1 /\ tries' = 0 /\ main' = "lookup"
            /\ UNCHANGED <<item, left, votes>>
       ELSE Conclude("judge_error")
  /\ UNCHANGED <<rows, text, dispatched, judgments>>

\* Mutant: the error is recorded under the first attempt.
GiveUpErases ==
  /\ main = "calling"
  /\ Spend
  /\ Conclude("judge_error")
  /\ Table!WriteError(<<item, 0>>)
  /\ UNCHANGED <<text, dispatched, judgments>>

\* Attempts exhausted, or an error that concerns this call: abstain, and leave
\* nothing in the table.
GiveUp ==
  /\ main = "calling"
  /\ Spend
  /\ Conclude("judge_error")
  /\ UNCHANGED <<rows, text, dispatched, judgments>>

\* Billing, quota or authentication: ReplayAbortError.
Abort ==
  /\ main = "calling"
  /\ Spend
  /\ main' = "raised"
  /\ UNCHANGED <<rows, text, memVars, judgments>>

\* After the last item: write_judge_artifacts.
Write ==
  /\ main = "writing"
  /\ main' = "returned"
  /\ judgments' = votes
  /\ UNCHANGED <<rows, text, memVars, faults>>

Crash ==
  /\ main \in Live
  /\ Spend
  /\ FreshRun
  /\ main' = "idle"
  /\ UNCHANGED <<rows, text, judgments>>

Step == Lookup \/ (\E a \in Answers : Answer(a)) \/ TryAgain \/ GiveUp \/ Abort \/ Write

Next == Begin \/ Step \/ Crash

Spec == Init /\ [][Next]_vars

\* The client returns or raises, and the loop goes on.
FairSpec == Spec /\ WF_vars(Step)

-----------------------------------------------------------------------------
(* What judging must guarantee. *)

Item(p, j, isA) == CHOOSE n \in Items : PairOf(n) = p /\ JudgeOf(n) = j /\ CandidateA(n) = isA

\* What the table says of an item: the first answer if it parses, otherwise
\* the second.
Banked(n) ==
  CASE ~Table!IsDone(<<n, 0>>) -> "missing"
    [] Table!IsDone(<<n, 0>>) /\ text[<<n, 0>>] # Garbage -> Parsed(n, text[<<n, 0>>])
    [] OTHER -> IF Table!IsDone(<<n, 1>>) /\ text[<<n, 1>>] # Garbage
                  THEN Parsed(n, text[<<n, 1>>]) ELSE "missing"

Decided(p) == MajorityOutcome(judgments[p], MinJudges)
Judged == judgments # NoVotes

\* Every vote that was written is the reconciliation of two answers in the
\* call table, one per ordering: no resumed, retried or failed call lends its
\* result to another item.
VotesFollowTable ==
  \A p \in 1..Pairs, j \in 1..Judges :
    judgments[p][j] \in Outcome =>
      LET l == Banked(Item(p, j, TRUE))
          r == Banked(Item(p, j, FALSE))
      IN l \in Outcome /\ r \in Outcome /\ judgments[p][j] = Reconcile(l, r)

\* A judge that prefers the same position in both orderings decides nothing.
PositionBiasAbstains ==
  \A p \in 1..Pairs, j \in 1..Judges :
    LET a == text[<<Item(p, j, TRUE), 0>>]
        b == text[<<Item(p, j, FALSE), 0>>]
    IN /\ judgments[p][j] # "pending"
       /\ a \in Judgment /\ b \in Judgment
       /\ a.verdict = b.verdict /\ a.verdict # "equivalent"
       => judgments[p][j] = Abstain

\* A pair is decided by the panel: at least min_judges judges voted, and not
\* one of them on the other side of the harm boundary, so that a judge which
\* sees harm in both orderings cannot be outvoted.
DecidedByPanel ==
  Judged => \A p \in 1..Pairs :
    LET voters == {j \in 1..Judges : judgments[p][j] # Abstain}
    IN Decided(p) # "unresolved" =>
         /\ Cardinality(voters) >= MinJudges
         /\ \A j \in voters : (judgments[p][j] \in Worse) <=> (Decided(p) \in Worse)

\* One retry on a parse failure: the second attempt is asked for only when the
\* first answer is in the table and does not parse.
SecondAttemptJustified ==
  \A n \in Items : Table!IsDone(<<n, 1>>) =>
    Table!IsDone(<<n, 0>>) /\ text[<<n, 0>>] = Garbage

\* Judging again (after an interrupt, or by the standalone command) never
\* changes a vote into another one: at worst a failed call withdraws it.
VotesAreStable ==
  [][\A p \in 1..Pairs, j \in 1..Judges :
       judgments[p][j] \in Outcome => judgments'[p][j] \in {judgments[p][j], Abstain}]_vars

\* The table of the judge phase keeps the promise of the checkpoint.
JudgeTable == INSTANCE Checkpoint WITH Amounts <- {1}
CheckpointKept == JudgeTable!Spec

\* Judging comes to an end, with judgments or with an exception.
JudgingEnds == main \in Live ~> main \notin Live

=============================================================================
