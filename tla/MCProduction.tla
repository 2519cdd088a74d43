---------------------------- MODULE MCProduction ----------------------------
(***************************************************************************)
(* An instance of Production for TLC.                                      *)
(***************************************************************************)
EXTENDS Production

\* The third event repeats the first; the fourth is a near-duplicate of it; the
\* last cannot be written.
SixEvents == <<1, 3, 1, 2, 4, 5>>
SevenEvents == Append(SixEvents, 6)
SecondLikeFirst == {{1, 2}}

\* The sizes that up to three strata may have, and samples beyond their total;
\* nothing in it depends on the state, so the first one is enough.
QuotasMeetReference ==
  offered = 0 /\ restarts = 0 =>
    \A sizes \in [1..3 -> 0..4], n \in 1..13 : QuotasMeet(sizes, n)

TwoStrata == [t \in Traces |-> IF t \in {4, 5} THEN 2 ELSE 1]
TwoTemplates == [t \in Traces |-> IF t \in {1, 2, 4} THEN 1 ELSE 2]

NoFloorOrHalf == [r \in Runs |-> IF r = "measured" THEN 50 ELSE 0]

Done == [row |-> "done", model |-> "pinned", beyond |-> FALSE, breaks |-> {}]
SomeAnswers ==
  {Done,
   [Done EXCEPT !.beyond = TRUE, !.breaks = {"json"}],
   [Done EXCEPT !.model = "alias"],
   [Done EXCEPT !.model = ""]}

\* The monitor is followed for the runs over a capture that lost nothing and
\* was not restarted, and one of its samples; the others lead to the same
\* states with other traces.
CompleteCapture ==
  sample # {} =>
    lines = SixEvents /\ offered = Len(Stream) /\ restarts = 0 /\ 4 \in sample

FirstLapses == [t \in Traces |-> IF t = 1 THEN {"json"} ELSE {}]

=============================================================================
