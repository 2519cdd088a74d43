-------------------------- MODULE ProductionProofs --------------------------
(***************************************************************************)
(* What Production's Spec guarantees for any traffic, any capacity of the  *)
(* queue, any restarts of the service, any runs and any answers.           *)
(***************************************************************************)
EXTENDS MCProduction, SamplingProofs

-----------------------------------------------------------------------------
(* The capture wrapper. *)

\* The lines of this process, the event in the thread's hand, and how many
\* events the queue holds before the sentinel.
Written == Len(lines) - service.base
Holding == IF service.held = Nothing THEN 0 ELSE 1
Pending == Len(service.kept) - (Written + Holding)

\* While the thread is at work, the accepted events are the lines, then the
\* event in its hand, then those at the head of the queue, in this order.
InOrder ==
  /\ service.base <= Len(lines)
  /\ Written + Holding <= Len(service.kept)
  /\ Pending <= Len(service.queue)
  /\ \A i \in 1..Written :
       lines[service.base + i] = IF i = 1 /\ service.joint THEN Broken ELSE service.kept[i]
  /\ service.held # Nothing => service.held = service.kept[Written + 1]
  /\ \A i \in 1..Pending : service.queue[i] = service.kept[Written + Holding + i]

\* The thread is at work until it takes the sentinel, which stands behind the
\* accepted events; the tail of an earlier process is joined to the first line.
AtWork ==
  /\ service.thread = "starting" => service.held = Nothing
  /\ service.close \in {"open", "refused"} => Pending = Len(service.queue)
  /\ service.close \notin {"open", "refused"} =>
       Pending < Len(service.queue) /\ service.queue[Pending + 1] = Sentinel
  /\ tail # Nothing <=> service.joint /\ Written = 0

CaptureInv ==
  /\ service.thread \in {"starting", "running", "done"} => InOrder
  /\ service.thread \in {"starting", "running"} => AtWork
  /\ service.thread = "done" =>
       /\ service.close \notin {"open", "refused"}
       /\ Pending = 0 /\ service.held = Nothing

\* The three marks are told apart from each other and from the events.
LEMMA Marks ==
  /\ Nothing \notin Events /\ Sentinel \notin Events /\ Broken \notin Events
  /\ Nothing # Sentinel /\ Nothing # Broken /\ Sentinel # Broken
<1> DEFINE M == {Nothing, Sentinel, Broken} \ Events
<1>1. Cardinality(M) = 3
  BY CaptureAssumption
<1>2. ASSUME NEW a, NEW b, M \subseteq {a, b} PROVE FALSE
  <2>1. IsFiniteSet({a}) /\ Cardinality({a}) = 1
    BY FS_Singleton
  <2>2. IsFiniteSet({a} \cup {b}) /\ Cardinality({a} \cup {b}) <= 2
    BY <2>1, FS_AddElement
  <2>3. M \in SUBSET ({a} \cup {b})
    BY <1>2
  <2> HIDE DEF M
  <2>4. Cardinality(M) <= Cardinality({a} \cup {b})
    BY <2>2, <2>3, FS_Subset
  <2>5. Cardinality({a} \cup {b}) \in Nat
    BY <2>2, FS_CardinalityType
  <2>6. QED
    BY <1>1, <2>2, <2>4, <2>5
<1>3. QED
  BY <1>2

\* Appending to a sequence.
LEMMA Appended ==
  ASSUME NEW S, NEW q \in Seq(S), NEW e \in S
  PROVE  /\ Append(q, e) \in Seq(S) /\ Len(q) \in Nat /\ Len(Append(q, e)) = Len(q) + 1
         /\ \A i \in 1..Len(q) : Append(q, e)[i] = q[i]
         /\ Append(q, e)[Len(q) + 1] = e
OBVIOUS

\* ... and what its tail holds.
LEMMA HeadTaken ==
  ASSUME NEW S, NEW q \in Seq(S), q # <<>>
  PROVE  /\ Tail(q) \in Seq(S) /\ Len(q) \in Nat \ {0} /\ Len(Tail(q)) = Len(q) - 1
         /\ Head(q) = q[1] /\ Head(q) \in S
         /\ \A i \in 1..Len(q) - 1 : Tail(q)[i] = q[i + 1]
OBVIOUS

\* The first process finds no file.
LEMMA FirstProcess == CaptureInit => CaptureTypeOK /\ CaptureInv
<1> SUFFICES ASSUME CaptureInit PROVE CaptureTypeOK /\ CaptureInv
  OBVIOUS
<1>1. service = [alive |-> TRUE, queue |-> <<>>, held |-> Nothing, thread |-> "starting",
                 close |-> "open", kept |-> <<>>, base |-> 0, joint |-> FALSE]
  BY DEF CaptureInit, Started
<1>2. offered = 0 /\ lines = <<>> /\ tail = Nothing /\ restarts = 0
  BY DEF CaptureInit
<1>3. Len(Stream) \in Nat /\ Capacity \in Nat /\ MaxRestarts \in Nat
  BY CaptureAssumption
<1>4. CaptureTypeOK
  BY <1>1, <1>2, <1>3 DEF CaptureTypeOK
<1>5. CaptureInv
  BY <1>1, <1>2 DEF CaptureInv, InOrder, AtWork, Written, Holding, Pending
<1>6. QED
  BY <1>4, <1>5

\* A step of the service or of its thread keeps the types.
LEMMA CaptureTypeStep ==
  ASSUME CaptureTypeOK, CaptureNext
  PROVE  CaptureTypeOK'
<1> DEFINE Threads == {"starting", "running", "done", "dead", "killed"}
           Closes == {"open", "refused", "joining", "joined", "timed out"}
           Type == [alive : BOOLEAN, queue : Seq(Queued), held : Events \cup {Nothing},
                    thread : Threads, close : Closes, kept : Seq(Events), base : Nat,
                    joint : BOOLEAN]
<1>0. /\ offered \in 0..Len(Stream) /\ service \in Type /\ Len(service.queue) <= Capacity
      /\ lines \in Seq(Events \cup {Broken}) /\ tail \in Events \cup {Nothing, Broken}
      /\ restarts \in 0..MaxRestarts
  BY DEF CaptureTypeOK
<1>a. Len(Stream) \in Nat /\ Capacity \in Nat \ {0} /\ MaxRestarts \in Nat
      /\ \A i \in 1..Len(Stream) : Stream[i] \in Events
  BY CaptureAssumption
<1>b. /\ service.queue \in Seq(Queued) /\ service.kept \in Seq(Events)
      /\ service.held \in Events \cup {Nothing} /\ Len(service.queue) \in Nat
      /\ <<>> \in Seq(Queued) /\ <<>> \in Seq(Events) /\ Len(<<>>) = 0
  <2>1. service.queue \in Seq(Queued) /\ service.kept \in Seq(Events)
        /\ service.held \in Events \cup {Nothing}
    BY <1>0
  <2>2. QED
    BY <2>1
<1>c. Len(lines) \in Nat
  <2>1. lines \in Seq(Events \cup {Broken})
    BY <1>0
  <2>2. QED
    BY <2>1
<1>d. /\ offered \in 0..Len(Stream) /\ Len(service.queue) <= Capacity /\ Capacity \in Nat
      /\ Len(Stream) \in Nat
  BY <1>0, <1>a
<1>1. CASE Write
  <2> DEFINE e == Stream[offered + 1]
  <2>1. offered + 1 \in 1..Len(Stream) /\ e \in Events
    <3>1. offered + 1 \in 1..Len(Stream)
      <4>1. offered < Len(Stream)
        BY <1>1 DEF Write
      <4>2. QED
        BY <1>d, <4>1
    <3>2. QED
      BY <1>a, <3>1
  <2>2. UNCHANGED <<lines, tail, restarts>> /\ offered' = offered + 1
    BY <1>1 DEF Write
  <2> HIDE DEF e
  <2>3. Append(service.queue, e) \in Seq(Queued) /\ Append(service.kept, e) \in Seq(Events)
        /\ Len(Append(service.queue, e)) = Len(service.queue) + 1 /\ Len(service.queue) \in Nat
    BY <1>b, <2>1, Appended DEF Queued
  <2>4. service' \in Type /\ Len(service'.queue) <= Capacity
    <3>1. CASE Full
      BY <1>0, <1>1, <3>1 DEF Write
    <3>2. CASE ~Full
      <4>1. Len(service.queue) + 1 <= Capacity
        BY <1>b, <1>a, <3>2 DEF Full
      <4>2. \/ service' = [service EXCEPT !.queue = Append(service.queue, e),
                                          !.kept = Append(service.kept, e)]
            \/ service' = [service EXCEPT !.queue = Append(service.queue, e),
                                          !.kept = service.kept]
        BY <1>1, <3>2 DEF Write, e
      <4>3. QED
        BY <1>0, <2>3, <4>1, <4>2
    <3>3. QED
      BY <3>1, <3>2
  <2>5. QED
    <3>1. offered' \in 0..Len(Stream)
      BY <1>d, <2>1, <2>2
    <3>2. QED
      BY <1>0, <2>2, <2>4, <3>1 DEF CaptureTypeOK
<1>2. CASE Close
  <2>1. service' \in Type /\ Len(service'.queue) <= Capacity
    <3>1. CASE Full
      BY <1>0, <1>2, <3>1 DEF Close
    <3>2. CASE ~Full
      <4>1. Append(service.queue, Sentinel) \in Seq(Queued) /\ Len(service.queue) \in Nat
            /\ Len(Append(service.queue, Sentinel)) = Len(service.queue) + 1
        BY <1>b, Appended DEF Queued
      <4>2. Len(service.queue) + 1 <= Capacity
        BY <1>a, <3>2, <4>1 DEF Full
      <4>3. service' = [service EXCEPT !.queue = Append(service.queue, Sentinel),
                                       !.close = "joining"]
        BY <1>2, <3>2 DEF Close
      <4>4. QED
        BY <1>0, <4>1, <4>2, <4>3
    <3>3. QED
      BY <3>1, <3>2
  <2>2. QED
    BY <1>0, <1>2, <2>1 DEF Close, CaptureTypeOK
<1>3. CASE JoinReturns
  BY <1>0, <1>3 DEF JoinReturns, CaptureTypeOK
<1>4. CASE Open
  BY <1>0, <1>4 DEF Open, CaptureTypeOK
<1>5. CASE Take
  <2>1. /\ Head(service.queue) \in Queued /\ Tail(service.queue) \in Seq(Queued)
        /\ Len(Tail(service.queue)) = Len(service.queue) - 1 /\ Len(service.queue) \in Nat
    BY <1>b, <1>5, HeadTaken DEF Take
  <2>2. service' \in Type /\ Len(service'.queue) <= Capacity
    <3>1. CASE Head(service.queue) = Sentinel
      <4>1. service' = [service EXCEPT !.queue = Tail(service.queue), !.held = service.held,
                                       !.thread = "done"]
        BY <1>5, <3>1 DEF Take
      <4>2. Len(Tail(service.queue)) <= Capacity
        BY <1>d, <2>1
      <4>3. QED
        BY <1>0, <2>1, <4>1, <4>2
    <3>2. CASE Head(service.queue) # Sentinel
      <4>1. service' = [service EXCEPT !.queue = Tail(service.queue),
                                       !.held = Head(service.queue), !.thread = service.thread]
        BY <1>5, <3>2 DEF Take
      <4>2. Head(service.queue) \in Events
        BY <2>1, <3>2 DEF Queued
      <4>3. Len(Tail(service.queue)) <= Capacity
        BY <1>d, <2>1
      <4>4. QED
        BY <1>0, <2>1, <4>1, <4>2, <4>3
    <3>3. QED
      BY <3>1, <3>2
  <2>3. QED
    BY <1>0, <1>5, <2>2 DEF Take, CaptureTypeOK
<1>6. CASE Emit
  <2>1. service.held \in Events /\ Joined(service.held) \in Events \cup {Broken}
    BY <1>6, CaptureAssumption DEF Emit, PutLine, Joined
  <2>2. lines' \in Seq(Events \cup {Broken}) /\ tail' = Nothing
    <3>1. lines' = Append(lines, Joined(service.held)) /\ tail' = Nothing
      BY <1>6 DEF Emit, PutLine
    <3>2. lines \in Seq(Events \cup {Broken})
      BY <1>0
    <3>3. QED
      BY <2>1, <3>1, <3>2, Appended
  <2>3. service' \in Type /\ Len(service'.queue) <= Capacity
    BY <1>0, <1>6 DEF Emit
  <2>4. QED
    BY <1>0, <1>6, <2>2, <2>3 DEF Emit, CaptureTypeOK
<1>7. ASSUME CutShort PROVE tail' \in Events \cup {Nothing, Broken}
  BY <1>0, <1>7, CaptureAssumption DEF CutShort, Joined
<1>8. CASE Die
  <2>1. CASE CutShort /\ UNCHANGED lines
    BY <1>0, <1>7, <1>8, <2>1 DEF Die, CaptureTypeOK
  <2>2. CASE PutLine
    <3>1. Joined(service.held) \in Events \cup {Broken}
      BY <2>2, CaptureAssumption DEF PutLine, Joined
    <3>2. lines' \in Seq(Events \cup {Broken}) /\ tail' = Nothing
      <4>1. lines' = Append(lines, Joined(service.held)) /\ tail' = Nothing
        BY <2>2 DEF PutLine
      <4>2. lines \in Seq(Events \cup {Broken})
        BY <1>0
      <4>3. QED
        BY <3>1, <4>1, <4>2, Appended
    <3>3. service' \in Type /\ Len(service'.queue) <= Capacity
      BY <1>0, <1>8 DEF Die
    <3>4. QED
      BY <1>0, <1>8, <3>2, <3>3 DEF Die, CaptureTypeOK
  <2>3. QED
    BY <1>8, <2>1, <2>2 DEF Die
<1>9. CASE Exit
  <2>1. service' = [alive |-> FALSE, queue |-> <<>>, held |-> Nothing, thread |-> "killed",
                    close |-> "open", kept |-> <<>>, base |-> 0, joint |-> FALSE]
    BY <1>9 DEF Exit, Exited, Started
  <2>2. service' \in Type /\ Len(service'.queue) <= Capacity
    BY <1>a, <2>1
  <2>3. QED
    BY <1>0, <1>7, <1>9, <2>2 DEF Exit, CaptureTypeOK
<1>10. CASE Restart
  <2>1. service' = [alive |-> TRUE, queue |-> <<>>, held |-> Nothing, thread |-> "starting",
                    close |-> "open", kept |-> <<>>, base |-> Len(lines),
                    joint |-> tail # Nothing]
    BY <1>10 DEF Restart, Started
  <2>2. service' \in Type /\ Len(service'.queue) <= Capacity
    <3>1. Len(service'.queue) = 0
      BY <1>b, <2>1
    <3>2. service' \in Type
      BY <1>b, <1>c, <2>1
    <3>3. Len(service'.queue) <= Capacity
      BY <1>d, <3>1
    <3>4. QED
      BY <3>2, <3>3
  <2>3. restarts' \in 0..MaxRestarts
    <3>1. restarts' = restarts + 1 /\ restarts < MaxRestarts /\ restarts \in 0..MaxRestarts
      BY <1>0, <1>10 DEF Restart
    <3>2. QED
      BY <1>a, <3>1
  <2>4. QED
    BY <1>0, <1>10, <2>2, <2>3 DEF Restart, CaptureTypeOK
<1>11. QED
  BY <1>1, <1>2, <1>3, <1>4, <1>5, <1>6, <1>8, <1>9, <1>10 DEF CaptureNext, ThreadStep

\* No step of the service or of its thread loses, skips or swaps an accepted
\* event while the thread is at work.
LEMMA CaptureStep ==
  ASSUME CaptureTypeOK, CaptureInv, CaptureNext
  PROVE  CaptureInv'
<1>0. /\ service.queue \in Seq(Queued) /\ service.kept \in Seq(Events)
      /\ service.held \in Events \cup {Nothing} /\ service.base \in Nat
      /\ lines \in Seq(Events \cup {Broken})
      /\ DOMAIN service = {"alive", "queue", "held", "thread", "close", "kept", "base", "joint"}
      /\ service.joint \in BOOLEAN
      /\ service.thread \in {"starting", "running", "done", "dead", "killed"}
  BY DEF CaptureTypeOK
<1>a. /\ Len(service.queue) \in Nat /\ Len(service.kept) \in Nat /\ Len(lines) \in Nat
      /\ Holding \in Nat /\ Written \in Int /\ service.base \in Nat
  <2>1. Len(service.queue) \in Nat /\ Len(service.kept) \in Nat /\ Len(lines) \in Nat
    BY <1>0
  <2>2. QED
    BY <1>0, <2>1 DEF Holding, Written
<1>b. ASSUME InOrder
      PROVE  /\ Written \in Nat /\ Pending \in 0..Len(service.queue)
             /\ Written + Holding + Pending = Len(service.kept)
  <2>1. /\ service.base <= Len(lines) /\ Written + Holding <= Len(service.kept)
        /\ Pending <= Len(service.queue)
    BY <1>b DEF InOrder
  <2>2. Written \in Nat
    BY <1>a, <2>1 DEF Written
  <2>3. Pending = Len(service.kept) - (Written + Holding)
    BY DEF Pending
  <2>4. PICK k \in Nat, q \in Nat : k = Len(service.kept) /\ q = Len(service.queue)
    BY <1>a
  <2>5. Pending = k - (Written + Holding) /\ Written + Holding <= k /\ Pending <= q
    BY <2>1, <2>3, <2>4
  <2>6. Pending \in 0..q /\ Written + Holding + Pending = k
    BY <1>a, <2>2, <2>5
  <2>7. QED
    BY <2>2, <2>4, <2>6
<1>1. CASE Write
  <2> DEFINE e == Stream[offered + 1]
  <2>1. e \in Events
    <3>1. offered + 1 \in 1..Len(Stream)
      <4>1. offered \in 0..Len(Stream) /\ offered < Len(Stream)
        BY <1>1 DEF Write, CaptureTypeOK
      <4>2. Len(Stream) \in Nat
        BY CaptureAssumption
      <4>3. QED
        BY <4>1, <4>2
    <3>2. QED
      BY <3>1, CaptureAssumption
  <2>2. lines' = lines /\ tail' = tail
    BY <1>1 DEF Write
  <2> HIDE DEF e
  <2>3. CASE Full
    <3>1. service' = service
      BY <1>1, <2>3 DEF Write
    <3>2. QED
      BY <2>2, <3>1 DEF CaptureInv, InOrder, AtWork, Written, Holding, Pending
  <2>4. CASE ~Full
    <3> DEFINE Q == service.queue
               K == service.kept
    <3>1. /\ service'.queue = Append(Q, e)
          /\ service'.kept = IF service.close \in {"open", "refused"} THEN Append(K, e) ELSE K
          /\ service'.held = service.held /\ service'.thread = service.thread
          /\ service'.close = service.close /\ service'.base = service.base
          /\ service'.joint = service.joint
      BY <1>0, <1>1, <2>4 DEF Write, e
    <3>2. /\ Len(Append(Q, e)) = Len(Q) + 1
          /\ \A i \in 1..Len(Q) : Append(Q, e)[i] = Q[i]
          /\ Append(Q, e)[Len(Q) + 1] = e
      BY <1>0, <2>1, Appended DEF Queued
    <3>3. /\ Len(Append(K, e)) = Len(K) + 1
          /\ \A i \in 1..Len(K) : Append(K, e)[i] = K[i]
          /\ Append(K, e)[Len(K) + 1] = e
      BY <1>0, <2>1, Appended
    <3>4. Written' = Written /\ Holding' = Holding
      BY <2>2, <3>1 DEF Written, Holding
    <3>5. CASE service.close \in {"open", "refused"}
      <4>1. Pending' = Pending + 1
        BY <1>a, <3>1, <3>3, <3>4, <3>5 DEF Pending
      <4>2. CASE service.thread \in {"starting", "running"}
        <5>1. InOrder /\ AtWork /\ Pending = Len(Q)
          BY <3>5, <4>2 DEF CaptureInv, AtWork
        <5>2. InOrder'
          <6>1. PICK w \in Nat, h \in Nat, p \in Nat, k \in Nat :
                  /\ w = Written /\ h = Holding /\ p = Pending /\ k = Len(K)
            BY <1>a, <1>b, <5>1
          <6>2. w + h + p = k
            BY <1>b, <5>1, <6>1
          <6>len. p = Len(Q)
            BY <5>1, <6>1
          <6>3. w + h <= k /\ w <= k /\ (h = 1 => w + 1 <= k)
            BY <6>2
          <6>4. \A i \in 1..w :
                  lines[service.base + i] = IF i = 1 /\ service.joint THEN Broken
                                            ELSE Append(K, e)[i]
            <7>1. \A i \in 1..w : i \in 1..k
              BY <6>3
            <7>2. QED
              BY <3>3, <5>1, <6>1, <7>1 DEF InOrder
          <6>5. service.held # Nothing => service.held = Append(K, e)[w + 1]
            <7>1. h = 1 => w + 1 \in 1..k
              BY <6>3
            <7>2. QED
              BY <3>3, <5>1, <6>1, <7>1 DEF InOrder, Holding
          <6>6. ASSUME NEW i \in 1..p + 1 PROVE Append(Q, e)[i] = Append(K, e)[w + h + i]
            <7>1. CASE i = p + 1
              <8>1. w + h + i = k + 1
                BY <6>2, <7>1
              <8>2. QED
                BY <3>2, <3>3, <6>1, <6>len, <7>1, <8>1
            <7>2. CASE i # p + 1
              <8>1. i \in 1..p /\ w + h + i \in 1..k
                BY <6>2, <7>2
              <8>2. Q[i] = K[w + h + i]
                BY <5>1, <6>1, <8>1 DEF InOrder
              <8>3. QED
                BY <3>2, <3>3, <6>1, <6>len, <8>1, <8>2
            <7>3. QED
              BY <7>1, <7>2
          <6>7. w + h <= k + 1 /\ Len(Append(K, e)) = k + 1 /\ p + 1 <= Len(Append(Q, e))
            BY <3>2, <3>3, <6>1, <6>len, <6>3
          <6>8. Written' = w /\ Holding' = h /\ Pending' = p + 1
            BY <3>4, <4>1, <6>1
          <6>9. service.base <= Len(lines)
            BY <5>1 DEF InOrder
          <6>10. QED
            BY <2>2, <3>1, <3>5, <6>4, <6>5, <6>6, <6>7, <6>8, <6>9 DEF InOrder
        <5>3. AtWork'
          BY <1>a, <2>2, <3>1, <3>2, <3>4, <3>5, <4>1, <5>1 DEF AtWork
        <5>4. QED
          BY <3>1, <4>2, <5>2, <5>3 DEF CaptureInv
      <4>3. QED
        BY <3>1, <3>5, <4>2 DEF CaptureInv
    <3>6. CASE service.close \notin {"open", "refused"}
      <4>1. Pending' = Pending /\ service'.kept = K
        BY <3>1, <3>4, <3>6 DEF Pending
      <4>2. CASE service.thread \in {"starting", "running", "done"}
        <5>1. InOrder
          BY <4>2 DEF CaptureInv
        <5>2. Pending \in 0..Len(Q)
          BY <1>a, <5>1 DEF InOrder, Pending
        <5>3. InOrder'
          <6>1. \A i \in 1..Pending : Append(Q, e)[i] = service.kept[Written + Holding + i]
            BY <1>a, <3>2, <5>1, <5>2 DEF InOrder
          <6>2. Pending <= Len(Q) + 1
            BY <1>a, <5>2
          <6>3. QED
            BY <2>2, <3>1, <3>2, <3>4, <4>1, <5>1, <6>1, <6>2 DEF InOrder
        <5>4. AtWork => AtWork'
          BY <1>a, <2>2, <3>1, <3>2, <3>4, <3>6, <4>1, <5>2 DEF AtWork
        <5>5. QED
          BY <3>1, <3>6, <4>1, <4>2, <5>3, <5>4 DEF CaptureInv
      <4>3. QED
        BY <3>1, <4>2 DEF CaptureInv
    <3>7. QED
      BY <3>5, <3>6
  <2>5. QED
    BY <2>3, <2>4
<1>2. CASE Close
  <2>1. lines' = lines /\ tail' = tail /\ service.close \in {"open", "refused"}
    BY <1>2 DEF Close
  <2>2. CASE Full
    <3>1. service' = [service EXCEPT !.close = "refused"]
      BY <1>2, <2>2 DEF Close
    <3>2. /\ service'.queue = service.queue /\ service'.kept = service.kept
          /\ service'.held = service.held /\ service'.thread = service.thread
          /\ service'.close = "refused" /\ service'.base = service.base
          /\ service'.joint = service.joint
      BY <1>0, <3>1
    <3>3. QED
      BY <2>1, <3>2 DEF CaptureInv, InOrder, AtWork, Written, Holding, Pending
  <2>3. CASE ~Full
    <3> DEFINE Q == service.queue
    <3>1. service' = [service EXCEPT !.queue = Append(Q, Sentinel), !.close = "joining"]
      BY <1>2, <2>3 DEF Close
    <3>2. /\ service'.queue = Append(Q, Sentinel) /\ service'.kept = service.kept
          /\ service'.held = service.held /\ service'.thread = service.thread
          /\ service'.close = "joining" /\ service'.base = service.base
          /\ service'.joint = service.joint
      BY <1>0, <3>1
    <3>3. /\ Len(Append(Q, Sentinel)) = Len(Q) + 1
          /\ \A i \in 1..Len(Q) : Append(Q, Sentinel)[i] = Q[i]
          /\ Append(Q, Sentinel)[Len(Q) + 1] = Sentinel
      BY <1>0, Appended DEF Queued
    <3>4. Written' = Written /\ Holding' = Holding /\ Pending' = Pending
      BY <2>1, <3>2 DEF Written, Holding, Pending
    <3>5. CASE service.thread \in {"starting", "running"}
      <4>1. InOrder /\ AtWork /\ Pending = Len(Q)
        BY <2>1, <3>5 DEF CaptureInv, AtWork
      <4>2. InOrder'
        BY <1>a, <2>1, <3>2, <3>3, <3>4, <4>1 DEF InOrder
      <4>3. AtWork'
        BY <1>a, <2>1, <3>2, <3>3, <3>4, <4>1 DEF AtWork
      <4>4. QED
        BY <3>2, <3>5, <4>2, <4>3 DEF CaptureInv
    <3>6. CASE service.thread \notin {"starting", "running"}
      BY <2>1, <3>2, <3>6 DEF CaptureInv
    <3>7. QED
      BY <3>5, <3>6
  <2>4. QED
    BY <2>2, <2>3
<1>3. CASE JoinReturns
  <2>1. /\ lines' = lines /\ tail' = tail /\ service.close = "joining"
        /\ \E close \in {"joined", "timed out"} : service' = [service EXCEPT !.close = close]
    BY <1>3 DEF JoinReturns
  <2>2. /\ service'.queue = service.queue /\ service'.kept = service.kept
        /\ service'.held = service.held /\ service'.thread = service.thread
        /\ service'.close \in {"joined", "timed out"} /\ service'.base = service.base
        /\ service'.joint = service.joint
    BY <1>0, <2>1
  <2>3. Written' = Written /\ Holding' = Holding /\ Pending' = Pending
    BY <2>1, <2>2 DEF Written, Holding, Pending
  <2>4. InOrder => InOrder'
    BY <2>1, <2>2, <2>3 DEF InOrder
  <2>5. AtWork => AtWork'
    BY <2>1, <2>2, <2>3 DEF AtWork
  <2>6. QED
    BY <2>1, <2>2, <2>3, <2>4, <2>5 DEF CaptureInv
<1>4. CASE Open
  <2>1. /\ lines' = lines /\ tail' = tail /\ service.thread = "starting"
        /\ \E thread \in {"running", "dead"} : service' = [service EXCEPT !.thread = thread]
    BY <1>4 DEF Open
  <2>2. /\ service'.queue = service.queue /\ service'.kept = service.kept
        /\ service'.held = service.held /\ service'.thread \in {"running", "dead"}
        /\ service'.close = service.close /\ service'.base = service.base
        /\ service'.joint = service.joint
    BY <1>0, <2>1
  <2>3. QED
    BY <2>1, <2>2 DEF CaptureInv, InOrder, AtWork, Written, Holding, Pending
<1>5. CASE Take
  <2> DEFINE Q == service.queue
  <2>1. /\ service.thread = "running" /\ service.held = Nothing /\ Q # <<>>
        /\ lines' = lines /\ tail' = tail
    BY <1>5 DEF Take
  <2>2. /\ Len(Tail(Q)) = Len(Q) - 1 /\ Len(Q) \in Nat \ {0} /\ Head(Q) = Q[1]
        /\ Head(Q) \in Queued /\ \A i \in 1..Len(Q) - 1 : Tail(Q)[i] = Q[i + 1]
    BY <1>0, <2>1, HeadTaken
  <2>3. InOrder /\ AtWork /\ Holding = 0
    BY <2>1 DEF CaptureInv, Holding
  <2>4. Written \in Nat /\ Pending \in 0..Len(Q)
    BY <1>b, <2>3
  <2>5. CASE Head(Q) = Sentinel
    <3>1. service' = [service EXCEPT !.queue = Tail(Q), !.held = service.held, !.thread = "done"]
      BY <1>5, <2>5 DEF Take
    <3>2. /\ service'.kept = service.kept /\ service'.held = Nothing
          /\ service'.thread = "done" /\ service'.close = service.close
          /\ service'.base = service.base /\ service'.joint = service.joint
      BY <1>0, <2>1, <3>1
    <3>3. Written' = Written /\ Holding' = 0 /\ Pending' = Pending
      BY <2>1, <2>3, <3>2 DEF Written, Holding, Pending
    <3>4. Pending = 0
      <4>1. ASSUME Pending >= 1 PROVE FALSE
        <5>1. Q[1] = service.kept[Written + 1] /\ Written + 1 \in 1..Len(service.kept)
          BY <1>a, <2>3, <2>4, <4>1 DEF InOrder, Pending
        <5>2. Q[1] \in Events
          BY <1>0, <5>1
        <5>3. QED
          BY <2>2, <2>5, <5>2, Marks
      <4>2. QED
        BY <2>4, <4>1
    <3>5. service.close \notin {"open", "refused"}
      BY <2>2, <2>3, <3>4 DEF AtWork
    <3>6. InOrder'
      BY <1>a, <2>1, <2>3, <3>2, <3>3, <3>4, <2>2 DEF InOrder
    <3>7. QED
      BY <3>2, <3>3, <3>4, <3>5, <3>6 DEF CaptureInv
  <2>6. CASE Head(Q) # Sentinel
    <3>1. service' = [service EXCEPT !.queue = Tail(Q), !.held = Head(Q),
                                     !.thread = service.thread]
      BY <1>5, <2>6 DEF Take
    <3>2. /\ service'.queue = Tail(Q)
          /\ service'.kept = service.kept /\ service'.held = Head(Q)
          /\ service'.thread = "running" /\ service'.close = service.close
          /\ service'.base = service.base /\ service'.joint = service.joint
      BY <1>0, <2>1, <3>1
    <3>3. Head(Q) \in Events /\ Head(Q) # Nothing
      BY <2>2, <2>6, Marks DEF Queued
    <3>4. Written' = Written /\ Holding' = 1 /\ Pending' = Pending - 1
      BY <1>a, <2>1, <2>3, <3>2, <3>3 DEF Written, Holding, Pending
    <3>5. Pending >= 1
      BY <2>2, <2>3, <2>4, <2>6 DEF AtWork
    <3>6. InOrder'
      <4> DEFINE w == Written
                 p == Pending
                 K == service.kept
      <4>1. /\ w \in Nat /\ p \in 1..Len(Q) /\ w + p = Len(K)
            /\ \A i \in 1..p : Q[i] = K[w + i]
        <5>1. \A i \in 1..Pending : Q[i] = K[Written + 0 + i]
          BY <2>3 DEF InOrder
        <5>2. \A i \in 1..Pending : Written + 0 + i = Written + i
          BY <2>4
        <5>3. Written + 0 + Pending = Len(K) /\ Pending \in 1..Len(Q)
          BY <1>a, <1>b, <2>3, <2>4, <3>5
        <5>4. QED
          BY <2>4, <5>1, <5>2, <5>3
      <4>2. Q[1] = K[w + 1]
        BY <4>1
      <4>3. ASSUME NEW i \in 1..p - 1 PROVE Tail(Q)[i] = K[w + 1 + i]
        <5>1. i + 1 \in 1..p /\ i \in 1..Len(Q) - 1 /\ w + (i + 1) = w + 1 + i
          BY <1>a, <4>1
        <5>2. Q[i + 1] = K[w + (i + 1)]
          BY <4>1, <5>1
        <5>3. QED
          BY <2>2, <5>1, <5>2
      <4>4. w + 1 <= Len(K) /\ p - 1 <= Len(Q) - 1
        BY <1>a, <4>1
      <4> HIDE DEF w, p
      <4>5. Written' = w /\ Pending' = p - 1
        BY <3>4 DEF w, p
      <4>6. /\ service.base <= Len(lines)
            /\ \A i \in 1..w :
                 lines[service.base + i] = IF i = 1 /\ service.joint THEN Broken ELSE K[i]
        BY <2>3 DEF InOrder, w
      <4>7. QED
        BY <2>1, <2>2, <3>2, <3>4, <4>2, <4>3, <4>4, <4>5, <4>6 DEF InOrder
    <3>7. AtWork'
      BY <1>a, <2>1, <2>2, <2>3, <2>4, <3>2, <3>3, <3>4, <3>5 DEF AtWork
    <3>8. QED
      BY <3>2, <3>6, <3>7 DEF CaptureInv
  <2>7. QED
    BY <2>5, <2>6
<1>6. CASE Emit
  <2> DEFINE line == Joined(service.held)
  <2>1. /\ service.thread = "running" /\ service.held \in Events /\ service.held # Nothing
        /\ lines' = Append(lines, line) /\ tail' = Nothing
        /\ service' = [service EXCEPT !.held = Nothing]
    BY <1>6, CaptureAssumption, Marks DEF Emit, PutLine
  <2>2. /\ service'.queue = service.queue /\ service'.kept = service.kept
        /\ service'.held = Nothing /\ service'.thread = "running"
        /\ service'.close = service.close /\ service'.base = service.base
        /\ service'.joint = service.joint
    BY <1>0, <2>1
  <2>3. InOrder /\ AtWork /\ Holding = 1
    BY <2>1 DEF CaptureInv, Holding
  <2>4. Written \in Nat
    BY <1>b, <2>3
  <2>5. line = IF Written = 0 /\ service.joint THEN Broken ELSE service.held
    BY <2>3 DEF AtWork, Joined
  <2>6. line \in Events \cup {Broken}
    BY <2>1 DEF Joined
  <2> HIDE DEF line
  <2>7. /\ Len(lines') = Len(lines) + 1 /\ lines'[Len(lines) + 1] = line
        /\ \A i \in 1..Len(lines) : lines'[i] = lines[i]
    BY <1>0, <2>1, <2>6, Appended
  <2>8. Written' = Written + 1 /\ Holding' = 0
    BY <1>0, <1>a, <2>2, <2>7 DEF Written, Holding
  <2>9. Pending' = Pending
    BY <1>a, <2>2, <2>3, <2>8 DEF Pending
  <2>10. Written + 1 <= Len(service.kept) /\ Len(lines) = service.base + Written
    BY <1>0, <1>a, <2>3 DEF InOrder, Written
  <2>11. ASSUME NEW i \in 1..Written + 1
         PROVE  lines'[service.base + i]
                  = IF i = 1 /\ service.joint THEN Broken ELSE service.kept[i]
    <3>1. CASE i = Written + 1
      <4>1. service.base + i = Len(lines) + 1
        BY <1>a, <2>4, <2>10, <3>1
      <4>2. lines'[service.base + i] = line
        BY <2>7, <4>1
      <4>3. service.held = service.kept[i]
        BY <2>1, <2>3, <3>1 DEF InOrder
      <4>4. i = 1 <=> Written = 0
        BY <2>4, <3>1
      <4>5. QED
        BY <2>5, <4>2, <4>3, <4>4
    <3>2. CASE i # Written + 1
      <4>1. i \in 1..Written /\ service.base + i \in 1..Len(lines)
        BY <1>0, <1>a, <2>4, <2>10, <3>2
      <4>2. QED
        BY <2>3, <2>7, <4>1 DEF InOrder
    <3>3. QED
      BY <3>1, <3>2
  <2>12. InOrder'
    <3>1. service.base <= Len(lines) + 1
      BY <1>0, <2>4, <2>10
    <3>2. \A i \in 1..Pending : service.queue[i] = service.kept[Written + 1 + i]
      BY <2>3 DEF InOrder
    <3>3. Written + 1 + 0 = Written + 1
      BY <2>4
    <3>4. Pending <= Len(service.queue)
      BY <2>3 DEF InOrder
    <3>5. QED
      BY <2>2, <2>7, <2>8, <2>9, <2>10, <2>11, <3>1, <3>2, <3>3, <3>4 DEF InOrder
  <2>13. AtWork'
    BY <2>1, <2>2, <2>3, <2>4, <2>8, <2>9 DEF AtWork
  <2>14. QED
    BY <2>2, <2>12, <2>13 DEF CaptureInv
<1>7. CASE Die
  <2>1. service'.thread = "dead"
    BY <1>0, <1>7 DEF Die
  <2>2. QED
    BY <2>1 DEF CaptureInv
<1>8. CASE Exit
  <2>1. service'.thread = "killed"
    BY <1>8 DEF Exit, Exited, Started
  <2>2. QED
    BY <2>1 DEF CaptureInv
<1>9. CASE Restart
  <2>1. /\ service'.queue = <<>> /\ service'.kept = <<>> /\ service'.held = Nothing
        /\ service'.thread = "starting" /\ service'.close = "open"
        /\ service'.base = Len(lines) /\ service'.joint = (tail # Nothing)
        /\ lines' = lines /\ tail' = tail
    BY <1>9 DEF Restart, Started
  <2>2. Written' = 0 /\ Holding' = 0 /\ Pending' = 0
    BY <1>a, <2>1 DEF Written, Holding, Pending
  <2>3. InOrder' /\ AtWork'
    <3>1. Len(<<>>) = 0
      OBVIOUS
    <3>2. InOrder'
      BY <1>a, <2>1, <2>2, <3>1 DEF InOrder
    <3>3. AtWork'
      BY <2>1, <2>2, <3>1 DEF AtWork
    <3>4. QED
      BY <3>2, <3>3
  <2>4. QED
    BY <2>1, <2>3 DEF CaptureInv
<1>10. QED
  BY <1>1, <1>2, <1>3, <1>4, <1>5, <1>6, <1>7, <1>8, <1>9 DEF CaptureNext, ThreadStep

\* What the join found follows.
LEMMA CaptureImplies ==
  ASSUME CaptureTypeOK, CaptureInv
  PROVE  JoinedMeansWritten
<1> SUFFICES ASSUME service.thread = "done"
             PROVE  LET written == SubSeq(lines, service.base + 1, Len(lines))
                    IN /\ Len(written) = Len(service.kept)
                       /\ \A i \in DOMAIN written :
                            IF i = 1 /\ service.joint THEN written[i] = Broken
                            ELSE written[i] = service.kept[i]
  BY DEF JoinedMeansWritten
<1> DEFINE written == SubSeq(lines, service.base + 1, Len(lines))
<1>1. InOrder /\ Pending = 0 /\ Holding = 0
  BY DEF CaptureInv, Holding
<1>2. service.base \in Nat /\ lines \in Seq(Events \cup {Broken}) /\ service.kept \in Seq(Events)
  BY DEF CaptureTypeOK
<1>3. Len(lines) \in Nat /\ Len(service.kept) \in Nat
  BY <1>2
<1>4. service.base <= Len(lines) /\ Len(lines) - service.base = Len(service.kept)
  BY <1>1, <1>2, <1>3 DEF InOrder, Pending, Written
<1>5. Len(written) = Len(lines) - service.base
  BY <1>2, <1>3, <1>4
<1>6. \A i \in 1..Len(lines) - service.base : written[i] = lines[service.base + i]
  BY <1>2, <1>3, <1>4
<1>7. DOMAIN written = 1..Written
  BY <1>2, <1>3, <1>4 DEF Written
<1> HIDE DEF written
<1>8. \A i \in DOMAIN written :
        IF i = 1 /\ service.joint THEN written[i] = Broken ELSE written[i] = service.kept[i]
  BY <1>1, <1>6, <1>7 DEF InOrder, Written
<1>9. QED
  BY <1>4, <1>5, <1>8 DEF written

\* The other steps of a workload leave the capture alone.
LEMMA CaptureInvariant == Spec => [](CaptureTypeOK /\ CaptureInv)
<1>1. Init => CaptureTypeOK /\ CaptureInv
  BY FirstProcess DEF Init
<1>2. CaptureTypeOK /\ CaptureInv /\ [Next]_vars => (CaptureTypeOK /\ CaptureInv)'
  <2> SUFFICES ASSUME CaptureTypeOK, CaptureInv, [Next]_vars
               PROVE  (CaptureTypeOK /\ CaptureInv)'
    OBVIOUS
  <2>1. CASE Captured
    BY <2>1, CaptureTypeStep, CaptureStep DEF Captured
  <2>2. CASE UNCHANGED captureVars
    BY <2>2 DEF captureVars, CaptureTypeOK, CaptureInv, InOrder, AtWork, Written, Holding, Pending
  <2>3. QED
    BY <2>1, <2>2 DEF Next, ImportTraces, SampleTraces, Watched, vars
<1>3. QED
  BY <1>1, <1>2, PTL DEF Spec

\* A close() that found the thread finished can count on the file (Capture's
\* JoinedMeansWritten): for any traffic, capacity of the queue and number of
\* restarts, whatever text earlier processes left behind.
THEOREM JoinIsAPromise == Spec => []JoinedMeansWritten
<1>1. CaptureTypeOK /\ CaptureInv => JoinedMeansWritten
  BY CaptureImplies
<1>2. QED
  BY <1>1, CaptureInvariant, PTL

-----------------------------------------------------------------------------
(* The import and the sample. *)

\* What was imported is what the file says, and the sample was drawn from it.
SampleInv ==
  /\ records \in Seq(Valid) /\ IsInjective(records)
  /\ records # <<>> => records = Import(Text)
  /\ sample # {} => records # <<>> /\ sample \in Samples(records)

\* A reader of the file finds events and broken text.
LEMMA TextType ==
  ASSUME CaptureTypeOK
  PROVE  Text \in Seq(Events \cup {Nothing, Broken})
<1> DEFINE T == Events \cup {Nothing, Broken}
<1>1. lines \in Seq(T) /\ tail \in T
  <2>1. lines \in Seq(Events \cup {Broken}) /\ tail \in T
    BY DEF CaptureTypeOK
  <2>2. Events \cup {Broken} \subseteq T
    OBVIOUS
  <2>3. QED
    BY <2>1, <2>2
<1> HIDE DEF T
<1>2. Append(lines, tail) \in Seq(T)
  BY <1>1
<1>3. QED
  BY <1>1, <1>2 DEF Text, T

\* Once something is imported the file does not change any more.
LEMMA SampleInvariant == Spec => []SampleInv
<1>1. Init => SampleInv
  BY DEF Init, SampleInv, IsInjective
<1>2. CaptureTypeOK /\ SampleInv /\ [Next]_vars => SampleInv'
  <2> SUFFICES ASSUME CaptureTypeOK, SampleInv, [Next]_vars PROVE SampleInv'
    OBVIOUS
  <2>1. CASE Captured
    <3>1. records = <<>> /\ records' = records /\ sample' = sample
      BY <2>1 DEF Captured, sampleVars
    <3>2. QED
      BY <3>1 DEF SampleInv
  <2>2. CASE ImportTraces
    <3>1. /\ records = <<>> /\ records' = Import(Text) /\ sample' = sample
          /\ lines' = lines /\ tail' = tail
      BY <2>2 DEF ImportTraces, captureVars
    <3>2. Text' = Text /\ sample' = {}
      BY <3>1 DEF Text, SampleInv
    <3>3. Text \in Seq(Events \cup {Nothing, Broken})
      BY TextType
    <3>4. Import(Text) \in Seq(Valid) /\ IsInjective(Import(Text))
      BY <3>3, ImportKeepsEachOnce
    <3>5. QED
      BY <3>1, <3>2, <3>4 DEF SampleInv
  <2>3. CASE SampleTraces
    <3>1. /\ records # <<>> /\ records' = records /\ sample' \in Samples(records)
          /\ lines' = lines /\ tail' = tail
      BY <2>3 DEF SampleTraces, captureVars
    <3>2. Text' = Text
      BY <3>1 DEF Text
    <3>3. QED
      BY <3>1, <3>2 DEF SampleInv
  <2>4. CASE Watched \/ UNCHANGED vars
    <3>1. records' = records /\ sample' = sample /\ lines' = lines /\ tail' = tail
      BY <2>4 DEF Watched, vars, sampleVars, captureVars
    <3>2. Text' = Text
      BY <3>1 DEF Text
    <3>3. QED
      BY <3>1, <3>2 DEF SampleInv
  <2>5. QED
    BY <2>1, <2>2, <2>3, <2>4 DEF Next
<1>3. QED
  BY <1>1, <1>2, CaptureInvariant, PTL DEF Spec

\* The imported traces are known, and so is what a sample of them is.
LEMMA SampleFacts ==
  ASSUME SampleInv, sample # {}
  PROVE  LET reps == ToSet(Representatives(records))
         IN /\ sample \subseteq reps /\ reps \subseteq ToSet(records) /\ IsFiniteSet(reps)
            /\ reps \in SUBSET Traces
            /\ Cardinality(sample) = Min({SampleSize, Cardinality(reps)})
            /\ SampleSize >= Cardinality({StratumOf[r] : r \in reps}) =>
                 {StratumOf[t] : t \in sample} = {StratumOf[r] : r \in reps}
<1>1. records \in Seq(Traces) /\ sample \in Samples(records)
  <2>1. Valid \subseteq Traces
    BY SamplingAssumption
  <2>2. QED
    BY <2>1 DEF SampleInv
<1>2. Representatives(records) \in Seq(Traces)
      /\ ToSet(Representatives(records)) \subseteq ToSet(records)
  BY <1>1, RepresentativesCover
<1>3. QED
  BY <1>1, <1>2, FinitelyMany, SamplesStandFor

\* Production's SampleCoversCapture, for any file, any nearness of its traces,
\* any strata and any size of the sample.
THEOREM SampleStandsForCapture == Spec => []SampleCoversCapture
<1>1. CaptureTypeOK /\ SampleInv => SampleCoversCapture
  <2> SUFFICES ASSUME CaptureTypeOK, SampleInv, sample # {}
               PROVE  SampleCoversCapture
    BY DEF SampleCoversCapture
  <2> DEFINE reps == ToSet(Representatives(records))
  <2>1. /\ sample \subseteq reps
        /\ Cardinality(sample) = Min({SampleSize, Cardinality(reps)})
        /\ SampleSize >= Cardinality({StratumOf[r] : r \in reps}) =>
             {StratumOf[t] : t \in sample} = {StratumOf[r] : r \in reps}
    BY SampleFacts
  <2>2. /\ \A r \in ToSet(records) : \E s \in reps : Near(s, r)
        /\ \A r, s \in reps : r # s => ~Near(r, s)
    BY RepresentativesCover DEF SampleInv
  <2>3. Text \in Seq(Events \cup {Nothing, Broken})
    BY TextType
  <2>4. {t \in Valid : \E i \in DOMAIN Text : Text[i] = t} = ToSet(records)
    BY <2>3, ImportKeepsEachOnce DEF SampleInv
  <2> HIDE DEF reps
  <2>5. \A t \in {t \in Valid : \E i \in DOMAIN Text : Text[i] = t} : \E r \in reps : Near(r, t)
    BY <2>2, <2>4
  <2>6. \A s, t \in sample : s # t => ~Near(s, t)
    BY <2>1, <2>2
  <2>7. QED
    BY <2>1, <2>5, <2>6 DEF SampleCoversCapture, reps
<1>2. QED
  BY <1>1, CaptureInvariant, SampleInvariant, PTL

\* The instance that TLC evaluates is one of many.
COROLLARY ReferenceIsMet == Spec => []QuotasMeetReference
<1>1. QuotasMeetReference
  <2>1. ASSUME NEW sizes \in [1..3 -> 0..4], NEW n \in 1..13 PROVE QuotasMeet(sizes, n)
    <3>1. 1..3 \in SUBSET Nat /\ sizes \in [1..3 -> Nat] /\ n \in Nat
      OBVIOUS
    <3>2. IsFiniteSet(1..3)
      <4>1. 1 \in Int /\ 3 \in Int
        OBVIOUS
      <4>2. QED
        BY ONLY <4>1, FS_Interval
    <3>3. QED
      BY ONLY <3>1, <3>2, QuotasAreMet
  <2>2. QED
    BY <2>1 DEF QuotasMeetReference
<1>2. QED
  BY <1>1, PTL

-----------------------------------------------------------------------------
(* The suite. *)

\* q has each element of S, once.
Enumerates(q, S) ==
  q \in Seq(S) /\ Len(q) = Cardinality(S) /\ IsInjective(q) /\ ToSet(q) = S

\* A function on 1..n is a sequence.
LEMMA FromOneToN ==
  ASSUME NEW S, NEW n \in Nat, NEW q \in [1..n -> S]
  PROVE  q \in Seq(S) /\ Len(q) = n
OBVIOUS

\* Each place is taken by an element with the rank of the place, if there is one.
PutsByRank(q, before, S) ==
  /\ q = [i \in 1..Cardinality(S) |-> q[i]]
  /\ \A i \in 1..Cardinality(S), x \in S :
       before[x] = i - 1 => q[i] \in S /\ before[q[i]] = i - 1

\* Putting each element at the index that its rank gives enumerates the set.
LEMMA SortingEnumerates ==
  ASSUME NEW S, IsFiniteSet(S), NEW R, OrdersStrictly(R, S),
         NEW before, before = Ranks(R, S), NEW q, PutsByRank(q, before, S)
  PROVE  Enumerates(q, S)
<1> DEFINE rank == Ranks(R, S)
<1>1. PICK n \in Nat : n = Cardinality(S)
  BY FS_CardinalityType
<1>2. /\ rank \in [S -> 0..n - 1]
      /\ \A x, y \in S : rank[x] = rank[y] => x = y
      /\ \A i \in 0..n - 1 : \E x \in S : rank[x] = i
  BY <1>1, RanksAreABijection DEF Bijection, Injection, Surjection, IsInjective
<1>3. /\ q = [i \in 1..n |-> q[i]]
      /\ \A i \in 1..n, x \in S : rank[x] = i - 1 => q[i] \in S /\ rank[q[i]] = i - 1
  BY <1>1 DEF PutsByRank
<1> HIDE DEF rank
<1>4. \A i \in 1..n : q[i] \in S /\ rank[q[i]] = i - 1
  <2>1. ASSUME NEW i \in 1..n PROVE q[i] \in S /\ rank[q[i]] = i - 1
    <3>1. i - 1 \in 0..n - 1
      BY <1>1
    <3>2. \E x \in S : rank[x] = i - 1
      BY <1>2, <3>1
    <3>3. QED
      BY <1>3, <3>2
  <2>2. QED
    BY <2>1
<1>5. q \in [1..n -> S]
  BY <1>3, <1>4
<1>6. q \in Seq(S) /\ Len(q) = n
  BY <1>5, FromOneToN
<1>7. IsInjective(q)
  <2>1. ASSUME NEW i \in 1..n, NEW j \in 1..n, q[i] = q[j] PROVE i = j
    <3>1. i - 1 = j - 1
      BY <1>4, <2>1
    <3>2. QED
      BY <1>1, <3>1
  <2>2. QED
    BY <1>5, <2>1 DEF IsInjective
<1>8. ToSet(q) = S
  <2>1. ASSUME NEW x \in S PROVE x \in ToSet(q)
    <3>1. PICK i \in 1..n : rank[x] = i - 1
      <4>1. rank[x] \in 0..n - 1
        BY <1>2
      <4>2. rank[x] + 1 \in 1..n /\ rank[x] = (rank[x] + 1) - 1
        BY <1>1, <4>1
      <4>3. QED
        BY <4>2
    <3>2. q[i] = x
      <4>1. q[i] \in S /\ rank[q[i]] = i - 1
        BY <1>4
      <4>2. QED
        BY <1>2, <3>1, <4>1
    <3>3. QED
      BY <1>5, <3>2 DEF ToSet
  <2>2. QED
    BY <1>5, <2>1 DEF ToSet
<1>9. QED
  BY <1>1, <1>6, <1>7, <1>8 DEF Enumerates

\* The two orders of the suite enumerate what they sort.
LEMMA OrdersEnumerate ==
  ASSUME NEW S \in SUBSET Traces, IsFiniteSet(S)
  PROVE  Enumerates(ById(S), S) /\ Enumerates(ByTemplate(S), S)
<1>1. \A t \in S : t \in Nat /\ TemplateOf[t] \in Nat
  BY SamplingAssumption, MonitorAssumption
<1>2. Enumerates(ById(S), S)
  <2> DEFINE R == {p \in S \X S : p[1] < p[2]}
  <2>1. \A s, t \in S : <<s, t>> \in R <=> s < t
    OBVIOUS
  <2> HIDE DEF R
  <2>2. OrdersStrictly(R, S)
    BY <1>1, <2>1 DEF OrdersStrictly
  <2> DEFINE before == [t \in S |-> Cardinality({s \in S : s < t})]
  <2>3. ById(S) = [i \in 1..Cardinality(S) |-> CHOOSE t \in S : before[t] = i - 1]
    BY DEF ById, Sorted
  <2>4. before = Ranks(R, S)
    <3>1. \A t \in S : {s \in S : s < t} = {s \in S : <<s, t>> \in R}
      BY <2>1
    <3>2. QED
      BY <3>1 DEF Ranks
  <2> HIDE DEF before
  <2>5. PICK q : q = ById(S)
    OBVIOUS
  <2>6. PutsByRank(q, before, S)
    BY <2>3, <2>5 DEF PutsByRank
  <2>7. Enumerates(q, S)
    BY <2>2, <2>4, <2>6, SortingEnumerates
  <2>8. QED
    BY <2>5, <2>7
<1>3. Enumerates(ByTemplate(S), S)
  <2> DEFINE Before(s, t) == TemplateOf[s] < TemplateOf[t]
                               \/ (TemplateOf[s] = TemplateOf[t] /\ s < t)
             R == {p \in S \X S : Before(p[1], p[2])}
  <2>1. \A s, t \in S : <<s, t>> \in R <=> Before(s, t)
    OBVIOUS
  <2> HIDE DEF R
  <2>2. OrdersStrictly(R, S)
    BY <1>1, <2>1 DEF OrdersStrictly
  <2> DEFINE before == [t \in S |-> Cardinality({s \in S : Before(s, t)})]
  <2>3. ByTemplate(S) = [i \in 1..Cardinality(S) |-> CHOOSE t \in S : before[t] = i - 1]
    BY DEF ByTemplate, Sorted
  <2>4. before = Ranks(R, S)
    <3>1. \A t \in S : {s \in S : Before(s, t)} = {s \in S : <<s, t>> \in R}
      BY <2>1
    <3>2. QED
      BY <3>1 DEF Ranks
  <2> HIDE DEF before
  <2>5. PICK q : q = ByTemplate(S)
    OBVIOUS
  <2>6. PutsByRank(q, before, S)
    BY <2>3, <2>5 DEF PutsByRank
  <2>7. Enumerates(q, S)
    BY <2>2, <2>4, <2>6, SortingEnumerates
  <2>8. QED
    BY <2>5, <2>7
<1>4. QED
  BY <1>2, <1>3

\* A sequence without repetitions is as long as its elements are many.
LEMMA LengthIsSize ==
  ASSUME NEW S, NEW q \in Seq(S), IsInjective(q)
  PROVE  IsFiniteSet(ToSet(q)) /\ Cardinality(ToSet(q)) = Len(q) /\ Len(q) \in Nat
<1>1. PICK n \in Nat : n = Len(q) /\ DOMAIN q = 1..n
  OBVIOUS
<1>2. q \in Bijection(1..n, ToSet(q))
  BY <1>1 DEF ToSet, IsInjective, Bijection, Injection, Surjection
<1>3. ExistsBijection(1..n, ToSet(q))
  BY <1>2 DEF ExistsBijection
<1>4. Cardinality(ToSet(q)) = n
  BY <1>3, FS_CountingElements
<1>5. QED
  BY <1>1, <1>4, FinitelyMany

\* The turns of the two loops.
NextAny(rows, t) ==
  IF Len(rows) >= SuiteSize \/ Contains(rows, t) THEN rows ELSE Append(rows, t)

NextTemplate(acc, t) ==
  IF Len(acc.rows) >= SuiteSize \/ TemplateOf[t] \in acc.seen \/ Contains(acc.rows, t)
  THEN acc
  ELSE [rows |-> Append(acc.rows, t), seen |-> acc.seen \cup {TemplateOf[t]}]

\* The rows after each trace that may fill the suite up.
LEMMA FillUpRun ==
  ASSUME NEW T, NEW selected \in Seq(T), NEW S, NEW q \in Seq(T), q = ById(S)
  PROVE  \E h \in [0..Len(q) -> Seq(T)] :
           /\ h[0] = selected
           /\ \A k \in 1..Len(q) : h[k] = NextAny(h[k - 1], q[k])
           /\ FillUp(selected, S) = h[Len(q)]
<1> DEFINE V == Seq(T)
<1>1. PICK n \in Nat : n = Len(q) /\ DOMAIN q = 1..n
  OBVIOUS
<1> DEFINE F == [p \in (1..n) \X V |-> NextAny(p[2], q[p[1]])]
<1>2. IsLoop(n, V, selected, F)
  <2>1. \A i \in 1..n : q[i] \in T
    BY <1>1
  <2>2. ASSUME NEW rows \in V, NEW t \in T PROVE NextAny(rows, t) \in V
    BY DEF NextAny
  <2>3. \A p \in (1..n) \X V : NextAny(p[2], q[p[1]]) \in V
    BY <2>1, <2>2
  <2>4. QED
    BY <2>3 DEF IsLoop
<1>3. \A i \in 1..n, rows \in V : F[<<i, rows>>] = NextAny(rows, q[i])
  OBVIOUS
<1> HIDE DEF F, V
<1>4. PICK g : FoldsAll(n, V, selected, F, g)
  BY <1>2, FoldExists
<1>5. ASSUME NEW s \in SUBSET (1..n), s # {} PROVE Max(s) \in 1..n
  BY <1>5, MaxOfIndices
<1>6. g = [s \in SUBSET (1..n) |->
             IF s = {} THEN selected ELSE NextAny(g[s \ {Max(s)}], q[Max(s)])]
  <2>1. ASSUME NEW s \in SUBSET (1..n), s # {}
        PROVE  g[s] = NextAny(g[s \ {Max(s)}], q[Max(s)])
    BY <1>3, <1>4, <1>5, <2>1 DEF FoldsAll
  <2>2. QED
    BY <1>4, <2>1 DEF FoldsAll
<1>7. PICK it :
        /\ it = (CHOOSE i : i = [s \in SUBSET (1..n) |->
                   IF s = {} THEN selected ELSE NextAny(i[s \ {Max(s)}], q[Max(s)])])
        /\ FillUp(selected, S) = it[1..n]
  BY <1>1 DEF FillUp, FoldLeft, MapThenFoldSet, NextAny
<1>8. it = [s \in SUBSET (1..n) |->
              IF s = {} THEN selected ELSE NextAny(it[s \ {Max(s)}], q[Max(s)])]
  BY <1>6, <1>7
<1>9. FoldsSome(n, V, selected, F, it)
  <2>1. it[{}] = selected
    BY <1>8
  <2>2. ASSUME NEW s \in SUBSET (1..n), s # {}, it[s \ {Max(s)}] \in V
        PROVE  it[s] = F[<<Max(s), it[s \ {Max(s)}]>>]
    BY <1>3, <1>5, <1>8, <2>2
  <2>3. QED
    BY <2>1, <2>2 DEF FoldsSome
<1>10. PICK h : IsRun(n, V, selected, F, h) /\ it[1..n] = h[n]
  BY <1>2, <1>9, FoldRun
<1>11. /\ h \in [0..n -> V] /\ h[0] = selected
       /\ \A k \in 1..n : h[k] = NextAny(h[k - 1], q[k])
  <2>1. \A k \in 1..n : h[k - 1] \in V /\ h[k] = F[<<k, h[k - 1]>>]
    BY <1>10 DEF IsRun
  <2>2. QED
    BY <1>3, <1>10, <2>1 DEF IsRun
<1>12. QED
  BY <1>1, <1>7, <1>10, <1>11 DEF V

\* The templates of a set of traces.
TemplatesOf(S) == {TemplateOf[t] : t \in S}

\* The rows and the templates after each trace in the order of templates.
LEMMA OnePerTemplateRun ==
  ASSUME NEW S, NEW selected \in Seq(S), NEW q \in Seq(S), q = ByTemplate(S)
  PROVE  \E h \in [0..Len(q) -> [rows : Seq(S), seen : SUBSET TemplatesOf(S)]] :
           /\ h[0] = [rows |-> selected, seen |-> {}]
           /\ \A k \in 1..Len(q) : h[k] = NextTemplate(h[k - 1], q[k])
           /\ OnePerTemplate(selected, S) = h[Len(q)].rows
<1> DEFINE M == TemplatesOf(S)
<1> DEFINE V == [rows : Seq(S), seen : SUBSET M]
           base == [rows |-> selected, seen |-> {}]
<1>1. PICK n \in Nat : n = Len(q) /\ DOMAIN q = 1..n
  OBVIOUS
<1> DEFINE F == [p \in (1..n) \X V |-> NextTemplate(p[2], q[p[1]])]
<1>2. IsLoop(n, V, base, F)
  <2>1. \A i \in 1..n : q[i] \in S
    BY <1>1
  <2>2. ASSUME NEW acc \in V, NEW t \in S PROVE NextTemplate(acc, t) \in V
    <3>1. Append(acc.rows, t) \in Seq(S) /\ acc.seen \cup {TemplateOf[t]} \in SUBSET M
      BY DEF TemplatesOf
    <3>2. QED
      BY <3>1 DEF NextTemplate
  <2>3. \A p \in (1..n) \X V : NextTemplate(p[2], q[p[1]]) \in V
    BY <2>1, <2>2
  <2>4. base \in V
    OBVIOUS
  <2>5. QED
    BY <2>3, <2>4 DEF IsLoop
<1>3. \A i \in 1..n, acc \in V : F[<<i, acc>>] = NextTemplate(acc, q[i])
  OBVIOUS
<1> HIDE DEF F, V, base, M
<1>4. PICK g : FoldsAll(n, V, base, F, g)
  BY <1>2, FoldExists
<1>5. ASSUME NEW s \in SUBSET (1..n), s # {} PROVE Max(s) \in 1..n
  BY <1>5, MaxOfIndices
<1>6. g = [s \in SUBSET (1..n) |->
             IF s = {} THEN base ELSE NextTemplate(g[s \ {Max(s)}], q[Max(s)])]
  <2>1. ASSUME NEW s \in SUBSET (1..n), s # {}
        PROVE  g[s] = NextTemplate(g[s \ {Max(s)}], q[Max(s)])
    BY <1>3, <1>4, <1>5, <2>1 DEF FoldsAll
  <2>2. QED
    BY <1>4, <2>1 DEF FoldsAll
<1>7. PICK it :
        /\ it = (CHOOSE i : i = [s \in SUBSET (1..n) |->
                   IF s = {} THEN base ELSE NextTemplate(i[s \ {Max(s)}], q[Max(s)])])
        /\ OnePerTemplate(selected, S) = it[1..n].rows
  BY <1>1 DEF OnePerTemplate, FoldLeft, MapThenFoldSet, NextTemplate, base
<1>8. it = [s \in SUBSET (1..n) |->
              IF s = {} THEN base ELSE NextTemplate(it[s \ {Max(s)}], q[Max(s)])]
  BY <1>6, <1>7
<1>9. FoldsSome(n, V, base, F, it)
  <2>1. it[{}] = base
    BY <1>8
  <2>2. ASSUME NEW s \in SUBSET (1..n), s # {}, it[s \ {Max(s)}] \in V
        PROVE  it[s] = F[<<Max(s), it[s \ {Max(s)}]>>]
    BY <1>3, <1>5, <1>8, <2>2
  <2>3. QED
    BY <2>1, <2>2 DEF FoldsSome
<1>10. PICK h : IsRun(n, V, base, F, h) /\ it[1..n] = h[n]
  BY <1>2, <1>9, FoldRun
<1>11. /\ h \in [0..n -> V] /\ h[0] = base
       /\ \A k \in 1..n : h[k] = NextTemplate(h[k - 1], q[k])
  <2>1. \A k \in 1..n : h[k - 1] \in V /\ h[k] = F[<<k, h[k - 1]>>]
    BY <1>10 DEF IsRun
  <2>2. QED
    BY <1>3, <1>10, <2>1 DEF IsRun
<1>12. QED
  BY <1>1, <1>7, <1>10, <1>11 DEF V, base, M

\* What holds after some traces, done, of S: the selection is still there, each
\* row beyond it brought a template of its own, and while there is room for one
\* of each no template is missing.
OnePerSoFar(S, selected, done, acc) ==
  /\ acc \in [rows : Seq(S), seen : SUBSET TemplatesOf(S)]
  /\ IsInjective(acc.rows)
  /\ ToSet(selected) \subseteq ToSet(acc.rows)
  /\ Len(acc.rows) <= SuiteSize \/ acc.rows = selected
  /\ acc.seen \subseteq TemplatesOf(ToSet(acc.rows))
  /\ Len(acc.rows) = Len(selected) + Cardinality(acc.seen)
  /\ SuiteSize >= Len(selected) + Cardinality(TemplatesOf(S)) =>
       TemplatesOf(done) \subseteq TemplatesOf(ToSet(acc.rows))

\* The templates of finitely many traces are finitely many.
LEMMA FewTemplates ==
  ASSUME NEW S, IsFiniteSet(S)
  PROVE  IsFiniteSet(TemplatesOf(S))
<1>1. [t \in S |-> TemplateOf[t]] \in Surjection(S, TemplatesOf(S))
  BY DEF Surjection, TemplatesOf
<1>2. QED
  BY <1>1, FS_Surjection

\* One turn of the first loop.
LEMMA NextTemplateKeeps ==
  ASSUME NEW S, IsFiniteSet(S), NEW selected \in Seq(S), NEW done \in SUBSET S,
         NEW acc, OnePerSoFar(S, selected, done, acc), NEW t \in S
  PROVE  OnePerSoFar(S, selected, done \cup {t}, NextTemplate(acc, t))
<1> DEFINE M == TemplatesOf(S)
<1>1. PICK rows \in Seq(S), seen \in SUBSET M :
        acc = [rows |-> rows, seen |-> seen] /\ rows = acc.rows /\ seen = acc.seen
  BY DEF OnePerSoFar
<1>2. PICK n \in Nat : n = Len(rows)
  OBVIOUS
<1>3. PICK f \in Nat : f = Len(selected)
  OBVIOUS
<1>4. IsFiniteSet(M) /\ IsFiniteSet(seen)
  BY FewTemplates, FS_Subset
<1>5. PICK m \in Nat : m = Cardinality(M)
  BY <1>4, FS_CardinalityType
<1>6. PICK c \in Nat : c = Cardinality(seen)
  BY <1>4, FS_CardinalityType
<1>7. /\ IsInjective(rows) /\ ToSet(selected) \subseteq ToSet(rows)
      /\ n <= SuiteSize \/ rows = selected
      /\ seen \subseteq TemplatesOf(ToSet(rows))
      /\ n = f + c
      /\ SuiteSize >= f + m => TemplatesOf(done) \subseteq TemplatesOf(ToSet(rows))
  BY <1>1, <1>2, <1>3, <1>5, <1>6 DEF OnePerSoFar
<1>8. TemplatesOf(done \cup {t}) = TemplatesOf(done) \cup {TemplateOf[t]}
  BY DEF TemplatesOf
<1>9. SuiteSize \in Nat
  BY MonitorAssumption
<1>10. Contains(rows, t) <=> t \in ToSet(rows)
  BY AppendNew
<1>11. CASE n >= SuiteSize \/ TemplateOf[t] \in seen \/ t \in ToSet(rows)
  <2>1. NextTemplate(acc, t) = acc
    BY <1>1, <1>2, <1>10, <1>11 DEF NextTemplate
  <2>2. ASSUME SuiteSize >= f + m PROVE TemplateOf[t] \in TemplatesOf(ToSet(rows))
    <3>1. CASE n >= SuiteSize
      <4>1. c >= m
        BY <1>7, <1>9, <2>2, <3>1
      <4>2. c <= m /\ (c = m => seen = M)
        BY <1>4, <1>5, <1>6, FS_Subset
      <4>3. seen = M
        BY <4>1, <4>2
      <4>4. QED
        BY <1>7, <4>3 DEF TemplatesOf
    <3>2. CASE TemplateOf[t] \in seen
      BY <1>7, <3>2
    <3>3. CASE t \in ToSet(rows)
      BY <3>3 DEF TemplatesOf
    <3>4. QED
      BY <1>11, <3>1, <3>2, <3>3
  <2>3. SuiteSize >= f + m => TemplatesOf(done \cup {t}) \subseteq TemplatesOf(ToSet(rows))
    BY <1>7, <1>8, <2>2
  <2>4. SuiteSize >= Len(selected) + Cardinality(TemplatesOf(S)) =>
          TemplatesOf(done \cup {t}) \subseteq TemplatesOf(ToSet(acc.rows))
    BY <1>1, <1>3, <1>5, <2>3
  <2>5. QED
    BY <2>1, <2>4 DEF OnePerSoFar
<1>12. CASE ~(n >= SuiteSize \/ TemplateOf[t] \in seen \/ t \in ToSet(rows))
  <2>1. NextTemplate(acc, t) = [rows |-> Append(rows, t), seen |-> seen \cup {TemplateOf[t]}]
    BY <1>1, <1>2, <1>10, <1>12 DEF NextTemplate
  <2>2. PICK more : more = Append(rows, t)
    OBVIOUS
  <2>3. PICK also : also = seen \cup {TemplateOf[t]}
    OBVIOUS
  <2>4. /\ more \in Seq(S) /\ IsInjective(more) /\ ToSet(more) = ToSet(rows) \cup {t}
    BY <1>7, <1>12, <2>2, AppendNew
  <2>5. Len(more) = n + 1
    BY <1>2, <2>2
  <2>6. also \in SUBSET M
    BY <2>3 DEF TemplatesOf
  <2>7. Cardinality(also) = c + 1
    BY <1>4, <1>6, <1>12, <2>3, FS_AddElement
  <2>8. TemplatesOf(ToSet(more)) = TemplatesOf(ToSet(rows)) \cup {TemplateOf[t]}
    BY <2>4 DEF TemplatesOf
  <2>9. also \subseteq TemplatesOf(ToSet(more))
    BY <1>7, <2>3, <2>8
  <2>10. n + 1 = f + (c + 1) /\ n + 1 <= SuiteSize
    BY <1>7, <1>9, <1>12
  <2>11. ToSet(selected) \subseteq ToSet(more)
    BY <1>7, <2>4
  <2>12. SuiteSize >= f + m => TemplatesOf(done \cup {t}) \subseteq TemplatesOf(ToSet(more))
    BY <1>7, <1>8, <2>8
  <2>13. /\ Len(more) <= SuiteSize
         /\ Len(more) = Len(selected) + Cardinality(also)
         /\ SuiteSize >= Len(selected) + Cardinality(TemplatesOf(S)) =>
              TemplatesOf(done \cup {t}) \subseteq TemplatesOf(ToSet(more))
    BY <1>3, <1>5, <2>5, <2>7, <2>10, <2>12
  <2>14. [rows |-> more, seen |-> also] \in [rows : Seq(S), seen : SUBSET TemplatesOf(S)]
    BY <2>4, <2>6
  <2>15. OnePerSoFar(S, selected, done \cup {t}, [rows |-> more, seen |-> also])
    BY <2>4, <2>9, <2>11, <2>13, <2>14 DEF OnePerSoFar
  <2>16. QED
    BY <2>1, <2>2, <2>3, <2>15
<1>13. QED
  BY <1>11, <1>12

\* OnePerTemplate: the invariant holds of all traces in the end.
LEMMA TemplatesTaken ==
  ASSUME NEW S \in SUBSET Traces, IsFiniteSet(S), NEW selected \in Seq(S), IsInjective(selected)
  PROVE  \E acc : OnePerSoFar(S, selected, S, acc) /\ OnePerTemplate(selected, S) = acc.rows
<1>1. PICK q \in Seq(S) : q = ByTemplate(S) /\ ToSet(q) = S
  BY OrdersEnumerate DEF Enumerates
<1>2. PICK n \in Nat : n = Len(q) /\ DOMAIN q = 1..n
  OBVIOUS
<1>3. PICK h \in [0..n -> [rows : Seq(S), seen : SUBSET TemplatesOf(S)]] :
        /\ h[0] = [rows |-> selected, seen |-> {}]
        /\ \A k \in 1..n : h[k] = NextTemplate(h[k - 1], q[k])
        /\ OnePerTemplate(selected, S) = h[n].rows
  <2>1. \E h \in [0..Len(q) -> [rows : Seq(S), seen : SUBSET TemplatesOf(S)]] :
           /\ h[0] = [rows |-> selected, seen |-> {}]
           /\ \A k \in 1..Len(q) : h[k] = NextTemplate(h[k - 1], q[k])
           /\ OnePerTemplate(selected, S) = h[Len(q)].rows
    BY ONLY <1>1, selected \in Seq(S), OnePerTemplateRun
  <2>2. QED
    BY <1>2, <2>1
<1> DEFINE Passed(k) == {q[i] : i \in 1..k}
           K == {k \in 0..n : OnePerSoFar(S, selected, Passed(k), h[k])}
<1>4. 0 \in K
  <2>1. PICK acc : acc = [rows |-> selected, seen |-> {}]
    OBVIOUS
  <2>2. acc \in [rows : Seq(S), seen : SUBSET TemplatesOf(S)] /\ acc.rows = selected /\ acc.seen = {}
    BY <2>1
  <2>3. Len(selected) = Len(selected) + 0
    OBVIOUS
  <2>4. Len(selected) = Len(selected) + Cardinality({})
    BY <2>3, FS_EmptySet
  <2>5. TemplatesOf({}) = {}
    BY DEF TemplatesOf
  <2>6. OnePerSoFar(S, selected, {}, acc)
    BY <2>2, <2>4, <2>5 DEF OnePerSoFar
  <2>7. Passed(0) = {}
    OBVIOUS
  <2>8. 0 \in 0..n /\ h[0] = acc
    BY <1>3, <2>1
  <2> HIDE DEF Passed
  <2>9. QED
    BY <2>6, <2>7, <2>8
<1>5. ASSUME NEW k \in 0..n, k # n, k \in K PROVE k + 1 \in K
  <2>1. k + 1 \in 1..n /\ k + 1 \in 0..n /\ (k + 1) - 1 = k /\ 1..k + 1 = (1..k) \cup {k + 1}
    BY <1>2, <1>5
  <2>2. Passed(k + 1) = Passed(k) \cup {q[k + 1]} /\ Passed(k) \in SUBSET S /\ q[k + 1] \in S
    BY <1>2, <2>1
  <2>3. h[k + 1] = NextTemplate(h[k], q[k + 1]) /\ OnePerSoFar(S, selected, Passed(k), h[k])
    BY <1>3, <1>5, <2>1
  <2> HIDE DEF Passed
  <2>4. OnePerSoFar(S, selected, Passed(k + 1), h[k + 1])
    BY <2>2, <2>3, NextTemplateKeeps
  <2>5. QED
    BY <2>1, <2>4
<1> HIDE DEF K
<1>6. n \in K
  <2>1. 0..n \subseteq K
    BY <1>4, <1>5, InductionUpTo
  <2>2. QED
    BY <2>1
<1>7. Passed(n) = S
  BY <1>1, <1>2 DEF ToSet
<1> HIDE DEF Passed
<1>8. QED
  BY <1>3, <1>6, <1>7 DEF K

\* What holds after some traces of S in the second loop: as long as there is
\* room none of them is left out.
FilledSoFar(S, selected, done, rows) ==
  /\ rows \in Seq(S)
  /\ IsInjective(rows)
  /\ ToSet(selected) \subseteq ToSet(rows)
  /\ Len(rows) <= SuiteSize \/ rows = selected
  /\ Len(rows) >= SuiteSize \/ done \subseteq ToSet(rows)

\* One turn of it.
LEMMA NextAnyKeeps ==
  ASSUME NEW S, NEW selected \in Seq(S), NEW done \in SUBSET S,
         NEW rows, FilledSoFar(S, selected, done, rows), NEW t \in S
  PROVE  FilledSoFar(S, selected, done \cup {t}, NextAny(rows, t))
<1>1. /\ rows \in Seq(S) /\ IsInjective(rows) /\ ToSet(selected) \subseteq ToSet(rows)
      /\ Len(rows) <= SuiteSize \/ rows = selected
      /\ Len(rows) >= SuiteSize \/ done \subseteq ToSet(rows)
  BY DEF FilledSoFar
<1>2. PICK n \in Nat : n = Len(rows)
  BY <1>1
<1>3. SuiteSize \in Nat
  BY MonitorAssumption
<1>4. Contains(rows, t) <=> t \in ToSet(rows)
  BY <1>1, AppendNew
<1>5. CASE n >= SuiteSize \/ t \in ToSet(rows)
  <2>1. NextAny(rows, t) = rows
    BY <1>2, <1>4, <1>5 DEF NextAny
  <2>2. Len(rows) >= SuiteSize \/ done \cup {t} \subseteq ToSet(rows)
    BY <1>1, <1>2, <1>5
  <2>3. QED
    BY <1>1, <2>1, <2>2 DEF FilledSoFar
<1>6. CASE ~(n >= SuiteSize \/ t \in ToSet(rows))
  <2>1. PICK more : more = Append(rows, t) /\ NextAny(rows, t) = more
    BY <1>2, <1>4, <1>6 DEF NextAny
  <2>2. /\ more \in Seq(S) /\ IsInjective(more) /\ ToSet(more) = ToSet(rows) \cup {t}
    BY <1>1, <1>6, <2>1, AppendNew
  <2>3. Len(more) = n + 1
    BY <1>1, <1>2, <2>1
  <2>4. n + 1 <= SuiteSize
    BY <1>3, <1>6
  <2>5. Len(more) <= SuiteSize
    BY <2>3, <2>4
  <2>6. ToSet(selected) \subseteq ToSet(more) /\ done \cup {t} \subseteq ToSet(more)
    BY <1>1, <1>2, <1>6, <2>2
  <2>7. QED
    BY <2>1, <2>2, <2>5, <2>6 DEF FilledSoFar
<1>7. QED
  BY <1>5, <1>6

\* FillUp: the invariant holds of all traces in the end.
LEMMA FilledUp ==
  ASSUME NEW S \in SUBSET Traces, IsFiniteSet(S), NEW selected \in Seq(S), IsInjective(selected)
  PROVE  FilledSoFar(S, selected, S, FillUp(selected, S))
<1>1. PICK q \in Seq(S) : q = ById(S) /\ ToSet(q) = S
  BY OrdersEnumerate DEF Enumerates
<1>2. PICK n \in Nat : n = Len(q) /\ DOMAIN q = 1..n
  OBVIOUS
<1>3. PICK h \in [0..n -> Seq(S)] :
        /\ h[0] = selected
        /\ \A k \in 1..n : h[k] = NextAny(h[k - 1], q[k])
        /\ FillUp(selected, S) = h[n]
  <2>1. \E h \in [0..Len(q) -> Seq(S)] :
           /\ h[0] = selected
           /\ \A k \in 1..Len(q) : h[k] = NextAny(h[k - 1], q[k])
           /\ FillUp(selected, S) = h[Len(q)]
    BY ONLY <1>1, selected \in Seq(S), FillUpRun
  <2>2. QED
    BY <1>2, <2>1
<1> DEFINE Passed(k) == {q[i] : i \in 1..k}
           K == {k \in 0..n : FilledSoFar(S, selected, Passed(k), h[k])}
<1>4. 0 \in K
  <2>1. FilledSoFar(S, selected, {}, selected)
    BY DEF FilledSoFar
  <2>2. Passed(0) = {}
    OBVIOUS
  <2>3. 0 \in 0..n /\ h[0] = selected
    BY <1>3
  <2> HIDE DEF Passed
  <2>4. QED
    BY <2>1, <2>2, <2>3
<1>5. ASSUME NEW k \in 0..n, k # n, k \in K PROVE k + 1 \in K
  <2>1. k + 1 \in 1..n /\ k + 1 \in 0..n /\ (k + 1) - 1 = k /\ 1..k + 1 = (1..k) \cup {k + 1}
    BY <1>2, <1>5
  <2>2. Passed(k + 1) = Passed(k) \cup {q[k + 1]} /\ Passed(k) \in SUBSET S /\ q[k + 1] \in S
    BY <1>2, <2>1
  <2>3. h[k + 1] = NextAny(h[k], q[k + 1]) /\ FilledSoFar(S, selected, Passed(k), h[k])
    BY <1>3, <1>5, <2>1
  <2> HIDE DEF Passed
  <2>4. FilledSoFar(S, selected, Passed(k + 1), h[k + 1])
    <3>1. PICK done \in SUBSET S : done = Passed(k)
      BY <2>2
    <3>2. PICK t \in S : t = q[k + 1]
      BY <2>2
    <3>3. FilledSoFar(S, selected, done, h[k])
      BY <2>3, <3>1
    <3>4. FilledSoFar(S, selected, done \cup {t}, NextAny(h[k], t))
      BY <3>3, NextAnyKeeps
    <3>5. QED
      BY <2>2, <2>3, <3>1, <3>2, <3>4
  <2>5. QED
    BY <2>1, <2>4
<1> HIDE DEF K
<1>6. n \in K
  <2>1. 0..n \subseteq K
    BY <1>4, <1>5, InductionUpTo
  <2>2. QED
    BY <2>1
<1>7. Passed(n) = S
  BY <1>1, <1>2 DEF ToSet
<1> HIDE DEF Passed
<1>8. QED
  BY <1>3, <1>6, <1>7 DEF K

\* Monitor's SuiteOf, for a sample and its failing traces.
IsSuite(S, F, rows) ==
  /\ F \subseteq rows
  /\ rows \subseteq S
  /\ Cardinality(rows) = Max({Cardinality(F), Min({SuiteSize, Cardinality(S)})})
  /\ SuiteSize >= Cardinality(F) + Cardinality(TemplatesOf(S)) =>
       TemplatesOf(S) = TemplatesOf(rows)

\* _select_suite: the failing traces are in it, it has the configured size when
\* the sample and the failing traces allow it, and no template is missing while
\* there is room for one of each (monitor.py:310-338).
THEOREM SuiteIsChosen ==
  ASSUME NEW S \in SUBSET Traces, IsFiniteSet(S), NEW F \in SUBSET S
  PROVE  LET rows == SelectSuite(S, F)
         IN rows \in Seq(S) /\ IsInjective(rows) /\ IsSuite(S, F, ToSet(rows))
<1>1. IsFiniteSet(F) /\ F \in SUBSET Traces /\ F \cap S = F
  BY FS_Subset
<1>2. PICK first : first = ById(F)
  OBVIOUS
<1>3. /\ first \in Seq(S) /\ IsInjective(first) /\ ToSet(first) = F
      /\ Len(first) = Cardinality(F) /\ Len(first) \in Nat
  <2>1. Enumerates(first, F)
    BY <1>1, <1>2, OrdersEnumerate
  <2>2. first \in Seq(F)
    BY <2>1 DEF Enumerates
  <2>3. first \in Seq(S) /\ Len(first) \in Nat
    BY <2>2
  <2>4. QED
    BY <2>1, <2>3 DEF Enumerates
<1>4. PICK acc : OnePerSoFar(S, first, S, acc) /\ OnePerTemplate(first, S) = acc.rows
  BY <1>3, TemplatesTaken
<1>5. PICK mid \in Seq(S) : mid = acc.rows
  BY <1>4 DEF OnePerSoFar
<1>6. PICK rows : rows = SelectSuite(S, F) /\ rows = FillUp(mid, S)
  BY <1>1, <1>2, <1>4, <1>5 DEF SelectSuite
<1>7. IsInjective(mid) /\ ToSet(first) \subseteq ToSet(mid)
      /\ (Len(mid) <= SuiteSize \/ mid = first)
      /\ (SuiteSize >= Len(first) + Cardinality(TemplatesOf(S)) =>
            TemplatesOf(S) \subseteq TemplatesOf(ToSet(mid)))
  BY <1>4, <1>5 DEF OnePerSoFar
<1>8. FilledSoFar(S, mid, S, rows)
  BY <1>6, <1>7, FilledUp
<1>9. /\ rows \in Seq(S) /\ IsInjective(rows) /\ ToSet(mid) \subseteq ToSet(rows)
      /\ Len(rows) <= SuiteSize \/ rows = mid
      /\ Len(rows) >= SuiteSize \/ S \subseteq ToSet(rows)
  BY <1>8 DEF FilledSoFar
<1>10. PICK R : R = ToSet(rows)
  OBVIOUS
<1>11. F \subseteq R /\ R \in SUBSET S
  BY <1>3, <1>7, <1>9, <1>10, FinitelyMany
<1>12. PICK f \in Nat : f = Cardinality(F) /\ f = Len(first)
  BY <1>3
<1>13. PICK c \in Nat : c = Cardinality(S)
  BY FS_CardinalityType
<1>14. PICK n \in Nat : n = Cardinality(R) /\ n = Len(rows)
  BY <1>9, <1>10, LengthIsSize
<1>15. SuiteSize \in Nat
  BY MonitorAssumption
<1>16. n <= SuiteSize \/ n = f
  <2>1. CASE Len(rows) <= SuiteSize
    BY <1>14, <2>1
  <2>2. CASE rows = mid /\ ~(Len(mid) <= SuiteSize)
    BY <1>7, <1>12, <1>14, <2>2
  <2>3. QED
    BY <1>9, <2>1, <2>2
<1>17. n >= SuiteSize \/ n = c
  <2>1. CASE Len(rows) >= SuiteSize
    BY <1>14, <2>1
  <2>2. CASE S \subseteq ToSet(rows)
    <3>1. R = S
      BY <1>10, <1>11, <2>2
    <3>2. QED
      BY <1>13, <1>14, <3>1
  <2>3. QED
    BY <1>9, <2>1, <2>2
<1>18. f <= n /\ n <= c
  <2>1. IsFiniteSet(R) /\ Cardinality(R) <= Cardinality(S)
    BY <1>11, FS_Subset
  <2>2. Cardinality(F) <= Cardinality(R)
    BY <1>11, <2>1, FS_Subset
  <2>3. QED
    BY <1>12, <1>13, <1>14, <2>1, <2>2
<1>19. n = Max({f, Min({SuiteSize, c})})
  <2>1. PICK m \in Nat : m = Min({SuiteSize, c}) /\ m = IF SuiteSize <= c THEN SuiteSize ELSE c
    <3>1. SuiteSize \in Int /\ c \in Int
      BY <1>15
    <3>2. Min({SuiteSize, c}) = IF SuiteSize <= c THEN SuiteSize ELSE c
      BY <3>1, OfTwo
    <3>3. QED
      BY <1>15, <3>2
  <2>2. Max({f, m}) = IF f >= m THEN f ELSE m
    <3>1. f \in Int /\ m \in Int
      OBVIOUS
    <3>2. QED
      BY <3>1, OfTwo
  <2>3. n = IF f >= m THEN f ELSE m
    BY <1>15, <1>16, <1>17, <1>18, <2>1
  <2>4. QED
    BY <2>1, <2>2, <2>3
<1>20. SuiteSize >= Cardinality(F) + Cardinality(TemplatesOf(S)) => TemplatesOf(S) = TemplatesOf(R)
  <2>1. SUFFICES ASSUME SuiteSize >= Cardinality(F) + Cardinality(TemplatesOf(S))
                 PROVE  TemplatesOf(S) = TemplatesOf(R)
    OBVIOUS
  <2>2. TemplatesOf(S) \subseteq TemplatesOf(ToSet(mid))
    BY <1>3, <1>7, <2>1
  <2>3. TemplatesOf(ToSet(mid)) \subseteq TemplatesOf(R) /\ TemplatesOf(R) \subseteq TemplatesOf(S)
    BY <1>9, <1>10, <1>11 DEF TemplatesOf
  <2>4. QED
    BY <2>2, <2>3
<1>21. Cardinality(R) = Max({Cardinality(F), Min({SuiteSize, Cardinality(S)})})
  BY <1>12, <1>13, <1>14, <1>19
<1>22. IsSuite(S, F, R)
  BY <1>11, <1>20, <1>21 DEF IsSuite
<1>23. QED
  BY <1>6, <1>9, <1>10, <1>22

-----------------------------------------------------------------------------
(* The monitor. *)

\* Sequences of traces without repetitions.
Rows == {q \in Seq(Traces) : IsInjective(q)}

Suites == [file : {"absent", "torn", "whole"}, run : Runs \cup {None}, rows : Rows]

Dirs == [stage : {"absent", "answered", "certified"}, sample : SUBSET Traces,
         answered : SUBSET Traces, failing : SUBSET Traces]

Inits == [pc : {"idle", "suite", "golden"}, run : Runs \cup {None}, rows : Rows,
          matched : BOOLEAN]

Watches == [pc : {"idle", "manifest", "replay", "report"}, run : Runs \cup {None},
            suite : Suites, calm : BOOLEAN,
            exit : {None, "quiet", "drift", "retired", "error"}]

\* A run directory has a finite sample once it is there, which holds its failing
\* traces.
Sampled(dir) ==
  /\ IsFiniteSet(dir.sample) /\ dir.failing \subseteq dir.sample
  /\ dir.stage = "absent" => dir.sample = {}

\* The types of the monitor's files and processes.
MonitorShape ==
  /\ dirs \in [Runs -> Dirs]
  /\ \A r \in Runs : Sampled(dirs[r])
  /\ golden \in Suites
  /\ manifest \in [file : {"absent", "torn", "whole"}, run : Runs \cup {None}]
  /\ init \in Inits
  /\ init.pc # "idle" => init.run \in Runs
  /\ table \in [Traces -> Answers \cup {NoRow, ErrorRow}]
  /\ watch \in Watches
  /\ inits \in 0..MaxInits
  /\ watches \in 0..MaxWatches

\* What the directories d promise of a suite of r: an empty choice, of a
\* directory without a sample, or what a suite must be.
Promised(d, r, rows) ==
  \/ rows = <<>>
  \/ r \in Runs /\ d[r].stage # "absent" /\ IsSuite(d[r].sample, d[r].failing, ToSet(rows))

\* The suite of an init, of the file that it has written, and of a manifest
\* that belongs to the file, is what was promised of one and the same run; a
\* calm reader has the run of the file that it reads.
PairsInv ==
  /\ init.pc # "idle" => Promised(dirs, init.run, init.rows)
  /\ init.pc = "golden" =>
       golden.file = "whole" /\ golden.run = init.run /\ golden.rows = init.rows
  /\ init.matched =>
       /\ golden.file = "whole" /\ manifest.file = "whole"
       /\ golden.run = manifest.run /\ Promised(dirs, golden.run, golden.rows)
  /\ watch.pc = "manifest" /\ watch.calm =>
       golden.run = watch.run /\ Promised(dirs, golden.run, golden.rows)
  /\ (watch.pc \in {"replay", "report"} \/ watch.exit \in {"quiet", "drift"}) /\ watch.calm =>
       /\ watch.suite.rows # <<>>
       /\ watch.suite.run = watch.run /\ Promised(dirs, watch.run, watch.suite.rows)

\* A command that has ended is idle.
ExitInv == watch.exit # None => watch.pc = "idle"

\* Nothing is there when the monitor is first used.
LEMMA MonitorStarts == MonitorInit => MonitorShape /\ PairsInv /\ ExitInv
<1> SUFFICES ASSUME MonitorInit PROVE MonitorShape /\ PairsInv /\ ExitInv
  OBVIOUS
<1>1. <<>> \in Rows
  BY DEF Rows, IsInjective
<1>2. NoDir \in Dirs /\ Sampled(NoDir)
  BY FS_EmptySet DEF NoDir, Dirs, Sampled
<1>3. NoSuite \in Suites /\ Resting \in Inits
  BY <1>1 DEF NoSuite, Suites, Resting, Inits
<1>4. Asleep \in Watches
  BY <1>3 DEF Asleep, Watches
<1>5. MaxInits \in Nat /\ MaxWatches \in Nat
  BY MonitorAssumption
<1>6. init.pc = "idle" /\ ~init.matched
  BY DEF MonitorInit, Resting
<1>7. watch.pc = "idle" /\ watch.exit = None /\ ~watch.calm
  BY DEF MonitorInit, Asleep
<1>8. MonitorShape
  <2>1. dirs \in [Runs -> Dirs]
        /\ \A r \in Runs : Sampled(dirs[r])
    BY <1>2, FS_EmptySet DEF MonitorInit
  <2>2. manifest \in [file : {"absent", "torn", "whole"}, run : Runs \cup {None}]
    BY DEF MonitorInit, NoManifest
  <2>3. table \in [Traces -> Answers \cup {NoRow, ErrorRow}]
    BY DEF MonitorInit
  <2>4. QED
    BY <1>3, <1>4, <1>5, <1>6, <2>1, <2>2, <2>3 DEF MonitorInit, MonitorShape
<1>9. PairsInv
  BY <1>6, <1>7 DEF PairsInv, None
<1>10. ExitInv
  BY <1>7 DEF ExitInv, None
<1>11. QED
  BY <1>8, <1>9, <1>10

\* Part of a suite is a sequence without repetitions too.
LEMMA PartOfRows ==
  ASSUME NEW rows \in Rows, NEW n \in 0..Len(rows)
  PROVE  SubSeq(rows, 1, n) \in Rows
<1>1. rows \in Seq(Traces) /\ IsInjective(rows) /\ Len(rows) \in Nat
  BY DEF Rows
<1>2. PICK part : part = SubSeq(rows, 1, n)
  OBVIOUS
<1>3. part \in Seq(Traces) /\ DOMAIN part = 1..n /\ \A i \in 1..n : part[i] = rows[i]
  BY <1>1, <1>2
<1>4. DOMAIN rows = 1..Len(rows)
  BY <1>1
<1>5. IsInjective(part)
  BY <1>1, <1>3, <1>4 DEF IsInjective
<1>6. QED
  BY <1>2, <1>3, <1>5 DEF Rows

\* What `acsi monitor init` chooses from a run directory.
LEMMA ChosenSuite ==
  ASSUME MonitorShape, NEW r \in Runs
  PROVE  LET rows == SelectSuite(dirs[r].sample, dirs[r].failing)
         IN /\ rows \in Rows
            /\ IsSuite(dirs[r].sample, dirs[r].failing, ToSet(rows))
<1>1. PICK S \in SUBSET Traces : S = dirs[r].sample /\ IsFiniteSet(S)
  BY DEF MonitorShape, Dirs, Sampled
<1>2. PICK F \in SUBSET S : F = dirs[r].failing
  BY <1>1 DEF MonitorShape, Sampled
<1>3. PICK rows : rows = SelectSuite(S, F)
  OBVIOUS
<1>4. rows \in Seq(S) /\ IsInjective(rows) /\ IsSuite(S, F, ToSet(rows))
  BY <1>1, <1>3, SuiteIsChosen
<1>5. rows \in Seq(Traces)
  BY <1>4
<1>6. QED
  BY <1>1, <1>2, <1>3, <1>4, <1>5 DEF Rows

\* A reader that is disturbed keeps its types.
LEMMA DisturbedShape ==
  ASSUME MonitorShape, Disturb
  PROVE  /\ watch' \in Watches
         /\ watch'.pc = watch.pc /\ watch'.run = watch.run /\ watch'.suite = watch.suite
         /\ watch'.exit = watch.exit
         /\ watch.pc = "manifest" => ~watch'.calm
         /\ watch.pc # "manifest" => watch'.calm = watch.calm
<1>1. watch \in Watches
  BY DEF MonitorShape
<1>2. QED
  BY <1>1 DEF Disturb, Watches

\* What a replay may leave in the table.
LEMMA ReplayedShape ==
  ASSUME MonitorShape, table' \in Replayed
  PROVE  table' \in [Traces -> Answers \cup {NoRow, ErrorRow}]
<1> DEFINE asked == {t \in Suite : table[t].row # "done"}
<1>1. PICK got \in [asked -> Answers \cup {NoRow, ErrorRow}] :
        table' = [t \in Traces |-> IF t \in asked /\ got[t] # NoRow THEN got[t] ELSE table[t]]
  BY DEF Replayed
<1>2. table \in [Traces -> Answers \cup {NoRow, ErrorRow}]
  BY DEF MonitorShape
<1> HIDE DEF asked
<1>3. QED
  BY <1>1, <1>2

\* A step of the two commands, or of a run, keeps the types.
LEMMA ShapeStep ==
  ASSUME MonitorShape, NEW S \in SUBSET Traces, IsFiniteSet(S),
         MonitorStep \/ \E r \in Runs : AnswerRun(r, S)
  PROVE  MonitorShape'
<1>0. /\ dirs \in [Runs -> Dirs] /\ init \in Inits /\ watch \in Watches /\ golden \in Suites
      /\ \A r \in Runs : Sampled(dirs[r])
      /\ manifest \in [file : {"absent", "torn", "whole"}, run : Runs \cup {None}]
      /\ init.pc # "idle" => init.run \in Runs
      /\ table \in [Traces -> Answers \cup {NoRow, ErrorRow}]
      /\ inits \in 0..MaxInits /\ watches \in 0..MaxWatches
  BY DEF MonitorShape
<1>a. MaxInits \in Nat /\ MaxWatches \in Nat
  BY MonitorAssumption
<1>b. <<>> \in Rows
  BY DEF Rows, IsInjective
<1>c. /\ Resting \in Inits /\ Resting.pc = "idle" /\ NoSuite \in Suites
      /\ [Resting EXCEPT !.matched = TRUE] \in Inits
      /\ [Resting EXCEPT !.matched = TRUE].pc = "idle"
  BY <1>b DEF Resting, Inits, NoSuite, Suites
<1>d. Asleep \in Watches /\ [Asleep EXCEPT !.exit = "error"] \in Watches
  BY <1>c DEF Asleep, Watches
<1>e. ASSUME NEW exit \in {"quiet", "drift", "retired", "error"} PROVE Ended(exit) \in Watches
  BY <1>0 DEF Ended, Watches
<1>1. ASSUME NEW r \in Runs, AnswerRun(r, S) PROVE MonitorShape'
  <2>1. PICK answered \in {S} \cup {S \ {t} : t \in Losable} :
          \E failing \in SUBSET (answered \cap Failable) :
            dirs' = [dirs EXCEPT ![r] = [stage |-> "answered", sample |-> S,
                                         answered |-> answered, failing |-> failing]]
    BY <1>1 DEF AnswerRun
  <2>a. PICK failing \in SUBSET (answered \cap Failable) :
          dirs' = [dirs EXCEPT ![r] = [stage |-> "answered", sample |-> S,
                                       answered |-> answered, failing |-> failing]]
    BY <2>1
  <2>2. answered \in SUBSET S /\ failing \in SUBSET S
    BY <2>1, <2>a
  <2>3. [stage |-> "answered", sample |-> S, answered |-> answered, failing |-> failing] \in Dirs
    BY <2>2 DEF Dirs
  <2>4. dirs' \in [Runs -> Dirs]
    BY <1>0, <2>a, <2>3
  <2>5. \A s \in Runs : Sampled(dirs'[s])
    BY <1>0, <2>a, <2>2 DEF Sampled
  <2>6. UNCHANGED <<golden, manifest, init, inits, table, watch, watches>>
    BY <1>1 DEF AnswerRun, fileVars, watchVars
  <2>7. QED
    BY <1>0, <2>4, <2>5, <2>6 DEF MonitorShape
<1>2. ASSUME NEW r \in Runs, CertifyRun(r) PROVE MonitorShape'
  <2>1. dirs' = [dirs EXCEPT ![r].stage = "certified"]
        /\ UNCHANGED <<golden, manifest, init, inits, table, watch, watches>>
    BY <1>2 DEF CertifyRun, fileVars, watchVars
  <2>2. dirs' \in [Runs -> Dirs]
    BY <1>0, <2>1 DEF Dirs
  <2>3. \A s \in Runs : Sampled(dirs'[s])
    BY <1>0, <2>1 DEF Dirs, Sampled
  <2>4. QED
    BY <1>0, <2>1, <2>2, <2>3 DEF MonitorShape
<1>3. ASSUME NEW r \in Runs, ChooseSuite(r) PROVE MonitorShape'
  <2>1. PICK rows \in Rows : rows = SelectSuite(dirs[r].sample, dirs[r].failing)
    BY ChosenSuite
  <2>2. init' = [init EXCEPT !.pc = "suite", !.run = r, !.rows = rows] \/ init' = init
    BY <1>3, <2>1 DEF ChooseSuite
  <2>3. init' \in Inits /\ (init'.pc # "idle" => init'.run \in Runs)
    BY <1>0, <2>2 DEF Inits
  <2>4. inits' \in 0..MaxInits
    BY <1>0, <1>3, <1>a DEF ChooseSuite
  <2>5. UNCHANGED <<dirs, golden, manifest, table, watch, watches>>
    BY <1>3 DEF ChooseSuite, fileVars, watchVars
  <2>6. QED
    BY <1>0, <2>3, <2>4, <2>5 DEF MonitorShape
<1>4. CASE WriteGolden
  <2>1. golden' \in Suites
    BY <1>0, <1>4 DEF WriteGolden, Suites, Inits
  <2>2. init' \in Inits /\ init'.run \in Runs
    BY <1>0, <1>4 DEF WriteGolden, Inits
  <2>3. watch' \in Watches
    BY <1>4, DisturbedShape DEF WriteGolden
  <2>4. UNCHANGED <<dirs, manifest, inits, table, watches>>
    BY <1>4 DEF WriteGolden
  <2>5. QED
    BY <1>0, <2>1, <2>2, <2>3, <2>4 DEF MonitorShape
<1>5. CASE WriteManifest
  <2>1. manifest' \in [file : {"absent", "torn", "whole"}, run : Runs \cup {None}]
    BY <1>0, <1>5 DEF WriteManifest
  <2>2. init' \in Inits /\ init'.pc = "idle"
    BY <1>5, <1>c DEF WriteManifest
  <2>3. UNCHANGED <<dirs, golden, inits, table, watch, watches>>
    BY <1>5 DEF WriteManifest, watchVars
  <2>4. QED
    BY <1>0, <2>1, <2>2, <2>3 DEF MonitorShape
<1>6. CASE NoCertificate
  <2>1. init' \in Inits /\ init'.pc = "idle"
    BY <1>6, <1>c DEF NoCertificate
  <2>2. UNCHANGED <<dirs, golden, manifest, inits, table, watch, watches>>
    BY <1>6 DEF NoCertificate, fileVars, watchVars
  <2>3. QED
    BY <1>0, <2>1, <2>2 DEF MonitorShape
<1>7. CASE InitDies
  <2>1. init' \in Inits /\ init'.pc = "idle"
    <3>1. init' \in {Resting, [Resting EXCEPT !.matched = init.matched]}
      BY <1>7 DEF InitDies
    <3>2. [Resting EXCEPT !.matched = init.matched] \in Inits
          /\ [Resting EXCEPT !.matched = init.matched].pc = "idle"
      BY <1>0, <1>b DEF Resting, Inits
    <3>3. QED
      BY <1>c, <3>1, <3>2
  <2>2. manifest' \in [file : {"absent", "torn", "whole"}, run : Runs \cup {None}]
    <3>1. manifest' \in {manifest, [file |-> "torn", run |-> None]}
      BY <1>7 DEF InitDies
    <3>2. QED
      BY <1>0, <3>1
  <2>3. watch' \in Watches
    <3>1. watch' = watch \/ Disturb
      BY <1>7 DEF InitDies
    <3>2. QED
      BY <1>0, <3>1, DisturbedShape
  <2>4. golden' \in Suites
    <3>1. \/ golden' = golden
          \/ golden' = [NoSuite EXCEPT !.file = "torn"]
          \/ /\ init.pc = "suite"
             /\ \E n \in 0..Len(init.rows) :
                  golden' = [file |-> "whole", run |-> init.run, rows |-> SubSeq(init.rows, 1, n)]
      BY <1>7 DEF InitDies
    <3>2. [NoSuite EXCEPT !.file = "torn"] \in Suites
      BY <1>b DEF NoSuite, Suites
    <3>3. ASSUME init.pc = "suite", NEW n \in 0..Len(init.rows)
          PROVE  [file |-> "whole", run |-> init.run, rows |-> SubSeq(init.rows, 1, n)] \in Suites
      <4>1. init.rows \in Rows /\ init.run \in Runs
        BY <1>0, <3>3 DEF Inits
      <4>2. SubSeq(init.rows, 1, n) \in Rows
        BY <4>1, PartOfRows
      <4>3. QED
        BY <4>1, <4>2 DEF Suites
    <3>4. QED
      BY <1>0, <3>1, <3>2, <3>3
  <2>5. UNCHANGED <<dirs, inits, table, watches>>
    BY <1>7 DEF InitDies
  <2>6. QED
    BY <1>0, <2>1, <2>2, <2>3, <2>4, <2>5 DEF MonitorShape
<1>8. CASE StartWatch
  <2>1. /\ watch' \in {[Asleep EXCEPT !.exit = "error"],
                       [Asleep EXCEPT !.pc = "manifest", !.run = manifest.run, !.calm = init.matched]}
        /\ table' \in {table, [t \in Traces |-> NoRow]}
    BY <1>8 DEF StartWatch
  <2>2. [Asleep EXCEPT !.pc = "manifest", !.run = manifest.run, !.calm = init.matched] \in Watches
    BY <1>0, <1>c DEF Asleep, Watches, Inits
  <2>3. table' \in [Traces -> Answers \cup {NoRow, ErrorRow}]
    BY <1>0, <2>1
  <2>4. watches' \in 0..MaxWatches
    BY <1>0, <1>8, <1>a DEF StartWatch
  <2>5. UNCHANGED <<dirs, golden, manifest, init, inits>>
    BY <1>8 DEF StartWatch, fileVars
  <2>6. QED
    BY <1>0, <1>d, <2>1, <2>2, <2>3, <2>4, <2>5 DEF MonitorShape
<1>9. CASE ReadGolden
  <2>1. watch' \in {[watch EXCEPT !.pc = "replay", !.suite = golden], [Asleep EXCEPT !.exit = "error"]}
    BY <1>9 DEF ReadGolden
  <2>2. [watch EXCEPT !.pc = "replay", !.suite = golden] \in Watches
    BY <1>0 DEF Watches
  <2>3. UNCHANGED <<dirs, golden, manifest, init, inits, table, watches>>
    BY <1>9 DEF ReadGolden, fileVars
  <2>4. QED
    BY <1>0, <1>d, <2>1, <2>2, <2>3 DEF MonitorShape
<1>10. CASE ReplayReturns
  <2>1. table' \in [Traces -> Answers \cup {NoRow, ErrorRow}]
    BY <1>10, ReplayedShape DEF ReplayReturns
  <2>2. watch' = [watch EXCEPT !.pc = "report"]
    BY <1>10 DEF ReplayReturns
  <2>3. watch' \in Watches
    BY <1>0, <2>2 DEF Watches
  <2>4. UNCHANGED <<dirs, golden, manifest, init, inits, watches>>
    BY <1>10 DEF ReplayReturns, fileVars
  <2>5. QED
    BY <1>0, <2>1, <2>3, <2>4 DEF MonitorShape
<1>11. CASE ReplayStops
  <2>1. table' \in [Traces -> Answers \cup {NoRow, ErrorRow}]
    BY <1>11, ReplayedShape DEF ReplayStops
  <2>2. watch' \in Watches
    BY <1>11, <1>e DEF ReplayStops
  <2>3. UNCHANGED <<dirs, golden, manifest, init, inits, watches>>
    BY <1>11 DEF ReplayStops, fileVars
  <2>4. QED
    BY <1>0, <2>1, <2>2, <2>3 DEF MonitorShape
<1>12. CASE Report
  <2>1. watch' \in Watches
    BY <1>12, <1>e DEF Report
  <2>2. UNCHANGED <<dirs, golden, manifest, init, inits, table, watches>>
    BY <1>12 DEF Report, fileVars
  <2>3. QED
    BY <1>0, <2>1, <2>2 DEF MonitorShape
<1>13. QED
  BY <1>1, <1>2, <1>3, <1>4, <1>5, <1>6, <1>7, <1>8, <1>9, <1>10, <1>11, <1>12 DEF MonitorStep

\* A run directory that has a sample keeps it, and what was promised of it.
LEMMA PromisesKept ==
  ASSUME MonitorShape, NEW S, MonitorStep \/ \E r \in Runs : AnswerRun(r, S)
  PROVE  \A r, rows : Promised(dirs, r, rows) => Promised(dirs', r, rows)
<1>1. \A s \in Runs : dirs[s].stage # "absent" =>
        /\ dirs'[s].stage # "absent" /\ dirs'[s].sample = dirs[s].sample
        /\ dirs'[s].failing = dirs[s].failing
  <2>0. dirs \in [Runs -> Dirs]
    BY DEF MonitorShape
  <2>1. ASSUME NEW r \in Runs, AnswerRun(r, S), NEW s \in Runs, dirs[s].stage # "absent"
        PROVE  dirs'[s] = dirs[s]
    <3>1. s # r
      BY <2>1 DEF AnswerRun
    <3>2. \E dir : dirs' = [dirs EXCEPT ![r] = dir]
      BY <2>1 DEF AnswerRun
    <3>3. QED
      BY <2>0, <3>1, <3>2
  <2>2. ASSUME NEW r \in Runs, CertifyRun(r), NEW s \in Runs
        PROVE  /\ dirs'[s].sample = dirs[s].sample /\ dirs'[s].failing = dirs[s].failing
               /\ dirs'[s].stage \in {dirs[s].stage, "certified"}
    <3>1. dirs' = [dirs EXCEPT ![r].stage = "certified"]
      BY <2>2 DEF CertifyRun
    <3>2. QED
      BY <2>0, <3>1 DEF Dirs
  <2>3. CASE \E r \in Runs : AnswerRun(r, S)
    BY <2>1, <2>3
  <2>4. CASE \E r \in Runs : CertifyRun(r)
    BY <2>2, <2>4
  <2>5. CASE dirs' = dirs
    BY <2>5
  <2>6. QED
    BY <2>3, <2>4, <2>5 DEF MonitorStep, ChooseSuite, WriteGolden, WriteManifest, NoCertificate,
       InitDies, StartWatch, ReadGolden, ReplayReturns, ReplayStops, Report
<1>2. QED
  BY <1>1 DEF Promised

\* A step keeps the suites and their runs together.
LEMMA PairsStep ==
  ASSUME MonitorShape, PairsInv, NEW S, MonitorStep \/ \E r \in Runs : AnswerRun(r, S),
         watch.exit # None => watch.pc = "idle"
  PROVE  PairsInv'
<1>0. /\ init \in Inits /\ watch \in Watches /\ golden \in Suites
      /\ init.pc # "idle" => init.run \in Runs
  BY DEF MonitorShape
<1>a. \A r, rows : Promised(dirs, r, rows) => Promised(dirs', r, rows)
  BY PromisesKept
<1> DEFINE Judged == watch.pc \in {"replay", "report"} \/ watch.exit \in {"quiet", "drift"}
<1>b. /\ init.pc # "idle" => Promised(dirs, init.run, init.rows)
      /\ init.pc = "golden" =>
           golden.file = "whole" /\ golden.run = init.run /\ golden.rows = init.rows
      /\ init.matched =>
           /\ golden.file = "whole" /\ manifest.file = "whole"
           /\ golden.run = manifest.run /\ Promised(dirs, golden.run, golden.rows)
      /\ watch.pc = "manifest" /\ watch.calm =>
           golden.run = watch.run /\ Promised(dirs, golden.run, golden.rows)
      /\ Judged /\ watch.calm =>
           /\ watch.suite.rows # <<>>
           /\ watch.suite.run = watch.run /\ Promised(dirs, watch.run, watch.suite.rows)
  BY DEF PairsInv
<1>c. Resting.pc = "idle" /\ Resting.matched = FALSE
      /\ \A m : [Resting EXCEPT !.matched = m].pc = "idle" /\ [Resting EXCEPT !.matched = m].matched = m
  BY DEF Resting
<1>d. ASSUME UNCHANGED <<golden, manifest, init, watch>> PROVE PairsInv'
  BY <1>a, <1>b, <1>d DEF PairsInv
<1>1. CASE \E r \in Runs : AnswerRun(r, S) \/ CertifyRun(r)
  BY <1>1, <1>d DEF AnswerRun, CertifyRun, fileVars, watchVars
<1>2. ASSUME NEW r \in Runs, ChooseSuite(r) PROVE PairsInv'
  <2>1. PICK rows \in Rows :
          /\ rows = SelectSuite(dirs[r].sample, dirs[r].failing)
          /\ IsSuite(dirs[r].sample, dirs[r].failing, ToSet(rows))
    BY ChosenSuite
  <2>2. Promised(dirs, r, rows)
    <3>1. ASSUME dirs[r].stage = "absent" PROVE rows = <<>>
      <4>1. ToSet(rows) \subseteq dirs[r].sample
        BY <2>1 DEF IsSuite
      <4>2. dirs[r].sample = {}
        BY <3>1 DEF MonitorShape, Sampled
      <4>3. rows \in Seq(Traces) /\ ToSet(rows) = {}
        BY <4>1, <4>2 DEF Rows
      <4>4. \A i \in 1..Len(rows) : rows[i] \in ToSet(rows)
        BY <4>3 DEF ToSet
      <4>5. PICK n \in Nat : n = Len(rows)
        BY <4>3
      <4>6. n = 0
        BY <4>3, <4>4, <4>5
      <4>7. rows \in Seq(Traces) /\ Len(rows) = 0
        BY <4>3, <4>5, <4>6
      <4>8. QED
        BY ONLY <4>7
    <3>2. QED
      BY <2>1, <3>1 DEF Promised
  <2>3. \/ init' = init
        \/ /\ init'.pc = "suite" /\ init'.run = r /\ init'.rows = rows
           /\ init'.matched = init.matched
    BY <1>0, <1>2, <2>1 DEF ChooseSuite, Inits
  <2>4. UNCHANGED <<dirs, golden, manifest, watch>>
    BY <1>2 DEF ChooseSuite, fileVars, watchVars
  <2>5. QED
    BY <1>b, <2>2, <2>3, <2>4 DEF PairsInv
<1>3. CASE WriteGolden
  <2>1. /\ golden'.file = "whole" /\ golden'.run = init.run /\ golden'.rows = init.rows
        /\ init'.pc = "golden" /\ init'.matched = FALSE
        /\ init'.run = init.run /\ init'.rows = init.rows /\ init.pc = "suite"
    BY <1>0, <1>3 DEF WriteGolden, Inits
  <2>2. dirs' = dirs /\ manifest' = manifest
    BY <1>3 DEF WriteGolden
  <2>3. /\ watch'.pc = watch.pc /\ watch'.run = watch.run /\ watch'.suite = watch.suite
        /\ watch'.exit = watch.exit
        /\ watch.pc = "manifest" => ~watch'.calm
        /\ watch.pc # "manifest" => watch'.calm = watch.calm
    BY <1>3, DisturbedShape DEF WriteGolden
  <2>4. Judged => watch.pc # "manifest"
    BY DEF None
  <2>5. QED
    BY <1>b, <2>1, <2>2, <2>3, <2>4 DEF PairsInv
<1>4. CASE WriteManifest
  <2>1. /\ init.pc = "golden" /\ init'.pc = "idle" /\ init'.matched = TRUE
        /\ manifest'.file = "whole" /\ manifest'.run = init.run
    BY <1>4, <1>c DEF WriteManifest
  <2>2. UNCHANGED <<dirs, golden, watch>>
    BY <1>4 DEF WriteManifest, watchVars
  <2>3. QED
    BY <1>b, <2>1, <2>2 DEF PairsInv
<1>5. CASE NoCertificate
  <2>1. init'.pc = "idle" /\ init'.matched = FALSE
    BY <1>5, <1>c DEF NoCertificate
  <2>2. UNCHANGED <<dirs, golden, watch>>
    BY <1>5 DEF NoCertificate, fileVars, watchVars
  <2>3. QED
    BY <1>b, <2>1, <2>2 DEF PairsInv
<1>6. CASE InitDies
  <2>1. dirs' = dirs /\ init'.pc = "idle"
    BY <1>6, <1>c DEF InitDies
  <2>2. CASE UNCHANGED <<golden, manifest, watch>> /\ init'.matched = init.matched
    BY <1>b, <2>1, <2>2 DEF PairsInv
  <2>3. CASE init'.matched = FALSE /\ golden' = golden /\ watch' = watch
    BY <1>b, <2>1, <2>3 DEF PairsInv
  <2>4. CASE init'.matched = FALSE /\ Disturb
    <3>1. /\ watch'.pc = watch.pc /\ watch'.run = watch.run /\ watch'.suite = watch.suite
          /\ watch'.exit = watch.exit
          /\ watch.pc = "manifest" => ~watch'.calm
          /\ watch.pc # "manifest" => watch'.calm = watch.calm
      BY <2>4, DisturbedShape
    <3>2. Judged => watch.pc # "manifest"
      BY DEF None
    <3>3. QED
      BY <1>b, <2>1, <2>4, <3>1, <3>2 DEF PairsInv
  <2>5. QED
    BY <1>6, <1>c, <2>2, <2>3, <2>4 DEF InitDies
<1>7. CASE StartWatch
  <2>1. UNCHANGED <<dirs, golden, manifest, init>>
    BY <1>7 DEF StartWatch, fileVars
  <2>2. CASE watch' = [Asleep EXCEPT !.exit = "error"]
    <3>1. watch'.pc = "idle" /\ watch'.exit = "error"
      BY <2>2 DEF Asleep
    <3>2. QED
      BY <1>b, <2>1, <3>1 DEF PairsInv
  <2>3. CASE /\ manifest.file = "whole"
             /\ watch' = [Asleep EXCEPT !.pc = "manifest", !.run = manifest.run, !.calm = init.matched]
    <3>1. /\ watch'.pc = "manifest" /\ watch'.run = manifest.run /\ watch'.calm = init.matched
          /\ watch'.exit = None
      BY <2>3 DEF Asleep
    <3>2. QED
      BY <1>b, <2>1, <3>1 DEF PairsInv, None
  <2>4. QED
    BY <1>7, <2>2, <2>3 DEF StartWatch
<1>8. CASE ReadGolden
  <2>1. UNCHANGED <<dirs, golden, manifest, init>>
    BY <1>8 DEF ReadGolden, fileVars
  <2>2. CASE watch' = [Asleep EXCEPT !.exit = "error"]
    <3>1. watch'.pc = "idle" /\ watch'.exit = "error"
      BY <2>2 DEF Asleep
    <3>2. QED
      BY <1>b, <2>1, <3>1 DEF PairsInv
  <2>3. CASE golden.rows # <<>> /\ watch' = [watch EXCEPT !.pc = "replay", !.suite = golden]
    <3>1. /\ watch'.pc = "replay" /\ watch'.run = watch.run /\ watch'.calm = watch.calm
          /\ watch'.suite = golden /\ watch.pc = "manifest"
      BY <1>0, <1>8, <2>3 DEF ReadGolden, Watches
    <3>2. QED
      BY <1>b, <2>1, <2>3, <3>1 DEF PairsInv
  <2>4. QED
    BY <1>8, <2>2, <2>3 DEF ReadGolden
<1>9. CASE ReplayReturns \/ ReplayStops \/ Report
  <2>1. UNCHANGED <<dirs, golden, manifest, init>>
    BY <1>9 DEF ReplayReturns, ReplayStops, Report, fileVars
  <2>2. /\ watch.pc \in {"replay", "report"}
        /\ watch'.pc \in {"report", "idle"} /\ watch'.run = watch.run
        /\ watch'.suite = watch.suite /\ watch'.calm = watch.calm
    BY <1>0, <1>9 DEF ReplayReturns, ReplayStops, Report, Ended, Watches
  <2>3. QED
    BY <1>b, <2>1, <2>2 DEF PairsInv
<1>10. QED
  BY <1>1, <1>2, <1>3, <1>4, <1>5, <1>6, <1>7, <1>8, <1>9 DEF MonitorStep

\* A command ends as it exits, and has not exited before.
LEMMA ExitStep ==
  ASSUME MonitorShape, ExitInv, NEW S, MonitorStep \/ \E r \in Runs : AnswerRun(r, S)
  PROVE  ExitInv'
<1>0. watch \in Watches /\ (watch.exit # None => watch.pc = "idle")
  BY DEF MonitorShape, ExitInv
<1>1. ASSUME watch'.pc = watch.pc, watch'.exit = watch.exit PROVE ExitInv'
  BY <1>0, <1>1 DEF ExitInv
<1>2. ASSUME watch'.pc = "idle" \/ watch'.exit = None PROVE ExitInv'
  BY <1>2 DEF ExitInv
<1>3. CASE \E r \in Runs : AnswerRun(r, S) \/ CertifyRun(r) \/ ChooseSuite(r)
  BY <1>1, <1>3 DEF AnswerRun, CertifyRun, ChooseSuite, watchVars
<1>4. CASE WriteGolden
  BY <1>1, <1>4, DisturbedShape DEF WriteGolden
<1>5. CASE WriteManifest \/ NoCertificate
  BY <1>1, <1>5 DEF WriteManifest, NoCertificate, watchVars
<1>6. CASE InitDies
  <2>1. watch' = watch \/ Disturb
    BY <1>6 DEF InitDies
  <2>2. QED
    BY <1>1, <2>1, DisturbedShape
<1>7. CASE StartWatch
  <2>1. watch' \in {[Asleep EXCEPT !.exit = "error"],
                    [Asleep EXCEPT !.pc = "manifest", !.run = manifest.run, !.calm = init.matched]}
    BY <1>7 DEF StartWatch
  <2>2. watch'.pc = "idle" \/ watch'.exit = None
    BY <2>1 DEF Asleep
  <2>3. QED
    BY <1>2, <2>2
<1>8. CASE ReadGolden
  <2>1. watch'.pc = "idle" \/ watch'.exit = None
    BY <1>0, <1>8 DEF ReadGolden, Watches, Asleep
  <2>2. QED
    BY <1>2, <2>1
<1>9. CASE ReplayReturns
  <2>1. watch'.exit = None
    BY <1>0, <1>9 DEF ReplayReturns, Watches
  <2>2. QED
    BY <1>2, <2>1
<1>10. CASE ReplayStops \/ Report
  <2>1. watch'.pc = "idle"
    BY <1>0, <1>10 DEF ReplayStops, Report, Ended, Watches
  <2>2. QED
    BY <1>2, <2>1
<1>11. QED
  BY <1>3, <1>4, <1>5, <1>6, <1>7, <1>8, <1>9, <1>10 DEF MonitorStep

\* The steps before the monitor leave its files alone, and the runs that it is
\* set up from are over one finite sample.
LEMMA MonitorInvariant == Spec => [](MonitorShape /\ PairsInv /\ ExitInv)
<1>1. Init => MonitorShape /\ PairsInv /\ ExitInv
  BY MonitorStarts DEF Init
<1>2. SampleInv /\ MonitorShape /\ PairsInv /\ ExitInv /\ [Next]_vars
        => (MonitorShape /\ PairsInv /\ ExitInv)'
  <2> SUFFICES ASSUME SampleInv, MonitorShape, PairsInv, ExitInv, [Next]_vars
               PROVE  (MonitorShape /\ PairsInv /\ ExitInv)'
    OBVIOUS
  <2>1. CASE Watched
    <3>1. MonitorStep \/ \E r \in Runs : AnswerRun(r, sample)
      BY <2>1 DEF Watched
    <3>2. sample \in SUBSET Traces /\ IsFiniteSet(sample)
      <4>1. sample # {}
        BY <2>1 DEF Watched
      <4>2. PICK reps \in SUBSET Traces : IsFiniteSet(reps) /\ sample \in SUBSET reps
        BY <4>1, SampleFacts
      <4>3. QED
        BY <4>2, FS_Subset
    <3>3. MonitorShape'
      BY <3>1, <3>2, ShapeStep
    <3>4. PairsInv'
      BY <3>1, PairsStep DEF ExitInv
    <3>5. ExitInv'
      BY <3>1, ExitStep
    <3>6. QED
      BY <3>3, <3>4, <3>5
  <2>2. CASE UNCHANGED monitorVars
    <3>1. UNCHANGED <<dirs, golden, manifest, init, inits, table, watch, watches>>
      BY <2>2 DEF monitorVars, fileVars, watchVars
    <3>2. QED
      BY <3>1 DEF MonitorShape, PairsInv, ExitInv
  <2>3. QED
    BY <2>1, <2>2 DEF Next, Captured, ImportTraces, SampleTraces, vars
<1>3. QED
  BY <1>1, <1>2, SampleInvariant, PTL DEF Spec

\* Monitor's JudgedSuiteIsSound: for any number of run directories and of
\* invocations, which may overlap and die anywhere, any templates and any size
\* of the suite.
THEOREM JudgedAsPromised == Spec => []JudgedSuiteIsSound
<1>1. PairsInv => JudgedSuiteIsSound
  BY DEF PairsInv, JudgedSuiteIsSound, Promised, IsSuite, SuiteOf, Suite, TemplatesOf
<1>2. QED
  BY <1>1, MonitorInvariant, PTL

\* Production's TypeOK.
THEOREM TypeCorrect == Spec => []TypeOK
<1>1. CaptureTypeOK /\ SampleInv /\ MonitorShape => TypeOK
  <2> SUFFICES ASSUME CaptureTypeOK, SampleInv, MonitorShape PROVE TypeOK
    OBVIOUS
  <2>1. MonitorTypeOK
    <3>1. /\ golden.file \in {"absent", "torn", "whole"} /\ golden.run \in Runs \cup {None}
          /\ golden.rows \in Seq(Traces)
      BY DEF MonitorShape, Suites, Rows
    <3>2. /\ init.pc \in {"idle", "suite", "golden"} /\ init.run \in Runs \cup {None}
          /\ init.rows \in Seq(Traces)
      BY DEF MonitorShape, Inits, Rows
    <3>3. /\ watch.pc \in {"idle", "manifest", "replay", "report"}
          /\ watch.run \in Runs \cup {None}
          /\ watch.exit \in {None, "quiet", "drift", "retired", "error"}
          /\ IsInjective(watch.suite.rows)
      BY DEF MonitorShape, Watches, Suites, Rows
    <3>4. QED
      BY <3>1, <3>2, <3>3 DEF MonitorShape, MonitorTypeOK, Dirs
  <2>2. sample \subseteq ToSet(records) /\ Cardinality(sample) <= SampleSize
    <3>1. CASE sample = {}
      <4>1. Cardinality(sample) = 0 /\ SampleSize \in Nat
        BY <3>1, FS_EmptySet, SamplingAssumption
      <4>2. QED
        BY <3>1, <4>1
    <3>2. CASE sample # {}
      <4>1. PICK reps \in SUBSET Traces :
              /\ sample \subseteq reps /\ reps \subseteq ToSet(records) /\ IsFiniteSet(reps)
              /\ Cardinality(sample) = Min({SampleSize, Cardinality(reps)})
        BY <3>2, SampleFacts
      <4>2. PICK c \in Nat : c = Cardinality(reps)
        BY <4>1, FS_CardinalityType
      <4>3. SampleSize \in Int /\ c \in Int
        BY SamplingAssumption
      <4>4. Min({SampleSize, c}) <= SampleSize
        BY <4>3, OfTwo
      <4>5. QED
        BY <4>1, <4>2, <4>4
    <3>3. QED
      BY <3>1, <3>2
  <2>3. QED
    BY <2>1, <2>2 DEF TypeOK, SampleInv
<1>2. QED
  BY <1>1, CaptureInvariant, SampleInvariant, MonitorInvariant, PTL

=============================================================================
