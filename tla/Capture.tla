------------------------------- MODULE Capture -------------------------------
(***************************************************************************)
(* The capture wrapper (capture/python.py): the service hands its events   *)
(* to a bounded queue, and a daemon thread appends them to a JSONL file.   *)
(* The wrapper never raises into the service: whatever goes wrong, an      *)
(* event is lost in silence.                                               *)
(*                                                                         *)
(* A line of the file is the event it holds, or Broken when no JSON can be *)
(* read from it.  A process that is killed while its thread writes leaves  *)
(* a tail without a newline, and the next process appends to the same line.*)
(***************************************************************************)
EXTENDS Naturals, Sequences, FiniteSets

CONSTANTS
  Events,        \* what the service may capture
  Stream,        \* ... in the order in which it offers it
  Serialisable,  \* the events that json.dumps accepts
  Capacity,      \* max_queue
  MaxRestarts,   \* bound: restarts of the service
  Nothing,       \* no event, no tail
  Sentinel,      \* the None that close() queues
  Broken         \* text that does not parse

ASSUME CaptureAssumption ==
  /\ Cardinality({Nothing, Sentinel, Broken} \ Events) = 3
  /\ Stream \in Seq(Events)
  /\ Serialisable \subseteq Events
  /\ Capacity \in Nat \ {0}
  /\ MaxRestarts \in Nat

VARIABLES
  offered,  \* how many events of the stream the service has offered
  service,  \* the process: its queue, its thread, its call of close()
  lines,    \* the lines of the file that end in a newline
  tail,     \* the text after the last newline
  restarts

captureVars == <<offered, service, lines, tail, restarts>>

\* The state of a process that has just created its AsyncJsonlWriter.  kept and
\* base record, for the properties, the events the queue accepted before the
\* sentinel and what the file held when the process began.
Started(file, rest) ==
  [alive |-> TRUE, queue |-> <<>>, held |-> Nothing, thread |-> "starting",
   close |-> "open", kept |-> <<>>, base |-> Len(file), joint |-> rest # Nothing]

Exited == [Started(<<>>, Nothing) EXCEPT !.alive = FALSE, !.thread = "killed"]

Queued == Events \cup {Sentinel}

CaptureTypeOK ==
  /\ offered \in 0..Len(Stream)
  /\ service \in [alive : BOOLEAN, queue : Seq(Queued), held : Events \cup {Nothing},
                  thread : {"starting", "running", "done", "dead", "killed"},
                  close : {"open", "refused", "joining", "joined", "timed out"},
                  kept : Seq(Events), base : Nat, joint : BOOLEAN]
  /\ Len(service.queue) <= Capacity
  /\ lines \in Seq(Events \cup {Broken})
  /\ tail \in Events \cup {Nothing, Broken}
  /\ restarts \in 0..MaxRestarts

CaptureInit ==
  /\ offered = 0
  /\ service = Started(<<>>, Nothing)
  /\ lines = <<>>
  /\ tail = Nothing
  /\ restarts = 0

\* Mutant: one event too many.
FullOffByOne == Len(service.queue) > Capacity

Full == Len(service.queue) >= Capacity

\* put_nowait: a full queue drops the event.
Write ==
  /\ service.alive
  /\ offered < Len(Stream)
  /\ offered' = offered + 1
  /\ LET e == Stream[offered + 1]
     IN service' =
          IF Full THEN service
          ELSE [service EXCEPT !.queue = Append(@, e),
                               !.kept = IF service.close \in {"open", "refused"}
                                        THEN Append(@, e) ELSE @]
  /\ UNCHANGED <<lines, tail, restarts>>

\* The sentinel is dropped by a full queue as an event would be; close() then
\* returns without joining the thread, and may be called again.
Close ==
  /\ service.alive
  /\ service.close \in {"open", "refused"}
  /\ service' = IF Full THEN [service EXCEPT !.close = "refused"]
                ELSE [service EXCEPT !.queue = Append(@, Sentinel), !.close = "joining"]
  /\ UNCHANGED <<offered, lines, tail, restarts>>

JoinReturns ==
  /\ service.close = "joining"
  /\ \/ service.thread \in {"done", "dead"} /\ service' = [service EXCEPT !.close = "joined"]
     \/ service.thread \in {"starting", "running"} /\ service' = [service EXCEPT !.close = "timed out"]
  /\ UNCHANGED <<offered, lines, tail, restarts>>

\* mkdir and open, which may fail.
Open ==
  /\ service.thread = "starting"
  /\ \E thread \in {"running", "dead"} : service' = [service EXCEPT !.thread = thread]
  /\ UNCHANGED <<offered, lines, tail, restarts>>

\* Mutant: the thread stops as soon as close() was called.
TakeUntilClosed ==
  /\ service.thread = "running"
  /\ service.held = Nothing
  /\ service.queue # <<>>
  /\ LET item == Head(service.queue)
     IN service' = [service EXCEPT
          !.queue = Tail(@),
          !.held = IF item = Sentinel \/ service.close # "open" THEN @ ELSE item,
          !.thread = IF item = Sentinel \/ service.close # "open" THEN "done" ELSE @]
  /\ UNCHANGED <<offered, lines, tail, restarts>>

\* queue.get: the sentinel ends the loop.
Take ==
  /\ service.thread = "running"
  /\ service.held = Nothing
  /\ service.queue # <<>>
  /\ LET item == Head(service.queue)
     IN service' = [service EXCEPT
          !.queue = Tail(@),
          !.held = IF item = Sentinel THEN @ ELSE item,
          !.thread = IF item = Sentinel THEN "done" ELSE @]
  /\ UNCHANGED <<offered, lines, tail, restarts>>

\* The line that a text ends when it is appended to the tail.
Joined(text) == IF tail = Nothing THEN text ELSE Broken

\* The whole line reaches the file.
PutLine ==
  /\ service.held \in Serialisable
  /\ lines' = Append(lines, Joined(service.held))
  /\ tail' = Nothing

\* Mutant: the loop body returns.
EmitOnce ==
  /\ service.thread = "running"
  /\ PutLine
  /\ service' = [service EXCEPT !.held = Nothing, !.thread = "done"]
  /\ UNCHANGED <<offered, restarts>>

\* json.dumps, write and flush.
Emit ==
  /\ service.thread = "running"
  /\ PutLine
  /\ service' = [service EXCEPT !.held = Nothing]
  /\ UNCHANGED <<offered, restarts>>

\* What a write that was cut short may have added to the file: nothing, a part
\* of the event, or all of it but the newline.
CutShort ==
  \/ UNCHANGED tail
  \/ service.held \in Serialisable /\ tail' \in {Broken, Joined(service.held)}

\* An event that json.dumps rejects ends the thread, and so does a failed
\* write, after which closing the file may still write the rest of the line;
\* events are still accepted, into a queue that nobody reads.
Die ==
  /\ service.thread = "running"
  /\ service.held # Nothing
  /\ (CutShort /\ UNCHANGED lines) \/ PutLine
  /\ service' = [service EXCEPT !.held = Nothing, !.thread = "dead"]
  /\ UNCHANGED <<offered, restarts>>

\* The service ends, and its daemon thread with it.
Exit ==
  /\ service.alive
  /\ CutShort
  /\ service' = Exited
  /\ UNCHANGED <<offered, lines, restarts>>

Restart ==
  /\ ~service.alive
  /\ restarts < MaxRestarts
  /\ restarts' = restarts + 1
  /\ service' = Started(lines, tail)
  /\ UNCHANGED <<offered, lines, tail>>

ThreadStep == Open \/ Take \/ Emit \/ Die

CaptureNext == Write \/ Close \/ JoinReturns \/ ThreadStep \/ Exit \/ Restart

-----------------------------------------------------------------------------
\* A close() that could queue its sentinel and found the thread finished has
\* the promise that the file holds every event that was accepted before, in
\* order; only the first of them may have been spoilt, by what an earlier
\* process left of its last line.  A thread that skips a queued event, stops at
\* the call instead of at the sentinel or reorders breaks it (python.py:28).
JoinedMeansWritten ==
  service.close = "joined" /\ service.thread = "done" =>
    LET written == SubSeq(lines, service.base + 1, Len(lines))
    IN /\ Len(written) = Len(service.kept)
       /\ \A i \in DOMAIN written :
            IF i = 1 /\ service.joint THEN written[i] = Broken
            ELSE written[i] = service.kept[i]

\* An event that the queue has accepted reaches the file, in its turn, unless
\* the thread has died or the service ended first (python.py:35-46).
AcceptedEventuallyWritten ==
  \A n \in 1..Len(Stream) :
    (service.alive /\ Len(service.kept) >= n)
      ~> (Len(lines) - service.base >= n \/ service.thread \in {"dead", "killed"})

=============================================================================
