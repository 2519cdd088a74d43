------------------------------ MODULE Promotion ------------------------------
(***************************************************************************)
(* "Promote example to assertion" (review.py): the review server runs each *)
(* request in a thread of its own, and the handler reads the manifest,     *)
(* copies it to a backup and rewrites it, without a lock.                  *)
(*                                                                         *)
(* A manifest is what yaml makes of the file: whether it parses, whether   *)
(* it still holds the settings it came with, and the assertions promoted   *)
(* to it.  An empty file reads as an empty manifest.                       *)
(***************************************************************************)
CONSTANT Handlers   \* the requests, each promoting an assertion of its own

VARIABLES
  manifest,   \* acsi.yaml
  backup,     \* acsi.yaml.bak
  seen,       \* the manifest that each handler has read
  pc

vars == <<manifest, backup, seen, pc>>

File == [parses : BOOLEAN, settings : BOOLEAN, promoted : SUBSET Handlers]
Original == [parses |-> TRUE, settings |-> TRUE, promoted |-> {}]
Empty == [parses |-> TRUE, settings |-> FALSE, promoted |-> {}]
\* The start of one text over the end of another.
Garbled == [parses |-> FALSE, settings |-> FALSE, promoted |-> {}]

TypeOK ==
  /\ manifest \in File
  /\ backup \in File
  /\ seen \in [Handlers -> File]
  /\ pc \in [Handlers -> {"new", "read", "copied", "writing", "ok", "failed"}]

Init ==
  /\ manifest = Original
  /\ backup = Empty
  /\ seen = [h \in Handlers |-> Empty]
  /\ pc = [h \in Handlers |-> "new"]

Goto(h, place) == pc' = [pc EXCEPT ![h] = place]

\* yaml.safe_load(...) or {}
Read(h) ==
  /\ pc[h] = "new"
  /\ manifest.parses
  /\ seen' = [seen EXCEPT ![h] = manifest]
  /\ Goto(h, "read")
  /\ UNCHANGED <<manifest, backup>>

\* A garbled file fails to parse, or parses to something else than a mapping.
ReadFails(h) ==
  /\ pc[h] = "new"
  /\ ~manifest.parses
  /\ Goto(h, "failed")
  /\ UNCHANGED <<manifest, backup, seen>>

\* shutil.copyfile
Copy(h) ==
  /\ pc[h] = "read"
  /\ backup' = manifest
  /\ Goto(h, "copied")
  /\ UNCHANGED <<manifest, seen>>

\* open("w") truncates the file before anything is written.
Truncate(h) ==
  /\ pc[h] = "copied"
  /\ manifest' = Empty
  /\ Goto(h, "writing")
  /\ UNCHANGED <<backup, seen>>

\* safe_dump reaches the file when it is closed, at the offset 0 of this
\* handle; over a text that another handle left there, the end of a longer one
\* may show.
Dump(h) ==
  LET own == [seen[h] EXCEPT !.promoted = @ \cup {h}]
  IN /\ pc[h] = "writing"
     /\ \/ manifest' = own
        \/ manifest # Empty /\ manifest' = Garbled
     /\ Goto(h, "ok")
     /\ UNCHANGED <<backup, seen>>

Next == \E h \in Handlers : Read(h) \/ ReadFails(h) \/ Copy(h) \/ Truncate(h) \/ Dump(h)

Spec == Init /\ [][Next]_vars

-----------------------------------------------------------------------------
\* A promotion "appends to acsi.yaml": when no request is being handled, the
\* manifest has kept its settings and holds every assertion whose request was
\* answered with ok.
PromotionAppends ==
  (\A h \in Handlers : pc[h] \in {"new", "ok", "failed"}) =>
    /\ manifest.parses
    /\ manifest.settings
    /\ {h \in Handlers : pc[h] = "ok"} \subseteq manifest.promoted

=============================================================================
