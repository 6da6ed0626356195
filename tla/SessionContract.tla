-------------------------- MODULE SessionContract --------------------------
(***************************************************************************)
(* What one requester session promises, seen from the machine and from the *)
(* caller: the copies of a set are made together or not at all, a set is   *)
(* returned when all were made, a session that fails or is closed without  *)
(* an error leaves no writer held and no transient copy, and nothing in a  *)
(* session takes a persistent copy away.  No COM, no thread, no waiting.   *)
(* Module ShadowCopies takes it for granted of CreateSet, Close and Die.   *)
(***************************************************************************)
CONSTANT Volumes

VARIABLES
    keep,           \* the set is persistent
    phase,          \* idle, making, open, failed, closing, closed, closedWithError or crashed
    copies, lost,   \* the volumes that have a copy, and those whose copy was evicted
    held            \* a writer is quiesced

vars == <<keep, phase, copies, lost, held>>

Init ==
    /\ keep \in BOOLEAN /\ phase = "idle"
    /\ copies = {} /\ lost = {} /\ held = FALSE

Move(from, to) == phase = from /\ phase' = to /\ UNCHANGED <<keep, copies, lost, held>>

NothingLeft == ~held /\ (keep \/ copies = {})

Begin  == Move("idle", "making")
Return == copies \cup lost = Volumes /\ Move("making", "open")
Fail   == NothingLeft /\ Move("making", "failed")
Close  == Move("open", "closing")
Finish == (NothingLeft /\ Move("closing", "closed")) \/ Move("closing", "closedWithError")

\* Copies of all volumes come to be at one moment.
Snapshot ==
    /\ phase = "making" /\ copies = {} /\ lost = {}
    /\ copies' = Volumes
    /\ UNCHANGED <<keep, phase, lost, held>>

\* Transient copies go with their session; one that is closed may fail to
\* delete some, and reports it.
Discard ==
    /\ ~keep
    /\ \/ phase = "making" /\ copies' = {}
       \/ phase = "closing" /\ copies' \subseteq copies
    /\ UNCHANGED <<keep, phase, lost, held>>

Hold  == phase = "making" /\ held' = TRUE /\ UNCHANGED <<keep, phase, copies, lost>>
LetGo == held' = FALSE /\ UNCHANGED <<keep, phase, copies, lost>>

Evict(v) ==
    /\ v \in copies /\ copies' = copies \ {v} /\ lost' = lost \cup {v}
    /\ UNCHANGED <<keep, phase, held>>

\* The process dies: like Discard, wherever it was.
Die ==
    /\ phase \in {"making", "open", "closing"} /\ phase' = "crashed"
    /\ copies' \in IF keep THEN {copies} ELSE IF phase = "closing" THEN SUBSET copies ELSE {{}}
    /\ UNCHANGED <<keep, lost, held>>

Next ==
    \/ Begin \/ Return \/ Fail \/ Close \/ Finish
    \/ Snapshot \/ Discard \/ Hold \/ LetGo \/ \E v \in Volumes : Evict(v)
    \/ Die

Spec == Init /\ [][Next]_vars
=============================================================================
