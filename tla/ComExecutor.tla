---------------------------- MODULE ComExecutor ----------------------------
(***************************************************************************)
(* What the COM worker of worker_windows.go promises to the rest of the    *)
(* library: a session opens only once the security of the process is       *)
(* settled, for good and for everyone alike, and from then on every call   *)
(* is served exactly once before it returns, one at a time, until the      *)
(* session is closed.  No threads, no channels.                            *)
(***************************************************************************)
EXTENDS Naturals

CONSTANT Workers

VARIABLES
    state,          \* of each session: none, idle, busy, refused or stopped
    asked, served,  \* its calls, and those that have been executed
    verdict         \* whether COM security could be set up

vars == <<state, asked, served, verdict>>

Init ==
    /\ state = [w \in Workers |-> "none"]
    /\ asked = [w \in Workers |-> 0] /\ served = [w \in Workers |-> 0]
    /\ verdict = "none"

Move(w, from, to) == state[w] = from /\ state' = [state EXCEPT ![w] = to]

Settle ==
    /\ verdict = "none" /\ verdict' \in {"ok", "error"}
    /\ UNCHANGED <<state, asked, served>>

Open(w) == verdict = "ok" /\ Move(w, "none", "idle") /\ UNCHANGED <<asked, served, verdict>>

Refuse(w) == Move(w, "none", "refused") /\ UNCHANGED <<asked, served, verdict>>

Ask(w) ==
    /\ Move(w, "idle", "busy") /\ asked' = [asked EXCEPT ![w] = @ + 1]
    /\ UNCHANGED <<served, verdict>>

Serve(w) ==
    /\ state[w] = "busy" /\ served[w] < asked[w]
    /\ served' = [served EXCEPT ![w] = @ + 1]
    /\ UNCHANGED <<state, asked, verdict>>

Answer(w) == served[w] = asked[w] /\ Move(w, "busy", "idle") /\ UNCHANGED <<asked, served, verdict>>

Close(w) == Move(w, "idle", "stopped") /\ UNCHANGED <<asked, served, verdict>>

Next ==
    \/ Settle
    \/ \E w \in Workers :
          Open(w) \/ Refuse(w) \/ Ask(w) \/ Serve(w) \/ Answer(w) \/ Close(w)

Spec == Init /\ [][Next]_vars
=============================================================================
