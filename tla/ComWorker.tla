----------------------------- MODULE ComWorker -----------------------------
(***************************************************************************)
(* The COM worker: goroutines that each start a locked OS thread with an   *)
(* apartment of its own (newWorker), hand functions over to it (do) and    *)
(* retire it (stop), and the process-wide COM security that the first of   *)
(* the threads sets up while the others wait for it (initComSecurity, a    *)
(* sync.OnceValue).                                                        *)
(***************************************************************************)
EXTENDS Integers

CONSTANTS
    Workers,        \* the workers of the process: of open sets, of List, of Delete
    MaxCalls        \* bound: calls of do per worker

ASSUME WorkerAssumption == MaxCalls \in Nat

VARIABLES
    caller,         \* where the goroutine is that owns the worker
    thread,         \* where the worker's goroutine is
    ready, quit,    \* its channels: the answer of newWorker; closed by stop
    done,           \* the channel of the current call is closed
    apartment,      \* CoInitializeEx less CoUninitialize, on this thread
    asked, ran,     \* history: calls of do, and functions executed
    once, verdict,  \* the sync.OnceValue and the answer it keeps
    security,       \* COM's security settings of the process
    inits           \* history: calls of CoInitializeSecurity

vars == <<caller, thread, ready, quit, done, apartment, asked, ran, once, verdict, security, inits>>

TypeOK ==
    /\ caller \in [Workers -> {"none", "newWorker", "idle", "sending", "waiting", "refused", "stopped"}]
    /\ thread \in [Workers -> {"none", "CoInitializeEx", "initComSecurity", "CoInitializeSecurity",
                               "answer", "select", "fn", "exited"}]
    /\ ready \in [Workers -> {"empty", "nil", "error"}] /\ quit \in [Workers -> BOOLEAN]
    /\ done \in [Workers -> BOOLEAN] /\ apartment \in [Workers -> 0..1]
    /\ asked \in [Workers -> 0..MaxCalls] /\ ran \in [Workers -> 0..MaxCalls]
    /\ once \in {"fresh", "running", "over"} /\ verdict \in {"none", "ok", "error"}
    /\ security \in {"unset", "ours", "theirs"} /\ inits \in Nat

Init ==
    /\ caller = [w \in Workers |-> "none"] /\ thread = [w \in Workers |-> "none"]
    /\ ready = [w \in Workers |-> "empty"] /\ quit = [w \in Workers |-> FALSE]
    /\ done = [w \in Workers |-> FALSE] /\ apartment = [w \in Workers |-> 0]
    /\ asked = [w \in Workers |-> 0] /\ ran = [w \in Workers |-> 0]
    /\ once = "fresh" /\ verdict = "none" /\ security = "unset" /\ inits = 0

-----------------------------------------------------------------------------
(* The goroutine that owns the worker. *)

CallNewWorker(w) ==
    /\ caller[w] = "none"
    /\ caller' = [caller EXCEPT ![w] = "newWorker"]
    /\ thread' = [thread EXCEPT ![w] = "CoInitializeEx"]
    /\ UNCHANGED <<ready, quit, done, apartment, asked, ran, once, verdict, security, inits>>

\* newWorker receives from ready and returns the worker or the error.
NewWorkerReturns(w) ==
    /\ caller[w] = "newWorker" /\ ready[w] # "empty"
    /\ caller' = [caller EXCEPT ![w] = IF ready[w] = "nil" THEN "idle" ELSE "refused"]
    /\ ready' = [ready EXCEPT ![w] = "empty"]
    /\ UNCHANGED <<thread, quit, done, apartment, asked, ran, once, verdict, security, inits>>

CallDo(w) ==
    /\ caller[w] = "idle" /\ asked[w] < MaxCalls
    /\ caller' = [caller EXCEPT ![w] = "sending"]
    /\ asked' = [asked EXCEPT ![w] = @ + 1]
    /\ UNCHANGED <<thread, ready, quit, done, apartment, ran, once, verdict, security, inits>>

\* Mutant: do returns when the thread has taken the function.
SendAndReturn(w) ==
    /\ caller[w] = "sending" /\ thread[w] = "select"
    /\ caller' = [caller EXCEPT ![w] = "idle"] /\ thread' = [thread EXCEPT ![w] = "fn"]
    /\ UNCHANGED <<ready, quit, done, apartment, asked, ran, once, verdict, security, inits>>

\* The channel has no buffer: sender and receiver meet.
Send(w) ==
    /\ caller[w] = "sending" /\ thread[w] = "select"
    /\ caller' = [caller EXCEPT ![w] = "waiting"] /\ thread' = [thread EXCEPT ![w] = "fn"]
    /\ done' = [done EXCEPT ![w] = FALSE]
    /\ UNCHANGED <<ready, quit, apartment, asked, ran, once, verdict, security, inits>>

DoReturns(w) ==
    /\ caller[w] = "waiting" /\ done[w]
    /\ caller' = [caller EXCEPT ![w] = "idle"]
    /\ UNCHANGED <<thread, ready, quit, done, apartment, asked, ran, once, verdict, security, inits>>

\* Mutant: a worker that was never used is forgotten instead of stopped.
StopUsed(w) ==
    /\ caller[w] = "idle"
    /\ caller' = [caller EXCEPT ![w] = "stopped"]
    /\ quit' = [quit EXCEPT ![w] = asked[w] > 0]
    /\ UNCHANGED <<thread, ready, done, apartment, asked, ran, once, verdict, security, inits>>

Stop(w) ==
    /\ caller[w] = "idle"
    /\ caller' = [caller EXCEPT ![w] = "stopped"] /\ quit' = [quit EXCEPT ![w] = TRUE]
    /\ UNCHANGED <<thread, ready, done, apartment, asked, ran, once, verdict, security, inits>>

-----------------------------------------------------------------------------
(* The thread. *)

\* Mutant: a failed initialisation is reported and not returned from.
CoInitializeFallsThrough(w) ==
    /\ thread[w] = "CoInitializeEx"
    /\ thread' = [thread EXCEPT ![w] = "initComSecurity"]
    /\ \/ apartment' = [apartment EXCEPT ![w] = @ + 1] /\ UNCHANGED ready
       \/ ready' = [ready EXCEPT ![w] = "error"] /\ UNCHANGED apartment
    /\ UNCHANGED <<caller, quit, done, asked, ran, once, verdict, security, inits>>

\* S_OK and S_FALSE count as one initialisation; any other answer ends the
\* thread without a CoUninitialize.
CoInitializeEx(w) ==
    /\ thread[w] = "CoInitializeEx"
    /\ \/ /\ thread' = [thread EXCEPT ![w] = "initComSecurity"]
          /\ apartment' = [apartment EXCEPT ![w] = @ + 1] /\ UNCHANGED ready
       \/ /\ thread' = [thread EXCEPT ![w] = "exited"]
          /\ ready' = [ready EXCEPT ![w] = "error"] /\ UNCHANGED apartment
    /\ UNCHANGED <<caller, quit, done, asked, ran, once, verdict, security, inits>>

\* Mutant: a flag that is set at the entry, as of a Once that does not wait.
EnterFlag(w) ==
    /\ thread[w] = "initComSecurity"
    /\ IF once = "fresh"
       THEN /\ once' = "running" /\ verdict' = "ok"
            /\ thread' = [thread EXCEPT ![w] = "CoInitializeSecurity"]
       ELSE thread' = [thread EXCEPT ![w] = "answer"] /\ UNCHANGED <<once, verdict>>
    /\ UNCHANGED <<caller, ready, quit, done, apartment, asked, ran, security, inits>>

\* sync.OnceValue: the first thread calls, the others wait for its answer.
EnterOnce(w) ==
    /\ thread[w] = "initComSecurity"
    /\ \/ /\ once = "fresh" /\ once' = "running"
          /\ thread' = [thread EXCEPT ![w] = "CoInitializeSecurity"]
       \/ /\ once = "over" /\ UNCHANGED once
          /\ thread' = [thread EXCEPT ![w] = "answer"]
    /\ UNCHANGED <<caller, ready, quit, done, apartment, asked, ran, verdict, security, inits>>

\* Mutant: a failure is not kept, and the next thread asks again.
RetryInitSecurity(w) ==
    /\ thread[w] = "CoInitializeSecurity" /\ inits' = inits + 1
    /\ \/ security = "unset" /\ security' = "ours" /\ verdict' = "ok" /\ once' = "over"
       \/ security = "theirs" /\ verdict' = "ok" /\ once' = "over" /\ UNCHANGED security
       \/ verdict' = "error" /\ once' = "fresh" /\ UNCHANGED security
    /\ thread' = [thread EXCEPT ![w] = "answer"]
    /\ UNCHANGED <<caller, ready, quit, done, apartment, asked, ran>>

\* RPC_E_TOO_LATE means that other code has set the security: accepted.
InitSecurity(w) ==
    /\ thread[w] = "CoInitializeSecurity" /\ inits' = inits + 1
    /\ \/ security = "unset" /\ security' = "ours" /\ verdict' = "ok"
       \/ security = "theirs" /\ verdict' = "ok" /\ UNCHANGED security
       \/ verdict' = "error" /\ UNCHANGED security
    /\ once' = "over" /\ thread' = [thread EXCEPT ![w] = "answer"]
    /\ UNCHANGED <<caller, ready, quit, done, apartment, asked, ran>>

\* Mutant: the thread of a worker without security ends without telling.
AnswerSilently(w) ==
    /\ thread[w] = "answer"
    /\ IF verdict = "ok"
       THEN /\ ready' = [ready EXCEPT ![w] = "nil"] /\ UNCHANGED apartment
            /\ thread' = [thread EXCEPT ![w] = "select"]
       ELSE /\ UNCHANGED ready /\ apartment' = [apartment EXCEPT ![w] = @ - 1]
            /\ thread' = [thread EXCEPT ![w] = "exited"]
    /\ UNCHANGED <<caller, quit, done, asked, ran, once, verdict, security, inits>>

\* Mutant: the apartment of a worker without security is not given back.
AnswerKeepCom(w) ==
    /\ thread[w] = "answer"
    /\ IF verdict = "ok"
       THEN /\ ready' = [ready EXCEPT ![w] = "nil"]
            /\ thread' = [thread EXCEPT ![w] = "select"]
       ELSE /\ ready' = [ready EXCEPT ![w] = "error"]
            /\ thread' = [thread EXCEPT ![w] = "exited"]
    /\ UNCHANGED <<caller, quit, done, apartment, asked, ran, once, verdict, security, inits>>

Answer(w) ==
    /\ thread[w] = "answer"
    /\ IF verdict = "ok"
       THEN /\ ready' = [ready EXCEPT ![w] = "nil"] /\ UNCHANGED apartment
            /\ thread' = [thread EXCEPT ![w] = "select"]
       ELSE /\ ready' = [ready EXCEPT ![w] = "error"]
            /\ apartment' = [apartment EXCEPT ![w] = @ - 1]
            /\ thread' = [thread EXCEPT ![w] = "exited"]
    /\ UNCHANGED <<caller, quit, done, asked, ran, once, verdict, security, inits>>

\* The function ends, done is closed, and the thread selects again.
RunFn(w) ==
    /\ thread[w] = "fn" /\ thread' = [thread EXCEPT ![w] = "select"]
    /\ ran' = [ran EXCEPT ![w] = @ + 1] /\ done' = [done EXCEPT ![w] = TRUE]
    /\ UNCHANGED <<caller, ready, quit, apartment, asked, once, verdict, security, inits>>

Quit(w) ==
    /\ thread[w] = "select" /\ quit[w]
    /\ thread' = [thread EXCEPT ![w] = "exited"]
    /\ apartment' = [apartment EXCEPT ![w] = @ - 1]
    /\ UNCHANGED <<caller, ready, quit, done, asked, ran, once, verdict, security, inits>>

\* Other code of the process sets up COM security.
OthersInitSecurity ==
    /\ security = "unset" /\ security' = "theirs"
    /\ UNCHANGED <<caller, thread, ready, quit, done, apartment, asked, ran, once, verdict, inits>>

-----------------------------------------------------------------------------
Thread(w) == CoInitializeEx(w) \/ EnterOnce(w) \/ InitSecurity(w) \/ Answer(w) \/ RunFn(w) \/ Quit(w)

Next ==
    \/ \E w \in Workers :
          \/ CallNewWorker(w) \/ NewWorkerReturns(w) \/ CallDo(w) \/ Send(w) \/ DoReturns(w)
          \/ Stop(w) \/ Thread(w)
    \/ OthersInitSecurity

Spec == Init /\ [][Next]_vars

\* Goroutines run, and the calls into COM return.  A caller need not call.
FairSpec ==
    /\ Spec
    /\ \A w \in Workers : /\ WF_vars(Thread(w)) /\ WF_vars(Send(w))
                          /\ WF_vars(NewWorkerReturns(w)) /\ WF_vars(DoReturns(w))

-----------------------------------------------------------------------------
(* Properties. *)

\* "Every VSS call must be funneled through the same locked thread": a
\* function runs only in a live apartment, after the security of the process
\* was set, however many workers start at once.
CallsRunInsideCom ==
    \A w \in Workers : thread[w] = "fn" => apartment[w] = 1 /\ security # "unset"

\* Whichever step failed, a thread ends with as many CoUninitialize as it had
\* successful CoInitializeEx, and one that ended left nobody waiting for it.
ThreadsLeaveNothing ==
    \A w \in Workers : thread[w] = "exited" =>
        apartment[w] = 0 /\ caller[w] \notin {"idle", "sending", "waiting"}

\* The worker keeps the promise of ComExecutor: one verdict for the process,
\* asked for once, and every call served once before it returns.
SessionOf(c) ==
    IF c = "newWorker" THEN "none" ELSE IF c \in {"sending", "waiting"} THEN "busy" ELSE c

SessionStates == [w \in Workers |-> SessionOf(caller[w])]

Executor == INSTANCE ComExecutor WITH state <- SessionStates, served <- ran

ImplementsExecutor == Executor!Spec

\* newWorker, do and, after stop, the thread come to their end: nobody waits
\* for a thread that is gone, and no thread is leaked.
CallersReturn ==
    \A w \in Workers : caller[w] \in {"newWorker", "sending", "waiting"}
                            ~> caller[w] \in {"idle", "refused"}
ThreadsEnd == \A w \in Workers : caller[w] \in {"refused", "stopped"} ~> thread[w] = "exited"
=============================================================================
