--------------------------- MODULE ComWorkerProofs ---------------------------
(***************************************************************************)
(* Proofs about ComWorker for every set of workers and every number of     *)
(* calls: the inductive invariant IInv, the two invariants of the worker,  *)
(* and the refinement of ComExecutor.                                      *)
(***************************************************************************)
EXTENDS ComWorker, TLAPS

\* Where the two goroutines of a worker are, jointly.
Starting(w) ==
    /\ caller[w] = "newWorker" /\ ran[w] = asked[w] /\ ~quit[w]
    /\ \/ ready[w] = "empty"
          /\ thread[w] \in {"CoInitializeEx", "initComSecurity", "CoInitializeSecurity", "answer"}
       \/ ready[w] = "nil" /\ thread[w] = "select"
       \/ ready[w] = "error" /\ thread[w] = "exited"

Serving(w) ==
    /\ ready[w] = "empty" /\ ~quit[w]
    /\ \/ caller[w] = "idle" /\ thread[w] = "select" /\ ran[w] = asked[w]
       \/ caller[w] = "sending" /\ thread[w] = "select" /\ ran[w] + 1 = asked[w]
       \/ caller[w] = "waiting" /\ thread[w] = "fn" /\ ~done[w] /\ ran[w] + 1 = asked[w]
       \/ caller[w] = "waiting" /\ thread[w] = "select" /\ done[w] /\ ran[w] = asked[w]

Ended(w) ==
    \/ caller[w] = "none" /\ thread[w] = "none" /\ ran[w] = asked[w]
       /\ ready[w] = "empty" /\ ~quit[w]
    \/ caller[w] = "refused" /\ thread[w] = "exited" /\ ready[w] = "empty"
    \/ caller[w] = "stopped" /\ thread[w] \in {"select", "exited"} /\ quit[w]
       /\ ready[w] = "empty" /\ ran[w] = asked[w]

Paired == \A w \in Workers : Starting(w) \/ Serving(w) \/ Ended(w)

ApartmentCounted ==
    \A w \in Workers : apartment[w] = IF thread[w] \in {"none", "CoInitializeEx", "exited"}
                                      THEN 0 ELSE 1

\* One thread at a time is inside the OnceValue, and before it is over there is
\* neither a verdict nor a worker past it.
OnceKept ==
    /\ once = "over" <=> verdict # "none"
    /\ verdict = "ok" => security # "unset"
    /\ \A w \in Workers : thread[w] = "CoInitializeSecurity" => once = "running"
    /\ \A v, w \in Workers : thread[v] = "CoInitializeSecurity"
                             /\ thread[w] = "CoInitializeSecurity" => v = w
    /\ \A w \in Workers : thread[w] = "answer" => once = "over"
    /\ \A w \in Workers : thread[w] \in {"select", "fn"} => verdict = "ok"

IInv == TypeOK /\ Paired /\ ApartmentCounted /\ OnceKept

-----------------------------------------------------------------------------
LEMMA InitHolds == Init => IInv
BY WorkerAssumption, SMT
   DEF Init, IInv, TypeOK, Paired, Starting, Serving, Ended, ApartmentCounted, OnceKept

\* The types need the pairing: a function in hand was asked for and not run.
LEMMA TypeStep == IInv /\ Next => TypeOK'
<1> SUFFICES ASSUME IInv, Next PROVE TypeOK'
  OBVIOUS
<1> USE WorkerAssumption DEF IInv, TypeOK
<1>1. ASSUME NEW w \in Workers, CallNewWorker(w) PROVE TypeOK'
  BY <1>1, SMT DEF CallNewWorker
<1>2. ASSUME NEW w \in Workers, NewWorkerReturns(w) PROVE TypeOK'
  BY <1>2, SMT DEF NewWorkerReturns
<1>3. ASSUME NEW w \in Workers, CallDo(w) PROVE TypeOK'
  BY <1>3, SMT DEF CallDo
<1>4. ASSUME NEW w \in Workers, Send(w) PROVE TypeOK'
  BY <1>4, SMT DEF Send
<1>5. ASSUME NEW w \in Workers, DoReturns(w) PROVE TypeOK'
  BY <1>5, SMT DEF DoReturns
<1>6. ASSUME NEW w \in Workers, Stop(w) PROVE TypeOK'
  BY <1>6, SMT DEF Stop
<1>7. ASSUME NEW w \in Workers, CoInitializeEx(w) PROVE TypeOK'
  <2>1. apartment[w] = 0
    BY <1>7, SMT DEF CoInitializeEx, ApartmentCounted
  <2> QED BY <1>7, <2>1, SMT DEF CoInitializeEx
<1>8. ASSUME NEW w \in Workers, EnterOnce(w) PROVE TypeOK'
  BY <1>8, SMT DEF EnterOnce
<1>9. ASSUME NEW w \in Workers, InitSecurity(w) PROVE TypeOK'
  BY <1>9, SMT DEF InitSecurity
<1>10. ASSUME NEW w \in Workers, Answer(w) PROVE TypeOK'
  <2>1. apartment[w] = 1
    BY <1>10, SMT DEF Answer, ApartmentCounted
  <2> QED BY <1>10, <2>1, SMT DEF Answer
<1>11. ASSUME NEW w \in Workers, RunFn(w) PROVE TypeOK'
  <2>1. ran[w] + 1 = asked[w]
    BY <1>11, SMT DEF RunFn, Paired, Starting, Serving, Ended
  <2> QED BY <1>11, <2>1, SMT DEF RunFn
<1>12. ASSUME NEW w \in Workers, Quit(w) PROVE TypeOK'
  <2>1. apartment[w] = 1
    BY <1>12, SMT DEF Quit, ApartmentCounted
  <2> QED BY <1>12, <2>1, SMT DEF Quit
<1>13. CASE OthersInitSecurity
  BY <1>13, SMT DEF OthersInitSecurity
<1> QED BY <1>1, <1>2, <1>3, <1>4, <1>5, <1>6, <1>7, <1>8, <1>9, <1>10, <1>11, <1>12, <1>13
        DEF Next, Thread

\* Neither goroutine moves on without the other where they meet.
LEMMA PairedStep == IInv /\ Next => Paired'
<1> SUFFICES ASSUME IInv, Next, NEW v \in Workers
             PROVE  (Starting(v) \/ Serving(v) \/ Ended(v))'
  BY DEF Paired
<1>0. Starting(v) \/ Serving(v) \/ Ended(v)
  BY DEF IInv, Paired
<1> USE <1>0 DEF IInv, TypeOK, Starting, Serving, Ended
<1>1. ASSUME NEW w \in Workers, CallNewWorker(w) PROVE (Starting(v) \/ Serving(v) \/ Ended(v))'
  BY <1>1, SMT DEF CallNewWorker
<1>2. ASSUME NEW w \in Workers, NewWorkerReturns(w) PROVE (Starting(v) \/ Serving(v) \/ Ended(v))'
  BY <1>2, SMT DEF NewWorkerReturns
<1>3. ASSUME NEW w \in Workers, CallDo(w) PROVE (Starting(v) \/ Serving(v) \/ Ended(v))'
  BY <1>3, SMT DEF CallDo
<1>4. ASSUME NEW w \in Workers, Send(w) PROVE (Starting(v) \/ Serving(v) \/ Ended(v))'
  BY <1>4, SMT DEF Send
<1>5. ASSUME NEW w \in Workers, DoReturns(w) PROVE (Starting(v) \/ Serving(v) \/ Ended(v))'
  BY <1>5, SMT DEF DoReturns
<1>6. ASSUME NEW w \in Workers, Stop(w) PROVE (Starting(v) \/ Serving(v) \/ Ended(v))'
  BY <1>6, SMT DEF Stop
<1>7. ASSUME NEW w \in Workers, CoInitializeEx(w) PROVE (Starting(v) \/ Serving(v) \/ Ended(v))'
  BY <1>7, SMT DEF CoInitializeEx
<1>8. ASSUME NEW w \in Workers, EnterOnce(w) PROVE (Starting(v) \/ Serving(v) \/ Ended(v))'
  BY <1>8, SMT DEF EnterOnce
<1>9. ASSUME NEW w \in Workers, InitSecurity(w) PROVE (Starting(v) \/ Serving(v) \/ Ended(v))'
  BY <1>9, SMT DEF InitSecurity
<1>10. ASSUME NEW w \in Workers, Answer(w) PROVE (Starting(v) \/ Serving(v) \/ Ended(v))'
  BY <1>10, SMT DEF Answer
<1>11. ASSUME NEW w \in Workers, RunFn(w) PROVE (Starting(v) \/ Serving(v) \/ Ended(v))'
  BY <1>11, SMT DEF RunFn
<1>12. ASSUME NEW w \in Workers, Quit(w) PROVE (Starting(v) \/ Serving(v) \/ Ended(v))'
  BY <1>12, SMT DEF Quit
<1>13. CASE OthersInitSecurity
  BY <1>13, SMT DEF OthersInitSecurity
<1> QED BY <1>1, <1>2, <1>3, <1>4, <1>5, <1>6, <1>7, <1>8, <1>9, <1>10, <1>11, <1>12, <1>13
        DEF Next, Thread

\* CoInitializeEx and CoUninitialize come in pairs.
LEMMA ApartmentStep == IInv /\ Next => ApartmentCounted'
<1> SUFFICES ASSUME IInv, Next, NEW v \in Workers
             PROVE  (apartment[v] = IF thread[v] \in {"none", "CoInitializeEx", "exited"}
                                    THEN 0 ELSE 1)'
  BY DEF ApartmentCounted
<1>0. /\ Starting(v) \/ Serving(v) \/ Ended(v)
      /\ apartment[v] = IF thread[v] \in {"none", "CoInitializeEx", "exited"} THEN 0 ELSE 1
  BY DEF IInv, Paired, ApartmentCounted
<1> USE <1>0 DEF IInv, TypeOK
<1>1. ASSUME NEW w \in Workers,
             CallNewWorker(w) \/ NewWorkerReturns(w) \/ CallDo(w) \/ Send(w) \/ DoReturns(w)
             \/ Stop(w)
      PROVE  (apartment[v] = IF thread[v] \in {"none", "CoInitializeEx", "exited"}
                             THEN 0 ELSE 1)'
  BY <1>1, SMT DEF CallNewWorker, NewWorkerReturns, CallDo, Send, DoReturns, Stop,
                   Starting, Serving, Ended
<1>2. ASSUME NEW w \in Workers, Thread(w)
      PROVE  (apartment[v] = IF thread[v] \in {"none", "CoInitializeEx", "exited"}
                             THEN 0 ELSE 1)'
  BY <1>2, SMT DEF Thread, CoInitializeEx, EnterOnce, InitSecurity, Answer, RunFn, Quit
<1>3. CASE OthersInitSecurity
  BY <1>3, SMT DEF OthersInitSecurity
<1> QED BY <1>1, <1>2, <1>3 DEF Next

\* The OnceValue lets one thread in, and nobody past it before it has an answer.
LEMMA OnceStep == IInv /\ Next => OnceKept'
<1> SUFFICES ASSUME IInv, Next PROVE OnceKept'
  OBVIOUS
<1> USE DEF IInv, TypeOK, OnceKept
<1>1. ASSUME NEW w \in Workers, CallNewWorker(w) PROVE OnceKept'
  BY <1>1, SMT DEF CallNewWorker
<1>2. ASSUME NEW w \in Workers, NewWorkerReturns(w) \/ CallDo(w) \/ DoReturns(w) \/ Stop(w)
      PROVE  OnceKept'
  BY <1>2, SMT DEF NewWorkerReturns, CallDo, DoReturns, Stop
<1>3. ASSUME NEW w \in Workers, Send(w) PROVE OnceKept'
  BY <1>3, SMT DEF Send
<1>4. ASSUME NEW w \in Workers, CoInitializeEx(w) PROVE OnceKept'
  BY <1>4, SMT DEF CoInitializeEx
<1>5. ASSUME NEW w \in Workers, EnterOnce(w) PROVE OnceKept'
  BY <1>5, SMT DEF EnterOnce
<1>6. ASSUME NEW w \in Workers, InitSecurity(w) PROVE OnceKept'
  <2>1. once = "running" /\ verdict = "none"
    BY <1>6, SMT DEF InitSecurity
  <2>2. \A v \in Workers : thread[v] \notin {"select", "fn"}
    BY <2>1, "none" # "ok"
  <2> QED BY <1>6, <2>1, <2>2, SMT DEF InitSecurity
<1>7. ASSUME NEW w \in Workers, Answer(w) PROVE OnceKept'
  BY <1>7, SMT DEF Answer
<1>8. ASSUME NEW w \in Workers, RunFn(w) \/ Quit(w) PROVE OnceKept'
  BY <1>8, SMT DEF RunFn, Quit
<1>9. CASE OthersInitSecurity
  BY <1>9, SMT DEF OthersInitSecurity
<1> QED BY <1>1, <1>2, <1>3, <1>4, <1>5, <1>6, <1>7, <1>8, <1>9 DEF Next, Thread

LEMMA InvStep == IInv /\ [Next]_vars => IInv'
<1>1. IInv /\ UNCHANGED vars => IInv'
  BY SMT DEF IInv, TypeOK, Paired, Starting, Serving, Ended, ApartmentCounted, OnceKept, vars
<1> QED BY <1>1, TypeStep, PairedStep, ApartmentStep, OnceStep DEF IInv

LEMMA Invariance == Spec => []IInv
BY InitHolds, InvStep, PTL DEF Spec

-----------------------------------------------------------------------------
\* The variables of the worker keep their types, whatever number of workers
\* start, call and stop at once.
THEOREM WorkerTypeCorrect == Spec => []TypeOK
BY Invariance, PTL DEF IInv

\* No function runs on a thread outside an apartment, or before the security of
\* the process is set, for any number of workers.
THEOREM InsideCom == Spec => []CallsRunInsideCom
<1>1. IInv => CallsRunInsideCom
  BY SMT DEF IInv, TypeOK, ApartmentCounted, OnceKept, CallsRunInsideCom
<1> QED BY <1>1, Invariance, PTL

\* A thread ends with its apartment given back, and never while its caller
\* still counts on it.
THEOREM NothingLeft == Spec => []ThreadsLeaveNothing
<1>1. IInv => ThreadsLeaveNothing
  BY SMT DEF IInv, TypeOK, Paired, Starting, Serving, Ended, ApartmentCounted,
             ThreadsLeaveNothing
<1> QED BY <1>1, Invariance, PTL

-----------------------------------------------------------------------------
(* The refinement. *)

LEMMA InitRefines == Init => Executor!Init
BY SMT DEF Init, Executor!Init, SessionStates, SessionOf

\* Steps that a session does not see.
LEMMA Hidden ==
    ASSUME UNCHANGED <<caller, asked, ran, verdict>>
    PROVE  UNCHANGED Executor!vars
BY SMT DEF Executor!vars, SessionStates

\* A step of the caller that moves worker w to another state of its session.
LEMMA Moves ==
    ASSUME TypeOK, NEW w \in Workers, NEW c,
           caller' = [caller EXCEPT ![w] = c]
    PROVE  SessionStates' = [SessionStates EXCEPT ![w] = SessionOf(c)]
<1>1. \A v \in Workers : SessionStates'[v] = [SessionStates EXCEPT ![w] = SessionOf(c)][v]
  BY SMT DEF TypeOK, SessionStates, SessionOf
<1> QED BY <1>1, Zenon DEF SessionStates

LEMMA StepRefines == IInv /\ [Next]_vars => [Executor!Next]_(Executor!vars)
<1> SUFFICES ASSUME IInv, [Next]_vars PROVE [Executor!Next]_(Executor!vars)
  OBVIOUS
<1> USE DEF IInv
<1>1. ASSUME NEW w \in Workers, CallNewWorker(w) PROVE UNCHANGED Executor!vars
  <2>1. SessionStates' = SessionStates
    BY <1>1, SMT DEF CallNewWorker, TypeOK, SessionStates, SessionOf
  <2> QED BY <2>1, <1>1 DEF CallNewWorker, Executor!vars
<1>2. ASSUME NEW w \in Workers, NewWorkerReturns(w) PROVE Executor!Open(w) \/ Executor!Refuse(w)
  <2>1. SessionStates[w] = "none"
    BY <1>2, SMT DEF NewWorkerReturns, TypeOK, SessionStates, SessionOf
  <2>2. ready[w] = "nil" => verdict = "ok"
    BY <1>2, SMT DEF NewWorkerReturns, TypeOK, Paired, Starting, Serving, Ended, OnceKept
  <2>3. CASE ready[w] = "nil"
    <3>1. SessionStates' = [SessionStates EXCEPT ![w] = SessionOf("idle")]
      BY <1>2, <2>3, Moves DEF NewWorkerReturns
    <3>2. SessionOf("idle") = "idle"
      BY DEF SessionOf
    <3> QED BY <1>2, <2>1, <2>3, <2>2, <3>1, <3>2 DEF NewWorkerReturns, Executor!Open, Executor!Move
  <2>4. CASE ready[w] # "nil"
    <3>1. SessionStates' = [SessionStates EXCEPT ![w] = SessionOf("refused")]
      BY <1>2, <2>4, Moves DEF NewWorkerReturns
    <3>2. SessionOf("refused") = "refused"
      BY DEF SessionOf
    <3> QED BY <1>2, <2>1, <3>1, <3>2 DEF NewWorkerReturns, Executor!Refuse, Executor!Move
  <2> QED BY <2>3, <2>4
<1>3. ASSUME NEW w \in Workers, CallDo(w) PROVE Executor!Ask(w)
  <2>1. SessionStates[w] = "idle"
    BY <1>3, SMT DEF CallDo, TypeOK, SessionStates, SessionOf
  <2>2. SessionStates' = [SessionStates EXCEPT ![w] = SessionOf("sending")]
    BY <1>3, Moves DEF CallDo
  <2>3. SessionOf("sending") = "busy"
    BY DEF SessionOf
  <2> QED BY <1>3, <2>1, <2>2, <2>3 DEF CallDo, Executor!Ask, Executor!Move
<1>4. ASSUME NEW w \in Workers, Send(w) PROVE UNCHANGED Executor!vars
  <2>1. SessionStates' = SessionStates
    BY <1>4, SMT DEF Send, TypeOK, SessionStates, SessionOf
  <2> QED BY <2>1, <1>4 DEF Send, Executor!vars
<1>5. ASSUME NEW w \in Workers, DoReturns(w) PROVE Executor!Answer(w)
  <2>1. SessionStates[w] = "busy"
    BY <1>5, SMT DEF DoReturns, TypeOK, SessionStates, SessionOf
  <2>2. SessionStates' = [SessionStates EXCEPT ![w] = SessionOf("idle")]
    BY <1>5, Moves DEF DoReturns
  <2>3. SessionOf("idle") = "idle"
    BY DEF SessionOf
  <2>4. ran[w] = asked[w]
    BY <1>5, SMT DEF DoReturns, TypeOK, Paired, Starting, Serving, Ended
  <2> QED BY <1>5, <2>1, <2>2, <2>3, <2>4 DEF DoReturns, Executor!Answer, Executor!Move
<1>6. ASSUME NEW w \in Workers, Stop(w) PROVE Executor!Close(w)
  <2>1. SessionStates[w] = "idle"
    BY <1>6, SMT DEF Stop, TypeOK, SessionStates, SessionOf
  <2>2. SessionStates' = [SessionStates EXCEPT ![w] = SessionOf("stopped")]
    BY <1>6, Moves DEF Stop
  <2>3. SessionOf("stopped") = "stopped"
    BY DEF SessionOf
  <2> QED BY <1>6, <2>1, <2>2, <2>3 DEF Stop, Executor!Close, Executor!Move
<1>7. ASSUME NEW w \in Workers, CoInitializeEx(w) \/ EnterOnce(w) \/ Answer(w) \/ Quit(w)
      PROVE  UNCHANGED Executor!vars
  BY <1>7, Hidden DEF CoInitializeEx, EnterOnce, Answer, Quit
<1>8. ASSUME NEW w \in Workers, InitSecurity(w) PROVE Executor!Settle
  <2>1. verdict = "none"
    BY <1>8, SMT DEF InitSecurity, TypeOK, OnceKept
  <2>2. SessionStates' = SessionStates
    BY <1>8 DEF InitSecurity, SessionStates
  <2> QED BY <1>8, <2>1, <2>2 DEF InitSecurity, Executor!Settle
<1>9. ASSUME NEW w \in Workers, RunFn(w) PROVE Executor!Serve(w)
  <2>1. caller[w] = "waiting" /\ ran[w] < asked[w]
    BY <1>9, SMT DEF RunFn, TypeOK, Paired, Starting, Serving, Ended
  <2>2. SessionStates[w] = "busy"
    BY <2>1, SMT DEF SessionStates, SessionOf
  <2>3. SessionStates' = SessionStates
    BY <1>9 DEF RunFn, SessionStates
  <2> QED BY <1>9, <2>1, <2>2, <2>3 DEF RunFn, Executor!Serve
<1>10. CASE OthersInitSecurity
  BY <1>10, Hidden DEF OthersInitSecurity
<1>11. CASE UNCHANGED vars
  BY <1>11, Hidden DEF vars
<1> QED BY <1>1, <1>2, <1>3, <1>4, <1>5, <1>6, <1>7, <1>8, <1>9, <1>10, <1>11
        DEF Next, Thread, Executor!Next

\* The channels and the OnceValue of the worker implement ComExecutor: one
\* verdict on security for the process, kept for good, and every call served
\* exactly once before it returns, for any number of workers and calls.
THEOREM ExecutorHolds == Spec => ImplementsExecutor
BY InitRefines, StepRefines, Invariance, PTL DEF Spec, ImplementsExecutor, Executor!Spec
=============================================================================
