------------------------- MODULE ShadowCopiesProofs -------------------------
(***************************************************************************)
(* Proofs about ShadowCopies: what a set, a list and the geometry cache    *)
(* have of a copy stays true of it, and what is wrong is only wrong of     *)
(* copies that are gone.                                                   *)
(***************************************************************************)
EXTENDS ShadowCopies, TLAPS

\* A created copy has a device name, and no other created copy has it.
Named ==
    \A i \in Ids : state[i] = "created" =>
        /\ dev[i] \in Devices
        /\ \A j \in Ids : state[j] = "created" /\ dev[j] = dev[i] => i = j

\* A copy that was created keeps its device name, also when it is gone.
NameOf(i, d) == state[i] \in {"created", "gone"} /\ dev[i] = d

SetsNamed ==
    \A p \in Procs :
        /\ kind[p] \in {"none", "making"} => snaps[p] = {}
        /\ \A s \in snaps[p] : NameOf(s.id, s.dev)

\* A list holds what existed when it was asked for.
Listed(p) == view[p] \cup out[p]
ListsNamed ==
    \A p \in Procs : \A e \in Listed(p) :
        e.state = "created" => e.dev \in Devices /\ NameOf(e.id, e.dev)

\* Which calls there are while a process has which set.
Calls ==
    \A p \in Procs :
        /\ pc[p] \in {"idle", "query", "delete"} => Listed(p) = {}
        /\ pc[p] \in {"query", "next", "listed"} => op[p] \in {"Verify", "Attach"}
        /\ pc[p] = "delete" => op[p] = "Delete"
        /\ pc[p] # "idle" => result[p] = "none"
        /\ pc[p] # "idle" /\ op[p] = "Verify" => kind[p] \in {"own", "attached"}
        /\ pc[p] # "idle" /\ op[p] = "Attach" => kind[p] = "none"
        /\ op[p] \in {"Attach", "Delete"} => arg[p] \in Ids /\ state[arg[p]] # "absent"

\* Only what is asked of a copy that is gone is answered from another one.
Misreads ==
    \A p \in Procs :
        /\ \A g \in geom[p] : g[1] # g[2] => state[g[1]] = "gone"
        /\ misread[p] => \E s \in snaps[p] : state[s.id] = "gone"

\* A Verify under way that was called after a misread has no chance.
Vouching ==
    \A p \in Procs :
        /\ op[p] = "Verify" /\ pc[p] # "idle" /\ misreadBefore[p] =>
              \E s \in snaps[p] :
                  /\ state[s.id] = "gone"
                  /\ \A e \in Listed(p) : e.id = s.id => e.state # "created"
        /\ op[p] = "Verify" /\ result[p] = "ok" => ~misreadBefore[p]

Deleted ==
    \A p \in Procs : op[p] = "Delete" /\ result[p] \in {"ok", "notFound"} => state[arg[p]] = "gone"

IInv == TypeOK /\ Named /\ SetsNamed /\ ListsNamed /\ Calls /\ Misreads /\ Vouching /\ Deleted

-----------------------------------------------------------------------------

USE DEF copyVars, setVars, callVars, readVars, States, Snapshots, Entries

\* What a step may do to a copy: a name, once given, stays, and what is gone
\* does not come back.
Moves(i) ==
    /\ state[i] # "absent" => state'[i] # "absent"
    /\ state[i] = "gone" => state'[i] = "gone"
    /\ state[i] = "created" => state'[i] \in {"created", "gone"}
    /\ state[i] \in {"created", "gone"} => dev'[i] = dev[i]

\* Another copy has the name of a copy of the set only once that one is gone.
LEMMA NameTaken ==
    ASSUME TypeOK, Named, SetsNamed, NEW p \in Procs, NEW s \in snaps[p], NEW i \in Ids,
           state[i] = "created", dev[i] = s.dev, s.id # i
    PROVE  state[s.id] = "gone"
<1>1. s.id \in Ids /\ NameOf(s.id, s.dev)
    BY DEF TypeOK, SetsNamed
<1>. QED
    BY <1>1 DEF Named, NameOf

\* The variables of a call keep their types when it is made, when it returns
\* and when it fails.
CallTypes ==
    /\ pc \in [Procs -> {"idle", "query", "next", "listed", "delete"}]
    /\ op \in [Procs -> {"none", "Verify", "Attach", "Delete"}] /\ arg \in [Procs -> Ids \cup {NoId}]
    /\ view \in [Procs -> SUBSET Entries] /\ out \in [Procs -> SUBSET Entries]
    /\ result \in [Procs -> {"none", "ok", "notFound"}]

LEMMA CallTyped ==
    ASSUME CallTypes, NEW p \in Procs, NEW name \in {"Verify", "Attach", "Delete"},
           NEW i \in Ids \cup {NoId}, NEW at \in {"query", "delete"},
           Call(p, name, i, at), UNCHANGED <<view, out>>
    PROVE  CallTypes'
BY DEF CallTypes, Call

LEMMA ReturnTyped ==
    ASSUME CallTypes, NEW p \in Procs, NEW how \in {"ok", "notFound"}, Return(p, how)
    PROVE  CallTypes'
BY DEF CallTypes, Return

LEMMA ErrorTyped ==
    ASSUME CallTypes, NEW p \in Procs, ReturnError(p)
    PROVE  CallTypes'
<1>1. NoId \in Ids \cup {NoId}
    OBVIOUS
<1>. QED
    BY <1>1 DEF CallTypes, ReturnError, Forget

LEMMA ForgetTyped ==
    ASSUME CallTypes, NEW p \in Procs, Forget(p), UNCHANGED <<pc, view, out>>
    PROVE  CallTypes'
<1>1. NoId \in Ids \cup {NoId}
    OBVIOUS
<1>. QED
    BY <1>1 DEF CallTypes, Forget

LEMMA EvictStep ==
    ASSUME IInv, NEW i \in Ids, Evict(i)
    PROVE  IInv'
<1>1. TypeOK /\ Named /\ SetsNamed /\ ListsNamed /\ Calls /\ Misreads /\ Vouching /\ Deleted
    BY DEF IInv
<1>2. TypeOK'
    BY <1>1, CopiesAssumption DEF Evict, TypeOK
<1>3. \A j \in Ids : Moves(j)
    BY <1>1, CopiesAssumption DEF Evict, TypeOK, Moves, Calls
<1>4. Named'
    BY <1>1, <1>2, <1>3 DEF Evict, TypeOK, Named
<1>5. SetsNamed'
    BY <1>1, <1>2, <1>3 DEF Evict, TypeOK, SetsNamed, NameOf, Moves
<1>6. ListsNamed'
    BY <1>1, <1>2, <1>3 DEF Evict, TypeOK, ListsNamed, NameOf, Moves, Listed
<1>7. Calls'
    BY <1>1, <1>2, <1>3 DEF Evict, TypeOK, Calls, Moves, Listed
<1>8. Misreads'
    BY <1>1, <1>2, <1>3 DEF Evict, TypeOK, Misreads, Moves
<1>9. Vouching'
    BY <1>1, <1>2, <1>3 DEF Evict, TypeOK, Vouching, Moves, Listed
<1>10. Deleted'
    BY <1>1, <1>2, <1>3 DEF Evict, TypeOK, Deleted, Moves, Calls
<1>. QED
    BY <1>2, <1>4, <1>5, <1>6, <1>7, <1>8, <1>9, <1>10 DEF IInv

LEMMA CreateSetStep ==
    ASSUME IInv, NEW p \in Procs, NEW S \in SUBSET Ids, NEW persistent \in BOOLEAN, CreateSet(p, S, persistent)
    PROVE  IInv'
<1>1. TypeOK /\ Named /\ SetsNamed /\ ListsNamed /\ Calls /\ Misreads /\ Vouching /\ Deleted
    BY DEF IInv
<1>2. TypeOK'
    BY <1>1, CopiesAssumption DEF CreateSet, TypeOK
<1>3. \A j \in Ids : Moves(j)
    BY <1>1, CopiesAssumption DEF CreateSet, TypeOK, Moves, Calls
<1>4. Named'
    BY <1>1, <1>2, <1>3 DEF CreateSet, TypeOK, Named
<1>5. SetsNamed'
    BY <1>1, <1>2, <1>3 DEF CreateSet, TypeOK, SetsNamed, NameOf, Moves
<1>6. ListsNamed'
    BY <1>1, <1>2, <1>3 DEF CreateSet, TypeOK, ListsNamed, NameOf, Moves, Listed
<1>7. Calls'
    BY <1>1, <1>2, <1>3 DEF CreateSet, TypeOK, Calls, Moves, Listed
<1>8. Misreads'
    BY <1>1, <1>2, <1>3 DEF CreateSet, TypeOK, Misreads, Moves
<1>9. Vouching'
    BY <1>1, <1>2, <1>3 DEF CreateSet, TypeOK, Vouching, Moves, Listed, Calls
<1>10. Deleted'
    BY <1>1, <1>2, <1>3 DEF CreateSet, TypeOK, Deleted, Moves, Calls
<1>. QED
    BY <1>2, <1>4, <1>5, <1>6, <1>7, <1>8, <1>9, <1>10 DEF IInv

LEMMA CreateSetReturnsStep ==
    ASSUME IInv, NEW p \in Procs, CreateSetReturns(p)
    PROVE  IInv'
<1>1. TypeOK /\ Named /\ SetsNamed /\ ListsNamed /\ Calls /\ Misreads /\ Vouching /\ Deleted
    BY DEF IInv
<1>2. TypeOK'
    BY <1>1, CopiesAssumption DEF CreateSetReturns, FreshNames, InUse, MadeBy, TypeOK
<1>3. \A j \in Ids : Moves(j)
    BY <1>1, CopiesAssumption DEF CreateSetReturns, FreshNames, InUse, MadeBy, TypeOK, Moves, Calls
<1>4. Named'
    BY <1>1, <1>2, <1>3 DEF CreateSetReturns, FreshNames, InUse, MadeBy, TypeOK, Named
<1>5. SetsNamed'
    BY <1>1, <1>2, <1>3
       DEF CreateSetReturns, FreshNames, InUse, MadeBy, TypeOK, SetsNamed, NameOf, Moves, Calls
<1>6. ListsNamed'
    BY <1>1, <1>2, <1>3
       DEF CreateSetReturns, FreshNames, InUse, MadeBy, TypeOK, ListsNamed, NameOf, Moves,
           Listed
<1>7. Calls'
    BY <1>1, <1>2, <1>3
       DEF CreateSetReturns, FreshNames, InUse, MadeBy, TypeOK, Calls, Moves, Listed
<1>8. Misreads'
  <2>1. ASSUME NEW q \in Procs, NEW g \in geom'[q], g[1] # g[2]
        PROVE  state'[g[1]] = "gone"
    BY <1>1, <1>3, <2>1 DEF CreateSetReturns, TypeOK, Misreads, Moves
  <2>2. ASSUME NEW q \in Procs, misread'[q]
        PROVE  \E s \in snaps'[q] : state'[s.id] = "gone"
    <3>1. q # p /\ misread[q]
      BY <1>1, <2>2 DEF CreateSetReturns, TypeOK, Misreads, SetsNamed
    <3>2. PICK s \in snaps[q] : state[s.id] = "gone"
      BY <1>1, <3>1 DEF Misreads
    <3>3. snaps'[q] = snaps[q] /\ state'[s.id] = "gone"
      BY <1>1, <1>3, <3>1, <3>2 DEF CreateSetReturns, TypeOK, Moves
    <3>. QED
      BY <3>2, <3>3
  <2>. QED
    BY <2>1, <2>2 DEF Misreads
<1>9. Vouching'
  <2>1. ASSUME NEW q \in Procs, op'[q] = "Verify", pc'[q] # "idle", misreadBefore'[q]
        PROVE  \E s \in snaps'[q] :
                  /\ state'[s.id] = "gone"
                  /\ \A e \in Listed(q)' : e.id = s.id => e.state # "created"
    <3>1. op[q] = "Verify" /\ pc[q] # "idle" /\ misreadBefore[q] /\ q # p
      BY <1>1, <2>1 DEF CreateSetReturns, TypeOK, Calls
    <3>2. PICK s \in snaps[q] :
              state[s.id] = "gone" /\ \A e \in Listed(q) : e.id = s.id => e.state # "created"
      BY <1>1, <3>1 DEF Vouching
    <3>3. snaps'[q] = snaps[q] /\ view'[q] = view[q] /\ out'[q] = out[q]
      BY <1>1, <3>1 DEF CreateSetReturns, TypeOK
    <3>4. state'[s.id] = "gone"
      BY <1>1, <1>3, <3>2 DEF TypeOK, Moves
    <3>. QED
      BY <3>2, <3>3, <3>4 DEF Listed
  <2>2. ASSUME NEW q \in Procs, op'[q] = "Verify", result'[q] = "ok"
        PROVE  ~misreadBefore'[q]
    BY <1>1, <2>2 DEF CreateSetReturns, TypeOK, Vouching
  <2>. QED
    BY <2>1, <2>2 DEF Vouching
<1>10. Deleted'
    BY <1>1, <1>2, <1>3
       DEF CreateSetReturns, FreshNames, InUse, MadeBy, TypeOK, Deleted, Moves, Calls
<1>. QED
    BY <1>2, <1>4, <1>5, <1>6, <1>7, <1>8, <1>9, <1>10 DEF IInv

LEMMA CreateSetFailsStep ==
    ASSUME IInv, NEW p \in Procs, CreateSetFails(p)
    PROVE  IInv'
<1>1. TypeOK /\ Named /\ SetsNamed /\ ListsNamed /\ Calls /\ Misreads /\ Vouching /\ Deleted
    BY DEF IInv
<1>2. TypeOK'
    BY <1>1, CopiesAssumption DEF CreateSetFails, MadeBy, TypeOK
<1>3. \A j \in Ids : Moves(j)
    BY <1>1, CopiesAssumption DEF CreateSetFails, MadeBy, TypeOK, Moves, Calls
<1>4. Named'
    BY <1>1, <1>2, <1>3 DEF CreateSetFails, MadeBy, TypeOK, Named
<1>5. SetsNamed'
    BY <1>1, <1>2, <1>3 DEF CreateSetFails, MadeBy, TypeOK, SetsNamed, NameOf, Moves
<1>6. ListsNamed'
    BY <1>1, <1>2, <1>3 DEF CreateSetFails, MadeBy, TypeOK, ListsNamed, NameOf, Moves, Listed
<1>7. Calls'
    BY <1>1, <1>2, <1>3 DEF CreateSetFails, MadeBy, TypeOK, Calls, Moves, Listed
<1>8. Misreads'
    BY <1>1, <1>2, <1>3 DEF CreateSetFails, MadeBy, TypeOK, Misreads, Moves
<1>9. Vouching'
    BY <1>1, <1>2, <1>3 DEF CreateSetFails, MadeBy, TypeOK, Vouching, Moves, Listed
<1>10. Deleted'
    BY <1>1, <1>2, <1>3 DEF CreateSetFails, MadeBy, TypeOK, Deleted, Moves, Calls
<1>. QED
    BY <1>2, <1>4, <1>5, <1>6, <1>7, <1>8, <1>9, <1>10 DEF IInv

LEMMA CreateSetLeavesStep ==
    ASSUME IInv, NEW p \in Procs, CreateSetLeaves(p)
    PROVE  IInv'
<1>1. TypeOK /\ Named /\ SetsNamed /\ ListsNamed /\ Calls /\ Misreads /\ Vouching /\ Deleted
    BY DEF IInv
<1>2. TypeOK'
    BY <1>1, CopiesAssumption DEF CreateSetLeaves, FreshNames, InUse, MadeBy, TypeOK
<1>3. \A j \in Ids : Moves(j)
    BY <1>1, CopiesAssumption DEF CreateSetLeaves, FreshNames, InUse, MadeBy, TypeOK, Moves, Calls
<1>4. Named'
    BY <1>1, <1>2, <1>3 DEF CreateSetLeaves, FreshNames, InUse, MadeBy, TypeOK, Named
<1>5. SetsNamed'
    BY <1>1, <1>2, <1>3 DEF CreateSetLeaves, FreshNames, InUse, MadeBy, TypeOK, SetsNamed, NameOf, Moves
<1>6. ListsNamed'
    BY <1>1, <1>2, <1>3 DEF CreateSetLeaves, TypeOK, ListsNamed, NameOf, Moves, Listed
<1>7. Calls'
    BY <1>1, <1>2, <1>3 DEF CreateSetLeaves, TypeOK, Calls, Moves, Listed
<1>8. Misreads'
    BY <1>1, <1>2, <1>3 DEF CreateSetLeaves, TypeOK, Misreads, Moves
<1>9. Vouching'
  <2>1. UNCHANGED <<callVars, readVars, snaps>>
    BY DEF CreateSetLeaves
  <2>2. ASSUME NEW q \in Procs, op[q] = "Verify", pc[q] # "idle", misreadBefore[q]
        PROVE  \E s \in snaps[q] :
                  /\ state'[s.id] = "gone"
                  /\ \A e \in Listed(q) : e.id = s.id => e.state # "created"
    <3>1. PICK s \in snaps[q] :
              state[s.id] = "gone" /\ \A e \in Listed(q) : e.id = s.id => e.state # "created"
      BY <1>1, <2>2 DEF Vouching
    <3>2. s.id \in Ids
      BY <1>1 DEF TypeOK
    <3>. QED
      BY <1>3, <3>1, <3>2 DEF Moves
  <2>. QED
    BY <1>1, <2>1, <2>2 DEF Vouching, Listed
<1>10. Deleted'
    BY <1>1, <1>2, <1>3 DEF CreateSetLeaves, TypeOK, Deleted, Moves, Calls
<1>. QED
    BY <1>2, <1>4, <1>5, <1>6, <1>7, <1>8, <1>9, <1>10 DEF IInv

LEMMA CloseStep ==
    ASSUME IInv, NEW p \in Procs, Close(p)
    PROVE  IInv'
<1>1. TypeOK /\ Named /\ SetsNamed /\ ListsNamed /\ Calls /\ Misreads /\ Vouching /\ Deleted
    BY DEF IInv
<1>2. TypeOK'
    BY <1>1, CopiesAssumption DEF Close, SessionReleased, Exists, TypeOK
<1>3. \A j \in Ids : Moves(j)
    BY <1>1, CopiesAssumption DEF Close, SessionReleased, Exists, TypeOK, Moves, Calls
<1>4. Named'
    BY <1>1, <1>2, <1>3 DEF Close, SessionReleased, Exists, TypeOK, Named
<1>5. SetsNamed'
    BY <1>1, <1>2, <1>3 DEF Close, SessionReleased, Exists, TypeOK, SetsNamed, NameOf, Moves
<1>6. ListsNamed'
    BY <1>1, <1>2, <1>3
       DEF Close, SessionReleased, Exists, TypeOK, ListsNamed, NameOf, Moves, Listed
<1>7. Calls'
    BY <1>1, <1>2, <1>3 DEF Close, SessionReleased, Exists, TypeOK, Calls, Moves, Listed
<1>8. Misreads'
    BY <1>1, <1>2, <1>3 DEF Close, SessionReleased, Exists, TypeOK, Misreads, Moves
<1>9. Vouching'
  <2>1. ASSUME NEW q \in Procs, op'[q] = "Verify", pc'[q] # "idle", misreadBefore'[q]
        PROVE  \E s \in snaps'[q] :
                  /\ state'[s.id] = "gone"
                  /\ \A e \in Listed(q)' : e.id = s.id => e.state # "created"
    <3>1. op[q] = "Verify" /\ pc[q] # "idle" /\ misreadBefore[q]
      BY <1>1, <2>1 DEF Close, TypeOK, Calls
    <3>2. PICK s \in snaps[q] :
              state[s.id] = "gone" /\ \A e \in Listed(q) : e.id = s.id => e.state # "created"
      BY <1>1, <3>1 DEF Vouching
    <3>3. snaps'[q] = snaps[q] /\ view'[q] = view[q] /\ out'[q] = out[q]
      BY <1>1, <3>1 DEF Close, TypeOK
    <3>4. state'[s.id] = "gone"
      BY <1>1, <1>3, <3>2 DEF TypeOK, Moves
    <3>. QED
      BY <3>2, <3>3, <3>4 DEF Listed
  <2>2. ASSUME NEW q \in Procs, op'[q] = "Verify", result'[q] = "ok"
        PROVE  ~misreadBefore'[q]
    BY <1>1, <2>2 DEF Close, TypeOK, Vouching
  <2>. QED
    BY <2>1, <2>2 DEF Vouching
<1>10. Deleted'
    BY <1>1, <1>2, <1>3 DEF Close, SessionReleased, Exists, TypeOK, Deleted, Moves, Calls
<1>. QED
    BY <1>2, <1>4, <1>5, <1>6, <1>7, <1>8, <1>9, <1>10 DEF IInv

LEMMA DropStep ==
    ASSUME IInv, NEW p \in Procs, Drop(p)
    PROVE  IInv'
<1>1. TypeOK /\ Named /\ SetsNamed /\ ListsNamed /\ Calls /\ Misreads /\ Vouching /\ Deleted
    BY DEF IInv
<1>2. TypeOK'
    BY <1>1, CopiesAssumption DEF Drop, Forget, TypeOK
<1>3. \A j \in Ids : Moves(j)
    BY <1>1, CopiesAssumption DEF Drop, Forget, TypeOK, Moves, Calls
<1>4. Named'
    BY <1>1, <1>2, <1>3 DEF Drop, Forget, TypeOK, Named
<1>5. SetsNamed'
    BY <1>1, <1>2, <1>3 DEF Drop, Forget, TypeOK, SetsNamed, NameOf, Moves
<1>6. ListsNamed'
    BY <1>1, <1>2, <1>3 DEF Drop, Forget, TypeOK, ListsNamed, NameOf, Moves, Listed
<1>7. Calls'
    BY <1>1, <1>2, <1>3 DEF Drop, Forget, TypeOK, Calls, Moves, Listed
<1>8. Misreads'
    BY <1>1, <1>2, <1>3 DEF Drop, Forget, TypeOK, Misreads, Moves
<1>9. Vouching'
    BY <1>1, <1>2, <1>3 DEF Drop, Forget, TypeOK, Vouching, Moves, Listed
<1>10. Deleted'
    BY <1>1, <1>2, <1>3 DEF Drop, Forget, TypeOK, Deleted, Moves, Calls
<1>. QED
    BY <1>2, <1>4, <1>5, <1>6, <1>7, <1>8, <1>9, <1>10 DEF IInv

LEMMA DieStep ==
    ASSUME IInv, NEW p \in Procs, Die(p)
    PROVE  IInv'
<1>1. TypeOK /\ Named /\ SetsNamed /\ ListsNamed /\ Calls /\ Misreads /\ Vouching /\ Deleted
    BY DEF IInv
<1>2. TypeOK'
    BY <1>1, CopiesAssumption DEF Die, SessionReleased, Exists, Forget, TypeOK
<1>3. \A j \in Ids : Moves(j)
    BY <1>1, CopiesAssumption DEF Die, SessionReleased, Exists, Forget, TypeOK, Moves, Calls
<1>4. Named'
    BY <1>1, <1>2, <1>3 DEF Die, SessionReleased, Exists, Forget, TypeOK, Named
<1>5. SetsNamed'
    BY <1>1, <1>2, <1>3 DEF Die, SessionReleased, Exists, Forget, TypeOK, SetsNamed, NameOf, Moves
<1>6. ListsNamed'
    BY <1>1, <1>2, <1>3
       DEF Die, SessionReleased, Exists, Forget, TypeOK, ListsNamed, NameOf, Moves, Listed
<1>7. Calls'
    BY <1>1, <1>2, <1>3 DEF Die, SessionReleased, Exists, Forget, TypeOK, Calls, Moves, Listed
<1>8. Misreads'
  <2>1. ASSUME NEW q \in Procs, NEW g \in geom'[q], g[1] # g[2]
        PROVE  state'[g[1]] = "gone"
    BY <1>1, <1>3, <2>1 DEF Die, Forget, TypeOK, Misreads, Moves
  <2>2. ASSUME NEW q \in Procs, misread'[q]
        PROVE  \E s \in snaps'[q] : state'[s.id] = "gone"
    <3>1. q # p /\ misread[q]
      BY <1>1, <2>2 DEF Die, Forget, TypeOK, Misreads
    <3>2. PICK s \in snaps[q] : state[s.id] = "gone"
      BY <1>1, <3>1 DEF Misreads
    <3>3. snaps'[q] = snaps[q] /\ state'[s.id] = "gone"
      BY <1>1, <1>3, <3>1, <3>2 DEF Die, Forget, TypeOK, Moves
    <3>. QED
      BY <3>2, <3>3
  <2>. QED
    BY <2>1, <2>2 DEF Misreads
<1>9. Vouching'
  <2>1. ASSUME NEW q \in Procs, op'[q] = "Verify", pc'[q] # "idle", misreadBefore'[q]
        PROVE  \E s \in snaps'[q] :
                  /\ state'[s.id] = "gone"
                  /\ \A e \in Listed(q)' : e.id = s.id => e.state # "created"
    <3>1. op[q] = "Verify" /\ pc[q] # "idle" /\ misreadBefore[q] /\ q # p
      BY <1>1, <2>1 DEF Die, Forget, TypeOK, Calls
    <3>2. PICK s \in snaps[q] :
              state[s.id] = "gone" /\ \A e \in Listed(q) : e.id = s.id => e.state # "created"
      BY <1>1, <3>1 DEF Vouching
    <3>3. snaps'[q] = snaps[q] /\ view'[q] = view[q] /\ out'[q] = out[q]
      BY <1>1, <3>1 DEF Die, Forget, TypeOK
    <3>4. state'[s.id] = "gone"
      BY <1>1, <1>3, <3>2 DEF TypeOK, Moves
    <3>. QED
      BY <3>2, <3>3, <3>4 DEF Listed
  <2>2. ASSUME NEW q \in Procs, op'[q] = "Verify", result'[q] = "ok"
        PROVE  ~misreadBefore'[q]
    BY <1>1, <2>2 DEF Die, Forget, TypeOK, Vouching
  <2>. QED
    BY <2>1, <2>2 DEF Vouching
<1>10. Deleted'
    BY <1>1, <1>2, <1>3 DEF Die, SessionReleased, Exists, Forget, TypeOK, Deleted, Moves, Calls
<1>. QED
    BY <1>2, <1>4, <1>5, <1>6, <1>7, <1>8, <1>9, <1>10 DEF IInv

LEMMA ReadStep ==
    ASSUME IInv, NEW p \in Procs, Read(p)
    PROVE  IInv'
<1>1. TypeOK /\ Named /\ SetsNamed /\ ListsNamed /\ Calls /\ Misreads /\ Vouching /\ Deleted
    BY DEF IInv
<1>2. TypeOK'
    BY <1>1, CopiesAssumption DEF Read, GotData, TypeOK
<1>3. \A j \in Ids : Moves(j)
    BY <1>1, CopiesAssumption DEF Read, GotData, TypeOK, Moves, Calls
<1>4. Named'
    BY <1>1, <1>2, <1>3 DEF Read, GotData, TypeOK, Named
<1>5. SetsNamed'
    BY <1>1, <1>2, <1>3 DEF Read, GotData, TypeOK, SetsNamed, NameOf, Moves
<1>6. ListsNamed'
    BY <1>1, <1>2, <1>3 DEF Read, GotData, TypeOK, ListsNamed, NameOf, Moves, Listed
<1>7. Calls'
    BY <1>1, <1>2, <1>3 DEF Read, GotData, TypeOK, Calls, Moves, Listed
<1>8. Misreads'
  <2>1. PICK s \in snaps[p], i \in Ids : state[i] = "created" /\ dev[i] = s.dev /\ GotData(p, s.id, i)
    BY DEF Read
  <2>2. s.id # i => state[s.id] = "gone"
    BY <1>1, <2>1, NameTaken
  <2>3. UNCHANGED <<state, snaps, geom>>
    BY DEF Read
  <2>. QED
    BY <1>1, <2>1, <2>2, <2>3 DEF Misreads, GotData, TypeOK
<1>9. Vouching'
    BY <1>1, <1>2, <1>3 DEF Read, GotData, TypeOK, Vouching, Moves, Listed
<1>10. Deleted'
    BY <1>1, <1>2, <1>3 DEF Read, GotData, TypeOK, Deleted, Moves, Calls
<1>. QED
    BY <1>2, <1>4, <1>5, <1>6, <1>7, <1>8, <1>9, <1>10 DEF IInv

LEMMA VolumeGeometryStep ==
    ASSUME IInv, NEW p \in Procs, VolumeGeometry(p)
    PROVE  IInv'
<1>1. TypeOK /\ Named /\ SetsNamed /\ ListsNamed /\ Calls /\ Misreads /\ Vouching /\ Deleted
    BY DEF IInv
<1>2. TypeOK'
  <2>1. geom' \in [Procs -> SUBSET (Ids \X Ids)]
    BY <1>1 DEF VolumeGeometry, GotData, TypeOK
  <2>2. misread' \in [Procs -> BOOLEAN]
    <3>1. \E b \in BOOLEAN : misread' = [misread EXCEPT ![p] = b]
      BY <1>1, Zenon DEF VolumeGeometry, GotData, TypeOK
    <3>. QED
      BY <1>1, <3>1 DEF TypeOK
  <2>. QED
    BY <1>1, <2>1, <2>2 DEF VolumeGeometry, TypeOK
<1>3. \A j \in Ids : Moves(j)
    BY <1>1, CopiesAssumption DEF VolumeGeometry, GotData, TypeOK, Moves, Calls
<1>4. Named'
    BY <1>1, <1>2, <1>3 DEF VolumeGeometry, GotData, TypeOK, Named
<1>5. SetsNamed'
    BY <1>1, <1>2, <1>3 DEF VolumeGeometry, GotData, TypeOK, SetsNamed, NameOf, Moves
<1>6. ListsNamed'
    BY <1>1, <1>2, <1>3 DEF VolumeGeometry, GotData, TypeOK, ListsNamed, NameOf, Moves, Listed
<1>7. Calls'
    BY <1>1, <1>2, <1>3 DEF VolumeGeometry, GotData, TypeOK, Calls, Moves, Listed
<1>8. Misreads'
  <2>1. PICK s \in snaps[p] :
            LET hits == {g \in geom[p] : g[1] = s.id}
            IN  \/ \E g \in hits : GotData(p, s.id, g[2]) /\ UNCHANGED geom
                \/ hits = {} /\ \E i \in Ids :
                    /\ state[i] = "created" /\ dev[i] = s.dev
                    /\ geom' = [geom EXCEPT ![p] = @ \cup {<<s.id, i>>}]
                    /\ GotData(p, s.id, i)
    BY DEF VolumeGeometry
  <2>2. UNCHANGED <<state, snaps>>
    BY DEF VolumeGeometry
  <2>3. CASE \E g \in geom[p] : g[1] = s.id /\ GotData(p, s.id, g[2]) /\ UNCHANGED geom
    BY <1>1, <2>2, <2>3 DEF Misreads, GotData, TypeOK
  <2>4. CASE \E i \in Ids : /\ state[i] = "created" /\ dev[i] = s.dev
                            /\ geom' = [geom EXCEPT ![p] = @ \cup {<<s.id, i>>}]
                            /\ GotData(p, s.id, i)
    <3>1. PICK i \in Ids : /\ state[i] = "created" /\ dev[i] = s.dev
                           /\ geom' = [geom EXCEPT ![p] = @ \cup {<<s.id, i>>}]
                           /\ GotData(p, s.id, i)
      BY <2>4
    <3>2. s.id # i => state[s.id] = "gone"
      BY <1>1, <3>1, NameTaken
    <3>3. \A q \in Procs : \A g \in geom'[q] : g[1] # g[2] => state'[g[1]] = "gone"
      BY <1>1, <2>2, <3>1, <3>2 DEF Misreads, TypeOK
    <3>4. \A q \in Procs : misread'[q] => \E t \in snaps'[q] : state'[t.id] = "gone"
      BY <1>1, <2>2, <3>1, <3>2 DEF Misreads, GotData, TypeOK
    <3>. QED
      BY <3>3, <3>4 DEF Misreads
  <2>. QED
    BY <2>1, <2>3, <2>4
<1>9. Vouching'
    BY <1>1, <1>2, <1>3 DEF VolumeGeometry, GotData, TypeOK, Vouching, Moves, Listed
<1>10. Deleted'
    BY <1>1, <1>2, <1>3 DEF VolumeGeometry, GotData, TypeOK, Deleted, Moves, Calls
<1>. QED
    BY <1>2, <1>4, <1>5, <1>6, <1>7, <1>8, <1>9, <1>10 DEF IInv

LEMMA VerifyCalledStep ==
    ASSUME IInv, NEW p \in Procs, VerifyCalled(p)
    PROVE  IInv'
<1>1. TypeOK /\ Named /\ SetsNamed /\ ListsNamed /\ Calls /\ Misreads /\ Vouching /\ Deleted
    BY DEF IInv
<1>2. TypeOK'
  <2>1. CallTypes
    BY <1>1 DEF TypeOK, CallTypes
  <2>2. CASE Forget(p) /\ UNCHANGED <<pc, misreadBefore, view, out>>
    BY <1>1, <2>1, <2>2, ForgetTyped DEF VerifyCalled, TypeOK, CallTypes
  <2>3. CASE Call(p, "Verify", NoId, "query") /\ misreadBefore' = [misreadBefore EXCEPT ![p] = misread[p]]
    <3>1. CallTypes'
      BY <2>1, <2>3, CallTyped DEF VerifyCalled
    <3>2. misreadBefore' \in [Procs -> BOOLEAN]
      BY <1>1, <2>3, Zenon DEF TypeOK
    <3>. QED
      BY <1>1, <3>1, <3>2 DEF VerifyCalled, TypeOK, CallTypes
  <2>. QED
    BY <2>2, <2>3 DEF VerifyCalled
<1>3. \A j \in Ids : Moves(j)
    BY <1>1, CopiesAssumption DEF VerifyCalled, Call, Forget, TypeOK, Moves, Calls
<1>4. Named'
    BY <1>1, <1>2, <1>3 DEF VerifyCalled, Call, Forget, TypeOK, Named
<1>5. SetsNamed'
    BY <1>1, <1>2, <1>3 DEF VerifyCalled, Call, Forget, TypeOK, SetsNamed, NameOf, Moves
<1>6. ListsNamed'
    BY <1>1, <1>2, <1>3 DEF VerifyCalled, Call, Forget, TypeOK, ListsNamed, NameOf, Moves, Listed
<1>7. Calls'
    BY <1>1, <1>2, <1>3 DEF VerifyCalled, Call, Forget, TypeOK, Calls, Moves, Listed
<1>8. Misreads'
    BY <1>1, <1>2, <1>3 DEF VerifyCalled, Call, Forget, TypeOK, Misreads, Moves
<1>9. Vouching'
    BY <1>1, <1>2, <1>3
       DEF VerifyCalled, Call, Forget, TypeOK, Vouching, Moves, Listed, Misreads, Calls
<1>10. Deleted'
    BY <1>1, <1>2, <1>3 DEF VerifyCalled, Call, Forget, TypeOK, Deleted, Moves, Calls
<1>. QED
    BY <1>2, <1>4, <1>5, <1>6, <1>7, <1>8, <1>9, <1>10 DEF IInv

LEMMA AttachCalledStep ==
    ASSUME IInv, NEW p \in Procs, NEW i \in Ids, AttachCalled(p, i)
    PROVE  IInv'
<1>1. TypeOK /\ Named /\ SetsNamed /\ ListsNamed /\ Calls /\ Misreads /\ Vouching /\ Deleted
    BY DEF IInv
<1>2. TypeOK'
    BY <1>1, CopiesAssumption DEF AttachCalled, Call, TypeOK
<1>3. \A j \in Ids : Moves(j)
    BY <1>1, CopiesAssumption DEF AttachCalled, Call, TypeOK, Moves, Calls
<1>4. Named'
    BY <1>1, <1>2, <1>3 DEF AttachCalled, Call, TypeOK, Named
<1>5. SetsNamed'
    BY <1>1, <1>2, <1>3 DEF AttachCalled, Call, TypeOK, SetsNamed, NameOf, Moves
<1>6. ListsNamed'
    BY <1>1, <1>2, <1>3 DEF AttachCalled, Call, TypeOK, ListsNamed, NameOf, Moves, Listed
<1>7. Calls'
    BY <1>1, <1>2, <1>3 DEF AttachCalled, Call, TypeOK, Calls, Moves, Listed
<1>8. Misreads'
    BY <1>1, <1>2, <1>3 DEF AttachCalled, Call, TypeOK, Misreads, Moves
<1>9. Vouching'
    BY <1>1, <1>2, <1>3 DEF AttachCalled, Call, TypeOK, Vouching, Moves, Listed
<1>10. Deleted'
    BY <1>1, <1>2, <1>3 DEF AttachCalled, Call, TypeOK, Deleted, Moves, Calls
<1>. QED
    BY <1>2, <1>4, <1>5, <1>6, <1>7, <1>8, <1>9, <1>10 DEF IInv

LEMMA DeleteCalledStep ==
    ASSUME IInv, NEW p \in Procs, NEW i \in Ids, DeleteCalled(p, i)
    PROVE  IInv'
<1>1. TypeOK /\ Named /\ SetsNamed /\ ListsNamed /\ Calls /\ Misreads /\ Vouching /\ Deleted
    BY DEF IInv
<1>2. TypeOK'
    BY <1>1, CopiesAssumption DEF DeleteCalled, Call, TypeOK
<1>3. \A j \in Ids : Moves(j)
    BY <1>1, CopiesAssumption DEF DeleteCalled, Call, TypeOK, Moves, Calls
<1>4. Named'
    BY <1>1, <1>2, <1>3 DEF DeleteCalled, Call, TypeOK, Named
<1>5. SetsNamed'
    BY <1>1, <1>2, <1>3 DEF DeleteCalled, Call, TypeOK, SetsNamed, NameOf, Moves
<1>6. ListsNamed'
    BY <1>1, <1>2, <1>3 DEF DeleteCalled, Call, TypeOK, ListsNamed, NameOf, Moves, Listed
<1>7. Calls'
    BY <1>1, <1>2, <1>3 DEF DeleteCalled, Call, TypeOK, Calls, Moves, Listed
<1>8. Misreads'
    BY <1>1, <1>2, <1>3 DEF DeleteCalled, Call, TypeOK, Misreads, Moves
<1>9. Vouching'
    BY <1>1, <1>2, <1>3 DEF DeleteCalled, Call, TypeOK, Vouching, Moves, Listed
<1>10. Deleted'
    BY <1>1, <1>2, <1>3 DEF DeleteCalled, Call, TypeOK, Deleted, Moves, Calls
<1>. QED
    BY <1>2, <1>4, <1>5, <1>6, <1>7, <1>8, <1>9, <1>10 DEF IInv

LEMMA CallFailsStep ==
    ASSUME IInv, NEW p \in Procs, CallFails(p)
    PROVE  IInv'
<1>1. TypeOK /\ Named /\ SetsNamed /\ ListsNamed /\ Calls /\ Misreads /\ Vouching /\ Deleted
    BY DEF IInv
<1>2. TypeOK'
    BY <1>1, CopiesAssumption DEF CallFails, ReturnError, Forget, TypeOK
<1>3. \A j \in Ids : Moves(j)
    BY <1>1, CopiesAssumption DEF CallFails, ReturnError, Forget, TypeOK, Moves, Calls
<1>4. Named'
    BY <1>1, <1>2, <1>3 DEF CallFails, ReturnError, Forget, TypeOK, Named
<1>5. SetsNamed'
    BY <1>1, <1>2, <1>3 DEF CallFails, ReturnError, Forget, TypeOK, SetsNamed, NameOf, Moves
<1>6. ListsNamed'
    BY <1>1, <1>2, <1>3
       DEF CallFails, ReturnError, Forget, TypeOK, ListsNamed, NameOf, Moves, Listed
<1>7. Calls'
    BY <1>1, <1>2, <1>3 DEF CallFails, ReturnError, Forget, TypeOK, Calls, Moves, Listed
<1>8. Misreads'
    BY <1>1, <1>2, <1>3 DEF CallFails, ReturnError, Forget, TypeOK, Misreads, Moves
<1>9. Vouching'
    BY <1>1, <1>2, <1>3 DEF CallFails, ReturnError, Forget, TypeOK, Vouching, Moves, Listed
<1>10. Deleted'
    BY <1>1, <1>2, <1>3 DEF CallFails, ReturnError, Forget, TypeOK, Deleted, Moves, Calls
<1>. QED
    BY <1>2, <1>4, <1>5, <1>6, <1>7, <1>8, <1>9, <1>10 DEF IInv

LEMMA QueryStep ==
    ASSUME IInv, NEW p \in Procs, Query(p)
    PROVE  IInv'
<1>1. TypeOK /\ Named /\ SetsNamed /\ ListsNamed /\ Calls /\ Misreads /\ Vouching /\ Deleted
    BY DEF IInv
<1>2. TypeOK'
    BY <1>1, CopiesAssumption DEF Query, Exists, TypeOK
<1>3. \A j \in Ids : Moves(j)
    BY <1>1, CopiesAssumption DEF Query, Exists, TypeOK, Moves, Calls
<1>4. Named'
    BY <1>1, <1>2, <1>3 DEF Query, Exists, TypeOK, Named
<1>5. SetsNamed'
    BY <1>1, <1>2, <1>3 DEF Query, Exists, TypeOK, SetsNamed, NameOf, Moves
<1>6. ListsNamed'
    BY <1>1, <1>2, <1>3 DEF Query, Exists, TypeOK, ListsNamed, NameOf, Moves, Listed, Named
<1>7. Calls'
    BY <1>1, <1>2, <1>3 DEF Query, Exists, TypeOK, Calls, Moves, Listed
<1>8. Misreads'
    BY <1>1, <1>2, <1>3 DEF Query, Exists, TypeOK, Misreads, Moves
<1>9. Vouching'
    BY <1>1, <1>2, <1>3 DEF Query, Exists, TypeOK, Vouching, Moves, Listed, Calls
<1>10. Deleted'
    BY <1>1, <1>2, <1>3 DEF Query, Exists, TypeOK, Deleted, Moves, Calls
<1>. QED
    BY <1>2, <1>4, <1>5, <1>6, <1>7, <1>8, <1>9, <1>10 DEF IInv

LEMMA ListNextStep ==
    ASSUME IInv, NEW p \in Procs, ListNext(p)
    PROVE  IInv'
<1>1. TypeOK /\ Named /\ SetsNamed /\ ListsNamed /\ Calls /\ Misreads /\ Vouching /\ Deleted
    BY DEF IInv
<1>2. TypeOK'
    BY <1>1, CopiesAssumption DEF ListNext, TypeOK
<1>3. \A j \in Ids : Moves(j)
    BY <1>1, CopiesAssumption DEF ListNext, TypeOK, Moves, Calls
<1>4. Named'
    BY <1>1, <1>2, <1>3 DEF ListNext, TypeOK, Named
<1>5. SetsNamed'
    BY <1>1, <1>2, <1>3 DEF ListNext, TypeOK, SetsNamed, NameOf, Moves
<1>6. ListsNamed'
    BY <1>1, <1>2, <1>3 DEF ListNext, TypeOK, ListsNamed, NameOf, Moves, Listed
<1>7. Calls'
    BY <1>1, <1>2, <1>3 DEF ListNext, TypeOK, Calls, Moves, Listed
<1>8. Misreads'
    BY <1>1, <1>2, <1>3 DEF ListNext, TypeOK, Misreads, Moves
<1>9. Vouching'
    BY <1>1, <1>2, <1>3 DEF ListNext, TypeOK, Vouching, Moves, Listed
<1>10. Deleted'
    BY <1>1, <1>2, <1>3 DEF ListNext, TypeOK, Deleted, Moves, Calls
<1>. QED
    BY <1>2, <1>4, <1>5, <1>6, <1>7, <1>8, <1>9, <1>10 DEF IInv

LEMMA VerifyReturnsStep ==
    ASSUME IInv, NEW p \in Procs, VerifyReturns(p)
    PROVE  IInv'
<1>1. TypeOK /\ Named /\ SetsNamed /\ ListsNamed /\ Calls /\ Misreads /\ Vouching /\ Deleted
    BY DEF IInv
<1>2. TypeOK'
  <2>1. CallTypes'
    BY <1>1, ReturnTyped, ErrorTyped DEF VerifyReturns, TypeOK, CallTypes
  <2>. QED
    BY <1>1, <2>1 DEF VerifyReturns, TypeOK, CallTypes
<1>3. \A j \in Ids : Moves(j)
    BY <1>1, CopiesAssumption DEF VerifyReturns, Return, ReturnError, Forget, TypeOK, Moves, Calls
<1>4. Named'
    BY <1>1, <1>2, <1>3 DEF VerifyReturns, Return, ReturnError, Forget, TypeOK, Named
<1>5. SetsNamed'
    BY <1>1, <1>2, <1>3
       DEF VerifyReturns, Return, ReturnError, Forget, TypeOK, SetsNamed, NameOf, Moves
<1>6. ListsNamed'
    BY <1>1, <1>2, <1>3
       DEF VerifyReturns, Return, ReturnError, Forget, TypeOK, ListsNamed, NameOf, Moves, Listed
<1>7. Calls'
    BY <1>1, <1>2, <1>3 DEF VerifyReturns, Return, ReturnError, Forget, TypeOK, Calls, Moves, Listed
<1>8. Misreads'
    BY <1>1, <1>2, <1>3 DEF VerifyReturns, Return, ReturnError, Forget, TypeOK, Misreads, Moves
<1>9. Vouching'
    BY <1>1, <1>2, <1>3
       DEF VerifyReturns, Return, ReturnError, Forget, TypeOK, Vouching, Moves, Listed
<1>10. Deleted'
    BY <1>1, <1>2, <1>3
       DEF VerifyReturns, Return, ReturnError, Forget, TypeOK, Deleted, Moves, Calls
<1>. QED
    BY <1>2, <1>4, <1>5, <1>6, <1>7, <1>8, <1>9, <1>10 DEF IInv

LEMMA AttachReturnsStep ==
    ASSUME IInv, NEW p \in Procs, AttachReturns(p)
    PROVE  IInv'
<1>1. TypeOK /\ Named /\ SetsNamed /\ ListsNamed /\ Calls /\ Misreads /\ Vouching /\ Deleted
    BY DEF IInv
<1>2. TypeOK'
  <2>1. snaps' \in [Procs -> SUBSET Snapshots]
    <3>1. \A e \in out[p] : e.state = "created" => [id |-> e.id, dev |-> e.dev] \in Snapshots
      BY <1>1 DEF TypeOK, ListsNamed, Listed
    <3>. QED
      BY <1>1, <3>1 DEF AttachReturns, TypeOK
  <2>2. kind' \in [Procs -> {"none", "making", "own", "attached"}] /\ closed' \in [Procs -> BOOLEAN]
    BY <1>1 DEF AttachReturns, TypeOK
  <2>3. CallTypes'
    BY <1>1, ReturnTyped DEF AttachReturns, TypeOK, CallTypes
  <2>. QED
    BY <1>1, <2>1, <2>2, <2>3 DEF AttachReturns, TypeOK, CallTypes
<1>3. \A j \in Ids : Moves(j)
    BY <1>1, CopiesAssumption DEF AttachReturns, Return, TypeOK, Moves, Calls
<1>4. Named'
    BY <1>1, <1>2, <1>3 DEF AttachReturns, Return, TypeOK, Named
<1>5. SetsNamed'
    BY <1>1, <1>2, <1>3
       DEF AttachReturns, Return, TypeOK, SetsNamed, NameOf, Moves, ListsNamed, Listed
<1>6. ListsNamed'
  <2>1. \A q \in Procs : Listed(q)' \subseteq Listed(q)
    BY <1>1 DEF AttachReturns, Return, TypeOK, Listed
  <2>. QED
    BY <1>1, <1>2, <1>3, <2>1 DEF TypeOK, ListsNamed, NameOf, Moves, Listed
<1>7. Calls'
    BY <1>1, <1>2, <1>3 DEF AttachReturns, Return, TypeOK, Calls, Moves, Listed
<1>8. Misreads'
    BY <1>1, <1>2, <1>3 DEF AttachReturns, Return, TypeOK, Misreads, Moves, Calls, SetsNamed
<1>9. Vouching'
    BY <1>1, <1>2, <1>3 DEF AttachReturns, Return, TypeOK, Vouching, Moves, Listed, Calls
<1>10. Deleted'
    BY <1>1, <1>2, <1>3 DEF AttachReturns, Return, TypeOK, Deleted, Moves, Calls
<1>. QED
    BY <1>2, <1>4, <1>5, <1>6, <1>7, <1>8, <1>9, <1>10 DEF IInv

LEMMA DeleteReturnsStep ==
    ASSUME IInv, NEW p \in Procs, DeleteReturns(p)
    PROVE  IInv'
<1>1. TypeOK /\ Named /\ SetsNamed /\ ListsNamed /\ Calls /\ Misreads /\ Vouching /\ Deleted
    BY DEF IInv
<1>2. TypeOK'
  <2>1. arg[p] \in Ids
    BY <1>1 DEF DeleteReturns, TypeOK, Calls
  <2>2. state' \in [Ids -> States]
    BY <1>1, <2>1 DEF DeleteReturns, TypeOK
  <2>3. CallTypes'
    BY <1>1, ReturnTyped, ErrorTyped DEF DeleteReturns, TypeOK, CallTypes
  <2>. QED
    BY <1>1, <2>2, <2>3 DEF DeleteReturns, TypeOK, CallTypes
<1>3. \A j \in Ids : Moves(j)
    BY <1>1, CopiesAssumption
       DEF DeleteReturns, Return, ReturnError, Forget, Exists, TypeOK, Moves, Calls
<1>4. Named'
    BY <1>1, <1>2, <1>3 DEF DeleteReturns, Return, ReturnError, Forget, Exists, TypeOK, Named
<1>5. SetsNamed'
    BY <1>1, <1>2, <1>3
       DEF DeleteReturns, TypeOK, SetsNamed, NameOf, Moves
<1>6. ListsNamed'
  <2>1. \A q \in Procs : Listed(q)' \subseteq Listed(q)
    BY <1>1 DEF DeleteReturns, Return, ReturnError, TypeOK, Listed
  <2>. QED
    BY <1>1, <1>2, <1>3, <2>1 DEF TypeOK, ListsNamed, NameOf, Moves, Listed
<1>7. Calls'
    BY <1>1, <1>2, <1>3
       DEF DeleteReturns, Return, ReturnError, Forget, Exists, TypeOK, Calls, Moves, Listed
<1>8. Misreads'
    BY <1>1, <1>2, <1>3
       DEF DeleteReturns, Return, ReturnError, Forget, Exists, TypeOK, Misreads, Moves
<1>9. Vouching'
    BY <1>1, <1>2, <1>3
       DEF DeleteReturns, Return, ReturnError, Forget, Exists, TypeOK, Vouching, Moves, Listed,
           Calls
<1>10. Deleted'
    BY <1>1, <1>2, <1>3
       DEF DeleteReturns, Return, ReturnError, Forget, Exists, TypeOK, Deleted, Moves, Calls,
           Calls
<1>. QED
    BY <1>2, <1>4, <1>5, <1>6, <1>7, <1>8, <1>9, <1>10 DEF IInv

LEMMA StutterStep ==
    ASSUME IInv, UNCHANGED vars
    PROVE  IInv'
<1>1. TypeOK /\ Named /\ SetsNamed /\ ListsNamed /\ Calls /\ Misreads /\ Vouching /\ Deleted
    BY DEF IInv
<1>2. TypeOK'
    BY <1>1, CopiesAssumption DEF vars, TypeOK
<1>3. \A j \in Ids : Moves(j)
    BY <1>1, CopiesAssumption DEF vars, TypeOK, Moves, Calls
<1>4. Named'
    BY <1>1, <1>2, <1>3 DEF vars, TypeOK, Named
<1>5. SetsNamed'
    BY <1>1, <1>2, <1>3 DEF vars, TypeOK, SetsNamed, NameOf, Moves
<1>6. ListsNamed'
    BY <1>1, <1>2, <1>3 DEF vars, TypeOK, ListsNamed, NameOf, Moves, Listed
<1>7. Calls'
    BY <1>1, <1>2, <1>3 DEF vars, TypeOK, Calls, Moves, Listed
<1>8. Misreads'
    BY <1>1, <1>2, <1>3 DEF vars, TypeOK, Misreads, Moves
<1>9. Vouching'
    BY <1>1, <1>2, <1>3 DEF vars, TypeOK, Vouching, Moves, Listed
<1>10. Deleted'
    BY <1>1, <1>2, <1>3 DEF vars, TypeOK, Deleted, Moves, Calls
<1>. QED
    BY <1>2, <1>4, <1>5, <1>6, <1>7, <1>8, <1>9, <1>10 DEF IInv

-----------------------------------------------------------------------------

LEMMA InvInit ==
    ASSUME Init
    PROVE  IInv
<1>1. TypeOK
    BY CopiesAssumption DEF Init, TypeOK
<1>2. Named /\ SetsNamed /\ ListsNamed /\ Calls
    BY DEF Init, Named, SetsNamed, ListsNamed, Listed, Calls
<1>3. Misreads /\ Vouching /\ Deleted
    BY DEF Init, Misreads, Vouching, Deleted
<1>. QED
    BY <1>1, <1>2, <1>3 DEF IInv

LEMMA InvStep ==
    ASSUME IInv, [Next]_vars
    PROVE  IInv'
<1>1. CASE \E i \in Ids : Evict(i)
    BY <1>1, EvictStep
<1>2. ASSUME NEW p \in Procs,
             \/ \E S \in SUBSET Ids, persistent \in BOOLEAN : CreateSet(p, S, persistent)
             \/ CreateSetReturns(p) \/ CreateSetFails(p) \/ CreateSetLeaves(p) \/ Close(p) \/ Drop(p) \/ Die(p)
      PROVE  IInv'
    BY <1>2, CreateSetStep, CreateSetReturnsStep, CreateSetFailsStep,
       CreateSetLeavesStep, CloseStep, DropStep, DieStep
<1>3. ASSUME NEW p \in Procs,
             \/ Read(p) \/ VolumeGeometry(p) \/ VerifyCalled(p)
             \/ \E i \in Ids : AttachCalled(p, i) \/ DeleteCalled(p, i)
             \/ CallFails(p) \/ Query(p) \/ ListNext(p)
             \/ VerifyReturns(p) \/ AttachReturns(p) \/ DeleteReturns(p)
      PROVE  IInv'
    BY <1>3, ReadStep, VolumeGeometryStep, VerifyCalledStep, AttachCalledStep, DeleteCalledStep,
       CallFailsStep, QueryStep, ListNextStep, VerifyReturnsStep, AttachReturnsStep, DeleteReturnsStep
<1>4. CASE UNCHANGED vars
    BY <1>4, StutterStep
<1>. QED
    BY <1>1, <1>2, <1>3, <1>4 DEF Next

\* IInv is invariant, whatever VSS evicts and the processes do.
THEOREM InvHolds == Spec => []IInv
<1>1. Init => IInv
    BY InvInit
<1>2. IInv /\ [Next]_vars => IInv'
    BY InvStep
<1>. QED
    BY <1>1, <1>2, PTL DEF Spec

\* The variables of the machine and of its processes keep their types.
THEOREM CopiesTypeCorrect == Spec => []TypeOK
<1>1. IInv => TypeOK
    BY DEF IInv
<1>. QED
    BY <1>1, InvHolds, PTL

\* What was read before a successful Verify was read from the right copies
\* (SnapshotSet.Verify, geomCache), however names are recycled.
THEOREM VerifyIsWorthIt == Spec => []VerifyVouches
<1>1. IInv => VerifyVouches
    BY DEF IInv, Vouching, VerifyVouches
<1>. QED
    BY <1>1, InvHolds, PTL

\* A copy that Delete answered for is gone and stays gone (deleteSnapshotByID).
THEOREM DeletedStaysGone == Spec => []DeleteMeansGone
<1>1. IInv => DeleteMeansGone
    BY DEF IInv, Deleted, DeleteMeansGone, Exists
<1>. QED
    BY <1>1, InvHolds, PTL

\* No step that closes a set or ends a process takes a persistent copy that
\* was created (winSet.close, AutoRelease and Persistent contexts).
THEOREM PersistentOutlive == Spec => PersistentOutlivesSessions
<1>1. ASSUME IInv, [Next]_vars, NEW i \in Ids, keep[i], state[i] = "created", state'[i] # "created"
      PROVE  UNCHANGED setVars
  <2>1. TypeOK
    BY <1>1 DEF IInv
  <2>2. CASE \E j \in Ids : Evict(j)
    BY <2>2 DEF Evict
  <2>3. ASSUME NEW p \in Procs, CreateSetReturns(p) \/ CreateSetFails(p) \/ CreateSetLeaves(p)
               \/ \E S \in SUBSET Ids, persistent \in BOOLEAN : CreateSet(p, S, persistent)
        PROVE  FALSE
    BY <1>1, <2>1, <2>3 DEF CreateSet, CreateSetReturns, CreateSetFails, CreateSetLeaves, TypeOK
  <2>4. ASSUME NEW p \in Procs, Close(p) \/ Die(p) \/ Drop(p)
        PROVE  FALSE
    BY <1>1, <2>1, <2>4 DEF Close, Die, Drop, SessionReleased, TypeOK
  <2>5. ASSUME NEW p \in Procs, DeleteReturns(p)
        PROVE  UNCHANGED setVars
    BY <2>5 DEF DeleteReturns
  <2>6. ASSUME NEW p \in Procs,
               \/ Read(p) \/ VolumeGeometry(p) \/ VerifyCalled(p)
               \/ \E j \in Ids : AttachCalled(p, j) \/ DeleteCalled(p, j)
               \/ CallFails(p) \/ Query(p) \/ ListNext(p) \/ VerifyReturns(p) \/ AttachReturns(p)
        PROVE  FALSE
    BY <1>1, <2>6 DEF Read, VolumeGeometry, VerifyCalled, AttachCalled, DeleteCalled, CallFails,
                      Query, ListNext, VerifyReturns, AttachReturns
  <2>. QED
    BY <1>1, <2>2, <2>3, <2>4, <2>5, <2>6 DEF Next, vars
<1>2. IInv /\ [Next]_vars =>
      [\A i \in Ids : keep[i] /\ state[i] = "created" /\ state'[i] # "created" => UNCHANGED setVars]_vars
    BY <1>1
<1>. QED
    BY <1>2, InvHolds, PTL DEF Spec, PersistentOutlivesSessions
=============================================================================
