-------------------------- MODULE StateStoreProofs --------------------------
(***************************************************************************)
(* What the state store guarantees for every number of processes, URLs,    *)
(* hashes and runs.  IInv is the inductive invariant: the two properties a *)
(* reader wants (SeenOrder, StoredIsLastReturned) are not inductive,       *)
(* because they do not say what an upsert in progress holds in its hands.  *)
(* At the end, for any processes and any list of migrations: whoever has   *)
(* the database open finds a whole schema.                                 *)
(***************************************************************************)
EXTENDS StateStore, Migrations, TLAPS

InUpsert(c) == conns[c].pc \in {"called", "selected"}

(* What a call holds: a real URL and hash, and a clock reading in the past. *)
CallsOK ==
    \A c \in Clients : InUpsert(c) =>
        /\ conns[c].url \in Urls
        /\ conns[c].hash \in Hashes
        /\ conns[c].now <= clock

(* Under the lock, the upsert in progress has the latest clock reading of  *)
(* all, and the row it SELECTed is still the row that is there.            *)
CallIsCurrent ==
    UseLock => \A c \in Clients :
        /\ InUpsert(c) => \A u \in Urls : Present(items[u]) => items[u].last <= conns[c].now
        /\ conns[c].pc = "selected" => conns[c].found = items[conns[c].url]

LockedSafety == UseLock => SeenOrder /\ StoredIsLastReturned

IInv ==
    /\ TypeOK
    /\ CallsOK
    /\ MutualExclusion
    /\ CallIsCurrent
    /\ LockedSafety
    /\ NewOnce

(* No row is stored, no call is in progress: the invariant holds at first. *)
LEMMA InitIInv == Init => IInv
  BY StoreAssumption DEF Init, IInv, TypeOK, CallsOK, MutualExclusion, CallIsCurrent,
     LockedSafety, SeenOrder, StoredIsLastReturned, NewOnce, InUpsert, Connected, AtRest,
     Conn, ItemRow, NoRow, Present, RunRow, AbsentRun, RunStatus

(* A connection stays one when an operation changes a field of it. *)
LEMMA ConnFields ==
    ASSUME NEW k \in Conn
    PROVE /\ \A r \in RunIds \cup {NoRun} : [k EXCEPT !.run = r] \in Conn
          /\ \A row \in ItemRow : [k EXCEPT !.pc = "selected", !.found = row] \in Conn
  BY DEF Conn

LEMMA RunFields ==
    ASSUME NEW k \in RunRow
    PROVE \A status \in RunStatus, time \in Nat :
            [k EXCEPT !.status = status, !.finished = time] \in RunRow
  BY DEF RunRow

(* Every step keeps every variable in its type. *)
LEMMA TypeStep == TypeOK /\ CallsOK /\ [Next]_vars => TypeOK'
<1> SUFFICES ASSUME TypeOK, CallsOK, [Next]_vars PROVE TypeOK'
  OBVIOUS
<1> USE StoreAssumption DEF TypeOK, Conn, ItemRow, RunRow, RunStatus
<1>1. CASE Tick
  BY <1>1 DEF Tick
<1>2. ASSUME NEW c \in Clients, ClientStep(c) PROVE TypeOK'
  <2>1. AtRest("open", NoRun) \in Conn /\ AtRest("closed", NoRun) \in Conn
        /\ AtRest("open", conns[c].run) \in Conn
    BY DEF AtRest, NoRow
  <2>2. CASE Connect(c)
    BY <2>1, <2>2 DEF Connect
  <2>3. CASE Close(c)
    BY <2>1, <2>3 DEF Close, ReleaseLock
  <2>4. CASE Crash(c)
    BY <2>1, <2>4 DEF Crash, ReleaseLock
  <2>5. ASSUME NEW r \in RunIds, BeginRun(c, r) PROVE TypeOK'
    <3>1. [conns[c] EXCEPT !.run = r] \in Conn
      <4> HIDE DEF Conn
      <4>1. QED
        BY ConnFields
    <3>2. conns' = [conns EXCEPT ![c] = [conns[c] EXCEPT !.run = r]]
      BY <2>5 DEF BeginRun
    <3>3. runs' \in [RunIds -> RunRow]
      BY <2>5 DEF BeginRun
    <3>4. QED
      BY <2>5, <3>1, <3>2, <3>3 DEF BeginRun
  <2>6. ASSUME NEW success \in BOOLEAN, EndRun(c, success) PROVE TypeOK'
    <3>1. runs' \in [RunIds -> RunRow]
      <4> DEFINE r == conns[c].run
                 status == IF success THEN "success" ELSE "failure"
                 done == [runs[r] EXCEPT !.status = status, !.finished = clock]
      <4>1. r \in RunIds
        BY <2>6 DEF EndRun
      <4>2. done \in RunRow
        <5>1. runs[r] \in RunRow /\ status \in RunStatus /\ clock \in Nat
          BY <4>1
        <5> HIDE DEF RunRow, RunStatus, r, status
        <5>2. QED
          BY <5>1, RunFields
      <4>3. runs' = runs \/ runs' = [runs EXCEPT ![r] = done]
        BY <2>6 DEF EndRun
      <4> HIDE DEF RunRow, done, r
      <4>4. QED
        BY <4>1, <4>2, <4>3
    <3>2. [conns[c] EXCEPT !.run = NoRun] \in Conn
      <4> HIDE DEF Conn
      <4>1. QED
        BY ConnFields
    <3>3. conns' = [conns EXCEPT ![c] = [conns[c] EXCEPT !.run = NoRun]]
      BY <2>6 DEF EndRun
    <3>4. QED
      BY <2>6, <3>1, <3>2, <3>3 DEF EndRun
  <2>7. ASSUME NEW u \in Urls, NEW h \in Hashes, UpsertCall(c, u, h) PROVE TypeOK'
    BY <2>7 DEF UpsertCall, NoRow
  <2>8. CASE UpsertSelect(c)
    <3> DEFINE selected == [conns[c] EXCEPT !.pc = "selected", !.found = items[conns[c].url]]
    <3>1. selected \in Conn
      <4>1. items[conns[c].url] \in ItemRow
        BY <2>8 DEF UpsertSelect, CallsOK, InUpsert
      <4> HIDE DEF Conn, ItemRow
      <4>2. QED
        BY <4>1, ConnFields
    <3>2. conns' = [conns EXCEPT ![c] = selected]
      BY <2>8 DEF UpsertSelect
    <3>3. QED
      BY <2>8, <3>1, <3>2 DEF UpsertSelect
  <2>9. CASE UpsertInsert(c)
    BY <2>1, <2>9 DEF UpsertInsert, UpsertReturn, InsertedRow, CallsOK, InUpsert
  <2>10. CASE UpsertUpdate(c)
    <3>1. conns[c].url \in Urls /\ conns[c].hash \in Hashes
      BY <2>10 DEF UpsertUpdate, CallsOK, InUpsert
    <3>2. UpdatedRow(conns[c], items[conns[c].url]) \in ItemRow
      BY <3>1 DEF UpdatedRow, Present
    <3>3. QED
      BY <2>1, <2>10, <3>1, <3>2 DEF UpsertUpdate, UpsertReturn
  <2>11. CASE UpsertFail(c)
    BY <2>1, <2>11 DEF UpsertFail
  <2>12. CASE PruneItems(c)
    BY <2>12 DEF PruneItems, NoRow
  <2>13. CASE PruneRuns(c)
    BY <2>13 DEF PruneRuns, AbsentRun
  <2>14. QED
    BY <1>2, <2>2, <2>3, <2>4, <2>5, <2>6, <2>7, <2>8, <2>9, <2>10, <2>11,
       <2>12, <2>13 DEF ClientStep
<1>3. CASE UNCHANGED vars
  BY <1>3 DEF vars
<1>4. QED
  BY <1>1, <1>2, <1>3 DEF Next

(* A call never holds a clock reading from the future. *)
LEMMA CallsStep == TypeOK /\ CallsOK /\ [Next]_vars => CallsOK'
<1> SUFFICES ASSUME TypeOK, CallsOK, [Next]_vars,
                    NEW d \in Clients, InUpsert(d)'
             PROVE  (/\ conns[d].url \in Urls
                     /\ conns[d].hash \in Hashes
                     /\ conns[d].now <= clock)'
  BY DEF CallsOK
<1> USE DEF TypeOK, CallsOK, InUpsert, Conn, AtRest
<1>1. CASE Tick
  BY <1>1 DEF Tick
<1>2. ASSUME NEW c \in Clients, ClientStep(c)
      PROVE  (/\ conns[d].url \in Urls
              /\ conns[d].hash \in Hashes
              /\ conns[d].now <= clock)'
  <2>1. clock' = clock
    BY <1>2 DEF ClientStep, Connect, Close, Crash, BeginRun, EndRun, UpsertCall, UpsertSelect,
       UpsertInsert, UpsertUpdate, UpsertFail, PruneItems, PruneRuns
  <2>2. CASE d # c
    <3>1. conns'[d] = conns[d]
      BY <1>2, <2>2 DEF ClientStep, Connect, Close, Crash, BeginRun, EndRun, UpsertCall,
         UpsertSelect, UpsertInsert, UpsertUpdate, UpsertReturn, UpsertFail, PruneItems, PruneRuns
    <3>2. QED
      BY <2>1, <3>1
  <2>3. CASE d = c
    <3>1. CASE UpsertSelect(c)
      BY <2>1, <2>3, <3>1 DEF UpsertSelect
    <3>2. CASE \E u \in Urls, h \in Hashes : UpsertCall(c, u, h)
      BY <2>1, <2>3, <3>2 DEF UpsertCall
    <3>3. CASE \E r \in RunIds : BeginRun(c, r)
      BY <2>3, <3>3 DEF BeginRun, Idle
    <3>4. CASE \E success \in BOOLEAN : EndRun(c, success)
      BY <2>3, <3>4 DEF EndRun, Idle
    <3>5. CASE Connect(c) \/ Close(c) \/ Crash(c)
      BY <2>3, <3>5 DEF Connect, Close, Crash
    <3>6. CASE UpsertInsert(c) \/ UpsertUpdate(c) \/ UpsertFail(c)
      BY <2>3, <3>6 DEF UpsertInsert, UpsertUpdate, UpsertReturn, UpsertFail
    <3>7. CASE PruneItems(c) \/ PruneRuns(c)
      BY <2>3, <3>7 DEF PruneItems, PruneRuns, Idle
    <3>8. QED
      BY <1>2, <3>1, <3>2, <3>3, <3>4, <3>5, <3>6, <3>7 DEF ClientStep
  <2>4. QED
    BY <2>2, <2>3
<1>3. CASE UNCHANGED vars
  BY <1>3 DEF vars
<1>4. QED
  BY <1>1, <1>2, <1>3 DEF Next

(* At most the lock holder is connected. *)
LEMMA ExclusionStep == TypeOK /\ MutualExclusion /\ [Next]_vars => MutualExclusion'
<1> SUFFICES ASSUME TypeOK, MutualExclusion, [Next]_vars, UseLock,
                    NEW d \in Clients, Connected(d)'
             PROVE  lock' = d
  BY DEF MutualExclusion
<1> USE StoreAssumption DEF TypeOK, MutualExclusion, Connected, Conn, AtRest
<1>1. CASE Tick
  BY <1>1 DEF Tick
<1>2. ASSUME NEW c \in Clients, ClientStep(c) PROVE lock' = d
  <2>1. CASE Connect(c)
    BY <2>1 DEF Connect
  <2>2. CASE Close(c) \/ Crash(c)
    BY <2>2 DEF Close, Crash, ReleaseLock, Idle
  <2>3. CASE lock' = lock /\ (Connected(d)' => Connected(d))
    BY <2>3
  <2>4. CASE \/ \E r \in RunIds : BeginRun(c, r)
             \/ \E success \in BOOLEAN : EndRun(c, success)
             \/ \E u \in Urls, h \in Hashes : UpsertCall(c, u, h)
             \/ UpsertSelect(c)
    <3>1. lock' = lock /\ Connected(c)
      BY <2>4 DEF BeginRun, EndRun, UpsertCall, UpsertSelect, Idle
    <3>2. d # c => conns'[d] = conns[d]
      BY <2>4 DEF BeginRun, EndRun, UpsertCall, UpsertSelect
    <3>3. QED
      BY <2>3, <3>1, <3>2
  <2>5. CASE UpsertInsert(c) \/ UpsertUpdate(c) \/ UpsertFail(c)
    <3>1. lock' = lock /\ Connected(c)
      BY <2>5 DEF UpsertInsert, UpsertUpdate, UpsertFail
    <3>2. d # c => conns'[d] = conns[d]
      BY <2>5 DEF UpsertInsert, UpsertUpdate, UpsertFail, UpsertReturn
    <3>3. QED
      BY <2>3, <3>1, <3>2
  <2>6. CASE PruneItems(c) \/ PruneRuns(c)
    BY <2>3, <2>6 DEF PruneItems, PruneRuns
  <2>7. QED
    BY <1>2, <2>1, <2>2, <2>4, <2>5, <2>6 DEF ClientStep
<1>3. CASE UNCHANGED vars
  BY <1>3 DEF vars
<1>4. QED
  BY <1>1, <1>2, <1>3 DEF Next

(* The hash of a call is a real one, so what it writes is a present row. *)
LEMMA NewOnceStep == TypeOK /\ CallsOK /\ NewOnce /\ [Next]_vars => NewOnce'
<1> SUFFICES ASSUME TypeOK, CallsOK, NewOnce, [Next]_vars PROVE NewOnce'
  OBVIOUS
<1> USE StoreAssumption DEF TypeOK, NewOnce, Present
<1>1. CASE Tick
  BY <1>1 DEF Tick
<1>2. ASSUME NEW c \in Clients, ClientStep(c) PROVE NewOnce'
  <2>1. CASE UpsertInsert(c)
    BY <2>1 DEF UpsertInsert, InsertedRow, CallsOK, InUpsert
  <2>2. CASE UpsertUpdate(c)
    <3>1. conns[c].url \in Urls /\ conns[c].hash \in Hashes
      BY <2>2 DEF UpsertUpdate, CallsOK, InUpsert
    <3>2. Present(UpdatedRow(conns[c], items[conns[c].url])) <=> Present(items[conns[c].url])
      BY <3>1 DEF UpdatedRow
    <3>3. QED
      BY <2>2, <3>1, <3>2 DEF UpsertUpdate
  <2>3. CASE PruneItems(c)
    BY <2>3 DEF PruneItems, NoRow
  <2>4. CASE UNCHANGED <<items, newReports>>
    BY <2>4
  <2>5. QED
    BY <1>2, <2>1, <2>2, <2>3, <2>4 DEF ClientStep, Connect, Close, Crash, BeginRun, EndRun,
       UpsertCall, UpsertSelect, UpsertFail, PruneRuns
<1>3. CASE UNCHANGED vars
  BY <1>3 DEF vars
<1>4. QED
  BY <1>1, <1>2, <1>3 DEF Next

BeginOrEnd(c) ==
    \/ Connect(c)
    \/ Close(c)
    \/ Crash(c)
    \/ \E r \in RunIds : BeginRun(c, r)
    \/ \E success \in BOOLEAN : EndRun(c, success)

(* Under the lock no row moves while another process is in an upsert, so   *)
(* what the SELECT saw and the clock reading taken before it stay valid.   *)
LEMMA LockedStep ==
  ASSUME UseLock, TypeOK, CallsOK, MutualExclusion, CallIsCurrent, LockedSafety, [Next]_vars
  PROVE  CallIsCurrent' /\ LockedSafety'
<1> USE StoreAssumption DEF TypeOK, Present
<1>a. /\ SeenOrder
      /\ StoredIsLastReturned
  BY DEF LockedSafety
<1> DEFINE Current(c) ==
      /\ InUpsert(c) => \A u \in Urls : Present(items[u]) => items[u].last <= conns[c].now
      /\ conns[c].pc = "selected" => conns[c].found = items[conns[c].url]
<1>b. \A c \in Clients : Current(c)
  BY DEF CallIsCurrent
<1>c. SUFFICES /\ \A c \in Clients : Current(c)'
               /\ SeenOrder'
               /\ StoredIsLastReturned'
  BY DEF CallIsCurrent, LockedSafety
<1>1. CASE Tick
  BY <1>1, <1>a, <1>b DEF Tick, SeenOrder, StoredIsLastReturned, InUpsert, ItemRow
<1>2. ASSUME NEW c \in Clients, ClientStep(c)
      PROVE  (\A d \in Clients : Current(d)') /\ SeenOrder' /\ StoredIsLastReturned'
  <2>1. \A d \in Clients : Connected(d) => lock = d
    BY DEF MutualExclusion
  <2>2. CASE UNCHANGED <<clock, items, returned>>
        /\ \A d \in Clients : conns'[d] = conns[d] \/ ~InUpsert(d)'
    BY <2>2, <1>a, <1>b DEF SeenOrder, StoredIsLastReturned, InUpsert
  <2>3. ASSUME NEW u \in Urls, NEW h \in Hashes, UpsertCall(c, u, h)
        PROVE  (\A d \in Clients : Current(d)') /\ SeenOrder' /\ StoredIsLastReturned'
    BY <2>3, <1>a, <1>b DEF UpsertCall, SeenOrder, StoredIsLastReturned, InUpsert
  <2>4. CASE UpsertSelect(c)
    <3>1. conns[c].url \in Urls
      BY <2>4 DEF UpsertSelect, CallsOK, InUpsert
    <3>2. SeenOrder' /\ StoredIsLastReturned'
      BY <2>4, <1>a DEF UpsertSelect, SeenOrder, StoredIsLastReturned
    <3>3. ASSUME NEW d \in Clients, d # c PROVE Current(d)'
      BY <2>4, <3>3, <1>b DEF UpsertSelect, InUpsert
    <3>4. Current(c)'
      BY <2>4, <3>1, <1>b DEF UpsertSelect, InUpsert, Conn
    <3>5. QED
      BY <3>2, <3>3, <3>4
  <2>5. CASE UpsertInsert(c) \/ UpsertUpdate(c)
    <3> DEFINE v == conns[c].url
    <3>1. v \in Urls /\ conns[c].hash \in Hashes /\ conns[c].now <= clock
          /\ conns[c].now \in Nat /\ Connected(c)
      BY <2>5 DEF UpsertInsert, UpsertUpdate, CallsOK, InUpsert, Conn, Connected
    <3>2. \A d \in Clients : ~InUpsert(d)' /\ conns'[d].pc # "selected"
      <4>1. \A d \in Clients : d # c => ~Connected(d) /\ conns'[d] = conns[d]
        BY <2>1, <2>5, <3>1 DEF UpsertInsert, UpsertUpdate, UpsertReturn
      <4>2. conns'[c].pc = "open"
        BY <2>5 DEF UpsertInsert, UpsertUpdate, UpsertReturn, AtRest
      <4>3. QED
        BY <4>1, <4>2 DEF InUpsert, Connected
    <3>3. conns[c].found = items[v] /\ (Present(items[v]) => items[v].last <= conns[c].now)
      BY <1>b, <2>5, <3>1 DEF UpsertInsert, UpsertUpdate, InUpsert
    <3>4. /\ items'[v].hash = conns[c].hash
          /\ items'[v].last = conns[c].now
          /\ items'[v].first <= items'[v].last
      <4>1. CASE UpsertInsert(c)
        BY <3>1, <4>1 DEF UpsertInsert, InsertedRow
      <4>2. CASE UpsertUpdate(c)
        <5>1. items'[v] = UpdatedRow(conns[c], items[v]) /\ Present(items[v])
          BY <3>1, <3>3, <4>2 DEF UpsertUpdate
        <5>2. items[v].first <= items[v].last /\ items[v] \in ItemRow
          BY <1>a, <3>1, <5>1 DEF SeenOrder
        <5>3. QED
          BY <3>1, <3>3, <5>1, <5>2 DEF UpdatedRow, ItemRow
      <4>3. QED
        BY <2>5, <4>1, <4>2
    <3>5. clock' = clock /\ returned' = [returned EXCEPT ![v] = conns[c].hash]
          /\ \A u \in Urls : u # v => items'[u] = items[u]
      BY <2>5 DEF UpsertInsert, UpsertUpdate, UpsertReturn
    <3>6. SeenOrder'
      BY <1>a, <3>1, <3>4, <3>5 DEF SeenOrder
    <3>7. StoredIsLastReturned'
      BY <1>a, <3>1, <3>4, <3>5 DEF StoredIsLastReturned
    <3>8. QED
      BY <3>2, <3>6, <3>7
  <2>6. CASE PruneItems(c)
    <3>1. \A d \in Clients : ~InUpsert(d)' /\ conns'[d].pc # "selected"
      BY <2>1, <2>6 DEF PruneItems, InUpsert, Connected, Idle
    <3>2. /\ clock' = clock
          /\ returned' = returned
          /\ \A u \in Urls : Present(items'[u]) => items'[u] = items[u]
      BY <2>6 DEF PruneItems, NoRow
    <3>3. SeenOrder' /\ StoredIsLastReturned'
      BY <1>a, <3>2 DEF SeenOrder, StoredIsLastReturned
    <3>4. QED
      BY <3>1, <3>3
  <2>7. CASE BeginOrEnd(c) \/ UpsertFail(c) \/ PruneRuns(c)
    <3>1. UNCHANGED <<clock, items, returned>>
      BY <2>7 DEF BeginOrEnd, Connect, Close, Crash, BeginRun, EndRun, UpsertFail, PruneRuns
    <3>2. conns'[c] = conns[c] \/ conns'[c].pc \in {"open", "closed"}
      <4>1. ASSUME NEW r \in RunIds, BeginRun(c, r) PROVE conns'[c].pc = "open"
        BY <4>1 DEF BeginRun, Idle, Conn
      <4>2. ASSUME NEW success \in BOOLEAN, EndRun(c, success) PROVE conns'[c].pc = "open"
        BY <4>2 DEF EndRun, Idle, Conn
      <4>3. CASE Connect(c) \/ Close(c) \/ Crash(c) \/ UpsertFail(c) \/ PruneRuns(c)
        BY <4>3 DEF Connect, Close, Crash, UpsertFail, PruneRuns, AtRest
      <4>4. QED
        BY <2>7, <4>1, <4>2, <4>3 DEF BeginOrEnd
    <3>3. \A d \in Clients : d # c => conns'[d] = conns[d]
      BY <2>7 DEF BeginOrEnd, Connect, Close, Crash, BeginRun, EndRun, UpsertFail, PruneRuns
    <3>4. QED
      BY <2>2, <3>1, <3>2, <3>3 DEF InUpsert
  <2>8. QED
    BY <1>2, <2>3, <2>4, <2>5, <2>6, <2>7 DEF ClientStep, BeginOrEnd
<1>3. CASE UNCHANGED vars
  BY <1>3, <1>a, <1>b DEF vars, SeenOrder, StoredIsLastReturned, InUpsert
<1>4. QED
  BY <1>1, <1>2, <1>3 DEF Next

(* The conjunction is inductive. *)
LEMMA NextIInv == IInv /\ [Next]_vars => IInv'
<1> SUFFICES ASSUME IInv, [Next]_vars PROVE IInv'
  OBVIOUS
<1>1. TypeOK /\ CallsOK /\ MutualExclusion /\ CallIsCurrent /\ LockedSafety /\ NewOnce
  BY DEF IInv
<1>2. TypeOK' /\ CallsOK' /\ MutualExclusion' /\ NewOnce'
  BY <1>1, TypeStep, CallsStep, ExclusionStep, NewOnceStep
<1>3. CallIsCurrent' /\ LockedSafety'
  BY <1>1, LockedStep DEF CallIsCurrent, LockedSafety
<1>4. QED
  BY <1>2, <1>3 DEF IInv

LEMMA Invariance == Spec => []IInv
  BY InitIInv, NextIInv, PTL DEF Spec

(* Every reachable state of the store is well typed. *)
THEOREM TypeCorrect == Spec => []TypeOK
<1>1. IInv => TypeOK
  BY DEF IInv
<1>2. QED
  BY Invariance, <1>1, PTL

(* The flock of the deployment scripts admits one process at a time. *)
THEOREM LockIsExclusive == Spec => []MutualExclusion
<1>1. IInv => MutualExclusion
  BY DEF IInv
<1>2. QED
  BY Invariance, <1>1, PTL

(* upsert_item under the lock keeps first_seen_at <= last_seen_at <= now. *)
THEOREM TimestampsOrdered == ASSUME UseLock PROVE Spec => []SeenOrder
<1>1. IInv => SeenOrder
  BY DEF IInv, LockedSafety
<1>2. QED
  BY Invariance, <1>1, PTL

(* Under the lock a row holds the content its last upsert handed in. *)
THEOREM ContentIsLastReturned == ASSUME UseLock PROVE Spec => []StoredIsLastReturned
<1>1. IInv => StoredIsLastReturned
  BY DEF IInv, LockedSafety
<1>2. QED
  BY Invariance, <1>1, PTL

(* A row is reported NEW once in its life, with the lock or without it. *)
THEOREM NewReportedOnce == Spec => []NewOnce
<1>1. IInv => NewOnce
  BY DEF IInv
<1>2. QED
  BY Invariance, <1>1, PTL

(* No step moves the first_seen_at of a row that stays, lock or no lock. *)
THEOREM FirstSeenStable == Spec => FirstSeenKept
<1>1. IInv /\ [Next]_vars => [\A u \in Urls : Present(items[u]) /\ Present(items'[u])
          => items'[u].first = items[u].first]_vars
  <2> SUFFICES ASSUME IInv, [Next]_vars, NEW u \in Urls, Present(items[u]), Present(items'[u])
               PROVE  items'[u].first = items[u].first
    OBVIOUS
  <2> USE DEF IInv, TypeOK
  <2>1. ASSUME NEW c \in Clients, UpsertUpdate(c) PROVE items'[u].first = items[u].first
    <3>1. CASE u = conns[c].url
      BY <2>1, <3>1 DEF UpsertUpdate, UpdatedRow
    <3>2. CASE u # conns[c].url
      BY <2>1, <3>2 DEF UpsertUpdate
    <3>3. QED
      BY <3>1, <3>2
  <2>2. ASSUME NEW c \in Clients, UpsertInsert(c) PROVE items'[u] = items[u]
    BY <2>2 DEF UpsertInsert
  <2>3. ASSUME NEW c \in Clients, PruneItems(c) PROVE items'[u] = items[u]
    BY <2>3 DEF PruneItems, Present, NoRow
  <2>4. CASE items' = items
    BY <2>4
  <2>5. QED
    BY <2>1, <2>2, <2>3, <2>4 DEF Next, Tick, ClientStep, Connect, Close, Crash, BeginRun,
       EndRun, UpsertCall, UpsertSelect, UpsertFail, PruneRuns, vars
<1>2. QED
  BY Invariance, <1>1, PTL DEF FirstSeenKept, KeepFirstSeen, Spec
(* Under the lock no sighting of an item is undone by an older one.         *)
THEOREM LastSeenNeverBack == ASSUME UseLock PROVE Spec => LastSeenForward
<1>1. IInv /\ [Next]_vars => [\A u \in Urls : Present(items[u]) /\ Present(items'[u])
          => items'[u].last >= items[u].last]_vars
  <2> SUFFICES ASSUME IInv, [Next]_vars, NEW u \in Urls, Present(items[u]), Present(items'[u])
               PROVE  items'[u].last >= items[u].last
    OBVIOUS
  <2> USE DEF IInv, TypeOK
  <2>0. items[u].last \in Nat
    BY DEF ItemRow
  <2>1. ASSUME NEW c \in Clients, UpsertUpdate(c) PROVE items'[u].last >= items[u].last
    <3>1. CASE u = conns[c].url
      <4>1. items'[u].last = conns[c].now
        BY <2>1, <3>1 DEF UpsertUpdate, UpdatedRow
      <4>2. items[u].last <= conns[c].now
        BY <2>1 DEF UpsertUpdate, CallIsCurrent, InUpsert
      <4>3. conns[c].now \in Nat
        BY DEF Conn
      <4>4. QED
        BY <2>0, <4>1, <4>2, <4>3
    <3>2. CASE u # conns[c].url
      BY <2>0, <2>1, <3>2 DEF UpsertUpdate
    <3>3. QED
      BY <3>1, <3>2
  <2>2. ASSUME NEW c \in Clients, UpsertInsert(c) PROVE items'[u] = items[u]
    BY <2>2 DEF UpsertInsert
  <2>3. ASSUME NEW c \in Clients, PruneItems(c) PROVE items'[u] = items[u]
    BY <2>3 DEF PruneItems, Present, NoRow
  <2>4. items'[u] = items[u] \/ \E c \in Clients : UpsertUpdate(c)
    BY <2>2, <2>3 DEF Next, Tick, ClientStep, Connect, Close, Crash, BeginRun,
       EndRun, UpsertCall, UpsertSelect, UpsertFail, PruneRuns, vars
  <2>5. QED
    BY <2>0, <2>1, <2>4
<1>2. QED
  BY Invariance, <1>1, PTL DEF LastSeenForward, Spec

-----------------------------------------------------------------------------
(* A run that some process has in hand has not ended, and no other process  *)
(* has it; no run ended in the future.                                      *)
Unfinished(r) == runs[r].status \in {"running", "absent"}
RunsInHand ==
    /\ \A c \in Clients : conns[c].run \in RunIds => Unfinished(conns[c].run)
    /\ \A c, d \in Clients : conns[c].run \in RunIds /\ conns[c].run = conns[d].run => c = d
EndedInPast == \A r \in RunIds : runs[r].finished <= clock

LEMMA InitRuns == Init => RunsInHand /\ EndedInPast
  BY StoreAssumption DEF Init, RunsInHand, EndedInPast, Unfinished, AbsentRun, AtRest

LEMMA RunsStep == TypeOK /\ RunsInHand /\ EndedInPast /\ [Next]_vars => RunsInHand' /\ EndedInPast'
<1> SUFFICES ASSUME TypeOK, RunsInHand, EndedInPast, [Next]_vars PROVE RunsInHand' /\ EndedInPast'
  OBVIOUS
<1>a. clock \in Nat /\ NoRun \notin RunIds
      /\ \A r \in RunIds : runs[r].finished \in Nat
      /\ \A c \in Clients : conns[c].run \in RunIds \cup {NoRun}
  BY StoreAssumption DEF TypeOK, RunRow, Conn
<1>1. CASE Tick \/ UNCHANGED vars
  BY <1>1, <1>a DEF Tick, vars, RunsInHand, EndedInPast, Unfinished
<1>2. ASSUME NEW c \in Clients, NEW r \in RunIds, BeginRun(c, r) PROVE RunsInHand' /\ EndedInPast'
  <2>1. /\ \A q \in RunIds : runs'[q] = IF q = r THEN [status |-> "running", started |-> clock, finished |-> 0]
                                                ELSE runs[q]
        /\ \A d \in Clients : conns'[d].run = IF d = c THEN r ELSE conns[d].run
        /\ \A d \in Clients : conns[d].run # r
        /\ clock' = clock
    BY <1>2 DEF BeginRun, TypeOK, Conn
  <2>2. QED
    BY <2>1, <1>a DEF RunsInHand, EndedInPast, Unfinished
<1>3. ASSUME NEW c \in Clients, NEW success \in BOOLEAN, EndRun(c, success)
      PROVE RunsInHand' /\ EndedInPast'
  <2> DEFINE r == conns[c].run
  <2>1. /\ r \in RunIds
        /\ \A q \in RunIds : q # r => runs'[q] = runs[q]
        /\ runs'[r].finished \in {runs[r].finished, clock}
        /\ \A d \in Clients : conns'[d].run = IF d = c THEN NoRun ELSE conns[d].run
        /\ clock' = clock
    BY <1>3, <1>a DEF EndRun, TypeOK, Conn, RunRow
  <2> HIDE DEF r
  <2>2. \A d \in Clients : d # c => conns[d].run # r
    BY <2>1 DEF RunsInHand, r
  <2>3. QED
    BY <2>1, <2>2, <1>a DEF RunsInHand, EndedInPast, Unfinished
<1>4. ASSUME NEW c \in Clients, PruneRuns(c) PROVE RunsInHand' /\ EndedInPast'
  BY <1>4, <1>a DEF PruneRuns, RunsInHand, EndedInPast, Unfinished, AbsentRun
<1>5. ASSUME NEW c \in Clients, UNCHANGED <<clock, runs>>,
             \A d \in Clients : conns'[d].run \in {conns[d].run, NoRun}
      PROVE RunsInHand' /\ EndedInPast'
  BY <1>5, <1>a DEF RunsInHand, EndedInPast, Unfinished
<1>6. ASSUME NEW c \in Clients,
             \/ Connect(c) \/ Close(c) \/ Crash(c) \/ UpsertSelect(c) \/ UpsertInsert(c)
             \/ UpsertUpdate(c) \/ UpsertFail(c) \/ PruneItems(c)
             \/ \E u \in Urls, h \in Hashes : UpsertCall(c, u, h)
      PROVE RunsInHand' /\ EndedInPast'
  <2>1. UNCHANGED <<clock, runs>> /\ \A d \in Clients : conns'[d].run \in {conns[d].run, NoRun}
    BY <1>6 DEF Connect, Close, Crash, UpsertSelect, UpsertInsert, UpsertUpdate, UpsertFail,
       PruneItems, UpsertCall, UpsertReturn, AtRest, TypeOK, Conn
  <2>2. QED
    BY <2>1, <1>5
<1>7. QED
  BY <1>1, <1>2, <1>3, <1>4, <1>6 DEF Next, ClientStep

LEMMA RunsInvariance == Spec => [](RunsInHand /\ EndedInPast)
<1>1. Init /\ []TypeOK /\ [][Next]_vars => [](RunsInHand /\ EndedInPast)
  BY InitRuns, RunsStep, PTL
<1>2. QED
  BY <1>1, TypeCorrect, PTL DEF Spec

(* With the lock or without it, only retention takes the time of the last   *)
(* success back, and only by deleting the run that set it.                  *)
THEOREM WatermarkNeverBack == Spec => WatermarkForward
<1> DEFINE Kept == \A t \in LastSuccess :
          \/ \E s \in LastSuccess' : s >= t
          \/ \E r \in Successes : runs[r].finished = t /\ runs'[r].status = "absent"
<1>1. TypeOK /\ RunsInHand /\ EndedInPast /\ [Next]_vars => [Kept]_vars
  <2> SUFFICES ASSUME TypeOK, RunsInHand, EndedInPast, [Next]_vars, NEW t \in LastSuccess
               PROVE  \/ \E s \in LastSuccess' : s >= t
                      \/ \E r \in Successes : runs[r].finished = t /\ runs'[r].status = "absent"
    OBVIOUS
  <2>a. clock \in Nat /\ NoRun \notin RunIds
        /\ \A r \in RunIds : runs[r] \in RunRow /\ runs[r].finished \in Nat
    BY StoreAssumption DEF TypeOK, RunRow
  <2>1. PICK q \in Successes : runs[q].finished = t /\ \A p \in Successes : runs[p].finished <= t
    BY DEF LastSuccess
  <2>2. q \in RunIds /\ runs[q].status = "success" /\ t \in Nat
    BY <2>1, <2>a DEF Successes
  <2>3. ASSUME runs'[q] = runs[q], \A p \in Successes' : runs'[p].finished <= t
        PROVE \E s \in LastSuccess' : s >= t
    <3>1. q \in Successes' /\ runs'[q].finished = t
      BY <2>1, <2>2, <2>3 DEF Successes
    <3>2. t \in LastSuccess'
      BY <2>3, <3>1 DEF LastSuccess
    <3>3. QED
      BY <2>2, <3>2
  <2>4. ASSUME NEW c \in Clients, NEW r \in RunIds, BeginRun(c, r)
        PROVE \E s \in LastSuccess' : s >= t
    <3>1. runs[r].status = "absent" /\ runs'[r].status = "running"
          /\ \A p \in RunIds : p # r => runs'[p] = runs[p]
      BY <2>4 DEF BeginRun, TypeOK
    <3>2. runs'[q] = runs[q]
      BY <2>2, <3>1
    <3>3. \A p \in Successes' : p \in Successes /\ runs'[p] = runs[p]
      BY <3>1 DEF Successes
    <3>4. QED
      BY <2>1, <2>3, <3>2, <3>3
  <2>5. ASSUME NEW c \in Clients, NEW success \in BOOLEAN, EndRun(c, success)
        PROVE \E s \in LastSuccess' : s >= t
    <3> DEFINE r == conns[c].run
    <3>1. /\ r \in RunIds
          /\ \A p \in RunIds : p # r => runs'[p] = runs[p]
          /\ runs'[r] = runs[r] \/ (runs'[r].finished = clock /\ runs'[r].status # "running")
      BY <2>5, <2>a DEF EndRun, TypeOK, Conn, RunRow
    <3>2. r # q
      BY <2>2, <3>1 DEF RunsInHand, Unfinished
    <3> HIDE DEF r
    <3>3. CASE r \in Successes' /\ runs'[r] # runs[r]
      <4>1. runs'[r].finished = clock
        BY <3>1, <3>3
      <4>2. \A p \in Successes' : p = r \/ (p \in Successes /\ runs'[p] = runs[p])
        BY <3>1 DEF Successes
      <4>3. \A p \in Successes' : runs'[p].finished <= clock
        BY <4>1, <4>2, <2>a DEF EndedInPast, Successes
      <4>4. clock \in LastSuccess'
        BY <3>3, <4>1, <4>3 DEF LastSuccess
      <4>5. clock >= t
        BY <2>1, <2>2, <2>a DEF EndedInPast
      <4>6. QED
        BY <4>4, <4>5
    <3>4. CASE ~(r \in Successes' /\ runs'[r] # runs[r])
      <4>1. \A p \in Successes' : p \in Successes /\ runs'[p] = runs[p]
        BY <3>1, <3>4 DEF Successes
      <4>2. runs'[q] = runs[q]
        BY <2>2, <3>1, <3>2
      <4>3. QED
        BY <2>1, <2>3, <4>1, <4>2
    <3>5. QED
      BY <3>3, <3>4
  <2>6. ASSUME NEW c \in Clients, PruneRuns(c)
        PROVE  \/ \E s \in LastSuccess' : s >= t
               \/ \E r \in Successes : runs[r].finished = t /\ runs'[r].status = "absent"
    <3>1. \A p \in RunIds : runs'[p] = AbsentRun \/ runs'[p] = runs[p]
      BY <2>6 DEF PruneRuns
    <3>2. CASE runs'[q] = AbsentRun
      BY <2>1, <3>2 DEF AbsentRun
    <3>3. CASE runs'[q] = runs[q]
      <4>1. \A p \in Successes' : p \in Successes /\ runs'[p] = runs[p]
        BY <3>1 DEF Successes, AbsentRun
      <4>2. QED
        BY <2>1, <2>3, <3>3, <4>1
    <3>4. QED
      BY <2>2, <3>1, <3>2, <3>3
  <2>7. CASE runs' = runs
    BY <2>1, <2>2, <2>3, <2>7 DEF Successes
  <2>8. QED
    BY <2>4, <2>5, <2>6, <2>7 DEF Next, Tick, ClientStep, Connect, Close, Crash, UpsertCall,
       UpsertSelect, UpsertInsert, UpsertUpdate, UpsertReturn, UpsertFail, PruneItems, vars
<1>2. QED
  BY <1>1, TypeCorrect, RunsInvariance, PTL DEF WatermarkForward, Spec

-----------------------------------------------------------------------------
(* The migrations *)

Places == [pc: {"closed", "applying", "open"}, version: Nat, done: Nat]

(* SchemaWhole speaks of those who are in: it needs what schema_version says  *)
(* of the tables (RecordWhole), and what a process on its way in has done     *)
(* (Applying), its reading of schema_version being old.                       *)
RecordWhole ==
    \A v \in recorded : Creates(v) \subseteq schema /\ 1..v \subseteq recorded
Applying ==
    \A p \in Openers : opener[p].pc = "applying" =>
        /\ opener[p].version \in Versions /\ opener[p].done <= Len(UpSql[opener[p].version])
        /\ 1..(opener[p].version - 1) \subseteq recorded
        /\ \A i \in 1..opener[p].done : UpSql[opener[p].version][i] \in schema
Inside == \A p \in Openers : opener[p].pc = "open" => Versions \subseteq recorded

SchemaInv ==
    /\ opener \in [Openers -> Places] /\ recorded \subseteq Versions
    /\ RecordWhole /\ Applying /\ Inside

LEMMA Script == \A v \in Versions : UpSql[v] \in Seq(STRING) /\ Len(UpSql[v]) \in Nat
BY OpenersAssumption DEF Versions

LEMMA SchemaStarts == MigrationInit => SchemaInv
BY DEF MigrationInit, SchemaInv, RecordWhole, Applying, Inside, Closed, At, Places

LEMMA Follows ==
    ASSUME NEW v \in 0..CURRENT_VERSION
    PROVE  /\ Following(v) \in Places
           /\ Following(v).pc = "open" => v = CURRENT_VERSION
           /\ Following(v).pc = "applying" =>
                Following(v).version = v + 1 /\ v + 1 \in Versions /\ Following(v).done = 0
BY OpenersAssumption DEF Following, At, Places, Versions

LEMMA SchemaStep == SchemaInv /\ [MigrationNext]_migrationVars => SchemaInv'
<1> SUFFICES ASSUME SchemaInv, [MigrationNext]_migrationVars PROVE SchemaInv'
    OBVIOUS
<1> USE DEF SchemaInv
<1>1. ASSUME NEW p \in Openers, ReadVersion(p) PROVE SchemaInv'
  <2>1. PICK v \in 0..CURRENT_VERSION : /\ Applied(v) /\ \A w \in recorded : w <= v
                                        /\ opener' = [opener EXCEPT ![p] = Following(v)]
      BY <1>1 DEF ReadVersion
  <2>2. UNCHANGED <<schema, recorded>>
      BY <1>1 DEF ReadVersion
  <2>3. 1..v \subseteq recorded
    <3>1. CASE v = 0
        BY <3>1
    <3>2. CASE v \in recorded
        BY <3>2 DEF RecordWhole
    <3>3. QED
        BY <2>1, <3>1, <3>2 DEF Applied
  <2>4. RecordWhole'
      BY <2>2 DEF RecordWhole, Creates
  <2>5. Applying'
      BY <2>1, <2>2, <2>3, Follows, Script DEF Applying
  <2>6. Inside'
      BY <2>1, <2>2, <2>3, Follows DEF Inside, Versions
  <2>7. QED
      BY <2>1, <2>2, <2>4, <2>5, <2>6, Follows
<1>2. ASSUME NEW p \in Openers, ExecuteStatement(p) PROVE SchemaInv'
  <2> DEFINE v == opener[p].version
             d == opener[p].done
  <2>1. v \in Versions /\ d \in Nat /\ d < Len(UpSql[v])
      BY <1>2 DEF ExecuteStatement, Applying, Places
  <2>2. /\ UNCHANGED recorded
        /\ schema' = schema \cup {UpSql[v][d + 1]}
        /\ opener' = [opener EXCEPT ![p] = [opener[p] EXCEPT !.done = d + 1]]
      BY <1>2 DEF ExecuteStatement
  <2>3. opener' \in [Openers -> Places]
    <3>1. opener[p] \in Places /\ d + 1 \in Nat
        BY <2>1
    <3>2. [opener[p] EXCEPT !.done = d + 1] \in Places
      <4> HIDE DEF d
      <4>1. QED
          BY <3>1 DEF Places
    <3>3. QED
        BY <2>2, <3>2
  <2>4. RecordWhole'
      BY <2>2 DEF RecordWhole, Creates
  <2>5. Applying'
    <3> SUFFICES ASSUME NEW q \in Openers, opener'[q].pc = "applying"
                 PROVE  /\ opener'[q].version \in Versions
                        /\ opener'[q].done <= Len(UpSql[opener'[q].version])
                        /\ 1..(opener'[q].version - 1) \subseteq recorded'
                        /\ \A i \in 1..opener'[q].done : UpSql[opener'[q].version][i] \in schema'
        BY DEF Applying
    <3>1. CASE q = p
      <4>1. /\ opener'[p].version = v /\ opener'[p].done = d + 1 /\ opener[p].pc = "applying"
          BY <2>2, <1>2 DEF Places, ExecuteStatement
      <4>2. \A i \in 1..d : UpSql[v][i] \in schema
          BY <4>1 DEF Applying
      <4>3. 1..(v - 1) \subseteq recorded /\ d + 1 <= Len(UpSql[v])
          BY <4>1, <2>1, Script DEF Applying
      <4> HIDE DEF v, d
      <4>4. \A i \in 1..(d + 1) : i \in 1..d \/ i = d + 1
          BY <2>1
      <4>5. QED
          BY <3>1, <4>1, <4>2, <4>3, <4>4, <2>1, <2>2
    <3>2. CASE q # p
        BY <3>2, <2>2 DEF Applying
    <3>3. QED
        BY <3>1, <3>2
  <2>6. Inside'
      BY <2>2 DEF Inside, Places
  <2>7. QED
      BY <2>2, <2>3, <2>4, <2>5, <2>6
<1>3. ASSUME NEW p \in Openers, RecordVersion(p) PROVE SchemaInv'
  <2> DEFINE v == opener[p].version
  <2>1. /\ v \in Versions /\ 1..(v - 1) \subseteq recorded /\ Creates(v) \subseteq schema
      BY <1>3, Script DEF RecordVersion, ScriptDone, Applying, Creates
  <2>2. /\ UNCHANGED schema /\ recorded' = recorded \cup {v}
        /\ opener' = [opener EXCEPT ![p] = Following(v)]
      BY <1>3 DEF RecordVersion
  <2>3. v \in 0..CURRENT_VERSION /\ v \in Nat
      BY <2>1, OpenersAssumption DEF Versions
  <2> HIDE DEF v
  <2>4. \A i \in 1..v : i \in 1..(v - 1) \/ i = v
      BY <2>3
  <2>5. 1..v \subseteq recorded'
      BY <2>1, <2>2, <2>4
  <2>6. RecordWhole'
      BY <2>1, <2>2, <2>5 DEF RecordWhole, Creates
  <2>7. Applying'
      BY <2>2, <2>3, <2>5, Follows, Script DEF Applying
  <2>8. Inside'
      BY <2>2, <2>3, <2>5, Follows DEF Inside, Versions
  <2>9. QED
      BY <2>1, <2>2, <2>3, <2>6, <2>7, <2>8, Follows
<1>4. ASSUME NEW p \in Openers, Refused(p) \/ Disconnect(p) PROVE SchemaInv'
  <2>1. /\ UNCHANGED <<schema, recorded>>
        /\ opener' = [opener EXCEPT ![p] = Closed]
      BY <1>4 DEF Refused, Disconnect
  <2>2. QED
      BY <2>1 DEF RecordWhole, Creates, Applying, Inside, Closed, At, Places
<1>5. CASE UNCHANGED migrationVars
    BY <1>5 DEF migrationVars, RecordWhole, Creates, Applying, Inside
<1>6. QED
    BY <1>1, <1>2, <1>3, <1>4, <1>5 DEF MigrationNext

(* However many processes open the database, and wherever one is killed,     *)
(* apply_migrations lets none through before every table exists.             *)
THEOREM SchemaIsWhole == MigrationSpec => []SchemaWhole
<1>1. SchemaInv => SchemaWhole
    BY DEF SchemaInv, RecordWhole, Inside, SchemaWhole
<1>2. QED
    BY <1>1, SchemaStarts, SchemaStep, PTL DEF MigrationSpec
=============================================================================
