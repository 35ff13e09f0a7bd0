------------------------- MODULE ControlPlaneProofs -------------------------
(***************************************************************************)
(* Theorems about ControlPlane, for every set of ids, requests, daemons,   *)
(* worker threads and every value of the bounds.                           *)
(***************************************************************************)
EXTENDS ControlPlane, TLAPS

-----------------------------------------------------------------------------
(***************************************************************************)
(* Facts about sequences, functions and requests.                          *)
(***************************************************************************)

\* A sequence extended by a member of a set stays over that set.
LEMMA AppendType ==
  ASSUME NEW S, NEW s \in Seq(S), NEW e \in S
  PROVE  Append(s, e) \in Seq(S)
  OBVIOUS

\* A function updated with a value of its range keeps its type.
LEMMA UpdateType ==
  ASSUME NEW S, NEW T, NEW f \in [S -> T], NEW x, NEW v, x \in S => v \in T
  PROVE  [f EXCEPT ![x] = v] \in [S -> T]
  OBVIOUS

\* The record that stands for "no request" is a request.
LEMMA NoRequestType == NoRequest \in Request
  BY DEF NoRequest, Request, Mutations

\* handle() changes nothing of a request but its id.
LEMMA NamedRequest ==
  ASSUME NEW r \in Requests, NEW i \in Ids
  PROVE  /\ [r EXCEPT !.id = i] \in Request
         /\ [r EXCEPT !.id = i].id = i
  BY RequestsAssumption DEF Request

\* The names handle() may choose are ids.
LEMMA NamesAreIds ==
  ASSUME NEW r \in Requests, NEW d, NEW i \in NamesFor(d, r)
  PROVE  i \in Ids
  BY RequestsAssumption DEF Request, NamesFor

\* The effects begin() stores.
LEMMA RequestedType ==
  ASSUME NEW q \in Request
  PROVE  Requested(q) \in SUBSET (Effects \cup {"unknown"})
  BY DEF Requested, Implied, Request, Mutations, Effects

\* A chain extended by an id is a chain.
LEMMA ChainType ==
  ASSUME TypeOK, NEW q \in Request, q.id \in Ids
  PROVE  Chain(q) \in Seq(Ids)
<1>1. CASE q.parent = None
  BY <1>1, AppendType DEF Chain
<1>2. CASE q.parent # None
  <2>1. execution[q.parent].chain \in Seq(Ids)
    BY <1>2 DEF TypeOK, ExecutionRecord, Request
  <2>2. QED
    BY <1>2, <2>1, AppendType DEF Chain
<1>3. QED
  BY <1>1, <1>2

\* append() keeps the log a log.
LEMMA LogType ==
  ASSUME TypeOK, NEW s \in Subjects, NEW tag \in AuditTags
  PROVE  Log(s, tag) \in [Subjects -> Seq(AuditTags)]
  BY DEF Log, TypeOK

-----------------------------------------------------------------------------
(***************************************************************************)
(* Type correctness.                                                       *)
(***************************************************************************)

\* The defaults of the records are records.
LEMMA DefaultsType ==
  /\ NoExecution \in ExecutionRecord /\ NoApproval \in ApprovalRecord
  /\ NoContinuation \in ContinuationRecord /\ NoLease \in LeaseRecord
  /\ Healthy \in HealthRecord /\ Idle \in Thread
  BY NoRequestType
  DEF NoExecution, NoApproval, NoContinuation, NoLease, Healthy, Idle,
      ExecutionRecord, ApprovalRecord, ContinuationRecord, LeaseRecord,
      HealthRecord, Thread, ExecutionStates, ApprovalStates, Results

\* What finish() and the constructor write is an execution record.
LEMMA ConcludedType ==
  ASSUME NEW x \in ExecutionRecord, NEW res \in Results
  PROVE  /\ Concluded(x, res) \in ExecutionRecord
         /\ Outcome(res) \in Settled
         /\ [x EXCEPT !.state = "UNCERTAIN"] \in ExecutionRecord
  BY DEF Concluded, Outcome, ExecutionRecord, ExecutionStates, Results, Settled

\* The health record finish() writes.
LEMMA HealthAfterType ==
  ASSUME TypeOK, NEW a \in Agents, NEW res
  PROVE  HealthAfter(a, res) \in HealthRecord
  BY DEF HealthAfter, TypeOK, HealthRecord

\* The empty database and no running daemon are of the right types.
LEMMA InitTypeOK == Init => TypeOK
  BY DefaultsType DEF Init, TypeOK

\* Each step of handle(), of the process and of the owner keeps the types.
LEMMA StepTypeOK == TypeOK /\ [Next]_vars => TypeOK'
<1> SUFFICES ASSUME TypeOK, [Next]_vars PROVE TypeOK'
  OBVIOUS
<1>1. ASSUME NEW d \in Daemons, NEW e \in EnforceModes, Start(d, e) PROVE TypeOK'
  <2>1. execution' \in [Ids -> ExecutionRecord]
    <3>1. ASSUME NEW i \in Ids
          PROVE  /\ execution[i] \in ExecutionRecord
                 /\ [execution[i] EXCEPT !.state = "UNCERTAIN"] \in ExecutionRecord
      BY DEF TypeOK, ExecutionRecord, ExecutionStates
    <3>2. QED
      BY <1>1, <3>1 DEF Start, Recovered
  <2>2. audit' \in [Subjects -> Seq(AuditTags)]
    <3>1. "UNCERTAIN" \in AuditTags
      BY DEF AuditTags, ExecutionStates
    <3>2. ASSUME NEW s \in Subjects PROVE audit[s] \in Seq(AuditTags)
      BY DEF TypeOK
    <3>3. ASSUME NEW s \in Subjects PROVE Append(audit[s], "UNCERTAIN") \in Seq(AuditTags)
      BY <3>1, <3>2, AppendType
    <3>4. QED
      BY <1>1, <3>2, <3>3 DEF Start
  <2>3. QED
    BY <1>1, <2>1, <2>2, ModesAssumption DEF Start, TypeOK, history
<1>2. ASSUME NEW d \in Daemons, Crash(d) PROVE TypeOK'
  BY <1>2, DefaultsType DEF Crash, TypeOK, records, history
<1>3. ASSUME NEW t \in 0..MaxClock, SetClock(t) PROVE TypeOK'
  BY <1>3, BoundsAssumption DEF SetClock, TypeOK, records, history
<1>4. ASSUME NEW w \in Workers, Dispatch(w) PROVE TypeOK'
  <2>1. calls' \in [Ids -> Nat]
    <3>1. calls \in [Ids -> Nat]
      BY DEF TypeOK
    <3>2. worker[w].request.id \in Ids => calls[worker[w].request.id] + 1 \in Nat
      BY <3>1
    <3>3. QED
      BY <1>4, <3>1, <3>2, UpdateType DEF Dispatch
  <2>2. worker' \in [Workers -> Thread]
    <3>1. ASSUME NEW res \in Results
          PROVE  [pc |-> "finish", request |-> worker[w].request, result |-> res] \in Thread
      BY DEF TypeOK, Thread
    <3>2. QED
      BY <1>4, <3>1 DEF Dispatch, TypeOK
  <2>3. QED
    BY <1>4, <2>1, <2>2 DEF Dispatch, TypeOK, records
<1>5. ASSUME NEW w \in Workers, FinishFails(w) PROVE TypeOK'
  BY <1>5, DefaultsType DEF FinishFails, TypeOK, records, history
<1>6. ASSUME NEW w \in Workers, Finish(w) PROVE TypeOK'
  <2> DEFINE q == worker[w].request
             res == worker[w].result
  <2>0. q \in Request /\ res \in Results
    BY <1>6 DEF Finish, TypeOK, Thread
  <2>1. execution' \in [Ids -> ExecutionRecord]
    BY <1>6, <2>0, ConcludedType DEF Finish, TypeOK
  <2>2. continuation' \in [Continuations -> ContinuationRecord]
    <3>1. ASSUME NEW x \in ContinuationRecord
          PROVE  [x EXCEPT !.state = "DELIVERED", !.by = q.id] \in ContinuationRecord
      BY <2>0 DEF ContinuationRecord, Request
    <3>2. QED
      BY <1>6, <3>1 DEF Finish, TypeOK
  <2>3. health' \in [Agents -> HealthRecord]
    BY <1>6, HealthAfterType DEF Finish, TypeOK
  <2>4. audit' \in [Subjects -> Seq(AuditTags)]
    <3>1. "DELIVERED" \in AuditTags /\ Outcome(res) \in AuditTags
      BY <2>0 DEF AuditTags, ExecutionStates, Outcome, Results
    <3>2. ASSUME NEW s \in Subjects, NEW e \in AuditTags
          PROVE  audit[s] \in Seq(AuditTags) /\ Append(audit[s], e) \in Seq(AuditTags)
      BY AppendType DEF TypeOK
    <3>3. QED
      BY <1>6, <3>1, <3>2 DEF Finish
  <2>5. told' \in [Ids -> SUBSET {"ok", "error"}]
    <3>1. CASE res = "uncertain"
      BY <1>6, <3>1 DEF Finish, TypeOK
    <3>2. CASE res # "uncertain"
      <4>1. res \in {"ok", "error"}
        BY <2>0, <3>2 DEF Results
      <4>2. QED
        BY <1>6, <3>2, <4>1 DEF Finish, TypeOK
    <3>3. QED
      BY <3>1, <3>2
  <2>6. worker' \in [Workers -> Thread]
    BY <1>6, DefaultsType DEF Finish, TypeOK
  <2>7. QED
    BY <1>6, <2>1, <2>2, <2>3, <2>4, <2>5, <2>6 DEF Finish, TypeOK
<1>7. ASSUME NEW w \in Workers, NEW r \in Requests, Handle(w, r) PROVE TypeOK'
  <2>1. PICK i \in NamesFor(DaemonOf[w], r) :
           LET q == [r EXCEPT !.id = i] IN
           Replay(w, q) \/ RequireApproval(w, q) \/ Admit(w, q)
    BY <1>7 DEF Handle
  <2> DEFINE q == [r EXCEPT !.id = i]
  <2>2. i \in Ids /\ q \in Request /\ q.id = i
    BY NamesAreIds, NamedRequest
  <2> HIDE DEF q
  <2>3. i \in Subjects
    BY <2>2 DEF Subjects
  <2>4. CASE Replay(w, q)
    <3>1. execution[i].result \in {"ok", "error"}
      BY <2>2, <2>4 DEF Replay, TypeOK, ExecutionRecord
    <3>2. told' \in [Ids -> SUBSET {"ok", "error"}]
      BY <2>2, <2>4, <3>1 DEF Replay, TypeOK
    <3>3. QED
      BY <2>4, <3>2 DEF Replay, TypeOK, records, machine
  <2>5. CASE RequireApproval(w, q)
    <3>1. audit' \in [Subjects -> Seq(AuditTags)]
      BY <2>2, <2>3, <2>5, LogType DEF RequireApproval, AuditTags, ApprovalStates
    <3>2. [state |-> "PENDING", request |-> q, expires |-> 0] \in ApprovalRecord
      BY <2>2 DEF ApprovalRecord, ApprovalStates
    <3>3. approval' \in [Ids -> ApprovalRecord]
      BY <2>5, <3>2 DEF RequireApproval, TypeOK
    <3>4. QED
      BY <2>5, <3>1, <3>3 DEF RequireApproval, TypeOK, machine, history
  <2>6. CASE Admit(w, q)
    <3>1. audit' \in [Subjects -> Seq(AuditTags)]
      BY <2>2, <2>3, <2>6, LogType DEF Admit, AuditTags, ExecutionStates
    <3>2. execution' \in [Ids -> ExecutionRecord]
      <4>1. [state |-> "DISPATCHING", request |-> q, effects |-> Requested(q),
             chain |-> Chain(q), result |-> "none"] \in ExecutionRecord
        BY <2>2, RequestedType, ChainType DEF ExecutionRecord, ExecutionStates
      <4>2. QED
        BY <2>6, <4>1 DEF Admit, TypeOK
    <3>3. fenced' \in [Resources -> Nat]
      BY <2>2, <2>6 DEF Admit, TypeOK, Request, LeaseClaim
    <3>4. worker' \in [Workers -> Thread]
      <4>1. [pc |-> "dispatch", request |-> q, result |-> "none"] \in Thread
        BY <2>2 DEF Thread
      <4>2. QED
        BY <2>6, <4>1 DEF Admit, TypeOK
    <3>5. QED
      BY <2>2, <2>6, <3>1, <3>2, <3>3, <3>4 DEF Admit, TypeOK
  <2>7. QED
    BY <2>1, <2>4, <2>5, <2>6 DEF q
<1>8. ASSUME Owner PROVE TypeOK'
  <2> USE DEF TypeOK, machine, history
  <2>0. /\ Continuations \subseteq Subjects /\ Sessions \subseteq Subjects
        /\ Resources \subseteq Subjects /\ Ids \subseteq Subjects /\ Agents \subseteq Subjects
        /\ {"PENDING", "created", "acquire", "renew", "release", "quarantine",
            "APPROVED", "DENIED", "REVOKED"} \subseteq AuditTags
    BY DEF Subjects, AuditTags, ApprovalStates
  <2>1. ASSUME NEW c \in Continuations, NEW t \in Tasks, CreateContinuation(c, t) PROVE TypeOK'
    <3>1. [state |-> "PENDING", task |-> t, by |-> None] \in ContinuationRecord
      BY DEF ContinuationRecord
    <3>2. Log(c, "PENDING") \in [Subjects -> Seq(AuditTags)]
      BY <2>0, LogType
    <3>3. QED
      BY <2>1, <3>1, <3>2 DEF CreateContinuation
  <2>2. ASSUME NEW s \in Sessions, CreateSession(s) PROVE TypeOK'
    <3>1. Log(s, "created") \in [Subjects -> Seq(AuditTags)]
      BY <2>0, LogType
    <3>2. QED
      BY <2>2, <3>1 DEF CreateSession
  <2>3. ASSUME NEW r \in Resources, NEW o \in Owners, NEW ttl \in 1..MaxTtl, AcquireLease(r, o, ttl)
        PROVE  TypeOK'
    <3>1. [owner |-> o, token |-> lease[r].token + 1, fence |-> NextFence(r),
           expires |-> clock + ttl] \in LeaseRecord
      BY BoundsAssumption DEF LeaseRecord, NextFence
    <3>2. Log(r, "acquire") \in [Subjects -> Seq(AuditTags)]
      BY <2>0, LogType
    <3>3. QED
      BY <2>3, <3>1, <3>2 DEF AcquireLease
  <2>4. ASSUME NEW r \in Resources, NEW n \in Nat
        PROVE  [lease EXCEPT ![r].expires = n] \in [Resources -> LeaseRecord]
    BY DEF LeaseRecord
  <2>5. ASSUME NEW r \in Resources, NEW o, NEW k, NEW ttl \in 1..MaxTtl, RenewLease(r, o, k, ttl)
        PROVE  TypeOK'
    <3>1. Log(r, "renew") \in [Subjects -> Seq(AuditTags)]
      BY <2>0, LogType
    <3>2. clock + ttl \in Nat
      BY BoundsAssumption
    <3>3. QED
      BY <2>4, <2>5, <3>1, <3>2 DEF RenewLease
  <2>6. ASSUME NEW r \in Resources, NEW o, NEW k, ReleaseLease(r, o, k) PROVE TypeOK'
    <3>1. Log(r, "release") \in [Subjects -> Seq(AuditTags)]
      BY <2>0, LogType
    <3>2. QED
      BY <2>4, <2>6, <3>1 DEF ReleaseLease
  <2>7. ASSUME NEW i \in Ids, NEW v \in {"APPROVED", "DENIED"}, NEW ttl \in 1..MaxTtl, Decide(i, v, ttl)
        PROVE  TypeOK'
    <3>1. [approval[i] EXCEPT !.state = v, !.expires = clock + ttl] \in ApprovalRecord
      <4>1. clock + ttl \in Nat /\ approval[i] \in ApprovalRecord /\ v \in ApprovalStates
        BY BoundsAssumption DEF ApprovalStates
      <4>2. QED
        BY <4>1 DEF ApprovalRecord
    <3>2. Log(i, v) \in [Subjects -> Seq(AuditTags)]
      BY <2>0, LogType
    <3>3. QED
      BY <2>7, <3>1, <3>2 DEF Decide
  <2>8. ASSUME NEW i \in Ids, Revoke(i) PROVE TypeOK'
    <3>1. [approval[i] EXCEPT !.state = "REVOKED"] \in ApprovalRecord
      BY DEF ApprovalRecord, ApprovalStates
    <3>2. Log(i, "REVOKED") \in [Subjects -> Seq(AuditTags)]
      BY <2>0, LogType
    <3>3. QED
      BY <2>8, <3>1, <3>2 DEF Revoke
  <2>9. ASSUME NEW a \in Agents, QuarantineAgent(a) \/ ReleaseAgent(a) PROVE TypeOK'
    <3>1. [health[a] EXCEPT !.quarantined = TRUE] \in HealthRecord /\ Healthy \in HealthRecord
      BY DefaultsType DEF HealthRecord
    <3>2. /\ Log(a, "quarantine") \in [Subjects -> Seq(AuditTags)]
          /\ Log(a, "release") \in [Subjects -> Seq(AuditTags)]
      BY <2>0, LogType
    <3>3. QED
      BY <2>9, <3>1, <3>2 DEF QuarantineAgent, ReleaseAgent
  <2>10. QED
    BY <1>8, <2>1, <2>2, <2>3, <2>5, <2>6, <2>7, <2>8, <2>9 DEF Owner
<1>9. CASE UNCHANGED vars
  BY <1>9 DEF vars, records, machine, history, TypeOK
<1>10. QED
  BY <1>1, <1>2, <1>3, <1>4, <1>5, <1>6, <1>7, <1>8, <1>9 DEF Next

\* Type correctness of every reachable state.
THEOREM TypeCorrect == Spec => []TypeOK
<1>1. Init => TypeOK
  BY InitTypeOK
<1>2. TypeOK /\ [Next]_vars => TypeOK'
  BY StepTypeOK
<1>3. QED
  BY <1>1, <1>2, PTL DEF Spec

-----------------------------------------------------------------------------
(***************************************************************************)
(* At most one dispatch per request id.  The invariant says who may call   *)
(* or settle an id: only the one thread that admitted it, only inside the  *)
(* one daemon that holds the instance lock, and only while the record is   *)
(* DISPATCHING -- which is why neither a duplicate, nor a restart, nor a   *)
(* second daemon can lead to a second call.                                *)
(***************************************************************************)

Busy(w) == worker[w].pc # "idle"

\* Only the holder of the lock runs, and only running daemons have busy
\* threads; each busy thread works on an id of its own that is DISPATCHING.
OneHolder ==
    /\ \A d \in up : instanceLock = d
    /\ \A w \in Workers : Busy(w) =>
          /\ DaemonOf[w] \in up
          /\ worker[w].request.id \in Ids
          /\ execution[worker[w].request.id].state = "DISPATCHING"
          /\ execution[worker[w].request.id].request = worker[w].request
    /\ \A v, w \in Workers :
          Busy(v) /\ Busy(w) /\ worker[v].request.id = worker[w].request.id => v = w

\* How often an id was called, by where it is.
CallCount ==
    /\ \A i \in Ids : /\ calls[i] \in {0, 1}
                      /\ execution[i].state = "ABSENT" => calls[i] = 0
    /\ \A w \in Workers :
          /\ worker[w].pc = "dispatch" => calls[worker[w].request.id] = 0
          /\ worker[w].pc = "finish" => calls[worker[w].request.id] = 1

DispatchInv == TypeOK /\ OneHolder /\ CallCount

\* The steps that touch executions, calls, threads or the lock; every other
\* step leaves all of these alone.
LEMMA DispatchSteps ==
  ASSUME TypeOK, [Next]_vars
  PROVE  \/ \E d \in Daemons, e \in EnforceModes : Start(d, e)
         \/ \E d \in Daemons : Crash(d)
         \/ \E w \in Workers, q \in Request : q.id \in Ids /\ Serving(w) /\ Admit(w, q)
         \/ \E w \in Workers : Dispatch(w)
         \/ \E w \in Workers : Finish(w)
         \/ \E w \in Workers : FinishFails(w)
         \/ UNCHANGED <<execution, calls, worker, up, instanceLock>>
<1> DEFINE Same == UNCHANGED <<execution, calls, worker, up, instanceLock>>
<1>1. ASSUME NEW t, SetClock(t) PROVE Same
  BY <1>1 DEF SetClock, records, history
<1>2. ASSUME Owner PROVE Same
  BY <1>2 DEF Owner, machine, history, CreateContinuation, CreateSession, AcquireLease,
     RenewLease, ReleaseLease, Decide, Revoke, QuarantineAgent, ReleaseAgent
<1>3. ASSUME NEW w \in Workers, NEW r \in Requests, Handle(w, r)
      PROVE  Same \/ \E q \in Request : q.id \in Ids /\ Serving(w) /\ Admit(w, q)
  <2>1. PICK i \in NamesFor(DaemonOf[w], r) :
           LET q == [r EXCEPT !.id = i] IN
           Replay(w, q) \/ RequireApproval(w, q) \/ Admit(w, q)
    BY <1>3 DEF Handle
  <2> DEFINE q == [r EXCEPT !.id = i]
  <2>2. q \in Request /\ q.id \in Ids
    BY NamesAreIds, NamedRequest
  <2> HIDE DEF q
  <2>3. Replay(w, q) \/ RequireApproval(w, q) => Same
    BY DEF Replay, RequireApproval, records, machine, history
  <2>4. Serving(w)
    BY <1>3 DEF Handle
  <2>5. QED
    BY <2>1, <2>2, <2>3, <2>4 DEF q
<1>4. CASE UNCHANGED vars
  BY <1>4 DEF vars, records, machine, history
<1>5. QED
  BY <1>1, <1>2, <1>3, <1>4 DEF Next

\* Nothing is executing and nothing was dispatched at the beginning.
LEMMA InitDispatchInv == Init => DispatchInv
  BY InitTypeOK DEF Init, DispatchInv, OneHolder, CallCount, Busy, Idle

\* Every step keeps the invariant: begin() gives an unused id one holder, the
\* dispatch uses it up, and finish(), a crash and a restart take it away.
LEMMA StepDispatchInv == DispatchInv /\ [Next]_vars => DispatchInv'
<1> SUFFICES ASSUME DispatchInv, [Next]_vars PROVE OneHolder' /\ CallCount'
  BY StepTypeOK DEF DispatchInv
<1> USE DEF DispatchInv
<1>1. ASSUME NEW d \in Daemons, NEW e \in EnforceModes, Start(d, e)
      PROVE  OneHolder' /\ CallCount'
  <2>1. up = {} /\ up' = {d} /\ instanceLock' = d
    BY <1>1, NoneAssumption DEF Start, LockFree, OneHolder, TypeOK
  <2>2. \A w \in Workers : ~Busy(w) /\ worker'[w] = worker[w]
    BY <1>1, <2>1 DEF Start, OneHolder
  <2>3. OneHolder'
    BY <2>1, <2>2 DEF OneHolder, Busy
  <2>4. \A i \in Ids : execution'[i].state = "ABSENT" => execution[i].state = "ABSENT"
    BY <1>1 DEF Start, Recovered, TypeOK, ExecutionRecord
  <2>5. CallCount'
    BY <1>1, <2>2, <2>4 DEF CallCount, Busy, Start, history
  <2>6. QED
    BY <2>3, <2>5
<1>2. ASSUME NEW d \in Daemons, Crash(d) PROVE OneHolder' /\ CallCount'
  <2>1. /\ execution' = execution /\ calls' = calls
        /\ \A w \in Workers : Busy(w)' => /\ worker'[w] = worker[w] /\ Busy(w)
                                          /\ DaemonOf[w] # d
        /\ \A w \in Workers : worker'[w].pc # "idle" => worker'[w] = worker[w]
    BY <1>2 DEF Crash, records, history, Busy, Idle
  <2>2. \A b \in up' : b \in up /\ b # d /\ instanceLock' = b
    BY <1>2 DEF Crash, OneHolder
  <2>3. \A w \in Workers : Busy(w)' => DaemonOf[w] \in up'
    BY <1>2, <2>1 DEF Crash, OneHolder
  <2>4. OneHolder'
    BY <2>1, <2>2, <2>3 DEF OneHolder, Busy
  <2>5. CallCount'
    BY <2>1 DEF CallCount
  <2>6. QED
    BY <2>4, <2>5
<1>3. ASSUME NEW w \in Workers, NEW q \in Request, q.id \in Ids, Serving(w), Admit(w, q)
      PROVE  OneHolder' /\ CallCount'
  <2>1. /\ execution[q.id].state = "ABSENT"
        /\ execution'[q.id].state = "DISPATCHING" /\ execution'[q.id].request = q
        /\ \A i \in Ids : i # q.id => execution'[i] = execution[i]
    BY <1>3 DEF Admit, Admissible, Fresh, TypeOK
  <2>2. /\ worker'[w].pc = "dispatch" /\ worker'[w].request = q
        /\ \A v \in Workers : v # w => worker'[v] = worker[v]
        /\ calls' = calls /\ up' = up /\ instanceLock' = instanceLock
    BY <1>3 DEF Admit, TypeOK
  <2>3. \A v \in Workers : Busy(v) => worker[v].request.id # q.id
    BY <2>1 DEF OneHolder
  <2>4. OneHolder'
    BY <1>3, <2>1, <2>2, <2>3 DEF OneHolder, Busy, Serving
  <2>5. CallCount'
    BY <1>3, <2>1, <2>2, <2>3 DEF CallCount, Busy
  <2>6. QED
    BY <2>4, <2>5
<1>4. ASSUME NEW w \in Workers, Dispatch(w) PROVE OneHolder' /\ CallCount'
  <2>1. /\ execution' = execution /\ up' = up /\ instanceLock' = instanceLock
        /\ worker[w].pc = "dispatch" /\ worker'[w].pc = "finish"
        /\ worker'[w].request = worker[w].request
        /\ \A v \in Workers : v # w => worker'[v] = worker[v]
    BY <1>4 DEF Dispatch, records, TypeOK
  <2>2. worker[w].request.id \in Ids /\ Busy(w) /\ calls[worker[w].request.id] = 0
    BY <2>1 DEF OneHolder, Busy, CallCount
  <2>3. /\ calls'[worker[w].request.id] = 1
        /\ \A i \in Ids : i # worker[w].request.id => calls'[i] = calls[i]
    BY <1>4, <2>2 DEF Dispatch, TypeOK
  <2>4. OneHolder'
    BY <2>1, <2>2 DEF OneHolder, Busy
  <2>5. \A v \in Workers : v # w /\ Busy(v) =>
           worker[v].request.id \in Ids /\ worker[v].request.id # worker[w].request.id
    BY <2>2 DEF OneHolder
  <2>6. execution[worker[w].request.id].state = "DISPATCHING"
    BY <2>2 DEF OneHolder
  <2>7. CallCount'
    <3>1. \A i \in Ids : calls'[i] \in {0, 1} /\ (execution'[i].state = "ABSENT" => calls'[i] = 0)
      BY <2>1, <2>3, <2>6 DEF CallCount
    <3>2. \A v \in Workers : /\ worker'[v].pc = "dispatch" => calls'[worker'[v].request.id] = 0
                             /\ worker'[v].pc = "finish" => calls'[worker'[v].request.id] = 1
      BY <2>1, <2>3, <2>5 DEF CallCount, Busy
    <3>3. QED
      BY <3>1, <3>2 DEF CallCount
  <2>8. QED
    BY <2>4, <2>7
<1>5. ASSUME NEW w \in Workers, Finish(w) PROVE OneHolder' /\ CallCount'
  <2>1. /\ calls' = calls /\ up' = up /\ instanceLock' = instanceLock
        /\ worker[w].pc = "finish" /\ worker'[w].pc = "idle"
        /\ \A v \in Workers : v # w => worker'[v] = worker[v]
    BY <1>5 DEF Finish, TypeOK, Idle
  <2>2. Busy(w) /\ worker[w].request.id \in Ids
    BY <2>1 DEF OneHolder, Busy
  <2>3. \A i \in Ids : i # worker[w].request.id => execution'[i] = execution[i]
    BY <1>5 DEF Finish, TypeOK
  <2>4. \A v \in Workers : v # w /\ Busy(v) =>
           worker[v].request.id \in Ids /\ worker[v].request.id # worker[w].request.id
    BY <2>2 DEF OneHolder
  <2>5. OneHolder'
    BY <2>1, <2>3, <2>4 DEF OneHolder, Busy
  <2>6. execution'[worker[w].request.id].state # "ABSENT"
    <3>1. /\ worker[w].result \in Results
          /\ execution[worker[w].request.id] \in ExecutionRecord
      BY <2>1, <2>2 DEF TypeOK, Thread
    <3>2. execution'[worker[w].request.id] =
             Concluded(execution[worker[w].request.id], worker[w].result)
      BY <1>5, <2>2 DEF Finish, TypeOK
    <3>3. QED
      BY <3>1, <3>2 DEF Concluded, Outcome, Results, ExecutionRecord
  <2>7. CallCount'
    BY <2>1, <2>3, <2>6 DEF CallCount
  <2>8. QED
    BY <2>5, <2>7
<1>6. ASSUME NEW w \in Workers, FinishFails(w) PROVE OneHolder' /\ CallCount'
  <2>1. /\ execution' = execution /\ calls' = calls /\ up' = up /\ instanceLock' = instanceLock
        /\ worker'[w].pc = "idle"
        /\ \A v \in Workers : v # w => worker'[v] = worker[v]
    BY <1>6 DEF FinishFails, TypeOK, Idle, records, history
  <2>2. QED
    BY <2>1 DEF OneHolder, CallCount, Busy
<1>7. CASE UNCHANGED <<execution, calls, worker, up, instanceLock>>
  BY <1>7 DEF OneHolder, CallCount, Busy
<1>8. QED
  BY <1>1, <1>2, <1>3, <1>4, <1>5, <1>6, <1>7, DispatchSteps

\* A request id is dispatched at most once in every behaviour: any number of
\* threads, duplicates, crashes and daemons started on the same database.
THEOREM DispatchedAtMostOnce == Spec => []AtMostOnceDispatch
<1>1. Init => DispatchInv
  BY InitDispatchInv
<1>2. DispatchInv /\ [Next]_vars => DispatchInv'
  BY StepDispatchInv
<1>3. DispatchInv => AtMostOnceDispatch
  BY DEF DispatchInv, CallCount, AtMostOnceDispatch
<1>4. QED
  BY <1>1, <1>2, <1>3, PTL DEF Spec

\* The invariant behind the theorems that follow.
LEMMA DispatchInvariant == Spec => []DispatchInv
  BY InitDispatchInv, StepDispatchInv, PTL DEF Spec

\* A step writes the execution of one id, which was ABSENT or DISPATCHING, or
\* is the recovery of a starting daemon.
LEMMA FinalStep ==
  ASSUME DispatchInv, [Next]_vars, NEW i \in Ids, execution[i].state \in Settled
  PROVE  execution'[i] = execution[i]
<1> USE DEF DispatchInv
<1>1. ASSUME NEW d \in Daemons, NEW e \in EnforceModes, Start(d, e)
      PROVE  execution'[i] = execution[i]
  BY <1>1 DEF Start, Recovered, Settled
<1>2. ASSUME NEW w \in Workers, NEW q \in Request, q.id \in Ids, Admit(w, q)
      PROVE  execution'[i] = execution[i]
  BY <1>2 DEF Admit, Admissible, Fresh, Settled, TypeOK
<1>3. ASSUME NEW w \in Workers, Finish(w) PROVE execution'[i] = execution[i]
  <2>1. execution[worker[w].request.id].state = "DISPATCHING"
    BY <1>3 DEF Finish, OneHolder, Busy
  <2>2. QED
    BY <1>3, <2>1 DEF Finish, Settled, TypeOK
<1>4. ASSUME NEW w \in Workers, Dispatch(w) \/ FinishFails(w) PROVE execution' = execution
  BY <1>4 DEF Dispatch, FinishFails, records
<1>5. ASSUME NEW d \in Daemons, Crash(d) PROVE execution' = execution
  BY <1>5 DEF Crash, records
<1>6. QED
  BY <1>1, <1>2, <1>3, <1>4, <1>5, DispatchSteps

\* Once DELIVERED, FAILED or UNCERTAIN, an execution record never changes: not
\* by a late finish(), not by the recovery of another daemon.
THEOREM SettledForever == Spec => OutcomesAreFinal
<1>1. DispatchInv /\ [Next]_vars =>
        [\A i \in Ids : execution[i].state \in Settled => execution'[i] = execution[i]]_vars
  BY FinalStep
<1>2. QED
  BY <1>1, DispatchInvariant, PTL DEF Spec, OutcomesAreFinal

\* Every step of the control plane is a step of the ledger or leaves it alone.
LEMMA LedgerStep ==
  ASSUME DispatchInv, [Next]_vars
  PROVE  [Ledger!Next]_(Ledger!ledgerVars)
<1> USE DEF DispatchInv
<1> USE DEF Ledger!ledgerVars
<1>1. ASSUME NEW d \in Daemons, NEW e \in EnforceModes, Start(d, e) PROVE Ledger!Recover
  <2>1. \A i \in Ids : execution'[i].state = IF execution[i].state = "DISPATCHING"
                                             THEN "UNCERTAIN" ELSE execution[i].state
    BY <1>1 DEF Start, Recovered, TypeOK, ExecutionRecord
  <2>2. calls' = calls
    BY <1>1 DEF Start, history
  <2>3. QED
    BY <2>1, <2>2 DEF Ledger!Recover
<1>2. ASSUME NEW w \in Workers, NEW q \in Request, q.id \in Ids, Admit(w, q)
      PROVE  Ledger!Open(q.id)
  <2>1. /\ execution[q.id].state = "ABSENT" /\ execution'[q.id].state = "DISPATCHING"
        /\ \A i \in Ids : i # q.id => execution'[i] = execution[i]
        /\ calls' = calls
    BY <1>2 DEF Admit, Admissible, Fresh, TypeOK
  <2>2. QED
    BY <1>2, <2>1 DEF Ledger!Open
<1>3. ASSUME NEW w \in Workers, Dispatch(w) PROVE Ledger!Call(worker[w].request.id)
  <2> DEFINE i == worker[w].request.id
  <2>1. i \in Ids /\ execution[i].state = "DISPATCHING" /\ calls[i] = 0
    BY <1>3 DEF Dispatch, OneHolder, Busy, CallCount
  <2>2. execution' = execution /\ calls' = [calls EXCEPT ![i] = 1]
    BY <1>3, <2>1 DEF Dispatch, records
  <2>3. QED
    BY <2>1, <2>2 DEF Ledger!Call
<1>4. ASSUME NEW w \in Workers, Finish(w) PROVE Ledger!Settle(worker[w].request.id)
  <2> DEFINE i == worker[w].request.id
             o == Outcome(worker[w].result)
  <2>1. i \in Ids /\ execution[i].state = "DISPATCHING" /\ calls[i] = 1
    BY <1>4 DEF Finish, OneHolder, Busy, CallCount
  <2>2. o \in {"DELIVERED", "FAILED", "UNCERTAIN"}
    BY <1>4, ConcludedType DEF Finish, TypeOK, Thread, Settled, Outcome, Results
  <2>3. /\ execution'[i].state = o /\ calls' = calls
        /\ \A j \in Ids : j # i => execution'[j] = execution[j]
    BY <1>4, <2>1 DEF Finish, Concluded, TypeOK, ExecutionRecord
  <2>4. [j \in Ids |-> execution[j].state]' =
           [[j \in Ids |-> execution[j].state] EXCEPT ![i] = o]
    BY <2>1, <2>3
  <2>5. QED
    BY <2>1, <2>2, <2>3, <2>4 DEF Ledger!Settle
<1>5. ASSUME NEW w \in Workers, FinishFails(w)
      PROVE  UNCHANGED <<execution, calls>>
  BY <1>5 DEF FinishFails, records, history
<1>6. ASSUME NEW d \in Daemons, Crash(d) PROVE UNCHANGED <<execution, calls>>
  BY <1>6 DEF Crash, records, history
<1>7. UNCHANGED <<execution, calls>> => UNCHANGED <<[i \in Ids |-> execution[i].state], calls>>
  OBVIOUS
<1>8. QED
  <2>1. \A w \in Workers : Dispatch(w) \/ Finish(w) => worker[w].request.id \in Ids
    BY DEF Dispatch, Finish, OneHolder, Busy
  <2>2. ASSUME NEW d \in Daemons, NEW e \in EnforceModes, Start(d, e) PROVE Ledger!Next
    BY <1>1, <2>2 DEF Ledger!Next
  <2>3. ASSUME NEW w \in Workers, NEW q \in Request, q.id \in Ids, Admit(w, q) PROVE Ledger!Next
    BY <1>2, <2>3 DEF Ledger!Next
  <2>4. ASSUME NEW w \in Workers, Dispatch(w) PROVE Ledger!Next
    BY <1>3, <2>1, <2>4 DEF Ledger!Next
  <2>5. ASSUME NEW w \in Workers, Finish(w) PROVE Ledger!Next
    <3>1. Ledger!Settle(worker[w].request.id)
      BY <1>4, <2>5
    <3>2. worker[w].request.id \in Ids
      BY <2>1, <2>5
    <3>3. QED
      BY <3>1, <3>2 DEF Ledger!Next, Ledger!Settle
  <2>6. QED
    BY <1>5, <1>6, <1>7, <2>2, <2>3, <2>4, <2>5, DispatchSteps

\* ControlPlane implements DispatchLedger.
THEOREM LedgerRefinement == Spec => ImplementsLedger
<1>1. Init => Ledger!Init
  BY DEF Init, Ledger!Init, NoExecution
<1>2. DispatchInv /\ [Next]_vars => [Ledger!Next]_(Ledger!ledgerVars)
  BY LedgerStep
<1>3. QED
  BY <1>1, <1>2, DispatchInvariant, PTL DEF Spec, ImplementsLedger, Ledger!Spec
=============================================================================
