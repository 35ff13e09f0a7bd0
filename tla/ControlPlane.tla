---------------------------- MODULE ControlPlane ----------------------------
(***************************************************************************)
(* The durable control plane of a2ad (daemon/src/ControlPlane.cpp): the    *)
(* control_records table, the audit log, and the three steps of a mutating *)
(* request -- begin (a transaction), dispatch (the network, outside every  *)
(* lock), finish (a transaction) -- run by the worker threads of a daemon  *)
(* that may die between any two of them.  The owner's operations (leases,  *)
(* approvals, continuations, sessions, quarantine) are one transaction     *)
(* each.  The instance lock of main.cpp is part of the module because the  *)
(* recovery in the constructor relies on it.                               *)
(*                                                                         *)
(* Abstractions.  A request is a record of what begin() looks at; the      *)
(* SHA-256 of its canonical form is the record itself.  A lease token      *)
(* (newId(), never repeated) is the number of the acquisition that made    *)
(* it.  The audit log is kept per record it speaks about, each event       *)
(* reduced to the state or operation it reports; the order across records  *)
(* is the business of EventChannel.  A refused request changes nothing and *)
(* is a stuttering step.                                                   *)
(***************************************************************************)
EXTENDS Naturals, Sequences, FiniteSets

CONSTANTS
    Ids,            \* request ids; also the ids of executions and approvals
    Agents, Tasks, Sessions, Continuations, Resources, Owners,
    Requests,       \* the mutating requests clients may send
    Daemons,        \* processes started on the same database
    Workers,        \* threads inside ControlPlane::handle
    DaemonOf,       \* the process a worker belongs to
    EnforceModes,   \* the values policy.enforce may take at a start
    QuarantineAfter, MaxDepth,     \* 3 and 16 in the code
    MaxClock, MaxTtl, MaxAudit,    \* bounds of the model
    None            \* an absent field, "" in the code

ExecutionStates == {"ABSENT", "DISPATCHING", "DELIVERED", "FAILED", "UNCERTAIN"}
ApprovalStates == {"ABSENT", "PENDING", "APPROVED", "DENIED", "REVOKED"}
Settled == {"DELIVERED", "FAILED", "UNCERTAIN"}
Results == {"ok", "error", "uncertain"}

Effects == {"READ_REMOTE", "WRITE_REMOTE", "EXECUTE_REMOTE", "PUBLISH",
            "CREATE_IDENTITY", "STORE_EXTERNAL", "SEND_MESSAGE", "DELEGATE"}

Mutations == {"submit", "respond", "cancel", "stream_submit",
              "push.create", "push.delete", "artifact.materialize"}

LeaseClaim == [resource : Resources, owner : Owners, token : Nat, fence : Nat]

\* The fields begin() reads.  declared is req.contains("effects"); an effect
\* outside the fixed vocabulary can be asked for, and is refused.
Request ==
    [id : Ids \cup {None}, op : Mutations, agent : Agents \cup {None},
     task : Tasks \cup {None}, declared : BOOLEAN,
     effects : SUBSET (Effects \cup {"unknown"}),
     lease : LeaseClaim \cup {None}, continuation : Continuations \cup {None},
     retryOf : Ids \cup {None}, parent : Ids \cup {None},
     session : Sessions \cup {None}]

NoRequest ==
    [id |-> None, op |-> "submit", agent |-> None, task |-> None,
     declared |-> FALSE, effects |-> {}, lease |-> None,
     continuation |-> None, retryOf |-> None, parent |-> None,
     session |-> None]

ASSUME RequestsAssumption == Requests \subseteq Request

ASSUME WorkersAssumption == DaemonOf \in [Workers -> Daemons]

ASSUME ModesAssumption == EnforceModes \subseteq BOOLEAN

ASSUME NoneAssumption ==
    None \notin Ids \cup Agents \cup Continuations \cup Daemons \cup LeaseClaim

\* A trail belongs to a record; that of a request id holds the events of its
\* execution and of its approval.
ASSUME SubjectsAssumption == Ids \cap Continuations = {}

ASSUME BoundsAssumption ==
    /\ QuarantineAfter \in Nat \ {0} /\ MaxDepth \in Nat \ {0}
    /\ MaxClock \in Nat /\ MaxTtl \in Nat /\ MaxAudit \in Nat

VARIABLES
    \* control_records, one variable per kind
    execution, approval, continuation, lease, health, session,
    \* control_events, one sequence per record
    audit,
    \* the machine: system clock, running daemons, flock, policy, threads
    clock, up, instanceLock, enforce, worker,
    \* history, read by properties only
    calls,      \* dispatches of an id
    told,       \* definitive answers clients got for an id
    fenced      \* the fence of the last admission under a lease

records == <<execution, approval, continuation, lease, health, session>>
machine == <<clock, up, instanceLock, enforce, worker>>
history == <<calls, told, fenced>>
vars == <<records, audit, machine, history>>

Subjects == Ids \cup Agents \cup Continuations \cup Resources \cup Sessions

AuditTags == ApprovalStates \cup ExecutionStates
    \cup {"acquire", "renew", "release", "quarantine", "created"}

ExecutionRecord == [state : ExecutionStates, request : Request,
                    effects : SUBSET (Effects \cup {"unknown"}),
                    chain : Seq(Ids), result : {"none", "ok", "error"}]
ApprovalRecord == [state : ApprovalStates, request : Request, expires : Nat]
ContinuationRecord == [state : {"ABSENT", "PENDING", "DELIVERED"},
                       task : Tasks \cup {None}, by : Ids \cup {None}]
LeaseRecord == [owner : Owners \cup {None}, token : Nat, fence : Nat, expires : Nat]
HealthRecord == [failures : Nat, quarantined : BOOLEAN]
\* A thread inside handle(): where it is, for which request, with what answer.
Thread ==
    [pc : {"idle", "dispatch"}, request : Request, result : {"none"}]
    \cup [pc : {"finish"}, request : Request, result : Results]

NoExecution == [state |-> "ABSENT", request |-> NoRequest, effects |-> {},
                chain |-> <<>>, result |-> "none"]
NoApproval == [state |-> "ABSENT", request |-> NoRequest, expires |-> 0]
NoContinuation == [state |-> "ABSENT", task |-> None, by |-> None]
NoLease == [owner |-> None, token |-> 0, fence |-> 0, expires |-> 0]
Healthy == [failures |-> 0, quarantined |-> FALSE]
Idle == [pc |-> "idle", request |-> NoRequest, result |-> "none"]

TypeOK ==
    /\ execution \in [Ids -> ExecutionRecord]
    /\ approval \in [Ids -> ApprovalRecord]
    /\ continuation \in [Continuations -> ContinuationRecord]
    /\ lease \in [Resources -> LeaseRecord]
    /\ health \in [Agents -> HealthRecord]
    /\ session \in SUBSET Sessions
    /\ audit \in [Subjects -> Seq(AuditTags)]
    /\ clock \in Nat
    /\ up \in SUBSET Daemons
    /\ instanceLock \in Daemons \cup {None}
    /\ enforce \in [Daemons -> BOOLEAN]
    /\ worker \in [Workers -> Thread]
    /\ calls \in [Ids -> Nat]
    /\ told \in [Ids -> SUBSET {"ok", "error"}]
    /\ fenced \in [Resources -> Nat]

\* A database no daemon has touched yet, and no daemon running.
Init ==
    /\ execution = [i \in Ids |-> NoExecution]
    /\ approval = [i \in Ids |-> NoApproval]
    /\ continuation = [c \in Continuations |-> NoContinuation]
    /\ lease = [r \in Resources |-> NoLease]
    /\ health = [a \in Agents |-> Healthy]
    /\ session = {}
    /\ audit = [s \in Subjects |-> <<>>]
    /\ clock = 0
    /\ up = {}
    /\ instanceLock = None
    /\ enforce = [d \in Daemons |-> FALSE]
    /\ worker = [w \in Workers |-> Idle]
    /\ calls = [i \in Ids |-> 0]
    /\ told = [i \in Ids |-> {}]
    /\ fenced = [r \in Resources |-> 0]

-----------------------------------------------------------------------------
(***************************************************************************)
(* The process: flock, the constructor's recovery, death.                  *)
(***************************************************************************)

\* append(): the event joins the trail of the record it is about.
Log(s, tag) == [audit EXCEPT ![s] = Append(@, tag)]

\* MaxAudit bounds the operations that could repeat for ever.
Room(s) == Len(audit[s]) < MaxAudit

LockIgnored == TRUE
\* flock(LOCK_EX | LOCK_NB) succeeds.
LockFree == instanceLock = None

RecoveredNothing == execution
\* The constructor's loop over the executions left DISPATCHING.
Recovered ==
    [i \in Ids |-> IF execution[i].state = "DISPATCHING"
                   THEN [execution[i] EXCEPT !.state = "UNCERTAIN"]
                   ELSE execution[i]]

\* A daemon starts: it takes the instance lock or exits at once; then the
\* ControlPlane constructor settles what an earlier process left open.
Start(d, e) ==
    /\ d \notin up
    /\ LockFree
    /\ instanceLock' = d
    /\ up' = up \cup {d}
    /\ enforce' = [enforce EXCEPT ![d] = e]
    /\ execution' = Recovered
    /\ audit' = [s \in Subjects |->
                   IF s \in Ids /\ execution[s].state = "DISPATCHING"
                   THEN Append(audit[s], "UNCERTAIN") ELSE audit[s]]
    /\ UNCHANGED <<approval, continuation, lease, health, session, clock, worker, history>>

\* The process ends -- crash, kill or exit -- wherever its threads are; the
\* kernel drops the lock.
Crash(d) ==
    /\ d \in up
    /\ up' = up \ {d}
    /\ instanceLock' = IF instanceLock = d THEN None ELSE instanceLock
    /\ worker' = [w \in Workers |-> IF DaemonOf[w] = d THEN Idle ELSE worker[w]]
    /\ UNCHANGED <<records, audit, clock, enforce, history>>

\* now() is the system clock: it moves on, and may be set back.
SetClock(t) ==
    /\ t # clock
    /\ clock' = t
    /\ UNCHANGED <<records, audit, up, instanceLock, enforce, worker, history>>

-----------------------------------------------------------------------------
(***************************************************************************)
(* begin(): the admission of a mutating request.                           *)
(***************************************************************************)

Serving(w) == DaemonOf[w] \in up /\ worker[w].pc = "idle"

\* The effects an operation has whatever the request declares.
Implied(op) ==
    CASE op \in {"submit", "respond", "stream_submit"} -> {"EXECUTE_REMOTE"}
      [] op \in {"cancel", "push.create", "push.delete"} -> {"WRITE_REMOTE"}
      [] op = "artifact.materialize" -> {"STORE_EXTERNAL"}

Requested(q) == q.effects \cup Implied(q.op)

\* handle() names a request that came without an id, unless it is governed.
NamesFor(d, r) ==
    IF r.id # None THEN {r.id}
    ELSE {i \in Ids : /\ ~enforce[d] /\ ~r.declared
                      /\ execution[i].state = "ABSENT"
                      /\ approval[i].state = "ABSENT"}

LeaseMatchesUnfenced(q) ==
    q.lease # None =>
        LET held == lease[q.lease.resource] IN
        /\ held.fence > 0 /\ held.expires > clock
LeaseMatches(q) ==
    q.lease # None =>
        LET held == lease[q.lease.resource] IN
        /\ held.fence > 0 /\ held.expires > clock
        /\ held.owner = q.lease.owner
        /\ held.token = q.lease.token
        /\ held.fence = q.lease.fence

ContinuationUnchecked(q) == TRUE
ContinuationPending(q) ==
    q.continuation # None =>
        /\ continuation[q.continuation].state = "PENDING"
        /\ continuation[q.continuation].task = q.task

RetryAllowedUncertain(q) ==
    q.retryOf # None => execution[q.retryOf].state \in {"FAILED", "UNCERTAIN"}
RetryAllowed(q) == q.retryOf # None => execution[q.retryOf].state = "FAILED"

NotQuarantined(q) == q.agent # None => ~health[q.agent].quarantined

\* A grant that is good now: decided, allowed, not revoked, not expired.
Live(i) == approval[i].state = "APPROVED" /\ approval[i].expires > clock

DelegationUnbounded(q) ==
    q.parent # None =>
        LET p == execution[q.parent] IN
        /\ p.state # "ABSENT"
        /\ "DELEGATE" \in p.effects
        /\ Requested(q) \subseteq p.effects
        /\ \A k \in DOMAIN p.chain : Live(p.chain[k])
DelegationUnattenuated(q) ==
    q.parent # None =>
        LET p == execution[q.parent] IN
        /\ p.state # "ABSENT"
        /\ "DELEGATE" \in p.effects
        /\ \A k \in DOMAIN p.chain : Live(p.chain[k])
        /\ Len(p.chain) < MaxDepth
\* A child needs a parent that may delegate, no effect the parent lacks, the
\* live grants of every ancestor, and room in the identity chain.
DelegationAllowed(q) ==
    q.parent # None =>
        LET p == execution[q.parent] IN
        /\ p.state # "ABSENT"
        /\ "DELEGATE" \in p.effects
        /\ Requested(q) \subseteq p.effects
        /\ \A k \in DOMAIN p.chain : Live(p.chain[k])
        /\ Len(p.chain) < MaxDepth

Chain(q) ==
    Append(IF q.parent = None THEN <<>> ELSE execution[q.parent].chain, q.id)

FreshUnlessSaved(q) == execution[q.id].result = "none"
\* No execution record: only then does begin() go on to admit the request.
Fresh(q) == execution[q.id].state = "ABSENT"

\* Everything begin() checks before it comes to the approval.
Admissible(q) ==
    /\ Fresh(q)
    /\ LeaseMatches(q)
    /\ ContinuationPending(q)
    /\ RetryAllowed(q)
    /\ NotQuarantined(q)
    /\ q.effects \subseteq Effects
    /\ DelegationAllowed(q)
    /\ q.session # None => q.session \in session

\* The approval gate applies.
Gated(d, q) == enforce[d] \/ q.declared \/ q.parent # None

GrantedAny(q) == Live(q.id)
\* The owner allowed exactly this request, and the grant has not expired.
Granted(q) == Live(q.id) /\ approval[q.id].request = q

\* begin() answers from the record: the saved result of the same request.
Replay(w, q) ==
    /\ execution[q.id].state # "ABSENT"
    /\ execution[q.id].request = q
    /\ execution[q.id].result # "none"
    /\ told' = [told EXCEPT ![q.id] = @ \cup {execution[q.id].result}]
    /\ UNCHANGED <<records, audit, machine, calls, fenced>>

\* begin() stores a PENDING approval and refuses the request until decided.
RequireApproval(w, q) ==
    /\ Admissible(q)
    /\ Gated(DaemonOf[w], q)
    /\ approval[q.id].state = "ABSENT"
    /\ approval' = [approval EXCEPT ![q.id] =
                      [state |-> "PENDING", request |-> q, expires |-> 0]]
    /\ audit' = Log(q.id, "PENDING")
    /\ UNCHANGED <<execution, continuation, lease, health, session, machine, history>>

\* begin() commits the DISPATCHING record; the thread goes on to dispatch.
Admit(w, q) ==
    /\ Admissible(q)
    /\ Gated(DaemonOf[w], q) => Granted(q)
    /\ execution' = [execution EXCEPT ![q.id] =
                       [state |-> "DISPATCHING", request |-> q,
                        effects |-> Requested(q), chain |-> Chain(q),
                        result |-> "none"]]
    /\ audit' = Log(q.id, "DISPATCHING")
    /\ worker' = [worker EXCEPT ![w] =
                    [pc |-> "dispatch", request |-> q, result |-> "none"]]
    /\ fenced' = IF q.lease = None THEN fenced
                 ELSE [fenced EXCEPT ![q.lease.resource] = q.lease.fence]
    /\ UNCHANGED <<approval, continuation, lease, health, session,
                   clock, up, instanceLock, enforce, calls, told>>

\* ControlPlane::handle up to the end of begin()'s transaction.
Handle(w, r) ==
    /\ Serving(w)
    /\ \E i \in NamesFor(DaemonOf[w], r) :
          LET q == [r EXCEPT !.id = i] IN
          Replay(w, q) \/ RequireApproval(w, q) \/ Admit(w, q)

-----------------------------------------------------------------------------
(***************************************************************************)
(* dispatch and finish().                                                  *)
(***************************************************************************)

\* The request leaves for the agent, with no lock held.  "uncertain" stands
\* for local_network, malformed_response and dispatch_exception, "error" for
\* every other failure; whether the agent acted is not known here.
Dispatch(w) ==
    /\ worker[w].pc = "dispatch"
    /\ calls' = [calls EXCEPT ![worker[w].request.id] = @ + 1]
    /\ \E res \in Results :
          worker' = [worker EXCEPT ![w] =
                       [pc |-> "finish", request |-> worker[w].request, result |-> res]]
    /\ UNCHANGED <<records, audit, clock, up, instanceLock, enforce, told, fenced>>

OutcomeSaved(res) ==
    IF res = "ok" THEN "DELIVERED" ELSE "FAILED"
Outcome(res) ==
    CASE res = "ok" -> "DELIVERED" [] res = "error" -> "FAILED"
      [] res = "uncertain" -> "UNCERTAIN"

HealthForgiving(a, res) ==
    [failures |-> IF res = "uncertain" THEN health[a].failures + 1
                  ELSE IF res = "ok" THEN 0 ELSE health[a].failures,
     quarantined |-> res # "ok" /\ (health[a].quarantined
                                    \/ (res = "uncertain" /\ health[a].failures + 1 >= QuarantineAfter))]
HealthLate(a, res) ==
    [failures |-> IF res = "uncertain" THEN health[a].failures + 1
                  ELSE IF res = "ok" THEN 0 ELSE health[a].failures,
     quarantined |-> health[a].quarantined
                     \/ (res = "uncertain" /\ health[a].failures >= QuarantineAfter)]
\* The health record after a dispatch to agent a: consecutive uncertain
\* outcomes are counted, success starts again from zero, and a full count
\* quarantines the agent.
HealthAfter(a, res) ==
    LET n == IF res = "uncertain" THEN health[a].failures + 1
             ELSE IF res = "ok" THEN 0 ELSE health[a].failures
    IN [failures |-> n,
        quarantined |-> health[a].quarantined \/ n >= QuarantineAfter]

ConcludedAlways(x, res) == [x EXCEPT !.state = Outcome(res), !.result = res]
\* The execution record after finish(): an uncertain result is not saved.
Concluded(x, res) ==
    [x EXCEPT !.state = Outcome(res),
              !.result = IF res = "uncertain" THEN x.result ELSE res]

\* finish(): the outcome, its continuation, the agent's health and the audit
\* events in one transaction; then the answer goes to the client.
Finish(w) ==
    LET q == worker[w].request
        res == worker[w].result
        handedOver == q.continuation # None /\ res = "ok"
    IN
    /\ worker[w].pc = "finish"
    /\ execution' = [execution EXCEPT ![q.id] = Concluded(@, res)]
    /\ continuation' = IF handedOver
                       THEN [continuation EXCEPT ![q.continuation] =
                               [@ EXCEPT !.state = "DELIVERED", !.by = q.id]]
                       ELSE continuation
    /\ health' = IF q.agent = None THEN health
                 ELSE [health EXCEPT ![q.agent] = HealthAfter(q.agent, res)]
    /\ audit' = [s \in Subjects |->
                   IF s = q.id THEN Append(audit[s], Outcome(res))
                   ELSE IF handedOver /\ s = q.continuation
                        THEN Append(audit[s], "DELIVERED") ELSE audit[s]]
    /\ told' = IF res = "uncertain" THEN told
               ELSE [told EXCEPT ![q.id] = @ \cup {res}]
    /\ worker' = [worker EXCEPT ![w] = Idle]
    /\ UNCHANGED <<approval, lease, session, clock, up, instanceLock, enforce, calls, fenced>>

\* The transaction of finish() fails (disk full, database busy): it is rolled
\* back, handle() answers control_error, and the record stays DISPATCHING.
FinishFails(w) ==
    /\ worker[w].pc = "finish"
    /\ worker' = [worker EXCEPT ![w] = Idle]
    /\ UNCHANGED <<records, audit, clock, up, instanceLock, enforce, history>>

-----------------------------------------------------------------------------
(***************************************************************************)
(* control(): the owner's operations, one transaction each.                *)
(***************************************************************************)

\* continuation.create.  The id is new.
CreateContinuation(c, t) ==
    /\ continuation[c].state = "ABSENT"
    /\ continuation' = [continuation EXCEPT ![c] =
                          [state |-> "PENDING", task |-> t, by |-> None]]
    /\ audit' = Log(c, "PENDING")
    /\ UNCHANGED <<execution, approval, lease, health, session, machine, history>>

\* session.create.
CreateSession(s) ==
    /\ s \notin session
    /\ session' = session \cup {s}
    /\ audit' = Log(s, "created")
    /\ UNCHANGED <<execution, approval, continuation, lease, health, machine, history>>

\* The number that tells a new holder's writes from those of earlier holders.
NextFence(r) == lease[r].fence + 1

\* lease.acquire: no live lease; the fence grows whoever held it before.
AcquireLease(r, o, ttl) ==
    /\ Room(r)
    /\ ~(lease[r].fence > 0 /\ lease[r].expires > clock)
    /\ lease' = [lease EXCEPT ![r] =
                   [owner |-> o, token |-> lease[r].token + 1,
                    fence |-> NextFence(r), expires |-> clock + ttl]]
    /\ audit' = Log(r, "acquire")
    /\ UNCHANGED <<execution, approval, continuation, health, session, machine, history>>

Holds(r, o, token) ==
    /\ lease[r].fence > 0 /\ lease[r].expires > clock
    /\ lease[r].owner = o /\ lease[r].token = token

\* lease.renew by the live holder.
RenewLease(r, o, token, ttl) ==
    /\ Room(r)
    /\ Holds(r, o, token)
    /\ lease' = [lease EXCEPT ![r].expires = clock + ttl]
    /\ audit' = Log(r, "renew")
    /\ UNCHANGED <<execution, approval, continuation, health, session, machine, history>>

\* lease.release by the live holder: the lease expires now.
ReleaseLease(r, o, token) ==
    /\ Room(r)
    /\ Holds(r, o, token)
    /\ lease' = [lease EXCEPT ![r].expires = clock]
    /\ audit' = Log(r, "release")
    /\ UNCHANGED <<execution, approval, continuation, health, session, machine, history>>

\* Only a pending approval can be decided.
Undecided(i) == approval[i].state = "PENDING"

\* approval.decide.
Decide(i, verdict, ttl) ==
    /\ Room(i)
    /\ Undecided(i)
    /\ approval' = [approval EXCEPT ![i] = [@ EXCEPT !.state = verdict, !.expires = clock + ttl]]
    /\ audit' = Log(i, verdict)
    /\ UNCHANGED <<execution, continuation, lease, health, session, machine, history>>

RevokeByDeletion(i) ==
    /\ Room(i)
    /\ approval[i].state # "ABSENT"
    /\ approval' = [approval EXCEPT ![i] = NoApproval]
    /\ audit' = Log(i, "REVOKED")
    /\ UNCHANGED <<execution, continuation, lease, health, session, machine, history>>
\* approval.revoke, from whatever state.
Revoke(i) ==
    /\ Room(i)
    /\ approval[i].state # "ABSENT"
    /\ approval' = [approval EXCEPT ![i].state = "REVOKED"]
    /\ audit' = Log(i, "REVOKED")
    /\ UNCHANGED <<execution, continuation, lease, health, session, machine, history>>

\* agent.quarantine.
QuarantineAgent(a) ==
    /\ Room(a)
    /\ health' = [health EXCEPT ![a].quarantined = TRUE]
    /\ audit' = Log(a, "quarantine")
    /\ UNCHANGED <<execution, approval, continuation, lease, session, machine, history>>

\* agent.release.
ReleaseAgent(a) ==
    /\ Room(a)
    /\ health' = [health EXCEPT ![a] = Healthy]
    /\ audit' = Log(a, "release")
    /\ UNCHANGED <<execution, approval, continuation, lease, session, machine, history>>

\* The owner's client is served by a thread that is not dispatching.
Owner ==
    /\ \E w \in Workers : Serving(w)
    /\ \/ \E c \in Continuations, t \in Tasks : CreateContinuation(c, t)
       \/ \E s \in Sessions : CreateSession(s)
       \/ \E r \in Resources, o \in Owners, ttl \in 1..MaxTtl : AcquireLease(r, o, ttl)
       \/ \E r \in Resources, o \in Owners, ttl \in 1..MaxTtl, k \in 1..MaxAudit :
             RenewLease(r, o, k, ttl)
       \/ \E r \in Resources, o \in Owners, k \in 1..MaxAudit : ReleaseLease(r, o, k)
       \/ \E i \in Ids, v \in {"APPROVED", "DENIED"}, ttl \in 1..MaxTtl : Decide(i, v, ttl)
       \/ \E i \in Ids : Revoke(i)
       \/ \E a \in Agents : QuarantineAgent(a) \/ ReleaseAgent(a)

Next ==
    \/ \E d \in Daemons : Crash(d) \/ \E e \in EnforceModes : Start(d, e)
    \/ \E t \in 0..MaxClock : SetClock(t)
    \/ \E w \in Workers :
          Dispatch(w) \/ Finish(w) \/ FinishFails(w) \/ \E r \in Requests : Handle(w, r)
    \/ Owner

Spec == Init /\ [][Next]_vars

\* The only fairness: systemd restarts a daemon that failed (Restart=on-failure)
\* and the user one that exited.
FairSpec == Spec /\ WF_vars(\E d \in Daemons, e \in EnforceModes : Start(d, e))

-----------------------------------------------------------------------------
(***************************************************************************)
(* Properties.                                                             *)
(***************************************************************************)

Ledger == INSTANCE DispatchLedger WITH
              outcome <- [i \in Ids |-> execution[i].state], calls <- calls

\* The control plane implements DispatchLedger: begin() opens, dispatch calls,
\* finish() settles, the constructor recovers; everything else stutters.
ImplementsLedger == Ledger!Spec

\* A request id is handed to the dispatcher at most once, whatever duplicates,
\* concurrent handlers, crashes and restarts do (the prior-execution check at
\* the top of begin() and the DISPATCHING record committed before dispatch).
AtMostOnceDispatch == \A i \in Ids : calls[i] <= 1

\* A settled execution never changes: no later finish() overwrites what the
\* recovery of a restarted daemon decided, and no recovery touches a settled
\* record (the instance lock of main.cpp is what prevents both).
OutcomesAreFinal ==
    [][\A i \in Ids : execution[i].state \in Settled => execution'[i] = execution[i]]_vars

\* Every client that is told how request i ended is told the same, and what
\* the record says; a saved result exists exactly for the definitive outcomes.
AnswersAgree ==
    \A i \in Ids :
        /\ told[i] \subseteq {execution[i].result}
        /\ execution[i].result = "ok" <=> execution[i].state = "DELIVERED"
        /\ execution[i].result = "error" <=> execution[i].state = "FAILED"

\* A governed request that was admitted is, field by field, the one the owner
\* approved, and its grant was never re-decided: at most revoked since.  Under
\* policy.enforce every request is governed.
GrantBinding ==
    \A i \in Ids :
        LET x == execution[i] IN
        x.state # "ABSENT" /\ (x.request.declared \/ x.request.parent # None
                               \/ EnforceModes = {TRUE})
        => /\ approval[i].state \in {"APPROVED", "REVOKED"}
           /\ approval[i].request = x.request

\* Delegation only narrows: every ancestor in an identity chain is an admitted
\* execution that may delegate and has each effect of its descendants, stored
\* effects include what the operation implies, and the chain is the parent's
\* with the child at its end.
DelegationAttenuates ==
    \A i \in Ids :
        LET x == execution[i] IN
        x.state # "ABSENT" =>
        /\ Implied(x.request.op) \subseteq x.effects
        /\ x.chain = Append(IF x.request.parent = None THEN <<>>
                            ELSE execution[x.request.parent].chain, i)
        /\ \A k \in 1..(Len(x.chain) - 1) :
              LET y == execution[x.chain[k]] IN
              /\ y.state # "ABSENT"
              /\ "DELEGATE" \in y.effects
              /\ x.effects \subseteq y.effects

\* Identity chains stay within the limit of begin(), and no execution is its
\* own ancestor.
ChainsAreBounded ==
    \A i \in Ids :
        /\ Len(execution[i].chain) <= MaxDepth
        /\ \A j, k \in DOMAIN execution[i].chain :
              execution[i].chain[j] = execution[i].chain[k] => j = k

\* What a retry names has failed definitively, and still has: no retry is ever
\* based on an outcome that is open, uncertain or later changed.
RetriesFollowFailure ==
    \A i \in Ids :
        LET j == execution[i].request.retryOf IN
        j # None => execution[j].state = "FAILED"

\* Once a request was admitted under a fence, no request with a lower fence is
\* admitted for that resource again, across expiry, release, re-acquisition
\* and clock changes.
FencesOnlyGrow ==
    [][\A r \in Resources : fenced'[r] >= fenced[r]]_vars

\* An agent with a full count of consecutive uncertain outcomes is quarantined.
FullCountQuarantines ==
    \A a \in Agents : health[a].failures >= QuarantineAfter => health[a].quarantined

\* Only the owner's agent.release, which leaves its audit event, ends a
\* quarantine; a late successful answer does not.
QuarantineNeedsOwner ==
    [][\A a \in Agents :
         health[a].quarantined /\ ~health'[a].quarantined
         => audit'[a] = Append(audit[a], "release")]_vars

\* The last element of s that lies in S.
LastIn(s, S) ==
    LET places == {k \in DOMAIN s : s[k] \in S}
    IN IF places = {} THEN "ABSENT" ELSE s[CHOOSE k \in places : \A j \in places : j <= k]

\* The audit log alone says what state every execution and approval is in:
\* each change and its event commit together, recovery included.
AuditTellsTheState ==
    \A i \in Ids :
        /\ execution[i].state = LastIn(audit[i], ExecutionStates)
        /\ approval[i].state = LastIn(audit[i], ApprovalStates)

\* A continuation is delivered by one execution, and is DELIVERED exactly when
\* that execution is.
ContinuationDeliveredOnce ==
    \A c \in Continuations :
        {i \in Ids : execution[i].state = "DELIVERED" /\ execution[i].request.continuation = c}
        = IF continuation[c].state = "DELIVERED" THEN {continuation[c].by} ELSE {}

\* Whatever is open when no daemon runs is settled sooner or later: the next
\* start finds it, however often that start is itself cut short.
OrphansAreSettled ==
    \A i \in Ids :
        (execution[i].state = "DISPATCHING" /\ up = {}) ~> (execution[i].state \in Settled)

\* The documented rule taken at its word: three uncertain dispatches to an
\* agent that never succeeded and was never released leave it quarantined.
UncertainDispatchesQuarantine ==
    \A a \in Agents :
        LET sent == {i \in Ids : execution[i].request.agent = a}
        IN /\ Cardinality({i \in sent : execution[i].state = "UNCERTAIN" /\ calls[i] = 1})
                 >= QuarantineAfter
           /\ \A i \in sent : execution[i].state # "DELIVERED"
           /\ audit[a] = <<>>
           => health[a].quarantined
=============================================================================
