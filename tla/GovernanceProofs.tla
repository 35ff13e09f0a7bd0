-------------------------- MODULE GovernanceProofs --------------------------
(***************************************************************************)
(* More theorems about ControlPlane: what its answers, retries, grants,    *)
(* identity chains, fences, quarantines, continuations and audit log       *)
(* promise holds for all values of the constants.                          *)
(***************************************************************************)
EXTENDS ControlPlaneProofs, NumberLemmas

-----------------------------------------------------------------------------
(***************************************************************************)
(* What a step may do to an execution record.                              *)
(***************************************************************************)

\* An execution that exists goes on to exist and keeps what was admitted: its
\* request, effects and identity chain.
LEMMA AdmittedKept ==
  ASSUME DispatchInv, [Next]_vars, NEW i \in Ids, execution[i].state # "ABSENT"
  PROVE  /\ execution'[i].state # "ABSENT"
         /\ execution'[i].request = execution[i].request
         /\ execution'[i].effects = execution[i].effects
         /\ execution'[i].chain = execution[i].chain
<1> DEFINE Kept == /\ execution'[i].state # "ABSENT"
                   /\ execution'[i].request = execution[i].request
                   /\ execution'[i].effects = execution[i].effects
                   /\ execution'[i].chain = execution[i].chain
<1> USE DEF DispatchInv
<1>0. execution[i] \in ExecutionRecord
  BY DEF TypeOK
<1>1. ASSUME NEW d \in Daemons, NEW e \in EnforceModes, Start(d, e) PROVE Kept
  BY <1>0, <1>1 DEF Start, Recovered, ExecutionRecord
<1>2. ASSUME NEW w \in Workers, NEW q \in Request, q.id \in Ids, Admit(w, q) PROVE Kept
  BY <1>2 DEF Admit, Admissible, Fresh, TypeOK
<1>3. ASSUME NEW w \in Workers, Finish(w) PROVE Kept
  <2>1. worker[w].result \in Results
    BY <1>3 DEF Finish, TypeOK, Thread
  <2>2. \/ execution'[i] = execution[i]
        \/ execution'[i] = Concluded(execution[i], worker[w].result)
    BY <1>3 DEF Finish, TypeOK
  <2>3. QED
    BY <1>0, <2>1, <2>2 DEF Concluded, Outcome, Results, ExecutionRecord
<1>4. ASSUME NEW w \in Workers, Dispatch(w) \/ FinishFails(w) PROVE Kept
  BY <1>4 DEF Dispatch, FinishFails, records
<1>5. ASSUME NEW d \in Daemons, Crash(d) PROVE Kept
  BY <1>5 DEF Crash, records
<1>6. QED
  BY <1>1, <1>2, <1>3, <1>4, <1>5, DispatchSteps

\* An execution that does not exist is left alone unless begin() admits it.
LEMMA OnlyAdmitted ==
  ASSUME DispatchInv, [Next]_vars, NEW i \in Ids, execution[i].state = "ABSENT"
  PROVE  \/ execution'[i] = execution[i]
         \/ \E w \in Workers, q \in Request : q.id = i /\ Serving(w) /\ Admit(w, q)
<1> USE DEF DispatchInv
<1>1. ASSUME NEW d \in Daemons, NEW e \in EnforceModes, Start(d, e)
      PROVE  execution'[i] = execution[i]
  BY <1>1 DEF Start, Recovered
<1>2. ASSUME NEW w \in Workers, NEW q \in Request, q.id \in Ids, q.id # i, Admit(w, q)
      PROVE  execution'[i] = execution[i]
  BY <1>2 DEF Admit, TypeOK
<1>3. ASSUME NEW w \in Workers, Finish(w) PROVE execution'[i] = execution[i]
  <2>1. execution[worker[w].request.id].state = "DISPATCHING"
    BY <1>3 DEF Finish, OneHolder, Busy
  <2>2. QED
    BY <1>3, <2>1 DEF Finish, TypeOK
<1>4. ASSUME NEW w \in Workers, Dispatch(w) \/ FinishFails(w) PROVE execution' = execution
  BY <1>4 DEF Dispatch, FinishFails, records
<1>5. ASSUME NEW d \in Daemons, Crash(d) PROVE execution' = execution
  BY <1>5 DEF Crash, records
<1>6. QED
  BY <1>1, <1>2, <1>3, <1>4, <1>5, DispatchSteps

\* What admission writes.
LEMMA Admission ==
  ASSUME TypeOK, NEW w \in Workers, NEW q \in Request, q.id \in Ids, Admit(w, q)
  PROVE  /\ execution[q.id].state = "ABSENT"
         /\ execution'[q.id] = [state |-> "DISPATCHING", request |-> q, effects |-> Requested(q),
                                chain |-> Chain(q), result |-> "none"]
         /\ \A j \in Ids : j # q.id => execution'[j] = execution[j]
  BY DEF Admit, Admissible, Fresh, TypeOK

-----------------------------------------------------------------------------
(***************************************************************************)
(* Retries and identity chains: both speak of other executions that were   *)
(* there first.                                                            *)
(***************************************************************************)

\* A retry was admitted after a failure, and a failure is final.
LEMMA RetriesStep == DispatchInv /\ RetriesFollowFailure /\ [Next]_vars => RetriesFollowFailure'
<1> SUFFICES ASSUME DispatchInv, RetriesFollowFailure, [Next]_vars, NEW i \in Ids,
                    execution'[i].request.retryOf # None
             PROVE  execution'[execution'[i].request.retryOf].state = "FAILED"
  BY DEF RetriesFollowFailure
<1>1. ASSUME NEW j \in Ids, execution[j].state = "FAILED" PROVE execution'[j].state = "FAILED"
  BY <1>1, FinalStep DEF Settled
<1>2. CASE execution'[i].request = execution[i].request
  <2>1. execution[i].request.retryOf \in Ids
    BY <1>2 DEF DispatchInv, TypeOK, ExecutionRecord, Request
  <2>2. QED
    BY <1>1, <1>2, <2>1 DEF RetriesFollowFailure
<1>3. ASSUME NEW w \in Workers, NEW q \in Request, q.id = i, Admit(w, q)
      PROVE  execution'[execution'[i].request.retryOf].state = "FAILED"
  <2>0. TypeOK /\ q.id \in Ids
    BY <1>3 DEF DispatchInv
  <2>1. execution'[i].request = q
    <3>1. execution'[q.id] = [state |-> "DISPATCHING", request |-> q, effects |-> Requested(q),
                              chain |-> Chain(q), result |-> "none"]
      BY <1>3, <2>0, Admission, Zenon
    <3>2. QED
      BY <1>3, <3>1
  <2>2. q.retryOf \in Ids /\ execution[q.retryOf].state = "FAILED"
    BY <1>3, <2>1 DEF Admit, Admissible, RetryAllowed, Request
  <2>3. QED
    BY <1>1, <2>1, <2>2
<1>4. QED
  BY <1>2, <1>3, AdmittedKept, OnlyAdmitted

\* What a retry names has failed for good, whatever was retried, replayed,
\* recovered or settled since.
THEOREM RetriesAreSound == Spec => []RetriesFollowFailure
<1>1. Init => RetriesFollowFailure
  BY DEF Init, RetriesFollowFailure, NoExecution, NoRequest
<1>2. QED
  BY <1>1, RetriesStep, DispatchInvariant, PTL DEF Spec

\* Of an execution that exists: it implies its effects, its parent exists, its
\* chain is that of the parent and itself, and so on upwards; each other has none.
Lineage(i) ==
    LET x == execution[i] IN
    /\ x.state = "ABSENT" => x = NoExecution
    /\ x.state # "ABSENT" =>
         /\ x.request.parent # None => execution[x.request.parent].state # "ABSENT"
         /\ \A k \in DOMAIN x.chain : x.chain[k] \in Ids /\ execution[x.chain[k]].state # "ABSENT"

ChainInv == (\A i \in Ids : Lineage(i)) /\ DelegationAttenuates /\ ChainsAreBounded

\* The chain of a child: the parent's, which ends with the parent, and the child.
LEMMA ChainOfChild ==
  ASSUME DispatchInv, ChainInv, NEW w \in Workers, NEW q \in Request, q.id \in Ids, Admit(w, q),
         q.parent # None
  PROVE  /\ q.parent \in Ids /\ execution[q.parent].state # "ABSENT"
         /\ Chain(q) = Append(execution[q.parent].chain, q.id)
         /\ execution[q.parent].chain \in Seq(Ids)
         /\ Len(execution[q.parent].chain) \in Nat \ {0}
         /\ execution[q.parent].chain[Len(execution[q.parent].chain)] = q.parent
         /\ Len(execution[q.parent].chain) < MaxDepth
<1> DEFINE p == execution[q.parent]
<1>1. q.parent \in Ids
  BY DEF Request
<1>2. p.state # "ABSENT" /\ Len(p.chain) < MaxDepth
  BY DEF Admit, Admissible, DelegationAllowed
<1>3. p \in ExecutionRecord
  BY <1>1 DEF DispatchInv, TypeOK
<1>4. p.chain \in Seq(Ids)
  BY <1>3 DEF ExecutionRecord
<1>5. PICK s \in Seq(Ids) : p.chain = Append(s, q.parent)
  <2>1. p.chain = Append(IF p.request.parent = None THEN <<>>
                         ELSE execution[p.request.parent].chain, q.parent)
    BY <1>1, <1>2 DEF ChainInv, DelegationAttenuates
  <2>2. p.request.parent \in Ids \cup {None}
    BY <1>3 DEF ExecutionRecord, Request
  <2>3. p.request.parent \in Ids => execution[p.request.parent].chain \in Seq(Ids)
    BY DEF DispatchInv, TypeOK, ExecutionRecord
  <2>4. CASE p.request.parent = None
    <3>1. <<>> \in Seq(Ids) /\ p.chain = Append(<<>>, q.parent)
      BY <2>1, <2>4
    <3>2. QED
      BY <3>1
  <2>5. CASE p.request.parent # None
    <3>1. p.chain = Append(execution[p.request.parent].chain, q.parent)
      BY <2>1, <2>5
    <3>2. QED
      BY <2>2, <2>3, <2>5, <3>1
  <2>6. QED
    BY <2>4, <2>5
<1>6. Len(p.chain) \in Nat \ {0} /\ p.chain[Len(p.chain)] = q.parent
  BY <1>1, <1>5
<1>7. QED
  BY <1>1, <1>2, <1>4, <1>6 DEF Chain

\* A request that is admitted extends the chains as delegation demands.
LEMMA ChainAdmitted ==
  ASSUME DispatchInv, ChainInv, [Next]_vars, NEW w \in Workers, NEW q \in Request, q.id \in Ids,
         Admit(w, q)
  PROVE  LET x == execution'[q.id] IN
         /\ x.state # "ABSENT" /\ x.request = q /\ x.effects = Requested(q)
         /\ x.chain = Append(IF q.parent = None THEN <<>> ELSE execution'[q.parent].chain, q.id)
         /\ q.parent # None => execution'[q.parent].state # "ABSENT"
         /\ x.chain[Len(x.chain)] = q.id
         /\ \A k \in 1..(Len(x.chain) - 1) :
               /\ x.chain[k] \in Ids
               /\ execution[x.chain[k]].state # "ABSENT"
               /\ "DELEGATE" \in execution[x.chain[k]].effects
               /\ Requested(q) \subseteq execution[x.chain[k]].effects
         /\ Len(x.chain) \in 1..MaxDepth
         /\ \A j, k \in DOMAIN x.chain : x.chain[j] = x.chain[k] => j = k
<1> DEFINE x == execution'[q.id]
           p == execution[q.parent]
<1>0. TypeOK
  BY DEF DispatchInv
<1>1. /\ execution[q.id].state = "ABSENT"
      /\ x = [state |-> "DISPATCHING", request |-> q, effects |-> Requested(q),
              chain |-> Chain(q), result |-> "none"]
  BY <1>0, Admission, Zenon
<1>2. x.state # "ABSENT" /\ x.request = q /\ x.effects = Requested(q) /\ x.chain = Chain(q)
  BY <1>1
<1> HIDE DEF x
<1>3. CASE q.parent = None
  <2>1. x.chain = Append(<<>>, q.id)
    BY <1>2, <1>3 DEF Chain
  <2>2. QED
    BY <1>2, <1>3, <2>1, BoundsAssumption DEF x
<1>4. CASE q.parent # None
  <2>1. /\ q.parent \in Ids /\ p.state # "ABSENT"
        /\ Chain(q) = Append(p.chain, q.id)
        /\ p.chain \in Seq(Ids) /\ Len(p.chain) \in Nat \ {0}
        /\ p.chain[Len(p.chain)] = q.parent /\ Len(p.chain) < MaxDepth
    BY <1>4, ChainOfChild, Zenon
  <2>2. execution'[q.parent].chain = p.chain /\ execution'[q.parent].state # "ABSENT"
    BY <2>1, AdmittedKept
  <2>3. /\ Len(x.chain) = Len(p.chain) + 1 /\ x.chain[Len(x.chain)] = q.id
        /\ \A k \in 1..Len(p.chain) : x.chain[k] = p.chain[k]
    BY <1>2, <2>1
  <2>4. "DELEGATE" \in p.effects /\ Requested(q) \subseteq p.effects
    BY <1>4 DEF Admit, Admissible, DelegationAllowed
  <2>5. ASSUME NEW k \in 1..Len(p.chain)
        PROVE  /\ p.chain[k] \in Ids /\ execution[p.chain[k]].state # "ABSENT"
               /\ "DELEGATE" \in execution[p.chain[k]].effects
               /\ Requested(q) \subseteq execution[p.chain[k]].effects
    <3>1. p.chain[k] \in Ids /\ execution[p.chain[k]].state # "ABSENT"
      BY <2>1 DEF ChainInv, Lineage
    <3>2. CASE k = Len(p.chain)
      BY <2>1, <2>4, <3>1, <3>2
    <3>3. CASE k # Len(p.chain)
      <4>1. k \in 1..(Len(p.chain) - 1)
        BY <2>1, <3>3
      <4>2. "DELEGATE" \in execution[p.chain[k]].effects /\ p.effects \subseteq execution[p.chain[k]].effects
        BY <2>1, <4>1 DEF ChainInv, DelegationAttenuates
      <4>3. QED
        BY <2>4, <3>1, <4>2
    <3>4. QED
      BY <3>2, <3>3
  <2>6. \A k \in 1..(Len(x.chain) - 1) : k \in 1..Len(p.chain) /\ x.chain[k] = p.chain[k]
    BY <2>1, <2>3
  <2>7. Len(x.chain) \in 1..MaxDepth
    BY <2>1, <2>3, BoundsAssumption
  <2>8. ASSUME NEW j \in DOMAIN x.chain, NEW k \in DOMAIN x.chain, x.chain[j] = x.chain[k]
        PROVE  j = k
    <3>1. DOMAIN x.chain = 1..(Len(p.chain) + 1) /\ x.chain[Len(p.chain) + 1] = q.id
      BY <1>2, <2>1, <2>3
    <3>2. \A n \in 1..Len(p.chain) : x.chain[n] # q.id
      BY <1>1, <2>3, <2>5
    <3>3. CASE j \in 1..Len(p.chain) /\ k \in 1..Len(p.chain)
      <4>1. p.chain[j] = p.chain[k]
        BY <2>3, <2>8, <3>3
      <4>2. \A m, n \in DOMAIN p.chain : p.chain[m] = p.chain[n] => m = n
        BY <2>1 DEF ChainInv, ChainsAreBounded
      <4>3. DOMAIN p.chain = 1..Len(p.chain)
        BY <2>1
      <4>4. QED
        BY <3>3, <4>1, <4>2, <4>3
    <3>4. /\ j \in 1..Len(p.chain) \/ j = Len(p.chain) + 1
          /\ k \in 1..Len(p.chain) \/ k = Len(p.chain) + 1
      BY <2>1, <3>1
    <3>5. QED
      BY <2>8, <3>1, <3>2, <3>3, <3>4
  <2>9. x.chain = Append(execution'[q.parent].chain, q.id)
    BY <1>2, <2>1, <2>2
  <2>10. QED
    BY <1>2, <1>4, <2>2, <2>3, <2>5, <2>6, <2>7, <2>8, <2>9 DEF x
<1>5. QED
  BY <1>3, <1>4

\* What was said of an execution that exists stays true, since its ancestors
\* exist and keep their effects and chains.
LEMMA ChainKept ==
  ASSUME DispatchInv, ChainInv, [Next]_vars, NEW i \in Ids, execution[i].state # "ABSENT"
  PROVE  LET x == execution'[i] IN
         /\ x.request.parent # None => execution'[x.request.parent].state # "ABSENT"
         /\ Implied(x.request.op) \subseteq x.effects
         /\ x.chain = Append(IF x.request.parent = None THEN <<>>
                             ELSE execution'[x.request.parent].chain, i)
         /\ \A k \in DOMAIN x.chain : x.chain[k] \in Ids /\ execution'[x.chain[k]].state # "ABSENT"
         /\ \A k \in 1..(Len(x.chain) - 1) :
               /\ "DELEGATE" \in execution'[x.chain[k]].effects
               /\ x.effects \subseteq execution'[x.chain[k]].effects
<1> DEFINE y == execution[i]
           x == execution'[i]
<1>1. x.request = y.request /\ x.effects = y.effects /\ x.chain = y.chain
  BY AdmittedKept
<1>2. y \in ExecutionRecord /\ y.chain \in Seq(Ids) /\ y.request.parent \in Ids \cup {None}
  BY DEF DispatchInv, TypeOK, ExecutionRecord, Request
<1>3. /\ y.request.parent # None => execution[y.request.parent].state # "ABSENT"
      /\ \A k \in DOMAIN y.chain : y.chain[k] \in Ids /\ execution[y.chain[k]].state # "ABSENT"
  BY DEF ChainInv, Lineage
<1>4. /\ Implied(y.request.op) \subseteq y.effects
      /\ y.chain = Append(IF y.request.parent = None THEN <<>>
                          ELSE execution[y.request.parent].chain, i)
      /\ \A k \in 1..(Len(y.chain) - 1) :
            /\ "DELEGATE" \in execution[y.chain[k]].effects
            /\ y.effects \subseteq execution[y.chain[k]].effects
  BY DEF ChainInv, DelegationAttenuates
<1>5. ASSUME NEW j \in Ids, execution[j].state # "ABSENT"
      PROVE  /\ execution'[j].state # "ABSENT" /\ execution'[j].chain = execution[j].chain
             /\ execution'[j].effects = execution[j].effects
  BY <1>5, AdmittedKept
<1>6. y.request.parent # None =>
         /\ execution'[y.request.parent].state # "ABSENT"
         /\ execution'[y.request.parent].chain = execution[y.request.parent].chain
  BY <1>2, <1>3, <1>5
<1>7. ASSUME NEW k \in DOMAIN y.chain
      PROVE  /\ y.chain[k] \in Ids /\ execution'[y.chain[k]].state # "ABSENT"
             /\ execution'[y.chain[k]].effects = execution[y.chain[k]].effects
  BY <1>3, <1>5
<1>8. \A k \in 1..(Len(y.chain) - 1) : k \in DOMAIN y.chain
  BY <1>2
<1> HIDE DEF x, y
<1>9. QED
  BY <1>1, <1>4, <1>6, <1>7, <1>8 DEF x

\* Every step keeps the chains in order.
LEMMA ChainStep == DispatchInv /\ ChainInv /\ [Next]_vars => ChainInv'
<1> SUFFICES ASSUME DispatchInv, ChainInv, [Next]_vars PROVE ChainInv'
  OBVIOUS
<1>1. ASSUME NEW i \in Ids, execution[i].state # "ABSENT"
      PROVE  execution'[i].state # "ABSENT"
  BY <1>1, AdmittedKept
<1>2. ASSUME NEW i \in Ids, execution'[i].state = "ABSENT"
      PROVE  execution'[i] = NoExecution
  <2>1. execution[i].state = "ABSENT"
    BY <1>1, <1>2
  <2>2. execution[i] = NoExecution
    BY <2>1 DEF ChainInv, Lineage
  <2>3. ASSUME NEW w \in Workers, NEW q \in Request, q.id = i, Admit(w, q) PROVE FALSE
    <3>1. execution'[q.id].state # "ABSENT"
      BY <2>3, ChainAdmitted, Zenon
    <3>2. QED
      BY <1>2, <2>3, <3>1
  <2>4. QED
    BY <2>1, <2>2, <2>3, OnlyAdmitted
<1>3. ASSUME NEW i \in Ids, execution'[i].state # "ABSENT"
      PROVE  LET x == execution'[i] IN
             /\ x.request.parent # None => execution'[x.request.parent].state # "ABSENT"
             /\ Implied(x.request.op) \subseteq x.effects
             /\ x.chain = Append(IF x.request.parent = None THEN <<>>
                                 ELSE execution'[x.request.parent].chain, i)
             /\ \A k \in DOMAIN x.chain : x.chain[k] \in Ids /\ execution'[x.chain[k]].state # "ABSENT"
             /\ \A k \in 1..(Len(x.chain) - 1) :
                   /\ "DELEGATE" \in execution'[x.chain[k]].effects
                   /\ x.effects \subseteq execution'[x.chain[k]].effects
             /\ Len(x.chain) <= MaxDepth
             /\ \A j, k \in DOMAIN x.chain : x.chain[j] = x.chain[k] => j = k
  <2>1. CASE execution[i].state # "ABSENT"
    <3>1. execution'[i].chain = execution[i].chain
      BY <2>1, AdmittedKept
    <3>2. /\ Len(execution[i].chain) <= MaxDepth
          /\ \A j, k \in DOMAIN execution[i].chain :
                execution[i].chain[j] = execution[i].chain[k] => j = k
      BY DEF ChainInv, ChainsAreBounded
    <3>3. QED
      BY <2>1, <3>1, <3>2, ChainKept, Zenon
  <2>2. CASE execution[i].state = "ABSENT"
    <3>1. PICK w \in Workers, q \in Request : q.id = i /\ Admit(w, q)
      BY <1>3, <2>2, OnlyAdmitted
    <3> DEFINE x == execution'[i]
    <3>2. /\ x.state # "ABSENT" /\ x.request = q /\ x.effects = Requested(q)
          /\ x.chain = Append(IF q.parent = None THEN <<>> ELSE execution'[q.parent].chain, q.id)
          /\ q.parent # None => execution'[q.parent].state # "ABSENT"
          /\ x.chain[Len(x.chain)] = q.id
          /\ \A k \in 1..(Len(x.chain) - 1) :
                /\ x.chain[k] \in Ids
                /\ execution[x.chain[k]].state # "ABSENT"
                /\ "DELEGATE" \in execution[x.chain[k]].effects
                /\ Requested(q) \subseteq execution[x.chain[k]].effects
          /\ Len(x.chain) \in 1..MaxDepth
          /\ \A j, k \in DOMAIN x.chain : x.chain[j] = x.chain[k] => j = k
      BY <3>1, ChainAdmitted, Zenon
    <3>3. ASSUME NEW j \in Ids, execution[j].state # "ABSENT"
          PROVE  execution'[j].state # "ABSENT" /\ execution'[j].effects = execution[j].effects
      BY <3>3, AdmittedKept
    <3>4. Implied(q.op) \subseteq Requested(q)
      BY DEF Requested
    <3>5. x.chain \in Seq(Ids)
      BY StepTypeOK DEF DispatchInv, TypeOK, ExecutionRecord
    <3>6. ASSUME NEW k \in DOMAIN x.chain
          PROVE  x.chain[k] \in Ids /\ execution'[x.chain[k]].state # "ABSENT"
      <4>1. CASE k = Len(x.chain)
        BY <3>1, <3>2, <4>1
      <4>2. CASE k # Len(x.chain)
        <5>1. k \in 1..(Len(x.chain) - 1)
          BY <3>5, <4>2
        <5>2. QED
          BY <3>2, <3>3, <5>1
      <4>3. QED
        BY <4>1, <4>2
    <3>7. \A k \in 1..(Len(x.chain) - 1) :
             /\ "DELEGATE" \in execution'[x.chain[k]].effects
             /\ x.effects \subseteq execution'[x.chain[k]].effects
      BY <3>2, <3>3
    <3>8. Len(x.chain) <= MaxDepth
      BY <3>2, BoundsAssumption
    <3> HIDE DEF x
    <3>9. QED
      BY <3>1, <3>2, <3>4, <3>6, <3>7, <3>8 DEF x
  <2>3. QED
    BY <2>1, <2>2
<1>4. \A i \in Ids : Lineage(i)'
  BY <1>2, <1>3 DEF Lineage
<1>5. DelegationAttenuates'
  <2>1. ASSUME NEW i \in Ids, NEW k \in 1..(Len(execution'[i].chain) - 1),
               execution'[i].state # "ABSENT"
        PROVE  execution'[execution'[i].chain[k]].state # "ABSENT"
    <3>1. execution'[i].chain \in Seq(Ids)
      BY StepTypeOK DEF DispatchInv, TypeOK, ExecutionRecord
    <3>2. k \in DOMAIN execution'[i].chain
      BY <3>1
    <3>3. QED
      BY <1>3, <2>1, <3>2
  <2>2. QED
    BY <1>3, <2>1 DEF DelegationAttenuates
<1>6. ChainsAreBounded'
  <2>1. NoExecution.chain = <<>>
    BY DEF NoExecution
  <2>2. QED
    BY <1>2, <1>3, <2>1, BoundsAssumption DEF ChainsAreBounded
<1>7. QED
  BY <1>4, <1>5, <1>6 DEF ChainInv

\* The first state has no chains.
LEMMA InitChainInv == Init => ChainInv
  BY BoundsAssumption DEF Init, ChainInv, Lineage, DelegationAttenuates, ChainsAreBounded, NoExecution

\* Chains are in order in every reachable state.
LEMMA ChainInvariant == Spec => []ChainInv
  BY InitChainInv, ChainStep, DispatchInvariant, PTL DEF Spec

\* Delegation narrows at every generation, for any tree of requests.
THEOREM DelegationNarrows == Spec => []DelegationAttenuates
<1>1. ChainInv => DelegationAttenuates
  BY DEF ChainInv
<1>2. QED
  BY <1>1, ChainInvariant, PTL

\* No chain grows beyond the limit, and none is circular.
THEOREM ChainsBounded == Spec => []ChainsAreBounded
<1>1. ChainInv => ChainsAreBounded
  BY DEF ChainInv
<1>2. QED
  BY <1>1, ChainInvariant, PTL

-----------------------------------------------------------------------------
(***************************************************************************)
(* Answers.                                                                *)
(***************************************************************************)

\* What a step does to the answers clients were given: finish() and the replay
\* of a saved result add to those of one id.
LEMMA AnswerSteps ==
  ASSUME DispatchInv, [Next]_vars
  PROVE  \/ told' = told
         \/ \E i \in Ids : /\ execution' = execution /\ execution[i].result # "none"
                           /\ told' = [told EXCEPT ![i] = @ \cup {execution[i].result}]
         \/ \E w \in Workers : Finish(w)
<1> DEFINE Same == told' = told
           Replayed == \E i \in Ids : /\ execution' = execution /\ execution[i].result # "none"
                                      /\ told' = [told EXCEPT ![i] = @ \cup {execution[i].result}]
<1>1. ASSUME NEW d, NEW e, Start(d, e) \/ Crash(d) \/ SetClock(d) PROVE Same
  BY <1>1 DEF Start, Crash, SetClock, history
<1>2. ASSUME NEW w \in Workers, Dispatch(w) \/ FinishFails(w) PROVE Same
  BY <1>2 DEF Dispatch, FinishFails, history
<1>3. ASSUME Owner PROVE Same
  BY <1>3 DEF Owner, history, CreateContinuation, CreateSession, AcquireLease,
     RenewLease, ReleaseLease, Decide, Revoke, QuarantineAgent, ReleaseAgent
<1>4. ASSUME NEW w \in Workers, NEW r \in Requests, Handle(w, r) PROVE Same \/ Replayed
  <2>1. PICK i \in NamesFor(DaemonOf[w], r) :
           LET q == [r EXCEPT !.id = i] IN
           Replay(w, q) \/ RequireApproval(w, q) \/ Admit(w, q)
    BY <1>4 DEF Handle
  <2> DEFINE q == [r EXCEPT !.id = i]
  <2>2. q.id = i /\ i \in Ids
    BY NamesAreIds, NamedRequest
  <2> HIDE DEF q
  <2>3. RequireApproval(w, q) \/ Admit(w, q) => Same
    BY DEF RequireApproval, Admit, history
  <2>4. Replay(w, q) => Replayed
    BY <2>2 DEF Replay, records
  <2>5. QED
    BY <2>1, <2>3, <2>4 DEF q
<1>5. CASE UNCHANGED vars
  BY <1>5 DEF vars, history
<1>6. QED
  BY <1>1, <1>2, <1>3, <1>4, <1>5 DEF Next

\* A saved result and the outcome belong together after each step.
LEMMA ResultsStep ==
  ASSUME DispatchInv, AnswersAgree, [Next]_vars, NEW i \in Ids
  PROVE  /\ execution'[i].result = "ok" <=> execution'[i].state = "DELIVERED"
         /\ execution'[i].result = "error" <=> execution'[i].state = "FAILED"
<1> USE DEF DispatchInv
<1>0. /\ execution[i].result = "ok" <=> execution[i].state = "DELIVERED"
      /\ execution[i].result = "error" <=> execution[i].state = "FAILED"
      /\ execution[i] \in ExecutionRecord
  BY DEF AnswersAgree, TypeOK
<1>1. ASSUME NEW d \in Daemons, NEW e \in EnforceModes, Start(d, e)
      PROVE  \/ execution'[i] = execution[i]
             \/ /\ execution[i].state = "DISPATCHING"
                /\ execution'[i] = [execution[i] EXCEPT !.state = "UNCERTAIN"]
  BY <1>1 DEF Start, Recovered
<1>2. ASSUME NEW w \in Workers, NEW q \in Request, q.id \in Ids, Admit(w, q)
      PROVE  \/ execution'[i] = execution[i]
             \/ execution'[i] = [state |-> "DISPATCHING", request |-> q, effects |-> Requested(q),
                                 chain |-> Chain(q), result |-> "none"]
  BY <1>2, Admission, Zenon
<1>3. ASSUME NEW w \in Workers, Finish(w)
      PROVE  \/ execution'[i] = execution[i]
             \/ /\ worker[w].result \in Results /\ execution[i].state = "DISPATCHING"
                /\ execution'[i] = Concluded(execution[i], worker[w].result)
  BY <1>3 DEF Finish, TypeOK, Thread, OneHolder, Busy
<1>4. ASSUME NEW w \in Workers, Dispatch(w) \/ FinishFails(w) PROVE execution' = execution
  BY <1>4 DEF Dispatch, FinishFails, records
<1>5. ASSUME NEW d \in Daemons, Crash(d) PROVE execution' = execution
  BY <1>5 DEF Crash, records
<1>6. CASE execution'[i] = execution[i]
  BY <1>0, <1>6
<1>7. CASE execution[i].state = "DISPATCHING" /\ execution'[i] = [execution[i] EXCEPT !.state = "UNCERTAIN"]
  BY <1>0, <1>7 DEF ExecutionRecord
<1>8. ASSUME NEW q, execution'[i] = [state |-> "DISPATCHING", request |-> q, effects |-> Requested(q),
                                     chain |-> Chain(q), result |-> "none"]
      PROVE  execution'[i].state = "DISPATCHING" /\ execution'[i].result = "none"
  BY <1>8
<1>9. ASSUME NEW res \in Results, execution[i].state = "DISPATCHING",
             execution'[i] = Concluded(execution[i], res)
      PROVE  /\ execution'[i].result = "ok" <=> execution'[i].state = "DELIVERED"
             /\ execution'[i].result = "error" <=> execution'[i].state = "FAILED"
  BY <1>0, <1>9 DEF ExecutionRecord, Concluded, Outcome, Results
<1>10. QED
  BY <1>1, <1>2, <1>3, <1>4, <1>5, <1>6, <1>7, <1>8, <1>9, DispatchSteps

\* Every step keeps the answers in agreement with the record.
LEMMA AnswersStep == DispatchInv /\ AnswersAgree /\ [Next]_vars => AnswersAgree'
<1> SUFFICES ASSUME DispatchInv, AnswersAgree, [Next]_vars, NEW i \in Ids
             PROVE  told'[i] \subseteq {execution'[i].result}
  BY ResultsStep DEF AnswersAgree
<1> USE DEF DispatchInv
<1>0. /\ told[i] \subseteq {execution[i].result} /\ told[i] \subseteq {"ok", "error"}
      /\ execution[i].result \in {"none", "ok", "error"}
      /\ execution[i].result = "ok" <=> execution[i].state = "DELIVERED"
      /\ execution[i].result = "error" <=> execution[i].state = "FAILED"
  BY DEF AnswersAgree, TypeOK, ExecutionRecord
<1>1. CASE told'[i] = told[i]
  <2>1. CASE execution[i].result = "none"
    BY <1>0, <1>1, <2>1
  <2>2. CASE execution[i].result # "none"
    <3>1. execution[i].state \in Settled
      BY <1>0, <2>2 DEF Settled
    <3>2. QED
      BY <1>0, <1>1, <3>1, FinalStep
  <2>3. QED
    BY <2>1, <2>2
<1>2. ASSUME NEW j \in Ids, execution' = execution,
             told' = [told EXCEPT ![j] = @ \cup {execution[j].result}]
      PROVE  told'[i] \subseteq {execution'[i].result}
  BY <1>0, <1>2 DEF TypeOK
<1>3. ASSUME NEW w \in Workers, Finish(w), told'[i] # told[i]
      PROVE  told'[i] \subseteq {execution'[i].result}
  <2>1. /\ worker[w].request.id = i /\ worker[w].result # "uncertain"
        /\ told'[i] = told[i] \cup {worker[w].result}
    BY <1>3 DEF Finish, TypeOK
  <2>2. execution[i].state = "DISPATCHING" /\ execution[i] \in ExecutionRecord
    BY <1>3, <2>1 DEF Finish, OneHolder, Busy, TypeOK
  <2>3. execution'[i] = Concluded(execution[i], worker[w].result)
    BY <1>3, <2>1 DEF Finish, TypeOK
  <2>4. execution'[i].result = worker[w].result
    BY <2>1, <2>2, <2>3 DEF Concluded, ExecutionRecord
  <2>5. told[i] = {}
    BY <1>0, <2>2
  <2>6. QED
    BY <2>1, <2>4, <2>5
<1>4. QED
  BY <1>1, <1>2, <1>3, AnswerSteps

\* Whoever asks how a request ended is told the same, by finish() or by a
\* replay, before and after restarts.
THEOREM AnswersNeverDiffer == Spec => []AnswersAgree
<1>1. Init => AnswersAgree
  BY DEF Init, AnswersAgree, NoExecution
<1>2. QED
  BY <1>1, AnswersStep, DispatchInvariant, PTL DEF Spec

-----------------------------------------------------------------------------
(***************************************************************************)
(* Quarantine.                                                             *)
(***************************************************************************)

\* What a step does to the health of agents.
LEMMA HealthSteps ==
  ASSUME TypeOK, [Next]_vars
  PROVE  \/ health' = health
         \/ \E a \in Agents, res \in Results : health' = [health EXCEPT ![a] = HealthAfter(a, res)]
         \/ \E a \in Agents : QuarantineAgent(a) \/ ReleaseAgent(a)
<1> DEFINE Same == health' = health
<1>1. ASSUME NEW d, NEW e, Start(d, e) \/ Crash(d) \/ SetClock(d) PROVE Same
  BY <1>1 DEF Start, Crash, SetClock, records
<1>2. ASSUME NEW w \in Workers, Dispatch(w) \/ FinishFails(w) PROVE Same
  BY <1>2 DEF Dispatch, FinishFails, records
<1>3. ASSUME NEW w \in Workers, Finish(w)
      PROVE  Same \/ \E a \in Agents, res \in Results : health' = [health EXCEPT ![a] = HealthAfter(a, res)]
  <2>1. worker[w].result \in Results /\ worker[w].request.agent \in Agents \cup {None}
    BY <1>3 DEF Finish, TypeOK, Thread, Request
  <2>2. QED
    BY <1>3, <2>1 DEF Finish
<1>4. ASSUME Owner PROVE Same \/ \E a \in Agents : QuarantineAgent(a) \/ ReleaseAgent(a)
  BY <1>4 DEF Owner, CreateContinuation, CreateSession, AcquireLease,
     RenewLease, ReleaseLease, Decide, Revoke
<1>5. ASSUME NEW w \in Workers, NEW r \in Requests, Handle(w, r) PROVE Same
  BY <1>5 DEF Handle, Replay, RequireApproval, Admit, records
<1>6. CASE UNCHANGED vars
  BY <1>6 DEF vars, records
<1>7. QED
  BY <1>1, <1>2, <1>3, <1>4, <1>5, <1>6 DEF Next

\* A full count quarantines, and keeps quarantined until it is reset.
LEMMA FullCountStep == TypeOK /\ FullCountQuarantines /\ [Next]_vars => FullCountQuarantines'
<1> SUFFICES ASSUME TypeOK, FullCountQuarantines, [Next]_vars, NEW a \in Agents,
                    health'[a].failures >= QuarantineAfter
             PROVE  health'[a].quarantined
  BY DEF FullCountQuarantines
<1>0. health[a] \in HealthRecord /\ (health[a].failures >= QuarantineAfter => health[a].quarantined)
  BY DEF FullCountQuarantines, TypeOK
<1>1. CASE health'[a] = health[a]
  BY <1>0, <1>1
<1>2. ASSUME NEW b \in Agents, NEW res \in Results, health' = [health EXCEPT ![b] = HealthAfter(b, res)]
      PROVE  health'[a] = health[a] \/ health'[a] = HealthAfter(a, res)
  BY <1>2 DEF TypeOK
<1>3. ASSUME NEW res \in Results, health'[a] = HealthAfter(a, res) PROVE health'[a].quarantined
  <2> DEFINE n == IF res = "uncertain" THEN health[a].failures + 1
                  ELSE IF res = "ok" THEN 0 ELSE health[a].failures
             q == health[a].quarantined \/ n >= QuarantineAfter
  <2>1. health'[a] = [failures |-> n, quarantined |-> q]
    BY <1>3 DEF HealthAfter
  <2> HIDE DEF n, q
  <2>2. health'[a].failures = n /\ health'[a].quarantined = q
    BY <2>1
  <2>3. q
    BY <2>2 DEF q
  <2>4. QED
    BY <2>2, <2>3, Zenon
<1>4. ASSUME NEW b \in Agents, QuarantineAgent(b)
      PROVE  health'[a] = health[a] \/ health'[a] = [health[a] EXCEPT !.quarantined = TRUE]
  BY <1>4 DEF QuarantineAgent, TypeOK
<1>5. CASE health'[a] = [health[a] EXCEPT !.quarantined = TRUE]
  BY <1>0, <1>5 DEF HealthRecord
<1>6. ASSUME NEW b \in Agents, ReleaseAgent(b) PROVE health'[a] = health[a] \/ health'[a] = Healthy
  BY <1>6 DEF ReleaseAgent, TypeOK
<1>7. health'[a] # Healthy
  BY BoundsAssumption DEF Healthy
<1>8. QED
  BY <1>1, <1>2, <1>3, <1>4, <1>5, <1>6, <1>7, HealthSteps

\* Concurrent uncertain answers cannot slip past the threshold.
THEOREM FullCountsQuarantine == Spec => []FullCountQuarantines
<1>1. Init => FullCountQuarantines
  BY BoundsAssumption DEF Init, FullCountQuarantines, Healthy
<1>2. QED
  BY <1>1, FullCountStep, TypeCorrect, PTL DEF Spec

\* A quarantine that a step ends is ended by agent.release.
LEMMA ReleaseStep ==
  ASSUME TypeOK, [Next]_vars, NEW a \in Agents, health[a].quarantined, ~health'[a].quarantined
  PROVE  audit'[a] = Append(audit[a], "release")
<1>0. health[a] \in HealthRecord /\ a \in Subjects
  BY DEF TypeOK, Subjects
<1>1. ASSUME NEW b \in Agents, NEW res \in Results, health' = [health EXCEPT ![b] = HealthAfter(b, res)]
      PROVE  FALSE
  <2>1. health'[a] = health[a] \/ health'[a] = HealthAfter(a, res)
    BY <1>1 DEF TypeOK
  <2>2. HealthAfter(a, res).quarantined
    BY <1>0 DEF HealthAfter, HealthRecord
  <2>3. QED
    BY <2>1, <2>2
<1>2. ASSUME NEW b \in Agents, QuarantineAgent(b) PROVE FALSE
  BY <1>0, <1>2 DEF QuarantineAgent, TypeOK, HealthRecord
<1>3. ASSUME NEW b \in Agents, ReleaseAgent(b) PROVE audit'[a] = Append(audit[a], "release")
  <2>1. b = a
    BY <1>3 DEF ReleaseAgent, TypeOK
  <2>2. QED
    BY <1>0, <1>3, <2>1 DEF ReleaseAgent, Log, TypeOK
<1>4. QED
  BY <1>1, <1>2, <1>3, HealthSteps

\* Nothing but the owner's release, on record in the audit log, ends a quarantine.
THEOREM OnlyOwnersRelease == Spec => QuarantineNeedsOwner
<1>1. TypeOK /\ [Next]_vars =>
        [\A a \in Agents : health[a].quarantined /\ ~health'[a].quarantined
                           => audit'[a] = Append(audit[a], "release")]_vars
  BY ReleaseStep
<1>2. QED
  BY <1>1, TypeCorrect, PTL DEF Spec, QuarantineNeedsOwner

-----------------------------------------------------------------------------
(***************************************************************************)
(* Leases.  The fence of a lease is never below that of an admission made  *)
(* under it, and only admissions under the present fence are made.         *)
(***************************************************************************)

FenceInv == \A r \in Resources : fenced[r] <= lease[r].fence

\* What a step does to leases and admissions under them.
LEMMA FenceSteps ==
  ASSUME TypeOK, [Next]_vars, NEW r \in Resources
  PROVE  /\ lease'[r].fence >= lease[r].fence
         /\ fenced'[r] = fenced[r] \/ (lease' = lease /\ fenced'[r] = lease[r].fence)
<1> DEFINE Goal == /\ lease'[r].fence >= lease[r].fence
                   /\ fenced'[r] = fenced[r] \/ (lease' = lease /\ fenced'[r] = lease[r].fence)
<1>0. lease[r].fence \in Nat /\ lease[r] \in LeaseRecord
  BY DEF TypeOK, LeaseRecord
<1>1. CASE lease' = lease /\ fenced' = fenced
  BY <1>0, <1>1
<1>2. ASSUME NEW d, NEW e, Start(d, e) \/ Crash(d) \/ SetClock(d) PROVE Goal
  BY <1>1, <1>2 DEF Start, Crash, SetClock, records, history
<1>3. ASSUME NEW w \in Workers, Dispatch(w) \/ Finish(w) \/ FinishFails(w) PROVE Goal
  BY <1>1, <1>3 DEF Dispatch, Finish, FinishFails, records, history
<1>4. ASSUME NEW s \in Resources, NEW o, NEW ttl, AcquireLease(s, o, ttl) PROVE Goal
  BY <1>0, <1>4 DEF AcquireLease, NextFence, TypeOK, history
<1>5. ASSUME NEW s \in Resources, NEW o, NEW k, NEW ttl, RenewLease(s, o, k, ttl) \/ ReleaseLease(s, o, k)
      PROVE  Goal
  <2>1. fenced' = fenced
    BY <1>5 DEF RenewLease, ReleaseLease, history
  <2>2. PICK n : lease' = [lease EXCEPT ![s].expires = n]
    BY <1>5 DEF RenewLease, ReleaseLease
  <2>3. lease'[r].fence = lease[r].fence
    BY <1>0, <2>2 DEF TypeOK, LeaseRecord
  <2>4. QED
    BY <1>0, <2>1, <2>3
<1>6. ASSUME Owner PROVE Goal
  <2>1. CASE \E s \in Resources, o \in Owners, ttl \in 1..MaxTtl : AcquireLease(s, o, ttl)
    BY <1>4, <2>1
  <2>2. CASE \E s \in Resources, o \in Owners, ttl \in 1..MaxTtl, k \in 1..MaxAudit : RenewLease(s, o, k, ttl)
    BY <1>5, <2>2
  <2>3. CASE \E s \in Resources, o \in Owners, k \in 1..MaxAudit : ReleaseLease(s, o, k)
    BY <1>5, <2>3
  <2>4. ASSUME NEW c, NEW t, CreateContinuation(c, t) \/ CreateSession(c) \/ Revoke(c)
                             \/ QuarantineAgent(c) \/ ReleaseAgent(c)
        PROVE  Goal
    BY <1>1, <2>4 DEF CreateContinuation, CreateSession, Revoke, QuarantineAgent, ReleaseAgent, history
  <2>5. ASSUME NEW i, NEW v, NEW ttl, Decide(i, v, ttl) PROVE Goal
    BY <1>1, <2>5 DEF Decide, history
  <2>6. QED
    BY <1>6, <2>1, <2>2, <2>3, <2>4, <2>5 DEF Owner
<1>7. ASSUME NEW w \in Workers, NEW q, Replay(w, q) \/ RequireApproval(w, q) PROVE Goal
  BY <1>1, <1>7 DEF Replay, RequireApproval, records, history
<1>8. ASSUME NEW w \in Workers, NEW q, Admit(w, q) PROVE Goal
  <2>1. lease' = lease
    BY <1>8 DEF Admit
  <2>2. CASE q.lease = None
    BY <1>1, <1>8, <2>1, <2>2 DEF Admit
  <2>3. CASE q.lease # None
    <3>1. lease[q.lease.resource].fence = q.lease.fence
      BY <1>8, <2>3 DEF Admit, Admissible, LeaseMatches
    <3>2. fenced' = [fenced EXCEPT ![q.lease.resource] = q.lease.fence]
      BY <1>8, <2>3 DEF Admit
    <3>3. fenced'[r] = fenced[r] \/ (r = q.lease.resource /\ fenced'[r] = q.lease.fence)
      BY <3>2 DEF TypeOK
    <3>4. QED
      BY <1>0, <2>1, <3>1, <3>3
  <2>4. QED
    BY <2>2, <2>3
<1>9. ASSUME NEW w \in Workers, NEW q \in Requests, Handle(w, q) PROVE Goal
  BY <1>7, <1>8, <1>9 DEF Handle
<1>10. CASE UNCHANGED vars
  BY <1>1, <1>10 DEF vars, records, history
<1>11. QED
  BY <1>2, <1>3, <1>6, <1>9, <1>10 DEF Next

\* The fences keep covering what was admitted, and none goes back.
LEMMA FenceStep ==
  ASSUME TypeOK, FenceInv, [Next]_vars, NEW r \in Resources
  PROVE  fenced'[r] >= fenced[r] /\ fenced'[r] <= lease'[r].fence
<1>1. /\ fenced[r] \in Nat /\ lease[r].fence \in Nat /\ fenced[r] <= lease[r].fence
      /\ fenced'[r] \in Nat /\ lease'[r].fence \in Nat
  BY StepTypeOK DEF TypeOK, LeaseRecord, FenceInv
<1>2. QED
  BY <1>1, FenceSteps

\* The fences cover what was admitted in every reachable state.
LEMMA FenceInvariant == Spec => []FenceInv
<1>1. Init => FenceInv
  BY DEF Init, FenceInv, NoLease
<1>2. TypeOK /\ FenceInv /\ [Next]_vars => FenceInv'
  BY FenceStep DEF FenceInv
<1>3. QED
  BY <1>1, <1>2, TypeCorrect, PTL DEF Spec

\* No holder of an older lease gets a request in after a newer one did, whatever
\* the clock does.
THEOREM FencesGrow == Spec => FencesOnlyGrow
<1>1. TypeOK /\ FenceInv /\ [Next]_vars => [\A r \in Resources : fenced'[r] >= fenced[r]]_vars
  BY FenceStep
<1>2. QED
  BY <1>1, TypeCorrect, FenceInvariant, PTL DEF Spec, FencesOnlyGrow

-----------------------------------------------------------------------------
(***************************************************************************)
(* Grants.  Every running daemon enforces what its configuration may say,  *)
(* and a decision is never taken twice.                                    *)
(***************************************************************************)

GrantInv == GrantBinding /\ \A d \in up : enforce[d] \in EnforceModes

\* A grant that was given is at most revoked, and stays that of its request.
LEMMA GrantKept ==
  ASSUME TypeOK, [Next]_vars, NEW i \in Ids, approval[i].state \in {"APPROVED", "REVOKED"}
  PROVE  /\ approval'[i].state \in {"APPROVED", "REVOKED"}
         /\ approval'[i].request = approval[i].request
<1> DEFINE Goal == /\ approval'[i].state \in {"APPROVED", "REVOKED"}
                   /\ approval'[i].request = approval[i].request
<1>0. CASE approval' = approval
  BY <1>0
<1>1. ASSUME NEW d, NEW e, Start(d, e) \/ Crash(d) \/ SetClock(d) PROVE Goal
  BY <1>0, <1>1 DEF Start, Crash, SetClock, records
<1>2. ASSUME NEW w \in Workers, Dispatch(w) \/ Finish(w) \/ FinishFails(w) PROVE Goal
  BY <1>0, <1>2 DEF Dispatch, Finish, FinishFails, records
<1>3. ASSUME NEW w \in Workers, NEW r \in Requests, Handle(w, r) PROVE Goal
  <2>1. ASSUME NEW q, Replay(w, q) \/ Admit(w, q) PROVE Goal
    BY <1>0, <2>1 DEF Replay, Admit, records
  <2>2. ASSUME NEW q, RequireApproval(w, q) PROVE Goal
    BY <2>2 DEF RequireApproval, TypeOK
  <2>3. QED
    BY <1>3, <2>1, <2>2 DEF Handle
<1>4. ASSUME NEW j \in Ids, NEW v, NEW ttl, Decide(j, v, ttl) PROVE Goal
  <2>1. j # i
    BY <1>4 DEF Decide, Undecided
  <2>2. QED
    BY <1>4, <2>1 DEF Decide, TypeOK
<1>5. ASSUME NEW j \in Ids, Revoke(j) PROVE Goal
  BY <1>5 DEF Revoke, TypeOK, ApprovalRecord
<1>6. ASSUME Owner PROVE Goal
  <2>1. CASE \E j \in Ids, v \in {"APPROVED", "DENIED"}, ttl \in 1..MaxTtl : Decide(j, v, ttl)
    BY <1>4, <2>1
  <2>2. CASE \E j \in Ids : Revoke(j)
    BY <1>5, <2>2
  <2>3. QED
    BY <1>0, <1>6, <2>1, <2>2 DEF Owner, CreateContinuation, CreateSession, AcquireLease,
       RenewLease, ReleaseLease, QuarantineAgent, ReleaseAgent
<1>7. CASE UNCHANGED vars
  BY <1>0, <1>7 DEF vars, records
<1>8. QED
  BY <1>1, <1>2, <1>3, <1>6, <1>7 DEF Next

\* The configuration of a running daemon does not change.
LEMMA EnforceStep ==
  ASSUME TypeOK, \A d \in up : enforce[d] \in EnforceModes, [Next]_vars
  PROVE  \A d \in up' : enforce'[d] \in EnforceModes
<1>1. ASSUME NEW d \in Daemons, NEW e \in EnforceModes, Start(d, e)
      PROVE  \A b \in up' : enforce'[b] \in EnforceModes
  BY <1>1 DEF Start, TypeOK
<1>2. ASSUME NEW d \in Daemons, Crash(d) PROVE \A b \in up' : enforce'[b] \in EnforceModes
  BY <1>2 DEF Crash
<1>3. CASE up' = up /\ enforce' = enforce
  BY <1>3
<1>4. ASSUME NEW t, SetClock(t) PROVE up' = up /\ enforce' = enforce
  BY <1>4 DEF SetClock
<1>5. ASSUME NEW w \in Workers, Dispatch(w) \/ Finish(w) \/ FinishFails(w)
      PROVE  up' = up /\ enforce' = enforce
  BY <1>5 DEF Dispatch, Finish, FinishFails
<1>6. ASSUME NEW w \in Workers, NEW r \in Requests, Handle(w, r) PROVE up' = up /\ enforce' = enforce
  BY <1>6 DEF Handle, Replay, RequireApproval, Admit, machine
<1>7. ASSUME Owner PROVE up' = up /\ enforce' = enforce
  BY <1>7 DEF Owner, machine, CreateContinuation, CreateSession, AcquireLease,
     RenewLease, ReleaseLease, Decide, Revoke, QuarantineAgent, ReleaseAgent
<1>8. CASE UNCHANGED vars
  BY <1>8 DEF vars, machine
<1>9. QED
  BY <1>1, <1>2, <1>3, <1>4, <1>5, <1>6, <1>7, <1>8 DEF Next

\* Every step keeps grants and admissions bound together.
LEMMA GrantStep == DispatchInv /\ GrantInv /\ [Next]_vars => GrantInv'
<1> SUFFICES ASSUME DispatchInv, GrantInv, [Next]_vars, NEW i \in Ids,
                    execution'[i].state # "ABSENT",
                    \/ execution'[i].request.declared \/ execution'[i].request.parent # None
                    \/ EnforceModes = {TRUE}
             PROVE  /\ approval'[i].state \in {"APPROVED", "REVOKED"}
                    /\ approval'[i].request = execution'[i].request
  BY EnforceStep DEF GrantInv, GrantBinding, DispatchInv
<1>1. CASE execution[i].state # "ABSENT"
  <2>1. execution'[i].request = execution[i].request
    BY <1>1, AdmittedKept
  <2>2. /\ approval[i].state \in {"APPROVED", "REVOKED"}
        /\ approval[i].request = execution[i].request
    BY <1>1, <2>1 DEF GrantInv, GrantBinding
  <2>3. QED
    BY <2>1, <2>2, GrantKept DEF DispatchInv
<1>2. CASE execution[i].state = "ABSENT"
  <2>1. PICK w \in Workers, q \in Request : q.id = i /\ Serving(w) /\ Admit(w, q)
    BY <1>2, OnlyAdmitted
  <2>2. TypeOK
    BY DEF DispatchInv
  <2>3. execution'[q.id] = [state |-> "DISPATCHING", request |-> q, effects |-> Requested(q),
                            chain |-> Chain(q), result |-> "none"]
    BY <2>1, <2>2, Admission, Zenon
  <2>4. execution'[i].request = q
    BY <2>1, <2>3
  <2>5. Gated(DaemonOf[w], q)
    BY <2>1, <2>4 DEF Gated, GrantInv, Serving
  <2>6. approval[i].state = "APPROVED" /\ approval[i].request = q /\ approval' = approval
    BY <2>1, <2>5 DEF Admit, Granted, Live
  <2>7. QED
    BY <2>4, <2>6
<1>3. QED
  BY <1>1, <1>2

\* What is admitted under governance is what the owner approved, for any set of
\* requests that compete for one id.
THEOREM GrantsBind == Spec => []GrantBinding
<1>1. Init => GrantInv
  <2>1. SUFFICES ASSUME Init
                 PROVE  GrantInv
    OBVIOUS
  <2>2. \A i \in Ids : execution[i].state = "ABSENT"
    BY <2>1 DEF Init, NoExecution
  <2>3. GrantBinding
    BY <2>2 DEF GrantBinding
  <2>4. \A d \in up : enforce[d] \in EnforceModes
    BY <2>1 DEF Init
  <2>5. QED
    BY <2>3, <2>4 DEF GrantInv
<1>2. GrantInv => GrantBinding
  BY DEF GrantInv
<1>3. QED
  BY <1>1, <1>2, GrantStep, DispatchInvariant, PTL DEF Spec

-----------------------------------------------------------------------------
(***************************************************************************)
(* Continuations.  begin() checks what finish() changes, so the theorem    *)
(* needs what the accept loop provides: a daemon has one thread that       *)
(* handles requests.                                                       *)
(***************************************************************************)

SerialHandlers == \A v, w \in Workers : DaemonOf[v] = DaemonOf[w] => v = w

DeliveredBy(c) ==
    {i \in Ids : execution[i].state = "DELIVERED" /\ execution[i].request.continuation = c}

\* Whoever works on a continuation finds it pending to the end.
ContinuationInv ==
    /\ ContinuationDeliveredOnce
    /\ \A w \in Workers : Busy(w) /\ worker[w].request.continuation # None =>
          continuation[worker[w].request.continuation].state = "PENDING"

\* What a step does to continuations.
LEMMA ContinuationSteps ==
  ASSUME [Next]_vars
  PROVE  \/ continuation' = continuation
         \/ \E c \in Continuations, t \in Tasks : CreateContinuation(c, t)
         \/ \E w \in Workers : Finish(w)
<1> DEFINE Same == continuation' = continuation
<1>1. ASSUME NEW d, NEW e, Start(d, e) \/ Crash(d) \/ SetClock(d) PROVE Same
  BY <1>1 DEF Start, Crash, SetClock, records
<1>2. ASSUME NEW w \in Workers, Dispatch(w) \/ FinishFails(w) PROVE Same
  BY <1>2 DEF Dispatch, FinishFails, records
<1>3. ASSUME Owner PROVE Same \/ \E c \in Continuations, t \in Tasks : CreateContinuation(c, t)
  BY <1>3 DEF Owner, CreateSession, AcquireLease, RenewLease, ReleaseLease, Decide,
     Revoke, QuarantineAgent, ReleaseAgent
<1>4. ASSUME NEW w \in Workers, NEW r \in Requests, Handle(w, r) PROVE Same
  BY <1>4 DEF Handle, Replay, RequireApproval, Admit, records
<1>5. CASE UNCHANGED vars
  BY <1>5 DEF vars, records
<1>6. QED
  BY <1>1, <1>2, <1>3, <1>4, <1>5 DEF Next

\* Who delivered a continuation changes only when an execution is delivered.
LEMMA DeliveriesKept ==
  ASSUME DispatchInv, [Next]_vars, ~\E w \in Workers : Finish(w), NEW c
  PROVE  DeliveredBy(c)' = DeliveredBy(c)
<1> USE DEF DispatchInv
<1> SUFFICES ASSUME NEW i \in Ids
             PROVE  execution'[i].state = "DELIVERED" /\ execution'[i].request.continuation = c
                    <=> execution[i].state = "DELIVERED" /\ execution[i].request.continuation = c
  BY DEF DeliveredBy
<1>0. execution[i] \in ExecutionRecord
  BY DEF TypeOK
<1>1. ASSUME NEW d \in Daemons, NEW e \in EnforceModes, Start(d, e)
      PROVE  execution'[i] = execution[i]
             \/ (execution[i].state # "DELIVERED" /\ execution'[i].state # "DELIVERED")
  BY <1>0, <1>1 DEF Start, Recovered, ExecutionRecord
<1>2. ASSUME NEW w \in Workers, NEW q \in Request, q.id \in Ids, Admit(w, q)
      PROVE  execution'[i] = execution[i]
             \/ (execution[i].state # "DELIVERED" /\ execution'[i].state # "DELIVERED")
  <2>1. /\ execution[q.id].state = "ABSENT"
        /\ execution'[q.id] = [state |-> "DISPATCHING", request |-> q, effects |-> Requested(q),
                               chain |-> Chain(q), result |-> "none"]
        /\ \A j \in Ids : j # q.id => execution'[j] = execution[j]
    BY <1>2, Admission, Zenon
  <2>2. execution'[q.id].state = "DISPATCHING"
    BY <2>1
  <2>3. QED
    BY <2>1, <2>2
<1>3. ASSUME NEW w \in Workers, Dispatch(w) \/ FinishFails(w) PROVE execution' = execution
  BY <1>3 DEF Dispatch, FinishFails, records
<1>4. ASSUME NEW d \in Daemons, Crash(d) PROVE execution' = execution
  BY <1>4 DEF Crash, records
<1>5. QED
  BY <1>1, <1>2, <1>3, <1>4, DispatchSteps

\* Every step of serial handlers keeps the invariant.
LEMMA ContinuationStep ==
  ASSUME SerialHandlers, DispatchInv, ContinuationInv, [Next]_vars
  PROVE  ContinuationInv'
<1> USE DEF DispatchInv
<1>0. \A c \in Continuations :
         DeliveredBy(c) = IF continuation[c].state = "DELIVERED" THEN {continuation[c].by} ELSE {}
  BY DEF ContinuationInv, ContinuationDeliveredOnce, DeliveredBy
<1>1. ASSUME NEW w \in Workers, Finish(w) PROVE ContinuationInv'
  <2> DEFINE q == worker[w].request
             res == worker[w].result
             done == q.continuation # None /\ res = "ok"
  <2>1. /\ q \in Request /\ res \in Results /\ Busy(w) /\ q.id \in Ids
        /\ execution[q.id].state = "DISPATCHING" /\ execution[q.id].request = q
        /\ execution[q.id] \in ExecutionRecord
    BY <1>1 DEF Finish, TypeOK, Thread, Busy, OneHolder
  <2>2. /\ execution'[q.id] = Concluded(execution[q.id], res)
        /\ \A i \in Ids : i # q.id => execution'[i] = execution[i]
    BY <1>1, <2>1 DEF Finish, TypeOK
  <2>3. /\ execution'[q.id].request = q
        /\ execution'[q.id].state = "DELIVERED" <=> res = "ok"
    BY <2>1, <2>2 DEF Concluded, Outcome, Results, ExecutionRecord
  <2>4. \A v \in Workers : ~Busy(v)'
    <3>1. \A v \in Workers : Busy(v) => v = w
      BY <2>1 DEF OneHolder, SerialHandlers
    <3>2. worker' = [worker EXCEPT ![w] = Idle]
      BY <1>1 DEF Finish
    <3>3. QED
      BY <3>1, <3>2 DEF Busy, Idle, TypeOK
  <2>5. ASSUME NEW c \in Continuations
        PROVE  DeliveredBy(c)' = IF continuation'[c].state = "DELIVERED"
                                 THEN {continuation'[c].by} ELSE {}
    <3>1. DeliveredBy(c)' = IF q.continuation = c /\ res = "ok" THEN DeliveredBy(c) \cup {q.id}
                            ELSE DeliveredBy(c)
      BY <2>1, <2>2, <2>3 DEF DeliveredBy
    <3>2. CASE q.continuation = c /\ res = "ok"
      <4>1. c # None
        BY NoneAssumption
      <4>2. continuation[c].state = "PENDING" /\ continuation[c] \in ContinuationRecord
        BY <2>1, <3>2, <4>1 DEF ContinuationInv, TypeOK
      <4>3. continuation'[c] = [continuation[c] EXCEPT !.state = "DELIVERED", !.by = q.id]
        BY <1>1, <3>2, <4>1 DEF Finish, TypeOK
      <4>4. continuation'[c].state = "DELIVERED" /\ continuation'[c].by = q.id
        BY <4>2, <4>3 DEF ContinuationRecord
      <4>5. DeliveredBy(c) = {}
        BY <1>0, <4>2
      <4>6. QED
        BY <3>1, <3>2, <4>4, <4>5
    <3>3. CASE ~(q.continuation = c /\ res = "ok")
      <4>1. continuation'[c] = continuation[c]
        BY <1>1, <3>3 DEF Finish, TypeOK
      <4>2. QED
        BY <1>0, <3>1, <3>3, <4>1
    <3>4. QED
      BY <3>2, <3>3
  <2>6. QED
    BY <2>4, <2>5 DEF ContinuationInv, ContinuationDeliveredOnce, DeliveredBy
<1>2. ASSUME NEW c \in Continuations, NEW t \in Tasks, CreateContinuation(c, t) PROVE ContinuationInv'
  <2>1. /\ execution' = execution /\ worker' = worker /\ continuation[c].state = "ABSENT"
        /\ continuation' = [continuation EXCEPT ![c] = [state |-> "PENDING", task |-> t, by |-> None]]
    BY <1>2 DEF CreateContinuation, machine
  <2>2. /\ continuation'[c].state = "PENDING"
        /\ \A b \in Continuations : b # c => continuation'[b] = continuation[b]
    BY <2>1 DEF TypeOK
  <2>3. \A b \in Continuations : DeliveredBy(b)' = DeliveredBy(b)
    BY <2>1 DEF DeliveredBy
  <2>4. ContinuationDeliveredOnce'
    BY <1>0, <2>1, <2>2, <2>3 DEF ContinuationDeliveredOnce, DeliveredBy
  <2>5. ASSUME NEW w \in Workers, Busy(w)', worker'[w].request.continuation # None
        PROVE  continuation'[worker'[w].request.continuation].state = "PENDING"
    <3>1. /\ Busy(w) /\ worker'[w] = worker[w]
          /\ worker[w].request.continuation \in Continuations
      BY <2>1, <2>5 DEF Busy, TypeOK, Thread, Request
    <3>2. QED
      BY <2>2, <2>5, <3>1 DEF ContinuationInv
  <2>6. QED
    BY <2>4, <2>5 DEF ContinuationInv
<1>3. CASE continuation' = continuation /\ ~\E w \in Workers : Finish(w)
  <2>1. ContinuationDeliveredOnce'
    BY <1>0, <1>3, DeliveriesKept DEF ContinuationDeliveredOnce, DeliveredBy
  <2>2. ASSUME NEW w \in Workers, Busy(w)', worker'[w].request.continuation # None
        PROVE  continuation[worker'[w].request.continuation].state = "PENDING"
    <3>1. CASE Busy(w) /\ worker'[w].request = worker[w].request
      BY <2>2, <3>1 DEF ContinuationInv
    <3>2. ASSUME NEW d \in Daemons, NEW e \in EnforceModes, Start(d, e)
          PROVE  Busy(w) /\ worker'[w].request = worker[w].request
      BY <2>2, <3>2 DEF Start, Busy
    <3>3. ASSUME NEW d \in Daemons, Crash(d) PROVE Busy(w) /\ worker'[w].request = worker[w].request
      BY <2>2, <3>3 DEF Crash, Busy, Idle
    <3>4. ASSUME NEW v \in Workers, NEW q \in Request, q.id \in Ids, Admit(v, q)
          PROVE  continuation[worker'[w].request.continuation].state = "PENDING"
      <4>1. CASE v = w
        <5>1. worker'[w].request = q
          BY <3>4, <4>1 DEF Admit, TypeOK
        <5>2. QED
          BY <2>2, <3>4, <5>1 DEF Admit, Admissible, ContinuationPending
      <4>2. CASE v # w
        <5>1. worker'[w] = worker[w]
          BY <3>4, <4>2 DEF Admit, TypeOK
        <5>2. QED
          BY <2>2, <3>1, <5>1 DEF Busy
      <4>3. QED
        BY <4>1, <4>2
    <3>5. ASSUME NEW v \in Workers, Dispatch(v) PROVE Busy(w) /\ worker'[w].request = worker[w].request
      BY <2>2, <3>5 DEF Dispatch, Busy, TypeOK
    <3>6. ASSUME NEW v \in Workers, FinishFails(v)
          PROVE  Busy(w) /\ worker'[w].request = worker[w].request
      BY <2>2, <3>6 DEF FinishFails, Busy, TypeOK, Idle
    <3>7. CASE worker' = worker
      BY <2>2, <3>1, <3>7 DEF Busy
    <3>8. QED
      BY <1>3, <3>1, <3>2, <3>3, <3>4, <3>5, <3>6, <3>7, DispatchSteps
  <2>3. QED
    BY <1>3, <2>1, <2>2 DEF ContinuationInv
<1>4. QED
  BY <1>1, <1>2, <1>3, ContinuationSteps

\* With one handler thread per daemon, one execution delivers a continuation,
\* through restarts and however many requests compete to answer it.
THEOREM ContinuationsDeliveredOnce ==
  ASSUME SerialHandlers
  PROVE  Spec => []ContinuationDeliveredOnce
<1>1. Init => ContinuationInv
  BY DEF Init, ContinuationInv, ContinuationDeliveredOnce, NoExecution, NoContinuation, Busy, Idle
<1>2. DispatchInv /\ ContinuationInv /\ [Next]_vars => ContinuationInv'
  BY ContinuationStep
<1>3. ContinuationInv => ContinuationDeliveredOnce
  BY DEF ContinuationInv
<1>4. QED
  BY <1>1, <1>2, <1>3, DispatchInvariant, PTL DEF Spec

-----------------------------------------------------------------------------
(***************************************************************************)
(* The audit log.                                                          *)
(***************************************************************************)

\* A trail with one event more: the event, if it speaks of S, and else what the
\* trail said before.
LEMMA LastAppended ==
  ASSUME NEW s \in Seq(AuditTags), NEW tag \in AuditTags, NEW S
  PROVE  LastIn(Append(s, tag), S) = IF tag \in S THEN tag ELSE LastIn(s, S)
<1> DEFINE t == Append(s, tag)
           before == {k \in DOMAIN s : s[k] \in S}
           after == {k \in DOMAIN t : t[k] \in S}
<1>1. /\ Len(s) \in Nat /\ DOMAIN s = 1..Len(s) /\ DOMAIN t = 1..(Len(s) + 1)
      /\ t[Len(s) + 1] = tag /\ \A k \in 1..Len(s) : t[k] = s[k]
  OBVIOUS
<1> HIDE DEF t
<1>2. CASE tag \in S
  <2>1. Len(s) + 1 \in after /\ \A j \in after : j \in Nat /\ j <= Len(s) + 1
    BY <1>1, <1>2
  <2> HIDE DEF after
  <2>2. (CHOOSE k \in after : \A j \in after : j <= k) = Len(s) + 1
    BY <1>1, <2>1
  <2>3. LastIn(t, S) = tag
    BY <1>1, <2>1, <2>2 DEF LastIn, after
  <2>4. QED
    BY <1>2, <2>3 DEF t
<1>3. CASE tag \notin S
  <2>1. after = before
    BY <1>1, <1>3
  <2>2. CASE before = {}
    BY <1>3, <2>1, <2>2 DEF LastIn, t
  <2>3. CASE before # {}
    <3> DEFINE last == CHOOSE k \in before : \A j \in before : j <= k
    <3>1. before \in SUBSET (1..Len(s))
      BY <1>1
    <3>2. last \in before
      <4> HIDE DEF before
      <4>1. \E k \in before : \A j \in before : j <= k
        BY <1>1, <2>3, <3>1, Greatest
      <4>2. QED
        BY <4>1
    <3>3. t[last] = s[last]
      BY <1>1, <3>2
    <3>4. LastIn(s, S) = s[last] /\ LastIn(t, S) = t[last]
      BY <2>1, <2>3 DEF LastIn
    <3>5. QED
      BY <1>3, <3>3, <3>4 DEF t
  <2>4. QED
    BY <2>2, <2>3
<1>4. QED
  BY <1>2, <1>3

\* The event that joins the trail of i says how the records of i have changed.
Says(i, tag) ==
    /\ tag \in AuditTags /\ audit'[i] = Append(audit[i], tag)
    /\ execution'[i].state = IF tag \in ExecutionStates THEN tag ELSE execution[i].state
    /\ approval'[i].state = IF tag \in ApprovalStates THEN tag ELSE approval[i].state

\* Nothing about i changes.
Silent(i) ==
    /\ audit'[i] = audit[i]
    /\ execution'[i].state = execution[i].state /\ approval'[i].state = approval[i].state

\* The recovery of the constructor writes its event with the record.
LEMMA StartSays ==
  ASSUME DispatchInv, NEW d, NEW e, Start(d, e), NEW i \in Ids
  PROVE  Silent(i) \/ \E tag \in AuditTags : Says(i, tag)
<1>1. /\ execution[i] \in ExecutionRecord /\ i \in Subjects /\ approval' = approval
      /\ execution' = Recovered
      /\ audit'[i] = IF execution[i].state = "DISPATCHING" THEN Append(audit[i], "UNCERTAIN") ELSE audit[i]
  BY DEF Start, DispatchInv, TypeOK, Subjects
<1>2. CASE execution[i].state = "DISPATCHING"
  <2>1. execution'[i].state = "UNCERTAIN"
    BY <1>1, <1>2 DEF Recovered, ExecutionRecord
  <2>2. Says(i, "UNCERTAIN") /\ "UNCERTAIN" \in AuditTags
    BY <1>1, <1>2, <2>1 DEF Says, AuditTags, ExecutionStates, ApprovalStates
  <2>3. QED
    BY <2>2
<1>3. CASE execution[i].state # "DISPATCHING"
  BY <1>1, <1>3 DEF Recovered, Silent
<1>4. QED
  BY <1>2, <1>3

\* begin() writes an event with the approval it asks for and with the execution it
\* admits.
LEMMA BeginSays ==
  ASSUME DispatchInv, NEW w \in Workers, NEW q \in Request, q.id \in Ids,
         RequireApproval(w, q) \/ Admit(w, q), NEW i \in Ids
  PROVE  Silent(i) \/ \E tag \in AuditTags : Says(i, tag)
<1> USE DEF DispatchInv
<1>1. i \in Subjects /\ q.id \in Subjects /\ audit \in [Subjects -> Seq(AuditTags)]
  BY DEF TypeOK, Subjects
<1>2. CASE RequireApproval(w, q)
  <2>1. i # q.id => Silent(i)
    BY <1>1, <1>2 DEF RequireApproval, Silent, Log, TypeOK
  <2>2. i = q.id => Says(i, "PENDING") /\ "PENDING" \in AuditTags
    BY <1>1, <1>2 DEF RequireApproval, Says, Log, TypeOK, AuditTags, ExecutionStates, ApprovalStates
  <2>3. QED
    BY <2>1, <2>2
<1>3. CASE Admit(w, q)
  <2>1. i # q.id => Silent(i)
    BY <1>1, <1>3 DEF Admit, Silent, Log, TypeOK
  <2>2. i = q.id => Says(i, "DISPATCHING") /\ "DISPATCHING" \in AuditTags
    BY <1>1, <1>3 DEF Admit, Says, Log, TypeOK, AuditTags, ExecutionStates, ApprovalStates
  <2>3. QED
    BY <2>1, <2>2
<1>4. QED
  BY <1>2, <1>3

\* finish() writes the outcome's event with the record; the event of the
\* continuation goes to another trail.
LEMMA FinishSays ==
  ASSUME DispatchInv, NEW w \in Workers, Finish(w), NEW i \in Ids
  PROVE  Silent(i) \/ \E tag \in AuditTags : Says(i, tag)
<1> DEFINE q == worker[w].request
           res == worker[w].result
<1> USE DEF DispatchInv
<1>1. /\ res \in Results /\ q.id \in Ids /\ q.continuation \in Continuations \cup {None}
      /\ approval' = approval /\ i \in Subjects /\ execution[i] \in ExecutionRecord
  BY DEF Finish, TypeOK, Thread, OneHolder, Busy, Request, Subjects
<1>2. CASE i = q.id
  <2>1. audit'[i] = Append(audit[i], Outcome(res))
    BY <1>1, <1>2 DEF Finish
  <2>2. execution'[i].state = Outcome(res)
    BY <1>1, <1>2 DEF Finish, Concluded, TypeOK, ExecutionRecord
  <2>3. /\ Outcome(res) \in ExecutionStates \cap AuditTags
        /\ Outcome(res) \notin ApprovalStates
    BY <1>1 DEF Outcome, Results, AuditTags, ExecutionStates, ApprovalStates
  <2>4. Says(i, Outcome(res))
    BY <1>1, <2>1, <2>2, <2>3, Zenon DEF Says
  <2>5. QED
    BY <2>3, <2>4
<1>3. CASE i # q.id
  <2>1. i # q.continuation \/ q.continuation = None
    BY <1>1, SubjectsAssumption
  <2>2. audit'[i] = audit[i]
    BY <1>1, <1>3, <2>1 DEF Finish
  <2>3. QED
    BY <1>1, <1>3, <2>2 DEF Silent, Finish, TypeOK
<1>4. QED
  BY <1>2, <1>3

\* The owner's operations: a decision and a revocation write the state they give;
\* other events are no states.
LEMMA OwnerSays ==
  ASSUME DispatchInv, Owner, NEW i \in Ids
  PROVE  Silent(i) \/ \E tag \in AuditTags : Says(i, tag)
<1> USE DEF DispatchInv
<1>1. /\ i \in Subjects /\ audit \in [Subjects -> Seq(AuditTags)]
      /\ approval \in [Ids -> ApprovalRecord] /\ approval[i] \in ApprovalRecord
  BY DEF TypeOK, Subjects
<1>2. ASSUME NEW c \in Continuations, NEW t, CreateContinuation(c, t) PROVE Silent(i)
  BY <1>1, <1>2, SubjectsAssumption DEF CreateContinuation, Log, Silent
<1>3. ASSUME NEW j, NEW tag \in {"created", "acquire", "renew", "release", "quarantine"},
             audit' = Log(j, tag), UNCHANGED <<execution, approval>>
      PROVE  Silent(i) \/ \E other \in AuditTags : Says(i, other)
  <2>1. CASE i = j
    <3>1. Says(i, tag) /\ tag \in AuditTags
      BY <1>1, <1>3, <2>1 DEF Log, Says, AuditTags, ExecutionStates, ApprovalStates
    <3>2. QED
      BY <3>1
  <2>2. CASE i # j
    BY <1>1, <1>3, <2>2 DEF Log, Silent
  <2>3. QED
    BY <2>1, <2>2
<1>4. ASSUME NEW j \in Ids, NEW verdict \in {"APPROVED", "DENIED"}, NEW ttl, Decide(j, verdict, ttl)
      PROVE  Silent(i) \/ Says(i, verdict)
  BY <1>1, <1>4 DEF Decide, Log, Silent, Says, ApprovalRecord, AuditTags, ExecutionStates, ApprovalStates
<1>5. ASSUME NEW j \in Ids, Revoke(j)
      PROVE  Silent(i) \/ Says(i, "REVOKED")
  BY <1>1, <1>5 DEF Revoke, Log, Silent, Says, ApprovalRecord, AuditTags, ExecutionStates, ApprovalStates
<1>6. {"APPROVED", "DENIED", "REVOKED"} \subseteq AuditTags
  BY DEF AuditTags, ApprovalStates
<1>7. ASSUME NEW j, NEW o, NEW k, NEW ttl,
             \/ CreateSession(j) \/ AcquireLease(j, o, ttl) \/ RenewLease(j, o, k, ttl)
             \/ ReleaseLease(j, o, k) \/ QuarantineAgent(j) \/ ReleaseAgent(j)
      PROVE  Silent(i) \/ \E tag \in AuditTags : Says(i, tag)
  <2>1. /\ \E tag \in {"created", "acquire", "renew", "release", "quarantine"} : audit' = Log(j, tag)
        /\ UNCHANGED <<execution, approval>>
    BY <1>7 DEF CreateSession, AcquireLease, RenewLease, ReleaseLease, QuarantineAgent, ReleaseAgent
  <2>2. QED
    BY <2>1, <1>3
<1>8. QED
  BY <1>2, <1>4, <1>5, <1>6, <1>7, Zenon DEF Owner

\* Every step that changes a state of i leaves one event, which says so.
LEMMA AuditSteps ==
  ASSUME DispatchInv, [Next]_vars, NEW i \in Ids
  PROVE  Silent(i) \/ \E tag \in AuditTags : Says(i, tag)
<1>1. ASSUME NEW d, Crash(d) \/ SetClock(d) PROVE Silent(i)
  BY <1>1 DEF Crash, SetClock, records, Silent
<1>2. ASSUME NEW w \in Workers, Dispatch(w) \/ FinishFails(w) PROVE Silent(i)
  BY <1>2 DEF Dispatch, FinishFails, records, Silent
<1>3. ASSUME NEW w \in Workers, NEW r \in Requests, Handle(w, r)
      PROVE  Silent(i) \/ \E tag \in AuditTags : Says(i, tag)
  <2>1. PICK j \in NamesFor(DaemonOf[w], r) :
           LET q == [r EXCEPT !.id = j] IN
           Replay(w, q) \/ RequireApproval(w, q) \/ Admit(w, q)
    BY <1>3 DEF Handle
  <2> DEFINE q == [r EXCEPT !.id = j]
  <2>2. q \in Request /\ q.id \in Ids
    BY NamesAreIds, NamedRequest
  <2> HIDE DEF q
  <2>3. Replay(w, q) => Silent(i)
    BY DEF Replay, records, Silent
  <2>4. QED
    BY <2>1, <2>2, <2>3, BeginSays DEF q
<1>4. CASE UNCHANGED vars
  BY <1>4 DEF vars, records, Silent
<1>5. QED
  BY <1>1, <1>2, <1>3, <1>4, StartSays, FinishSays, OwnerSays DEF Next

\* The audit log alone tells the state of every execution and approval, through
\* crashes, recoveries and everything owners do.
THEOREM AuditIsComplete == Spec => []AuditTellsTheState
<1>1. Init => AuditTellsTheState
  <2> SUFFICES ASSUME Init, NEW i \in Ids
               PROVE  /\ execution[i].state = LastIn(audit[i], ExecutionStates)
                      /\ approval[i].state = LastIn(audit[i], ApprovalStates)
    BY DEF AuditTellsTheState
  <2>1. audit[i] = <<>> /\ execution[i].state = "ABSENT" /\ approval[i].state = "ABSENT"
    BY DEF Init, Subjects, NoExecution, NoApproval
  <2>2. QED
    BY <2>1 DEF LastIn
<1>2. DispatchInv /\ AuditTellsTheState /\ [Next]_vars => AuditTellsTheState'
  <2> SUFFICES ASSUME DispatchInv, AuditTellsTheState, [Next]_vars, NEW i \in Ids
               PROVE  /\ execution'[i].state = LastIn(audit'[i], ExecutionStates)
                      /\ approval'[i].state = LastIn(audit'[i], ApprovalStates)
    BY DEF AuditTellsTheState
  <2>1. /\ execution[i].state = LastIn(audit[i], ExecutionStates)
        /\ approval[i].state = LastIn(audit[i], ApprovalStates)
        /\ audit[i] \in Seq(AuditTags)
    BY DEF AuditTellsTheState, DispatchInv, TypeOK, Subjects
  <2>2. ASSUME NEW tag \in AuditTags, Says(i, tag)
        PROVE  /\ execution'[i].state = LastIn(audit'[i], ExecutionStates)
               /\ approval'[i].state = LastIn(audit'[i], ApprovalStates)
    <3>1. /\ LastIn(audit'[i], ExecutionStates) =
                IF tag \in ExecutionStates THEN tag ELSE LastIn(audit[i], ExecutionStates)
          /\ LastIn(audit'[i], ApprovalStates) =
                IF tag \in ApprovalStates THEN tag ELSE LastIn(audit[i], ApprovalStates)
      BY <2>1, <2>2, LastAppended DEF Says
    <3>2. QED
      BY <2>1, <2>2, <3>1 DEF Says
  <2>3. CASE Silent(i)
    BY <2>1, <2>3, Zenon DEF Silent
  <2>4. QED
    BY <2>2, <2>3, AuditSteps
<1>3. QED
  BY <1>1, <1>2, DispatchInvariant, PTL DEF Spec
=============================================================================
