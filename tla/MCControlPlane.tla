--------------------------- MODULE MCControlPlane ---------------------------
(***************************************************************************)
(* Small instances of ControlPlane.  Every run names the requests its      *)
(* clients may send; what a run does not ask about is switched off by an   *)
(* empty constant set.                                                     *)
(***************************************************************************)
EXTENDS ControlPlane, TLC

CONSTANTS i1, i2, i3, i4,     \* request ids
          a1,                 \* an agent
          t1, t2,             \* tasks
          s1, r1, o1, o2,     \* a session, a resource, two owners
          c1, c2,             \* continuations
          d1, d2, w1, w2, w3  \* daemons and worker threads

Submit(i, a) == [NoRequest EXCEPT !.id = i, !.agent = a]
Declaring(q, effs) == [q EXCEPT !.declared = TRUE, !.effects = effs]

OneDaemon == (w1 :> d1)
TwoThreads == (w1 :> d1 @@ w2 :> d1)
TwoDaemons == (w1 :> d1 @@ w2 :> d1 @@ w3 :> d2)

\* The same id with the same and with other parameters, a submission the
\* server names itself, and a retry.
CoreRequests ==
    {Submit(i1, a1), [Submit(i1, a1) EXCEPT !.op = "cancel"], Submit(None, a1),
     [Submit(i2, a1) EXCEPT !.retryOf = i1], [Submit(i3, a1) EXCEPT !.retryOf = i2]}

\* A root that may delegate, asked for with two sets of effects, a child, a
\* grandchild, a child that asks for more, and an effect nobody knows.
GrantRequests ==
    LET root == Submit(i1, None)
        child == [Submit(i2, None) EXCEPT !.parent = i1]
        leaf == [Submit(i3, None) EXCEPT !.parent = i2]
    IN {Declaring(root, {"DELEGATE"}), Declaring(root, {"DELEGATE", "PUBLISH"}), root,
        Declaring(child, {"DELEGATE"}), Declaring(child, {"PUBLISH"}),
        leaf, Declaring(leaf, {"unknown"})}

\* Both owners' submissions under the first two fences of one resource, one of
\* them in a session.
LeaseRequests ==
    {[Submit(IF n = 1 THEN i1 ELSE i2, None) EXCEPT !.lease =
        [resource |-> r1, owner |-> o, token |-> n, fence |-> n]] : n \in {1, 2}, o \in {o1, o2}}
    \cup {[Submit(i3, None) EXCEPT !.lease =
             [resource |-> r1, owner |-> o1, token |-> 1, fence |-> 1], !.session = s1]}

\* Two answers to a continuation that one of two tasks waits for.
AnswerRequests ==
    {[Submit(i, None) EXCEPT !.continuation = c1, !.task = t1, !.op = "respond"] : i \in {i3, i4}}

GovernedRequests == GrantRequests \cup LeaseRequests \cup AnswerRequests

\* What each of the three owner operations leaves behind.
Asked(requests) ==
    \A q \in {execution[i].request : i \in Ids} \cup {approval[i].request : i \in Ids} :
        q = NoRequest \/ q \in requests
NoGrants == approval = [i \in Ids |-> NoApproval] /\ enforce[d1] = FALSE
NoLeases == lease = [r \in Resources |-> NoLease] /\ session = {}
NoContinuations == continuation = [c \in Continuations |-> NoContinuation]

\* A behaviour is about grants, which two threads compete for, or about a lease and a
\* session, or about a continuation: nothing in begin() relates the three.
OneConcern ==
    \/ Asked(GrantRequests) /\ NoLeases /\ NoContinuations
    \/ Asked(LeaseRequests) /\ NoGrants /\ NoContinuations /\ worker[w2] = Idle /\ Len(audit[r1]) <= 3
    \/ Asked(AnswerRequests) /\ NoGrants /\ NoLeases /\ worker[w2] = Idle

HealthRequests == {Submit(i, a1) : i \in Ids}

=============================================================================
