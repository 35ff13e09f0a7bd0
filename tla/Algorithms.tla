------------------------------ MODULE Algorithms ------------------------------
(***************************************************************************)
(* Parts of a2ad that work alone: a text of server-sent events that comes  *)
(* in chunks, the choice of a project's agent, a client's walk through a   *)
(* listing that grows, the classification of an exchange with an agent,    *)
(* the opening of a database file that may be interrupted, an artifact     *)
(* that is saved again and again.  A behaviour takes up one of these jobs  *)
(* and goes on with it; the invariants compare what the code makes of it   *)
(* with a definition that does not follow the code.                        *)
(***************************************************************************)
EXTENDS EventStream, Routing, Listing, Answers, Storage

CONSTANTS
    Components, \* of a path
    Agents,     \* named by project rules
    MaxText,    \* bound: symbols of an event stream
    MaxRules,   \* bound: project rules
    MaxDepth,   \* bound: components of a path
    MaxId       \* bound: ids of a listing

ASSUME BoundsAssumption ==
    MaxText \in Nat /\ MaxRules \in Nat /\ MaxDepth \in Nat /\ MaxId \in Nat

VARIABLE job

Nothing == [of |-> "nothing"]
Init == job = Nothing

-----------------------------------------------------------------------------
(***************************************************************************)
(* An event stream.                                                        *)
(***************************************************************************)

Listen ==
    /\ job = Nothing
    /\ job' = [of |-> "stream", text |-> <<>>, stream |-> Fresh]

\* The next chunk of the body, or an empty one: the progress callback.
Chunk ==
    /\ job.of = "stream"
    /\ \E chunk \in SeqOf(Symbols, MaxText - Len(job.text)) :
          job' = [job EXCEPT !.text = @ \o chunk, !.stream = Consume(@, chunk)]

\* However the network cuts an event stream, streamCall hands on the events the
\* text contains, in order and whole; it misses only events that follow one in
\* which the task ended.
FramingIgnoresCuts ==
    job.of = "stream" =>
        LET said == EventsOf(job.text)
            heard == job.stream.delivered
        IN /\ IsPrefix(heard, said)
           /\ heard = said \/ \E k \in DOMAIN heard : Ends(heard[k])

-----------------------------------------------------------------------------
(***************************************************************************)
(* Project rules, and an exchange with an agent.                           *)
(***************************************************************************)

Paths == SeqOf(Components, MaxDepth)

Route ==
    /\ job = Nothing
    /\ \E rules \in SeqOf([path : Paths, agent : Agents], MaxRules), cwd \in Paths :
          job' = [of |-> "route", rules |-> rules, cwd |-> cwd]

\* default_agent_for returns the agent of the longest project path that contains
\* the working directory, the first of equals, whatever the order of the rules;
\* without such a rule there is no agent.
LongestPathRoutes ==
    job.of = "route" =>
        LET deciding == {k \in DOMAIN job.rules : Decides(job.rules, job.cwd, k)}
            agent == DefaultAgentFor(job.rules, job.cwd)
        IN IF \E k \in DOMAIN job.rules : Covers(job.rules[k].path, job.cwd)
           THEN deciding # {} /\ \A k \in deciding : agent = job.rules[k].agent
           ELSE agent = NoAgent

Exchange ==
    /\ job = Nothing
    /\ \E x \in HttpExchange \cup GrpcExchange : job' = [of |-> "exchange", x |-> x]

\* Silence leaves an execution UNCERTAIN, and so does an acceptance that says nothing
\* about the request; it is FAILED exactly when the agent refused, and DELIVERED
\* only by an acceptance that can be read.  The exceptions are the two kinds of
\* exchange the code judges without knowing: it takes every accepted stream for
\* delivered, and some failures for refusals.
OutcomesFitAnswers ==
    job.of = "exchange" =>
        LET x == job.x
            outcome == Outcome(x)
        IN /\ Silent(x) => outcome = "UNCERTAIN"
           /\ Unreadable(x) => outcome = "UNCERTAIN" \/ TakenForDelivered(x) \/ TakenForRefused(x)
           /\ Refused(x) => outcome = "FAILED" \/ TakenForDelivered(x)
           /\ outcome = "FAILED" => Refused(x) \/ TakenForRefused(x)
           /\ outcome = "DELIVERED" => Readable(x) \/ TakenForDelivered(x)

-----------------------------------------------------------------------------
(***************************************************************************)
(* A client's walk through a listing: it follows next_cursor until there   *)
(* is none, and rows may be added before each page.                        *)
(***************************************************************************)

List ==
    /\ job = Nothing
    /\ \E rows \in SUBSET (1..MaxId), limit \in 1..MaxId :
          job' = [of |-> "list", start |-> rows, rows |-> rows, limit |-> limit,
                  pages |-> <<>>, after |-> 0, more |-> TRUE]

NextPage ==
    /\ job.of = "list" /\ job.more
    /\ LET page == Page(job.rows, job.after, job.limit)
       IN job' = [job EXCEPT !.pages = Append(@, page.items), !.after = page.next, !.more = page.more]

AddRow ==
    /\ job.of = "list"
    /\ \E i \in (1..MaxId) \ job.rows : job' = [job EXCEPT !.rows = @ \cup {i}]

\* A client that follows next_cursor through a listing sees every row there was
\* when it started, once, in the order of the ids, though rows are added meanwhile;
\* every page but the last brings rows, and none brings more than asked for.
WalksAreComplete ==
    job.of = "list" =>
        /\ \A j, k \in DOMAIN job.pages :
              j < k => \A i \in job.pages[j], n \in job.pages[k] : i < n
        /\ ~job.more => job.start \subseteq UNION {job.pages[k] : k \in DOMAIN job.pages}
        /\ \A k \in DOMAIN job.pages :
              /\ job.pages[k] \subseteq job.rows /\ Cardinality(job.pages[k]) <= job.limit
              /\ k < Len(job.pages) \/ job.more => job.pages[k] # {}

-----------------------------------------------------------------------------
(***************************************************************************)
(* Opening the database, where the process may die between two steps.      *)
(***************************************************************************)

\* A new file, one of version 1, and one that a daemon opened before.
Databases ==
    LET Some(columns, remotes, version) ==
            {[tables |-> Tables, columns |-> columns, remote |-> remote, version |-> version] :
                remote \in UNION {[ids -> remotes] : ids \in SUBSET TaskIds}}
    IN {[tables |-> {}, columns |-> {}, remote |-> <<>>, version |-> 0]}
       \cup Some({}, {Null}, 1) \cup Some(NewColumns, TaskIds \cup {Null}, 2)

\* The remote ids the tasks of a file have: those of version 1 are their own.
RemoteIds(db) == IF db.version = 1 THEN [t \in DOMAIN db.remote |-> t] ELSE db.remote

Open ==
    /\ job = Nothing
    /\ \E db \in Databases :
          job' = [of |-> "open", db |-> db, step |-> 0, ids |-> RemoteIds(db)]

NextStep ==
    /\ job.of = "open" /\ job.step < Steps
    /\ job' = [job EXCEPT !.db = Step(@, job.step + 1), !.step = @ + 1]

\* The process ends, and the next one begins again.
Reopen ==
    /\ job.of = "open" /\ job.step > 0
    /\ job' = [job EXCEPT !.step = 0]

\* However often a start is cut short while it opens the database, the one that
\* ends finds it whole: the tasks of a version 1 file have their remote ids, and no
\* start gives one to an interaction that has none (a bare Message).
MigrationSurvivesCrashes ==
    job.of = "open" /\ job.step = Steps =>
        /\ job.db.tables = Tables /\ job.db.columns = NewColumns /\ job.db.version = 2
        /\ job.db.remote = job.ids

-----------------------------------------------------------------------------
(***************************************************************************)
(* An artifact that is saved under one name again and again.               *)
(***************************************************************************)

Artifact ==
    /\ job = Nothing
    /\ \E file \in {Null, "other"} :
          job' = [of |-> "save", was |-> file, file |-> file, ok |-> FALSE, torn |-> FALSE]

Save ==
    /\ job.of = "save"
    /\ \E fault \in Faults :
          LET done == Materialized(job.file, fault)
          IN job' = [job EXCEPT !.was = job.file, !.file = done.file, !.ok = done.ok,
                                !.torn = @ \/ fault \in Torn]

\* A file that was there is never touched; success means that this very call wrote
\* the whole file; an incomplete one stays only after a crash or when it could not
\* be removed, and then no later call claims it.
ArtifactsAreWhole ==
    job.of = "save" =>
        /\ job.was # Null => job.file = job.was
        /\ job.ok => job.file = "whole" /\ job.was = Null
        /\ job.file = "part" => job.torn

-----------------------------------------------------------------------------

Next ==
    \/ Listen \/ Chunk \/ Route \/ Exchange
    \/ List \/ NextPage \/ AddRow
    \/ Open \/ NextStep \/ Reopen
    \/ Artifact \/ Save

Spec == Init /\ [][Next]_job
=============================================================================
