-------------------------- MODULE AlgorithmProofs --------------------------
(***************************************************************************)
(* Theorems about Algorithms, for texts, rules, listings and databases of  *)
(* any size, any number of chunks, pages, interrupted starts and attempts. *)
(***************************************************************************)
EXTENDS Algorithms, NumberLemmas, FiniteSetTheorems, SequenceTheorems, TLAPS

-----------------------------------------------------------------------------
(***************************************************************************)
(* The jobs.                                                               *)
(***************************************************************************)

StreamState == [pending : Seq(Symbols), delivered : Seq(Seq(Symbols)), stopped : BOOLEAN]

StreamJobs == [of : {"stream"}, text : Seq(Symbols), stream : StreamState]
RouteJobs == [of : {"route"}, rules : Seq([path : Seq(Components), agent : Agents]),
              cwd : Seq(Components)]
ExchangeJobs == [of : {"exchange"}, x : HttpExchange \cup GrpcExchange]
ListJobs == [of : {"list"}, start : SUBSET (1..MaxId), rows : SUBSET (1..MaxId), limit : 1..MaxId,
             pages : Seq(SUBSET (1..MaxId)), after : 0..MaxId, more : BOOLEAN]
RemoteIdMaps == UNION {[ids -> TaskIds \cup {Null}] : ids \in SUBSET TaskIds}
OpenJobs == [of : {"open"}, db : Stored, step : 0..Steps, ids : RemoteIdMaps]
SaveJobs == [of : {"save"}, was : File, file : File, ok : BOOLEAN, torn : BOOLEAN]

Jobs == {Nothing} \cup StreamJobs \cup RouteJobs \cup ExchangeJobs \cup ListJobs \cup OpenJobs
        \cup SaveJobs

\* A job stays of its kind: what each kind of job comes from in a step.
LEMMA Kinds ==
  ASSUME [Next]_job,
         job \in Jobs
  PROVE  \/ job' = job
         \/ Listen /\ job'.of = "stream"
         \/ Route /\ job'.of = "route"
         \/ Exchange /\ job'.of = "exchange"
         \/ List /\ job'.of = "list"
         \/ Open /\ job'.of = "open"
         \/ Artifact /\ job'.of = "save"
         \/ Chunk /\ job \in StreamJobs /\ job'.of = "stream"
         \/ (NextPage \/ AddRow) /\ job \in ListJobs /\ job'.of = "list"
         \/ (NextStep \/ Reopen) /\ job \in OpenJobs /\ job'.of = "open"
         \/ Save /\ job \in SaveJobs /\ job'.of = "save"
<1> DEFINE Kind(of) == /\ of = "stream" => job \in StreamJobs
                       /\ of = "list" => job \in ListJobs
                       /\ of = "open" => job \in OpenJobs
                       /\ of = "save" => job \in SaveJobs
<1>1. Kind(job.of)
  BY DEF Jobs, Nothing, StreamJobs, RouteJobs, ExchangeJobs, ListJobs, OpenJobs, SaveJobs
<1>2. CASE Chunk
  BY <1>1, <1>2 DEF Chunk, StreamJobs
<1>3. CASE NextPage \/ AddRow
  BY <1>1, <1>3 DEF NextPage, AddRow, ListJobs
<1>4. CASE NextStep \/ Reopen
  BY <1>1, <1>4 DEF NextStep, Reopen, OpenJobs
<1>5. CASE Save
  <2>1. PICK fault \in Faults :
           job' = [job EXCEPT !.was = job.file, !.file = Materialized(job.file, fault).file,
                              !.ok = Materialized(job.file, fault).ok,
                              !.torn = job.torn \/ fault \in Torn]
    BY <1>5 DEF Save
  <2>2. job \in SaveJobs /\ job'.of = "save"
    BY <1>1, <1>5, <2>1 DEF Save, SaveJobs
  <2>3. QED
    BY <1>5, <2>2
<1>6. CASE Listen \/ Route \/ Exchange \/ List \/ Open \/ Artifact
  <2>1. Listen => job'.of = "stream"
    BY DEF Listen
  <2>2. Route => job'.of = "route"
    BY DEF Route
  <2>3. Exchange => job'.of = "exchange"
    BY DEF Exchange
  <2>4. List => job'.of = "list"
    BY DEF List
  <2>5. Open => job'.of = "open"
    BY DEF Open
  <2>6. Artifact => job'.of = "save"
    BY DEF Artifact
  <2>7. QED
    BY <1>6, <2>1, <2>2, <2>3, <2>4, <2>5, <2>6
<1>7. QED
  BY <1>2, <1>3, <1>4, <1>5, <1>6 DEF Next

-----------------------------------------------------------------------------
(***************************************************************************)
(* Artifacts and databases: what a step makes of a file and of a database. *)
(***************************************************************************)

\* What one attempt makes of a file, whatever goes wrong.
LEMMA MaterializedType ==
  ASSUME NEW file \in File, NEW fault \in Faults
  PROVE  /\ Materialized(file, fault) \in [file : File, ok : BOOLEAN]
         /\ file # Null => Materialized(file, fault) = [file |-> file, ok |-> FALSE]
         /\ file = Null /\ Materialized(file, fault).ok => Materialized(file, fault).file = "whole"
         /\ file = Null /\ Materialized(file, fault).file = "part" => fault \in Torn
  BY NullAssumption DEF Materialized, After, File, Faults, Early, Undone, Torn

\* A record with three of its four fields changed.
LEMMA Changed ==
  ASSUME NEW A, NEW B, NEW C, NEW D, NEW db \in [tables : A, columns : B, remote : C, version : D],
         NEW columns \in B, NEW remote \in C, NEW version \in D
  PROVE  [db EXCEPT !.columns = columns, !.remote = remote, !.version = version]
            \in [tables : A, columns : B, remote : C, version : D]
  OBVIOUS

\* A step of the start leaves a database.
LEMMA StepType ==
  ASSUME NEW db \in Stored, NEW n \in 1..Steps
  PROVE  Step(db, n) \in Stored
<1>1. db.tables \in SUBSET Tables /\ db.columns \in SUBSET NewColumns /\ db.version \in 0..2
  BY DEF Stored
<1>2. PICK ids \in SUBSET TaskIds : db.remote \in [ids -> TaskIds \cup {Null}]
  BY DEF Stored
<1>3. CASE n = Steps
  <2> DEFINE Maps == [ids -> TaskIds \cup {Null}]
             Columns == SUBSET NewColumns
             remote == IF "remote_task_id" \in db.columns THEN db.remote
                       ELSE [t \in DOMAIN db.remote |-> IF db.remote[t] = Null THEN t ELSE db.remote[t]]
             Whole == [tables : SUBSET Tables, columns : Columns, remote : Maps, version : 0..2]
  <2>1. remote \in Maps /\ NewColumns \in Columns /\ 2 \in 0..2
    BY <1>2
  <2>2. Migrated(db) = [db EXCEPT !.columns = NewColumns, !.remote = remote, !.version = 2]
    BY DEF Migrated
  <2>3. db \in Whole
    BY <1>2 DEF Stored
  <2>4. Whole \subseteq Stored
    BY DEF Stored
  <2> HIDE DEF remote, Maps, Columns
  <2>5. [db EXCEPT !.columns = NewColumns, !.remote = remote, !.version = 2] \in Whole
    BY <2>1, <2>3, Changed
  <2> HIDE DEF Whole
  <2>6. QED
    BY <1>3, <2>2, <2>4, <2>5 DEF Step
<1>4. CASE n # Steps
  <2>1. n \in 1..3 /\ Schema[n] \in Tables
    BY <1>4 DEF Steps, Schema, Tables
  <2>2. Create(db, Schema[n]).tables = db.tables \cup {Schema[n]}
    BY DEF Create, Stored
  <2>3. Create(db, Schema[n]) \in Stored
    BY <1>1, <1>2, <2>1 DEF Create, Stored, NewColumns
  <2>4. QED
    BY <1>4, <2>3 DEF Step
<1>5. QED
  BY <1>3, <1>4

\* How the remote ids of a file relate to those its tasks have: it has them (a file
\* that was migrated or created so), it is of version 1, or it has no tasks yet.
RemoteKept(db, ids) ==
    \/ db.columns = NewColumns /\ db.remote = ids
    \/ /\ db.columns = {} /\ db.tables = Tables
       /\ \A t \in DOMAIN db.remote : db.remote[t] = Null
       /\ ids = [t \in DOMAIN db.remote |-> t]
    \/ db.columns = {} /\ "tasks" \notin db.tables /\ db.remote = ids

\* The files that a start may find.
LEMMA DatabaseType ==
  ASSUME NEW db \in Databases
  PROVE  db \in Stored /\ RemoteIds(db) \in RemoteIdMaps /\ RemoteKept(db, RemoteIds(db))
<1> DEFINE Some(columns, remotes, version) ==
             {[tables |-> Tables, columns |-> columns, remote |-> remote, version |-> version] :
                remote \in UNION {[ids -> remotes] : ids \in SUBSET TaskIds}}
<1>1. CASE db = [tables |-> {}, columns |-> {}, remote |-> <<>>, version |-> 0]
  <2>1. <<>> \in [{} -> TaskIds \cup {Null}] /\ {} \in SUBSET TaskIds
    OBVIOUS
  <2>2. <<>> \in RemoteIdMaps
    BY <2>1 DEF RemoteIdMaps
  <2>3. db \in Stored
    BY <1>1, <2>1 DEF Stored
  <2>4. QED
    BY <1>1, <2>2, <2>3 DEF RemoteIds, RemoteKept
<1>2. CASE db \in Some({}, {Null}, 1)
  <2>0. PICK ids \in SUBSET TaskIds : \E remote \in [ids -> {Null}] :
           db = [tables |-> Tables, columns |-> {}, remote |-> remote, version |-> 1]
    BY <1>2
  <2>1. PICK remote \in [ids -> {Null}] :
           db = [tables |-> Tables, columns |-> {}, remote |-> remote, version |-> 1]
    BY <2>0
  <2>2. remote \in [ids -> TaskIds \cup {Null}] /\ DOMAIN remote = ids /\ \A t \in ids : remote[t] = Null
    BY <2>1
  <2>3. db \in Stored
    BY <2>1, <2>2 DEF Stored
  <2>4. RemoteIds(db) = [t \in ids |-> t]
    BY <2>1, <2>2 DEF RemoteIds
  <2>5. [t \in ids |-> t] \in RemoteIdMaps
    BY <2>1 DEF RemoteIdMaps
  <2>6. QED
    BY <2>1, <2>2, <2>3, <2>4, <2>5 DEF RemoteKept
<1>3. CASE db \in Some(NewColumns, TaskIds \cup {Null}, 2)
  <2>0. PICK ids \in SUBSET TaskIds : \E remote \in [ids -> TaskIds \cup {Null}] :
           db = [tables |-> Tables, columns |-> NewColumns, remote |-> remote, version |-> 2]
    BY <1>3
  <2>1. PICK remote \in [ids -> TaskIds \cup {Null}] :
           db = [tables |-> Tables, columns |-> NewColumns, remote |-> remote, version |-> 2]
    BY <2>0
  <2>2. db \in Stored
    BY <2>1 DEF Stored
  <2>3. RemoteIds(db) = remote /\ remote \in RemoteIdMaps
    BY <2>1 DEF RemoteIds, RemoteIdMaps
  <2>4. QED
    BY <2>1, <2>2, <2>3 DEF RemoteKept
<1>4. QED
  BY <1>1, <1>2, <1>3 DEF Databases

-----------------------------------------------------------------------------
(***************************************************************************)
(* Pages.                                                                  *)
(***************************************************************************)

\* The rows a page takes are the least of those it finds, at least one if there is
\* one, and at most limit.
LEMMA FirstOf ==
  ASSUME NEW n \in Nat, NEW ids \in SUBSET (1..n), NEW limit \in 1..n
  PROVE  /\ First(ids, limit) \in SUBSET ids
         /\ ids # {} => First(ids, limit) # {}
         /\ \A i \in ids \ First(ids, limit), k \in First(ids, limit) : k < i
         /\ Cardinality(First(ids, limit)) <= limit
<1> DEFINE Below(i) == {j \in ids : j < i}
           F == First(ids, limit)
<1>0. \A i \in ids : i \in Nat
  OBVIOUS
<1>1. IsFiniteSet(ids)
  <2>1. IsFiniteSet(1..n)
    BY FS_Interval
  <2>2. QED
    BY <2>1, FS_Subset
<1>2. \A i \in ids : IsFiniteSet(Below(i)) /\ Cardinality(Below(i)) \in Nat
  BY <1>1, FS_Subset, FS_CardinalityType
<1>3. F = {i \in ids : Cardinality(Below(i)) < limit}
  BY DEF First
<1>4. F \in SUBSET ids /\ \A i \in F : Cardinality(Below(i)) < limit
  BY <1>3
<1>5. ASSUME ids # {}
      PROVE  F # {}
  <2>1. PICK i \in ids : \A j \in ids : i <= j
    <3>1. ids \in SUBSET Nat
      BY <1>0
    <3>2. QED
      BY <1>5, <3>1, LeastNatural
  <2>2. \A j \in ids : ~(j < i)
    BY <1>0, <2>1
  <2>3. Cardinality(Below(i)) = 0
    <3>1. Below(i) = {}
      BY <2>2
    <3>2. QED
      BY <3>1, FS_EmptySet
  <2>4. QED
    BY <1>3, <2>3
<1>6. ASSUME NEW i \in ids \ F, NEW k \in F
      PROVE  k < i
  <2> SUFFICES ASSUME ~(k < i)
               PROVE  FALSE
    OBVIOUS
  <2>1. k \in ids
    BY <1>4
  <2>2. \A j \in ids : j < i => j < k
    BY <1>0, <2>1
  <2>3. Cardinality(Below(i)) <= Cardinality(Below(k))
    <3>1. Below(i) \subseteq Below(k)
      BY <2>2
    <3> HIDE DEF Below
    <3>2. QED
      BY <1>2, <2>1, <3>1, FS_Subset
  <2> HIDE DEF F, Below
  <2>4. Cardinality(Below(i)) \in Nat /\ Cardinality(Below(k)) \in Nat /\ Cardinality(Below(k)) < limit
    BY <1>2, <1>4, <2>1
  <2>5. Cardinality(Below(i)) < limit
    BY <2>3, <2>4
  <2>6. QED
    BY <1>3, <2>5
<1>7. Cardinality(F) <= limit
  <2>1. CASE F = {}
    BY <2>1, FS_EmptySet
  <2>2. CASE F # {}
    <3>1. PICK m \in F : \A j \in F : j <= m
      <4> HIDE DEF F
      <4>1. F \in SUBSET (1..n)
        BY <1>4
      <4>2. QED
        BY <2>2, <4>1, Greatest
    <3>2. m \in ids /\ Cardinality(Below(m)) < limit /\ Cardinality(Below(m)) \in Nat
      BY <1>2, <1>4
    <3>3. F \subseteq Below(m) \cup {m}
      <4>1. \A j \in F : j \in ids /\ (j < m \/ j = m)
        <5>1. \A j \in F : j \in Nat /\ j <= m /\ m \in Nat
          BY <1>0, <1>4, <3>1
        <5> HIDE DEF F
        <5>2. QED
          BY <1>4, <5>1
      <4> HIDE DEF F
      <4>2. QED
        BY <4>1
    <3> HIDE DEF F
    <3>4. /\ IsFiniteSet(Below(m) \cup {m})
          /\ Cardinality(Below(m) \cup {m}) = Cardinality(Below(m)) + 1
      <4>1. m \notin Below(m) /\ IsFiniteSet(Below(m))
        BY <1>2, <3>2
      <4> HIDE DEF Below
      <4>2. QED
        BY <4>1, FS_AddElement
    <3>5. Cardinality(F) <= Cardinality(Below(m) \cup {m}) /\ Cardinality(F) \in Nat
      <4>1. IsFiniteSet(F)
        BY <3>3, <3>4, FS_Subset, Zenon
      <4>2. QED
        BY <3>3, <3>4, <4>1, FS_Subset, FS_CardinalityType, Zenon
    <3>6. QED
      BY <3>2, <3>4, <3>5
  <2>3. QED
    BY <2>1, <2>2
<1>8. QED
  BY <1>4, <1>5, <1>6, <1>7

\* A page leaves out no row up to its cursor, and no row at all when it is the last.
LEMMA PageOf ==
  ASSUME NEW n \in Nat, NEW rows \in SUBSET (1..n), NEW after \in 0..n, NEW limit \in 1..n
  PROVE  LET page == Page(rows, after, limit)
         IN /\ page.items \in SUBSET rows /\ page.more \in BOOLEAN /\ page.next \in after..n
            /\ \A i \in page.items : after < i /\ i <= page.next
            /\ \A i \in rows : after < i /\ (i <= page.next \/ ~page.more) => i \in page.items
            /\ page.more => page.items # {}
            /\ Cardinality(page.items) <= limit
<1> DEFINE page == Page(rows, after, limit)
           found == {i \in rows : i > after}
           items == First(found, limit)
<1> SUFFICES /\ page.items \in SUBSET rows /\ page.more \in BOOLEAN /\ page.next \in after..n
             /\ \A i \in page.items : after < i /\ i <= page.next
             /\ \A i \in rows : after < i /\ (i <= page.next \/ ~page.more) => i \in page.items
             /\ page.more => page.items # {}
             /\ Cardinality(page.items) <= limit
  OBVIOUS
<1>1. found \in SUBSET (1..n)
  OBVIOUS
<1>2. /\ page.items = items /\ page.more = (items # found)
      /\ page.next = IF items = {} THEN after ELSE Max(items)
  BY DEF Page
<1> HIDE DEF page
<1>3. /\ items \in SUBSET found
      /\ found # {} => items # {}
      /\ \A i \in found \ items, k \in items : k < i
      /\ Cardinality(items) <= limit
  <2> HIDE DEF found
  <2>1. QED
    BY <1>1, FirstOf
<1> HIDE DEF items
<1>4. items \in SUBSET (1..n)
  BY <1>3
<1>5. CASE items = {}
  <2>1. found = {}
    BY <1>3, <1>5
  <2>2. page.items = {} /\ page.more = FALSE /\ page.next = after
    BY <1>2, <1>5, <2>1
  <2>3. \A i \in rows : ~(after < i)
    BY <2>1
  <2>4. QED
    BY <1>2, <1>3, <1>5, <2>2, <2>3
<1>6. CASE items # {}
  <2>1. \E m \in items : \A j \in items : m >= j
    BY <1>4, <1>6, Greatest
  <2>2. /\ Max(items) \in items
        /\ \A j \in items : Max(items) >= j
    BY <2>1 DEF Max
  <2>3. page.next \in items /\ \A j \in items : j <= page.next
    BY <1>2, <1>4, <1>6, <2>2
  <2>4. \A i \in items : after < i /\ i \in rows
    BY <1>3
  <2>5. ASSUME NEW i \in rows, after < i, i <= page.next \/ ~page.more
        PROVE  i \in items
    <3>1. i \in found
      BY <2>5
    <3>2. CASE ~page.more
      BY <1>2, <3>1, <3>2
    <3>3. CASE i <= page.next
      <4> SUFFICES ASSUME i \notin items
                   PROVE  FALSE
        OBVIOUS
      <4>1. page.next < i
        BY <1>3, <2>3, <3>1
      <4>2. page.next \in 1..n /\ i \in 1..n
        BY <1>4, <2>3
      <4>3. QED
        BY <3>3, <4>1, <4>2
    <3>4. QED
      BY ONLY <2>5, <3>2, <3>3
  <2>6. page.next \in after..n
    <3>1. page.next \in 1..n /\ after < page.next
      BY <1>4, <2>3, <2>4
    <3>2. QED
      BY <3>1
  <2>7. QED
    BY <1>2, <1>3, <1>6, <2>3, <2>4, <2>5, <2>6
<1>7. QED
  BY <1>5, <1>6

-----------------------------------------------------------------------------
(***************************************************************************)
(* The choice of a project's agent.                                        *)
(***************************************************************************)

Rules == [path : Seq(Components), agent : Agents]
Best == [size : Nat, agent : Agents \cup {NoAgent}]

\* A turn of the loop over the rules chooses one of them or keeps the best.
LEMMA ConsiderType ==
  ASSUME NEW cwd, NEW best \in Best, NEW rule \in Rules
  PROVE  Consider(cwd, best, rule) \in Best
<1>1. Len(rule.path) \in Nat /\ rule.agent \in Agents
  BY DEF Rules
<1>2. [size |-> Size(rule.path), agent |-> rule.agent] \in Best
  BY <1>1 DEF Best, Size
<1>3. QED
  BY <1>2 DEF Consider

\* What the loop over the rules computes.
LEMMA BestsLoop ==
  ASSUME NEW rules \in Seq(Rules), NEW cwd
  PROVE  /\ Bests(rules, cwd) \in [0..Len(rules) -> Best]
         /\ Bests(rules, cwd)[0] = NoRule
         /\ \A k \in 1..Len(rules) :
               Bests(rules, cwd)[k] = Consider(cwd, Bests(rules, cwd)[k - 1], rules[k])
<1> DEFINE n == Len(rules)
           turn == [kb \in (1..n) \X Best |-> Consider(cwd, kb[2], rules[kb[1]])]
           Is(f) == f = [k \in 0..n |-> IF k = 0 THEN NoRule ELSE Consider(cwd, f[k - 1], rules[k])]
           B == Bests(rules, cwd)
<1>1. n \in Nat /\ NoRule \in Best /\ \A k \in 1..n : rules[k] \in Rules
  BY DEF NoRule, Best
<1>2. turn \in [(1..n) \X Best -> Best]
  BY <1>1, ConsiderType
<1>3. PICK g \in [0..n -> Best] : g[0] = NoRule /\ \A k \in 1..n : g[k] = turn[<<k, g[k - 1]>>]
  <2> HIDE DEF n, turn
  <2>1. Loops(Best, n, NoRule, turn) # {}
    BY <1>1, <1>2, RecursionUpTo
  <2>2. QED
    BY <2>1 DEF Loops
<1>4. Is(g)
  <2>1. \A k \in 1..n : k - 1 \in 0..n
    BY <1>1
  <2>2. \A k \in 1..n : g[k] = Consider(cwd, g[k - 1], rules[k])
    BY <1>3, <2>1
  <2> HIDE DEF n, turn
  <2>3. \A k \in 0..n : g[k] = IF k = 0 THEN NoRule ELSE Consider(cwd, g[k - 1], rules[k])
    BY <1>1, <1>3, <2>2
  <2>4. QED
    BY <1>3, <2>3
<1>5. B = CHOOSE f : Is(f)
  BY DEF Bests
<1>6. Is(B)
  <2> HIDE DEF Is, B
  <2>1. QED
    BY <1>4, <1>5, Zenon
<1>7. B[0] = NoRule /\ \A k \in 1..n : B[k] = Consider(cwd, B[k - 1], rules[k])
  <2> HIDE DEF B
  <2>1. QED
    BY <1>1, <1>6
<1>8. \A k \in 0..n : B[k] \in Best
  <2> DEFINE P == {k \in 0..n : B[k] \in Best}
  <2>1. 0 \in P /\ P \in SUBSET (0..n)
    BY <1>1, <1>7
  <2>2. \A k \in 1..n : k - 1 \in P => k \in P
    BY <1>1, <1>7, ConsiderType
  <2>3. P = 0..n
    <3> HIDE DEF P, n, B
    <3>1. QED
      BY <1>1, <2>1, <2>2, InductionUpTo
  <2>4. QED
    BY <2>3
<1>9. QED
  BY <1>6, <1>7, <1>8

\* The loop keeps the first of the longest paths so far that contain cwd.
FirstLongest(rules, cwd, k, j) ==
    /\ Covers(rules[j].path, cwd)
    /\ \A i \in 1..k : Covers(rules[i].path, cwd) =>
          /\ Len(rules[i].path) <= Len(rules[j].path)
          /\ i < j => Len(rules[i].path) < Len(rules[j].path)

\* So the rule that is chosen in the end is the first of the longest, if one matches.
LEMMA BestIsFirstLongest ==
  ASSUME NEW rules \in Seq(Rules), NEW cwd
  PROVE  LET best == Bests(rules, cwd)[Len(rules)]
         IN \/ /\ \A i \in 1..Len(rules) : ~Covers(rules[i].path, cwd)
               /\ best = NoRule
            \/ \E j \in 1..Len(rules) : /\ FirstLongest(rules, cwd, Len(rules), j)
                                        /\ best.agent = rules[j].agent
<1> DEFINE n == Len(rules)
           B == Bests(rules, cwd)
           None(k) == (\A i \in 1..k : ~Covers(rules[i].path, cwd)) /\ B[k] = NoRule
           Some(k) == \E j \in 1..k : /\ FirstLongest(rules, cwd, k, j)
                                      /\ B[k] = [size |-> Size(rules[j].path), agent |-> rules[j].agent]
           P == {k \in 0..n : None(k) \/ Some(k)}
<1>1. n \in Nat /\ \A k \in 1..n : Len(rules[k].path) \in Nat
  BY DEF Rules
<1>2. B[0] = NoRule /\ \A k \in 1..n : B[k] = Consider(cwd, B[k - 1], rules[k])
  BY BestsLoop
<1> HIDE DEF B, n
<1>3. 0 \in P
  BY <1>1, <1>2
<1>4. ASSUME NEW k \in 1..n, k - 1 \in P
      PROVE  k \in P
  <2> DEFINE taken == [size |-> Size(rules[k].path), agent |-> rules[k].agent]
  <2>0. k \in Nat /\ Len(rules[k].path) \in Nat /\ \A i \in 1..k : i \in 1..n /\ (i # k => i \in 1..(k - 1))
    BY <1>1
  <2>1. CASE ~Covers(rules[k].path, cwd)
    <3>1. B[k] = B[k - 1]
      BY <1>2, <2>1 DEF Consider
    <3>2. CASE None(k - 1)
      BY <1>1, <2>0, <2>1, <3>1, <3>2
    <3>3. CASE Some(k - 1)
      <4>1. PICK j \in 1..(k - 1) :
                   /\ FirstLongest(rules, cwd, k - 1, j)
                   /\ B[k - 1] = [size |-> Size(rules[j].path), agent |-> rules[j].agent]
        BY <3>3
      <4>2. FirstLongest(rules, cwd, k, j)
        BY <2>0, <2>1, <4>1 DEF FirstLongest
      <4>3. QED
        BY <1>1, <3>1, <4>1, <4>2
    <3>4. QED
      BY <1>4, <3>2, <3>3
  <2>2. CASE Covers(rules[k].path, cwd)
    <3>1. CASE None(k - 1)
      <4>1. B[k - 1].size = 0
        BY <3>1 DEF NoRule
      <4>2. B[k] = taken
        BY <1>2, <2>0, <2>2, <4>1 DEF Consider, Size
      <4>3. FirstLongest(rules, cwd, k, k)
        BY <2>0, <2>2, <3>1 DEF FirstLongest
      <4>4. QED
        BY <1>1, <4>2, <4>3
    <3>2. CASE Some(k - 1)
      <4>1. PICK j \in 1..(k - 1) :
                   /\ FirstLongest(rules, cwd, k - 1, j)
                   /\ B[k - 1] = [size |-> Size(rules[j].path), agent |-> rules[j].agent]
        BY <3>2
      <4>2. B[k - 1].size = Len(rules[j].path) + 1 /\ j \in 1..n /\ j < k /\ Len(rules[j].path) \in Nat
        BY <1>1, <4>1 DEF Size
      <4>3. CASE Len(rules[k].path) > Len(rules[j].path)
        <5>1. B[k] = taken
          BY <1>2, <2>0, <2>2, <4>2, <4>3 DEF Consider, Size
        <5>2. \A i \in 1..(k - 1) : Covers(rules[i].path, cwd) => Len(rules[i].path) < Len(rules[k].path)
          <6> SUFFICES ASSUME NEW i \in 1..(k - 1), Covers(rules[i].path, cwd)
                       PROVE  Len(rules[i].path) < Len(rules[k].path)
            OBVIOUS
          <6>1. Len(rules[i].path) \in Nat
            BY <1>1, <2>0
          <6>2. Len(rules[i].path) <= Len(rules[j].path)
            BY <4>1 DEF FirstLongest
          <6>3. Len(rules[j].path) \in Nat /\ Len(rules[k].path) \in Nat
            BY <2>0, <4>2
          <6>4. \A a, b, c \in Nat : a <= b /\ c > b => a < c
            OBVIOUS
          <6>5. QED
            BY <4>3, <6>1, <6>2, <6>3, <6>4, Zenon
        <5>3. FirstLongest(rules, cwd, k, k)
          BY <2>0, <2>2, <5>2 DEF FirstLongest
        <5>4. QED
          BY <1>1, <5>1, <5>3
      <4>4. CASE ~(Len(rules[k].path) > Len(rules[j].path))
        <5>1. B[k] = B[k - 1]
          <6>1. ~(Size(rules[k].path) > B[k - 1].size)
            BY <2>0, <4>2, <4>4 DEF Size
          <6>2. QED
            BY <1>2, <6>1 DEF Consider
        <5>2. Len(rules[k].path) <= Len(rules[j].path) /\ ~(k < j)
          BY <2>0, <4>2, <4>4
        <5>3. FirstLongest(rules, cwd, k, j)
          BY <2>0, <4>1, <5>2 DEF FirstLongest
        <5>4. QED
          BY <1>1, <4>1, <5>1, <5>3
      <4>5. QED
        BY <4>3, <4>4
    <3>3. QED
      BY <1>4, <3>1, <3>2
  <2>3. QED
    BY <2>1, <2>2
<1>5. P = 0..n
  <2>1. P \in SUBSET (0..n)
    OBVIOUS
  <2> HIDE DEF P
  <2>2. QED
    BY <1>1, <1>3, <1>4, <2>1, InductionUpTo
<1>6. None(n) \/ Some(n)
  BY <1>1, <1>5
<1>7. CASE Some(n)
  <2>1. PICK j \in 1..n : /\ FirstLongest(rules, cwd, n, j)
                          /\ B[n] = [size |-> Size(rules[j].path), agent |-> rules[j].agent]
    BY <1>7
  <2>2. B[n].agent = rules[j].agent
    BY <2>1
  <2>3. QED
    BY <2>1, <2>2 DEF B, n
<1>8. QED
  BY <1>6, <1>7 DEF B, n

\* What LongestPathRoutes says of any rules and working directory.
LEMMA AgentOfLongest ==
  ASSUME NEW rules \in Seq(Rules), NEW cwd
  PROVE  LET deciding == {k \in DOMAIN rules : Decides(rules, cwd, k)}
             agent == DefaultAgentFor(rules, cwd)
         IN IF \E k \in DOMAIN rules : Covers(rules[k].path, cwd)
            THEN deciding # {} /\ \A k \in deciding : agent = rules[k].agent
            ELSE agent = NoAgent
<1>1. DOMAIN rules = 1..Len(rules) /\ Len(rules) \in Nat /\ \A k \in 1..Len(rules) : Len(rules[k].path) \in Nat
  BY DEF Rules
<1>2. \A k \in DOMAIN rules : Decides(rules, cwd, k) <=> FirstLongest(rules, cwd, Len(rules), k)
  BY <1>1 DEF Decides, FirstLongest
<1>3. DefaultAgentFor(rules, cwd) = Bests(rules, cwd)[Len(rules)].agent
  BY DEF DefaultAgentFor
<1>4. CASE \A i \in 1..Len(rules) : ~Covers(rules[i].path, cwd)
  <2>1. Bests(rules, cwd)[Len(rules)] = NoRule
    BY <1>4, BestIsFirstLongest DEF FirstLongest
  <2>2. DefaultAgentFor(rules, cwd) = NoAgent
    BY <1>3, <2>1 DEF NoRule
  <2>3. QED
    BY <1>1, <1>4, <2>2
<1>5. ASSUME NEW j \in 1..Len(rules), FirstLongest(rules, cwd, Len(rules), j),
             Bests(rules, cwd)[Len(rules)].agent = rules[j].agent
      PROVE  LET deciding == {k \in DOMAIN rules : Decides(rules, cwd, k)}
             IN /\ \E k \in DOMAIN rules : Covers(rules[k].path, cwd)
                /\ deciding # {} /\ \A k \in deciding : DefaultAgentFor(rules, cwd) = rules[k].agent
  <2>1. Covers(rules[j].path, cwd) /\ j \in DOMAIN rules /\ Decides(rules, cwd, j)
    BY <1>1, <1>2, <1>5 DEF FirstLongest
  <2>2. ASSUME NEW k \in DOMAIN rules, Decides(rules, cwd, k)
        PROVE  k = j
    <3>1. Covers(rules[k].path, cwd) /\ k \in Nat /\ j \in Nat
      BY <1>1, <2>2 DEF Decides
    <3>2. Len(rules[j].path) <= Len(rules[k].path) /\ (j < k => Len(rules[j].path) < Len(rules[k].path))
      BY <2>1, <2>2 DEF Decides
    <3>3. Len(rules[k].path) <= Len(rules[j].path) /\ (k < j => Len(rules[k].path) < Len(rules[j].path))
      BY <2>1, <2>2, <3>1 DEF Decides
    <3>4. Len(rules[k].path) \in Nat /\ Len(rules[j].path) \in Nat
      BY <1>1, <2>1
    <3>5. QED
      BY <3>1, <3>2, <3>3, <3>4
  <2>3. QED
    BY <1>3, <1>5, <2>1, <2>2
<1>6. QED
  BY <1>4, <1>5, BestIsFirstLongest

-----------------------------------------------------------------------------
(***************************************************************************)
(* The outcome of an exchange.                                             *)
(***************************************************************************)

Fits(x) ==
    /\ Silent(x) => Outcome(x) = "UNCERTAIN"
    /\ Unreadable(x) => Outcome(x) = "UNCERTAIN" \/ TakenForDelivered(x) \/ TakenForRefused(x)
    /\ Refused(x) => Outcome(x) = "FAILED" \/ TakenForDelivered(x)
    /\ Outcome(x) = "FAILED" => Refused(x) \/ TakenForRefused(x)
    /\ Outcome(x) = "DELIVERED" => Readable(x) \/ TakenForDelivered(x)

\* Calls of rpcCall keep clear of what only streams do.
Rpc(x) == ~Streamed(x)

\* What the client takes for an answer: the wire's faults, and a response.
LEMMA HttpAnswer ==
  ASSUME NEW x \in HttpExchange
  PROVE  LET r == Answer(x)
         IN /\ r.transport_error \in BOOLEAN /\ r.too_large \in BOOLEAN
            /\ r.transport_error <=> x.wire \in {"unsent", "cut"}
            /\ r.too_large <=> x.wire = "oversized"
            /\ x.wire = "answered" =>
                  /\ r.status = x.status
                  /\ x.binding = "JSONRPC" \/ x.status # "2xx" \/ x.body \in {"garbled"} \cup Results
                        => r.body = x.body
                  /\ x.binding = "HTTP+JSON" /\ x.status = "2xx" /\ x.body \notin {"garbled"} \cup Results
                        => r.body = "other"
<1>1. /\ x.binding \in {"JSONRPC", "HTTP+JSON"} /\ x.binding # "GRPC"
      /\ x.wire \in {"unsent", "cut", "oversized", "answered"}
  BY DEF HttpExchange
<1> DEFINE r == CurlRequest(x)
<1>0. /\ Answer(x) = r \/ Answer(x) = [r EXCEPT !.body = "other"]
      /\ r.transport_error \/ r.status # "2xx" \/ r.body \in {"garbled"} \cup Results
           \/ x.binding = "JSONRPC" => Answer(x) = r
      /\ ~(r.transport_error \/ r.status # "2xx" \/ r.body \in {"garbled"} \cup Results)
           /\ x.binding = "HTTP+JSON" => Answer(x) = [r EXCEPT !.body = "other"]
  <2> HIDE DEF r
  <2>1. x.binding = "JSONRPC" => Answer(x) = r
    BY <1>1 DEF Answer, r
  <2>2. x.binding = "HTTP+JSON" => Answer(x) = Wrapped(r)
    BY <1>1 DEF Answer, r
  <2>3. QED
    BY <1>1, <2>1, <2>2 DEF Wrapped
<1>2. CASE x.wire \in {"unsent", "cut"}
  <2>1. CurlRequest(x) = [transport_error |-> TRUE, too_large |-> FALSE, status |-> "none", body |-> "garbled"]
    BY <1>2 DEF CurlRequest, TransportError, Response
  <2>2. LET m == [CurlRequest(x) EXCEPT !.body = "other"]
        IN /\ m.transport_error = TRUE /\ m.too_large = FALSE /\ m.status = "none" /\ m.body = "other"
    BY <2>1
  <2>3. Answer(x).transport_error = TRUE /\ Answer(x).too_large = FALSE
    BY <1>0, <2>1, <2>2
  <2>4. QED
    BY <1>0, <1>1, <1>2, <2>1, <2>2, <2>3
<1>3. CASE x.wire = "oversized"
  <2>1. CurlRequest(x) = [transport_error |-> FALSE, too_large |-> TRUE, status |-> "none", body |-> "garbled"]
    BY <1>3 DEF CurlRequest, TooLarge, Response
  <2>2. LET m == [CurlRequest(x) EXCEPT !.body = "other"]
        IN /\ m.transport_error = FALSE /\ m.too_large = TRUE /\ m.status = "none" /\ m.body = "other"
    BY <2>1
  <2>3. Answer(x).transport_error = FALSE /\ Answer(x).too_large = TRUE
    BY <1>0, <2>1, <2>2
  <2>4. QED
    BY <1>0, <1>1, <1>3, <2>1, <2>2, <2>3
<1>4. CASE x.wire = "answered"
  <2>1. CurlRequest(x) = [transport_error |-> FALSE, too_large |-> FALSE, status |-> x.status, body |-> x.body]
    BY <1>4 DEF CurlRequest, Response
  <2>2. LET m == [CurlRequest(x) EXCEPT !.body = "other"]
        IN /\ m.transport_error = FALSE /\ m.too_large = FALSE /\ m.status = x.status /\ m.body = "other"
    BY <2>1
  <2>3. Answer(x).transport_error = FALSE /\ Answer(x).too_large = FALSE /\ Answer(x).status = x.status
    BY <1>0, <2>1, <2>2
  <2>4. /\ x.binding = "JSONRPC" \/ x.status # "2xx" \/ x.body \in {"garbled"} \cup Results
              => Answer(x).body = x.body
        /\ x.binding = "HTTP+JSON" /\ x.status = "2xx" /\ x.body \notin {"garbled"} \cup Results
              => Answer(x).body = "other"
    BY <1>0, <1>1, <2>1, <2>2
  <2>5. QED
    BY <1>0, <1>1, <1>4, <2>1, <2>2, <2>3, <2>4
<1>5. QED
  BY <1>1, <1>2, <1>3, <1>4

OutcomeOf(result) ==
    IF result.error_kind \in {"local_network", "malformed_response", "dispatch_exception"}
    THEN "UNCERTAIN" ELSE IF result.ok THEN "DELIVERED" ELSE "FAILED"

\* The outcome of each kind of JSON body.
LEMMA OutcomeOfResult ==
  ASSUME NEW method, NEW body \in Bodies \ {"garbled"}
  PROVE  LET outcome == OutcomeOf(ResultOf(method, body))
         IN /\ body \in {"task", "message", "list"} => outcome = "DELIVERED"
            /\ body = "other" => outcome = IF method \in ConfigMethods THEN "DELIVERED" ELSE "UNCERTAIN"
            /\ body = "error" => outcome = "FAILED"
            /\ body \in {"bare", "foreign", "empty", "badTask", "badMessage"} => outcome = "UNCERTAIN"
<1>1. /\ OutcomeOf(Ok) = "DELIVERED"
      /\ OutcomeOf(Error("protocol_error")) = "FAILED"
      /\ \A kind \in {"malformed_response", "dispatch_exception"} : OutcomeOf(Error(kind)) = "UNCERTAIN"
  BY DEF OutcomeOf, Ok, Error
<1>2. /\ body = "bare" => ResultOf(method, body) = Error("dispatch_exception")
      /\ body \in {"foreign", "empty", "badTask", "badMessage"} =>
            ResultOf(method, body) = Error("malformed_response")
      /\ body = "error" => ResultOf(method, body) = Error("protocol_error")
      /\ body \in {"task", "message", "list"} => ResultOf(method, body) = Ok
      /\ body = "other" => ResultOf(method, body) = IF method \in ConfigMethods THEN Ok
                                                    ELSE Error("malformed_response")
  BY DEF ResultOf
<1>3. QED
  BY <1>1, <1>2

\* JSON-RPC and REST.
LEMMA HttpFits ==
  ASSUME NEW x \in HttpExchange, Rpc(x)
  PROVE  Fits(x)
<1>1. /\ x.binding \in {"JSONRPC", "HTTP+JSON"} /\ x.binding # "GRPC"
      /\ x.wire \in {"unsent", "cut", "oversized", "answered"}
      /\ x.status \in {"2xx", "3xx", "401", "403", "4xx", "5xx"}
      /\ x.body \in Bodies
      /\ Arrived(x) <=> x.wire = "answered"
      /\ Classify(x) = RpcCall(x)
  BY DEF HttpExchange, Arrived, Classify, Rpc
<1>2. CASE x.wire # "answered"
  <2>1. Outcome(x) = "UNCERTAIN"
    BY <1>1, <1>2, HttpAnswer DEF Outcome, RpcCall, Error
  <2>2. ~Refused(x)
    BY <1>1, <1>2 DEF Refused
  <2>3. QED
    BY <2>1, <2>2 DEF Fits
<1>3. CASE x.wire = "answered" /\ x.status # "2xx"
  <2>1. Outcome(x) = "FAILED"
    BY <1>1, <1>3, HttpAnswer DEF Outcome, RpcCall, Error
  <2>2. /\ ~Silent(x) /\ ~Accepted(x) /\ ~Unreadable(x)
        /\ Refused(x) \/ TakenForRefused(x)
    BY <1>1, <1>3 DEF Silent, Accepted, Unreadable, Refused, TakenForRefused
  <2>3. QED
    BY <2>1, <2>2 DEF Fits
<1>4. CASE x.wire = "answered" /\ x.status = "2xx" /\ x.body = "garbled"
  <2>1. Outcome(x) = "UNCERTAIN"
    BY <1>1, <1>4, HttpAnswer DEF Outcome, RpcCall, Error
  <2>2. ~Refused(x)
    BY <1>1, <1>4 DEF Refused
  <2>3. QED
    BY <2>1, <2>2 DEF Fits
<1>5. CASE x.wire = "answered" /\ x.status = "2xx" /\ x.body # "garbled"
  <2>1. Answer(x).body \in Bodies /\ Answer(x).body # "garbled"
    BY <1>1, <1>5, HttpAnswer DEF Bodies, Results
  <2>2. Classify(x) = ResultOf(x.method, Answer(x).body)
    BY <1>1, <1>5, <2>1, HttpAnswer DEF RpcCall
  <2>3. LET body == Answer(x).body
        IN /\ body \in {"task", "message", "list"} => Outcome(x) = "DELIVERED"
           /\ body = "other" => Outcome(x) = IF x.method \in ConfigMethods THEN "DELIVERED" ELSE "UNCERTAIN"
           /\ body = "error" => Outcome(x) = "FAILED"
           /\ body \in {"bare", "foreign", "empty", "badTask", "badMessage"} => Outcome(x) = "UNCERTAIN"
    BY <2>1, <2>2, OutcomeOfResult DEF Outcome, OutcomeOf
  <2>4. /\ x.binding = "JSONRPC" => Answer(x).body = x.body
        /\ x.binding = "HTTP+JSON" => \/ Answer(x).body = x.body /\ x.body \in Results
                                      \/ Answer(x).body = "other" /\ x.body # "garbled"
    BY <1>1, <1>5, HttpAnswer
  <2>5. /\ Accepted(x) /\ ~Silent(x)
        /\ Unreadable(x) <=> x.binding = "JSONRPC" /\ x.body \in {"bare", "foreign"}
        /\ Refused(x) <=> x.binding = "JSONRPC" /\ x.body = "error"
    BY <1>1, <1>5 DEF Accepted, Silent, Unreadable, Refused
  <2>6. CASE Answer(x).body = x.body /\ x.binding = "JSONRPC"
    BY <1>1, <2>1, <2>3, <2>5, <2>6 DEF Fits, Readable, Bodies, Results
  <2>7. CASE Answer(x).body = "other" /\ x.binding = "HTTP+JSON"
    BY <1>1, <2>1, <2>3, <2>5, <2>7 DEF Fits, Readable
  <2>8. CASE Answer(x).body = x.body /\ x.body \in Results /\ x.binding = "HTTP+JSON"
    BY <1>1, <2>1, <2>3, <2>5, <2>8 DEF Fits, Readable, Results
  <2>9. QED
    BY <1>1, <2>4, <2>6, <2>7, <2>8
<1>6. QED
  BY <1>1, <1>2, <1>3, <1>4, <1>5

GrpcStatus ==
    {"OK", "UNENCODABLE", "UNDECODABLE", "UNAUTHENTICATED", "PERMISSION_DENIED",
     "NOT_FOUND", "INVALID_ARGUMENT", "FAILED_PRECONDITION", "UNIMPLEMENTED",
     "UNAVAILABLE", "DEADLINE_EXCEEDED", "INTERNAL", "RESOURCE_EXHAUSTED"}

\* gRPC.
LEMMA GrpcFits ==
  ASSUME NEW x \in GrpcExchange, Rpc(x)
  PROVE  Fits(x)
<1>1. /\ x.binding = "GRPC"
      /\ x.body \in {"task", "badTask", "message", "badMessage", "other"}
      /\ x.status \in GrpcStatus
      /\ Classify(x) = RpcCall(x)
  BY DEF GrpcExchange, GrpcStatus, Classify, Rpc
<1>2. Answer(x) = Wrapped(GrpcCall(x))
  BY <1>1 DEF Answer
<1>3. CASE x.status = "OK"
  <2>1. GrpcCall(x) = [transport_error |-> FALSE, too_large |-> FALSE, status |-> "2xx", body |-> x.body]
    BY <1>3 DEF GrpcCall, FromStatus, Response
  <2>2. Answer(x) = [transport_error |-> FALSE, too_large |-> FALSE, status |-> "2xx", body |-> x.body]
    BY <1>1, <1>2, <2>1 DEF Wrapped, Results
  <2>3. Classify(x) = ResultOf(x.method, x.body)
    BY <1>1, <2>2 DEF RpcCall
  <2>4. /\ x.body \in {"task", "message"} => Outcome(x) = "DELIVERED"
        /\ x.body = "other" => Outcome(x) = IF x.method \in ConfigMethods THEN "DELIVERED" ELSE "UNCERTAIN"
        /\ x.body \in {"badTask", "badMessage"} => Outcome(x) = "UNCERTAIN"
    <3>1. x.body \in Bodies \ {"garbled"}
      BY <1>1 DEF Bodies, Results
    <3>2. QED
      BY <2>3, <3>1, OutcomeOfResult DEF Outcome, OutcomeOf
  <2>5. Accepted(x) /\ ~Silent(x) /\ ~Unreadable(x) /\ ~Refused(x)
    BY <1>1, <1>3 DEF Accepted, Silent, Unreadable, Refused
  <2>6. QED
    BY <1>1, <1>3, <2>4, <2>5 DEF Fits, Readable
<1>4. CASE x.status \in {"UNAVAILABLE", "DEADLINE_EXCEEDED"}
  <2>1. GrpcCall(x) = [transport_error |-> TRUE, too_large |-> FALSE, status |-> "none", body |-> "garbled"]
    BY <1>4 DEF GrpcCall, FromStatus, TransportError, Response
  <2>2. Outcome(x) = "UNCERTAIN"
    BY <1>1, <1>2, <2>1 DEF Wrapped, Outcome, RpcCall, Error
  <2>3. ~Refused(x)
    BY <1>1, <1>4 DEF Refused
  <2>4. QED
    BY <2>2, <2>3 DEF Fits
<1>5. CASE x.status \notin {"OK", "UNAVAILABLE", "DEADLINE_EXCEEDED"}
  <2>1. /\ GrpcCall(x).transport_error = FALSE /\ GrpcCall(x).too_large = FALSE
        /\ GrpcCall(x).status \in {"401", "403", "4xx", "5xx"}
    BY <1>1, <1>5 DEF GrpcCall, FromStatus, Response, GrpcStatus
  <2>2. Outcome(x) = "FAILED"
    BY <1>1, <1>2, <2>1 DEF Wrapped, Outcome, RpcCall, Error
  <2>3. /\ ~Silent(x)
        /\ Refused(x) \/ TakenForRefused(x)
        /\ Unreadable(x) => TakenForRefused(x)
    BY <1>1, <1>5 DEF Silent, Unreadable, Refused, TakenForRefused, GrpcStatus, Rpc
  <2>4. QED
    BY <2>2, <2>3 DEF Fits
<1>6. QED
  BY <1>3, <1>4, <1>5

\* Streams, over any binding.
LEMMA StreamFits ==
  ASSUME NEW x \in HttpExchange \cup GrpcExchange, Streamed(x)
  PROVE  Fits(x)
<1> DEFINE r == StreamAnswer(x)
<1>1. Classify(x) = IF r.transport_error THEN Error("local_network")
                    ELSE IF r.status # "2xx" THEN Error("protocol_error") ELSE Ok
  BY DEF Classify, StreamCall
<1>2. /\ r.transport_error => Outcome(x) = "UNCERTAIN"
      /\ ~r.transport_error /\ r.status # "2xx" => Outcome(x) = "FAILED"
      /\ ~r.transport_error /\ r.status = "2xx" => Outcome(x) = "DELIVERED"
  <2> HIDE DEF r
  <2>1. /\ OutcomeOf(Ok) = "DELIVERED"
        /\ OutcomeOf(Error("protocol_error")) = "FAILED"
        /\ OutcomeOf(Error("local_network")) = "UNCERTAIN"
    BY DEF OutcomeOf, Ok, Error
  <2>2. Outcome(x) = OutcomeOf(Classify(x))
    BY DEF Outcome, OutcomeOf
  <2>3. QED
    BY <1>1, <2>1, <2>2
<1>3. /\ r.transport_error <=> Silent(x)
      /\ ~r.transport_error => (r.status = "2xx" <=> Accepted(x))
      /\ Silent(x) => ~Accepted(x) /\ ~Refused(x)
      /\ ~Silent(x) /\ ~Accepted(x) => Refused(x) \/ TakenForRefused(x)
  <2>1. CASE x \in HttpExchange
    <3>1. /\ x.binding # "GRPC" /\ x.wire \in {"unsent", "cut", "oversized", "answered"}
          /\ x.status \in {"2xx", "3xx", "401", "403", "4xx", "5xx"}
          /\ Arrived(x) <=> x.wire \notin {"unsent", "cut"}
      BY <2>1 DEF HttpExchange, Arrived
    <3>2. CASE x.wire \in {"unsent", "cut"}
      BY <3>1, <3>2 DEF StreamAnswer, TransportError, Response, Silent, Accepted, Refused
    <3>3. CASE x.wire \notin {"unsent", "cut"}
      BY <3>1, <3>3 DEF StreamAnswer, Response, Silent, Accepted, Refused, TakenForRefused
    <3>4. QED
      BY <3>2, <3>3
  <2>2. CASE x \in GrpcExchange
    <3>1. x.binding = "GRPC" /\ x.status \in GrpcStatus
      BY <2>2 DEF GrpcExchange, GrpcStatus
    <3>2. CASE x.status \in {"UNAVAILABLE", "DEADLINE_EXCEEDED"}
      <4>1. r = [transport_error |-> TRUE, too_large |-> FALSE, status |-> "none", body |-> "garbled"]
        BY <3>1, <3>2 DEF StreamAnswer, FromStatus, TransportError, Response
      <4>2. QED
        BY <3>1, <3>2, <4>1 DEF Silent, Accepted, Refused
    <3>3. CASE x.status \notin {"UNAVAILABLE", "DEADLINE_EXCEEDED"}
      <4>1. r.transport_error = FALSE /\ (r.status = "2xx" <=> x.status \in {"OK", "UNDECODABLE"})
        BY <3>1, <3>3 DEF StreamAnswer, FromStatus, Response, GrpcStatus
      <4>2. QED
        BY <3>1, <3>3, <4>1 DEF Silent, Accepted, Refused, TakenForRefused, GrpcStatus
    <3>4. QED
      BY <3>2, <3>3
  <2>3. QED
    BY <2>1, <2>2
<1>4. Unreadable(x) => Accepted(x)
  BY DEF Unreadable
<1> HIDE DEF r
<1>5. QED
  BY <1>2, <1>3, <1>4, Zenon DEF Fits, TakenForDelivered

-----------------------------------------------------------------------------
(***************************************************************************)
(* What a text says: its reading, piece by piece.                          *)
(***************************************************************************)

Said == [events : Seq(Seq(Symbols)), block : Seq(Symbols), begins : BOOLEAN]

\* A symbol makes a reading of a reading.
LEMMA SeenType ==
  ASSUME NEW said \in Said, NEW s \in Symbols
  PROVE  Seen(said, s) \in Said
<1>1. said.events \in Seq(Seq(Symbols)) /\ said.block \in Seq(Symbols) /\ said.begins \in BOOLEAN
  BY DEF Said
<1>2. Plus(said.events, said.block) \in Seq(Seq(Symbols))
  BY <1>1 DEF Plus
<1>3. CASE s = "CR"
  BY <1>3 DEF Seen
<1>4. CASE s = "LF"
  <2>1. CASE said.begins
    BY <1>2, <1>4, <2>1 DEF Seen, Said
  <2>2. CASE ~said.begins
    <3>1. [said EXCEPT !.begins = TRUE] \in Said
      BY DEF Said
    <3>2. QED
      BY <1>4, <2>2, <3>1 DEF Seen
  <2>3. QED
    BY <2>1, <2>2
<1>5. CASE s \notin {"CR", "LF"}
  <2> DEFINE block == IF IsData(s) /\ said.begins THEN Append(said.block, s) ELSE said.block
  <2>1. block \in Seq(Symbols)
    BY <1>1
  <2>2. Seen(said, s) = [events |-> said.events, begins |-> FALSE, block |-> block]
    BY <1>5 DEF Seen
  <2> HIDE DEF block
  <2>3. QED
    BY <1>1, <2>1, <2>2 DEF Said
<1>6. QED
  BY <1>3, <1>4, <1>5

\* The readings of the prefixes of a text.
ReadsOn(from, text, f) ==
    /\ f \in [0..Len(text) -> Said] /\ f[0] = from
    /\ \A k \in 1..Len(text) : f[k] = Seen(f[k - 1], text[k])

\* There is one, and it is what Reading computes.
LEMMA ReadingLoop ==
  ASSUME NEW from \in Said, NEW text \in Seq(Symbols)
  PROVE  \E f : ReadsOn(from, text, f) /\ Reading(from, text) = f[Len(text)]
<1> DEFINE n == Len(text)
           turn == [ks \in (1..n) \X Said |-> Seen(ks[2], text[ks[1]])]
           Is(f) == f = [k \in 0..n |-> IF k = 0 THEN from ELSE Seen(f[k - 1], text[k])]
           B == CHOOSE f : Is(f)
<1>1. n \in Nat /\ \A k \in 1..n : text[k] \in Symbols
  OBVIOUS
<1>2. turn \in [(1..n) \X Said -> Said]
  BY <1>1, SeenType
<1>3. PICK g \in [0..n -> Said] : g[0] = from /\ \A k \in 1..n : g[k] = turn[<<k, g[k - 1]>>]
  <2> HIDE DEF n, turn
  <2>1. Loops(Said, n, from, turn) # {}
    BY <1>1, <1>2, RecursionUpTo
  <2>2. QED
    BY <2>1 DEF Loops
<1>4. Is(g)
  <2>1. \A k \in 1..n : k - 1 \in 0..n
    BY <1>1
  <2>2. \A k \in 1..n : g[k] = Seen(g[k - 1], text[k])
    BY <1>3, <2>1
  <2> HIDE DEF n, turn
  <2>3. \A k \in 0..n : g[k] = IF k = 0 THEN from ELSE Seen(g[k - 1], text[k])
    BY <1>1, <1>3, <2>2
  <2>4. QED
    BY <1>3, <2>3
<1>5. Reading(from, text) = B[n]
  BY DEF Reading
<1> HIDE DEF B
<1>6. Is(B)
  <2> HIDE DEF Is
  <2>1. QED
    BY <1>4, Zenon DEF B
<1>7. B[0] = from /\ (\A k \in 1..n : B[k] = Seen(B[k - 1], text[k])) /\ B = [k \in 0..n |-> B[k]]
  BY <1>1, <1>6
<1>8. \A k \in 1..n : B[k - 1] \in Said => B[k] \in Said
  BY <1>1, <1>7, SeenType
<1>9. B \in [0..n -> Said]
  <2> HIDE DEF n, Is
  <2>1. QED
    BY <1>1, <1>7, <1>8, StaysIn
<1>10. QED
  BY <1>5, <1>7, <1>9 DEF ReadsOn

\* What has the readings of a text is its reading.
LEMMA ReadingIs ==
  ASSUME NEW from \in Said, NEW text \in Seq(Symbols), NEW f, ReadsOn(from, text, f)
  PROVE  Reading(from, text) = f[Len(text)] /\ Reading(from, text) \in Said
<1> DEFINE n == Len(text)
<1>1. PICK g : ReadsOn(from, text, g) /\ Reading(from, text) = g[n]
  BY ReadingLoop
<1>2. n \in Nat
  OBVIOUS
<1> DEFINE P == {k \in 0..n : f[k] = g[k]}
<1>3. 0 \in P /\ P \in SUBSET (0..n)
  BY <1>1, <1>2 DEF ReadsOn
<1>4. \A k \in 1..n : k - 1 \in P => k \in P
  BY <1>1, <1>2 DEF ReadsOn
<1>5. P = 0..n
  <2> HIDE DEF P, n
  <2>1. QED
    BY <1>2, <1>3, <1>4, InductionUpTo
<1>6. n \in P
  BY <1>2, <1>5
<1>7. QED
  BY <1>1, <1>2, <1>6 DEF ReadsOn

\* A reading of a text is a reading.
LEMMA ReadingType ==
  ASSUME NEW from \in Said, NEW text \in Seq(Symbols)
  PROVE  Reading(from, text) \in Said
  BY ReadingLoop, ReadingIs

\* A text is read piece by piece.
LEMMA ReadingConcat ==
  ASSUME NEW from \in Said, NEW t \in Seq(Symbols), NEW u \in Seq(Symbols)
  PROVE  Reading(from, t \o u) = Reading(Reading(from, t), u)
<1> DEFINE w == t \o u
           m == Len(t)
           n == Len(u)
<1>1. /\ w \in Seq(Symbols) /\ Len(w) = m + n /\ m \in Nat /\ n \in Nat
      /\ \A k \in 1..m : w[k] = t[k]
      /\ \A k \in 1..n : w[m + k] = u[k]
  OBVIOUS
<1> HIDE DEF w
<1>2. PICK f : ReadsOn(from, w, f) /\ Reading(from, w) = f[m + n]
  BY <1>1, ReadingLoop
<1>3. /\ f \in [0..(m + n) -> Said] /\ f[0] = from
      /\ \A k \in 1..(m + n) : f[k] = Seen(f[k - 1], w[k])
  BY <1>1, <1>2 DEF ReadsOn
<1> DEFINE g == [k \in 0..m |-> f[k]]
           h == [k \in 0..n |-> f[m + k]]
<1>4. ReadsOn(from, t, g)
  <2>1. g \in [0..m -> Said] /\ g[0] = from
    BY <1>1, <1>3
  <2>2. ASSUME NEW k \in 1..m
        PROVE  g[k] = Seen(g[k - 1], t[k])
    <3>1. k \in 1..(m + n) /\ k \in 0..m /\ k - 1 \in 0..m
      BY <1>1
    <3>2. QED
      BY <1>1, <1>3, <3>1
  <2> HIDE DEF g
  <2>3. QED
    BY <2>1, <2>2 DEF ReadsOn
<1>5. Reading(from, t) = f[m]
  BY <1>1, <1>4, ReadingIs
<1>6. ReadsOn(f[m], u, h)
  <2>1. h \in [0..n -> Said] /\ h[0] = f[m]
    <3>1. \A k \in 0..n : m + k \in 0..(m + n)
      BY <1>1
    <3>2. m + 0 = m /\ 0 \in 0..n
      BY <1>1
    <3>3. QED
      BY <1>3, <3>1, <3>2
  <2>2. ASSUME NEW k \in 1..n
        PROVE  h[k] = Seen(h[k - 1], u[k])
    <3>1. m + k \in 1..(m + n) /\ (m + k) - 1 = m + (k - 1) /\ k \in 0..n /\ k - 1 \in 0..n
      BY <1>1
    <3>2. f[m + k] = Seen(f[m + (k - 1)], u[k])
      BY <1>1, <1>3, <3>1
    <3>3. QED
      BY <3>1, <3>2
  <2> HIDE DEF h
  <2>3. QED
    BY <2>1, <2>2 DEF ReadsOn
<1>7. f[m] \in Said /\ h[n] = f[m + n]
  BY <1>1, <1>3
<1>8. Reading(f[m], u) = f[m + n]
  BY <1>6, <1>7, ReadingIs
<1>9. QED
  BY <1>2, <1>5, <1>8 DEF w

\* The shortest texts.
LEMMA ReadingShort ==
  ASSUME NEW from \in Said
  PROVE  /\ Reading(from, <<>>) = from
         /\ \A s \in Symbols : Reading(from, <<s>>) = Seen(from, s)
<1>1. Reading(from, <<>>) = from
  <2>1. PICK f : ReadsOn(from, <<>>, f) /\ Reading(from, <<>>) = f[Len(<<>>)]
    <3>1. <<>> \in Seq(Symbols)
      OBVIOUS
    <3>2. QED
      BY <3>1, ReadingLoop
  <2>2. QED
    BY <2>1 DEF ReadsOn
<1>2. ASSUME NEW s \in Symbols
      PROVE  Reading(from, <<s>>) = Seen(from, s)
  <2>1. <<s>> \in Seq(Symbols) /\ Len(<<s>>) = 1 /\ <<s>>[1] = s
    OBVIOUS
  <2>2. PICK f : ReadsOn(from, <<s>>, f) /\ Reading(from, <<s>>) = f[1]
    BY <2>1, ReadingLoop
  <2>3. f[0] = from /\ f[1] = Seen(f[1 - 1], <<s>>[1])
    BY <2>1, <2>2 DEF ReadsOn
  <2>4. QED
    BY <2>1, <2>2, <2>3
<1>3. QED
  BY <1>1, <1>2

\* One symbol more.
LEMMA ReadingAppend ==
  ASSUME NEW from \in Said, NEW t \in Seq(Symbols), NEW s \in Symbols
  PROVE  Reading(from, Append(t, s)) = Seen(Reading(from, t), s)
<1>1. Append(t, s) = t \o <<s>> /\ <<s>> \in Seq(Symbols)
  OBVIOUS
<1>2. Reading(from, t \o <<s>>) = Reading(Reading(from, t), <<s>>)
  BY <1>1, ReadingConcat
<1>3. QED
  BY <1>1, <1>2, ReadingShort, ReadingType

\* A prefix, element by element.
LEMMA PrefixIs ==
  ASSUME NEW X, NEW s \in Seq(X), NEW t \in Seq(X)
  PROVE  IsPrefix(s, t) <=> Len(s) <= Len(t) /\ \A i \in 1..Len(s) : s[i] = t[i]
<1>1. ASSUME Len(s) <= Len(t)
      PROVE  /\ SubSeq(s, 1, Len(s)) \in Seq(X) /\ SubSeq(t, 1, Len(s)) \in Seq(X)
             /\ Len(SubSeq(s, 1, Len(s))) = Len(s) /\ Len(SubSeq(t, 1, Len(s))) = Len(s)
             /\ \A i \in 1..Len(s) : SubSeq(s, 1, Len(s))[i] = s[i] /\ SubSeq(t, 1, Len(s))[i] = t[i]
  BY <1>1
<1>2. ASSUME IsPrefix(s, t)
      PROVE  Len(s) <= Len(t) /\ \A i \in 1..Len(s) : s[i] = t[i]
  BY <1>1, <1>2 DEF IsPrefix
<1>3. ASSUME Len(s) <= Len(t), \A i \in 1..Len(s) : s[i] = t[i]
      PROVE  IsPrefix(s, t)
  <2> DEFINE a == SubSeq(s, 1, Len(s))
             b == SubSeq(t, 1, Len(s))
  <2>1. a \in Seq(X) /\ b \in Seq(X) /\ Len(a) = Len(b) /\ \A i \in 1..Len(a) : a[i] = b[i]
    BY <1>1, <1>3
  <2> HIDE DEF a, b
  <2>2. a = b
    BY <2>1, SeqEqual
  <2>3. QED
    BY <1>3, <2>2 DEF IsPrefix, a, b
<1>4. QED
  BY <1>2, <1>3

\* More text takes no event back.
LEMMA EventsGrow ==
  ASSUME NEW from \in Said, NEW text \in Seq(Symbols)
  PROVE  IsPrefix(from.events, Reading(from, text).events)
<1> DEFINE n == Len(text)
           E == Seq(Symbols)
<1>1. PICK f : ReadsOn(from, text, f) /\ Reading(from, text) = f[n]
  BY ReadingLoop
<1>2. /\ n \in Nat /\ f[0] = from
      /\ \A k \in 0..n : f[k] \in Said /\ f[k].events \in Seq(E)
      /\ \A k \in 1..n : f[k] = Seen(f[k - 1], text[k])
  <2>1. \A said \in Said : said.events \in Seq(E)
    BY DEF Said
  <2>2. QED
    BY <1>1, <2>1 DEF ReadsOn
<1> DEFINE P == {k \in 0..n : IsPrefix(from.events, f[k].events)}
<1>3. from.events \in Seq(E)
  BY DEF Said
<1>4. 0 \in P /\ P \in SUBSET (0..n)
  BY <1>2, <1>3, PrefixIs
<1>5. ASSUME NEW k \in 1..n, k - 1 \in P
      PROVE  k \in P
  <2> DEFINE a == f[k - 1].events
             b == f[k].events
  <2>1. k - 1 \in 0..n /\ k \in 0..n /\ f[k - 1] \in Said /\ text[k] \in Symbols
    BY <1>2
  <2>2. a \in Seq(E) /\ b \in Seq(E)
    BY <1>2, <2>1
  <2>3. f[k] = Seen(f[k - 1], text[k])
    BY <1>2
  <2>4. b = a \/ \E block \in E : b = Append(a, block)
    <3>1. \A said \in Said : said.block \in E /\ [said EXCEPT !.begins = TRUE].events = said.events
      BY DEF Said
    <3>2. QED
      BY <2>1, <2>3, <3>1 DEF Seen, Plus
  <2>5. IsPrefix(from.events, a)
    BY <1>5
  <2> HIDE DEF a, b
  <2>6. IsPrefix(from.events, b)
    <3>1. Len(from.events) <= Len(a) /\ \A i \in 1..Len(from.events) : from.events[i] = a[i]
      BY <1>3, <2>2, <2>5, PrefixIs
    <3>2. Len(a) <= Len(b) /\ \A i \in 1..Len(a) : b[i] = a[i]
      <4>1. CASE b = a
        BY <2>2, <4>1
      <4>2. ASSUME NEW block \in E, b = Append(a, block)
            PROVE  Len(a) <= Len(b) /\ \A i \in 1..Len(a) : b[i] = a[i]
        BY <2>2, <4>2, AppendProperties
      <4>3. QED
        BY <2>4, <4>1, <4>2
    <3>3. Len(from.events) <= Len(b) /\ \A i \in 1..Len(from.events) : from.events[i] = b[i]
      BY <1>3, <2>2, <3>1, <3>2
    <3>4. QED
      BY <1>3, <2>2, <3>3, PrefixIs
  <2>7. QED
    BY <2>1, <2>6 DEF b
<1>6. P = 0..n
  <2> HIDE DEF P, n
  <2>1. QED
    BY <1>2, <1>4, <1>5, InductionUpTo
<1>7. n \in P
  BY <1>2, <1>6
<1>8. QED
  BY <1>1, <1>7

-----------------------------------------------------------------------------
(***************************************************************************)
(* Carriage returns.                                                       *)
(***************************************************************************)

\* Carriage returns say nothing: a text reads the same without them.
Plain == Symbols \ {"CR"}

\* By induction over the loop that erases them.
LEMMA UnixReads ==
  ASSUME NEW text \in Seq(Symbols)
  PROVE  /\ Unix(text) \in Seq(Plain)
         /\ \A from \in Said : Reading(from, Unix(text)) = Reading(from, text)
<1> DEFINE n == Len(text)
           V == Seq(Plain)
           Next1(kept, s) == IF s = "CR" THEN kept ELSE Append(kept, s)
           turn == [ks \in (1..n) \X V |-> Next1(ks[2], text[ks[1]])]
           Is(f) == f = [k \in 0..n |-> IF k = 0 THEN <<>> ELSE Next1(f[k - 1], text[k])]
           B == CHOOSE f : Is(f)
<1>1. n \in Nat /\ (\A k \in 1..n : text[k] \in Symbols) /\ <<>> \in V
  OBVIOUS
<1>2. \A kept \in V, s \in Symbols : Next1(kept, s) \in V
  BY DEF Plain
<1>3. turn \in [(1..n) \X V -> V]
  <2> HIDE DEF V, Next1
  <2>1. QED
    BY <1>1, <1>2
<1>4. PICK g \in [0..n -> V] : g[0] = <<>> /\ \A k \in 1..n : g[k] = turn[<<k, g[k - 1]>>]
  <2> HIDE DEF n, turn, V
  <2>1. Loops(V, n, <<>>, turn) # {}
    BY <1>1, <1>3, RecursionUpTo
  <2>2. QED
    BY <2>1 DEF Loops
<1>5. Is(g)
  <2>1. \A k \in 1..n : k - 1 \in 0..n
    BY <1>1
  <2> HIDE DEF V
  <2>2. \A k \in 1..n : g[k] = Next1(g[k - 1], text[k])
    BY <1>4, <2>1
  <2> HIDE DEF n, turn, Next1
  <2>3. \A k \in 0..n : g[k] = IF k = 0 THEN <<>> ELSE Next1(g[k - 1], text[k])
    BY <1>1, <1>4, <2>2
  <2>4. QED
    BY <1>4, <2>3
<1>6. Unix(text) = B[n]
  BY DEF Unix
<1> HIDE DEF B
<1>7. Is(B)
  <2> HIDE DEF Is
  <2>1. QED
    BY <1>5, Zenon DEF B
<1>8. B[0] = <<>> /\ (\A k \in 1..n : B[k] = Next1(B[k - 1], text[k])) /\ B = [k \in 0..n |-> B[k]]
  <2> DEFINE empty == <<>>
  <2>1. B = [k \in 0..n |-> IF k = 0 THEN empty ELSE Next1(B[k - 1], text[k])]
    BY <1>7
  <2> HIDE DEF n, Next1, empty
  <2>2. B[0] = empty /\ (\A k \in 1..n : B[k] = Next1(B[k - 1], text[k])) /\ B = [k \in 0..n |-> B[k]]
    <3>1. B[0] = empty
      BY <1>1, <2>1
    <3>2. \A k \in 1..n : B[k] = Next1(B[k - 1], text[k])
      BY <1>1, <2>1
    <3>3. B = [k \in 0..n |-> B[k]]
      BY <2>1
    <3>4. QED
      BY <3>1, <3>2, <3>3
  <2>3. QED
    BY <2>2 DEF empty
<1>9. B \in [0..n -> V]
  <2> HIDE DEF n, Is, V, Next1
  <2>1. \A k \in 1..n : B[k - 1] \in V => B[k] \in V
    BY <1>1, <1>2, <1>8
  <2>2. QED
    BY <1>1, <1>8, <2>1, StaysIn
<1>10. ASSUME NEW from \in Said
       PROVE  Reading(from, Unix(text)) = Reading(from, text)
  <2>1. PICK r : ReadsOn(from, text, r) /\ Reading(from, text) = r[n]
    BY ReadingLoop
  <2>2. /\ r[0] = from /\ r \in [0..n -> Said]
        /\ \A k \in 1..n : r[k] = Seen(r[k - 1], text[k])
    BY <2>1 DEF ReadsOn
  <2> DEFINE P == {k \in 0..n : Reading(from, B[k]) = r[k]}
  <2>3. 0 \in P /\ P \in SUBSET (0..n)
    BY <1>1, <1>8, <2>2, ReadingShort
  <2>4. ASSUME NEW k \in 1..n, k - 1 \in P
        PROVE  k \in P
    <3>1. /\ k \in 0..n /\ k - 1 \in 0..n /\ Reading(from, B[k - 1]) = r[k - 1]
          /\ text[k] \in Symbols /\ r[k] = Seen(r[k - 1], text[k])
      BY <1>1, <2>2, <2>4
    <3>2. B[k - 1] \in Seq(Symbols)
      BY <1>9, <3>1 DEF Plain
    <3>3. CASE text[k] = "CR"
      <4>1. B[k] = B[k - 1] /\ Seen(r[k - 1], text[k]) = r[k - 1]
        BY <1>8, <3>3 DEF Seen
      <4>2. QED
        BY <3>1, <4>1
    <3>4. CASE text[k] # "CR"
      <4>1. B[k] = Append(B[k - 1], text[k])
        BY <1>8, <3>4
      <4>2. Reading(from, B[k]) = Seen(r[k - 1], text[k])
        BY <3>1, <3>2, <4>1, ReadingAppend
      <4>3. QED
        BY <3>1, <4>2
    <3>5. QED
      BY <3>3, <3>4
  <2>5. P = 0..n
    <3> HIDE DEF P, n
    <3>1. QED
      BY <1>1, <2>3, <2>4, InductionUpTo
  <2>6. n \in P
    BY <1>1, <2>5
  <2>7. QED
    BY <1>6, <2>1, <2>6
<1>11. n \in 0..n
  BY <1>1
<1>12. QED
  BY <1>6, <1>9, <1>10, <1>11

-----------------------------------------------------------------------------
(***************************************************************************)
(* A block of lines.                                                       *)
(***************************************************************************)

\* The state in which the code looks at its buffer: no block is open.
At(events) == [events |-> events, block |-> <<>>, begins |-> TRUE]

\* Two readings with the same fields are the same.
LEMMA SaidEqual ==
  ASSUME NEW a \in Said, NEW b \in Said, a.events = b.events, a.block = b.block, a.begins = b.begins
  PROVE  a = b
  BY DEF Said

\* The data lines that the code takes from a block.
Gathered(block, data, k) ==
    IF IsData(block[k]) /\ (k = 1 \/ block[k - 1] = "LF") THEN Append(data, block[k]) ELSE data

\* What the loop over the lines of a block computes.
LEMMA DataLinesLoop ==
  ASSUME NEW p \in Seq(Symbols)
  PROVE  \E f \in [0..Len(p) -> Seq(Symbols)] :
            /\ f[0] = <<>> /\ DataLines(p) = f[Len(p)]
            /\ \A k \in 1..Len(p) : f[k] = Gathered(p, f[k - 1], k)
<1> DEFINE n == Len(p)
           V == Seq(Symbols)
           turn == [ks \in (1..n) \X V |-> Gathered(p, ks[2], ks[1])]
           Is(f) == f = [k \in 0..n |-> IF k = 0 THEN <<>> ELSE Gathered(p, f[k - 1], k)]
           B == CHOOSE f : Is(f)
<1>1. n \in Nat /\ (\A k \in 1..n : p[k] \in Symbols) /\ <<>> \in V
  OBVIOUS
<1>2. \A data \in V, k \in 1..n : Gathered(p, data, k) \in V
  BY <1>1 DEF Gathered
<1>3. turn \in [(1..n) \X V -> V]
  <2> HIDE DEF V
  <2>1. QED
    BY <1>1, <1>2
<1>4. PICK g \in [0..n -> V] : g[0] = <<>> /\ \A k \in 1..n : g[k] = turn[<<k, g[k - 1]>>]
  <2> HIDE DEF n, turn, V
  <2>1. Loops(V, n, <<>>, turn) # {}
    BY <1>1, <1>3, RecursionUpTo
  <2>2. QED
    BY <2>1 DEF Loops
<1>5. Is(g)
  <2>1. \A k \in 1..n : k - 1 \in 0..n
    BY <1>1
  <2> HIDE DEF V
  <2>2. \A k \in 1..n : g[k] = Gathered(p, g[k - 1], k)
    BY <1>4, <2>1
  <2> HIDE DEF n, turn
  <2>3. \A k \in 0..n : g[k] = IF k = 0 THEN <<>> ELSE Gathered(p, g[k - 1], k)
    BY <1>1, <1>4, <2>2
  <2>4. QED
    BY <1>4, <2>3
<1>6. DataLines(p) = B[n]
  BY DEF DataLines, Gathered
<1> HIDE DEF B
<1>7. Is(B)
  <2> HIDE DEF Is
  <2>1. QED
    BY <1>5, Zenon DEF B
<1>8. B[0] = <<>> /\ (\A k \in 1..n : B[k] = Gathered(p, B[k - 1], k)) /\ B = [k \in 0..n |-> B[k]]
  <2> HIDE DEF n
  <2>1. B[0] = <<>>
    BY <1>1, <1>7
  <2>2. \A k \in 1..n : B[k] = Gathered(p, B[k - 1], k)
    BY <1>1, <1>7
  <2>3. B = [k \in 0..n |-> B[k]]
    BY <1>7
  <2>4. QED
    BY <2>1, <2>2, <2>3
<1>9. B \in [0..n -> V]
  <2> HIDE DEF n, Is, V
  <2>1. \A k \in 1..n : B[k - 1] \in V => B[k] \in V
    BY <1>1, <1>2, <1>8
  <2>2. QED
    BY <1>1, <1>8, <2>1, StaysIn
<1>10. QED
  BY <1>6, <1>8, <1>9

\* A text without an empty line only opens a block, and the code finds the same data
\* lines in it.
LEMMA BlockReads ==
  ASSUME NEW events \in Seq(Seq(Symbols)), NEW p \in Seq(Plain), Boundaries(p) = {}
  PROVE  /\ DataLines(p) \in Seq(Symbols)
         /\ Reading(At(events), p) =
               [events |-> events, block |-> DataLines(p), begins |-> p = <<>> \/ p[Len(p)] = "LF"]
<1> DEFINE n == Len(p)
           begins(k) == k = 0 \/ p[k] = "LF"
<1>1. p \in Seq(Symbols) /\ n \in Nat /\ (\A k \in 1..n : p[k] \in Symbols /\ p[k] # "CR")
  BY DEF Plain
<1>2. PICK f \in [0..n -> Seq(Symbols)] :
            /\ f[0] = <<>> /\ DataLines(p) = f[n]
            /\ \A k \in 1..n : f[k] = Gathered(p, f[k - 1], k)
  BY <1>1, DataLinesLoop
<1>3. At(events) \in Said
  BY DEF At, Said
<1>4. PICK r : ReadsOn(At(events), p, r) /\ Reading(At(events), p) = r[n]
  BY <1>1, <1>3, ReadingLoop
<1>5. /\ r[0] = At(events) /\ r \in [0..n -> Said]
      /\ \A k \in 1..n : r[k] = Seen(r[k - 1], p[k])
  BY <1>4 DEF ReadsOn
<1>6. \A k \in 2..n : ~(p[k - 1] = "LF" /\ p[k] = "LF")
  <2> SUFFICES ASSUME NEW k \in 2..n, p[k - 1] = "LF", p[k] = "LF"
               PROVE  FALSE
    OBVIOUS
  <2>1. k - 1 \in 1..(n - 1) /\ (k - 1) + 1 = k
    BY <1>1
  <2>2. k - 1 \in Boundaries(p)
    BY <2>1 DEF Boundaries
  <2>3. QED
    BY <2>2
<1> DEFINE Same(k) == r[k].events = events /\ r[k].block = f[k] /\ (r[k].begins <=> begins(k))
           P == {k \in 0..n : Same(k)}
<1>7. 0 \in P /\ P \in SUBSET (0..n)
  <2>1. r[0].events = events /\ r[0].block = f[0] /\ r[0].begins
    BY <1>2, <1>5 DEF At
  <2>2. begins(0)
    OBVIOUS
  <2>3. QED
    BY <1>1, <2>1, <2>2
<1>8. ASSUME NEW k \in 1..n, k - 1 \in P
      PROVE  k \in P
  <2>1. /\ k - 1 \in 0..n /\ k \in 0..n /\ k # 0 /\ p[k] \in Symbols /\ p[k] # "CR"
        /\ r[k - 1] \in Said /\ r[k] = Seen(r[k - 1], p[k])
        /\ f[k] = Gathered(p, f[k - 1], k)
        /\ (k - 1 = 0) = (k = 1)
    BY <1>1, <1>2, <1>5
  <2>2. r[k - 1].events = events /\ r[k - 1].block = f[k - 1] /\ (r[k - 1].begins <=> begins(k - 1))
    BY <1>8
  <2> HIDE DEF n
  <2>3. CASE p[k] = "LF" /\ begins(k - 1)
    <3>1. k = 1
      BY <1>1, <1>6, <2>1, <2>3
    <3>2. f[0] = <<>> /\ f[1] = <<>> /\ r[0].block = <<>>
      BY <1>2, <2>1, <2>2, <2>3, <3>1 DEF Gathered, IsData
    <3>3. r[1] = [events |-> events, block |-> <<>>, begins |-> TRUE]
      BY <2>1, <2>2, <2>3, <3>1, <3>2 DEF Seen, Plus
    <3>4. begins(1)
      BY <2>3, <3>1
    <3>5. r[1].events = events /\ r[1].block = f[1] /\ (r[1].begins <=> begins(1))
      BY <3>2, <3>3, <3>4
    <3>6. QED
      BY <2>1, <3>1, <3>5
  <2>4. CASE p[k] = "LF" /\ ~begins(k - 1)
    <3>1. r[k] = [r[k - 1] EXCEPT !.begins = TRUE]
      BY <2>1, <2>2, <2>4 DEF Seen
    <3>2. r[k].events = r[k - 1].events /\ r[k].block = r[k - 1].block /\ r[k].begins = TRUE
      BY <2>1, <3>1 DEF Said
    <3>3. f[k] = f[k - 1]
      BY <2>1, <2>4 DEF Gathered, IsData
    <3>4. QED
      BY <2>1, <2>2, <2>4, <3>2, <3>3
  <2>5. CASE p[k] # "LF"
    <3> DEFINE block == IF IsData(p[k]) /\ r[k - 1].begins THEN Append(r[k - 1].block, p[k])
                        ELSE r[k - 1].block
    <3>1. r[k] = [events |-> r[k - 1].events, begins |-> FALSE, block |-> block]
      BY <2>1, <2>5 DEF Seen
    <3>2. block = f[k]
      BY <2>1, <2>2 DEF Gathered
    <3> HIDE DEF block
    <3>3. r[k].events = events /\ r[k].block = f[k] /\ r[k].begins = FALSE
      BY <2>2, <3>1, <3>2
    <3>4. QED
      BY <2>1, <2>5, <3>3
  <2>6. QED
    BY <2>3, <2>4, <2>5
<1>9. P = 0..n
  <2> HIDE DEF P, n
  <2>1. QED
    BY <1>1, <1>7, <1>8, InductionUpTo
<1>10. Same(n)
  BY <1>1, <1>9
<1>11. begins(n) <=> p = <<>> \/ p[Len(p)] = "LF"
  BY <1>1
<1>12. QED
  <2> DEFINE b == [events |-> events, block |-> DataLines(p), begins |-> p = <<>> \/ p[Len(p)] = "LF"]
  <2>1. b \in Said
    <3>1. DataLines(p) \in Seq(Symbols) /\ (p = <<>> \/ p[Len(p)] = "LF") \in BOOLEAN
      BY <1>1, <1>2
    <3>2. QED
      BY <3>1 DEF Said
  <2>2. r[n] = b
    <3>1. r[n] \in Said
      BY <1>1, <1>5
    <3>2. r[n].events = b.events /\ r[n].block = b.block
      BY <1>2, <1>10
    <3>3. r[n].begins = b.begins
      <4>1. r[n].begins \in BOOLEAN
        BY <3>1 DEF Said
      <4>2. QED
        BY <1>10, <1>11, <4>1
    <3> HIDE DEF b
    <3>4. QED
      BY <2>1, <3>1, <3>2, <3>3, SaidEqual
  <2>3. QED
    BY <1>1, <1>2, <1>4, <2>2

-----------------------------------------------------------------------------
(***************************************************************************)
(* The loop that takes events off the buffer.                              *)
(***************************************************************************)

\* What the loop holds: events handed over, and a rest without carriage returns.
Held == [events : Seq(Seq(Symbols)), rest : Seq(Plain)]

\* A turn of the loop moves what the text says from the rest to the events, and
\* takes something from the rest as long as there is an empty line in it.
LEMMA TurnReads ==
  ASSUME NEW held \in Held
  PROVE  /\ Turn(held) \in Held
         /\ Reading(At(Turn(held).events), Turn(held).rest) = Reading(At(held.events), held.rest)
         /\ \/ Boundaries(Turn(held).rest) = {} /\ Turn(held) = held
            \/ Len(Turn(held).rest) < Len(held.rest)
<1> DEFINE rest == held.rest
           events == held.events
           n == Len(rest)
<1>1. rest \in Seq(Plain) /\ events \in Seq(Seq(Symbols)) /\ n \in Nat
  BY DEF Held
<1>2. CASE Boundaries(rest) = {}
  <2>1. Turn(held) = held
    BY <1>2 DEF Turn
  <2>2. QED
    BY <1>2, <2>1
<1>3. CASE Boundaries(rest) # {}
  <2> DEFINE k == Min(Boundaries(rest))
             p == SubSeq(rest, 1, k - 1)
             q == SubSeq(rest, k + 2, n)
             next == Plus(events, DataLines(p))
  <2>1. k \in 1..(n - 1) /\ rest[k] = "LF" /\ rest[k + 1] = "LF" /\ \A j \in Boundaries(rest) : k <= j
    <3>1. Boundaries(rest) \in SUBSET Nat /\ Boundaries(rest) \in SUBSET (1..(n - 1))
      BY <1>1 DEF Boundaries
    <3>2. \E j \in Boundaries(rest) : \A i \in Boundaries(rest) : j <= i
      BY <1>3, <3>1, LeastNatural
    <3>3. k \in Boundaries(rest) /\ \A j \in Boundaries(rest) : k <= j
      BY <3>2 DEF Min
    <3> HIDE DEF k, n
    <3>4. QED
      BY <3>1, <3>3 DEF Boundaries
  <2>2. Turn(held) = [events |-> next, rest |-> q]
    BY <1>3 DEF Turn
  <2> HIDE DEF k
  <2>3. /\ p \in Seq(Plain) /\ Len(p) = k - 1 /\ \A j \in 1..(k - 1) : p[j] = rest[j]
        /\ q \in Seq(Plain) /\ Len(q) = n - (k + 1) /\ \A j \in 1..(n - (k + 1)) : q[j] = rest[j + (k + 1)]
    <3>1. 1 \in Int /\ k - 1 \in Int /\ k + 2 \in Int /\ n \in Int /\ 1 <= k /\ k + 2 <= n + 1
      BY <1>1, <2>1
    <3>2. \A j \in 1..(k - 1) : j \in 1..n
      BY <1>1, <2>1
    <3>3. \A j \in (k + 2)..n : j \in 1..n
      BY <1>1, <2>1
    <3> HIDE DEF rest
    <3>4. p \in Seq(Plain) /\ Len(p) = k - 1 /\ \A j \in 1..(k - 1) : p[j] = rest[j]
      BY <1>1, <2>1, <3>2
    <3>5. q \in Seq(Plain) /\ Len(q) = n - (k + 1) /\ \A j \in 1..(n - (k + 1)) : q[j] = rest[j + (k + 1)]
      BY <1>1, <2>1, <3>3
    <3>6. QED
      BY <3>4, <3>5
  <2>4. Boundaries(p) = {}
    <3> SUFFICES ASSUME NEW j \in Boundaries(p)
                 PROVE  FALSE
      OBVIOUS
    <3>1. j \in 1..(k - 2) /\ p[j] = "LF" /\ p[j + 1] = "LF"
      BY <2>1, <2>3 DEF Boundaries
    <3>2. j \in 1..(k - 1) /\ j + 1 \in 1..(k - 1) /\ j \in 1..(n - 1) /\ ~(k <= j)
      BY <1>1, <2>1, <3>1
    <3>3. j \in Boundaries(rest)
      BY <2>3, <3>1, <3>2 DEF Boundaries
    <3>4. QED
      BY <2>1, <3>2, <3>3
  <2>5. /\ DataLines(p) \in Seq(Symbols)
        /\ Reading(At(events), p) =
              [events |-> events, block |-> DataLines(p), begins |-> p = <<>> \/ p[Len(p)] = "LF"]
    BY <1>1, <2>3, <2>4, BlockReads
  <2>6. next \in Seq(Seq(Symbols))
    BY <1>1, <2>5 DEF Plus
  <2>7. Seen(Seen(Reading(At(events), p), "LF"), "LF") = At(next)
    <3>1. CASE p = <<>>
      <4>1. At(events) \in Said
        BY <1>1 DEF At, Said
      <4>2. DataLines(p) = <<>>
        <5>1. <<>> \in Seq(Symbols) /\ Len(<<>>) = 0
          OBVIOUS
        <5>2. QED
          BY <3>1, <5>1, DataLinesLoop
      <4>3. Seen(At(events), "LF") = At(events)
        BY DEF Seen, Plus, At
      <4>4. Seen(Reading(At(events), p), "LF") = At(events)
        <5>1. Reading(At(events), p) = At(events)
          BY <3>1, <4>1, ReadingShort
        <5>2. QED
          BY <4>3, <5>1
      <4>5. next = events
        BY <4>2 DEF Plus
      <4>6. QED
        BY <4>3, <4>4, <4>5
    <3>2. CASE p # <<>>
      <4>1. k - 1 \in 1..(k - 1) /\ k - 1 \in 1..(n - 1)
        BY <1>1, <2>1, <2>3, <3>2
      <4>2. p[k - 1] # "LF"
        <5> SUFFICES ASSUME rest[k - 1] = "LF"
                     PROVE  FALSE
          BY <2>3, <4>1
        <5>1. (k - 1) + 1 = k /\ ~(k <= k - 1)
          BY <2>1
        <5>2. k - 1 \in Boundaries(rest)
          BY <2>1, <4>1, <5>1 DEF Boundaries
        <5>3. QED
          BY <2>1, <5>1, <5>2
      <4>3. Reading(At(events), p) = [events |-> events, block |-> DataLines(p), begins |-> FALSE]
        BY <2>3, <2>5, <3>2, <4>2
      <4> DEFINE open == Reading(At(events), p)
                 closed == Seen(open, "LF")
      <4>4. closed = [open EXCEPT !.begins = TRUE]
        BY <4>3 DEF Seen
      <4> HIDE DEF closed
      <4>5. closed.events = events /\ closed.block = DataLines(p) /\ closed.begins
        BY <4>3, <4>4
      <4>6. Seen(closed, "LF") = [events |-> next, block |-> <<>>, begins |-> TRUE]
        BY <4>5 DEF Seen
      <4>7. QED
        BY <4>6 DEF closed, At
    <3>3. QED
      BY <3>1, <3>2
  <2>8. Reading(At(events), rest) = Reading(At(next), q)
    <3> DEFINE front == Append(Append(p, "LF"), "LF")
    <3>1. "LF" \in Symbols /\ p \in Seq(Symbols) /\ q \in Seq(Symbols) /\ At(events) \in Said
      BY <1>1, <2>3 DEF Symbols, Plain, At, Said
    <3>2. front \in Seq(Symbols) /\ Len(front) = k + 1
      BY <2>1, <2>3, <3>1
    <3>3. \A j \in 1..(k + 1) : front[j] = rest[j]
      <4> SUFFICES ASSUME NEW j \in 1..(k + 1)
                   PROVE  front[j] = rest[j]
        OBVIOUS
      <4>1. CASE j \in 1..(k - 1)
        BY <2>1, <2>3, <4>1
      <4>2. CASE j = k
        BY <2>1, <2>3, <4>2
      <4>3. CASE j = k + 1
        BY <2>1, <2>3, <4>3
      <4>4. QED
        BY <2>1, <4>1, <4>2, <4>3
    <3> HIDE DEF front, p, q
    <3>4. front \o q = rest
      <4>1. front \o q \in Seq(Symbols) /\ rest \in Seq(Symbols) /\ Len(front \o q) = n
        <5>1. Len(front \o q) = Len(front) + Len(q)
          BY <3>1, <3>2
        <5>2. (k + 1) + (n - (k + 1)) = n
          <6>1. k \in Int /\ n \in Int
            BY <1>1, <2>1
          <6>2. \A a, b \in Int : (a + 1) + (b - (a + 1)) = b
            OBVIOUS
          <6>3. QED
            BY <6>1, <6>2, Zenon
        <5>3. Len(front \o q) = n
          BY <2>3, <3>2, <5>1, <5>2
        <5>4. QED
          BY <1>1, <3>1, <3>2, <5>3 DEF Plain
      <4>2. \A j \in 1..n : (front \o q)[j] = rest[j]
        <5> SUFFICES ASSUME NEW j \in 1..n
                     PROVE  (front \o q)[j] = rest[j]
          OBVIOUS
        <5>1. CASE j \in 1..(k + 1)
          BY <3>1, <3>2, <3>3, <5>1
        <5>2. CASE j \notin 1..(k + 1)
          <6>1. j - (k + 1) \in 1..(n - (k + 1)) /\ (j - (k + 1)) + (k + 1) = j
            <7>1. j \in Int /\ k \in Int /\ n \in Int /\ j <= n /\ k + 1 < j
              BY <1>1, <2>1, <5>2
            <7>2. QED
              BY <7>1
          <6>2. (front \o q)[j] = q[j - (k + 1)]
            BY <2>1, <2>3, <3>1, <3>2, <5>2, <6>1
          <6>3. QED
            BY <2>3, <6>1, <6>2
        <5>3. QED
          BY <5>1, <5>2
      <4>3. QED
        BY <4>1, <4>2, SeqEqual
    <3>5. Reading(At(events), front) = At(next)
      <4>1. Append(p, "LF") \in Seq(Symbols)
        BY <3>1
      <4>2. QED
        BY <2>7, <3>1, <4>1, ReadingAppend DEF front
    <3>6. Reading(At(events), front \o q) = Reading(Reading(At(events), front), q)
      BY <3>1, <3>2, ReadingConcat
    <3>7. QED
      BY <3>4, <3>5, <3>6
  <2> HIDE DEF next, q
  <2>9. Turn(held).events = next /\ Turn(held).rest = q
    BY <2>2
  <2>10. Len(q) < n
    BY <1>1, <2>1, <2>3
  <2>11. Turn(held) \in Held
    BY <2>2, <2>3, <2>6 DEF Held
  <2>12. QED
    BY <2>8, <2>9, <2>10, <2>11
<1>4. QED
  BY <1>2, <1>3

\* The loop ends without an empty line in the rest, and what the text says is then
\* in the events.
LEMMA DrainedReads ==
  ASSUME NEW events \in Seq(Seq(Symbols)), NEW buffer \in Seq(Plain)
  PROVE  LET d == Drained(events, buffer)
         IN /\ d \in Held
            /\ Reading(At(d.events), d.rest) = Reading(At(events), buffer)
            /\ d.events = Reading(At(events), buffer).events
<1> DEFINE n == Len(buffer)
           first == [events |-> events, rest |-> buffer]
           turn == [ks \in (1..n) \X Held |-> Turn(ks[2])]
           Is(f) == f = [k \in 0..n |-> IF k = 0 THEN first ELSE Turn(f[k - 1])]
           B == CHOOSE f : Is(f)
           Says(held) == Reading(At(held.events), held.rest)
<1>1. n \in Nat /\ first \in Held /\ first.events = events /\ first.rest = buffer
  BY DEF Held
<1>2. turn \in [(1..n) \X Held -> Held]
  BY TurnReads
<1> HIDE DEF first
<1>3. PICK g \in [0..n -> Held] : g[0] = first /\ \A k \in 1..n : g[k] = turn[<<k, g[k - 1]>>]
  <2> HIDE DEF n, turn
  <2>1. Loops(Held, n, first, turn) # {}
    BY <1>1, <1>2, RecursionUpTo
  <2>2. QED
    BY <2>1 DEF Loops
<1>4. Is(g)
  <2>1. \A k \in 1..n : k - 1 \in 0..n
    BY <1>1
  <2>2. \A k \in 1..n : g[k] = Turn(g[k - 1])
    BY <1>3, <2>1
  <2> HIDE DEF n, turn
  <2>3. \A k \in 0..n : g[k] = IF k = 0 THEN first ELSE Turn(g[k - 1])
    BY <1>1, <1>3, <2>2
  <2>4. QED
    BY <1>3, <2>3
<1>5. Drained(events, buffer) = B[n]
  BY DEF Drained, first
<1> HIDE DEF B
<1>6. Is(B)
  <2> HIDE DEF Is
  <2>1. QED
    BY <1>4, Zenon DEF B
<1>7. B[0] = first /\ (\A k \in 1..n : B[k] = Turn(B[k - 1])) /\ B = [k \in 0..n |-> B[k]]
  <2> HIDE DEF n
  <2>1. B[0] = first
    BY <1>1, <1>6
  <2>2. \A k \in 1..n : B[k] = Turn(B[k - 1])
    BY <1>1, <1>6
  <2>3. B = [k \in 0..n |-> B[k]]
    BY <1>6
  <2>4. QED
    BY <2>1, <2>2, <2>3
<1>8. B \in [0..n -> Held]
  <2> HIDE DEF n, Is
  <2>1. \A k \in 1..n : B[k - 1] \in Held => B[k] \in Held
    BY <1>1, <1>7, TurnReads
  <2>2. QED
    BY <1>1, <1>7, <2>1, StaysIn
<1> DEFINE P == {k \in 0..n : /\ Says(B[k]) = Says(first)
                              /\ Boundaries(B[k].rest) = {} \/ Len(B[k].rest) + k <= n}
<1>9. 0 \in P /\ P \in SUBSET (0..n)
  BY <1>1, <1>7
<1>10. ASSUME NEW k \in 1..n, k - 1 \in P
       PROVE  k \in P
  <2>1. /\ k \in 0..n /\ k - 1 \in 0..n /\ B[k - 1] \in Held /\ B[k] \in Held
        /\ B[k] = Turn(B[k - 1]) /\ Says(B[k - 1]) = Says(first)
    <3>1. k \in 0..n /\ k - 1 \in 0..n
      BY <1>1
    <3>2. Says(B[k - 1]) = Says(first)
      BY <1>10
    <3> HIDE DEF n
    <3>3. QED
      BY <1>7, <1>8, <3>1, <3>2
  <2>2. Says(B[k]) = Says(first)
    BY <2>1, TurnReads
  <2>3. Len(B[k].rest) \in Nat /\ Len(B[k - 1].rest) \in Nat
    BY <2>1 DEF Held
  <2> HIDE DEF n, Says
  <2>4. CASE Boundaries(B[k - 1].rest) = {}
    <3>1. B[k] = B[k - 1]
      BY <2>1, <2>4 DEF Turn
    <3>2. QED
      BY <2>1, <2>2, <2>4, <3>1
  <2>5. CASE Boundaries(B[k - 1].rest) # {}
    <3>1. Len(B[k - 1].rest) + (k - 1) <= n
      BY <1>10, <2>5
    <3>2. Boundaries(B[k].rest) = {} \/ Len(B[k].rest) < Len(B[k - 1].rest)
      BY <2>1, TurnReads
    <3>3. \A a, b \in Nat : a < b /\ b + (k - 1) <= n => a + k <= n
      BY <1>1
    <3>4. Boundaries(B[k].rest) = {} \/ Len(B[k].rest) + k <= n
      BY <2>3, <3>1, <3>2, <3>3
    <3>5. QED
      BY <2>1, <2>2, <3>4
  <2>6. QED
    BY <2>4, <2>5
<1>11. P = 0..n
  <2> HIDE DEF P, n
  <2>1. QED
    BY <1>1, <1>9, <1>10, InductionUpTo
<1>12. n \in P /\ B[n] \in Held
  <2>1. n \in 0..n
    BY <1>1
  <2> HIDE DEF n, P
  <2>2. QED
    BY <1>8, <1>11, <2>1
<1>13. Boundaries(B[n].rest) = {}
  <2>1. B[n].rest \in Seq(Plain)
    BY <1>12 DEF Held
  <2>2. ASSUME Len(B[n].rest) + n <= n
        PROVE  Boundaries(B[n].rest) = {}
    <3>1. Len(B[n].rest) = 0
      BY <1>1, <2>1, <2>2
    <3>2. QED
      BY <3>1 DEF Boundaries
  <2>3. QED
    BY <1>12, <2>2
<1>14. Says(B[n]).events = B[n].events
  <2>1. B[n].rest \in Seq(Plain) /\ B[n].events \in Seq(Seq(Symbols))
    BY <1>12 DEF Held
  <2>2. QED
    BY <1>13, <2>1, BlockReads
<1>15. Says(B[n]) = Reading(At(events), buffer)
  BY <1>1, <1>12
<1>16. QED
  BY <1>5, <1>12, <1>14, <1>15

-----------------------------------------------------------------------------
(***************************************************************************)
(* What a client has heard.                                                *)
(***************************************************************************)

\* What a client has heard of a text: while it listens, all its events, and the rest of
\* the text waits in the buffer; once it has stopped, the events up to the end of a task.
Hears(stream, text) ==
    /\ IsPrefix(stream.delivered, EventsOf(text))
    /\ stream.stopped => \E k \in DOMAIN stream.delivered : Ends(stream.delivered[k])
    /\ ~stream.stopped => /\ Reading(Blank, text) = Reading(At(stream.delivered), stream.pending)
                          /\ stream.delivered = EventsOf(text)

\* The events of a text are sequences of its symbols.
LEMMA EventsType ==
  ASSUME NEW text \in Seq(Symbols)
  PROVE  Blank \in Said /\ Reading(Blank, text) \in Said /\ EventsOf(text) \in Seq(Seq(Symbols))
<1>1. Blank \in Said
  BY DEF Blank, Said
<1>2. Reading(Blank, text) \in Said
  BY <1>1, ReadingType
<1>3. QED
  BY <1>1, <1>2 DEF EventsOf, Said

\* Every sequence is a prefix of itself.
LEMMA PrefixSelf ==
  ASSUME NEW X, NEW s \in Seq(X)
  PROVE  IsPrefix(s, s)
  BY PrefixIs

\* A chunk leaves the client in a state.
LEMMA ConsumeType ==
  ASSUME NEW stream \in StreamState, NEW chunk \in Seq(Symbols)
  PROVE  Consume(stream, chunk) \in StreamState
<1> DEFINE buffer == stream.pending \o chunk
           d == Drained(stream.delivered, Unix(buffer))
<1>1. buffer \in Seq(Symbols) /\ stream.delivered \in Seq(Seq(Symbols))
  BY DEF StreamState
<1> HIDE DEF buffer
<1>2. Unix(buffer) \in Seq(Plain)
  BY <1>1, UnixReads
<1>3. d \in Held
  BY <1>1, <1>2, DrainedReads
<1> HIDE DEF d
<1>4. d.rest \in Seq(Symbols) /\ d.events \in Seq(Seq(Symbols))
  BY <1>3 DEF Held, Plain
<1>5. CASE stream.stopped
  BY <1>5 DEF Consume
<1>6. CASE ~stream.stopped
  <2> DEFINE ended == \E k \in DOMAIN d.events : Ends(d.events[k])
  <2>1. Consume(stream, chunk) = [pending |-> d.rest, delivered |-> d.events, stopped |-> ended]
    BY <1>6 DEF Consume, d, buffer
  <2>2. ended \in BOOLEAN
    OBVIOUS
  <2> HIDE DEF ended
  <2>3. QED
    BY <1>4, <2>1, <2>2 DEF StreamState
<1>7. QED
  BY <1>5, <1>6 DEF StreamState

\* Another chunk keeps what the client has heard in step with the text.
LEMMA ConsumeHears ==
  ASSUME NEW stream \in StreamState, NEW text \in Seq(Symbols), NEW chunk \in Seq(Symbols),
         Hears(stream, text)
  PROVE  Consume(stream, chunk) \in StreamState /\ Hears(Consume(stream, chunk), text \o chunk)
<1> DEFINE more == text \o chunk
<1>1. more \in Seq(Symbols) /\ stream.delivered \in Seq(Seq(Symbols)) /\ stream.pending \in Seq(Symbols)
  BY DEF StreamState
<1>2. Reading(Blank, more) = Reading(Reading(Blank, text), chunk)
  BY EventsType, ReadingConcat
<1> HIDE DEF more
<1>3. CASE stream.stopped
  <2>1. Consume(stream, chunk) = stream
    BY <1>3 DEF Consume
  <2>2. IsPrefix(EventsOf(text), EventsOf(more))
    BY <1>2, EventsType, EventsGrow DEF EventsOf
  <2>3. IsPrefix(stream.delivered, EventsOf(more))
    <3> DEFINE a == stream.delivered
               b == EventsOf(text)
               c == EventsOf(more)
               E == Seq(Symbols)
    <3>1. a \in Seq(E) /\ b \in Seq(E) /\ c \in Seq(E) /\ IsPrefix(a, b) /\ IsPrefix(b, c)
      BY <1>1, <2>2, EventsType DEF Hears
    <3> HIDE DEF a, b, c, E
    <3>2. Len(a) <= Len(b) /\ \A i \in 1..Len(a) : a[i] = b[i]
      BY <3>1, PrefixIs
    <3>3. Len(b) <= Len(c) /\ \A i \in 1..Len(b) : b[i] = c[i]
      BY <3>1, PrefixIs
    <3>4. Len(a) <= Len(c) /\ \A i \in 1..Len(a) : a[i] = c[i]
      BY <3>1, <3>2, <3>3
    <3>5. IsPrefix(a, c)
      BY <3>1, <3>4, PrefixIs
    <3>6. QED
      BY <3>5 DEF a, c
  <2>4. QED
    BY <1>3, <2>1, <2>3 DEF Hears, more
<1>4. CASE ~stream.stopped
  <2> DEFINE buffer == stream.pending \o chunk
             d == Drained(stream.delivered, Unix(buffer))
             ended == \E k \in DOMAIN d.events : Ends(d.events[k])
  <2>1. buffer \in Seq(Symbols) /\ At(stream.delivered) \in Said
    BY <1>1 DEF At, Said
  <2>2. Reading(Blank, more) = Reading(At(stream.delivered), buffer)
    <3>1. Reading(Blank, text) = Reading(At(stream.delivered), stream.pending)
      BY <1>4 DEF Hears
    <3>2. Reading(At(stream.delivered), buffer) = Reading(Reading(At(stream.delivered), stream.pending), chunk)
      BY <1>1, <2>1, ReadingConcat
    <3>3. QED
      BY <1>2, <3>1, <3>2
  <2> HIDE DEF buffer
  <2>3. Unix(buffer) \in Seq(Plain) /\ Reading(Blank, more) = Reading(At(stream.delivered), Unix(buffer))
    BY <2>1, <2>2, UnixReads
  <2>4. /\ d \in Held
        /\ Reading(Blank, more) = Reading(At(d.events), d.rest)
        /\ d.events = EventsOf(more)
    BY <1>1, <2>3, DrainedReads DEF EventsOf
  <2>5. Consume(stream, chunk) = [pending |-> d.rest, delivered |-> d.events, stopped |-> ended]
    BY <1>4 DEF Consume, buffer
  <2> HIDE DEF d
  <2>6. d.rest \in Seq(Symbols) /\ d.events \in Seq(Seq(Symbols)) /\ ended \in BOOLEAN
    BY <2>4 DEF Held, Plain
  <2>7. IsPrefix(d.events, EventsOf(more))
    BY <2>4, <2>6, PrefixSelf
  <2> HIDE DEF ended
  <2>8. Consume(stream, chunk) \in StreamState
    BY ConsumeType
  <2>9. Hears(Consume(stream, chunk), more)
    <3> DEFINE now == Consume(stream, chunk)
    <3>1. now.pending = d.rest /\ now.delivered = d.events /\ (now.stopped <=> ended)
      BY <2>5
    <3> HIDE DEF now
    <3>2. QED
      BY <2>4, <2>7, <3>1 DEF Hears, ended, now
  <2>10. QED
    BY <2>8, <2>9 DEF more
<1>5. QED
  BY <1>3, <1>4 DEF StreamState

-----------------------------------------------------------------------------
(***************************************************************************)
(* The theorems.                                                           *)
(***************************************************************************)

\* The kind of a job says what it consists of.
LEMMA JobOfKind ==
  ASSUME job \in Jobs
  PROVE  /\ job.of = "stream" => job \in StreamJobs
         /\ job.of = "route" => job \in RouteJobs
         /\ job.of = "exchange" => job \in ExchangeJobs
         /\ job.of = "list" => job \in ListJobs
         /\ job.of = "open" => job \in OpenJobs
         /\ job.of = "save" => job \in SaveJobs
  BY DEF Jobs, Nothing, StreamJobs, RouteJobs, ExchangeJobs, ListJobs, OpenJobs, SaveJobs

\* What arrives with a chunk.
LEMMA ChunkStep ==
  ASSUME Chunk, job \in StreamJobs
  PROVE  \E chunk \in Seq(Symbols) :
            /\ job'.of = "stream" /\ job'.text = job.text \o chunk
            /\ job'.stream = Consume(job.stream, chunk)
            /\ job' = [job EXCEPT !.text = job.text \o chunk, !.stream = Consume(job.stream, chunk)]
<1>1. PICK chunk \in SeqOf(Symbols, MaxText - Len(job.text)) :
         job' = [job EXCEPT !.text = job.text \o chunk, !.stream = Consume(job.stream, chunk)]
  BY DEF Chunk
<1>2. chunk \in Seq(Symbols)
  BY BoundsAssumption DEF SeqOf, StreamJobs
<1>3. QED
  BY <1>1, <1>2 DEF StreamJobs

\* What a page leaves of a walk.
LEMMA NextPageStep ==
  ASSUME NextPage, job \in ListJobs
  PROVE  \E page : /\ page = Page(job.rows, job.after, job.limit) /\ job.more
                   /\ job'.of = "list" /\ job'.start = job.start /\ job'.rows = job.rows
                   /\ job'.limit = job.limit /\ job'.pages = Append(job.pages, page.items)
                   /\ job'.after = page.next /\ job'.more = page.more
                   /\ job' = [job EXCEPT !.pages = Append(job.pages, page.items), !.after = page.next,
                                         !.more = page.more]
<1> DEFINE page == Page(job.rows, job.after, job.limit)
<1>1. job' = [job EXCEPT !.pages = Append(job.pages, page.items), !.after = page.next,
                         !.more = page.more] /\ job.more
  BY DEF NextPage
<1> HIDE DEF page
<1>2. /\ job'.of = "list" /\ job'.start = job.start /\ job'.rows = job.rows
      /\ job'.limit = job.limit /\ job'.pages = Append(job.pages, page.items)
      /\ job'.after = page.next /\ job'.more = page.more
  BY <1>1 DEF ListJobs
<1>3. QED
  BY <1>1, <1>2 DEF page

\* A listing with three of its fields changed.
LEMMA Walked ==
  ASSUME NEW A, NEW B, NEW C, NEW D, NEW E, NEW F, NEW G,
         NEW walk \in [of : A, start : B, rows : C, limit : D, pages : E, after : F, more : G],
         NEW pages \in E, NEW after \in F, NEW more \in G
  PROVE  [walk EXCEPT !.pages = pages, !.after = after, !.more = more]
            \in [of : A, start : B, rows : C, limit : D, pages : E, after : F, more : G]
  OBVIOUS

JobOK == job \in Jobs

\* The next job is one of those that there are.
LEMMA JobType ==
  /\ Init => JobOK
  /\ JobOK /\ [Next]_job => JobOK'
<1>1. ASSUME Init
      PROVE  job \in Jobs
  BY <1>1 DEF Init, Jobs
<1>2. ASSUME job \in Jobs, [Next]_job
      PROVE  job' \in Jobs
  <2>1. CASE job' = job
    BY <1>2, <2>1
  <2>2. CASE Listen
    <3>1. Fresh \in StreamState
      BY DEF Fresh, StreamState
    <3>2. job' \in StreamJobs
      BY <2>2, <3>1 DEF Listen, StreamJobs
    <3>3. QED
      BY <3>2 DEF Jobs
  <2>3. CASE Route
    <3>1. PICK rules \in SeqOf([path : Paths, agent : Agents], MaxRules), cwd \in Paths :
             job' = [of |-> "route", rules |-> rules, cwd |-> cwd]
      BY <2>3 DEF Route
    <3>2. \A x \in Paths : x \in Seq(Components)
      BY BoundsAssumption DEF Paths, SeqOf
    <3>3. rules \in Seq([path : Seq(Components), agent : Agents])
      <4>1. PICK m \in 0..MaxRules : rules \in [1..m -> [path : Paths, agent : Agents]]
        BY DEF SeqOf
      <4>2. \A k \in 1..m : rules[k] \in [path : Seq(Components), agent : Agents]
        BY <3>2, <4>1
      <4>3. m \in Nat
        BY BoundsAssumption
      <4>4. QED
        <5> DEFINE X == [path : Seq(Components), agent : Agents]
        <5>1. rules \in [1..m -> X]
          BY <4>1, <4>2
        <5> HIDE DEF X
        <5>2. rules \in Seq(X)
          BY <4>3, <5>1
        <5>3. QED
          BY <5>2 DEF X
    <3>4. job' \in RouteJobs
      BY <3>1, <3>2, <3>3 DEF RouteJobs
    <3>5. QED
      BY <3>4 DEF Jobs
  <2>4. CASE Exchange
    BY <2>4 DEF Exchange, ExchangeJobs, Jobs
  <2>5. CASE List
    <3>1. PICK rows \in SUBSET (1..MaxId), limit \in 1..MaxId :
             job' = [of |-> "list", start |-> rows, rows |-> rows, limit |-> limit,
                     pages |-> <<>>, after |-> 0, more |-> TRUE]
      BY <2>5 DEF List
    <3>2. 0 \in 0..MaxId /\ <<>> \in Seq(SUBSET (1..MaxId))
      BY BoundsAssumption
    <3>3. job' \in ListJobs
      BY <3>1, <3>2 DEF ListJobs
    <3>4. QED
      BY <3>3 DEF Jobs
  <2>6. CASE Open
    <3>1. PICK db \in Databases :
             job' = [of |-> "open", db |-> db, step |-> 0, ids |-> RemoteIds(db)]
      BY <2>6 DEF Open
    <3>2. db \in Stored /\ RemoteIds(db) \in RemoteIdMaps
      BY <3>1, DatabaseType
    <3>3. 0 \in 0..Steps
      BY DEF Steps, Schema
    <3>4. job' \in OpenJobs
      BY <3>1, <3>2, <3>3 DEF OpenJobs
    <3>5. QED
      BY <3>4 DEF Jobs
  <2>7. CASE Artifact
    <3>1. PICK file \in {Null, "other"} :
             job' = [of |-> "save", was |-> file, file |-> file, ok |-> FALSE, torn |-> FALSE]
      BY <2>7 DEF Artifact
    <3>2. job' \in SaveJobs
      BY <3>1 DEF SaveJobs, File
    <3>3. QED
      BY <3>2 DEF Jobs
  <2>8. CASE Chunk /\ job \in StreamJobs
    <3>1. PICK chunk \in Seq(Symbols) :
             job' = [job EXCEPT !.text = job.text \o chunk, !.stream = Consume(job.stream, chunk)]
      BY <2>8, ChunkStep
    <3>2. job.text \o chunk \in Seq(Symbols) /\ Consume(job.stream, chunk) \in StreamState
      BY <2>8, ConsumeType DEF StreamJobs
    <3>3. job' \in StreamJobs
      BY <2>8, <3>1, <3>2 DEF StreamJobs
    <3>4. QED
      BY <3>3 DEF Jobs
  <2>9. CASE NextPage /\ job \in ListJobs
    <3>1. PICK page : /\ page = Page(job.rows, job.after, job.limit)
                      /\ job' = [job EXCEPT !.pages = Append(job.pages, page.items), !.after = page.next,
                                            !.more = page.more]
      BY <2>9, NextPageStep
    <3>2. /\ job.rows \in SUBSET (1..MaxId) /\ job.after \in 0..MaxId /\ job.limit \in 1..MaxId
          /\ job.pages \in Seq(SUBSET (1..MaxId)) /\ MaxId \in Nat
      BY <2>9, BoundsAssumption DEF ListJobs
    <3>3. page.items \in SUBSET (1..MaxId) /\ page.more \in BOOLEAN /\ page.next \in 0..MaxId
      <4>1. /\ page.items \in SUBSET job.rows /\ page.more \in BOOLEAN
            /\ page.next \in job.after..MaxId
        BY <3>1, <3>2, PageOf
      <4>2. \A k \in job.after..MaxId : k \in 0..MaxId
        BY <3>2
      <4>3. QED
        BY <3>2, <4>1, <4>2
    <3>4. job' \in ListJobs
      <4>1. Append(job.pages, page.items) \in Seq(SUBSET (1..MaxId))
        BY <3>2, <3>3
      <4>2. QED
        BY <2>9, <3>1, <3>3, <4>1, Walked DEF ListJobs
    <3>5. QED
      BY <3>4 DEF Jobs
  <2>10. CASE AddRow /\ job \in ListJobs
    <3>1. job' \in ListJobs
      BY <2>10 DEF AddRow, ListJobs
    <3>2. QED
      BY <3>1 DEF Jobs
  <2>11. CASE NextStep /\ job \in OpenJobs
    <3>1. job.step + 1 \in 1..Steps /\ job.step + 1 \in 0..Steps /\ job.db \in Stored
      BY <2>11 DEF NextStep, OpenJobs, Steps, Schema
    <3>2. Step(job.db, job.step + 1) \in Stored
      BY <3>1, StepType
    <3>3. job' \in OpenJobs
      BY <2>11, <3>1, <3>2 DEF NextStep, OpenJobs
    <3>4. QED
      BY <3>3 DEF Jobs
  <2>12. CASE Reopen /\ job \in OpenJobs
    <3>1. job' \in OpenJobs
      BY <2>12 DEF Reopen, OpenJobs, Steps, Schema
    <3>2. QED
      BY <3>1 DEF Jobs
  <2>13. CASE Save /\ job \in SaveJobs
    <3>1. PICK fault \in Faults :
             job' = [job EXCEPT !.was = job.file, !.file = Materialized(job.file, fault).file,
                                !.ok = Materialized(job.file, fault).ok,
                                !.torn = job.torn \/ fault \in Torn]
      BY <2>13 DEF Save
    <3>2. /\ job.file \in File /\ Materialized(job.file, fault).file \in File
          /\ Materialized(job.file, fault).ok \in BOOLEAN /\ (job.torn \/ fault \in Torn) \in BOOLEAN
      BY <2>13, MaterializedType DEF SaveJobs
    <3>3. job' \in SaveJobs
      BY <2>13, <3>1, <3>2 DEF SaveJobs
    <3>4. QED
      BY <3>3 DEF Jobs
  <2>14. QED
    BY <1>2, <2>1, <2>2, <2>3, <2>4, <2>5, <2>6, <2>7, <2>8, <2>9, <2>10, <2>11, <2>12, <2>13, Kinds
<1>3. QED
  BY <1>1, <1>2 DEF JobOK

\* A behaviour has one job and keeps to it.
THEOREM JobsAreTyped == Spec => []JobOK
  BY JobType, PTL DEF Spec

\* Framing: a client hears what the text says.
FramingInv == job.of = "stream" => Hears(job.stream, job.text)

\* The invariant of framing: it holds of a client that has heard nothing, and every
\* chunk keeps it.
LEMMA FramingStep ==
  /\ Init => FramingInv
  /\ JobOK /\ FramingInv /\ [Next]_job => FramingInv'
  /\ JobOK /\ FramingInv => FramingIgnoresCuts
<1>1. ASSUME Init
      PROVE  FramingInv
  BY <1>1 DEF Init, Nothing, FramingInv
<1>2. ASSUME JobOK, FramingInv, [Next]_job
      PROVE  FramingInv'
  <2> SUFFICES ASSUME job'.of = "stream"
               PROVE  Hears(job'.stream, job'.text)
    BY DEF FramingInv
  <2>1. CASE job' = job
    BY <1>2, <2>1 DEF FramingInv
  <2>2. CASE Listen
    <3>1. job'.text = <<>> /\ job'.stream = Fresh
      BY <2>2 DEF Listen
    <3>2. <<>> \in Seq(Symbols) /\ <<>> \in Seq(Seq(Symbols)) /\ Blank \in Said
      BY DEF Blank, Said
    <3>3. Reading(Blank, <<>>) = Blank /\ EventsOf(<<>>) = <<>>
      BY <3>2, ReadingShort DEF EventsOf, Blank
    <3>4. Fresh.pending = <<>> /\ Fresh.delivered = <<>> /\ ~Fresh.stopped /\ At(<<>>) = Blank
      BY DEF Fresh, At, Blank
    <3>5. IsPrefix(<<>>, EventsOf(<<>>))
      BY <3>2, <3>3, PrefixSelf
    <3>6. Hears(Fresh, <<>>)
      BY <3>3, <3>4, <3>5 DEF Hears
    <3>7. QED
      BY <3>1, <3>6
  <2>3. CASE Chunk /\ job \in StreamJobs
    <3>1. PICK chunk \in Seq(Symbols) :
             job'.text = job.text \o chunk /\ job'.stream = Consume(job.stream, chunk)
      BY <2>3, ChunkStep
    <3>2. job.text \in Seq(Symbols) /\ job.stream \in StreamState /\ Hears(job.stream, job.text)
      BY <1>2, <2>3 DEF StreamJobs, FramingInv
    <3>3. QED
      BY <3>1, <3>2, ConsumeHears
  <2>4. QED
    BY <1>2, <2>1, <2>2, <2>3, Kinds DEF JobOK
<1>3. ASSUME JobOK, FramingInv
      PROVE  FramingIgnoresCuts
  BY <1>3 DEF FramingInv, FramingIgnoresCuts, Hears
<1>4. QED
  BY <1>1, <1>2, <1>3

\* However the body of a stream is cut into chunks, its events come whole and in order.
THEOREM FramingIsComplete == Spec => []FramingIgnoresCuts
  BY JobType, FramingStep, PTL DEF Spec

\* The agent of a project, for any rules in any order.
THEOREM LongestPathIsRouted == Spec => []LongestPathRoutes
<1>1. ASSUME JobOK
      PROVE  LongestPathRoutes
  <2> SUFFICES ASSUME job.of = "route"
               PROVE  LongestPathRoutes
    BY DEF LongestPathRoutes
  <2>1. job.rules \in Seq(Rules)
    BY <1>1, JobOfKind DEF JobOK, RouteJobs, Rules
  <2>2. QED
    BY <2>1, AgentOfLongest DEF LongestPathRoutes
<1>2. QED
  BY <1>1, JobType, PTL DEF Spec

\* The outcome of every exchange over any binding, streams included, but for the
\* accepted streams and the failures that the code judges without knowing.
THEOREM OutcomesAreJustified == Spec => []OutcomesFitAnswers
<1>1. ASSUME JobOK
      PROVE  OutcomesFitAnswers
  <2> SUFFICES ASSUME job.of = "exchange"
               PROVE  OutcomesFitAnswers
    BY DEF OutcomesFitAnswers
  <2>1. job.x \in HttpExchange \cup GrpcExchange
    BY <1>1, JobOfKind DEF JobOK, ExchangeJobs
  <2>2. Fits(job.x)
    BY <2>1, HttpFits, GrpcFits, StreamFits DEF Rpc
  <2>3. QED
    BY <2>2, Zenon DEF OutcomesFitAnswers, Fits
<1>2. QED
  BY <1>1, JobType, PTL DEF Spec

\* Listing: behind the cursor nothing is left out.
WalkInv ==
    job.of = "list" =>
        /\ WalksAreComplete
        /\ job.start \subseteq job.rows
        /\ \A k \in DOMAIN job.pages : \A i \in job.pages[k] : i <= job.after
        /\ \A i \in job.start :
              i <= job.after \/ ~job.more => \E k \in DOMAIN job.pages : i \in job.pages[k]

\* The invariant of a walk, and why rows added meanwhile do not break it: the cursor
\* only grows, and a page takes every row up to its cursor that there is.
LEMMA WalkStep ==
  /\ Init => WalkInv
  /\ JobOK /\ WalkInv /\ [Next]_job => WalkInv'
  /\ WalkInv => WalksAreComplete
<1>1. ASSUME Init
      PROVE  WalkInv
  BY <1>1 DEF Init, Nothing, WalkInv
<1>2. ASSUME JobOK, WalkInv, [Next]_job
      PROVE  WalkInv'
  <2> SUFFICES ASSUME job'.of = "list"
               PROVE  WalkInv'
    BY DEF WalkInv
  <2>1. CASE job' = job
    BY <1>2, <2>1 DEF WalkInv, WalksAreComplete
  <2>2. CASE List
    <3>1. PICK rows \in SUBSET (1..MaxId), limit \in 1..MaxId :
             job' = [of |-> "list", start |-> rows, rows |-> rows, limit |-> limit,
                     pages |-> <<>>, after |-> 0, more |-> TRUE]
      BY <2>2 DEF List
    <3>2. /\ job'.start = job'.rows /\ job'.pages = <<>> /\ job'.after = 0 /\ job'.more
          /\ job'.start \in SUBSET (1..MaxId)
      BY <3>1
    <3>3. \A i \in job'.start : ~(i <= 0)
      BY <3>2
    <3>4. QED
      BY <3>2, <3>3 DEF WalkInv, WalksAreComplete
  <2>3. CASE job \in ListJobs /\ (NextPage \/ AddRow)
    <3> DEFINE n == Len(job.pages)
    <3>1. /\ job.rows \in SUBSET (1..MaxId) /\ job.after \in 0..MaxId /\ job.limit \in 1..MaxId
          /\ job.pages \in Seq(SUBSET (1..MaxId)) /\ MaxId \in Nat
          /\ DOMAIN job.pages = 1..n /\ n \in Nat /\ job.of = "list"
          /\ job.start \in SUBSET (1..MaxId) /\ job.more \in BOOLEAN
      BY <2>3, BoundsAssumption DEF ListJobs
    <3>2. /\ \A j, k \in 1..n : j < k => \A i \in job.pages[j], m \in job.pages[k] : i < m
          /\ \A k \in 1..n :
              /\ job.pages[k] \subseteq job.rows /\ Cardinality(job.pages[k]) <= job.limit
              /\ k < n \/ job.more => job.pages[k] # {}
          /\ ~job.more => job.start \subseteq UNION {job.pages[k] : k \in 1..n}
      BY <1>2, <3>1 DEF WalkInv, WalksAreComplete
    <3>3. /\ job.start \subseteq job.rows
          /\ \A k \in 1..n : \A i \in job.pages[k] : i <= job.after
          /\ \A i \in job.start : i <= job.after \/ ~job.more => \E k \in 1..n : i \in job.pages[k]
      BY <1>2, <3>1 DEF WalkInv
    <3>4. CASE AddRow
      <4>1. PICK new \in (1..MaxId) \ job.rows : job' = [job EXCEPT !.rows = job.rows \cup {new}]
        BY <3>4 DEF AddRow
      <4>2. /\ job'.rows = job.rows \cup {new} /\ job'.start = job.start /\ job'.pages = job.pages
            /\ job'.after = job.after /\ job'.more = job.more /\ job'.limit = job.limit
        BY <2>3, <4>1 DEF ListJobs
      <4>3. WalksAreComplete'
        BY <3>1, <3>2, <4>2 DEF WalksAreComplete
      <4>4. QED
        BY <3>1, <3>3, <4>2, <4>3 DEF WalkInv
    <3>5. CASE NextPage
      <4>1. PICK page : /\ page = Page(job.rows, job.after, job.limit) /\ job.more
                        /\ job'.start = job.start /\ job'.rows = job.rows
                        /\ job'.limit = job.limit /\ job'.pages = Append(job.pages, page.items)
                        /\ job'.after = page.next /\ job'.more = page.more
        BY <2>3, <3>5, NextPageStep
      <4>2. /\ page.items \in SUBSET job.rows /\ page.more \in BOOLEAN /\ page.next \in job.after..MaxId
            /\ \A i \in page.items : job.after < i /\ i <= page.next
            /\ \A i \in job.rows : job.after < i /\ (i <= page.next \/ ~page.more) => i \in page.items
            /\ page.more => page.items # {}
            /\ Cardinality(page.items) <= job.limit
        <5> DEFINE rows == job.rows
                   after == job.after
                   limit == job.limit
        <5>1. rows \in SUBSET (1..MaxId) /\ after \in 0..MaxId /\ limit \in 1..MaxId /\ MaxId \in Nat
          BY <3>1
        <5>2. page = Page(rows, after, limit)
          BY <4>1
        <5> HIDE DEF rows, after, limit
        <5>3. /\ page.items \in SUBSET rows /\ page.more \in BOOLEAN /\ page.next \in after..MaxId
              /\ \A i \in page.items : after < i /\ i <= page.next
              /\ \A i \in rows : after < i /\ (i <= page.next \/ ~page.more) => i \in page.items
              /\ page.more => page.items # {}
              /\ Cardinality(page.items) <= limit
          BY <5>1, <5>2, PageOf
        <5>4. QED
          BY <5>3 DEF rows, after, limit
      <4>3. /\ DOMAIN job'.pages = 1..(n + 1) /\ Len(job'.pages) = n + 1
            /\ job'.pages[n + 1] = page.items
            /\ \A k \in 1..n : job'.pages[k] = job.pages[k]
            /\ \A k \in 1..(n + 1) : k = n + 1 \/ k \in 1..n
            /\ \A k \in 1..n : k \in 1..(n + 1) /\ k # n + 1
            /\ n + 1 \in 1..(n + 1)
        <5>1. page.items \in SUBSET (1..MaxId)
          BY <3>1, <4>2
        <5> DEFINE X == SUBSET (1..MaxId)
        <5> HIDE DEF X
        <5>2. Append(job.pages, page.items) \in Seq(X)
          BY <3>1, <5>1 DEF X
        <5>3. job.pages \in Seq(X) /\ page.items \in X
          BY <3>1, <5>1 DEF X
        <5>4. QED
          BY <3>1, <4>1, <5>2, <5>3
      <4> HIDE DEF n
      <4>4. \A i \in job.rows : i \in 1..MaxId
        BY <3>1
      <4>5. ASSUME NEW j \in 1..(n + 1), NEW k \in 1..(n + 1), j < k,
                   NEW i \in job'.pages[j], NEW m \in job'.pages[k]
            PROVE  i < m
        <5>1. j \in 1..n
          BY <3>1, <4>5
        <5>2. CASE k \in 1..n
          BY <3>2, <4>3, <4>5, <5>1, <5>2
        <5>3. CASE k = n + 1
          <6>1. i <= job.after /\ job.after < m
            BY <3>3, <4>2, <4>3, <4>5, <5>1, <5>3
          <6>2. i \in 1..MaxId /\ m \in 1..MaxId /\ job.after \in 0..MaxId
            BY <3>1, <3>2, <4>2, <4>3, <4>4, <4>5, <5>1, <5>3
          <6>3. QED
            BY <6>1, <6>2
        <5>4. QED
          BY <4>3, <5>2, <5>3
      <4>6. ASSUME NEW i \in job.start, i <= page.next \/ ~page.more
            PROVE  \E k \in 1..(n + 1) : i \in job'.pages[k]
        <5>1. i \in job.rows /\ i \in 1..MaxId
          BY <3>3, <4>4
        <5>2. CASE i <= job.after
          BY <3>3, <4>3, <5>2
        <5>3. CASE ~(i <= job.after)
          <6>1. job.after < i
            BY <3>1, <5>1, <5>3
          <6>2. i \in page.items
            BY <4>2, <4>6, <5>1, <6>1
          <6>3. QED
            BY <4>3, <6>2
        <5>4. QED
          BY <5>2, <5>3
      <4>7. ASSUME NEW k \in 1..(n + 1)
            PROVE  /\ job'.pages[k] \subseteq job'.rows /\ Cardinality(job'.pages[k]) <= job'.limit
                   /\ k < n + 1 \/ job'.more => job'.pages[k] # {}
                   /\ \A i \in job'.pages[k] : i <= job'.after
        <5>1. CASE k = n + 1
          BY <3>1, <4>1, <4>2, <4>3, <5>1
        <5>2. CASE k \in 1..n
          <6>1. ASSUME NEW i \in job.pages[k]
                PROVE  i <= page.next
            <7>1. i <= job.after /\ i \in 1..MaxId
              BY <3>2, <3>3, <4>4, <5>2
            <7>2. QED
              BY <3>1, <4>2, <7>1
          <6>2. QED
            BY <3>2, <4>1, <4>3, <5>2, <6>1
        <5>3. QED
          BY <4>3, <5>1, <5>2
      <4>8. WalksAreComplete'
        BY <4>1, <4>3, <4>5, <4>6, <4>7 DEF WalksAreComplete
      <4>9. QED
        BY <3>3, <4>1, <4>3, <4>6, <4>7, <4>8 DEF WalkInv
    <3>6. QED
      BY <2>3, <3>4, <3>5
  <2>4. QED
    BY <1>2, <2>1, <2>2, <2>3, Kinds DEF JobOK
<1>3. ASSUME WalkInv
      PROVE  WalksAreComplete
  BY <1>3 DEF WalkInv, WalksAreComplete
<1>4. QED
  BY <1>1, <1>2, <1>3

\* A walk through a listing that grows misses no row it started with.
THEOREM WalksMissNothing == Spec => []WalksAreComplete
  BY JobType, WalkStep, PTL DEF Spec

\* A step of the start keeps the remote ids that the tasks have.
LEMMA StepKeeps ==
  ASSUME NEW db \in Stored, NEW ids, NEW n \in 1..Steps, RemoteKept(db, ids),
         n = Steps => db.tables = Tables
  PROVE  /\ RemoteKept(Step(db, n), ids)
         /\ db.tables \subseteq Step(db, n).tables
         /\ n # Steps => Schema[n] \in Step(db, n).tables
         /\ n = Steps => Step(db, n).columns = NewColumns /\ Step(db, n).version = 2
<1> DEFINE next == Step(db, n)
<1>1. db.tables \in SUBSET Tables /\ db.columns \in SUBSET NewColumns
  BY DEF Stored
<1>2. "remote_task_id" \in NewColumns /\ "tasks" \in Tables
  BY DEF NewColumns, Tables
<1>3. CASE n = Steps
  <2> DEFINE remote == IF "remote_task_id" \in db.columns THEN db.remote
                       ELSE [t \in DOMAIN db.remote |-> IF db.remote[t] = Null THEN t ELSE db.remote[t]]
  <2>1. next = [db EXCEPT !.columns = NewColumns, !.remote = remote, !.version = 2]
    BY <1>3 DEF Step, Migrated
  <2> HIDE DEF next, remote
  <2>2. next.tables = db.tables /\ next.columns = NewColumns /\ next.remote = remote /\ next.version = 2
    BY <2>1 DEF Stored
  <2>3. CASE db.columns = NewColumns /\ db.remote = ids
    <3>1. remote = db.remote
      BY <1>2, <2>3 DEF remote
    <3>2. QED
      BY <1>3, <2>2, <2>3, <3>1 DEF RemoteKept, next
  <2>4. CASE /\ db.columns = {} /\ \A t \in DOMAIN db.remote : db.remote[t] = Null
             /\ ids = [t \in DOMAIN db.remote |-> t]
    <3>1. remote = [t \in DOMAIN db.remote |-> IF db.remote[t] = Null THEN t ELSE db.remote[t]]
      BY <2>4 DEF remote
    <3>2. remote = ids
      BY <2>4, <3>1
    <3>3. QED
      BY <1>3, <2>2, <3>2 DEF RemoteKept, next
  <2>5. QED
    BY <1>2, <1>3, <2>3, <2>4 DEF RemoteKept
<1>4. CASE n # Steps
  <2> DEFINE table == Schema[n]
             columns == IF table = "tasks" /\ table \notin db.tables THEN NewColumns ELSE db.columns
  <2>1. table \in Tables
    BY <1>4 DEF Steps, Schema, Tables
  <2>2. next = [db EXCEPT !.tables = db.tables \cup {table}, !.columns = columns]
    BY <1>4 DEF Step, Create
  <2> HIDE DEF next, table, columns
  <2>3. next.tables = db.tables \cup {table} /\ next.columns = columns /\ next.remote = db.remote
    BY <2>2 DEF Stored
  <2>4. RemoteKept(next, ids)
    <3>1. CASE db.columns = NewColumns /\ db.remote = ids
      BY <2>3, <3>1 DEF RemoteKept, columns
    <3>2. CASE /\ db.columns = {} /\ db.tables = Tables
               /\ \A t \in DOMAIN db.remote : db.remote[t] = Null
               /\ ids = [t \in DOMAIN db.remote |-> t]
      <4>1. columns = {} /\ next.tables = Tables
        BY <1>2, <2>1, <2>3, <3>2 DEF columns
      <4>2. QED
        BY <2>3, <3>2, <4>1 DEF RemoteKept
    <3>3. CASE db.columns = {} /\ "tasks" \notin db.tables /\ db.remote = ids
      <4>1. CASE table = "tasks"
        BY <2>3, <3>3, <4>1 DEF RemoteKept, columns
      <4>2. CASE table # "tasks"
        BY <2>3, <3>3, <4>2 DEF RemoteKept, columns
      <4>3. QED
        BY <4>1, <4>2
    <3>4. QED
      BY <3>1, <3>2, <3>3 DEF RemoteKept
  <2>5. QED
    BY <1>4, <2>3, <2>4 DEF next, table
<1>5. QED
  BY <1>3, <1>4

\* Opening: the tables of the steps so far are there, and the remote ids are kept.
MigrationInv ==
    job.of = "open" =>
        /\ RemoteKept(job.db, job.ids)
        /\ \A k \in 1..job.step : k <= Len(Schema) => Schema[k] \in job.db.tables
        /\ job.step = Steps => job.db.columns = NewColumns /\ job.db.version = 2

\* The invariant of a start: it holds of every file, after every step, and when a
\* start begins anew.
LEMMA MigrationStep ==
  /\ Init => MigrationInv
  /\ JobOK /\ MigrationInv /\ [Next]_job => MigrationInv'
  /\ JobOK /\ MigrationInv => MigrationSurvivesCrashes
<1>0. Steps = 4 /\ Len(Schema) = 3 /\ Tables = {Schema[1], Schema[2], Schema[3]}
  BY DEF Steps, Schema, Tables
<1>1. ASSUME Init
      PROVE  MigrationInv
  BY <1>1 DEF Init, Nothing, MigrationInv
<1>2. ASSUME JobOK, MigrationInv, [Next]_job
      PROVE  MigrationInv'
  <2> SUFFICES ASSUME job'.of = "open"
               PROVE  MigrationInv'
    BY DEF MigrationInv
  <2>1. CASE job' = job
    BY <1>2, <2>1 DEF MigrationInv
  <2>2. CASE Open
    <3>1. PICK db \in Databases : job' = [of |-> "open", db |-> db, step |-> 0, ids |-> RemoteIds(db)]
      BY <2>2 DEF Open
    <3>2. job'.db = db /\ job'.step = 0 /\ job'.ids = RemoteIds(db)
      BY <3>1
    <3>3. RemoteKept(db, RemoteIds(db))
      BY DatabaseType
    <3>4. QED
      BY <1>0, <3>2, <3>3 DEF MigrationInv
  <2>3. CASE job \in OpenJobs /\ (NextStep \/ Reopen)
    <3>1. /\ job.db \in Stored /\ job.step \in 0..Steps /\ job.of = "open"
          /\ RemoteKept(job.db, job.ids)
          /\ \A k \in 1..job.step : k <= Len(Schema) => Schema[k] \in job.db.tables
      BY <1>2, <2>3 DEF OpenJobs, MigrationInv
    <3>2. CASE Reopen
      <4>1. job'.db = job.db /\ job'.step = 0 /\ job'.ids = job.ids
        BY <2>3, <3>2 DEF Reopen, OpenJobs
      <4>2. QED
        BY <1>0, <3>1, <4>1 DEF MigrationInv
    <3>3. CASE NextStep
      <4> DEFINE n == job.step + 1
      <4>1. job' = [job EXCEPT !.db = Step(job.db, n), !.step = n] /\ job.step < Steps
        BY <3>3 DEF NextStep
      <4>2. job'.db = Step(job.db, n) /\ job'.step = n /\ job'.ids = job.ids
        BY <2>3, <4>1 DEF OpenJobs
      <4>3. n \in 1..Steps /\ \A k \in 1..n : k = n \/ k \in 1..job.step
        BY <1>0, <3>1, <4>1
      <4>4. n = Steps => job.db.tables = Tables
        <5> SUFFICES ASSUME n = Steps
                     PROVE  job.db.tables = Tables
          OBVIOUS
        <5>1. Schema[1] \in job.db.tables /\ Schema[2] \in job.db.tables /\ Schema[3] \in job.db.tables
          BY <1>0, <3>1
        <5>2. job.db.tables \in SUBSET Tables
          BY <3>1 DEF Stored
        <5>3. QED
          BY <1>0, <5>1, <5>2
      <4> HIDE DEF n
      <4>5. /\ RemoteKept(Step(job.db, n), job.ids)
            /\ job.db.tables \subseteq Step(job.db, n).tables
            /\ n # Steps => Schema[n] \in Step(job.db, n).tables
            /\ n = Steps => Step(job.db, n).columns = NewColumns /\ Step(job.db, n).version = 2
        BY <3>1, <4>3, <4>4, StepKeeps
      <4>6. \A k \in 1..n : k <= Len(Schema) => Schema[k] \in Step(job.db, n).tables
        <5> SUFFICES ASSUME NEW k \in 1..n, k <= Len(Schema)
                     PROVE  Schema[k] \in Step(job.db, n).tables
          OBVIOUS
        <5>1. CASE k = n
          BY <1>0, <4>5, <5>1
        <5>2. CASE k \in 1..job.step
          BY <3>1, <4>5, <5>2
        <5>3. QED
          BY <4>3, <5>1, <5>2
      <4>7. QED
        BY <4>2, <4>5, <4>6 DEF MigrationInv
    <3>4. QED
      BY <2>3, <3>2, <3>3
  <2>4. QED
    BY <1>2, <2>1, <2>2, <2>3, Kinds DEF JobOK
<1>3. ASSUME JobOK, MigrationInv
      PROVE  MigrationSurvivesCrashes
  <2> SUFFICES ASSUME job.of = "open", job.step = Steps
               PROVE  /\ job.db.tables = Tables /\ job.db.columns = NewColumns /\ job.db.version = 2
                      /\ job.db.remote = job.ids
    BY DEF MigrationSurvivesCrashes
  <2>1. /\ RemoteKept(job.db, job.ids)
        /\ \A k \in 1..4 : k <= 3 => Schema[k] \in job.db.tables
        /\ job.db.columns = NewColumns /\ job.db.version = 2
    BY <1>0, <1>3 DEF MigrationInv
  <2>2. job.db.tables \in SUBSET Tables
    BY <1>3, JobOfKind DEF JobOK, OpenJobs, Stored
  <2>3. Schema[1] \in job.db.tables /\ Schema[2] \in job.db.tables /\ Schema[3] \in job.db.tables
    BY <2>1
  <2>4. job.db.remote = job.ids
    BY <2>1 DEF RemoteKept, NewColumns
  <2>5. QED
    BY <1>0, <2>1, <2>2, <2>3, <2>4
<1>4. QED
  BY <1>1, <1>2, <1>3

\* However often a start is interrupted, the one that ends finds the database whole.
THEOREM InterruptedStartsMigrate == Spec => []MigrationSurvivesCrashes
  BY JobType, MigrationStep, PTL DEF Spec

\* ArtifactsAreWhole is inductive as it stands.
LEMMA SaveStep ==
  /\ Init => ArtifactsAreWhole
  /\ JobOK /\ ArtifactsAreWhole /\ [Next]_job => ArtifactsAreWhole'
<1>1. ASSUME Init
      PROVE  ArtifactsAreWhole
  BY <1>1 DEF Init, Nothing, ArtifactsAreWhole
<1>2. ASSUME JobOK, ArtifactsAreWhole, [Next]_job
      PROVE  ArtifactsAreWhole'
  <2> SUFFICES ASSUME job'.of = "save"
               PROVE  ArtifactsAreWhole'
    BY DEF ArtifactsAreWhole
  <2>1. CASE job' = job
    BY <1>2, <2>1 DEF ArtifactsAreWhole
  <2>2. CASE Artifact
    <3>1. PICK file \in {Null, "other"} :
             job' = [of |-> "save", was |-> file, file |-> file, ok |-> FALSE, torn |-> FALSE]
      BY <2>2 DEF Artifact
    <3>2. job'.was = file /\ job'.file = file /\ ~job'.ok /\ file # "part"
      BY <3>1, NullAssumption
    <3>3. QED
      BY <3>2 DEF ArtifactsAreWhole
  <2>3. CASE Save /\ job \in SaveJobs
    <3>1. PICK fault \in Faults :
             job' = [job EXCEPT !.was = job.file, !.file = Materialized(job.file, fault).file,
                                !.ok = Materialized(job.file, fault).ok,
                                !.torn = job.torn \/ fault \in Torn]
      BY <2>3 DEF Save
    <3> DEFINE done == Materialized(job.file, fault)
    <3>2. /\ job'.was = job.file /\ job'.file = done.file /\ (job'.ok <=> done.ok)
          /\ job'.torn <=> (job.torn \/ fault \in Torn)
      BY <2>3, <3>1 DEF SaveJobs
    <3>3. /\ job.file \in File /\ job.of = "save"
          /\ job.file # Null => done.file = job.file /\ ~done.ok
          /\ job.file = Null /\ done.ok => done.file = "whole"
          /\ job.file = Null /\ done.file = "part" => fault \in Torn
      BY <2>3, MaterializedType DEF SaveJobs
    <3>4. job.file = "part" => job.torn
      BY <1>2, <3>3 DEF ArtifactsAreWhole
    <3> HIDE DEF done
    <3>5. QED
      BY <3>2, <3>3, <3>4 DEF ArtifactsAreWhole
  <2>4. QED
    BY <1>2, <2>1, <2>2, <2>3, Kinds DEF JobOK
<1>3. QED
  BY <1>1, <1>2

\* Files that were there stay, and success means a whole file.
THEOREM ArtifactsStayWhole == Spec => []ArtifactsAreWhole
  BY JobType, SaveStep, PTL DEF Spec
=============================================================================
