----------------------------- MODULE QuizProofs ------------------------------
(***************************************************************************)
(* Theorems about QuizAgent, for every log, pool, model and pattern of     *)
(* failures.                                                               *)
(***************************************************************************)
EXTENDS QuizAgent, FiniteSetTheorems, TLAPS

-----------------------------------------------------------------------------
(* The service handles what it commits to the end.  CommittedIsAnswered is *)
(* not inductive: what Commit commits is what was read.  ReadInv says that *)
(* everything read is answered, but for what the broker refused and for    *)
(* the record in hand, whose tokens are sent before its completion.        *)

Busy == Phase \ {"idle", "down"}

Delivered(a) == TokensSent(a) /\ CompletionSent(a)

ReadInv ==
  /\ phase \in Phase
  /\ committed \in [Topic -> Nat] /\ position \in [Topic -> Nat]
  /\ \A t \in Topic : committed[t] <= position[t]
  /\ \A t \in Topic : \A k \in 1..committed[t] : Delivered(Log[t][k])
  /\ phase = "idle" => \A t \in Topic : \A k \in 1..position[t] : Delivered(Log[t][k])
  /\ phase \in Busy =>
       \A t \in Topic : \A k \in 1..position[t] : Log[t][k] = job \/ Delivered(Log[t][k])
  /\ phase = "complete" => TokensSent(job)

books == <<world, committed, position, job, output>>

\* A step inside the handling of a record, its last publish not included.
Inside ==
  /\ phase' = phase \/ (phase \in Busy /\ phase' \in Busy \ {"complete"})
  /\ UNCHANGED books

\* The steps of the pipeline touch neither offsets nor topics.
LEMMA PipelineIsInside ==
  ASSUME Start \/ Generate \/ Grade \/ Swot \/ Report
  PROVE  Inside \/ Raise
<1> USE DEF Inside, books, Busy, Phase, AgentPhase, Goto, reading, environment, output
<1>1. CASE Start
  BY <1>1 DEF Start, PublishFails
<1>2. CASE Input
  BY <1>2 DEF Input, Error
<1>3. CASE StemFails \/ StemBad \/ StemGood
  BY <1>3 DEF StemFails, StemBad, StemGood, Error
<1>4. ASSUME NEW i \in Stems, Task(i)  PROVE Inside
  BY <1>4 DEF Task, TaskStarts, TaskFails, TaskBad, TaskGood
<1>5. ASSUME NEW i \in Stems, Collect(i)  PROVE Inside
  BY <1>5 DEF Collect
<1>6. CASE LeavePool \/ Assemble
  BY <1>6 DEF LeavePool, Assemble, Error
<1>7. CASE Grade
  BY <1>7 DEF Grade, Error
<1>8. CASE Swot \/ Report
  BY <1>8 DEF Swot, Report, PublishFails
<1> QED
  BY <1>1, <1>2, <1>3, <1>4, <1>5, <1>6, <1>7, <1>8 DEF Generate

\* An exception ends the handling and leaves offsets and topics as they are.
LEMMA RaiseSpares ==
  ASSUME Raise
  PROVE  phase' = "down" /\ UNCHANGED <<world, committed, position, output>>
BY DEF Raise, Goto, reading, environment, output

LEMMA ReadInvStep ==
  ASSUME ReadInv, [Next]_vars
  PROVE  ReadInv'
<1> USE DEF ReadInv, Delivered, TokensSent, CompletionSent, output, Log, Busy, Phase, AgentPhase
<1>1. CASE Inside
  BY <1>1 DEF Inside, books
<1>2. CASE Raise
  BY <1>2, RaiseSpares
<1>3. ASSUME NEW t \in Topic, Poll(t)  PROVE ReadInv'
  <2>1. /\ phase = "idle" /\ phase' = "start" /\ Log' = Log
        /\ position' = [position EXCEPT ![t] = @ + 1]
        /\ job' = Log[t][position'[t]]
        /\ UNCHANGED <<world, committed, output>>
    BY <1>3 DEF Poll, Goto, output, environment
  <2>2. \A u \in Topic : position'[u] = IF u = t THEN position[t] + 1 ELSE position[u]
    BY <2>1
  <2>3. position' \in [Topic -> Nat] /\ \A u \in Topic : committed'[u] <= position'[u]
    BY <2>1, <2>2
  <2>4. ASSUME NEW u \in Topic, NEW k \in 1..position'[u]
        PROVE  Log[u][k] = job' \/ Delivered(Log[u][k])'
    <3>1. CASE u = t /\ k = position'[t]
      BY <2>1, <3>1
    <3>2. CASE ~(u = t /\ k = position'[t])
      <4>1. k \in 1..position[u]
        BY <2>2, <3>2
      <4> QED
        BY <2>1, <4>1
    <3> QED
      BY <3>1, <3>2
  <2>5. \A u \in Topic : \A k \in 1..committed'[u] : Delivered(Log[u][k])'
    BY <2>1
  <2>6. phase' \in Phase /\ phase' \notin {"idle", "complete"} /\ committed' \in [Topic -> Nat]
    BY <2>1
  <2> HIDE DEF Delivered, Log
  <2> QED
    BY <2>1, <2>3, <2>4, <2>5, <2>6
<1>4. CASE Commit
  BY <1>4 DEF Commit, environment, output
<1>5. CASE Tokens
  <2>1. CASE PublishFails
    BY <2>1, <1>2 DEF PublishFails
  <2>2. CASE /\ \/ published' = published \cup {[job |-> job, status |-> outcome]} /\ UNCHANGED refused
                \/ Refuse("tokens") /\ UNCHANGED published
             /\ phase = "tokens" /\ phase' = "complete"
             /\ UNCHANGED <<world, committed, position, job, completed>>
    <3>1. TokensSent(job)'
      <4> DEFINE event == [job |-> job, status |-> outcome]
      <4>1. CASE published' = published \cup {event}
        <5>1. event \in published' /\ event.job = job'
          BY <2>2, <4>1
        <5> HIDE DEF event
        <5> QED
          BY <5>1
      <4>2. CASE Refuse("tokens")
        BY <2>2, <4>2 DEF Refuse
      <4> QED
        BY <2>2, <4>1, <4>2
    <3>2. \A a : Delivered(a) => Delivered(a)'
      BY <2>2 DEF Refuse
    <3> HIDE DEF Delivered, TokensSent
    <3> QED
      BY <2>2, <3>1, <3>2
  <2> QED
    BY <1>5, <2>1, <2>2 DEF Tokens, Goto, reading, environment
<1>6. CASE Complete
  <2>1. CASE PublishFails
    BY <2>1, <1>2 DEF PublishFails
  <2>2. CASE /\ \/ completed' = completed \cup {job} /\ UNCHANGED refused
                \/ Refuse("complete") /\ UNCHANGED completed
             /\ phase = "complete" /\ phase' = "idle"
             /\ UNCHANGED <<world, committed, position, published>>
    <3>1. \A a : Delivered(a) \/ a = job => Delivered(a)'
      BY <2>2 DEF Refuse
    <3> QED
      BY <2>2, <3>1
  <2> QED
    BY <1>6, <2>1, <2>2 DEF Complete, Goto, reading, environment
<1>7. CASE Restart
  BY <1>7 DEF Restart, Goto, environment, output
<1>8. CASE Crash
  BY <1>8, <1>2 DEF Crash
<1>9. CASE UNCHANGED vars
  BY <1>9, <1>1 DEF vars, reading, environment, output, Inside, books
<1> QED
  BY <1>1, <1>2, <1>3, <1>4, <1>5, <1>6, <1>7, <1>8, <1>9, PipelineIsInside
  DEF Next, Work

\* For every log and configuration, and however the model, the broker and the
\* process fail: a record the service will not read again has been handled to its
\* end, its tokens and its completion published or themselves refused by the broker
\* (worker.py:77-93, 138-153; kafka.py:55-62).
THEOREM CommittedIsAnsweredAlways == Spec => []CommittedIsAnswered
<1>1. Init => ReadInv
  BY DEF Init, ReadInv, Phase, AgentPhase, Busy
<1>2. ReadInv /\ [Next]_vars => ReadInv'
  BY ReadInvStep
<1>3. ReadInv => CommittedIsAnswered
  BY DEF ReadInv, CommittedIsAnswered, Delivered
<1> QED
  BY <1>1, <1>2, <1>3, PTL DEF Spec

-----------------------------------------------------------------------------
(* The pool.  Its tasks move only while it is open; the results handed     *)
(* over so far, none of them a failure, are at the places of their stems.  *)

Shape == [st : {"none", "waiting", "running", "done", "failed", "collected"},
          attempt : Nat, tries : Nat, tokens : Nat, sound : BOOLEAN]

Pending == {"waiting", "running"}

PoolInv ==
  /\ tasks \in [Stems -> Shape]
  /\ questions \in [Stems -> [of : Nat, sound : BOOLEAN]]
  /\ phase # "expand" => \A i \in Stems : tasks[i].st \notin Pending
  /\ ~failing => \A i \in Stems : tasks[i].st = "collected" => questions[i].of = i
  /\ phase = "assemble" => ~failing /\ \A i \in Stems : tasks[i].st = "collected"
  /\ outcome = "generated" =>
       /\ phase \in {"report", "tokens", "complete"}
       /\ \A i \in Stems : questions[i] = [of |-> i, sound |-> TRUE]

pool == <<world, tasks, questions, failing>>

\* A step outside the pool that does not open it.
Beside ==
  /\ UNCHANGED pool
  /\ phase # "expand" /\ phase' \notin {"expand", "assemble"}
  /\ outcome' \in {outcome, "none", "error", "evaluated"}
  /\ outcome' = "generated" => phase' \in {"report", "tokens", "complete"}

LEMMA BesideSteps ==
  ASSUME PoolInv,
         (\E t \in Topic : Poll(t)) \/ Commit \/ Start \/ Input \/ StemFails \/ StemBad
           \/ Grade \/ Swot \/ Report \/ Tokens \/ Restart
  PROVE  Beside \/ Raise
<1> USE DEF PoolInv, Beside, pool, Goto, Error, PublishFails, reading, environment, locals
<1>1. CASE \E t \in Topic : Poll(t)
  BY <1>1 DEF Poll
<1>2. CASE Commit \/ Restart
  BY <1>2 DEF Commit, Restart
<1>3. CASE Start \/ Report \/ Tokens
  BY <1>3 DEF Start, Report, Tokens
<1>4. CASE Input
  BY <1>4 DEF Input
<1>5. CASE StemFails \/ StemBad
  BY <1>5 DEF StemFails, StemBad
<1>6. CASE Grade \/ Swot
  BY <1>6 DEF Grade, Swot
<1> QED
  BY <1>1, <1>2, <1>3, <1>4, <1>5, <1>6

\* A process that died, or a handler that returned, holds nothing.
LEMMA ForgetEmpties ==
  ASSUME Forget, phase' \in {"idle", "down"}, world' = world
  PROVE  PoolInv'
BY DEF Forget, PoolInv, Stems, NoTask, Stem, Shape, Pending

\* What a task does in its thread.
LEMMA TaskMoves ==
  ASSUME PoolInv, NEW i \in Stems, Task(i)
  PROVE  /\ phase = "expand"
         /\ UNCHANGED <<world, phase, questions, failing, outcome>>
         /\ \E t \in Shape : t.st # "collected" /\ tasks' = [tasks EXCEPT ![i] = t]
<1>1. phase = "expand"
  BY DEF PoolInv, Task, TaskStarts, TaskFails, TaskBad, TaskGood, Pending
<1>2. UNCHANGED <<world, phase, questions, failing, outcome>>
  BY DEF Task, TaskStarts, TaskFails, TaskBad, TaskGood, reading, environment
<1>3. tasks[i] \in Shape
  BY DEF PoolInv
<1>4. CASE TaskStarts(i)
  <2>1. [tasks[i] EXCEPT !.st = "running"] \in Shape
    BY <1>3 DEF Shape
  <2> QED
    BY <1>1, <1>2, <1>3, <1>4, <2>1 DEF TaskStarts, Set, Shape
<1>5. CASE TaskFails(i)
  <2> DEFINE t == IF tasks[i].tries + 1 < MaxTries
                    THEN [tasks[i] EXCEPT !.tries = @ + 1]
                    ELSE [tasks[i] EXCEPT !.st = "failed"]
  <2>1. t \in Shape /\ t.st # "collected"
    BY <1>3, <1>5 DEF Shape, TaskFails
  <2> QED
    BY <1>1, <1>2, <1>5, <2>1 DEF TaskFails, Set
<1>6. CASE TaskBad(i)
  <2> DEFINE again == tasks[i].attempt + 1 < MaxAttempts
  <2>1. PICK n \in Nat : n = tasks[i].tokens + 1
    BY <1>3 DEF Shape
  <2>2. PICK a \in Nat : a = IF again THEN tasks[i].attempt + 1 ELSE tasks[i].attempt
    BY <1>3 DEF Shape
  <2>3. PICK s \in {"running", "failed"} : s = IF again THEN "running" ELSE "failed"
    OBVIOUS
  <2> HIDE DEF again
  <2> DEFINE t == [tasks[i] EXCEPT !.tries = 0, !.tokens = n, !.attempt = a, !.st = s]
  <2>4. t \in Shape /\ t.st # "collected"
    BY <1>3 DEF Shape
  <2>5. tasks' = [tasks EXCEPT ![i] = t]
    BY <1>3, <1>6, <2>1, <2>2, <2>3 DEF TaskBad, Set, Shape, again
  <2> QED
    BY <1>1, <1>2, <2>4, <2>5
<1>7. CASE TaskGood(i)
  <2>1. PICK sound \in BOOLEAN :
          tasks' = [tasks EXCEPT ![i] =
                      [tasks[i] EXCEPT !.st = "done", !.tokens = @ + 1, !.sound = sound]]
    BY <1>7 DEF TaskGood, Set
  <2>2. PICK n \in Nat : n = tasks[i].tokens + 1
    BY <1>3 DEF Shape
  <2> DEFINE t == [tasks[i] EXCEPT !.st = "done", !.tokens = n, !.sound = sound]
  <2>3. t \in Shape /\ t.st # "collected"
    BY <1>3 DEF Shape
  <2>4. t = [tasks[i] EXCEPT !.st = "done", !.tokens = @ + 1, !.sound = sound]
    BY <1>3, <2>2 DEF Shape
  <2> QED
    BY <1>1, <1>2, <2>1, <2>3, <2>4
<1> QED
  BY <1>4, <1>5, <1>6, <1>7 DEF Task

LEMMA PoolInvStep ==
  ASSUME PoolInv, [Next]_vars
  PROVE  PoolInv'
<1> USE DEF Pending
<1>1. CASE Beside
  BY <1>1 DEF Beside, PoolInv, pool, Stems
<1>2. CASE Raise
  BY <1>2, ForgetEmpties DEF Raise, Goto, reading, environment
<1>3. CASE StemGood
  <2>1. /\ tasks' = [i \in Stems |-> [NoTask EXCEPT !.st = "waiting"]]
        /\ phase = "stems" /\ phase' = "expand"
        /\ UNCHANGED <<world, questions, failing, outcome>>
    BY <1>3 DEF StemGood, Goto, reading, environment
  <2>2. [NoTask EXCEPT !.st = "waiting"] \in Shape
    BY DEF NoTask, Shape
  <2> QED
    BY <2>1, <2>2 DEF PoolInv, Stems, NoTask
<1>4. ASSUME NEW i \in Stems, Task(i)  PROVE PoolInv'
  <2>1. PICK t \in Shape : t.st # "collected" /\ tasks' = [tasks EXCEPT ![i] = t]
    BY <1>4, TaskMoves
  <2>2. phase = "expand" /\ UNCHANGED <<world, phase, questions, failing, outcome>>
    BY <1>4, TaskMoves
  <2> QED
    BY <2>1, <2>2 DEF PoolInv, Stems
<1>5. ASSUME NEW i \in Stems, Collect(i)  PROVE PoolInv'
  <2>1. /\ phase = "expand" /\ tasks[i] \in Shape
        /\ tasks' = [tasks EXCEPT ![i] = [tasks[i] EXCEPT !.st = "collected"]]
        /\ UNCHANGED <<world, phase, outcome>>
    BY <1>5 DEF Collect, Set, PoolInv, reading, environment
  <2>2. [tasks[i] EXCEPT !.st = "collected"] \in Shape
    BY <2>1 DEF Shape
  <2>3. tasks' \in [Stems -> Shape]
    BY <2>1, <2>2 DEF PoolInv
  <2>4. CASE /\ questions' = [questions EXCEPT ![i] = [of |-> i, sound |-> tasks[i].sound]]
             /\ failing' = failing /\ ~failing
    <3>1. [of |-> i, sound |-> tasks[i].sound] \in [of : Nat, sound : BOOLEAN]
      BY <2>1 DEF Shape, Stems
    <3>2. \A j \in Stems : j # i => tasks'[j] = tasks[j] /\ questions'[j] = questions[j]
      BY <2>1, <2>4 DEF PoolInv
    <3>3. questions'[i].of = i
      BY <2>4 DEF PoolInv
    <3> QED
      BY <2>1, <2>3, <2>4, <3>1, <3>2, <3>3 DEF PoolInv, Stems
  <2>5. CASE failing' = TRUE /\ UNCHANGED questions
    BY <2>1, <2>3, <2>5 DEF PoolInv, Stems
  <2> QED
    BY <1>5, <2>4, <2>5 DEF Collect
<1>6. CASE LeavePool
  BY <1>6 DEF LeavePool, PoolInv, Goto, Error, Stems, reading, environment
<1>7. CASE Assemble
  <2>1. CASE Raise
    BY <2>1, <1>2
  <2>2. CASE /\ \A i \in Stems : questions[i].sound
             /\ phase = "assemble" /\ phase' = "report"
             /\ UNCHANGED <<world, tasks, questions, failing>>
    <3>1. \A i \in Stems : questions[i].of = i
      BY <2>2 DEF PoolInv
    <3>2. \A i \in Stems : questions[i] = [of |-> i, sound |-> TRUE]
      BY <2>2, <3>1 DEF PoolInv
    <3> QED
      BY <2>2, <3>2 DEF PoolInv, Stems
  <2> QED
    BY <1>7, <2>1, <2>2 DEF Assemble, Goto, Error, reading, environment
<1>8. CASE Complete
  <2>1. CASE Raise
    BY <2>1, <1>2
  <2>2. CASE Forget /\ phase' = "idle" /\ world' = world
    BY <2>2, ForgetEmpties
  <2> QED
    BY <1>8, <2>1, <2>2 DEF Complete, PublishFails, Goto, reading, environment
<1>9. CASE Crash
  BY <1>9, <1>2 DEF Crash
<1>10. CASE UNCHANGED vars
  BY <1>10 DEF vars, reading, environment, locals, PoolInv, Stems
<1> QED
  BY <1>1, <1>2, <1>3, <1>4, <1>5, <1>6, <1>7, <1>8, <1>9, <1>10, BesideSteps
  DEF Next, Work, Generate

LEMMA PoolInvariant == Spec => []PoolInv
<1>1. Init => PoolInv
  BY DEF Init, PoolInv, Stems, NoTask, Stem, Shape, Pending
<1> QED
  BY <1>1, PoolInvStep, PTL DEF Spec

\* For every number of stems and threads, and however calls fail and the process
\* dies, no expansion is waiting or running when the handler has left the pool:
\* the end of its with block waits for them (agent.py:829-838).
THEOREM PoolDrainedAlways == Spec => []PoolDrained
<1>1. PoolInv => PoolDrained
  BY DEF PoolInv, PoolDrained, Pending
<1> QED
  BY <1>1, PoolInvariant, PTL

-----------------------------------------------------------------------------
(* Calls and tokens, summed over the stems.  A sum is the number of points *)
(* under a function's graph, so that a step that adds to one value adds as *)
(* many points.                                                            *)

Points(f) == {p \in (DOMAIN f) \X Nat : p[2] < f[p[1]]}
Total(f)  == Cardinality(Points(f))

LEMMA TotalIsNat ==
  ASSUME NEW N \in Nat, NEW f \in [1..N -> Nat]
  PROVE  IsFiniteSet(Points(f)) /\ Total(f) \in Nat
<1> DEFINE column == [i \in 1..N |-> {i} \X (0..(f[i] - 1))]
           columns == {column[i] : i \in 1..N}
<1>1. IsFiniteSet(1..N)
  BY FS_Interval
<1>2. column \in Surjection(1..N, columns)
  BY DEF Surjection
<1>3. IsFiniteSet(columns)
  BY <1>1, <1>2, FS_Surjection
<1>4. ASSUME NEW i \in 1..N  PROVE IsFiniteSet(column[i])
  <2>1. PICK n \in Int : n = f[i] - 1
    OBVIOUS
  <2>2. IsFiniteSet(0..n)
    BY FS_Interval
  <2>3. IsFiniteSet({i})
    BY FS_Singleton
  <2>4. column[i] = {i} \X (0..n)
    BY <2>1
  <2> QED
    BY <2>2, <2>3, <2>4, FS_Product
<1>5. IsFiniteSet(UNION columns)
  <2> HIDE DEF column
  <2> QED
    BY <1>3, <1>4, FS_UNION
<1>6. Points(f) \subseteq UNION columns
  <2> SUFFICES ASSUME NEW p \in Points(f)  PROVE p \in UNION columns
    OBVIOUS
  <2>1. p \in (1..N) \X Nat /\ p[2] < f[p[1]]
    BY DEF Points
  <2>2. p = <<p[1], p[2]>> /\ p[1] \in 1..N /\ p[2] \in 0..(f[p[1]] - 1)
    BY <2>1
  <2>3. p \in column[p[1]]
    BY <2>2
  <2> QED
    BY <2>2, <2>3
<1> QED
  BY <1>5, <1>6, FS_Subset, FS_CardinalityType DEF Total

LEMMA TotalOfNothing ==
  ASSUME NEW f, \A i \in DOMAIN f : f[i] = 0
  PROVE  Total(f) = 0
<1>1. Points(f) = {}
  BY DEF Points
<1> QED
  BY <1>1, FS_EmptySet DEF Total

LEMMA TotalAdds ==
  \A N \in Nat : \A f, g \in [1..N -> Nat] : \A i \in 1..N, k \in Nat :
    g[i] = f[i] + k /\ (\A j \in 1..N : j # i => g[j] = f[j]) => Total(g) = Total(f) + k
<1> SUFFICES ASSUME NEW N \in Nat, NEW f \in [1..N -> Nat], NEW g \in [1..N -> Nat],
                    NEW i \in 1..N, NEW k \in Nat,
                    g[i] = f[i] + k, \A j \in 1..N : j # i => g[j] = f[j]
             PROVE  Total(g) = Total(f) + k
  OBVIOUS
<1> DEFINE more == {i} \X (f[i]..(g[i] - 1))
<1>1. IsFiniteSet(more) /\ Cardinality(more) = k
  <2>1. PICK low \in Int, high \in Int : low = f[i] /\ high = g[i] - 1 /\ high = low + k - 1
    OBVIOUS
  <2>2. IsFiniteSet(low..high) /\ Cardinality(low..high) = k
    <3>1. /\ IsFiniteSet(low..high)
          /\ Cardinality(low..high) = IF low > high THEN 0 ELSE high - low + 1
      BY FS_Interval
    <3>2. (IF low > high THEN 0 ELSE high - low + 1) = k
      BY <2>1
    <3> QED
      BY <3>1, <3>2
  <2>3. IsFiniteSet({i}) /\ Cardinality({i}) = 1
    BY FS_Singleton
  <2>4. IsFiniteSet({i} \X (low..high)) /\ Cardinality({i} \X (low..high)) = 1 * k
    BY <2>2, <2>3, FS_Product
  <2> QED
    BY <2>1, <2>4
<1>2. Points(g) = Points(f) \cup more
  <2>1. ASSUME NEW p \in Points(g)  PROVE p \in Points(f) \cup more
    <3>1. p \in (1..N) \X Nat /\ p[2] < g[p[1]]
      BY DEF Points
    <3>2. p = <<p[1], p[2]>> /\ p[1] \in 1..N /\ p[2] \in Nat
      BY <3>1
    <3>3. CASE p[1] = i /\ ~(p[2] < f[i])
      BY <3>1, <3>2, <3>3
    <3>4. CASE p[2] < f[p[1]]
      BY <3>1, <3>4 DEF Points
    <3> QED
      BY <3>1, <3>2, <3>3, <3>4
  <2>2. ASSUME NEW p \in Points(f) \cup more  PROVE p \in Points(g)
    <3>1. p \in (1..N) \X Nat /\ p[2] < g[p[1]]
      <4>1. CASE p \in Points(f)
        <5>1. p \in (1..N) \X Nat /\ p[2] < f[p[1]]
          BY <4>1 DEF Points
        <5>2. PICK j \in 1..N, n \in Nat : j = p[1] /\ n = p[2] /\ n < f[j]
          BY <5>1
        <5>3. n < g[j]
          <6>1. CASE j = i
            BY <5>2, <6>1
          <6>2. CASE j # i
            BY <5>2, <6>2
          <6> QED
            BY <6>1, <6>2
        <5> QED
          BY <5>1, <5>2, <5>3
      <4>2. CASE p \in more
        <5>1. p = <<p[1], p[2]>> /\ p[1] = i /\ p[2] \in f[i]..(g[i] - 1)
          BY <4>2
        <5> QED
          BY <5>1
      <4> QED
        BY <4>1, <4>2
    <3> QED
      BY <3>1 DEF Points
  <2> QED
    BY <2>1, <2>2
<1>3. Points(f) \cap more = {}
  BY DEF Points
<1> HIDE DEF more
<1>4. IsFiniteSet(Points(f)) /\ Total(f) \in Nat
  BY TotalIsNat
<1>5. Cardinality(Points(g)) =
        Cardinality(Points(f)) + Cardinality(more) - Cardinality(Points(f) \cap more)
  BY <1>1, <1>2, <1>4, FS_Union
<1>6. Cardinality(Points(f) \cap more) = 0
  BY <1>3, FS_EmptySet
<1> QED
  BY <1>1, <1>4, <1>5, <1>6 DEF Total

LEMMA TotalIsBounded ==
  ASSUME NEW N \in Nat, NEW f \in [1..N -> Nat], NEW b \in Nat, \A i \in 1..N : f[i] <= b
  PROVE  Total(f) <= N * b
<1>1. IsFiniteSet(1..N) /\ Cardinality(1..N) = N
  BY FS_Interval
<1>2. IsFiniteSet(0..(b - 1)) /\ Cardinality(0..(b - 1)) = b
  BY FS_Interval
<1>3. IsFiniteSet((1..N) \X (0..(b - 1))) /\ Cardinality((1..N) \X (0..(b - 1))) = N * b
  BY <1>1, <1>2, FS_Product
<1>4. Points(f) \subseteq (1..N) \X (0..(b - 1))
  <2> SUFFICES ASSUME NEW p \in Points(f)  PROVE p \in (1..N) \X (0..(b - 1))
    OBVIOUS
  <2>1. p \in (1..N) \X Nat /\ p[2] < f[p[1]]
    BY DEF Points
  <2>2. p = <<p[1], p[2]>> /\ p[1] \in 1..N /\ p[2] \in Nat /\ f[p[1]] <= b /\ f[p[1]] \in Nat
    BY <2>1
  <2>3. p[2] \in 0..(b - 1)
    BY <2>1, <2>2
  <2> QED
    BY <2>2, <2>3
<1> QED
  BY <1>3, <1>4, FS_Subset DEF Total
-----------------------------------------------------------------------------
(* What the calls of a record come to.  CountInv says that the tokens of   *)
(* every call that returned are counted or held by a task that is still to *)
(* be collected, and that no task has made more calls than its attempts    *)
(* and tries stand for.                                                    *)

Round  == MaxAttempts * MaxTries
Budget == Round * (1 + world.mcq)

Left == [i \in Stems |-> IF tasks[i].st = "collected" THEN 0 ELSE tasks[i].tokens]

\* The calls a task may have made.
UsedBy(t) == IF t.st = "none" THEN 0
             ELSE IF t.st \in Pending THEN t.attempt * MaxTries + t.tries
             ELSE Round
Used == [i \in Stems |-> UsedBy(tasks[i])]

Fresh(t) == t.attempt < MaxAttempts /\ t.tries < MaxTries

CountInv ==
  /\ world \in Worlds
  /\ tokens \in Nat /\ tried \in Nat /\ returned \in Nat
  /\ attempt \in 0..(MaxAttempts - 1) /\ tries \in 0..(MaxTries - 1)
  /\ \A i \in Stems : Fresh(tasks[i])
  /\ ~failing => returned = tokens + Total(Left)
  /\ outcome = "generated" => tokens = returned
  /\ phase \in {"idle", "down", "start", "input", "stems"} => \A i \in Stems : tasks[i].tokens = 0
  /\ phase \in {"idle", "down", "start", "input", "grade"} => tried = 0
  /\ phase = "swot" => tried <= 1
  /\ phase = "stems" => tried <= attempt * MaxTries + tries
  /\ phase \in {"expand", "assemble"} => tried <= Round + Total(Used)
  /\ tried <= Budget

LEMMA Rounds ==
  ASSUME NEW a \in Nat, NEW t \in Nat, a < MaxAttempts, t < MaxTries
  PROVE  /\ a * MaxTries \in Nat
         /\ a * MaxTries + t + 1 <= Round
         /\ (a + 1) * MaxTries = a * MaxTries + MaxTries
<1>1. MaxAttempts \in Nat /\ MaxTries \in Nat
  BY QuizAssumption
<1>2. PICK d \in Nat : MaxAttempts = a + 1 + d
  BY <1>1
<1>3. Round = a * MaxTries + MaxTries + d * MaxTries
  BY <1>1, <1>2 DEF Round
<1>4. d * MaxTries \in Nat /\ a * MaxTries \in Nat
  BY <1>1
<1>5. (a + 1) * MaxTries = a * MaxTries + MaxTries
  BY <1>1
<1> QED
  BY <1>1, <1>3, <1>4, <1>5

LEMMA Budgets ==
  ASSUME world \in Worlds
  PROVE  /\ world.mcq \in Nat \ {0} /\ Round \in Nat \ {0} /\ Budget \in Nat
         /\ Budget = Round + world.mcq * Round
         /\ 2 <= Budget /\ Round <= Budget
<1>1. PICK n \in Nat \ {0} : n = world.mcq
  BY QuizAssumption DEF WorldType
<1>2. PICK b \in Nat \ {0} : b = Round
  <2>1. MaxAttempts \in Nat \ {0} /\ MaxTries \in Nat \ {0}
    BY QuizAssumption
  <2> QED
    BY <2>1 DEF Round
<1>3. b * (1 + n) = b + n * b
  BY <1>1, <1>2
<1>4. n * b \in Nat /\ n * b >= b
  <2>1. PICK m \in Nat : n = m + 1
    BY <1>1
  <2>2. n * b = m * b + b /\ m * b \in Nat
    BY <2>1, <1>2
  <2> QED
    BY <2>2, <1>2
<1> QED
  BY <1>1, <1>2, <1>3, <1>4 DEF Budget

\* Sums of the pool.
LEMMA Sums ==
  world \in Worlds /\ PoolInv /\ (\A i \in Stems : Fresh(tasks[i])) =>
         /\ Left \in [Stems -> Nat] /\ Used \in [Stems -> Nat]
         /\ Total(Left) \in Nat /\ Total(Used) \in Nat
         /\ Round + Total(Used) <= Budget
         /\ \A i \in Stems : UsedBy(tasks[i]) <= Round
<1> SUFFICES ASSUME world \in Worlds, PoolInv, \A i \in Stems : Fresh(tasks[i])
             PROVE  /\ Left \in [Stems -> Nat] /\ Used \in [Stems -> Nat]
                    /\ Total(Left) \in Nat /\ Total(Used) \in Nat
                    /\ Round + Total(Used) <= Budget
                    /\ \A i \in Stems : UsedBy(tasks[i]) <= Round
  OBVIOUS
<1>1. world.mcq \in Nat /\ Round \in Nat
  BY Budgets
<1>2. ASSUME NEW i \in Stems
      PROVE  /\ tasks[i].tokens \in Nat
             /\ UsedBy(tasks[i]) \in Nat /\ UsedBy(tasks[i]) <= Round
  <2>1. tasks[i] \in Shape
    BY DEF PoolInv
  <2>2. PICK a \in Nat, t \in Nat : a = tasks[i].attempt /\ t = tasks[i].tries
    BY <2>1 DEF Shape
  <2>3. a * MaxTries \in Nat /\ a * MaxTries + t + 1 <= Round
    BY <2>2, Rounds DEF Fresh
  <2>4. UsedBy(tasks[i]) \in {0, a * MaxTries + t, Round}
    BY <2>2 DEF UsedBy
  <2> QED
    BY <1>1, <2>1, <2>2, <2>3, <2>4 DEF Shape
<1>3. Left \in [Stems -> Nat] /\ Used \in [Stems -> Nat]
  BY <1>2 DEF Left, Used
<1>4. Total(Left) \in Nat /\ Total(Used) \in Nat
  BY <1>1, <1>3, TotalIsNat DEF Stems
<1>5. Total(Used) <= world.mcq * Round
  <2>1. \A i \in Stems : Used[i] <= Round
    BY <1>2 DEF Used
  <2> QED
    BY <1>1, <1>3, <2>1, TotalIsBounded DEF Stems
<1> QED
  BY <1>1, <1>2, <1>3, <1>4, <1>5, Budgets

LEMMA SumsNext ==
  (world \in Worlds /\ PoolInv /\ \A i \in Stems : Fresh(tasks[i]))' =>
    (/\ Left \in [Stems -> Nat] /\ Used \in [Stems -> Nat]
     /\ Total(Left) \in Nat /\ Total(Used) \in Nat
     /\ Round + Total(Used) <= Budget
     /\ \A i \in Stems : UsedBy(tasks[i]) <= Round)'
BY Sums, PTL

LEMMA WorldStays ==
  ASSUME [Next]_vars
  PROVE  world' = world
<1>1. CASE Start \/ Generate \/ Grade \/ Swot \/ Report
  BY <1>1, PipelineIsInside, RaiseSpares DEF Inside, books
<1>2. CASE Crash
  BY <1>2, RaiseSpares DEF Crash
<1>3. CASE Tokens \/ Complete
  BY <1>3, RaiseSpares DEF Tokens, Complete, PublishFails, reading, environment
<1>4. CASE Commit \/ Restart \/ \E t \in Topic : Poll(t)
  BY <1>4 DEF Commit, Restart, Poll, environment
<1>5. CASE UNCHANGED vars
  BY <1>5 DEF vars, reading, environment
<1> QED
  BY <1>1, <1>2, <1>3, <1>4, <1>5 DEF Next, Work

\* A process that died, or a handler that returned, has made no call.
LEMMA ForgetClears ==
  ASSUME world \in Worlds, world' = world, Forget, phase' \in {"idle", "down"}
  PROVE  CountInv'
<1>1. /\ tokens' = 0 /\ tried' = 0 /\ returned' = 0 /\ attempt' = 0 /\ tries' = 0
      /\ outcome' = "none" /\ tasks' = [i \in Stems |-> NoTask] /\ Stems' = Stems
  BY DEF Forget, Stems
<1>2. Total(Left')= 0
  <2>1. \A i \in DOMAIN Left' : Left'[i] = 0
    BY <1>1 DEF Left, NoTask
  <2> HIDE DEF Left
  <2> QED
    BY <2>1, TotalOfNothing
<1>3. Total(Left)' = 0
  BY <1>2 DEF Total, Points
<1>4. MaxAttempts \in Nat \ {0} /\ MaxTries \in Nat \ {0} /\ Budget \in Nat
  BY QuizAssumption, Budgets
<1>5. Budget' = Budget
  BY DEF Budget
<1> QED
  BY <1>1, <1>3, <1>4, <1>5 DEF CountInv, NoTask, Fresh
\* A step that makes no call and opens no pool.
Idles ==
  /\ UNCHANGED <<world, tasks, failing, tokens, tried, returned, attempt, tries>>
  /\ \/ phase' = phase
     \/ phase' \in {"report", "tokens", "complete"}
     \/ <<phase, phase'>> \in {<<"idle", "start">>, <<"start", "input">>, <<"start", "grade">>,
                               <<"input", "stems">>, <<"expand", "assemble">>, <<"down", "idle">>}
  /\ outcome' = "generated" => outcome = "generated" \/ tokens = returned

LEMMA IdlesCounts ==
  ASSUME CountInv, Idles
  PROVE  CountInv'
<1>1. Left' = Left /\ Used' = Used /\ Stems' = Stems /\ Budget' = Budget
  BY DEF Idles, Left, Used, UsedBy, Stems, Budget
<1>2. Total(Left)' = Total(Left) /\ Total(Used)' = Total(Used)
  BY <1>1 DEF Total, Points
<1>3. phase' \in {"idle", "down", "start", "input", "grade"} =>
        tried = 0 /\ \/ phase' = phase
                     \/ phase \in {"idle", "down", "start"}
  BY DEF Idles, CountInv
<1>4. phase' = "stems" => tried <= attempt * MaxTries + tries
  <2>1. CASE phase = "stems"
    BY <2>1 DEF CountInv
  <2>2. CASE phase = "input"
    <3>1. PICK a \in Nat, t \in Nat, m \in Nat : a = attempt /\ t = tries /\ m = MaxTries
      BY QuizAssumption DEF CountInv
    <3>2. a * m + t \in Nat
      BY <3>1
    <3> QED
      BY <2>2, <3>1, <3>2 DEF CountInv
  <2> QED
    BY <2>1, <2>2 DEF Idles
<1> QED
  BY <1>1, <1>2, <1>3, <1>4 DEF CountInv, Idles, Fresh

LEMMA StemsCount ==
  ASSUME CountInv, PoolInv, StemFails \/ StemBad
  PROVE  CountInv'
<1>1. /\ UNCHANGED <<world, tasks, failing>>
      /\ phase = "stems" /\ phase' \in {"stems", "report"}
      /\ tried' = tried + 1
      /\ \/ UNCHANGED <<returned, tokens>>
         \/ returned' = returned + 1 /\ tokens' = tokens + 1
      /\ outcome' \in {outcome, "error"}
  BY DEF StemFails, StemBad, Calls, Goto, Error, reading, environment
<1>2. PICK a \in Nat, t \in Nat : a = attempt /\ t = tries
  BY DEF CountInv
<1>3. a < MaxAttempts /\ t < MaxTries /\ MaxAttempts \in Nat /\ MaxTries \in Nat
  BY <1>2, QuizAssumption DEF CountInv
<1>4. a * MaxTries \in Nat /\ a * MaxTries + t + 1 <= Round
      /\ (a + 1) * MaxTries = a * MaxTries + MaxTries
  BY <1>2, <1>3, Rounds
<1>5. tried + 1 <= a * MaxTries + t + 1 /\ tried \in Nat
  BY <1>1, <1>2, <1>4 DEF CountInv
<1>6. \/ phase' = "report" /\ attempt' = a /\ tries' \in {t, 0}
      \/ phase' = "stems" /\ attempt' = a /\ tries' = t + 1 /\ t + 1 < MaxTries
      \/ phase' = "stems" /\ attempt' = a + 1 /\ tries' = 0 /\ a + 1 < MaxAttempts
  BY <1>2 DEF StemFails, StemBad, Goto, Error
<1>7. attempt' \in 0..(MaxAttempts - 1) /\ tries' \in 0..(MaxTries - 1)
  BY <1>3, <1>6
<1>8. phase' = "stems" => tried + 1 <= attempt' * MaxTries + tries'
  BY <1>3, <1>4, <1>5, <1>6
<1>9. tried + 1 <= Budget
  BY <1>4, <1>5, Budgets DEF CountInv
<1>10. Left' = Left /\ Stems' = Stems /\ Budget' = Budget
  BY <1>1 DEF Left, Stems, Budget
<1>11. Total(Left)' = Total(Left)
  BY <1>10 DEF Total, Points
<1>12. Total(Left) \in Nat
  BY Sums DEF CountInv
<1>13. ~failing' => returned' = tokens' + Total(Left)'
  BY <1>1, <1>11, <1>12 DEF CountInv
<1>14. outcome' = "generated" => tokens' = returned'
  BY <1>1, PoolInv DEF PoolInv
<1> QED
  BY <1>1, <1>5, <1>7, <1>8, <1>9, <1>10, <1>13, <1>14 DEF CountInv, Fresh

LEMMA StemGoodCounts ==
  ASSUME CountInv, PoolInv, StemGood
  PROVE  CountInv'
<1>1. /\ UNCHANGED <<world, failing, attempt, tries, outcome>>
      /\ phase = "stems" /\ phase' = "expand"
      /\ tried' = tried + 1 /\ returned' = returned + 1 /\ tokens' = tokens + 1
      /\ tasks' = [i \in Stems |-> [NoTask EXCEPT !.st = "waiting"]]
  BY DEF StemGood, Calls, Goto, reading, environment
<1>2. Stems' = Stems /\ Budget' = Budget
  BY <1>1 DEF Stems, Budget
<1>3. Total(Left) = 0
  <2>1. \A i \in DOMAIN Left : Left[i] = 0
    BY <1>1 DEF Left, CountInv
  <2> QED
    BY <2>1, TotalOfNothing
<1>4. Total(Left)' = 0
  <2>1. \A i \in DOMAIN Left' : Left'[i] = 0
    BY <1>1, <1>2 DEF Left, NoTask
  <2>2. Total(Left') = 0
    <3> HIDE DEF Left
    <3> QED
      BY <2>1, TotalOfNothing
  <2> QED
    BY <2>2 DEF Total, Points
<1>5. \A i \in Stems : Fresh(tasks[i])'
  BY <1>1, QuizAssumption DEF NoTask, Fresh
<1>6. Total(Used)' = 0
  <2>1. \A i \in DOMAIN Used' : Used'[i] = 0
    <3>1. 0 * MaxTries + 0 = 0
      BY QuizAssumption
    <3> QED
      BY <1>1, <1>2, <3>1 DEF Used, UsedBy, NoTask, Pending
  <2>2. Total(Used') = 0
    <3> HIDE DEF Used
    <3> QED
      BY <2>1, TotalOfNothing
  <2> QED
    BY <2>2 DEF Total, Points
<1>7. tried' <= Round /\ tried' \in Nat
  <2>1. PICK a \in Nat, t \in Nat : a = attempt /\ t = tries
    BY DEF CountInv
  <2>2. a < MaxAttempts /\ t < MaxTries
    BY <2>1, QuizAssumption DEF CountInv
  <2>3. a * MaxTries \in Nat /\ a * MaxTries + t + 1 <= Round
    BY <2>1, <2>2, Rounds
  <2>4. tried <= a * MaxTries + t /\ tried \in Nat
    BY <1>1, <2>1 DEF CountInv
  <2>5. Round \in Nat
    BY Budgets DEF CountInv
  <2> QED
    BY <1>1, <2>3, <2>4, <2>5
<1>8. tried' <= Budget
  BY <1>7, Budgets DEF CountInv
<1>9. outcome # "generated"
  BY <1>1 DEF PoolInv
<1>10. Round \in Nat
  BY Budgets DEF CountInv
<1> QED
  BY <1>1, <1>2, <1>3, <1>4, <1>5, <1>6, <1>7, <1>8, <1>9, <1>10 DEF CountInv
\* What a task adds to the calls that returned it holds until it is collected,
\* and a call more is within what it may have made.
LEMMA TaskCounts ==
  ASSUME CountInv, PoolInv, NEW i \in Stems, Task(i)
  PROVE  CountInv'
<1> DEFINE old == tasks[i]
<1>1. PICK t \in Shape : t.st # "collected" /\ tasks' = [tasks EXCEPT ![i] = t]
  BY TaskMoves
<1>2. phase = "expand" /\ UNCHANGED <<world, phase, questions, failing, outcome>>
  BY TaskMoves
<1>3. UNCHANGED <<attempt, tries, tokens>>
  BY DEF Task, TaskStarts, TaskFails, TaskBad, TaskGood
<1>4. old \in Shape /\ old.st \in Pending /\ Fresh(old)
  BY DEF Task, TaskStarts, TaskFails, TaskBad, TaskGood, PoolInv, Pending, CountInv
<1>5. tasks'[i] = t /\ \A j \in Stems : j # i => tasks'[j] = tasks[j]
  BY <1>1 DEF PoolInv
<1>6. MaxAttempts \in Nat /\ MaxTries \in Nat /\ Round \in Nat /\ world.mcq \in Nat
  BY QuizAssumption, Budgets DEF CountInv
<1>7. PICK a \in Nat, n \in Nat, k \in Nat : a = old.attempt /\ n = old.tries /\ k = old.tokens
  BY <1>4 DEF Shape
<1>8. /\ a < MaxAttempts /\ n < MaxTries /\ a * MaxTries \in Nat
      /\ a * MaxTries + n + 1 <= Round
      /\ (a + 1) * MaxTries = a * MaxTries + MaxTries
  BY <1>4, <1>7, Rounds DEF Fresh
<1>9. UsedBy(old) = a * MaxTries + n
  BY <1>4, <1>7 DEF UsedBy, Pending
<1>9a. a < MaxAttempts /\ n < MaxTries /\ 0 < MaxTries
  <2>1. a < MaxAttempts /\ n < MaxTries
    BY <1>8
  <2>2. n \in Nat /\ MaxTries \in Nat
    BY <1>6
  <2> QED
    BY <2>1, <2>2
<1>9b. Round >= UsedBy(old) + 1
  <2>1. PICK p \in Nat : p = a * MaxTries
    BY <1>8
  <2>2. UsedBy(old) = p + n /\ p + n + 1 <= Round /\ Round \in Nat
    BY <1>6, <1>8, <1>9, <2>1
  <2> QED
    BY <2>2
<1>10. /\ Fresh(t)
       /\ \/ /\ tried' = tried /\ returned' = returned /\ t.tokens = k
             /\ UsedBy(t) = UsedBy(old)
          \/ /\ tried' = tried + 1 /\ returned' = returned /\ t.tokens = k
             /\ UsedBy(t) >= UsedBy(old) + 1
          \/ /\ tried' = tried + 1 /\ returned' = returned + 1 /\ t.tokens = k + 1
             /\ UsedBy(t) >= UsedBy(old) + 1
  <2>1. CASE TaskStarts(i)
    <3>1. t = [old EXCEPT !.st = "running"] /\ tried' = tried /\ returned' = returned
      BY <1>1, <1>5, <2>1 DEF TaskStarts, Set, PoolInv
    <3> QED
      BY <1>4, <1>7, <3>1 DEF Shape, Fresh, UsedBy, Pending
  <2>2. CASE TaskFails(i)
    <3>1. tried' = tried + 1 /\ returned' = returned
      BY <2>2 DEF TaskFails
    <3>2. CASE n + 1 < MaxTries /\ t = [old EXCEPT !.tries = n + 1]
      <4>1. t.tokens = k /\ t.attempt = a /\ t.tries = n + 1 /\ t.st = old.st
        BY <1>4, <1>7, <3>2 DEF Shape
      <4>2. UsedBy(t) = a * MaxTries + (n + 1)
        BY <1>4, <4>1 DEF UsedBy, Pending
      <4> QED
        BY <1>7, <1>8, <1>9, <3>1, <3>2, <4>1, <4>2 DEF Fresh
    <3>3. CASE t = [old EXCEPT !.st = "failed"]
      <4>1. t.tokens = k /\ t.attempt = a /\ t.tries = n /\ UsedBy(t) = Round
        BY <1>4, <1>7, <3>3 DEF Shape, UsedBy, Pending
      <4> QED
        BY <1>9a, <1>9b, <3>1, <4>1 DEF Fresh
    <3>4. (n + 1 < MaxTries /\ t = [old EXCEPT !.tries = n + 1]) \/ t = [old EXCEPT !.st = "failed"]
      <4>1. tasks' = [tasks EXCEPT ![i] = IF old.tries + 1 < MaxTries
                                           THEN [old EXCEPT !.tries = @ + 1]
                                           ELSE [old EXCEPT !.st = "failed"]]
        BY <2>2 DEF TaskFails, Set
      <4>2. t = IF n + 1 < MaxTries THEN [old EXCEPT !.tries = n + 1]
                                    ELSE [old EXCEPT !.st = "failed"]
        BY <1>4, <1>5, <1>7, <4>1 DEF PoolInv, Shape
      <4> QED
        BY <4>2
    <3> QED
      BY <3>2, <3>3, <3>4
  <2>3. CASE TaskBad(i)
    <3>1. tried' = tried + 1 /\ returned' = returned + 1
      BY <2>3 DEF TaskBad
    <3>2. /\ t.tries = 0 /\ t.tokens = k + 1
          /\ t.attempt = IF a + 1 < MaxAttempts THEN a + 1 ELSE a
          /\ t.st = IF a + 1 < MaxAttempts THEN "running" ELSE "failed"
      BY <1>4, <1>5, <1>7, <2>3 DEF TaskBad, Set, PoolInv, Shape
    <3>3. CASE a + 1 < MaxAttempts
      <4>1. UsedBy(t) = (a + 1) * MaxTries + 0
        BY <3>2, <3>3 DEF UsedBy, Pending
      <4>2. UsedBy(t) >= UsedBy(old) + 1
        BY <1>6, <1>7, <1>8, <1>9, <4>1
      <4>3. Fresh(t)
        BY <1>9a, <3>2, <3>3 DEF Fresh
      <4> QED
        BY <3>1, <3>2, <4>2, <4>3
    <3>4. CASE ~(a + 1 < MaxAttempts)
      <4>1. UsedBy(t) = Round
        BY <3>2, <3>4 DEF UsedBy, Pending
      <4> QED
        BY <1>9a, <1>9b, <3>1, <3>2, <3>4, <4>1 DEF Fresh
    <3> QED
      BY <3>3, <3>4
  <2>4. CASE TaskGood(i)
    <3>1. tried' = tried + 1 /\ returned' = returned + 1
      BY <2>4 DEF TaskGood
    <3>2. t.tries = n /\ t.tokens = k + 1 /\ t.attempt = a /\ t.st = "done"
      <4>1. PICK sound \in BOOLEAN :
              tasks' = [tasks EXCEPT ![i] =
                          [old EXCEPT !.st = "done", !.tokens = @ + 1, !.sound = sound]]
        BY <2>4 DEF TaskGood, Set
      <4>2. t = [old EXCEPT !.st = "done", !.tokens = k + 1, !.sound = sound]
        BY <1>4, <1>5, <1>7, <4>1 DEF PoolInv, Shape
      <4> QED
        BY <1>4, <1>7, <4>2 DEF Shape
    <3>3. UsedBy(t) = Round
      BY <3>2 DEF UsedBy, Pending
    <3> QED
      BY <1>9a, <1>9b, <3>1, <3>2, <3>3 DEF Fresh
  <2> QED
    BY <2>1, <2>2, <2>3, <2>4 DEF Task
<1>11. PoolInv'
  BY PoolInvStep DEF Next, Work, Generate
<1>12. Stems' = Stems /\ Budget' = Budget
  BY <1>2 DEF Stems, Budget
<1>13. \A j \in Stems : Fresh(tasks'[j])
  BY <1>5, <1>10 DEF CountInv
<1>14. /\ Left \in [Stems -> Nat] /\ Used \in [Stems -> Nat]
       /\ Total(Left) \in Nat /\ Total(Used) \in Nat
  BY Sums DEF CountInv
<1>15. (world \in Worlds)' /\ (\A j \in Stems : Fresh(tasks[j]))'
  BY <1>2, <1>12, <1>13 DEF CountInv
<1>16. PICK m \in Nat : m = world.mcq /\ Stems = 1..m
  BY <1>6 DEF Stems
<1>17. PICK l \in [Stems -> Nat], u \in [Stems -> Nat] :
         /\ l = Left' /\ u = Used'
         /\ \A j \in Stems : /\ l[j] = IF tasks'[j].st = "collected" THEN 0 ELSE tasks'[j].tokens
                             /\ u[j] = UsedBy(tasks'[j])
  <2>1. Left' \in [Stems -> Nat] /\ Used' \in [Stems -> Nat]
    <3>1. (Left \in [Stems -> Nat] /\ Used \in [Stems -> Nat])'
      <4>1. (world \in Worlds /\ PoolInv /\ (\A j \in Stems : Fresh(tasks[j])))'
        BY <1>11, <1>15
      <4> QED
        BY <4>1, SumsNext
    <3> QED
      BY <1>12, <3>1
  <2> QED
    BY <1>12, <2>1 DEF Left, Used
<1> HIDE DEF old
<1>18. PICK f \in [1..m -> Nat], h \in [1..m -> Nat] : f = Left /\ h = Used
  BY <1>14, <1>16
<1>19. l \in [1..m -> Nat] /\ u \in [1..m -> Nat] /\ i \in 1..m
  BY <1>16, <1>17
<1>20. \A F, G \in [1..m -> Nat] : \A d \in Nat :
         G[i] = F[i] + d /\ (\A j \in 1..m : j # i => G[j] = F[j]) => Total(G) = Total(F) + d
  BY <1>19, TotalAdds
<1>21. Total(l) = IF returned' = returned THEN Total(Left) ELSE Total(Left) + 1
  <2>1. Left[i] = k /\ l[i] = t.tokens /\ \A j \in Stems : j # i => l[j] = Left[j]
    BY <1>1, <1>4, <1>5, <1>7, <1>17 DEF Left, Pending, old
  <2>2. CASE t.tokens = k /\ returned' = returned
    <3>1. l[i] = f[i] + 0 /\ \A j \in 1..m : j # i => l[j] = f[j]
      BY <1>7, <1>16, <1>18, <2>1, <2>2
    <3>2. Total(l) = Total(f) + 0
      BY <1>19, <1>20, <3>1
    <3> QED
      BY <1>14, <1>18, <2>2, <3>2
  <2>3. CASE t.tokens = k + 1 /\ returned' = returned + 1
    <3>1. l[i] = f[i] + 1 /\ \A j \in 1..m : j # i => l[j] = f[j]
      BY <1>7, <1>16, <1>18, <2>1, <2>3
    <3>2. Total(l) = Total(f) + 1
      BY <1>19, <1>20, <3>1
    <3> QED
      BY <1>18, <2>3, <3>2 DEF CountInv
  <2> QED
    BY <1>10, <2>2, <2>3
<1>22. Total(u) \in Nat /\ Total(u) >= Total(Used) + (tried' - tried)
  <2>1. Used[i] = UsedBy(old) /\ u[i] = UsedBy(t) /\ \A j \in Stems : j # i => u[j] = Used[j]
    BY <1>5, <1>17 DEF Used, old
  <2>2. PICK x \in Nat, y \in Nat : x = Used[i] /\ y = u[i]
    BY <1>14
  <2>3. tried' - tried \in {0, 1} /\ y >= x + (tried' - tried)
    BY <1>10, <2>1, <2>2 DEF CountInv
  <2>4. PICK d \in Nat : y = x + d /\ d >= tried' - tried
    BY <2>3
  <2>5. u[i] = h[i] + d /\ \A j \in 1..m : j # i => u[j] = h[j]
    BY <1>16, <1>18, <2>1, <2>2, <2>4
  <2>6. Total(u) = Total(h) + d
    BY <1>19, <1>20, <2>5
  <2> QED
    BY <1>14, <1>18, <2>3, <2>4, <2>6
<1>23. Total(Left)' = Total(l) /\ Total(Used)' = Total(u)
  BY <1>17 DEF Total, Points
<1>24. tried' \in Nat /\ returned' \in Nat
  BY <1>10 DEF CountInv
<1>25. tried' <= Round + Total(u)
  BY <1>2, <1>6, <1>10, <1>14, <1>22, <1>24 DEF CountInv
<1>26. Round + Total(u) <= Budget
  <2>1. (Round + Total(Used) <= Budget)'
    <3>1. (world \in Worlds /\ PoolInv /\ (\A j \in Stems : Fresh(tasks[j])))'
      BY <1>11, <1>15
    <3> QED
      BY <3>1, SumsNext
  <2> QED
    BY <1>12, <1>23, <2>1 DEF Round
<1>27. tried' <= Budget
  BY <1>6, <1>22, <1>24, <1>25, <1>26, Budgets DEF CountInv
<1>28. ~failing => returned' = tokens + Total(l)
  BY <1>2, <1>10, <1>14, <1>21 DEF CountInv
<1>29. outcome # "generated"
  BY <1>2 DEF PoolInv
<1> QED
  BY <1>2, <1>3, <1>6, <1>12, <1>13, <1>23, <1>24, <1>25, <1>27, <1>28, <1>29
  DEF CountInv, Round
\* A task that is collected hands over what it held.
LEMMA CollectCounts ==
  ASSUME CountInv, PoolInv, NEW i \in Stems, Collect(i)
  PROVE  CountInv'
<1>1. /\ phase = "expand" /\ ~failing /\ tasks[i].st \in {"done", "failed"}
      /\ UNCHANGED <<world, phase, attempt, tries, tried, returned, outcome>>
      /\ tasks' = [tasks EXCEPT ![i] = [tasks[i] EXCEPT !.st = "collected"]]
      /\ \/ failing' = TRUE /\ tokens' = tokens
         \/ failing' = FALSE /\ tokens' = tokens + tasks[i].tokens
  BY DEF Collect, Set, reading, environment
<1>2. tasks[i] \in Shape /\ Stems' = Stems /\ Budget' = Budget
  BY <1>1 DEF PoolInv, Stems, Budget
<1>3. PICK k \in Nat : k = tasks[i].tokens
  BY <1>2 DEF Shape
<1>4. /\ tasks'[i].st = "collected" /\ tasks'[i].tokens = k
      /\ tasks'[i].attempt = tasks[i].attempt /\ tasks'[i].tries = tasks[i].tries
      /\ \A j \in Stems : j # i => tasks'[j] = tasks[j]
  BY <1>1, <1>2, <1>3 DEF PoolInv, Shape
<1>5. PICK m \in Nat : m = world.mcq /\ Stems = 1..m
  BY Budgets DEF CountInv, Stems
<1>6. /\ Left \in [Stems -> Nat] /\ Used \in [Stems -> Nat]
      /\ Total(Left) \in Nat /\ Total(Used) \in Nat
  BY Sums DEF CountInv
<1>7. PICK f \in [1..m -> Nat] : f = Left /\ f[i] = k
  BY <1>1, <1>3, <1>5, <1>6 DEF Left
<1>8. PICK l \in [1..m -> Nat] : l = Left' /\ l[i] = 0 /\ \A j \in 1..m : j # i => l[j] = f[j]
  <2> DEFINE l == [j \in 1..m |-> IF j = i THEN 0 ELSE f[j]]
  <2>1. l = Left'
    BY <1>2, <1>4, <1>5, <1>7 DEF Left
  <2> QED
    BY <1>5, <2>1
<1>9. Total(f) = Total(l) + k
  <2>1. i \in 1..m /\ f[i] = l[i] + k /\ \A j \in 1..m : j # i => f[j] = l[j]
    BY <1>5, <1>7, <1>8
  <2>2. \A F, G \in [1..m -> Nat] : \A d \in Nat :
          G[i] = F[i] + d /\ (\A j \in 1..m : j # i => G[j] = F[j]) => Total(G) = Total(F) + d
    BY <2>1, TotalAdds
  <2> QED
    BY <2>1, <2>2
<1>10. Total(Left)' = Total(l) /\ Total(l) \in Nat
  BY <1>8, TotalIsNat DEF Total, Points
<1>11. Used' = Used
  BY <1>1, <1>2, <1>4 DEF Used, UsedBy, Pending
<1>12. Total(Used)' = Total(Used)
  BY <1>11 DEF Total, Points
<1>13. ~failing' => returned = tokens' + Total(l)
  BY <1>1, <1>3, <1>7, <1>9, <1>10 DEF CountInv
<1>14. tokens' \in Nat
  BY <1>1, <1>3 DEF CountInv
<1>15. \A j \in Stems : Fresh(tasks'[j])
  BY <1>4 DEF CountInv, Fresh
<1>16. outcome # "generated"
  BY <1>1 DEF PoolInv
<1> QED
  BY <1>1, <1>2, <1>10, <1>12, <1>13, <1>14, <1>15, <1>16 DEF CountInv

\* The grader's call.
LEMMA GradeCounts ==
  ASSUME CountInv, PoolInv, Grade, phase' # "down"
  PROVE  CountInv'
<1>1. /\ UNCHANGED <<world, tasks, failing, attempt, tries>>
      /\ phase = "grade" /\ phase' \in {"swot", "report"}
      /\ outcome' \in {"error", "evaluated"}
      /\ tried' \in {tried, tried + 1}
      /\ \/ UNCHANGED <<returned, tokens>>
         \/ returned' = returned + 1 /\ tokens' = tokens + 1
         \/ returned' = returned + 0 /\ tokens' = tokens + 0
  <2>1. ~Raise
    BY DEF Raise, Goto
  <2>2. tried \in Nat
    BY DEF CountInv
  <2> QED
    BY <2>1, <2>2 DEF Grade, Calls, Goto, Error, reading, environment
<1>2. Left' = Left /\ Stems' = Stems /\ Budget' = Budget
  BY <1>1 DEF Left, Stems, Budget
<1>3. Total(Left)' = Total(Left)
  BY <1>2 DEF Total, Points
<1>4. Total(Left) \in Nat
  BY Sums DEF CountInv
<1>5. ~failing' => returned' = tokens' + Total(Left)'
  BY <1>1, <1>3, <1>4 DEF CountInv
<1>6. tried' \in {0, 1} /\ tried' <= Budget
  BY <1>1, Budgets DEF CountInv
<1>7. returned' \in Nat /\ tokens' \in Nat
  BY <1>1 DEF CountInv
<1> QED
  BY <1>1, <1>2, <1>5, <1>6, <1>7 DEF CountInv, Fresh

LEMMA SwotCounts ==
  ASSUME CountInv, PoolInv, Swot, phase' # "down"
  PROVE  CountInv'
<1>1. /\ UNCHANGED <<world, tasks, failing, attempt, tries, returned, tokens, outcome>>
      /\ phase = "swot" /\ phase' = "report" /\ tried' = tried + 1
  BY DEF Swot, PublishFails, Raise, Goto, reading, environment
<1>2. Left' = Left /\ Stems' = Stems /\ Budget' = Budget
  BY <1>1 DEF Left, Stems, Budget
<1>3. Total(Left)' = Total(Left)
  BY <1>2 DEF Total, Points
<1>4. tried' \in Nat /\ tried' <= Budget
  BY <1>1, Budgets DEF CountInv
<1> QED
  BY <1>1, <1>2, <1>3, <1>4 DEF CountInv, Fresh

\* The set is built of tasks that were all collected, so that nothing is left.
LEMMA AssembleIdles ==
  ASSUME CountInv, PoolInv, Assemble
  PROVE  Idles \/ Raise
<1>1. phase = "assemble" => tokens = returned
  <2> SUFFICES ASSUME phase = "assemble"  PROVE tokens = returned
    OBVIOUS
  <2>1. \A i \in DOMAIN Left : Left[i] = 0
    BY DEF PoolInv, Left
  <2>2. Total(Left) = 0
    BY <2>1, TotalOfNothing
  <2> QED
    BY <2>2 DEF CountInv, PoolInv
<1> QED
  BY <1>1 DEF Assemble, Idles, Goto, Error, reading, environment

LEMMA OthersIdle ==
  ASSUME Start \/ Input \/ LeavePool \/ Report \/ Tokens \/ Restart \/ Commit
           \/ (\E t \in Topic : Poll(t)) \/ UNCHANGED vars
  PROVE  Idles \/ Raise
<1> USE DEF Idles, Goto, Error, PublishFails, reading, environment, locals
<1>1. CASE Start \/ Input
  BY <1>1 DEF Start, Input
<1>2. CASE LeavePool
  BY <1>2 DEF LeavePool
<1>3. CASE Report \/ Tokens
  BY <1>3 DEF Report, Tokens
<1>4. CASE Restart \/ Commit
  BY <1>4 DEF Restart, Commit
<1>5. CASE \E t \in Topic : Poll(t)
  BY <1>5 DEF Poll
<1>6. CASE UNCHANGED vars
  BY <1>6 DEF vars
<1> QED
  BY <1>1, <1>2, <1>3, <1>4, <1>5, <1>6

LEMMA CountInvStep ==
  ASSUME CountInv, PoolInv, [Next]_vars
  PROVE  CountInv'
<1>1. world' = world /\ world \in Worlds
  BY WorldStays DEF CountInv
<1>2. CASE Raise
  BY <1>1, <1>2, ForgetClears DEF Raise, Goto
<1>3. CASE Idles
  BY <1>3, IdlesCounts
<1>4. CASE StemFails \/ StemBad \/ StemGood
  BY <1>4, StemsCount, StemGoodCounts
<1>5. ASSUME NEW i \in Stems, Task(i) \/ Collect(i)  PROVE CountInv'
  BY <1>5, TaskCounts, CollectCounts
<1>6. CASE Assemble
  BY <1>2, <1>3, <1>6, AssembleIdles
<1>7. CASE Grade \/ Swot
  <2>1. CASE phase' = "down"
    <3>1. Raise
      BY <1>7, <2>1 DEF Grade, Swot, PublishFails, Goto, Error
    <3> QED
      BY <1>2, <3>1
  <2> QED
    BY <1>7, <2>1, GradeCounts, SwotCounts
<1>8. CASE Complete
  <2>1. CASE Forget /\ phase' = "idle"
    BY <1>1, <2>1, ForgetClears
  <2> QED
    BY <1>2, <1>8, <2>1 DEF Complete, PublishFails, Goto
<1>9. CASE Crash
  BY <1>2, <1>9 DEF Crash
<1> QED
  BY <1>2, <1>3, <1>4, <1>5, <1>6, <1>7, <1>8, <1>9, OthersIdle DEF Next, Work, Generate

\* For every number of stems, attempts and tries: the questions of a generated
\* quiz are the expansions of their stems, its tokens those of every call that
\* returned, and no record costs more calls than its retries stand for, in
\* whatever order threads and calls end (agent.py:204, 270, 761, 829-838).
THEOREM GenerationIsSoundAlways == Spec => []GenerationIsSound
<1>1. Init => CountInv
  <2> SUFFICES ASSUME Init  PROVE CountInv
    OBVIOUS
  <2>1. Total(Left) = 0
    <3>1. \A i \in DOMAIN Left : Left[i] = 0
      BY DEF Left, Init, NoTask
    <3> QED
      BY <3>1, TotalOfNothing
  <2>2. MaxAttempts \in Nat \ {0} /\ MaxTries \in Nat \ {0} /\ Budget \in Nat
    BY QuizAssumption, Budgets DEF Init
  <2> QED
    BY <2>1, <2>2 DEF Init, CountInv, NoTask, Fresh
<1>2. CountInv /\ PoolInv => GenerationIsSound
  BY DEF CountInv, PoolInv, GenerationIsSound, QuizIsTheStems, TokensAddUp, CallBudget,
         Budget, Round
<1> QED
  BY <1>1, <1>2, CountInvStep, PoolInvariant, PTL DEF Spec
=============================================================================
