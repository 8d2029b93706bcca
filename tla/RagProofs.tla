----------------------------- MODULE RagProofs -------------------------------
(***************************************************************************)
(* Promises of the retrieval service, for every log, batch, number of      *)
(* pages and threads, settings and number of starts: what is committed is  *)
(* finished, however often the process is killed; a stop repeats nothing;  *)
(* the pages of a completion are those of its files, in their order,       *)
(* however the threads of the pool interleave.                             *)
(*                                                                         *)
(* They rest on BatchInv, what is left of a batch is the end of what was   *)
(* polled, so that everything before it has been handled, and on PoolInv,  *)
(* every page has one result at most, which fits what the page is.         *)
(***************************************************************************)
EXTENDS RagAgent, FiniteSetTheorems, WellFoundedInduction, TLAPS

Handling == {"run", "pages", "publish"}

\* The records polled that are not in the batch any more.
Begun == position - Len(batch)

BatchInv ==
  /\ Len(Log) \in Nat
  /\ committed \in Nat /\ position \in Nat
  /\ committed <= position /\ position <= Len(Log)
  /\ loop \in {"off", "poll", "next"} \cup Handling
  /\ main = "off" => loop = "off"
  /\ batch \in Seq(Nat) /\ Len(batch) <= position
  /\ \A i \in 1..Len(batch) : batch[i] = Begun + i
  /\ loop \in {"off", "poll"} => batch = <<>>

\* A step inside the handling of a record, its publication not included.
Inside ==
  /\ loop \in Handling /\ loop' \in Handling
  /\ UNCHANGED <<world, committed, position, main, batch, task, dispatched, published>>

LEMMA RunIsInside ==
  ASSUME Run \/ PagesStep \/ Reduce
  PROVE  Inside
<1> USE DEF Inside, Handling, offsets, environment, published, PoolOnly, InPool
<1>1. CASE Run
  BY <1>1 DEF Run
<1>2. CASE PagesStep
  <2>1. PICK i \in DOMAIN pages : \/ PageStarts(i) \/ RedirectStdout(i) \/ RestoreStdout(i)
                                  \/ Score(i) \/ CollectPage(i)
    BY <1>2 DEF PagesStep
  <2>2. CASE PageStarts(i) \/ CollectPage(i)
    BY <2>2 DEF PageStarts, CollectPage
  <2>3. CASE RedirectStdout(i) \/ RestoreStdout(i)
    BY <2>3 DEF RedirectStdout, RestoreStdout
  <2>4. CASE Score(i)
    BY <2>4 DEF Score
  <2> QED
    BY <2>1, <2>2, <2>3, <2>4
<1>3. CASE Reduce
  BY <1>3 DEF Reduce
<1> QED
  BY <1>1, <1>2, <1>3

-----------------------------------------------------------------------------
(* What is left of a batch.                                                *)

\* Where the worker stands, with a batch of one record or more in hand.
LEMMA BatchHead ==
  ASSUME BatchInv, batch # <<>>
  PROVE  /\ Head(batch) = Begun + 1 /\ Head(batch) \in DOMAIN Log
         /\ Tail(batch) \in Seq(Nat) /\ Len(Tail(batch)) = Len(batch) - 1
         /\ \A i \in 1..Len(Tail(batch)) : Tail(batch)[i] = batch[i + 1]
<1>1. Len(batch) \in Nat /\ Len(batch) >= 1 /\ Head(batch) = batch[1]
  BY DEF BatchInv
<1>2. Head(batch) = Begun + 1
  BY <1>1 DEF BatchInv
<1>3. DOMAIN Log = 1..Len(Log)
  BY DEF BatchInv
<1> QED
  BY <1>1, <1>2, <1>3 DEF BatchInv, Begun

LEMMA BatchInvStep ==
  ASSUME BatchInv, [Next]_vars
  PROVE  BatchInv'
<1> USE DEF BatchInv, Begun, Handling, Log
<1>1. CASE Inside
  BY <1>1 DEF Inside
<1>2. CASE Start
  BY <1>2 DEF Start, environment, local
<1>3. CASE Stop \/ CloseConsumer \/ CloseProducer
  BY <1>3 DEF Stop, CloseConsumer, CloseProducer, offsets, environment, local
<1>4. CASE Exit \/ Kill
  <2>1. /\ UNCHANGED <<world, committed, position>>
        /\ main' = "off" /\ loop' = "off" /\ batch' = <<>>
    BY <1>4 DEF Exit, Kill, Vanish, offsets, environment
  <2> QED
    BY <2>1
<1>5. CASE Poll
  <2>1. PICK n \in 1..(Len(Log) - position) :
          /\ batch' = [i \in 1..n |-> position + i] /\ position' = position + n
    BY <1>5 DEF Poll
  <2>2. n \in Nat /\ n <= Len(Log) - position
    BY <2>1
  <2>3. batch' \in Seq(Nat) /\ Len(batch') = n /\ \A i \in 1..n : batch'[i] = position + i
    BY <2>1, <2>2
  <2>4. loop' = "next" /\ world' = world /\ main' = main /\ committed' \in {committed, position}
    BY <1>5 DEF Poll, environment
  <2> QED
    BY <1>5, <2>1, <2>2, <2>3, <2>4 DEF Poll
<1>6. CASE IdlePoll \/ EndLoop
  BY <1>6 DEF IdlePoll, EndLoop, offsets, environment, local
<1>7. CASE NextRecord
  <2>1. UNCHANGED <<world, committed, position, main>> /\ loop = "next"
    BY <1>7 DEF NextRecord, offsets, environment
  <2>2. CASE batch' = <<>>
    BY <1>7, <2>1, <2>2 DEF NextRecord
  <2>3. CASE batch # <<>> /\ batch' = Tail(batch)
    BY <1>7, <2>1, <2>3, BatchHead DEF NextRecord
  <2> QED
    BY <1>7, <2>2, <2>3 DEF NextRecord
<1>8. CASE Publish
  BY <1>8 DEF Publish, ForgetTask, offsets, environment
<1>9. CASE UNCHANGED vars
  BY <1>9 DEF vars, offsets, environment, local
<1> QED
  BY <1>1, <1>2, <1>3, <1>4, <1>5, <1>6, <1>7, <1>8, <1>9, RunIsInside DEF Next, Work

LEMMA BatchInvInit ==
  ASSUME Init
  PROVE  BatchInv
<1>1. Log \in Seq(RecordType)
  BY RagAssumption DEF Init, Log, WorldType
<1>2. Len(Log) \in Nat
  BY <1>1
<1> QED
  BY <1>2 DEF Init, BatchInv, Begun, Handling

-----------------------------------------------------------------------------
(* What is committed is finished.                                          *)

\* A record that was begun has been finished, unless it is the one in hand.
FinishInv ==
  NeverStopped =>
    /\ main \in {"off", "up"}
    /\ \A k \in 1..committed : Log[k].shape = "request" => Finished(k)
    /\ loop # "off" => \A k \in 1..Begun : Log[k].shape = "request" =>
                         Finished(k) \/ (loop \in Handling /\ k = task)

LEMMA FinishInvStep ==
  ASSUME BatchInv, FinishInv, [Next]_vars
  PROVE  FinishInv'
<1> SUFFICES ASSUME NeverStopped'  PROVE FinishInv'
  BY DEF FinishInv
<1>0. NeverStopped /\ world' = world /\ Log' = Log
  BY DEF NeverStopped, Log, Next, vars, environment, Work, Start, CloseConsumer, CloseProducer, Exit,
         Vanish, Poll, IdlePoll, EndLoop, NextRecord, Run, PagesStep, Reduce, Publish, Stop, Kill,
         PageStarts, RedirectStdout, RestoreStdout, Score, CollectPage, PoolOnly
<1> USE <1>0 DEF FinishInv, Finished, Handling
<1>1. CASE Inside
  BY <1>1 DEF Inside, published, Begun
<1>2. CASE Start
  BY <1>2 DEF Start, local, published, Begun, BatchInv
<1>3. CASE Stop \/ CloseConsumer \/ CloseProducer \/ Exit
  BY <1>3 DEF Stop, CloseConsumer, CloseProducer, Exit, NeverStopped
<1>4. CASE Kill
  BY <1>4 DEF Kill, Vanish, offsets, published
<1>5. CASE Poll
  <2>1. PICK n \in 1..(Len(Log) - position) :
          /\ batch' = [i \in 1..n |-> position + i] /\ position' = position + n
    BY <1>5 DEF Poll
  <2>2. n \in Nat /\ Len(batch') = n
    BY <2>1 DEF BatchInv
  <2>3. Begun' = position /\ Begun = position
    BY <1>5, <2>1, <2>2 DEF Begun, BatchInv, Poll
  <2>4. \A k \in 1..position : Log[k].shape = "request" => Finished(k)
    BY <1>5, <2>3 DEF Poll
  <2>5. UNCHANGED <<main, published>> /\ committed' \in {committed, position} /\ loop' = "next"
    BY <1>5 DEF Poll
  <2> QED
    BY <1>5, <2>3, <2>4, <2>5 DEF published, BatchInv
<1>6. CASE IdlePoll \/ EndLoop
  BY <1>6 DEF IdlePoll, EndLoop, offsets, local, published, Begun, BatchInv
<1>7. CASE NextRecord
  <2>1. UNCHANGED <<committed, position, main, published>> /\ loop = "next"
    BY <1>7 DEF NextRecord, offsets
  <2>2. CASE batch = <<>> /\ batch' = batch /\ loop' = "poll"
    BY <1>7, <2>1, <2>2 DEF NextRecord, published, Begun
  <2>3. CASE batch # <<>> /\ Log[Head(batch)].shape = "no_object"
    BY <2>3, BatchHead DEF NeverStopped
  <2>4. CASE batch # <<>> /\ batch' = Tail(batch) /\ loop' \in {"next", "run"}
    <3>1. Begun' = Head(batch) /\ Head(batch) = Begun + 1 /\ Begun \in Nat
      BY <2>1, <2>4, BatchHead DEF Begun, BatchInv
    <3>2. \A k \in 1..Begun' : k \in 1..Begun \/ k = Head(batch)
      BY <3>1
    <3>3. \/ Log[Head(batch)].shape # "request"
          \/ task' = Head(batch) /\ loop' = "run"
      BY <1>7, <2>3, <2>4 DEF NextRecord
    <3> QED
      BY <2>1, <2>4, <3>2, <3>3 DEF published
  <2> QED
    BY <1>7, <2>2, <2>3, <2>4 DEF NextRecord
<1>8. CASE Publish
  <2>1. UNCHANGED <<committed, position, main, batch>> /\ loop = "publish" /\ loop' = "next"
    BY <1>8 DEF Publish, offsets
  <2>2. \A k : Finished(k) => Finished(k)'
    BY <1>8 DEF Publish
  <2>3. \A k : k = task => Finished(k)'
    <3>1. CASE unpublished' = unpublished \cup {task}
      BY <3>1
    <3>2. CASE completions' = completions \cup {[record |-> task, output |-> output]}
      <4>1. \E c \in completions' : c.record = task
        BY <3>2, [record |-> task, output |-> output].record = task
      <4> QED
        BY <4>1
    <3>3. \/ unpublished' = unpublished \cup {task}
          \/ completions' = completions \cup {[record |-> task, output |-> output]}
      BY <1>8 DEF Publish
    <3> QED
      BY <3>1, <3>2, <3>3
  <2> QED
    BY <2>1, <2>2, <2>3 DEF Begun
<1>9. CASE UNCHANGED vars
  BY <1>9 DEF vars, offsets, local, published, Begun
<1> QED
  BY <1>1, <1>2, <1>3, <1>4, <1>5, <1>6, <1>7, <1>8, <1>9, RunIsInside DEF Next, Work

\* Killed at any point and started again, the service has finished every request
\* whose offset is committed (rag_agent/worker.py:190-216): the poll that commits
\* comes after the batch has been worked through.
THEOREM CommittedIsCompletedAlways == Spec => []CommittedIsCompleted
<1>1. Init => BatchInv /\ FinishInv
  BY BatchInvInit DEF Init, FinishInv, Begun
<1>2. BatchInv /\ FinishInv /\ [Next]_vars => (BatchInv /\ FinishInv)'
  BY BatchInvStep, FinishInvStep
<1>3. FinishInv => CommittedIsCompleted
  BY DEF FinishInv, CommittedIsCompleted
<1> QED
  BY <1>1, <1>2, <1>3, PTL DEF Spec

-----------------------------------------------------------------------------
(* A stop repeats nothing.                                                 *)

\* Without kills the offset is committed before the process ends, and what has
\* not been begun has never been.
OnceInv ==
  "kill" \notin world.faults =>
    /\ dispatched \in [DOMAIN Log -> Nat]
    /\ main \in {"off", "closing", "closed"} => committed = position
    /\ \A k \in DOMAIN Log : dispatched[k] <= 1 /\ (k > Begun => dispatched[k] = 0)

LEMMA OnceInvStep ==
  ASSUME BatchInv, OnceInv, [Next]_vars
  PROVE  OnceInv'
<1> SUFFICES ASSUME ("kill" \notin world.faults)'  PROVE OnceInv'
  BY DEF OnceInv
<1>0. "kill" \notin world.faults /\ world' = world /\ Log' = Log
  BY DEF Log, Next, vars, environment, Work, Start, CloseConsumer, CloseProducer, Exit,
         Vanish, Poll, IdlePoll, EndLoop, NextRecord, Run, PagesStep, Reduce, Publish, Stop, Kill,
         PageStarts, RedirectStdout, RestoreStdout, Score, CollectPage, PoolOnly
<1>a. DOMAIN Log = 1..Len(Log)
  BY DEF BatchInv
<1> USE <1>0 DEF OnceInv
<1>1. CASE Inside
  BY <1>1 DEF Inside, Begun
<1>2. CASE Start
  BY <1>2 DEF Start, local, Begun, BatchInv
<1>3. CASE Stop \/ CloseConsumer \/ CloseProducer
  BY <1>3 DEF Stop, CloseConsumer, CloseProducer, offsets, local, Begun
<1>4. CASE Exit
  <2>1. /\ committed' = committed /\ position' = position /\ dispatched' = dispatched
        /\ batch' = <<>> /\ committed = position
    BY <1>4 DEF Exit, Vanish, offsets
  <2>2. Begun' = position /\ Begun <= position /\ position \in Nat
    BY <2>1 DEF Begun, BatchInv
  <2>3. \A k \in DOMAIN Log : k > Begun' => k > Begun
    BY <2>2, <1>a DEF Begun, BatchInv
  <2> QED
    BY <2>1, <2>3
<1>5. CASE Poll
  <2>1. PICK n \in 1..(Len(Log) - position) :
          /\ batch' = [i \in 1..n |-> position + i] /\ position' = position + n
    BY <1>5 DEF Poll
  <2>2. Begun' = position /\ Begun = position
    BY <1>5, <2>1 DEF Begun, BatchInv, Poll
  <2>3. main = "up" /\ main' = main /\ dispatched' = dispatched
    BY <1>5 DEF Poll
  <2> QED
    BY <2>2, <2>3
<1>6. CASE IdlePoll \/ EndLoop
  BY <1>6 DEF IdlePoll, EndLoop, offsets, local, Begun
<1>7. CASE NextRecord
  <2>1. UNCHANGED <<committed, position, main>>
    BY <1>7 DEF NextRecord, offsets
  <2>2. CASE batch' = <<>> /\ dispatched' = dispatched
    <3>1. Begun' = position /\ Begun <= position /\ Begun \in Nat /\ position \in Nat
      BY <2>1, <2>2 DEF Begun, BatchInv
    <3>2. \A k \in DOMAIN Log : k > Begun' => k > Begun
      BY <3>1, <1>a
    <3> QED
      BY <2>1, <2>2, <3>2
  <2>3. CASE batch # <<>> /\ batch' = Tail(batch)
    <3>1. Begun' = Begun + 1 /\ Head(batch) = Begun + 1 /\ Begun \in Nat /\ Head(batch) \in DOMAIN Log
      BY <2>1, <2>3, BatchHead DEF Begun, BatchInv
    <3>2. \A k \in DOMAIN Log : k > Begun' => k > Begun /\ k # Head(batch)
      BY <3>1, <1>a
    <3>3. dispatched[Head(batch)] = 0
      BY <3>1, <1>a
    <3>4. \/ dispatched' = dispatched
          \/ dispatched' = [dispatched EXCEPT ![Head(batch)] = @ + 1]
      BY <1>7, <2>3 DEF NextRecord
    <3> QED
      BY <2>1, <3>1, <3>2, <3>3, <3>4
  <2> QED
    BY <1>7, <2>2, <2>3 DEF NextRecord
<1>8. CASE Publish
  BY <1>8 DEF Publish, offsets, Begun
<1>9. CASE UNCHANGED vars
  BY <1>9 DEF vars, offsets, local, Begun
<1>10. CASE Kill
  BY <1>10 DEF Kill
<1> QED
  BY <1>1, <1>2, <1>3, <1>4, <1>5, <1>6, <1>7, <1>8, <1>9, <1>10, RunIsInside DEF Next, Work

\* A stop and a new start begin no record again (rag_agent/worker.py:218-228): the
\* consumer commits what it has polled as it is closed, under a loop that may still
\* be at work on it.
THEOREM StopRepeatsNothingAlways == Spec => []StopRepeatsNothing
<1>1. Init => BatchInv /\ OnceInv
  BY BatchInvInit DEF Init, OnceInv, Begun, BatchInv
<1>2. BatchInv /\ OnceInv /\ [Next]_vars => (BatchInv /\ OnceInv)'
  BY BatchInvStep, OnceInvStep
<1>3. OnceInv => StopRepeatsNothing
  BY DEF OnceInv, StopRepeatsNothing
<1> QED
  BY <1>1, <1>2, <1>3, PTL DEF Spec

-----------------------------------------------------------------------------
(* Numbers, sequences of sequences, and the elements at some places.       *)

\* Every set of numbers that is not empty has a least one.
LEMMA Least ==
  ASSUME NEW T, T \subseteq Nat, T # {}
  PROVE  \E n \in T : \A m \in T : n <= m
<1>1. PICK n \in T : \A m \in T : <<m, n>> \notin OpToRel(<, Nat)
  BY NatLessThanWellFounded, WFMin
<1>2. \A m \in T : ~ (m < n)
  BY <1>1 DEF OpToRel
<1> QED
  BY <1>2

\* What FlattenSeq's table holds for the first n of a sequence of sequences.
Table(ss, n, f) == f = [i \in 1..n |-> IF i = 1 THEN ss[i] ELSE f[i - 1] \o ss[i]]

LEMMA TableType ==
  ASSUME NEW X, NEW n \in Nat, NEW ss \in [1..n -> Seq(X)], NEW f, Table(ss, n, f)
  PROVE  f \in [1..n -> Seq(X)]
<1> DEFINE T == {i \in 1..n : f[i] \notin Seq(X)}
<1>1. DOMAIN f = 1..n /\ \A i \in 1..n : f[i] = IF i = 1 THEN ss[i] ELSE f[i - 1] \o ss[i]
  BY DEF Table
<1>2. T = {}
  <2> SUFFICES ASSUME T # {}  PROVE FALSE
    OBVIOUS
  <2>0. T \subseteq Nat
    OBVIOUS
  <2>1. PICK i \in T : \A j \in T : i <= j
    BY <2>0, Least
  <2>2. i \in 1..n /\ f[i] \notin Seq(X) /\ ss[i] \in Seq(X)
    OBVIOUS
  <2>3. i # 1
    BY <1>1, <2>2
  <2>4. i - 1 \in 1..n /\ i - 1 \notin T
    BY <2>1, <2>2, <2>3
  <2>5. f[i - 1] \in Seq(X)
    BY <2>4
  <2>6. f[i] = f[i - 1] \o ss[i]
    BY <1>1, <2>2, <2>3
  <2> QED
    BY <2>2, <2>5, <2>6
<1>3. f = [i \in 1..n |-> f[i]]
  BY <1>1 DEF Table
<1> QED
  BY <1>2, <1>3

LEMMA TableExists ==
  ASSUME NEW X, NEW n \in Nat, NEW ss \in [1..n -> Seq(X)]
  PROVE  \E f : Table(ss, n, f)
<1> DEFINE Found(m) == \E f : Table(ss, m, f)
           T == {m \in 0..n : ~ Found(m)}
<1> HIDE DEF Found
<1>0. n \in 0..n
  OBVIOUS
<1> SUFFICES ASSUME T # {}  PROVE FALSE
  BY <1>0 DEF Found
<1>1. T \subseteq Nat
  OBVIOUS
<1>2. PICK m \in T : \A k \in T : m <= k
  BY <1>1, Least
<1>3. m \in 0..n /\ m \in Nat
  OBVIOUS
<1>4. m # 0
  <2>1. Table(ss, 0, [i \in 1..0 |-> IF i = 1 THEN ss[i] ELSE <<>>])
    BY DEF Table
  <2>2. Found(0)
    BY <2>1 DEF Found
  <2> QED
    BY <2>2
<1>5. m - 1 \in 0..n /\ m - 1 \notin T
  BY <1>2, <1>3, <1>4
<1>6. PICK f : Table(ss, m - 1, f)
  BY <1>5 DEF Found
<1> DEFINE g == [i \in 1..m |-> IF i = 1 THEN ss[i] ELSE f[i - 1] \o ss[i]]
<1>7. \A i \in 1..(m - 1) : f[i] = g[i]
  <2>1. \A i \in 1..(m - 1) : f[i] = IF i = 1 THEN ss[i] ELSE f[i - 1] \o ss[i]
    BY <1>6 DEF Table
  <2>2. \A i \in 1..(m - 1) : i \in 1..m
    BY <1>3
  <2> QED
    BY <2>1, <2>2
<1>8. \A i \in 1..m : i # 1 => i - 1 \in 1..(m - 1)
  BY <1>3
<1>9. g = [i \in 1..m |-> IF i = 1 THEN ss[i] ELSE g[i - 1] \o ss[i]]
  <2>1. \A i \in 1..m : g[i] = IF i = 1 THEN ss[i] ELSE g[i - 1] \o ss[i]
    BY <1>7, <1>8
  <2> QED
    BY <2>1
<1>10. Table(ss, m, g)
  BY <1>9 DEF Table
<1>11. Found(m)
  BY <1>10 DEF Found
<1> QED
  BY <1>11

\* Sequences of elements of X, one behind the other, are one of these.
LEMMA FlattenType ==
  ASSUME NEW X, NEW ss \in Seq(Seq(X))
  PROVE  FlattenSeq(ss) \in Seq(X)
<1>1. PICK n \in Nat : ss \in [1..n -> Seq(X)] /\ n = Len(ss)
  OBVIOUS
<1>2. CASE n = 0
  <2>1. FlattenSeq(ss) = ss /\ ss = <<>>
    BY <1>1, <1>2 DEF FlattenSeq
  <2> QED
    BY <2>1
<1>3. CASE n # 0
  <2> DEFINE h == CHOOSE f : f = [i \in 1..n |-> IF i = 1 THEN ss[i] ELSE f[i - 1] \o ss[i]]
  <2>1. FlattenSeq(ss) = h[n]
    BY <1>1, <1>3 DEF FlattenSeq
  <2>2. \E f : f = [i \in 1..n |-> IF i = 1 THEN ss[i] ELSE f[i - 1] \o ss[i]]
    <3>1. \E f : Table(ss, n, f)
      BY <1>1, TableExists
    <3> QED
      BY <3>1 DEF Table
  <2>3. h = [i \in 1..n |-> IF i = 1 THEN ss[i] ELSE h[i - 1] \o ss[i]]
    BY <2>2
  <2>4. Table(ss, n, h)
    BY <2>3 DEF Table
  <2> HIDE DEF h
  <2>5. h \in [1..n -> Seq(X)]
    BY <1>1, <2>4, TableType
  <2> QED
    BY <1>3, <2>1, <2>5
<1> QED
  BY <1>2, <1>3

\* Of the numbers from 1 to n the k-th is k.
LEMMA NthOfInterval ==
  ASSUME NEW n \in Nat, NEW k \in 1..n
  PROVE  Nth(1..n, k) = k
<1>1. \A i \in 1..n : Cardinality({j \in 1..n : j <= i}) = i
  <2> TAKE i \in 1..n
  <2>1. {j \in 1..n : j <= i} = 1..i
    OBVIOUS
  <2>2. Cardinality(1..i) = i
    BY FS_Interval
  <2> QED
    BY <2>1, <2>2
<1> QED
  BY <1>1 DEF Nth

\* As many elements are picked as there are places.
LEMMA PickCounts ==
  ASSUME NEW s, NEW places, IsFiniteSet(places)
  PROVE  /\ Len(Pick(s, places)) = Cardinality(places)
         /\ DOMAIN Pick(s, places) = 1..Cardinality(places)
         /\ Cardinality(places) \in Nat
         /\ Pick(s, places) = <<>> <=> places = {}
<1>1. Cardinality(places) \in Nat
  BY FS_CardinalityType
<1>2. DOMAIN Pick(s, places) = 1..Cardinality(places)
  BY DEF Pick
<1>3. Len(Pick(s, places)) = Cardinality(places)
  BY <1>1, <1>2
<1>4. Cardinality(places) = 0 <=> places = {}
  BY FS_EmptySet
<1>5. Pick(s, places) = <<>> <=> Cardinality(places) = 0
  <2>1. CASE Cardinality(places) = 0
    <3>1. Pick(s, places) = [n \in 1..0 |-> s[Nth(places, n)]]
      BY <2>1 DEF Pick
    <3> QED
      BY <2>1, <3>1
  <2>2. CASE Cardinality(places) # 0
    BY <1>1, <1>3, <2>2
  <2> QED
    BY <2>1, <2>2
<1> QED
  BY <1>1, <1>2, <1>3, <1>4, <1>5

\* Results for every page, none twice, are put into the order of the pages.
LEMMA OrderedResults ==
  ASSUME NEW n \in Nat, NEW rs \in [1..n -> 1..n],
         \A k, l \in 1..n : rs[k] = rs[l] => k = l
  PROVE  InPointerOrder(rs) = [k \in 1..n |-> k]
<1>1. rs \in Injection(1..n, 1..n)
  BY DEF Injection, IsInjective
<1>2. IsFiniteSet(1..n)
  BY FS_Interval
<1>3. rs \in Surjection(1..n, 1..n)
  BY <1>1, <1>2, FS_Injection
<1>4. Range(rs) = 1..n
  <2>1. rs \in [1..n -> 1..n] /\ \A t \in 1..n : \E k \in 1..n : rs[k] = t
    BY <1>3 DEF Surjection
  <2>2. DOMAIN rs = 1..n
    OBVIOUS
  <2> QED
    BY <2>1, <2>2 DEF Range
<1>5. InPointerOrder(rs) = [k \in 1..n |-> Nth(1..n, k)]
  BY <1>4 DEF InPointerOrder
<1> QED
  BY <1>5, NthOfInterval

-----------------------------------------------------------------------------
(* The pages in their order.                                               *)

PointerType == [file : STRING, page : Nat, kind : PageKind]

\* Whatever the files, their pages are a sequence of pages.
LEMMA PointersType ==
  ASSUME NEW files \in Seq(FileType)
  PROVE  /\ Pointers(files) \in Seq(PointerType)
         /\ DOMAIN Pointers(files) = 1..Len(Pointers(files))
         /\ Len(Pointers(files)) \in Nat
<1> DEFINE PagesIn(f) == IF files[f].readable
                           THEN [p \in DOMAIN files[f].pages |->
                                   [file |-> files[f].name, page |-> p, kind |-> files[f].pages[p]]]
                           ELSE <<>>
           ss == [f \in DOMAIN files |-> PagesIn(f)]
<1>1. \A f \in DOMAIN files : PagesIn(f) \in Seq(PointerType)
  <2> TAKE f \in DOMAIN files
  <2>1. files[f] \in FileType
    OBVIOUS
  <2>2. files[f].pages \in Seq(PageKind) /\ files[f].name \in STRING
    BY <2>1 DEF FileType
  <2>3. \A p \in DOMAIN files[f].pages : p \in Nat /\ files[f].pages[p] \in PageKind
    BY <2>2
  <2>4. DOMAIN files[f].pages = 1..Len(files[f].pages) /\ Len(files[f].pages) \in Nat
    BY <2>2
  <2>5. [p \in DOMAIN files[f].pages |->
           [file |-> files[f].name, page |-> p, kind |-> files[f].pages[p]]] \in Seq(PointerType)
    BY <2>2, <2>3, <2>4 DEF PointerType
  <2> QED
    BY <2>5
<1> HIDE DEF PagesIn
<1>2. ss \in Seq(Seq(PointerType))
  BY <1>1
<1>3. FlattenSeq(ss) \in Seq(PointerType)
  BY <1>2, FlattenType
<1>4. Pointers(files) = FlattenSeq(ss)
  BY DEF Pointers, PagesIn
<1> QED
  BY <1>3, <1>4

PageType == [st : {"waiting", "text", "tables", "score", "done", "collected"}, saved : Nat,
             status : {"none", "included", "skipped", "failed"}]

\* What a page may come to.
Fits(kind, status) ==
  /\ kind \in {"empty", "broken"} <=> status = "failed"
  /\ kind = "text" => status = "included"
  /\ status = "included" =>
       kind = "text" \/ (kind = "off_topic" /\ "embedding_fails" \in world.faults)

\* A page that could not be opened never gets further, and one that is done has
\* come to what its kind allows.
PageInv(i) ==
  LET kind == Pointers(Files)[i].kind IN
    /\ pages[i].st \in {"tables", "score"} => kind # "broken"
    /\ pages[i].st \in {"done", "collected"} => Fits(kind, pages[i].status)

\* What the completion of a record says, in the order of the pages.
Right(k, out) ==
  LET files    == Log[k].files
      pointers == Pointers(files)
      texts    == PagesOf(pointers, {"text"})
      failed   == PagesOf(pointers, {"empty", "broken"})
  IN \E places \in SUBSET PagesOf(pointers, {"text", "off_topic"}) :
       /\ texts \subseteq places
       /\ "embedding_fails" \notin world.faults => places = texts
       /\ out.included = Pick(pointers, places)
       /\ out.processed = Len(pointers) - Cardinality(failed)
       /\ out.status =
            IF places = {} THEN "failed"
            ELSE IF failed # {} \/ \E f \in DOMAIN files : ~files[f].readable
              THEN "partial" ELSE "complete"

\* While the pool is at work the results are pages that were collected, none of
\* them twice; what is to be published, and what was, is right.
PoolInv ==
  /\ world \in Worlds
  /\ stdout \in Nat
  /\ main = "off" => loop = "off"
  /\ loop \in Handling => task \in DOMAIN Log
  /\ loop \notin {"pages", "publish"} => results = <<>>
  /\ loop = "pages" =>
       /\ settings = "ok"
       /\ pages \in [DOMAIN Pointers(Files) -> PageType]
       /\ \A i \in DOMAIN pages : PageInv(i)
       /\ results \in Seq(DOMAIN pages)
       /\ \A k \in DOMAIN results : pages[results[k]].st = "collected"
       /\ \A k, l \in DOMAIN results : results[k] = results[l] => k = l
  /\ loop = "publish" /\ settings = "ok" => Right(task, output)
  /\ \A c \in completions : c.record \in DOMAIN Log
  /\ settings = "ok" => \A c \in completions : Right(c.record, c.output)

LEMMA LogType ==
  ASSUME PoolInv, NEW k \in DOMAIN Log
  PROVE  Log[k].files \in Seq(FileType)
<1>1. Log \in Seq(RecordType)
  BY RagAssumption DEF PoolInv, Log, WorldType
<1>2. Log[k] \in RecordType
  BY <1>1
<1> QED
  BY <1>2 DEF RecordType

\* Once every page is in, the results are a permutation of the pages and, put in
\* order, the pages themselves: what is reduced says right what the files hold.
LEMMA ReductionIsRight ==
  ASSUME PoolInv, loop = "pages", Len(results) = Len(pages)
  PROVE  Right(task, Reduction)
<1> DEFINE pointers == Pointers(Files)
           n == Len(pointers)
           ordered == InPointerOrder(results)
           inOrder == [m \in DOMAIN ordered |-> pointers[ordered[m]]]
           Having(st) == {m \in DOMAIN ordered : pages[ordered[m]].status = st}
           With(st) == Pick(inOrder, Having(st))
           texts  == PagesOf(pointers, {"text"})
           failed == PagesOf(pointers, {"empty", "broken"})
           places == Having("included")
           errors == FileErrors(Files) \o
                     [m \in DOMAIN With("failed") |->
                        [file |-> With("failed")[m].file, page |-> With("failed")[m].page,
                         bad |-> TRUE]]
           unreadable == {f \in DOMAIN Files : ~Files[f].readable}
<1>1. Files \in Seq(FileType) /\ Files = Log[task].files
  BY LogType DEF PoolInv, Files, Handling
<1>2. pointers \in Seq(PointerType) /\ n \in Nat /\ DOMAIN pointers = 1..n
  BY <1>1, PointersType
<1>3. /\ pages \in [1..n -> PageType] /\ \A i \in 1..n : PageInv(i)
      /\ results \in Seq(1..n)
      /\ \A k \in DOMAIN results : pages[results[k]].st = "collected"
      /\ \A k, l \in DOMAIN results : results[k] = results[l] => k = l
  BY <1>2 DEF PoolInv
<1>4. Len(pages) = n /\ Len(results) = n /\ results \in [1..n -> 1..n] /\ DOMAIN results = 1..n
  BY <1>2, <1>3
<1>5. ordered = [k \in 1..n |-> k]
  BY <1>2, <1>3, <1>4, OrderedResults
<1>6. \A i \in 1..n : pages[i].st = "collected"
  <2> TAKE i \in 1..n
  <2>1. results \in Surjection(1..n, 1..n)
    <3>1. results \in Injection(1..n, 1..n)
      BY <1>3, <1>4 DEF Injection, IsInjective
    <3>2. IsFiniteSet(1..n)
      BY <1>2, FS_Interval
    <3> QED
      BY <3>1, <3>2, FS_Injection
  <2>2. PICK k \in 1..n : results[k] = i
    BY <2>1 DEF Surjection
  <2> QED
    BY <1>3, <1>4, <2>2
<1>7. \A i \in 1..n : Fits(pointers[i].kind, pages[i].status)
  BY <1>3, <1>6 DEF PageInv
<1>8. DOMAIN ordered = 1..n /\ \A k \in 1..n : ordered[k] = k
  BY <1>5
<1>9. inOrder = pointers
  BY <1>2, <1>8
<1>10. \A st : Having(st) = {k \in 1..n : pages[k].status = st}
  BY <1>8
<1>11. Having("failed") = failed
  <2>1. \A k \in 1..n : pages[k].status = "failed" <=> pointers[k].kind \in {"empty", "broken"}
    BY <1>7 DEF Fits
  <2>2. failed = {k \in 1..n : pointers[k].kind \in {"empty", "broken"}}
    BY <1>2 DEF PagesOf
  <2>3. Having("failed") = {k \in 1..n : pages[k].status = "failed"}
    BY <1>10
  <2> HIDE DEF failed, Having, n, pointers
  <2> QED
    BY <2>1, <2>2, <2>3
<1>12. places \in SUBSET PagesOf(pointers, {"text", "off_topic"}) /\ texts \subseteq places
  <2>1. \A k \in 1..n : pages[k].status = "included" => pointers[k].kind \in {"text", "off_topic"}
    BY <1>7 DEF Fits
  <2>2. \A k \in 1..n : pointers[k].kind = "text" => pages[k].status = "included"
    BY <1>7 DEF Fits
  <2>3. /\ texts = {k \in 1..n : pointers[k].kind = "text"}
        /\ PagesOf(pointers, {"text", "off_topic"}) =
             {k \in 1..n : pointers[k].kind \in {"text", "off_topic"}}
    BY <1>2 DEF PagesOf
  <2>4. places = {k \in 1..n : pages[k].status = "included"}
    BY <1>10
  <2> HIDE DEF texts, places, n, pointers
  <2> QED
    BY <2>1, <2>2, <2>3, <2>4
<1>13. "embedding_fails" \notin world.faults => places = texts
  BY <1>2, <1>7, <1>10 DEF Fits, PagesOf
<1>14. IsFiniteSet(places) /\ IsFiniteSet(failed) /\ IsFiniteSet(unreadable)
  <2>1. IsFiniteSet(1..n) /\ IsFiniteSet(DOMAIN Files)
    <3>1. DOMAIN Files = 1..Len(Files) /\ Len(Files) \in Int /\ 1 \in Int /\ n \in Int
      BY <1>1, <1>2
    <3> QED
      BY <3>1, FS_Interval
  <2>2. places \in SUBSET (1..n) /\ failed \in SUBSET (1..n) /\ unreadable \in SUBSET DOMAIN Files
    BY <1>2, <1>10 DEF PagesOf
  <2> QED
    BY <2>1, <2>2, FS_Subset
<1> HIDE DEF inOrder, Having, ordered, places
<1>15. Reduction = [status    |-> StatusOfRun(With("included"), errors),
                    included  |-> With("included"),
                    processed |-> Len(ordered) - Len(With("failed")),
                    errors    |-> SubSeq(errors, 1, Min({Len(errors), MaxErrors}))]
  BY DEF Reduction, inOrder, Having, ordered
<1>16. With("included") = Pick(pointers, places) /\ With("failed") = Pick(pointers, failed)
  BY <1>9, <1>11 DEF places
<1>17. Len(ordered) = n
  BY <1>2, <1>5
<1>18. Len(Pick(pointers, failed)) = Cardinality(failed) /\ Cardinality(failed) \in Nat
  BY <1>14, PickCounts
<1>19. errors # <<>> <=> failed # {} \/ unreadable # {}
  <2>1. /\ Len(FileErrors(Files)) = Cardinality(unreadable) /\ Cardinality(unreadable) \in Nat
        /\ DOMAIN FileErrors(Files) = 1..Cardinality(unreadable)
    BY <1>14, PickCounts DEF FileErrors
  <2> DEFINE more == [m \in DOMAIN With("failed") |->
                        [file |-> With("failed")[m].file, page |-> With("failed")[m].page,
                         bad |-> TRUE]]
  <2>2. DOMAIN With("failed") = 1..Cardinality(failed)
    BY <1>14, <1>16, PickCounts
  <2>3. Len(more) = Cardinality(failed)
    BY <1>18, <2>2
  <2> HIDE DEF more
  <2>4. errors = FileErrors(Files) \o more
    BY DEF more
  <2>5. Len(FileErrors(Files) \o more) = Cardinality(unreadable) + Cardinality(failed)
    BY <1>18, <2>1, <2>3 DEF FileErrors, Pick
  <2>6. Cardinality(unreadable) = 0 <=> unreadable = {}
    BY <1>14, FS_EmptySet
  <2>7. Cardinality(failed) = 0 <=> failed = {}
    BY <1>14, FS_EmptySet
  <2>8. errors # <<>> <=> Len(errors) # 0
    OBVIOUS
  <2> QED
    BY <1>18, <2>1, <2>4, <2>5, <2>6, <2>7, <2>8
<1>20. Pick(pointers, places) = <<>> <=> places = {}
  BY <1>14, PickCounts
<1>21. pages = <<>> => places = {}
  BY <1>2, <1>4, <1>12 DEF PagesOf
<1> HIDE DEF errors
<1>22. StatusOfRun(With("included"), errors) =
         IF places = {} THEN "failed"
         ELSE IF failed # {} \/ unreadable # {} THEN "partial" ELSE "complete"
  BY <1>16, <1>19, <1>20, <1>21 DEF StatusOfRun
<1>23. unreadable # {} <=> \E f \in DOMAIN Files : ~Files[f].readable
  OBVIOUS
<1> HIDE DEF unreadable, failed, texts, With
<1>24. /\ Reduction.included = Pick(pointers, places)
       /\ Reduction.processed = n - Cardinality(failed)
       /\ Reduction.status =
            IF places = {} THEN "failed"
            ELSE IF failed # {} \/ \E f \in DOMAIN Files : ~Files[f].readable
              THEN "partial" ELSE "complete"
  BY <1>15, <1>16, <1>17, <1>18, <1>22, <1>23
<1> QED
  BY <1>1, <1>12, <1>13, <1>24 DEF Right, failed, texts

\* What a completion should say depends on the log alone.
LEMMA RightStays ==
  ASSUME world' = world, NEW k, NEW out, Right(k, out)
  PROVE  Right(k, out)'
BY DEF Right, Log

\* A step of one thread changes one page, and what the page comes to fits its kind.
LEMMA PoolInvPages ==
  ASSUME PoolInv, PagesStep
  PROVE  PoolInv'
<1> DEFINE pointers == Pointers(Files)
<1>1. PICK i \in DOMAIN pages : \/ PageStarts(i) \/ RedirectStdout(i) \/ RestoreStdout(i)
                                \/ Score(i) \/ CollectPage(i)
  BY DEF PagesStep
<1>2. /\ UNCHANGED <<world, settings, main, loop, task, output, completions>>
      /\ loop = "pages"
  BY <1>1 DEF PageStarts, RedirectStdout, RestoreStdout, Score, CollectPage, PoolOnly, InPool,
              environment, published
<1>3. Files' = Files /\ pointers' = pointers
  BY <1>2 DEF Files, Log
<1>4. /\ settings = "ok" /\ stdout \in Nat
      /\ pages \in [DOMAIN pointers -> PageType]
      /\ \A j \in DOMAIN pages : PageInv(j)
      /\ results \in Seq(DOMAIN pages)
      /\ \A k \in DOMAIN results : pages[results[k]].st = "collected"
      /\ \A k, l \in DOMAIN results : results[k] = results[l] => k = l
  BY <1>2 DEF PoolInv
<1>5. pages[i] \in PageType /\ i \in DOMAIN pointers /\ PageInv(i)
  BY <1>4
<1>6. i \in Nat
  BY <1>2, <1>5, LogType, PointersType DEF PoolInv, Files, Handling
<1>7. /\ stdout' \in Nat
      /\ \E page \in PageType : Page(i, page) /\ PageInv(i)'
  <2>1. CASE PageStarts(i)
    <3> DEFINE page == [pages[i] EXCEPT !.st = "text"]
    <3>1. page \in PageType /\ page.st = "text" /\ Page(i, page)
      BY <1>5, <2>1 DEF PageStarts, PageType
    <3>2. pages'[i] = page
      BY <1>4, <1>5, <3>1 DEF Page
    <3> HIDE DEF page
    <3> QED
      BY <1>4, <2>1, <3>1, <3>2 DEF PageStarts, PageInv
  <2>2. CASE RedirectStdout(i)
    <3>1. CASE pointers[i].kind = "broken"
      <4> DEFINE page == [pages[i] EXCEPT !.st = "done", !.status = "failed"]
      <4>1. /\ page \in PageType /\ page.st = "done" /\ page.status = "failed"
            /\ Page(i, page) /\ stdout' = stdout
        BY <1>5, <2>2, <3>1 DEF RedirectStdout, PageType
      <4>2. pages'[i] = page
        BY <1>4, <1>5, <4>1 DEF Page
      <4> HIDE DEF page
      <4> QED
        BY <1>3, <1>4, <3>1, <4>1, <4>2 DEF PageInv, Fits
    <3>2. CASE pointers[i].kind # "broken"
      <4> DEFINE page == [pages[i] EXCEPT !.st = "tables", !.saved = stdout]
      <4>1. /\ page \in PageType /\ page.st = "tables"
            /\ Page(i, page) /\ stdout' = i
        BY <1>4, <1>5, <2>2, <3>2 DEF RedirectStdout, PageType
      <4>2. pages'[i] = page
        BY <1>4, <1>5, <4>1 DEF Page
      <4> HIDE DEF page
      <4> QED
        BY <1>3, <1>6, <3>2, <4>1, <4>2 DEF PageInv
    <3> QED
      BY <3>1, <3>2
  <2>3. CASE RestoreStdout(i)
    <3> DEFINE page == [pages[i] EXCEPT !.st = "score", !.saved = 0]
    <3>1. /\ page \in PageType /\ page.st = "score" /\ Page(i, page)
          /\ stdout' = pages[i].saved /\ pages[i].st = "tables"
      BY <1>5, <2>3 DEF RestoreStdout, PageType
    <3>2. pages'[i] = page /\ stdout' \in Nat
      BY <1>4, <1>5, <3>1 DEF Page, PageType
    <3> HIDE DEF page
    <3> QED
      BY <1>3, <1>5, <3>1, <3>2 DEF PageInv
  <2>4. CASE Score(i)
    <3>1. PICK status \in {StatusOf(pointers[i].kind)}
                     \cup IF "embedding_fails" \in world.faults /\ pointers[i].kind # "empty"
                            THEN {Neutral} ELSE {} :
            Page(i, [pages[i] EXCEPT !.st = "done", !.status = status])
      BY <2>4 DEF Score
    <3> DEFINE page == [pages[i] EXCEPT !.st = "done", !.status = status]
    <3>2. /\ page \in PageType /\ page.st = "done" /\ page.status = status /\ Page(i, page)
          /\ stdout' = stdout /\ pages[i].st = "score"
      BY <1>5, <2>4, <3>1 DEF Score, PageType, StatusOf, Neutral
    <3>3. pages'[i] = page
      BY <1>4, <1>5, <3>2 DEF Page
    <3>4. pointers[i].kind \in PageKind /\ pointers[i].kind # "broken"
      <4>1. pointers \in Seq(PointerType)
        BY <1>2, LogType, PointersType DEF PoolInv, Files, Handling
      <4>2. pointers[i] \in PointerType
        BY <1>5, <4>1
      <4> QED
        BY <1>5, <3>2, <4>2 DEF PointerType, PageInv
    <3>5. Fits(pointers[i].kind, status)
      BY <3>1, <3>4 DEF Fits, PageKind, StatusOf, Neutral
    <3> HIDE DEF page
    <3> QED
      BY <1>2, <1>3, <1>4, <3>2, <3>3, <3>5 DEF PageInv, Fits
  <2>5. CASE CollectPage(i)
    <3> DEFINE page == [pages[i] EXCEPT !.st = "collected"]
    <3>1. /\ page \in PageType /\ page.st = "collected" /\ page.status = pages[i].status
          /\ Page(i, page) /\ stdout' = stdout /\ pages[i].st = "done"
      BY <1>5, <2>5 DEF CollectPage, PageType
    <3>2. pages'[i] = page
      BY <1>4, <1>5, <3>1 DEF Page
    <3> HIDE DEF page
    <3> QED
      BY <1>2, <1>3, <1>4, <1>5, <3>1, <3>2 DEF PageInv, Fits
  <2> QED
    BY <1>1, <2>1, <2>2, <2>3, <2>4, <2>5
<1>8. /\ pages' \in [DOMAIN pointers -> PageType]
      /\ \A j \in DOMAIN pages' : j # i => pages'[j] = pages[j]
  BY <1>4, <1>5, <1>7 DEF Page
<1>9. \A j \in DOMAIN pages' : PageInv(j)'
  <2> TAKE j \in DOMAIN pages'
  <2>1. CASE j = i
    BY <1>7, <2>1
  <2>2. CASE j # i
    BY <1>2, <1>3, <1>4, <1>8, <2>2 DEF PageInv, Fits
  <2> QED
    BY <2>1, <2>2
<1>10. /\ results' \in Seq(DOMAIN pages')
       /\ \A k \in DOMAIN results' : pages'[results'[k]].st = "collected"
       /\ \A k, l \in DOMAIN results' : results'[k] = results'[l] => k = l
  <2>1. DOMAIN pages' = DOMAIN pages
    BY <1>4, <1>8
  <2>2. \A j \in DOMAIN pages : pages[j].st = "collected" => j # i
    BY <1>1 DEF PageStarts, RedirectStdout, RestoreStdout, Score, CollectPage
  <2>3. \A k \in DOMAIN results : results[k] \in DOMAIN pages /\ results[k] # i
    BY <1>4, <2>2
  <2>4. CASE results' = results
    BY <1>4, <1>8, <2>1, <2>3, <2>4
  <2>5. CASE CollectPage(i)
    <3>1. results' = Append(results, i)
      BY <2>5 DEF CollectPage
    <3>2. pages'[i].st = "collected"
      BY <1>4, <1>5, <2>5 DEF CollectPage, Page, PageType
    <3>3. /\ results' \in Seq(DOMAIN pages) /\ DOMAIN results' = 1..(Len(results) + 1)
          /\ DOMAIN results = 1..Len(results) /\ Len(results) \in Nat
          /\ results'[Len(results) + 1] = i
          /\ \A k \in 1..Len(results) : results'[k] = results[k]
      BY <1>4, <3>1
    <3>4. \A k \in DOMAIN results' : k \in DOMAIN results \/ k = Len(results) + 1
      BY <3>3
    <3>5. \A k \in DOMAIN results' : pages'[results'[k]].st = "collected"
      BY <1>4, <1>8, <2>1, <2>3, <3>2, <3>3, <3>4
    <3>6. \A k, l \in DOMAIN results' : results'[k] = results'[l] => k = l
      BY <1>4, <2>3, <3>3, <3>4
    <3> QED
      BY <2>1, <3>3, <3>5, <3>6
  <2> QED
    BY <1>1, <2>4, <2>5 DEF PageStarts, RedirectStdout, RestoreStdout, Score
<1>11. /\ \A c \in completions : c.record \in DOMAIN Log
       /\ settings = "ok" => \A c \in completions : Right(c.record, c.output)'
  BY <1>2, RightStays DEF PoolInv
<1>12. Log' = Log
  BY <1>2 DEF Log
<1>13. pages' \in [DOMAIN Pointers(Files') -> PageType]
  BY <1>3, <1>8
<1> QED
  BY <1>2, <1>4, <1>7, <1>9, <1>10, <1>11, <1>12, <1>13 DEF PoolInv

LEMMA PoolInvStep ==
  ASSUME BatchInv, PoolInv, [Next]_vars
  PROVE  PoolInv'
<1>0. world' = world /\ settings' = settings /\ Log' = Log
  BY DEF Log, Next, vars, environment, Work, Start, CloseConsumer, CloseProducer, Exit,
         Vanish, Poll, IdlePoll, EndLoop, NextRecord, Run, PagesStep, Reduce, Publish, Stop, Kill,
         PageStarts, RedirectStdout, RestoreStdout, Score, CollectPage, PoolOnly
<1>a. /\ \A c \in completions : c.record \in DOMAIN Log
      /\ settings = "ok" => \A c \in completions : Right(c.record, c.output)'
  BY <1>0, RightStays DEF PoolInv
<1>1. CASE Stop \/ CloseConsumer \/ CloseProducer \/ UNCHANGED vars
  <2>1. UNCHANGED <<loop, task, pages, stdout, results, output, completions>>
    BY <1>1 DEF Stop, CloseConsumer, CloseProducer, vars, local, published
  <2>2. main' = "off" => main = "off"
    BY <1>1 DEF Stop, CloseConsumer, CloseProducer, vars
  <2>3. Files' = Files /\ \A i : PageInv(i) => PageInv(i)'
    BY <1>0, <2>1 DEF Files, PageInv, Fits
  <2>4. Right(task, output) => Right(task, output)'
    BY <1>0, <2>1 DEF Right, Log
  <2>5. DOMAIN Pointers(Files') = DOMAIN Pointers(Files)
    BY <2>3
  <2> QED
    BY <1>0, <1>a, <2>1, <2>2, <2>3, <2>4, <2>5 DEF PoolInv
<1>2. CASE Start
  <2>1. /\ stdout' = 0 /\ loop' = "poll" /\ main' = "up" /\ loop = "off"
        /\ UNCHANGED <<results, completions>>
    BY <1>2 DEF Start, local, published, PoolInv
  <2> QED
    BY <1>0, <1>a, <2>1 DEF PoolInv, Handling
<1>3. CASE Poll \/ IdlePoll \/ EndLoop
  <2>1. /\ loop = "poll" /\ loop' \in {"poll", "next", "off"} /\ main # "off" /\ main' = main
        /\ UNCHANGED <<stdout, results, completions>>
    BY <1>3 DEF Poll, IdlePoll, EndLoop, local, published, PoolInv
  <2> QED
    BY <1>0, <1>a, <2>1 DEF PoolInv, Handling
<1>4. CASE Exit \/ Kill
  <2>1. /\ loop' = "off" /\ results' = <<>> /\ UNCHANGED <<stdout, completions>>
    BY <1>4 DEF Exit, Kill, Vanish, ForgetTask, published
  <2> QED
    BY <1>0, <1>a, <2>1 DEF PoolInv, Handling
<1>5. CASE NextRecord
  <2>1. /\ loop = "next" /\ loop' \in {"poll", "next", "run"} /\ main' = main
        /\ UNCHANGED <<stdout, results, completions>>
    BY <1>5 DEF NextRecord, published
  <2>2. loop' = "run" => batch # <<>> /\ task' = Head(batch)
    BY <1>5, <2>1 DEF NextRecord
  <2>3. loop' = "run" => task' \in DOMAIN Log
    BY <2>2, BatchHead
  <2>4. main' # "off"
    BY <2>1 DEF PoolInv
  <2> QED
    BY <1>0, <1>a, <2>1, <2>3, <2>4 DEF PoolInv, Handling
<1>6. CASE Run
  <2>1. /\ loop = "run" /\ UNCHANGED <<main, task, stdout, results, completions>>
        /\ main # "off" /\ results = <<>>
    BY <1>6 DEF Run, published, PoolInv
  <2>2. Files' = Files
    BY <1>0, <2>1 DEF Files
  <2>3. CASE settings = "ok"
    <3>1. loop' = "pages" /\ pages' = [i \in DOMAIN Pointers(Files) |-> NewPage]
      BY <1>6, <2>3 DEF Run
    <3>2. pages' \in [DOMAIN Pointers(Files') -> PageType] /\ \A i \in DOMAIN pages' : pages'[i].st = "waiting"
      BY <2>2, <3>1 DEF NewPage, PageType
    <3>3. \A i \in DOMAIN pages' : PageInv(i)'
      BY <3>2 DEF PageInv
    <3> QED
      BY <1>0, <1>a, <2>1, <2>3, <3>1, <3>2, <3>3 DEF PoolInv, Handling
  <2>4. CASE settings # "ok"
    BY <1>0, <1>6, <2>1, <2>4 DEF PoolInv, Handling, Run
  <2> QED
    BY <2>3, <2>4
<1>7. CASE PagesStep
  BY <1>7, PoolInvPages
<1>8. CASE Reduce
  <2>1. /\ loop = "pages" /\ Len(results) = Len(pages) /\ output' = Reduction /\ loop' = "publish"
        /\ UNCHANGED <<main, task, stdout, completions>>
    BY <1>8 DEF Reduce, published
  <2>2. Right(task, Reduction)
    BY <2>1, ReductionIsRight
  <2>3. PICK k, out : k = task /\ out = Reduction
    OBVIOUS
  <2>4. Right(k, out)'
    BY <1>0, <2>2, <2>3, RightStays
  <2>5. task' = k /\ output' = out
    BY <2>1, <2>3
  <2>6. Right(task, output)'
    BY <2>4, <2>5 DEF Right
  <2> QED
    BY <1>0, <1>a, <2>1, <2>6 DEF PoolInv, Handling
<1>9. CASE Publish
  <2>1. /\ loop = "publish" /\ loop' = "next" /\ results' = <<>> /\ UNCHANGED <<main, stdout>>
        /\ main # "off" /\ task \in DOMAIN Log
        /\ \/ completions' = completions
           \/ completions' = completions \cup {[record |-> task, output |-> output]}
    BY <1>9 DEF Publish, ForgetTask, PoolInv, Handling
  <2>2. PICK k, out : k = task /\ out = output
    OBVIOUS
  <2>3. settings = "ok" => Right(k, out)'
    BY <1>0, <2>1, <2>2, RightStays DEF PoolInv
  <2>4. \A c \in completions' : c \in completions \/ (c.record = k /\ c.output = out)
    BY <2>1, <2>2
  <2>5. settings = "ok" => \A c \in completions' : Right(c.record, c.output)'
    <3> SUFFICES ASSUME settings = "ok", NEW c \in completions'  PROVE Right(c.record, c.output)'
      OBVIOUS
    <3> QED
      BY <1>a, <2>3, <2>4
  <2>6. \A c \in completions' : c.record \in DOMAIN Log
    BY <1>a, <2>1, <2>2, <2>4
  <2> QED
    BY <1>0, <2>1, <2>5, <2>6 DEF PoolInv, Handling
<1> QED
  BY <1>1, <1>2, <1>3, <1>4, <1>5, <1>6, <1>7, <1>8, <1>9 DEF Next, Work

LEMMA PoolInvGives ==
  ASSUME PoolInv
  PROVE  SourceOrder /\ NoPageLost
<1>1. ASSUME NEW c \in completions, settings = "ok"
      PROVE  Right(c.record, c.output)
  BY <1>1 DEF PoolInv
<1>2. NoPageLost
  BY <1>1 DEF NoPageLost, Right
<1>3. SourceOrder
  <2> SUFFICES ASSUME NEW c \in completions, settings = "ok", "embedding_fails" \notin world.faults
               PROVE  LET files    == Log[c.record].files
                          pointers == Pointers(files)
                      IN  /\ c.output.included = Kept(pointers)
                          /\ c.output.processed = Len(pointers) - Len(Failed(pointers))
                          /\ c.output.status =
                               IF Kept(pointers) = <<>> THEN "failed"
                               ELSE IF Failed(pointers) # <<>> \/ \E f \in DOMAIN files : ~files[f].readable
                                 THEN "partial" ELSE "complete"
    BY DEF SourceOrder
  <2> DEFINE files    == Log[c.record].files
             pointers == Pointers(files)
             texts    == PagesOf(pointers, {"text"})
             failed   == PagesOf(pointers, {"empty", "broken"})
  <2>1. DOMAIN pointers = 1..Len(pointers) /\ Len(pointers) \in Int /\ 1 \in Int
    BY LogType, PointersType DEF PoolInv
  <2>2. IsFiniteSet(texts) /\ IsFiniteSet(failed)
    <3>1. IsFiniteSet(1..Len(pointers))
      BY <2>1, FS_Interval
    <3>2. texts \in SUBSET (1..Len(pointers)) /\ failed \in SUBSET (1..Len(pointers))
      BY <2>1 DEF PagesOf
    <3> QED
      BY <3>1, <3>2, FS_Subset
  <2>3. /\ c.output.included = Pick(pointers, texts)
        /\ c.output.processed = Len(pointers) - Cardinality(failed)
        /\ c.output.status =
             IF texts = {} THEN "failed"
             ELSE IF failed # {} \/ \E f \in DOMAIN files : ~files[f].readable
               THEN "partial" ELSE "complete"
    BY <1>1 DEF Right
  <2>4. Kept(pointers) = Pick(pointers, texts) /\ Failed(pointers) = Pick(pointers, failed)
    BY DEF Kept, Failed
  <2>5. Kept(pointers) = <<>> <=> texts = {}
    BY <2>2, <2>4, PickCounts
  <2>6. (Failed(pointers) = <<>> <=> failed = {}) /\ Len(Failed(pointers)) = Cardinality(failed)
    BY <2>2, <2>4, PickCounts
  <2> HIDE DEF texts, failed, pointers, files
  <2>7. /\ c.output.included = Kept(pointers)
        /\ c.output.processed = Len(pointers) - Len(Failed(pointers))
        /\ c.output.status =
             IF Kept(pointers) = <<>> THEN "failed"
             ELSE IF Failed(pointers) # <<>> \/ \E f \in DOMAIN files : ~files[f].readable
               THEN "partial" ELSE "complete"
    BY <2>3, <2>4, <2>5, <2>6
  <2> QED
    BY <2>7 DEF pointers, files
<1> QED
  BY <1>2, <1>3

LEMMA PoolInvInit ==
  ASSUME Init
  PROVE  PoolInv
BY DEF Init, PoolInv, Handling

\* Whatever the order in which the threads of the pool end, the pages come out in
\* the order of the files and of their pages, without the failed ones, and with the
\* counts and the status to match (rag_agent/agent.py:166-308).
THEOREM SourceOrderAlways == Spec => []SourceOrder
<1>1. Init => BatchInv /\ PoolInv
  BY BatchInvInit, PoolInvInit
<1>2. BatchInv /\ PoolInv /\ [Next]_vars => (BatchInv /\ PoolInv)'
  BY BatchInvStep, PoolInvStep
<1>3. PoolInv => SourceOrder
  BY PoolInvGives
<1> QED
  BY <1>1, <1>2, <1>3, PTL DEF Spec

\* Where embedding fails now and then, no page that is relevant is lost, none
\* that could not be read gets in, and the order stays (rag_agent/utils/tools.py:144-149).
THEOREM NoPageLostAlways == Spec => []NoPageLost
<1>1. Init => BatchInv /\ PoolInv
  BY BatchInvInit, PoolInvInit
<1>2. BatchInv /\ PoolInv /\ [Next]_vars => (BatchInv /\ PoolInv)'
  BY BatchInvStep, PoolInvStep
<1>3. PoolInv => NoPageLost
  BY PoolInvGives
<1> QED
  BY <1>1, <1>2, <1>3, PTL DEF Spec
=============================================================================
