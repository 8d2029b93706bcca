--------------------------- MODULE TeachingProofs ---------------------------
(***************************************************************************)
(* Theorems about ConversationStore, about TeachingAgent which keeps one,  *)
(* and about StreamParser, for any requests, settings, bounds and texts.   *)
(***************************************************************************)
EXTENDS TeachingAgent, MCConversationStore, StreamParser, FiniteSetTheorems, SequenceTheorems,
        WellFoundedInduction, TLAPS

-----------------------------------------------------------------------------
(* The store by itself.                                                    *)

\* Trimming keeps the type and the bound, and invents no turn.
LEMMA TrimType ==
  ASSUME NEW ts \in Seq(Turn)
  PROVE  /\ Trim(ts) \in Seq(Turn)
         /\ Len(Trim(ts)) <= MaxMessages
         /\ \A i \in 1..Len(Trim(ts)) : \E j \in 1..Len(ts) : Trim(ts)[i] = ts[j]
<1> USE StoreAssumption DEF StoreAssumption
<1>1. CASE MaxMessages = 0
  BY <1>1 DEF Trim
<1>2. CASE MaxMessages # 0 /\ Len(ts) > MaxMessages
  <2> DEFINE from == Len(ts) - MaxMessages + 1
  <2>1. from \in 1..Len(ts) /\ Len(ts) \in Nat
    BY <1>2
  <2>2. Trim(ts) = SubSeq(ts, from, Len(ts))
    BY <1>2 DEF Trim
  <2>3. SubSeq(ts, from, Len(ts)) \in Seq(Turn) /\ Len(SubSeq(ts, from, Len(ts))) = MaxMessages
    BY <1>2, <2>1
  <2>4. ASSUME NEW i \in 1..MaxMessages
        PROVE  /\ SubSeq(ts, from, Len(ts))[i] = ts[from + i - 1]
               /\ from + i - 1 \in 1..Len(ts)
    BY <1>2, <2>1
  <2>5. \A i \in 1..MaxMessages : \E j \in 1..Len(ts) : SubSeq(ts, from, Len(ts))[i] = ts[j]
    BY <2>4
  <2>6. ASSUME NEW i \in 1..Len(Trim(ts))
        PROVE  \E j \in 1..Len(ts) : Trim(ts)[i] = ts[j]
    <3>1. i \in 1..MaxMessages /\ Trim(ts)[i] = SubSeq(ts, from, Len(ts))[i]
      BY <2>2, <2>3
    <3> QED
      BY <2>5, <3>1
  <2>7. Trim(ts) \in Seq(Turn) /\ Len(Trim(ts)) <= MaxMessages
    BY <2>2, <2>3
  <2>8. QED
    BY <2>6, <2>7
<1>3. CASE MaxMessages # 0 /\ ~(Len(ts) > MaxMessages)
  <2>1. Trim(ts) = ts
    BY <1>3 DEF Trim
  <2>2. QED
    BY <1>3, <2>1
<1>4. QED
  BY <1>1, <1>2, <1>3

StoreInv == StoreTypeOK /\ Bounded

\* What append_turn adds is at most one turn a side, none of it white space.
LEMMA SaidType ==
  ASSUME NEW c \in Text, NEW role \in {"user", "assistant"}
  PROVE  /\ Said(role, c) \in Seq(Turn)
         /\ \A i \in 1..Len(Said(role, c)) : Said(role, c)[i].content # Blanks
<1> DEFINE t == [role |-> role, content |-> c]
<1>1. t \in Turn
  BY DEF Turn
<1>2. CASE c = Blanks
  BY <1>2 DEF Said
<1>3. CASE c # Blanks
  <2> HIDE DEF t
  <2>1. Said(role, c) = <<t>> /\ t.content # Blanks
    BY <1>3 DEF Said, t
  <2>2. QED
    BY <1>1, <2>1
<1>4. QED
  BY <1>2, <1>3

LEMMA AppendStep ==
  ASSUME StoreInv, NEW s \in Sid, NEW user \in Text, NEW answer \in Text,
         AppendExchange(s, user, answer)
  PROVE  StoreInv'
<1> DEFINE h  == HistoryOf(s)
           u  == Said("user", user)
           a  == Said("assistant", answer)
           ts == h \o u \o a
<1>1. h \in Seq(Turn) /\ \A i \in 1..Len(h) : h[i].content # Blanks
  BY DEF HistoryOf, StoreInv, StoreTypeOK, Bounded
<1>2. /\ u \in Seq(Turn) /\ \A i \in 1..Len(u) : u[i].content # Blanks
      /\ a \in Seq(Turn) /\ \A i \in 1..Len(a) : a[i].content # Blanks
  BY SaidType
<1> HIDE DEF h, u, a
<1>3. ts \in Seq(Turn) /\ \A j \in 1..Len(ts) : ts[j].content # Blanks
  <2>1. h \o u \in Seq(Turn) /\ \A i \in 1..Len(h \o u) : (h \o u)[i].content # Blanks
    BY <1>1, <1>2
  <2>2. QED
    BY <1>2, <2>1
<1>4. turns' = [turns EXCEPT ![s] = Trim(ts)]
  BY DEF AppendExchange, h, u, a
<1> HIDE DEF ts
<1>5. /\ Trim(ts) \in Seq(Turn) /\ Len(Trim(ts)) <= MaxMessages
      /\ \A i \in 1..Len(Trim(ts)) : Trim(ts)[i].content # Blanks
  BY <1>3, TrimType
<1>6. StoreTypeOK'
  BY <1>4, <1>5 DEF AppendExchange, StoreInv, StoreTypeOK
<1>7. Bounded'
  BY <1>4, <1>5 DEF AppendExchange, StoreInv, StoreTypeOK, Bounded
<1>8. QED
  BY <1>6, <1>7 DEF StoreInv

LEMMA StoreStep == StoreInv /\ [StoreNext]_storeVars => StoreInv'
<1> SUFFICES ASSUME StoreInv, [StoreNext]_storeVars
             PROVE  StoreInv'
  OBVIOUS
<1> USE StoreAssumption DEF StoreAssumption
<1>1. ASSUME NEW s \in Sid, Drop(s), UNCHANGED now
      PROVE  StoreInv'
  BY <1>1 DEF Drop, StoreInv, StoreTypeOK, Bounded
<1>2. ASSUME UNCHANGED <<known, turns, lastActive>>, now' = now \/ now' = now + 1
      PROVE  StoreInv'
  BY <1>2 DEF StoreInv, StoreTypeOK, Bounded
<1>3. ASSUME NEW s \in Sid, ReadHistory(s) \/ Clear(s)
      PROVE  StoreInv'
  BY <1>1, <1>2, <1>3 DEF ReadHistory, Clear
<1>4. ASSUME NEW s \in Sid, NEW user \in Text, NEW answer \in Text, AppendTurn(s, user, answer)
      PROVE  StoreInv'
  BY <1>2, <1>4, AppendStep DEF AppendTurn, storeVars
<1>5. CASE ClearAll
  BY <1>5 DEF ClearAll, StoreInv, StoreTypeOK, Bounded
<1>6. CASE Tick
  BY <1>2, <1>6 DEF Tick
<1>7. CASE UNCHANGED storeVars
  BY <1>2, <1>7 DEF storeVars
<1>8. QED
  BY <1>3, <1>4, <1>5, <1>6, <1>7 DEF StoreNext

LEMMA StoreInvariant == StoreSpec => []StoreInv
<1>1. StoreInit => StoreInv
  BY StoreAssumption DEF StoreInit, StoreInv, StoreTypeOK, Bounded, StoreAssumption
<1>2. QED
  BY <1>1, StoreStep, PTL DEF StoreSpec

\* Whatever is asked, answered, cleared or left idle, a session never holds more
\* than max_messages turns (session_memory.py:95-98).
THEOREM BoundedAlways == StoreSpec => []Bounded
<1>1. StoreInv => Bounded
  BY DEF StoreInv
<1>2. QED
  BY <1>1, StoreInvariant, PTL

-----------------------------------------------------------------------------
(* What a session remembers, against the log of what was said.             *)

EntryType == [at : Nat, turn : Turn]

\* The places of a log that its last turn can still reach: no pause longer than
\* TTL between them and the end.
HeldIn(lg) ==
  {i \in 1..Len(lg) :
     /\ lg[i].turn.content # Blanks
     /\ TTL < 0 \/ \A j \in i..(Len(lg) - 1) : lg[j + 1].at - lg[j].at <= TTL}

\* Spoken(s), of any log at any time.
SpokenIn(lg, t) ==
  {i \in 1..Len(lg) :
     /\ lg[i].turn.content # Blanks
     /\ TTL < 0 \/ \A j \in i..Len(lg) :
                     (IF j = Len(lg) THEN t ELSE lg[j + 1].at) - lg[j].at <= TTL}

\* A known session holds the recent tail of its log, as of its last turn; of an
\* unknown one nothing was said, or too long ago.
LogInv ==
  /\ log \in [Sid -> Seq(EntryType)]
  /\ NoSid \notin known
  /\ \A s \in known : /\ log[s] # <<>>
                      /\ lastActive[s] = log[s][Len(log[s])].at
                      /\ IsRecentTail(turns[s], log[s], HeldIn(log[s]))
  /\ \A s \in Sid \ known :
       log[s] # <<>> => TTL >= 0 /\ now - log[s][Len(log[s])].at > TTL

LEMMA SpokenOrGone ==
  ASSUME NEW lg \in Seq(EntryType), NEW t \in Nat, lg # <<>>
  PROVE  SpokenIn(lg, t) = IF TTL >= 0 /\ t - lg[Len(lg)].at > TTL THEN {} ELSE HeldIn(lg)
<1> USE StoreAssumption DEF StoreAssumption
<1> DEFINE n == Len(lg)
<1>1. n \in Nat \ {0} /\ \A i \in 1..n : lg[i].at \in Nat
  <2>1. n \in Nat \ {0} /\ \A i \in 1..n : lg[i] \in EntryType
    OBVIOUS
  <2> QED
    BY <2>1 DEF EntryType
<1>2. CASE TTL >= 0 /\ t - lg[n].at > TTL
  <2>1. ASSUME NEW i \in SpokenIn(lg, t)
        PROVE  FALSE
    <3>1. i \in 1..n /\ n \in i..n
      BY <1>1, <2>1 DEF SpokenIn
    <3>2. t - lg[n].at <= TTL
      BY <1>1, <1>2, <2>1, <3>1 DEF SpokenIn
    <3> QED
      BY <1>1, <1>2, <3>2
  <2> QED
    BY <1>2, <2>1
<1>3. CASE ~(TTL >= 0 /\ t - lg[n].at > TTL)
  <2>1. ASSUME NEW i \in 1..n
        PROVE  i \in SpokenIn(lg, t) <=> i \in HeldIn(lg)
    <3>1. CASE TTL < 0
      BY <3>1 DEF SpokenIn, HeldIn
    <3>2. CASE t - lg[n].at <= TTL
      <4>1. ASSUME NEW j \in i..n
            PROVE  j = n \/ j \in i..(n - 1)
        BY <1>1, <4>1
      <4>2. ASSUME NEW j \in i..(n - 1)
            PROVE  j \in i..n /\ j # n
        BY <1>1, <4>2
      <4>3. (\A j \in i..n : (IF j = n THEN t ELSE lg[j + 1].at) - lg[j].at <= TTL)
            <=> \A j \in i..(n - 1) : lg[j + 1].at - lg[j].at <= TTL
        BY <3>2, <4>1, <4>2
      <4> QED
        BY <4>3 DEF SpokenIn, HeldIn
    <3> QED
      BY <1>1, <1>3, <3>1, <3>2
  <2>2. SpokenIn(lg, t) \subseteq 1..n /\ HeldIn(lg) \subseteq 1..n
    BY DEF SpokenIn, HeldIn
  <2>3. SpokenIn(lg, t) = HeldIn(lg)
    BY <2>1, <2>2
  <2> QED
    BY <1>3, <2>3
<1> QED
  BY <1>2, <1>3

\* What can be reached once two turns are said at t.
LEMMA HeldAfter ==
  ASSUME NEW lg \in Seq(EntryType), NEW t \in Nat,
         NEW e \in EntryType, NEW f \in EntryType, e.at = t, f.at = t
  PROVE  HeldIn(lg \o <<e, f>>) =
           (SpokenIn(lg, t) \cup (IF e.turn.content = Blanks THEN {} ELSE {Len(lg) + 1}))
             \cup (IF f.turn.content = Blanks THEN {} ELSE {Len(lg) + 2})
<1> USE StoreAssumption DEF StoreAssumption
<1> DEFINE n == Len(lg)
           l == lg \o <<e, f>>
<1>1. /\ n \in Nat /\ Len(l) = n + 2 /\ l[n + 1] = e /\ l[n + 2] = f
      /\ \A i \in 1..n : l[i] = lg[i] /\ lg[i].at \in Nat
  <2>1. /\ n \in Nat /\ Len(l) = n + 2 /\ l[n + 1] = e /\ l[n + 2] = f
        /\ \A i \in 1..n : l[i] = lg[i] /\ lg[i] \in EntryType
    OBVIOUS
  <2> QED
    BY <2>1 DEF EntryType
<1> HIDE DEF l
<1>2. ASSUME NEW i \in 1..n
      PROVE  i \in HeldIn(l) <=> i \in SpokenIn(lg, t)
  <2>1. ASSUME NEW j \in i..(n + 1)
        PROVE  j \in i..n \/ j = n + 1
    BY <1>1, <2>1
  <2>2. ASSUME NEW j \in i..n
        PROVE  /\ j \in i..(n + 1)
               /\ l[j + 1].at - l[j].at = (IF j = n THEN t ELSE lg[j + 1].at) - lg[j].at
    <3>1. j \in 1..n /\ j \in i..(n + 1)
      BY <1>1, <2>2
    <3>2. CASE j = n
      BY <1>1, <3>1, <3>2
    <3>3. CASE j # n
      <4>1. j + 1 \in 1..n
        BY <1>1, <3>1, <3>3
      <4> QED
        BY <1>1, <3>1, <3>3, <4>1
    <3> QED
      BY <3>1, <3>2, <3>3
  <2>3. TTL >= 0 => l[(n + 1) + 1].at - l[n + 1].at <= TTL
    <3>1. (n + 1) + 1 = n + 2
      BY <1>1
    <3>2. l[(n + 1) + 1].at = t /\ l[n + 1].at = t
      BY <1>1, <3>1
    <3> QED
      BY <3>2
  <2>4. TTL >= 0 =>
          ((\A j \in i..(n + 1) : l[j + 1].at - l[j].at <= TTL)
           <=> \A j \in i..n : (IF j = n THEN t ELSE lg[j + 1].at) - lg[j].at <= TTL)
    BY <2>1, <2>2, <2>3
  <2>5. i \in 1..Len(l) /\ Len(l) - 1 = n + 1 /\ l[i] = lg[i]
    BY <1>1
  <2>6. i \in HeldIn(l) <=> /\ l[i].turn.content # Blanks
                            /\ TTL < 0 \/ \A j \in i..(n + 1) : l[j + 1].at - l[j].at <= TTL
    BY <2>5 DEF HeldIn
  <2>7. i \in SpokenIn(lg, t)
        <=> /\ lg[i].turn.content # Blanks
            /\ TTL < 0 \/ \A j \in i..n : (IF j = n THEN t ELSE lg[j + 1].at) - lg[j].at <= TTL
    BY DEF SpokenIn
  <2> QED
    BY <2>4, <2>5, <2>6, <2>7
<1>3. n + 1 \in HeldIn(l) <=> e.turn.content # Blanks
  <2>1. n + 1 \in 1..Len(l) /\ Len(l) - 1 = n + 1
    BY <1>1
  <2>2. ASSUME NEW j \in (n + 1)..(n + 1)
        PROVE  TTL >= 0 => l[j + 1].at - l[j].at <= TTL
    <3>1. j = n + 1 /\ j + 1 = n + 2
      BY <1>1, <2>2
    <3> QED
      BY <1>1, <3>1
  <2>3. TTL < 0 \/ \A j \in (n + 1)..(n + 1) : l[j + 1].at - l[j].at <= TTL
    BY <2>2
  <2> QED
    BY <1>1, <2>1, <2>3 DEF HeldIn
<1>4. n + 2 \in HeldIn(l) <=> f.turn.content # Blanks
  <2>1. n + 2 \in 1..Len(l) /\ (n + 2)..(Len(l) - 1) = {}
    BY <1>1
  <2> QED
    BY <1>1, <2>1 DEF HeldIn
<1>5. HeldIn(l) \subseteq 1..(n + 2) /\ SpokenIn(lg, t) \subseteq 1..n
  BY <1>1 DEF HeldIn, SpokenIn
<1>6. 1..(n + 2) = 1..n \cup {n + 1, n + 2}
  BY <1>1
<1>7. HeldIn(l) = (SpokenIn(lg, t) \cup (IF e.turn.content = Blanks THEN {} ELSE {n + 1}))
                    \cup (IF f.turn.content = Blanks THEN {} ELSE {n + 2})
  <2> HIDE DEF n
  <2> QED
    BY <1>2, <1>3, <1>4, <1>5, <1>6
<1> QED
  BY <1>7 DEF l

\* What one side of an exchange adds: its turn, its place, how many it adds.
Side(role, c)      == [role |-> role, content |-> c]
AddPlace(S, c, m)  == S \cup (IF c = Blanks THEN {} ELSE {m})
Counted(k, c)      == IF c = Blanks THEN k ELSE k + 1
Extended(h, role, c)  == h \o Said(role, c)

LEMMA PlacesSaid ==
  ASSUME NEW n \in Nat, NEW m \in Nat, n < m, NEW S \in SUBSET (1..n), NEW c
  PROVE  /\ IsFiniteSet(AddPlace(S, c, m))
         /\ Cardinality(AddPlace(S, c, m)) = Counted(Cardinality(S), c)
         /\ IsFiniteSet(S) /\ Cardinality(S) \in Nat
<1>1. IsFiniteSet(S) /\ Cardinality(S) \in Nat
  <2>1. 1 \in Int /\ n \in Int
    OBVIOUS
  <2>2. IsFiniteSet(1..n)
    BY <2>1, FS_Interval
  <2>3. IsFiniteSet(S)
    BY <2>2, FS_Subset
  <2> QED
    BY <2>3, FS_CardinalityType
<1>2. m \notin S
  OBVIOUS
<1>3. CASE c = Blanks
  <2>1. AddPlace(S, c, m) = S /\ Counted(Cardinality(S), c) = Cardinality(S)
    BY <1>3 DEF AddPlace, Counted
  <2> QED
    BY <1>1, <2>1
<1>4. CASE c # Blanks
  <2>1. AddPlace(S, c, m) = S \cup {m} /\ Counted(Cardinality(S), c) = Cardinality(S) + 1
    BY <1>4 DEF AddPlace, Counted
  <2>2. IsFiniteSet(S \cup {m}) /\ Cardinality(S \cup {m}) = Cardinality(S) + 1
    BY <1>1, <1>2, FS_AddElement
  <2> QED
    BY <1>1, <2>1, <2>2
<1> QED
  BY <1>3, <1>4

LEMMA TurnsHeard ==
  ASSUME NEW h \in Seq(Turn), NEW role \in {"user", "assistant"}, NEW c \in Text
  PROVE  /\ Extended(h, role, c) \in Seq(Turn)
         /\ Len(Extended(h, role, c)) = Counted(Len(h), c)
         /\ c # Blanks => Extended(h, role, c) = Append(h, Side(role, c))
         /\ c = Blanks => Extended(h, role, c) = h
<1>1. Side(role, c) \in Turn
  BY DEF Side, Turn
<1>2. CASE c = Blanks
  <2>1. Extended(h, role, c) = h
    BY <1>2 DEF Extended, Said
  <2> QED
    BY <1>2, <2>1 DEF Counted
<1>3. CASE c # Blanks
  <2>1. Extended(h, role, c) = Append(h, Side(role, c))
    BY <1>1, <1>3 DEF Extended, Said, Side
  <2> QED
    BY <1>1, <1>3, <2>1 DEF Counted
<1> QED
  BY <1>2, <1>3

\* A turn of no words leaves the tail as it is, another becomes its last.
LEMMA TailSaid ==
  ASSUME NEW h \in Seq(Turn), NEW lg, NEW l, NEW n \in Nat, NEW m \in Nat, n < m,
         NEW S \in SUBSET (1..n), EndsWith(h, lg, S),
         \A p \in S : l[p] = lg[p],
         NEW role \in {"user", "assistant"}, NEW c \in Text,
         l[m].turn = Side(role, c)
  PROVE  EndsWith(Extended(h, role, c), l, AddPlace(S, c, m))
<1> DEFINE g == Extended(h, role, c)
           t == Side(role, c)
<1>1. \A p : IsFiniteSet({q \in S : q > p}) /\ Cardinality({q \in S : q > p}) \in Nat
  <2>1. \A p : {q \in S : q > p} \subseteq S
    OBVIOUS
  <2>2. IsFiniteSet(S)
    BY PlacesSaid
  <2> QED
    BY <2>1, <2>2, FS_Subset, FS_CardinalityType
<1>2. CASE c = Blanks
  <2>1. g = h /\ AddPlace(S, c, m) = S
    BY <1>2, TurnsHeard DEF AddPlace
  <2>2. EndsWith(h, l, S)
    BY DEF EndsWith
  <2> QED
    BY <2>1, <2>2
<1>3. CASE c # Blanks
  <2> DEFINE T == S \cup {m}
  <2>1. g = Append(h, t) /\ t \in Turn
    BY <1>3, TurnsHeard DEF Side, Turn
  <2>2. AddPlace(S, c, m) = T
    BY <1>3 DEF AddPlace
  <2> HIDE DEF g, t
  <2>3. g \in Seq(Turn) /\ Len(h) \in Nat /\ Len(g) = Len(h) + 1 /\ g[Len(h) + 1] = t
        /\ \A i \in 1..Len(h) : g[i] = h[i]
    BY <2>1
  <2>4. m \notin S
    OBVIOUS
  <2>5. ASSUME NEW p \in T, NEW k, k = Cardinality({q \in T : q > p}), k < Len(g)
        PROVE  g[Len(g) - k] = l[p].turn
    <3>1. CASE p = m
      <4>1. {q \in T : q > p} = {}
        <5>1. ASSUME NEW q \in T, q > m
              PROVE  FALSE
          BY <2>4, <5>1
        <5> QED
          BY <3>1, <5>1
      <4>2. k = 0
        BY <2>5, <4>1, FS_EmptySet
      <4> QED
        BY <2>3, <3>1, <4>2 DEF t
    <3>2. CASE p # m
      <4> DEFINE later == {q \in S : q > p}
      <4>1. p \in S /\ {q \in T : q > p} = later \cup {m} /\ m \notin later
        BY <2>4, <3>2
      <4>2. IsFiniteSet(later) /\ Cardinality(later) \in Nat
        BY <1>1
      <4> HIDE DEF later
      <4>3. k = Cardinality(later) + 1
        BY <2>5, <4>1, <4>2, FS_AddElement
      <4>4. Cardinality(later) < Len(h) => h[Len(h) - Cardinality(later)] = lg[p].turn
        BY <4>1 DEF EndsWith, later
      <4>5. /\ Len(h) - Cardinality(later) \in 1..Len(h)
            /\ Len(g) - k = Len(h) - Cardinality(later)
            /\ Cardinality(later) < Len(h)
        BY <2>3, <2>5, <4>2, <4>3
      <4>6. g[Len(h) - Cardinality(later)] = h[Len(h) - Cardinality(later)]
        BY <2>3, <4>5
      <4> QED
        BY <4>1, <4>4, <4>5, <4>6
    <3> QED
      BY <3>1, <3>2
  <2>6. EndsWith(g, l, T)
    BY <2>5 DEF EndsWith
  <2> QED
    BY <2>2, <2>6 DEF g
<1> QED
  BY <1>2, <1>3

\* Trimming keeps the end, of the length max_messages allows.
LEMMA TailTrimmed ==
  ASSUME NEW h \in Seq(Turn), NEW lg, NEW n \in Nat, NEW S \in SUBSET (1..n),
         EndsWith(h, lg, S)
  PROVE  /\ Len(Trim(h)) = IF Len(h) < MaxMessages THEN Len(h) ELSE MaxMessages
         /\ EndsWith(Trim(h), lg, S)
<1> USE StoreAssumption DEF StoreAssumption
<1> DEFINE g == Trim(h)
           d == Len(h) - Len(g)
<1>1. Len(h) \in Nat
  OBVIOUS
<1>2. /\ Len(g) = IF Len(h) < MaxMessages THEN Len(h) ELSE MaxMessages
      /\ \A i \in 1..Len(g) : g[i] = h[i + d]
  <2>1. CASE MaxMessages = 0
    <3>1. g = <<>> /\ Len(g) = 0
      BY <2>1 DEF Trim
    <3> QED
      BY <1>1, <2>1, <3>1
  <2>2. CASE MaxMessages # 0 /\ Len(h) > MaxMessages
    <3> DEFINE from == Len(h) - MaxMessages + 1
    <3>1. from \in 1..Len(h)
      BY <2>2
    <3>2. g = SubSeq(h, from, Len(h))
      BY <2>2 DEF Trim
    <3>3. /\ Len(SubSeq(h, from, Len(h))) = MaxMessages
          /\ \A i \in 1..MaxMessages : SubSeq(h, from, Len(h))[i] = h[from + i - 1]
      BY <2>2, <3>1
    <3>4. Len(g) = MaxMessages /\ d = from - 1
      BY <1>1, <3>2, <3>3
    <3>5. ASSUME NEW i \in 1..MaxMessages
          PROVE  from + i - 1 = i + d
      BY <1>1, <3>4
    <3>6. ASSUME NEW i \in 1..Len(g)
          PROVE  g[i] = h[i + d]
      <4> HIDE DEF from, d, g
      <4>1. i \in 1..MaxMessages
        BY <3>4
      <4>2. g[i] = h[from + i - 1]
        BY <3>2, <3>3, <4>1
      <4> QED
        BY <3>5, <4>1, <4>2
    <3> QED
      BY <1>1, <2>2, <3>4, <3>6
  <2>3. CASE MaxMessages # 0 /\ ~(Len(h) > MaxMessages)
    <3>1. g = h /\ d = 0
      BY <1>1, <2>3 DEF Trim
    <3>2. \A i \in 1..Len(h) : i + 0 = i
      OBVIOUS
    <3> HIDE DEF d, g
    <3> QED
      BY <1>1, <2>3, <3>1, <3>2
  <2> QED
    BY <2>1, <2>2, <2>3
<1> HIDE DEF g
<1>3. IsFiniteSet(1..n)
  <2>1. 1 \in Int /\ n \in Int
    OBVIOUS
  <2> QED
    BY <2>1, FS_Interval
<1>4. ASSUME NEW p \in S, NEW k, k = Cardinality({q \in S : q > p}), k < Len(g)
      PROVE  g[Len(g) - k] = lg[p].turn
  <2>1. IsFiniteSet({q \in S : q > p})
    BY <1>3, FS_Subset
  <2>2. k \in Nat
    BY <1>4, <2>1, FS_CardinalityType
  <2>3. k < Len(h) /\ Len(g) - k \in 1..Len(g) /\ (Len(g) - k) + d = Len(h) - k
    BY <1>1, <1>2, <1>4, <2>2
  <2>4. h[Len(h) - k] = lg[p].turn
    BY <1>4, <2>3 DEF EndsWith
  <2>5. g[Len(g) - k] = h[(Len(g) - k) + d]
    BY <1>2, <2>3
  <2> QED
    BY <2>3, <2>4, <2>5
<1>5. EndsWith(g, lg, S)
  BY <1>4 DEF EndsWith
<1> QED
  BY <1>2, <1>5 DEF g

LEMMA NothingSpoken ==
  ASSUME NEW lg
  PROVE  IsRecentTail(<<>>, lg, {})
<1>1. Cardinality({}) = 0 /\ Len(<<>>) = 0
  BY FS_EmptySet
<1> QED
  BY <1>1, StoreAssumption DEF IsRecentTail, EndsWith, StoreAssumption

\* The invariant gives the property.
LEMMA HistoryIsTail ==
  ASSUME StoreInv, LogInv, NEW s \in Sid
  PROVE  /\ IsRecentTail(HistoryOf(s), log[s], SpokenIn(log[s], now))
         /\ HistoryOf(s) \in Seq(Turn)
<1>1. /\ log[s] \in Seq(EntryType) /\ now \in Nat
      /\ turns[s] \in Seq(Turn) /\ <<>> \in Seq(Turn)
  BY DEF StoreInv, StoreTypeOK, LogInv
<1>2. CASE log[s] = <<>>
  <2>1. s \notin known /\ HistoryOf(s) = <<>>
    BY <1>2 DEF LogInv, HistoryOf
  <2>2. SpokenIn(log[s], now) = {}
    BY <1>2 DEF SpokenIn
  <2> QED
    BY <1>1, <2>1, <2>2, NothingSpoken
<1>3. CASE log[s] # <<>> /\ s \in known
  <2>1. /\ lastActive[s] = log[s][Len(log[s])].at /\ s # NoSid
        /\ IsRecentTail(turns[s], log[s], HeldIn(log[s]))
    BY <1>3 DEF LogInv
  <2>2. SpokenIn(log[s], now)
          = IF TTL >= 0 /\ now - log[s][Len(log[s])].at > TTL THEN {} ELSE HeldIn(log[s])
    BY <1>1, <1>3, SpokenOrGone
  <2>3. Expired(s) <=> TTL >= 0 /\ now - log[s][Len(log[s])].at > TTL
    BY <2>1 DEF Expired
  <2>4. CASE Expired(s)
    <3>1. HistoryOf(s) = <<>> /\ SpokenIn(log[s], now) = {}
      BY <2>2, <2>3, <2>4 DEF HistoryOf
    <3> QED
      BY <1>1, <3>1, NothingSpoken
  <2>5. CASE ~Expired(s)
    <3>1. HistoryOf(s) = turns[s] /\ SpokenIn(log[s], now) = HeldIn(log[s])
      BY <1>3, <2>1, <2>2, <2>3, <2>5 DEF HistoryOf
    <3> QED
      BY <1>1, <2>1, <3>1
  <2> QED
    BY <2>4, <2>5
<1>4. CASE log[s] # <<>> /\ s \notin known
  <2>1. TTL >= 0 /\ now - log[s][Len(log[s])].at > TTL
    BY <1>4 DEF LogInv
  <2>2. SpokenIn(log[s], now) = {}
    BY <1>1, <1>4, <2>1, SpokenOrGone
  <2>3. HistoryOf(s) = <<>>
    BY <1>4 DEF HistoryOf
  <2> QED
    BY <1>1, <2>2, <2>3, NothingSpoken
<1> QED
  BY <1>2, <1>3, <1>4

LEMMA SaidStep ==
  ASSUME StoreInv, LogInv, NEW s \in Sid, NEW user \in Text, NEW answer \in Text,
         s # NoSid, AppendExchange(s, user, answer),
         log' = [log EXCEPT ![s] = @ \o <<Entry("user", user), Entry("assistant", answer)>>]
  PROVE  LogInv'
<1> DEFINE e  == Entry("user", user)
           f  == Entry("assistant", answer)
           lg == log[s]
           n  == Len(lg)
           l  == lg \o <<e, f>>
           h  == HistoryOf(s)
           S  == SpokenIn(lg, now)
           g  == Extended(h, "user", user)
           k  == Extended(g, "assistant", answer)
<1>1. Len(log[s]) \in Nat
  BY DEF LogInv
<1>2. PICK x \in Nat : x = n + 1
  BY <1>1
<1>3. PICK y \in Nat : y = n + 2
  BY <1>1
<1> DEFINE T == AddPlace(S, user, x)
           U == AddPlace(T, answer, y)
<1>4. /\ lg \in Seq(EntryType) /\ now \in Nat /\ n \in Nat
      /\ log \in [Sid -> Seq(EntryType)] /\ turns \in [Sid -> Seq(Turn)]
      /\ lastActive \in [Sid -> Nat]
  BY DEF StoreInv, StoreTypeOK, LogInv
<1>5. /\ e \in EntryType /\ e.at = now /\ e.turn = [role |-> "user", content |-> user]
      /\ f \in EntryType /\ f.at = now /\ f.turn = [role |-> "assistant", content |-> answer]
  BY <1>4 DEF Entry, EntryType, Turn
<1>6. e.turn.content = user /\ f.turn.content = answer
  BY <1>5
<1>7. h \in Seq(Turn) /\ IsRecentTail(h, lg, S)
  BY HistoryIsTail
<1> HIDE DEF e, f, h
<1>8. /\ l \in Seq(EntryType) /\ l # <<>> /\ Len(l) = n + 2 /\ l[x] = e /\ l[y] = f
      /\ \A p \in 1..n : l[p] = lg[p]
  BY <1>4, <1>5, <1>2, <1>3
<1>9. HeldIn(l) = U
  <2> HIDE DEF S
  <2>1. HeldIn(l) = (S \cup (IF user = Blanks THEN {} ELSE {n + 1}))
                      \cup (IF answer = Blanks THEN {} ELSE {n + 2})
    <3>1. HeldIn(lg \o <<e, f>>)
            = (SpokenIn(lg, now) \cup (IF e.turn.content = Blanks THEN {} ELSE {Len(lg) + 1}))
                \cup (IF f.turn.content = Blanks THEN {} ELSE {Len(lg) + 2})
      <4> HIDE DEF lg
      <4> QED
        BY <1>4, <1>5, HeldAfter
    <3> QED
      BY <1>6, <3>1 DEF l, S
  <2> QED
    BY <2>1, <1>2, <1>3 DEF AddPlace
<1>10. S \in SUBSET (1..n)
  BY DEF SpokenIn
<1> HIDE DEF l, S
<1>11. /\ EndsWith(g, l, T)
       /\ Cardinality(T) = Counted(Cardinality(S), user)
       /\ g \in Seq(Turn) /\ Len(g) = Counted(Len(h), user)
       /\ T \subseteq 1..x
  <2>1. n < x /\ \A p \in S : l[p] = lg[p]
    BY <1>4, <1>8, <1>10, <1>2
  <2>2. l[x].turn = Side("user", user) /\ EndsWith(h, lg, S)
    BY <1>5, <1>7, <1>8 DEF IsRecentTail, Side
  <2>3. h \in Seq(Turn) /\ n \in Nat /\ x \in Nat /\ S \in SUBSET (1..n) /\ user \in Text
    BY <1>4, <1>7, <1>10, <1>2
  <2>4. "user" \in {"user", "assistant"}
    OBVIOUS
  <2> HIDE DEF lg, n
  <2>5. EndsWith(g, l, T)
    BY <2>1, <2>2, <2>4, <2>3, TailSaid
  <2>6. Cardinality(T) = Counted(Cardinality(S), user)
    <3>1. n \in Nat /\ x \in Nat /\ n < x /\ S \in SUBSET (1..n)
      BY <2>1, <2>3
    <3> QED
      BY <3>1, PlacesSaid
  <2>7. T \subseteq 1..x
    BY <2>1, <2>3 DEF AddPlace
  <2>8. g \in Seq(Turn) /\ Len(g) = Counted(Len(h), user)
    BY <2>4, <2>3, TurnsHeard
  <2> QED
    BY <2>5, <2>6, <2>8, <2>7
<1> HIDE DEF T, g
<1>12. /\ EndsWith(k, l, U)
       /\ Cardinality(U) = Counted(Cardinality(T), answer)
       /\ k \in Seq(Turn) /\ Len(k) = Counted(Len(g), answer)
       /\ U \subseteq 1..y
  <2>1. x < y /\ T \in SUBSET (1..x)
    BY <1>4, <1>11, <1>2, <1>3
  <2>2. l[y].turn = Side("assistant", answer)
    BY <1>5, <1>8 DEF Side
  <2>3. /\ g \in Seq(Turn) /\ x \in Nat /\ y \in Nat /\ T \in SUBSET (1..x)
        /\ answer \in Text /\ EndsWith(g, l, T)
    BY <1>11, <1>2, <1>3
  <2>4. "assistant" \in {"user", "assistant"} /\ \A p \in T : l[p] = l[p]
    OBVIOUS
  <2> HIDE DEF lg, n
  <2>5. EndsWith(k, l, U)
    BY <2>1, <2>2, <2>4, <2>3, TailSaid
  <2>6. Cardinality(U) = Counted(Cardinality(T), answer)
    <3>1. x \in Nat /\ y \in Nat /\ x < y /\ T \in SUBSET (1..x)
      BY <2>1, <2>3
    <3> QED
      BY <3>1, PlacesSaid
  <2>7. U \subseteq 1..y
    BY <2>1, <2>3 DEF AddPlace
  <2>8. k \in Seq(Turn) /\ Len(k) = Counted(Len(g), answer)
    BY <2>4, <2>3, TurnsHeard
  <2> QED
    BY <2>5, <2>6, <2>8, <2>7
<1> HIDE DEF U, k
<1>13. IsRecentTail(Trim(k), l, U)
  <2>1. /\ Len(Trim(k)) = IF Len(k) < MaxMessages THEN Len(k) ELSE MaxMessages
        /\ EndsWith(Trim(k), l, U)
    <3>1. U \in SUBSET (1..y)
      BY <1>12
    <3> QED
      BY <1>12, <1>3, <3>1, TailTrimmed
  <2>2. Len(h) = IF Cardinality(S) < MaxMessages THEN Cardinality(S) ELSE MaxMessages
    BY <1>7 DEF IsRecentTail
  <2>3. Cardinality(S) \in Nat
    <3>1. 1 \in Int /\ n \in Int
      BY <1>4
    <3>2. IsFiniteSet(1..n)
      BY <3>1, FS_Interval
    <3> QED
      BY <1>10, <3>2, FS_Subset, FS_CardinalityType
  <2>4. Len(Trim(k)) = IF Cardinality(U) < MaxMessages THEN Cardinality(U) ELSE MaxMessages
    BY <1>11, <1>12, <2>1, <2>2, <2>3, StoreAssumption DEF StoreAssumption, Counted
  <2> QED
    BY <2>1, <2>4 DEF IsRecentTail
<1>14. /\ known' = known \cup {s} /\ now' = now
       /\ turns' = [turns EXCEPT ![s] = Trim(k)]
       /\ lastActive' = [lastActive EXCEPT ![s] = now]
       /\ log' = [log EXCEPT ![s] = l]
  BY DEF AppendExchange, Extended, k, g, h, l, e, f
<1>15. /\ turns'[s] = Trim(k) /\ lastActive'[s] = now /\ log'[s] = l
       /\ \A r \in Sid : r # s => /\ turns'[r] = turns[r] /\ log'[r] = log[r]
                                  /\ lastActive'[r] = lastActive[r]
       /\ log' \in [Sid -> Seq(EntryType)]
  BY <1>4, <1>8, <1>14
<1>16. l[Len(l)].at = now
  BY <1>5, <1>8, <1>2, <1>3
<1>17. ASSUME NEW r \in known'
       PROVE  /\ log'[r] # <<>>
              /\ lastActive'[r] = log'[r][Len(log'[r])].at
              /\ IsRecentTail(turns'[r], log'[r], HeldIn(log'[r]))
  <2>1. CASE r = s
    BY <1>8, <1>9, <1>13, <1>15, <1>16, <2>1
  <2>2. CASE r # s
    <3>1. r \in known /\ r \in Sid
      BY <1>14, <1>17, <2>2 DEF StoreInv, StoreTypeOK
    <3>2. /\ log[r] # <<>> /\ lastActive[r] = log[r][Len(log[r])].at
          /\ IsRecentTail(turns[r], log[r], HeldIn(log[r]))
      BY <3>1 DEF LogInv
    <3> QED
      BY <1>15, <2>2, <3>1, <3>2
  <2> QED
    BY <2>1, <2>2
<1>18. ASSUME NEW r \in Sid \ known', log'[r] # <<>>
       PROVE  TTL >= 0 /\ now' - log'[r][Len(log'[r])].at > TTL
  <2>1. r # s /\ r \in Sid \ known /\ log'[r] = log[r]
    BY <1>14, <1>15, <1>18
  <2> QED
    BY <1>14, <1>18, <2>1 DEF LogInv
<1>19. NoSid \notin known'
  BY <1>14 DEF LogInv
<1> QED
  BY <1>15, <1>17, <1>18, <1>19 DEF LogInv, IsRecentTail, EndsWith, HeldIn

\* Whatever is forgotten is forgotten whole: what is still known is as it was, and
\* of what is not, nothing was said or too long ago.
LEMMA ForgetStep ==
  ASSUME StoreInv, LogInv, known' \subseteq known, now' \in {now, now + 1},
         log' \in [Sid -> Seq(EntryType)],
         \A s \in known' : /\ turns'[s] = turns[s] /\ lastActive'[s] = lastActive[s]
                           /\ log'[s] = log[s],
         \A s \in Sid \ known' : log'[s] = <<>> \/ (log'[s] = log[s] /\ s \notin known)
                                 \/ (log'[s] = log[s] /\ Expired(s))
  PROVE  LogInv'
<1> USE StoreAssumption DEF StoreAssumption
<1>1. ASSUME NEW r \in known'
      PROVE  /\ log'[r] # <<>>
             /\ lastActive'[r] = log'[r][Len(log'[r])].at
             /\ IsRecentTail(turns'[r], log'[r], HeldIn(log'[r]))
  BY <1>1 DEF LogInv
<1>2. ASSUME NEW r \in Sid \ known', log'[r] # <<>>
      PROVE  TTL >= 0 /\ now' - log'[r][Len(log'[r])].at > TTL
  <2>1. log'[r] = log[r] /\ (r \notin known \/ (r \in known /\ Expired(r)))
    BY <1>2
  <2>2. TTL >= 0 /\ now - log[r][Len(log[r])].at > TTL
    BY <1>2, <2>1 DEF LogInv, Expired
  <2>3. log[r] \in Seq(EntryType) /\ now \in Nat
    BY DEF LogInv, StoreInv, StoreTypeOK
  <2>4. log[r][Len(log[r])] \in EntryType
    BY <1>2, <2>1, <2>3
  <2>5. log[r][Len(log[r])].at \in Nat
    BY <2>4 DEF EntryType
  <2> QED
    BY <2>1, <2>2, <2>3, <2>5
<1>3. NoSid \notin known'
  BY DEF LogInv
<1> QED
  BY <1>1, <1>2, <1>3 DEF LogInv, IsRecentTail, EndsWith, HeldIn

LEMMA LogStep == StoreInv /\ LogInv /\ [LoggedNext]_loggedVars => LogInv'
<1> SUFFICES ASSUME StoreInv, LogInv, [LoggedNext]_loggedVars
             PROVE  LogInv'
  OBVIOUS
<1>0. /\ log \in [Sid -> Seq(EntryType)] /\ <<>> \in Seq(EntryType)
      /\ known \subseteq Sid /\ turns \in [Sid -> Seq(Turn)] /\ lastActive \in [Sid -> Nat]
      /\ now \in Nat
  BY DEF LogInv, StoreInv, StoreTypeOK
<1>1. CASE UNCHANGED loggedVars
  BY <1>0, <1>1, ForgetStep DEF loggedVars, storeVars
<1>2. ASSUME NEW s \in Sid, ReadHistory(s), UNCHANGED log
      PROVE  LogInv'
  <2>1. CASE s \in known /\ Expired(s) /\ s # NoSid
    <3>1. known' = known \ {s} /\ turns' = [turns EXCEPT ![s] = <<>>]
          /\ UNCHANGED <<lastActive, now, log>>
      BY <1>2, <2>1 DEF ReadHistory, Drop
    <3> QED
      BY <1>0, <2>1, <3>1, ForgetStep
  <2>2. CASE ~(s \in known /\ Expired(s) /\ s # NoSid)
    <3>1. UNCHANGED <<known, turns, lastActive, now, log>>
      BY <1>2, <2>2 DEF ReadHistory
    <3> QED
      BY <1>0, <3>1, ForgetStep
  <2> QED
    BY <2>1, <2>2
<1>3. ASSUME NEW s \in Sid, Clear(s), log' = [log EXCEPT ![s] = <<>>]
      PROVE  LogInv'
  BY <1>0, <1>3, ForgetStep DEF Clear, Drop
<1>4. ASSUME NEW s \in Sid, NEW user \in Text, NEW answer \in Text, SayIn(s, user, answer)
      PROVE  LogInv'
  <2>1. CASE s = NoSid \/ user = Empty \/ answer = Empty
    BY <1>0, <1>4, <2>1, ForgetStep DEF SayIn, AppendTurn, storeVars
  <2>2. CASE ~(s = NoSid \/ user = Empty \/ answer = Empty)
    BY <1>4, <2>2, SaidStep DEF SayIn, AppendTurn
  <2> QED
    BY <2>1, <2>2
<1>5. CASE ClearAll /\ log' = [s \in Sid |-> <<>>]
  BY <1>0, <1>5, ForgetStep DEF ClearAll
<1>6. CASE Tick /\ UNCHANGED log
  BY <1>0, <1>6, ForgetStep DEF Tick
<1> QED
  BY <1>1, <1>2, <1>3, <1>4, <1>5, <1>6 DEF LoggedNext

LEMMA LoggedSteps == [LoggedNext]_loggedVars => [StoreNext]_storeVars
BY DEF LoggedNext, SayIn, StoreNext, loggedVars

LEMMA LogInvariant == LoggedSpec => [](StoreInv /\ LogInv)
<1>1. LoggedInit => StoreInv /\ LogInv
  <2> SUFFICES ASSUME LoggedInit
               PROVE  StoreInv /\ LogInv
    OBVIOUS
  <2>1. StoreInv
    BY StoreAssumption
       DEF LoggedInit, StoreInit, StoreInv, StoreTypeOK, Bounded, StoreAssumption
  <2>2. LogInv
    BY DEF LoggedInit, StoreInit, LogInv
  <2> QED
    BY <2>1, <2>2
<1> QED
  BY <1>1, LoggedSteps, StoreStep, LogStep, PTL DEF LoggedSpec

\* The memory of a session is the newest part of the conversation it is in,
\* whatever is asked, cleared or left idle in any session, and at whatever times
\* (session_memory.py:57-104).
THEOREM HistoryIsRecentTailAlways == LoggedSpec => []HistoryIsRecentTail
<1>1. StoreInv /\ LogInv => HistoryIsRecentTail
  <2> SUFFICES ASSUME StoreInv, LogInv, NEW s \in Sid
               PROVE  IsRecentTail(HistoryOf(s), log[s], Spoken(s))
    BY DEF HistoryIsRecentTail
  <2>1. Spoken(s) = SpokenIn(log[s], now)
    BY DEF Spoken, SpokenIn, PauseAfter
  <2> QED
    BY <2>1, HistoryIsTail
<1> QED
  BY <1>1, LogInvariant, PTL

-----------------------------------------------------------------------------
(* What the worker holds.                                                  *)

CompletionType == [ask : Ask, text : Text]

\* There is a task exactly while one is handled; the settings are numbers.
HeldInv ==
  /\ task \in Ask \cup {NoTask} /\ phase \in Phase
  /\ task = NoTask <=> phase = "idle"
  /\ draft \in Text
  /\ completions \in Seq(CompletionType)
  /\ {calls, rounds, reflections} \subseteq Nat

LEMMA AskHas ==
  ASSUME NEW a \in Ask
  PROVE  a.sid \in Sid /\ a.prompt \in Text /\ a # NoTask
BY TeachingAssumption DEF AskType

LEMMA HeldStep ==
  ASSUME HeldInv, [Next]_vars
  PROVE  HeldInv'
<1> USE StoreAssumption, TeachingAssumption
    DEF HeldInv, Goto, Fail, Settle, working, input, settings, output, Called, NotCalled, Phase
<1>0. {Empty, Raw, Canned} \subseteq Text
  BY DEF StoreAssumption, TeachingAssumption
<1>1. CASE \E a \in Ask : Reject(a) \/ GiveUp(a)
  BY <1>1 DEF Reject, GiveUp
<1>2. CASE \E a \in Ask : Take(a)
  BY <1>2, AskHas DEF Take
<1>3. CASE Classify \/ Configure
  BY <1>0, <1>3 DEF Classify, Configure
<1>4. CASE StreamToken \/ StreamEnd
  BY <1>0, <1>4 DEF StreamToken, StreamEnd
<1>5. CASE Diagram \/ RetryDiagram
  BY <1>5 DEF Diagram, RetryDiagram
<1>6. CASE Reflect \/ Revise
  BY <1>6 DEF Reflect, Revise
<1>7. CASE Remember \/ Sentinel \/ CommitOffsets
  BY <1>7 DEF Remember, Sentinel, CommitOffsets
<1>8. CASE Abandon \/ Crash \/ Stop
  BY <1>0, <1>8 DEF Abandon, Crash, Stop, Ends, Release
<1>9. CASE Complete
  <2>1. [ask |-> task, text |-> draft] \in CompletionType
    BY <1>9 DEF Complete, CompletionType
  <2>2. Append(completions, [ask |-> task, text |-> draft]) \in Seq(CompletionType)
    BY <2>1, AppendProperties
  <2> QED
    BY <1>0, <1>9, <2>2 DEF Complete, Release
<1>10. CASE Pass \/ UNCHANGED vars
  BY <1>10 DEF Pass, vars
<1> QED
  BY <1>1, <1>2, <1>3, <1>4, <1>5, <1>6, <1>7, <1>8, <1>9, <1>10 DEF Next, Work

LEMMA HeldInvariant == Spec => []HeldInv
<1>1. Init => HeldInv
  BY StoreAssumption, TeachingAssumption
     DEF Init, Configured, HeldInv, Phase, CompletionType, StoreAssumption, TeachingAssumption
<1> QED
  BY <1>1, HeldStep, PTL DEF Spec

-----------------------------------------------------------------------------
(* What a request costs.                                                   *)

Retry == IF task.level = "beginner" THEN 1 ELSE 0

\* The calls of n rounds of reflection.
Cost(n) == IF task.level = "beginner" THEN 3 * n ELSE 2 * n

\* What has been called by the time the handler is at each of its phases.
BudgetInv ==
  /\ phase \in {"idle", "guardrail"} => calls = 0
  /\ phase \in {"generate", "stream"} => calls <= 1
  /\ phase \in {"idle", "guardrail", "generate", "stream"} => rounds = 0 /\ ~revising
  /\ phase = "retry" => task.level = "beginner"
  /\ phase \in {"diagram", "retry"} /\ ~revising => calls <= 2 /\ rounds = 0
  /\ phase \in {"diagram", "retry"} /\ revising =>
       rounds < reflections /\ calls <= 4 + Retry + Cost(rounds)
  /\ phase = "reflect" => rounds <= reflections /\ calls <= 2 + Retry + Cost(rounds)
  /\ phase = "revise" => rounds < reflections /\ calls <= 3 + Retry + Cost(rounds)
  /\ phase \in {"remember", "sentinel", "complete"} => calls <= 2 + Retry + Cost(reflections)

LEMMA CostGrows ==
  ASSUME NEW n \in Nat, NEW m \in Nat
  PROVE  /\ Retry \in {0, 1} /\ Cost(n) \in Nat /\ Cost(0) = 0
         /\ Cost(n + 1) = Cost(n) + 2 + Retry
         /\ n <= m => Cost(n) <= Cost(m)
         /\ n < m => Cost(n) + 2 + Retry <= Cost(m)
BY DEF Retry, Cost

LEMMA BudgetStep ==
  ASSUME HeldInv, HeldInv', BudgetInv, [Next]_vars
  PROVE  BudgetInv'
<1> USE DEF BudgetInv, Goto, Fail, working, input, settings, output, Called, NotCalled
<1>0. /\ calls \in Nat /\ rounds \in Nat /\ reflections \in Nat
      /\ Retry \in {0, 1} /\ Cost(rounds) \in Nat /\ Cost(reflections) \in Nat /\ Cost(0) = 0
      /\ Cost(rounds + 1) = Cost(rounds) + 2 + Retry
      /\ rounds <= reflections => Cost(rounds) <= Cost(reflections)
      /\ rounds < reflections => Cost(rounds) + 2 + Retry <= Cost(reflections)
  BY CostGrows DEF HeldInv
<1>c. ASSUME task' = task, reflections' = reflections
      PROVE  /\ Retry' = Retry /\ Cost(reflections)' = Cost(reflections)
             /\ rounds' = rounds => Cost(rounds)' = Cost(rounds)
             /\ rounds' = rounds + 1 => Cost(rounds)' = Cost(rounds + 1)
  BY <1>c DEF Retry, Cost
<1>1. CASE Release
  BY <1>1 DEF Release
<1>2. CASE \E a \in Ask : Take(a)
  <2>1. Cost(reflections)' \in Nat /\ Retry' \in {0, 1}
    BY DEF HeldInv, Cost, Retry
  <2> QED
    BY <1>2, <2>1 DEF Take
<1>3. CASE Classify \/ Configure \/ StreamToken \/ StreamEnd
  BY <1>0, <1>c, <1>3 DEF Classify, Configure, StreamToken, StreamEnd
<1>4. CASE Diagram
  BY <1>0, <1>c, <1>4 DEF Diagram, Settle
<1>5. CASE RetryDiagram
  BY <1>0, <1>c, <1>5 DEF RetryDiagram, Settle, Retry
<1>6. CASE Reflect \/ Revise
  BY <1>0, <1>c, <1>6 DEF Reflect, RoundsLeft, Revise
<1>7. CASE Remember \/ Sentinel
  BY <1>0, <1>c, <1>7 DEF Remember, Sentinel
<1>8. CASE (\E a \in Ask : Reject(a) \/ GiveUp(a)) \/ CommitOffsets \/ Pass \/ UNCHANGED vars
  BY <1>0, <1>c, <1>8 DEF Reject, GiveUp, CommitOffsets, Pass, vars
<1> QED
  BY <1>1, <1>2, <1>3, <1>4, <1>5, <1>6, <1>7, <1>8
     DEF Next, Work, Abandon, Complete, Crash, Stop, Ends

\* However many rounds are configured and whichever calls fail, a request costs
\* no more calls than agent.py:89-204 can make of it.
THEOREM CallBudgetAlways == Spec => []CallBudget
<1>1. Init => BudgetInv
  BY DEF Init, BudgetInv
<1>2. HeldInv /\ HeldInv' /\ BudgetInv /\ [Next]_vars => BudgetInv'
  BY BudgetStep
<1>3. HeldInv /\ BudgetInv => CallBudget
  <2> SUFFICES ASSUME HeldInv, BudgetInv, task # NoTask
               PROVE  calls <= 2 + Retry + reflections * (2 + Retry)
    BY DEF CallBudget, Retry
  <2>1. /\ calls \in Nat /\ rounds \in Nat /\ reflections \in Nat
        /\ Retry \in {0, 1} /\ Cost(rounds) \in Nat /\ Cost(reflections) \in Nat /\ Cost(0) = 0
        /\ rounds <= reflections => Cost(rounds) <= Cost(reflections)
        /\ rounds < reflections => Cost(rounds) + 2 + Retry <= Cost(reflections)
    BY CostGrows DEF HeldInv
  <2>2. calls <= 2 + Retry + Cost(reflections)
    BY <2>1 DEF HeldInv, BudgetInv, Phase, Retry
  <2>3. Cost(reflections) = reflections * (2 + Retry)
    BY <2>1 DEF Cost, Retry
  <2> QED
    BY <2>2, <2>3
<1> QED
  BY <1>1, <1>2, <1>3, HeldInvariant, PTL DEF Spec

-----------------------------------------------------------------------------
(* What the sessions remember.                                             *)

Delivered(s, c) == \E k \in 1..Len(completions) :
                     completions[k].ask.sid = s /\ completions[k].text = c
\* ... or about to be.
InHand(s, c) == phase \in {"sentinel", "complete"} /\ task.sid = s /\ draft = c

\* The turns that a session may hold.
Sound(s) == {t \in Turn : t.role = "assistant" => Delivered(s, t.content) \/ InHand(s, t.content)}

MemoryInv ==
  "publish_fails" \notin world => turns \in [Sid -> Seq(Turn)] /\ \A s \in Sid : turns[s] \in Seq(Sound(s))

LEMMA TrimKeeps ==
  ASSUME NEW S, NEW ts \in Seq(S)
  PROVE  Trim(ts) \in Seq(S)
<1> USE StoreAssumption DEF StoreAssumption
<1>1. CASE Len(ts) > MaxMessages /\ MaxMessages # 0
  <2>1. Len(ts) - MaxMessages + 1 \in 1..Len(ts) /\ Len(ts) \in Nat
    BY <1>1, LenProperties
  <2>2. SubSeq(ts, Len(ts) - MaxMessages + 1, Len(ts)) \in Seq(S)
    BY <2>1
  <2> QED
    BY <1>1, <2>2 DEF Trim
<1>2. CASE MaxMessages = 0
  BY <1>2 DEF Trim
<1>3. CASE ~(Len(ts) > MaxMessages) /\ MaxMessages # 0
  BY <1>3 DEF Trim
<1> QED
  BY <1>1, <1>2, <1>3

LEMMA SaidIn ==
  ASSUME NEW S, NEW role, NEW c, [role |-> role, content |-> c] \in S
  PROVE  Said(role, c) \in Seq(S)
<1> DEFINE t == [role |-> role, content |-> c]
<1>1. t \in S
  OBVIOUS
<1> HIDE DEF t
<1>2. <<t>> \in Seq(S) /\ <<>> \in Seq(S)
  BY <1>1
<1> QED
  BY <1>2 DEF Said, t

\* A session keeps its turns or loses them; what was delivered or in hand still is.
LEMMA MemoryKept ==
  ASSUME MemoryInv, world' = world,
         turns \in [Sid -> Seq(Turn)] => /\ turns' \in [Sid -> Seq(Turn)]
                                         /\ \A s \in Sid : turns'[s] \in {turns[s], <<>>},
         \A s \in Sid : \A c \in Text : Delivered(s, c) \/ InHand(s, c) =>
                                          Delivered(s, c)' \/ InHand(s, c)'
  PROVE  MemoryInv'
<1> SUFFICES ASSUME "publish_fails" \notin world, NEW s \in Sid
             PROVE  turns' \in [Sid -> Seq(Turn)] /\ turns'[s] \in Seq(Sound(s)')
  BY DEF MemoryInv
<1>1. Sound(s) \subseteq Sound(s)'
  BY DEF Sound, Turn
<1>2. turns[s] \in Seq(Sound(s)') /\ <<>> \in Seq(Sound(s)')
  BY <1>1, SeqMonotonic DEF MemoryInv
<1> QED
  BY <1>2 DEF MemoryInv

LEMMA MemoryAppended ==
  ASSUME HeldInv, HeldInv', MemoryInv, Remember
  PROVE  MemoryInv'
<1> SUFFICES ASSUME "publish_fails" \notin world
             PROVE  turns' \in [Sid -> Seq(Turn)] /\ \A s \in Sid : turns'[s] \in Seq(Sound(s)')
  BY DEF MemoryInv, Remember, input, settings
<1>1. /\ task \in Ask /\ task.sid \in Sid /\ task.prompt \in Text /\ draft \in Text
      /\ phase = "remember" /\ phase' = "sentinel" /\ task' = task /\ draft' = draft
      /\ completions' = completions
  BY AskHas DEF Remember, HeldInv, Goto, working, output
<1>2. \A s \in Sid : Sound(s) \subseteq Sound(s)' /\ Sound(s) \subseteq Turn /\ Sound(s)' \subseteq Turn
  BY <1>1 DEF Sound, Delivered, InHand, Turn
<1>3. \A s \in Sid : turns[s] \in Seq(Sound(s)') /\ <<>> \in Seq(Sound(s)')
  BY <1>2, SeqMonotonic DEF MemoryInv
<1>4. CASE UNCHANGED storeVars
  BY <1>3, <1>4 DEF storeVars, MemoryInv
<1>5. CASE AppendExchange(task.sid, task.prompt, draft)
  <2>0. PICK s \in Sid : s = task.sid
    BY <1>1
  <2> DEFINE S  == Sound(s)'
             h  == HistoryOf(s)
             u  == Said("user", task.prompt)
             a  == Said("assistant", draft)
  <2>1. [role |-> "user", content |-> task.prompt] \in S
    BY <1>1 DEF Sound, Turn
  <2>2. [role |-> "assistant", content |-> draft] \in S
    BY <1>1, <2>0 DEF Sound, InHand, Turn
  <2>3. h \in Seq(S)
    BY <1>3, <2>0 DEF HistoryOf
  <2>4. u \in Seq(S) /\ a \in Seq(S)
    BY <2>1, <2>2, SaidIn
  <2>5. turns' = [turns EXCEPT ![s] = Trim(h \o u \o a)]
    BY <1>5, <2>0 DEF AppendExchange
  <2>6. Seq(S) \subseteq Seq(Turn)
    BY <1>2, SeqMonotonic
  <2> HIDE DEF S, h, u, a
  <2>7. h \o u \in Seq(S)
    BY <2>3, <2>4, ConcatProperties
  <2>8. Trim(h \o u \o a) \in Seq(S)
    BY <2>4, <2>7, ConcatProperties, TrimKeeps
  <2>9. turns \in [Sid -> Seq(Turn)]
    BY DEF MemoryInv
  <2>10. turns' \in [Sid -> Seq(Turn)] /\ turns'[s] \in Seq(S)
    BY <2>5, <2>6, <2>8, <2>9
  <2>11. \A v \in Sid \ {s} : turns'[v] = turns[v]
    BY <2>5, <2>9
  <2> QED
    BY <1>3, <2>10, <2>11 DEF S
<1> QED
  BY <1>4, <1>5 DEF Remember, AppendTurn

LEMMA MemoryStep ==
  ASSUME HeldInv, HeldInv', MemoryInv, [Next]_vars
  PROVE  MemoryInv'
<1> USE DEF Goto, Fail, working, input, settings, output
<1>1. CASE Remember
  BY <1>1, MemoryAppended
<1>2. CASE Complete
  <2>1. CASE completions' = Append(completions, [ask |-> task, text |-> draft])
    <3> DEFINE c == [ask |-> task, text |-> draft]
    <3>0. c \in CompletionType /\ completions \in Seq(CompletionType)
      BY <1>2 DEF Complete, HeldInv, CompletionType
    <3>1. /\ Len(completions) \in Nat /\ Len(completions') = Len(completions) + 1
          /\ \A k \in 1..Len(completions) : completions'[k] = completions[k]
          /\ completions'[Len(completions) + 1].ask = task
          /\ completions'[Len(completions) + 1].text = draft
      BY <2>1, <3>0, AppendProperties, LenProperties
    <3> HIDE DEF c
    <3>2. \A s \in Sid : \A x \in Text : Delivered(s, x) \/ InHand(s, x) => Delivered(s, x)'
      <4> SUFFICES ASSUME NEW s \in Sid, NEW x \in Text, Delivered(s, x) \/ InHand(s, x)
                   PROVE  Delivered(s, x)'
        OBVIOUS
      <4>1. CASE Delivered(s, x)
        BY <3>1, <4>1 DEF Delivered
      <4>2. CASE InHand(s, x)
        <5>1. Len(completions) + 1 \in 1..Len(completions')
          BY <3>1
        <5> QED
          BY <3>1, <4>2, <5>1 DEF Delivered, InHand
      <4> QED
        BY <4>1, <4>2
    <3> QED
      BY <1>2, <3>2, MemoryKept DEF Complete, storeVars
  <2>2. CASE "publish_fails" \in world
    BY <1>2, <2>2 DEF Complete, MemoryInv
  <2> QED
    BY <1>2, <2>1, <2>2 DEF Complete
<1>3. CASE Sentinel
  BY <1>3, MemoryKept DEF Sentinel, storeVars, Delivered, InHand
<1>4. CASE Crash \/ Stop
  <2>1. /\ turns' = [s \in Sid |-> <<>>] /\ world' = world
    BY <1>4 DEF Crash, Stop, Ends, LoseSessions
  <2> QED
    BY <2>1 DEF MemoryInv
<1>5. CASE \E a \in Ask : Take(a)
  <2>1. PICK a \in Ask : Take(a)
    BY <1>5
  <2>2. /\ phase = "idle" /\ completions' = completions /\ world' = world
        /\ turns' = turns \/ turns' = [turns EXCEPT ![a.sid] = <<>>]
    BY <2>1 DEF Take, ReadHistory, Drop
  <2>3. \A s \in Sid : \A c \in Text : Delivered(s, c) \/ InHand(s, c) =>
                                         Delivered(s, c)' \/ InHand(s, c)'
    BY <2>2 DEF Delivered, InHand
  <2>4. turns \in [Sid -> Seq(Turn)] => /\ turns' \in [Sid -> Seq(Turn)]
                                        /\ \A s \in Sid : turns'[s] \in {turns[s], <<>>}
    <3>1. CASE turns' = turns
      BY <3>1
    <3>2. CASE turns' = [turns EXCEPT ![a.sid] = <<>>]
      <4>1. <<>> \in Seq(Turn) /\ a.sid \in Sid
        BY AskHas
      <4> DEFINE none == <<>>
      <4> HIDE DEF none
      <4>2. turns' = [turns EXCEPT ![a.sid] = none] /\ none \in Seq(Turn)
        BY <3>2, <4>1 DEF none
      <4>3. turns \in [Sid -> Seq(Turn)] => /\ turns' \in [Sid -> Seq(Turn)]
                                            /\ \A s \in Sid : turns'[s] \in {turns[s], none}
        BY <4>1, <4>2
      <4> QED
        BY <4>3 DEF none
    <3> QED
      BY <2>2, <3>1, <3>2
  <2>5. world' = world
    BY <2>2
  <2> QED
    BY <2>3, <2>4, <2>5, MemoryKept
<1>6. CASE Classify \/ Configure \/ StreamToken \/ StreamEnd
  BY <1>6, MemoryKept DEF Classify, Configure, StreamToken, StreamEnd, storeVars, Delivered, InHand
<1>7. CASE Diagram \/ RetryDiagram \/ Reflect \/ Revise
  BY <1>7, MemoryKept DEF Diagram, RetryDiagram, Reflect, Revise, storeVars, Delivered, InHand
<1>8. CASE (\E a \in Ask : Reject(a) \/ GiveUp(a)) \/ Abandon \/ CommitOffsets
  BY <1>8, MemoryKept DEF Reject, GiveUp, Abandon, Release, CommitOffsets, storeVars, Delivered, InHand
<1>9. CASE Pass \/ UNCHANGED vars
  BY <1>9, MemoryKept DEF Pass, Tick, vars, storeVars, Delivered, InHand
<1> QED
  BY <1>1, <1>2, <1>3, <1>4, <1>5, <1>6, <1>7, <1>8, <1>9 DEF Next, Work

\* What a session remembers of an answer has been completed or is about to be
\* (handlers.py:163-194), wherever the process dies and sessions expire.
THEOREM RememberedIsDeliveredAlways == Spec => []RememberedIsDelivered
<1>1. Init => MemoryInv
  BY DEF Init, StoreInit, MemoryInv
<1>2. HeldInv /\ HeldInv' /\ MemoryInv /\ [Next]_vars => MemoryInv'
  BY MemoryStep
<1>3. MemoryInv => RememberedIsDelivered
  <2> SUFFICES ASSUME MemoryInv, "publish_fails" \notin world, NEW s \in Sid,
                      NEW i \in 1..Len(turns[s]), turns[s][i].role = "assistant"
               PROVE  Delivered(s, turns[s][i].content) \/ InHand(s, turns[s][i].content)
    BY DEF RememberedIsDelivered, Delivered, InHand
  <2>1. turns[s][i] \in Sound(s)
    BY ElementOfSeq DEF MemoryInv
  <2> QED
    BY <2>1 DEF Sound
<1> QED
  BY <1>1, <1>2, <1>3, HeldInvariant, PTL DEF Spec

-----------------------------------------------------------------------------
(* How the stream of a request ends.                                       *)

\* A sentinel is the last event of its request.
DoneIsLast ==
  \A s \in Sid : \A i, j \in 1..Len(stream[s]) :
    stream[s][i].kind = "done" /\ stream[s][j].ask = stream[s][i].ask => j <= i

\* The sentinel of a request has been published.
StreamEnded(a) == \E i \in 1..Len(stream[a.sid]) : stream[a.sid][i] = [ask |-> a, kind |-> "done"]

\* What is completed has its sentinel, and so has what is about to be.
SentInv ==
  "publish_fails" \notin world =>
    /\ stream \in [Sid -> Seq(EventType)]
    /\ phase = "complete" => StreamEnded(task)
    /\ \A k \in 1..Len(completions) : StreamEnded(completions[k].ask)

\* Where no crash has a request read twice, none has an event before it is read, nor
\* a sentinel before it is handled.
EndInv ==
  world \cap {"publish_fails", "crash"} = {} =>
    /\ inbox \subseteq Ask /\ task \notin inbox
    /\ \A s \in Sid : \A i \in 1..Len(stream[s]) :
         /\ stream[s][i].ask \notin inbox
         /\ stream[s][i].ask = task /\ stream[s][i].kind = "done" => phase = "complete"
    /\ DoneIsLast

LEMMA CompletedIn ==
  ASSUME HeldInv, NEW k \in 1..Len(completions)
  PROVE  completions[k].ask \in Ask
<1>1. completions[k] \in CompletionType
  BY ElementOfSeq DEF HeldInv
<1> QED
  BY <1>1 DEF CompletionType

\* Events are about requests.
LEMMA EventsAre ==
  ASSUME stream \in [Sid -> Seq(EventType)], NEW s \in Sid, NEW i \in 1..Len(stream[s])
  PROVE  stream[s][i].ask # NoTask
<1>1. stream[s][i] \in EventType
  BY ElementOfSeq
<1> QED
  BY <1>1, AskHas DEF EventType

\* The places of a stream that an event is added to.
LEMMA Emitted ==
  ASSUME stream \in [Sid -> Seq(EventType)], task \in Ask, NEW kind \in {"token", "done"},
         stream' = [stream EXCEPT ![task.sid] = Append(@, [ask |-> task, kind |-> kind])]
  PROVE  \E u \in Sid, n \in Nat :
           /\ u = task.sid /\ n = Len(stream[u])
           /\ stream'[u] \in Seq(EventType) /\ Len(stream'[u]) = n + 1
           /\ stream'[u][n + 1] = [ask |-> task, kind |-> kind]
           /\ \A i \in 1..n : stream'[u][i] = stream[u][i]
           /\ \A s \in Sid \ {u} : stream'[s] = stream[s]
           /\ stream' \in [Sid -> Seq(EventType)]
<1> PICK u \in Sid : u = task.sid
  BY AskHas
<1> DEFINE e == [ask |-> task, kind |-> kind]
<1>1. e \in EventType
  BY DEF EventType
<1>2. stream' = [stream EXCEPT ![u] = Append(stream[u], e)] /\ stream[u] \in Seq(EventType)
  OBVIOUS
<1> HIDE DEF e
<1>3. PICK n \in Nat : n = Len(stream[u])
  BY <1>2, LenProperties
<1>4. /\ stream'[u] \in Seq(EventType) /\ Len(stream'[u]) = n + 1 /\ stream'[u][n + 1] = e
      /\ \A i \in 1..n : stream'[u][i] = stream[u][i]
      /\ \A s \in Sid \ {u} : stream'[s] = stream[s]
      /\ stream' \in [Sid -> Seq(EventType)]
  BY <1>1, <1>2, <1>3, AppendProperties
<1> QED
  BY <1>3, <1>4 DEF e

\* A sentinel stays.
LEMMA EndedStays ==
  ASSUME stream \in [Sid -> Seq(EventType)], task \in Ask,
         stream' = stream \/ Emit("token") \/ Emit("done"), NEW a \in Ask, StreamEnded(a)
  PROVE  StreamEnded(a)'
<1>1. CASE stream' = stream
  BY <1>1 DEF StreamEnded
<1>2. CASE stream' # stream
  <2>1. PICK kind \in {"token", "done"} :
          stream' = [stream EXCEPT ![task.sid] = Append(@, [ask |-> task, kind |-> kind])]
    BY <1>2 DEF Emit
  <2>2. PICK u \in Sid, n \in Nat :
          /\ n = Len(stream[u]) /\ Len(stream'[u]) = n + 1
          /\ \A i \in 1..n : stream'[u][i] = stream[u][i]
          /\ \A s \in Sid \ {u} : stream'[s] = stream[s]
    BY <2>1, Emitted
  <2>3. PICK s \in Sid : s = a.sid
    BY AskHas
  <2>4. PICK i \in 1..Len(stream[s]) : stream[s][i] = [ask |-> a, kind |-> "done"]
    BY <2>3 DEF StreamEnded
  <2>5. i \in 1..Len(stream'[s]) /\ stream'[s][i] = stream[s][i]
    BY <2>2, <2>4
  <2> QED
    BY <2>3, <2>4, <2>5 DEF StreamEnded
<1> QED
  BY <1>1, <1>2

LEMMA WorldStays ==
  ASSUME [Next]_vars
  PROVE  world' = world
BY DEF Next, Work, Crash, Stop, Ends, Pass, vars, Reject, GiveUp, Take, Classify, Configure,
       StreamToken, StreamEnd, Diagram, RetryDiagram, Settle, Reflect, Revise, Abandon, Remember,
       Sentinel, Complete, CommitOffsets, input, settings

LEMMA SentStep ==
  ASSUME HeldInv, SentInv, [Next]_vars
  PROVE  SentInv'
<1> SUFFICES ASSUME "publish_fails" \notin world
             PROVE  SentInv'
  BY WorldStays DEF SentInv
<1> USE DEF Goto, Fail, working, input, settings, output
<1>0. stream \in [Sid -> Seq(EventType)] /\ \A k \in 1..Len(completions) : StreamEnded(completions[k].ask)
  BY DEF SentInv
<1>1. CASE /\ stream' = stream /\ completions' = completions
           /\ phase' # "complete" \/ (phase' = phase /\ task' = task)
  BY <1>0, <1>1 DEF SentInv, StreamEnded
<1>2. CASE Classify \/ StreamToken \/ Diagram \/ RetryDiagram \/ Sentinel
  <2>1. /\ completions' = completions /\ task' = task /\ phase \notin {"complete", "idle"}
        /\ \/ (stream' = stream \/ Emit("token")) /\ phase' # "complete"
           \/ Emit("done") /\ phase' = "complete"
    BY <1>2 DEF Classify, StreamToken, Diagram, RetryDiagram, Settle, Sentinel
  <2>2. task \in Ask
    BY <2>1 DEF HeldInv
  <2>3. \A k \in 1..Len(completions') : StreamEnded(completions[k].ask)'
    BY <1>0, <2>1, <2>2, CompletedIn, EndedStays
  <2>4. CASE stream' = stream /\ phase' # "complete"
    BY <1>0, <2>1, <2>3, <2>4 DEF SentInv, StreamEnded
  <2>5. CASE Emit("token") /\ phase' # "complete"
    <3>1. stream' \in [Sid -> Seq(EventType)]
      BY <1>0, <2>2, <2>5, Emitted DEF Emit
    <3> QED
      BY <2>1, <2>3, <2>5, <3>1 DEF SentInv, StreamEnded
  <2>6. CASE Emit("done") /\ phase' = "complete"
    <3>1. PICK u \in Sid, n \in Nat :
            /\ u = task.sid /\ Len(stream'[u]) = n + 1
            /\ stream'[u][n + 1] = [ask |-> task, kind |-> "done"]
            /\ stream' \in [Sid -> Seq(EventType)]
      BY <1>0, <2>2, <2>6, Emitted DEF Emit
    <3>2. n + 1 \in 1..Len(stream'[u])
      BY <3>1
    <3>3. StreamEnded(task)'
      BY <2>1, <3>1, <3>2 DEF StreamEnded
    <3> QED
      BY <2>1, <2>3, <3>1, <3>3 DEF SentInv, StreamEnded
  <2> QED
    BY <2>1, <2>4, <2>5, <2>6
<1>3. CASE Complete
  <2> DEFINE c == [ask |-> task, text |-> draft]
  <2>1. /\ completions' = Append(completions, c) /\ phase = "complete"
        /\ phase' = "idle" /\ stream' = stream
    BY <1>3 DEF Complete, Release
  <2>2. c \in CompletionType /\ c.ask = task /\ completions \in Seq(CompletionType)
    BY <2>1 DEF HeldInv, CompletionType
  <2> HIDE DEF c
  <2>3. /\ Len(completions) \in Nat /\ Len(completions') = Len(completions) + 1
        /\ \A k \in 1..Len(completions) : completions'[k] = completions[k]
        /\ completions'[Len(completions) + 1] = c
    BY <2>1, <2>2, AppendProperties, LenProperties
  <2>4. ASSUME NEW k \in 1..Len(completions')
        PROVE  StreamEnded(completions'[k].ask)
    <3>1. CASE k = Len(completions) + 1
      BY <2>1, <2>2, <2>3, <3>1 DEF SentInv
    <3>2. CASE k \in 1..Len(completions)
      BY <1>0, <2>3, <3>2
    <3> QED
      BY <2>3, <3>1, <3>2
  <2> QED
    BY <1>0, <2>1, <2>4 DEF SentInv, StreamEnded
<1>4. CASE (\E a \in Ask : Reject(a) \/ GiveUp(a) \/ Take(a)) \/ Configure \/ StreamEnd
  BY <1>1, <1>4 DEF Reject, GiveUp, Take, Configure, StreamEnd
<1>5. CASE Reflect \/ Revise \/ Abandon \/ Remember \/ CommitOffsets \/ Crash \/ Stop
  BY <1>1, <1>5 DEF Reflect, Revise, Abandon, Remember, CommitOffsets, Crash, Stop, Ends, Release
<1>6. CASE Pass \/ UNCHANGED vars
  BY <1>1, <1>6 DEF Pass, vars
<1> QED
  BY <1>2, <1>3, <1>4, <1>5, <1>6 DEF Next, Work

LEMMA SentInvariant == Spec => [](HeldInv /\ SentInv)
<1>1. Init => SentInv
  BY DEF Init, SentInv, EventType, StreamEnded
<1> QED
  BY <1>1, SentStep, HeldInvariant, PTL DEF Spec

\* Steps that publish no token of the task.
LEMMA EndKept ==
  ASSUME SentInv, EndInv, world \cap {"publish_fails", "crash"} = {},
         UNCHANGED <<world, stream>>, inbox' \subseteq inbox,
         task' \in {task, NoTask} \/ (task' \in inbox /\ task' \notin inbox'),
         phase' # "complete",
         task' = task => phase # "complete" \/ task = NoTask
  PROVE  EndInv'
<1>1. task' \notin inbox'
  BY TeachingAssumption DEF EndInv
<1>2. stream \in [Sid -> Seq(EventType)]
  BY DEF SentInv
<1>3. \A s \in Sid : \A i \in 1..Len(stream[s]) :
        /\ stream[s][i].ask \notin inbox'
        /\ stream[s][i].ask = task' => stream[s][i].kind # "done"
  BY <1>2, EventsAre DEF EndInv
<1> QED
  BY <1>1, <1>3 DEF EndInv, DoneIsLast

\* An event of the task is added to its stream.
LEMMA EndEmitted ==
  ASSUME SentInv, EndInv, world \cap {"publish_fails", "crash"} = {},
         task \in Ask, NEW kind \in {"token", "done"}, phase # "complete",
         stream' = [stream EXCEPT ![task.sid] = Append(@, [ask |-> task, kind |-> kind])],
         UNCHANGED <<world, inbox, task>>,
         phase' = "complete" <=> kind = "done"
  PROVE  EndInv'
<1>1. stream \in [Sid -> Seq(EventType)]
  BY DEF SentInv
<1>2. PICK u \in Sid, n \in Nat :
        /\ u = task.sid /\ n = Len(stream[u])
        /\ stream'[u] \in Seq(EventType) /\ Len(stream'[u]) = n + 1
        /\ stream'[u][n + 1] = [ask |-> task, kind |-> kind]
        /\ \A i \in 1..n : stream'[u][i] = stream[u][i]
        /\ \A s \in Sid \ {u} : stream'[s] = stream[s]
        /\ stream' \in [Sid -> Seq(EventType)]
  BY <1>1, Emitted
<1>3. \A i \in 1..n : ~(stream[u][i].ask = task /\ stream[u][i].kind = "done")
  BY <1>2 DEF EndInv
<1>4. \A s \in Sid \ {u} : \A i \in 1..Len(stream[s]) :
        ~(stream[s][i].ask = task /\ stream[s][i].kind = "done")
  BY DEF EndInv
<1>5. ASSUME NEW s \in Sid, NEW i \in 1..Len(stream'[s])
      PROVE  /\ stream'[s][i].ask \notin inbox
             /\ stream'[s][i].ask = task /\ stream'[s][i].kind = "done" => phase' = "complete"
  <2>1. CASE s # u
    BY <1>2, <1>4, <1>5, <2>1 DEF EndInv
  <2>2. CASE s = u /\ i \in 1..n
    BY <1>2, <1>3, <2>2 DEF EndInv
  <2>3. CASE s = u /\ i = n + 1
    BY <1>2, <2>3 DEF EndInv
  <2> QED
    BY <1>2, <1>5, <2>1, <2>2, <2>3
<1>6. ASSUME NEW s \in Sid, NEW i \in 1..Len(stream'[s]), NEW j \in 1..Len(stream'[s]),
             stream'[s][i].kind = "done", stream'[s][j].ask = stream'[s][i].ask
      PROVE  j <= i
  <2>1. CASE s # u
    BY <1>2, <1>6, <2>1 DEF EndInv, DoneIsLast
  <2>2. CASE s = u /\ i = n + 1
    BY <1>2, <1>6, <2>2
  <2>3. CASE s = u /\ i \in 1..n /\ j = n + 1
    BY <1>2, <1>3, <1>6, <2>3
  <2>4. CASE s = u /\ i \in 1..n /\ j \in 1..n
    BY <1>2, <1>6, <2>4 DEF EndInv, DoneIsLast
  <2> QED
    BY <1>2, <1>6, <2>1, <2>2, <2>3, <2>4
<1>7. DoneIsLast'
  BY <1>6 DEF DoneIsLast
<1> QED
  BY <1>5, <1>7 DEF EndInv

LEMMA EndStep ==
  ASSUME HeldInv, SentInv, EndInv, [Next]_vars
  PROVE  EndInv'
<1> USE DEF Goto, Fail, working, input, settings, output
<1>0. world' = world
  BY WorldStays
<1> SUFFICES ASSUME world \cap {"publish_fails", "crash"} = {}
             PROVE  EndInv'
  BY <1>0 DEF EndInv
<1>1. CASE \E a \in Ask : Reject(a) \/ GiveUp(a) \/ Take(a)
  <2>1. PICK a \in Ask : Reject(a) \/ GiveUp(a) \/ Take(a)
    BY <1>1
  <2>2. /\ a \in inbox /\ a \notin inbox' /\ inbox' \subseteq inbox /\ stream' = stream
        /\ phase = "idle" /\ phase' # "complete" /\ task' \in {task, a}
    BY <2>1 DEF Reject, GiveUp, Take, Read
  <2>3. task = NoTask
    BY <2>2 DEF HeldInv
  <2> QED
    BY <1>0, <2>2, <2>3, EndKept
<1>2. CASE Configure \/ StreamEnd \/ Reflect \/ Revise \/ Remember
  <2>1. /\ UNCHANGED <<world, stream, inbox, task>>
        /\ phase # "complete" /\ phase' # "complete"
    BY <1>2 DEF Configure, StreamEnd, Reflect, Revise, Remember
  <2> QED
    BY <2>1, EndKept
<1>3. CASE Abandon \/ Complete \/ Stop
  <2>1. stream' = stream /\ inbox' \subseteq inbox /\ phase' = "idle" /\ task' = NoTask
    BY <1>3 DEF Abandon, Complete, Stop, Ends, Release
  <2>2. task = NoTask => phase # "complete"
    BY DEF HeldInv
  <2> QED
    BY <1>0, <2>1, <2>2, EndKept
<1>4. CASE CommitOffsets \/ Pass \/ UNCHANGED vars
  <2>1. UNCHANGED <<world, stream, inbox, task, phase>>
    BY <1>4 DEF CommitOffsets, Pass, vars
  <2> QED
    BY <2>1 DEF EndInv, DoneIsLast
<1>5. CASE Classify \/ StreamToken \/ Diagram \/ RetryDiagram \/ Sentinel
  <2>1. /\ UNCHANGED <<world, inbox, task>>
        /\ phase # "complete" /\ phase # "idle"
        /\ \/ stream' = stream /\ phase' # "complete"
           \/ Emit("token") /\ phase' # "complete"
           \/ Emit("done") /\ phase' = "complete"
    BY <1>5 DEF Classify, StreamToken, Diagram, RetryDiagram, Settle, Sentinel
  <2>2. task \in Ask
    BY <2>1 DEF HeldInv
  <2>3. CASE stream' = stream /\ phase' # "complete"
    BY <2>1, <2>3, EndKept
  <2>4. CASE Emit("token") /\ phase' # "complete"
    BY <2>1, <2>2, <2>4, EndEmitted DEF Emit
  <2>5. CASE Emit("done") /\ phase' = "complete"
    BY <2>1, <2>2, <2>5, EndEmitted DEF Emit
  <2> QED
    BY <2>1, <2>3, <2>4, <2>5
<1>6. CASE Crash
  BY <1>6 DEF Crash, Ends
<1> QED
  BY <1>1, <1>2, <1>3, <1>4, <1>5, <1>6 DEF Next, Work

\* While no publish is lost, a completion comes after the sentinel of its request,
\* wherever the process dies or is stopped; and where no crash has a request read
\* again, the sentinel ends its stream (handlers.py:177-194).
THEOREM StreamEndsFirstAlways == Spec => []StreamEndsFirst
<1>1. Init => EndInv
  BY TeachingAssumption DEF Init, EndInv, DoneIsLast, TeachingAssumption
<1>2. HeldInv /\ SentInv /\ EndInv /\ [Next]_vars => EndInv'
  BY EndStep
<1>3. SentInv /\ EndInv => StreamEndsFirst
  BY DEF SentInv, EndInv, StreamEndsFirst, DoneIsLast, StreamEnded
<1> QED
  BY <1>1, <1>2, <1>3, SentInvariant, PTL DEF Spec

-----------------------------------------------------------------------------
(* The extractor: the headers of a text.                                   *)

\* A set of naturals has a least element.
LEMMA LeastNatural ==
  ASSUME NEW T, T \subseteq Nat, T # {}
  PROVE  \E n \in T : \A m \in T : n <= m
<1>1. PICK n \in T : \A m \in T : <<m, n>> \notin OpToRel(<, Nat)
  BY NatLessThanWellFounded, WFMin
<1>2. \A m \in T : ~(m < n)
  BY <1>1 DEF OpToRel
<1> QED
  BY <1>2

\* What Min of a set of naturals is.
LEMMA MinIs ==
  ASSUME NEW T, T \subseteq Nat, T # {}
  PROVE  Min(T) \in T /\ \A m \in T : Min(T) <= m
BY LeastNatural DEF Min

\* A header stands where its first star does.
LEMMA HeaderIs ==
  ASSUME NEW s \in Seq(Placed), NEW h \in HeadersOf(s)
  PROVE  /\ h = <<h[1], h[2]>> /\ h[1] \in 1..Len(s) /\ h[2] \in 1..Len(s)
         /\ h[1] + 4 <= h[2] /\ IsHeader(s, h[1], h[2])
<1>1. /\ h \in {i \in 1..Len(s) : i + 4 <= Len(s) /\ s[i].char = "*"} \X (1..Len(s))
      /\ IsHeader(s, h[1], h[2])
  BY DEF HeadersOf
<1> QED
  BY <1>1 DEF IsHeader

\* A header from a place of the text is one of its headers.
LEMMA HeaderIn ==
  ASSUME NEW s \in Seq(Placed), NEW i \in 1..Len(s), NEW j, IsHeader(s, i, j)
  PROVE  <<i, j>> \in HeadersOf(s)
<1>1. j \in 1..Len(s) /\ i + 4 <= j /\ s[i].char = "*" /\ Len(s) \in Nat
  BY DEF IsHeader
<1> QED
  BY <1>1 DEF HeadersOf

\* A header that begins in another one begins with its last star or the one before.
LEMMA HeadersOverlap ==
  ASSUME NEW s \in Seq(Placed), NEW i \in Nat, NEW j \in Nat, NEW k \in Nat, NEW l \in Nat,
         IsHeader(s, i, j), IsHeader(s, k, l), i < k, k <= j
  PROVE  k >= j - 1
<1> SUFFICES ASSUME k < j - 1  PROVE FALSE
  OBVIOUS
<1>1. s[k].char = "*" /\ s[k + 1].char = "*"
  BY DEF IsHeader
<1>2. \A n \in i + 2..j - 2 : s[n].char # "*"
  BY DEF IsHeader, Word
<1>3. i + 4 <= j
  BY DEF IsHeader
<1>4. CASE k = i + 1
  <2>1. k + 1 \in i + 2..j - 2
    BY <1>3, <1>4
  <2> QED
    BY <1>1, <1>2, <2>1
<1>5. CASE k # i + 1
  <2>1. k \in i + 2..j - 2
    BY <1>5
  <2> QED
    BY <1>1, <1>2, <2>1
<1> QED
  BY <1>4, <1>5

\* ... and ends after it.
LEMMA HeaderOne ==
  ASSUME NEW s \in Seq(Placed), NEW i \in Nat, NEW j \in Nat, NEW l \in Nat,
         IsHeader(s, i, j), IsHeader(s, i, l)
  PROVE  j = l
<1>1. ASSUME NEW a \in Nat, NEW b \in Nat, IsHeader(s, i, a), IsHeader(s, i, b), a < b
      PROVE FALSE
  <2>1. s[a - 1].char = "*" /\ i + 4 <= a
    BY <1>1 DEF IsHeader
  <2>2. \A n \in i + 2..b - 2 : s[n].char # "*"
    BY <1>1 DEF IsHeader, Word
  <2>3. a - 1 \in i + 2..b - 2
    BY <1>1, <2>1
  <2> QED
    BY <2>1, <2>2, <2>3
<1> QED
  BY <1>1

\* There is a reading of every text: the headers that begin up to some place are
\* settled before the ones behind it.
ReadUpTo(marks, headers, n) ==
  /\ \A m \in marks : m[1] <= n
  /\ \A h \in headers : h[1] <= n =>
       (h \in marks <=> ~\E m \in marks : m[1] < h[1] /\ h[1] <= m[2])

\* What is settled up to n can be settled up to n + 1.
LEMMA ReadOneMore ==
  ASSUME NEW H, \A h \in H : h[1] \in Nat /\ h[2] \in Nat, NEW n \in Nat,
         NEW M \in SUBSET H, ReadUpTo(M, H, n)
  PROVE  \E N \in SUBSET H : ReadUpTo(N, H, n + 1)
<1> DEFINE K == {h \in H : h[1] = n + 1 /\ ~\E m \in M : h[1] <= m[2]}
           N == M \cup K
<1>1. \A m \in M : m[1] \in Nat /\ m[1] <= n
  BY DEF ReadUpTo
<1>2. N \in SUBSET H /\ \A m \in N : m[1] <= n + 1
  BY <1>1
<1>3. ASSUME NEW h \in H, h[1] <= n + 1
      PROVE  h \in N <=> ~\E m \in N : m[1] < h[1] /\ h[1] <= m[2]
  <2>1. CASE h[1] <= n
    <3>1. h \notin K /\ (h \in M <=> ~\E m \in M : m[1] < h[1] /\ h[1] <= m[2])
      BY <1>3, <2>1 DEF ReadUpTo
    <3>2. \A m \in K : ~(m[1] < h[1])
      BY <1>3, <2>1
    <3> QED
      BY <3>1, <3>2
  <2>2. CASE h[1] = n + 1
    <3>1. h \notin M /\ \A m \in M : m[1] < h[1]
      BY <1>1, <1>3, <2>2
    <3>2. \A m \in K : ~(m[1] < h[1])
      BY <2>2
    <3> QED
      BY <1>3, <2>2, <3>1, <3>2
  <2> QED
    BY <1>3, <2>1, <2>2
<1> HIDE DEF N
<1>4. ReadUpTo(N, H, n + 1)
  BY <1>2, <1>3 DEF ReadUpTo
<1> QED
  BY <1>2, <1>4

\* ... so the whole of it can.
LEMMA ReadingExists ==
  ASSUME NEW s \in Seq(Placed)
  PROVE  \E M \in SUBSET HeadersOf(s) : IsReading(M, HeadersOf(s))
<1> DEFINE H == HeadersOf(s)
           T == {n \in 0..Len(s) : ~\E M \in SUBSET H : ReadUpTo(M, H, n)}
<1>1. \A h \in H : h[1] \in Nat /\ h[2] \in Nat /\ h[1] \in 1..Len(s)
  BY HeaderIs
<1>2. Len(s) \in Nat
  OBVIOUS
<1> HIDE DEF H
<1>3. T = {}
  <2> SUFFICES ASSUME T # {}  PROVE FALSE
    OBVIOUS
  <2>1. PICK n \in T : \A m \in T : n <= m
    <3>1. T \subseteq Nat
      BY <1>2
    <3> QED
      BY <3>1, LeastNatural
  <2>2. CASE n = 0
    <3>1. ReadUpTo({}, H, 0)
      BY <1>1 DEF ReadUpTo
    <3> QED
      BY <2>1, <2>2, <3>1
  <2>3. CASE n # 0
    <3>1. n - 1 \in 0..Len(s) /\ n - 1 \notin T /\ n - 1 \in Nat
      BY <1>2, <2>1, <2>3
    <3>2. PICK M \in SUBSET H : ReadUpTo(M, H, n - 1)
      BY <3>1
    <3>3. \E N \in SUBSET H : ReadUpTo(N, H, (n - 1) + 1)
      BY <1>1, <3>1, <3>2, ReadOneMore
    <3>4. (n - 1) + 1 = n
      BY <1>2, <2>1
    <3> QED
      BY <2>1, <3>3, <3>4
  <2> QED
    BY <2>2, <2>3
<1>4. PICK M \in SUBSET H : ReadUpTo(M, H, Len(s))
  BY <1>2, <1>3
<1>5. IsReading(M, H)
  BY <1>1, <1>2, <1>4 DEF ReadUpTo, IsReading
<1> QED
  BY <1>4, <1>5 DEF H

\* The marks of a text are headers of it, and none begins in another.
LEMMA MarksAre ==
  ASSUME NEW s \in Seq(Placed)
  PROVE  Marks(s) \subseteq HeadersOf(s) /\ IsReading(Marks(s), HeadersOf(s))
BY ReadingExists DEF Marks

\* Two marks do not overlap: the second begins behind the end of the first.
LEMMA MarksApart ==
  ASSUME NEW s \in Seq(Placed), NEW m \in Marks(s), NEW n \in Marks(s)
  PROVE  /\ m[1] < n[1] => m[2] < n[1]
         /\ m[1] = n[1] => m = n
         /\ m[1] \in 1..Len(s) /\ m[2] \in 1..Len(s) /\ m[1] + 4 <= m[2]
<1>1. m \in HeadersOf(s) /\ n \in HeadersOf(s)
  BY MarksAre
<1>2. /\ m = <<m[1], m[2]>> /\ m[1] \in 1..Len(s) /\ m[2] \in 1..Len(s)
      /\ m[1] + 4 <= m[2] /\ IsHeader(s, m[1], m[2])
      /\ n = <<n[1], n[2]>> /\ n[1] \in 1..Len(s) /\ n[2] \in 1..Len(s)
      /\ IsHeader(s, n[1], n[2])
  BY <1>1, HeaderIs
<1>3. m[1] < n[1] => m[2] < n[1]
  <2>1. IsReading(Marks(s), HeadersOf(s))
    BY MarksAre
  <2> QED
    BY <1>1, <1>2, <2>1 DEF IsReading
<1>4. m[1] = n[1] => m = n
  <2> SUFFICES ASSUME m[1] = n[1]  PROVE m = n
    OBVIOUS
  <2> PICK i, j, l : i = m[1] /\ j = m[2] /\ l = n[2]
    OBVIOUS
  <2>1. i \in Nat /\ j \in Nat /\ l \in Nat /\ IsHeader(s, i, j) /\ IsHeader(s, i, l)
    BY <1>2
  <2>2. j = l
    BY <2>1, HeaderOne
  <2> QED
    BY <1>2, <2>2
<1> QED
  BY <1>2, <1>3, <1>4

-----------------------------------------------------------------------------
(* The extractor: how far it is.                                           *)

\* The places before the chunk are done with.
Cut == position - Len(chunk)

\* c is what follows the first n places of s.
PieceOf(c, s, n) ==
  /\ c \in Seq(Placed) /\ n \in Nat /\ n + Len(c) <= Len(s)
  /\ \A k \in 1..Len(c) : c[k] = s[n + k]

\* A text as it is read, and the chunk a piece of it without a header, what could
\* become one alone, outside the loop.
PlacedText(s) == s \in Seq(Placed) /\ \A i \in 1..Len(s) : s[i].at = i
ShapeInv ==
  /\ PlacedText(text) /\ position \in Nat /\ PieceOf(chunk, text, Cut)
  /\ scanning \in BOOLEAN /\ finished \in BOOLEAN
  /\ ~scanning => HeadersOf(chunk) = {} /\ (chunk # <<>> => IsTail(chunk))
  /\ finished => ~scanning /\ position = Len(text) /\ chunk = <<>>

\* A header of a piece is one of the text, and one of the text that lies in it.
LEMMA PieceHeader ==
  ASSUME NEW s \in Seq(Placed), NEW c, NEW n, PieceOf(c, s, n),
         NEW i \in 1..Len(c), NEW j \in 1..Len(c)
  PROVE  /\ IsHeader(c, i, j) <=> IsHeader(s, n + i, n + j)
         /\ n + i \in 1..Len(s) /\ n + j \in 1..Len(s)
<1>1. /\ n \in Nat /\ Len(c) \in Nat /\ Len(s) \in Nat /\ n + Len(c) <= Len(s)
      /\ \A k \in 1..Len(c) : c[k] = s[n + k]
  BY DEF PieceOf
<1>2. n + i \in 1..Len(s) /\ n + j \in 1..Len(s)
  BY <1>1
<1>3. ASSUME IsHeader(c, i, j)  PROVE IsHeader(s, n + i, n + j)
  <2>1. i + 4 <= j /\ \A k \in {i, i + 1, j - 1, j} : c[k].char = "*"
    BY <1>3 DEF IsHeader
  <2>2. /\ i + 1 \in 1..Len(c) /\ j - 1 \in 1..Len(c)
        /\ n + (i + 1) = (n + i) + 1 /\ n + (j - 1) = (n + j) - 1
    BY <1>1, <2>1
  <2>4. ASSUME NEW k \in {i, i + 1, j - 1, j}  PROVE s[n + k].char = "*"
    <3>1. k \in 1..Len(c) /\ c[k].char = "*"
      BY <2>1, <2>2
    <3> QED
      BY <1>1, <3>1
  <2>5. ASSUME NEW k \in {n + i, (n + i) + 1, (n + j) - 1, n + j}  PROVE s[k].char = "*"
    BY <2>2, <2>4
  <2>6. (n + i) + 4 <= n + j
    BY <1>1, <2>1
  <2>3. ASSUME NEW k \in (n + i) + 2..(n + j) - 2  PROVE s[k].char \in Word
    <3>1. k - n \in i + 2..j - 2 /\ k - n \in 1..Len(c) /\ s[k] = c[k - n]
      BY <1>1
    <3> QED
      BY <1>3, <3>1 DEF IsHeader
  <2> QED
    BY <1>2, <2>3, <2>5, <2>6 DEF IsHeader
<1>4. ASSUME IsHeader(s, n + i, n + j)  PROVE IsHeader(c, i, j)
  <2>1. i + 4 <= j /\ \A k \in {n + i, (n + i) + 1, (n + j) - 1, n + j} : s[k].char = "*"
    BY <1>1, <1>4 DEF IsHeader
  <2>2. /\ c[i] = s[n + i] /\ c[i + 1] = s[(n + i) + 1]
        /\ c[j] = s[n + j] /\ c[j - 1] = s[(n + j) - 1]
    BY <1>1, <2>1
  <2>3. ASSUME NEW k \in i + 2..j - 2  PROVE c[k].char \in Word
    <3>1. n + k \in (n + i) + 2..(n + j) - 2 /\ k \in 1..Len(c) /\ c[k] = s[n + k]
      BY <1>1
    <3> QED
      BY <1>4, <3>1 DEF IsHeader
  <2> QED
    BY <1>1, <2>1, <2>2, <2>3 DEF IsHeader
<1> QED
  BY <1>2, <1>3, <1>4

\* The first header of a piece.
LEMMA FirstIs ==
  ASSUME NEW c \in Seq(Placed), HeadersOf(c) # {}, NEW h, h = FirstHeader(c)
  PROVE  /\ h \in HeadersOf(c) /\ \A other \in HeadersOf(c) : h[1] <= other[1]
<1> DEFINE T == {g[1] : g \in HeadersOf(c)}
<1>1. T \subseteq Nat /\ T # {}
  BY HeaderIs
<1>2. PICK n \in T : \A m \in T : n <= m
  BY <1>1, LeastNatural
<1>3. \E g \in HeadersOf(c) : \A other \in HeadersOf(c) : g[1] <= other[1]
  BY <1>2
<1> QED
  BY <1>3 DEF FirstHeader

\* No mark of the text is cut.
MarksWhole(marks, n) == \A m \in marks : m[2] <= n \/ n < m[1]

\* A mark that begins behind a cut and ends in the piece that follows is a header
\* of the piece.
LEMMA MarkInPiece ==
  ASSUME NEW s \in Seq(Placed), NEW c, NEW n, PieceOf(c, s, n),
         NEW m \in Marks(s), n < m[1], m[2] <= n + Len(c)
  PROVE  <<m[1] - n, m[2] - n>> \in HeadersOf(c)
<1>1. m[1] \in 1..Len(s) /\ m[2] \in 1..Len(s) /\ m[1] + 4 <= m[2] /\ IsHeader(s, m[1], m[2])
  BY MarksAre, HeaderIs
<1>2. n \in Nat /\ c \in Seq(Placed) /\ Len(c) \in Nat
  BY DEF PieceOf
<1> PICK a, b, i, j : m[1] = a /\ m[2] = b /\ i = a - n /\ j = b - n
  OBVIOUS
<1>3. i \in 1..Len(c) /\ j \in 1..Len(c) /\ n + i = a /\ n + j = b
  <2>1. a \in Nat /\ b \in Nat /\ a + 4 <= b /\ n < a /\ b <= n + Len(c)
    BY <1>1
  <2> QED
    BY <1>2, <2>1
<1>4. IsHeader(c, i, j)
  BY <1>1, <1>3, PieceHeader
<1> QED
  BY <1>2, <1>3, <1>4, HeaderIn

\* The first header of a piece whose beginning cuts no mark is the next mark.
LEMMA FirstIsMark ==
  ASSUME NEW s \in Seq(Placed), NEW c, NEW n, PieceOf(c, s, n), MarksWhole(Marks(s), n),
         HeadersOf(c) # {}, NEW f, f = FirstHeader(c), NEW h, h = <<n + f[1], n + f[2]>>
  PROVE  /\ f[1] \in 1..Len(c) /\ f[2] \in 1..Len(c) /\ f[1] + 4 <= f[2]
         /\ h \in Marks(s) /\ n < h[1] /\ h[2] <= n + Len(c)
         /\ \A m \in Marks(s) : m[2] <= n \/ m = h \/ h[2] < m[1]
<1>1. c \in Seq(Placed) /\ n \in Nat /\ Len(c) \in Nat
  BY DEF PieceOf
<1>2. /\ f \in HeadersOf(c) /\ \A other \in HeadersOf(c) : f[1] <= other[1]
      /\ f[1] \in 1..Len(c) /\ f[2] \in 1..Len(c) /\ f[1] + 4 <= f[2] /\ IsHeader(c, f[1], f[2])
  BY <1>1, FirstIs, HeaderIs
<1>3. /\ h[1] = n + f[1] /\ h[2] = n + f[2] /\ IsHeader(s, h[1], h[2])
      /\ h[1] \in 1..Len(s) /\ h[2] \in 1..Len(s)
  BY <1>2, PieceHeader
<1>4. h \in HeadersOf(s)
  BY <1>3, HeaderIn
<1>5. ASSUME NEW m \in Marks(s), n < m[1]  PROVE h[1] <= m[1]
  <2> SUFFICES ASSUME m[1] < h[1]  PROVE FALSE
    BY <1>3, <1>5, MarksApart
  <2>1. m[1] \in 1..Len(s) /\ m[2] \in 1..Len(s) /\ m[1] + 4 <= m[2] /\ IsHeader(s, m[1], m[2])
    BY MarksAre, HeaderIs
  <2>2. CASE m[2] <= n + Len(c)
    <3>1. <<m[1] - n, m[2] - n>> \in HeadersOf(c)
      BY <1>5, <2>2, MarkInPiece
    <3>2. f[1] <= m[1] - n
      BY <1>2, <3>1
    <3> PICK a : m[1] = a
      OBVIOUS
    <3>3. a \in Nat /\ f[1] \in Nat /\ a < n + f[1] /\ f[1] <= a - n
      BY <1>2, <1>3, <2>1, <3>2
    <3> QED
      BY <1>1, <3>3
  <2>3. CASE n + Len(c) < m[2]
    <3>1. h[1] >= m[2] - 1
      <4>1. h[1] <= m[2]
        <5> PICK a, b, e : h[1] = a /\ m[2] = b /\ f[1] = e
          OBVIOUS
        <5>1. a = n + e
          BY <1>3
        <5>2. b \in Nat /\ e \in Nat /\ e <= Len(c)
          BY <1>1, <1>2, <2>1
        <5>3. n + Len(c) < b
          BY <2>3
        <5>4. a <= b
          BY <1>1, <5>1, <5>2, <5>3
        <5> QED
          BY <5>4
      <4> PICK i, j, k, l : i = m[1] /\ j = m[2] /\ k = h[1] /\ l = h[2]
        OBVIOUS
      <4>2. /\ i \in Nat /\ j \in Nat /\ k \in Nat /\ l \in Nat
            /\ IsHeader(s, i, j) /\ IsHeader(s, k, l) /\ i < k /\ k <= j
        BY <1>3, <2>1, <4>1
      <4>3. k >= j - 1
        BY <4>2, HeadersOverlap
      <4> QED
        BY <4>3
    <3> PICK k, l, b, d, e : h[1] = k /\ h[2] = l /\ m[2] = b /\ f[1] = d /\ f[2] = e
      OBVIOUS
    <3>4. k = n + d /\ l = n + e
      BY <1>3
    <3>5. d \in Nat /\ e \in Nat /\ d + 4 <= e /\ e <= Len(c)
      BY <1>1, <1>2
    <3>6. b \in Nat
      BY <2>1
    <3>2. k + 4 <= l /\ l <= n + Len(c) /\ k \in Nat /\ l \in Nat
      BY <1>1, <3>4, <3>5
    <3>3. k >= b - 1 /\ n + Len(c) < b
      BY <2>3, <3>1
    <3> QED
      BY <1>1, <3>2, <3>3, <3>6
  <2> QED
    BY <1>1, <2>1, <2>2, <2>3
<1>6. h \in Marks(s)
  <2>1. ASSUME NEW m \in Marks(s), m[1] < h[1], h[1] <= m[2]  PROVE FALSE
    <3>1. m[2] <= n
      BY <1>1, <1>3, <1>5, <2>1, MarksApart DEF MarksWhole
    <3> PICK a, b, e : h[1] = a /\ m[2] = b /\ f[1] = e
      OBVIOUS
    <3>2. a = n + e /\ e \in Nat /\ e >= 1
      BY <1>1, <1>2, <1>3
    <3>3. b \in Nat /\ a <= b /\ b <= n
      BY <2>1, <3>1, MarksApart
    <3> QED
      BY <1>1, <3>2, <3>3
  <2>2. IsReading(Marks(s), HeadersOf(s))
    BY MarksAre
  <2> QED
    BY <1>4, <2>1, <2>2 DEF IsReading
<1>7. ASSUME NEW m \in Marks(s)  PROVE m[2] <= n \/ m = h \/ h[2] < m[1]
  <2>1. m[1] \in Nat /\ m[2] \in Nat
    BY MarksApart
  <2>2. CASE n < m[1]
    <3>1. h[1] <= m[1]
      BY <1>5, <2>2
    <3>2. CASE h[1] = m[1]
      BY <1>6, <3>2, MarksApart
    <3>3. CASE h[1] < m[1]
      BY <1>6, <3>3, MarksApart
    <3> QED
      BY <1>3, <2>1, <3>1, <3>2, <3>3
  <2> QED
    BY <2>2 DEF MarksWhole
<1> QED
  BY <1>1, <1>2, <1>3, <1>6, <1>7

-----------------------------------------------------------------------------
(* The extractor: the sections of a text.                                  *)

\* A place is in one section.
LEMMA SectionIsOne ==
  ASSUME NEW s \in Seq(Placed), NEW p, NEW f, NEW g,
         InSection(s, Marks(s), p, f), InSection(s, Marks(s), p, g)
  PROVE  f = g
<1>1. PICK m \in FieldMarks(s, Marks(s)) :
         /\ m[2] < p /\ FieldOf(s, m) = f
         /\ \A n \in FieldMarks(s, Marks(s)) : n[2] < p => n[2] <= m[2]
  BY DEF InSection
<1>2. PICK n \in FieldMarks(s, Marks(s)) :
         /\ n[2] < p /\ FieldOf(s, n) = g
         /\ \A k \in FieldMarks(s, Marks(s)) : k[2] < p => k[2] <= n[2]
  BY DEF InSection
<1>3. m[2] <= n[2] /\ n[2] <= m[2]
  BY <1>1, <1>2
<1>4. m \in Marks(s) /\ n \in Marks(s)
  BY DEF FieldMarks
<1>5. m = n
  <2>1. /\ m[1] < n[1] => m[2] < n[1]
        /\ m[1] = n[1] => m = n
        /\ m[1] \in Nat /\ m[2] \in Nat /\ m[1] + 4 <= m[2]
    BY <1>4, MarksApart
  <2>2. /\ n[1] < m[1] => n[2] < m[1]
        /\ n[1] \in Nat /\ n[2] \in Nat /\ n[1] + 4 <= n[2]
    BY <1>4, MarksApart
  <2> PICK i, j, k, l : m[1] = i /\ m[2] = j /\ n[1] = k /\ n[2] = l
    OBVIOUS
  <2>3. i = k
    <3>1. /\ i < k => j < k
          /\ i \in Nat /\ j \in Nat /\ i + 4 <= j
      BY <2>1
    <3>2. /\ k < i => l < i
          /\ k \in Nat /\ l \in Nat /\ k + 4 <= l
      BY <2>2
    <3>3. j <= l /\ l <= j
      BY <1>3
    <3> QED
      BY <3>1, <3>2, <3>3
  <2> QED
    BY <2>1, <2>3
<1> QED
  BY <1>1, <1>2, <1>5

\* Between two places with no field's mark that ends there the section stays.
LEMMA SectionStays ==
  ASSUME NEW s \in Seq(Placed), NEW p \in Nat, NEW q \in Nat, p <= q,
         \A m \in FieldMarks(s, Marks(s)) : m[2] < p \/ q <= m[2], NEW f
  PROVE  InSection(s, Marks(s), p, f) <=> InSection(s, Marks(s), q, f)
<1>1. ASSUME NEW m \in FieldMarks(s, Marks(s))  PROVE m[2] < p <=> m[2] < q
  <2>1. m \in Marks(s)
    BY DEF FieldMarks
  <2>2. m[2] \in Nat /\ (m[2] < p \/ q <= m[2])
    BY <2>1, MarksApart
  <2> QED
    BY <2>2
<1> QED
  BY <1>1 DEF InSection

\* Behind a mark that names a field the section is that field's.
LEMMA SectionTurns ==
  ASSUME NEW s \in Seq(Placed), NEW h \in Marks(s), FieldOf(s, h) \in Fields, NEW f
  PROVE  InSection(s, Marks(s), h[2] + 1, f) <=> f = FieldOf(s, h)
<1>1. h \in FieldMarks(s, Marks(s))
  BY DEF FieldMarks
<1>2. h[2] \in Nat
  BY MarksApart
<1>3. ASSUME NEW n \in FieldMarks(s, Marks(s)), n[2] < h[2] + 1  PROVE n[2] <= h[2]
  <2>1. n[2] \in Nat
    BY MarksApart DEF FieldMarks
  <2> QED
    BY <1>2, <1>3, <2>1
<1>4. InSection(s, Marks(s), h[2] + 1, FieldOf(s, h))
  <2>1. h[2] < h[2] + 1
    BY <1>2
  <2> QED
    BY <1>1, <1>3, <2>1 DEF InSection
<1> QED
  BY <1>4, SectionIsOne

\* No mark touches the places from n + 1 to e.
Passage(marks, n, e) == \A m \in marks : m[2] <= n \/ e < m[1]

\* What a passage holds of a field: all of it if the passage is in its section.
LEMMA PlacesPassed ==
  ASSUME NEW s \in Seq(Placed), NEW n \in Nat, NEW e \in Nat, e <= Len(s),
         Passage(Marks(s), n, e), NEW p \in n + 1..e, NEW f
  PROVE  p \in PlacesOf(s, Marks(s), f) <=> Solid(s[p]) /\ InSection(s, Marks(s), n + 1, f)
<1>1. ASSUME NEW m \in Marks(s)
      PROVE  /\ m[2] < n + 1 \/ p <= m[2]
             /\ ~(m[1] <= p /\ p <= m[2])
  <2>1. m[1] \in Nat /\ m[2] \in Nat /\ m[1] + 4 <= m[2]
    BY MarksApart
  <2>2. m[2] <= n \/ e < m[1]
    BY DEF Passage
  <2> PICK i, j : m[1] = i /\ m[2] = j
    OBVIOUS
  <2>3. i \in Nat /\ j \in Nat /\ i + 4 <= j /\ (j <= n \/ e < i)
    BY <2>1, <2>2
  <2>4. j < n + 1 \/ p <= j
    BY <2>3
  <2>5. ~(i <= p /\ p <= j)
    BY <2>3
  <2> QED
    BY <2>4, <2>5
<1>2. p \in Nat /\ n + 1 \in Nat /\ n + 1 <= p /\ p \in 1..Len(s)
  OBVIOUS
<1>3. InSection(s, Marks(s), n + 1, f) <=> InSection(s, Marks(s), p, f)
  <2>1. \A m \in FieldMarks(s, Marks(s)) : m[2] < n + 1 \/ p <= m[2]
    BY <1>1 DEF FieldMarks
  <2> QED
    BY <1>2, <2>1, SectionStays
<1>4. ~Inside(p, Marks(s))
  BY <1>1 DEF Inside
<1> QED
  BY <1>2, <1>3, <1>4 DEF PlacesOf

-----------------------------------------------------------------------------
(* The extractor: what a text says up to a place.                          *)

SaidUpTo(s, n) == {e \in AllSaid(s, Marks(s)) : e.at <= n}

\* What is said is an announcement or a character of an explanation.
LEMMA AllSaidIs ==
  ASSUME NEW s, NEW marks, NEW x
  PROVE  x \in AllSaid(s, marks) <=>
           \/ \E m \in Announcing(s, marks) : x = Progress(s, m)
           \/ \E p \in PlacesOf(s, marks, "e") : x = Token(s, "e", p)
BY DEF AllSaid, Streamable

\* The section behind the first n places is g.
SectionIs(s, n, g) == \A f \in Fields : InSection(s, Marks(s), n + 1, f) <=> f = g

\* What a listener hears of a passage in the section g.
SpokenBetween(s, g, n, e) ==
  {x \in {Token(s, g, p) : p \in n + 1..e} : g \in Streamable /\ Solid(s[x.at])}

\* A passage says its solid characters, if its section is streamed.
LEMMA SaidPassed ==
  ASSUME NEW s \in Seq(Placed), NEW n \in Nat, NEW e \in Nat, n <= e, e <= Len(s),
         Passage(Marks(s), n, e), NEW g, SectionIs(s, n, g)
  PROVE  SaidUpTo(s, e) = SaidUpTo(s, n) \cup SpokenBetween(s, g, n, e)
<1>0. InSection(s, Marks(s), n + 1, "e") <=> g = "e"
  BY DEF Fields, SectionIs
<1>1. ASSUME NEW x \in SaidUpTo(s, e)  PROVE x \in SaidUpTo(s, n) \cup SpokenBetween(s, g, n, e)
  <2>0. x \in AllSaid(s, Marks(s)) /\ x.at <= e
    BY DEF SaidUpTo
  <2>1. CASE \E m \in Announcing(s, Marks(s)) : x = Progress(s, m)
    <3>1. PICK m \in Announcing(s, Marks(s)) : x = Progress(s, m)
      BY <2>1
    <3>2. m \in Marks(s) /\ x.at = m[1]
      BY <3>1 DEF Announcing, FieldMarks, Progress
    <3>3. m[1] \in Nat /\ m[2] \in Nat /\ m[1] + 4 <= m[2] /\ (m[2] <= n \/ e < m[1])
      BY <3>2, MarksApart DEF Passage
    <3> PICK i, j : m[1] = i /\ m[2] = j
      OBVIOUS
    <3>4. i \in Nat /\ j \in Nat /\ i + 4 <= j /\ (j <= n \/ e < i) /\ i <= e
      BY <2>0, <3>2, <3>3
    <3>5. i <= n
      BY <3>4
    <3>6. x.at <= n
      BY <3>2, <3>5
    <3> QED
      BY <2>0, <3>6 DEF SaidUpTo
  <2>2. CASE \E p \in PlacesOf(s, Marks(s), "e") : x = Token(s, "e", p)
    <3>1. PICK p \in PlacesOf(s, Marks(s), "e") : x = Token(s, "e", p)
      BY <2>2
    <3>2. p \in Nat /\ x.at = p /\ p <= e
      BY <2>0, <3>1 DEF PlacesOf, Token
    <3>3. CASE p <= n
      BY <2>0, <3>2, <3>3 DEF SaidUpTo
    <3>4. CASE n < p
      <4>1. p \in n + 1..e
        BY <3>2, <3>4
      <4>2. Solid(s[p]) /\ g = "e"
        BY <1>0, <3>1, <4>1, PlacesPassed
      <4>3. x \in SpokenBetween(s, g, n, e)
        BY <3>1, <3>2, <4>1, <4>2 DEF SpokenBetween, Streamable
      <4> QED
        BY <4>3
    <3> QED
      BY <3>2, <3>3, <3>4
  <2> QED
    BY <2>0, <2>1, <2>2, AllSaidIs
<1>2. ASSUME NEW x \in SaidUpTo(s, n)  PROVE x \in SaidUpTo(s, e)
  <2>0. x \in AllSaid(s, Marks(s)) /\ x.at <= n
    BY DEF SaidUpTo
  <2>1. x.at \in Nat
    <3>1. CASE \E m \in Announcing(s, Marks(s)) : x = Progress(s, m)
      <4>1. PICK m \in Announcing(s, Marks(s)) : x = Progress(s, m)
        BY <3>1
      <4>2. m \in Marks(s) /\ x.at = m[1]
        BY <4>1 DEF Announcing, FieldMarks, Progress
      <4> QED
        BY <4>2, MarksApart
    <3>2. CASE \E p \in PlacesOf(s, Marks(s), "e") : x = Token(s, "e", p)
      BY <3>2 DEF PlacesOf, Token
    <3> QED
      BY <2>0, <3>1, <3>2, AllSaidIs
  <2>2. x.at <= e
    BY <2>0, <2>1
  <2> QED
    BY <2>0, <2>2 DEF SaidUpTo
<1>3. ASSUME NEW x \in SpokenBetween(s, g, n, e)  PROVE x \in SaidUpTo(s, e)
  <2>1. PICK p \in n + 1..e : x = Token(s, g, p)
    BY <1>3 DEF SpokenBetween
  <2>2. x.at = p /\ g = "e" /\ Solid(s[p])
    BY <1>3, <2>1 DEF SpokenBetween, Token, Streamable
  <2>3. p \in PlacesOf(s, Marks(s), "e")
    BY <1>0, <2>2, PlacesPassed
  <2>4. x \in AllSaid(s, Marks(s)) /\ x.at <= e
    BY <2>1, <2>2, <2>3, AllSaidIs
  <2> QED
    BY <2>4 DEF SaidUpTo
<1> QED
  BY <1>1, <1>2, <1>3

\* What a listener hears at a mark: that its field begins, if it is the first one.
Announced(s, h) == {x \in {Progress(s, h)} : h \in Announcing(s, Marks(s))}

\* A mark says no more than that its field begins.
LEMMA SaidAtMark ==
  ASSUME NEW s \in Seq(Placed), NEW h \in Marks(s)
  PROVE  SaidUpTo(s, h[2]) = SaidUpTo(s, h[1] - 1) \cup Announced(s, h)
<1> PICK a, b : h[1] = a /\ h[2] = b
  OBVIOUS
<1>0. a \in Nat /\ b \in Nat /\ a >= 1 /\ a + 4 <= b
  <2>1. h[1] \in 1..Len(s) /\ h[2] \in Nat /\ h[1] + 4 <= h[2]
    BY MarksApart
  <2> QED
    BY <2>1
<1>1. ASSUME NEW x \in SaidUpTo(s, b)  PROVE x \in SaidUpTo(s, a - 1) \cup Announced(s, h)
  <2>0. x \in AllSaid(s, Marks(s)) /\ x.at <= b
    BY DEF SaidUpTo
  <2>1. CASE \E m \in Announcing(s, Marks(s)) : x = Progress(s, m)
    <3>1. PICK m \in Announcing(s, Marks(s)) : x = Progress(s, m)
      BY <2>1
    <3>2. m \in Marks(s) /\ x.at = m[1]
      BY <3>1 DEF Announcing, FieldMarks, Progress
    <3>3. CASE m = h
      BY <3>1, <3>3 DEF Announced
    <3>4. CASE m # h
      <4>1. m[1] \in Nat /\ (h[1] < m[1] => h[2] < m[1]) /\ (h[1] = m[1] => h = m)
        BY <3>2, MarksApart
      <4> PICK i : m[1] = i
        OBVIOUS
      <4>2. i \in Nat /\ (a < i => b < i) /\ a # i /\ i <= b
        BY <2>0, <3>2, <3>4, <4>1
      <4>3. i <= a - 1
        BY <1>0, <4>2
      <4>4. x.at <= a - 1
        BY <3>2, <4>3
      <4> QED
        BY <2>0, <4>4 DEF SaidUpTo
    <3> QED
      BY <3>3, <3>4
  <2>2. CASE \E p \in PlacesOf(s, Marks(s), "e") : x = Token(s, "e", p)
    <3>1. PICK p \in PlacesOf(s, Marks(s), "e") : x = Token(s, "e", p)
      BY <2>2
    <3>2. p \in Nat /\ x.at = p /\ p <= b /\ ~Inside(p, Marks(s))
      BY <2>0, <3>1 DEF PlacesOf, Token
    <3>3. ~(a <= p /\ p <= b)
      BY <3>2 DEF Inside
    <3>4. x.at <= a - 1
      BY <1>0, <3>2, <3>3
    <3> QED
      BY <2>0, <3>4 DEF SaidUpTo
  <2> QED
    BY <2>0, <2>1, <2>2, AllSaidIs
<1>2. ASSUME NEW x \in SaidUpTo(s, a - 1)  PROVE x \in SaidUpTo(s, b)
  <2>0. x \in AllSaid(s, Marks(s)) /\ x.at <= a - 1
    BY DEF SaidUpTo
  <2>1. x.at \in Nat
    <3>1. CASE \E m \in Announcing(s, Marks(s)) : x = Progress(s, m)
      <4>1. PICK m \in Announcing(s, Marks(s)) : x = Progress(s, m)
        BY <3>1
      <4>2. m \in Marks(s) /\ x.at = m[1]
        BY <4>1 DEF Announcing, FieldMarks, Progress
      <4> QED
        BY <4>2, MarksApart
    <3>2. CASE \E p \in PlacesOf(s, Marks(s), "e") : x = Token(s, "e", p)
      BY <3>2 DEF PlacesOf, Token
    <3> QED
      BY <2>0, <3>1, <3>2, AllSaidIs
  <2>2. x.at <= b
    BY <1>0, <2>0, <2>1
  <2> QED
    BY <2>0, <2>2 DEF SaidUpTo
<1>3. ASSUME NEW x \in Announced(s, h)  PROVE x \in SaidUpTo(s, b)
  <2>1. x = Progress(s, h) /\ h \in Announcing(s, Marks(s))
    BY <1>3 DEF Announced
  <2>2. x \in AllSaid(s, Marks(s)) /\ x.at = a
    <3>1. x \in AllSaid(s, Marks(s))
      BY <2>1, AllSaidIs
    <3> QED
      BY <2>1, <3>1 DEF Progress
  <2>3. x.at <= b
    BY <1>0, <2>2
  <2> QED
    BY <2>2, <2>3 DEF SaidUpTo
<1>4. SaidUpTo(s, b) = SaidUpTo(s, a - 1) \cup Announced(s, h)
  BY <1>1, <1>2, <1>3
<1> QED
  BY <1>4

\* The fields whose header has passed.
Begun(s, n) == {FieldOf(s, m) : m \in {k \in FieldMarks(s, Marks(s)) : k[2] <= n}}

\* A passage begins no field.
LEMMA BegunPassed ==
  ASSUME NEW s \in Seq(Placed), NEW n \in Nat, NEW e \in Nat, n <= e, Passage(Marks(s), n, e)
  PROVE  Begun(s, e) = Begun(s, n)
<1>1. ASSUME NEW m \in FieldMarks(s, Marks(s))  PROVE m[2] <= e <=> m[2] <= n
  <2>1. m[1] \in Nat /\ m[2] \in Nat /\ m[1] + 4 <= m[2] /\ (m[2] <= n \/ e < m[1])
    BY MarksApart DEF FieldMarks, Passage
  <2> PICK i, j : m[1] = i /\ m[2] = j
    OBVIOUS
  <2>2. i \in Nat /\ j \in Nat /\ i + 4 <= j /\ (j <= n \/ e < i)
    BY <2>1
  <2>3. j <= e <=> j <= n
    BY <2>2
  <2> QED
    BY <2>3
<1> QED
  BY <1>1 DEF Begun

\* Of the marks one has passed behind a mark that had not before it.
LEMMA MarkPassed ==
  ASSUME NEW s \in Seq(Placed), NEW h \in Marks(s), NEW m \in Marks(s)
  PROVE  /\ m[2] <= h[2] <=> m[2] <= h[1] - 1 \/ m = h
         /\ m # h => (m[1] < h[1] <=> m[2] <= h[1] - 1)
         /\ ~(h[2] <= h[1] - 1)
<1>1. /\ m[1] < h[1] => m[2] < h[1]
      /\ m[1] = h[1] => m = h
      /\ m[1] \in Nat /\ m[2] \in Nat /\ m[1] + 4 <= m[2]
  BY MarksApart
<1>2. /\ h[1] < m[1] => h[2] < m[1]
      /\ h[1] \in Nat /\ h[2] \in Nat /\ h[1] + 4 <= h[2]
  BY MarksApart
<1> PICK i, j, k, l : m[1] = i /\ m[2] = j /\ h[1] = k /\ h[2] = l
  OBVIOUS
<1>3. /\ i < k => j < k
      /\ k < i => l < i
      /\ i \in Nat /\ j \in Nat /\ k \in Nat /\ l \in Nat /\ i + 4 <= j /\ k + 4 <= l
  BY <1>1, <1>2
<1>4. i = k => m = h
  BY <1>1
<1>5. ~(l <= k - 1)
  BY <1>3
<1>6. m = h => j = l /\ i = k
  OBVIOUS
<1>7. m # h => (i < k <=> j <= k - 1)
  BY <1>3, <1>4
<1>8. j <= l <=> j <= k - 1 \/ m = h
  BY <1>3, <1>4, <1>6
<1> QED
  BY <1>5, <1>7, <1>8

\* A mark begins its own.
LEMMA BegunAtMark ==
  ASSUME NEW s \in Seq(Placed), NEW h \in Marks(s)
  PROVE  Begun(s, h[2]) = Begun(s, h[1] - 1) \cup ({FieldOf(s, h)} \cap Fields)
<1> DEFINE F == FieldMarks(s, Marks(s))
<1>1. \A m \in F : m[2] <= h[2] <=> m[2] <= h[1] - 1 \/ m = h
  BY MarkPassed DEF FieldMarks
<1>2. h \in F <=> FieldOf(s, h) \in Fields
  BY DEF FieldMarks
<1> HIDE DEF F
<1>3. {k \in F : k[2] <= h[2]} = {k \in F : k[2] <= h[1] - 1} \cup {k \in F : k = h}
  BY <1>1
<1>4. {FieldOf(s, m) : m \in {k \in F : k = h}} = {FieldOf(s, h)} \cap Fields
  BY <1>2
<1> QED
  BY <1>3, <1>4 DEF Begun, F

\* A mark announces its field when that has not begun before.
LEMMA AnnouncingIs ==
  ASSUME NEW s \in Seq(Placed), NEW h \in Marks(s)
  PROVE  h \in Announcing(s, Marks(s)) <=> FieldOf(s, h) \in Fields \ Begun(s, h[1] - 1)
<1>1. ASSUME NEW m \in Marks(s)  PROVE ~(h[1] <= m[1]) <=> m[2] <= h[1] - 1
  <2>1. /\ m # h => (m[1] < h[1] <=> m[2] <= h[1] - 1)
        /\ ~(h[2] <= h[1] - 1)
    BY MarkPassed
  <2>2. m[1] \in Nat /\ h[1] \in Nat
    BY MarksApart
  <2> QED
    BY <2>1, <2>2
<1>2. h \in Announcing(s, Marks(s)) <=>
        /\ FieldOf(s, h) \in Fields
        /\ \A m \in FieldMarks(s, Marks(s)) : FieldOf(s, m) = FieldOf(s, h) => h[1] <= m[1]
  BY DEF Announcing, FieldMarks
<1>3. FieldMarks(s, Marks(s)) \subseteq Marks(s)
  BY DEF FieldMarks
<1>4. FieldOf(s, h) \in Begun(s, h[1] - 1) <=>
        \E m \in FieldMarks(s, Marks(s)) : m[2] <= h[1] - 1 /\ FieldOf(s, m) = FieldOf(s, h)
  BY DEF Begun
<1> QED
  BY <1>1, <1>2, <1>3, <1>4

-----------------------------------------------------------------------------
(* The extractor: the diagram of a text up to a place.                     *)

\* The diagram text a mark has ended, and the rest of it.
Closed(s, n) == {p \in PlacesOf(s, Marks(s), "d") : \E m \in Marks(s) : p < m[1] /\ m[2] <= n}
Open(s, n)   == {p \in PlacesOf(s, Marks(s), "d") : p <= n /\ p \notin Closed(s, n)}

\* A passage ends no diagram text.
LEMMA ClosedPassed ==
  ASSUME NEW s \in Seq(Placed), NEW n \in Nat, NEW e \in Nat, n <= e, Passage(Marks(s), n, e)
  PROVE  Closed(s, e) = Closed(s, n)
<1>1. ASSUME NEW m \in Marks(s)  PROVE m[2] <= e <=> m[2] <= n
  <2>1. m[1] \in Nat /\ m[2] \in Nat /\ m[1] + 4 <= m[2] /\ (m[2] <= n \/ e < m[1])
    BY MarksApart DEF Passage
  <2> PICK i, j : m[1] = i /\ m[2] = j
    OBVIOUS
  <2>2. i \in Nat /\ j \in Nat /\ i + 4 <= j /\ (j <= n \/ e < i)
    BY <2>1
  <2>3. j <= e <=> j <= n
    BY <2>2
  <2> QED
    BY <2>3
<1> QED
  BY <1>1 DEF Closed

\* What a passage in the section g adds to the diagram.
Sketched(s, g, n, e) == {p \in n + 1..e : g = "d" /\ Solid(s[p])}

\* ... and adds what it sketches to what no mark has ended.
LEMMA OpenPassed ==
  ASSUME NEW s \in Seq(Placed), NEW n \in Nat, NEW e \in Nat, n <= e, e <= Len(s),
         Passage(Marks(s), n, e), NEW g, SectionIs(s, n, g)
  PROVE  Open(s, e) = Open(s, n) \cup Sketched(s, g, n, e)
<1>1. Closed(s, e) = Closed(s, n)
  BY ClosedPassed
<1>2. InSection(s, Marks(s), n + 1, "d") <=> g = "d"
  BY DEF Fields, SectionIs
<1>3. \A p \in PlacesOf(s, Marks(s), "d") : p \in Nat
  BY DEF PlacesOf
<1>4. ASSUME NEW p \in n + 1..e
      PROVE  p \in PlacesOf(s, Marks(s), "d") <=> p \in Sketched(s, g, n, e)
  BY <1>2, PlacesPassed DEF Sketched
<1>5. ASSUME NEW p \in n + 1..e, p \in Closed(s, n)  PROVE FALSE
  <2>1. PICK m \in Marks(s) : p < m[1] /\ m[2] <= n
    BY <1>5 DEF Closed
  <2>2. m[1] \in Nat /\ m[2] \in Nat /\ m[1] + 4 <= m[2]
    BY MarksApart
  <2> PICK i, j : m[1] = i /\ m[2] = j
    OBVIOUS
  <2>3. i \in Nat /\ j \in Nat /\ i + 4 <= j /\ p < i /\ j <= n /\ p \in Nat /\ n + 1 <= p
    BY <2>1, <2>2
  <2> QED
    BY <2>3
<1>6. \A p \in Nat : p <= e <=> p <= n \/ p \in n + 1..e
  OBVIOUS
<1>7. Sketched(s, g, n, e) \subseteq n + 1..e
  BY DEF Sketched
<1>8. ASSUME NEW p \in Open(s, e)  PROVE p \in Open(s, n) \cup Sketched(s, g, n, e)
  BY <1>1, <1>3, <1>4, <1>6, <1>8 DEF Open
<1>9. ASSUME NEW p \in Open(s, n)  PROVE p \in Open(s, e)
  BY <1>1, <1>3, <1>6, <1>9 DEF Open
<1>10. ASSUME NEW p \in Sketched(s, g, n, e)  PROVE p \in Open(s, e)
  <2>1. p \in n + 1..e
    BY <1>7
  <2>2. p \in PlacesOf(s, Marks(s), "d") /\ p \notin Closed(s, n) /\ p <= e
    BY <1>4, <1>5, <2>1
  <2> QED
    BY <1>1, <2>2 DEF Open
<1> QED
  BY <1>8, <1>9, <1>10

\* A mark ends all the diagram text before it.
LEMMA OpenAtMark ==
  ASSUME NEW s \in Seq(Placed), NEW h \in Marks(s)
  PROVE  /\ Closed(s, h[2]) = Closed(s, h[1] - 1) \cup Open(s, h[1] - 1)
         /\ Open(s, h[2]) = {}
<1>0. h[1] \in 1..Len(s) /\ h[2] \in Nat /\ h[1] + 4 <= h[2]
  BY MarksApart
<1>1. \A p \in PlacesOf(s, Marks(s), "d") : p \in Nat /\ ~(h[1] <= p /\ p <= h[2])
  BY DEF PlacesOf, Inside
<1>2. \A m \in Marks(s) : m[2] <= h[2] <=> m[2] <= h[1] - 1 \/ m = h
  BY MarkPassed
<1> PICK a, b : h[1] = a /\ h[2] = b
  OBVIOUS
<1>3. /\ a \in Nat /\ b \in Nat /\ a >= 1
      /\ \A p \in Nat : p < a <=> p <= a - 1
      /\ \A p \in Nat : p <= b <=> p < a \/ (a <= p /\ p <= b)
  <2>1. a \in Nat /\ b \in Nat /\ a >= 1 /\ a + 4 <= b
    BY <1>0
  <2> QED
    BY <2>1
<1>4. ASSUME NEW p \in PlacesOf(s, Marks(s), "d")
      PROVE  /\ p \in Nat /\ (p <= b <=> p < a) /\ (p < a <=> p <= a - 1)
             /\ p \in Closed(s, b) <=> p \in Closed(s, a - 1) \/ p < a
  <2>1. p \in Nat /\ (p <= b <=> p < a) /\ (p < a <=> p <= a - 1)
    BY <1>1, <1>3
  <2>2. p \in Closed(s, b) <=> \E m \in Marks(s) : p < m[1] /\ (m[2] <= a - 1 \/ m = h)
    BY <1>2 DEF Closed
  <2>3. p \in Closed(s, b) <=> p \in Closed(s, a - 1) \/ p < a
    BY <2>2 DEF Closed
  <2> QED
    BY <2>1, <2>3
<1>5. /\ Closed(s, b) \subseteq PlacesOf(s, Marks(s), "d")
      /\ Closed(s, a - 1) \subseteq PlacesOf(s, Marks(s), "d")
  BY DEF Closed
<1>6. Closed(s, b) = Closed(s, a - 1) \cup Open(s, a - 1)
  BY <1>4, <1>5 DEF Open
<1>7. Open(s, b) = {}
  BY <1>4 DEF Open
<1> QED
  BY <1>6, <1>7

\* The last stretch is the diagram text no mark has ended, if there is any.
LEMMA LastIsOpen ==
  ASSUME NEW s \in Seq(Placed), NEW n \in Nat, Open(s, n) # {}
  PROVE  LastStretch(Marks(s), Closed(s, n) \cup Open(s, n)) = Open(s, n)
<1>0. \A p \in PlacesOf(s, Marks(s), "d") : p \in Nat /\ ~Inside(p, Marks(s))
  BY DEF PlacesOf
<1>1. ASSUME NEW p \in Closed(s, n), NEW q \in Open(s, n)
      PROVE  \E m \in Marks(s) : p < m[1] /\ m[2] < q
  <2>1. PICK m \in Marks(s) : p < m[1] /\ m[2] <= n
    BY DEF Closed
  <2>2. q \in PlacesOf(s, Marks(s), "d") /\ q \notin Closed(s, n) /\ q \in Nat /\ ~Inside(q, Marks(s))
    BY <1>0 DEF Open
  <2>3. ~(q < m[1]) /\ ~(m[1] <= q /\ q <= m[2])
    BY <2>1, <2>2 DEF Closed, Inside
  <2>4. m[1] \in Nat /\ m[2] \in Nat
    BY MarksApart
  <2>5. m[2] < q
    BY <2>2, <2>3, <2>4
  <2> QED
    BY <2>1, <2>5
<1>2. ASSUME NEW p \in Open(s, n), NEW m \in Marks(s), NEW q \in Closed(s, n) \cup Open(s, n),
             p < m[1], m[2] < q
      PROVE  FALSE
  <2>1. q <= n /\ q \in Nat
    <3>1. CASE q \in Open(s, n)
      BY <1>0, <3>1 DEF Open
    <3>2. CASE q \in Closed(s, n)
      <4>1. PICK k \in Marks(s) : q < k[1] /\ k[2] <= n
        BY <3>2 DEF Closed
      <4>2. k[1] \in Nat /\ k[2] \in Nat /\ k[1] + 4 <= k[2] /\ q \in Nat
        BY <1>0, <3>2, MarksApart DEF Closed
      <4> PICK i, j : k[1] = i /\ k[2] = j
        OBVIOUS
      <4>3. i \in Nat /\ j \in Nat /\ i + 4 <= j /\ q \in Nat /\ q < i /\ j <= n
        BY <4>1, <4>2
      <4>4. q <= n
        BY <4>3
      <4> QED
        BY <4>2, <4>4
    <3> QED
      BY <3>1, <3>2
  <2>2. m[2] \in Nat
    BY MarksApart
  <2>3. m[2] <= n
    BY <1>2, <2>1, <2>2
  <2> QED
    BY <1>2, <2>3 DEF Open, Closed
<1> QED
  BY <1>1, <1>2 DEF LastStretch

\* At the end all the diagram text has been read.
LEMMA AllRead ==
  ASSUME NEW s \in Seq(Placed)
  PROVE  /\ Closed(s, Len(s)) \cup Open(s, Len(s)) = PlacesOf(s, Marks(s), "d")
         /\ SaidUpTo(s, Len(s)) = AllSaid(s, Marks(s))
<1>1. \A p \in PlacesOf(s, Marks(s), "d") : p <= Len(s)
  BY DEF PlacesOf
<1>2. Closed(s, Len(s)) \cup Open(s, Len(s)) = PlacesOf(s, Marks(s), "d")
  BY <1>1 DEF Closed, Open
<1>3. ASSUME NEW x \in AllSaid(s, Marks(s))  PROVE x.at <= Len(s)
  <2>1. CASE \E m \in Announcing(s, Marks(s)) : x = Progress(s, m)
    <3>1. PICK m \in Announcing(s, Marks(s)) : x = Progress(s, m)
      BY <2>1
    <3>2. m \in Marks(s) /\ x.at = m[1]
      BY <3>1 DEF Announcing, FieldMarks, Progress
    <3>3. m[1] \in 1..Len(s)
      BY <3>2, MarksApart
    <3> QED
      BY <3>2, <3>3
  <2>2. CASE \E p \in PlacesOf(s, Marks(s), "e") : x = Token(s, "e", p)
    BY <2>2 DEF PlacesOf, Token
  <2> QED
    BY <2>1, <2>2, AllSaidIs
<1> QED
  BY <1>2, <1>3 DEF SaidUpTo

-----------------------------------------------------------------------------
(* The extractor: what is sent and kept, character by character.           *)

\* In order, from behind n up to e.
Stretch(q, n, e) ==
  InOrder(q) /\ \A i \in 1..Len(q) : q[i].at \in Nat /\ n < q[i].at /\ q[i].at <= e

\* Two stretches make one when the second begins where the first ends.
LEMMA StretchJoin ==
  ASSUME NEW S, NEW q \in Seq(S), NEW r \in Seq(S), NEW n \in Nat, NEW k \in Nat, NEW e \in Nat,
         n <= k, k <= e, Stretch(q, n, k), Stretch(r, k, e)
  PROVE  Stretch(q \o r, n, e)
<1> DEFINE t == q \o r
<1>0. /\ Len(q) \in Nat /\ Len(r) \in Nat /\ Len(t) = Len(q) + Len(r)
      /\ \A i \in 1..Len(q) : t[i] = q[i]
      /\ \A i \in Len(q) + 1..Len(t) : t[i] = r[i - Len(q)]
  OBVIOUS
<1> HIDE DEF t
<1>1. ASSUME NEW i \in 1..Len(q)
      PROVE  t[i].at \in Nat /\ n < t[i].at /\ t[i].at <= k
  BY <1>0 DEF Stretch
<1>2. ASSUME NEW i \in Len(q) + 1..Len(t)
      PROVE  /\ t[i].at \in Nat /\ k < t[i].at /\ t[i].at <= e
             /\ i - Len(q) \in 1..Len(r) /\ t[i] = r[i - Len(q)]
  <2>1. i - Len(q) \in 1..Len(r)
    BY <1>0
  <2>2. r[i - Len(q)].at \in Nat /\ k < r[i - Len(q)].at /\ r[i - Len(q)].at <= e
    BY <2>1 DEF Stretch
  <2> QED
    BY <1>0, <2>1, <2>2
<1>3. ASSUME NEW i \in 1..Len(t)  PROVE t[i].at \in Nat /\ n < t[i].at /\ t[i].at <= e
  <2>1. CASE i <= Len(q)
    <3>1. i \in 1..Len(q)
      BY <1>0, <2>1
    <3>2. t[i].at \in Nat /\ n < t[i].at /\ t[i].at <= k
      BY <1>1, <3>1
    <3> QED
      BY <3>2
  <2>2. CASE i > Len(q)
    <3>1. i \in Len(q) + 1..Len(t)
      BY <1>0, <2>2
    <3>2. t[i].at \in Nat /\ k < t[i].at /\ t[i].at <= e
      BY <1>2, <3>1
    <3> QED
      BY <3>2
  <2> QED
    BY <1>0, <2>1, <2>2
<1>4. ASSUME NEW a \in 1..Len(t), NEW b \in 1..Len(t), a < b  PROVE t[a].at < t[b].at
  <2>1. CASE b <= Len(q)
    <3>1. a \in 1..Len(q) /\ b \in 1..Len(q)
      BY <1>0, <1>4, <2>1
    <3> QED
      BY <1>0, <1>4, <3>1 DEF Stretch, InOrder
  <2>2. CASE a <= Len(q) /\ b > Len(q)
    <3>1. a \in 1..Len(q) /\ b \in Len(q) + 1..Len(t)
      BY <1>0, <2>2
    <3>2. t[a].at \in Nat /\ t[b].at \in Nat /\ t[a].at <= k /\ k < t[b].at
      BY <1>1, <1>2, <3>1
    <3> QED
      BY <3>2
  <2>3. CASE a > Len(q)
    <3>1. a \in Len(q) + 1..Len(t) /\ b \in Len(q) + 1..Len(t)
      BY <1>0, <1>4, <2>3
    <3>2. a - Len(q) \in 1..Len(r) /\ b - Len(q) \in 1..Len(r) /\ a - Len(q) < b - Len(q)
      BY <1>0, <1>4, <3>1
    <3>3. r[a - Len(q)].at < r[b - Len(q)].at
      BY <3>2 DEF Stretch, InOrder
    <3> QED
      BY <1>2, <3>1, <3>3
  <2> QED
    BY <1>0, <2>1, <2>2, <2>3
<1>5. Stretch(t, n, e)
  BY <1>3, <1>4 DEF Stretch, InOrder
<1> QED
  BY <1>5 DEF t

\* A stretch up to e is one up to any place behind e.
LEMMA StretchWider ==
  ASSUME NEW q, NEW n \in Nat, NEW e \in Nat, NEW d \in Nat, e <= d, Stretch(q, n, e)
  PROVE  Stretch(q, n, d)
<1>1. ASSUME NEW i \in 1..Len(q)  PROVE q[i].at \in Nat /\ n < q[i].at /\ q[i].at <= d
  <2>1. q[i].at \in Nat /\ n < q[i].at /\ q[i].at <= e
    BY DEF Stretch
  <2> QED
    BY <2>1
<1> QED
  BY <1>1 DEF Stretch

\* Nothing is a stretch, and blank.
LEMMA EmptyStretch ==
  ASSUME NEW n, NEW e
  PROVE  Stretch(<<>>, n, e) /\ Ink(<<>>) = {} /\ Blank(<<>>)
<1>1. 1..Len(<<>>) = {}
  OBVIOUS
<1> QED
  BY <1>1 DEF Stretch, InOrder, Ink, Blank

\* The ink of two sequences in a row is the ink of both.
LEMMA InkJoin ==
  ASSUME NEW S, NEW q \in Seq(S), NEW r \in Seq(S)
  PROVE  Ink(q \o r) = Ink(q) \cup Ink(r)
<1> DEFINE t == q \o r
<1>0. /\ Len(q) \in Nat /\ Len(r) \in Nat /\ Len(t) = Len(q) + Len(r)
      /\ \A i \in 1..Len(q) : t[i] = q[i]
      /\ \A i \in 1..Len(r) : t[Len(q) + i] = r[i]
  OBVIOUS
<1> HIDE DEF t
<1>1. ASSUME NEW i \in 1..Len(t)
      PROVE  \/ \E j \in 1..Len(q) : t[i] = q[j]
             \/ \E j \in 1..Len(r) : t[i] = r[j]
  <2>1. CASE i <= Len(q)
    BY <1>0, <2>1
  <2>2. CASE i > Len(q)
    <3>1. i - Len(q) \in 1..Len(r) /\ Len(q) + (i - Len(q)) = i
      BY <1>0, <2>2
    <3>2. t[Len(q) + (i - Len(q))] = r[i - Len(q)]
      BY <1>0, <3>1
    <3>3. t[i] = r[i - Len(q)]
      BY <3>1, <3>2
    <3> QED
      BY <3>1, <3>3
  <2> QED
    BY <1>0, <2>1, <2>2
<1>2. ASSUME NEW i \in 1..Len(q)  PROVE \E j \in 1..Len(t) : q[i] = t[j]
  <2>1. i \in 1..Len(t) /\ q[i] = t[i]
    BY <1>0
  <2> QED
    BY <2>1
<1>3. ASSUME NEW i \in 1..Len(r)  PROVE \E j \in 1..Len(t) : r[i] = t[j]
  <2>1. Len(q) + i \in 1..Len(t) /\ r[i] = t[Len(q) + i]
    BY <1>0
  <2> QED
    BY <2>1
<1>4. {t[i] : i \in 1..Len(t)} = {q[i] : i \in 1..Len(q)} \cup {r[i] : i \in 1..Len(r)}
  <2>1. ASSUME NEW c \in {t[i] : i \in 1..Len(t)}
        PROVE  c \in {q[i] : i \in 1..Len(q)} \cup {r[i] : i \in 1..Len(r)}
    BY <1>1
  <2>2. ASSUME NEW c \in {q[i] : i \in 1..Len(q)} \cup {r[i] : i \in 1..Len(r)}
        PROVE  c \in {t[i] : i \in 1..Len(t)}
    BY <1>2, <1>3
  <2> QED
    BY <2>1, <2>2
<1>5. Ink(t) = Ink(q) \cup Ink(r)
  BY <1>4 DEF Ink
<1> QED
  BY <1>5 DEF t

\* What is blank has no ink.
LEMMA BlankIs ==
  ASSUME NEW q
  PROVE  Blank(q) <=> Ink(q) = {}
BY DEF Blank, Ink

\* A set of numbers below a bound has a greatest element.
LEMMA MaxIs ==
  ASSUME NEW T, T \subseteq Nat, T # {}, NEW b \in Nat, \A m \in T : m <= b
  PROVE  Max(T) \in T /\ \A m \in T : m <= Max(T)
<1> DEFINE U == {n \in Nat : \A m \in T : m <= n}
<1>1. U \subseteq Nat /\ b \in U
  OBVIOUS
<1>2. PICK n \in U : \A k \in U : n <= k
  BY <1>1, LeastNatural
<1>3. n \in T
  <2> SUFFICES ASSUME n \notin T  PROVE FALSE
    OBVIOUS
  <2>1. \A m \in T : m <= n /\ m # n /\ m \in Nat
    BY <1>2
  <2>2. PICK m \in T : TRUE
    OBVIOUS
  <2>3. n - 1 \in Nat /\ \A k \in T : k <= n - 1
    BY <2>1, <2>2
  <2>4. n <= n - 1
    BY <1>2, <2>3
  <2> QED
    BY <1>1, <2>3, <2>4
<1>4. \E x \in T : \A y \in T : x >= y
  BY <1>2, <1>3
<1>5. Max(T) \in T /\ \A y \in T : Max(T) >= y
  BY <1>4 DEF Max
<1> QED
  BY <1>5

\* Stripping takes no ink and keeps the order.
LEMMA StrippedIs ==
  ASSUME NEW q \in Seq(Placed), NEW n \in Nat, NEW e \in Nat, Stretch(q, n, e)
  PROVE  /\ Stripped(q) \in Seq(Placed) /\ Ink(Stripped(q)) = Ink(q)
         /\ Stretch(Stripped(q), n, e)
<1> DEFINE full == {i \in 1..Len(q) : Solid(q[i])}
<1>1. CASE full = {}
  <2>1. Stripped(q) = <<>>
    BY <1>1 DEF Stripped
  <2>2. Ink(q) = {}
    BY <1>1 DEF Ink
  <2> QED
    BY <2>1, <2>2, EmptyStretch
<1>2. CASE full # {}
  <2> DEFINE a == Min(full)
             b == Max(full)
             t == SubSeq(q, a, b)
  <2>1. full \subseteq Nat /\ Len(q) \in Nat /\ \A i \in full : i <= Len(q)
    OBVIOUS
  <2>2. a \in full /\ \A i \in full : a <= i
    BY <1>2, <2>1, MinIs
  <2>3. b \in full /\ \A i \in full : i <= b
    BY <1>2, <2>1, MaxIs
  <2>4. Stripped(q) = t
    BY <1>2 DEF Stripped
  <2>5. a \in 1..Len(q) /\ b \in 1..Len(q) /\ a <= b
    BY <2>2, <2>3
  <2> HIDE DEF a, b
  <2>6. /\ t \in Seq(Placed) /\ Len(t) = b - a + 1
        /\ \A i \in 1..b - a + 1 : t[i] = q[a + i - 1]
    BY <2>5
  <2> HIDE DEF t
  <2>7. ASSUME NEW i \in 1..Len(t)  PROVE a + i - 1 \in 1..Len(q) /\ t[i] = q[a + i - 1]
    BY <2>5, <2>6
  <2>8. Ink(t) = Ink(q)
    <3>1. ASSUME NEW i \in full  PROVE \E j \in 1..Len(t) : q[i] = t[j]
      <4>1. a <= i /\ i <= b /\ i \in Nat
        BY <2>1, <2>2, <2>3
      <4>2. i - a + 1 \in 1..b - a + 1 /\ a + (i - a + 1) - 1 = i
        BY <2>5, <4>1
      <4>3. t[i - a + 1] = q[i]
        BY <2>6, <4>2
      <4> QED
        BY <2>6, <4>2, <4>3
    <3>2. ASSUME NEW c \in Ink(q)  PROVE c \in Ink(t)
      <4>1. PICK i \in full : c = q[i]
        BY <3>2 DEF Ink
      <4> QED
        BY <3>1, <3>2, <4>1 DEF Ink
    <3>3. ASSUME NEW c \in Ink(t)  PROVE c \in Ink(q)
      <4>1. PICK i \in 1..Len(t) : c = t[i] /\ Solid(c)
        BY <3>3 DEF Ink
      <4> QED
        BY <2>7, <4>1 DEF Ink
    <3> QED
      BY <3>2, <3>3
  <2>9. Stretch(t, n, e)
    <3>1. ASSUME NEW i \in 1..Len(t)  PROVE t[i].at \in Nat /\ n < t[i].at /\ t[i].at <= e
      BY <2>7 DEF Stretch
    <3>2. ASSUME NEW i \in 1..Len(t), NEW j \in 1..Len(t), i < j  PROVE t[i].at < t[j].at
      <4>1. a + i - 1 < a + j - 1
        BY <2>5, <2>6, <3>2
      <4> QED
        BY <2>7, <4>1 DEF Stretch, InOrder
    <3> QED
      BY <3>1, <3>2 DEF Stretch, InOrder
  <2> QED
    BY <2>4, <2>6, <2>8, <2>9
<1> QED
  BY <1>1, <1>2

\* The beginning of a piece is a piece ...
LEMMA PieceBegins ==
  ASSUME NEW s \in Seq(Placed), NEW c, NEW n, PieceOf(c, s, n), NEW k \in 0..Len(c)
  PROVE  PieceOf(SubSeq(c, 1, k), s, n) /\ Len(SubSeq(c, 1, k)) = k
<1>1. /\ c \in Seq(Placed) /\ n \in Nat /\ n + Len(c) <= Len(s) /\ Len(c) \in Nat /\ Len(s) \in Nat
      /\ \A i \in 1..Len(c) : c[i] = s[n + i]
  BY DEF PieceOf
<1> DEFINE t == SubSeq(c, 1, k)
<1>2. /\ t \in Seq(Placed) /\ Len(t) = k
      /\ \A i \in 1..k : t[i] = c[i]
  BY <1>1
<1> HIDE DEF t
<1>3. n + k <= Len(s) /\ \A i \in 1..k : i \in 1..Len(c)
  BY <1>1
<1>4. PieceOf(t, s, n)
  BY <1>1, <1>2, <1>3 DEF PieceOf
<1> QED
  BY <1>2, <1>4 DEF t

\* ... and so is what is left of it.
LEMMA PieceEnds ==
  ASSUME NEW s \in Seq(Placed), NEW c, NEW n, PieceOf(c, s, n), NEW k \in 0..Len(c)
  PROVE  PieceOf(Rest(c, k + 1), s, n + k) /\ Len(Rest(c, k + 1)) = Len(c) - k
<1>1. /\ c \in Seq(Placed) /\ n \in Nat /\ n + Len(c) <= Len(s) /\ Len(c) \in Nat /\ Len(s) \in Nat
      /\ \A i \in 1..Len(c) : c[i] = s[n + i]
  BY DEF PieceOf
<1> DEFINE t == SubSeq(c, k + 1, Len(c))
<1>2. /\ t \in Seq(Placed) /\ Len(t) = Len(c) - k
      /\ \A i \in 1..Len(c) - k : t[i] = c[k + i]
  BY <1>1
<1> HIDE DEF t
<1>3. ASSUME NEW i \in 1..Len(t)  PROVE t[i] = s[(n + k) + i]
  <2>1. k + i \in 1..Len(c) /\ n + (k + i) = (n + k) + i
    BY <1>1, <1>2
  <2>2. c[k + i] = s[n + (k + i)]
    BY <1>1, <2>1
  <2> QED
    BY <1>2, <2>1, <2>2
<1>4. n + k \in Nat /\ (n + k) + Len(t) <= Len(s)
  BY <1>1, <1>2
<1>5. PieceOf(t, s, n + k)
  BY <1>2, <1>3, <1>4 DEF PieceOf
<1> QED
  BY <1>2, <1>5 DEF t, Rest

\* A piece is a stretch of its text.
LEMMA PieceIs ==
  ASSUME NEW s, PlacedText(s), NEW c, NEW n, PieceOf(c, s, n)
  PROVE  /\ Stretch(c, n, n + Len(c))
         /\ Ink(c) = {s[p] : p \in {q \in n + 1..n + Len(c) : Solid(s[q])}}
<1>1. /\ c \in Seq(Placed) /\ n \in Nat /\ n + Len(c) <= Len(s) /\ Len(c) \in Nat /\ Len(s) \in Nat
      /\ \A i \in 1..Len(c) : c[i] = s[n + i]
  BY DEF PieceOf, PlacedText
<1>2. ASSUME NEW i \in 1..Len(c)
      PROVE  n + i \in n + 1..n + Len(c) /\ n + i \in 1..Len(s) /\ c[i].at = n + i
  BY <1>1 DEF PlacedText
<1>3. Stretch(c, n, n + Len(c))
  <2>1. ASSUME NEW i \in 1..Len(c)
        PROVE  c[i].at \in Nat /\ n < c[i].at /\ c[i].at <= n + Len(c)
    BY <1>1, <1>2
  <2>2. ASSUME NEW i \in 1..Len(c), NEW j \in 1..Len(c), i < j  PROVE c[i].at < c[j].at
    <3>1. c[i].at = n + i /\ c[j].at = n + j
      BY <1>2
    <3>2. n + i < n + j
      BY <1>1, <2>2
    <3> QED
      BY <3>1, <3>2
  <2> QED
    BY <2>1, <2>2 DEF Stretch, InOrder
<1>4. ASSUME NEW p \in n + 1..n + Len(c)  PROVE \E i \in 1..Len(c) : s[p] = c[i]
  <2>1. p - n \in 1..Len(c) /\ n + (p - n) = p
    BY <1>1
  <2>2. c[p - n] = s[n + (p - n)]
    BY <1>1, <2>1
  <2> QED
    BY <2>1, <2>2
<1>5. ASSUME NEW i \in 1..Len(c)  PROVE \E p \in n + 1..n + Len(c) : s[p] = c[i]
  BY <1>1, <1>2
<1>6. {c[i] : i \in 1..Len(c)} = {s[p] : p \in n + 1..n + Len(c)}
  BY <1>4, <1>5
<1>7. Ink(c) = {s[p] : p \in {q \in n + 1..n + Len(c) : Solid(s[q])}}
  BY <1>6 DEF Ink
<1> QED
  BY <1>3, <1>7

\* What is sent of a piece.
LEMMA TokensAre ==
  ASSUME NEW s, PlacedText(s), NEW c, NEW n, PieceOf(c, s, n), field \in Streamable
  PROVE  /\ Tokens(c) \in Seq(Event) /\ Stretch(Tokens(c), n, n + Len(c))
         /\ Ink(Tokens(c)) = SpokenBetween(s, field, n, n + Len(c))
<1>1. /\ c \in Seq(Placed) /\ n \in Nat /\ n + Len(c) <= Len(s) /\ Len(c) \in Nat /\ Len(s) \in Nat
      /\ \A i \in 1..Len(c) : c[i] = s[n + i]
  BY DEF PieceOf, PlacedText
<1> DEFINE t == Tokens(c)
<1>2. /\ t = [k \in 1..Len(c) |-> [field |-> field, char |-> c[k].char, at |-> c[k].at]]
      /\ \A k \in 1..Len(c) : c[k] \in Placed
  BY <1>1 DEF Tokens
<1>3. \A k \in 1..Len(c) : [field |-> field, char |-> c[k].char, at |-> c[k].at] \in Event
  BY <1>2 DEF Event, Placed
<1>4. /\ t \in Seq(Event) /\ Len(t) = Len(c)
      /\ \A k \in 1..Len(c) : t[k] = [field |-> field, char |-> c[k].char, at |-> c[k].at]
  BY <1>1, <1>2, <1>3
<1> HIDE DEF t
<1>5. ASSUME NEW k \in 1..Len(c)
      PROVE  /\ t[k] = Token(s, field, n + k) /\ t[k].at = c[k].at /\ n + k \in n + 1..n + Len(c)
  <2>1. n + k \in 1..Len(s) /\ s[n + k].at = n + k /\ c[k] = s[n + k]
    BY <1>1 DEF PlacedText
  <2> QED
    BY <1>1, <1>4, <2>1 DEF Token
<1>6. Stretch(c, n, n + Len(c))
  BY PieceIs
<1>7. Stretch(t, n, n + Len(c))
  BY <1>4, <1>5, <1>6 DEF Stretch, InOrder
<1>8. ASSUME NEW p \in n + 1..n + Len(c)
      PROVE  \E k \in 1..Len(t) : Token(s, field, p) = t[k]
  <2>1. p - n \in 1..Len(c) /\ n + (p - n) = p
    BY <1>1
  <2>2. t[p - n] = Token(s, field, n + (p - n))
    BY <1>5, <2>1
  <2> QED
    BY <1>4, <2>1, <2>2
<1>9. {t[k] : k \in 1..Len(t)} = {Token(s, field, p) : p \in n + 1..n + Len(c)}
  BY <1>4, <1>5, <1>8
<1>10. \A p \in n + 1..n + Len(c) :
         Solid(Token(s, field, p)) <=> Solid(s[Token(s, field, p).at])
  BY DEF Solid, Token
<1>11. Ink(t) = SpokenBetween(s, field, n, n + Len(c))
  BY <1>9, <1>10 DEF Ink, SpokenBetween
<1> QED
  BY <1>4, <1>7, <1>11 DEF t

\* ... also when nothing is sent because there is nothing to send.
Sent(t, c) ==
  \/ field \in Streamable /\ t = Tokens(c)
  \/ (field \notin Streamable \/ Blank(c)) /\ t = <<>>

LEMMA SentIs ==
  ASSUME NEW s, PlacedText(s), NEW c, NEW n, PieceOf(c, s, n), NEW t, Sent(t, c)
  PROVE  /\ t \in Seq(Event) /\ Stretch(t, n, n + Len(c))
         /\ Ink(t) = SpokenBetween(s, field, n, n + Len(c))
<1>0. <<>> \in Seq(Event)
  OBVIOUS
<1>1. CASE field \in Streamable /\ t = Tokens(c)
  BY <1>1, TokensAre
<1>2. CASE field \notin Streamable /\ t = <<>>
  <2>1. SpokenBetween(s, field, n, n + Len(c)) = {} /\ t = <<>>
    BY <1>2 DEF SpokenBetween
  <2> QED
    BY <1>0, <2>1, EmptyStretch
<1>3. CASE Blank(c) /\ t = <<>>
  <2>1. Ink(c) = {} /\ t = <<>>
    BY <1>3, BlankIs
  <2>2. {q \in n + 1..n + Len(c) : Solid(s[q])} = {}
    <3>1. {s[p] : p \in {q \in n + 1..n + Len(c) : Solid(s[q])}} = {}
      BY <2>1, PieceIs
    <3> HIDE DEF Solid
    <3> QED
      BY <3>1
  <2>3. SpokenBetween(s, field, n, n + Len(c)) = {}
    BY <2>2 DEF SpokenBetween, Token
  <2> QED
    BY <1>0, <2>1, <2>3, EmptyStretch
<1> QED
  BY <1>1, <1>2, <1>3 DEF Sent

-----------------------------------------------------------------------------
(* The extractor: what is held back.                                       *)

\* Where what is held back begins: at the first place a tail begins.
LEMMA TailStartIs ==
  ASSUME NEW c \in Seq(Placed)
  PROVE  /\ TailStart(c) \in 1..Len(c) + 1
         /\ TailStart(c) <= Len(c) => IsTail(Rest(c, TailStart(c)))
         /\ \A i \in 1..Len(c) : IsTail(Rest(c, i)) => TailStart(c) <= i
<1> DEFINE T == {i \in 1..Len(c) : IsTail(Rest(c, i))} \cup {Len(c) + 1}
           t == Min(T)
<1>1. Len(c) \in Nat /\ T \subseteq 1..Len(c) + 1 /\ T \subseteq Nat /\ T # {}
  OBVIOUS
<1>2. t \in T /\ \A i \in T : t <= i
  BY <1>1, MinIs
<1>3. TailStart(c) = t
  BY DEF TailStart
<1> HIDE DEF t
<1>4. t \in 1..Len(c) + 1
  BY <1>1, <1>2
<1>5. t <= Len(c) => IsTail(Rest(c, t))
  BY <1>1, <1>2
<1>6. \A i \in 1..Len(c) : IsTail(Rest(c, i)) => t <= i
  BY <1>2
<1> QED
  BY <1>3, <1>4, <1>5, <1>6

\* The beginning of a header is a tail.
LEMMA HeaderBegins ==
  ASSUME NEW s \in Seq(Placed), NEW i \in Nat, NEW j \in Nat, IsHeader(s, i, j),
         NEW e \in Nat, i <= e, e < j, NEW r, PieceOf(r, s, i - 1), Len(r) = e - (i - 1)
  PROVE  IsTail(r)
<1>1. i + 4 <= j /\ \A k \in {i, i + 1, j - 1, j} : s[k].char = "*"
  BY DEF IsHeader
<1>2. \A k \in i + 2..j - 2 : s[k].char \in Word
  BY DEF IsHeader
<1>3. \A k \in 1..Len(r) : r[k] = s[(i - 1) + k]
  BY DEF PieceOf
<1> DEFINE stars == IF i = e THEN 1 ELSE 2
           last  == IF e = j - 1 THEN 1 ELSE 0
           end   == Len(r)
<1>4. stars \in 1..2 /\ last \in 0..1 /\ end \in 1..Len(r) /\ stars + last <= end
  BY <1>1
<1>5. ASSUME NEW k \in 1..end
      PROVE  IF k <= stars \/ k > end - last THEN r[k].char = "*" ELSE r[k].char \in Word
  <2> PICK p : p = (i - 1) + k
    OBVIOUS
  <2>1. p \in Nat /\ i <= p /\ p <= e /\ r[k] = s[p]
    BY <1>3
  <2>2. CASE k <= stars
    <3>1. p \in {i, i + 1}
      BY <2>1, <2>2
    <3> QED
      BY <1>1, <2>1, <2>2, <3>1
  <2>3. CASE k > end - last
    <3>1. p = j - 1
      BY <2>1, <2>3
    <3> QED
      BY <1>1, <2>1, <2>3, <3>1
  <2>4. CASE ~(k <= stars) /\ ~(k > end - last)
    <3>1. i + 2 <= p
      <4>1. CASE i = e
        BY <2>4, <4>1
      <4>2. CASE i # e
        BY <2>4, <4>2
      <4> QED
        BY <4>1, <4>2
    <3>2. p <= j - 2
      <4>1. CASE e = j - 1
        BY <2>4, <4>1
      <4>2. CASE e # j - 1
        BY <2>1, <4>2
      <4> QED
        BY <4>1, <4>2
    <3>3. p \in i + 2..j - 2
      BY <2>1, <3>1, <3>2
    <3> QED
      BY <1>2, <2>1, <2>4, <3>3
  <2> QED
    BY <2>2, <2>3, <2>4
<1>6. \A k \in end + 1..Len(r) : k = Len(r) /\ r[k].char = "nl"
  BY <1>4
<1> HIDE DEF stars, last, end
<1> QED
  BY <1>4, <1>5, <1>6 DEF IsTail

\* What is let go of a piece without a header touches no mark, and cuts none.
LEMMA FlushCutsNone ==
  ASSUME NEW s \in Seq(Placed), NEW c, NEW n, PieceOf(c, s, n), MarksWhole(Marks(s), n),
         HeadersOf(c) = {}, NEW k, k = TailStart(c) - 1
  PROVE  Passage(Marks(s), n, n + k)
<1>1. c \in Seq(Placed) /\ n \in Nat /\ Len(c) \in Nat /\ n + Len(c) <= Len(s) /\ Len(s) \in Nat
  BY DEF PieceOf
<1>2. /\ k + 1 \in 1..Len(c) + 1
      /\ \A i \in 1..Len(c) : IsTail(Rest(c, i)) => k + 1 <= i
  BY <1>1, TailStartIs
<1> SUFFICES ASSUME NEW m \in Marks(s), ~(m[2] <= n)  PROVE n + k < m[1]
  BY DEF Passage
<1> PICK i, j : m[1] = i /\ m[2] = j
  OBVIOUS
<1>3. i \in Nat /\ j \in Nat /\ IsHeader(s, i, j)
  <2>1. m[1] \in 1..Len(s) /\ m[2] \in 1..Len(s) /\ IsHeader(s, m[1], m[2])
    BY MarksAre, HeaderIs
  <2> QED
    BY <2>1
<1>4. n < i
  BY DEF MarksWhole
<1>5. j > n + Len(c)
  <2> SUFFICES ASSUME j <= n + Len(c)  PROVE FALSE
    BY <1>1, <1>3
  <2>1. <<m[1] - n, m[2] - n>> \in HeadersOf(c)
    BY <1>4, MarkInPiece
  <2> QED
    BY <2>1
<1>6. CASE i <= n + Len(c)
  <2>1. i - n \in 1..Len(c) /\ (i - n) - 1 \in 0..Len(c) /\ n + ((i - n) - 1) = i - 1
        /\ Len(c) - ((i - n) - 1) = (n + Len(c)) - (i - 1) /\ ((i - n) - 1) + 1 = i - n
    BY <1>1, <1>3, <1>4, <1>6
  <2>2. /\ PieceOf(Rest(c, ((i - n) - 1) + 1), s, n + ((i - n) - 1))
        /\ Len(Rest(c, ((i - n) - 1) + 1)) = Len(c) - ((i - n) - 1)
    BY <2>1, PieceEnds
  <2>3. /\ PieceOf(Rest(c, i - n), s, i - 1)
        /\ Len(Rest(c, i - n)) = (n + Len(c)) - (i - 1)
    BY <2>1, <2>2
  <2>4. IsTail(Rest(c, i - n))
    <3> PICK e : e = n + Len(c)
      OBVIOUS
    <3>1. e \in Nat /\ i <= e /\ e < j
      BY <1>1, <1>5, <1>6
    <3>2. PieceOf(Rest(c, i - n), s, i - 1) /\ Len(Rest(c, i - n)) = e - (i - 1)
      BY <2>3
    <3> QED
      BY <1>3, <3>1, <3>2, HeaderBegins
  <2>5. k + 1 <= i - n
    BY <1>2, <2>1, <2>4
  <2>6. n + k < i
    BY <1>1, <1>2, <1>3, <2>5
  <2> QED
    BY <2>6
<1>7. CASE i > n + Len(c)
  <2>1. n + k < i
    BY <1>1, <1>2, <1>3, <1>7
  <2> QED
    BY <2>1
<1> QED
  BY <1>1, <1>3, <1>6, <1>7

\* Behind a passage no mark is cut.
LEMMA PassageWhole ==
  ASSUME NEW s \in Seq(Placed), NEW n \in Nat, NEW e \in Nat, n <= e, Passage(Marks(s), n, e)
  PROVE  MarksWhole(Marks(s), e)
<1> SUFFICES ASSUME NEW m \in Marks(s), m[2] <= n  PROVE m[2] <= e
  BY DEF Passage, MarksWhole
<1>1. m[2] \in Nat
  BY MarksApart
<1> QED
  BY <1>1

\* At the end of the text a piece without a header touches none.
LEMMA LastPassage ==
  ASSUME NEW s \in Seq(Placed), NEW c, NEW n, PieceOf(c, s, n), MarksWhole(Marks(s), n),
         HeadersOf(c) = {}, n + Len(c) = Len(s)
  PROVE  Passage(Marks(s), n, Len(s))
<1> SUFFICES ASSUME NEW m \in Marks(s), ~(m[2] <= n)  PROVE FALSE
  BY DEF Passage
<1>1. n < m[1] /\ m[2] <= n + Len(c)
  BY MarksApart DEF MarksWhole
<1>2. <<m[1] - n, m[2] - n>> \in HeadersOf(c)
  BY <1>1, MarkInPiece
<1> QED
  BY <1>2

\* What is left of a piece without a header has none.
LEMMA RestHasNone ==
  ASSUME NEW s \in Seq(Placed), NEW c, NEW n, PieceOf(c, s, n), HeadersOf(c) = {},
         NEW k \in 0..Len(c)
  PROVE  HeadersOf(Rest(c, k + 1)) = {}
<1> DEFINE r == Rest(c, k + 1)
<1>1. c \in Seq(Placed) /\ n \in Nat /\ Len(c) \in Nat
  BY DEF PieceOf
<1>2. PieceOf(r, s, n + k) /\ Len(r) = Len(c) - k /\ r \in Seq(Placed)
  <2>1. PieceOf(r, s, n + k) /\ Len(r) = Len(c) - k
    BY PieceEnds
  <2> QED
    BY <2>1 DEF PieceOf
<1> HIDE DEF r
<1> SUFFICES ASSUME NEW h \in HeadersOf(r)  PROVE FALSE
  BY DEF r
<1>3. h[1] \in 1..Len(r) /\ h[2] \in 1..Len(r) /\ IsHeader(r, h[1], h[2])
  BY <1>2, HeaderIs
<1> PICK i, j : h[1] = i /\ h[2] = j
  OBVIOUS
<1>4. i \in 1..Len(r) /\ j \in 1..Len(r) /\ IsHeader(s, (n + k) + i, (n + k) + j)
  BY <1>2, <1>3, PieceHeader
<1>5. /\ k + i \in 1..Len(c) /\ k + j \in 1..Len(c)
      /\ n + (k + i) = (n + k) + i /\ n + (k + j) = (n + k) + j
  BY <1>1, <1>2, <1>4
<1>6. IsHeader(c, k + i, k + j)
  <2>1. IsHeader(s, n + (k + i), n + (k + j))
    BY <1>4, <1>5
  <2> QED
    BY <1>5, <2>1, PieceHeader
<1>7. <<k + i, k + j>> \in HeadersOf(c)
  BY <1>1, <1>5, <1>6, HeaderIn
<1> QED
  BY <1>7

\* A piece grows by what follows it.
GrownBy(d, c, s, p, k) ==
  p + k <= Len(s) /\ d = c \o SubSeq(s, p + 1, p + k)

LEMMA PieceGrows ==
  ASSUME NEW s \in Seq(Placed), NEW c, NEW n, PieceOf(c, s, n), NEW p, p = n + Len(c),
         NEW k \in Nat, NEW d, GrownBy(d, c, s, p, k)
  PROVE  PieceOf(d, s, n) /\ Len(d) = Len(c) + k
<1>0. p + k <= Len(s) /\ d = c \o SubSeq(s, p + 1, p + k)
  BY DEF GrownBy
<1>1. /\ c \in Seq(Placed) /\ n \in Nat /\ n + Len(c) <= Len(s) /\ Len(c) \in Nat /\ Len(s) \in Nat
      /\ \A i \in 1..Len(c) : c[i] = s[n + i]
  BY DEF PieceOf
<1> DEFINE t == SubSeq(s, p + 1, p + k)
<1>2. p \in Nat /\ t \in Seq(Placed) /\ Len(t) = k /\ \A i \in 1..k : t[i] = s[p + i]
  BY <1>0, <1>1
<1> HIDE DEF t
<1>3. /\ d \in Seq(Placed) /\ Len(d) = Len(c) + k
      /\ \A i \in 1..Len(c) : d[i] = c[i]
      /\ \A i \in Len(c) + 1..Len(d) : d[i] = t[i - Len(c)]
  <2>1. d = c \o t
    BY <1>0 DEF t
  <2>2. c \in Seq(Placed) /\ t \in Seq(Placed) /\ Len(t) = k
    BY <1>1, <1>2
  <2>3. d \in Seq(Placed) /\ Len(d) = Len(c) + k
    <3>1. c \o t \in Seq(Placed) /\ Len(c \o t) = Len(c) + Len(t)
      BY <2>2
    <3> QED
      BY <2>1, <2>2, <3>1
  <2>4. /\ \A i \in 1..Len(c) : d[i] = c[i]
        /\ \A i \in Len(c) + 1..Len(d) : d[i] = t[i - Len(c)]
    BY <2>1, <2>2
  <2> QED
    BY <2>3, <2>4
<1>4. ASSUME NEW i \in 1..Len(d)  PROVE d[i] = s[n + i]
  <2>1. CASE i <= Len(c)
    BY <1>1, <1>3, <2>1
  <2>2. CASE i > Len(c)
    <3>1. i \in Len(c) + 1..Len(d) /\ i - Len(c) \in 1..k /\ p + (i - Len(c)) = n + i
      BY <1>1, <1>2, <1>3, <2>2
    <3>2. d[i] = t[i - Len(c)]
      BY <1>3, <3>1
    <3>3. t[i - Len(c)] = s[p + (i - Len(c))]
      BY <1>2, <3>1
    <3> QED
      BY <3>1, <3>2, <3>3
  <2> QED
    BY <1>1, <2>1, <2>2
<1>5. n + Len(d) <= Len(s)
  BY <1>0, <1>1, <1>2, <1>3
<1> QED
  BY <1>1, <1>3, <1>4, <1>5 DEF PieceOf

-----------------------------------------------------------------------------
(* The extractor: the diagram as it is collected.                          *)

InkOf(s, places) == {s[p] : p \in places}

\* No places have no ink.
LEMMA InkOfNone ==
  ASSUME NEW s, NEW places
  PROVE  InkOf(s, places) = {} <=> places = {}
BY DEF InkOf

\* What is kept of a piece of the diagram, also when nothing is kept because
\* there is nothing to keep.
Kept(k, g, b, c) ==
  \/ g = "d" /\ k = b \o c
  \/ (g # "d" \/ Blank(c)) /\ k = b

LEMMA KeptIs ==
  ASSUME NEW s, PlacedText(s), NEW c, NEW n, PieceOf(c, s, n), NEW e, e = n + Len(c),
         Passage(Marks(s), n, e), NEW g, SectionIs(s, n, g),
         NEW b \in Seq(Placed), Stretch(b, 0, n), Ink(b) = InkOf(s, Open(s, n)), g # "d" => Blank(b),
         NEW k, Kept(k, g, b, c)
  PROVE  /\ k \in Seq(Placed) /\ Stretch(k, 0, e) /\ Ink(k) = InkOf(s, Open(s, e))
         /\ g # "d" => Blank(k)
<1>1. /\ s \in Seq(Placed) /\ c \in Seq(Placed) /\ n \in Nat /\ e \in Nat /\ n <= e /\ e <= Len(s)
      /\ 0 <= n /\ 0 \in Nat
  BY DEF PieceOf, PlacedText
<1>2. Open(s, e) = Open(s, n) \cup Sketched(s, g, n, e)
  BY <1>1, OpenPassed
<1>3. Stretch(c, n, e) /\ Ink(c) = InkOf(s, {q \in n + 1..e : Solid(s[q])})
  BY PieceIs DEF InkOf
<1>4. InkOf(s, Open(s, e)) = InkOf(s, Open(s, n)) \cup InkOf(s, Sketched(s, g, n, e))
  BY <1>2 DEF InkOf
<1>5. CASE g = "d" /\ k = b \o c
  <2>1. k = b \o c /\ k \in Seq(Placed)
    BY <1>1, <1>5
  <2>2. Stretch(k, 0, e)
    BY <1>1, <1>3, <2>1, StretchJoin
  <2>3. Ink(k) = Ink(b) \cup Ink(c)
    <3>1. b \in Seq(Placed) /\ c \in Seq(Placed)
      BY <1>1
    <3>2. Ink(b \o c) = Ink(b) \cup Ink(c)
      BY <3>1, InkJoin
    <3> QED
      BY <2>1, <3>2
  <2>4. Sketched(s, g, n, e) = {q \in n + 1..e : Solid(s[q])}
    BY <1>5 DEF Sketched
  <2>5. Ink(k) = InkOf(s, Open(s, e))
    BY <1>3, <1>4, <2>3, <2>4
  <2> QED
    BY <1>5, <2>1, <2>2, <2>5
<1>6. CASE (g # "d" \/ Blank(c)) /\ k = b
  <2>1. k = b /\ Stretch(k, 0, e)
    BY <1>1, <1>6, StretchWider
  <2>2. InkOf(s, Sketched(s, g, n, e)) = {}
    <3>1. CASE g # "d"
      BY <3>1 DEF Sketched, InkOf
    <3>2. CASE Blank(c)
      <4>1. Ink(c) = {}
        BY <3>2, BlankIs
      <4>2. {q \in n + 1..e : Solid(s[q])} = {}
        BY <1>3, <4>1, InkOfNone
      <4> QED
        BY <4>2 DEF Sketched, InkOf
    <3> QED
      BY <1>6, <3>1, <3>2
  <2>3. Ink(k) = InkOf(s, Open(s, e))
    BY <1>4, <2>1, <2>2
  <2> QED
    BY <2>1, <2>3
<1> QED
  BY <1>5, <1>6 DEF Kept

\* What a mark, or the end, makes of it.
Ended(d, k, f) == d = IF ~Blank(k) THEN Stripped(k) ELSE f

\* k is what no mark has ended up to e, and f the last stretch of the rest.
Collected(s, k, f, e) ==
  /\ k \in Seq(Placed) /\ Stretch(k, 0, e) /\ Ink(k) = InkOf(s, Open(s, e))
  /\ f \in Seq(Placed) /\ Stretch(f, 0, e)
  /\ Ink(f) = InkOf(s, LastStretch(Marks(s), Closed(s, e)))

LEMMA DrawnIs ==
  ASSUME NEW s \in Seq(Placed), NEW e \in Nat, NEW k, NEW f, Collected(s, k, f, e),
         NEW d, Ended(d, k, f)
  PROVE  /\ d \in Seq(Placed) /\ Stretch(d, 0, e)
         /\ Ink(d) = InkOf(s, LastStretch(Marks(s), Closed(s, e) \cup Open(s, e)))
<1>0. /\ k \in Seq(Placed) /\ Stretch(k, 0, e) /\ Ink(k) = InkOf(s, Open(s, e))
      /\ f \in Seq(Placed) /\ Stretch(f, 0, e)
      /\ Ink(f) = InkOf(s, LastStretch(Marks(s), Closed(s, e)))
  BY DEF Collected
<1>1. CASE Blank(k)
  <2>1. InkOf(s, Open(s, e)) = {}
    BY <1>0, <1>1, BlankIs
  <2>2. Open(s, e) = {}
    BY <2>1, InkOfNone
  <2>3. Closed(s, e) \cup Open(s, e) = Closed(s, e)
    BY <2>2
  <2>4. d = f
    BY <1>1 DEF Ended
  <2> QED
    BY <1>0, <2>3, <2>4
<1>2. CASE ~Blank(k)
  <2>1. InkOf(s, Open(s, e)) # {}
    BY <1>0, <1>2, BlankIs
  <2>2. Open(s, e) # {}
    BY <2>1, InkOfNone
  <2>3. LastStretch(Marks(s), Closed(s, e) \cup Open(s, e)) = Open(s, e)
    BY <2>2, LastIsOpen
  <2>4. d = Stripped(k)
    BY <1>2 DEF Ended
  <2>5. Stripped(k) \in Seq(Placed) /\ Ink(Stripped(k)) = Ink(k) /\ Stretch(Stripped(k), 0, e)
    BY <1>0, StrippedIs
  <2> QED
    BY <1>0, <2>3, <2>4, <2>5
<1> QED
  BY <1>1, <1>2

-----------------------------------------------------------------------------
(* The extractor: the invariant.                                           *)

\* Up to the cut no mark is split, the section is the field, and the fields that
\* have begun are the ones announced.
CutInv ==
  /\ MarksWhole(Marks(text), Cut)
  /\ field \in Fields \cup {"none"}
  /\ SectionIs(text, Cut, field)
  /\ progressed = Begun(text, Cut)

\* What the text says up to the cut has been heard.
HeardInv == out \in Seq(Event) /\ Stretch(out, 0, Cut) /\ Heard = SaidUpTo(text, Cut)

\* The buffer holds the diagram text no mark has ended, and the diagram is the last
\* stretch of the rest; at the end, of all of it.
DiagramInv ==
  /\ buffer \in Seq(Placed) /\ final \in Seq(Placed) /\ Stretch(final, 0, Cut)
  /\ ~finished =>
       /\ Stretch(buffer, 0, Cut) /\ Ink(buffer) = InkOf(text, Open(text, Cut))
       /\ Ink(final) = InkOf(text, LastStretch(Marks(text), Closed(text, Cut)))
       /\ field # "d" => Blank(buffer)
  /\ finished => Ink(final) = InkOf(text, Drawn(text, Marks(text)))

ParserInv == ShapeInv /\ CutInv /\ HeardInv /\ DiagramInv

\* What is known of the state outside and inside the loop.
LEMMA StateIs ==
  ASSUME ShapeInv
  PROVE  /\ text \in Seq(Placed) /\ Len(text) \in Nat /\ position \in Nat /\ Cut \in Nat
         /\ chunk \in Seq(Placed) /\ Len(chunk) \in Nat /\ position = Cut + Len(chunk)
         /\ position <= Len(text) /\ Cut <= Len(text)
<1>1. /\ text \in Seq(Placed) /\ position \in Nat /\ chunk \in Seq(Placed) /\ Cut \in Nat
      /\ Cut + Len(chunk) <= Len(text)
  BY DEF ShapeInv, PlacedText, PieceOf
<1>2. Len(chunk) \in Nat /\ Len(text) \in Nat
  BY <1>1
<1>3. position = Cut + Len(chunk)
  BY <1>1, <1>2 DEF Cut
<1> QED
  BY <1>1, <1>2, <1>3

\* The characters of a text carry their place.
LEMMA PlacedIs ==
  ASSUME NEW t \in Seq(Char)
  PROVE  PlacedText(Place(t)) /\ Len(Place(t)) = Len(t)
<1> DEFINE s == Place(t)
<1>1. /\ s = [i \in 1..Len(t) |-> [char |-> t[i], at |-> i]] /\ Len(t) \in Nat
      /\ \A i \in 1..Len(t) : t[i] \in Char
  BY DEF Place
<1>2. \A i \in 1..Len(t) : [char |-> t[i], at |-> i] \in Placed
  BY <1>1 DEF Placed
<1> HIDE DEF s
<1>3. s \in Seq(Placed) /\ Len(s) = Len(t) /\ \A i \in 1..Len(t) : s[i] = [char |-> t[i], at |-> i]
  BY <1>1, <1>2
<1>4. ASSUME NEW i \in 1..Len(s)  PROVE s[i].at = i
  <2>1. s[i] = [char |-> t[i], at |-> i]
    BY <1>3
  <2> QED
    BY <2>1
<1> QED
  BY <1>3, <1>4 DEF PlacedText, s

\* Before the first character nothing has been said.
LEMMA NothingYet ==
  ASSUME NEW s \in Seq(Placed)
  PROVE  /\ MarksWhole(Marks(s), 0) /\ \A f : ~InSection(s, Marks(s), 1, f)
         /\ Begun(s, 0) = {} /\ SaidUpTo(s, 0) = {} /\ Closed(s, 0) = {} /\ Open(s, 0) = {}
<1>1. \A m \in Marks(s) : 0 < m[1] /\ ~(m[2] < 1) /\ ~(m[2] <= 0)
  <2> SUFFICES ASSUME NEW m \in Marks(s)  PROVE 0 < m[1] /\ ~(m[2] < 1) /\ ~(m[2] <= 0)
    OBVIOUS
  <2>1. m[1] \in 1..Len(s) /\ m[2] \in 1..Len(s)
    BY MarksApart
  <2> QED
    BY <2>1
<1>2. MarksWhole(Marks(s), 0)
  BY <1>1 DEF MarksWhole
<1>3. \A m \in FieldMarks(s, Marks(s)) : m \in Marks(s)
  BY DEF FieldMarks
<1>4. \A f : ~InSection(s, Marks(s), 1, f)
  BY <1>1, <1>3 DEF InSection
<1>5. Begun(s, 0) = {}
  BY <1>1, <1>3 DEF Begun
<1>6. Closed(s, 0) = {}
  BY <1>1 DEF Closed
<1>7. Open(s, 0) = {}
  <2>1. \A p \in PlacesOf(s, Marks(s), "d") : ~(p <= 0)
    BY DEF PlacesOf
  <2> QED
    BY <2>1 DEF Open
<1>8. ASSUME NEW x \in AllSaid(s, Marks(s))  PROVE ~(x.at <= 0)
  <2>1. CASE \E m \in Announcing(s, Marks(s)) : x = Progress(s, m)
    <3>1. PICK m \in Announcing(s, Marks(s)) : x = Progress(s, m)
      BY <2>1
    <3>2. m \in Marks(s) /\ x.at = m[1]
      BY <3>1 DEF Announcing, FieldMarks, Progress
    <3>3. m[1] \in 1..Len(s)
      BY <3>2, MarksApart
    <3> QED
      BY <3>2, <3>3
  <2>2. CASE \E p \in PlacesOf(s, Marks(s), "e") : x = Token(s, "e", p)
    BY <2>2 DEF PlacesOf, Token
  <2> QED
    BY <2>1, <2>2, AllSaidIs
<1>9. SaidUpTo(s, 0) = {}
  BY <1>8 DEF SaidUpTo
<1> QED
  BY <1>2, <1>4, <1>5, <1>6, <1>7, <1>9

\* The last stretch of nothing is nothing.
LEMMA NoStretch ==
  ASSUME NEW marks
  PROVE  LastStretch(marks, {}) = {}
BY DEF LastStretch

\* Each step keeps the invariant, from the start.
LEMMA ParserStarts == ParserInit => ParserInv
<1> SUFFICES ASSUME ParserInit  PROVE ParserInv
  OBVIOUS
<1>1. PICK t \in Texts : text = Place(t)
  BY DEF ParserInit
<1>2. t \in Seq(Char)
  BY ParserAssumption
<1>3. PlacedText(text)
  BY <1>1, <1>2, PlacedIs
<1>4. text \in Seq(Placed) /\ Len(text) \in Nat
  BY <1>3 DEF PlacedText
<1>5. /\ position = 0 /\ scanning = FALSE /\ finished = FALSE /\ chunk = <<>> /\ field = "none"
      /\ buffer = <<>> /\ final = <<>> /\ progressed = {} /\ out = <<>>
  BY DEF ParserInit
<1>6. Len(<<>>) = 0 /\ <<>> \in Seq(Placed) /\ <<>> \in Seq(Event)
  OBVIOUS
<1>7. Cut = 0
  <2>1. Len(chunk) = 0 /\ position = 0
    BY <1>5, <1>6
  <2> QED
    BY <2>1 DEF Cut
<1>8. HeadersOf(<<>>) = {}
  <2> SUFFICES ASSUME NEW h \in HeadersOf(<<>>)  PROVE FALSE
    OBVIOUS
  <2>1. h[1] \in 1..Len(<<>>)
    BY <1>6, HeaderIs
  <2>2. 1..Len(<<>>) = {}
    BY <1>6
  <2> QED
    BY <2>1, <2>2
<1>9. ShapeInv
  <2>1. PieceOf(chunk, text, Cut)
    BY <1>4, <1>5, <1>6, <1>7 DEF PieceOf
  <2> QED
    BY <1>3, <1>5, <1>8, <2>1 DEF ShapeInv
<1>10. CutInv
  <2>1. \A f \in Fields : f # "none"
    BY DEF Fields
  <2>2. Cut + 1 = 1
    BY <1>7
  <2> QED
    BY <1>4, <1>5, <1>7, <2>1, <2>2, NothingYet DEF CutInv, SectionIs
<1>11. HeardInv
  BY <1>4, <1>5, <1>6, <1>7, NothingYet, EmptyStretch DEF HeardInv, Heard
<1>12. DiagramInv
  <2>1. InkOf(text, {}) = {}
    BY InkOfNone
  <2> QED
    BY <1>4, <1>5, <1>6, <1>7, <2>1, NothingYet, NoStretch, EmptyStretch DEF DiagramInv
<1> QED
  BY <1>9, <1>10, <1>11, <1>12 DEF ParserInv

LEMMA FeedKeeps == ParserInv /\ Feed => ParserInv'
<1> SUFFICES ASSUME ParserInv, Feed  PROVE ParserInv'
  OBVIOUS
<1>0. ShapeInv /\ CutInv /\ HeardInv /\ DiagramInv
  BY DEF ParserInv
<1>1. /\ ~scanning /\ ~finished /\ scanning' = TRUE
      /\ text' = text /\ finished' = finished /\ field' = field /\ buffer' = buffer
      /\ final' = final /\ progressed' = progressed /\ out' = out
  BY DEF Feed
<1>2. PICK k \in 1..MaxChunk :
        /\ position + k <= Len(text) /\ position' = position + k
        /\ chunk' = chunk \o SubSeq(text, position + 1, position + k)
  BY DEF Feed
<1>3. k \in Nat
  BY <1>2, ParserAssumption
<1>4. PieceOf(chunk', text, Cut) /\ Len(chunk') = Len(chunk) + k
  <2>1. PieceOf(chunk, text, Cut)
    BY <1>0 DEF ShapeInv
  <2> QED
    <3>1. text \in Seq(Placed) /\ position = Cut + Len(chunk)
      BY <1>0, StateIs
    <3> PICK n, p, d : n = Cut /\ p = position /\ d = chunk'
      OBVIOUS
    <3>2. /\ text \in Seq(Placed) /\ PieceOf(chunk, text, n) /\ p = n + Len(chunk)
          /\ GrownBy(d, chunk, text, p, k)
      BY <1>2, <2>1, <3>1 DEF GrownBy
    <3>3. PieceOf(d, text, n) /\ Len(d) = Len(chunk) + k
      BY <1>3, <3>2, PieceGrows
    <3> QED
      BY <3>3
<1>5. Cut' = Cut
  <2>1. Len(chunk) \in Nat /\ position \in Nat
    BY <1>0, StateIs
  <2> QED
    BY <1>2, <1>3, <1>4, <2>1 DEF Cut
<1>6. ShapeInv'
  <2>1. PlacedText(text') /\ position' \in Nat /\ finished' = FALSE
    BY <1>0, <1>1, <1>2, <1>3 DEF ShapeInv
  <2> QED
    BY <1>1, <1>4, <1>5, <2>1 DEF ShapeInv
<1>7. CutInv'
  BY <1>0, <1>1, <1>5 DEF CutInv
<1>8. HeardInv'
  BY <1>0, <1>1, <1>5 DEF HeardInv, Heard
<1>9. DiagramInv'
  BY <1>0, <1>1, <1>5 DEF DiagramInv
<1> QED
  BY <1>6, <1>7, <1>8, <1>9 DEF ParserInv

\* What a passage from the cut to e adds: what is sent of it ...
LEMMA PassageHeard ==
  ASSUME ShapeInv, CutInv, HeardInv, ~finished, NEW c, PieceOf(c, text, Cut),
         NEW e, e = Cut + Len(c), Passage(Marks(text), Cut, e),
         NEW t, Sent(t, c)
  PROVE  /\ out \o t \in Seq(Event) /\ Stretch(out \o t, 0, e) /\ Ink(out \o t) = SaidUpTo(text, e)
<1> PICK n : n = Cut
  OBVIOUS
<1>1. /\ text \in Seq(Placed) /\ n \in Nat /\ PlacedText(text) /\ PieceOf(c, text, n)
      /\ e = n + Len(c) /\ Passage(Marks(text), n, e)
  BY StateIs DEF ShapeInv
<1>2. c \in Seq(Placed) /\ Len(c) \in Nat /\ n + Len(c) <= Len(text)
  BY <1>1 DEF PieceOf
<1>3. e \in Nat /\ n <= e /\ e <= Len(text) /\ 0 <= n /\ 0 \in Nat
  BY <1>1, <1>2
<1>4. t \in Seq(Event) /\ Stretch(t, n, e) /\ Ink(t) = SpokenBetween(text, field, n, e)
  BY <1>1, SentIs
<1>5. out \in Seq(Event) /\ Stretch(out, 0, n) /\ Ink(out) = SaidUpTo(text, n)
  BY DEF HeardInv, Heard
<1>6. SectionIs(text, n, field)
  BY DEF CutInv
<1>7. SaidUpTo(text, e) = SaidUpTo(text, n) \cup SpokenBetween(text, field, n, e)
  BY <1>1, <1>3, <1>6, SaidPassed
<1>8. Ink(out \o t) = Ink(out) \cup Ink(t)
  <2>1. out \in Seq(Event) /\ t \in Seq(Event)
    BY <1>4, <1>5
  <2> QED
    BY <2>1, InkJoin
<1>9. Stretch(out \o t, 0, e)
  BY <1>1, <1>3, <1>4, <1>5, StretchJoin
<1>10. out \o t \in Seq(Event)
  BY <1>4, <1>5
<1>11. Ink(out \o t) = SaidUpTo(text, e)
  BY <1>4, <1>5, <1>7, <1>8
<1> QED
  BY <1>9, <1>10, <1>11

\* ... what is kept of it ...
LEMMA PassageKept ==
  ASSUME ShapeInv, CutInv, DiagramInv, ~finished, NEW c, PieceOf(c, text, Cut),
         NEW e, e = Cut + Len(c), Passage(Marks(text), Cut, e),
         NEW k, Kept(k, field, buffer, c)
  PROVE  /\ k \in Seq(Placed) /\ Stretch(k, 0, e) /\ Ink(k) = InkOf(text, Open(text, e))
         /\ field # "d" => Blank(k)
         /\ Stretch(final, 0, e)
         /\ Ink(final) = InkOf(text, LastStretch(Marks(text), Closed(text, e)))
<1> PICK n : n = Cut
  OBVIOUS
<1>1. /\ text \in Seq(Placed) /\ n \in Nat /\ PlacedText(text) /\ PieceOf(c, text, n)
      /\ e = n + Len(c) /\ Passage(Marks(text), n, e)
  BY StateIs DEF ShapeInv
<1>2. c \in Seq(Placed) /\ Len(c) \in Nat /\ n + Len(c) <= Len(text)
  BY <1>1 DEF PieceOf
<1>3. e \in Nat /\ n <= e /\ e <= Len(text) /\ 0 <= n /\ 0 \in Nat
  BY <1>1, <1>2
<1>4. SectionIs(text, n, field)
  BY DEF CutInv
<1>5. /\ buffer \in Seq(Placed) /\ Stretch(buffer, 0, n) /\ Ink(buffer) = InkOf(text, Open(text, n))
      /\ field # "d" => Blank(buffer)
      /\ Stretch(final, 0, n)
      /\ Ink(final) = InkOf(text, LastStretch(Marks(text), Closed(text, n)))
  BY DEF DiagramInv
<1>6. /\ k \in Seq(Placed) /\ Stretch(k, 0, e) /\ Ink(k) = InkOf(text, Open(text, e))
      /\ field # "d" => Blank(k)
  <2> PICK b, g : b = buffer /\ g = field
    OBVIOUS
  <2>1. /\ b \in Seq(Placed) /\ Stretch(b, 0, n) /\ Ink(b) = InkOf(text, Open(text, n))
        /\ g # "d" => Blank(b)
        /\ SectionIs(text, n, g)
    BY <1>4, <1>5
  <2>2. Kept(k, g, b, c)
    OBVIOUS
  <2>3. /\ k \in Seq(Placed) /\ Stretch(k, 0, e) /\ Ink(k) = InkOf(text, Open(text, e))
        /\ g # "d" => Blank(k)
    BY <1>1, <2>1, <2>2, KeptIs
  <2> QED
    BY <2>3
<1>7. Stretch(final, 0, e)
  BY <1>1, <1>3, <1>5, StretchWider
<1>8. Closed(text, e) = Closed(text, n)
  BY <1>1, <1>3, ClosedPassed
<1> QED
  BY <1>5, <1>6, <1>7, <1>8

\* ... and where it ends.
LEMMA PassageCut ==
  ASSUME ShapeInv, CutInv, NEW e \in Nat, Cut <= e, Passage(Marks(text), Cut, e)
  PROVE  /\ MarksWhole(Marks(text), e)
         /\ SectionIs(text, e, field)
         /\ progressed = Begun(text, e)
<1> PICK n : n = Cut
  OBVIOUS
<1>1. text \in Seq(Placed) /\ n \in Nat /\ n <= e /\ Passage(Marks(text), n, e)
  BY StateIs
<1>2. MarksWhole(Marks(text), e)
  BY <1>1, PassageWhole
<1>3. progressed = Begun(text, e)
  BY <1>1, BegunPassed DEF CutInv
<1>4. ASSUME NEW m \in Marks(text)  PROVE m[2] < n + 1 \/ e + 1 <= m[2]
  <2>1. m[1] \in Nat /\ m[2] \in Nat /\ m[1] + 4 <= m[2] /\ (m[2] <= n \/ e < m[1])
    BY <1>1, MarksApart DEF Passage
  <2> PICK i, j : m[1] = i /\ m[2] = j
    OBVIOUS
  <2>2. i \in Nat /\ j \in Nat /\ i + 4 <= j /\ (j <= n \/ e < i)
    BY <2>1
  <2>3. j < n + 1 \/ e + 1 <= j
    BY <1>1, <2>2
  <2> QED
    BY <2>3
<1>5. n + 1 \in Nat /\ e + 1 \in Nat /\ n + 1 <= e + 1
  BY <1>1
<1>6. ASSUME NEW f
      PROVE  InSection(text, Marks(text), n + 1, f) <=> InSection(text, Marks(text), e + 1, f)
  <2>1. \A m \in FieldMarks(text, Marks(text)) : m[2] < n + 1 \/ e + 1 <= m[2]
    BY <1>4 DEF FieldMarks
  <2> QED
    BY <1>1, <1>5, <2>1, SectionStays
<1>7. SectionIs(text, n, field)
  BY DEF CutInv
<1>8. SectionIs(text, e, field)
  BY <1>6, <1>7 DEF SectionIs
<1> QED
  BY <1>2, <1>3, <1>8

LEMMA FlushKeeps == ParserInv /\ Flush => ParserInv'
<1> SUFFICES ASSUME ParserInv, Flush  PROVE ParserInv'
  OBVIOUS
<1>0. ShapeInv /\ CutInv /\ HeardInv /\ DiagramInv
  BY DEF ParserInv
<1> PICK n, k, safe : n = Cut /\ k = TailStart(chunk) - 1 /\ safe = SubSeq(chunk, 1, k)
  OBVIOUS
<1>1. /\ text \in Seq(Placed) /\ n \in Nat /\ chunk \in Seq(Placed) /\ Len(chunk) \in Nat
      /\ position = n + Len(chunk) /\ position \in Nat /\ PieceOf(chunk, text, n)
  BY <1>0, StateIs DEF ShapeInv
<1>2. /\ k \in 0..Len(chunk) /\ k + 1 = TailStart(chunk)
      /\ k + 1 <= Len(chunk) => IsTail(Rest(chunk, k + 1))
  BY <1>1, TailStartIs
<1>3. /\ scanning /\ HeadersOf(chunk) = {} /\ scanning' = FALSE
      /\ text' = text /\ position' = position /\ finished' = finished /\ field' = field
      /\ final' = final /\ progressed' = progressed
  BY DEF Flush
<1>4. /\ chunk' = Rest(chunk, k + 1)
      /\ out' = IF field \in Streamable THEN out \o Tokens(safe) ELSE out
      /\ buffer' = IF field = "d" THEN buffer \o safe ELSE buffer
  <2>1. TailStart(chunk) = k + 1
    BY <1>2
  <2>2. safe = SubSeq(chunk, 1, TailStart(chunk) - 1)
    OBVIOUS
  <2> QED
    BY <2>1, <2>2 DEF Flush
<1>5. ~finished
  BY <1>0, <1>3 DEF ShapeInv
<1>6. PieceOf(safe, text, n) /\ Len(safe) = k
  BY <1>1, <1>2, PieceBegins
<1>7. PieceOf(chunk', text, n + k) /\ Len(chunk') = Len(chunk) - k
  BY <1>1, <1>2, <1>4, PieceEnds
<1>8. Cut' = n + k
  BY <1>1, <1>2, <1>3, <1>7 DEF Cut
<1> PICK e : e = n + k
  OBVIOUS
<1>9. e \in Nat /\ n <= e /\ e = n + Len(safe) /\ Cut' = e
  BY <1>1, <1>2, <1>6, <1>8
<1>10. Passage(Marks(text), n, e)
  BY <1>0, <1>1, <1>3, <1>5, FlushCutsNone DEF CutInv
<1>11. ShapeInv'
  <2>1. HeadersOf(chunk') = {}
    BY <1>1, <1>2, <1>3, <1>4, RestHasNone
  <2>2. ASSUME chunk' # <<>>  PROVE IsTail(chunk')
    <3>1. chunk' \in Seq(Placed)
      BY <1>7 DEF PieceOf
    <3>2. Len(chunk') # 0
      BY <2>2, <3>1
    <3>3. k + 1 <= Len(chunk)
      BY <1>1, <1>2, <1>7, <3>2
    <3> QED
      BY <1>2, <1>4, <3>3
  <2>3. PieceOf(chunk', text', Cut')
    BY <1>3, <1>7, <1>8
  <2>4. PlacedText(text') /\ position' \in Nat /\ scanning' \in BOOLEAN /\ finished' = FALSE
    BY <1>0, <1>1, <1>3, <1>5 DEF ShapeInv
  <2> QED
    BY <2>1, <2>2, <2>3, <2>4 DEF ShapeInv
<1>12. CutInv'
  <2>1. /\ MarksWhole(Marks(text), e)
        /\ SectionIs(text, e, field)
        /\ progressed = Begun(text, e)
    BY <1>0, <1>5, <1>9, <1>10, PassageCut
  <2>2. field \in Fields \cup {"none"}
    BY <1>0, <1>5 DEF CutInv
  <2> QED
    BY <1>3, <1>9, <2>1, <2>2 DEF CutInv
<1>13. HeardInv'
  <2> PICK t : t = IF field \in Streamable THEN Tokens(safe) ELSE <<>>
    OBVIOUS
  <2>4. Sent(t, safe)
    BY DEF Sent
  <2>1. out \in Seq(Event)
    BY <1>0 DEF HeardInv
  <2>2. out' = out \o t
    BY <1>4, <2>1
  <2>3. out \o t \in Seq(Event) /\ Stretch(out \o t, 0, e) /\ Ink(out \o t) = SaidUpTo(text, e)
    BY <1>0, <1>5, <1>6, <1>9, <1>10, <2>4, PassageHeard
  <2> QED
    BY <1>3, <1>9, <2>2, <2>3 DEF HeardInv, Heard
<1>14. DiagramInv'
  <2>1. Kept(buffer', field, buffer, safe)
    BY <1>4 DEF Kept
  <2>2. /\ buffer' \in Seq(Placed) /\ Stretch(buffer', 0, e)
        /\ Ink(buffer') = InkOf(text, Open(text, e))
        /\ field # "d" => Blank(buffer')
        /\ Stretch(final, 0, e)
        /\ Ink(final) = InkOf(text, LastStretch(Marks(text), Closed(text, e)))
    BY <1>0, <1>5, <1>6, <1>9, <1>10, <2>1, PassageKept
  <2>3. final \in Seq(Placed)
    BY <1>0 DEF DiagramInv
  <2> QED
    BY <1>3, <1>5, <1>9, <2>2, <2>3 DEF DiagramInv
<1> QED
  BY <1>11, <1>12, <1>13, <1>14 DEF ParserInv

\* A mark that names no field leaves the section as it is.
LEMMA SectionOver ==
  ASSUME NEW s \in Seq(Placed), NEW h \in Marks(s), FieldOf(s, h) \notin Fields, NEW f
  PROVE  InSection(s, Marks(s), h[1], f) <=> InSection(s, Marks(s), h[2] + 1, f)
<1> PICK a, b : h[1] = a /\ h[2] = b
  OBVIOUS
<1>1. a \in Nat /\ b \in Nat /\ a + 4 <= b
  <2>1. h[1] \in Nat /\ h[2] \in Nat /\ h[1] + 4 <= h[2]
    BY MarksApart
  <2> QED
    BY <2>1
<1>2. ASSUME NEW m \in FieldMarks(s, Marks(s))  PROVE m[2] < a \/ b + 1 <= m[2]
  <2>1. m \in Marks(s) /\ m # h
    BY DEF FieldMarks
  <2>2. m[2] <= h[2] <=> m[2] <= h[1] - 1
    BY <2>1, MarkPassed
  <2>3. m[2] \in Nat
    BY <2>1, MarksApart
  <2> PICK j : m[2] = j
    OBVIOUS
  <2>4. j \in Nat /\ (j <= b <=> j <= a - 1)
    BY <2>2, <2>3
  <2>5. j < a \/ b + 1 <= j
    BY <1>1, <2>4
  <2> QED
    BY <2>5
<1>3. a \in Nat /\ b + 1 \in Nat /\ a <= b + 1
  BY <1>1
<1>4. InSection(s, Marks(s), a, f) <=> InSection(s, Marks(s), b + 1, f)
  BY <1>2, <1>3, SectionStays
<1> QED
  BY <1>4

\* What is sent at a mark.
News(t, s, h) ==
  t = IF FieldOf(s, h) \in Fields \ Begun(s, h[1] - 1) THEN <<Progress(s, h)>> ELSE <<>>

LEMMA NewsIs ==
  ASSUME NEW s \in Seq(Placed), NEW h \in Marks(s), NEW t, News(t, s, h)
  PROVE  t \in Seq(Event) /\ Stretch(t, h[1] - 1, h[2]) /\ Ink(t) = Announced(s, h)
<1>1. CASE FieldOf(s, h) \in Fields \ Begun(s, h[1] - 1)
  <2> DEFINE x == Progress(s, h)
  <2>1. t = <<x>> /\ h \in Announcing(s, Marks(s))
    BY <1>1, AnnouncingIs DEF News
  <2>2. h[1] \in 1..Len(s) /\ h[2] \in Nat /\ h[1] + 4 <= h[2]
    BY MarksApart
  <2>3. x.at = h[1] /\ x.char = FieldOf(s, h)
    BY DEF Progress
  <2>4. x \in Event
    <3>1. FieldOf(s, h) \in Char /\ h[1] \in Nat
      BY <1>1, <2>2 DEF Fields, Char, Word
    <3> QED
      BY <3>1 DEF Progress, Event
  <2>5. Solid(x)
    BY <1>1, <2>3 DEF Solid, Fields, White
  <2> HIDE DEF x
  <2>6. t \in Seq(Event) /\ Len(t) = 1 /\ t[1] = x
    BY <2>1, <2>4
  <2>7. x.at \in Nat /\ h[1] - 1 < x.at /\ x.at <= h[2]
    <3> PICK a, b : h[1] = a /\ h[2] = b
      OBVIOUS
    <3>1. a \in Nat /\ b \in Nat /\ a + 4 <= b
      BY <2>2
    <3>2. a - 1 < a /\ a <= b
      BY <3>1
    <3> QED
      BY <2>3, <3>1, <3>2
  <2>8. 1..Len(t) = {1}
    BY <2>6
  <2>9. Stretch(t, h[1] - 1, h[2])
    BY <2>6, <2>7, <2>8 DEF Stretch, InOrder
  <2>10. Ink(t) = {x}
    BY <2>5, <2>6, <2>8 DEF Ink
  <2>11. Announced(s, h) = {x}
    BY <2>1 DEF Announced, x
  <2> QED
    BY <2>6, <2>9, <2>10, <2>11
<1>2. CASE FieldOf(s, h) \notin Fields \ Begun(s, h[1] - 1)
  <2>1. t = <<>> /\ h \notin Announcing(s, Marks(s))
    BY <1>2, AnnouncingIs DEF News
  <2>2. Announced(s, h) = {} /\ <<>> \in Seq(Event)
    BY <2>1 DEF Announced
  <2> QED
    BY <2>1, <2>2, EmptyStretch
<1> QED
  BY <1>1, <1>2

\* A piece names its marks as the text does.
LEMMA NameIs ==
  ASSUME NEW s \in Seq(Placed), NEW c, NEW n, PieceOf(c, s, n),
         NEW i \in 1..Len(c), NEW j \in 1..Len(c), i + 4 <= j
  PROVE  Name(c, i, j) = FieldOf(s, <<n + i, n + j>>)
<1>1. /\ n \in Nat /\ Len(c) \in Nat /\ \A k \in 1..Len(c) : c[k] = s[n + k]
  BY DEF PieceOf
<1>2. i + 2 \in 1..Len(c) /\ n + (i + 2) = (n + i) + 2 /\ (j = i + 4 <=> n + j = (n + i) + 4)
  BY <1>1
<1>3. c[i + 2] = s[n + (i + 2)]
  BY <1>1, <1>2
<1>4. c[i + 2] = s[(n + i) + 2]
  BY <1>2, <1>3
<1>5. FieldOf(s, <<n + i, n + j>>) = Name(s, n + i, n + j)
  BY DEF FieldOf
<1>6. Name(c, i, j) = Name(s, n + i, n + j)
  BY <1>2, <1>4 DEF Name
<1> QED
  BY <1>5, <1>6

LEMMA NextHeaderKeeps == ParserInv /\ NextHeader => ParserInv'
<1> SUFFICES ASSUME ParserInv, NextHeader  PROVE ParserInv'
  OBVIOUS
<1>0. ShapeInv /\ CutInv /\ HeardInv /\ DiagramInv
  BY DEF ParserInv
<1> PICK n : n = Cut
  OBVIOUS
<1>17. PICK f, a, b : f = FirstHeader(chunk) /\ f[1] = a /\ f[2] = b
  OBVIOUS
<1>18. PICK before, name, h : /\ before = SubSeq(chunk, 1, a - 1) /\ name = Name(chunk, a, b)
                           /\ h = <<n + a, n + b>>
  OBVIOUS
<1>19. PICK kept, sent, news :
      /\ kept = IF field = "d" /\ ~Blank(before) THEN buffer \o before ELSE buffer
      /\ sent = IF field \in Streamable /\ ~Blank(before) THEN Tokens(before) ELSE <<>>
      /\ news = IF name \in Fields \ progressed
                  THEN <<[field |-> "_progress", char |-> name, at |-> chunk[a].at]>>
                  ELSE <<>>
  OBVIOUS
<1>1. /\ chunk' = Rest(chunk, b + 1)
      /\ final' = IF field = "d" /\ ~Blank(kept) THEN Stripped(kept) ELSE final
      /\ buffer' = IF field = "d" /\ ~Blank(kept) THEN <<>> ELSE kept
      /\ out' = out \o sent \o news
      /\ progressed' = progressed \cup ({name} \cap Fields)
      /\ field' = IF name \in Fields THEN name ELSE field
  BY <1>17, <1>18, <1>19 DEF NextHeader
<1>2. /\ scanning /\ HeadersOf(chunk) # {}
      /\ text' = text /\ position' = position /\ scanning' = scanning /\ finished' = finished
  BY DEF NextHeader
<1>3. /\ text \in Seq(Placed) /\ n \in Nat /\ chunk \in Seq(Placed) /\ Len(chunk) \in Nat
      /\ position = n + Len(chunk) /\ position \in Nat /\ PieceOf(chunk, text, n)
      /\ PlacedText(text)
  BY <1>0, StateIs DEF ShapeInv
<1>4. ~finished
  BY <1>0, <1>2 DEF ShapeInv
<1>5. /\ a \in 1..Len(chunk) /\ b \in 1..Len(chunk) /\ a + 4 <= b
      /\ h \in Marks(text)
      /\ \A m \in Marks(text) : m[2] <= n \/ m = h \/ h[2] < m[1]
  <2>1. MarksWhole(Marks(text), n)
    BY <1>0, <1>4 DEF CutInv
  <2>2. h = <<n + f[1], n + f[2]>>
    BY <1>17, <1>18
  <2>3. /\ f[1] \in 1..Len(chunk) /\ f[2] \in 1..Len(chunk) /\ f[1] + 4 <= f[2]
        /\ h \in Marks(text)
        /\ \A m \in Marks(text) : m[2] <= n \/ m = h \/ h[2] < m[1]
    BY <1>2, <1>3, <1>17, <2>1, <2>2, FirstIsMark
  <2> QED
    BY <1>17, <2>3
<1>20. PICK i, j, k, e : i = n + a /\ j = n + b /\ k = a - 1 /\ e = n + k
  OBVIOUS
<1>21. /\ e \in Nat /\ i \in Nat /\ j \in Nat /\ k \in 0..Len(chunk) /\ b \in 0..Len(chunk)
       /\ i = e + 1 /\ i - 1 = e /\ i + 4 <= j /\ n <= e /\ e <= j /\ 0 <= e /\ 0 \in Nat
  BY <1>3, <1>5, <1>20
<1>22. h = <<i, j>>
  BY <1>18, <1>20
<1>6. h[1] = i /\ h[2] = j /\ h[1] - 1 = e
  BY <1>21, <1>22
<1>23. text \in Seq(Placed) /\ h \in Marks(text)
  BY <1>3, <1>5
<1>7. PieceOf(before, text, n) /\ Len(before) = k /\ e = n + Len(before)
  <2>1. before = SubSeq(chunk, 1, k)
    BY <1>18, <1>20
  <2>2. PieceOf(SubSeq(chunk, 1, k), text, n) /\ Len(SubSeq(chunk, 1, k)) = k
    BY <1>3, <1>21, PieceBegins
  <2> QED
    BY <1>20, <2>1, <2>2
<1>8. PieceOf(chunk', text, j) /\ Len(chunk') = Len(chunk) - b
  <2>1. PieceOf(Rest(chunk, b + 1), text, n + b) /\ Len(Rest(chunk, b + 1)) = Len(chunk) - b
    BY <1>3, <1>21, PieceEnds
  <2> QED
    BY <1>1, <1>20, <2>1
<1>9. Cut' = j
  <2>1. position' = n + Len(chunk) /\ Len(chunk') = Len(chunk) - b
    BY <1>2, <1>3, <1>8
  <2>2. (n + Len(chunk)) - (Len(chunk) - b) = j
    BY <1>3, <1>5, <1>20
  <2> QED
    BY <2>1, <2>2 DEF Cut
<1>10. Passage(Marks(text), n, e)
  <2> SUFFICES ASSUME NEW m \in Marks(text), ~(m[2] <= n)  PROVE e < m[1]
    BY DEF Passage
  <2>1. m = h \/ j < m[1]
    BY <1>5, <1>6
  <2>2. CASE m = h
    <3>1. m[1] = i /\ e < i
      BY <1>6, <1>21, <2>2
    <3> QED
      BY <3>1
  <2>3. CASE j < m[1]
    <3> PICK l : m[1] = l
      OBVIOUS
    <3>1. l \in Nat
      BY <1>23, MarksApart
    <3>2. e < l
      BY <1>21, <2>3, <3>1
    <3> QED
      BY <3>2
  <2> QED
    BY <2>1, <2>2, <2>3
<1>11. name = FieldOf(text, h)
  <2>1. Name(chunk, a, b) = FieldOf(text, <<n + a, n + b>>)
    BY <1>3, <1>5, NameIs
  <2> QED
    BY <1>18, <2>1
<1>12. /\ MarksWhole(Marks(text), e)
       /\ \A g \in Fields : InSection(text, Marks(text), i, g) <=> g = field
       /\ progressed = Begun(text, e)
  <2>1. e \in Nat /\ n <= e /\ e + 1 = i
    BY <1>21
  <2>2. /\ MarksWhole(Marks(text), e) /\ SectionIs(text, e, field)
        /\ progressed = Begun(text, e)
    BY <1>0, <1>10, <2>1, PassageCut
  <2> QED
    BY <2>1, <2>2 DEF SectionIs
<1>13. ShapeInv'
  <2>1. PieceOf(chunk', text', Cut')
    BY <1>2, <1>8, <1>9
  <2>2. /\ PlacedText(text') /\ position' \in Nat /\ scanning' \in BOOLEAN /\ scanning'
        /\ finished' = FALSE
    BY <1>0, <1>2, <1>3, <1>4 DEF ShapeInv
  <2> QED
    BY <2>1, <2>2 DEF ShapeInv
<1>14. CutInv'
  <2>1. MarksWhole(Marks(text), j)
    <3> SUFFICES ASSUME NEW m \in Marks(text)  PROVE m[2] <= j \/ j < m[1]
      BY DEF MarksWhole
    <3>1. m[2] <= n \/ m = h \/ j < m[1]
      BY <1>5, <1>6
    <3>2. CASE m[2] <= n
      <4> PICK l : m[2] = l
        OBVIOUS
      <4>1. l \in Nat
        BY <1>23, MarksApart
      <4>2. l <= j
        BY <1>3, <1>21, <3>2, <4>1
      <4> QED
        BY <4>2
    <3>3. CASE m = h
      BY <1>6, <1>21, <3>3
    <3> QED
      BY <3>1, <3>2, <3>3
  <2>2. field \in Fields \cup {"none"} /\ field' \in Fields \cup {"none"}
    BY <1>0, <1>1, <1>4 DEF CutInv
  <2>3. ASSUME NEW g \in Fields  PROVE InSection(text, Marks(text), j + 1, g) <=> g = field'
    <3>1. CASE name \in Fields
      <4>1. InSection(text, Marks(text), h[2] + 1, g) <=> g = FieldOf(text, h)
        BY <1>23, <1>11, <3>1, SectionTurns
      <4> QED
        BY <1>1, <1>6, <1>11, <3>1, <4>1
    <3>2. CASE name \notin Fields
      <4>1. InSection(text, Marks(text), h[1], g) <=> InSection(text, Marks(text), h[2] + 1, g)
        BY <1>23, <1>11, <3>2, SectionOver
      <4> QED
        BY <1>1, <1>6, <1>12, <3>2, <4>1
    <3> QED
      BY <3>1, <3>2
  <2>4. progressed' = Begun(text, j)
    <3>1. Begun(text, h[2]) = Begun(text, h[1] - 1) \cup ({FieldOf(text, h)} \cap Fields)
      BY <1>23, BegunAtMark
    <3> QED
      BY <1>1, <1>6, <1>11, <1>12, <3>1
  <2> QED
    BY <1>2, <1>9, <2>1, <2>2, <2>3, <2>4 DEF CutInv, SectionIs
<1>15. HeardInv'
  <2>1. Sent(sent, before)
    BY <1>19 DEF Sent
  <2> PICK q : q = out \o sent
    OBVIOUS
  <2>2. q \in Seq(Event) /\ Stretch(q, 0, e) /\ Ink(q) = SaidUpTo(text, e)
    BY <1>0, <1>4, <1>7, <1>10, <2>1, PassageHeard
  <2>3. chunk[a].at = i
    <3>1. a \in 1..Len(chunk) /\ PieceOf(chunk, text, n)
      BY <1>3, <1>5
    <3>2. chunk[a] = text[n + a]
      BY <3>1 DEF PieceOf
    <3>3. n + a \in 1..Len(text)
      BY <3>1, <1>3 DEF PieceOf
    <3> QED
      BY <1>3, <1>20, <3>2, <3>3 DEF PlacedText
  <2>4. [field |-> "_progress", char |-> name, at |-> chunk[a].at] = Progress(text, h)
    BY <1>6, <1>11, <2>3 DEF Progress
  <2>5. News(news, text, h)
    BY <1>6, <1>11, <1>12, <1>19, <2>4 DEF News
  <2>6. news \in Seq(Event) /\ Stretch(news, e, j) /\ Ink(news) = Announced(text, h)
    BY <1>23, <1>6, <2>5, NewsIs
  <2>7. out' = q \o news
    BY <1>1
  <2>8. q \o news \in Seq(Event)
    BY <2>2, <2>6
  <2>9. Stretch(q \o news, 0, j)
    BY <1>21, <2>2, <2>6, StretchJoin
  <2>10. Ink(q \o news) = Ink(q) \cup Ink(news)
    <3>1. q \in Seq(Event) /\ news \in Seq(Event)
      BY <2>2, <2>6
    <3> QED
      BY <3>1, InkJoin
  <2>11. SaidUpTo(text, h[2]) = SaidUpTo(text, h[1] - 1) \cup Announced(text, h)
    BY <1>23, SaidAtMark
  <2>12. Ink(q \o news) = SaidUpTo(text, j)
    BY <1>6, <2>2, <2>6, <2>10, <2>11
  <2> QED
    BY <1>2, <1>9, <2>7, <2>8, <2>9, <2>12 DEF HeardInv, Heard
<1>16. DiagramInv'
  <2>1. Kept(kept, field, buffer, before)
    BY <1>19 DEF Kept
  <2>2. /\ kept \in Seq(Placed) /\ Stretch(kept, 0, e) /\ Ink(kept) = InkOf(text, Open(text, e))
        /\ field # "d" => Blank(kept)
        /\ Stretch(final, 0, e)
        /\ Ink(final) = InkOf(text, LastStretch(Marks(text), Closed(text, e)))
    BY <1>0, <1>4, <1>7, <1>10, <2>1, PassageKept
  <2>3. final \in Seq(Placed)
    BY <1>0 DEF DiagramInv
  <2>4. /\ Ended(final', kept, final)
        /\ buffer' = IF ~Blank(kept) THEN <<>> ELSE kept
    BY <1>1, <2>2 DEF Ended
  <2>5. /\ final' \in Seq(Placed) /\ Stretch(final', 0, e)
        /\ Ink(final') = InkOf(text, LastStretch(Marks(text), Closed(text, e) \cup Open(text, e)))
    <3>1. Collected(text, kept, final, e)
      BY <2>2, <2>3 DEF Collected
    <3>2. text \in Seq(Placed) /\ e \in Nat /\ Ended(final', kept, final)
      BY <1>3, <1>21, <2>4
    <3> QED
      BY <3>1, <3>2, DrawnIs
  <2>6. /\ Closed(text, h[2]) = Closed(text, h[1] - 1) \cup Open(text, h[1] - 1)
        /\ Open(text, h[2]) = {}
    BY <1>23, OpenAtMark
  <2>7. Closed(text, j) = Closed(text, e) \cup Open(text, e) /\ Open(text, j) = {}
    BY <1>6, <2>6
  <2>8. Stretch(final', 0, j)
    BY <1>21, <2>5, StretchWider
  <2>9. buffer' \in Seq(Placed) /\ Stretch(buffer', 0, j) /\ Blank(buffer')
    <3>1. Stretch(kept, 0, j)
      BY <1>21, <2>2, StretchWider
    <3>2. <<>> \in Seq(Placed)
      OBVIOUS
    <3> QED
      BY <2>2, <2>4, <3>1, <3>2, EmptyStretch
  <2>10. Ink(buffer') = InkOf(text, Open(text, j))
    BY <2>7, <2>9, BlankIs, InkOfNone
  <2> QED
    BY <1>2, <1>4, <1>9, <2>5, <2>7, <2>8, <2>9, <2>10 DEF DiagramInv
<1> QED
  BY <1>13, <1>14, <1>15, <1>16 DEF ParserInv

LEMMA FinalizeKeeps == ParserInv /\ Finalize => ParserInv'
<1> SUFFICES ASSUME ParserInv, Finalize  PROVE ParserInv'
  OBVIOUS
<1>0. ShapeInv /\ CutInv /\ HeardInv /\ DiagramInv
  BY DEF ParserInv
<1> PICK n, e : n = Cut /\ e = Len(text)
  OBVIOUS
<1>11. PICK kept, sent :
      /\ kept = IF field = "d" /\ ~Blank(chunk) THEN buffer \o chunk ELSE buffer
      /\ sent = IF field \in Streamable /\ ~Blank(chunk) THEN Tokens(chunk) ELSE <<>>
  OBVIOUS
<1>1. /\ ~scanning /\ ~finished /\ position = Len(text)
      /\ finished' = TRUE /\ chunk' = <<>>
      /\ out' = IF field \in Streamable /\ ~Blank(chunk) THEN out \o Tokens(chunk) ELSE out
      /\ final' = IF ~Blank(kept) THEN Stripped(kept) ELSE final
      /\ buffer' = IF ~Blank(kept) THEN <<>> ELSE kept
      /\ text' = text /\ position' = position /\ scanning' = scanning
  BY <1>11 DEF Finalize
<1>2. /\ text \in Seq(Placed) /\ n \in Nat /\ chunk \in Seq(Placed) /\ Len(chunk) \in Nat
      /\ position = n + Len(chunk) /\ position \in Nat /\ PieceOf(chunk, text, n)
      /\ PlacedText(text)
  BY <1>0, StateIs DEF ShapeInv
<1>3. HeadersOf(chunk) = {}
  BY <1>0, <1>1 DEF ShapeInv
<1>4. e = n + Len(chunk) /\ e \in Nat /\ n <= e /\ 0 \in Nat /\ 0 <= e
  BY <1>1, <1>2
<1>5. Passage(Marks(text), n, e)
  <2>1. MarksWhole(Marks(text), n)
    BY <1>0, <1>1 DEF CutInv
  <2> QED
    BY <1>2, <1>3, <1>4, <2>1, LastPassage
<1>6. Cut' = e
  <2>1. position' = e /\ Len(chunk') = 0
    BY <1>1
  <2> QED
    BY <1>4, <2>1 DEF Cut
<1>7. ShapeInv'
  <2>1. <<>> \in Seq(Placed) /\ Len(<<>>) = 0 /\ 1..0 = {}
    OBVIOUS
  <2>2. HeadersOf(<<>>) = {}
    <3> SUFFICES ASSUME NEW h \in HeadersOf(<<>>)  PROVE FALSE
      OBVIOUS
    <3>1. h[1] \in 1..Len(<<>>)
      BY <2>1, HeaderIs
    <3>2. 1..Len(<<>>) = {}
      BY <2>1
    <3> QED
      BY <3>1, <3>2
  <2>3. PieceOf(<<>>, text, e)
    BY <1>2, <1>4, <2>1 DEF PieceOf
  <2>4. PieceOf(chunk', text', Cut')
    BY <1>1, <1>6, <2>3
  <2>5. HeadersOf(chunk') = {} /\ chunk' = <<>>
    BY <1>1, <2>2
  <2>6. /\ PlacedText(text') /\ position' \in Nat /\ scanning' = FALSE /\ finished' = TRUE
        /\ position' = Len(text')
    <3>1. scanning' = FALSE
      BY <1>0, <1>1 DEF ShapeInv
    <3> QED
      BY <1>1, <1>2, <3>1
  <2> QED
    BY <2>4, <2>5, <2>6 DEF ShapeInv
<1>8. CutInv'
  <2>1. /\ MarksWhole(Marks(text), e)
        /\ SectionIs(text, e, field)
        /\ progressed = Begun(text, e)
    BY <1>0, <1>4, <1>5, PassageCut
  <2>2. field' = field /\ progressed' = progressed
    BY DEF Finalize
  <2> QED
    BY <1>0, <1>1, <1>6, <2>1, <2>2 DEF CutInv
<1>9. HeardInv'
  <2>1. Sent(sent, chunk)
    BY <1>11 DEF Sent
  <2>2. out \o sent \in Seq(Event) /\ Stretch(out \o sent, 0, e) /\ Ink(out \o sent) = SaidUpTo(text, e)
    BY <1>0, <1>1, <1>2, <1>4, <1>5, <2>1, PassageHeard
  <2>3. out' = out \o sent
    <3>1. out \in Seq(Event)
      BY <1>0 DEF HeardInv
    <3> QED
      BY <1>1, <1>11, <3>1
  <2> QED
    BY <1>1, <1>6, <2>2, <2>3 DEF HeardInv, Heard
<1>10. DiagramInv'
  <2>1. Kept(kept, field, buffer, chunk)
    BY <1>11 DEF Kept
  <2>2. /\ kept \in Seq(Placed) /\ Stretch(kept, 0, e) /\ Ink(kept) = InkOf(text, Open(text, e))
        /\ Stretch(final, 0, e)
        /\ Ink(final) = InkOf(text, LastStretch(Marks(text), Closed(text, e)))
    BY <1>0, <1>1, <1>2, <1>4, <1>5, <2>1, PassageKept
  <2>3. final \in Seq(Placed)
    BY <1>0 DEF DiagramInv
  <2>4. /\ final' \in Seq(Placed) /\ Stretch(final', 0, e)
        /\ Ink(final') = InkOf(text, LastStretch(Marks(text), Closed(text, e) \cup Open(text, e)))
    <3>1. Ended(final', kept, final)
      BY <1>1 DEF Ended
    <3>2. Collected(text, kept, final, e)
      BY <2>2, <2>3 DEF Collected
    <3>3. text \in Seq(Placed) /\ e \in Nat
      BY <1>2, <1>4
    <3> QED
      BY <3>1, <3>2, <3>3, DrawnIs
  <2>5. Closed(text, e) \cup Open(text, e) = PlacesOf(text, Marks(text), "d")
    BY <1>2, AllRead
  <2>6. Ink(final') = InkOf(text, Drawn(text, Marks(text)))
    BY <2>4, <2>5 DEF Drawn
  <2>7. buffer' \in Seq(Placed)
    <3>1. <<>> \in Seq(Placed)
      OBVIOUS
    <3> QED
      BY <1>1, <2>2, <3>1
  <2> QED
    BY <1>1, <1>6, <2>4, <2>6, <2>7 DEF DiagramInv
<1> QED
  BY <1>7, <1>8, <1>9, <1>10 DEF ParserInv

LEMMA ParserKeeps == ParserInv /\ [ParserNext]_parserVars => ParserInv'
<1>1. ParserInv /\ UNCHANGED parserVars => ParserInv'
  BY DEF ParserInv, ShapeInv, CutInv, HeardInv, DiagramInv, Cut, Heard, parserVars
<1> QED
  BY <1>1, FeedKeeps, NextHeaderKeeps, FlushKeeps, FinalizeKeeps DEF ParserNext

\* At every step of feed() and finalize() what the text says up to the chunk buffer has
\* been heard, kept or drawn (stream_parser.py:33-92).
THEOREM ParserInvAlways == ParserSpec => []ParserInv
BY ParserStarts, ParserKeeps, PTL DEF ParserSpec

\* What the invariant says at the end, and between two chunks.
LEMMA ChunksFollow == ParserInv => ChunksDoNotMatter
<1> SUFFICES ASSUME ParserInv, finished  PROVE ChunksDoNotMatter
  BY DEF ChunksDoNotMatter
<1>0. ShapeInv /\ HeardInv /\ DiagramInv
  BY DEF ParserInv
<1>1. text \in Seq(Placed) /\ Cut = Len(text)
  <2>1. chunk = <<>> /\ position = Len(text)
    BY <1>0 DEF ShapeInv
  <2>2. Len(chunk) = 0
    BY <2>1
  <2> QED
    BY <1>0, <2>1, <2>2, StateIs DEF Cut
<1>2. Heard = AllSaid(text, Marks(text)) /\ InOrder(out)
  BY <1>0, <1>1, AllRead DEF HeardInv, Stretch
<1>3. Ink(final) = {text[p] : p \in Drawn(text, Marks(text))} /\ InOrder(final)
  BY <1>0 DEF DiagramInv, Stretch, InkOf
<1> QED
  BY <1>2, <1>3 DEF ChunksDoNotMatter

LEMMA LagFollows == ParserInv => LagIsOneHeader
<1> SUFFICES ASSUME ParserInv, ~scanning, ~finished  PROVE LagIsOneHeader
  BY DEF LagIsOneHeader
<1>1. chunk /= <<>> => IsTail(chunk)
  BY DEF ParserInv, ShapeInv
<1>2. Heard = {e \in AllSaid(text, Marks(text)) : e.at <= position - Len(chunk)}
  BY DEF ParserInv, HeardInv, SaidUpTo, Cut
<1> QED
  BY <1>1, <1>2 DEF LagIsOneHeader

\* The type invariant of the extractor.
LEMMA ParserTypesFollow == ParserInv => ParserTypeOK
<1> SUFFICES ASSUME ParserInv  PROVE ParserTypeOK
  OBVIOUS
<1>0. ShapeInv /\ CutInv /\ HeardInv /\ DiagramInv
  BY DEF ParserInv
<1>1. /\ text \in Seq(Placed) /\ position \in 0..Len(text) /\ chunk \in Seq(Placed)
      /\ scanning \in BOOLEAN /\ finished \in BOOLEAN
  BY <1>0, StateIs DEF ShapeInv
<1>2. field \in Fields \cup {"none"} /\ progressed \subseteq Fields
  BY <1>0 DEF CutInv, Begun, FieldMarks
<1>3. buffer \in Seq(Placed) /\ final \in Seq(Placed) /\ out \in Seq(Event)
  BY <1>0 DEF DiagramInv, HeardInv
<1> QED
  BY <1>1, <1>2, <1>3 DEF ParserTypeOK

\* Between and inside the calls of feed() and finalize() every part of the extractor
\* has its type, and no event is sent for a field that is not streamed
\* (stream_parser.py:16-92).
THEOREM ParserTyped == ParserSpec => []ParserTypeOK
BY ParserInvAlways, ParserTypesFollow, PTL

\* However the model's text is cut into chunks, the listener has heard what the whole
\* of it says when finalize() is done, and the diagram is its last stretch of diagram
\* text (stream_parser.py:35-74).
THEOREM ChunksDoNotMatterAlways == ParserSpec => []ChunksDoNotMatter
BY ParserInvAlways, ChunksFollow, PTL

\* Between two chunks no more is held back than a header could need, and all that
\* the text says before it has been heard (stream_parser.py:95-104).
THEOREM LagIsOneHeaderAlways == ParserSpec => []LagIsOneHeader
BY ParserInvAlways, LagFollows, PTL
=============================================================================
