--------------------------- MODULE ActivityFeedProofs ---------------------------
(***************************************************************************)
(* What is proved of the activity feed: the invariants of ActivityFeed,    *)
(* for every number of players, clients and sessions, every capacity of    *)
(* the buffer and every limit a client asks for.                           *)
(***************************************************************************)
EXTENDS ActivityFeed, SelectionProofs, SequenceTheorems, FiniteSetTheorems, TLAPS

-----------------------------------------------------------------------------
(* The inductive invariant *)

\* What the feed has told, with what the game thread is about to tell.
Told == published \o publishing

Leaving == {"player_left", "session_ended"}

\* Every open session has an identifier of its own, already handed out.
SessionsApart ==
    \A p \in DOMAIN sessions :
        /\ sessions[p].id < opened
        /\ \A q \in DOMAIN sessions : sessions[q].id = sessions[p].id => q = p

\* No event is told twice, none is of a session that was not opened, and none
\* of the two last of a session that is open.
ToldOnce == \A i, j \in DOMAIN Told : Told[i].id = Told[j].id => i = j

ToldOfSessions ==
    \A i \in DOMAIN Told :
        /\ Told[i].id[1] < opened
        /\ Told[i].id[2] \in Leaving =>
               \A p \in DOMAIN sessions : sessions[p].id # Told[i].id[1]

RecordsTold == \A i \in DOMAIN records : \E j \in DOMAIN published : published[j] = records[i]

RecordsOnce == \A i, j \in DOMAIN records : records[i].id = records[j].id => i = j

\* Until the clock is set back nothing is from the future, and what is about to
\* be told is not older than what was told.
InOrder ==
    ~steppedBack =>
        /\ \A i \in DOMAIN records : records[i].time <= now
        /\ \A i \in DOMAIN publishing : publishing[i].time <= now
        /\ \A i \in DOMAIN records, j \in DOMAIN publishing : records[i].time <= publishing[j].time
        /\ \A i, j \in DOMAIN publishing : i < j => publishing[i].time <= publishing[j].time
        /\ \A i, j \in DOMAIN records : i < j => records[i].time <= records[j].time

\* What a client will be given by the next poll without a limit.
Awaited(c) == {r.id : r \in Matching(cursor[c], c)}

NothingElseMissed ==
    \A c \in Filters, i \in DOMAIN published :
        Matches(published[i], c) =>
            published[i].id \in seen[c] \cup excused[c] \cup Awaited(c)

IInv ==
    /\ TypeOK
    /\ SessionsApart
    /\ ToldOnce
    /\ ToldOfSessions
    /\ RecordsTold
    /\ RecordsOnce
    /\ eventIds = Ids(records)
    /\ InOrder
    /\ NothingElseMissed
    /\ SessionsTellTheirStory

-----------------------------------------------------------------------------
(* Sequences *)

LEMMA MaxOfTwo ==
    ASSUME NEW a \in Int, NEW b \in Int
    PROVE  Max({a, b}) = IF a <= b THEN b ELSE a
<1>1. CASE a <= b
  <2>1. b \in {a, b} /\ \A y \in {a, b} : b >= y BY <1>1
  <2>2. \A x \in {a, b} : (\A y \in {a, b} : x >= y) => x = b BY <1>1
  <2> QED BY <1>1, <2>1, <2>2 DEF Max
<1>2. CASE ~(a <= b)
  <2>1. a \in {a, b} /\ \A y \in {a, b} : a >= y BY <1>2
  <2>2. \A x \in {a, b} : (\A y \in {a, b} : x >= y) => x = a BY <1>2
  <2> QED BY <1>2, <2>1, <2>2 DEF Max
<1> QED BY <1>1, <1>2

\* The newest n of a sequence are its end.
LEMMA NewestIs ==
    ASSUME NEW T, NEW s \in Seq(T), NEW n \in Nat
    PROVE  /\ Newest(s, n) \in Seq(T)
           /\ Len(Newest(s, n)) = IF Len(s) <= n THEN Len(s) ELSE n
           /\ \A i \in 1..Len(Newest(s, n)) :
                  /\ i + (Len(s) - Len(Newest(s, n))) \in 1..Len(s)
                  /\ Newest(s, n)[i] = s[i + (Len(s) - Len(Newest(s, n)))]
           /\ Len(s) <= n => Newest(s, n) = s
<1> DEFINE l == Len(s)
           m == IF l <= n THEN 1 ELSE l - n + 1
           r == SubSeq(s, m, l)
<1>1. l \in Nat /\ 1 \in Int /\ l - n + 1 \in Int /\ m \in Int /\ m >= 1 BY DEF l
<1>2. Newest(s, n) = r
  <2>1. Max({1, l - n + 1}) = m
    <3>1. Max({1, l - n + 1}) = IF 1 <= l - n + 1 THEN l - n + 1 ELSE 1 BY <1>1, MaxOfTwo
    <3> QED BY <3>1, <1>1
  <2> QED BY <2>1 DEF Newest
<1>3. \A i \in m..l : s[i] \in T BY <1>1
<1> HIDE DEF m
<1>4. /\ r \in Seq(T) /\ Len(r) = IF m <= l THEN l - m + 1 ELSE 0
      /\ \A i \in 1..(l - m + 1) : r[i] = s[m + i - 1]
  BY <1>1, <1>3, SubSeqProperties
<1>a. l = Len(s) OBVIOUS
<1> HIDE DEF l, r
<1>5. Len(r) = IF l <= n THEN l ELSE n BY <1>1, <1>4 DEF m
<1>6. \A i \in 1..Len(r) : i + (l - Len(r)) \in 1..l /\ r[i] = s[i + (l - Len(r))]
  <2> SUFFICES ASSUME NEW i \in 1..Len(r)
               PROVE  i + (l - Len(r)) \in 1..l /\ r[i] = s[i + (l - Len(r))]
    OBVIOUS
  <2>1. m - 1 = l - Len(r) /\ Len(r) \in Nat /\ Len(r) <= l BY <1>1, <1>5 DEF m
  <2>2. i \in 1..(l - m + 1) /\ m + i - 1 = i + (l - Len(r)) BY <1>1, <2>1
  <2>3. r[i] = s[i + (l - Len(r))] BY <1>4, <2>2
  <2>4. i + (l - Len(r)) \in 1..l BY <1>1, <2>1
  <2> QED BY <2>3, <2>4
<1>7. l <= n => r = s
  <2> SUFFICES ASSUME l <= n PROVE r = s OBVIOUS
  <2>1. Len(r) = l BY <1>5
  <2>2. \A i \in 1..Len(r) : r[i] = s[i]
    <3>1. \A i \in 1..Len(r) : i + (l - Len(r)) = i BY <2>1, <1>1
    <3> QED BY <3>1, <1>6
  <2> QED BY <2>1, <2>2, <1>a, <1>4, SeqEqual
<1> QED BY <1>2, <1>a, <1>4, <1>5, <1>6, <1>7

\* A sequence without repeated identifiers has as many as it has elements.
LEMMA IdsCounted ==
    ASSUME NEW T, NEW s \in Seq(T), \A i, j \in DOMAIN s : s[i].id = s[j].id => i = j
    PROVE  Cardinality(Ids(s)) = Len(s)
<1> DEFINE f == [i \in 1..Len(s) |-> s[i].id]
<1>1. DOMAIN s = 1..Len(s) /\ Len(s) \in Nat OBVIOUS
<1>2. f \in Bijection(1..Len(s), Ids(s))
  <2>1. f \in [1..Len(s) -> Ids(s)] BY <1>1 DEF Ids
  <2>2. IsInjective(f) BY <1>1 DEF IsInjective
  <2>3. \A x \in Ids(s) : \E i \in 1..Len(s) : f[i] = x BY <1>1 DEF Ids
  <2> HIDE DEF f
  <2> QED BY <2>1, <2>2, <2>3 DEF Bijection, Injection, Surjection
<1>3. ExistsBijection(1..Len(s), Ids(s)) BY <1>2 DEF ExistsBijection
<1> QED BY <1>1, <1>3, FS_CountingElements

LEMMA TwoAppended ==
    ASSUME NEW T, NEW s \in Seq(T), NEW a \in T, NEW b \in T
    PROVE  s \o <<a, b>> = Append(Append(s, a), b)
<1> DEFINE u == s \o <<a, b>>
           v == Append(Append(s, a), b)
<1>0. <<a, b>> \in Seq(T) /\ Len(<<a, b>>) = 2 /\ Len(s) \in Nat OBVIOUS
<1>1. u \in Seq(T) /\ v \in Seq(T) /\ Len(u) = Len(s) + 2 /\ Len(v) = Len(s) + 2 BY <1>0
<1>2. \A i \in 1..(Len(s) + 2) : u[i] = v[i]
  <2> SUFFICES ASSUME NEW i \in 1..(Len(s) + 2) PROVE u[i] = v[i] OBVIOUS
  <2>1. CASE i \in 1..Len(s) BY <2>1, <1>0
  <2>2. CASE i = Len(s) + 1 BY <2>2, <1>0
  <2>3. CASE i = Len(s) + 2 BY <2>3, <1>0
  <2> QED BY <2>1, <2>2, <2>3, <1>0
<1> HIDE DEF u, v
<1>3. u = v BY <1>1, <1>2, SeqEqual
<1> QED BY <1>3 DEF u, v

\* Telling the next event moves it from what is to be told to what was.
LEMMA OneMoved ==
    ASSUME NEW T, NEW s \in Seq(T), NEW t \in Seq(T), t # <<>>
    PROVE  Append(s, Head(t)) \o Tail(t) = s \o t
<1> DEFINE u == Append(s, Head(t)) \o Tail(t)
           v == s \o t
<1>1. /\ Head(t) \in T /\ Head(t) = t[1] /\ Tail(t) \in Seq(T) /\ Len(Tail(t)) = Len(t) - 1
      /\ \A i \in 1..(Len(t) - 1) : Tail(t)[i] = t[i + 1]
      /\ Len(t) \in Nat /\ Len(t) > 0 /\ Len(s) \in Nat
  OBVIOUS
<1>2. /\ Append(s, Head(t)) \in Seq(T) /\ Len(Append(s, Head(t))) = Len(s) + 1
      /\ Append(s, Head(t))[Len(s) + 1] = Head(t)
      /\ \A i \in 1..Len(s) : Append(s, Head(t))[i] = s[i]
  BY <1>1
<1>3. /\ u \in Seq(T) /\ Len(u) = Len(s) + 1 + (Len(t) - 1)
      /\ \A i \in 1..(Len(s) + 1 + (Len(t) - 1)) :
             u[i] = IF i <= Len(s) + 1 THEN Append(s, Head(t))[i] ELSE Tail(t)[i - (Len(s) + 1)]
  BY <1>1, <1>2, ConcatProperties
<1>4. /\ v \in Seq(T) /\ Len(v) = Len(s) + Len(t)
      /\ \A i \in 1..(Len(s) + Len(t)) : v[i] = IF i <= Len(s) THEN s[i] ELSE t[i - Len(s)]
  BY ConcatProperties
<1> HIDE DEF u, v
<1>5. Len(u) = Len(v) BY <1>1, <1>3, <1>4
<1>6. \A i \in 1..Len(u) : u[i] = v[i]
  <2> SUFFICES ASSUME NEW i \in 1..Len(u) PROVE u[i] = v[i] OBVIOUS
  <2>1. i \in 1..(Len(s) + Len(t)) /\ i \in 1..(Len(s) + 1 + (Len(t) - 1)) BY <1>1, <1>3
  <2>2. CASE i <= Len(s)
    <3>1. i \in 1..Len(s) /\ i <= Len(s) + 1 BY <2>1, <2>2, <1>1
    <3> QED BY <3>1, <2>1, <2>2, <1>2, <1>3, <1>4
  <2>3. CASE i = Len(s) + 1
    <3>1. ~(i <= Len(s)) /\ i - Len(s) = 1 /\ i <= Len(s) + 1 BY <2>3, <1>1
    <3> QED BY <3>1, <2>1, <2>3, <1>1, <1>2, <1>3, <1>4
  <2>4. CASE i > Len(s) + 1
    <3>1. /\ ~(i <= Len(s)) /\ ~(i <= Len(s) + 1) /\ i - (Len(s) + 1) \in 1..(Len(t) - 1)
          /\ i - (Len(s) + 1) + 1 = i - Len(s)
      BY <2>1, <2>4, <1>1
    <3> QED BY <3>1, <2>1, <1>1, <1>3, <1>4
  <2> QED BY <2>1, <2>2, <2>3, <2>4, <1>1
<1>7. u = v BY <1>3, <1>4, <1>5, <1>6, SeqEqual
<1> QED BY <1>7 DEF u, v

-----------------------------------------------------------------------------
(* Operators of the model *)

LEMMA IdsSubset ==
    ASSUME NEW T, NEW s \in Seq(T), NEW n \in Nat
    PROVE  /\ \A i \in DOMAIN Newest(s, n) : \E j \in DOMAIN s : s[j] = Newest(s, n)[i]
           /\ Ids(Newest(s, n)) \subseteq Ids(s)
<1> DEFINE r == Newest(s, n)
<1>1. r \in Seq(T) /\ \A i \in 1..Len(r) : \E j \in 1..Len(s) : s[j] = r[i] BY NewestIs
<1> HIDE DEF r
<1>2. DOMAIN r = 1..Len(r) /\ DOMAIN s = 1..Len(s) BY <1>1
<1>3. \A i \in DOMAIN r : \E j \in DOMAIN s : s[j] = r[i] BY <1>1, <1>2
<1>4. Ids(r) \subseteq Ids(s) BY <1>3 DEF Ids
<1> QED BY <1>3, <1>4 DEF r

\* All that matches, and nothing else, is in an answer that is not cut.
LEMMA AnswerIs ==
    ASSUME IInv, NEW after, NEW p, NEW n \in Nat
    PROVE  LET found == Selected(records, Matching(after, p))
           IN  /\ found \in Seq(Records) /\ Len(found) <= Capacity
               /\ Ids(found) = {r.id : r \in Matching(after, p)}
               /\ Len(found) = Cardinality({r.id : r \in Matching(after, p)})
               /\ Query(after, p, n) \in Seq(Records)
               /\ Ids(Query(after, p, n)) \subseteq Ids(found)
               /\ Len(found) <= n => Query(after, p, n) = found
<1> DEFINE M == Matching(after, p)
           found == Selected(records, M)
<1>1. records \in Seq(Records) /\ Len(records) <= Capacity BY DEF IInv, TypeOK
<1>2. found \in Seq(Records) /\ Len(found) <= Len(records) BY <1>1, SelectedPlaces
<1>a. \A x : (\E i \in DOMAIN found : found[i] = x)
                <=> x \in M /\ \E i \in DOMAIN records : records[i] = x
  <2> HIDE DEF M
  <2> QED BY <1>1, SelectedElements
<1>3. PICK q : Places(records, M, Len(records), found, q) BY <1>1, SelectedPlaces
<1>4. Query(after, p, n) = Newest(found, n) BY DEF Query
<1>5. \A x \in M : \E i \in DOMAIN records : records[i] = x BY DEF Matching, ToSet
<1> HIDE DEF M, found
<1>6. Len(found) <= Capacity
  <2>1. Len(found) \in Nat /\ Len(records) \in Nat /\ Capacity \in Nat
    BY <1>1, <1>2, ActivityFeedAssumption
  <2> QED BY <2>1, <1>1, <1>2
<1>7. Ids(found) = {r.id : r \in M}
  <2>1. \A i \in DOMAIN found : found[i] \in M BY <1>a
  <2>2. \A x \in M : \E i \in DOMAIN found : found[i] = x BY <1>a, <1>5
  <2> QED BY <2>1, <2>2 DEF Ids
<1>8. \A i, j \in DOMAIN found : found[i].id = found[j].id => i = j
  <2> SUFFICES ASSUME NEW i \in DOMAIN found, NEW j \in DOMAIN found, found[i].id = found[j].id
               PROVE  i = j
    OBVIOUS
  <2>1. /\ DOMAIN found = 1..Len(found) /\ Len(found) \in Nat
        /\ DOMAIN records = 1..Len(records) /\ Len(records) \in Nat
    BY <1>1, <1>2
  <2>2. /\ q[i] \in DOMAIN records /\ q[j] \in DOMAIN records
        /\ found[i] = records[q[i]] /\ found[j] = records[q[j]]
    BY <1>3, <2>1 DEF Places
  <2>3. q[i] = q[j] BY <2>2 DEF IInv, RecordsOnce
  <2>4. ~(i < j) /\ ~(j < i) BY <1>3, <2>1, <2>2, <2>3 DEF Places
  <2> QED BY <2>1, <2>4
<1>9. Len(found) = Cardinality(Ids(found)) BY <1>2, <1>8, IdsCounted
<1>10. /\ Newest(found, n) \in Seq(Records)
       /\ Len(found) <= n => Newest(found, n) = found
       /\ Ids(Newest(found, n)) \subseteq Ids(found)
  BY <1>2, NewestIs, IdsSubset
<1> QED BY <1>2, <1>4, <1>6, <1>7, <1>9, <1>10 DEF M, found

LEMMA AwaitedIs ==
    ASSUME IInv, NEW c
    PROVE  Awaited(c) = Ids(Query(cursor[c], c, Capacity))
<1>1. Capacity \in Nat BY ActivityFeedAssumption
<1>2. /\ Len(Selected(records, Matching(cursor[c], c))) <= Capacity
      /\ Ids(Selected(records, Matching(cursor[c], c))) = Awaited(c)
      /\ Len(Selected(records, Matching(cursor[c], c))) <= Capacity =>
             Query(cursor[c], c, Capacity) = Selected(records, Matching(cursor[c], c))
  BY <1>1, AnswerIs DEF Awaited
<1> QED BY <1>2

-----------------------------------------------------------------------------
(* Steps that tell nothing *)

LEMMA InitHolds == Init => IInv
<1> SUFFICES ASSUME Init PROVE IInv OBVIOUS
<1> USE DEF Init
<1>1. <<>> \in Seq(Records) /\ Len(<<>>) = 0 /\ DOMAIN <<>> = {} /\ Told = <<>> BY DEF Told
<1>2. TypeOK
  <2>1. 0 \in 0..MaxTime /\ 0 \in 0..MaxSessions BY ActivityFeedAssumption
  <2>2. 0 <= Capacity BY ActivityFeedAssumption
  <2>3. /\ cursor \in [Filters -> 0..MaxTime \cup {None}]
        /\ seen \in [Filters -> SUBSET EventIds] /\ excused \in [Filters -> SUBSET EventIds]
    OBVIOUS
  <2>4. DOMAIN sessions = {} OBVIOUS
  <2>5. records \in Seq(Records) /\ published \in Seq(Records) /\ publishing \in Seq(Records)
    BY <1>1
  <2>6. Len(records) <= Capacity /\ Len(publishing) <= 2 BY <1>1, <2>2
  <2>7. now \in 0..MaxTime /\ steppedBack \in BOOLEAN /\ opened \in 0..MaxSessions BY <2>1
  <2>8. DOMAIN sessions \subseteq Players /\ \A p \in DOMAIN sessions : sessions[p] \in Sessions BY <2>4
  <2>9. eventIds \subseteq EventIds OBVIOUS
  <2> HIDE DEF Init
  <2> QED BY <2>3, <2>5, <2>6, <2>7, <2>8, <2>9 DEF TypeOK
<1>3. eventIds = Ids(records) BY DEF Ids
<1>4. SessionsApart BY DEF SessionsApart
<1>5. ToldOnce /\ ToldOfSessions BY <1>1 DEF ToldOnce, ToldOfSessions
<1>6. RecordsTold /\ RecordsOnce /\ InOrder BY DEF RecordsTold, RecordsOnce, InOrder
<1>7. NothingElseMissed BY DEF NothingElseMissed
<1>8. SessionsTellTheirStory
  <2>1. 0..(opened - 1) = {} OBVIOUS
  <2> QED BY <2>1 DEF SessionsTellTheirStory
<1> QED BY <1>2, <1>3, <1>4, <1>5, <1>6, <1>7, <1>8 DEF IInv

\* The story of the sessions depends on three variables.
LEMMA SameStories ==
    ASSUME UNCHANGED trackerVars, published' = published, SessionsTellTheirStory
    PROVE  SessionsTellTheirStory'
BY DEF trackerVars, SessionsTellTheirStory, StoryOf, EventsOf

LEMMA ClockKeepsInv ==
    ASSUME IInv, Advance \/ SetBack PROVE IInv'
<1> USE DEF IInv, trackerVars, bufferVars, clientVars
<1>1. UNCHANGED <<trackerVars, bufferVars, clientVars>> BY DEF Advance, SetBack
<1>2. TypeOK'
  <2>1. now' \in 0..MaxTime
    <3>1. now \in 0..MaxTime /\ MaxTime \in Nat BY ActivityFeedAssumption DEF TypeOK
    <3>2. CASE now < MaxTime /\ now' = now + 1 BY <3>1, <3>2
    <3>3. CASE now > 0 /\ now' = now - 1 BY <3>1, <3>3
    <3> QED BY <3>2, <3>3 DEF Advance, SetBack
  <2>2. steppedBack' \in BOOLEAN BY DEF TypeOK, Advance, SetBack
  <2>3. /\ DOMAIN sessions' \subseteq Players /\ \A p \in DOMAIN sessions' : sessions'[p] \in Sessions
        /\ opened' \in 0..MaxSessions
        /\ publishing' \in Seq(Records) /\ Len(publishing') <= 2
    BY <1>1 DEF TypeOK
  <2>4. /\ records' \in Seq(Records) /\ Len(records') <= Capacity /\ published' \in Seq(Records)
        /\ eventIds' \subseteq EventIds
    BY <1>1 DEF TypeOK
  <2>5. /\ cursor' \in [Filters -> 0..MaxTime \cup {None}]
        /\ seen' \in [Filters -> SUBSET EventIds] /\ excused' \in [Filters -> SUBSET EventIds]
    BY <1>1 DEF TypeOK
  <2> QED BY <2>1, <2>2, <2>3, <2>4, <2>5 DEF TypeOK
<1>3. SessionsApart' /\ ToldOnce' /\ ToldOfSessions' /\ RecordsTold' /\ RecordsOnce'
  BY <1>1 DEF SessionsApart, ToldOnce, ToldOfSessions, Told, RecordsTold, RecordsOnce
<1>4. eventIds' = Ids(records)' BY <1>1 DEF Ids
<1>5. InOrder'
  <2> SUFFICES ASSUME ~steppedBack' PROVE InOrder' BY DEF InOrder
  <2>1. ~steppedBack /\ now' = now + 1 BY DEF Advance, SetBack
  <2>2. /\ now \in Int /\ \A i \in DOMAIN records : records[i].time \in Int
        /\ \A i \in DOMAIN publishing : publishing[i].time \in Int
    <3>1. now \in Int BY DEF TypeOK
    <3>2. \A i \in DOMAIN records : records[i] \in Records BY DEF TypeOK
    <3>3. \A i \in DOMAIN publishing : publishing[i] \in Records BY DEF TypeOK
    <3>4. \A x \in Records : x.time \in Int BY DEF Records
    <3> QED BY <3>1, <3>2, <3>3, <3>4
  <2>3. /\ \A i \in DOMAIN records : records[i].time <= now + 1
        /\ \A i \in DOMAIN publishing : publishing[i].time <= now + 1
    BY <2>1, <2>2 DEF InOrder
  <2> QED BY <1>1, <2>1, <2>3 DEF InOrder
<1>6. NothingElseMissed' BY <1>1 DEF NothingElseMissed, Awaited, Matching, Matches
<1>7. SessionsTellTheirStory' BY <1>1, SameStories
<1> QED BY <1>2, <1>3, <1>4, <1>5, <1>6, <1>7

LEMMA StutterKeepsInv ==
    ASSUME IInv, UNCHANGED vars PROVE IInv'
<1> USE DEF IInv, vars, trackerVars, bufferVars, clientVars
<1>1. TypeOK' BY DEF TypeOK
<1>2. SessionsApart' /\ ToldOnce' /\ ToldOfSessions' /\ RecordsTold' /\ RecordsOnce'
  BY DEF SessionsApart, ToldOnce, ToldOfSessions, Told, RecordsTold, RecordsOnce
<1>3. eventIds' = Ids(records)' BY DEF Ids
<1>4. InOrder' BY DEF InOrder
<1>5. NothingElseMissed' BY DEF NothingElseMissed, Awaited, Matching, Matches
<1>6. SessionsTellTheirStory' BY SameStories
<1> QED BY <1>1, <1>2, <1>3, <1>4, <1>5, <1>6

LEMMA PollKeepsInv ==
    ASSUME IInv, NEW c \in Filters, NEW limit \in Limits, Poll(c, limit) PROVE IInv'
<1> USE DEF IInv, trackerVars, bufferVars
<1> DEFINE answer == Query(cursor[c], c, limit)
           matches == {r.id : r \in Matching(cursor[c], c)}
<1>1. /\ answer # <<>>
      /\ cursor' = [cursor EXCEPT ![c] = Last(answer).time]
      /\ seen' = [seen EXCEPT ![c] = @ \cup Ids(answer)]
      /\ excused' = [excused EXCEPT ![c] =
                        @ \cup IF Cardinality(matches) > limit THEN matches \ Ids(answer) ELSE {}]
      /\ UNCHANGED <<now, steppedBack, trackerVars, bufferVars>>
  BY DEF Poll
<1>2. limit \in Nat BY ActivityFeedAssumption
<1>3. PICK found : /\ found \in Seq(Records) /\ Ids(found) = matches
                   /\ Len(found) = Cardinality(matches)
                   /\ answer \in Seq(Records) /\ Ids(answer) \subseteq Ids(found)
                   /\ Len(found) <= limit => answer = found
  BY <1>2, AnswerIs
<1>4. Ids(answer) \subseteq EventIds /\ matches \subseteq EventIds
  <2>1. \A x \in Records : x.id \in EventIds BY DEF Records
  <2>2. \A i \in DOMAIN found : found[i] \in Records BY <1>3
  <2>3. Ids(found) \subseteq EventIds BY <2>1, <2>2 DEF Ids
  <2> QED BY <2>3, <1>3
<1>5. Last(answer).time \in 0..MaxTime
  <2>1. Len(answer) \in 1..Len(answer)
    <3>1. answer \in Seq(Records) /\ answer # <<>> BY <1>1, <1>3
    <3> HIDE DEF answer
    <3> QED BY <3>1
  <2>2. answer[Len(answer)] \in Records BY <2>1, <1>3
  <2> QED BY <2>2 DEF Last, Records
<1>6. \A x \in matches : x \in Ids(answer) \/ x \in excused'[c]
  <2>1. excused'[c] = excused[c] \cup IF Cardinality(matches) > limit THEN matches \ Ids(answer) ELSE {}
    BY <1>1 DEF TypeOK
  <2>2. CASE Cardinality(matches) > limit BY <2>1, <2>2
  <2>3. CASE ~(Cardinality(matches) > limit)
    <3>1. Len(found) \in Nat BY <1>3
    <3>2. Len(found) <= limit BY <3>1, <2>3, <1>2, <1>3
    <3> QED BY <3>2, <1>3
  <2> QED BY <2>2, <2>3
<1>7. matches = Awaited(c) BY DEF Awaited
<1> HIDE DEF answer, matches
<1>8. TypeOK'
  <2>1. cursor' \in [Filters -> 0..MaxTime \cup {None}] BY <1>1, <1>5 DEF TypeOK
  <2>2. seen' \in [Filters -> SUBSET EventIds] BY <1>1, <1>4 DEF TypeOK
  <2>3. excused' \in [Filters -> SUBSET EventIds] BY <1>1, <1>4 DEF TypeOK
  <2>4. now' \in 0..MaxTime /\ steppedBack' \in BOOLEAN /\ eventIds' \subseteq EventIds
    BY <1>1 DEF TypeOK
  <2>5. /\ DOMAIN sessions' \subseteq Players /\ \A p \in DOMAIN sessions' : sessions'[p] \in Sessions
        /\ opened' \in 0..MaxSessions
        /\ publishing' \in Seq(Records) /\ Len(publishing') <= 2
    BY <1>1 DEF TypeOK
  <2>6. /\ records' \in Seq(Records) /\ Len(records') <= Capacity /\ published' \in Seq(Records)
    BY <1>1 DEF TypeOK
  <2> QED BY <2>1, <2>2, <2>3, <2>4, <2>5, <2>6 DEF TypeOK
<1>9. SessionsApart' /\ ToldOnce' /\ ToldOfSessions' /\ RecordsTold' /\ RecordsOnce'
  BY <1>1 DEF SessionsApart, ToldOnce, ToldOfSessions, Told, RecordsTold, RecordsOnce
<1>10. eventIds' = Ids(records)' BY <1>1 DEF Ids
<1>11. InOrder' BY <1>1 DEF InOrder
<1>12. NothingElseMissed'
  <2> SUFFICES ASSUME NEW d \in Filters, NEW i \in DOMAIN published, Matches(published[i], d)
               PROVE  published[i].id \in seen'[d] \cup excused'[d] \cup Awaited(d)'
    BY <1>1 DEF NothingElseMissed, Matches
  <2>1. published[i].id \in seen[d] \cup excused[d] \cup Awaited(d) BY DEF NothingElseMissed
  <2>2. seen[d] \subseteq seen'[d] /\ excused[d] \subseteq excused'[d] BY <1>1 DEF TypeOK
  <2>3. CASE d = c
    <3>1. seen'[c] = seen[c] \cup Ids(answer) BY <1>1 DEF TypeOK
    <3> QED BY <3>1, <2>1, <2>2, <2>3, <1>6, <1>7
  <2>4. CASE d # c
    <3>1. cursor'[d] = cursor[d] BY <2>4, <1>1 DEF TypeOK
    <3>2. Awaited(d)' = Awaited(d) BY <3>1, <1>1 DEF Awaited, Matching, Matches
    <3> QED BY <3>2, <2>1, <2>2
  <2> QED BY <2>3, <2>4
<1>13. SessionsTellTheirStory' BY <1>1, SameStories
<1> QED BY <1>8, <1>9, <1>10, <1>11, <1>12, <1>13

-----------------------------------------------------------------------------
(* Stories *)

\* The types of the events a session has told, in their order.
TypesOf(s, n) ==
    LET told == Selected(s, EventsOf(n)) IN [i \in DOMAIN told |-> told[i].id[2]]

LEMMA StoryIsTypes == \A n : StoryOf(n) = TypesOf(Told, n)
BY DEF StoryOf, TypesOf, Told

\* The story of a session that is open.
LEMMA FirstTwo == SubSeq(Story, 1, 2) = <<"player_joined", "session_started">>
<1> DEFINE u == SubSeq(Story, 1, 2)
           v == <<"player_joined", "session_started">>
<1>1. Story \in Seq(Types) /\ Len(Story) = 4 /\ Story[1] = "player_joined" /\ Story[2] = "session_started"
  BY DEF Story, Types
<1>2. \A i \in 1..2 : Story[i] \in Types BY <1>1 DEF Types
<1>3. u \in Seq(Types) /\ Len(u) = 2 /\ u[1] = Story[1] /\ u[2] = Story[2]
  BY <1>1, <1>2
<1>4. v \in Seq(Types) /\ Len(v) = 2 /\ v[1] = Story[1] /\ v[2] = Story[2] BY <1>1 DEF Types
<1> HIDE DEF u, v
<1>5. \A i \in 1..Len(u) : u[i] = v[i] BY <1>3, <1>4
<1>6. u = v BY <1>3, <1>4, <1>5, SeqEqual
<1> QED BY <1>6 DEF u, v

\* A session that is left and ended after its start has told all four.
LEMMA AllFour ==
    Append(Append(<<"player_joined", "session_started">>, "player_left"), "session_ended") = Story
<1> DEFINE u == <<"player_joined", "session_started">>
           v == Append(Append(u, "player_left"), "session_ended")
<1>1. /\ u \in Seq(Types) /\ Len(u) = 2 /\ u[1] = "player_joined" /\ u[2] = "session_started"
      /\ "player_left" \in Types /\ "session_ended" \in Types
  BY DEF Types
<1> HIDE DEF u
<1>2. /\ v \in Seq(Types) /\ Len(v) = 4
      /\ v[1] = u[1] /\ v[2] = u[2] /\ v[3] = "player_left" /\ v[4] = "session_ended"
  <2> DEFINE w == Append(u, "player_left")
  <2>1. u \in Seq(Types) BY <1>1
  <2>2. "player_left" \in Types /\ "session_ended" \in Types BY <1>1
  <2>3. w \in Seq(Types) /\ Len(w) = Len(u) + 1 /\ w[Len(u) + 1] = "player_left" BY <2>1, <2>2
  <2>4. \A i \in 1..Len(u) : w[i] = u[i] BY <2>1, <2>2
  <2> HIDE DEF w
  <2>5. LET y == Append(w, "session_ended")
        IN  y \in Seq(Types) /\ Len(y) = Len(w) + 1 /\ y[Len(w) + 1] = "session_ended"
    BY <2>2, <2>3
  <2>6. \A i \in 1..Len(w) : Append(w, "session_ended")[i] = w[i] BY <2>2, <2>3
  <2>7. v = Append(w, "session_ended") BY DEF w
  <2> HIDE DEF v
  <2>8. v \in Seq(Types) /\ Len(v) = Len(w) + 1 /\ v[Len(w) + 1] = "session_ended"
        /\ \A i \in 1..Len(w) : v[i] = w[i]
    BY ONLY <2>5, <2>6, <2>7
  <2> QED BY <1>1, <2>3, <2>4, <2>8
<1>3. /\ Story \in Seq(Types) /\ Len(Story) = 4
      /\ Story[1] = "player_joined" /\ Story[2] = "session_started"
      /\ Story[3] = "player_left" /\ Story[4] = "session_ended"
  BY DEF Story, Types
<1> HIDE DEF v
<1>4. \A i \in 1..4 : i = 1 \/ i = 2 \/ i = 3 \/ i = 4 OBVIOUS
<1>5. \A i \in 1..Len(v) : v[i] = Story[i] BY <1>1, <1>2, <1>3, <1>4
<1>6. v = Story BY <1>2, <1>3, <1>5, SeqEqual
<1> QED BY <1>6 DEF v, u

LEMMA EventsOfIs == \A n : \A r \in Records : r \in EventsOf(n) <=> r.id[1] = n
BY DEF EventsOf

\* One more event adds its type to the story of its session, to no other.
LEMMA OneMoreTold ==
    ASSUME NEW s \in Seq(Records), NEW x \in Records, NEW n
    PROVE  TypesOf(Append(s, x), n) =
               IF x.id[1] = n THEN Append(TypesOf(s, n), x.id[2]) ELSE TypesOf(s, n)
<1> DEFINE told == Selected(s, EventsOf(n))
           types == [i \in DOMAIN told |-> told[i].id[2]]
<1>1. told \in Seq(Records) BY SelectedPlaces
<1>2. Selected(Append(s, x), EventsOf(n)) = IF x.id[1] = n THEN Append(told, x) ELSE told
  <2>1. Selected(Append(s, x), EventsOf(n)) = IF x \in EventsOf(n) THEN Append(told, x) ELSE told
    BY SelectedAppend
  <2> QED BY <2>1, EventsOfIs
<1>3. TypesOf(s, n) = types BY DEF TypesOf
<1>4. CASE x.id[1] # n
  <2> HIDE DEF told
  <2> QED BY <1>2, <1>3, <1>4 DEF TypesOf
<1>5. CASE x.id[1] = n
  <2> DEFINE more == Append(told, x)
             u == [i \in DOMAIN more |-> more[i].id[2]]
             v == Append(types, x.id[2])
  <2>1. TypesOf(Append(s, x), n) = u BY <1>2, <1>5 DEF TypesOf
  <2> HIDE DEF told
  <2>2. /\ DOMAIN told = 1..Len(told) /\ Len(told) \in Nat
        /\ DOMAIN more = 1..(Len(told) + 1) /\ more[Len(told) + 1] = x
        /\ \A i \in 1..Len(told) : more[i] = told[i]
    BY <1>1
  <2> DEFINE Z == {told[i].id[2] : i \in DOMAIN told} \cup {x.id[2]}
  <2>3. types \in [1..Len(told) -> Z] BY <2>2
  <2>4. types \in Seq(Z) /\ Len(types) = Len(told) /\ x.id[2] \in Z BY <2>2, <2>3
  <2>5. \A i \in 1..Len(told) : types[i] = told[i].id[2] BY <2>2
  <2> HIDE DEF types, Z
  <2>6. /\ DOMAIN v = 1..(Len(told) + 1) /\ v[Len(told) + 1] = x.id[2]
        /\ \A i \in 1..Len(told) : v[i] = types[i]
        /\ v = [i \in DOMAIN v |-> v[i]]
    BY <2>2, <2>4
  <2> HIDE DEF more, v
  <2>7. \A i \in 1..(Len(told) + 1) : i \in 1..Len(told) \/ i = Len(told) + 1 BY <2>2
  <2>8. \A i \in 1..(Len(told) + 1) : more[i].id[2] = v[i] BY <2>2, <2>5, <2>6, <2>7
  <2>9. u = v BY <2>2, <2>6, <2>8
  <2> QED BY <2>1, <2>9, <1>3, <1>5 DEF v, types
<1> QED BY <1>4, <1>5

\* A session of which nothing was told has no story yet.
LEMMA NothingTold ==
    ASSUME NEW s \in Seq(Records), NEW n, \A i \in DOMAIN s : s[i].id[1] # n
    PROVE  TypesOf(s, n) = <<>>
<1> DEFINE told == Selected(s, EventsOf(n))
<1>1. told \in Seq(Records) BY SelectedPlaces
<1>2. \A i \in DOMAIN told : told[i] \in EventsOf(n) /\ \E j \in DOMAIN s : s[j] = told[i]
  <2>1. \A x : (\E i \in DOMAIN told : told[i] = x)
                  <=> x \in EventsOf(n) /\ \E i \in DOMAIN s : s[i] = x
    BY SelectedElements
  <2> HIDE DEF told
  <2> QED BY <2>1
<1>3. TypesOf(s, n) = [i \in DOMAIN told |-> told[i].id[2]] BY DEF TypesOf
<1> HIDE DEF told
<1>4. DOMAIN told = {}
  <2> SUFFICES ASSUME NEW i \in DOMAIN told PROVE FALSE OBVIOUS
  <2>1. told[i] \in Records /\ told[i].id[1] = n BY <1>1, <1>2, EventsOfIs
  <2> QED BY <2>1, <1>2
<1>5. [i \in {} |-> told[i].id[2]] = <<>> OBVIOUS
<1> QED BY <1>3, <1>4, <1>5

\* Two more events of one session.
LEMMA TwoMoreTold ==
    ASSUME NEW s \in Seq(Records), NEW x \in Records, NEW y \in Records, NEW n,
           x.id[1] = y.id[1]
    PROVE  TypesOf(s \o <<x, y>>, n) =
               IF x.id[1] = n THEN Append(Append(TypesOf(s, n), x.id[2]), y.id[2])
               ELSE TypesOf(s, n)
<1>1. s \o <<x, y>> = Append(Append(s, x), y) BY TwoAppended
<1>2. Append(s, x) \in Seq(Records) OBVIOUS
<1>3. TypesOf(Append(Append(s, x), y), n) =
          IF y.id[1] = n THEN Append(TypesOf(Append(s, x), n), y.id[2]) ELSE TypesOf(Append(s, x), n)
  BY <1>2, OneMoreTold
<1>4. TypesOf(Append(s, x), n) =
          IF x.id[1] = n THEN Append(TypesOf(s, n), x.id[2]) ELSE TypesOf(s, n)
  BY OneMoreTold
<1> QED BY <1>1, <1>3, <1>4

-----------------------------------------------------------------------------
(* Steps that tell something *)

\* What Join and Leave have in common: two records of one session, stamped with
\* the time of the step, are about to be told.
TwoToTell(x, y) ==
    /\ x \in Records /\ y \in Records
    /\ x.id[1] = y.id[1] /\ x.id[2] # y.id[2] /\ x.time = now /\ y.time = now
    /\ publishing = <<>> /\ publishing' = <<x, y>>
    /\ UNCHANGED <<now, steppedBack, bufferVars, clientVars>>

\* The events told, with two more.
LEMMA ToldWithTwo ==
    ASSUME IInv, NEW x, NEW y, TwoToTell(x, y)
    PROVE  /\ Told = published /\ Told' = published \o <<x, y>>
           /\ DOMAIN Told = 1..Len(published) /\ Len(published) \in Nat
           /\ DOMAIN Told' = 1..(Len(published) + 2)
           /\ Told'[Len(published) + 1] = x /\ Told'[Len(published) + 2] = y
           /\ \A i \in 1..Len(published) : Told'[i] = Told[i]
<1>1. published \in Seq(Records) BY DEF IInv, TypeOK
<1>2. Told = published BY <1>1 DEF Told, TwoToTell
<1>3. Told' = published \o <<x, y>> BY DEF Told, TwoToTell, bufferVars
<1>4. x \in Records /\ y \in Records BY DEF TwoToTell
<1> DEFINE u == published \o <<x, y>>
<1>5. /\ DOMAIN u = 1..(Len(published) + 2)
      /\ u[Len(published) + 1] = x /\ u[Len(published) + 2] = y
      /\ \A i \in 1..Len(published) : u[i] = published[i]
  BY <1>1, <1>4
<1> HIDE DEF u
<1>6. Told' = u BY <1>3 DEF u
<1> QED BY <1>1, <1>2, <1>3, <1>5, <1>6

\* What two new events leave alone.
LEMMA TwoToTellKeep ==
    ASSUME IInv, NEW x, NEW y, TwoToTell(x, y)
    PROVE  /\ publishing' \in Seq(Records) /\ Len(publishing') = 2
           /\ RecordsTold' /\ RecordsOnce' /\ (eventIds = Ids(records))'
           /\ InOrder' /\ NothingElseMissed'
<1> USE DEF IInv, bufferVars, clientVars
<1>1. UNCHANGED <<now, steppedBack, bufferVars, clientVars>> BY DEF TwoToTell
<1>2. publishing' \in Seq(Records) /\ Len(publishing') = 2 /\ DOMAIN publishing' = {1, 2}
      /\ publishing'[1] = x /\ publishing'[2] = y
  <2>1. x \in Records /\ y \in Records /\ publishing' = <<x, y>> BY DEF TwoToTell
  <2>2. DOMAIN <<x, y>> = {1, 2} /\ Len(<<x, y>>) = 2 OBVIOUS
  <2>3. <<x, y>> \in Seq(Records) BY <2>1
  <2> QED BY <2>1, <2>2, <2>3
<1>3. RecordsTold' /\ RecordsOnce' BY <1>1 DEF RecordsTold, RecordsOnce
<1>4. (eventIds = Ids(records))' BY <1>1 DEF Ids
<1>5. InOrder'
  <2>1. x.time = now /\ y.time = now /\ now \in Int BY DEF TwoToTell, TypeOK
  <2>2. \A i \in DOMAIN publishing' : publishing'[i].time = now BY <1>2, <2>1
  <2> SUFFICES ASSUME ~steppedBack PROVE InOrder' BY <1>1 DEF InOrder
  <2>3. /\ \A i \in DOMAIN records' : records'[i].time <= now'
        /\ \A i, j \in DOMAIN records' : i < j => records'[i].time <= records'[j].time
    BY <1>1 DEF InOrder
  <2>4. \A i \in DOMAIN publishing' : publishing'[i].time <= now' BY <1>1, <2>1, <2>2
  <2>5. \A i \in DOMAIN records', j \in DOMAIN publishing' : records'[i].time <= publishing'[j].time
    BY <1>1, <2>2, <2>3
  <2>6. \A i, j \in DOMAIN publishing' : i < j => publishing'[i].time <= publishing'[j].time
    BY <2>1, <2>2
  <2> QED BY <2>3, <2>4, <2>5, <2>6 DEF InOrder
<1>6. NothingElseMissed' BY <1>1 DEF NothingElseMissed, Awaited, Matching, Matches
<1> QED BY <1>2, <1>3, <1>4, <1>5, <1>6

\* The variables a step of the tracker leaves alone stay in their ranges.
LEMMA TrackerKeepsTypes ==
    ASSUME IInv, UNCHANGED <<now, steppedBack, bufferVars, clientVars>>,
           DOMAIN sessions' \subseteq Players,
           \A p \in DOMAIN sessions' : sessions'[p] \in Sessions,
           opened' \in 0..MaxSessions,
           publishing' \in Seq(Records), Len(publishing') <= 2
    PROVE  TypeOK'
BY DEF IInv, TypeOK, bufferVars, clientVars

LEMMA JoinKeepsInv ==
    ASSUME IInv, NEW p \in Players, Join(p) PROVE IInv'
<1> USE DEF IInv
<1> DEFINE x == Record("player_joined", now, p, opened, None)
           y == Record("session_started", now, p, opened, None)
<1>1. /\ publishing = <<>> /\ p \notin DOMAIN sessions /\ opened < MaxSessions
      /\ opened' = opened + 1 /\ publishing' = <<x, y>>
      /\ UNCHANGED <<now, steppedBack, bufferVars, clientVars>>
  BY DEF Join
<1>2. /\ DOMAIN sessions' = DOMAIN sessions \cup {p}
      /\ sessions'[p] = [id |-> opened, started |-> now]
      /\ \A q \in DOMAIN sessions : sessions'[q] = sessions[q]
  BY <1>1 DEF Join
<1>3. /\ opened \in 0..MaxSessions /\ MaxSessions \in Nat /\ now \in 0..MaxTime
      /\ opened \in 0..(MaxSessions - 1)
  BY <1>1, ActivityFeedAssumption DEF TypeOK
<1>4. /\ x \in Records /\ x.id = <<opened, "player_joined">> /\ x.time = now
      /\ x.id[1] = opened /\ x.id[2] = "player_joined"
  BY <1>3 DEF Record, Records, EventIds, Types
<1>5. /\ y \in Records /\ y.id = <<opened, "session_started">> /\ y.time = now
      /\ y.id[1] = opened /\ y.id[2] = "session_started"
  BY <1>3 DEF Record, Records, EventIds, Types
<1> HIDE DEF x, y
<1>6. TwoToTell(x, y) BY <1>1, <1>4, <1>5 DEF TwoToTell
<1>7. /\ publishing' \in Seq(Records) /\ Len(publishing') = 2
      /\ RecordsTold' /\ RecordsOnce' /\ (eventIds = Ids(records))'
      /\ InOrder' /\ NothingElseMissed'
  BY <1>6, TwoToTellKeep
<1>8. /\ Told = published /\ Told' = published \o <<x, y>>
      /\ DOMAIN Told = 1..Len(published) /\ Len(published) \in Nat
      /\ DOMAIN Told' = 1..(Len(published) + 2)
      /\ Told'[Len(published) + 1] = x /\ Told'[Len(published) + 2] = y
      /\ \A i \in 1..Len(published) : Told'[i] = Told[i]
  BY <1>6, ToldWithTwo
<1>9. \A i \in DOMAIN Told' : i \in DOMAIN Told \/ i = Len(published) + 1 \/ i = Len(published) + 2
  BY <1>8
<1>10. TypeOK'
  <2>1. opened' \in 0..MaxSessions BY <1>1, <1>3
  <2>2. DOMAIN sessions' \subseteq Players BY <1>2 DEF TypeOK
  <2>3. \A q \in DOMAIN sessions' : sessions'[q] \in Sessions
    <3>1. sessions'[p] \in Sessions BY <1>2, <1>3 DEF Sessions
    <3> QED BY <3>1, <1>2 DEF TypeOK
  <2>4. Len(publishing') <= 2 BY <1>7
  <2> QED BY <1>1, <1>7, <2>1, <2>2, <2>3, <2>4, TrackerKeepsTypes
<1>11. \A q \in DOMAIN sessions : sessions[q].id \in Int /\ sessions[q].id < opened
  BY DEF SessionsApart, TypeOK, Sessions
<1>12. SessionsApart'
  <2>1. sessions'[p].id = opened BY <1>2
  <2> QED BY <1>1, <1>2, <1>3, <1>11, <2>1 DEF SessionsApart
<1>13. \A i \in DOMAIN Told : Told'[i] = Told[i] /\ Told[i].id[1] # opened
  BY <1>3, <1>8 DEF ToldOfSessions
<1>14. ToldOnce'
  <2> SUFFICES ASSUME NEW i \in DOMAIN Told', NEW j \in DOMAIN Told', Told'[i].id = Told'[j].id
               PROVE  i = j
    BY DEF ToldOnce
  <2>1. x.id # y.id BY <1>4, <1>5
  <2>2. \A k \in DOMAIN Told : Told'[k].id # x.id /\ Told'[k].id # y.id BY <1>4, <1>5, <1>13
  <2>3. CASE i \in DOMAIN Told /\ j \in DOMAIN Told BY <2>3, <1>13 DEF ToldOnce
  <2>4. CASE i \notin DOMAIN Told \/ j \notin DOMAIN Told BY <2>4, <2>1, <2>2, <1>8, <1>9
  <2> QED BY <2>3, <2>4
<1>15. ToldOfSessions'
  <2> SUFFICES ASSUME NEW i \in DOMAIN Told'
               PROVE  /\ Told'[i].id[1] < opened'
                      /\ Told'[i].id[2] \in Leaving =>
                             \A q \in DOMAIN sessions' : sessions'[q].id # Told'[i].id[1]
    BY DEF ToldOfSessions
  <2>1. CASE i \in DOMAIN Told
    <3>1. Told'[i] = Told[i] /\ Told[i].id[1] < opened /\ Told[i].id[1] # opened
      BY <2>1, <1>13 DEF ToldOfSessions
    <3>2. Told[i].id[1] \in Int
      <4>1. Told[i] \in Records BY <1>8, <2>1 DEF TypeOK
      <4> QED BY <4>1 DEF Records, EventIds
    <3>3. Told'[i].id[1] < opened' BY <3>1, <3>2, <1>1, <1>3
    <3>4. Told'[i].id[2] \in Leaving => \A q \in DOMAIN sessions : sessions[q].id # Told[i].id[1]
      BY <2>1, <3>1 DEF ToldOfSessions
    <3> QED BY <3>1, <3>3, <3>4, <1>2
  <2>2. CASE i \notin DOMAIN Told
    <3>1. Told'[i].id[1] = opened /\ Told'[i].id[2] \notin Leaving
      BY <2>2, <1>8, <1>9, <1>4, <1>5 DEF Leaving
    <3> QED BY <3>1, <1>1, <1>3
  <2> QED BY <2>1, <2>2
<1>16. SessionsTellTheirStory'
  <2> SUFFICES ASSUME NEW n \in 0..(opened' - 1)
               PROVE  TypesOf(Told, n)' = IF \E q \in DOMAIN sessions' : sessions'[q].id = n
                                          THEN SubSeq(Story, 1, 2) ELSE Story
    BY DEF SessionsTellTheirStory, StoryOf, TypesOf, Told
  <2>1. published \in Seq(Records) BY DEF TypeOK
  <2>2. TypesOf(published \o <<x, y>>, n) =
            IF x.id[1] = n THEN Append(Append(TypesOf(published, n), x.id[2]), y.id[2])
            ELSE TypesOf(published, n)
    BY <2>1, <1>4, <1>5, TwoMoreTold
  <2>3. TypesOf(Told, n)' = TypesOf(published \o <<x, y>>, n) BY <1>8 DEF TypesOf, EventsOf
  <2>4. CASE n = opened
    <3>1. TypesOf(published, n) = <<>> BY <2>1, <2>4, <1>8, <1>13, NothingTold
    <3>2. TypesOf(Told, n)' = <<"player_joined", "session_started">>
      BY <2>2, <2>3, <2>4, <3>1, <1>4, <1>5
    <3>3. SubSeq(Story, 1, 2) = <<"player_joined", "session_started">> BY FirstTwo
    <3>4. \E q \in DOMAIN sessions' : sessions'[q].id = n BY <1>2, <2>4
    <3> QED BY <3>2, <3>3, <3>4
  <2>5. CASE n # opened
    <3>1. n \in 0..(opened - 1) BY <2>5, <1>1, <1>3
    <3>2. TypesOf(Told, n) = IF \E q \in DOMAIN sessions : sessions[q].id = n
                             THEN SubSeq(Story, 1, 2) ELSE Story
      BY <3>1, StoryIsTypes DEF SessionsTellTheirStory
    <3>3. TypesOf(Told, n)' = TypesOf(Told, n) BY <2>2, <2>3, <2>5, <1>4, <1>8
    <3>4. (\E q \in DOMAIN sessions' : sessions'[q].id = n) <=> (\E q \in DOMAIN sessions : sessions[q].id = n)
      BY <1>2, <2>5
    <3> QED BY <3>2, <3>3, <3>4
  <2> QED BY <2>4, <2>5
<1> QED BY <1>7, <1>10, <1>12, <1>14, <1>15, <1>16

LEMMA LeaveKeepsInv ==
    ASSUME IInv, NEW p \in Players, Leave(p) PROVE IInv'
<1> USE DEF IInv
<1> DEFINE n == sessions[p].id
           x == Record("player_left", now, p, n, Duration(sessions[p]))
           y == Record("session_ended", now, p, n, Duration(sessions[p]))
<1>1. /\ publishing = <<>> /\ p \in DOMAIN sessions /\ publishing' = <<x, y>>
      /\ UNCHANGED <<now, steppedBack, opened, bufferVars, clientVars>>
  BY DEF Leave
<1>2. /\ DOMAIN sessions' = DOMAIN sessions \ {p}
      /\ \A q \in DOMAIN sessions \ {p} : sessions'[q] = sessions[q]
  BY DEF Leave
<1>3. /\ now \in 0..MaxTime /\ MaxTime \in Nat /\ n \in 0..(MaxSessions - 1)
      /\ sessions[p].started \in 0..MaxTime /\ n < opened /\ n \in 0..(opened - 1)
  <2>1. sessions[p] \in Sessions /\ n < opened BY <1>1 DEF TypeOK, SessionsApart
  <2>2. now \in 0..MaxTime /\ MaxTime \in Nat /\ MaxSessions \in Nat /\ opened \in 0..MaxSessions
    BY ActivityFeedAssumption DEF TypeOK
  <2>3. n \in 0..(MaxSessions - 1) /\ sessions[p].started \in 0..MaxTime BY <2>1 DEF Sessions
  <2> HIDE DEF n
  <2>4. n \in 0..(opened - 1) BY <2>1, <2>2, <2>3 DEF n
  <2> QED BY <2>1, <2>2, <2>3, <2>4 DEF n
<1>4. Duration(sessions[p]) \in 0..MaxTime
  <2>1. Max({now, sessions[p].started}) =
            IF now <= sessions[p].started THEN sessions[p].started ELSE now
    BY <1>3, MaxOfTwo
  <2> QED BY <2>1, <1>3 DEF Duration
<1> HIDE DEF n
<1>5. /\ x \in Records /\ x.id = <<n, "player_left">> /\ x.time = now
      /\ x.id[1] = n /\ x.id[2] = "player_left"
  BY <1>3, <1>4 DEF Record, Records, EventIds, Types
<1>6. /\ y \in Records /\ y.id = <<n, "session_ended">> /\ y.time = now
      /\ y.id[1] = n /\ y.id[2] = "session_ended"
  BY <1>3, <1>4 DEF Record, Records, EventIds, Types
<1> HIDE DEF x, y
<1>7. TwoToTell(x, y) BY <1>1, <1>5, <1>6 DEF TwoToTell
<1>8. /\ publishing' \in Seq(Records) /\ Len(publishing') = 2
      /\ RecordsTold' /\ RecordsOnce' /\ (eventIds = Ids(records))'
      /\ InOrder' /\ NothingElseMissed'
  BY <1>7, TwoToTellKeep
<1>9. /\ Told = published /\ Told' = published \o <<x, y>>
      /\ DOMAIN Told = 1..Len(published) /\ Len(published) \in Nat
      /\ DOMAIN Told' = 1..(Len(published) + 2)
      /\ Told'[Len(published) + 1] = x /\ Told'[Len(published) + 2] = y
      /\ \A i \in 1..Len(published) : Told'[i] = Told[i]
  BY <1>7, ToldWithTwo
<1>10. \A i \in DOMAIN Told' : i \in DOMAIN Told \/ i = Len(published) + 1 \/ i = Len(published) + 2
  BY <1>9
<1>11. TypeOK'
  <2>1. opened' \in 0..MaxSessions BY <1>1 DEF TypeOK
  <2>2. DOMAIN sessions' \subseteq Players /\ \A q \in DOMAIN sessions' : sessions'[q] \in Sessions
    BY <1>2 DEF TypeOK
  <2>3. Len(publishing') <= 2 BY <1>8
  <2> QED BY <1>1, <1>8, <2>1, <2>2, <2>3, TrackerKeepsTypes
<1>12. SessionsApart' BY <1>1, <1>2 DEF SessionsApart
<1>13. \A q \in DOMAIN sessions : sessions[q].id = n => q = p BY <1>1 DEF SessionsApart, n
<1>14. /\ \A i \in DOMAIN Told : Told'[i] = Told[i]
       /\ \A i \in DOMAIN Told : Told[i].id[2] \in Leaving => Told[i].id[1] # n
  BY <1>1, <1>9 DEF ToldOfSessions, n
<1>15. ToldOnce'
  <2> SUFFICES ASSUME NEW i \in DOMAIN Told', NEW j \in DOMAIN Told', Told'[i].id = Told'[j].id
               PROVE  i = j
    BY DEF ToldOnce
  <2>1. x.id # y.id BY <1>5, <1>6
  <2>2. \A k \in DOMAIN Told : Told'[k].id # x.id /\ Told'[k].id # y.id
    BY <1>5, <1>6, <1>14 DEF Leaving
  <2>3. CASE i \in DOMAIN Told /\ j \in DOMAIN Told BY <2>3, <1>14 DEF ToldOnce
  <2>4. CASE i \notin DOMAIN Told \/ j \notin DOMAIN Told BY <2>4, <2>1, <2>2, <1>9, <1>10
  <2> QED BY <2>3, <2>4
<1>16. ToldOfSessions'
  <2> SUFFICES ASSUME NEW i \in DOMAIN Told'
               PROVE  /\ Told'[i].id[1] < opened
                      /\ \A q \in DOMAIN sessions' :
                             Told'[i].id[2] \in Leaving => sessions'[q].id # Told'[i].id[1]
    BY <1>1 DEF ToldOfSessions
  <2>1. CASE i \in DOMAIN Told BY <2>1, <1>2, <1>14 DEF ToldOfSessions
  <2>2. CASE i \notin DOMAIN Told
    <3>1. Told'[i].id[1] = n BY <2>2, <1>9, <1>10, <1>5, <1>6
    <3> QED BY <3>1, <1>2, <1>3, <1>13
  <2> QED BY <2>1, <2>2
<1>17. SessionsTellTheirStory'
  <2> SUFFICES ASSUME NEW m \in 0..(opened - 1)
               PROVE  TypesOf(Told, m)' = IF \E q \in DOMAIN sessions' : sessions'[q].id = m
                                          THEN SubSeq(Story, 1, 2) ELSE Story
    BY <1>1 DEF SessionsTellTheirStory, StoryOf, TypesOf, Told
  <2>1. published \in Seq(Records) BY DEF TypeOK
  <2>2. TypesOf(published \o <<x, y>>, m) =
            IF x.id[1] = m THEN Append(Append(TypesOf(published, m), x.id[2]), y.id[2])
            ELSE TypesOf(published, m)
    BY <2>1, <1>5, <1>6, TwoMoreTold
  <2>3. TypesOf(Told, m)' = TypesOf(published \o <<x, y>>, m) BY <1>9 DEF TypesOf, EventsOf
  <2>4. TypesOf(Told, m) = IF \E q \in DOMAIN sessions : sessions[q].id = m
                           THEN SubSeq(Story, 1, 2) ELSE Story
    BY StoryIsTypes DEF SessionsTellTheirStory
  <2>5. CASE m = n
    <3>1. TypesOf(Told, m) = <<"player_joined", "session_started">>
      BY <2>4, <2>5, <1>1, FirstTwo DEF n
    <3>2. TypesOf(Told, m)' =
              Append(Append(<<"player_joined", "session_started">>, "player_left"), "session_ended")
      BY <2>2, <2>3, <2>5, <3>1, <1>5, <1>6, <1>9
    <3>3. Append(Append(<<"player_joined", "session_started">>, "player_left"), "session_ended") = Story
      BY AllFour
    <3>4. ~\E q \in DOMAIN sessions' : sessions'[q].id = m BY <2>5, <1>2, <1>13
    <3> QED BY <3>2, <3>3, <3>4
  <2>6. CASE m # n
    <3>1. TypesOf(Told, m)' = TypesOf(Told, m) BY <2>2, <2>3, <2>6, <1>5, <1>9
    <3>2. (\E q \in DOMAIN sessions' : sessions'[q].id = m) <=> (\E q \in DOMAIN sessions : sessions[q].id = m)
      BY <1>1, <1>2, <2>6 DEF n
    <3> QED BY <2>4, <3>1, <3>2
  <2> QED BY <2>5, <2>6
<1> QED BY <1>8, <1>11, <1>12, <1>15, <1>16, <1>17

-----------------------------------------------------------------------------
(* Publishing *)

LEMMA PublishKeepsInv ==
    ASSUME IInv, Publish PROVE IInv'
<1> USE DEF IInv
<1> DEFINE r == Head(publishing)
           room == Room(records)
<1>1. /\ publishing # <<>> /\ publishing' = Tail(publishing)
      /\ UNCHANGED <<now, steppedBack, sessions, opened, cursor, seen>>
  BY DEF Publish
<1>2. /\ publishing \in Seq(Records) /\ Len(publishing) <= 2 /\ Len(publishing) \in Nat
      /\ records \in Seq(Records) /\ published \in Seq(Records)
      /\ Len(records) \in Nat /\ Len(published) \in Nat
  BY DEF TypeOK
<1>3. /\ r \in Records /\ r = publishing[1] /\ publishing' \in Seq(Records)
      /\ Len(publishing) > 0 /\ Len(publishing') = Len(publishing) - 1
      /\ \A i \in 1..Len(publishing') : publishing'[i] = publishing[i + 1]
      /\ DOMAIN publishing = 1..Len(publishing) /\ DOMAIN publishing' = 1..Len(publishing')
  BY <1>1, <1>2
<1>4. /\ Told \in Seq(Records)
      /\ DOMAIN Told = 1..(Len(published) + Len(publishing))
      /\ \A i \in 1..Len(published) : Told[i] = published[i]
      /\ Len(published) + 1 \in DOMAIN Told /\ Told[Len(published) + 1] = r
  <2>1. /\ Told \in Seq(Records) /\ Len(Told) = Len(published) + Len(publishing)
        /\ \A i \in 1..(Len(published) + Len(publishing)) :
               Told[i] = IF i <= Len(published) THEN published[i] ELSE publishing[i - Len(published)]
    BY <1>2, ConcatProperties DEF Told
  <2>2. DOMAIN Told = 1..(Len(published) + Len(publishing)) BY <2>1
  <2>3. \A i \in 1..Len(published) : Told[i] = published[i] BY <2>1, <1>2
  <2>4. Len(published) + 1 \in DOMAIN Told BY <2>2, <1>2, <1>3
  <2>5. Told[Len(published) + 1] = publishing[1]
    <3>1. ~(Len(published) + 1 <= Len(published)) /\ Len(published) + 1 - Len(published) = 1 BY <1>2
    <3> QED BY <3>1, <2>1, <2>2, <2>4
  <2> QED BY <2>1, <2>2, <2>3, <2>4, <2>5, <1>3
<1>5. /\ room \in Seq(Records) /\ Len(room) <= Capacity - 1 /\ Len(room) <= Len(records)
      /\ Len(room) \in Nat
      /\ \A i \in 1..Len(room) :
             /\ i + (Len(records) - Len(room)) \in DOMAIN records
             /\ room[i] = records[i + (Len(records) - Len(room))]
      /\ DOMAIN room = 1..Len(room)
  <2>1. Capacity - 1 \in Nat /\ Capacity \in Nat BY ActivityFeedAssumption
  <2>2. /\ room \in Seq(Records)
        /\ Len(room) = IF Len(records) <= Capacity - 1 THEN Len(records) ELSE Capacity - 1
        /\ \A i \in 1..Len(room) :
               /\ i + (Len(records) - Len(room)) \in 1..Len(records)
               /\ room[i] = records[i + (Len(records) - Len(room))]
    BY <1>2, <2>1, NewestIs DEF Room
  <2> HIDE DEF room
  <2>3. Len(room) <= Capacity - 1 /\ Len(room) <= Len(records) /\ Len(room) \in Nat
    BY <2>1, <2>2, <1>2
  <2>4. DOMAIN room = 1..Len(room) /\ DOMAIN records = 1..Len(records) BY <2>2, <1>2
  <2> QED BY <2>2, <2>3, <2>4
\* The event was not told before, so it is not in the buffer.
<1>6. r.id \notin eventIds
  <2> SUFFICES ASSUME r.id \in eventIds PROVE FALSE OBVIOUS
  <2>1. PICK i \in DOMAIN records : records[i].id = r.id BY DEF Ids
  <2>2. PICK j \in DOMAIN published : published[j] = records[i] BY DEF RecordsTold
  <2>3. j \in 1..Len(published) /\ Told[j] = published[j] BY <1>2, <1>4
  <2>4. j \in DOMAIN Told /\ j # Len(published) + 1 BY <2>3, <1>2, <1>4
  <2>5. Told[j].id = Told[Len(published) + 1].id BY <2>1, <2>2, <2>3, <1>4
  <2> QED BY <2>4, <2>5, <1>4 DEF ToldOnce
<1>7. /\ records' = Append(room, r)
      /\ eventIds' = (eventIds \ Forgotten(records)) \cup {r.id}
      /\ published' = Append(published, r)
      /\ excused' =
            [c \in Filters |->
                excused[c] \cup (Ids(records) \ (Ids(room) \cup seen[c]))
                   \cup IF cursor[c] # None /\ r.time <= cursor[c] THEN {r.id} ELSE {}]
  BY <1>6 DEF Publish
<1>8. Forgotten(records) = Ids(records) \ Ids(room) BY DEF Forgotten
<1> HIDE DEF r, room
<1>9. /\ records' \in Seq(Records) /\ Len(records') = Len(room) + 1
      /\ DOMAIN records' = 1..(Len(room) + 1) /\ records'[Len(room) + 1] = r
      /\ \A i \in 1..Len(room) : records'[i] = room[i]
  BY <1>3, <1>5, <1>7
<1>10. \A i \in DOMAIN records' : i \in DOMAIN room \/ i = Len(room) + 1 BY <1>5, <1>9
<1>11. \A i \in DOMAIN room : \E j \in DOMAIN records : records[j] = room[i] BY <1>5
<1>12. /\ published' \in Seq(Records) /\ DOMAIN published' = 1..(Len(published) + 1)
       /\ published'[Len(published) + 1] = r
       /\ \A i \in DOMAIN published : i \in DOMAIN published' /\ published'[i] = published[i]
       /\ \A i \in DOMAIN published' : i \in DOMAIN published \/ i = Len(published) + 1
  <2>1. DOMAIN published = 1..Len(published) BY <1>2
  <2>2. /\ published' \in Seq(Records) /\ DOMAIN published' = 1..(Len(published) + 1)
        /\ published'[Len(published) + 1] = r
        /\ \A i \in 1..Len(published) : published'[i] = published[i]
    BY <1>2, <1>3, <1>7
  <2>3. \A i \in 1..(Len(published) + 1) : i \in 1..Len(published) \/ i = Len(published) + 1 BY <1>2
  <2>4. \A i \in 1..Len(published) : i \in 1..(Len(published) + 1) BY <1>2
  <2> QED BY <2>1, <2>2, <2>3, <2>4
<1>13. Ids(records)' = Ids(room) \cup {r.id}
  <2>1. \A i \in DOMAIN room : i \in DOMAIN records' BY <1>5, <1>9
  <2>2. Len(room) + 1 \in DOMAIN records' BY <1>5, <1>9
  <2>3. \A e \in Ids(room) \cup {r.id} : \E i \in DOMAIN records' : records'[i].id = e
    BY <2>1, <2>2, <1>5, <1>9 DEF Ids
  <2>4. \A i \in DOMAIN records' : records'[i].id \in Ids(room) \cup {r.id}
    BY <1>5, <1>9, <1>10 DEF Ids
  <2> QED BY <2>3, <2>4 DEF Ids
<1>14. Ids(room) \subseteq Ids(records) BY <1>11 DEF Ids
<1>15. (eventIds = Ids(records))' BY <1>7, <1>8, <1>13, <1>14
<1>16. Told' = Told
  <2>1. Append(published, Head(publishing)) \o Tail(publishing) = published \o publishing
    BY <1>1, <1>2, OneMoved
  <2> QED BY <2>1, <1>1, <1>7 DEF Told, r
<1>17. SessionsApart' BY <1>1 DEF SessionsApart
<1>18. ToldOnce' /\ ToldOfSessions' BY <1>1, <1>16 DEF ToldOnce, ToldOfSessions
<1>19. RecordsTold'
  <2> SUFFICES ASSUME NEW i \in DOMAIN records'
               PROVE  \E j \in DOMAIN published' : published'[j] = records'[i]
    BY DEF RecordsTold
  <2>1. CASE i \in DOMAIN room
    <3>1. records'[i] = room[i] BY <2>1, <1>5, <1>9
    <3>2. PICK k \in DOMAIN records : records[k] = room[i] BY <2>1, <1>11
    <3>3. PICK j \in DOMAIN published : published[j] = records[k] BY DEF RecordsTold
    <3> QED BY <3>1, <3>2, <3>3, <1>12
  <2>2. CASE i = Len(room) + 1
    <3>1. Len(published) + 1 \in DOMAIN published' BY <1>2, <1>12
    <3> QED BY <2>2, <3>1, <1>9, <1>12
  <2> QED BY <2>1, <2>2, <1>10
<1>20. \A i, j \in DOMAIN room : room[i].id = room[j].id => i = j
  <2> SUFFICES ASSUME NEW i \in DOMAIN room, NEW j \in DOMAIN room, room[i].id = room[j].id
               PROVE  i = j
    OBVIOUS
  <2> DEFINE d == Len(records) - Len(room)
  <2>1. d \in Int /\ i \in Int /\ j \in Int BY <1>2, <1>5
  <2>2. i + d \in DOMAIN records /\ j + d \in DOMAIN records
        /\ room[i] = records[i + d] /\ room[j] = records[j + d]
    BY <1>5
  <2> HIDE DEF d
  <2>3. i + d = j + d BY <2>2 DEF RecordsOnce
  <2>4. \A a, b, e \in Int : a + e = b + e => a = b OBVIOUS
  <2> QED BY ONLY <2>1, <2>3, <2>4
<1>21. RecordsOnce'
  <2> SUFFICES ASSUME NEW i \in DOMAIN records', NEW j \in DOMAIN records',
                      records'[i].id = records'[j].id
               PROVE  i = j
    BY DEF RecordsOnce
  <2>1. \A k \in DOMAIN room : records'[k] = room[k] /\ room[k].id # r.id
    <3>1. \A k \in DOMAIN room : room[k].id \in Ids(room) BY DEF Ids
    <3> QED BY <3>1, <1>5, <1>6, <1>9, <1>14
  <2>2. CASE i \in DOMAIN room /\ j \in DOMAIN room BY <2>1, <2>2, <1>20
  <2>3. CASE i \notin DOMAIN room \/ j \notin DOMAIN room BY <2>1, <2>3, <1>9, <1>10
  <2> QED BY <2>2, <2>3
<1>22. \A i \in DOMAIN publishing' : i + 1 \in DOMAIN publishing /\ publishing'[i] = publishing[i + 1]
  BY <1>2, <1>3
<1>23. InOrder'
  <2> SUFFICES ASSUME ~steppedBack PROVE InOrder' BY <1>1 DEF InOrder
  <2>1. 1 \in DOMAIN publishing BY <1>2, <1>3
  <2>2. \A i \in DOMAIN room : room[i].time <= now /\ room[i].time <= r.time
    BY <1>3, <1>11, <2>1 DEF InOrder
  <2>3. r.time <= now BY <1>3, <2>1 DEF InOrder
  <2>4. \A i, j \in DOMAIN room : i < j => room[i].time <= room[j].time
    <3> SUFFICES ASSUME NEW i \in DOMAIN room, NEW j \in DOMAIN room, i < j
                 PROVE  room[i].time <= room[j].time
      OBVIOUS
    <3> DEFINE d == Len(records) - Len(room)
    <3>1. d \in Int /\ i \in Int /\ j \in Int BY <1>2, <1>5
    <3>2. /\ i + d \in DOMAIN records /\ j + d \in DOMAIN records
          /\ room[i] = records[i + d] /\ room[j] = records[j + d]
      BY <1>5
    <3> HIDE DEF d
    <3>3. i + d < j + d BY <3>1
    <3> QED BY <3>2, <3>3 DEF InOrder
  <2>5. \A i \in DOMAIN records' : records'[i].time <= now'
    BY <2>2, <2>3, <1>1, <1>5, <1>9, <1>10
  <2>6. \A i \in DOMAIN publishing' : publishing'[i].time <= now' BY <1>1, <1>22 DEF InOrder
  <2>7. \A i \in DOMAIN publishing' : r.time <= publishing'[i].time
    <3> SUFFICES ASSUME NEW i \in DOMAIN publishing' PROVE r.time <= publishing'[i].time OBVIOUS
    <3>1. 1 < i + 1 BY <1>3
    <3> QED BY <3>1, <2>1, <1>3, <1>22 DEF InOrder
  <2>8. \A i \in DOMAIN room, j \in DOMAIN publishing' : room[i].time <= publishing'[j].time
    <3> SUFFICES ASSUME NEW i \in DOMAIN room, NEW j \in DOMAIN publishing'
                 PROVE  room[i].time <= publishing'[j].time
      OBVIOUS
    <3>1. PICK k \in DOMAIN records : records[k] = room[i] BY <1>11
    <3> QED BY <3>1, <1>22 DEF InOrder
  <2>9. \A i \in DOMAIN records', j \in DOMAIN publishing' : records'[i].time <= publishing'[j].time
    BY <2>7, <2>8, <1>5, <1>9, <1>10
  <2>10. \A i, j \in DOMAIN publishing' : i < j => publishing'[i].time <= publishing'[j].time
    <3> SUFFICES ASSUME NEW i \in DOMAIN publishing', NEW j \in DOMAIN publishing', i < j
                 PROVE  publishing'[i].time <= publishing'[j].time
      OBVIOUS
    <3>1. i + 1 < j + 1 BY <1>3
    <3> QED BY <3>1, <1>22 DEF InOrder
  <2>11. \A i, j \in DOMAIN records' : i < j => records'[i].time <= records'[j].time
    <3> SUFFICES ASSUME NEW i \in DOMAIN records', NEW j \in DOMAIN records', i < j
                 PROVE  records'[i].time <= records'[j].time
      OBVIOUS
    <3>1. i \in DOMAIN room
      <4>1. i \in 1..(Len(room) + 1) /\ j \in 1..(Len(room) + 1) BY <1>9
      <4> QED BY <4>1, <1>5
    <3>2. records'[i] = room[i] BY <3>1, <1>5, <1>9
    <3>3. CASE j \in DOMAIN room
      <4>1. records'[j] = room[j] BY <3>3, <1>5, <1>9
      <4> QED BY <4>1, <3>1, <3>2, <3>3, <2>4
    <3>4. CASE j = Len(room) + 1 BY <3>1, <3>2, <3>4, <2>2, <1>9
    <3> QED BY <3>3, <3>4, <1>10
  <2> QED BY <2>5, <2>6, <2>9, <2>10, <2>11 DEF InOrder
<1>24. TypeOK'
  <2>1. Len(records') <= Capacity
    <3>1. Capacity \in Nat BY ActivityFeedAssumption
    <3> QED BY <3>1, <1>5, <1>9
  <2>2. \A x \in Records : x.id \in EventIds BY DEF Records
  <2>3. Ids(records) \subseteq EventIds
    <3>1. \A i \in DOMAIN records : records[i] \in Records BY <1>2
    <3> QED BY <3>1, <2>2 DEF Ids
  <2>4. r.id \in EventIds BY <1>3, <2>2
  <2>5. eventIds' \subseteq EventIds BY <1>7, <2>3, <2>4
  <2>6. excused' \in [Filters -> SUBSET EventIds]
    <3>1. \A c \in Filters : excused[c] \subseteq EventIds BY DEF TypeOK
    <3>2. \A c \in Filters :
              excused[c] \cup (Ids(records) \ (Ids(room) \cup seen[c]))
                 \cup (IF cursor[c] # None /\ r.time <= cursor[c] THEN {r.id} ELSE {})
              \in SUBSET EventIds
      BY <3>1, <2>3, <2>4
    <3> QED BY <3>2, <1>7
  <2>7. Len(publishing') <= 2 BY <1>2, <1>3
  <2>8. /\ now' \in 0..MaxTime /\ steppedBack' \in BOOLEAN
        /\ DOMAIN sessions' \subseteq Players /\ \A p \in DOMAIN sessions' : sessions'[p] \in Sessions
        /\ opened' \in 0..MaxSessions
        /\ cursor' \in [Filters -> 0..MaxTime \cup {None}]
        /\ seen' \in [Filters -> SUBSET EventIds]
    BY <1>1 DEF TypeOK
  <2> QED BY <1>3, <1>9, <1>12, <2>1, <2>5, <2>6, <2>7, <2>8 DEF TypeOK
<1>25. NothingElseMissed'
  <2> SUFFICES ASSUME NEW c \in Filters, NEW i \in DOMAIN published', Matches(published'[i], c)
               PROVE  published'[i].id \in seen[c] \cup excused'[c] \cup Awaited(c)'
    BY <1>1 DEF NothingElseMissed, Matches
  <2>1. excused'[c] = excused[c] \cup (Ids(records) \ (Ids(room) \cup seen[c]))
                         \cup IF cursor[c] # None /\ r.time <= cursor[c] THEN {r.id} ELSE {}
    BY <1>7
  <2>2. Awaited(c)' = {x.id : x \in {y \in {records'[j] : j \in DOMAIN records'} :
                                (cursor[c] = None \/ y.time > cursor[c]) /\ Matches(y, c)}}
    BY <1>1 DEF Awaited, Matching, ToSet, Matches
  <2>3. CASE i \in DOMAIN published
    <3>1. published'[i] = published[i] BY <2>3, <1>12
    <3>2. published[i].id \in seen[c] \cup excused[c] \cup Awaited(c)
      BY <2>3, <3>1 DEF NothingElseMissed
    <3>3. CASE published[i].id \in Awaited(c)
      <4>1. PICK k \in DOMAIN records :
                /\ records[k].id = published[i].id
                /\ cursor[c] = None \/ records[k].time > cursor[c]
                /\ Matches(records[k], c)
        BY <3>3 DEF Awaited, Matching, ToSet
      <4>2. CASE records[k].id \in Ids(room)
        <5>1. PICK j \in DOMAIN room : room[j].id = records[k].id BY <4>2 DEF Ids
        <5>2. PICK l \in DOMAIN records : records[l] = room[j] BY <1>11
        <5>3. records[l] = records[k]
          <6>1. k \in DOMAIN records /\ l \in DOMAIN records BY <4>1, <5>2
          <6>2. records[l].id = records[k].id BY <5>1, <5>2
          <6>3. l = k BY <6>1, <6>2 DEF RecordsOnce
          <6> QED BY <6>3
        <5>4. j \in DOMAIN records' /\ records'[j] = records[k]
          <6>1. j \in 1..Len(room) /\ Len(room) \in Nat BY <5>1, <1>5
          <6>2. j \in DOMAIN records' /\ records'[j] = room[j] BY <6>1, <1>9
          <6> QED BY <6>2, <5>2, <5>3
        <5>5. records[k].id \in Awaited(c)' BY <5>4, <4>1, <2>2
        <5> QED BY <5>5, <4>1, <3>1
      <4>3. CASE records[k].id \notin Ids(room)
        <5>1. records[k].id \in Ids(records) BY DEF Ids
        <5> QED BY <5>1, <4>1, <4>3, <3>1, <2>1
      <4> QED BY <4>2, <4>3
    <3> QED BY <3>1, <3>2, <3>3, <2>1
  <2>4. CASE i = Len(published) + 1
    <3>1. published'[i] = r BY <2>4, <1>12
    <3>2. CASE cursor[c] # None /\ r.time <= cursor[c] BY <3>1, <3>2, <2>1
    <3>3. CASE ~(cursor[c] # None /\ r.time <= cursor[c])
      <4>1. cursor[c] = None \/ r.time > cursor[c]
        <5>1. cursor[c] \in 0..MaxTime \cup {None} BY DEF TypeOK
        <5>2. r.time \in Int BY <1>3 DEF Records
        <5> QED BY <5>1, <5>2, <3>3
      <4>2. Len(room) + 1 \in DOMAIN records' /\ records'[Len(room) + 1] = r BY <1>5, <1>9
      <4>3. r.id \in Awaited(c)' BY <4>1, <4>2, <3>1, <2>2
      <4> QED BY <4>3, <3>1
    <3> QED BY <3>2, <3>3
  <2> QED BY <2>3, <2>4, <1>12
<1>26. SessionsTellTheirStory'
  <2>1. \A n : StoryOf(n)' = StoryOf(n) BY <1>16 DEF StoryOf, EventsOf, Told
  <2> QED BY <2>1, <1>1 DEF SessionsTellTheirStory
<1> QED BY <1>15, <1>17, <1>18, <1>19, <1>21, <1>23, <1>24, <1>25, <1>26

-----------------------------------------------------------------------------
(* The theorems of ActivityFeed *)

\* In every state the feed can reach, for every number of players, clients and
\* sessions and every capacity, the inductive invariant holds.
THEOREM FeedInvariantHolds == Spec => []IInv
<1>1. IInv /\ [Next]_vars => IInv'
  <2> SUFFICES ASSUME IInv, [Next]_vars PROVE IInv' OBVIOUS
  <2>1. CASE Advance \/ SetBack BY <2>1, ClockKeepsInv
  <2>2. ASSUME NEW p \in Players, Join(p) PROVE IInv' BY <2>2, JoinKeepsInv
  <2>3. ASSUME NEW p \in Players, Leave(p) PROVE IInv' BY <2>3, LeaveKeepsInv
  <2>4. CASE Publish BY <2>4, PublishKeepsInv
  <2>5. ASSUME NEW c \in Filters, NEW limit \in Limits, Poll(c, limit) PROVE IInv'
    BY <2>5, PollKeepsInv
  <2>6. CASE UNCHANGED vars BY <2>6, StutterKeepsInv
  <2> QED BY <2>1, <2>2, <2>3, <2>4, <2>5, <2>6 DEF Next
<1> QED BY InitHolds, <1>1, PTL DEF Spec

\* Every variable of the feed stays in its range: the buffer within its
\* capacity, and no duration below zero although the clock is set back.
THEOREM FeedTypeCorrect == Spec => []TypeOK
<1>1. IInv => TypeOK BY DEF IInv
<1> QED BY FeedInvariantHolds, <1>1, PTL

\* The buffer's records and its set of identifiers always agree.
THEOREM IdsAgree == Spec => []EventIdsMatchRecords
<1>1. IInv => EventIdsMatchRecords
  <2> SUFFICES ASSUME IInv PROVE EventIdsMatchRecords OBVIOUS
  <2>1. records \in Seq(Records) /\ eventIds = Ids(records) BY DEF IInv, TypeOK
  <2>2. Cardinality(Ids(records)) = Len(records)
    BY <2>1, IdsCounted DEF IInv, RecordsOnce
  <2> QED BY <2>1, <2>2 DEF EventIdsMatchRecords
<1> QED BY FeedInvariantHolds, <1>1, PTL

\* Every session tells its events once and in order, in step with the tracker.
THEOREM StoriesAreTold == Spec => []SessionsTellTheirStory
<1>1. IInv => SessionsTellTheirStory BY DEF IInv
<1> QED BY FeedInvariantHolds, <1>1, PTL

\* The records are in chronological order until the clock is set back.
THEOREM RecordsInOrder == Spec => []ChronologicalUnlessSetBack
<1>1. IInv => ChronologicalUnlessSetBack BY DEF IInv, InOrder, ChronologicalUnlessSetBack
<1> QED BY FeedInvariantHolds, <1>1, PTL

\* Whatever its limits, a client that follows the newest timestamp misses a
\* record only if it was evicted, cut, or not newer than the client's cursor.
THEOREM PollingIsComplete == Spec => []PollingMissesNothingElse
<1>1. IInv => PollingMissesNothingElse
  <2> SUFFICES ASSUME IInv PROVE PollingMissesNothingElse OBVIOUS
  <2>1. \A c \in Filters : Awaited(c) = Ids(Query(cursor[c], c, Capacity)) BY AwaitedIs
  <2> QED BY <2>1 DEF IInv, NothingElseMissed, PollingMissesNothingElse
<1> QED BY FeedInvariantHolds, <1>1, PTL

=============================================================================
